-------------------------- MODULE StoryboardHooks --------------------------
(***************************************************************************)
(* Gerrit tells managesf about patchsets and merged changes; the hook      *)
(* moves the Storyboard tasks that the commit message names and comments   *)
(* on the stories (managesf/services/storyboard/hooks.py, HooksController  *)
(* in controllers/root.py).  An event may come late, twice, or never.      *)
(***************************************************************************)
EXTENDS ServiceRequests

CONSTANTS Tasks, Stories,
          Messages,      \* texts of comments
          Events         \* events that Gerrit may send

\* status is what the event makes of tasks; related are those of the lines
\* "Related-Task", stories those of "Story" and "Related-Story" together.
Event == [status: {"inprogress", "merged"}, tasks: SUBSET Tasks,
          related: SUBSET Tasks, stories: SUBSET Stories, message: Messages]

ASSUME EventsAssumption == Events \subseteq Event /\ Events # {}

VARIABLES
    task,        \* status of each task on Storyboard
    comments,    \* how often each message is among the comments of a story
    event,       \* the event being handled
    left,        \* tasks and stories its loops have not visited
    current,     \* the task or story being visited
    errors,      \* some call has raised
    msg,         \* the message of the answer
    delivered,   \* ghost: the events that have come so far
    moved,       \* ghost: tasks somebody has ever moved by hand
    touched      \* ghost: those moved by hand since this event came

hookVars == <<task, comments, event, left, current, errors, msg, delivered, moved, touched>>
storyboard == <<task, comments>>
hookGhosts == <<delivered, moved, touched>>

Statuses == {"todo", "inprogress", "merged"}
NothingLeft == [tasks |-> {}, stories |-> {}]

HookInit ==
    /\ task = [t \in Tasks |-> "todo"]
    /\ comments = [s \in Stories |-> [m \in Messages |-> 0]]
    /\ event = CHOOSE e \in Events : TRUE
    /\ left = NothingLeft /\ current = {} /\ errors = FALSE /\ msg = "none"
    /\ delivered = {} /\ moved = {} /\ touched = {}

\* A plausible slip: related tasks are closed with the change.
NamedAlways(e) == e.tasks \union e.related

\* The tasks an event moves: "Don't update related task on change_merged".
Named(e) == e.tasks \union IF e.status = "inprogress" THEN e.related ELSE {}

-----------------------------------------------------------------------------

\* The project of the repository has Storyboard for its tracker.
Deliver(e) ==
    /\ Come("client")
    /\ event' = e /\ left' = [tasks |-> Named(e), stories |-> e.stories]
    /\ errors' = FALSE /\ msg' = "none" /\ current' = {}
    /\ delivered' = delivered \union {e} /\ touched' = {}
    /\ UNCHANGED <<storyboard, moved>>

\* The repository is in no project (204), the tracker of its project is no
\* service (400), or the config repository cannot be read (500).
DeliverElsewhere(e) ==
    /\ pc \in {"idle", "answered"}
    /\ event' = e /\ left' = NothingLeft
    /\ errors' = FALSE /\ msg' = "none" /\ current' = {} /\ touched' = {}
    /\ \E code \in {204, 400, 500} : Answer(code)
    /\ UNCHANGED <<storyboard, delivered, moved>>

GetClient ==
    /\ pc = "client" /\ GoOn("tasks")
    /\ UNCHANGED hookVars

\* Outside the loops an exception ends the hook.
GetClientRaises ==
    /\ pc = "client" /\ Answer(400)
    /\ UNCHANGED hookVars

\* A plausible slip: a task that has left the first column is not moved.
ReadTaskOnce(t) ==
    /\ pc = "tasks" /\ t \in left.tasks
    /\ IF task[t] # "todo"
       THEN GoOn("tasks") /\ left' = [left EXCEPT !.tasks = @ \ {t}] /\ UNCHANGED current
       ELSE GoOn("move") /\ current' = {t} /\ UNCHANGED left
    /\ UNCHANGED <<storyboard, event, errors, msg, hookGhosts>>

ReadTask(t) ==
    /\ pc = "tasks" /\ t \in left.tasks
    /\ IF task[t] = event.status
       THEN GoOn("tasks") /\ left' = [left EXCEPT !.tasks = @ \ {t}] /\ UNCHANGED current
       ELSE GoOn("move") /\ current' = {t} /\ UNCHANGED left
    /\ UNCHANGED <<storyboard, event, errors, msg, hookGhosts>>

ReadTaskRaises(t) ==
    /\ pc = "tasks" /\ t \in left.tasks /\ GoOn("tasks")
    /\ left' = [left EXCEPT !.tasks = @ \ {t}] /\ errors' = TRUE
    /\ UNCHANGED <<storyboard, event, current, msg, hookGhosts>>

\* The task being visited takes the status of the event.
Moved == [t \in Tasks |-> IF t \in current THEN event.status ELSE task[t]]

MoveTask ==
    /\ pc = "move" /\ GoOn("tasks")
    /\ task' = Moved
    /\ left' = [left EXCEPT !.tasks = @ \ current] /\ current' = {}
    /\ UNCHANGED <<comments, event, errors, msg, hookGhosts>>

\* The update fails, or only its answer is lost.
MoveTaskRaises ==
    /\ pc = "move" /\ GoOn("tasks")
    /\ task' \in {task, Moved}
    /\ left' = [left EXCEPT !.tasks = @ \ current] /\ current' = {} /\ errors' = TRUE
    /\ UNCHANGED <<comments, event, msg, hookGhosts>>

TasksDone ==
    /\ pc = "tasks" /\ left.tasks = {} /\ GoOn("stories")
    /\ UNCHANGED hookVars

\* A plausible slip: nobody looks for the comment.
ReadStoryBlindly(s) ==
    /\ pc = "stories" /\ s \in left.stories
    /\ GoOn("comment") /\ current' = {s} /\ UNCHANGED left
    /\ UNCHANGED <<storyboard, event, errors, msg, hookGhosts>>

\* The story and its comments are read.
ReadStory(s) ==
    /\ pc = "stories" /\ s \in left.stories
    /\ IF comments[s][event.message] > 0
       THEN GoOn("stories") /\ left' = [left EXCEPT !.stories = @ \ {s}] /\ UNCHANGED current
       ELSE GoOn("comment") /\ current' = {s} /\ UNCHANGED left
    /\ UNCHANGED <<storyboard, event, errors, msg, hookGhosts>>

ReadStoryRaises(s) ==
    /\ pc = "stories" /\ s \in left.stories /\ GoOn("stories")
    /\ left' = [left EXCEPT !.stories = @ \ {s}] /\ errors' = TRUE
    /\ UNCHANGED <<storyboard, event, current, msg, hookGhosts>>

\* The story being visited has the message once more.
Commented ==
    [s \in Stories |-> [m \in Messages |->
        comments[s][m] + IF s \in current /\ m = event.message THEN 1 ELSE 0]]

Comment ==
    /\ pc = "comment" /\ GoOn("stories")
    /\ comments' = Commented
    /\ left' = [left EXCEPT !.stories = @ \ current] /\ current' = {}
    /\ UNCHANGED <<task, event, errors, msg, hookGhosts>>

CommentRaises ==
    /\ pc = "comment" /\ GoOn("stories")
    /\ comments' \in {comments, Commented}
    /\ left' = [left EXCEPT !.stories = @ \ current] /\ current' = {} /\ errors' = TRUE
    /\ UNCHANGED <<task, event, msg, hookGhosts>>

\* 200, whatever has failed: only the message tells.
Reply ==
    /\ pc = "stories" /\ left.stories = {} /\ Answer(200)
    /\ msg' = IF Named(event) = {} /\ event.stories = {} THEN "nothing to do"
              ELSE IF errors THEN "errors" ELSE "success"
    /\ UNCHANGED <<storyboard, event, left, current, errors, hookGhosts>>

\* Somebody moves a task (external).
MoveByHand(t) ==
    /\ Elsewhere
    /\ \E st \in Statuses \ {task[t]} : task' = [task EXCEPT ![t] = st]
    /\ moved' = moved \union {t} /\ touched' = touched \union {t}
    /\ UNCHANGED <<comments, event, left, current, errors, msg, delivered>>

HookRequest == \E e \in Events : Deliver(e) \/ DeliverElsewhere(e)

HookFault ==
    \/ GetClientRaises \/ MoveTaskRaises \/ CommentRaises
    \/ \E t \in Tasks : ReadTaskRaises(t)
    \/ \E s \in Stories : ReadStoryRaises(s)
    \/ Killed /\ UNCHANGED hookVars

HookStep ==
    \/ GetClient \/ MoveTask \/ TasksDone \/ Comment \/ Reply
    \/ \E t \in Tasks : ReadTask(t)
    \/ \E s \in Stories : ReadStory(s)

HookNext ==
    \/ HookRequest \/ HookStep \/ HookFault
    \/ Sent /\ UNCHANGED hookVars
    \/ \E t \in Tasks : MoveByHand(t)

-----------------------------------------------------------------------------

HookTypeOK ==
    /\ task \in [Tasks -> Statuses]
    /\ comments \in [Stories -> [Messages -> Nat]]
    /\ event \in Events /\ delivered \subseteq Events
    /\ left \in [tasks: SUBSET Tasks, stories: SUBSET Stories]
    /\ current \in (SUBSET Tasks) \union (SUBSET Stories)
    /\ errors \in BOOLEAN /\ msg \in {"none", "nothing to do", "errors", "success"}
    /\ touched \subseteq moved /\ moved \subseteq Tasks
    /\ pc \in {"idle", "answered", "client", "tasks", "move", "stories", "comment"}
    /\ pc = "move" => current \subseteq left.tasks /\ current # {}
    /\ pc = "comment" => current \subseteq left.stories /\ current # {}

\* "Success" is said of the whole event: every task it moves has its status,
\* unless somebody has moved it since, and every story its message, whatever
\* earlier deliveries of this or other events had failed to do.
SuccessMoved ==
    kind = "hooks" /\ pc = "answered" /\ msg = "success" =>
        /\ \A t \in Named(event) \ touched : task[t] = event.status
        /\ \A s \in event.stories : comments[s][event.message] = 1

\* However often an event comes, and wherever its handling is cut short, no
\* story gets the same message twice.
NoMessageTwice ==
    kind = "hooks" => \A s \in Stories, m \in Messages : comments[s][m] <= 1

\* A task is where it is because of somebody, or of an event that names it: in
\* particular only the merge of a change that names it as its own task, and not
\* as a related one, closes it.  A message is on stories its event names.
StatusHasCause ==
    kind = "hooks" =>
        /\ \A t \in Tasks \ moved :
              \/ task[t] = "todo"
              \/ \E e \in delivered :
                    /\ task[t] = e.status
                    /\ (t \in e.tasks \/ (e.status = "inprogress" /\ t \in e.related))
        /\ \A s \in Stories, m \in Messages :
              comments[s][m] > 0 => \E e \in delivered : e.message = m /\ s \in e.stories

\* Events are not ordered, so the last one to come wins.  Once Storyboard and
\* the process work and nobody else moves its tasks, an event that is delivered
\* again and again, and no other, leaves its tasks as it says and its stories
\* commented for good, whatever was done half-way before.
OnlyEvent(e) ==
    [][ /\ ~HookFault /\ (\A t \in Tasks : ~MoveByHand(t))
        /\ (\A d \in Events : ~DeliverElsewhere(d) /\ (Deliver(d) => d = e)) ]_<<requestVars, hookVars>>
RedeliveryHeals ==
    \A e \in Events :
        <>OnlyEvent(e) /\ []<><<Deliver(e)>>_<<requestVars, hookVars>> =>
            <>[](/\ \A t \in Named(e) : task[t] = e.status
                 /\ \A s \in e.stories : comments[s][e.message] > 0)
=============================================================================
