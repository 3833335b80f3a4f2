------------------------ MODULE ServicePluginsProofs ------------------------
(* Theorems about ServicePlugins, for every set of events, tasks, stories,  *)
(* builds, nodes and addresses: what hooks leave on Storyboard, what is said *)
(* of builds, and where keys go.                                             *)
EXTENDS ServicePlugins, SequenceTheorems, TLAPS

-----------------------------------------------------------------------------
(* Hooks.                                                                  *)

Handling == pc \in {"client", "tasks", "move", "stories", "comment"}

\* The event being handled has come, and what is left of it is part of it.
EventInHand ==
    Handling =>
        /\ event \in delivered /\ msg = "none"
        /\ left.tasks \subseteq Named(event) /\ left.stories \subseteq event.stories
        /\ pc \in {"stories", "comment"} => left.tasks = {}

OneMessage ==
    /\ \A s \in Stories, m \in Messages : comments[s][m] <= 1
    /\ pc = "comment" => \A s \in current : comments[s][event.message] = 0

Cause ==
    /\ \A t \in Tasks \ moved :
          \/ task[t] = "todo"
          \/ \E e \in delivered : task[t] = e.status /\ t \in Named(e)
    /\ \A s \in Stories, m \in Messages :
          comments[s][m] > 0 => \E e \in delivered : e.message = m /\ s \in e.stories

\* What the loops have left behind them is done, unless a call has raised.
Visited ==
    /\ (Handling /\ ~errors) \/ (pc = "answered" /\ msg = "success") =>
          /\ \A t \in (Named(event) \ touched) \ left.tasks : task[t] = event.status
          /\ \A s \in event.stories \ left.stories : comments[s][event.message] = 1
    /\ pc = "answered" /\ msg = "success" => left.tasks = {} /\ left.stories = {}

HookInv == HookTypeOK /\ EventInHand /\ OneMessage /\ Cause /\ Visited

\* The events that are sent are events.
LEMMA EventShape ==
    \A e \in Events :
        /\ e.status \in {"inprogress", "merged"} /\ e.message \in Messages
        /\ e.tasks \subseteq Tasks /\ e.related \subseteq Tasks /\ e.stories \subseteq Stories
        /\ Named(e) \subseteq Tasks
  BY EventsAssumption DEF Event, Named

LEMMA HookInitInv == ASSUME RequestInit, HookInit PROVE HookInv
  <1>1. (CHOOSE e \in Events : TRUE) \in Events
    BY EventsAssumption
  <1>2. HookTypeOK
    BY <1>1 DEF RequestInit, HookInit, HookTypeOK, NothingLeft, Statuses
  <1>3. EventInHand /\ Visited
    BY DEF RequestInit, HookInit, EventInHand, Visited, Handling
  <1>4. \A s \in Stories, m \in Messages : comments[s][m] = 0
    BY DEF HookInit
  <1>5. OneMessage /\ Cause
    BY <1>4 DEF RequestInit, HookInit, OneMessage, Cause
  <1>. QED
    BY <1>2, <1>3, <1>5 DEF HookInv

\* An event comes.
LEMMA DeliverInv ==
    ASSUME HookInv, NEW e \in Events, Deliver(e) \/ DeliverElsewhere(e)
    PROVE  HookInv'
  <1>1. CASE Deliver(e)
    BY <1>1, EventShape
       DEF Deliver, Come, HookInv, HookTypeOK, EventInHand, OneMessage, Cause, Visited,
           Handling, storyboard
  <1>2. CASE DeliverElsewhere(e)
    <2>1. /\ pc' = "answered" /\ event' = e /\ left' = NothingLeft /\ current' = {}
          /\ errors' = FALSE /\ msg' = "none" /\ touched' = {}
          /\ UNCHANGED <<task, comments, delivered, moved>>
      BY <1>2 DEF DeliverElsewhere, Answer, storyboard
    <2>2. HookTypeOK'
      BY <2>1 DEF HookInv, HookTypeOK, NothingLeft
    <2>. QED
      BY <2>1, <2>2 DEF HookInv, EventInHand, OneMessage, Cause, Visited, Handling
  <1>. QED
    BY <1>1, <1>2

\* A task is read, and is left alone or is to be moved.
LEMMA ReadTaskInv ==
    ASSUME HookInv, NEW t \in Tasks, ReadTask(t) \/ ReadTaskRaises(t)
    PROVE  HookInv'
  <1>1. CASE ReadTask(t)
    <2>1. /\ pc = "tasks" /\ t \in left.tasks
          /\ UNCHANGED <<task, comments, event, errors, msg, delivered, moved, touched>>
      BY <1>1 DEF ReadTask, storyboard, hookGhosts
    <2>2. CASE task[t] = event.status
      <3>1. pc' = "tasks" /\ left' = [left EXCEPT !.tasks = @ \ {t}] /\ current' = current
        BY <1>1, <2>2 DEF ReadTask, GoOn
      <3>2. HookTypeOK' /\ EventInHand' /\ OneMessage' /\ Cause'
        BY <2>1, <3>1 DEF HookInv, HookTypeOK, EventInHand, OneMessage, Cause, Handling
      <3>3. Visited'
        BY <2>1, <2>2, <3>1 DEF HookInv, HookTypeOK, Visited, Handling
      <3>. QED
        BY <3>2, <3>3 DEF HookInv
    <2>3. CASE task[t] # event.status
      <3>1. pc' = "move" /\ left' = left /\ current' = {t}
        BY <1>1, <2>3 DEF ReadTask, GoOn
      <3>. QED
        BY <2>1, <3>1 DEF HookInv, HookTypeOK, EventInHand, OneMessage, Cause, Visited, Handling
    <2>. QED
      BY <2>2, <2>3
  <1>2. CASE ReadTaskRaises(t)
    BY <1>2 DEF ReadTaskRaises, GoOn, HookInv, HookTypeOK, EventInHand, OneMessage, Cause,
                Visited, Handling, storyboard, hookGhosts
  <1>. QED
    BY <1>1, <1>2

LEMMA MoveTaskInv == ASSUME HookInv, MoveTask \/ MoveTaskRaises PROVE HookInv'
  <1>1. /\ pc = "move" /\ pc' = "tasks" /\ task' \in {task, Moved}
        /\ left' = [left EXCEPT !.tasks = @ \ current] /\ current' = {}
        /\ UNCHANGED <<comments, event, msg, delivered, moved, touched>>
        /\ (task' = Moved /\ errors' = errors) \/ errors' = TRUE
    BY DEF MoveTask, MoveTaskRaises, GoOn, hookGhosts
  <1>2. event \in Events /\ current \subseteq left.tasks /\ left.tasks \subseteq Named(event)
    BY <1>1 DEF HookInv, HookTypeOK, EventInHand, Handling
  <1>3. Moved \in [Tasks -> Statuses]
    BY <1>2, EventShape DEF Moved, HookInv, HookTypeOK, Statuses
  <1>4. HookTypeOK'
    BY <1>1, <1>3 DEF HookInv, HookTypeOK
  <1>5. EventInHand' /\ OneMessage'
    BY <1>1 DEF HookInv, HookTypeOK, EventInHand, OneMessage, Handling
  <1>6. Cause'
    BY <1>1, <1>2 DEF Moved, HookInv, HookTypeOK, EventInHand, Cause, Handling
  <1>7. Visited'
    <2>1. \A t \in Tasks : Moved[t] = IF t \in current THEN event.status ELSE task[t]
      BY DEF Moved
    <2>2. Named(event) \subseteq Tasks
      BY <1>2, EventShape
    <2>3. left'.tasks = left.tasks \ current /\ left'.stories = left.stories
      BY <1>1 DEF HookInv, HookTypeOK
    <2>4. CASE errors'
      BY <1>1, <2>4 DEF Visited, Handling
    <2>5. CASE ~errors'
      BY <1>1, <2>1, <2>2, <2>3, <2>5 DEF HookInv, Visited, Handling
    <2>. QED
      BY <2>4, <2>5
  <1>. QED
    BY <1>4, <1>5, <1>6, <1>7 DEF HookInv

\* A story is read, and needs the message or not.
LEMMA ReadStoryInv ==
    ASSUME HookInv, NEW s \in Stories, ReadStory(s) \/ ReadStoryRaises(s)
    PROVE  HookInv'
  <1>1. event \in Events /\ event.message \in Messages /\ comments[s][event.message] \in Nat
    <2>1. event \in Events /\ comments \in [Stories -> [Messages -> Nat]]
      BY DEF HookInv, HookTypeOK
    <2>2. event.message \in Messages
      BY <2>1, EventShape
    <2>3. comments[s] \in [Messages -> Nat]
      BY <2>1
    <2>. QED
      BY <2>1, <2>2, <2>3
  <1>2. CASE ReadStory(s)
    <2>1. /\ pc = "stories" /\ s \in left.stories
          /\ UNCHANGED <<task, comments, event, errors, msg, delivered, moved, touched>>
      BY <1>2 DEF ReadStory, storyboard, hookGhosts
    <2>2. CASE comments[s][event.message] > 0
      <3>1. pc' = "stories" /\ left' = [left EXCEPT !.stories = @ \ {s}] /\ current' = current
        BY <1>2, <2>2 DEF ReadStory, GoOn
      <3>2. comments[s][event.message] = 1
        BY <1>1, <2>2 DEF HookInv, OneMessage
      <3>3. HookTypeOK' /\ EventInHand' /\ OneMessage' /\ Cause'
        BY <2>1, <3>1 DEF HookInv, HookTypeOK, EventInHand, OneMessage, Cause, Handling
      <3>4. Visited'
        BY <2>1, <3>1, <3>2 DEF HookInv, HookTypeOK, Visited, Handling
      <3>. QED
        BY <3>3, <3>4 DEF HookInv
    <2>3. CASE ~(comments[s][event.message] > 0)
      <3>1. pc' = "comment" /\ left' = left /\ current' = {s}
        BY <1>2, <2>3 DEF ReadStory, GoOn
      <3>2. comments[s][event.message] = 0
        BY <1>1, <2>3
      <3>3. HookTypeOK'
        <4>1. {s} \in SUBSET Stories /\ {s} \subseteq left.stories /\ {s} # {}
          BY <2>1
        <4>2. current' \in (SUBSET Tasks) \union (SUBSET Stories)
          BY <3>1, <4>1
        <4>3. pc' = "comment" => current' \subseteq left'.stories /\ current' # {}
          BY <3>1, <4>1
        <4>. QED
          BY <2>1, <3>1, <4>2, <4>3 DEF HookInv, HookTypeOK
      <3>6. EventInHand'
        BY <2>1, <3>1 DEF HookInv, EventInHand, Handling
      <3>4. OneMessage' /\ Cause'
        BY <2>1, <3>1, <3>2 DEF HookInv, OneMessage, Cause
      <3>5. Visited'
        BY <2>1, <3>1 DEF HookInv, Visited, Handling
      <3>. QED
        BY <3>3, <3>4, <3>5, <3>6 DEF HookInv
    <2>. QED
      BY <2>2, <2>3
  <1>3. CASE ReadStoryRaises(s)
    BY <1>3 DEF ReadStoryRaises, GoOn, HookInv, HookTypeOK, EventInHand, OneMessage, Cause,
                Visited, Handling, storyboard, hookGhosts
  <1>. QED
    BY <1>2, <1>3

LEMMA CommentInv == ASSUME HookInv, Comment \/ CommentRaises PROVE HookInv'
  <1>1. /\ pc = "comment" /\ pc' = "stories" /\ comments' \in {comments, Commented}
        /\ left' = [left EXCEPT !.stories = @ \ current] /\ current' = {}
        /\ UNCHANGED <<task, event, msg, delivered, moved, touched>>
        /\ (comments' = Commented /\ errors' = errors) \/ errors' = TRUE
    BY DEF Comment, CommentRaises, GoOn, hookGhosts
  <1>2. event \in Events /\ current \subseteq left.stories /\ left.stories \subseteq event.stories
    BY <1>1 DEF HookInv, HookTypeOK, EventInHand, Handling
  <1>3. \A s \in Stories, m \in Messages :
           /\ comments[s][m] \in Nat /\ comments[s][m] <= 1
           /\ Commented[s][m] = comments[s][m] + IF s \in current /\ m = event.message THEN 1 ELSE 0
           /\ s \in current => comments[s][event.message] = 0
    <2> TAKE s \in Stories, m \in Messages
    <2>1. comments \in [Stories -> [Messages -> Nat]]
      BY DEF HookInv, HookTypeOK
    <2>2. comments[s] \in [Messages -> Nat]
      BY <2>1
    <2>. QED
      BY <1>1, <2>2 DEF Commented, HookInv, OneMessage
  <1>4. Commented \in [Stories -> [Messages -> Nat]]
    BY <1>3 DEF Commented
  <1>5. HookTypeOK'
    BY <1>1, <1>4 DEF HookInv, HookTypeOK
  <1>6. EventInHand'
    BY <1>1 DEF HookInv, HookTypeOK, EventInHand, Handling
  <1>7. OneMessage'
    BY <1>1, <1>3 DEF OneMessage
  <1>8. Cause'
    BY <1>1, <1>2, <1>3 DEF HookInv, EventInHand, Cause, Handling
  <1>9. Visited'
    <2>1. event.message \in Messages /\ event.stories \subseteq Stories
      BY <1>2, EventShape
    <2>2. left'.stories = left.stories \ current /\ left'.tasks = left.tasks
      BY <1>1 DEF HookInv, HookTypeOK
    <2>3. CASE errors'
      BY <1>1, <2>3 DEF Visited, Handling
    <2>4. CASE ~errors'
      BY <1>1, <1>3, <2>1, <2>2, <2>4 DEF HookInv, Visited, Handling
    <2>. QED
      BY <2>3, <2>4
  <1>. QED
    BY <1>5, <1>6, <1>7, <1>8, <1>9 DEF HookInv

LEMMA MoveByHandInv == ASSUME HookInv, NEW t \in Tasks, MoveByHand(t) PROVE HookInv'
  <1>1. PICK st \in Statuses : task' = [task EXCEPT ![t] = st]
    BY DEF MoveByHand
  <1>2. /\ pc # "answered" /\ pc' = pc /\ moved' = moved \union {t} /\ touched' = touched \union {t}
        /\ UNCHANGED <<comments, event, left, current, errors, msg, delivered>>
    BY DEF MoveByHand, Elsewhere, requestVars
  <1>3. HookTypeOK' /\ EventInHand' /\ OneMessage'
    BY <1>1, <1>2 DEF HookInv, HookTypeOK, EventInHand, OneMessage, Handling
  <1>4. \A k \in Tasks : k # t => task'[k] = task[k]
    BY <1>1 DEF HookInv, HookTypeOK
  <1>5. Cause'
    BY <1>2, <1>4 DEF HookInv, Cause
  <1>6. event \in Events /\ Named(event) \subseteq Tasks
    BY EventShape DEF HookInv, HookTypeOK
  <1>7. Visited'
    BY <1>2, <1>4, <1>6 DEF HookInv, Visited, Handling
  <1>. QED
    BY <1>3, <1>5, <1>7 DEF HookInv

\* The steps between the loops, the answer, and the end of the process.
LEMMA HookRestInv ==
    ASSUME HookInv,
           GetClient \/ TasksDone \/ Reply \/ GetClientRaises
               \/ ((Sent \/ Killed) /\ UNCHANGED hookVars)
    PROVE  HookInv'
  <1>1. CASE GetClient
    BY <1>1 DEF GetClient, GoOn, HookInv, HookTypeOK, EventInHand,
                OneMessage, Cause, Visited, Handling, hookVars
  <1>5. CASE GetClientRaises
    BY <1>5 DEF GetClientRaises, Answer, HookInv, HookTypeOK, EventInHand,
                OneMessage, Cause, Visited, Handling, hookVars
  <1>2. CASE TasksDone
    BY <1>2 DEF TasksDone, GoOn, HookInv, HookTypeOK, EventInHand,
                OneMessage, Cause, Visited, Handling, hookVars
  <1>3. CASE Reply
    BY <1>3 DEF Reply, Answer, HookInv, HookTypeOK, EventInHand,
                OneMessage, Cause, Visited, Handling, storyboard, hookGhosts
  <1>4. CASE (Sent \/ Killed) /\ UNCHANGED hookVars
    BY <1>4 DEF Sent, Killed, HookInv, HookTypeOK, EventInHand,
                OneMessage, Cause, Visited, Handling, hookVars
  <1>. QED
    BY <1>1, <1>2, <1>3, <1>4, <1>5

LEMMA HookNextInv == ASSUME HookInv, HookNext PROVE HookInv'
  BY DeliverInv, ReadTaskInv, MoveTaskInv, ReadStoryInv, CommentInv, MoveByHandInv,
     HookRestInv DEF HookNext, HookRequest, HookStep, HookFault

-----------------------------------------------------------------------------
(* Jobs.                                                                   *)

\* What run() knows of the number it will answer, or has answered: it is the
\* next one, unless another build has begun.
RunInHand ==
    /\ pc \in {"build", "read"} \/ answer = 201 =>
          /\ number >= first /\ number # 0
          /\ own = 0 => (overtaken => NextNumber(builds) > number)
                        /\ (~overtaken => NextNumber(builds) = number)
          /\ own # 0 => (own = number <=> ~overtaken)
    /\ pc \in {"number", "build"} => own = 0 /\ ~waiting
    /\ waiting => own = 0
    /\ first <= NextNumber(builds)
    /\ pc \notin {"idle", "answered"} => answer = 0

\* All that is said of builds has been seen.
AllSeen ==
    /\ pc # "idle" => StatusesOf(builds, asked) \subseteq seen
    /\ pc # "idle" => \A p \in statuses : IF p[2] = "PENDING" THEN p[1] >= first ELSE p \in seen
    /\ pc \in {"stop", "info"} /\ asked.id # 0 => unread \subseteq {asked.id}

\* What a listing has not asked about is still to be asked.
Listed ==
    /\ pc = "script" => statuses = {}
    /\ asked.op = "all" /\ (pc = "info" \/ (pc = "answered" /\ answer = 200 /\ statuses # {})) =>
          \A n \in 1..(first - 1) :
              Known(builds, n) => n \in unread \/ \E p \in statuses : p[1] = n
    /\ pc = "answered" /\ answer = 200 /\ statuses # {} => unread = {}

JobInv == JobTypeOK /\ RunInHand /\ AllSeen /\ Listed

\* Builds that end, have their result or are deleted stay a sequence.
LEMMA ChangedBuilds ==
    ASSUME NEW b \in Seq(States), NEW n \in DOMAIN b, NEW s \in States
    PROVE  /\ [b EXCEPT ![n] = s] \in Seq(States)
           /\ Len([b EXCEPT ![n] = s]) = Len(b)
           /\ s = "deleted" \/ Known(b, n) =>
                 \A m : Known([b EXCEPT ![n] = s], m) => Known(b, m)
  <1>1. [b EXCEPT ![n] = s] \in Seq(States) /\ Len([b EXCEPT ![n] = s]) = Len(b)
    BY ExceptSeq
  <1>2. DOMAIN [b EXCEPT ![n] = s] = DOMAIN b
    OBVIOUS
  <1>. QED
    BY <1>1, <1>2 DEF Known

\* A new build changes nothing for the others.
LEMMA MoreBuilds ==
    ASSUME NEW b \in Seq(States)
    PROVE  /\ Append(b, "building") \in Seq(States)
           /\ Len(Append(b, "building")) = Len(b) + 1
           /\ \A m \in 1..Len(b) : Known(Append(b, "building"), m) => Known(b, m)
  BY DEF Known, States

LEMMA StatusShape ==
    ASSUME NEW b \in Seq(States), NEW n, Known(b, n)
    PROVE  /\ n \in Nat \ {0}
           /\ Status(b[n]) \in {"IN_PROGRESS", "None", "ended"}
  BY DEF Known, Status, States

LEMMA JobInitInv == ASSUME RequestInit, JobInit PROVE JobInv
  <1>1. /\ pc = "idle" /\ answer = 0 /\ builds = <<>> /\ waiting = FALSE
        /\ asked = NoRequest /\ number = 0 /\ unread = {} /\ statuses = {}
        /\ first = 1 /\ own = 0 /\ overtaken = FALSE
    BY DEF RequestInit, JobInit
  <1>2. <<>> \in Seq(States) /\ Len(<<>>) = 0 /\ NoRequest \in JobRequests
    BY DEF NoRequest, JobRequests
  <1>3. JobTypeOK
    BY <1>1, <1>2 DEF JobTypeOK
  <1>4. NextNumber(builds) = 1
    BY <1>1, <1>2 DEF NextNumber
  <1>5. RunInHand
    BY <1>1, <1>4 DEF RunInHand
  <1>. QED
    BY <1>1, <1>3, <1>5 DEF JobInv, AllSeen, Listed

LEMMA AskJobInv == ASSUME JobInv, NEW r \in JobRequests, AskJob(r) PROVE JobInv'
  <1>1. /\ pc' = IF r.op = "run" THEN "number" ELSE IF r.op = "stop" THEN "stop"
                 ELSE IF r.op = "all" THEN "script" ELSE "info"
        /\ answer' = 0 /\ asked' = r /\ builds' = builds
        /\ unread' = IF r.op \in {"run", "all"} THEN {} ELSE {r.id}
        /\ statuses' = {} /\ number' = 0 /\ waiting' = FALSE
        /\ first' = NextNumber(builds) /\ own' = 0 /\ overtaken' = FALSE
        /\ seen' = StatusesOf(builds, r)
    BY DEF AskJob, Come
  <1>2. /\ r.op \in {"run", "all", "stop", "one", "about"} /\ r.id \in Nat
        /\ r.op = "stop" => r.id # 0
    BY MaxBuildsAssumption DEF JobRequests, Ids
  <1>3. NextNumber(builds) \in Nat
    BY DEF NextNumber, JobInv, JobTypeOK
  <1>4. JobTypeOK'
    BY <1>1, <1>2, <1>3 DEF JobInv, JobTypeOK
  <1>5. RunInHand'
    BY <1>1, <1>2, <1>3 DEF RunInHand, NextNumber
  <1>6. AllSeen'
    BY <1>1, <1>2 DEF AllSeen, StatusesOf
  <1>7. Listed'
    BY <1>1, <1>2 DEF Listed
  <1>. QED
    BY <1>4, <1>5, <1>6, <1>7 DEF JobInv

\* run(): the number, the build, its status.
LEMMA RunInv ==
    ASSUME JobInv, ReadNumber \/ BuildJob \/ BuildJobRaises
    PROVE  JobInv'
  <1>1. builds \in Seq(States) /\ NextNumber(builds) \in Nat /\ NextNumber(builds) # 0
    BY DEF NextNumber, JobInv, JobTypeOK
  <1>2. CASE ReadNumber
    <2>1. /\ pc = "number" /\ pc' = "build" /\ number' = NextNumber(builds) /\ overtaken' = FALSE
          /\ UNCHANGED <<answer, builds, waiting, asked, unread, statuses, first, own, seen>>
      BY <1>2 DEF ReadNumber, GoOn
    <2>2. asked.op = "run"
      BY <2>1 DEF JobInv, JobTypeOK
    <2>3. JobTypeOK'
      BY <1>1, <2>1, <2>2 DEF JobInv, JobTypeOK
    <2>4. NextNumber(builds)' = NextNumber(builds)
      BY <2>1 DEF NextNumber
    <2>5. RunInHand'
      BY <1>1, <2>1, <2>4 DEF JobInv, RunInHand, JobTypeOK
    <2>. QED
      BY <2>1, <2>3, <2>5 DEF JobInv, AllSeen, Listed
  <1>3. CASE BuildJob
    <2>1. /\ pc = "build" /\ pc' = "read" /\ waiting' = TRUE
          /\ UNCHANGED <<answer, builds, asked, number, unread, statuses, first, own, overtaken, seen>>
      BY <1>3 DEF BuildJob, GoOn, jobGhosts
    <2>. QED
      BY <1>1, <2>1 DEF JobInv, JobTypeOK, RunInHand, AllSeen, Listed
  <1>4. CASE BuildJobRaises
    <2>1. /\ pc = "build" /\ pc' = "answered" /\ answer' = 500 /\ waiting' \in BOOLEAN
          /\ UNCHANGED <<builds, asked, number, unread, statuses, first, own, overtaken, seen>>
      BY <1>4 DEF BuildJobRaises, Answer, jobGhosts
    <2>. QED
      BY <1>1, <2>1 DEF JobInv, JobTypeOK, RunInHand, AllSeen, Listed
  <1>. QED
    BY <1>2, <1>3, <1>4

LEMMA ReadInv == ASSUME JobInv, ReadOwn \/ ReadOwnRaises PROVE JobInv'
  <1>1. /\ pc = "read" /\ pc' = "answered" /\ answer' = 201
        /\ statuses' \in {{<<number, RunStatus(number)>>}, {<<number, "PENDING">>}}
        /\ UNCHANGED <<builds, waiting, asked, number, unread, first, own, overtaken, seen>>
    BY DEF ReadOwn, ReadOwnRaises, Answer, jobGhosts
  <1>2. builds \in Seq(States) /\ number \in Nat /\ number >= first /\ asked.op = "run" /\ asked.id = 0
    BY <1>1 DEF JobInv, JobTypeOK, RunInHand, JobRequests
  <1>3. /\ RunStatus(number) \in {"IN_PROGRESS", "None", "PENDING", "ended"}
        /\ RunStatus(number) # "PENDING" => <<number, RunStatus(number)>> \in StatusesOf(builds, asked)
    <2>1. CASE Known(builds, number) /\ builds[number] # "blank"
      BY <1>2, <2>1, StatusShape DEF RunStatus, StatusesOf, Known
    <2>2. CASE ~(Known(builds, number) /\ builds[number] # "blank")
      BY <2>2 DEF RunStatus
    <2>. QED
      BY <2>1, <2>2
  <1>4. JobTypeOK' /\ RunInHand' /\ Listed'
    BY <1>1, <1>2, <1>3 DEF JobInv, JobTypeOK, RunInHand, Listed
  <1>5. AllSeen'
    BY <1>1, <1>2, <1>3 DEF JobInv, AllSeen
  <1>. QED
    BY <1>4, <1>5 DEF JobInv

\* Listing, stopping, and their answers.
LEMMA ListInv ==
    ASSUME JobInv, RunScript \/ ScriptPrintsError \/ CallRaises \/ ReplyJobs
    PROVE  JobInv'
  <1>1. builds \in Seq(States) /\ DOMAIN builds \subseteq Nat
    BY DEF JobInv, JobTypeOK
  <1>2. CASE RunScript
    <2>1. /\ pc = "script" /\ pc' = "info" /\ unread' = {n \in DOMAIN builds : Known(builds, n)}
          /\ UNCHANGED <<answer, builds, waiting, asked, number, statuses, first, own, overtaken, seen>>
      BY <1>2 DEF RunScript, GoOn, jobGhosts
    <2>2. asked.op = "all" /\ asked.id = 0
      BY <2>1 DEF JobInv, JobTypeOK, JobRequests
    <2>3. JobTypeOK' /\ RunInHand'
      BY <1>1, <2>1 DEF JobInv, JobTypeOK, RunInHand, NextNumber
    <2>4. AllSeen' /\ Listed'
      BY <2>1, <2>2 DEF JobInv, AllSeen, Listed, Known
    <2>. QED
      BY <2>3, <2>4 DEF JobInv
  <1>3. CASE ScriptPrintsError
    BY <1>3 DEF ScriptPrintsError, Answer, jobVars, JobInv, JobTypeOK, RunInHand, AllSeen, Listed
  <1>4. CASE CallRaises
    BY <1>4 DEF CallRaises, Answer, jobGhosts, JobInv, JobTypeOK, RunInHand, AllSeen, Listed
  <1>5. CASE ReplyJobs
    BY <1>5 DEF ReplyJobs, Answer, jobVars, JobInv, JobTypeOK, RunInHand, AllSeen, Listed
  <1>. QED
    BY <1>2, <1>3, <1>4, <1>5

LEMMA InfoInv == ASSUME JobInv, NEW n \in unread, Info(n) PROVE JobInv'
  <1>1. /\ pc = "info" /\ pc' = "info" /\ Known(builds, n) /\ unread' = unread \ {n}
        /\ statuses' = IF asked.op = "about" THEN statuses
                       ELSE statuses \union {<<n, Status(builds[n])>>}
        /\ UNCHANGED <<answer, builds, waiting, asked, number, first, own, overtaken, seen>>
    BY DEF Info, GoOn, jobGhosts
  <1>2. builds \in Seq(States) /\ (asked.id = 0 \/ n = asked.id)
    BY <1>1 DEF JobInv, JobTypeOK, AllSeen
  <1>3. n \in Nat /\ Status(builds[n]) \in {"IN_PROGRESS", "None", "ended"}
    BY <1>1, StatusShape DEF JobInv, JobTypeOK
  <1>4. <<n, Status(builds[n])>> \in StatusesOf(builds, asked)
    BY <1>1, <1>2 DEF StatusesOf, Known
  <1>5. JobTypeOK'
    BY <1>1, <1>3 DEF JobInv, JobTypeOK
  <1>6. RunInHand'
    BY <1>1 DEF JobInv, RunInHand, NextNumber
  <1>7. Listed'
    <2> DEFINE q == <<n, Status(builds[n])>>
    <2>1. q[1] = n
      OBVIOUS
    <2>2. asked.op = "all" => q \in statuses'
      BY <1>1
    <2>3. statuses \subseteq statuses'
      BY <1>1
    <2> HIDE DEF q
    <2>. QED
      BY <1>1, <2>1, <2>2, <2>3 DEF JobInv, Listed
  <1>8. AllSeen'
    BY <1>1, <1>3, <1>4 DEF JobInv, AllSeen
  <1>. QED
    BY <1>5, <1>6, <1>7, <1>8 DEF JobInv

\* A build changes, between two calls, between two requests, or because it is
\* stopped.
LEMMA BuildChanges ==
    ASSUME JobInv, NEW n, Known(builds, n), NEW s \in States,
           builds' = [builds EXCEPT ![n] = s],
           (pc # "answered" /\ pc' = pc) \/ (pc = "stop" /\ pc' = "info"), See,
           UNCHANGED <<answer, waiting, asked, number, unread, statuses, first, own, overtaken>>
    PROVE  JobInv'
  <1>1. builds \in Seq(States) /\ n \in DOMAIN builds
    BY DEF JobInv, JobTypeOK, Known
  <1>2. /\ builds' \in Seq(States) /\ NextNumber(builds') = NextNumber(builds)
        /\ \A m : Known(builds', m) => Known(builds, m)
    BY <1>1, ChangedBuilds DEF NextNumber
  <1>3. pc = "stop" => asked.op = "stop"
    BY DEF JobInv, JobTypeOK
  <1>4. JobTypeOK'
    BY <1>2 DEF JobInv, JobTypeOK
  <1>5. RunInHand'
    BY <1>2 DEF JobInv, RunInHand
  <1>6. Listed'
    BY <1>2, <1>3 DEF JobInv, Listed
  <1>7. pc' # "idle" => seen' = seen \union StatusesOf(builds', asked)
    BY DEF See
  <1>8. AllSeen'
    BY <1>3, <1>7 DEF JobInv, AllSeen
  <1>. QED
    BY <1>4, <1>5, <1>6, <1>8 DEF JobInv

LEMMA StopInv == ASSUME JobInv, StopBuild PROVE JobInv'
  <1>1. /\ pc = "stop" /\ pc' = "info" /\ Known(builds, asked.id) /\ See
        /\ UNCHANGED <<answer, waiting, asked, number, unread, statuses, first, own, overtaken>>
    BY DEF StopBuild, GoOn
  <1>2. builds \in Seq(States) /\ asked.id \in DOMAIN builds
    BY <1>1 DEF JobInv, JobTypeOK, Known
  <1>3. CASE builds' = builds
    <2>1. builds' = [builds EXCEPT ![asked.id] = builds[asked.id]] /\ builds[asked.id] \in States
      BY <1>2, <1>3
    <2>. QED
      BY <1>1, <2>1, BuildChanges
  <1>4. CASE builds' = [builds EXCEPT ![asked.id] = "ended"]
    BY <1>1, <1>4, BuildChanges DEF States
  <1>. QED
    BY <1>3, <1>4 DEF StopBuild

LEMMA ChangeInv == ASSUME JobInv, NEW n \in Ids, Change(n) PROVE JobInv'
  <1>1. /\ pc # "answered" /\ pc' = pc /\ Known(builds, n) /\ See
        /\ UNCHANGED <<answer, waiting, asked, number, unread, statuses, first, own, overtaken>>
    BY DEF Change, Elsewhere, requestVars
  <1>2. PICK s \in States : builds' = [builds EXCEPT ![n] = s]
    BY DEF Change, States
  <1>3. (pc # "answered" /\ pc' = pc) \/ (pc = "stop" /\ pc' = "info")
    BY <1>1
  <1>4. UNCHANGED <<answer, waiting, asked, number, unread, statuses, first, own, overtaken>>
    BY <1>1
  <1>. QED
    BY <1>1, <1>2, <1>3, <1>4, BuildChanges

LEMMA BeginInv == ASSUME JobInv, NEW ours \in BOOLEAN, Begin(ours) PROVE JobInv'
  <1>1. /\ pc # "answered" /\ pc' = pc /\ See /\ (ours => waiting)
        /\ builds' = Append(builds, "building") /\ waiting' = (waiting /\ ~ours)
        /\ own' = IF ours THEN NextNumber(builds) ELSE own
        /\ overtaken' = (overtaken \/ (~ours /\ own = 0 /\ number # 0))
        /\ UNCHANGED <<answer, asked, number, unread, statuses, first>>
    BY DEF Begin, Elsewhere, requestVars
  <1>2. builds \in Seq(States) /\ Len(builds) \in Nat
    BY DEF JobInv, JobTypeOK
  <1>3. /\ builds' \in Seq(States) /\ NextNumber(builds') = NextNumber(builds) + 1
        /\ NextNumber(builds) \in Nat /\ NextNumber(builds) # 0
        /\ \A m \in 1..Len(builds) : Known(builds', m) => Known(builds, m)
    BY <1>1, <1>2, MoreBuilds DEF NextNumber
  <1>4. JobTypeOK'
    BY <1>1, <1>3 DEF JobInv, JobTypeOK
  <1>5. first \in Nat /\ number \in Nat /\ own \in Nat /\ waiting \in BOOLEAN /\ overtaken \in BOOLEAN
    BY DEF JobInv, JobTypeOK
  <1>6. RunInHand'
    <2>1. CASE ours
      <3>1. own = 0 /\ own' = NextNumber(builds) /\ ~waiting' /\ pc \notin {"number", "build"}
        BY <1>1, <1>3, <2>1 DEF JobInv, RunInHand
      <3>2. overtaken' <=> overtaken
        BY <1>1, <2>1
      <3>3. pc = "read" \/ answer = 201 =>
               /\ number >= first /\ number # 0
               /\ own' = number <=> ~overtaken'
        BY <1>3, <1>5, <3>1, <3>2 DEF JobInv, RunInHand
      <3>. QED
        BY <1>1, <1>3, <1>5, <3>1, <3>3 DEF JobInv, RunInHand
    <2>2. CASE ~ours
      <3>1. own' = own /\ (waiting' <=> waiting)
        BY <1>1, <2>2
      <3>2. overtaken' <=> overtaken \/ (own = 0 /\ number # 0)
        BY <1>1, <2>2
      <3>3. pc \in {"build", "read"} \/ answer = 201 =>
               /\ number >= first /\ number # 0
               /\ own = 0 => overtaken' /\ NextNumber(builds') > number
               /\ own # 0 => (own = number <=> ~overtaken')
        BY <1>3, <1>5, <3>2 DEF JobInv, RunInHand
      <3>. QED
        BY <1>1, <1>3, <1>5, <3>1, <3>3 DEF JobInv, RunInHand
    <2>. QED
      BY <2>1, <2>2
  <1>7. first - 1 <= Len(builds)
    BY <1>2, <1>5 DEF JobInv, RunInHand, NextNumber
  <1>8. Listed'
    BY <1>1, <1>2, <1>3, <1>5, <1>7 DEF JobInv, Listed
  <1>9. pc # "idle" => seen' = seen \union StatusesOf(builds', asked)
    BY <1>1 DEF See
  <1>10. AllSeen'
    BY <1>1, <1>9 DEF JobInv, AllSeen
  <1>. QED
    BY <1>4, <1>6, <1>8, <1>10 DEF JobInv

LEMMA ForgetJobInv == ASSUME JobInv, ForgetJob \/ Cancel PROVE JobInv'
  <1>1. CASE ForgetJob
    <2>1. /\ pc' = "idle" /\ answer' = answer /\ builds' = builds /\ waiting' = waiting
          /\ asked' = NoRequest /\ unread' = {} /\ statuses' = {}
          /\ pc = "answered" \/ answer = 0
          /\ IF answer = 201 THEN UNCHANGED <<number, first, own, overtaken>>
             ELSE number' = 0 /\ first' = 1 /\ own' = 0 /\ overtaken' = FALSE
      BY <1>1 DEF ForgetJob, Sent, Killed, JobInv, RunInHand
    <2>2. NoRequest \in JobRequests /\ NextNumber(builds) >= 1
      BY DEF NoRequest, JobRequests, NextNumber, JobInv, JobTypeOK
    <2>3. JobTypeOK'
      <3>1. /\ number' \in Nat /\ first' \in Nat /\ own' \in Nat /\ overtaken' \in BOOLEAN
        <4>1. CASE answer = 201
          BY <2>1, <4>1 DEF JobInv, JobTypeOK
        <4>2. CASE answer # 201
          <5>1. number' = 0 /\ first' = 1 /\ own' = 0 /\ overtaken' = FALSE
            BY <2>1, <4>2
          <5>. QED
            BY <5>1
        <4>. QED
          BY <4>1, <4>2
      <3>. QED
        BY <2>1, <2>2, <3>1 DEF JobInv, JobTypeOK
    <2>4. RunInHand'
      BY <2>1, <2>2 DEF JobInv, RunInHand, NextNumber
    <2>. QED
      BY <2>1, <2>3, <2>4 DEF JobInv, AllSeen, Listed
  <1>2. CASE Cancel
    <2>1. /\ pc' = pc /\ waiting' = FALSE
          /\ UNCHANGED <<answer, builds, asked, number, unread, statuses, first, own, overtaken, seen>>
      BY <1>2 DEF Cancel, Elsewhere, requestVars, jobGhosts
    <2>2. JobTypeOK'
      BY <2>1 DEF JobInv, JobTypeOK
    <2>3. RunInHand'
      BY <2>1 DEF JobInv, RunInHand, NextNumber
    <2>. QED
      BY <2>1, <2>2, <2>3 DEF JobInv, AllSeen, Listed
  <1>. QED
    BY <1>1, <1>2

LEMMA JobNextInv == ASSUME JobInv, JobNext PROVE JobInv'
  BY AskJobInv, RunInv, ReadInv, ListInv, InfoInv, StopInv, ChangeInv, BeginInv, ForgetJobInv
     DEF JobNext

-----------------------------------------------------------------------------
(* Nodes.                                                                  *)

\* Nodepool never gives an id twice, nor an address that is in use.
IdsGiven ==
    /\ \A n \in NodeIds : nodes[n] # NoNode => n <= given
    /\ \A n, m \in NodeIds :
          nodes[n] # NoNode /\ nodes[m] # NoNode /\ nodes[n].ip = nodes[m].ip => n = m

\* The rows read for a key are of the node asked for, which has the address
\* as long as it is there; whoever else has it has come since.
KeyOnItsWay ==
    pc = "install" =>
        \A r \in rows :
            /\ errand.id # 0 => r.id = errand.id
            /\ r.id <= given
            /\ nodes[r.id] # NoNode => nodes[r.id].ip = r.ip
            /\ \A n \in NodeIds :
                  nodes[n] # NoNode /\ nodes[n].ip = r.ip => n = r.id \/ n \in reused

KeysOK == 0 \in wanted \/ keys \subseteq wanted \union reused
Wanting == errand.op = "key" => errand.id \in wanted

\* A command whose connection held was carried out, on a node that was there.
CommandDone ==
    pc \in {"list", "answered"} /\ errand.op \in {"hold", "delete"} /\ answer \in {0, 200}
        /\ "command" \notin cut =>
        /\ errand.id \in NodeIds /\ errand.id <= given
        /\ meddled \/ ~Target \/ nodes[errand.id].state = errand.op

AnswersOK ==
    /\ pc \notin {"idle", "answered"} => answer = 0
    /\ pc = "answered" /\ errand.op = "key" /\ answer = 201 =>
          errand.id \in keys \/ errand.id = 0 \/ "install" \in cut \/ nodes[errand.id] = NoNode
    /\ pc = "answered" /\ answer = 200 =>
          "list" \in cut \/ rows = RowsOf(errand.id, Rows)

NodeInv ==
    NodeTypeOK /\ IdsGiven /\ KeyOnItsWay /\ KeysOK /\ Wanting /\ CommandDone /\ AnswersOK

LEMMA NodeInitInv == ASSUME RequestInit, NodeInit PROVE NodeInv
  <1>1. \A n \in NodeIds : nodes[n] = NoNode
    BY DEF NodeInit
  <1>2. NoErrand \in [op: {"get", "hold", "delete", "key"}, id: NodeIds \union {0}]
    BY DEF NoErrand
  <1>. QED
    BY <1>1, <1>2 DEF RequestInit, NodeInit, NodeInv, NodeTypeOK, IdsGiven, KeyOnItsWay, KeysOK,
       Wanting, CommandDone, AnswersOK, NoErrand

\* What `nodepool list' prints, and what get() keeps of it.
LEMMA RowsShape ==
    ASSUME NodeTypeOK
    PROVE  /\ Rows \subseteq Row
           /\ \A r \in Rows : nodes[r.id] # NoNode /\ r.ip = nodes[r.id].ip
           /\ \A printed \in SUBSET Rows :
                 /\ RowsOf(errand.id, printed) \subseteq Rows
                 /\ errand.id # 0 => \A r \in RowsOf(errand.id, printed) : r.id = errand.id
  <1>1. \A n \in NodeIds : nodes[n] # NoNode => nodes[n] \in Node
    BY DEF NodeTypeOK
  <1>2. \A n \in NodeIds : nodes[n] # NoNode =>
           nodes[n].ip \in Addresses /\ nodes[n].state \in NodeStates
    BY <1>1 DEF Node
  <1>. QED
    BY <1>2 DEF Rows, Row, RowsOf

LEMMA AskNodeInv ==
    ASSUME NodeInv, NEW op \in {"get", "hold", "delete", "key"}, NEW id \in NodeIds \union {0},
           AskNode(op, id)
    PROVE  NodeInv'
  <1>1. /\ pc' = IF op \in {"hold", "delete"} THEN "command" ELSE "list"
        /\ answer' = 0 /\ errand' = [op |-> op, id |-> id]
        /\ rows' = {} /\ cut' = {} /\ meddled' = FALSE
        /\ wanted' = IF op = "key" THEN wanted \union {id} ELSE wanted
        /\ UNCHANGED <<nodes, given, keys, reused>>
    BY DEF AskNode, Come, nodepool
  <1>2. NodeTypeOK'
    BY <1>1 DEF NodeInv, NodeTypeOK
  <1>3. IdsGiven' /\ KeyOnItsWay' /\ KeysOK' /\ Wanting' /\ CommandDone' /\ AnswersOK'
    BY <1>1 DEF NodeInv, IdsGiven, KeyOnItsWay, KeysOK, Wanting, CommandDone, AnswersOK
  <1>. QED
    BY <1>2, <1>3 DEF NodeInv

\* A command changes the state of a node and nothing else.
LEMMA CommandedShape ==
    ASSUME NEW f \in [NodeIds -> Node \union {NoNode}], NEW n \in NodeIds, f[n] # NoNode,
           NEW st \in NodeStates
    PROVE  /\ [f EXCEPT ![n].state = st] \in [NodeIds -> Node \union {NoNode}]
           /\ [f EXCEPT ![n].state = st][n].state = st
           /\ \A m \in NodeIds :
                 /\ [f EXCEPT ![n].state = st][m] # NoNode <=> f[m] # NoNode
                 /\ f[m] # NoNode => [f EXCEPT ![n].state = st][m].ip = f[m].ip
                 /\ m # n => [f EXCEPT ![n].state = st][m] = f[m]
  <1> DEFINE new == [f[n] EXCEPT !.state = st]
  <1>1. f[n] \in Node
    OBVIOUS
  <1>2. new \in Node /\ new.state = st /\ new.ip = f[n].ip
    BY <1>1 DEF Node
  <1>3. new # NoNode
    BY <1>2, NoNodeAssumption
  <1>4. [f EXCEPT ![n].state = st] = [f EXCEPT ![n] = new]
    OBVIOUS
  <1> HIDE DEF new
  <1>5. [f EXCEPT ![n] = new] \in [NodeIds -> Node \union {NoNode}]
    BY <1>2
  <1>6. \A m \in NodeIds : [f EXCEPT ![n] = new][m] = IF m = n THEN new ELSE f[m]
    OBVIOUS
  <1>. QED
    BY <1>2, <1>3, <1>4, <1>5, <1>6

\* As long as the same nodes are at the same addresses, a key goes where it
\* was sent.
LEMMA SameAddresses ==
    ASSUME NodeInv, nodes' \in [NodeIds -> Node \union {NoNode}],
           \A n \in NodeIds : nodes'[n] # NoNode =>
               nodes[n] # NoNode /\ nodes'[n].ip = nodes[n].ip,
           UNCHANGED <<given, errand, reused>>,
           pc' = "install" => pc = "install" /\ rows' = rows
    PROVE  IdsGiven' /\ KeyOnItsWay'
  <1>1. IdsGiven'
    BY DEF NodeInv, IdsGiven
  <1>2. KeyOnItsWay'
    BY DEF NodeInv, NodeTypeOK, Row, KeyOnItsWay
  <1>. QED
    BY <1>1, <1>2

LEMMA CommandInv == ASSUME NodeInv, Command \/ CommandRaises \/ CommandCut PROVE NodeInv'
  <1>1. pc = "command" /\ errand.op \in {"hold", "delete"} /\ errand.op \in NodeStates
        /\ nodes \in [NodeIds -> Node \union {NoNode}] /\ answer = 0
    BY DEF Command, CommandRaises, CommandCut, NodeInv, NodeTypeOK, NodeStates, AnswersOK
  <1>2. UNCHANGED <<given, keys, errand, rows, meddled, wanted, reused>>
    BY DEF Command, CommandRaises, CommandCut
  <1>3. /\ nodes' = nodes \/ (Target /\ nodes' = Commanded)
        /\ cut' \subseteq {"command", "list", "install"}
        /\ \/ pc' = "list" /\ answer' = 0
           \/ pc' = "answered" /\ answer' = 500
    BY <1>1 DEF Command, CommandRaises, CommandCut, Perhaps, GoOn, Answer, NodeInv, NodeTypeOK
  <1>4. /\ nodes' \in [NodeIds -> Node \union {NoNode}]
        /\ \A n \in NodeIds : nodes'[n] # NoNode =>
               nodes[n] # NoNode /\ nodes'[n].ip = nodes[n].ip
    <2>1. CASE nodes' = nodes
      BY <1>1, <2>1
    <2>2. CASE Target /\ nodes' = Commanded
      <3>1. errand.id \in NodeIds /\ nodes[errand.id] # NoNode
            /\ nodes' = [nodes EXCEPT ![errand.id].state = errand.op]
        BY <2>2 DEF Target, Commanded
      <3>. QED
        BY <1>1, <3>1, CommandedShape
    <2>. QED
      BY <1>3, <2>1, <2>2
  <1>5. IdsGiven' /\ KeyOnItsWay'
    BY <1>2, <1>3, <1>4, SameAddresses
  <1>6. NodeTypeOK'
    BY <1>2, <1>3, <1>4 DEF NodeInv, NodeTypeOK
  <1>7. KeysOK' /\ Wanting'
    BY <1>2 DEF NodeInv, KeysOK, Wanting
  <1>8. CommandDone'
    <2>1. CASE Command
      <3>1. Target /\ nodes' = Commanded
        BY <2>1 DEF Command
      <3>2. errand.id \in NodeIds /\ errand.id <= given
        BY <3>1 DEF Target, NodeInv, IdsGiven
      <3>3. nodes'[errand.id].state = errand.op
        BY <1>1, <3>1, CommandedShape DEF Target, Commanded
      <3>. QED
        BY <1>2, <3>2, <3>3 DEF CommandDone
    <2>2. CASE CommandCut \/ CommandRaises
      BY <1>2, <2>2 DEF CommandCut, CommandRaises, Answer, CommandDone
    <2>. QED
      BY <2>1, <2>2
  <1>9. AnswersOK'
    BY <1>1, <1>2, <1>3 DEF AnswersOK
  <1>. QED
    BY <1>5, <1>6, <1>7, <1>8, <1>9 DEF NodeInv

LEMMA ListNodesInv == ASSUME NodeInv, List \/ ListCut \/ ListRaises PROVE NodeInv'
  <1>1. /\ pc = "list" /\ answer = 0
        /\ UNCHANGED <<nodes, given, keys, errand, meddled, wanted, reused>>
    BY DEF List, ListCut, ListRaises, nodepool, nodeVars, NodeInv, AnswersOK
  <1>2. CASE ListRaises
    BY <1>1, <1>2 DEF ListRaises, Answer, nodeVars, NodeInv, NodeTypeOK, IdsGiven, KeyOnItsWay,
                      KeysOK, Wanting, CommandDone, AnswersOK
  <1>3. ASSUME NEW printed \in SUBSET Rows, Found(printed),
               (printed = Rows /\ cut' = cut) \/ cut' = cut \union {"list"}
        PROVE  NodeInv'
    <2>1. /\ rows' = RowsOf(errand.id, printed)
          /\ \/ pc' = "answered" /\ answer' = 200 /\ errand.op # "key"
             \/ pc' = "answered" /\ answer' = 500
             \/ pc' = "install" /\ answer' = answer /\ errand.op = "key" /\ rows' # {}
      BY <1>3 DEF Found, Answer, GoOn
    <2>2. /\ rows' \subseteq Rows /\ Rows \subseteq Row
          /\ \A r \in Rows : nodes[r.id] # NoNode /\ r.ip = nodes[r.id].ip
          /\ errand.id # 0 => \A r \in rows' : r.id = errand.id
      BY <2>1, RowsShape DEF NodeInv
    <2>3. NodeTypeOK'
      <3>1. cut' \subseteq {"command", "list", "install"}
        BY <1>3 DEF NodeInv, NodeTypeOK
      <3>. QED
        BY <1>1, <2>1, <2>2, <3>1 DEF NodeInv, NodeTypeOK
    <2>4. IdsGiven' /\ KeysOK' /\ Wanting'
      BY <1>1 DEF NodeInv, IdsGiven, KeysOK, Wanting
    <2>5. KeyOnItsWay'
      BY <1>1, <2>2 DEF NodeInv, IdsGiven, KeyOnItsWay, Row
    <2>6. CommandDone'
      <3>1. "command" \notin cut' => "command" \notin cut
        BY <1>3
      <3>. QED
        BY <1>1, <2>1, <3>1 DEF NodeInv, CommandDone, Target
    <2>7. AnswersOK'
      <3>1. Rows' = Rows
        BY <1>1 DEF Rows
      <3>2. "list" \in cut' \/ printed = Rows
        BY <1>3
      <3>. QED
        BY <1>1, <2>1, <3>1, <3>2 DEF AnswersOK, RowsOf
    <2>. QED
      BY <2>3, <2>4, <2>5, <2>6, <2>7 DEF NodeInv
  <1>4. Rows \in SUBSET Rows /\ SUBSET Rows \ {Rows} \subseteq SUBSET Rows
    OBVIOUS
  <1>. QED
    BY <1>2, <1>3, <1>4 DEF List, ListCut

LEMMA InstallInv ==
    ASSUME NodeInv, NEW row \in rows, Install(row) \/ InstallRaises(row) \/ InstallCut(row)
    PROVE  NodeInv'
  <1>1. /\ pc = "install" /\ pc' = "answered" /\ errand.op = "key" /\ row \in Row
        /\ keys' \in {keys, keys \union At(row)}
        /\ cut \subseteq cut' /\ cut' \subseteq {"command", "list", "install"}
        /\ UNCHANGED <<nodes, given, errand, rows, meddled, wanted, reused>>
    BY DEF Install, InstallRaises, InstallCut, Answer, NodeInv, NodeTypeOK
  <1>2. /\ errand.id # 0 => row.id = errand.id
        /\ row.id \in NodeIds /\ row.id # 0
        /\ At(row) \subseteq {row.id} \union reused
        /\ nodes[row.id] # NoNode => row.id \in At(row)
    BY <1>1, NodeIdsAssumption DEF NodeInv, KeyOnItsWay, At, Row
  <1>3. NodeTypeOK'
    <2>1. keys' \subseteq NodeIds
      BY <1>1 DEF At, NodeInv, NodeTypeOK
    <2>. QED
      BY <1>1, <2>1 DEF NodeInv, NodeTypeOK
  <1>4. IdsGiven' /\ KeyOnItsWay' /\ Wanting' /\ CommandDone'
    BY <1>1 DEF NodeInv, IdsGiven, KeyOnItsWay, Wanting, CommandDone
  <1>5. KeysOK'
    <2>1. errand.id \in wanted
      BY <1>1 DEF NodeInv, Wanting
    <2>. QED
      BY <1>1, <1>2, <2>1 DEF NodeInv, KeysOK
  <1>6. AnswersOK'
    <2>1. CASE Install(row)
      BY <1>1, <1>2, <2>1 DEF Install, Answer, AnswersOK
    <2>2. CASE InstallRaises(row)
      BY <1>1, <2>2 DEF InstallRaises, Answer, AnswersOK
    <2>3. CASE InstallCut(row)
      BY <1>1, <2>3 DEF InstallCut, Answer, AnswersOK
    <2>. QED
      BY <2>1, <2>2, <2>3
  <1>. QED
    BY <1>3, <1>4, <1>5, <1>6 DEF NodeInv

LEMMA ForgetNodeInv == ASSUME NodeInv, ForgetNode PROVE NodeInv'
  <1>1. /\ pc' = "idle" /\ errand' = NoErrand /\ rows' = {} /\ cut' = {} /\ meddled' = FALSE
        /\ UNCHANGED <<nodes, given, keys, wanted, reused>>
    BY DEF ForgetNode, Sent, Killed, nodepool
  <1>2. NoErrand \in [op: {"get", "hold", "delete", "key"}, id: NodeIds \union {0}]
        /\ NoErrand.op = "get"
    BY DEF NoErrand
  <1>. QED
    BY <1>1, <1>2 DEF NodeInv, NodeTypeOK, IdsGiven, KeyOnItsWay, KeysOK, Wanting, CommandDone,
                      AnswersOK

LEMMA LaunchInv ==
    ASSUME NodeInv, NEW n \in NodeIds, NEW ip \in Addresses, Launch(n, ip)
    PROVE  NodeInv'
  <1> DEFINE new == [ip |-> ip, state |-> "used"]
  <1>1. /\ pc # "answered" /\ pc' = pc /\ answer' = answer /\ n = given + 1 /\ given' = n
        /\ \A m \in NodeIds : nodes[m] # NoNode => nodes[m].ip # ip
        /\ nodes' = [nodes EXCEPT ![n] = new]
        /\ reused' = IF pc = "install" /\ (\E r \in rows : r.ip = ip)
                     THEN reused \union {n} ELSE reused
        /\ UNCHANGED <<keys, errand, rows, cut, meddled, wanted>>
    BY DEF Launch, Elsewhere, requestVars
  <1>2. new \in Node /\ new # NoNode /\ new.ip = ip
    BY NoNodeAssumption DEF Node, NodeStates
  <1> HIDE DEF new
  <1>3. \A m \in NodeIds : nodes'[m] = IF m = n THEN new ELSE nodes[m]
    BY <1>1 DEF NodeInv, NodeTypeOK
  <1>4. given \in Nat /\ NodeIds \subseteq Nat /\ nodes[n] = NoNode
    BY <1>1, NodeIdsAssumption DEF NodeInv, NodeTypeOK, IdsGiven
  <1>5. NodeTypeOK'
    BY <1>1, <1>2, <1>4 DEF NodeInv, NodeTypeOK
  <1>6. IdsGiven'
    BY <1>1, <1>2, <1>3, <1>4 DEF NodeInv, IdsGiven
  <1>7. KeyOnItsWay'
    <2> SUFFICES ASSUME pc = "install", NEW r \in rows
                 PROVE  /\ errand.id # 0 => r.id = errand.id
                        /\ r.id <= n
                        /\ nodes'[r.id] # NoNode => nodes'[r.id].ip = r.ip
                        /\ \A m \in NodeIds :
                              nodes'[m] # NoNode /\ nodes'[m].ip = r.ip => m = r.id \/ m \in reused'
      BY <1>1 DEF KeyOnItsWay
    <2>1. r.id \in NodeIds /\ r.id <= given /\ (errand.id # 0 => r.id = errand.id)
      BY DEF NodeInv, KeyOnItsWay, NodeTypeOK, Row
    <2>2. r.id # n /\ r.id <= n
      BY <1>1, <1>4, <2>1
    <2>3. nodes'[r.id] # NoNode => nodes'[r.id].ip = r.ip
      BY <1>3, <2>1, <2>2 DEF NodeInv, KeyOnItsWay
    <2>4. ASSUME NEW m \in NodeIds, nodes'[m] # NoNode, nodes'[m].ip = r.ip
          PROVE  m = r.id \/ m \in reused'
      BY <1>1, <1>2, <1>3, <2>4 DEF NodeInv, KeyOnItsWay
    <2>. QED
      BY <2>1, <2>2, <2>3, <2>4
  <1>8. KeysOK' /\ Wanting'
    BY <1>1 DEF NodeInv, KeysOK, Wanting
  <1>9. CommandDone'
    <2> SUFFICES ASSUME pc \in {"list", "answered"}, errand.op \in {"hold", "delete"},
                        answer \in {0, 200}, "command" \notin cut
                 PROVE  /\ errand.id \in NodeIds /\ errand.id <= n
                        /\ meddled \/ ~Target' \/ nodes'[errand.id].state = errand.op
      BY <1>1 DEF CommandDone
    <2>1. /\ errand.id \in NodeIds /\ errand.id <= given
          /\ meddled \/ ~Target \/ nodes[errand.id].state = errand.op
      BY DEF NodeInv, CommandDone
    <2>2. errand.id # n /\ errand.id <= n
      BY <1>1, <1>4, <2>1
    <2>3. nodes'[errand.id] = nodes[errand.id]
      BY <1>3, <2>1, <2>2
    <2>. QED
      BY <1>1, <2>1, <2>2, <2>3 DEF Target
  <1>10. AnswersOK'
    BY <1>1 DEF NodeInv, AnswersOK
  <1>. QED
    BY <1>5, <1>6, <1>7, <1>8, <1>9, <1>10 DEF NodeInv

LEMMA VanishInv == ASSUME NodeInv, NEW n \in NodeIds, Vanish(n) PROVE NodeInv'
  <1>1. /\ pc # "answered" /\ pc' = pc /\ answer' = answer /\ keys' = keys \ {n}
        /\ nodes' = [nodes EXCEPT ![n] = NoNode]
        /\ UNCHANGED <<given, errand, rows, cut, meddled, wanted, reused>>
    BY DEF Vanish, Elsewhere, requestVars
  <1>2. \A m \in NodeIds : nodes'[m] = IF m = n THEN NoNode ELSE nodes[m]
    BY <1>1 DEF NodeInv, NodeTypeOK
  <1>3. nodes' \in [NodeIds -> Node \union {NoNode}]
    BY <1>1 DEF NodeInv, NodeTypeOK
  <1>4. IdsGiven' /\ KeyOnItsWay'
    BY <1>1, <1>2, <1>3, SameAddresses
  <1>5. NodeTypeOK'
    BY <1>1, <1>3 DEF NodeInv, NodeTypeOK
  <1>6. KeysOK' /\ Wanting' /\ AnswersOK'
    BY <1>1 DEF NodeInv, KeysOK, Wanting, AnswersOK
  <1>7. CommandDone'
    BY <1>1, <1>2 DEF NodeInv, CommandDone, Target
  <1>. QED
    BY <1>4, <1>5, <1>6, <1>7 DEF NodeInv

LEMMA CommandByHandInv ==
    ASSUME NodeInv, NEW n \in NodeIds, NEW st \in {"hold", "delete"}, CommandByHand(n, st)
    PROVE  NodeInv'
  <1>1. /\ pc # "answered" /\ pc' = pc /\ answer' = answer /\ nodes[n] # NoNode
        /\ nodes' = [nodes EXCEPT ![n].state = st]
        /\ meddled' = (meddled \/ (pc # "idle" /\ n = errand.id))
        /\ UNCHANGED <<given, keys, errand, rows, cut, wanted, reused>>
    BY DEF CommandByHand, Elsewhere, requestVars
  <1>2. nodes \in [NodeIds -> Node \union {NoNode}] /\ st \in NodeStates
    BY DEF NodeInv, NodeTypeOK, NodeStates
  <1>3. /\ nodes' \in [NodeIds -> Node \union {NoNode}]
        /\ \A m \in NodeIds :
              /\ nodes'[m] # NoNode => nodes[m] # NoNode /\ nodes'[m].ip = nodes[m].ip
              /\ m # n => nodes'[m] = nodes[m]
    BY <1>1, <1>2, CommandedShape
  <1>4. IdsGiven' /\ KeyOnItsWay'
    BY <1>1, <1>3, SameAddresses
  <1>5. NodeTypeOK'
    BY <1>1, <1>3 DEF NodeInv, NodeTypeOK
  <1>6. KeysOK' /\ Wanting' /\ AnswersOK'
    BY <1>1 DEF NodeInv, KeysOK, Wanting, AnswersOK
  <1>7. CommandDone'
    <2>1. CASE n = errand.id /\ pc # "idle"
      BY <1>1, <2>1 DEF NodeInv, CommandDone
    <2>2. CASE n # errand.id
      <3>1. errand.id \in NodeIds => nodes'[errand.id] = nodes[errand.id]
        BY <1>3, <2>2
      <3>2. Target' => Target
        BY <1>1, <3>1 DEF Target
      <3>3. meddled' <=> meddled
        BY <1>1, <2>2
      <3> SUFFICES ASSUME pc \in {"list", "answered"}, errand.op \in {"hold", "delete"},
                          answer \in {0, 200}, "command" \notin cut
                   PROVE  /\ errand.id \in NodeIds /\ errand.id <= given
                          /\ meddled' \/ ~Target' \/ nodes'[errand.id].state = errand.op
        BY <1>1 DEF CommandDone
      <3>4. /\ errand.id \in NodeIds /\ errand.id <= given
            /\ meddled \/ ~Target \/ nodes[errand.id].state = errand.op
        BY DEF NodeInv, CommandDone
      <3>. QED
        BY <3>1, <3>2, <3>3, <3>4
    <2>3. CASE pc = "idle"
      BY <1>1, <2>3 DEF CommandDone
    <2>. QED
      BY <2>1, <2>2, <2>3
  <1>. QED
    BY <1>4, <1>5, <1>6, <1>7 DEF NodeInv

LEMMA NodeNextInv == ASSUME NodeInv, NodeNext PROVE NodeInv'
  BY AskNodeInv, CommandInv, ListNodesInv, InstallInv, ForgetNodeInv, LaunchInv, VanishInv,
     CommandByHandInv DEF NodeNext

-----------------------------------------------------------------------------
(* Together.                                                               *)

PluginInv ==
    /\ RequestTypeOK
    /\ kind = "hooks" => HookInv
    /\ kind = "jobs" => JobInv
    /\ kind = "nodes" => NodeInv

LEMMA RequestShape ==
    ASSUME RequestTypeOK, Next
    PROVE  kind' = kind /\ RequestTypeOK'
  <1>1. ASSUME kind = "hooks", HookNext PROVE kind' = kind /\ answer' \in {answer, 0, 200, 204, 400, 500}
    <2>1. CASE HookRequest
      BY <2>1 DEF HookRequest, Deliver, DeliverElsewhere, Come, Answer
    <2>2. CASE HookStep
      BY <2>2 DEF HookStep, GetClient, ReadTask, MoveTask, TasksDone, ReadStory, Comment, Reply,
         GoOn, Answer
    <2>3. CASE HookFault
      BY <2>3 DEF HookFault, GetClientRaises, ReadTaskRaises, MoveTaskRaises, ReadStoryRaises,
         CommentRaises, GoOn, Answer, Killed
    <2>4. CASE Sent
      BY <2>4 DEF Sent
    <2>5. ASSUME NEW t \in Tasks, MoveByHand(t)
          PROVE  kind' = kind /\ answer' = answer
      BY <2>5 DEF MoveByHand, Elsewhere, requestVars
    <2>. QED
      BY <1>1, <2>1, <2>2, <2>3, <2>4, <2>5 DEF HookNext
  <1>2. ASSUME kind = "jobs", JobNext PROVE kind' = kind /\ answer' \in {answer, 0, 200, 201, 500}
    BY <1>2 DEF JobNext, AskJob, ReadNumber, BuildJob, BuildJobRaises, ReadOwn, ReadOwnRaises,
       RunScript, ScriptPrintsError, StopBuild, Info, CallRaises, ReplyJobs, ForgetJob, Begin,
       Change, Cancel, Come, GoOn, Answer, Sent, Killed, Elsewhere, requestVars
  <1>3. ASSUME kind = "nodes", NodeNext PROVE kind' = kind /\ answer' \in {answer, 0, 200, 201, 500}
    BY <1>3 DEF NodeNext, AskNode, Command, CommandRaises, CommandCut, List, ListCut, ListRaises,
       Found, Install, InstallRaises, InstallCut, ForgetNode, Launch, Vanish, CommandByHand,
       Come, GoOn, Answer, Sent, Killed, Elsewhere, nodeVars, requestVars
  <1>. QED
    BY <1>1, <1>2, <1>3 DEF Next, RequestTypeOK

\* The plugins keep their invariants.
THEOREM PluginInvariant == Spec => []PluginInv
  <1>1. Init => PluginInv
    BY HookInitInv, JobInitInv, NodeInitInv DEF Init, PluginInv, RequestInit, RequestTypeOK
  <1>2. PluginInv /\ [Next]_vars => PluginInv'
    <2> SUFFICES ASSUME PluginInv, [Next]_vars PROVE PluginInv'
      OBVIOUS
    <2>1. CASE Next
      BY <2>1, RequestShape, HookNextInv, JobNextInv, NodeNextInv DEF Next, PluginInv
    <2>2. CASE UNCHANGED vars
      <3>1. kind' = kind /\ RequestTypeOK'
        BY <2>2 DEF vars, requestVars, PluginInv, RequestTypeOK
      <3>2. HookInv => HookInv'
        BY <2>2 DEF vars, requestVars, hookVars, HookInv, HookTypeOK, EventInHand, OneMessage,
                    Cause, Visited, Handling
      <3>3. JobInv => JobInv'
        BY <2>2 DEF vars, requestVars, jobVars, JobInv, JobTypeOK, RunInHand, AllSeen, Listed
      <3>4. NodeInv => NodeInv'
        BY <2>2 DEF vars, requestVars, nodeVars, NodeInv, NodeTypeOK, IdsGiven, KeyOnItsWay,
                    KeysOK, Wanting, CommandDone, AnswersOK, Target, Rows
      <3>. QED
        BY <3>1, <3>2, <3>3, <3>4 DEF PluginInv
    <2>. QED
      BY <2>1, <2>2
  <1>. QED
    BY <1>1, <1>2, PTL DEF Spec

\* Type correctness: what a plugin has read and noted is what its next call
\* needs.
THEOREM PluginTypes == Spec => []TypeOK
  <1>1. PluginInv => TypeOK
    BY DEF PluginInv, HookInv, JobInv, NodeInv, TypeOK
  <1>. QED
    BY <1>1, PluginInvariant, PTL

\* "Success" is said of events whose tasks have moved and whose stories have the
\* message, after any series of deliveries, late, repeated or cut short.
THEOREM SuccessHasMoved == Spec => []SuccessMoved
  <1>1. PluginInv => SuccessMoved
    BY DEF PluginInv, HookInv, Visited, SuccessMoved
  <1>. QED
    BY <1>1, PluginInvariant, PTL

\* No delivery comments twice on a story, for any sets of events and stories.
THEOREM MessagesOnce == Spec => []NoMessageTwice
  <1>1. PluginInv => NoMessageTwice
    BY DEF PluginInv, HookInv, OneMessage, NoMessageTwice
  <1>. QED
    BY <1>1, PluginInvariant, PTL

\* Tasks move, and comments appear, only by events that name them or by hand.
THEOREM MovesHaveCauses == Spec => []StatusHasCause
  <1>1. PluginInv => StatusHasCause
    <2>1. \A e, t : t \in Named(e) => t \in e.tasks \/ (e.status = "inprogress" /\ t \in e.related)
      BY DEF Named
    <2>. QED
      BY <2>1 DEF PluginInv, HookInv, Cause, StatusHasCause
  <1>. QED
    BY <1>1, PluginInvariant, PTL

\* The number that run() answers is that of its build unless another build
\* begins between the two calls, for every number of builds and requests.
THEOREM RunsNameTheirBuilds == Spec => []RunNamesItsBuild
  <1>1. PluginInv => RunNamesItsBuild
    BY DEF PluginInv, JobInv, RunInHand, RunNamesItsBuild
  <1>. QED
    BY <1>1, PluginInvariant, PTL

\* No status is answered that the build has not had since the request came.
THEOREM StatusesWereTrue == Spec => []StatusWasTrue
  <1>1. PluginInv => StatusWasTrue
    BY DEF PluginInv, JobInv, AllSeen, StatusWasTrue
  <1>. QED
    BY <1>1, PluginInvariant, PTL

\* A listing that is answered lacks no build that was there all the time.
THEOREM ListingsComplete == Spec => []ListingComplete
  <1>1. PluginInv => ListingComplete
    BY DEF PluginInv, JobInv, Listed, ListingComplete
  <1>. QED
    BY <1>1, PluginInvariant, PTL

\* Keys only go to nodes they were sent to, or to one that has taken over the
\* address of such a node.
THEOREM KeysGoWhereWanted == Spec => []KeysWanted
  <1>1. PluginInv => KeysWanted
    BY DEF PluginInv, NodeInv, KeysOK, KeysWanted
  <1>. QED
    BY <1>1, PluginInvariant, PTL

\* "OK" means that the key is on the node, and 200 that a hold or a deletion was
\* carried out, unless the node or the connection has gone.
THEOREM NodesAreAsAnswered == Spec => []NodeAnswersTrue
  <1>1. PluginInv => OkMeansKey
    BY DEF PluginInv, NodeInv, AnswersOK, OkMeansKey
  <1>2. PluginInv => DoneMeansDone
    BY DEF PluginInv, NodeInv, CommandDone, AnswersOK, DoneMeansDone
  <1>. QED
    BY <1>1, <1>2, PluginInvariant, PTL DEF NodeAnswersTrue
=============================================================================
