---------------------------- MODULE JenkinsJobs ----------------------------
(***************************************************************************)
(* The builds of one Jenkins job, run, stopped and listed through managesf *)
(* (managesf/services/jenkins/job.py, JobController and JobsController in  *)
(* controllers/root.py), while Jenkins and other users of it go on.        *)
(***************************************************************************)
EXTENDS ServiceRequests, Sequences

CONSTANT MaxBuilds   \* bound on the number of builds
ASSUME MaxBuildsAssumption == MaxBuilds \in Nat \ {0}

VARIABLES
    builds,     \* on Jenkins, by number: the state of each build
    waiting,    \* the build that the request has asked for waits in the queue
    asked,      \* what it asks for, and of which build
    number,     \* next_build, as run() has read it
    unread,     \* ids the listing has still to ask about
    statuses,      \* the answer: pairs of a build number and a status
    first,      \* ghost: the number of the next build when the request came
    own,        \* ghost: the build that the request started, 0 if none has begun
    overtaken,  \* ghost: another build has begun between the reading and own
    seen        \* ghost: the status its builds have had since the request came

jobVars == <<builds, waiting, asked, number, unread, statuses, first, own, overtaken, seen>>
jobGhosts == <<first, own, overtaken, seen>>

\* "blank" has ended and has no result yet, "ended" stands for any result.
States == {"building", "blank", "ended", "deleted"}
Ids == 1..MaxBuilds
\* "about" is GET of the logs or the parameters of a build.
JobRequests ==
    [op: {"run", "all"}, id: {0}] \union [op: {"stop", "one", "about"}, id: Ids]

NextNumber(b) == Len(b) + 1

Known(b, n) == n \in DOMAIN b /\ b[n] # "deleted"

\* What get_job_status says of a build.
Status(state) ==
    IF state = "building" THEN "IN_PROGRESS" ELSE IF state = "blank" THEN "None" ELSE state

\* The builds r is about, with their status; a run or a listing is about all.
StatusesOf(b, r) ==
    {<<n, Status(b[n])>> : n \in {m \in DOMAIN b : Known(b, m) /\ r.id \in {0, m}}}

\* What the request could have read by now.
See == seen' = IF pc = "idle" THEN {} ELSE seen \union StatusesOf(builds', asked)

NoRequest == [op |-> "all", id |-> 0]

JobInit ==
    /\ builds = <<>> /\ waiting = FALSE
    /\ asked = NoRequest
    /\ number = 0 /\ unread = {} /\ statuses = {}
    /\ first = 1 /\ own = 0 /\ overtaken = FALSE /\ seen = {}

-----------------------------------------------------------------------------

AskJob(r) ==
    /\ Come(IF r.op = "run" THEN "number" ELSE IF r.op = "stop" THEN "stop"
            ELSE IF r.op = "all" THEN "script" ELSE "info")
    /\ asked' = r
    /\ unread' = IF r.op \in {"run", "all"} THEN {} ELSE {r.id}
    /\ statuses' = {} /\ number' = 0
    /\ waiting' = FALSE   \* what an earlier request has left there is somebody else's
    /\ first' = NextNumber(builds) /\ own' = 0 /\ overtaken' = FALSE
    /\ seen' = StatusesOf(builds, r)
    /\ UNCHANGED builds

\* A plausible slip: the number of the last build.
ReadLastNumber ==
    /\ pc = "number" /\ GoOn("build")
    /\ number' = Len(builds) /\ overtaken' = FALSE
    /\ UNCHANGED <<builds, waiting, asked, unread, statuses, first, own, seen>>

ReadNumber ==
    /\ pc = "number" /\ GoOn("build")
    /\ number' = NextNumber(builds) /\ overtaken' = FALSE
    /\ UNCHANGED <<builds, waiting, asked, unread, statuses, first, own, seen>>

BuildJob ==
    /\ pc = "build" /\ GoOn("read")
    /\ waiting' = TRUE
    /\ UNCHANGED <<builds, asked, number, unread, statuses, jobGhosts>>

\* The handler of the exception raises another one (e.msg); 500 both ways,
\* though the build may have been asked for.
BuildJobRaises ==
    /\ pc = "build" /\ Answer(500)
    /\ waiting' \in BOOLEAN
    /\ UNCHANGED <<builds, asked, number, unread, statuses, jobGhosts>>

RunStatus(n) ==
    IF Known(builds, n) /\ builds[n] # "blank" THEN Status(builds[n]) ELSE "PENDING"

\* A plausible slip: it is the last build that is asked about.
ReadLast ==
    /\ pc = "read" /\ Answer(201)
    /\ statuses' = {<<number, RunStatus(Len(builds))>>}
    /\ UNCHANGED <<builds, waiting, asked, number, unread, jobGhosts>>

\* get_build_info right after: a build that has not begun is not found, and any
\* exception is taken for that.
ReadOwn ==
    /\ pc = "read" /\ Answer(201)
    /\ statuses' = {<<number, RunStatus(number)>>}
    /\ UNCHANGED <<builds, waiting, asked, number, unread, jobGhosts>>

ReadOwnRaises ==
    /\ pc = "read" /\ Answer(201)
    /\ statuses' = {<<number, "PENDING">>}
    /\ UNCHANGED <<builds, waiting, asked, number, unread, jobGhosts>>

\* The builds that match the filter, by a script.
RunScript ==
    /\ pc = "script" /\ GoOn("info")
    /\ unread' = {n \in DOMAIN builds : Known(builds, n)}
    /\ UNCHANGED <<builds, waiting, asked, number, statuses, jobGhosts>>

\* The script fails, and what it prints is no list: get_job returns [], and the
\* answer is the same as if there were no build.
ScriptPrintsError ==
    /\ pc = "script" /\ Answer(200)
    /\ UNCHANGED jobVars

StopBuild ==
    /\ pc = "stop" /\ Known(builds, asked.id) /\ GoOn("info")
    /\ \/ builds[asked.id] = "building" /\ builds' = [builds EXCEPT ![asked.id] = "ended"]
       \/ UNCHANGED builds
    /\ See
    /\ UNCHANGED <<waiting, asked, number, unread, statuses, first, own, overtaken>>

\* Jenkins lists the builds from the last one to the first.
Newest(n) == n \in unread /\ \A m \in unread : m <= n

\* A plausible slip: a build that is not found is left out.
InfoSkips(n) ==
    /\ pc = "info" /\ Newest(n) /\ GoOn("info")
    /\ unread' = unread \ {n}
    /\ statuses' = IF Known(builds, n) /\ builds[n] # "blank"
                THEN statuses \union {<<n, Status(builds[n])>>} ELSE statuses
    /\ UNCHANGED <<builds, waiting, asked, number, jobGhosts>>

\* get_job_status of one build after the other; logs and parameters are read by
\* the same call and tell no status.
Info(n) ==
    /\ pc = "info" /\ Newest(n) /\ Known(builds, n) /\ GoOn("info")
    /\ unread' = unread \ {n}
    /\ statuses' = IF asked.op = "about" THEN statuses
                ELSE statuses \union {<<n, Status(builds[n])>>}
    /\ UNCHANGED <<builds, waiting, asked, number, jobGhosts>>

\* A build that is not there, or any failure, fails the whole request; so does
\* reading the parameters of a build that has none, whose KeyError is caught
\* by a handler that raises another one (e.msg again).
CallRaises ==
    /\ pc \in {"number", "script", "stop", "info"} /\ Answer(500)
    /\ statuses' = {}
    /\ UNCHANGED <<builds, waiting, asked, number, unread, jobGhosts>>

ReplyJobs ==
    /\ pc = "info" /\ unread = {} /\ Answer(200)
    /\ UNCHANGED jobVars

\* The process is done with the request, or is killed, and forgets it; the
\* client of a run keeps the number.
ForgetJob ==
    /\ Sent \/ Killed
    /\ asked' = NoRequest /\ unread' = {} /\ statuses' = {} /\ seen' = {}
    /\ IF answer = 201 THEN UNCHANGED <<number, first, own, overtaken>>
       ELSE number' = 0 /\ first' = 1 /\ own' = 0 /\ overtaken' = FALSE
    /\ UNCHANGED <<builds, waiting>>

-----------------------------------------------------------------------------
(* Jenkins (external).                                                     *)

\* The next build begins: ours, or one that somebody else, a trigger or an
\* earlier request has asked for.
Begin(ours) ==
    /\ Elsewhere /\ Len(builds) < MaxBuilds /\ (ours => waiting)
    /\ builds' = Append(builds, "building")
    /\ waiting' = (waiting /\ ~ours)
    /\ own' = IF ours THEN NextNumber(builds) ELSE own
    /\ overtaken' = (overtaken \/ (~ours /\ own = 0 /\ number # 0))
    /\ See
    /\ UNCHANGED <<asked, number, unread, statuses, first>>

\* A build ends, has its result, or is deleted.
Change(n) ==
    /\ Elsewhere /\ Known(builds, n)
    /\ \E s \in IF builds[n] = "building" THEN {"blank", "ended"}
                ELSE IF builds[n] = "blank" THEN {"ended"} ELSE {"deleted"} :
          builds' = [builds EXCEPT ![n] = s]
    /\ See
    /\ UNCHANGED <<waiting, asked, number, unread, statuses, first, own, overtaken>>

\* The build that waits is cancelled.
Cancel ==
    /\ Elsewhere /\ waiting /\ waiting' = FALSE
    /\ UNCHANGED <<builds, asked, number, unread, statuses, jobGhosts>>

JobNext ==
    \/ \E r \in JobRequests : AskJob(r)
    \/ ReadNumber \/ BuildJob \/ BuildJobRaises \/ ReadOwn \/ ReadOwnRaises
    \/ RunScript \/ ScriptPrintsError \/ StopBuild
    \/ \E n \in unread : Info(n)
    \/ CallRaises \/ ReplyJobs
    \/ ForgetJob
    \/ \E ours \in BOOLEAN : Begin(ours)
    \/ \E n \in Ids : Change(n)
    \/ Cancel

-----------------------------------------------------------------------------

JobTypeOK ==
    /\ builds \in Seq(States) /\ waiting \in BOOLEAN
    /\ asked \in JobRequests
    /\ number \in Nat /\ first \in Nat /\ own \in Nat /\ overtaken \in BOOLEAN
    /\ unread \subseteq Nat
    /\ statuses \subseteq Nat \X {"IN_PROGRESS", "None", "PENDING", "ended"}
    /\ pc \in {"idle", "answered", "number", "build", "read", "script", "stop", "info"}
    /\ pc \in {"number", "build", "read"} => asked.op = "run"
    /\ pc = "script" => asked.op = "all"
    /\ pc = "stop" => asked.op = "stop"

\* The number that run() answers belongs to no build that had begun before the
\* request came, and to the build it has started unless, and only if, another
\* one begins between the two calls ("This seems prone to race conditions,
\* but that's an inherent problem with how Jenkins' API works", job.py:166).
RunNamesItsBuild ==
    kind = "jobs" /\ answer = 201 =>
        /\ number >= first
        /\ own # 0 => (own = number <=> ~overtaken)

\* Nothing that is answered was never true: a status is one that the build of
\* this very number has had since the request came, and "PENDING" is said
\* only of builds that had not begun by then.
StatusWasTrue ==
    kind = "jobs" /\ pc = "answered" =>
        \A p \in statuses :
            IF p[2] = "PENDING" THEN p[1] >= first ELSE p \in seen

\* A listing that takes many calls is all or nothing: unless it is empty, it has
\* every build that was there from the beginning to the end of the request.
ListingComplete ==
    kind = "jobs" /\ pc = "answered" /\ answer = 200 /\ asked.op = "all" /\ statuses # {} =>
        \A n \in 1..(first - 1) : Known(builds, n) => \E p \in statuses : p[1] = n
=============================================================================
