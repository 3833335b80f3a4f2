--------------------------- MODULE NodepoolImages ---------------------------
(***************************************************************************)
(* Updates of Nodepool images (managesf/services/nodepool/image.py, the    *)
(* table of managesf/model/__init__.py, ImageUpdateController).            *)
(* An update is a command started over ssh and not waited for: the row is  *)
(* made first, the channel is kept in UPDATES_CACHE, and every request and *)
(* the end of the process refresh the cache, which moves the verdict of    *)
(* the commands that have ended into their rows.  The process serves one   *)
(* request at a time and may die anywhere; another one takes its place.    *)
(*                                                                         *)
(* Commands are external.  One that is "loud" writes more than the ssh     *)
(* window holds and goes no further until somebody reads; one whose        *)
(* connection is lost has the exit status -1.                              *)
(***************************************************************************)
EXTENDS Naturals

CONSTANT Updates      \* ids of updates, a bound on their number
ASSUME UpdatesAssumption == 0 \notin Updates

VARIABLES
    table,      \* NODEPOOL_IMAGE_UPDATES: status of each update
    cmd,        \* the command of each update on Nodepool
    loud,       \* those that need a reader to go on
    cache,      \* UPDATES_CACHE
    locked,     \* REFRESH_LOCKED
    pc,         \* what the process is doing
    job,        \* for which request
    todo,       \* entries of the cache still to be visited
    gone,       \* to_remove
    new,        \* the update being started
    mine,       \* updates this process answered 201 for
    before      \* commands that had ended when the request came

procVars == <<cache, locked, pc, job, todo, gone, new, mine>>
vars == <<table, cmd, loud, cache, locked, pc, job, todo, gone, new, mine, before>>

Ended == {u \in Updates : cmd[u] \in {"ok", "failed", "lost"}}

Init ==
    /\ table = [u \in Updates |-> "none"] /\ cmd = [u \in Updates |-> "none"]
    /\ loud = {} /\ cache = {} /\ locked = FALSE
    /\ pc = "idle" /\ job = "poll" /\ todo = {} /\ gone = {} /\ new = 0
    /\ mine = {} /\ before = {}

-----------------------------------------------------------------------------
(* _refresh_cache, called first by everybody.                               *)

\* A plausible slip: final_flush visits what the refresh has removed.
GoOnStale(j, left) ==
    /\ pc' = CASE j = "start" -> "start" [] j = "poll" -> "answer" [] j = "exit" -> "flush"
    /\ todo' = IF j = "exit" THEN cache ELSE {}

\* Where the caller goes on after the refresh; final_flush visits what is left.
GoOn(j, left) ==
    /\ pc' = CASE j = "start" -> "start" [] j = "poll" -> "answer" [] j = "exit" -> "flush"
    /\ todo' = IF j = "exit" THEN left ELSE {}

\* PUT, GET of an update, or the end of the process.
Come(j) ==
    /\ pc = "idle"
    /\ job' = j /\ before' = Ended /\ gone' = {}
    /\ IF locked
       THEN GoOn(j, cache) /\ UNCHANGED locked
       ELSE locked' = TRUE /\ pc' = "refresh" /\ todo' = cache
    /\ UNCHANGED <<table, cmd, loud, cache, new, mine>>

\* A plausible slip: the exit status is not asked for.
VisitAny(u) ==
    /\ pc = "refresh" /\ u \in todo
    /\ todo' = todo \ {u}
    /\ UNCHANGED <<table, cmd, loud, cache, locked, pc, job, gone, new, mine, before>>

\* exit_status_ready is false.
Visit(u) ==
    /\ pc = "refresh" /\ u \in todo /\ u \notin Ended
    /\ todo' = todo \ {u}
    /\ UNCHANGED <<table, cmd, loud, cache, locked, pc, job, gone, new, mine, before>>

\* A plausible slip: the exit code 0 counts as an error.
VerdictFromZero(u) == IF cmd[u] \in {"ok", "failed"} THEN "FAILURE" ELSE "SUCCESS"

\* exit_code > 0 is a failure, -1 is not.
Verdict(u) == IF cmd[u] = "failed" THEN "FAILURE" ELSE "SUCCESS"

\* A plausible slip: only failures are written.
RecordFailures(u) ==
    /\ pc = "refresh" /\ u \in todo \intersect Ended
    /\ table' = IF cmd[u] = "failed" THEN [table EXCEPT ![u] = "FAILURE"] ELSE table
    /\ todo' = todo \ {u} /\ gone' = gone \union {u}
    /\ UNCHANGED <<cmd, loud, cache, locked, pc, job, new, mine, before>>

Record(u) ==
    /\ pc = "refresh" /\ u \in todo \intersect Ended
    /\ table' = [table EXCEPT ![u] = Verdict(u)]
    /\ todo' = todo \ {u} /\ gone' = gone \union {u}
    /\ UNCHANGED <<cmd, loud, cache, locked, pc, job, new, mine, before>>

\* A plausible slip: the entries are kept.
KeepCache ==
    /\ pc = "refresh" /\ todo = {}
    /\ locked' = FALSE
    /\ GoOn(job, cache)
    /\ gone' = {}
    /\ UNCHANGED <<table, cmd, loud, cache, job, new, mine, before>>

Refreshed ==
    /\ pc = "refresh" /\ todo = {}
    /\ cache' = cache \ gone /\ gone' = {} /\ locked' = FALSE
    /\ GoOn(job, cache \ gone)
    /\ UNCHANGED <<table, cmd, loud, job, new, mine, before>>

-----------------------------------------------------------------------------
(* The requests.                                                            *)

Idle == pc' = "idle" /\ todo' = {} /\ gone' = {} /\ new' = 0

\* Invalid names, or no connection: nothing is made.
StartRefused ==
    /\ pc = "start"
    /\ Idle
    /\ UNCHANGED <<table, cmd, loud, cache, locked, job, mine, before>>

CreateRow(u) ==
    /\ pc = "start" /\ table[u] = "none"
    /\ table' = [table EXCEPT ![u] = "IN_PROGRESS"]
    /\ new' = u /\ pc' = "exec"
    /\ UNCHANGED <<cmd, loud, cache, locked, job, todo, gone, mine, before>>

\* A plausible slip: the update is tracked from the next request on.
ExecUntracked ==
    /\ pc = "exec"
    /\ cmd' = [cmd EXCEPT ![new] = "running"] /\ loud' \in {loud, loud \union {new}}
    /\ mine' = mine \union {new}
    /\ Idle
    /\ UNCHANGED <<table, cache, locked, job, before>>

\* The command is started, the cache remembers its channel: 201.
Exec ==
    /\ pc = "exec"
    /\ cmd' = [cmd EXCEPT ![new] = "running"] /\ loud' \in {loud, loud \union {new}}
    /\ cache' = cache \union {new} /\ mine' = mine \union {new}
    /\ Idle
    /\ UNCHANGED <<table, locked, job, before>>

\* GET reads the row.
Answer ==
    /\ pc = "answer"
    /\ Idle
    /\ UNCHANGED <<table, cmd, loud, cache, locked, job, mine, before>>

\* A new process takes over; the rows are all it finds.
Restart ==
    /\ cache' = {} /\ locked' = FALSE /\ mine' = {}
    /\ Idle
    /\ UNCHANGED <<cmd, loud, job, before>>

\* final_flush reads the output first, which ends with the command.
FlushOne(u) ==
    /\ pc = "flush" /\ u \in todo \intersect Ended
    /\ table' = [table EXCEPT ![u] = "INTERRUPTED"]
    /\ todo' = todo \ {u}
    /\ UNCHANGED <<cmd, loud, cache, locked, pc, job, gone, new, mine, before>>

FlushDone ==
    /\ pc = "flush" /\ todo = {}
    /\ Restart
    /\ UNCHANGED table

-----------------------------------------------------------------------------
(* What goes wrong.                                                         *)

\* The database, or closing the client, raises in a refresh: the request ends
\* and nothing unlocks the cache.  final_flush logs it and the process ends.
RecordRaises(u) ==
    /\ pc = "refresh" /\ u \in todo \intersect Ended
    /\ table' \in {table, [table EXCEPT ![u] = Verdict(u)]}
    /\ IF job = "exit" THEN Restart
       ELSE Idle /\ UNCHANGED <<cmd, loud, cache, locked, job, mine, before>>

FlushRaises(u) ==
    /\ pc = "flush" /\ u \in todo \intersect Ended
    /\ table' \in {table, [table EXCEPT ![u] = "INTERRUPTED"]}
    /\ Restart

\* The row is made and the connection fails, before or after the command starts.
ExecRaises ==
    /\ pc = "exec"
    /\ cmd' \in {cmd, [cmd EXCEPT ![new] = "running"]}
    /\ Idle
    /\ UNCHANGED <<table, loud, cache, locked, job, mine, before>>

\* The process is killed.
Crash == Restart /\ UNCHANGED table

\* A command ends, or its connection does.
End(u) ==
    /\ cmd[u] = "running"
    /\ \E how \in {"ok", "failed", "lost"} :
          /\ how # "lost" /\ u \in loud => pc = "flush" /\ u \in todo
          /\ cmd' = [cmd EXCEPT ![u] = how]
    /\ UNCHANGED <<table, loud, procVars, before>>

Refreshing == (\E u \in Updates : Visit(u) \/ Record(u)) \/ Refreshed
Requesting == StartRefused \/ (\E u \in Updates : CreateRow(u)) \/ Exec \/ Answer
Flushing == (\E u \in Updates : FlushOne(u)) \/ FlushDone
Fault == (\E u \in Updates : RecordRaises(u) \/ FlushRaises(u)) \/ ExecRaises \/ Crash

Step == Refreshing \/ Requesting \/ Flushing

Next ==
    \/ \E j \in {"start", "poll", "exit"} : Come(j)
    \/ Step
    \/ Fault
    \/ \E u \in Updates : End(u)

Spec == Init /\ [][Next]_vars

\* A request that has come is carried on with, to its end or to a failure.
FairSpec == Spec /\ WF_vars(Step \/ Fault)

-----------------------------------------------------------------------------

\* Every variable keeps its type; commands of the cache were started, rows
\* exist for all commands, and a refresh under way holds the lock.
TypeOK ==
    /\ table \in [Updates -> {"none", "IN_PROGRESS", "SUCCESS", "FAILURE", "INTERRUPTED"}]
    /\ cmd \in [Updates -> {"none", "running", "ok", "failed", "lost"}]
    /\ loud \subseteq Updates /\ mine \subseteq Updates /\ before \subseteq Updates
    /\ cache \subseteq mine /\ gone \subseteq cache /\ todo \subseteq cache
    /\ locked \in BOOLEAN
    /\ pc \in {"idle", "refresh", "start", "exec", "answer", "flush"}
    /\ job \in {"start", "poll", "exit"}
    /\ new \in Updates \union {0}
    /\ pc = "refresh" => locked
    /\ pc = "exec" <=> new # 0
    /\ pc = "exec" => table[new] = "IN_PROGRESS" /\ cmd[new] = "none"
    /\ \A u \in Updates : table[u] = "none" => cmd[u] = "none"
    /\ \A u \in mine : cmd[u] # "none"

\* A row says FAILURE only if the command failed and SUCCESS only if it did
\* not, though a lost connection passes for a success; whatever it says, the
\* command has ended, even if INTERRUPTED is said.
RecordsTrue ==
    \A u \in Updates :
        /\ table[u] = "FAILURE" => cmd[u] = "failed"
        /\ table[u] = "SUCCESS" => cmd[u] \in {"ok", "lost"}
        /\ table[u] = "INTERRUPTED" => u \in Ended

\* The process remembers every update it has answered for until its row is
\* written, whatever failed in between: none is left in progress for want of
\* an entry in the cache.
Tracked == \A u \in mine : table[u] = "IN_PROGRESS" => u \in cache

\* A refresh misses nothing: what is still in the cache when a request is
\* answered had not ended when the request came, unless the lock was left.
FreshAnswers == pc \in {"answer", "start"} /\ ~locked => cache \intersect before = {}

\* A verdict stays, except that the process may call interrupted, at its end,
\* what it has recorded in a refresh that raised.
VerdictStays ==
    [][\A u \in Updates : table[u] \in {"SUCCESS", "FAILURE"} =>
          \/ table'[u] = table[u]
          \/ table'[u] = "INTERRUPTED" /\ locked /\ pc = "flush"]_vars

\* If requests keep coming and find the cache unlocked, nothing fails any more
\* and the process goes on, a command that has ended is recorded.
EndedIsRecorded ==
    <>[][~Fault]_vars /\ []<>(pc = "refresh") =>
        \A u \in Updates : []<>(u \in mine /\ u \in Ended => table[u] # "IN_PROGRESS")

\* "image update cache is locked, refresh it later" (image.py:46): the lock is
\* held by a refresh under way, and there is a later.
LockIsHeld == locked => pc = "refresh"
=============================================================================
