------------------------ MODULE NodepoolImagesProofs ------------------------
(* Theorems about NodepoolImages, for any number of updates.                *)
EXTENDS NodepoolImages, TLAPS

USE UpdatesAssumption

LEMMA ImagesTyped == TypeOK /\ [Next]_vars => TypeOK'
  <1> SUFFICES ASSUME TypeOK, [Next]_vars PROVE TypeOK'
    OBVIOUS
  <1>. USE DEF TypeOK
  <1>1. ASSUME NEW j \in {"start", "poll", "exit"}, Come(j) PROVE TypeOK'
    BY <1>1 DEF Come, GoOn, Ended
  <1>2. ASSUME NEW u \in Updates, Visit(u) PROVE TypeOK'
    BY <1>2 DEF Visit
  <1>3. ASSUME NEW u \in Updates, Record(u) PROVE TypeOK'
    BY <1>3 DEF Record, Verdict, Ended
  <1>4. CASE Refreshed
    BY <1>4 DEF Refreshed, GoOn
  <1>5. CASE StartRefused \/ Answer
    BY <1>5 DEF StartRefused, Answer, Idle
  <1>6. ASSUME NEW u \in Updates, CreateRow(u) PROVE TypeOK'
    BY <1>6 DEF CreateRow
  <1>7. CASE Exec
    BY <1>7 DEF Exec, Idle
  <1>8. ASSUME NEW u \in Updates, FlushOne(u) PROVE TypeOK'
    BY <1>8 DEF FlushOne, Ended
  <1>9. CASE FlushDone \/ Crash
    BY <1>9 DEF FlushDone, Crash, Restart, Idle
  <1>10. ASSUME NEW u \in Updates, RecordRaises(u) PROVE TypeOK'
    BY <1>10 DEF RecordRaises, Restart, Idle, Verdict, Ended
  <1>11. ASSUME NEW u \in Updates, FlushRaises(u) PROVE TypeOK'
    BY <1>11 DEF FlushRaises, Restart, Idle, Ended
  <1>12. CASE ExecRaises
    BY <1>12 DEF ExecRaises, Idle
  <1>13. ASSUME NEW u \in Updates, End(u) PROVE TypeOK'
    BY <1>13 DEF End, procVars
  <1>14. CASE UNCHANGED vars
    BY <1>14 DEF vars
  <1>. QED
    BY <1>1, <1>2, <1>3, <1>4, <1>5, <1>6, <1>7, <1>8, <1>9, <1>10, <1>11, <1>12, <1>13, <1>14
       DEF Next, Step, Refreshing, Requesting, Flushing, Fault

\* Types, and what commands, cache and rows have to do with one another.
THEOREM ImagesTypeCorrect == Spec => []TypeOK
  <1>1. Init => TypeOK
    BY DEF Init, TypeOK
  <1>. QED
    BY <1>1, ImagesTyped, PTL DEF Spec

\* What is to be removed from the cache is written.
Written == \A u \in gone : table[u] # "IN_PROGRESS"

\* What had ended when the request came has still, and is waiting for its visit.
Waiting ==
    /\ before \subseteq Ended
    /\ pc = "refresh" => (cache \ gone) \intersect before \subseteq todo

\* Entries that nobody has visited have no verdict yet.
Open ==
    /\ pc = "refresh" => \A u \in cache \ gone : table[u] = "IN_PROGRESS"
    /\ pc = "flush" /\ ~locked => \A u \in todo : table[u] = "IN_PROGRESS"
    /\ pc # "flush" /\ ~locked => \A u \in cache : table[u] = "IN_PROGRESS"

ImagesInv == RecordsTrue /\ Tracked /\ Written /\ Waiting /\ Open /\ FreshAnswers

LEMMA ImagesInductive ==
    ASSUME TypeOK, ImagesInv, [Next]_vars
    PROVE  ImagesInv'
  <1>. USE DEF TypeOK, ImagesInv, RecordsTrue, Tracked, Written, Waiting, Open, FreshAnswers, Ended
  <1>1. ASSUME NEW j \in {"start", "poll", "exit"}, Come(j) PROVE ImagesInv'
    BY <1>1 DEF Come, GoOn
  <1>2. ASSUME NEW u \in Updates, Visit(u) PROVE ImagesInv'
    BY <1>2 DEF Visit
  <1>3. ASSUME NEW u \in Updates, Record(u) PROVE ImagesInv'
    BY <1>3 DEF Record, Verdict
  <1>4. CASE Refreshed
    BY <1>4 DEF Refreshed, GoOn
  <1>5. CASE StartRefused \/ Answer
    BY <1>5 DEF StartRefused, Answer, Idle
  <1>6. ASSUME NEW u \in Updates, CreateRow(u) PROVE ImagesInv'
    BY <1>6 DEF CreateRow
  <1>7. CASE Exec
    BY <1>7 DEF Exec, Idle
  <1>8. ASSUME NEW u \in Updates, FlushOne(u) PROVE ImagesInv'
    BY <1>8 DEF FlushOne
  <1>9. CASE FlushDone \/ Crash
    BY <1>9 DEF FlushDone, Crash, Restart, Idle
  <1>10. ASSUME NEW u \in Updates, RecordRaises(u) PROVE ImagesInv'
    <2>1. UNCHANGED <<cmd, before>> /\ pc' = "idle" /\ gone' = {} /\ todo' = {}
      BY <1>10 DEF RecordRaises, Restart, Idle
    <2>2. table' = table \/ table' = [table EXCEPT ![u] = Verdict(u)]
      BY <1>10 DEF RecordRaises
    <2>3. RecordsTrue'
      BY <1>10, <2>1, <2>2 DEF RecordRaises, Verdict
    <2>4. (cache' = {} /\ mine' = {}) \/ UNCHANGED <<cache, mine, locked>>
      BY <1>10 DEF RecordRaises, Restart
    <2>5. Tracked'
      <3>1. \A w \in Updates : table'[w] = "IN_PROGRESS" => table[w] = "IN_PROGRESS"
        BY <1>10, <2>2 DEF Verdict
      <3>2. mine' \subseteq mine /\ (mine' = {} \/ cache' = cache)
        BY <2>4
      <3>. QED
        BY <3>1, <3>2
    <2>6. Open' /\ FreshAnswers'
      BY <1>10, <2>1, <2>4 DEF RecordRaises
    <2>. QED
      BY <2>1, <2>3, <2>5, <2>6
  <1>11. ASSUME NEW u \in Updates, FlushRaises(u) PROVE ImagesInv'
    BY <1>11 DEF FlushRaises, Restart, Idle
  <1>12. CASE ExecRaises
    BY <1>12 DEF ExecRaises, Idle
  <1>13. ASSUME NEW u \in Updates, End(u) PROVE ImagesInv'
    BY <1>13 DEF End, procVars
  <1>14. CASE UNCHANGED vars
    BY <1>14 DEF vars
  <1>. QED
    BY <1>1, <1>2, <1>3, <1>4, <1>5, <1>6, <1>7, <1>8, <1>9, <1>10, <1>11, <1>12, <1>13, <1>14
       DEF Next, Step, Refreshing, Requesting, Flushing, Fault

\* What every property below follows from: each entry of the cache is on its
\* way from its command to its row.
THEOREM ImagesInvariant == Spec => []ImagesInv
  <1>1. Init => ImagesInv
    BY DEF Init, ImagesInv, RecordsTrue, Tracked, Written, Waiting, Open, FreshAnswers, Ended
  <1>. QED
    BY <1>1, ImagesInductive, ImagesTyped, ImagesTypeCorrect, PTL DEF Spec

\* Rows say what became of the command, whenever the process died.
THEOREM ImageRecordsTrue == Spec => []RecordsTrue
  BY ImagesInvariant, PTL DEF ImagesInv

\* An update is in the cache until its row is written.
THEOREM ImagesTracked == Spec => []Tracked
  BY ImagesInvariant, PTL DEF ImagesInv

\* No answer is older than its request.
THEOREM ImageAnswersFresh == Spec => []FreshAnswers
  BY ImagesInvariant, PTL DEF ImagesInv

\* Only the end of a process whose refresh raised changes a verdict.
THEOREM ImageVerdictsStay == Spec => VerdictStays
  <1> DEFINE Stays == \A u \in Updates : table[u] \in {"SUCCESS", "FAILURE"} =>
                        \/ table'[u] = table[u]
                        \/ table'[u] = "INTERRUPTED" /\ locked /\ pc = "flush"
  <1>1. TypeOK /\ ImagesInv /\ [Next]_vars => [Stays]_vars
    <2> SUFFICES ASSUME TypeOK, ImagesInv, Next PROVE Stays
      OBVIOUS
    <2>. USE DEF TypeOK, ImagesInv, Ended
    <2>1. ASSUME NEW u \in Updates, Record(u) \/ RecordRaises(u) PROVE Stays
      <3>1. table' = table \/ table' = [table EXCEPT ![u] = Verdict(u)]
        BY <2>1 DEF Record, RecordRaises
      <3>2. u \in Ended
        BY <2>1 DEF Record, RecordRaises
      <3>3. table[u] \in {"SUCCESS", "FAILURE"} => Verdict(u) = table[u]
        BY <3>2 DEF RecordsTrue, Verdict
      <3>. QED
        BY <3>1, <3>3
    <2>2. ASSUME NEW u \in Updates, FlushOne(u) \/ FlushRaises(u) PROVE Stays
      <3>1. pc = "flush" /\ u \in todo
             /\ (table' = table \/ table' = [table EXCEPT ![u] = "INTERRUPTED"])
        BY <2>2 DEF FlushOne, FlushRaises
      <3>2. table[u] = "IN_PROGRESS" \/ locked
        BY <3>1 DEF Open
      <3>. QED
        BY <3>1, <3>2
    <2>3. ASSUME NEW u \in Updates, CreateRow(u) PROVE Stays
      BY <2>3 DEF CreateRow
    <2>4. ASSUME UNCHANGED table PROVE Stays
      BY <2>4
    <2>5. (\E j \in {"start", "poll", "exit"} : Come(j)) \/ (\E u \in Updates : Visit(u) \/ End(u))
             \/ Refreshed \/ StartRefused \/ Exec \/ Answer \/ FlushDone \/ ExecRaises \/ Crash
             => UNCHANGED table
      BY DEF Come, Visit, End, Refreshed, StartRefused, Exec, Answer, FlushDone, ExecRaises, Crash
    <2>. QED
      BY <2>1, <2>2, <2>3, <2>4, <2>5 DEF Next, Step, Refreshing, Requesting, Flushing, Fault
  <1>. QED
    BY <1>1, ImagesInvariant, ImagesTypeCorrect, PTL DEF Spec, VerdictStays
=============================================================================
