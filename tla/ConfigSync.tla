----------------------------- MODULE ConfigSync -----------------------------
(***************************************************************************)
(* What the resources engine promises to those who merge commits and send  *)
(* requests, without its trees, callbacks and failures: a run from one     *)
(* tree to another brings the services in line with the latter, or leaves  *)
(* them where the same run, sent again, will; and 201 means the former.    *)
(*                                                                         *)
(* inLine and mendable say all there is to know of the services: the trees *)
(* they agree with, and the runs they are fit for.                         *)
(***************************************************************************)

CONSTANTS AllTrees, NoRun

VARIABLES
    inLine,     \* the trees that the services are in line with
    mendable,   \* the runs that would end well, if nothing failed
    run,        \* the run in progress, a pair of trees, or NoRun
    promised,   \* it was mendable when it began
    clean,      \* nothing has failed it
    answer      \* the last answer, 0 for none

syncVars == <<inLine, mendable, run, promised, clean, answer>>

Init ==
    /\ \E t \in AllTrees : t \in inLine
    /\ run = NoRun /\ promised = FALSE /\ clean = FALSE /\ answer = 0

\* Services in line with a commit are fit for whatever comes next.
Promised(p, n) == p \in inLine \/ <<p, n>> \in mendable

Start(p, n) ==
    /\ run = NoRun /\ run' = <<p, n>>
    /\ promised' = Promised(p, n) /\ clean' = TRUE
    /\ UNCHANGED <<inLine, mendable, answer>>

\* The services change, and may fail.
Work ==
    /\ run # NoRun
    /\ promised => run \in mendable'
    /\ clean' => clean
    /\ UNCHANGED <<run, promised, answer>>

End ==
    /\ run # NoRun /\ run' = NoRun
    /\ answer' \in {201, 409}
    /\ promised /\ (clean \/ answer' = 201) => run[2] \in inLine
    /\ promised' = FALSE /\ clean' = FALSE
    /\ UNCHANGED <<inLine, mendable>>

\* The process is killed.
Die ==
    /\ run # NoRun /\ run' = NoRun /\ answer' = 0
    /\ promised' = FALSE /\ clean' = FALSE
    /\ UNCHANGED <<inLine, mendable>>

\* A request does not come to a run.
Refuse ==
    /\ run = NoRun /\ answer' \in {0, 409, 500}
    /\ UNCHANGED <<inLine, mendable, run, promised, clean>>

Next == (\E p, n \in AllTrees : Start(p, n)) \/ Work \/ End \/ Die \/ Refuse

Spec == Init /\ [][Next]_syncVars
=============================================================================
