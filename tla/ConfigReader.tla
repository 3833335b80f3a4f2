---------------------------- MODULE ConfigReader ----------------------------
(***************************************************************************)
(* What YAMLBackend promises to the engine and to GET /resources: reading  *)
(* a ref of the config repository gives the resources of the commit the    *)
(* ref named when it was fetched, or an error; clone and cache are nowhere *)
(* to be seen.                                                             *)
(***************************************************************************)
EXTENDS Naturals

CONSTANTS MaxCommits,   \* bound on the length of master
          Broken,       \* commits whose YAML files are refused
          Blank,        \* commits without any YAML file
          None,         \* no data: what a blank commit reads as
          Error         \* the read raised an exception

VARIABLES master,       \* number of commits on master
          want,         \* the commit being read, 0 when there is none
          answer        \* the outcome of the last read

\* The tree the YAML files of commit c hold, all of it or only a part.
Whole(c) == [of |-> c, whole |-> TRUE]
Torn(c) == [of |-> c, whole |-> FALSE]

Content(c) == IF c \in Blank THEN None ELSE Whole(c)

Init == master = 1 /\ want = 0 /\ answer = None

Push ==
    /\ master < MaxCommits
    /\ master' = master + 1
    /\ UNCHANGED <<want, answer>>

Ask(c) ==
    /\ want = 0
    /\ want' = c
    /\ UNCHANGED <<master, answer>>

Reply ==
    /\ want # 0
    /\ answer' = IF want \in Broken THEN Error ELSE Content(want)
    /\ want' = 0
    /\ UNCHANGED master

\* git, the file system or the process fails.
Fail ==
    /\ answer' = Error
    /\ want' = 0
    /\ UNCHANGED master

Next == Push \/ (\E c \in 1..master : Ask(c)) \/ Reply \/ Fail

Spec == Init /\ [][Next]_<<master, want, answer>>
=============================================================================
