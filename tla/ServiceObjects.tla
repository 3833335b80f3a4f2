--------------------------- MODULE ServiceObjects ---------------------------
(***************************************************************************)
(* What the engine relies on in its callbacks: what one callback makes of  *)
(* one object of a service (a group, a repository, a Storyboard project    *)
(* group), as a single step.  ResourcesEngine runs these steps on all      *)
(* objects; Callbacks shows that the callbacks, call by call, take them.   *)
(***************************************************************************)
CONSTANT Absent   \* nothing of that name exists on the service

Ctypes == {"create", "update", "delete"}

\* An object that exists but has only part of content c, because a callback of
\* kind ctype was cut short between two calls of the service API.
Half(ctype, c) == [half |-> c, by |-> ctype]

Halves(contents) == [half: {Absent} \union contents, by: Ctypes]

\* What can be of an object whose callbacks ask for one of these contents.
States(contents) == {Absent} \union contents \union Halves(contents)

\* The object exists as its own creation made it, entirely or in part: a group
\* was sent with its description, maybe still without some members.
OwnCreation(now, goal) == now \in {goal, Half("create", goal)}

\* GroupOps on a Gerrit that works.  Creating a group that exists logs the
\* conflict, adds the members, and leaves description and other members as they
\* are; updating or deleting one that does not exist fails.
GroupEnd(ctype, now, goal) ==
    IF ctype = "create" /\ now # Absent
    THEN [now |-> IF OwnCreation(now, goal) THEN goal ELSE Half("update", goal), logs |-> TRUE]
    ELSE IF ctype # "create" /\ now = Absent
    THEN [now |-> Absent, logs |-> TRUE]
    ELSE [now |-> goal, logs |-> FALSE]

\* A plausible slip: creation gives up at the conflict.
RepoEndGivesUp(ctype, now, goal) ==
    IF (now # Absent) = (ctype = "create")
    THEN [now |-> now, logs |-> TRUE]
    ELSE [now |-> goal, logs |-> FALSE]

\* GitRepositoryOps.  Creating a repository that exists logs the conflict and
\* goes on with the ACL; updating or deleting one that does not exist fails.
RepoEnd(ctype, now, goal) ==
    IF ctype # "create" /\ now = Absent
    THEN [now |-> Absent, logs |-> TRUE]
    ELSE [now |-> goal, logs |-> ctype = "create" /\ now # Absent]

\* StoryboardOps creates what it misses, and fails to delete what is not there.
ProjectEnd(ctype, now, goal) ==
    [now |-> goal, logs |-> ctype = "delete" /\ now = Absent]

\* What a callback for an object of this type, which is now so, makes of it on
\* services that work, and whether it logs.
End(type, ctype, now, goal) ==
    IF type = "groups" THEN GroupEnd(ctype, now, goal)
    ELSE IF type = "repos" THEN RepoEnd(ctype, now, goal)
    ELSE ProjectEnd(ctype, now, goal)

\* What a callback that is cut short, by a service that fails or a kill, can
\* leave: nothing of its effect, part of it, or all of it with the answer lost.
Debris(type, ctype, now, goal) ==
    LET end == End(type, ctype, now, goal).now
        by == IF ctype = "create" /\ now # Absent /\ ~OwnCreation(now, goal) THEN "update" ELSE ctype
    IN  {now, end} \union IF now # Absent \/ end # Absent THEN {Half(by, goal)} ELSE {}
=============================================================================
