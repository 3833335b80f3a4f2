----------------------------- MODULE Callbacks -----------------------------
(***************************************************************************)
(* The callbacks that the engine runs, call by call, on one resource: a    *)
(* group, a repository or a project.  Any callback follows any other one,  *)
(* repeated or not, on whatever the calls before it have left.             *)
(***************************************************************************)
EXTENDS GroupCallbacks, RepoCallbacks, ProjectCallbacks

vars == <<callVars, groupVars, repoVars, projectVars>>

Init == CallInit /\ GroupInit /\ RepoInit /\ ProjectInit

Next ==
    \/ kind = "groups" /\ GroupNext /\ UNCHANGED <<repoVars, projectVars>>
    \/ kind = "repos" /\ RepoNext /\ UNCHANGED <<groupVars, projectVars>>
    \/ kind = "projects" /\ ProjectNext /\ UNCHANGED <<groupVars, repoVars>>

Spec == Init /\ [][Next]_vars

\* Whatever fails half-way, the object on the service stays well-formed, and
\* accounts without an email are never among those to be added or removed.
TypeOK ==
    /\ CallTypeOK
    /\ kind = "groups" => GroupTypeOK
    /\ kind = "repos" => RepoTypeOK
    /\ kind = "projects" => ProjectTypeOK

\* A callback that neither logs nor raises has done what it was called for: the
\* engine takes logs alone for trouble ("We have logs here meaning callback call
\* has encountered some troubles", engine.py:278).
QuietIsDone ==
    /\ kind = "groups" => GroupQuietIsDone
    /\ kind = "repos" => RepoQuietIsDone
    /\ kind = "projects" => ProjectQuietIsDone

\* On services that work a callback is the step RunOp of the engine, whatever the
\* engine rightly takes the object for: it logs only because what it creates is
\* there or what it deletes (of Gerrit also: updates) is not; and sending a
\* creation again, though it logs, completes what an earlier one has left.
CalmOutcome ==
    /\ kind = "groups" => GroupCalmOutcome
    /\ kind = "repos" => RepoCalmOutcome
    /\ kind = "projects" => ProjectCalmOutcome

\* Wherever a callback is cut short, by a call that fails or a kill, it is the
\* step FailOp of the engine: what it leaves is among what the engine reckons
\* with, nothing that is to stay was taken away, and what was made is what
\* another attempt completes.  If it goes on to its end, it has logged.
CutShort ==
    /\ pc = "done" => calm \/ logs
    /\ kind = "groups" => GroupCutShort
    /\ kind = "repos" => RepoCutShort
    /\ kind = "projects" => ProjectCutShort
=============================================================================
