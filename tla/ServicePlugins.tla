--------------------------- MODULE ServicePlugins ---------------------------
(***************************************************************************)
(* Requests about hooks, jobs and nodes.  The process serves one at a time *)
(* and the three plugins (managesf/services/) share neither state nor a    *)
(* service, so a behaviour of managesf is one of each of them: kind says   *)
(* which one is looked at.                                                 *)
(***************************************************************************)
EXTENDS StoryboardHooks, JenkinsJobs, NodepoolNodes

vars == <<requestVars, hookVars, jobVars, nodeVars>>

Init == RequestInit /\ HookInit /\ JobInit /\ NodeInit

Next ==
    \/ kind = "hooks" /\ HookNext /\ UNCHANGED <<jobVars, nodeVars>>
    \/ kind = "jobs" /\ JobNext /\ UNCHANGED <<hookVars, nodeVars>>
    \/ kind = "nodes" /\ NodeNext /\ UNCHANGED <<hookVars, jobVars>>

Spec == Init /\ [][Next]_vars

\* A hook goes on with the event it handles: every call of the Storyboard
\* client ends by an answer or an exception, and its loops have no other way
\* to stop.
FairSpec ==
    Spec /\ WF_vars(kind = "hooks" /\ (HookStep \/ HookFault) /\ UNCHANGED <<jobVars, nodeVars>>)

\* What each plugin has read, noted and answered is of the kind that its next
\* call relies on.
TypeOK ==
    /\ RequestTypeOK
    /\ kind = "hooks" => HookTypeOK
    /\ kind = "jobs" => JobTypeOK
    /\ kind = "nodes" => NodeTypeOK
=============================================================================
