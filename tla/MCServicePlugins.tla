-------------------------- MODULE MCServicePlugins --------------------------
(* The patchset and the merge of a change with a task, a related task and a  *)
(* story, and another change that merges the related task, without a story.  *)
EXTENDS ServicePlugins

CONSTANTS t1, t2, s1, fix, done, ip1, ip2

MCTasks == {t1, t2}
MCStories == {s1}
MCMessages == {fix, done}
Patchset == [status |-> "inprogress", tasks |-> {t1}, related |-> {t2},
             stories |-> {s1}, message |-> fix]
Merge == [status |-> "merged", tasks |-> {t1}, related |-> {t2},
          stories |-> {s1}, message |-> done]
Other == [status |-> "merged", tasks |-> {t2}, related |-> {},
          stories |-> {}, message |-> done]
MCEvents == {Patchset, Merge, Other}
MCNodeIds == 1..2
MCAddresses == {ip1, ip2}
=============================================================================
