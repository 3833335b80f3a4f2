--------------------------- MODULE RepoCallbacks ---------------------------
(***************************************************************************)
(* GitRepositoryOps (managesf/model/yamlbkd/resources/gitrepository.py) on *)
(* one Gerrit repository, call by call.  GerritRepo works on a clone in a  *)
(* directory of its own, so what it pushes is all that others see of it.   *)
(***************************************************************************)
EXTENDS CallbackCalls

CONSTANTS Acls,       \* texts of ACLs, the default one among them
          AclGroups,  \* groups an ACL may name
          Plain,      \* the ACL of a repository just created
          NoRepo

VARIABLES
    repo,     \* the repository on Gerrit
    order,    \* what the callback was called with
    ids,      \* groups whose Gerrit id it found
    prior     \* ghost: the repository when the callback was called

\* Branch meta/config: project.config and the file of groups; file .gitreview.
Config ==
    {c \in [acl: Acls \union {Plain}, desc: Texts, groups: SUBSET AclGroups,
            found: SUBSET AclGroups] : c.found \subseteq c.groups}
Repo == [config: Config, review: BOOLEAN]
ASSUME AclsAssumption == Acls # {}
ASSUME NoRepoAssumption == NoRepo \notin Repo

Order == [acl: Acls, desc: Texts, groups: SUBSET AclGroups]

repoVars == <<repo, order, ids, prior>>

RepoInit ==
    /\ repo = NoRepo /\ prior = NoRepo
    /\ order = [acl |-> CHOOSE a \in Acls : TRUE, desc |-> AnyText, groups |-> {}]
    /\ ids = {}

\* install_acl: the description is put into the text of the ACL.
Ordered == [acl |-> order.acl, desc |-> order.desc, groups |-> order.groups, found |-> ids]

-----------------------------------------------------------------------------

CallRepo(c, o) ==
    /\ order' = o /\ ids' = {} /\ prior' = repo
    /\ Call(c, CASE c = "create" -> "project" [] c = "update" -> "ids" [] c = "delete" -> "delete")
    /\ UNCHANGED repo

\* A plausible slip: the callback ends at the conflict.
CreateProjectOrEnd ==
    /\ pc = "project"
    /\ Tell(repo, repo = NoRepo,
            [config |-> [acl |-> Plain, desc |-> order.desc, groups |-> {}, found |-> {}],
             review |-> FALSE],
            IF repo = NoRepo THEN "ids" ELSE "done", "done")
    /\ UNCHANGED <<order, ids, prior>>

CreateProject ==
    /\ pc = "project"
    /\ Tell(repo, repo = NoRepo,
            [config |-> [acl |-> Plain, desc |-> order.desc, groups |-> {}, found |-> {}],
             review |-> FALSE],
            "ids", "ids")
    /\ UNCHANGED <<order, ids, prior>>

\* get_group_id of every group, outside any try.  False, for a group that
\* Gerrit does not have, is written into the file like an id.
FindIds ==
    /\ pc = "ids"
    /\ \/ ids' \in SUBSET order.groups /\ GoOn("config")
       \/ Raise("done") /\ UNCHANGED ids
    /\ UNCHANGED <<repo, order, prior>>

\* A plausible slip: the exception is only printed.
PushConfigQuietly ==
    /\ pc = "config"
    /\ repo' \in {repo} \union (IF repo = NoRepo THEN {} ELSE {[repo EXCEPT !.config = Ordered]})
    /\ GoOn(IF ctype = "create" THEN "review" ELSE "done")
    /\ UNCHANGED <<order, ids, prior>>

\* clone and push_config; nothing is pushed if nothing has changed.
PushConfig ==
    /\ pc = "config"
    /\ LET next == IF ctype = "create" THEN "review" ELSE "done"
       IN  Tell(repo, repo # NoRepo, [repo EXCEPT !.config = Ordered], next, next)
    /\ UNCHANGED <<order, ids, prior>>

\* clone and push_master of .gitreview.
PushReview ==
    /\ pc = "review"
    /\ Tell(repo, repo # NoRepo, [repo EXCEPT !.review = TRUE], "done", "done")
    /\ UNCHANGED <<order, ids, prior>>

DeleteProject ==
    /\ pc = "delete"
    /\ Tell(repo, repo # NoRepo, NoRepo, "done", "done")
    /\ UNCHANGED <<order, ids, prior>>

RepoNext ==
    \/ \E c \in {"create", "update", "delete"}, o \in Order : CallRepo(c, o)
    \/ CreateProject \/ FindIds \/ PushConfig \/ PushReview \/ DeleteProject
    \/ ByHand(repo, Repo \union {NoRepo}) /\ UNCHANGED <<order, ids, prior>>
    \/ Killed /\ ids' = {} /\ prior' = repo /\ UNCHANGED <<repo, order>>

-----------------------------------------------------------------------------

RepoTypeOK ==
    /\ repo \in Repo \union {NoRepo} /\ prior \in Repo \union {NoRepo}
    /\ order \in Order /\ ids \subseteq order.groups
    /\ pc \in {"idle", "project", "ids", "config", "review", "delete", "done"}

\* A callback that logs nothing has installed the ACL it was called with, under
\* the description it was called with and with the ids found by this callback;
\* a creation has also pushed .gitreview.
RepoQuietIsDone ==
    pc = "done" /\ ~logs =>
        IF ctype = "delete" THEN repo = NoRepo
        ELSE /\ repo # NoRepo /\ repo.config = Ordered
             /\ ctype = "create" => repo.review

ASSUME ConfigAssumption == Absent \notin Config \union Halves(Config)

\* The repository r is something that the engine, which knows nothing of
\* .gitreview, takes for v.
RepoIs(r, v) ==
    /\ v = Absent <=> r = NoRepo
    /\ v \in Config => r.config = v

RepoGoal == IF ctype = "delete" THEN Absent ELSE Ordered

\* On a Gerrit that works a callback ends, and logs, as the engine has it end;
\* creating again logs the conflict and completes what was cut short, the file
\* .gitreview included, which no update does.
RepoCalmOutcome ==
    kind = "repos" /\ pc = "done" /\ calm =>
        /\ \A v \in States(Config) : RepoIs(prior, v) =>
              LET end == End("repos", ctype, v, RepoGoal)
              IN  RepoIs(repo, end.now) /\ (logs <=> end.logs)
        /\ ctype = "create" => repo.review
        /\ ctype = "update" /\ prior # NoRepo => repo = [prior EXCEPT !.config = Ordered]

\* Wherever a callback is cut short, it has left what the engine takes for its
\* debris; the ACL of a repository that existed is the old or the new one, with
\* its description and groups, and .gitreview is still there.
RepoCutShort ==
    kind = "repos" /\ pc # "idle" =>
        /\ \A v \in States(Config) : RepoIs(prior, v) =>
              \E x \in Debris("repos", ctype, v, RepoGoal) : RepoIs(repo, x)
        /\ prior # NoRepo /\ repo # NoRepo =>
              repo.config \in {prior.config, Ordered} /\ (prior.review => repo.review)
=============================================================================
