-------------------------- MODULE ResourcesEngine --------------------------
(***************************************************************************)
(* The resources engine at work: commits are validated and merged into the *)
(* master branch of the config repository, PUT requests make the engine    *)
(* load two trees, compute the changes and run one service callback per    *)
(* change (managesf/model/yamlbkd/engine.py, controllers/root.py), and the *)
(* callbacks change what exists on Gerrit and Storyboard.                  *)
(*                                                                         *)
(* Services may refuse, fail half-way or not answer, the managesf process  *)
(* may be killed between two callbacks, and requests may be repeated, come *)
(* late or come in any order.                                              *)
(***************************************************************************)
EXTENDS ResourceTree, ServiceObjects, Sequences

CONSTANTS Trees,         \* trees a contributor may propose
          DirectTrees,   \* trees an operator may pass to direct_apply
          InitialTree,   \* tree of the first commit
          NoVal,         \* a content that has no text of its own
          MaxCommits     \* bound on the length of master

ASSUME TreesAssumption ==
    Trees \subseteq Tree /\ DirectTrees \subseteq Tree /\ InitialTree \in Tree
ASSUME InitialTreeAssumption == TreeValid(InitialTree)
ASSUME BoundsAssumption == MaxCommits \in Nat

VARIABLES
    history,     \* master of the config repository: the tree of each commit
    reality,     \* what exists on the services, by key
    pc,          \* phase of the engine
    prev, new,   \* the two trees the request in progress has loaded
    defaulted,   \* keys of new whose dictionary went through set_defaults
    changes,     \* the sanitized_changes dictionary: create, update, delete
    todo,        \* operations _apply_changes has not run yet
    partial,     \* partial_errors: some callback returned or raised something
    status,      \* HTTP status of the last answered request
    start,       \* ghost: how reality related to (prev, new) when changes was computed
    clean        \* ghost: no service failed since then

engineVars == <<pc, prev, new, defaulted, changes, todo, partial, status>>
ghostVars == <<start, clean>>
vars == <<history, reality, engineVars, ghostVars>>

-----------------------------------------------------------------------------
(* What the services hold.                                                 *)

\* own is the text of the resource itself, read what was copied from its
\* dependencies, gids the groups whose Gerrit id was found when it was pushed.
Content == [own: Vals \union {NoVal}, read: SUBSET (Keys \X Vals), gids: SUBSET Keys]

Reality == States(Content)

ASSUME AbsentAssumption == Absent \notin Content \union Halves(Content)

Tracked(t, k) == t[k] # NoRes /\ t[k].val \in OnVals

Exists(k) == reality[k] # Absent

\* A group: its members and description.
GroupPushed(t, k) == [own |-> t[k].val, read |-> {}, gids |-> {}]

\* A repository: its description, the text of its ACL, and a groups file with
\* the Gerrit id of each group; a group not found there is written with the
\* id "False", and nothing is logged.
RepoPushed(t, k, found) ==
    [own |-> t[k].val,
     read |-> {<<a, t[a].val>> : a \in Deps(t, k)},
     gids |-> GroupsOf(t, k) \intersect found]

\* A Storyboard project group: its repositories, with their descriptions.
ProjectPushed(t, k) ==
    [own |-> NoVal, read |-> {<<r, t[r].val>> : r \in Deps(t, k)}, gids |-> {}]

\* What a fully successful callback leaves on the service for key k of tree t,
\* when Gerrit knows the groups found.
Pushed(t, k, found) ==
    IF k[1] = "groups" THEN GroupPushed(t, k)
    ELSE IF k[1] = "repos" THEN RepoPushed(t, k, found)
    ELSE ProjectPushed(t, k)

\* Reality agrees with tree t on key k.  ACLs exist only inside repositories,
\* and a project that does not use the local tracker promises nothing about
\* Storyboard.
Settled(t, k) ==
    /\ k[1] = "projects" /\ Tracked(t, k) => reality[k] = Pushed(t, k, {})
    /\ k[1] \in {"groups", "repos"} =>
           reality[k] = IF t[k] = NoRes THEN Absent ELSE Pushed(t, k, Keys)

\* No reality is in line with a tree that lacks dependencies.
Synced(t) == DepsOk(t) /\ \A k \in Keys : Settled(t, k)

\* Applying (p, n) to the end also removes the tracked projects it deletes.
Achieved(p, n) ==
    /\ Synced(n)
    /\ \A k \in Deletes(p, n) :
            k[1] = "projects" /\ Tracked(p, k) => reality[k] = Absent

-----------------------------------------------------------------------------
(* The operations of a request.                                            *)

Op == [ctype: {"create", "update", "delete"}, key: Keys]

NoChanges == [create |-> {}, update |-> {}, delete |-> {}]

Ops(ch) ==
    {o \in Op : o.key \in ch[o.ctype]}

\* A plausible slip: the order in which the source text writes the keys.
SourceCtypeRank == [create |-> 2, update |-> 1, delete |-> 3]

\* Within a type the dictionary {'update', 'create', 'delete'} is walked in
\* the order CPython 2.7 hashes these keys.
CtypeRank == [create |-> 1, update |-> 2, delete |-> 3]

Precedes(o, q) ==
    \/ Priority[o.key[1]] > Priority[q.key[1]]
    \/ /\ o.key[1] = q.key[1]
       /\ CtypeRank[o.ctype] < CtypeRank[q.ctype]

\* Ids of one type and one kind of change come in no particular order.
Nexts == {o \in todo : \A q \in todo : ~Precedes(q, o)}

\* The dictionaries of the new tree a callback reads: its own, and those it
\* reaches through self.new, have all their keys.
DataReady(o) ==
    o.ctype # "delete" =>
        /\ o.ctype = "update" => o.key \in defaulted
        /\ o.key[1] = "repos" =>
              Deps(new, o.key) \union GroupsOf(new, o.key) \subseteq defaulted
        /\ o.key[1] = "projects" /\ Tracked(new, o.key) =>
              Deps(new, o.key) \subseteq defaulted

\* The ACL callbacks do nothing and the project callbacks return at once when
\* the project does not use the local tracker.
CallsService(o) ==
    /\ o.key[1] # "acls"
    /\ o.key[1] = "projects" => Tracked(IF o.ctype = "delete" THEN prev ELSE new, o.key)

Goal(o) ==
    IF o.ctype = "delete" THEN Absent
    ELSE Pushed(new, o.key, {k \in Keys : k[1] = "groups" /\ Exists(k)})

\* What a callback makes of its key on services that work, and whether it logs.
Outcome(o) == End(o.key[1], o.ctype, reality[o.key], Goal(o))

\* What a callback that meets a failing service can leave behind.
Wrecks(o) == Debris(o.key[1], o.ctype, reality[o.key], Goal(o))

-----------------------------------------------------------------------------
(* Ghosts.                                                                 *)

\* A run of the changes ch towards tree n, undisturbed, brings every service in
\* line with n: what ch leaves alone is right already, what it updates exists,
\* and what it creates is missing or is the debris of an earlier attempt.
Repairable(ch, n) ==
    \A k \in Keys :
        /\ k \in ch.create /\ k[1] = "groups" =>
              reality[k] \in {Absent, Pushed(n, k, {}), Half("create", Pushed(n, k, {}))}
        /\ k \in ch.update \ ch.create /\ k[1] \in {"groups", "repos"} => Exists(k)
        /\ k \notin ch.create \union ch.update \union ch.delete => Settled(n, k)

StartOf(ch, p, n) ==
    IF Synced(p) THEN "synced" ELSE IF Repairable(ch, n) THEN "repairable" ELSE "other"

-----------------------------------------------------------------------------
(* Actions.                                                                *)

Init ==
    /\ history = <<InitialTree>>
    /\ reality = [k \in Keys |->
                    IF InitialTree[k] = NoRes \/ k[1] = "acls"
                       \/ (k[1] = "projects" /\ ~Tracked(InitialTree, k))
                    THEN Absent ELSE Pushed(InitialTree, k, Keys)]
    /\ pc = "idle"
    /\ prev = InitialTree /\ new = InitialTree
    /\ defaulted = {}
    /\ changes = NoChanges /\ todo = {}
    /\ partial = FALSE /\ status = 0
    /\ start = "other" /\ clean = FALSE

\* The gate: the change was validated against some earlier state of master
\* (POST /resources reads master while other changes are still to merge), the
\* reviewers approved it, and it becomes the next commit.
Merge(t) ==
    /\ Len(history) < MaxCommits
    /\ \E i \in 1..Len(history) : Accepts(history[i], t)
    /\ history' = Append(history, t)
    /\ UNCHANGED <<reality, engineVars, ghostVars>>

\* A request may be handled: one at a time.
Receive == pc = "idle"

Forget == start' = "other" /\ clean' = FALSE

\* PUT with a COMMIT: loads COMMIT^1 and COMMIT.
PutCommit(i) ==
    /\ Receive
    /\ prev' = history[i - 1] /\ new' = history[i]
    /\ pc' = "loaded"
    /\ defaulted' = {}
    /\ Forget
    /\ UNCHANGED <<history, reality, changes, todo, partial, status>>

\* PUT without a body: master^1 is fetched first and master later.
PutMaster ==
    /\ Receive
    /\ Len(history) > 1
    /\ prev' = history[Len(history) - 1]
    /\ pc' = "loading"
    /\ defaulted' = {}
    /\ Forget
    /\ UNCHANGED <<history, reality, new, changes, todo, partial, status>>

LoadMaster ==
    /\ pc = "loading"
    /\ new' = history[Len(history)]
    /\ pc' = "loaded"
    /\ UNCHANGED <<history, reality, prev, defaulted, changes, todo, partial,
                   status, ghostVars>>

\* PUT with two documents: direct_apply validates, and its dependency check
\* runs set_defaults on every resource of new.
DirectApply(p, n) ==
    /\ Receive
    /\ Accepts(p, n)
    /\ prev' = p /\ new' = n
    /\ pc' = "loaded"
    /\ defaulted' = Present(n)
    /\ Forget
    /\ UNCHANGED <<history, reality, changes, todo, partial, status>>

\* Refused, or get_deps raised an exception nobody catches.
DirectRefuse(p, n) ==
    /\ Receive
    /\ ~Accepts(p, n)
    /\ status' \in {409} \union
            {500 : k \in {k \in Present(n) : GetDepsRaises(n, k, Present(n))}}
    /\ Forget
    /\ UNCHANGED <<history, reality, pc, prev, new, defaulted, changes, todo, partial>>

\* _get_data_diff (which sets the defaults of every resource both trees have)
\* and _resolv_resources_need_refresh.
Plan ==
    LET known == defaulted \union Common(prev, new)
        ch == ChangesOf(prev, new)
    IN  /\ pc = "loaded"
        /\ ~ScanRaises(new, known, Updates(prev, new))
        /\ defaulted' = known
        /\ changes' = ch
        /\ todo' = Ops(ch)
        /\ partial' = FALSE
        /\ pc' = "apply"
        /\ start' = StartOf(ch, prev, new)
        /\ clean' = TRUE
        /\ UNCHANGED <<history, reality, prev, new, status>>

\* The KeyError of get_deps in a scan is not a YAMLDBException: it reaches the
\* client as a 500 before any callback has run.
PlanRaises ==
    /\ pc = "loaded"
    /\ ScanRaises(new, defaulted \union Common(prev, new), Updates(prev, new))
    /\ status' = 500
    /\ pc' = "idle"
    /\ UNCHANGED <<history, reality, prev, new, defaulted, changes, todo,
                   partial, ghostVars>>

\* One turn of the loop of _apply_changes.
Turn(o) ==
    /\ pc = "apply"
    /\ o \in Nexts
    /\ todo' = todo \ {o}
    /\ defaulted' = IF o.ctype = "create" THEN defaulted \union {o.key} ELSE defaulted
    /\ UNCHANGED <<history, pc, prev, new, changes, status, start>>

\* The callback meets services that work.
RunOp(o) ==
    /\ Turn(o)
    /\ DataReady(o)
    /\ reality' = IF CallsService(o) THEN [reality EXCEPT ![o.key] = Outcome(o).now]
                  ELSE reality
    /\ partial' = (partial \/ (CallsService(o) /\ Outcome(o).logs))
    /\ UNCHANGED clean

\* A plausible slip: the exception of a callback is swallowed.
FailOpSilently(o) ==
    /\ Turn(o)
    /\ CallsService(o)
    /\ \E r \in Wrecks(o) : reality' = [reality EXCEPT ![o.key] = r]
    /\ clean' = FALSE
    /\ UNCHANGED partial

\* A service fails the callback, or the callback finds a key missing in its
\* data: the error is logged and the loop goes on.
FailOp(o) ==
    /\ Turn(o)
    /\ CallsService(o)
    /\ \E r \in Wrecks(o) : reality' = [reality EXCEPT ![o.key] = r]
    /\ partial' = TRUE
    /\ clean' = FALSE

\* A plausible slip: 200 for 201.
FinishPlainOk ==
    /\ pc = "apply" /\ todo = {}
    /\ status' = IF partial THEN 409 ELSE 200
    /\ pc' = "idle"
    /\ UNCHANGED <<history, reality, prev, new, defaulted, changes, todo,
                   partial, ghostVars>>

Finish ==
    /\ pc = "apply" /\ todo = {}
    /\ status' = IF partial THEN 409 ELSE 201
    /\ pc' = "idle"
    /\ UNCHANGED <<history, reality, prev, new, defaulted, changes, todo,
                   partial, ghostVars>>

\* The managesf process dies: nothing of the request survives, and everything
\* the callbacks already did.
Crash ==
    /\ pc # "idle"
    /\ pc' = "idle"
    /\ status' = 0
    /\ todo' = {} /\ changes' = NoChanges /\ partial' = FALSE
    /\ Forget
    /\ UNCHANGED <<history, reality, prev, new, defaulted>>

Request ==
    \/ \E i \in 2..Len(history) : PutCommit(i)
    \/ PutMaster
    \/ \E p, n \in DirectTrees : DirectApply(p, n) \/ DirectRefuse(p, n)

Fault == Crash \/ \E o \in todo : FailOp(o)

Step == LoadMaster \/ Plan \/ PlanRaises \/ (\E o \in todo : RunOp(o)) \/ Finish

Next == (\E t \in Trees : Merge(t)) \/ Request \/ Step \/ Fault

Spec == Init /\ [][Next]_vars

\* The process goes on with the request it works on: a service that neither
\* answers nor fails would hold it up, but every client call has an end.
FairSpec == Spec /\ WF_vars(Step \/ Fault)

-----------------------------------------------------------------------------
(* Properties.                                                             *)

\* Every variable keeps its type; the phase "loading" exists only between the
\* two fetches of a PUT without COMMIT.
TypeOK ==
    /\ history \in Seq(Tree) /\ Len(history) >= 1
    /\ reality \in [Keys -> Reality]
    /\ pc \in {"idle", "loading", "loaded", "apply"}
    /\ prev \in Tree /\ new \in Tree
    /\ defaulted \subseteq Keys
    /\ changes \in [create: SUBSET Keys, update: SUBSET Keys, delete: SUBSET Keys]
    /\ todo \subseteq Op
    /\ partial \in BOOLEAN
    /\ status \in {0, 201, 409, 500}
    /\ start \in {"synced", "repairable", "other"}
    /\ clean \in BOOLEAN

\* The gate validates only what a change creates or updates, against a master
\* that may be several merges behind, and yet every commit of master is a whole
\* valid tree: dependencies present, ACL texts unique, every resource valid.
MasterValid ==
    \A i \in 1..Len(history) : TreeValid(history[i])

\* From its load on, a new tree has all its dependencies, whichever way it came.
LoadedDeps == pc \in {"loaded", "apply"} => DepsOk(new)

\* What is left to do is part of the changes, concerns resources of the new
\* tree when it creates or updates, and includes the creation of every
\* resource whose dictionary still lacks its defaults.
Planned ==
    pc = "apply" =>
        /\ todo \subseteq Ops(changes)
        /\ changes.create \union changes.update \subseteq Present(new)
        /\ \A k \in Present(new) :
               k \in defaulted \/ [ctype |-> "create", key |-> k] \in todo

\* The inductive invariant behind CallbackDataReady and DependenciesFirst.
IInv == TypeOK /\ MasterValid /\ LoadedDeps /\ Planned

\* Nothing is left to do for key k.
Done(k) == \A o \in todo : o.key # k

\* How far an undisturbed run from a good start has come: what it is done with
\* is right, and what it has created exists.
Progress ==
    pc = "apply" =>
        /\ changes = ChangesOf(prev, new)
        /\ clean \/ partial
        /\ start # "other" /\ clean =>
              \A k \in Keys :
                  /\ Done(k) =>
                        /\ Settled(new, k)
                        /\ k[1] = "projects" /\ k \in changes.delete /\ Tracked(prev, k) =>
                              reality[k] = Absent
                  /\ k \in changes.create /\ k[1] \in {"groups", "repos"}
                        /\ [ctype |-> "create", key |-> k] \notin todo => Exists(k)

\* Only a run that has ended without a fault answers 201, and a request that
\* has not been planned yet has no good start to speak of.
Verdicts ==
    /\ pc \in {"loading", "loaded"} => start = "other"
    /\ pc = "idle" /\ start # "other" /\ status = 201 => clean


\* The three scans reach everything an updated resource can influence: no
\* resource of the new tree that depends on one to be updated is left out, at
\* any depth of the dependency chain.
RefreshComplete ==
    pc = "apply" =>
        \A k \in Present(new) :
            Deps(new, k) \intersect changes.update # {} => k \in changes.update

\* No callback meets a dictionary of the new tree with a key missing: neither
\* its own nor one of a resource it reaches through the tree, although
\* apply() sets the defaults of a created resource only when its turn comes.
CallbackDataReady ==
    pc = "apply" => \A o \in Nexts : DataReady(o)

\* When a callback runs, nothing its resource depends on is still waiting to
\* be created or updated.
DependenciesFirst ==
    pc = "apply" =>
        \A o \in Nexts, q \in todo :
            o.ctype # "delete" => q.key \notin Deps(new, o.key) \union GroupsOf(new, o.key)

\* A run that starts with the services in line with its prev tree, or with
\* the debris of earlier attempts at the same commit, and meets no failing
\* service, ends with the services in line with its new tree; whatever the
\* status it answers (repeating a creation answers 409).
RunConverges ==
    pc = "idle" /\ start # "other" /\ clean => Achieved(prev, new)

\* The client is told the truth: 201 after such a start means that every
\* service is in line with the new tree.
SuccessIsTrue ==
    pc = "idle" /\ start # "other" /\ status = 201 => Achieved(prev, new)

\* At every moment of a run that started well, whatever failed so far, the
\* services are in a state from which sending the same request again repairs
\* them: the process may die here.
AlwaysRepairable ==
    pc = "apply" /\ start # "other" => Repairable(changes, new)

\* The inductive invariant behind RunConverges, SuccessIsTrue and AlwaysRepairable.
CInv == AlwaysRepairable /\ Progress /\ Verdicts /\ RunConverges

\* If the last commit is sent again and again, no other request comes, and
\* from some moment on services and process stop failing, the services end up
\* in line with it for good, whatever failed before, if only the commits
\* before it were applied: attempts find the services in line with the commit
\* before, or with the debris of earlier attempts, to which each may add.
Calm == ~Fault /\ ~(\E t \in Trees : Merge(t)) /\ ~(\E i \in 2..Len(history) - 1 : PutCommit(i))
PutHead == Len(history) > 1 /\ PutCommit(Len(history))
GoodStart == pc = "apply" /\ start # "other"
HeadAchieved == Len(history) > 1 /\ Achieved(history[Len(history) - 1], history[Len(history)])
RetryHeals ==
    <>[][Calm]_vars /\ []<><<PutHead>>_vars /\ []<>GoodStart => <>[]HeadAchieved

\* A commit that passed validate() and was merged can always be applied: no
\* PUT of it dies on an exception.
MergedApplies == status # 500

\* The trees a request can be about.
Known == {InitialTree} \union {t \in Trees : TreeValid(t)} \union DirectTrees

Runs == {[prev |-> p, new |-> n, changes |-> ChangesOf(p, n)] : p, n \in Known}

\* The runs between them that StartOf calls repairable, from services as they are.
RepairableRuns ==
    {<<r.prev, r.new>> : r \in {r \in Runs : Repairable(r.changes, r.new)}}

Sync == INSTANCE ConfigSync WITH
    AllTrees <- Known, NoRun <- <<>>,
    inLine <- {t \in Known : Synced(t)},
    mendable <- RepairableRuns,
    run <- IF pc = "apply" THEN <<prev, new>> ELSE <<>>,
    promised <- pc = "apply" /\ start # "other",
    clean <- pc = "apply" /\ clean,
    answer <- status

\* The engine keeps the promise of ConfigSync: the services follow the commits,
\* whatever fails, if only runs begin where the run before them has ended, or
\* repeat a run that was cut short.
FollowsCommits == Sync!Spec
=============================================================================
