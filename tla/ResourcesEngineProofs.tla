----------------------- MODULE ResourcesEngineProofs -----------------------
(* Theorems about ResourcesEngine, for every set of ids, contents and trees: *)
(* its inductive invariant and what callbacks can count on; that a run which *)
(* starts well can be repaired at every moment by sending the request again, *)
(* and brings the services in line when no service fails; and that the       *)
(* engine implements ConfigSync.                                             *)
EXTENDS ResourcesEngine, ResourceTreeProofs

\* The groups and ACLs a present resource reaches are present and are applied
\* before it.
LEMMA ReachedFirst ==
    ASSUME NEW t \in Tree, DepsOk(t), NEW k \in Present(t),
           NEW d \in Deps(t, k) \union GroupsOf(t, k)
    PROVE  d \in Present(t) /\ Priority[d[1]] > Priority[k[1]]
  <1>1. \A l \in Present(t) : Deps(t, l) \subseteq Present(t)
    BY DEF DepsOk
  <1>2. CASE d \in Deps(t, k)
    BY <1>1, <1>2, DepsShape
  <1>3. CASE d \in GroupsOf(t, k)
    <2>1. PICK a \in Deps(t, k) : d \in Deps(t, a)
      BY <1>3 DEF GroupsOf
    <2>2. a \in Present(t) /\ d \in Present(t)
      BY <1>1, <2>1
    <2>3. Priority[a[1]] > Priority[k[1]] /\ Priority[d[1]] > Priority[a[1]]
      BY <2>1, <2>2, DepsShape
    <2>4. \A l \in Present(t) : Priority[l[1]] \in Nat
      BY PresentShape DEF Priority, Rtypes
    <2>. QED
      BY <2>2, <2>3, <2>4
  <1>. QED
    BY <1>2, <1>3

\* What a callback pushes is a content, when the tree has its dependencies.
LEMMA PushedContent ==
    ASSUME NEW t \in Tree, DepsOk(t), NEW k \in Present(t), NEW found
    PROVE  Pushed(t, k, found) \in Content
  <1>1. \A d \in Deps(t, k) : d \in Keys /\ t[d].val \in Vals
    BY PresentShape DEF DepsOk, Resource
  <1>2. GroupsOf(t, k) \subseteq Keys
    BY ReachedFirst, PresentShape
  <1>3. t[k].val \in Vals
    BY PresentShape DEF Resource
  <1>4. GroupPushed(t, k) \in Content
    BY <1>3 DEF GroupPushed, Content
  <1>5. RepoPushed(t, k, found) \in Content
    BY <1>1, <1>2, <1>3 DEF RepoPushed, Content
  <1>6. ProjectPushed(t, k) \in Content
    BY <1>1 DEF ProjectPushed, Content
  <1>. QED
    BY <1>4, <1>5, <1>6 DEF Pushed

\* So is what an operation aims at, or it is nothing at all.
LEMMA GoalType ==
    ASSUME IInv, pc = "apply", NEW o \in todo
    PROVE  Goal(o) \in {Absent} \union Content
  <1>1. CASE o.ctype = "delete"
    BY <1>1 DEF Goal
  <1>2. CASE o.ctype # "delete"
    <2>1. o.ctype \in {"create", "update"} /\ o.key \in Present(new)
      BY <1>2 DEF IInv, Planned, Ops, Op
    <2>. QED
      BY <1>2, <2>1, PushedContent DEF IInv, TypeOK, LoadedDeps, Goal
  <1>. QED
    BY <1>1, <1>2

\* Callbacks leave on a service only what the type of reality has.
LEMMA OutcomeType ==
    ASSUME IInv, pc = "apply", NEW o \in todo
    PROVE  Outcome(o).now \in Reality /\ Outcome(o).logs \in BOOLEAN
           /\ Wrecks(o) \subseteq Reality
  <1>1. Goal(o) \in {Absent} \union Content
    BY GoalType
  <1>2. o.key \in Keys /\ o.ctype \in {"create", "update", "delete"}
    BY DEF IInv, TypeOK, Op
  <1>3. \A c \in {"create", "update", "delete"} : Half(c, Goal(o)) \in Reality
    BY <1>1 DEF Half, Reality, States, Halves, Ctypes
  <1>4. Outcome(o).now \in Reality /\ Outcome(o).logs \in BOOLEAN
    BY <1>1, <1>2, <1>3
       DEF Outcome, End, GroupEnd, RepoEnd, ProjectEnd, Reality, States, Halves, Ctypes
  <1>5. reality[o.key] \in Reality
    BY <1>2 DEF IInv, TypeOK
  <1>. QED
    BY <1>2, <1>3, <1>4, <1>5 DEF Wrecks, Debris, Outcome

-----------------------------------------------------------------------------
(* The inductive invariant.                                                *)

LEMMA InitIInv == Init => IInv
  <1> SUFFICES ASSUME Init PROVE IInv
    OBVIOUS
  <1>1. InitialTree \in Tree /\ DepsOk(InitialTree)
    BY TreesAssumption, InitialTreeAssumption DEF TreeValid
  <1>2. reality \in [Keys -> Reality]
    <2>1. ASSUME NEW k \in Keys, InitialTree[k] # NoRes
          PROVE  Pushed(InitialTree, k, Keys) \in Reality
      BY <1>1, <2>1, PushedContent DEF Present, Reality, States, Halves, Ctypes
    <2>. QED
      BY <2>1 DEF Init, Reality, States, Halves, Ctypes
  <1>3. history \in Seq(Tree) /\ Len(history) = 1
    BY <1>1 DEF Init
  <1>4. changes \in [create: SUBSET Keys, update: SUBSET Keys, delete: SUBSET Keys]
    BY DEF Init, NoChanges
  <1>5. partial \in BOOLEAN /\ clean \in BOOLEAN
    BY DEF Init
  <1>6. TypeOK
    BY <1>1, <1>2, <1>3, <1>4, <1>5 DEF Init, TypeOK
  <1>. QED
    BY <1>6, InitialTreeAssumption DEF Init, IInv, MasterValid, LoadedDeps, Planned

LEMMA MergeIInv == ASSUME IInv, NEW t \in Trees, Merge(t) PROVE IInv'
  <1>1. t \in Tree
    BY TreesAssumption
  <1>2. PICK i \in 1..Len(history) : Accepts(history[i], t)
    BY DEF Merge
  <1>3. TreeValid(t)
    BY <1>1, <1>2, AcceptedIsValid DEF IInv, TypeOK, MasterValid
  <1>4. history' = Append(history, t)
    BY DEF Merge
  <1>5. history' \in Seq(Tree) /\ Len(history') = Len(history) + 1
    BY <1>1, <1>4 DEF IInv, TypeOK
  <1>6. TypeOK'
    BY <1>5 DEF IInv, TypeOK, Merge, engineVars, ghostVars
  <1>7. MasterValid'
    BY <1>3, <1>4, <1>5 DEF IInv, TypeOK, MasterValid
  <1>. QED
    BY <1>6, <1>7 DEF IInv, LoadedDeps, Planned, Merge, engineVars, ghostVars

\* A request changes what is loaded, never master or the services.
LEMMA LoadIInv ==
    ASSUME IInv, pc' \in {"idle", "loading", "loaded"},
           UNCHANGED <<history, reality, changes, todo, partial>>,
           prev' \in Tree, new' \in Tree, defaulted' \subseteq Keys,
           status' \in {0, 201, 409, 500}, Forget,
           pc' = "loaded" => DepsOk(new')
    PROVE  IInv'
  <1>1. start' \in {"synced", "repairable", "other"} /\ clean' \in BOOLEAN
    BY DEF Forget
  <1>2. TypeOK'
    BY <1>1 DEF IInv, TypeOK
  <1>. QED
    BY <1>2 DEF IInv, MasterValid, LoadedDeps, Planned

LEMMA RequestIInv == ASSUME IInv, Request PROVE IInv'
  <1>1. ASSUME NEW i \in 2..Len(history), PutCommit(i) PROVE IInv'
    <2>1. i - 1 \in 1..Len(history) /\ i \in 1..Len(history)
      BY DEF IInv, TypeOK
    <2>2. history[i - 1] \in Tree /\ history[i] \in Tree /\ DepsOk(history[i])
      BY <2>1 DEF IInv, TypeOK, MasterValid, TreeValid
    <2>. QED
      BY <1>1, <2>2, LoadIInv DEF PutCommit, IInv, TypeOK
  <1>2. CASE PutMaster
    <2>1. Len(history) - 1 \in 1..Len(history)
      BY <1>2 DEF PutMaster, IInv, TypeOK
    <2>2. history[Len(history) - 1] \in Tree
      BY <2>1 DEF IInv, TypeOK
    <2>. QED
      BY <1>2, <2>2, LoadIInv DEF PutMaster, IInv, TypeOK
  <1>3. ASSUME NEW p \in DirectTrees, NEW n \in DirectTrees, DirectApply(p, n)
        PROVE  IInv'
    <2>1. p \in Tree /\ n \in Tree /\ DepsOk(n) /\ Present(n) \subseteq Keys
      BY <1>3, TreesAssumption DEF DirectApply, Accepts, Present
    <2>. QED
      BY <1>3, <2>1, LoadIInv DEF DirectApply, IInv, TypeOK
  <1>4. ASSUME NEW p \in DirectTrees, NEW n \in DirectTrees, DirectRefuse(p, n)
        PROVE  IInv'
    <2>1. pc' = "idle" /\ status' \in {0, 201, 409, 500}
      BY <1>4 DEF DirectRefuse, Receive
    <2>. QED
      BY <1>4, <2>1, LoadIInv DEF DirectRefuse, IInv, TypeOK
  <1>. QED
    BY <1>1, <1>2, <1>3, <1>4 DEF Request

LEMMA PlanIInv == ASSUME IInv, Plan PROVE IInv'
  <1> DEFINE known == defaulted \union Common(prev, new)
             U == Updates(prev, new)
  <1>1. prev \in Tree /\ new \in Tree /\ DepsOk(new) /\ defaulted \subseteq Keys
    BY DEF IInv, TypeOK, LoadedDeps, Plan
  <1>2. U \subseteq Present(new) /\ Refreshed(new, U) \subseteq Present(new)
    BY <1>1, RefreshedPresent DEF Updates, Common
  <1>3. Present(new) \subseteq Keys /\ Present(prev) \subseteq Keys
    BY DEF Present
  <1>4. changes' \in [create: SUBSET Keys, update: SUBSET Keys, delete: SUBSET Keys]
    BY <1>2, <1>3 DEF Plan, ChangesOf, Creates, Deletes
  <1>5. changes'.create = Present(new) \ Present(prev) /\ changes'.update \subseteq Present(new)
    BY <1>2 DEF Plan, ChangesOf, Creates
  <1>6. todo' \subseteq Op /\ todo' = Ops(changes')
    BY DEF Plan, Ops
  <1>7. defaulted' = known /\ known \subseteq Keys
    BY <1>1, <1>3 DEF Plan, Common
  <1>8. start' \in {"synced", "repairable", "other"}
    BY DEF Plan, StartOf
  <1>9. TypeOK'
    BY <1>4, <1>6, <1>7, <1>8 DEF IInv, TypeOK, Plan
  <1>10. ASSUME NEW k \in Present(new), k \notin known
         PROVE  [ctype |-> "create", key |-> k] \in todo'
    BY <1>3, <1>5, <1>6, <1>10 DEF Common, Ops, Op
  <1>. QED
    BY <1>1, <1>5, <1>6, <1>7, <1>9, <1>10
       DEF IInv, MasterValid, LoadedDeps, Planned, Plan

\* One turn of _apply_changes; r is what the callback made of its key.
LEMMA TurnIInv ==
    ASSUME IInv, NEW o \in todo, Turn(o),
           reality' \in [Keys -> Reality],
           partial' \in BOOLEAN, clean' \in BOOLEAN
    PROVE  IInv'
  <1>1. o \in Op /\ o.key \in Keys /\ o = [ctype |-> o.ctype, key |-> o.key]
    BY DEF IInv, TypeOK, Op
  <1>2. TypeOK'
    BY <1>1 DEF IInv, TypeOK, Turn
  <1>3. Planned'
    <2>1. todo' \subseteq todo /\ todo' = todo \ {o}
      BY DEF Turn
    <2>2. ASSUME NEW k \in Present(new),
                 ~(k \in defaulted' \/ [ctype |-> "create", key |-> k] \in todo')
          PROVE  FALSE
      <3>1. k \notin defaulted
        BY <2>2 DEF Turn
      <3>2. [ctype |-> "create", key |-> k] \in todo
        BY <3>1 DEF IInv, Planned, Turn
      <3>3. o = [ctype |-> "create", key |-> k]
        BY <2>1, <2>2, <3>2
      <3>. QED
        BY <2>2, <3>3 DEF Turn
    <2>. QED
      BY <2>1, <2>2 DEF IInv, Planned, Turn
  <1>. QED
    BY <1>2, <1>3 DEF IInv, MasterValid, LoadedDeps, Turn

LEMMA StepIInv == ASSUME IInv, Step PROVE IInv'
  <1>1. CASE LoadMaster
    BY <1>1 DEF LoadMaster, IInv, TypeOK, MasterValid, LoadedDeps, Planned, TreeValid,
                ghostVars
  <1>2. CASE Plan
    BY <1>2, PlanIInv
  <1>3. CASE PlanRaises
    BY <1>3 DEF PlanRaises, IInv, TypeOK, MasterValid, LoadedDeps, Planned, ghostVars
  <1>4. ASSUME NEW o \in todo, RunOp(o) PROVE IInv'
    <2>1. pc = "apply" /\ Turn(o)
      BY <1>4 DEF RunOp, Turn
    <2>2. reality' \in [Keys -> Reality]
      BY <1>4, <2>1, OutcomeType DEF RunOp, IInv, TypeOK
    <2>3. partial' \in BOOLEAN /\ clean' \in BOOLEAN
      BY <1>4, <2>1, OutcomeType DEF RunOp, IInv, TypeOK
    <2>. QED
      BY <2>1, <2>2, <2>3, TurnIInv
  <1>5. CASE Finish
    BY <1>5 DEF Finish, IInv, TypeOK, MasterValid, LoadedDeps, Planned, ghostVars
  <1>. QED
    BY <1>1, <1>2, <1>3, <1>4, <1>5 DEF Step

LEMMA FaultIInv == ASSUME IInv, Fault PROVE IInv'
  <1>1. CASE Crash
    <2>1. changes' \in [create: SUBSET Keys, update: SUBSET Keys, delete: SUBSET Keys]
      BY <1>1 DEF Crash, NoChanges
    <2>2. TypeOK'
      BY <1>1, <2>1 DEF Crash, Forget, IInv, TypeOK
    <2>. QED
      BY <1>1, <2>2 DEF Crash, IInv, MasterValid, LoadedDeps, Planned
  <1>2. ASSUME NEW o \in todo, FailOp(o) PROVE IInv'
    <2>1. pc = "apply" /\ Turn(o)
      BY <1>2 DEF FailOp, Turn
    <2>2. reality' \in [Keys -> Reality]
      <3>1. PICK r \in Wrecks(o) : reality' = [reality EXCEPT ![o.key] = r]
        BY <1>2 DEF FailOp
      <3>2. r \in Reality
        BY <2>1, <3>1, OutcomeType
      <3>. QED
        BY <3>1, <3>2 DEF IInv, TypeOK
    <2>3. partial' \in BOOLEAN /\ clean' \in BOOLEAN
      BY <1>2 DEF FailOp
    <2>. QED
      BY <2>1, <2>2, <2>3, TurnIInv
  <1>. QED
    BY <1>1, <1>2 DEF Fault

\* The engine keeps its inductive invariant.
THEOREM EngineInvariant == Spec => []IInv
  <1>1. IInv /\ [Next]_vars => IInv'
    <2>1. ASSUME IInv, UNCHANGED vars PROVE IInv'
      BY <2>1 DEF vars, engineVars, ghostVars, IInv, TypeOK, MasterValid, LoadedDeps, Planned
    <2>. QED
      BY <2>1, MergeIInv, RequestIInv, StepIInv, FaultIInv DEF Next
  <1>. QED
    BY InitIInv, <1>1, PTL DEF Spec

\* Type correctness: in particular callbacks push only complete contents or
\* recognisable debris, for every tree the gate lets through.
THEOREM TypeCorrect == Spec => []TypeOK
  BY EngineInvariant, PTL DEF IInv

\* Every commit of master is a wholly valid tree, although the gate looks only
\* at what changed since a master that may be several merges old.
THEOREM MasterStaysValid == Spec => []MasterValid
  BY EngineInvariant, PTL DEF IInv
-----------------------------------------------------------------------------
(* What a callback can count on.                                           *)

\* How a step can enter or stay in the phase that runs the callbacks.
LEMMA ApplySteps ==
    ASSUME IInv, [Next]_vars, pc' = "apply"
    PROVE  \/ Plan
           \/ \E o \in todo : Turn(o) /\ (RunOp(o) \/ FailOp(o))
           \/ UNCHANGED <<reality, engineVars, ghostVars>>
  <1>1. CASE Request
    BY <1>1 DEF Request, PutCommit, PutMaster, DirectApply, DirectRefuse, Receive
  <1>2. CASE Step
    BY <1>2 DEF Step, LoadMaster, PlanRaises, RunOp, Finish
  <1>3. CASE Fault
    BY <1>3 DEF Fault, Crash, FailOp
  <1>4. ASSUME NEW t \in Trees, Merge(t) PROVE UNCHANGED <<reality, engineVars, ghostVars>>
    BY <1>4 DEF Merge
  <1>5. CASE UNCHANGED vars
    BY <1>5 DEF vars
  <1>. QED
    BY <1>1, <1>2, <1>3, <1>4, <1>5 DEF Next

\* The refresh is complete in every run, for every pair of trees.
THEOREM RefreshIsComplete == Spec => []RefreshComplete
  <1>1. Init => RefreshComplete
    BY DEF Init, RefreshComplete
  <1>2. IInv /\ RefreshComplete /\ [Next]_vars => RefreshComplete'
    <2> SUFFICES ASSUME IInv, RefreshComplete, [Next]_vars, pc' = "apply",
                        NEW k \in Present(new'),
                        NEW d \in Deps(new', k), d \in changes'.update
                 PROVE  k \in changes'.update
      BY DEF RefreshComplete
    <2>1. CASE Plan
      <3>1. new' = new /\ changes'.update = Refreshed(new, Updates(prev, new))
        BY <2>1 DEF Plan, ChangesOf
      <3>2. Updates(prev, new) \subseteq Keys
        BY DEF Updates, Common, Present
      <3>. QED
        BY <3>1, <3>2, ThreeScansClose DEF IInv, TypeOK
    <2>2. ASSUME NEW o \in todo, Turn(o) PROVE k \in changes'.update
      BY <2>2 DEF Turn, RefreshComplete
    <2>3. CASE UNCHANGED <<reality, engineVars, ghostVars>>
      BY <2>3 DEF engineVars, RefreshComplete
    <2>. QED
      BY <2>1, <2>2, <2>3, ApplySteps
  <1>. QED
    BY <1>1, <1>2, EngineInvariant, PTL DEF Spec

\* In the phase that runs the callbacks, the operation whose turn it can be
\* has no creation pending among what its resource reaches, nor its own.
LEMMA NextIsReady ==
    ASSUME IInv, pc = "apply", NEW o \in Nexts
    PROVE  /\ DataReady(o)
           /\ \A q \in todo : o.ctype # "delete" =>
                 q.key \notin Deps(new, o.key) \union GroupsOf(new, o.key)
  <1> SUFFICES ASSUME o.ctype # "delete"
               PROVE  /\ DataReady(o)
                      /\ \A q \in todo :
                            q.key \notin Deps(new, o.key) \union GroupsOf(new, o.key)
    BY DEF DataReady
  <1>1. o \in todo /\ o \in Op /\ \A q \in todo : ~Precedes(q, o)
    BY DEF Nexts, IInv, TypeOK
  <1>2. o.key \in Present(new) /\ new \in Tree /\ DepsOk(new)
    BY <1>1 DEF IInv, TypeOK, LoadedDeps, Planned, Ops, Op
  <1>3. \A q \in todo : q.key \notin Deps(new, o.key) \union GroupsOf(new, o.key)
    BY <1>1, <1>2, ReachedFirst DEF Precedes
  <1>4. Deps(new, o.key) \union GroupsOf(new, o.key) \subseteq defaulted
    <2>1. ASSUME NEW d \in Deps(new, o.key) \union GroupsOf(new, o.key), d \notin defaulted
          PROVE  FALSE
      <3>1. d \in Present(new)
        BY <1>2, ReachedFirst
      <3>2. [ctype |-> "create", key |-> d] \in todo
        BY <2>1, <3>1 DEF IInv, Planned
      <3>. QED
        BY <1>3, <3>2
    <2>. QED
      BY <2>1
  <1>5. o.ctype = "update" => o.key \in defaulted
    <2> SUFFICES ASSUME o.ctype = "update", o.key \notin defaulted
                 PROVE  FALSE
      OBVIOUS
    <2>1. [ctype |-> "create", key |-> o.key] \in todo
      BY <1>2 DEF IInv, Planned
    <2>2. Precedes([ctype |-> "create", key |-> o.key], o)
      BY DEF Precedes, CtypeRank
    <2>. QED
      BY <1>1, <2>1, <2>2
  <1>. QED
    BY <1>3, <1>4, <1>5 DEF DataReady

\* No callback meets incomplete data, whatever the order within a type.
THEOREM CallbacksFindTheirData == Spec => []CallbackDataReady
  <1>1. IInv => CallbackDataReady
    BY NextIsReady DEF CallbackDataReady
  <1>. QED
    BY <1>1, EngineInvariant, PTL

\* Nothing a callback's resource depends on is still to be applied.
THEOREM DependenciesComeFirst == Spec => []DependenciesFirst
  <1>1. IInv => DependenciesFirst
    BY NextIsReady DEF DependenciesFirst
  <1>. QED
    BY <1>1, EngineInvariant, PTL

-----------------------------------------------------------------------------
(* What the changes of two trees look like.                                *)

\* Created, updated and deleted resources: only a resource that depends on
\* others can be both created and updated.
LEMMA ChangesShape ==
    ASSUME NEW p \in Tree, NEW n \in Tree
    PROVE  /\ ChangesOf(p, n).create = Present(n) \ Present(p)
           /\ ChangesOf(p, n).delete = Present(p) \ Present(n)
           /\ ChangesOf(p, n).update \subseteq Present(n)
           /\ Updates(p, n) \subseteq ChangesOf(p, n).update
           /\ \A k \in ChangesOf(p, n).create \intersect ChangesOf(p, n).update :
                 k[1] # "groups"
  <1> DEFINE U == Updates(p, n)
  <1>1. U \subseteq Present(n) \intersect Present(p)
    BY DEF Updates, Common
  <1>2. U \subseteq Refreshed(n, U) /\ Refreshed(n, U) \subseteq Present(n)
    BY <1>1, RefreshedPresent
  <1>3. ASSUME NEW k \in Refreshed(n, U), k[1] = "groups" PROVE k \in U
    <2>1. Deps(n, k) = {}
      BY <1>3 DEF Deps
    <2>. QED
      BY <1>3, <2>1 DEF Refreshed, Scan
  <1>. QED
    BY <1>1, <1>2, <1>3 DEF ChangesOf, Creates, Deletes

\* A dependency of a resource that is left alone was there before and is left
\* alone as well.
LEMMA DepsLeftAlone ==
    ASSUME NEW p \in Tree, NEW n \in Tree, DepsOk(p), DepsOk(n),
           NEW k \in Present(p) \intersect Present(n), k \notin ChangesOf(p, n).update
    PROVE  /\ p[k].val = n[k].val /\ Deps(p, k) = Deps(n, k)
           /\ \A d \in Deps(n, k) :
                 /\ d \in Present(p) \intersect Present(n)
                 /\ d \notin ChangesOf(p, n).update
  <1>1. p[k].val = n[k].val /\ p[k].deps = n[k].deps
    BY ChangesShape DEF Updates, Common
  <1>2. Deps(p, k) = Deps(n, k)
    BY <1>1 DEF Deps
  <1>3. Deps(p, k) \subseteq Present(p) /\ Deps(n, k) \subseteq Present(n)
    BY DEF DepsOk
  <1>4. Updates(p, n) \in SUBSET Keys
    BY DEF Updates, Common, Present
  <1>5. ASSUME NEW d \in Deps(n, k), d \in ChangesOf(p, n).update PROVE FALSE
    BY <1>4, <1>5, ThreeScansClose DEF ChangesOf
  <1>. QED
    BY <1>1, <1>2, <1>3, <1>5

\* What a callback would push for a resource that is left alone is the same
\* for both trees.
LEMMA PushedLeftAlone ==
    ASSUME NEW p \in Tree, NEW n \in Tree, DepsOk(p), DepsOk(n),
           NEW k \in Present(p) \intersect Present(n), k \notin ChangesOf(p, n).update,
           NEW found
    PROVE  Pushed(p, k, found) = Pushed(n, k, found)
  <1>1. p[k].val = n[k].val /\ Deps(p, k) = Deps(n, k)
    BY DepsLeftAlone
  <1>2. \A d \in Deps(n, k) : p[d].val = n[d].val /\ Deps(p, d) = Deps(n, d)
    BY DepsLeftAlone
  <1>3. GroupPushed(p, k) = GroupPushed(n, k)
    BY <1>1 DEF GroupPushed
  <1>4. {<<d, p[d].val>> : d \in Deps(p, k)} = {<<d, n[d].val>> : d \in Deps(n, k)}
    BY <1>1, <1>2
  <1>5. GroupsOf(p, k) = GroupsOf(n, k)
    BY <1>1, <1>2 DEF GroupsOf
  <1>. QED
    BY <1>1, <1>3, <1>4, <1>5 DEF Pushed, RepoPushed, ProjectPushed

\* Debris is not nothing, nor is a content.
LEMMA NotAbsent ==
    /\ \A c \in Content : c # Absent
    /\ \A c \in {Absent} \union Content, b \in {"create", "update", "delete"} :
          Half(b, c) # Absent
  <1>1. \A c \in {Absent} \union Content, b \in {"create", "update", "delete"} :
           Half(b, c) \in [half: {Absent} \union Content, by: {"create", "update", "delete"}]
    BY DEF Half
  <1>. QED
    BY <1>1, AbsentAssumption DEF Halves, Ctypes

\* Services in line with the old tree are a good start.
LEMMA SyncedIsRepairable ==
    ASSUME prev \in Tree, new \in Tree, Synced(prev), DepsOk(new)
    PROVE  Repairable(ChangesOf(prev, new), new)
  <1> DEFINE ch == ChangesOf(prev, new)
  <1>0. DepsOk(prev) /\ \A k \in Keys : Settled(prev, k)
    BY DEF Synced
  <1>1. ASSUME NEW k \in Keys, k \in ch.create, k[1] = "groups"
        PROVE  reality[k] = Absent
    <2>1. prev[k] = NoRes
      BY <1>1, ChangesShape DEF Present
    <2>. QED
      BY <1>0, <1>1, <2>1 DEF Settled
  <1>2. ASSUME NEW k \in Keys, k \in ch.update \ ch.create, k[1] \in {"groups", "repos"}
        PROVE  Exists(k)
    <2>1. k \in Present(prev) /\ prev[k] # NoRes
      BY <1>2, ChangesShape DEF Present
    <2>2. reality[k] = Pushed(prev, k, Keys)
      BY <1>0, <1>2, <2>1 DEF Settled
    <2>. QED
      BY <1>0, <2>1, <2>2, PushedContent, NotAbsent DEF Exists
  <1>3. ASSUME NEW k \in Keys, k \notin ch.create \union ch.update \union ch.delete
        PROVE  Settled(new, k)
    <2>1. CASE k \in Present(new)
      <3>1. k \in Present(prev) \intersect Present(new)
        BY <1>3, <2>1, ChangesShape
      <3>2. Pushed(prev, k, {}) = Pushed(new, k, {}) /\ Pushed(prev, k, Keys) = Pushed(new, k, Keys)
        BY <1>0, <1>3, <3>1, PushedLeftAlone
      <3>3. Tracked(new, k) = Tracked(prev, k) /\ prev[k] # NoRes /\ new[k] # NoRes
        BY <1>0, <1>3, <3>1, DepsLeftAlone DEF Tracked, Present
      <3>. QED
        BY <1>0, <3>2, <3>3 DEF Settled
    <2>2. CASE k \notin Present(new)
      <3>1. new[k] = NoRes /\ prev[k] = NoRes
        BY <1>3, <2>2, ChangesShape DEF Present
      <3>. QED
        BY <1>0, <3>1 DEF Settled, Tracked
    <2>. QED
      BY <2>1, <2>2
  <1>. QED
    BY <1>1, <1>2, <1>3 DEF Repairable

-----------------------------------------------------------------------------
(* One turn of the loop.                                                   *)

\* The shape of an operation that is to be run.
LEMMA TodoShape ==
    ASSUME IInv, Progress, pc = "apply", NEW o \in todo
    PROVE  /\ o = [ctype |-> o.ctype, key |-> o.key]
           /\ o.key \in Keys /\ o.key \in changes[o.ctype]
           /\ o.ctype \in {"create", "update", "delete"}
           /\ o.ctype = "delete" <=> new[o.key] = NoRes
           /\ o.ctype # "delete" => o.key \in Present(new) /\ o.key \notin changes.delete
           /\ o.ctype = "delete" => o.key \notin changes.create \union changes.update
           /\ o.ctype = "update" => o.key \in changes.update
           /\ o.key[1] = "groups" => (o.ctype = "create" <=> o.key \in changes.create)
  <1>1. o \in Op /\ o.key \in changes[o.ctype]
    BY DEF IInv, TypeOK, Planned, Ops
  <1>2. o = [ctype |-> o.ctype, key |-> o.key] /\ o.key \in Keys
        /\ o.ctype \in {"create", "update", "delete"}
    BY <1>1 DEF Op
  <1>3. prev \in Tree /\ new \in Tree /\ changes = ChangesOf(prev, new)
    BY DEF IInv, TypeOK, Progress
  <1>4. /\ changes.create = Present(new) \ Present(prev)
        /\ changes.delete = Present(prev) \ Present(new)
        /\ changes.update \subseteq Present(new)
        /\ \A k \in changes.create \intersect changes.update : k[1] # "groups"
    BY <1>3, ChangesShape
  <1>. QED
    BY <1>1, <1>2, <1>4 DEF Present

\* What an operation aims at, when it is not to remove something, exists.
LEMMA GoalExists ==
    ASSUME IInv, Progress, pc = "apply", NEW o \in todo
    PROVE  /\ o.ctype = "delete" => Goal(o) = Absent
           /\ o.ctype # "delete" => Goal(o) # Absent /\ Half(o.ctype, Goal(o)) # Absent
           /\ \A b \in {"create", "update", "delete"} : Half(b, Goal(o)) # Absent
           /\ o.key[1] = "groups" /\ o.ctype # "delete" => Goal(o) = GroupPushed(new, o.key)
  <1>1. Goal(o) \in {Absent} \union Content /\ o.ctype \in {"create", "update", "delete"}
    BY GoalType, TodoShape
  <1>2. ASSUME o.ctype # "delete" PROVE Goal(o) \in Content
    BY <1>2, TodoShape, PushedContent DEF IInv, LoadedDeps, TypeOK, Goal
  <1>. QED
    BY <1>1, <1>2, NotAbsent DEF Goal, Pushed

\* A callback keeps the services repairable, whether it succeeds or fails: only
\* its own key changes, and what a failure leaves there can be repaired.
LEMMA TurnRepairable ==
    ASSUME IInv, Progress, pc = "apply", Repairable(changes, new),
           NEW o \in todo, NEW r \in Wrecks(o),
           reality' = [reality EXCEPT ![o.key] = r],
           UNCHANGED <<changes, new>>
    PROVE  Repairable(changes, new)'
  <1>1. reality \in [Keys -> Reality] /\ o.key \in Keys
    BY TodoShape DEF IInv, TypeOK
  <1>2. reality'[o.key] = r /\ \A k \in Keys : k # o.key => reality'[k] = reality[k]
    BY <1>1
  <1>3. ASSUME NEW k \in Keys, k \in changes.create, k[1] = "groups"
        PROVE  reality'[k] \in {Absent, Pushed(new, k, {}), Half("create", Pushed(new, k, {}))}
    <2>1. reality[k] \in {Absent, Pushed(new, k, {}), Half("create", Pushed(new, k, {}))}
      BY <1>3 DEF Repairable
    <2>2. CASE k = o.key
      <3>1. o.ctype = "create"
        BY <1>3, <2>2, TodoShape
      <3>2. Goal(o) = Pushed(new, k, {})
        BY <1>3, <2>2, <3>1, GoalExists DEF Pushed
      <3>3. Exists(k) => OwnCreation(reality[o.key], Goal(o))
        BY <2>1, <2>2, <3>2 DEF Exists, OwnCreation
      <3>4. Outcome(o).now = Goal(o)
        BY <1>3, <2>2, <3>1, <3>3 DEF Outcome, End, GroupEnd, Exists
      <3>5. r \in {reality[k], Goal(o), Half("create", Goal(o))}
        BY <2>2, <3>1, <3>3, <3>4 DEF Wrecks, Debris, Outcome, Exists
      <3>. QED
        BY <1>2, <2>1, <2>2, <3>2, <3>5
    <2>. QED
      BY <1>2, <2>1, <2>2
  <1>4. ASSUME NEW k \in Keys, k \in changes.update \ changes.create,
               k[1] \in {"groups", "repos"}
        PROVE  reality'[k] # Absent
    <2>1. reality[k] # Absent
      BY <1>4 DEF Repairable, Exists
    <2>2. CASE k = o.key
      <3>1. o.ctype = "update"
        BY <1>4, <2>2, TodoShape
      <3>2. Outcome(o).now = Goal(o)
        BY <1>4, <2>1, <2>2, <3>1 DEF Outcome, End, GroupEnd, RepoEnd, Exists
      <3>3. r \in {reality[k], Goal(o), Half("update", Goal(o))}
        BY <2>2, <3>1, <3>2 DEF Wrecks, Debris, Outcome
      <3>. QED
        BY <1>2, <2>1, <2>2, <3>1, <3>3, GoalExists
    <2>. QED
      BY <1>2, <2>1, <2>2
  <1>5. ASSUME NEW k \in Keys, k \notin changes.create \union changes.update \union changes.delete
        PROVE  Settled(new, k)'
    <2>1. k # o.key
      BY <1>5, TodoShape
    <2>2. Settled(new, k)
      BY <1>5 DEF Repairable
    <2>. QED
      BY <1>2, <2>1, <2>2 DEF Settled
  <1>. QED
    BY <1>3, <1>4, <1>5 DEF Repairable, Exists

\* A callback that meets no failing service reaches its goal: the key exists
\* if and only if it should, and no earlier debris is left.
LEMMA RunReachesGoal ==
    ASSUME IInv, Progress, pc = "apply", start # "other", clean,
           Repairable(changes, new), NEW o \in Nexts
    PROVE  Outcome(o).now = Goal(o)
  <1>1. o \in todo /\ \A q \in todo : ~Precedes(q, o)
    BY DEF Nexts
  <1>2. o.key \in Keys /\ o.key[1] \in Rtypes /\ o.ctype \in {"create", "update", "delete"}
    BY <1>1, TodoShape DEF Keys
  <1>3. CASE o.ctype = "delete"
    BY <1>1, <1>3, GoalExists DEF Outcome, End, GroupEnd, RepoEnd, ProjectEnd
  <1>4. CASE o.ctype = "create" /\ o.key[1] = "groups"
    <2>1. o.key \in changes.create
      BY <1>1, <1>4, TodoShape
    <2>2. Goal(o) = Pushed(new, o.key, {})
      BY <1>1, <1>4, GoalExists DEF Pushed
    <2>3. Exists(o.key) => OwnCreation(reality[o.key], Goal(o))
      BY <1>2, <1>4, <2>1, <2>2 DEF Repairable, Exists, OwnCreation
    <2>. QED
      BY <1>4, <2>3 DEF Outcome, End, GroupEnd, Exists
  <1>5. CASE o.ctype = "update" /\ o.key[1] \in {"groups", "repos"}
    <2>1. o.key \in changes.update
      BY <1>1, <1>5, TodoShape
    <2>2. CASE o.key \in changes.create
      <3>1. [ctype |-> "create", key |-> o.key] \notin todo
        BY <1>1, <1>5 DEF Precedes, CtypeRank
      <3>. QED
        BY <1>2, <1>5, <2>2, <3>1 DEF Progress, Outcome, End, GroupEnd, RepoEnd, Exists
    <2>3. CASE o.key \notin changes.create
      BY <1>2, <1>5, <2>1, <2>3 DEF Repairable, Outcome, End, GroupEnd, RepoEnd, Exists
    <2>. QED
      BY <2>2, <2>3
  <1>6. CASE o.ctype = "create" /\ o.key[1] = "repos"
    BY <1>6 DEF Outcome, End, RepoEnd
  <1>7. CASE o.key[1] \notin {"groups", "repos"}
    BY <1>7 DEF Outcome, End, ProjectEnd
  <1>. QED
    BY <1>2, <1>3, <1>4, <1>5, <1>6, <1>7

\* What a callback aims at is what the new tree wants: all the groups a
\* repository reaches exist when its turn comes.
LEMMA GoalSettles ==
    ASSUME IInv, Progress, pc = "apply", start # "other", clean, NEW o \in Nexts
    PROVE  /\ o.ctype # "delete" /\ o.key[1] \in {"groups", "repos"} =>
                Goal(o) = Pushed(new, o.key, Keys)
           /\ o.ctype # "delete" /\ o.key[1] \notin {"groups", "repos"} =>
                Goal(o) = Pushed(new, o.key, {})
           /\ o.ctype = "delete" => Goal(o) = Absent
  <1> DEFINE found == {k \in Keys : k[1] = "groups" /\ Exists(k)}
  <1>1. o \in todo
    BY DEF Nexts
  <1>2. o.ctype # "delete" => o.key \in Present(new)
    BY <1>1, TodoShape
  <1>3. ASSUME o.ctype # "delete", o.key[1] = "repos", NEW g \in GroupsOf(new, o.key)
        PROVE  g \in found
    <2>1. PICK a \in Deps(new, o.key) : g \in Deps(new, a)
      BY <1>3 DEF GroupsOf
    <2>2. a[1] = "acls" /\ g[1] = "groups"
      BY <1>3, <2>1 DEF Deps, DepType
    <2>3. new \in Tree /\ DepsOk(new)
      BY DEF IInv, TypeOK, LoadedDeps
    <2>4. g \in Present(new) /\ g \in Keys /\ new[g] # NoRes
      BY <1>2, <1>3, <2>3, ReachedFirst DEF Present
    <2>5. Done(g)
      BY <1>3, NextIsReady DEF Done
    <2>6. reality[g] = Pushed(new, g, Keys)
      BY <2>2, <2>4, <2>5 DEF Progress, Settled
    <2>7. reality[g] # Absent
      BY <2>3, <2>4, <2>6, PushedContent, NotAbsent
    <2>. QED
      BY <2>2, <2>4, <2>7 DEF Exists
  <1>4. ASSUME o.ctype # "delete", o.key[1] = "repos"
        PROVE  GroupsOf(new, o.key) \intersect found = GroupsOf(new, o.key) \intersect Keys
    BY <1>3, <1>4
  <1>5. o.ctype # "delete" => Goal(o) = Pushed(new, o.key, found)
    BY DEF Goal
  <1>. QED
    BY <1>1, <1>4, <1>5, GoalExists DEF Pushed, RepoPushed

\* A callback that meets no failing service brings the run forward.
LEMMA RunProgress ==
    ASSUME IInv, Progress, pc = "apply", AlwaysRepairable, NEW o \in todo, RunOp(o)
    PROVE  Progress'
  <1>1. /\ o \in Nexts /\ todo' = todo \ {o}
        /\ prev' = prev /\ new' = new /\ changes' = changes /\ start' = start
    BY DEF RunOp, Turn
  <1>2. (clean \/ partial) => (clean' \/ partial')
    BY DEF RunOp
  <1>3. ASSUME start # "other", clean, NEW k \in Keys
        PROVE  /\ Done(k)' =>
                     /\ Settled(new, k)'
                     /\ k[1] = "projects" /\ k \in changes.delete /\ Tracked(prev, k) =>
                           reality'[k] = Absent
               /\ k \in changes.create /\ k[1] \in {"groups", "repos"}
                     /\ [ctype |-> "create", key |-> k] \notin todo' => reality'[k] # Absent
    <2>1. reality \in [Keys -> Reality] /\ o.key \in Keys /\ o.key[1] \in Rtypes
      BY TodoShape DEF IInv, TypeOK, Keys
    <2>2. Outcome(o).now = Goal(o)
      BY <1>1, <1>3, RunReachesGoal DEF AlwaysRepairable
    <2>3. CASE k # o.key
      <3>1. reality'[k] = reality[k]
        BY <2>1, <2>3 DEF RunOp
      <3>2. Done(k)' => Done(k)
        BY <1>1, <2>3 DEF Done
      <3>3. [ctype |-> "create", key |-> k] \notin todo'
               => [ctype |-> "create", key |-> k] \notin todo
        BY <1>1, <2>3
      <3>4. Settled(new, k) => Settled(new, k)'
        BY <1>1, <3>1 DEF Settled
      <3>. QED
        BY <1>3, <3>1, <3>2, <3>3, <3>4 DEF Progress, Exists
    <2>4. CASE k = o.key /\ CallsService(o)
      <3>1. reality'[k] = Goal(o)
        BY <2>1, <2>2, <2>4 DEF RunOp
      <3>2. Settled(new, k)'
        <4>1. k[1] \in {"groups", "repos", "projects"}
          BY <2>1, <2>4 DEF CallsService, Rtypes
        <4>2. o.ctype = "delete" <=> new[k] = NoRes
          BY <2>4, TodoShape
        <4>. QED
          BY <1>1, <1>3, <2>4, <3>1, <4>1, <4>2, GoalSettles DEF Settled, Tracked
      <3>3. k \in changes.delete => reality'[k] = Absent
        BY <2>4, <3>1, TodoShape, GoalExists
      <3>4. k \in changes.create => reality'[k] # Absent
        BY <2>4, <3>1, TodoShape, GoalExists
      <3>. QED
        BY <3>2, <3>3, <3>4
    <2>5. CASE k = o.key /\ ~CallsService(o)
      <3>1. k[1] = "acls" \/ k[1] = "projects"
        BY <2>5 DEF CallsService
      <3>2. k[1] = "projects" => ~Tracked(new, k)
        BY <2>5, TodoShape DEF CallsService, Tracked
      <3>3. k[1] = "projects" /\ k \in changes.delete => ~Tracked(prev, k)
        BY <2>5, TodoShape DEF CallsService
      <3>. QED
        BY <1>1, <3>1, <3>2, <3>3 DEF Settled
    <2>. QED
      BY <2>3, <2>4, <2>5
  <1>4. pc' = "apply" /\ (clean' => clean)
    BY DEF RunOp, Turn
  <1>. QED
    BY <1>1, <1>2, <1>3, <1>4 DEF Progress, Exists

-----------------------------------------------------------------------------
(* The inductive invariant.                                                *)

\* A planned run starts with everything still to do.
LEMMA PlanCInv == ASSUME IInv, CInv, Plan PROVE CInv'
  <1>1. /\ prev' = prev /\ new' = new /\ reality' = reality /\ pc' = "apply"
        /\ changes' = ChangesOf(prev, new) /\ todo' = Ops(changes')
        /\ start' = StartOf(ChangesOf(prev, new), prev, new)
    BY DEF Plan
  <1>2. prev \in Tree /\ new \in Tree /\ DepsOk(new)
    BY DEF IInv, TypeOK, LoadedDeps, Plan
  <1>3. ASSUME start' # "other" PROVE Repairable(ChangesOf(prev, new), new)
    BY <1>1, <1>2, <1>3, SyncedIsRepairable DEF StartOf
  <1>4. clean'
    BY DEF Plan
  <1>5. ASSUME NEW k \in Keys, NEW c \in {"create", "update", "delete"}, k \in changes'[c]
        PROVE  [ctype |-> c, key |-> k] \in todo'
    BY <1>1, <1>5 DEF Ops, Op
  <1>6. changes'["create"] = changes'.create /\ changes'["update"] = changes'.update
        /\ changes'["delete"] = changes'.delete
    OBVIOUS
  <1>7. ASSUME start' # "other", NEW k \in Keys, Done(k)'
        PROVE  k \notin changes'.delete /\ Settled(new, k)
    <2>1. k \notin changes'.create /\ k \notin changes'.update /\ k \notin changes'.delete
      BY <1>5, <1>6, <1>7 DEF Done
    <2>. QED
      BY <1>1, <1>3, <1>7, <2>1 DEF Repairable
  <1>8. ASSUME NEW k \in Keys, [ctype |-> "create", key |-> k] \notin todo'
        PROVE  k \notin changes'.create
    BY <1>5, <1>6, <1>8
  <1>9. \A k \in Keys : Settled(new, k) => Settled(new, k)'
    BY <1>1 DEF Settled
  <1>10. Progress'
    BY <1>1, <1>4, <1>7, <1>8, <1>9 DEF Progress
  <1>11. AlwaysRepairable'
    BY <1>1, <1>3 DEF AlwaysRepairable, Repairable, Exists, Settled
  <1>. QED
    BY <1>1, <1>10, <1>11 DEF CInv, Verdicts, RunConverges

\* A run with nothing left to do has achieved what it was asked.
LEMMA FinishCInv == ASSUME IInv, CInv, Finish PROVE CInv'
  <1>1. /\ prev' = prev /\ new' = new /\ reality' = reality /\ pc' = "idle"
        /\ start' = start /\ todo = {} /\ pc = "apply"
    BY DEF Finish, ghostVars
  <1>2. clean' = clean
    BY DEF Finish, ghostVars
  <1>3. status' = 201 => ~partial
    BY DEF Finish
  <1>4. clean \/ partial
    BY <1>1 DEF CInv, Progress
  <1>5. ASSUME start # "other", clean PROVE Achieved(prev, new)
    <2>1. \A k \in Keys : Done(k)
      BY <1>1 DEF Done
    <2>2. \A k \in Keys :
             /\ Settled(new, k)
             /\ k[1] = "projects" /\ k \in changes.delete /\ Tracked(prev, k) =>
                   reality[k] = Absent
      BY <1>1, <1>5, <2>1 DEF CInv, Progress
    <2>3. changes.delete = Deletes(prev, new)
      BY <1>1 DEF CInv, Progress, ChangesOf
    <2>4. Deletes(prev, new) \subseteq Keys
      BY DEF Deletes, Present
    <2>. QED
      BY <1>1, <2>2, <2>3, <2>4 DEF Achieved, Synced, IInv, LoadedDeps
  <1>6. Achieved(prev, new) => Achieved(prev, new)'
    BY <1>1 DEF Achieved, Synced, Settled
  <1>7. RunConverges'
    BY <1>1, <1>2, <1>5, <1>6 DEF RunConverges
  <1>8. Verdicts'
    BY <1>1, <1>2, <1>3, <1>4 DEF Verdicts
  <1>. QED
    BY <1>1, <1>7, <1>8 DEF CInv, AlwaysRepairable, Progress

LEMMA RunCInv == ASSUME IInv, CInv, NEW o \in todo, RunOp(o) PROVE CInv'
  <1>1. pc = "apply" /\ pc' = "apply" /\ start' = start /\ UNCHANGED <<changes, new>>
    BY DEF RunOp, Turn
  <1>2. Progress'
    BY <1>1, RunProgress DEF CInv
  <1>3. ASSUME start # "other" PROVE Repairable(changes, new)'
    <2>1. Repairable(changes, new)
      BY <1>1, <1>3 DEF CInv, AlwaysRepairable
    <2>2. CASE CallsService(o)
      <3>1. Outcome(o).now \in Wrecks(o)
        BY DEF Wrecks, Debris, Outcome
      <3>2. reality' = [reality EXCEPT ![o.key] = Outcome(o).now]
        BY <2>2 DEF RunOp
      <3>. QED
        BY <1>1, <2>1, <3>1, <3>2, TurnRepairable DEF CInv
    <2>3. CASE ~CallsService(o)
      <3>1. reality' = reality
        BY <2>3 DEF RunOp
      <3>. QED
        BY <1>1, <2>1, <3>1 DEF Repairable, Exists, Settled
    <2>. QED
      BY <2>2, <2>3
  <1>. QED
    BY <1>1, <1>2, <1>3 DEF CInv, AlwaysRepairable, Verdicts, RunConverges

LEMMA FailCInv == ASSUME IInv, CInv, NEW o \in todo, FailOp(o) PROVE CInv'
  <1>1. /\ pc = "apply" /\ pc' = "apply" /\ start' = start /\ prev' = prev
        /\ UNCHANGED <<changes, new>>
    BY DEF FailOp, Turn
  <1>2. partial' /\ ~clean'
    BY DEF FailOp
  <1>3. Progress'
    BY <1>1, <1>2 DEF CInv, Progress
  <1>4. PICK r \in Wrecks(o) : reality' = [reality EXCEPT ![o.key] = r]
    BY DEF FailOp
  <1>5. ASSUME start # "other" PROVE Repairable(changes, new)'
    BY <1>1, <1>4, <1>5, TurnRepairable DEF CInv, AlwaysRepairable
  <1>. QED
    BY <1>1, <1>3, <1>5 DEF CInv, AlwaysRepairable, Verdicts, RunConverges

\* A request that is received, refused or abandoned has no good start.
LEMMA ForgetCInv == ASSUME Forget, pc' # "apply" PROVE CInv'
  BY DEF Forget, CInv, AlwaysRepairable, Progress, Verdicts, RunConverges

\* The other steps leave the services, the request and its ghosts alone.
LEMMA IdleCInv ==
    ASSUME CInv, UNCHANGED <<reality, engineVars, ghostVars>>
    PROVE  CInv'
  <1>1. clean' = clean /\ partial' = partial
    BY DEF engineVars, ghostVars
  <1>2. Progress'
    BY <1>1 DEF CInv, Progress, Done, Settled, Exists, engineVars, ghostVars
  <1>3. RunConverges'
    BY <1>1 DEF CInv, RunConverges, Achieved, Synced, Settled, engineVars, ghostVars
  <1>4. Verdicts'
    BY <1>1 DEF CInv, Verdicts, engineVars, ghostVars
  <1>5. AlwaysRepairable'
    BY DEF CInv, AlwaysRepairable, Repairable, Exists, Settled, engineVars, ghostVars
  <1>. QED
    BY <1>2, <1>3, <1>4, <1>5 DEF CInv

\* The engine keeps its promise.
THEOREM ConvergenceInvariant == Spec => []CInv
  <1>1. Init => CInv
    BY DEF Init, CInv, AlwaysRepairable, Progress, Verdicts, RunConverges
  <1>2. IInv /\ CInv /\ [Next]_vars => CInv'
    <2> SUFFICES ASSUME IInv, CInv, [Next]_vars PROVE CInv'
      OBVIOUS
    <2>1. ASSUME NEW t \in Trees, Merge(t) PROVE CInv'
      BY <2>1, IdleCInv DEF Merge
    <2>2. CASE Request
      BY <2>2, ForgetCInv DEF Request, PutCommit, PutMaster, DirectApply, DirectRefuse, Receive
    <2>3. CASE LoadMaster
      <3>1. start' = "other" /\ pc' = "loaded"
        BY <2>3 DEF LoadMaster, CInv, Verdicts, ghostVars
      <3>. QED
        BY <3>1 DEF CInv, AlwaysRepairable, Progress, Verdicts, RunConverges
    <2>4. CASE PlanRaises
      <3>1. start' = "other" /\ pc' = "idle"
        BY <2>4 DEF PlanRaises, CInv, Verdicts, ghostVars
      <3>. QED
        BY <3>1 DEF CInv, AlwaysRepairable, Progress, Verdicts, RunConverges
    <2>5. CASE Step
      BY <2>3, <2>4, <2>5, PlanCInv, RunCInv, FinishCInv DEF Step
    <2>6. CASE Fault
      BY <2>6, FailCInv, ForgetCInv DEF Fault, Crash
    <2>7. CASE UNCHANGED vars
      BY <2>7, IdleCInv DEF vars
    <2>. QED
      BY <2>1, <2>2, <2>5, <2>6, <2>7 DEF Next
  <1>. QED
    BY <1>1, <1>2, EngineInvariant, PTL DEF Spec

\* At every moment of a run that started well, sending the same request again
\* repairs the services, whatever callbacks failed and wherever the process
\* dies.
THEOREM RunsStayRepairable == Spec => []AlwaysRepairable
  BY ConvergenceInvariant, PTL DEF CInv

\* A run that starts well and meets no failing service brings every service in
\* line with its new tree, for every pair of trees and every order of the
\* callbacks that the priorities leave open.
THEOREM RunsConverge == Spec => []RunConverges
  BY ConvergenceInvariant, PTL DEF CInv

\* 201 after a good start is never a lie.
THEOREM SuccessMeansAchieved == Spec => []SuccessIsTrue
  <1>1. CInv => SuccessIsTrue
    BY DEF CInv, Verdicts, RunConverges, SuccessIsTrue
  <1>. QED
    BY <1>1, ConvergenceInvariant, PTL

-----------------------------------------------------------------------------
(* The engine implements ConfigSync.                                       *)

\* Commits and loaded trees are known ones.
KInv ==
    /\ \A i \in 1..Len(history) : history[i] \in Known
    /\ prev \in Known /\ new \in Known

LEMMA MergeKInv == ASSUME IInv, KInv, NEW t \in Trees, Merge(t) PROVE KInv'
  <1>1. PICK i \in 1..Len(history) : Accepts(history[i], t)
    BY DEF Merge
  <1>2. history \in Seq(Tree) /\ t \in Tree /\ TreeValid(history[i])
    BY TreesAssumption DEF IInv, TypeOK, MasterValid
  <1>3. TreeValid(t)
    BY <1>1, <1>2, AcceptedIsValid
  <1>4. t \in Known
    BY <1>3 DEF Known
  <1>5. history' = Append(history, t) /\ prev' = prev /\ new' = new
    BY DEF Merge, engineVars
  <1>6. \A j \in 1..Len(history') : history'[j] = IF j <= Len(history) THEN history[j] ELSE t
    BY <1>2, <1>5
  <1>7. Len(history') = Len(history) + 1 /\ Len(history) \in Nat
    BY <1>2, <1>5
  <1>. QED
    BY <1>4, <1>5, <1>6, <1>7 DEF KInv

LEMMA StepsKInv == ASSUME IInv, KInv, [Next]_vars PROVE KInv'
  <1>1. CASE Request
    <2>1. Len(history) \in Nat
      BY DEF IInv, TypeOK
    <2>. QED
      BY <1>1, <2>1 DEF Request, PutCommit, PutMaster, DirectApply, DirectRefuse, KInv, Known
  <1>2. CASE Step
    <2>1. CASE LoadMaster
      BY <2>1 DEF LoadMaster, KInv, IInv, TypeOK
    <2>. QED
      BY <1>2, <2>1 DEF Step, Plan, PlanRaises, RunOp, Turn, Finish, KInv
  <1>3. CASE Fault
    BY <1>3 DEF Fault, Crash, FailOp, Turn, KInv
  <1>4. CASE UNCHANGED vars
    BY <1>4 DEF vars, engineVars, KInv
  <1>. QED
    BY <1>1, <1>2, <1>3, <1>4, MergeKInv DEF Next

\* What the services are in line with, and what they are fit for, depends on
\* them alone.
LEMMA SameServices ==
    ASSUME reality' = reality
    PROVE  /\ {t \in Known : Synced(t)}' = {t \in Known : Synced(t)}
           /\ RepairableRuns' = RepairableRuns
  <1>1. \A t, k : Settled(t, k)' = Settled(t, k)
    BY DEF Settled
  <1>2. \A t : Synced(t)' = Synced(t)
    BY <1>1 DEF Synced
  <1>3. \A c, n : Repairable(c, n)' = Repairable(c, n)
    BY <1>1 DEF Repairable, Exists
  <1>. QED
    BY <1>2, <1>3 DEF RepairableRuns

\* The runs are those between known trees whose changes can be repaired.
LEMMA RunIsRepairable ==
    \A p, n \in Known : <<p, n>> \in RepairableRuns <=> Repairable(ChangesOf(p, n), n)
  <1> TAKE p, n \in Known
  <1>1. ASSUME Repairable(ChangesOf(p, n), n) PROVE <<p, n>> \in RepairableRuns
    <2> DEFINE r == [prev |-> p, new |-> n, changes |-> ChangesOf(p, n)]
    <2>1. r \in Runs
      BY DEF Runs
    <2>2. r.prev = p /\ r.new = n /\ r.changes = ChangesOf(p, n)
      OBVIOUS
    <2>. QED
      BY <1>1, <2>1, <2>2 DEF RepairableRuns
  <1>2. ASSUME <<p, n>> \in RepairableRuns PROVE Repairable(ChangesOf(p, n), n)
    <2>1. PICK r \in Runs : Repairable(r.changes, r.new) /\ <<p, n>> = <<r.prev, r.new>>
      BY <1>2 DEF RepairableRuns
    <2>2. r.changes = ChangesOf(r.prev, r.new)
      BY <2>1 DEF Runs
    <2>. QED
      BY <2>1, <2>2
  <1>. QED
    BY <1>1, <1>2

LEMMA InitFollows == Init => Sync!Init
  <1> SUFFICES ASSUME Init PROVE Sync!Init
    OBVIOUS
  <1>1. ASSUME NEW k \in Keys PROVE Settled(InitialTree, k)
    <2>1. k[1] = "projects" => Pushed(InitialTree, k, Keys) = Pushed(InitialTree, k, {})
      BY DEF Pushed, ProjectPushed
    <2>. QED
      BY <1>1, <2>1 DEF Init, Settled, Tracked
  <1>2. Synced(InitialTree)
    BY <1>1, InitialTreeAssumption DEF Synced, TreeValid
  <1>. QED
    BY <1>2 DEF Init, Known, Sync!Init

\* A run begins with the promise that the services warrant.
LEMMA PlanFollows == ASSUME KInv, Plan PROVE Sync!Start(prev, new)
  <1>1. /\ pc = "loaded" /\ pc' = "apply" /\ prev' = prev /\ new' = new
        /\ reality' = reality /\ status' = status /\ clean' = TRUE
        /\ start' = StartOf(ChangesOf(prev, new), prev, new)
    BY DEF Plan
  <1>2. start' # "other" <=> Synced(prev) \/ Repairable(ChangesOf(prev, new), new)
    BY <1>1 DEF StartOf
  <1>3. prev \in {t \in Known : Synced(t)} <=> Synced(prev)
    BY DEF KInv
  <1>4. <<prev, new>> \in RepairableRuns <=> Repairable(ChangesOf(prev, new), new)
    BY RunIsRepairable DEF KInv
  <1>. QED
    BY <1>1, <1>2, <1>3, <1>4, SameServices DEF Sync!Start, Sync!Promised

\* Callbacks keep it, whether they succeed or fail.
LEMMA TurnFollows ==
    ASSUME CInv', KInv', NEW o \in todo, RunOp(o) \/ FailOp(o)
    PROVE  Sync!Work
  <1>1. /\ pc = "apply" /\ pc' = "apply" /\ prev' = prev /\ new' = new
        /\ status' = status /\ start' = start /\ changes' = changes
    BY DEF RunOp, FailOp, Turn
  <1>2. clean' => clean
    BY DEF RunOp, FailOp
  <1>3. ASSUME start # "other" PROVE <<prev, new>> \in RepairableRuns'
    <2>1. Repairable(changes, new)' /\ changes' = ChangesOf(prev, new)
      BY <1>1, <1>3 DEF CInv, AlwaysRepairable, Progress
    <2>2. (\A p, n \in Known : <<p, n>> \in RepairableRuns <=> Repairable(ChangesOf(p, n), n))'
      BY RunIsRepairable, PTL
    <2>. QED
      BY <1>1, <2>1, <2>2 DEF KInv
  <1>. QED
    BY <1>1, <1>2, <1>3 DEF Sync!Work

\* The end of a run keeps what was promised at its beginning.
LEMMA FinishFollows == ASSUME CInv', KInv, Finish PROVE Sync!End
  <1>1. /\ pc = "apply" /\ pc' = "idle" /\ prev' = prev /\ new' = new
        /\ reality' = reality /\ start' = start /\ clean' = clean
        /\ status' \in {201, 409}
    BY DEF Finish, ghostVars
  <1>2. ASSUME start # "other", clean \/ status' = 201
        PROVE  new \in {t \in Known : Synced(t)}
    <2>1. clean'
      BY <1>1, <1>2 DEF CInv, Verdicts
    <2>2. Achieved(prev, new)'
      BY <1>1, <1>2, <2>1 DEF CInv, RunConverges
    <2>3. Synced(new)
      BY <1>1, <2>2 DEF Achieved, Synced, Settled
    <2>. QED
      BY <2>3 DEF KInv
  <1>3. <<prev, new>>[2] = new /\ <<prev, new>> # <<>>
    OBVIOUS
  <1>. QED
    BY <1>1, <1>2, <1>3, SameServices DEF Sync!End

\* What happens to requests outside a run leaves the services alone.
LEMMA IdleFollows ==
    ASSUME reality' = reality, pc # "apply", pc' # "apply",
           status' = status \/ status' \in {0, 409, 500}
    PROVE  Sync!Refuse \/ UNCHANGED Sync!syncVars
  BY SameServices DEF Sync!Refuse, Sync!syncVars

LEMMA CrashFollows == ASSUME Crash PROVE Sync!Die \/ Sync!Refuse \/ UNCHANGED Sync!syncVars
  <1>1. reality' = reality /\ pc' = "idle" /\ status' = 0
    BY DEF Crash
  <1>2. <<prev, new>> # <<>>
    OBVIOUS
  <1>3. CASE pc = "apply"
    BY <1>1, <1>2, <1>3, SameServices DEF Sync!Die
  <1>4. CASE pc # "apply"
    BY <1>1, <1>4, IdleFollows
  <1>. QED
    BY <1>3, <1>4

\* The engine keeps the promise of ConfigSync: a run from a commit that the
\* services are in line with, or one that repeats a run cut short, leaves the
\* services fit for its repetition at every moment, ends in line with its new
\* tree unless a service fails, and answers 201 only then; for every set of
\* trees and every order of commits, requests, failures and crashes.
THEOREM EngineFollowsCommits == Spec => FollowsCommits
  <1>1. Init => Sync!Init /\ KInv
    BY InitFollows DEF Init, KInv, Known
  <1>2. IInv /\ CInv' /\ KInv /\ KInv' /\ [Next]_vars => [Sync!Next]_(Sync!syncVars)
    <2> SUFFICES ASSUME IInv, CInv', KInv, KInv', [Next]_vars
                 PROVE  Sync!Next \/ UNCHANGED Sync!syncVars
      OBVIOUS
    <2>1. ASSUME NEW t \in Trees, Merge(t) PROVE UNCHANGED Sync!syncVars
      BY <2>1, SameServices DEF Merge, engineVars, ghostVars, Sync!syncVars
    <2>2. CASE Request
      BY <2>2, IdleFollows DEF Request, PutCommit, PutMaster, DirectApply, DirectRefuse,
                               Receive, Sync!Next
    <2>3. CASE Step
      <3>1. CASE LoadMaster \/ PlanRaises
        BY <3>1, IdleFollows DEF LoadMaster, PlanRaises, ghostVars, Sync!Next
      <3>2. CASE Plan
        BY <3>2, PlanFollows DEF KInv, Sync!Next
      <3>3. ASSUME NEW o \in todo, RunOp(o) PROVE Sync!Next
        BY <3>3, TurnFollows DEF Sync!Next
      <3>4. CASE Finish
        BY <3>4, FinishFollows DEF Sync!Next
      <3>. QED
        BY <2>3, <3>1, <3>2, <3>3, <3>4 DEF Step
    <2>4. CASE Fault
      BY <2>4, CrashFollows, TurnFollows DEF Fault, Sync!Next
    <2>5. CASE UNCHANGED vars
      BY <2>5, SameServices DEF vars, engineVars, ghostVars, Sync!syncVars
    <2>. QED
      BY <2>1, <2>2, <2>3, <2>4, <2>5 DEF Next
  <1>3. IInv /\ KInv /\ [Next]_vars => KInv'
    BY StepsKInv
  <1>. QED
    BY <1>1, <1>2, <1>3, EngineInvariant, ConvergenceInvariant, PTL
       DEF Spec, FollowsCommits, Sync!Spec
=============================================================================
