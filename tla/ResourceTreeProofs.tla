------------------------- MODULE ResourceTreeProofs -------------------------
(* What the pure operators of ResourceTree guarantee, for every set of ids  *)
(* and every tree.                                                          *)
EXTENDS ResourceTree, TLAPS

\* The depth of a type in the dependency chain.
Depth(k) == CASE k[1] = "groups" -> 0 [] k[1] = "acls" -> 1
              [] k[1] = "repos" -> 2 [] k[1] = "projects" -> 3

\* The presence of a key and the shape of its resource.
LEMMA PresentShape ==
    ASSUME NEW t \in Tree, NEW k \in Present(t)
    PROVE  /\ k \in Keys
           /\ k = <<k[1], k[2]>> /\ k[1] \in Rtypes /\ k[2] \in Ids
           /\ t[k] \in Resource /\ t[k] # NoRes
           /\ k[1] = "groups" => t[k].deps = {} /\ t[k].keyed
  BY DEF Tree, Present, Keys

\* Dependencies are keys of the type one level below: groups have none.
LEMMA DepsShape ==
    ASSUME NEW t \in Tree, NEW k \in Present(t), NEW d \in Deps(t, k)
    PROVE  /\ d \in Keys
           /\ Depth(k) \in 0..3 /\ Depth(d) \in 0..3
           /\ Depth(k) = Depth(d) + 1
           /\ Priority[d[1]] > Priority[k[1]]
  <1>1. k[1] \in {"acls", "repos", "projects"} /\ t[k].deps \subseteq Ids
    BY PresentShape DEF Deps, Resource, Rtypes
  <1>2. PICK i \in Ids : d = <<DepType[k[1]], i>>
    BY <1>1 DEF Deps
  <1>3. d[1] = DepType[k[1]]
    BY <1>2
  <1>4. CASE k[1] = "acls"
    BY <1>2, <1>3, <1>4 DEF DepType, Depth, Priority, Keys, Rtypes
  <1>5. CASE k[1] = "repos"
    BY <1>2, <1>3, <1>5 DEF DepType, Depth, Priority, Keys, Rtypes
  <1>6. CASE k[1] = "projects"
    BY <1>2, <1>3, <1>6 DEF DepType, Depth, Priority, Keys, Rtypes
  <1>. QED
    BY <1>1, <1>4, <1>5, <1>6

\* Scanning only adds, and what it adds is present and depends on something
\* that was to be updated.
LEMMA ScanShape ==
    ASSUME NEW t, NEW U, NEW k
    PROVE  k \in Scan(t, U) <=>
             k \in U \/ (k \in Present(t) /\ \E d \in Deps(t, k) : d \in U)
  BY DEF Scan

\* Three scans are enough for a model of four types: whatever is updated, no
\* resource that depends on something to refresh is left out
\* (_resolv_resources_need_refresh, for every tree the loader can return).
THEOREM ThreeScansClose ==
    ASSUME NEW t \in Tree, NEW U \in SUBSET Keys,
           NEW k \in Present(t), NEW d \in Deps(t, k), d \in Refreshed(t, U)
    PROVE  k \in Refreshed(t, U)
  <1> DEFINE S1 == Scan(t, U)
             S2 == Scan(t, S1)
             S3 == Scan(t, S2)
  <1>0. Refreshed(t, U) = S3
    BY DEF Refreshed
  <1> HIDE DEF S1, S2, S3
  <1>1. CASE d \in S2
    BY <1>0, <1>1, ScanShape DEF S3
  <1>2. CASE d \notin S2
    <2>1. d \in Present(t) /\ \E e \in Deps(t, d) : e \in S2
      BY <1>0, <1>2, ScanShape DEF S3
    <2>2. PICK e \in Deps(t, d) : e \in S2 /\ e \notin S1
      BY <1>2, <2>1, ScanShape DEF S2
    <2>3. e \in Present(t) /\ \E f \in Deps(t, e) : f \in S1
      BY <2>2, ScanShape DEF S2
    <2>4. PICK f \in Deps(t, e) : f \in S1 /\ f \notin U
      BY <2>2, <2>3, ScanShape DEF S1
    <2>5. f \in Present(t) /\ \E g \in Deps(t, f) : g \in U
      BY <2>4, ScanShape DEF S1
    <2>6. PICK g \in Deps(t, f) : g \in U
      BY <2>5
    <2>7. Depth(k) \in 0..3 /\ Depth(g) \in 0..3 /\ Depth(k) = Depth(g) + 4
      <3>1. Depth(f) = Depth(g) + 1 /\ Depth(g) \in 0..3 /\ Depth(f) \in 0..3
        BY <2>5, <2>6, DepsShape
      <3>2. Depth(e) = Depth(f) + 1 /\ Depth(e) \in 0..3
        BY <2>3, <2>4, DepsShape
      <3>3. Depth(d) = Depth(e) + 1 /\ Depth(d) \in 0..3
        BY <2>1, <2>2, DepsShape
      <3>4. Depth(k) = Depth(d) + 1 /\ Depth(k) \in 0..3
        BY DepsShape
      <3>. QED
        BY <3>1, <3>2, <3>3, <3>4
    <2>. QED
      BY <2>7
  <1>. QED
    BY <1>1, <1>2

\* Only resources of the new tree are refreshed, when only such are updated.
LEMMA RefreshedPresent ==
    ASSUME NEW t \in Tree, NEW U \in SUBSET Present(t)
    PROVE  U \subseteq Refreshed(t, U) /\ Refreshed(t, U) \subseteq Present(t)
  BY DEF Refreshed, Scan

\* Nothing is refreshed without a reason: whatever holds of the updated resources,
\* and passes from a resource to those that depend on it, holds of all that are
\* refreshed.  With ThreeScansClose: they are the least set that is closed.
THEOREM RefreshIsLeast ==
    ASSUME NEW t \in Tree, NEW U \in SUBSET Keys, NEW C, U \subseteq C,
           \A k \in Present(t) : (\E d \in Deps(t, k) : d \in C) => k \in C
    PROVE  Refreshed(t, U) \subseteq C
  <1>1. ASSUME NEW S, S \subseteq C PROVE Scan(t, S) \subseteq C
    <2>. SUFFICES ASSUME NEW k \in Scan(t, S) PROVE k \in C
      OBVIOUS
    <2>1. CASE k \in S
      BY <1>1, <2>1
    <2>2. CASE k \in Present(t) /\ \E d \in Deps(t, k) : d \in S
      BY <1>1, <2>2
    <2>. QED
      BY <2>1, <2>2, ScanShape
  <1>2. Scan(t, U) \subseteq C
    BY <1>1
  <1>3. Scan(t, Scan(t, U)) \subseteq C
    BY <1>1, <1>2
  <1>. QED
    BY <1>1, <1>3 DEF Refreshed

\* The changes account for every difference of two trees, and for nothing else:
\* what they leave alone is the same in both, nothing of the new tree is deleted,
\* what they create was missing, and between equal trees there is nothing to do.
THEOREM ChangesTellAll ==
    ASSUME NEW p \in Tree, NEW n \in Tree
    PROVE  LET ch == ChangesOf(p, n)
           IN  /\ \A k \in Keys \ (ch.create \union ch.update \union ch.delete) :
                     /\ k \in Present(p) <=> k \in Present(n)
                     /\ k \in Present(n) => p[k].val = n[k].val /\ p[k].deps = n[k].deps
               /\ ch.create \union ch.update \subseteq Present(n)
               /\ ch.delete \intersect Present(n) = {} /\ ch.create \intersect Present(p) = {}
               /\ p = n => ch = [create |-> {}, update |-> {}, delete |-> {}]
  <1> DEFINE ch == ChangesOf(p, n)
  <1>1. /\ ch.create = Present(n) \ Present(p) /\ ch.delete = Present(p) \ Present(n)
        /\ ch.update = Refreshed(n, Updates(p, n))
    BY DEF ChangesOf, Creates, Deletes
  <1>2. Updates(p, n) \subseteq ch.update /\ ch.update \subseteq Present(n)
    BY <1>1, RefreshedPresent DEF Updates, Common
  <1>3. ASSUME NEW k \in Keys \ (ch.create \union ch.update \union ch.delete)
        PROVE  /\ k \in Present(p) <=> k \in Present(n)
               /\ k \in Present(n) => p[k].val = n[k].val /\ p[k].deps = n[k].deps
    BY <1>1, <1>2 DEF Updates, Common
  <1>4. ASSUME p = n PROVE ch = [create |-> {}, update |-> {}, delete |-> {}]
    <2>1. Updates(p, n) = {} /\ Creates(p, n) = {} /\ Deletes(p, n) = {}
      BY <1>4 DEF Updates, Creates, Deletes
    <2>2. Refreshed(n, {}) = {}
      BY DEF Refreshed, Scan
    <2>. QED
      BY <2>1, <2>2 DEF ChangesOf
  <1>. QED
    BY <1>1, <1>2, <1>3, <1>4

\* Validating what changed is enough: an accepted tree is wholly valid if the
\* tree it was compared with was (validate(), for every pair of trees).
THEOREM AcceptedIsValid ==
    ASSUME NEW p \in Tree, NEW n \in Tree, TreeValid(p), Accepts(p, n)
    PROVE  TreeValid(n)
  <1>1. SUFFICES ASSUME NEW k \in Present(n)
                 PROVE  n[k].val \notin BadVals
    BY DEF TreeValid, Accepts
  <1>2. CASE k \in Creates(p, n) \union Updates(p, n)
    BY <1>2 DEF Accepts, ChangesOk
  <1>3. CASE k \notin Creates(p, n) \union Updates(p, n)
    <2>1. k \in Present(p) /\ p[k].val = n[k].val
      BY <1>3 DEF Creates, Updates, Common
    <2>. QED
      BY <2>1 DEF TreeValid
  <1>. QED
    BY <1>2, <1>3
=============================================================================
