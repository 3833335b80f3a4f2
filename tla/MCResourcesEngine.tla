------------------------- MODULE MCResourcesEngine -------------------------
(* A small instance of ResourcesEngine: two ids per type, and trees that    *)
(* differ from one another by a created, an updated, a re-linked or a       *)
(* deleted resource at each level of the dependency chain.                  *)
EXTENDS ResourcesEngine

CONSTANTS x, y

MCIds == {x, y}
MCVals == {"v1", "v2", "v3", "bad"}
MCBadVals == {"bad"}
MCOnVals == {"v1", "v2"}

Res(val, deps) == [val |-> val, deps |-> deps, keyed |-> TRUE]
Bare(val) == [val |-> val, deps |-> {}, keyed |-> FALSE]

\* g, a, r, p give the resources of each type, by id.
MkTree(g, a, r, p) ==
    [k \in Keys |->
        LET f == CASE k[1] = "groups" -> g [] k[1] = "acls" -> a
                   [] k[1] = "repos" -> r [] k[1] = "projects" -> p
        IN  IF k[2] \in DOMAIN f THEN f[k[2]] ELSE NoRes]

One(res) == [i \in {x} |-> res]
Two(res1, res2) == [i \in {x, y} |-> IF i = x THEN res1 ELSE res2]
Nothing == [i \in {} |-> NoRes]

\* One resource of each type, linked in a chain.
Chain == MkTree(One(Res("v1", {})), One(Res("v1", {x})), One(Res("v1", {x})), One(Res("v1", {x})))
\* The group at the bottom of the chain is updated.
GroupTouched == MkTree(One(Res("v2", {})), One(Res("v1", {x})), One(Res("v1", {x})), One(Res("v1", {x})))
\* A second group enters the ACL, a second repository uses the ACL.
Grown == MkTree(Two(Res("v1", {}), Res("v1", {})), One(Res("v1", {x, y})),
                Two(Res("v1", {x}), Res("v2", {x})), One(Res("v1", {x, y})))
\* A second repository on the ACL as it is, for the same project.
Spread == MkTree(One(Res("v1", {})), One(Res("v1", {x})),
                 Two(Res("v1", {x}), Res("v1", {x})), One(Res("v1", {x, y})))
\* The ACL lost its only group and drops the key altogether; no project.
Bared == MkTree(Nothing, One(Bare("v1")), One(Res("v1", {x})), Nothing)
\* A new ACL without the optional groups key and a changed group.
BareAcl == MkTree(One(Res("v2", {})), Two(Res("v1", {x}), Bare("v2")),
                  Two(Res("v1", {x}), Res("v1", {y})), One(Res("v1", {x})))
\* The project leaves the local tracker.
Untracked == MkTree(One(Res("v1", {})), One(Res("v1", {x})), One(Res("v1", {x})), One(Res("v3", {x})))
\* What the gate must refuse: an unknown group, an invalid repository, two
\* ACLs with the same text, a project without source-repositories.
Dangling == MkTree(Nothing, One(Res("v1", {x})), One(Res("v1", {x})), Nothing)
Invalid == MkTree(One(Res("bad", {})), One(Res("v1", {x})), One(Res("v1", {x})), One(Res("v1", {x})))
Twins == MkTree(Nothing, Two(Bare("v1"), Bare("v1")), Nothing, Nothing)
NoSources == MkTree(Nothing, Nothing, Nothing, One(Bare("v1")))

Refused == {Dangling, Invalid, Twins, NoSources}
Good == {Chain, GroupTouched, Grown, Spread, Bared, BareAcl, Untracked}
MCTrees == Good \union Refused
\* For longer histories: growth, shrinking, and one tree the gate must refuse.
FewTrees == {Chain, Spread, Bared, Invalid}
\* For direct_apply: a good tree and one whose get_deps raises.
DirectMix == {Chain, NoSources}
NoTrees == {}
=============================================================================
