---------------------------- MODULE ResourceTree ----------------------------
(***************************************************************************)
(* The resource tree of the config repository and the pure part of the     *)
(* resources engine (managesf/model/yamlbkd/engine.py): the dependency and *)
(* unicity checks, the verdict of validate(), the diff of two trees, and   *)
(* the scans that add the resources to refresh.                            *)
(*                                                                         *)
(* A tree maps every key <<type, id>> to a resource or to NoRes.  A        *)
(* resource abstracts its YAML dictionary to                               *)
(*   val   - everything but the dependency key (for an ACL: its "file"),   *)
(*   deps  - the ids under the dependency key (groups of an ACL, the acl   *)
(*           of a repo, source-repositories of a project),                 *)
(*   keyed - whether the YAML document writes that dependency key at all.  *)
(***************************************************************************)
EXTENDS Integers, FiniteSets

CONSTANTS Ids,       \* resource ids (each type has its own name space)
          Vals,      \* resource contents
          BadVals,   \* contents that model validation or extra_validations refuse
          OnVals,    \* project contents with "issue-tracker: SFStoryboard"
          NoRes      \* no such resource in the tree

ASSUME NoResAssumption == NoRes \notin [val: Vals, deps: SUBSET Ids, keyed: BOOLEAN]
ASSUME ValsAssumption == BadVals \subseteq Vals /\ OnVals \subseteq Vals

-----------------------------------------------------------------------------
(* The model: four resource types, chained by one dependency key each.     *)

Rtypes == {"groups", "acls", "repos", "projects"}
Keys == Rtypes \X Ids

\* A plausible slip: ACLs and repositories swapped.
SwappedPriority == [groups |-> 40, acls |-> 10, repos |-> 20, projects |-> 30]

\* PRIORITY of the model classes: callbacks run by descending priority.
Priority == [groups |-> 40, acls |-> 30, repos |-> 20, projects |-> 10]

DepType == [acls |-> "groups", repos |-> "acls", projects |-> "repos"]

Resource == [val: Vals, deps: SUBSET Ids, keyed: BOOLEAN]

\* What the YAML loader can return: groups have no dependency key, a repo
\* names at most one ACL, and an absent key names nothing.
Tree ==
    {t \in [Keys -> Resource \union {NoRes}] :
        \A k \in Keys : t[k] # NoRes =>
            /\ k[1] = "groups" => t[k].deps = {} /\ t[k].keyed
            /\ k[1] = "repos" => \A d, e \in t[k].deps : d = e
            /\ ~t[k].keyed => t[k].deps = {}}

Present(t) == {k \in Keys : t[k] # NoRes}

\* get_deps of the four classes, as keys.
Deps(t, k) ==
    IF k[1] = "groups" THEN {} ELSE {<<DepType[k[1]], d>> : d \in t[k].deps}

\* The groups a repository reaches through its ACL.
GroupsOf(t, k) == UNION {Deps(t, a) : a \in Deps(t, k)}

\* get_deps indexes the dependency key without a default: an ACL whose
\* optional "groups" was neither written nor filled in by set_defaults raises
\* KeyError, and a project without its mandatory key raises in either case.
\* A repository reads its acl with dict.get and never raises.
GetDepsRaises(t, k, defaulted) ==
    /\ ~t[k].keyed
    /\ k[1] = "projects" \/ (k[1] = "acls" /\ k \notin defaulted)

-----------------------------------------------------------------------------
(* The diff of two trees.                                                  *)

Creates(p, n) == Present(n) \ Present(p)
Deletes(p, n) == Present(p) \ Present(n)
Common(p, n) == Present(p) \intersect Present(n)

\* A plausible slip: changes of the dependency list alone go unnoticed.
ValueUpdates(p, n) == {k \in Common(p, n) : p[k].val # n[k].val}

\* DeepDiff runs after set_defaults on both sides, so writing an empty
\* dependency key or leaving it out is no change.
Updates(p, n) ==
    {k \in Common(p, n) : p[k].val # n[k].val \/ p[k].deps # n[k].deps}

-----------------------------------------------------------------------------
(* validate(): what the gate accepts.                                      *)

\* _check_deps_constraints: every dependency of every resource is in the tree.
DepsOk(t) ==
    \A k \in Present(t) :
        /\ ~GetDepsRaises(t, k, Present(t))
        /\ Deps(t, k) \subseteq Present(t)

\* _check_unicity_constraints: two ACLs may not have the same "file".  The
\* other types use the id itself as primary key.
UnicityOk(t) ==
    \A k, l \in Present(t) :
        k[1] = "acls" /\ l[1] = "acls" /\ t[k].val = t[l].val => k = l

\* A plausible slip: only created resources are validated.
CreatesOk(p, n) == \A k \in Creates(p, n) : n[k].val \notin BadVals

\* _validate_changes: only what the diff created or updated is validated.
ChangesOk(p, n) ==
    \A k \in Creates(p, n) \union Updates(p, n) : n[k].val \notin BadVals

\* validate() returns True.
Accepts(p, n) == DepsOk(n) /\ UnicityOk(n) /\ ChangesOk(p, n)

\* A tree every resource of which is valid, with its dependencies and texts.
TreeValid(t) ==
    /\ DepsOk(t) /\ UnicityOk(t)
    /\ \A k \in Present(t) : t[k].val \notin BadVals

-----------------------------------------------------------------------------
(* _resolv_resources_need_refresh.                                         *)

\* One scan: against the updates known when it starts, add every resource of
\* the new tree that depends on one of them.  Nothing updated: return at once.
Scan(t, updated) ==
    updated \union {k \in Present(t) : Deps(t, k) \intersect updated # {}}

\* A plausible slip: one scan fewer than the depth of the model.
TwoScans(t, updated) == Scan(t, Scan(t, updated))

\* A plausible slip: only what changed itself is updated.
NoScan(t, updated) == updated

\* "Do it 3 times to resolv deps of max 3 depths".
Refreshed(t, updated) == Scan(t, Scan(t, Scan(t, updated)))

\* The sanitized_changes dictionary once the refresh has been added to it.
ChangesOf(p, n) ==
    [create |-> Creates(p, n),
     update |-> Refreshed(n, Updates(p, n)),
     delete |-> Deletes(p, n)]

\* The first scan meets a resource whose get_deps raises; with nothing
\* updated it returns before looking at any.
ScanRaises(t, defaulted, updated) ==
    updated # {} /\ \E k \in Present(t) : GetDepsRaises(t, k, defaulted)
=============================================================================
