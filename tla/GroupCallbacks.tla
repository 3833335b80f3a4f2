--------------------------- MODULE GroupCallbacks ---------------------------
(***************************************************************************)
(* GroupOps (managesf/model/yamlbkd/resources/group.py) on one Gerrit      *)
(* group, call by call.                                                    *)
(***************************************************************************)
EXTENDS CallbackCalls

CONSTANTS People,      \* email addresses of accounts
          Admin,       \* that of the managesf admin
          Nameless,    \* accounts without an email
          Subgroups,   \* groups that somebody may include
          NoGroup

ASSUME AdminAssumption == Admin \in People
ASSUME NamelessAssumption == People \intersect Nameless = {}

VARIABLES
    group,     \* the group on Gerrit
    wish,      \* what the callback was called with
    left,      \* calls the loops still have to make
    was        \* ghost: the group when the callback was called

Group == [desc: Texts, members: SUBSET (People \union Nameless), subs: SUBSET Subgroups]
ASSUME NoGroupAssumption == NoGroup \notin Group

groupVars == <<group, wish, left, was>>

NothingLeft == [add |-> {}, del |-> {}, out |-> {}]

GroupInit ==
    /\ group = NoGroup /\ was = NoGroup
    /\ wish = [desc |-> AnyText, members |-> {}]
    /\ left = NothingLeft

There == group # NoGroup

\* A plausible slip: u['email'] or u['id'].
ListedAll == group.members

\* current_members: accounts without an email are skipped.
Listed == group.members \intersect People

-----------------------------------------------------------------------------

CallGroup(c, w) ==
    /\ wish' = w
    /\ left' = IF c = "create" THEN [NothingLeft EXCEPT !.add = w.members] ELSE NothingLeft
    /\ was' = group
    /\ Call(c, IF c = "create" THEN "make" ELSE "list")
    /\ UNCHANGED group

\* A plausible slip: the callback ends at the conflict.
MakeGroupOrEnd ==
    /\ pc = "make"
    /\ Tell(group, ~There, [desc |-> wish.desc, members |-> {Admin}, subs |-> {}],
            IF There THEN "done" ELSE "admin", "done")
    /\ UNCHANGED <<wish, left, was>>

\* Gerrit makes its creator a member.
MakeGroup ==
    /\ pc = "make"
    /\ Tell(group, ~There, [desc |-> wish.desc, members |-> {Admin}, subs |-> {}],
            "admin", "admin")
    /\ UNCHANGED <<wish, left, was>>

\* If this raises, so does the format of the log, and the callback ends.
DropAdmin ==
    /\ pc = "admin"
    /\ Tell(group, There /\ Admin \in group.members,
            [group EXCEPT !.members = @ \ {Admin}], "add", "done")
    /\ UNCHANGED <<wish, left, was>>

\* A plausible slip: all members are replaced.
ListToReplace ==
    /\ pc = "list"
    /\ \/ There /\ GoOn(IF ctype = "update" THEN "add" ELSE "del")
          /\ left' = [NothingLeft EXCEPT !.add = wish.members, !.del = Listed]
       \/ ~There /\ Log("done") /\ UNCHANGED left
       \/ Raise("done") /\ UNCHANGED left
    /\ UNCHANGED <<group, wish, was>>

\* get_group_id and get_group_members, outside any try: False has no members.
List ==
    /\ pc = "list"
    /\ \/ There /\ GoOn(IF ctype = "update" THEN "add" ELSE "del")
          /\ left' = IF ctype = "update"
                     THEN [NothingLeft EXCEPT !.add = wish.members \ Listed,
                                              !.del = Listed \ wish.members]
                     ELSE [NothingLeft EXCEPT !.del = Listed]
       \/ ~There /\ Log("done") /\ UNCHANGED left
       \/ Raise("done") /\ UNCHANGED left
    /\ UNCHANGED <<group, wish, was>>

AddMember(m) ==
    /\ pc = "add" /\ m \in left.add
    /\ left' = [left EXCEPT !.add = @ \ {m}]
    /\ Tell(group, There, [group EXCEPT !.members = @ \union {m}], "add", "add")
    /\ UNCHANGED <<wish, was>>

DeleteMember(m) ==
    /\ pc = "del" /\ m \in left.del
    /\ left' = [left EXCEPT !.del = @ \ {m}]
    /\ Tell(group, There, [group EXCEPT !.members = @ \ {m}], "del", "del")
    /\ UNCHANGED <<wish, was>>

Describe ==
    /\ pc = "describe"
    /\ Tell(group, There, [group EXCEPT !.desc = wish.desc], "sublist", "sublist")
    /\ UNCHANGED <<wish, left, was>>

\* get_group_group_members, outside any try again.
ListSubgroups ==
    /\ pc = "sublist"
    /\ \/ GoOn("out") /\ left' = [left EXCEPT !.out = group.subs]
       \/ Raise("done") /\ UNCHANGED left
    /\ UNCHANGED <<group, wish, was>>

DropSubgroup(g) ==
    /\ pc = "out" /\ g \in left.out
    /\ left' = [left EXCEPT !.out = @ \ {g}]
    /\ Tell(group, There, [group EXCEPT !.subs = @ \ {g}], "out", "out")
    /\ UNCHANGED <<wish, was>>

\* A loop is over.
LoopEnds ==
    /\ \/ pc = "add" /\ left.add = {} /\ GoOn(IF ctype = "create" THEN "done" ELSE "del")
       \/ pc = "del" /\ left.del = {} /\ GoOn(IF ctype = "update" THEN "describe" ELSE "sublist")
       \/ pc = "out" /\ left.out = {} /\ GoOn(IF ctype = "update" THEN "done" ELSE "sql")
    /\ UNCHANGED groupVars

\* Gerrit cannot delete groups: rows of its database are.
DeleteRows ==
    /\ pc = "sql"
    /\ Tell(group, TRUE, NoGroup, "done", "done")
    /\ UNCHANGED <<wish, left, was>>

GroupNext ==
    \/ \E c \in {"create", "update", "delete"}, d \in Texts, ms \in SUBSET People :
          CallGroup(c, [desc |-> d, members |-> ms])
    \/ MakeGroup \/ DropAdmin \/ List
    \/ \E m \in People : AddMember(m) \/ DeleteMember(m)
    \/ Describe \/ ListSubgroups
    \/ \E g \in Subgroups : DropSubgroup(g)
    \/ LoopEnds \/ DeleteRows
    \/ ByHand(group, Group \union {NoGroup}) /\ UNCHANGED <<wish, left, was>>
    \/ Killed /\ left' = NothingLeft /\ was' = group /\ UNCHANGED <<group, wish>>

-----------------------------------------------------------------------------

GroupTypeOK ==
    /\ group \in Group \union {NoGroup} /\ was \in Group \union {NoGroup}
    /\ wish \in [desc: Texts, members: SUBSET People]
    /\ left \in [add: SUBSET People, del: SUBSET People, out: SUBSET Subgroups]
    /\ pc \in {"idle", "make", "admin", "list", "add", "del", "describe", "sublist",
               "out", "sql", "done"}

GroupContent == [desc: Texts, members: SUBSET People]
ASSUME GroupContentAssumption == Absent \notin GroupContent \union Halves(GroupContent)

\* The group g is as w says, but for accounts without an email.
Granted(g, w) ==
    /\ g # NoGroup
    /\ g.desc = w.desc /\ g.members \intersect People = w.members /\ g.subs = {}

\* g is what a creation that wished w can have left.
Begun(g, w) ==
    /\ g # NoGroup
    /\ g.desc = w.desc /\ g.subs = {}
    /\ g.members \intersect People \subseteq w.members \union {Admin}

\* g is something that the engine takes for v.
GroupIs(g, v) ==
    /\ v = Absent <=> g = NoGroup
    /\ v \in GroupContent => Granted(g, v)
    /\ \A w \in GroupContent : v = Half("create", w) => Begun(g, w)

GroupGoal == IF ctype = "delete" THEN Absent ELSE wish

\* A callback that logs nothing has done all its calls were for, in whatever
\* state somebody, or an earlier callback cut short, had left the group.
GroupQuietIsDone ==
    pc = "done" /\ ~logs =>
        IF ctype = "delete" THEN group = NoGroup ELSE Granted(group, wish)

\* On a Gerrit that works a callback ends, and logs, as the engine has it end,
\* for whatever the engine takes the group for: it is quiet unless the group is
\* there to be created or missing to be updated or deleted; and a creation sent
\* again, though it logs the conflict, completes the one that was cut short.
GroupCalmOutcome ==
    kind = "groups" /\ pc = "done" /\ calm =>
        \A v \in States(GroupContent) : GroupIs(was, v) =>
            LET end == End("groups", ctype, v, GroupGoal)
            IN  GroupIs(group, end.now) /\ (logs <=> end.logs)

\* Wherever a callback is cut short, it has left what the engine takes for its
\* debris: an update has neither made nor removed the group, a creation has left
\* what another one completes.  And no update has removed a member who is to
\* stay, no creation touched description and subgroups of a group that existed.
GroupCutShort ==
    kind = "groups" /\ pc # "idle" =>
        /\ \A v \in States(GroupContent) : GroupIs(was, v) =>
              \E x \in Debris("groups", ctype, v, GroupGoal) : GroupIs(group, x)
        /\ ctype = "update" /\ was # NoGroup =>
              was.members \intersect (wish.members \union Nameless) \subseteq group.members
        /\ ctype = "create" /\ was # NoGroup => group.desc = was.desc /\ group.subs = was.subs
=============================================================================
