-------------------------- MODULE CallbacksProofs --------------------------
(* What a callback that logs nothing has done, for every set of members,    *)
(* groups, descriptions and repositories, and whatever the callbacks and    *)
(* people before it have left on the services.                              *)
EXTENDS Callbacks, TLAPS

-----------------------------------------------------------------------------
(* Groups.                                                                  *)

Members(g) == g.members \intersect People

\* Which callback makes which call, and that only the last call of a deletion
\* removes a group that was found.
GroupCalls ==
    /\ pc \in {"make", "admin"} => ctype = "create"
    /\ pc = "add" => ctype \in {"create", "update"}
    /\ pc \in {"list", "del", "sublist", "out"} => ctype \in {"update", "delete"}
    /\ pc = "describe" => ctype = "update"
    /\ pc = "sql" => ctype = "delete"
    /\ pc \in {"add", "del", "describe", "sublist", "out"} /\ ctype # "create" => There

\* How far a creation that has logged nothing has come.
Creating ==
    /\ pc \in {"make", "admin"} => left.add = wish.members
    /\ pc = "admin" => group = [desc |-> wish.desc, members |-> {Admin}, subs |-> {}]
    /\ pc = "add" => /\ There /\ group.desc = wish.desc /\ group.subs = {}
                     /\ Members(group) \union left.add = wish.members
    /\ pc = "done" => Granted(group, wish)

\* How far an update that has logged nothing has come.
Updating ==
    /\ pc = "add" => /\ (Members(group) \ left.del) \union left.add = wish.members
                     /\ left.del \intersect wish.members = {}
    /\ pc = "del" => /\ Members(group) \ left.del = wish.members
                     /\ left.del \intersect wish.members = {}
    /\ pc \in {"describe", "sublist", "out"} => Members(group) = wish.members
    /\ pc \in {"sublist", "out"} => group.desc = wish.desc
    /\ pc = "out" => group.subs \subseteq left.out
    /\ pc = "done" => Granted(group, wish)

GroupInv ==
    /\ GroupTypeOK
    /\ GroupCalls
    /\ ~logs /\ ctype = "create" => Creating
    /\ ~logs /\ ctype = "update" => Updating
    /\ ~logs /\ ctype = "delete" /\ pc = "done" => group = NoGroup

LEMMA GroupFields ==
    ASSUME GroupTypeOK, There
    PROVE  /\ group \in Group
           /\ Members(group) \subseteq People
           /\ \A m \in People :
                 /\ [group EXCEPT !.members = @ \union {m}] \in Group
                 /\ [group EXCEPT !.members = @ \ {m}] \in Group
                 /\ Members([group EXCEPT !.members = @ \union {m}]) = Members(group) \union {m}
                 /\ Members([group EXCEPT !.members = @ \ {m}]) = Members(group) \ {m}
  BY DEF GroupTypeOK, There, Group, Members

\* What is known of a group after a call.
LEMMA GroupTold ==
    ASSUME NEW valid \in BOOLEAN, NEW effect, NEW next, NEW raised, CallTypeOK,
           Tell(group, valid, effect, next, raised)
    PROVE  /\ CallTypeOK' /\ UNCHANGED <<kind, ctype>>
           /\ group' = group \/ (valid /\ group' = effect)
           /\ ~logs' => ~logs /\ valid /\ group' = effect
           /\ pc' = next \/ (pc' = raised /\ logs')
  BY DEF Tell, GoOn, Log, Raise, CallTypeOK

\* The steps that tell Gerrit something preserve the invariant.
LEMMA GroupTells ==
    ASSUME GroupInv, CallTypeOK,
           \/ MakeGroup \/ DropAdmin \/ Describe \/ DeleteRows
           \/ \E m \in People : AddMember(m) \/ DeleteMember(m)
           \/ \E g \in Subgroups : DropSubgroup(g)
    PROVE  GroupInv' /\ CallTypeOK'
  <1>. USE DEF GroupInv, GroupCalls
  <1>1. CASE MakeGroup
    <2> DEFINE born == [desc |-> wish.desc, members |-> {Admin}, subs |-> {}]
    <2>1. born \in Group
      BY AdminAssumption DEF Group, GroupTypeOK
    <2>2. /\ pc = "make" /\ UNCHANGED <<wish, left, was>>
          /\ CallTypeOK' /\ UNCHANGED <<kind, ctype>> /\ pc' = "admin"
          /\ group' = group \/ group' = born
          /\ ~logs' => ~logs /\ group' = born
      BY <1>1, GroupTold DEF MakeGroup, There
    <2>3. GroupTypeOK'
      BY <2>1, <2>2 DEF GroupTypeOK
    <2>4. ~logs' /\ ctype' = "create" => Creating'
      BY <2>2 DEF Creating
    <2>. QED
      BY <2>2, <2>3, <2>4
  <1>2. CASE DropAdmin
    <2> DEFINE rest == [group EXCEPT !.members = @ \ {Admin}]
    <2>1. There => rest \in Group
      BY GroupFields, AdminAssumption
    <2>2. /\ pc = "admin" /\ UNCHANGED <<wish, left, was>>
          /\ CallTypeOK' /\ UNCHANGED <<kind, ctype>>
          /\ pc' = "add" \/ (pc' = "done" /\ logs')
          /\ group' = group \/ (There /\ group' = rest)
          /\ ~logs' => ~logs /\ There /\ group' = rest
      BY <1>2, GroupTold DEF DropAdmin, There
    <2>3. GroupTypeOK'
      BY <2>1, <2>2 DEF GroupTypeOK
    <2>4. ASSUME ~logs' PROVE Creating'
      <3>1. group' = [desc |-> wish.desc, members |-> {}, subs |-> {}] /\ left.add = wish.members
        BY <2>2, <2>4 DEF Creating
      <3>2. group' # NoGroup
        BY <2>1, <2>2, <2>4, NoGroupAssumption
      <3>. QED
        BY <2>2, <2>4, <3>1, <3>2 DEF Creating, Members, There
    <2>. QED
      BY <2>2, <2>3, <2>4
  <1>3. CASE Describe
    <2> DEFINE told == [group EXCEPT !.desc = wish.desc]
    <2>1. There => /\ told \in Group /\ Members(told) = Members(group) /\ told.desc = wish.desc
      BY DEF Group, There, Members, GroupTypeOK
    <2>2. /\ pc = "describe" /\ UNCHANGED <<wish, left, was>>
          /\ CallTypeOK' /\ UNCHANGED <<kind, ctype>> /\ pc' = "sublist"
          /\ group' = group \/ (There /\ group' = told)
          /\ ~logs' => ~logs /\ There /\ group' = told
      BY <1>3, GroupTold DEF Describe, There
    <2>3. GroupTypeOK' /\ There'
      BY <2>1, <2>2, NoGroupAssumption DEF GroupTypeOK, There
    <2>4. ASSUME ~logs' PROVE Updating'
      BY <2>1, <2>2, <2>4 DEF Updating, Members
    <2>. QED
      BY <2>2, <2>3, <2>4
  <1>4. CASE DeleteRows
    <2>1. /\ pc = "sql" /\ pc' = "done" /\ UNCHANGED <<wish, left, was>>
          /\ CallTypeOK' /\ UNCHANGED <<kind, ctype>>
          /\ group' \in {group, NoGroup} /\ (~logs' => group' = NoGroup)
      BY <1>4, GroupTold DEF DeleteRows
    <2>2. GroupTypeOK'
      BY <2>1 DEF GroupTypeOK
    <2>. QED
      BY <2>1, <2>2
  <1>5. ASSUME NEW m \in People, AddMember(m) PROVE GroupInv' /\ CallTypeOK'
    <2> DEFINE more == [group EXCEPT !.members = @ \union {m}]
    <2>1. There => /\ more \in Group /\ Members(more) = Members(group) \union {m}
                   /\ more.desc = group.desc /\ more.subs = group.subs
      BY DEF Group, There, Members, GroupTypeOK
    <2>2. /\ pc = "add" /\ pc' = "add" /\ UNCHANGED <<wish, was>> /\ m \in left.add
          /\ left' = [left EXCEPT !.add = @ \ {m}]
          /\ CallTypeOK' /\ UNCHANGED <<kind, ctype>>
          /\ group' = group \/ (There /\ group' = more)
          /\ ~logs' => ~logs /\ There /\ group' = more
      BY <1>5, GroupTold DEF AddMember, There
    <2>3. /\ left'.add = left.add \ {m} /\ left'.del = left.del /\ left'.out = left.out
          /\ left' \in [add: SUBSET People, del: SUBSET People, out: SUBSET Subgroups]
      BY <2>2 DEF GroupTypeOK
    <2>4. GroupTypeOK' /\ (There => There')
      BY <2>1, <2>2, <2>3, NoGroupAssumption DEF GroupTypeOK, There
    <2>5. ASSUME ~logs', ctype = "create" PROVE Creating'
      <3>1. /\ There /\ group.desc = wish.desc /\ group.subs = {}
            /\ Members(group) \union left.add = wish.members
        BY <2>2, <2>5 DEF Creating
      <3>2. /\ Members(group') = Members(group) \union {m}
            /\ group'.desc = wish.desc /\ group'.subs = {}
        BY <2>1, <2>2, <2>5, <3>1 DEF Members
      <3>. QED
        BY <2>2, <2>3, <2>4, <3>1, <3>2 DEF Creating, Members
    <2>6. ASSUME ~logs', ctype = "update" PROVE Updating'
      <3>1. /\ (Members(group) \ left.del) \union left.add = wish.members
            /\ left.del \intersect wish.members = {}
        BY <2>2, <2>6 DEF Updating
      <3>2. Members(group') = Members(group) \union {m}
        BY <2>1, <2>2, <2>6 DEF Members
      <3>. QED
        BY <2>2, <2>3, <3>1, <3>2 DEF Updating, Members
    <2>. QED
      BY <2>2, <2>4, <2>5, <2>6
  <1>6. ASSUME NEW m \in People, DeleteMember(m) PROVE GroupInv' /\ CallTypeOK'
    <2> DEFINE less == [group EXCEPT !.members = @ \ {m}]
    <2>1. There => /\ less \in Group /\ Members(less) = Members(group) \ {m}
      BY DEF Group, There, Members, GroupTypeOK
    <2>2. /\ pc = "del" /\ pc' = "del" /\ UNCHANGED <<wish, was>> /\ m \in left.del
          /\ left' = [left EXCEPT !.del = @ \ {m}]
          /\ CallTypeOK' /\ UNCHANGED <<kind, ctype>>
          /\ group' = group \/ (There /\ group' = less)
          /\ ~logs' => ~logs /\ There /\ group' = less
      BY <1>6, GroupTold DEF DeleteMember, There
    <2>3. /\ left'.del = left.del \ {m}
          /\ left' \in [add: SUBSET People, del: SUBSET People, out: SUBSET Subgroups]
      BY <2>2 DEF GroupTypeOK
    <2>4. GroupTypeOK' /\ (There => There')
      BY <2>1, <2>2, <2>3, NoGroupAssumption DEF GroupTypeOK, There
    <2>5. ASSUME ~logs', ctype = "update" PROVE Updating'
      <3>1. /\ Members(group) \ left.del = wish.members /\ left.del \intersect wish.members = {}
        BY <2>2, <2>5 DEF Updating
      <3>2. Members(group') = Members(group) \ {m}
        BY <2>1, <2>2, <2>5 DEF Members
      <3>. QED
        BY <2>2, <2>3, <3>1, <3>2 DEF Updating, Members
    <2>. QED
      BY <2>2, <2>4, <2>5
  <1>7. ASSUME NEW g \in Subgroups, DropSubgroup(g) PROVE GroupInv' /\ CallTypeOK'
    <2> DEFINE less == [group EXCEPT !.subs = @ \ {g}]
    <2>1. There => /\ less \in Group /\ Members(less) = Members(group)
                   /\ less.desc = group.desc /\ less.subs = group.subs \ {g}
      BY DEF Group, There, Members, GroupTypeOK
    <2>2. /\ pc = "out" /\ pc' = "out" /\ UNCHANGED <<wish, was>>
          /\ left' = [left EXCEPT !.out = @ \ {g}]
          /\ CallTypeOK' /\ UNCHANGED <<kind, ctype>>
          /\ group' = group \/ (There /\ group' = less)
          /\ ~logs' => ~logs /\ There /\ group' = less
      BY <1>7, GroupTold DEF DropSubgroup, There
    <2>3. /\ left'.out = left.out \ {g}
          /\ left' \in [add: SUBSET People, del: SUBSET People, out: SUBSET Subgroups]
      BY <2>2 DEF GroupTypeOK
    <2>4. GroupTypeOK' /\ (There => There')
      BY <2>1, <2>2, <2>3, NoGroupAssumption DEF GroupTypeOK, There
    <2>5. ASSUME ~logs', ctype = "update" PROVE Updating'
      BY <2>1, <2>2, <2>3, <2>5 DEF Updating, Members
    <2>. QED
      BY <2>2, <2>4, <2>5
  <1>. QED
    BY <1>1, <1>2, <1>3, <1>4, <1>5, <1>6, <1>7

LEMMA GroupStep ==
    ASSUME GroupInv, CallTypeOK, GroupNext
    PROVE  GroupInv' /\ CallTypeOK'
  <1>. USE DEF CallTypeOK, GroupInv, GroupTypeOK, GroupCalls
  <1>1. ASSUME NEW c \in {"create", "update", "delete"}, NEW w \in [desc: Texts, members: SUBSET People],
               CallGroup(c, w)
        PROVE  GroupInv' /\ CallTypeOK'
    BY <1>1 DEF CallGroup, Call, NothingLeft, Creating, Updating, There
  <1>2. CASE List
    <2>1. /\ pc = "list" /\ UNCHANGED <<group, wish, was, kind, ctype>> /\ CallTypeOK'
          /\ \/ pc' = "done" /\ logs' /\ UNCHANGED left
             \/ /\ There /\ UNCHANGED logs
                /\ pc' = IF ctype = "update" THEN "add" ELSE "del"
                /\ ctype = "update" => /\ left'.add = wish.members \ Members(group)
                                       /\ left'.del = Members(group) \ wish.members
                /\ left' \in [add: SUBSET People, del: SUBSET People, out: SUBSET Subgroups]
      <3>1. CASE There /\ pc' # "done"
        <4>1. Listed \in SUBSET People /\ Listed = Members(group)
          BY DEF Listed, Members
        <4>2. left' = IF ctype = "update"
                      THEN [add |-> wish.members \ Listed, del |-> Listed \ wish.members, out |-> {}]
                      ELSE [add |-> {}, del |-> Listed, out |-> {}]
          BY <1>2, <3>1 DEF List, GoOn, Log, Raise, NothingLeft
        <4>3. left' \in [add: SUBSET People, del: SUBSET People, out: SUBSET Subgroups]
          BY <4>1, <4>2
        <4>4. ctype = "update" => /\ left'.add = wish.members \ Members(group)
                                  /\ left'.del = Members(group) \ wish.members
          BY <4>1, <4>2
        <4>. QED
          BY <1>2, <3>1, <4>3, <4>4 DEF List, GoOn, Log, Raise
      <3>2. CASE ~There \/ pc' = "done"
        BY <1>2, <3>2 DEF List, GoOn, Log, Raise
      <3>. QED
        BY <3>1, <3>2
    <2>2. GroupTypeOK' /\ GroupCalls'
      BY <2>1 DEF There
    <2>3. ASSUME ~logs', ctype = "update" PROVE Updating'
      BY <2>1, <2>3 DEF Updating, Members
    <2>. QED
      BY <2>1, <2>2, <2>3
  <1>3. CASE ListSubgroups
    <2>1. /\ pc = "sublist" /\ UNCHANGED <<group, wish, was, kind, ctype>> /\ CallTypeOK'
          /\ \/ pc' = "done" /\ logs' /\ UNCHANGED left
             \/ pc' = "out" /\ UNCHANGED logs /\ left' = [left EXCEPT !.out = group.subs]
      BY <1>3 DEF ListSubgroups, GoOn, Raise
    <2>2. group.subs \subseteq Subgroups
      BY <2>1 DEF There, Group
    <2>3. pc' = "out" => left'.out = group.subs
      BY <2>1
    <2>4. GroupTypeOK' /\ GroupCalls'
      BY <2>1, <2>2 DEF There
    <2>5. ASSUME ~logs', ctype = "update" PROVE Updating'
      BY <2>1, <2>3, <2>5 DEF Updating, Members
    <2>. QED
      BY <2>1, <2>4, <2>5
  <1>4. CASE LoopEnds
    <2>1. UNCHANGED groupVars /\ UNCHANGED <<kind, ctype, logs, calm>>
      BY <1>4 DEF LoopEnds, GoOn
    <2>2. GroupTypeOK' /\ GroupCalls' /\ CallTypeOK'
      BY <1>4, <2>1 DEF LoopEnds, GoOn, groupVars, There
    <2>3. ASSUME ~logs', ctype = "create" PROVE Creating'
      BY <1>4, <2>1, <2>3 DEF LoopEnds, GoOn, groupVars, Creating, There, Members, Granted
    <2>4. ASSUME ~logs', ctype = "update" PROVE Updating'
      <3>1. CASE pc = "add"
        BY <1>4, <2>1, <2>4, <3>1 DEF LoopEnds, GoOn, groupVars, Updating, Members
      <3>2. CASE pc = "del"
        BY <1>4, <2>1, <2>4, <3>2 DEF LoopEnds, GoOn, groupVars, Updating, Members
      <3>3. CASE pc = "out"
        BY <1>4, <2>1, <2>4, <3>3 DEF LoopEnds, GoOn, groupVars, Updating, Members, Granted, There
      <3>. QED
        BY <1>4, <3>1, <3>2, <3>3 DEF LoopEnds
    <2>5. ctype = "delete" => pc' # "done"
      BY <1>4 DEF LoopEnds, GoOn
    <2>. QED
      BY <2>1, <2>2, <2>3, <2>4, <2>5
  <1>5. CASE ByHand(group, Group \union {NoGroup}) /\ UNCHANGED <<wish, left, was>>
    BY <1>5 DEF ByHand, callVars, Creating, Updating, There
  <1>6. CASE Killed /\ left' = NothingLeft /\ was' = group /\ UNCHANGED <<group, wish>>
    BY <1>6 DEF Killed, Raise, NothingLeft, There
  <1>. QED
    BY <1>1, <1>2, <1>3, <1>4, <1>5, <1>6, GroupTells DEF GroupNext

\* What a callback has left alone wherever it is, whatever fails.
GroupKept ==
    pc # "idle" =>
        /\ ctype = "create" => left.add \subseteq wish.members
        /\ ctype = "update" => left.del \intersect wish.members = {}
        /\ ctype = "update" /\ was # NoGroup =>
              There /\ was.members \intersect (wish.members \union Nameless) \subseteq group.members
        /\ ctype # "create" /\ was = NoGroup => group = NoGroup
        /\ ctype = "create" /\ was = NoGroup => group = NoGroup \/ Begun(group, wish)
        /\ ctype = "create" /\ Begun(was, wish) => Begun(group, wish)
        /\ ctype = "create" /\ was # NoGroup =>
              There /\ group.desc = was.desc /\ group.subs = was.subs

\* How far a creation has come on a Gerrit that works.
CalmCreating ==
    /\ pc = "make" => ~logs /\ group = was
    /\ pc \in {"admin", "add", "done"} => There /\ (logs <=> was # NoGroup)
    /\ pc \in {"make", "admin"} => left.add = wish.members
    /\ pc = "add" /\ Begun(was, wish) => Members(group) \union left.add = wish.members
    /\ pc = "done" /\ Begun(was, wish) => Granted(group, wish)

\* The same for updates and deletions.
CalmChanging ==
    /\ pc = "list" => ~logs /\ group = was
    /\ pc \in {"add", "del", "describe", "sublist", "out", "sql"} => ~logs /\ was # NoGroup
    /\ pc = "done" => (logs <=> was = NoGroup)

GroupCalm ==
    calm => IF ctype = "create" THEN CalmCreating ELSE CalmChanging

LEMMA GroupCalmlyTold ==
    ASSUME NEW valid \in BOOLEAN, NEW effect, NEW next, NEW raised,
           Tell(group, valid, effect, next, raised)
    PROVE  /\ UNCHANGED ctype /\ pc' \in {next, raised}
           /\ group' = group \/ (valid /\ group' = effect)
           /\ calm' => /\ calm /\ pc' = next
                       /\ valid => group' = effect /\ logs' = logs
                       /\ ~valid => group' = group /\ logs'
  BY DEF Tell, GoOn, Log, Raise

\* The steps of a creation.
LEMMA CreationKeeps ==
    ASSUME GroupInv, GroupKept, GroupCalm, GroupInv', ctype = "create",
           MakeGroup \/ DropAdmin \/ \E m \in People : AddMember(m)
    PROVE  GroupKept' /\ GroupCalm'
  <1>1. CASE MakeGroup
    <2> DEFINE born == [desc |-> wish.desc, members |-> {Admin}, subs |-> {}]
    <2>1. /\ pc = "make" /\ pc' = "admin" /\ UNCHANGED <<ctype, wish, left, was>>
          /\ group' = group \/ (~There /\ group' = born)
          /\ calm' => /\ calm
                      /\ ~There => group' = born /\ logs' = logs
                      /\ There => group' = group /\ logs'
      BY <1>1, GroupCalmlyTold DEF MakeGroup, There
    <2>2. born # NoGroup /\ Begun(born, wish)
      <3>1. born \in Group
        BY AdminAssumption DEF Group, GroupInv, GroupTypeOK
      <3>. QED
        BY <3>1, NoGroupAssumption DEF Begun
    <2>3. GroupKept'
      BY <2>1, <2>2 DEF GroupKept, Begun, There
    <2>4. GroupCalm'
      BY <2>1, <2>2 DEF GroupCalm, CalmCreating, There
    <2>. QED
      BY <2>3, <2>4
  <1>2. CASE DropAdmin
    <2> DEFINE rest == [group EXCEPT !.members = @ \ {Admin}]
    <2>1. /\ pc = "admin" /\ pc' \in {"add", "done"} /\ UNCHANGED <<ctype, wish, left, was>>
          /\ group' = group \/ (There /\ group' = rest)
          /\ calm' => /\ calm /\ pc' = "add"
                      /\ There /\ Admin \in group.members => group' = rest /\ logs' = logs
                      /\ ~(There /\ Admin \in group.members) => group' = group /\ logs'
      BY <1>2, GroupCalmlyTold DEF DropAdmin
    <2>2. There => /\ rest # NoGroup /\ rest.desc = group.desc /\ rest.subs = group.subs
                   /\ rest.members = group.members \ {Admin}
      <3>1. There => rest \in Group
        BY GroupFields, AdminAssumption DEF GroupInv
      <3>. QED
        BY <3>1, NoGroupAssumption DEF There, Group, GroupInv, GroupTypeOK
    <2>3. GroupKept'
      BY <2>1, <2>2 DEF GroupKept, Begun, There
    <2>4. ASSUME calm' PROVE CalmCreating'
      <3>1. There /\ (logs <=> was # NoGroup) /\ left.add = wish.members /\ calm
        BY <2>1, <2>4 DEF GroupCalm, CalmCreating
      <3>2. ~logs => Admin \in group.members
        BY <2>1 DEF GroupInv, Creating
      <3>3. There' /\ (logs' <=> was' # NoGroup) /\ pc' = "add"
        BY <2>1, <2>2, <2>4, <3>1, <3>2 DEF There
      <3>4. ASSUME Begun(was, wish) PROVE Members(group') \union wish.members = wish.members
        <4>1. group'.members = group.members \ {Admin}
          BY <2>1, <2>2, <2>4, <3>1
        <4>2. group.members \intersect People \subseteq wish.members \union {Admin}
          BY <2>1, <3>4 DEF GroupKept, Begun
        <4>. QED
          BY <4>1, <4>2 DEF Members
      <3>. QED
        BY <2>1, <3>1, <3>3, <3>4 DEF CalmCreating, Members, Begun
    <2>. QED
      BY <2>1, <2>3, <2>4 DEF GroupCalm
  <1>3. ASSUME NEW m \in People, AddMember(m) PROVE GroupKept' /\ GroupCalm'
    <2> DEFINE more == [group EXCEPT !.members = @ \union {m}]
    <2>1. /\ pc = "add" /\ pc' = "add" /\ UNCHANGED <<ctype, wish, was>> /\ m \in left.add
          /\ left' = [left EXCEPT !.add = @ \ {m}]
          /\ group' = group \/ (There /\ group' = more)
          /\ calm' => /\ calm
                      /\ There => group' = more /\ logs' = logs
                      /\ ~There => group' = group /\ logs'
      BY <1>3, GroupCalmlyTold DEF AddMember, There
    <2>2. There => /\ more # NoGroup /\ more.desc = group.desc /\ more.subs = group.subs
                   /\ more.members = group.members \union {m}
      <3>1. There => more \in Group
        BY GroupFields DEF GroupInv
      <3>. QED
        BY <3>1, NoGroupAssumption DEF There, Group, GroupInv, GroupTypeOK
    <2>3. left'.add = left.add \ {m} /\ m \in wish.members
      BY <2>1 DEF GroupKept, GroupInv, GroupTypeOK
    <2>4. GroupKept'
      BY <2>1, <2>2, <2>3 DEF GroupKept, Begun, There
    <2>5. ASSUME calm' PROVE CalmCreating'
      <3>1. /\ There /\ (logs <=> was # NoGroup) /\ calm
            /\ Begun(was, wish) => Members(group) \union left.add = wish.members
        BY <2>1, <2>5 DEF GroupCalm, CalmCreating
      <3>2. group' = more /\ logs' = logs
        BY <2>1, <2>5, <3>1
      <3>3. Members(group') = Members(group) \union {m}
        BY <2>2, <3>1, <3>2 DEF Members
      <3>4. There' /\ (logs' <=> was' # NoGroup)
        BY <2>1, <2>2, <3>1, <3>2 DEF There
      <3>5. Begun(was, wish) <=> Begun(was, wish)'
        BY <2>1 DEF Begun
      <3>. QED
        BY <2>1, <2>3, <3>1, <3>3, <3>4, <3>5 DEF CalmCreating, Members
    <2>. QED
      BY <2>1, <2>4, <2>5 DEF GroupCalm
  <1>. QED
    BY <1>1, <1>2, <1>3

\* A step of an update or a deletion that makes of the group, if it is there, a
\* group that lacks no member who is to stay.
LEMMA ChangeKeeps ==
    ASSUME GroupKept, ctype # "create", ctype' = ctype, UNCHANGED <<wish, was>>,
           pc # "idle", pc' # "idle",
           ctype = "update" => left'.del \subseteq left.del,
           \/ group' = group
           \/ /\ There
              /\ ctype = "update" =>
                    /\ group' # NoGroup
                    /\ group.members \intersect (wish.members \union Nameless) \subseteq group'.members
    PROVE  GroupKept'
  BY DEF GroupKept, There

\* The steps of updates and deletions that tell Gerrit something.
LEMMA ChangingKeeps ==
    ASSUME GroupInv, GroupKept, GroupCalm, GroupInv', ctype # "create",
           \/ Describe \/ DeleteRows
           \/ \E m \in People : AddMember(m) \/ DeleteMember(m)
           \/ \E g \in Subgroups : DropSubgroup(g)
    PROVE  GroupKept' /\ GroupCalm'
  <1>0. /\ There => group \in Group
        /\ left \in [add: SUBSET People, del: SUBSET People, out: SUBSET Subgroups]
        /\ pc \in {"add", "del", "describe", "sublist", "out"} => There
    BY DEF GroupInv, GroupCalls, GroupTypeOK, There
  <1>1. ASSUME pc \in {"add", "del", "describe", "sublist", "out"}, pc' \in {"add", "del", "sublist", "out"},
               UNCHANGED <<ctype, was>>, calm' => calm /\ logs' = logs
        PROVE  GroupCalm'
    BY <1>1 DEF GroupCalm, CalmChanging
  <1>2. CASE Describe
    <2>1. /\ pc = "describe" /\ pc' = "sublist" /\ UNCHANGED <<ctype, wish, left, was>>
          /\ group' = group \/ (There /\ group' = [group EXCEPT !.desc = wish.desc])
          /\ calm' => calm /\ logs' = logs
      BY <1>0, <1>2, GroupCalmlyTold DEF Describe, There
    <2>2. There => /\ [group EXCEPT !.desc = wish.desc].members = group.members
                   /\ [group EXCEPT !.desc = wish.desc] \in Group
      BY <1>0 DEF Group, GroupInv, GroupTypeOK
    <2>. QED
      BY <1>1, <2>1, <2>2, ChangeKeeps, NoGroupAssumption
  <1>3. CASE DeleteRows
    <2>1. /\ pc = "sql" /\ pc' = "done" /\ UNCHANGED <<ctype, wish, left, was>>
          /\ group' \in {group, NoGroup}
          /\ calm' => calm /\ logs' = logs
      BY <1>3, GroupCalmlyTold DEF DeleteRows
    <2>2. ctype = "delete"
      BY <2>1 DEF GroupInv, GroupCalls
    <2>3. GroupKept'
      BY <2>1, <2>2 DEF GroupKept
    <2>4. GroupCalm'
      BY <2>1, <2>2 DEF GroupCalm, CalmChanging
    <2>. QED
      BY <2>3, <2>4
  <1>4. ASSUME NEW m \in People, AddMember(m) PROVE GroupKept' /\ GroupCalm'
    <2>1. /\ pc = "add" /\ pc' = "add" /\ UNCHANGED <<ctype, wish, was>>
          /\ left'.del = left.del
          /\ group' = group \/ (There /\ group' = [group EXCEPT !.members = @ \union {m}])
          /\ calm' => calm /\ logs' = logs
      BY <1>0, <1>4, GroupCalmlyTold DEF AddMember, There
    <2>2. There => /\ [group EXCEPT !.members = @ \union {m}].members = group.members \union {m}
                   /\ [group EXCEPT !.members = @ \union {m}] # NoGroup
      BY <1>0, GroupFields, NoGroupAssumption DEF Group, GroupInv
    <2>. QED
      BY <1>1, <2>1, <2>2, ChangeKeeps
  <1>5. ASSUME NEW m \in People, DeleteMember(m) PROVE GroupKept' /\ GroupCalm'
    <2>1. /\ pc = "del" /\ pc' = "del" /\ UNCHANGED <<ctype, wish, was>> /\ m \in left.del
          /\ left'.del = left.del \ {m}
          /\ group' = group \/ (There /\ group' = [group EXCEPT !.members = @ \ {m}])
          /\ calm' => calm /\ logs' = logs
      BY <1>0, <1>5, GroupCalmlyTold DEF DeleteMember, There
    <2>2. There => /\ [group EXCEPT !.members = @ \ {m}].members = group.members \ {m}
                   /\ [group EXCEPT !.members = @ \ {m}] # NoGroup
      BY <1>0, GroupFields, NoGroupAssumption DEF Group, GroupInv
    <2>3. ctype = "update" => m \notin wish.members \union Nameless
      BY <2>1, NamelessAssumption DEF GroupKept
    <2>. QED
      BY <1>1, <2>1, <2>2, <2>3, ChangeKeeps
  <1>6. ASSUME NEW g \in Subgroups, DropSubgroup(g) PROVE GroupKept' /\ GroupCalm'
    <2>1. /\ pc = "out" /\ pc' = "out" /\ UNCHANGED <<ctype, wish, was>>
          /\ left'.del = left.del
          /\ group' = group \/ (There /\ group' = [group EXCEPT !.subs = @ \ {g}])
          /\ calm' => calm /\ logs' = logs
      BY <1>0, <1>6, GroupCalmlyTold DEF DropSubgroup, There
    <2>2. There => /\ [group EXCEPT !.subs = @ \ {g}].members = group.members
                   /\ [group EXCEPT !.subs = @ \ {g}] \in Group
      BY <1>0 DEF Group
    <2>. QED
      BY <1>1, <2>1, <2>2, ChangeKeeps, NoGroupAssumption
  <1>. QED
    BY <1>2, <1>3, <1>4, <1>5, <1>6

LEMMA GroupKeeps ==
    ASSUME GroupInv, GroupKept, GroupCalm, GroupNext, GroupInv'
    PROVE  GroupKept' /\ GroupCalm'
  <1>1. ASSUME NEW c \in {"create", "update", "delete"}, NEW w \in [desc: Texts, members: SUBSET People],
               CallGroup(c, w)
        PROVE  GroupKept' /\ GroupCalm'
    <2>1. /\ ctype' = c /\ wish' = w /\ was' = group /\ group' = group /\ ~logs'
          /\ pc' = IF c = "create" THEN "make" ELSE "list"
          /\ left' = IF c = "create" THEN [NothingLeft EXCEPT !.add = w.members] ELSE NothingLeft
      BY <1>1 DEF CallGroup, Call
    <2>2. /\ c = "create" => left'.add = w.members
          /\ c # "create" => left'.del = {}
      BY <2>1 DEF NothingLeft
    <2>3. GroupKept'
      BY <2>1, <2>2 DEF GroupKept, There, Begun
    <2>4. GroupCalm'
      BY <2>1, <2>2 DEF GroupCalm, CalmCreating, CalmChanging
    <2>. QED
      BY <2>3, <2>4
  <1>2. CASE List
    <2>1. /\ pc = "list" /\ UNCHANGED <<group, wish, was, ctype>> /\ ctype # "create"
          /\ \/ pc' = "done" /\ ~There /\ left' = left /\ logs' /\ calm' = calm
             \/ pc' = "done" /\ ~calm' /\ left' = left
             \/ /\ pc' = (IF ctype = "update" THEN "add" ELSE "del") /\ There
                /\ logs' = logs /\ calm' = calm
                /\ ctype = "update" => left'.del = Listed \ wish.members
      BY <1>2 DEF List, GoOn, Log, Raise, GroupInv, GroupCalls, NothingLeft
    <2>2. GroupKept'
      BY <2>1 DEF GroupKept, There
    <2>3. ASSUME calm' PROVE CalmChanging'
      <3>1. calm /\ ~logs /\ group = was
        BY <2>1, <2>3 DEF GroupCalm, CalmChanging
      <3>2. CASE There
        BY <2>1, <2>3, <3>1, <3>2 DEF CalmChanging, There
      <3>3. CASE ~There
        BY <2>1, <2>3, <3>1, <3>3 DEF CalmChanging, There
      <3>. QED
        BY <3>2, <3>3
    <2>. QED
      BY <2>1, <2>2, <2>3 DEF GroupCalm
  <1>3. CASE ListSubgroups
    <2>1. /\ pc = "sublist" /\ UNCHANGED <<group, wish, was, ctype>> /\ ctype # "create"
          /\ left'.del = left.del /\ pc' \in {"out", "done"}
          /\ calm' => calm /\ pc' = "out" /\ (~logs => ~logs')
      BY <1>3 DEF ListSubgroups, GoOn, Raise, GroupInv, GroupCalls, GroupTypeOK
    <2>2. ASSUME calm' PROVE CalmChanging'
      <3>1. ~logs' /\ was' # NoGroup /\ pc' = "out"
        BY <2>1, <2>2 DEF GroupCalm, CalmChanging
      <3>. QED
        BY <3>1 DEF CalmChanging
    <2>. QED
      BY <2>1, <2>2, ChangeKeeps DEF GroupCalm
  <1>4. CASE LoopEnds
    <2>1. UNCHANGED <<group, wish, left, was, ctype, logs, calm>> /\ pc # "idle" /\ pc' # "idle"
      BY <1>4 DEF LoopEnds, GoOn, groupVars
    <2>2. GroupKept'
      BY <2>1 DEF GroupKept, Begun, There
    <2>3. ASSUME calm, ctype = "create" PROVE CalmCreating'
      <3>1. pc = "add" /\ pc' = "done" /\ left.add = {}
        BY <1>4, <2>3 DEF LoopEnds, GoOn, GroupInv, GroupCalls
      <3>2. There /\ (logs <=> was # NoGroup) /\ (Begun(was, wish) => Members(group) = wish.members)
        BY <2>3, <3>1 DEF GroupCalm, CalmCreating
      <3>3. Begun(was, wish) => Granted(group, wish)
        BY <2>3, <3>1, <3>2 DEF GroupKept, Begun, Granted, Members
      <3>. QED
        BY <2>1, <3>1, <3>2, <3>3 DEF CalmCreating, Begun, Granted, There
    <2>4. ASSUME calm, ctype # "create" PROVE CalmChanging'
      BY <1>4, <2>1, <2>4 DEF LoopEnds, GoOn, GroupCalm, CalmChanging
    <2>. QED
      BY <2>1, <2>2, <2>3, <2>4 DEF GroupCalm
  <1>5. CASE ByHand(group, Group \union {NoGroup}) /\ UNCHANGED <<wish, left, was>>
    BY <1>5 DEF ByHand, callVars, GroupKept, GroupCalm, CalmCreating, CalmChanging
  <1>6. CASE Killed
    BY <1>6 DEF Killed, Raise, GroupKept, GroupCalm
  <1>7. ASSUME NEW m \in People, AddMember(m) PROVE GroupKept' /\ GroupCalm'
    BY <1>7, CreationKeeps, ChangingKeeps
  <1>8. CASE MakeGroup \/ DropAdmin
    BY <1>8, CreationKeeps DEF MakeGroup, DropAdmin, GroupInv, GroupCalls
  <1>9. CASE Describe \/ DeleteRows
    BY <1>9, ChangingKeeps DEF Describe, DeleteRows, GroupInv, GroupCalls
  <1>10. ASSUME NEW m \in People, DeleteMember(m) PROVE GroupKept' /\ GroupCalm'
    BY <1>10, ChangingKeeps DEF DeleteMember, GroupInv, GroupCalls
  <1>11. ASSUME NEW g \in Subgroups, DropSubgroup(g) PROVE GroupKept' /\ GroupCalm'
    BY <1>11, ChangingKeeps DEF DropSubgroup, GroupInv, GroupCalls
  <1>. QED
    BY <1>1, <1>2, <1>3, <1>4, <1>5, <1>6, <1>7, <1>8, <1>9, <1>10, <1>11 DEF GroupNext

-----------------------------------------------------------------------------
(* Repositories.                                                            *)

\* How far a callback that has logged nothing has come.
RepoInv ==
    /\ RepoTypeOK
    /\ pc \in {"project", "review"} => ctype = "create"
    /\ pc \in {"ids", "config"} => ctype \in {"create", "update"}
    /\ pc = "delete" => ctype = "delete"
    /\ ~logs => /\ pc = "review" => repo # NoRepo /\ repo.config = Ordered
                /\ pc = "done" => IF ctype = "delete" THEN repo = NoRepo
                                  ELSE /\ repo # NoRepo /\ repo.config = Ordered
                                       /\ ctype = "create" => repo.review

LEMMA RepoTold ==
    ASSUME NEW valid \in BOOLEAN, NEW effect, NEW next, NEW raised, CallTypeOK,
           Tell(repo, valid, effect, next, raised)
    PROVE  /\ CallTypeOK' /\ UNCHANGED <<kind, ctype>>
           /\ repo' = repo \/ (valid /\ repo' = effect)
           /\ ~logs' => ~logs /\ valid /\ repo' = effect
           /\ pc' = next \/ (pc' = raised /\ logs')
  BY DEF Tell, GoOn, Log, Raise, CallTypeOK

LEMMA RepoStep ==
    ASSUME RepoInv, CallTypeOK, RepoNext
    PROVE  RepoInv' /\ CallTypeOK'
  <1>. USE NoRepoAssumption DEF RepoInv, RepoTypeOK
  <1>1. ASSUME NEW c \in {"create", "update", "delete"}, NEW o \in Order, CallRepo(c, o)
        PROVE  RepoInv' /\ CallTypeOK'
    BY <1>1 DEF CallRepo, Call, CallTypeOK
  <1>2. CASE CreateProject
    <2> DEFINE born == [config |-> [acl |-> Plain, desc |-> order.desc, groups |-> {}, found |-> {}],
                        review |-> FALSE]
    <2>1. born \in Repo
      BY DEF Repo, Config, Order
    <2>2. /\ pc = "project" /\ pc' = "ids" /\ UNCHANGED <<order, ids, prior, kind, ctype>>
          /\ CallTypeOK' /\ repo' \in {repo, born}
      BY <1>2 DEF CreateProject, Tell, GoOn, Log, Raise, CallTypeOK
    <2>. QED
      BY <2>1, <2>2
  <1>3. CASE FindIds
    BY <1>3 DEF FindIds, GoOn, Raise, CallTypeOK
  <1>4. CASE PushConfig
    <2> DEFINE pushed == [repo EXCEPT !.config = Ordered]
    <2>1. Ordered \in Config
      BY DEF Ordered, Config, Order
    <2>2. repo # NoRepo => pushed \in Repo /\ pushed.config = Ordered
      BY <2>1 DEF Repo
    <2>3. /\ pc = "config" /\ UNCHANGED <<order, ids, prior, kind, ctype>> /\ CallTypeOK'
          /\ pc' = IF ctype = "create" THEN "review" ELSE "done"
          /\ repo' = repo \/ (repo # NoRepo /\ repo' = pushed)
          /\ ~logs' => repo # NoRepo /\ repo' = pushed
      BY <1>4, RepoTold DEF PushConfig
    <2>4. Ordered' = Ordered
      BY <2>3 DEF Ordered
    <2>. QED
      BY <2>2, <2>3, <2>4
  <1>5. CASE PushReview
    <2> DEFINE pushed == [repo EXCEPT !.review = TRUE]
    <2>1. repo # NoRepo => pushed \in Repo /\ pushed.config = repo.config /\ pushed.review
      BY DEF Repo
    <2>2. /\ pc = "review" /\ pc' = "done" /\ UNCHANGED <<order, ids, prior, kind, ctype>>
          /\ CallTypeOK'
          /\ repo' = repo \/ (repo # NoRepo /\ repo' = pushed)
          /\ ~logs' => ~logs /\ repo # NoRepo /\ repo' = pushed
      BY <1>5, RepoTold DEF PushReview
    <2>3. Ordered' = Ordered
      BY <2>2 DEF Ordered
    <2>. QED
      BY <2>1, <2>2, <2>3
  <1>6. CASE DeleteProject
    <2>1. /\ pc = "delete" /\ pc' = "done" /\ UNCHANGED <<order, ids, prior, kind, ctype>>
          /\ CallTypeOK' /\ repo' \in {repo, NoRepo} /\ (~logs' => repo' = NoRepo)
      BY <1>6, RepoTold DEF DeleteProject
    <2>2. ctype = "delete"
      BY <2>1
    <2>. QED
      BY <2>1, <2>2
  <1>7. CASE ByHand(repo, Repo \union {NoRepo}) /\ UNCHANGED <<order, ids, prior>>
    BY <1>7 DEF ByHand, callVars, CallTypeOK
  <1>8. CASE Killed /\ ids' = {} /\ prior' = repo /\ UNCHANGED <<repo, order>>
    BY <1>8 DEF Killed, Raise, CallTypeOK
  <1>. QED
    BY <1>1, <1>2, <1>3, <1>4, <1>5, <1>6, <1>7, <1>8 DEF RepoNext

\* How far a callback has come on a Gerrit that works.
RepoCalm ==
    calm =>
        CASE ctype = "create" ->
               /\ pc = "project" => ~logs /\ repo = prior
               /\ pc \in {"ids", "config", "review", "done"} =>
                     repo # NoRepo /\ (logs <=> prior # NoRepo)
               /\ pc \in {"review", "done"} => repo.config = Ordered
               /\ pc = "done" => repo.review
          [] ctype = "update" ->
               /\ pc \in {"ids", "config"} => ~logs /\ repo = prior
               /\ pc = "done" => /\ logs <=> prior = NoRepo
                                 /\ prior # NoRepo => repo = [prior EXCEPT !.config = Ordered]
          [] ctype = "delete" ->
               /\ pc = "delete" => ~logs /\ repo = prior
               /\ pc = "done" => (logs <=> prior = NoRepo)

\* What a callback has left alone wherever it is, whatever fails.
RepoKept ==
    pc # "idle" =>
        /\ pc \in {"project", "ids"} /\ prior # NoRepo => repo = prior
        /\ ctype # "delete" /\ prior # NoRepo => repo # NoRepo
        /\ ctype # "create" /\ prior = NoRepo => repo = NoRepo
        /\ prior # NoRepo /\ repo # NoRepo =>
              repo.config \in {prior.config, Ordered} /\ (prior.review => repo.review)

LEMMA RepoSpares ==
    ASSUME RepoInv, RepoKept, CallTypeOK, RepoNext
    PROVE  RepoKept'
  <1>0. ctype \in {"create", "update", "delete"} /\ (repo # NoRepo => repo \in Repo)
    BY DEF CallTypeOK, RepoInv, RepoTypeOK
  <1>1. ASSUME NEW c \in {"create", "update", "delete"}, NEW o \in Order, CallRepo(c, o)
        PROVE  RepoKept'
    BY <1>1 DEF CallRepo, Call, RepoKept
  <1>2. CASE CreateProject
    <2>1. /\ pc = "project" /\ ctype = "create" /\ ctype' = ctype /\ UNCHANGED prior
          /\ repo # NoRepo => repo' = repo
      BY <1>2, RepoTold DEF CreateProject, RepoInv
    <2>. QED
      BY <2>1 DEF RepoKept
  <1>3. CASE FindIds
    <2>1. /\ pc = "ids" /\ ctype \in {"create", "update"} /\ UNCHANGED <<repo, prior, ctype>>
      BY <1>3 DEF FindIds, GoOn, Raise, RepoInv
    <2>. QED
      BY <2>1 DEF RepoKept
  <1>4. CASE PushConfig
    <2> DEFINE pushed == [repo EXCEPT !.config = Ordered]
    <2>1. /\ pc = "config" /\ ctype \in {"create", "update"} /\ ctype' = ctype
          /\ UNCHANGED <<prior, order, ids>> /\ pc' \in {"review", "done"}
          /\ repo' = repo \/ (repo # NoRepo /\ repo' = pushed)
      BY <1>4, RepoTold DEF PushConfig, RepoInv
    <2>2. repo # NoRepo => /\ pushed # NoRepo /\ pushed.config = Ordered
                           /\ pushed.review = repo.review
      <3>1. Ordered \in Config
        BY DEF Ordered, Config, RepoInv, RepoTypeOK, Order
      <3>. QED
        BY <1>0, <3>1, NoRepoAssumption DEF Repo
    <2>3. Ordered' = Ordered
      BY <2>1 DEF Ordered
    <2>. QED
      BY <2>1, <2>2, <2>3 DEF RepoKept
  <1>5. CASE PushReview
    <2> DEFINE pushed == [repo EXCEPT !.review = TRUE]
    <2>1. /\ pc = "review" /\ ctype = "create" /\ ctype' = ctype
          /\ UNCHANGED <<prior, order, ids>> /\ pc' = "done"
          /\ repo' = repo \/ (repo # NoRepo /\ repo' = pushed)
      BY <1>5, RepoTold DEF PushReview, RepoInv
    <2>2. repo # NoRepo => pushed # NoRepo /\ pushed.config = repo.config /\ pushed.review
      BY <1>0, NoRepoAssumption DEF Repo
    <2>3. Ordered' = Ordered
      BY <2>1 DEF Ordered
    <2>. QED
      BY <2>1, <2>2, <2>3 DEF RepoKept
  <1>6. CASE DeleteProject
    <2>1. /\ pc = "delete" /\ ctype = "delete" /\ ctype' = ctype /\ UNCHANGED <<prior, order, ids>>
          /\ pc' = "done" /\ repo' \in {repo, NoRepo}
      BY <1>6, RepoTold DEF DeleteProject, RepoInv
    <2>2. Ordered' = Ordered
      BY <2>1 DEF Ordered
    <2>. QED
      BY <2>1, <2>2 DEF RepoKept
  <1>7. CASE ByHand(repo, Repo \union {NoRepo}) /\ UNCHANGED <<order, ids, prior>>
    BY <1>7 DEF ByHand, callVars, RepoKept
  <1>8. CASE Killed
    BY <1>8 DEF Killed, Raise, RepoKept
  <1>. QED
    BY <1>1, <1>2, <1>3, <1>4, <1>5, <1>6, <1>7, <1>8 DEF RepoNext

LEMMA RepoCalmlyTold ==
    ASSUME NEW valid \in BOOLEAN, NEW effect, NEW next, NEW raised,
           Tell(repo, valid, effect, next, raised)
    PROVE  calm' => /\ calm /\ pc' = next /\ ctype' = ctype
                    /\ valid => repo' = effect /\ (logs' <=> logs)
                    /\ ~valid => repo' = repo /\ logs'
  BY DEF Tell, GoOn, Log, Raise

LEMMA RepoKeeps ==
    ASSUME RepoInv, RepoCalm, CallTypeOK, RepoNext, RepoInv'
    PROVE  RepoCalm'
  <1>0. ctype \in {"create", "update", "delete"} /\ (repo # NoRepo => repo \in Repo)
    BY DEF CallTypeOK, RepoInv, RepoTypeOK
  <1>1. ASSUME NEW c \in {"create", "update", "delete"}, NEW o \in Order, CallRepo(c, o)
        PROVE  RepoCalm'
    BY <1>1 DEF CallRepo, Call, RepoCalm
  <1>2. CASE CreateProject
    <2> DEFINE born == [config |-> [acl |-> Plain, desc |-> order.desc, groups |-> {}, found |-> {}],
                        review |-> FALSE]
    <2>1. pc = "project" /\ ctype = "create" /\ UNCHANGED prior
          /\ (calm' => /\ calm /\ pc' = "ids" /\ ctype' = ctype
                       /\ repo = NoRepo => repo' = born /\ (logs' <=> logs)
                       /\ repo # NoRepo => repo' = repo /\ logs')
      BY <1>2, RepoCalmlyTold DEF CreateProject, RepoInv
    <2>2. born # NoRepo
      <3>1. born \in Repo
        BY DEF Repo, Config, RepoInv, RepoTypeOK, Order
      <3>. QED
        BY <3>1, NoRepoAssumption
    <2>. QED
      BY <2>1, <2>2 DEF RepoCalm
  <1>3. CASE FindIds
    <2>1. /\ pc = "ids" /\ ctype \in {"create", "update"} /\ UNCHANGED <<repo, prior, ctype>>
          /\ calm' => calm /\ pc' = "config" /\ (logs' <=> logs)
      BY <1>3 DEF FindIds, GoOn, Raise, RepoInv
    <2>. QED
      BY <2>1 DEF RepoCalm
  <1>4. CASE PushConfig
    <2> DEFINE pushed == [repo EXCEPT !.config = Ordered]
    <2>1. pc = "config" /\ ctype \in {"create", "update"} /\ UNCHANGED <<prior, order, ids>>
          /\ (calm' => /\ calm /\ pc' = (IF ctype = "create" THEN "review" ELSE "done") /\ ctype' = ctype
                       /\ repo # NoRepo => repo' = pushed /\ (logs' <=> logs)
                       /\ repo = NoRepo => repo' = repo /\ logs')
      BY <1>4, RepoCalmlyTold DEF PushConfig, RepoInv
    <2>2. repo # NoRepo => pushed # NoRepo /\ pushed.config = Ordered
      <3>1. Ordered \in Config
        BY DEF Ordered, Config, RepoInv, RepoTypeOK, Order
      <3>. QED
        BY <1>0, <3>1, NoRepoAssumption DEF Repo
    <2>3. Ordered' = Ordered
      BY <2>1 DEF Ordered
    <2>4. CASE ctype = "create"
      BY <2>1, <2>2, <2>3, <2>4 DEF RepoCalm
    <2>5. CASE ctype = "update"
      BY <2>1, <2>2, <2>3, <2>5 DEF RepoCalm
    <2>. QED
      BY <2>1, <2>4, <2>5
  <1>5. CASE PushReview
    <2> DEFINE pushed == [repo EXCEPT !.review = TRUE]
    <2>1. pc = "review" /\ ctype = "create" /\ UNCHANGED <<prior, order, ids>>
          /\ (calm' => /\ calm /\ pc' = "done" /\ ctype' = ctype
                       /\ repo # NoRepo => repo' = pushed /\ (logs' <=> logs)
                       /\ repo = NoRepo => repo' = repo /\ logs')
      BY <1>5, RepoCalmlyTold DEF PushReview, RepoInv
    <2>2. repo # NoRepo => pushed # NoRepo /\ pushed.config = repo.config /\ pushed.review
      BY <1>0, NoRepoAssumption DEF Repo
    <2>3. Ordered' = Ordered
      BY <2>1 DEF Ordered
    <2>. QED
      BY <2>1, <2>2, <2>3 DEF RepoCalm
  <1>6. CASE DeleteProject
    <2>1. pc = "delete" /\ ctype = "delete" /\ UNCHANGED prior
          /\ (calm' => /\ calm /\ pc' = "done" /\ ctype' = ctype
                       /\ repo # NoRepo => (logs' <=> logs)
                       /\ repo = NoRepo => logs')
      BY <1>6, RepoCalmlyTold DEF DeleteProject, RepoInv
    <2>. QED
      BY <2>1 DEF RepoCalm
  <1>7. CASE ByHand(repo, Repo \union {NoRepo}) /\ UNCHANGED <<order, ids, prior>>
    BY <1>7, <1>0 DEF ByHand, callVars, RepoCalm
  <1>8. CASE Killed
    BY <1>8 DEF Killed, Raise, RepoCalm
  <1>. QED
    BY <1>1, <1>2, <1>3, <1>4, <1>5, <1>6, <1>7, <1>8 DEF RepoNext

-----------------------------------------------------------------------------
(* Projects.                                                                *)

\* What is still to be done is what still differs; an exception ends the
\* callback, so nothing has failed before the end.
ProjectInv ==
    /\ ProjectTypeOK
    /\ pc = "sync" => board.there
    /\ pc = "sync" /\ ctype = "delete" =>
          ahead.sync = {} /\ ahead.put = {} /\ board.within \subseteq ahead.drop
    /\ pc = "sync" /\ ctype # "delete" =>
          /\ \A r \in sources \ ahead.sync : board.notes[r] = note[r]
          /\ (board.within \ ahead.drop) \union ahead.put = sources
          /\ ahead.drop \intersect sources = {}
    /\ pc = "list" => board.there
    /\ pc = "done" /\ ~logs =>
          IF ctype = "delete" THEN ~board.there
          ELSE board.there /\ board.within = sources /\ \A r \in sources : board.notes[r] = note[r]

LEMMA BoardTold ==
    ASSUME NEW effect, NEW next, NEW raised, CallTypeOK, Tell(board, TRUE, effect, next, raised)
    PROVE  /\ CallTypeOK' /\ UNCHANGED <<kind, ctype>>
           /\ board' \in {board, effect}
           /\ \/ pc' = next /\ board' = effect
              \/ pc' = raised /\ logs'
  BY DEF Tell, GoOn, Log, Raise, CallTypeOK

\* The board may be changed in each of the ways a call changes it.
LEMMA BoardFields ==
    ASSUME ProjectTypeOK
    PROVE  /\ [board EXCEPT !.there = TRUE] \in Board
           /\ \A r \in Repos : [board EXCEPT !.notes[r] = note[r]] \in Board
           /\ \A r \in Repos : board.there /\ board.notes[r] # NoNote =>
                 [board EXCEPT !.within = @ \union {r}] \in Board
           /\ \A r \in Repos : [board EXCEPT !.within = @ \ {r}] \in Board
           /\ board.within = {} => [board EXCEPT !.there = FALSE] \in Board
  <1> DEFINE Raw == [there: BOOLEAN, within: SUBSET Repos, notes: [Repos -> Texts \union {NoNote}]]
             Sound(b) == \A r \in b.within : b.there /\ b.notes[r] # NoNote
  <1>1. board \in Raw /\ Sound(board) /\ note \in [Repos -> Texts]
    BY DEF ProjectTypeOK, Board
  <1>2. \A b \in Raw : Sound(b) => b \in Board
    BY DEF Board
  <1>3. [board EXCEPT !.there = TRUE] \in Board
    BY <1>1, <1>2
  <1>4. ASSUME NEW r \in Repos PROVE [board EXCEPT !.notes[r] = note[r]] \in Board
    <2> DEFINE text == [board.notes EXCEPT ![r] = note[r]]
               told == [board EXCEPT !.notes[r] = note[r]]
    <2>1. note[r] # NoNote /\ note[r] \in Texts
      BY <1>1, NoNoteAssumption
    <2>2. text \in [Repos -> Texts \union {NoNote}]
      BY <1>1, <2>1
    <2>3. told \in Raw /\ told.notes = text /\ told.there = board.there /\ told.within = board.within
      BY <1>1, <2>2
    <2>4. \A q \in Repos : text[q] = IF q = r THEN note[r] ELSE board.notes[q]
      BY <1>1
    <2>5. Sound(told)
      BY <1>1, <2>1, <2>3, <2>4
    <2>. QED
      BY <1>2, <2>3, <2>5
  <1>5. ASSUME NEW r \in Repos, board.there, board.notes[r] # NoNote
        PROVE  [board EXCEPT !.within = @ \union {r}] \in Board
    BY <1>1, <1>2, <1>5
  <1>6. ASSUME NEW r \in Repos PROVE [board EXCEPT !.within = @ \ {r}] \in Board
    BY <1>1, <1>2
  <1>7. ASSUME board.within = {} PROVE [board EXCEPT !.there = FALSE] \in Board
    BY <1>1, <1>2, <1>7
  <1>. QED
    BY <1>3, <1>4, <1>5, <1>6, <1>7

LEMMA ProjectStep ==
    ASSUME ProjectInv, CallTypeOK, ProjectNext
    PROVE  ProjectInv' /\ CallTypeOK'
  <1> DEFINE Ahead == [sync: SUBSET Repos, put: SUBSET Repos, drop: SUBSET Repos]
  <1>. USE DEF ProjectInv, ProjectTypeOK
  <1>1. ASSUME NEW c \in {"create", "update", "delete"}, NEW rs \in SUBSET Repos,
               NEW n \in [Repos -> Texts], CallProject(c, rs, n)
        PROVE  ProjectInv' /\ CallTypeOK'
    BY <1>1 DEF CallProject, Call, CallTypeOK, NothingAhead
  <1>2. CASE FindGroup
    <2> DEFINE made == [board EXCEPT !.there = TRUE]
    <2>1. made \in Board /\ made.there
      BY BoardFields DEF Board
    <2>2. /\ pc = "group" /\ UNCHANGED <<sources, note, ahead, past, kind, ctype>> /\ CallTypeOK'
          /\ board' \in {board, made}
          /\ \/ pc' = "list" /\ (board' = made \/ board'.there)
             \/ pc' = "done" /\ logs'
      BY <1>2 DEF FindGroup, Tell, GoOn, Log, Raise, CallTypeOK
    <2>. QED
      BY <2>1, <2>2
  <1>3. CASE ListIncluded
    <2>1. /\ pc = "list" /\ UNCHANGED <<board, sources, note, past, kind, ctype>> /\ CallTypeOK'
          /\ \/ /\ pc' = "sync"
                /\ ahead' = IF ctype = "delete"
                            THEN [sync |-> {}, put |-> {}, drop |-> board.within]
                            ELSE [sync |-> sources, put |-> sources \ board.within,
                                  drop |-> board.within \ sources]
             \/ pc' = "done" /\ logs' /\ UNCHANGED ahead
      BY <1>3 DEF ListIncluded, GoOn, Raise, CallTypeOK, NothingAhead
    <2>2. board.within \in SUBSET Repos
      BY DEF Board
    <2>3. ahead' \in Ahead
      BY <2>1, <2>2
    <2>. QED
      BY <2>1, <2>2, <2>3
  <1>4. ASSUME NEW r \in Repos, SyncProject(r) PROVE ProjectInv' /\ CallTypeOK'
    <2> DEFINE told == [board EXCEPT !.notes[r] = note[r]]
    <2>1. /\ told \in Board /\ told.there = board.there /\ told.within = board.within
          /\ told.notes[r] = note[r] /\ \A q \in Repos \ {r} : told.notes[q] = board.notes[q]
      <3>1. told \in Board
        BY BoardFields
      <3>2. board.notes \in [Repos -> Texts \union {NoNote}] /\ told.notes = [board.notes EXCEPT ![r] = note[r]]
        BY DEF Board
      <3>3. told.there = board.there /\ told.within = board.within
        BY DEF Board
      <3>. QED
        BY <3>1, <3>2, <3>3
    <2>2. /\ pc = "sync" /\ r \in ahead.sync /\ UNCHANGED <<sources, note, past, kind, ctype>>
          /\ CallTypeOK' /\ ahead' = [ahead EXCEPT !.sync = @ \ {r}]
          /\ board' \in {board, told}
          /\ (pc' = "sync" /\ board' = told) \/ (pc' = "done" /\ logs')
      BY <1>4, BoardTold DEF SyncProject
    <2>3. /\ ahead' \in Ahead /\ ahead'.sync = ahead.sync \ {r}
          /\ ahead'.put = ahead.put /\ ahead'.drop = ahead.drop
      BY <2>2
    <2>. QED
      BY <2>1, <2>2, <2>3
  <1>5. ASSUME NEW r \in Repos, PutProject(r) PROVE ProjectInv' /\ CallTypeOK'
    <2> DEFINE more == [board EXCEPT !.within = @ \union {r}]
    <2>1. /\ pc = "sync" /\ ahead.sync = {} /\ r \in ahead.put
          /\ UNCHANGED <<sources, note, past, kind, ctype>>
          /\ CallTypeOK' /\ ahead' = [ahead EXCEPT !.put = @ \ {r}]
          /\ board' \in {board, more}
          /\ (pc' = "sync" /\ board' = more) \/ (pc' = "done" /\ logs')
      BY <1>5, BoardTold DEF PutProject
    <2>2. board.there /\ r \in sources /\ board.notes[r] # NoNote
      BY <2>1, NoNoteAssumption
    <2>3. /\ more \in Board /\ more.there = board.there /\ more.notes = board.notes
          /\ more.within = board.within \union {r}
      BY <2>2, BoardFields DEF Board
    <2>4. /\ ahead' \in Ahead /\ ahead'.put = ahead.put \ {r}
          /\ ahead'.sync = ahead.sync /\ ahead'.drop = ahead.drop
      BY <2>1
    <2>5. ProjectTypeOK'
      BY <2>1, <2>3, <2>4
    <2>6. ctype # "delete"
      BY <2>1
    <2>7. ASSUME pc' = "sync"
          PROVE  /\ (board'.within \ ahead'.drop) \union ahead'.put = sources
                 /\ ahead'.drop \intersect sources = {}
                 /\ \A q \in sources \ ahead'.sync : board'.notes[q] = note[q]
      <3>1. /\ board' = more /\ r \notin ahead.drop
            /\ (board.within \ ahead.drop) \union ahead.put = sources
        BY <2>1, <2>2, <2>6, <2>7
      <3>. QED
        BY <2>1, <2>3, <2>4, <2>6, <3>1
    <2>. QED
      BY <2>1, <2>2, <2>3, <2>5, <2>6, <2>7
  <1>6. ASSUME NEW r \in Repos, DropProject(r) PROVE ProjectInv' /\ CallTypeOK'
    <2> DEFINE less == [board EXCEPT !.within = @ \ {r}]
    <2>1. /\ pc = "sync" /\ ahead.sync = {} /\ ahead.put = {} /\ r \in ahead.drop
          /\ UNCHANGED <<sources, note, past, kind, ctype>>
          /\ CallTypeOK' /\ ahead' = [ahead EXCEPT !.drop = @ \ {r}]
          /\ board' \in {board, less}
          /\ (pc' = "sync" /\ board' = less) \/ (pc' = "done" /\ logs')
      BY <1>6, BoardTold DEF DropProject
    <2>2. /\ less \in Board /\ less.there = board.there /\ less.notes = board.notes
          /\ less.within = board.within \ {r}
      BY BoardFields DEF Board
    <2>3. /\ ahead' \in Ahead /\ ahead'.drop = ahead.drop \ {r}
          /\ ahead'.sync = ahead.sync /\ ahead'.put = ahead.put
      BY <2>1
    <2>4. ProjectTypeOK'
      BY <2>1, <2>2, <2>3
    <2>5. ASSUME pc' = "sync", ctype # "delete"
          PROVE  /\ (board'.within \ ahead'.drop) \union ahead'.put = sources
                 /\ ahead'.drop \intersect sources = {}
                 /\ \A q \in sources \ ahead'.sync : board'.notes[q] = note[q]
      <3>1. /\ board' = less /\ r \notin sources
            /\ (board.within \ ahead.drop) \union ahead.put = sources
        BY <2>1, <2>5
      <3>. QED
        BY <2>1, <2>2, <2>3, <2>5, <3>1
    <2>6. ASSUME pc' = "sync", ctype = "delete"
          PROVE  ahead'.sync = {} /\ ahead'.put = {} /\ board'.within \subseteq ahead'.drop
      BY <2>1, <2>2, <2>3, <2>6
    <2>7. pc' = "sync" => board'.there
      BY <2>1, <2>2
    <2>. QED
      BY <2>1, <2>4, <2>5, <2>6, <2>7
  <1>7. CASE AllDone
    <2> DEFINE left2 == [board EXCEPT !.there = FALSE]
    <2>1. /\ pc = "sync" /\ pc' = "done" /\ ahead = NothingAhead
          /\ UNCHANGED <<sources, note, ahead, past, kind, ctype>> /\ CallTypeOK'
          /\ IF ctype = "delete" THEN board' \in {board, left2} /\ (~logs' => board' = left2)
             ELSE UNCHANGED board
      BY <1>7 DEF AllDone, Tell, GoOn, Log, Raise, CallTypeOK
    <2>2. CASE ctype = "delete"
      <3>1. board.within = {}
        BY <2>1, <2>2 DEF NothingAhead
      <3>2. left2 \in Board /\ ~left2.there
        BY <3>1, BoardFields DEF Board
      <3>. QED
        BY <2>1, <2>2, <3>2
    <2>3. CASE ctype # "delete"
      BY <2>1, <2>3 DEF NothingAhead
    <2>. QED
      BY <2>2, <2>3
  <1>8. CASE ByHand(board, Board) /\ UNCHANGED <<sources, note, ahead, past>>
    BY <1>8 DEF ByHand, callVars, CallTypeOK
  <1>9. CASE Killed /\ ahead' = NothingAhead /\ past' = board /\ UNCHANGED <<board, sources, note>>
    BY <1>9 DEF Killed, Raise, CallTypeOK, NothingAhead
  <1>. QED
    BY <1>1, <1>2, <1>3, <1>4, <1>5, <1>6, <1>7, <1>8, <1>9 DEF ProjectNext

\* What a callback has left alone wherever it is, whatever fails.
ProjectKept ==
    pc # "idle" =>
        /\ pc = "group" => (board.there <=> past.there)
        /\ ctype # "delete" /\ past.there => board.there
        /\ ctype = "delete" /\ ~past.there => ~board.there
        /\ pc = "sync" => ahead.sync \subseteq sources
        /\ pc \in {"group", "list"} \/ (pc = "sync" /\ ahead.sync # {}) => board.within = past.within
        /\ ctype # "delete" => past.within \intersect sources \subseteq board.within
        /\ ctype # "delete" /\ board.within # past.within =>
              \A r \in sources : board.notes[r] = note[r]
        /\ \A r \in Repos \ sources : board.notes[r] = past.notes[r]

\* How far a callback has come on a Storyboard that works.
ProjectCalm ==
    calm => /\ pc = "group" => ~logs /\ board = past
            /\ pc \in {"list", "sync"} => ~logs /\ (ctype = "delete" => past.there)
            /\ pc = "done" => (logs <=> ctype = "delete" /\ ~past.there)

LEMMA BoardCalmlyTold ==
    ASSUME NEW effect, NEW next, NEW raised, Tell(board, TRUE, effect, next, raised)
    PROVE  /\ ctype' = ctype /\ pc' \in {next, raised} /\ board' \in {board, effect}
           /\ calm' => calm /\ pc' = next /\ board' = effect /\ (logs' <=> logs)
           /\ pc' = next \/ pc' = raised
  BY DEF Tell, GoOn, Log, Raise

LEMMA ProjectKeeps ==
    ASSUME ProjectInv, ProjectKept, ProjectCalm, ProjectNext, ProjectInv'
    PROVE  ProjectKept' /\ ProjectCalm'
  <1>0. /\ board.within \subseteq Repos /\ board.notes \in [Repos -> Texts \union {NoNote}]
        /\ board \in [there: BOOLEAN, within: SUBSET Repos, notes: [Repos -> Texts \union {NoNote}]]
        /\ ahead \in [sync: SUBSET Repos, put: SUBSET Repos, drop: SUBSET Repos]
    BY DEF ProjectInv, ProjectTypeOK, Board
  <1>1. ASSUME NEW c \in {"create", "update", "delete"}, NEW rs \in SUBSET Repos,
               NEW n \in [Repos -> Texts], CallProject(c, rs, n)
        PROVE  ProjectKept' /\ ProjectCalm'
    BY <1>1 DEF CallProject, Call, ProjectKept, ProjectCalm
  <1>2. CASE FindGroup
    <2> DEFINE made == [board EXCEPT !.there = TRUE]
    <2>1. /\ pc = "group" /\ pc' \in {"list", "done"} /\ UNCHANGED <<sources, note, ahead, past, ctype>>
          /\ board' \in {board, made} /\ (ctype = "delete" => board' = board)
          /\ calm' => /\ calm
                      /\ \/ pc' = "list" /\ (logs' <=> logs) /\ (ctype = "delete" => board.there)
                         \/ pc' = "done" /\ logs' /\ ctype = "delete" /\ ~board.there
      BY <1>2 DEF FindGroup, Tell, GoOn, Log, Raise
    <2>2. made.within = board.within /\ made.notes = board.notes /\ made.there
      BY <1>0
    <2>3. /\ board'.within = board.within /\ board'.notes = board.notes
          /\ board.there => board'.there
      BY <2>1, <2>2
    <2>4. ProjectKept'
      BY <2>1, <2>3 DEF ProjectKept
    <2>5. ProjectCalm'
      BY <2>1 DEF ProjectCalm
    <2>. QED
      BY <2>4, <2>5
  <1>3. CASE ListIncluded
    <2>1. /\ pc = "list" /\ pc' \in {"sync", "done"} /\ UNCHANGED <<board, sources, note, past, ctype>>
          /\ pc' = "sync" => ahead'.sync \subseteq sources
          /\ calm' => calm /\ pc' = "sync" /\ (logs' <=> logs)
      BY <1>3 DEF ListIncluded, GoOn, Raise, NothingAhead
    <2>2. ProjectKept'
      BY <2>1 DEF ProjectKept
    <2>3. ProjectCalm'
      BY <2>1 DEF ProjectCalm
    <2>. QED
      BY <2>2, <2>3
  <1>4. ASSUME NEW r \in Repos, SyncProject(r) PROVE ProjectKept' /\ ProjectCalm'
    <2> DEFINE told == [board EXCEPT !.notes[r] = note[r]]
    <2>1. /\ pc = "sync" /\ r \in ahead.sync /\ pc' \in {"sync", "done"}
          /\ UNCHANGED <<sources, note, past, ctype>>
          /\ ahead'.sync = ahead.sync \ {r}
          /\ board' \in {board, told}
          /\ calm' => calm /\ pc' = "sync" /\ (logs' <=> logs)
      BY <1>0, <1>4, BoardCalmlyTold DEF SyncProject
    <2>2. /\ told.within = board.within /\ told.there = board.there
          /\ \A q \in Repos : q # r => told.notes[q] = board.notes[q]
      BY <1>0
    <2>3. r \in sources /\ ahead.sync \subseteq sources /\ board.within = past.within
      BY <2>1 DEF ProjectKept
    <2>4. board'.within = past'.within /\ board'.there = board.there /\ \A q \in Repos : q # r => board'.notes[q] = board.notes[q]
      BY <2>1, <2>2, <2>3
    <2>5. ProjectKept'
      BY <2>1, <2>3, <2>4 DEF ProjectKept
    <2>6. ProjectCalm'
      BY <2>1 DEF ProjectCalm
    <2>. QED
      BY <2>5, <2>6
  \* Projects join or leave when all of the tree have their descriptions.
  <1>5. ASSUME NEW r \in Repos, PutProject(r) \/ DropProject(r)
        PROVE  ProjectKept' /\ ProjectCalm'
    <2> DEFINE more == [board EXCEPT !.within = @ \union {r}]
               less == [board EXCEPT !.within = @ \ {r}]
    <2>1. /\ pc = "sync" /\ ahead.sync = {} /\ ahead'.sync = {} /\ pc' \in {"sync", "done"}
          /\ UNCHANGED <<sources, note, past, ctype>>
          /\ board' \in {board, more} \/ (r \in ahead.drop /\ board' \in {board, less})
          /\ calm' => calm /\ pc' = "sync" /\ (logs' <=> logs)
      <3>1. CASE PutProject(r)
        BY <1>0, <3>1, BoardCalmlyTold DEF PutProject
      <3>2. CASE DropProject(r)
        BY <1>0, <3>2, BoardCalmlyTold DEF DropProject
      <3>. QED
        BY <1>5, <3>1, <3>2
    <2>2. /\ more.within = board.within \union {r} /\ more.notes = board.notes
          /\ less.within = board.within \ {r} /\ less.notes = board.notes
          /\ more.there = board.there /\ less.there = board.there
      BY <1>0
    <2>3. ctype # "delete" => /\ \A q \in sources : board.notes[q] = note[q]
                              /\ r \in ahead.drop => r \notin sources
      BY <2>1 DEF ProjectInv
    <2>4. /\ board'.notes = board.notes /\ board'.there = board.there
          /\ ctype # "delete" => board.within \intersect sources \subseteq board'.within
      BY <2>1, <2>2, <2>3
    <2>5. ProjectKept'
      BY <2>1, <2>3, <2>4 DEF ProjectKept
    <2>6. ProjectCalm'
      BY <2>1 DEF ProjectCalm
    <2>. QED
      BY <2>5, <2>6
  <1>6. CASE AllDone
    <2> DEFINE gone == [board EXCEPT !.there = FALSE]
    <2>1. /\ pc = "sync" /\ pc' = "done" /\ UNCHANGED <<sources, note, past, ctype>>
          /\ board' \in {board, gone} /\ (ctype # "delete" => board' = board)
          /\ board.there
          /\ calm' => calm /\ (logs' <=> logs)
      BY <1>6 DEF AllDone, Tell, GoOn, Log, Raise, ProjectInv
    <2>2. gone.within = board.within /\ gone.notes = board.notes
      BY <1>0
    <2>3. board'.within = board.within /\ board'.notes = board.notes
      BY <2>1, <2>2
    <2>4. ProjectKept'
      BY <2>1, <2>3 DEF ProjectKept
    <2>5. ProjectCalm'
      BY <2>1 DEF ProjectCalm
    <2>. QED
      BY <2>4, <2>5
  <1>7. CASE ByHand(board, Board) /\ UNCHANGED <<sources, note, ahead, past>>
    BY <1>7 DEF ByHand, callVars, ProjectKept, ProjectCalm
  <1>8. CASE Killed
    BY <1>8 DEF Killed, Raise, ProjectKept, ProjectCalm
  <1>. QED
    BY <1>1, <1>2, <1>3, <1>4, <1>5, <1>6, <1>7, <1>8 DEF ProjectNext

-----------------------------------------------------------------------------
(* What the engine takes an object for.                                     *)

\* Debris is neither nothing nor a content, and tells what left it.
LEMMA HalvesApart ==
    ASSUME NEW contents, Absent \notin contents \union Halves(contents),
           NEW b \in Ctypes, NEW c \in {Absent} \union contents
    PROVE  Half(b, c) # Absent /\ Half(b, c) \in States(contents)
  <1>1. Half(b, c) \in Halves(contents)
    BY DEF Half, Halves
  <1>. QED
    BY <1>1 DEF States

LEMMA HalvesDiffer ==
    \A b, c, e, d : Half(b, c) = Half(e, d) => b = e /\ c = d
  <1>. SUFFICES ASSUME NEW b, NEW c, NEW e, NEW d, Half(b, c) = Half(e, d) PROVE b = e /\ c = d
    OBVIOUS
  <1>1. Half(b, c).by = b /\ Half(b, c).half = c /\ Half(e, d).by = e /\ Half(e, d).half = d
    BY DEF Half
  <1>. QED
    BY <1>1

LEMMA HalfNoContent ==
    \A b, c : Half(b, c) \notin GroupContent /\ Half(b, c) \notin Config /\ Half(b, c) \notin BoardContent
  <1>. SUFFICES ASSUME NEW b, NEW c
                PROVE  Half(b, c) \notin GroupContent /\ Half(b, c) \notin Config /\ Half(b, c) \notin BoardContent
    OBVIOUS
  <1>1. DOMAIN Half(b, c) = {"half", "by"}
    BY DEF Half
  <1>2. \A v \in GroupContent : DOMAIN v = {"desc", "members"}
    BY DEF GroupContent
  <1>3. \A v \in Config : DOMAIN v = {"acl", "desc", "groups", "found"}
    BY DEF Config
  <1>4. \A v \in BoardContent : DOMAIN v = {"within", "notes"}
    BY DEF BoardContent
  <1>5. "half" \notin {"desc", "members"} /\ "half" \notin {"acl", "desc", "groups", "found"}
        /\ "half" \notin {"within", "notes"}
    OBVIOUS
  <1>. QED
    BY <1>1, <1>2, <1>3, <1>4, <1>5

\* What a callback cut short has left, the same callback completes when it is sent
\* again and not disturbed; but for the creation of a group over one that is not
\* its own, and for the update of what is not there, which cannot succeed at all.
THEOREM RepeatingRepairs ==
    ASSUME NEW type, NEW ctyp \in Ctypes, NEW now, NEW goal,
           ctyp = "delete" <=> goal = Absent, \A b \in Ctypes : Half(b, goal) # Absent,
           ctyp = "update" /\ type \in {"groups", "repos"} => now # Absent,
           ctyp = "create" /\ type = "groups" => now = Absent \/ OwnCreation(now, goal),
           NEW x \in Debris(type, ctyp, now, goal)
    PROVE  End(type, ctyp, x, goal).now = goal
  <1>1. \E b \in Ctypes : x \in {now, End(type, ctyp, now, goal).now, Half(b, goal)}
    BY DEF Debris, Ctypes
  <1>2. CASE type = "groups"
    <2>1. End(type, ctyp, now, goal).now = goal
      BY <1>2 DEF End, GroupEnd, Ctypes
    <2>2. CASE ctyp = "create"
      <3>1. x \in {now, goal, Half("create", goal)}
        BY <1>2, <2>1, <2>2 DEF Debris
      <3>2. x = Absent \/ OwnCreation(x, goal)
        BY <1>2, <2>2, <3>1 DEF OwnCreation
      <3>. QED
        BY <1>2, <2>2, <3>2 DEF End, GroupEnd
    <2>3. CASE ctyp = "update"
      <3>1. x # Absent
        BY <1>1, <1>2, <2>1, <2>3
      <3>. QED
        BY <1>2, <2>3, <3>1 DEF End, GroupEnd
    <2>4. CASE ctyp = "delete"
      BY <1>2, <2>4 DEF End, GroupEnd
    <2>. QED
      BY <2>2, <2>3, <2>4 DEF Ctypes
  <1>3. CASE type = "repos"
    <2>1. End(type, ctyp, now, goal).now = goal
      BY <1>3 DEF End, RepoEnd, Ctypes
    <2>2. ctyp = "update" => x # Absent
      BY <1>1, <1>3, <2>1
    <2>. QED
      BY <1>3, <2>2 DEF End, RepoEnd, Ctypes
  <1>4. CASE type \notin {"groups", "repos"}
    BY <1>4 DEF End, ProjectEnd
  <1>. QED
    BY <1>2, <1>3, <1>4

\* What the engine may take a group for.
LEMMA GroupTaken ==
    ASSUME NEW g, NEW w \in GroupContent
    PROVE  /\ Granted(g, w) => GroupIs(g, w) /\ Begun(g, w)
           /\ Begun(g, w) => GroupIs(g, Half("create", w))
           /\ g # NoGroup =>
                 \A b \in {"update", "delete"}, c \in {Absent} \union GroupContent : GroupIs(g, Half(b, c))
           /\ GroupIs(NoGroup, Absent)
  <1>1. Absent \notin GroupContent /\ w # Absent
    BY GroupContentAssumption
  <1>2. \A b \in Ctypes, c \in {Absent} \union GroupContent : Half(b, c) # Absent
    BY HalvesApart, GroupContentAssumption
  <1>3. \A b \in Ctypes : \A c : Half(b, c) \notin GroupContent
    BY HalfNoContent
  <1>4. \A c, v \in GroupContent : c # Half("create", v) \/ c \notin GroupContent
    BY HalfNoContent
  <1>5. ASSUME Granted(g, w) PROVE GroupIs(g, w) /\ Begun(g, w)
    BY <1>1, <1>4, <1>5 DEF GroupIs, Granted, Begun
  <1>6. ASSUME Begun(g, w) PROVE GroupIs(g, Half("create", w))
    <2>1. \A v : Half("create", w) = Half("create", v) => v = w
      BY HalvesDiffer
    <2>. QED
      BY <1>2, <1>3, <1>6, <2>1 DEF GroupIs, Begun, Ctypes
  <1>7. ASSUME g # NoGroup, NEW b \in {"update", "delete"}, NEW c \in {Absent} \union GroupContent
        PROVE  GroupIs(g, Half(b, c))
    <2>1. \A v : Half(b, c) # Half("create", v)
      <3>1. b # "create"
        BY <1>7
      <3>. QED
        BY <3>1, HalvesDiffer
    <2>. QED
      BY <1>2, <1>3, <1>7, <2>1 DEF GroupIs, Ctypes
  <1>8. GroupIs(NoGroup, Absent)
    BY <1>1, <1>2 DEF GroupIs, Ctypes
  <1>. QED
    BY <1>5, <1>6, <1>7, <1>8

\* What the engine calls a group of its own creation is one that was begun.
LEMMA GroupOwn ==
    ASSUME NEW g, NEW w \in GroupContent, NEW v, GroupIs(g, v), OwnCreation(v, w)
    PROVE  Begun(g, w)
  <1>1. CASE v = w
    BY <1>1, GroupTaken DEF GroupIs
  <1>2. CASE v = Half("create", w)
    BY <1>2 DEF GroupIs
  <1>. QED
    BY <1>1, <1>2 DEF OwnCreation

\* An undisturbed callback on a group ends as the engine has it end.
LEMMA GroupEnds ==
    ASSUME CallTypeOK, GroupInv, GroupKept, GroupCalm, pc = "done", calm,
           NEW v \in States(GroupContent), GroupIs(was, v)
    PROVE  LET end == End("groups", ctype, v, GroupGoal)
           IN  GroupIs(group, end.now) /\ (logs <=> end.logs)
  <1> DEFINE end == End("groups", ctype, v, GroupGoal)
  <1>1. wish \in GroupContent /\ (v = Absent <=> was = NoGroup)
    BY DEF GroupInv, GroupTypeOK, GroupContent, GroupIs
  <1>2. end = GroupEnd(ctype, v, GroupGoal)
    BY DEF End
  <1>3. CASE ctype = "create" /\ v # Absent
    <2>1. logs /\ There /\ (Begun(was, wish) => Granted(group, wish))
      BY <1>1, <1>3 DEF GroupCalm, CalmCreating
    <2>2. end.logs = TRUE /\ end.now = IF OwnCreation(v, wish) THEN wish ELSE Half("update", wish)
      BY <1>2, <1>3 DEF GroupEnd, GroupGoal
    <2>3. CASE OwnCreation(v, wish)
      BY <1>1, <2>1, <2>2, <2>3, GroupOwn, GroupTaken
    <2>4. CASE ~OwnCreation(v, wish)
      BY <1>1, <2>1, <2>2, <2>4, GroupTaken DEF There
    <2>. QED
      BY <2>3, <2>4
  <1>4. CASE ctype = "create" /\ v = Absent
    <2>1. ~logs /\ Granted(group, wish)
      BY <1>1, <1>4 DEF GroupCalm, CalmCreating, GroupInv, Creating
    <2>2. end.logs = FALSE /\ end.now = wish
      BY <1>2, <1>4 DEF GroupEnd, GroupGoal
    <2>. QED
      BY <1>1, <2>1, <2>2, GroupTaken
  <1>5. CASE ctype # "create" /\ v = Absent
    <2>1. logs /\ group = NoGroup
      BY <1>1, <1>5 DEF GroupCalm, CalmChanging, GroupKept
    <2>2. end.logs = TRUE /\ end.now = Absent
      BY <1>2, <1>5 DEF GroupEnd
    <2>. QED
      BY <1>1, <2>1, <2>2, GroupTaken
  <1>6. CASE ctype # "create" /\ v # Absent
    <2>1. ~logs
      BY <1>1, <1>6 DEF GroupCalm, CalmChanging
    <2>2. end.logs = FALSE /\ end.now = GroupGoal
      BY <1>2, <1>6 DEF GroupEnd
    <2>3. CASE ctype = "update"
      BY <1>1, <2>1, <2>2, <2>3, GroupTaken DEF GroupInv, Updating, GroupGoal
    <2>4. CASE ctype = "delete"
      BY <1>1, <2>1, <2>2, <2>4, GroupTaken DEF GroupInv, GroupGoal
    <2>. QED
      BY <1>6, <2>1, <2>2, <2>3, <2>4 DEF CallTypeOK
  <1>. QED
    BY <1>3, <1>4, <1>5, <1>6

\* Wherever a callback on a group is, it has left what the engine calls debris.
LEMMA GroupDebris ==
    ASSUME CallTypeOK, GroupInv, GroupKept, pc # "idle",
           NEW v \in States(GroupContent), GroupIs(was, v)
    PROVE  \E x \in Debris("groups", ctype, v, GroupGoal) : GroupIs(group, x)
  <1> DEFINE debris == Debris("groups", ctype, v, GroupGoal)
  <1>1. wish \in GroupContent /\ wish # Absent /\ (v = Absent <=> was = NoGroup)
    BY GroupContentAssumption DEF GroupInv, GroupTypeOK, GroupContent, GroupIs
  <1>2. v \in debris
    BY DEF Debris
  <1>3. CASE ctype = "create" /\ v = Absent
    <2>1. Half("create", wish) \in debris
      BY <1>1, <1>3 DEF Debris, End, GroupEnd, GroupGoal
    <2>2. group = NoGroup \/ Begun(group, wish)
      BY <1>1, <1>3 DEF GroupKept
    <2>. QED
      BY <1>1, <1>2, <1>3, <2>1, <2>2, GroupTaken
  <1>4. CASE ctype = "create" /\ v # Absent
    <2>1. There
      BY <1>1, <1>4 DEF GroupKept
    <2>2. CASE OwnCreation(v, wish)
      <3>1. Half("create", wish) \in debris
        BY <1>1, <1>4, <2>2 DEF Debris, GroupGoal
      <3>2. Begun(group, wish)
        BY <1>1, <1>4, <2>2, GroupOwn DEF GroupKept
      <3>. QED
        BY <1>1, <3>1, <3>2, GroupTaken
    <2>3. CASE ~OwnCreation(v, wish)
      <3>1. Half("update", wish) \in debris
        BY <1>1, <1>4, <2>3 DEF Debris, GroupGoal
      <3>. QED
        BY <1>1, <2>1, <3>1, GroupTaken DEF There
    <2>. QED
      BY <2>2, <2>3
  <1>5. CASE ctype # "create" /\ v = Absent
    <2>1. group = NoGroup
      BY <1>1, <1>5 DEF GroupKept
    <2>. QED
      BY <1>1, <1>2, <1>5, <2>1, GroupTaken
  <1>6. CASE ctype = "update" /\ v # Absent
    <2>1. There /\ Half("update", wish) \in debris
      BY <1>1, <1>6 DEF GroupKept, Debris, GroupGoal
    <2>. QED
      BY <1>1, <2>1, GroupTaken DEF There
  <1>7. CASE ctype = "delete" /\ v # Absent
    <2>1. Absent \in debris /\ Half("delete", Absent) \in debris
      BY <1>7 DEF Debris, End, GroupEnd, GroupGoal
    <2>. QED
      BY <1>1, <2>1, GroupTaken DEF There
  <1>. QED
    BY <1>3, <1>4, <1>5, <1>6, <1>7 DEF CallTypeOK

\* What the engine may take a repository for.
LEMMA RepoTaken ==
    ASSUME NEW r
    PROVE  /\ r # NoRepo => \A c \in Config : r.config = c => RepoIs(r, c)
           /\ r # NoRepo => \A b \in Ctypes, c \in {Absent} \union Config : RepoIs(r, Half(b, c))
           /\ RepoIs(NoRepo, Absent)
  <1>1. Absent \notin Config
    BY ConfigAssumption
  <1>2. \A b \in Ctypes, c \in {Absent} \union Config : Half(b, c) # Absent
    BY HalvesApart, ConfigAssumption
  <1>3. \A b \in Ctypes : \A c : Half(b, c) \notin Config
    BY HalfNoContent
  <1>. QED
    BY <1>1, <1>2, <1>3 DEF RepoIs

\* An undisturbed callback on a repository ends as the engine has it end.
LEMMA RepoEnds ==
    ASSUME CallTypeOK, RepoInv, RepoKept, RepoCalm, pc = "done", calm,
           NEW v \in States(Config), RepoIs(prior, v)
    PROVE  LET end == End("repos", ctype, v, RepoGoal)
           IN  RepoIs(repo, end.now) /\ (logs <=> end.logs)
  <1> DEFINE end == End("repos", ctype, v, RepoGoal)
  <1>1. Ordered \in Config /\ (v = Absent <=> prior = NoRepo)
    BY DEF Ordered, Config, RepoInv, RepoTypeOK, Order, RepoIs
  <1>2. end = RepoEnd(ctype, v, RepoGoal)
    BY DEF End
  <1>3. CASE ctype = "create"
    <2>1. repo # NoRepo /\ repo.config = Ordered /\ (logs <=> prior # NoRepo)
      BY <1>3 DEF RepoCalm
    <2>2. end = [now |-> Ordered, logs |-> v # Absent]
      BY <1>2, <1>3 DEF RepoEnd, RepoGoal
    <2>3. end.now = Ordered /\ end.logs = (v # Absent)
      BY <2>2
    <2>. QED
      BY <1>1, <2>1, <2>3, RepoTaken
  <1>4. CASE ctype # "create" /\ v = Absent
    <2>1. repo = NoRepo /\ logs
      BY <1>1, <1>4 DEF RepoKept, RepoCalm, CallTypeOK
    <2>2. end.now = Absent /\ end.logs = TRUE
      BY <1>2, <1>4 DEF RepoEnd
    <2>. QED
      BY <2>1, <2>2, RepoTaken
  <1>5. CASE ctype # "create" /\ v # Absent
    <2>1. ~logs
      BY <1>1, <1>5 DEF RepoCalm, CallTypeOK
    <2>2. end = [now |-> RepoGoal, logs |-> FALSE]
      BY <1>2, <1>5 DEF RepoEnd
    <2>3. CASE ctype = "update"
      BY <1>1, <2>1, <2>2, <2>3, RepoTaken DEF RepoInv, RepoGoal
    <2>4. CASE ctype = "delete"
      BY <2>1, <2>2, <2>4, RepoTaken DEF RepoInv, RepoGoal
    <2>. QED
      BY <1>5, <2>1, <2>2, <2>3, <2>4 DEF CallTypeOK
  <1>. QED
    BY <1>3, <1>4, <1>5

\* Wherever a callback on a repository is, it has left what the engine calls debris.
LEMMA RepoDebris ==
    ASSUME CallTypeOK, RepoInv, RepoKept, pc # "idle", NEW v \in States(Config), RepoIs(prior, v)
    PROVE  \E x \in Debris("repos", ctype, v, RepoGoal) : RepoIs(repo, x)
  <1> DEFINE debris == Debris("repos", ctype, v, RepoGoal)
  <1>1. Ordered \in Config /\ Ordered # Absent /\ (v = Absent <=> prior = NoRepo)
    BY ConfigAssumption DEF Ordered, Config, RepoInv, RepoTypeOK, Order, RepoIs
  <1>2. v \in debris
    BY DEF Debris
  <1>3. CASE ctype = "create" /\ v = Absent
    <2>1. Half("create", Ordered) \in debris
      BY <1>1, <1>3 DEF Debris, End, RepoEnd, RepoGoal
    <2>. QED
      BY <1>1, <1>2, <1>3, <2>1, RepoTaken DEF Ctypes
  <1>4. CASE ctype \in {"create", "update"} /\ v # Absent
    <2>1. repo # NoRepo
      BY <1>1, <1>4 DEF RepoKept
    <2>2. \E b \in {"create", "update"} : Half(b, Ordered) \in debris
      BY <1>4 DEF Debris, RepoGoal
    <2>. QED
      BY <1>1, <2>1, <2>2, RepoTaken DEF Ctypes
  <1>5. CASE ctype # "create" /\ v = Absent
    <2>1. repo = NoRepo
      BY <1>1, <1>5 DEF RepoKept
    <2>. QED
      BY <1>2, <1>5, <2>1, RepoTaken
  <1>6. CASE ctype = "delete" /\ v # Absent
    <2>1. Absent \in debris /\ Half("delete", Absent) \in debris
      BY <1>6 DEF Debris, End, RepoEnd, RepoGoal
    <2>. QED
      BY <2>1, RepoTaken DEF Ctypes
  <1>. QED
    BY <1>3, <1>4, <1>5, <1>6 DEF CallTypeOK

\* What the engine may take a Storyboard project group for.
LEMMA BoardTaken ==
    ASSUME NEW b
    PROVE  /\ b.there => \A k \in Ctypes, c \in {Absent} \union BoardContent : BoardIs(b, Half(k, c))
           /\ ~b.there => BoardIs(b, Absent)
  <1>1. Absent \notin BoardContent
    BY BoardContentAssumption
  <1>2. \A k \in Ctypes, c \in {Absent} \union BoardContent : Half(k, c) # Absent
    BY HalvesApart, BoardContentAssumption
  <1>3. \A k \in Ctypes : \A c : Half(k, c) \notin BoardContent
    BY HalfNoContent
  <1>. QED
    BY <1>1, <1>2, <1>3 DEF BoardIs

LEMMA BoardGoalType ==
    ASSUME ProjectTypeOK, ctype # "delete"
    PROVE  /\ BoardGoal \in BoardContent /\ BoardGoal # Absent
           /\ BoardGoal.within = sources /\ \A r \in sources : BoardGoal.notes[r] = note[r]
  <1>1. [r \in sources |-> note[r]] \in [sources -> Texts] /\ sources \in SUBSET Repos
    BY DEF ProjectTypeOK
  <1>2. BoardGoal = [within |-> sources, notes |-> [r \in sources |-> note[r]]]
    BY DEF BoardGoal
  <1>3. BoardGoal \in [within: {sources}, notes: [sources -> Texts]]
    BY <1>1, <1>2
  <1>4. BoardGoal \in BoardContent
    BY <1>1, <1>3 DEF BoardContent
  <1>. QED
    BY <1>2, <1>4, BoardContentAssumption

\* An undisturbed callback on a project ends as the engine has it end.
LEMMA BoardEnds ==
    ASSUME CallTypeOK, ProjectInv, ProjectKept, ProjectCalm, pc = "done", calm,
           NEW v \in States(BoardContent), BoardIs(past, v)
    PROVE  LET end == End("projects", ctype, v, BoardGoal)
           IN  BoardIs(board, end.now) /\ (logs <=> end.logs)
  <1> DEFINE end == End("projects", ctype, v, BoardGoal)
  <1>1. /\ v = Absent <=> ~past.there
        /\ logs <=> ctype = "delete" /\ ~past.there
    BY DEF BoardIs, ProjectCalm
  <1>2. end.now = BoardGoal /\ (end.logs <=> ctype = "delete" /\ v = Absent)
    BY DEF End, ProjectEnd
  <1>3. BoardIs(board, BoardGoal)
    <2>1. CASE ctype = "delete"
      <3>1. ~board.there /\ BoardGoal = Absent
        BY <1>1, <2>1 DEF ProjectInv, ProjectKept, BoardGoal
      <3>. QED
        BY <3>1, BoardTaken
    <2>2. CASE ctype # "delete"
      <3>1. board.there /\ board.within = sources /\ \A r \in sources : board.notes[r] = note[r]
        BY <1>1, <2>2 DEF ProjectInv
      <3>. QED
        BY <2>2, <3>1, BoardGoalType DEF BoardIs, ProjectInv
    <2>. QED
      BY <2>1, <2>2
  <1>. QED
    BY <1>1, <1>2, <1>3

\* Wherever a callback on a project is, it has left what the engine calls debris.
LEMMA BoardDebris ==
    ASSUME CallTypeOK, ProjectInv, ProjectKept, pc # "idle",
           NEW v \in States(BoardContent), BoardIs(past, v)
    PROVE  \E x \in Debris("projects", ctype, v, BoardGoal) : BoardIs(board, x)
  <1> DEFINE debris == Debris("projects", ctype, v, BoardGoal)
  <1>1. v = Absent <=> ~past.there
    BY DEF BoardIs
  <1>2. v \in debris
    BY DEF Debris
  <1>3. CASE ctype # "delete" /\ (board.there \/ v # Absent)
    <2>1. BoardGoal \in BoardContent /\ BoardGoal # Absent
      BY <1>3, BoardGoalType DEF ProjectInv
    <2>2. board.there
      BY <1>1, <1>3 DEF ProjectKept
    <2>3. \E k \in {"create", "update"} : Half(k, BoardGoal) \in debris
      BY <1>3, <2>1 DEF Debris, End, ProjectEnd, CallTypeOK
    <2>. QED
      BY <2>1, <2>2, <2>3, BoardTaken DEF Ctypes
  <1>4. CASE v = Absent /\ ~board.there
    BY <1>2, <1>4, BoardTaken
  <1>5. CASE ctype = "delete" /\ v = Absent
    BY <1>1, <1>2, <1>5, BoardTaken DEF ProjectKept
  <1>6. CASE ctype = "delete" /\ v # Absent
    <2>1. Absent \in debris /\ Half("delete", Absent) \in debris
      BY <1>6 DEF Debris, End, ProjectEnd, BoardGoal
    <2>. QED
      BY <2>1, BoardTaken DEF Ctypes
  <1>. QED
    BY <1>3, <1>4, <1>5, <1>6

-----------------------------------------------------------------------------
(* All of them.                                                             *)

\* No step changes the kind of resource the run is about, and no failure of a
\* service goes unlogged.
LEMMA KindStays ==
    (GroupNext \/ RepoNext \/ ProjectNext) =>
        UNCHANGED kind /\ (calm \/ logs => calm' \/ logs')
  BY DEF GroupNext, CallGroup, MakeGroup, DropAdmin, List, AddMember, DeleteMember, Describe,
     ListSubgroups, DropSubgroup, LoopEnds, DeleteRows, RepoNext, CallRepo, CreateProject, FindIds,
     PushConfig, PushReview, DeleteProject, ProjectNext, CallProject, FindGroup, ListIncluded,
     SyncProject, PutProject, DropProject, AllDone, Call, Tell, GoOn, Log, Raise, ByHand, Killed, callVars

CallbacksInv ==
    /\ CallTypeOK /\ (calm \/ logs)
    /\ kind = "groups" => GroupInv /\ GroupKept /\ GroupCalm
    /\ kind = "repos" => RepoInv /\ RepoKept /\ RepoCalm
    /\ kind = "projects" => ProjectInv /\ ProjectKept /\ ProjectCalm

\* Callbacks keep the invariant behind the statements that follow, whichever of
\* them follow each other.
THEOREM CallbacksInvariant == Spec => []CallbacksInv
  <1>1. Init => CallbacksInv
    <2>. SUFFICES ASSUME Init PROVE CallbacksInv
      OBVIOUS
    <2>1. CallTypeOK /\ pc = "idle" /\ AnyText \in Texts
      BY TextsAssumption DEF Init, CallInit, CallTypeOK, AnyText
    <2>2. GroupInv
      BY <2>1 DEF Init, GroupInit, GroupInv, GroupTypeOK, GroupCalls, Creating, Updating, NothingLeft
    <2>3. RepoInv
      <3>1. order \in Order
        BY <2>1, AclsAssumption DEF Init, RepoInit, Order
      <3>. QED
        BY <2>1, <3>1 DEF Init, RepoInit, RepoInv, RepoTypeOK
    <2>4. ProjectInv
      BY <2>1 DEF Init, ProjectInit, ProjectInv, ProjectTypeOK, Board, NothingAhead
    <2>5. calm /\ ctype = "create" /\ GroupKept /\ GroupCalm /\ RepoKept /\ RepoCalm /\ ProjectKept /\ ProjectCalm
      BY <2>1 DEF Init, CallInit, GroupKept, GroupCalm, CalmCreating, RepoKept, RepoCalm, ProjectKept, ProjectCalm
    <2>. QED
      BY <2>1, <2>2, <2>3, <2>4, <2>5 DEF CallbacksInv
  <1>2. ASSUME CallbacksInv, [Next]_vars PROVE CallbacksInv'
    <2>1. CASE kind = "groups" /\ GroupNext
      BY <1>2, <2>1, GroupStep, GroupKeeps, KindStays DEF CallbacksInv
    <2>2. CASE kind = "repos" /\ RepoNext
      BY <1>2, <2>2, RepoStep, RepoSpares, RepoKeeps, KindStays DEF CallbacksInv
    <2>3. CASE kind = "projects" /\ ProjectNext
      BY <1>2, <2>3, ProjectStep, ProjectKeeps, KindStays DEF CallbacksInv
    <2>4. CASE UNCHANGED vars
      <3>1. UNCHANGED callVars /\ UNCHANGED groupVars /\ UNCHANGED repoVars /\ UNCHANGED projectVars
        BY <2>4 DEF vars
      <3>2. CallTypeOK' /\ kind' = kind /\ (calm' \/ logs')
        BY <1>2, <3>1 DEF callVars, CallbacksInv, CallTypeOK
      <3>3. GroupInv => GroupInv'
        BY <3>1 DEF callVars, groupVars, GroupInv, GroupTypeOK, GroupCalls, Creating, Updating, Granted,
           Members, There
      <3>4. GroupKept /\ GroupCalm => (GroupKept /\ GroupCalm)'
        BY <3>1 DEF callVars, groupVars, GroupKept, GroupCalm, CalmCreating, CalmChanging, Begun, Granted,
           Members, There
      <3>5. RepoInv /\ RepoKept /\ RepoCalm => (RepoInv /\ RepoKept /\ RepoCalm)'
        BY <3>1 DEF callVars, repoVars, RepoInv, RepoTypeOK, RepoKept, RepoCalm, Ordered
      <3>6. ProjectInv /\ ProjectKept /\ ProjectCalm => (ProjectInv /\ ProjectKept /\ ProjectCalm)'
        BY <3>1 DEF callVars, projectVars, ProjectInv, ProjectTypeOK, ProjectKept, ProjectCalm
      <3>. QED
        BY <1>2, <3>2, <3>3, <3>4, <3>5, <3>6 DEF CallbacksInv
    <2>. QED
      BY <1>2, <2>1, <2>2, <2>3, <2>4 DEF Next
  <1>. QED
    BY <1>1, <1>2, PTL DEF Spec

\* Every variable keeps its type.
THEOREM CallbacksTypeCorrect == Spec => []TypeOK
  <1>1. CallbacksInv => TypeOK
    BY DEF CallbacksInv, GroupInv, RepoInv, ProjectInv, TypeOK
  <1>. QED
    BY <1>1, CallbacksInvariant, PTL

\* A callback that logs nothing has done what it was called for.
THEOREM CallbacksQuietAreDone == Spec => []QuietIsDone
  <1>1. CallbacksInv => QuietIsDone
    BY DEF CallbacksInv, CallTypeOK, GroupInv, Creating, Updating, RepoInv, ProjectInv,
       QuietIsDone, GroupQuietIsDone, RepoQuietIsDone, ProjectQuietIsDone
  <1>. QED
    BY <1>1, CallbacksInvariant, PTL

\* Nothing can be on a service that the engine cannot take for something, be it
\* made by hand or by a callback cut short: the two statements that follow leave
\* out no case.
THEOREM EngineTakesAll ==
    /\ \A g \in Group \union {NoGroup} : \E v \in States(GroupContent) : GroupIs(g, v)
    /\ \A r \in Repo \union {NoRepo} : \E v \in States(Config) : RepoIs(r, v)
    /\ \A b \in Board : \E v \in States(BoardContent) : BoardIs(b, v)
  <1>1. ASSUME NEW g \in Group \union {NoGroup} PROVE \E v \in States(GroupContent) : GroupIs(g, v)
    <2>1. PICK w \in GroupContent : TRUE
      <3>1. [desc |-> AnyText, members |-> {}] \in GroupContent
        BY TextsAssumption DEF AnyText, GroupContent
      <3>. QED
        BY <3>1
    <2>2. Half("update", w) \in States(GroupContent) /\ Absent \in States(GroupContent)
      BY HalvesApart, GroupContentAssumption DEF Ctypes, States
    <2>. QED
      BY <2>1, <2>2, GroupTaken
  <1>2. ASSUME NEW r \in Repo \union {NoRepo} PROVE \E v \in States(Config) : RepoIs(r, v)
    <2>1. r # NoRepo => r.config \in Config /\ r.config \in States(Config)
      BY DEF Repo, States
    <2>2. Absent \in States(Config)
      BY DEF States
    <2>. QED
      BY <2>1, <2>2, RepoTaken
  <1>3. ASSUME NEW b \in Board PROVE \E v \in States(BoardContent) : BoardIs(b, v)
    <2>1. Half("update", Absent) \in States(BoardContent) /\ Absent \in States(BoardContent)
      BY HalvesApart, BoardContentAssumption DEF Ctypes, States
    <2>. QED
      BY <2>1, BoardTaken DEF Ctypes
  <1>. QED
    BY <1>1, <1>2, <1>3

\* On services that work, every callback is the step RunOp of the engine: it ends,
\* and logs, as ServiceObjects has it end.
THEOREM CallbacksCalmlyEnd == Spec => []CalmOutcome
  <1>1. CallbacksInv => CalmOutcome
    <2> SUFFICES ASSUME CallbacksInv PROVE CalmOutcome
      OBVIOUS
    <2>1. kind = "groups" => GroupCalmOutcome
      BY GroupEnds DEF CallbacksInv, GroupCalmOutcome
    <2>2. kind = "repos" => RepoCalmOutcome
      <3>1. kind = "repos" /\ pc = "done" /\ calm =>
               \A v \in States(Config) : RepoIs(prior, v) =>
                  LET end == End("repos", ctype, v, RepoGoal)
                  IN  RepoIs(repo, end.now) /\ (logs <=> end.logs)
        BY RepoEnds DEF CallbacksInv
      <3>2. kind = "repos" /\ pc = "done" /\ calm =>
               /\ ctype = "create" => repo.review
               /\ ctype = "update" /\ prior # NoRepo => repo = [prior EXCEPT !.config = Ordered]
        BY DEF CallbacksInv, RepoCalm
      <3>. QED
        BY <3>1, <3>2 DEF RepoCalmOutcome
    <2>3. kind = "projects" => ProjectCalmOutcome
      BY BoardEnds DEF CallbacksInv, ProjectCalmOutcome
    <2>. QED
      BY <2>1, <2>2, <2>3 DEF CalmOutcome
  <1>. QED
    BY <1>1, CallbacksInvariant, PTL

\* Wherever a callback is cut short, it is the step FailOp of the engine: what it
\* leaves is what ServiceObjects calls debris, and what is to stay is there.
THEOREM CallbacksCutShort == Spec => []CutShort
  <1>1. CallbacksInv => CutShort
    <2> SUFFICES ASSUME CallbacksInv PROVE CutShort
      OBVIOUS
    <2>1. kind = "groups" => GroupCutShort
      <3>1. kind = "groups" /\ pc # "idle" =>
               \A v \in States(GroupContent) : GroupIs(was, v) =>
                  \E x \in Debris("groups", ctype, v, GroupGoal) : GroupIs(group, x)
        BY GroupDebris DEF CallbacksInv
      <3>. QED
        BY <3>1 DEF CallbacksInv, GroupKept, GroupCutShort
    <2>2. kind = "repos" => RepoCutShort
      <3>1. kind = "repos" /\ pc # "idle" =>
               \A v \in States(Config) : RepoIs(prior, v) =>
                  \E x \in Debris("repos", ctype, v, RepoGoal) : RepoIs(repo, x)
        BY RepoDebris DEF CallbacksInv
      <3>. QED
        BY <3>1 DEF CallbacksInv, RepoKept, RepoCutShort
    <2>3. kind = "projects" => ProjectCutShort
      <3>1. kind = "projects" /\ pc # "idle" =>
               \A v \in States(BoardContent) : BoardIs(past, v) =>
                  \E x \in Debris("projects", ctype, v, BoardGoal) : BoardIs(board, x)
        BY BoardDebris DEF CallbacksInv
      <3>. QED
        BY <3>1 DEF CallbacksInv, ProjectKept, ProjectCutShort
    <2>4. pc = "done" => calm \/ logs
      BY DEF CallbacksInv
    <2>. QED
      BY <2>1, <2>2, <2>3, <2>4 DEF CutShort
  <1>. QED
    BY <1>1, CallbacksInvariant, PTL
=============================================================================
