------------------------ MODULE ServicesUsersProofs ------------------------
(* Theorems about ServicesUsers, for any number of people, ids of the       *)
(* identity provider and requests, whatever fails and whoever removes       *)
(* accounts by hand.                                                        *)
EXTENDS ServicesUsers, TLAPS

LEMMA LoopShape ==
    /\ Head(Services) = "gerrit" /\ Tail(Services) = <<"storyboard">>
    /\ Head(<<"storyboard">>) = "storyboard" /\ Tail(<<"storyboard">>) = <<>>
    /\ Services # <<>> /\ <<"storyboard">> # <<>> /\ Services # <<"storyboard">>
  BY DEF Services

LEMMA RowOf ==
    ASSUME TablesOK, NEW p \in People, rows[p] # NoRow
    PROVE  /\ rows[p] \in Row
           /\ \A q \in People : q # p /\ rows[q] # NoRow => rows[q].id # rows[p].id
  BY DEF TablesOK

\* A row is written that has the id of no other.
OnlyRow(p) == /\ rows' \in [People -> Row \union {NoRow}]
              /\ \A q \in People : q # p => rows'[q] = rows[q]

LEMMA RowWritten ==
    ASSUME TablesOK, NEW p \in People, OnlyRow(p), rows'[p] \in Row,
           \A q \in People : q # p /\ rows[q] # NoRow => rows[q].id # rows'[p].id,
           UNCHANGED mapping
    PROVE  TablesOK' /\ rows'[p] # NoRow
  BY RowsAssumption DEF TablesOK, OnlyRow

\* A request that comes in starts with the first service.
LEMMA Served ==
    ASSUME NEW p \in People, NEW job, job \in {"create", "update", "delete"}, NEW u \in UserIds,
           NEW ext, ext \in ExtIds \union {0}, NEW mailed, mailed \in BOOLEAN,
           Serve(job, p, u, ext, mailed), rows'[p] # NoRow, rows'[p].id = u
    PROVE  RequestOK' /\ RowServed'
  <1>1. req' \in Req /\ req'.who = p /\ req'.user = u
    BY DEF Serve, Req
  <1>2. req' # NoReq
    BY <1>1, RowsAssumption
  <1>3. RequestOK'
    BY <1>1, <1>2 DEF Serve, RequestOK
  <1>4. RowServed'
    BY <1>1 DEF RowServed
  <1>. QED
    BY <1>3, <1>4

\* Requests that are answered at once.
LEMMA Replied ==
    ASSUME TypeOK, stage = "idle", NEW code \in {201, 404, 500}, Reply(code),
           UNCHANGED <<tables, services>>
    PROVE  TypeOK'
  <1>1. TablesOK' /\ AccountsOK'
    BY DEF TypeOK, TablesOK, AccountsOK, tables, services
  <1>2. RequestOK' /\ RowServed'
    BY DEF TypeOK, RequestOK, RowServed, Reply
  <1>. QED
    BY <1>1, <1>2 DEF TypeOK

\* A service that is left for the next one.
LEMMA Left ==
    ASSUME RequestOK, RowServed, stage # "idle", left # <<>>, Leave, UNCHANGED rows
    PROVE  RequestOK' /\ RowServed'
  BY LoopShape DEF RequestOK, RowServed, Leave

LEMMA Ended ==
    ASSUME RequestOK, RowServed, NEW code \in {201, 204, 500}, End(code)
    PROVE  RequestOK' /\ RowServed'
  BY DEF RequestOK, RowServed, End

LEMMA Continued ==
    ASSUME RequestOK, RowServed, stage # "idle", left # <<>>, UNCHANGED rows,
           NEW st, st \in {"unmap", "map"}, NEW i, i \in Sids \union {0}, Continue(st, i),
           st = "map" \/ req.job = "create" => i # 0 /\ (left = <<"storyboard">> => i \in ExtIds)
    PROVE  RequestOK' /\ RowServed'
  BY DEF RequestOK, RowServed, Continue

LEMMA TablesKept ==
    ASSUME TablesOK, UNCHANGED tables
    PROVE  TablesOK'
  BY DEF TablesOK, tables

LEMMA AccountsKept ==
    ASSUME AccountsOK, UNCHANGED services
    PROVE  AccountsOK'
  BY DEF AccountsOK, services

LEMMA RequestKept ==
    ASSUME RequestOK, UNCHANGED <<req, left, stage, made, answer>>, calm' \in BOOLEAN
    PROVE  RequestOK'
  BY DEF RequestOK

LEMMA RequestsTyped ==
    ASSUME TypeOK, NEW p \in People, Request(p)
    PROVE  TypeOK'
  <1> USE DEF TypeOK
  <1> DEFINE exts == {0} \union {c \in ExtIds : Owner[c] = p}
  <1>1. ASSUME NEW ext \in exts, PostSkipped(p, ext) PROVE TypeOK'
    BY <1>1, Replied DEF PostSkipped
  <1>2. ASSUME NEW ext \in exts, NEW info \in Infos, PostKnown(p, ext, info) PROVE TypeOK'
    <2> DEFINE r == [rows[p] EXCEPT !.info = info]
    <2>1. rows[p] # NoRow /\ ext \in ExtIds \union {0}
      BY <1>2 DEF PostKnown, Known
    <2>2. r \in Row /\ r.id = rows[p].id /\ r.id \in UserIds
      BY <2>1, RowOf DEF Row
    <2>3. OnlyRow(p) /\ rows'[p] = r /\ UNCHANGED mapping
      BY <1>2, <2>2 DEF PostKnown, OnlyRow, TablesOK
    <2>4. Serve("update", p, r.id, ext, TRUE) /\ UNCHANGED services
      BY <1>2, <2>2 DEF PostKnown
    <2> HIDE DEF r
    <2>5. TablesOK' /\ r # NoRow
      BY <2>1, <2>2, <2>3, RowOf, RowWritten
    <2>. QED
      BY <2>1, <2>2, <2>3, <2>4, <2>5, Served, AccountsKept
  <1>3. ASSUME NEW ext \in exts, NEW info \in Infos, PostNew(p, ext, info) PROVE TypeOK'
    <2>1. PICK u \in UserIds \ UsedIds :
             /\ rows' = [rows EXCEPT ![p] = [id |-> u, info |-> info, cauth |-> ext,
                                             sync |-> TRUE]]
             /\ Serve("create", p, u, ext, TRUE)
      BY <1>3 DEF PostNew
    <2> DEFINE r == [id |-> u, info |-> info, cauth |-> ext, sync |-> TRUE]
    <2>2. r \in Row /\ r.id = u
      BY DEF Row
    <2>3. \A q \in People : q # p /\ rows[q] # NoRow => rows[q].id # r.id
      BY <2>1 DEF UsedIds
    <2>4. UNCHANGED mapping /\ UNCHANGED services /\ OnlyRow(p) /\ rows'[p] = r
      BY <1>3, <2>1, <2>2 DEF PostNew, OnlyRow, TablesOK
    <2>5. ext \in ExtIds \union {0}
      OBVIOUS
    <2> HIDE DEF r
    <2>6. TablesOK' /\ r # NoRow
      BY <2>2, <2>3, <2>4, RowWritten
    <2>. QED
      BY <2>1, <2>2, <2>4, <2>5, <2>6, Served, AccountsKept
  <1>4. ASSUME NEW ext \in exts, NEW info \in Infos, PostMatched(p, ext, info) PROVE TypeOK'
    <2> DEFINE r == [rows[p] EXCEPT !.cauth = IF ext = 0 THEN @ ELSE ext]
    <2>1. rows[p] # NoRow /\ ext \in ExtIds \union {0}
      BY <1>4 DEF PostMatched
    <2>2. r \in Row /\ r.id = rows[p].id /\ r.id \in UserIds
      BY <2>1, RowOf DEF Row
    <2>3. OnlyRow(p) /\ rows'[p] = r /\ UNCHANGED mapping
      BY <1>4, <2>2 DEF PostMatched, OnlyRow, TablesOK
    <2>4. Serve("create", p, r.id, ext, TRUE) /\ UNCHANGED services
      BY <1>4, <2>2 DEF PostMatched
    <2> HIDE DEF r
    <2>5. TablesOK' /\ r # NoRow
      BY <2>1, <2>2, <2>3, RowOf, RowWritten
    <2>. QED
      BY <2>1, <2>2, <2>3, <2>4, <2>5, Served, AccountsKept
  <1>5. ASSUME NEW ext \in exts, NEW info \in Infos, PostConflict(p, ext, info) PROVE TypeOK'
    BY <1>5, Replied DEF PostConflict
  <1>6. ASSUME NEW ext \in exts, NEW info \in Infos, NEW sync \in BOOLEAN, NEW mailed \in BOOLEAN,
               Put(p, ext, info, sync, mailed)
        PROVE  TypeOK'
    <2> DEFINE r == [rows[p] EXCEPT !.info = info, !.sync = sync]
    <2>1. rows[p] # NoRow /\ ext \in ExtIds \union {0}
      BY <1>6 DEF Put
    <2>2. r \in Row /\ r.id = rows[p].id /\ r.id \in UserIds
      BY <2>1, RowOf DEF Row
    <2>3. OnlyRow(p) /\ rows'[p] = r /\ UNCHANGED mapping
      BY <1>6, <2>2 DEF Put, OnlyRow, TablesOK
    <2>4. Serve("update", p, r.id, ext, mailed) /\ UNCHANGED services
      BY <1>6, <2>2 DEF Put
    <2> HIDE DEF r
    <2>5. TablesOK' /\ r # NoRow
      BY <2>1, <2>2, <2>3, RowOf, RowWritten
    <2>. QED
      BY <2>1, <2>2, <2>3, <2>4, <2>5, Served, AccountsKept
  <1>7. ASSUME NEW mailed \in BOOLEAN, Delete(p, mailed) PROVE TypeOK'
    <2>1. rows[p] # NoRow /\ rows[p].id \in UserIds
      BY <1>7, RowOf DEF Delete, Row
    <2>2. Serve("delete", p, rows[p].id, 0, mailed) /\ UNCHANGED tables /\ UNCHANGED services
      BY <1>7 DEF Delete
    <2>3. rows'[p] = rows[p]
      BY <2>2 DEF tables
    <2>. QED
      BY <2>1, <2>2, <2>3, Served, TablesKept, AccountsKept
  <1>8. CASE Unknown(p)
    BY <1>8, Replied DEF Unknown
  <1>. QED
    BY <1>1, <1>2, <1>3, <1>4, <1>5, <1>6, <1>7, <1>8 DEF Request

LEMMA ServingTyped ==
    ASSUME TypeOK, Serving
    PROVE  TypeOK'
  <1> USE DEF TypeOK, At, tables
  <1>0. \A s : Ids(Me, s) \subseteq Sids
    BY DEF TablesOK, Ids
  <1>1. CASE UpdateConfused
    <2>1. End(500) /\ UNCHANGED <<tables, services>>
      BY <1>1 DEF UpdateConfused
    <2>. QED
      BY <2>1, Ended, TablesKept, AccountsKept
  <1>2. CASE UpdateGerrit
    <2>1. stage # "idle" /\ left # <<>> /\ Leave /\ UNCHANGED <<tables, services>>
      BY <1>2 DEF UpdateGerrit
    <2>. QED
      BY <2>1, Left, TablesKept, AccountsKept
  <1>3. CASE UpdateStoryboard
    <2>1. Ids(Me, "storyboard") \subseteq ExtIds
      BY DEF TablesOK, Ids
    <2>2. AccountsOK'
      BY <1>3, <2>1 DEF UpdateStoryboard, AccountsOK
    <2>3. TablesOK' /\ UNCHANGED rows
      BY <1>3, TablesKept DEF UpdateStoryboard
    <2>4. stage # "idle" /\ left # <<>> /\ (Leave \/ End(500))
      BY <1>3 DEF UpdateStoryboard
    <2>. QED
      BY <2>2, <2>3, <2>4, Left, Ended
  <1>4. CASE UpdateMissingGerrit
    <2>1. stage # "idle" /\ left # <<>> /\ Head(left) = "gerrit" /\ req.job = "update"
      BY <1>4 DEF UpdateMissingGerrit
    <2>2. left = Services
      BY <2>1, LoopShape DEF RequestOK
    <2>3. Continue("map", 1) \/ End(500)
      BY <1>4 DEF UpdateMissingGerrit
    <2>4. TablesOK' /\ AccountsOK' /\ UNCHANGED rows
      BY <1>4, TablesKept, AccountsKept DEF UpdateMissingGerrit
    <2>5. 1 \in Sids \union {0}
      BY DEF Sids
    <2>. QED
      BY <2>1, <2>2, <2>3, <2>4, <2>5, Continued, Ended, LoopShape
  <1>5. ASSUME NEW st \in {"map", "unmap"}, stage # "idle", left # <<>>,
               left = <<"storyboard">>, CreateOnStoryboard(st)
        PROVE  TypeOK'
    <2>1. req.ext \in ExtIds \union {0}
      BY <1>5 DEF RequestOK, Req
    <2>2. TablesOK' /\ UNCHANGED rows
      BY <1>5, TablesKept DEF CreateOnStoryboard
    <2>3. CASE req.ext = 0
      BY <1>5, <2>2, <2>3, Ended, AccountsKept DEF CreateOnStoryboard, services
    <2>4. CASE req.ext # 0
      <3>1. AccountsOK'
        BY <1>5, <2>1, <2>4 DEF CreateOnStoryboard, AccountsOK
      <3>2. Continue(st, req.ext) /\ req.ext \in Sids \union {0} /\ req.ext \in ExtIds
        BY <1>5, <2>1, <2>4 DEF CreateOnStoryboard, Sids
      <3>. QED
        BY <1>5, <2>2, <2>4, <3>1, <3>2, Continued
    <2>. QED
      BY <2>3, <2>4
  <1>6. CASE UpdateMissingStoryboard
    <2>1. left = <<"storyboard">>
      BY <1>6, LoopShape DEF UpdateMissingStoryboard, RequestOK
    <2>. QED
      BY <1>5, <1>6, <2>1 DEF UpdateMissingStoryboard
  <1>7. CASE CreateStoryboard
    <2>1. left = <<"storyboard">>
      BY <1>7, LoopShape DEF CreateStoryboard, RequestOK
    <2>. QED
      BY <1>5, <1>7, <2>1 DEF CreateStoryboard
  <1>8. CASE FoundOnGerrit
    <2>1. stage # "idle" /\ left # <<>> /\ left = Services /\ req.job = "create"
      BY <1>8, LoopShape DEF FoundOnGerrit, RequestOK
    <2>2. TablesOK' /\ AccountsOK' /\ UNCHANGED rows
      BY <1>8, TablesKept, AccountsKept DEF FoundOnGerrit
    <2>3. AccountOf(req.who) # 0 /\ AccountOf(req.who) \in Sids
      <3>1. req.who \in People
        BY <2>1 DEF RequestOK, Req
      <3>. QED
        BY <1>8, <3>1 DEF FoundOnGerrit, AccountOf, AccountsOK, Sids
    <2>4. Continue("map", AccountOf(req.who)) \/ Leave \/ End(500)
      BY <1>8 DEF FoundOnGerrit
    <2>. QED
      BY <2>1, <2>2, <2>3, <2>4, Continued, Left, Ended, LoopShape
  <1>9. CASE CreateOnGerrit
    <2>1. stage # "idle" /\ left # <<>> /\ left = Services /\ req.job = "create"
      BY <1>9, LoopShape DEF CreateOnGerrit, RequestOK
    <2>2. TablesOK' /\ UNCHANGED rows
      BY <1>9, TablesKept DEF CreateOnGerrit
    <2>3. CASE gerrit[req.who] # 0
      BY <1>9, <2>2, <2>3, Ended, AccountsKept DEF CreateOnGerrit, services
    <2>4. CASE gerrit[req.who] = 0
      <3>1. PICK i \in GerritIds : gerrit' = [gerrit EXCEPT ![req.who] = i] /\ Continue("unmap", i)
        BY <1>9, <2>4 DEF CreateOnGerrit
      <3>2. AccountsOK'
        BY <1>9, <3>1 DEF CreateOnGerrit, AccountsOK
      <3>3. i # 0 /\ i \in Sids
        BY IdsAssumption DEF Sids
      <3>. QED
        BY <2>1, <2>2, <3>1, <3>2, <3>3, Continued, LoopShape
    <2>. QED
      BY <2>3, <2>4
  <1>10. CASE Unmap
    <2>1. stage # "idle" /\ left # <<>> /\ req.job = "create" /\ stage = "unmap"
      BY <1>10 DEF Unmap, RequestOK
    <2>2. TablesOK' /\ AccountsOK' /\ UNCHANGED rows
      <3>1. mapping' \subseteq mapping /\ UNCHANGED rows /\ UNCHANGED services
        BY <1>10 DEF Unmap
      <3>. QED
        BY <3>1, AccountsKept DEF TablesOK
    <2>3. Continue("map", made) \/ End(500)
      BY <1>10 DEF Unmap
    <2>4. made \in Sids \union {0} /\ made # 0 /\ (left = <<"storyboard">> => made \in ExtIds)
      BY <2>1 DEF RequestOK
    <2>. QED
      BY <2>1, <2>2, <2>3, <2>4, Continued, Ended
  <1>11. CASE Map
    <2>1. stage # "idle" /\ left # <<>> /\ stage = "map" /\ Leave /\ UNCHANGED rows
      BY <1>11 DEF Map, RequestOK
    <2>2. AccountsOK'
      BY <1>11, AccountsKept DEF Map
    <2>3. made \in Sids /\ (Here = "storyboard" => made \in ExtIds)
           /\ Here \in {"gerrit", "storyboard"} /\ Me \in UserIds
      BY <2>1, LoopShape DEF RequestOK, Here, Me, Req
    <2>4. TablesOK'
      <3>1. mapping' = mapping \union {Link(Me, Here, made)} /\ UNCHANGED rows
        BY <1>11 DEF Map
      <3>. QED
        BY <2>3, <3>1 DEF TablesOK, Link
    <2>. QED
      BY <2>1, <2>2, <2>4, Left
  <1>12. CASE DeleteOnGerrit
    <2>1. stage # "idle" /\ left # <<>> /\ req.job = "delete" /\ req.who \in People
      BY <1>12 DEF DeleteOnGerrit, RequestOK, Req
    <2>2. TablesOK' /\ UNCHANGED rows
      BY <1>12, TablesKept DEF DeleteOnGerrit
    <2>3. AccountsOK' /\ Continue("unmap", 0)
      BY <1>12, <2>1 DEF DeleteOnGerrit, AccountsOK
    <2>. QED
      BY <2>1, <2>2, <2>3, Continued
  <1>13. CASE DeleteOnStoryboard
    <2>1. stage # "idle" /\ left # <<>> /\ req.job = "delete"
      BY <1>13 DEF DeleteOnStoryboard
    <2>2. TablesOK' /\ UNCHANGED rows
      BY <1>13, TablesKept DEF DeleteOnStoryboard
    <2>3. AccountsOK' /\ Continue("unmap", 0)
      BY <1>13 DEF DeleteOnStoryboard, AccountsOK
    <2>. QED
      BY <2>1, <2>2, <2>3, Continued
  <1>14. CASE DropMapping
    <2>1. stage # "idle" /\ left # <<>> /\ Leave
      BY <1>14 DEF DropMapping, RequestOK
    <2>2. TablesOK' /\ AccountsOK' /\ UNCHANGED rows
      BY <1>14, AccountsKept DEF DropMapping, TablesOK
    <2>. QED
      BY <2>1, <2>2, Left
  <1>15. CASE Finish
    <2>1. TablesOK'
      <3>1. req \in Req /\ UNCHANGED mapping
        BY <1>15 DEF Finish, RequestOK
      <3>2. CASE rows' = rows
        BY <3>1, <3>2 DEF TablesOK
      <3>3. CASE rows' = [rows EXCEPT ![req.who] = NoRow]
        <4>1. \A q \in People : rows'[q] = NoRow \/ rows'[q] = rows[q]
          BY <3>3 DEF TablesOK
        <4>2. rows' \in [People -> Row \union {NoRow}]
          BY <3>3 DEF TablesOK
        <4>. QED
          BY <3>1, <4>1, <4>2 DEF TablesOK
      <3>. QED
        BY <1>15, <3>2, <3>3 DEF Finish
    <2>2. AccountsOK'
      BY <1>15, AccountsKept DEF Finish
    <2>3. End(201) \/ End(204)
      BY <1>15 DEF Finish
    <2>. QED
      BY <2>1, <2>2, <2>3, Ended
  <1>16. CASE Fail
    <2>1. TablesOK' /\ AccountsOK'
      BY <1>16, TablesKept, AccountsKept DEF Fail
    <2>2. RequestOK' /\ RowServed'
      BY <1>16 DEF Fail, RequestOK, RowServed
    <2>. QED
      BY <2>1, <2>2
  <1>. QED
    BY <1>1, <1>2, <1>3, <1>4, <1>6, <1>7, <1>8, <1>9, <1>10, <1>11, <1>12, <1>13, <1>14, <1>15,
       <1>16 DEF Serving

LEMMA UsersStep == TypeOK /\ [Next]_vars => TypeOK'
  <1> SUFFICES ASSUME TypeOK, [Next]_vars PROVE TypeOK'
    OBVIOUS
  <1>1. ASSUME NEW p \in People, RemoveByHand(p) PROVE TypeOK'
    <2>1. TablesOK' /\ RequestOK' /\ RowServed'
      <3>1. UNCHANGED tables /\ UNCHANGED <<req, left, stage, made, answer>> /\ calm' = FALSE
        BY <1>1 DEF RemoveByHand
      <3>2. TablesOK'
        BY <3>1, TablesKept DEF TypeOK
      <3>3. RequestOK'
        BY <3>1, RequestKept DEF TypeOK
      <3>4. RowServed'
        BY <3>1 DEF TypeOK, RowServed, tables
      <3>. QED
        BY <3>2, <3>3, <3>4
    <2>2. AccountsOK'
      BY <1>1 DEF RemoveByHand, TypeOK, AccountsOK
    <2>. QED
      BY <2>1, <2>2 DEF TypeOK
  <1>2. CASE DeleteRefused
    BY <1>2, Replied DEF DeleteRefused
  <1>3. CASE UNCHANGED vars
    BY <1>3 DEF vars, TypeOK, TablesOK, AccountsOK, RequestOK, RowServed
  <1>. QED
    BY <1>1, <1>2, <1>3, RequestsTyped, ServingTyped DEF Next

\* Every variable keeps its type, rows differ, and a request under way is about
\* a row that exists, whatever fails and whoever removes accounts by hand.
THEOREM UsersTypeCorrect == Spec => []TypeOK
  <1>1. Init => TypeOK
    BY PeopleAssumption DEF Init, TypeOK, TablesOK, AccountsOK, RequestOK, RowServed
  <1>. QED
    BY <1>1, UsersStep, PTL DEF Spec

-----------------------------------------------------------------------------
(* Mappings are true.                                                       *)

\* What a request finds and does when it comes in.
RowsKept == \A q \in People : rows[q] # NoRow => rows'[q] # NoRow /\ rows'[q].id = rows[q].id
ComesIn(p) ==
    /\ stage' = "call" /\ left' = Services /\ answer' = 0
    /\ req' \in Req /\ req'.who = p /\ (req'.ext # 0 => Owner[req'.ext] = p)
    /\ req'.job = "create" /\ req'.newcomer =>
          \A q \in People : rows[q] # NoRow => rows[q].id # req'.user

LEMMA ServeComesIn ==
    ASSUME NEW p \in People, NEW job, job \in {"create", "update", "delete"}, NEW u \in UserIds,
           NEW ext, ext \in ExtIds \union {0}, NEW mailed, mailed \in BOOLEAN,
           Serve(job, p, u, ext, mailed), ext # 0 => Owner[ext] = p,
           rows[p] = NoRow => \A q \in People : rows[q] # NoRow => rows[q].id # u
    PROVE  ComesIn(p)
  BY DEF Serve, ComesIn, Req

LEMMA RequestShape ==
    ASSUME TypeOK, NEW p \in People, Request(p)
    PROVE  /\ mapping' = mapping /\ gerrit' = gerrit /\ storyboard' = storyboard
           /\ RowsKept
           /\ ComesIn(p) \/ (stage' = "idle" /\ req' = NoReq)
  <1> USE DEF tables, services
  <1> DEFINE exts == {0} \union {c \in ExtIds : Owner[c] = p}
  <1>0. rows \in [People -> Row \union {NoRow}] /\ (rows[p] # NoRow => rows[p].id \in UserIds)
    BY DEF TypeOK, TablesOK, Row
  <1>00. \A e \in exts : e \in ExtIds \union {0} /\ (e # 0 => Owner[e] = p)
    OBVIOUS
  <1>1. ASSUME NEW ext \in exts, PostSkipped(p, ext) PROVE stage' = "idle" /\ req' = NoReq /\ UNCHANGED <<tables, services>>
    BY <1>1 DEF PostSkipped, Reply
  <1>2. ASSUME NEW ext \in exts, NEW info \in Infos, PostKnown(p, ext, info)
        PROVE  RowsKept /\ ComesIn(p) /\ UNCHANGED <<mapping, services>>
    <2>1. RowsKept /\ UNCHANGED <<mapping, services>>
      BY <1>0, <1>2, RowsAssumption DEF PostKnown, RowsKept, Row, Known
    <2>2. rows[p] # NoRow /\ Serve("update", p, rows[p].id, ext, TRUE)
      BY <1>2 DEF PostKnown, Known
    <2>. QED
      BY <1>0, <1>00, <2>1, <2>2, ServeComesIn
  <1>3. ASSUME NEW ext \in exts, NEW info \in Infos, PostNew(p, ext, info)
        PROVE  RowsKept /\ ComesIn(p) /\ UNCHANGED <<mapping, services>>
    <2>1. PICK u \in UserIds \ UsedIds : Serve("create", p, u, ext, TRUE)
      BY <1>3 DEF PostNew
    <2>2. RowsKept /\ UNCHANGED <<mapping, services>>
      BY <1>0, <1>3 DEF PostNew, RowsKept
    <2>3. \A q \in People : rows[q] # NoRow => rows[q].id # u
      BY DEF UsedIds
    <2>. QED
      BY <1>00, <2>1, <2>2, <2>3, ServeComesIn
  <1>4. ASSUME NEW ext \in exts, NEW info \in Infos, PostMatched(p, ext, info)
        PROVE  RowsKept /\ ComesIn(p) /\ UNCHANGED <<mapping, services>>
    <2>1. RowsKept /\ UNCHANGED <<mapping, services>>
      BY <1>0, <1>4, RowsAssumption DEF PostMatched, RowsKept, Row
    <2>2. rows[p] # NoRow /\ Serve("create", p, rows[p].id, ext, TRUE)
      BY <1>4 DEF PostMatched
    <2>. QED
      BY <1>0, <1>00, <2>1, <2>2, ServeComesIn
  <1>5. ASSUME NEW ext \in exts, NEW info \in Infos, PostConflict(p, ext, info)
        PROVE  stage' = "idle" /\ req' = NoReq /\ UNCHANGED <<tables, services>>
    BY <1>5 DEF PostConflict, Reply
  <1>6. ASSUME NEW ext \in exts, NEW info \in Infos, NEW sync \in BOOLEAN, NEW mailed \in BOOLEAN,
               Put(p, ext, info, sync, mailed)
        PROVE  RowsKept /\ ComesIn(p) /\ UNCHANGED <<mapping, services>>
    <2>1. RowsKept /\ UNCHANGED <<mapping, services>>
      BY <1>0, <1>6, RowsAssumption DEF Put, RowsKept, Row
    <2>2. rows[p] # NoRow /\ Serve("update", p, rows[p].id, ext, mailed)
      BY <1>6 DEF Put
    <2>. QED
      BY <1>0, <1>00, <2>1, <2>2, ServeComesIn
  <1>7. ASSUME NEW mailed \in BOOLEAN, Delete(p, mailed)
        PROVE  ComesIn(p) /\ UNCHANGED <<tables, services>>
    <2>1. rows[p] # NoRow /\ Serve("delete", p, rows[p].id, 0, mailed) /\ UNCHANGED <<tables, services>>
      BY <1>7 DEF Delete
    <2>2. 0 \in exts
      OBVIOUS
    <2>. QED
      BY <1>0, <1>00, <2>1, <2>2, ServeComesIn
  <1>8. ASSUME Unknown(p) PROVE stage' = "idle" /\ req' = NoReq /\ UNCHANGED <<tables, services>>
    BY <1>8 DEF Unknown, Reply
  <1>9. rows' = rows => RowsKept
    BY DEF RowsKept
  <1>. QED
    BY <1>1, <1>2, <1>3, <1>4, <1>5, <1>6, <1>7, <1>8, <1>9 DEF Request

\* No two people share a Gerrit account, and the first one is the admin's.
GerritOwn ==
    /\ \A p, q \in People : gerrit[p] # 0 /\ gerrit[p] = gerrit[q] => p = q
    /\ \A p \in People : gerrit[p] = 1 => p = Admin

\* What is about to be recorded is true.
LinkTrue ==
    stage # "idle" =>
        /\ req.ext # 0 => Owner[req.ext] = req.who
        /\ stage = "map" => req.job # "delete"
        /\ stage = "map" \/ (stage = "unmap" /\ req.job = "create") =>
              /\ left = Services => \A q \in People : gerrit[q] = made => q = req.who
              /\ left = <<"storyboard">> => made = req.ext

\* A deletion has left no mapping to the services it went through.
Dropped ==
    stage # "idle" /\ req.job = "delete" =>
        \A m \in mapping : m.user = req.user =>
            left # <<>> /\ (m.service = "gerrit" => left = Services)

LinksInv == MappingsTrue /\ GerritOwn /\ LinkTrue /\ Dropped

\* Mappings stay true if rows keep their ids and no account gets a new owner.
LEMMA MappingsStay ==
    ASSUME MappingsTrue, mapping' \subseteq mapping, RowsKept,
           \A q \in People : gerrit'[q] = gerrit[q]
              \/ \A m \in mapping : m.service = "gerrit" => m.sid # gerrit'[q]
    PROVE  MappingsTrue'
  <1> SUFFICES ASSUME NEW m \in mapping'
               PROVE  \E p \in People :
                        /\ rows'[p] # NoRow /\ rows'[p].id = m.user
                        /\ m.service = "gerrit" => \A q \in People : gerrit'[q] = m.sid => q = p
                        /\ m.service = "storyboard" => Owner[m.sid] = p
    BY DEF MappingsTrue
  <1>1. PICK p \in People :
          /\ rows[p] # NoRow /\ rows[p].id = m.user
          /\ m.service = "gerrit" => \A q \in People : gerrit[q] = m.sid => q = p
          /\ m.service = "storyboard" => Owner[m.sid] = p
    BY DEF MappingsTrue
  <1>2. rows'[p] # NoRow /\ rows'[p].id = m.user
    BY <1>1 DEF RowsKept
  <1>3. m.service = "gerrit" => \A q \in People : gerrit'[q] = m.sid => q = p
    BY <1>1
  <1>. QED
    BY <1>1, <1>2, <1>3

LEMMA ServingLinks ==
    ASSUME TypeOK, LinksInv, Serving, TypeOK'
    PROVE  LinksInv'
  <1> USE DEF LinksInv
  <1>0. /\ stage # "idle" => req \in Req /\ req.who \in People /\ rows[req.who] # NoRow
                              /\ rows[req.who].id = req.user
        /\ left \in {<<>>, <<"storyboard">>, Services}
        /\ rows \in [People -> Row \union {NoRow}] /\ gerrit \in [People -> GerritIds \union {0, 1}]
    BY DEF TypeOK, TablesOK, AccountsOK, RequestOK, RowServed, Req
  <1>1. rows' = rows => RowsKept
    BY DEF RowsKept
  <1>2. ASSUME rows' = rows, gerrit' = gerrit, mapping' \subseteq mapping
        PROVE  MappingsTrue' /\ GerritOwn'
    BY <1>1, <1>2, MappingsStay DEF GerritOwn
  \* The next service, or the end.
  <1>3. ASSUME Leave, mapping' \subseteq mapping, stage # "idle", left # <<>>,
               req.job = "delete" => \A m \in mapping' : m.user = req.user => m.service # Here
                                      /\ m.service \in {"gerrit", "storyboard"}
        PROVE  LinkTrue' /\ Dropped'
    <2>1. req' = req /\ stage' = "call" /\ (left = Services => left' = <<"storyboard">>)
           /\ (left = <<"storyboard">> => left' = <<>>)
      BY <1>0, <1>3, LoopShape DEF Leave
    <2>2. LinkTrue'
      BY <1>3, <2>1 DEF LinkTrue
    <2>3. Dropped'
      BY <1>0, <1>3, <2>1, LoopShape DEF Dropped, Here
    <2>. QED
      BY <2>2, <2>3
  <1>4. ASSUME NEW code, End(code) PROVE LinkTrue' /\ Dropped'
    BY <1>4 DEF End, LinkTrue, Dropped
  <1>5. CASE UpdateConfused \/ UpdateGerrit \/ UpdateStoryboard
    <2>1. UNCHANGED <<rows, gerrit, mapping>> /\ (Leave \/ End(500)) /\ stage # "idle" /\ left # <<>>
           /\ req.job = "update"
      BY <1>5 DEF UpdateConfused, UpdateGerrit, UpdateStoryboard, At, tables, services
    <2>. QED
      BY <1>2, <1>3, <1>4, <2>1
  <1>6. CASE UpdateMissingGerrit
    <2>1. UNCHANGED <<rows, gerrit, mapping>> /\ stage # "idle" /\ left = Services /\ req.job = "update"
      BY <1>6, <1>0, LoopShape DEF UpdateMissingGerrit, At, tables, services
    <2>2. CASE req.ext = 1
      <3>1. req.who = Admin
        BY <1>0, <2>1, <2>2, PeopleAssumption DEF LinkTrue, Req
      <3>2. made' = 1 /\ stage' = "map" /\ req' = req /\ left' = left
        BY <1>6, <2>2 DEF UpdateMissingGerrit, Continue
      <3>3. \A q \in People : gerrit'[q] = made' => q = req'.who
        BY <2>1, <3>1, <3>2 DEF GerritOwn
      <3>4. LinkTrue'
        BY <2>1, <3>2, <3>3, LoopShape DEF LinkTrue
      <3>5. Dropped'
        BY <2>1, <3>2 DEF Dropped
      <3>. QED
        BY <1>2, <2>1, <3>4, <3>5
    <2>3. CASE req.ext # 1
      BY <1>2, <1>4, <1>6, <2>1, <2>3 DEF UpdateMissingGerrit
    <2>. QED
      BY <2>2, <2>3
  <1>7. CASE UpdateMissingStoryboard \/ CreateStoryboard
    <2>1. UNCHANGED <<rows, gerrit, mapping>> /\ stage # "idle" /\ left = <<"storyboard">>
           /\ req.job # "delete"
      BY <1>7, <1>0, LoopShape
         DEF UpdateMissingStoryboard, CreateStoryboard, CreateOnStoryboard, At, tables
    <2>2. End(500) \/ (\E st \in {"map", "unmap"} : Continue(st, req.ext))
      BY <1>7 DEF UpdateMissingStoryboard, CreateStoryboard, CreateOnStoryboard
    <2>3. ASSUME NEW st \in {"map", "unmap"}, Continue(st, req.ext) PROVE LinkTrue' /\ Dropped'
      <3>1. made' = req.ext /\ req' = req /\ left' = left /\ stage' = st
        BY <2>3 DEF Continue
      <3>. QED
        BY <2>1, <3>1, LoopShape DEF LinkTrue, Dropped
    <2>. QED
      BY <1>2, <1>4, <2>1, <2>2, <2>3
  <1>8. CASE FoundOnGerrit
    <2>1. UNCHANGED <<rows, gerrit, mapping>> /\ stage # "idle" /\ left = Services
           /\ req.job = "create" /\ gerrit[req.who] # 0
      BY <1>8, <1>0, LoopShape DEF FoundOnGerrit, At, AccountOf, tables, services
    <2>2. Leave \/ End(500) \/ Continue("map", gerrit[req.who])
      BY <1>8 DEF FoundOnGerrit, AccountOf
    <2>3. ASSUME Continue("map", gerrit[req.who]) PROVE LinkTrue' /\ Dropped'
      <3>1. made' = gerrit[req.who] /\ req' = req /\ left' = left /\ stage' = "map"
        BY <2>3 DEF Continue
      <3>2. \A q \in People : gerrit'[q] = made' => q = req'.who
        BY <1>0, <2>1, <3>1 DEF GerritOwn
      <3>. QED
        BY <2>1, <3>1, <3>2, LoopShape DEF LinkTrue, Dropped
    <2>. QED
      BY <1>2, <1>3, <1>4, <2>1, <2>2, <2>3, LoopShape
  <1>9. CASE CreateOnGerrit
    <2>1. UNCHANGED <<rows, mapping>> /\ stage # "idle" /\ left = Services /\ req.job = "create"
      BY <1>9, <1>0, LoopShape DEF CreateOnGerrit, At, tables
    <2>2. CASE gerrit[req.who] # 0
      BY <1>2, <1>4, <1>9, <2>1, <2>2 DEF CreateOnGerrit
    <2>3. CASE gerrit[req.who] = 0
      <3>1. PICK i \in GerritIds :
              /\ i \notin {gerrit[p] : p \in People} \union {m.sid : m \in mapping}
              /\ gerrit' = [gerrit EXCEPT ![req.who] = i]
              /\ Continue("unmap", i)
        BY <1>9, <2>3 DEF CreateOnGerrit
      <3>2. /\ \A q \in People : gerrit'[q] = IF q = req.who THEN i ELSE gerrit[q]
            /\ \A q \in People : gerrit[q] # i
            /\ \A m \in mapping : m.sid # i
            /\ i # 0 /\ i # 1
        BY <1>0, <2>1, <3>1, IdsAssumption
      <3>3. MappingsTrue'
        BY <1>1, <2>1, <3>2, MappingsStay
      <3>4. GerritOwn'
        BY <3>2 DEF GerritOwn
      <3>5. made' = i /\ req' = req /\ left' = left /\ stage' = "unmap"
        BY <3>1 DEF Continue
      <3>6. LinkTrue' /\ Dropped'
        BY <2>1, <3>2, <3>5, LoopShape DEF LinkTrue, Dropped
      <3>. QED
        BY <3>3, <3>4, <3>6
    <2>. QED
      BY <2>2, <2>3
  <1>10. CASE Unmap
    <2>1. UNCHANGED <<rows, gerrit>> /\ mapping' \subseteq mapping /\ stage = "unmap"
           /\ req.job = "create" /\ (End(500) \/ Continue("map", made))
      BY <1>10 DEF Unmap, services
    <2>2. ASSUME Continue("map", made) PROVE LinkTrue' /\ Dropped'
      BY <2>1, <2>2 DEF Continue, LinkTrue, Dropped
    <2>. QED
      BY <1>2, <1>4, <2>1, <2>2
  <1>11. CASE Map
    <2>1. UNCHANGED <<rows, gerrit>> /\ mapping' = mapping \union {Link(Me, Here, made)}
           /\ stage = "map" /\ Leave /\ req.job # "delete" /\ left # <<>>
      BY <1>11 DEF Map, services, LinkTrue, TypeOK, RequestOK
    <2>2. LinkTrue' /\ Dropped'
      BY <2>1 DEF Leave, LinkTrue, Dropped
    <2>3. GerritOwn'
      BY <2>1 DEF GerritOwn
    <2>4. made # 0
      BY <2>1 DEF TypeOK, RequestOK
    <2>5. ASSUME NEW m \in mapping'
          PROVE  \E p \in People :
                   /\ rows[p] # NoRow /\ rows[p].id = m.user
                   /\ m.service = "gerrit" => \A q \in People : gerrit[q] = m.sid => q = p
                   /\ m.service = "storyboard" => Owner[m.sid] = p
      <3>1. CASE m \in mapping
        BY <3>1 DEF MappingsTrue
      <3>2. CASE m = Link(Me, Here, made)
        <4>1. m.user = req.user /\ m.service = Here /\ m.sid = made
          BY <3>2 DEF Link, Me
        <4>2. left = Services => Here = "gerrit" /\ \A q \in People : gerrit[q] = made => q = req.who
          BY <2>1, LoopShape DEF Here, LinkTrue
        <4>3. left = <<"storyboard">> => Here = "storyboard" /\ Owner[made] = req.who
          BY <2>1, <2>4, LoopShape DEF Here, LinkTrue
        <4>. QED
          BY <1>0, <2>1, <4>1, <4>2, <4>3
      <3>. QED
        BY <2>1, <3>1, <3>2
    <2>6. MappingsTrue'
      BY <2>1, <2>5 DEF MappingsTrue
    <2>. QED
      BY <2>2, <2>3, <2>6
  <1>12. CASE DeleteOnGerrit
    <2>1. UNCHANGED <<rows, mapping>> /\ stage # "idle" /\ req.job = "delete" /\ Continue("unmap", 0)
      BY <1>12 DEF DeleteOnGerrit, At, tables
    <2>2. \A q \in People : gerrit'[q] = gerrit[q] \/ gerrit'[q] = 0
      BY <1>0, <1>12, <2>1 DEF DeleteOnGerrit
    <2>3. GerritOwn'
      BY <2>2 DEF GerritOwn
    <2>4. LinkTrue' /\ Dropped'
      BY <2>1 DEF Continue, LinkTrue, Dropped
    <2>5. MappingsTrue'
      <3>1. \A m \in mapping : m.sid # 0
        BY PeopleAssumption, IdsAssumption DEF TypeOK, TablesOK, Sids
      <3>. QED
        BY <1>1, <2>1, <2>2, <3>1, MappingsStay
    <2>. QED
      BY <2>3, <2>4, <2>5
  <1>13. CASE DeleteOnStoryboard
    <2>1. UNCHANGED <<rows, gerrit, mapping>> /\ stage # "idle" /\ req.job = "delete"
           /\ Continue("unmap", 0)
      BY <1>13 DEF DeleteOnStoryboard, At, tables
    <2>2. LinkTrue' /\ Dropped'
      BY <2>1 DEF Continue, LinkTrue, Dropped
    <2>. QED
      BY <1>2, <2>1, <2>2
  <1>14. CASE DropMapping
    <2>1. UNCHANGED <<rows, gerrit>> /\ stage = "unmap" /\ req.job = "delete" /\ Leave
           /\ mapping' = {m \in mapping : m.user # Me \/ m.service # Here} /\ left # <<>>
      BY <1>14 DEF DropMapping, services, TypeOK, RequestOK
    <2>2. \A m \in mapping' : m.user = req.user => m.service # Here
                                      /\ m.service \in {"gerrit", "storyboard"}
      BY <2>1 DEF Me, TypeOK, TablesOK
    <2>. QED
      BY <1>2, <1>3, <2>1, <2>2
  <1>15. CASE Finish
    <2>1. UNCHANGED <<gerrit, mapping>> /\ stage # "idle" /\ left = <<>> /\ (End(204) \/ End(201))
      BY <1>15 DEF Finish, services
    <2>2. CASE req.job # "delete"
      BY <1>2, <1>4, <1>15, <2>1, <2>2 DEF Finish
    <2>3. CASE req.job = "delete"
      <3>1. \A m \in mapping : m.user # req.user
        BY <2>1, <2>3 DEF Dropped
      <3>2. \A q \in People : q # req.who => rows'[q] = rows[q]
        BY <1>0, <1>15, <2>3 DEF Finish
      <3>3. MappingsTrue'
        BY <1>0, <2>1, <3>1, <3>2 DEF MappingsTrue
      <3>4. GerritOwn'
        BY <2>1 DEF GerritOwn
      <3>. QED
        BY <1>4, <2>1, <3>3, <3>4
    <2>. QED
      BY <2>2, <2>3
  <1>16. CASE Fail
    <2>1. UNCHANGED <<rows, gerrit, mapping>> /\ stage' = "idle"
      BY <1>16 DEF Fail, tables, services
    <2>. QED
      BY <1>2, <2>1 DEF LinkTrue, Dropped
  <1>. QED
    BY <1>5, <1>6, <1>7, <1>8, <1>9, <1>10, <1>11, <1>12, <1>13, <1>14, <1>15, <1>16 DEF Serving

LEMMA LinksInductive ==
    ASSUME TypeOK, LinksInv, [Next]_vars, TypeOK'
    PROVE  LinksInv'
  <1> USE DEF LinksInv
  <1>1. ASSUME NEW p \in People, Request(p) PROVE LinksInv'
    <2>1. mapping' = mapping /\ gerrit' = gerrit /\ RowsKept
      BY <1>1, RequestShape
    <2>2. MappingsTrue' /\ GerritOwn'
      BY <2>1, MappingsStay DEF GerritOwn
    <2>3. CASE ComesIn(p)
      BY <2>1, <2>2, <2>3, LoopShape DEF ComesIn, LinkTrue, Dropped
    <2>4. CASE stage' = "idle"
      BY <2>2, <2>4 DEF LinkTrue, Dropped
    <2>. QED
      BY <1>1, <2>3, <2>4, RequestShape
  <1>2. ASSUME NEW p \in People, RemoveByHand(p) PROVE LinksInv'
    <2>1. UNCHANGED tables /\ UNCHANGED <<req, left, stage, made>> /\ gerrit' = [gerrit EXCEPT ![p] = 0]
      BY <1>2 DEF RemoveByHand
    <2>2. \A q \in People : gerrit'[q] = gerrit[q] \/ gerrit'[q] = 0
      BY <2>1 DEF TypeOK, AccountsOK
    <2>3. \A m \in mapping : m.sid # 0
      BY PeopleAssumption, IdsAssumption DEF TypeOK, TablesOK, Sids
    <2>4. MappingsTrue'
      BY <2>1, <2>2, <2>3, MappingsStay DEF tables, RowsKept
    <2>5. GerritOwn'
      BY <2>2 DEF GerritOwn
    <2>6. LinkTrue'
      <3>1. stage = "map" \/ (stage = "unmap" /\ req.job = "create") => made # 0
        BY DEF TypeOK, RequestOK
      <3>. QED
        BY <2>1, <2>2, <3>1 DEF LinkTrue
    <2>7. Dropped'
      BY <2>1 DEF Dropped, tables
    <2>. QED
      BY <2>4, <2>5, <2>6, <2>7
  <1>3. CASE DeleteRefused \/ UNCHANGED vars
    <2>1. UNCHANGED <<rows, mapping, gerrit>>
      BY <1>3 DEF DeleteRefused, vars, tables, services
    <2>2. MappingsTrue' /\ GerritOwn'
      BY <2>1, MappingsStay DEF GerritOwn, RowsKept
    <2>3. (stage = "idle" /\ stage' = stage) \/ UNCHANGED vars
      BY <1>3 DEF DeleteRefused, Reply
    <2>4. LinkTrue' /\ Dropped'
      BY <2>3 DEF LinkTrue, Dropped, vars
    <2>. QED
      BY <2>2, <2>4
  <1>. QED
    BY <1>1, <1>2, <1>3, ServingLinks DEF Next

\* Mappings name the accounts of the person whose row they belong to, and are
\* gone when the row is.
THEOREM MappingsStayTrue == Spec => []MappingsTrue
  <1>1. Init => LinksInv
    BY PeopleAssumption
       DEF Init, LinksInv, MappingsTrue, GerritOwn, LinkTrue, Dropped
  <1>2. TypeOK /\ LinksInv /\ [Next]_vars => LinksInv'
    BY LinksInductive, UsersStep
  <1>3. LinksInv => MappingsTrue
    BY DEF LinksInv
  <1>. QED
    BY <1>1, <1>2, <1>3, UsersTypeCorrect, PTL DEF Spec

-----------------------------------------------------------------------------
(* What answers are worth.                                                  *)

\* Ids that mappings M record for row u on service s; Ids of the mapping.
Recorded(M, u, s) == {m.sid : m \in {n \in M : n.user = u /\ n.service = s}}

\* What a creation or an update has on the services it has been to: a mapping on
\* the first, and on the second the only one, to an account that is there.
Visited ==
    stage # "idle" /\ req.job # "delete" =>
        /\ left # Services => Recorded(mapping, req.user, "gerrit") # {}
        /\ left = <<"storyboard">> /\ stage # "call" => made \in storyboard
        /\ left = <<"storyboard">> /\ stage = "map" => Recorded(mapping, req.user, "storyboard") = {}
        /\ left = <<>> => \E c \in storyboard : Recorded(mapping, req.user, "storyboard") = {c}

\* A creation for somebody without a row, while nothing fails: no mapping on
\* services still to be visited, the true one on those visited.
Welcomed ==
    stage # "idle" /\ calm /\ req.job = "create" /\ req.newcomer =>
        /\ left = Services => /\ Recorded(mapping, req.user, "gerrit") = {}
                              /\ stage # "call" => made = gerrit[req.who]
        /\ left # Services => /\ gerrit[req.who] # 0
                              /\ Recorded(mapping, req.user, "gerrit") = {gerrit[req.who]}
        /\ left # <<>> => Recorded(mapping, req.user, "storyboard") = {}
        /\ left = <<"storyboard">> /\ stage # "call" => req.ext # 0 /\ req.ext \in storyboard
        /\ left = <<>> => /\ req.ext # 0 /\ req.ext \in storyboard
                          /\ Recorded(mapping, req.user, "storyboard") = {req.ext}

AnswersInv == Visited /\ Welcomed /\ SuccessMeansMapped /\ NewcomersServed

LEMMA IdsRecorded == \A u, s : Ids(u, s) = Recorded(mapping, u, s)
  BY DEF Ids, Recorded

LEMMA RecordedByLink ==
    ASSUME NEW M, NEW u, NEW s, NEW i
    PROVE  /\ Recorded(M \union {Link(u, s, i)}, u, s) = Recorded(M, u, s) \union {i}
           /\ \A t : t # s => Recorded(M \union {Link(u, s, i)}, u, t) = Recorded(M, u, t)
  <1>1. Link(u, s, i).user = u /\ Link(u, s, i).service = s /\ Link(u, s, i).sid = i
    BY DEF Link
  <1>. HIDE DEF Link
  <1>2. Recorded(M \union {Link(u, s, i)}, u, s) = Recorded(M, u, s) \union {i}
    BY <1>1 DEF Recorded
  <1>3. ASSUME NEW t, t # s
        PROVE  Recorded(M \union {Link(u, s, i)}, u, t) = Recorded(M, u, t)
    BY <1>1, <1>3 DEF Recorded
  <1>. QED
    BY <1>2, <1>3

LEMMA RecordedByMap ==
    ASSUME Map
    PROVE  /\ Recorded(mapping', req.user, Here) = Recorded(mapping, req.user, Here) \union {made}
           /\ \A t : t # Here => Recorded(mapping', req.user, t) = Recorded(mapping, req.user, t)
  <1>1. mapping' = mapping \union {Link(req.user, Here, made)}
    BY DEF Map, Me
  <1>2. \A M, u, s, i :
          /\ Recorded(M \union {Link(u, s, i)}, u, s) = Recorded(M, u, s) \union {i}
          /\ \A t : t # s => Recorded(M \union {Link(u, s, i)}, u, t) = Recorded(M, u, t)
    BY RecordedByLink
  <1>. QED
    BY <1>1, <1>2

LEMMA RecordedUnlinked ==
    ASSUME TablesOK, NEW u, NEW s
    PROVE  LET N == mapping \ {Link(u, s, i) : i \in Ids(u, s)} IN
             /\ Recorded(N, u, s) = {}
             /\ \A t : t # s => Recorded(N, u, t) = Recorded(mapping, u, t)
  <1> DEFINE N == mapping \ {Link(u, s, i) : i \in Ids(u, s)}
  <1>1. \A m \in mapping : m.user = u /\ m.service = s => m = Link(u, s, m.sid) /\ m.sid \in Ids(u, s)
    BY DEF TablesOK, Link, Ids
  <1>2. Recorded(N, u, s) = {}
    BY <1>1 DEF Recorded
  <1>3. ASSUME NEW t, t # s PROVE Recorded(N, u, t) = Recorded(mapping, u, t)
    <2>1. \A m \in mapping : m.service = t => m \in N
      BY <1>3 DEF Link
    <2>. QED
      BY <2>1 DEF Recorded
  <1>. QED
    BY <1>2, <1>3

\* Nobody else's mapping is taken for that of the user served.
LEMMA LinkedIsMine ==
    ASSUME TypeOK, MappingsTrue, stage # "idle", gerrit[req.who] # 0, NEW m \in mapping,
           m.service = "gerrit", m.sid = gerrit[req.who]
    PROVE  m.user = req.user
  BY DEF MappingsTrue, TypeOK, RequestOK, RowServed, Req

\* A newcomer has a new row, to which no mapping belongs.
LEMMA NewRowUnmapped ==
    ASSUME TypeOK, MappingsTrue, NEW u, \A q \in People : rows[q] # NoRow => rows[q].id # u, NEW s
    PROVE  Recorded(mapping, u, s) = {}
  BY DEF MappingsTrue, Recorded

\* How a step to the next service, to the end or to a record changes the request.
LEMMA RequestMoves ==
    /\ Leave => /\ req' = req /\ answer' = answer /\ calm' = calm /\ stage' = "call"
                /\ left = Services => left' = <<"storyboard">>
                /\ left = <<"storyboard">> => left' = <<>>
    /\ \A st, i : Continue(st, i) => /\ req' = req /\ answer' = answer /\ calm' = calm /\ left' = left
                                     /\ stage' = st /\ made' = i
    /\ \A code : End(code) => /\ req' = req /\ answer' = code /\ calm' = calm /\ stage' = "idle"
  BY LoopShape DEF Leave, Continue, End

LEMMA ServingVisits ==
    ASSUME TypeOK, LinksInv, Visited, Serving, TypeOK'
    PROVE  Visited' /\ SuccessMeansMapped'
  <1> DEFINE R(s) == Recorded(mapping, req.user, s)
  <1>0. /\ left \in {<<>>, <<"storyboard">>, Services} /\ stage \in {"idle", "call", "unmap", "map"}
        /\ stage \in {"map", "unmap"} => left # <<>>
        /\ stage # "idle" => answer = 0
        /\ stage' # "idle" => answer' = 0
        /\ TablesOK
    BY DEF TypeOK, RequestOK
  <1>1. /\ left = Services => left # <<>> /\ left # <<"storyboard">> /\ Head(left) = "gerrit"
        /\ left = <<"storyboard">> => left # <<>> /\ Head(left) = "storyboard"
    BY LoopShape
  <1>2. \A s : Ids(Me, s) = R(s)
    BY IdsRecorded DEF Me
  \* What ends a request by an error says nothing; neither does a deletion.
  <1>3. ASSUME NEW code, End(code), code # 201 PROVE Visited' /\ SuccessMeansMapped'
    BY <1>3, RequestMoves DEF Visited, SuccessMeansMapped
  <1>4. ASSUME answer' # 201 \/ req' = NoReq PROVE SuccessMeansMapped'
    BY <1>4 DEF SuccessMeansMapped
  <1>. HIDE DEF R
  <1>5. CASE UpdateConfused \/ UpdateGerrit
    <2>1. CASE UpdateConfused
      BY <1>3, <2>1 DEF UpdateConfused
    <2>2. CASE UpdateGerrit
      <3>1. /\ left = Services /\ stage = "call" /\ R("gerrit") # {} /\ Leave /\ UNCHANGED <<mapping, storyboard>>
        BY <1>0, <1>1, <1>2, <2>2 DEF UpdateGerrit, At, Mapped, tables, services
      <3>. QED
        BY <1>0, <1>4, <3>1, RequestMoves, LoopShape DEF Visited, R
    <2>. QED
      BY <1>5, <2>1, <2>2
  <1>6. CASE UpdateStoryboard
    <2>1. /\ left = <<"storyboard">> /\ stage = "call" /\ R("storyboard") # {} /\ req.job = "update"
          /\ \A i, j \in R("storyboard") : i = j
          /\ storyboard' = storyboard \union R("storyboard") /\ mapping' = mapping
          /\ Leave \/ End(500)
      BY <1>0, <1>1, <1>2, <1>6 DEF UpdateStoryboard, At, Mapped, Confused, tables
    <2>2. PICK c : R("storyboard") = {c}
      BY <2>1
    <2>3. c \in storyboard'
      BY <2>1, <2>2
    <2>. QED
      BY <1>0, <1>3, <1>4, <2>1, <2>2, <2>3, RequestMoves, LoopShape DEF Visited, R
  <1>7. CASE UpdateMissingGerrit
    <2>1. /\ left = Services /\ UNCHANGED <<mapping, storyboard>> /\ (End(500) \/ Continue("map", 1))
          /\ stage = "call"
      BY <1>0, <1>1, <1>7 DEF UpdateMissingGerrit, At, tables, services
    <2>. QED
      BY <1>0, <1>3, <1>4, <2>1, RequestMoves, LoopShape DEF Visited
  <1>8. CASE UpdateMissingStoryboard \/ CreateStoryboard
    <2>1. /\ left = <<"storyboard">> /\ stage = "call" /\ mapping' = mapping /\ req.job # "delete"
          /\ \/ End(500)
             \/ /\ storyboard' = storyboard \union {req.ext}
                /\ \/ Continue("map", req.ext) /\ R("storyboard") = {}
                   \/ Continue("unmap", req.ext)
      BY <1>0, <1>1, <1>2, <1>8
         DEF UpdateMissingStoryboard, CreateStoryboard, CreateOnStoryboard, At, tables
    <2>2. CASE End(500)
      BY <1>3, <2>2
    <2>3. CASE ~End(500)
      <3>1. /\ req' = req /\ answer' # 201 /\ left' = left /\ made' = req.ext /\ stage' \in {"map", "unmap"}
            /\ stage' = "map" => R("storyboard") = {}
            /\ made' \in storyboard'
        BY <1>0, <2>1, <2>3, RequestMoves
      <3>2. left # Services => R("gerrit") # {}
        BY <2>1 DEF Visited, R
      <3>. QED
        BY <1>4, <2>1, <3>1, <3>2, LoopShape DEF Visited, R
    <2>. QED
      BY <2>2, <2>3
  <1>9. CASE FoundOnGerrit
    <2>1. /\ left = Services /\ stage = "call" /\ UNCHANGED <<mapping, storyboard>> /\ gerrit[req.who] # 0
          /\ \/ End(500)
             \/ Continue("map", gerrit[req.who])
             \/ Leave /\ \E m \in mapping : m.service = "gerrit" /\ m.sid = gerrit[req.who]
      BY <1>0, <1>1, <1>9 DEF FoundOnGerrit, At, AccountOf, MappingsOf, tables, services
    <2>2. (\E m \in mapping : m.service = "gerrit" /\ m.sid = gerrit[req.who]) => R("gerrit") # {}
      BY <2>1, LinkedIsMine DEF R, Recorded, LinksInv
    <2>3. CASE Leave
      <3>1. req' = req /\ left' = <<"storyboard">> /\ answer' = 0 /\ stage' = "call"
        BY <1>0, <2>1, <2>3, RequestMoves
      <3>2. R("gerrit") # {}
        <4>1. ASSUME Continue("map", gerrit[req.who]) PROVE FALSE
          BY <2>1, <2>3, <4>1, RequestMoves, LoopShape
        <4>. QED
          BY <2>1, <2>2, <2>3, <4>1, RequestMoves
      <3>. QED
        BY <1>4, <2>1, <3>1, <3>2, LoopShape DEF Visited, R
    <2>4. CASE Continue("map", gerrit[req.who])
      <3>1. req' = req /\ left' = Services /\ answer' = 0
        BY <1>0, <2>1, <2>4, RequestMoves
      <3>. QED
        BY <1>4, <2>1, <3>1, LoopShape DEF Visited
    <2>. QED
      BY <1>3, <2>1, <2>3, <2>4
  <1>10. CASE CreateOnGerrit
    <2>1. /\ left = Services /\ stage = "call" /\ UNCHANGED <<mapping, storyboard>>
          /\ End(500) \/ \E i : Continue("unmap", i)
      BY <1>0, <1>1, <1>10 DEF CreateOnGerrit, At, tables
    <2>. QED
      BY <1>0, <1>3, <1>4, <2>1, RequestMoves, LoopShape DEF Visited
  <1>11. CASE Unmap
    <2>1. /\ left # <<>> /\ stage = "unmap" /\ req.job = "create" /\ storyboard' = storyboard
          /\ \/ End(500)
             \/ /\ Continue("map", made)
                /\ mapping' = mapping \ {Link(req.user, Here, i) : i \in Ids(req.user, Here)}
      BY <1>0, <1>11 DEF Unmap, Me, services
    <2>2. CASE End(500)
      BY <1>3, <2>2
    <2>3. CASE ~End(500)
      <3>1. Recorded(mapping', req.user, Here) = {}
        BY <1>0, <2>1, <2>3, RecordedUnlinked
      <3>2. \A t : t # Here => Recorded(mapping', req.user, t) = R(t)
        BY <1>0, <2>1, <2>3, RecordedUnlinked DEF R
      <3>. QED
        BY <1>0, <1>1, <1>4, <2>1, <2>3, <3>1, <3>2, RequestMoves, LoopShape DEF Visited, R, Here
    <2>. QED
      BY <2>2, <2>3
  <1>12. CASE Map
    <2>1. /\ left # <<>> /\ stage = "map" /\ storyboard' = storyboard /\ Leave
          /\ mapping' = mapping \union {Link(req.user, Here, made)} /\ req.job # "delete"
      BY <1>0, <1>12 DEF Map, Me, services, LinksInv, LinkTrue
    <2>2. /\ Recorded(mapping', req.user, Here) = R(Here) \union {made}
          /\ \A t : t # Here => Recorded(mapping', req.user, t) = R(t)
      BY <1>12, RecordedByMap DEF R
    <2>3. CASE left = Services
      <3>1. Recorded(mapping', req.user, "gerrit") # {}
        BY <1>1, <2>2, <2>3 DEF Here
      <3>2. req' = req /\ answer' = 0 /\ stage' = "call" /\ left' = <<"storyboard">>
        BY <1>0, <2>1, <2>3, RequestMoves
      <3>. QED
        BY <1>4, <3>1, <3>2, LoopShape DEF Visited
    <2>4. CASE left = <<"storyboard">>
      <3>1. /\ made \in storyboard' /\ Recorded(mapping', req.user, "storyboard") = {made}
            /\ Recorded(mapping', req.user, "gerrit") # {}
        BY <1>1, <2>1, <2>2, <2>4, LoopShape DEF Visited, Here, R
      <3>2. req' = req /\ answer' = 0 /\ stage' = "call" /\ left' = <<>>
        BY <1>0, <2>1, <2>4, RequestMoves
      <3>. QED
        BY <1>4, <3>1, <3>2, LoopShape DEF Visited
    <2>. QED
      BY <1>0, <2>1, <2>3, <2>4
  <1>13. CASE DeleteOnGerrit \/ DeleteOnStoryboard \/ DropMapping
    <2>1. req.job = "delete" /\ (Leave \/ Continue("unmap", 0)) /\ stage # "idle"
      BY <1>13 DEF DeleteOnGerrit, DeleteOnStoryboard, DropMapping, At
    <2>. QED
      BY <1>0, <1>4, <2>1, RequestMoves DEF Visited
  <1>14. CASE Finish
    <2>1. /\ left = <<>> /\ stage = "call" /\ UNCHANGED <<mapping, storyboard>>
          /\ End(IF req.job = "delete" THEN 204 ELSE 201)
      BY <1>14 DEF Finish, services
    <2>2. CASE req.job = "delete"
      BY <1>3, <2>1, <2>2
    <2>3. CASE req.job # "delete"
      <3>1. /\ stage' = "idle" /\ req' = req /\ \A s : Ids(req.user, s)' = R(s)
        BY <2>1, <2>3, RequestMoves DEF R, Ids, Recorded
      <3>2. R("gerrit") # {} /\ \E c \in storyboard : R("storyboard") = {c}
        BY <2>1, <2>3, LoopShape DEF Visited, R
      <3>. QED
        BY <2>1, <3>1, <3>2 DEF Visited, SuccessMeansMapped, Ids
    <2>. QED
      BY <2>2, <2>3
  <1>15. CASE Fail
    BY <1>15 DEF Fail, Visited, SuccessMeansMapped
  <1>. QED
    BY <1>5, <1>6, <1>7, <1>8, <1>9, <1>10, <1>11, <1>12, <1>13, <1>14, <1>15 DEF Serving

LEMMA ServingWelcomes ==
    ASSUME TypeOK, LinksInv, Visited, Welcomed, Serving, TypeOK'
    PROVE  Welcomed' /\ NewcomersServed'
  <1> DEFINE R(s) == Recorded(mapping, req.user, s)
             New == calm /\ req.job = "create" /\ req.newcomer
  <1>0. /\ left \in {<<>>, <<"storyboard">>, Services} /\ stage \in {"idle", "call", "unmap", "map"}
        /\ stage \in {"map", "unmap"} => left # <<>>
        /\ stage = "map" \/ (stage = "unmap" /\ req.job = "create") => made # 0
        /\ stage # "idle" => req.who \in People
        /\ gerrit \in [People -> GerritIds \union {0, 1}]
        /\ TablesOK
    BY DEF TypeOK, RequestOK, AccountsOK, Req
  <1>1. /\ left = Services => left # <<>> /\ left # <<"storyboard">> /\ Head(left) = "gerrit"
        /\ left = <<"storyboard">> => left # <<>> /\ Head(left) = "storyboard"
    BY LoopShape
  <1>2. \A s : Ids(Me, s) = R(s)
    BY IdsRecorded DEF Me
  <1>3. stage # "idle" /\ New => \A i, j : i \in R("gerrit") /\ j \in R("gerrit") => i = j
    BY <1>0 DEF Welcomed, R
  \* Other requests are not about newcomers, and nothing is claimed of them.
  <1>4. ASSUME req' = req, calm' = calm, ~New PROVE Welcomed' /\ NewcomersServed'
    BY <1>4 DEF Welcomed, NewcomersServed
  <1>5. ASSUME stage' # "idle" PROVE NewcomersServed'
    BY <1>5 DEF NewcomersServed
  <1>6. ASSUME stage' = "idle" PROVE Welcomed'
    BY <1>6 DEF Welcomed
  <1>. HIDE DEF R
  <1>7. CASE UpdateConfused \/ UpdateGerrit \/ UpdateStoryboard \/ UpdateMissingGerrit
             \/ UpdateMissingStoryboard \/ DeleteOnGerrit \/ DeleteOnStoryboard \/ DropMapping
    <2>1. req.job # "create"
      BY <1>7 DEF UpdateConfused, UpdateGerrit, UpdateStoryboard, UpdateMissingGerrit,
         UpdateMissingStoryboard, DeleteOnGerrit, DeleteOnStoryboard, DropMapping, At
    <2>2. Leave \/ (\E code : End(code)) \/ (\E st, i : Continue(st, i))
      BY <1>7 DEF UpdateConfused, UpdateGerrit, UpdateStoryboard, UpdateMissingGerrit,
         UpdateMissingStoryboard, CreateOnStoryboard, DeleteOnGerrit, DeleteOnStoryboard, DropMapping
    <2>. QED
      BY <1>4, <2>1, <2>2, RequestMoves
  <1>8. CASE FoundOnGerrit
    <2>1. /\ left = Services /\ stage = "call" /\ UNCHANGED <<mapping, gerrit, storyboard>> /\ gerrit[req.who] # 0
          /\ \/ Continue("map", gerrit[req.who])
             \/ /\ (\E code : End(code)) \/ Leave
                /\ \E m \in mapping : m.service = "gerrit" /\ m.sid = gerrit[req.who]
      BY <1>0, <1>1, <1>8 DEF FoundOnGerrit, At, AccountOf, MappingsOf, tables, services
    <2>2. (\E m \in mapping : m.service = "gerrit" /\ m.sid = gerrit[req.who]) => R("gerrit") # {}
      BY <2>1, LinkedIsMine DEF R, Recorded, LinksInv
    <2>3. CASE ~New
      BY <1>4, <2>1, <2>3, RequestMoves
    <2>4. CASE New
      <3>1. R("gerrit") = {} /\ R("storyboard") = {}
        BY <1>1, <2>1, <2>4 DEF Welcomed, R
      <3>2. /\ req' = req /\ calm' = calm /\ left' = Services /\ stage' = "map"
            /\ made' = gerrit[req.who]
        BY <2>1, <2>2, <3>1, RequestMoves
      <3>. QED
        BY <1>5, <2>1, <3>1, <3>2, LoopShape DEF Welcomed, R
    <2>. QED
      BY <2>3, <2>4
  <1>9. CASE CreateOnGerrit
    <2>1. /\ left = Services /\ stage = "call" /\ UNCHANGED <<mapping, storyboard>>
          /\ \E i : /\ gerrit' = [gerrit EXCEPT ![req.who] = i]
                   /\ Continue("unmap", i)
      BY <1>0, <1>1, <1>9 DEF CreateOnGerrit, At, AccountOf, tables
    <2>2. CASE ~New
      BY <1>4, <2>1, <2>2, RequestMoves
    <2>3. CASE New
      <3>1. R("gerrit") = {} /\ R("storyboard") = {}
        BY <1>1, <2>1, <2>3 DEF Welcomed, R
      <3>2. /\ req' = req /\ left' = Services /\ stage' = "unmap" /\ made' = gerrit'[req.who]
        BY <1>0, <2>1, RequestMoves
      <3>. QED
        BY <1>5, <2>1, <3>1, <3>2, LoopShape DEF Welcomed, R
    <2>. QED
      BY <2>2, <2>3
  <1>10. CASE CreateStoryboard
    <2>1. /\ left = <<"storyboard">> /\ stage = "call" /\ UNCHANGED <<mapping, gerrit>>
          /\ IF req.ext = 0 THEN End(500)
             ELSE Continue("unmap", req.ext) /\ storyboard' = storyboard \union {req.ext}
      BY <1>0, <1>1, <1>10 DEF CreateStoryboard, CreateOnStoryboard, At, tables
    <2>2. CASE ~New
      BY <1>4, <2>1, <2>2, RequestMoves
    <2>3. CASE New
      <3>1. /\ gerrit[req.who] # 0 /\ R("gerrit") = {gerrit[req.who]} /\ R("storyboard") = {}
        BY <1>1, <2>1, <2>3, LoopShape DEF Welcomed, R
      <3>2. CASE req.ext = 0
        <4>1. req' = req /\ answer' = 500 /\ stage' = "idle" /\ \A s : Ids(req.user, s)' = R(s)
          BY <2>1, <3>2, RequestMoves DEF R, Ids, Recorded
        <4>2. NewcomersServed'
          BY <2>1, <3>1, <3>2, <4>1 DEF NewcomersServed, Ids
        <4>. QED
          BY <1>6, <4>1, <4>2
      <3>3. CASE req.ext # 0
        <4>1. req' = req /\ stage' = "unmap" /\ left' = <<"storyboard">> /\ req.ext \in storyboard'
          BY <2>1, <3>3, RequestMoves
        <4>. QED
          BY <1>5, <2>1, <3>1, <3>3, <4>1, LoopShape DEF Welcomed, R
      <3>. QED
        BY <3>2, <3>3
    <2>. QED
      BY <2>2, <2>3
  <1>11. CASE Unmap
    <2>1. /\ left # <<>> /\ stage = "unmap" /\ UNCHANGED <<gerrit, storyboard>>
          /\ \/ End(500) /\ Confused(Here)
             \/ /\ Continue("map", made)
                /\ mapping' = mapping \ {Link(req.user, Here, i) : i \in Ids(req.user, Here)}
      BY <1>0, <1>11 DEF Unmap, Me, services
    <2>2. CASE ~New
      BY <1>4, <2>1, <2>2, RequestMoves
    <2>3. CASE New
      <3>1. R("storyboard") = {} /\ Here \in {"gerrit", "storyboard"} /\ R(Here) = {}
        BY <1>0, <1>1, <2>1, <2>3 DEF Welcomed, R, Here
      <3>2. ~Confused(Here)
        BY <1>2, <3>1 DEF Confused
      <3>3. \A s : Recorded(mapping', req.user, s) = R(s)
        <4>1. Ids(req.user, Here) = {}
          BY <1>2, <3>1 DEF Me
        <4>2. mapping' = mapping
          BY <2>1, <3>2, <4>1
        <4>. QED
          BY <4>2 DEF R
      <3>4. req' = req /\ calm' = calm /\ left' = left /\ stage' = "map" /\ made' = made
        BY <2>1, <3>2, RequestMoves
      <3>. QED
        BY <1>0, <1>5, <2>1, <2>3, <3>3, <3>4, LoopShape DEF Welcomed, R
    <2>. QED
      BY <2>2, <2>3
  <1>12. CASE Map
    <2>1. /\ left # <<>> /\ stage = "map" /\ UNCHANGED <<gerrit, storyboard>> /\ Leave
          /\ mapping' = mapping \union {Link(req.user, Here, made)}
      BY <1>0, <1>12 DEF Map, Me, services
    <2>2. /\ Recorded(mapping', req.user, Here) = R(Here) \union {made}
          /\ \A t : t # Here => Recorded(mapping', req.user, t) = R(t)
      BY <1>12, RecordedByMap DEF R
    <2>3. CASE ~New
      BY <1>4, <2>1, <2>3, RequestMoves
    <2>4. CASE New /\ left = Services
      <3>1. R("gerrit") = {} /\ R("storyboard") = {} /\ made = gerrit[req.who] /\ made # 0
        BY <1>0, <1>1, <2>1, <2>4 DEF Welcomed, R
      <3>2. /\ Recorded(mapping', req.user, "gerrit") = {gerrit[req.who]}
            /\ Recorded(mapping', req.user, "storyboard") = {}
        BY <1>1, <2>2, <2>4, <3>1 DEF Here
      <3>3. req' = req /\ left' = <<"storyboard">> /\ stage' = "call"
        BY <2>1, <2>4, RequestMoves
      <3>. QED
        BY <1>5, <2>1, <3>1, <3>2, <3>3, LoopShape DEF Welcomed
    <2>5. CASE New /\ left = <<"storyboard">>
      <3>1. /\ gerrit[req.who] # 0 /\ R("gerrit") = {gerrit[req.who]} /\ R("storyboard") = {}
            /\ req.ext # 0 /\ req.ext \in storyboard /\ made = req.ext
        BY <1>1, <2>1, <2>5, LoopShape DEF Welcomed, R, LinksInv, LinkTrue
      <3>2. /\ Recorded(mapping', req.user, "gerrit") = {gerrit[req.who]}
            /\ Recorded(mapping', req.user, "storyboard") = {req.ext}
        BY <1>1, <2>2, <2>5, <3>1 DEF Here
      <3>3. req' = req /\ left' = <<>> /\ stage' = "call"
        BY <2>1, <2>5, RequestMoves
      <3>. QED
        BY <1>5, <2>1, <3>1, <3>2, <3>3, LoopShape DEF Welcomed
    <2>. QED
      BY <1>0, <2>1, <2>3, <2>4, <2>5
  <1>13. CASE Finish
    <2>1. /\ left = <<>> /\ stage = "call" /\ UNCHANGED <<mapping, gerrit, storyboard>>
          /\ End(IF req.job = "delete" THEN 204 ELSE 201)
      BY <1>13 DEF Finish, services
    <2>2. CASE ~New
      BY <1>4, <2>1, <2>2, RequestMoves
    <2>3. CASE New
      <3>1. req' = req /\ answer' = 201 /\ stage' = "idle" /\ \A s : Ids(req.user, s)' = R(s)
        BY <2>1, <2>3, RequestMoves DEF R, Ids, Recorded
      <3>2. /\ gerrit[req.who] # 0 /\ R("gerrit") = {gerrit[req.who]}
            /\ req.ext # 0 /\ req.ext \in storyboard /\ R("storyboard") = {req.ext}
        BY <2>1, <2>3, LoopShape DEF Welcomed, R
      <3>3. NewcomersServed'
        BY <2>1, <3>1, <3>2 DEF NewcomersServed, Ids
      <3>. QED
        BY <1>6, <3>1, <3>3
    <2>. QED
      BY <2>2, <2>3
  <1>14. CASE Fail
    BY <1>14 DEF Fail, Welcomed, NewcomersServed
  <1>. QED
    BY <1>7, <1>8, <1>9, <1>10, <1>11, <1>12, <1>13, <1>14 DEF Serving

LEMMA AnswersInductive ==
    ASSUME TypeOK, LinksInv, AnswersInv, [Next]_vars, TypeOK'
    PROVE  AnswersInv'
  <1> USE DEF AnswersInv
  <1>1. ASSUME NEW p \in People, Request(p) PROVE AnswersInv'
    <2>1. mapping' = mapping /\ gerrit' = gerrit /\ storyboard' = storyboard
      BY <1>1, RequestShape
    <2>2. CASE ComesIn(p)
      <3>1. /\ stage' = "call" /\ left' = Services /\ answer' = 0
            /\ req'.job = "create" /\ req'.newcomer =>
                  \A s : Recorded(mapping', req'.user, s) = {}
        BY <2>1, <2>2, NewRowUnmapped DEF ComesIn, LinksInv
      <3>. QED
        BY <3>1, LoopShape DEF Visited, Welcomed, SuccessMeansMapped, NewcomersServed
    <2>3. CASE stage' = "idle" /\ req' = NoReq
      BY <2>3 DEF Visited, Welcomed, SuccessMeansMapped, NewcomersServed
    <2>. QED
      BY <1>1, <2>2, <2>3, RequestShape
  <1>2. ASSUME NEW p \in People, RemoveByHand(p) PROVE AnswersInv'
    <2>1. calm' = FALSE /\ UNCHANGED <<mapping, storyboard, req, left, stage, made, answer>>
      BY <1>2 DEF RemoveByHand, tables
    <2>2. Visited' /\ Welcomed' /\ NewcomersServed'
      BY <2>1 DEF Visited, Welcomed, NewcomersServed
    <2>3. SuccessMeansMapped'
      BY <2>1 DEF SuccessMeansMapped, Ids
    <2>. QED
      BY <2>2, <2>3
  <1>3. CASE DeleteRefused
    BY <1>3 DEF DeleteRefused, Reply, Visited, Welcomed, SuccessMeansMapped, NewcomersServed
  <1>4. CASE Serving
    BY <1>4, ServingVisits, ServingWelcomes
  <1>5. CASE UNCHANGED vars
    <2>1. Visited' /\ Welcomed'
      BY <1>5 DEF vars, Visited, Welcomed
    <2>2. SuccessMeansMapped'
      BY <1>5 DEF vars, SuccessMeansMapped, Ids
    <2>3. NewcomersServed'
      BY <1>5 DEF vars, NewcomersServed, Ids
    <2>. QED
      BY <2>1, <2>2, <2>3
  <1>. QED
    BY <1>1, <1>2, <1>3, <1>4, <1>5 DEF Next

\* What is behind the answers: what a request has achieved on each service it has
\* been to, and that it finds a newcomer's place there free.
THEOREM AnswersInvariant == Spec => [](LinksInv /\ AnswersInv)
  <1>1. Init => LinksInv /\ AnswersInv
    BY PeopleAssumption
       DEF Init, LinksInv, MappingsTrue, GerritOwn, LinkTrue, Dropped, AnswersInv, Visited, Welcomed,
           SuccessMeansMapped, NewcomersServed
  <1>2. TypeOK /\ LinksInv /\ AnswersInv /\ [Next]_vars => (LinksInv /\ AnswersInv)'
    BY LinksInductive, AnswersInductive, UsersStep
  <1>. QED
    BY <1>1, <1>2, UsersTypeCorrect, PTL DEF Spec

\* A creation or an update that answers 201 has mapped the user on every service.
THEOREM SuccessesAreMapped == Spec => []SuccessMeansMapped
  <1>1. AnswersInv => SuccessMeansMapped
    BY DEF AnswersInv
  <1>. QED
    BY <1>1, AnswersInvariant, PTL

\* Somebody without a row gets true mappings, or an error and half of them.
THEOREM NewcomersAreServed == Spec => []NewcomersServed
  <1>1. AnswersInv => NewcomersServed
    BY DEF AnswersInv
  <1>. QED
    BY <1>1, AnswersInvariant, PTL
=============================================================================
