--------------------------- MODULE ServicesUsers ---------------------------
(***************************************************************************)
(* Users of managesf and their accounts on the services                    *)
(* (ServicesUsersController in managesf/controllers/root.py, SFuser.py,    *)
(* the CRUD classes of managesf/model/__init__.py, services/*/user.py).    *)
(* A request changes the row of a user, then goes through the services one *)
(* by one, calling each and recording the user's id there.  Every call and *)
(* every record is committed on its own; the first exception ends the      *)
(* request and undoes nothing.  managesf serves one request at a time.     *)
(* 201 stands for the answer 200 of PUT as well.                           *)
(*                                                                         *)
(* A person stands for a user name, which never changes.  Ids of the       *)
(* identity provider (external_id, cauth_id) are numbers, 0 if absent;     *)
(* Storyboard uses them for its own accounts.  What the row holds besides  *)
(* (email, full name) is one value.  Jenkins and Nodepool have no users:   *)
(* their managers answer UnavailableActionError, which is ignored.         *)
(***************************************************************************)
EXTENDS Naturals, Sequences

CONSTANTS People, Admin,
          ExtIds, Owner,      \* ids the identity provider gave, and to whom
          Infos,              \* what the row of a user holds
          UserIds,            \* ids of rows
          GerritIds,          \* ids of Gerrit accounts, a bound on creations
          NoRow, NoReq

ASSUME PeopleAssumption ==
    /\ ExtIds \subseteq Nat \ {0} /\ Owner \in [ExtIds -> People]
    /\ Admin \in People
    /\ 1 \in ExtIds => Owner[1] = Admin
ASSUME IdsAssumption == GerritIds \subseteq Nat \ {0, 1}
Row == [id: UserIds, info: Infos, cauth: ExtIds \union {0}, sync: BOOLEAN]
Req == [job: {"create", "update", "delete"}, who: People, user: UserIds,
        ext: ExtIds \union {0}, mailed: BOOLEAN, newcomer: BOOLEAN]
ASSUME RowsAssumption == NoRow \notin Row /\ NoReq \notin Req

VARIABLES
    rows,        \* table SF_USERS, by user name
    mapping,     \* table SF_USERS_SERVICES_MAPPING
    gerrit,      \* account of each person on Gerrit, 0 if none
    storyboard,  \* ids of the Storyboard accounts
    req,         \* the request being served, or the last one that was not cut short
    left,        \* SF_SERVICES, those still to be visited
    stage,       \* what is done on the first of them
    made,        \* the id to record for it
    answer,      \* status of the last answer, 0 while serving
    calm         \* nothing failed since the request came

vars == <<rows, mapping, gerrit, storyboard, req, left, stage, made, answer, calm>>
tables == <<rows, mapping>>
services == <<gerrit, storyboard>>

Services == <<"gerrit", "storyboard">>
Link(u, s, i) == [user |-> u, service |-> s, sid |-> i]
Ids(u, s) == {m.sid : m \in {n \in mapping : n.user = u /\ n.service = s}}
UsedIds == {rows[p].id : p \in {q \in People : rows[q] # NoRow}}

Init ==
    /\ rows = [p \in People |-> NoRow]
    /\ mapping = {}
    /\ gerrit = [p \in People |-> IF p = Admin THEN 1 ELSE 0]
    /\ storyboard = {}
    /\ req = NoReq /\ left = <<>> /\ stage = "idle" /\ made = 0
    /\ answer = 0 /\ calm = TRUE

-----------------------------------------------------------------------------
(* Requests.  Those that policies or missing fields refuse change nothing.  *)

\* From here on the request works through the services.
Serve(job, p, u, ext, mailed) ==
    /\ req' = [job |-> job, who |-> p, user |-> u, ext |-> ext, mailed |-> mailed,
               newcomer |-> rows[p] = NoRow]
    /\ left' = Services /\ stage' = "call" /\ made' = 0
    /\ answer' = 0 /\ calm' = TRUE

\* It is answered at once.
Reply(code) ==
    /\ req' = NoReq
    /\ answer' = code /\ calm' = TRUE
    /\ UNCHANGED <<left, stage, made>>

\* SFUserCRUD.get(cauth_id=...)
Known(p, ext) == ext # 0 /\ rows[p] # NoRow /\ rows[p].cauth = ext

PostKnown(p, ext, info) ==
    /\ stage = "idle" /\ Known(p, ext) /\ rows[p].sync
    /\ rows' = [rows EXCEPT ![p].info = info]
    /\ Serve("update", p, rows[p].id, ext, TRUE)
    /\ UNCHANGED <<mapping, services>>

\* idp_sync is off: the row and the accounts stay as they are.
PostSkipped(p, ext) ==
    /\ stage = "idle" /\ Known(p, ext) /\ ~rows[p].sync
    /\ Reply(201)
    /\ UNCHANGED <<tables, services>>

PostNew(p, ext, info) ==
    /\ stage = "idle" /\ rows[p] = NoRow
    /\ \E u \in UserIds \ UsedIds :
          /\ rows' = [rows EXCEPT ![p] = [id |-> u, info |-> info, cauth |-> ext, sync |-> TRUE]]
          /\ Serve("create", p, u, ext, TRUE)
    /\ UNCHANGED <<mapping, services>>

\* The same user name, email and full name: reset_cauth_id.
PostMatched(p, ext, info) ==
    /\ stage = "idle" /\ rows[p] # NoRow /\ ~Known(p, ext) /\ rows[p].info = info
    /\ rows' = [rows EXCEPT ![p].cauth = IF ext = 0 THEN @ ELSE ext]
    /\ Serve("create", p, rows[p].id, ext, TRUE)
    /\ UNCHANGED <<mapping, services>>

\* The same user name only: the table refuses a second row.
PostConflict(p, ext, info) ==
    /\ stage = "idle" /\ rows[p] # NoRow /\ ~Known(p, ext) /\ rows[p].info # info
    /\ Reply(500)
    /\ UNCHANGED <<tables, services>>

\* The payload may leave the email out, and is only passed on to the services
\* if it holds an external id.
Put(p, ext, info, sync, mailed) ==
    /\ stage = "idle" /\ rows[p] # NoRow
    /\ rows' = [rows EXCEPT ![p].info = info, ![p].sync = sync]
    /\ Serve("update", p, rows[p].id, ext, mailed)
    /\ UNCHANGED <<mapping, services>>

\* A plausible slip: the row goes first.
DeleteRowFirst(p, mailed) ==
    /\ stage = "idle" /\ rows[p] # NoRow
    /\ rows' = [rows EXCEPT ![p] = NoRow]
    /\ Serve("delete", p, rows[p].id, 0, mailed)
    /\ UNCHANGED <<mapping, services>>

\* DELETE by user name, or by email.
Delete(p, mailed) ==
    /\ stage = "idle" /\ rows[p] # NoRow
    /\ Serve("delete", p, rows[p].id, 0, mailed)
    /\ UNCHANGED <<tables, services>>

\* DELETE by id, or by user name and email: Gerrit wants exactly one of the two.
DeleteRefused ==
    /\ stage = "idle"
    /\ Reply(500)
    /\ UNCHANGED <<tables, services>>

\* PUT or DELETE of somebody who has no row.
Unknown(p) ==
    /\ stage = "idle" /\ rows[p] = NoRow
    /\ Reply(404)
    /\ UNCHANGED <<tables, services>>

-----------------------------------------------------------------------------
(* One service after the other.                                             *)

At(job, s) ==
    /\ stage = "call" /\ left # <<>> /\ Head(left) = s
    /\ req.job = job

Continue(st, i) == stage' = st /\ made' = i /\ UNCHANGED <<req, left, answer, calm>>
Leave == left' = Tail(left) /\ stage' = "call" /\ made' = 0 /\ UNCHANGED <<req, answer, calm>>
End(code) ==
    /\ left' = <<>> /\ stage' = "idle" /\ made' = 0
    /\ answer' = code
    /\ UNCHANGED <<req, calm>>

Me == req.user
Here == Head(left)

\* get_service_mapping raises on two rows.
Confused(s) == \E i, j \in Ids(Me, s) : i # j
Mapped(s) == Ids(Me, s) # {} /\ ~Confused(s)

UpdateConfused ==
    /\ \E s \in {"gerrit", "storyboard"} : At("update", s) /\ Confused(s)
    /\ End(500)
    /\ UNCHANGED <<tables, services>>

\* What Gerrit keeps besides the account is not modelled; an account that is
\* not there any more is not missed.
UpdateGerrit ==
    /\ At("update", "gerrit") /\ Mapped("gerrit")
    /\ Leave
    /\ UNCHANGED <<tables, services>>

\* create_update_user creates the account if need be; without an email, looking
\* for the user then returns all of them and the request ends by a TypeError.
UpdateStoryboard ==
    /\ At("update", "storyboard") /\ Mapped("storyboard")
    /\ storyboard' = storyboard \union Ids(Me, "storyboard")
    /\ IF req.mailed THEN Leave ELSE End(500)
    /\ UNCHANGED <<tables, gerrit>>

\* The user is not mapped.  The payload has lost the user name, which Gerrit
\* cannot change, and Gerrit creates nobody without one but the admin, who is
\* there already.
UpdateMissingGerrit ==
    /\ At("update", "gerrit") /\ Ids(Me, "gerrit") = {}
    /\ IF req.ext = 1 THEN Continue("map", 1) ELSE End(500)
    /\ UNCHANGED <<tables, services>>

\* StoryboardUserManager.create, with int(cauth_id) first.
CreateOnStoryboard(st) ==
    /\ IF req.ext = 0
       THEN End(500) /\ UNCHANGED storyboard
       ELSE Continue(st, req.ext) /\ storyboard' = storyboard \union {req.ext}
    /\ UNCHANGED <<tables, gerrit>>

UpdateMissingStoryboard ==
    /\ At("update", "storyboard") /\ Ids(Me, "storyboard") = {}
    /\ CreateOnStoryboard("map")

\* Plausible slips: the account is not looked for; any mapping at all will do.
Overlooked(p) == 0
AnyMapping(i) == {m \in mapping : m.service = "gerrit"}

\* SFGerritUserManager.get
AccountOf(p) == gerrit[p]
\* get_user_mapping, the rows of an account
MappingsOf(i) == {m \in mapping : m.service = "gerrit" /\ m.sid = i}

FoundOnGerrit ==
    /\ At("create", "gerrit") /\ AccountOf(req.who) # 0
    /\ LET linked == MappingsOf(AccountOf(req.who)) IN
          IF linked = {} THEN Continue("map", AccountOf(req.who))
          ELSE IF \E m, n \in linked : m # n THEN End(500) ELSE Leave
    /\ UNCHANGED <<tables, services>>

\* Gerrit refuses a user name it has, and gives ids it never gave before.
CreateOnGerrit ==
    /\ At("create", "gerrit") /\ AccountOf(req.who) = 0
    /\ IF gerrit[req.who] # 0
       THEN End(500) /\ UNCHANGED gerrit
       ELSE \E i \in GerritIds :
              /\ i \notin {gerrit[p] : p \in People} \union {m.sid : m \in mapping}
              /\ gerrit' = [gerrit EXCEPT ![req.who] = i]
              /\ Continue("unmap", i)
    /\ UNCHANGED <<tables, storyboard>>

\* Storyboard's get looks for an id that is null and finds nobody.
CreateStoryboard ==
    /\ At("create", "storyboard")
    /\ CreateOnStoryboard("unmap")

\* After a creation: an older mapping of the user is wrong.
Unmap ==
    /\ stage = "unmap" /\ req.job = "create"
    /\ IF Confused(Here)
       THEN End(500) /\ UNCHANGED mapping
       ELSE /\ mapping' = mapping \ {Link(Me, Here, i) : i \in Ids(Me, Here)}
            /\ Continue("map", made)
    /\ UNCHANGED <<rows, services>>

Map ==
    /\ stage = "map"
    /\ mapping' = mapping \union {Link(Me, Here, made)}
    /\ Leave
    /\ UNCHANGED <<rows, services>>

\* Gerrit removes the account by SQL, an error of which is only logged.
DeleteOnGerrit ==
    /\ At("delete", "gerrit")
    /\ gerrit' \in {gerrit, [gerrit EXCEPT ![req.who] = 0]}
    /\ Continue("unmap", 0)
    /\ UNCHANGED <<tables, storyboard>>

\* By email, the accounts that have it; by user name, none.
DeleteOnStoryboard ==
    /\ At("delete", "storyboard")
    /\ \E gone \in SUBSET {c \in storyboard : Owner[c] = req.who} :
          /\ req.mailed \/ gone = {}
          /\ storyboard' = storyboard \ gone
    /\ Continue("unmap", 0)
    /\ UNCHANGED <<tables, gerrit>>

\* A plausible slip: the mapping is left for the database to remove.
KeepMapping ==
    /\ stage = "unmap" /\ req.job = "delete"
    /\ Leave
    /\ UNCHANGED <<tables, services>>

DropMapping ==
    /\ stage = "unmap" /\ req.job = "delete"
    /\ mapping' = {m \in mapping : m.user # Me \/ m.service # Here}
    /\ Leave
    /\ UNCHANGED <<rows, services>>

Finish ==
    /\ stage = "call" /\ left = <<>>
    /\ rows' = IF req.job = "delete" THEN [rows EXCEPT ![req.who] = NoRow] ELSE rows
    /\ End(IF req.job = "delete" THEN 204 ELSE 201)
    /\ UNCHANGED <<mapping, services>>

\* A service or the database raises, or the process dies, before the step it
\* is about to take.
Fail ==
    /\ stage # "idle"
    /\ req' = NoReq /\ left' = <<>> /\ stage' = "idle" /\ made' = 0
    /\ answer' = 500 /\ calm' = FALSE
    /\ UNCHANGED <<tables, services>>

\* Somebody removes the account from Gerrit.
RemoveByHand(p) ==
    /\ gerrit[p] # 0
    /\ gerrit' = [gerrit EXCEPT ![p] = 0]
    /\ calm' = FALSE
    /\ UNCHANGED <<tables, storyboard, req, left, stage, made, answer>>

Request(p) ==
    \/ \E ext \in {0} \union {c \in ExtIds : Owner[c] = p} :
          \/ PostSkipped(p, ext)
          \/ \E info \in Infos :
                \/ PostKnown(p, ext, info) \/ PostNew(p, ext, info)
                \/ PostMatched(p, ext, info) \/ PostConflict(p, ext, info)
                \/ \E sync, mailed \in BOOLEAN : Put(p, ext, info, sync, mailed)
    \/ \E mailed \in BOOLEAN : Delete(p, mailed)
    \/ Unknown(p)

Serving ==
    \/ UpdateConfused \/ UpdateGerrit \/ UpdateStoryboard
    \/ UpdateMissingGerrit \/ UpdateMissingStoryboard
    \/ FoundOnGerrit \/ CreateOnGerrit \/ CreateStoryboard
    \/ Unmap \/ Map
    \/ DeleteOnGerrit \/ DeleteOnStoryboard \/ DropMapping
    \/ Finish
    \/ Fail

Next ==
    \/ \E p \in People : Request(p) \/ RemoveByHand(p)
    \/ DeleteRefused
    \/ Serving

Spec == Init /\ [][Next]_vars

-----------------------------------------------------------------------------

Sids == GerritIds \union ExtIds \union {1}

\* Rows have different ids, and Storyboard's ids are those of the identity
\* provider.
TablesOK ==
    /\ rows \in [People -> Row \union {NoRow}]
    /\ \A p, q \in People : rows[p] # NoRow /\ rows[q] # NoRow /\ rows[p].id = rows[q].id => p = q
    /\ mapping \subseteq [user: UserIds, service: {"gerrit", "storyboard"}, sid: Sids]
    /\ \A m \in mapping : m.service = "storyboard" => m.sid \in ExtIds

AccountsOK ==
    /\ gerrit \in [People -> GerritIds \union {0, 1}]
    /\ storyboard \subseteq ExtIds

\* A request under way has an id to record where it records one.
RequestOK ==
    /\ req \in Req \union {NoReq}
    /\ left \in {<<>>, <<"storyboard">>, Services}
    /\ stage \in {"idle", "call", "unmap", "map"}
    /\ made \in Sids \union {0}
    /\ answer \in {0, 201, 204, 404, 500} /\ calm \in BOOLEAN
    /\ stage # "idle" => req # NoReq /\ answer = 0
    /\ stage \in {"unmap", "map"} => left # <<>>
    /\ stage = "map" \/ (stage = "unmap" /\ req.job = "create") =>
          made # 0 /\ (left = <<"storyboard">> => made \in ExtIds)

\* The request under way is about a row that exists.
RowServed == stage # "idle" => rows[req.who] # NoRow /\ rows[req.who].id = req.user

\* Every variable keeps its type, and what a request relies on while it goes
\* from service to service stays true: nothing it needs has been removed.
TypeOK == TablesOK /\ AccountsOK /\ RequestOK /\ RowServed

\* A mapping belongs to a row, and the account it names, if it is still there,
\* is that of the person of the row.  The foreign key of the table, which
\* refuses to delete a row that has mappings, therefore never gets in the way.
MappingsTrue ==
    \A m \in mapping : \E p \in People :
        /\ rows[p] # NoRow /\ rows[p].id = m.user
        /\ m.service = "gerrit" => \A q \in People : gerrit[q] = m.sid => q = p
        /\ m.service = "storyboard" => Owner[m.sid] = p

\* A creation or an update that answers 201 or 200 has mapped the user on every
\* service, whatever earlier requests left half done.
SuccessMeansMapped ==
    answer = 201 /\ req # NoReq =>
        /\ Ids(req.user, "gerrit") # {}
        /\ \E c \in storyboard : Ids(req.user, "storyboard") = {c}

\* Somebody without a row, whatever accounts are left of an earlier life,
\* gets one row and one true mapping on every service, unless a service fails.
\* Those to whom the identity provider gives no id are told 500, though only
\* their place on Storyboard is missing: row and Gerrit account stay, and match.
NewcomersServed ==
    req # NoReq /\ stage = "idle" /\ calm /\ req.job = "create" /\ req.newcomer =>
        /\ gerrit[req.who] # 0 /\ Ids(req.user, "gerrit") = {gerrit[req.who]}
        /\ IF req.ext # 0
           THEN /\ answer = 201
                /\ req.ext \in storyboard /\ Ids(req.user, "storyboard") = {req.ext}
           ELSE answer = 500 /\ Ids(req.user, "storyboard") = {}

\* "we might have a mapping, but to a wrong user id in the service (because the
\* user existed before but was removed directly from the service, for
\* example)": such a mapping is removed when the new one is set, so that users
\* have one mapping per service.
OneMapping ==
    \A p \in People : rows[p] # NoRow => \A i, j \in Ids(rows[p].id, "gerrit") : i = j
=============================================================================
