--------------------------- MODULE CallbackCalls ---------------------------
(***************************************************************************)
(* What the callbacks of all resources have in common                      *)
(* (managesf/model/yamlbkd/resources/).  A callback is a series of calls   *)
(* to a service.  A call works, is refused (404 or 409: the client returns *)
(* False), or raises; the latter two are logged, by the callback, which    *)
(* goes on, or by the engine, which caught an exception of the callback.   *)
(***************************************************************************)
EXTENDS ServiceObjects

CONSTANT Texts   \* descriptions
ASSUME TextsAssumption == Texts # {}

VARIABLES
    kind,    \* type of the resource
    ctype,   \* the callback: "create", "update" or "delete"
    pc,      \* the call it makes next
    logs,    \* it has logged something or raised
    calm     \* ghost: no service has failed it

callVars == <<kind, ctype, pc, logs, calm>>

AnyText == CHOOSE d \in Texts : TRUE

CallInit ==
    /\ kind \in {"groups", "repos", "projects"}
    /\ ctype = "create" /\ pc = "idle" /\ logs = FALSE /\ calm = TRUE

\* The engine, which runs one callback after the other, calls one.
Call(c, first) ==
    /\ pc \in {"idle", "done"}
    /\ ctype' = c /\ pc' = first /\ logs' = FALSE /\ calm' = TRUE
    /\ UNCHANGED kind

GoOn(next) == pc' = next /\ UNCHANGED <<kind, ctype, logs, calm>>

Log(next) == pc' = next /\ logs' = TRUE /\ UNCHANGED <<kind, ctype, calm>>

Raise(next) == pc' = next /\ logs' = TRUE /\ calm' = FALSE /\ UNCHANGED <<kind, ctype>>

\* A call that makes effect of the object x of a service, provided it is valid,
\* and may do so even if the answer is lost.
Tell(x, valid, effect, next, raised) ==
    \/ valid /\ x' = effect /\ (GoOn(next) \/ Raise(raised))
    \/ UNCHANGED x /\ ((~valid /\ Log(next)) \/ Raise(raised))

\* Somebody changes x by hand, between two callbacks.
ByHand(x, values) == pc = "idle" /\ x' \in values /\ UNCHANGED callVars

\* The process is killed.
Killed == pc # "idle" /\ Raise("idle")

CallTypeOK ==
    /\ kind \in {"groups", "repos", "projects"}
    /\ ctype \in {"create", "update", "delete"}
    /\ logs \in BOOLEAN /\ calm \in BOOLEAN
=============================================================================
