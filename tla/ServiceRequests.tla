-------------------------- MODULE ServiceRequests --------------------------
(***************************************************************************)
(* A request to managesf, as the controllers of jobs, nodes and hooks      *)
(* handle it (managesf/controllers/root.py): the process works on one      *)
(* request at a time, makes a series of calls to the service the request   *)
(* is about, and answers with an HTTP status.                              *)
(***************************************************************************)
EXTENDS Naturals

VARIABLES
    kind,     \* what the request is about: "hooks", "jobs" or "nodes"
    pc,       \* the call made next; "idle" or "answered" between requests
    answer    \* HTTP status of the last request, 0 if it has none

requestVars == <<kind, pc, answer>>

RequestInit == kind \in {"hooks", "jobs", "nodes"} /\ pc = "idle" /\ answer = 0

Come(first) == pc \in {"idle", "answered"} /\ pc' = first /\ answer' = 0 /\ UNCHANGED kind

GoOn(next) == pc' = next /\ UNCHANGED <<kind, answer>>

Answer(code) == pc' = "answered" /\ answer' = code /\ UNCHANGED kind

\* The answer is sent; what happens from now on is later than it.
Sent == pc = "answered" /\ pc' = "idle" /\ UNCHANGED <<kind, answer>>

\* The process is killed: the client has no answer.
Killed == pc \notin {"idle", "answered"} /\ pc' = "idle" /\ UNCHANGED <<kind, answer>>

\* Others act at any time, between two calls of a request or between requests.
Elsewhere == pc # "answered" /\ UNCHANGED requestVars

RequestTypeOK ==
    /\ kind \in {"hooks", "jobs", "nodes"}
    /\ answer \in {0, 200, 201, 204, 400, 500}
=============================================================================
