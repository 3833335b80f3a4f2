--------------------------- MODULE NodepoolNodes ---------------------------
(***************************************************************************)
(* Listing, holding and deleting Nodepool nodes, and putting keys on them  *)
(* (managesf/services/nodepool/node.py, NodesController in                 *)
(* controllers/root.py).  Every call is a command run over ssh.  Nodepool  *)
(* makes and removes nodes all the time, and gives their addresses again.  *)
(***************************************************************************)
EXTENDS ServiceRequests

CONSTANTS NodeIds,      \* ids Nodepool gives, one after the other, from 1
          Addresses,
          NoNode

VARIABLES
    nodes,     \* on Nodepool, by id: address and state
    given,     \* the last id that was given
    keys,      \* the nodes on whose machine a key was put
    errand,    \* what is asked for, and of which node
    rows,      \* the nodes found by get()
    cut,       \* ghost: calls of this request whose connection was lost
    meddled,   \* ghost: others have changed its node since it came
    wanted,    \* ghost: ids for which a key was ever sent
    reused     \* ghost: nodes made while a key was on its way to its address

nodeVars == <<nodes, given, keys, errand, rows, cut, meddled, wanted, reused>>
nodepool == <<nodes, given, keys>>

ASSUME NodeIdsAssumption == NodeIds \subseteq Nat \ {0} /\ NodeIds # {}

NodeStates == {"used", "hold", "delete"}
Node == [ip: Addresses, state: NodeStates]
Row == [id: NodeIds, ip: Addresses, state: NodeStates]
ASSUME NoNodeAssumption == NoNode \notin Node

\* What `nodepool list' prints.
Rows == {[id |-> n, ip |-> nodes[n].ip, state |-> nodes[n].state] :
            n \in {m \in NodeIds : nodes[m] # NoNode}}

\* A plausible slip: all nodes, whatever the id.
RowsUnfiltered(id, all) == all

\* The rows get(node_id) keeps.  The id 0 is taken for none, and means all.
RowsOf(id, all) == IF id = 0 THEN all ELSE {r \in all : r.id = id}

NoErrand == [op |-> "get", id |-> 0]

NodeInit ==
    /\ nodes = [n \in NodeIds |-> NoNode] /\ given = 0 /\ keys = {}
    /\ errand = NoErrand
    /\ rows = {} /\ cut = {} /\ meddled = FALSE
    /\ wanted = {} /\ reused = {}

-----------------------------------------------------------------------------

\* A plausible slip: the node is listed before the command.
AskNodeListing(op, id) ==
    /\ Come("list")
    /\ errand' = [op |-> op, id |-> id]
    /\ rows' = {} /\ cut' = {} /\ meddled' = FALSE
    /\ wanted' = IF op = "key" THEN wanted \union {id} ELSE wanted
    /\ UNCHANGED <<nodepool, reused>>

AskNode(op, id) ==
    /\ Come(IF op \in {"hold", "delete"} THEN "command" ELSE "list")
    /\ errand' = [op |-> op, id |-> id]
    /\ rows' = {} /\ cut' = {} /\ meddled' = FALSE
    /\ wanted' = IF op = "key" THEN wanted \union {id} ELSE wanted
    /\ UNCHANGED <<nodepool, reused>>

\* The node after `nodepool hold' or `nodepool delete'.
Commanded == [nodes EXCEPT ![errand.id].state = errand.op]

\* The node asked for is there.
Target == errand.id \in NodeIds /\ nodes[errand.id] # NoNode

\* The nodes after a command that was carried out or not.
Perhaps == IF Target THEN {nodes, Commanded} ELSE {nodes}

Command ==
    /\ pc = "command" /\ Target /\ GoOn("list")
    /\ nodes' = Commanded
    /\ UNCHANGED <<given, keys, errand, rows, cut, meddled, wanted, reused>>

\* The command fails, or ssh raises before or after it was run.
CommandRaises ==
    /\ pc = "command" /\ Answer(500)
    /\ nodes' \in Perhaps
    /\ UNCHANGED <<given, keys, errand, rows, cut, meddled, wanted, reused>>

\* The connection is lost: the exit status is -1, which is no failure.
CommandCut ==
    /\ pc = "command" /\ GoOn("list")
    /\ nodes' \in Perhaps
    /\ cut' = cut \union {"command"}
    /\ UNCHANGED <<given, keys, errand, rows, meddled, wanted, reused>>

\* A plausible slip: nobody asks whether the node was found.
FoundUnchecked(printed) ==
    /\ rows' = RowsOf(errand.id, printed)
    /\ IF errand.op # "key" THEN Answer(200) ELSE GoOn("install")

\* get(), with what was printed: the answer, or the address for a key.
Found(printed) ==
    /\ rows' = RowsOf(errand.id, printed)
    /\ IF errand.op # "key" THEN Answer(200)
       ELSE IF rows' = {} THEN Answer(500) ELSE GoOn("install")

List ==
    /\ pc = "list" /\ Found(Rows)
    /\ UNCHANGED <<nodepool, errand, cut, meddled, wanted, reused>>

\* The connection is lost, or nodepool fails, whose exit status the pipe to sed
\* hides: some or all rows are missing, and nothing tells.
ListCut ==
    /\ pc = "list"
    /\ \E printed \in SUBSET Rows \ {Rows} : Found(printed)
    /\ cut' = cut \union {"list"}
    /\ UNCHANGED <<nodepool, errand, meddled, wanted, reused>>

ListRaises ==
    /\ pc = "list" /\ Answer(500)
    /\ UNCHANGED nodeVars

\* The machines that answer at the address of a row: one, or none any more.
At(row) == {n \in NodeIds : nodes[n] # NoNode /\ nodes[n].ip = row.ip}

\* The key goes to the address of the first row, which is of the node asked for
\* unless that is node 0.
Install(row) ==
    /\ pc = "install" /\ row \in rows
    /\ At(row) # {} /\ Answer(201)
    /\ keys' = keys \union At(row)
    /\ UNCHANGED <<nodes, given, errand, rows, cut, meddled, wanted, reused>>

\* A plausible slip: the return code is not looked at.
InstallUnchecked(row) ==
    /\ pc = "install" /\ row \in rows /\ Answer(201)
    /\ keys' \in {keys, keys \union At(row)}
    /\ UNCHANGED <<nodes, given, errand, rows, cut, meddled, wanted, reused>>

\* The command fails, there is no machine any more, or ssh raises.
InstallRaises(row) ==
    /\ pc = "install" /\ row \in rows /\ Answer(500)
    /\ keys' \in {keys, keys \union At(row)}
    /\ UNCHANGED <<nodes, given, errand, rows, cut, meddled, wanted, reused>>

InstallCut(row) ==
    /\ pc = "install" /\ row \in rows /\ Answer(201)
    /\ keys' \in {keys, keys \union At(row)}
    /\ cut' = cut \union {"install"}
    /\ UNCHANGED <<nodes, given, errand, rows, meddled, wanted, reused>>

\* The process is done with the request, or is killed, and forgets it.
ForgetNode ==
    /\ Sent \/ Killed
    /\ errand' = NoErrand /\ rows' = {} /\ cut' = {} /\ meddled' = FALSE
    /\ UNCHANGED <<nodepool, wanted, reused>>

-----------------------------------------------------------------------------
(* Nodepool (external).                                                    *)

Launch(n, ip) ==
    /\ Elsewhere /\ n = given + 1
    /\ \A m \in NodeIds : nodes[m] # NoNode => nodes[m].ip # ip
    /\ nodes' = [nodes EXCEPT ![n] = [ip |-> ip, state |-> "used"]]
    /\ given' = n
    /\ reused' = IF pc = "install" /\ (\E r \in rows : r.ip = ip)
                 THEN reused \union {n} ELSE reused
    /\ UNCHANGED <<keys, errand, rows, cut, meddled, wanted>>

\* A node that is not held goes away after its job, any other by hand.
Vanish(n) ==
    /\ Elsewhere /\ nodes[n] # NoNode
    /\ nodes' = [nodes EXCEPT ![n] = NoNode]
    /\ keys' = keys \ {n}
    /\ UNCHANGED <<given, errand, rows, cut, meddled, wanted, reused>>

\* Somebody else holds or deletes a node.
CommandByHand(n, s) ==
    /\ Elsewhere /\ nodes[n] # NoNode /\ s \in {"hold", "delete"} \ {nodes[n].state}
    /\ nodes' = [nodes EXCEPT ![n].state = s]
    /\ meddled' = (meddled \/ (pc # "idle" /\ n = errand.id))
    /\ UNCHANGED <<given, keys, errand, rows, cut, wanted, reused>>

NodeNext ==
    \/ \E op \in {"get", "hold", "delete", "key"}, id \in NodeIds \union {0} : AskNode(op, id)
    \/ Command \/ CommandRaises \/ CommandCut
    \/ List \/ ListCut \/ ListRaises
    \/ \E row \in rows : Install(row) \/ InstallRaises(row) \/ InstallCut(row)
    \/ ForgetNode
    \/ \E n \in NodeIds :
          \/ \E ip \in Addresses : Launch(n, ip)
          \/ Vanish(n)
          \/ \E s \in {"hold", "delete"} : CommandByHand(n, s)

-----------------------------------------------------------------------------

NodeTypeOK ==
    /\ nodes \in [NodeIds -> Node \union {NoNode}]
    /\ given \in Nat /\ keys \subseteq NodeIds
    /\ errand \in [op: {"get", "hold", "delete", "key"}, id: NodeIds \union {0}]
    /\ rows \subseteq Row
    /\ cut \subseteq {"command", "list", "install"} /\ meddled \in BOOLEAN
    /\ wanted \subseteq NodeIds \union {0} /\ reused \subseteq NodeIds
    /\ pc \in {"idle", "answered", "command", "list", "install"}
    /\ pc = "command" => errand.op \in {"hold", "delete"}
    /\ pc = "install" => errand.op = "key" /\ rows # {}

\* A key is only on machines of nodes it was sent to, or on one that was made
\* at the address of such a node after the request had read it and before the
\* key came there.  A key for node 0, however, goes to any node.
KeysWanted ==
    kind = "nodes" => 0 \in wanted \/ keys \subseteq wanted \union reused

\* "OK" means that the key is on the machine of that node ("adds public_key as
\* an authorized key on user's account on node_id", node.py:110), unless the
\* machine has gone meanwhile or the connection was lost with the key.
OkMeansKey ==
    kind = "nodes" /\ pc = "answered" /\ errand.op = "key" /\ answer = 201 =>
        \/ errand.id \in keys
        \/ errand.id = 0 \/ "install" \in cut \/ nodes[errand.id] = NoNode

\* A hold or a deletion that is answered 200 was carried out, and the node in
\* the answer, read by a second command, is the node as it is now; unless the
\* node has gone, others have given commands, or a connection was lost.
DoneMeansDone ==
    kind = "nodes" /\ pc = "answered" /\ answer = 200 /\ errand.op \in {"hold", "delete"} =>
        \/ "command" \in cut \/ meddled \/ ~Target
        \/ /\ nodes[errand.id].state = errand.op
           /\ "list" \in cut \/ rows = RowsOf(errand.id, Rows)

\* What is answered about a node is so.
NodeAnswersTrue == OkMeansKey /\ DoneMeansDone
=============================================================================
