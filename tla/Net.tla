-------------------------------- MODULE Net --------------------------------
(***************************************************************************)
(* The life of a connection (CNode): accepted by the socket thread or made *)
(* by a thread that connects out, served by the socket thread and by the   *)
(* message handler thread, disconnected, and deleted when its reference    *)
(* count has come down to zero.                                            *)
(*                                                                         *)
(* Both threads copy vNodes and count a reference to every node under      *)
(* cs_vNodes, work on the copy without that lock, and release the          *)
(* references under it. fDisconnect and hSocket have no lock. cs_vRecvMsg  *)
(* is held by the handler while it processes the messages of a node; the   *)
(* socket thread only tries it. The firewall is off, as by default: then   *)
(* OpenNetworkConnection neither moves the grant of semOutbound to the     *)
(* node nor sets fNetworkNode, so the grant never leaves the calling       *)
(* thread and is left out here.                                            *)
(*                                                                         *)
(* Two uses of a node take no reference under the lock. At every message   *)
(* the handler walks vNodes itself, without cs_vNodes, and sends to each   *)
(* node; and a thread that connects out gets a node from FindNode, and     *)
(* counts its reference after that lock is gone.                           *)
(***************************************************************************)
EXTENDS Naturals, FiniteSets

CONSTANTS
    Inbound,        \* connections that peers make
    Outbound,       \* connections that this node makes
    Callable,       \* inbound connections from the address that the peer listens at
    MaxInbound,     \* nMaxConnections - MAX_OUTBOUND_CONNECTIONS
    NoNode,         \* no connection
    MaxMsgs,        \* bound: messages of a node that wait
    MaxRefs         \* bound: references that connecting to a known node adds

Node == Inbound \cup Outbound

ASSUME NetAssumption ==
    /\ Inbound \cap Outbound = {}
    /\ Callable \subseteq Inbound
    /\ NoNode \notin Node
    /\ MaxInbound \in Nat
    /\ MaxMsgs \in Nat
    /\ MaxRefs \in Nat

VARIABLES
    vNodes,                 \* connected nodes
    vNodesDisconnected,     \* nodes that wait for their deletion
    deleted,                \* nodes that do not exist any more
    nRefCount,
    fDisconnect,
    hSocket,                \* nodes whose socket is open
    vRecvMsg,               \* number of messages that wait
    net,                    \* socket thread: stage, its copy, nodes to serve
    hand,                   \* handler: its copy, nodes to do, the node whose cs_vRecvMsg
                            \* it holds, messages to process; in the walk of vNodes, the
                            \* nodes ahead and the one it sends to
    found                   \* nodes that FindNode gave to a thread that connects out

lists == <<vNodes, vNodesDisconnected, deleted>>
flags == <<fDisconnect, hSocket, vRecvMsg>>
netVars == <<lists, nRefCount, flags, net, hand, found>>

---------------------------------------------------------------------------

New == Node \ (vNodes \cup vNodesDisconnected \cup deleted)

\* AddRef and Release for every node of S.
AddRef(S) == nRefCount' = [n \in Node |-> IF n \in S THEN nRefCount[n] + 1 ELSE nRefCount[n]]

Release(S) == nRefCount' = [n \in Node |-> IF n \in S THEN nRefCount[n] - 1 ELSE nRefCount[n]]

\* CloseSocketDisconnect of every node of S. Messages are dropped if the thread
\* gets cs_vRecvMsg, or holds it.
CloseSocketDisconnect(S, mine) ==
    /\ fDisconnect' = [n \in Node |-> n \in S \/ fDisconnect[n]]
    /\ hSocket' = hSocket \ S
    /\ vRecvMsg' = [n \in Node |-> IF n \in S /\ (mine \/ n # hand.node) THEN 0 ELSE vRecvMsg[n]]

At(stage) == [net EXCEPT !.at = stage]

---------------------------------------------------------------------------
(***************************************************************************)
(* The socket thread.                                                      *)
(***************************************************************************)

\* A node that is to go: the flag says so, or nobody refers to it.
Unused(n) == fDisconnect[n] \/ (nRefCount[n] = 0 /\ vRecvMsg[n] = 0)

\* Mutant: the reference of vNodes is not given back.
DisconnectNodesKept ==
    LET S == {n \in vNodes : Unused(n)}
    IN  /\ net.at = "disconnect"
        /\ vNodes' = vNodes \ S
        /\ vNodesDisconnected' = vNodesDisconnected \cup S
        /\ CloseSocketDisconnect(S, FALSE)
        /\ net' = At("delete")
        /\ UNCHANGED <<deleted, nRefCount, hand, found>>

\* An outbound node keeps the reference of vNodes: fNetworkNode is not set.
DisconnectNodes ==
    LET S == {n \in vNodes : Unused(n)}
    IN  /\ net.at = "disconnect"
        /\ vNodes' = vNodes \ S
        /\ vNodesDisconnected' = vNodesDisconnected \cup S
        /\ CloseSocketDisconnect(S, FALSE)
        /\ Release(S \cap Inbound)
        /\ net' = At("delete")
        /\ UNCHANGED <<deleted, hand, found>>

\* Mutant: a node is deleted when the locks are free, whoever refers to it.
DeleteNodesInUse ==
    LET S == vNodesDisconnected \ {hand.node}
    IN  /\ net.at = "delete"
        /\ vNodesDisconnected' = vNodesDisconnected \ S
        /\ deleted' = deleted \cup S
        /\ net' = At("accept")
        /\ UNCHANGED <<vNodes, nRefCount, flags, hand, found>>

\* "wait until threads are done using it"
DeleteNodes ==
    LET S == {n \in vNodesDisconnected : nRefCount[n] = 0 /\ n # hand.node}
    IN  /\ net.at = "delete"
        /\ vNodesDisconnected' = vNodesDisconnected \ S
        /\ deleted' = deleted \cup S
        /\ net' = At("accept")
        /\ UNCHANGED <<vNodes, nRefCount, flags, hand, found>>

\* A node enters vNodes, with one reference.
AddNode(n) ==
    /\ n \in New
    /\ vNodes' = vNodes \cup {n}
    /\ hSocket' = hSocket \cup {n}
    /\ AddRef({n})
    /\ UNCHANGED <<vNodesDisconnected, deleted, fDisconnect, vRecvMsg, hand, found>>

AcceptConnection(n) ==
    /\ net.at = "accept"
    /\ n \in Inbound
    /\ Cardinality(vNodes \cap Inbound) < MaxInbound
    /\ AddNode(n)
    /\ net' = At("copy")

\* Nobody calls, or there are too many.
AcceptNone ==
    /\ net.at = "accept"
    /\ net' = At("copy")
    /\ UNCHANGED <<lists, nRefCount, flags, hand, found>>

NetCopy ==
    /\ net.at = "copy"
    /\ AddRef(vNodes)
    /\ net' = [at |-> "serve", copy |-> vNodes, left |-> vNodes]
    /\ UNCHANGED <<lists, flags, hand, found>>

Serve(n) ==
    /\ net.at = "serve"
    /\ n \in net.left
    /\ net' = [net EXCEPT !.left = @ \ {n}]
    /\ UNCHANGED <<lists, nRefCount, hand, found>>

\* A node whose socket is closed is passed over, and one without news.
ServeNothing(n) == Serve(n) /\ UNCHANGED flags

\* Messages, if cs_vRecvMsg is free.
Receive(n) ==
    /\ Serve(n)
    /\ n \in hSocket
    /\ n # hand.node
    /\ \E k \in 1..MaxMsgs : vRecvMsg' = [vRecvMsg EXCEPT ![n] = k]
    /\ vRecvMsg'[n] >= vRecvMsg[n]
    /\ UNCHANGED <<fDisconnect, hSocket>>

\* The peer has closed, an error, or too much to receive: with cs_vRecvMsg, or a
\* partial send. The timeouts look at no lock.
Close(n) ==
    /\ Serve(n)
    /\ n \in hSocket
    /\ CloseSocketDisconnect({n}, FALSE)

NetRelease ==
    /\ net.at = "serve"
    /\ net.left = {}
    /\ Release(net.copy)
    /\ net' = [at |-> "disconnect", copy |-> {}, left |-> {}]
    /\ UNCHANGED <<lists, flags, hand, found>>

NetThread ==
    \/ DisconnectNodes
    \/ DeleteNodes
    \/ \E n \in Node :
         \/ AcceptConnection(n)
         \/ ServeNothing(n)
         \/ Receive(n)
         \/ Close(n)
    \/ AcceptNone
    \/ NetCopy
    \/ NetRelease

---------------------------------------------------------------------------
(***************************************************************************)
(* The message handler thread.                                             *)
(***************************************************************************)

NoHand == [copy |-> {}, left |-> {}, node |-> NoNode, todo |-> 0,
           walking |-> FALSE, ahead |-> {}, use |-> NoNode]

HandCopy ==
    /\ hand = NoHand
    /\ AddRef(vNodes)
    /\ hand' = [NoHand EXCEPT !.copy = vNodes, !.left = vNodes]
    /\ UNCHANGED <<lists, flags, net, found>>

\* A node that is about to go is passed over.
SkipNode(n) ==
    /\ hand.node = NoNode
    /\ n \in hand.left
    /\ fDisconnect[n]
    /\ hand' = [hand EXCEPT !.left = @ \ {n}]
    /\ UNCHANGED <<lists, nRefCount, flags, net, found>>

\* SendMessages: a peer that misbehaved is disconnected.
SendMessages(n, ban) ==
    /\ fDisconnect' = [fDisconnect EXCEPT ![n] = @ \/ ban]
    /\ hand' = [hand EXCEPT !.left = @ \ {n}, !.node = NoNode, !.todo = 0]

\* No message waits.
IdleNode(n, ban) ==
    /\ hand.node = NoNode
    /\ n \in hand.left
    /\ ~fDisconnect[n]
    /\ vRecvMsg[n] = 0
    /\ SendMessages(n, ban)
    /\ UNCHANGED <<lists, nRefCount, hSocket, vRecvMsg, net, found>>

\* ProcessMessages takes cs_vRecvMsg and comes to a message.
BeginMessages(n) ==
    /\ hand.node = NoNode
    /\ n \in hand.left
    /\ ~fDisconnect[n]
    /\ vRecvMsg[n] > 0
    /\ hand' = [hand EXCEPT !.node = n, !.todo = vRecvMsg[n]]
    /\ UNCHANGED <<lists, nRefCount, flags, net, found>>

\* ProcessMessage begins with a walk of vNodes, which has the end of the vector
\* as it is now.
BeginWalk ==
    /\ hand.todo > 0
    /\ ~hand.walking
    /\ hand' = [hand EXCEPT !.walking = TRUE, !.ahead = vNodes]
    /\ UNCHANGED <<lists, nRefCount, flags, net, found>>

\* PushGetBlocks to one node, and a sleep. An erase of the socket thread leaves the
\* slots behind its end as they were, so the walk comes to the node in any case.
WalkNode(n) ==
    /\ n \in hand.ahead
    /\ hand' = [hand EXCEPT !.ahead = @ \ {n}, !.use = n]
    /\ UNCHANGED <<lists, nRefCount, flags, net, found>>

\* ProcessMessage sets the flag to FALSE, and to TRUE for a peer it does not want.
\* The loop of ProcessMessages ends when the flag is set.
ProcessMessage(bad) ==
    /\ hand.walking
    /\ hand.ahead = {}
    /\ fDisconnect' = [fDisconnect EXCEPT ![hand.node] = bad]
    /\ hand' = [hand EXCEPT !.todo = IF bad THEN 0 ELSE @ - 1,
                            !.walking = FALSE, !.use = NoNode]
    /\ UNCHANGED <<lists, nRefCount, hSocket, vRecvMsg, net, found>>

\* The loop is over: what was processed is erased unless the node goes.
EndMessages(ban) ==
    /\ hand.node # NoNode
    /\ hand.todo = 0
    /\ vRecvMsg' = IF fDisconnect[hand.node] THEN vRecvMsg
                                             ELSE [vRecvMsg EXCEPT ![hand.node] = 0]
    /\ SendMessages(hand.node, ban)
    /\ UNCHANGED <<lists, nRefCount, hSocket, net, found>>

\* ProcessMessages returns FALSE before a message, or the node has been idle.
CloseNode ==
    LET n == hand.node
    IN  /\ n # NoNode
        /\ ~hand.walking
        /\ CloseSocketDisconnect({n}, TRUE)
        /\ hand' = [hand EXCEPT !.left = @ \ {n}, !.node = NoNode, !.todo = 0]
        /\ UNCHANGED <<lists, nRefCount, net, found>>

HandRelease ==
    /\ hand # NoHand
    /\ hand.left = {}
    /\ Release(hand.copy)
    /\ hand' = NoHand
    /\ UNCHANGED <<lists, flags, net, found>>

HandThread ==
    \/ HandCopy
    \/ \E n \in Node : SkipNode(n) \/ BeginMessages(n) \/ WalkNode(n)
    \/ BeginWalk
    \/ \E n \in Node, ban \in BOOLEAN : IdleNode(n, ban)
    \/ \E bad \in BOOLEAN : ProcessMessage(bad) \/ EndMessages(bad)
    \/ CloseNode
    \/ HandRelease

---------------------------------------------------------------------------
(***************************************************************************)
(* The threads that connect out.                                           *)
(***************************************************************************)

\* ConnectNode
ConnectNode(n) ==
    /\ n \in Outbound
    /\ AddNode(n)
    /\ UNCHANGED <<net, found>>

\* There is a connection to that address and port already: another thread was
\* faster, or the peer has called from there.
FindNode(n) ==
    /\ n \in (Outbound \cup Callable) \cap vNodes
    /\ nRefCount[n] < MaxRefs
    /\ n \notin found
    /\ found' = found \cup {n}
    /\ UNCHANGED <<lists, nRefCount, flags, net, hand>>

\* The reference to it, without cs_vNodes: nobody gives it back.
AddRefFound(n) ==
    /\ n \in found
    /\ AddRef({n})
    /\ found' = found \ {n}
    /\ UNCHANGED <<lists, flags, net, hand>>

---------------------------------------------------------------------------

NetInit ==
    /\ vNodes = {} /\ vNodesDisconnected = {} /\ deleted = {}
    /\ nRefCount = [n \in Node |-> 0]
    /\ fDisconnect = [n \in Node |-> FALSE]
    /\ hSocket = {}
    /\ vRecvMsg = [n \in Node |-> 0]
    /\ net = [at |-> "disconnect", copy |-> {}, left |-> {}]
    /\ hand = NoHand
    /\ found = {}

NetNext ==
    \/ NetThread
    \/ HandThread
    \/ \E n \in Node : ConnectNode(n) \/ FindNode(n) \/ AddRefFound(n)

\* Both threads run until the node stops.
NetFairness == WF_netVars(NetThread) /\ WF_netVars(HandThread)

NetSpec == NetInit /\ [][NetNext]_netVars /\ NetFairness

---------------------------------------------------------------------------
(***************************************************************************)
(* Properties.                                                             *)
(***************************************************************************)

\* The references to n that somebody will give back.
Holders(n) ==
    (IF n \in vNodes THEN 1 ELSE 0) + (IF n \in net.copy THEN 1 ELSE 0)
        + (IF n \in hand.copy THEN 1 ELSE 0)

\* The count of a node covers the list that it is in and the copies that it is in,
\* exactly so for an inbound node that FindNode never finds, so no copy has a
\* deleted node, however copies, disconnects and releases of the two threads and
\* the late AddRef of ConnectNode interleave. That AddRef is never on an outbound
\* node that was deleted.
RefsExact ==
    /\ vNodes \cap vNodesDisconnected = {}
    /\ deleted \cap (vNodes \cup vNodesDisconnected \cup net.copy \cup hand.copy) = {}
    /\ \A n \in Inbound \ Callable : nRefCount[n] = Holders(n)
    /\ \A n \in Outbound \cup Callable : nRefCount[n] >= Holders(n)
    /\ found \cap deleted \subseteq Callable

\* "wait until threads are done using it" (net.cpp:2522), as that comment has it: no
\* node is deleted that the handler's walk of vNodes is sending to, or that FindNode
\* has just given to a thread.
DoneUsing == deleted \cap ({hand.use} \cup found) = {}

\* An inbound node that was disconnected is deleted in the end, although both
\* threads may have taken references to it in any order; a reference of ConnectNode
\* is never given back.
DisconnectedDeleted ==
    \A n \in Inbound \ Callable : (n \in vNodesDisconnected) ~> (n \in deleted)
=============================================================================
