---------------------------- MODULE Net_proofs ----------------------------
(***************************************************************************)
(* The reference counts of connections, for any number of connections and  *)
(* any bounds: a count covers every copy that has the node, so DeleteNodes,*)
(* which looks at the count alone, never frees a node of a copy. An        *)
(* outbound node keeps the reference of vNodes for ever, so it is never    *)
(* freed, and the late AddRef of ConnectNode cannot come to one that is.   *)
(***************************************************************************)
EXTENDS Net, TLAPS

Hands == [copy : SUBSET Node, left : SUBSET Node, node : Node \cup {NoNode}, todo : Nat,
          walking : BOOLEAN, ahead : SUBSET Node, use : Node \cup {NoNode}]

\* Type correctness.
NetTypeOK ==
    /\ vNodes \subseteq Node /\ vNodesDisconnected \subseteq Node /\ deleted \subseteq Node
    /\ nRefCount \in [Node -> Nat]
    /\ fDisconnect \in [Node -> BOOLEAN]
    /\ hSocket \subseteq Node
    /\ vRecvMsg \in [Node -> Nat]
    /\ net \in [at : {"disconnect", "delete", "accept", "copy", "serve"},
                copy : SUBSET Node, left : SUBSET Node]
    /\ hand \in Hands
    /\ found \subseteq Outbound \cup Callable

\* The socket thread has a copy only while it serves it; the handler serves one of
\* its own.
CopiesInUse ==
    /\ net.at # "serve" => net.copy = {}
    /\ hand.node \in hand.copy \cup {NoNode}
    /\ hand.left \subseteq hand.copy
    /\ hand.node = NoNode => hand.todo = 0
    /\ hand.walking => hand.todo > 0
    /\ ~hand.walking => hand.ahead = {}

\* What a thread works on is still in one of the lists, so a node that connects
\* is in no copy yet.
CopiesListed == net.copy \cup hand.copy \subseteq vNodes \cup vNodesDisconnected

\* The references to n that are counted for sure: an outbound node keeps that of
\* vNodes when it is disconnected.
Counted(n) ==
    (IF n \in vNodes \cup (vNodesDisconnected \cap Outbound) THEN 1 ELSE 0)
        + (IF n \in net.copy THEN 1 ELSE 0) + (IF n \in hand.copy THEN 1 ELSE 0)

\* RefsExact, strengthened by that reference: no outbound node is deleted.
CountsExact ==
    /\ vNodes \cap vNodesDisconnected = {}
    /\ deleted \cap (vNodes \cup vNodesDisconnected \cup net.copy \cup hand.copy) = {}
    /\ deleted \subseteq Inbound
    /\ \A n \in Node : nRefCount[n] >= Counted(n)
    /\ \A n \in Node \cap (Inbound \ Callable) : nRefCount[n] = Counted(n)

\* The inductive invariant.
NetInv == NetTypeOK /\ CopiesInUse /\ CopiesListed /\ CountsExact

---------------------------------------------------------------------------
(* Counting. *)

\* A step that moves no node between the lists, takes no reference and leaves the
\* copies alone.
LEMMA RefsKept ==
    ASSUME NetInv, UNCHANGED <<lists, nRefCount>>, net'.copy = net.copy, hand'.copy = hand.copy
    PROVE  CopiesListed' /\ CountsExact'
<1> USE DEF NetInv, lists
<1>1. CopiesListed'
  BY DEF CopiesListed
<1>2. \A n \in Node : nRefCount'[n] = nRefCount[n] /\ Counted(n)' = Counted(n)
  BY DEF Counted
<1>3. CountsExact'
  BY <1>2 DEF CountsExact, Node
<1> QED
  BY <1>1, <1>3

\* AddRef and Release count one up or down; a reference can be given back while
\* it is held.
LEMMA AddRefCounts ==
    ASSUME NetInv, NEW S, AddRef(S)
    PROVE  /\ nRefCount' \in [Node -> Nat]
           /\ \A n \in Node : nRefCount'[n] = nRefCount[n] + (IF n \in S THEN 1 ELSE 0)
<1>1. \A n \in Node : nRefCount[n] \in Nat
  BY DEF NetInv, NetTypeOK, Hands
<1> QED
  BY <1>1 DEF AddRef

LEMMA ReleaseCounts ==
    ASSUME NetInv, NEW S, Release(S), \A n \in S : n \in Node /\ Counted(n) >= 1
    PROVE  /\ nRefCount' \in [Node -> Nat]
           /\ \A n \in Node : nRefCount'[n] = nRefCount[n] - (IF n \in S THEN 1 ELSE 0)
<1>1. \A n \in Node : nRefCount[n] \in Nat /\ Counted(n) \in Nat
  BY DEF NetInv, NetTypeOK, Hands, Counted
<1>2. \A n \in S : nRefCount[n] >= 1
  BY <1>1 DEF NetInv, CountsExact, Node
<1>3. \A n \in Node :
          nRefCount'[n] = IF n \in S THEN nRefCount[n] - 1 ELSE nRefCount[n]
  BY DEF Release
<1>4. \A n \in Node : nRefCount'[n] \in Nat
  BY <1>1, <1>2, <1>3
<1>5. \A n \in Node : nRefCount'[n] = nRefCount[n] - (IF n \in S THEN 1 ELSE 0)
  BY <1>1, <1>3
<1>6. nRefCount' \in [Node -> Nat]
  BY <1>4 DEF Release
<1> QED
  BY <1>5, <1>6

\* CloseSocketDisconnect keeps the types of what it changes.
LEMMA CloseTyped ==
    ASSUME NetTypeOK, NEW S, NEW mine \in BOOLEAN, CloseSocketDisconnect(S, mine)
    PROVE  fDisconnect' \in [Node -> BOOLEAN] /\ hSocket' \subseteq Node /\
           vRecvMsg' \in [Node -> Nat]
<1>1. \A n \in Node : fDisconnect[n] \in BOOLEAN /\ vRecvMsg[n] \in Nat
  BY DEF NetTypeOK, Hands
<1> QED
  BY <1>1 DEF NetTypeOK, Hands, CloseSocketDisconnect

\* The next stage of the socket thread.
LEMMA AtTyped ==
    ASSUME NetTypeOK, NEW s \in {"disconnect", "delete", "accept", "copy", "serve"},
           net' = At(s)
    PROVE  /\ net' \in [at : {"disconnect", "delete", "accept", "copy", "serve"},
                        copy : SUBSET Node, left : SUBSET Node]
           /\ net'.at = s /\ net'.copy = net.copy
  BY DEF NetTypeOK, Hands, At

---------------------------------------------------------------------------
(* The socket thread. *)

LEMMA DisconnectNodesInv == NetInv /\ DisconnectNodes => NetInv'
<1> SUFFICES ASSUME NetInv, DisconnectNodes PROVE NetInv'
  OBVIOUS
<1> DEFINE S == {n \in vNodes : Unused(n)}
<1>1. /\ net.at = "disconnect" /\ net' = At("delete")
      /\ vNodes' = vNodes \ S /\ vNodesDisconnected' = vNodesDisconnected \cup S
      /\ CloseSocketDisconnect(S, FALSE) /\ Release(S \cap Inbound)
      /\ UNCHANGED <<deleted, hand, found>>
  BY DEF DisconnectNodes
<1>2. S \subseteq vNodes /\ S \subseteq Node
  BY DEF NetInv, NetTypeOK, Hands
<1> HIDE DEF S
<1>3. \A n \in S \cap Inbound : n \in Node /\ Counted(n) >= 1
  BY <1>2 DEF Counted, Node
<1>4. /\ nRefCount' \in [Node -> Nat]
      /\ \A n \in Node : nRefCount'[n] = nRefCount[n] - (IF n \in S \cap Inbound THEN 1 ELSE 0)
  BY <1>1, <1>3, ReleaseCounts
<1>5. /\ net' \in [at : {"disconnect", "delete", "accept", "copy", "serve"},
                   copy : SUBSET Node, left : SUBSET Node]
      /\ net'.at = "delete" /\ net'.copy = net.copy
  BY <1>1, AtTyped DEF NetInv
<1>6. NetTypeOK'
  BY <1>1, <1>2, <1>4, <1>5, CloseTyped DEF NetInv, NetTypeOK, Hands
<1>7. CopiesInUse' /\ CopiesListed'
  BY <1>1, <1>5 DEF NetInv, CopiesInUse, CopiesListed
<1>8. CountsExact'
  <2>1. vNodes' \cap vNodesDisconnected' = {}
    BY <1>1 DEF NetInv, CountsExact
  <2>2. deleted' \cap (vNodes' \cup vNodesDisconnected' \cup net'.copy \cup hand'.copy) = {}
    BY <1>1, <1>2, <1>5 DEF NetInv, CountsExact
  <2>3. \A n \in Node : Counted(n)' = Counted(n) - (IF n \in S \cap Inbound THEN 1 ELSE 0)
    BY <1>1, <1>2, <1>5, NetAssumption DEF Counted, NetInv, CountsExact, Node
  <2>4. \A n \in Node : nRefCount[n] \in Nat /\ Counted(n) \in Nat
    BY DEF NetInv, NetTypeOK, Hands, Counted
  <2>5. \A n \in Node \cap (Inbound \ Callable) : nRefCount'[n] = Counted(n)'
    BY <1>4, <2>3, <2>4 DEF NetInv, CountsExact, Node
  <2>6. \A n \in Node : nRefCount'[n] >= Counted(n)'
    BY <1>4, <2>3, <2>4, NetAssumption DEF NetInv, CountsExact, Node
  <2>7. deleted' \subseteq Inbound
    BY <1>1 DEF NetInv, CountsExact
  <2> QED
    BY <2>1, <2>2, <2>5, <2>6, <2>7 DEF CountsExact
<1> QED
  BY <1>6, <1>7, <1>8 DEF NetInv

\* "wait until threads are done using it": a node without references is in no copy.
LEMMA DeleteNodesInv == NetInv /\ DeleteNodes => NetInv'
<1> SUFFICES ASSUME NetInv, DeleteNodes PROVE NetInv'
  OBVIOUS
<1> DEFINE S == {n \in vNodesDisconnected : nRefCount[n] = 0 /\ n # hand.node}
<1>1. /\ net' = At("accept") /\ net.at = "delete"
      /\ vNodesDisconnected' = vNodesDisconnected \ S /\ deleted' = deleted \cup S
      /\ UNCHANGED <<vNodes, nRefCount, flags, hand, found>>
  BY DEF DeleteNodes
<1>2. \A n \in S : n \in Node /\ n \in vNodesDisconnected /\ nRefCount[n] = 0
  BY DEF NetInv, NetTypeOK, Hands
<1> HIDE DEF S
<1>3. \A n \in Node : nRefCount[n] >= Counted(n)
  BY DEF NetInv, NetTypeOK, Hands, CountsExact, Node, Counted
<1>4. \A n \in S : n \notin net.copy \cup hand.copy \cup vNodes \cup Outbound
  BY <1>2, <1>3 DEF Counted
<1>5. /\ net' \in [at : {"disconnect", "delete", "accept", "copy", "serve"},
                   copy : SUBSET Node, left : SUBSET Node]
      /\ net'.at = "accept" /\ net'.copy = net.copy
  BY <1>1, AtTyped DEF NetInv
<1>6. NetTypeOK'
  BY <1>1, <1>2, <1>5 DEF NetInv, NetTypeOK, Hands, flags
<1>7. CopiesInUse' /\ CopiesListed'
  BY <1>1, <1>4, <1>5 DEF NetInv, CopiesInUse, CopiesListed
<1>8. CountsExact'
  <2>1. \A n \in Node : nRefCount'[n] = nRefCount[n] /\ Counted(n)' = Counted(n)
    BY <1>1, <1>4, <1>5 DEF Counted
  <2>2. deleted' \subseteq Inbound
    BY <1>1, <1>2, <1>4 DEF NetInv, CountsExact, Node
  <2>3. /\ vNodes' \cap vNodesDisconnected' = {}
        /\ deleted' \cap (vNodes' \cup vNodesDisconnected' \cup net'.copy \cup hand'.copy) = {}
    BY <1>1, <1>4, <1>5 DEF NetInv, CountsExact
  <2> QED
    BY <2>1, <2>2, <2>3 DEF NetInv, CountsExact
<1> QED
  BY <1>6, <1>7, <1>8 DEF NetInv

\* A node that enters vNodes comes with the reference of that list.
LEMMA AddNodeInv ==
    ASSUME NetInv, NEW n \in Node, AddNode(n),
           net' = net \/ (net' = At("copy") /\ net.at # "serve")
    PROVE  NetInv'
<1>1. /\ n \in New /\ vNodes' = vNodes \cup {n} /\ hSocket' = hSocket \cup {n}
      /\ AddRef({n})
      /\ UNCHANGED <<vNodesDisconnected, deleted, fDisconnect, vRecvMsg, hand, found>>
  BY DEF AddNode
<1>2. /\ n \notin vNodes \cup vNodesDisconnected \cup deleted
      /\ n \notin net.copy \cup hand.copy
  BY <1>1 DEF New, NetInv, CopiesListed
<1>3. /\ nRefCount' \in [Node -> Nat]
      /\ \A m \in Node : nRefCount'[m] = nRefCount[m] + (IF m \in {n} THEN 1 ELSE 0)
  BY <1>1, AddRefCounts
<1>4. /\ net' \in [at : {"disconnect", "delete", "accept", "copy", "serve"},
                   copy : SUBSET Node, left : SUBSET Node]
      /\ net'.copy = net.copy /\ (net'.at # "serve" => net'.copy = {})
  <2>1. CASE net' = net
    BY <2>1 DEF NetInv, NetTypeOK, Hands, CopiesInUse
  <2>2. CASE net' = At("copy") /\ net.at # "serve"
    BY <2>2, AtTyped DEF NetInv, CopiesInUse
  <2> QED
    BY <2>1, <2>2
<1>5. NetTypeOK'
  BY <1>1, <1>3, <1>4 DEF NetInv, NetTypeOK, Hands
<1>6. CopiesInUse' /\ CopiesListed'
  BY <1>1, <1>4 DEF NetInv, CopiesInUse, CopiesListed
<1>7. CountsExact'
  <2>1. \A m \in Node : Counted(m)' = Counted(m) + (IF m \in {n} THEN 1 ELSE 0)
    BY <1>1, <1>2, <1>4 DEF Counted
  <2>2. \A m \in Node : nRefCount[m] \in Nat /\ Counted(m) \in Nat
    BY DEF NetInv, NetTypeOK, Hands, Counted
  <2>3. \A m \in Node \cap (Inbound \ Callable) : nRefCount'[m] = Counted(m)'
    BY <1>3, <2>1, <2>2 DEF NetInv, CountsExact, Node
  <2>4. \A m \in Node : nRefCount'[m] >= Counted(m)'
    BY <1>3, <2>1, <2>2 DEF NetInv, CountsExact, Node
  <2>5. /\ vNodes' \cap vNodesDisconnected' = {}
        /\ deleted' \cap (vNodes' \cup vNodesDisconnected' \cup net'.copy \cup hand'.copy) = {}
        /\ deleted' \subseteq Inbound
    BY <1>1, <1>2, <1>4 DEF NetInv, CountsExact
  <2> QED
    BY <2>3, <2>4, <2>5 DEF CountsExact
<1> QED
  BY <1>5, <1>6, <1>7 DEF NetInv

LEMMA AcceptConnectionInv ==
    ASSUME NetInv, NEW n \in Node, AcceptConnection(n)
    PROVE  NetInv'
<1>1. AddNode(n) /\ net.at = "accept" /\ net' = At("copy")
  BY DEF AcceptConnection
<1> QED
  BY <1>1, AddNodeInv

LEMMA AcceptNoneInv == NetInv /\ AcceptNone => NetInv'
<1> SUFFICES ASSUME NetInv, AcceptNone PROVE NetInv'
  OBVIOUS
<1>1. net.at = "accept" /\ net' = At("copy") /\ UNCHANGED <<lists, nRefCount, flags, hand, found>>
  BY DEF AcceptNone
<1>2. /\ net' \in [at : {"disconnect", "delete", "accept", "copy", "serve"},
                   copy : SUBSET Node, left : SUBSET Node]
      /\ net'.copy = net.copy
  BY <1>1, AtTyped DEF NetInv
<1>3. NetTypeOK' /\ CopiesInUse'
  BY <1>1, <1>2 DEF NetInv, NetTypeOK, Hands, CopiesInUse, lists, flags
<1> QED
  BY <1>1, <1>2, <1>3, RefsKept DEF NetInv

LEMMA NetCopyInv == NetInv /\ NetCopy => NetInv'
<1> SUFFICES ASSUME NetInv, NetCopy PROVE NetInv'
  OBVIOUS
<1>1. /\ net.at = "copy" /\ AddRef(vNodes) /\ UNCHANGED <<lists, flags, hand, found>>
      /\ net' = [at |-> "serve", copy |-> vNodes, left |-> vNodes]
  BY DEF NetCopy
<1>2. /\ nRefCount' \in [Node -> Nat]
      /\ \A m \in Node : nRefCount'[m] = nRefCount[m] + (IF m \in vNodes THEN 1 ELSE 0)
  BY <1>1, AddRefCounts
<1>3. NetTypeOK'
  BY <1>1, <1>2 DEF NetInv, NetTypeOK, Hands, lists, flags
<1>4. CopiesInUse' /\ CopiesListed'
  BY <1>1 DEF NetInv, CopiesInUse, CopiesListed, lists
<1>5. CountsExact'
  <2>1. \A m \in Node : Counted(m)' = Counted(m) + (IF m \in vNodes THEN 1 ELSE 0)
    BY <1>1 DEF NetInv, CopiesInUse, Counted, lists
  <2>2. \A m \in Node : nRefCount[m] \in Nat /\ Counted(m) \in Nat
    BY DEF NetInv, NetTypeOK, Hands, Counted
  <2> QED
    BY <1>1, <1>2, <2>1, <2>2 DEF NetInv, CountsExact, Node, lists
<1> QED
  BY <1>3, <1>4, <1>5 DEF NetInv

\* The socket thread works on one node of its copy.
LEMMA ServeInv ==
    ASSUME NetInv, NEW n \in Node, Serve(n),
           fDisconnect' \in [Node -> BOOLEAN], hSocket' \subseteq Node,
           vRecvMsg' \in [Node -> Nat]
    PROVE  NetInv'
<1>1. /\ net.at = "serve" /\ net' = [net EXCEPT !.left = @ \ {n}]
      /\ UNCHANGED <<lists, nRefCount, hand, found>>
  BY DEF Serve
<1>2. /\ net' \in [at : {"disconnect", "delete", "accept", "copy", "serve"},
                   copy : SUBSET Node, left : SUBSET Node]
      /\ net'.copy = net.copy /\ net'.at = net.at
  BY <1>1 DEF NetInv, NetTypeOK, Hands
<1>3. NetTypeOK' /\ CopiesInUse'
  BY <1>1, <1>2 DEF NetInv, NetTypeOK, Hands, CopiesInUse, lists
<1> QED
  BY <1>1, <1>2, <1>3, RefsKept DEF NetInv

LEMMA ServeNothingInv == ASSUME NetInv, NEW n \in Node, ServeNothing(n) PROVE NetInv'
  BY ServeInv DEF ServeNothing, flags, NetInv, NetTypeOK, Hands

LEMMA ReceiveInv == ASSUME NetInv, NEW n \in Node, Receive(n) PROVE NetInv'
<1>1. Serve(n) /\ UNCHANGED <<fDisconnect, hSocket>>
  BY DEF Receive
<1>2. PICK k \in 1..MaxMsgs : vRecvMsg' = [vRecvMsg EXCEPT ![n] = k]
  BY DEF Receive
<1>3. vRecvMsg' \in [Node -> Nat]
  BY <1>2, NetAssumption DEF NetInv, NetTypeOK, Hands
<1> QED
  BY <1>1, <1>3, ServeInv DEF NetInv, NetTypeOK, Hands

LEMMA CloseInv == ASSUME NetInv, NEW n \in Node, Close(n) PROVE NetInv'
  BY ServeInv, CloseTyped DEF Close, NetInv

LEMMA NetReleaseInv == NetInv /\ NetRelease => NetInv'
<1> SUFFICES ASSUME NetInv, NetRelease PROVE NetInv'
  OBVIOUS
<1>1. /\ Release(net.copy) /\ UNCHANGED <<lists, flags, hand, found>>
      /\ net' = [at |-> "disconnect", copy |-> {}, left |-> {}]
  BY DEF NetRelease
<1>2. \A n \in net.copy : n \in Node /\ Counted(n) >= 1
  BY DEF NetInv, NetTypeOK, Hands, Counted
<1>3. /\ nRefCount' \in [Node -> Nat]
      /\ \A m \in Node : nRefCount'[m] = nRefCount[m] - (IF m \in net.copy THEN 1 ELSE 0)
  BY <1>1, <1>2, ReleaseCounts
<1>4. NetTypeOK'
  BY <1>1, <1>3 DEF NetInv, NetTypeOK, Hands, lists, flags
<1>5. CopiesInUse' /\ CopiesListed'
  BY <1>1 DEF NetInv, CopiesInUse, CopiesListed, lists
<1>6. CountsExact'
  <2>1. \A m \in Node : Counted(m)' = Counted(m) - (IF m \in net.copy THEN 1 ELSE 0)
    BY <1>1 DEF Counted, lists
  <2>2. \A m \in Node : nRefCount[m] \in Nat /\ Counted(m) \in Nat
    BY DEF NetInv, NetTypeOK, Hands, Counted
  <2> QED
    BY <1>1, <1>3, <2>1, <2>2 DEF NetInv, CountsExact, Node, lists
<1> QED
  BY <1>4, <1>5, <1>6 DEF NetInv

---------------------------------------------------------------------------
(* The message handler thread. *)

LEMMA HandCopyInv == NetInv /\ HandCopy => NetInv'
<1> SUFFICES ASSUME NetInv, HandCopy PROVE NetInv'
  OBVIOUS
<1>1. /\ hand = NoHand /\ AddRef(vNodes) /\ UNCHANGED <<lists, flags, net, found>>
      /\ hand' = [copy |-> vNodes, left |-> vNodes, node |-> NoNode, todo |-> 0,
                  walking |-> FALSE, ahead |-> {}, use |-> NoNode]
  BY DEF HandCopy, NoHand
<1>2. /\ nRefCount' \in [Node -> Nat]
      /\ \A m \in Node : nRefCount'[m] = nRefCount[m] + (IF m \in vNodes THEN 1 ELSE 0)
  BY <1>1, AddRefCounts
<1>3. NetTypeOK'
  BY <1>1, <1>2 DEF NetInv, NetTypeOK, Hands, lists, flags
<1>4. CopiesInUse' /\ CopiesListed'
  BY <1>1 DEF NetInv, CopiesInUse, CopiesListed, lists
<1>5. CountsExact'
  <2>1. \A m \in Node : Counted(m)' = Counted(m) + (IF m \in vNodes THEN 1 ELSE 0)
    BY <1>1 DEF NoHand, Counted, lists
  <2>2. \A m \in Node : nRefCount[m] \in Nat /\ Counted(m) \in Nat
    BY DEF NetInv, NetTypeOK, Hands, Counted
  <2> QED
    BY <1>1, <1>2, <2>1, <2>2 DEF NetInv, CountsExact, Node, lists
<1> QED
  BY <1>3, <1>4, <1>5 DEF NetInv

\* The handler works on one node of its copy.
LEMMA HandleInv ==
    ASSUME NetInv, UNCHANGED <<lists, nRefCount, net, found>>,
           fDisconnect' \in [Node -> BOOLEAN], hSocket' \subseteq Node,
           vRecvMsg' \in [Node -> Nat], hand' \in Hands,
           hand'.copy = hand.copy, hand'.left \subseteq hand.left,
           hand'.node \in hand.left \cup {NoNode, hand.node},
           hand'.node = NoNode => hand'.todo = 0, hand'.walking => hand'.todo > 0,
           ~hand'.walking => hand'.ahead = {}
    PROVE  NetInv'
<1>2. NetTypeOK'
  BY DEF NetInv, NetTypeOK, Hands, lists
<1>3. CopiesInUse'
  BY DEF NetInv, CopiesInUse
<1> QED
  BY <1>2, <1>3, RefsKept DEF NetInv

LEMMA SkipNodeInv == ASSUME NetInv, NEW n \in Node, SkipNode(n) PROVE NetInv'
<1>1. /\ hand.node = NoNode /\ UNCHANGED <<lists, nRefCount, flags, net, found>>
      /\ hand' = [hand EXCEPT !.left = hand.left \ {n}]
  BY DEF SkipNode
<1>2. /\ hand' \in Hands /\ hand'.copy = hand.copy /\ hand'.left \subseteq hand.left
      /\ hand'.node = NoNode /\ hand'.todo = 0 /\ hand'.walking = FALSE /\ hand'.ahead = {}
  BY <1>1 DEF NetInv, NetTypeOK, CopiesInUse, Hands
<1>3. /\ fDisconnect' \in [Node -> BOOLEAN] /\ hSocket' \subseteq Node
      /\ vRecvMsg' \in [Node -> Nat]
  BY <1>1 DEF NetInv, NetTypeOK, Hands, flags
<1> QED
  BY <1>1, <1>2, <1>3, HandleInv

LEMMA BeginMessagesInv == ASSUME NetInv, NEW n \in Node, BeginMessages(n) PROVE NetInv'
<1>1. /\ n \in hand.left /\ UNCHANGED <<lists, nRefCount, flags, net, found>>
      /\ hand.node = NoNode /\ hand' = [hand EXCEPT !.node = n, !.todo = vRecvMsg[n]]
  BY DEF BeginMessages
<1>0. hand.todo = 0 /\ hand.walking = FALSE /\ hand.ahead = {}
  BY <1>1 DEF NetInv, NetTypeOK, CopiesInUse, Hands
<1>2. vRecvMsg[n] \in Nat /\ n # NoNode
  BY NetAssumption DEF NetInv, NetTypeOK, Hands
<1>3. /\ hand' \in Hands /\ hand'.copy = hand.copy /\ hand'.left = hand.left
      /\ hand'.node = n /\ hand'.walking = FALSE /\ hand'.ahead = {}
  BY <1>0, <1>1, <1>2 DEF NetInv, NetTypeOK, Hands
<1>4. /\ fDisconnect' \in [Node -> BOOLEAN] /\ hSocket' \subseteq Node
      /\ vRecvMsg' \in [Node -> Nat]
  BY <1>1 DEF NetInv, NetTypeOK, Hands, flags
<1> QED
  BY <1>1, <1>2, <1>3, <1>4, HandleInv

\* The walk changes nothing but the nodes ahead and the one in use.
LEMMA BeginWalkInv == NetInv /\ BeginWalk => NetInv'
<1> SUFFICES ASSUME NetInv, BeginWalk PROVE NetInv'
  OBVIOUS
<1>1. /\ hand.todo > 0 /\ UNCHANGED <<lists, nRefCount, flags, net, found>>
      /\ hand' = [hand EXCEPT !.walking = TRUE, !.ahead = vNodes]
  BY DEF BeginWalk
<1>2. /\ hand' \in Hands /\ hand'.copy = hand.copy /\ hand'.left = hand.left
      /\ hand'.node = hand.node /\ hand'.todo = hand.todo /\ hand'.walking = TRUE
  BY <1>1 DEF NetInv, NetTypeOK, Hands
<1>3. /\ fDisconnect' \in [Node -> BOOLEAN] /\ hSocket' \subseteq Node
      /\ vRecvMsg' \in [Node -> Nat] /\ (hand.node = NoNode => hand.todo = 0)
  BY <1>1 DEF NetInv, NetTypeOK, Hands, CopiesInUse, flags
<1> QED
  BY <1>1, <1>2, <1>3, HandleInv

LEMMA WalkNodeInv == ASSUME NetInv, NEW n \in Node, WalkNode(n) PROVE NetInv'
<1>1. /\ n \in hand.ahead /\ UNCHANGED <<lists, nRefCount, flags, net, found>>
      /\ hand' = [hand EXCEPT !.ahead = hand.ahead \ {n}, !.use = n]
  BY DEF WalkNode
<1>2. /\ hand' \in Hands /\ hand'.copy = hand.copy /\ hand'.left = hand.left
      /\ hand'.node = hand.node /\ hand'.todo = hand.todo /\ hand'.walking = hand.walking
  BY <1>1 DEF NetInv, NetTypeOK, Hands
<1>3. /\ fDisconnect' \in [Node -> BOOLEAN] /\ hSocket' \subseteq Node
      /\ vRecvMsg' \in [Node -> Nat] /\ (hand.node = NoNode => hand.todo = 0)
      /\ hand.walking /\ hand.todo > 0
  BY <1>1 DEF NetInv, NetTypeOK, Hands, CopiesInUse, flags
<1> QED
  BY <1>1, <1>2, <1>3, HandleInv

\* SendMessages, and the handler goes on to the next node.
LEMMA SendMessagesInv ==
    ASSUME NetInv, NEW n \in Node, NEW ban \in BOOLEAN, SendMessages(n, ban),
           hand.todo = 0, UNCHANGED <<lists, nRefCount, hSocket, net, found>>,
           vRecvMsg' \in [Node -> Nat]
    PROVE  NetInv'
<1>1. /\ fDisconnect' = [fDisconnect EXCEPT ![n] = @ \/ ban]
      /\ hand' = [hand EXCEPT !.left = hand.left \ {n}, !.node = NoNode, !.todo = 0]
  BY DEF SendMessages
<1>0. hand.todo = 0 /\ hand.walking = FALSE /\ hand.ahead = {}
  BY DEF NetInv, NetTypeOK, CopiesInUse, Hands
<1>2. /\ hand' \in Hands /\ hand'.copy = hand.copy /\ hand'.left \subseteq hand.left
      /\ hand'.node = NoNode /\ hand'.todo = 0 /\ hand'.walking = FALSE /\ hand'.ahead = {}
  BY <1>0, <1>1 DEF NetInv, NetTypeOK, Hands
<1>3. fDisconnect' \in [Node -> BOOLEAN] /\ hSocket' \subseteq Node
  BY <1>1 DEF NetInv, NetTypeOK, Hands
<1> QED
  BY <1>2, <1>3, HandleInv

LEMMA IdleNodeInv ==
    ASSUME NetInv, NEW n \in Node, NEW ban \in BOOLEAN, IdleNode(n, ban)
    PROVE  NetInv'
<1>1. /\ SendMessages(n, ban) /\ UNCHANGED <<lists, nRefCount, hSocket, vRecvMsg, net, found>>
      /\ hand.node = NoNode
  BY DEF IdleNode
<1>2. hand.todo = 0 /\ vRecvMsg' \in [Node -> Nat]
  BY <1>1 DEF NetInv, NetTypeOK, Hands, CopiesInUse
<1> QED
  BY <1>1, <1>2, SendMessagesInv

LEMMA ProcessMessageInv ==
    ASSUME NetInv, NEW bad \in BOOLEAN, ProcessMessage(bad)
    PROVE  NetInv'
<1> DEFINE todo == IF bad THEN 0 ELSE hand.todo - 1
<1>1. /\ hand.walking /\ hand.ahead = {}
      /\ UNCHANGED <<lists, nRefCount, hSocket, vRecvMsg, net, found>>
      /\ fDisconnect' = [fDisconnect EXCEPT ![hand.node] = bad]
      /\ hand' = [hand EXCEPT !.todo = todo, !.walking = FALSE, !.use = NoNode]
  BY DEF ProcessMessage
<1>2. hand.node # NoNode /\ todo \in Nat
  BY <1>1 DEF NetInv, NetTypeOK, CopiesInUse, Hands
<1> HIDE DEF todo
<1>3. /\ hand' \in Hands /\ hand'.copy = hand.copy /\ hand'.left = hand.left
      /\ hand'.node = hand.node /\ hand'.walking = FALSE /\ hand'.ahead = {}
  BY <1>1, <1>2 DEF NetInv, NetTypeOK, Hands
<1>4. /\ fDisconnect' \in [Node -> BOOLEAN] /\ hSocket' \subseteq Node
      /\ vRecvMsg' \in [Node -> Nat]
  BY <1>1 DEF NetInv, NetTypeOK, Hands
<1> QED
  BY <1>1, <1>2, <1>3, <1>4, HandleInv

LEMMA EndMessagesInv ==
    ASSUME NetInv, NEW ban \in BOOLEAN, EndMessages(ban)
    PROVE  NetInv'
<1>1. /\ hand.node # NoNode /\ hand.todo = 0 /\ SendMessages(hand.node, ban)
      /\ vRecvMsg' \in {vRecvMsg, [vRecvMsg EXCEPT ![hand.node] = 0]}
      /\ UNCHANGED <<lists, nRefCount, hSocket, net, found>>
  BY DEF EndMessages
<1>2. hand.node \in Node /\ vRecvMsg' \in [Node -> Nat]
  BY <1>1 DEF NetInv, NetTypeOK, Hands
<1> QED
  BY <1>1, <1>2, SendMessagesInv

LEMMA CloseNodeInv == NetInv /\ CloseNode => NetInv'
<1> SUFFICES ASSUME NetInv, CloseNode PROVE NetInv'
  OBVIOUS
<1>1. /\ CloseSocketDisconnect({hand.node}, TRUE)
      /\ UNCHANGED <<lists, nRefCount, net, found>> /\ ~hand.walking
      /\ hand' = [hand EXCEPT !.left = hand.left \ {hand.node}, !.node = NoNode, !.todo = 0]
  BY DEF CloseNode
<1>2. /\ hand' \in Hands /\ hand'.copy = hand.copy /\ hand'.left \subseteq hand.left
      /\ hand'.node = NoNode /\ hand'.todo = 0 /\ hand'.walking = FALSE /\ hand'.ahead = {}
  BY <1>1 DEF NetInv, NetTypeOK, CopiesInUse, Hands
<1>3. /\ fDisconnect' \in [Node -> BOOLEAN] /\ hSocket' \subseteq Node
      /\ vRecvMsg' \in [Node -> Nat]
  BY <1>1, CloseTyped DEF NetInv
<1> QED
  BY <1>1, <1>2, <1>3, HandleInv

LEMMA HandReleaseInv == NetInv /\ HandRelease => NetInv'
<1> SUFFICES ASSUME NetInv, HandRelease PROVE NetInv'
  OBVIOUS
<1>1. /\ Release(hand.copy) /\ UNCHANGED <<lists, flags, net, found>>
      /\ hand' = [copy |-> {}, left |-> {}, node |-> NoNode, todo |-> 0,
                  walking |-> FALSE, ahead |-> {}, use |-> NoNode]
  BY DEF HandRelease, NoHand
<1>2. \A n \in hand.copy : n \in Node /\ Counted(n) >= 1
  BY DEF NetInv, NetTypeOK, Hands, Counted
<1>3. /\ nRefCount' \in [Node -> Nat]
      /\ \A m \in Node : nRefCount'[m] = nRefCount[m] - (IF m \in hand.copy THEN 1 ELSE 0)
  BY <1>1, <1>2, ReleaseCounts
<1>4. NetTypeOK'
  BY <1>1, <1>3 DEF NetInv, NetTypeOK, Hands, lists, flags
<1>5. CopiesInUse' /\ CopiesListed'
  BY <1>1 DEF NetInv, CopiesInUse, CopiesListed, lists
<1>6. CountsExact'
  <2>1. \A m \in Node : Counted(m)' = Counted(m) - (IF m \in hand.copy THEN 1 ELSE 0)
    BY <1>1 DEF Counted, lists
  <2>2. \A m \in Node : nRefCount[m] \in Nat /\ Counted(m) \in Nat
    BY DEF NetInv, NetTypeOK, Hands, Counted
  <2> QED
    BY <1>1, <1>3, <2>1, <2>2 DEF NetInv, CountsExact, Node, lists
<1> QED
  BY <1>4, <1>5, <1>6 DEF NetInv

---------------------------------------------------------------------------
(* The threads that connect out. *)

LEMMA ConnectNodeInv == ASSUME NetInv, NEW n \in Node, ConnectNode(n) PROVE NetInv'
<1>1. AddNode(n) /\ net' = net
  BY DEF ConnectNode
<1> QED
  BY <1>1, AddNodeInv

LEMMA FindNodeInv == ASSUME NetInv, NEW n \in Node, FindNode(n) PROVE NetInv'
<1>1. /\ n \in Outbound \cup Callable /\ found' = found \cup {n}
      /\ UNCHANGED <<lists, nRefCount, flags, net, hand>>
  BY DEF FindNode
<1>2. NetTypeOK' /\ CopiesInUse'
  BY <1>1 DEF NetInv, NetTypeOK, Hands, CopiesInUse, lists, flags
<1> QED
  BY <1>1, <1>2, RefsKept DEF NetInv

\* The reference that nobody gives back is why the count is exact for inbound nodes
\* that are not found.
LEMMA AddRefFoundInv == ASSUME NetInv, NEW n \in Node, AddRefFound(n) PROVE NetInv'
<1>1. /\ n \in found /\ AddRef({n}) /\ found' = found \ {n}
      /\ UNCHANGED <<lists, flags, net, hand>>
  BY DEF AddRefFound
<1>2. /\ nRefCount' \in [Node -> Nat]
      /\ \A m \in Node : nRefCount'[m] = nRefCount[m] + (IF m \in {n} THEN 1 ELSE 0)
  BY <1>1, AddRefCounts
<1>3. NetTypeOK' /\ CopiesInUse' /\ CopiesListed'
  BY <1>1, <1>2 DEF NetInv, NetTypeOK, Hands, CopiesInUse, CopiesListed, lists, flags
<1>4. CountsExact'
  <2>1. \A m \in Node : Counted(m)' = Counted(m)
    BY <1>1 DEF Counted, lists
  <2>2. \A m \in Node : nRefCount[m] \in Nat /\ Counted(m) \in Nat
    BY DEF NetInv, NetTypeOK, Hands, Counted
  <2>3. n \in Outbound \cup Callable
    BY <1>1 DEF NetInv, NetTypeOK, Hands
  <2> QED
    BY <1>1, <1>2, <2>1, <2>2, <2>3, NetAssumption DEF NetInv, CountsExact, Node, lists
<1> QED
  BY <1>3, <1>4 DEF NetInv

---------------------------------------------------------------------------

LEMMA NetNextInv == NetInv /\ [NetNext]_netVars => NetInv'
<1> SUFFICES ASSUME NetInv, [NetNext]_netVars PROVE NetInv'
  OBVIOUS
<1>1. CASE UNCHANGED netVars
  <2>1. NetTypeOK' /\ CopiesInUse'
    BY <1>1 DEF netVars, lists, flags, NetInv, NetTypeOK, Hands, CopiesInUse
  <2> QED
    BY <1>1, <2>1, RefsKept DEF netVars, NetInv
<1>2. CASE NetThread
  BY <1>2, DisconnectNodesInv, DeleteNodesInv, AcceptConnectionInv, AcceptNoneInv, NetCopyInv,
     ServeNothingInv, ReceiveInv, CloseInv, NetReleaseInv DEF NetThread
<1>3. CASE HandThread
  BY <1>3, HandCopyInv, SkipNodeInv, BeginMessagesInv, BeginWalkInv, WalkNodeInv,
     IdleNodeInv, ProcessMessageInv,
     EndMessagesInv, CloseNodeInv, HandReleaseInv DEF HandThread
<1>4. CASE \E n \in Node : ConnectNode(n) \/ FindNode(n) \/ AddRefFound(n)
  BY <1>4, ConnectNodeInv, FindNodeInv, AddRefFoundInv
<1> QED
  BY <1>1, <1>2, <1>3, <1>4 DEF NetNext

\* The invariant holds in every state, however the two threads interleave.
THEOREM NetInvariance == NetSpec => []NetInv
<1>1. NetInit => NetInv
  <2> SUFFICES ASSUME NetInit PROVE NetInv
    OBVIOUS
  <2>1. NetTypeOK
    BY DEF NetInit, NetTypeOK, Hands, NoHand
  <2>2. CopiesInUse /\ CopiesListed
    BY DEF NetInit, CopiesInUse, CopiesListed, NoHand
  <2>3. \A n \in Node : nRefCount[n] = 0 /\ Counted(n) = 0
    BY DEF NetInit, Counted, NoHand
  <2>4. CountsExact
    BY <2>3 DEF NetInit, CountsExact, Node, NoHand
  <2> QED
    BY <2>1, <2>2, <2>4 DEF NetInv
<1> QED
  BY <1>1, NetNextInv, PTL DEF NetSpec

\* No outbound node is deleted, so what FindNode gave and is deleted can only be an
\* inbound one.
LEMMA RefsFollow == NetInv => RefsExact
<1> SUFFICES ASSUME NetInv PROVE RefsExact
  OBVIOUS
<1>1. \A n \in Node : nRefCount[n] \in Nat /\ Counted(n) \in Nat /\ Holders(n) \in Nat
  BY DEF NetInv, NetTypeOK, Hands, Counted, Holders
<1>2. \A n \in Node : Counted(n) >= Holders(n)
  BY DEF Counted, Holders
<1>3. \A n \in Inbound : Counted(n) = Holders(n)
  BY NetAssumption DEF Counted, Holders
<1>4. found \cap deleted \subseteq Callable
  BY NetAssumption DEF NetInv, NetTypeOK, Hands, CountsExact
<1>5. \A n \in Outbound \cup Callable : nRefCount[n] >= Holders(n)
  BY <1>1, <1>2, NetAssumption DEF NetInv, CountsExact, Node
<1>6. \A n \in Inbound \ Callable : nRefCount[n] = Holders(n)
  BY <1>3 DEF NetInv, CountsExact, Node
<1> QED
  BY <1>4, <1>5, <1>6 DEF NetInv, CountsExact, RefsExact

\* The count of every connection covers its list and the copies of both threads, so
\* neither copy ever has a deleted node; for an inbound node that FindNode does not
\* find it is exact, so it can come down to zero; and the AddRef of ConnectNode never
\* comes to a deleted outbound node.
THEOREM RefsAlwaysExact == NetSpec => []RefsExact
  BY NetInvariance, RefsFollow, PTL
=============================================================================
