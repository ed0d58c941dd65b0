-------------------------- MODULE SecureMsg_proofs --------------------------
(***************************************************************************)
(* The buckets of secure messaging, for any nodes and messages, any number *)
(* of messages on their way and any faults: while messaging is on, the     *)
(* bucket in memory is the one on disk, and its hash stands for it.        *)
(***************************************************************************)
EXTENDS SecureMsg, WellFoundedInduction, TLAPS

Peer == Node \cup {NoPeer}

\* What nodes send each other.
Msg ==
    [type : {"smsgPing", "smsgPong", "smsgIgnore", "smsgDisabled", "smsgShow"}]
    \cup [type : {"smsgInv"}, size : {Cardinality(S) : S \in SUBSET Message},
          hash : SUBSET Message]
    \cup [type : {"smsgHave", "smsgWant"}, tokens : SUBSET Message]
    \cup [type : {"smsgMsg"}, bunch : SUBSET Message]

StoreTypeOK ==
    /\ file \in [Node -> SUBSET Message] /\ setTokens \in [Node -> SUBSET Message]
    /\ hash \in [Node -> SUBSET Message]
    /\ nLock \in [Node -> [count : Nat, peer : Peer]]

ThreadsTypeOK ==
    /\ hand \in [Node -> [at : {"idle", "send", "store"}, peer : Peer, work : SUBSET Message]]
    /\ smsg \in [Node -> [at : {"sleep", "vsend", "wait"}, peer : Peer]]
    /\ pow \in [Node -> Message \cup {NoMessage}]
    /\ joining \in [Node -> BOOLEAN]

WorldTypeOK ==
    /\ unsent \in SUBSET Message /\ outbox \in [Node -> SUBSET Message]
    /\ expired \in SUBSET Node /\ fSecMsgEnabled \in SUBSET Node /\ faults \in Nat

LinksTypeOK ==
    /\ smsgData \in [Link -> [seen : BOOLEAN, fEnabled : BOOLEAN, ignoring : BOOLEAN]]
    /\ chan \in [Link -> Seq(Msg)]

\* Type correctness; what is on its way is a message of the protocol.
SmsgTypeOK == StoreTypeOK /\ ThreadsTypeOK /\ WorldTypeOK /\ LinksTypeOK

\* SecureMsgDisable turns messaging off before it waits, and nothing turns it on then.
JoinersOff == \A n \in Node : joining[n] => n \notin fSecMsgEnabled

\* A thread that waits for the second lock of a peer waits for one it is connected to.
VSendForPeer ==
    \A n \in Node : smsg[n].at = "vsend" => smsg[n].peer \in Node \ {n}

\* No lock and no thread of a node is for the node itself.
OwnPeerNever == \A n \in Node : nLock[n].peer # n

\* The inductive invariant.
SmsgInv == SmsgTypeOK /\ JoinersOff /\ VSendForPeer /\ OwnPeerNever /\ BucketsExact

---------------------------------------------------------------------------

\* Messaging has a smallest message in every set of messages that is not empty.
LEMMA MinIn ==
    ASSUME NEW S \in SUBSET Message, S # {}
    PROVE  Min(S) \in S
<1> DEFINE R == {ss \in Nat \X Nat : ss[1] < ss[2]}
<1>1. IsWellFoundedOn(R, Nat)
  BY NatLessThanWellFounded DEF OpToRel
<1>2. S \in SUBSET Nat
  BY SecureMsgAssumption
<1>3. PICK i \in S : \A j \in S : ~(<<j, i>> \in R)
  <2> HIDE DEF R
  <2> QED
    BY <1>1, <1>2, WFMin
<1>4. \A j \in S : i <= j
  <2>1. \A j \in S : j \in Nat /\ ~(j < i)
    BY <1>2, <1>3
  <2> HIDE DEF R
  <2> QED
    BY <1>2, <2>1
<1> QED
  BY <1>4 DEF Min

\* The messages of the protocol are of their types.
LEMMA MsgMade ==
    /\ \A type \in {"smsgPing", "smsgPong", "smsgIgnore", "smsgDisabled", "smsgShow"} :
           [type |-> type] \in Msg
    /\ \A S \in SUBSET Message :
           /\ [type |-> "smsgInv", size |-> Cardinality(S), hash |-> S] \in Msg
           /\ [type |-> "smsgHave", tokens |-> S] \in Msg
           /\ [type |-> "smsgWant", tokens |-> S] \in Msg
           /\ [type |-> "smsgMsg", bunch |-> S] \in Msg
    /\ \A S, T \in SUBSET Message :
           [type |-> "smsgInv", size |-> Cardinality(S), hash |-> T] \in Msg
  BY DEF Msg

LEMMA MsgFields ==
    ASSUME NEW msg \in Msg
    PROVE  /\ msg.type \in {"smsgHave", "smsgWant"} => msg.tokens \subseteq Message
           /\ msg.type = "smsgMsg" => msg.bunch \subseteq Message
  BY DEF Msg

LEMMA LinkOf == \A l \in Link : l = <<l[1], l[2]>> /\ l[1] \in Node /\ l[2] \in Node /\ l[1] # l[2]
                                /\ <<l[2], l[1]>> \in Link
  BY DEF Link

---------------------------------------------------------------------------
(* What is on its way. *)

LEMMA Pushed ==
    ASSUME LinksTypeOK, NEW n \in Node, NEW p \in Node, n # p, NEW msg \in Msg, Push(n, p, msg)
    PROVE  chan' \in [Link -> Seq(Msg)]
<1>1. <<n, p>> \in Link
  BY DEF Link
<1>2. Append(chan[<<n, p>>], msg) \in Seq(Msg)
  BY <1>1 DEF LinksTypeOK
<1> QED
  BY <1>1, <1>2 DEF LinksTypeOK, Push

LEMMA Taken ==
    ASSUME LinksTypeOK, NEW n \in Node, NEW p \in Node, n # p, chan[<<p, n>>] # << >>
    PROVE  /\ NextMsg(n, p) \in Msg
           /\ Take(n, p) => chan' \in [Link -> Seq(Msg)]
           /\ \A msg \in Msg : Answer(n, p, msg) => chan' \in [Link -> Seq(Msg)]
<1>1. <<n, p>> \in Link /\ <<p, n>> \in Link
  BY DEF Link
<1>2. /\ Head(chan[<<p, n>>]) \in Msg /\ Tail(chan[<<p, n>>]) \in Seq(Msg)
      /\ chan[<<n, p>>] \in Seq(Msg)
  BY <1>1 DEF LinksTypeOK
<1>3. ASSUME Take(n, p) PROVE chan' \in [Link -> Seq(Msg)]
  BY <1>1, <1>2, <1>3 DEF LinksTypeOK, Take
<1>4. ASSUME NEW msg \in Msg, Answer(n, p, msg) PROVE chan' \in [Link -> Seq(Msg)]
  <2>1. Append(chan[<<n, p>>], msg) \in Seq(Msg)
    BY <1>2
  <2>2. <<n, p>> # <<p, n>>
    OBVIOUS
  <2> QED
    BY <1>1, <1>2, <1>4, <2>1, <2>2 DEF LinksTypeOK, Answer
<1> QED
  BY <1>2, <1>3, <1>4 DEF NextMsg

---------------------------------------------------------------------------
(* Steps that leave the bucket and the locks on it alone. *)

LEMMA SameStore ==
    ASSUME SmsgInv, SmsgTypeOK', UNCHANGED <<store, joining>>,
           fSecMsgEnabled' \subseteq fSecMsgEnabled,
           \A n \in Node : smsg'[n] = smsg[n] \/ smsg'[n] = Sleep,
           \A n \in Node : hand[n].at = "store" => hand'[n].at = "store"
    PROVE  SmsgInv'
<1> USE DEF SmsgInv, store
<1>1. JoinersOff'
  BY DEF JoinersOff
<1>2. VSendForPeer'
  BY DEF VSendForPeer, Sleep, Stage
<1>3. OwnPeerNever'
  BY DEF OwnPeerNever
<1>4. BucketsExact'
  BY DEF BucketsExact, SmsgTypeOK, WorldTypeOK
<1> QED
  BY <1>1, <1>2, <1>3, <1>4

LEMMA SecureMsgSendInv ==
    ASSUME SmsgInv, NEW m \in Message, SecureMsgSend(m)
    PROVE  SmsgInv'
<1> USE DEF SecureMsgSend, store, threads
<1>1. SmsgTypeOK'
  BY DEF SmsgInv, SmsgTypeOK, StoreTypeOK, ThreadsTypeOK, WorldTypeOK, LinksTypeOK
<1> QED
  BY <1>1, SameStore

LEMMA PowEraseInv ==
    ASSUME SmsgInv, NEW n \in Node, PowErase(n)
    PROVE  SmsgInv'
<1> USE DEF PowErase, store
<1>1. Min(outbox[n]) \in Message
  BY MinIn DEF SmsgInv, SmsgTypeOK, WorldTypeOK
<1>2. SmsgTypeOK'
  BY <1>1 DEF SmsgInv, SmsgTypeOK, StoreTypeOK, ThreadsTypeOK, WorldTypeOK, LinksTypeOK
<1> QED
  BY <1>2, SameStore

LEMMA IgnorePeerInv ==
    ASSUME SmsgInv, NEW n \in Node, IgnorePeer(n)
    PROVE  SmsgInv'
<1> USE DEF IgnorePeer, world, store, Sleep, Stage
<1> DEFINE p == smsg[n].peer
<1>1. p \in Node /\ p # n /\ <<n, p>> \in Link
  BY DEF SmsgInv, VSendForPeer, Link
<1>2. chan' \in [Link -> Seq(Msg)]
  BY <1>1, Pushed, MsgMade DEF SmsgInv, SmsgTypeOK
<1>3. smsgData' \in [Link -> [seen : BOOLEAN, fEnabled : BOOLEAN, ignoring : BOOLEAN]]
  BY <1>1 DEF SmsgInv, SmsgTypeOK, LinksTypeOK
<1>4. smsg' \in [Node -> [at : {"sleep", "vsend", "wait"}, peer : Peer]]
  BY DEF SmsgInv, SmsgTypeOK, ThreadsTypeOK, Peer
<1>5. SmsgTypeOK'
  BY <1>2, <1>3, <1>4
  DEF SmsgInv, SmsgTypeOK, StoreTypeOK, ThreadsTypeOK, WorldTypeOK, LinksTypeOK
<1>6. \A k \in Node : smsg'[k] = smsg[k] \/ smsg'[k] = Sleep
  BY DEF SmsgInv, SmsgTypeOK, ThreadsTypeOK
<1> QED
  BY <1>5, <1>6, SameStore

LEMMA EndIgnoreInv ==
    ASSUME SmsgInv, NEW n \in Node, NEW p \in Node, n # p, EndIgnore(n, p)
    PROVE  SmsgInv'
<1> USE DEF EndIgnore, world, store, threads
<1>1. smsgData' \in [Link -> [seen : BOOLEAN, fEnabled : BOOLEAN, ignoring : BOOLEAN]]
  BY DEF SmsgInv, SmsgTypeOK, LinksTypeOK, Link
<1>2. SmsgTypeOK'
  BY <1>1 DEF SmsgInv, SmsgTypeOK, StoreTypeOK, ThreadsTypeOK, WorldTypeOK, LinksTypeOK
<1> QED
  BY <1>2, SameStore

LEMMA SendDataInv ==
    ASSUME SmsgInv, NEW n \in Node, NEW p \in Node, n # p, SendData(n, p) \/ SendBlocked(n, p)
    PROVE  SmsgInv'
<1> USE DEF world, store, threads
<1>1. CASE SendData(n, p)
  <2> USE <1>1 DEF SendData
  <2>1. PICK msg \in Msg : Push(n, p, msg)
    BY MsgMade DEF SmsgInv, SmsgTypeOK, StoreTypeOK
  <2>2. chan' \in [Link -> Seq(Msg)]
    BY <2>1, Pushed DEF SmsgInv, SmsgTypeOK
  <2>3. smsgData' \in [Link -> [seen : BOOLEAN, fEnabled : BOOLEAN, ignoring : BOOLEAN]]
    BY DEF SmsgInv, SmsgTypeOK, LinksTypeOK, Link
  <2>4. SmsgTypeOK'
    BY <2>2, <2>3 DEF SmsgInv, SmsgTypeOK, StoreTypeOK, ThreadsTypeOK, WorldTypeOK, LinksTypeOK
  <2> QED
    BY <2>4, SameStore
<1>2. CASE SendBlocked(n, p)
  <2> USE <1>2 DEF SendBlocked, At
  <2>1. SmsgTypeOK'
    BY DEF SmsgInv, SmsgTypeOK, StoreTypeOK, ThreadsTypeOK, WorldTypeOK, LinksTypeOK, Peer
  <2>2. \A k \in Node : hand[k].at = "store" => hand'[k].at = "store"
    BY DEF Sends, Idle, SmsgInv, SmsgTypeOK, ThreadsTypeOK
  <2> QED
    BY <2>1, <2>2, SameStore
<1> QED
  BY <1>1, <1>2

---------------------------------------------------------------------------
(* SecureMsgReceiveData. *)

LEMMA ReceiveOffInv ==
    ASSUME SmsgInv, NEW n \in Node, NEW p \in Node, n # p, ReceiveOff(n, p)
    PROVE  SmsgInv'
<1> USE DEF ReceiveOff, Handles, world, store, threads
<1>1. chan' \in [Link -> Seq(Msg)]
  BY Taken DEF SmsgInv, SmsgTypeOK
<1>2. SmsgTypeOK'
  BY <1>1 DEF SmsgInv, SmsgTypeOK, StoreTypeOK, ThreadsTypeOK, WorldTypeOK, LinksTypeOK
<1> QED
  BY <1>2, SameStore

LEMMA ReceiveAnswerInv ==
    ASSUME SmsgInv, NEW n \in Node, NEW p \in Node, n # p,
           \/ ReceivePing(n, p) \/ ReceiveInv(n, p) \/ ReceiveShow(n, p) \/ ReceiveWant(n, p)
    PROVE  SmsgInv'
<1> USE DEF Gets, Handles, world, store, threads
<1>1. chan[<<p, n>>] # << >>
  BY DEF ReceivePing, ReceiveInv, ReceiveShow, ReceiveWant
<1>2. NextMsg(n, p) \in Msg /\ setTokens[n] \in SUBSET Message
  BY <1>1, Taken DEF SmsgInv, SmsgTypeOK, StoreTypeOK
<1>3. Take(n, p) \/ \E msg \in Msg : Answer(n, p, msg)
  <2>1. CASE ReceivePing(n, p)
    BY <2>1, MsgMade DEF ReceivePing
  <2>2. CASE ReceiveInv(n, p)
    BY <2>2, MsgMade DEF ReceiveInv
  <2>3. CASE ReceiveShow(n, p)
    BY <1>2, <2>3, MsgMade DEF ReceiveShow
  <2>4. CASE ReceiveWant(n, p)
    <3>1. Bunch(NextMsg(n, p).tokens \cap setTokens[n] \cap file[n]) \in SUBSET Message
      BY <1>2 DEF Bunch
    <3> QED
      BY <2>4, <3>1, MsgMade DEF ReceiveWant
  <2> QED
    BY <2>1, <2>2, <2>3, <2>4
<1>4. chan' \in [Link -> Seq(Msg)]
  BY <1>1, <1>3, Taken DEF SmsgInv, SmsgTypeOK
<1>5. UNCHANGED <<world, store, threads, smsgData>>
  BY DEF ReceivePing, ReceiveInv, ReceiveShow, ReceiveWant
<1>6. SmsgTypeOK'
  BY <1>4, <1>5 DEF SmsgInv, SmsgTypeOK, StoreTypeOK, ThreadsTypeOK, WorldTypeOK, LinksTypeOK
<1> QED
  BY <1>5, <1>6, SameStore

LEMMA ReceiveNoteInv ==
    ASSUME SmsgInv, NEW n \in Node, NEW p \in Node, n # p,
           ReceiveEnabled(n, p) \/ ReceiveIgnore(n, p)
    PROVE  SmsgInv'
<1> USE DEF ReceiveEnabled, ReceiveIgnore, Gets, Handles, world, store, threads
<1>1. chan' \in [Link -> Seq(Msg)]
  BY Taken DEF SmsgInv, SmsgTypeOK
<1>2. smsgData' \in [Link -> [seen : BOOLEAN, fEnabled : BOOLEAN, ignoring : BOOLEAN]]
  <2>1. <<n, p>> \in Link
    BY DEF Link
  <2>2. CASE smsgData' = [smsgData EXCEPT ![<<n, p>>].ignoring = TRUE]
    BY <2>1, <2>2 DEF SmsgInv, SmsgTypeOK, LinksTypeOK
  <2>3. ASSUME NEW pong \in BOOLEAN, smsgData' = [smsgData EXCEPT ![<<n, p>>].fEnabled = pong]
        PROVE  smsgData' \in [Link -> [seen : BOOLEAN, fEnabled : BOOLEAN, ignoring : BOOLEAN]]
    BY <2>1, <2>3 DEF SmsgInv, SmsgTypeOK, LinksTypeOK
  <2>4. (NextMsg(n, p).type = "smsgPong") \in BOOLEAN
    OBVIOUS
  <2> QED
    BY <2>2, <2>3, <2>4
<1>3. SmsgTypeOK'
  BY <1>1, <1>2 DEF SmsgInv, SmsgTypeOK, StoreTypeOK, ThreadsTypeOK, WorldTypeOK, LinksTypeOK
<1> QED
  BY <1>3, SameStore

LEMMA ReceiveMsgInv ==
    ASSUME SmsgInv, NEW n \in Node, NEW p \in Node, n # p, ReceiveMsg(n, p)
    PROVE  SmsgInv'
<1> USE DEF ReceiveMsg, Gets, Handles, world, store, At
<1>1. chan' \in [Link -> Seq(Msg)] /\ NextMsg(n, p) \in Msg
  BY Taken DEF SmsgInv, SmsgTypeOK
<1>2. NextMsg(n, p).bunch \subseteq Message
  BY <1>1, MsgFields
<1>3. hand' \in [Node -> [at : {"idle", "send", "store"}, peer : Peer, work : SUBSET Message]]
  BY <1>2 DEF SmsgInv, SmsgTypeOK, ThreadsTypeOK, Peer
<1>4. SmsgTypeOK'
  BY <1>1, <1>3 DEF SmsgInv, SmsgTypeOK, StoreTypeOK, ThreadsTypeOK, WorldTypeOK, LinksTypeOK
<1>5. \A k \in Node : hand[k].at = "store" => hand'[k].at = "store"
  BY DEF SmsgInv, SmsgTypeOK, ThreadsTypeOK, Idle
<1> QED
  BY <1>4, <1>5, SameStore

LEMMA ReceiveHaveInv ==
    ASSUME SmsgInv, NEW n \in Node, NEW p \in Node, n # p, ReceiveHave(n, p)
    PROVE  SmsgInv'
<1> USE DEF ReceiveHave, Gets, Handles, world, threads
<1>1. NextMsg(n, p) \in Msg /\ NextMsg(n, p).type = "smsgHave"
  BY Taken DEF SmsgInv, SmsgTypeOK
<1>2. NextMsg(n, p).tokens \ setTokens[n] \in SUBSET Message
  BY <1>1, MsgFields
<1>3. chan' \in [Link -> Seq(Msg)]
  <2>1. Take(n, p) \/ \E msg \in Msg : Answer(n, p, msg)
    BY <1>2, MsgMade
  <2> QED
    BY <2>1, Taken DEF SmsgInv, SmsgTypeOK
<1>4. /\ nLock' \in [Node -> [count : Nat, peer : Peer]]
      /\ OwnPeerNever'
  <2>1. CASE UNCHANGED nLock
    BY <2>1 DEF SmsgInv, SmsgTypeOK, StoreTypeOK, OwnPeerNever
  <2>2. CASE nLock' = [nLock EXCEPT ![n] = [count |-> LockTime, peer |-> p]]
    <3>1. [count |-> LockTime, peer |-> p] \in [count : Nat, peer : Peer]
      BY SecureMsgAssumption DEF Peer
    <3> HIDE DEF ReceiveHave
    <3> QED
      BY <2>2, <3>1 DEF SmsgInv, SmsgTypeOK, StoreTypeOK, OwnPeerNever
  <2> QED
    BY <2>1, <2>2
<1>5. UNCHANGED <<world, file, setTokens, hash, threads, smsgData>>
  OBVIOUS
<1> HIDE DEF ReceiveHave
<1>6. SmsgTypeOK'
  BY <1>3, <1>4, <1>5
  DEF SmsgInv, SmsgTypeOK, StoreTypeOK, ThreadsTypeOK, WorldTypeOK, LinksTypeOK
<1> QED
  BY <1>4, <1>5, <1>6 DEF SmsgInv, JoinersOff, VSendForPeer, BucketsExact

---------------------------------------------------------------------------
(* What a thread does to its own node's bucket. *)

\* A step of node n that leaves the others, the links and what is known about peers.
LEMMA OwnBucket ==
    ASSUME SmsgInv, SmsgTypeOK', NEW n \in Node,
           UNCHANGED <<smsg, joining, fSecMsgEnabled>>,
           nLock'[n] = nLock[n] \/ nLock'[n] = NoLock,
           \A k \in Node \ {n} : /\ file'[k] = file[k] /\ setTokens'[k] = setTokens[k]
                                 /\ hash'[k] = hash[k] /\ nLock'[k] = nLock[k]
                                 /\ hand'[k] = hand[k],
           file[n] = setTokens[n] => file'[n] = setTokens'[n],
           hand'[n].at # "store" =>
               \/ hash'[n] = setTokens'[n]
               \/ /\ hand[n].at # "store" /\ hash'[n] = hash[n] /\ setTokens'[n] = setTokens[n]
    PROVE  SmsgInv'
<1> USE DEF SmsgInv
<1>1. JoinersOff' /\ VSendForPeer'
  BY DEF JoinersOff, VSendForPeer
<1>2. OwnPeerNever'
  BY SecureMsgAssumption DEF OwnPeerNever, NoLock
<1>3. BucketsExact'
  <2> SUFFICES ASSUME NEW k \in fSecMsgEnabled
               PROVE  /\ setTokens'[k] = file'[k]
                      /\ hand'[k].at # "store" => hash'[k] = setTokens'[k]
    BY DEF BucketsExact
  <2>1. k \in Node
    BY DEF SmsgTypeOK, WorldTypeOK
  <2>2. setTokens[k] = file[k] /\ (hand[k].at # "store" => hash[k] = setTokens[k])
    BY DEF BucketsExact
  <2> QED
    BY <2>1, <2>2
<1> QED
  BY <1>1, <1>2, <1>3

LEMMA PowStoreInv ==
    ASSUME SmsgInv, NEW n \in Node, PowStore(n)
    PROVE  SmsgInv'
<1> USE DEF PowStore, Store, HashBucket, world
<1>1. pow[n] \in Message
  BY DEF SmsgInv, SmsgTypeOK, ThreadsTypeOK
<1>2. SmsgTypeOK'
  <2>1. file[n] \cup {pow[n]} \in SUBSET Message /\ setTokens[n] \cup {pow[n]} \in SUBSET Message
    BY <1>1 DEF SmsgInv, SmsgTypeOK, StoreTypeOK
  <2>2. file' \in [Node -> SUBSET Message] /\ setTokens' \in [Node -> SUBSET Message]
    BY <2>1 DEF SmsgInv, SmsgTypeOK, StoreTypeOK
  <2>3. hash' \in [Node -> SUBSET Message]
    BY <2>2 DEF SmsgInv, SmsgTypeOK, StoreTypeOK
  <2>4. pow' \in [Node -> Message \cup {NoMessage}]
    BY DEF SmsgInv, SmsgTypeOK, ThreadsTypeOK
  <2>5. UNCHANGED <<world, nLock, hand, smsg, joining, smsgData, chan>>
    OBVIOUS
  <2> HIDE DEF PowStore
  <2> QED
    BY <2>2, <2>3, <2>4, <2>5
    DEF SmsgInv, SmsgTypeOK, StoreTypeOK, ThreadsTypeOK, WorldTypeOK, LinksTypeOK
<1> USE DEF SmsgInv, SmsgTypeOK, StoreTypeOK
<1>3. \A k \in Node \ {n} : /\ file'[k] = file[k] /\ setTokens'[k] = setTokens[k]
                            /\ hash'[k] = hash[k]
  OBVIOUS
<1>4. file[n] = setTokens[n] => file'[n] = setTokens'[n]
  OBVIOUS
<1>5. \/ hash'[n] = setTokens'[n]
      \/ hash'[n] = hash[n] /\ setTokens'[n] = setTokens[n]
  OBVIOUS
<1>6. UNCHANGED <<nLock, hand, smsg, joining, fSecMsgEnabled>>
  OBVIOUS
<1> HIDE DEF PowStore, SmsgInv, SmsgTypeOK
<1> QED
  BY <1>2, <1>3, <1>4, <1>5, <1>6, OwnBucket

LEMMA SmsgRemoveInv ==
    ASSUME SmsgInv, NEW n \in Node, SmsgRemove(n)
    PROVE  SmsgInv'
<1> USE DEF SmsgRemove, world, threads
<1>1. NoLock \in [count : Nat, peer : Peer]
  BY DEF NoLock, Peer
<1>2. SmsgTypeOK'
  BY <1>1 DEF SmsgInv, SmsgTypeOK, StoreTypeOK, ThreadsTypeOK, WorldTypeOK, LinksTypeOK
<1>3. \A k \in Node \ {n} : /\ file'[k] = file[k] /\ setTokens'[k] = setTokens[k]
                            /\ hash'[k] = hash[k] /\ nLock'[k] = nLock[k]
  BY DEF SmsgInv, SmsgTypeOK, StoreTypeOK
<1>4. file'[n] = setTokens'[n] /\ hash'[n] = setTokens'[n] /\ nLock'[n] = NoLock
  BY DEF SmsgInv, SmsgTypeOK, StoreTypeOK
<1>5. UNCHANGED <<hand, smsg, joining, fSecMsgEnabled>>
  OBVIOUS
<1> HIDE DEF SmsgRemove
<1> QED
  BY <1>2, <1>3, <1>4, <1>5, OwnBucket

LEMMA StoreNextInv ==
    ASSUME SmsgInv, NEW n \in Node, StoreNext(n)
    PROVE  SmsgInv'
<1> USE DEF StoreNext, Store, world
<1> DEFINE m == Min(hand[n].work)
<1>1. m \in Message
  BY MinIn DEF SmsgInv, SmsgTypeOK, ThreadsTypeOK
<1> HIDE DEF m
<1>2. \/ /\ file' = [file EXCEPT ![n] = @ \cup {m}]
         /\ setTokens' = [setTokens EXCEPT ![n] = @ \cup {m}]
         /\ hand' = [hand EXCEPT ![n].work = @ \ {m}]
      \/ /\ hand' = [hand EXCEPT ![n].work = {}]
         /\ UNCHANGED <<file, setTokens>>
  BY DEF m
<1>3. hand[n].at = "store"
      /\ UNCHANGED <<world, hash, nLock, smsg, pow, joining, smsgData, chan>>
  OBVIOUS
<1> HIDE DEF StoreNext
<1>4. hand' \in [Node -> [at : {"idle", "send", "store"}, peer : Peer, work : SUBSET Message]]
  BY <1>2 DEF SmsgInv, SmsgTypeOK, ThreadsTypeOK
<1>5. file' \in [Node -> SUBSET Message] /\ setTokens' \in [Node -> SUBSET Message]
  <2>1. file[n] \cup {m} \in SUBSET Message /\ setTokens[n] \cup {m} \in SUBSET Message
    BY <1>1 DEF SmsgInv, SmsgTypeOK, StoreTypeOK
  <2> QED
    BY <1>2, <2>1 DEF SmsgInv, SmsgTypeOK, StoreTypeOK
<1>6. SmsgTypeOK'
  BY <1>3, <1>4, <1>5
  DEF SmsgInv, SmsgTypeOK, StoreTypeOK, ThreadsTypeOK, WorldTypeOK, LinksTypeOK
<1>7. hand'[n].at = "store"
  BY <1>2, <1>3 DEF SmsgInv, SmsgTypeOK, ThreadsTypeOK
<1>8. \A k \in Node \ {n} : /\ file'[k] = file[k] /\ setTokens'[k] = setTokens[k]
                            /\ hand'[k] = hand[k]
  BY <1>2 DEF SmsgInv, SmsgTypeOK, StoreTypeOK, ThreadsTypeOK
<1>9. file[n] = setTokens[n] => file'[n] = setTokens'[n]
  BY <1>2 DEF SmsgInv, SmsgTypeOK, StoreTypeOK
<1> QED
  BY <1>3, <1>6, <1>7, <1>8, <1>9, OwnBucket

LEMMA EndBunchInv ==
    ASSUME SmsgInv, NEW n \in Node, EndBunch(n)
    PROVE  SmsgInv'
<1> USE DEF EndBunch, HashBucket, world
<1>1. NoLock \in [count : Nat, peer : Peer]
      /\ Idle \in [at : {"idle", "send", "store"}, peer : Peer, work : SUBSET Message]
  BY DEF NoLock, Peer, Idle, At
<1>2. SmsgTypeOK'
  BY <1>1 DEF SmsgInv, SmsgTypeOK, StoreTypeOK, ThreadsTypeOK, WorldTypeOK, LinksTypeOK
<1>3. \A k \in Node \ {n} : /\ hash'[k] = hash[k] /\ nLock'[k] = nLock[k] /\ hand'[k] = hand[k]
  BY DEF SmsgInv, SmsgTypeOK, StoreTypeOK, ThreadsTypeOK
<1>4. hash'[n] = setTokens'[n] /\ nLock'[n] = NoLock
  BY DEF SmsgInv, SmsgTypeOK, StoreTypeOK
<1>5. UNCHANGED <<file, setTokens, smsg, joining, fSecMsgEnabled>>
  OBVIOUS
<1> HIDE DEF EndBunch
<1> QED
  BY <1>2, <1>3, <1>4, <1>5, OwnBucket

---------------------------------------------------------------------------
(* ThreadSecureMsg ends a lock; messaging is turned off and on; faults. *)

LEMMA SmsgRoundInv ==
    ASSUME SmsgInv, NEW n \in Node, SmsgRound(n)
    PROVE  SmsgInv'
<1> USE DEF SmsgRound
<1>1. nLock[n] \in [count : Nat, peer : Peer]
  BY DEF SmsgInv, SmsgTypeOK, StoreTypeOK
<1>2. /\ nLock' \in [Node -> [count : Nat, peer : Peer]] /\ OwnPeerNever'
      /\ smsg' \in [Node -> [at : {"sleep", "vsend", "wait"}, peer : Peer]] /\ VSendForPeer'
  <2>1. CASE nLock[n].count = 1
    <3> DEFINE s == IF nLock[n].peer = NoPeer THEN Sleep ELSE Stage("vsend", nLock[n].peer)
    <3>1. nLock' = [nLock EXCEPT ![n] = NoLock] /\ smsg' = [smsg EXCEPT ![n] = s]
      BY <2>1
    <3>2. /\ NoLock \in [count : Nat, peer : Peer] /\ NoLock.peer # n
          /\ s \in [at : {"sleep", "vsend", "wait"}, peer : Peer]
          /\ s.at = "vsend" => s.peer \in Node \ {n}
      BY <1>1, SecureMsgAssumption DEF NoLock, Peer, Sleep, Stage, SmsgInv, OwnPeerNever
    <3> HIDE DEF SmsgRound, s
    <3> QED
      BY <3>1, <3>2 DEF SmsgInv, SmsgTypeOK, StoreTypeOK, ThreadsTypeOK, OwnPeerNever, VSendForPeer
  <2>2. CASE nLock[n].count # 1
    <3>1. /\ nLock' = [nLock EXCEPT ![n].count = @ - 1] /\ nLock[n].count - 1 \in Nat
          /\ UNCHANGED smsg
      BY <1>1, <2>2
    <3> HIDE DEF SmsgRound
    <3> QED
      BY <3>1 DEF SmsgInv, SmsgTypeOK, StoreTypeOK, ThreadsTypeOK, OwnPeerNever, VSendForPeer
  <2> QED
    BY <2>1, <2>2
<1>3. UNCHANGED <<world, file, setTokens, hash, hand, pow, joining, smsgData, chan>>
  OBVIOUS
<1> HIDE DEF SmsgRound
<1>4. SmsgTypeOK'
  BY <1>2, <1>3
  DEF SmsgInv, SmsgTypeOK, StoreTypeOK, ThreadsTypeOK, WorldTypeOK, LinksTypeOK, world
<1> QED
  BY <1>2, <1>3, <1>4 DEF SmsgInv, JoinersOff, BucketsExact, world

LEMMA ExpireInv ==
    ASSUME SmsgInv, NEW n \in Node, Expire(n)
    PROVE  SmsgInv'
<1> USE DEF Expire, Fault, store, threads
<1>1. SmsgTypeOK'
  BY DEF SmsgInv, SmsgTypeOK, StoreTypeOK, ThreadsTypeOK, WorldTypeOK, LinksTypeOK
<1> QED
  BY <1>1, SameStore

LEMMA DisableInv ==
    ASSUME SmsgInv, NEW n \in Node, Disable(n)
    PROVE  SmsgInv'
<1> USE DEF Disable, Fault, store
<1>1. faults' \in Nat /\ joining' \in [Node -> BOOLEAN] /\ fSecMsgEnabled' \subseteq fSecMsgEnabled
  BY DEF SmsgInv, SmsgTypeOK, WorldTypeOK, ThreadsTypeOK
<1>2. /\ smsg' \in [Node -> [at : {"sleep", "vsend", "wait"}, peer : Peer]]
      /\ VSendForPeer'
  <2>1. Stage("wait", NoPeer) \in [at : {"sleep", "vsend", "wait"}, peer : Peer]
        /\ Stage("wait", NoPeer).at # "vsend"
    BY DEF Stage, Peer
  <2>2. smsg' = smsg \/ smsg' = [smsg EXCEPT ![n] = Stage("wait", NoPeer)]
    BY DEF SmsgInv, SmsgTypeOK, ThreadsTypeOK
  <2> HIDE DEF Disable
  <2> QED
    BY <2>1, <2>2 DEF SmsgInv, SmsgTypeOK, ThreadsTypeOK, VSendForPeer
<1>3. SmsgTypeOK'
  BY <1>1, <1>2 DEF SmsgInv, SmsgTypeOK, StoreTypeOK, ThreadsTypeOK, WorldTypeOK, LinksTypeOK
<1>4. JoinersOff'
  BY DEF SmsgInv, JoinersOff, SmsgTypeOK, ThreadsTypeOK
<1> QED
  BY <1>1, <1>2, <1>3, <1>4 DEF SmsgInv, OwnPeerNever, BucketsExact

LEMMA DisableEndInv ==
    ASSUME SmsgInv, NEW n \in Node, DisableEnd(n)
    PROVE  SmsgInv'
<1> USE DEF DisableEnd, world
<1>1. joining[n] /\ n \notin fSecMsgEnabled
  BY DEF SmsgInv, JoinersOff
<1>2. /\ setTokens' = [setTokens EXCEPT ![n] = {}] /\ hash' = [hash EXCEPT ![n] = {}]
      /\ nLock' = [nLock EXCEPT ![n] = NoLock] /\ joining' = [joining EXCEPT ![n] = FALSE]
      /\ UNCHANGED <<world, file, hand, smsg, pow>>
  OBVIOUS
<1>3. chan' \in [Link -> Seq(Msg)]
  <2>1. \A l \in Link : /\ chan[l] \in Seq(Msg)
                        /\ Append(chan[l], [type |-> "smsgDisabled"]) \in Seq(Msg)
    BY MsgMade DEF SmsgInv, SmsgTypeOK, LinksTypeOK
  <2> QED
    BY <2>1
<1>4. smsgData' \in [Link -> [seen : BOOLEAN, fEnabled : BOOLEAN, ignoring : BOOLEAN]]
  BY DEF SmsgInv, SmsgTypeOK, LinksTypeOK
<1> HIDE DEF DisableEnd
<1>5. NoLock \in [count : Nat, peer : Peer] /\ NoLock.peer # n
  BY SecureMsgAssumption DEF NoLock, Peer
<1>6. SmsgTypeOK'
  BY <1>2, <1>3, <1>4, <1>5
  DEF SmsgInv, SmsgTypeOK, StoreTypeOK, ThreadsTypeOK, WorldTypeOK, LinksTypeOK
<1>7. JoinersOff' /\ VSendForPeer' /\ OwnPeerNever'
  BY <1>2, <1>5 DEF SmsgInv, SmsgTypeOK, StoreTypeOK, ThreadsTypeOK,
                    JoinersOff, VSendForPeer, OwnPeerNever
<1>8. BucketsExact'
  BY <1>1, <1>2 DEF SmsgInv, SmsgTypeOK, StoreTypeOK, WorldTypeOK, BucketsExact
<1> QED
  BY <1>6, <1>7, <1>8 DEF SmsgInv

\* The bucket of n as it is read from its file, or dropped with it.
LEMMA BucketBuilt ==
    ASSUME SmsgInv, NEW n \in Node, BuildBucketSet(n)
    PROVE  /\ StoreTypeOK'
           /\ file'[n] = setTokens'[n] /\ hash'[n] = setTokens'[n] /\ nLock'[n] = NoLock
           /\ \A k \in Node \ {n} : /\ file'[k] = file[k] /\ setTokens'[k] = setTokens[k]
                                    /\ hash'[k] = hash[k] /\ nLock'[k] = nLock[k]
<1> DEFINE S == IF n \in expired THEN {} ELSE file[n]
<1>1. S \in SUBSET Message
  BY DEF SmsgInv, SmsgTypeOK, StoreTypeOK
<1>2. /\ file' = [file EXCEPT ![n] = S] /\ setTokens' = [setTokens EXCEPT ![n] = S]
      /\ hash' = [hash EXCEPT ![n] = S] /\ nLock' = [nLock EXCEPT ![n] = NoLock]
  BY DEF BuildBucketSet
<1>3. NoLock \in [count : Nat, peer : Peer]
  BY DEF NoLock, Peer
<1> HIDE DEF S
<1> QED
  BY <1>1, <1>2, <1>3 DEF SmsgInv, SmsgTypeOK, StoreTypeOK

LEMMA EnableInv ==
    ASSUME SmsgInv, NEW n \in Node, Enable(n)
    PROVE  SmsgInv'
<1> USE DEF Enable, threads
<1>1. /\ StoreTypeOK'
      /\ file'[n] = setTokens'[n] /\ hash'[n] = setTokens'[n] /\ nLock'[n] = NoLock
      /\ \A k \in Node \ {n} : /\ file'[k] = file[k] /\ setTokens'[k] = setTokens[k]
                               /\ hash'[k] = hash[k] /\ nLock'[k] = nLock[k]
  BY BucketBuilt
<1>2. chan' \in [Link -> Seq(Msg)]
  <2>1. [type |-> "smsgPing"] \in Msg /\ [type |-> "smsgPong"] \in Msg
    BY MsgMade
  <2>2. <<[type |-> "smsgPing"], [type |-> "smsgPong"]>> \in Seq(Msg)
    BY <2>1
  <2>3. \A l \in Link : /\ chan[l] \in Seq(Msg)
                        /\ chan[l] \o <<[type |-> "smsgPing"], [type |-> "smsgPong"]>> \in Seq(Msg)
    BY <2>2 DEF SmsgInv, SmsgTypeOK, LinksTypeOK
  <2> QED
    BY <2>3
<1>3. /\ fSecMsgEnabled' = fSecMsgEnabled \cup {n} /\ ~joining[n]
      /\ UNCHANGED <<unsent, outbox, expired, faults, threads, smsgData>>
  BY DEF SmsgFree
<1> HIDE DEF Enable
<1>4. SmsgTypeOK'
  BY <1>1, <1>2, <1>3 DEF SmsgInv, SmsgTypeOK, ThreadsTypeOK, WorldTypeOK, LinksTypeOK
<1>5. JoinersOff' /\ VSendForPeer'
  BY <1>3 DEF SmsgInv, JoinersOff, VSendForPeer
<1>6. OwnPeerNever'
  BY <1>1, SecureMsgAssumption DEF SmsgInv, OwnPeerNever, NoLock
<1>7. BucketsExact'
  BY <1>1, <1>3 DEF SmsgInv, SmsgTypeOK, WorldTypeOK, BucketsExact
<1> QED
  BY <1>4, <1>5, <1>6, <1>7 DEF SmsgInv

\* New connections are of the type of the old ones.
LEMMA Reconnected ==
    ASSUME LinksTypeOK, NEW L, Reconnect(L)
    PROVE  LinksTypeOK'
<1>1. NewNode \in [seen : BOOLEAN, fEnabled : BOOLEAN, ignoring : BOOLEAN]
  BY DEF NewNode
<1>2. << >> \in Seq(Msg)
  OBVIOUS
<1> QED
  BY <1>1, <1>2 DEF LinksTypeOK, Reconnect

LEMMA DisconnectInv ==
    ASSUME SmsgInv, NEW n \in Node, NEW p \in Node, n # p, Disconnect(n, p)
    PROVE  SmsgInv'
<1> USE DEF Disconnect, Fault, threads
<1>1. LinksTypeOK'
  BY Reconnected DEF SmsgInv, SmsgTypeOK
<1>2. nLock' \in [Node -> [count : Nat, peer : Peer]] /\ OwnPeerNever'
  <2> DEFINE L == {<<n, p>>, <<p, n>>}
  <2>1. ASSUME NEW k \in Node
        PROVE  /\ Forget(nLock[k], k, L) \in [count : Nat, peer : Peer]
               /\ Forget(nLock[k], k, L).peer # k
    BY SecureMsgAssumption
    DEF Forget, Peer, SmsgInv, SmsgTypeOK, StoreTypeOK, OwnPeerNever
  <2>2. nLock' = [k \in Node |-> Forget(nLock[k], k, L)]
    OBVIOUS
  <2> HIDE DEF Disconnect, L
  <2> QED
    BY <2>1, <2>2 DEF OwnPeerNever
<1>3. faults' \in Nat
      /\ UNCHANGED <<unsent, outbox, expired, fSecMsgEnabled, file, setTokens, hash, threads>>
  BY DEF SmsgInv, SmsgTypeOK, WorldTypeOK
<1> HIDE DEF Disconnect
<1>4. SmsgTypeOK'
  BY <1>1, <1>2, <1>3 DEF SmsgInv, SmsgTypeOK, StoreTypeOK, ThreadsTypeOK, WorldTypeOK
<1> QED
  BY <1>2, <1>3, <1>4 DEF SmsgInv, JoinersOff, VSendForPeer, BucketsExact

LEMMA RestartInv ==
    ASSUME SmsgInv, NEW n \in Node, Restart(n)
    PROVE  SmsgInv'
<1> USE DEF Restart, Fault
<1>1. /\ StoreTypeOK'
      /\ file'[n] = setTokens'[n] /\ hash'[n] = setTokens'[n] /\ nLock'[n] = NoLock
      /\ \A k \in Node \ {n} : /\ file'[k] = file[k] /\ setTokens'[k] = setTokens[k]
                               /\ hash'[k] = hash[k] /\ nLock'[k] = nLock[k]
  BY BucketBuilt
<1>2. LinksTypeOK'
  BY Reconnected DEF SmsgInv, SmsgTypeOK
<1>3. /\ faults' \in Nat /\ fSecMsgEnabled' = fSecMsgEnabled \cup {n}
      /\ hand' = [hand EXCEPT ![n] = Idle] /\ smsg' = [smsg EXCEPT ![n] = Sleep]
      /\ pow' = [pow EXCEPT ![n] = NoMessage] /\ joining' = [joining EXCEPT ![n] = FALSE]
      /\ UNCHANGED <<unsent, outbox, expired>>
  BY DEF SmsgInv, SmsgTypeOK, WorldTypeOK
<1> HIDE DEF Restart
<1>4. ThreadsTypeOK'
  <2>1. /\ Idle \in [at : {"idle", "send", "store"}, peer : Peer, work : SUBSET Message]
        /\ Sleep \in [at : {"sleep", "vsend", "wait"}, peer : Peer]
    BY DEF Idle, At, Sleep, Stage, Peer
  <2> QED
    BY <1>3, <2>1 DEF SmsgInv, SmsgTypeOK, ThreadsTypeOK
<1>5. SmsgTypeOK'
  BY <1>1, <1>2, <1>3, <1>4 DEF SmsgInv, SmsgTypeOK, WorldTypeOK
<1>6. JoinersOff'
  BY <1>3 DEF SmsgInv, SmsgTypeOK, ThreadsTypeOK, JoinersOff
<1>7. VSendForPeer'
  BY <1>3 DEF SmsgInv, SmsgTypeOK, ThreadsTypeOK, VSendForPeer, Sleep, Stage
<1>8. OwnPeerNever'
  BY <1>1, SecureMsgAssumption DEF SmsgInv, OwnPeerNever, NoLock
<1>9. BucketsExact'
  BY <1>1, <1>3 DEF SmsgInv, SmsgTypeOK, ThreadsTypeOK, WorldTypeOK, BucketsExact
<1> QED
  BY <1>5, <1>6, <1>7, <1>8, <1>9 DEF SmsgInv

---------------------------------------------------------------------------

LEMMA SmsgInitInv == SmsgInit => SmsgInv
<1> SUFFICES ASSUME SmsgInit PROVE SmsgInv
  OBVIOUS
<1> USE DEF SmsgInit
<1>1. /\ Old \in [Node -> SUBSET Message] /\ NoLock \in [count : Nat, peer : Peer]
      /\ DOMAIN Author \subseteq Message
      /\ Idle \in [at : {"idle", "send", "store"}, peer : Peer, work : SUBSET Message]
      /\ Sleep \in [at : {"sleep", "vsend", "wait"}, peer : Peer]
      /\ NewNode \in [seen : BOOLEAN, fEnabled : BOOLEAN, ignoring : BOOLEAN]
  BY SecureMsgAssumption DEF NoLock, Peer, Idle, At, Sleep, Stage, NewNode
<1>2. SmsgTypeOK
  BY <1>1 DEF SmsgTypeOK, StoreTypeOK, ThreadsTypeOK, WorldTypeOK, LinksTypeOK
<1>3. JoinersOff /\ VSendForPeer /\ OwnPeerNever /\ BucketsExact
  BY SecureMsgAssumption
  DEF JoinersOff, VSendForPeer, OwnPeerNever, BucketsExact, Sleep, Stage, NoLock
<1> QED
  BY <1>2, <1>3 DEF SmsgInv

LEMMA SmsgNextInv == SmsgInv /\ [SmsgNext]_smsgVars => SmsgInv'
<1> SUFFICES ASSUME SmsgInv, [SmsgNext]_smsgVars PROVE SmsgInv'
  OBVIOUS
<1>1. ASSUME NEW m \in Message, SecureMsgSend(m) PROVE SmsgInv'
  BY <1>1, SecureMsgSendInv
<1>2. ASSUME NEW n \in Node, ThreadSecureMsg(n) \/ ThreadSecureMsgPow(n) \/ Continue(n)
      PROVE  SmsgInv'
  BY <1>2, SmsgRoundInv, SmsgRemoveInv, IgnorePeerInv, PowEraseInv, PowStoreInv, StoreNextInv,
     EndBunchInv
  DEF ThreadSecureMsg, ThreadSecureMsgPow, Continue
<1>3. ASSUME NEW n \in Node,
             Disable(n) \/ DisableEnd(n) \/ Enable(n) \/ Restart(n) \/ Expire(n)
      PROVE  SmsgInv'
  BY <1>3, DisableInv, DisableEndInv, EnableInv, RestartInv, ExpireInv
<1>4. ASSUME NEW l \in Link, ReceiveData(l[1], l[2])
      PROVE  SmsgInv'
  BY <1>4, LinkOf, ReceiveOffInv, ReceiveAnswerInv, ReceiveNoteInv, ReceiveHaveInv, ReceiveMsgInv
  DEF ReceiveData
<1>5. ASSUME NEW l \in Link,
             \/ SendData(l[1], l[2]) \/ SendBlocked(l[1], l[2]) \/ EndIgnore(l[1], l[2])
             \/ Disconnect(l[1], l[2])
      PROVE  SmsgInv'
  BY <1>5, LinkOf, SendDataInv, EndIgnoreInv, DisconnectInv
<1>6. CASE UNCHANGED smsgVars
  <2> USE <1>6 DEF smsgVars, world, store, threads
  <2>1. SmsgTypeOK'
    BY DEF SmsgInv, SmsgTypeOK, StoreTypeOK, ThreadsTypeOK, WorldTypeOK, LinksTypeOK
  <2> QED
    BY <2>1, SameStore
<1> QED
  BY <1>1, <1>2, <1>3, <1>4, <1>5, <1>6 DEF SmsgNext

\* The inductive invariant holds in every state.
THEOREM SmsgInvariance == SmsgSpec => []SmsgInv
<1>1. SmsgInit => SmsgInv
  BY SmsgInitInv
<1>2. SmsgInv /\ [SmsgNext]_smsgVars => SmsgInv'
  BY SmsgNextInv
<1> QED
  BY <1>1, <1>2, PTL DEF SmsgSpec

\* While messaging is on, the bucket in memory is the one on disk, and its hash, but
\* while a bunch is stored, is the hash of its messages.
THEOREM BucketsAlwaysExact == SmsgSpec => []BucketsExact
<1>1. SmsgInv => BucketsExact
  BY DEF SmsgInv
<1> QED
  BY <1>1, SmsgInvariance, PTL
=============================================================================
