------------------------------ MODULE SecureMsg ------------------------------
(***************************************************************************)
(* Secure messaging (smessage.cpp): nodes store each other's messages for  *)
(* 48 hours in buckets, compare buckets with their peers and pull what     *)
(* they lack. One bucket; its messages are numbered in the order of their  *)
(* tokens.                                                                 *)
(*                                                                         *)
(* Four threads of a node work on it. The message handler receives and     *)
(* sends (SecureMsgReceiveData, SecureMsgSendData). ThreadSecureMsg drops  *)
(* old buckets and times out the locks on buckets. ThreadSecureMsgPow      *)
(* moves messages from the outbox to their bucket. A user's thread turns   *)
(* messaging off and on. Every section under cs_smsg is one step. A peer's *)
(* cs_smsg_net and cs_vSend are taken one after the other, in this order   *)
(* by the handler and in the opposite one by the others.                   *)
(*                                                                         *)
(* Messages of a connection arrive in order, or are lost with it. All      *)
(* nodes follow the protocol, and their clocks differ: the bucket may be   *)
(* past its time at one node only.                                         *)
(***************************************************************************)
EXTENDS Naturals, Sequences, FiniteSets, FiniteSetsExt

CONSTANTS
    Node,
    Message,        \* numbers, in the order of their tokens
    Old,            \* node -> messages that it finds in the file of the bucket
    Author,         \* any other message -> the node that sends it
    NoPeer,         \* a peer that is not connected any more
    NoMessage,
    BunchSize,      \* messages in one smsgMsg (500, or 96000 bytes)
    LockTime,       \* rounds of ThreadSecureMsg until a lock ends (3)
    MaxInFlight,    \* bound: messages between two nodes, less one for each fault
    Faulty,         \* bound: nodes that lose connections, restart, turn messaging off, expire
    MaxFaults       \* bound: how often

ASSUME SecureMsgAssumption ==
    /\ Message \subseteq Nat
    /\ Old \in [Node -> SUBSET Message]
    /\ Author \in [Message \ UNION {Old[n] : n \in Node} -> Node]
    /\ NoPeer \notin Node
    /\ NoMessage \notin Message
    /\ BunchSize \in Nat \ {0}
    /\ LockTime \in Nat \ {0}
    /\ MaxInFlight \in Nat
    /\ Faulty \subseteq Node
    /\ MaxFaults \in Nat

VARIABLES
    unsent,         \* messages that nobody has sent yet
    outbox,         \* node -> messages "qm" of its database
    file,           \* node -> messages in the file of the bucket
    setTokens,      \* node -> messages of the bucket in memory
    hash,           \* node -> the messages that the hash of the bucket stands for
    nLock,          \* node -> [count, peer]: nLockCount and nLockPeerId of the bucket
    expired,        \* nodes for which the bucket is older than SMSG_RETENTION
    fSecMsgEnabled, \* nodes with messaging on
    hand,           \* node -> message handler: its stage, the peer, messages in work
    smsg,           \* node -> ThreadSecureMsg: its stage, the peer of a lock that timed out
    pow,            \* node -> message that ThreadSecureMsgPow took from the outbox
    joining,        \* node -> SecureMsgDisable waits for the threads, with cs_smsg
    smsgData,       \* link -> SecMsgNode: what the first node keeps about the second
    chan,           \* link -> messages on their way from the first to the second
    faults

store == <<file, setTokens, hash, nLock>>
threads == <<hand, smsg, pow, joining>>
world == <<unsent, outbox, expired, fSecMsgEnabled, faults>>
smsgVars == <<world, store, threads, smsgData, chan>>

Link == {l \in Node \X Node : l[1] # l[2]}

---------------------------------------------------------------------------

\* A new CNode: never seen, not known to have messaging. ignoring: ignoreUntil is not
\* reached.
NewNode == [seen |-> FALSE, fEnabled |-> FALSE, ignoring |-> FALSE]

NoLock == [count |-> 0, peer |-> NoPeer]

At(stage, p, S) == [at |-> stage, peer |-> p, work |-> S]

Idle == At("idle", NoPeer, {})

Stage(stage, p) == [at |-> stage, peer |-> p]

Sleep == Stage("sleep", NoPeer)

\* cs_smsg is held over several steps by SecureMsgDisable and by SecureMsgSendData.
SmsgFree(n) == ~joining[n] /\ hand[n].at # "send"

\* cs_vSend and cs_smsg_net of node n for its peer p.
VSendFree(n, p) == smsg[n] # Stage("vsend", p)

NetFree(n, p) == ~(hand[n].at = "send" /\ hand[n].peer = p)

Push(n, p, msg) == chan' = [chan EXCEPT ![<<n, p>>] = Append(@, msg)]

\* The next message from p to n is taken, and answered or not.
Take(n, p) == chan' = [chan EXCEPT ![<<p, n>>] = Tail(@)]

Answer(n, p, msg) ==
    chan' = [chan EXCEPT ![<<p, n>>] = Tail(@), ![<<n, p>>] = Append(@, msg)]

InFlight(n, p) == Len(chan[<<n, p>>]) + Len(chan[<<p, n>>])

\* hashBucket; timeChanged is left out with lastMatched, see Sends.
HashBucket(n, S) == hash' = [hash EXCEPT ![n] = S]

\* SecureMsgStore appends m to the file and to the bucket, or refuses it: known, or too
\* old. When the bucket is past its time a message of it may be so or not.
CanStore(n, m) == m \notin setTokens[n]

CanRefuse(n, m) == m \in setTokens[n] \/ n \in expired

Store(n, m) ==
    /\ file' = [file EXCEPT ![n] = @ \cup {m}]
    /\ setTokens' = [setTokens EXCEPT ![n] = @ \cup {m}]

\* Both bounds together: an exchange that a fault hits is not doubled.
Fault(n) ==
    /\ n \in Faulty
    /\ faults < MaxFaults
    /\ \A p \in Node \ {n} : InFlight(n, p) + faults < MaxInFlight
    /\ faults' = faults + 1

---------------------------------------------------------------------------
(***************************************************************************)
(* Sending: the user's call puts a message in the outbox, the proof of     *)
(* work thread takes it out, with the smallest key first, and stores it.   *)
(***************************************************************************)

SecureMsgSend(m) ==
    /\ m \in unsent
    /\ unsent' = unsent \ {m}
    /\ outbox' = [outbox EXCEPT ![Author[m]] = @ \cup {m}]
    /\ UNCHANGED <<expired, fSecMsgEnabled, faults, store, threads, smsgData, chan>>

\* "message is removed here, no matter what"
PowErase(n) ==
    /\ n \in fSecMsgEnabled
    /\ pow[n] = NoMessage
    /\ outbox[n] # {}
    /\ pow' = [pow EXCEPT ![n] = Min(outbox[n])]
    /\ outbox' = [outbox EXCEPT ![n] = @ \ {Min(outbox[n])}]
    /\ UNCHANGED <<unsent, expired, fSecMsgEnabled, faults, store, hand, smsg, joining,
                   smsgData, chan>>

PowStore(n) ==
    /\ pow[n] # NoMessage
    /\ SmsgFree(n)
    /\ pow' = [pow EXCEPT ![n] = NoMessage]
    /\ \/ /\ CanStore(n, pow[n])
          /\ Store(n, pow[n])
          /\ HashBucket(n, setTokens'[n])
       \/ /\ CanRefuse(n, pow[n])
          /\ UNCHANGED <<file, setTokens, hash>>
    /\ UNCHANGED <<world, nLock, hand, smsg, joining, smsgData, chan>>

---------------------------------------------------------------------------
(***************************************************************************)
(* ThreadSecureMsg.                                                        *)
(***************************************************************************)

\* The thread finds messaging on and takes cs_smsg (or comes too late for it, see Disable).
Rounds(n) == n \in fSecMsgEnabled /\ smsg[n] = Sleep /\ SmsgFree(n)

\* One round over the bucket. A lock that has been waiting for long enough ends, and its
\* peer is to be ignored if it is still there: the thread takes cs_vNodes and the peer's
\* cs_vSend for that, which nobody keeps.
SmsgRound(n) ==
    /\ Rounds(n)
    /\ n \notin expired
    /\ IF nLock[n].count = 1
       THEN /\ nLock' = [nLock EXCEPT ![n] = NoLock]
            /\ smsg' = [smsg EXCEPT ![n] = IF nLock[n].peer = NoPeer
                                           THEN Sleep ELSE Stage("vsend", nLock[n].peer)]
       ELSE /\ nLock[n].count > 1
            /\ nLock' = [nLock EXCEPT ![n].count = @ - 1]
            /\ UNCHANGED smsg
    /\ UNCHANGED <<world, file, setTokens, hash, hand, pow, joining, smsgData, chan>>

\* The bucket is too old: its file and the bucket go. What follows erase(it), it++, is
\* undefined: the loop goes on, or the process ends (Restart).
SmsgRemove(n) ==
    /\ Rounds(n)
    /\ n \in expired
    /\ file' = [file EXCEPT ![n] = {}]
    /\ setTokens' = [setTokens EXCEPT ![n] = {}]
    /\ hash' = [hash EXCEPT ![n] = {}]
    /\ nLock' = [nLock EXCEPT ![n] = NoLock]
    /\ UNCHANGED <<world, threads, smsgData, chan>>

\* The second half of LOCK2(cs_vSend, cs_smsg_net): the peer is ignored, and told so.
IgnorePeer(n) ==
    LET p == smsg[n].peer
    IN  /\ smsg[n].at = "vsend"
        /\ NetFree(n, p)
        /\ smsgData' = [smsgData EXCEPT ![<<n, p>>].ignoring = TRUE]
        /\ Push(n, p, [type |-> "smsgIgnore"])
        /\ smsg' = [smsg EXCEPT ![n] = Sleep]
        /\ UNCHANGED <<world, store, hand, pow, joining>>

\* SMSG_TIME_IGNORE has passed.
EndIgnore(n, p) ==
    /\ smsgData[<<n, p>>].ignoring
    /\ smsgData' = [smsgData EXCEPT ![<<n, p>>].ignoring = FALSE]
    /\ UNCHANGED <<world, store, threads, chan>>

---------------------------------------------------------------------------
(***************************************************************************)
(* SecureMsgSendData, called by the message handler for every peer in      *)
(* turn.                                                                   *)
(***************************************************************************)

\* There is something to send to p: the first contact, or an inventory for a peer with
\* messaging. A bucket that has not changed since lastMatched is left out, until
\* nWakeCounter runs down: as this may be at any call, lastMatched is not modelled.
Sends(n, p) ==
    LET d == smsgData[<<n, p>>]
    IN  /\ n \in fSecMsgEnabled
        /\ hand[n] = Idle
        /\ SmsgFree(n)
        /\ InFlight(n, p) + faults < MaxInFlight
        /\ \/ ~d.seen
           \/ d.fEnabled /\ ~d.ignoring /\ setTokens[n] # {}

\* The handler takes cs_smsg_net, cs_smsg and in PushMessage cs_vSend. The inventory has
\* the size and the hash of the bucket.
SendData(n, p) ==
    /\ Sends(n, p)
    /\ VSendFree(n, p)
    /\ Push(n, p, IF smsgData[<<n, p>>].seen
                  THEN [type |-> "smsgInv",
                        size |-> Cardinality(setTokens[n]), hash |-> hash[n]]
                  ELSE [type |-> "smsgPing"])
    /\ smsgData' = [smsgData EXCEPT ![<<n, p>>].seen = TRUE]
    /\ UNCHANGED <<world, store, threads>>

\* ThreadSecureMsg has cs_vSend: the handler stays where it is, with the other two locks.
SendBlocked(n, p) ==
    /\ Sends(n, p)
    /\ ~VSendFree(n, p)
    /\ hand' = [hand EXCEPT ![n] = At("send", p, {})]
    /\ UNCHANGED <<world, store, smsg, pow, joining, smsgData, chan>>

---------------------------------------------------------------------------
(***************************************************************************)
(* SecureMsgReceiveData, one action for each message.                      *)
(***************************************************************************)

\* The handler turns to the next message from p.
NextMsg(n, p) == Head(chan[<<p, n>>])

Handles(n, p) ==
    /\ hand[n] = Idle
    /\ chan[<<p, n>>] # << >>

Gets(n, p, type) ==
    /\ Handles(n, p)
    /\ n \in fSecMsgEnabled
    /\ SmsgFree(n)
    /\ NextMsg(n, p).type = type

\* Messaging is off: ProcessMessage passes the message over.
ReceiveOff(n, p) ==
    /\ Handles(n, p)
    /\ n \notin fSecMsgEnabled
    /\ Take(n, p)
    /\ UNCHANGED <<world, store, threads, smsgData>>

ReceivePing(n, p) ==
    /\ Gets(n, p, "smsgPing")
    /\ Answer(n, p, [type |-> "smsgPong"])
    /\ UNCHANGED <<world, store, threads, smsgData>>

\* smsgPong, smsgDisabled: the peer has messaging, or has turned it off.
ReceiveEnabled(n, p) ==
    /\ \/ Gets(n, p, "smsgPong")
       \/ Gets(n, p, "smsgDisabled")
    /\ Take(n, p)
    /\ smsgData' = [smsgData EXCEPT ![<<n, p>>].fEnabled = NextMsg(n, p).type = "smsgPong"]
    /\ UNCHANGED <<world, store, threads>>

ReceiveIgnore(n, p) ==
    /\ Gets(n, p, "smsgIgnore")
    /\ Take(n, p)
    /\ smsgData' = [smsgData EXCEPT ![<<n, p>>].ignoring = TRUE]
    /\ UNCHANGED <<world, store, threads>>

\* Mutant: the sizes of the buckets are compared, their hashes are not.
LacksSize(n, inv) == n \notin expired /\ Cardinality(setTokens[n]) < inv.size

\* The peer's bucket has what this one lacks: it is larger, or as large and different.
Lacks(n, inv) ==
    /\ n \notin expired
    /\ \/ Cardinality(setTokens[n]) < inv.size
       \/ Cardinality(setTokens[n]) = inv.size /\ hash[n] # inv.hash

\* No answer for a peer that is ignored, or while the bucket is locked. If nothing is
\* lacking the answer is smsgMatch, which only sets lastMatched: see Sends.
ReceiveInv(n, p) ==
    /\ Gets(n, p, "smsgInv")
    /\ IF smsgData[<<n, p>>].ignoring \/ nLock[n].count > 0 \/ ~Lacks(n, NextMsg(n, p))
       THEN Take(n, p)
       ELSE Answer(n, p, [type |-> "smsgShow"])
    /\ UNCHANGED <<world, store, threads, smsgData>>

\* A bucket that is not there, or empty, brings no answer, or one that has no effect.
ReceiveShow(n, p) ==
    /\ Gets(n, p, "smsgShow")
    /\ IF setTokens[n] = {}
       THEN Take(n, p)
       ELSE Answer(n, p, [type |-> "smsgHave", tokens |-> setTokens[n]])
    /\ UNCHANGED <<world, store, threads, smsgData>>

\* The tokens are sifted, unless the bucket is locked; then the bucket is locked for the
\* peer, and what is missing is asked for. (cs_smsg is free between the two, but nobody
\* else asks for messages.)
ReceiveHave(n, p) ==
    LET want == NextMsg(n, p).tokens \ setTokens[n]
    IN  /\ Gets(n, p, "smsgHave")
        /\ IF n \in expired \/ nLock[n].count > 0 \/ want = {}
           THEN /\ Take(n, p)
                /\ UNCHANGED nLock
           ELSE /\ Answer(n, p, [type |-> "smsgWant", tokens |-> want])
                /\ nLock' = [nLock EXCEPT ![n] = [count |-> LockTime, peer |-> p]]
        /\ UNCHANGED <<world, file, setTokens, hash, threads, smsgData>>

\* The first BunchSize of the messages of S, in the order of their tokens.
Bunch(S) == {m \in S : Cardinality({k \in S : k < m}) < BunchSize}

\* SecureMsgRetrieve reads a message from the file; what it does not find is left out.
ReceiveWant(n, p) ==
    LET bunch == Bunch(NextMsg(n, p).tokens \cap setTokens[n] \cap file[n])
    IN  /\ Gets(n, p, "smsgWant")
        /\ IF bunch = {} THEN Take(n, p)
                         ELSE Answer(n, p, [type |-> "smsgMsg", bunch |-> bunch])
        /\ UNCHANGED <<world, store, threads, smsgData>>

\* SecureMsgReceive: nobody asks whether the messages were wanted, or are late.
ReceiveMsg(n, p) ==
    /\ Gets(n, p, "smsgMsg")
    /\ Take(n, p)
    /\ hand' = [hand EXCEPT ![n] = IF n \in expired
                                   THEN @ ELSE At("store", p, NextMsg(n, p).bunch)]
    /\ UNCHANGED <<world, store, smsg, pow, joining, smsgData>>

\* The next message of the bunch, without a new hash of the bucket. One that is refused
\* ends the loop, and the rest of the bunch is lost.
StoreNext(n) ==
    LET m == Min(hand[n].work)
    IN  /\ hand[n].at = "store"
        /\ hand[n].work # {}
        /\ SmsgFree(n)
        /\ \/ /\ CanStore(n, m)
              /\ Store(n, m)
              /\ hand' = [hand EXCEPT ![n].work = @ \ {m}]
           \/ /\ CanRefuse(n, m)
              /\ hand' = [hand EXCEPT ![n].work = {}]
              /\ UNCHANGED <<file, setTokens>>
        /\ UNCHANGED <<world, hash, nLock, smsg, pow, joining, smsgData, chan>>

\* Mutant: the lock is released, the bucket is not hashed.
EndBunchUnhashed(n) ==
    /\ hand[n].at = "store"
    /\ hand[n].work = {}
    /\ SmsgFree(n)
    /\ nLock' = [nLock EXCEPT ![n] = NoLock]
    /\ hand' = [hand EXCEPT ![n] = Idle]
    /\ UNCHANGED <<world, file, setTokens, hash, smsg, pow, joining, smsgData, chan>>

\* The lock is released, whoever has it, and the bucket gets its new hash.
EndBunch(n) ==
    /\ hand[n].at = "store"
    /\ hand[n].work = {}
    /\ SmsgFree(n)
    /\ nLock' = [nLock EXCEPT ![n] = NoLock]
    /\ HashBucket(n, setTokens[n])
    /\ hand' = [hand EXCEPT ![n] = Idle]
    /\ UNCHANGED <<world, file, setTokens, smsg, pow, joining, smsgData, chan>>

---------------------------------------------------------------------------
(***************************************************************************)
(* Messaging is turned off and on by a user, one command at a time.        *)
(***************************************************************************)

\* SecureMsgDisable takes cs_smsg and keeps it while it waits for both threads to end.
\* They end in their sleep, or where they look at fSecMsgEnabled. A thread that waits for
\* cs_smsg does not end: ThreadSecureMsgPow with a message in hand, or (late) a
\* ThreadSecureMsg that had found messaging on just before.
Disable(n) ==
    /\ n \in fSecMsgEnabled
    /\ SmsgFree(n)
    /\ Fault(n)
    /\ fSecMsgEnabled' = fSecMsgEnabled \ {n}
    /\ joining' = [joining EXCEPT ![n] = TRUE]
    /\ \E late \in BOOLEAN :
          smsg' = [smsg EXCEPT ![n] = IF late /\ @ = Sleep THEN Stage("wait", NoPeer) ELSE @]
    /\ UNCHANGED <<unsent, outbox, expired, store, hand, pow, smsgData, chan>>

\* Both threads have ended: the buckets are cleared, and every peer with messaging is told.
\* (For that it takes a peer's locks in the order of IgnorePeer, with the same cycle.)
DisableEnd(n) ==
    LET L == {l \in Link : l[1] = n /\ smsgData[l].fEnabled}
    IN  /\ joining[n]
        /\ smsg[n] = Sleep
        /\ pow[n] = NoMessage
        /\ setTokens' = [setTokens EXCEPT ![n] = {}]
        /\ hash' = [hash EXCEPT ![n] = {}]
        /\ nLock' = [nLock EXCEPT ![n] = NoLock]
        /\ chan' = [l \in Link |-> IF l \in L THEN Append(chan[l], [type |-> "smsgDisabled"])
                                              ELSE chan[l]]
        /\ smsgData' = [l \in Link |-> IF l \in L THEN [smsgData[l] EXCEPT !.fEnabled = FALSE]
                                                  ELSE smsgData[l]]
        /\ joining' = [joining EXCEPT ![n] = FALSE]
        /\ UNCHANGED <<world, file, hand, smsg, pow>>

\* SecureMsgBuildBucketSet: the file is dropped if it is too old, or read.
BuildBucketSet(n) ==
    LET S == IF n \in expired THEN {} ELSE file[n]
    IN  /\ file' = [file EXCEPT ![n] = S]
        /\ setTokens' = [setTokens EXCEPT ![n] = S]
        /\ hash' = [hash EXCEPT ![n] = S]
        /\ nLock' = [nLock EXCEPT ![n] = NoLock]

\* Every peer gets a ping, and the pong to the ping that was passed over.
Enable(n) ==
    /\ n \notin fSecMsgEnabled
    /\ SmsgFree(n)
    /\ fSecMsgEnabled' = fSecMsgEnabled \cup {n}
    /\ BuildBucketSet(n)
    /\ chan' = [l \in Link |->
                  IF l[1] = n THEN chan[l] \o <<[type |-> "smsgPing"], [type |-> "smsgPong"]>>
                              ELSE chan[l]]
    /\ UNCHANGED <<unsent, outbox, expired, faults, threads, smsgData>>

---------------------------------------------------------------------------
(***************************************************************************)
(* What happens to a node.                                                 *)
(***************************************************************************)

\* The links of L are lost, with the messages on their way; new ones take their place.
\* A lock keeps the id of the old peer, which nobody has again.
Reconnect(L) ==
    /\ smsgData' = [l \in Link |-> IF l \in L THEN NewNode ELSE smsgData[l]]
    /\ chan' = [l \in Link |-> IF l \in L THEN << >> ELSE chan[l]]

Forget(lock, n, L) == IF <<n, lock.peer>> \in L THEN [lock EXCEPT !.peer = NoPeer] ELSE lock

\* Not while a thread is between two locks for that peer: a connection that is lost then
\* is lost before or after.
Disconnect(n, p) ==
    LET L == {<<n, p>>, <<p, n>>}
    IN  /\ Fault(n)
        /\ \A l \in L : hand[l[1]].peer # l[2] /\ smsg[l[1]].peer # l[2]
        /\ Reconnect(L)
        /\ nLock' = [k \in Node |-> Forget(nLock[k], k, L)]
        /\ UNCHANGED <<unsent, outbox, expired, fSecMsgEnabled, file, setTokens, hash, threads>>

\* The process ends, for whatever reason, and starts again. The outbox and the files
\* stay; a message that the proof of work thread has in hand is lost.
Restart(n) ==
    LET L == {l \in Link : n \in {l[1], l[2]}}
    IN  /\ Fault(n)
        /\ \A k \in Node \ {n} : hand[k].peer # n /\ smsg[k].peer # n
        /\ fSecMsgEnabled' = fSecMsgEnabled \cup {n}
        /\ BuildBucketSet(n)
        /\ Reconnect(L)
        /\ hand' = [hand EXCEPT ![n] = Idle]
        /\ smsg' = [smsg EXCEPT ![n] = Sleep]
        /\ pow' = [pow EXCEPT ![n] = NoMessage]
        /\ joining' = [joining EXCEPT ![n] = FALSE]
        /\ UNCHANGED <<unsent, outbox, expired>>

\* By the clock of n the bucket is now older than SMSG_RETENTION.
Expire(n) ==
    /\ n \notin expired
    /\ Fault(n)
    /\ expired' = expired \cup {n}
    /\ UNCHANGED <<unsent, outbox, fSecMsgEnabled, store, threads, smsgData, chan>>

---------------------------------------------------------------------------

SmsgInit ==
    /\ unsent = DOMAIN Author
    /\ outbox = [n \in Node |-> {}]
    /\ file = Old
    /\ setTokens = Old
    /\ hash = Old
    /\ nLock = [n \in Node |-> NoLock]
    /\ expired = {}
    /\ fSecMsgEnabled = Node
    /\ hand = [n \in Node |-> Idle]
    /\ smsg = [n \in Node |-> Sleep]
    /\ pow = [n \in Node |-> NoMessage]
    /\ joining = [n \in Node |-> FALSE]
    /\ smsgData = [l \in Link |-> NewNode]
    /\ chan = [l \in Link |-> << >>]
    /\ faults = 0

ReceiveData(n, p) ==
    \/ ReceiveOff(n, p)
    \/ ReceivePing(n, p)
    \/ ReceiveEnabled(n, p)
    \/ ReceiveIgnore(n, p)
    \/ ReceiveInv(n, p)
    \/ ReceiveShow(n, p)
    \/ ReceiveHave(n, p)
    \/ ReceiveWant(n, p)
    \/ ReceiveMsg(n, p)

Continue(n) == StoreNext(n) \/ EndBunch(n)

ThreadSecureMsg(n) ==
    \/ SmsgRound(n)
    \/ SmsgRemove(n)
    \/ IgnorePeer(n)

ThreadSecureMsgPow(n) == PowErase(n) \/ PowStore(n)

SmsgNext ==
    \/ \E m \in Message : SecureMsgSend(m)
    \/ \E n \in Node :
          \/ ThreadSecureMsg(n)
          \/ ThreadSecureMsgPow(n)
          \/ Continue(n)
          \/ Disable(n) \/ DisableEnd(n) \/ Enable(n)
          \/ Restart(n)
          \/ Expire(n)
    \/ \E l \in Link :
          \/ ReceiveData(l[1], l[2])
          \/ SendData(l[1], l[2])
          \/ SendBlocked(l[1], l[2])
          \/ EndIgnore(l[1], l[2])
          \/ Disconnect(l[1], l[2])

\* The threads run, the handler serves every peer in turn, time passes, and a wake
\* counter runs down after at most 310 calls.
SmsgFairness ==
    /\ \A n \in Node :
          /\ WF_smsgVars(ThreadSecureMsg(n))
          /\ WF_smsgVars(Continue(n))
    /\ \A l \in Link :
          /\ SF_smsgVars(ReceiveData(l[1], l[2]))
          /\ SF_smsgVars(SendData(l[1], l[2]) \/ SendBlocked(l[1], l[2]))
          /\ WF_smsgVars(EndIgnore(l[1], l[2]))

SmsgSpec == SmsgInit /\ [][SmsgNext]_smsgVars /\ SmsgFairness

---------------------------------------------------------------------------
(***************************************************************************)
(* Properties.                                                             *)
(***************************************************************************)

\* Two threads of n wait for each other: the handler has cs_smsg_net of a peer and wants
\* its cs_vSend in PushMessage, ThreadSecureMsg has cs_vSend and wants cs_smsg_net.
LockCycle(n) ==
    /\ hand[n].at = "send"
    /\ ~VSendFree(n, hand[n].peer)

\* The user's thread waits, with cs_smsg, for a thread that waits for cs_smsg.
JoinCycle(n) == joining[n] /\ (smsg[n].at = "wait" \/ pow[n] # NoMessage)

\* The threads never wait for each other's locks: SecureMsgSendData and ThreadSecureMsg
\* take the two locks of a peer in an order that lets both go on.
LocksOrdered == \A n \in Node : ~LockCycle(n)

\* While messaging is on, the bucket in memory is the one on disk (every message that a
\* peer is told of can be read and sent), and, unless a bunch is being stored, its hash
\* is the hash of exactly these messages: not after a bunch that was cut short, a late
\* bunch, a message of this node in between, a restart, or a time of messaging off.
BucketsExact ==
    \A n \in fSecMsgEnabled :
        /\ setTokens[n] = file[n]
        /\ hand[n].at # "store" => hash[n] = setTokens[n]

\* Excused: the bucket has become too old, messaging is off, or the threads of a node
\* have locked each other out.
Excused ==
    \/ expired # {}
    \/ \E n \in Node : n \notin fSecMsgEnabled \/ LockCycle(n) \/ JoinCycle(n)

\* What one node has stored reaches all, again and again, whatever order it is stored in:
\* through locks that time out, peers that ignore each other, late and repeated bunches,
\* bunches that are too large, lost connections and restarts.
MessagesSpread == []<>(Excused \/ \A n, p \in Node : setTokens[n] = setTokens[p])
=============================================================================
