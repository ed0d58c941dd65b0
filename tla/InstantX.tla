------------------------------ MODULE InstantX ------------------------------
(***************************************************************************)
(* InstantX: a transaction is locked in when enough masternodes of the top *)
(* INSTANTX_SIGNATURES_TOTAL vote for it, and its inputs are then refused  *)
(* to every other transaction (mapLockedInputs of Mempool).                *)
(*                                                                         *)
(* None of the five maps has a lock of its own. The handlers of requests   *)
(* ("txlreq") and votes ("txlvote") hold cs_main from the first to the     *)
(* last line, and so does the wallet thread that puts its own request in.  *)
(* ThreadCheckDarkSendPool removes expired records without that lock, in   *)
(* CleanTransactionLocksList. So the handlers take one step for each stage *)
(* between which the clean up matters, and the clean up one step for each  *)
(* map. Both at once inside one std::map are undefined in C++; of the      *)
(* outcomes the model has the orderly ones and the crash (IXRestart,       *)
(* possible at any time).                                                  *)
(***************************************************************************)
EXTENDS Mempool, Sequences

CONSTANTS
    Masternode,     \* masternodes, by the outpoint of their collateral
    Me,             \* this node's own, when it is one
    Vote,           \* votes that are sent; right: with the height that the transaction gives
    OwnTx,          \* transactions of this wallet
    Required        \* INSTANTX_SIGNATURES_REQUIRED

ASSUME InstantXAssumption ==
    /\ Me \in Masternode
    /\ Vote \subseteq [mn : Masternode, tx : LockTx, right : BOOLEAN]
    /\ OwnTx \subseteq Tx
    /\ Required \in Nat \ {0}

VARIABLES
    mapTxLockReq,           \* transaction -> inputs of the stored request
    mapTxLockReqRejected,   \* requests that the pool refused
    mapTxLockVote,          \* votes seen: <<masternode, transaction>>, as GetHash has it
    mapTxLocks,             \* transaction -> [known, votes, due]
    request,                \* handler: the "txlreq" in work, with its stage
    relaying,               \* wallet thread: the own request in work, with its stage
    cleaning                \* Darksend thread: the record in work, with its stage

ixVars == <<mapTxLockReq, mapTxLockReqRejected, mapTxLockVote, mapTxLocks, request, relaying,
            cleaning>>
vars == <<mempoolVars, ixVars>>

---------------------------------------------------------------------------

\* A thread that works on t, and how far it is.
At(t, stage) == [tx |-> t, at |-> stage]

Nothing == At(NoTx, "none")

\* A record of mapTxLocks. known: nBlockHeight is set, which only the transaction
\* itself allows (a record made by a vote has 0). votes: vecConsensusVotes. due:
\* nExpiration is past.
NewLock(known) == [known |-> known, votes |-> << >>, due |-> FALSE]

Put(f, t, v) == [u \in DOMAIN f \cup {t} |-> IF u = t THEN v ELSE f[u]]

Erase(f, t) == [u \in DOMAIN f \ {t} |-> f[u]]

\* map::insert leaves an entry that is there.
Insert(f, t, v) == IF t \in DOMAIN f THEN f ELSE Put(f, t, v)

\* CTransactionLock::CountSignatures; the code has -1 for an unknown height.
CountSignatures(lock) ==
    IF lock.known THEN Cardinality({i \in DOMAIN lock.votes : lock.votes[i].right}) ELSE 0

\* CreateNewLock: GetInputAge is too low for an input without a block.
Aged(t) == Parents(t) \subseteq txdb

CreateNewLock(t, aged) ==
    CASE ~aged                        -> mapTxLocks
      [] aged /\ t \in DOMAIN mapTxLocks -> [mapTxLocks EXCEPT ![t].known = TRUE]
      [] OTHER                        -> Put(mapTxLocks, t, NewLock(TRUE))

\* CheckForConflictingLocks: inputs that are locked for another transaction.
Conflicts(inputs, t) == {o \in inputs \cap DOMAIN mapLockedInputs : mapLockedInputs[o] # t}

\* The first conflict in the order of vin, any one here: both locks expire now.
CancelBoth(locks, t, o) ==
    [u \in DOMAIN locks |->
        IF u \in {t, mapLockedInputs[o]} THEN [locks[u] EXCEPT !.due = TRUE] ELSE locks[u]]

\* Nobody holds cs_main.
MainFree == Idle /\ request = Nothing /\ relaying = Nothing

IXClear ==
    /\ mapTxLockReq' = [t \in {} |-> {}] /\ mapTxLockReqRejected' = {}
    /\ mapTxLockVote' = {} /\ mapTxLocks' = [t \in {} |-> NewLock(FALSE)]
    /\ request' = Nothing /\ relaying' = Nothing /\ cleaning' = Nothing

IXRestart == Restart /\ IXClear

\* DisconnectBlock gets a pindex that was never set, and DisconnectInputs erases
\* from a database opened with "r", which asserts: the process ends either way.
Reprocess == IXRestart

---------------------------------------------------------------------------
(***************************************************************************)
(* "txlreq".                                                               *)
(***************************************************************************)

\* Up to AcceptToMemoryPool. IsIXTXValid and the scripts are the choice of LockTx.
ReceiveRequest(t, aged) ==
    /\ MainFree
    /\ t \notin DOMAIN mapTxLockReq \cup mapTxLockReqRejected
    /\ aged => Aged(t)
    /\ mapTxLocks' = CreateNewLock(t, aged)
    /\ request' = At(t, "check")
    /\ UNCHANGED <<mempoolVars, mapTxLockReq, mapTxLockReqRejected, mapTxLockVote, relaying,
                   cleaning>>

\* Mutant: the request goes into the pool before the pool has checked it.
AcceptRequestUnchecked ==
    /\ request.at = "check"
    /\ addUnchecked(request.tx)
    /\ request' = At(request.tx, "accepted")
    /\ UNCHANGED <<txdb, orphans, free, mapLockedInputs, queues, redundant, adding, mapTxLockReq,
                   mapTxLockReqRejected, mapTxLockVote, mapTxLocks, relaying, cleaning>>

AcceptRequest ==
    /\ request.at = "check"
    /\ AcceptLockRequest(request.tx)
    /\ request' = At(request.tx, "accepted")
    /\ UNCHANGED <<mapTxLockReq, mapTxLockReqRejected, mapTxLockVote, mapTxLocks, relaying,
                   cleaning>>

\* DoConsensusVote (its vote is stored and sent, and not counted here) and the
\* insertion of the request.
StoreRequest(votes) ==
    /\ request.at = "accepted"
    /\ mapTxLockVote' = IF votes THEN mapTxLockVote \cup {<<Me, request.tx>>} ELSE mapTxLockVote
    /\ mapTxLockReq' = Insert(mapTxLockReq, request.tx, Spends[request.tx])
    /\ request' = Nothing
    /\ UNCHANGED <<mempoolVars, mapTxLockReqRejected, mapTxLocks, relaying, cleaning>>

\* The pool refuses it: its free inputs are locked all the same, and a complete
\* lock of it is looked for.
RejectRequest ==
    LET t == request.tx
        complete == t \in DOMAIN mapTxLocks /\ CountSignatures(mapTxLocks[t]) >= Required
    IN  /\ request.at = "check"
        /\ ~AcceptToMemoryPool(t, FALSE)
        /\ IF complete /\ Conflicts(Spends[t], t) = {}
           THEN Reprocess
           ELSE /\ mapTxLockReqRejected' = mapTxLockReqRejected \cup {t}
                /\ LockInputs(Spends[t], t)
                /\ IF complete
                   THEN \E o \in Conflicts(Spends[t], t) :
                            mapTxLocks' = CancelBoth(mapTxLocks, t, o)
                   ELSE UNCHANGED mapTxLocks
                /\ request' = Nothing
                /\ UNCHANGED <<mapTxLockReq, mapTxLockVote, relaying, cleaning>>

---------------------------------------------------------------------------
(***************************************************************************)
(* "txlvote".                                                              *)
(***************************************************************************)

\* A complete lock: mapTxLockReq[] makes an empty transaction when the request
\* is not there, so there is nothing to lock then. That happens while the clean up
\* has removed the request and not yet the record (a request that was refused leads
\* to Reprocess): a record that only votes made has no height and is not complete.
Complete(t, locks) ==
    LET inputs == IF t \in DOMAIN mapTxLockReq THEN mapTxLockReq[t] ELSE {}
    IN  IF Conflicts(inputs, t) # {}
        THEN /\ \E o \in Conflicts(inputs, t) : mapTxLocks' = CancelBoth(locks, t, o)
             /\ UNCHANGED <<mempoolVars, mapTxLockReq>>
        ELSE /\ mapTxLocks' = locks
             /\ mapTxLockReq' = Insert(mapTxLockReq, t, {})
             /\ LockInputs(inputs, t)

\* The record of a vote's transaction, with the vote.
AddSignature(v) ==
    LET old == IF v.tx \in DOMAIN mapTxLocks THEN mapTxLocks[v.tx] ELSE NewLock(FALSE)
    IN  [old EXCEPT !.votes = Append(@, v)]

\* Mutant: a vote that was seen before is not looked for.
ReceiveVoteAgain(v, valid) ==
    /\ MainFree
    /\ v.tx \in DOMAIN mapTxLocks => Len(mapTxLocks[v.tx].votes) <= Cardinality(Vote)
    /\ valid
    /\ mapTxLockVote' = mapTxLockVote \cup {<<v.mn, v.tx>>}
    /\ mapTxLocks' = Put(mapTxLocks, v.tx, AddSignature(v))
    /\ UNCHANGED <<mempoolVars, mapTxLockReq, mapTxLockReqRejected, request, relaying, cleaning>>

\* The vote is stored first; a rank or a signature found bad now (valid is FALSE)
\* is not looked at again. ProcessConsensusVote counts the others.
ReceiveVote(v, valid) ==
    LET t == v.tx
        locks == Put(mapTxLocks, t, AddSignature(v))
        complete == CountSignatures(locks[t]) >= Required
        unrivalled == t \notin DOMAIN mapTxLockReq \/ Conflicts(mapTxLockReq[t], t) = {}
    IN  /\ MainFree
        /\ <<v.mn, t>> \notin mapTxLockVote
        /\ IF valid /\ complete /\ unrivalled /\ t \in mapTxLockReqRejected
           THEN Reprocess
           ELSE /\ mapTxLockVote' = mapTxLockVote \cup {<<v.mn, t>>}
                /\ CASE ~valid             -> UNCHANGED <<mempoolVars, mapTxLocks, mapTxLockReq>>
                     [] valid /\ ~complete -> /\ mapTxLocks' = locks
                                              /\ UNCHANGED <<mempoolVars, mapTxLockReq>>
                     [] valid /\ complete  -> Complete(t, locks)
                /\ UNCHANGED <<mapTxLockReqRejected, request, relaying, cleaning>>

---------------------------------------------------------------------------
(***************************************************************************)
(* The wallet thread and the Darksend thread.                              *)
(***************************************************************************)

\* CommitTransaction holds cs_main until its transaction is relayed.
OwnRequest(t) ==
    /\ MainFree
    /\ AddOwn(t)
    /\ relaying' = At(t, "insert")
    /\ UNCHANGED <<mapTxLockReq, mapTxLockReqRejected, mapTxLockVote, mapTxLocks, request,
                   cleaning>>

\* RelayWalletTransaction, for a transaction that is in no block yet.
RelayRequest ==
    /\ relaying.at = "insert"
    /\ IF relaying.tx \in txdb
       THEN relaying' = Nothing /\ UNCHANGED mapTxLockReq
       ELSE /\ mapTxLockReq' = Insert(mapTxLockReq, relaying.tx, Spends[relaying.tx])
            /\ relaying' = At(relaying.tx, "lock")
    /\ UNCHANGED <<mempoolVars, mapTxLockReqRejected, mapTxLockVote, mapTxLocks, request,
                   cleaning>>

RelayLock(aged) ==
    /\ relaying.at = "lock"
    /\ aged => Aged(relaying.tx)
    /\ mapTxLocks' = CreateNewLock(relaying.tx, aged)
    /\ relaying' = Nothing
    /\ UNCHANGED <<mempoolVars, mapTxLockReq, mapTxLockReqRejected, mapTxLockVote, request,
                   cleaning>>

\* Twenty minutes have passed since the record was made.
Expire(t) ==
    /\ t \in DOMAIN mapTxLocks /\ ~mapTxLocks[t].due
    /\ mapTxLocks' = [mapTxLocks EXCEPT ![t].due = TRUE]
    /\ UNCHANGED <<mempoolVars, mapTxLockReq, mapTxLockReqRejected, mapTxLockVote, request,
                   relaying, cleaning>>

\* Mutant: a record whose request is not there is passed over.
CleanInputsOfRequest(t) ==
    /\ cleaning = Nothing
    /\ t \in DOMAIN mapTxLocks /\ mapTxLocks[t].due
    /\ t \in DOMAIN mapTxLockReq
    /\ UnlockInputs(mapTxLockReq[t])
    /\ cleaning' = At(t, "request")
    /\ UNCHANGED <<mapTxLockReq, mapTxLockReqRejected, mapTxLockVote, mapTxLocks, request,
                   relaying>>

\* CleanTransactionLocksList comes to a record that is due. Whoever the inputs of
\* the request are locked for, they are free then; without a request only the
\* record goes.
CleanInputs(t) ==
    /\ cleaning = Nothing
    /\ t \in DOMAIN mapTxLocks /\ mapTxLocks[t].due
    /\ IF t \in DOMAIN mapTxLockReq
       THEN UnlockInputs(mapTxLockReq[t]) /\ cleaning' = At(t, "request")
       ELSE UNCHANGED mempoolVars /\ cleaning' = At(t, "record")
    /\ UNCHANGED <<mapTxLockReq, mapTxLockReqRejected, mapTxLockVote, mapTxLocks, request,
                   relaying>>

\* Mutant: the request is left to be erased later.
CleanRequestLater ==
    /\ cleaning.at = "request"
    /\ mapTxLockReqRejected' = mapTxLockReqRejected \ {cleaning.tx}
    /\ cleaning' = At(cleaning.tx, "votes")
    /\ UNCHANGED <<mempoolVars, mapTxLockReq, mapTxLockVote, mapTxLocks, request, relaying>>

CleanRequest ==
    /\ cleaning.at = "request"
    /\ mapTxLockReq' = Erase(mapTxLockReq, cleaning.tx)
    /\ mapTxLockReqRejected' = mapTxLockReqRejected \ {cleaning.tx}
    /\ cleaning' = At(cleaning.tx, "votes")
    /\ UNCHANGED <<mempoolVars, mapTxLockVote, mapTxLocks, request, relaying>>

CleanVotes ==
    LET votes == mapTxLocks[cleaning.tx].votes
    IN  /\ cleaning.at = "votes"
        /\ mapTxLockVote' = mapTxLockVote \ {<<votes[i].mn, cleaning.tx>> : i \in DOMAIN votes}
        /\ cleaning' = At(cleaning.tx, "record")
        /\ UNCHANGED <<mempoolVars, mapTxLockReq, mapTxLockReqRejected, mapTxLocks, request,
                       relaying>>

CleanRecord ==
    /\ cleaning.at = "record"
    /\ mapTxLocks' = Erase(mapTxLocks, cleaning.tx)
    /\ cleaning' = Nothing
    /\ UNCHANGED <<mempoolVars, mapTxLockReq, mapTxLockReqRejected, mapTxLockVote, request,
                   relaying>>

CleanOn == CleanRequest \/ CleanVotes \/ CleanRecord

\* CheckAndRemove, which runs first on the same thread, never gets past a masternode
\* that is to be removed, since the erase in its loop is commented out.
CheckAndRemoveHangs ==
    /\ cleaning = Nothing
    /\ cleaning' = At(NoTx, "hangs")
    /\ UNCHANGED <<mempoolVars, mapTxLockReq, mapTxLockReqRejected, mapTxLockVote, mapTxLocks,
                   request, relaying>>

\* The rest of the node: other messages, blocks with transactions that have no
\* record yet, transactions of the wallet that are relayed as "tx", and
\* sendrawtransaction.
PoolStep ==
    /\ \/ /\ MainFree
          /\ \/ \E t \in Tx : ReceiveTx(t)
             \/ \E B \in SUBSET (Tx \ txdb) : Cardinality(B) \in 1..MaxBlockTx /\ CommitBlock(B)
             \/ \E t \in OwnTx : AddOwn(t)
       \/ HandlerStep
       \/ \E t \in RawTx : CheckRaw(t) \/ AddRaw(t)
    /\ UNCHANGED ixVars

---------------------------------------------------------------------------

IXInit ==
    /\ MempoolInit
    /\ mapTxLockReq = [t \in {} |-> {}] /\ mapTxLockReqRejected = {}
    /\ mapTxLockVote = {} /\ mapTxLocks = [t \in {} |-> NewLock(FALSE)]
    /\ request = Nothing /\ relaying = Nothing /\ cleaning = Nothing

IXNext ==
    \/ PoolStep
    \/ \E t \in LockTx, aged \in BOOLEAN : ReceiveRequest(t, aged)
    \/ AcceptRequest
    \/ \E votes \in BOOLEAN : StoreRequest(votes)
    \/ RejectRequest
    \/ \E v \in Vote, valid \in BOOLEAN : ReceiveVote(v, valid)
    \/ \E t \in OwnTx \cap LockTx : OwnRequest(t)
    \/ RelayRequest
    \/ \E aged \in BOOLEAN : RelayLock(aged)
    \/ \E t \in LockTx : Expire(t) \/ CleanInputs(t)
    \/ CleanOn
    \/ CheckAndRemoveHangs
    \/ IXRestart

IXSpec == IXInit /\ [][IXNext]_vars

\* Time passes, and a clean up of a record that has begun goes on: nothing in it waits.
\* That ThreadCheckDarkSendPool ever comes to a record again is not assumed here.
IXFairness ==
    /\ \A t \in LockTx : WF_vars(Expire(t))
    /\ WF_vars(CleanOn)

IXFairSpec == IXSpec /\ IXFairness

---------------------------------------------------------------------------
(***************************************************************************)
(* Properties.                                                             *)
(***************************************************************************)

\* Voters of t whose vote has the height that t itself gives.
Voters(t) ==
    IF t \notin DOMAIN mapTxLocks THEN {}
    ELSE LET votes == mapTxLocks[t].votes
         IN  {votes[i].mn : i \in {j \in DOMAIN votes : votes[j].right}}

\* A record counts each masternode once and every vote it counts is known as
\* seen, so a vote that is sent again is not added again, unless the clean up
\* has begun to take this record apart.
VotesCountedOnce ==
    \A t \in DOMAIN mapTxLocks \ {cleaning.tx} :
        LET votes == mapTxLocks[t].votes
        IN  /\ \A i, j \in DOMAIN votes : votes[i].mn = votes[j].mn => i = j
            /\ \A i \in DOMAIN votes : <<votes[i].mn, t>> \in mapTxLockVote

\* An input becomes locked for a transaction only when the pool refuses its
\* request in that step or when Required different masternodes have voted for it
\* with the right height, whichever of request and votes came first. That includes
\* the record that the clean up takes apart: a vote that it has forgotten may be in
\* that record twice, but by then the request has no inputs and cannot come again.
LockNeedsVotes ==
    [][ \A t \in LockTx :
            (\E o \in DOMAIN mapLockedInputs' \ DOMAIN mapLockedInputs : mapLockedInputs'[o] = t)
            => \/ t \in mapTxLockReqRejected' \ mapTxLockReqRejected
               \/ Cardinality(Voters(t)') >= Required ]_vars

\* The Darksend thread walks mapTxLocks again and again. The code does not see to it:
\* CheckAndRemove, first on the same thread, may never return (it hangs here), nor may
\* the loop of DoAutomaticDenominating, and the walk is skipped while IsBlockchainSynced
\* says no.
ThreadComesBack ==
    /\ []<>(cleaning.at # "hangs")
    /\ \A t \in LockTx : SF_vars(CleanInputs(t))

\* As long as its thread comes back, the clean up removes every record in the end, with
\* or without a request, although votes may keep coming for it and make it anew.
RecordsRemoved ==
    ThreadComesBack =>
        \A t \in LockTx : (t \in DOMAIN mapTxLocks) ~> (t \notin DOMAIN mapTxLocks)

\* InstantX uses the pool and its locked inputs only in ways that Mempool allows:
\* what is proved of MempoolSpec holds of the composition too.
ImplementsMempool == MempoolSpec
=============================================================================
