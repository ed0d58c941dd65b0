------------------------------ MODULE Mempool ------------------------------
(***************************************************************************)
(* The transactions that wait for a block: the memory pool with its index  *)
(* of spent outputs, and the orphan transactions with their index by       *)
(* parent.                                                                 *)
(*                                                                         *)
(* ProcessMessage holds cs_main for the whole of every message, so the     *)
(* handlers "tx", "dstx" and "block" and the wallet's CommitTransaction    *)
(* exclude each other. sendrawtransaction does not take cs_main, and the   *)
(* RPC server does not take it for the call either: between the checks of  *)
(* its AcceptToMemoryPool and addUnchecked any other step may come. The    *)
(* locks on outputs belong to InstantX and change here in any way InstantX *)
(* may change them.                                                        *)
(***************************************************************************)
EXTENDS Naturals, FiniteSets

CONSTANTS
    Tx,                     \* transaction hashes
    NoTx,                   \* no transaction
    Spends,                 \* the outputs <<transaction, n>> that a transaction spends
    Recorded,               \* transactions with a record in txdb at the start
    StandardTx,             \* pass CheckTransaction, IsStandardTx; no coinbase, no coinstake
    FeeOk,                  \* fees and inputs satisfy the relay rules
    Large,                  \* more than 5000 bytes
    DarksendTx,             \* sent as "dstx"
    LockTx,                 \* sent as "txlreq"
    RawTx,                  \* given to sendrawtransaction
    MaxOrphans,             \* MAX_ORPHAN_TRANSACTIONS
    MaxBlockTx              \* bound: transactions of a block

OutPoint == UNION {Spends[t] : t \in Tx}

ASSUME MempoolAssumption ==
    /\ NoTx \notin Tx
    /\ Spends \in [Tx -> SUBSET (Tx \X Nat)]
    /\ Recorded \subseteq Tx
    /\ StandardTx \subseteq Tx
    /\ FeeOk \subseteq Tx
    /\ Large \subseteq Tx
    /\ DarksendTx \subseteq Tx
    /\ LockTx \subseteq Tx
    /\ RawTx \subseteq Tx
    /\ MaxOrphans \in Nat
    /\ MaxBlockTx \in Nat

ASSUME TxFinite == IsFiniteSet(Tx)

VARIABLES
    txdb,                           \* transactions with a record on disk
    mapTx,                          \* the pool
    mapNextTx,                      \* output -> the transaction of the pool that spends it
    mapOrphanTransactions,
    mapOrphanTransactionsByPrev,    \* pairs <<parent, orphan>>
    mapDarksendBroadcastTxes,
    allowFreeTx,                    \* of the masternode that signs a "dstx"
    mapLockedInputs,                \* output -> the transaction that InstantX locks it for
    vWorkQueue,                     \* "tx" handler: accepted, orphans not looked at
    itByPrev,                       \* "tx" handler: orphans left of the current entry
    vEraseQueue,                    \* "tx" handler: orphans to erase at the end
    redundant,                      \* SetBestChainInner: transactions still to remove
    adding                          \* sendrawtransaction: checked, not yet in the pool

orphans == <<mapOrphanTransactions, mapOrphanTransactionsByPrev>>
pool == <<mapTx, mapNextTx>>
queues == <<vWorkQueue, itByPrev, vEraseQueue>>
free == <<mapDarksendBroadcastTxes, allowFreeTx>>
mempoolVars == <<txdb, pool, orphans, free, mapLockedInputs, queues, redundant, adding>>

---------------------------------------------------------------------------

Parents(t) == {o[1] : o \in Spends[t]}

\* No "tx" or "dstx" is in work.
QueuesEmpty == vWorkQueue = {} /\ itByPrev = {} /\ vEraseQueue = {}

\* The message handler thread is between two messages: cs_main is free.
Idle == QueuesEmpty /\ redundant = {}

\* An input is locked for another transaction.
LockConflict(t) == \E o \in Spends[t] \cap DOMAIN mapLockedInputs : mapLockedInputs[o] # t

\* Mutant: an output that the pool already spends is not looked for.
RefusedUnlessSpent(t) ==
    \/ t \notin StandardTx
    \/ t \in mapTx
    \/ LockConflict(t)
    \/ t \in txdb

\* The checks of AcceptToMemoryPool up to txdb, in the order of the code.
Refused(t) ==
    \/ t \notin StandardTx
    \/ t \in mapTx
    \/ LockConflict(t)
    \/ Spends[t] \cap DOMAIN mapNextTx # {}
    \/ t \in txdb

\* Mutant: a parent in the pool will do.
fMissingInputsPooled(t) == ~Refused(t) /\ ~(Parents(t) \subseteq txdb \cup mapTx)

\* fMissingInputs: only txdb counts as a place of the parents, not the pool.
fMissingInputs(t) == ~Refused(t) /\ ~(Parents(t) \subseteq txdb)

\* The rules on fees. A Darksend broadcast, or a caller that says so, is exempt.
RelayRules(t, ignoreFees) == ignoreFees \/ t \in mapDarksendBroadcastTxes \cup FeeOk

\* Whether AcceptToMemoryPool reaches addUnchecked. FetchInputs and ConnectInputs
\* refuse nothing here: they log what they find (a spent output included).
AcceptToMemoryPool(t, ignoreFees) ==
    /\ ~Refused(t)
    /\ ~fMissingInputs(t)
    /\ RelayRules(t, ignoreFees)

\* CTxMemPool::addUnchecked
addUnchecked(t) ==
    /\ mapTx' = mapTx \cup {t}
    /\ mapNextTx' = [o \in DOMAIN mapNextTx \cup Spends[t] |->
                        IF o \in Spends[t] THEN t ELSE mapNextTx[o]]

\* CTxMemPool::remove, not recursive.
remove(t) ==
    IF t \in mapTx
    THEN /\ mapTx' = mapTx \ {t}
         /\ mapNextTx' = [o \in DOMAIN mapNextTx \ Spends[t] |-> mapNextTx[o]]
    ELSE UNCHANGED pool

\* Mutant: only the entry of the map goes.
EraseOrphanTxsUnlinked(S, txs, byPrev) ==
    /\ mapOrphanTransactions' = txs \ S
    /\ mapOrphanTransactionsByPrev' = byPrev

\* EraseOrphanTx of every transaction of S, from the maps txs and byPrev.
EraseOrphanTxs(S, txs, byPrev) ==
    /\ mapOrphanTransactions' = txs \ S
    /\ mapOrphanTransactionsByPrev' = {e \in byPrev : e[2] \notin S}

\* AddOrphanTx, then LimitOrphanTxSize: entries after a random hash go until
\* MaxOrphans are left, the new one among them or not.
AddOrphanTx(t) ==
    LET txs == IF t \in Large THEN mapOrphanTransactions
                              ELSE mapOrphanTransactions \cup {t}
        byPrev == mapOrphanTransactionsByPrev \cup
                      (IF t \in Large \cup mapOrphanTransactions THEN {}
                       ELSE {<<p, t>> : p \in Parents(t)})
    IN  \E evicted \in SUBSET txs :
            /\ IF Cardinality(txs) > MaxOrphans
               THEN Cardinality(txs \ evicted) = MaxOrphans
               ELSE evicted = {}
            /\ EraseOrphanTxs(evicted, txs, byPrev)

\* AlreadyHave for MSG_TX.
AlreadyHave(t) == t \in mapTx \cup mapOrphanTransactions \cup txdb

---------------------------------------------------------------------------
(***************************************************************************)
(* The handlers "tx" and "dstx".                                           *)
(***************************************************************************)

\* From AcceptToMemoryPool to the work queue or to the end of the handler.
Process(t, ignoreFees) ==
    /\ IF AcceptToMemoryPool(t, ignoreFees)
       THEN /\ addUnchecked(t)
            /\ vWorkQueue' = {t}
            /\ UNCHANGED orphans
       ELSE /\ UNCHANGED <<pool, vWorkQueue>>
            /\ IF fMissingInputs(t) THEN AddOrphanTx(t) ELSE UNCHANGED orphans
    /\ UNCHANGED <<txdb, mapLockedInputs, itByPrev, vEraseQueue, redundant, adding>>

ReceiveTx(t) ==
    /\ Idle
    /\ ~AlreadyHave(t)
    /\ Process(t, FALSE)
    /\ UNCHANGED free

\* AlreadyHave(MSG_DSTX) looks only at the Darksend broadcasts. A signer that is
\* not in the list of masternodes makes it an ordinary transaction.
ReceiveDstx(t, known) ==
    /\ Idle
    /\ t \notin mapDarksendBroadcastTxes
    /\ known => allowFreeTx
    /\ IF known
       THEN /\ allowFreeTx' = FALSE
            /\ mapDarksendBroadcastTxes' = mapDarksendBroadcastTxes \cup {t}
       ELSE UNCHANGED free
    /\ Process(t, known)

\* The next entry of the work queue: its orphans are looked up.
TakeWork ==
    /\ itByPrev = {}
    /\ \E t \in vWorkQueue :
          /\ vWorkQueue' = vWorkQueue \ {t}
          /\ itByPrev' = {e[2] : e \in {x \in mapOrphanTransactionsByPrev : x[1] = t}}
    /\ UNCHANGED <<txdb, pool, orphans, free, mapLockedInputs, vEraseQueue, redundant, adding>>

\* One orphan: into the pool, or erased unless it still misses inputs.
TryOrphan ==
    \E t \in itByPrev :
        /\ itByPrev' = itByPrev \ {t}
        /\ IF AcceptToMemoryPool(t, FALSE)
           THEN /\ addUnchecked(t)
                /\ vWorkQueue' = vWorkQueue \cup {t}
           ELSE UNCHANGED <<pool, vWorkQueue>>
        /\ vEraseQueue' = IF fMissingInputs(t) THEN vEraseQueue ELSE vEraseQueue \cup {t}
        /\ UNCHANGED <<txdb, orphans, free, mapLockedInputs, redundant, adding>>

EraseQueue ==
    /\ vWorkQueue = {} /\ itByPrev = {} /\ vEraseQueue # {}
    /\ EraseOrphanTxs(vEraseQueue, mapOrphanTransactions, mapOrphanTransactionsByPrev)
    /\ vEraseQueue' = {}
    /\ UNCHANGED <<txdb, pool, free, mapLockedInputs, vWorkQueue, itByPrev, redundant, adding>>

---------------------------------------------------------------------------
(***************************************************************************)
(* The block handler, the wallet, RPC, InstantX and Darksend.              *)
(***************************************************************************)

\* Mutant: the thread that stores the block does not hold cs_main.
CommitBlockUnlocked(B) ==
    /\ redundant = {}
    /\ txdb' = txdb \cup B
    /\ redundant' = B
    /\ UNCHANGED <<pool, orphans, free, mapLockedInputs, queues, adding>>

\* The TxnCommit of SetBestChainInner. For a block FetchInputs and ConnectInputs
\* refuse nothing, so any transactions may come.
CommitBlock(B) ==
    /\ Idle
    /\ txdb' = txdb \cup B
    /\ redundant' = B
    /\ UNCHANGED <<pool, orphans, free, mapLockedInputs, queues, adding>>

\* "Delete redundant memory transactions"
DeleteRedundant ==
    /\ \E t \in redundant : remove(t) /\ redundant' = redundant \ {t}
    /\ UNCHANGED <<txdb, orphans, free, mapLockedInputs, queues, adding>>

\* CommitTransaction of the wallet, under cs_main, with fLimitFree = FALSE.
AddOwn(t) ==
    /\ Idle
    /\ AcceptToMemoryPool(t, TRUE)
    /\ addUnchecked(t)
    /\ UNCHANGED <<txdb, orphans, free, mapLockedInputs, queues, redundant, adding>>

\* sendrawtransaction, up to addUnchecked: no lock, whoever is at work. A call
\* for a transaction that the node has goes on to relay it.
CheckRaw(t) ==
    /\ t \notin adding
    /\ AcceptToMemoryPool(t, FALSE)
    /\ adding' = adding \cup {t}
    /\ UNCHANGED <<txdb, pool, orphans, free, mapLockedInputs, queues, redundant>>

AddRaw(t) ==
    /\ t \in adding
    /\ addUnchecked(t)
    /\ adding' = adding \ {t}
    /\ UNCHANGED <<txdb, orphans, free, mapLockedInputs, queues, redundant>>

\* The "txlreq" handler of InstantX, for a request that the pool takes.
AcceptLockRequest(t) ==
    /\ Idle
    /\ AcceptToMemoryPool(t, FALSE)
    /\ addUnchecked(t)
    /\ UNCHANGED <<txdb, orphans, free, mapLockedInputs, queues, redundant, adding>>

\* The handlers of InstantX lock inputs, CleanTransactionLocksList on the Darksend
\* thread frees them without a lock. An input that is locked keeps its owner.
LockInputs(O, t) ==
    /\ mapLockedInputs' = [o \in DOMAIN mapLockedInputs \cup O |->
                               IF o \in DOMAIN mapLockedInputs THEN mapLockedInputs[o] ELSE t]
    /\ UNCHANGED <<txdb, pool, orphans, free, queues, redundant, adding>>

UnlockInputs(O) ==
    /\ mapLockedInputs' = [o \in DOMAIN mapLockedInputs \ O |-> mapLockedInputs[o]]
    /\ UNCHANGED <<txdb, pool, orphans, free, queues, redundant, adding>>

\* The "dsq" handler lets the masternode send one more free transaction.
AllowFree ==
    /\ Idle
    /\ ~allowFreeTx
    /\ allowFreeTx' = TRUE
    /\ UNCHANGED <<txdb, pool, orphans, mapDarksendBroadcastTxes, mapLockedInputs, queues,
                   redundant, adding>>

\* Only txdb survives, and allowFreeTx if the masternode is in mncache.dat.
Restart ==
    /\ mapTx' = {} /\ mapNextTx' = [o \in {} |-> NoTx]
    /\ mapOrphanTransactions' = {} /\ mapOrphanTransactionsByPrev' = {}
    /\ mapDarksendBroadcastTxes' = {} /\ allowFreeTx' \in {allowFreeTx, TRUE}
    /\ mapLockedInputs' = [o \in {} |-> NoTx]
    /\ vWorkQueue' = {} /\ itByPrev' = {} /\ vEraseQueue' = {}
    /\ redundant' = {} /\ adding' = {}
    /\ UNCHANGED txdb

---------------------------------------------------------------------------

MempoolInit ==
    /\ txdb = Recorded
    /\ mapTx = {} /\ mapNextTx = [o \in {} |-> NoTx]
    /\ mapOrphanTransactions = {} /\ mapOrphanTransactionsByPrev = {}
    /\ mapDarksendBroadcastTxes = {} /\ allowFreeTx = TRUE
    /\ mapLockedInputs = [o \in {} |-> NoTx]
    /\ vWorkQueue = {} /\ itByPrev = {} /\ vEraseQueue = {}
    /\ redundant = {} /\ adding = {}

\* The rest of the handler that runs.
HandlerStep == TakeWork \/ TryOrphan \/ EraseQueue \/ DeleteRedundant

MempoolNext ==
    \/ \E t \in Tx : ReceiveTx(t)
    \/ \E t \in DarksendTx, known \in BOOLEAN : ReceiveDstx(t, known)
    \/ HandlerStep
    \/ \E B \in SUBSET Tx : Cardinality(B) \in 1..MaxBlockTx /\ CommitBlock(B)
    \/ \E t \in Tx : AddOwn(t)
    \/ \E t \in RawTx : CheckRaw(t) \/ AddRaw(t)
    \/ \E t \in LockTx : AcceptLockRequest(t)
    \/ \E t \in LockTx : \E O \in SUBSET Spends[t] : LockInputs(O, t)
    \/ \E O \in SUBSET OutPoint : UnlockInputs(O)
    \/ AllowFree
    \/ Restart

MempoolSpec == MempoolInit /\ [][MempoolNext]_mempoolVars

---------------------------------------------------------------------------
(***************************************************************************)
(* Properties.                                                             *)
(***************************************************************************)

\* Every variable holds what its C++ type allows, the work queue of the "tx"
\* handler only names transactions of the pool and orphans, and a block never
\* meets a queue that is not empty: cs_main keeps them apart.
MempoolTypeOK ==
    /\ txdb \subseteq Tx
    /\ mapTx \subseteq Tx
    /\ DOMAIN mapNextTx \subseteq OutPoint
    /\ mapNextTx \in [DOMAIN mapNextTx -> Tx]
    /\ mapOrphanTransactions \subseteq Tx
    /\ mapOrphanTransactionsByPrev \subseteq Tx \X Tx
    /\ mapDarksendBroadcastTxes \subseteq Tx
    /\ allowFreeTx \in BOOLEAN
    /\ DOMAIN mapLockedInputs \subseteq OutPoint
    /\ mapLockedInputs \in [DOMAIN mapLockedInputs -> Tx]
    /\ vWorkQueue \subseteq mapTx
    /\ itByPrev \cup vEraseQueue \subseteq mapOrphanTransactions
    /\ redundant \subseteq txdb
    /\ adding \subseteq RawTx
    /\ redundant # {} => QueuesEmpty

\* The outputs that sendrawtransaction may spend.
RawOutPoint == UNION {Spends[t] : t \in RawTx}

\* No entry of mapNextTx, which holds pointers into the pool, outlives the
\* transaction it points to.
NoDanglingPointer ==
    \A o \in DOMAIN mapNextTx : mapNextTx[o] \in mapTx /\ o \in Spends[mapNextTx[o]]

\* Every output that a transaction of the pool spends is in mapNextTx for that
\* transaction alone, but for the outputs that sendrawtransaction may spend.
SpentOnce ==
    \A t \in mapTx : \A o \in Spends[t] \ RawOutPoint :
        o \in DOMAIN mapNextTx /\ mapNextTx[o] = t

\* Under cs_main the index of the pool is exact, so two transactions of the pool
\* never spend one output and remove() never takes the entry of another; what
\* sendrawtransaction does without the lock is limited to the outputs that it
\* spends and leaves no pointer behind.
PoolExact == NoDanglingPointer /\ SpentOnce

\* The index of orphans by parent is exact: an orphan is found from each of its
\* parents, and what an entry names is an orphan.
OrphanIndexExact ==
    mapOrphanTransactionsByPrev =
        UNION {{<<p, t>> : p \in Parents(t)} : t \in mapOrphanTransactions}

\* "DoS prevention": at most MAX_ORPHAN_TRANSACTIONS orphans.
OrphansBounded == Cardinality(mapOrphanTransactions) <= MaxOrphans

\* However orphans come, are tried and are evicted at random, both maps lose an
\* entry together and stay within the limit, so the work queue never makes an
\* empty transaction with mapOrphanTransactions[].
OrphansExact == OrphanIndexExact /\ OrphansBounded

\* Every parent of a transaction of the pool, or of one that is about to enter
\* it, has a record in txdb, so a miner may take them in any order.
PoolParentsRecorded ==
    \A t \in mapTx \cup adding : Parents(t) \subseteq txdb

\* No two transactions of the pool spend the same output: addUnchecked relies on
\* AcceptToMemoryPool to have looked for a rival. Two callers may both have looked before
\* either adds, so this needs cs_main around every call, and sendrawtransaction has none.
NoDoubleSpend ==
    \A t, u \in mapTx : t # u => Spends[t] \cap Spends[u] = {}
=============================================================================
