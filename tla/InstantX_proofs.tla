-------------------------- MODULE InstantX_proofs --------------------------
(***************************************************************************)
(* Proofs about Mempool and InstantX.                                      *)
(*                                                                         *)
(* The memory pool and the orphans are consistent for every set of         *)
(* transactions: the indexes are exact, the orphans bounded, and a call of *)
(* sendrawtransaction harms no output but those that it spends.            *)
(*                                                                         *)
(* InstantX for every set of transactions, masternodes and votes: it uses  *)
(* the pool only as Mempool allows, so that what is shown of the pool      *)
(* holds of the composition; no vote counts twice; and an input is locked  *)
(* only by a refused request or by the votes that are required.            *)
(***************************************************************************)
EXTENDS InstantX, FiniteSetTheorems, TLAPS

\* The inductive invariant: each part needs the others. A step that adds needs
\* SpentOnce to read the pool from mapNextTx, one that removes needs it to spare
\* the entries of others, and both need the types.
MempoolInv ==
    /\ MempoolTypeOK
    /\ PoolExact
    /\ OrphanIndexExact
    /\ OrphansBounded
    /\ PoolParentsRecorded

---------------------------------------------------------------------------

\* What a transaction spends are outputs of known transactions.
LEMMA SpendsOutPoint == \A t \in Tx : Spends[t] \subseteq OutPoint /\ Parents(t) \subseteq Tx
  BY MempoolAssumption DEF OutPoint, Parents

\* The orphans are finitely many, and fewer of them are no more.
LEMMA OrphansFinite ==
    ASSUME NEW S \in SUBSET Tx, NEW T \in SUBSET S
    PROVE  /\ IsFiniteSet(S) /\ Cardinality(S) \in Nat
           /\ IsFiniteSet(T) /\ Cardinality(T) \in Nat
           /\ Cardinality(T) <= Cardinality(S)
<1>1. IsFiniteSet(S)
  BY TxFinite, FS_Subset
<1>2. IsFiniteSet(T) /\ Cardinality(T) <= Cardinality(S)
  BY <1>1, FS_Subset
<1> QED
  BY <1>1, <1>2, FS_CardinalityType

\* What sendrawtransaction spends.
LEMMA RawSpends == \A t \in RawTx : t \in Tx /\ Spends[t] \subseteq RawOutPoint
  BY MempoolAssumption DEF RawOutPoint

\* addUnchecked keeps mapNextTx exact when a rival in the pool, if any, only
\* shares an output that sendrawtransaction may spend.
LEMMA AddExact ==
    ASSUME MempoolTypeOK, PoolExact, NEW t \in Tx, addUnchecked(t),
           \A u \in mapTx : u # t => Spends[u] \cap Spends[t] \subseteq RawOutPoint
    PROVE  /\ PoolExact'
           /\ mapTx' = mapTx \cup {t}
           /\ mapTx' \subseteq Tx
           /\ DOMAIN mapNextTx' \subseteq OutPoint
           /\ mapNextTx' \in [DOMAIN mapNextTx' -> Tx]
<1>1. /\ mapTx' = mapTx \cup {t}
      /\ mapNextTx' = [o \in DOMAIN mapNextTx \cup Spends[t] |->
                           IF o \in Spends[t] THEN t ELSE mapNextTx[o]]
  BY DEF addUnchecked
<1>2. DOMAIN mapNextTx' = DOMAIN mapNextTx \cup Spends[t]
  BY <1>1
<1>3. NoDanglingPointer'
  <2> SUFFICES ASSUME NEW o \in DOMAIN mapNextTx'
               PROVE  mapNextTx'[o] \in mapTx' /\ o \in Spends[mapNextTx'[o]]
    BY DEF NoDanglingPointer
  <2>1. CASE o \in Spends[t]
    BY <1>1, <2>1
  <2>2. CASE o \notin Spends[t]
    BY <1>1, <1>2, <2>2 DEF PoolExact, NoDanglingPointer
  <2> QED
    BY <2>1, <2>2
<1>4. SpentOnce'
  <2> SUFFICES ASSUME NEW u \in mapTx', NEW o \in Spends[u] \ RawOutPoint
               PROVE  o \in DOMAIN mapNextTx' /\ mapNextTx'[o] = u
    BY DEF SpentOnce, RawOutPoint
  <2>1. CASE u = t
    BY <1>1, <2>1
  <2>2. CASE u # t
    <3>1. u \in mapTx /\ o \notin Spends[t]
      BY <1>1, <2>2
    <3>2. o \in DOMAIN mapNextTx /\ mapNextTx[o] = u
      BY <3>1 DEF PoolExact, SpentOnce
    <3> QED
      BY <1>1, <3>1, <3>2
  <2> QED
    BY <2>1, <2>2
<1>5. DOMAIN mapNextTx' \subseteq OutPoint
  BY <1>2, SpendsOutPoint DEF MempoolTypeOK
<1>6. mapNextTx' \in [DOMAIN mapNextTx' -> Tx]
  BY <1>1, <1>2 DEF MempoolTypeOK
<1> QED
  BY <1>1, <1>3, <1>4, <1>5, <1>6 DEF PoolExact, MempoolTypeOK

LEMMA PoolUnchanged == PoolExact /\ UNCHANGED pool => PoolExact'
  BY DEF PoolExact, NoDanglingPointer, SpentOnce, RawOutPoint, pool

\* remove keeps mapNextTx exact.
LEMMA RemoveExact ==
    ASSUME MempoolTypeOK, PoolExact, NEW t \in Tx, remove(t)
    PROVE  /\ PoolExact'
           /\ mapTx' \subseteq mapTx
           /\ DOMAIN mapNextTx' \subseteq OutPoint
           /\ mapNextTx' \in [DOMAIN mapNextTx' -> Tx]
<1>1. CASE t \notin mapTx
  BY <1>1 DEF remove, pool, PoolExact, NoDanglingPointer, SpentOnce, RawOutPoint, MempoolTypeOK
<1>2. CASE t \in mapTx
  <2>1. /\ mapTx' = mapTx \ {t}
        /\ mapNextTx' = [o \in DOMAIN mapNextTx \ Spends[t] |-> mapNextTx[o]]
    BY <1>2 DEF remove
  <2>2. \A u \in mapTx' : Spends[u] \cap Spends[t] \subseteq RawOutPoint
    BY <1>2, <2>1 DEF PoolExact, SpentOnce
  <2>3. NoDanglingPointer'
    BY <2>1 DEF PoolExact, NoDanglingPointer
  <2>4. SpentOnce'
    BY <2>1, <2>2 DEF PoolExact, SpentOnce, RawOutPoint
  <2> QED
    BY <2>1, <2>3, <2>4 DEF PoolExact, MempoolTypeOK
<1> QED
  BY <1>1, <1>2

\* A transaction that AcceptToMemoryPool lets pass shares no output with one of
\* the pool, unless sendrawtransaction may spend it, and only has parents with a
\* record.
LEMMA Accepted ==
    ASSUME MempoolTypeOK, PoolExact, NEW t \in Tx, NEW fees \in BOOLEAN,
           AcceptToMemoryPool(t, fees)
    PROVE  /\ \A u \in mapTx : Spends[u] \cap Spends[t] \subseteq RawOutPoint
           /\ Parents(t) \subseteq txdb
  BY DEF AcceptToMemoryPool, Refused, fMissingInputs, PoolExact, SpentOnce

\* Erasing orphans keeps their index exact and their number bounded.
LEMMA EraseExact ==
    ASSUME NEW S, NEW txs \in SUBSET Tx, NEW byPrev,
           byPrev = UNION {{<<p, t>> : p \in Parents(t)} : t \in txs},
           EraseOrphanTxs(S, txs, byPrev)
    PROVE  /\ OrphanIndexExact'
           /\ mapOrphanTransactions' = txs \ S
           /\ mapOrphanTransactionsByPrev' \subseteq Tx \X Tx
<1>1. /\ mapOrphanTransactions' = txs \ S
      /\ mapOrphanTransactionsByPrev' = {e \in byPrev : e[2] \notin S}
  BY DEF EraseOrphanTxs
<1>2. mapOrphanTransactionsByPrev' = UNION {{<<p, t>> : p \in Parents(t)} : t \in txs \ S}
  BY <1>1
<1>3. \A t \in txs : Parents(t) \subseteq Tx
  BY SpendsOutPoint
<1>4. mapOrphanTransactionsByPrev' \subseteq Tx \X Tx
  BY <1>2, <1>3
<1> QED
  BY <1>1, <1>2, <1>4 DEF OrphanIndexExact, Parents

\* AddOrphanTx keeps the index exact and the orphans bounded.
LEMMA AddOrphanExact ==
    ASSUME MempoolInv, NEW t \in Tx, AddOrphanTx(t)
    PROVE  /\ OrphanIndexExact' /\ OrphansBounded'
           /\ mapOrphanTransactions' \subseteq Tx
           /\ mapOrphanTransactionsByPrev' \subseteq Tx \X Tx
<1> DEFINE txs == IF t \in Large THEN mapOrphanTransactions
                                 ELSE mapOrphanTransactions \cup {t}
           byPrev == mapOrphanTransactionsByPrev \cup
                         (IF t \in Large \cup mapOrphanTransactions THEN {}
                          ELSE {<<p, t>> : p \in Parents(t)})
<1>1. PICK evicted \in SUBSET txs :
          /\ IF Cardinality(txs) > MaxOrphans
             THEN Cardinality(txs \ evicted) = MaxOrphans
             ELSE evicted = {}
          /\ EraseOrphanTxs(evicted, txs, byPrev)
  BY DEF AddOrphanTx
<1>2. txs \in SUBSET Tx
  BY DEF MempoolInv, MempoolTypeOK
<1>3. byPrev = UNION {{<<p, u>> : p \in Parents(u)} : u \in txs}
  <2>1. mapOrphanTransactionsByPrev =
            UNION {{<<p, u>> : p \in Parents(u)} : u \in mapOrphanTransactions}
    BY DEF MempoolInv, OrphanIndexExact
  <2>2. CASE t \in Large \cup mapOrphanTransactions
    BY <2>1, <2>2
  <2>3. CASE t \notin Large \cup mapOrphanTransactions
    BY <2>1, <2>3
  <2> QED
    BY <2>2, <2>3
<1>4. /\ OrphanIndexExact'
      /\ mapOrphanTransactions' = txs \ evicted
      /\ mapOrphanTransactionsByPrev' \subseteq Tx \X Tx
  <2> HIDE DEF txs, byPrev
  <2> QED
    BY <1>1, <1>2, <1>3, EraseExact
<1>5. Cardinality(txs) \in Nat
  BY <1>2, OrphansFinite
<1>6. Cardinality(txs \ evicted) <= MaxOrphans
  <2> HIDE DEF txs, byPrev
  <2>1. CASE Cardinality(txs) > MaxOrphans
    BY <1>1, <2>1, MempoolAssumption
  <2>2. CASE ~(Cardinality(txs) > MaxOrphans)
    <3>1. txs \ evicted = txs
      BY <1>1, <2>2
    <3>2. Cardinality(txs \ evicted) = Cardinality(txs)
      BY <3>1, Zenon
    <3>3. Cardinality(txs) <= MaxOrphans
      BY <1>5, <2>2, MempoolAssumption
    <3> QED
      BY <3>2, <3>3
  <2> QED
    BY <2>1, <2>2
<1> QED
  BY <1>2, <1>4, <1>6 DEF OrphansBounded

\* The common part of the handlers "tx" and "dstx".
LEMMA ProcessInv ==
    ASSUME MempoolInv, Idle, NEW t \in Tx, NEW fees \in BOOLEAN,
           Process(t, fees),
           mapDarksendBroadcastTxes' \subseteq Tx, allowFreeTx' \in BOOLEAN
    PROVE  MempoolInv'
<1>1. /\ UNCHANGED <<txdb, mapLockedInputs, itByPrev, vEraseQueue, redundant, adding>>
      /\ itByPrev = {} /\ vEraseQueue = {} /\ vWorkQueue = {} /\ redundant = {}
  BY DEF Process, Idle, QueuesEmpty
<1>3. CASE AcceptToMemoryPool(t, fees)
  <2>1. addUnchecked(t) /\ vWorkQueue' = {t} /\ UNCHANGED orphans
    BY <1>3 DEF Process
  <2>2. /\ \A u \in mapTx : Spends[u] \cap Spends[t] \subseteq RawOutPoint
        /\ Parents(t) \subseteq txdb
    BY <1>3, Accepted DEF MempoolInv
  <2>3. /\ PoolExact' /\ mapTx' \subseteq Tx
        /\ DOMAIN mapNextTx' \subseteq OutPoint
        /\ mapNextTx' \in [DOMAIN mapNextTx' -> Tx]
    BY <2>1, <2>2, AddExact DEF MempoolInv
  <2>4. mapTx' = mapTx \cup {t}
    BY <2>1 DEF addUnchecked
  <2>5. MempoolTypeOK'
    BY <1>1, <2>1, <2>3, <2>4 DEF MempoolInv, MempoolTypeOK, orphans
  <2>6. OrphanIndexExact' /\ OrphansBounded'
    BY <2>1 DEF MempoolInv, OrphanIndexExact, OrphansBounded, orphans, Parents
  <2>7. PoolParentsRecorded'
    BY <1>1, <2>2, <2>4 DEF MempoolInv, PoolParentsRecorded, Parents
  <2> QED
    BY <2>3, <2>5, <2>6, <2>7 DEF MempoolInv
<1>4. CASE ~AcceptToMemoryPool(t, fees)
  <2>1. UNCHANGED <<pool, vWorkQueue>>
    BY <1>4 DEF Process
  <2>2. /\ OrphanIndexExact' /\ OrphansBounded'
        /\ mapOrphanTransactions' \subseteq Tx
        /\ mapOrphanTransactionsByPrev' \subseteq Tx \X Tx
    <3>1. CASE AddOrphanTx(t)
      BY <3>1, AddOrphanExact
    <3>2. CASE UNCHANGED orphans
      BY <3>2 DEF MempoolInv, MempoolTypeOK, OrphanIndexExact, OrphansBounded, orphans, Parents
    <3> QED
      BY <1>4, <3>1, <3>2 DEF Process
  <2>3. MempoolTypeOK'
    BY <1>1, <2>1, <2>2 DEF MempoolInv, MempoolTypeOK, pool
  <2>4. PoolExact' /\ PoolParentsRecorded'
    BY <1>1, <2>1, PoolUnchanged DEF MempoolInv, PoolParentsRecorded, pool, Parents
  <2> QED
    BY <2>2, <2>3, <2>4 DEF MempoolInv
<1> QED
  BY <1>3, <1>4

---------------------------------------------------------------------------
(***************************************************************************)
(* Every action keeps the invariant.                                       *)
(***************************************************************************)

LEMMA ReceiveTxInv == ASSUME MempoolInv, NEW t \in Tx, ReceiveTx(t) PROVE MempoolInv'
<1>1. mapDarksendBroadcastTxes' \subseteq Tx /\ allowFreeTx' \in BOOLEAN
  BY DEF ReceiveTx, free, MempoolInv, MempoolTypeOK
<1> QED
  BY <1>1, ProcessInv DEF ReceiveTx

LEMMA ReceiveDstxInv ==
    ASSUME MempoolInv, NEW t \in DarksendTx, NEW known \in BOOLEAN, ReceiveDstx(t, known)
    PROVE  MempoolInv'
<1>1. t \in Tx
  BY MempoolAssumption
<1>2. mapDarksendBroadcastTxes' \subseteq Tx
  BY <1>1 DEF ReceiveDstx, free, MempoolInv, MempoolTypeOK
<1>3. allowFreeTx' \in BOOLEAN
  BY DEF ReceiveDstx, free, MempoolInv, MempoolTypeOK
<1> QED
  BY <1>1, <1>2, <1>3, ProcessInv DEF ReceiveDstx

LEMMA TakeWorkInv == MempoolInv /\ TakeWork => MempoolInv'
<1> SUFFICES ASSUME MempoolInv, TakeWork PROVE MempoolInv'
  OBVIOUS
<1>1. PICK t \in vWorkQueue :
          /\ vWorkQueue' = vWorkQueue \ {t}
          /\ itByPrev' = {e[2] : e \in {x \in mapOrphanTransactionsByPrev : x[1] = t}}
  BY DEF TakeWork
<1>2. UNCHANGED <<txdb, pool, orphans, free, mapLockedInputs, vEraseQueue, redundant, adding>>
  BY DEF TakeWork
<1>3. itByPrev' \subseteq mapOrphanTransactions
  BY <1>1 DEF MempoolInv, OrphanIndexExact
<1>4. MempoolTypeOK'
  <2>1. redundant' = {}
    BY <1>1, <1>2 DEF MempoolInv, MempoolTypeOK, QueuesEmpty
  <2> QED
    BY <1>1, <1>2, <1>3, <2>1 DEF MempoolInv, MempoolTypeOK, pool, orphans, free
<1>5. PoolExact' /\ OrphanIndexExact' /\ OrphansBounded'
  BY <1>2, PoolUnchanged DEF MempoolInv, OrphanIndexExact, OrphansBounded,
              pool, orphans, Parents
<1>6. PoolParentsRecorded'
  BY <1>2 DEF MempoolInv, PoolParentsRecorded, pool, Parents
<1> QED
  BY <1>4, <1>5, <1>6 DEF MempoolInv

LEMMA TryOrphanInv == MempoolInv /\ TryOrphan => MempoolInv'
<1> SUFFICES ASSUME MempoolInv, TryOrphan PROVE MempoolInv'
  OBVIOUS
<1>1. PICK t \in itByPrev :
          /\ itByPrev' = itByPrev \ {t}
          /\ IF AcceptToMemoryPool(t, FALSE)
             THEN addUnchecked(t) /\ vWorkQueue' = vWorkQueue \cup {t}
             ELSE UNCHANGED <<pool, vWorkQueue>>
          /\ vEraseQueue' = IF fMissingInputs(t) THEN vEraseQueue ELSE vEraseQueue \cup {t}
          /\ UNCHANGED <<txdb, orphans, free, mapLockedInputs, redundant, adding>>
  BY DEF TryOrphan
<1>2. /\ t \in mapOrphanTransactions /\ t \in Tx
      /\ redundant = {}
  BY <1>1 DEF MempoolInv, MempoolTypeOK, QueuesEmpty
<1>3. /\ mapTx \subseteq mapTx' /\ mapTx' \subseteq Tx
      /\ DOMAIN mapNextTx' \subseteq OutPoint
      /\ mapNextTx' \in [DOMAIN mapNextTx' -> Tx]
      /\ vWorkQueue' \subseteq mapTx'
      /\ PoolExact'
      /\ \A u \in mapTx' : Parents(u) \subseteq txdb
  <2>1. CASE AcceptToMemoryPool(t, FALSE)
    <3>1. /\ \A u \in mapTx : Spends[u] \cap Spends[t] \subseteq RawOutPoint
          /\ Parents(t) \subseteq txdb
      BY <1>2, <2>1, Accepted DEF MempoolInv
    <3>2. mapTx' = mapTx \cup {t} /\ vWorkQueue' = vWorkQueue \cup {t} /\ addUnchecked(t)
      BY <1>1, <2>1 DEF addUnchecked
    <3>3. /\ PoolExact' /\ mapTx' \subseteq Tx
          /\ DOMAIN mapNextTx' \subseteq OutPoint
          /\ mapNextTx' \in [DOMAIN mapNextTx' -> Tx]
      BY <1>2, <3>1, <3>2, AddExact DEF MempoolInv
    <3> QED
      BY <3>1, <3>2, <3>3 DEF MempoolInv, MempoolTypeOK, PoolParentsRecorded
  <2>2. CASE ~AcceptToMemoryPool(t, FALSE)
    BY <1>1, <2>2, PoolUnchanged DEF MempoolInv, MempoolTypeOK, PoolParentsRecorded, pool
  <2> QED
    BY <2>1, <2>2
<1>4. MempoolTypeOK'
  BY <1>1, <1>2, <1>3 DEF MempoolInv, MempoolTypeOK, orphans, free
<1>5. OrphanIndexExact' /\ OrphansBounded'
  BY <1>1, <1>2 DEF MempoolInv, OrphanIndexExact, OrphansBounded, orphans,
                    Parents
<1>6. PoolParentsRecorded'
  BY <1>1, <1>2, <1>3 DEF MempoolInv, PoolParentsRecorded, Parents
<1> QED
  BY <1>3, <1>4, <1>5, <1>6 DEF MempoolInv

LEMMA EraseQueueInv == MempoolInv /\ EraseQueue => MempoolInv'
<1> SUFFICES ASSUME MempoolInv, EraseQueue PROVE MempoolInv'
  OBVIOUS
<1>1. /\ EraseOrphanTxs(vEraseQueue, mapOrphanTransactions, mapOrphanTransactionsByPrev)
      /\ vEraseQueue' = {} /\ vEraseQueue # {} /\ itByPrev = {}
      /\ UNCHANGED <<txdb, pool, free, mapLockedInputs, vWorkQueue, itByPrev, redundant, adding>>
  BY DEF EraseQueue
<1>2. mapOrphanTransactions \in SUBSET Tx
  BY DEF MempoolInv, MempoolTypeOK
<1>3. /\ OrphanIndexExact'
      /\ mapOrphanTransactions' = mapOrphanTransactions \ vEraseQueue
      /\ mapOrphanTransactionsByPrev' \subseteq Tx \X Tx
  BY <1>1, <1>2, EraseExact DEF MempoolInv, OrphanIndexExact
<1>4. OrphansBounded'
  <2>1. mapOrphanTransactions' \in SUBSET mapOrphanTransactions
    BY <1>3
  <2>2. /\ Cardinality(mapOrphanTransactions') \in Nat
        /\ Cardinality(mapOrphanTransactions) \in Nat
        /\ Cardinality(mapOrphanTransactions') <= Cardinality(mapOrphanTransactions)
    BY <1>2, <2>1, OrphansFinite
  <2> QED
    BY <2>2, MempoolAssumption DEF MempoolInv, OrphansBounded
<1>5. MempoolTypeOK'
  <2>1. redundant = {}
    BY <1>1 DEF MempoolInv, MempoolTypeOK, QueuesEmpty
  <2> QED
    BY <1>1, <1>2, <1>3, <2>1 DEF MempoolInv, MempoolTypeOK, pool, free
<1>6. PoolExact' /\ PoolParentsRecorded'
  BY <1>1, PoolUnchanged DEF MempoolInv, PoolParentsRecorded, pool, Parents
<1> QED
  BY <1>3, <1>4, <1>5, <1>6 DEF MempoolInv

LEMMA DeleteRedundantInv == MempoolInv /\ DeleteRedundant => MempoolInv'
<1> SUFFICES ASSUME MempoolInv, DeleteRedundant PROVE MempoolInv'
  OBVIOUS
<1>1. PICK t \in redundant : remove(t) /\ redundant' = redundant \ {t}
  BY DEF DeleteRedundant
<1>2. UNCHANGED <<txdb, orphans, free, mapLockedInputs, queues, adding>>
  BY DEF DeleteRedundant
<1>3. t \in Tx /\ QueuesEmpty
  BY <1>1 DEF MempoolInv, MempoolTypeOK
<1>4. /\ PoolExact'
      /\ mapTx' \subseteq mapTx
      /\ DOMAIN mapNextTx' \subseteq OutPoint
      /\ mapNextTx' \in [DOMAIN mapNextTx' -> Tx]
  BY <1>1, <1>3, RemoveExact DEF MempoolInv
<1>5. MempoolTypeOK'
  BY <1>1, <1>2, <1>3, <1>4
     DEF MempoolInv, MempoolTypeOK, QueuesEmpty, orphans, free, queues
<1>6. PoolParentsRecorded'
  BY <1>2, <1>4 DEF MempoolInv, PoolParentsRecorded, Parents
<1>7. OrphanIndexExact' /\ OrphansBounded'
  BY <1>2 DEF MempoolInv, OrphanIndexExact, OrphansBounded, orphans, Parents
<1> QED
  BY <1>4, <1>5, <1>6, <1>7 DEF MempoolInv

LEMMA CommitBlockInv ==
    ASSUME MempoolInv, NEW B \in SUBSET Tx, CommitBlock(B) PROVE MempoolInv'
<1>1. /\ txdb' = txdb \cup B /\ redundant' = B /\ QueuesEmpty
      /\ UNCHANGED <<pool, orphans, free, mapLockedInputs, queues, adding>>
  BY DEF CommitBlock, Idle
<1>2. MempoolTypeOK'
  BY <1>1 DEF MempoolInv, MempoolTypeOK, QueuesEmpty, pool, orphans, free, queues
<1>3. PoolExact' /\ OrphanIndexExact' /\ OrphansBounded'
  BY <1>1, PoolUnchanged DEF MempoolInv, OrphanIndexExact, OrphansBounded,
              pool, orphans, Parents
<1>4. PoolParentsRecorded'
  BY <1>1 DEF MempoolInv, PoolParentsRecorded, pool, Parents
<1> QED
  BY <1>2, <1>3, <1>4 DEF MempoolInv

\* The wallet and the "txlreq" handler: checked and added under cs_main.
LEMMA AddLockedInv ==
    ASSUME MempoolInv, QueuesEmpty, NEW t \in Tx, NEW fees \in BOOLEAN,
           AcceptToMemoryPool(t, fees), addUnchecked(t),
           UNCHANGED <<txdb, orphans, free, mapLockedInputs, queues, redundant, adding>>
    PROVE  MempoolInv'
<1>1. /\ \A u \in mapTx : Spends[u] \cap Spends[t] \subseteq RawOutPoint
      /\ Parents(t) \subseteq txdb
  BY Accepted DEF MempoolInv
<1>2. /\ PoolExact' /\ mapTx' = mapTx \cup {t} /\ mapTx' \subseteq Tx
      /\ DOMAIN mapNextTx' \subseteq OutPoint
      /\ mapNextTx' \in [DOMAIN mapNextTx' -> Tx]
  BY <1>1, AddExact DEF MempoolInv
<1>3. MempoolTypeOK'
  BY <1>2 DEF MempoolInv, MempoolTypeOK, QueuesEmpty, orphans, free, queues
<1>4. PoolParentsRecorded'
  BY <1>1, <1>2 DEF MempoolInv, PoolParentsRecorded, Parents
<1>5. OrphanIndexExact' /\ OrphansBounded'
  BY DEF MempoolInv, OrphanIndexExact, OrphansBounded, orphans, Parents
<1> QED
  BY <1>2, <1>3, <1>4, <1>5 DEF MempoolInv

LEMMA AddOwnInv == ASSUME MempoolInv, NEW t \in Tx, AddOwn(t) PROVE MempoolInv'
  BY AddLockedInv DEF AddOwn, Idle

LEMMA CheckRawInv == ASSUME MempoolInv, NEW t \in RawTx, CheckRaw(t) PROVE MempoolInv'
<1>1. /\ adding' = adding \cup {t}
      /\ UNCHANGED <<txdb, pool, orphans, free, mapLockedInputs, queues, redundant>>
  BY DEF CheckRaw
<1>2. Parents(t) \subseteq txdb
  BY Accepted, RawSpends DEF CheckRaw, MempoolInv
<1>3. MempoolTypeOK'
  BY <1>1 DEF MempoolInv, MempoolTypeOK, QueuesEmpty, pool, orphans, free, queues
<1>4. PoolParentsRecorded'
  BY <1>1, <1>2 DEF MempoolInv, PoolParentsRecorded, pool, Parents
<1>5. PoolExact' /\ OrphanIndexExact' /\ OrphansBounded'
  BY <1>1, PoolUnchanged DEF MempoolInv, OrphanIndexExact,
              OrphansBounded, pool, orphans, Parents
<1> QED
  BY <1>3, <1>4, <1>5 DEF MempoolInv

LEMMA AddRawInv == ASSUME MempoolInv, NEW t \in RawTx, AddRaw(t) PROVE MempoolInv'
<1>1. /\ t \in adding /\ addUnchecked(t) /\ adding' = adding \ {t}
      /\ UNCHANGED <<txdb, orphans, free, mapLockedInputs, queues, redundant>>
  BY DEF AddRaw
<1>2. t \in Tx /\ Parents(t) \subseteq txdb
      /\ \A u \in mapTx : Spends[u] \cap Spends[t] \subseteq RawOutPoint
  BY <1>1, RawSpends DEF MempoolInv, PoolParentsRecorded
<1>3. /\ PoolExact' /\ mapTx' = mapTx \cup {t} /\ mapTx' \subseteq Tx
      /\ DOMAIN mapNextTx' \subseteq OutPoint
      /\ mapNextTx' \in [DOMAIN mapNextTx' -> Tx]
  BY <1>1, <1>2, AddExact DEF MempoolInv
<1>4. MempoolTypeOK'
  BY <1>1, <1>3 DEF MempoolInv, MempoolTypeOK, QueuesEmpty, orphans, free, queues
<1>5. PoolParentsRecorded'
  BY <1>1, <1>2, <1>3 DEF MempoolInv, PoolParentsRecorded, Parents
<1>6. OrphanIndexExact' /\ OrphansBounded'
  BY <1>1 DEF MempoolInv, OrphanIndexExact, OrphansBounded, orphans, Parents
<1> QED
  BY <1>3, <1>4, <1>5, <1>6 DEF MempoolInv

LEMMA AcceptLockRequestInv ==
    ASSUME MempoolInv, NEW t \in LockTx, AcceptLockRequest(t) PROVE MempoolInv'
<1>1. t \in Tx
  BY MempoolAssumption
<1> QED
  BY <1>1, AddLockedInv DEF AcceptLockRequest, Idle

\* The steps that leave the pool, the orphans and the threads alone.
LEMMA OtherInv ==
    ASSUME MempoolInv, UNCHANGED <<txdb, pool, orphans, queues, redundant, adding>>,
           DOMAIN mapLockedInputs' \subseteq OutPoint,
           mapLockedInputs' \in [DOMAIN mapLockedInputs' -> Tx],
           mapDarksendBroadcastTxes' \subseteq Tx, allowFreeTx' \in BOOLEAN
    PROVE  MempoolInv'
<1>1. MempoolTypeOK'
  BY DEF MempoolInv, MempoolTypeOK, QueuesEmpty, pool, orphans, queues
<1>2. PoolExact' /\ PoolParentsRecorded'
  BY PoolUnchanged DEF MempoolInv, PoolParentsRecorded, pool, Parents
<1>3. OrphanIndexExact' /\ OrphansBounded'
  BY DEF MempoolInv, OrphanIndexExact, OrphansBounded, orphans, Parents
<1> QED
  BY <1>1, <1>2, <1>3 DEF MempoolInv

LEMMA LockInputsInv ==
    ASSUME MempoolInv, NEW t \in LockTx, NEW O \in SUBSET Spends[t], LockInputs(O, t)
    PROVE  MempoolInv'
<1>1. t \in Tx /\ O \subseteq OutPoint
  BY MempoolAssumption, SpendsOutPoint
<1>2. /\ mapLockedInputs' =
             [o \in DOMAIN mapLockedInputs \cup O |->
                 IF o \in DOMAIN mapLockedInputs THEN mapLockedInputs[o] ELSE t]
      /\ UNCHANGED <<txdb, pool, orphans, free, queues, redundant, adding>>
  BY DEF LockInputs
<1>3. /\ DOMAIN mapLockedInputs' \subseteq OutPoint
      /\ mapLockedInputs' \in [DOMAIN mapLockedInputs' -> Tx]
  BY <1>1, <1>2 DEF MempoolInv, MempoolTypeOK
<1>4. mapDarksendBroadcastTxes' \subseteq Tx /\ allowFreeTx' \in BOOLEAN
  BY <1>2 DEF MempoolInv, MempoolTypeOK, free
<1> QED
  BY <1>2, <1>3, <1>4, OtherInv

LEMMA UnlockInputsInv ==
    ASSUME MempoolInv, NEW O \in SUBSET OutPoint, UnlockInputs(O) PROVE MempoolInv'
<1>1. /\ mapLockedInputs' = [o \in DOMAIN mapLockedInputs \ O |-> mapLockedInputs[o]]
      /\ UNCHANGED <<txdb, pool, orphans, free, queues, redundant, adding>>
  BY DEF UnlockInputs
<1>2. /\ DOMAIN mapLockedInputs' \subseteq OutPoint
      /\ mapLockedInputs' \in [DOMAIN mapLockedInputs' -> Tx]
  BY <1>1 DEF MempoolInv, MempoolTypeOK
<1>3. mapDarksendBroadcastTxes' \subseteq Tx /\ allowFreeTx' \in BOOLEAN
  BY <1>1 DEF MempoolInv, MempoolTypeOK, free
<1> QED
  BY <1>1, <1>2, <1>3, OtherInv

LEMMA AllowFreeInv == MempoolInv /\ AllowFree => MempoolInv'
<1> SUFFICES ASSUME MempoolInv, AllowFree PROVE MempoolInv'
  OBVIOUS
<1>1. /\ UNCHANGED <<txdb, pool, orphans, mapDarksendBroadcastTxes, mapLockedInputs, queues,
                     redundant, adding>>
      /\ allowFreeTx' = TRUE
  BY DEF AllowFree
<1>2. /\ DOMAIN mapLockedInputs' \subseteq OutPoint
      /\ mapLockedInputs' \in [DOMAIN mapLockedInputs' -> Tx]
      /\ mapDarksendBroadcastTxes' \subseteq Tx
  BY <1>1 DEF MempoolInv, MempoolTypeOK
<1>3. allowFreeTx' \in BOOLEAN
  BY <1>1
<1> QED
  BY <1>1, <1>2, <1>3, OtherInv

\* The empty pool, whatever the database holds.
LEMMA EmptyInv ==
    ASSUME txdb \subseteq Tx, mapTx = {}, mapNextTx = [o \in {} |-> NoTx],
           mapOrphanTransactions = {}, mapOrphanTransactionsByPrev = {},
           mapDarksendBroadcastTxes = {}, allowFreeTx = TRUE,
           mapLockedInputs = [o \in {} |-> NoTx],
           vWorkQueue = {}, itByPrev = {}, vEraseQueue = {}, redundant = {}, adding = {}
    PROVE  MempoolInv
<1>1. allowFreeTx \in BOOLEAN
  OBVIOUS
<1>2. /\ DOMAIN mapNextTx = {} /\ mapNextTx \in [DOMAIN mapNextTx -> Tx]
      /\ DOMAIN mapLockedInputs = {} /\ mapLockedInputs \in [DOMAIN mapLockedInputs -> Tx]
  OBVIOUS
<1>3. Cardinality(mapOrphanTransactions) = 0
  BY FS_EmptySet
<1>4. MempoolTypeOK
  BY <1>1, <1>2 DEF MempoolTypeOK, QueuesEmpty
<1>5. OrphansBounded
  BY <1>3, MempoolAssumption DEF OrphansBounded
<1>6. PoolExact /\ OrphanIndexExact /\ PoolParentsRecorded
  BY <1>2 DEF PoolExact, NoDanglingPointer, SpentOnce, OrphanIndexExact, PoolParentsRecorded
<1> QED
  BY <1>4, <1>5, <1>6 DEF MempoolInv

LEMMA RestartInv == MempoolInv /\ Restart => MempoolInv'
<1> SUFFICES ASSUME MempoolInv, Restart PROVE MempoolInv'
  OBVIOUS
<1>1. txdb' \subseteq Tx
  BY DEF Restart, MempoolInv, MempoolTypeOK
<1>2. /\ DOMAIN mapNextTx' = {} /\ mapNextTx' \in [DOMAIN mapNextTx' -> Tx]
      /\ DOMAIN mapLockedInputs' = {} /\ mapLockedInputs' \in [DOMAIN mapLockedInputs' -> Tx]
  BY DEF Restart
<1>3. allowFreeTx' \in BOOLEAN
  BY DEF Restart, MempoolInv, MempoolTypeOK
<1>6. MempoolTypeOK'
  BY <1>1, <1>2, <1>3 DEF Restart, MempoolTypeOK, QueuesEmpty
<1>4. OrphansBounded'
  <2>1. Cardinality(mapOrphanTransactions') = 0
    BY FS_EmptySet DEF Restart
  <2> QED
    BY <2>1, MempoolAssumption DEF OrphansBounded
<1>5. PoolExact' /\ OrphanIndexExact' /\ PoolParentsRecorded'
  BY <1>2 DEF Restart, PoolExact, NoDanglingPointer, SpentOnce, OrphanIndexExact,
              PoolParentsRecorded
<1> QED
  BY <1>4, <1>5, <1>6 DEF MempoolInv

LEMMA MempoolNextInv == MempoolInv /\ [MempoolNext]_mempoolVars => MempoolInv'
<1> SUFFICES ASSUME MempoolInv, [MempoolNext]_mempoolVars PROVE MempoolInv'
  OBVIOUS
<1>1. CASE UNCHANGED mempoolVars
  <2>1. /\ DOMAIN mapLockedInputs' \subseteq OutPoint
        /\ mapLockedInputs' \in [DOMAIN mapLockedInputs' -> Tx]
        /\ mapDarksendBroadcastTxes' \subseteq Tx /\ allowFreeTx' \in BOOLEAN
    BY <1>1 DEF mempoolVars, free, MempoolInv, MempoolTypeOK
  <2> QED
    BY <1>1, <2>1, OtherInv DEF mempoolVars
<1>2. CASE MempoolNext
  BY <1>2, ReceiveTxInv, ReceiveDstxInv, TakeWorkInv, TryOrphanInv, EraseQueueInv,
     DeleteRedundantInv, CommitBlockInv, AddOwnInv, CheckRawInv, AddRawInv, AcceptLockRequestInv,
     LockInputsInv, UnlockInputsInv, AllowFreeInv, RestartInv DEF MempoolNext, HandlerStep
<1> QED
  BY <1>1, <1>2

\* The whole invariant holds in every state: AcceptToMemoryPool, the work queue
\* of the "tx" handler and the cleanup after a block together keep the pool and
\* the orphans consistent, in any interleaving of the threads.
THEOREM MempoolInvariance == MempoolSpec => []MempoolInv
<1>1. MempoolInit => MempoolInv
  BY EmptyInv, MempoolAssumption DEF MempoolInit
<1> QED
  BY <1>1, MempoolNextInv, PTL DEF MempoolSpec

\* Types, the contents of the work queue, and cs_main as a mutual exclusion
\* between the "tx" handler and the thread that stores a block.
THEOREM MempoolTypeCorrect == MempoolSpec => []MempoolTypeOK
  BY MempoolInvariance, PTL DEF MempoolInv

\* The pool holds no double spend of an output and mapNextTx is its exact index,
\* but for the outputs that sendrawtransaction spends without cs_main, and no
\* pointer of mapNextTx dangles even there.
THEOREM PoolIndexExact == MempoolSpec => []PoolExact
<1>1. MempoolInv => PoolExact
  BY DEF MempoolInv
<1> QED
  BY <1>1, MempoolInvariance, PTL

\* Where nobody calls sendrawtransaction, the checks of AcceptToMemoryPool are
\* enough: the pool never holds two transactions that spend one output.
THEOREM NoDoubleSpendUnderLock ==
    ASSUME RawTx = {} PROVE MempoolSpec => []NoDoubleSpend
<1>1. PoolExact => NoDoubleSpend
  BY DEF PoolExact, SpentOnce, RawOutPoint, NoDoubleSpend
<1> QED
  BY <1>1, PoolIndexExact, PTL

\* The orphans are exactly indexed by parent and never more than
\* MAX_ORPHAN_TRANSACTIONS.
THEOREM OrphansConsistent == MempoolSpec => []OrphansExact
<1>1. MempoolInv => OrphansExact
  BY DEF MempoolInv, OrphansExact
<1> QED
  BY <1>1, MempoolInvariance, PTL

\* Every parent of a transaction of the pool is in a connected block.
THEOREM PoolIndependent == MempoolSpec => []PoolParentsRecorded
  BY MempoolInvariance, PTL DEF MempoolInv

---------------------------------------------------------------------------
(***************************************************************************)
(* The locks of InstantX.                                                  *)
(***************************************************************************)

LockRecord == [known : BOOLEAN, votes : Seq(Vote), due : BOOLEAN]

\* Type correctness. The stored inputs of a request are those that the
\* transaction spends, or none when the votes were complete before it came.
IXTypeOK ==
    /\ DOMAIN mapTxLockReq \subseteq LockTx
    /\ \A t \in DOMAIN mapTxLockReq : mapTxLockReq[t] \subseteq Spends[t]
    /\ mapTxLockReqRejected \subseteq LockTx
    /\ mapTxLockVote \subseteq Masternode \X LockTx
    /\ DOMAIN mapTxLocks \subseteq LockTx
    /\ mapTxLocks \in [DOMAIN mapTxLocks -> LockRecord]

\* Each thread has a transaction in work exactly in the stages that need one, and
\* the clean up works on a record that is still there. Of the two that hold cs_main one
\* has none.
StagesOK ==
    /\ request = Nothing \/ relaying = Nothing
    /\ request \in {Nothing} \cup {At(t, s) : t \in LockTx, s \in {"check", "accepted"}}
    /\ relaying \in {Nothing} \cup {At(t, s) : t \in OwnTx \cap LockTx, s \in {"insert", "lock"}}
    /\ cleaning \in {Nothing, At(NoTx, "hangs")} \cup
                    {At(t, s) : t \in DOMAIN mapTxLocks, s \in {"request", "votes", "record"}}

\* The request that the pool is about to judge has not been refused before.
RequestUndecided == request.at = "check" => request.tx \notin mapTxLockReqRejected

\* The inductive invariant. VotesCountedOnce needs the stages: the clean up may
\* forget votes only of the record that it is about to remove.
IXInv ==
    /\ IXTypeOK
    /\ StagesOK
    /\ RequestUndecided
    /\ VotesCountedOnce

---------------------------------------------------------------------------
(* The records and their votes. *)

\* In these records, and with these votes seen, the record of t counts each masternode
\* once and every vote it counts is seen.
Once(locks, seen, t) ==
    t \in DOMAIN locks =>
        LET votes == locks[t].votes
        IN  /\ \A i, j \in DOMAIN votes : votes[i].mn = votes[j].mn => i = j
            /\ \A i \in DOMAIN votes : <<votes[i].mn, t>> \in seen

LocksTyped(f) == DOMAIN f \subseteq LockTx /\ f \in [DOMAIN f -> LockRecord]

\* No transaction is a placeholder for none.
LEMMA NoTxNoLock == NoTx \notin LockTx /\ LockTx \subseteq Tx
  BY MempoolAssumption

\* A step that leaves the votes of each record alone, or starts records without
\* votes, forgets no vote and does not turn the clean up away from a record,
\* counts no vote twice.
LEMMA SameVotes ==
    ASSUME VotesCountedOnce,
           mapTxLockVote \subseteq mapTxLockVote',
           cleaning'.tx = cleaning.tx \/ cleaning.tx \notin DOMAIN mapTxLocks',
           \A u \in DOMAIN mapTxLocks' :
               \/ mapTxLocks'[u].votes = << >>
               \/ u \in DOMAIN mapTxLocks /\ mapTxLocks'[u].votes = mapTxLocks[u].votes
    PROVE  VotesCountedOnce'
<1> SUFFICES ASSUME NEW u \in DOMAIN mapTxLocks', u # cleaning'.tx
             PROVE  LET votes == mapTxLocks'[u].votes
                    IN  /\ \A i, j \in DOMAIN votes : votes[i].mn = votes[j].mn => i = j
                        /\ \A i \in DOMAIN votes : <<votes[i].mn, u>> \in mapTxLockVote'
  BY DEF VotesCountedOnce
<1>1. CASE mapTxLocks'[u].votes = << >>
  BY <1>1
<1>2. CASE u \in DOMAIN mapTxLocks /\ mapTxLocks'[u].votes = mapTxLocks[u].votes
  <2>1. u # cleaning.tx
    OBVIOUS
  <2> QED
    BY <1>2, <2>1 DEF VotesCountedOnce
<1> QED
  BY <1>1, <1>2

\* CreateNewLock adds a record without votes or marks one as known.
LEMMA CreateNewLockKeeps ==
    ASSUME IXTypeOK, NEW t \in LockTx, NEW aged \in BOOLEAN,
           mapTxLocks' = CreateNewLock(t, aged)
    PROVE  /\ LocksTyped(mapTxLocks')
           /\ DOMAIN mapTxLocks \subseteq DOMAIN mapTxLocks'
           /\ \A u \in DOMAIN mapTxLocks' :
                  \/ mapTxLocks'[u].votes = << >>
                  \/ u \in DOMAIN mapTxLocks /\ mapTxLocks'[u].votes = mapTxLocks[u].votes
<1>1. CASE ~aged
  BY <1>1 DEF CreateNewLock, IXTypeOK, LocksTyped
<1>2. CASE aged /\ t \in DOMAIN mapTxLocks
  <2>1. mapTxLocks' = [mapTxLocks EXCEPT ![t].known = TRUE]
    BY <1>2 DEF CreateNewLock
  <2>2. DOMAIN mapTxLocks' = DOMAIN mapTxLocks
    BY <2>1
  <2>3. \A u \in DOMAIN mapTxLocks : /\ mapTxLocks'[u] \in LockRecord
                                     /\ mapTxLocks'[u].votes = mapTxLocks[u].votes
    BY <1>2, <2>1 DEF IXTypeOK, LockRecord
  <2> QED
    BY <2>1, <2>2, <2>3 DEF IXTypeOK, LocksTyped
<1>3. CASE aged /\ t \notin DOMAIN mapTxLocks
  <2>1. mapTxLocks' = Put(mapTxLocks, t, NewLock(TRUE))
    BY <1>3 DEF CreateNewLock
  <2>2. NewLock(TRUE) \in LockRecord /\ NewLock(TRUE).votes = << >>
    BY DEF NewLock, LockRecord
  <2> HIDE DEF NewLock
  <2> QED
    BY <1>3, <2>1, <2>2 DEF IXTypeOK, LocksTyped, Put
<1> QED
  BY <1>1, <1>2, <1>3

\* CheckForConflictingLocks touches the expiry only.
LEMMA CancelBothKeeps ==
    ASSUME NEW locks, LocksTyped(locks), NEW t, NEW o
    PROVE  /\ LocksTyped(CancelBoth(locks, t, o))
           /\ DOMAIN CancelBoth(locks, t, o) = DOMAIN locks
           /\ \A u \in DOMAIN locks : /\ CancelBoth(locks, t, o)[u].votes = locks[u].votes
                                      /\ CancelBoth(locks, t, o)[u].known = locks[u].known
<1>1. DOMAIN CancelBoth(locks, t, o) = DOMAIN locks
  BY DEF CancelBoth
<1>2. \A u \in DOMAIN locks : locks[u] \in LockRecord
  BY DEF LocksTyped
<1>3. \A u \in DOMAIN locks : CancelBoth(locks, t, o)[u] \in
          {locks[u], [locks[u] EXCEPT !.due = TRUE]}
  BY DEF CancelBoth
<1>4. \A u \in DOMAIN locks : /\ CancelBoth(locks, t, o)[u] \in LockRecord
                              /\ CancelBoth(locks, t, o)[u].votes = locks[u].votes
                              /\ CancelBoth(locks, t, o)[u].known = locks[u].known
  BY <1>2, <1>3 DEF LockRecord
<1> QED
  BY <1>1, <1>4 DEF CancelBoth, LocksTyped

\* The record of a vote's transaction with the vote at the end.
LEMMA AddSignatureCounts ==
    ASSUME IXTypeOK, NEW v \in Vote
    PROVE  LET old == IF v.tx \in DOMAIN mapTxLocks THEN mapTxLocks[v.tx].votes ELSE << >>
           IN  /\ AddSignature(v) \in LockRecord
               /\ old \in Seq(Vote)
               /\ AddSignature(v).votes = Append(old, v)
<1> DEFINE old == IF v.tx \in DOMAIN mapTxLocks THEN mapTxLocks[v.tx] ELSE NewLock(FALSE)
<1>1. old \in LockRecord
  BY DEF IXTypeOK, LockRecord, NewLock
<1>2. AddSignature(v) = [old EXCEPT !.votes = Append(old.votes, v)]
  BY DEF AddSignature
<1>3. old.votes = IF v.tx \in DOMAIN mapTxLocks THEN mapTxLocks[v.tx].votes ELSE << >>
  BY DEF NewLock
<1> HIDE DEF old
<1>4. old.votes \in Seq(Vote) /\ Append(old.votes, v) \in Seq(Vote)
  BY <1>1 DEF LockRecord
<1>5. AddSignature(v) \in LockRecord /\ AddSignature(v).votes = Append(old.votes, v)
  BY <1>1, <1>2, <1>4 DEF LockRecord
<1> QED
  BY <1>3, <1>4, <1>5

---------------------------------------------------------------------------
(* One lemma for each action. *)

\* What the invariant says of the three threads.
LEMMA Stages ==
    ASSUME StagesOK
    PROVE  /\ request = Nothing \/ request.tx \in LockTx
           /\ request.at \in {"none", "check", "accepted"}
           /\ request.at \in {"check", "accepted"} => request.tx \in LockTx
           /\ relaying.at \in {"none", "insert", "lock"}
           /\ relaying.at \in {"insert", "lock"} => relaying.tx \in LockTx
           /\ cleaning = Nothing \/ cleaning.tx = NoTx \/ cleaning.tx \in DOMAIN mapTxLocks
           /\ cleaning.at \in {"request", "votes", "record"} => cleaning.tx \in DOMAIN mapTxLocks
           /\ cleaning = At(cleaning.tx, cleaning.at)
  BY DEF StagesOK, Nothing, At

\* A stage of the clean up stays right while records are only added.
LEMMA CleaningKept ==
    ASSUME StagesOK, UNCHANGED cleaning, DOMAIN mapTxLocks \subseteq DOMAIN mapTxLocks'
    PROVE  cleaning' \in {Nothing, At(NoTx, "hangs")} \cup
               {At(t, s) : t \in DOMAIN mapTxLocks', s \in {"request", "votes", "record"}}
  BY DEF StagesOK

\* The rest of the node and a step of nobody.
LEMMA IXOtherInv == IXInv /\ UNCHANGED ixVars => IXInv'
<1> SUFFICES ASSUME IXInv, UNCHANGED ixVars PROVE IXInv'
  OBVIOUS
<1> USE DEF ixVars, IXInv
<1>1. IXTypeOK'
  BY DEF IXTypeOK
<1>2. StagesOK'
  BY DEF StagesOK
<1>3. RequestUndecided' /\ VotesCountedOnce'
  BY DEF RequestUndecided, VotesCountedOnce
<1> QED
  BY <1>1, <1>2, <1>3

LEMMA IXClearInv == IXClear => IXInv'
<1> SUFFICES ASSUME IXClear PROVE IXInv'
  OBVIOUS
<1>1. IXTypeOK'
  BY DEF IXClear, IXTypeOK
<1>2. StagesOK'
  BY DEF IXClear, StagesOK
<1>3. RequestUndecided' /\ VotesCountedOnce'
  BY DEF IXClear, RequestUndecided, VotesCountedOnce, Nothing, At
<1> QED
  BY <1>1, <1>2, <1>3 DEF IXInv

LEMMA ReceiveRequestInv ==
    ASSUME IXInv, NEW t \in LockTx, NEW aged \in BOOLEAN, ReceiveRequest(t, aged)
    PROVE  IXInv'
<1> USE DEF IXInv
<1>1. /\ mapTxLocks' = CreateNewLock(t, aged) /\ request' = At(t, "check")
      /\ t \notin mapTxLockReqRejected /\ relaying = Nothing
      /\ UNCHANGED <<mapTxLockReq, mapTxLockReqRejected, mapTxLockVote, relaying, cleaning>>
  BY DEF ReceiveRequest, MainFree
<1>2. IXTypeOK'
  BY <1>1, CreateNewLockKeeps DEF IXTypeOK, LocksTyped
<1>3. StagesOK'
  BY <1>1, CreateNewLockKeeps, CleaningKept DEF StagesOK
<1>4. RequestUndecided'
  BY <1>1 DEF RequestUndecided, At
<1>5. VotesCountedOnce'
  BY <1>1, CreateNewLockKeeps, SameVotes
<1> QED
  BY <1>2, <1>3, <1>4, <1>5

LEMMA AcceptRequestInv == IXInv /\ AcceptRequest => IXInv'
<1> SUFFICES ASSUME IXInv, AcceptRequest PROVE IXInv'
  OBVIOUS
<1> USE DEF IXInv
<1>1. /\ request.at = "check" /\ request' = At(request.tx, "accepted")
      /\ UNCHANGED <<mapTxLockReq, mapTxLockReqRejected, mapTxLockVote, mapTxLocks, relaying,
                     cleaning>>
  BY DEF AcceptRequest
<1>2. IXTypeOK'
  BY <1>1 DEF IXTypeOK
<1>3. StagesOK'
  <2>1. request.tx \in LockTx /\ relaying = Nothing
    BY <1>1, Stages DEF StagesOK, Nothing, At
  <2> QED
    BY <1>1, <2>1 DEF StagesOK
<1>4. RequestUndecided'
  BY <1>1 DEF RequestUndecided, At
<1>5. VotesCountedOnce'
  BY <1>1 DEF VotesCountedOnce
<1> QED
  BY <1>2, <1>3, <1>4, <1>5

\* The insertion of a request that spends what the transaction spends, or nothing.
LEMMA InsertTyped ==
    ASSUME IXTypeOK, NEW t \in LockTx, NEW inputs \in SUBSET Spends[t]
    PROVE  /\ DOMAIN Insert(mapTxLockReq, t, inputs) \subseteq LockTx
           /\ \A u \in DOMAIN Insert(mapTxLockReq, t, inputs) :
                  Insert(mapTxLockReq, t, inputs)[u] \subseteq Spends[u]
<1>1. CASE t \in DOMAIN mapTxLockReq
  BY <1>1 DEF Insert, IXTypeOK
<1>2. CASE t \notin DOMAIN mapTxLockReq
  BY <1>2 DEF Insert, Put, IXTypeOK
<1> QED
  BY <1>1, <1>2

LEMMA StoreRequestInv ==
    ASSUME IXInv, NEW votes \in BOOLEAN, StoreRequest(votes)
    PROVE  IXInv'
<1> USE DEF IXInv
<1>1. /\ request.at = "accepted" /\ request' = Nothing
      /\ mapTxLockVote' \in {mapTxLockVote, mapTxLockVote \cup {<<Me, request.tx>>}}
      /\ mapTxLockReq' = Insert(mapTxLockReq, request.tx, Spends[request.tx])
      /\ UNCHANGED <<mapTxLockReqRejected, mapTxLocks, relaying, cleaning>>
  BY DEF StoreRequest
<1>2. request.tx \in LockTx
  BY <1>1, Stages
<1>3. IXTypeOK'
  BY <1>1, <1>2, InsertTyped, InstantXAssumption DEF IXTypeOK
<1>4. StagesOK' /\ RequestUndecided'
  BY <1>1 DEF StagesOK, RequestUndecided, Nothing, At
<1>5. VotesCountedOnce'
  BY <1>1, SameVotes
<1> QED
  BY <1>3, <1>4, <1>5

LEMMA RejectRequestInv == IXInv /\ RejectRequest => IXInv'
<1> SUFFICES ASSUME IXInv, RejectRequest, ~IXClear PROVE IXInv'
  BY IXClearInv
<1> USE DEF IXInv
<1>1. /\ request.at = "check" /\ request' = Nothing
      /\ mapTxLockReqRejected' = mapTxLockReqRejected \cup {request.tx}
      /\ \/ UNCHANGED mapTxLocks
         \/ \E o : mapTxLocks' = CancelBoth(mapTxLocks, request.tx, o)
      /\ UNCHANGED <<mapTxLockReq, mapTxLockVote, relaying, cleaning>>
  BY DEF RejectRequest, Reprocess, IXRestart
<1>2. request.tx \in LockTx
  BY <1>1, Stages
<1>3. LocksTyped(mapTxLocks)
  BY DEF IXTypeOK, LocksTyped
<1>4. /\ LocksTyped(mapTxLocks') /\ DOMAIN mapTxLocks' = DOMAIN mapTxLocks
      /\ \A u \in DOMAIN mapTxLocks : mapTxLocks'[u].votes = mapTxLocks[u].votes
  <2>1. CASE UNCHANGED mapTxLocks
    BY <1>3, <2>1
  <2>2. CASE \E o : mapTxLocks' = CancelBoth(mapTxLocks, request.tx, o)
    BY <1>3, <2>2, CancelBothKeeps
  <2> QED
    BY <1>1, <2>1, <2>2
<1>5. IXTypeOK'
  BY <1>1, <1>2, <1>4 DEF IXTypeOK, LocksTyped
<1>6. StagesOK'
  BY <1>1, <1>4 DEF StagesOK
<1>7. RequestUndecided'
  BY <1>1 DEF RequestUndecided, Nothing, At
<1>8. VotesCountedOnce'
  BY <1>1, <1>4, SameVotes
<1> QED
  BY <1>5, <1>6, <1>7, <1>8

\* The records with the vote counted: its masternode has no other vote there.
LEMMA VoteAdded ==
    ASSUME IXInv, NEW v \in Vote, <<v.mn, v.tx>> \notin mapTxLockVote,
           NEW locks, locks = Put(mapTxLocks, v.tx, AddSignature(v))
    PROVE  /\ LocksTyped(locks)
           /\ DOMAIN locks = DOMAIN mapTxLocks \cup {v.tx}
           /\ locks[v.tx].known => v.tx \in DOMAIN mapTxLocks /\ mapTxLocks[v.tx].known
           /\ \A u \in DOMAIN mapTxLocks \ {v.tx} : locks[u] = mapTxLocks[u]
           /\ \A u : Once(mapTxLocks, mapTxLockVote, u)
                     => Once(locks, mapTxLockVote \cup {<<v.mn, v.tx>>}, u)
<1> DEFINE old == IF v.tx \in DOMAIN mapTxLocks THEN mapTxLocks[v.tx].votes ELSE << >>
<1>1. /\ AddSignature(v) \in LockRecord /\ old \in Seq(Vote)
      /\ AddSignature(v).votes = Append(old, v)
  BY AddSignatureCounts DEF IXInv
<1>2. v.tx \in LockTx /\ v.mn \in Masternode
  BY InstantXAssumption
<1>3. /\ DOMAIN locks = DOMAIN mapTxLocks \cup {v.tx}
      /\ locks[v.tx] = AddSignature(v)
      /\ \A u \in DOMAIN mapTxLocks \ {v.tx} : locks[u] = mapTxLocks[u]
  BY DEF Put
<1>4. LocksTyped(locks)
  BY <1>1, <1>2, <1>3 DEF Put, LocksTyped, IXInv, IXTypeOK
<1>5. ASSUME NEW u \in DOMAIN locks, Once(mapTxLocks, mapTxLockVote, u)
      PROVE  /\ \A i, j \in DOMAIN locks[u].votes :
                    locks[u].votes[i].mn = locks[u].votes[j].mn => i = j
             /\ \A i \in DOMAIN locks[u].votes :
                    <<locks[u].votes[i].mn, u>> \in mapTxLockVote \cup {<<v.mn, v.tx>>}
  <2>1. CASE u # v.tx
    BY <1>3, <1>5, <2>1 DEF Once
  <2>2. CASE u = v.tx
    <3>1. \A i, j \in 1..Len(old) : old[i].mn = old[j].mn => i = j
      BY <1>5, <2>2 DEF Once
    <3>2. \A i \in 1..Len(old) : <<old[i].mn, u>> \in mapTxLockVote
      BY <1>5, <2>2 DEF Once
    <3>3. \A i \in 1..Len(old) : old[i].mn # v.mn
      BY <2>2, <3>2
    <3>4. /\ DOMAIN Append(old, v) = 1..Len(old) + 1 /\ Len(old) \in Nat
          /\ \A i \in 1..Len(old) : Append(old, v)[i] = old[i]
          /\ Append(old, v)[Len(old) + 1] = v
      BY <1>1
    <3>5. locks[u].votes = Append(old, v)
      BY <1>1, <1>3, <2>2
    <3> HIDE DEF old
    <3>6. \A i \in 1..Len(old) + 1 : i \in 1..Len(old) \/ i = Len(old) + 1
      BY <3>4
    <3>7. \A i, j \in DOMAIN Append(old, v) :
              Append(old, v)[i].mn = Append(old, v)[j].mn => i = j
      BY <3>1, <3>3, <3>4, <3>6
    <3>8. \A i \in DOMAIN Append(old, v) :
              <<Append(old, v)[i].mn, u>> \in mapTxLockVote \cup {<<v.mn, v.tx>>}
      BY <2>2, <3>2, <3>4, <3>6
    <3> QED
      BY <3>5, <3>7, <3>8
  <2> QED
    BY <2>1, <2>2
<1>6. locks[v.tx].known => v.tx \in DOMAIN mapTxLocks /\ mapTxLocks[v.tx].known
  BY <1>3 DEF AddSignature, NewLock, IXInv, IXTypeOK, LockRecord
<1> QED
  BY <1>3, <1>4, <1>5, <1>6 DEF Once

\* What a complete lock does to the maps of InstantX: the records keep their
\* votes, and a request without inputs may come to the stored ones.
LEMMA CompleteKeeps ==
    ASSUME IXInv, NEW t \in LockTx, NEW locks, LocksTyped(locks), Complete(t, locks)
    PROVE  /\ LocksTyped(mapTxLocks') /\ DOMAIN mapTxLocks' = DOMAIN locks
           /\ \A u \in DOMAIN locks : /\ mapTxLocks'[u].votes = locks[u].votes
                                      /\ mapTxLocks'[u].known = locks[u].known
           /\ mapTxLockReq' \in {mapTxLockReq, Insert(mapTxLockReq, t, {})}
<1> DEFINE inputs == IF t \in DOMAIN mapTxLockReq THEN mapTxLockReq[t] ELSE {}
<1>1. CASE Conflicts(inputs, t) # {}
  <2>1. PICK o : mapTxLocks' = CancelBoth(locks, t, o)
    BY <1>1 DEF Complete
  <2>2. UNCHANGED mapTxLockReq
    BY <1>1 DEF Complete
  <2> QED
    BY <2>1, <2>2, CancelBothKeeps
<1>2. CASE Conflicts(inputs, t) = {}
  BY <1>2 DEF Complete
<1> QED
  BY <1>1, <1>2

LEMMA ReceiveVoteInv ==
    ASSUME IXInv, NEW v \in Vote, NEW valid \in BOOLEAN, ReceiveVote(v, valid)
    PROVE  IXInv'
<1> SUFFICES ASSUME ~IXClear PROVE IXInv'
  BY IXClearInv
<1> DEFINE locks == Put(mapTxLocks, v.tx, AddSignature(v))
           complete == CountSignatures(locks[v.tx]) >= Required
<1>1. /\ <<v.mn, v.tx>> \notin mapTxLockVote
      /\ mapTxLockVote' = mapTxLockVote \cup {<<v.mn, v.tx>>}
      /\ UNCHANGED <<mapTxLockReqRejected, request, relaying, cleaning>>
      /\ CASE ~valid -> UNCHANGED <<mempoolVars, mapTxLocks, mapTxLockReq>>
           [] valid /\ ~complete -> /\ mapTxLocks' = locks
                                    /\ UNCHANGED <<mempoolVars, mapTxLockReq>>
           [] valid /\ complete -> Complete(v.tx, locks)
  BY DEF ReceiveVote, Reprocess, IXRestart
<1>2. v.tx \in LockTx /\ v.mn \in Masternode
  BY InstantXAssumption
<1>3. /\ LocksTyped(locks)
      /\ DOMAIN locks = DOMAIN mapTxLocks \cup {v.tx}
      /\ \A u : Once(mapTxLocks, mapTxLockVote, u) => Once(locks, mapTxLockVote', u)
  BY <1>1, VoteAdded
<1> HIDE DEF locks
<1>4. CASE ~valid
  <2>1. UNCHANGED <<mapTxLocks, mapTxLockReq>>
    BY <1>1, <1>4
  <2>2. IXTypeOK'
    BY <1>1, <1>2, <2>1 DEF IXInv, IXTypeOK
  <2>3. StagesOK' /\ RequestUndecided'
    BY <1>1, <2>1 DEF IXInv, StagesOK, RequestUndecided
  <2>4. VotesCountedOnce'
    BY <1>1, <2>1, SameVotes DEF IXInv
  <2> QED
    BY <2>2, <2>3, <2>4 DEF IXInv
<1>5. CASE valid
  <2>1. /\ LocksTyped(mapTxLocks') /\ DOMAIN mapTxLocks' = DOMAIN locks
        /\ \A u \in DOMAIN locks : mapTxLocks'[u].votes = locks[u].votes
        /\ mapTxLockReq' \in {mapTxLockReq, Insert(mapTxLockReq, v.tx, {})}
    <3>1. CASE complete
      <4>1. Complete(v.tx, locks)
        BY <1>1, <1>5, <3>1
      <4> QED
        BY <1>2, <1>3, <4>1, CompleteKeeps
    <3>2. CASE ~complete
      BY <1>1, <1>3, <1>5, <3>2
    <3> QED
      BY <3>1, <3>2
  <2>2. IXTypeOK'
    BY <1>1, <1>2, <2>1, InsertTyped DEF IXInv, IXTypeOK, LocksTyped
  <2>3. StagesOK'
    BY <1>1, <1>3, <2>1, CleaningKept DEF IXInv, StagesOK
  <2>4. RequestUndecided'
    BY <1>1 DEF IXInv, RequestUndecided
  <2>5. VotesCountedOnce'
    <3>1. \A u \in DOMAIN locks \ {cleaning.tx} : Once(locks, mapTxLockVote', u)
      BY <1>3 DEF Once, IXInv, VotesCountedOnce
    <3> QED
      BY <1>1, <2>1, <3>1 DEF Once, VotesCountedOnce
  <2> QED
    BY <2>2, <2>3, <2>4, <2>5 DEF IXInv
<1> QED
  BY <1>4, <1>5

LEMMA OwnRequestInv ==
    ASSUME IXInv, NEW t \in OwnTx \cap LockTx, OwnRequest(t)
    PROVE  IXInv'
<1> USE DEF IXInv
<1>1. /\ relaying' = At(t, "insert") /\ request = Nothing
      /\ UNCHANGED <<mapTxLockReq, mapTxLockReqRejected, mapTxLockVote, mapTxLocks, request,
                     cleaning>>
  BY DEF OwnRequest, MainFree
<1>2. IXTypeOK' /\ RequestUndecided' /\ VotesCountedOnce'
  BY <1>1 DEF IXTypeOK, RequestUndecided, VotesCountedOnce
<1>3. StagesOK'
  BY <1>1 DEF StagesOK
<1> QED
  BY <1>2, <1>3

LEMMA RelayRequestInv == IXInv /\ RelayRequest => IXInv'
<1> SUFFICES ASSUME IXInv, RelayRequest PROVE IXInv'
  OBVIOUS
<1> USE DEF IXInv
<1>1. /\ relaying.at = "insert" /\ relaying' \in {Nothing, At(relaying.tx, "lock")}
      /\ mapTxLockReq' \in {mapTxLockReq,
                            Insert(mapTxLockReq, relaying.tx, Spends[relaying.tx])}
      /\ UNCHANGED <<mapTxLockReqRejected, mapTxLockVote, mapTxLocks, request, cleaning>>
  BY DEF RelayRequest
<1>2. relaying.tx \in OwnTx \cap LockTx /\ request = Nothing
  BY <1>1 DEF StagesOK, Nothing, At
<1>3. IXTypeOK'
  BY <1>1, <1>2, InsertTyped DEF IXTypeOK
<1>4. StagesOK'
  BY <1>1, <1>2 DEF StagesOK
<1>5. RequestUndecided' /\ VotesCountedOnce'
  BY <1>1 DEF RequestUndecided, VotesCountedOnce
<1> QED
  BY <1>3, <1>4, <1>5

LEMMA RelayLockInv ==
    ASSUME IXInv, NEW aged \in BOOLEAN, RelayLock(aged)
    PROVE  IXInv'
<1> USE DEF IXInv
<1>1. /\ relaying.at = "lock" /\ relaying' = Nothing
      /\ mapTxLocks' = CreateNewLock(relaying.tx, aged)
      /\ UNCHANGED <<mapTxLockReq, mapTxLockReqRejected, mapTxLockVote, request, cleaning>>
  BY DEF RelayLock
<1>2. relaying.tx \in LockTx
  BY <1>1, Stages
<1>3. IXTypeOK'
  BY <1>1, <1>2, CreateNewLockKeeps DEF IXTypeOK, LocksTyped
<1>4. StagesOK'
  BY <1>1, <1>2, CreateNewLockKeeps, CleaningKept DEF StagesOK
<1>5. RequestUndecided'
  BY <1>1 DEF RequestUndecided
<1>6. VotesCountedOnce'
  BY <1>1, <1>2, CreateNewLockKeeps, SameVotes
<1> QED
  BY <1>3, <1>4, <1>5, <1>6

LEMMA ExpireInv ==
    ASSUME IXInv, NEW t \in LockTx, Expire(t)
    PROVE  IXInv'
<1> USE DEF IXInv
<1>1. /\ t \in DOMAIN mapTxLocks
      /\ mapTxLocks' = [mapTxLocks EXCEPT ![t].due = TRUE]
      /\ UNCHANGED <<mapTxLockReq, mapTxLockReqRejected, mapTxLockVote, request, relaying,
                     cleaning>>
  BY DEF Expire
<1>2. DOMAIN mapTxLocks' = DOMAIN mapTxLocks
  BY <1>1
<1>3. \A u \in DOMAIN mapTxLocks : /\ mapTxLocks'[u] \in LockRecord
                                   /\ mapTxLocks'[u].votes = mapTxLocks[u].votes
  BY <1>1 DEF IXTypeOK, LockRecord
<1>4. IXTypeOK'
  BY <1>1, <1>2, <1>3 DEF IXTypeOK
<1>5. StagesOK' /\ RequestUndecided'
  BY <1>1, <1>2 DEF StagesOK, RequestUndecided
<1>6. VotesCountedOnce'
  BY <1>1, <1>2, <1>3, SameVotes
<1> QED
  BY <1>4, <1>5, <1>6

LEMMA CleanInputsInv ==
    ASSUME IXInv, NEW t \in LockTx, CleanInputs(t)
    PROVE  IXInv'
<1> USE DEF IXInv
<1>1. /\ cleaning = Nothing /\ t \in DOMAIN mapTxLocks
      /\ cleaning' \in {At(t, "request"), At(t, "record")}
      /\ UNCHANGED <<mapTxLockReq, mapTxLockReqRejected, mapTxLockVote, mapTxLocks, request,
                     relaying>>
  BY DEF CleanInputs
<1>2. IXTypeOK' /\ RequestUndecided'
  BY <1>1 DEF IXTypeOK, RequestUndecided
<1>3. StagesOK'
  BY <1>1 DEF StagesOK
<1>4. cleaning.tx \notin DOMAIN mapTxLocks
  BY <1>1, NoTxNoLock DEF Nothing, At, IXTypeOK
<1>5. VotesCountedOnce'
  BY <1>1, <1>4, SameVotes
<1> QED
  BY <1>2, <1>3, <1>5

LEMMA CleanRequestInv == IXInv /\ CleanRequest => IXInv'
<1> SUFFICES ASSUME IXInv, CleanRequest PROVE IXInv'
  OBVIOUS
<1> USE DEF IXInv
<1>1. /\ cleaning.at = "request" /\ cleaning' = At(cleaning.tx, "votes")
      /\ mapTxLockReq' = Erase(mapTxLockReq, cleaning.tx)
      /\ mapTxLockReqRejected' \subseteq mapTxLockReqRejected
      /\ UNCHANGED <<mapTxLockVote, mapTxLocks, request, relaying>>
  BY DEF CleanRequest
<1>2. cleaning.tx \in DOMAIN mapTxLocks /\ cleaning'.tx = cleaning.tx
  BY <1>1, Stages DEF At
<1>3. IXTypeOK'
  BY <1>1 DEF IXTypeOK, Erase
<1>4. StagesOK' /\ RequestUndecided'
  BY <1>1, <1>2 DEF StagesOK, RequestUndecided
<1>5. VotesCountedOnce'
  BY <1>1, <1>2, SameVotes
<1> QED
  BY <1>3, <1>4, <1>5

LEMMA CleanVotesInv == IXInv /\ CleanVotes => IXInv'
<1> SUFFICES ASSUME IXInv, CleanVotes PROVE IXInv'
  OBVIOUS
<1> USE DEF IXInv
<1>1. /\ cleaning.at = "votes" /\ cleaning' = At(cleaning.tx, "record")
      /\ \A u, m : u # cleaning.tx => (<<m, u>> \in mapTxLockVote' <=> <<m, u>> \in mapTxLockVote)
      /\ mapTxLockVote' \subseteq mapTxLockVote
      /\ UNCHANGED <<mapTxLockReq, mapTxLockReqRejected, mapTxLocks, request, relaying>>
  BY DEF CleanVotes
<1>2. cleaning.tx \in DOMAIN mapTxLocks /\ cleaning'.tx = cleaning.tx
  BY <1>1, Stages DEF At
<1>3. IXTypeOK'
  BY <1>1 DEF IXTypeOK
<1>4. StagesOK' /\ RequestUndecided'
  BY <1>1, <1>2 DEF StagesOK, RequestUndecided
<1>5. VotesCountedOnce'
  BY <1>1, <1>2 DEF VotesCountedOnce
<1> QED
  BY <1>3, <1>4, <1>5

LEMMA CleanRecordInv == IXInv /\ CleanRecord => IXInv'
<1> SUFFICES ASSUME IXInv, CleanRecord PROVE IXInv'
  OBVIOUS
<1> USE DEF IXInv
<1>1. /\ cleaning.at = "record" /\ cleaning' = Nothing
      /\ mapTxLocks' = Erase(mapTxLocks, cleaning.tx)
      /\ UNCHANGED <<mapTxLockReq, mapTxLockReqRejected, mapTxLockVote, request, relaying>>
  BY DEF CleanRecord
<1>2. /\ DOMAIN mapTxLocks' = DOMAIN mapTxLocks \ {cleaning.tx}
      /\ \A u \in DOMAIN mapTxLocks' : mapTxLocks'[u] = mapTxLocks[u]
  BY <1>1 DEF Erase
<1>3. IXTypeOK'
  BY <1>1, <1>2 DEF IXTypeOK, Erase
<1>4. StagesOK' /\ RequestUndecided'
  BY <1>1 DEF StagesOK, RequestUndecided
<1>5. VotesCountedOnce'
  BY <1>1, <1>2, SameVotes
<1> QED
  BY <1>3, <1>4, <1>5

LEMMA CheckAndRemoveHangsInv == IXInv /\ CheckAndRemoveHangs => IXInv'
<1> SUFFICES ASSUME IXInv, CheckAndRemoveHangs PROVE IXInv'
  OBVIOUS
<1> USE DEF IXInv
<1>1. /\ cleaning = Nothing /\ cleaning' = At(NoTx, "hangs")
      /\ UNCHANGED <<mapTxLockReq, mapTxLockReqRejected, mapTxLockVote, mapTxLocks, request,
                     relaying>>
  BY DEF CheckAndRemoveHangs
<1>2. IXTypeOK' /\ StagesOK' /\ RequestUndecided'
  BY <1>1 DEF IXTypeOK, StagesOK, RequestUndecided
<1>3. VotesCountedOnce'
  BY <1>1, SameVotes DEF Nothing, At
<1> QED
  BY <1>2, <1>3

LEMMA IXNextInv == IXInv /\ [IXNext]_vars => IXInv'
<1> SUFFICES ASSUME IXInv, [IXNext]_vars PROVE IXInv'
  OBVIOUS
<1>1. CASE UNCHANGED vars
  BY <1>1, IXOtherInv DEF vars
<1>2. CASE PoolStep
  BY <1>2, IXOtherInv DEF PoolStep
<1>3. CASE IXRestart
  BY <1>3, IXClearInv DEF IXRestart
<1> QED
  BY <1>1, <1>2, <1>3, ReceiveRequestInv, AcceptRequestInv, StoreRequestInv, RejectRequestInv,
     ReceiveVoteInv, OwnRequestInv, RelayRequestInv, RelayLockInv, ExpireInv, CleanInputsInv,
     CleanRequestInv, CleanVotesInv, CleanRecordInv, CheckAndRemoveHangsInv DEF IXNext, CleanOn

\* The invariant holds in every state, wherever the clean up, which takes no
\* lock, comes between the stages of the handlers.
THEOREM IXInvariance == IXSpec => []IXInv
<1>1. IXInit => IXInv
  <2> SUFFICES ASSUME IXInit PROVE IXInv
    OBVIOUS
  <2>1. IXTypeOK
    BY DEF IXInit, IXTypeOK
  <2>2. StagesOK
    BY DEF IXInit, StagesOK
  <2>3. RequestUndecided /\ VotesCountedOnce
    BY DEF IXInit, RequestUndecided, VotesCountedOnce, Nothing, At
  <2> QED
    BY <2>1, <2>2, <2>3 DEF IXInv
<1> QED
  BY <1>1, IXNextInv, PTL DEF IXSpec

\* No masternode counts twice in a record, and every vote that counts is known
\* as seen, although the clean up forgets votes without a lock.
THEOREM NoVoteTwice == IXSpec => []VotesCountedOnce
  BY IXInvariance, PTL DEF IXInv

---------------------------------------------------------------------------
(* The pool under InstantX. *)

\* Every step of InstantX that touches the pool or the locked inputs is one that
\* Mempool has.
LEMMA PoolStepMaps ==
    ASSUME IXInv, [IXNext]_vars
    PROVE  [MempoolNext]_mempoolVars
<1>1. CASE UNCHANGED vars
  BY <1>1 DEF vars
<1>2. CASE PoolStep
  <2>1. CASE \E B \in SUBSET (Tx \ txdb) : Cardinality(B) \in 1..MaxBlockTx /\ CommitBlock(B)
    BY <2>1 DEF MempoolNext
  <2>2. CASE \E t \in OwnTx : AddOwn(t)
    BY <2>2, InstantXAssumption DEF MempoolNext
  <2> QED
    BY <1>2, <2>1, <2>2 DEF PoolStep, MempoolNext
<1>3. CASE \E t \in LockTx, aged \in BOOLEAN : ReceiveRequest(t, aged)
  BY <1>3 DEF ReceiveRequest
<1>4. CASE AcceptRequest
  <2>1. request.tx \in LockTx /\ AcceptLockRequest(request.tx)
    BY <1>4, Stages DEF AcceptRequest, IXInv
  <2> QED
    BY <2>1 DEF MempoolNext
<1>5. CASE \E votes \in BOOLEAN : StoreRequest(votes)
  BY <1>5 DEF StoreRequest
<1>6. CASE RejectRequest
  <2>1. request.tx \in LockTx /\ (Restart \/ LockInputs(Spends[request.tx], request.tx))
    BY <1>6, Stages DEF RejectRequest, Reprocess, IXRestart, IXInv
  <2> QED
    BY <2>1 DEF MempoolNext
<1>7. CASE \E v \in Vote, valid \in BOOLEAN : ReceiveVote(v, valid)
  <2>1. PICK v \in Vote, valid \in BOOLEAN : ReceiveVote(v, valid)
    BY <1>7
  <2>2. v.tx \in LockTx
    BY InstantXAssumption
  <2>3. \A locks : Complete(v.tx, locks) =>
            UNCHANGED mempoolVars \/ \E O \in SUBSET Spends[v.tx] : LockInputs(O, v.tx)
    BY <2>2 DEF Complete, IXInv, IXTypeOK
  <2>4. Restart \/ UNCHANGED mempoolVars \/ \E O \in SUBSET Spends[v.tx] : LockInputs(O, v.tx)
    BY <2>1, <2>3 DEF ReceiveVote, Reprocess, IXRestart
  <2> QED
    BY <2>2, <2>4 DEF MempoolNext
<1>8. CASE \E t \in OwnTx \cap LockTx : OwnRequest(t)
  BY <1>8, InstantXAssumption DEF OwnRequest, MempoolNext
<1>9. CASE RelayRequest \/ (\E aged \in BOOLEAN : RelayLock(aged)) \/ CheckAndRemoveHangs
  BY <1>9 DEF RelayRequest, RelayLock, CheckAndRemoveHangs
<1>10. CASE \E t \in LockTx : Expire(t) \/ CleanInputs(t)
  <2>1. PICK t \in LockTx : Expire(t) \/ CleanInputs(t)
    BY <1>10
  <2>2. UNCHANGED mempoolVars \/ \E O \in SUBSET Spends[t] : UnlockInputs(O)
    BY <2>1 DEF Expire, CleanInputs, IXInv, IXTypeOK
  <2> QED
    BY <2>1, <2>2, SpendsOutPoint, NoTxNoLock DEF MempoolNext
<1>11. CASE CleanOn
  BY <1>11 DEF CleanOn, CleanRequest, CleanVotes, CleanRecord
<1>12. CASE IXRestart
  BY <1>12 DEF IXRestart, MempoolNext
<1> QED
  BY <1>1, <1>2, <1>3, <1>4, <1>5, <1>6, <1>7, <1>8, <1>9, <1>10, <1>11, <1>12 DEF IXNext

\* InstantX with the wallet's requests and the clean up is a user of the pool
\* that Mempool allows.
THEOREM InstantXUsesPool == IXSpec => ImplementsMempool
<1>1. IXInit => MempoolInit
  BY DEF IXInit
<1> QED
  BY <1>1, PoolStepMaps, IXInvariance, PTL DEF IXSpec, ImplementsMempool, MempoolSpec

\* So the pool keeps its index exact, its orphans bounded and its parents
\* recorded under InstantX too.
THEOREM PoolSoundUnderInstantX ==
    IXSpec => [](PoolExact /\ OrphansExact /\ PoolParentsRecorded)
  BY InstantXUsesPool, PoolIndexExact, OrphansConsistent, PoolIndependent, PTL
     DEF ImplementsMempool

---------------------------------------------------------------------------
(***************************************************************************)
(* The record that the clean up takes apart.                               *)
(*                                                                         *)
(* Once its votes are forgotten, such a record may get one of them a       *)
(* second time. Nothing is locked by that: the request is gone, and it     *)
(* cannot come again, since its transaction is in the pool or in a block.  *)
(***************************************************************************)

\* Transactions that AcceptToMemoryPool takes no second time.
Held == mapTx \cup txdb

\* The request of t is accepted and about to be stored.
Pending(t) == request = At(t, "accepted") \/ relaying = At(t, "insert")

\* No votes lock an input for t, however they are counted.
Spent(t) ==
    /\ t \in Held
    /\ ~Pending(t)
    /\ t \in DOMAIN mapTxLockReq => mapTxLockReq[t] = {}

\* A stored request is of a transaction that is held, and a record that may be
\* complete is of one that is held, refused or about to be judged.
RequestsHeld ==
    /\ DOMAIN mapTxLockReq \subseteq Held
    /\ relaying.at = "lock" => relaying.tx \in Held
    /\ \A t \in DOMAIN mapTxLocks :
          mapTxLocks[t].known => t \in Held \cup mapTxLockReqRejected \/ request = At(t, "check")

\* A request that is about to be stored is not there yet, so that the clean up has
\* forgotten no votes for it.
PendingNew ==
    \A t \in LockTx : Pending(t) =>
        /\ t \in Held /\ t \notin DOMAIN mapTxLockReq
        /\ cleaning.tx = t => cleaning.at = "record"

\* The record in work still counts once, or its request locks nothing any more.
CleaningCounted ==
    LET t == cleaning.tx
        once == Once(mapTxLocks, mapTxLockVote, t)
    IN  /\ cleaning.at = "request" => t \in DOMAIN mapTxLockReq /\ once
        /\ cleaning.at = "votes" => Spent(t) /\ once
        /\ cleaning.at = "record" => Spent(t) \/ once

CleanInv == RequestsHeld /\ PendingNew /\ CleaningCounted

\* What is held stays held, but for a restart: what a block takes out of the pool
\* has its record.
LEMMA HeldGrows ==
    ASSUME redundant \subseteq txdb, [IXNext]_vars, ~IXRestart
    PROVE  Held \subseteq Held'
<1>1. CASE UNCHANGED <<txdb, mapTx>>
  BY <1>1 DEF Held
<1>2. CASE PoolStep
  <2>1. ASSUME NEW t \in Tx, ReceiveTx(t) PROVE Held \subseteq Held'
    BY <2>1 DEF ReceiveTx, Process, addUnchecked, pool, Held
  <2>2. ASSUME NEW B, CommitBlock(B) PROVE Held \subseteq Held'
    BY <2>2 DEF CommitBlock, pool, Held
  <2>3. ASSUME NEW t, AddOwn(t) \/ CheckRaw(t) \/ AddRaw(t) PROVE Held \subseteq Held'
    BY <2>3 DEF AddOwn, CheckRaw, AddRaw, addUnchecked, pool, Held
  <2>4. CASE HandlerStep
    <3>1. CASE TakeWork \/ EraseQueue
      BY <3>1 DEF TakeWork, EraseQueue, pool, Held
    <3>2. CASE TryOrphan
      BY <3>2 DEF TryOrphan, addUnchecked, pool, Held
    <3>3. CASE DeleteRedundant
      BY <3>3 DEF DeleteRedundant, remove, pool, Held
    <3> QED
      BY <2>4, <3>1, <3>2, <3>3 DEF HandlerStep
  <2> QED
    BY <1>2, <2>1, <2>2, <2>3, <2>4 DEF PoolStep
<1>3. CASE AcceptRequest \/ \E t \in OwnTx \cap LockTx : OwnRequest(t)
  BY <1>3 DEF AcceptRequest, AcceptLockRequest, OwnRequest, AddOwn, addUnchecked, Held
<1>4. ASSUME NEW t, NEW aged, ReceiveRequest(t, aged) PROVE UNCHANGED <<txdb, mapTx>>
  BY <1>4 DEF ReceiveRequest, mempoolVars, pool
<1>5. ASSUME NEW votes, StoreRequest(votes) PROVE UNCHANGED <<txdb, mapTx>>
  BY <1>5 DEF StoreRequest, mempoolVars, pool
<1>6. CASE RejectRequest
  BY <1>1, <1>6 DEF RejectRequest, Reprocess, LockInputs, pool
<1>7. ASSUME NEW v, NEW valid, ReceiveVote(v, valid) PROVE UNCHANGED <<txdb, mapTx>>
  BY <1>7 DEF ReceiveVote, Reprocess, Complete, LockInputs, mempoolVars, pool
<1>8. ASSUME NEW aged, RelayRequest \/ RelayLock(aged) \/ CheckAndRemoveHangs \/ CleanOn
      PROVE  UNCHANGED <<txdb, mapTx>>
  BY <1>8 DEF RelayRequest, RelayLock, CheckAndRemoveHangs, CleanOn, CleanRequest, CleanVotes,
              CleanRecord, mempoolVars, pool
<1>9. ASSUME NEW t, Expire(t) \/ CleanInputs(t) PROVE UNCHANGED <<txdb, mapTx>>
  BY <1>9 DEF Expire, CleanInputs, UnlockInputs, mempoolVars, pool
<1>10. CASE UNCHANGED vars
  BY <1>1, <1>10 DEF vars, mempoolVars, pool
<1> QED
  BY <1>1, <1>2, <1>3, <1>4, <1>5, <1>6, <1>7, <1>8, <1>9, <1>10 DEF IXNext

\* A step that holds more transactions and leaves the requests and the stages alone.
LEMMA SameClean ==
    ASSUME CleanInv, Held \subseteq Held',
           UNCHANGED <<mapTxLockReq, mapTxLockReqRejected, request, relaying, cleaning>>,
           \A u \in DOMAIN mapTxLocks' : mapTxLocks'[u].known =>
               u \in DOMAIN mapTxLocks /\ mapTxLocks[u].known,
           Once(mapTxLocks, mapTxLockVote, cleaning.tx)
               => Once(mapTxLocks, mapTxLockVote, cleaning.tx)'
    PROVE  CleanInv'
<1>1. RequestsHeld'
  BY DEF CleanInv, RequestsHeld
<1>2. PendingNew'
  BY DEF CleanInv, PendingNew, Pending
<1>3. CleaningCounted'
  BY DEF CleanInv, CleaningCounted, Spent, Pending
<1> QED
  BY <1>1, <1>2, <1>3 DEF CleanInv

\* Records whose votes stay, or that have none, count once as before.
LEMMA OnceKept ==
    ASSUME NEW u, mapTxLockVote \subseteq mapTxLockVote',
           u \in DOMAIN mapTxLocks' =>
               \/ mapTxLocks'[u].votes = << >>
               \/ u \in DOMAIN mapTxLocks /\ mapTxLocks'[u].votes = mapTxLocks[u].votes,
           Once(mapTxLocks, mapTxLockVote, u)
    PROVE  Once(mapTxLocks', mapTxLockVote', u)
  BY DEF Once

\* CreateNewLock lets only the transaction itself make its record known.
LEMMA CreateNewLockKnown ==
    ASSUME IXTypeOK, NEW t \in LockTx, NEW aged \in BOOLEAN,
           mapTxLocks' = CreateNewLock(t, aged), NEW u \in DOMAIN mapTxLocks',
           mapTxLocks'[u].known, u # t
    PROVE  u \in DOMAIN mapTxLocks /\ mapTxLocks[u].known
  BY DEF CreateNewLock, Put, IXTypeOK

LEMMA ReceiveRequestClean ==
    ASSUME IXInv, CleanInv, Held \subseteq Held',
           NEW t \in LockTx, NEW aged \in BOOLEAN, ReceiveRequest(t, aged)
    PROVE  CleanInv'
<1>1. /\ request = Nothing /\ relaying = Nothing /\ request' = At(t, "check")
      /\ mapTxLocks' = CreateNewLock(t, aged)
      /\ UNCHANGED <<mapTxLockReq, mapTxLockReqRejected, mapTxLockVote, relaying, cleaning>>
  BY DEF ReceiveRequest, MainFree
<1>2. \A u \in DOMAIN mapTxLocks' :
          mapTxLocks'[u].known /\ u # t => u \in DOMAIN mapTxLocks /\ mapTxLocks[u].known
  BY <1>1, CreateNewLockKnown DEF IXInv
<1>3. RequestsHeld'
  BY <1>1, <1>2 DEF CleanInv, RequestsHeld, Nothing, At
<1>4. PendingNew' /\ \A u : ~Pending(u)'
  BY <1>1 DEF PendingNew, Pending, Nothing, At
<1>5. Once(mapTxLocks, mapTxLockVote, cleaning.tx) => Once(mapTxLocks, mapTxLockVote, cleaning.tx)'
  BY <1>1, CreateNewLockKeeps, OnceKept DEF IXInv
<1>6. CleaningCounted'
  BY <1>1, <1>4, <1>5 DEF CleanInv, CleaningCounted, Spent
<1> QED
  BY <1>3, <1>4, <1>6 DEF CleanInv

\* The pool takes only what it does not hold: no votes are forgotten for that.
LEMMA NewlyHeld ==
    ASSUME IXInv, CleanInv, Held \subseteq Held', NEW t \in LockTx, t \notin Held, t \in Held',
           request = Nothing \/ request = At(t, "check"), relaying = Nothing,
           \/ request' = At(t, "accepted") /\ UNCHANGED relaying
           \/ relaying' = At(t, "insert") /\ UNCHANGED request,
           UNCHANGED <<mapTxLockReq, mapTxLockReqRejected, mapTxLockVote, mapTxLocks, cleaning>>
    PROVE  CleanInv'
<1>1. t \notin DOMAIN mapTxLockReq /\ (cleaning.tx = t => cleaning.at = "record")
  <2>1. cleaning.tx = t => cleaning.at \in {"request", "votes", "record"}
    BY NoTxNoLock DEF IXInv, StagesOK, Nothing, At
  <2> QED
    BY <2>1 DEF CleanInv, RequestsHeld, CleaningCounted, Spent
<1>2. \A u : Pending(u)' => u = t
  BY DEF Pending, Nothing, At
<1>3. RequestsHeld'
  BY DEF CleanInv, RequestsHeld, Nothing, At
<1>4. PendingNew'
  BY <1>1, <1>2 DEF PendingNew
<1>5. Spent(cleaning.tx) => Spent(cleaning.tx)'
  BY <1>2 DEF Spent
<1>6. CleaningCounted'
  BY <1>5 DEF CleanInv, CleaningCounted
<1> QED
  BY <1>3, <1>4, <1>6 DEF CleanInv

LEMMA AcceptRequestClean ==
    ASSUME IXInv, CleanInv, Held \subseteq Held', AcceptRequest
    PROVE  CleanInv'
<1>1. /\ request.at = "check" /\ request.tx \in LockTx /\ request' = At(request.tx, "accepted")
      /\ UNCHANGED <<mapTxLockReq, mapTxLockReqRejected, mapTxLockVote, mapTxLocks, relaying,
                     cleaning>>
  BY Stages DEF AcceptRequest, IXInv
<1>2. request = At(request.tx, "check") /\ relaying = Nothing
  BY <1>1 DEF IXInv, StagesOK, Nothing, At
<1>3. request.tx \notin Held /\ request.tx \in Held'
  BY DEF AcceptRequest, AcceptLockRequest, AcceptToMemoryPool, Refused, addUnchecked, Held
<1> QED
  BY <1>1, <1>2, <1>3, NewlyHeld

LEMMA OwnRequestClean ==
    ASSUME IXInv, CleanInv, Held \subseteq Held', NEW t \in OwnTx \cap LockTx, OwnRequest(t)
    PROVE  CleanInv'
<1>1. /\ request = Nothing /\ relaying = Nothing /\ relaying' = At(t, "insert")
      /\ UNCHANGED <<mapTxLockReq, mapTxLockReqRejected, mapTxLockVote, mapTxLocks, request,
                     cleaning>>
  BY DEF OwnRequest, MainFree
<1>2. t \notin Held /\ t \in Held'
  BY DEF OwnRequest, AddOwn, AcceptToMemoryPool, Refused, addUnchecked, Held
<1> QED
  BY <1>1, <1>2, NewlyHeld

\* Storing a request whose transaction was pending.
LEMMA PendingStored ==
    ASSUME IXInv, CleanInv, Held \subseteq Held', NEW t \in LockTx, Pending(t),
           mapTxLockReq' = Insert(mapTxLockReq, t, Spends[t]),
           mapTxLockVote \subseteq mapTxLockVote',
           request' = Nothing, relaying' \in {Nothing, At(t, "lock")},
           request.at # "check",
           UNCHANGED <<mapTxLockReqRejected, mapTxLocks, cleaning>>
    PROVE  CleanInv'
<1>1. /\ t \in Held /\ t \notin DOMAIN mapTxLockReq
      /\ cleaning.tx = t => cleaning.at = "record"
  BY DEF CleanInv, PendingNew
<1>2. /\ DOMAIN mapTxLockReq' = DOMAIN mapTxLockReq \cup {t}
      /\ \A u \in DOMAIN mapTxLockReq : u # t => mapTxLockReq'[u] = mapTxLockReq[u]
  BY <1>1 DEF Insert, Put
<1>3. RequestsHeld'
  BY <1>1, <1>2 DEF CleanInv, RequestsHeld, Nothing, At
<1>4. PendingNew' /\ \A u : ~Pending(u)'
  BY DEF PendingNew, Pending, Nothing, At
<1>5. Once(mapTxLocks, mapTxLockVote, cleaning.tx) => Once(mapTxLocks, mapTxLockVote, cleaning.tx)'
  BY DEF Once
<1>6. cleaning.tx # t /\ Spent(cleaning.tx) => Spent(cleaning.tx)'
  BY <1>2, <1>4 DEF Spent
<1>7. ~Spent(t)
  BY DEF Spent
<1>8. CleaningCounted'
  BY <1>1, <1>2, <1>5, <1>6, <1>7 DEF CleanInv, CleaningCounted
<1> QED
  BY <1>3, <1>4, <1>8 DEF CleanInv

LEMMA StoreRequestClean ==
    ASSUME IXInv, CleanInv, Held \subseteq Held', NEW votes \in BOOLEAN, StoreRequest(votes)
    PROVE  CleanInv'
<1>1. /\ request.at = "accepted" /\ request' = Nothing /\ request.tx \in LockTx
      /\ mapTxLockVote \subseteq mapTxLockVote'
      /\ mapTxLockReq' = Insert(mapTxLockReq, request.tx, Spends[request.tx])
      /\ UNCHANGED <<mapTxLockReqRejected, mapTxLocks, relaying, cleaning>>
  BY Stages DEF StoreRequest, IXInv
<1>2. request = At(request.tx, "accepted") /\ relaying = Nothing
  BY <1>1 DEF IXInv, StagesOK, Nothing, At
<1> QED
  BY <1>1, <1>2, PendingStored DEF Pending

LEMMA RelayRequestClean ==
    ASSUME IXInv, CleanInv, Held \subseteq Held', RelayRequest
    PROVE  CleanInv'
<1>1. /\ relaying.at = "insert" /\ relaying.tx \in LockTx
      /\ relaying = At(relaying.tx, "insert") /\ request = Nothing
  BY Stages DEF RelayRequest, IXInv, StagesOK, Nothing, At
<1>2. UNCHANGED <<mapTxLockReqRejected, mapTxLockVote, mapTxLocks, request, cleaning>>
  BY DEF RelayRequest
<1>3. CASE relaying' = Nothing /\ UNCHANGED mapTxLockReq
  <2>1. RequestsHeld'
    BY <1>2, <1>3 DEF CleanInv, RequestsHeld, Nothing, At
  <2>2. PendingNew' /\ \A u : ~Pending(u)'
    BY <1>1, <1>2, <1>3 DEF PendingNew, Pending, Nothing, At
  <2>3. CleaningCounted'
    BY <1>2, <1>3, <2>2 DEF CleanInv, CleaningCounted, Spent
  <2> QED
    BY <2>1, <2>2, <2>3 DEF CleanInv
<1>4. CASE /\ mapTxLockReq' = Insert(mapTxLockReq, relaying.tx, Spends[relaying.tx])
           /\ relaying' = At(relaying.tx, "lock")
  BY <1>1, <1>2, <1>4, PendingStored DEF Pending, Nothing, At
<1> QED
  BY <1>3, <1>4 DEF RelayRequest

LEMMA RelayLockClean ==
    ASSUME IXInv, CleanInv, Held \subseteq Held', NEW aged \in BOOLEAN, RelayLock(aged)
    PROVE  CleanInv'
<1>1. /\ relaying.at = "lock" /\ relaying.tx \in LockTx /\ relaying' = Nothing
      /\ mapTxLocks' = CreateNewLock(relaying.tx, aged)
      /\ UNCHANGED <<mapTxLockReq, mapTxLockReqRejected, mapTxLockVote, request, cleaning>>
  BY Stages DEF RelayLock, IXInv
<1>2. \A u \in DOMAIN mapTxLocks' :
          mapTxLocks'[u].known /\ u # relaying.tx
              => u \in DOMAIN mapTxLocks /\ mapTxLocks[u].known
  BY <1>1, CreateNewLockKnown DEF IXInv
<1>3. RequestsHeld'
  BY <1>1, <1>2 DEF CleanInv, RequestsHeld, Nothing, At
<1>4. PendingNew' /\ \A u : Pending(u)' => Pending(u)
  BY <1>1 DEF CleanInv, PendingNew, Pending, Nothing, At
<1>5. Once(mapTxLocks, mapTxLockVote, cleaning.tx) => Once(mapTxLocks, mapTxLockVote, cleaning.tx)'
  BY <1>1, CreateNewLockKeeps, OnceKept DEF IXInv
<1>6. CleaningCounted'
  BY <1>1, <1>4, <1>5 DEF CleanInv, CleaningCounted, Spent
<1> QED
  BY <1>3, <1>4, <1>6 DEF CleanInv

LEMMA RejectRequestClean ==
    ASSUME IXInv, CleanInv, Held \subseteq Held', RejectRequest, ~IXRestart
    PROVE  CleanInv'
<1>1. /\ request.at = "check" /\ request.tx \in LockTx /\ request' = Nothing
      /\ mapTxLockReqRejected' = mapTxLockReqRejected \cup {request.tx}
      /\ \/ UNCHANGED mapTxLocks
         \/ \E o : mapTxLocks' = CancelBoth(mapTxLocks, request.tx, o)
      /\ UNCHANGED <<mapTxLockReq, mapTxLockVote, relaying, cleaning>>
  BY Stages DEF RejectRequest, Reprocess, IXInv
<1>2. LocksTyped(mapTxLocks)
  BY DEF IXInv, IXTypeOK, LocksTyped
<1>3. /\ DOMAIN mapTxLocks' = DOMAIN mapTxLocks
      /\ \A u \in DOMAIN mapTxLocks : /\ mapTxLocks'[u].votes = mapTxLocks[u].votes
                                      /\ mapTxLocks'[u].known = mapTxLocks[u].known
  BY <1>1, <1>2, CancelBothKeeps
<1>4. \A u : request = At(u, "check") => u = request.tx
  BY DEF At
<1>5. RequestsHeld'
  BY <1>1, <1>3, <1>4 DEF CleanInv, RequestsHeld
<1>6. PendingNew' /\ \A u : Pending(u)' => Pending(u)
  BY <1>1 DEF CleanInv, PendingNew, Pending, Nothing, At
<1>7. Once(mapTxLocks, mapTxLockVote, cleaning.tx) => Once(mapTxLocks, mapTxLockVote, cleaning.tx)'
  BY <1>1, <1>3, OnceKept
<1>8. CleaningCounted'
  BY <1>1, <1>6, <1>7 DEF CleanInv, CleaningCounted, Spent
<1> QED
  BY <1>5, <1>6, <1>8 DEF CleanInv

LEMMA ReceiveVoteClean ==
    ASSUME IXInv, CleanInv, Held \subseteq Held', NEW v \in Vote, NEW valid \in BOOLEAN,
           ReceiveVote(v, valid), ~IXRestart
    PROVE  CleanInv'
<1> DEFINE t == v.tx
           locks == Put(mapTxLocks, t, AddSignature(v))
           complete == CountSignatures(locks[t]) >= Required
           unrivalled == t \notin DOMAIN mapTxLockReq \/ Conflicts(mapTxLockReq[t], t) = {}
<1>1. /\ request = Nothing /\ relaying = Nothing
      /\ <<v.mn, t>> \notin mapTxLockVote
      /\ mapTxLockVote' = mapTxLockVote \cup {<<v.mn, t>>}
      /\ UNCHANGED <<mapTxLockReqRejected, request, relaying, cleaning>>
      /\ ~(valid /\ complete /\ unrivalled /\ t \in mapTxLockReqRejected)
      /\ CASE ~valid -> UNCHANGED <<mempoolVars, mapTxLocks, mapTxLockReq>>
           [] valid /\ ~complete -> /\ mapTxLocks' = locks
                                    /\ UNCHANGED <<mempoolVars, mapTxLockReq>>
           [] valid /\ complete -> Complete(t, locks)
  BY DEF ReceiveVote, Reprocess, MainFree
<1>2. t \in LockTx
  BY InstantXAssumption
<1>3. /\ LocksTyped(locks) /\ DOMAIN locks = DOMAIN mapTxLocks \cup {t}
      /\ locks[t].known => t \in DOMAIN mapTxLocks /\ mapTxLocks[t].known
      /\ \A u \in DOMAIN mapTxLocks \ {t} : locks[u] = mapTxLocks[u]
      /\ \A u : Once(mapTxLocks, mapTxLockVote, u) => Once(locks, mapTxLockVote', u)
  BY <1>1, VoteAdded
<1>4. CASE ~valid
  <2>1. UNCHANGED <<mapTxLocks, mapTxLockReq>>
    BY <1>1, <1>4
  <2> QED
    BY <1>1, <2>1, SameClean DEF Once
<1>5. CASE valid
  <2> HIDE DEF locks
  <2>1. /\ DOMAIN mapTxLocks' = DOMAIN locks
        /\ \A u \in DOMAIN locks : /\ mapTxLocks'[u].votes = locks[u].votes
                                   /\ mapTxLocks'[u].known = locks[u].known
        /\ mapTxLockReq' \in {mapTxLockReq, Insert(mapTxLockReq, t, {})}
    <3>1. CASE complete
      <4>1. Complete(t, locks)
        BY <1>1, <1>5, <3>1
      <4> QED
        BY <1>2, <1>3, <4>1, CompleteKeeps
    <3>2. CASE ~complete
      BY <1>1, <1>5, <3>2
    <3> QED
      BY <3>1, <3>2
  <2>2. mapTxLockReq' # mapTxLockReq => t \in Held
    <3> SUFFICES ASSUME mapTxLockReq' # mapTxLockReq PROVE t \in Held
      OBVIOUS
    <3>1. complete /\ unrivalled /\ t \notin mapTxLockReqRejected
      BY <1>1, <1>5 DEF Complete
    <3>2. locks[t].known
      BY <3>1, InstantXAssumption DEF CountSignatures
    <3> QED
      BY <1>1, <1>3, <3>1, <3>2 DEF CleanInv, RequestsHeld, Nothing, At
  <2>3. /\ DOMAIN mapTxLockReq \subseteq DOMAIN mapTxLockReq'
        /\ DOMAIN mapTxLockReq' \subseteq DOMAIN mapTxLockReq \cup Held
        /\ \A u \in DOMAIN mapTxLockReq' :
              IF u \in DOMAIN mapTxLockReq THEN mapTxLockReq'[u] = mapTxLockReq[u]
                                           ELSE mapTxLockReq'[u] = {}
    BY <2>1, <2>2 DEF Insert, Put
  <2>4. \A u \in DOMAIN mapTxLocks' : mapTxLocks'[u].known =>
            u \in DOMAIN mapTxLocks /\ mapTxLocks[u].known
    BY <1>3, <2>1
  <2>5. Once(mapTxLocks, mapTxLockVote, cleaning.tx)
            => Once(mapTxLocks, mapTxLockVote, cleaning.tx)'
    <3>1. UNCHANGED cleaning
      BY <1>1
    <3>2. \A u : Once(locks, mapTxLockVote', u) => Once(mapTxLocks', mapTxLockVote', u)
      BY <2>1 DEF Once
    <3> QED
      BY <1>3, <3>1, <3>2
  <2>6. RequestsHeld'
    BY <1>1, <2>3, <2>4 DEF CleanInv, RequestsHeld
  <2>7. PendingNew' /\ \A u : ~Pending(u)'
    BY <1>1 DEF PendingNew, Pending, Nothing, At
  <2>8. Spent(cleaning.tx) => Spent(cleaning.tx)'
    BY <1>1, <2>3, <2>7 DEF Spent
  <2>9. CleaningCounted'
    BY <1>1, <2>3, <2>5, <2>8 DEF CleanInv, CleaningCounted
  <2> QED
    BY <2>6, <2>7, <2>9 DEF CleanInv
<1> QED
  BY <1>4, <1>5

LEMMA ExpireClean ==
    ASSUME IXInv, CleanInv, Held \subseteq Held', NEW t \in LockTx, Expire(t)
    PROVE  CleanInv'
<1>1. /\ mapTxLocks' = [mapTxLocks EXCEPT ![t].due = TRUE]
      /\ UNCHANGED <<mapTxLockReq, mapTxLockReqRejected, mapTxLockVote, request, relaying,
                     cleaning>>
  BY DEF Expire
<1>2. /\ DOMAIN mapTxLocks' = DOMAIN mapTxLocks
      /\ \A u \in DOMAIN mapTxLocks : /\ mapTxLocks'[u].known = mapTxLocks[u].known
                                      /\ mapTxLocks'[u].votes = mapTxLocks[u].votes
  BY <1>1 DEF IXInv, IXTypeOK, LockRecord
<1>3. Once(mapTxLocks, mapTxLockVote, cleaning.tx) => Once(mapTxLocks, mapTxLockVote, cleaning.tx)'
  BY <1>1, <1>2 DEF Once
<1> QED
  BY <1>1, <1>2, <1>3, SameClean

LEMMA CleanInputsClean ==
    ASSUME IXInv, CleanInv, Held \subseteq Held', NEW t \in LockTx, CleanInputs(t)
    PROVE  CleanInv'
<1>1. /\ cleaning = Nothing /\ t \in DOMAIN mapTxLocks
      /\ cleaning' = IF t \in DOMAIN mapTxLockReq THEN At(t, "request") ELSE At(t, "record")
      /\ UNCHANGED <<mapTxLockReq, mapTxLockReqRejected, mapTxLockVote, mapTxLocks, request,
                     relaying>>
  BY DEF CleanInputs
<1>2. Once(mapTxLocks, mapTxLockVote, t)'
  BY <1>1, NoTxNoLock DEF IXInv, VotesCountedOnce, Once, Nothing, At
<1>3. RequestsHeld'
  BY <1>1 DEF CleanInv, RequestsHeld
<1>4. PendingNew'
  BY <1>1 DEF CleanInv, PendingNew, Pending, At
<1>5. CleaningCounted'
  BY <1>1, <1>2 DEF CleaningCounted, At
<1> QED
  BY <1>3, <1>4, <1>5 DEF CleanInv

\* The request goes: its transaction is held, so it is not pending again.
LEMMA CleanRequestClean ==
    ASSUME IXInv, CleanInv, Held \subseteq Held', CleanRequest
    PROVE  CleanInv'
<1> SUFFICES ASSUME NEW t, t = cleaning.tx PROVE CleanInv'
  OBVIOUS
<1>1. /\ cleaning.at = "request" /\ cleaning' = At(t, "votes")
      /\ mapTxLockReq' = Erase(mapTxLockReq, t)
      /\ mapTxLockReqRejected' = mapTxLockReqRejected \ {t}
      /\ UNCHANGED <<mapTxLockVote, mapTxLocks, request, relaying>>
  BY DEF CleanRequest
<1>2. /\ t \in DOMAIN mapTxLockReq /\ t \in Held /\ t \in LockTx
      /\ Once(mapTxLocks, mapTxLockVote, t)
  BY <1>1 DEF CleanInv, CleaningCounted, RequestsHeld, IXInv, IXTypeOK
<1>3. ~Pending(t)
  BY <1>2 DEF CleanInv, PendingNew
<1>4. /\ DOMAIN mapTxLockReq' = DOMAIN mapTxLockReq \ {t}
      /\ cleaning'.tx = t /\ cleaning'.at = "votes"
  BY <1>1 DEF Erase, At
<1>5. RequestsHeld'
  BY <1>1, <1>2, <1>4 DEF CleanInv, RequestsHeld
<1>6. PendingNew'
  BY <1>1, <1>3, <1>4 DEF CleanInv, PendingNew, Pending
<1>7. Spent(t)'
  BY <1>1, <1>2, <1>3, <1>4 DEF Spent, Pending
<1>8. CleaningCounted'
  BY <1>1, <1>2, <1>4, <1>7 DEF CleaningCounted
<1> QED
  BY <1>5, <1>6, <1>8 DEF CleanInv

LEMMA CleanVotesClean ==
    ASSUME IXInv, CleanInv, Held \subseteq Held', CleanVotes
    PROVE  CleanInv'
<1>1. /\ cleaning.at = "votes" /\ cleaning' = At(cleaning.tx, "record")
      /\ UNCHANGED <<mapTxLockReq, mapTxLockReqRejected, mapTxLocks, request, relaying>>
  BY DEF CleanVotes
<1>2. RequestsHeld'
  BY <1>1 DEF CleanInv, RequestsHeld
<1>3. PendingNew'
  BY <1>1 DEF CleanInv, PendingNew, Pending, At
<1>4. Spent(cleaning.tx)'
  BY <1>1 DEF CleanInv, CleaningCounted, Spent, Pending, At
<1>5. CleaningCounted'
  BY <1>1, <1>4 DEF CleaningCounted, At
<1> QED
  BY <1>2, <1>3, <1>5 DEF CleanInv

LEMMA CleanEndClean ==
    ASSUME IXInv, CleanInv, Held \subseteq Held', CleanRecord \/ CheckAndRemoveHangs
    PROVE  CleanInv'
<1>1. /\ cleaning' \in {Nothing, At(NoTx, "hangs")}
      /\ mapTxLocks' \in {mapTxLocks, Erase(mapTxLocks, cleaning.tx)}
      /\ UNCHANGED <<mapTxLockReq, mapTxLockReqRejected, request, relaying>>
  BY DEF CleanRecord, CheckAndRemoveHangs
<1>2. \A u \in DOMAIN mapTxLocks' : u \in DOMAIN mapTxLocks /\ mapTxLocks'[u] = mapTxLocks[u]
  BY <1>1 DEF Erase
<1>3. RequestsHeld'
  BY <1>1, <1>2 DEF CleanInv, RequestsHeld
<1>4. PendingNew'
  BY <1>1, NoTxNoLock DEF CleanInv, PendingNew, Pending, Nothing, At
<1>5. CleaningCounted'
  BY <1>1 DEF CleaningCounted, Nothing, At
<1> QED
  BY <1>3, <1>4, <1>5 DEF CleanInv

LEMMA CleanNextInv ==
    ASSUME IXInv, CleanInv, redundant \subseteq txdb, [IXNext]_vars
    PROVE  CleanInv'
<1>1. CASE IXRestart
  BY <1>1 DEF IXRestart, IXClear, CleanInv, RequestsHeld, PendingNew, Pending, CleaningCounted,
              Nothing, At
<1>2. CASE ~IXRestart
  <2>1. Held \subseteq Held'
    BY <1>2, HeldGrows
  <2>2. CASE UNCHANGED vars \/ PoolStep
    BY <2>1, <2>2, SameClean DEF vars, PoolStep, ixVars, Once
  <2> QED
    BY <1>2, <2>1, <2>2, ReceiveRequestClean, AcceptRequestClean, StoreRequestClean,
       RejectRequestClean, ReceiveVoteClean, OwnRequestClean, RelayRequestClean, RelayLockClean,
       ExpireClean, CleanInputsClean, CleanRequestClean, CleanVotesClean, CleanEndClean
       DEF IXNext, CleanOn
<1> QED
  BY <1>1, <1>2

\* What the clean up has forgotten locks nothing.
LEMMA CleanInvariance == IXSpec => []CleanInv
<1>1. IXInit => CleanInv
  BY DEF IXInit, CleanInv, RequestsHeld, PendingNew, Pending, CleaningCounted, Nothing, At
<1>2. MempoolInv => redundant \subseteq txdb
  BY DEF MempoolInv, MempoolTypeOK
<1>3. IXInv /\ MempoolInv /\ CleanInv /\ [IXNext]_vars => CleanInv'
  BY <1>2, CleanNextInv
<1> QED
  BY <1>1, <1>3, IXInvariance, InstantXUsesPool, MempoolInvariance, PTL
     DEF IXSpec, ImplementsMempool

---------------------------------------------------------------------------
(* What a lock takes. *)

\* Where no masternode has two votes there are as many voters as votes.
LEMMA VotersCount ==
    ASSUME NEW votes \in Seq(Vote),
           \A i, j \in DOMAIN votes : votes[i].mn = votes[j].mn => i = j,
           NEW R \in SUBSET DOMAIN votes
    PROVE  Cardinality({votes[i].mn : i \in R}) = Cardinality(R)
<1> DEFINE M == {votes[i].mn : i \in R}
           f == [i \in R |-> votes[i].mn]
<1>1. IsFiniteSet(R)
  <2>1. DOMAIN votes = 1..Len(votes) /\ Len(votes) \in Nat
    OBVIOUS
  <2>2. IsFiniteSet(DOMAIN votes)
    BY <2>1, FS_Interval
  <2> QED
    BY <2>2, FS_Subset
<1>2. f \in Bijection(R, M)
  <2>1. f \in [R -> M]
    OBVIOUS
  <2>2. \A i, j \in R : f[i] = f[j] => i = j
    OBVIOUS
  <2>3. \A m \in M : \E i \in R : f[i] = m
    OBVIOUS
  <2> QED
    BY <2>1, <2>2, <2>3 DEF Bijection, Injection, Surjection, IsInjective
<1>3. ExistsBijection(R, M)
  BY <1>2 DEF ExistsBijection
<1> QED
  BY <1>1, <1>3, FS_Bijection

\* A step that adds to the locked inputs is a refused request, for that request,
\* or the vote that completes a lock, for its transaction.
LEMMA NewlyLocked ==
    ASSUME IXInv, [IXNext]_vars, NEW t \in LockTx,
           NEW o \in DOMAIN mapLockedInputs' \ DOMAIN mapLockedInputs,
           mapLockedInputs'[o] = t
    PROVE  \/ RejectRequest /\ ~IXRestart /\ t = request.tx
           \/ \E v \in Vote :
                  LET locks == Put(mapTxLocks, v.tx, AddSignature(v))
                  IN  /\ t = v.tx /\ ReceiveVote(v, TRUE)
                      /\ t \in DOMAIN mapTxLockReq /\ mapTxLockReq[t] # {}
                      /\ <<v.mn, t>> \notin mapTxLockVote
                      /\ mapTxLockVote' = mapTxLockVote \cup {<<v.mn, t>>}
                      /\ CountSignatures(locks[t]) >= Required
                      /\ mapTxLocks' = locks
<1> USE DEF mempoolVars
<1>1. ~UNCHANGED mapLockedInputs /\ ~UNCHANGED mempoolVars
  OBVIOUS
<1>2. ~Restart
  BY DEF Restart
<1>3. \A O : ~UnlockInputs(O)
  BY DEF UnlockInputs
<1>4. \A O, u : LockInputs(O, u) => t = u
  BY DEF LockInputs
<1>5. ~PoolStep
  <2>1. \A u : ~ReceiveTx(u)
    BY <1>1 DEF ReceiveTx, Process
  <2>2. \A B : ~CommitBlock(B)
    BY <1>1 DEF CommitBlock
  <2>3. \A u : ~AddOwn(u) /\ ~CheckRaw(u) /\ ~AddRaw(u)
    BY <1>1 DEF AddOwn, CheckRaw, AddRaw
  <2>4. ~HandlerStep
    BY <1>1 DEF HandlerStep, TakeWork, TryOrphan, EraseQueue, DeleteRedundant
  <2> QED
    BY <2>1, <2>2, <2>3, <2>4 DEF PoolStep
<1>6. ~AcceptRequest /\ \A u : ~OwnRequest(u)
  BY <1>1 DEF AcceptRequest, AcceptLockRequest, OwnRequest, AddOwn
<1>7. /\ \A u, aged : ~ReceiveRequest(u, aged)
      /\ \A votes : ~StoreRequest(votes)
      /\ ~RelayRequest /\ \A aged : ~RelayLock(aged)
      /\ ~CheckAndRemoveHangs /\ ~CleanOn
  BY <1>1 DEF ReceiveRequest, StoreRequest, RelayRequest, RelayLock, CheckAndRemoveHangs, CleanOn,
              CleanRequest, CleanVotes, CleanRecord
<1>8. \A u : ~Expire(u) /\ ~CleanInputs(u)
  BY <1>1, <1>3 DEF Expire, CleanInputs
<1>9. ~IXRestart
  BY <1>2 DEF IXRestart
<1>10. CASE RejectRequest
  BY <1>4, <1>9, <1>10 DEF RejectRequest, Reprocess
<1>11. CASE \E v \in Vote, valid \in BOOLEAN : ReceiveVote(v, valid)
  <2>1. PICK v \in Vote, valid \in BOOLEAN : ReceiveVote(v, valid)
    BY <1>11
  <2> DEFINE locks == Put(mapTxLocks, v.tx, AddSignature(v))
  <2>2. /\ valid /\ CountSignatures(locks[v.tx]) >= Required
        /\ Complete(v.tx, locks)
        /\ <<v.mn, v.tx>> \notin mapTxLockVote
        /\ mapTxLockVote' = mapTxLockVote \cup {<<v.mn, v.tx>>}
    BY <1>1, <1>9, <2>1 DEF ReceiveVote, Reprocess
  <2> HIDE DEF locks
  <2>3. mapTxLocks' = locks /\ t = v.tx
    BY <1>1, <1>4, <2>2 DEF Complete
  <2>4. t \in DOMAIN mapTxLockReq /\ mapTxLockReq[t] # {}
    <3>1. ~LockInputs({}, v.tx)
      BY <1>1 DEF LockInputs
    <3> QED
      BY <1>1, <2>2, <2>3, <3>1 DEF Complete
  <2> QED
    BY <2>1, <2>2, <2>3, <2>4 DEF locks
<1> QED
  BY <1>1, <1>5, <1>6, <1>7, <1>8, <1>9, <1>10, <1>11 DEF IXNext, vars

\* An input becomes locked only with a request that the pool refuses or with the
\* votes of Required different masternodes, whichever of request and votes came
\* first and whatever the clean up has removed meanwhile, of this transaction or of
\* another.
THEOREM LocksNeedVotes == IXSpec => LockNeedsVotes
<1> DEFINE New(t) == \E o \in DOMAIN mapLockedInputs' \ DOMAIN mapLockedInputs :
                         mapLockedInputs'[o] = t
           Justified(t) == \/ t \in mapTxLockReqRejected' \ mapTxLockReqRejected
                           \/ Cardinality(Voters(t)') >= Required
<1>1. IXInv /\ IXInv' /\ CleanInv /\ [IXNext]_vars
          => [\A t \in LockTx : New(t) => Justified(t)]_vars
  <2> SUFFICES ASSUME IXInv, IXInv', CleanInv, [IXNext]_vars, NEW t \in LockTx, New(t)
               PROVE  Justified(t)
    OBVIOUS
  <2>1. CASE RejectRequest /\ ~IXRestart /\ t = request.tx
    <3>1. t \in mapTxLockReqRejected' /\ t \notin mapTxLockReqRejected
      BY <2>1 DEF RejectRequest, Reprocess, IXInv, RequestUndecided
    <3> QED
      BY <3>1
  <2>2. CASE \E v \in Vote :
                 LET locks == Put(mapTxLocks, v.tx, AddSignature(v))
                 IN  /\ t = v.tx /\ ReceiveVote(v, TRUE)
                     /\ t \in DOMAIN mapTxLockReq /\ mapTxLockReq[t] # {}
                     /\ <<v.mn, t>> \notin mapTxLockVote
                     /\ mapTxLockVote' = mapTxLockVote \cup {<<v.mn, t>>}
                     /\ CountSignatures(locks[t]) >= Required
                     /\ mapTxLocks' = locks
    <3>1. /\ t \in DOMAIN mapTxLocks'
          /\ CountSignatures(mapTxLocks'[t]) >= Required
      BY <2>2 DEF Put
    <3> DEFINE votes == mapTxLocks'[t].votes
               R == {j \in DOMAIN votes : votes[j].right}
    <3>2. votes \in Seq(Vote)
      BY <3>1 DEF IXInv, IXTypeOK, LockRecord
    <3>3. Once(mapTxLocks, mapTxLockVote, t)
      <4>1. ~Spent(t)
        BY <2>2 DEF Spent
      <4>2. CASE t = cleaning.tx
        <5>1. cleaning.at \in {"request", "votes", "record"}
          BY <4>2, NoTxNoLock DEF IXInv, StagesOK, Nothing, At
        <5> QED
          BY <4>1, <4>2, <5>1 DEF CleanInv, CleaningCounted
      <4>3. CASE t # cleaning.tx
        BY <4>3 DEF IXInv, VotesCountedOnce, Once
      <4> QED
        BY <4>2, <4>3
    <3>4. \A i, j \in DOMAIN votes : votes[i].mn = votes[j].mn => i = j
      BY <2>2, <3>1, <3>3, VoteAdded DEF Once
    <3>5. Voters(t)' = {votes[i].mn : i \in R}
      BY <3>1 DEF Voters
    <3>6. CountSignatures(mapTxLocks'[t]) = Cardinality(R)
      BY <3>1, InstantXAssumption DEF CountSignatures
    <3> HIDE DEF votes
    <3>7. Cardinality({votes[i].mn : i \in R}) = Cardinality(R)
      BY <3>2, <3>4, VotersCount
    <3>8. Cardinality(Voters(t)') >= Required
      BY <3>1, <3>5, <3>6, <3>7
    <3> QED
      BY <3>8
  <2> QED
    BY <2>1, <2>2, NewlyLocked
<1> QED
  BY <1>1, IXInvariance, CleanInvariance, IXNextInv, PTL DEF IXSpec, LockNeedsVotes
=============================================================================
