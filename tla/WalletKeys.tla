----------------------------- MODULE WalletKeys -----------------------------
(***************************************************************************)
(* The keys of the wallet: the key pool, from which miners, transactions   *)
(* and RPC calls take keys, locking and unlocking, the encryption of the   *)
(* wallet, and wallet.dat, from which all of it is loaded again.           *)
(*                                                                         *)
(* cs_wallet covers a reservation with the top up before it, and all of    *)
(* EncryptWallet; keeping a key (KeepKey) takes no lock, and Lock() clears *)
(* the master key only after it has released cs_wallet. A write to         *)
(* wallet.dat survives the death of the process in the order of the writes *)
(* (the environment commits each one); a step is at most one such write.   *)
(*                                                                         *)
(* CDB::Rewrite may leave wallet.dat.rewrite behind, with or without a     *)
(* wallet.dat beside it. The next rewrite opens that file as it is and     *)
(* adds the records of the wallet to it, under DB_NOOVERWRITE.             *)
(***************************************************************************)
EXTENDS Naturals, FiniteSets

CONSTANTS
    Holder,         \* owners of a CReserveKey: miner, send dialog, RPC call
    NoHolder,       \* no owner
    PoolSize,       \* -keypool
    MaxKey          \* bound: keys that are generated

ASSUME WalletKeysAssumption ==
    /\ NoHolder \notin Holder
    /\ PoolSize \in Nat
    /\ MaxKey \in Nat

VARIABLES
    dat,            \* wallet.dat
    rewrite,        \* wallet.dat.rewrite
    mapKeys,        \* keys in memory, plain or encrypted
    fUseCrypto,
    stale,          \* the master key in memory is not that of the rewritten file
    locked,         \* vMasterKey is empty
    locking,        \* a thread is past the cs_wallet section of Lock()
    setKeyPool,     \* indexes of the pool in memory
    reserved,       \* the reservation of each holder
    owner,          \* who holds cs_wallet in ReserveKeyFromKeyPool or GetKeyFromPool
    keep,           \* the owner is in GetKeyFromPool
    topping,        \* the owner found the wallet unlocked and is in TopUpKeyPool
    newKey,         \* generated and stored, not yet in the pool; 0 for none
    encrypting,     \* how far EncryptWallet is
    made,           \* keys generated so far: keys are numbered
    handedOut,      \* keys that somebody was given for good
    unrecorded      \* those of them that were given when there was no wallet.dat

call == <<owner, keep, topping>>
memory == <<mapKeys, fUseCrypto, stale, locked, locking, setKeyPool, reserved>>
counters == <<made, handedOut, unrecorded>>
keyVars == <<dat, rewrite, memory, call, newKey, encrypting, counters>>

---------------------------------------------------------------------------

\* The records of a wallet file that matter: "key", "ckey", "mkey" and "pool". The
\* encrypted keys are those of its master key, and lost ones of another.
NewFile == [key |-> {}, ckey |-> {}, lost |-> {}, mkey |-> FALSE, pool |-> [i \in {} |-> 0]]

NoFile == [NewFile EXCEPT !.key = {0}]

NoReservation == [index |-> 0, key |-> 0]

IsLocked == fUseCrypto /\ locked

\* The lock cs_wallet is free.
WalletFree == owner = NoHolder /\ encrypting = "no"

Smallest(S) == CHOOSE i \in S : \A j \in S : i <= j

Largest(S) == CHOOSE i \in S : \A j \in S : j <= i

ErasePool(file, I) == [file EXCEPT !.pool = [i \in DOMAIN @ \ I |-> @[i]]]

WritePool(file, n, k) ==
    [file EXCEPT !.pool = [i \in DOMAIN @ \cup {n} |-> IF i = n THEN k ELSE @[i]]]

\* WriteKey, or WriteCryptedKey that CCryptoKeyStore::AddKeyPubKey comes to.
WriteKey(file, k) ==
    CASE ~fUseCrypto          -> [file EXCEPT !.key = @ \cup {k}]
      [] fUseCrypto /\ ~stale -> [file EXCEPT !.ckey = @ \cup {k}, !.key = @ \ {k}]
      [] fUseCrypto /\ stale  -> [file EXCEPT !.lost = @ \cup {k}, !.key = @ \ {k}]

\* The records of an encrypted wallet are added to a file that was left behind. Its
\* master key and its records of the pool stay.
Merge(old, file) ==
    [key |-> old.key \cup file.key, ckey |-> old.ckey,
     lost |-> old.lost \cup file.lost \cup file.ckey, mkey |-> TRUE,
     pool |-> [i \in DOMAIN old.pool \cup DOMAIN file.pool |->
                  IF i \in DOMAIN old.pool THEN old.pool[i] ELSE file.pool[i]]]

---------------------------------------------------------------------------
(***************************************************************************)
(* The key pool.                                                           *)
(***************************************************************************)

\* ReserveKeyFromKeyPool for a CReserveKey that has no key yet, or from GetKeyFromPool.
Enter(h, forGood) ==
    /\ WalletFree
    /\ reserved[h] = NoReservation
    /\ owner' = h /\ keep' = forGood /\ topping' = ~IsLocked
    /\ UNCHANGED <<dat, rewrite, memory, newKey, encrypting, counters>>

\* The key pool lacks keys: TopUpKeyPool fills it to one more than -keypool,
\* NewKeyPool, in EncryptWallet, to -keypool.
Lacking ==
    \/ owner # NoHolder /\ topping /\ Cardinality(setKeyPool) < PoolSize + 1
    \/ encrypting = "pool" /\ Cardinality(setKeyPool) < PoolSize

\* Mutant: a key of an encrypted wallet is not written.
GenerateNewKeyUnwritten ==
    /\ Lacking /\ newKey = 0
    /\ ~IsLocked /\ dat # NoFile
    /\ made < MaxKey
    /\ made' = made + 1 /\ newKey' = made + 1
    /\ mapKeys' = mapKeys \cup {made + 1}
    /\ dat' = IF fUseCrypto THEN dat ELSE WriteKey(dat, made + 1)
    /\ UNCHANGED <<rewrite, fUseCrypto, stale, locked, locking, setKeyPool, reserved, call,
                   encrypting, handedOut, unrecorded>>

GenerateNewKey ==
    /\ Lacking /\ newKey = 0
    /\ ~IsLocked /\ dat # NoFile
    /\ made < MaxKey
    /\ made' = made + 1 /\ newKey' = made + 1
    /\ mapKeys' = mapKeys \cup {made + 1}
    /\ dat' = WriteKey(dat, made + 1)
    /\ UNCHANGED <<rewrite, fUseCrypto, stale, locked, locking, setKeyPool, reserved, call,
                   encrypting, handedOut, unrecorded>>

\* The index follows the largest one in memory, so a reserved one may be used again.
AddToPool ==
    LET nEnd == IF setKeyPool = {} THEN 1 ELSE Largest(setKeyPool) + 1
    IN  /\ newKey # 0
        /\ dat' = WritePool(dat, nEnd, newKey)
        /\ setKeyPool' = setKeyPool \cup {nEnd}
        /\ newKey' = 0
        /\ UNCHANGED <<rewrite, mapKeys, fUseCrypto, stale, locked, locking, reserved, call,
                       encrypting, counters>>

\* Without wallet.dat the key is in memory only, and the call throws.
GenerateNewKeyFails ==
    /\ owner # NoHolder /\ Lacking /\ newKey = 0
    /\ ~IsLocked /\ dat = NoFile
    /\ made < MaxKey
    /\ made' = made + 1
    /\ mapKeys' = mapKeys \cup {made + 1}
    /\ owner' = NoHolder
    /\ UNCHANGED <<dat, rewrite, fUseCrypto, stale, locked, locking, setKeyPool, reserved,
                   keep, topping, newKey, encrypting, handedOut, unrecorded>>

\* GenerateNewKey finds the wallet locked in the middle of the top up and throws.
AddKeyFails ==
    /\ owner # NoHolder /\ Lacking /\ newKey = 0
    /\ IsLocked
    /\ owner' = NoHolder
    /\ UNCHANGED <<dat, rewrite, memory, keep, topping, newKey, encrypting, counters>>

\* Mutant: KeepKey leaves the record on disk.
TakeKeyRecorded ==
    LET i == Smallest(setKeyPool)
    IN  /\ owner # NoHolder /\ newKey = 0
        /\ ~Lacking
        /\ setKeyPool # {}
        /\ setKeyPool' = setKeyPool \ {i}
        /\ owner' = NoHolder
        /\ IF i \notin DOMAIN dat.pool \/ dat.pool[i] \notin mapKeys
           THEN UNCHANGED <<reserved, handedOut>>
           ELSE IF keep THEN handedOut' = handedOut \cup {dat.pool[i]} /\ UNCHANGED reserved
           ELSE /\ reserved' = [reserved EXCEPT ![owner] = [index |-> i, key |-> dat.pool[i]]]
                /\ UNCHANGED handedOut
        /\ UNCHANGED <<dat, rewrite, mapKeys, fUseCrypto, stale, locked, locking, keep, topping,
                       newKey, encrypting, made, unrecorded>>

\* The oldest key, with its record still on disk unless it is given for good
\* (KeepKey in GetKeyFromPool). Without a record, or with that of a key that is not
\* in memory, the call throws.
TakeKey ==
    LET i == Smallest(setKeyPool)
    IN  /\ owner # NoHolder /\ newKey = 0
        /\ ~Lacking
        /\ setKeyPool # {}
        /\ setKeyPool' = setKeyPool \ {i}
        /\ owner' = NoHolder
        /\ IF i \notin DOMAIN dat.pool \/ dat.pool[i] \notin mapKeys
           THEN UNCHANGED <<dat, reserved, handedOut>>
           ELSE IF keep
           THEN /\ dat' = ErasePool(dat, {i})
                /\ handedOut' = handedOut \cup {dat.pool[i]}
                /\ UNCHANGED reserved
           ELSE /\ reserved' = [reserved EXCEPT ![owner] = [index |-> i, key |-> dat.pool[i]]]
                /\ UNCHANGED <<dat, handedOut>>
        /\ UNCHANGED <<rewrite, mapKeys, fUseCrypto, stale, locked, locking, keep, topping, newKey,
                       encrypting, made, unrecorded>>

\* The pool is empty and the wallet locked: no key, or the default key.
NoKeyLeft ==
    /\ owner # NoHolder /\ newKey = 0
    /\ ~topping /\ setKeyPool = {}
    /\ owner' = NoHolder
    /\ UNCHANGED <<dat, rewrite, memory, keep, topping, newKey, encrypting, counters>>

\* KeepKey takes no lock, so it may come in the middle of EncryptWallet. It waits
\* for bitdb.cs_db, which Rewrite holds. Nobody looks whether the record was erased.
KeepKey(h) ==
    /\ reserved[h] # NoReservation
    /\ encrypting \notin {"copied", "removed"}
    /\ dat' = IF dat = NoFile THEN dat ELSE ErasePool(dat, {reserved[h].index})
    /\ handedOut' = handedOut \cup {reserved[h].key}
    /\ unrecorded' = IF dat = NoFile THEN unrecorded \cup {reserved[h].key} ELSE unrecorded
    /\ reserved' = [reserved EXCEPT ![h] = NoReservation]
    /\ UNCHANGED <<rewrite, mapKeys, fUseCrypto, stale, locked, locking, setKeyPool, call, newKey,
                   encrypting, made>>

ReturnKey(h) ==
    /\ WalletFree
    /\ reserved[h] # NoReservation
    /\ setKeyPool' = setKeyPool \cup {reserved[h].index}
    /\ reserved' = [reserved EXCEPT ![h] = NoReservation]
    /\ UNCHANGED <<dat, rewrite, mapKeys, fUseCrypto, stale, locked, locking, call, newKey,
                   encrypting, counters>>

---------------------------------------------------------------------------
(***************************************************************************)
(* Locking, encryption, restart.                                           *)
(***************************************************************************)

Unlock ==
    /\ WalletFree
    /\ IsLocked /\ ~locking
    /\ locked' = FALSE
    /\ UNCHANGED <<dat, rewrite, mapKeys, fUseCrypto, stale, locking, setKeyPool, reserved, call,
                   newKey, encrypting, counters>>

\* Lock(): under cs_wallet first (stealth addresses), then LockKeyStore without it.
LockBegin ==
    /\ WalletFree
    /\ fUseCrypto /\ ~locked /\ ~locking
    /\ locking' = TRUE
    /\ UNCHANGED <<dat, rewrite, mapKeys, fUseCrypto, stale, locked, setKeyPool, reserved, call,
                   newKey, encrypting, counters>>

LockKeyStore ==
    /\ locking /\ ~locked
    /\ locked' = TRUE
    /\ UNCHANGED <<dat, rewrite, mapKeys, fUseCrypto, stale, locking, setKeyPool, reserved, call,
                   newKey, encrypting, counters>>

LockEnd ==
    /\ locking /\ locked
    /\ locking' = FALSE
    /\ UNCHANGED <<dat, rewrite, mapKeys, fUseCrypto, stale, locked, setKeyPool, reserved, call,
                   newKey, encrypting, counters>>

\* EncryptWallet up to TxnCommit: encrypted in memory, nothing on disk yet. The
\* first start has made keys before anybody can call it (AppInit2).
EncryptKeys ==
    /\ WalletFree
    /\ ~fUseCrypto
    /\ mapKeys # {}
    /\ fUseCrypto' = TRUE /\ locked' = TRUE
    /\ encrypting' = "txn"
    /\ UNCHANGED <<dat, rewrite, mapKeys, stale, locking, setKeyPool, reserved, call, newKey,
                   counters>>

\* Mutant: the keys are written without a transaction, one at a time.
EncryptCommitEach ==
    /\ encrypting = "txn"
    /\ IF mapKeys \subseteq dat.ckey
       THEN dat' = [dat EXCEPT !.mkey = TRUE] /\ encrypting' = "erase"
       ELSE /\ \E k \in mapKeys \ dat.ckey :
                   dat' = [dat EXCEPT !.ckey = @ \cup {k}, !.key = @ \ {k}]
            /\ UNCHANGED encrypting
    /\ UNCHANGED <<rewrite, memory, call, newKey, counters>>

\* TxnCommit: the master key, every key, no plain key.
EncryptCommit ==
    /\ encrypting = "txn"
    /\ dat' = [dat EXCEPT !.ckey = mapKeys, !.key = @ \ mapKeys, !.mkey = TRUE]
    /\ encrypting' = "erase"
    /\ UNCHANGED <<rewrite, memory, call, newKey, counters>>

\* Lock, Unlock, and NewKeyPool: each record of the pool is erased by itself.
EraseOldPool ==
    /\ encrypting = "erase"
    /\ IF setKeyPool \cap DOMAIN dat.pool # {}
       THEN /\ \E i \in setKeyPool \cap DOMAIN dat.pool : dat' = ErasePool(dat, {i})
            /\ UNCHANGED <<locked, setKeyPool, encrypting>>
       ELSE /\ setKeyPool' = {} /\ locked' = FALSE
            /\ encrypting' = "pool"
            /\ UNCHANGED dat
    /\ UNCHANGED <<rewrite, mapKeys, fUseCrypto, stale, locking, reserved, call, newKey,
                   counters>>

\* The pool is full again, the wallet locked, and CDB::Rewrite has copied the
\* file, to a new one or into the one that was left behind.
RewriteCopy ==
    /\ encrypting = "pool"
    /\ newKey = 0 /\ (~Lacking \/ made = MaxKey)
    /\ locked' = TRUE
    /\ rewrite' = IF rewrite = NoFile THEN dat ELSE Merge(rewrite, dat)
    /\ stale' = (rewrite # NoFile)
    /\ encrypting' = "copied"
    /\ UNCHANGED <<dat, mapKeys, fUseCrypto, locking, setKeyPool, reserved, call, newKey,
                   counters>>

\* A failure of CDB::Rewrite is only logged: before wallet.dat is removed,
RewriteFails ==
    /\ encrypting = "copied"
    /\ encrypting' = "no"
    /\ stale' = FALSE
    /\ UNCHANGED <<dat, rewrite, mapKeys, fUseCrypto, locked, locking, setKeyPool, reserved,
                   call, newKey, counters>>

RewriteRemove ==
    /\ encrypting = "copied"
    /\ dat' = NoFile
    /\ encrypting' = "removed"
    /\ UNCHANGED <<rewrite, memory, call, newKey, counters>>

\* or after it, when the copy cannot be renamed: the process runs on without a
\* wallet.dat.
RewriteRenameFails ==
    /\ encrypting = "removed"
    /\ encrypting' = "no"
    /\ UNCHANGED <<dat, rewrite, memory, call, newKey, counters>>

RewriteRename ==
    /\ encrypting = "removed"
    /\ dat' = rewrite /\ rewrite' = NoFile
    /\ encrypting' = "no"
    /\ UNCHANGED <<memory, call, newKey, counters>>

\* The process dies, or stops, and is started again: LoadWallet. A missing
\* wallet.dat makes a new wallet; nothing looks for wallet.dat.rewrite.
Restart ==
    LET file == IF dat = NoFile THEN NewFile ELSE dat
    IN  /\ dat' = file
        /\ mapKeys' = file.key \cup file.ckey \cup file.lost
        /\ fUseCrypto' = (file.ckey \cup file.lost # {}) /\ stale' = FALSE
        /\ locked' = TRUE /\ locking' = FALSE
        /\ setKeyPool' = DOMAIN file.pool
        /\ reserved' = [h \in Holder |-> NoReservation]
        /\ owner' = NoHolder /\ keep' = FALSE /\ topping' = FALSE
        /\ newKey' = 0 /\ encrypting' = "no"
        /\ UNCHANGED <<rewrite, counters>>

---------------------------------------------------------------------------

\* After the first start: the pool was topped up and its first key became the
\* default key.
KeysInit ==
    /\ dat = [NewFile EXCEPT !.key = 1..(PoolSize + 1),
                             !.pool = [i \in 2..(PoolSize + 1) |-> i]]
    /\ rewrite = NoFile
    /\ mapKeys = 1..(PoolSize + 1) /\ setKeyPool = 2..(PoolSize + 1)
    /\ fUseCrypto = FALSE /\ stale = FALSE /\ locked = TRUE /\ locking = FALSE
    /\ reserved = [h \in Holder |-> NoReservation]
    /\ owner = NoHolder /\ keep = FALSE /\ topping = FALSE
    /\ newKey = 0 /\ encrypting = "no"
    /\ made = PoolSize + 1 /\ handedOut = {1} /\ unrecorded = {}

KeysNext ==
    \/ \E h \in Holder, forGood \in BOOLEAN : Enter(h, forGood)
    \/ GenerateNewKey \/ GenerateNewKeyFails \/ AddToPool \/ AddKeyFails \/ TakeKey \/ NoKeyLeft
    \/ \E h \in Holder : KeepKey(h) \/ ReturnKey(h)
    \/ Unlock \/ LockBegin \/ LockKeyStore \/ LockEnd
    \/ EncryptKeys \/ EncryptCommit \/ EraseOldPool
    \/ RewriteCopy \/ RewriteFails \/ RewriteRemove \/ RewriteRename \/ RewriteRenameFails
    \/ Restart

KeysSpec == KeysInit /\ [][KeysNext]_keyVars

---------------------------------------------------------------------------
(***************************************************************************)
(* Properties.                                                             *)
(***************************************************************************)

\* The keys of a file that can be used: plain ones, and encrypted ones with the
\* master key beside them.
Secrets(file) == IF file = NoFile THEN {} ELSE file.key \cup (IF file.mkey THEN file.ckey ELSE {})

Reserved == {reserved[h].key : h \in {g \in Holder : reserved[g] # NoReservation}}

\* Whoever was given a key, for good or in reserve, can count on its secret: at
\* every step of a top up, of the encryption and of the rewrite, one of the two files
\* has it. Only the merge with a wallet.dat.rewrite that was left behind breaks this,
\* for the keys of the wallet that is merged: they are in the file, but lost.
KeysRecoverable ==
    handedOut \cup Reserved \subseteq
        Secrets(dat) \cup Secrets(rewrite) \cup dat.lost \cup rewrite.lost

\* A key that was given for good never comes back, although the pool is known by
\* index only and an index may stand for another key by the time it is kept: no
\* record of the pool names it, so no restart and no merge brings it back either,
\* unless it was kept while there was no wallet.dat to erase the record from.
KeptKeysGone ==
    dat # NoFile => \A i \in DOMAIN dat.pool : dat.pool[i] \notin handedOut \ unrecorded

\* Wherever the process dies, LoadWallet accepts the file: it has plain or
\* encrypted keys and not both, encrypted ones only with a master key, and
\* every record of the pool names a key it has.
WalletLoads ==
    dat # NoFile =>
        /\ dat.key = {} \/ dat.ckey \cup dat.lost = {}
        /\ dat.ckey \cup dat.lost # {} => dat.mkey
        /\ \A i \in DOMAIN dat.pool : dat.pool[i] \in dat.key \cup dat.ckey \cup dat.lost
=============================================================================
