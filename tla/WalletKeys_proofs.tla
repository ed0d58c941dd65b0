-------------------------- MODULE WalletKeys_proofs -------------------------
(***************************************************************************)
(* The wallet file and the keys, for any number of holders, any size of    *)
(* the key pool and any number of keys: wherever the process dies, the     *)
(* file loads, every key that was given is in one of the two files, lost   *)
(* only by the merge of a rewrite that was left behind, and no key that    *)
(* was kept comes back, but one that was kept without a wallet.dat.        *)
(***************************************************************************)
EXTENDS WalletKeys, FiniteSetTheorems, TLAPS

\* Keys and indexes of the pool are numbered up to the keys that were made.
Key == 1..made

\* The keys that were given for good, and had a record that was erased.
Gone == handedOut \ unrecorded

Holding(h) == reserved[h] # NoReservation

FileOf(K) == [key : SUBSET K, ckey : SUBSET K, lost : SUBSET K, mkey : BOOLEAN,
              pool : UNION {[I -> K] : I \in SUBSET K}]

AllKeys(file) == file.key \cup file.ckey \cup file.lost

\* A file that loads and whose records forget the keys in gone. A key has one index
\* for good, in the file and in the reservations res, although an index may come to
\* stand for another key.
Good(file, K, res, gone) ==
    /\ file \in FileOf(K)
    /\ file.key = {} \/ file.ckey \cup file.lost = {}
    /\ file.ckey \cup file.lost # {} => file.mkey
    /\ \A i \in DOMAIN file.pool : file.pool[i] \in AllKeys(file) \ gone
    /\ \A i, j \in DOMAIN file.pool : file.pool[i] = file.pool[j] => i = j
    /\ \A h \in Holder : \A i \in DOMAIN file.pool :
           res[h] # NoReservation /\ file.pool[i] = res[h].key => i = res[h].index

\* The file of an encrypted wallet.
Sealed(file) == file.key = {} /\ file.mkey /\ file.ckey \cup file.lost # {}

\* wallet.dat is that of a wallet that is not encrypted, or not yet.
Unsealed == ~fUseCrypto \/ encrypting = "txn"

\* wallet.dat is that of a wallet that has not been rewritten: a wallet.dat.rewrite
\* beside it was left behind by another wallet.
Separate == ~fUseCrypto \/ encrypting \in {"txn", "erase", "pool"}

\* A copy of the wallet may still become wallet.dat. That of a wallet whose
\* wallet.dat was kept, or written again, is never looked at.
RewriteMatters == Separate \/ encrypting \in {"copied", "removed"} \/ dat = NoFile

---------------------------------------------------------------------------

\* Type correctness. No index is as high as the number of a key that is still to
\* enter the pool.
KeysTypeOK ==
    /\ made \in Nat
    /\ dat \in FileOf(Key) \cup {NoFile} /\ rewrite \in FileOf(Key) \cup {NoFile}
    /\ mapKeys \subseteq Key /\ handedOut \subseteq Key /\ unrecorded \subseteq Key
    /\ fUseCrypto \in BOOLEAN /\ stale \in BOOLEAN
    /\ locked \in BOOLEAN /\ locking \in BOOLEAN
    /\ reserved \in [Holder -> {NoReservation} \cup [index : Key, key : Key]]
    /\ owner \in Holder \cup {NoHolder} /\ keep \in BOOLEAN /\ topping \in BOOLEAN
    /\ encrypting \in {"no", "txn", "erase", "pool", "copied", "removed"}
    /\ newKey \in {0, made}
    /\ setKeyPool \subseteq (IF newKey = 0 THEN Key ELSE 1..(made - 1))

\* How EncryptWallet, the rewrite of the file and the top up exclude each other.
KeyStagesOK ==
    /\ encrypting # "no" => owner = NoHolder /\ fUseCrypto
    /\ encrypting = "copied" =>
           /\ dat # NoFile /\ rewrite # NoFile
           /\ AllKeys(dat) \subseteq AllKeys(rewrite)
    /\ encrypting = "removed" => dat = NoFile
    /\ dat = NoFile => rewrite # NoFile /\ encrypting \in {"no", "removed"}
    /\ newKey # 0 => owner # NoHolder \/ encrypting = "pool"

\* The records of wallet.dat are good, and the file is encrypted when memory is, but
\* for the time before TxnCommit. A plain one has the keys that memory has.
DatOK ==
    /\ dat # NoFile => Good(dat, Key, reserved, Gone)
    /\ Unsealed => dat # NoFile /\ dat.ckey = {} /\ dat.lost = {} /\ mapKeys = dat.key
    /\ encrypting = "txn" => mapKeys # {}
    /\ ~Unsealed /\ dat # NoFile => Sealed(dat)

\* So are those of a copy that matters. One that was left behind has nothing in
\* common with the wallet beside it.
RewriteOK ==
    rewrite # NoFile /\ RewriteMatters =>
        /\ Good(rewrite, Key, reserved, Gone)
        /\ Sealed(rewrite)
        /\ Separate => AllKeys(rewrite) \cap (AllKeys(dat) \cup Reserved) = {}

\* A key that is still to enter the pool is in wallet.dat, and nobody has it.
NewKeyOK ==
    newKey # 0 =>
        /\ dat # NoFile
        /\ newKey \in AllKeys(dat) \ (handedOut \cup Reserved)
        /\ \A i \in DOMAIN dat.pool : dat.pool[i] # newKey

\* The inductive invariant. KeptKeysGone needs one index for each key, since KeepKey
\* erases by index, and KeysRecoverable that a file has the keys of its pool.
KeysInv ==
    /\ KeysTypeOK /\ KeyStagesOK /\ DatOK /\ RewriteOK /\ NewKeyOK /\ KeysRecoverable

---------------------------------------------------------------------------
\* The smallest and the largest element of a set of naturals with a bound.
LEMMA Bounds ==
    ASSUME NEW n \in Nat, NEW S \in SUBSET (1..n), S # {}
    PROVE  Smallest(S) \in S /\ Largest(S) \in S
<1> DEFINE R == {ss \in Nat \X Nat : ss[1] < ss[2]}
<1>1. IsWellFoundedOn(R, Nat)
  BY NatLessThanWellFounded DEF OpToRel
<1>2. ASSUME NEW T \in SUBSET Nat, T # {}
      PROVE  \E i \in T : \A j \in T : i <= j
  <2>1. PICK i \in T : \A j \in T : ~(<<j, i>> \in R)
    <3> HIDE DEF R
    <3> QED
      BY <1>1, <1>2, WFMin
  <2>2. \A j \in T : j \in Nat /\ ~(j < i)
    BY <2>1
  <2> QED
    BY <2>2
<1>3. \E i \in S : \A j \in S : i <= j
  BY <1>2
<1>4. \E i \in S : \A j \in S : j <= i
  <2> DEFINE T == {n - i : i \in S}
  <2>1. T \in SUBSET Nat /\ T # {}
    <3>1. \A i \in S : n - i \in Nat
      OBVIOUS
    <3> QED
      BY <3>1
  <2>2. PICK m \in T : \A j \in T : m <= j
    <3> HIDE DEF T
    <3> QED
      BY <1>2, <2>1
  <2>3. PICK i \in S : m = n - i
    BY <2>2
  <2>4. \A j \in S : m <= n - j
    BY <2>2
  <2>5. \A j \in S : j <= i
    BY <2>3, <2>4
  <2> QED
    BY <2>5
<1> QED
  BY <1>3, <1>4 DEF Smallest, Largest

---------------------------------------------------------------------------
(* Files. *)

\* The fields of a file.
LEMMA FileFields ==
    ASSUME NEW K, NEW file \in FileOf(K)
    PROVE  /\ file.key \subseteq K /\ file.ckey \subseteq K /\ file.lost \subseteq K
           /\ file.mkey \in BOOLEAN
           /\ DOMAIN file.pool \subseteq K /\ file.pool \in [DOMAIN file.pool -> K]
           /\ AllKeys(file) \subseteq K
           /\ file = [key |-> file.key, ckey |-> file.ckey, lost |-> file.lost,
                      mkey |-> file.mkey, pool |-> file.pool]
<1>1. /\ file.key \subseteq K /\ file.ckey \subseteq K /\ file.lost \subseteq K
      /\ file.mkey \in BOOLEAN
      /\ file = [key |-> file.key, ckey |-> file.ckey, lost |-> file.lost,
                 mkey |-> file.mkey, pool |-> file.pool]
  BY DEF FileOf
<1>2. DOMAIN file.pool \subseteq K /\ file.pool \in [DOMAIN file.pool -> K]
  BY DEF FileOf
<1> QED
  BY <1>1, <1>2 DEF AllKeys

LEMMA FileMade ==
    ASSUME NEW K, NEW key \in SUBSET K, NEW ckey \in SUBSET K, NEW lost \in SUBSET K,
           NEW mkey \in BOOLEAN, NEW pool, DOMAIN pool \subseteq K, pool \in [DOMAIN pool -> K]
    PROVE  [key |-> key, ckey |-> ckey, lost |-> lost, mkey |-> mkey, pool |-> pool] \in FileOf(K)
<1>1. pool \in UNION {[I -> K] : I \in SUBSET K}
  OBVIOUS
<1> QED
  BY <1>1 DEF FileOf

\* What was a file stays one when keys are made.
LEMMA FileGrows ==
    ASSUME NEW K, NEW L, K \subseteq L
    PROVE  FileOf(K) \subseteq FileOf(L)
<1> SUFFICES ASSUME NEW file \in FileOf(K) PROVE file \in FileOf(L)
  OBVIOUS
<1>1. /\ file.key \subseteq L /\ file.ckey \subseteq L /\ file.lost \subseteq L
      /\ file.mkey \in BOOLEAN
      /\ DOMAIN file.pool \subseteq L /\ file.pool \in [DOMAIN file.pool -> K]
      /\ file = [key |-> file.key, ckey |-> file.ckey, lost |-> file.lost,
                 mkey |-> file.mkey, pool |-> file.pool]
  BY FileFields
<1>2. file.pool \in [DOMAIN file.pool -> L]
  BY <1>1
<1> QED
  BY <1>1, <1>2, FileMade

\* A new file is empty, and the stand-in for no file has a key that is never made.
LEMMA NewFileIs ==
    /\ \A K : NewFile \in FileOf(K)
    /\ NewFile.key = {} /\ NewFile.ckey = {} /\ NewFile.lost = {} /\ DOMAIN NewFile.pool = {}
    /\ NoFile.key = {0} /\ NoFile.ckey = {} /\ NoFile.lost = {} /\ DOMAIN NoFile.pool = {}
    /\ NoFile # NewFile
<1> DEFINE none == [i \in {} |-> 0]
<1>1. NewFile = [key |-> {}, ckey |-> {}, lost |-> {}, mkey |-> FALSE, pool |-> none]
  BY DEF NewFile
<1>2. \A K : DOMAIN none \subseteq K /\ none \in [DOMAIN none -> K]
  OBVIOUS
<1>3. DOMAIN none = {}
  OBVIOUS
<1> HIDE DEF none
<1>4. \A K : NewFile \in FileOf(K)
  BY <1>1, <1>2, FileMade
<1>5. /\ NewFile.key = {} /\ NewFile.ckey = {} /\ NewFile.lost = {}
      /\ NoFile.key = {0} /\ NoFile.ckey = {} /\ NoFile.lost = {}
      /\ NewFile.pool = none /\ NoFile.pool = none
  BY <1>1 DEF NoFile
<1> QED
  BY <1>3, <1>4, <1>5

LEMMA NoFileIsNone == \A n \in Nat : NoFile \notin FileOf(1..n)
<1> SUFFICES ASSUME NEW n \in Nat, NoFile \in FileOf(1..n) PROVE FALSE
  OBVIOUS
<1>1. NoFile.key \subseteq 1..n
  BY FileFields
<1> QED
  BY <1>1, NewFileIs

LEMMA ErasePoolIs ==
    ASSUME NEW K, NEW file \in FileOf(K), NEW I
    PROVE  LET new == ErasePool(file, I)
           IN  /\ new \in FileOf(K)
               /\ new.key = file.key /\ new.ckey = file.ckey /\ new.lost = file.lost
               /\ new.mkey = file.mkey
               /\ DOMAIN new.pool = DOMAIN file.pool \ I
               /\ \A i \in DOMAIN new.pool : new.pool[i] = file.pool[i]
<1> DEFINE p == [i \in DOMAIN file.pool \ I |-> file.pool[i]]
           r == [key |-> file.key, ckey |-> file.ckey, lost |-> file.lost,
                 mkey |-> file.mkey, pool |-> p]
<1>1. ErasePool(file, I) = r
  BY FileFields DEF ErasePool
<1>2. DOMAIN p \subseteq K /\ p \in [DOMAIN p -> K]
  BY FileFields
<1>3. DOMAIN p = DOMAIN file.pool \ I /\ \A i \in DOMAIN p : p[i] = file.pool[i]
  OBVIOUS
<1> HIDE DEF p
<1>4. r \in FileOf(K)
  BY <1>2, FileFields, FileMade
<1> QED
  BY <1>1, <1>3, <1>4

LEMMA WritePoolIs ==
    ASSUME NEW K, NEW file \in FileOf(K), NEW n \in K, NEW k \in K
    PROVE  LET new == WritePool(file, n, k)
           IN  /\ new \in FileOf(K)
               /\ new.key = file.key /\ new.ckey = file.ckey /\ new.lost = file.lost
               /\ new.mkey = file.mkey
               /\ DOMAIN new.pool = DOMAIN file.pool \cup {n}
               /\ \A i \in DOMAIN new.pool : new.pool[i] = IF i = n THEN k ELSE file.pool[i]
<1> DEFINE p == [i \in DOMAIN file.pool \cup {n} |-> IF i = n THEN k ELSE file.pool[i]]
           r == [key |-> file.key, ckey |-> file.ckey, lost |-> file.lost,
                 mkey |-> file.mkey, pool |-> p]
<1>1. WritePool(file, n, k) = r
  BY FileFields DEF WritePool
<1>2. DOMAIN p \subseteq K /\ p \in [DOMAIN p -> K]
  BY FileFields
<1>3. /\ DOMAIN p = DOMAIN file.pool \cup {n}
      /\ \A i \in DOMAIN p : p[i] = IF i = n THEN k ELSE file.pool[i]
  OBVIOUS
<1> HIDE DEF p
<1>4. r \in FileOf(K)
  BY <1>2, FileFields, FileMade
<1> QED
  BY <1>1, <1>3, <1>4

\* A key is written as a plain one, an encrypted one or one of a lost master key.
LEMMA WriteKeyIs ==
    ASSUME NEW K, NEW file \in FileOf(K), NEW k \in K, fUseCrypto \in BOOLEAN, stale \in BOOLEAN
    PROVE  LET new == WriteKey(file, k)
           IN  /\ new \in FileOf(K)
               /\ AllKeys(new) = AllKeys(file) \cup {k}
               /\ new.mkey = file.mkey /\ new.pool = file.pool
               /\ ~fUseCrypto => /\ new.ckey = file.ckey /\ new.lost = file.lost
                                 /\ new.key = file.key \cup {k}
               /\ fUseCrypto => /\ new.key = file.key \ {k}
                                /\ new.ckey \cup new.lost = file.ckey \cup file.lost \cup {k}
<1> DEFINE new == WriteKey(file, k)
<1>1. /\ file.key \in SUBSET K /\ file.ckey \in SUBSET K /\ file.lost \in SUBSET K
      /\ file.mkey \in BOOLEAN
      /\ DOMAIN file.pool \subseteq K /\ file.pool \in [DOMAIN file.pool -> K]
      /\ file = [key |-> file.key, ckey |-> file.ckey, lost |-> file.lost,
                 mkey |-> file.mkey, pool |-> file.pool]
  BY FileFields
<1>2. CASE ~fUseCrypto
  <2>1. new = [key |-> file.key \cup {k}, ckey |-> file.ckey, lost |-> file.lost,
               mkey |-> file.mkey, pool |-> file.pool]
    BY <1>1, <1>2 DEF WriteKey
  <2>2. new \in FileOf(K)
    BY <1>1, <2>1, FileMade
  <2> QED
    BY <1>2, <2>1, <2>2 DEF AllKeys
<1>3. CASE fUseCrypto /\ ~stale
  <2>1. new = [key |-> file.key \ {k}, ckey |-> file.ckey \cup {k}, lost |-> file.lost,
               mkey |-> file.mkey, pool |-> file.pool]
    BY <1>1, <1>3 DEF WriteKey
  <2>2. new \in FileOf(K)
    BY <1>1, <2>1, FileMade
  <2> HIDE DEF new
  <2> QED
    BY <1>3, <2>1, <2>2 DEF AllKeys, new
<1>4. CASE fUseCrypto /\ stale
  <2>1. new = [key |-> file.key \ {k}, ckey |-> file.ckey, lost |-> file.lost \cup {k},
               mkey |-> file.mkey, pool |-> file.pool]
    BY <1>1, <1>4 DEF WriteKey
  <2>2. new \in FileOf(K)
    BY <1>1, <2>1, FileMade
  <2> QED
    BY <1>4, <2>1, <2>2 DEF AllKeys
<1> QED
  BY <1>2, <1>3, <1>4

LEMMA MergeIs ==
    ASSUME NEW K, NEW old \in FileOf(K), NEW file \in FileOf(K)
    PROVE  LET new == Merge(old, file)
           IN  /\ new \in FileOf(K)
               /\ new.key = old.key \cup file.key /\ new.ckey = old.ckey
               /\ new.lost = old.lost \cup file.lost \cup file.ckey /\ new.mkey
               /\ DOMAIN new.pool = DOMAIN old.pool \cup DOMAIN file.pool
               /\ \A i \in DOMAIN new.pool :
                      new.pool[i] = IF i \in DOMAIN old.pool THEN old.pool[i] ELSE file.pool[i]
<1> DEFINE p == [i \in DOMAIN old.pool \cup DOMAIN file.pool |->
                    IF i \in DOMAIN old.pool THEN old.pool[i] ELSE file.pool[i]]
           r == [key |-> old.key \cup file.key, ckey |-> old.ckey,
                 lost |-> old.lost \cup file.lost \cup file.ckey, mkey |-> TRUE, pool |-> p]
<1>1. Merge(old, file) = r
  BY DEF Merge
<1>2. DOMAIN p \subseteq K /\ p \in [DOMAIN p -> K]
  BY FileFields
<1>3. /\ DOMAIN p = DOMAIN old.pool \cup DOMAIN file.pool
      /\ \A i \in DOMAIN p :
             p[i] = IF i \in DOMAIN old.pool THEN old.pool[i] ELSE file.pool[i]
  OBVIOUS
<1> HIDE DEF p
<1>4. r \in FileOf(K)
  <2>1. /\ old.key \cup file.key \in SUBSET K /\ old.ckey \in SUBSET K
        /\ old.lost \cup file.lost \cup file.ckey \in SUBSET K
    BY FileFields
  <2> QED
    BY <1>2, <2>1, FileMade
<1> QED
  BY <1>1, <1>3, <1>4

\* Every key of a good file can be used, but those of another master key.
LEMMA SecretsOfGood ==
    ASSUME NEW n \in Nat, NEW file \in FileOf(1..n), file.ckey \cup file.lost # {} => file.mkey
    PROVE  Secrets(file) \cup file.lost = AllKeys(file)
  BY NoFileIsNone DEF Secrets, AllKeys

LEMMA SecretsOfNone == Secrets(NoFile) \cup NoFile.lost = {}
  BY NewFileIs DEF Secrets

\* A good file stays good when records leave it, and whoever reserves or is given a
\* key takes the record or erases it.
LEMMA GoodStays ==
    ASSUME NEW K, NEW L, NEW res, NEW new, NEW gone, NEW given, NEW f, NEW g,
           Good(f, K, res, gone), g \in FileOf(L),
           g.key = {} \/ g.ckey \cup g.lost = {},
           g.ckey \cup g.lost # {} => g.mkey,
           AllKeys(f) \subseteq AllKeys(g),
           DOMAIN g.pool \subseteq DOMAIN f.pool,
           \A i \in DOMAIN g.pool : g.pool[i] = f.pool[i] /\ g.pool[i] \notin given \ gone,
           \A h \in Holder : \A i \in DOMAIN g.pool :
               new[h] # NoReservation /\ g.pool[i] = new[h].key =>
                   new[h] = res[h] \/ i = new[h].index
    PROVE  Good(g, L, new, given)
<1>1. \A i \in DOMAIN g.pool : g.pool[i] \in AllKeys(g) \ given
  BY DEF Good
<1>2. \A i, j \in DOMAIN g.pool : g.pool[i] = g.pool[j] => i = j
  BY DEF Good
<1>3. ASSUME NEW h \in Holder, NEW i \in DOMAIN g.pool,
             new[h] # NoReservation, g.pool[i] = new[h].key
      PROVE  i = new[h].index
  <2>1. CASE new[h] = res[h]
    BY <1>3, <2>1 DEF Good
  <2> QED
    BY <1>3, <2>1
<1> QED
  BY <1>1, <1>2, <1>3 DEF Good

---------------------------------------------------------------------------
(* Steps that take records from the pool or leave the file as it is. *)

\* What the invariant says of the two files.
LEMMA FileFacts ==
    ASSUME KeysInv
    PROVE  /\ made \in Nat /\ NoFile \notin FileOf(Key)
           /\ dat # NoFile => /\ dat \in FileOf(Key) /\ Good(dat, Key, reserved, Gone)
                              /\ Secrets(dat) \cup dat.lost = AllKeys(dat)
           /\ rewrite # NoFile => rewrite \in FileOf(Key)
           /\ rewrite # NoFile /\ RewriteMatters =>
                  /\ Good(rewrite, Key, reserved, Gone)
                  /\ Secrets(rewrite) \cup rewrite.lost = AllKeys(rewrite)
<1>1. made \in Nat /\ NoFile \notin FileOf(Key)
  BY NoFileIsNone DEF KeysInv, KeysTypeOK, Key
<1>2. /\ dat # NoFile => dat \in FileOf(Key) /\ Good(dat, Key, reserved, Gone)
      /\ rewrite # NoFile => rewrite \in FileOf(Key)
      /\ rewrite # NoFile /\ RewriteMatters => Good(rewrite, Key, reserved, Gone)
  BY DEF KeysInv, KeysTypeOK, DatOK, RewriteOK
<1>3. ASSUME NEW file \in FileOf(Key), Good(file, Key, reserved, Gone)
      PROVE  Secrets(file) \cup file.lost = AllKeys(file)
  BY <1>1, <1>3, SecretsOfGood DEF Good, Key
<1> QED
  BY <1>1, <1>2, <1>3

\* Records only go, a reservation is an old one or of a record that there was, and
\* what is given for good has no record any more. The copy is not touched.
LEMMA FewerRecords ==
    ASSUME KeysInv, KeysTypeOK', KeyStagesOK', UNCHANGED <<rewrite, fUseCrypto>>,
           made <= made', newKey' \in {0, newKey},
           Unsealed' = Unsealed, encrypting' = "txn" => mapKeys' # {},
           Unsealed => UNCHANGED mapKeys,
           Separate' => Separate, RewriteMatters' => RewriteMatters,
           dat = NoFile => dat' = NoFile,
           dat # NoFile =>
               /\ dat' # NoFile
               /\ dat'.key = dat.key /\ dat'.ckey = dat.ckey /\ dat'.lost = dat.lost
               /\ dat'.mkey = dat.mkey
               /\ DOMAIN dat'.pool \subseteq DOMAIN dat.pool
               /\ \A i \in DOMAIN dat'.pool : /\ dat'.pool[i] = dat.pool[i]
                                              /\ dat'.pool[i] \notin handedOut' \ handedOut,
           \A h \in Holder : Holding(h)' =>
               \/ reserved'[h] = reserved[h]
               \/ dat # NoFile /\ \E i \in DOMAIN dat.pool :
                                      reserved'[h] = [index |-> i, key |-> dat.pool[i]],
           \A k \in handedOut' \ handedOut :
               \/ k \in Reserved
               \/ dat # NoFile /\ \E i \in DOMAIN dat.pool : k = dat.pool[i],
           handedOut \subseteq handedOut', unrecorded \subseteq unrecorded',
           dat = NoFile => handedOut' \ handedOut \subseteq unrecorded',
           encrypting \in {"copied", "removed"} =>
               UNCHANGED <<handedOut, reserved>>
    PROVE  KeysInv'
<1>1. /\ made \in Nat /\ made' \in Nat /\ Key \subseteq Key'
      /\ FileOf(Key) \subseteq FileOf(Key')
  <2>1. made \in Nat /\ made' \in Nat
    BY FileFacts DEF KeysTypeOK
  <2>2. Key \subseteq Key'
    BY <2>1 DEF Key
  <2> QED
    BY <2>1, <2>2, FileGrows
<1>2. /\ AllKeys(dat') = AllKeys(dat)
      /\ Secrets(dat') = Secrets(dat) /\ dat'.lost = dat.lost
  BY DEF AllKeys, Secrets
<1>3. Reserved' \subseteq Reserved \cup (IF dat = NoFile THEN {} ELSE AllKeys(dat))
  <2> SUFFICES ASSUME NEW k \in Reserved', k \notin Reserved
               PROVE  dat # NoFile /\ k \in AllKeys(dat)
    OBVIOUS
  <2>1. PICK h \in Holder : Holding(h)' /\ k = reserved'[h].key
    BY DEF Reserved, Holding
  <2>2. reserved'[h] # reserved[h]
    BY <2>1 DEF Reserved, Holding
  <2>3. dat # NoFile
    BY <2>1, <2>2
  <2>4. PICK i \in DOMAIN dat.pool : reserved'[h] = [index |-> i, key |-> dat.pool[i]]
    BY <2>1, <2>2
  <2>5. k = dat.pool[i]
    BY <2>1, <2>4
  <2> QED
    BY <2>3, <2>5, FileFacts DEF Good
<1>4. handedOut' \subseteq handedOut \cup Reserved \cup
                           (IF dat = NoFile THEN {} ELSE AllKeys(dat))
  BY FileFacts DEF Good
<1>5. DatOK'
  <2>1. ASSUME dat' # NoFile PROVE Good(dat', Key', reserved', Gone')
    <3>1. /\ dat # NoFile /\ Good(dat, Key, reserved, Gone)
          /\ dat' \in FileOf(Key')
      BY <2>1, FileFacts DEF KeysTypeOK
    <3>2. /\ dat'.key = {} \/ dat'.ckey \cup dat'.lost = {}
          /\ dat'.ckey \cup dat'.lost # {} => dat'.mkey
          /\ AllKeys(dat) \subseteq AllKeys(dat')
      BY <1>2, <3>1 DEF Good
    <3>3. /\ DOMAIN dat'.pool \subseteq DOMAIN dat.pool
          /\ \A i \in DOMAIN dat'.pool : /\ dat'.pool[i] = dat.pool[i]
                                         /\ dat'.pool[i] \notin Gone' \ Gone
      BY <3>1 DEF Gone
    <3>4. \A h \in Holder : \A i \in DOMAIN dat'.pool :
              reserved'[h] # NoReservation /\ dat'.pool[i] = reserved'[h].key =>
                  reserved'[h] = reserved[h] \/ i = reserved'[h].index
      <4> SUFFICES ASSUME NEW h \in Holder, NEW i \in DOMAIN dat'.pool, Holding(h)',
                          dat'.pool[i] = reserved'[h].key, reserved'[h] # reserved[h]
                   PROVE  i = reserved'[h].index
        BY DEF Holding
      <4>1. PICK j \in DOMAIN dat.pool : reserved'[h] = [index |-> j, key |-> dat.pool[j]]
        OBVIOUS
      <4>2. i \in DOMAIN dat.pool /\ dat.pool[i] = dat.pool[j]
        BY <3>3, <4>1
      <4> QED
        BY <3>1, <4>1, <4>2 DEF Good
    <3> QED
      BY <3>1, <3>2, <3>3, <3>4, GoodStays
  <2>2. Unsealed' =>
            dat' # NoFile /\ dat'.ckey = {} /\ dat'.lost = {} /\ mapKeys' = dat'.key
    BY DEF KeysInv, DatOK
  <2>3. ~Unsealed' /\ dat' # NoFile => Sealed(dat')
    BY DEF KeysInv, DatOK, Sealed
  <2> QED
    BY <2>1, <2>2, <2>3 DEF DatOK
<1>6. ASSUME rewrite' # NoFile, RewriteMatters'
      PROVE  /\ Good(rewrite', Key', reserved', Gone')
             /\ Sealed(rewrite')
             /\ Separate' => AllKeys(rewrite') \cap (AllKeys(dat') \cup Reserved') = {}
  <2>1. /\ rewrite' = rewrite /\ Good(rewrite, Key, reserved, Gone) /\ Sealed(rewrite)
        /\ rewrite \in FileOf(Key')
        /\ Separate => AllKeys(rewrite) \cap (AllKeys(dat) \cup Reserved) = {}
    BY <1>1, <1>6, FileFacts DEF KeysInv, RewriteOK
  <2>2. \A i \in DOMAIN rewrite.pool : rewrite.pool[i] \notin Gone' \ Gone
    <3>1. CASE Separate
      BY <1>4, <2>1, <3>1 DEF Good, Gone
    <3>2. CASE ~Separate
      <4>1. encrypting \in {"copied", "removed"} \/ dat = NoFile
        BY <1>6, <3>2 DEF RewriteMatters
      <4> QED
        BY <4>1 DEF Gone
    <3> QED
      BY <3>1, <3>2
  <2>3. \A h \in Holder : \A i \in DOMAIN rewrite.pool :
            reserved'[h] # NoReservation /\ rewrite.pool[i] = reserved'[h].key =>
                reserved'[h] = reserved[h] \/ i = reserved'[h].index
    <3> SUFFICES ASSUME NEW h \in Holder, NEW i \in DOMAIN rewrite.pool, Holding(h)',
                        rewrite.pool[i] = reserved'[h].key, reserved'[h] # reserved[h]
                 PROVE  FALSE
      BY DEF Holding
    <3>1. dat # NoFile
      OBVIOUS
    <3>2. reserved'[h].key \in AllKeys(dat) /\ rewrite.pool[i] \in AllKeys(rewrite)
      <4>1. PICK j \in DOMAIN dat.pool : reserved'[h] = [index |-> j, key |-> dat.pool[j]]
        OBVIOUS
      <4>2. reserved'[h].key = dat.pool[j]
        BY <4>1
      <4> QED
        BY <2>1, <3>1, <4>2, FileFacts DEF Good
    <3>3. Separate
      BY <1>6, <3>1 DEF RewriteMatters
    <3> QED
      BY <2>1, <3>2, <3>3
  <2>4. Good(rewrite, Key', reserved', Gone')
    <3>1. /\ rewrite.key = {} \/ rewrite.ckey \cup rewrite.lost = {}
          /\ rewrite.ckey \cup rewrite.lost # {} => rewrite.mkey
      BY <2>1 DEF Good
    <3> QED
      BY <2>1, <2>2, <2>3, <3>1, GoodStays
  <2>5. Separate => AllKeys(rewrite) \cap (AllKeys(dat) \cup Reserved') = {}
    BY <1>3, <2>1
  <2> QED
    BY <1>2, <2>1, <2>4, <2>5
<1>7. NewKeyOK'
  <2> SUFFICES ASSUME newKey' # 0
               PROVE  /\ dat' # NoFile
                      /\ newKey' \in AllKeys(dat') \ (handedOut' \cup Reserved')
                      /\ \A i \in DOMAIN dat'.pool : dat'.pool[i] # newKey'
    BY DEF NewKeyOK
  <2>1. /\ newKey' = newKey /\ dat # NoFile
        /\ newKey \in AllKeys(dat) \ (handedOut \cup Reserved)
        /\ \A i \in DOMAIN dat.pool : dat.pool[i] # newKey
    BY DEF KeysInv, NewKeyOK
  <2>2. newKey \notin Reserved'
    <3> SUFFICES ASSUME NEW h \in Holder, Holding(h)', newKey = reserved'[h].key
                 PROVE  FALSE
      BY DEF Reserved, Holding
    <3>1. reserved'[h] # reserved[h]
      BY <2>1 DEF Reserved, Holding
    <3>2. PICK i \in DOMAIN dat.pool : reserved'[h] = [index |-> i, key |-> dat.pool[i]]
      BY <3>1
    <3>3. newKey = dat.pool[i]
      BY <3>2
    <3> QED
      BY <2>1, <3>3
  <2>3. newKey \notin handedOut'
    BY <2>1
  <2> QED
    BY <1>2, <2>1, <2>2, <2>3
<1>8. KeysRecoverable'
  <2>1. dat # NoFile => AllKeys(dat) = Secrets(dat) \cup dat.lost
    BY FileFacts
  <2>2. handedOut' \cup Reserved' \subseteq
            handedOut \cup Reserved \cup Secrets(dat) \cup dat.lost
    BY <1>3, <1>4, <2>1
  <2>3. Secrets(rewrite') = Secrets(rewrite)
    BY DEF Secrets
  <2> QED
    BY <1>2, <2>2, <2>3 DEF KeysInv, KeysRecoverable
<1> QED
  BY <1>5, <1>6, <1>7, <1>8 DEF KeysInv, RewriteOK

\* Neither file is written, and nothing is given.
LEMMA SameFiles ==
    ASSUME KeysInv, KeysTypeOK', KeyStagesOK',
           UNCHANGED <<dat, rewrite, fUseCrypto, handedOut, unrecorded>>,
           made <= made', newKey' \in {0, newKey},
           Unsealed' = Unsealed, encrypting' = "txn" => mapKeys' # {},
           Unsealed => UNCHANGED mapKeys,
           Separate' => Separate, RewriteMatters' => RewriteMatters,
           \A h \in Holder : Holding(h)' => reserved'[h] = reserved[h],
           encrypting \in {"copied", "removed"} => UNCHANGED reserved
    PROVE  KeysInv'
  BY FewerRecords

\* Nor is a stage of the encryption passed, or a key made.
LEMMA SameStage ==
    ASSUME KeysInv, KeysTypeOK', KeyStagesOK',
           UNCHANGED <<dat, rewrite, mapKeys, fUseCrypto, encrypting, newKey, made,
                       handedOut, unrecorded>>,
           \A h \in Holder : Holding(h)' => reserved'[h] = reserved[h],
           encrypting \in {"copied", "removed"} => UNCHANGED reserved
    PROVE  KeysInv'
<1>1. /\ Unsealed' = Unsealed /\ Separate' = Separate /\ RewriteMatters' = RewriteMatters
      /\ encrypting' = "txn" => mapKeys' # {}
      /\ made <= made'
  BY DEF Unsealed, Separate, RewriteMatters, KeysInv, DatOK, KeysTypeOK
<1> QED
  BY <1>1, SameFiles

\* Keys are the same set as long as none is made.
LEMMA NoKeyMade == ASSUME made' = made PROVE Key' = Key
  BY DEF Key

LEMMA EnterInv ==
    ASSUME KeysInv, NEW h \in Holder, NEW forGood \in BOOLEAN, Enter(h, forGood)
    PROVE  KeysInv'
<1> USE DEF Enter, WalletFree, IsLocked, memory, counters
<1>1. KeysTypeOK'
  BY NoKeyMade DEF KeysInv, KeysTypeOK
<1>2. KeyStagesOK'
  BY WalletKeysAssumption DEF KeysInv, KeyStagesOK
<1> QED
  BY <1>1, <1>2, SameStage

LEMMA LeaveInv ==
    ASSUME KeysInv, AddKeyFails \/ NoKeyLeft
    PROVE  KeysInv'
<1> USE DEF AddKeyFails, NoKeyLeft, memory, counters
<1>1. KeysTypeOK'
  BY NoKeyMade DEF KeysInv, KeysTypeOK
<1>2. KeyStagesOK'
  BY DEF KeysInv, KeyStagesOK
<1> QED
  BY <1>1, <1>2, SameStage

LEMMA ReturnKeyInv ==
    ASSUME KeysInv, NEW h \in Holder, ReturnKey(h)
    PROVE  KeysInv'
<1> USE DEF ReturnKey, WalletFree, call, counters
<1>1. newKey = 0 /\ reserved[h] \in [index : Key, key : Key]
  BY DEF KeysInv, KeyStagesOK, KeysTypeOK
<1>2. reserved' \in [Holder -> {NoReservation} \cup [index : Key, key : Key]]
  BY DEF KeysInv, KeysTypeOK
<1>3. KeysTypeOK'
  BY <1>1, <1>2, NoKeyMade DEF KeysInv, KeysTypeOK
<1>4. KeyStagesOK'
  BY DEF KeysInv, KeyStagesOK
<1>5. \A g \in Holder : Holding(g)' => reserved'[g] = reserved[g]
  BY DEF KeysInv, KeysTypeOK, Holding
<1>6. encrypting = "no"
  OBVIOUS
<1> QED
  BY <1>3, <1>4, <1>5, <1>6, SameStage

LEMMA LockingInv ==
    ASSUME KeysInv, Unlock \/ LockBegin \/ LockKeyStore \/ LockEnd
    PROVE  KeysInv'
<1> USE DEF Unlock, LockBegin, LockKeyStore, LockEnd, call, counters
<1>1. KeysTypeOK'
  BY NoKeyMade DEF KeysInv, KeysTypeOK
<1>2. KeyStagesOK'
  BY DEF KeysInv, KeyStagesOK
<1> QED
  BY <1>1, <1>2, SameStage

LEMMA GenerateNewKeyFailsInv ==
    ASSUME KeysInv, GenerateNewKeyFails
    PROVE  KeysInv'
<1> USE DEF GenerateNewKeyFails
<1>1. made \in Nat /\ made' = made + 1 /\ Key \subseteq Key' /\ made' \in Key'
  BY FileFacts DEF Key
<1>2. FileOf(Key) \subseteq FileOf(Key')
  BY <1>1, FileGrows
<1>3. reserved' \in [Holder -> {NoReservation} \cup [index : Key', key : Key']]
  <2>1. [index : Key, key : Key] \subseteq [index : Key', key : Key']
    BY <1>1
  <2>2. reserved \in [Holder -> {NoReservation} \cup [index : Key, key : Key]]
    BY DEF KeysInv, KeysTypeOK
  <2> QED
    BY <2>1, <2>2
<1>4. KeysTypeOK'
  <2>1. /\ dat' \in FileOf(Key') \cup {NoFile} /\ rewrite' \in FileOf(Key') \cup {NoFile}
        /\ mapKeys' \subseteq Key' /\ handedOut' \subseteq Key' /\ unrecorded' \subseteq Key'
        /\ setKeyPool' \subseteq Key'
    BY <1>1, <1>2 DEF KeysInv, KeysTypeOK
  <2>2. newKey' = 0 /\ made' \in Nat
    BY <1>1
  <2>3. /\ owner' \in Holder \cup {NoHolder}
        /\ UNCHANGED <<fUseCrypto, stale, locked, locking, keep, topping, encrypting>>
    OBVIOUS
  <2> HIDE DEF GenerateNewKeyFails
  <2> QED
    BY <1>3, <2>1, <2>2, <2>3 DEF KeysInv, KeysTypeOK
<1>5. KeyStagesOK'
  BY DEF KeysInv, KeyStagesOK
<1>6. /\ ~Unsealed /\ Unsealed' = Unsealed /\ Separate' = Separate
      /\ RewriteMatters' = RewriteMatters /\ encrypting \notin {"copied", "removed", "txn"}
  BY DEF KeysInv, KeyStagesOK, DatOK, Unsealed, Separate, RewriteMatters
<1>7. /\ UNCHANGED <<dat, rewrite, fUseCrypto, handedOut, unrecorded, newKey, reserved,
                     encrypting>>
      /\ made <= made'
  BY <1>1
<1> HIDE DEF GenerateNewKeyFails
<1> QED
  BY <1>4, <1>5, <1>6, <1>7, SameFiles

---------------------------------------------------------------------------
LEMMA EncryptKeysInv ==
    ASSUME KeysInv, EncryptKeys
    PROVE  KeysInv'
<1> USE DEF EncryptKeys, WalletFree, call, counters
<1>1. KeysTypeOK'
  BY NoKeyMade DEF KeysInv, KeysTypeOK
<1>2. dat # NoFile
  BY DEF KeysInv, DatOK, Unsealed
<1>3. KeyStagesOK'
  BY <1>2 DEF KeysInv, KeyStagesOK
<1>4. UNCHANGED <<rewrite, dat, mapKeys, newKey, made, handedOut, unrecorded, reserved>>
      /\ encrypting = "no" /\ made <= made'
  BY DEF KeysInv, KeysTypeOK
<1>5. Unsealed /\ Separate /\ RewriteMatters /\ Unsealed' /\ mapKeys' # {}
  BY DEF Unsealed, Separate, RewriteMatters
<1>6. DatOK'
  BY <1>4, <1>5, NoKeyMade DEF KeysInv, DatOK, Good, Gone
<1>7. RewriteOK'
  BY <1>4, <1>5, NoKeyMade DEF KeysInv, RewriteOK, Good, Gone, Reserved
<1>8. NewKeyOK' /\ KeysRecoverable'
  BY <1>4 DEF KeysInv, NewKeyOK, KeysRecoverable, Reserved, Secrets
<1> QED
  BY <1>1, <1>3, <1>6, <1>7, <1>8 DEF KeysInv

LEMMA RewriteFailsInv ==
    ASSUME KeysInv, RewriteFails \/ RewriteRenameFails
    PROVE  KeysInv'
<1> USE DEF RewriteFails, RewriteRenameFails, call, memory, counters
<1>1. KeysTypeOK'
  BY NoKeyMade DEF KeysInv, KeysTypeOK
<1>2. KeyStagesOK'
  BY DEF KeysInv, KeyStagesOK
<1>3. encrypting' = "no" /\ fUseCrypto /\ fUseCrypto'
  BY DEF KeysInv, KeyStagesOK
<1>4. /\ ~Unsealed /\ ~Unsealed' /\ ~Separate'
      /\ RewriteMatters' => RewriteMatters /\ encrypting \in {"copied", "removed"}
  BY <1>3 DEF Unsealed, Separate, RewriteMatters
<1>5. UNCHANGED <<dat, rewrite, fUseCrypto, handedOut, unrecorded, newKey, made, reserved>>
      /\ made <= made'
  BY DEF KeysInv, KeysTypeOK
<1> HIDE DEF RewriteFails, RewriteRenameFails
<1>6. Unsealed' = Unsealed
  BY <1>4 DEF Unsealed
<1> QED
  BY <1>1, <1>2, <1>3, <1>4, <1>5, <1>6, SameFiles

\* A record of wallet.dat is erased: the file keeps its keys.
LEMMA RecordErased ==
    ASSUME KeysInv, NEW i, dat # NoFile, dat' = ErasePool(dat, {i}), made' = made
    PROVE  /\ dat' \in FileOf(Key') /\ dat' # NoFile
           /\ dat'.key = dat.key /\ dat'.ckey = dat.ckey /\ dat'.lost = dat.lost
           /\ dat'.mkey = dat.mkey
           /\ DOMAIN dat'.pool = DOMAIN dat.pool \ {i}
           /\ \A j \in DOMAIN dat'.pool : dat'.pool[j] = dat.pool[j]
<1>1. dat \in FileOf(Key) /\ Key' = Key /\ NoFile \notin FileOf(Key)
  BY FileFacts, NoKeyMade
<1> QED
  BY <1>1, ErasePoolIs

LEMMA KeepKeyInv ==
    ASSUME KeysInv, NEW h \in Holder, KeepKey(h)
    PROVE  KeysInv'
<1> USE DEF KeepKey, call
<1> DEFINE i == reserved[h].index
           k == reserved[h].key
<1>1. reserved[h] \in [index : Key, key : Key] /\ Holding(h) /\ k \in Reserved
  BY DEF KeysInv, KeysTypeOK, Holding, Reserved
<1>2. /\ encrypting \notin {"copied", "removed"} /\ handedOut' = handedOut \cup {k}
      /\ UNCHANGED <<rewrite, mapKeys, fUseCrypto, encrypting, newKey, made>>
      /\ unrecorded \subseteq unrecorded'
      /\ dat = NoFile => k \in unrecorded'
  OBVIOUS
<1>3. dat = NoFile => dat' = NoFile
  OBVIOUS
<1>4. ASSUME dat # NoFile
      PROVE  /\ dat' \in FileOf(Key') /\ dat' # NoFile
             /\ dat'.key = dat.key /\ dat'.ckey = dat.ckey /\ dat'.lost = dat.lost
             /\ dat'.mkey = dat.mkey
             /\ DOMAIN dat'.pool \subseteq DOMAIN dat.pool
             /\ \A j \in DOMAIN dat'.pool : /\ dat'.pool[j] = dat.pool[j]
                                            /\ dat'.pool[j] # k
  <2>1. dat' = ErasePool(dat, {i})
    BY <1>4
  <2>2. \A j \in DOMAIN dat.pool : dat.pool[j] = k => j = i
    BY <1>1, <1>4 DEF KeysInv, DatOK, Good, Holding
  <2> HIDE DEF KeepKey, i, k
  <2> QED
    BY <1>2, <1>4, <2>1, <2>2, RecordErased
<1>5. KeysTypeOK'
  <2>1. reserved' \in [Holder -> {NoReservation} \cup [index : Key, key : Key]]
    BY DEF KeysInv, KeysTypeOK
  <2>2. unrecorded' \subseteq Key /\ handedOut' \subseteq Key
    BY <1>1 DEF KeysInv, KeysTypeOK
  <2> QED
    BY <1>3, <1>4, <2>1, <2>2, NoKeyMade DEF KeysInv, KeysTypeOK
<1>6. KeyStagesOK'
  BY <1>2, <1>3, <1>4 DEF KeysInv, KeyStagesOK
<1>7. \A g \in Holder : Holding(g)' => reserved'[g] = reserved[g]
  BY DEF KeysInv, KeysTypeOK, Holding
<1>8. /\ Unsealed' = Unsealed /\ Separate' = Separate /\ RewriteMatters' = RewriteMatters
      /\ encrypting' = "txn" => mapKeys' # {}
      /\ made <= made'
  BY <1>2, <1>3, <1>4 DEF Unsealed, Separate, RewriteMatters, KeysInv, DatOK, KeysTypeOK
<1> HIDE DEF KeepKey, i, k
<1>9. /\ \A l \in handedOut' \ handedOut : l = k /\ l \in Reserved
      /\ handedOut \subseteq handedOut'
      /\ dat = NoFile => handedOut' \ handedOut \subseteq unrecorded'
  BY <1>1, <1>2
<1>10. dat # NoFile =>
           \A j \in DOMAIN dat'.pool : /\ dat'.pool[j] = dat.pool[j]
                                        /\ dat'.pool[j] \notin handedOut' \ handedOut
  BY <1>4, <1>9
<1> QED
  BY <1>2, <1>3, <1>4, <1>5, <1>6, <1>7, <1>8, <1>9, <1>10, FewerRecords

LEMMA EraseOldPoolInv ==
    ASSUME KeysInv, EraseOldPool
    PROVE  KeysInv'
<1> USE DEF EraseOldPool, call, counters
<1>1. /\ encrypting = "erase" /\ encrypting' \in {"erase", "pool"}
      /\ fUseCrypto /\ fUseCrypto' /\ newKey = 0 /\ dat # NoFile
      /\ UNCHANGED <<rewrite, mapKeys, fUseCrypto, newKey, made, reserved, handedOut,
                     unrecorded>>
  BY DEF KeysInv, KeyStagesOK
<1>2. /\ Unsealed' = Unsealed /\ Separate' = Separate /\ RewriteMatters' = RewriteMatters
      /\ ~Unsealed /\ made <= made'
  BY <1>1 DEF Unsealed, Separate, RewriteMatters, KeysInv, KeysTypeOK
<1>3. CASE setKeyPool \cap DOMAIN dat.pool # {}
  <2>1. PICK i \in setKeyPool \cap DOMAIN dat.pool : dat' = ErasePool(dat, {i})
    BY <1>3
  <2>2. /\ dat' \in FileOf(Key') /\ dat' # NoFile
        /\ dat'.key = dat.key /\ dat'.ckey = dat.ckey /\ dat'.lost = dat.lost
        /\ dat'.mkey = dat.mkey
        /\ DOMAIN dat'.pool \subseteq DOMAIN dat.pool
        /\ \A j \in DOMAIN dat'.pool : dat'.pool[j] = dat.pool[j]
    BY <1>1, <2>1, RecordErased
  <2>3. KeysTypeOK'
    BY <1>1, <1>3, <2>2, NoKeyMade DEF KeysInv, KeysTypeOK
  <2>4. KeyStagesOK'
    BY <1>1, <2>2 DEF KeysInv, KeyStagesOK
  <2> HIDE DEF EraseOldPool
  <2> QED
    BY <1>1, <1>2, <2>2, <2>3, <2>4, FewerRecords
<1>4. CASE setKeyPool \cap DOMAIN dat.pool = {}
  <2>1. KeysTypeOK'
    BY <1>1, <1>4, NoKeyMade DEF KeysInv, KeysTypeOK
  <2>2. KeyStagesOK'
    BY <1>1, <1>4 DEF KeysInv, KeyStagesOK
  <2>3. dat' = dat
    BY <1>4
  <2> HIDE DEF EraseOldPool
  <2> QED
    BY <1>1, <1>2, <2>1, <2>2, <2>3, SameFiles
<1> QED
  BY <1>3, <1>4

LEMMA TakeKeyInv ==
    ASSUME KeysInv, TakeKey
    PROVE  KeysInv'
<1> USE DEF TakeKey, call
<1> DEFINE i == Smallest(setKeyPool)
           k == dat.pool[i]
           Throws == i \notin DOMAIN dat.pool \/ k \notin mapKeys
<1>1. /\ encrypting = "no" /\ encrypting' = "no" /\ newKey = 0 /\ owner \in Holder
      /\ UNCHANGED <<rewrite, mapKeys, fUseCrypto, newKey, made, unrecorded>>
  BY DEF KeysInv, KeyStagesOK, KeysTypeOK
<1>2. i \in Key /\ setKeyPool' \subseteq Key
  <2>1. made \in Nat /\ setKeyPool \in SUBSET (1..made)
    BY <1>1 DEF KeysInv, KeysTypeOK, Key
  <2>2. i \in setKeyPool
    BY <2>1, Bounds
  <2> QED
    BY <2>1, <2>2 DEF Key
<1>3. i \in DOMAIN dat.pool => dat # NoFile
  BY NewFileIs
<1>4. made <= made' /\ encrypting \notin {"txn", "copied", "removed"}
  BY <1>1 DEF KeysInv, KeysTypeOK
<1>5. CASE Throws \/ ~keep
  <2>1. UNCHANGED <<dat, handedOut>>
    BY <1>5
  <2>2. \A g \in Holder :
            \/ reserved'[g] = reserved[g]
            \/ /\ i \in DOMAIN dat.pool
               /\ reserved'[g] = [index |-> i, key |-> k]
    BY <1>5 DEF KeysInv, KeysTypeOK
  <2>3. reserved' \in [Holder -> {NoReservation} \cup [index : Key, key : Key]]
    <3>1. CASE Throws
      BY <3>1, NoKeyMade DEF KeysInv, KeysTypeOK
    <3>2. CASE ~Throws
      <4>1. k \in Key
        BY <1>3, <3>2, FileFacts, FileFields
      <4>2. reserved' = [reserved EXCEPT ![owner] = [index |-> i, key |-> k]]
        BY <1>5, <3>2
      <4> QED
        BY <1>2, <4>1, <4>2 DEF KeysInv, KeysTypeOK
    <3> QED
      BY <3>1, <3>2
  <2>4. KeysTypeOK'
    BY <1>1, <1>2, <2>1, <2>3, NoKeyMade DEF KeysInv, KeysTypeOK
  <2>5. KeyStagesOK'
    BY <1>1, <2>1 DEF KeysInv, KeyStagesOK
  <2>6. Unsealed' = Unsealed /\ Separate' = Separate /\ RewriteMatters' = RewriteMatters
    BY <1>1, <2>1 DEF Unsealed, Separate, RewriteMatters
  <2>7. \A g \in Holder :
            \/ reserved'[g] = reserved[g]
            \/ dat # NoFile /\ \E j \in DOMAIN dat.pool :
                                   reserved'[g] = [index |-> j, key |-> dat.pool[j]]
    BY <1>3, <2>2
  <2> HIDE DEF TakeKey, i, k, Throws
  <2> QED
    BY <1>1, <1>4, <2>1, <2>4, <2>5, <2>6, <2>7, FewerRecords
<1>6. CASE ~Throws /\ keep
  <2>1. /\ dat' = ErasePool(dat, {i}) /\ handedOut' = handedOut \cup {k} /\ dat # NoFile
        /\ UNCHANGED reserved
    BY <1>3, <1>6
  <2>2. /\ dat' \in FileOf(Key') /\ dat' # NoFile
        /\ dat'.key = dat.key /\ dat'.ckey = dat.ckey /\ dat'.lost = dat.lost
        /\ dat'.mkey = dat.mkey
        /\ DOMAIN dat'.pool = DOMAIN dat.pool \ {i}
        /\ \A j \in DOMAIN dat'.pool : dat'.pool[j] = dat.pool[j]
    BY <1>1, <2>1, RecordErased
  <2>3. k \in Key
    BY <1>6, <2>1, FileFacts, FileFields
  <2>4. KeysTypeOK'
    BY <1>1, <1>2, <2>1, <2>2, <2>3, NoKeyMade DEF KeysInv, KeysTypeOK
  <2>5. KeyStagesOK'
    BY <1>1, <2>2 DEF KeysInv, KeyStagesOK
  <2>6. \A j \in DOMAIN dat'.pool : dat'.pool[j] # k
    BY <1>6, <2>1, <2>2, FileFacts DEF Good
  <2>7. Unsealed' = Unsealed /\ Separate' = Separate /\ RewriteMatters' = RewriteMatters
    BY <1>1, <2>1, <2>2 DEF Unsealed, Separate, RewriteMatters
  <2>8. \E j \in DOMAIN dat.pool : k = dat.pool[j]
    BY <1>6
  <2> HIDE DEF TakeKey, i, k, Throws
  <2> QED
    BY <1>1, <1>4, <2>1, <2>2, <2>4, <2>5, <2>6, <2>7, <2>8, FewerRecords
<1> QED
  BY <1>5, <1>6

---------------------------------------------------------------------------
(* Steps that add to a file. *)

LEMMA GenerateNewKeyInv ==
    ASSUME KeysInv, GenerateNewKey
    PROVE  KeysInv'
<1> USE DEF GenerateNewKey, call
<1> DEFINE k == made + 1
<1>1. /\ encrypting \in {"no", "pool"} /\ encrypting' = encrypting
      /\ owner # NoHolder \/ encrypting = "pool"
      /\ newKey = 0 /\ newKey' = k /\ made' = k /\ mapKeys' = mapKeys \cup {k}
      /\ dat # NoFile /\ dat' = WriteKey(dat, k)
      /\ UNCHANGED <<rewrite, fUseCrypto, setKeyPool, reserved, owner, handedOut, unrecorded>>
  BY DEF KeysInv, KeysTypeOK, KeyStagesOK, Lacking
<1>2. /\ made \in Nat /\ fUseCrypto \in BOOLEAN /\ stale \in BOOLEAN
      /\ dat \in FileOf(Key) /\ Good(dat, Key, reserved, Gone)
  BY <1>1, FileFacts DEF KeysInv, KeysTypeOK
<1>3. /\ Key \subseteq Key' /\ k \in Key' /\ k \notin Key /\ Key = 1..(made' - 1) /\ k # 0
      /\ FileOf(Key) \subseteq FileOf(Key')
  <2>1. Key \subseteq Key' /\ k \in Key' /\ k \notin Key /\ Key = 1..(made' - 1) /\ k # 0
    BY <1>1, <1>2 DEF Key
  <2> QED
    BY <2>1, FileGrows
<1>4. /\ dat' \in FileOf(Key') /\ dat' # NoFile
      /\ AllKeys(dat') = AllKeys(dat) \cup {k}
      /\ dat'.mkey = dat.mkey /\ dat'.pool = dat.pool
      /\ ~fUseCrypto => /\ dat'.ckey = dat.ckey /\ dat'.lost = dat.lost
                        /\ dat'.key = dat.key \cup {k}
      /\ fUseCrypto => /\ dat'.key = dat.key \ {k}
                       /\ dat'.ckey \cup dat'.lost = dat.ckey \cup dat.lost \cup {k}
  <2>1. NoFile \notin FileOf(Key')
    <3>1. made' \in Nat /\ Key' = 1..made'
      BY <1>1, <1>2 DEF Key
    <3> QED
      BY <3>1, NoFileIsNone
  <2>2. dat \in FileOf(Key')
    BY <1>2, <1>3
  <2> HIDE DEF GenerateNewKey, k
  <2> QED
    BY <1>1, <1>2, <1>3, <2>1, <2>2, WriteKeyIs
<1>5. KeysTypeOK'
  <2>1. reserved' \in [Holder -> {NoReservation} \cup [index : Key', key : Key']]
    <3>1. [index : Key, key : Key] \subseteq [index : Key', key : Key']
      BY <1>3
    <3>2. reserved \in [Holder -> {NoReservation} \cup [index : Key, key : Key]]
      BY DEF KeysInv, KeysTypeOK
    <3> QED
      BY <1>1, <3>1, <3>2
  <2>2. setKeyPool' \subseteq Key /\ setKeyPool' \subseteq 1..(made' - 1)
    BY <1>1, <1>3 DEF KeysInv, KeysTypeOK
  <2>3. made' \in Nat /\ newKey' \in {0, made'}
    BY <1>1, <1>2
  <2>4. mapKeys' \subseteq Key' /\ handedOut' \subseteq Key' /\ unrecorded' \subseteq Key'
    BY <1>1, <1>3 DEF KeysInv, KeysTypeOK
  <2>5. rewrite' \in FileOf(Key') \cup {NoFile}
    BY <1>1, <1>3 DEF KeysInv, KeysTypeOK
  <2>6. setKeyPool' \subseteq (IF newKey' = 0 THEN Key' ELSE 1..(made' - 1))
    BY <1>3, <2>2
  <2>7. UNCHANGED <<fUseCrypto, stale, locked, locking, owner, keep, topping, encrypting>>
    OBVIOUS
  <2> HIDE DEF GenerateNewKey
  <2> QED
    BY <1>4, <2>1, <2>3, <2>4, <2>5, <2>6, <2>7 DEF KeysInv, KeysTypeOK
<1> HIDE DEF GenerateNewKey, k
<1>6. KeyStagesOK'
  BY <1>1, <1>4 DEF KeysInv, KeyStagesOK
<1>7. Unsealed' = Unsealed /\ Separate' = Separate /\ RewriteMatters' = RewriteMatters
  BY <1>1, <1>4 DEF Unsealed, Separate, RewriteMatters
<1>8. Reserved' = Reserved /\ Reserved \subseteq Key /\ handedOut \subseteq Key
  BY <1>1 DEF KeysInv, KeysTypeOK, Reserved
<1>9. fUseCrypto => ~Unsealed
  BY <1>1 DEF Unsealed
<1>10. fUseCrypto => dat.mkey /\ dat.key = {}
  BY <1>1, <1>9 DEF KeysInv, DatOK, Sealed
<1>11. ~fUseCrypto => dat.ckey = {} /\ dat.lost = {} /\ mapKeys = dat.key
  BY DEF KeysInv, DatOK, Unsealed
<1>12. DatOK'
  <2>1. Good(dat', Key', reserved', Gone')
    <3>1. /\ dat'.key = {} \/ dat'.ckey \cup dat'.lost = {}
          /\ dat'.ckey \cup dat'.lost # {} => dat'.mkey
      BY <1>2, <1>4, <1>10, <1>11
    <3>2. AllKeys(dat) \subseteq AllKeys(dat') /\ Gone' = Gone /\ reserved' = reserved
          /\ DOMAIN dat'.pool \subseteq DOMAIN dat.pool
          /\ \A i \in DOMAIN dat'.pool : dat'.pool[i] = dat.pool[i]
      BY <1>1, <1>4 DEF Gone
    <3> QED
      BY <1>2, <1>4, <3>1, <3>2, GoodStays
  <2>2. Unsealed' => dat'.ckey = {} /\ dat'.lost = {} /\ mapKeys' = dat'.key
    BY <1>1, <1>2, <1>4, <1>7, <1>9, <1>11
  <2>3. ~Unsealed' => Sealed(dat')
    <3>1. ~Unsealed => fUseCrypto
      BY <1>2 DEF Unsealed
    <3> QED
      BY <1>4, <1>7, <1>10, <3>1 DEF Sealed
  <2>4. encrypting' # "txn"
    BY <1>1
  <2> QED
    BY <1>4, <2>1, <2>2, <2>3, <2>4 DEF DatOK
<1>13. ASSUME rewrite' # NoFile, RewriteMatters'
       PROVE  /\ Good(rewrite', Key', reserved', Gone') /\ Sealed(rewrite')
              /\ Separate' => AllKeys(rewrite') \cap (AllKeys(dat') \cup Reserved') = {}
  <2>1. /\ rewrite' = rewrite /\ Good(rewrite, Key, reserved, Gone) /\ Sealed(rewrite)
        /\ rewrite \in FileOf(Key) /\ AllKeys(rewrite) \subseteq Key
        /\ Separate => AllKeys(rewrite) \cap (AllKeys(dat) \cup Reserved) = {}
    BY <1>1, <1>7, <1>13, FileFacts, FileFields DEF KeysInv, RewriteOK
  <2>2. Good(rewrite', Key', reserved', Gone')
    BY <1>1, <1>3, <2>1 DEF Good, Gone
  <2> QED
    BY <1>3, <1>4, <1>7, <1>8, <2>1, <2>2
<1>14. NewKeyOK'
  <2>1. k \notin handedOut' \cup Reserved'
    BY <1>1, <1>3, <1>8
  <2>2. \A i \in DOMAIN dat'.pool : dat'.pool[i] # k
    <3>1. \A i \in DOMAIN dat.pool : dat.pool[i] \in Key
      BY <1>2, FileFields
    <3> QED
      BY <1>3, <1>4, <3>1
  <2> QED
    BY <1>1, <1>4, <2>1, <2>2 DEF NewKeyOK
<1>15. KeysRecoverable'
  <2>1. Secrets(dat) \cup dat.lost = AllKeys(dat)
    BY <1>1, FileFacts
  <2>2. Secrets(dat') \cup dat'.lost = AllKeys(dat')
    <3>1. dat'.ckey \cup dat'.lost # {} => dat'.mkey
      BY <1>4, <1>12 DEF DatOK, Good
    <3> QED
      BY <1>4, <3>1 DEF Secrets, AllKeys
  <2>3. Secrets(rewrite') = Secrets(rewrite) /\ rewrite' = rewrite
    BY <1>1 DEF Secrets
  <2> QED
    BY <1>1, <1>4, <1>8, <2>1, <2>2, <2>3 DEF KeysInv, KeysRecoverable
<1> QED
  BY <1>5, <1>6, <1>12, <1>13, <1>14, <1>15 DEF KeysInv, RewriteOK

LEMMA AddToPoolInv ==
    ASSUME KeysInv, AddToPool
    PROVE  KeysInv'
<1> USE DEF AddToPool, call, counters
<1> DEFINE n == IF setKeyPool = {} THEN 1 ELSE Largest(setKeyPool) + 1
<1>1. /\ encrypting \in {"no", "pool"} /\ encrypting' = encrypting
      /\ newKey # 0 /\ newKey = made /\ newKey' = 0 /\ dat # NoFile
      /\ dat' = WritePool(dat, n, newKey) /\ setKeyPool' = setKeyPool \cup {n}
      /\ UNCHANGED <<rewrite, mapKeys, fUseCrypto, reserved, owner, made, handedOut,
                     unrecorded>>
  BY DEF KeysInv, KeysTypeOK, KeyStagesOK, NewKeyOK
<1> HIDE DEF n
<1>2. dat \in FileOf(Key) /\ Good(dat, Key, reserved, Gone) /\ NoFile \notin FileOf(Key)
  BY <1>1, FileFacts
<1>3. made \in Nat /\ setKeyPool \in SUBSET (1..(made - 1))
  BY <1>1 DEF KeysInv, KeysTypeOK
<1>4. n \in Key /\ newKey \in Key /\ setKeyPool' \subseteq Key
  <2>1. made - 1 \in Nat /\ newKey \in Key
    BY <1>1, <1>3 DEF Key
  <2>2. setKeyPool # {} => Largest(setKeyPool) \in setKeyPool
    BY <1>3, <2>1, Bounds
  <2>3. n \in Key
    <3>1. CASE setKeyPool = {}
      <4>1. n = 1
        BY <3>1 DEF n
      <4> QED
        BY <1>3, <2>1, <4>1 DEF Key
    <3>2. CASE setKeyPool # {}
      <4>1. n = Largest(setKeyPool) + 1 /\ Largest(setKeyPool) \in 1..(made - 1)
        BY <1>3, <2>2, <3>2 DEF n
      <4> HIDE DEF AddToPool
      <4> QED
        BY <1>3, <4>1 DEF Key
    <3> QED
      BY <3>1, <3>2
  <2>4. setKeyPool \subseteq Key
    BY <1>3 DEF Key
  <2> QED
    BY <1>1, <2>1, <2>3, <2>4
<1>5. /\ dat' \in FileOf(Key)
      /\ dat'.key = dat.key /\ dat'.ckey = dat.ckey /\ dat'.lost = dat.lost
      /\ dat'.mkey = dat.mkey
      /\ DOMAIN dat'.pool = DOMAIN dat.pool \cup {n}
      /\ \A i \in DOMAIN dat'.pool : dat'.pool[i] = IF i = n THEN newKey ELSE dat.pool[i]
  <2>1. dat' = WritePool(dat, n, newKey)
    BY <1>1
  <2> HIDE DEF AddToPool
  <2> QED
    BY <1>2, <1>4, <2>1, WritePoolIs
<1>6. KeysTypeOK'
  BY <1>1, <1>4, <1>5, NoKeyMade DEF KeysInv, KeysTypeOK
<1> HIDE DEF AddToPool
<1>7. dat' # NoFile /\ AllKeys(dat') = AllKeys(dat)
  BY <1>2, <1>5 DEF AllKeys
<1>8. KeyStagesOK'
  BY <1>1, <1>7 DEF KeysInv, KeyStagesOK
<1>9. /\ newKey \in AllKeys(dat) \ (handedOut \cup Reserved)
      /\ \A i \in DOMAIN dat.pool : dat.pool[i] # newKey
  BY <1>1 DEF KeysInv, NewKeyOK
<1>10. /\ Unsealed' = Unsealed /\ Separate' = Separate /\ RewriteMatters' = RewriteMatters
       /\ Reserved' = Reserved /\ Gone' = Gone /\ Key' = Key
  BY <1>1, <1>7, NoKeyMade DEF Unsealed, Separate, RewriteMatters, Reserved, Gone
<1>11. Good(dat', Key, reserved, Gone)
  <2>1. \A i \in DOMAIN dat'.pool : dat'.pool[i] \in AllKeys(dat') \ Gone
    BY <1>2, <1>5, <1>7, <1>9 DEF Good, Gone
  <2>2. \A i, j \in DOMAIN dat'.pool : dat'.pool[i] = dat'.pool[j] => i = j
    BY <1>2, <1>5, <1>9 DEF Good
  <2>3. ASSUME NEW h \in Holder, NEW i \in DOMAIN dat'.pool,
               reserved[h] # NoReservation, dat'.pool[i] = reserved[h].key
        PROVE  i = reserved[h].index
    <3>1. reserved[h].key # newKey
      BY <1>9, <2>3 DEF Reserved
    <3>2. i \in DOMAIN dat.pool /\ dat.pool[i] = reserved[h].key
      BY <1>5, <2>3, <3>1
    <3> QED
      BY <1>2, <2>3, <3>2 DEF Good
  <2>4. /\ dat'.key = {} \/ dat'.ckey \cup dat'.lost = {}
        /\ dat'.ckey \cup dat'.lost # {} => dat'.mkey
    BY <1>2, <1>5 DEF Good
  <2> QED
    BY <1>5, <2>1, <2>2, <2>3, <2>4 DEF Good
<1>12. DatOK'
  BY <1>1, <1>5, <1>7, <1>10, <1>11 DEF KeysInv, DatOK, Sealed
<1>13. RewriteOK'
  BY <1>1, <1>7, <1>10 DEF KeysInv, RewriteOK
<1>14. NewKeyOK'
  BY <1>1 DEF NewKeyOK
<1>15. KeysRecoverable'
  <2>1. Secrets(dat') \cup dat'.lost = Secrets(dat) \cup dat.lost
    BY <1>1, <1>5, <1>7 DEF Secrets
  <2>2. Secrets(rewrite') = Secrets(rewrite) /\ rewrite' = rewrite
    BY <1>1 DEF Secrets
  <2> QED
    BY <1>1, <1>10, <2>1, <2>2 DEF KeysInv, KeysRecoverable
<1> QED
  BY <1>6, <1>8, <1>12, <1>13, <1>14, <1>15 DEF KeysInv

LEMMA EncryptCommitInv ==
    ASSUME KeysInv, EncryptCommit
    PROVE  KeysInv'
<1> USE DEF EncryptCommit, call, memory, counters
<1>1. /\ encrypting = "txn" /\ encrypting' = "erase" /\ newKey = 0 /\ fUseCrypto
      /\ dat' = [dat EXCEPT !.ckey = mapKeys, !.key = @ \ mapKeys, !.mkey = TRUE]
      /\ UNCHANGED <<rewrite, mapKeys, fUseCrypto, reserved, made, handedOut, unrecorded,
                     newKey, owner>>
  BY DEF KeysInv, KeyStagesOK
<1>2. dat # NoFile /\ dat.ckey = {} /\ dat.lost = {} /\ mapKeys = dat.key /\ mapKeys # {}
  BY <1>1 DEF KeysInv, DatOK, Unsealed
<1>3. dat \in FileOf(Key) /\ Good(dat, Key, reserved, Gone) /\ NoFile \notin FileOf(Key)
  BY <1>2, FileFacts
<1>4. /\ dat' \in FileOf(Key) /\ dat' # NoFile
      /\ dat'.key = {} /\ dat'.ckey = mapKeys /\ dat'.lost = {} /\ dat'.mkey
      /\ dat'.pool = dat.pool
  <2>1. /\ dat.key \in SUBSET Key /\ {} \in SUBSET Key /\ TRUE \in BOOLEAN
        /\ DOMAIN dat.pool \subseteq Key /\ dat.pool \in [DOMAIN dat.pool -> Key]
        /\ dat = [key |-> dat.key, ckey |-> dat.ckey, lost |-> dat.lost,
                  mkey |-> dat.mkey, pool |-> dat.pool]
    BY <1>3, FileFields
  <2>2. dat.key \ mapKeys = {}
    BY <1>2
  <2>3. dat' = [key |-> {}, ckey |-> mapKeys, lost |-> {}, mkey |-> TRUE, pool |-> dat.pool]
    BY <1>1, <1>2, <2>1, <2>2
  <2>4. dat' \in FileOf(Key)
    <3>1. [key |-> {}, ckey |-> dat.key, lost |-> {}, mkey |-> TRUE, pool |-> dat.pool]
              \in FileOf(Key)
      BY <2>1, FileMade
    <3> QED
      BY <1>2, <2>3, <3>1
  <2> HIDE DEF EncryptCommit
  <2> QED
    BY <1>3, <2>3, <2>4
<1>5. KeysTypeOK'
  BY <1>4, NoKeyMade DEF KeysInv, KeysTypeOK
<1>6. KeyStagesOK'
  BY <1>1, <1>4 DEF KeysInv, KeyStagesOK
<1> HIDE DEF EncryptCommit
<1>7. AllKeys(dat') = AllKeys(dat)
  BY <1>2, <1>4 DEF AllKeys
<1>8. /\ ~Unsealed' /\ Separate /\ RewriteMatters
      /\ Reserved' = Reserved /\ Gone' = Gone /\ Key' = Key
  BY <1>1, NoKeyMade DEF Unsealed, Separate, RewriteMatters, Reserved, Gone
<1>9. Good(dat', Key, reserved, Gone)
  BY <1>3, <1>4, <1>7, GoodStays
<1>10. DatOK'
  BY <1>1, <1>2, <1>4, <1>8, <1>9 DEF DatOK, Sealed
<1>11. RewriteOK'
  BY <1>1, <1>7, <1>8 DEF KeysInv, RewriteOK
<1>12. NewKeyOK'
  BY <1>1 DEF NewKeyOK
<1>13. KeysRecoverable'
  <2>1. Secrets(dat) \cup dat.lost = AllKeys(dat) /\ Secrets(dat') = AllKeys(dat')
    BY <1>2, <1>4, FileFacts DEF Secrets, AllKeys
  <2>2. Secrets(rewrite') = Secrets(rewrite) /\ rewrite' = rewrite
    BY <1>1 DEF Secrets
  <2> QED
    BY <1>1, <1>7, <1>8, <2>1, <2>2 DEF KeysInv, KeysRecoverable
<1> QED
  BY <1>5, <1>6, <1>10, <1>11, <1>12, <1>13 DEF KeysInv

---------------------------------------------------------------------------
(* The rewrite of the file, and the next start. *)

\* What is left behind by another wallet is merged record by record: the file is as
\* good as both, and has the keys of both.
LEMMA MergedIsGood ==
    ASSUME NEW K, NEW old, NEW file, NEW res, NEW gone,
           Good(old, K, res, gone), Good(file, K, res, gone), Sealed(old), Sealed(file),
           AllKeys(old) \cap AllKeys(file) = {},
           \A h \in Holder : res[h] # NoReservation => res[h].key \notin AllKeys(old)
    PROVE  /\ Good(Merge(old, file), K, res, gone) /\ Sealed(Merge(old, file))
           /\ AllKeys(Merge(old, file)) = AllKeys(old) \cup AllKeys(file)
<1> DEFINE new == Merge(old, file)
<1>1. old \in FileOf(K) /\ file \in FileOf(K)
  BY DEF Good
<1>2. /\ new \in FileOf(K)
      /\ new.key = old.key \cup file.key /\ new.ckey = old.ckey
      /\ new.lost = old.lost \cup file.lost \cup file.ckey /\ new.mkey
      /\ DOMAIN new.pool = DOMAIN old.pool \cup DOMAIN file.pool
      /\ \A i \in DOMAIN new.pool :
             new.pool[i] = IF i \in DOMAIN old.pool THEN old.pool[i] ELSE file.pool[i]
  BY <1>1, MergeIs
<1> HIDE DEF new
<1>3. Sealed(new) /\ AllKeys(new) = AllKeys(old) \cup AllKeys(file)
  BY <1>2 DEF Sealed, AllKeys
<1>4. ASSUME NEW i \in DOMAIN new.pool
      PROVE  \/ /\ i \in DOMAIN old.pool /\ new.pool[i] = old.pool[i]
                /\ new.pool[i] \in AllKeys(old) \ gone
             \/ /\ i \in DOMAIN file.pool /\ new.pool[i] = file.pool[i]
                /\ new.pool[i] \in AllKeys(file) \ gone
  BY <1>2 DEF Good
<1>5. \A i \in DOMAIN new.pool : new.pool[i] \in AllKeys(new) \ gone
  BY <1>3, <1>4
<1>6. ASSUME NEW i \in DOMAIN new.pool, NEW j \in DOMAIN new.pool, new.pool[i] = new.pool[j]
      PROVE  i = j
  <2>1. \/ i \in DOMAIN old.pool /\ j \in DOMAIN old.pool /\ old.pool[i] = old.pool[j]
        \/ i \in DOMAIN file.pool /\ j \in DOMAIN file.pool /\ file.pool[i] = file.pool[j]
    BY <1>4, <1>6
  <2> QED
    BY <2>1 DEF Good
<1>7. ASSUME NEW h \in Holder, NEW i \in DOMAIN new.pool,
             res[h] # NoReservation, new.pool[i] = res[h].key
      PROVE  i = res[h].index
  <2>1. i \in DOMAIN file.pool /\ file.pool[i] = res[h].key
    BY <1>4, <1>7
  <2> QED
    BY <1>7, <2>1 DEF Good
<1>8. Good(new, K, res, gone)
  BY <1>2, <1>3, <1>5, <1>6, <1>7 DEF Good, Sealed
<1> QED
  BY <1>3, <1>8 DEF new

LEMMA RewriteCopyInv ==
    ASSUME KeysInv, RewriteCopy
    PROVE  KeysInv'
<1> USE DEF RewriteCopy, call, counters
<1>1. /\ encrypting = "pool" /\ encrypting' = "copied" /\ newKey = 0 /\ fUseCrypto
      /\ dat # NoFile
      /\ rewrite' = IF rewrite = NoFile THEN dat ELSE Merge(rewrite, dat)
      /\ UNCHANGED <<dat, mapKeys, fUseCrypto, handedOut, unrecorded, made, newKey, owner,
                     reserved>>
  BY DEF KeysInv, KeyStagesOK
<1>2. /\ ~Unsealed /\ ~Unsealed' /\ Separate /\ RewriteMatters /\ ~Separate'
      /\ Reserved' = Reserved /\ Gone' = Gone /\ Key' = Key
  BY <1>1, NoKeyMade DEF Unsealed, Separate, RewriteMatters, Reserved, Gone
<1>3. /\ dat \in FileOf(Key) /\ Good(dat, Key, reserved, Gone) /\ Sealed(dat)
      /\ NoFile \notin FileOf(Key)
  BY <1>1, <1>2, FileFacts DEF KeysInv, DatOK
<1>4. /\ Good(rewrite', Key, reserved, Gone) /\ Sealed(rewrite')
      /\ AllKeys(dat) \subseteq AllKeys(rewrite')
      /\ rewrite # NoFile => AllKeys(rewrite) \subseteq AllKeys(rewrite')
  <2>1. CASE rewrite = NoFile
    BY <1>1, <1>3, <2>1
  <2>2. CASE rewrite # NoFile
    <3>1. /\ Good(rewrite, Key, reserved, Gone) /\ Sealed(rewrite)
          /\ AllKeys(rewrite) \cap (AllKeys(dat) \cup Reserved) = {}
      BY <1>2, <2>2 DEF KeysInv, RewriteOK
    <3>2. \A h \in Holder : reserved[h] # NoReservation => reserved[h].key \notin AllKeys(rewrite)
      BY <3>1 DEF Reserved
    <3>3. rewrite' = Merge(rewrite, dat)
      BY <1>1, <2>2
    <3> HIDE DEF RewriteCopy
    <3> QED
      BY <1>3, <3>1, <3>2, <3>3, MergedIsGood
  <2> QED
    BY <2>1, <2>2
<1>5. rewrite' \in FileOf(Key) /\ rewrite' # NoFile
  BY <1>3, <1>4 DEF Good
<1>6. KeysTypeOK'
  BY <1>3, <1>5, NoKeyMade DEF KeysInv, KeysTypeOK
<1> HIDE DEF RewriteCopy
<1>7. KeyStagesOK'
  BY <1>1, <1>4, <1>5 DEF KeysInv, KeyStagesOK
<1>8. DatOK'
  BY <1>1, <1>2, <1>3 DEF DatOK
<1>9. RewriteOK'
  BY <1>1, <1>2, <1>4 DEF RewriteOK
<1>10. NewKeyOK'
  BY <1>1 DEF NewKeyOK
<1>11. KeysRecoverable'
  <2>1. Secrets(rewrite) \cup rewrite.lost \subseteq AllKeys(rewrite')
    BY <1>2, <1>4, FileFacts, SecretsOfNone
  <2>2. Secrets(rewrite') \cup rewrite'.lost = AllKeys(rewrite')
    BY <1>4, <1>5 DEF Secrets, AllKeys, Sealed
  <2>3. Secrets(dat') = Secrets(dat)
    BY <1>1 DEF Secrets
  <2> QED
    BY <1>1, <1>2, <2>1, <2>2, <2>3 DEF KeysInv, KeysRecoverable
<1> QED
  BY <1>6, <1>7, <1>8, <1>9, <1>10, <1>11 DEF KeysInv

LEMMA RewriteRemoveInv ==
    ASSUME KeysInv, RewriteRemove
    PROVE  KeysInv'
<1> USE DEF RewriteRemove, call, memory, counters
<1>1. /\ encrypting = "copied" /\ encrypting' = "removed" /\ dat' = NoFile /\ newKey = 0
      /\ dat # NoFile /\ rewrite # NoFile /\ AllKeys(dat) \subseteq AllKeys(rewrite) /\ fUseCrypto
      /\ UNCHANGED <<rewrite, mapKeys, fUseCrypto, handedOut, unrecorded, made, newKey, owner,
                     reserved>>
  BY DEF KeysInv, KeyStagesOK
<1>2. KeysTypeOK'
  BY NoKeyMade DEF KeysInv, KeysTypeOK
<1>3. KeyStagesOK'
  BY <1>1 DEF KeysInv, KeyStagesOK
<1> HIDE DEF RewriteRemove
<1>4. /\ ~Unsealed' /\ RewriteMatters /\ ~Separate'
      /\ Reserved' = Reserved /\ Gone' = Gone /\ Key' = Key
  BY <1>1, NoKeyMade DEF Unsealed, Separate, RewriteMatters, Reserved, Gone
<1>5. DatOK'
  BY <1>1, <1>4 DEF DatOK
<1>6. RewriteOK'
  BY <1>1, <1>4 DEF KeysInv, RewriteOK
<1>7. NewKeyOK'
  BY <1>1 DEF NewKeyOK
<1>8. KeysRecoverable'
  <2>1. /\ Secrets(dat) \cup dat.lost = AllKeys(dat)
        /\ Secrets(rewrite) \cup rewrite.lost = AllKeys(rewrite)
    BY <1>1, <1>4, FileFacts
  <2>2. Secrets(rewrite') = Secrets(rewrite)
    BY <1>1 DEF Secrets
  <2> QED
    BY <1>1, <1>4, <2>1, <2>2 DEF KeysInv, KeysRecoverable
<1> QED
  BY <1>2, <1>3, <1>5, <1>6, <1>7, <1>8 DEF KeysInv

LEMMA RewriteRenameInv ==
    ASSUME KeysInv, RewriteRename
    PROVE  KeysInv'
<1> USE DEF RewriteRename, call, memory, counters
<1>1. /\ encrypting = "removed" /\ encrypting' = "no" /\ dat = NoFile /\ dat' = rewrite
      /\ rewrite' = NoFile /\ rewrite # NoFile /\ newKey = 0 /\ fUseCrypto
      /\ UNCHANGED <<mapKeys, fUseCrypto, handedOut, unrecorded, made, newKey, owner,
                     reserved>>
  BY DEF KeysInv, KeyStagesOK
<1>2. KeysTypeOK'
  BY NoKeyMade DEF KeysInv, KeysTypeOK
<1>3. KeyStagesOK'
  BY <1>1 DEF KeysInv, KeyStagesOK
<1> HIDE DEF RewriteRename
<1>4. /\ ~Unsealed' /\ RewriteMatters
      /\ Reserved' = Reserved /\ Gone' = Gone /\ Key' = Key
  BY <1>1, NoKeyMade DEF Unsealed, Separate, RewriteMatters, Reserved, Gone
<1>5. DatOK'
  BY <1>1, <1>4 DEF KeysInv, RewriteOK, DatOK
<1>6. RewriteOK'
  BY <1>1 DEF RewriteOK
<1>7. NewKeyOK'
  BY <1>1 DEF NewKeyOK
<1>8. KeysRecoverable'
  <2>1. Secrets(dat) \cup dat.lost = {} /\ Secrets(rewrite') = {}
    BY <1>1, SecretsOfNone
  <2>2. Secrets(dat') = Secrets(rewrite)
    BY <1>1 DEF Secrets
  <2> QED
    BY <1>1, <1>4, <2>1, <2>2 DEF KeysInv, KeysRecoverable
<1> QED
  BY <1>2, <1>3, <1>5, <1>6, <1>7, <1>8 DEF KeysInv

\* Without reservations a good file stays good.
LEMMA GoodUnreserved ==
    ASSUME NEW file, NEW K, NEW res, NEW gone, NEW new, Good(file, K, res, gone),
           \A h \in Holder : new[h] = NoReservation
    PROVE  Good(file, K, new, gone)
  BY DEF Good

LEMMA RestartInv ==
    ASSUME KeysInv, Restart
    PROVE  KeysInv'
<1> USE DEF Restart, counters
<1>1. /\ encrypting' = "no" /\ newKey' = 0 /\ owner' = NoHolder
      /\ dat' = IF dat = NoFile THEN NewFile ELSE dat
      /\ fUseCrypto' = (dat'.ckey \cup dat'.lost # {}) /\ stale' = FALSE
      /\ mapKeys' = dat'.key \cup dat'.ckey \cup dat'.lost /\ setKeyPool' = DOMAIN dat'.pool
      /\ UNCHANGED <<rewrite, made, handedOut, unrecorded>>
      /\ \A h \in Holder : reserved'[h] = NoReservation
  OBVIOUS
<1>2. dat' \in FileOf(Key) /\ dat' # NoFile /\ Key' = Key /\ Gone' = Gone
  BY <1>1, FileFacts, NewFileIs, NoKeyMade DEF Gone
<1>3. KeysTypeOK'
  <2>1. /\ mapKeys' \subseteq Key /\ setKeyPool' \subseteq Key
        /\ fUseCrypto' \in BOOLEAN
    BY <1>1, <1>2, FileFields
  <2>2. reserved' \in [Holder -> {NoReservation} \cup [index : Key, key : Key]]
    OBVIOUS
  <2>3. locked' \in BOOLEAN /\ locking' \in BOOLEAN /\ keep' \in BOOLEAN /\ topping' \in BOOLEAN
    OBVIOUS
  <2> HIDE DEF Restart
  <2> QED
    BY <1>1, <1>2, <2>1, <2>2, <2>3 DEF KeysInv, KeysTypeOK
<1> HIDE DEF Restart
<1>4. KeyStagesOK'
  BY <1>1, <1>2 DEF KeyStagesOK
<1>5. Reserved' = {}
  BY <1>1 DEF Reserved
<1>6. /\ Unsealed' = ~fUseCrypto' /\ Separate' = ~fUseCrypto'
      /\ RewriteMatters' = ~fUseCrypto'
  BY <1>1, <1>2 DEF Unsealed, Separate, RewriteMatters
<1>7. Good(dat', Key, reserved', Gone)
  <2>1. CASE dat = NoFile
    <3>1. dat' = NewFile
      BY <1>1, <2>1
    <3> QED
      BY <1>2, <3>1, NewFileIs DEF Good
  <2>2. CASE dat # NoFile
    BY <1>1, <2>2, FileFacts, GoodUnreserved
  <2> QED
    BY <2>1, <2>2
<1>8. ~fUseCrypto' => dat = NoFile \/ Unsealed
  BY <1>1 DEF KeysInv, DatOK, Sealed
<1>9. DatOK'
  <2>1. ~fUseCrypto' => dat'.ckey = {} /\ dat'.lost = {} /\ mapKeys' = dat'.key
    BY <1>1
  <2>2. fUseCrypto' => Sealed(dat')
    BY <1>1, <1>7 DEF Good, Sealed
  <2> QED
    BY <1>1, <1>2, <1>6, <1>7, <2>1, <2>2 DEF DatOK
<1>10. ASSUME rewrite' # NoFile, RewriteMatters'
       PROVE  /\ Good(rewrite', Key', reserved', Gone') /\ Sealed(rewrite')
              /\ AllKeys(rewrite') \cap (AllKeys(dat') \cup Reserved') = {}
  <2>1. RewriteMatters /\ (dat # NoFile => Separate)
    BY <1>6, <1>8, <1>10 DEF RewriteMatters, Unsealed, Separate
  <2>2. Good(rewrite, Key, reserved, Gone) /\ Sealed(rewrite)
    BY <1>1, <1>10, <2>1 DEF KeysInv, RewriteOK
  <2>3. Good(rewrite, Key, reserved', Gone)
    BY <1>1, <2>2, GoodUnreserved
  <2>4. AllKeys(rewrite) \cap AllKeys(dat') = {}
    <3>1. CASE dat = NoFile
      BY <1>1, <3>1, NewFileIs DEF AllKeys
    <3>2. CASE dat # NoFile
      <4>1. dat' = dat
        BY <1>1, <3>2
      <4> QED
        BY <1>1, <1>10, <2>1, <3>2, <4>1 DEF KeysInv, RewriteOK
    <3> QED
      BY <3>1, <3>2
  <2> QED
    BY <1>1, <1>2, <1>5, <2>2, <2>3, <2>4
<1>11. NewKeyOK'
  BY <1>1 DEF NewKeyOK
<1>12. KeysRecoverable'
  <2>1. Secrets(dat) \cup dat.lost \subseteq Secrets(dat') \cup dat'.lost
    <3>1. CASE dat = NoFile
      BY <3>1, SecretsOfNone
    <3>2. CASE dat # NoFile
      BY <1>1, <3>2 DEF Secrets
    <3> QED
      BY <3>1, <3>2
  <2>2. Secrets(rewrite') = Secrets(rewrite) /\ rewrite' = rewrite
    BY <1>1 DEF Secrets
  <2> QED
    BY <1>1, <1>5, <2>1, <2>2 DEF KeysInv, KeysRecoverable
<1> QED
  BY <1>3, <1>4, <1>9, <1>10, <1>11, <1>12 DEF KeysInv, RewriteOK

---------------------------------------------------------------------------

\* After the first start the invariant holds: the default key has left the pool.
LEMMA KeysInitInv == KeysInit => KeysInv
<1> SUFFICES ASSUME KeysInit PROVE KeysInv
  OBVIOUS
<1> USE DEF KeysInit
<1> DEFINE p == [i \in 2..(PoolSize + 1) |-> i]
<1>1. /\ PoolSize \in Nat /\ Key = 1..(PoolSize + 1) /\ 1 \in Key /\ made \in Nat
      /\ 2..(PoolSize + 1) \subseteq Key
  BY WalletKeysAssumption DEF Key
<1>2. dat = [key |-> Key, ckey |-> {}, lost |-> {}, mkey |-> FALSE, pool |-> p]
  <2> DEFINE none == [i \in {} |-> 0]
  <2>1. NewFile = [key |-> {}, ckey |-> {}, lost |-> {}, mkey |-> FALSE, pool |-> none]
    BY DEF NewFile
  <2>2. dat = [NewFile EXCEPT !.key = Key, !.pool = p]
    BY <1>1
  <2> HIDE DEF none, p
  <2> QED
    BY <2>1, <2>2
<1>3. /\ DOMAIN p = 2..(PoolSize + 1) /\ \A i \in DOMAIN p : p[i] = i /\ i # 1 /\ i \in Key
      /\ DOMAIN p \subseteq Key /\ p \in [DOMAIN p -> Key]
  BY <1>1
<1>4. /\ mapKeys = Key /\ setKeyPool \subseteq Key /\ ~fUseCrypto /\ handedOut = {1}
      /\ unrecorded = {} /\ newKey = 0 /\ rewrite = NoFile /\ encrypting = "no"
      /\ \A h \in Holder : reserved[h] = NoReservation
  BY <1>1
<1>5. reserved \in [Holder -> {NoReservation} \cup [index : Key, key : Key]]
  OBVIOUS
<1>6. /\ fUseCrypto \in BOOLEAN /\ stale \in BOOLEAN /\ locked \in BOOLEAN
      /\ locking \in BOOLEAN /\ keep \in BOOLEAN /\ topping \in BOOLEAN /\ owner = NoHolder
  OBVIOUS
<1> HIDE DEF KeysInit, p
<1>7. /\ dat \in FileOf(Key) /\ dat # NoFile
      /\ dat.key = Key /\ dat.ckey = {} /\ dat.lost = {} /\ dat.pool = p
  <2>1. dat \in FileOf(Key)
    <3>1. Key \in SUBSET Key /\ {} \in SUBSET Key /\ FALSE \in BOOLEAN
      OBVIOUS
    <3> QED
      BY <1>2, <1>3, <3>1, FileMade
  <2> QED
    BY <1>1, <1>2, <2>1, NoFileIsNone DEF Key
<1>8. KeysTypeOK
  BY <1>1, <1>4, <1>5, <1>6, <1>7 DEF KeysTypeOK
<1>9. KeyStagesOK
  BY <1>4, <1>7 DEF KeyStagesOK
<1>10. DatOK
  <2>1. Good(dat, Key, reserved, Gone)
    BY <1>3, <1>4, <1>7 DEF Good, Gone, AllKeys
  <2> QED
    BY <1>4, <1>7, <2>1 DEF DatOK, Unsealed
<1>11. RewriteOK /\ NewKeyOK
  BY <1>4 DEF RewriteOK, NewKeyOK
<1>12. KeysRecoverable
  <2>1. Reserved = {}
    BY <1>4 DEF Reserved
  <2>2. Secrets(dat) = Key
    BY <1>7 DEF Secrets
  <2> QED
    BY <1>1, <1>4, <2>1, <2>2 DEF KeysRecoverable
<1> QED
  BY <1>8, <1>9, <1>10, <1>11, <1>12 DEF KeysInv

LEMMA KeysNextInv == KeysInv /\ [KeysNext]_keyVars => KeysInv'
<1> SUFFICES ASSUME KeysInv, [KeysNext]_keyVars PROVE KeysInv'
  OBVIOUS
<1>1. CASE KeysNext
  <2>1. ASSUME NEW h \in Holder, Enter(h, TRUE) \/ Enter(h, FALSE) PROVE KeysInv'
    BY <2>1, EnterInv
  <2>2. ASSUME NEW h \in Holder, KeepKey(h) \/ ReturnKey(h) PROVE KeysInv'
    BY <2>2, KeepKeyInv, ReturnKeyInv
  <2>3. CASE \/ GenerateNewKey \/ GenerateNewKeyFails \/ AddToPool \/ AddKeyFails
             \/ TakeKey \/ NoKeyLeft
    BY <2>3, GenerateNewKeyInv, GenerateNewKeyFailsInv, AddToPoolInv, LeaveInv, TakeKeyInv
  <2>4. CASE Unlock \/ LockBegin \/ LockKeyStore \/ LockEnd
    BY <2>4, LockingInv
  <2>5. CASE EncryptKeys \/ EncryptCommit \/ EraseOldPool
    BY <2>5, EncryptKeysInv, EncryptCommitInv, EraseOldPoolInv
  <2>6. CASE \/ RewriteCopy \/ RewriteFails \/ RewriteRenameFails \/ RewriteRemove
             \/ RewriteRename \/ Restart
    BY <2>6, RewriteCopyInv, RewriteFailsInv, RewriteRemoveInv, RewriteRenameInv, RestartInv
  <2> QED
    BY <1>1, <2>1, <2>2, <2>3, <2>4, <2>5, <2>6 DEF KeysNext
<1>2. CASE UNCHANGED keyVars
  <2> USE <1>2 DEF keyVars, memory, call, counters
  <2>1. KeysTypeOK'
    BY NoKeyMade DEF KeysInv, KeysTypeOK
  <2>2. KeyStagesOK'
    BY DEF KeysInv, KeyStagesOK
  <2> QED
    BY <2>1, <2>2, SameStage
<1> QED
  BY <1>1, <1>2

\* The inductive invariant holds in every state.
THEOREM KeysInvariance == KeysSpec => []KeysInv
<1>1. KeysInit => KeysInv
  BY KeysInitInv
<1>2. KeysInv /\ [KeysNext]_keyVars => KeysInv'
  BY KeysNextInv
<1> QED
  BY <1>1, <1>2, PTL DEF KeysSpec

\* Whoever was given a key, for good or in reserve, has its secret in wallet.dat or
\* in wallet.dat.rewrite, at every step of EncryptWallet and of CDB::Rewrite, unless
\* its wallet was merged into a copy with another master key.
THEOREM KeysAlwaysRecoverable == KeysSpec => []KeysRecoverable
<1>1. KeysInv => KeysRecoverable
  BY DEF KeysInv
<1> QED
  BY <1>1, KeysInvariance, PTL

\* No record of the pool in wallet.dat names a key that KeepKey gave for good, but
\* one that it gave when there was no wallet.dat.
THEOREM KeptKeysStayGone == KeysSpec => []KeptKeysGone
<1>1. KeysInv => KeptKeysGone
  BY DEF KeysInv, DatOK, Good, Gone, KeptKeysGone
<1> QED
  BY <1>1, KeysInvariance, PTL

\* LoadWallet accepts the file wherever the process dies, a merged one too.
THEOREM WalletAlwaysLoads == KeysSpec => []WalletLoads
<1>1. KeysInv => WalletLoads
  BY DEF KeysInv, DatOK, Good, AllKeys, WalletLoads
<1> QED
  BY <1>1, KeysInvariance, PTL
=============================================================================
