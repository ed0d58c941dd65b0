-------------------------- MODULE AddrMan_proofs --------------------------
(***************************************************************************)
(* The address manager is consistent for every number of hosts, buckets    *)
(* and entries, as long as no peers.dat was misread: whatever a shutdown   *)
(* cuts short, and however long the table is worked on afterwards, the     *)
(* indexes agree, no bucket overflows and the code's own Check_() holds    *)
(* but for entries without a bucket; and unless Add_ or MakeTried was cut  *)
(* short, no entry is without one and a restart loses nothing.             *)
(*                                                                         *)
(* The private functions are functions of the object, so the invariant is  *)
(* one of an object a, and one lemma for each function shows that it keeps *)
(* it.                                                                     *)
(***************************************************************************)
EXTENDS AddrMan, SequenceTheorems, FunctionTheorems, FiniteSetTheorems, TLAPS

Known(a) == DOMAIN a.mapInfo
Tried(a) == {n \in Known(a) : a.mapInfo[n].fInTried}
Untried(a) == Known(a) \ Tried(a)
Buckets(a, n) == {b \in NewBuckets : n \in a.vvNew[b]}
TriedBucket(a, n) == TriedBucketOf[a.mapInfo[n].addr]

Obj(a) ==
    [nIdCount |-> a.nIdCount, mapInfo |-> a.mapInfo, mapAddr |-> a.mapAddr,
     vRandom |-> a.vRandom, nTried |-> a.nTried, vvTried |-> a.vvTried,
     nNew |-> a.nNew, vvNew |-> a.vvNew]

\* The fields of the object have their types.
Typed(a) ==
    /\ a = Obj(a)
    /\ a.nIdCount \in 0..MaxIds
    /\ Known(a) \subseteq 0..(a.nIdCount - 1)
    /\ a.mapInfo \in [Known(a) -> InfoType]
    /\ DOMAIN a.mapAddr \subseteq Ips
    /\ a.mapAddr \in [DOMAIN a.mapAddr -> Known(a)]
    /\ a.vRandom \in Seq(Known(a))
    /\ a.nTried \in Nat /\ a.nNew \in Nat
    /\ a.vvTried \in [TriedBuckets -> Seq(Known(a))]
    /\ a.vvNew \in [NewBuckets -> SUBSET Known(a)]

\* mapAddr and vRandom are inverse to the entries' addresses and positions.
Indexed(a) ==
    /\ \A n \in Known(a) : /\ Ip[a.mapInfo[n].addr] \in DOMAIN a.mapAddr
                           /\ a.mapAddr[Ip[a.mapInfo[n].addr]] = n
    /\ \A p \in DOMAIN a.mapAddr : Ip[a.mapInfo[a.mapAddr[p]].addr] = p
    /\ \A n \in Known(a) : /\ a.mapInfo[n].nRandomPos \in 1..Len(a.vRandom)
                           /\ a.vRandom[a.mapInfo[n].nRandomPos] = n
    /\ \A i \in 1..Len(a.vRandom) : a.mapInfo[a.vRandom[i]].nRandomPos = i

\* Each tried entry is in the bucket of its address, once, and nothing else is.
Placed(a) ==
    /\ \A k \in TriedBuckets : \A i \in 1..Len(a.vvTried[k]) :
          /\ a.vvTried[k][i] \in Tried(a)
          /\ TriedBucket(a, a.vvTried[k][i]) = k
          /\ \A j \in 1..Len(a.vvTried[k]) : a.vvTried[k][i] = a.vvTried[k][j] => i = j
    /\ \A n \in Tried(a) : \E i \in 1..Len(a.vvTried[TriedBucket(a, n)]) :
          a.vvTried[TriedBucket(a, n)][i] = n

\* No bucket is over its size.
Bounded(a) ==
    /\ \A b \in NewBuckets : Cardinality(a.vvNew[b]) <= NewBucketSize
    /\ \A k \in TriedBuckets : Len(a.vvTried[k]) <= TriedBucketSize

\* The counters, when d entries that are not tried have been taken off nNew.
Counted(a, d) ==
    /\ a.nTried = Cardinality(Tried(a))
    /\ a.nNew + d = Cardinality(Untried(a))

\* Reference counts count buckets, one too many for an entry of held; an entry that
\* is not tried is in a bucket unless it is one of exempt.
Referenced(a, held, exempt) ==
    /\ \A n \in Known(a) :
          a.mapInfo[n].nRefCount = Cardinality(Buckets(a, n)) + (IF n \in held THEN 1 ELSE 0)
    /\ \A n \in Tried(a) : Buckets(a, n) = {} /\ n \notin held /\ a.mapInfo[n].nLastSuccess # 0
    /\ \A n \in Untried(a) : /\ a.mapInfo[n].nRefCount <= BucketsPerAddress
                             /\ n \in exempt \/ a.mapInfo[n].nRefCount # 0

Sound(a, held, exempt, d) ==
    /\ Typed(a)
    /\ Indexed(a)
    /\ Placed(a)
    /\ Bounded(a)
    /\ Counted(a, d)
    /\ Referenced(a, held, exempt)

---------------------------------------------------------------------------

\* A table that was once cut short may hold entries without a bucket, whichever.
Lost == IF cut THEN Nat ELSE {}

\* What an operation under way has changed already.
Held == IF busy.op = "shrink" THEN {busy.nId} ELSE {}
Exempt == Lost \cup (IF busy.op \in {"unlink", "select"} THEN {busy.nId} ELSE {})
Uncounted == IF busy.op = "select" THEN 1 ELSE 0

\* Where the operation under way stands. The bucket that an entry came from has had
\* room since the entry left it, which is what EvictTried relies on.
BusyOK ==
    \/ busy = Idle
    \/ /\ busy.op = "shrink"
       /\ busy = [op |-> "shrink", nId |-> busy.nId, b |-> busy.b]
       /\ busy.nId \in Untried(am) /\ busy.b \in NewBuckets
       /\ busy.nId \notin am.vvNew[busy.b]
    \/ /\ busy.op = "unlink"
       /\ busy = [op |-> "unlink", nId |-> busy.nId, nOrigin |-> busy.nOrigin, b |-> busy.b]
       /\ busy.nId \in Untried(am) /\ busy.nOrigin \in NewBuckets
       /\ busy.b \in 1..(NewBucketCount + 1)
       /\ am.mapInfo[busy.nId].nLastSuccess # 0
       /\ \A b \in Buckets(am, busy.nId) : busy.b <= b
       /\ IF busy.b <= busy.nOrigin THEN busy.nId \in am.vvNew[busy.nOrigin]
                                    ELSE Cardinality(am.vvNew[busy.nOrigin]) < NewBucketSize
    \/ /\ busy.op = "select"
       /\ busy = [op |-> "select", nId |-> busy.nId, nOrigin |-> busy.nOrigin, k |-> busy.k,
                  i |-> busy.i, nOldest |-> busy.nOldest, nOldestPos |-> busy.nOldestPos]
       /\ busy.nId \in Untried(am) /\ busy.nOrigin \in NewBuckets
       /\ busy.k = TriedBucket(am, busy.nId)
       /\ am.mapInfo[busy.nId].nLastSuccess # 0
       /\ Buckets(am, busy.nId) = {}
       /\ Cardinality(am.vvNew[busy.nOrigin]) < NewBucketSize
       /\ busy.i \in Nat \ {0}
       /\ busy.i = 1 => Len(am.vvTried[busy.k]) # 0 /\ busy.nOldestPos = 0
       /\ busy.i > 1 => busy.nOldestPos \in 1..Len(am.vvTried[busy.k])
    \/ /\ busy.op = "getaddr"
       /\ busy = [op |-> "getaddr", n |-> busy.n]
       /\ busy.n \in Nat \ {0}

SavedType == [addr : Service, source : Source, nLastSuccess : 0..MaxTime]

\* What Serialize writes: entries with distinct hosts, the tried ones with a success,
\* buckets of indexes of new entries; whole tells that nothing was cut short.
FileOK(f, whole) ==
    /\ f.nNew \in Nat /\ f.nTried \in Nat
    /\ f.new \in Seq(SavedType) /\ f.tried \in Seq(SavedType)
    /\ Len(f.new) + Len(f.tried) <= MaxIds
    /\ \A i, j \in 1..Len(f.new) : Ip[f.new[i].addr] = Ip[f.new[j].addr] => i = j
    /\ \A i, j \in 1..Len(f.tried) : Ip[f.tried[i].addr] = Ip[f.tried[j].addr] => i = j
    /\ \A i \in 1..Len(f.new), j \in 1..Len(f.tried) : Ip[f.new[i].addr] # Ip[f.tried[j].addr]
    /\ \A j \in 1..Len(f.tried) : f.tried[j].nLastSuccess # 0
    /\ f.vvNew \in [NewBuckets -> SUBSET (0..(Len(f.new) - 1))]
    /\ \A b \in NewBuckets : Cardinality(f.vvNew[b]) <= NewBucketSize
    /\ whole => \A n \in 0..(Len(f.new) - 1) : \E b \in NewBuckets : n \in f.vvNew[b]

\* The inductive invariant.
AddrInv ==
    /\ node \in {"running", "down", "misread"} /\ cut \in BOOLEAN
    /\ node # "misread" => Sound(am, Held, Exempt, Uncounted)
    /\ BusyOK
    /\ busy # Idle => node = "running"
    /\ node = "down" => peers = UnknownFile \/ FileOK(peers, ~cut)

---------------------------------------------------------------------------
(* Finite sets. *)

\* Ids and buckets are finitely many.
LEMMA KnownFinite ==
    ASSUME NEW a, Typed(a)
    PROVE  /\ Known(a) \in SUBSET Nat
           /\ \A S \in SUBSET Known(a) : IsFiniteSet(S) /\ Cardinality(S) \in Nat
<1>1. a.nIdCount \in Nat /\ Known(a) \subseteq 0..(a.nIdCount - 1)
  BY AddrManAssumption DEF Typed
<1>2. IsFiniteSet(0..(a.nIdCount - 1))
  BY <1>1, FS_Interval
<1>3. \A S \in SUBSET Known(a) : IsFiniteSet(S)
  BY <1>1, <1>2, FS_Subset
<1> QED
  BY <1>1, <1>3, FS_CardinalityType

\* Sets of new buckets.
LEMMA BucketSets ==
    \A S \in SUBSET NewBuckets : IsFiniteSet(S) /\ Cardinality(S) \in Nat
<1>1. IsFiniteSet(NewBuckets)
  BY AddrManAssumption, FS_Interval DEF NewBuckets
<1> QED
  BY <1>1, FS_Subset, FS_CardinalityType

\* A set loses or gains one element.
LEMMA OneLess ==
    ASSUME NEW S, IsFiniteSet(S), NEW x \in S
    PROVE  Cardinality(S \ {x}) = Cardinality(S) - 1 /\ Cardinality(S) \in Nat \ {0}
<1>1. Cardinality(S \ {x}) = Cardinality(S) - 1 /\ IsFiniteSet(S \ {x})
  BY FS_RemoveElement
<1>2. Cardinality(S) \in Nat /\ Cardinality(S \ {x}) \in Nat
  BY <1>1, FS_CardinalityType
<1> QED
  BY <1>1, <1>2

LEMMA OneMore ==
    ASSUME NEW S, IsFiniteSet(S), NEW x, x \notin S
    PROVE  Cardinality(S \cup {x}) = Cardinality(S) + 1 /\ Cardinality(S) \in Nat
  BY FS_AddElement, FS_CardinalityType

---------------------------------------------------------------------------
(* InOrder: the place of an element is one more than its rank. *)

Rank(S, n) == Cardinality({m \in S : m < n})

\* Ranks grow with the elements, and lie below the size of the set.
LEMMA RankIs ==
    ASSUME NEW S \in SUBSET Nat, IsFiniteSet(S)
    PROVE  /\ \A n \in S : Rank(S, n) \in 0..(Cardinality(S) - 1)
           /\ \A n, m \in S : n < m => Rank(S, n) < Rank(S, m)
           /\ \A n, m \in S : Rank(S, n) = Rank(S, m) => n = m
<1> DEFINE Below(n) == {m \in S : m < n}
<1>1. \A n \in Nat : Below(n) \in SUBSET S /\ IsFiniteSet(Below(n)) /\ Cardinality(Below(n)) \in Nat
  BY FS_Subset, FS_CardinalityType
<1>2. ASSUME NEW n \in S PROVE Rank(S, n) \in 0..(Cardinality(S) - 1)
  <2>1. Below(n) \in SUBSET (S \ {n})
    OBVIOUS
  <2>2. IsFiniteSet(S \ {n}) /\ Cardinality(S \ {n}) = Cardinality(S) - 1 /\ Cardinality(S) \in Nat
    BY FS_RemoveElement, OneLess
  <2>3. Cardinality(Below(n)) <= Cardinality(S \ {n})
    BY <2>1, <2>2, FS_Subset
  <2> QED
    BY <1>1, <2>2, <2>3 DEF Rank
<1>3. ASSUME NEW n \in S, NEW m \in S, n < m PROVE Rank(S, n) < Rank(S, m)
  <2>1. Below(n) \cup {n} \in SUBSET Below(m) /\ n \notin Below(n)
    <3>1. n \in Nat /\ m \in Nat /\ \A x \in Nat : x < n => x < m
      BY <1>3
    <3>2. \A x \in Below(n) : x \in Below(m)
      BY <3>1
    <3>3. n \in Below(m) /\ n \notin Below(n)
      BY <1>3, <3>1
    <3> QED
      BY <3>2, <3>3
  <2>2. Cardinality(Below(n) \cup {n}) = Cardinality(Below(n)) + 1
    BY <1>1, <2>1, OneMore
  <2>3. Cardinality(Below(n) \cup {n}) <= Cardinality(Below(m))
    BY <1>1, <2>1, FS_Subset
  <2> QED
    BY <1>1, <2>2, <2>3 DEF Rank
<1>4. ASSUME NEW n \in S, NEW m \in S, Rank(S, n) = Rank(S, m) PROVE n = m
  <2>1. Rank(S, n) \in Int /\ n \in Int /\ m \in Int
    BY <1>2
  <2>2. ~(n < m) /\ ~(m < n)
    BY <1>3, <1>4, <2>1
  <2> QED
    BY <2>1, <2>2
<1> QED
  BY <1>2, <1>3, <1>4

\* Each number below the size is the rank of an element: as many ranks as elements.
LEMMA RankOnto ==
    ASSUME NEW S \in SUBSET Nat, IsFiniteSet(S), NEW r \in 0..(Cardinality(S) - 1)
    PROVE  \E n \in S : Rank(S, n) = r
<1> DEFINE T == 0..(Cardinality(S) - 1)
           f == [n \in S |-> Rank(S, n)]
<1>1. Cardinality(S) \in Nat
  BY FS_CardinalityType
<1>2. IsFiniteSet(T) /\ Cardinality(T) = Cardinality(S)
  BY <1>1, FS_Interval
<1>3. f \in [S -> T] /\ \A n, m \in S : f[n] = f[m] => n = m
  BY RankIs
<1>4. f \in Injection(S, T)
  BY <1>3, Fun_IsInj
<1>5. f \in Surjection(S, T)
  BY <1>2, <1>4, FS_Injection
<1>6. \A t \in T : \E n \in S : f[n] = t
  BY <1>5 DEF Surjection
<1> QED
  BY <1>6

\* InOrder lists a finite set of numbers, each once, in increasing order.
LEMMA InOrderIs ==
    ASSUME NEW S \in SUBSET Nat, IsFiniteSet(S)
    PROVE  /\ Cardinality(S) \in Nat
           /\ InOrder(S) \in Seq(S) /\ Len(InOrder(S)) = Cardinality(S)
           /\ \A k \in 1..Cardinality(S) : InOrder(S)[k] \in S /\ Rank(S, InOrder(S)[k]) = k - 1
           /\ \A n \in S : /\ Rank(S, n) + 1 \in 1..Cardinality(S)
                           /\ InOrder(S)[Rank(S, n) + 1] = n
<1>1. Cardinality(S) \in Nat
  BY FS_CardinalityType
<1>2. ASSUME NEW k \in 1..Cardinality(S)
      PROVE  InOrder(S)[k] \in S /\ Rank(S, InOrder(S)[k]) = k - 1
  <2>1. \E n \in S : Rank(S, n) = k - 1
    BY <1>1, RankOnto
  <2>2. InOrder(S)[k] = CHOOSE n \in S : Rank(S, n) = k - 1
    BY DEF InOrder, Rank
  <2> QED
    BY <2>1, <2>2
<1>3. InOrder(S) \in [1..Cardinality(S) -> S]
  BY <1>2 DEF InOrder
<1>4. InOrder(S) \in Seq(S) /\ Len(InOrder(S)) = Cardinality(S)
  BY <1>1, <1>3
<1>5. ASSUME NEW n \in S
      PROVE  Rank(S, n) + 1 \in 1..Cardinality(S) /\ InOrder(S)[Rank(S, n) + 1] = n
  <2>1. Rank(S, n) \in 0..(Cardinality(S) - 1)
    BY RankIs
  <2>2. Rank(S, n) + 1 \in 1..Cardinality(S) /\ (Rank(S, n) + 1) - 1 = Rank(S, n)
    BY <1>1, <2>1
  <2>3. Rank(S, InOrder(S)[Rank(S, n) + 1]) = Rank(S, n) /\ InOrder(S)[Rank(S, n) + 1] \in S
    BY <1>2, <2>2
  <2>4. \A m \in S : Rank(S, m) = Rank(S, n) => m = n
    BY RankIs
  <2> QED
    BY <2>2, <2>3, <2>4
<1> QED
  BY <1>1, <1>2, <1>4, <1>5

---------------------------------------------------------------------------
(* Changes of one entry and of the new buckets. *)

\* The assignments of Add_, MakeTried, ShrinkNew and Good_, by name.
Raise(a, n) == [a EXCEPT !.mapInfo[n].nRefCount = @ + 1]
Fill(a, b, n) == [a EXCEPT !.vvNew[b] = @ \cup {n}]
Unlink(a, b, n) == [a EXCEPT !.mapInfo[n].nRefCount = @ - 1, !.vvNew[b] = @ \ {n}]
Succeed(a, n, t) == [a EXCEPT !.mapInfo[n].nLastSuccess = t]

\* Two objects with the same entries at the same places.
SamePlaces(a, c) ==
    /\ Known(c) = Known(a)
    /\ \A n \in Known(a) : /\ c.mapInfo[n].addr = a.mapInfo[n].addr
                           /\ c.mapInfo[n].fInTried = a.mapInfo[n].fInTried
                           /\ c.mapInfo[n].nRandomPos = a.mapInfo[n].nRandomPos
    /\ c.mapAddr = a.mapAddr /\ c.vRandom = a.vRandom /\ c.vvTried = a.vvTried
    /\ c.nTried = a.nTried

\* The indexes agree after a change of other fields of the entries.
LEMMA IndexesKept ==
    ASSUME NEW a, NEW c, Typed(a), Indexed(a), Known(c) = Known(a),
           c.mapAddr = a.mapAddr, c.vRandom = a.vRandom,
           \A m \in Known(a) : /\ c.mapInfo[m].addr = a.mapInfo[m].addr
                               /\ c.mapInfo[m].nRandomPos = a.mapInfo[m].nRandomPos
    PROVE  Indexed(c)
<1>1. /\ \A p \in DOMAIN a.mapAddr : a.mapAddr[p] \in Known(a)
      /\ \A i \in 1..Len(a.vRandom) : a.vRandom[i] \in Known(a)
  BY DEF Typed
<1>2. \A n \in Known(c) : /\ Ip[c.mapInfo[n].addr] \in DOMAIN c.mapAddr
                          /\ c.mapAddr[Ip[c.mapInfo[n].addr]] = n
  BY DEF Indexed
<1>3. \A p \in DOMAIN c.mapAddr : Ip[c.mapInfo[c.mapAddr[p]].addr] = p
  BY <1>1 DEF Indexed
<1>4. \A n \in Known(c) : /\ c.mapInfo[n].nRandomPos \in 1..Len(c.vRandom)
                          /\ c.vRandom[c.mapInfo[n].nRandomPos] = n
  BY DEF Indexed
<1>5. \A i \in 1..Len(c.vRandom) : c.mapInfo[c.vRandom[i]].nRandomPos = i
  BY <1>1 DEF Indexed
<1> QED
  BY <1>2, <1>3, <1>4, <1>5 DEF Indexed

\* Indexes and tried buckets depend on no more.
LEMMA PlacesKept ==
    ASSUME NEW a, NEW c, NEW d, Typed(a), SamePlaces(a, c)
    PROVE  /\ Tried(c) = Tried(a) /\ Untried(c) = Untried(a)
           /\ Indexed(a) => Indexed(c)
           /\ Placed(a) => Placed(c)
           /\ Counted(a, d) /\ c.nNew = a.nNew => Counted(c, d)
<1>1. Tried(c) = Tried(a) /\ Untried(c) = Untried(a)
  BY DEF SamePlaces, Tried, Untried
<1>2. /\ \A p \in DOMAIN a.mapAddr : a.mapAddr[p] \in Known(a)
      /\ \A i \in 1..Len(a.vRandom) : a.vRandom[i] \in Known(a)
      /\ \A k \in TriedBuckets : \A i \in 1..Len(a.vvTried[k]) : a.vvTried[k][i] \in Known(a)
  BY DEF Typed
<1>3. ASSUME Indexed(a) PROVE Indexed(c)
  <2>1. /\ Known(c) = Known(a) /\ c.mapAddr = a.mapAddr /\ c.vRandom = a.vRandom
        /\ \A m \in Known(a) : /\ c.mapInfo[m].addr = a.mapInfo[m].addr
                               /\ c.mapInfo[m].nRandomPos = a.mapInfo[m].nRandomPos
    BY DEF SamePlaces
  <2> QED
    BY <1>3, <2>1, IndexesKept
<1>4. ASSUME Placed(a) PROVE Placed(c)
  <2>1. \A n \in Known(a) : TriedBucket(c, n) = TriedBucket(a, n)
    BY DEF SamePlaces, TriedBucket
  <2>2. Tried(a) \subseteq Known(a)
    BY DEF Tried
  <2> QED
    BY <1>1, <1>2, <1>4, <2>1, <2>2 DEF SamePlaces, Placed
<1>5. ASSUME Counted(a, d), c.nNew = a.nNew PROVE Counted(c, d)
  BY <1>1, <1>5 DEF Counted, SamePlaces
<1> QED
  BY <1>1, <1>3, <1>4, <1>5

\* Add_ raises the reference count of an entry that is not tried.
LEMMA Raised ==
    ASSUME NEW a, NEW exempt, NEW n \in Untried(a), Sound(a, {}, exempt \cup {n}, 0),
           a.mapInfo[n].nRefCount < BucketsPerAddress
    PROVE  LET c == Raise(a, n)
           IN  /\ Sound(c, {n}, exempt, 0)
               /\ Untried(c) = Untried(a) /\ c.vvNew = a.vvNew
<1> DEFINE c == Raise(a, n)
<1>1. /\ c = Obj(c)
      /\ c.mapInfo = [a.mapInfo EXCEPT ![n].nRefCount = @ + 1]
      /\ c.nIdCount = a.nIdCount /\ c.mapAddr = a.mapAddr /\ c.vRandom = a.vRandom
      /\ c.nTried = a.nTried /\ c.vvTried = a.vvTried /\ c.nNew = a.nNew
      /\ c.vvNew = a.vvNew
  <2>1. a = Obj(a)
    BY DEF Sound, Typed
  <2> QED
    BY <2>1 DEF Obj, Raise
<1>2. n \in Known(a) /\ n \notin Tried(a)
  BY DEF Untried
<1>3. a.mapInfo \in [Known(a) -> InfoType]
  BY DEF Sound, Typed
<1>4. /\ Known(c) = Known(a)
      /\ c.mapInfo[n] = [a.mapInfo[n] EXCEPT !.nRefCount = @ + 1]
      /\ \A m \in Known(a) \ {n} : c.mapInfo[m] = a.mapInfo[m]
  BY <1>1, <1>2, <1>3 DEF Known
<1>5. /\ c.mapInfo \in [Known(a) -> InfoType]
      /\ \A m \in Known(a) :
            c.mapInfo[m].nRefCount = a.mapInfo[m].nRefCount + (IF m = n THEN 1 ELSE 0)
      /\ \A m \in Known(a) : /\ c.mapInfo[m].addr = a.mapInfo[m].addr
                             /\ c.mapInfo[m].fInTried = a.mapInfo[m].fInTried
                             /\ c.mapInfo[m].nLastSuccess = a.mapInfo[m].nLastSuccess
                             /\ c.mapInfo[m].nRandomPos = a.mapInfo[m].nRandomPos
  BY <1>1, <1>2, <1>3, <1>4 DEF InfoType, Known
<1> HIDE DEF c
<1>6. SamePlaces(a, c) /\ c.nNew = a.nNew /\ c.vvNew = a.vvNew
  BY <1>1, <1>4, <1>5 DEF SamePlaces
<1>7. Typed(c)
  BY <1>1, <1>4, <1>5 DEF Sound, Typed
<1>8. Tried(c) = Tried(a) /\ Untried(c) = Untried(a)
      /\ Indexed(c) /\ Placed(c) /\ Counted(c, 0)
  BY <1>6, PlacesKept DEF Sound
<1>9. Bounded(c)
  BY <1>6 DEF Sound, Bounded, SamePlaces
<1>10. Referenced(c, {n}, exempt)
  <2>1. \A m \in Known(a) : Buckets(c, m) = Buckets(a, m)
    BY <1>6 DEF Buckets
  <2>2. \A m \in Known(a) : a.mapInfo[m].nRefCount \in Nat /\ Cardinality(Buckets(a, m)) \in Nat
    BY <1>3, BucketSets DEF InfoType, Buckets
  <2>3. Tried(a) \subseteq Known(a) /\ Untried(a) \subseteq Known(a)
    BY DEF Tried, Untried
  <2> QED
    BY <1>2, <1>4, <1>5, <1>8, <2>1, <2>2, <2>3, AddrManAssumption DEF Sound, Referenced
<1> QED
  BY <1>6, <1>7, <1>8, <1>9, <1>10 DEF c, Sound

\* Add_ puts that entry in a bucket with room.
LEMMA Filled ==
    ASSUME NEW a, NEW exempt, NEW n \in Untried(a), NEW b \in NewBuckets,
           Sound(a, {n}, exempt, 0),
           n \notin a.vvNew[b], Cardinality(a.vvNew[b]) < NewBucketSize
    PROVE  Sound(Fill(a, b, n), {}, exempt, 0)
<1> DEFINE c == Fill(a, b, n)
<1>1. /\ c = Obj(c)
      /\ c.vvNew = [a.vvNew EXCEPT ![b] = @ \cup {n}]
      /\ c.nIdCount = a.nIdCount /\ c.mapInfo = a.mapInfo /\ c.mapAddr = a.mapAddr
      /\ c.vRandom = a.vRandom /\ c.nTried = a.nTried /\ c.vvTried = a.vvTried
      /\ c.nNew = a.nNew
  <2>1. a = Obj(a)
    BY DEF Sound, Typed
  <2> QED
    BY <2>1 DEF Obj, Fill
<1> HIDE DEF c
<1>2. n \in Known(a) /\ a.vvNew \in [NewBuckets -> SUBSET Known(a)] /\ Typed(a)
      /\ Known(c) = Known(a)
  BY <1>1 DEF Untried, Sound, Typed, Known
<1>3. SamePlaces(a, c)
  BY <1>1, <1>2 DEF SamePlaces
<1>4. Typed(c)
  BY <1>1, <1>2 DEF Sound, Typed
<1>5. Tried(c) = Tried(a) /\ Untried(c) = Untried(a)
      /\ Indexed(c) /\ Placed(c) /\ Counted(c, 0)
  BY <1>1, <1>2, <1>3, PlacesKept DEF Sound
<1>6. Bounded(c)
  <2>1. IsFiniteSet(a.vvNew[b]) /\ Cardinality(a.vvNew[b]) \in Nat
    BY <1>2, KnownFinite
  <2>2. Cardinality(a.vvNew[b] \cup {n}) = Cardinality(a.vvNew[b]) + 1
    BY <2>1, OneMore
  <2>3. Cardinality(a.vvNew[b] \cup {n}) <= NewBucketSize
    BY <2>1, <2>2, AddrManAssumption
  <2> QED
    BY <1>1, <1>2, <2>3 DEF Sound, Bounded
<1>7. Referenced(c, {}, exempt)
  <2>1. Buckets(c, n) = Buckets(a, n) \cup {b} /\ b \notin Buckets(a, n)
    BY <1>1, <1>2 DEF Buckets
  <2>2. Cardinality(Buckets(c, n)) = Cardinality(Buckets(a, n)) + 1
    BY <2>1, BucketSets, OneMore DEF Buckets
  <2>3. \A m \in Known(a) \ {n} : Buckets(c, m) = Buckets(a, m)
    BY <1>1, <1>2 DEF Buckets
  <2>4. \A m \in Known(a) : Cardinality(Buckets(a, m)) \in Nat
    BY BucketSets DEF Buckets
  <2>5. Tried(a) \subseteq Known(a) /\ n \notin Tried(a)
    BY DEF Tried, Untried
  <2> QED
    BY <1>1, <1>2, <1>5, <2>2, <2>3, <2>4, <2>5 DEF Sound, Referenced
<1> QED
  BY <1>4, <1>5, <1>6, <1>7 DEF c, Sound

\* An entry leaves a bucket, and loses the reference: ShrinkNew and MakeTried.
LEMMA Unlinked ==
    ASSUME NEW a, NEW b \in NewBuckets, NEW n \in a.vvNew[b], NEW held, NEW exempt, NEW d,
           n \notin held, Sound(a, held, exempt, d)
    PROVE  LET c == Unlink(a, b, n)
           IN  /\ Sound(c, held, exempt \cup {n}, d)
               /\ n \in Untried(a) /\ Untried(c) = Untried(a) /\ SamePlaces(a, c)
               /\ c.mapInfo[n].nRefCount \in Nat
               /\ \A m \in Known(a) : c.mapInfo[m].nLastSuccess = a.mapInfo[m].nLastSuccess
               /\ c.vvNew = [a.vvNew EXCEPT ![b] = @ \ {n}]
               /\ Buckets(c, n) = Buckets(a, n) \ {b}
               /\ Cardinality(c.vvNew[b]) < NewBucketSize
<1> DEFINE c == Unlink(a, b, n)
<1>1. /\ c = Obj(c)
      /\ c.mapInfo = [a.mapInfo EXCEPT ![n].nRefCount = @ - 1]
      /\ c.vvNew = [a.vvNew EXCEPT ![b] = @ \ {n}]
      /\ c.nIdCount = a.nIdCount /\ c.mapAddr = a.mapAddr /\ c.vRandom = a.vRandom
      /\ c.nTried = a.nTried /\ c.vvTried = a.vvTried /\ c.nNew = a.nNew
  <2>1. a = Obj(a)
    BY DEF Sound, Typed
  <2> DEFINE e == [a EXCEPT !.mapInfo[n].nRefCount = @ - 1]
  <2>2. e = [nIdCount |-> a.nIdCount, mapInfo |-> [a.mapInfo EXCEPT ![n].nRefCount = @ - 1],
             mapAddr |-> a.mapAddr, vRandom |-> a.vRandom, nTried |-> a.nTried,
             vvTried |-> a.vvTried, nNew |-> a.nNew, vvNew |-> a.vvNew]
    BY <2>1 DEF Obj, Unlink
  <2>3. c = [e EXCEPT !.vvNew[b] = @ \ {n}]
    BY DEF Unlink
  <2> HIDE DEF c, e
  <2> QED
    BY <2>2, <2>3 DEF Obj
<1> HIDE DEF c
<1>2. a.mapInfo \in [Known(a) -> InfoType] /\ a.vvNew \in [NewBuckets -> SUBSET Known(a)]
      /\ Typed(a) /\ n \in Known(a)
  BY DEF Sound, Typed
<1>3. b \in Buckets(a, n) /\ Buckets(c, n) = Buckets(a, n) \ {b}
      /\ \A m \in Known(a) \ {n} : Buckets(c, m) = Buckets(a, m)
  BY <1>1, <1>2 DEF Buckets
<1>4. n \in Untried(a) /\ n \notin Tried(a)
  BY <1>2, <1>3 DEF Sound, Referenced, Untried
<1>5. /\ Cardinality(Buckets(c, n)) = Cardinality(Buckets(a, n)) - 1
      /\ Cardinality(Buckets(a, n)) \in Nat \ {0}
      /\ a.mapInfo[n].nRefCount = Cardinality(Buckets(a, n))
  <2>1. IsFiniteSet(Buckets(a, n))
    BY BucketSets DEF Buckets
  <2>2. Cardinality(Buckets(a, n) \ {b}) = Cardinality(Buckets(a, n)) - 1
        /\ Cardinality(Buckets(a, n)) \in Nat \ {0}
    BY <1>3, <2>1, OneLess
  <2>3. a.mapInfo[n].nRefCount = Cardinality(Buckets(a, n)) + 0
    BY <1>2 DEF Sound, Referenced
  <2> QED
    BY <1>3, <2>2, <2>3
<1>6. /\ Known(c) = Known(a)
      /\ c.mapInfo[n] = [a.mapInfo[n] EXCEPT !.nRefCount = @ - 1]
      /\ \A m \in Known(a) \ {n} : c.mapInfo[m] = a.mapInfo[m]
  BY <1>1, <1>2 DEF Known
<1>7. /\ c.mapInfo \in [Known(a) -> InfoType]
      /\ c.mapInfo[n].nRefCount = a.mapInfo[n].nRefCount - 1
      /\ \A m \in Known(a) : /\ c.mapInfo[m].addr = a.mapInfo[m].addr
                             /\ c.mapInfo[m].fInTried = a.mapInfo[m].fInTried
                             /\ c.mapInfo[m].nLastSuccess = a.mapInfo[m].nLastSuccess
                             /\ c.mapInfo[m].nRandomPos = a.mapInfo[m].nRandomPos
  <2>1. a.mapInfo[n].nRefCount - 1 \in Nat
    BY <1>5
  <2>2. c.mapInfo[n] \in InfoType /\ c.mapInfo[n].nRefCount = a.mapInfo[n].nRefCount - 1
        /\ c.mapInfo[n].addr = a.mapInfo[n].addr
        /\ c.mapInfo[n].fInTried = a.mapInfo[n].fInTried
        /\ c.mapInfo[n].nLastSuccess = a.mapInfo[n].nLastSuccess
        /\ c.mapInfo[n].nRandomPos = a.mapInfo[n].nRandomPos
    BY <1>2, <1>6, <2>1 DEF InfoType
  <2>3. c.mapInfo \in [Known(a) -> InfoType]
    BY <1>1, <1>2, <1>6, <2>2 DEF Known
  <2> QED
    BY <1>6, <2>2, <2>3
<1>8. SamePlaces(a, c) /\ c.nNew = a.nNew
  BY <1>1, <1>6, <1>7 DEF SamePlaces
<1>9. Typed(c)
  BY <1>1, <1>2, <1>6, <1>7 DEF Sound, Typed
<1>10. Tried(c) = Tried(a) /\ Untried(c) = Untried(a)
       /\ Indexed(c) /\ Placed(c) /\ Counted(c, d)
  BY <1>2, <1>8, PlacesKept DEF Sound
<1>11. Bounded(c) /\ Cardinality(c.vvNew[b]) < NewBucketSize
  <2>1. IsFiniteSet(a.vvNew[b])
    BY <1>2, KnownFinite
  <2>2. Cardinality(a.vvNew[b] \ {n}) = Cardinality(a.vvNew[b]) - 1
        /\ Cardinality(a.vvNew[b]) \in Nat /\ Cardinality(a.vvNew[b]) <= NewBucketSize
    BY <2>1, OneLess DEF Sound, Bounded
  <2>3. c.vvNew[b] = a.vvNew[b] \ {n} /\ \A e \in NewBuckets \ {b} : c.vvNew[e] = a.vvNew[e]
    BY <1>1, <1>2
  <2> QED
    BY <1>1, <2>2, <2>3, AddrManAssumption DEF Sound, Bounded
<1>12. Referenced(c, held, exempt \cup {n})
  <2>1. \A m \in Known(a) : a.mapInfo[m].nRefCount \in Nat /\ Cardinality(Buckets(a, m)) \in Nat
    BY <1>2, BucketSets DEF InfoType, Buckets
  <2>2. Tried(a) \subseteq Known(a) /\ Untried(a) \subseteq Known(a)
    BY DEF Tried, Untried
  <2>3. \A m \in Known(a) : c.mapInfo[m].nRefCount =
           Cardinality(Buckets(c, m)) + (IF m \in held THEN 1 ELSE 0)
    <3>1. \A m \in Known(a) : a.mapInfo[m].nRefCount =
             Cardinality(Buckets(a, m)) + (IF m \in held THEN 1 ELSE 0)
      BY DEF Sound, Referenced
    <3>2. c.mapInfo[n].nRefCount = Cardinality(Buckets(c, n)) + 0
      BY <1>5, <1>7
    <3> QED
      BY <1>3, <1>6, <3>1, <3>2
  <2>4. \A m \in Tried(a) : Buckets(c, m) = {} /\ m \notin held /\ c.mapInfo[m].nLastSuccess # 0
    BY <1>3, <1>4, <1>7, <2>2 DEF Sound, Referenced
  <2>5. a.mapInfo[n].nRefCount <= BucketsPerAddress
    BY <1>4 DEF Sound, Referenced
  <2>6. c.mapInfo[n].nRefCount <= BucketsPerAddress
    BY <1>2, <1>7, <2>1, <2>5, AddrManAssumption
  <2>7. \A m \in Untried(a) \ {n} : /\ c.mapInfo[m].nRefCount <= BucketsPerAddress
                                    /\ m \in exempt \/ c.mapInfo[m].nRefCount # 0
    BY <1>6, <2>2 DEF Sound, Referenced
  <2> QED
    BY <1>6, <1>10, <2>3, <2>4, <2>6, <2>7 DEF Referenced
<1>13. c.mapInfo[n].nRefCount \in Nat
  BY <1>5, <1>7
<1> QED
  BY <1>1, <1>3, <1>4, <1>7, <1>8, <1>9, <1>10, <1>11, <1>12, <1>13 DEF c, Sound

\* Good_ notes the time of a success.
LEMMA Succeeded ==
    ASSUME NEW a, NEW n \in Known(a), NEW t \in 1..MaxTime, NEW exempt,
           Sound(a, {}, exempt, 0)
    PROVE  LET c == Succeed(a, n, t)
           IN  /\ Sound(c, {}, exempt, 0)
               /\ SamePlaces(a, c) /\ Untried(c) = Untried(a) /\ c.vvNew = a.vvNew
               /\ c.mapInfo[n].nLastSuccess = t
<1> DEFINE c == Succeed(a, n, t)
<1>1. /\ c = Obj(c)
      /\ c.mapInfo = [a.mapInfo EXCEPT ![n].nLastSuccess = t]
      /\ c.nIdCount = a.nIdCount /\ c.mapAddr = a.mapAddr /\ c.vRandom = a.vRandom
      /\ c.nTried = a.nTried /\ c.vvTried = a.vvTried /\ c.nNew = a.nNew
      /\ c.vvNew = a.vvNew
  <2>1. a = Obj(a)
    BY DEF Sound, Typed
  <2> QED
    BY <2>1 DEF Obj, Succeed
<1> HIDE DEF c
<1>2. a.mapInfo \in [Known(a) -> InfoType] /\ Typed(a) /\ t \in 0..MaxTime /\ t # 0
  BY AddrManAssumption DEF Sound, Typed
<1>3. /\ Known(c) = Known(a)
      /\ c.mapInfo[n] = [a.mapInfo[n] EXCEPT !.nLastSuccess = t]
      /\ \A m \in Known(a) \ {n} : c.mapInfo[m] = a.mapInfo[m]
  BY <1>1, <1>2 DEF Known
<1>4. /\ c.mapInfo \in [Known(a) -> InfoType]
      /\ c.mapInfo[n].nLastSuccess = t
      /\ \A m \in Known(a) : /\ c.mapInfo[m].addr = a.mapInfo[m].addr
                             /\ c.mapInfo[m].fInTried = a.mapInfo[m].fInTried
                             /\ c.mapInfo[m].nRefCount = a.mapInfo[m].nRefCount
                             /\ c.mapInfo[m].nRandomPos = a.mapInfo[m].nRandomPos
  BY <1>1, <1>2, <1>3 DEF InfoType, Known
<1>5. SamePlaces(a, c)
  BY <1>1, <1>3, <1>4 DEF SamePlaces
<1>6. Typed(c)
  BY <1>1, <1>2, <1>3, <1>4 DEF Sound, Typed
<1>7. Tried(c) = Tried(a) /\ Untried(c) = Untried(a)
      /\ Indexed(c) /\ Placed(c) /\ Counted(c, 0)
  BY <1>1, <1>2, <1>5, PlacesKept DEF Sound
<1>8. Bounded(c)
  BY <1>1 DEF Sound, Bounded
<1>9. Referenced(c, {}, exempt)
  <2>1. \A m \in Known(a) : Buckets(c, m) = Buckets(a, m)
    BY <1>1 DEF Buckets
  <2>2. Tried(a) \subseteq Known(a) /\ Untried(a) \subseteq Known(a)
    BY DEF Tried, Untried
  <2>3. \A m \in Tried(a) : c.mapInfo[m].nLastSuccess # 0
    BY <1>2, <1>3, <1>4, <2>2 DEF Sound, Referenced
  <2> QED
    BY <1>3, <1>4, <1>7, <2>1, <2>2, <2>3 DEF Sound, Referenced
<1> QED
  BY <1>1, <1>4, <1>5, <1>6, <1>7, <1>8, <1>9 DEF c, Sound

---------------------------------------------------------------------------
(* Changes of the positions, and of the set of entries. *)

\* Two objects with the same entries in the same buckets.
SameBuckets(a, c) ==
    /\ Known(c) = Known(a)
    /\ \A n \in Known(a) : /\ c.mapInfo[n].addr = a.mapInfo[n].addr
                           /\ c.mapInfo[n].fInTried = a.mapInfo[n].fInTried
                           /\ c.mapInfo[n].nRefCount = a.mapInfo[n].nRefCount
                           /\ c.mapInfo[n].nLastSuccess = a.mapInfo[n].nLastSuccess
    /\ c.vvNew = a.vvNew /\ c.vvTried = a.vvTried
    /\ c.nNew = a.nNew /\ c.nTried = a.nTried

\* The buckets and the counters depend on no more.
LEMMA BucketsKept ==
    ASSUME NEW a, NEW c, NEW held, NEW exempt, NEW d, SameBuckets(a, c),
           Sound(a, held, exempt, d)
    PROVE  /\ Tried(c) = Tried(a) /\ Untried(c) = Untried(a)
           /\ Placed(c) /\ Bounded(c) /\ Counted(c, d) /\ Referenced(c, held, exempt)
<1>1. Tried(c) = Tried(a) /\ Untried(c) = Untried(a)
  BY DEF SameBuckets, Tried, Untried
<1>2. Tried(a) \subseteq Known(a) /\ Untried(a) \subseteq Known(a)
  BY DEF Tried, Untried
<1>3. Placed(c)
  <2>1. \A n \in Known(a) : TriedBucket(c, n) = TriedBucket(a, n)
    BY DEF SameBuckets, TriedBucket
  <2> QED
    BY <1>1, <1>2, <2>1 DEF SameBuckets, Sound, Placed
<1>4. Bounded(c) /\ Counted(c, d)
  BY <1>1 DEF SameBuckets, Sound, Bounded, Counted
<1>5. Referenced(c, held, exempt)
  <2>1. \A n \in Known(a) : Buckets(c, n) = Buckets(a, n)
    BY DEF SameBuckets, Buckets
  <2> QED
    BY <1>1, <1>2, <2>1 DEF SameBuckets, Sound, Referenced
<1> QED
  BY <1>1, <1>3, <1>4, <1>5

\* Two entries change places in vRandom.
LEMMA Swapped ==
    ASSUME NEW a, NEW held, NEW exempt, NEW d, Sound(a, held, exempt, d),
           NEW i \in 1..Len(a.vRandom), NEW j \in 1..Len(a.vRandom)
    PROVE  LET c == SwapRandom(a, i, j)
           IN  /\ Sound(c, held, exempt, d) /\ SameBuckets(a, c)
               /\ Untried(c) = Untried(a)
               /\ c.nIdCount = a.nIdCount /\ c.mapAddr = a.mapAddr
               /\ Len(c.vRandom) = Len(a.vRandom)
               /\ c.vRandom[j] = a.vRandom[i]
<1> DEFINE c == SwapRandom(a, i, j)
           x == a.vRandom[i]
           y == a.vRandom[j]
           info == [a.mapInfo EXCEPT ![x].nRandomPos = j, ![y].nRandomPos = i]
           order == [a.vRandom EXCEPT ![i] = y, ![j] = x]
<1>1. /\ c = Obj(c) /\ c.mapInfo = info /\ c.vRandom = order
      /\ c.nIdCount = a.nIdCount /\ c.mapAddr = a.mapAddr
      /\ c.nTried = a.nTried /\ c.vvTried = a.vvTried /\ c.nNew = a.nNew
      /\ c.vvNew = a.vvNew
  <2>1. a = Obj(a)
    BY DEF Sound, Typed
  <2>2. c = [a EXCEPT !.mapInfo = info, !.vRandom = order]
    BY DEF SwapRandom
  <2> HIDE DEF c, info, order
  <2> QED
    BY <2>1, <2>2 DEF Obj
<1> HIDE DEF c
<1>2. /\ Typed(a) /\ Indexed(a)
      /\ a.mapInfo \in [Known(a) -> InfoType] /\ a.vRandom \in Seq(Known(a))
      /\ x \in Known(a) /\ y \in Known(a)
      /\ i \in Nat \ {0} /\ j \in Nat \ {0}
  <2>1. Typed(a) /\ Indexed(a)
    BY DEF Sound
  <2>2. a.mapInfo \in [Known(a) -> InfoType] /\ a.vRandom \in Seq(Known(a))
    BY <2>1 DEF Typed
  <2>3. x \in Known(a) /\ y \in Known(a)
    BY <2>2
  <2> QED
    BY <2>1, <2>2, <2>3
<1>3. a.mapInfo[x].nRandomPos = i /\ a.mapInfo[y].nRandomPos = j
  BY <1>2 DEF Indexed
<1>4. /\ Known(c) = Known(a)
      /\ c.mapInfo \in [Known(a) -> InfoType]
      /\ \A m \in Known(a) :
            /\ c.mapInfo[m].addr = a.mapInfo[m].addr
            /\ c.mapInfo[m].fInTried = a.mapInfo[m].fInTried
            /\ c.mapInfo[m].nRefCount = a.mapInfo[m].nRefCount
            /\ c.mapInfo[m].nLastSuccess = a.mapInfo[m].nLastSuccess
            /\ c.mapInfo[m].nRandomPos = IF m = y THEN i ELSE IF m = x THEN j
                                         ELSE a.mapInfo[m].nRandomPos
  <2> HIDE DEF x, y
  <2> DEFINE info1 == [a.mapInfo EXCEPT ![x].nRandomPos = j]
  <2>1. /\ info1 \in [Known(a) -> InfoType]
        /\ \A m \in Known(a) :
              /\ info1[m].addr = a.mapInfo[m].addr
              /\ info1[m].fInTried = a.mapInfo[m].fInTried
              /\ info1[m].nRefCount = a.mapInfo[m].nRefCount
              /\ info1[m].nLastSuccess = a.mapInfo[m].nLastSuccess
              /\ info1[m].nRandomPos = IF m = x THEN j ELSE a.mapInfo[m].nRandomPos
    BY <1>2 DEF InfoType
  <2>2. info = [info1 EXCEPT ![y].nRandomPos = i]
    OBVIOUS
  <2> HIDE DEF info, info1
  <2>3. /\ info \in [Known(a) -> InfoType]
        /\ \A m \in Known(a) :
              /\ info[m].addr = info1[m].addr
              /\ info[m].fInTried = info1[m].fInTried
              /\ info[m].nRefCount = info1[m].nRefCount
              /\ info[m].nLastSuccess = info1[m].nLastSuccess
              /\ info[m].nRandomPos = IF m = y THEN i ELSE info1[m].nRandomPos
    <3>1. y \in Known(a) /\ i \in Nat \ {0} /\ info1 \in [Known(a) -> InfoType]
      BY <1>2, <2>1
    <3> QED
      BY <3>1, <2>2 DEF InfoType
  <2> QED
    BY <1>1, <2>1, <2>3 DEF Known
<1>5. /\ c.vRandom \in Seq(Known(a)) /\ Len(c.vRandom) = Len(a.vRandom)
      /\ \A k \in 1..Len(a.vRandom) :
            c.vRandom[k] = IF k = j THEN x ELSE IF k = i THEN y ELSE a.vRandom[k]
  BY <1>1, <1>2
<1> HIDE DEF info, order
<1>6. SameBuckets(a, c)
  BY <1>1, <1>4 DEF SameBuckets
<1>7. Typed(c)
  BY <1>1, <1>2, <1>4, <1>5 DEF Typed
<1>8. Indexed(c)
  <2> HIDE DEF x, y
  <2>1. /\ \A n \in Known(a) : /\ a.mapInfo[n].nRandomPos \in 1..Len(a.vRandom)
                               /\ a.vRandom[a.mapInfo[n].nRandomPos] = n
        /\ \A k \in 1..Len(a.vRandom) : /\ a.vRandom[k] \in Known(a)
                                        /\ a.mapInfo[a.vRandom[k]].nRandomPos = k
        /\ a.vRandom[i] = x /\ a.vRandom[j] = y
    BY <1>2 DEF Indexed, x, y
  <2>2. ASSUME NEW n \in Known(a)
        PROVE  c.mapInfo[n].nRandomPos \in 1..Len(a.vRandom)
               /\ c.vRandom[c.mapInfo[n].nRandomPos] = n
    <3>1. CASE n = y
      BY <1>4, <1>5, <2>1, <3>1
    <3>2. CASE n # y /\ n = x
      BY <1>4, <1>5, <2>1, <3>2
    <3>3. CASE n # y /\ n # x
      <4>1. c.mapInfo[n].nRandomPos = a.mapInfo[n].nRandomPos
        BY <1>4, <3>3
      <4>2. a.mapInfo[n].nRandomPos # i /\ a.mapInfo[n].nRandomPos # j
        BY <2>1, <3>3
      <4>3. c.vRandom[a.mapInfo[n].nRandomPos] = a.vRandom[a.mapInfo[n].nRandomPos]
        BY <1>5, <2>1, <4>2
      <4> QED
        BY <2>1, <4>1, <4>3
    <3> QED
      BY <3>1, <3>2, <3>3
  <2>3. ASSUME NEW k \in 1..Len(a.vRandom) PROVE c.mapInfo[c.vRandom[k]].nRandomPos = k
    <3>1. CASE k = i
      BY <1>4, <1>5, <2>1, <3>1
    <3>2. CASE k = j
      BY <1>4, <1>5, <2>1, <3>2
    <3>3. CASE k # i /\ k # j
      <4>1. c.vRandom[k] = a.vRandom[k] /\ a.vRandom[k] \in Known(a)
        BY <1>2, <1>5, <3>3
      <4>2. a.mapInfo[a.vRandom[k]].nRandomPos = k
        BY <1>2 DEF Indexed
      <4>3. a.vRandom[k] # x /\ a.vRandom[k] # y
        BY <2>1, <3>3, <4>2
      <4> QED
        BY <1>4, <4>1, <4>2, <4>3
    <3> QED
      BY <3>1, <3>2, <3>3
  <2>4. \A p \in DOMAIN a.mapAddr : a.mapAddr[p] \in Known(a)
    BY <1>2 DEF Typed
  <2>5. /\ \A n \in Known(c) : /\ Ip[c.mapInfo[n].addr] \in DOMAIN c.mapAddr
                               /\ c.mapAddr[Ip[c.mapInfo[n].addr]] = n
        /\ \A p \in DOMAIN c.mapAddr : Ip[c.mapInfo[c.mapAddr[p]].addr] = p
    <3>1. /\ c.mapAddr = a.mapAddr /\ Known(c) = Known(a) /\ Indexed(a)
          /\ \A n \in Known(a) : c.mapInfo[n].addr = a.mapInfo[n].addr
      BY <1>1, <1>2, <1>4
    <3> QED
      BY <2>4, <3>1 DEF Indexed
  <2>6. Len(c.vRandom) = Len(a.vRandom) /\ Known(c) = Known(a)
    BY <1>4, <1>5
  <2> QED
    BY <2>2, <2>3, <2>5, <2>6 DEF Indexed
<1>9. Sound(c, held, exempt, d) /\ Untried(c) = Untried(a)
  BY <1>6, <1>7, <1>8, BucketsKept DEF Sound
<1>10. c.vRandom[j] = a.vRandom[i]
  BY <1>5
<1> QED
  BY <1>1, <1>5, <1>6, <1>9, <1>10 DEF c

\* A sequence of elements of a smaller set.
LEMMA SeqOf ==
    ASSUME NEW S, NEW T, NEW q \in Seq(S), \A k \in 1..Len(q) : q[k] \in T
    PROVE  q \in Seq(T)
  OBVIOUS

\* An entry without references goes.
LEMMA Erased ==
    ASSUME NEW a, NEW held, NEW exempt, Sound(a, held, exempt, 0),
           NEW n \in Untried(a), a.mapInfo[n].nRefCount = 0
    PROVE  LET c == Erase(a, n)
           IN  /\ Sound(c, held, exempt \ {n}, 0)
               /\ Known(c) = Known(a) \ {n} /\ Untried(c) = Untried(a) \ {n}
               /\ Tried(c) = Tried(a)
               /\ c.vvNew = a.vvNew
<1> DEFINE c == Erase(a, n)
           s == SwapRandom(a, a.mapInfo[n].nRandomPos, Len(a.vRandom))
           ip == Ip[a.mapInfo[n].addr]
           N == Len(a.vRandom)
           info == [m \in DOMAIN s.mapInfo \ {n} |-> s.mapInfo[m]]
           hosts == [p \in DOMAIN s.mapAddr \ {ip} |-> s.mapAddr[p]]
           order == SubSeq(s.vRandom, 1, Len(s.vRandom) - 1)
<1>1. /\ n \in Known(a) /\ n \notin Tried(a) /\ N \in Nat
      /\ a.mapInfo[n].nRandomPos \in 1..N /\ a.vRandom[a.mapInfo[n].nRandomPos] = n
  BY DEF Untried, Sound, Typed, Indexed
<1>2. N \in 1..N
  BY <1>1
<1>3. /\ Sound(s, held, exempt, 0) /\ SameBuckets(a, s) /\ Untried(s) = Untried(a)
      /\ s.nIdCount = a.nIdCount /\ s.mapAddr = a.mapAddr
      /\ Len(s.vRandom) = N /\ s.vRandom[N] = n
  BY <1>1, <1>2, Swapped
<1>4. /\ c = Obj(c) /\ c.mapInfo = info /\ c.mapAddr = hosts /\ c.vRandom = order
      /\ c.nIdCount = s.nIdCount /\ c.nTried = s.nTried /\ c.vvTried = s.vvTried
      /\ c.nNew = s.nNew - 1 /\ c.vvNew = s.vvNew
  <2>1. s = Obj(s)
    BY <1>3 DEF Sound, Typed
  <2>2. c = [s EXCEPT !.mapInfo = info, !.mapAddr = hosts, !.vRandom = order,
                      !.nNew = s.nNew - 1]
    BY <2>1 DEF Erase, Obj
  <2> HIDE DEF c, s, info, hosts, order
  <2> QED
    BY <2>1, <2>2 DEF Obj
<1>5. Tried(s) = Tried(a)
  BY <1>3 DEF SameBuckets, Tried
<1> HIDE DEF c, s
<1>6. /\ Known(s) = Known(a) /\ n \in Untried(s) /\ n \notin Tried(s) /\ n \in Known(s)
      /\ s.vvNew = a.vvNew /\ Ip[s.mapInfo[n].addr] = ip /\ s.mapInfo[n].nRefCount = 0
      /\ Typed(s) /\ Indexed(s) /\ Placed(s) /\ Bounded(s) /\ Counted(s, 0)
      /\ Referenced(s, held, exempt)
  BY <1>1, <1>3, <1>5 DEF SameBuckets, Sound
<1>7. /\ Known(c) = Known(s) \ {n}
      /\ \A m \in Known(c) : c.mapInfo[m] = s.mapInfo[m]
      /\ DOMAIN c.mapAddr = DOMAIN s.mapAddr \ {ip}
      /\ \A p \in DOMAIN c.mapAddr : c.mapAddr[p] = s.mapAddr[p]
  BY <1>4 DEF Known
<1>8. Tried(c) = Tried(s) /\ Untried(c) = Untried(s) \ {n}
  BY <1>6, <1>7 DEF Tried, Untried
<1>9. n \notin held /\ Buckets(s, n) = {}
  <2>1. IsFiniteSet(Buckets(s, n)) /\ Cardinality(Buckets(s, n)) \in Nat
    BY BucketSets DEF Buckets
  <2>2. Cardinality(Buckets(s, n)) + (IF n \in held THEN 1 ELSE 0) = 0
    BY <1>6 DEF Referenced
  <2>3. n \notin held /\ Cardinality(Buckets(s, n)) = 0
    BY <2>1, <2>2
  <2> QED
    BY <2>1, <2>3, FS_EmptySet
<1>10. /\ Len(c.vRandom) = N - 1 /\ N - 1 \in Nat
       /\ \A k \in 1..(N - 1) : /\ c.vRandom[k] = s.vRandom[k]
                                /\ c.vRandom[k] \in Known(c)
  <2>1. s.vRandom \in Seq(Known(s))
    BY <1>6 DEF Typed
  <2>2. Len(c.vRandom) = N - 1 /\ N - 1 \in Nat /\ \A k \in 1..(N - 1) : c.vRandom[k] = s.vRandom[k]
    BY <1>1, <1>3, <1>4, <2>1
  <2>3. \A k \in 1..(N - 1) : s.vRandom[k] # n
    BY <1>1, <1>3, <1>6 DEF Indexed
  <2> QED
    BY <1>1, <1>3, <1>7, <2>1, <2>2, <2>3
<1>11. Typed(c)
  <2>1. c.mapInfo \in [Known(c) -> InfoType]
    <3>1. \A m \in DOMAIN s.mapInfo : s.mapInfo[m] \in InfoType
      BY <1>6 DEF Typed, Known
    <3>2. info \in [DOMAIN s.mapInfo \ {n} -> InfoType]
      BY <3>1
    <3>3. Known(c) = DOMAIN s.mapInfo \ {n}
      BY <1>7 DEF Known
    <3> QED
      BY <1>4, <3>2, <3>3
  <2>2. c.mapAddr \in [DOMAIN c.mapAddr -> Known(c)] /\ DOMAIN c.mapAddr \subseteq Ips
    <3>1. \A p \in DOMAIN s.mapAddr : /\ s.mapAddr[p] \in Known(s)
                                      /\ s.mapAddr[p] = n => p = ip
      BY <1>6 DEF Typed, Indexed
    <3>2. \A p \in DOMAIN s.mapAddr \ {ip} : s.mapAddr[p] \in Known(c)
      BY <1>7, <3>1
    <3>3. hosts \in [DOMAIN s.mapAddr \ {ip} -> Known(c)]
      BY <3>2
    <3>4. DOMAIN s.mapAddr \subseteq Ips
      BY <1>6 DEF Typed
    <3> HIDE DEF hosts, ip
    <3> QED
      BY <1>4, <1>7, <3>3, <3>4
  <2>3. c.vRandom \in Seq(Known(c))
    <3>1. s.vRandom \in Seq(Known(s))
      BY <1>6 DEF Typed
    <3>2. c.vRandom \in Seq(Known(s))
      BY <1>1, <1>3, <1>4, <3>1
    <3> QED
      BY <1>10, <3>2, SeqOf
  <2>4. c.vvTried \in [TriedBuckets -> Seq(Known(c))]
    <3>1. s.vvTried \in [TriedBuckets -> Seq(Known(s))]
      BY <1>6 DEF Typed
    <3>2. \A k \in TriedBuckets : \A i \in 1..Len(s.vvTried[k]) : s.vvTried[k][i] \in Tried(s)
      BY <1>6 DEF Placed
    <3>3. Tried(s) \subseteq Known(c)
      BY <1>6, <1>7 DEF Tried
    <3>4. \A k \in TriedBuckets : s.vvTried[k] \in Seq(Known(c))
      BY <3>1, <3>2, <3>3, SeqOf
    <3> QED
      BY <1>4, <3>1, <3>4
  <2>5. c.vvNew \in [NewBuckets -> SUBSET Known(c)]
    BY <1>4, <1>6, <1>7, <1>9 DEF Typed, Buckets
  <2>6. c.nNew \in Nat
    <3>1. IsFiniteSet(Untried(s)) /\ s.nNew = Cardinality(Untried(s))
      BY <1>6, KnownFinite DEF Counted, Typed, Untried
    <3>2. Cardinality(Untried(s)) \in Nat \ {0}
      BY <1>6, <3>1, OneLess
    <3> QED
      BY <1>4, <3>1, <3>2
  <2>7. /\ c.nIdCount \in 0..MaxIds /\ Known(c) \subseteq 0..(c.nIdCount - 1) /\ c.nTried \in Nat
    BY <1>4, <1>6, <1>7 DEF Typed
  <2> QED
    BY <1>4, <2>1, <2>2, <2>3, <2>4, <2>5, <2>6, <2>7 DEF Typed
<1>12. Indexed(c)
  <2>1. \A m \in Known(c) : /\ Ip[c.mapInfo[m].addr] \in DOMAIN c.mapAddr
                            /\ c.mapAddr[Ip[c.mapInfo[m].addr]] = m
    BY <1>6, <1>7 DEF Indexed
  <2>2. \A p \in DOMAIN c.mapAddr : Ip[c.mapInfo[c.mapAddr[p]].addr] = p
    <3>1. \A p \in DOMAIN c.mapAddr : c.mapAddr[p] \in Known(c)
      BY <1>11 DEF Typed
    <3> QED
      BY <1>6, <1>7, <3>1 DEF Indexed
  <2>3. \A m \in Known(c) : /\ c.mapInfo[m].nRandomPos \in 1..Len(c.vRandom)
                            /\ c.vRandom[c.mapInfo[m].nRandomPos] = m
    <3>1. \A m \in Known(s) : /\ s.mapInfo[m].nRandomPos \in 1..N
                              /\ s.vRandom[s.mapInfo[m].nRandomPos] = m
      BY <1>3, <1>6 DEF Indexed
    <3>2. \A m \in Known(c) : s.mapInfo[m].nRandomPos # N
      BY <1>3, <1>7, <3>1
    <3>3. \A m \in Known(c) : s.mapInfo[m].nRandomPos \in 1..(N - 1)
      BY <1>1, <1>7, <3>1, <3>2
    <3> QED
      BY <1>7, <1>10, <3>1, <3>3
  <2>4. \A i \in 1..Len(c.vRandom) : c.mapInfo[c.vRandom[i]].nRandomPos = i
    <3>1. \A i \in 1..N : s.mapInfo[s.vRandom[i]].nRandomPos = i
      BY <1>3, <1>6 DEF Indexed
    <3> QED
      BY <1>1, <1>7, <1>10, <3>1
  <2> QED
    BY <2>1, <2>2, <2>3, <2>4 DEF Indexed
<1>13. Placed(c)
  <2>1. Tried(s) \subseteq Known(c)
    BY <1>6, <1>7 DEF Tried
  <2>2. \A m \in Tried(s) : TriedBucket(c, m) = TriedBucket(s, m)
    BY <1>7, <2>1 DEF TriedBucket
  <2> QED
    BY <1>4, <1>6, <1>8, <2>2 DEF Placed
<1>14. Bounded(c)
  BY <1>4, <1>6 DEF Bounded
<1>15. Counted(c, 0)
  <2>1. IsFiniteSet(Untried(s)) /\ Cardinality(Untried(s)) \in Nat
    BY <1>6, KnownFinite DEF Untried
  <2>2. Cardinality(Untried(s) \ {n}) = Cardinality(Untried(s)) - 1
    BY <1>6, <2>1, OneLess
  <2>3. s.nNew = Cardinality(Untried(s))
    BY <1>6 DEF Counted, Typed
  <2> QED
    BY <1>4, <1>6, <1>8, <2>1, <2>2, <2>3 DEF Counted
<1>16. Referenced(c, held, exempt \ {n})
  <2>1. \A m \in Known(c) : Buckets(c, m) = Buckets(s, m) /\ m \in Known(s)
    BY <1>4, <1>7 DEF Buckets
  <2>2. Tried(s) \subseteq Known(c) /\ Untried(c) \subseteq Known(c)
    BY <1>6, <1>7 DEF Tried, Untried
  <2>3. \A m \in Untried(c) : m \in Untried(s) /\ m # n
    BY <1>8
  <2> QED
    BY <1>6, <1>7, <1>8, <2>1, <2>2, <2>3 DEF Referenced
<1> QED
  BY <1>3, <1>4, <1>5, <1>6, <1>7, <1>8, <1>11, <1>12, <1>13, <1>14, <1>15, <1>16 DEF c, Sound

\* More entries may be without a bucket.
LEMMA Weakened ==
    ASSUME NEW a, NEW held, NEW exempt, NEW more, NEW d, Sound(a, held, exempt, d),
           exempt \subseteq more
    PROVE  Sound(a, held, more, d)
  BY DEF Sound, Referenced

\* ShrinkNew makes room in a bucket, and takes out no other entry.
LEMMA Shrunk ==
    ASSUME NEW a, NEW held, NEW exempt, Sound(a, held, exempt, 0),
           NEW b \in NewBuckets, NEW n \in a.vvNew[b], n \notin held
    PROVE  LET c == ShrinkNew(a, b, n)
           IN  /\ Sound(c, held, exempt, 0)
               /\ Tried(c) = Tried(a) /\ Untried(a) \ {n} \subseteq Untried(c)
               /\ c.vvNew = [a.vvNew EXCEPT ![b] = @ \ {n}]
               /\ Cardinality(c.vvNew[b]) < NewBucketSize
<1> DEFINE u == Unlink(a, b, n)
           c == ShrinkNew(a, b, n)
<1>1. /\ Sound(u, held, exempt \cup {n}, 0)
      /\ n \in Untried(a) /\ Untried(u) = Untried(a) /\ SamePlaces(a, u)
      /\ u.mapInfo[n].nRefCount \in Nat
      /\ u.vvNew = [a.vvNew EXCEPT ![b] = @ \ {n}]
      /\ Cardinality(u.vvNew[b]) < NewBucketSize
  <2> HIDE DEF u, c
  <2>1. LET v == Unlink(a, b, n)
        IN  /\ Sound(v, held, exempt \cup {n}, 0)
            /\ n \in Untried(a) /\ Untried(v) = Untried(a) /\ SamePlaces(a, v)
            /\ v.mapInfo[n].nRefCount \in Nat
            /\ \A m \in Known(a) : v.mapInfo[m].nLastSuccess = a.mapInfo[m].nLastSuccess
            /\ v.vvNew = [a.vvNew EXCEPT ![b] = @ \ {n}]
            /\ Buckets(v, n) = Buckets(a, n) \ {b}
            /\ Cardinality(v.vvNew[b]) < NewBucketSize
    BY Unlinked
  <2> QED
    BY <2>1 DEF u
<1>2. c = IF u.mapInfo[n].nRefCount = 0 THEN Erase(u, n) ELSE u
  BY DEF ShrinkNew, Unlink
<1> HIDE DEF u, c
<1>3. Tried(u) = Tried(a)
  BY <1>1 DEF SamePlaces, Tried
<1>4. CASE u.mapInfo[n].nRefCount = 0
  <2>1. /\ Sound(c, held, (exempt \cup {n}) \ {n}, 0)
        /\ Untried(c) = Untried(u) \ {n} /\ Tried(c) = Tried(u) /\ c.vvNew = u.vvNew
    BY <1>1, <1>2, <1>4, Erased
  <2>2. (exempt \cup {n}) \ {n} \subseteq exempt
    OBVIOUS
  <2>3. Sound(c, held, exempt, 0)
    BY <2>1, <2>2, Weakened
  <2> QED
    BY <1>1, <1>3, <2>1, <2>3 DEF c
<1>5. CASE u.mapInfo[n].nRefCount # 0
  <2>1. Sound(u, held, exempt, 0)
    BY <1>1, <1>5 DEF Sound, Referenced
  <2> QED
    BY <1>1, <1>2, <1>3, <1>5, <2>1 DEF c
<1> QED
  BY <1>4, <1>5

\* Create makes an entry of a host that is not known, without a bucket.
LEMMA Created ==
    ASSUME NEW a, NEW exempt, Sound(a, {}, exempt, 0), NEW s \in Service, NEW src \in Source,
           Ip[s] \notin DOMAIN a.mapAddr, a.nIdCount < MaxIds
    PROVE  LET c == [Create(a, s, src) EXCEPT !.nNew = @ + 1]
               n == a.nIdCount
           IN  /\ Sound(c, {}, exempt \cup {n}, 0)
               /\ n \in Untried(c) /\ Untried(a) \subseteq Untried(c) /\ Tried(c) = Tried(a)
               /\ c.mapInfo[n].nRefCount = 0
               /\ c.vvNew = a.vvNew /\ \A b \in NewBuckets : n \notin c.vvNew[b]
<1> DEFINE n == a.nIdCount
           c == [Create(a, s, src) EXCEPT !.nNew = @ + 1]
           new == [addr |-> s, source |-> src, nLastSuccess |-> 0, nRefCount |-> 0,
                   fInTried |-> FALSE, nRandomPos |-> Len(a.vRandom) + 1]
           info == [m \in DOMAIN a.mapInfo \cup {n} |-> IF m = n THEN new ELSE a.mapInfo[m]]
           hosts == [p \in DOMAIN a.mapAddr \cup {Ip[s]} |->
                        IF p = Ip[s] THEN n ELSE a.mapAddr[p]]
           order == Append(a.vRandom, n)
<1>1. /\ c = Obj(c) /\ c.mapInfo = info /\ c.mapAddr = hosts /\ c.vRandom = order
      /\ c.nIdCount = n + 1 /\ c.nTried = a.nTried /\ c.vvTried = a.vvTried
      /\ c.nNew = a.nNew + 1 /\ c.vvNew = a.vvNew
  <2>1. a = Obj(a)
    BY DEF Sound, Typed
  <2>2. Create(a, s, src) = [a EXCEPT !.nIdCount = n + 1, !.mapInfo = info, !.mapAddr = hosts,
                                      !.vRandom = order]
    BY <2>1 DEF Create, Obj
  <2>3. c = [Create(a, s, src) EXCEPT !.nNew = @ + 1]
    OBVIOUS
  <2> HIDE DEF c, info, hosts, order
  <2> QED
    BY <2>1, <2>2, <2>3 DEF Obj
<1> HIDE DEF c
<1>2. /\ Typed(a) /\ Indexed(a) /\ Placed(a) /\ Bounded(a) /\ Counted(a, 0)
      /\ Referenced(a, {}, exempt)
      /\ n \in Nat /\ n \notin Known(a) /\ Ip[s] \in Ips
      /\ Len(a.vRandom) \in Nat /\ a.vRandom \in Seq(Known(a))
  <2>1. Typed(a)
    BY DEF Sound
  <2>2. n \in Nat /\ n \notin Known(a)
    BY <2>1, AddrManAssumption DEF Typed
  <2>3. Ip[s] \in Ips
    BY DEF Ips
  <2>4. a.vRandom \in Seq(Known(a))
    BY <2>1 DEF Typed
  <2> QED
    BY <2>1, <2>2, <2>3, <2>4 DEF Sound
<1>3. /\ Known(c) = Known(a) \cup {n}
      /\ c.mapInfo[n] = new
      /\ \A m \in Known(a) : c.mapInfo[m] = a.mapInfo[m]
      /\ DOMAIN c.mapAddr = DOMAIN a.mapAddr \cup {Ip[s]}
      /\ c.mapAddr[Ip[s]] = n
      /\ \A p \in DOMAIN a.mapAddr : c.mapAddr[p] = a.mapAddr[p]
      /\ Len(c.vRandom) = Len(a.vRandom) + 1
      /\ c.vRandom[Len(a.vRandom) + 1] = n
      /\ \A i \in 1..Len(a.vRandom) : c.vRandom[i] = a.vRandom[i]
  <2>1. /\ Known(c) = Known(a) \cup {n} /\ c.mapInfo[n] = new
        /\ \A m \in Known(a) : c.mapInfo[m] = a.mapInfo[m]
    BY <1>1, <1>2 DEF Known
  <2>2. /\ DOMAIN c.mapAddr = DOMAIN a.mapAddr \cup {Ip[s]}
        /\ c.mapAddr[Ip[s]] = n
        /\ \A p \in DOMAIN a.mapAddr : c.mapAddr[p] = a.mapAddr[p]
    BY <1>1
  <2>3. /\ Len(c.vRandom) = Len(a.vRandom) + 1
        /\ c.vRandom[Len(a.vRandom) + 1] = n
        /\ \A i \in 1..Len(a.vRandom) : c.vRandom[i] = a.vRandom[i]
    BY <1>1, <1>2
  <2> QED
    BY <2>1, <2>2, <2>3
<1>4. new \in InfoType /\ new.fInTried = FALSE /\ new.nRefCount = 0 /\ new.addr = s
      /\ new.nRandomPos = Len(a.vRandom) + 1
  BY <1>2, AddrManAssumption DEF InfoType
<1> HIDE DEF new
<1>5. Tried(c) = Tried(a) /\ Untried(c) = Untried(a) \cup {n}
  BY <1>2, <1>3, <1>4 DEF Tried, Untried
<1>6. Typed(c)
  <2>1. c.nIdCount \in 0..MaxIds /\ Known(c) \subseteq 0..(c.nIdCount - 1)
    BY <1>1, <1>2, <1>3, AddrManAssumption DEF Typed
  <2>2. c.mapInfo \in [Known(c) -> InfoType]
    <3>1. \A m \in Known(c) : c.mapInfo[m] \in InfoType
      BY <1>2, <1>3, <1>4 DEF Typed
    <3>2. info \in [DOMAIN a.mapInfo \cup {n} -> InfoType]
      <4>1. \A m \in DOMAIN a.mapInfo : a.mapInfo[m] \in InfoType
        BY <1>2 DEF Typed, Known
      <4> QED
        BY <1>4, <4>1
    <3> QED
      BY <1>1, <1>3, <3>2 DEF Known
  <2>3. DOMAIN c.mapAddr \subseteq Ips /\ c.mapAddr \in [DOMAIN c.mapAddr -> Known(c)]
    <3>1. DOMAIN a.mapAddr \subseteq Ips /\ \A p \in DOMAIN a.mapAddr : a.mapAddr[p] \in Known(a)
      BY <1>2 DEF Typed
    <3>2. hosts \in [DOMAIN a.mapAddr \cup {Ip[s]} -> Known(a) \cup {n}]
      BY <3>1
    <3> QED
      BY <1>1, <1>2, <1>3, <3>1, <3>2
  <2>4. c.vRandom \in Seq(Known(c))
    BY <1>1, <1>2, <1>3
  <2>5. c.nTried \in Nat /\ c.nNew \in Nat
    BY <1>1, <1>2 DEF Typed
  <2>6. c.vvTried \in [TriedBuckets -> Seq(Known(c))]
    <3>1. a.vvTried \in [TriedBuckets -> Seq(Known(a))]
      BY <1>2 DEF Typed
    <3>2. \A k \in TriedBuckets : a.vvTried[k] \in Seq(Known(c))
      BY <1>3, <3>1
    <3> QED
      BY <1>1, <3>1, <3>2
  <2>7. c.vvNew \in [NewBuckets -> SUBSET Known(c)]
    <3>1. a.vvNew \in [NewBuckets -> SUBSET Known(a)]
      BY <1>2 DEF Typed
    <3>2. \A b \in NewBuckets : a.vvNew[b] \in SUBSET Known(c)
      BY <1>3, <3>1
    <3> QED
      BY <1>1, <3>1, <3>2
  <2> QED
    BY <1>1, <2>1, <2>2, <2>3, <2>4, <2>5, <2>6, <2>7 DEF Typed
<1>7. Indexed(c)
  <2>1. \A p \in DOMAIN a.mapAddr : a.mapAddr[p] \in Known(a)
    BY <1>2 DEF Typed
  <2>2. \A m \in Known(c) : /\ Ip[c.mapInfo[m].addr] \in DOMAIN c.mapAddr
                            /\ c.mapAddr[Ip[c.mapInfo[m].addr]] = m
    BY <1>2, <1>3, <1>4 DEF Indexed
  <2>3. \A p \in DOMAIN c.mapAddr : Ip[c.mapInfo[c.mapAddr[p]].addr] = p
    BY <1>2, <1>3, <1>4, <2>1 DEF Indexed
  <2>4. \A m \in Known(c) : /\ c.mapInfo[m].nRandomPos \in 1..Len(c.vRandom)
                            /\ c.vRandom[c.mapInfo[m].nRandomPos] = m
    <3>1. \A m \in Known(a) : /\ a.mapInfo[m].nRandomPos \in 1..Len(a.vRandom)
                              /\ a.vRandom[a.mapInfo[m].nRandomPos] = m
      BY <1>2 DEF Indexed
    <3>2. Len(a.vRandom) + 1 \in 1..Len(c.vRandom)
          /\ \A i \in 1..Len(a.vRandom) : i \in 1..Len(c.vRandom)
      BY <1>2, <1>3
    <3>3. ASSUME NEW m \in Known(a)
          PROVE  /\ c.mapInfo[m].nRandomPos \in 1..Len(c.vRandom)
                 /\ c.vRandom[c.mapInfo[m].nRandomPos] = m
      <4>1. c.mapInfo[m] = a.mapInfo[m]
        BY <1>3
      <4>2. a.mapInfo[m].nRandomPos \in 1..Len(a.vRandom)
            /\ a.vRandom[a.mapInfo[m].nRandomPos] = m
        BY <3>1
      <4>3. c.vRandom[a.mapInfo[m].nRandomPos] = a.vRandom[a.mapInfo[m].nRandomPos]
        BY <1>3, <4>2
      <4> QED
        BY <3>2, <4>1, <4>2, <4>3
    <3>4. c.mapInfo[n].nRandomPos \in 1..Len(c.vRandom) /\ c.vRandom[c.mapInfo[n].nRandomPos] = n
      BY <1>3, <1>4, <3>2
    <3> QED
      BY <1>3, <3>3, <3>4
  <2>5. \A i \in 1..Len(c.vRandom) : c.mapInfo[c.vRandom[i]].nRandomPos = i
    <3>1. \A i \in 1..Len(a.vRandom) : a.vRandom[i] \in Known(a)
                                       /\ a.mapInfo[a.vRandom[i]].nRandomPos = i
      BY <1>2 DEF Indexed
    <3>2. \A i \in 1..Len(c.vRandom) : i \in 1..Len(a.vRandom) \/ i = Len(a.vRandom) + 1
      BY <1>2, <1>3
    <3>3. ASSUME NEW i \in 1..Len(a.vRandom) PROVE c.mapInfo[c.vRandom[i]].nRandomPos = i
      <4>1. c.vRandom[i] = a.vRandom[i] /\ a.vRandom[i] \in Known(a)
        BY <1>3, <3>1
      <4>2. c.mapInfo[a.vRandom[i]] = a.mapInfo[a.vRandom[i]]
        BY <1>3, <4>1
      <4> QED
        BY <3>1, <4>1, <4>2
    <3>4. c.mapInfo[c.vRandom[Len(a.vRandom) + 1]].nRandomPos = Len(a.vRandom) + 1
      BY <1>3, <1>4
    <3> QED
      BY <3>2, <3>3, <3>4
  <2> QED
    BY <2>2, <2>3, <2>4, <2>5 DEF Indexed
<1>8. Placed(c)
  <2>1. \A m \in Tried(a) : TriedBucket(c, m) = TriedBucket(a, m)
    BY <1>3 DEF TriedBucket, Tried
  <2> QED
    BY <1>1, <1>2, <1>5, <2>1 DEF Placed
<1>9. Bounded(c)
  BY <1>1, <1>2 DEF Bounded
<1>10. Counted(c, 0)
  <2>1. IsFiniteSet(Untried(a)) /\ n \notin Untried(a)
    BY <1>2, KnownFinite DEF Untried
  <2>2. Cardinality(Untried(a) \cup {n}) = Cardinality(Untried(a)) + 1
    BY <2>1, OneMore
  <2>3. a.nNew \in Nat
    BY <1>2 DEF Typed
  <2> QED
    BY <1>1, <1>2, <1>5, <2>2, <2>3 DEF Counted
<1>11. \A b \in NewBuckets : n \notin c.vvNew[b]
  BY <1>1, <1>2 DEF Typed
<1>12. Referenced(c, {}, exempt \cup {n})
  <2>1. \A m \in Known(c) : Buckets(c, m) = Buckets(a, m)
    BY <1>1 DEF Buckets
  <2>2. Buckets(c, n) = {} /\ Cardinality({}) = 0
    BY <1>11, FS_EmptySet DEF Buckets
  <2>3. Tried(a) \subseteq Known(a) /\ Untried(a) \subseteq Known(a)
    BY DEF Tried, Untried
  <2>4. c.mapInfo[n].nRefCount = Cardinality(Buckets(c, n)) + 0
        /\ c.mapInfo[n].nRefCount <= BucketsPerAddress
    BY <1>3, <1>4, <2>2, AddrManAssumption
  <2>5. \A m \in Known(a) : c.mapInfo[m].nRefCount = Cardinality(Buckets(c, m)) + 0
    BY <1>2, <1>3, <2>1 DEF Referenced
  <2>6. \A m \in Tried(c) : Buckets(c, m) = {} /\ c.mapInfo[m].nLastSuccess # 0
    BY <1>2, <1>3, <1>5, <2>1, <2>3 DEF Referenced
  <2>7. \A m \in Untried(a) : c.mapInfo[m].nRefCount <= BucketsPerAddress
                               /\ (m \in exempt \/ c.mapInfo[m].nRefCount # 0)
    BY <1>2, <1>3, <2>3 DEF Referenced
  <2> QED
    BY <1>3, <1>5, <2>4, <2>5, <2>6, <2>7 DEF Referenced
<1> QED
  BY <1>1, <1>3, <1>4, <1>5, <1>6, <1>7, <1>8, <1>9, <1>10, <1>11, <1>12 DEF c, Sound

---------------------------------------------------------------------------
(* Changes of the tried buckets. *)

\* The first line of MakeTried after the loop.
TakeOff(a) == [a EXCEPT !.nNew = @ - 1]

\* It takes an entry that is not tried off the counter.
LEMMA TakenOff ==
    ASSUME NEW a, NEW exempt, Sound(a, {}, exempt, 0), NEW n \in Untried(a)
    PROVE  LET c == TakeOff(a)
           IN  /\ Sound(c, {}, exempt, 1)
               /\ c.mapInfo = a.mapInfo /\ c.vvTried = a.vvTried /\ c.vvNew = a.vvNew
               /\ Known(c) = Known(a) /\ Tried(c) = Tried(a) /\ Untried(c) = Untried(a)
<1> DEFINE c == TakeOff(a)
<1>1. /\ c = Obj(c) /\ c.nNew = a.nNew - 1
      /\ c.mapInfo = a.mapInfo
      /\ c.nIdCount = a.nIdCount /\ c.mapAddr = a.mapAddr /\ c.vRandom = a.vRandom
      /\ c.nTried = a.nTried /\ c.vvTried = a.vvTried /\ c.vvNew = a.vvNew
  <2>1. a = Obj(a)
    BY DEF Sound, Typed
  <2> QED
    BY <2>1 DEF Obj, TakeOff
<1> HIDE DEF c
<1>2. Known(c) = Known(a) /\ Tried(c) = Tried(a) /\ Untried(c) = Untried(a)
  BY <1>1 DEF Known, Tried, Untried
<1>3. a.nNew \in Nat \ {0} /\ a.nNew = Cardinality(Untried(a))
  <2>1. IsFiniteSet(Untried(a)) /\ a.nNew \in Nat /\ a.nNew + 0 = Cardinality(Untried(a))
    BY KnownFinite DEF Sound, Typed, Counted, Untried
  <2>2. Cardinality(Untried(a)) \in Nat \ {0}
    BY <2>1, OneLess
  <2> QED
    BY <2>1, <2>2
<1>4. Typed(c)
  BY <1>1, <1>2, <1>3 DEF Sound, Typed
<1>5. Indexed(c)
  BY <1>1, <1>2 DEF Sound, Indexed
<1>6. Placed(c)
  BY <1>1, <1>2 DEF Sound, Placed, TriedBucket
<1>7. Bounded(c)
  BY <1>1 DEF Sound, Bounded
<1>8. Counted(c, 1)
  BY <1>1, <1>2, <1>3 DEF Sound, Counted
<1>9. Referenced(c, {}, exempt)
  BY <1>1, <1>2 DEF Sound, Referenced, Buckets
<1> QED
  BY <1>1, <1>2, <1>4, <1>5, <1>6, <1>7, <1>8, <1>9 DEF c, Sound

\* The bucket of an address is one of the tried buckets.
LEMMA TriedBucketType ==
    ASSUME NEW a, Typed(a), NEW n \in Known(a)
    PROVE  TriedBucket(a, n) \in TriedBuckets
<1>1. a.mapInfo[n].addr \in Service
  BY DEF Typed, InfoType
<1> QED
  BY <1>1, AddrManAssumption DEF TriedBucket

\* MakeTried finds room in the tried bucket.
LEMMA Pushed ==
    ASSUME NEW a, NEW exempt, NEW n \in Untried(a), Sound(a, {}, exempt \cup {n}, 1),
           Buckets(a, n) = {},
           a.mapInfo[n].nLastSuccess # 0,
           Len(a.vvTried[TriedBucket(a, n)]) < TriedBucketSize
    PROVE  LET c == PushTried(a, TriedBucket(a, n), n)
           IN  /\ Sound(c, {}, exempt, 0)
               /\ Known(c) = Known(a) /\ Tried(c) = Tried(a) \cup {n}
               /\ c.vvNew = a.vvNew
<1> DEFINE k == TriedBucket(a, n)
           c == PushTried(a, k, n)
           v == a.vvTried[k]
<1>1. /\ Typed(a) /\ Indexed(a) /\ Placed(a) /\ Bounded(a) /\ Counted(a, 1)
      /\ Referenced(a, {}, exempt \cup {n})
      /\ n \in Known(a) /\ n \notin Tried(a) /\ k \in TriedBuckets
      /\ a.mapInfo \in [Known(a) -> InfoType] /\ a.vvTried \in [TriedBuckets -> Seq(Known(a))]
  BY TriedBucketType DEF Sound, Untried, Typed
<1>2. /\ c = Obj(c)
      /\ c.mapInfo = [a.mapInfo EXCEPT ![n].fInTried = TRUE]
      /\ c.vvTried = [a.vvTried EXCEPT ![k] = Append(v, n)]
      /\ c.nTried = a.nTried + 1
      /\ c.nIdCount = a.nIdCount /\ c.mapAddr = a.mapAddr /\ c.vRandom = a.vRandom
      /\ c.nNew = a.nNew /\ c.vvNew = a.vvNew
  <2> DEFINE info == [a.mapInfo EXCEPT ![n].fInTried = TRUE]
             tried == [a.vvTried EXCEPT ![k] = Append(v, n)]
  <2>1. a = Obj(a)
    BY <1>1 DEF Typed
  <2>2. c = [a EXCEPT !.vvTried = tried, !.nTried = @ + 1, !.mapInfo = info]
    BY <2>1 DEF PushTried, Obj
  <2> HIDE DEF c, info, tried
  <2> QED
    BY <2>1, <2>2 DEF Obj, info, tried
<1> HIDE DEF c, k
<1>3. /\ Known(c) = Known(a)
      /\ c.mapInfo \in [Known(a) -> InfoType]
      /\ \A m \in Known(a) : /\ c.mapInfo[m].addr = a.mapInfo[m].addr
                             /\ c.mapInfo[m].nRefCount = a.mapInfo[m].nRefCount
                             /\ c.mapInfo[m].nLastSuccess = a.mapInfo[m].nLastSuccess
                             /\ c.mapInfo[m].nRandomPos = a.mapInfo[m].nRandomPos
                             /\ m # n => c.mapInfo[m].fInTried = a.mapInfo[m].fInTried
      /\ c.mapInfo[n].fInTried
  <2>1. a.mapInfo \in [Known(a) -> InfoType] /\ n \in Known(a)
    BY <1>1
  <2>2. /\ Known(c) = Known(a)
        /\ c.mapInfo[n] = [a.mapInfo[n] EXCEPT !.fInTried = TRUE]
        /\ \A m \in Known(a) \ {n} : c.mapInfo[m] = a.mapInfo[m]
    BY <1>2, <2>1 DEF Known
  <2>3. /\ c.mapInfo[n] \in InfoType /\ c.mapInfo[n].fInTried
        /\ c.mapInfo[n].addr = a.mapInfo[n].addr
        /\ c.mapInfo[n].nRefCount = a.mapInfo[n].nRefCount
        /\ c.mapInfo[n].nLastSuccess = a.mapInfo[n].nLastSuccess
        /\ c.mapInfo[n].nRandomPos = a.mapInfo[n].nRandomPos
    BY <2>1, <2>2 DEF InfoType
  <2>4. c.mapInfo \in [Known(a) -> InfoType]
    BY <1>2, <2>1, <2>2, <2>3 DEF Known
  <2> QED
    BY <2>2, <2>3, <2>4
<1>4. Tried(c) = Tried(a) \cup {n} /\ Untried(c) = Untried(a) \ {n}
  BY <1>1, <1>3 DEF Tried, Untried
<1>5. /\ Len(v) \in Nat /\ v \in Seq(Known(a))
      /\ c.vvTried[k] = Append(v, n) /\ Len(c.vvTried[k]) = Len(v) + 1
      /\ c.vvTried[k][Len(v) + 1] = n
      /\ \A i \in 1..Len(v) : c.vvTried[k][i] = v[i]
      /\ \A l \in TriedBuckets \ {k} : c.vvTried[l] = a.vvTried[l]
  <2>1. v \in Seq(Known(a)) /\ c.vvTried[k] = Append(v, n)
        /\ \A l \in TriedBuckets \ {k} : c.vvTried[l] = a.vvTried[l]
    <3>1. a.vvTried \in [TriedBuckets -> Seq(Known(a))] /\ k \in TriedBuckets
      BY <1>1
    <3>2. c.vvTried = [a.vvTried EXCEPT ![k] = Append(v, n)]
      BY <1>2
    <3> QED
      BY <3>1, <3>2
  <2> HIDE DEF v
  <2> QED
    BY <1>1, <2>1
<1>6. Typed(c)
  <2>1. c.vvTried \in [TriedBuckets -> Seq(Known(a))]
    <3>1. Append(v, n) \in Seq(Known(a))
      BY <1>1, <1>5
    <3> HIDE DEF v
    <3> QED
      BY <1>1, <1>2, <3>1
  <2>2. Typed(a) /\ a.nTried + 1 \in Nat
    BY <1>1 DEF Typed
  <2> QED
    BY <1>2, <1>3, <2>1, <2>2 DEF Typed
<1>7. Indexed(c)
  BY <1>1, <1>2, <1>3, IndexesKept
<1>8. Placed(c)
  <2> HIDE DEF v
  <2>1. \A m \in Known(a) : TriedBucket(c, m) = TriedBucket(a, m)
    BY <1>3 DEF TriedBucket
  <2>2. Tried(a) \subseteq Known(a) /\ TriedBucket(c, n) = k /\ k \in TriedBuckets
    BY <1>1, <2>1 DEF Tried, k
  <2>3. \A l \in TriedBuckets : \A i \in 1..Len(a.vvTried[l]) :
           /\ a.vvTried[l][i] \in Tried(a) /\ TriedBucket(c, a.vvTried[l][i]) = l
           /\ a.vvTried[l][i] # n
           /\ \A j \in 1..Len(a.vvTried[l]) : a.vvTried[l][i] = a.vvTried[l][j] => i = j
    BY <1>1, <2>1, <2>2 DEF Placed
  <2>4. v = a.vvTried[k] /\ \A i \in 1..(Len(v) + 1) : i \in 1..Len(v) \/ i = Len(v) + 1
    BY <1>5 DEF v
  <2>5. ASSUME NEW i \in 1..Len(c.vvTried[k])
        PROVE  /\ c.vvTried[k][i] \in Tried(c) /\ TriedBucket(c, c.vvTried[k][i]) = k
               /\ \A j \in 1..Len(c.vvTried[k]) : c.vvTried[k][i] = c.vvTried[k][j] => i = j
    <3>1. CASE i = Len(v) + 1
      BY <1>4, <1>5, <2>2, <2>3, <2>4, <3>1
    <3>2. CASE i \in 1..Len(v)
      BY <1>4, <1>5, <2>2, <2>3, <2>4, <3>2
    <3> QED
      BY <1>5, <2>4, <3>1, <3>2
  <2>6. ASSUME NEW l \in TriedBuckets \ {k}, NEW i \in 1..Len(c.vvTried[l])
        PROVE  /\ c.vvTried[l][i] \in Tried(c) /\ TriedBucket(c, c.vvTried[l][i]) = l
               /\ \A j \in 1..Len(c.vvTried[l]) : c.vvTried[l][i] = c.vvTried[l][j] => i = j
    BY <1>4, <1>5, <2>3
  <2>7. ASSUME NEW m \in Tried(c)
        PROVE  \E i \in 1..Len(c.vvTried[TriedBucket(c, m)]) :
                  c.vvTried[TriedBucket(c, m)][i] = m
    <3>1. CASE m = n
      <4>1. Len(v) + 1 \in 1..Len(c.vvTried[k])
        BY <1>5
      <4> QED
        BY <1>5, <2>2, <3>1, <4>1
    <3>2. CASE m \in Tried(a)
      <4>1. PICK i \in 1..Len(a.vvTried[TriedBucket(a, m)]) :
               a.vvTried[TriedBucket(a, m)][i] = m
        BY <1>1, <3>2 DEF Placed
      <4>2. TriedBucket(c, m) = TriedBucket(a, m) /\ TriedBucket(a, m) \in TriedBuckets
        BY <1>1, <2>1, <2>2, <3>2, TriedBucketType
      <4>3. CASE TriedBucket(a, m) = k
        <5>1. i \in 1..Len(v) /\ i \in 1..Len(c.vvTried[k])
          BY <1>5, <2>4, <4>1, <4>3
        <5> QED
          BY <1>5, <2>4, <4>1, <4>2, <4>3, <5>1
      <4>4. CASE TriedBucket(a, m) # k
        BY <1>5, <4>1, <4>2, <4>4
      <4> QED
        BY <4>3, <4>4
    <3> QED
      BY <1>4, <3>1, <3>2
  <2> QED
    BY <2>5, <2>6, <2>7 DEF Placed
<1>9. Bounded(c)
  <2>1. Len(v) < TriedBucketSize
    BY DEF k
  <2>2. Len(c.vvTried[k]) <= TriedBucketSize
    BY <1>5, <2>1, AddrManAssumption
  <2> QED
    BY <1>1, <1>2, <1>5, <2>2 DEF Bounded
<1>10. Counted(c, 0)
  <2>1. IsFiniteSet(Tried(a)) /\ IsFiniteSet(Untried(a))
    BY <1>1, KnownFinite DEF Tried, Untried
  <2>2. Cardinality(Tried(a) \cup {n}) = Cardinality(Tried(a)) + 1
    BY <1>1, <2>1, OneMore
  <2>3. Cardinality(Untried(a) \ {n}) = Cardinality(Untried(a)) - 1
        /\ Cardinality(Untried(a)) \in Nat
    BY <2>1, OneLess
  <2>4. a.nNew \in Nat
    BY <1>1 DEF Typed
  <2> QED
    BY <1>1, <1>2, <1>4, <2>2, <2>3, <2>4 DEF Counted
<1>11. Referenced(c, {}, exempt)
  <2>1. \A m \in Known(a) : Buckets(c, m) = Buckets(a, m)
    BY <1>2 DEF Buckets
  <2>2. Tried(a) \subseteq Known(a) /\ Untried(a) \subseteq Known(a)
    BY DEF Tried, Untried
  <2>3. \A m \in Tried(c) : Buckets(c, m) = {} /\ c.mapInfo[m].nLastSuccess # 0
    BY <1>1, <1>3, <1>4, <2>1, <2>2 DEF Referenced
  <2>4. \A m \in Untried(c) : /\ c.mapInfo[m].nRefCount <= BucketsPerAddress
                              /\ m \in exempt \/ c.mapInfo[m].nRefCount # 0
    BY <1>1, <1>3, <1>4, <2>2 DEF Referenced
  <2> QED
    BY <1>1, <1>3, <2>1, <2>3, <2>4 DEF Referenced
<1> QED
  BY <1>2, <1>3, <1>4, <1>6, <1>7, <1>8, <1>9, <1>10, <1>11 DEF c, k, Sound

\* One turn of SelectTried, by name.
SwapTried(a, k, i, j) ==
    [a EXCEPT !.vvTried[k] = [a.vvTried[k] EXCEPT ![j] = a.vvTried[k][i],
                                                  ![i] = a.vvTried[k][j]]]

\* Two entries of a tried bucket change places.
LEMMA SwappedTried ==
    ASSUME NEW a, NEW exempt, NEW d, Sound(a, {}, exempt, d), NEW k \in TriedBuckets,
           NEW i \in 1..Len(a.vvTried[k]), NEW j \in 1..Len(a.vvTried[k])
    PROVE  LET c == SwapTried(a, k, i, j)
           IN  /\ Sound(c, {}, exempt, d)
               /\ c.mapInfo = a.mapInfo /\ c.vvNew = a.vvNew
               /\ Known(c) = Known(a) /\ Tried(c) = Tried(a) /\ Untried(c) = Untried(a)
               /\ Len(c.vvTried[k]) = Len(a.vvTried[k])
<1> DEFINE v == a.vvTried[k]
           w == [v EXCEPT ![j] = v[i], ![i] = v[j]]
           c == SwapTried(a, k, i, j)
<1>1. /\ c = Obj(c)
      /\ c.vvTried = [a.vvTried EXCEPT ![k] = w]
      /\ c.mapInfo = a.mapInfo /\ c.nTried = a.nTried
      /\ c.nIdCount = a.nIdCount /\ c.mapAddr = a.mapAddr /\ c.vRandom = a.vRandom
      /\ c.nNew = a.nNew /\ c.vvNew = a.vvNew
  <2> DEFINE tried == [a.vvTried EXCEPT ![k] = w]
  <2>1. a = Obj(a)
    BY DEF Sound, Typed
  <2>2. c = [a EXCEPT !.vvTried = tried]
    BY <2>1 DEF SwapTried, Obj
  <2> HIDE DEF c, tried
  <2> QED
    BY <2>1, <2>2 DEF Obj, tried
<1> HIDE DEF c
<1>2. /\ Typed(a) /\ Placed(a) /\ a.vvTried \in [TriedBuckets -> Seq(Known(a))]
      /\ v \in Seq(Known(a)) /\ Len(v) \in Nat /\ v[i] \in Known(a) /\ v[j] \in Known(a)
  <2>1. Typed(a) /\ Placed(a) /\ a.vvTried \in [TriedBuckets -> Seq(Known(a))]
    BY DEF Sound, Typed
  <2>2. v \in Seq(Known(a)) /\ i \in 1..Len(v) /\ j \in 1..Len(v)
    BY <2>1
  <2> HIDE DEF v
  <2> QED
    BY <2>1, <2>2
<1>3. Known(c) = Known(a) /\ Tried(c) = Tried(a) /\ Untried(c) = Untried(a)
  BY <1>1 DEF Known, Tried, Untried
<1>4. /\ w \in Seq(Known(a)) /\ Len(w) = Len(v)
      /\ \A x \in 1..Len(v) : w[x] = IF x = i THEN v[j] ELSE IF x = j THEN v[i] ELSE v[x]
  <2> HIDE DEF v
  <2>1. i \in 1..Len(v) /\ j \in 1..Len(v)
    BY DEF v
  <2> QED
    BY <1>2, <2>1
<1>5. c.vvTried[k] = w /\ \A l \in TriedBuckets \ {k} : c.vvTried[l] = a.vvTried[l]
  <2> HIDE DEF w
  <2> QED
    BY <1>1, <1>2
<1>6. Typed(c)
  <2>1. c.vvTried \in [TriedBuckets -> Seq(Known(a))]
    <3> HIDE DEF w
    <3> QED
      BY <1>1, <1>2, <1>4
  <2> QED
    BY <1>1, <1>2, <1>3, <2>1 DEF Typed
<1>7. Indexed(c)
  BY <1>1, <1>3 DEF Sound, Indexed
<1>8. Placed(c)
  <2> HIDE DEF w
  <2>1. \A m : TriedBucket(c, m) = TriedBucket(a, m)
    BY <1>1 DEF TriedBucket
  <2>2. \A x \in 1..Len(v) : /\ v[x] \in Tried(a) /\ TriedBucket(a, v[x]) = k
                             /\ \A y \in 1..Len(v) : v[x] = v[y] => x = y
    BY <1>2 DEF Placed
  <2> HIDE DEF v
  <2>3. i \in 1..Len(v) /\ j \in 1..Len(v)
    BY DEF v
  <2>4. \A x \in 1..Len(w) : /\ w[x] \in Tried(c) /\ TriedBucket(c, w[x]) = k
                             /\ \A y \in 1..Len(w) : w[x] = w[y] => x = y
    BY <1>3, <1>4, <2>1, <2>2, <2>3
  <2>5. \A x \in 1..Len(v) : \E y \in 1..Len(w) : w[y] = v[x]
    <3> TAKE x \in 1..Len(v)
    <3>1. w[IF x = i THEN j ELSE IF x = j THEN i ELSE x] = v[x]
      BY <1>4, <2>3
    <3>2. (IF x = i THEN j ELSE IF x = j THEN i ELSE x) \in 1..Len(w)
      BY <1>4, <2>3
    <3> QED
      BY <3>1, <3>2
  <2>6. Tried(a) \subseteq Known(a)
    BY DEF Tried
  <2>7. ASSUME NEW m \in Tried(c)
        PROVE  \E x \in 1..Len(c.vvTried[TriedBucket(c, m)]) :
                  c.vvTried[TriedBucket(c, m)][x] = m
    <3>1. PICK x \in 1..Len(a.vvTried[TriedBucket(a, m)]) :
             a.vvTried[TriedBucket(a, m)][x] = m
      BY <1>2, <1>3 DEF Placed
    <3>2. TriedBucket(c, m) = TriedBucket(a, m) /\ TriedBucket(a, m) \in TriedBuckets
      BY <1>2, <1>3, <2>1, <2>6, TriedBucketType
    <3>3. CASE TriedBucket(a, m) = k
      <4>1. x \in 1..Len(v) /\ v[x] = m
        BY <3>1, <3>3 DEF v
      <4>2. PICK y \in 1..Len(w) : w[y] = m
        BY <2>5, <4>1
      <4>3. c.vvTried[TriedBucket(c, m)] = w
        BY <1>5, <3>2, <3>3
      <4> QED
        BY <4>2, <4>3
    <3>4. CASE TriedBucket(a, m) # k
      BY <1>5, <3>1, <3>2, <3>4
    <3> QED
      BY <3>3, <3>4
  <2>8. ASSUME NEW l \in TriedBuckets \ {k}, NEW x \in 1..Len(c.vvTried[l])
        PROVE  /\ c.vvTried[l][x] \in Tried(c) /\ TriedBucket(c, c.vvTried[l][x]) = l
               /\ \A y \in 1..Len(c.vvTried[l]) : c.vvTried[l][x] = c.vvTried[l][y] => x = y
    BY <1>2, <1>3, <1>5, <2>1 DEF Placed
  <2> QED
    BY <1>5, <2>4, <2>7, <2>8 DEF Placed
<1>9. Bounded(c)
  <2> HIDE DEF w
  <2>1. Len(w) <= TriedBucketSize
    BY <1>4 DEF Sound, Bounded
  <2>2. \A l \in TriedBuckets \ {k} : Len(c.vvTried[l]) <= TriedBucketSize
    BY <1>5 DEF Sound, Bounded
  <2> QED
    BY <1>1, <1>5, <2>1, <2>2 DEF Sound, Bounded
<1>10. Counted(c, d)
  BY <1>1, <1>3 DEF Sound, Counted
<1>11. Referenced(c, {}, exempt)
  BY <1>1, <1>3 DEF Sound, Referenced, Buckets
<1>12. Len(c.vvTried[k]) = Len(a.vvTried[k])
  BY <1>4, <1>5
<1> QED
  BY <1>1, <1>3, <1>6, <1>7, <1>8, <1>9, <1>10, <1>11, <1>12 DEF c, Sound

\* MakeTried puts the entry in the place of another, which goes back to a new bucket:
\* to its own or, when that is full, to the one the entry came from.
LEMMA Evicted ==
    ASSUME NEW a, NEW exempt, NEW n \in Untried(a), Sound(a, {}, exempt \cup {n}, 1),
           Buckets(a, n) = {},
           a.mapInfo[n].nLastSuccess # 0,
           NEW pos \in 1..Len(a.vvTried[TriedBucket(a, n)]),
           NEW origin \in NewBuckets, Cardinality(a.vvNew[origin]) < NewBucketSize
    PROVE  LET c == Evict(a, TriedBucket(a, n), pos, n, origin)
               old == a.vvTried[TriedBucket(a, n)][pos]
           IN  /\ Sound(c, {}, exempt, 0)
               /\ Known(c) = Known(a) /\ Tried(c) = (Tried(a) \ {old}) \cup {n}
               /\ \E b \in NewBuckets : old \in c.vvNew[b]
<1> DEFINE k == TriedBucket(a, n)
           v == a.vvTried[k]
           old == v[pos]
           own == NewBucketOf[Ip[a.mapInfo[old].addr]][a.mapInfo[old].source]
           u == IF Cardinality(a.vvNew[own]) < NewBucketSize THEN own ELSE origin
           info == [a.mapInfo EXCEPT ![old].fInTried = FALSE, ![old].nRefCount = 1,
                                     ![n].fInTried = TRUE]
           new == [a.vvNew EXCEPT ![u] = @ \cup {old}]
           w == [v EXCEPT ![pos] = n]
           tried == [a.vvTried EXCEPT ![k] = w]
           c == Evict(a, k, pos, n, origin)
<1>1. /\ c = Obj(c) /\ c.mapInfo = info /\ c.vvTried = tried /\ c.vvNew = new
      /\ c.nNew = a.nNew + 1 /\ c.nTried = a.nTried
      /\ c.nIdCount = a.nIdCount /\ c.mapAddr = a.mapAddr /\ c.vRandom = a.vRandom
  <2>1. a = Obj(a)
    BY DEF Sound, Typed
  <2>2. c = [a EXCEPT !.mapInfo = info, !.vvNew = new, !.nNew = @ + 1, !.vvTried = tried]
    <3> HIDE DEF k
    <3> QED
      BY <2>1 DEF Evict, Obj
  <2> HIDE DEF c, info, new, tried
  <2> QED
    BY <2>1, <2>2 DEF Obj
<1>2. /\ Typed(a) /\ Indexed(a) /\ Placed(a) /\ Bounded(a) /\ Counted(a, 1)
      /\ Referenced(a, {}, exempt \cup {n})
      /\ n \in Known(a) /\ n \notin Tried(a) /\ k \in TriedBuckets
      /\ a.mapInfo \in [Known(a) -> InfoType] /\ a.vvTried \in [TriedBuckets -> Seq(Known(a))]
      /\ a.vvNew \in [NewBuckets -> SUBSET Known(a)]
  BY TriedBucketType DEF Sound, Untried, Typed
<1> HIDE DEF c, k
<1>3. /\ v \in Seq(Known(a)) /\ Len(v) \in Nat /\ pos \in 1..Len(v)
      /\ old \in Tried(a) /\ old \in Known(a) /\ old # n
      /\ a.mapInfo[old] \in InfoType /\ Buckets(a, old) = {}
  <2>1. v \in Seq(Known(a)) /\ pos \in 1..Len(v)
    BY <1>2 DEF k
  <2>2. old \in Tried(a)
    BY <1>2, <2>1 DEF Placed
  <2> HIDE DEF v, old
  <2>3. old \in Known(a) /\ old # n
    BY <1>2, <2>2 DEF Tried
  <2>4. a.mapInfo[old] \in InfoType /\ Len(v) \in Nat
    BY <1>2, <2>1, <2>3
  <2>5. Buckets(a, old) = {}
    BY <1>2, <2>2 DEF Referenced
  <2> QED
    BY <2>1, <2>2, <2>3, <2>4, <2>5
<1>4. u \in NewBuckets /\ Cardinality(a.vvNew[u]) < NewBucketSize /\ old \notin a.vvNew[u]
  <2>1. a.mapInfo[old].addr \in Service /\ a.mapInfo[old].source \in Source
    BY <1>3 DEF InfoType
  <2>2. own \in NewBuckets
    <3>1. Ip[a.mapInfo[old].addr] \in Ips
      BY <2>1 DEF Ips
    <3> DEFINE ip == Ip[a.mapInfo[old].addr]
               src == a.mapInfo[old].source
    <3>2. NewBucketOf \in [Ips -> [Source -> NewBuckets]]
      BY AddrManAssumption
    <3>3. ip \in Ips /\ src \in Source
      BY <2>1, <3>1
    <3> HIDE DEF ip, src
    <3>4. NewBucketOf[ip][src] \in NewBuckets
      BY <3>2, <3>3
    <3> QED
      BY <3>4 DEF ip, src
  <2> HIDE DEF own, old
  <2> QED
    BY <1>3, <2>2 DEF Buckets
<1> HIDE DEF u
<1>5. /\ Known(c) = Known(a)
      /\ c.mapInfo \in [Known(a) -> InfoType]
      /\ \A m \in Known(a) : /\ c.mapInfo[m].addr = a.mapInfo[m].addr
                             /\ c.mapInfo[m].nLastSuccess = a.mapInfo[m].nLastSuccess
                             /\ c.mapInfo[m].nRandomPos = a.mapInfo[m].nRandomPos
      /\ \A m \in Known(a) \ {n, old} : c.mapInfo[m] = a.mapInfo[m]
      /\ c.mapInfo[old].fInTried = FALSE /\ c.mapInfo[old].nRefCount = 1
      /\ c.mapInfo[n].fInTried /\ c.mapInfo[n].nRefCount = a.mapInfo[n].nRefCount
  <2> DEFINE info1 == [a.mapInfo EXCEPT ![old].fInTried = FALSE, ![old].nRefCount = 1]
  <2> HIDE DEF v, old
  <2>1. info = [info1 EXCEPT ![n].fInTried = TRUE]
    OBVIOUS
  <2>2. /\ DOMAIN info1 = Known(a)
        /\ info1[old] = [a.mapInfo[old] EXCEPT !.fInTried = FALSE, !.nRefCount = 1]
        /\ \A m \in Known(a) \ {old} : info1[m] = a.mapInfo[m]
    BY <1>2, <1>3 DEF Known
  <2> HIDE DEF info1
  <2>3. /\ DOMAIN info = Known(a)
        /\ info[n] = [a.mapInfo[n] EXCEPT !.fInTried = TRUE]
        /\ info[old] = [a.mapInfo[old] EXCEPT !.fInTried = FALSE, !.nRefCount = 1]
        /\ \A m \in Known(a) \ {n, old} : info[m] = a.mapInfo[m]
    BY <1>2, <1>3, <2>1, <2>2
  <2>4. a.mapInfo[n] \in InfoType /\ a.mapInfo[old] \in InfoType
    BY <1>2, <1>3
  <2> HIDE DEF info
  <2>5. /\ info[n] \in InfoType /\ info[n].fInTried
        /\ info[n].addr = a.mapInfo[n].addr
        /\ info[n].nRefCount = a.mapInfo[n].nRefCount
        /\ info[n].nLastSuccess = a.mapInfo[n].nLastSuccess
        /\ info[n].nRandomPos = a.mapInfo[n].nRandomPos
    BY <2>3, <2>4 DEF InfoType
  <2>6. /\ info[old] \in InfoType /\ info[old].fInTried = FALSE /\ info[old].nRefCount = 1
        /\ info[old].addr = a.mapInfo[old].addr
        /\ info[old].nLastSuccess = a.mapInfo[old].nLastSuccess
        /\ info[old].nRandomPos = a.mapInfo[old].nRandomPos
    <3> DEFINE x == a.mapInfo[old]
               y == [x EXCEPT !.fInTried = FALSE]
    <3>1. x \in InfoType /\ info[old] = [y EXCEPT !.nRefCount = 1]
      BY <2>3, <2>4
    <3> HIDE DEF x
    <3>2. /\ y \in InfoType /\ y.fInTried = FALSE /\ y.addr = x.addr
          /\ y.nLastSuccess = x.nLastSuccess /\ y.nRandomPos = x.nRandomPos
      BY <3>1 DEF InfoType
    <3> HIDE DEF y
    <3> DEFINE z == info[old]
    <3>3. z = [y EXCEPT !.nRefCount = 1]
      BY <3>1
    <3> HIDE DEF z
    <3>4. /\ z \in InfoType /\ z.nRefCount = 1 /\ z.fInTried = y.fInTried
          /\ z.addr = y.addr /\ z.nLastSuccess = y.nLastSuccess
          /\ z.nRandomPos = y.nRandomPos
      BY <3>2, <3>3 DEF InfoType
    <3> QED
      BY <3>2, <3>4 DEF x, z
  <2>7. info \in [Known(a) -> InfoType]
    <3>1. \A m \in Known(a) : info[m] \in InfoType
      BY <1>2, <2>3, <2>5, <2>6
    <3>2. info = [m \in DOMAIN info |-> info[m]]
      BY DEF info
    <3> QED
      BY <2>3, <3>1, <3>2
  <2> QED
    BY <1>1, <2>3, <2>5, <2>6, <2>7 DEF Known
<1> HIDE DEF info
<1>6. /\ w \in Seq(Known(a)) /\ Len(w) = Len(v)
      /\ w[pos] = n /\ \A x \in 1..Len(v) : x # pos => w[x] = v[x]
  <2> HIDE DEF v
  <2> QED
    BY <1>2, <1>3
<1> HIDE DEF w
<1>7. /\ c.vvTried[k] = w /\ \A l \in TriedBuckets \ {k} : c.vvTried[l] = a.vvTried[l]
      /\ c.vvTried \in [TriedBuckets -> Seq(Known(a))]
  BY <1>1, <1>2, <1>6
<1>8. /\ c.vvNew[u] = a.vvNew[u] \cup {old}
      /\ \A b \in NewBuckets \ {u} : c.vvNew[b] = a.vvNew[b]
      /\ c.vvNew \in [NewBuckets -> SUBSET Known(a)]
  <2> HIDE DEF old
  <2> QED
    BY <1>1, <1>2, <1>3, <1>4
<1> HIDE DEF new, tried
<1>9. Tried(c) = (Tried(a) \ {old}) \cup {n} /\ Untried(c) = (Untried(a) \ {n}) \cup {old}
  <2> HIDE DEF old
  <2> QED
    BY <1>2, <1>3, <1>5 DEF Tried, Untried
<1>10. Typed(c)
  <2>1. /\ c = Obj(c) /\ c.nIdCount = a.nIdCount /\ c.mapAddr = a.mapAddr
        /\ c.vRandom = a.vRandom /\ c.nNew = a.nNew + 1 /\ c.nTried = a.nTried
        /\ Known(c) = Known(a) /\ c.mapInfo \in [Known(a) -> InfoType]
        /\ c.vvTried \in [TriedBuckets -> Seq(Known(a))]
        /\ c.vvNew \in [NewBuckets -> SUBSET Known(a)]
    BY <1>1, <1>5, <1>7, <1>8
  <2>2. Typed(a)
    BY <1>2
  <2>3. a.nNew + 1 \in Nat
    BY <2>2 DEF Typed
  <2> HIDE DEF v, old
  <2> QED
    BY <2>1, <2>2, <2>3 DEF Typed
<1>11. Indexed(c)
  <2>1. /\ \A p \in DOMAIN a.mapAddr : a.mapAddr[p] \in Known(a)
        /\ \A i \in 1..Len(a.vRandom) : a.vRandom[i] \in Known(a)
    BY <1>2 DEF Typed
  <2>2. /\ c.mapAddr = a.mapAddr /\ c.vRandom = a.vRandom /\ Known(c) = Known(a)
        /\ \A m \in Known(a) : /\ c.mapInfo[m].addr = a.mapInfo[m].addr
                               /\ c.mapInfo[m].nRandomPos = a.mapInfo[m].nRandomPos
    BY <1>1, <1>5
  <2>3. Typed(a) /\ Indexed(a)
    BY <1>2
  <2> QED
    BY <2>2, <2>3, IndexesKept
<1>12. Placed(c)
  <2>1. \A m \in Known(a) : TriedBucket(c, m) = TriedBucket(a, m)
    BY <1>5 DEF TriedBucket
  <2>2. Tried(a) \subseteq Known(a) /\ TriedBucket(c, n) = k
    BY <1>2, <2>1 DEF Tried, k
  <2>3. \A l \in TriedBuckets : \A i \in 1..Len(a.vvTried[l]) :
           /\ a.vvTried[l][i] \in Tried(a) /\ TriedBucket(c, a.vvTried[l][i]) = l
           /\ a.vvTried[l][i] # n
           /\ \A j \in 1..Len(a.vvTried[l]) : a.vvTried[l][i] = a.vvTried[l][j] => i = j
    BY <1>2, <2>1, <2>2 DEF Placed
  <2>4. \A i \in 1..Len(v) :
           /\ v[i] \in Tried(a) /\ TriedBucket(c, v[i]) = k /\ v[i] # n
           /\ \A j \in 1..Len(v) : v[i] = v[j] => i = j
    BY <1>2, <2>3
  <2>5. TriedBucket(c, old) = k /\ v[pos] = old
    BY <1>3, <2>4
  <2>6. v = a.vvTried[k]
    OBVIOUS
  <2> HIDE DEF v, old
  <2>7. ASSUME NEW i \in 1..Len(w)
        PROVE  /\ w[i] \in Tried(c) /\ TriedBucket(c, w[i]) = k
               /\ \A j \in 1..Len(w) : w[i] = w[j] => i = j
    BY <1>3, <1>6, <1>9, <2>2, <2>4, <2>5
  <2>8. ASSUME NEW l \in TriedBuckets \ {k}, NEW i \in 1..Len(c.vvTried[l])
        PROVE  /\ c.vvTried[l][i] \in Tried(c) /\ TriedBucket(c, c.vvTried[l][i]) = l
               /\ \A j \in 1..Len(c.vvTried[l]) : c.vvTried[l][i] = c.vvTried[l][j] => i = j
    BY <1>7, <1>9, <2>3, <2>5
  <2>9. ASSUME NEW m \in Tried(c)
        PROVE  \E i \in 1..Len(c.vvTried[TriedBucket(c, m)]) :
                  c.vvTried[TriedBucket(c, m)][i] = m
    <3>1. CASE m = n
      BY <1>3, <1>6, <1>7, <2>2, <3>1
    <3>2. CASE m \in Tried(a) \ {old}
      <4>1. PICK i \in 1..Len(a.vvTried[TriedBucket(a, m)]) :
               a.vvTried[TriedBucket(a, m)][i] = m
        BY <1>2, <3>2 DEF Placed
      <4>2. TriedBucket(c, m) = TriedBucket(a, m) /\ TriedBucket(a, m) \in TriedBuckets
        BY <1>2, <2>1, <2>2, <3>2, TriedBucketType
      <4>3. CASE TriedBucket(a, m) = k
        <5>1. i \in 1..Len(w) /\ i # pos /\ v[i] = m
          BY <1>6, <2>5, <2>6, <3>2, <4>1, <4>3
        <5>2. w[i] = m
          BY <1>6, <5>1
        <5> QED
          BY <1>7, <4>2, <4>3, <5>1, <5>2
      <4>4. CASE TriedBucket(a, m) # k
        BY <1>7, <4>1, <4>2, <4>4
      <4> QED
        BY <4>3, <4>4
    <3> QED
      BY <1>9, <3>1, <3>2
  <2>10. c.vvTried[k] = w
    BY <1>7
  <2>11. \A l \in TriedBuckets : \A i \in 1..Len(c.vvTried[l]) :
            /\ c.vvTried[l][i] \in Tried(c) /\ TriedBucket(c, c.vvTried[l][i]) = l
            /\ \A j \in 1..Len(c.vvTried[l]) : c.vvTried[l][i] = c.vvTried[l][j] => i = j
    BY <2>7, <2>8, <2>10
  <2> QED
    BY <2>9, <2>11 DEF Placed
<1>13. Bounded(c)
  <2>1. IsFiniteSet(a.vvNew[u]) /\ Cardinality(a.vvNew[u]) \in Nat
    BY <1>2, <1>4, KnownFinite
  <2>2. Cardinality(c.vvNew[u]) <= NewBucketSize
    <3> HIDE DEF old
    <3>1. Cardinality(a.vvNew[u] \cup {old}) = Cardinality(a.vvNew[u]) + 1
      BY <1>4, <2>1, OneMore
    <3> QED
      BY <1>4, <1>8, <2>1, <3>1, AddrManAssumption
  <2>3. Len(w) <= TriedBucketSize
    BY <1>2, <1>6 DEF Bounded
  <2> QED
    BY <1>2, <1>7, <1>8, <2>2, <2>3 DEF Bounded
<1>14. Counted(c, 0)
  <2> HIDE DEF old
  <2>1. IsFiniteSet(Tried(a)) /\ IsFiniteSet(Untried(a))
    BY <1>2, KnownFinite DEF Tried, Untried
  <2>2. Cardinality(Tried(a) \ {old}) = Cardinality(Tried(a)) - 1
        /\ Cardinality(Tried(a)) \in Nat /\ IsFiniteSet(Tried(a) \ {old})
    BY <1>3, <2>1, OneLess, FS_RemoveElement
  <2>3. Cardinality(Tried(c)) = Cardinality(Tried(a))
    <3>1. Cardinality((Tried(a) \ {old}) \cup {n}) = Cardinality(Tried(a) \ {old}) + 1
      BY <1>2, <2>2, OneMore
    <3> QED
      BY <1>9, <2>2, <3>1
  <2>4. Cardinality(Untried(a) \ {n}) = Cardinality(Untried(a)) - 1
        /\ Cardinality(Untried(a)) \in Nat /\ IsFiniteSet(Untried(a) \ {n})
    BY <2>1, OneLess, FS_RemoveElement
  <2>5. Cardinality(Untried(c)) = Cardinality(Untried(a))
    <3>1. old \notin Untried(a) \ {n}
      BY <1>3 DEF Untried
    <3>2. Cardinality((Untried(a) \ {n}) \cup {old}) = Cardinality(Untried(a) \ {n}) + 1
      BY <2>4, <3>1, OneMore
    <3> QED
      BY <1>9, <2>4, <3>2
  <2>6. a.nNew \in Nat
    BY <1>2 DEF Typed
  <2> QED
    BY <1>1, <1>2, <2>3, <2>5, <2>6 DEF Counted
<1>15. Referenced(c, {}, exempt)
  <2> HIDE DEF old
  <2>1. \A m \in Known(a) \ {old} : Buckets(c, m) = Buckets(a, m)
    BY <1>8 DEF Buckets
  <2>2. Buckets(c, old) = {u} /\ Cardinality({u}) = 1
    <3>1. \A b \in NewBuckets : old \in c.vvNew[b] <=> b = u
      BY <1>3, <1>4, <1>8 DEF Buckets
    <3>2. Buckets(c, old) = {u}
      BY <1>4, <3>1 DEF Buckets
    <3> QED
      BY <3>2, FS_Singleton
  <2>3. Tried(a) \subseteq Known(a) /\ Untried(a) \subseteq Known(a)
    BY DEF Tried, Untried
  <2>4. \A m \in Known(a) : c.mapInfo[m].nRefCount = Cardinality(Buckets(c, m)) + 0
    <3>1. \A m \in Known(a) \ {old} : c.mapInfo[m].nRefCount = a.mapInfo[m].nRefCount
      BY <1>5
    <3>2. \A m \in Known(a) \ {old} : a.mapInfo[m].nRefCount = Cardinality(Buckets(a, m)) + 0
      BY <1>2 DEF Referenced
    <3>3. c.mapInfo[old].nRefCount = Cardinality(Buckets(c, old)) + 0
      BY <1>5, <2>2
    <3> QED
      BY <2>1, <3>1, <3>2, <3>3
  <2>5. \A m \in Tried(c) : Buckets(c, m) = {} /\ c.mapInfo[m].nLastSuccess # 0
    BY <1>2, <1>3, <1>5, <1>9, <2>1, <2>3 DEF Referenced
  <2>6. \A m \in Untried(c) : /\ c.mapInfo[m].nRefCount <= BucketsPerAddress
                              /\ m \in exempt \/ c.mapInfo[m].nRefCount # 0
    <3>1. \A m \in Untried(a) \ {n} : /\ m \in Known(a) \ {n, old}
                                      /\ a.mapInfo[m].nRefCount <= BucketsPerAddress
                                      /\ m \in exempt \/ a.mapInfo[m].nRefCount # 0
      BY <1>2, <1>3, <2>3 DEF Referenced, Untried
    <3>2. 1 <= BucketsPerAddress
      BY AddrManAssumption
    <3> QED
      BY <1>5, <1>9, <3>1, <3>2
  <2> QED
    BY <1>5, <2>4, <2>5, <2>6 DEF Referenced
<1>16. \E b \in NewBuckets : old \in c.vvNew[b]
  BY <1>4, <1>8
<1> QED
  BY <1>1, <1>5, <1>9, <1>10, <1>11, <1>12, <1>13, <1>14, <1>15, <1>16 DEF c, k, Sound

---------------------------------------------------------------------------
(* peers.dat. *)

\* The elements with fewer than m before them are at most m; they are all, if there
\* are no more than m, and some, if there are any.
LEMMA Firsts ==
    ASSUME NEW S \in SUBSET Nat, IsFiniteSet(S), NEW m \in Nat \ {0}
    PROVE  LET F == {x \in S : Rank(S, x) < m}
           IN  /\ IsFiniteSet(F) /\ Cardinality(F) \in Nat /\ Cardinality(F) <= m
               /\ Cardinality(S) <= m => F = S
               /\ S # {} => F # {}
<1> DEFINE F == {x \in S : Rank(S, x) < m}
<1>1. /\ F \in SUBSET S /\ F \in SUBSET Nat /\ IsFiniteSet(F) /\ Cardinality(F) \in Nat
      /\ Cardinality(S) \in Nat
  BY FS_Subset, FS_CardinalityType
<1>2. \A x \in S : Rank(S, x) \in 0..(Cardinality(S) - 1)
  BY RankIs
<1>3. Cardinality(F) <= m
  <2>1. CASE Cardinality(F) = 0
    BY <2>1
  <2>2. CASE Cardinality(F) # 0
    <3>1. Cardinality(F) - 1 \in 0..(Cardinality(F) - 1)
      BY <1>1, <2>2
    <3> HIDE DEF F
    <3>2. PICK x \in F : Rank(F, x) = Cardinality(F) - 1
      BY <1>1, <3>1, RankOnto
    <3>3. {y \in F : y < x} \in SUBSET {y \in S : y < x} /\ IsFiniteSet({y \in S : y < x})
      BY <1>1, FS_Subset
    <3>4. Rank(F, x) <= Rank(S, x)
      BY <3>3, FS_Subset DEF Rank
    <3>5. Rank(S, x) < m /\ Rank(S, x) \in Nat
      BY <1>1, <1>2, <3>2 DEF F
    <3> QED
      BY <1>1, <3>2, <3>4, <3>5
  <2> QED
    BY <2>1, <2>2
<1>4. ASSUME Cardinality(S) <= m PROVE F = S
  <2>1. \A x \in S : Rank(S, x) < m
    BY <1>1, <1>2, <1>4
  <2> QED
    BY <2>1
<1>5. ASSUME S # {} PROVE F # {}
  <2>1. Cardinality(S) # 0
    BY <1>5, FS_EmptySet
  <2>2. 0 \in 0..(Cardinality(S) - 1)
    BY <1>1, <2>1
  <2>3. PICK x \in S : Rank(S, x) = 0
    BY <2>2, RankOnto
  <2>4. x \in F
    BY <2>3
  <2> QED
    BY <2>4
<1> QED
  BY <1>1, <1>3, <1>4, <1>5

\* The entries that Serialize writes as new.
Kept(a) == {n \in Known(a) : a.mapInfo[n].nRefCount # 0}

\* They are not tried, every entry in a bucket is one of them, and nNew counts them
\* when no other is missing from it.
LEMMA KeptIs ==
    ASSUME NEW a, NEW held, NEW exempt, NEW d \in {0, 1}, Sound(a, held, exempt, d),
           d = 1 => \E n \in Untried(a) : a.mapInfo[n].nRefCount = 0
    PROVE  /\ Kept(a) \in SUBSET Untried(a) /\ Kept(a) \in SUBSET Nat
           /\ Tried(a) \in SUBSET Known(a) /\ Tried(a) \in SUBSET Nat
           /\ IsFiniteSet(Kept(a)) /\ Cardinality(Kept(a)) \in Nat
           /\ IsFiniteSet(Tried(a)) /\ Cardinality(Tried(a)) \in Nat
           /\ Cardinality(Kept(a)) <= a.nNew
           /\ Cardinality(Kept(a)) + Cardinality(Tried(a)) <= MaxIds
           /\ \A b \in NewBuckets : a.vvNew[b] \in SUBSET Kept(a)
           /\ exempt = {} => Kept(a) = Untried(a)
<1>1. Typed(a) /\ Referenced(a, held, exempt) /\ Counted(a, d) /\ a.nNew \in Nat
  BY DEF Sound, Typed
<1>2. \A n \in Known(a) : /\ a.mapInfo[n].nRefCount \in Nat
                          /\ IsFiniteSet(Buckets(a, n)) /\ Cardinality(Buckets(a, n)) \in Nat
                          /\ a.mapInfo[n].nRefCount =
                                Cardinality(Buckets(a, n)) + (IF n \in held THEN 1 ELSE 0)
  BY <1>1, BucketSets DEF Typed, InfoType, Buckets, Referenced
<1>3. \A n \in Tried(a) : a.mapInfo[n].nRefCount = 0
  <2> TAKE n \in Tried(a)
  <2>1. n \in Known(a) /\ Buckets(a, n) = {} /\ n \notin held
    BY <1>1 DEF Tried, Referenced
  <2>2. Cardinality(Buckets(a, n)) = 0
    BY <2>1, FS_EmptySet
  <2> QED
    <3>1. a.mapInfo[n].nRefCount = Cardinality(Buckets(a, n)) + 0
      BY <1>2, <2>1
    <3> QED
      BY <2>2, <3>1
<1>4. Kept(a) \in SUBSET Untried(a)
  BY <1>3 DEF Kept, Untried
<1>5. /\ Tried(a) \in SUBSET Known(a) /\ Untried(a) \in SUBSET Known(a)
      /\ Kept(a) \in SUBSET Known(a) /\ Known(a) \in SUBSET Nat
      /\ \A S \in SUBSET Known(a) : IsFiniteSet(S) /\ Cardinality(S) \in Nat
  <2>1. /\ Tried(a) \in SUBSET Known(a) /\ Untried(a) \in SUBSET Known(a)
        /\ Kept(a) \in SUBSET Known(a)
    BY DEF Tried, Untried, Kept
  <2> QED
    BY <1>1, <2>1, KnownFinite
<1>6. Cardinality(Kept(a)) <= a.nNew
  <2>1. CASE d = 0
    <3>1. Cardinality(Kept(a)) <= Cardinality(Untried(a))
      BY <1>4, <1>5, FS_Subset
    <3> QED
      BY <1>1, <1>5, <2>1, <3>1 DEF Counted
  <2>2. CASE d = 1
    <3>1. PICK n \in Untried(a) : a.mapInfo[n].nRefCount = 0
      BY <2>2
    <3>2. Kept(a) \in SUBSET (Untried(a) \ {n})
      BY <1>4, <3>1 DEF Kept
    <3>3. /\ Cardinality(Untried(a) \ {n}) = Cardinality(Untried(a)) - 1
          /\ IsFiniteSet(Untried(a) \ {n})
      BY <1>5, OneLess, FS_RemoveElement
    <3>4. Cardinality(Kept(a)) <= Cardinality(Untried(a) \ {n})
      BY <3>2, <3>3, FS_Subset
    <3> QED
      BY <1>1, <1>5, <2>2, <3>3, <3>4 DEF Counted
  <2> QED
    BY <2>1, <2>2
<1>7. Cardinality(Kept(a)) + Cardinality(Tried(a)) <= MaxIds
  <2>1. Kept(a) \cap Tried(a) = {}
    BY <1>4 DEF Untried
  <2>2. Cardinality(Kept(a) \cup Tried(a)) =
           Cardinality(Kept(a)) + Cardinality(Tried(a)) - Cardinality(Kept(a) \cap Tried(a))
    BY <1>5, FS_Union
  <2>3. Cardinality(Kept(a) \cap Tried(a)) = 0
    BY <2>1, FS_EmptySet
  <2>4. a.nIdCount \in Nat /\ a.nIdCount <= MaxIds
        /\ Kept(a) \cup Tried(a) \in SUBSET (0..(a.nIdCount - 1))
    BY <1>1, <1>5, AddrManAssumption DEF Typed
  <2>5. IsFiniteSet(0..(a.nIdCount - 1)) /\ Cardinality(0..(a.nIdCount - 1)) = a.nIdCount
    <3>1. /\ IsFiniteSet(0..(a.nIdCount - 1))
          /\ Cardinality(0..(a.nIdCount - 1)) =
                IF 0 > a.nIdCount - 1 THEN 0 ELSE (a.nIdCount - 1) - 0 + 1
      <4>1. 0 \in Int /\ a.nIdCount - 1 \in Int
        BY <2>4
      <4> QED
        BY <4>1, FS_Interval
    <3> QED
      BY <2>4, <3>1
  <2>6. Cardinality(Kept(a) \cup Tried(a)) <= a.nIdCount
    BY <2>4, <2>5, FS_Subset
  <2> QED
    BY <1>5, <2>2, <2>3, <2>4, <2>6, AddrManAssumption
<1>8. ASSUME NEW b \in NewBuckets PROVE a.vvNew[b] \in SUBSET Kept(a)
  <2>1. ASSUME NEW n \in a.vvNew[b] PROVE n \in Kept(a)
    <3>1. n \in Known(a) /\ b \in Buckets(a, n)
      BY <1>1 DEF Typed, Buckets
    <3>2. Cardinality(Buckets(a, n)) \in Nat \ {0}
      BY <1>2, <3>1, OneLess
    <3>3. a.mapInfo[n].nRefCount # 0
      BY <1>2, <3>1, <3>2
    <3> QED
      BY <3>1, <3>3 DEF Kept
  <2> QED
    BY <2>1
<1>9. ASSUME exempt = {} PROVE Kept(a) = Untried(a)
  BY <1>1, <1>4, <1>5, <1>9 DEF Referenced, Kept
<1> QED
  BY <1>4, <1>5, <1>6, <1>7, <1>8, <1>9

\* A sequence that is no longer than n is its own front.
LEMMA FrontAll ==
    ASSUME NEW S, NEW q \in Seq(S), NEW n \in Nat, Len(q) <= n
    PROVE  Front(q, n) = q
<1>1. (IF n < Len(q) THEN n ELSE Len(q)) = Len(q)
  OBVIOUS
<1>2. SubSeq(q, 1, Len(q)) = q
  OBVIOUS
<1> QED
  BY <1>1, <1>2 DEF Front

\* The saved entries of a set, as Serialize lists them.
SavedSeq(a, S) == [k \in DOMAIN InOrder(S) |-> Saved(a.mapInfo[InOrder(S)[k]])]

\* They are listed by rank.
LEMMA SavedByRank ==
    ASSUME NEW a, Typed(a), NEW S \in SUBSET Known(a)
    PROVE  LET q == SavedSeq(a, S)
           IN  /\ q \in Seq(SavedType) /\ Len(q) = Cardinality(S)
               /\ \A n \in S : Rank(S, n) + 1 \in 1..Len(q)
                               /\ q[Rank(S, n) + 1] = Saved(a.mapInfo[n])
               /\ \A i \in 1..Len(q) : \E n \in S : Rank(S, n) = i - 1
                                                    /\ q[i] = Saved(a.mapInfo[n])
<1> DEFINE o == InOrder(S)
           q == [k \in DOMAIN o |-> Saved(a.mapInfo[o[k]])]
<1>1. S \in SUBSET Nat /\ IsFiniteSet(S)
  BY KnownFinite
<1>2. /\ Cardinality(S) \in Nat /\ o \in Seq(S) /\ Len(o) = Cardinality(S)
      /\ \A k \in 1..Cardinality(S) : o[k] \in S /\ Rank(S, o[k]) = k - 1
      /\ \A n \in S : Rank(S, n) + 1 \in 1..Cardinality(S) /\ o[Rank(S, n) + 1] = n
  BY <1>1, InOrderIs
<1> HIDE DEF o
<1>3. DOMAIN o = 1..Cardinality(S)
  BY <1>2
<1>4. \A n \in S : Saved(a.mapInfo[n]) \in SavedType
  BY DEF Typed, InfoType, SavedType, Saved
<1>5. q \in [1..Cardinality(S) -> SavedType]
  BY <1>2, <1>3, <1>4
<1>6. q \in Seq(SavedType) /\ Len(q) = Cardinality(S)
  <2> HIDE DEF q
  <2> QED
    BY <1>2, <1>5
<1>7. \A k \in 1..Cardinality(S) : q[k] = Saved(a.mapInfo[o[k]])
  BY <1>3
<1> HIDE DEF q
<1>8. \A n \in S : Rank(S, n) + 1 \in 1..Len(q) /\ q[Rank(S, n) + 1] = Saved(a.mapInfo[n])
  BY <1>2, <1>6, <1>7
<1>9. \A i \in 1..Len(q) : \E n \in S : Rank(S, n) = i - 1 /\ q[i] = Saved(a.mapInfo[n])
  BY <1>2, <1>6, <1>7
<1> QED
  BY <1>6, <1>8, <1>9 DEF o, q, SavedSeq

\* What Serialize writes.
LEMMA Written ==
    ASSUME NEW a, NEW held, NEW exempt, NEW d \in {0, 1}, Sound(a, held, exempt, d),
           d = 1 => \E n \in Untried(a) : a.mapInfo[n].nRefCount = 0
    PROVE  LET f == Serialize(a)
           IN  /\ f.nNew = a.nNew /\ f.nTried = a.nTried
               /\ f.new \in Seq(SavedType) /\ Len(f.new) = Cardinality(Kept(a))
               /\ \A n \in Kept(a) : /\ Rank(Kept(a), n) + 1 \in 1..Len(f.new)
                                     /\ f.new[Rank(Kept(a), n) + 1] = Saved(a.mapInfo[n])
               /\ \A i \in 1..Len(f.new) : \E n \in Kept(a) :
                     Rank(Kept(a), n) = i - 1 /\ f.new[i] = Saved(a.mapInfo[n])
               /\ f.tried \in Seq(SavedType) /\ Len(f.tried) = Cardinality(Tried(a))
               /\ \A n \in Tried(a) : /\ Rank(Tried(a), n) + 1 \in 1..Len(f.tried)
                                      /\ f.tried[Rank(Tried(a), n) + 1] = Saved(a.mapInfo[n])
               /\ \A i \in 1..Len(f.tried) : \E n \in Tried(a) :
                     Rank(Tried(a), n) = i - 1 /\ f.tried[i] = Saved(a.mapInfo[n])
               /\ f.vvNew \in [NewBuckets -> SUBSET (0..(Len(f.new) - 1))]
               /\ \A b \in NewBuckets : f.vvNew[b] = {Rank(Kept(a), n) : n \in a.vvNew[b]}
<1> DEFINE f == Serialize(a)
           S == Kept(a)
           T == Tried(a)
           o == InOrder(S)
           p == InOrder(T)
<1>1. /\ S \in SUBSET Known(a) /\ S \in SUBSET Nat /\ IsFiniteSet(S) /\ Cardinality(S) \in Nat
      /\ T \in SUBSET Known(a) /\ T \in SUBSET Nat /\ IsFiniteSet(T) /\ Cardinality(T) \in Nat
      /\ Cardinality(S) <= a.nNew /\ Cardinality(T) = a.nTried
      /\ a.nNew \in Nat /\ a.nTried \in Nat /\ Typed(a)
      /\ \A b \in NewBuckets : a.vvNew[b] \in SUBSET S
  BY KeptIs DEF Sound, Typed, Counted, Untried
<1> HIDE DEF S, T
<1>2. o \in Seq(S) /\ Len(o) = Cardinality(S) /\ p \in Seq(T) /\ Len(p) = Cardinality(T)
  BY <1>1, InOrderIs
<1> HIDE DEF o, p
<1>3. Front(o, a.nNew) = o /\ Front(p, a.nTried) = p
  BY <1>1, <1>2, FrontAll
<1>4. \A n : mapUnkIds(a, n) = Rank(S, n)
  <2> TAKE n
  <2>1. {m \in DOMAIN a.mapInfo : m < n /\ a.mapInfo[m].nRefCount # 0} = {m \in S : m < n}
    BY DEF S, Kept, Known
  <2> QED
    BY <2>1 DEF mapUnkIds, Rank
<1>5. /\ f.nNew = a.nNew /\ f.nTried = a.nTried
      /\ f.new = [k \in DOMAIN o |-> Saved(a.mapInfo[o[k]])]
      /\ f.tried = [k \in DOMAIN p |-> Saved(a.mapInfo[p[k]])]
      /\ f.vvNew = [b \in NewBuckets |-> {mapUnkIds(a, n) : n \in a.vvNew[b]}]
  <2>1. /\ InOrder({n \in DOMAIN a.mapInfo : a.mapInfo[n].nRefCount # 0}) = o
        /\ InOrder({n \in DOMAIN a.mapInfo : a.mapInfo[n].fInTried}) = p
    BY DEF o, p, S, T, Kept, Tried, Known
  <2> QED
    BY <1>3, <2>1 DEF Serialize
<1> HIDE DEF f
<1>6. /\ f.new \in Seq(SavedType) /\ Len(f.new) = Cardinality(S)
      /\ \A n \in S : Rank(S, n) + 1 \in 1..Len(f.new)
                      /\ f.new[Rank(S, n) + 1] = Saved(a.mapInfo[n])
      /\ \A i \in 1..Len(f.new) : \E n \in S : Rank(S, n) = i - 1
                                               /\ f.new[i] = Saved(a.mapInfo[n])
  <2>1. f.new = SavedSeq(a, S)
    BY <1>5 DEF o, SavedSeq
  <2> QED
    BY <1>1, <2>1, SavedByRank
<1>7. /\ f.tried \in Seq(SavedType) /\ Len(f.tried) = Cardinality(T)
      /\ \A n \in T : Rank(T, n) + 1 \in 1..Len(f.tried)
                      /\ f.tried[Rank(T, n) + 1] = Saved(a.mapInfo[n])
      /\ \A i \in 1..Len(f.tried) : \E n \in T : Rank(T, n) = i - 1
                                                 /\ f.tried[i] = Saved(a.mapInfo[n])
  <2>1. f.tried = SavedSeq(a, T)
    BY <1>5 DEF p, SavedSeq
  <2> QED
    BY <1>1, <2>1, SavedByRank
<1>8. \A b \in NewBuckets : f.vvNew[b] = {Rank(S, n) : n \in a.vvNew[b]}
  BY <1>4, <1>5
<1>9. f.vvNew \in [NewBuckets -> SUBSET (0..(Len(f.new) - 1))]
  <2>1. \A n \in S : Rank(S, n) \in 0..(Cardinality(S) - 1)
    BY <1>1, RankIs
  <2>2. \A b \in NewBuckets : f.vvNew[b] \in SUBSET (0..(Len(f.new) - 1))
    <3> TAKE b \in NewBuckets
    <3>1. ASSUME NEW r \in f.vvNew[b] PROVE r \in 0..(Len(f.new) - 1)
      <4>1. PICK n \in a.vvNew[b] : r = Rank(S, n)
        BY <1>8
      <4> QED
        BY <1>1, <1>6, <2>1, <4>1
    <3> QED
      BY <3>1
  <2> QED
    BY <1>5, <2>2
<1> QED
  BY <1>5, <1>6, <1>7, <1>8, <1>9 DEF f, S, T

\* The file holds what it should, whatever was cut short; whole tells that no entry
\* held one reference too many.
LEMMA FileIsOK ==
    ASSUME NEW a, NEW held, NEW exempt, NEW d \in {0, 1}, Sound(a, held, exempt, d),
           d = 1 => \E n \in Untried(a) : a.mapInfo[n].nRefCount = 0,
           NEW whole, whole => held = {}
    PROVE  FileOK(Serialize(a), whole)
<1> DEFINE f == Serialize(a)
           S == Kept(a)
           T == Tried(a)
<1>1. /\ f.nNew = a.nNew /\ f.nTried = a.nTried
      /\ f.new \in Seq(SavedType) /\ Len(f.new) = Cardinality(S)
      /\ f.tried \in Seq(SavedType) /\ Len(f.tried) = Cardinality(T)
      /\ \A i \in 1..Len(f.new) : \E n \in S : Rank(S, n) = i - 1
                                               /\ f.new[i] = Saved(a.mapInfo[n])
      /\ \A i \in 1..Len(f.tried) : \E n \in T : Rank(T, n) = i - 1
                                                 /\ f.tried[i] = Saved(a.mapInfo[n])
      /\ f.vvNew \in [NewBuckets -> SUBSET (0..(Len(f.new) - 1))]
      /\ \A b \in NewBuckets : f.vvNew[b] = {Rank(S, n) : n \in a.vvNew[b]}
  BY Written
<1>2. /\ S \in SUBSET Untried(a) /\ Cardinality(S) + Cardinality(T) <= MaxIds
      /\ S \in SUBSET Known(a) /\ T \in SUBSET Known(a) /\ S \cap T = {}
      /\ S \in SUBSET Nat /\ IsFiniteSet(S)
      /\ \A b \in NewBuckets : a.vvNew[b] \in SUBSET S
  <2>1. /\ S \in SUBSET Untried(a) /\ Cardinality(S) + Cardinality(T) <= MaxIds
        /\ T \in SUBSET Known(a) /\ S \in SUBSET Nat /\ IsFiniteSet(S)
        /\ \A b \in NewBuckets : a.vvNew[b] \in SUBSET S
    BY KeptIs
  <2> QED
    BY <2>1 DEF Untried
<1>3. /\ Typed(a) /\ Indexed(a) /\ Bounded(a) /\ Referenced(a, held, exempt)
      /\ a.nNew \in Nat /\ a.nTried \in Nat
  BY DEF Sound, Typed
<1> HIDE DEF f
<1>4. \A n, m \in Known(a) : Ip[Saved(a.mapInfo[n]).addr] = Ip[Saved(a.mapInfo[m]).addr] => n = m
  BY <1>3 DEF Indexed, Saved
<1> HIDE DEF S, T
<1>5. \A i, j \in 1..Len(f.new) : Ip[f.new[i].addr] = Ip[f.new[j].addr] => i = j
  <2> SUFFICES ASSUME NEW i \in 1..Len(f.new), NEW j \in 1..Len(f.new),
                      Ip[f.new[i].addr] = Ip[f.new[j].addr]
               PROVE  i = j
    OBVIOUS
  <2>1. PICK n \in S : Rank(S, n) = i - 1 /\ f.new[i] = Saved(a.mapInfo[n])
    BY <1>1
  <2>2. PICK m \in S : Rank(S, m) = j - 1 /\ f.new[j] = Saved(a.mapInfo[m])
    BY <1>1
  <2>3. n = m
    BY <1>2, <1>4, <2>1, <2>2
  <2>4. i \in Int /\ j \in Int
    OBVIOUS
  <2> QED
    BY <2>1, <2>2, <2>3, <2>4
<1>6. \A i, j \in 1..Len(f.tried) : Ip[f.tried[i].addr] = Ip[f.tried[j].addr] => i = j
  <2> SUFFICES ASSUME NEW i \in 1..Len(f.tried), NEW j \in 1..Len(f.tried),
                      Ip[f.tried[i].addr] = Ip[f.tried[j].addr]
               PROVE  i = j
    OBVIOUS
  <2>1. PICK n \in T : Rank(T, n) = i - 1 /\ f.tried[i] = Saved(a.mapInfo[n])
    BY <1>1
  <2>2. PICK m \in T : Rank(T, m) = j - 1 /\ f.tried[j] = Saved(a.mapInfo[m])
    BY <1>1
  <2>3. n = m
    BY <1>2, <1>4, <2>1, <2>2
  <2>4. i \in Int /\ j \in Int
    OBVIOUS
  <2> QED
    BY <2>1, <2>2, <2>3, <2>4
<1>7. \A i \in 1..Len(f.new), j \in 1..Len(f.tried) : Ip[f.new[i].addr] # Ip[f.tried[j].addr]
  <2> SUFFICES ASSUME NEW i \in 1..Len(f.new), NEW j \in 1..Len(f.tried),
                      Ip[f.new[i].addr] = Ip[f.tried[j].addr]
               PROVE  FALSE
    OBVIOUS
  <2>1. PICK n \in S : f.new[i] = Saved(a.mapInfo[n])
    BY <1>1
  <2>2. PICK m \in T : f.tried[j] = Saved(a.mapInfo[m])
    BY <1>1
  <2>3. n = m
    BY <1>2, <1>4, <2>1, <2>2
  <2> QED
    BY <1>2, <2>3
<1>8. \A j \in 1..Len(f.tried) : f.tried[j].nLastSuccess # 0
  <2> TAKE j \in 1..Len(f.tried)
  <2>1. PICK m \in T : f.tried[j] = Saved(a.mapInfo[m])
    BY <1>1
  <2>2. a.mapInfo[m].nLastSuccess # 0
    BY <1>3 DEF Referenced, T
  <2> QED
    BY <2>1, <2>2 DEF Saved
<1>9. \A b \in NewBuckets : Cardinality(f.vvNew[b]) <= NewBucketSize
  <2> TAKE b \in NewBuckets
  <2> DEFINE B == a.vvNew[b]
             C == f.vvNew[b]
             g == [n \in B |-> Rank(S, n)]
  <2>1. /\ IsFiniteSet(B) /\ Cardinality(B) \in Nat /\ Cardinality(B) <= NewBucketSize
    BY <1>2, <1>3, KnownFinite DEF Bounded
  <2>2. C = {Rank(S, n) : n \in B}
    BY <1>1
  <2> HIDE DEF B, C
  <2>3. g \in Surjection(B, C)
    BY <2>2, Fun_IsSurj
  <2>4. IsFiniteSet(C) /\ Cardinality(C) <= Cardinality(B)
    BY <2>1, <2>3, FS_Surjection
  <2>5. Cardinality(C) \in Nat
    BY <2>4, FS_CardinalityType
  <2>6. Cardinality(C) <= NewBucketSize
    BY <2>1, <2>4, <2>5, AddrManAssumption
  <2> QED
    BY <2>6 DEF C
<1>10. ASSUME whole, NEW r \in 0..(Len(f.new) - 1) PROVE \E b \in NewBuckets : r \in f.vvNew[b]
  <2>1. Len(f.new) \in Nat /\ r + 1 \in 1..Len(f.new) /\ (r + 1) - 1 = r
    BY <1>1
  <2>2. PICK n \in S : Rank(S, n) = r
    BY <1>1, <2>1
  <2>3. n \in Known(a) /\ a.mapInfo[n].nRefCount # 0
    BY <2>2 DEF S, Kept
  <2>4. n \notin held
    BY <1>10
  <2>5. a.mapInfo[n].nRefCount = Cardinality(Buckets(a, n)) + 0
    BY <1>3, <2>3, <2>4 DEF Referenced
  <2>6. Buckets(a, n) # {}
    <3> SUFFICES ASSUME Buckets(a, n) = {} PROVE FALSE
      OBVIOUS
    <3>1. Cardinality(Buckets(a, n)) = 0
      BY FS_EmptySet
    <3>2. a.mapInfo[n].nRefCount = 0
      BY <2>5, <3>1
    <3> QED
      BY <2>3, <3>2
  <2>7. PICK b \in NewBuckets : n \in a.vvNew[b]
    BY <2>6 DEF Buckets
  <2> QED
    BY <1>1, <2>2, <2>7
<1>11. Len(f.new) + Len(f.tried) <= MaxIds
  BY <1>1, <1>2
<1>12. f.nNew \in Nat /\ f.nTried \in Nat
  BY <1>1, <1>3
<1> QED
  BY <1>1, <1>5, <1>6, <1>7, <1>8, <1>9, <1>10, <1>11, <1>12 DEF FileOK, f

\* The places in the file of the tried entries that are kept.
FileBucket(f, j) == TriedBucketOf[f.tried[j].addr]
KeptPlaces(f) ==
    {j \in 1..f.nTried :
        Cardinality({l \in 1..(j - 1) : FileBucket(f, l) = FileBucket(f, j)}) < TriedBucketSize}

\* No more are kept than a bucket takes; all are, if the buckets took them before.
LEMMA KeptPlacesIs ==
    ASSUME NEW f, f.nTried \in Nat
    PROVE  /\ KeptTried(f) = InOrder(KeptPlaces(f))
           /\ KeptPlaces(f) \in SUBSET (1..f.nTried) /\ KeptPlaces(f) \in SUBSET Nat
           /\ IsFiniteSet(KeptPlaces(f)) /\ Cardinality(KeptPlaces(f)) \in Nat
           /\ Cardinality(KeptPlaces(f)) <= f.nTried
           /\ \A k : LET J == {j \in KeptPlaces(f) : FileBucket(f, j) = k}
                     IN  IsFiniteSet(J) /\ Cardinality(J) \in Nat
                         /\ Cardinality(J) <= TriedBucketSize
           /\ (\A k \in TriedBuckets :
                  Cardinality({j \in 1..f.nTried : FileBucket(f, j) = k}) <= TriedBucketSize)
              /\ (\A j \in 1..f.nTried : FileBucket(f, j) \in TriedBuckets)
              => KeptPlaces(f) = 1..f.nTried
<1> DEFINE P == 1..f.nTried
           K == KeptPlaces(f)
           In(k) == {j \in P : FileBucket(f, j) = k}
<1>1. KeptTried(f) = InOrder(K)
  BY DEF KeptTried, KeptPlaces, FileBucket
<1>2. P \in SUBSET Nat /\ IsFiniteSet(P) /\ Cardinality(P) = f.nTried
  <2>1. P \in SUBSET Nat
    OBVIOUS
  <2>2. IsFiniteSet(P) /\ Cardinality(P) = IF 1 > f.nTried THEN 0 ELSE f.nTried - 1 + 1
    <3>1. f.nTried \in Int /\ 1 \in Int
      OBVIOUS
    <3> QED
      BY <3>1, FS_Interval
  <2> HIDE DEF P
  <2> QED
    BY <2>1, <2>2
<1>3. K \in SUBSET P /\ K \in SUBSET Nat
  BY <1>2 DEF KeptPlaces
<1>4. IsFiniteSet(K) /\ Cardinality(K) \in Nat /\ Cardinality(K) <= f.nTried
  BY <1>2, <1>3, FS_Subset, FS_CardinalityType
<1>5. \A k : In(k) \in SUBSET Nat /\ IsFiniteSet(In(k))
  <2> TAKE k
  <2>1. In(k) \in SUBSET P
    OBVIOUS
  <2> QED
    BY <1>2, <2>1, FS_Subset
<1>6. \A j \in P : j \in K <=> Rank(In(FileBucket(f, j)), j) < TriedBucketSize
  <2> TAKE j \in P
  <2>1. {l \in 1..(j - 1) : FileBucket(f, l) = FileBucket(f, j)}
           = {l \in In(FileBucket(f, j)) : l < j}
    BY <1>2
  <2> QED
    BY <2>1 DEF KeptPlaces, Rank
<1>7. TriedBucketSize \in Nat \ {0}
  BY AddrManAssumption
<1>8. ASSUME NEW k
      PROVE  LET J == {j \in K : FileBucket(f, j) = k}
             IN  IsFiniteSet(J) /\ Cardinality(J) \in Nat /\ Cardinality(J) <= TriedBucketSize
  <2> DEFINE J == {j \in K : FileBucket(f, j) = k}
             S == In(k)
             F == {x \in S : Rank(S, x) < TriedBucketSize}
  <2>1. J = F
    BY <1>3, <1>6
  <2>2. S \in SUBSET Nat /\ IsFiniteSet(S)
    BY <1>5
  <2> HIDE DEF S, J
  <2>3. IsFiniteSet(F) /\ Cardinality(F) \in Nat /\ Cardinality(F) <= TriedBucketSize
    BY <1>7, <2>2, Firsts
  <2> QED
    BY <2>1, <2>3 DEF J
<1>9. ASSUME \A k \in TriedBuckets : Cardinality(In(k)) <= TriedBucketSize,
             \A j \in P : FileBucket(f, j) \in TriedBuckets
      PROVE  K = P
  <2>1. ASSUME NEW j \in P PROVE j \in K
    <3> DEFINE S == In(FileBucket(f, j))
    <3>1. S \in SUBSET Nat /\ IsFiniteSet(S) /\ Cardinality(S) <= TriedBucketSize /\ j \in S
      BY <1>5, <1>9
    <3> HIDE DEF S
    <3>2. {x \in S : Rank(S, x) < TriedBucketSize} = S
      BY <1>7, <3>1, Firsts
    <3>3. Rank(S, j) < TriedBucketSize
      BY <3>1, <3>2
    <3> QED
      BY <1>6, <3>3 DEF S
  <2> QED
    BY <1>3, <2>1
<1> QED
  BY <1>1, <1>3, <1>4, <1>8, <1>9

\* The buckets that a new entry of the file is put in.
LEMMA LoadedBucketsIs ==
    ASSUME NEW f, NEW S, f.vvNew \in [NewBuckets -> SUBSET S]
    PROVE  /\ LoadedBuckets(f) \in [NewBuckets -> SUBSET S]
           /\ \A b \in NewBuckets : LoadedBuckets(f)[b] \in SUBSET f.vvNew[b]
           /\ \A n : LET X == {b \in NewBuckets : n \in f.vvNew[b]}
                         Y == {b \in NewBuckets : n \in LoadedBuckets(f)[b]}
                     IN  /\ Cardinality(Y) \in Nat /\ Cardinality(Y) <= BucketsPerAddress
                         /\ X # {} => Y # {}
                         /\ Cardinality(X) <= BucketsPerAddress => Y = X
<1>1. LoadedBuckets(f) \in [NewBuckets -> SUBSET S]
      /\ \A b \in NewBuckets : LoadedBuckets(f)[b] \in SUBSET f.vvNew[b]
  BY DEF LoadedBuckets
<1>2. ASSUME NEW n
      PROVE  LET X == {b \in NewBuckets : n \in f.vvNew[b]}
                 Y == {b \in NewBuckets : n \in LoadedBuckets(f)[b]}
             IN  /\ Cardinality(Y) \in Nat /\ Cardinality(Y) <= BucketsPerAddress
                 /\ X # {} => Y # {}
                 /\ Cardinality(X) <= BucketsPerAddress => Y = X
  <2> DEFINE X == {b \in NewBuckets : n \in f.vvNew[b]}
             Y == {b \in NewBuckets : n \in LoadedBuckets(f)[b]}
             F == {b \in X : Rank(X, b) < BucketsPerAddress}
  <2>1. X \in SUBSET Nat /\ IsFiniteSet(X)
    BY BucketSets DEF NewBuckets
  <2>2. \A b \in NewBuckets : {c \in 1..(b - 1) : n \in f.vvNew[c]} = {c \in X : c < b}
    BY AddrManAssumption DEF NewBuckets
  <2>3. \A b \in NewBuckets : b \in Y <=> b \in X /\ Rank(X, b) < BucketsPerAddress
    BY <2>2 DEF LoadedBuckets, Rank
  <2>4. Y = F
    BY <2>3
  <2>5. BucketsPerAddress \in Nat \ {0}
    BY AddrManAssumption
  <2> HIDE DEF X, Y
  <2>6. /\ Cardinality(F) \in Nat /\ Cardinality(F) <= BucketsPerAddress
        /\ X # {} => F # {}
        /\ Cardinality(X) <= BucketsPerAddress => F = X
    BY <2>1, <2>5, Firsts
  <2> QED
    BY <2>4, <2>6 DEF X, Y
<1> QED
  BY <1>1, <1>2

\* A file that is read: it announces as many entries as it holds.
ReadableFile(f, whole) ==
    /\ FileOK(f, whole)
    /\ f.nNew = Len(f.new) /\ f.nTried = Len(f.tried)

LoadedCount(f) == f.nNew + Len(KeptTried(f))

\* The entries that are read: the new ones by their index, then the tried ones that are
\* kept, in the order of the file; no two have the same host.
LEMMA LoadedEntries ==
    ASSUME NEW f, NEW whole, ReadableFile(f, whole)
    PROVE  /\ LoadedCount(f) \in 0..MaxIds /\ f.nNew \in Nat /\ f.nNew <= LoadedCount(f)
           /\ Len(KeptTried(f)) = Cardinality(KeptPlaces(f))
           /\ \A n \in 0..(f.nNew - 1) : LoadedEntry(f, n) = f.new[n + 1]
           /\ \A n \in f.nNew..(LoadedCount(f) - 1) :
                 \E j \in KeptPlaces(f) : /\ LoadedEntry(f, n) = f.tried[j]
                                          /\ n = f.nNew + Rank(KeptPlaces(f), j)
           /\ \A j \in KeptPlaces(f) :
                 /\ f.nNew + Rank(KeptPlaces(f), j) \in f.nNew..(LoadedCount(f) - 1)
                 /\ LoadedEntry(f, f.nNew + Rank(KeptPlaces(f), j)) = f.tried[j]
           /\ \A n \in 0..(LoadedCount(f) - 1) :
                 /\ LoadedEntry(f, n) \in SavedType
                 /\ n >= f.nNew => LoadedEntry(f, n).nLastSuccess # 0
           /\ \A n, m \in 0..(LoadedCount(f) - 1) :
                 Ip[LoadedEntry(f, n).addr] = Ip[LoadedEntry(f, m).addr] => n = m
<1> DEFINE N == f.nNew
           K == KeptPlaces(f)
           o == KeptTried(f)
           size == LoadedCount(f)
<1>1. /\ N \in Nat /\ N = Len(f.new) /\ f.nTried = Len(f.tried) /\ f.nTried \in Nat
      /\ f.new \in Seq(SavedType) /\ f.tried \in Seq(SavedType)
      /\ Len(f.new) + Len(f.tried) <= MaxIds
      /\ \A i, j \in 1..Len(f.new) : Ip[f.new[i].addr] = Ip[f.new[j].addr] => i = j
      /\ \A i, j \in 1..Len(f.tried) : Ip[f.tried[i].addr] = Ip[f.tried[j].addr] => i = j
      /\ \A i \in 1..Len(f.new), j \in 1..Len(f.tried) : Ip[f.new[i].addr] # Ip[f.tried[j].addr]
      /\ \A j \in 1..Len(f.tried) : f.tried[j].nLastSuccess # 0
  BY DEF ReadableFile, FileOK
<1>2. /\ o = InOrder(K) /\ K \in SUBSET (1..f.nTried) /\ K \in SUBSET Nat /\ IsFiniteSet(K)
      /\ Cardinality(K) \in Nat /\ Cardinality(K) <= f.nTried
  BY <1>1, KeptPlacesIs
<1>3. /\ size = N + Cardinality(K) /\ size \in 0..MaxIds /\ N <= size
      /\ N \in Nat /\ Cardinality(K) \in Nat /\ f.nNew = N
  <2> HIDE DEF K
  <2>1. size = N + Cardinality(K)
    <3>1. Len(KeptTried(f)) = Cardinality(K)
      BY <1>2, InOrderIs
    <3> QED
      BY <3>1 DEF LoadedCount
  <2>2. N \in Nat /\ Cardinality(K) \in Nat /\ N + Cardinality(K) <= MaxIds
    <3>1. /\ N \in Nat /\ N = Len(f.new) /\ f.nTried = Len(f.tried) /\ f.nTried \in Nat
          /\ Len(f.new) + Len(f.tried) <= MaxIds
          /\ Cardinality(K) \in Nat /\ Cardinality(K) <= f.nTried
      BY <1>1, <1>2
    <3>2. MaxIds \in Nat
      BY AddrManAssumption
    <3>3. \A l, t, c, x \in Nat : l + t <= x /\ c <= t => l + c <= x
      OBVIOUS
    <3> HIDE DEF N
    <3> QED
      BY <3>1, <3>2, <3>3
  <2> HIDE DEF size, N
  <2>3. size \in 0..MaxIds /\ N <= size
    BY <2>1, <2>2, AddrManAssumption
  <2> QED
    BY <2>1, <2>2, <2>3 DEF N
<1> HIDE DEF N, K, o, size
<1>4. /\ o \in Seq(K) /\ Len(o) = Cardinality(K)
      /\ \A k \in 1..Cardinality(K) : o[k] \in K /\ Rank(K, o[k]) = k - 1
      /\ \A j \in K : Rank(K, j) + 1 \in 1..Cardinality(K) /\ o[Rank(K, j) + 1] = j
  BY <1>2, InOrderIs
<1>5. ASSUME NEW n \in 0..(N - 1) PROVE LoadedEntry(f, n) = f.new[n + 1]
  <2>1. n < f.nNew
    BY <1>3
  <2> QED
    BY <2>1 DEF LoadedEntry
<1>6. ASSUME NEW n \in N..(size - 1)
      PROVE  \E j \in K : LoadedEntry(f, n) = f.tried[j] /\ n = N + Rank(K, j)
  <2>1. ~(n < f.nNew) /\ n - N + 1 \in 1..Cardinality(K)
    BY <1>3
  <2>2. LoadedEntry(f, n) = f.tried[o[n - N + 1]]
    BY <1>3, <2>1 DEF LoadedEntry, o
  <2>3. o[n - N + 1] \in K /\ Rank(K, o[n - N + 1]) = (n - N + 1) - 1
    BY <1>4, <2>1
  <2>4. n = N + Rank(K, o[n - N + 1])
    BY <1>1, <1>3, <2>3
  <2> QED
    BY <2>2, <2>3, <2>4
<1>7. ASSUME NEW j \in K
      PROVE  /\ N + Rank(K, j) \in N..(size - 1)
             /\ LoadedEntry(f, N + Rank(K, j)) = f.tried[j]
  <2>1. Rank(K, j) \in Int
    BY <1>2, RankIs
  <2>2. N + Rank(K, j) \in N..(size - 1) /\ ~(N + Rank(K, j) < f.nNew)
        /\ (N + Rank(K, j)) - f.nNew + 1 = Rank(K, j) + 1
    <3>1. Rank(K, j) + 1 \in 1..Cardinality(K)
      BY <1>4
    <3> QED
      BY <1>3, <2>1, <3>1
  <2>3. LoadedEntry(f, N + Rank(K, j)) = f.tried[o[Rank(K, j) + 1]]
    BY <2>2 DEF LoadedEntry, o
  <2> QED
    BY <1>4, <2>2, <2>3
<1>8. \A n \in 0..(size - 1) : n \in 0..(N - 1) \/ n \in N..(size - 1)
  BY <1>1, <1>3
<1>9. \A n \in 0..(N - 1) : n + 1 \in 1..Len(f.new)
  BY <1>1
<1>10. ASSUME NEW n \in 0..(size - 1)
       PROVE  /\ LoadedEntry(f, n) \in SavedType
              /\ n >= N => LoadedEntry(f, n).nLastSuccess # 0
  <2>1. CASE n \in 0..(N - 1)
    BY <1>1, <1>5, <1>9, <2>1
  <2>2. CASE n \in N..(size - 1)
    <3>1. PICK j \in K : LoadedEntry(f, n) = f.tried[j]
      BY <1>6, <2>2
    <3>2. j \in 1..Len(f.tried)
      BY <1>1, <1>2
    <3> QED
      BY <1>1, <3>1, <3>2
  <2> QED
    BY <1>8, <2>1, <2>2
<1>11. ASSUME NEW n \in 0..(size - 1), NEW m \in 0..(size - 1),
              Ip[LoadedEntry(f, n).addr] = Ip[LoadedEntry(f, m).addr]
       PROVE  n = m
  <2>1. \A x \in N..(size - 1) : \E j \in 1..Len(f.tried) :
           LoadedEntry(f, x) = f.tried[j] /\ x = N + Rank(K, j)
    BY <1>1, <1>2, <1>6
  <2>2. CASE n \in 0..(N - 1) /\ m \in 0..(N - 1)
    <3>1. n + 1 = m + 1
      BY <1>1, <1>5, <1>9, <1>11, <2>2
    <3> QED
      BY <3>1
  <2>3. CASE n \in 0..(N - 1) /\ m \in N..(size - 1)
    BY <1>1, <1>5, <1>9, <1>11, <2>1, <2>3
  <2>4. CASE n \in N..(size - 1) /\ m \in 0..(N - 1)
    <3>1. PICK j \in 1..Len(f.tried) : LoadedEntry(f, n) = f.tried[j]
      BY <2>1, <2>4
    <3>2. LoadedEntry(f, m) = f.new[m + 1] /\ m + 1 \in 1..Len(f.new)
      BY <1>5, <1>9, <2>4
    <3> QED
      BY <1>1, <1>11, <3>1, <3>2
  <2>5. CASE n \in N..(size - 1) /\ m \in N..(size - 1)
    <3>1. PICK j \in 1..Len(f.tried) : LoadedEntry(f, n) = f.tried[j] /\ n = N + Rank(K, j)
      BY <2>1, <2>5
    <3>2. PICK i \in 1..Len(f.tried) : LoadedEntry(f, m) = f.tried[i] /\ m = N + Rank(K, i)
      BY <2>1, <2>5
    <3>3. j = i
      BY <1>1, <1>11, <3>1, <3>2
    <3> QED
      BY <3>1, <3>2, <3>3
  <2> QED
    BY <1>8, <2>2, <2>3, <2>4, <2>5
<1> QED
  BY <1>1, <1>3, <1>4, <1>5, <1>6, <1>7, <1>10, <1>11 DEF N, K, o, size

\* What Deserialize makes of it.
LEMMA LoadedObject ==
    ASSUME NEW f, NEW whole, ReadableFile(f, whole)
    PROVE  LET d == Deserialize(f)
               size == LoadedCount(f)
               E(n) == LoadedEntry(f, n)
           IN  /\ d = Obj(d) /\ d.nIdCount = size /\ Known(d) = 0..(size - 1)
               /\ \A n \in 0..(size - 1) :
                     d.mapInfo[n] = [addr |-> E(n).addr, source |-> E(n).source,
                                     nLastSuccess |-> E(n).nLastSuccess,
                                     nRefCount |-> Cardinality(Buckets(d, n)),
                                     fInTried |-> n >= f.nNew, nRandomPos |-> n + 1]
               /\ d.mapInfo = [n \in 0..(size - 1) |-> d.mapInfo[n]]
               /\ DOMAIN d.mapAddr = {Ip[E(n).addr] : n \in 0..(size - 1)}
               /\ d.mapAddr \in [DOMAIN d.mapAddr -> 0..(size - 1)]
               /\ \A n \in 0..(size - 1) : d.mapAddr[Ip[E(n).addr]] = n
               /\ d.vRandom = [k \in 1..size |-> k - 1]
               /\ d.nTried = Cardinality(KeptPlaces(f)) /\ d.nNew = f.nNew
               /\ d.vvTried = [k \in TriedBuckets |->
                     InOrder({n \in f.nNew..(size - 1) : TriedBucketOf[E(n).addr] = k})]
               /\ d.vvNew = LoadedBuckets(f)
<1> DEFINE d == Deserialize(f)
           size == LoadedCount(f)
           E(n) == LoadedEntry(f, n)
           info == [n \in 0..(size - 1) |->
                      [addr |-> E(n).addr, source |-> E(n).source,
                       nLastSuccess |-> E(n).nLastSuccess,
                       nRefCount |-> Cardinality({b \in NewBuckets : n \in LoadedBuckets(f)[b]}),
                       fInTried |-> n >= f.nNew, nRandomPos |-> n + 1]]
           hosts == [p \in {Ip[E(n).addr] : n \in 0..(size - 1)} |->
                       CHOOSE n \in 0..(size - 1) : Ip[E(n).addr] = p]
           order == [k \in 1..size |-> k - 1]
           tried == [k \in TriedBuckets |->
                     InOrder({n \in f.nNew..(size - 1) : TriedBucketOf[E(n).addr] = k})]
<1>1. /\ Len(KeptTried(f)) = Cardinality(KeptPlaces(f))
      /\ \A n, m \in 0..(size - 1) : Ip[E(n).addr] = Ip[E(m).addr] => n = m
  BY LoadedEntries
<1>3. d = [nIdCount |-> size, mapInfo |-> info, mapAddr |-> hosts, vRandom |-> order,
           nTried |-> Len(KeptTried(f)), vvTried |-> tried, nNew |-> f.nNew,
           vvNew |-> LoadedBuckets(f)]
  BY DEF Deserialize, LoadedCount
<1> HIDE DEF d, size, info, hosts, order, tried, E
<1>4. /\ d = Obj(d) /\ d.nIdCount = size /\ d.mapInfo = info /\ d.mapAddr = hosts
      /\ d.vRandom = order /\ d.nTried = Cardinality(KeptPlaces(f)) /\ d.vvTried = tried
      /\ d.nNew = f.nNew /\ d.vvNew = LoadedBuckets(f)
  BY <1>1, <1>3 DEF Obj
<1>5. Known(d) = 0..(size - 1) /\ d.mapInfo = [n \in 0..(size - 1) |-> d.mapInfo[n]]
  BY <1>4 DEF Known, info
<1>6. \A n \in 0..(size - 1) :
         d.mapInfo[n] = [addr |-> E(n).addr, source |-> E(n).source,
                         nLastSuccess |-> E(n).nLastSuccess,
                         nRefCount |-> Cardinality(Buckets(d, n)),
                         fInTried |-> n >= f.nNew, nRandomPos |-> n + 1]
  <2> TAKE n \in 0..(size - 1)
  <2>1. Buckets(d, n) = {b \in NewBuckets : n \in LoadedBuckets(f)[b]}
    BY <1>4 DEF Buckets
  <2> QED
    BY <1>4, <2>1 DEF info
<1>7. ASSUME NEW n \in 0..(size - 1)
      PROVE  Ip[E(n).addr] \in DOMAIN hosts /\ hosts[Ip[E(n).addr]] = n
  <2>1. Ip[E(n).addr] \in {Ip[E(m).addr] : m \in 0..(size - 1)}
    OBVIOUS
  <2>2. hosts[Ip[E(n).addr]] = CHOOSE m \in 0..(size - 1) : Ip[E(m).addr] = Ip[E(n).addr]
    BY <2>1 DEF hosts
  <2> DEFINE m == CHOOSE m \in 0..(size - 1) : Ip[E(m).addr] = Ip[E(n).addr]
  <2>3. m \in 0..(size - 1) /\ Ip[E(m).addr] = Ip[E(n).addr]
    OBVIOUS
  <2> HIDE DEF m
  <2>4. m = n
    BY <1>1, <2>3 DEF E
  <2> QED
    BY <2>1, <2>2, <2>4 DEF hosts, m
<1>8. DOMAIN hosts = {Ip[E(n).addr] : n \in 0..(size - 1)}
  BY DEF hosts
<1>9. hosts \in [DOMAIN hosts -> 0..(size - 1)]
  <2>1. \A p \in DOMAIN hosts : hosts[p] \in 0..(size - 1)
    BY <1>7, <1>8
  <2>2. hosts = [p \in DOMAIN hosts |-> hosts[p]]
    BY DEF hosts
  <2> QED
    BY <2>1, <2>2
<1> QED
  BY <1>4, <1>5, <1>6, <1>7, <1>8, <1>9 DEF d, size, order, tried, E

\* It is sound; entries without a bucket come from a file that was not whole.
LEMMA Loaded ==
    ASSUME NEW f, NEW whole \in BOOLEAN, ReadableFile(f, whole)
    PROVE  Sound(Deserialize(f), {}, IF whole THEN {} ELSE Known(Deserialize(f)), 0)
<1> DEFINE d == Deserialize(f)
           size == LoadedCount(f)
           N == f.nNew
           E(n) == LoadedEntry(f, n)
           K == KeptPlaces(f)
           In(k) == {n \in N..(size - 1) : TriedBucketOf[E(n).addr] = k}
<1>1. /\ size \in 0..MaxIds /\ N \in Nat /\ N <= size
      /\ size \in Nat
      /\ \A n \in N..(size - 1) : \E j \in K : E(n) = f.tried[j] /\ n = N + Rank(K, j)
      /\ \A n \in 0..(size - 1) : E(n) \in SavedType /\ (n >= N => E(n).nLastSuccess # 0)
      /\ \A n, m \in 0..(size - 1) : Ip[E(n).addr] = Ip[E(m).addr] => n = m
  BY LoadedEntries, AddrManAssumption
<1>2. size = N + Cardinality(K) /\ Cardinality(K) \in Nat
  <2>1. Len(KeptTried(f)) = Cardinality(K)
    BY LoadedEntries
  <2>2. Cardinality(K) \in Nat
    BY KeptPlacesIs DEF ReadableFile, FileOK
  <2> QED
    BY <2>1, <2>2 DEF LoadedCount
<1>3. /\ d = Obj(d) /\ d.nIdCount = size /\ Known(d) = 0..(size - 1)
      /\ \A n \in 0..(size - 1) :
            d.mapInfo[n] = [addr |-> E(n).addr, source |-> E(n).source,
                            nLastSuccess |-> E(n).nLastSuccess,
                            nRefCount |-> Cardinality(Buckets(d, n)),
                            fInTried |-> n >= N, nRandomPos |-> n + 1]
      /\ d.mapInfo = [n \in 0..(size - 1) |-> d.mapInfo[n]]
      /\ DOMAIN d.mapAddr = {Ip[E(n).addr] : n \in 0..(size - 1)}
      /\ d.mapAddr \in [DOMAIN d.mapAddr -> 0..(size - 1)]
      /\ \A n \in 0..(size - 1) : d.mapAddr[Ip[E(n).addr]] = n
      /\ d.vRandom = [k \in 1..size |-> k - 1]
      /\ d.nTried = Cardinality(K) /\ d.nNew = N
      /\ d.vvTried = [k \in TriedBuckets |-> InOrder(In(k))]
      /\ d.vvNew = LoadedBuckets(f)
  BY LoadedObject
<1>4. /\ f.vvNew \in [NewBuckets -> SUBSET (0..(N - 1))]
      /\ \A b \in NewBuckets : Cardinality(f.vvNew[b]) <= NewBucketSize
      /\ whole => \A n \in 0..(N - 1) : \E b \in NewBuckets : n \in f.vvNew[b]
  BY DEF ReadableFile, FileOK
<1> HIDE DEF d, size, N, E, K, In
<1>5. /\ d.vvNew \in [NewBuckets -> SUBSET (0..(N - 1))]
      /\ \A b \in NewBuckets : d.vvNew[b] \in SUBSET f.vvNew[b]
      /\ \A n : /\ Cardinality(Buckets(d, n)) \in Nat
                /\ Cardinality(Buckets(d, n)) <= BucketsPerAddress
                /\ (\E b \in NewBuckets : n \in f.vvNew[b]) => Buckets(d, n) # {}
  <2> DEFINE S == 0..(N - 1)
  <2>1. f.vvNew \in [NewBuckets -> SUBSET S]
    BY <1>4
  <2> HIDE DEF S
  <2>2. /\ LoadedBuckets(f) \in [NewBuckets -> SUBSET S]
        /\ \A b \in NewBuckets : LoadedBuckets(f)[b] \in SUBSET f.vvNew[b]
        /\ \A n : LET X == {b \in NewBuckets : n \in f.vvNew[b]}
                      Y == {b \in NewBuckets : n \in LoadedBuckets(f)[b]}
                  IN  /\ Cardinality(Y) \in Nat /\ Cardinality(Y) <= BucketsPerAddress
                      /\ X # {} => Y # {}
    BY <2>1, LoadedBucketsIs
  <2>3. \A n : Buckets(d, n) = {b \in NewBuckets : n \in LoadedBuckets(f)[b]}
    BY <1>3 DEF Buckets
  <2>4. \A n : /\ Cardinality(Buckets(d, n)) \in Nat
               /\ Cardinality(Buckets(d, n)) <= BucketsPerAddress
               /\ (\E b \in NewBuckets : n \in f.vvNew[b]) => Buckets(d, n) # {}
    BY <2>2, <2>3
  <2> QED
    BY <1>3, <2>2, <2>4 DEF S
<1>6. \A n \in 0..(size - 1) :
         /\ d.mapInfo[n] \in InfoType
         /\ d.mapInfo[n].addr = E(n).addr
         /\ d.mapInfo[n].nLastSuccess = E(n).nLastSuccess
         /\ d.mapInfo[n].nRefCount = Cardinality(Buckets(d, n))
         /\ d.mapInfo[n].fInTried = (n >= N)
         /\ d.mapInfo[n].nRandomPos = n + 1
  <2> TAKE n \in 0..(size - 1)
  <2>1. E(n) \in SavedType /\ Cardinality(Buckets(d, n)) \in Nat /\ n + 1 \in Nat \ {0}
        /\ (n >= N) \in BOOLEAN
    BY <1>1, <1>5
  <2>2. E(n).addr \in Service /\ E(n).source \in Source /\ E(n).nLastSuccess \in 0..MaxTime
    BY <2>1 DEF SavedType
  <2>3. d.mapInfo[n] = [addr |-> E(n).addr, source |-> E(n).source,
                        nLastSuccess |-> E(n).nLastSuccess,
                        nRefCount |-> Cardinality(Buckets(d, n)),
                        fInTried |-> n >= N, nRandomPos |-> n + 1]
    BY <1>3
  <2> QED
    BY <2>1, <2>2, <2>3 DEF InfoType
<1>7. Tried(d) = N..(size - 1) /\ Untried(d) = 0..(N - 1)
  <2>1. Tried(d) = N..(size - 1)
    <3>1. N..(size - 1) \in SUBSET (0..(size - 1))
          /\ \A n \in 0..(size - 1) : n >= N <=> n \in N..(size - 1)
      BY <1>1
    <3>2. \A n \in 0..(size - 1) : d.mapInfo[n].fInTried <=> n >= N
      BY <1>6
    <3>3. Tried(d) = {n \in 0..(size - 1) : d.mapInfo[n].fInTried}
      BY <1>3 DEF Tried
    <3> QED
      BY <3>1, <3>2, <3>3
  <2> QED
    BY <1>1, <1>3, <2>1 DEF Untried
<1>8. \A k : /\ In(k) \in SUBSET Nat /\ IsFiniteSet(In(k)) /\ In(k) \in SUBSET (N..(size - 1))
             /\ In(k) \in SUBSET (0..(size - 1))
  <2> TAKE k
  <2>1. In(k) \in SUBSET (N..(size - 1))
    BY DEF In
  <2>2. IsFiniteSet(N..(size - 1))
    <3>1. N \in Int /\ size - 1 \in Int
      BY <1>1
    <3> QED
      BY <3>1, FS_Interval
  <2>3. IsFiniteSet(In(k))
    BY <2>1, <2>2, FS_Subset
  <2>4. \A n \in N..(size - 1) : n \in Nat /\ n \in 0..(size - 1)
    BY <1>1
  <2> QED
    BY <2>1, <2>3, <2>4
<1>9. \A k \in TriedBuckets :
         /\ d.vvTried[k] \in Seq(In(k)) /\ Len(d.vvTried[k]) = Cardinality(In(k))
         /\ Cardinality(In(k)) \in Nat
         /\ \A i \in 1..Cardinality(In(k)) : d.vvTried[k][i] \in In(k)
                                             /\ Rank(In(k), d.vvTried[k][i]) = i - 1
         /\ \A n \in In(k) : Rank(In(k), n) + 1 \in 1..Cardinality(In(k))
                             /\ d.vvTried[k][Rank(In(k), n) + 1] = n
  <2> TAKE k \in TriedBuckets
  <2>1. d.vvTried[k] = InOrder(In(k))
    BY <1>3
  <2> QED
    BY <1>8, <2>1, InOrderIs
<1>10. Typed(d)
  <2>1. d.mapInfo \in [Known(d) -> InfoType]
    BY <1>3, <1>6
  <2>2. DOMAIN d.mapAddr \subseteq Ips
    <3>1. \A n \in 0..(size - 1) : Ip[E(n).addr] \in Ips
      BY <1>1 DEF SavedType, Ips
    <3> QED
      BY <1>3, <3>1
  <2>3. d.vRandom \in Seq(Known(d))
    <3>1. \A k \in 1..size : k - 1 \in 0..(size - 1)
      BY <1>1
    <3>2. d.vRandom \in [1..size -> Known(d)]
      BY <1>3, <3>1
    <3> QED
      BY <1>1, <3>2
  <2>4. d.vvTried \in [TriedBuckets -> Seq(Known(d))]
    <3>1. \A k \in TriedBuckets : d.vvTried[k] \in Seq(Known(d))
      <4> TAKE k \in TriedBuckets
      <4>1. d.vvTried[k] \in Seq(In(k)) /\ In(k) \in SUBSET Known(d)
        BY <1>3, <1>8, <1>9
      <4> QED
        BY <4>1
    <3>2. d.vvTried = [k \in TriedBuckets |-> d.vvTried[k]]
      BY <1>3
    <3> QED
      BY <3>1, <3>2
  <2>5. d.vvNew \in [NewBuckets -> SUBSET Known(d)]
    <3>1. 0..(N - 1) \in SUBSET (0..(size - 1))
      BY <1>1
    <3>2. \A b \in NewBuckets : d.vvNew[b] \in SUBSET Known(d)
      BY <1>3, <1>5, <3>1
    <3> QED
      BY <1>5, <3>2
  <2>6. d.nIdCount \in 0..MaxIds /\ Known(d) \subseteq 0..(d.nIdCount - 1)
        /\ d.nTried \in Nat /\ d.nNew \in Nat /\ d.mapAddr \in [DOMAIN d.mapAddr -> Known(d)]
    BY <1>1, <1>2, <1>3
  <2> QED
    BY <1>3, <2>1, <2>2, <2>3, <2>4, <2>5, <2>6 DEF Typed
<1>11. Indexed(d)
  <2>1. \A n \in Known(d) : /\ Ip[d.mapInfo[n].addr] \in DOMAIN d.mapAddr
                            /\ d.mapAddr[Ip[d.mapInfo[n].addr]] = n
    BY <1>3, <1>6
  <2>2. \A p \in DOMAIN d.mapAddr : Ip[d.mapInfo[d.mapAddr[p]].addr] = p
    <3> TAKE p \in DOMAIN d.mapAddr
    <3>1. PICK n \in 0..(size - 1) : p = Ip[E(n).addr]
      BY <1>3
    <3> QED
      BY <1>3, <1>6, <3>1
  <2>3. Len(d.vRandom) = size /\ \A k \in 1..size : d.vRandom[k] = k - 1
    BY <1>1, <1>3
  <2>4. \A n \in Known(d) : /\ d.mapInfo[n].nRandomPos \in 1..Len(d.vRandom)
                            /\ d.vRandom[d.mapInfo[n].nRandomPos] = n
    <3> TAKE n \in Known(d)
    <3>1. d.mapInfo[n].nRandomPos = n + 1 /\ n + 1 \in 1..size /\ (n + 1) - 1 = n
      BY <1>1, <1>3, <1>6
    <3> QED
      BY <2>3, <3>1
  <2>5. \A i \in 1..Len(d.vRandom) : d.mapInfo[d.vRandom[i]].nRandomPos = i
    <3> TAKE i \in 1..Len(d.vRandom)
    <3>1. d.vRandom[i] = i - 1 /\ i - 1 \in 0..(size - 1) /\ (i - 1) + 1 = i
      BY <1>1, <2>3
    <3> QED
      BY <1>6, <3>1
  <2> QED
    BY <2>1, <2>2, <2>4, <2>5 DEF Indexed
<1>12. Placed(d)
  <2>1. \A n \in 0..(size - 1) : TriedBucket(d, n) = TriedBucketOf[E(n).addr]
    BY <1>6 DEF TriedBucket
  <2>2. ASSUME NEW k \in TriedBuckets, NEW i \in 1..Len(d.vvTried[k])
        PROVE  /\ d.vvTried[k][i] \in Tried(d) /\ TriedBucket(d, d.vvTried[k][i]) = k
               /\ \A j \in 1..Len(d.vvTried[k]) : d.vvTried[k][i] = d.vvTried[k][j] => i = j
    <3>1. i \in 1..Cardinality(In(k))
      BY <1>9
    <3>2. d.vvTried[k][i] \in In(k) /\ Rank(In(k), d.vvTried[k][i]) = i - 1
      BY <1>9, <3>1
    <3>3. d.vvTried[k][i] \in N..(size - 1) /\ TriedBucketOf[E(d.vvTried[k][i]).addr] = k
          /\ d.vvTried[k][i] \in 0..(size - 1)
      BY <1>8, <3>2 DEF In
    <3>4. ASSUME NEW j \in 1..Len(d.vvTried[k]), d.vvTried[k][i] = d.vvTried[k][j] PROVE i = j
      <4>1. j \in 1..Cardinality(In(k))
        BY <1>9
      <4>2. Rank(In(k), d.vvTried[k][j]) = j - 1
        BY <1>9, <4>1
      <4>3. i - 1 = j - 1 /\ i \in Int /\ j \in Int
        BY <3>1, <3>2, <3>4, <4>1, <4>2
      <4> QED
        BY <4>3
    <3> QED
      BY <1>7, <2>1, <3>3, <3>4
  <2>3. ASSUME NEW n \in Tried(d)
        PROVE  \E i \in 1..Len(d.vvTried[TriedBucket(d, n)]) :
                  d.vvTried[TriedBucket(d, n)][i] = n
    <3> DEFINE k == TriedBucket(d, n)
    <3>1. n \in N..(size - 1) /\ n \in 0..(size - 1) /\ n \in Known(d)
      BY <1>1, <1>3, <1>7
    <3>2. k \in TriedBuckets /\ k = TriedBucketOf[E(n).addr]
      BY <1>10, <2>1, <3>1, TriedBucketType
    <3> HIDE DEF k
    <3>3. n \in In(k)
      BY <3>1, <3>2 DEF In
    <3>4. Rank(In(k), n) + 1 \in 1..Len(d.vvTried[k]) /\ d.vvTried[k][Rank(In(k), n) + 1] = n
      BY <1>9, <3>2, <3>3
    <3> QED
      BY <3>4 DEF k
  <2> QED
    BY <2>2, <2>3 DEF Placed
<1>13. Bounded(d)
  <2>1. ASSUME NEW b \in NewBuckets PROVE Cardinality(d.vvNew[b]) <= NewBucketSize
    <3>1. IsFiniteSet(0..(N - 1))
      <4>1. 0 \in Int /\ N - 1 \in Int
        BY <1>1
      <4> QED
        BY <4>1, FS_Interval
    <3>2. f.vvNew[b] \in SUBSET (0..(N - 1)) /\ d.vvNew[b] \in SUBSET f.vvNew[b]
      BY <1>4, <1>5
    <3>3. IsFiniteSet(f.vvNew[b]) /\ Cardinality(d.vvNew[b]) <= Cardinality(f.vvNew[b])
      BY <3>1, <3>2, FS_Subset
    <3>4. IsFiniteSet(d.vvNew[b])
      BY <3>2, <3>3, FS_Subset
    <3>5. Cardinality(f.vvNew[b]) \in Nat /\ Cardinality(d.vvNew[b]) \in Nat
      BY <3>3, <3>4, FS_CardinalityType
    <3>6. Cardinality(f.vvNew[b]) <= NewBucketSize /\ NewBucketSize \in Nat
      BY <1>4, AddrManAssumption
    <3> QED
      BY <3>3, <3>5, <3>6
  <2>2. ASSUME NEW k \in TriedBuckets PROVE Len(d.vvTried[k]) <= TriedBucketSize
    <3> DEFINE J == {j \in K : FileBucket(f, j) = k}
               place(n) == CHOOSE j \in K : E(n) = f.tried[j] /\ n = N + Rank(K, j)
               g == [n \in In(k) |-> place(n)]
    <3>1. ASSUME NEW n \in In(k) PROVE place(n) \in J /\ n = N + Rank(K, place(n))
      <4>1. n \in N..(size - 1) /\ TriedBucketOf[E(n).addr] = k
        BY DEF In
      <4>2. place(n) \in K /\ E(n) = f.tried[place(n)] /\ n = N + Rank(K, place(n))
        BY <1>1, <4>1
      <4> QED
        BY <4>1, <4>2 DEF FileBucket
    <3> HIDE DEF J, place
    <3>2. g \in [In(k) -> J]
      BY <3>1
    <3>3. \A n, m \in In(k) : g[n] = g[m] => n = m
      BY <3>1
    <3>4. g \in Injection(In(k), J)
      BY <3>2, <3>3, Fun_IsInj
    <3>5. IsFiniteSet(J) /\ Cardinality(J) \in Nat /\ Cardinality(J) <= TriedBucketSize
      <4>1. f.nTried \in Nat
        BY DEF ReadableFile, FileOK
      <4> QED
        BY <4>1, KeptPlacesIs DEF J, K
    <3>6. Cardinality(In(k)) <= Cardinality(J)
      BY <3>4, <3>5, FS_Injection
    <3>7. Len(d.vvTried[k]) = Cardinality(In(k)) /\ Cardinality(In(k)) \in Nat
      BY <1>9
    <3>8. TriedBucketSize \in Nat
      BY AddrManAssumption
    <3> DEFINE x == Cardinality(In(k))
               y == Cardinality(J)
               z == Len(d.vvTried[k])
    <3>9. z = x /\ x <= y /\ y <= TriedBucketSize /\ x \in Nat /\ y \in Nat
      BY <3>5, <3>6, <3>7
    <3> HIDE DEF x, y, z
    <3>10. z <= TriedBucketSize
      BY <3>8, <3>9
    <3> QED
      BY <3>10 DEF z
  <2> QED
    BY <2>1, <2>2 DEF Bounded
<1>14. Counted(d, 0)
  <2>1. Cardinality(Tried(d)) = size - N /\ Cardinality(Untried(d)) = N
    <3>1. /\ Cardinality(N..(size - 1)) = IF N > size - 1 THEN 0 ELSE (size - 1) - N + 1
          /\ Cardinality(0..(N - 1)) = IF 0 > N - 1 THEN 0 ELSE (N - 1) - 0 + 1
      <4>1. N \in Int /\ size - 1 \in Int /\ 0 \in Int /\ N - 1 \in Int
        BY <1>1
      <4> QED
        BY <4>1, FS_Interval
    <3> QED
      BY <1>1, <1>7, <3>1
  <2> QED
    BY <1>1, <1>2, <1>3, <2>1 DEF Counted
<1>15. Referenced(d, {}, IF whole THEN {} ELSE Known(d))
  <2>1. \A n \in Known(d) : d.mapInfo[n].nRefCount = Cardinality(Buckets(d, n)) + 0
    BY <1>3, <1>5, <1>6
  <2>2. ASSUME NEW n \in Tried(d) PROVE Buckets(d, n) = {} /\ d.mapInfo[n].nLastSuccess # 0
    <3>1. n \in N..(size - 1) /\ n \in 0..(size - 1) /\ n >= N /\ n \notin 0..(N - 1)
      BY <1>1, <1>7
    <3>2. Buckets(d, n) = {}
      BY <1>5, <3>1 DEF Buckets
    <3> QED
      BY <1>1, <1>6, <3>1, <3>2
  <2>3. ASSUME NEW n \in Untried(d)
        PROVE  /\ d.mapInfo[n].nRefCount <= BucketsPerAddress
               /\ n \in (IF whole THEN {} ELSE Known(d)) \/ d.mapInfo[n].nRefCount # 0
    <3>1. n \in 0..(N - 1) /\ n \in 0..(size - 1) /\ n \in Known(d)
      BY <1>1, <1>3, <1>7
    <3>2. d.mapInfo[n].nRefCount = Cardinality(Buckets(d, n))
      BY <1>6, <3>1
    <3>3. ASSUME whole PROVE d.mapInfo[n].nRefCount # 0
      <4>1. Buckets(d, n) # {}
        BY <1>4, <1>5, <3>1, <3>3
      <4>2. IsFiniteSet(Buckets(d, n))
        BY BucketSets DEF Buckets
      <4>3. Cardinality(Buckets(d, n)) # 0
        BY <4>1, <4>2, FS_EmptySet
      <4> QED
        BY <3>2, <4>3
    <3> QED
      BY <1>5, <3>1, <3>2, <3>3
  <2> QED
    BY <2>1, <2>2, <2>3 DEF Referenced
<1> QED
  BY <1>10, <1>11, <1>12, <1>13, <1>14, <1>15 DEF Sound, d

---------------------------------------------------------------------------
(* The initial state, and one lemma for each action. *)

\* An object without entries.
LEMMA EmptySound == \A exempt : Sound(EmptyAddrMan, {}, exempt, 0)
<1> DEFINE a == EmptyAddrMan
<1>1. Known(a) = {} /\ Tried(a) = {} /\ Untried(a) = {}
  BY DEF EmptyAddrMan, Known, Tried, Untried
<1>2. Typed(a)
  <2>1. a = Obj(a)
    BY DEF EmptyAddrMan, Obj
  <2>2. a.nIdCount = 0 /\ a.vRandom = << >> /\ a.nTried = 0 /\ a.nNew = 0
    BY DEF EmptyAddrMan
  <2>3. /\ a.mapInfo \in [Known(a) -> InfoType]
        /\ DOMAIN a.mapAddr = {} /\ a.mapAddr \in [DOMAIN a.mapAddr -> Known(a)]
    BY <1>1 DEF EmptyAddrMan
  <2>4. a.vvTried \in [TriedBuckets -> Seq(Known(a))] /\ a.vvNew \in [NewBuckets -> SUBSET Known(a)]
    BY DEF EmptyAddrMan
  <2> QED
    BY <1>1, <2>1, <2>2, <2>3, <2>4, AddrManAssumption DEF Typed
<1>3. /\ DOMAIN a.mapAddr = {} /\ a.vRandom = << >> /\ a.nTried = 0 /\ a.nNew = 0
      /\ \A k \in TriedBuckets : a.vvTried[k] = << >>
      /\ \A b \in NewBuckets : a.vvNew[b] = {}
  BY DEF EmptyAddrMan
<1> HIDE DEF a
<1>4. Indexed(a) /\ Placed(a)
  <2>1. Len(a.vRandom) = 0 /\ \A k \in TriedBuckets : Len(a.vvTried[k]) = 0
    BY <1>3
  <2>2. 1..0 = {}
    OBVIOUS
  <2> QED
    BY <1>1, <1>3, <2>1, <2>2 DEF Indexed, Placed
<1>5. Bounded(a) /\ Counted(a, 0)
  <2>1. Cardinality({}) = 0 /\ \A k \in TriedBuckets : Len(a.vvTried[k]) = 0
    BY <1>3, FS_EmptySet
  <2>2. NewBucketSize >= 0 /\ TriedBucketSize >= 0
    BY AddrManAssumption
  <2>3. Bounded(a)
    <3>1. \A b \in NewBuckets : Cardinality(a.vvNew[b]) = 0
      BY <1>3, <2>1
    <3> QED
      BY <2>1, <2>2, <3>1 DEF Bounded
  <2> QED
    BY <1>1, <1>3, <2>1, <2>3 DEF Counted
<1>6. \A exempt : Referenced(a, {}, exempt)
  BY <1>1 DEF Referenced
<1> QED
  BY <1>2, <1>4, <1>5, <1>6 DEF Sound, a

\* The state between two operations, and what it takes to be in one.
LEMMA IdleInv ==
    ASSUME node' = "running", cut' \in BOOLEAN, busy' = Idle,
           Sound(am', {}, Lost', 0)
    PROVE  AddrInv'
<1>1. Held' = {} /\ Exempt' = Lost' /\ Uncounted' = 0
  BY DEF Idle, Held, Exempt, Uncounted
<1>2. Sound(am', Held', Exempt', Uncounted')
  BY <1>1
<1> QED
  BY <1>2 DEF AddrInv, BusyOK

\* The opposite: what the invariant says between two operations.
LEMMA FreeState ==
    ASSUME AddrInv, Free
    PROVE  /\ Sound(am, {}, Lost, 0) /\ Typed(am) /\ Indexed(am)
           /\ node = "running" /\ cut \in BOOLEAN /\ busy = Idle
<1>1. node = "running" /\ cut \in BOOLEAN /\ busy = Idle
  BY DEF AddrInv, Free
<1>2. Held = {} /\ Exempt = Lost /\ Uncounted = 0
  BY <1>1 DEF Idle, Held, Exempt, Uncounted
<1>3. Sound(am, {}, Lost, 0)
  BY <1>1, <1>2 DEF AddrInv
<1> QED
  BY <1>1, <1>3 DEF Sound

\* The bucket part of Add_, for an entry that is not in the bucket.
LEMMA AddToBucketInv ==
    ASSUME NEW a, NEW b \in NewBuckets, NEW n \in Untried(a), Sound(a, {}, Lost \cup {n}, 0),
           a.mapInfo[n].nRefCount < BucketsPerAddress, n \notin a.vvNew[b],
           AddToBucket(a, b, n), busy = Idle, node' = "running", cut \in BOOLEAN, cut' = cut
    PROVE  AddrInv'
<1> DEFINE c == Raise(a, n)
<1>1. Sound(c, {n}, Lost, 0) /\ Untried(c) = Untried(a) /\ c.vvNew = a.vvNew
  BY Raised
<1>2. Lost' = Lost
  BY DEF Lost
<1> HIDE DEF c
<1>3. CASE Cardinality(a.vvNew[b]) = NewBucketSize
  <2>1. am' = c /\ busy' = [op |-> "shrink", nId |-> n, b |-> b]
    BY <1>3 DEF AddToBucket, Raise, c
  <2>2. Held' = {n} /\ Exempt' = Lost /\ Uncounted' = 0
    BY <1>2, <2>1 DEF Held, Exempt, Uncounted
  <2>3. Sound(am, Held, Exempt, Uncounted)'
    BY <1>1, <2>1, <2>2
  <2>4. BusyOK'
    BY <1>1, <2>1 DEF BusyOK
  <2> QED
    BY <2>3, <2>4 DEF AddrInv
<1>4. CASE Cardinality(a.vvNew[b]) # NewBucketSize
  <2>1. am' = Fill(c, b, n) /\ busy' = Idle
    BY <1>4 DEF AddToBucket, Raise, Fill, c
  <2>2. Cardinality(a.vvNew[b]) < NewBucketSize
    <3>1. Typed(a) /\ Bounded(a)
      BY DEF Sound
    <3>2. a.vvNew[b] \in SUBSET Known(a)
      BY <3>1 DEF Typed
    <3>3. Cardinality(a.vvNew[b]) \in Nat
      BY <3>1, <3>2, KnownFinite
    <3> QED
      BY <1>4, <3>1, <3>3, AddrManAssumption DEF Bounded
  <2>3. Sound(Fill(c, b, n), {}, Lost, 0)
    BY <1>1, <2>2, Filled
  <2> QED
    BY <1>2, <2>1, <2>3, IdleInv
<1> QED
  BY <1>3, <1>4

\* Where AddToBucket puts an entry.
LEMMA BucketType ==
    ASSUME NEW s \in Service, NEW src \in Source
    PROVE  Ip[s] \in Ips /\ NewBucketOf[Ip[s]][src] \in NewBuckets
<1>1. Ip[s] \in Ips
  BY DEF Ips
<1> QED
  BY <1>1, AddrManAssumption

LEMMA AddNewInv ==
    ASSUME AddrInv, NEW s \in Service, NEW src \in Source, AddNew(s, src)
    PROVE  AddrInv'
<1> DEFINE a == [Create(am, s, src) EXCEPT !.nNew = @ + 1]
           n == am.nIdCount
           b == NewBucketOf[Ip[s]][src]
<1>1. /\ Free /\ Ip[s] \notin DOMAIN am.mapAddr /\ am.nIdCount < MaxIds
      /\ AddToBucket(a, b, n) /\ UNCHANGED <<peers, node, cut>>
  BY DEF AddNew
<1>2. Sound(am, {}, Lost, 0) /\ node = "running" /\ cut \in BOOLEAN /\ busy = Idle
  BY <1>1, FreeState
<1>3. /\ Sound(a, {}, Lost \cup {n}, 0) /\ n \in Untried(a)
      /\ a.mapInfo[n].nRefCount = 0
      /\ \A m \in NewBuckets : n \notin a.vvNew[m]
  BY <1>1, <1>2, Created
<1>4. b \in NewBuckets
  BY BucketType
<1>5. 0 < BucketsPerAddress
  BY AddrManAssumption
<1> HIDE DEF a, n, b
<1> QED
  BY <1>1, <1>2, <1>3, <1>4, <1>5, AddToBucketInv

LEMMA AddAgainInv ==
    ASSUME AddrInv, NEW s \in Service, NEW src \in Source, AddAgain(s, src)
    PROVE  AddrInv'
<1> DEFINE n == am.mapAddr[Ip[s]]
           b == NewBucketOf[Ip[s]][src]
<1>1. /\ Free /\ Ip[s] \in DOMAIN am.mapAddr
      /\ ~am.mapInfo[n].fInTried
      /\ am.mapInfo[n].nRefCount # BucketsPerAddress
      /\ n \notin am.vvNew[b]
      /\ AddToBucket(am, b, n) /\ UNCHANGED <<peers, node, cut>>
  BY DEF AddAgain
<1>2. /\ Sound(am, {}, Lost, 0) /\ Typed(am)
      /\ node = "running" /\ cut \in BOOLEAN /\ busy = Idle
  BY <1>1, FreeState
<1>3. n \in Untried(am)
  BY <1>1, <1>2 DEF Typed, Untried, Tried
<1>4. b \in NewBuckets
  BY BucketType
<1>5. Sound(am, {}, Lost \cup {n}, 0)
  BY <1>2, Weakened
<1>6. am.mapInfo[n].nRefCount < BucketsPerAddress
  <2>1. am.mapInfo[n].nRefCount <= BucketsPerAddress
    BY <1>2, <1>3 DEF Sound, Referenced
  <2>2. am.mapInfo[n] \in InfoType
    BY <1>2, <1>3 DEF Typed, Untried
  <2>3. am.mapInfo[n].nRefCount \in Nat /\ BucketsPerAddress \in Nat
    BY <2>2, AddrManAssumption DEF InfoType
  <2> HIDE DEF n
  <2> QED
    BY <1>1, <2>1, <2>3
<1> HIDE DEF n, b
<1> QED
  BY <1>1, <1>2, <1>3, <1>4, <1>5, <1>6, AddToBucketInv

LEMMA AddShrunkInv == AddrInv /\ AddShrunk => AddrInv'
<1> SUFFICES ASSUME AddrInv, AddShrunk PROVE AddrInv'
  OBVIOUS
<1> DEFINE b == busy.b
           n == busy.nId
<1>1. PICK m \in am.vvNew[b] : am' = [ShrinkNew(am, b, m) EXCEPT !.vvNew[b] = @ \cup {n}]
  BY DEF AddShrunk
<1>2. /\ node = "running" /\ busy.op = "shrink"
      /\ busy' = Idle /\ UNCHANGED <<peers, node, cut>>
  BY DEF AddShrunk
<1>3. n \in Untried(am) /\ b \in NewBuckets /\ n \notin am.vvNew[b]
  BY <1>2 DEF AddrInv, BusyOK, Idle
<1>4. cut \in BOOLEAN /\ Lost' = Lost
  BY <1>2 DEF AddrInv, Lost
<1>5. Held = {n} /\ Exempt = Lost /\ Uncounted = 0
  BY <1>2, <1>4 DEF Held, Exempt, Uncounted
<1>6. Sound(am, {n}, Lost, 0)
  BY <1>2, <1>5 DEF AddrInv
<1> DEFINE c == ShrinkNew(am, b, m)
<1>7. m \notin {n}
  BY <1>1, <1>3
<1>8. /\ Sound(c, {n}, Lost, 0) /\ Untried(am) \ {m} \subseteq Untried(c)
      /\ c.vvNew = [am.vvNew EXCEPT ![b] = @ \ {m}]
      /\ Cardinality(c.vvNew[b]) < NewBucketSize
  <2> HIDE DEF n, b
  <2> DEFINE held == {n}
  <2>1. Sound(am, held, Lost, 0) /\ m \notin held
    BY <1>6, <1>7
  <2> HIDE DEF held
  <2>2. /\ Sound(c, held, Lost, 0) /\ Untried(am) \ {m} \subseteq Untried(c)
        /\ c.vvNew = [am.vvNew EXCEPT ![b] = @ \ {m}]
        /\ Cardinality(c.vvNew[b]) < NewBucketSize
    BY <1>1, <1>3, <2>1, Shrunk
  <2> QED
    BY <2>2 DEF held
<1>9. n \in Untried(c) /\ n \notin c.vvNew[b]
  <2>1. am.vvNew \in [NewBuckets -> SUBSET Known(am)]
    BY <1>6 DEF Sound, Typed
  <2> QED
    BY <1>3, <1>7, <1>8, <2>1
<1>10. am' = Fill(c, b, n)
  BY <1>1 DEF Fill
<1> HIDE DEF c, n, b
<1>11. Sound(am', {}, Lost, 0)
  BY <1>3, <1>8, <1>9, <1>10, Filled
<1> QED
  BY <1>2, <1>4, <1>11, IdleInv

LEMMA GoodInv ==
    ASSUME AddrInv, NEW s \in Service, NEW t \in 1..MaxTime, Good(s, t)
    PROVE  AddrInv'
<1> DEFINE n == am.mapAddr[Ip[s]]
           c == Succeed(am, n, t)
<1>1. /\ Free /\ Ip[s] \in DOMAIN am.mapAddr /\ am' = c /\ UNCHANGED <<peers, node, cut>>
      /\ \/ busy' = busy
         \/ /\ ~am.mapInfo[n].fInTried
            /\ \E nOrigin \in Buckets(am, n) :
                  busy' = [op |-> "unlink", nId |-> n, nOrigin |-> nOrigin, b |-> 1]
  BY DEF Good, Succeed, Buckets
<1>2. /\ Sound(am, {}, Lost, 0) /\ Typed(am)
      /\ node = "running" /\ cut \in BOOLEAN /\ busy = Idle
  BY <1>1, FreeState
<1>3. n \in Known(am)
  BY <1>1, <1>2 DEF Typed
<1>4. /\ Sound(c, {}, Lost, 0) /\ SamePlaces(am, c) /\ Untried(c) = Untried(am)
      /\ c.vvNew = am.vvNew /\ c.mapInfo[n].nLastSuccess = t
  BY <1>2, <1>3, Succeeded
<1>4a. Lost' = Lost
  BY <1>1 DEF Lost
<1> HIDE DEF c, n
<1>5. CASE busy' = busy
  BY <1>1, <1>2, <1>4, <1>5, <1>4a, IdleInv
<1>6. CASE ~am.mapInfo[n].fInTried /\ \E nOrigin \in Buckets(am, n) :
              busy' = [op |-> "unlink", nId |-> n, nOrigin |-> nOrigin, b |-> 1]
  <2>1. PICK nOrigin \in Buckets(am, n) :
           busy' = [op |-> "unlink", nId |-> n, nOrigin |-> nOrigin, b |-> 1]
    BY <1>6
  <2>2. Held' = {} /\ Exempt' = Lost \cup {n} /\ Uncounted' = 0
    BY <1>4a, <2>1 DEF Held, Exempt, Uncounted
  <2>3. Sound(am, Held, Exempt, Uncounted)'
    BY <1>1, <1>4, <2>2, Weakened
  <2>4. /\ n \in Untried(am) /\ nOrigin \in NewBuckets /\ n \in am.vvNew[nOrigin]
        /\ 1 <= nOrigin /\ 1 \in 1..(NewBucketCount + 1) /\ t # 0
        /\ \A b \in NewBuckets : 1 <= b
    <3>1. n \in Untried(am)
      BY <1>3, <1>6 DEF Untried, Tried
    <3>2. nOrigin \in NewBuckets /\ n \in am.vvNew[nOrigin]
      BY <2>1 DEF Buckets
    <3> QED
      BY <3>1, <3>2, AddrManAssumption DEF NewBuckets
  <2>5. BusyOK'
    BY <1>1, <1>4, <2>1, <2>4 DEF BusyOK, Buckets
  <2> QED
    BY <1>1, <1>2, <2>3, <2>5 DEF AddrInv
<1> QED
  BY <1>1, <1>5, <1>6

\* What the invariant says inside MakeTried, before the entry is off the buckets.
LEMMA UnlinkState ==
    ASSUME AddrInv, busy.op = "unlink"
    PROVE  /\ Sound(am, {}, Lost \cup {busy.nId}, 0)
           /\ node = "running" /\ cut \in BOOLEAN
           /\ busy = [op |-> "unlink", nId |-> busy.nId, nOrigin |-> busy.nOrigin, b |-> busy.b]
           /\ busy.nId \in Untried(am) /\ busy.nOrigin \in NewBuckets
           /\ busy.b \in 1..(NewBucketCount + 1)
           /\ am.mapInfo[busy.nId].nLastSuccess # 0
           /\ \A b \in Buckets(am, busy.nId) : busy.b <= b
           /\ IF busy.b <= busy.nOrigin THEN busy.nId \in am.vvNew[busy.nOrigin]
                                        ELSE Cardinality(am.vvNew[busy.nOrigin]) < NewBucketSize
<1>1. node = "running" /\ cut \in BOOLEAN
  BY DEF AddrInv, Idle
<1>2. Held = {} /\ Exempt = Lost \cup {busy.nId} /\ Uncounted = 0
  BY <1>1 DEF Held, Exempt, Uncounted
<1>3. Sound(am, {}, Lost \cup {busy.nId}, 0)
  BY <1>1, <1>2 DEF AddrInv
<1> QED
  BY <1>1, <1>3 DEF AddrInv, BusyOK, Idle

LEMMA UnlinkBucketInv == AddrInv /\ UnlinkBucket => AddrInv'
<1> SUFFICES ASSUME AddrInv, UnlinkBucket PROVE AddrInv'
  OBVIOUS
<1> DEFINE b == busy.b
           n == busy.nId
           o == busy.nOrigin
<1>1. /\ busy.op = "unlink" /\ b \in NewBuckets
      /\ am' = IF n \in am.vvNew[b] THEN Unlink(am, b, n) ELSE am
      /\ busy' = [busy EXCEPT !.b = b + 1] /\ UNCHANGED <<peers, node, cut>>
  BY DEF UnlinkBucket, Unlink
<1>2. /\ Sound(am, {}, Lost \cup {n}, 0)
      /\ node = "running" /\ cut \in BOOLEAN
      /\ busy = [op |-> "unlink", nId |-> n, nOrigin |-> o, b |-> b]
      /\ n \in Untried(am) /\ o \in NewBuckets
      /\ am.mapInfo[n].nLastSuccess # 0
      /\ \A x \in Buckets(am, n) : b <= x
      /\ IF b <= o THEN n \in am.vvNew[o] ELSE Cardinality(am.vvNew[o]) < NewBucketSize
  BY <1>1, UnlinkState
<1>3. busy' = [op |-> "unlink", nId |-> n, nOrigin |-> o, b |-> b + 1]
  <2> HIDE DEF n, o, b
  <2> QED
    BY <1>1, <1>2
<1>4. /\ b + 1 \in 1..(NewBucketCount + 1)
      /\ \A x \in NewBuckets : b <= x /\ x # b => b + 1 <= x
      /\ b + 1 <= o => b <= o /\ o # b
      /\ ~(b + 1 <= o) => ~(b <= o) \/ o = b
  <2>1. NewBuckets = 1..NewBucketCount /\ NewBucketCount \in Nat
    BY AddrManAssumption DEF NewBuckets
  <2>2. b \in 1..NewBucketCount /\ o \in 1..NewBucketCount
    BY <1>1, <1>2, <2>1
  <2> HIDE DEF n, o, b
  <2> QED
    BY <2>1, <2>2
<1>5. Held' = {} /\ Exempt' = Lost \cup {n} /\ Uncounted' = 0
  BY <1>1, <1>2, <1>3 DEF Lost, Held, Exempt, Uncounted
<1> HIDE DEF n, o, b
<1>6. am.vvNew \in [NewBuckets -> SUBSET Known(am)]
  BY <1>2 DEF Sound, Typed
<1>7. /\ Sound(am', {}, Lost \cup {n}, 0)
      /\ n \in Untried(am') /\ am'.mapInfo[n].nLastSuccess # 0
      /\ Buckets(am', n) = Buckets(am, n) \ {b}
      /\ IF b + 1 <= o THEN n \in am'.vvNew[o] ELSE Cardinality(am'.vvNew[o]) < NewBucketSize
  <2>1. CASE n \in am.vvNew[b]
    <3> DEFINE none == {}
               only == Lost \cup {n}
               c == Unlink(am, b, n)
    <3>1. Sound(am, none, only, 0) /\ n \notin none /\ b \in NewBuckets
      BY <1>1, <1>2
    <3> HIDE DEF none, only
    <3>2. /\ Sound(c, none, only \cup {n}, 0)
          /\ Untried(c) = Untried(am)
          /\ \A m \in Known(am) : c.mapInfo[m].nLastSuccess = am.mapInfo[m].nLastSuccess
          /\ c.vvNew = [am.vvNew EXCEPT ![b] = @ \ {n}]
          /\ Buckets(c, n) = Buckets(am, n) \ {b}
          /\ Cardinality(c.vvNew[b]) < NewBucketSize
      <4>1. n \in am.vvNew[b]
        BY <2>1
      <4>2. LET v == Unlink(am, b, n)
            IN  /\ Sound(v, none, only \cup {n}, 0)
                /\ n \in Untried(am) /\ Untried(v) = Untried(am) /\ SamePlaces(am, v)
                /\ v.mapInfo[n].nRefCount \in Nat
                /\ \A m \in Known(am) : v.mapInfo[m].nLastSuccess = am.mapInfo[m].nLastSuccess
                /\ v.vvNew = [am.vvNew EXCEPT ![b] = @ \ {n}]
                /\ Buckets(v, n) = Buckets(am, n) \ {b}
                /\ Cardinality(v.vvNew[b]) < NewBucketSize
        BY <4>1, <3>1, Unlinked
      <4> QED
        BY <4>2
    <3>3. am' = c
      BY <1>1, <2>1
    <3> HIDE DEF c
    <3>4. only \cup {n} = Lost \cup {n} /\ none = {}
      BY DEF only, none
    <3>5. n \in Known(am)
      BY <1>2 DEF Untried
    <3>6. b # o => c.vvNew[o] = am.vvNew[o]
      BY <1>2, <1>6, <3>2
    <3>7. IF b + 1 <= o THEN n \in c.vvNew[o] ELSE Cardinality(c.vvNew[o]) < NewBucketSize
      BY <1>2, <1>4, <3>2, <3>6
    <3> QED
      BY <1>2, <3>2, <3>3, <3>4, <3>5, <3>7
  <2>2. CASE n \notin am.vvNew[b]
    <3>1. b \notin Buckets(am, n)
      BY <2>2 DEF Buckets
    <3>2. ~(b + 1 <= o) => ~(b <= o)
      BY <1>2, <1>4, <2>2
    <3> QED
      BY <1>1, <1>2, <1>4, <2>2, <3>1, <3>2
  <2> QED
    BY <2>1, <2>2
<1>8. \A x \in Buckets(am', n) : b + 1 <= x
  BY <1>2, <1>4, <1>7 DEF Buckets
<1>9. Sound(am, Held, Exempt, Uncounted)'
  BY <1>5, <1>7
<1>10. BusyOK'
  BY <1>2, <1>3, <1>4, <1>7, <1>8 DEF BusyOK
<1> QED
  BY <1>1, <1>2, <1>9, <1>10 DEF AddrInv

LEMMA MakeTriedInv == AddrInv /\ MakeTried => AddrInv'
<1> SUFFICES ASSUME AddrInv, MakeTried PROVE AddrInv'
  OBVIOUS
<1> DEFINE n == busy.nId
           o == busy.nOrigin
           k == TriedBucket(am, n)
           c == TakeOff(am)
<1>1. /\ busy.op = "unlink" /\ busy.b = NewBucketCount + 1 /\ UNCHANGED <<peers, node, cut>>
      /\ \/ /\ Len(am.vvTried[k]) < TriedBucketSize
            /\ am' = PushTried(c, k, n) /\ busy' = Idle
         \/ /\ ~(Len(am.vvTried[k]) < TriedBucketSize)
            /\ am' = c
            /\ busy' = [op |-> "select", nId |-> n, nOrigin |-> o, k |-> k, i |-> 1,
                        nOldest |-> n, nOldestPos |-> 0]
  BY DEF MakeTried, TriedBucket, TakeOff
<1>2. /\ Sound(am, {}, Lost \cup {n}, 0)
      /\ node = "running" /\ cut \in BOOLEAN
      /\ n \in Untried(am) /\ o \in NewBuckets
      /\ am.mapInfo[n].nLastSuccess # 0
      /\ \A b \in Buckets(am, n) : busy.b <= b
      /\ IF busy.b <= o THEN n \in am.vvNew[o] ELSE Cardinality(am.vvNew[o]) < NewBucketSize
  BY <1>1, UnlinkState
<1> HIDE DEF n, o, c
<1>3. \A b \in NewBuckets : ~(busy.b <= b)
  BY <1>1, AddrManAssumption DEF NewBuckets
<1>4. Buckets(am, n) = {} /\ Cardinality(am.vvNew[o]) < NewBucketSize
  BY <1>2, <1>3 DEF Buckets
<1>5. /\ Sound(c, {}, Lost \cup {n}, 1)
      /\ c.mapInfo = am.mapInfo /\ c.vvTried = am.vvTried /\ c.vvNew = am.vvNew
      /\ Untried(c) = Untried(am)
  BY <1>2, TakenOff DEF c
<1>6. Buckets(c, n) = {} /\ TriedBucket(c, n) = k
  BY <1>4, <1>5 DEF Buckets, TriedBucket
<1>7. k \in TriedBuckets
  BY <1>2, TriedBucketType DEF Sound, Untried
<1> HIDE DEF k
<1>7a. Lost' = Lost
  BY <1>1 DEF Lost
<1>8. CASE /\ Len(am.vvTried[k]) < TriedBucketSize
           /\ am' = PushTried(c, k, n) /\ busy' = Idle
  <2>1. Sound(PushTried(c, TriedBucket(c, n), n), {}, Lost, 0)
    BY <1>2, <1>5, <1>6, <1>8, Pushed
  <2>2. Sound(am', {}, Lost, 0)
    BY <1>6, <1>8, <2>1
  <2> QED
    BY <1>1, <1>2, <1>8, <1>7a, <2>2, IdleInv
<1>9. CASE /\ ~(Len(am.vvTried[k]) < TriedBucketSize)
           /\ am' = c
           /\ busy' = [op |-> "select", nId |-> n, nOrigin |-> o, k |-> k, i |-> 1,
                       nOldest |-> n, nOldestPos |-> 0]
  <2>1. Held' = {} /\ Exempt' = Lost \cup {n} /\ Uncounted' = 1
    BY <1>9, <1>7a DEF Held, Exempt, Uncounted
  <2>2. Sound(am, Held, Exempt, Uncounted)'
    BY <1>5, <1>9, <2>1
  <2>3. Len(c.vvTried[k]) # 0
    BY <1>5, <1>9, AddrManAssumption
  <2>4. BusyOK'
    BY <1>2, <1>4, <1>5, <1>6, <1>9, <2>3 DEF BusyOK
  <2> QED
    BY <1>1, <1>2, <2>2, <2>4 DEF AddrInv
<1> QED
  BY <1>1, <1>8, <1>9

\* What the invariant says while an entry to evict is searched for.
LEMMA SelectState ==
    ASSUME AddrInv, busy.op = "select"
    PROVE  /\ Sound(am, {}, Lost \cup {busy.nId}, 1)
           /\ node = "running" /\ cut \in BOOLEAN
           /\ busy = [op |-> "select", nId |-> busy.nId, nOrigin |-> busy.nOrigin,
                      k |-> busy.k, i |-> busy.i, nOldest |-> busy.nOldest,
                      nOldestPos |-> busy.nOldestPos]
           /\ busy.nId \in Untried(am) /\ busy.nOrigin \in NewBuckets
           /\ busy.k = TriedBucket(am, busy.nId) /\ busy.k \in TriedBuckets
           /\ am.mapInfo[busy.nId].nLastSuccess # 0
           /\ Buckets(am, busy.nId) = {}
           /\ Cardinality(am.vvNew[busy.nOrigin]) < NewBucketSize
           /\ busy.i \in Nat \ {0}
           /\ busy.i = 1 => Len(am.vvTried[busy.k]) # 0 /\ busy.nOldestPos = 0
           /\ busy.i > 1 => busy.nOldestPos \in 1..Len(am.vvTried[busy.k])
<1>1. node = "running" /\ cut \in BOOLEAN
  BY DEF AddrInv, Idle
<1>2. Held = {} /\ Exempt = Lost \cup {busy.nId} /\ Uncounted = 1
  BY <1>1 DEF Held, Exempt, Uncounted
<1>3. Sound(am, {}, Lost \cup {busy.nId}, 1)
  BY <1>1, <1>2 DEF AddrInv
<1>4. /\ busy = [op |-> "select", nId |-> busy.nId, nOrigin |-> busy.nOrigin,
                 k |-> busy.k, i |-> busy.i, nOldest |-> busy.nOldest,
                 nOldestPos |-> busy.nOldestPos]
      /\ busy.nId \in Untried(am) /\ busy.nOrigin \in NewBuckets
      /\ busy.k = TriedBucket(am, busy.nId)
      /\ am.mapInfo[busy.nId].nLastSuccess # 0
      /\ Buckets(am, busy.nId) = {}
      /\ Cardinality(am.vvNew[busy.nOrigin]) < NewBucketSize
      /\ busy.i \in Nat \ {0}
      /\ busy.i = 1 => Len(am.vvTried[busy.k]) # 0 /\ busy.nOldestPos = 0
      /\ busy.i > 1 => busy.nOldestPos \in 1..Len(am.vvTried[busy.k])
  BY DEF AddrInv, BusyOK, Idle
<1>5. TriedBucket(am, busy.nId) \in TriedBuckets
  BY <1>3, <1>4, TriedBucketType DEF Sound, Untried
<1> QED
  BY <1>1, <1>3, <1>4, <1>5

LEMMA SelectTriedInv == AddrInv /\ SelectTried => AddrInv'
<1> SUFFICES ASSUME AddrInv, SelectTried PROVE AddrInv'
  OBVIOUS
<1> DEFINE k == busy.k
           i == busy.i
           n == busy.nId
           o == busy.nOrigin
<1>1. PICK nPos \in i..Len(am.vvTried[k]) :
         /\ am' = SwapTried(am, k, i, nPos)
         /\ busy' = IF \/ busy.nOldestPos = 0
                       \/ am.mapInfo[am.vvTried[k][nPos]].nLastSuccess <
                              am.mapInfo[busy.nOldest].nLastSuccess
                    THEN [busy EXCEPT !.i = @ + 1, !.nOldest = am.vvTried[k][nPos],
                                      !.nOldestPos = nPos]
                    ELSE [busy EXCEPT !.i = @ + 1]
  BY DEF SelectTried, SwapTried
<1>2. busy.op = "select" /\ i <= Len(am.vvTried[k]) /\ UNCHANGED <<peers, node, cut>>
  BY DEF SelectTried
<1>3. /\ Sound(am, {}, Lost \cup {n}, 1)
      /\ node = "running" /\ cut \in BOOLEAN
      /\ busy = [op |-> "select", nId |-> n, nOrigin |-> o, k |-> k, i |-> i,
                 nOldest |-> busy.nOldest, nOldestPos |-> busy.nOldestPos]
      /\ n \in Untried(am) /\ o \in NewBuckets
      /\ k = TriedBucket(am, n) /\ k \in TriedBuckets
      /\ am.mapInfo[n].nLastSuccess # 0
      /\ Buckets(am, n) = {}
      /\ Cardinality(am.vvNew[o]) < NewBucketSize
      /\ i \in Nat \ {0}
      /\ i = 1 => busy.nOldestPos = 0
      /\ i > 1 => busy.nOldestPos \in 1..Len(am.vvTried[k])
  BY <1>2, SelectState
<1> DEFINE L == Len(am.vvTried[k])
           c == SwapTried(am, k, i, nPos)
<1>4. L \in Nat /\ i \in 1..L /\ nPos \in 1..L
  <2>1. L \in Nat
    BY <1>3 DEF Sound, Typed
  <2> HIDE DEF i, k, L
  <2> QED
    BY <1>1, <1>2, <1>3, <2>1 DEF L
<1>5. PICK old, pos :
         /\ busy' = [op |-> "select", nId |-> n, nOrigin |-> o, k |-> k, i |-> i + 1,
                     nOldest |-> old, nOldestPos |-> pos]
         /\ pos = nPos \/ (pos = busy.nOldestPos /\ busy.nOldestPos # 0)
  <2> HIDE DEF n, o, k, i
  <2>1. CASE \/ busy.nOldestPos = 0
             \/ am.mapInfo[am.vvTried[k][nPos]].nLastSuccess <
                    am.mapInfo[busy.nOldest].nLastSuccess
    <3> DEFINE old == am.vvTried[k][nPos]
    <3>1. busy' = [busy EXCEPT !.i = i + 1, !.nOldest = old, !.nOldestPos = nPos]
      BY <1>1, <2>1 DEF i
    <3> DEFINE x == busy.nOldest
               y == busy.nOldestPos
    <3>2. busy' = [op |-> "select", nId |-> n, nOrigin |-> o, k |-> k, i |-> i + 1,
                   nOldest |-> old, nOldestPos |-> nPos]
      <4>1. busy = [op |-> "select", nId |-> n, nOrigin |-> o, k |-> k, i |-> i,
                    nOldest |-> x, nOldestPos |-> y]
        BY <1>3
      <4> HIDE DEF old, x, y
      <4> QED
        BY <3>1, <4>1
    <3> QED
      BY <3>2
  <2>2. CASE ~(\/ busy.nOldestPos = 0
               \/ am.mapInfo[am.vvTried[k][nPos]].nLastSuccess <
                      am.mapInfo[busy.nOldest].nLastSuccess)
    <3>1. busy' = [busy EXCEPT !.i = @ + 1]
      BY <1>1, <2>2
    <3>2. busy' = [op |-> "select", nId |-> n, nOrigin |-> o, k |-> k, i |-> i + 1,
                   nOldest |-> busy.nOldest, nOldestPos |-> busy.nOldestPos]
      BY <1>3, <3>1 DEF i
    <3>3. busy.nOldestPos # 0
      BY <2>2
    <3> QED
      BY <3>2, <3>3
  <2> QED
    BY <2>1, <2>2
<1> HIDE DEF n, o, k, i, L, c
<1>6. /\ Sound(c, {}, Lost \cup {n}, 1)
      /\ c.mapInfo = am.mapInfo /\ c.vvNew = am.vvNew
      /\ Untried(c) = Untried(am) /\ Len(c.vvTried[k]) = L
  <2>1. i \in 1..Len(am.vvTried[k]) /\ nPos \in 1..Len(am.vvTried[k])
    BY <1>4 DEF L
  <2> QED
    BY <1>3, <2>1, SwappedTried DEF c, L
<1>7. am' = c
  BY <1>1 DEF c
<1>8. Held' = {} /\ Exempt' = Lost \cup {n} /\ Uncounted' = 1
  BY <1>2, <1>3, <1>5 DEF Lost, Held, Exempt, Uncounted
<1>9. Sound(am, Held, Exempt, Uncounted)'
  BY <1>6, <1>7, <1>8
<1>10. /\ pos \in 1..L /\ i + 1 \in Nat \ {0} /\ i + 1 # 1
  BY <1>3, <1>4, <1>5 DEF L
<1>11. Buckets(c, n) = {} /\ TriedBucket(c, n) = k
  BY <1>3, <1>6 DEF Buckets, TriedBucket
<1>12. BusyOK'
  <2>1. /\ busy'.op = "select" /\ busy'.nId = n /\ busy'.nOrigin = o /\ busy'.k = k
        /\ busy'.i = i + 1 /\ busy'.nOldest = old /\ busy'.nOldestPos = pos
    BY <1>5
  <2>2. /\ n \in Untried(c) /\ o \in NewBuckets /\ k = TriedBucket(c, n)
        /\ c.mapInfo[n].nLastSuccess # 0
        /\ Cardinality(c.vvNew[o]) < NewBucketSize
    BY <1>3, <1>6, <1>11
  <2>3. pos \in 1..Len(c.vvTried[k])
    BY <1>6, <1>10
  <2> QED
    BY <1>5, <1>7, <1>10, <1>11, <2>1, <2>2, <2>3 DEF BusyOK
<1> QED
  BY <1>2, <1>3, <1>9, <1>12 DEF AddrInv

LEMMA EvictTriedInv == AddrInv /\ EvictTried => AddrInv'
<1> SUFFICES ASSUME AddrInv, EvictTried PROVE AddrInv'
  OBVIOUS
<1> DEFINE k == busy.k
           n == busy.nId
           o == busy.nOrigin
           pos == busy.nOldestPos
<1>1. /\ busy.op = "select"
      /\ busy.i > InspectOnEvict \/ busy.i > Len(am.vvTried[k])
      /\ am' = Evict(am, k, pos, n, o) /\ busy' = Idle /\ UNCHANGED <<peers, node, cut>>
  BY DEF EvictTried
<1>2. /\ Sound(am, {}, Lost \cup {n}, 1)
      /\ node = "running" /\ cut \in BOOLEAN
      /\ n \in Untried(am) /\ o \in NewBuckets
      /\ k = TriedBucket(am, n) /\ k \in TriedBuckets
      /\ am.mapInfo[n].nLastSuccess # 0
      /\ Buckets(am, n) = {}
      /\ Cardinality(am.vvNew[o]) < NewBucketSize
      /\ busy.i \in Nat \ {0}
      /\ busy.i = 1 => Len(am.vvTried[k]) # 0
      /\ busy.i > 1 => pos \in 1..Len(am.vvTried[k])
  BY <1>1, SelectState
<1> HIDE DEF k, n, o, pos
<1>3. busy.i # 1
  <2>1. Len(am.vvTried[k]) \in Nat
    BY <1>2 DEF Sound, Typed
  <2> QED
    BY <1>1, <1>2, <2>1, AddrManAssumption
<1>4. pos \in 1..Len(am.vvTried[k])
  BY <1>2, <1>3
<1>5. Sound(am', {}, Lost, 0)
  <2> DEFINE c == Evict(am, TriedBucket(am, n), pos, n, o)
             old == am.vvTried[TriedBucket(am, n)][pos]
  <2>1. pos \in 1..Len(am.vvTried[TriedBucket(am, n)])
    BY <1>2, <1>4
  <2>2. /\ Sound(c, {}, Lost, 0)
        /\ Known(c) = Known(am) /\ Tried(c) = (Tried(am) \ {old}) \cup {n}
        /\ \E b \in NewBuckets : old \in c.vvNew[b]
    BY <1>2, <2>1, Evicted
  <2>3. am' = c
    BY <1>1, <1>2
  <2> HIDE DEF c
  <2> QED
    BY <2>2, <2>3
<1>6. Lost' = Lost
  BY <1>1 DEF Lost
<1> QED
  BY <1>1, <1>2, <1>5, <1>6, IdleInv

LEMMA GetAddrInv == AddrInv /\ GetAddr => AddrInv'
<1> SUFFICES ASSUME AddrInv, GetAddr PROVE AddrInv'
  OBVIOUS
<1> DEFINE n == IF busy = Idle THEN 1 ELSE busy.n
<1>1. /\ Free \/ (node = "running" /\ busy.op = "getaddr")
      /\ \E j \in n..Len(am.vRandom) : am' = IF n = j THEN am ELSE SwapRandom(am, n, j)
      /\ busy' = IF n < nNodes THEN [op |-> "getaddr", n |-> n + 1] ELSE Idle
      /\ UNCHANGED <<peers, node, cut>>
  BY DEF GetAddr
<1>2. /\ Sound(am, {}, Lost, 0) /\ node = "running" /\ cut \in BOOLEAN /\ n \in Nat \ {0}
  <2>1. CASE Free
    BY <2>1, FreeState
  <2>2. CASE node = "running" /\ busy.op = "getaddr"
    <3>1. cut \in BOOLEAN /\ busy.n \in Nat \ {0} /\ busy # Idle
      BY <2>2 DEF AddrInv, BusyOK, Idle
    <3>2. Held = {} /\ Exempt = Lost /\ Uncounted = 0
      BY <2>2, <3>1 DEF Held, Exempt, Uncounted
    <3>3. Sound(am, {}, Lost, 0)
      BY <2>2, <3>2 DEF AddrInv
    <3> QED
      BY <2>2, <3>1, <3>3
  <2> QED
    BY <1>1, <2>1, <2>2
<1> HIDE DEF n
<1>2a. Lost' = Lost
  BY <1>1 DEF Lost
<1>3. Sound(am', {}, Lost, 0)
  <2>1. PICK j \in n..Len(am.vRandom) : am' = IF n = j THEN am ELSE SwapRandom(am, n, j)
    BY <1>1
  <2>2. Len(am.vRandom) \in Nat
    BY <1>2 DEF Sound, Typed
  <2>3. n \in 1..Len(am.vRandom) /\ j \in 1..Len(am.vRandom)
    BY <1>2, <2>1, <2>2
  <2>4. /\ Sound(SwapRandom(am, n, j), {}, Lost, 0)
        /\ Untried(SwapRandom(am, n, j)) = Untried(am)
    BY <1>2, <2>3, Swapped
  <2> QED
    BY <1>2, <2>1, <2>4
<1>4. CASE busy' = Idle
  BY <1>1, <1>2, <1>3, <1>4, <1>2a, IdleInv
<1>5. CASE busy' = [op |-> "getaddr", n |-> n + 1]
  <2>1. Held' = {} /\ Exempt' = Lost /\ Uncounted' = 0
    BY <1>5, <1>2a DEF Held, Exempt, Uncounted
  <2>2. Sound(am, Held, Exempt, Uncounted)'
    BY <1>3, <2>1
  <2>3. BusyOK'
    BY <1>2, <1>5 DEF BusyOK
  <2> QED
    BY <1>1, <1>2, <2>2, <2>3 DEF AddrInv
<1> QED
  BY <1>1, <1>4, <1>5

---------------------------------------------------------------------------
(* peers.dat. *)

\* A shutdown leaves a file that is well-formed however it cut an operation short, and
\* one from which no entry is missing unless Add_ or MakeTried was cut short, now or
\* before; what a misread has left is unknown.
LEMMA ShutdownInv == AddrInv /\ Shutdown => AddrInv'
<1> SUFFICES ASSUME AddrInv, Shutdown PROVE AddrInv'
  OBVIOUS
<1>1. /\ node \in {"running", "misread"} /\ node' = "down" /\ am' = EmptyAddrMan /\ busy' = Idle
      /\ peers' = IF node = "running" THEN Serialize(am) ELSE UnknownFile
      /\ cut' = (cut \/ busy.op \in {"shrink", "unlink"}) /\ cut' \in BOOLEAN
  BY DEF Shutdown, AddrInv
<1>2. ASSUME node = "running" PROVE FileOK(Serialize(am), ~cut')
  <2>1. Sound(am, Held, Exempt, Uncounted) /\ Uncounted \in {0, 1}
    BY <1>2 DEF AddrInv, Uncounted
  <2>2. Uncounted = 1 => \E n \in Untried(am) : am.mapInfo[n].nRefCount = 0
    <3> SUFFICES ASSUME busy.op = "select"
                 PROVE  \E n \in Untried(am) : am.mapInfo[n].nRefCount = 0
      BY DEF Uncounted
    <3>1. /\ busy.nId \in Untried(am) /\ Buckets(am, busy.nId) = {}
          /\ Sound(am, {}, Lost \cup {busy.nId}, 1)
      BY SelectState
    <3>2. busy.nId \in Known(am)
      BY <3>1 DEF Untried
    <3>3. am.mapInfo[busy.nId].nRefCount = Cardinality({}) + 0
      BY <3>1, <3>2 DEF Sound, Referenced
    <3> QED
      BY <3>1, <3>3, FS_EmptySet
  <2>3. ~cut' => Held = {}
    BY <1>1 DEF Held
  <2> QED
    BY <2>1, <2>2, <2>3, FileIsOK
<1>3. peers' = UnknownFile \/ FileOK(peers', ~cut')
  BY <1>1, <1>2
<1>4. Held' = {} /\ Uncounted' = 0
  BY <1>1 DEF Idle, Held, Uncounted
<1>5. Sound(am, Held, Exempt, Uncounted)'
  BY <1>1, <1>4, EmptySound
<1>6. BusyOK'
  BY <1>1 DEF BusyOK
<1> QED
  BY <1>1, <1>3, <1>5, <1>6 DEF AddrInv

\* What is read from a file that announces as many entries as it holds is sound.
LEMMA StartInv == AddrInv /\ Start => AddrInv'
<1> SUFFICES ASSUME AddrInv, Start PROVE AddrInv'
  OBVIOUS
<1> DEFINE d == Deserialize(peers)
<1>1. /\ node = "down" /\ Readable /\ am' = d /\ node' = "running" /\ UNCHANGED <<busy, cut>>
  BY DEF Start
<1>2. busy = Idle /\ cut \in BOOLEAN /\ FileOK(peers, ~cut)
  BY <1>1 DEF AddrInv, Readable, UnknownFile
<1>3. ReadableFile(peers, ~cut)
  BY <1>1, <1>2 DEF Readable, ReadableFile
<1>4. Sound(d, {}, IF ~cut THEN {} ELSE Known(d), 0)
  BY <1>2, <1>3, Loaded
<1> HIDE DEF d
<1>5. Known(d) \subseteq Nat
  BY <1>4, KnownFinite DEF Sound
<1>6. (IF ~cut THEN {} ELSE Known(d)) \subseteq Lost'
  BY <1>1, <1>2, <1>5 DEF Lost
<1>7. Sound(d, {}, Lost', 0)
  BY <1>4, <1>6, Weakened
<1> QED
  BY <1>1, <1>2, <1>7, IdleInv

\* Nothing is said of an object that was misread.
LEMMA StartMisreadInv == AddrInv /\ StartMisread => AddrInv'
<1> SUFFICES ASSUME AddrInv, StartMisread PROVE AddrInv'
  OBVIOUS
<1>1. node' = "misread" /\ node = "down" /\ UNCHANGED <<busy, cut>>
  BY DEF StartMisread
<1>2. BusyOK' /\ busy = Idle /\ cut \in BOOLEAN
  BY <1>1 DEF AddrInv, BusyOK
<1> QED
  BY <1>1, <1>2 DEF AddrInv

LEMMA StartEmptyInv == AddrInv /\ StartEmpty => AddrInv'
<1> SUFFICES ASSUME AddrInv, StartEmpty PROVE AddrInv'
  OBVIOUS
<1>1. /\ node = "down" /\ am' = EmptyAddrMan /\ node' = "running" /\ cut' = FALSE
      /\ busy' = busy
  BY DEF StartEmpty
<1>2. busy = Idle
  BY <1>1 DEF AddrInv
<1> QED
  BY <1>1, <1>2, EmptySound, IdleInv

---------------------------------------------------------------------------

LEMMA AddrNextInv == AddrInv /\ [AddrNext]_addrVars => AddrInv'
<1> SUFFICES ASSUME AddrInv, [AddrNext]_addrVars PROVE AddrInv'
  OBVIOUS
<1>1. CASE UNCHANGED addrVars
  BY <1>1 DEF addrVars, AddrInv, Held, Exempt, Uncounted, Lost, BusyOK, Buckets
<1>2. CASE AddrNext
  BY <1>2, AddNewInv, AddAgainInv, AddShrunkInv, GoodInv, UnlinkBucketInv, MakeTriedInv,
     SelectTriedInv, EvictTriedInv, GetAddrInv, ShutdownInv, StartInv, StartMisreadInv,
     StartEmptyInv DEF AddrNext
<1> QED
  BY <1>1, <1>2

\* The invariant holds in every state: in the middle of every operation, after a
\* shutdown that cut one short, and while the node works on what it reads of that. Of
\* an object that a misread has left it says nothing, so not of what is saved of it.
THEOREM AddrInvariance == AddrSpec => []AddrInv
<1>1. AddrInit => AddrInv
  <2> SUFFICES ASSUME AddrInit PROVE AddrInv
    OBVIOUS
  <2>1. am = EmptyAddrMan /\ busy = Idle /\ node = "running" /\ cut = FALSE
    BY DEF AddrInit
  <2>2. Held = {} /\ Uncounted = 0
    BY <2>1 DEF Idle, Held, Uncounted
  <2>3. Sound(am, Held, Exempt, Uncounted)
    BY <2>1, <2>2, EmptySound
  <2> QED
    BY <2>1, <2>3 DEF AddrInv, BusyOK
<1> QED
  BY <1>1, AddrNextInv, PTL DEF AddrSpec

---------------------------------------------------------------------------
(* What follows. *)

\* Two sets have as many elements when each one of the one goes with one of the other.
LEMMA SameSize ==
    ASSUME NEW S, NEW T, IsFiniteSet(S), NEW g \in [S -> T],
           \A x, y \in S : g[x] = g[y] => x = y,
           \A z \in T : \E x \in S : g[x] = z
    PROVE  IsFiniteSet(T) /\ Cardinality(T) = Cardinality(S)
<1>1. g \in Bijection(S, T)
  BY Fun_IsBij
<1>2. ExistsBijection(S, T)
  BY <1>1 DEF ExistsBijection
<1> QED
  BY <1>2, FS_Bijection

\* The three indexes have one size.
LEMMA IndexSizes ==
    ASSUME NEW a, Typed(a), Indexed(a)
    PROVE  /\ Len(a.vRandom) = Cardinality(Known(a))
           /\ Cardinality(DOMAIN a.mapAddr) = Cardinality(Known(a))
<1>1. IsFiniteSet(Known(a))
  BY KnownFinite
<1>2. Len(a.vRandom) \in Nat
  BY DEF Typed
<1>3. Len(a.vRandom) = Cardinality(Known(a))
  <2> DEFINE T == 1..Len(a.vRandom)
             g == [n \in Known(a) |-> a.mapInfo[n].nRandomPos]
  <2>1. g \in [Known(a) -> T] /\ \A x, y \in Known(a) : g[x] = g[y] => x = y
    BY DEF Indexed
  <2>2. \A i \in T : a.vRandom[i] \in Known(a)
    BY DEF Typed
  <2>3. \A i \in T : \E x \in Known(a) : g[x] = i
    BY <2>2 DEF Indexed
  <2>4. Cardinality(T) = Len(a.vRandom)
    <3> DEFINE L == Len(a.vRandom)
    <3>1. L \in Nat
      BY <1>2
    <3> HIDE DEF L
    <3>2. L \in Int /\ 1 \in Int
      BY <3>1
    <3>3. Cardinality(1..L) = IF 1 > L THEN 0 ELSE L - 1 + 1
      BY <3>2, FS_Interval
    <3>4. Cardinality(1..L) = L
      BY <3>1, <3>3
    <3> QED
      BY <3>4 DEF L
  <2> HIDE DEF g, T
  <2> QED
    BY <1>1, <2>1, <2>3, <2>4, SameSize
<1>4. Cardinality(DOMAIN a.mapAddr) = Cardinality(Known(a))
  <2> DEFINE T == DOMAIN a.mapAddr
             g == [n \in Known(a) |-> Ip[a.mapInfo[n].addr]]
  <2>1. g \in [Known(a) -> T] /\ \A x, y \in Known(a) : g[x] = g[y] => x = y
    BY DEF Indexed
  <2>2. \A p \in T : a.mapAddr[p] \in Known(a)
    BY DEF Typed
  <2>3. \A p \in T : \E x \in Known(a) : g[x] = p
    BY <2>2 DEF Indexed
  <2> HIDE DEF g, T
  <2> QED
    BY <1>1, <2>1, <2>3, SameSize DEF T
<1> QED
  BY <1>3, <1>4

\* The object holds what its C++ types allow, in every reachable state in which it was
\* not misread: when peers.dat was whole, or cut short but readable.
THEOREM AddrAlwaysTyped == AddrSpec => []AddrTypeOK
<1>1. AddrInv => AddrTypeOK
  BY DEF AddrInv, Sound, Typed, AddrTypeOK, Entry, Known
<1> QED
  BY <1>1, AddrInvariance, PTL

\* mapInfo, mapAddr and vRandom are three views of the same entries, in the middle of
\* an operation too and in a table that was saved in the middle of one, as long as
\* every peers.dat was readable.
THEOREM IndexesAlwaysAgree == AddrSpec => []IndexesAgree
<1>1. AddrInv => IndexesAgree
  <2> SUFFICES ASSUME AddrInv, node # "misread" PROVE IndexesAgree
    BY DEF IndexesAgree
  <2>1. Typed(am) /\ Indexed(am)
    BY DEF AddrInv, Sound
  <2>2. Entry = Known(am)
    BY DEF Entry, Known
  <2>3. am.vRandom \in Seq(Known(am))
    BY <2>1 DEF Typed
  <2>4. DOMAIN am.vRandom = 1..Len(am.vRandom)
    BY <2>3
  <2>5. /\ Len(am.vRandom) = Cardinality(Known(am))
        /\ Cardinality(DOMAIN am.mapAddr) = Cardinality(Known(am))
    BY <2>1, IndexSizes
  <2> QED
    BY <2>1, <2>2, <2>4, <2>5 DEF IndexesAgree, Indexed
<1> QED
  BY <1>1, AddrInvariance, PTL

\* No bucket grows over its size, the one that MakeTried is sure of included, as long
\* as every peers.dat was readable: reading does not check the size of a bucket.
THEOREM BucketsAlwaysBounded == AddrSpec => []BucketsBounded
<1>1. AddrInv => BucketsBounded
  BY DEF AddrInv, Sound, Bounded, BucketsBounded
<1> QED
  BY <1>1, AddrInvariance, PTL

\* The places of a tried entry in the tried buckets: exactly one.
LEMMA OnePlace ==
    ASSUME NEW a, NEW exempt, Sound(a, {}, exempt, 0), NEW n \in Tried(a)
    PROVE  Cardinality({p \in TriedBuckets \X (1..TriedBucketSize) :
               p[2] \in DOMAIN a.vvTried[p[1]] /\ a.vvTried[p[1]][p[2]] = n}) = 1
<1> DEFINE k == TriedBucket(a, n)
<1>1. /\ Typed(a) /\ Placed(a) /\ Bounded(a)
      /\ k \in TriedBuckets
  BY TriedBucketType DEF Sound, Tried
<1> DEFINE P == {p \in TriedBuckets \X (1..TriedBucketSize) :
                    p[2] \in DOMAIN a.vvTried[p[1]] /\ a.vvTried[p[1]][p[2]] = n}
<1>2. PICK i \in 1..Len(a.vvTried[k]) : a.vvTried[k][i] = n
  BY <1>1 DEF Placed
<1>3. \A m \in TriedBuckets : /\ Len(a.vvTried[m]) \in Nat
                              /\ DOMAIN a.vvTried[m] = 1..Len(a.vvTried[m])
  <2> TAKE m \in TriedBuckets
  <2>1. a.vvTried[m] \in Seq(Known(a))
    BY <1>1 DEF Typed
  <2> QED
    BY <2>1
<1> HIDE DEF k
<1>4. i \in 1..TriedBucketSize
  <2>1. Len(a.vvTried[k]) <= TriedBucketSize /\ Len(a.vvTried[k]) \in Nat
    BY <1>1, <1>3 DEF Bounded
  <2> QED
    BY <2>1, AddrManAssumption
<1>5. <<k, i>> \in P
  BY <1>1, <1>2, <1>3, <1>4
<1>6. ASSUME NEW p \in P PROVE p = <<k, i>>
  <2>1. PICK m \in TriedBuckets, j \in 1..TriedBucketSize : p = <<m, j>>
    BY <1>6
  <2>2. j \in 1..Len(a.vvTried[m]) /\ a.vvTried[m][j] = n
    BY <1>3, <1>6, <2>1
  <2>3. m = k
    BY <1>1, <2>2 DEF Placed, k
  <2>4. j = i
    BY <1>1, <1>2, <2>2, <2>3 DEF Placed
  <2> QED
    BY <2>1, <2>3, <2>4
<1> HIDE DEF P
<1>7. P = {<<k, i>>}
  BY <1>5, <1>6
<1>8. Cardinality(P) = 1
  BY <1>7, FS_Singleton
<1> QED
  BY <1>8 DEF P

\* What Check_() checks holds between two operations, in a table that was cut short and
\* read again too, where only entries in no bucket are added.
THEOREM CheckAlwaysPasses == AddrSpec => []CheckPasses
<1>1. AddrInv => CheckPasses
  <2> SUFFICES ASSUME AddrInv, Free PROVE CheckPasses
    BY DEF CheckPasses
  <2>1. Sound(am, {}, Lost, 0) /\ Typed(am) /\ Indexed(am)
    BY FreeState
  <2>2. /\ Entry = Known(am) /\ TriedEntries = Tried(am) /\ Entry \ TriedEntries = Untried(am)
        /\ \A n : BucketsOf(n) = Buckets(am, n)
    BY DEF Entry, TriedEntries, BucketsOf, Known, Tried, Untried, Buckets
  <2>3. am.nTried = Cardinality(Tried(am)) /\ am.nNew = Cardinality(Untried(am))
    BY <2>1 DEF Sound, Counted, Typed
  <2>4. Len(am.vRandom) = am.nTried + am.nNew
    <3> DEFINE T == Tried(am)
               U == Untried(am)
    <3>1. IsFiniteSet(T) /\ IsFiniteSet(U)
      BY <2>1, KnownFinite DEF Tried, Untried
    <3>2. T \cap U = {} /\ T \cup U = Known(am)
      BY DEF Tried, Untried
    <3>3. Cardinality(T) \in Nat /\ Cardinality(U) \in Nat /\ Cardinality({}) = 0
      BY <3>1, FS_CardinalityType, FS_EmptySet
    <3> HIDE DEF T, U
    <3>4. Cardinality(Known(am)) = Cardinality(T) + Cardinality(U)
      <4>1. Cardinality(T \cup U) = Cardinality(T) + Cardinality(U) - Cardinality(T \cap U)
        BY <3>1, FS_Union
      <4>2. Cardinality(T \cup U) = Cardinality(T) + Cardinality(U) - 0
        BY <3>2, <3>3, <4>1
      <4> QED
        BY <3>2, <3>3, <4>2
    <3>5. Len(am.vRandom) = Cardinality(Known(am))
      BY <2>1, IndexSizes
    <3> QED
      BY <2>3, <3>4, <3>5 DEF T, U
  <2>5. ASSUME NEW n \in Tried(am)
        PROVE  /\ am.mapInfo[n].nLastSuccess # 0 /\ am.mapInfo[n].nRefCount = 0
               /\ Buckets(am, n) = {}
    <3>1. Buckets(am, n) = {} /\ am.mapInfo[n].nLastSuccess # 0
      BY <2>1 DEF Sound, Referenced
    <3>2. am.mapInfo[n].nRefCount = Cardinality({}) + 0
      BY <2>1, <3>1 DEF Sound, Referenced, Tried
    <3> QED
      BY <3>1, <3>2, FS_EmptySet
  <2>6. ASSUME NEW n \in Untried(am)
        PROVE  /\ am.mapInfo[n].nRefCount <= BucketsPerAddress
               /\ cut \/ am.mapInfo[n].nRefCount # 0
               /\ am.mapInfo[n].nRefCount = Cardinality(Buckets(am, n))
    <3>1. n \in Known(am)
      BY DEF Untried
    <3>2. am.mapInfo[n].nRefCount = Cardinality(Buckets(am, n)) + 0
      BY <2>1, <3>1 DEF Sound, Referenced
    <3>3. am.mapInfo[n].nRefCount <= BucketsPerAddress
          /\ (n \in Lost \/ am.mapInfo[n].nRefCount # 0)
      BY <2>1 DEF Sound, Referenced
    <3>6. n \in Lost => cut
      BY DEF Lost
    <3>4. Cardinality(Buckets(am, n)) \in Nat
      BY BucketSets DEF Buckets
    <3>5. BucketsPerAddress \in Nat
      BY AddrManAssumption
    <3> QED
      BY <3>2, <3>3, <3>4, <3>5, <3>6
  <2>7. ASSUME NEW k \in TriedBuckets, NEW i \in DOMAIN am.vvTried[k]
        PROVE  am.vvTried[k][i] \in Tried(am)
    <3>1. am.vvTried[k] \in Seq(Known(am))
      BY <2>1 DEF Typed
    <3>2. i \in 1..Len(am.vvTried[k])
      BY <3>1
    <3> QED
      BY <2>1, <3>2 DEF Sound, Placed
  <2>8. \A n \in Tried(am) :
           Cardinality({p \in TriedBuckets \X (1..TriedBucketSize) :
               p[2] \in DOMAIN am.vvTried[p[1]] /\ am.vvTried[p[1]][p[2]] = n}) = 1
    BY <2>1, OnePlace
  <2> QED
    BY <2>2, <2>3, <2>4, <2>5, <2>6, <2>7, <2>8 DEF CheckPasses
<1> QED
  BY <1>1, AddrInvariance, PTL

---------------------------------------------------------------------------
(* Tried entries stay. *)

\* A reference more or less changes no flag, and filling a bucket no entry.
LEMMA RaiseKeepsTried ==
    ASSUME NEW a, NEW b, NEW n, Typed(a), n \in Known(a)
    PROVE  /\ Tried(Raise(a, n)) = Tried(a)
           /\ Tried(Fill(a, b, n)) = Tried(a)
           /\ Tried(Fill(Raise(a, n), b, n)) = Tried(a)
<1> DEFINE info == [a.mapInfo EXCEPT ![n].nRefCount = @ + 1]
           new == [a.vvNew EXCEPT ![b] = @ \cup {n}]
<1>1. a = Obj(a) /\ a.mapInfo \in [Known(a) -> InfoType]
  BY DEF Typed
<1>2. DOMAIN info = Known(a) /\ \A m \in Known(a) : info[m].fInTried = a.mapInfo[m].fInTried
  BY <1>1 DEF InfoType
<1>3. Raise(a, n) = [a EXCEPT !.mapInfo = info]
  BY <1>1 DEF Raise, Obj
<1>4. Fill(a, b, n) = [a EXCEPT !.vvNew = new]
  BY <1>1 DEF Fill, Obj
<1>5. Fill(Raise(a, n), b, n) = [a EXCEPT !.mapInfo = info, !.vvNew = new]
  <2> HIDE DEF info
  <2>1. Fill(Raise(a, n), b, n) = Fill([a EXCEPT !.mapInfo = info], b, n)
    BY <1>3
  <2> QED
    BY <1>1, <2>1 DEF Fill, Obj
<1> HIDE DEF info, new
<1>6. /\ Raise(a, n).mapInfo = info /\ Fill(a, b, n).mapInfo = a.mapInfo
      /\ Fill(Raise(a, n), b, n).mapInfo = info
  BY <1>1, <1>3, <1>4, <1>5 DEF Obj
<1> QED
  BY <1>2, <1>6 DEF Tried, Known

LEMMA AddToBucketKeepsTried ==
    ASSUME NEW a, NEW b, NEW n, Typed(a), n \in Known(a), AddToBucket(a, b, n)
    PROVE  Tried(am') = Tried(a)
<1>1. am' = Raise(a, n) \/ am' = Fill(Raise(a, n), b, n)
  BY DEF AddToBucket, Raise, Fill
<1> QED
  BY <1>1, RaiseKeepsTried

\* Every step of a running node.
LEMMA StepKeepsTried ==
    ASSUME AddrInv, [AddrNext]_addrVars, node = "running", node' = "running",
           NEW n \in Tried(am)
    PROVE  n \in Tried(am') \/ (n \in Known(am') /\ \E b \in NewBuckets : n \in am'.vvNew[b])
<1>1. CASE UNCHANGED addrVars
  BY <1>1 DEF addrVars
<1>2. ASSUME NEW s \in Service, NEW src \in Source, AddNew(s, src) PROVE n \in Tried(am')
  <2> DEFINE a == [Create(am, s, src) EXCEPT !.nNew = @ + 1]
             i == am.nIdCount
             b == NewBucketOf[Ip[s]][src]
  <2>1. /\ Free /\ Ip[s] \notin DOMAIN am.mapAddr /\ am.nIdCount < MaxIds
        /\ AddToBucket(a, b, i)
    BY <1>2 DEF AddNew
  <2>2. Sound(am, {}, Lost, 0)
    BY <2>1, FreeState
  <2>3. Sound(a, {}, Lost \cup {i}, 0) /\ i \in Untried(a) /\ Tried(a) = Tried(am)
    BY <2>1, <2>2, Created
  <2> HIDE DEF a, i, b
  <2> QED
    BY <2>1, <2>3, AddToBucketKeepsTried DEF Sound, Untried
<1>3. ASSUME NEW s \in Service, NEW src \in Source, AddAgain(s, src) PROVE n \in Tried(am')
  <2> DEFINE i == am.mapAddr[Ip[s]]
             b == NewBucketOf[Ip[s]][src]
  <2>1. Free /\ Ip[s] \in DOMAIN am.mapAddr /\ AddToBucket(am, b, i)
    BY <1>3 DEF AddAgain
  <2>2. Typed(am)
    BY <2>1, FreeState
  <2>3. i \in Known(am)
    BY <2>1, <2>2 DEF Typed
  <2> HIDE DEF i, b
  <2> QED
    BY <2>1, <2>2, <2>3, AddToBucketKeepsTried
<1>4. CASE AddShrunk
  <2> DEFINE b == busy.b
             i == busy.nId
  <2>1. PICK m \in am.vvNew[b] : am' = Fill(ShrinkNew(am, b, m), b, i)
    BY <1>4 DEF AddShrunk, Fill
  <2>2. busy.op = "shrink" /\ i \in Untried(am) /\ b \in NewBuckets /\ i \notin am.vvNew[b]
    BY <1>4 DEF AddShrunk, AddrInv, BusyOK, Idle
  <2> DEFINE held == {i}
             c == ShrinkNew(am, b, m)
  <2>3. Sound(am, held, Lost, 0) /\ m \notin held
    <3>1. Held = {i} /\ Exempt = Lost /\ Uncounted = 0
      BY <2>2 DEF Held, Exempt, Uncounted
    <3> QED
      BY <2>1, <2>2, <3>1 DEF AddrInv
  <2> HIDE DEF b, held
  <2>4. /\ Sound(c, held, Lost, 0)
        /\ Tried(c) = Tried(am) /\ Untried(am) \ {m} \subseteq Untried(c)
        /\ c.vvNew = [am.vvNew EXCEPT ![b] = @ \ {m}]
        /\ Cardinality(c.vvNew[b]) < NewBucketSize
    BY <2>1, <2>2, <2>3, Shrunk
  <2>5. i \in Known(c) /\ Typed(c)
    BY <2>2, <2>3, <2>4 DEF held, Untried, Sound
  <2> HIDE DEF c
  <2>6. am' = Fill(c, b, i)
    BY <2>1 DEF c
  <2> QED
    BY <2>4, <2>5, <2>6, RaiseKeepsTried
<1>5. ASSUME NEW s \in Service, NEW t \in 1..MaxTime, Good(s, t) PROVE n \in Tried(am')
  <2> DEFINE i == am.mapAddr[Ip[s]]
  <2>1. Free /\ Ip[s] \in DOMAIN am.mapAddr /\ am' = Succeed(am, i, t)
    BY <1>5 DEF Good, Succeed
  <2>2. Sound(am, {}, Lost, 0) /\ Typed(am)
    BY <2>1, FreeState
  <2>3. i \in Known(am)
    BY <2>1, <2>2 DEF Typed
  <2> HIDE DEF i
  <2>4. Sound(Succeed(am, i, t), {}, Lost, 0) /\ SamePlaces(am, Succeed(am, i, t))
    BY <2>2, <2>3, Succeeded
  <2> QED
    BY <2>1, <2>2, <2>4, PlacesKept
<1>6. CASE UnlinkBucket
  <2> DEFINE b == busy.b
             i == busy.nId
             none == {}
             only == Lost \cup {i}
  <2>1. /\ busy.op = "unlink" /\ b \in NewBuckets
        /\ am' = IF i \in am.vvNew[b] THEN Unlink(am, b, i) ELSE am
    BY <1>6 DEF UnlinkBucket, Unlink
  <2>2. Sound(am, none, only, 0) /\ Typed(am) /\ i \notin none
    BY <2>1, UnlinkState DEF Sound
  <2> HIDE DEF b, i, none, only
  <2>3. CASE i \in am.vvNew[b]
    <3>1. SamePlaces(am, Unlink(am, b, i))
      BY <2>1, <2>2, <2>3, Unlinked
    <3> QED
      BY <2>1, <2>2, <2>3, <3>1, PlacesKept
  <2> QED
    BY <2>1, <2>3
<1>7. CASE MakeTried
  <2> DEFINE i == busy.nId
             k == TriedBucket(am, i)
             c == TakeOff(am)
  <2>1. /\ busy.op = "unlink"
        /\ \/ am' = PushTried(c, k, i) /\ Len(am.vvTried[k]) < TriedBucketSize
           \/ am' = c
    BY <1>7 DEF MakeTried, TriedBucket, TakeOff
  <2>2. /\ Sound(am, {}, Lost \cup {i}, 0) /\ i \in Untried(am)
        /\ am.mapInfo[i].nLastSuccess # 0 /\ Buckets(am, i) = {}
    <3>1. busy.b = NewBucketCount + 1 /\ \A b \in NewBuckets : ~(busy.b <= b)
      BY <1>7, AddrManAssumption DEF MakeTried, NewBuckets
    <3>2. /\ Sound(am, {}, Lost \cup {i}, 0) /\ i \in Untried(am)
          /\ am.mapInfo[i].nLastSuccess # 0 /\ \A b \in Buckets(am, i) : busy.b <= b
      BY <2>1, UnlinkState
    <3> QED
      BY <3>1, <3>2 DEF Buckets
  <2> HIDE DEF i, c
  <2>3. /\ Sound(c, {}, Lost \cup {i}, 1)
        /\ c.mapInfo = am.mapInfo /\ c.vvTried = am.vvTried /\ c.vvNew = am.vvNew
        /\ Tried(c) = Tried(am) /\ Untried(c) = Untried(am)
    BY <2>2, TakenOff DEF c
  <2>4. CASE am' = c
    BY <2>3, <2>4
  <2>5. CASE am' = PushTried(c, k, i) /\ Len(am.vvTried[k]) < TriedBucketSize
    <3>1. /\ TriedBucket(c, i) = k /\ Buckets(c, i) = {} /\ i \in Untried(c)
          /\ c.mapInfo[i].nLastSuccess # 0 /\ Len(c.vvTried[k]) < TriedBucketSize
      BY <2>2, <2>3, <2>5 DEF TriedBucket, Buckets
    <3> HIDE DEF k
    <3>2. LET p == PushTried(c, TriedBucket(c, i), i)
          IN  /\ Sound(p, {}, Lost, 0)
              /\ Known(p) = Known(c) /\ Tried(p) = Tried(c) \cup {i} /\ p.vvNew = c.vvNew
      BY <2>3, <3>1, Pushed
    <3> QED
      BY <2>3, <2>5, <3>1, <3>2
  <2> QED
    BY <2>1, <2>4, <2>5
<1>8. CASE SelectTried
  <2> DEFINE k == busy.k
             i == busy.i
  <2>1. PICK j \in i..Len(am.vvTried[k]) : am' = SwapTried(am, k, i, j)
    BY <1>8 DEF SelectTried, SwapTried
  <2>2. /\ busy.op = "select" /\ i <= Len(am.vvTried[k])
    BY <1>8 DEF SelectTried
  <2>3. Sound(am, {}, Lost \cup {busy.nId}, 1) /\ i \in Nat \ {0} /\ k \in TriedBuckets
    BY <2>2, SelectState
  <2>4. Len(am.vvTried[k]) \in Nat
    BY <2>3 DEF Sound, Typed
  <2> HIDE DEF k, i
  <2>5. i \in 1..Len(am.vvTried[k]) /\ j \in 1..Len(am.vvTried[k])
    BY <2>1, <2>2, <2>3, <2>4
  <2> QED
    BY <2>1, <2>3, <2>5, SwappedTried
<1>9. CASE EvictTried
  <2> DEFINE i == busy.nId
             o == busy.nOrigin
             pos == busy.nOldestPos
             k == busy.k
  <2>1. /\ busy.op = "select"
        /\ busy.i > InspectOnEvict \/ busy.i > Len(am.vvTried[k])
        /\ am' = Evict(am, k, pos, i, o)
    BY <1>9 DEF EvictTried
  <2>2. /\ Sound(am, {}, Lost \cup {i}, 1) /\ i \in Untried(am) /\ o \in NewBuckets
        /\ k = TriedBucket(am, i) /\ k \in TriedBuckets
        /\ am.mapInfo[i].nLastSuccess # 0 /\ Buckets(am, i) = {}
        /\ Cardinality(am.vvNew[o]) < NewBucketSize
        /\ busy.i \in Nat \ {0}
        /\ busy.i = 1 => Len(am.vvTried[k]) # 0
        /\ busy.i > 1 => pos \in 1..Len(am.vvTried[k])
    BY <2>1, SelectState
  <2> HIDE DEF i, o, pos, k
  <2>3. pos \in 1..Len(am.vvTried[k])
    <3>1. Len(am.vvTried[k]) \in Nat
      BY <2>2 DEF Sound, Typed
    <3> QED
      BY <2>1, <2>2, <3>1, AddrManAssumption
  <2> DEFINE c == Evict(am, TriedBucket(am, i), pos, i, o)
             old == am.vvTried[TriedBucket(am, i)][pos]
  <2>4. /\ Sound(c, {}, Lost, 0)
        /\ Known(c) = Known(am) /\ Tried(c) = (Tried(am) \ {old}) \cup {i}
        /\ \E b \in NewBuckets : old \in c.vvNew[b]
    <3>1. pos \in 1..Len(am.vvTried[TriedBucket(am, i)])
      BY <2>2, <2>3
    <3> QED
      BY <2>2, <3>1, Evicted
  <2>5. am' = c
    BY <2>1, <2>2
  <2>6. n \in Known(am)
    BY DEF Tried
  <2> HIDE DEF c, old
  <2> QED
    BY <2>4, <2>5, <2>6
<1>10. CASE GetAddr
  <2> DEFINE i == IF busy = Idle THEN 1 ELSE busy.n
  <2>1. PICK j \in i..Len(am.vRandom) : am' = IF i = j THEN am ELSE SwapRandom(am, i, j)
    BY <1>10 DEF GetAddr
  <2>2. Sound(am, Held, Exempt, Uncounted) /\ i \in Nat \ {0}
    BY <1>10 DEF AddrInv, BusyOK, GetAddr, Free, Idle
  <2>3. Len(am.vRandom) \in Nat
    BY <2>2 DEF Sound, Typed
  <2> HIDE DEF i
  <2>4. i \in 1..Len(am.vRandom) /\ j \in 1..Len(am.vRandom)
    BY <2>1, <2>2, <2>3
  <2>5. SameBuckets(am, SwapRandom(am, i, j))
    BY <2>2, <2>4, Swapped
  <2> QED
    BY <2>1, <2>2, <2>5, BucketsKept
<1>11. ~Shutdown /\ ~Start /\ ~StartMisread /\ ~StartEmpty
  BY DEF Shutdown, Start, StartMisread, StartEmpty
<1> QED
  BY <1>1, <1>2, <1>3, <1>4, <1>5, <1>6, <1>7, <1>8, <1>9, <1>10, <1>11 DEF AddrNext, Tried

\* A running node keeps every tried address: one that leaves the tried table is in a
\* new bucket at once.
THEOREM TriedAlwaysKept == AddrSpec => TriedKept
<1> DEFINE Kept1 == node = "running" /\ node' = "running" =>
               \A n \in TriedEntries :
                   /\ n \in DOMAIN am'.mapInfo
                   /\ am'.mapInfo[n].fInTried \/ \E b \in NewBuckets : n \in am'.vvNew[b]
<1>1. AddrInv /\ [AddrNext]_addrVars => [Kept1]_addrVars
  <2>1. TriedEntries = Tried(am)
    BY DEF TriedEntries, Tried, Entry, Known
  <2>2. \A n \in Tried(am') : n \in DOMAIN am'.mapInfo /\ am'.mapInfo[n].fInTried
    BY DEF Tried, Known
  <2> QED
    BY <2>1, <2>2, StepKeepsTried DEF Known
<1> QED
  BY <1>1, AddrInvariance, PTL DEF AddrSpec, TriedKept

---------------------------------------------------------------------------
(* A restart loses nothing. *)

\* The id that an entry gets when the file is read.
NewId(a, n) == IF n \in Tried(a) THEN Cardinality(Untried(a)) + Rank(Tried(a), n)
                                 ELSE Rank(Untried(a), n)

\* The ranks in S of the elements of X.
Ranks(S, X) == {Rank(S, n) : n \in X}

\* Between two operations all that an object holds is in the file.
LEMMA AllWritten ==
    ASSUME NEW a, Sound(a, {}, {}, 0)
    PROVE  LET f == Serialize(a)
               U == Untried(a)
               T == Tried(a)
           IN  /\ ReadableFile(f, TRUE) /\ f.nNew = Cardinality(U) /\ f.nTried = Cardinality(T)
               /\ U \in SUBSET Nat /\ IsFiniteSet(U) /\ T \in SUBSET Nat /\ IsFiniteSet(T)
               /\ \A n \in U : /\ Rank(U, n) + 1 \in 1..f.nNew
                               /\ f.new[Rank(U, n) + 1] = Saved(a.mapInfo[n])
               /\ \A i \in 1..f.nNew : \E n \in U : Rank(U, n) = i - 1
               /\ \A n \in T : /\ Rank(T, n) + 1 \in 1..f.nTried
                               /\ f.tried[Rank(T, n) + 1] = Saved(a.mapInfo[n])
               /\ \A i \in 1..f.nTried : \E n \in T : /\ Rank(T, n) = i - 1
                                                      /\ f.tried[i] = Saved(a.mapInfo[n])
               /\ \A b \in NewBuckets : /\ f.vvNew[b] = Ranks(U, a.vvNew[b])
                                         /\ a.vvNew[b] \in SUBSET U
<1> DEFINE f == Serialize(a)
           none == {}
           U == Untried(a)
           T == Tried(a)
           d == 0
<1>1. Sound(a, none, none, d) /\ d \in {0, 1}
      /\ (d = 1 => \E n \in Untried(a) : a.mapInfo[n].nRefCount = 0)
  OBVIOUS
<1> HIDE DEF none, d
<1>2. /\ Kept(a) \in SUBSET Nat /\ IsFiniteSet(Kept(a))
      /\ T \in SUBSET Nat /\ IsFiniteSet(T)
      /\ \A b \in NewBuckets : a.vvNew[b] \in SUBSET Kept(a)
      /\ none = {} => Kept(a) = U
  BY <1>1, KeptIs
<1>3. Kept(a) = U
  BY <1>2 DEF none
<1>4. FileOK(f, TRUE)
  BY <1>1, FileIsOK DEF none
<1>5. /\ f.nNew = a.nNew /\ f.nTried = a.nTried
      /\ Len(f.new) = Cardinality(Kept(a))
      /\ \A n \in Kept(a) : /\ Rank(Kept(a), n) + 1 \in 1..Len(f.new)
                            /\ f.new[Rank(Kept(a), n) + 1] = Saved(a.mapInfo[n])
      /\ \A i \in 1..Len(f.new) : \E n \in Kept(a) :
            Rank(Kept(a), n) = i - 1 /\ f.new[i] = Saved(a.mapInfo[n])
      /\ Len(f.tried) = Cardinality(Tried(a))
      /\ \A n \in Tried(a) : /\ Rank(Tried(a), n) + 1 \in 1..Len(f.tried)
                             /\ f.tried[Rank(Tried(a), n) + 1] = Saved(a.mapInfo[n])
      /\ \A i \in 1..Len(f.tried) : \E n \in Tried(a) :
            Rank(Tried(a), n) = i - 1 /\ f.tried[i] = Saved(a.mapInfo[n])
      /\ \A b \in NewBuckets : f.vvNew[b] = {Rank(Kept(a), n) : n \in a.vvNew[b]}
  BY <1>1, Written
<1>6. a.nNew = Cardinality(U) /\ a.nTried = Cardinality(T)
  BY DEF Sound, Counted, Typed
<1>7. f.nNew = Cardinality(U) /\ Len(f.new) = Cardinality(U)
      /\ f.nTried = Cardinality(T) /\ Len(f.tried) = Cardinality(T)
  BY <1>3, <1>5, <1>6
<1> HIDE DEF f, U, T
<1>8. ReadableFile(f, TRUE)
  BY <1>4, <1>7 DEF ReadableFile
<1>9. /\ U \in SUBSET Nat /\ IsFiniteSet(U) /\ T \in SUBSET Nat /\ IsFiniteSet(T)
      /\ \A b \in NewBuckets : a.vvNew[b] \in SUBSET U
      /\ f.nNew = Cardinality(U) /\ f.nTried = Cardinality(T)
  BY <1>2, <1>3, <1>7
<1>10. /\ \A n \in U : /\ Rank(U, n) + 1 \in 1..f.nNew
                       /\ f.new[Rank(U, n) + 1] = Saved(a.mapInfo[n])
       /\ \A i \in 1..f.nNew : \E n \in U : Rank(U, n) = i - 1
       /\ \A b \in NewBuckets : f.vvNew[b] = Ranks(U, a.vvNew[b])
  <2>1. Len(f.new) = f.nNew
    BY <1>7
  <2>2. \A n \in U : /\ Rank(U, n) + 1 \in 1..Len(f.new)
                     /\ f.new[Rank(U, n) + 1] = Saved(a.mapInfo[n])
    BY <1>3, <1>5
  <2>3. \A i \in 1..Len(f.new) : \E n \in U : Rank(U, n) = i - 1
    BY <1>3, <1>5
  <2>4. \A b \in NewBuckets : f.vvNew[b] = Ranks(U, a.vvNew[b])
    BY <1>3, <1>5 DEF Ranks
  <2> QED
    BY <2>1, <2>2, <2>3, <2>4
<1>11. /\ \A n \in T : /\ Rank(T, n) + 1 \in 1..f.nTried
                       /\ f.tried[Rank(T, n) + 1] = Saved(a.mapInfo[n])
       /\ \A i \in 1..f.nTried : \E n \in T : /\ Rank(T, n) = i - 1
                                              /\ f.tried[i] = Saved(a.mapInfo[n])
  BY <1>5, <1>7 DEF T
<1> QED
  BY <1>8, <1>9, <1>10, <1>11 DEF f, U, T

\* Every tried entry finds room in its bucket again.
LEMMA AllKept ==
    ASSUME NEW a, Sound(a, {}, {}, 0)
    PROVE  KeptPlaces(Serialize(a)) = 1..Cardinality(Tried(a))
<1> DEFINE f == Serialize(a)
           T == Tried(a)
           P == 1..f.nTried
<1>1. /\ f.nTried = Cardinality(T) /\ f.nTried \in Nat
      /\ \A i \in P : \E n \in T : Rank(T, n) = i - 1 /\ f.tried[i] = Saved(a.mapInfo[n])
  BY AllWritten DEF ReadableFile, FileOK
<1>2. Typed(a) /\ Placed(a) /\ Bounded(a)
  BY DEF Sound
<1> DEFINE entry(j) == CHOOSE n \in T : Rank(T, n) = j - 1 /\ f.tried[j] = Saved(a.mapInfo[n])
<1>3. ASSUME NEW j \in P
      PROVE  /\ entry(j) \in T /\ Rank(T, entry(j)) = j - 1
             /\ FileBucket(f, j) = TriedBucket(a, entry(j))
  <2>1. entry(j) \in T /\ Rank(T, entry(j)) = j - 1 /\ f.tried[j] = Saved(a.mapInfo[entry(j)])
    BY <1>1
  <2> HIDE DEF entry
  <2>2. f.tried[j].addr = a.mapInfo[entry(j)].addr
    BY <2>1 DEF Saved
  <2> QED
    BY <2>1, <2>2 DEF FileBucket, TriedBucket
<1>4. \A n \in T : n \in Known(a) /\ TriedBucket(a, n) \in TriedBuckets
  BY <1>2, TriedBucketType DEF Tried
<1> HIDE DEF f, entry
<1>5. \A j \in P : FileBucket(f, j) \in TriedBuckets
  BY <1>3, <1>4
<1>6. ASSUME NEW k \in TriedBuckets
      PROVE  Cardinality({j \in P : FileBucket(f, j) = k}) <= TriedBucketSize
  <2> DEFINE J == {j \in P : FileBucket(f, j) = k}
             L == 1..Len(a.vvTried[k])
             place(j) == CHOOSE i \in L : a.vvTried[k][i] = entry(j)
             g == [j \in J |-> place(j)]
  <2>1. ASSUME NEW j \in J PROVE place(j) \in L /\ a.vvTried[k][place(j)] = entry(j)
    <3>1. entry(j) \in T /\ TriedBucket(a, entry(j)) = k
      BY <1>3
    <3>2. \E i \in L : a.vvTried[k][i] = entry(j)
      BY <1>2, <3>1 DEF Placed
    <3> QED
      BY <3>2
  <2>2. ASSUME NEW j \in J, NEW l \in J, place(j) = place(l) PROVE j = l
    <3>1. entry(j) = entry(l)
      BY <2>1, <2>2
    <3>2. Rank(T, entry(j)) = j - 1 /\ Rank(T, entry(l)) = l - 1
      BY <1>3
    <3>3. j - 1 = l - 1 /\ j \in Int /\ l \in Int
      <4> HIDE DEF entry
      <4> QED
        BY <1>1, <3>1, <3>2
    <3> QED
      BY <3>3
  <2>3. Len(a.vvTried[k]) \in Nat /\ Len(a.vvTried[k]) <= TriedBucketSize
    BY <1>2 DEF Typed, Bounded
  <2>4. IsFiniteSet(L) /\ Cardinality(L) = Len(a.vvTried[k])
    <3> DEFINE N == Len(a.vvTried[k])
    <3>1. N \in Nat
      BY <2>3
    <3> HIDE DEF N
    <3>2. N \in Int /\ 1 \in Int
      BY <3>1
    <3>3. IsFiniteSet(1..N) /\ Cardinality(1..N) = IF 1 > N THEN 0 ELSE N - 1 + 1
      BY <3>2, FS_Interval
    <3>4. Cardinality(1..N) = N
      BY <3>1, <3>3
    <3> QED
      BY <3>3, <3>4 DEF N
  <2>5. IsFiniteSet(J) /\ Cardinality(J) \in Nat
    <3>1. IsFiniteSet(P)
      BY <1>1, FS_Interval
    <3>2. J \in SUBSET P
      OBVIOUS
    <3> HIDE DEF J, P
    <3> QED
      BY <3>1, <3>2, FS_Subset, FS_CardinalityType
  <2> HIDE DEF J, L, place
  <2>6. g \in Injection(J, L)
    BY <2>1, <2>2, Fun_IsInj
  <2>7. Cardinality(J) <= Cardinality(L)
    BY <2>4, <2>6, FS_Injection
  <2>8. Cardinality(J) <= TriedBucketSize
    BY <2>3, <2>4, <2>5, <2>7, AddrManAssumption
  <2> QED
    BY <2>8 DEF J
<1>7. KeptPlaces(f) = P
  BY <1>1, <1>5, <1>6, KeptPlacesIs
<1> QED
  BY <1>1, <1>7 DEF f

\* The new ids: each entry has one, they are the ids of the object that is read, and
\* what is kept of an entry is under its new id.
LEMMA NewIds ==
    ASSUME NEW a, Sound(a, {}, {}, 0)
    PROVE  LET f == Serialize(a)
           IN  /\ \A n \in Known(a) :
                     /\ NewId(a, n) \in 0..(LoadedCount(f) - 1)
                     /\ LoadedEntry(f, NewId(a, n)) = Saved(a.mapInfo[n])
                     /\ n \in Tried(a) <=> NewId(a, n) >= f.nNew
               /\ \A i \in 0..(LoadedCount(f) - 1) : \E n \in Known(a) : NewId(a, n) = i
<1> DEFINE f == Serialize(a)
           U == Untried(a)
           T == Tried(a)
           N == f.nNew
           M == f.nTried
           K == KeptPlaces(f)
           size == LoadedCount(f)
<1>1. /\ ReadableFile(f, TRUE) /\ N = Cardinality(U) /\ M = Cardinality(T)
      /\ U \in SUBSET Nat /\ IsFiniteSet(U) /\ T \in SUBSET Nat /\ IsFiniteSet(T)
      /\ \A n \in U : /\ Rank(U, n) + 1 \in 1..N
                      /\ f.new[Rank(U, n) + 1] = Saved(a.mapInfo[n])
      /\ \A i \in 1..N : \E n \in U : Rank(U, n) = i - 1
      /\ \A n \in T : /\ Rank(T, n) + 1 \in 1..M
                      /\ f.tried[Rank(T, n) + 1] = Saved(a.mapInfo[n])
      /\ \A i \in 1..M : \E n \in T : Rank(T, n) = i - 1
  BY AllWritten
<1>2. K = 1..M
  BY <1>1, AllKept
<1>3. N \in Nat /\ M \in Nat
  BY <1>1 DEF ReadableFile, FileOK
<1>4. \A j \in 1..M : Rank(1..M, j) = j - 1
  <2> TAKE j \in 1..M
  <2>1. {m \in 1..M : m < j} = 1..(j - 1)
    BY <1>3
  <2>2. Cardinality(1..(j - 1)) = IF 1 > j - 1 THEN 0 ELSE (j - 1) - 1 + 1
    <3>1. 1 \in Int /\ j - 1 \in Int
      BY <1>3
    <3> QED
      BY <3>1, FS_Interval
  <2>3. Rank(1..M, j) = Cardinality(1..(j - 1))
    BY <2>1 DEF Rank
  <2> HIDE DEF M
  <2> QED
    BY <1>3, <2>2, <2>3
<1>5. /\ \A n \in 0..(N - 1) : LoadedEntry(f, n) = f.new[n + 1]
      /\ \A n \in N..(size - 1) : \E j \in K : n = N + Rank(K, j)
      /\ \A j \in K : /\ N + Rank(K, j) \in N..(size - 1)
                      /\ LoadedEntry(f, N + Rank(K, j)) = f.tried[j]
      /\ size \in 0..MaxIds /\ N <= size
  BY <1>1, LoadedEntries
<1>6. size \in Nat
  BY <1>5, AddrManAssumption
<1> HIDE DEF f, U, T, N, M, K, size
<1>7. ASSUME NEW n \in U
      PROVE  /\ Rank(U, n) \in 0..(size - 1) /\ ~(Rank(U, n) >= N)
             /\ LoadedEntry(f, Rank(U, n)) = Saved(a.mapInfo[n])
  <2>1. Rank(U, n) \in Int
    <3>1. U \in SUBSET Nat /\ IsFiniteSet(U)
      BY <1>1
    <3> QED
      BY <3>1, RankIs
  <2>2. Rank(U, n) \in 0..(N - 1) /\ Rank(U, n) \in 0..(size - 1) /\ ~(Rank(U, n) >= N)
    BY <1>1, <1>3, <1>5, <1>6, <2>1
  <2> QED
    BY <1>1, <1>5, <2>2
<1>8. ASSUME NEW n \in T
      PROVE  /\ N + Rank(T, n) \in 0..(size - 1) /\ N + Rank(T, n) >= N
             /\ LoadedEntry(f, N + Rank(T, n)) = Saved(a.mapInfo[n])
  <2> DEFINE j == Rank(T, n) + 1
  <2>1. Rank(T, n) \in Int /\ j \in 1..M
    BY <1>1, RankIs
  <2>2. j \in K /\ Rank(K, j) = Rank(T, n)
    BY <1>2, <1>4, <2>1
  <2>3. /\ N + Rank(T, n) \in N..(size - 1)
        /\ LoadedEntry(f, N + Rank(T, n)) = f.tried[j]
    BY <1>5, <2>2
  <2>4. N + Rank(T, n) \in 0..(size - 1) /\ N + Rank(T, n) >= N
    BY <1>3, <1>6, <2>3
  <2> QED
    BY <1>1, <2>3, <2>4
<1>9. Known(a) = U \cup T /\ U \cap T = {}
  BY DEF U, T, Untried, Tried
<1>10. /\ \A n \in T : NewId(a, n) = N + Rank(T, n)
       /\ \A n \in U : NewId(a, n) = Rank(U, n)
  BY <1>1, <1>9 DEF NewId, U, T
<1>11. ASSUME NEW i \in 0..(size - 1) PROVE \E n \in Known(a) : NewId(a, n) = i
  <2>1. CASE i < N
    <3>1. i + 1 \in 1..N /\ (i + 1) - 1 = i
      BY <1>3, <2>1
    <3>2. PICK n \in U : Rank(U, n) = i
      BY <1>1, <3>1
    <3> QED
      BY <1>9, <1>10, <3>2
  <2>2. CASE ~(i < N)
    <3>1. i \in N..(size - 1)
      BY <1>3, <1>6, <2>2
    <3>2. PICK j \in K : i = N + Rank(K, j)
      BY <1>5, <3>1
    <3>3. j \in 1..M /\ Rank(K, j) = j - 1
      BY <1>2, <1>4
    <3>4. PICK n \in T : Rank(T, n) = j - 1
      BY <1>1, <3>3
    <3> QED
      BY <1>9, <1>10, <3>2, <3>3, <3>4
  <2> QED
    BY <2>1, <2>2
<1> QED
  BY <1>7, <1>8, <1>9, <1>10, <1>11 DEF f, U, T, N, size

\* An entry is in the same new buckets under its new id.
LEMMA SameNewBuckets ==
    ASSUME NEW a, Sound(a, {}, {}, 0), NEW n \in Known(a)
    PROVE  Buckets(Deserialize(Serialize(a)), NewId(a, n)) = Buckets(a, n)
<1> DEFINE f == Serialize(a)
           U == Untried(a)
           i == NewId(a, n)
           X == {b \in NewBuckets : i \in f.vvNew[b]}
           Y == {b \in NewBuckets : i \in LoadedBuckets(f)[b]}
<1>1. /\ ReadableFile(f, TRUE) /\ f.nNew = Cardinality(U)
      /\ U \in SUBSET Nat /\ IsFiniteSet(U)
      /\ \A b \in NewBuckets : f.vvNew[b] = Ranks(U, a.vvNew[b])
      /\ \A b \in NewBuckets : a.vvNew[b] \in SUBSET U
  <2>1. /\ ReadableFile(f, TRUE) /\ f.nNew = Cardinality(U)
        /\ U \in SUBSET Nat /\ IsFiniteSet(U)
        /\ \A b \in NewBuckets : a.vvNew[b] \in SUBSET U
    BY AllWritten
  <2>2. \A b \in NewBuckets : f.vvNew[b] = Ranks(U, a.vvNew[b])
    BY AllWritten
  <2> QED
    BY <2>1, <2>2
<1>2. n \in Tried(a) <=> i >= f.nNew
  BY NewIds
<1>3. X = Buckets(a, n)
  <2> HIDE DEF f, U
  <2>1. CASE n \in U
    <3>1. i = Rank(U, n)
      BY <2>1 DEF NewId, U, Untried
    <3>2. \A m \in U : Rank(U, m) = Rank(U, n) => m = n
      BY <1>1, <2>1, RankIs
    <3>3. \A b \in NewBuckets : i \in f.vvNew[b] <=> n \in a.vvNew[b]
      <4> TAKE b \in NewBuckets
      <4>1. f.vvNew[b] = {Rank(U, m) : m \in a.vvNew[b]} /\ a.vvNew[b] \in SUBSET U
        BY <1>1 DEF Ranks
      <4> HIDE DEF i
      <4> QED
        BY <3>1, <3>2, <4>1
    <3> QED
      BY <3>3 DEF Buckets
  <2>2. CASE n \notin U
    <3>1. n \in Tried(a) /\ i >= f.nNew
      BY <1>2, <2>2 DEF U, Untried
    <3>2. \A m \in U : Rank(U, m) < f.nNew /\ Rank(U, m) \in Nat
      <4>1. \A m \in U : Rank(U, m) \in 0..(Cardinality(U) - 1)
        <5>1. U \in SUBSET Nat /\ IsFiniteSet(U)
          BY <1>1
        <5> QED
          BY <5>1, RankIs
      <4>2. Cardinality(U) \in Nat
        BY <1>1, FS_CardinalityType
      <4> QED
        BY <1>1, <4>1, <4>2
    <3>3. f.nNew \in Nat
      BY <1>1 DEF ReadableFile, FileOK
    <3>4. \A m \in U : Rank(U, m) # i
      <4> HIDE DEF i
      <4> QED
        BY <3>1, <3>2, <3>3
    <3>5. X = {}
      BY <1>1, <3>4 DEF Ranks
    <3>6. Buckets(a, n) = {}
      BY <3>1 DEF Sound, Referenced
    <3> QED
      BY <3>5, <3>6
  <2> QED
    BY <2>1, <2>2
<1>4. Cardinality(X) <= BucketsPerAddress
  <2>1. Cardinality(Buckets(a, n)) \in Nat
    BY BucketSets DEF Buckets
  <2>2. a.mapInfo[n].nRefCount = Cardinality(Buckets(a, n)) + 0
    BY DEF Sound, Referenced
  <2>3. CASE n \in U
    <3>1. a.mapInfo[n].nRefCount <= BucketsPerAddress
      BY <2>3 DEF Sound, Referenced
    <3> QED
      BY <1>3, <2>1, <2>2, <3>1
  <2>4. CASE n \notin U
    <3>1. Buckets(a, n) = {}
      BY <2>4 DEF Sound, Referenced, Untried
    <3>2. Cardinality(X) = 0
      BY <1>3, <3>1, FS_EmptySet
    <3> QED
      BY <3>2, AddrManAssumption
  <2> QED
    BY <2>3, <2>4
<1>5. Y = X
  <2> DEFINE S == 0..(Len(f.new) - 1)
  <2>1. f.vvNew \in [NewBuckets -> SUBSET S]
    BY <1>1 DEF ReadableFile, FileOK
  <2> HIDE DEF f, S, i
  <2>2. Cardinality(X) <= BucketsPerAddress => Y = X
    BY <2>1, LoadedBucketsIs
  <2> QED
    BY <1>4, <2>2
<1>6. Deserialize(f).vvNew = LoadedBuckets(f)
  BY <1>1, LoadedObject
<1>7. Buckets(Deserialize(f), i) = Y
  BY <1>6 DEF Buckets
<1> QED
  BY <1>3, <1>5, <1>7

\* So the object that is read says the same of the same addresses.
LEMMA ContentKept ==
    ASSUME NEW a, Sound(a, {}, {}, 0)
    PROVE  Content(Deserialize(Serialize(a))) = Content(a)
<1> DEFINE f == Serialize(a)
           d == Deserialize(f)
           size == LoadedCount(f)
           E(n) == LoadedEntry(f, n)
           id(n) == NewId(a, n)
<1>1. /\ Typed(a) /\ Indexed(a)
      /\ \A n \in Known(a) : a.mapInfo[n] \in InfoType
      /\ \A p \in DOMAIN a.mapAddr : a.mapAddr[p] \in Known(a)
  BY DEF Sound, Typed
<1>2. ReadableFile(f, TRUE)
  BY AllWritten
<1>3. /\ \A n \in Known(a) : /\ id(n) \in 0..(size - 1) /\ E(id(n)) = Saved(a.mapInfo[n])
                             /\ n \in Tried(a) <=> id(n) >= f.nNew
      /\ \A i \in 0..(size - 1) : \E n \in Known(a) : id(n) = i
  BY NewIds
<1>4. /\ \A n \in 0..(size - 1) :
            d.mapInfo[n] = [addr |-> E(n).addr, source |-> E(n).source,
                            nLastSuccess |-> E(n).nLastSuccess,
                            nRefCount |-> Cardinality(Buckets(d, n)),
                            fInTried |-> n >= f.nNew, nRandomPos |-> n + 1]
      /\ DOMAIN d.mapAddr = {Ip[E(n).addr] : n \in 0..(size - 1)}
      /\ \A n \in 0..(size - 1) : d.mapAddr[Ip[E(n).addr]] = n
  BY <1>2, LoadedObject
<1>5. \A n \in Known(a) : Buckets(d, id(n)) = Buckets(a, n)
  BY SameNewBuckets
<1> HIDE DEF f, d, size, E, id
<1>6. ASSUME NEW n \in Known(a)
      PROVE  /\ Ip[E(id(n)).addr] = Ip[a.mapInfo[n].addr]
             /\ Saved(d.mapInfo[id(n)]) = Saved(a.mapInfo[n])
             /\ d.mapInfo[id(n)].fInTried = a.mapInfo[n].fInTried
  <2> DEFINE e == E(id(n))
             m == a.mapInfo[n]
             x == d.mapInfo[id(n)]
  <2>1. e = [addr |-> m.addr, source |-> m.source, nLastSuccess |-> m.nLastSuccess]
    BY <1>3 DEF Saved
  <2>2. /\ x.addr = e.addr /\ x.source = e.source /\ x.nLastSuccess = e.nLastSuccess
        /\ x.fInTried = (id(n) >= f.nNew)
    <3> DEFINE count == Cardinality(Buckets(d, id(n)))
               isTried == id(n) >= f.nNew
               place == id(n) + 1
    <3>1. id(n) \in 0..(size - 1)
      BY <1>3
    <3>2. x = [addr |-> e.addr, source |-> e.source, nLastSuccess |-> e.nLastSuccess,
               nRefCount |-> count, fInTried |-> isTried, nRandomPos |-> place]
      BY <1>4, <3>1
    <3>3. isTried = (id(n) >= f.nNew)
      OBVIOUS
    <3> HIDE DEF e, x, count, isTried, place
    <3> QED
      BY <3>2, <3>3
  <2>3. m.fInTried \in BOOLEAN /\ (m.fInTried <=> id(n) >= f.nNew)
    BY <1>1, <1>3 DEF InfoType, Tried
  <2>4. x.fInTried = m.fInTried
    BY <2>2, <2>3
  <2> HIDE DEF e, m, x
  <2>5. e.addr = m.addr /\ Saved(x) = Saved(m)
    BY <2>1, <2>2 DEF Saved
  <2> QED
    BY <2>4, <2>5 DEF e, m, x
<1>7. DOMAIN d.mapAddr = DOMAIN a.mapAddr
  <2>1. DOMAIN a.mapAddr = {Ip[a.mapInfo[n].addr] : n \in Known(a)}
    BY <1>1 DEF Indexed
  <2>2. {Ip[E(i).addr] : i \in 0..(size - 1)} = {Ip[a.mapInfo[n].addr] : n \in Known(a)}
    BY <1>3, <1>6
  <2> QED
    BY <1>4, <2>1, <2>2
<1>8. ASSUME NEW p \in DOMAIN a.mapAddr
      PROVE  Content(d)[p] = Content(a)[p]
  <2> DEFINE n == a.mapAddr[p]
  <2>1. n \in Known(a) /\ Ip[a.mapInfo[n].addr] = p
    BY <1>1 DEF Indexed
  <2> HIDE DEF n
  <2>2. d.mapAddr[p] = id(n)
    BY <1>3, <1>4, <1>6, <2>1
  <2>3. Content(d)[p] = <<Saved(d.mapInfo[id(n)]), d.mapInfo[id(n)].fInTried, Buckets(d, id(n))>>
    BY <1>7, <2>2 DEF Content, Buckets
  <2>4. Content(a)[p] = <<Saved(a.mapInfo[n]), a.mapInfo[n].fInTried, Buckets(a, n)>>
    BY DEF Content, Buckets, n
  <2> QED
    BY <1>5, <1>6, <2>1, <2>3, <2>4
<1> DEFINE A == Content(a)
           D == Content(d)
           H == DOMAIN a.mapAddr
<1>9. A = [p \in H |-> A[p]] /\ D = [p \in H |-> D[p]]
  BY <1>7 DEF Content
<1> HIDE DEF A, D, H
<1>10. A = D
  BY <1>8, <1>9 DEF A, D, H
<1> QED
  BY <1>10 DEF A, D, d, f

\* A node that is shut down between two operations knows the same addresses in the
\* same buckets when it is started again.
THEOREM RestartAlwaysKeeps == AddrSpec => RestartKeeps
<1> DEFINE Restart == node = "running" /\ node' = "down" /\ busy = Idle /\ ~cut =>
               /\ peers'.nNew = Len(peers'.new) /\ peers'.nTried = Len(peers'.tried)
               /\ Content(Deserialize(peers')) = Content(am)
<1>1. AddrInv /\ [AddrNext]_addrVars => [Restart]_addrVars
  <2> SUFFICES ASSUME AddrInv, AddrNext, node = "running", node' = "down", busy = Idle, ~cut
               PROVE  /\ peers'.nNew = Len(peers'.new) /\ peers'.nTried = Len(peers'.tried)
                      /\ Content(Deserialize(peers')) = Content(am)
    BY DEF addrVars
  <2>1. peers' = Serialize(am)
    BY DEF AddrNext, AddNew, AddAgain, AddShrunk, Good, UnlinkBucket, MakeTried, SelectTried,
           EvictTried, GetAddr, Shutdown, Start, StartMisread, StartEmpty
  <2>2. Sound(am, {}, {}, 0)
    BY FreeState DEF Free, Lost
  <2>3. ReadableFile(Serialize(am), TRUE)
    BY <2>2, AllWritten
  <2>4. Content(Deserialize(Serialize(am))) = Content(am)
    BY <2>2, ContentKept
  <2> QED
    BY <2>1, <2>3, <2>4 DEF ReadableFile
<1> QED
  BY <1>1, AddrInvariance, PTL DEF AddrSpec, RestartKeeps
=============================================================================
