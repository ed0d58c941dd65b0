------------------------------ MODULE AddrMan ------------------------------
(***************************************************************************)
(* The address manager CAddrMan: the table of known peers, its buckets of  *)
(* addresses not yet tried ("new") and of addresses that answered          *)
(* ("tried"), its indexes, and peers.dat.                                  *)
(*                                                                         *)
(* Every operation holds the lock cs, so operations do not interleave. The *)
(* loops in them call MilliSleep, where a shutdown ends the thread: an     *)
(* operation is cut short, the lock is released and Shutdown then saves    *)
(* what it finds. So a loop with such a call is modelled step by step.     *)
(*                                                                         *)
(* nTime, nLastTry and nAttempts only decide whether an entry IsTerrible   *)
(* and how likely it is to be selected; they are left out, and where they  *)
(* decide something it may go either way. A vector index i is i + 1 here.  *)
(***************************************************************************)
EXTENDS Naturals, Sequences, FiniteSets

CONSTANTS
    Service,                    \* addresses with their port
    Source,                     \* peers that tell of addresses
    Ip,                         \* Ip[s]: the address without its port
    NewBucketOf,                \* NewBucketOf[ip][src]: a hash of both groups
    TriedBucketOf,              \* TriedBucketOf[s]: a hash of address and group
    NewBucketCount,             \* ADDRMAN_NEW_BUCKET_COUNT
    TriedBucketCount,           \* ADDRMAN_TRIED_BUCKET_COUNT
    NewBucketSize,              \* ADDRMAN_NEW_BUCKET_SIZE
    TriedBucketSize,            \* ADDRMAN_TRIED_BUCKET_SIZE
    BucketsPerAddress,          \* ADDRMAN_NEW_BUCKETS_PER_ADDRESS
    InspectOnEvict,             \* ADDRMAN_TRIED_ENTRIES_INSPECT_ON_EVICT
    GetAddrPct,                 \* ADDRMAN_GETADDR_MAX_PCT
    GetAddrMax,                 \* ADDRMAN_GETADDR_MAX
    MaxTime,                    \* bound: times of a success are 1..MaxTime
    MaxIds                      \* bound: ids given out between two starts

NewBuckets == 1..NewBucketCount
TriedBuckets == 1..TriedBucketCount
Ips == {Ip[s] : s \in Service}

ASSUME AddrManAssumption ==
    /\ NewBucketCount \in Nat \ {0} /\ TriedBucketCount \in Nat \ {0}
    /\ NewBucketSize \in Nat \ {0} /\ TriedBucketSize \in Nat \ {0}
    /\ BucketsPerAddress \in Nat \ {0} /\ InspectOnEvict \in Nat \ {0}
    /\ GetAddrPct \in 0..100 /\ GetAddrMax \in Nat /\ MaxTime \in Nat /\ MaxIds \in Nat
    /\ Ip \in [Service -> Ips]
    /\ NewBucketOf \in [Ips -> [Source -> NewBuckets]]
    /\ TriedBucketOf \in [Service -> TriedBuckets]

VARIABLES
    am,         \* the CAddrMan object
    busy,       \* the loop that the holder of cs is in
    peers,      \* peers.dat, while the node is down
    node,       \* "running", "down", or "misread": running on a misread peers.dat
    cut         \* Add_ or MakeTried was cut short since the last empty table

addrVars == <<am, busy, peers, node, cut>>

Ids == 0..(MaxIds - 1)

\* CAddrMan::CAddrMan
EmptyAddrMan ==
    [nIdCount |-> 0,
     mapInfo  |-> [n \in {} |-> 0],
     mapAddr  |-> [p \in {} |-> 0],
     vRandom  |-> << >>,
     nTried   |-> 0,
     vvTried  |-> [k \in TriedBuckets |-> << >>],
     nNew     |-> 0,
     vvNew    |-> [b \in NewBuckets |-> {}]]

Idle == [op |-> "idle"]
NoFile == [op |-> "none"]

\* What a read that fails has made of the object, and what is saved of that: counters
\* without entries, entries without a place in vRandom, buckets of any size. Nothing
\* is said of either.
HalfRead == [op |-> "halfread"]
UnknownFile == [op |-> "unknown"]

---------------------------------------------------------------------------
(***************************************************************************)
(* The private functions, as functions of the object.                      *)
(***************************************************************************)

\* Create: the new entry gets the id nIdCount and the last place of vRandom.
Create(a, s, src) ==
    LET info == [addr |-> s, source |-> src, nLastSuccess |-> 0, nRefCount |-> 0,
                 fInTried |-> FALSE, nRandomPos |-> Len(a.vRandom) + 1]
    IN  [a EXCEPT !.nIdCount = @ + 1,
                  !.mapInfo = [n \in DOMAIN @ \cup {a.nIdCount} |->
                                  IF n = a.nIdCount THEN info ELSE @[n]],
                  !.mapAddr = [p \in DOMAIN @ \cup {Ip[s]} |->
                                  IF p = Ip[s] THEN a.nIdCount ELSE @[p]],
                  !.vRandom = Append(@, a.nIdCount)]

\* SwapRandom
SwapRandom(a, i, j) ==
    [a EXCEPT !.mapInfo = [@ EXCEPT ![a.vRandom[i]].nRandomPos = j,
                                    ![a.vRandom[j]].nRandomPos = i],
              !.vRandom = [@ EXCEPT ![i] = a.vRandom[j], ![j] = a.vRandom[i]]]

\* Mutant: the last entry does not take the place of the one that goes.
EraseUnswapped(a, nId) ==
    [a EXCEPT !.mapInfo = [n \in DOMAIN @ \ {nId} |-> @[n]],
              !.mapAddr = [p \in DOMAIN @ \ {Ip[a.mapInfo[nId].addr]} |-> @[p]],
              !.vRandom = SubSeq(@, 1, Len(@) - 1),
              !.nNew = @ - 1]

\* The end of an entry without references: swap it to the end of vRandom, pop.
Erase(a, nId) ==
    LET c == SwapRandom(a, a.mapInfo[nId].nRandomPos, Len(a.vRandom))
    IN  [c EXCEPT !.mapInfo = [n \in DOMAIN @ \ {nId} |-> @[n]],
                  !.mapAddr = [p \in DOMAIN @ \ {Ip[a.mapInfo[nId].addr]} |-> @[p]],
                  !.vRandom = SubSeq(@, 1, Len(@) - 1),
                  !.nNew = @ - 1]

\* Mutant: the bucket keeps the entry.
ShrinkNewStays(a, b, nId) ==
    LET c == [a EXCEPT !.mapInfo[nId].nRefCount = @ - 1]
    IN  IF c.mapInfo[nId].nRefCount = 0 THEN Erase(c, nId) ELSE c

\* ShrinkNew: one entry leaves the bucket, the first terrible one in the order of
\* the ids or the oldest of four picked at random (which may be the same one four
\* times). Any of them can be the one.
ShrinkNew(a, b, nId) ==
    LET c == [a EXCEPT !.mapInfo[nId].nRefCount = @ - 1, !.vvNew[b] = @ \ {nId}]
    IN  IF c.mapInfo[nId].nRefCount = 0 THEN Erase(c, nId) ELSE c

\* Mutant: the entry is not counted.
PushTriedUncounted(a, k, nId) ==
    [a EXCEPT !.vvTried[k] = Append(@, nId),
              !.mapInfo[nId].fInTried = TRUE]

\* The last lines of MakeTried, when the bucket has room.
PushTried(a, k, nId) ==
    [a EXCEPT !.vvTried[k] = Append(@, nId),
              !.nTried = @ + 1,
              !.mapInfo[nId].fInTried = TRUE]

\* Mutant: the evicted entry always goes back to its own bucket.
EvictToOwnBucket(a, k, nPos, nId, nOrigin) ==
    LET old == a.vvTried[k][nPos]
        info == a.mapInfo[old]
    IN  [a EXCEPT !.mapInfo = [@ EXCEPT ![old].fInTried = FALSE, ![old].nRefCount = 1,
                                        ![nId].fInTried = TRUE],
                  !.vvNew[NewBucketOf[Ip[info.addr]][info.source]] = @ \cup {old},
                  !.nNew = @ + 1,
                  !.vvTried[k] = [@ EXCEPT ![nPos] = nId]]

\* Mutant: the evicted entry goes nowhere when its own bucket is full.
EvictIfRoom(a, k, nPos, nId, nOrigin) ==
    LET old == a.vvTried[k][nPos]
        info == a.mapInfo[old]
        own == NewBucketOf[Ip[info.addr]][info.source]
    IN  [a EXCEPT !.mapInfo = [@ EXCEPT ![old].fInTried = FALSE, ![old].nRefCount = 1,
                                        ![nId].fInTried = TRUE],
                  !.vvNew[own] = IF Cardinality(@) < NewBucketSize THEN @ \cup {old} ELSE @,
                  !.nNew = @ + 1,
                  !.vvTried[k] = [@ EXCEPT ![nPos] = nId]]

\* The last lines of MakeTried, when an entry has to go back to the new buckets:
\* to its own, or if that is full to the one that nId came from.
Evict(a, k, nPos, nId, nOrigin) ==
    LET old == a.vvTried[k][nPos]
        info == a.mapInfo[old]
        own == NewBucketOf[Ip[info.addr]][info.source]
        nUBucket == IF Cardinality(a.vvNew[own]) < NewBucketSize THEN own ELSE nOrigin
    IN  [a EXCEPT !.mapInfo = [@ EXCEPT ![old].fInTried = FALSE, ![old].nRefCount = 1,
                                        ![nId].fInTried = TRUE],
                  !.vvNew[nUBucket] = @ \cup {old},
                  !.nNew = @ + 1,
                  !.vvTried[k] = [@ EXCEPT ![nPos] = nId]]

---------------------------------------------------------------------------
(***************************************************************************)
(* Add.                                                                    *)
(***************************************************************************)

\* cs is free, no operation under way.
Free == node = "running" /\ busy = Idle

\* The bucket part of Add_: nRefCount is raised before ShrinkNew makes room.
AddToBucket(a, b, nId) ==
    LET c == [a EXCEPT !.mapInfo[nId].nRefCount = @ + 1]
    IN  IF Cardinality(a.vvNew[b]) = NewBucketSize
        THEN /\ am' = c
             /\ busy' = [op |-> "shrink", nId |-> nId, b |-> b]
        ELSE /\ am' = [c EXCEPT !.vvNew[b] = @ \cup {nId}]
             /\ UNCHANGED busy

AddNew(s, src) ==
    /\ Free
    /\ Ip[s] \notin DOMAIN am.mapAddr
    /\ am.nIdCount < MaxIds
    /\ LET a == [Create(am, s, src) EXCEPT !.nNew = @ + 1]
       IN  AddToBucket(a, NewBucketOf[Ip[s]][src], am.nIdCount)
    /\ UNCHANGED <<peers, node, cut>>

\* An address heard of again gets one more bucket, if the news is recent and the
\* stochastic test succeeds.
AddAgain(s, src) ==
    /\ Free
    /\ Ip[s] \in DOMAIN am.mapAddr
    /\ LET nId == am.mapAddr[Ip[s]]
           b == NewBucketOf[Ip[s]][src]
       IN  /\ ~am.mapInfo[nId].fInTried
           /\ am.mapInfo[nId].nRefCount # BucketsPerAddress
           /\ nId \notin am.vvNew[b]
           /\ AddToBucket(am, b, nId)
    /\ UNCHANGED <<peers, node, cut>>

\* ShrinkNew after its loops, and the insertion that waited for it.
AddShrunk ==
    /\ node = "running" /\ busy.op = "shrink"
    /\ \E nId \in am.vvNew[busy.b] :
          am' = [ShrinkNew(am, busy.b, nId) EXCEPT !.vvNew[busy.b] = @ \cup {busy.nId}]
    /\ busy' = Idle
    /\ UNCHANGED <<peers, node, cut>>

---------------------------------------------------------------------------
(***************************************************************************)
(* Good and MakeTried.                                                     *)
(***************************************************************************)

\* Good_ up to MakeTried. The search for a bucket starts at a random one.
Good(s, nTime) ==
    /\ Free
    /\ Ip[s] \in DOMAIN am.mapAddr
    /\ LET nId == am.mapAddr[Ip[s]]
           InBuckets == {b \in NewBuckets : nId \in am.vvNew[b]}
       IN  /\ am.mapInfo[nId].addr = s
           /\ am' = [am EXCEPT !.mapInfo[nId].nLastSuccess = nTime]
           /\ IF am.mapInfo[nId].fInTried \/ InBuckets = {}
              THEN UNCHANGED busy
              ELSE \E nOrigin \in InBuckets :
                       busy' = [op |-> "unlink", nId |-> nId, nOrigin |-> nOrigin, b |-> 1]
    /\ UNCHANGED <<peers, node, cut>>

\* One turn of the loop that takes the entry out of the new buckets.
UnlinkBucket ==
    /\ node = "running" /\ busy.op = "unlink" /\ busy.b \in NewBuckets
    /\ am' = IF busy.nId \in am.vvNew[busy.b]
             THEN [am EXCEPT !.mapInfo[busy.nId].nRefCount = @ - 1,
                             !.vvNew[busy.b] = @ \ {busy.nId}]
             ELSE am
    /\ busy' = [busy EXCEPT !.b = @ + 1]
    /\ UNCHANGED <<peers, node, cut>>

\* After the loop: a place in the tried bucket, or the search for an entry to evict.
MakeTried ==
    /\ node = "running" /\ busy.op = "unlink" /\ busy.b = NewBucketCount + 1
    /\ LET k == TriedBucketOf[am.mapInfo[busy.nId].addr]
           a == [am EXCEPT !.nNew = @ - 1]
       IN  IF Len(am.vvTried[k]) < TriedBucketSize
           THEN /\ am' = PushTried(a, k, busy.nId)
                /\ busy' = Idle
           ELSE /\ am' = a
                /\ busy' = [op |-> "select", nId |-> busy.nId, nOrigin |-> busy.nOrigin,
                            k |-> k, i |-> 1, nOldest |-> busy.nId, nOldestPos |-> 0]
    /\ UNCHANGED <<peers, node, cut>>

\* One turn of the loop of SelectTried. It remembers the place that the entry it
\* looks at had before the swap.
SelectTried ==
    /\ node = "running" /\ busy.op = "select"
    /\ LET v == am.vvTried[busy.k]
           i == busy.i
       IN  /\ i <= InspectOnEvict /\ i <= Len(v)
           /\ \E nPos \in i..Len(v) :
                 /\ am' = [am EXCEPT !.vvTried[busy.k] =
                                         [v EXCEPT ![nPos] = v[i], ![i] = v[nPos]]]
                 /\ busy' = IF \/ busy.nOldestPos = 0
                               \/ am.mapInfo[v[nPos]].nLastSuccess <
                                      am.mapInfo[busy.nOldest].nLastSuccess
                            THEN [busy EXCEPT !.i = @ + 1, !.nOldest = v[nPos],
                                              !.nOldestPos = nPos]
                            ELSE [busy EXCEPT !.i = @ + 1]
    /\ UNCHANGED <<peers, node, cut>>

EvictTried ==
    /\ node = "running" /\ busy.op = "select"
    /\ busy.i > InspectOnEvict \/ busy.i > Len(am.vvTried[busy.k])
    /\ am' = Evict(am, busy.k, busy.nOldestPos, busy.nId, busy.nOrigin)
    /\ busy' = Idle
    /\ UNCHANGED <<peers, node, cut>>

---------------------------------------------------------------------------
(***************************************************************************)
(* GetAddr.                                                                *)
(***************************************************************************)

nNodes == LET n == (GetAddrPct * Len(am.vRandom)) \div 100
          IN  IF n > GetAddrMax THEN GetAddrMax ELSE n

\* One turn of the loop: GetAddr puts nNodes random entries in front.
GetAddr ==
    /\ (Free /\ nNodes > 0) \/ (node = "running" /\ busy.op = "getaddr")
    /\ LET n == IF busy = Idle THEN 1 ELSE busy.n
       IN  /\ \E nRndPos \in n..Len(am.vRandom) :
                 am' = IF n = nRndPos THEN am ELSE SwapRandom(am, n, nRndPos)
           /\ busy' = IF n < nNodes THEN [op |-> "getaddr", n |-> n + 1] ELSE Idle
    /\ UNCHANGED <<peers, node, cut>>

---------------------------------------------------------------------------
(***************************************************************************)
(* peers.dat.                                                              *)
(***************************************************************************)

\* The entries of S in the order of mapInfo.
InOrder(S) == [k \in 1..Cardinality(S) |->
                  CHOOSE n \in S : Cardinality({m \in S : m < n}) = k - 1]

Front(s, n) == SubSeq(s, 1, IF n < Len(s) THEN n ELSE Len(s))

\* What is kept of an entry.
Saved(info) == [addr |-> info.addr, source |-> info.source, nLastSuccess |-> info.nLastSuccess]

\* Mutant: every entry is counted, not only the new ones.
mapUnkIdsOfAll(a, nId) == Cardinality({n \in DOMAIN a.mapInfo : n < nId})

\* The index under which the buckets in the file name an entry.
mapUnkIds(a, nId) ==
    Cardinality({n \in DOMAIN a.mapInfo : n < nId /\ a.mapInfo[n].nRefCount # 0})

\* Writing: nNew and nTried as they are, then at most that many entries.
Serialize(a) ==
    LET new == Front(InOrder({n \in DOMAIN a.mapInfo : a.mapInfo[n].nRefCount # 0}), a.nNew)
        tried == Front(InOrder({n \in DOMAIN a.mapInfo : a.mapInfo[n].fInTried}), a.nTried)
    IN  [op |-> "saved", nNew |-> a.nNew, nTried |-> a.nTried,
         new |-> [k \in DOMAIN new |-> Saved(a.mapInfo[new[k]])],
         tried |-> [k \in DOMAIN tried |-> Saved(a.mapInfo[tried[k]])],
         vvNew |-> [b \in NewBuckets |-> {mapUnkIds(a, n) : n \in a.vvNew[b]}]]

\* Reading: the tried entries that find room in their bucket.
KeptTried(f) ==
    LET Bucket(j) == TriedBucketOf[f.tried[j].addr]
    IN  InOrder({j \in 1..f.nTried :
                    Cardinality({l \in 1..(j - 1) : Bucket(l) = Bucket(j)}) < TriedBucketSize})

\* The entry that gets the id n: new entries come first, then the tried ones kept.
LoadedEntry(f, n) == IF n < f.nNew THEN f.new[n + 1] ELSE f.tried[KeptTried(f)[n - f.nNew + 1]]

\* A new entry is put in the first of its buckets, as many as are allowed.
LoadedBuckets(f) ==
    [b \in NewBuckets |-> {n \in f.vvNew[b] :
        Cardinality({c \in 1..(b - 1) : n \in f.vvNew[c]}) < BucketsPerAddress}]

\* The object that is read: vRandom and the tried buckets are in the order of the ids.
Deserialize(f) ==
    LET size == f.nNew + Len(KeptTried(f))
        Info(n) == LoadedEntry(f, n)
        vvNew == LoadedBuckets(f)
    IN  [nIdCount |-> size,
         mapInfo  |-> [n \in 0..(size - 1) |->
                          [addr |-> Info(n).addr, source |-> Info(n).source,
                           nLastSuccess |-> Info(n).nLastSuccess,
                           nRefCount |-> Cardinality({b \in NewBuckets : n \in vvNew[b]}),
                           fInTried |-> n >= f.nNew,
                           nRandomPos |-> n + 1]],
         mapAddr  |-> [p \in {Ip[Info(n).addr] : n \in 0..(size - 1)} |->
                          CHOOSE n \in 0..(size - 1) : Ip[Info(n).addr] = p],
         vRandom  |-> [k \in 1..size |-> k - 1],
         nTried   |-> Len(KeptTried(f)),
         vvTried  |-> [k \in TriedBuckets |->
                          InOrder({n \in f.nNew..(size - 1) : TriedBucketOf[Info(n).addr] = k})],
         nNew     |-> f.nNew,
         vvNew    |-> vvNew]

\* StopNode: the threads have been interrupted, each at its next MilliSleep, and
\* DumpAddresses writes what is there. peers.dat of an earlier DumpAddresses, which
\* a crash or RefreshRecentConnections reads, is one that this action wrote then.
Shutdown ==
    /\ node \in {"running", "misread"}
    /\ peers' = IF node = "running" THEN Serialize(am) ELSE UnknownFile
    /\ node' = "down"
    /\ cut' = (cut \/ busy.op \in {"shrink", "unlink"})
    /\ am' = EmptyAddrMan
    /\ busy' = Idle

\* The file announces as many entries as it holds.
Readable ==
    /\ peers.op = "saved"
    /\ peers.nNew = Len(peers.new) /\ peers.nTried = Len(peers.tried)

Start ==
    /\ node = "down" /\ Readable
    /\ am' = Deserialize(peers)
    /\ node' = "running"
    /\ peers' = NoFile
    /\ UNCHANGED <<busy, cut>>

\* Else what follows the entries is read as entries. The read goes into the object
\* itself: whether it throws or not, the node runs on with what it has become.
StartMisread ==
    /\ node = "down" /\ ~Readable
    /\ am' = HalfRead
    /\ node' = "misread"
    /\ peers' = NoFile
    /\ UNCHANGED <<busy, cut>>

\* A start without peers.dat, which nothing but the user removes.
StartEmpty ==
    /\ node = "down"
    /\ am' = EmptyAddrMan
    /\ node' = "running"
    /\ peers' = NoFile
    /\ cut' = FALSE
    /\ UNCHANGED busy

---------------------------------------------------------------------------

AddrInit ==
    /\ am = EmptyAddrMan
    /\ busy = Idle
    /\ peers = NoFile
    /\ node = "running"
    /\ cut = FALSE

AddrNext ==
    \/ \E s \in Service, src \in Source : AddNew(s, src) \/ AddAgain(s, src)
    \/ AddShrunk
    \/ \E s \in Service, nTime \in 1..MaxTime : Good(s, nTime)
    \/ UnlinkBucket
    \/ MakeTried
    \/ SelectTried
    \/ EvictTried
    \/ GetAddr
    \/ Shutdown
    \/ Start
    \/ StartMisread
    \/ StartEmpty

AddrSpec == AddrInit /\ [][AddrNext]_addrVars

---------------------------------------------------------------------------
(***************************************************************************)
(* Properties.                                                             *)
(***************************************************************************)

Entry == DOMAIN am.mapInfo
TriedEntries == {n \in Entry : am.mapInfo[n].fInTried}
BucketsOf(n) == {b \in NewBuckets : n \in am.vvNew[b]}

InfoType == [addr : Service, source : Source, nLastSuccess : 0..MaxTime, nRefCount : Nat,
             fInTried : BOOLEAN, nRandomPos : Nat \ {0}]

\* The object holds what its C++ types allow, and ids in use are below nIdCount,
\* as long as every peers.dat was readable.
AddrTypeOK ==
    /\ node \in {"running", "down", "misread"} /\ cut \in BOOLEAN
    /\ node # "misread" =>
           /\ am.nIdCount \in 0..MaxIds
           /\ Entry \subseteq 0..(am.nIdCount - 1)
           /\ am.mapInfo \in [Entry -> InfoType]
           /\ DOMAIN am.mapAddr \subseteq Ips
           /\ am.mapAddr \in [DOMAIN am.mapAddr -> Entry]
           /\ am.vRandom \in Seq(Entry)
           /\ am.nTried \in Nat /\ am.nNew \in Nat
           /\ am.vvTried \in [TriedBuckets -> Seq(Entry)]
           /\ am.vvNew \in [NewBuckets -> SUBSET Entry]

\* mapInfo, mapAddr and vRandom are three views of the same entries: SwapRandom never
\* meets an id that is not there. So it is in the middle of an operation, and in a
\* table that was saved in the middle of one, read and worked on; only a peers.dat
\* that cannot be read ends it.
IndexesAgree ==
    node # "misread" =>
        /\ \A n \in Entry : LET ip == Ip[am.mapInfo[n].addr] IN
               /\ ip \in DOMAIN am.mapAddr
               /\ am.mapAddr[ip] = n
               /\ am.mapInfo[n].nRandomPos \in DOMAIN am.vRandom
               /\ am.vRandom[am.mapInfo[n].nRandomPos] = n
        /\ Len(am.vRandom) = Cardinality(Entry)
        /\ Cardinality(DOMAIN am.mapAddr) = Cardinality(Entry)

\* What Check_() checks holds between two operations: counters, reference counts,
\* buckets and flags agree. A shutdown that cuts Add_ or MakeTried short does one
\* harm to a table that is read again: an entry may be in no bucket at all, and is
\* still counted. A shutdown in SelectTried does none.
CheckPasses ==
    Free =>
        /\ Len(am.vRandom) = am.nTried + am.nNew
        /\ am.nTried = Cardinality(TriedEntries)
        /\ am.nNew = Cardinality(Entry \ TriedEntries)
        /\ \A n \in TriedEntries :
               /\ am.mapInfo[n].nLastSuccess # 0
               /\ am.mapInfo[n].nRefCount = 0
               /\ BucketsOf(n) = {}
               /\ Cardinality({p \in TriedBuckets \X (1..TriedBucketSize) :
                        p[2] \in DOMAIN am.vvTried[p[1]] /\ am.vvTried[p[1]][p[2]] = n}) = 1
        /\ \A n \in Entry \ TriedEntries :
               /\ am.mapInfo[n].nRefCount <= BucketsPerAddress
               /\ am.mapInfo[n].nRefCount = Cardinality(BucketsOf(n))
               /\ cut \/ am.mapInfo[n].nRefCount # 0
        /\ \A k \in TriedBuckets : \A i \in DOMAIN am.vvTried[k] :
               am.vvTried[k][i] \in TriedEntries

\* No bucket grows over its size, as long as every peers.dat was readable; MakeTried
\* says of the bucket that nId came from that "there is certainly place there".
BucketsBounded ==
    node # "misread" =>
        /\ \A b \in NewBuckets : Cardinality(am.vvNew[b]) <= NewBucketSize
        /\ \A k \in TriedBuckets : Len(am.vvTried[k]) <= TriedBucketSize

\* Entries "are never deleted while in the tried table, only possibly evicted back
\* to the new table": a step of a running node keeps every tried address, and one
\* that leaves the tried table is in a new bucket at once.
TriedKept ==
    [][ node = "running" /\ node' = "running" =>
            \A n \in TriedEntries :
                /\ n \in DOMAIN am'.mapInfo
                /\ am'.mapInfo[n].fInTried \/ \E b \in NewBuckets : n \in am'.vvNew[b] ]_addrVars

\* What peers.dat is for: which addresses are known, how, from whom and where.
Content(a) ==
    [p \in DOMAIN a.mapAddr |->
        LET n == a.mapAddr[p]
        IN  <<Saved(a.mapInfo[n]), a.mapInfo[n].fInTried,
              {b \in NewBuckets : n \in a.vvNew[b]}>>]

\* A node that is shut down between two operations knows the same addresses in
\* the same buckets when it is started again, although ids, vRandom and the
\* tried buckets are rebuilt and the file names entries by index.
RestartKeeps ==
    [][ node = "running" /\ node' = "down" /\ busy = Idle /\ ~cut =>
            /\ peers'.nNew = Len(peers'.new) /\ peers'.nTried = Len(peers'.tried)
            /\ Content(Deserialize(peers')) = Content(am) ]_addrVars
=============================================================================
