------------------------- MODULE BlockChain_proofs -------------------------
(***************************************************************************)
(* Proofs about BlockChain for every tree of blocks and every bound.       *)
(***************************************************************************)
EXTENDS BlockChain, SequenceTheorems, FiniteSetTheorems, TLAPS

---------------------------------------------------------------------------
(* The tree of blocks. *)

\* A chain ends in its block and is the predecessor's chain plus that block.
LEMMA ChainOf ==
    ASSUME NEW b \in Block
    PROVE  /\ Chain[b] \in Seq(Block)
           /\ Len(Chain[b]) \in Nat \ {0}
           /\ Chain[b][Len(Chain[b])] = b
           /\ b # Genesis => /\ Prev[b] \in Block
                             /\ Len(Chain[b]) = Len(Chain[Prev[b]]) + 1
           /\ b = Genesis => Len(Chain[b]) = 1
<1>1. CASE b = Genesis
  BY <1>1, TreeAssumption
<1>2. CASE b # Genesis
  <2>1. Prev[b] \in Block
    BY <1>2, TreeAssumption
  <2>2. Chain[Prev[b]] \in Seq(Block) /\ Chain[b] = Append(Chain[Prev[b]], b)
    BY <1>2, <2>1, TreeAssumption
  <2> QED
    BY <1>2, <2>1, <2>2
<1> QED
  BY <1>1, <1>2

\* The best chain of a block is that of its predecessor and the block itself.
LEMMA ChainSetStep ==
    ASSUME NEW b \in Block
    PROVE  ChainSet(b) = ChainSet(Prev[b]) \cup {b}
<1>1. CASE b = Genesis
  <2>1. Chain[b] = <<Genesis>> /\ Prev[b] = NoBlock /\ b # NoBlock
    BY <1>1, TreeAssumption
  <2> QED
    BY <1>1, <2>1 DEF ChainSet
<1>2. CASE b # Genesis
  <2>1. Prev[b] \in Block /\ Prev[b] # NoBlock /\ b # NoBlock
    BY <1>2, TreeAssumption
  <2>2. Chain[Prev[b]] \in Seq(Block) /\ Chain[b] = Append(Chain[Prev[b]], b)
    BY <1>2, <2>1, TreeAssumption
  <2>3. /\ Len(Chain[b]) = Len(Chain[Prev[b]]) + 1
        /\ Len(Chain[Prev[b]]) \in Nat
        /\ \A i \in 1..Len(Chain[Prev[b]]) : Chain[b][i] = Chain[Prev[b]][i]
        /\ Chain[b][Len(Chain[Prev[b]]) + 1] = b
    BY <2>2
  <2>4. ChainSet(b) = {Chain[b][i] : i \in 1..Len(Chain[b])}
    BY <2>1 DEF ChainSet
  <2>5. ChainSet(Prev[b]) = {Chain[Prev[b]][i] : i \in 1..Len(Chain[Prev[b]])}
    BY <2>1 DEF ChainSet
  <2>6. ASSUME NEW x \in ChainSet(b) PROVE x \in ChainSet(Prev[b]) \cup {b}
    <3>1. PICK i \in 1..Len(Chain[b]) : x = Chain[b][i]
      BY <2>4, <2>6
    <3>2. CASE i = Len(Chain[Prev[b]]) + 1
      BY <3>1, <3>2, <2>3
    <3>3. CASE i \in 1..Len(Chain[Prev[b]])
      BY <3>1, <3>3, <2>3, <2>5
    <3> QED
      BY <3>2, <3>3, <2>3
  <2>7. ASSUME NEW x \in ChainSet(Prev[b]) \cup {b} PROVE x \in ChainSet(b)
    <3>1. CASE x = b
      BY <3>1, <2>3, <2>4
    <3>2. CASE x \in ChainSet(Prev[b])
      <4>1. PICK i \in 1..Len(Chain[Prev[b]]) : x = Chain[Prev[b]][i]
        BY <2>5, <3>2
      <4>2. i \in 1..Len(Chain[b]) /\ x = Chain[b][i]
        BY <4>1, <2>3
      <4> QED
        BY <4>2, <2>4
    <3> QED
      BY <2>7, <3>1, <3>2
  <2> QED
    BY <2>6, <2>7
<1> QED
  BY <1>1, <1>2

\* No block of a chain is higher than the chain's last block.
LEMMA ChainSetHeight ==
    ASSUME NEW c \in Block, NEW b \in ChainSet(c)
    PROVE  b \in Block /\ Len(Chain[b]) <= Len(Chain[c])
<1>1. c # NoBlock /\ Chain[c] \in Seq(Block)
  BY TreeAssumption
<1>2. PICK i \in 1..Len(Chain[c]) : b = Chain[c][i]
  BY <1>1 DEF ChainSet
<1>3. Len(Chain[c]) \in Nat /\ b \in Block
  BY <1>1, <1>2
<1>4. Len(Chain[b]) = i
  BY <1>2, TreeAssumption
<1> QED
  BY <1>2, <1>3, <1>4

\* Startup never moves the best block: the block before a bad block of the
\* window does not follow the best block, and SetBestChain asks for that.
LEMMA VerifyKeepsBest ==
    ASSUME diskBest \in Block
    PROVE  BestAfterVerify = diskBest
<1>1. diskBest # NoBlock
  BY TreeAssumption
<1>2. ASSUME NEW b \in VerifyWindow
      PROVE  Prev[Prev[b]] # diskBest
  <2>1. PICK i \in 2..Len(Chain[diskBest]) : b = Chain[diskBest][i]
    BY <1>2 DEF VerifyWindow
  <2>2. Len(Chain[diskBest]) \in Nat /\ Chain[diskBest] \in Seq(Block)
    BY ChainOf
  <2>3. b \in Block /\ Len(Chain[b]) = i
    BY <2>1, <2>2, TreeAssumption
  <2>4. b # Genesis
    BY <2>1, <2>2, <2>3, ChainOf
  <2>5. Prev[b] \in Block /\ Len(Chain[Prev[b]]) = i - 1
    BY <2>1, <2>2, <2>3, <2>4, ChainOf
  <2>6. CASE Prev[b] = Genesis
    BY <2>6, <1>1, TreeAssumption
  <2>7. CASE Prev[b] # Genesis
    BY <2>1, <2>2, <2>5, <2>7, ChainOf
  <2> QED
    BY <2>6, <2>7
<1>3. ~ \E f \in pindexFork : Prev[f] = diskBest
  BY <1>2 DEF pindexFork
<1> QED
  BY <1>3 DEF BestAfterVerify

---------------------------------------------------------------------------
(* The inductive invariant. *)

\* None of the parts is inductive alone: the links need the place of the block
\* in flight, that needs the agreement of memory and disk, and this the links.
Inv ==
    /\ TypeOK
    /\ DiskConsistent
    /\ HeightAndTrust
    /\ BestAgrees
    /\ PnextOnlyOnMainChain
    /\ TxRecordsMatchLinks
    /\ BestChainIndexed
    /\ FlightConsistent

\* The empty disk of a new installation satisfies the invariant.
LEMMA InitInv == Init => Inv
<1> SUFFICES ASSUME Init PROVE Inv
  OBVIOUS
<1>1. NoBlock \notin Block
  BY TreeAssumption
<1>2. ChainSet(NoBlock) = {}
  BY DEF ChainSet
<1>3. TypeOK
  <2>1. fRequestShutdown \in BOOLEAN
    BY DEF Init
  <2>2. /\ diskIndex \in [DOMAIN diskIndex -> DiskEntry]
        /\ mapBlockIndex \in [DOMAIN mapBlockIndex -> IndexEntry]
    BY DEF Init
  <2>3. crashes \in 0..MaxCrashes /\ shutdowns \in 0..MaxShutdowns /\ faults \in 0..MaxFaults
    BY BoundsAssumption DEF Init
  <2> QED
    BY <1>1, <2>1, <2>2, <2>3 DEF Init, TypeOK
<1>4. DiskConsistent /\ HeightAndTrust /\ BestAgrees /\ PnextOnlyOnMainChain
  BY DEF Init, DiskConsistent, HeightAndTrust, BestAgrees, PnextOnlyOnMainChain
<1>5. TxRecordsMatchLinks /\ BestChainIndexed /\ FlightConsistent
  BY <1>2 DEF Init, TxRecordsMatchLinks, BestChainIndexed, FlightConsistent
<1> QED
  BY <1>3, <1>4, <1>5 DEF Inv

\* A step that changes no block, link or record keeps the invariant.
LEMMA UnchangedInv ==
    ASSUME Inv, UNCHANGED <<disk, status, memory, pc, cur>>,
           fRequestShutdown' \in BOOLEAN, crashes' \in 0..MaxCrashes,
           shutdowns' \in 0..MaxShutdowns, faults' \in 0..MaxFaults
    PROVE  Inv'
<1> USE DEF disk, memory
<1>1. TypeOK'
  <2>1. fRequestShutdown' \in BOOLEAN
    OBVIOUS
  <2>2. /\ diskIndex' \in [DOMAIN diskIndex' -> DiskEntry]
        /\ mapBlockIndex' \in [DOMAIN mapBlockIndex' -> IndexEntry]
    BY DEF Inv, TypeOK
  <2> QED
    BY <2>1, <2>2 DEF Inv, TypeOK
<1>2. DiskConsistent' /\ HeightAndTrust'
  BY DEF Inv, DiskConsistent, HeightAndTrust
<1>4. BestAgrees'
  BY DEF Inv, BestAgrees
<1>5. PnextOnlyOnMainChain'
  <2>1. UNCHANGED ChainSet(hashBestChain) /\ UNCHANGED ChainSet(diskBest)
    BY DEF ChainSet
  <2> QED
    BY <2>1 DEF Inv, PnextOnlyOnMainChain
<1>3. TxRecordsMatchLinks' /\ BestChainIndexed' /\ FlightConsistent'
  BY DEF Inv, TxRecordsMatchLinks, BestChainIndexed, FlightConsistent, ChainSet
<1> QED
  BY <1>1, <1>2, <1>3, <1>4, <1>5 DEF Inv

\* The end of the process: what is left is what the disk holds.
LEMMA ProcessEndsInv ==
    ASSUME Inv, ProcessEnds, crashes' \in 0..MaxCrashes,
           shutdowns' \in 0..MaxShutdowns, faults' \in 0..MaxFaults
    PROVE  Inv'
<1> USE DEF ProcessEnds, disk
<1>1. NoBlock \notin Block
  BY TreeAssumption
<1>2. ChainSet(NoBlock) = {}
  BY DEF ChainSet
<1>3. TypeOK'
  <2>1. fRequestShutdown' \in BOOLEAN
    OBVIOUS
  <2>2. diskIndex' \in [DOMAIN diskIndex' -> DiskEntry]
    BY DEF Inv, TypeOK
  <2>3. mapBlockIndex' \in [DOMAIN mapBlockIndex' -> IndexEntry]
    OBVIOUS
  <2> QED
    BY <1>1, <2>1, <2>2, <2>3 DEF Inv, TypeOK
<1>4. DiskConsistent' /\ HeightAndTrust' /\ BestAgrees'
  BY DEF Inv, DiskConsistent, HeightAndTrust, BestAgrees
<1>5. PnextOnlyOnMainChain' /\ TxRecordsMatchLinks'
  <2>1. UNCHANGED ChainSet(diskBest)
    BY DEF ChainSet
  <2> QED
    BY <2>1 DEF Inv, PnextOnlyOnMainChain, TxRecordsMatchLinks
<1>6. BestChainIndexed' /\ FlightConsistent'
  BY <1>2 DEF Inv, BestChainIndexed, FlightConsistent, ChainSet
<1> QED
  BY <1>3, <1>4, <1>5, <1>6 DEF Inv

\* LoadBlockIndex rebuilds in memory what the disk holds.
LEMMA LoadBlockIndexInv == Inv /\ LoadBlockIndex => Inv'
<1> SUFFICES ASSUME Inv, LoadBlockIndex PROVE Inv'
  OBVIOUS
<1> USE DEF LoadBlockIndex, disk, bounds
<1>1. NoBlock \notin Block /\ diskBest \in Block /\ diskBest \in DOMAIN diskIndex
  BY TreeAssumption DEF Inv, TypeOK, DiskConsistent
<1>2. BestAfterVerify = diskBest
  BY <1>1, VerifyKeepsBest
<1>3. LoadedBlocks = DOMAIN diskIndex
  <2>1. \A b \in DOMAIN diskIndex : b \in Block /\ b # NoBlock
    BY <1>1 DEF Inv, TypeOK
  <2>2. \A b \in DOMAIN diskIndex : Prev[b] \in DOMAIN diskIndex \cup {NoBlock}
    BY <2>1, TreeAssumption DEF Inv, DiskConsistent
  <2>3. \A b \in DOMAIN diskIndex : diskIndex[b].hashNext \in DOMAIN diskIndex \cup {NoBlock}
    BY DEF Inv, DiskConsistent
  <2> QED
    BY <2>1, <2>2, <2>3 DEF LoadedBlocks
<1>4. /\ DOMAIN mapBlockIndex' = DOMAIN diskIndex
      /\ \A b \in DOMAIN diskIndex :
            mapBlockIndex'[b] = [nHeight     |-> diskIndex[b].nHeight,
                                 nChainTrust |-> Work[b],
                                 pnext       |-> diskIndex[b].hashNext]
      /\ mapBlockIndex' = [b \in DOMAIN diskIndex |-> mapBlockIndex'[b]]
  BY <1>3 DEF LoadedIndex
<1>5. hashBestChain' = diskBest
  BY <1>2
<1>6. pc = "idle" /\ cur = NoBlock
  BY DEF Inv, TypeOK, FlightConsistent
<1>7. TypeOK'
  <2>1. \A b \in DOMAIN diskIndex : mapBlockIndex'[b] \in IndexEntry
    BY <1>4, TreeAssumption DEF Inv, TypeOK, IndexEntry, DiskEntry
  <2>2. mapBlockIndex' \in [DOMAIN mapBlockIndex' -> IndexEntry]
    BY <1>4, <2>1
  <2> QED
    BY <1>1, <1>4, <1>5, <2>2 DEF Inv, TypeOK
<1>8. DiskConsistent' /\ BestAgrees' /\ TxRecordsMatchLinks'
  BY <1>5, <1>6 DEF Inv, DiskConsistent, BestAgrees, TxRecordsMatchLinks, ChainSet
<1>9. HeightAndTrust'
  BY <1>4 DEF Inv, HeightAndTrust
<1>10. PnextOnlyOnMainChain'
  BY <1>1, <1>4, <1>5 DEF Inv, PnextOnlyOnMainChain, ChainSet
<1>11. BestChainIndexed' /\ FlightConsistent'
  BY <1>1, <1>4, <1>5, <1>6 DEF Inv, BestChainIndexed, FlightConsistent, ChainSet
<1> QED
  BY <1>7, <1>8, <1>9, <1>10, <1>11 DEF Inv

\* The first start: only the block file changes.
LEMMA LoadEmptyBlockIndexInv == Inv /\ LoadEmptyBlockIndex => Inv'
<1> SUFFICES ASSUME Inv, LoadEmptyBlockIndex PROVE Inv'
  OBVIOUS
<1> USE DEF LoadEmptyBlockIndex, memory, bounds
<1>1. Genesis \in Block /\ NoBlock \notin Block /\ Prev[Genesis] = NoBlock
  BY TreeAssumption
<1>2. DOMAIN mapBlockIndex = {} /\ hashBestChain = NoBlock /\ diskBest = NoBlock
  BY DEF Inv, FlightConsistent, DiskConsistent
<1>3. UNCHANGED ChainSet(hashBestChain) /\ UNCHANGED ChainSet(diskBest)
  BY DEF ChainSet
<1>4. TypeOK'
  <2>1. /\ diskIndex' \in [DOMAIN diskIndex' -> DiskEntry]
        /\ mapBlockIndex' \in [DOMAIN mapBlockIndex' -> IndexEntry]
    BY DEF Inv, TypeOK
  <2>2. fRequestShutdown' \in BOOLEAN
    BY DEF Inv, TypeOK
  <2> QED
    BY <1>1, <2>1, <2>2 DEF Inv, TypeOK
<1>5. DiskConsistent' /\ HeightAndTrust' /\ BestAgrees'
  BY <1>2 DEF Inv, DiskConsistent, HeightAndTrust, BestAgrees
<1>6. PnextOnlyOnMainChain' /\ TxRecordsMatchLinks' /\ BestChainIndexed'
  BY <1>3 DEF Inv, PnextOnlyOnMainChain, TxRecordsMatchLinks, BestChainIndexed
<1>7. FlightConsistent'
  BY <1>1, <1>2 DEF Inv, FlightConsistent
<1> QED
  BY <1>4, <1>5, <1>6, <1>7 DEF Inv

\* AcceptBlock up to WriteToDisk: only the block file changes.
LEMMA AcceptBlockInv ==
    ASSUME Inv, NEW b \in Block, AcceptBlock(b)
    PROVE  Inv'
<1> USE DEF AcceptBlock, Acceptable, memory, bounds
<1>1. b # NoBlock
  BY TreeAssumption
<1>2. UNCHANGED ChainSet(hashBestChain) /\ UNCHANGED ChainSet(diskBest)
  BY DEF ChainSet
<1>3. TypeOK'
  <2>1. /\ diskIndex' \in [DOMAIN diskIndex' -> DiskEntry]
        /\ mapBlockIndex' \in [DOMAIN mapBlockIndex' -> IndexEntry]
    BY DEF Inv, TypeOK
  <2>2. fRequestShutdown' \in BOOLEAN
    BY DEF Inv, TypeOK
  <2> QED
    BY <1>1, <2>1, <2>2 DEF Inv, TypeOK
<1>4. DiskConsistent' /\ HeightAndTrust' /\ BestAgrees'
  BY DEF Inv, DiskConsistent, HeightAndTrust, BestAgrees
<1>5. PnextOnlyOnMainChain' /\ TxRecordsMatchLinks' /\ BestChainIndexed'
  BY <1>2 DEF Inv, PnextOnlyOnMainChain, TxRecordsMatchLinks, BestChainIndexed
<1>6. FlightConsistent'
  BY DEF Inv, FlightConsistent
<1> QED
  BY <1>3, <1>4, <1>5, <1>6 DEF Inv

\* The new entry has the height and the trust of its place in the tree.
LEMMA NewEntry ==
    ASSUME Inv, pc = "file"
    PROVE  /\ NewIndexEntry(cur) \in IndexEntry
           /\ NewIndexEntry(cur).nHeight = Len(Chain[cur]) - 1
           /\ NewIndexEntry(cur).nChainTrust = Work[cur]
           /\ NewIndexEntry(cur).pnext = NoBlock
           /\ cur \in Block \ DOMAIN mapBlockIndex
           /\ Prev[cur] # NoBlock => Prev[cur] \in DOMAIN mapBlockIndex
           /\ status = "running"
<1>1. status = "running" /\ cur \in Block \ DOMAIN mapBlockIndex /\ Prev[cur] = hashBestChain
  <2>1. status = "running"
    BY DEF Inv, TypeOK, FlightConsistent
  <2>2. cur # NoBlock
    BY DEF Inv, TypeOK
  <2> QED
    BY <2>1, <2>2 DEF Inv, TypeOK, FlightConsistent
<1>2. Work[cur] \in Nat /\ Len(Chain[cur]) \in Nat \ {0}
  BY <1>1, ChainOf, TreeAssumption
<1>3. CASE cur = Genesis
  <2>1. Prev[cur] = NoBlock /\ NoBlock \notin Block /\ Len(Chain[cur]) = 1
    BY <1>1, <1>3, ChainOf, TreeAssumption
  <2>2. Prev[cur] \notin DOMAIN mapBlockIndex
    BY <2>1 DEF Inv, TypeOK
  <2>3. NewIndexEntry(cur) = [nHeight |-> 0, nChainTrust |-> 0 + Work[cur], pnext |-> NoBlock]
    BY <1>3, <2>2 DEF NewIndexEntry, BlockTrust
  <2> QED
    BY <1>1, <1>2, <2>1, <2>3 DEF IndexEntry
<1>4. CASE cur # Genesis
  <2>1. Prev[cur] \in Block /\ Prev[cur] # NoBlock
    BY <1>1, <1>4, TreeAssumption
  <2>2. Prev[cur] \in DOMAIN mapBlockIndex
    <3>1. hashBestChain \in ChainSet(hashBestChain)
      BY <1>1, <2>1, ChainSetStep
    <3> QED
      BY <1>1, <3>1 DEF Inv, BestChainIndexed
  <2>3. /\ mapBlockIndex[Prev[cur]].nHeight = Len(Chain[Prev[cur]]) - 1
        /\ mapBlockIndex[Prev[cur]].nChainTrust = Work[Prev[cur]]
    BY <2>2 DEF Inv, HeightAndTrust
  <2>4. /\ Len(Chain[cur]) = Len(Chain[Prev[cur]]) + 1
        /\ Len(Chain[Prev[cur]]) \in Nat \ {0}
        /\ Work[Prev[cur]] \in Nat
    BY <1>1, <1>4, <2>1, ChainOf, TreeAssumption
  <2>5. NewIndexEntry(cur) = [nHeight     |-> (Len(Chain[Prev[cur]]) - 1) + 1,
                              nChainTrust |-> Work[Prev[cur]] + (Work[cur] - Work[Prev[cur]]),
                              pnext       |-> NoBlock]
    BY <1>4, <2>2, <2>3 DEF NewIndexEntry, BlockTrust
  <2>6. /\ (Len(Chain[Prev[cur]]) - 1) + 1 = Len(Chain[cur]) - 1
        /\ Work[Prev[cur]] + (Work[cur] - Work[Prev[cur]]) = Work[cur]
    BY <1>2, <2>4
  <2>7. NewIndexEntry(cur) = [nHeight     |-> Len(Chain[cur]) - 1,
                              nChainTrust |-> Work[cur],
                              pnext       |-> NoBlock]
    BY <2>5, <2>6
  <2>8. Len(Chain[cur]) - 1 \in Nat
    BY <1>2
  <2> QED
    BY <1>1, <1>2, <2>2, <2>7, <2>8 DEF IndexEntry
<1> QED
  BY <1>3, <1>4

\* A block that extends the best chain always has more trust than it.
LEMMA MoreTrust ==
    ASSUME Inv, pc = "file"
    PROVE  NewIndexEntry(cur).nChainTrust > nBestChainTrust
<1>1. /\ cur \in Block
      /\ NewIndexEntry(cur).nChainTrust = Work[cur]
      /\ Prev[cur] # NoBlock => Prev[cur] \in DOMAIN mapBlockIndex
      /\ Prev[cur] = hashBestChain
  BY NewEntry DEF Inv, FlightConsistent
<1>2. CASE cur = Genesis
  BY <1>1, <1>2, TreeAssumption DEF nBestChainTrust
<1>3. CASE cur # Genesis
  <2>1. Prev[cur] # NoBlock
    BY <1>1, <1>3, TreeAssumption
  <2>2. nBestChainTrust = Work[Prev[cur]]
    BY <1>1, <2>1 DEF nBestChainTrust, Inv, HeightAndTrust
  <2> QED
    BY <1>1, <1>3, <2>2, TreeAssumption
<1> QED
  BY <1>2, <1>3

\* AddToBlockIndex: the record of a block that nothing refers to yet.
LEMMA AddToBlockIndexInv == Inv /\ AddToBlockIndex => Inv'
<1> SUFFICES ASSUME Inv, AddToBlockIndex PROVE Inv'
  OBVIOUS
<1> USE DEF AddToBlockIndex, bounds
<1>1. /\ NewIndexEntry(cur) \in IndexEntry
      /\ NewIndexEntry(cur).nHeight = Len(Chain[cur]) - 1
      /\ NewIndexEntry(cur).nChainTrust = Work[cur]
      /\ NewIndexEntry(cur).pnext = NoBlock
      /\ cur \in Block \ DOMAIN mapBlockIndex
      /\ Prev[cur] # NoBlock => Prev[cur] \in DOMAIN mapBlockIndex
      /\ Prev[cur] = hashBestChain
      /\ cur \in blockFile
      /\ cur # NoBlock
  BY NewEntry, TreeAssumption DEF Inv, FlightConsistent
<1>2. pc' = "index" /\ cur' = cur
  BY MoreTrust
<1>3. UNCHANGED ChainSet(hashBestChain) /\ UNCHANGED ChainSet(diskBest)
  BY DEF ChainSet
<1>4. DOMAIN diskIndex \subseteq DOMAIN mapBlockIndex /\ cur \notin DOMAIN diskIndex
  BY <1>1 DEF Inv, FlightConsistent
<1>5. /\ DOMAIN mapBlockIndex' = DOMAIN mapBlockIndex \cup {cur}
      /\ mapBlockIndex'[cur] = NewIndexEntry(cur)
      /\ \A b \in DOMAIN mapBlockIndex : mapBlockIndex'[b] = mapBlockIndex[b]
      /\ mapBlockIndex' = [b \in DOMAIN mapBlockIndex \cup {cur} |-> mapBlockIndex'[b]]
  BY <1>1 DEF Insert
<1>6. /\ DOMAIN diskIndex' = DOMAIN diskIndex \cup {cur}
      /\ diskIndex'[cur] = [nHeight |-> Len(Chain[cur]) - 1, hashNext |-> NoBlock]
      /\ \A b \in DOMAIN diskIndex : diskIndex'[b] = diskIndex[b]
      /\ diskIndex' = [b \in DOMAIN diskIndex \cup {cur} |-> diskIndex'[b]]
  BY <1>1, <1>4 DEF Insert, NewDiskEntry
<1>7. Prev[cur] # NoBlock => Prev[cur] \in DOMAIN diskIndex
  <2>1. diskBest = Prev[cur]
    BY <1>1 DEF Inv, BestAgrees
  <2> QED
    BY <2>1 DEF Inv, DiskConsistent
<1>8. TypeOK'
  <2>1. mapBlockIndex' \in [DOMAIN mapBlockIndex' -> IndexEntry]
    BY <1>1, <1>5 DEF Inv, TypeOK
  <2>2. diskIndex'[cur] \in DiskEntry
    BY <1>1, <1>6, ChainOf DEF DiskEntry
  <2>3. diskIndex' \in [DOMAIN diskIndex' -> DiskEntry]
    BY <1>6, <2>2 DEF Inv, TypeOK
  <2>4. fRequestShutdown' \in BOOLEAN
    BY DEF Inv, TypeOK
  <2> QED
    BY <1>1, <1>2, <1>5, <1>6, <2>1, <2>3, <2>4 DEF Inv, TypeOK
<1>9. DiskConsistent'
  <2>1. diskBest = Prev[cur]
    BY <1>1 DEF Inv, BestAgrees
  <2> QED
    BY <1>1, <1>6, <1>7, <2>1, TreeAssumption DEF Inv, DiskConsistent
<1>10. HeightAndTrust'
  BY <1>1, <1>5, <1>6 DEF Inv, HeightAndTrust
<1>11. BestAgrees'
  BY <1>2 DEF Inv, BestAgrees
<1>12. PnextOnlyOnMainChain'
  <2>1. hashBestChain # cur /\ diskBest # cur
    <3>1. diskBest = Prev[cur]
      BY <1>1 DEF Inv, BestAgrees
    <3> QED
      BY <1>1, <3>1
  <2> QED
    BY <1>1, <1>3, <1>5, <1>6, <2>1 DEF Inv, PnextOnlyOnMainChain
<1>13. TxRecordsMatchLinks'
  <2>1. cur \notin txIndex
    BY <1>4 DEF Inv, TxRecordsMatchLinks, BestChainIndexed
  <2>2. ASSUME NEW b \in DOMAIN diskIndex' \ {Genesis}
        PROVE  b \in txIndex' <=> diskIndex'[Prev[b]].hashNext = b
    <3>1. CASE b = cur
      <4>1. Prev[cur] \in DOMAIN diskIndex
        BY <1>1, <1>7, <2>2, <3>1, TreeAssumption
      <4>2. diskIndex[Prev[cur]].hashNext # cur
        BY <1>1, <1>4, <4>1 DEF Inv, DiskConsistent
      <4> QED
        BY <1>6, <2>1, <3>1, <4>1, <4>2
    <3>2. CASE b # cur
      <4>1. b \in DOMAIN diskIndex \ {Genesis} /\ Prev[b] \in DOMAIN diskIndex
        BY <1>6, <2>2, <3>2 DEF Inv, DiskConsistent
      <4> QED
        BY <1>6, <4>1 DEF Inv, TxRecordsMatchLinks
    <3> QED
      BY <3>1, <3>2
  <2> QED
    BY <1>3, <2>2 DEF Inv, TxRecordsMatchLinks
<1>14. BestChainIndexed'
  BY <1>3, <1>5, <1>6 DEF Inv, BestChainIndexed
<1>15. FlightConsistent'
  BY <1>1, <1>2, <1>5, <1>6 DEF Inv, FlightConsistent
<1> QED
  BY <1>8, <1>9, <1>10, <1>11, <1>12, <1>13, <1>14, <1>15 DEF Inv

\* A failed commit of the index record leaves an entry in memory only.
LEMMA AddToBlockIndexFailsInv == Inv /\ AddToBlockIndexFails => Inv'
<1> SUFFICES ASSUME Inv, AddToBlockIndexFails PROVE Inv'
  OBVIOUS
<1> USE DEF AddToBlockIndexFails
<1>1. crashes' \in 0..MaxCrashes /\ shutdowns' \in 0..MaxShutdowns /\ faults' \in 0..MaxFaults
  BY BoundsAssumption DEF Inv, TypeOK
<1>2. CASE cur = Genesis /\ ProcessEnds
  BY <1>1, <1>2, ProcessEndsInv
<1>3. CASE cur # Genesis /\ ~ProcessEnds
  <2> USE <1>3 DEF disk
  <2>1. /\ NewIndexEntry(cur) \in IndexEntry
        /\ NewIndexEntry(cur).nHeight = Len(Chain[cur]) - 1
        /\ NewIndexEntry(cur).nChainTrust = Work[cur]
        /\ NewIndexEntry(cur).pnext = NoBlock
        /\ cur \in Block \ DOMAIN mapBlockIndex
        /\ Prev[cur] = hashBestChain
        /\ hashBestChain # NoBlock
    BY NewEntry, TreeAssumption DEF Inv, FlightConsistent
  <2>2. /\ DOMAIN mapBlockIndex' = DOMAIN mapBlockIndex \cup {cur}
        /\ mapBlockIndex'[cur] = NewIndexEntry(cur)
        /\ \A b \in DOMAIN mapBlockIndex : mapBlockIndex'[b] = mapBlockIndex[b]
        /\ mapBlockIndex' = [b \in DOMAIN mapBlockIndex \cup {cur} |-> mapBlockIndex'[b]]
    BY <2>1 DEF Insert
  <2>3. UNCHANGED ChainSet(hashBestChain) /\ UNCHANGED ChainSet(diskBest)
    BY DEF ChainSet
  <2>4. TypeOK'
    <3>1. mapBlockIndex' \in [DOMAIN mapBlockIndex' -> IndexEntry]
      BY <2>1, <2>2 DEF Inv, TypeOK
    <3>2. diskIndex' \in [DOMAIN diskIndex' -> DiskEntry] /\ fRequestShutdown' \in BOOLEAN
      BY DEF Inv, TypeOK
    <3> QED
      BY <1>1, <2>1, <2>2, <3>1, <3>2 DEF Inv, TypeOK
  <2>5. DiskConsistent' /\ BestAgrees'
    BY DEF Inv, DiskConsistent, BestAgrees
  <2>6. HeightAndTrust'
    BY <2>1, <2>2 DEF Inv, HeightAndTrust
  <2>7. PnextOnlyOnMainChain'
    BY <2>1, <2>2, <2>3 DEF Inv, PnextOnlyOnMainChain
  <2>8. TxRecordsMatchLinks' /\ BestChainIndexed'
    BY <2>2, <2>3 DEF Inv, TxRecordsMatchLinks, BestChainIndexed
  <2>9. FlightConsistent'
    BY <2>1, <2>2 DEF Inv, FlightConsistent
  <2> QED
    BY <2>4, <2>5, <2>6, <2>7, <2>8, <2>9 DEF Inv
<1> QED
  BY <1>1, <1>2, <1>3, ProcessEndsInv

\* SetBestChain: one batch moves the best block and, for a block that
\* connects, adds its transaction records together with the link to it.
LEMMA SetBestChainInv == Inv /\ SetBestChain => Inv'
<1> SUFFICES ASSUME Inv, SetBestChain PROVE Inv'
  OBVIOUS
<1> USE DEF SetBestChain, memory, bounds
<1>1. /\ cur \in Block /\ cur # NoBlock
      /\ status = "running"
      /\ Prev[cur] = hashBestChain
      /\ diskBest = Prev[cur]
      /\ cur \in DOMAIN diskIndex
      /\ cur \in DOMAIN mapBlockIndex
      /\ mapBlockIndex[cur].pnext = NoBlock
      /\ diskIndex[cur].hashNext = NoBlock
      /\ diskIndex[cur].nHeight = Len(Chain[cur]) - 1
      /\ mapBlockIndex[cur].nHeight = Len(Chain[cur]) - 1
  BY TreeAssumption DEF Inv, TypeOK, FlightConsistent, BestAgrees, HeightAndTrust
<1>2. UNCHANGED ChainSet(hashBestChain)
  BY DEF ChainSet
<1>3. ChainSet(diskBest)' = ChainSet(diskBest) \cup {cur}
  <2>1. ChainSet(diskBest)' = ChainSet(cur)
    BY DEF ChainSet
  <2> QED
    BY <1>1, <2>1, ChainSetStep
<1>4. cur # Genesis => /\ diskBest \in Block
                       /\ diskBest # cur
                       /\ diskBest \in DOMAIN diskIndex
                       /\ diskBest \in DOMAIN mapBlockIndex
                       /\ diskIndex[diskBest].nHeight = mapBlockIndex[diskBest].nHeight
                       /\ diskIndex[diskBest].hashNext = NoBlock
  <2>1. SUFFICES ASSUME cur # Genesis PROVE <1>4!2
    OBVIOUS
  <2>2. diskBest \in Block /\ diskBest # NoBlock
    BY <1>1, <2>1, TreeAssumption
  <2>3. diskBest # cur
    BY <1>1, <2>1, <2>2, ChainOf
  <2>4. diskBest \in DOMAIN diskIndex /\ diskBest \in DOMAIN mapBlockIndex
    BY <1>1, <2>2 DEF Inv, DiskConsistent, FlightConsistent
  <2> QED
    BY <2>2, <2>3, <2>4 DEF Inv, HeightAndTrust, PnextOnlyOnMainChain
<1> DEFINE link == cur # Genesis /\ Connects(cur)
<1>5. /\ DOMAIN diskIndex' = DOMAIN diskIndex
      /\ diskIndex' = [b \in DOMAIN diskIndex |-> diskIndex'[b]]
      /\ \A b \in DOMAIN diskIndex :
            /\ diskIndex'[b].nHeight = diskIndex[b].nHeight
            /\ diskIndex'[b].hashNext = IF link /\ b = diskBest THEN cur ELSE diskIndex[b].hashNext
            /\ diskIndex'[b] \in DiskEntry
  <2>1. CASE link
    <3>1. diskIndex' = [diskIndex EXCEPT ![cur] = DiskRecord(cur, mapBlockIndex[cur].pnext),
                                         ![Prev[cur]] = DiskRecord(Prev[cur], cur)]
      BY <2>1
    <3>2. \A b \in DOMAIN diskIndex : diskIndex[b] \in DiskEntry
      BY DEF Inv, TypeOK
    <3>3. diskIndex = [b \in DOMAIN diskIndex |-> diskIndex[b]]
      BY DEF Inv, TypeOK
    <3>4. DOMAIN diskIndex' = DOMAIN diskIndex
      BY <3>1
    <3>5. diskIndex'[cur] = [nHeight |-> diskIndex[cur].nHeight, hashNext |-> NoBlock]
      BY <1>1, <1>4, <2>1, <3>1 DEF DiskRecord
    <3>6. diskIndex'[diskBest] = [nHeight |-> diskIndex[diskBest].nHeight, hashNext |-> cur]
      BY <1>1, <1>4, <2>1, <3>1 DEF DiskRecord
    <3>7. \A b \in DOMAIN diskIndex \ {cur, diskBest} : diskIndex'[b] = diskIndex[b]
      BY <1>1, <3>1
    <3>8. diskIndex' = [b \in DOMAIN diskIndex |-> diskIndex'[b]]
      BY <3>1, <3>4
    <3> QED
      BY <1>1, <1>4, <2>1, <3>2, <3>4, <3>5, <3>6, <3>7, <3>8 DEF DiskEntry
  <2>2. CASE ~link
    BY <2>2 DEF Inv, TypeOK
  <2> QED
    BY <2>1, <2>2
<1>6. txIndex' = IF link THEN txIndex \cup {cur} ELSE txIndex
  OBVIOUS
<1> HIDE DEF link
<1>7. link => cur # Genesis
  BY DEF link
<1>8. TypeOK'
  <2>1. diskIndex' \in [DOMAIN diskIndex' -> DiskEntry]
    BY <1>5
  <2>2. mapBlockIndex' \in [DOMAIN mapBlockIndex' -> IndexEntry] /\ fRequestShutdown' \in BOOLEAN
    BY DEF Inv, TypeOK
  <2> QED
    BY <1>1, <1>5, <1>6, <2>1, <2>2 DEF Inv, TypeOK
<1>9. DiskConsistent'
  BY <1>1, <1>5 DEF Inv, DiskConsistent
<1>10. HeightAndTrust'
  BY <1>5 DEF Inv, HeightAndTrust
<1>11. BestAgrees'
  BY <1>1 DEF BestAgrees
<1>12. PnextOnlyOnMainChain'
  <2>1. \A b \in DOMAIN mapBlockIndex : mapBlockIndex[b].pnext # NoBlock =>
            Prev[mapBlockIndex[b].pnext] = b /\ mapBlockIndex[b].pnext \in ChainSet(hashBestChain)
    BY DEF Inv, PnextOnlyOnMainChain
  <2>2. \A b \in DOMAIN diskIndex : diskIndex[b].hashNext # NoBlock =>
            Prev[diskIndex[b].hashNext] = b /\ diskIndex[b].hashNext \in ChainSet(diskBest)
    BY DEF Inv, PnextOnlyOnMainChain
  <2>3. diskIndex'[cur].hashNext = NoBlock
    BY <1>1, <1>4, <1>5, <1>7
  <2>4. hashBestChain \in DOMAIN mapBlockIndex => mapBlockIndex[hashBestChain].pnext = NoBlock
    BY DEF Inv, PnextOnlyOnMainChain
  <2>5. \A b \in DOMAIN diskIndex' : diskIndex'[b].hashNext # NoBlock =>
            Prev[diskIndex'[b].hashNext] = b /\ diskIndex'[b].hashNext \in ChainSet(diskBest)'
    BY <1>1, <1>3, <1>5, <2>2
  <2> QED
    BY <1>2, <2>1, <2>3, <2>4, <2>5 DEF PnextOnlyOnMainChain
<1>13. TxRecordsMatchLinks'
  <2>1. cur \notin txIndex
    <3>1. ASSUME cur \in txIndex PROVE FALSE
      <4>1. cur # Genesis /\ diskIndex[Prev[cur]].hashNext = cur
        BY <1>1, <3>1 DEF Inv, TxRecordsMatchLinks
      <4> QED
        BY <1>1, <1>4, <4>1
    <3> QED
      BY <3>1
  <2>2. txIndex' \subseteq ChainSet(diskBest)' \ {Genesis}
    BY <1>3, <1>6, <1>7 DEF Inv, TxRecordsMatchLinks
  <2>3. ASSUME NEW b \in DOMAIN diskIndex' \ {Genesis}
        PROVE  b \in txIndex' <=> diskIndex'[Prev[b]].hashNext = b
    <3>1. /\ b \in DOMAIN diskIndex /\ b \in Block /\ b # NoBlock
          /\ Prev[b] \in DOMAIN diskIndex
          /\ b \in txIndex <=> diskIndex[Prev[b]].hashNext = b
      BY <1>5, <2>3, TreeAssumption DEF Inv, TypeOK, DiskConsistent, TxRecordsMatchLinks
    <3>2. CASE link /\ Prev[b] = diskBest
      BY <1>4, <1>5, <1>6, <1>7, <2>1, <3>1, <3>2
    <3>3. CASE ~(link /\ Prev[b] = diskBest)
      BY <1>1, <1>5, <1>6, <3>1, <3>3
    <3> QED
      BY <3>2, <3>3
  <2> QED
    BY <2>2, <2>3 DEF TxRecordsMatchLinks
<1>14. BestChainIndexed'
  BY <1>1, <1>2, <1>3, <1>5 DEF Inv, BestChainIndexed
<1>15. FlightConsistent'
  BY <1>1, <1>4, <1>5, <1>7 DEF Inv, FlightConsistent
<1> QED
  BY <1>8, <1>9, <1>10, <1>11, <1>12, <1>13, <1>14, <1>15 DEF Inv

\* A failed commit of the batch: nothing moves.
LEMMA SetBestChainFailsInv == Inv /\ SetBestChainFails => Inv'
<1> SUFFICES ASSUME Inv, SetBestChainFails PROVE Inv'
  OBVIOUS
<1> USE DEF SetBestChainFails
<1>1. crashes' \in 0..MaxCrashes /\ shutdowns' \in 0..MaxShutdowns /\ faults' \in 0..MaxFaults
  BY BoundsAssumption DEF Inv, TypeOK
<1>2. CASE cur = Genesis /\ ProcessEnds
  BY <1>1, <1>2, ProcessEndsInv
<1>3. CASE cur # Genesis /\ ~ProcessEnds
  <2> USE <1>3 DEF disk, memory
  <2>1. hashBestChain # NoBlock
    BY TreeAssumption DEF Inv, TypeOK, FlightConsistent
  <2>2. UNCHANGED ChainSet(hashBestChain) /\ UNCHANGED ChainSet(diskBest)
    BY DEF ChainSet
  <2>3. TypeOK'
    <3>1. /\ diskIndex' \in [DOMAIN diskIndex' -> DiskEntry]
          /\ mapBlockIndex' \in [DOMAIN mapBlockIndex' -> IndexEntry]
          /\ fRequestShutdown' \in BOOLEAN
      BY DEF Inv, TypeOK
    <3> QED
      BY <1>1, <3>1 DEF Inv, TypeOK
  <2>4. DiskConsistent' /\ HeightAndTrust' /\ BestAgrees'
    BY DEF Inv, DiskConsistent, HeightAndTrust, BestAgrees
  <2>5. PnextOnlyOnMainChain' /\ TxRecordsMatchLinks' /\ BestChainIndexed'
    BY <2>2 DEF Inv, PnextOnlyOnMainChain, TxRecordsMatchLinks, BestChainIndexed
  <2>6. FlightConsistent'
    BY <2>1 DEF Inv, FlightConsistent
  <2> QED
    BY <2>3, <2>4, <2>5, <2>6 DEF Inv
<1> QED
  BY <1>1, <1>2, <1>3, ProcessEndsInv

\* UpdateBest: memory takes over what the batch committed.
LEMMA UpdateBestInv == Inv /\ UpdateBest => Inv'
<1> SUFFICES ASSUME Inv, UpdateBest PROVE Inv'
  OBVIOUS
<1> USE DEF UpdateBest, disk, bounds
<1>1. /\ cur \in Block /\ cur # NoBlock
      /\ status = "running"
      /\ Prev[cur] = hashBestChain
      /\ diskBest = cur
      /\ cur \in DOMAIN mapBlockIndex
      /\ mapBlockIndex[cur].pnext = NoBlock
  BY TreeAssumption DEF Inv, TypeOK, FlightConsistent, BestAgrees
<1>2. UNCHANGED ChainSet(diskBest)
  BY DEF ChainSet
<1>3. ChainSet(hashBestChain)' = ChainSet(hashBestChain) \cup {cur}
  <2>1. ChainSet(hashBestChain)' = ChainSet(cur)
    BY DEF ChainSet
  <2> QED
    BY <1>1, <2>1, ChainSetStep
<1>4. cur # Genesis => hashBestChain \in Block /\ hashBestChain # cur
  BY <1>1, ChainOf
<1>5. /\ DOMAIN mapBlockIndex' = DOMAIN mapBlockIndex
      /\ mapBlockIndex' = [b \in DOMAIN mapBlockIndex |-> mapBlockIndex'[b]]
      /\ \A b \in DOMAIN mapBlockIndex :
            /\ mapBlockIndex'[b].nHeight = mapBlockIndex[b].nHeight
            /\ mapBlockIndex'[b].nChainTrust = mapBlockIndex[b].nChainTrust
            /\ mapBlockIndex'[b].pnext = IF cur # Genesis /\ b = hashBestChain
                                         THEN cur ELSE mapBlockIndex[b].pnext
            /\ mapBlockIndex'[b] \in IndexEntry
  <2>1. \A b \in DOMAIN mapBlockIndex : mapBlockIndex[b] \in IndexEntry
    BY DEF Inv, TypeOK
  <2>2. mapBlockIndex = [b \in DOMAIN mapBlockIndex |-> mapBlockIndex[b]]
    BY DEF Inv, TypeOK
  <2>3. CASE cur = Genesis
    BY <2>1, <2>2, <2>3
  <2>4. CASE cur # Genesis
    <3>1. mapBlockIndex' = [mapBlockIndex EXCEPT ![hashBestChain].pnext = cur]
      BY <1>1, <2>4
    <3>2. /\ DOMAIN mapBlockIndex' = DOMAIN mapBlockIndex
          /\ mapBlockIndex' = [b \in DOMAIN mapBlockIndex |-> mapBlockIndex'[b]]
      BY <3>1
    <3>3. \A b \in DOMAIN mapBlockIndex \ {hashBestChain} : mapBlockIndex'[b] = mapBlockIndex[b]
      BY <3>1
    <3>4. hashBestChain \in DOMAIN mapBlockIndex =>
              mapBlockIndex'[hashBestChain] = [mapBlockIndex[hashBestChain] EXCEPT !.pnext = cur]
      BY <3>1
    <3>5. hashBestChain \in DOMAIN mapBlockIndex =>
              /\ mapBlockIndex'[hashBestChain] \in IndexEntry
              /\ mapBlockIndex'[hashBestChain].nHeight = mapBlockIndex[hashBestChain].nHeight
              /\ mapBlockIndex'[hashBestChain].nChainTrust
                    = mapBlockIndex[hashBestChain].nChainTrust
              /\ mapBlockIndex'[hashBestChain].pnext = cur
      BY <1>1, <2>1, <3>4 DEF IndexEntry
    <3>6. ASSUME NEW b \in DOMAIN mapBlockIndex
          PROVE  /\ mapBlockIndex'[b].nHeight = mapBlockIndex[b].nHeight
                 /\ mapBlockIndex'[b].nChainTrust = mapBlockIndex[b].nChainTrust
                 /\ mapBlockIndex'[b].pnext = IF cur # Genesis /\ b = hashBestChain
                                              THEN cur ELSE mapBlockIndex[b].pnext
                 /\ mapBlockIndex'[b] \in IndexEntry
      <4>1. CASE b = hashBestChain
        BY <2>4, <3>5, <3>6, <4>1
      <4>2. CASE b # hashBestChain
        BY <2>1, <3>3, <3>6, <4>2
      <4> QED
        BY <4>1, <4>2
    <3> QED
      BY <3>2, <3>6
  <2> QED
    BY <2>3, <2>4
<1>6. TypeOK'
  <2>1. mapBlockIndex' \in [DOMAIN mapBlockIndex' -> IndexEntry]
    BY <1>5
  <2>2. diskIndex' \in [DOMAIN diskIndex' -> DiskEntry] /\ fRequestShutdown' \in BOOLEAN
    BY DEF Inv, TypeOK
  <2> QED
    BY <1>1, <1>5, <2>1, <2>2 DEF Inv, TypeOK
<1>7. DiskConsistent' /\ BestAgrees'
  BY <1>1 DEF Inv, DiskConsistent, BestAgrees
<1>8. HeightAndTrust'
  BY <1>5 DEF Inv, HeightAndTrust
<1>9. PnextOnlyOnMainChain'
  BY <1>1, <1>2, <1>3, <1>4, <1>5 DEF Inv, PnextOnlyOnMainChain
<1>10. TxRecordsMatchLinks'
  BY <1>2 DEF Inv, TxRecordsMatchLinks
<1>11. BestChainIndexed'
  BY <1>1, <1>2, <1>3, <1>5 DEF Inv, BestChainIndexed
<1>12. FlightConsistent'
  BY <1>1, <1>5 DEF Inv, FlightConsistent
<1> QED
  BY <1>6, <1>7, <1>8, <1>9, <1>10, <1>11, <1>12 DEF Inv

---------------------------------------------------------------------------
(* The theorems. *)

\* Every step of the node keeps the invariant.
LEMMA NextInv == Inv /\ [Next]_vars => Inv'
<1> SUFFICES ASSUME Inv, [Next]_vars PROVE Inv'
  OBVIOUS
<1>1. fRequestShutdown \in BOOLEAN
  BY DEF Inv, TypeOK
<1>2. crashes \in 0..MaxCrashes /\ shutdowns \in 0..MaxShutdowns /\ faults \in 0..MaxFaults
  BY DEF Inv, TypeOK
<1>3. ASSUME UNCHANGED vars PROVE Inv'
  BY <1>1, <1>2, <1>3, UnchangedInv DEF vars, bounds
<1>4. CASE LoadBlockIndex
  BY <1>4, LoadBlockIndexInv
<1>5. CASE LoadEmptyBlockIndex
  BY <1>5, LoadEmptyBlockIndexInv
<1>6. CASE LoadBlockIndexFails
  BY <1>3, <1>6 DEF LoadBlockIndexFails
<1>7. CASE AddToBlockIndex
  BY <1>7, AddToBlockIndexInv
<1>8. CASE SetBestChain
  BY <1>8, SetBestChainInv
<1>9. CASE UpdateBest
  BY <1>9, UpdateBestInv
<1>10. ASSUME NEW b \in Block, AcceptBlock(b) PROVE Inv'
  BY <1>10, AcceptBlockInv
<1>11. ASSUME NEW b \in Block, RejectBlock(b) PROVE Inv'
  BY <1>3, <1>11 DEF RejectBlock
<1>12. CASE AddToBlockIndexFails
  BY <1>12, AddToBlockIndexFailsInv
<1>13. CASE SetBestChainFails
  BY <1>13, SetBestChainFailsInv
<1>14. CASE Crash
  <2>1. crashes' \in 0..MaxCrashes
    BY <1>2, <1>14, BoundsAssumption DEF Crash
  <2> QED
    BY <1>2, <1>14, <2>1, ProcessEndsInv DEF Crash
<1>15. CASE RequestShutdown
  <2>1. shutdowns' \in 0..MaxShutdowns
    BY <1>2, <1>15, BoundsAssumption DEF RequestShutdown
  <2>2. fRequestShutdown' \in BOOLEAN
    BY <1>15 DEF RequestShutdown
  <2>3. crashes' = crashes /\ faults' = faults /\ UNCHANGED <<disk, status, memory, pc, cur>>
    BY <1>15 DEF RequestShutdown
  <2> QED
    BY <1>2, <2>1, <2>2, <2>3, UnchangedInv
<1>16. CASE Shutdown
  <2>1. ProcessEnds /\ crashes' = crashes /\ shutdowns' = shutdowns /\ faults' = faults
    BY <1>16 DEF Shutdown, bounds
  <2> QED
    BY <1>2, <2>1, ProcessEndsInv
<1> QED
  BY <1>3, <1>4, <1>5, <1>6, <1>7, <1>8, <1>9, <1>10, <1>11, <1>12, <1>13,
     <1>14, <1>15, <1>16 DEF Next, Step

\* The invariant holds in every reachable state.
THEOREM Invariance == Spec => []Inv
BY InitInv, NextInv, PTL DEF Spec

\* Type correctness of the block store (TypeOK), for every tree of blocks.
THEOREM TypeCorrect == Spec => []TypeOK
<1>1. Inv => TypeOK
  BY DEF Inv
<1> QED
  BY <1>1, Invariance, PTL

\* Wherever the process ends between WriteToDisk, AddToBlockIndex and
\* SetBestChain, the disk names no block that it does not hold.
THEOREM DiskAlwaysConsistent == Spec => []DiskConsistent
<1>1. Inv => DiskConsistent
  BY DEF Inv
<1> QED
  BY <1>1, Invariance, PTL

\* The batch of SetBestChain keeps transaction records and links together.
THEOREM TxRecordsAlwaysMatch == Spec => []TxRecordsMatchLinks
<1>1. Inv => TxRecordsMatchLinks
  BY DEF Inv
<1> QED
  BY <1>1, Invariance, PTL

\* IsInMainChain() is sound: pnext never leads off the best chain.
THEOREM PnextSound == Spec => []PnextOnlyOnMainChain
<1>1. Inv => PnextOnlyOnMainChain
  BY DEF Inv
<1> QED
  BY <1>1, Invariance, PTL

\* Through every commit, failed commit, crash and LoadBlockIndex, what the process
\* believes of heights, trust, best block and block in flight is what the disk has.
THEOREM MemoryAlwaysMatches == Spec => []MemoryMatchesDisk
<1>1. Inv => MemoryMatchesDisk
  BY DEF Inv, MemoryMatchesDisk
<1> QED
  BY <1>1, Invariance, PTL

\* CTxDB::LoadBlockIndex fails only after an interrupted first start.
THEOREM StartupSafe == Spec => []StartupFailsOnlyOnFirstRun
<1>1. Inv => StartupFailsOnlyOnFirstRun
  <2> SUFFICES ASSUME Inv, status = "down", DOMAIN diskIndex # {},
                      ~(diskBest # NoBlock /\ CanLoad)
               PROVE  diskBest = NoBlock /\ DOMAIN diskIndex = {Genesis}
    BY DEF StartupFailsOnlyOnFirstRun
  <2>1. ASSUME diskBest # NoBlock PROVE CanLoad
    <3>1. diskBest \in LoadedBlocks
      BY <2>1 DEF Inv, DiskConsistent, LoadedBlocks
    <3>2. VerifyWindow \subseteq ChainSet(diskBest)
      <4>1. \A i \in 2..Len(Chain[diskBest]) : i \in 1..Len(Chain[diskBest])
        BY <2>1, ChainOf DEF Inv, TypeOK
      <4> QED
        BY <2>1, <4>1 DEF VerifyWindow, ChainSet
    <3>3. ChainSet(diskBest) \subseteq blockFile
      BY DEF Inv, BestChainIndexed, DiskConsistent
    <3> QED
      BY <3>1, <3>2, <3>3 DEF CanLoad
  <2> QED
    BY <2>1 DEF Inv, DiskConsistent
<1> QED
  BY <1>1, Invariance, PTL

\* The best chain only grows (AppendOnly): SetBestChain and UpdateBest are the
\* only steps that move it, LoadBlockIndex resumes it, nothing takes a block
\* off it.
THEOREM ChainAppendOnly == Spec => AppendOnly
<1>1. ASSUME Inv, [Next]_vars
      PROVE  [ /\ diskBest' # diskBest => Prev[diskBest'] = diskBest
               /\ status = "running" /\ status' = "running" /\ hashBestChain' # hashBestChain
                    => Prev[hashBestChain'] = hashBestChain
               /\ status = "down" /\ status' = "running" => hashBestChain' = diskBest ]_vars
  <2> USE DEF disk, memory, bounds
  <2>1. CASE LoadBlockIndex
    <3>1. BestAfterVerify = diskBest
      BY <1>1, <2>1, VerifyKeepsBest DEF LoadBlockIndex, Inv, TypeOK
    <3> QED
      BY <2>1, <3>1 DEF LoadBlockIndex
  <2>2. CASE LoadEmptyBlockIndex
    BY <1>1, <2>2 DEF LoadEmptyBlockIndex, Inv, FlightConsistent, DiskConsistent
  <2>3. CASE SetBestChain
    BY <1>1, <2>3 DEF SetBestChain, Inv, BestAgrees
  <2>4. CASE UpdateBest
    BY <1>1, <2>4 DEF UpdateBest, Inv, BestAgrees
  <2>5. ASSUME ProcessEnds PROVE diskBest' = diskBest /\ status' = "down"
    BY <2>5 DEF ProcessEnds
  <2>6. CASE AddToBlockIndexFails \/ SetBestChainFails \/ Crash \/ Shutdown
    BY <2>5, <2>6 DEF AddToBlockIndexFails, SetBestChainFails, Crash, Shutdown
  <2>7. CASE LoadBlockIndexFails \/ AddToBlockIndex \/ RequestShutdown \/ UNCHANGED vars
    BY <2>7 DEF LoadBlockIndexFails, AddToBlockIndex, RequestShutdown, vars
  <2>8. ASSUME NEW b \in Block, AcceptBlock(b) \/ RejectBlock(b)
        PROVE  UNCHANGED <<diskBest, status, hashBestChain>>
    BY <2>8 DEF AcceptBlock, RejectBlock, vars
  <2> QED
    BY <1>1, <2>1, <2>2, <2>3, <2>4, <2>6, <2>7, <2>8 DEF Next, Step
<1> QED
  BY <1>1, Invariance, PTL DEF Spec, AppendOnly

---------------------------------------------------------------------------
(* The refinement of DurableChain. *)

\* The end of the process is the abstract Stop.
LEMMA StopStep ==
    ASSUME status = "running", ProcessEnds
    PROVE  Abstract!Next
<1>1. diskBest' = diskBest /\ status' = "down" /\ hashBestChain' = NoBlock
  BY DEF ProcessEnds, disk
<1> QED
  BY <1>1 DEF Abstract!Next, Abstract!Stop

\* The batch of SetBestChain is the abstract Commit.
LEMMA CommitStep ==
    ASSUME Inv, SetBestChain
    PROVE  Abstract!Next
<1>1. /\ cur \in Block /\ cur # NoBlock
      /\ status = "running" /\ status' = status
      /\ Prev[cur] = hashBestChain /\ hashBestChain' = hashBestChain
      /\ diskBest = hashBestChain /\ diskBest' = cur
  BY TreeAssumption DEF SetBestChain, memory, Inv, TypeOK, BestAgrees
<1>2. CASE cur = Genesis
  <2>1. diskBest = NoBlock /\ Chain[cur] = Append(<<>>, cur)
    BY <1>1, <1>2, TreeAssumption
  <2>2. Abstract!Commit(cur)
    BY <1>1, <1>2, <2>1 DEF Abstract!Commit
  <2> QED
    BY <1>1, <2>2 DEF Abstract!Next
<1>3. CASE cur # Genesis
  <2>1. /\ diskBest \in Block /\ diskBest # NoBlock
        /\ Chain[cur] = Append(Chain[diskBest], cur)
    BY <1>1, <1>3, TreeAssumption
  <2>2. Chain[diskBest] # <<>> /\ Chain[diskBest][Len(Chain[diskBest])] = diskBest
    BY <2>1, ChainOf
  <2>3. Abstract!Commit(cur)
    BY <1>1, <2>1, <2>2 DEF Abstract!Commit
  <2> QED
    BY <1>1, <2>3 DEF Abstract!Next
<1> QED
  BY <1>2, <1>3

\* The block store implements DurableChain: its initial state is the empty
\* chain, and each of its steps is an abstract step or leaves chain and view
\* alone.
THEOREM Refinement == Spec => ImplementsDurableChain
<1>1. Init => Abstract!Init
  BY DEF Init, Abstract!Init
<1>2. ASSUME Inv, [Next]_vars PROVE [Abstract!Next]_(Abstract!vars)
  <2> USE DEF disk, memory, bounds
  <2>1. CASE LoadBlockIndex
    <3>1. BestAfterVerify = diskBest /\ diskBest # NoBlock
      BY <1>2, <2>1, VerifyKeepsBest DEF LoadBlockIndex, Inv, TypeOK
    <3>2. Abstract!Start
      BY <2>1, <3>1 DEF LoadBlockIndex, Abstract!Start
    <3> QED
      BY <3>2 DEF Abstract!Next
  <2>2. CASE LoadEmptyBlockIndex
    <3>1. diskBest = NoBlock /\ hashBestChain = NoBlock
      BY <1>2, <2>2 DEF LoadEmptyBlockIndex, Inv, FlightConsistent, DiskConsistent
    <3>2. Abstract!Start
      BY <2>2, <3>1 DEF LoadEmptyBlockIndex, Abstract!Start
    <3> QED
      BY <3>2 DEF Abstract!Next
  <2>3. CASE SetBestChain
    BY <1>2, <2>3, CommitStep
  <2>4. CASE UpdateBest
    <3>1. diskBest = cur /\ cur # NoBlock
      BY <1>2, <2>4 DEF UpdateBest, Inv, BestAgrees, TypeOK
    <3>2. Abstract!Publish
      BY <2>4, <3>1 DEF UpdateBest, Abstract!Publish
    <3> QED
      BY <3>2 DEF Abstract!Next
  <2>5. ASSUME UNCHANGED <<diskBest, status, hashBestChain>>
        PROVE  UNCHANGED Abstract!vars
    BY <2>5 DEF Abstract!vars
  <2>6. CASE AddToBlockIndexFails \/ SetBestChainFails \/ Crash \/ Shutdown
    BY <2>5, <2>6, StopStep DEF AddToBlockIndexFails, SetBestChainFails, Crash, Shutdown
  <2>7. CASE LoadBlockIndexFails \/ AddToBlockIndex \/ RequestShutdown \/ UNCHANGED vars
    BY <2>5, <2>7 DEF LoadBlockIndexFails, AddToBlockIndex, RequestShutdown, vars
  <2>8. ASSUME NEW b \in Block, AcceptBlock(b) \/ RejectBlock(b)
        PROVE  UNCHANGED Abstract!vars
    BY <2>5, <2>8 DEF AcceptBlock, RejectBlock, vars
  <2> QED
    BY <1>2, <2>1, <2>2, <2>3, <2>4, <2>6, <2>7, <2>8 DEF Next, Step
<1> QED
  BY <1>1, <1>2, Invariance, PTL DEF Spec, ImplementsDurableChain, Abstract!Spec

---------------------------------------------------------------------------
(* Index records off the best chain. *)

\* A requested shutdown has been counted, and leaves at most one stray when it comes.
StrayInv ==
    Cardinality(Strays) + (IF fRequestShutdown THEN 1 ELSE 0)
        <= crashes + shutdowns + faults + (IF pc = "index" THEN 1 ELSE 0)

\* Strays are blocks, so there are finitely many; the block in flight is one of them
\* between its two commits and at no other time.
LEMMA StraysAre ==
    ASSUME Inv
    PROVE  /\ Strays \subseteq Block /\ IsFiniteSet(Strays)
           /\ cur \in Strays <=> pc = "index"
<1>1. Strays \subseteq Block /\ IsFiniteSet(Strays)
  <2>1. Strays \subseteq Block
    BY DEF Strays, Inv, TypeOK
  <2> QED
    BY <2>1, BlocksFinite, FS_Subset
<1>2. NoBlock \notin Block /\ DOMAIN diskIndex \subseteq Block
  BY TreeAssumption DEF Inv, TypeOK
<1>3. ASSUME pc = "index" PROVE cur \in Strays
  <2>1. cur \in DOMAIN diskIndex /\ cur \in Block /\ Prev[cur] = diskBest
    <3>1. cur \in DOMAIN diskIndex /\ Prev[cur] = hashBestChain /\ status = "running"
      BY <1>3 DEF Inv, TypeOK, FlightConsistent
    <3>2. diskBest = hashBestChain
      BY <1>3, <3>1 DEF Inv, BestAgrees
    <3> QED
      BY <1>2, <3>1, <3>2
  <2>2. cur \notin ChainSet(diskBest)
    <3>1. CASE cur = Genesis
      <4>1. diskBest = NoBlock
        BY <2>1, <3>1, TreeAssumption
      <4> QED
        BY <4>1 DEF ChainSet
    <3>2. CASE cur # Genesis
      <4>1. diskBest \in Block /\ Len(Chain[cur]) = Len(Chain[diskBest]) + 1
            /\ Len(Chain[diskBest]) \in Nat
        BY <2>1, <3>2, ChainOf
      <4> QED
        BY <4>1, ChainSetHeight
    <3> QED
      BY <3>1, <3>2
  <2> QED
    BY <2>1, <2>2 DEF Strays
<1>4. ASSUME pc # "index" PROVE cur \notin Strays
  <2>1. CASE pc = "idle"
    BY <1>2, <2>1 DEF Strays, Inv, TypeOK
  <2>2. CASE pc = "file"
    BY <2>2 DEF Strays, Inv, TypeOK, FlightConsistent
  <2>3. CASE pc = "best"
    <3>1. diskBest = cur /\ cur \in Block
      BY <1>2, <2>3 DEF Inv, TypeOK, FlightConsistent, BestAgrees
    <3>2. cur \in ChainSet(diskBest)
      BY <3>1, ChainSetStep
    <3> QED
      BY <3>2 DEF Strays
  <2> QED
    BY <1>4, <2>1, <2>2, <2>3 DEF Inv, TypeOK
<1> QED
  BY <1>1, <1>3, <1>4

\* AddToBlockIndex makes the block in flight a stray, SetBestChain takes it off; no
\* other step changes a record or the best block.
LEMMA StraySteps ==
    ASSUME Inv, [Next]_vars
    PROVE  \/ /\ AddToBlockIndex
              /\ Strays' = Strays \cup {cur} /\ cur' = cur /\ pc' = "index"
           \/ /\ SetBestChain
              /\ Strays' = Strays \ {cur}
           \/ /\ ~AddToBlockIndex /\ ~SetBestChain
              /\ Strays' = Strays
<1> USE DEF disk, memory, bounds
<1>1. CASE AddToBlockIndex
  <2>1. pc' = "index" /\ cur' = cur
    BY <1>1, MoreTrust DEF AddToBlockIndex
  <2>2. DOMAIN diskIndex' = DOMAIN diskIndex \cup {cur} /\ diskBest' = diskBest
    BY <1>1 DEF AddToBlockIndex, Insert
  <2>3. cur \notin ChainSet(diskBest)
    BY <1>1 DEF AddToBlockIndex, Inv, BestChainIndexed, FlightConsistent
  <2>4. ChainSet(diskBest)' = ChainSet(diskBest)
    BY <2>2 DEF ChainSet
  <2> QED
    BY <1>1, <2>1, <2>2, <2>3, <2>4 DEF Strays
<1>2. CASE SetBestChain
  <2>1. diskBest' = cur /\ Prev[cur] = diskBest /\ cur \in Block
    BY <1>2, TreeAssumption DEF SetBestChain, Inv, TypeOK, BestAgrees
  <2>2. DOMAIN diskIndex' = DOMAIN diskIndex
    BY <1>2 DEF SetBestChain
  <2>3. ChainSet(diskBest)' = ChainSet(diskBest) \cup {cur}
    <3>1. ChainSet(diskBest)' = ChainSet(cur)
      BY <2>1 DEF ChainSet
    <3> QED
      BY <2>1, <3>1, ChainSetStep
  <2> QED
    BY <1>2, <2>2, <2>3 DEF Strays
<1>3. CASE ~AddToBlockIndex /\ ~SetBestChain
  <2>1. diskIndex' = diskIndex /\ diskBest' = diskBest
    <3>1. ASSUME ProcessEnds PROVE UNCHANGED <<diskIndex, diskBest>>
      BY <3>1 DEF ProcessEnds
    <3>2. CASE AddToBlockIndexFails \/ SetBestChainFails \/ Crash \/ Shutdown
      BY <3>1, <3>2 DEF AddToBlockIndexFails, SetBestChainFails, Crash, Shutdown
    <3>3. CASE LoadBlockIndex \/ LoadEmptyBlockIndex \/ LoadBlockIndexFails \/ UpdateBest
               \/ RequestShutdown \/ UNCHANGED vars
      BY <3>3 DEF LoadBlockIndex, LoadEmptyBlockIndex, LoadBlockIndexFails, UpdateBest,
                  RequestShutdown, vars
    <3>4. ASSUME NEW b \in Block, AcceptBlock(b) \/ RejectBlock(b)
          PROVE  UNCHANGED <<diskIndex, diskBest>>
      BY <3>4 DEF AcceptBlock, RejectBlock, vars
    <3> QED
      BY <1>3, <3>2, <3>3, <3>4 DEF Next, Step
  <2> QED
    BY <1>3, <2>1 DEF Strays, ChainSet
<1> QED
  BY <1>1, <1>2, <1>3

LEMMA StrayNextInv == Inv /\ StrayInv /\ [Next]_vars => StrayInv'
<1> SUFFICES ASSUME Inv, StrayInv, [Next]_vars PROVE StrayInv'
  OBVIOUS
<1> DEFINE n == Cardinality(Strays)
           total == crashes + shutdowns + faults
<1>1. /\ n \in Nat /\ fRequestShutdown \in BOOLEAN
      /\ crashes \in Nat /\ shutdowns \in Nat /\ faults \in Nat
  BY StraysAre, FS_CardinalityType, BoundsAssumption DEF Inv, TypeOK
<1> USE DEF StrayInv, bounds
<1>2. CASE AddToBlockIndex
  <2>1. Strays' = Strays \cup {cur} /\ pc' = "index" /\ cur \notin Strays
    BY <1>2, StraySteps, StraysAre DEF AddToBlockIndex, SetBestChain
  <2>2. Cardinality(Strays') = n + 1
    BY <2>1, StraysAre, FS_AddElement
  <2>3. UNCHANGED <<fRequestShutdown, crashes, shutdowns, faults>> /\ pc = "file"
    BY <1>2 DEF AddToBlockIndex
  <2> QED
    BY <1>1, <2>1, <2>2, <2>3
<1>3. CASE SetBestChain
  <2>1. Strays' = Strays \ {cur} /\ pc = "index" /\ pc' = "best" /\ cur \in Strays
    BY <1>3, StraySteps, StraysAre DEF AddToBlockIndex, SetBestChain
  <2>2. Cardinality(Strays') = n - 1
    BY <2>1, StraysAre, FS_RemoveElement
  <2>3. UNCHANGED <<fRequestShutdown, crashes, shutdowns, faults>>
    BY <1>3 DEF SetBestChain
  <2> QED
    BY <1>1, <2>1, <2>2, <2>3
<1>4. CASE ~AddToBlockIndex /\ ~SetBestChain
  <2>1. Cardinality(Strays') = n
    BY <1>4, StraySteps
  <2>2. CASE Crash
    <3>1. crashes' = crashes + 1 /\ shutdowns' = shutdowns /\ faults' = faults
          /\ ~fRequestShutdown' /\ pc' = "idle"
      BY <2>2 DEF Crash, ProcessEnds
    <3> QED
      BY <1>1, <2>1, <3>1
  <2>3. CASE AddToBlockIndexFails \/ SetBestChainFails
    <3> HIDE DEF StrayInv
    <3>1. crashes' = crashes /\ shutdowns' = shutdowns /\ faults' = faults + 1 /\ pc' = "idle"
      BY <2>3 DEF AddToBlockIndexFails, SetBestChainFails, ProcessEnds
    <3>2. fRequestShutdown' = FALSE \/ fRequestShutdown' = fRequestShutdown
      <4>1. CASE AddToBlockIndexFails
        BY <4>1, Zenon DEF AddToBlockIndexFails, ProcessEnds
      <4>2. CASE SetBestChainFails
        BY <4>2, Zenon DEF SetBestChainFails, ProcessEnds
      <4> QED
        BY <2>3, <4>1, <4>2
    <3>3. CASE fRequestShutdown' = FALSE
      BY <1>1, <2>1, <3>1, <3>3 DEF StrayInv
    <3>4. CASE fRequestShutdown' = fRequestShutdown
      BY <1>1, <2>1, <3>1, <3>4 DEF StrayInv
    <3> QED
      BY <3>2, <3>3, <3>4
  <2>4. CASE RequestShutdown
    <3>1. crashes' = crashes /\ shutdowns' = shutdowns + 1 /\ faults' = faults
          /\ ~fRequestShutdown /\ pc' = pc
      BY <2>4 DEF RequestShutdown
    <3> QED
      BY <1>1, <2>1, <3>1
  <2>5. CASE Shutdown
    <3>1. crashes' = crashes /\ shutdowns' = shutdowns /\ faults' = faults
          /\ fRequestShutdown /\ ~fRequestShutdown' /\ pc' = "idle"
      BY <2>5 DEF Shutdown, ProcessEnds
    <3> QED
      BY <1>1, <2>1, <3>1
  <2>6. CASE UNCHANGED <<crashes, shutdowns, faults, fRequestShutdown>> /\ pc # "index"
    BY <1>1, <2>1, <2>6
  <2>7. CASE UNCHANGED vars
    BY <1>1, <2>1, <2>7 DEF vars
  <2>8. CASE LoadBlockIndex \/ LoadEmptyBlockIndex \/ LoadBlockIndexFails \/ UpdateBest
    <3>1. UNCHANGED <<crashes, shutdowns, faults, fRequestShutdown>> /\ pc # "index"
      BY <2>8 DEF LoadBlockIndex, LoadEmptyBlockIndex, LoadBlockIndexFails, UpdateBest,
                  Inv, FlightConsistent, vars
    <3> QED
      BY <2>6, <3>1
  <2>9. ASSUME NEW b \in Block, AcceptBlock(b) \/ RejectBlock(b)
        PROVE  StrayInv'
    <3>1. UNCHANGED <<crashes, shutdowns, faults, fRequestShutdown>> /\ pc # "index"
      BY <2>9 DEF AcceptBlock, RejectBlock, vars
    <3> QED
      BY <2>6, <3>1
  <2> QED
    BY <1>4, <2>2, <2>3, <2>4, <2>5, <2>7, <2>8, <2>9 DEF Next, Step
<1> QED
  BY <1>2, <1>3, <1>4

\* Every record off the best chain is the remains of one crash, requested shutdown or
\* failed commit between AddToBlockIndex and SetBestChain.
THEOREM StraysAlwaysCounted == Spec => []StraysCounted
<1>1. Init => StrayInv
  <2> SUFFICES ASSUME Init PROVE StrayInv
    OBVIOUS
  <2>1. Strays = {} /\ Cardinality({}) = 0
    BY FS_EmptySet DEF Init, Strays
  <2> QED
    BY <2>1 DEF Init, StrayInv
<1>2. Inv /\ Inv' /\ StrayInv /\ [Next]_vars => StrayInv'
  BY StrayNextInv
<1>3. Inv /\ StrayInv => StraysCounted
  <2> SUFFICES ASSUME Inv, StrayInv PROVE StraysCounted
    OBVIOUS
  <2>1. Cardinality(Strays) \in Nat /\ fRequestShutdown \in BOOLEAN
        /\ crashes \in Nat /\ shutdowns \in Nat /\ faults \in Nat
    BY StraysAre, FS_CardinalityType, BoundsAssumption DEF Inv, TypeOK
  <2> QED
    BY <2>1 DEF StrayInv, StraysCounted
<1> QED
  BY <1>1, <1>2, <1>3, Invariance, PTL DEF Spec

\* A block whose index record was left behind is never in flight again and never
\* becomes the best block, through any restart: AcceptBlock refuses what is known.
THEOREM StraysAlwaysStayOut == Spec => StrayStaysOut
<1>1. ASSUME Inv, [Next]_vars
      PROVE  [\A b \in Strays : (pc = "index" /\ b = cur) \/ (b \in Strays' /\ b # cur')]_vars
  <2> SUFFICES ASSUME NEW b \in Strays, ~(pc = "index" /\ b = cur)
               PROVE  b \in Strays' /\ b # cur'
    OBVIOUS
  <2>1. b # cur /\ b \in Block /\ b # NoBlock /\ b \in DOMAIN diskIndex
    BY <1>1, StraysAre, TreeAssumption DEF Strays
  <2>2. b \in Strays'
    BY <1>1, <2>1, StraySteps
  <2>3. b # cur'
    <3> USE DEF memory, disk, bounds
    <3>1. CASE UNCHANGED cur \/ cur' = NoBlock
      BY <2>1, <3>1
    <3>2. CASE LoadEmptyBlockIndex
      BY <2>1, <3>2 DEF LoadEmptyBlockIndex
    <3>3. ASSUME NEW c \in Block, AcceptBlock(c) PROVE b # cur'
      BY <1>1, <2>1, <3>3 DEF AcceptBlock, Acceptable, Inv, FlightConsistent
    <3>4. CASE Crash \/ Shutdown \/ AddToBlockIndexFails \/ SetBestChainFails \/ UpdateBest
      BY <3>1, <3>4 DEF Crash, Shutdown, AddToBlockIndexFails, SetBestChainFails, UpdateBest,
                        ProcessEnds
    <3>5. CASE LoadBlockIndex \/ LoadBlockIndexFails \/ AddToBlockIndex \/ SetBestChain
               \/ RequestShutdown \/ UNCHANGED vars
      BY <3>1, <3>5 DEF LoadBlockIndex, LoadBlockIndexFails, AddToBlockIndex, SetBestChain,
                        RequestShutdown, vars
    <3>6. ASSUME NEW c \in Block, RejectBlock(c) PROVE b # cur'
      BY <3>1, <3>6 DEF RejectBlock, vars
    <3> QED
      BY <1>1, <3>2, <3>3, <3>4, <3>5, <3>6 DEF Next, Step
  <2> QED
    BY <2>2, <2>3
<1> QED
  BY <1>1, Invariance, PTL DEF Spec, StrayStaysOut
=============================================================================
