------------------------- MODULE BlockSync_proofs -------------------------
(***************************************************************************)
(* Proofs about BlockSync, for every network of blocks, every size of the  *)
(* buffer and every bound.                                                 *)
(***************************************************************************)
EXTENDS BlockSync, BlockChain_proofs, FiniteSetTheorems

SyncInv == SyncTypeOK /\ RoomMeansBlank

---------------------------------------------------------------------------
(* The buffer. *)

\* Sets of slots are finite, and a subset has no more elements.
LEMMA SlotsFinite ==
    ASSUME NEW S \in SUBSET Slots
    PROVE  /\ IsFiniteSet(S)
           /\ Cardinality(S) \in Nat
           /\ \A T \in SUBSET S : Cardinality(T) <= Cardinality(S)
<1>1. IsFiniteSet(Slots)
  BY FS_Interval, SyncAssumption DEF Slots
<1>2. IsFiniteSet(S)
  BY <1>1, FS_Subset
<1> QED
  BY <1>2, FS_Subset, FS_CardinalityType

\* Fewer blocks than slots: one of the slots is blank.
LEMMA BlankExists ==
    ASSUME NEW buf, NEW n \in 1..MAXIMUM_ARRAY_OF_BLOCKS, NEW e \in Nat,
           Cardinality(Held(buf)) <= e, e < n
    PROVE  \E i \in 1..n : buf[i] = NoBlock
<1> SUFFICES ASSUME \A i \in 1..n : buf[i] # NoBlock PROVE FALSE
  OBVIOUS
<1>1. n \in Nat /\ n >= 1
  BY SyncAssumption
<1>2. 1..n \in SUBSET Held(buf) /\ Held(buf) \in SUBSET Slots
  BY SyncAssumption DEF Held, Slots
<1>3. Cardinality(1..n) = n
  BY <1>1, FS_Interval
<1>4. Cardinality(1..n) <= Cardinality(Held(buf)) /\ Cardinality(Held(buf)) \in Nat
  BY <1>2, SlotsFinite
<1> QED
  BY <1>1, <1>3, <1>4

\* What phase 1 makes of the buffer.
LEMMA StoredInv ==
    ASSUME SyncInv, NEW b \in Block
    PROVE  /\ Stored(b) \in [Slots -> Block \cup {NoBlock}]
           /\ StoredEntries \in 0..MAXIMUM_ARRAY_OF_BLOCKS
           /\ Cardinality(Held(Stored(b))) <= StoredEntries
<1>1. BufferSize \in 1..MAXIMUM_ARRAY_OF_BLOCKS
  BY SyncAssumption DEF BufferSize
<1>2. /\ Initialised \in [Slots -> Block \cup {NoBlock}]
      /\ InitialisedEntries \in 0..MAXIMUM_ARRAY_OF_BLOCKS
  BY SyncAssumption DEF Initialised, InitialisedEntries, SyncInv, SyncTypeOK
<1>3. Cardinality(Held(Initialised)) <= InitialisedEntries
  <2>1. CASE Block_Checker_Array = "NOT_INITIALISED"
    <3>1. Held(Initialised) = {}
      BY <2>1 DEF Held, Initialised
    <3> QED
      BY <2>1, <3>1, FS_EmptySet DEF InitialisedEntries
  <2>2. CASE Block_Checker_Array # "NOT_INITIALISED"
    BY <2>2 DEF SyncInv, SyncTypeOK, RoomMeansBlank, Initialised, InitialisedEntries
  <2> QED
    BY <2>1, <2>2
<1>4. Stored(b) \in [Slots -> Block \cup {NoBlock}]
  BY <1>2 DEF Stored
<1>5. CASE ~Stores
  <2>1. Held(Stored(b)) = Held(Initialised)
    BY <1>5 DEF Held, Stored
  <2> QED
    BY <1>2, <1>3, <1>4, <1>5, <2>1 DEF StoredEntries
<1>6. CASE Stores
  <2>1. PICK s \in 1..BufferSize : s \in FirstBlank
    BY <1>6 DEF Stores, FirstBlank
  <2>2. \A i \in FirstBlank : i = s
    <3>1. ASSUME NEW i \in FirstBlank PROVE ~(i < s) /\ ~(s < i)
      BY <1>1, <2>1, <3>1 DEF FirstBlank
    <3>2. \A i \in FirstBlank : i \in Int /\ s \in Int
      BY <1>1, <2>1 DEF FirstBlank
    <3> QED
      BY <3>1, <3>2
  <2>3. Held(Stored(b)) \in SUBSET (Held(Initialised) \cup {s})
    BY <1>6, <2>2 DEF Held, Stored
  <2>4. Held(Initialised) \in SUBSET Slots /\ s \in Slots
    BY <1>1, <2>1, SyncAssumption DEF Held, Slots
  <2>5. /\ Cardinality(Held(Initialised) \cup {s}) <= Cardinality(Held(Initialised)) + 1
        /\ Cardinality(Held(Initialised)) \in Nat
        /\ Cardinality(Held(Initialised) \cup {s}) \in Nat
    BY <2>4, SlotsFinite, FS_AddElement, FS_CardinalityType
  <2>6. /\ Cardinality(Held(Stored(b))) <= Cardinality(Held(Initialised) \cup {s})
        /\ Cardinality(Held(Stored(b))) \in Nat
    <3>1. (Held(Initialised) \cup {s}) \in SUBSET Slots /\ Held(Stored(b)) \in SUBSET Slots
      BY <2>4 DEF Held
    <3> QED
      BY <2>3, <3>1, SlotsFinite
  <2>7. StoredEntries = InitialisedEntries + 1 /\ InitialisedEntries < BufferSize
    BY <1>6 DEF StoredEntries, Stores
  <2>8. StoredEntries \in 0..MAXIMUM_ARRAY_OF_BLOCKS
    BY <1>1, <1>2, <2>7, SyncAssumption
  <2>9. Cardinality(Held(Stored(b))) <= StoredEntries
    BY <1>2, <1>3, <2>5, <2>6, <2>7, SyncAssumption
  <2> QED
    BY <1>4, <2>8, <2>9
<1> QED
  BY <1>5, <1>6

\* Blanking slots keeps the type, and the count below the entries.
LEMMA Blanking ==
    ASSUME NEW buf \in [Slots -> Block \cup {NoBlock}],
           NEW blank \in [Slots -> Block \cup {NoBlock}], NEW e \in Nat,
           \A i \in Slots : blank[i] \in {buf[i], NoBlock},
           Cardinality(Held(buf)) <= e
    PROVE  Cardinality(Held(blank)) <= e
<1>1. Held(blank) \in SUBSET Held(buf) /\ Held(buf) \in SUBSET Slots
      /\ Held(blank) \in SUBSET Slots
  BY DEF Held
<1>2. Cardinality(Held(blank)) <= Cardinality(Held(buf))
      /\ Cardinality(Held(blank)) \in Nat /\ Cardinality(Held(buf)) \in Nat
  BY <1>1, SlotsFinite
<1> QED
  BY <1>2

\* What the scan of phase 2 makes of it.
LEMMA ScannedInv ==
    ASSUME SyncInv, NEW b \in Block
    PROVE  /\ Scanned(b) \in [Slots -> Block \cup {NoBlock}]
           /\ Cardinality(Held(Scanned(b))) <= StoredEntries
<1>1. /\ Stored(b) \in [Slots -> Block \cup {NoBlock}]
      /\ StoredEntries \in Nat
      /\ Cardinality(Held(Stored(b))) <= StoredEntries
  BY StoredInv, SyncAssumption
<1>2. Scanned(b) \in [Slots -> Block \cup {NoBlock}]
  BY <1>1 DEF Scanned
<1>3. \A i \in Slots : Scanned(b)[i] \in {Stored(b)[i], NoBlock}
  BY <1>1 DEF Scanned
<1> QED
  BY <1>1, <1>2, <1>3, Blanking

---------------------------------------------------------------------------
(* The invariant. *)

\* A step that replaces the buffer between two blocks.
LEMMA BufferStep ==
    ASSUME SyncInv, pc = "idle", pc' = pc, phase = "none",
           Block_Checker' \in [Slots -> Block \cup {NoBlock}],
           Buffer_entries' \in 0..MAXIMUM_ARRAY_OF_BLOCKS,
           Cardinality(Held(Block_Checker')) <= Buffer_entries',
           Block_Checker_Array' \in {"NOT_INITIALISED", "INITIALISED"},
           synch_check' \in 0..MAXIMUM_ARRAY_OF_BLOCKS,
           Last_known_block_height' = Last_known_block_height,
           \/ phase' \in {"none", "stuck"} /\ UNCHANGED <<synch_mode_buffer_size,
                                                          Blocks_Processed, loops_performed>>
           \/ /\ phase' = "pass"
              /\ synch_mode_buffer_size' \in {SYNCH_BLOCK_BUFFER_SIZE, MAXIMUM_ARRAY_OF_BLOCKS}
              /\ Blocks_Processed' = 0 /\ loops_performed' = 0
    PROVE  SyncInv'
<1>1. SyncTypeOK'
  BY SyncAssumption DEF SyncInv, SyncTypeOK
<1>2. \A n \in {SYNCH_BLOCK_BUFFER_SIZE, MAXIMUM_ARRAY_OF_BLOCKS} :
        Buffer_entries' < n => \E i \in 1..n : Block_Checker'[i] = NoBlock
  <2>1. Buffer_entries' \in Nat
    BY SyncAssumption
  <2> QED
    BY <2>1, BlankExists, SyncAssumption
<1>3. RoomMeansBlank'
  BY <1>2 DEF RoomMeansBlank, Held, Slots
<1> QED
  BY <1>1, <1>3 DEF SyncInv

\* A received block.
LEMMA ReceiveInv ==
    ASSUME SyncInv, NEW b \in Block, ReceiveBlock(b)
    PROVE  SyncInv'
<1> USE DEF vars, pass
<1>0. /\ Stored(b) \in [Slots -> Block \cup {NoBlock}]
      /\ StoredEntries \in 0..MAXIMUM_ARRAY_OF_BLOCKS
      /\ StoredEntries \in Nat
      /\ Cardinality(Held(Stored(b))) <= StoredEntries
      /\ Scanned(b) \in [Slots -> Block \cup {NoBlock}]
      /\ Cardinality(Held(Scanned(b))) <= StoredEntries
  BY StoredInv, ScannedInv, SyncAssumption
<1>1. CASE IgnoreBlock(b)
  BY <1>1 DEF IgnoreBlock, allVars, syncVars, buffer, SyncInv, SyncTypeOK, RoomMeansBlank,
              Candidate, Held
<1>2. CASE BufferBlock(b)
  <2>1. /\ pc = "idle" /\ pc' = pc /\ phase = "none" /\ phase' = phase
        /\ Block_Checker' = Stored(b) /\ Buffer_entries' = StoredEntries
        /\ synch_check' = synch_check /\ synch_check \in 0..MAXIMUM_ARRAY_OF_BLOCKS
    BY <1>2 DEF BufferBlock, Received, SyncInv, SyncTypeOK
  <2> QED
    BY <1>0, <1>2, <2>1, BufferStep DEF BufferBlock
<1>3. ASSUME Scans(b)
      PROVE  /\ pc = "idle" /\ phase = "none" /\ Buffer_entries' = StoredEntries
             /\ synch_check \in 0..MAXIMUM_ARRAY_OF_BLOCKS
             /\ synch_check + 1 <= MAXIMUM_ARRAY_OF_BLOCKS
                   => synch_check + 1 \in 0..MAXIMUM_ARRAY_OF_BLOCKS
             /\ 0 \in 0..MAXIMUM_ARRAY_OF_BLOCKS
  BY <1>3, SyncAssumption DEF Scans, Received, SyncInv, SyncTypeOK
<1>4. CASE ScanFindsNothing(b)
  <2>1. Scans(b) /\ Block_Checker' = Scanned(b) /\ UNCHANGED pc /\ UNCHANGED phase
    BY <1>4 DEF ScanFindsNothing
  <2>2. synch_check' \in 0..MAXIMUM_ARRAY_OF_BLOCKS
    BY <1>3, <1>4, <2>1, SyncAssumption DEF ScanFindsNothing
  <2>3. /\ Block_Checker_Array' \in {"NOT_INITIALISED", "INITIALISED"}
        /\ UNCHANGED <<synch_mode_buffer_size, Blocks_Processed, loops_performed,
                       Last_known_block_height>>
    BY <1>4 DEF ScanFindsNothing
  <2> QED
    BY <1>0, <1>3, <2>1, <2>2, <2>3, BufferStep
<1>5. CASE ScanNeverEnds(b)
  <2>1. Scans(b) /\ Block_Checker' = Scanned(b) /\ UNCHANGED pc /\ UNCHANGED synch_check
    BY <1>5 DEF ScanNeverEnds
  <2> QED
    BY <1>0, <1>3, <1>5, <2>1, BufferStep DEF ScanNeverEnds
<1>6. CASE ScanFindsSeveral(b)
  <2>1. Scans(b) /\ UNCHANGED pc /\ UNCHANGED synch_check /\ UNCHANGED phase
    BY <1>6 DEF ScanFindsSeveral
  <2>2. /\ Block_Checker' \in [Slots -> Block \cup {NoBlock}]
        /\ \A i \in Slots : Block_Checker'[i] \in {Scanned(b)[i], NoBlock}
    BY <1>0, <1>6 DEF ScanFindsSeveral
  <2>3. Cardinality(Held(Block_Checker')) <= StoredEntries
    BY <1>0, <2>2, Blanking
  <2> QED
    BY <1>0, <1>3, <1>6, <2>1, <2>2, <2>3, BufferStep DEF ScanFindsSeveral
<1>7. CASE StartPass(b)
  <2>1. Scans(b) /\ Block_Checker' = Scanned(b) /\ UNCHANGED pc /\ UNCHANGED synch_check
    BY <1>7 DEF StartPass
  <2>2. synch_mode_buffer_size' \in {SYNCH_BLOCK_BUFFER_SIZE, MAXIMUM_ARRAY_OF_BLOCKS}
    BY <1>7 DEF StartPass, BufferSize
  <2> QED
    BY <1>0, <1>3, <1>7, <2>1, <2>2, BufferStep DEF StartPass
<1> QED
  BY <1>1, <1>2, <1>4, <1>5, <1>6, <1>7 DEF ReceiveBlock

\* In a pass, the slot looked at exists.
LEMMA SlotInRange ==
    ASSUME SyncInv, Visiting
    PROVE  /\ Blocks_Processed + 1 \in Slots
           /\ Blocks_Processed + 1 \in 0..synch_mode_buffer_size
           /\ Candidate \in Block \cup {NoBlock}
           /\ loops_performed \in Nat /\ loops_performed <= Buffer_entries
BY SyncAssumption DEF SyncInv, SyncTypeOK, Visiting, PassDone, Slots, Candidate

\* A step of a pass.
LEMMA PassInv ==
    ASSUME SyncInv, PassStep
    PROVE  SyncInv'
<1> USE DEF vars
<1>1. ASSUME UNCHANGED <<Block_Checker, Buffer_entries, Block_Checker_Array>>
      PROVE  RoomMeansBlank'
  BY <1>1 DEF SyncInv, RoomMeansBlank, Held
<1>2. CASE SkipSlot
  <2>1. SyncTypeOK'
    BY <1>2, SlotInRange, SyncAssumption DEF SkipSlot, Visiting, SyncInv, SyncTypeOK, buffer
  <2> QED
    BY <1>1, <1>2, <2>1 DEF SkipSlot, buffer, SyncInv
<1>3. CASE AcceptSlot
  <2>0. /\ Blocks_Processed < synch_mode_buffer_size
        /\ loops_performed <= Buffer_entries
    BY <1>3, SlotInRange, SyncAssumption DEF AcceptSlot, Visiting, PassDone, SyncInv, SyncTypeOK
  <2>1. SyncTypeOK'
    BY <1>3, <2>0 DEF AcceptSlot, AcceptBlock, SyncInv, SyncTypeOK, buffer, Candidate
  <2> QED
    BY <1>1, <1>3, <2>1 DEF AcceptSlot, buffer, SyncInv
<1>4. CASE RefuseSlot
  <2>1. SyncTypeOK'
    BY <1>4, SlotInRange, SyncAssumption DEF RefuseSlot, RejectBlock, Visiting,
       SyncInv, SyncTypeOK, buffer, Candidate
  <2> QED
    BY <1>1, <1>4, <2>1 DEF RefuseSlot, buffer, SyncInv
<1>5. CASE AcceptReturns
  <2>0. /\ Blocks_Processed + 1 \in 0..synch_mode_buffer_size
        /\ Blocks_Processed + 1 \in Slots
        /\ loops_performed + 1 \in 0..(MAXIMUM_ARRAY_OF_BLOCKS + 1)
        /\ loops_performed + 1 <= Buffer_entries + 1
    BY <1>5, SyncAssumption DEF AcceptReturns, SyncInv, SyncTypeOK, Slots
  <2>1. Block_Checker' \in [Slots -> Block \cup {NoBlock}]
    BY <1>5 DEF AcceptReturns, SyncInv, SyncTypeOK
  <2>2. SyncTypeOK'
    BY <1>5, <2>0, <2>1 DEF AcceptReturns, SyncInv, SyncTypeOK
  <2>3. \A i \in Slots : Block_Checker'[i] \in {Block_Checker[i], NoBlock}
    BY <1>5 DEF AcceptReturns, SyncInv, SyncTypeOK
  <2>4. CASE Block_Checker_Array = "INITIALISED"
    <3>1. Buffer_entries \in Nat /\ Cardinality(Held(Block_Checker)) <= Buffer_entries
      BY <2>4, SyncAssumption DEF SyncInv, SyncTypeOK, RoomMeansBlank
    <3>2. Cardinality(Held(Block_Checker')) <= Buffer_entries
      BY <2>1, <2>3, <3>1, Blanking DEF SyncInv, SyncTypeOK
    <3>3. \A n \in {SYNCH_BLOCK_BUFFER_SIZE, MAXIMUM_ARRAY_OF_BLOCKS} :
            Buffer_entries < n => \E i \in 1..n : Block_Checker'[i] = NoBlock
      BY <3>1, <3>2, BlankExists, SyncAssumption
    <3> QED
      BY <1>5, <2>2, <3>2, <3>3 DEF AcceptReturns, RoomMeansBlank, SyncInv, Held, Slots
  <2> QED
    BY <1>5, <2>2, <2>4 DEF AcceptReturns, RoomMeansBlank, SyncInv
<1>6. CASE EndPass
  BY <1>6, SyncAssumption DEF EndPass, SyncInv, SyncTypeOK, RoomMeansBlank
<1> QED
  BY <1>2, <1>3, <1>4, <1>5, <1>6 DEF PassStep

\* A new process.
LEMMA FreshInv ==
    ASSUME Fresh, pc' = "idle"
    PROVE  SyncInv'
<1> QED
  BY SyncAssumption DEF Fresh, SyncInv, SyncTypeOK, RoomMeansBlank

\* A step of the chain store.
LEMMA StoreInv ==
    ASSUME Inv, SyncInv, StoreStep
    PROVE  SyncInv'
<1>1. CASE status = "running" /\ status' = "down"
  <2>1. Fresh /\ pc' = "idle"
    BY <1>1 DEF StoreStep, Step, LoadBlockIndex, LoadEmptyBlockIndex, LoadBlockIndexFails,
       AddToBlockIndex, SetBestChain, UpdateBest, AddToBlockIndexFails, SetBestChainFails,
       RequestShutdown, ProcessEnds
  <2> QED
    BY <2>1, FreshInv
<1>2. CASE ~(status = "running" /\ status' = "down")
  <2>1. UNCHANGED syncVars
    BY <1>2 DEF StoreStep
  <2>2. pc' # "idle" /\ cur' # Genesis => pc # "idle" /\ cur # Genesis /\ cur' = cur
    BY <1>2 DEF StoreStep, Step, LoadBlockIndex, LoadEmptyBlockIndex, LoadBlockIndexFails,
       AddToBlockIndex, SetBestChain, UpdateBest, AddToBlockIndexFails, SetBestChainFails,
       RequestShutdown, ProcessEnds, vars, Inv, FlightConsistent
  <2>3. SyncTypeOK'
    BY <2>1, <2>2 DEF SyncInv, SyncTypeOK, syncVars, buffer, pass, Candidate
  <2> QED
    BY <2>1, <2>3 DEF SyncInv, RoomMeansBlank, syncVars, buffer, Held
<1> QED
  BY <1>1, <1>2

\* Every step of the composition is a step of the chain store, or leaves its
\* variables alone.
LEMMA StepIsChainStep ==
    ASSUME SyncInv, SyncNext
    PROVE  [Next]_vars
<1>1. ASSUME NEW b \in Block, ReceiveBlock(b) PROVE UNCHANGED vars
  BY <1>1 DEF ReceiveBlock, IgnoreBlock, BufferBlock, ScanFindsNothing, ScanNeverEnds,
     ScanFindsSeveral, StartPass, allVars
<1>2. CASE AcceptSlot
  <2>1. Candidate \in Block
    BY <1>2, SlotInRange DEF AcceptSlot
  <2> QED
    BY <1>2, <2>1 DEF AcceptSlot, Next
<1>3. CASE SkipSlot \/ RefuseSlot \/ AcceptReturns \/ EndPass \/ Spin
  BY <1>3 DEF SkipSlot, RefuseSlot, RejectBlock, AcceptReturns, EndPass, Spin, allVars
<1>4. ASSUME NEW h \in PeerHeights, Version(h) PROVE UNCHANGED vars
  BY <1>4 DEF Version
<1>5. ASSUME NEW b \in Block, MineBlock(b) PROVE Next
  BY <1>5 DEF MineBlock, Crash, Next
<1>6. CASE StoreStep \/ EndOfProcess
  BY <1>6 DEF StoreStep, EndOfProcess, Next
<1> QED
  BY <1>1, <1>2, <1>3, <1>4, <1>5, <1>6 DEF SyncNext, PassStep

\* SyncInv is inductive, given what BlockChain keeps.
LEMMA SyncNextInv ==
    ASSUME Inv, SyncInv, [SyncNext]_allVars
    PROVE  SyncInv'
<1>1. CASE UNCHANGED allVars
  BY <1>1 DEF allVars, vars, syncVars, buffer, pass, SyncInv, SyncTypeOK, RoomMeansBlank,
     Candidate, Held
<1>2. ASSUME NEW h \in PeerHeights, Version(h) PROVE SyncInv'
  <2>1. SyncTypeOK'
    BY <1>2 DEF Version, SyncInv, SyncTypeOK, vars, buffer, pass
  <2> QED
    BY <1>2, <2>1 DEF Version, SyncInv, RoomMeansBlank, buffer, Held
<1>3. ASSUME NEW b \in Block, MineBlock(b) PROVE SyncInv'
  BY <1>3, FreshInv DEF MineBlock, ProcessEnds
<1>4. CASE EndOfProcess
  BY <1>4, FreshInv DEF EndOfProcess, Crash, Shutdown, ProcessEnds
<1>5. CASE Spin
  BY <1>1, <1>5 DEF Spin
<1> QED
  BY <1>1, <1>2, <1>3, <1>4, <1>5, ReceiveInv, PassInv, StoreInv DEF SyncNext

---------------------------------------------------------------------------

\* The initial state.
LEMMA SyncInitInv == SyncInit => SyncInv
<1> QED
  BY SyncAssumption DEF SyncInit, Init, SyncInv, SyncTypeOK, RoomMeansBlank

\* The inductive invariant of the composition: that of the chain store, and
\* the accounting of the buffer.
THEOREM SyncInvariance == SyncSpec => [](Inv /\ SyncInv)
<1>1. SyncInit => Inv /\ SyncInv
  BY SyncInitInv, InitInv DEF SyncInit
<1>2. Inv /\ SyncInv /\ [SyncNext]_allVars => (Inv /\ SyncInv)'
  <2> SUFFICES ASSUME Inv, SyncInv, [SyncNext]_allVars PROVE Inv' /\ SyncInv'
    OBVIOUS
  <2>1. [Next]_vars
    BY StepIsChainStep DEF allVars
  <2> QED
    BY <2>1, NextInv, SyncNextInv
<1> QED
  BY <1>1, <1>2, PTL DEF SyncSpec

\* A pass never reads past the slots in use, whatever the size of the buffer.
THEOREM SyncTypeCorrect == SyncSpec => []SyncTypeOK
<1> QED
  BY SyncInvariance, PTL DEF SyncInv

\* While Buffer_entries says there is room, a received block finds a slot, for
\* every size of the buffer and every way it changes between two blocks.
THEOREM RoomAlwaysBlank == SyncSpec => []RoomMeansBlank
<1> QED
  BY SyncInvariance, PTL DEF SyncInv

\* The composition implements the chain store, so everything proved of
\* BlockChain holds of a node that takes its blocks from the buffer.
THEOREM SyncImplementsChain == SyncSpec => ImplementsBlockChain
<1>1. SyncInit => Init
  BY DEF SyncInit
<1>2. SyncInv /\ [SyncNext]_allVars => [Next]_vars
  BY StepIsChainStep DEF allVars
<1> QED
  BY <1>1, <1>2, SyncInvariance, PTL DEF SyncSpec, Spec, ImplementsBlockChain

---------------------------------------------------------------------------
(* What a pass reaches. *)

\* AcceptBlock refuses the block of the slot, and will for as long as the pass
\* stays there: it is known, or out of context, or the node is shutting down.
Refused == Candidate # NoBlock /\ Prev[Candidate] = hashBestChain /\ ~Acceptable(Candidate)

\* Blocks are stored in the first blank slot, so none lies beyond Buffer_entries.
HeldBelow == Block_Checker_Array = "INITIALISED" => Held(Block_Checker) \subseteq 1..Buffer_entries

\* loops_performed runs ahead of Blocks_Processed only at a block that is refused;
\* a commit that fails leaves such a block behind.
LoopsExplained ==
    /\ phase \in {"pass", "accept"} => status = "running" /\ Block_Checker_Array = "INITIALISED"
    /\ phase = "pass" =>
          /\ pc = "idle"
          /\ loops_performed = Blocks_Processed
                \/ (Blocks_Processed < synch_mode_buffer_size /\ Refused)
    /\ phase = "accept" =>
          /\ loops_performed = Blocks_Processed
          /\ Candidate # NoBlock
          /\ IF pc = "idle" THEN hashBestChain = Candidate \/ Refused
                            ELSE cur = Candidate /\ Prev[cur] = hashBestChain

ReachInv == HeldBelow /\ LoopsExplained

\* Phase 1 stores in the slot after the ones that can hold a block, or before it.
LEMMA StoredBelow ==
    ASSUME SyncInv, HeldBelow, NEW b \in Block
    PROVE  Held(Stored(b)) \subseteq 1..StoredEntries /\ StoredEntries \in Nat
<1>1. BufferSize \in 1..MAXIMUM_ARRAY_OF_BLOCKS /\ MAXIMUM_ARRAY_OF_BLOCKS \in Nat
  BY SyncAssumption DEF BufferSize
<1>2. InitialisedEntries \in Nat /\ Held(Initialised) \subseteq 1..InitialisedEntries
  BY SyncAssumption DEF Initialised, InitialisedEntries, HeldBelow, Held, SyncInv, SyncTypeOK
<1>3. CASE ~Stores
  BY <1>2, <1>3 DEF Stored, StoredEntries, Held
<1>4. CASE Stores
  <2>1. StoredEntries = InitialisedEntries + 1 /\ InitialisedEntries < BufferSize
    BY <1>4 DEF StoredEntries, Stores
  <2>2. InitialisedEntries + 1 \in 1..BufferSize /\ InitialisedEntries + 1 \in Slots
    BY <1>1, <1>2, <2>1 DEF Slots
  <2>3. Initialised[InitialisedEntries + 1] = NoBlock
    BY <1>2, <2>2 DEF Held
  <2>4. FirstBlank \subseteq 1..(InitialisedEntries + 1)
    <3> SUFFICES ASSUME NEW i \in FirstBlank, i > InitialisedEntries + 1 PROVE FALSE
      BY <1>1, <1>2 DEF FirstBlank
    <3>1. InitialisedEntries + 1 \in 1..(i - 1)
      BY <1>1, <1>2 DEF FirstBlank
    <3> QED
      BY <2>3, <3>1 DEF FirstBlank
  <2>5. Held(Stored(b)) \subseteq Held(Initialised) \cup FirstBlank
    BY DEF Held, Stored
  <2>6. 1..InitialisedEntries \subseteq 1..(InitialisedEntries + 1)
    BY <1>2
  <2>7. Held(Stored(b)) \subseteq 1..(InitialisedEntries + 1)
    BY <1>2, <2>4, <2>5, <2>6
  <2>8. StoredEntries \in Nat
    BY <1>2, <2>1
  <2> QED
    BY <2>1, <2>7, <2>8
<1> QED
  BY <1>3, <1>4

\* A received block.
LEMMA ReceiveReach ==
    ASSUME SyncInv, ReachInv, NEW b \in Block, ReceiveBlock(b)
    PROVE  ReachInv'
<1> USE DEF vars, pass, buffer
<1>1. Held(Stored(b)) \subseteq 1..StoredEntries /\ Held(Scanned(b)) \subseteq Held(Stored(b))
  BY StoredBelow DEF ReachInv, Held, Scanned
<1>2. ASSUME Held(Block_Checker') \subseteq Held(Stored(b)), Buffer_entries' = StoredEntries
      PROVE  HeldBelow'
  <2>1. Held(Block_Checker)' = Held(Block_Checker')
    BY DEF Held, Slots
  <2> QED
    BY <1>1, <1>2, <2>1 DEF HeldBelow
<1>3. ASSUME phase' \in {"none", "stuck"} PROVE LoopsExplained'
  BY <1>3 DEF LoopsExplained
<1>4. CASE IgnoreBlock(b)
  BY <1>4 DEF IgnoreBlock, allVars, syncVars, ReachInv, HeldBelow, LoopsExplained, Refused,
              Candidate, Held, memory, Acceptable
<1>5. CASE BufferBlock(b)
  <2>1. Block_Checker' = Stored(b) /\ Buffer_entries' = StoredEntries /\ phase' = "none"
    BY <1>5 DEF BufferBlock, Received
  <2> QED
    BY <1>2, <1>3, <2>1 DEF ReachInv
<1>6. CASE ScanFindsNothing(b) \/ ScanNeverEnds(b)
  <2>1. Block_Checker' = Scanned(b) /\ Buffer_entries' = StoredEntries
        /\ phase' \in {"none", "stuck"}
    BY <1>6 DEF ScanFindsNothing, ScanNeverEnds, Scans, Received
  <2> QED
    BY <1>1, <1>2, <1>3, <2>1 DEF ReachInv
<1>7. CASE ScanFindsSeveral(b)
  <2>1. Buffer_entries' = StoredEntries /\ phase' = "none"
    BY <1>7 DEF ScanFindsSeveral, Scans, Received
  <2>2. Held(Block_Checker') \subseteq Held(Scanned(b))
    BY <1>7 DEF ScanFindsSeveral, Held
  <2> QED
    BY <1>1, <1>2, <1>3, <2>1, <2>2 DEF ReachInv
<1>8. CASE StartPass(b)
  <2>1. Block_Checker' = Scanned(b) /\ Buffer_entries' = StoredEntries
    BY <1>8 DEF StartPass, Scans
  <2>2. LoopsExplained'
    BY <1>8 DEF StartPass, Scans, Received, LoopsExplained
  <2> QED
    BY <1>1, <1>2, <2>1, <2>2 DEF ReachInv
<1> QED
  BY <1>4, <1>5, <1>6, <1>7, <1>8 DEF ReceiveBlock

\* A step of a pass: it goes on from a slot unless the block there is refused.
LEMMA PassReach ==
    ASSUME Inv, SyncInv, ReachInv, PassStep
    PROVE  ReachInv'
<1> USE DEF vars, buffer
<1>1. CASE SkipSlot
  <2>1. UNCHANGED <<Block_Checker, Buffer_entries, Block_Checker_Array, phase, pc, status>>
        /\ phase = "pass"
    BY <1>1 DEF SkipSlot, Visiting
  <2>2. ~Refused
    BY <1>1 DEF SkipSlot, Refused
  <2>3. loops_performed' = Blocks_Processed'
    BY <1>1, <2>1, <2>2 DEF SkipSlot, ReachInv, LoopsExplained
  <2>4. HeldBelow'
    BY <2>1 DEF ReachInv, HeldBelow, Held
  <2>5. LoopsExplained'
    BY <2>1, <2>3 DEF ReachInv, LoopsExplained
  <2> QED
    BY <2>4, <2>5 DEF ReachInv
<1>2. CASE AcceptSlot
  <2>1. UNCHANGED <<Block_Checker, Buffer_entries, Block_Checker_Array, Blocks_Processed,
                    loops_performed, synch_mode_buffer_size, status, hashBestChain>>
        /\ phase = "pass" /\ phase' = "accept" /\ pc' = "file" /\ cur' = Candidate
        /\ Candidate # NoBlock /\ Prev[Candidate] = hashBestChain /\ Acceptable(Candidate)
    BY <1>2 DEF AcceptSlot, AcceptBlock, Visiting, memory
  <2>2. loops_performed = Blocks_Processed
    BY <2>1 DEF ReachInv, LoopsExplained, Refused
  <2>3. HeldBelow'
    BY <2>1 DEF ReachInv, HeldBelow, Held
  <2>4. LoopsExplained'
    BY <2>1, <2>2 DEF ReachInv, LoopsExplained, Candidate
  <2> QED
    BY <2>3, <2>4 DEF ReachInv
<1>3. CASE RefuseSlot
  <2>1. UNCHANGED <<Block_Checker, Buffer_entries, Block_Checker_Array, Blocks_Processed, phase,
                    synch_mode_buffer_size, status, pc, hashBestChain, mapBlockIndex,
                    fRequestShutdown>>
        /\ phase = "pass" /\ ~PassDone
        /\ Candidate # NoBlock /\ Prev[Candidate] = hashBestChain /\ ~Acceptable(Candidate)
    BY <1>3 DEF RefuseSlot, RejectBlock, Visiting, memory
  <2>2. Refused'
    BY <2>1 DEF Refused, Candidate, Acceptable
  <2>3. Blocks_Processed < synch_mode_buffer_size
    BY <2>1, SyncAssumption DEF PassDone, SyncInv, SyncTypeOK
  <2>4. HeldBelow'
    BY <2>1 DEF ReachInv, HeldBelow, Held
  <2>5. LoopsExplained'
    BY <2>1, <2>2, <2>3 DEF ReachInv, LoopsExplained
  <2> QED
    BY <2>4, <2>5 DEF ReachInv
<1>4. CASE AcceptReturns
  <2>1. UNCHANGED <<Buffer_entries, Block_Checker_Array, synch_mode_buffer_size, status, pc,
                    hashBestChain, mapBlockIndex, fRequestShutdown>>
        /\ phase = "accept" /\ phase' = "pass" /\ pc = "idle"
        /\ loops_performed' = loops_performed + 1 /\ loops_performed = Blocks_Processed
        /\ Blocks_Processed < synch_mode_buffer_size
    BY <1>4 DEF AcceptReturns, ReachInv, LoopsExplained, SyncInv, SyncTypeOK, memory
  <2>2. Held(Block_Checker)' \subseteq Held(Block_Checker)
    BY <1>4 DEF AcceptReturns, Held, Slots, SyncInv, SyncTypeOK
  <2>3. HeldBelow'
    BY <2>1, <2>2 DEF ReachInv, HeldBelow
  <2>4. CASE hashBestChain = Candidate
    <3>1. loops_performed' = Blocks_Processed'
      BY <1>4, <2>1, <2>4 DEF AcceptReturns
    <3> QED
      BY <2>1, <2>3, <3>1 DEF ReachInv, LoopsExplained
  <2>5. CASE hashBestChain # Candidate
    <3>1. Refused /\ UNCHANGED <<Block_Checker, Blocks_Processed>>
      BY <1>4, <2>1, <2>5 DEF AcceptReturns, ReachInv, LoopsExplained
    <3>2. Refused'
      BY <2>1, <3>1 DEF Refused, Candidate, Acceptable
    <3> QED
      BY <2>1, <2>3, <3>1, <3>2 DEF ReachInv, LoopsExplained
  <2> QED
    BY <2>4, <2>5
<1>5. CASE EndPass
  BY <1>5 DEF EndPass, ReachInv, HeldBelow, LoopsExplained
<1> QED
  BY <1>1, <1>2, <1>3, <1>4, <1>5 DEF PassStep

\* A new process.
LEMMA FreshReach == Fresh => ReachInv'
BY DEF Fresh, ReachInv, HeldBelow, LoopsExplained

\* A step of the chain store: a commit that fails leaves the block in mapBlockIndex,
\* and AcceptBlock refuses it from then on.
LEMMA StoreReach ==
    ASSUME Inv, SyncInv, ReachInv, StoreStep
    PROVE  ReachInv'
<1>1. CASE status = "running" /\ status' = "down"
  BY <1>1, FreshReach DEF StoreStep
<1>2. CASE ~(status = "running" /\ status' = "down")
  <2>1. UNCHANGED syncVars
    BY <1>2 DEF StoreStep
  <2>2. UNCHANGED Candidate
    BY <2>1 DEF syncVars, buffer, pass, Candidate
  <2>3. HeldBelow'
    BY <2>1 DEF ReachInv, HeldBelow, Held, syncVars, buffer
  <2>4. CASE phase = "pass"
    <3>1. status = "running" /\ pc = "idle"
      BY <2>4 DEF ReachInv, LoopsExplained
    <3>2. RequestShutdown
      BY <1>2, <3>1 DEF StoreStep, Step, LoadBlockIndex, LoadEmptyBlockIndex,
         LoadBlockIndexFails, AddToBlockIndex, SetBestChain, UpdateBest, AddToBlockIndexFails,
         SetBestChainFails
    <3>3. UNCHANGED <<status, pc, hashBestChain, mapBlockIndex>> /\ fRequestShutdown'
      BY <3>2 DEF RequestShutdown, memory
    <3>4. Refused => Refused'
      BY <2>2, <3>3 DEF Refused, Acceptable
    <3> QED
      BY <2>1, <2>3, <2>4, <3>3, <3>4 DEF ReachInv, LoopsExplained, syncVars, buffer, pass
  <2>5. CASE phase = "accept"
    <3>1. status = "running" /\ Candidate # NoBlock /\ loops_performed = Blocks_Processed
      BY <2>5 DEF ReachInv, LoopsExplained
    <3>2. status' = "running"
      BY <1>2, <3>1 DEF StoreStep, Step, LoadBlockIndex, LoadEmptyBlockIndex,
         LoadBlockIndexFails, AddToBlockIndex, SetBestChain, UpdateBest, AddToBlockIndexFails,
         SetBestChainFails, RequestShutdown, ProcessEnds
    <3>3. IF pc' = "idle" THEN hashBestChain' = Candidate \/ Refused'
                          ELSE cur' = Candidate /\ Prev[cur'] = hashBestChain'
      <4>1. CASE RequestShutdown
        <5>1. UNCHANGED <<pc, cur, hashBestChain, mapBlockIndex>> /\ fRequestShutdown'
          BY <4>1 DEF RequestShutdown, memory
        <5>2. Refused => Refused'
          BY <2>2, <5>1 DEF Refused, Acceptable
        <5> QED
          BY <2>5, <5>1, <5>2 DEF ReachInv, LoopsExplained
      <4>2. ASSUME pc # "idle", hashBestChain' = hashBestChain, Candidate \in DOMAIN mapBlockIndex'
            PROVE  Refused'
        <5>1. cur = Candidate /\ Prev[cur] = hashBestChain
          BY <2>5, <4>2 DEF ReachInv, LoopsExplained
        <5>2. Candidate' = Candidate
          BY <2>2
        <5> QED
          BY <3>1, <4>2, <5>1, <5>2 DEF Refused, Acceptable
      <4>3. CASE AddToBlockIndex
        <5>1. pc # "idle" /\ cur = Candidate /\ Prev[cur] = hashBestChain
          BY <2>5, <4>3 DEF AddToBlockIndex, ReachInv, LoopsExplained
        <5>2. hashBestChain' = hashBestChain /\ cur \in DOMAIN mapBlockIndex'
          BY <4>3 DEF AddToBlockIndex, Insert
        <5>3. pc' = "idle" \/ cur' = cur
          BY <4>3 DEF AddToBlockIndex
        <5> QED
          BY <4>2, <5>1, <5>2, <5>3
      <4>4. CASE SetBestChain
        BY <2>5, <4>4 DEF SetBestChain, ReachInv, LoopsExplained, memory
      <4>5. CASE UpdateBest
        BY <2>5, <4>5 DEF UpdateBest, ReachInv, LoopsExplained
      <4>6. CASE AddToBlockIndexFails
        <5>1. pc # "idle" /\ cur = Candidate /\ cur # Genesis
          BY <1>2, <2>5, <3>2, <4>6 DEF AddToBlockIndexFails, ReachInv, LoopsExplained, ProcessEnds
        <5>2. pc' = "idle" /\ hashBestChain' = hashBestChain /\ cur \in DOMAIN mapBlockIndex'
          BY <4>6, <5>1 DEF AddToBlockIndexFails, Insert
        <5> QED
          BY <4>2, <5>1, <5>2
      <4>7. CASE SetBestChainFails
        <5>1. pc = "index" /\ cur = Candidate /\ cur # Genesis
          BY <1>2, <2>5, <3>2, <4>7 DEF SetBestChainFails, ReachInv, LoopsExplained, ProcessEnds
        <5>2. pc' = "idle" /\ hashBestChain' = hashBestChain /\ cur \in DOMAIN mapBlockIndex'
          BY <4>7, <5>1 DEF SetBestChainFails, memory, Inv, FlightConsistent
        <5> QED
          BY <4>2, <5>1, <5>2
      <4>8. CASE LoadBlockIndex \/ LoadEmptyBlockIndex \/ LoadBlockIndexFails
        BY <3>1, <4>8 DEF LoadBlockIndex, LoadEmptyBlockIndex, LoadBlockIndexFails
      <4> QED
        BY <4>1, <4>3, <4>4, <4>5, <4>6, <4>7, <4>8 DEF StoreStep, Step
    <3>4. UNCHANGED <<phase, loops_performed, Blocks_Processed, Block_Checker_Array>>
      BY <2>1 DEF syncVars, buffer, pass
    <3>5. LoopsExplained'
      BY <2>2, <2>5, <3>1, <3>2, <3>3, <3>4 DEF ReachInv, LoopsExplained
    <3> QED
      BY <2>3, <3>5 DEF ReachInv
  <2>6. CASE phase \notin {"pass", "accept"}
    BY <2>1, <2>3, <2>6 DEF ReachInv, LoopsExplained, syncVars, pass
  <2> QED
    BY <2>4, <2>5, <2>6
<1> QED
  BY <1>1, <1>2

\* ReachInv is inductive beside Inv and SyncInv.
LEMMA ReachNext ==
    ASSUME Inv, SyncInv, ReachInv, [SyncNext]_allVars
    PROVE  ReachInv'
<1>1. CASE UNCHANGED allVars
  BY <1>1 DEF allVars, vars, syncVars, buffer, pass, memory, ReachInv, HeldBelow,
     LoopsExplained, Refused, Acceptable, Candidate, Held
<1>2. ASSUME NEW h \in PeerHeights, Version(h) PROVE ReachInv'
  BY <1>2 DEF Version, vars, buffer, pass, ReachInv, HeldBelow, LoopsExplained, Held
<1>3. ASSUME NEW b \in Block, MineBlock(b) PROVE ReachInv'
  BY <1>3, FreshReach DEF MineBlock
<1>4. CASE EndOfProcess
  BY <1>4, FreshReach DEF EndOfProcess
<1>5. CASE Spin
  BY <1>1, <1>5 DEF Spin
<1> QED
  BY <1>1, <1>2, <1>3, <1>4, <1>5, ReceiveReach, PassReach, StoreReach DEF SyncNext

\* A pass ends with every block of the slots in use visited, or at a block that
\* AcceptBlock refuses: what ProcessBlock drops with the buffer it has offered.
THEOREM PassesCoverBuffer == SyncSpec => []PassCoversBuffer
<1>1. SyncInit => ReachInv
  BY DEF SyncInit, ReachInv, HeldBelow, LoopsExplained
<1>2. (Inv /\ SyncInv) /\ ReachInv /\ [SyncNext]_allVars => ReachInv'
  BY ReachNext
<1>3. SyncInv /\ ReachInv => PassCoversBuffer
  <2> SUFFICES ASSUME SyncInv, ReachInv, phase = "pass", PassDone,
                      Blocks_Processed < synch_mode_buffer_size, ~Refused
               PROVE  \A i \in (Blocks_Processed + 1)..synch_mode_buffer_size :
                         Block_Checker[i] = NoBlock
    BY DEF PassCoversBuffer, Refused, Acceptable
  <2>1. /\ Blocks_Processed \in Nat /\ Buffer_entries \in Nat
        /\ synch_mode_buffer_size \in 1..MAXIMUM_ARRAY_OF_BLOCKS
    BY SyncAssumption DEF SyncInv, SyncTypeOK
  <2>2. Blocks_Processed > Buffer_entries
    BY <2>1 DEF PassDone, ReachInv, LoopsExplained
  <2>3. Held(Block_Checker) \subseteq 1..Buffer_entries
    BY DEF ReachInv, LoopsExplained, HeldBelow
  <2> SUFFICES ASSUME NEW i \in (Blocks_Processed + 1)..synch_mode_buffer_size
               PROVE  Block_Checker[i] = NoBlock
    OBVIOUS
  <2>4. i \in Slots /\ i \notin 1..Buffer_entries
    BY <2>1, <2>2, SyncAssumption DEF Slots
  <2> QED
    BY <2>3, <2>4 DEF Held
<1> QED
  BY <1>1, <1>2, <1>3, SyncInvariance, PTL DEF SyncSpec

\* What is shown of the chain store holds of a node with its buffer: its chain is
\* DurableChain's, records off the chain are counted and stay off, and the disk
\* names no block it does not hold.
THEOREM ChainSoundUnderSync ==
    SyncSpec => /\ ImplementsDurableChain /\ AppendOnly /\ StrayStaysOut
                /\ [](DiskConsistent /\ StraysCounted)
  BY SyncImplementsChain, Refinement, ChainAppendOnly, StraysAlwaysStayOut,
     DiskAlwaysConsistent, StraysAlwaysCounted, PTL DEF ImplementsBlockChain

---------------------------------------------------------------------------
(* A pass comes to its end. *)

\* A pass is under way.
InPass == phase \in {"pass", "accept"}

\* What AcceptBlock still has to do for the block of the slot.
StagesLeft == IF phase = "pass" THEN 5
              ELSE IF pc = "file" THEN 4
              ELSE IF pc = "index" THEN 3
              ELSE IF pc = "best" THEN 2 ELSE 1

\* A bound on the steps that are left of a pass: the loops it may still make, the
\* stages of each, and one request to shut down, which may come at any of them.
PassWork == 2 * (5 * (MAXIMUM_ARRAY_OF_BLOCKS + 1 - loops_performed) + StagesLeft)
            + (IF fRequestShutdown THEN 0 ELSE 1)

\* Every step that is taken during a pass lowers the bound, or ends the pass.
PassNearsEnd == [][InPass => ~InPass' \/ PassWork' < PassWork]_allVars

\* loops_performed and the stages are in range.
LEMMA PassWorkType ==
    ASSUME SyncInv
    PROVE  /\ loops_performed \in Nat /\ StagesLeft \in 1..5 /\ PassWork \in Nat
           /\ MAXIMUM_ARRAY_OF_BLOCKS \in Nat
           /\ loops_performed <= MAXIMUM_ARRAY_OF_BLOCKS + 1
<1>1. /\ loops_performed \in Nat /\ MAXIMUM_ARRAY_OF_BLOCKS \in Nat
      /\ loops_performed <= MAXIMUM_ARRAY_OF_BLOCKS + 1
  BY SyncAssumption DEF SyncInv, SyncTypeOK
<1>2. StagesLeft \in 1..5
  BY DEF StagesLeft
<1>3. PassWork \in Nat
  BY <1>1, <1>2 DEF PassWork
<1> QED
  BY <1>1, <1>2, <1>3

\* One more loop outweighs the stages of the next one.
LEMMA LoopLowers ==
    ASSUME SyncInv, SyncInv', UNCHANGED fRequestShutdown,
           \/ loops_performed' = loops_performed + 1 /\ StagesLeft' <= StagesLeft + 4
           \/ loops_performed' = loops_performed /\ StagesLeft' < StagesLeft
    PROVE  PassWork' < PassWork
<1>1. /\ loops_performed \in Nat /\ StagesLeft \in 1..5 /\ StagesLeft' \in 1..5
      /\ MAXIMUM_ARRAY_OF_BLOCKS \in Nat
  <2>1. StagesLeft' \in 1..5
    BY DEF StagesLeft
  <2> QED
    BY <2>1, PassWorkType
<1> DEFINE x == StagesLeft
           y == StagesLeft'
           l == loops_performed
           m == MAXIMUM_ARRAY_OF_BLOCKS
<1>2. /\ PassWork = 2 * (5 * (m + 1 - l) + x) + (IF fRequestShutdown THEN 0 ELSE 1)
      /\ PassWork' = 2 * (5 * (m + 1 - l') + y) + (IF fRequestShutdown THEN 0 ELSE 1)
  BY DEF PassWork
<1> HIDE DEF x, y, l, m
<1>3. /\ l \in Nat /\ x \in 1..5 /\ y \in 1..5 /\ m \in Nat
      /\ (l' = l + 1 /\ y <= x + 4) \/ (l' = l /\ y < x)
  BY <1>1 DEF x, y, l, m
<1> QED
  BY <1>2, <1>3

\* The steps of the handler between two calls of AcceptBlock.
LEMMA PassStepLowers ==
    ASSUME SyncInv, SyncInv', PassStep, InPass'
    PROVE  PassWork' < PassWork
<1>1. CASE SkipSlot \/ RefuseSlot
  <2>1. /\ loops_performed' = loops_performed + 1 /\ phase = "pass" /\ phase' = "pass"
        /\ UNCHANGED fRequestShutdown
    BY <1>1 DEF SkipSlot, RefuseSlot, RejectBlock, Visiting, vars
  <2>2. StagesLeft = 5 /\ StagesLeft' = 5
    BY <2>1 DEF StagesLeft
  <2> QED
    BY <2>1, <2>2, LoopLowers
<1>2. CASE AcceptSlot
  <2>1. /\ loops_performed' = loops_performed /\ phase = "pass"
        /\ phase' = "accept" /\ pc' = "file" /\ UNCHANGED fRequestShutdown
    BY <1>2 DEF AcceptSlot, AcceptBlock, Visiting
  <2>2. StagesLeft = 5 /\ StagesLeft' = 4
    BY <2>1 DEF StagesLeft
  <2> QED
    BY <2>1, <2>2, LoopLowers
<1>3. CASE AcceptReturns
  <2>1. /\ loops_performed' = loops_performed + 1 /\ phase = "accept" /\ pc = "idle"
        /\ phase' = "pass" /\ UNCHANGED fRequestShutdown
    BY <1>3 DEF AcceptReturns, vars
  <2>2. StagesLeft = 1 /\ StagesLeft' = 5
    BY <2>1 DEF StagesLeft
  <2> QED
    BY <2>1, <2>2, LoopLowers
<1>4. ~EndPass
  BY DEF EndPass, InPass
<1> QED
  BY <1>1, <1>2, <1>3, <1>4 DEF PassStep

\* The steps of AcceptBlock, with the commits that fail, and a request to shut down.
LEMMA StoreStepLowers ==
    ASSUME SyncInv, SyncInv', ReachInv, StoreStep, InPass, InPass'
    PROVE  PassWork' < PassWork
<1>1. status = "running"
  BY DEF InPass, ReachInv, LoopsExplained
<1>2. UNCHANGED <<phase, loops_performed>> /\ status' # "down"
  <2>1. ~(status = "running" /\ status' = "down")
    BY DEF StoreStep, Fresh, InPass
  <2> QED
    BY <1>1, <2>1 DEF StoreStep, syncVars, pass
<1>3. CASE RequestShutdown
  <2>1. UNCHANGED pc /\ fRequestShutdown = FALSE /\ fRequestShutdown' = TRUE
    BY <1>3 DEF RequestShutdown
  <2>2. StagesLeft' = StagesLeft
    BY <1>2, <2>1 DEF StagesLeft
  <2> QED
    BY <1>2, <2>1, <2>2, PassWorkType DEF PassWork
<1>4. CASE ~RequestShutdown
  <2>1. /\ UNCHANGED fRequestShutdown
        /\ \/ pc = "file" /\ pc' \in {"index", "idle"}
           \/ pc = "index" /\ pc' \in {"best", "idle"}
           \/ pc = "best" /\ pc' = "idle"
    BY <1>1, <1>2, <1>4 DEF StoreStep, Step, LoadBlockIndex, LoadEmptyBlockIndex,
       LoadBlockIndexFails, AddToBlockIndex, SetBestChain, UpdateBest, AddToBlockIndexFails,
       SetBestChainFails, ProcessEnds
  <2>2. phase = "accept"
    BY <2>1 DEF InPass, ReachInv, LoopsExplained
  <2>3. StagesLeft' < StagesLeft
    BY <1>2, <2>1, <2>2 DEF StagesLeft
  <2> QED
    BY <1>2, <2>1, <2>3, LoopLowers
<1> QED
  BY <1>3, <1>4

\* ProcessBlock does not run for ever: the work of a pass is a natural number that
\* every step of the node lowers until the pass is over, whatever commits fail,
\* whatever the buffer holds and whenever a shutdown is requested. With a handler
\* thread that runs on, this is why PassEnds holds, for every size of the buffer.
THEOREM PassesNearTheirEnd == SyncSpec => [](PassWork \in Nat) /\ PassNearsEnd
<1>1. SyncInit => ReachInv
  BY DEF SyncInit, ReachInv, HeldBelow, LoopsExplained
<1>2. (Inv /\ SyncInv) /\ ReachInv /\ [SyncNext]_allVars => ReachInv'
  BY ReachNext
<1>3. SyncInv => PassWork \in Nat
  BY PassWorkType
<1>4. ASSUME SyncInv, SyncInv', ReachInv, [SyncNext]_allVars
      PROVE  [InPass => ~InPass' \/ PassWork' < PassWork]_allVars
  <2> SUFFICES ASSUME SyncNext, InPass, InPass'
               PROVE  PassWork' < PassWork
    BY <1>4
  <2>1. \A b \in Block : ~ReceiveBlock(b) /\ ~MineBlock(b)
    BY DEF ReceiveBlock, IgnoreBlock, BufferBlock, ScanFindsNothing, ScanNeverEnds,
       ScanFindsSeveral, StartPass, Scans, Received, MineBlock, InPass
  <2>2. ~Spin /\ \A h \in PeerHeights : ~Version(h)
    BY DEF Spin, Version, InPass
  <2>3. ~EndOfProcess
    BY DEF EndOfProcess, Fresh, InPass
  <2>4. PassStep \/ StoreStep
    BY <2>1, <2>2, <2>3 DEF SyncNext
  <2>5. CASE PassStep
    BY <1>4, <2>5, PassStepLowers
  <2>6. CASE StoreStep
    BY <1>4, <2>6, StoreStepLowers
  <2> QED
    BY <2>4, <2>5, <2>6
<1> QED
  BY <1>1, <1>2, <1>3, <1>4, SyncInvariance, PTL DEF SyncSpec, PassNearsEnd
=============================================================================
