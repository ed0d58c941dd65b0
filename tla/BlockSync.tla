----------------------------- MODULE BlockSync -----------------------------
(***************************************************************************)
(* How received blocks reach AcceptBlock: the "block" message handler and  *)
(* ProcessBlock with its buffer Block_Checker[], composed with the chain   *)
(* store of BlockChain.                                                    *)
(*                                                                         *)
(* One thread, msghand, handles the messages of all peers. A block waits   *)
(* in the buffer until enough have arrived; then one pass of a loop over   *)
(* the slots offers each block that follows the best one to AcceptBlock,   *)
(* and the buffer is cleared. The steps of AcceptBlock are those of        *)
(* BlockChain, so the process can end, or a commit fail, inside the pass.  *)
(*                                                                         *)
(* Times are in units of 8 seconds, so that the thresholds are exact and   *)
(* unsigned 32-bit arithmetic is arithmetic modulo 2^29.                   *)
(***************************************************************************)
EXTENDS BlockChain

CONSTANTS
    nTime,                      \* timestamp of every block
    MAXIMUM_ARRAY_OF_BLOCKS,    \* slots of Block_Checker (30)
    SYNCH_BLOCK_BUFFER_SIZE,    \* slots in use close to the tip (3)
    NearTip,                    \* how close that is (20 blocks)
    MatchHeight,                \* no reset of the buffer at once above it (1000)
    PeerHeights                 \* the nStartingHeight values that peers announce

TimeModulus == 2^29
AgeLimit == 5000000 \div 8
FarAhead == 10000000 \div 8
Late == 1000 \div 8

ASSUME SyncAssumption ==
    /\ nTime \in [Block -> 0..(TimeModulus - 1)]
    /\ MAXIMUM_ARRAY_OF_BLOCKS \in Nat
    /\ SYNCH_BLOCK_BUFFER_SIZE \in 1..MAXIMUM_ARRAY_OF_BLOCKS
    /\ NearTip \in Nat
    /\ MatchHeight \in Nat
    /\ PeerHeights \subseteq Nat

VARIABLES
    Block_Checker,              \* slot -> block, NoBlock when blank
    Buffer_entries,             \* blocks stored since the buffer was cleared
    Block_Checker_Array,        \* "NOT_INITIALISED", "INITIALISED"
    synch_check,                \* blocks received with no match in the buffer
    Last_known_block_height,    \* the greatest nStartingHeight of a peer
    phase,                      \* where msghand is in ProcessBlock
    synch_mode_buffer_size,     \* slots that the running pass visits
    Blocks_Processed,           \* slots that it is done with
    loops_performed

buffer == <<Block_Checker, Buffer_entries, Block_Checker_Array, synch_check>>
pass == <<phase, synch_mode_buffer_size, Blocks_Processed, loops_performed>>
syncVars == <<buffer, Last_known_block_height, pass>>
allVars == <<vars, syncVars>>

---------------------------------------------------------------------------
(***************************************************************************)
(* Phase 1: store the received block.                                      *)
(***************************************************************************)

Slots == 1..MAXIMUM_ARRAY_OF_BLOCKS

nBestHeight == mapBlockIndex[hashBestChain].nHeight

BestTime == nTime[hashBestChain]

\* Subtraction of two unsigned timestamps.
TimeDiff(s, t) == (s - t) % TimeModulus

One_Block_Mode == nBestHeight + NearTip > Last_known_block_height

BufferSize == IF One_Block_Mode THEN SYNCH_BLOCK_BUFFER_SIZE
                                ELSE MAXIMUM_ARRAY_OF_BLOCKS

Initialised == IF Block_Checker_Array = "NOT_INITIALISED"
               THEN [i \in Slots |-> NoBlock] ELSE Block_Checker

InitialisedEntries == IF Block_Checker_Array = "NOT_INITIALISED"
                      THEN 0 ELSE Buffer_entries

\* The slot for the next block: a set of one slot, or empty.
FirstBlank == {i \in 1..BufferSize : /\ Initialised[i] = NoBlock
                                     /\ \A j \in 1..(i - 1) : Initialised[j] # NoBlock}

Stores == InitialisedEntries < BufferSize /\ FirstBlank # {}

Stored(b) == [i \in Slots |-> IF Stores /\ i \in FirstBlank THEN b ELSE Initialised[i]]

\* Mutant: every received block is counted.
StoredEntriesAlways == InitialisedEntries + 1

StoredEntries == IF Stores THEN InitialisedEntries + 1 ELSE InitialisedEntries

\* ProcessBlock returns and waits for more blocks. behind: the best block is
\* more than 240 seconds old.
Waits(behind) == IF behind /\ ~One_Block_Mode
                 THEN StoredEntries < MAXIMUM_ARRAY_OF_BLOCKS - 1
                 ELSE StoredEntries < BufferSize - 1

---------------------------------------------------------------------------
(***************************************************************************)
(* Phase 2: scan the slots in use for blocks that follow the best one.     *)
(***************************************************************************)

\* The scan blanks a block too far from the best one in time; one that is
\* older by less than 1000 seconds stays.
OutOfTime(b) == \/ nTime[b] = 0
                \/ /\ TimeDiff(nTime[b], BestTime) > FarAhead
                   /\ TimeDiff(BestTime, nTime[b]) >= Late

Scanned(b) == [i \in Slots |-> IF /\ i <= BufferSize
                                  /\ Stored(b)[i] # NoBlock
                                  /\ OutOfTime(Stored(b)[i])
                               THEN NoBlock ELSE Stored(b)[i]]

\* Match_Block_Map: the distinct blocks that follow the best one.
Matches(b) == {m \in {Scanned(b)[i] : i \in 1..BufferSize} \ {NoBlock} :
                    Prev[m] = hashBestChain}

\* An index entry above the best block: the remains of a failed commit, or of
\* a process that ended between two commits.
EntryAboveBest == \E e \in DOMAIN mapBlockIndex : mapBlockIndex[e].nHeight > nBestHeight

\* The "block" handler calls ProcessBlock, and ProcessBlock goes on.
Received(b) ==
    /\ status = "running" /\ pc = "idle" /\ phase = "none"
    /\ hashBestChain # NoBlock
    /\ nTime[b] < BestTime \/ nTime[b] - BestTime <= AgeLimit
    /\ b \notin DOMAIN mapBlockIndex
    /\ ~fRequestShutdown

\* The handler or ProcessBlock returns at once: the block is more than 5000000
\* seconds ahead, or known, or the node is shutting down.
IgnoreBlock(b) ==
    /\ status = "running" /\ pc = "idle" /\ phase = "none"
    /\ hashBestChain # NoBlock
    /\ ~Received(b)
    /\ UNCHANGED allVars

\* The block is stored, or dropped when the buffer is full, and ProcessBlock
\* waits for more.
BufferBlock(b) ==
    /\ Received(b)
    /\ \E behind \in BOOLEAN : Waits(behind)
    /\ Block_Checker' = Stored(b)
    /\ Buffer_entries' = StoredEntries
    /\ Block_Checker_Array' = "INITIALISED"
    /\ UNCHANGED <<vars, synch_check, Last_known_block_height, pass>>

\* Enough blocks are stored for a scan.
Scans(b) ==
    /\ Received(b)
    /\ \E behind \in BOOLEAN : ~Waits(behind)
    /\ Buffer_entries' = StoredEntries

NoMatch(b) == Matches(b) = {} /\ nBestHeight > MatchHeight

\* No block of the buffer follows the best one: the buffer stays as it is
\* until this has happened more than MAXIMUM_ARRAY_OF_BLOCKS times.
ScanFindsNothing(b) ==
    /\ Scans(b)
    /\ NoMatch(b)
    /\ ~EntryAboveBest
    /\ Block_Checker' = Scanned(b)
    /\ IF synch_check + 1 > MAXIMUM_ARRAY_OF_BLOCKS
       THEN Block_Checker_Array' = "NOT_INITIALISED" /\ synch_check' = 0
       ELSE Block_Checker_Array' = "INITIALISED" /\ synch_check' = synch_check + 1
    /\ UNCHANGED <<vars, Last_known_block_height, pass>>

\* The same, with an entry above the best block: the loop that looks for it
\* does not step past it, and never ends.
ScanNeverEnds(b) ==
    /\ Scans(b)
    /\ NoMatch(b)
    /\ EntryAboveBest
    /\ Block_Checker' = Scanned(b)
    /\ Block_Checker_Array' = "INITIALISED"
    /\ phase' = "stuck"
    /\ UNCHANGED <<vars, synch_check, Last_known_block_height,
                   synch_mode_buffer_size, Blocks_Processed, loops_performed>>

\* Several blocks follow the best one. Slots of a late timestamp are blanked,
\* as many slots from the first as there are matches, and ProcessBlock returns.
ScanFindsSeveral(b) ==
    /\ Scans(b)
    /\ Cardinality(Matches(b)) > 1
    /\ Block_Checker' =
          [i \in Slots |-> IF /\ i <= Cardinality(Matches(b))
                              /\ Scanned(b)[i] # NoBlock
                              /\ nTime[Scanned(b)[i]] > (BestTime + Late) % TimeModulus
                           THEN NoBlock ELSE Scanned(b)[i]]
    /\ Block_Checker_Array' = "INITIALISED"
    /\ UNCHANGED <<vars, synch_check, Last_known_block_height, pass>>

\* At most one does: the pass over the slots starts.
StartPass(b) ==
    /\ Scans(b)
    /\ ~NoMatch(b)
    /\ Cardinality(Matches(b)) <= 1
    /\ Block_Checker' = Scanned(b)
    /\ Block_Checker_Array' = "INITIALISED"
    /\ phase' = "pass"
    /\ synch_mode_buffer_size' = BufferSize
    /\ Blocks_Processed' = 0
    /\ loops_performed' = 0
    /\ UNCHANGED <<vars, synch_check, Last_known_block_height>>

\* The loop goes round, for as long as the process lives.
Spin ==
    /\ status = "running" /\ phase = "stuck"
    /\ UNCHANGED allVars

---------------------------------------------------------------------------
(***************************************************************************)
(* Phase 3: the pass over the slots.                                       *)
(***************************************************************************)

PassDone == \/ Blocks_Processed = synch_mode_buffer_size
            \/ loops_performed > Buffer_entries

\* The block of the slot that the pass looks at.
Candidate == Block_Checker[Blocks_Processed + 1]

Visiting == /\ status = "running" /\ pc = "idle" /\ phase = "pass"
            /\ ~PassDone

\* A blank slot, or a block that does not follow the best one.
SkipSlot ==
    /\ Visiting
    /\ (Candidate # NoBlock => Prev[Candidate] # hashBestChain)
    /\ Blocks_Processed' = Blocks_Processed + 1
    /\ loops_performed' = loops_performed + 1
    /\ UNCHANGED <<vars, buffer, Last_known_block_height, phase, synch_mode_buffer_size>>

\* Mutant: the block goes to the disk without the checks of AcceptBlock.
AcceptSlotUnchecked ==
    /\ Visiting
    /\ Candidate # NoBlock
    /\ Prev[Candidate] = hashBestChain
    /\ blockFile' = blockFile \cup {Candidate}
    /\ pc' = "file"
    /\ cur' = Candidate
    /\ phase' = "accept"
    /\ UNCHANGED <<diskIndex, diskBest, txIndex, status, memory, fRequestShutdown, bounds,
                   buffer, Last_known_block_height, synch_mode_buffer_size,
                   Blocks_Processed, loops_performed>>

\* AcceptBlock is called and stores the block.
AcceptSlot ==
    /\ Visiting
    /\ Candidate # NoBlock
    /\ Prev[Candidate] = hashBestChain
    /\ AcceptBlock(Candidate)
    /\ phase' = "accept"
    /\ UNCHANGED <<buffer, Last_known_block_height, synch_mode_buffer_size,
                   Blocks_Processed, loops_performed>>

\* Mutant: a refusal does not count as a loop.
RefuseSlotUncounted ==
    /\ Visiting
    /\ Candidate # NoBlock
    /\ Prev[Candidate] = hashBestChain
    /\ RejectBlock(Candidate)
    /\ UNCHANGED syncVars

\* AcceptBlock returns false before it writes: the pass stays at the slot.
RefuseSlot ==
    /\ Visiting
    /\ Candidate # NoBlock
    /\ Prev[Candidate] = hashBestChain
    /\ RejectBlock(Candidate)
    /\ loops_performed' = loops_performed + 1
    /\ UNCHANGED <<buffer, Last_known_block_height, phase, synch_mode_buffer_size,
                   Blocks_Processed>>

\* Mutant: an accepted block is taken off Buffer_entries.
AcceptReturnsCounted ==
    /\ status = "running" /\ pc = "idle" /\ phase = "accept"
    /\ phase' = "pass"
    /\ loops_performed' = loops_performed + 1
    /\ IF hashBestChain = Candidate
       THEN /\ Block_Checker' = [Block_Checker EXCEPT ![Blocks_Processed + 1] = NoBlock]
            /\ Blocks_Processed' = Blocks_Processed + 1
            /\ Buffer_entries' = Buffer_entries - 1
       ELSE UNCHANGED <<Block_Checker, Blocks_Processed, Buffer_entries>>
    /\ UNCHANGED <<vars, Block_Checker_Array, synch_check,
                   Last_known_block_height, synch_mode_buffer_size>>

\* AcceptBlock is done with the block of the slot: true when it is the best
\* block now, and then the slot is blanked; false after a failed commit.
AcceptReturns ==
    /\ status = "running" /\ pc = "idle" /\ phase = "accept"
    /\ phase' = "pass"
    /\ loops_performed' = loops_performed + 1
    /\ IF hashBestChain = Candidate
       THEN /\ Block_Checker' = [Block_Checker EXCEPT ![Blocks_Processed + 1] = NoBlock]
            /\ Blocks_Processed' = Blocks_Processed + 1
       ELSE UNCHANGED <<Block_Checker, Blocks_Processed>>
    /\ UNCHANGED <<vars, Buffer_entries, Block_Checker_Array, synch_check,
                   Last_known_block_height, synch_mode_buffer_size>>

\* Mutant: the array is not marked for clearing.
EndPassUncleared ==
    /\ status = "running" /\ pc = "idle" /\ phase = "pass"
    /\ PassDone
    /\ phase' = "none"
    /\ Buffer_entries' = 0
    /\ UNCHANGED <<vars, Block_Checker, Block_Checker_Array, synch_check,
                   Last_known_block_height, synch_mode_buffer_size,
                   Blocks_Processed, loops_performed>>

\* The pass is over: the whole buffer will be cleared for the next block.
EndPass ==
    /\ status = "running" /\ pc = "idle" /\ phase = "pass"
    /\ PassDone
    /\ phase' = "none"
    /\ Block_Checker_Array' = "NOT_INITIALISED"
    /\ Buffer_entries' = 0
    /\ UNCHANGED <<vars, Block_Checker, synch_check, Last_known_block_height,
                   synch_mode_buffer_size, Blocks_Processed, loops_performed>>

---------------------------------------------------------------------------

\* The "version" message of a peer.
Version(h) ==
    /\ status = "running" /\ pc = "idle" /\ phase = "none"
    /\ h > Last_known_block_height
    /\ Last_known_block_height' = h
    /\ UNCHANGED <<vars, buffer, pass>>

\* The static variables of a new process.
Fresh ==
    /\ Block_Checker' = [i \in Slots |-> NoBlock]
    /\ Buffer_entries' = 0
    /\ Block_Checker_Array' = "NOT_INITIALISED"
    /\ synch_check' = 0
    /\ Last_known_block_height' = 0
    /\ phase' = "none"
    /\ synch_mode_buffer_size' = MAXIMUM_ARRAY_OF_BLOCKS
    /\ Blocks_Processed' = 0
    /\ loops_performed' = 0

\* The miner calls ProcessBlock(NULL, b) for a block it made on the best one.
\* PushGetBlocks dereferences the null CNode*, and the process dies.
MineBlock(b) ==
    /\ status = "running" /\ pc = "idle" /\ phase = "none"
    /\ hashBestChain # NoBlock
    /\ Prev[b] = hashBestChain
    /\ b \notin DOMAIN mapBlockIndex
    /\ ~fRequestShutdown
    /\ crashes < MaxCrashes
    /\ crashes' = crashes + 1
    /\ ProcessEnds
    /\ UNCHANGED <<shutdowns, faults>>
    /\ Fresh

\* Steps of the chain store that leave the process running.
StoreStep ==
    /\ Step \/ AddToBlockIndexFails \/ SetBestChainFails \/ RequestShutdown
    /\ IF status = "running" /\ status' = "down" THEN Fresh ELSE UNCHANGED syncVars

EndOfProcess == (Crash \/ Shutdown) /\ Fresh

SyncInit ==
    /\ Init
    /\ Block_Checker = [i \in Slots |-> NoBlock]
    /\ Buffer_entries = 0
    /\ Block_Checker_Array = "NOT_INITIALISED"
    /\ synch_check = 0
    /\ Last_known_block_height = 0
    /\ phase = "none"
    /\ synch_mode_buffer_size = MAXIMUM_ARRAY_OF_BLOCKS
    /\ Blocks_Processed = 0
    /\ loops_performed = 0

\* What ProcessBlock makes of a received block.
ReceiveBlock(b) ==
    \/ IgnoreBlock(b)
    \/ BufferBlock(b)
    \/ ScanFindsNothing(b)
    \/ ScanNeverEnds(b)
    \/ ScanFindsSeveral(b)
    \/ StartPass(b)

PassStep == SkipSlot \/ AcceptSlot \/ RefuseSlot \/ AcceptReturns \/ EndPass

SyncNext ==
    \/ \E b \in Block : ReceiveBlock(b)
    \/ PassStep
    \/ Spin
    \/ \E h \in PeerHeights : Version(h)
    \/ \E b \in Block : MineBlock(b)
    \/ StoreStep
    \/ EndOfProcess

SyncSpec == SyncInit /\ [][SyncNext]_allVars

\* The handler thread runs on.
ThreadSpec ==
    /\ SyncSpec
    /\ WF_allVars(PassStep)
    /\ WF_allVars(Step /\ UNCHANGED syncVars)

\* Also, a requested shutdown completes, and each block of the network keeps arriving.
\* That is the best a network can do and nothing that this code sees to: a block that is
\* dropped may stay in setInventoryKnown of the peers, which then do not announce it
\* again. What does not happen even so, does not happen.
FairSyncSpec ==
    /\ ThreadSpec
    /\ WF_allVars(Shutdown /\ Fresh)
    /\ \A b \in Block : SF_allVars(ReceiveBlock(b))

---------------------------------------------------------------------------
(***************************************************************************)
(* Properties.                                                             *)
(***************************************************************************)

\* The buffer's variables hold what their C++ types allow, a pass never reads
\* past the slots in use, and AcceptBlock runs only from a pass.
SyncTypeOK ==
    /\ Block_Checker \in [Slots -> Block \cup {NoBlock}]
    /\ Buffer_entries \in 0..MAXIMUM_ARRAY_OF_BLOCKS
    /\ Block_Checker_Array \in {"NOT_INITIALISED", "INITIALISED"}
    /\ synch_check \in 0..MAXIMUM_ARRAY_OF_BLOCKS
    /\ Last_known_block_height \in PeerHeights \cup {0}
    /\ phase \in {"none", "pass", "accept", "stuck"}
    /\ synch_mode_buffer_size \in {SYNCH_BLOCK_BUFFER_SIZE, MAXIMUM_ARRAY_OF_BLOCKS}
    /\ Blocks_Processed \in 0..synch_mode_buffer_size
    /\ loops_performed \in 0..(MAXIMUM_ARRAY_OF_BLOCKS + 1)
    /\ phase = "pass" => loops_performed <= Buffer_entries + 1
    /\ phase = "accept" => /\ Blocks_Processed < synch_mode_buffer_size
                           /\ loops_performed <= Buffer_entries
    /\ pc # "idle" /\ cur # Genesis => phase = "accept" /\ cur = Candidate

\* The slots of a buffer that hold a block.
Held(buf) == {i \in Slots : buf[i] # NoBlock}

\* Buffer_entries never falls below the number of blocks in the buffer,
\* although slots are blanked without it and the number of slots in use
\* changes with the height a peer announces. So while Buffer_entries says
\* there is room, a received block finds a blank slot.
RoomMeansBlank ==
    Block_Checker_Array = "INITIALISED" =>
        /\ Cardinality(Held(Block_Checker)) <= Buffer_entries
        /\ \A n \in {SYNCH_BLOCK_BUFFER_SIZE, MAXIMUM_ARRAY_OF_BLOCKS} :
              Buffer_entries < n => \E i \in 1..n : Block_Checker[i] = NoBlock

\* A pass reaches every slot in use that holds a block: it ends early, by its
\* count of loops, only behind a slot whose block AcceptBlock refused.
PassCoversBuffer ==
    phase = "pass" /\ PassDone /\ Blocks_Processed < synch_mode_buffer_size =>
        \/ \A i \in (Blocks_Processed + 1)..synch_mode_buffer_size : Block_Checker[i] = NoBlock
        \/ Candidate # NoBlock /\ Prev[Candidate] = hashBestChain
               /\ (~Acceptable(Candidate) \/ fRequestShutdown)

\* The buffer changes the chain only through AcceptBlock: under the buffer,
\* its passes and the death of the process in the miner's call, the chain
\* store behaves as BlockChain specifies, so that all it promises holds here.
ImplementsBlockChain == Spec

\* ProcessBlock returns: whatever commit fails during a pass and whatever is in
\* the slots, the handler thread is free for the next message eventually.
PassEnds == phase \in {"pass", "accept"} ~> phase \notin {"pass", "accept"}

---------------------------------------------------------------------------
(***************************************************************************)
(* What a comment of the code says, and the code does not do.              *)
(***************************************************************************)

\* ProcessBlock, when several blocks follow the best one: "Move forward to
\* process the blocks". It returns instead, and as nothing makes room in the
\* buffer, every later block meets the same two blocks again.
Competing == /\ status = "running"
             /\ \E i, j \in Slots : /\ Block_Checker[i] # Block_Checker[j]
                                    /\ NoBlock \notin {Block_Checker[i], Block_Checker[j]}
                                    /\ Prev[Block_Checker[i]] = hashBestChain
                                    /\ Prev[Block_Checker[j]] = hashBestChain

CompetingResolved == Competing ~> ~Competing
=============================================================================
