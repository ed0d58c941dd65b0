---------------------------- MODULE BlockChain ----------------------------
(***************************************************************************)
(* The block chain of one node: the block file, the LevelDB database txdb, *)
(* the index in memory, and the path of one block through AcceptBlock,     *)
(* AddToBlockIndex, SetBestChain and SetBestChainInner, with every point   *)
(* at which the process may end between two of its writes.                 *)
(*                                                                         *)
(* Only the message handler thread msghand stores blocks, so at most one   *)
(* block is in flight (cur).                                               *)
(* A block stores in three separate commits: the block file, the index     *)
(* record, and one LevelDB batch that holds the transaction records, the   *)
(* hashNext link of the previous record and hashBestChain.                 *)
(***************************************************************************)
EXTENDS Integers, Sequences, FiniteSets

CONSTANTS
    Block,          \* hashes of the blocks that exist in the network
    Genesis,        \* Params().HashGenesisBlock()
    NoBlock,        \* uint256(0): no hash
    Prev,           \* hashPrevBlock of every block
    Chain,          \* the blocks from Genesis up to a block (a hash fixes them)
    Work,           \* the sum of GetBlockTrust() along Chain[b]
    HeaderOk,       \* blocks that pass the contextual checks of AcceptBlock
    CheckOk,        \* blocks that pass CheckBlock
    CheckDepth,     \* -checkblocks: blocks that startup verifies (500)
    MaxCrashes,     \* bound: crashes of the process
    MaxShutdowns,   \* bound: requested shutdowns
    MaxFaults       \* bound: failed database commits

(***************************************************************************)
(* The blocks form a tree rooted at Genesis, and trust grows along it: a   *)
(* block that passes AcceptBlock has nBits = GetNextTargetRequired > 0.    *)
(***************************************************************************)
ASSUME TreeAssumption ==
    /\ Genesis \in Block
    /\ NoBlock \notin Block
    /\ Prev \in [Block -> Block \cup {NoBlock}]
    /\ \A b \in Block : Prev[b] = NoBlock <=> b = Genesis
    /\ Chain \in [Block -> Seq(Block)]
    /\ Chain[Genesis] = <<Genesis>>
    /\ \A b \in Block \ {Genesis} : Chain[b] = Append(Chain[Prev[b]], b)
    /\ \A b \in Block : \A i \in 1..Len(Chain[b]) : Len(Chain[Chain[b][i]]) = i
    /\ Work \in [Block -> Nat]
    /\ Work[Genesis] > 0
    /\ \A b \in Block \ {Genesis} : Work[b] > Work[Prev[b]]

ASSUME BlocksFinite == IsFiniteSet(Block)

ASSUME ChecksAssumption ==
    /\ HeaderOk \subseteq Block
    /\ CheckOk \subseteq Block

ASSUME BoundsAssumption ==
    /\ CheckDepth \in Nat
    /\ MaxCrashes \in Nat
    /\ MaxShutdowns \in Nat
    /\ MaxFaults \in Nat

VARIABLES
    \* on disk
    blockFile,          \* blocks appended to blk0001.dat
    diskIndex,          \* "blockindex" records: hash -> [nHeight, hashNext]
    diskBest,           \* "hashBestChain" record
    txIndex,            \* blocks whose transactions have "tx" records
    \* in memory
    status,             \* "down", "running"
    mapBlockIndex,      \* hash -> [nHeight, nChainTrust, pnext]
    hashBestChain,      \* hash of pindexBest
    fRequestShutdown,
    \* the block in flight
    pc,                 \* which writes of cur are done
    cur,
    \* what the bounds count
    crashes, shutdowns, faults

disk == <<blockFile, diskIndex, diskBest, txIndex>>
memory == <<mapBlockIndex, hashBestChain>>
bounds == <<crashes, shutdowns, faults>>
vars == <<disk, status, memory, fRequestShutdown, pc, cur, bounds>>

---------------------------------------------------------------------------

BlockTrust(b) == IF b = Genesis THEN Work[b] ELSE Work[b] - Work[Prev[b]]

nBestChainTrust == IF hashBestChain = NoBlock THEN 0
                   ELSE mapBlockIndex[hashBestChain].nChainTrust

\* The blocks of the best chain that ends in b.
ChainSet(b) == IF b = NoBlock THEN {}
               ELSE {Chain[b][i] : i \in 1..Len(Chain[b])}

\* CBlock::CheckBlock, the checks that need no chain.
CheckBlock(b) == b \in CheckOk

\* ConnectBlock: whether it reaches its writes. For a block FetchInputs skips an
\* input without a record and ConnectInputs only logs what it finds wrong, so
\* CheckBlock alone decides.
Connects(b) == CheckBlock(b)

\* The contextual checks of AcceptBlock: proof of work or stake allowed at the
\* height, timestamps, nBits, final transactions, checkpoints, coinbase height.
ContextualChecks(b) == b \in HeaderOk

\* CDiskBlockIndex of the index entry of b.
DiskRecord(b, next) == [nHeight |-> mapBlockIndex[b].nHeight, hashNext |-> next]

\* Mutant: nChainTrust is the trust of the block alone.
NewIndexEntryAlone(b) ==
    [nHeight |-> IF Prev[b] \in DOMAIN mapBlockIndex
                 THEN mapBlockIndex[Prev[b]].nHeight + 1 ELSE 0,
     nChainTrust |-> BlockTrust(b), pnext |-> NoBlock]

\* The entry that AddToBlockIndex inserts.
NewIndexEntry(b) ==
    LET hasPrev == Prev[b] \in DOMAIN mapBlockIndex
    IN  [nHeight     |-> IF hasPrev THEN mapBlockIndex[Prev[b]].nHeight + 1 ELSE 0,
         nChainTrust |-> (IF hasPrev THEN mapBlockIndex[Prev[b]].nChainTrust ELSE 0)
                         + BlockTrust(b),
         pnext       |-> NoBlock]

---------------------------------------------------------------------------

\* The hashes that CTxDB::LoadBlockIndex inserts: every record, and whatever
\* its hashPrev and hashNext name (InsertBlockIndex makes an empty entry).
LoadedBlocks ==
    (DOMAIN diskIndex \cup {Prev[b] : b \in DOMAIN diskIndex}
        \cup {diskIndex[b].hashNext : b \in DOMAIN diskIndex}) \ {NoBlock}

\* nChainTrust is summed along pprev in height order, which gives Work[b].
LoadedIndex ==
    [b \in LoadedBlocks |->
        IF b \in DOMAIN diskIndex
        THEN [nHeight     |-> diskIndex[b].nHeight,
              nChainTrust |-> Work[b],
              pnext       |-> diskIndex[b].hashNext]
        ELSE [nHeight |-> 0, nChainTrust |-> 0, pnext |-> NoBlock]]

\* The blocks that startup reads back and verifies with CheckBlock.
VerifyWindow ==
    {Chain[diskBest][i] : i \in {j \in 2..Len(Chain[diskBest]) :
                                    j >= Len(Chain[diskBest]) - CheckDepth}}

\* pindexFork: the predecessor of the lowest block of the window that is bad
\* (a set of one block, or empty when none is bad).
pindexFork ==
    LET bad == {b \in VerifyWindow : ~CheckBlock(b)}
    IN  {Prev[b] : b \in {c \in bad : \A d \in bad : Len(Chain[c]) <= Len(Chain[d])}}

\* Mutant: pindexBest moves back without a look at hashBestChain.
BestAfterVerifyUnguarded ==
    IF pindexFork # {} THEN CHOOSE f \in pindexFork : TRUE ELSE diskBest

\* The best block after the verification: SetBestChain(pindexFork) does nothing
\* unless pindexFork follows hashBestChain.
BestAfterVerify ==
    IF \E f \in pindexFork : Prev[f] = diskBest
    THEN CHOOSE f \in pindexFork : TRUE
    ELSE diskBest

\* Mutant: a bad block among those verified is an error.
CanLoadSound == /\ diskBest \in LoadedBlocks
                /\ VerifyWindow \subseteq blockFile
                /\ pindexFork = {}

\* CTxDB::LoadBlockIndex succeeds with a best chain.
CanLoad == /\ diskBest \in LoadedBlocks
           /\ VerifyWindow \subseteq blockFile

LoadBlockIndex ==
    /\ status = "down"
    /\ DOMAIN diskIndex # {}
    /\ diskBest # NoBlock
    /\ CanLoad
    /\ status' = "running"
    /\ mapBlockIndex' = LoadedIndex
    /\ hashBestChain' = BestAfterVerify
    /\ UNCHANGED <<disk, fRequestShutdown, pc, cur, bounds>>

\* An empty index: the genesis block is written to the block file and goes on
\* to AddToBlockIndex.
LoadEmptyBlockIndex ==
    /\ status = "down"
    /\ DOMAIN diskIndex = {}
    /\ status' = "running"
    /\ blockFile' = blockFile \cup {Genesis}
    /\ pc' = "file"
    /\ cur' = Genesis
    /\ UNCHANGED <<diskIndex, diskBest, txIndex, memory, fRequestShutdown, bounds>>

\* Startup reports an error and the process exits: no hashBestChain record,
\* or one that the index or the block file cannot back.
LoadBlockIndexFails ==
    /\ status = "down"
    /\ DOMAIN diskIndex # {}
    /\ diskBest = NoBlock \/ ~CanLoad
    /\ UNCHANGED vars

---------------------------------------------------------------------------

\* Mutant: no check for a block that is known.
AcceptableKnown(b) ==
    /\ Prev[b] \in DOMAIN mapBlockIndex
    /\ Prev[b] = hashBestChain
    /\ ContextualChecks(b)
    /\ ~fRequestShutdown

\* The checks of AcceptBlock, in the order the code makes them.
Acceptable(b) ==
    /\ b \notin DOMAIN mapBlockIndex
    /\ Prev[b] \in DOMAIN mapBlockIndex
    /\ Prev[b] = hashBestChain
    /\ ContextualChecks(b)
    /\ ~fRequestShutdown

\* Mutant: the block never reaches the block file.
AcceptBlockUnwritten(b) ==
    /\ status = "running"
    /\ pc = "idle"
    /\ Acceptable(b)
    /\ pc' = "file"
    /\ cur' = b
    /\ UNCHANGED <<disk, status, memory, fRequestShutdown, bounds>>

\* AcceptBlock up to WriteToDisk.
AcceptBlock(b) ==
    /\ status = "running"
    /\ pc = "idle"
    /\ Acceptable(b)
    /\ blockFile' = blockFile \cup {b}
    /\ pc' = "file"
    /\ cur' = b
    /\ UNCHANGED <<diskIndex, diskBest, txIndex, status, memory, fRequestShutdown, bounds>>

\* AcceptBlock returns false; the requests it sends change nothing here.
RejectBlock(b) ==
    /\ status = "running"
    /\ pc = "idle"
    /\ hashBestChain # NoBlock
    /\ ~Acceptable(b)
    /\ UNCHANGED vars

\* The map m with an entry for b.
Insert(m, b, entry) == [x \in DOMAIN m \cup {b} |-> IF x = b THEN entry ELSE m[x]]

\* CDiskBlockIndex of the entry just inserted.
NewDiskEntry(b) == [nHeight |-> NewIndexEntry(b).nHeight, hashNext |-> NoBlock]

\* Mutant: the predecessor's record already links to the new block.
AddToBlockIndexLinked ==
    /\ status = "running"
    /\ pc = "file"
    /\ mapBlockIndex' = Insert(mapBlockIndex, cur, NewIndexEntry(cur))
    /\ diskIndex' = [b \in DOMAIN diskIndex \cup {cur} |->
                        CASE b = cur -> NewDiskEntry(cur)
                          [] b # cur /\ b = Prev[cur] -> DiskRecord(b, cur)
                          [] OTHER -> diskIndex[b]]
    /\ pc' = "index"
    /\ UNCHANGED <<blockFile, diskBest, txIndex, status, hashBestChain,
                   fRequestShutdown, cur, bounds>>

\* Mutant: memory takes the block as its best before the commit does.
AddToBlockIndexAsBest ==
    /\ status = "running"
    /\ pc = "file"
    /\ mapBlockIndex' = Insert(mapBlockIndex, cur, NewIndexEntry(cur))
    /\ diskIndex' = Insert(diskIndex, cur, NewDiskEntry(cur))
    /\ hashBestChain' = cur
    /\ pc' = "index"
    /\ UNCHANGED <<blockFile, diskBest, txIndex, status, fRequestShutdown, cur, bounds>>

\* AddToBlockIndex up to its TxnCommit; SetBestChain follows when the new
\* entry has more trust than the best one.
AddToBlockIndex ==
    /\ status = "running"
    /\ pc = "file"
    /\ mapBlockIndex' = Insert(mapBlockIndex, cur, NewIndexEntry(cur))
    /\ diskIndex' = Insert(diskIndex, cur, NewDiskEntry(cur))
    /\ IF NewIndexEntry(cur).nChainTrust > nBestChainTrust
       THEN pc' = "index" /\ cur' = cur
       ELSE pc' = "idle" /\ cur' = NoBlock
    /\ UNCHANGED <<blockFile, diskBest, txIndex, status, hashBestChain,
                   fRequestShutdown, bounds>>

\* The process is gone: the memory and the block in flight with it.
ProcessEnds ==
    /\ status' = "down"
    /\ mapBlockIndex' = [b \in {} |-> b]
    /\ hashBestChain' = NoBlock
    /\ fRequestShutdown' = FALSE
    /\ pc' = "idle"
    /\ cur' = NoBlock
    /\ UNCHANGED disk

\* TxnCommit fails in AddToBlockIndex: the entry stays in memory only. For the
\* genesis block startup fails.
AddToBlockIndexFails ==
    /\ status = "running"
    /\ pc = "file"
    /\ faults < MaxFaults
    /\ faults' = faults + 1
    /\ \/ cur = Genesis /\ ProcessEnds
       \/ /\ cur # Genesis
          /\ mapBlockIndex' = Insert(mapBlockIndex, cur, NewIndexEntry(cur))
          /\ pc' = "idle"
          /\ cur' = NoBlock
          /\ UNCHANGED <<disk, status, hashBestChain, fRequestShutdown>>
    /\ UNCHANGED <<crashes, shutdowns>>

\* Mutant: hashNext is written for a block that did not connect.
SetBestChainLinked ==
    /\ status = "running"
    /\ pc = "index"
    /\ Prev[cur] = hashBestChain
    /\ diskBest' = cur
    /\ txIndex' = IF cur # Genesis /\ Connects(cur) THEN txIndex \cup {cur} ELSE txIndex
    /\ diskIndex' = IF cur = Genesis THEN diskIndex
                    ELSE [diskIndex EXCEPT ![Prev[cur]] = DiskRecord(Prev[cur], cur)]
    /\ pc' = "best"
    /\ UNCHANGED <<blockFile, status, memory, fRequestShutdown, cur, bounds>>

\* SetBestChain up to its TxnCommit, one batch. The genesis block only writes
\* hashBestChain; for another block SetBestChainInner writes hashBestChain
\* whether or not ConnectBlock wrote anything.
SetBestChain ==
    /\ status = "running"
    /\ pc = "index"
    /\ Prev[cur] = hashBestChain
    /\ diskBest' = cur
    /\ IF cur # Genesis /\ Connects(cur)
       THEN /\ txIndex' = txIndex \cup {cur}
            /\ diskIndex' = [diskIndex EXCEPT ![cur] = DiskRecord(cur, mapBlockIndex[cur].pnext),
                                              ![Prev[cur]] = DiskRecord(Prev[cur], cur)]
       ELSE UNCHANGED <<txIndex, diskIndex>>
    /\ pc' = "best"
    /\ UNCHANGED <<blockFile, status, memory, fRequestShutdown, cur, bounds>>

\* TxnCommit fails in SetBestChain or SetBestChainInner.
SetBestChainFails ==
    /\ status = "running"
    /\ pc = "index"
    /\ faults < MaxFaults
    /\ faults' = faults + 1
    /\ \/ cur = Genesis /\ ProcessEnds
       \/ /\ cur # Genesis
          /\ pc' = "idle"
          /\ cur' = NoBlock
          /\ UNCHANGED <<disk, status, memory, fRequestShutdown>>
    /\ UNCHANGED <<crashes, shutdowns>>

\* Mutant: the block in flight is not let go.
UpdateBestKeepsCur ==
    /\ status = "running"
    /\ pc = "best"
    /\ mapBlockIndex' = IF cur = Genesis THEN mapBlockIndex
                        ELSE [mapBlockIndex EXCEPT ![Prev[cur]].pnext = cur]
    /\ hashBestChain' = cur
    /\ pc' = "idle"
    /\ UNCHANGED <<disk, status, fRequestShutdown, cur, bounds>>

\* Mutant: hashBestChain is not assigned.
UpdateBestForgotten ==
    /\ status = "running"
    /\ pc = "best"
    /\ mapBlockIndex' = IF cur = Genesis THEN mapBlockIndex
                        ELSE [mapBlockIndex EXCEPT ![Prev[cur]].pnext = cur]
    /\ pc' = "idle"
    /\ cur' = NoBlock
    /\ UNCHANGED <<disk, status, hashBestChain, fRequestShutdown, bounds>>

\* The end of SetBestChainInner and SetBestChain: memory follows the commit.
UpdateBest ==
    /\ status = "running"
    /\ pc = "best"
    /\ mapBlockIndex' = IF cur = Genesis THEN mapBlockIndex
                        ELSE [mapBlockIndex EXCEPT ![Prev[cur]].pnext = cur]
    /\ hashBestChain' = cur
    /\ pc' = "idle"
    /\ cur' = NoBlock
    /\ UNCHANGED <<disk, status, fRequestShutdown, bounds>>

---------------------------------------------------------------------------

Crash ==
    /\ status = "running"
    /\ crashes < MaxCrashes
    /\ crashes' = crashes + 1
    /\ ProcessEnds
    /\ UNCHANGED <<shutdowns, faults>>

RequestShutdown ==
    /\ status = "running"
    /\ ~fRequestShutdown
    /\ shutdowns < MaxShutdowns
    /\ fRequestShutdown' = TRUE
    /\ shutdowns' = shutdowns + 1
    /\ UNCHANGED <<disk, status, memory, pc, cur, crashes, faults>>

\* WaitForShutdown interrupts the threads: a block in flight is abandoned at
\* the next MilliSleep, and there is one after every write.
Shutdown ==
    /\ status = "running"
    /\ fRequestShutdown
    /\ ProcessEnds
    /\ UNCHANGED bounds

---------------------------------------------------------------------------

Init ==
    /\ blockFile = {}
    /\ diskIndex = [b \in {} |-> b]
    /\ diskBest = NoBlock
    /\ txIndex = {}
    /\ status = "down"
    /\ mapBlockIndex = [b \in {} |-> b]
    /\ hashBestChain = NoBlock
    /\ fRequestShutdown = FALSE
    /\ pc = "idle"
    /\ cur = NoBlock
    /\ crashes = 0 /\ shutdowns = 0 /\ faults = 0

\* What the node does on its own.
Step ==
    \/ LoadBlockIndex
    \/ LoadEmptyBlockIndex
    \/ LoadBlockIndexFails
    \/ AddToBlockIndex
    \/ SetBestChain
    \/ UpdateBest

Next ==
    \/ Step
    \/ \E b \in Block : AcceptBlock(b)
    \/ \E b \in Block : RejectBlock(b)
    \/ AddToBlockIndexFails
    \/ SetBestChainFails
    \/ Crash
    \/ RequestShutdown
    \/ Shutdown

Spec == Init /\ [][Next]_vars

\* The thread in flight keeps running, the operator restarts the node, and a
\* requested shutdown completes. Nothing is assumed of the blocks that arrive.
FairSpec ==
    /\ Spec
    /\ WF_vars(Step)
    /\ WF_vars(Shutdown)

---------------------------------------------------------------------------
(***************************************************************************)
(* Properties.                                                             *)
(***************************************************************************)

IndexEntry == [nHeight : Nat, nChainTrust : Nat, pnext : Block \cup {NoBlock}]

DiskEntry == [nHeight : Nat, hashNext : Block \cup {NoBlock}]

\* Every variable of the chain and of the database holds what its C++ type
\* allows, and a block is in flight exactly while one of its writes is pending.
TypeOK ==
    /\ blockFile \in SUBSET Block
    /\ DOMAIN diskIndex \subseteq Block
    /\ diskIndex \in [DOMAIN diskIndex -> DiskEntry]
    /\ diskBest \in Block \cup {NoBlock}
    /\ txIndex \in SUBSET Block
    /\ status \in {"down", "running"}
    /\ DOMAIN mapBlockIndex \subseteq Block
    /\ mapBlockIndex \in [DOMAIN mapBlockIndex -> IndexEntry]
    /\ hashBestChain \in Block \cup {NoBlock}
    /\ fRequestShutdown \in BOOLEAN
    /\ pc \in {"idle", "file", "index", "best"}
    /\ cur \in Block \cup {NoBlock}
    /\ pc = "idle" <=> cur = NoBlock
    /\ crashes \in 0..MaxCrashes
    /\ shutdowns \in 0..MaxShutdowns
    /\ faults \in 0..MaxFaults

\* The order of the three commits of AcceptBlock: whatever instant the process
\* ends at, hashBestChain on disk has an index record, every record has its
\* block in the block file, and every hashPrev and hashNext names a record, so
\* that CTxDB::LoadBlockIndex neither fails nor invents an entry.
DiskConsistent ==
    /\ DOMAIN diskIndex \subseteq blockFile
    /\ IF diskBest = NoBlock THEN DOMAIN diskIndex \subseteq {Genesis}
                             ELSE diskBest \in DOMAIN diskIndex
    /\ \A b \in DOMAIN diskIndex :
          /\ b # Genesis => Prev[b] \in DOMAIN diskIndex
          /\ diskIndex[b].hashNext # NoBlock => diskIndex[b].hashNext \in DOMAIN diskIndex

\* Startup reports an error only when the process ended between the two
\* commits of the genesis block on the very first start; after that no crash
\* keeps CTxDB::LoadBlockIndex from loading the chain.
StartupFailsOnlyOnFirstRun ==
    status = "down" /\ DOMAIN diskIndex # {} /\ ~(diskBest # NoBlock /\ CanLoad)
        => diskBest = NoBlock /\ DOMAIN diskIndex = {Genesis}

\* nHeight and nChainTrust of every entry are those of its position in the
\* tree, through any mix of AddToBlockIndex (adds to the predecessor) and
\* LoadBlockIndex (sums again in height order).
HeightAndTrust ==
    /\ \A b \in DOMAIN mapBlockIndex :
          /\ mapBlockIndex[b].nHeight = Len(Chain[b]) - 1
          /\ mapBlockIndex[b].nChainTrust = Work[b]
    /\ \A b \in DOMAIN diskIndex : diskIndex[b].nHeight = Len(Chain[b]) - 1

\* hashBestChain in memory and on disk are the same block, except after the
\* commit of SetBestChain and before its assignments, when disk is one ahead.
BestAgrees ==
    status = "running" =>
        IF pc = "best" THEN diskBest = cur /\ Prev[cur] = hashBestChain
                       ELSE diskBest = hashBestChain

\* IsInMainChain() never says yes for a block off the best chain: pnext, in
\* memory or in a hashNext record, only ever points to the next block of the
\* chain that ends in the best block, and that block itself has none.
PnextOnlyOnMainChain ==
    /\ hashBestChain \in DOMAIN mapBlockIndex => mapBlockIndex[hashBestChain].pnext = NoBlock
    /\ diskBest \in DOMAIN diskIndex => diskIndex[diskBest].hashNext = NoBlock
    /\ \A b \in DOMAIN mapBlockIndex : mapBlockIndex[b].pnext # NoBlock =>
          /\ Prev[mapBlockIndex[b].pnext] = b
          /\ mapBlockIndex[b].pnext \in ChainSet(hashBestChain)
    /\ \A b \in DOMAIN diskIndex : diskIndex[b].hashNext # NoBlock =>
          /\ Prev[diskIndex[b].hashNext] = b
          /\ diskIndex[b].hashNext \in ChainSet(diskBest)

\* The batch of SetBestChain is atomic: a block has transaction records
\* exactly when the record of its predecessor links to it, and all such blocks
\* are on the durable best chain.
TxRecordsMatchLinks ==
    /\ txIndex \subseteq ChainSet(diskBest) \ {Genesis}
    /\ \A b \in DOMAIN diskIndex \ {Genesis} :
          b \in txIndex <=> diskIndex[Prev[b]].hashNext = b

\* The best chain is in the index as a whole, in memory and on disk: walking
\* pprev from pindexBest always reaches the genesis block.
BestChainIndexed ==
    /\ ChainSet(diskBest) \subseteq DOMAIN diskIndex
    /\ ChainSet(hashBestChain) \subseteq DOMAIN mapBlockIndex

\* Where the block in flight stands between two writes, and what a process
\* that is down has lost. In particular the index in memory never lacks a
\* record of the disk: a block that AcceptBlock takes for new has no record.
FlightConsistent ==
    /\ status = "down" => pc = "idle" /\ DOMAIN mapBlockIndex = {} /\ hashBestChain = NoBlock
    /\ status = "running" => /\ DOMAIN diskIndex \subseteq DOMAIN mapBlockIndex
                             /\ pc = "idle" => hashBestChain # NoBlock
    /\ pc # "idle" => Prev[cur] = hashBestChain
    /\ pc = "file" => cur \in blockFile \ DOMAIN mapBlockIndex
    /\ pc \in {"index", "best"} => /\ cur \in DOMAIN diskIndex
                                   /\ mapBlockIndex[cur].pnext = NoBlock
                                   /\ diskIndex[cur].hashNext = NoBlock

\* What the process believes and what is on disk agree, at every point of the
\* three commits and after any failed one: heights and trust, the best block and
\* its whole chain, and where the block in flight stands (AddToBlockIndex,
\* SetBestChain, LoadBlockIndex).
MemoryMatchesDisk ==
    HeightAndTrust /\ BestAgrees /\ BestChainIndexed /\ FlightConsistent

\* Index records off the best chain: each one is the remains of one crash,
\* shutdown or failed commit between the commit of AddToBlockIndex and the
\* one of SetBestChain (or is the block in flight there).
Strays == DOMAIN diskIndex \ ChainSet(diskBest)

StraysCounted ==
    Cardinality(Strays) <= crashes + shutdowns + faults + (IF pc = "index" THEN 1 ELSE 0)

\* The best chain only grows, one block at a time, on disk and in memory; a
\* restart resumes from the best block on disk. No step replaces or removes a
\* block of the chain: SetBestChain refuses whatever does not extend it.
AppendOnly ==
    [][ /\ diskBest' # diskBest => Prev[diskBest'] = diskBest
        /\ status = "running" /\ status' = "running" /\ hashBestChain' # hashBestChain
              => Prev[hashBestChain'] = hashBestChain
        /\ status = "down" /\ status' = "running" => hashBestChain' = diskBest ]_vars

\* A block whose index record was left behind is never accepted again and
\* never becomes the best block: AcceptBlock answers "already in
\* mapBlockIndex" for ever, even after a restart.
StrayStaysOut ==
    [][ \A b \in Strays :
            (pc = "index" /\ b = cur) \/ (b \in Strays' /\ b # cur') ]_vars

\* Once the batch of SetBestChain has made a block the best on disk, the node comes to
\* run with that block in its chain, wherever crashes, shutdowns and failed commits fall,
\* also when ConnectBlock or the verification at startup found the block bad: no commit
\* leaves a database that the next start refuses. (The commits of the genesis block on
\* the first start, of which hashBestChain is the second, are not meant here.)
CommittedComesBack ==
    \A b \in Block : (diskBest = b) ~> (status = "running" /\ b \in ChainSet(hashBestChain))

\* The abstract chain that the detailed store implements.
Abstract == INSTANCE DurableChain WITH
    durable <- IF diskBest = NoBlock THEN <<>> ELSE Chain[diskBest],
    view    <- IF hashBestChain = NoBlock THEN <<>> ELSE Chain[hashBestChain],
    up      <- status = "running"

\* Every behaviour of the block store is one of DurableChain: the three
\* commits, the crashes between them and LoadBlockIndex together look like an
\* append-only chain with a view that trails it by at most one block.
ImplementsDurableChain == Abstract!Spec
=============================================================================
