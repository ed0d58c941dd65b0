# Verification of the Bank Society Gold node

TLA+ models of the node in `src/src/` (a proof-of-stake coin that descends from
Bitcoin and Dash), the TLC runs that check them on small instances, and theorems
that TLAPS proves for every instance. `main.cpp:4282` below means line 4282 of
`src/src/main.cpp`. `PROJECT.json` lists components, runs, findings, hazards and
theorems, and for every definition the source lines it models.

The question behind the project is what can go wrong in this code that a test
would hardly reach: a process that ends between two writes, a commit that fails in
the middle of a block, blocks that arrive in an awkward order, a second thread
between a check and the insertion it guards, two threads that take the same locks
in opposite orders, a loop that a shutdown cuts short.

## 1. The system

The node is one process with a handful of threads:

- `msghand` (`ThreadMessageHandler`) handles the messages of all peers, one after
  the other. It is the only thread that stores received blocks.
- `socket`, `opencon`, `addcon`, `dnsseed`, `dumpaddr` keep the connections and
  the table of peers.
- the wallet, RPC, miner, stake, Darksend and secure messaging threads call into the
  chain, the memory pool, the wallet and the message buckets.

Which lock covers what decides most of the models:

- `cs_main` is taken at the head of `ProcessMessage` (`main.cpp:7174`) and held for
  the whole message, a block with all its commits included; the further `LOCK(cs_main)`
  in it that are commented out make no difference. The wallet takes it too.
  `sendrawtransaction` enters `AcceptToMemoryPool` without it
  (`rpcrawtransaction.cpp:595`), and so does the Darksend thread when it cleans up the
  locks of InstantX.
- `cs_wallet` covers coins and keys, in several critical sections for what is one
  operation to the user.
- `cs_vNodes` covers the list of connections, not the work on a connection.
- `CAddrMan::cs` is held by every operation on the table of peers.
- `cs_smsg` covers the message buckets; `cs_smsg_net` and `cs_vSend` belong to a peer.

A shutdown interrupts the threads, and `MilliSleep` is an interruption point: this
code calls it in nearly every loop and after nearly every write, so a shutdown can
end an operation in its middle.

### Components

| Component | State | Operations | Hard part | Module |
|---|---|---|---|---|
| Block chain store (`main.cpp`, `txdb-leveldb.cpp`) | block file, LevelDB records (`blockindex`, `tx`, `hashBestChain`), `mapBlockIndex`, `pindexBest` | `AcceptBlock`, `AddToBlockIndex`, `SetBestChain(Inner)`, `ConnectBlock`, `LoadBlockIndex` | three commits per block; a crash, an interruption or a failed commit between them | `BlockChain`, `DurableChain` |
| Block reception (`main.cpp` `ProcessBlock`) | `Block_Checker[]`, `Buffer_entries`, `synch_check` (statics) | the `block` and `version` handlers, the miner's call | order of arrival, termination, a failed commit inside a pass | `BlockSync` on `BlockChain` |
| Memory pool and orphans (`main.cpp`, `txmempool.cpp`) | `mapTx`, `mapNextTx`, `mapOrphanTransactions(ByPrev)` | `tx`, `dstx`, `AcceptToMemoryPool`, clean-up after a block | an RPC thread between check and insertion without `cs_main` | `Mempool` |
| InstantX locks (`instantx.cpp`) | `mapTxLockReq`, `mapTxLockVote`, `mapTxLocks`, `mapLockedInputs` | `txlreq`, `txlvote`, own requests, clean-up | votes before the request; a clean-up without a lock; expiry | `InstantX` on `Mempool` |
| Wallet keys (`wallet.cpp`, `crypter.cpp`, `walletdb.cpp`, `db.cpp`) | plain and encrypted keys, master key, key pool, `wallet.dat` | reserve, keep, return, top up, `Lock`, `Unlock`, `EncryptWallet`, `CDB::Rewrite` | a death between two writes; keys known by an index that is used again | `WalletKeys` |
| Wallet coins (`wallet.cpp`, `miner.cpp`) | `mapWallet`, spent marks, `wallet.dat` | `CreateTransaction`, `CommitTransaction`, staking, repair, reacceptance | a transaction that is saved and then refused; a death between two writes | `WalletCoins` |
| Connections (`net.cpp`) | `vNodes`, reference counts, `fDisconnect`, sockets | accept, connect, serve, disconnect, delete | reference counts across threads; a flag without a lock | `Net` |
| Address manager (`addrman.cpp`, `addrman.h`) | `mapInfo`, `mapAddr`, `vRandom`, `vvNew`, `vvTried`, counters, `peers.dat` | `Add`, `Good`, `GetAddr`, serialization | redundant indexes; loops a shutdown cuts short before the file is saved | `AddrMan` |
| Secure messages (`smessage.cpp`) | buckets in memory and on disk, locks on buckets, outbox | the `smsg*` handlers, two threads, enable and disable | exchange of buckets under locks and timeouts; order of locks | `SecureMsg` |
| Masternodes, payments, sporks (`masternode*.cpp`, `spork.cpp`) | list, winners per block, spork values | `dsee`, `dseep`, `mnw`, `spork`, expiry | what is left of it in this code, see section 5 | parts in `Mempool`, `InstantX` |
| Darksend (`darksend.cpp`) | the session: entries, signatures, timeouts | `dsa`, `dsi`, `dss`, `dsc` | a session cannot come about in this code, see section 5 | parts in `Mempool`, `InstantX` |

### How they interact

A `block` message goes to `ProcessBlock`, which buffers it; a pass over the buffer
calls `AcceptBlock`, which writes the block file and calls `AddToBlockIndex` and
through it `SetBestChain`. `ConnectBlock` tells the wallet of the block's
transactions before the chain is committed. The commit of `SetBestChainInner` adds
transaction records, on which `AcceptToMemoryPool` relies to find the parents of a
transaction, and is followed by the removal of the block's transactions from the
pool. `mapLockedInputs` of InstantX is read by `AcceptToMemoryPool`, which tells the
wallet of what it accepts. The address manager is used by all network threads and
saved by `StopNode`.

These are the edges along which the modules compose. `BlockSync` extends `BlockChain`
and uses its actions as the steps of `AcceptBlock`. `InstantX` extends `Mempool`, whose
changes of `mapLockedInputs` become the steps of requests, votes and clean-up; that the
composition implements `MempoolSpec` is a property of its run. `WalletCoins` has a pool
and a chain reduced to what the wallet can see, with the rules of `Mempool` for both.
`Net` and `SecureMsg` stand alone: what a message contains does not matter to the one,
and a connection is only a channel to the other.

## 2. The models

Definitions keep the names of the source. Hashes, transactions and addresses are
model values; what a hash or a signature decides is a constant set. Each module
states its properties at its end. A definition marked "Mutant" is a plausible bug in
the definition after it, used to show that a property can fail.

### BlockChain and DurableChain

One block (`cur`) is in flight, and `pc` says how far it is:

| `pc` | done | code |
|---|---|---|
| `file` | the block is in the block file | `AcceptBlock` to `WriteToDisk`, or `LoadBlockIndex` for the genesis block |
| `index` | entry in memory, record on disk | `AddToBlockIndex` to `TxnCommit` (`main.cpp:4282`) |
| `best` | one batch: `tx` records, `hashNext`, `hashBestChain` | `ConnectBlock` and `SetBestChainInner` to `TxnCommit` |
| `idle` | `pnext` and `hashBestChain` in memory | the assignments after it |

Between any two of these steps the process may `Crash`, or a `Shutdown` requested
before may interrupt it; each `TxnCommit` may fail, with the entry already in
memory. `LoadBlockIndex` rebuilds memory from the disk as the code does, with the
empty entries that `InsertBlockIndex` makes for a dangling hash, the verification
of the last blocks and the attempt to move the best block back.

What reading the code line by line brought into the model: `SetBestChain` only
accepts a block that extends `hashBestChain`, so `Reorganize` is unreachable and
the chain is append-only; `SetBestChainInner` commits `hashBestChain` even when
`ConnectBlock` returned false; `ConnectInputs` and `FetchInputs` refuse nothing
for a block. LevelDB's batch is taken to be atomic and durable.

`CheckBlock` is a constant set. In the code its answer also depends on locks and
on the expected masternode payee and can differ between two calls; the model takes
one answer per block, the same at each of the calls.

`DurableChain` is the promise: a chain on disk that only grows at its end by one
block, and a view in memory that is never ahead and at most one block behind.

### BlockSync

`phase` says where `msghand` is in `ProcessBlock`. A received block is ignored
(`IgnoreBlock`), stored while `ProcessBlock` waits for more (`BufferBlock`), or
leads to a scan, with its four outcomes: `ScanFindsNothing`, `ScanNeverEnds`,
`ScanFindsSeveral`, `StartPass`. A pass visits the slots (`SkipSlot`,
`AcceptSlot`, `RefuseSlot`, `AcceptReturns`, `EndPass`); while it is in
`AcceptBlock`, the steps are those of `BlockChain`. The static variables go with
the process (`Fresh`). Timestamps are unsigned, so their differences wrap
(`TimeDiff`). A mined block arrives with a null peer that `PushGetBlocks`
dereferences (`main.cpp:5340`): `MineBlock` ends the process. The lines after the
unconditional return of `ProcessBlock` (5890-6390) are dead and left out.

The rest of the network is a set of blocks that arrive in any order, any number of
times. Whether the best block is more than 240 seconds old is a free choice.

### Mempool

The handler holds `cs_main` from the first line of a message to the last, so its work
queue over orphans (`TakeWork`, `TryOrphan`, `EraseQueue`) and the two halves of a block
(`CommitBlock`, `DeleteRedundant`) interleave with one thing only: `sendrawtransaction`,
which checks (`CheckRaw`) and adds (`AddRaw`) without that lock. `RawTx` is the set of
transactions sent this way. Fees, standard form and size are constant sets of
transactions. `AcceptToMemoryPool` looks for parents in `txdb` only, as the code does,
and `ConnectInputs` does not refuse a spent output. The lock on outputs changes in any
way InstantX can change it (`LockInputs`, `UnlockInputs`).

### InstantX

The five maps have no lock of their own. Handlers of requests and votes hold `cs_main`
and take one step for each stage between which the clean-up matters; the clean-up
(`CleanInputs`, `CleanRequest`, `CleanVotes`, `CleanRecord`) takes one step for each map.
A vote for an unknown transaction makes a record without a height, which counts -1 votes,
so it cannot be complete before its request has come. A complete record lacks its stored
request when the pool refused it, which ends the process (`Reprocess`, below), or between
`CleanRequest` and `CleanRecord`, where `mapTxLockReq[]` makes an empty one (`Complete`).
A request that the pool refuses locks its free inputs all the same
(`RejectRequest`). When a
refused request turns out to be locked in, the code disconnects a block through a pointer
that was never set: `Reprocess` ends the process. `CheckAndRemoveHangs` is the loop of
`CMasternodeMan::CheckAndRemove` that never gets past a masternode to remove
(`masternodeman.cpp:326`); it comes before the clean-up on the same thread.

### WalletKeys

Keys are numbered. `dat` and `rewrite` are the two files, with the records `key`,
`ckey`, `mkey` and `pool`; a step makes at most one write that survives a death, except
`EncryptCommit`, which is a transaction of the database. `reserved` has the key that each
`CReserveKey` holds together with its index; keeping and returning are by index, as in
the code, while `TopUpKeyPool` numbers a new key after the largest index in memory.
`Lock()` clears the master key after it has released `cs_wallet` (`LockBegin`,
`LockEnd`), so a top up may find the wallet locked in the middle (`AddKeyFails`).
`CDB::Rewrite` is three steps (`RewriteCopy`, `RewriteRemove`, `RewriteRename`) and may
fail before and after the removal (`RewriteFails`, `RewriteRenameFails`); after the latter
the process runs on without a `wallet.dat`, and a start then makes a new one. A
`wallet.dat.rewrite` that was left behind stays where it is. The next rewrite opens it and
adds the records of the wallet to it with `DB_NOOVERWRITE` (`db.cpp:369`, 410-411): of two
records with one name the old one stays, the master key included (`Merge`). The keys of the
wallet that is merged are then in the file without the master key that opens them; `lost`
in a file has them. `stale` says that the process has the merged wallet's master key in
memory while the file has the other.

### WalletCoins

A transaction has one output that may be ours, and a coin is named by its transaction.
`CreateTransaction` and `CommitTransaction` are two critical sections; in between another
sender, a coinstake or a copy of the wallet may spend the coin. `CommitTransaction` saves
the transaction, marks the coins one by one (`MarkSpent`) and only then asks the pool
(`Broadcast`). `ConnectBlock` tells the wallet before the block is committed, and
`AbortBlock` is the commit that fails. `FixSpentCoins` (repairwallet) takes marks from
the transaction index; `Restart` loads `wallet.dat` and offers its transactions to an
empty pool in some order (`Reaccepted`). A block with a coinstake of one's own is stale
(`StakeFails`) or ends the process (`StakeCrash`), since its peer is a null pointer.

### Net

Both threads copy `vNodes` and count a reference to each node, work on the copy without
the lock and release the references (`NetCopy` ... `NetRelease`, `HandCopy` ...
`HandRelease`). `fDisconnect` and `hSocket` have no lock. `cs_vRecvMsg` is `hand.node`.
`vRecvMsg` is a number of messages. The firewall is off, as by default.

A message is processed in three stages. `ProcessMessage` first walks `vNodes` itself,
without `cs_vNodes` and without references, sends to each node and sleeps (`BeginWalk`,
`WalkNode`, `main.cpp:7204`); then comes its work, in which it resets `fDisconnect`
(`main.cpp:7230`) whoever has set it. The walk holds the end of the vector as it was at
its beginning, and an erase leaves the slots behind the new end as they were, so the
model's walk goes over the nodes that were listed when it began. A thread that connects
out finds a node under the lock (`FindNode`) and counts its reference later
(`AddRefFound`). It may find an outbound node, or an inbound one whose peer calls from the
address that it listens at (`Callable`).

### SecureMsg

Two nodes or more, one bucket, messages numbered in the order of their tokens. A node has
four threads at work on it: the handler (`ReceiveData`, `SendData`), `ThreadSecureMsg`
(`SmsgRound`, `SmsgRemove`, `IgnorePeer`), `ThreadSecureMsgPow` (`PowErase`, `PowStore`)
and the user who turns messaging off and on (`Disable`, `Enable`). An exchange is
`smsgInv`, `smsgShow`, `smsgHave`, `smsgWant`, `smsgMsg`; the node that asks locks the
bucket for its peer, `ThreadSecureMsg` counts the lock down and in the end takes
`cs_vSend` and `cs_smsg_net` of that peer to ignore it. A bunch of messages is stored one
by one (`StoreNext`), stops at the first one that is known, and the hash is computed at
its end (`EndBunch`).

Decisions: every section under `cs_smsg` is one step. The interval of a peer's wake
counter and `lastMatched`, which only save traffic, are left out: an inventory may be sent
whenever `SendData` is called. `SendData` is one step unless `cs_vSend` is taken
(`SendBlocked`). The two sections of `smsgHave` are merged, since nothing that matters can
come between them.

### AddrMan

The object `am` has the fields of `CAddrMan`. Operations hold the lock and do not
interleave, but the loops inside them contain `MilliSleep`. So `MakeTried`,
`SelectTried`, `ShrinkNew` and `GetAddr_` are stepped (`busy` is the loop the
holder of the lock is in), and `Shutdown` may come at each step, release the lock
and save what is there. `Serialize` and `Deserialize` follow the format of
`addrman.h`, which names entries by a counter. A table that was cut short is saved, read
and worked on like any other, as long as the file holds what it announces (`Readable`).
Otherwise what follows the entries is read as entries, into the live object, and the node
runs on with whatever that has made of it: the exception is caught (`net.cpp:4056`) and
logged (`init.cpp:1182`), and nothing clears the object. `StartMisread` leads there; the
object is then `HalfRead` and what is saved of it `UnknownFile`, two values about which
nothing is said. Only a user who removes `peers.dat` ends that (`StartEmpty`). Hashes to
buckets are constant functions. `nTime`, `nLastTry` and `nAttempts` decide only how likely an
entry is chosen or whether it is terrible; where they decide, either may happen.

## 3. The runs

All run with TLC, two workers, deadlock checking on except for the two runs of secure
messaging, whose threads really can stop for good. The number in brackets is the number
of distinct states.

| Run | Configuration | Result |
|---|---|---|
| `chain` | `MCBlockChain.cfg` | passes: disk and memory consistent, append-only, strays counted and kept out, what was committed comes back, `DurableChain` is implemented [6634] |
| `sync` | `MCBlockSync.cfg` | passes: the buffer's accounts, coverage and end of a pass, `BlockChain` is implemented [136173] |
| `sync_competing` | `SyncCompeting.cfg` | violated: `CompetingResolved` |
| `mempool` | `MCMempool.cfg` | passes: both indexes exact, orphans bounded, parents recorded [166128] |
| `instantx` | `MCInstantX.cfg` | passes: votes counted once, no lock without votes, records removed, `Mempool` is implemented [177629] |
| `walletkeys` | `MCWalletKeys.cfg` | passes: every key in a file, kept keys gone, the file loads [1681712] |
| `walletcoins` | `MCWalletCoins.cfg` | passes: spends known, marks explained, relayed transactions survive [115341] |
| `net` | `MCNet.cfg` | passes: references exact, disconnected nodes deleted [1083638] |
| `net_use` | `NetUse.cfg` | violated: `DoneUsing` |
| `addrman` | `MCAddrMan.cfg` | passes: indexes agree, `Check_()` holds, buckets bounded, tried entries and restarts lose nothing [1612959] |
| `smsg` | `MCSecureMsg.cfg` | passes: buckets exact, messages spread [275104] |
| `smsg_locks` | `SmsgLocks.cfg` | violated: `LocksOrdered` |

### What the passing runs show

**chain.** Wherever the process ends, what is on disk restarts to the same chain.
The one exception is the first start: between the two commits of the genesis block
a crash leaves an index without a best block, and every later start fails (theorem
`StartupSafe`: nothing else can make it fail). A block whose index record was committed
and whose best-chain commit was not is a *stray*: `AcceptBlock` calls it known for ever
(`StrayStaysOut`), and there is at most one per interruption (`StraysCounted`). A
block that was committed as the best one comes back: the node gets to run with it in its
chain however often it is interrupted, also when `ConnectBlock` or the verification at
startup found it bad (`CommittedComesBack`). That leaves the genesis block out, whose index
record comes first and whose loss no start repairs.

**sync.** The buffer's counter stays at or above the number of blocks it holds although
slots are blanked behind its back and the number of slots in use changes, so room
in the count means a blank slot (`RoomMeansBlank`). A pass stops early only behind
a refused block (`PassCoversBuffer`), always ends (`PassEnds`), and changes the
chain only in the ways of `BlockChain`.

**mempool.** `mapNextTx` has no dangling pointer, although `sendrawtransaction` may add
behind the back of the handler, and it names the one spender of every spent output but
those that `sendrawtransaction` spends: two transactions that spend the same output get
into the pool only through that door.

**instantx.** With a clean-up between any two stages, a vote that is sent again counts
once, and an input is locked only with the votes of enough masternodes or when the pool
refuses the request in that step. That holds inside the window of the clean-up too, where a
record may have a vote twice that was just forgotten: its request is gone by then, so the
request that `Complete` makes has no inputs to lock. Every record is removed in the end,
votes that keep coming for it notwithstanding, as long as the thread of the clean-up comes
back to it. The composition uses the pool only as `Mempool` allows, so all that is proved
of it holds.

**walletkeys.** Whoever was given a key can count on its secret: at each step of top up,
encryption and rewrite one of the two files has it with the master key that opens it. The
one exception is `lost`: a rewrite that merges the wallet into a `wallet.dat.rewrite` left
behind loses all keys of that wallet. Without `lost` in `KeysRecoverable` TLC finds that
loss. A key given for good is in no record of the pool, so no restart and no merge hands it
out again, although indexes are used again; a key that was kept while there was no
`wallet.dat` to erase it from (`unrecorded`) can come back. Wherever the process dies,
`LoadWallet` accepts the file.

**walletcoins.** A start finds every spend of its coins that pool or chain have. No coin
is withheld without a reason that the wallet knows. What was relayed is in the pool or in
the chain after every death unless a rival is, also after a repair took the marks away.

**net.** The two copies never name a deleted node, whatever the two threads, the walk and
`ConnectNode` do in between, and the reference that `ConnectNode` counts late is never to
a deleted outbound node: those are never deleted. The walk of `vNodes` and the late
reference to an inbound node have no such guarantee, which is `net_use`. An inbound node
that was disconnected is deleted in the end, unless `ConnectNode` may have found it, whose
reference nobody gives back.

**addrman.** As long as `peers.dat` could be read, the table's three views of its entries
agree at every instant, in the middle of an operation and in a table that was cut short,
read again and worked on, and no bucket is larger than its size: an eviction always finds a
place. Between operations the code's own `Check_()` holds in such a table too, but that an
entry may be in no bucket once `Add_` or `MakeTried` was cut short. A shutdown between
operations loses nothing. Of an object that a misread has half filled nothing is claimed.

**smsg.** Through overlapping exchanges, locks that time out, late and cut bunches, lost
connections and restarts, the bucket in memory is the one on disk and its hash is exact.
So two nodes whose buckets differ go on to notice it, and the buckets become equal again
and again, unless one of them has dropped the bucket or its threads have stopped.

### What the violations show

- `sync_competing`: two blocks on time that follow the best one stay in the buffer
  and stop every later call of `ProcessBlock` until a restart (`main.cpp:5771`). It is
  temporal, under `FairSyncSpec`: threads run on and every block keeps arriving, more than
  a network gives, and the node is stuck all the same.
- `net_use`: "wait until threads are done using it" (`net.cpp:2522`) covers the threads that
  have a reference. A node that connects after the handler has made its copy is in the
  handler's walk of `vNodes`; the socket thread may disconnect and delete it before the walk
  comes to it.
- `smsg_locks`: `ThreadSecureMsg` takes `cs_vSend` and then `cs_smsg_net` of a peer that
  it will ignore (`smessage.cpp:690`); the handler holds `cs_smsg_net` when `PushMessage`
  takes `cs_vSend` (`smessage.cpp:1842`). Ten steps lead there, among them a lock that
  times out. Both threads stop for good, with `cs_vNodes` and `cs_smsg`.

### Observed while modelling, without a run of their own

The first group was reproduced with TLC as a violated property and then left out; the
model still has the behaviour.

- A block that fails `CheckBlock` in `ConnectBlock` becomes the best block without the
  `hashNext` link of its predecessor; after a restart `pnext` does not lead through the
  main chain (`main.h:1046`, `main.cpp:3911`).
- Startup announces that it moves the best block back to before the first bad one;
  `SetBestChain` refuses (`txdb-leveldb.cpp:644`).
- After a failed commit the search for an entry above the best block does not step past
  it, and `msghand` never returns (`main.cpp:5634`).
- The pool keeps a transaction that spends what a confirmed one spends: a block removes
  its own transactions only (`main.cpp:3939` against `txmempool.h:11`).
- "Recursively process any orphan transactions" (`main.cpp:8119`) looks for the parent on
  disk (`main.cpp:1016`), where it is not yet; and an orphan that comes again is taken for
  known (`main.cpp:6937`), so orphans do not follow their parents.
- `sendrawtransaction` and a message can add two transactions that spend one output,
  since the lock that `AcceptToMemoryPool` asserts (`main.cpp:947`) is not held.
- A shutdown inside `MakeTried` writes a `peers.dat` that announces an entry it does not
  hold (`addrman.h:268`, `addrman.cpp:219`), and the next start misreads it.
- The keys of a wallet that is encrypted while a `wallet.dat.rewrite` lies beside it are
  lost with the merge (`db.cpp:410`).
- Locks "expire after 20 minutes" (`instantx.cpp:272`), but an input stays locked when a
  late vote locks it after the clean-up has freed it and before it forgets the request.
- A returned key may share its index with a new one (`wallet.cpp:4396`, `4321`): two
  holders then get the same key, while the comment at `wallet.cpp:2612` counts on a new one.
- "This must not fail" (`wallet.cpp:3955`): after repairwallet has taken a mark from a coin
  that a waiting transaction spends (`wallet.cpp:4596`), it does.
- A node that the socket thread closes while `ProcessMessage` resets `fDisconnect`
  (`main.cpp:7230`) is neither served nor removed.

The others come from reading:

- `SelectTried` remembers the place an entry had *before* the swap (`addrman.cpp:144`),
  so it evicts another entry than the least recent one. The model does the same.
- `Select_` searches random buckets without end while it holds the lock
  (`addrman.cpp:414`); it relies on the counters that `CheckPasses` is about.
- Blocks the pass could not place are said to be kept (`main.cpp:5469`); the whole buffer
  is cleared (`main.cpp:5797`).
- `FetchInputs` reads no previous transaction, so fees come out as nothing and nearly every
  transaction that is checked with `fLimitFree` is refused, while a spent output is refused
  to nobody; `vSpent` is indexed past its end for a transaction that is stamped later than
  the local time (`main.cpp:2837`).
- InstantX: the node does not count its own vote (`instantx.cpp:324`), a vote that was
  refused once is never looked at again (`instantx.cpp:159`), and the clean-up of one
  request frees the inputs that another one has locked (`instantx.cpp:496`).
- With the firewall off `OpenNetworkConnection` returns before it moves the grant and sets
  `fNetworkNode` (`net.cpp:3346`): the number of outbound connections is not limited, and an
  outbound node is never deleted. `DisconnectedDeleted` is about inbound nodes for that reason.
- Like the walk at `main.cpp:7204`, the one at `main.cpp:7183` is without `cs_vNodes`, and
  others use the node of `FindNode` without a reference (`darksend.cpp:2578`,
  `rpcnet.cpp:508`). They are not modelled.
- The log says that an invalid `peers.dat` is recreated (`init.cpp:1183`); nothing does.
  With a table of which no entry is in a bucket `Select_` searches for ever.
- `SecureMsgDisable` joins both threads while it holds `cs_smsg` (`smessage.cpp:1277`); a
  thread that waits for it then never ends (`JoinCycle` in the model).
- `smsgBuckets.erase(it)` is followed by `it++` on the erased iterator (`smessage.cpp:657`).
- A lock on a bucket should last "3 * SMSG_THREAD_DELAY seconds" (`smessage.cpp:1634`); the
  thread sleeps `SMSG_THREAD_DELAY * 10` milliseconds (706), so it lasts about one second.
- A message is erased from the outbox before it is in a bucket (`smessage.cpp:763`).
- `CleanPaymentList` removes one entry per call and multiplies by `(int)1.25`
  (`masternode-payments.cpp:269`); `DoAutomaticDenominating` waits for a list to shrink that
  nobody shrinks (`darksend.cpp:1781`).

### Bounds, and why they are enough

- *chain*: six blocks in two branches, a bad block inside one and at the end of the
  other; two crashes, two shutdowns and two failed commits, at every point. Two crashes
  are needed for a stray that is met again after a second restart.
- *sync*: six blocks with a fork, one refused, one late and one far in the future;
  four slots of which three are used near the tip, so that both sizes occur, the buffer
  fills in both, and the size changes between two blocks. `MatchHeight` is 0 in place
  of 1000, so that the branch for a scan without a match is reached on a chain of four
  blocks. In the code the ratio is 30 to 3 slots.
- *mempool*: a double spend, two generations of orphans, one place for orphans so that
  eviction happens, a large orphan, one that pays too little, blocks of up to two
  transactions, and one transaction that is sent by `sendrawtransaction`.
- *instantx*: two transactions for one output, both requested, one of them also by the
  wallet; two masternodes of which both must agree, one being this node, and one of them
  may vote with a wrong height. Each of the cases of a record (from a request, from a
  vote, refused, complete, conflicting, due) occurs.
- *walletkeys*: two holders, so that an index is used again while it is reserved; a pool
  of one (two with the spare one), seven keys in all, of which encryption needs some; that
  is enough for a death between removal and renaming, a new wallet, its encryption into the
  copy that was left behind, and a start from the merged file. The number of deaths is not
  bounded.
- *walletcoins*: two coins, a transaction that spends both, rivals for one, a chained one,
  a copy's and a coinstake; two senders; two deaths.
- *net*: two inbound connections for one place, of which one is `Callable`, an outbound one;
  one waiting message decides whether a node is processed; two references from connecting
  again. In *net_use* no inbound node is `Callable`, so that the walk alone is to blame.
- *addrman*: four hosts, two new buckets of one entry and one tried bucket of two, so
  that an entry is in two buckets, both kinds fill up, and an evicted entry finds its
  own bucket full. The hosts are interchangeable, so symmetry over them is sound (no
  liveness is checked there). `MaxIds` bounds the ids between two starts. With one port
  per host the test of the port in `Good_` always succeeds, and with `MaxTime` 1 the
  comparison of times in `SelectTried` never does.
- *smsg*: two nodes with a bucket of the same size and other content, and a new message,
  so that a comparison by size would miss the difference; bunches of two, so that one is
  cut; a lock of two rounds in place of three; one fault (connection, restart, expiry, off
  and on) of one node at any point. `MaxInFlight` bounds messages on their way and only
  delays a sender. *smsg_locks* keeps the code's 3 rounds and 500 messages, without faults.
- The bounds on crashes, shutdowns and faults are constants, and the proofs hold for any
  value of them.

### Fairness

- `FairSpec` (chain): weak fairness of the node's own steps (the thread in flight runs
  on; a node that is down is started again) and of a requested shutdown. Nothing is assumed
  of the blocks that arrive.
- `ThreadSpec` (sync): only the handler thread runs on. `PassEnds` needs no more.
- `FairSyncSpec` (sync_competing, a violation): in addition a requested shutdown completes,
  and each block of the network keeps being received. Nothing in the code sees to the latter
  (a block that was dropped may stay in `setInventoryKnown` of the peers); what does not
  happen even so does not happen. That every block is connected in the end is therefore
  claimed nowhere.
- `IXFairness`: time passes, so a record becomes due, and the clean-up of a record that has
  begun goes on. That the Darksend thread ever comes back to its clean-up is not fairness of
  the code: it may hang in `CheckAndRemove` or in `DoAutomaticDenominating`, and the clean-up
  waits for `IsBlockchainSynced`. `RecordsRemoved` says so in its hypothesis
  (`ThreadComesBack`) and concludes nothing about such a thread.
- `NetFairness`: socket thread and handler run on. Nothing is assumed of a peer.
- `SmsgFairness`: the threads of a node run on, and one that has begun a bunch continues.
  The handler serves every peer in turn, which is strong fairness of receiving from and
  sending to each of them, as one peer can always keep it from another for a while; that
  `SendData` gets to its inventory is due to a wake counter of at most 310 calls. A time of
  ignoring a peer ends. Nothing is assumed of faults, nor of the user.

## 4. The proofs

TLAPS checks eight modules, about 11 200 proof obligations, with no assumption but those named at
the end of this section. All theorems hold for every value of the constants: every tree of
blocks, every set of transactions, nodes, keys, hosts or messages, and any bounds. Every
invariant and action property of the passing runs, and each of the three refinements, is
the conclusion of a theorem; liveness is not.

Each module has the same plan. An inductive invariant strengthens what is to be shown; one
lemma per action shows that the action keeps it; one theorem collects them; and the properties
follow. TLC has checked each of these invariants on the instance of the component's run,
`KeysInv` without the types in it, whose set of possible files is too large to enumerate. The
table names the inductive invariant and its theorem; `PROJECT.json` lists all.

| Module | Inductive invariant | Theorem |
|---|---|---|
| `BlockChain_proofs` | `Inv`, and `StrayInv` on top | `Invariance` |
| `BlockSync_proofs` | `Inv /\ SyncInv`, and `ReachInv` on top | `SyncInvariance` |
| `InstantX_proofs` | `MempoolInv` of the pool, `IXInv` of the locks, and `CleanInv` on top | `MempoolInvariance`, `IXInvariance` |
| `WalletKeys_proofs` | `KeysInv` | `KeysInvariance` |
| `WalletCoins_proofs` | `CoinsInv` | `CoinsInvariance` |
| `Net_proofs` | `NetInv` | `NetInvariance` |
| `AddrMan_proofs` | `AddrInv` | `AddrInvariance` |
| `SecureMsg_proofs` | `SmsgInv` | `SmsgInvariance` |

**BlockChain_proofs.** `Inv` is the conjunction of `TypeOK`,
`DiskConsistent`, `HeightAndTrust`, `BestAgrees`, `PnextOnlyOnMainChain`,
`TxRecordsMatchLinks`, `BestChainIndexed` and `FlightConsistent`. None of the interesting
conjuncts is inductive alone: that a link leads along the best chain needs the block in
flight to follow the best block (`FlightConsistent`), that again needs memory and disk
to agree (`BestAgrees`), and that the new entry has more trust, without which
`AddToBlockIndex` would stop halfway, needs the trust of all entries (`HeightAndTrust`).
From it follow `TypeCorrect`,
`DiskAlwaysConsistent`, `PnextSound`, `TxRecordsAlwaysMatch`, `MemoryAlwaysMatches` (the four
conjuncts on heights, best block, best chain and flight together), `StartupSafe` (the
verification window of startup lies in the block file), `ChainAppendOnly` and
`Refinement`: each commit of `SetBestChain` is a `Commit` of `DurableChain`, each
`UpdateBest` a `Publish`, each end of the process a `Stop`, everything else a stutter.
`StraysAlwaysCounted` needs `StrayInv`, which counts exactly: a block in flight between its
two commits is a stray that no interruption has been charged with yet, and a requested
shutdown is an interruption that has left nothing yet. `StraysAlwaysStayOut` follows from
`Inv`: a stray is in memory whenever the process runs, and `AcceptBlock` refuses it.

**BlockSync_proofs.** `SyncInv` is `SyncTypeOK` (with the relation
between the counters of a pass) and `RoomMeansBlank`. Its core is counting: storing a block
raises the count and fills one slot, blanking only lowers the number of filled slots,
hence fewer blocks than slots leave one blank. `SyncImplementsChain` shows every step to
be a step of `BlockChain` or to leave it alone, and `ChainSoundUnderSync` draws the
conclusion: the theorems above hold under the buffer. `PassesCoverBuffer` needs `ReachInv`:
no block lies beyond `Buffer_entries`, and `loops_performed` runs ahead of
`Blocks_Processed` only at a block that is refused for the rest of the pass, which a failed
commit leaves behind as well. `PassesNearTheirEnd` is what can be proved of `PassEnds`:
`PassWork`, made of the loops that are left, the stages of `AcceptBlock` and the one
request to shut down, is a natural number that every step lowers until the pass is over.
Fairness of the handler thread, which turns this into `PassEnds`, stays with TLC.

**InstantX_proofs**, on both `Mempool` and `InstantX`. `MempoolInv` is `MempoolTypeOK` (with
the exclusion by `cs_main`),
`PoolExact`, `OrphanIndexExact`, `OrphansBounded` and `PoolParentsRecorded`. `addUnchecked`
checks nothing, so `PoolExact` has to exclude what `sendrawtransaction` may bring in:
an output that no transaction of `RawTx` spends is spent once, by the transaction that
`mapNextTx` names. `NoDoubleSpendUnderLock` takes `RawTx = {}` as its hypothesis and so says
what the lock missing in `sendrawtransaction` would give. Of InstantX, `InstantXUsesPool`
maps each step to a step of `Mempool` or to a stutter, so the theorems of the pool carry over
(`PoolSoundUnderInstantX`). `NoVoteTwice` needs the stages of the clean-up in `IXInv`: it
forgets the votes of a record one step before the record, and until then the only record
that may count a vote not known as seen is the one it is about to remove. `LocksNeedVotes`
relates each new lock to the step that made it, a refusal or the vote that completes. For
the record that is being taken apart, whose votes `NoVoteTwice` leaves out, it needs a second
invariant, `CleanInv`: a stored request is of a transaction that the pool or a block has, which
no message brings in again (`RequestsHeld`, `PendingNew`), so a request that the clean-up has
erased is gone for good, and until it is erased no vote of its record is forgotten
(`CleaningCounted`).

**WalletKeys_proofs.** `KeptKeysGone` fails to be inductive since `KeepKey` erases by index
and an index may stand for another key by then. `KeysInv` describes with one predicate
(`Good`) a file from which the wallet may be loaded: it loads, no key has two indexes, an
index in reserve whose key the pool still has is that key's, and kept keys are in no record.
`DatOK` says that of `wallet.dat` and relates it to memory, `RewriteOK` of the copy as long as
it may become `wallet.dat`, by a renaming or by a merge. That a merge keeps `Good` rests on
the two files having no key in common, which they have from the start that made the new
wallet. `KeyStagesOK` says which stages of encryption, rewrite and top up exclude each other.

**WalletCoins_proofs.** `CoinsInv` adds to the three properties that every critical section
leaves memory and `wallet.dat` equal (`WrittenThrough`), that what chain, pool and network
have spends outputs of the chain (`ParentsInChain`), that the wallet has been told of what is
its own (`OwnKnown`), also of the block before its commit (`BlockTold`), and that no two
senders build the same transaction (`SendersOK`). `SpendsKnown` at the arrival of a new
transaction is the step that needs all of it: whatever spends an output of it already would
have brought it into the chain, and the wallet would know it.

**Net_proofs.** The reference count of a node is the number of its holders: the list, and
each of the two copies; for a node that `FindNode` may find it is at least that, since the
late reference stays. `NetInv` adds that the socket thread has a copy only while it
serves it, that the handler serves a node of its own copy, that a copy names listed
nodes only, so that a node which connects starts without holders, and that an outbound node
keeps the reference of the list, so it is never deleted. Of the walk it says nothing, for
there is nothing to say (`net_use`).

**AddrMan_proofs.** `AddrInv` says of the object that it is `Sound`, but for what the operation
under way has changed already: `Held` is the entry whose reference `Add_` has counted while
`ShrinkNew` still makes room for it in the bucket, `Exempt` the one without references whose
move to a tried bucket has begun, `Lost` any entry of a table that was once cut short,
`Uncounted` the entry that `MakeTried` has taken off `nNew` and not yet counted as tried.
`Sound` has the three indexes (`Indexed`), each tried entry at one place of its own bucket
(`Placed`), the sizes (`Bounded`), the counters as cardinalities (`Counted`) and the reference
counts as numbers of buckets (`Referenced`). `BusyOK` describes the place where the operation
stands; its part for the eviction is why `BucketsBounded` holds: the bucket that the entry came
from has had room since the entry left it. `FileOK` describes what `peers.dat` may hold, whole
or cut short, and the lemma `Loaded` shows that reading any such file, if it is `Readable`,
gives a sound object, although ids, order and tried buckets are rebuilt. `RestartAlwaysKeeps`
shows in addition that a whole file gives the same addresses in the same buckets: ranks of ids
are a bijection with the numbers in the file, and every tried entry finds room since its bucket
held it before.

**SecureMsg_proofs.** `BucketsExact` is about nodes that are on; turning off, late bunches
and a lost lock could break it. `SmsgInv` adds the types of all messages on their way, that
a node stays off until its threads have been joined and its bucket is emptied (`JoinersOff`),
that no lock is for the node itself (`OwnPeerNever`), and hence that the peer whose locks a
thread waits for is one of the node's links (`VSendForPeer`).

Assumptions, all of them evaluated by TLC on its instances: `TreeAssumption` (blocks form a
tree under the genesis block and trust grows along it), `BlocksFinite`, `ChecksAssumption`,
`BoundsAssumption`, `SyncAssumption` (timestamps fit in 32 bits, the small buffer fits in the
large one), `MempoolAssumption` (a transaction spends outputs of transactions), `TxFinite`,
`InstantXAssumption`, `WalletKeysAssumption`, `WalletCoinsAssumption` (of what a transaction
spends, the model keeps the outputs that pay the wallet), `NetAssumption`, `AddrManAssumption`
(sizes are positive, hashes to buckets are functions) and `SecureMsgAssumption` (messages are
ordered by their tokens). They fix the kinds of the constants; none of them speaks of
behaviour.

Only model-checked: the liveness properties `CommittedComesBack`, `PassEnds`,
`RecordsRemoved`, `DisconnectedDeleted` and `MessagesSpread`, since fairness and `ENABLED`
are out of this prover's reach.

## 5. Not modelled

- *Darksend sessions.* `DoAutomaticDenominating` returns unless `fMasterNode` is set
  (`darksend.cpp:1604`), and `SendDarksendDenominate` and `StatusUpdate`, which the same
  node would need, return when it is (1302, 1405). No session gets past its first message.
- *Masternode list and payments.* Every erase from the list is commented out, so it only
  grows; the loop that should shrink it hangs (in `InstantX`). `CMasternodePayments::Sign`
  gives the text of the vote to `SetKey` where the key belongs
  (`masternode-payments.cpp:159`), so no vote is signed and the list of winners stays empty.
  Sporks are one map under `cs_main`; `ManageStatus` is a status that one thread polls.
- *Scripts, keys, signatures, the stake kernel, difficulty.* Pure computation on long
  numbers, out of TLC's reach; the verdicts are constants of the models.
- *The Berkeley DB environment* (log, flush thread, salvage), *RPC*, *GUI*, *utilities*:
  input and output around the components; the calls that change state are actions of the
  component they call. Alerts only inform.
- *Vendored libraries* (LevelDB, lz4, QCustomPlot, generated resources, about half of the
  lines in the tree) and the *source files that no makefile builds*.

## 6. Plan

The models are complete in the order that was planned, and the safety part of what the runs
check is proved. What would say more:

1. The safety half of the other liveness properties, as `PassesNearTheirEnd` is for
   `PassEnds`: the rounds after which `ThreadSecureMsg` gives up a lock, the steps of one
   clean-up in `InstantX`, the stages of `Net` between two copies.
2. The loops of `AddrMan`: each of `MakeTried`, `SelectTried` and `GetAddr_` has a
   bound on its remaining steps that the steps lower.
3. Abstract specifications where a component still has none: a wallet that hands every key
   to one holder for good (of `WalletKeys`), a bucket as a growing set (of `SecureMsg`).

A run is kept for each distinct question. When a new one needs room, a violation that
repeats a known lesson gives way and moves to the observations above.
