----------------------------- MODULE WalletCoins ----------------------------
(***************************************************************************)
(* The transactions of the wallet and the marks on its coins (vfSpent),    *)
(* from which AvailableCoins decides what may be spent: sending from       *)
(* several threads, staking, the chain and the memory pool that tell the   *)
(* wallet of transactions, the repair of the marks against the transaction *)
(* index, and wallet.dat, from which all of it is loaded again.            *)
(*                                                                         *)
(* A transaction has one output that may be ours, and a coin is named by   *)
(* the transaction it comes from. Choosing coins and committing them are   *)
(* two critical sections of cs_main and cs_wallet. The message thread      *)
(* holds cs_main for the whole of a block: ConnectBlock tells the wallet   *)
(* of its transactions before the chain is committed, and in between only  *)
(* the repair, which takes cs_wallet alone, and the death of the process   *)
(* can come. SetBestChain only extends the best chain, so nothing is ever  *)
(* disconnected.                                                           *)
(*                                                                         *)
(* FetchInputs does not read the transactions that are spent, and          *)
(* ConnectInputs passes over every input of a transaction that is stamped  *)
(* before the local time. So an output that the chain spends is refused to *)
(* nobody, and is marked in the transaction index only now and then.       *)
(***************************************************************************)
EXTENDS Naturals, FiniteSets

CONSTANTS
    Tx,             \* transactions, those that gave the first coins included
    Ins,            \* the coins that each transaction spends
    First,          \* transactions deep in the chain
    Stake,          \* coinstakes
    Own,            \* transactions and coinstakes that this wallet makes
    Ours,           \* transactions with an output that is ours
    Sender,         \* threads that send: RPC calls, the send dialog, Darksend
    NoTx,           \* no transaction
    MaxDeaths       \* bound: times that the process dies

ASSUME WalletCoinsAssumption ==
    /\ First \subseteq Ours
    /\ Stake \subseteq Tx
    /\ Own \subseteq Tx
    /\ Ours \subseteq Tx
    /\ First \cap (Stake \cup Own) = {}
    /\ Ins \in [Tx -> SUBSET Ours]
    /\ NoTx \notin Tx
    /\ MaxDeaths \in Nat

VARIABLES
    chain,          \* transactions in blocks of the best chain, as committed
    vSpent,         \* outputs that the transaction index has as spent
    pool,           \* mempool.mapTx
    mapWallet,      \* transactions in the wallet
    vfSpent,        \* coins whose output is marked spent
    dat,            \* wallet.dat: the same two
    block,          \* the transaction of a block that the wallet knows and that is
                    \* not committed
    built,          \* the transaction a sender has signed and not committed
    commit,         \* CommitTransaction: the transaction, and coins still to mark
    stake,          \* ThreadStakeMiner: coinstake, and the best chain it is built on
    relayed,        \* transactions that CommitTransaction has relayed
    deaths

node == <<chain, vSpent, pool, block>>
wallet == <<mapWallet, vfSpent, dat>>
threads == <<built, commit, stake>>
history == <<relayed, deaths>>
coinVars == <<node, wallet, threads, history>>

---------------------------------------------------------------------------

NoCommit == [tx |-> NoTx, left |-> {}]

NoStake == [tx |-> NoTx, prev |-> {}]

\* CommitTransaction holds both locks, the message thread cs_main for a block.
CsWalletFree == commit = NoCommit

CsMainFree == CsWalletFree /\ block = NoTx

\* AvailableCoins, AvailableCoinsForStaking.
Available == {c \in mapWallet \cap Ours : c \in chain /\ c \notin vfSpent}

\* What AcceptToMemoryPool demands of t, with P in the pool.
Acceptable(t, P) ==
    /\ t \notin P \cup Stake \cup chain
    /\ Ins[t] \subseteq chain
    /\ \A u \in P : Ins[u] \cap Ins[t] = {}

\* Mutant: IsFromMe is not asked.
ToldIfMine(T, W) == {t \in T : t \in W \cup Ours}

\* AddToWalletIfInvolvingMe: in the wallet already, IsMine, or IsFromMe.
Told(T, W) == {t \in T : t \in W \cup Ours \/ Ins[t] \cap W # {}}

\* AddToWallet writes what is new to wallet.dat.
AddToWallet(T) ==
    /\ mapWallet' = mapWallet \cup T
    /\ dat' = [dat EXCEPT !.tx = @ \cup T]

---------------------------------------------------------------------------
(***************************************************************************)
(* Sending.                                                                *)
(***************************************************************************)

\* CreateTransaction chooses among the available coins, and signs.
CreateTransaction(s, t) ==
    /\ CsMainFree
    /\ built[s] = NoTx
    /\ t \in Own \ (Stake \cup mapWallet)
    /\ \A r \in Sender : built[r] # t
    /\ Ins[t] \subseteq Available
    /\ built' = [built EXCEPT ![s] = t]
    /\ UNCHANGED <<node, wallet, commit, stake, history>>

\* The user does not confirm the fee, or the caller gives up.
Abandon(s) ==
    /\ built[s] # NoTx
    /\ built' = [built EXCEPT ![s] = NoTx]
    /\ UNCHANGED <<node, wallet, commit, stake, history>>

\* CommitTransaction takes the locks and adds the transaction to the wallet,
CommitTransaction(s) ==
    /\ CsMainFree
    /\ built[s] # NoTx
    /\ AddToWallet({built[s]})
    /\ commit' = [tx |-> built[s], left |-> Ins[built[s]]]
    /\ built' = [built EXCEPT ![s] = NoTx]
    /\ UNCHANGED <<node, vfSpent, stake, history>>

\* marks its coins one by one, writing the transaction each comes from,
MarkSpent(c) ==
    /\ c \in commit.left
    /\ vfSpent' = vfSpent \cup {c}
    /\ dat' = [dat EXCEPT !.spent = @ \cup {c}]
    /\ commit' = [commit EXCEPT !.left = @ \ {c}]
    /\ UNCHANGED <<node, mapWallet, built, stake, history>>

\* and offers it to the memory pool; what the pool takes is relayed.
Broadcast ==
    /\ commit # NoCommit
    /\ commit.left = {}
    /\ IF Acceptable(commit.tx, pool)
       THEN /\ pool' = pool \cup {commit.tx}
            /\ relayed' = relayed \cup {commit.tx}
       ELSE UNCHANGED <<pool, relayed>>
    /\ commit' = NoCommit
    /\ UNCHANGED <<chain, vSpent, block, wallet, built, stake, deaths>>

\* A transaction from a peer: AcceptToMemoryPool tells the wallet of it. A copy of
\* the wallet may have made it; no coin is marked.
ReceiveTx(t) ==
    /\ CsMainFree
    /\ t \notin Own
    /\ Acceptable(t, pool)
    /\ pool' = pool \cup {t}
    /\ AddToWallet(Told({t}, mapWallet))
    /\ UNCHANGED <<chain, vSpent, block, vfSpent, threads, history>>

---------------------------------------------------------------------------
(***************************************************************************)
(* The chain, staking and repair.                                          *)
(***************************************************************************)

\* A block from a peer, with a transaction whose parents are in the chain and that
\* somebody has relayed or staked: ConnectBlock tells the wallet of it.
ConnectBlock(t) ==
    /\ CsMainFree
    /\ t \in (pool \cup relayed \cup (Tx \ Own)) \ chain
    /\ Ins[t] \subseteq chain
    /\ block' = t
    /\ AddToWallet(Told({t}, mapWallet))
    /\ UNCHANGED <<chain, vSpent, pool, vfSpent, threads, history>>

\* TxnCommit, with the inputs that ConnectInputs did not pass over; the transaction
\* leaves the pool, its rivals there do not.
CommitBlock(marked) ==
    /\ block # NoTx
    /\ marked \subseteq Ins[block]
    /\ chain' = chain \cup {block}
    /\ vSpent' = vSpent \cup marked
    /\ pool' = pool \ {block}
    /\ block' = NoTx
    /\ UNCHANGED <<wallet, threads, history>>

\* The commit fails.
AbortBlock ==
    /\ block # NoTx
    /\ block' = NoTx
    /\ UNCHANGED <<chain, vSpent, pool, wallet, threads, history>>

\* Mutant: the coinstake's coins are marked when it is made, as if it were sent.
CreateCoinStakeMarked(k) ==
    /\ CsMainFree
    /\ stake = NoStake
    /\ k \in (Own \cap Stake) \ mapWallet
    /\ Ins[k] \subseteq Available
    /\ stake' = [tx |-> k, prev |-> chain]
    /\ vfSpent' = vfSpent \cup Ins[k]
    /\ dat' = [dat EXCEPT !.spent = @ \cup Ins[k]]
    /\ UNCHANGED <<node, mapWallet, built, commit, history>>

CreateCoinStake(k) ==
    /\ CsMainFree
    /\ stake = NoStake
    /\ k \in (Own \cap Stake) \ mapWallet
    /\ Ins[k] \subseteq Available
    /\ stake' = [tx |-> k, prev |-> chain]
    /\ UNCHANGED <<node, wallet, built, commit, history>>

\* ProcessBlockStake, under cs_main: the block is stale. What happens to any other
\* block is StakeCrash below.
StakeFails ==
    /\ CsMainFree
    /\ stake # NoStake
    /\ stake.prev # chain
    /\ stake' = NoStake
    /\ UNCHANGED <<node, wallet, built, commit, history>>

\* FixSpentCoins gives each coin that the transaction index knows its mark there.
Indexed == mapWallet \cap Ours \cap chain

FixedSpent == (vfSpent \ Indexed) \cup (Indexed \cap vSpent)

\* repairwallet takes cs_wallet only. The call of FixSpentCoins in ProcessBlockStake
\* is never reached.
FixSpentCoins ==
    /\ CsWalletFree
    /\ vfSpent' = FixedSpent
    /\ dat' = [dat EXCEPT !.spent = FixedSpent]
    /\ UNCHANGED <<node, mapWallet, threads, history>>

---------------------------------------------------------------------------
(***************************************************************************)
(* Death of the process, and the next start.                               *)
(***************************************************************************)

\* Mutant: only transactions whose coins are not marked are offered again.
ReacceptedUnmarked(W) ==
    {P \in SUBSET (W \ chain) :
        /\ \A t \in P : Acceptable(t, P \ {t}) /\ Ins[t] \cap dat.spent = {}
        /\ \A t \in W \ P : ~ Acceptable(t, P) \/ Ins[t] \cap dat.spent # {}}

\* The pools that ReacceptWalletTransactions can come to when it offers every
\* transaction of W to an empty pool: the order is that of the hashes, except that
\* parents in vtxPrev come first.
Reaccepted(W) ==
    {P \in SUBSET (W \ chain) : /\ \A t \in P : Acceptable(t, P \ {t})
                                /\ \A t \in W \ P : ~ Acceptable(t, P)}

\* LoadWallet; ReacceptWalletTransactions marks what the transaction index has as
\* spent, and scans the chain if that was news.
Restart ==
    /\ deaths < MaxDeaths
    /\ LET news == (dat.tx \cap Ours \cap chain \cap vSpent) \ dat.spent
           all == dat.tx \cup IF news = {} THEN {} ELSE Told(chain, dat.tx)
       IN  /\ mapWallet' = all
           /\ vfSpent' = dat.spent \cup news
           /\ dat' = [tx |-> all, spent |-> dat.spent \cup news]
           /\ pool' \in Reaccepted(all)
    /\ block' = NoTx
    /\ built' = [s \in Sender |-> NoTx]
    /\ commit' = NoCommit
    /\ stake' = NoStake
    /\ deaths' = deaths + 1
    /\ UNCHANGED <<chain, vSpent, relayed>>

\* ProcessBlock asks the node that sent the block for more of them, and for a block
\* of one's own that is a null pointer: the process dies before it has the block.
StakeCrash ==
    /\ CsMainFree
    /\ stake # NoStake
    /\ stake.prev = chain
    /\ Restart

---------------------------------------------------------------------------

CoinsInit ==
    /\ chain = First
    /\ vSpent = {}
    /\ pool = {}
    /\ mapWallet = First
    /\ vfSpent = {}
    /\ dat = [tx |-> First, spent |-> {}]
    /\ block = NoTx
    /\ built = [s \in Sender |-> NoTx]
    /\ commit = NoCommit
    /\ stake = NoStake
    /\ relayed = {}
    /\ deaths = 0

CoinsNext ==
    \/ \E s \in Sender :
         \/ \E t \in Tx : CreateTransaction(s, t)
         \/ Abandon(s)
         \/ CommitTransaction(s)
    \/ \E c \in Ours : MarkSpent(c)
    \/ Broadcast
    \/ \E t \in Tx :
         \/ ReceiveTx(t)
         \/ ConnectBlock(t)
         \/ CreateCoinStake(t)
    \/ \E marked \in SUBSET Ours : CommitBlock(marked)
    \/ AbortBlock
    \/ StakeFails
    \/ FixSpentCoins
    \/ Restart
    \/ StakeCrash

CoinsSpec == CoinsInit /\ [][CoinsNext]_coinVars

---------------------------------------------------------------------------
(***************************************************************************)
(* Properties.                                                             *)
(***************************************************************************)

\* Whatever the memory pool or the chain holds that spends a coin of the wallet,
\* and whatever the wallet has relayed, is in wallet.dat: CommitTransaction records
\* before it broadcasts, AcceptToMemoryPool and ConnectBlock tell the wallet, and
\* the chain is committed later. So a start finds every spend of its coins.
SpendsKnown ==
    /\ relayed \subseteq dat.tx
    /\ \A t \in pool \cup chain : Ins[t] \cap dat.tx # {} => t \in dat.tx

\* A coin is withheld (marked spent) only because the chain spends it, or because
\* the wallet has a transaction of its own that spends it: no death in
\* CommitTransaction and no coinstake that came to nothing locks a coin away.
MarksExplained ==
    \A c \in vfSpent \cup dat.spent :
        \/ \E t \in chain : c \in Ins[t]
        \/ \E t \in dat.tx \ Stake : c \in Ins[t]

\* A transaction that the wallet has relayed is never forgotten, whatever dies in
\* between: it is in the pool or in the chain, unless a rival for one of its coins
\* is (CommitTransaction, ReacceptWalletTransactions, CTxMemPool::remove).
RelayedSurvive ==
    \A t \in relayed :
        \/ t \in pool \cup chain
        \/ \E u \in pool \cup chain : Ins[u] \cap Ins[t] # {}
=============================================================================
