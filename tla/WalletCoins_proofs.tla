------------------------- MODULE WalletCoins_proofs -------------------------
(***************************************************************************)
(* The wallet knows what spends its coins, withholds no coin without a     *)
(* reason and forgets nothing that it has relayed, for every set of        *)
(* transactions, any number of senders and of deaths of the process.       *)
(***************************************************************************)
EXTENDS WalletCoins, TLAPS

\* Type correctness.
CoinsTypeOK ==
    /\ chain \subseteq Tx /\ vSpent \subseteq Ours /\ pool \subseteq Tx
    /\ mapWallet \subseteq Tx /\ vfSpent \subseteq Ours
    /\ dat \in [tx : SUBSET Tx, spent : SUBSET Ours]
    /\ block \in Tx \cup {NoTx}
    /\ built \in [Sender -> Tx \cup {NoTx}]
    /\ commit \in [tx : Tx \cup {NoTx}, left : SUBSET Ours]
    /\ stake \in [tx : Tx \cup {NoTx}, prev : SUBSET Tx]
    /\ relayed \subseteq Tx
    /\ deaths \in Nat

\* Every critical section leaves in wallet.dat what it leaves in memory.
WrittenThrough == mapWallet = dat.tx /\ vfSpent = dat.spent

\* What the chain, the pool or the network has been given only spends outputs of
\* the chain, the first coins aside; the index marks what the chain spends.
ParentsInChain ==
    /\ First \subseteq chain \cap dat.tx
    /\ \A t \in (chain \ First) \cup pool \cup relayed : Ins[t] \subseteq chain
    /\ vSpent \subseteq UNION {Ins[t] : t \in chain}

\* The wallet has been told of what is its own or pays it.
OwnKnown ==
    /\ chain \cap (Ours \cup Own) \subseteq dat.tx
    /\ pool \cap Own \subseteq dat.tx
    /\ relayed \subseteq dat.tx \ Stake

\* A block that is not committed: nothing is added to the wallet in between.
BlockTold ==
    block # NoTx =>
        /\ Ins[block] \subseteq chain
        /\ block \in Ours \cup Own \/ Ins[block] \cap dat.tx # {} => block \in dat.tx

\* What is built is new to everybody and no two senders build the same; what is
\* being committed is in wallet.dat.
SendersOK ==
    /\ \A s \in Sender : built[s] # NoTx => built[s] \in Own \ (Stake \cup dat.tx)
    /\ \A r, s \in Sender : built[r] = built[s] /\ built[r] # NoTx => r = s
    /\ \/ commit = NoCommit
       \/ commit.tx \in (dat.tx \cap Own) \ Stake /\ commit.left \subseteq Ins[commit.tx]

\* The inductive invariant. That a transaction new to the wallet is spent by
\* nobody yet, so that SpendsKnown holds when it comes, follows from ParentsInChain
\* and OwnKnown: what spends it would have it in the chain.
CoinsInv ==
    /\ CoinsTypeOK /\ WrittenThrough /\ ParentsInChain /\ OwnKnown /\ BlockTold /\ SendersOK
    /\ SpendsKnown /\ MarksExplained /\ RelayedSurvive

---------------------------------------------------------------------------
(* What the steps have in common. *)

\* Every transaction spends coins of the wallet's.
LEMMA InsOurs == \A t \in Tx : Ins[t] \subseteq Ours /\ Ours \subseteq Tx /\ First \subseteq Ours
  BY WalletCoinsAssumption

\* Marks stay explained while chain and wallet only grow and no mark is added.
LEMMA MarksStay ==
    ASSUME MarksExplained, chain \subseteq chain', dat.tx \subseteq dat'.tx,
           vfSpent' \cup dat'.spent \subseteq vfSpent \cup dat.spent
    PROVE  MarksExplained'
  BY DEF MarksExplained

\* What was relayed survives while pool and chain together only grow.
LEMMA RelayedStay ==
    ASSUME RelayedSurvive, pool \cup chain \subseteq pool' \cup chain', UNCHANGED relayed
    PROVE  RelayedSurvive'
  BY DEF RelayedSurvive

\* Nobody but the wallet spends a transaction that is not in the chain.
LEMMA NotSpentYet ==
    ASSUME CoinsInv, NEW t \in Tx \ chain
    PROVE  \A v \in pool \cup chain : t \in Ins[v] => v \in dat.tx
<1>1. \A v \in pool \cup chain : v \in First \/ Ins[v] \subseteq chain
  BY DEF CoinsInv, ParentsInChain
<1>2. First \subseteq dat.tx
  BY DEF CoinsInv, ParentsInChain
<1> QED
  BY <1>1, <1>2

\* AddToWallet of a transaction that is not in the chain and spends outputs of it,
\* because it is asked for or because it concerns the wallet.
LEMMA AddToWalletKeeps ==
    ASSUME CoinsInv, NEW t \in Tx \ chain, Ins[t] \subseteq chain,
           NEW T \in SUBSET {t}, AddToWallet(T), Told({t}, mapWallet) \subseteq T
    PROVE  /\ mapWallet' = dat'.tx /\ dat'.spent = dat.spent
           /\ dat' \in [tx : SUBSET Tx, spent : SUBSET Ours]
           /\ dat.tx \subseteq dat'.tx /\ dat'.tx \subseteq dat.tx \cup {t}
           /\ \A v \in pool \cup chain \cup {t} : Ins[v] \cap dat'.tx # {} => v \in dat'.tx
           /\ t \in Ours => t \in dat'.tx
<1>1. mapWallet' = mapWallet \cup T /\ dat' = [dat EXCEPT !.tx = dat.tx \cup T]
  BY DEF AddToWallet
<1>2. /\ mapWallet = dat.tx /\ dat \in [tx : SUBSET Tx, spent : SUBSET Ours]
  BY DEF CoinsInv, CoinsTypeOK, WrittenThrough
<1>3. dat'.tx = dat.tx \cup T /\ dat'.spent = dat.spent
  BY <1>1, <1>2
<1>4. dat' \in [tx : SUBSET Tx, spent : SUBSET Ours]
  BY <1>1, <1>2
<1>5. t \in Ours \/ Ins[t] \cap dat.tx # {} => t \in dat'.tx
  BY <1>2, <1>3 DEF Told
<1>6. \A v \in pool \cup chain : Ins[v] \cap dat.tx # {} => v \in dat.tx
  BY DEF CoinsInv, SpendsKnown
<1>7. \A v \in pool \cup chain : Ins[v] \cap dat'.tx # {} => v \in dat'.tx
  BY <1>3, <1>6, NotSpentYet
<1>8. Ins[t] \cap dat'.tx # {} => t \in dat'.tx
  BY <1>3, <1>5
<1> QED
  BY <1>1, <1>2, <1>3, <1>4, <1>5, <1>7, <1>8

---------------------------------------------------------------------------
(* Sending. *)

\* A step of a sender or of the staker that changes only what it has in hand.
LEMMA HandsInv ==
    ASSUME CoinsInv, UNCHANGED <<node, wallet, commit, history>>,
           built' \in [Sender -> Tx \cup {NoTx}],
           stake' \in [tx : Tx \cup {NoTx}, prev : SUBSET Tx],
           \A s \in Sender : built'[s] # NoTx => built'[s] \in Own \ (Stake \cup dat.tx),
           \A r, s \in Sender : built'[r] = built'[s] /\ built'[r] # NoTx => r = s
    PROVE  CoinsInv'
<1> USE DEF CoinsInv, node, wallet, history
<1>1. CoinsTypeOK'
  BY DEF CoinsTypeOK
<1>2. WrittenThrough' /\ ParentsInChain' /\ OwnKnown'
  BY DEF WrittenThrough, ParentsInChain, OwnKnown
<1>3. BlockTold' /\ SendersOK'
  BY DEF BlockTold, SendersOK
<1>4. SpendsKnown' /\ MarksExplained' /\ RelayedSurvive'
  BY DEF SpendsKnown, MarksExplained, RelayedSurvive
<1> QED
  BY <1>1, <1>2, <1>3, <1>4

LEMMA CreateTransactionInv ==
    ASSUME CoinsInv, NEW s \in Sender, NEW t \in Tx, CreateTransaction(s, t)
    PROVE  CoinsInv'
<1>1. /\ t \in Own \ (Stake \cup mapWallet) /\ \A r \in Sender : built[r] # t
      /\ built' = [built EXCEPT ![s] = t] /\ UNCHANGED <<node, wallet, commit, stake, history>>
  BY DEF CreateTransaction
<1>2. t \in Own \ (Stake \cup dat.tx) /\ built \in [Sender -> Tx \cup {NoTx}]
  BY <1>1 DEF CoinsInv, CoinsTypeOK, WrittenThrough
<1>3. \A r \in Sender : built'[r] = IF r = s THEN t ELSE built[r]
  BY <1>1, <1>2
<1>4. built' \in [Sender -> Tx \cup {NoTx}]
  BY <1>1, <1>2
<1>5. \A r \in Sender : built'[r] # NoTx => built'[r] \in Own \ (Stake \cup dat.tx)
  BY <1>2, <1>3 DEF CoinsInv, SendersOK
<1>6. \A q, r \in Sender : built'[q] = built'[r] /\ built'[q] # NoTx => q = r
  BY <1>1, <1>3 DEF CoinsInv, SendersOK
<1>7. stake' \in [tx : Tx \cup {NoTx}, prev : SUBSET Tx]
  BY <1>1 DEF CoinsInv, CoinsTypeOK
<1> QED
  BY <1>1, <1>4, <1>5, <1>6, <1>7, HandsInv

LEMMA AbandonInv ==
    ASSUME CoinsInv, NEW s \in Sender, Abandon(s)
    PROVE  CoinsInv'
<1>1. built' = [built EXCEPT ![s] = NoTx] /\ UNCHANGED <<node, wallet, commit, stake, history>>
  BY DEF Abandon
<1>2. built \in [Sender -> Tx \cup {NoTx}] /\ stake' \in [tx : Tx \cup {NoTx}, prev : SUBSET Tx]
  BY <1>1 DEF CoinsInv, CoinsTypeOK
<1>3. \A r \in Sender : built'[r] = IF r = s THEN NoTx ELSE built[r]
  BY <1>1, <1>2
<1>4. built' \in [Sender -> Tx \cup {NoTx}]
  BY <1>1, <1>2
<1>5. /\ \A r \in Sender : built'[r] # NoTx => built'[r] \in Own \ (Stake \cup dat.tx)
      /\ \A q, r \in Sender : built'[q] = built'[r] /\ built'[q] # NoTx => q = r
  BY <1>3 DEF CoinsInv, SendersOK
<1> QED
  BY <1>1, <1>2, <1>4, <1>5, HandsInv

\* What a sender has built is in no block and in no pool yet.
LEMMA CommitTransactionInv ==
    ASSUME CoinsInv, NEW s \in Sender, CommitTransaction(s)
    PROVE  CoinsInv'
<1> DEFINE t == built[s]
<1>1. /\ t # NoTx /\ block = NoTx /\ AddToWallet({t})
      /\ commit' = [tx |-> t, left |-> Ins[t]] /\ built' = [built EXCEPT ![s] = NoTx]
      /\ UNCHANGED <<node, vfSpent, stake, history>>
  BY DEF CommitTransaction, CsMainFree
<1>2. t \in Own \ (Stake \cup dat.tx) /\ t \in Tx
  BY <1>1, WalletCoinsAssumption DEF CoinsInv, SendersOK
<1>3. t \notin chain
  BY <1>2 DEF CoinsInv, OwnKnown
<1> HIDE DEF t
<1>4. /\ mapWallet' = mapWallet \cup {t} /\ dat' = [dat EXCEPT !.tx = dat.tx \cup {t}]
  BY <1>1 DEF AddToWallet
<1>5. /\ dat'.tx = dat.tx \cup {t} /\ dat'.spent = dat.spent
      /\ dat' \in [tx : SUBSET Tx, spent : SUBSET Ours]
  BY <1>2, <1>4 DEF CoinsInv, CoinsTypeOK
<1>6. built' \in [Sender -> Tx \cup {NoTx}]
      /\ \A r \in Sender : built'[r] = IF r = s THEN NoTx ELSE built[r]
  BY <1>1 DEF CoinsInv, CoinsTypeOK
<1>7. CoinsTypeOK'
  BY <1>1, <1>2, <1>4, <1>5, <1>6, InsOurs DEF CoinsInv, CoinsTypeOK, node, history
<1>8. WrittenThrough' /\ ParentsInChain' /\ OwnKnown' /\ BlockTold'
  BY <1>1, <1>2, <1>4, <1>5 DEF CoinsInv, WrittenThrough, ParentsInChain, OwnKnown, BlockTold,
                                node, history
<1>9. SendersOK'
  <2>1. \A r \in Sender \ {s} : built[r] # t
    BY <1>1 DEF CoinsInv, SendersOK, t
  <2>2. \A r \in Sender : built'[r] # NoTx => built'[r] \in Own \ (Stake \cup dat'.tx)
    BY <1>5, <1>6, <2>1 DEF CoinsInv, SendersOK
  <2>3. \A q, r \in Sender : built'[q] = built'[r] /\ built'[q] # NoTx => q = r
    BY <1>6 DEF CoinsInv, SendersOK
  <2>4. commit'.tx \in (dat'.tx \cap Own) \ Stake /\ commit'.left \subseteq Ins[commit'.tx]
    BY <1>1, <1>2, <1>5
  <2> QED
    BY <2>2, <2>3, <2>4 DEF SendersOK
<1>10. SpendsKnown'
  <2>1. \A v \in pool \cup chain : Ins[v] \cap dat'.tx # {} => v \in dat'.tx
    BY <1>2, <1>3, <1>5, NotSpentYet DEF CoinsInv, SpendsKnown
  <2> QED
    BY <1>1, <1>5, <2>1 DEF CoinsInv, SpendsKnown, node, history
<1>11. MarksExplained' /\ RelayedSurvive'
  BY <1>1, <1>5, MarksStay, RelayedStay DEF CoinsInv, node, history
<1> QED
  BY <1>7, <1>8, <1>9, <1>10, <1>11 DEF CoinsInv

LEMMA MarkSpentInv ==
    ASSUME CoinsInv, NEW c \in Ours, MarkSpent(c)
    PROVE  CoinsInv'
<1>1. /\ c \in commit.left /\ vfSpent' = vfSpent \cup {c}
      /\ dat' = [dat EXCEPT !.spent = dat.spent \cup {c}]
      /\ commit' = [commit EXCEPT !.left = commit.left \ {c}]
      /\ UNCHANGED <<node, mapWallet, built, stake, history>>
  BY DEF MarkSpent
<1>2. commit.tx \in (dat.tx \cap Own) \ Stake /\ commit.left \subseteq Ins[commit.tx]
  BY <1>1 DEF CoinsInv, SendersOK, NoCommit
<1>3. /\ dat'.tx = dat.tx /\ dat'.spent = dat.spent \cup {c}
      /\ dat' \in [tx : SUBSET Tx, spent : SUBSET Ours]
  BY <1>1 DEF CoinsInv, CoinsTypeOK
<1>4. /\ commit' \in [tx : Tx \cup {NoTx}, left : SUBSET Ours]
      /\ commit'.tx = commit.tx /\ commit'.left = commit.left \ {c}
  BY <1>1 DEF CoinsInv, CoinsTypeOK
<1>5. CoinsTypeOK'
  BY <1>1, <1>3, <1>4 DEF CoinsInv, CoinsTypeOK, node, history
<1>6. WrittenThrough' /\ ParentsInChain' /\ OwnKnown' /\ BlockTold'
  BY <1>1, <1>3 DEF CoinsInv, WrittenThrough, ParentsInChain, OwnKnown, BlockTold, node, history
<1>7. SendersOK'
  BY <1>1, <1>2, <1>3, <1>4 DEF CoinsInv, SendersOK
<1>8. SpendsKnown' /\ RelayedSurvive'
  BY <1>1, <1>3 DEF CoinsInv, SpendsKnown, RelayedSurvive, node, history
<1>9. MarksExplained'
  BY <1>1, <1>2, <1>3 DEF CoinsInv, MarksExplained, node
<1> QED
  BY <1>5, <1>6, <1>7, <1>8, <1>9 DEF CoinsInv

LEMMA BroadcastInv == CoinsInv /\ Broadcast => CoinsInv'
<1> SUFFICES ASSUME CoinsInv, Broadcast PROVE CoinsInv'
  OBVIOUS
<1> DEFINE t == commit.tx
<1>1. /\ commit # NoCommit /\ commit' = NoCommit
      /\ \/ Acceptable(t, pool) /\ pool' = pool \cup {t} /\ relayed' = relayed \cup {t}
         \/ UNCHANGED <<pool, relayed>>
      /\ UNCHANGED <<chain, vSpent, block, wallet, built, stake, deaths>>
  BY DEF Broadcast
<1>2. t \in (dat.tx \cap Own) \ Stake /\ t \in Tx
  BY <1>1, WalletCoinsAssumption DEF CoinsInv, SendersOK
<1>3. \/ Ins[t] \subseteq chain /\ pool' = pool \cup {t} /\ relayed' = relayed \cup {t}
      \/ UNCHANGED <<pool, relayed>>
  BY <1>1 DEF Acceptable
<1> HIDE DEF t
<1>4. CoinsTypeOK'
  BY <1>1, <1>2, <1>3 DEF CoinsInv, CoinsTypeOK, wallet, NoCommit
<1>5. WrittenThrough' /\ ParentsInChain' /\ OwnKnown' /\ BlockTold'
  BY <1>1, <1>2, <1>3 DEF CoinsInv, WrittenThrough, ParentsInChain, OwnKnown, BlockTold, wallet
<1>6. SendersOK'
  BY <1>1 DEF CoinsInv, SendersOK, wallet
<1>7. SpendsKnown' /\ MarksExplained'
  BY <1>1, <1>2, <1>3 DEF CoinsInv, SpendsKnown, MarksExplained, wallet
<1>8. RelayedSurvive'
  BY <1>1, <1>3 DEF CoinsInv, RelayedSurvive
<1> QED
  BY <1>4, <1>5, <1>6, <1>7, <1>8 DEF CoinsInv

---------------------------------------------------------------------------
(* The pool, the chain, staking and repair. *)

LEMMA ReceiveTxInv ==
    ASSUME CoinsInv, NEW t \in Tx, ReceiveTx(t)
    PROVE  CoinsInv'
<1>1. /\ block = NoTx /\ t \notin Own /\ Acceptable(t, pool)
      /\ pool' = pool \cup {t} /\ AddToWallet(Told({t}, mapWallet))
      /\ UNCHANGED <<chain, vSpent, block, vfSpent, threads, history>>
  BY DEF ReceiveTx, CsMainFree
<1>2. t \in Tx \ chain /\ Ins[t] \subseteq chain
  BY <1>1 DEF Acceptable
<1>3. Told({t}, mapWallet) \in SUBSET {t}
  BY DEF Told
<1>4. /\ mapWallet' = dat'.tx /\ dat'.spent = dat.spent
      /\ dat' \in [tx : SUBSET Tx, spent : SUBSET Ours]
      /\ dat.tx \subseteq dat'.tx /\ dat'.tx \subseteq dat.tx \cup {t}
      /\ \A v \in pool \cup chain \cup {t} : Ins[v] \cap dat'.tx # {} => v \in dat'.tx
  BY <1>1, <1>2, <1>3, AddToWalletKeeps
<1>5. CoinsTypeOK'
  BY <1>1, <1>4 DEF CoinsInv, CoinsTypeOK, threads, history
<1>6. WrittenThrough' /\ ParentsInChain' /\ OwnKnown' /\ BlockTold'
  BY <1>1, <1>2, <1>4 DEF CoinsInv, WrittenThrough, ParentsInChain, OwnKnown, BlockTold, history
<1>7. SendersOK'
  BY <1>1, <1>4 DEF CoinsInv, SendersOK, threads
<1>8. SpendsKnown'
  BY <1>1, <1>4 DEF CoinsInv, SpendsKnown, history
<1>9. MarksExplained' /\ RelayedSurvive'
  BY <1>1, <1>4, MarksStay, RelayedStay DEF CoinsInv, history
<1> QED
  BY <1>5, <1>6, <1>7, <1>8, <1>9 DEF CoinsInv

LEMMA ConnectBlockInv ==
    ASSUME CoinsInv, NEW t \in Tx, ConnectBlock(t)
    PROVE  CoinsInv'
<1>1. /\ t \in (pool \cup relayed \cup (Tx \ Own)) \ chain /\ Ins[t] \subseteq chain
      /\ block' = t /\ AddToWallet(Told({t}, mapWallet))
      /\ UNCHANGED <<chain, vSpent, pool, vfSpent, threads, history>>
  BY DEF ConnectBlock
<1>2. t \in Tx \ chain
  BY <1>1
<1>3. Told({t}, mapWallet) \in SUBSET {t}
  BY DEF Told
<1>4. /\ mapWallet' = dat'.tx /\ dat'.spent = dat.spent
      /\ dat' \in [tx : SUBSET Tx, spent : SUBSET Ours]
      /\ dat.tx \subseteq dat'.tx /\ dat'.tx \subseteq dat.tx \cup {t}
      /\ \A v \in pool \cup chain \cup {t} : Ins[v] \cap dat'.tx # {} => v \in dat'.tx
      /\ t \in Ours => t \in dat'.tx
  BY <1>1, <1>2, <1>3, AddToWalletKeeps
<1>5. t \in Own => t \in dat.tx
  BY <1>1 DEF CoinsInv, OwnKnown
<1>6. CoinsTypeOK'
  BY <1>1, <1>4 DEF CoinsInv, CoinsTypeOK, threads, history
<1>7. WrittenThrough' /\ ParentsInChain' /\ OwnKnown' /\ BlockTold'
  BY <1>1, <1>4, <1>5 DEF CoinsInv, WrittenThrough, ParentsInChain, OwnKnown, BlockTold, history
<1>8. SendersOK'
  BY <1>1, <1>4, <1>5 DEF CoinsInv, SendersOK, threads
<1>9. SpendsKnown'
  BY <1>1, <1>4 DEF CoinsInv, SpendsKnown, history
<1>10. MarksExplained' /\ RelayedSurvive'
  BY <1>1, <1>4, MarksStay, RelayedStay DEF CoinsInv, history
<1> QED
  BY <1>6, <1>7, <1>8, <1>9, <1>10 DEF CoinsInv

\* The wallet was told of the block before, and nothing came to it since.
LEMMA CommitBlockInv ==
    ASSUME CoinsInv, NEW marked \in SUBSET Ours, CommitBlock(marked)
    PROVE  CoinsInv'
<1>1. /\ block # NoTx /\ marked \subseteq Ins[block]
      /\ chain' = chain \cup {block} /\ vSpent' = vSpent \cup marked
      /\ pool' = pool \ {block} /\ block' = NoTx
      /\ UNCHANGED <<wallet, threads, history>>
  BY DEF CommitBlock
<1>2. /\ Ins[block] \subseteq chain /\ block \in Tx
      /\ block \in Ours \cup Own \/ Ins[block] \cap dat.tx # {} => block \in dat.tx
  BY <1>1 DEF CoinsInv, CoinsTypeOK, BlockTold
<1>3. CoinsTypeOK'
  BY <1>1, <1>2 DEF CoinsInv, CoinsTypeOK, wallet, threads, history
<1>4. WrittenThrough' /\ OwnKnown' /\ BlockTold' /\ SendersOK'
  BY <1>1, <1>2 DEF CoinsInv, WrittenThrough, OwnKnown, BlockTold, SendersOK, wallet, threads,
                    history
<1>5. ParentsInChain'
  <2>1. First \subseteq chain' \cap dat'.tx
    BY <1>1 DEF CoinsInv, ParentsInChain, wallet
  <2>2. \A t \in (chain' \ First) \cup pool' \cup relayed' : Ins[t] \subseteq chain'
    BY <1>1, <1>2 DEF CoinsInv, ParentsInChain, history
  <2>3. vSpent' \subseteq UNION {Ins[t] : t \in chain'}
    BY <1>1 DEF CoinsInv, ParentsInChain
  <2> QED
    BY <2>1, <2>2, <2>3 DEF ParentsInChain
<1>6. SpendsKnown'
  BY <1>1, <1>2 DEF CoinsInv, SpendsKnown, wallet, history
<1>7. MarksExplained' /\ RelayedSurvive'
  BY <1>1, MarksStay, RelayedStay DEF CoinsInv, wallet, history
<1> QED
  BY <1>3, <1>4, <1>5, <1>6, <1>7 DEF CoinsInv

LEMMA AbortBlockInv == CoinsInv /\ AbortBlock => CoinsInv'
<1> SUFFICES ASSUME CoinsInv, AbortBlock PROVE CoinsInv'
  OBVIOUS
<1>1. block' = NoTx /\ UNCHANGED <<chain, vSpent, pool, wallet, threads, history>>
  BY DEF AbortBlock
<1> USE DEF CoinsInv, wallet, threads, history
<1>2. CoinsTypeOK' /\ WrittenThrough' /\ ParentsInChain' /\ OwnKnown'
  BY <1>1 DEF CoinsTypeOK, WrittenThrough, ParentsInChain, OwnKnown
<1>3. BlockTold' /\ SendersOK' /\ SpendsKnown' /\ MarksExplained' /\ RelayedSurvive'
  BY <1>1 DEF BlockTold, SendersOK, SpendsKnown, MarksExplained, RelayedSurvive
<1> QED
  BY <1>2, <1>3

LEMMA CreateCoinStakeInv ==
    ASSUME CoinsInv, NEW k \in Tx, CreateCoinStake(k)
    PROVE  CoinsInv'
<1>1. stake' = [tx |-> k, prev |-> chain] /\ UNCHANGED <<node, wallet, built, commit, history>>
  BY DEF CreateCoinStake
<1>2. stake' \in [tx : Tx \cup {NoTx}, prev : SUBSET Tx] /\ built' \in [Sender -> Tx \cup {NoTx}]
  BY <1>1 DEF CoinsInv, CoinsTypeOK
<1>3. /\ \A s \in Sender : built'[s] # NoTx => built'[s] \in Own \ (Stake \cup dat.tx)
      /\ \A r, s \in Sender : built'[r] = built'[s] /\ built'[r] # NoTx => r = s
  BY <1>1 DEF CoinsInv, SendersOK
<1> QED
  BY <1>1, <1>2, <1>3, HandsInv

LEMMA StakeFailsInv == CoinsInv /\ StakeFails => CoinsInv'
<1> SUFFICES ASSUME CoinsInv, StakeFails PROVE CoinsInv'
  OBVIOUS
<1>1. stake' = NoStake /\ UNCHANGED <<node, wallet, built, commit, history>>
  BY DEF StakeFails
<1>2. stake' \in [tx : Tx \cup {NoTx}, prev : SUBSET Tx] /\ built' \in [Sender -> Tx \cup {NoTx}]
  BY <1>1 DEF CoinsInv, CoinsTypeOK, NoStake
<1>3. /\ \A s \in Sender : built'[s] # NoTx => built'[s] \in Own \ (Stake \cup dat.tx)
      /\ \A r, s \in Sender : built'[r] = built'[s] /\ built'[r] # NoTx => r = s
  BY <1>1 DEF CoinsInv, SendersOK
<1> QED
  BY <1>1, <1>2, <1>3, HandsInv

\* What FixSpentCoins marks the chain spends.
LEMMA FixSpentCoinsInv == CoinsInv /\ FixSpentCoins => CoinsInv'
<1> SUFFICES ASSUME CoinsInv, FixSpentCoins PROVE CoinsInv'
  OBVIOUS
<1>1. /\ vfSpent' = FixedSpent /\ dat' = [dat EXCEPT !.spent = FixedSpent]
      /\ UNCHANGED <<node, mapWallet, threads, history>>
  BY DEF FixSpentCoins
<1>2. FixedSpent \subseteq vfSpent \cup vSpent /\ FixedSpent \subseteq Ours
  BY DEF FixedSpent, Indexed, CoinsInv, CoinsTypeOK
<1>3. /\ dat'.tx = dat.tx /\ dat'.spent = FixedSpent
      /\ dat' \in [tx : SUBSET Tx, spent : SUBSET Ours]
  BY <1>1, <1>2 DEF CoinsInv, CoinsTypeOK
<1>4. CoinsTypeOK'
  BY <1>1, <1>2, <1>3 DEF CoinsInv, CoinsTypeOK, node, threads, history
<1>5. WrittenThrough' /\ ParentsInChain' /\ OwnKnown' /\ BlockTold'
  BY <1>1, <1>3 DEF CoinsInv, WrittenThrough, ParentsInChain, OwnKnown, BlockTold, node, history
<1>6. SendersOK' /\ SpendsKnown' /\ RelayedSurvive'
  BY <1>1, <1>3 DEF CoinsInv, SendersOK, SpendsKnown, RelayedSurvive, node, threads, history
<1>7. MarksExplained'
  <2>1. \A c \in vSpent : \E t \in chain : c \in Ins[t]
    BY DEF CoinsInv, ParentsInChain
  <2> QED
    BY <1>1, <1>2, <1>3, <2>1 DEF CoinsInv, MarksExplained, node
<1> QED
  BY <1>4, <1>5, <1>6, <1>7 DEF CoinsInv

---------------------------------------------------------------------------
(* Death and start. *)

\* A scan of the chain at a start finds nothing that wallet.dat does not have.
LEMMA NothingMissed == CoinsInv => Told(chain, dat.tx) \subseteq dat.tx
  BY DEF CoinsInv, Told, OwnKnown, SpendsKnown

\* Of the transactions that the wallet has relayed, ReacceptWalletTransactions
\* brings back each that has no rival in chain or pool.
LEMMA RestartInv == CoinsInv /\ Restart => CoinsInv'
<1> SUFFICES ASSUME CoinsInv, Restart PROVE CoinsInv'
  OBVIOUS
<1> DEFINE news == (dat.tx \cap Ours \cap chain \cap vSpent) \ dat.spent
           all == dat.tx \cup IF news = {} THEN {} ELSE Told(chain, dat.tx)
<1>1. all = dat.tx
  BY NothingMissed
<1> HIDE DEF all
<1>2. /\ mapWallet' = all /\ vfSpent' = dat.spent \cup news
      /\ dat' = [tx |-> all, spent |-> dat.spent \cup news]
      /\ pool' \in Reaccepted(all)
      /\ block' = NoTx /\ built' = [s \in Sender |-> NoTx] /\ commit' = NoCommit
      /\ stake' = NoStake /\ deaths' = deaths + 1 /\ UNCHANGED <<chain, vSpent, relayed>>
  BY DEF Restart, all
<1>3. /\ pool' \subseteq dat.tx /\ \A t \in pool' : Ins[t] \subseteq chain
      /\ \A t \in dat.tx \ pool' : ~Acceptable(t, pool')
  BY <1>1, <1>2 DEF Reaccepted, Acceptable
<1>4. news \subseteq vSpent /\ news \subseteq Ours
  OBVIOUS
<1> HIDE DEF news
<1>5. CoinsTypeOK'
  BY <1>1, <1>2, <1>3, <1>4 DEF CoinsInv, CoinsTypeOK, NoCommit, NoStake
<1>6. WrittenThrough' /\ ParentsInChain' /\ OwnKnown' /\ BlockTold'
  BY <1>1, <1>2, <1>3 DEF CoinsInv, WrittenThrough, ParentsInChain, OwnKnown, BlockTold
<1>7. SendersOK'
  BY <1>2 DEF SendersOK
<1>8. SpendsKnown'
  BY <1>1, <1>2, <1>3 DEF CoinsInv, SpendsKnown
<1>9. MarksExplained'
  <2>1. \A c \in vSpent : \E t \in chain : c \in Ins[t]
    BY DEF CoinsInv, ParentsInChain
  <2> QED
    BY <1>1, <1>2, <1>4, <2>1 DEF CoinsInv, MarksExplained
<1>10. RelayedSurvive'
  <2> SUFFICES ASSUME NEW t \in relayed, t \notin pool' \cup chain
               PROVE  \E u \in pool' : Ins[u] \cap Ins[t] # {}
    BY <1>2 DEF RelayedSurvive
  <2>1. t \in dat.tx /\ t \notin Stake /\ Ins[t] \subseteq chain
    BY DEF CoinsInv, OwnKnown, ParentsInChain
  <2>2. ~Acceptable(t, pool')
    BY <1>3, <2>1
  <2> QED
    BY <2>1, <2>2 DEF Acceptable
<1> QED
  BY <1>5, <1>6, <1>7, <1>8, <1>9, <1>10 DEF CoinsInv

LEMMA CoinsNextInv == CoinsInv /\ [CoinsNext]_coinVars => CoinsInv'
<1> SUFFICES ASSUME CoinsInv, [CoinsNext]_coinVars PROVE CoinsInv'
  OBVIOUS
<1>1. CASE UNCHANGED coinVars
  <2>1. /\ UNCHANGED <<node, wallet, commit, history>>
        /\ built' \in [Sender -> Tx \cup {NoTx}]
        /\ stake' \in [tx : Tx \cup {NoTx}, prev : SUBSET Tx]
    BY <1>1 DEF coinVars, threads, CoinsInv, CoinsTypeOK
  <2>2. /\ \A s \in Sender : built'[s] # NoTx => built'[s] \in Own \ (Stake \cup dat.tx)
        /\ \A r, s \in Sender : built'[r] = built'[s] /\ built'[r] # NoTx => r = s
    BY <1>1 DEF coinVars, threads, CoinsInv, SendersOK
  <2> QED
    BY <2>1, <2>2, HandsInv
<1>2. CASE CoinsNext
  <2>1. StakeCrash => Restart
    BY DEF StakeCrash
  <2> QED
    BY <1>2, <2>1, CreateTransactionInv, AbandonInv, CommitTransactionInv, MarkSpentInv,
       BroadcastInv, ReceiveTxInv, ConnectBlockInv, CreateCoinStakeInv, CommitBlockInv,
       AbortBlockInv, StakeFailsInv, FixSpentCoinsInv, RestartInv DEF CoinsNext
<1> QED
  BY <1>1, <1>2

\* The invariant holds wherever the process dies and however sending, staking,
\* blocks and the repair interleave.
THEOREM CoinsInvariance == CoinsSpec => []CoinsInv
<1>1. CoinsInit => CoinsInv
  <2> SUFFICES ASSUME CoinsInit PROVE CoinsInv
    OBVIOUS
  <2>1. CoinsTypeOK /\ WrittenThrough
    BY InsOurs, WalletCoinsAssumption
       DEF CoinsInit, CoinsTypeOK, WrittenThrough, NoCommit, NoStake
  <2>2. ParentsInChain /\ OwnKnown /\ BlockTold /\ SendersOK
    BY WalletCoinsAssumption DEF CoinsInit, ParentsInChain, OwnKnown, BlockTold, SendersOK
  <2>3. SpendsKnown /\ MarksExplained /\ RelayedSurvive
    BY DEF CoinsInit, SpendsKnown, MarksExplained, RelayedSurvive
  <2> QED
    BY <2>1, <2>2, <2>3 DEF CoinsInv
<1> QED
  BY <1>1, CoinsNextInv, PTL DEF CoinsSpec

\* wallet.dat has every transaction of chain, pool and network that spends a coin
\* of the wallet, so a start finds them all.
THEOREM SpendsAlwaysKnown == CoinsSpec => []SpendsKnown
  BY CoinsInvariance, PTL DEF CoinsInv

\* No coin is withheld without a transaction that spends it, in the chain or among
\* the wallet's own, whatever dies in CommitTransaction or is staked in vain.
THEOREM MarksAlwaysExplained == CoinsSpec => []MarksExplained
  BY CoinsInvariance, PTL DEF CoinsInv

\* What the wallet has relayed is never forgotten unless a rival has its coins.
THEOREM RelayedAlwaysSurvive == CoinsSpec => []RelayedSurvive
  BY CoinsInvariance, PTL DEF CoinsInv
=============================================================================
