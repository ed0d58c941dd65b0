----------------------------- MODULE MCMempool -----------------------------
(***************************************************************************)
(* Six transactions for TLC: t1 and t2 compete for an output of c, t3 and  *)
(* t4 need t1 (t4 also t2), t5 is too large to be kept as an orphan. t2    *)
(* pays too little to be relayed.                                          *)
(***************************************************************************)
EXTENDS Mempool

CONSTANTS c, t1, t2, t3, t4, t5

MCTx == {c, t1, t2, t3, t4, t5}

MCSpends == [t \in MCTx |-> CASE t = c  -> {}
                              [] t = t1 -> {<<c, 0>>}
                              [] t = t2 -> {<<c, 0>>, <<c, 1>>}
                              [] t = t3 -> {<<t1, 0>>}
                              [] t = t4 -> {<<t1, 0>>, <<t2, 0>>}
                              [] t = t5 -> {<<t2, 0>>}]

MCRecorded == {c}

MCFeeOk == MCTx \ {t2}

MCLarge == {t5}

MCDarksendTx == {t2}

MCLockTx == {t1, t2}

MCRawTx == {t3}
=============================================================================
