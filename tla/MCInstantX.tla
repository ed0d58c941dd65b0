----------------------------- MODULE MCInstantX -----------------------------
(***************************************************************************)
(* Two transactions that compete for an output of the recorded c; both are *)
(* sent as lock requests, t2 also by the wallet. Two masternodes must      *)
(* agree, one of them this node's own; one of them may vote for a wrong    *)
(* height.                                                                 *)
(***************************************************************************)
EXTENDS InstantX

CONSTANTS c, t1, t2, m1, m2

MCTx == {c, t1, t2}

MCSpends == [t \in MCTx |-> CASE t = c  -> {}
                              [] t = t1 -> {<<c, 0>>}
                              [] t = t2 -> {<<c, 0>>, <<c, 1>>}]

MCRecorded == {c}

MCNone == {}

MCLockTx == {t1, t2}

MCMasternode == {m1, m2}

MCVote == {[mn |-> m1, tx |-> t2, right |-> TRUE],
           [mn |-> m2, tx |-> t2, right |-> TRUE],
           [mn |-> m2, tx |-> t2, right |-> FALSE]}

MCOwnTx == {t2}

MCRawTx == {t2}

MCFeeOk == {c, t2}
=============================================================================
