---------------------------- MODULE MCWalletCoins ---------------------------
(***************************************************************************)
(* Two first coins. Two threads send: one transaction spends both coins,   *)
(* another the second, a third the change of the second. A copy of the     *)
(* wallet spends the second coin and pays nothing back; the wallet stakes  *)
(* the first coin.                                                         *)
(***************************************************************************)
EXTENDS WalletCoins

CONSTANTS f1, f2, both, send, change, copy, coinstake

MCTx == {f1, f2, both, send, change, copy, coinstake}

MCIns ==
    [t \in MCTx |->
        CASE t = both -> {f1, f2}
          [] t = send -> {f2}
          [] t = change -> {send}
          [] t = copy -> {f2}
          [] t = coinstake -> {f1}
          [] OTHER -> {}]

MCFirst == {f1, f2}
MCStake == {coinstake}
MCOwn == {both, send, change, coinstake}
MCOurs == MCTx \ {copy}

=============================================================================
