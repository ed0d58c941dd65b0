---------------------------- MODULE MCWalletKeys ----------------------------
(***************************************************************************)
(* Two holders, a pool of one or two keys, seven keys in all.              *)
(***************************************************************************)
EXTENDS WalletKeys

CONSTANTS miner, sender

MCHolder == {miner, sender}
=============================================================================
