----------------------------- MODULE MCMiningRpc -----------------------------
(***************************************************************************)
(* MiningRpc for TLC.                                                      *)
(***************************************************************************)
EXTENDS MiningRpc
=============================================================================
