--------------------------- MODULE MCMiningWaits ----------------------------
(***************************************************************************)
(* MiningWaits for TLC.                                                    *)
(***************************************************************************)
EXTENDS MiningWaits, TLC

Symmetry == Permutations(Block) \cup Permutations(Miner)
=============================================================================
