---------------------------- MODULE MCCpuMining -----------------------------
(***************************************************************************)
(* CpuMining for TLC.                                                      *)
(***************************************************************************)
EXTENDS CpuMining
=============================================================================
