------------------------------ MODULE MCBeacon ------------------------------
(***************************************************************************)
(* Beacon for TLC.                                                         *)
(***************************************************************************)
EXTENDS Beacon
=============================================================================
