------------------------------- MODULE MCLwma -------------------------------
(***************************************************************************)
(* Lwma for TLC: an average over three blocks and words of 24 bits.  The   *)
(* default network has a powLimit far below the word's range, as mainnet   *)
(* has; shareNet's fills all but the top bit.                              *)
(***************************************************************************)
EXTENDS Lwma

MCDefaultPowLimit == 2^20 - 1
MCShareNetPowLimit == 2^23 - 1

\* Back in time, too fast, on time, slow, and longer than the clamp.
MCTimeStep == {-3, 1, 4, 10, 100}
=============================================================================
