-------------------------- MODULE MCHeadersDownload -------------------------
(***************************************************************************)
(* Two branches: the honest peers' chain goes one header beyond the       *)
(* minimum work, the other one never reaches it.                           *)
(***************************************************************************)
EXTENDS HeadersDownload

MCLength == [c \in Chain |-> IF c = Main THEN MinimumWork + 1 ELSE MinimumWork - 3]
=============================================================================
