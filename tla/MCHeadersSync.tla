---------------------------- MODULE MCHeadersSync ----------------------------
(***************************************************************************)
(* HeadersSync for TLC: two header bodies with different work, every       *)
(* starting hash up to MaxBase headers above the chain start, and two      *)
(* salts whose bits differ on every hash.                                  *)
(***************************************************************************)
EXTENDS HeadersSync, TLC

CONSTANTS light, heavy, MaxBase

MCBody == {light, heavy}
MCWork == light :> 1 @@ heavy :> 2
MCPeerHash == UNION {[1 .. n -> MCBody] : n \in 0 .. MaxBase}
MCHasher(salt, hash) == salt + (IF hash[Len(hash)] = heavy THEN 1 ELSE 0)
=============================================================================
