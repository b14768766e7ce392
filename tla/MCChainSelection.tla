-------------------------- MODULE MCChainSelection --------------------------
(***************************************************************************)
(* ChainSelection for TLC: two branches on the genesis block.  a1, a2 has  *)
(* the work of b1, b2 at equal heights; a .cfg says which blocks are bad.  *)
(***************************************************************************)
EXTENDS ChainSelection, TLC

CONSTANTS g, a1, a2, b1, b2, b3

MCBlock == {g, a1, a2, b1, b2, b3}
MCpprev == a1 :> g @@ a2 :> a1 @@ b1 :> g @@ b2 :> b1 @@ b3 :> b2
MCAncestors ==
  LET anc[n \in 0 .. 3] ==
        [b \in MCBlock |->
           IF n = 0 \/ b = g THEN {b} ELSE {b} \cup anc[n - 1][MCpprev[b]]]
  IN anc[3]
MCnChainWork == [b \in MCBlock |-> Cardinality(MCAncestors[b])]
MCAddress == g :> 0 @@ a1 :> 1 @@ a2 :> 2 @@ b1 :> 3 @@ b2 :> 4 @@ b3 :> 5
=============================================================================
