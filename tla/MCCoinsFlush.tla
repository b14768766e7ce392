---------------------------- MODULE MCCoinsFlush ----------------------------
(***************************************************************************)
(* A fork after the first block.  x is a coinbase output of the common     *)
(* block; the transaction that spends it and creates y and w is in the     *)
(* only block of one branch and in the second of the other, so w has       *)
(* another height in each; the second branch spends y in the same block.   *)
(* z is the coinbase output of its first block, spent in its second.       *)
(***************************************************************************)
EXTENDS CoinsFlush

CONSTANTS g, c1, a1, b1, b2, x, y, z, w

MCBlock == {g, c1, a1, b1, b2}
MCOutpoint == {x, y, z, w}

MCpprev == [b \in MCBlock |->
  CASE b = g -> Null [] b = c1 -> g
    [] b = a1 -> c1 [] b = b1 -> c1 [] b = b2 -> b1]

MCnHeight[b \in MCBlock] == IF b = g THEN 0 ELSE MCnHeight[MCpprev[b]] + 1

Does(made, spent) == [made |-> made, spent |-> spent]

MCvtx == [b \in MCBlock |-> [o \in MCOutpoint |->
  CASE b = c1 /\ o = x -> Does("coinbase", FALSE)
    [] b = a1 /\ o = x -> Does("no", TRUE)
    [] b = a1 /\ o = y -> Does("tx", FALSE)
    [] b = a1 /\ o = w -> Does("tx", FALSE)
    [] b = b1 /\ o = z -> Does("coinbase", FALSE)
    [] b = b2 /\ o = x -> Does("no", TRUE)
    [] b = b2 /\ o = y -> Does("tx", TRUE)
    [] b = b2 /\ o = w -> Does("tx", FALSE)
    [] b = b2 /\ o = z -> Does("no", TRUE)
    [] OTHER -> Does("no", FALSE)]]
=============================================================================
