----------------------------- MODULE CoinsStore -----------------------------
(***************************************************************************)
(* What the chainstate promises of its coins: the set of unspent coins is  *)
(* always the one that the blocks up to the tip determine, the tip moves   *)
(* one block at a time, and a crash takes it back to a tip that was        *)
(* written before, never to a mixture of two.                              *)
(***************************************************************************)
CONSTANTS Block, Null, Linked(_, _), UtxoAt(_)

VARIABLES
  tip,     \* the block the coins belong to
  coins,   \* the unspent coins
  saved    \* the tips that a crash may return to

vars == << tip, coins, saved >>

Init == /\ tip = Null
        /\ coins = UtxoAt(Null)
        /\ saved = {Null}

\* A block is connected or disconnected.
Move == \E b \in Block :
  /\ Linked(tip, b)
  /\ tip' = b
  /\ coins' = UtxoAt(b)
  /\ UNCHANGED saved

\* The tip reaches the disk, and tips written long ago are no longer lost to.
Save ==
  /\ saved' \subseteq saved \union {tip}
  /\ tip \in saved'
  /\ UNCHANGED << tip, coins >>

\* Only what a crash may return to is still there after it.
Crash ==
  /\ tip' \in saved
  /\ coins' = UtxoAt(tip')
  /\ saved' \subseteq saved
  /\ tip' \in saved'

Next == Move \/ Save \/ Crash

Spec == Init /\ [][Next]_vars
=============================================================================
