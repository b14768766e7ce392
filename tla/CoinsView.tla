----------------------------- MODULE CoinsView ------------------------------
(***************************************************************************)
(* CCoinsViewCache (coins.h, coins.cpp) for one outpoint.  A cache maps    *)
(* outpoints to entries, and no operation on one outpoint looks at         *)
(* another, so the operators here work on the entry of one outpoint and    *)
(* on what the view below the cache holds for it.                          *)
(*                                                                         *)
(* A coin is modelled by the height of the block that created it; 0 stands *)
(* for a spent or missing coin.                                            *)
(***************************************************************************)
EXTENDS Integers

CONSTANTS
  Absent,    \* there is no entry
  Thrown     \* std::logic_error

NoCoin == 0

Entry(coin, dirty, fresh) == [coin |-> coin, dirty |-> dirty, fresh |-> fresh]

CacheEntry == [coin : Nat, dirty : BOOLEAN, fresh : BOOLEAN]

ASSUME CoinsViewAssumption ==
  /\ Absent # Thrown
  /\ Absent \notin CacheEntry /\ Thrown \notin CacheEntry

\* What the cache says of an outpoint for which the view below holds base.
GetCoin(e, base) == IF e = Absent THEN base ELSE e.coin

\* FetchCoin: take an unspent coin over from the view below.
FetchCoin(e, base) ==
  IF e = Absent /\ base # NoCoin THEN Entry(base, FALSE, FALSE) ELSE e

\* A coin that is spent and DIRTY here may still be unspent below.
AddedFresh(e) == ~e.dirty

AddCoin(e0, height, possible_overwrite) ==
  LET e == IF e0 = Absent THEN Entry(NoCoin, FALSE, FALSE) ELSE e0
  IN IF ~possible_overwrite /\ e.coin # NoCoin
       THEN Thrown
       ELSE Entry(height, TRUE, e.fresh \/ (~possible_overwrite /\ AddedFresh(e)))

\* An entry that could not be added stays so.
SpendCoin(e0, base) ==
  LET e == FetchCoin(e0, base)
  IN IF e = Thrown THEN Thrown
     ELSE IF e = Absent \/ e.fresh THEN Absent ELSE Entry(NoCoin, TRUE, FALSE)

\* Mutant: a restored coin is never expected to be there.
AddUnchecked(e0, base, height) == AddCoin(FetchCoin(e0, base), height, FALSE)

\* HaveCoin, then AddCoin with its answer as possible_overwrite.
AddChecked(e0, base, height) ==
  LET e == FetchCoin(e0, base)
  IN AddCoin(e, height, GetCoin(e, base) # NoCoin)

\* Mutant: the parent takes the FRESH flag over with the coin.
MergeFresh(p, c) ==
  IF p.fresh /\ c.coin = NoCoin THEN Absent ELSE Entry(c.coin, TRUE, p.fresh \/ c.fresh)

\* An entry of the parent that is changed by the child's.
MergeInto(p, c) ==
  IF p.fresh /\ c.coin = NoCoin THEN Absent ELSE Entry(c.coin, TRUE, p.fresh)

\* CCoinsViewCache::BatchWrite: a child's entry c is written into the parent's p.
BatchWrite(p, c) ==
  IF c = Thrown \/ p = Thrown THEN Thrown
  ELSE IF c = Absent \/ ~c.dirty THEN p
  ELSE IF p = Absent
    THEN IF c.fresh /\ c.coin = NoCoin THEN Absent ELSE Entry(c.coin, TRUE, c.fresh)
  ELSE IF c.fresh /\ p.coin # NoCoin THEN Thrown
  ELSE MergeInto(p, c)

-----------------------------------------------------------------------------
(* Blocks.  A transaction or the coinbase of a block may make the outpoint, *)
(* and a later transaction of the block may spend it.                       *)

Effect == [made : {"no", "tx", "coinbase"}, spent : BOOLEAN]

\* ConnectBlock on an empty child cache: UpdateCoins and AddCoins.
ConnectBlock(effect, base, height) ==
  LET made == IF effect.made = "no" THEN Absent
              ELSE AddCoin(Absent, height, effect.made = "coinbase")
  IN IF effect.spent THEN SpendCoin(made, base) ELSE made

\* The coin that ConnectBlock puts into the undo data for the outpoint.
UndoCoin(effect, base, height) ==
  IF ~effect.spent THEN NoCoin ELSE IF effect.made = "no" THEN base ELSE height

\* DisconnectBlock in a cache, the last transaction first: an input is restored
\* (ApplyTxInUndo), an output is spent.
DisconnectBlock(e, effect, base, undo) ==
  LET restored == IF effect.spent THEN AddChecked(e, base, undo) ELSE e
  IN IF effect.made = "no" THEN restored ELSE SpendCoin(restored, base)

\* DISCONNECT_OK: the block's outputs were there as it made them, and no coin
\* was in the way of one that is restored.
DisconnectClean(effect, base, height) ==
  /\ effect.spent => base = NoCoin
  /\ effect.made # "no" /\ ~effect.spent => base = height

\* RollforwardBlock in a cache, whatever of the block was applied before.
RollforwardBlock(e, effect, base, height) ==
  LET made == IF effect.made = "no" THEN e ELSE AddChecked(e, base, height)
  IN IF effect.spent THEN SpendCoin(made, base) ELSE made
=============================================================================
