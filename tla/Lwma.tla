-------------------------------- MODULE Lwma --------------------------------
(***************************************************************************)
(* The difficulty of a growing chain (pow.cpp): GetNextWorkRequired and    *)
(* LwmaCalculateNextWorkRequired give the nBits the next block must have   *)
(* from the times and the nBits of the blocks before it, and               *)
(* ContextualCheckBlockHeader (validation.cpp) and DeriveTarget decide     *)
(* which block may follow.                                                 *)
(*                                                                         *)
(* arith_uint256 is an unsigned integer of Width bits here, and its compact *)
(* form has digits of DigitBits bits (256 and 8 in the code); all sums and *)
(* products are modulo 2^Width.  The loop of the average is a step per     *)
(* iteration.  fPowNoRetargeting is false on every network.                *)
(***************************************************************************)
EXTENDS Integers, Sequences, FiniteSets

CONSTANTS
  Width, DigitBits,
  powLimit, nPowTargetSpacing,
  nLwmaAveragingWindow, nLwmaAdjustedWeight, nLwmaMinDenominator,
  fLwmaSolvetimeLimitation,
  nMedianTimeSpan,    \* the blocks GetMedianTimePast looks at
  enforce_BIP94, DifficultyAdjustmentInterval, MAX_TIMEWARP,
  GenesisTime,
  TimeStep,           \* the differences between the times of two blocks
  MinableTarget,      \* bound: no miner finds a hash below this target
  MaxHeight           \* bound: the chain stops growing here

VARIABLES
  chain,              \* nTime and nBits of the blocks, the genesis block first
  pc,                 \* where GetNextWorkRequired is
  i, j, t, sum_target,
  nextBits            \* its result

vars == <<chain, pc, i, j, t, sum_target, nextBits>>

T == nPowTargetSpacing
N == nLwmaAveragingWindow
k == nLwmaAdjustedWeight

ASSUME LwmaAssumption ==
  /\ {Width, DigitBits, T, N, k, nLwmaMinDenominator} \subseteq Nat \ {0}
  /\ Width % DigitBits = 0 /\ 3 * DigitBits <= Width
  /\ powLimit \in 1 .. 2^Width - 1
  /\ fLwmaSolvetimeLimitation \in BOOLEAN /\ enforce_BIP94 \in BOOLEAN
  /\ {nMedianTimeSpan, DifficultyAdjustmentInterval, MAX_TIMEWARP} \subseteq Nat \ {0}
  /\ GenesisTime \in Nat /\ TimeStep \subseteq Int
  /\ MinableTarget \in Nat /\ MaxHeight \in Nat

\* The weights of chainparams.cpp: k is a little below the sum T * N * (N + 1) / 2
\* of the weighted solvetimes divided by N, the floor of that sum is not zero, and
\* the share of a target that a miner reaches is not zero.
ASSUME WeightAssumption ==
  /\ 2 * k <= T * (N + 1)
  /\ nLwmaMinDenominator <= N * k
  /\ k * N * N <= MinableTarget

\* The laws of exponents that the proofs use, up to the width of a word.
ASSUME PowerAssumption ==
  /\ 2^0 = 1 /\ 2^1 = 2
  /\ \A m \in 0 .. Width : 2^m \in Nat \ {0}
  /\ \A m \in 0 .. Width : \A n \in 0 .. Width - m : 2^(m + n) = 2^m * 2^n

-----------------------------------------------------------------------------
(* arith_uint256.  A compact value is its exponent byte and its mantissa,  *)
(* sign bit included.                                                      *)

Wrap(n) == n % 2^Width

Sign == 2^(3 * DigitBits - 1)
Digit(n) == 2^(DigitBits * n)

\* The number of digits of n: CeilDiv(bits(), 8).
Size(n) == CHOOSE s \in 0 .. Width \div DigitBits :
             n < Digit(s) /\ (s > 0 => n >= Digit(s - 1))

ShiftWord(size, word) == IF size <= 3 THEN word \div Digit(3 - size) ELSE word

SetCompact(bits) ==
  LET word == ShiftWord(bits.size, bits.word % Sign)
  IN IF bits.size <= 3 THEN word ELSE Wrap(word * Digit(bits.size - 3))

IsNegative(bits) == /\ ShiftWord(bits.size, bits.word % Sign) # 0
                    /\ bits.word >= Sign

IsOverflow(bits) ==
  LET word == ShiftWord(bits.size, bits.word % Sign)
      full == Width \div DigitBits
  IN /\ word # 0
     /\ \/ bits.size > full + 2
        \/ word >= Digit(1) /\ bits.size > full + 1
        \/ word >= Digit(2) /\ bits.size > full

GetCompact(n) ==
  LET size == Size(n)
      word == IF size <= 3 THEN n * Digit(3 - size) ELSE n \div Digit(size - 3)
  IN IF word >= Sign THEN [size |-> size + 1, word |-> word \div Digit(1)]
                     ELSE [size |-> size, word |-> word]

\* DeriveTarget: no value is modelled by 0, which it never returns.
DeriveTarget(bits) ==
  IF IsNegative(bits) \/ IsOverflow(bits) \/ SetCompact(bits) > powLimit
    THEN 0
    ELSE SetCompact(bits)

-----------------------------------------------------------------------------
height == Len(chain)              \* of the next block
pindexLast == chain[Len(chain)]
GetAncestor(h) == chain[h + 1]

\* CBlockIndex::GetMedianTimePast: the middle of the sorted times.
GetMedianTimePast ==
  LET first == IF height > nMedianTimeSpan THEN height - nMedianTimeSpan + 1 ELSE 1
      last == first .. height
      Below(n) == Cardinality({m \in last : chain[m].nTime < chain[n].nTime})
      UpTo(n) == Cardinality({m \in last : chain[m].nTime <= chain[n].nTime})
      middle == Cardinality(last) \div 2
  IN chain[CHOOSE n \in last : Below(n) <= middle /\ middle < UpTo(n)].nTime

\* The genesis block's difficulty is powLimit.
Init ==
  /\ chain = <<[nTime |-> GenesisTime, nBits |-> GetCompact(powLimit)]>>
  /\ pc = "idle"
  /\ i = 0 /\ j = 0 /\ t = 0 /\ sum_target = 0
  /\ nextBits = GetCompact(powLimit)

\* GetNextWorkRequired, up to the loop of LwmaCalculateNextWorkRequired.
GetNextWorkRequired ==
  /\ pc = "idle"
  /\ height <= MaxHeight
  /\ \/ /\ height <= N
        /\ nextBits' = GetAncestor(0).nBits
        /\ pc' = "done"
        /\ UNCHANGED <<i, j, t, sum_target>>
     \/ /\ height > N
        /\ pc' = "loop"
        /\ i' = height - N
        /\ j' = 0 /\ t' = 0 /\ sum_target' = 0
        /\ UNCHANGED nextBits
  /\ UNCHANGED chain

\* Mutant: long solvetimes are taken as they are.
ClampUnlimited(solvetime) == solvetime

\* Long solvetimes count for at most six target spacings; negative ones stay.
Clamp(solvetime) ==
  IF fLwmaSolvetimeLimitation /\ solvetime > 6 * T THEN 6 * T ELSE solvetime

Solvetime(h) == GetAncestor(h).nTime - GetAncestor(h - 1).nTime

\* Mutant: the weights start at zero.
WeightFromZero(n) == n - 1

\* The weight of the n-th block of the window, the oldest being the first.
Weight(n) == n

\* One iteration of the loop.
LwmaStep ==
  /\ pc = "loop"
  /\ i < height
  /\ j' = j + 1
  /\ t' = t + Clamp(Solvetime(i)) * Weight(j')
  /\ sum_target' = Wrap(sum_target + SetCompact(GetAncestor(i).nBits) \div (k * N * N))
  /\ i' = i + 1
  /\ UNCHANGED <<chain, pc, nextBits>>

t_min == (N * k) \div nLwmaMinDenominator

\* Mutant: the weighted sum of the solvetimes may stay small or negative.
FlooredNot(sum) == sum

Floored(sum) == IF sum < t_min THEN t_min ELSE sum

Capped(target) == IF target > powLimit THEN powLimit ELSE target

\* What follows the loop.
LwmaFinish ==
  /\ pc = "loop"
  /\ i = height
  /\ nextBits' = GetCompact(Capped(Wrap(Floored(t) * sum_target)))
  /\ pc' = "done"
  /\ UNCHANGED <<chain, i, j, t, sum_target>>

\* The checks of ContextualCheckBlockHeader on the time of a block; the clock
\* bounds no time in advance, since the block may come at any later moment.
TimeAllowed(nTime) ==
  /\ nTime > GetMedianTimePast
  /\ (enforce_BIP94 /\ height % DifficultyAdjustmentInterval = 0) =>
       nTime >= pindexLast.nTime - MAX_TIMEWARP

\* A block with the required nBits and a valid proof of work is connected.
AcceptBlock(nTime) ==
  /\ pc = "done"
  /\ TimeAllowed(nTime)
  /\ DeriveTarget(nextBits) # 0
  /\ DeriveTarget(nextBits) >= MinableTarget
  /\ chain' = Append(chain, [nTime |-> nTime, nBits |-> nextBits])
  /\ pc' = "idle"
  /\ UNCHANGED <<i, j, t, sum_target, nextBits>>

Next ==
  \/ GetNextWorkRequired
  \/ LwmaStep
  \/ LwmaFinish
  \/ \E step \in TimeStep : AcceptBlock(pindexLast.nTime + step)

Spec == Init /\ [][Next]_vars

-----------------------------------------------------------------------------
Compact == [size : 0 .. Width \div DigitBits + 1, word : 0 .. Sign - 1]

\* The chain, the accumulators of the loop and its result have their types; the
\* compact form of a target never has its sign bit set.
TypeOK ==
  /\ chain \in Seq([nTime : Int, nBits : Compact])
  /\ pc \in {"idle", "loop", "done"}
  /\ i \in Nat /\ j \in Nat /\ t \in Int
  /\ sum_target \in 0 .. 2^Width - 1
  /\ nextBits \in Compact

Averaged == pc = "done" /\ height > N
Window == height - N .. height - 1
WindowTargets == {SetCompact(GetAncestor(h).nBits) : h \in Window}
Share(target) == target \div (k * N * N)

\* The comment in the loop of LwmaCalculateNextWorkRequired: dividing every
\* target by k * N^2 keeps the intermediate values within arith_uint256's range,
\* so the product with the weighted solvetimes is not reduced modulo 2^Width.
IntermediatesInRange ==
  pc = "loop" /\ i = height => Floored(t) * sum_target < 2^Width

\* The chain can always grow: whatever times the blocks before had, the required
\* nBits is a compact target that DeriveTarget accepts.
CanExtend == pc = "done" => DeriveTarget(nextBits) # 0

\* The retargeting answers in the right direction: a window of blocks that each
\* took at least the target spacing does not make the next block harder than the
\* hardest of them, and a window of blocks that each took at most the spacing
\* does not make it easier than the easiest (up to the rounding of the shares,
\* of the compact form and of the weight k).
RightDirection ==
  Averaged =>
    \A lo, hi \in WindowTargets :
      (\A target \in WindowTargets : lo <= target /\ target <= hi) =>
        /\ (\A h \in Window : Solvetime(h) >= T) =>
             SetCompact(nextBits) >= SetCompact(GetCompact(Capped(k * N * N * Share(lo))))
        /\ (\A h \in Window : Solvetime(h) <= T) =>
             2 * SetCompact(nextBits) <= T * N * (N + 1) * N * Share(hi)
=============================================================================
