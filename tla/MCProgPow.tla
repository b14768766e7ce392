----------------------------- MODULE MCProgPow ------------------------------
(***************************************************************************)
(* The parts that compute and use ProgPoW results, for TLC: the cache of   *)
(* epoch contexts (EpochContext), mining on the CPU (CpuMining) and the    *)
(* random beacon (Beacon).                                                 *)
(*                                                                         *)
(* No variable of one part is read by another: CpuMining chooses what a    *)
(* search finds, and Beacon the mix_hash of a block.  So each part has the *)
(* same behaviours alone as beside the others, and a behaviour here runs   *)
(* one of them while the others rest.                                      *)
(***************************************************************************)
EXTENDS EpochContext, TLC

CONSTANTS
  Width, SizeWidth, GrindNonce, GrindIterations, DEFAULT_MAX_TRIES, MaxGenerate,
  MixHash, IntMax, MaxWindow, MaxHeight, MaxStart

VARIABLES
  part,   \* the part that runs
  m_interrupt, command, step, start_nonce, nGenerate, max_iterations, process, outcome,
  budget, tried,
  chain, reply

miningVars == <<m_interrupt, command, step, start_nonce, nGenerate, max_iterations, process,
                outcome, budget, tried>>
beaconVars == <<chain, reply>>

Mining == INSTANCE CpuMining WITH pc <- step
RandomBeacon == INSTANCE Beacon

ASSUME CpuMiningAssumption == Mining!CpuMiningConstants
ASSUME BeaconAssumption == RandomBeacon!BeaconConstants

Symmetry == Permutations(Thread) \cup Permutations(Epoch) \cup Permutations(Address)

\* What a part at rest has: its choice among its initial states matters to no other.
AnyMixHash == CHOOSE mix_hash \in MixHash : TRUE

PartsInit ==
  /\ part \in {"contexts", "mining", "beacon"}
  /\ Init /\ Mining!Init /\ RandomBeacon!Init
  /\ part # "contexts" => \E epoch \in Epoch : /\ epoch_number = [a \in Address |-> epoch]
                                               /\ asked = [t \in Thread |-> epoch]
  /\ part # "beacon" => chain = <<AnyMixHash>>

PartsNext ==
  \/ part = "contexts" /\ Next /\ UNCHANGED <<part, miningVars, beaconVars>>
  \/ part = "mining" /\ Mining!Next /\ UNCHANGED <<part, vars, beaconVars>>
  \/ part = "beacon" /\ RandomBeacon!Next /\ UNCHANGED <<part, vars, miningVars>>

partsVars == <<part, vars, miningVars, beaconVars>>

PartsSpec == PartsInit /\ [][PartsNext]_partsVars

\* Over all blocks of a generate call MineBlock takes from the budget exactly the
\* nonces that search_light tried, and so it does for a grind that does not wrap.
BudgetExact == Mining!BudgetExact

\* getrandombeacon asked twice about one window gives one value exactly when the
\* window has the same blocks, whatever the chain went through in between.
SameBlocksSameBeacon == [][RandomBeacon!SameBlocks]_beaconVars

\* getrandombeacon needs exactly as many more blocks as it asked for, also when the
\* chain was reorganised or shortened in between.
NeedsExactlyMore == [][RandomBeacon!ExactlyMore]_beaconVars
=============================================================================
