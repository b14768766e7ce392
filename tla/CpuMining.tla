----------------------------- MODULE CpuMining ------------------------------
(***************************************************************************)
(* Mining on the CPU: MineBlock of pow.cpp with the search_light loop it   *)
(* runs, and its callers: generatetoaddress and generatetodescriptor, which*)
(* share one budget of nonces between several blocks, generateblock, and   *)
(* the grind command of bitcoin-util, while the node may be shut down.     *)
(*                                                                         *)
(* ProgPoW is a choice of the nonces that solve a block.  Nonces and       *)
(* budgets are unsigned numbers of Width bits, 64 in the code.             *)
(***************************************************************************)
EXTENDS Integers, FiniteSetsExt

CONSTANTS
  Width,              \* bits of a nonce and of max_iterations
  SizeWidth,          \* bits of size_t
  GrindNonce,         \* the start nonces given to grind
  GrindIterations,    \* grind's budget, 2^32 - 1 in the code
  DEFAULT_MAX_TRIES,  \* generateblock's budget
  MaxGenerate,        \* bound: blocks asked for in one call
  None                \* no solution

Uint == 0 .. 2 ^ Width - 1

\* What is assumed of them.
CpuMiningConstants ==
  /\ {Width, SizeWidth} \subseteq Nat \ {0} /\ MaxGenerate \in Nat
  /\ GrindNonce \subseteq Uint
  /\ {GrindIterations, DEFAULT_MAX_TRIES} \subseteq Uint
  /\ None \notin Uint

VARIABLES
  m_interrupt,     \* the node is asked to shut down
  command, pc,     \* the command that runs, and where it is
  start_nonce,
  nGenerate,       \* blocks still to find
  max_iterations,  \* what is left of the budget
  process,         \* process_new_block
  outcome,         \* how the last command ended
  budget, tried    \* history: nonces allowed for the command, and tried by it

vars == <<m_interrupt, command, pc, start_nonce, nGenerate, max_iterations, process,
          outcome, budget, tried>>

Init ==
  /\ m_interrupt = FALSE
  /\ command = "none" /\ pc = "idle"
  /\ start_nonce = 0 /\ nGenerate = 0 /\ max_iterations = 0 /\ process = TRUE
  /\ outcome = "none"
  /\ budget = 0 /\ tried = 0

Start(name, label, n, start, tries, submit) ==
  /\ pc = "idle"
  /\ command' = name /\ pc' = label
  /\ nGenerate' = n /\ start_nonce' = start
  /\ max_iterations' = tries /\ budget' = tries /\ tried' = 0
  /\ process' = submit
  /\ outcome' = "none"
  /\ UNCHANGED m_interrupt

Finish(how) ==
  /\ pc' = "idle"
  /\ outcome' = how
  /\ UNCHANGED <<m_interrupt, command, start_nonce, nGenerate, process, budget>>

-----------------------------------------------------------------------------
(* pow.cpp.                                                                *)

\* The sum wraps.
EndNonce(start, iterations) == (start + iterations) % 2 ^ Width

\* The nonces search_light's loop would go through.
Searched(start, iterations) == start .. EndNonce(start, iterations) - 1

\* search_light returns the first nonce that solves the block.
SearchLight(start, iterations, solutions) ==
  LET found == Searched(start, iterations) \cap solutions
  IN  IF found = {} THEN None ELSE Min(found)

\* Mutant: the nonce that solved the block is not counted.
ConsumedBefore(nonce, start) == (nonce - start) % 2 ^ Width

Consumed(nonce, start) == (nonce - start + 1) % 2 ^ Width

Remaining(iterations, consumed) == IF consumed < iterations THEN iterations - consumed ELSE 0

\* static_cast<size_t>(max_iterations).
Iterations == max_iterations % 2 ^ SizeWidth

\* MineBlock's effect on the budget, and what was tried.
MineBlock(nonce) ==
  IF nonce = None
  THEN /\ max_iterations' = 0
       /\ tried' = tried + Cardinality(Searched(start_nonce, Iterations))
  ELSE /\ max_iterations' = Remaining(max_iterations, Consumed(nonce, start_nonce))
       /\ tried' = tried + (nonce - start_nonce + 1)

-----------------------------------------------------------------------------
(* rpc/mining.cpp and bitcoin-util.cpp.                                    *)

\* generatetoaddress and generatetodescriptor.
GenerateBlocks(n, tries) == Start("generateBlocks", "loop", n, 0, tries, TRUE)

\* generateblock.
GenerateOne(submit) == Start("generateblock", "template", 1, 0, DEFAULT_MAX_TRIES, submit)

\* bitcoin-util grind; a header with a bad nBits ends the search before it begins.
Grind(start) == Start("grind", "mine", 1, start, GrindIterations, FALSE)

\* The loop of generateBlocks.
Loop ==
  /\ pc = "loop"
  /\ IF nGenerate > 0 /\ ~m_interrupt
     THEN /\ pc' = "template"
          /\ UNCHANGED <<m_interrupt, command, start_nonce, nGenerate, process, outcome,
                         budget>>
     ELSE Finish(IF nGenerate = 0 THEN "all" ELSE "stopped")
  /\ UNCHANGED <<max_iterations, tried>>

\* createNewBlock returns nothing once the node shuts down, and CHECK_NONFATAL throws.
\* The block of generateblock may fail TestBlockValidity.
CreateNewBlock ==
  /\ pc = "template"
  /\ \/ m_interrupt /\ Finish("internal_bug")
     \/ command = "generateblock" /\ ~m_interrupt /\ Finish("invalid")
     \/ /\ ~m_interrupt
        /\ pc' = "mine"
        /\ UNCHANGED <<m_interrupt, command, start_nonce, nGenerate, process, outcome,
                       budget>>
  /\ UNCHANGED <<max_iterations, tried>>

\* DeriveTarget refuses the nBits of the header given to grind.
BadTarget ==
  /\ pc = "mine" /\ command = "grind"
  /\ max_iterations' = 0
  /\ Finish("bad_target")
  /\ UNCHANGED tried

\* The search, which does not look at m_interrupt until it is over.
Mine(solutions) ==
  /\ pc = "mine"
  /\ LET nonce == SearchLight(start_nonce, Iterations, solutions)
     IN  /\ MineBlock(nonce)
         /\ IF nonce = None
            THEN Finish("not_found")
            ELSE /\ pc' = "found"
                 /\ UNCHANGED <<m_interrupt, command, start_nonce, nGenerate, process,
                                outcome, budget>>

\* GenerateBlock drops a solution found during the shutdown, and otherwise submits
\* the block unless told not to.
Found ==
  /\ pc = "found"
  /\ \/ command # "grind" /\ m_interrupt /\ Finish("stopped")
     \/ command = "grind" /\ Finish("all")
     \/ command = "generateblock" /\ ~m_interrupt /\ ~process /\ Finish("all")
     \/ /\ ~m_interrupt /\ command # "grind" /\ process
        /\ pc' = "submit"
        /\ UNCHANGED <<m_interrupt, command, start_nonce, nGenerate, process, outcome,
                       budget>>
  /\ UNCHANGED <<max_iterations, tried>>

\* ProcessNewBlock accepts the block, or the call throws.
ProcessNewBlock(accepted) ==
  /\ pc = "submit"
  /\ IF ~accepted
     THEN Finish("not_accepted")
     ELSE IF command = "generateblock"
     THEN Finish("all")
     ELSE /\ nGenerate' = nGenerate - 1
          /\ pc' = "loop"
          /\ UNCHANGED <<m_interrupt, command, start_nonce, process, outcome, budget>>
  /\ UNCHANGED <<max_iterations, tried>>

SignalInterrupt ==
  /\ ~m_interrupt
  /\ m_interrupt' = TRUE
  /\ UNCHANGED <<command, pc, start_nonce, nGenerate, max_iterations, process, outcome,
                 budget, tried>>

Next ==
  \/ \E n \in 0 .. MaxGenerate, tries \in Uint : GenerateBlocks(n, tries)
  \/ \E submit \in BOOLEAN : GenerateOne(submit)
  \/ \E start \in GrindNonce : Grind(start)
  \/ Loop
  \/ CreateNewBlock
  \/ BadTarget
  \/ \E solutions \in SUBSET Uint : Mine(solutions)
  \/ Found
  \/ \E accepted \in BOOLEAN : ProcessNewBlock(accepted)
  \/ SignalInterrupt

Spec == Init /\ [][Next]_vars

-----------------------------------------------------------------------------
\* The variables keep their types, and the budget never grows.
TypeOK ==
  /\ pc \in {"idle", "loop", "template", "mine", "found", "submit"}
  /\ start_nonce \in Uint
  /\ nGenerate \in 0 .. MaxGenerate
  /\ max_iterations \in 0 .. budget
  /\ budget \in Uint
  /\ outcome \in {"none", "all", "stopped", "internal_bug", "invalid", "bad_target",
                  "not_found", "not_accepted"}

\* Over all blocks of a call the nonces tried and those left make up the budget
\* the caller gave: none is counted twice or tried for nothing.  (A grind whose
\* range ends at or beyond the largest nonce is left out: its end wraps.)
BudgetExact ==
  start_nonce + budget < 2 ^ Width /\ outcome # "bad_target"
    => tried + max_iterations = budget

\* A search without a solution has tried every nonce it was allowed ("The whole
\* budget was tried and none worked.", pow.cpp:259).
WholeBudgetTried == outcome = "not_found" => tried = budget

\* A template is there whenever the callers assert it
\* ("CHECK_NONFATAL(block_template);", rpc/mining.cpp:224).
TemplateExists == outcome # "internal_bug"
=============================================================================
