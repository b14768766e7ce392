--------------------------- MODULE ChainSelection ---------------------------
(***************************************************************************)
(* The block index and the choice of the active chain (validation.cpp,     *)
(* node/blockstorage.cpp): headers and blocks arrive in any order,         *)
(* ActivateBestChain moves the tip to the best chain it can connect, and   *)
(* the RPCs preciousblock, invalidateblock and reconsiderblock interfere.  *)
(* cs_main makes each step here atomic; ActivateBestChain and              *)
(* InvalidateBlock release it between their steps and exclude each other   *)
(* with m_chainstate_mutex.                                                *)
(*                                                                         *)
(* The tree of blocks that exist is a constant; a variable holds the part  *)
(* the node knows.  One chainstate, no pruning, no snapshot: then          *)
(* BLOCK_HAVE_DATA, BLOCK_VALID_TRANSACTIONS and nTx > 0 are the same.     *)
(* Branches are shorter than the 32 blocks ActivateBestChainStep looks     *)
(* ahead.                                                                  *)
(***************************************************************************)
EXTENDS Integers, FiniteSets

CONSTANTS
  Block,
  Genesis,
  Null,              \* nullptr
  pprev,             \* the parent of every block but Genesis
  Ancestors,         \* the blocks from Genesis to a block, both included
  nChainWork,
  Address,           \* where the CBlockIndex is, the last tie breaker
  BadBlock,          \* ContextualCheckBlock fails
  BadConnect,        \* ConnectBlock fails
  MaxPrecious, MaxInvalidate, MaxReconsider,   \* bounds: calls of each of the RPCs
  MaxCalls                                     \* bound: calls of all of them

VARIABLES
  m_block_index,     \* the blocks whose header is known
  haveData,          \* those with BLOCK_HAVE_DATA
  linked,            \* those with HaveNumChainTxs()
  failed,            \* those with BLOCK_FAILED_VALID
  nSequenceId, nBlockSequenceId, nBlockReverseSequenceId, nLastPreciousChainwork,
  m_blocks_unlinked,
  setBlockIndexCandidates,
  m_best_header,
  tip,               \* m_chain.Tip()
  m_chainstate_mutex,\* who holds it
  waiting,           \* a caller of ActivateBestChain waits for it
  abc,               \* the local variables of ActivateBestChain
  inv,               \* and of InvalidateBlock
  calls              \* how often each of the RPCs was called

indexVars == <<m_block_index, haveData, linked>>
sequenceVars == <<nSequenceId, nBlockSequenceId>>
preciousVars == <<nBlockReverseSequenceId, nLastPreciousChainwork>>
vars == <<indexVars, failed, sequenceVars, preciousVars, m_blocks_unlinked,
          setBlockIndexCandidates, m_best_header, tip, m_chainstate_mutex, waiting,
          abc, inv, calls>>

ASSUME TreeAssumption ==
  /\ IsFiniteSet(Block) /\ Genesis \in Block /\ Null \notin Block
  /\ pprev \in [Block \ {Genesis} -> Block]
  /\ Ancestors \in [Block -> SUBSET Block]
  /\ Ancestors[Genesis] = {Genesis}
  /\ \A b \in Block \ {Genesis} : /\ b \notin Ancestors[pprev[b]]
                                  /\ Ancestors[b] = {b} \cup Ancestors[pprev[b]]
  /\ nChainWork \in [Block -> Nat \ {0}]
  /\ \A b \in Block \ {Genesis} : nChainWork[pprev[b]] < nChainWork[b]
  /\ Address \in [Block -> Nat]
  /\ \A a, b \in Block : Address[a] = Address[b] => a = b
  /\ BadBlock \subseteq Block \ {Genesis} /\ BadConnect \subseteq Block \ {Genesis}
  /\ MaxPrecious \in Nat /\ MaxInvalidate \in Nat /\ MaxReconsider \in Nat /\ MaxCalls \in Nat

-----------------------------------------------------------------------------
SEQ_ID_INIT_FROM_DISK == 1

\* The blocks of m_chain.
Chain == Ancestors[tip]

Descendants(b) == {c \in m_block_index : b \in Ancestors[c]}

\* CBlockIndexWorkComparator, with the sequence ids seq: a is worse than b.
WorseBy(seq, a, b) ==
  \/ nChainWork[a] < nChainWork[b]
  \/ /\ nChainWork[a] = nChainWork[b]
     /\ \/ seq[a] > seq[b]
        \/ seq[a] = seq[b] /\ Address[a] > Address[b]
Worse(a, b) == WorseBy(nSequenceId, a, b)

NoAbc == [pc |-> "idle", pindexMostWork |-> Null, starting_tip |-> Null,
          old_tip |-> Null, connected |-> FALSE]
NoInv == [pc |-> "idle", pindex |-> Null, to_mark_failed |-> Null,
          was_in_chain |-> FALSE, highpow |-> {}]
NoCalls == [precious |-> 0, invalidate |-> 0, reconsider |-> 0]

MayCall == calls.precious + calls.invalidate + calls.reconsider < MaxCalls

\* ActivateBestChain holds cs_main while it looks for progress.
cs_main_free == abc.pc \in {"idle", "released"}

\* LoadGenesisBlock, and the ActivateBestChain at startup that connects it.
Init ==
  /\ m_block_index = {Genesis}
  /\ haveData = {Genesis}
  /\ linked = {Genesis}
  /\ failed = {}
  /\ nSequenceId = [b \in Block |-> IF b = Genesis THEN SEQ_ID_INIT_FROM_DISK + 1
                                                   ELSE SEQ_ID_INIT_FROM_DISK]
  /\ nBlockSequenceId = SEQ_ID_INIT_FROM_DISK + 2
  /\ nBlockReverseSequenceId = -1
  /\ nLastPreciousChainwork = 0
  /\ m_blocks_unlinked = {}
  /\ setBlockIndexCandidates = {Genesis}
  /\ m_best_header = Genesis
  /\ tip = Genesis
  /\ m_chainstate_mutex = "free"
  /\ waiting = FALSE
  /\ abc = NoAbc
  /\ inv = NoInv
  /\ calls = NoCalls

-----------------------------------------------------------------------------
(* Headers and blocks arrive.                                              *)

\* Mutant: a header that follows a failed block is accepted.
HeaderAcceptableAny(b) == b \notin failed /\ pprev[b] \in m_block_index

\* AcceptBlockHeader: the header is known and not failed, or it is new and its
\* parent is known and not failed.
HeaderAcceptable(b) ==
  /\ b \notin failed
  /\ \/ b \in m_block_index
     \/ pprev[b] \in m_block_index \ failed

\* m_best_header once b is in the index: a header that was known before leaves it
\* alone, and a new one replaces it only with more work.
BetterHeader(b) ==
  IF b \notin m_block_index /\ nChainWork[m_best_header] < nChainWork[b]
  THEN b ELSE m_best_header

\* ProcessNewBlockHeaders for one header: AddToBlockIndex.
AcceptBlockHeader(b) ==
  /\ cs_main_free
  /\ b \notin m_block_index
  /\ HeaderAcceptable(b)
  /\ m_block_index' = m_block_index \cup {b}
  /\ m_best_header' = BetterHeader(b)
  /\ UNCHANGED <<haveData, linked, failed, sequenceVars, preciousVars,
                 m_blocks_unlinked, setBlockIndexCandidates, tip, m_chainstate_mutex,
                 waiting, abc, inv, calls>>

\* The best block that is not failed, the tip before others with its work
\* (RecalculateBestHeader; the order of the index decides between others).
BestHeaders(index, failing, chainTip) ==
  LET valid == (index \ failing) \cup {chainTip}
      best == {b \in valid : \A c \in valid : nChainWork[c] <= nChainWork[b]}
  IN IF chainTip \in best THEN {chainTip} ELSE best

\* InvalidChainFound(b): the descendants of b fail with it, and m_best_header is
\* chosen again if it is one of them.
InvalidChainFound(b, failing, header, chainTip) ==
  /\ failed' = failing \cup (Descendants(b) \ {b})
  /\ m_best_header' \in IF b \in Ancestors[header]
                          THEN BestHeaders(m_block_index, failed', chainTip)
                          ELSE {header}

\* Mutant: only the block itself becomes linked, not the ones that waited for it.
NowLinkedSelf(b) == {b}

\* The blocks ReceivedBlockTransactions links once it has the data of b: b and the
\* unlinked blocks that follow it without a gap.
NowLinked(b) ==
  {b} \cup {c \in m_blocks_unlinked : /\ b \in Ancestors[c]
                                      /\ Ancestors[c] \ Ancestors[b] \subseteq m_blocks_unlinked}

\* The sequence ids they get from the queue: those of parents come first.
SequenceIds(new) ==
  {seq \in [new -> nBlockSequenceId .. nBlockSequenceId + Cardinality(new) - 1] :
     \A b, c \in new : b # c => /\ seq[b] # seq[c]
                                /\ Cardinality(Ancestors[b]) < Cardinality(Ancestors[c])
                                     => seq[b] < seq[c]}

\* TryAddBlockIndexCandidate.
CandidateIfNotWorse(seq, b) == ~WorseBy(seq, b, tip)

ReceivedBlockTransactions(b) ==
  /\ haveData' = haveData \cup {b}
  /\ \/ /\ pprev[b] \in linked
        /\ LET new == NowLinked(b)
           IN /\ linked' = linked \cup new
              /\ m_blocks_unlinked' = m_blocks_unlinked \ new
              /\ nBlockSequenceId' = nBlockSequenceId + Cardinality(new)
              /\ \E seq \in SequenceIds(new) :
                   nSequenceId' = [c \in Block |-> IF c \in new THEN seq[c]
                                                                ELSE nSequenceId[c]]
              /\ setBlockIndexCandidates' = setBlockIndexCandidates
                   \cup {c \in new : CandidateIfNotWorse(nSequenceId', c)}
     \/ /\ pprev[b] \notin linked
        /\ m_blocks_unlinked' = m_blocks_unlinked
                                  \cup (IF pprev[b] \in failed THEN {} ELSE {b})
        /\ UNCHANGED <<linked, sequenceVars, setBlockIndexCandidates>>

\* AcceptBlock for a block whose data is new, and the call of ActivateBestChain
\* that follows it in ProcessNewBlock.
AcceptBlock(b) ==
  /\ cs_main_free
  /\ b \notin haveData
  /\ HeaderAcceptable(b)
  /\ b \notin BadBlock
  /\ m_block_index' = m_block_index \cup {b}
  /\ m_best_header' = BetterHeader(b)
  /\ ReceivedBlockTransactions(b)
  /\ waiting' = TRUE
  /\ UNCHANGED <<failed, preciousVars, tip, m_chainstate_mutex, abc, inv, calls>>

\* AcceptBlock for a block that ContextualCheckBlock rejects: InvalidBlockFound.
RejectBlock(b) ==
  /\ cs_main_free
  /\ b \notin haveData
  /\ HeaderAcceptable(b)
  /\ b \in BadBlock
  /\ m_block_index' = m_block_index \cup {b}
  /\ setBlockIndexCandidates' = setBlockIndexCandidates \ {b}
  /\ InvalidChainFound(b, failed \cup {b}, BetterHeader(b), tip)
  /\ UNCHANGED <<haveData, linked, sequenceVars, preciousVars, m_blocks_unlinked, tip,
                 m_chainstate_mutex, waiting, abc, inv, calls>>

-----------------------------------------------------------------------------
(* ActivateBestChain.                                                      *)

StartActivateBestChain ==
  /\ waiting
  /\ m_chainstate_mutex = "free"
  /\ m_chainstate_mutex' = "abc"
  /\ waiting' = FALSE
  /\ abc' = [NoAbc EXCEPT !.pc = "released"]
  /\ UNCHANGED <<indexVars, failed, sequenceVars, preciousVars, m_blocks_unlinked,
                 setBlockIndexCandidates, m_best_header, tip, inv, calls>>

\* cs_main is taken.
LockForProgress ==
  /\ abc.pc = "released"
  /\ abc' = [abc EXCEPT !.pc = "find", !.starting_tip = tip, !.connected = FALSE]
  /\ UNCHANGED <<indexVars, failed, sequenceVars, preciousVars, m_blocks_unlinked,
                 setBlockIndexCandidates, m_best_header, tip, m_chainstate_mutex,
                 waiting, inv, calls>>

BestCandidate == CHOOSE b \in setBlockIndexCandidates :
                   \A c \in setBlockIndexCandidates \ {b} : Worse(c, b)

\* FindMostWorkChain, one candidate at a time: a candidate with a failed block
\* between the active chain and it goes, with all that lies above that block.
FindMostWorkChain ==
  /\ abc.pc = "find"
  /\ \/ /\ abc.pindexMostWork # Null \/ setBlockIndexCandidates = {}
        /\ abc' = [abc EXCEPT !.pc = "decide"]
        /\ UNCHANGED setBlockIndexCandidates
     \/ /\ abc.pindexMostWork = Null
        /\ setBlockIndexCandidates # {}
        /\ LET path == Ancestors[BestCandidate] \ Chain
               bad == path \cap failed
           IN \/ /\ bad = {}
                 /\ abc' = [abc EXCEPT !.pc = "decide", !.pindexMostWork = BestCandidate]
                 /\ UNCHANGED setBlockIndexCandidates
              \/ /\ bad # {}
                 /\ \E top \in bad :
                      /\ \A c \in bad : c \in Ancestors[top]
                      /\ setBlockIndexCandidates' =
                           setBlockIndexCandidates \ (path \ (Ancestors[top] \ {top}))
                 /\ UNCHANGED abc
  /\ UNCHANGED <<indexVars, failed, sequenceVars, preciousVars, m_blocks_unlinked,
                 m_best_header, tip, m_chainstate_mutex, waiting, inv, calls>>

\* Mutant: cs_main is released after each step.
AfterEachStep(newTip, mostWork) ==
  /\ m_chainstate_mutex' = IF newTip = mostWork THEN "free" ELSE m_chainstate_mutex
  /\ abc' = IF newTip = mostWork
              THEN NoAbc ELSE [NoAbc EXCEPT !.pc = "released", !.pindexMostWork = mostWork]

\* Mutant: the call returns as soon as it made progress.
AfterOneStep(newTip, mostWork) ==
  /\ m_chainstate_mutex' = IF Worse(newTip, abc.starting_tip) THEN m_chainstate_mutex ELSE "free"
  /\ abc' = IF Worse(newTip, abc.starting_tip)
              THEN [abc EXCEPT !.pc = "find", !.pindexMostWork = mostWork, !.connected = TRUE]
              ELSE NoAbc

\* The loops of ActivateBestChain once the tip is newTip: look again while the tip
\* is worse than the one the section started with, otherwise release cs_main,
\* and return if the best chain is reached.
AfterStep(newTip, mostWork) ==
  /\ m_chainstate_mutex' = IF ~Worse(newTip, abc.starting_tip) /\ newTip = mostWork
                             THEN "free" ELSE m_chainstate_mutex
  /\ abc' = IF Worse(newTip, abc.starting_tip)
              THEN [abc EXCEPT !.pc = "find", !.pindexMostWork = mostWork, !.connected = TRUE]
            ELSE IF newTip = mostWork THEN NoAbc
            ELSE [NoAbc EXCEPT !.pc = "released", !.pindexMostWork = mostWork]

\* Nothing to do: return, or leave the section if it made progress before.
NothingToDo ==
  /\ abc.pc = "decide"
  /\ abc.pindexMostWork \in {Null, tip}
  /\ abc' = IF abc.connected /\ abc.pindexMostWork = Null
              THEN [NoAbc EXCEPT !.pc = "released"] ELSE NoAbc
  /\ m_chainstate_mutex' = IF abc' = NoAbc THEN "free" ELSE m_chainstate_mutex
  /\ UNCHANGED <<indexVars, failed, sequenceVars, preciousVars, m_blocks_unlinked,
                 setBlockIndexCandidates, m_best_header, tip, waiting, inv, calls>>

\* The first half of ActivateBestChainStep: disconnect down to the fork.
DisconnectToFork ==
  /\ abc.pc = "decide"
  /\ abc.pindexMostWork \notin {Null, tip}
  /\ abc' = [abc EXCEPT !.pc = "connect", !.old_tip = tip]
  /\ \E fork \in Chain \cap Ancestors[abc.pindexMostWork] :
       /\ Chain \cap Ancestors[abc.pindexMostWork] = Ancestors[fork]
       /\ tip' = fork
  /\ UNCHANGED <<indexVars, failed, sequenceVars, preciousVars, m_blocks_unlinked,
                 setBlockIndexCandidates, m_best_header, m_chainstate_mutex, waiting,
                 inv, calls>>

\* pindexConnect: the next block on the way to pindexMostWork.
ToConnect == CHOOSE b \in Ancestors[abc.pindexMostWork] \ Chain : pprev[b] = tip

\* PruneBlockIndexCandidates.
Pruned(newTip) == {b \in setBlockIndexCandidates : ~Worse(b, newTip)}

\* ConnectTip succeeds; the step ends when the chain has more work than before.
ConnectTip ==
  /\ abc.pc = "connect"
  /\ ToConnect \notin BadConnect
  /\ tip' = ToConnect
  /\ setBlockIndexCandidates' = Pruned(ToConnect)
  /\ IF \/ nChainWork[ToConnect] > nChainWork[abc.old_tip]
        \/ ToConnect = abc.pindexMostWork
       THEN AfterStep(ToConnect, abc.pindexMostWork)
       ELSE UNCHANGED <<abc, m_chainstate_mutex>>
  /\ UNCHANGED <<indexVars, failed, sequenceVars, preciousVars, m_blocks_unlinked,
                 m_best_header, waiting, inv, calls>>

\* ConnectTip fails: InvalidBlockFound for the block, InvalidChainFound for the
\* best chain above it (which has nothing left to mark), and pindexMostWork is
\* looked for again.
ConnectTipFails ==
  /\ abc.pc = "connect"
  /\ ToConnect \in BadConnect
  /\ setBlockIndexCandidates' = setBlockIndexCandidates \ {ToConnect}
  /\ InvalidChainFound(ToConnect, failed \cup {ToConnect}, m_best_header, tip)
  /\ AfterStep(tip, Null)
  /\ UNCHANGED <<indexVars, sequenceVars, preciousVars, m_blocks_unlinked, tip, waiting,
                 inv, calls>>

-----------------------------------------------------------------------------
(* preciousblock, invalidateblock, reconsiderblock.                        *)

\* IsValid(BLOCK_VALID_TRANSACTIONS) && HaveNumChainTxs().
Usable(b) == b \in linked \ failed

PreciousBlock(b) ==
  /\ cs_main_free
  /\ MayCall /\ calls.precious < MaxPrecious
  /\ calls' = [calls EXCEPT !.precious = @ + 1]
  /\ b \in m_block_index
  /\ nChainWork[b] >= nChainWork[tip]
  /\ LET reverseId == IF nChainWork[tip] > nLastPreciousChainwork
                        THEN -1 ELSE nBlockReverseSequenceId
     IN /\ nSequenceId' = [nSequenceId EXCEPT ![b] = reverseId]
        /\ nBlockReverseSequenceId' = reverseId - 1
  /\ nLastPreciousChainwork' = nChainWork[tip]
  /\ setBlockIndexCandidates' =
       IF Usable(b)
         THEN {c \in setBlockIndexCandidates \cup {b} : ~WorseBy(nSequenceId', c, tip)}
         ELSE setBlockIndexCandidates \ {b}
  /\ waiting' = TRUE
  /\ UNCHANGED <<indexVars, failed, nBlockSequenceId, m_blocks_unlinked, m_best_header,
                 tip, m_chainstate_mutex, abc, inv>>

\* Mutant: InvalidateBlock does not wait.
NeverWaits == TRUE

\* Whether m_chainstate_mutex can be taken.
CanLockChainstate == m_chainstate_mutex = "free"

\* Takes m_chainstate_mutex and collects the blocks outside the active chain that
\* may become candidates or best headers as blocks are disconnected.
InvalidateBlock(b) ==
  /\ cs_main_free
  /\ MayCall /\ calls.invalidate < MaxInvalidate
  /\ CanLockChainstate
  /\ b \in m_block_index \ {Genesis}
  /\ calls' = [calls EXCEPT !.invalidate = @ + 1]
  /\ m_chainstate_mutex' = "inv"
  /\ inv' = [pc |-> "loop", pindex |-> b, to_mark_failed |-> b, was_in_chain |-> FALSE,
             highpow |-> {c \in m_block_index \ (Chain \cup failed) : ~Worse(c, pprev[b])}]
  /\ UNCHANGED <<indexVars, failed, sequenceVars, preciousVars, m_blocks_unlinked,
                 setBlockIndexCandidates, m_best_header, tip, waiting, abc>>

\* One round of its loop: the tip is disconnected and marked, with what was seen
\* above it, and blocks as good as the new tip become candidates.
InvalidateTip ==
  /\ inv.pc = "loop"
  /\ inv.pindex \in Chain
  /\ LET new_tip == pprev[tip]
         above == {c \in inv.highpow : nChainWork[c] >= nChainWork[new_tip]}
         marked == {c \in above : tip \in Ancestors[c]}
         best == (above \ marked) \cup {new_tip}
         most == {c \in best : \A d \in best : nChainWork[d] <= nChainWork[c]}
     IN /\ tip' = new_tip
        /\ failed' = failed \cup {tip} \cup marked
        /\ setBlockIndexCandidates' =
             (setBlockIndexCandidates \ {tip}) \cup {new_tip}
               \cup {c \in above \ marked : c \in linked \ failed /\ ~Worse(c, new_tip)}
        /\ m_best_header' \in IF tip \notin Ancestors[m_best_header] THEN {m_best_header}
                              ELSE IF new_tip \in most THEN {new_tip} ELSE most
        /\ inv' = [inv EXCEPT !.was_in_chain = TRUE, !.to_mark_failed = tip,
                              !.highpow = @ \ marked]
  /\ UNCHANGED <<indexVars, sequenceVars, preciousVars, m_blocks_unlinked,
                 m_chainstate_mutex, waiting, abc, calls>>

\* Mutant: the blocks that arrived in between are not looked at again.
CandidatesAfterInvalidateOnly(failing) == {}

\* The second look at the whole index, for blocks that arrived in between.
CandidatesAfterInvalidate(failing) == {c \in linked \ failing : ~Worse(c, tip)}

\* What InvalidateBlock does after its loop, and the call of ActivateBestChain in
\* the RPC.
FinishInvalidateBlock ==
  /\ inv.pc = "loop"
  /\ inv.pindex \notin Chain
  /\ LET direct == IF inv.was_in_chain THEN {} ELSE {inv.pindex} \ failed
     IN /\ InvalidChainFound(inv.to_mark_failed, failed \cup direct, m_best_header, tip)
        /\ setBlockIndexCandidates' = (setBlockIndexCandidates \ direct)
                                        \cup CandidatesAfterInvalidate(failed \cup direct)
  /\ m_chainstate_mutex' = "free"
  /\ inv' = NoInv
  /\ waiting' = TRUE
  /\ UNCHANGED <<indexVars, sequenceVars, preciousVars, m_blocks_unlinked, tip, abc, calls>>

\* ResetBlockFailureFlags, RecalculateBestHeader, and the call of
\* ActivateBestChain in the RPC.
ReconsiderBlock(b) ==
  /\ cs_main_free
  /\ MayCall /\ calls.reconsider < MaxReconsider
  /\ calls' = [calls EXCEPT !.reconsider = @ + 1]
  /\ b \in m_block_index
  /\ LET reset == {c \in failed : b \in Ancestors[c] \/ c \in Ancestors[b]}
     IN /\ failed' = failed \ reset
        /\ setBlockIndexCandidates' = setBlockIndexCandidates
             \cup {c \in reset \cap linked : Worse(tip, c)}
  /\ m_best_header' \in BestHeaders(m_block_index, failed', tip)
  /\ waiting' = TRUE
  /\ UNCHANGED <<indexVars, sequenceVars, preciousVars, m_blocks_unlinked, tip,
                 m_chainstate_mutex, abc, inv>>

-----------------------------------------------------------------------------
ActivateStep ==
  \/ StartActivateBestChain
  \/ LockForProgress
  \/ FindMostWorkChain
  \/ NothingToDo
  \/ DisconnectToFork
  \/ ConnectTip
  \/ ConnectTipFails

InvalidateStep == InvalidateTip \/ FinishInvalidateBlock

Next ==
  \/ \E b \in Block : \/ AcceptBlockHeader(b)
                      \/ AcceptBlock(b)
                      \/ RejectBlock(b)
                      \/ PreciousBlock(b)
                      \/ InvalidateBlock(b)
                      \/ ReconsiderBlock(b)
  \/ ActivateStep
  \/ InvalidateStep

Spec == Init /\ [][Next]_vars

\* A caller that waits for m_chainstate_mutex gets it, and the loops go on.
FairSpec == Spec /\ WF_vars(ActivateStep) /\ WF_vars(InvalidateStep)

-----------------------------------------------------------------------------
\* Every variable has its type; data, links and failures are of known blocks.
TypeOK ==
  /\ linked \subseteq haveData /\ haveData \subseteq m_block_index
  /\ m_block_index \subseteq Block
  /\ failed \subseteq m_block_index
  /\ nSequenceId \in [Block -> Int]
  /\ nBlockSequenceId \in Nat
  /\ nBlockReverseSequenceId \in Int
  /\ nLastPreciousChainwork \in Nat
  /\ m_blocks_unlinked \subseteq haveData
  /\ setBlockIndexCandidates \subseteq linked
  /\ m_best_header \in m_block_index
  /\ tip \in linked
  /\ m_chainstate_mutex \in {"free", "abc", "inv"}
  /\ waiting \in BOOLEAN
  /\ abc.pindexMostWork \in linked \cup {Null}
  /\ inv.highpow \subseteq m_block_index

\* The states in which another thread can hold cs_main and InvalidateBlock is not
\* half done.
Quiet == cs_main_free /\ inv.pc = "idle"

\* "Invalid blocks and their descendants must be marked as invalid": the assertion
\* of CheckBlockIndex on nStatus.
FailedIsInherited ==
  \A b \in m_block_index : Ancestors[b] \cap failed # {} => b \in failed

\* Its assertions on m_best_header: not failed, and no other valid block has more work.
BestHeaderIsBest ==
  /\ m_best_header \notin failed
  /\ \A b \in m_block_index \ failed : nChainWork[b] <= nChainWork[m_best_header]

\* Its assertions on setBlockIndexCandidates: it has every valid linked block that is
\* no worse than the tip, and no worse or unlinked block.
CandidatesAreExact ==
  /\ \A b \in linked \ failed : ~Worse(b, tip) => b \in setBlockIndexCandidates
  /\ \A b \in setBlockIndexCandidates : b \in linked /\ ~Worse(b, tip)

\* Its assertions on what is linked, on m_blocks_unlinked and on nSequenceId.
UnlinkedIsExact ==
  /\ linked = {b \in m_block_index : Ancestors[b] \subseteq haveData}
  /\ (haveData \ linked) \ failed \subseteq m_blocks_unlinked
  /\ m_blocks_unlinked \subseteq haveData \ linked
  /\ \A b \in m_block_index \ linked : nSequenceId[b] <= SEQ_ID_INIT_FROM_DISK

\* A failure reaches every descendant, whichever of headers, data and failure came
\* first (InvalidChainFound, SetBlockFailureFlags, AcceptBlockHeader).
FailureInherited == Quiet => FailedIsInherited

\* m_best_header is a best valid header, after headers arrived, chains failed, were
\* invalidated or reconsidered.
BestHeader == Quiet => BestHeaderIsBest

\* setBlockIndexCandidates is what FindMostWorkChain needs, although it is only ever
\* updated in part: by arrivals, pruning, failures and the RPCs.
CandidatesExact == Quiet => CandidatesAreExact

\* Out-of-order data is linked as soon as the gap closes, and only then.
UnlinkedExact == Quiet => UnlinkedIsExact

\* The same until the first invalidateblock.
UnlinkedUntilInvalidate == calls.invalidate = 0 => UnlinkedExact

\* No block of the active chain is failed, unlinked, or fails its checks, also while
\* ActivateBestChain works with a pindexMostWork found before cs_main was released.
ActiveChainValid ==
  /\ Chain \subseteq linked \ failed
  /\ Chain \cap (BadConnect \cup BadBlock) = {}

\* "We absolutely may not unlock cs_main until we've made forward progress": when
\* ActivateBestChain unlocks it the tip is not worse than when it was locked,
\* whatever had to be disconnected and failed to connect meanwhile.
ForwardProgress ==
  [][~cs_main_free /\ cs_main_free' => ~Worse(tip', abc.starting_tip)]_vars

\* Whenever the node has all data of a valid chain better than the active one, it
\* will come to have the best one active: no order of arrivals, failures and RPCs
\* leaves a better chain aside.
BestChainWins ==
  (\E b \in linked \ failed : Worse(tip, b)) ~> (\A b \in linked \ failed : ~Worse(tip, b))
=============================================================================
