------------------------ MODULE ChainSelectionProofs ------------------------
(***************************************************************************)
(* Proofs about ChainSelection, for every finite tree of blocks, every     *)
(* assignment of work to them and any number of calls of the RPCs.         *)
(***************************************************************************)
EXTENDS ChainSelection, FiniteSetTheorems, TLAPS

-----------------------------------------------------------------------------
(* The tree of blocks.                                                     *)

\* Every nonempty set of natural numbers has a least element.
LEMMA LeastNat ==
  ASSUME NEW T, T \subseteq Nat, T # {}
  PROVE  \E x \in T : \A y \in T : x <= y
<1> DEFINE less == OpToRel(<, Nat)
<1>1. IsWellFoundedOn(less, Nat)
  BY NatLessThanWellFounded, Zenon
<1>2. \E x \in T : \A y \in T : ~(<<y, x>> \in less)
  <2> HIDE DEF less
  <2> QED BY <1>1, WFMin, Zenon
<1>3. PICK x \in T : \A y \in T : ~(<<y, x>> \in less)
  BY <1>2, Zenon
<1>4. \A y \in T : x <= y
  <2> TAKE y \in T
  <2>1. ~(y < x)
    BY <1>3, Zenon DEF OpToRel
  <2> QED BY <2>1
<1> QED BY <1>4

\* Induction from the genesis block upwards: work grows along pprev.
LEMMA TreeInduction ==
  ASSUME NEW Q, Genesis \in Q,
         \A b \in Block \ {Genesis} : pprev[b] \in Q => b \in Q
  PROVE  Block \subseteq Q
<1> SUFFICES ASSUME ~(Block \subseteq Q) PROVE FALSE
  OBVIOUS
<1> DEFINE W == {nChainWork[b] : b \in Block \ Q}
<1>1. W \subseteq Nat /\ W # {}
  BY TreeAssumption
<1>2. PICK w \in W : \A y \in W : w <= y
  <2> HIDE DEF W
  <2> QED BY <1>1, LeastNat, Zenon
<1>3. PICK b \in Block \ Q : w = nChainWork[b]
  BY <1>2
<1>4. /\ b # Genesis /\ pprev[b] \in Block /\ pprev[b] \notin Q
      /\ nChainWork[pprev[b]] < nChainWork[b]
      /\ nChainWork[b] \in Nat /\ nChainWork[pprev[b]] \in Nat
  BY <1>3, TreeAssumption
<1>5. nChainWork[pprev[b]] \in W
  BY <1>4
<1> QED BY <1>2, <1>3, <1>4, <1>5

\* What TreeAssumption says of one block.
LEMMA OneBlock ==
  ASSUME NEW b \in Block
  PROVE  /\ Ancestors[b] \subseteq Block /\ b \in Ancestors[b]
         /\ nChainWork[b] \in Nat /\ Address[b] \in Nat
         /\ Null \notin Block /\ Genesis \in Block /\ Ancestors[Genesis] = {Genesis}
         /\ b # Genesis => /\ pprev[b] \in Block
                           /\ Ancestors[b] = {b} \cup Ancestors[pprev[b]]
                           /\ b \notin Ancestors[pprev[b]]
                           /\ nChainWork[pprev[b]] < nChainWork[b]
BY TreeAssumption

LEMMA AncestorWork ==
  ASSUME NEW b \in Block, NEW a \in Ancestors[b]
  PROVE  a \in Block /\ (a = b \/ nChainWork[a] < nChainWork[b])
<1> DEFINE Q == {d \in Block : \A c \in Ancestors[d] : c = d \/ nChainWork[c] < nChainWork[d]}
<1>1. Genesis \in Q
  BY TreeAssumption
<1>2. ASSUME NEW d \in Block \ {Genesis}, pprev[d] \in Q
      PROVE  d \in Q
  <2>1. ASSUME NEW c \in Ancestors[d], c # d
        PROVE  nChainWork[c] < nChainWork[d]
    <3>1. c \in Ancestors[pprev[d]] /\ c \in Block
      BY <2>1, OneBlock
    <3>2. c = pprev[d] \/ nChainWork[c] < nChainWork[pprev[d]]
      BY <1>2, <3>1
    <3> QED BY <3>1, <3>2, OneBlock
  <2> QED BY <2>1
<1>3. Block \subseteq Q
  <2> HIDE DEF Q
  <2> QED BY <1>1, <1>2, TreeInduction
<1> QED BY <1>3, OneBlock

LEMMA AncestorTransitive ==
  ASSUME NEW c \in Block, NEW b \in Ancestors[c]
  PROVE  Ancestors[b] \subseteq Ancestors[c]
<1> DEFINE Q == {d \in Block : \A a \in Ancestors[d] : Ancestors[a] \subseteq Ancestors[d]}
<1>1. Genesis \in Q
  BY TreeAssumption
<1>2. ASSUME NEW d \in Block \ {Genesis}, pprev[d] \in Q
      PROVE  d \in Q
  BY <1>2, OneBlock
<1>3. Block \subseteq Q
  <2> HIDE DEF Q
  <2> QED BY <1>1, <1>2, TreeInduction
<1> QED BY <1>3

LEMMA AncestorsLinear ==
  ASSUME NEW c \in Block, NEW a \in Ancestors[c], NEW b \in Ancestors[c]
  PROVE  a \in Ancestors[b] \/ b \in Ancestors[a]
<1> DEFINE Q == {d \in Block : \A x, y \in Ancestors[d] : x \in Ancestors[y] \/ y \in Ancestors[x]}
<1>1. Genesis \in Q
  BY TreeAssumption
<1>2. ASSUME NEW d \in Block \ {Genesis}, pprev[d] \in Q
      PROVE  d \in Q
  BY <1>2, OneBlock
<1>3. Block \subseteq Q
  <2> HIDE DEF Q
  <2> QED BY <1>1, <1>2, TreeInduction
<1> QED BY <1>3

LEMMA GenesisIsAncestor ==
  ASSUME NEW b \in Block
  PROVE  Genesis \in Ancestors[b]
<1> DEFINE Q == {d \in Block : Genesis \in Ancestors[d]}
<1>1. Genesis \in Q
  BY TreeAssumption
<1>2. \A d \in Block \ {Genesis} : pprev[d] \in Q => d \in Q
  BY OneBlock
<1>3. Block \subseteq Q
  <2> HIDE DEF Q
  <2> QED BY <1>1, <1>2, TreeInduction
<1> QED BY <1>3

\* On the way from a block to one of its ancestors lies a child of the ancestor.
LEMMA ChildOnPath ==
  ASSUME NEW b \in Block, NEW a \in Ancestors[b], a # b
  PROVE  \E c \in Ancestors[b] \ Ancestors[a] : c # Genesis /\ pprev[c] = a
<1> DEFINE Q == {d \in Block : \A x \in Ancestors[d] :
                   x # d => \E c \in Ancestors[d] : c # Genesis /\ pprev[c] = x}
<1>1. Genesis \in Q
  BY TreeAssumption
<1>2. ASSUME NEW d \in Block \ {Genesis}, pprev[d] \in Q
      PROVE  d \in Q
  BY <1>2, OneBlock
<1>3. Block \subseteq Q
  <2> HIDE DEF Q
  <2> QED BY <1>1, <1>2, TreeInduction
<1>4. PICK c \in Ancestors[b] : c # Genesis /\ pprev[c] = a
  BY <1>3
<1>5. c \notin Ancestors[a]
  BY <1>4, OneBlock
<1> QED BY <1>4, <1>5

-----------------------------------------------------------------------------
(* CBlockIndexWorkComparator is a strict total order.                      *)

LEMMA WorseOrder ==
  ASSUME NEW seq \in [Block -> Int]
  PROVE  /\ \A a \in Block : ~WorseBy(seq, a, a)
         /\ \A a, b \in Block : ~(WorseBy(seq, a, b) /\ WorseBy(seq, b, a))
         /\ \A a, b \in Block : a # b => WorseBy(seq, a, b) \/ WorseBy(seq, b, a)
         /\ \A a, b, c \in Block : WorseBy(seq, a, b) /\ WorseBy(seq, b, c) => WorseBy(seq, a, c)
<1>1. /\ \A a \in Block : nChainWork[a] \in Int /\ Address[a] \in Int /\ seq[a] \in Int
      /\ \A a, b \in Block : Address[a] = Address[b] => a = b
  BY TreeAssumption
<1> QED BY <1>1 DEF WorseBy

\* Two consequences: what is not worse than b is not worse than what is worse than b,
\* and an ancestor is worse.
LEMMA NotWorseThan ==
  ASSUME NEW seq \in [Block -> Int], NEW a \in Block, NEW b \in Block, NEW c \in Block,
         ~WorseBy(seq, a, b), WorseBy(seq, c, b) \/ c = b
  PROVE  ~WorseBy(seq, a, c)
BY WorseOrder

LEMMA AncestorIsWorse ==
  ASSUME NEW seq, NEW b \in Block, NEW a \in Ancestors[b]
  PROVE  a = b \/ WorseBy(seq, a, b)
BY AncestorWork DEF WorseBy

\* A finite nonempty set of blocks has a best one.
LEMMA BestExists ==
  ASSUME NEW seq \in [Block -> Int], NEW S \in SUBSET Block, S # {}
  PROVE  \E b \in S : \A c \in S \ {b} : WorseBy(seq, c, b)
<1> DEFINE better(b) == {c \in S : WorseBy(seq, b, c)}
           N == {Cardinality(better(b)) : b \in S}
<1>1. IsFiniteSet(S)
  BY TreeAssumption, FS_Subset
<1>2. \A b \in S : IsFiniteSet(better(b)) /\ Cardinality(better(b)) \in Nat
  BY <1>1, FS_Subset, FS_CardinalityType
<1>3. N \subseteq Nat /\ N # {}
  BY <1>2, Zenon
<1>4. PICK n \in N : \A m \in N : n <= m
  <2> HIDE DEF N
  <2> QED BY <1>3, LeastNat, Zenon
<1>5. PICK b \in S : n = Cardinality(better(b))
  BY <1>4
<1>6. ASSUME NEW c \in S \ {b}, ~WorseBy(seq, c, b)
      PROVE  FALSE
  <2>1. WorseBy(seq, b, c)
    BY <1>6, WorseOrder
  <2>2. better(c) \in SUBSET better(b) /\ c \in better(b) /\ c \notin better(c)
    BY <2>1, WorseOrder
  <2>3. Cardinality(better(c)) <= Cardinality(better(b))
    BY <1>2, <2>2, FS_Subset
  <2>4. Cardinality(better(c)) # Cardinality(better(b))
    BY <1>2, <2>2, FS_Subset
  <2>5. Cardinality(better(b)) <= Cardinality(better(c))
    BY <1>4, <1>5, Zenon
  <2>6. Cardinality(better(b)) \in Nat /\ Cardinality(better(c)) \in Nat
    BY <1>2
  <2> HIDE DEF better
  <2> QED BY <2>3, <2>4, <2>5, <2>6
<1> QED BY <1>6

-----------------------------------------------------------------------------
(* The inductive invariant.                                                *)

AbcType == [pc : {"idle", "released", "find", "decide", "connect"},
            pindexMostWork : Block \cup {Null}, starting_tip : Block \cup {Null},
            old_tip : Block \cup {Null}, connected : BOOLEAN]
InvType == [pc : {"idle", "loop"}, pindex : Block \cup {Null},
            to_mark_failed : Block \cup {Null}, was_in_chain : BOOLEAN,
            highpow : SUBSET Block]

Types ==
  /\ m_block_index \subseteq Block
  /\ failed \subseteq m_block_index
  /\ nSequenceId \in [Block -> Int]
  /\ nBlockSequenceId \in Nat
  /\ nBlockReverseSequenceId \in Int /\ nBlockReverseSequenceId < 0
  /\ nLastPreciousChainwork \in Nat
  /\ m_best_header \in m_block_index
  /\ tip \in linked
  /\ m_chainstate_mutex \in {"free", "abc", "inv"}
  /\ waiting \in BOOLEAN
  /\ abc \in AbcType
  /\ inv \in InvType
  /\ calls \in [precious : Nat, invalidate : Nat, reconsider : Nat]

\* The index and the linked blocks are closed under pprev; blocks with data passed
\* ContextualCheckBlock, and no block that waits for its parent is linked.
IndexInv ==
  /\ Genesis \in linked /\ linked \subseteq haveData /\ haveData \subseteq m_block_index
  /\ \A b \in m_block_index : Ancestors[b] \subseteq m_block_index
  /\ \A b \in linked : Ancestors[b] \subseteq linked
  /\ haveData \cap BadBlock = {}
  /\ m_blocks_unlinked \subseteq haveData \ linked
  /\ \A b \in Block \ linked : nSequenceId[b] <= SEQ_ID_INIT_FROM_DISK

\* Who is in ActivateBestChain or InvalidateBlock holds m_chainstate_mutex.
LockInv ==
  /\ abc.pc # "idle" <=> m_chainstate_mutex = "abc"
  /\ inv.pc # "idle" <=> m_chainstate_mutex = "inv"
  /\ calls.invalidate = 0 => inv.pc = "idle"

\* What InvalidateBlock is about to mark lies just above the tip.
LoopInv ==
  /\ inv.highpow \subseteq m_block_index
  /\ inv.pc = "loop" => /\ inv.pindex \in m_block_index \ {Genesis}
                        /\ inv.to_mark_failed \in m_block_index \ {Genesis}
                        /\ inv.was_in_chain => tip = pprev[inv.to_mark_failed]
                        /\ ~inv.was_in_chain => inv.to_mark_failed = inv.pindex

\* Whether InvalidateBlock is still to mark the descendants of the block it
\* disconnected last.
StillToMark(b) ==
  inv.pc = "loop" /\ inv.was_in_chain /\ inv.to_mark_failed \in Ancestors[b]

FailedInv ==
  \A b \in m_block_index :
    Ancestors[b] \cap failed # {} => b \in failed \/ StillToMark(b)

\* ActivateBestChain holds cs_main.
Locked == abc.pc \in {"find", "decide", "connect"}

MostWork == abc.pindexMostWork

\* The chain ActivateBestChain works towards stays valid while cs_main is released,
\* and leads up from the tip, or, just found, is not worse than it.
AbcInv ==
  /\ MostWork # Null => MostWork \in linked /\ (Ancestors[MostWork] \ Chain) \cap failed = {}
  /\ abc.pc = "idle" => MostWork = Null
  /\ abc.pc \in {"released", "find", "connect"} /\ MostWork # Null
       => tip \in Ancestors[MostWork]
  /\ abc.pc = "decide" /\ MostWork # Null => ~Worse(MostWork, tip)
  /\ abc.pc = "connect" => MostWork # Null /\ tip # MostWork

\* setBlockIndexCandidates has linked blocks only, and none worse than the tip.
CandInv ==
  \A b \in setBlockIndexCandidates : b \in linked /\ ~Worse(b, tip)

\* Until the first invalidateblock a block whose data is there waits for its parent
\* or is linked, and is linked exactly if it lacks no data.
UnlinkedInv ==
  calls.invalidate = 0 =>
    /\ m_blocks_unlinked = haveData \ linked
    /\ \A b \in m_block_index : Ancestors[b] \subseteq haveData => b \in linked

IInv == /\ Types /\ IndexInv /\ LockInv /\ LoopInv /\ FailedInv /\ ActiveChainValid
        /\ AbcInv /\ CandInv /\ UnlinkedInv

\* A step that puts the tip behind where it was in the order of the candidates: only
\* preciousblock for the tip itself may do it, when it starts to count from -1 again.
TipDemoted == nSequenceId[tip] < nSequenceId'[tip]

\* The blocks that are as good as s are candidates.
HasAsGoodAs(s) ==
  \A b \in linked \ failed : ~Worse(b, s) /\ ~Worse(b, tip) => b \in setBlockIndexCandidates

\* While cs_main is held: the tip the section started from cannot fail, and it or
\* better can be found again.
SectionInv ==
  Locked =>
    /\ abc.starting_tip \in linked
    /\ Ancestors[abc.starting_tip] \cap (failed \cup BadConnect) = {}
    /\ HasAsGoodAs(abc.starting_tip)
    /\ MostWork # Null => ~Worse(MostWork, abc.starting_tip)
    /\ abc.pc \in {"decide", "connect"} => MostWork # Null
    /\ abc.pc \in {"find", "decide"} => tip = abc.starting_tip \/ Worse(tip, abc.starting_tip)

\* What holds as long as no step demotes the tip.
CInv == (Quiet => HasAsGoodAs(tip)) /\ SectionInv

\* InvalidateBlock keeps the tip among the candidates while it disconnects blocks.
TipKept == inv.pc = "loop" => tip \in setBlockIndexCandidates

\* What the conjuncts of IInv say of single blocks.
LEMMA Basics ==
  ASSUME IInv
  PROVE  /\ tip \in Block /\ tip \in m_block_index /\ tip # Null
         /\ linked \subseteq Block /\ haveData \subseteq Block
         /\ Chain \subseteq Block /\ Chain \subseteq linked
         /\ Genesis \in m_block_index
         /\ setBlockIndexCandidates \subseteq linked
         /\ setBlockIndexCandidates \subseteq Block
         /\ MostWork # Null => MostWork \in Block
BY TreeAssumption DEF IInv, Types, IndexInv, ActiveChainValid, Chain, CandInv, AbcInv

\* RecalculateBestHeader chooses a block of the index.
LEMMA BestHeadersKnown ==
  ASSUME NEW index, NEW failing, NEW t \in index, NEW h \in BestHeaders(index, failing, t)
  PROVE  h \in index
BY DEF BestHeaders

-----------------------------------------------------------------------------
(* Headers and blocks arrive.                                              *)

\* UNCHANGED of these tuples says it of their variables.
USE DEF indexVars, sequenceVars, preciousVars

LEMMA BetterHeaderKnown ==
  ASSUME IInv, NEW b \in Block
  PROVE  BetterHeader(b) \in m_block_index \cup {b}
BY DEF IInv, Types, BetterHeader

\* AcceptBlockHeader is given a block whose parent is in the index; once it is there
\* the index is still closed under pprev, and failures are still inherited.
LEMMA AcceptableHeader ==
  ASSUME IInv, NEW b \in Block \ haveData, HeaderAcceptable(b)
  PROVE  /\ b # Genesis /\ pprev[b] \in m_block_index /\ b \notin failed /\ b \notin linked
         /\ \A c \in m_block_index \cup {b} : Ancestors[c] \subseteq m_block_index \cup {b}
         /\ \A c \in m_block_index \cup {b} :
              Ancestors[c] \cap failed # {} => c \in failed \/ StillToMark(c)
<1>1. b # Genesis /\ b \notin failed /\ b \notin linked
  BY DEF IInv, IndexInv, HeaderAcceptable
<1>2. pprev[b] \in Block /\ Ancestors[b] = {b} \cup Ancestors[pprev[b]]
  BY <1>1, OneBlock
<1>3. pprev[b] \in Ancestors[b]
  BY <1>2, OneBlock
<1>4. pprev[b] \in m_block_index
  BY <1>3 DEF IInv, IndexInv, HeaderAcceptable
<1>5. \A c \in m_block_index \cup {b} : Ancestors[c] \subseteq m_block_index \cup {b}
  BY <1>2, <1>4 DEF IInv, IndexInv
<1>6. ASSUME NEW c \in m_block_index \cup {b}, Ancestors[c] \cap failed # {}
      PROVE  c \in failed \/ StillToMark(c)
  <2>1. CASE c \in m_block_index
    BY <1>6, <2>1 DEF IInv, FailedInv
  <2>2. CASE c \notin m_block_index
    <3>1. c = b /\ pprev[b] \notin failed
      BY <1>6, <2>2 DEF HeaderAcceptable
    <3>2. Ancestors[pprev[b]] \cap failed # {}
      BY <1>1, <1>2, <1>6, <3>1
    <3>3. StillToMark(pprev[b])
      BY <1>4, <3>1, <3>2 DEF IInv, FailedInv
    <3> QED BY <1>2, <3>1, <3>3 DEF StillToMark
  <2> QED BY <2>1, <2>2
<1> QED BY <1>1, <1>4, <1>5, <1>6

LEMMA AcceptBlockHeaderPreserves ==
  ASSUME IInv, NEW b \in Block, AcceptBlockHeader(b)
  PROVE  IInv'
<1>1. b \in Block \ haveData /\ HeaderAcceptable(b)
  BY DEF AcceptBlockHeader, IInv, IndexInv
<1>2. Types'
  BY BetterHeaderKnown DEF IInv, Types, AcceptBlockHeader
<1>3. IndexInv'
  BY <1>1, AcceptableHeader DEF IInv, Types, IndexInv, AcceptBlockHeader
<1>4. LockInv' /\ LoopInv'
  BY DEF IInv, LockInv, LoopInv, AcceptBlockHeader
<1>5. FailedInv'
  BY <1>1, AcceptableHeader DEF FailedInv, StillToMark, AcceptBlockHeader
<1>6. ActiveChainValid' /\ AbcInv' /\ CandInv'
  BY DEF IInv, ActiveChainValid, AbcInv, CandInv, Chain, MostWork, Worse, AcceptBlockHeader
<1>7. UnlinkedInv'
  BY <1>1, OneBlock DEF IInv, UnlinkedInv, AcceptBlockHeader
<1> QED BY <1>2, <1>3, <1>4, <1>5, <1>6, <1>7 DEF IInv

\* ReceivedBlockTransactions links a set that is closed under pprev.
LEMMA NowLinkedClosed ==
  ASSUME IInv, NEW b \in Block \ linked, b # Genesis, pprev[b] \in linked
  PROVE  /\ b \in NowLinked(b) /\ NowLinked(b) \subseteq m_blocks_unlinked \cup {b}
         /\ NowLinked(b) \cap linked = {}
         /\ NowLinked(b) \subseteq Block /\ Cardinality(NowLinked(b)) \in Nat
         /\ \A c \in linked \cup NowLinked(b) : Ancestors[c] \subseteq linked \cup NowLinked(b)
<1>1. /\ b \in NowLinked(b) /\ NowLinked(b) \subseteq m_blocks_unlinked \cup {b}
      /\ NowLinked(b) \cap linked = {} /\ NowLinked(b) \subseteq Block
  BY DEF NowLinked, IInv, Types, IndexInv
<1>2. IsFiniteSet(NowLinked(b)) /\ Cardinality(NowLinked(b)) \in Nat
  BY <1>1, TreeAssumption, FS_Subset, FS_CardinalityType
<1>3. Ancestors[b] \subseteq linked \cup {b}
  BY OneBlock DEF IInv, IndexInv
<1>4. ASSUME NEW c \in NowLinked(b), c # b, NEW d \in Ancestors[c], d \notin Ancestors[b]
      PROVE  d \in NowLinked(b)
  <2>1. c \in Block /\ b \in Ancestors[c] /\ Ancestors[c] \ Ancestors[b] \subseteq m_blocks_unlinked
    BY <1>1, <1>4 DEF NowLinked
  <2>2. b \in Ancestors[d]
    BY <1>4, <2>1, AncestorsLinear
  <2>3. Ancestors[d] \subseteq Ancestors[c]
    BY <1>4, <2>1, AncestorTransitive
  <2> QED BY <1>4, <2>1, <2>2, <2>3 DEF NowLinked
<1>5. ASSUME NEW c \in linked \cup NowLinked(b)
      PROVE  Ancestors[c] \subseteq linked \cup NowLinked(b)
  BY <1>1, <1>3, <1>4 DEF IInv, IndexInv
<1> QED BY <1>1, <1>2, <1>5

\* Once the data of b is there, every block that lacks no data is linked.
LEMMA NowLinkedComplete ==
  ASSUME IInv, calls.invalidate = 0, NEW b \in Block \ haveData,
         NEW c \in m_block_index \cup {b}, Ancestors[c] \subseteq haveData \cup {b}
  PROVE  c \in linked \cup NowLinked(b)
<1>0. c \in Block /\ b \notin linked /\ m_blocks_unlinked = haveData \ linked
  BY DEF IInv, Types, IndexInv, UnlinkedInv
<1>1. CASE b \notin Ancestors[c]
  BY <1>0, <1>1, OneBlock DEF IInv, UnlinkedInv
<1>2. CASE b \in Ancestors[c]
  <2>1. ASSUME NEW d \in Ancestors[c] \ Ancestors[b]
        PROVE  d \in m_blocks_unlinked
    <3>1. d \in haveData
      BY <1>0, <2>1, OneBlock
    <3>2. b \in Ancestors[d]
      BY <1>0, <1>2, <2>1, AncestorsLinear
    <3> QED BY <1>0, <3>1, <3>2 DEF IInv, IndexInv
  <2>2. c = b \/ c \notin Ancestors[b]
    BY <1>0, <1>2, AncestorWork, OneBlock
  <2> QED BY <1>0, <1>2, <2>1, <2>2, OneBlock DEF NowLinked
<1> QED BY <1>1, <1>2

\* The case that the parent of the block is linked.
LEMMA LinkPreserves ==
  ASSUME IInv, NEW b \in Block, AcceptBlock(b), pprev[b] \in linked
  PROVE  Types' /\ IndexInv' /\ CandInv' /\ UnlinkedInv'
<1>1. b \in Block \ haveData /\ HeaderAcceptable(b) /\ b \notin BadBlock
  BY DEF AcceptBlock
<1>2. /\ b # Genesis /\ b \notin linked
      /\ \A c \in m_block_index \cup {b} : Ancestors[c] \subseteq m_block_index \cup {b}
  BY <1>1, AcceptableHeader
<1> DEFINE new == NowLinked(b)
<1>3. /\ b \in new /\ new \subseteq m_blocks_unlinked \cup {b} /\ new \cap linked = {}
      /\ new \subseteq Block /\ Cardinality(new) \in Nat
      /\ \A c \in linked \cup new : Ancestors[c] \subseteq linked \cup new
  BY <1>2, NowLinkedClosed
<1>4. /\ m_block_index' = m_block_index \cup {b} /\ haveData' = haveData \cup {b}
      /\ linked' = linked \cup new /\ m_blocks_unlinked' = m_blocks_unlinked \ new
      /\ nBlockSequenceId' = nBlockSequenceId + Cardinality(new)
      /\ setBlockIndexCandidates' = setBlockIndexCandidates
           \cup {c \in new : CandidateIfNotWorse(nSequenceId', c)}
      /\ tip' = tip /\ calls' = calls
  BY DEF AcceptBlock, ReceivedBlockTransactions
<1>5. PICK seq \in SequenceIds(new) :
        nSequenceId' = [c \in Block |-> IF c \in new THEN seq[c] ELSE nSequenceId[c]]
  BY DEF AcceptBlock, ReceivedBlockTransactions
<1>6. \A c \in new : seq[c] \in Int
  BY DEF SequenceIds, IInv, Types
<1>7. nSequenceId' \in [Block -> Int] /\ \A c \in Block \ new : nSequenceId'[c] = nSequenceId[c]
  <2> HIDE DEF new
  <2> QED BY <1>5, <1>6 DEF IInv, Types
<1> HIDE DEF new
<1>8. Types'
  BY <1>3, <1>4, <1>7, BetterHeaderKnown DEF IInv, Types, AcceptBlock
<1>9. IndexInv'
  <2>1. \A c \in Block \ linked' : nSequenceId'[c] <= SEQ_ID_INIT_FROM_DISK
    BY <1>4, <1>7 DEF IInv, IndexInv
  <2> QED BY <1>1, <1>2, <1>3, <1>4, <2>1 DEF IInv, IndexInv
<1>10. CandInv'
  <2> SUFFICES ASSUME NEW c \in setBlockIndexCandidates'
               PROVE  c \in linked' /\ ~WorseBy(nSequenceId', c, tip)
    BY <1>4 DEF CandInv, Worse
  <2>1. CASE c \in new
    <3>1. c \notin setBlockIndexCandidates
      BY <1>3, <2>1, Basics
    <3> QED BY <1>4, <2>1, <3>1 DEF CandidateIfNotWorse
  <2>2. CASE c \notin new
    <3>1. c \in setBlockIndexCandidates /\ c \in linked /\ ~WorseBy(nSequenceId, c, tip)
      BY <1>4, <2>2 DEF IInv, CandInv, Worse
    <3>2. nSequenceId'[c] = nSequenceId[c] /\ nSequenceId'[tip] = nSequenceId[tip]
      BY <1>3, <1>7, <3>1, Basics DEF IInv, Types
    <3> QED BY <1>4, <3>1, <3>2 DEF WorseBy
  <2> QED BY <2>1, <2>2
<1>11. UnlinkedInv'
  <2> SUFFICES ASSUME calls.invalidate = 0
               PROVE  /\ m_blocks_unlinked' = haveData' \ linked'
                      /\ \A c \in m_block_index' : Ancestors[c] \subseteq haveData' => c \in linked'
    BY <1>4 DEF UnlinkedInv
  <2>1. m_blocks_unlinked' = haveData' \ linked'
    BY <1>3, <1>4 DEF IInv, UnlinkedInv
  <2>2. \A c \in m_block_index' : Ancestors[c] \subseteq haveData' => c \in linked'
    BY <1>1, <1>4, NowLinkedComplete DEF new
  <2> QED BY <2>1, <2>2
<1> QED BY <1>8, <1>9, <1>10, <1>11

\* The case that it is not: the block waits in m_blocks_unlinked.
LEMMA WaitForParentPreserves ==
  ASSUME IInv, NEW b \in Block, AcceptBlock(b), pprev[b] \notin linked
  PROVE  Types' /\ IndexInv' /\ CandInv' /\ UnlinkedInv'
<1>1. b \in Block \ haveData /\ HeaderAcceptable(b) /\ b \notin BadBlock
  BY DEF AcceptBlock
<1>2. /\ b # Genesis /\ pprev[b] \in m_block_index /\ b \notin linked /\ b \notin failed
      /\ \A c \in m_block_index \cup {b} : Ancestors[c] \subseteq m_block_index \cup {b}
      /\ \A c \in m_block_index \cup {b} :
           Ancestors[c] \cap failed # {} => c \in failed \/ StillToMark(c)
  BY <1>1, AcceptableHeader
<1>3. /\ m_block_index' = m_block_index \cup {b} /\ haveData' = haveData \cup {b}
      /\ m_blocks_unlinked' = m_blocks_unlinked \cup (IF pprev[b] \in failed THEN {} ELSE {b})
      /\ UNCHANGED <<linked, nSequenceId, nBlockSequenceId, setBlockIndexCandidates,
                     tip, calls>>
  BY DEF AcceptBlock, ReceivedBlockTransactions
<1>4. Types'
  BY <1>3, BetterHeaderKnown DEF IInv, Types, AcceptBlock
<1>5. IndexInv'
  BY <1>1, <1>2, <1>3 DEF IInv, IndexInv
<1>6. CandInv'
  BY <1>3 DEF IInv, CandInv, Worse
<1>7. UnlinkedInv'
  <2> SUFFICES ASSUME calls.invalidate = 0
               PROVE  /\ m_blocks_unlinked' = haveData' \ linked'
                      /\ \A c \in m_block_index' : Ancestors[c] \subseteq haveData' => c \in linked'
    BY <1>3 DEF UnlinkedInv
  <2>1. pprev[b] \in Block /\ Ancestors[b] = {b} \cup Ancestors[pprev[b]]
        /\ pprev[b] \in Ancestors[b] /\ b \notin Ancestors[pprev[b]]
    BY <1>2, OneBlock
  <2>2. pprev[b] \notin failed
    BY <1>2, <2>1 DEF IInv, LockInv, StillToMark
  <2>3. m_blocks_unlinked' = haveData' \ linked'
    BY <1>2, <1>3, <2>2 DEF IInv, UnlinkedInv
  <2>4. ASSUME NEW c \in m_block_index \cup {b}, Ancestors[c] \subseteq haveData \cup {b}
        PROVE  c \in linked
    <3>1. b \notin Ancestors[c]
      <4> SUFFICES ASSUME b \in Ancestors[c] PROVE FALSE
        OBVIOUS
      <4>1. c \in Block
        BY DEF IInv, Types
      <4>2. Ancestors[pprev[b]] \subseteq haveData
        BY <2>1, <2>4, <4>1, AncestorTransitive
      <4> QED BY <1>2, <4>2 DEF IInv, UnlinkedInv
    <3>2. c \in linked \cup NowLinked(b)
      BY <1>1, <2>4, NowLinkedComplete
    <3> QED BY <2>1, <3>1, <3>2 DEF NowLinked
  <2> QED BY <1>3, <2>3, <2>4
<1> QED BY <1>4, <1>5, <1>6, <1>7

LEMMA AcceptBlockPreserves ==
  ASSUME IInv, NEW b \in Block, AcceptBlock(b)
  PROVE  IInv'
<1>1. b \in Block \ haveData /\ HeaderAcceptable(b)
  BY DEF AcceptBlock
<1>2. Types' /\ IndexInv' /\ CandInv' /\ UnlinkedInv'
  BY LinkPreserves, WaitForParentPreserves
<1>3. /\ m_block_index' = m_block_index \cup {b} /\ linked \subseteq linked'
      /\ UNCHANGED <<failed, tip, m_chainstate_mutex, abc, inv, calls>>
  BY DEF AcceptBlock, ReceivedBlockTransactions
<1>4. LockInv' /\ LoopInv'
  BY <1>3 DEF IInv, LockInv, LoopInv
<1>5. FailedInv'
  BY <1>1, <1>3, AcceptableHeader DEF FailedInv, StillToMark
<1>6. ActiveChainValid'
  BY <1>3 DEF IInv, ActiveChainValid, Chain
<1>7. AbcInv'
  BY <1>3 DEF IInv, AbcInv, Chain, MostWork, AcceptBlock, cs_main_free
<1> QED BY <1>2, <1>4, <1>5, <1>6, <1>7 DEF IInv

LEMMA RejectBlockPreserves ==
  ASSUME IInv, NEW b \in Block, RejectBlock(b)
  PROVE  IInv'
<1>1. b \in Block \ haveData /\ HeaderAcceptable(b)
  BY DEF RejectBlock
<1>2. /\ b # Genesis /\ b \notin linked
      /\ \A c \in m_block_index \cup {b} : Ancestors[c] \subseteq m_block_index \cup {b}
      /\ \A c \in m_block_index \cup {b} :
           Ancestors[c] \cap failed # {} => c \in failed \/ StillToMark(c)
  BY <1>1, AcceptableHeader
<1>3. /\ m_block_index' = m_block_index \cup {b}
      /\ failed' = failed \cup {b} \cup Descendants(b)
      /\ setBlockIndexCandidates' = setBlockIndexCandidates \ {b}
      /\ UNCHANGED <<haveData, linked, nSequenceId, m_blocks_unlinked, tip,
                     m_chainstate_mutex, abc, inv, calls>>
  BY DEF RejectBlock, InvalidChainFound
<1>4. \A c \in failed' \ failed : b \in Ancestors[c] /\ c \in m_block_index'
  BY <1>3, OneBlock DEF Descendants
<1>5. failed' \cap linked = failed \cap linked
  BY <1>2, <1>3, <1>4 DEF IInv, IndexInv
<1>6. Types'
  <2>1. BetterHeader(b) \in m_block_index'
    BY <1>3, BetterHeaderKnown
  <2>2. m_best_header' \in m_block_index'
    BY <1>3, <2>1, Basics, BestHeadersKnown DEF RejectBlock, InvalidChainFound
  <2>3. failed' \subseteq m_block_index'
    BY <1>3, <1>4 DEF IInv, Types
  <2> QED BY <1>3, <2>2, <2>3 DEF IInv, Types, RejectBlock
<1>7. IndexInv'
  BY <1>2, <1>3 DEF IInv, IndexInv
<1>8. LockInv' /\ LoopInv'
  BY <1>3 DEF IInv, LockInv, LoopInv
<1>9. FailedInv'
  <2> SUFFICES ASSUME NEW c \in m_block_index \cup {b}, NEW a \in Ancestors[c] \cap failed'
               PROVE  c \in failed' \/ StillToMark(c)
    BY <1>3 DEF FailedInv, StillToMark
  <2>1. CASE a \in failed
    BY <1>2, <1>3, <2>1
  <2>2. CASE a \notin failed
    <3>1. c \in Block /\ b \in Ancestors[a]
      BY <1>4, <2>2 DEF IInv, Types
    <3>2. b \in Ancestors[c]
      BY <3>1, AncestorTransitive
    <3> QED BY <1>3, <3>2 DEF Descendants
  <2> QED BY <2>1, <2>2
<1>10. ActiveChainValid'
  BY <1>3, <1>5 DEF IInv, ActiveChainValid, Chain
<1>11. AbcInv'
  <2>1. MostWork # Null => Ancestors[MostWork] \subseteq linked
    BY DEF IInv, AbcInv, IndexInv
  <2> QED BY <1>3, <1>5, <2>1 DEF IInv, AbcInv, Chain, MostWork, RejectBlock, cs_main_free
<1>12. CandInv'
  BY <1>3 DEF IInv, CandInv, Worse
<1>13. UnlinkedInv'
  BY <1>1, <1>3, OneBlock DEF IInv, UnlinkedInv
<1> QED BY <1>6, <1>7, <1>8, <1>9, <1>10, <1>11, <1>12, <1>13 DEF IInv

-----------------------------------------------------------------------------
(* ActivateBestChain.                                                      *)

LEMMA StartPreserves ==
  ASSUME IInv, StartActivateBestChain
  PROVE  IInv'
<1>1. abc' = [NoAbc EXCEPT !.pc = "released"] /\ inv.pc = "idle"
  BY DEF StartActivateBestChain, IInv, LockInv, Types, InvType
<1>2. Types'
  BY Zenon DEF IInv, Types, StartActivateBestChain, AbcType, NoAbc
<1>3. LockInv'
  BY DEF IInv, LockInv, StartActivateBestChain, NoAbc
<1>4. AbcInv'
  BY <1>1 DEF AbcInv, NoAbc, MostWork
<1>5. IndexInv' /\ LoopInv' /\ FailedInv' /\ ActiveChainValid' /\ CandInv' /\ UnlinkedInv'
  BY DEF IInv, IndexInv, LoopInv, FailedInv, StillToMark, ActiveChainValid, Chain, CandInv,
         Worse, UnlinkedInv, StartActivateBestChain
<1> QED BY <1>2, <1>3, <1>4, <1>5 DEF IInv

LEMMA LockForProgressPreserves ==
  ASSUME IInv, LockForProgress
  PROVE  IInv'
<1>1. abc' = [abc EXCEPT !.pc = "find", !.starting_tip = tip, !.connected = FALSE]
      /\ abc \in AbcType /\ abc.pc = "released"
  BY DEF LockForProgress, IInv, Types
<1>2. Types'
  BY <1>1, Basics, Zenon DEF IInv, Types, LockForProgress, AbcType
<1>3. LockInv'
  BY <1>1 DEF IInv, LockInv, LockForProgress, AbcType
<1>4. AbcInv'
  BY <1>1 DEF IInv, AbcInv, MostWork, AbcType, LockForProgress, Chain
<1>5. IndexInv' /\ LoopInv' /\ FailedInv' /\ ActiveChainValid' /\ CandInv' /\ UnlinkedInv'
  BY DEF IInv, IndexInv, LoopInv, FailedInv, StillToMark, ActiveChainValid, Chain, CandInv,
         Worse, UnlinkedInv, LockForProgress
<1> QED BY <1>2, <1>3, <1>4, <1>5 DEF IInv

LEMMA BestCandidateIsBest ==
  ASSUME IInv, setBlockIndexCandidates # {}
  PROVE  /\ BestCandidate \in setBlockIndexCandidates
         /\ \A c \in setBlockIndexCandidates \ {BestCandidate} : Worse(c, BestCandidate)
<1>1. \E b \in setBlockIndexCandidates :
        \A c \in setBlockIndexCandidates \ {b} : WorseBy(nSequenceId, c, b)
  BY Basics, BestExists DEF IInv, Types
<1> QED BY <1>1 DEF BestCandidate, Worse

LEMMA FindMostWorkChainPreserves ==
  ASSUME IInv, FindMostWorkChain
  PROVE  IInv'
<1>1. abc.pc = "find" /\ abc \in AbcType /\ setBlockIndexCandidates' \subseteq setBlockIndexCandidates
  BY DEF FindMostWorkChain, IInv, Types
<1>2. \/ /\ MostWork # Null \/ setBlockIndexCandidates = {}
         /\ abc' = [abc EXCEPT !.pc = "decide"]
      \/ /\ setBlockIndexCandidates # {}
         /\ (Ancestors[BestCandidate] \ Chain) \cap failed = {}
         /\ abc' = [abc EXCEPT !.pc = "decide", !.pindexMostWork = BestCandidate]
      \/ abc' = abc
  BY DEF FindMostWorkChain, MostWork
<1>3. setBlockIndexCandidates # {} => /\ BestCandidate \in linked /\ BestCandidate \in Block
                                      /\ ~Worse(BestCandidate, tip)
  BY BestCandidateIsBest, Basics, Zenon DEF IInv, CandInv
<1>4. abc' \in AbcType /\ abc'.pc \in {"find", "decide"}
  BY <1>1, <1>2, <1>3, Zenon DEF AbcType
<1>5. Types'
  BY <1>4, Zenon DEF IInv, Types, FindMostWorkChain
<1>6. LockInv'
  BY <1>1, <1>4, Zenon DEF IInv, LockInv, FindMostWorkChain
<1>7. AbcInv'
  <2>1. UNCHANGED <<linked, failed, tip, nSequenceId>>
    BY Zenon DEF FindMostWorkChain
  <2>2. CASE abc' = abc
    BY <2>1, <2>2, Zenon DEF IInv, AbcInv, MostWork, Chain, Worse
  <2>3. CASE /\ MostWork # Null \/ setBlockIndexCandidates = {}
             /\ abc' = [abc EXCEPT !.pc = "decide"]
    <3>1. abc'.pc = "decide" /\ MostWork' = MostWork
      BY <1>1, <2>3, Zenon DEF AbcType, MostWork
    <3>2. MostWork # Null => ~Worse(MostWork, tip)
      <4> SUFFICES ASSUME MostWork # Null PROVE ~Worse(MostWork, tip)
        BY Zenon
      <4>1. tip \in Ancestors[MostWork] /\ MostWork \in Block /\ tip \in Block
        BY <1>1, Basics, Zenon DEF IInv, AbcInv
      <4> QED BY <4>1, AncestorIsWorse, WorseOrder, Zenon DEF Worse, IInv, Types
    <3> QED BY <2>1, <3>1, <3>2, Zenon DEF IInv, AbcInv, Chain, Worse
  <2>4. CASE /\ setBlockIndexCandidates # {}
             /\ (Ancestors[BestCandidate] \ Chain) \cap failed = {}
             /\ abc' = [abc EXCEPT !.pc = "decide", !.pindexMostWork = BestCandidate]
    <3>1. abc'.pc = "decide" /\ MostWork' = BestCandidate
      BY <1>1, <2>4, Zenon DEF AbcType, MostWork
    <3> QED BY <1>3, <2>1, <2>4, <3>1, Zenon DEF AbcInv, Chain, Worse
  <2> QED BY <1>2, <2>2, <2>3, <2>4, Zenon
<1>8. CandInv'
  BY <1>1, Zenon DEF IInv, CandInv, Worse, FindMostWorkChain
<1>9. IndexInv' /\ LoopInv' /\ FailedInv' /\ ActiveChainValid' /\ UnlinkedInv'
  BY Zenon DEF IInv, IndexInv, LoopInv, FailedInv, StillToMark, ActiveChainValid, Chain,
         UnlinkedInv, FindMostWorkChain
<1> QED BY <1>5, <1>6, <1>7, <1>8, <1>9, Zenon DEF IInv

LEMMA NothingToDoPreserves ==
  ASSUME IInv, NothingToDo
  PROVE  IInv'
<1>1. abc.pc = "decide" /\ m_chainstate_mutex = "abc"
  BY Zenon DEF NothingToDo, IInv, LockInv
<1>2. \/ abc' = NoAbc /\ m_chainstate_mutex' = "free"
      \/ abc' = [NoAbc EXCEPT !.pc = "released"] /\ m_chainstate_mutex' = m_chainstate_mutex
  BY Zenon DEF NothingToDo, NoAbc
<1>3. Types'
  BY <1>2, Zenon DEF IInv, Types, NothingToDo, AbcType, NoAbc
<1>4. LockInv'
  BY <1>1, <1>2, Zenon DEF IInv, LockInv, NothingToDo, NoAbc
<1>5. AbcInv'
  BY <1>2 DEF AbcInv, NoAbc, MostWork
<1>6. IndexInv' /\ LoopInv' /\ FailedInv' /\ ActiveChainValid' /\ CandInv' /\ UnlinkedInv'
  BY Zenon DEF IInv, IndexInv, LoopInv, FailedInv, StillToMark, ActiveChainValid, Chain, CandInv,
         Worse, UnlinkedInv, NothingToDo
<1> QED BY <1>3, <1>4, <1>5, <1>6 DEF IInv

\* DisconnectToFork leaves a tip on the way to pindexMostWork, and below it.
LEMMA ForkFacts ==
  ASSUME IInv, DisconnectToFork
  PROVE  /\ tip' \in Chain /\ tip' \in Ancestors[MostWork] /\ tip' # MostWork
         /\ tip' \in Block /\ MostWork \in Block /\ MostWork # Null
         /\ Ancestors[tip'] = Chain \cap Ancestors[MostWork]
         /\ abc' = [abc EXCEPT !.pc = "connect", !.old_tip = tip]
<1>1. /\ tip' \in Chain /\ tip' \in Ancestors[MostWork]
      /\ Ancestors[tip'] = Chain \cap Ancestors[MostWork]
      /\ MostWork # Null /\ MostWork # tip /\ abc.pc = "decide"
      /\ abc' = [abc EXCEPT !.pc = "connect", !.old_tip = tip]
  BY Zenon DEF DisconnectToFork, MostWork
<1>2. MostWork \in Block /\ tip \in Block /\ tip' \in Block
  BY <1>1, Basics, Zenon
<1>3. ~Worse(MostWork, tip)
  BY <1>1, Zenon DEF IInv, AbcInv
<1>4. tip' # MostWork
  BY <1>1, <1>2, <1>3, AncestorIsWorse, Zenon DEF Worse, Chain
<1> QED BY <1>1, <1>2, <1>4, Zenon

\* A candidate is not worse than an ancestor of the tip either.
LEMMA NotWorseThanFork ==
  ASSUME IInv, NEW b \in Block, NEW c \in Chain, ~Worse(b, tip)
  PROVE  ~Worse(b, c)
<1>1. c \in Block /\ tip \in Block /\ (c = tip \/ WorseBy(nSequenceId, c, tip))
  BY Basics, AncestorIsWorse, Zenon DEF Chain
<1> QED BY <1>1, NotWorseThan, Zenon DEF Worse, IInv, Types

LEMMA DisconnectToForkPreserves ==
  ASSUME IInv, DisconnectToFork
  PROVE  IInv'
<1>1. /\ tip' \in Chain /\ tip' \in Ancestors[MostWork] /\ tip' # MostWork
      /\ tip' \in Block /\ MostWork \in Block /\ MostWork # Null
      /\ Ancestors[tip'] = Chain \cap Ancestors[MostWork]
      /\ abc' = [abc EXCEPT !.pc = "connect", !.old_tip = tip]
  BY ForkFacts, Zenon
<1>2. /\ abc \in AbcType /\ abc.pc = "decide"
      /\ UNCHANGED <<linked, failed, nSequenceId, setBlockIndexCandidates, inv>>
  BY Zenon DEF IInv, Types, DisconnectToFork
<1>3. abc' \in AbcType /\ abc'.pc = "connect" /\ MostWork' = MostWork
  BY <1>1, <1>2, Basics, Zenon DEF AbcType, MostWork
<1>4. Types'
  BY <1>1, <1>3, Basics, Zenon DEF IInv, Types, DisconnectToFork
<1>5. LockInv' /\ LoopInv'
  BY <1>2, <1>3, Zenon DEF IInv, LockInv, LoopInv, DisconnectToFork, Types, InvType
<1>6. ActiveChainValid'
  BY <1>1, <1>2, Zenon DEF IInv, ActiveChainValid, Chain
<1>7. AbcInv'
  BY <1>1, <1>2, <1>3, Zenon DEF IInv, AbcInv, Chain
<1>8. CandInv'
  BY <1>1, <1>2, NotWorseThanFork, Basics, Zenon DEF IInv, CandInv, Worse
<1>9. IndexInv' /\ FailedInv' /\ UnlinkedInv'
  BY Zenon DEF IInv, IndexInv, FailedInv, StillToMark, UnlinkedInv, DisconnectToFork
<1> QED BY <1>4, <1>5, <1>6, <1>7, <1>8, <1>9, Zenon DEF IInv

\* The block to connect is the child of the tip on the way to pindexMostWork.
LEMMA ToConnectFacts ==
  ASSUME IInv, abc.pc = "connect"
  PROVE  /\ MostWork \in Block /\ MostWork # Null
         /\ ToConnect \in Block \ {Genesis} /\ ToConnect \in Ancestors[MostWork] \ Chain
         /\ ToConnect \in linked \ failed /\ pprev[ToConnect] = tip
         /\ Ancestors[ToConnect] = {ToConnect} \cup Chain
         /\ Worse(tip, ToConnect)
<1>1. /\ MostWork # Null /\ MostWork \in Block /\ tip \in Ancestors[MostWork] /\ tip # MostWork
      /\ MostWork \in linked /\ (Ancestors[MostWork] \ Chain) \cap failed = {}
  BY Basics, Zenon DEF IInv, AbcInv
<1>2. \E c \in Ancestors[MostWork] \ Chain : pprev[c] = tip
  BY <1>1, ChildOnPath DEF Chain
<1>3. ToConnect \in Ancestors[MostWork] \ Chain /\ pprev[ToConnect] = tip
  BY <1>2, Zenon DEF ToConnect, MostWork
<1>4. ToConnect \in Block /\ ToConnect # Genesis
  BY <1>1, <1>3, OneBlock, GenesisIsAncestor, Basics DEF Chain
<1>5. ToConnect \in linked \ failed
  BY <1>1, <1>3, Zenon DEF IInv, IndexInv
<1>6. Ancestors[ToConnect] = {ToConnect} \cup Chain /\ nChainWork[tip] < nChainWork[ToConnect]
  BY <1>3, <1>4, OneBlock, Zenon DEF Chain
<1> QED BY <1>1, <1>3, <1>4, <1>5, <1>6, Zenon DEF Worse, WorseBy

\* AfterStep leaves ActivateBestChain looking again, released, or done.
LEMMA AfterStepCases ==
  ASSUME IInv, Locked, NEW t \in Block, NEW m \in Block \cup {Null}, AfterStep(t, m)
  PROVE  /\ abc' \in AbcType
         /\ m_chainstate_mutex' \in {"free", "abc"}
         /\ abc'.pc \in {"idle", "released", "find"}
         /\ abc'.pc = "idle" <=> m_chainstate_mutex' = "free"
         /\ abc'.pc = "idle" => abc'.pindexMostWork = Null
         /\ abc'.pc # "idle" => abc'.pindexMostWork = m
         /\ abc'.pc = "find" <=> Worse(t, abc.starting_tip)
         /\ abc'.pc = "find" => abc'.starting_tip = abc.starting_tip
<1>1. m_chainstate_mutex = "abc" /\ abc \in AbcType
  BY Zenon DEF IInv, Types, LockInv, Locked
<1>2. CASE Worse(t, abc.starting_tip)
  BY <1>1, <1>2, Zenon DEF AfterStep, AbcType
<1>3. CASE ~Worse(t, abc.starting_tip) /\ t = m
  BY <1>1, <1>3, Zenon DEF AfterStep, AbcType, NoAbc
<1>4. CASE ~Worse(t, abc.starting_tip) /\ t # m
  BY <1>1, <1>4, Zenon DEF AfterStep, AbcType, NoAbc
<1> QED BY <1>2, <1>3, <1>4, Zenon

\* Where ConnectTip leaves ActivateBestChain.
LEMMA ConnectTipCases ==
  ASSUME IInv, ConnectTip
  PROVE  \/ AfterStep(ToConnect, MostWork)
         \/ abc' = abc /\ m_chainstate_mutex' = m_chainstate_mutex /\ ToConnect # MostWork
BY Zenon DEF ConnectTip, MostWork

LEMMA ConnectTipPreserves ==
  ASSUME IInv, ConnectTip
  PROVE  IInv'
<1>1. /\ abc.pc = "connect" /\ Locked /\ abc \in AbcType /\ m_chainstate_mutex = "abc"
      /\ inv.pc = "idle"
      /\ tip' = ToConnect /\ ToConnect \notin BadConnect
      /\ setBlockIndexCandidates' = {b \in setBlockIndexCandidates : ~Worse(b, ToConnect)}
      /\ UNCHANGED <<m_block_index, haveData, linked, failed, nSequenceId, inv, calls>>
  BY Zenon DEF ConnectTip, Locked, Pruned, IInv, Types, LockInv, InvType
<1>2. /\ MostWork \in Block /\ MostWork # Null
      /\ ToConnect \in Block \ {Genesis} /\ ToConnect \in Ancestors[MostWork] \ Chain
      /\ ToConnect \in linked \ failed
      /\ Ancestors[ToConnect] = {ToConnect} \cup Chain
  BY <1>1, ToConnectFacts, Zenon
<1>3. ASSUME AfterStep(ToConnect, MostWork)
      PROVE  LockInv' /\ AbcInv' /\ abc' \in AbcType /\ m_chainstate_mutex' \in {"free", "abc", "inv"}
  <2>1. /\ abc' \in AbcType /\ m_chainstate_mutex' \in {"free", "abc"}
        /\ abc'.pc \in {"idle", "released", "find"}
        /\ abc'.pc = "idle" <=> m_chainstate_mutex' = "free"
        /\ abc'.pc = "idle" => abc'.pindexMostWork = Null
        /\ abc'.pc # "idle" => abc'.pindexMostWork = MostWork
    BY <1>1, <1>2, <1>3, AfterStepCases, Zenon
  <2>2. LockInv' /\ abc' \in AbcType /\ m_chainstate_mutex' \in {"free", "abc", "inv"}
    BY <1>1, <2>1, Zenon DEF IInv, LockInv
  <2>3. AbcInv'
    BY <1>1, <1>2, <2>1, Zenon DEF IInv, AbcInv, Chain, MostWork
  <2> QED BY <2>2, <2>3, Zenon
<1>4. ASSUME abc' = abc, m_chainstate_mutex' = m_chainstate_mutex, ToConnect # MostWork
      PROVE  LockInv' /\ AbcInv' /\ abc' \in AbcType /\ m_chainstate_mutex' \in {"free", "abc", "inv"}
  <2>1. LockInv' /\ abc' \in AbcType /\ m_chainstate_mutex' \in {"free", "abc", "inv"}
    BY <1>1, <1>4, Zenon DEF IInv, LockInv
  <2>2. AbcInv'
    BY <1>1, <1>2, <1>4, Zenon DEF IInv, AbcInv, Chain, MostWork
  <2> QED BY <2>1, <2>2
<1>5. LockInv' /\ AbcInv' /\ abc' \in AbcType /\ m_chainstate_mutex' \in {"free", "abc", "inv"}
  BY <1>3, <1>4, ConnectTipCases, Zenon
<1>6. Types'
  BY <1>1, <1>2, <1>5, Zenon DEF IInv, Types, ConnectTip
<1>7. LoopInv'
  BY <1>1, Zenon DEF IInv, LoopInv
<1>8. ActiveChainValid'
  <2>1. ToConnect \notin BadBlock
    BY <1>2, Zenon DEF IInv, IndexInv
  <2> QED BY <1>1, <1>2, <2>1, Zenon DEF IInv, ActiveChainValid, Chain
<1>9. CandInv'
  BY <1>1, Zenon DEF IInv, CandInv, Worse
<1>10. IndexInv' /\ FailedInv' /\ UnlinkedInv'
  BY Zenon DEF IInv, IndexInv, FailedInv, StillToMark, UnlinkedInv, ConnectTip
<1> QED BY <1>5, <1>6, <1>7, <1>8, <1>9, <1>10, Zenon DEF IInv

\* InvalidChainFound for a block that lies above the active chain: failures stay
\* inherited, and no block at or below the tip fails.
LEMMA ChainFailedInherited ==
  ASSUME IInv, NEW b \in m_block_index, inv.pc = "idle",
         NEW c \in m_block_index, NEW a \in Ancestors[c],
         a \in failed \cup {b} \cup Descendants(b)
  PROVE  c \in failed \cup {b} \cup Descendants(b)
<1>1. b \in Block /\ c \in Block
  BY Zenon DEF IInv, Types
<1>2. CASE a \in failed
  BY <1>2, Zenon DEF IInv, FailedInv, StillToMark
<1>3. CASE a \notin failed
  <2>1. b \in Ancestors[a]
    BY <1>1, <1>3, OneBlock, Zenon DEF Descendants
  <2>2. b \in Ancestors[c]
    BY <1>1, <2>1, AncestorTransitive, Zenon
  <2> QED BY <2>2, Zenon DEF Descendants
<1> QED BY <1>2, <1>3, Zenon

LEMMA ConnectTipFailsPreserves ==
  ASSUME IInv, ConnectTipFails
  PROVE  IInv'
<1>1. /\ abc.pc = "connect" /\ Locked /\ abc \in AbcType /\ m_chainstate_mutex = "abc"
      /\ inv.pc = "idle" /\ tip # Null /\ tip \in Block
  BY Basics, Zenon DEF ConnectTipFails, Locked, IInv, Types, LockInv, InvType
<1>2. /\ ToConnect \in Block \ {Genesis} /\ ToConnect \notin Chain
      /\ ToConnect \in m_block_index
  BY <1>1, ToConnectFacts, Zenon DEF IInv, IndexInv
<1>3. /\ failed' = failed \cup {ToConnect} \cup Descendants(ToConnect)
      /\ setBlockIndexCandidates' = setBlockIndexCandidates \ {ToConnect}
      /\ UNCHANGED <<m_block_index, haveData, linked, nSequenceId, m_blocks_unlinked, tip,
                     inv, calls>>
  BY Zenon DEF ConnectTipFails, InvalidChainFound
<1>4. /\ abc' \in AbcType /\ m_chainstate_mutex' \in {"free", "abc"}
      /\ abc'.pc \in {"idle", "released", "find"}
      /\ abc'.pc = "idle" <=> m_chainstate_mutex' = "free"
      /\ abc'.pindexMostWork = Null
  BY <1>1, AfterStepCases, Zenon DEF ConnectTipFails
<1>5. Types'
  <2>1. m_best_header' \in m_block_index
    BY Basics, BestHeadersKnown, Zenon DEF ConnectTipFails, InvalidChainFound, IInv, Types
  <2>2. failed' \subseteq m_block_index
    BY <1>2, <1>3, Zenon DEF Descendants, IInv, Types
  <2> QED BY <1>3, <1>4, <2>1, <2>2, Zenon DEF IInv, Types, ConnectTipFails
<1>6. LockInv'
  BY <1>1, <1>3, <1>4, Zenon DEF IInv, LockInv
<1>7. LoopInv'
  BY <1>1, <1>3, Zenon DEF IInv, LoopInv
<1>8. FailedInv'
  BY <1>1, <1>2, <1>3, ChainFailedInherited, Zenon DEF FailedInv
<1>9. ActiveChainValid'
  <2>1. \A c \in Chain : c \notin Descendants(ToConnect)
    BY <1>1, <1>2, AncestorTransitive, Zenon DEF Descendants, Chain
  <2> QED BY <1>2, <1>3, <2>1, Zenon DEF IInv, ActiveChainValid, Chain
<1>10. AbcInv'
  BY <1>4, Zenon DEF AbcInv, MostWork
<1>11. IndexInv' /\ CandInv' /\ UnlinkedInv'
  BY <1>3, Zenon DEF IInv, IndexInv, CandInv, Worse, UnlinkedInv
<1> QED BY <1>5, <1>6, <1>7, <1>8, <1>9, <1>10, <1>11, Zenon DEF IInv

-----------------------------------------------------------------------------
(* preciousblock, invalidateblock, reconsiderblock.                        *)

LEMMA PreciousBlockPreserves ==
  ASSUME IInv, NEW b \in Block, PreciousBlock(b)
  PROVE  IInv'
<1> DEFINE reverseId == IF nChainWork[tip] > nLastPreciousChainwork
                          THEN -1 ELSE nBlockReverseSequenceId
<1>1. reverseId \in Int /\ reverseId < 0
  BY DEF IInv, Types
<1>2. /\ nSequenceId' = [nSequenceId EXCEPT ![b] = reverseId]
      /\ nBlockReverseSequenceId' = reverseId - 1
      /\ nLastPreciousChainwork' = nChainWork[tip]
      /\ calls' = [calls EXCEPT !.precious = @ + 1]
      /\ UNCHANGED <<m_block_index, haveData, linked, failed, m_blocks_unlinked, tip,
                     m_chainstate_mutex, abc, inv>>
  BY Zenon DEF PreciousBlock
<1> HIDE DEF reverseId
<1>3. Types'
  <2>1. nLastPreciousChainwork' \in Nat
    BY <1>2, Basics, OneBlock, Zenon
  <2>2. nSequenceId' \in [Block -> Int]
    BY <1>1, <1>2, Zenon DEF IInv, Types
  <2>3. calls' \in [precious : Nat, invalidate : Nat, reconsider : Nat]
    BY <1>2 DEF IInv, Types
  <2> QED BY <1>1, <1>2, <2>1, <2>2, <2>3 DEF IInv, Types, PreciousBlock
<1>4. IndexInv'
  <2>1. \A c \in Block \ linked : nSequenceId'[c] <= SEQ_ID_INIT_FROM_DISK
    BY <1>1, <1>2 DEF IInv, Types, IndexInv, SEQ_ID_INIT_FROM_DISK
  <2> QED BY <1>2, <2>1, Zenon DEF IInv, IndexInv
<1>5. calls'.invalidate = calls.invalidate
  BY <1>2, Zenon DEF IInv, Types
<1>6. LockInv' /\ LoopInv' /\ FailedInv' /\ ActiveChainValid' /\ UnlinkedInv'
  BY <1>2, <1>5, Zenon DEF IInv, LockInv, LoopInv, FailedInv, StillToMark, ActiveChainValid, Chain,
                    UnlinkedInv
<1>7. AbcInv'
  BY <1>2, Zenon DEF IInv, AbcInv, Chain, MostWork, PreciousBlock, cs_main_free
<1>8. CandInv'
  <2>1. CASE Usable(b)
    <3>1. setBlockIndexCandidates' =
            {c \in setBlockIndexCandidates \cup {b} : ~WorseBy(nSequenceId', c, tip)}
      BY <2>1, Zenon DEF PreciousBlock
    <3> QED BY <1>2, <2>1, <3>1, Basics, Zenon DEF CandInv, Worse, Usable
  <2>2. CASE ~Usable(b)
    <3>1. setBlockIndexCandidates' = setBlockIndexCandidates \ {b} /\ b # tip
      BY <2>2, OneBlock, Basics, Zenon DEF PreciousBlock, Usable, IInv, ActiveChainValid, Chain
    <3>2. \A c \in Block \ {b} : nSequenceId'[c] = nSequenceId[c]
      BY <1>2, Zenon DEF IInv, Types
    <3>3. ASSUME NEW c \in setBlockIndexCandidates'
          PROVE  c \in linked /\ ~WorseBy(nSequenceId', c, tip)
      <4>1. c \in Block \ {b} /\ c \in linked /\ ~WorseBy(nSequenceId, c, tip)
        BY <3>1, <3>3, Basics, Zenon DEF IInv, CandInv, Worse
      <4>2. nSequenceId'[c] = nSequenceId[c] /\ nSequenceId'[tip] = nSequenceId[tip]
        BY <3>1, <3>2, <4>1, Basics, Zenon
      <4> QED BY <4>1, <4>2, Zenon DEF WorseBy
    <3> QED BY <1>2, <3>3, Zenon DEF CandInv, Worse
  <2> QED BY <2>1, <2>2, Zenon
<1> QED BY <1>3, <1>4, <1>6, <1>7, <1>8, Zenon DEF IInv

LEMMA InvalidateBlockPreserves ==
  ASSUME IInv, NEW b \in Block, InvalidateBlock(b)
  PROVE  IInv'
<1>1. /\ b \in m_block_index \ {Genesis} /\ m_chainstate_mutex = "free"
      /\ abc.pc = "idle" /\ inv.pc = "idle"
      /\ calls' = [calls EXCEPT !.invalidate = @ + 1] /\ m_chainstate_mutex' = "inv"
      /\ UNCHANGED <<m_block_index, haveData, linked, failed, nSequenceId, m_blocks_unlinked,
                     setBlockIndexCandidates, tip, abc>>
  BY Zenon DEF InvalidateBlock, CanLockChainstate, IInv, LockInv
<1>2. /\ inv' \in InvType /\ inv'.pc = "loop" /\ inv'.pindex = b /\ inv'.to_mark_failed = b
      /\ inv'.was_in_chain = FALSE /\ inv'.highpow \subseteq m_block_index
  BY Zenon DEF InvalidateBlock, InvType, IInv, Types
<1>3. calls' \in [precious : Nat, invalidate : Nat, reconsider : Nat] /\ calls'.invalidate # 0
  BY <1>1 DEF IInv, Types
<1>4. Types'
  BY <1>1, <1>2, <1>3, Zenon DEF IInv, Types, InvalidateBlock
<1>5. LockInv'
  BY <1>1, <1>2, <1>3, Zenon DEF LockInv
<1>6. LoopInv'
  BY <1>1, <1>2, Zenon DEF LoopInv
<1>7. FailedInv'
  BY <1>1, <1>2, Zenon DEF IInv, FailedInv, StillToMark
<1>8. IndexInv' /\ ActiveChainValid' /\ AbcInv' /\ CandInv' /\ UnlinkedInv'
  BY <1>1, <1>3, Zenon DEF IInv, IndexInv, ActiveChainValid, AbcInv, Chain, MostWork, CandInv, Worse,
                    UnlinkedInv
<1> QED BY <1>4, <1>5, <1>6, <1>7, <1>8, Zenon DEF IInv

\* While InvalidateBlock works ActivateBestChain does not.
LEMMA InvalidateAlone ==
  ASSUME IInv, inv.pc = "loop"
  PROVE  /\ abc.pc = "idle" /\ MostWork = Null /\ calls.invalidate # 0
         /\ m_chainstate_mutex = "inv" /\ inv \in InvType
BY Zenon DEF IInv, LockInv, AbcInv, Types

LEMMA InvalidateTipPreserves ==
  ASSUME IInv, InvalidateTip
  PROVE  IInv'
<1> DEFINE new_tip == pprev[tip]
           above == {c \in inv.highpow : nChainWork[c] >= nChainWork[new_tip]}
           marked == {c \in above : tip \in Ancestors[c]}
           best == (above \ marked) \cup {new_tip}
<1>1. /\ inv.pc = "loop" /\ inv.pindex \in Chain /\ inv.pindex # Genesis
      /\ inv.highpow \subseteq m_block_index /\ inv \in InvType
      /\ abc.pc = "idle" /\ MostWork = Null /\ calls.invalidate # 0
      /\ m_chainstate_mutex = "inv"
  BY InvalidateAlone, Zenon DEF InvalidateTip, IInv, LoopInv
<1>2. tip \in Block \ {Genesis} /\ tip \in m_block_index
  BY <1>1, Basics, OneBlock DEF Chain
<1>3. /\ new_tip \in Block /\ Chain = {tip} \cup Ancestors[new_tip]
      /\ new_tip \in Chain /\ tip \notin Ancestors[new_tip]
  BY <1>2, OneBlock DEF Chain
<1>4. /\ tip' = new_tip /\ failed' = failed \cup {tip} \cup marked
      /\ setBlockIndexCandidates' = (setBlockIndexCandidates \ {tip}) \cup {new_tip}
           \cup {c \in above \ marked : c \in linked \ failed /\ ~Worse(c, new_tip)}
      /\ inv' = [inv EXCEPT !.was_in_chain = TRUE, !.to_mark_failed = tip,
                            !.highpow = @ \ marked]
      /\ UNCHANGED <<m_block_index, haveData, linked, nSequenceId, m_blocks_unlinked,
                     m_chainstate_mutex, abc, calls>>
  BY Zenon DEF InvalidateTip
<1>5. m_best_header' \in {m_best_header} \cup best
  BY Zenon DEF InvalidateTip
<1>6. new_tip \in linked /\ new_tip \in m_block_index /\ best \subseteq m_block_index
  BY <1>1, <1>3, Basics, Zenon DEF IInv, IndexInv
<1>7. /\ inv' \in InvType /\ inv'.pc = "loop" /\ inv'.was_in_chain = TRUE
      /\ inv'.to_mark_failed = tip /\ inv'.pindex = inv.pindex
      /\ inv'.highpow \subseteq m_block_index
  BY <1>1, <1>2, <1>4, Zenon DEF InvType
<1>8. marked \subseteq m_block_index /\ \A c \in marked : tip \in Ancestors[c]
  BY <1>1, Zenon
<1>9. CandInv'
  <2> SUFFICES ASSUME NEW c \in setBlockIndexCandidates'
               PROVE  c \in linked /\ ~Worse(c, new_tip)
    BY <1>4, Zenon DEF CandInv, Worse
  <2>1. CASE c \in setBlockIndexCandidates
    BY <1>3, <2>1, Basics, NotWorseThanFork, Zenon DEF IInv, CandInv
  <2>2. CASE c = new_tip
    BY <1>3, <1>6, <2>2, WorseOrder, Zenon DEF IInv, Types, Worse
  <2> QED BY <1>4, <2>1, <2>2, Zenon
<1> HIDE DEF new_tip, above, marked, best
<1>10. Types'
  BY <1>2, <1>4, <1>5, <1>6, <1>7, <1>8 DEF IInv, Types, InvalidateTip
<1>11. LockInv'
  BY <1>1, <1>4, <1>7, Zenon DEF IInv, LockInv
<1>12. LoopInv'
  BY <1>2, <1>4, <1>7 DEF IInv, LoopInv, new_tip
<1>13. FailedInv'
  <2> SUFFICES ASSUME NEW c \in m_block_index, NEW a \in Ancestors[c], a \in failed'
               PROVE  c \in failed' \/ tip \in Ancestors[c]
    BY <1>4, <1>7, Zenon DEF FailedInv, StillToMark
  <2>0. c \in Block /\ a \in Block
    BY OneBlock, Zenon DEF IInv, Types
  <2>1. CASE a \in failed
    <3>1. CASE c \in failed
      BY <1>4, <3>1, Zenon
    <3>2. CASE StillToMark(c)
      <4>1. /\ inv.to_mark_failed \in Ancestors[c] /\ tip = pprev[inv.to_mark_failed]
            /\ inv.to_mark_failed \in Block \ {Genesis}
        BY <3>2, Zenon DEF StillToMark, IInv, LoopInv, Types
      <4>2. tip \in Ancestors[inv.to_mark_failed]
        BY <4>1, OneBlock
      <4> QED BY <2>0, <4>1, <4>2, AncestorTransitive, Zenon
    <3> QED BY <2>1, <3>1, <3>2, Zenon DEF IInv, FailedInv
  <2>2. CASE a \notin failed
    <3>1. tip \in Ancestors[a]
      BY <1>2, <1>4, <1>8, <2>2, OneBlock, Zenon
    <3> QED BY <2>0, <3>1, AncestorTransitive, Zenon
  <2> QED BY <2>1, <2>2, Zenon
<1>14. ActiveChainValid'
  <2>1. ASSUME NEW c \in Ancestors[new_tip]
        PROVE  c \notin failed'
    <3>1. c \in Chain /\ tip \notin Ancestors[c]
      BY <1>3, <2>1, AncestorTransitive, Zenon
    <3> QED BY <1>2, <1>4, <1>8, <3>1, OneBlock, Zenon DEF IInv, ActiveChainValid
  <2> QED BY <1>3, <1>4, <2>1, Zenon DEF IInv, ActiveChainValid, Chain
<1>15. AbcInv'
  BY <1>1, <1>4, Zenon DEF AbcInv, MostWork
<1>16. IndexInv' /\ UnlinkedInv'
  BY <1>1, <1>4, Zenon DEF IInv, IndexInv, UnlinkedInv
<1> QED BY <1>9, <1>10, <1>11, <1>12, <1>13, <1>14, <1>15, <1>16, Zenon DEF IInv

LEMMA FinishInvalidateBlockPreserves ==
  ASSUME IInv, FinishInvalidateBlock
  PROVE  IInv'
<1> DEFINE direct == IF inv.was_in_chain THEN {} ELSE {inv.pindex} \ failed
           mark == inv.to_mark_failed
<1>1. /\ inv.pc = "loop" /\ inv.pindex \notin Chain /\ inv \in InvType
      /\ abc.pc = "idle" /\ MostWork = Null /\ calls.invalidate # 0
      /\ m_chainstate_mutex = "inv"
  BY InvalidateAlone, Zenon DEF FinishInvalidateBlock
<1>2. /\ failed' = failed \cup direct \cup (Descendants(mark) \ {mark})
      /\ setBlockIndexCandidates' = (setBlockIndexCandidates \ direct)
           \cup {c \in linked \ (failed \cup direct) : ~Worse(c, tip)}
      /\ m_chainstate_mutex' = "free" /\ inv' = NoInv
      /\ UNCHANGED <<m_block_index, haveData, linked, nSequenceId, m_blocks_unlinked, tip,
                     abc, calls>>
  BY Zenon DEF FinishInvalidateBlock, InvalidChainFound, CandidatesAfterInvalidate
<1>3. /\ mark \in m_block_index \ {Genesis} /\ mark \in Block
      /\ inv.was_in_chain => tip = pprev[mark] /\ direct = {}
      /\ ~inv.was_in_chain => mark = inv.pindex /\ direct = {mark} \ failed
  BY <1>1, Zenon DEF IInv, LoopInv, Types
<1>4. mark \notin Chain
  <2>1. inv.was_in_chain => mark \notin Ancestors[pprev[mark]]
    BY <1>3, OneBlock, Zenon
  <2> QED BY <1>1, <1>3, <2>1, Zenon DEF Chain, InvType
<1>5. \A c \in failed' \ failed : mark \in Ancestors[c] /\ c \in m_block_index
  BY <1>2, <1>3, OneBlock, Zenon DEF Descendants, InvType
<1>6. ~inv.was_in_chain => mark \in failed'
  BY <1>2, <1>3, Zenon
<1>7. \A c \in m_block_index \ {mark} : mark \in Ancestors[c] => c \in failed'
  BY <1>2, Zenon DEF Descendants
<1>8. Types'
  <2>1. m_best_header' \in m_block_index
    BY Basics, BestHeadersKnown, Zenon DEF FinishInvalidateBlock, InvalidChainFound, IInv, Types
  <2>2. failed' \subseteq m_block_index /\ inv' \in InvType
    BY <1>2, <1>5, Zenon DEF IInv, Types, NoInv, InvType
  <2> HIDE DEF direct, mark
  <2> QED BY <1>2, <2>1, <2>2, Zenon DEF IInv, Types, FinishInvalidateBlock
<1> HIDE DEF direct
<1>9. LockInv'
  BY <1>1, <1>2, Zenon DEF IInv, LockInv, NoInv
<1>10. LoopInv'
  BY <1>2, Zenon DEF LoopInv, NoInv
<1>11. FailedInv'
  <2> SUFFICES ASSUME NEW c \in m_block_index, NEW a \in Ancestors[c], a \in failed'
               PROVE  c \in failed'
    BY <1>2, Zenon DEF FailedInv
  <2>0. c \in Block /\ a \in Block
    BY OneBlock DEF IInv, Types
  <2>1. CASE mark \in Ancestors[c] /\ c = mark
    <3>1. CASE ~inv.was_in_chain
      BY <1>6, <2>1, <3>1, Zenon
    <3>2. CASE inv.was_in_chain
      <4>1. a = mark \/ a \in Chain
        BY <1>3, <2>1, <3>2, OneBlock DEF Chain
      <4>2. a \notin Chain
        <5>1. a \notin failed => mark \in Ancestors[a]
          BY <1>5, Zenon
        <5>2. a \in Chain => Ancestors[a] \subseteq Chain
          BY Basics, AncestorTransitive, Zenon DEF Chain
        <5> QED BY <1>4, <5>1, <5>2, Zenon DEF IInv, ActiveChainValid
      <4> QED BY <2>1, <4>1, <4>2, Zenon
    <3> QED BY <3>1, <3>2, Zenon
  <2>2. CASE mark \in Ancestors[c] /\ c # mark
    BY <1>7, <2>2, Zenon
  <2>3. CASE mark \notin Ancestors[c]
    <3>1. a \in failed
      BY <1>5, <2>0, <2>3, AncestorTransitive, Zenon
    <3>2. c \in failed
      BY <2>3, <3>1, Zenon DEF IInv, FailedInv, StillToMark
    <3> QED BY <1>2, <3>2, Zenon
  <2> QED BY <2>1, <2>2, <2>3, Zenon
<1>12. ActiveChainValid'
  <2>1. \A c \in Chain : c \notin failed' \ failed
    BY <1>4, <1>5, Basics, AncestorTransitive, Zenon DEF Chain
  <2> QED BY <1>2, <2>1, Zenon DEF IInv, ActiveChainValid, Chain
<1>13. AbcInv'
  BY <1>1, <1>2, Zenon DEF AbcInv, MostWork
<1>14. CandInv'
  BY <1>2, Zenon DEF IInv, CandInv, Worse
<1>15. IndexInv' /\ UnlinkedInv'
  BY <1>1, <1>2, Zenon DEF IInv, IndexInv, UnlinkedInv
<1> QED BY <1>8, <1>9, <1>10, <1>11, <1>12, <1>13, <1>14, <1>15, Zenon DEF IInv

LEMMA ReconsiderBlockPreserves ==
  ASSUME IInv, NEW b \in Block, ReconsiderBlock(b)
  PROVE  IInv'
<1> DEFINE reset == {c \in failed : b \in Ancestors[c] \/ c \in Ancestors[b]}
<1>1. /\ failed' = failed \ reset
      /\ setBlockIndexCandidates' = setBlockIndexCandidates
           \cup {c \in reset \cap linked : Worse(tip, c)}
      /\ calls' = [calls EXCEPT !.reconsider = @ + 1]
      /\ m_best_header' \in BestHeaders(m_block_index, failed', tip)
      /\ UNCHANGED <<m_block_index, haveData, linked, nSequenceId, m_blocks_unlinked, tip,
                     m_chainstate_mutex, abc, inv>>
  BY Zenon DEF ReconsiderBlock
<1>2. /\ calls' \in [precious : Nat, invalidate : Nat, reconsider : Nat]
      /\ calls'.invalidate = calls.invalidate
  BY <1>1 DEF IInv, Types
<1>3. m_best_header' \in m_block_index
  BY <1>1, Basics, BestHeadersKnown, Zenon
<1>4. FailedInv'
  <2> SUFFICES ASSUME NEW c \in m_block_index, NEW a \in Ancestors[c], a \in failed \ reset
               PROVE  c \in failed \ reset \/ StillToMark(c)
    BY <1>1, Zenon DEF FailedInv, StillToMark
  <2>1. c \in Block /\ (c \in failed \/ StillToMark(c))
    BY Zenon DEF IInv, FailedInv, Types
  <2>2. CASE c \in Ancestors[b]
    BY <2>1, <2>2, AncestorTransitive, Zenon
  <2>3. CASE b \in Ancestors[c]
    BY <2>1, <2>3, AncestorsLinear, Zenon
  <2> QED BY <2>1, <2>2, <2>3, Zenon
<1>5. CandInv'
  <2> SUFFICES ASSUME NEW c \in setBlockIndexCandidates'
               PROVE  c \in linked /\ ~Worse(c, tip)
    BY <1>1, Zenon DEF CandInv, Worse
  <2>1. CASE c \in setBlockIndexCandidates
    BY <2>1, Zenon DEF IInv, CandInv
  <2>2. CASE c \in linked /\ Worse(tip, c)
    BY <2>2, Basics, WorseOrder, Zenon DEF Worse, IInv, Types
  <2> QED BY <1>1, <2>1, <2>2, Zenon
<1> HIDE DEF reset
<1>6. Types'
  BY <1>1, <1>2, <1>3, Zenon DEF IInv, Types, ReconsiderBlock
<1>7. LockInv' /\ LoopInv' /\ IndexInv' /\ UnlinkedInv'
  BY <1>1, <1>2, Zenon DEF IInv, LockInv, LoopInv, IndexInv, UnlinkedInv
<1>8. ActiveChainValid' /\ AbcInv'
  BY <1>1, Zenon DEF IInv, ActiveChainValid, AbcInv, Chain, MostWork, Worse
<1> QED BY <1>4, <1>5, <1>6, <1>7, <1>8, Zenon DEF IInv

-----------------------------------------------------------------------------
(* The theorems that hold of every behaviour.                              *)

LEMMA InitIInv == Init => IInv
<1> SUFFICES ASSUME Init PROVE IInv
  BY Zenon
<1>1. Types
  <2>1. abc \in AbcType /\ inv \in InvType
    BY Zenon DEF Init, AbcType, InvType, NoAbc, NoInv
  <2>2. calls \in [precious : Nat, invalidate : Nat, reconsider : Nat]
    BY Zenon DEF Init, NoCalls
  <2>3. nSequenceId \in [Block -> Int]
    BY DEF Init, SEQ_ID_INIT_FROM_DISK
  <2>4. /\ nBlockSequenceId \in Nat /\ nLastPreciousChainwork \in Nat
        /\ nBlockReverseSequenceId \in Int /\ nBlockReverseSequenceId < 0
    BY DEF Init, SEQ_ID_INIT_FROM_DISK
  <2>5. waiting \in BOOLEAN /\ m_chainstate_mutex \in {"free", "abc", "inv"}
    BY Zenon DEF Init
  <2>6. /\ m_block_index \subseteq Block /\ failed \subseteq m_block_index
        /\ m_best_header \in m_block_index /\ tip \in linked
    BY TreeAssumption, Zenon DEF Init
  <2> QED BY <2>1, <2>2, <2>3, <2>4, <2>5, <2>6, Zenon DEF Types
<1>2. IndexInv
  BY TreeAssumption DEF Init, IndexInv, SEQ_ID_INIT_FROM_DISK
<1>3. LockInv /\ LoopInv /\ FailedInv /\ AbcInv /\ UnlinkedInv
  BY TreeAssumption, Zenon DEF Init, LockInv, LoopInv, FailedInv, AbcInv, MostWork, UnlinkedInv,
                        NoAbc, NoInv
<1>4. ActiveChainValid
  BY TreeAssumption, Zenon DEF Init, ActiveChainValid, Chain
<1>5. CandInv
  BY <1>1, TreeAssumption, WorseOrder DEF Init, CandInv, Worse, Types
<1> QED BY <1>1, <1>2, <1>3, <1>4, <1>5, Zenon DEF IInv

LEMMA UnchangedIInv ==
  ASSUME IInv, UNCHANGED vars
  PROVE  IInv'
BY Zenon DEF IInv, Types, IndexInv, LockInv, LoopInv, FailedInv, StillToMark, ActiveChainValid, Chain,
       AbcInv, MostWork, CandInv, Worse, UnlinkedInv, vars

LEMMA NextIInv ==
  ASSUME IInv, [Next]_vars
  PROVE  IInv'
<1>1. ASSUME NEW b \in Block, \/ AcceptBlockHeader(b) \/ AcceptBlock(b) \/ RejectBlock(b)
                              \/ PreciousBlock(b) \/ InvalidateBlock(b) \/ ReconsiderBlock(b)
      PROVE  IInv'
  BY <1>1, AcceptBlockHeaderPreserves, AcceptBlockPreserves, RejectBlockPreserves,
     PreciousBlockPreserves, InvalidateBlockPreserves, ReconsiderBlockPreserves, Zenon
<1>2. CASE ActivateStep
  BY <1>2, StartPreserves, LockForProgressPreserves, FindMostWorkChainPreserves,
     NothingToDoPreserves, DisconnectToForkPreserves, ConnectTipPreserves,
     ConnectTipFailsPreserves, Zenon DEF ActivateStep
<1>3. CASE InvalidateStep
  BY <1>3, InvalidateTipPreserves, FinishInvalidateBlockPreserves, Zenon DEF InvalidateStep
<1>4. CASE UNCHANGED vars
  BY <1>4, UnchangedIInv, Zenon
<1> QED BY <1>1, <1>2, <1>3, <1>4, Zenon DEF Next

\* The inductive invariant holds in every reachable state.
THEOREM AlwaysIInv == Spec => []IInv
BY InitIInv, NextIInv, PTL DEF Spec

\* The variables of the block index and of the chain state keep their types, and data,
\* links and failures are of known blocks.
THEOREM AlwaysTypeOK == Spec => []TypeOK
<1>1. IInv => TypeOK
  <2> SUFFICES ASSUME IInv PROVE TypeOK
    BY Zenon
  <2> QED BY Basics, Zenon DEF IInv, Types, IndexInv, LoopInv, AbcInv, MostWork, TypeOK
<1> QED BY <1>1, AlwaysIInv, PTL

\* InvalidChainFound, SetBlockFailureFlags and AcceptBlockHeader together see to it that
\* every descendant of a failed block is failed, whichever of the header, the data and
\* the failure comes first, for every tree of blocks and any number of RPC calls.
THEOREM AlwaysFailureInherited == Spec => []FailureInherited
<1>1. IInv => FailureInherited
  BY Zenon DEF IInv, FailedInv, StillToMark, FailureInherited, FailedIsInherited, Quiet
<1> QED BY <1>1, AlwaysIInv, PTL

\* ActivateBestChain, InvalidateBlock and ReconsiderBlock never leave a failed, unlinked
\* or invalid block in the active chain, although the pindexMostWork they work towards
\* was found before cs_main was released.
THEOREM AlwaysActiveChainValid == Spec => []ActiveChainValid
<1>1. IInv => ActiveChainValid
  BY Zenon DEF IInv
<1> QED BY <1>1, AlwaysIInv, PTL

\* Until the first invalidateblock, ReceivedBlockTransactions links every block as soon
\* as no data below it is missing, and m_blocks_unlinked holds exactly those that wait.
THEOREM AlwaysUnlinkedUntilInvalidate == Spec => []UnlinkedUntilInvalidate
<1>1. IInv => UnlinkedUntilInvalidate
  <2> SUFFICES ASSUME IInv, calls.invalidate = 0 PROVE UnlinkedIsExact
    BY Zenon DEF UnlinkedUntilInvalidate, UnlinkedExact
  <2>1. linked = {b \in m_block_index : Ancestors[b] \subseteq haveData}
    BY Zenon DEF IInv, IndexInv, UnlinkedInv
  <2> QED BY <2>1, Zenon DEF IInv, Types, IndexInv, UnlinkedInv, UnlinkedIsExact
<1> QED BY <1>1, AlwaysIInv, PTL

-----------------------------------------------------------------------------
(* The theorems that hold as long as preciousblock does not demote the tip. *)

\* The tip a section of ActivateBestChain started from is still a valid linked block.
LEMMA SectionFacts ==
  ASSUME IInv, CInv, Locked
  PROVE  /\ abc.starting_tip \in Block /\ abc.starting_tip \in linked \ failed
         /\ inv.pc = "idle" /\ nSequenceId \in [Block -> Int]
         /\ ~Worse(abc.starting_tip, abc.starting_tip)
<1>1. abc.starting_tip \in linked /\ Ancestors[abc.starting_tip] \cap failed = {}
  BY Zenon DEF CInv, SectionInv
<1>2. abc.starting_tip \in Block /\ abc.starting_tip \notin failed
  BY <1>1, Basics, OneBlock, Zenon
<1>3. inv.pc = "idle" /\ nSequenceId \in [Block -> Int]
  BY Zenon DEF IInv, Types, LockInv, Locked, InvType
<1> QED BY <1>1, <1>2, <1>3, WorseOrder, Zenon DEF Worse

LEMMA ArrivalsKeepCInv ==
  ASSUME IInv, CInv, NEW b \in Block, AcceptBlockHeader(b) \/ AcceptBlock(b) \/ RejectBlock(b)
  PROVE  CInv'
<1>1. ~Locked' /\ Quiet' = Quiet /\ tip' = tip
  BY Zenon DEF AcceptBlockHeader, AcceptBlock, RejectBlock, Locked, Quiet, cs_main_free
<1>2. SectionInv'
  BY <1>1, Zenon DEF SectionInv
<1>3. ASSUME Quiet, NEW c \in linked' \ failed', ~WorseBy(nSequenceId', c, tip)
      PROVE  c \in setBlockIndexCandidates'
  <2>1. CASE AcceptBlockHeader(b)
    BY <1>3, <2>1, Zenon DEF AcceptBlockHeader, CInv, HasAsGoodAs, Worse
  <2>2. CASE RejectBlock(b)
    <3>1. linked' = linked /\ nSequenceId' = nSequenceId /\ failed \subseteq failed'
          /\ setBlockIndexCandidates' = setBlockIndexCandidates \ {b} /\ b \notin linked
      BY <2>2, Zenon DEF RejectBlock, InvalidChainFound, IInv, IndexInv
    <3> QED BY <1>3, <3>1, Zenon DEF CInv, HasAsGoodAs, Worse
  <2>3. CASE AcceptBlock(b) /\ pprev[b] \notin linked
    <3>1. linked' = linked /\ nSequenceId' = nSequenceId /\ failed' = failed
          /\ setBlockIndexCandidates' = setBlockIndexCandidates
      BY <2>3, Zenon DEF AcceptBlock, ReceivedBlockTransactions
    <3> QED BY <1>3, <3>1, Zenon DEF CInv, HasAsGoodAs, Worse
  <2>4. CASE AcceptBlock(b) /\ pprev[b] \in linked
    <3> DEFINE new == NowLinked(b)
    <3>1. /\ linked' = linked \cup new /\ failed' = failed
          /\ setBlockIndexCandidates' = setBlockIndexCandidates
               \cup {d \in new : CandidateIfNotWorse(nSequenceId', d)}
          /\ \A d \in Block \ new : nSequenceId'[d] = nSequenceId[d]
      BY <2>4, Zenon DEF AcceptBlock, ReceivedBlockTransactions
    <3>2. new \cap linked = {}
      BY <2>4, AcceptableHeader, NowLinkedClosed, Zenon DEF AcceptBlock
    <3> HIDE DEF new
    <3>3. CASE c \in new
      BY <1>3, <3>1, <3>3, Zenon DEF CandidateIfNotWorse
    <3>4. CASE c \notin new
      <4>1. c \in linked \ failed /\ c \in Block
        BY <1>3, <3>1, <3>4, Basics, Zenon
      <4>2. nSequenceId'[c] = nSequenceId[c] /\ nSequenceId'[tip] = nSequenceId[tip]
        BY <3>1, <3>2, <3>4, <4>1, Basics, Zenon DEF IInv, Types
      <4>3. ~Worse(c, tip)
        BY <1>3, <4>2, Zenon DEF Worse, WorseBy
      <4> QED BY <1>3, <3>1, <4>1, <4>3, Zenon DEF CInv, HasAsGoodAs
    <3> QED BY <3>3, <3>4, Zenon
  <2> QED BY <2>1, <2>2, <2>3, <2>4, Zenon
<1> QED BY <1>1, <1>2, <1>3, Zenon DEF CInv, HasAsGoodAs, Worse

LEMMA StartKeepsCInv ==
  ASSUME IInv, CInv, StartActivateBestChain
  PROVE  CInv'
<1>1. abc'.pc = "released" /\ Quiet
  BY Zenon DEF StartActivateBestChain, NoAbc, IInv, LockInv, Quiet, cs_main_free
<1> QED BY <1>1, Zenon DEF StartActivateBestChain, CInv, SectionInv, Locked, HasAsGoodAs, Worse

LEMMA LockForProgressKeepsCInv ==
  ASSUME IInv, CInv, LockForProgress
  PROVE  CInv'
<1>1. /\ abc'.pc = "find" /\ abc'.starting_tip = tip /\ MostWork' = MostWork /\ Quiet
      /\ abc.pc = "released" /\ ~Quiet'
  BY Zenon DEF LockForProgress, IInv, LockInv, Quiet, cs_main_free, Types, AbcType, InvType, MostWork
<1>2. UNCHANGED <<linked, failed, nSequenceId, setBlockIndexCandidates, tip>>
  BY Zenon DEF LockForProgress
<1>3. Ancestors[tip] \cap (failed \cup BadConnect) = {} /\ tip \in linked
  BY Zenon DEF IInv, ActiveChainValid, Chain, Types
<1>4. MostWork # Null => ~Worse(MostWork, tip)
  <2> SUFFICES ASSUME MostWork # Null PROVE ~Worse(MostWork, tip)
    BY Zenon
  <2>1. tip \in Ancestors[MostWork] /\ MostWork \in Block /\ tip \in Block
    BY <1>1, Basics, Zenon DEF IInv, AbcInv
  <2> QED BY <2>1, AncestorIsWorse, WorseOrder, Zenon DEF Worse, IInv, Types
<1>5. HasAsGoodAs(tip)
  BY <1>1, Zenon DEF CInv
<1> QED BY <1>1, <1>2, <1>3, <1>4, <1>5, Zenon DEF CInv, SectionInv, HasAsGoodAs, Worse

\* FindMostWorkChain only removes failed blocks.
LEMMA FindRemovesFailed ==
  ASSUME IInv, FindMostWorkChain, NEW c \in setBlockIndexCandidates \ setBlockIndexCandidates'
  PROVE  c \in failed
<1> DEFINE path == Ancestors[BestCandidate] \ Chain
<1>1. setBlockIndexCandidates # {} /\ inv.pc = "idle"
  BY Zenon DEF FindMostWorkChain, IInv, LockInv, Types, InvType
<1>2. PICK top \in path \cap failed :
        setBlockIndexCandidates' = setBlockIndexCandidates \ (path \ (Ancestors[top] \ {top}))
  BY Zenon DEF FindMostWorkChain
<1>3. /\ c \in Ancestors[BestCandidate] /\ top \in Ancestors[BestCandidate]
      /\ BestCandidate \in Block /\ c \in m_block_index
      /\ c = top \/ c \notin Ancestors[top]
  BY <1>1, <1>2, BestCandidateIsBest, Basics, Zenon DEF IInv, IndexInv
<1>4. c = top \/ top \in Ancestors[c]
  BY <1>3, AncestorsLinear, Zenon
<1> QED BY <1>1, <1>2, <1>3, <1>4, Zenon DEF IInv, FailedInv, StillToMark

LEMMA FindMostWorkChainKeepsCInv ==
  ASSUME IInv, CInv, FindMostWorkChain
  PROVE  CInv'
<1> DEFINE S == abc.starting_tip
<1>1. /\ abc.pc = "find" /\ Locked /\ abc \in AbcType
      /\ setBlockIndexCandidates' \subseteq setBlockIndexCandidates
      /\ UNCHANGED <<linked, failed, nSequenceId, tip, inv>>
  BY Zenon DEF FindMostWorkChain, Locked, IInv, Types
<1>2. S \in Block /\ S \in linked \ failed /\ ~Worse(S, S) /\ nSequenceId \in [Block -> Int]
  BY <1>1, SectionFacts, Zenon
<1>3. tip = S \/ Worse(tip, S)
  BY <1>1, Zenon DEF CInv, SectionInv
<1>4. ~Worse(S, tip)
  BY <1>2, <1>3, Basics, WorseOrder, Zenon DEF Worse
<1>5. S \in setBlockIndexCandidates
  BY <1>1, <1>2, <1>4, Zenon DEF CInv, SectionInv, HasAsGoodAs
<1>6. BestCandidate \in Block /\ ~Worse(BestCandidate, S)
  BY <1>2, <1>5, BestCandidateIsBest, Basics, WorseOrder, Zenon DEF Worse
<1>7. /\ abc'.starting_tip = S
      /\ \/ abc'.pc = "find" /\ abc'.pindexMostWork = MostWork
         \/ abc'.pc = "decide" /\ abc'.pindexMostWork = MostWork /\ MostWork # Null
         \/ abc'.pc = "decide" /\ abc'.pindexMostWork = BestCandidate
  BY <1>1, <1>5, Zenon DEF FindMostWorkChain, MostWork, AbcType
<1>8. HasAsGoodAs(S)'
  BY <1>1, <1>7, FindRemovesFailed, Zenon DEF CInv, SectionInv, HasAsGoodAs, Worse
<1>9. MostWork' # Null => ~Worse(MostWork', S)
  BY <1>1, <1>6, <1>7, Zenon DEF CInv, SectionInv, MostWork
<1>10. abc'.pc = "decide" => MostWork' # Null
  BY <1>6, <1>7, OneBlock, Zenon DEF MostWork
<1> QED BY <1>1, <1>2, <1>3, <1>7, <1>8, <1>9, <1>10, Zenon
        DEF CInv, SectionInv, Quiet, cs_main_free, Locked, Worse, MostWork

\* When nothing is left to do the tip is the one the section started from.
LEMMA NothingToDoAtStart ==
  ASSUME IInv, CInv, NothingToDo
  PROVE  tip = abc.starting_tip /\ abc' = NoAbc /\ Locked
<1>1. /\ abc.pc = "decide" /\ Locked /\ MostWork # Null /\ MostWork = tip
      /\ ~Worse(tip, abc.starting_tip)
  BY Zenon DEF NothingToDo, Locked, CInv, SectionInv, MostWork
<1> QED BY <1>1, Zenon DEF NothingToDo, CInv, SectionInv, MostWork

LEMMA NothingToDoKeepsCInv ==
  ASSUME IInv, CInv, NothingToDo
  PROVE  CInv'
<1>1. tip = abc.starting_tip /\ abc' = NoAbc /\ Locked
  BY NothingToDoAtStart, Zenon
<1>2. HasAsGoodAs(tip)
  BY <1>1, Zenon DEF CInv, SectionInv
<1>3. HasAsGoodAs(tip)'
  BY <1>2, Zenon DEF HasAsGoodAs, Worse, NothingToDo
<1>4. ~Locked'
  BY <1>1, Zenon DEF Locked, NoAbc
<1> QED BY <1>3, <1>4, Zenon DEF CInv, SectionInv

LEMMA DisconnectToForkKeepsCInv ==
  ASSUME IInv, CInv, DisconnectToFork
  PROVE  CInv'
<1> DEFINE S == abc.starting_tip
<1>1. /\ abc.pc = "decide" /\ Locked /\ abc \in AbcType
      /\ UNCHANGED <<linked, failed, nSequenceId, setBlockIndexCandidates>>
  BY Zenon DEF DisconnectToFork, Locked, IInv, Types
<1>2. /\ MostWork # Null /\ tip' \in Chain
      /\ abc' = [abc EXCEPT !.pc = "connect", !.old_tip = tip]
  BY ForkFacts, Zenon
<1>3. abc'.pc = "connect" /\ abc'.starting_tip = S /\ MostWork' = MostWork
  BY <1>1, <1>2, Zenon DEF AbcType, MostWork
<1>4. S \in Block /\ nSequenceId \in [Block -> Int] /\ (tip = S \/ Worse(tip, S))
  BY <1>1, SectionFacts, Zenon DEF CInv, SectionInv
<1>5. ASSUME NEW b \in linked \ failed, ~Worse(b, S)
      PROVE  b \in setBlockIndexCandidates
  <2>1. b \in Block /\ ~Worse(b, tip)
    BY <1>4, <1>5, Basics, NotWorseThan, Zenon DEF Worse
  <2> QED BY <1>1, <1>5, <2>1, Zenon DEF CInv, SectionInv, HasAsGoodAs
<1>6. HasAsGoodAs(S)'
  BY <1>1, <1>3, <1>5, Zenon DEF HasAsGoodAs, Worse
<1> QED BY <1>1, <1>2, <1>3, <1>6
        DEF CInv, SectionInv, Quiet, cs_main_free, Locked, Worse

\* After a step with the tip t, all that are as good as t and as the starting tip are
\* candidates: then either cs_main is held, or they are just the ones as good as t.
LEMMA AfterStepKeepsCInv ==
  ASSUME IInv, CInv, Locked, NEW t \in Block, NEW m \in Block \cup {Null}, AfterStep(t, m),
         tip' = t, linked' = linked, nSequenceId' = nSequenceId,
         Ancestors[abc.starting_tip] \cap (failed' \cup BadConnect) = {},
         m # Null => ~Worse(m, abc.starting_tip),
         \A b \in linked \ failed' :
           ~Worse(b, abc.starting_tip) /\ ~Worse(b, t) => b \in setBlockIndexCandidates'
  PROVE  CInv'
<1> DEFINE S == abc.starting_tip
<1>1. /\ S \in Block /\ S \in linked /\ nSequenceId \in [Block -> Int]
  BY SectionFacts, Zenon
<1>2. /\ abc'.pc \in {"idle", "released", "find"}
      /\ abc'.pc # "idle" => abc'.pindexMostWork = m
      /\ abc'.pc = "find" <=> Worse(t, S)
      /\ abc'.pc = "find" => abc'.starting_tip = S
  BY AfterStepCases, Zenon
<1>3. CASE Worse(t, S)
  <2>1. abc'.pc = "find" /\ MostWork' = m /\ abc'.starting_tip = S
    BY <1>2, <1>3, Zenon DEF MostWork
  <2> QED BY <1>1, <1>3, <2>1, Zenon
          DEF CInv, SectionInv, HasAsGoodAs, Quiet, cs_main_free, Locked, Worse
<1>4. CASE ~Worse(t, S)
  <2>1. ASSUME NEW b \in linked \ failed', ~Worse(b, t)
        PROVE  b \in setBlockIndexCandidates'
    <3>1. b \in Block /\ (S = t \/ Worse(S, t))
      BY <1>1, <1>4, Basics, WorseOrder, Zenon DEF Worse
    <3>2. ~Worse(b, S)
      BY <1>1, <2>1, <3>1, NotWorseThan, Zenon DEF Worse
    <3> QED BY <2>1, <3>2, Zenon
  <2> QED BY <1>2, <1>4, <2>1, Zenon DEF CInv, SectionInv, HasAsGoodAs, Locked, Worse
<1> QED BY <1>3, <1>4, Zenon

LEMMA ConnectTipKeepsCInv ==
  ASSUME IInv, CInv, ConnectTip
  PROVE  CInv'
<1> DEFINE S == abc.starting_tip
<1>1. /\ abc.pc = "connect" /\ Locked /\ abc \in AbcType /\ tip' = ToConnect
      /\ setBlockIndexCandidates' = {b \in setBlockIndexCandidates : ~Worse(b, ToConnect)}
      /\ UNCHANGED <<linked, failed, nSequenceId>>
  BY Zenon DEF ConnectTip, Locked, Pruned, IInv, Types
<1>2. /\ MostWork \in Block /\ MostWork # Null /\ ToConnect \in Block /\ Worse(tip, ToConnect)
  BY <1>1, ToConnectFacts, Zenon
<1>3. /\ Ancestors[S] \cap (failed \cup BadConnect) = {} /\ ~Worse(MostWork, S)
      /\ nSequenceId \in [Block -> Int] /\ S \in linked
  BY <1>1, <1>2, SectionFacts, Zenon DEF CInv, SectionInv
<1>4. ASSUME NEW b \in linked \ failed, ~Worse(b, S), ~Worse(b, ToConnect)
      PROVE  b \in setBlockIndexCandidates'
  <2>1. b \in Block /\ ~Worse(b, tip)
    BY <1>2, <1>3, <1>4, Basics, NotWorseThan, Zenon DEF Worse
  <2> QED BY <1>1, <1>4, <2>1, Zenon DEF CInv, SectionInv, HasAsGoodAs
<1>5. CASE AfterStep(ToConnect, MostWork)
  BY <1>1, <1>2, <1>3, <1>4, <1>5, AfterStepKeepsCInv, Zenon
<1>6. CASE abc' = abc
  <2>1. HasAsGoodAs(S)'
    BY <1>1, <1>4, <1>6, Zenon DEF HasAsGoodAs, Worse
  <2> QED BY <1>1, <1>2, <1>3, <1>6, <2>1, Zenon
          DEF CInv, SectionInv, Quiet, cs_main_free, Locked, Worse, MostWork
<1> QED BY <1>5, <1>6, ConnectTipCases, Zenon

LEMMA ConnectTipFailsKeepsCInv ==
  ASSUME IInv, CInv, ConnectTipFails
  PROVE  CInv'
<1> DEFINE S == abc.starting_tip
<1>1. /\ abc.pc = "connect" /\ Locked /\ ToConnect \in BadConnect
      /\ failed' = failed \cup {ToConnect} \cup Descendants(ToConnect)
      /\ setBlockIndexCandidates' = setBlockIndexCandidates \ {ToConnect}
      /\ AfterStep(tip, Null)
      /\ UNCHANGED <<linked, nSequenceId, tip>>
  BY Zenon DEF ConnectTipFails, InvalidChainFound, Locked
<1>2. /\ Ancestors[S] \cap (failed \cup BadConnect) = {} /\ S \in Block /\ tip \in Block
  BY <1>1, SectionFacts, Basics, Zenon DEF CInv, SectionInv
<1>3. Ancestors[S] \cap (failed' \cup BadConnect) = {}
  BY <1>1, <1>2, AncestorTransitive DEF Descendants
<1>4. \A b \in linked \ failed' : ~Worse(b, S) /\ ~Worse(b, tip) => b \in setBlockIndexCandidates'
  BY <1>1, Zenon DEF CInv, SectionInv, HasAsGoodAs
<1> QED BY <1>1, <1>2, <1>3, <1>4, AfterStepKeepsCInv, Zenon

LEMMA PreciousBlockKeepsCInv ==
  ASSUME IInv, CInv, NEW b \in Block, PreciousBlock(b), ~TipDemoted
  PROVE  CInv'
<1> DEFINE reverseId == IF nChainWork[tip] > nLastPreciousChainwork
                          THEN -1 ELSE nBlockReverseSequenceId
<1>0. reverseId \in Int
  BY DEF IInv, Types
<1>1. /\ nSequenceId' = [nSequenceId EXCEPT ![b] = reverseId]
      /\ UNCHANGED <<linked, failed, tip, abc, inv>> /\ cs_main_free
  BY Zenon DEF PreciousBlock
<1> HIDE DEF reverseId
<1>2. ~Locked' /\ Quiet' = Quiet
  BY <1>1, Zenon DEF Locked, Quiet, cs_main_free
<1>3. ASSUME Quiet, NEW c \in linked \ failed, ~WorseBy(nSequenceId', c, tip)
      PROVE  c \in setBlockIndexCandidates'
  <2>1. c \in Block /\ tip \in Block /\ tip \in linked \ failed
    BY Basics, OneBlock, Zenon DEF IInv, Types, ActiveChainValid, Chain
  <2>2. CASE c = b
    BY <1>3, <2>2, Zenon DEF PreciousBlock, Usable
  <2>3. CASE c # b
    <3>1. nSequenceId'[c] = nSequenceId[c] /\ nSequenceId[c] \in Int
      BY <1>1, <2>1, <2>3, Zenon DEF IInv, Types
    <3>2. nSequenceId'[tip] <= nSequenceId[tip] /\ nSequenceId'[tip] \in Int
          /\ nSequenceId[tip] \in Int
      BY <1>0, <1>1, <2>1 DEF TipDemoted, IInv, Types
    <3>3. ~Worse(c, tip)
      BY <1>3, <3>1, <3>2 DEF Worse, WorseBy
    <3>4. c \in setBlockIndexCandidates
      BY <1>3, <3>3, Zenon DEF CInv, HasAsGoodAs
    <3> QED BY <1>3, <2>3, <3>4, Zenon DEF PreciousBlock
  <2> QED BY <2>2, <2>3, Zenon
<1> QED BY <1>1, <1>2, <1>3, Zenon DEF CInv, SectionInv, HasAsGoodAs, Worse

LEMMA InvalidateKeepsCInv ==
  ASSUME IInv, CInv, \/ \E b \in Block : InvalidateBlock(b)
                     \/ InvalidateTip
                     \/ FinishInvalidateBlock
  PROVE  CInv'
<1>1. CASE \/ \E b \in Block : InvalidateBlock(b)
           \/ InvalidateTip
  <2>1. abc' = abc /\ cs_main_free /\ inv'.pc = "loop"
    <3>1. CASE \E b \in Block : InvalidateBlock(b)
      BY <3>1 DEF InvalidateBlock
    <3>2. CASE InvalidateTip
      BY <3>2, InvalidateAlone, Zenon DEF InvalidateTip, cs_main_free, InvType
    <3> QED BY <1>1, <3>1, <3>2, Zenon
  <2> QED BY <2>1, Zenon DEF CInv, SectionInv, Quiet, Locked, cs_main_free
<1>2. CASE FinishInvalidateBlock
  <2>1. abc.pc = "idle" /\ abc' = abc
    BY <1>2, InvalidateAlone, Zenon DEF FinishInvalidateBlock
  <2>2. \A c \in linked' \ failed' : ~Worse(c, tip)' => c \in setBlockIndexCandidates'
    BY <1>2, Zenon DEF FinishInvalidateBlock, InvalidChainFound, CandidatesAfterInvalidate, Worse
  <2> QED BY <2>1, <2>2, Zenon DEF CInv, SectionInv, Locked, HasAsGoodAs
<1> QED BY <1>1, <1>2, Zenon

LEMMA ReconsiderBlockKeepsCInv ==
  ASSUME IInv, CInv, NEW b \in Block, ReconsiderBlock(b)
  PROVE  CInv'
<1> DEFINE reset == {c \in failed : b \in Ancestors[c] \/ c \in Ancestors[b]}
<1>1. /\ failed' = failed \ reset
      /\ setBlockIndexCandidates' = setBlockIndexCandidates
           \cup {c \in reset \cap linked : Worse(tip, c)}
      /\ UNCHANGED <<linked, nSequenceId, tip, abc, inv>> /\ cs_main_free
  BY Zenon DEF ReconsiderBlock
<1> HIDE DEF reset
<1>2. ~Locked' /\ Quiet' = Quiet
  BY <1>1, Zenon DEF Locked, Quiet, cs_main_free
<1>3. tip \in Block /\ tip \notin failed /\ nSequenceId \in [Block -> Int]
  BY Basics, OneBlock, Zenon DEF IInv, Types, ActiveChainValid, Chain
<1>4. ASSUME Quiet, NEW c \in linked \ failed', ~Worse(c, tip)
      PROVE  c \in setBlockIndexCandidates'
  <2>1. CASE c \notin failed
    BY <1>1, <1>4, <2>1, Zenon DEF CInv, HasAsGoodAs
  <2>2. CASE c \in failed
    <3>1. Worse(tip, c)
      BY <1>3, <1>4, <2>2, Basics, WorseOrder, Zenon DEF Worse
    <3> QED BY <1>1, <1>4, <2>2, <3>1, Zenon
  <2> QED BY <2>1, <2>2, Zenon
<1> QED BY <1>1, <1>2, <1>4, Zenon DEF CInv, SectionInv, HasAsGoodAs, Worse

LEMMA InitCInv == Init => CInv
<1> SUFFICES ASSUME Init
             PROVE  CInv
  OBVIOUS
<1>1. HasAsGoodAs(tip)
  BY Zenon DEF Init, HasAsGoodAs
<1>2. ~Locked
  BY Zenon DEF Init, Locked, NoAbc
<1> QED BY <1>1, <1>2, Zenon DEF CInv, SectionInv

LEMMA UnchangedCInv ==
  ASSUME CInv, UNCHANGED vars
  PROVE  CInv'
BY Zenon DEF vars, CInv, SectionInv, HasAsGoodAs, Quiet, cs_main_free, Locked, Worse, MostWork

LEMMA NextCInv ==
  ASSUME IInv, CInv, [Next]_vars, [~TipDemoted]_vars
  PROVE  CInv'
<1>1. CASE UNCHANGED vars
  BY <1>1, UnchangedCInv, Zenon
<1>2. ASSUME ~TipDemoted, NEW b \in Block,
             \/ AcceptBlockHeader(b) \/ AcceptBlock(b) \/ RejectBlock(b)
             \/ PreciousBlock(b) \/ InvalidateBlock(b) \/ ReconsiderBlock(b)
      PROVE  CInv'
  BY <1>2, ArrivalsKeepCInv, PreciousBlockKeepsCInv, InvalidateKeepsCInv,
     ReconsiderBlockKeepsCInv, Zenon
<1>3. CASE ActivateStep
  BY <1>3, StartKeepsCInv, LockForProgressKeepsCInv, FindMostWorkChainKeepsCInv,
     NothingToDoKeepsCInv, DisconnectToForkKeepsCInv, ConnectTipKeepsCInv,
     ConnectTipFailsKeepsCInv, Zenon DEF ActivateStep
<1>4. CASE InvalidateStep
  BY <1>4, InvalidateKeepsCInv, Zenon DEF InvalidateStep
<1> QED BY <1>1, <1>2, <1>3, <1>4, Zenon DEF Next

LEMMA NextTipKept ==
  ASSUME IInv, CInv, TipKept, IInv', [Next]_vars
  PROVE  TipKept'
<1> SUFFICES ASSUME inv'.pc = "loop"
             PROVE  tip' \in setBlockIndexCandidates'
  BY Zenon DEF TipKept
<1>1. CASE UNCHANGED vars
  BY <1>1, Zenon DEF vars, TipKept
<1>2. CASE ActivateStep
  <2>1. inv.pc = "loop"
    BY <1>2, Zenon DEF ActivateStep, StartActivateBestChain, LockForProgress, FindMostWorkChain,
                NothingToDo, DisconnectToFork, ConnectTip, ConnectTipFails
  <2>2. abc.pc = "idle" /\ m_chainstate_mutex = "inv"
    BY <2>1, InvalidateAlone, Zenon
  <2> QED BY <1>2, <2>2, Zenon DEF ActivateStep, StartActivateBestChain, LockForProgress,
             FindMostWorkChain, NothingToDo, DisconnectToFork, ConnectTip, ConnectTipFails
<1>3. CASE InvalidateStep
  BY <1>3 DEF InvalidateStep, InvalidateTip, FinishInvalidateBlock, NoInv
<1>4. ASSUME NEW b \in Block, AcceptBlockHeader(b) \/ AcceptBlock(b) \/ ReconsiderBlock(b)
      PROVE  tip' \in setBlockIndexCandidates'
  BY <1>4 DEF AcceptBlockHeader, AcceptBlock, ReceivedBlockTransactions, ReconsiderBlock, TipKept
<1>5. ASSUME NEW b \in Block, RejectBlock(b)
      PROVE  tip' \in setBlockIndexCandidates'
  BY <1>5, Zenon DEF RejectBlock, TipKept, IInv, IndexInv, Types
<1>6. ASSUME NEW b \in Block, PreciousBlock(b)
      PROVE  tip' \in setBlockIndexCandidates'
  <2>1. tip' = tip /\ tip \in setBlockIndexCandidates /\ tip \in Block /\ Usable(tip)
    BY <1>6, Basics, OneBlock, Zenon DEF PreciousBlock, TipKept, Usable, IInv, ActiveChainValid, Chain
  <2>2. ~WorseBy(nSequenceId', tip, tip)
    BY <2>1, WorseOrder, Zenon DEF IInv, Types
  <2> QED BY <1>6, <2>1, <2>2, Zenon DEF PreciousBlock
<1>7. ASSUME NEW b \in Block, InvalidateBlock(b)
      PROVE  tip' \in setBlockIndexCandidates'
  <2>1. /\ Quiet /\ tip' = tip /\ setBlockIndexCandidates' = setBlockIndexCandidates
    BY <1>7, Zenon DEF InvalidateBlock, CanLockChainstate, IInv, LockInv, Quiet
  <2>2. tip \in linked \ failed /\ tip \in Block
    BY Basics, OneBlock, Zenon DEF IInv, ActiveChainValid, Chain
  <2>3. ~Worse(tip, tip)
    BY <2>2, WorseOrder, Zenon DEF Worse, IInv, Types
  <2> QED BY <2>1, <2>2, <2>3, Zenon DEF CInv, HasAsGoodAs
<1> QED BY <1>1, <1>2, <1>3, <1>4, <1>5, <1>6, <1>7, Zenon DEF Next

LEMMA AlwaysCInv == Spec /\ [][~TipDemoted]_vars => [](IInv /\ CInv /\ TipKept)
<1>1. IInv /\ CInv /\ TipKept /\ [Next]_vars /\ [~TipDemoted]_vars => (IInv /\ CInv /\ TipKept)'
  BY NextIInv, NextCInv, NextTipKept, Zenon
<1>2. Init => TipKept
  BY Zenon DEF Init, NoInv, TipKept
<1> QED BY <1>1, <1>2, InitIInv, InitCInv, PTL DEF Spec

\* As long as preciousblock does not put the tip behind a block of the same work,
\* setBlockIndexCandidates, although arrivals, pruning, failures and RPCs each update it
\* only in part, has exactly what CheckBlockIndex asserts whenever cs_main is free.
THEOREM CandidatesExactUnlessDemoted ==
  Spec /\ [][~TipDemoted]_vars => []CandidatesExact
<1>1. IInv /\ CInv => CandidatesExact
  BY Zenon DEF IInv, CandInv, CInv, HasAsGoodAs, CandidatesExact, CandidatesAreExact
<1> QED BY <1>1, AlwaysCInv, PTL

\* Under the same condition ActivateBestChain never releases cs_main with a tip worse
\* than the one it had when it took it, whatever it disconnected and failed to connect.
THEOREM ForwardProgressUnlessDemoted ==
  Spec /\ [][~TipDemoted]_vars => ForwardProgress
<1> DEFINE A == ~cs_main_free /\ cs_main_free' => ~Worse(tip', abc.starting_tip)
<1>1. ASSUME IInv, CInv, Next
      PROVE  A
  <2> SUFFICES ASSUME ~cs_main_free, cs_main_free'
               PROVE  ~Worse(tip', abc.starting_tip)
    BY Zenon
  <2>1. /\ Locked /\ abc \in AbcType /\ abc' # abc
        /\ abc.pc # "released" /\ m_chainstate_mutex # "free" /\ inv.pc = "idle"
    BY <1>1, Zenon DEF cs_main_free, Locked, IInv, Types, AbcType, LockInv, InvType
  <2>2. \/ FindMostWorkChain \/ NothingToDo \/ DisconnectToFork \/ ConnectTip \/ ConnectTipFails
    BY <1>1, <2>1, Zenon DEF Next, ActivateStep, InvalidateStep, AcceptBlockHeader, AcceptBlock, RejectBlock,
                PreciousBlock, InvalidateBlock, ReconsiderBlock, StartActivateBestChain,
                LockForProgress, InvalidateTip, FinishInvalidateBlock
  <2>3. ~FindMostWorkChain /\ ~DisconnectToFork
    BY <2>1, Zenon DEF FindMostWorkChain, DisconnectToFork, cs_main_free, AbcType
  <2>4. CASE NothingToDo
    <3>1. tip' = abc.starting_tip
      BY <1>1, <2>4, NothingToDoAtStart, Zenon DEF NothingToDo
    <3> QED BY <1>1, <2>1, <3>1, SectionFacts, Zenon
  <2>5. CASE ConnectTip
    <3>1. AfterStep(ToConnect, MostWork) /\ tip' = ToConnect
      BY <1>1, <2>1, <2>5, ConnectTipCases, Zenon DEF ConnectTip
    <3>2. ToConnect \in Block /\ MostWork \in Block
      BY <1>1, <2>5, ToConnectFacts, Zenon DEF ConnectTip
    <3> QED BY <1>1, <2>1, <3>1, <3>2, AfterStepCases, Zenon DEF cs_main_free
  <2>6. CASE ConnectTipFails
    BY <1>1, <2>1, <2>6, AfterStepCases, Basics, Zenon DEF ConnectTipFails, cs_main_free
  <2> QED BY <2>2, <2>3, <2>4, <2>5, <2>6, Zenon
<1>2. UNCHANGED vars => A
  BY Zenon DEF vars, cs_main_free
<1>3. IInv /\ CInv /\ [Next]_vars => [A]_vars
  BY <1>1, <1>2, Zenon
<1> QED BY <1>3, AlwaysCInv, PTL DEF Spec, ForwardProgress

\* Whoever calls PruneBlockIndexCandidates finds a block left, as it asserts: "Either the
\* current tip or a successor of it we're working towards is left".
THEOREM PruningLeavesCandidates ==
  Spec /\ [][~TipDemoted]_vars
    => [][(ConnectTip \/ \E b \in Block : PreciousBlock(b)) => setBlockIndexCandidates' # {}]_vars
<1> DEFINE A == (ConnectTip \/ \E b \in Block : PreciousBlock(b))
                   => setBlockIndexCandidates' # {}
<1>1. ASSUME IInv, CInv, ConnectTip
      PROVE  setBlockIndexCandidates' # {}
  <2>1. /\ abc.pc = "connect" /\ Locked
        /\ setBlockIndexCandidates' = {b \in setBlockIndexCandidates : ~Worse(b, ToConnect)}
    BY <1>1, Zenon DEF ConnectTip, Locked, Pruned
  <2>2. /\ MostWork \in Block /\ MostWork # Null /\ ToConnect \in Ancestors[MostWork]
        /\ ToConnect \in Block /\ Worse(tip, ToConnect)
    BY <1>1, <2>1, ToConnectFacts, Zenon
  <2>3. MostWork \in linked \ failed /\ ~Worse(MostWork, abc.starting_tip)
    <3>1. MostWork \notin Chain
      BY <1>1, <2>1, <2>2, Basics, AncestorTransitive, ToConnectFacts, Zenon DEF Chain
    <3> QED BY <1>1, <2>1, <2>2, <3>1, OneBlock, Zenon DEF IInv, AbcInv, CInv, SectionInv
  <2>4. ~Worse(MostWork, ToConnect)
    BY <1>1, <2>2, AncestorIsWorse, WorseOrder, Zenon DEF Worse, IInv, Types
  <2>5. ~Worse(MostWork, tip)
    BY <1>1, <2>2, <2>4, Basics, NotWorseThan, Zenon DEF Worse, IInv, Types
  <2>6. MostWork \in setBlockIndexCandidates
    BY <1>1, <2>1, <2>3, <2>5, Zenon DEF CInv, SectionInv, HasAsGoodAs
  <2> QED BY <2>1, <2>4, <2>6, Zenon
<1>2. ASSUME IInv, IInv', CInv', TipKept', NEW b \in Block, PreciousBlock(b)
      PROVE  setBlockIndexCandidates' # {}
  <2>1. cs_main_free' /\ inv'.pc \in {"idle", "loop"}
    BY <1>2, Zenon DEF PreciousBlock, cs_main_free, IInv, Types, InvType
  <2>2. /\ tip' \in (linked \ failed)' /\ tip' \in Block /\ nSequenceId' \in [Block -> Int]
    BY <1>2, OneBlock, Zenon DEF IInv, Types, IndexInv, ActiveChainValid, Chain
  <2>3. ~WorseBy(nSequenceId', tip', tip')
    BY <2>2, WorseOrder, Zenon
  <2>4. tip' \in setBlockIndexCandidates'
    BY <1>2, <2>1, <2>2, <2>3, Zenon DEF CInv, TipKept, Quiet, HasAsGoodAs, Worse
  <2> QED BY <2>4, Zenon
<1>3. IInv /\ CInv /\ (IInv /\ CInv /\ TipKept)' => A
  BY <1>1, <1>2, Zenon
<1> HIDE DEF A
<1>4. Spec /\ [][~TipDemoted]_vars => [][A]_vars
  BY <1>3, AlwaysCInv, PTL
<1> QED BY <1>4, Zenon DEF A

=============================================================================
