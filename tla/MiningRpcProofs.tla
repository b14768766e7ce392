-------------------------- MODULE MiningRpcProofs ---------------------------
(***************************************************************************)
(* Proofs about MiningRpc, for any number of worker threads, scripts,      *)
(* heights and changes of the mempool.                                     *)
(***************************************************************************)
EXTENDS MiningRpc, TLAPS

-----------------------------------------------------------------------------
(* The inductive invariant.                                                *)

\* The steps of getblocktemplate under cs_main.
GbtLabels == {"update", "create", "serve", "insert"}
\* The steps of a submission during which its state catcher is registered.
CaughtLabels == {"accept", "activate", "answer"}
Labels == {"idle", "waiting", "relock", "assign", "register", "answered"}
            \cup GbtLabels \cup CaughtLabels

CallType == [tip : Hash, watchedTx : Nat, script : AnyScript \ {PeerScript},
             raced : BOOLEAN, template : Template, powValid : BOOLEAN,
             new_block : BOOLEAN, accepted : BOOLEAN, registered : BOOLEAN,
             found : {"no", "invalid", "valid"},
             answer : {"none", "not found", "duplicate", "inconclusive", "invalid", "valid"}]
AnswerType == [template : Template, id : [tip : Hash, mempool : Nat]]

Types ==
  /\ cs_main \in Thread \cup {Nobody}
  /\ stored \subseteq Hash /\ blockChecked \subseteq stored /\ tip \in stored
  /\ nTransactionsUpdated \in Nat /\ updates \in Nat /\ rpcRunning \in BOOLEAN
  /\ nTransactionsUpdatedLast \in Nat /\ nTransactionsUpdatedLast <= nTransactionsUpdated
  /\ pindexPrev \in Hash \cup {NoBlock}
  /\ block_template \in Template
  /\ g_progpow_block_templates \subseteq Template
  /\ g_progpow_coinbase_script \in AnyScript \ {PeerScript}
  /\ pc \in [Thread -> Labels]
  /\ local \in [Thread -> CallType]
  /\ served \subseteq AnswerType

\* The node has the ancestors of its blocks, and of the blocks templates are for.
KnownParents ==
  /\ \A b \in stored : \A n \in 0 .. Len(b) : SubSeq(b, 1, n) \in stored
  /\ block_template.prev \in stored
  /\ \A s \in served : s.template.prev \in stored
  /\ \A th \in Thread : local[th].template.prev \in stored

\* pindexPrev is the block the cached template was built on, and the template has
\* what the mempool had when nTransactionsUpdatedLast was set, or more.
CacheInv ==
  pindexPrev # NoBlock => /\ block_template.prev = pindexPrev
                          /\ block_template.mempool >= nTransactionsUpdatedLast

\* A getblocktemplate call after it took cs_main.
GbtInv(th) ==
  /\ cs_main = th <=> pc[th] \in GbtLabels
  /\ pc[th] \in GbtLabels => local[th].tip = tip
  /\ pc[th] \in {"serve", "insert"} => pindexPrev = tip
  /\ pc[th] = "insert" => local[th].template = block_template

\* A submission: what its state catcher found, and whether its block was new.
SubmitInv(th) ==
  LET call == local[th]
      block == Solved(call)
  IN /\ call.registered <=> pc[th] \in CaughtLabels
     /\ pc[th] \notin CaughtLabels \cup {"answered"}
          => ~call.new_block /\ ~call.accepted /\ call.found = "no"
     /\ pc[th] = "accept" => ~call.new_block /\ ~call.accepted
     /\ pc[th] = "activate" => call.accepted
     /\ pc[th] = "answer" => call.accepted \/ call.found = "invalid"
     /\ call.accepted => call.powValid /\ block \in stored
     /\ call.new_block => call.accepted
     /\ call.found = "invalid" => ~call.powValid
     /\ call.found = "valid" => block \in blockChecked
     /\ call.registered /\ call.new_block /\ call.found = "no" => block \notin blockChecked

\* Of two submissions of one block only one is told that it is new.
NewOnce ==
  \A th, other \in Thread :
    /\ th # other
    /\ local[th].new_block
    /\ local[other].new_block
    => Solved(local[th]) # Solved(local[other])

IInv == /\ Types /\ KnownParents /\ CacheInv /\ NewOnce /\ LongpollIdHonest
        /\ \A th \in Thread : GbtInv(th) /\ SubmitInv(th)

-----------------------------------------------------------------------------
(* Blocks as sequences of bodies.                                          *)

\* The solved block of a template is one of the node's blocks only with proof of work.
LEMMA SolvedHash ==
  ASSUME NEW call \in CallType
  PROVE  Solved(call) \in Hash <=> call.powValid
<1>1. /\ call.template.prev \in Seq(BlockBody) /\ call.template.script \in AnyScript
      /\ call.template.mempool \in Nat /\ call.powValid \in BOOLEAN
  BY Zenon DEF CallType, Template, Hash
<1> DEFINE body == [script |-> call.template.script, mempool |-> call.template.mempool,
                    pow |-> call.powValid]
           prev == call.template.prev
<1>2. CASE call.powValid
  <2>1. body \in BlockBody
    BY <1>1, <1>2 DEF BlockBody
  <2> QED BY <1>1, <1>2, <2>1 DEF Solved, Hash
<1>3. CASE ~call.powValid
  <2>1. Len(Append(prev, body)) = Len(prev) + 1 /\ Append(prev, body)[Len(prev) + 1] = body
        /\ Len(prev) \in Nat
    BY <1>1
  <2>2. body \notin BlockBody
    BY <1>3, Zenon DEF BlockBody
  <2>3. \A h \in Seq(BlockBody) : Len(h) = Len(prev) + 1 => h[Len(prev) + 1] \in BlockBody
    BY <2>1
  <2> HIDE DEF body
  <2>4. Append(prev, body) \notin Seq(BlockBody)
    BY <2>1, <2>2, <2>3
  <2> QED BY <1>3, <2>4 DEF Solved, Hash, body
<1> QED BY <1>1, <1>2, <1>3

\* A block on a known one has known ancestors.
LEMMA PrefixesOfAppend ==
  ASSUME NEW S \in SUBSET Hash, NEW prev \in S, NEW body \in BlockBody,
         \A b \in S : \A n \in 0 .. Len(b) : SubSeq(b, 1, n) \in S,
         NEW b \in S \cup {Append(prev, body)}, NEW n \in 0 .. Len(b)
  PROVE  SubSeq(b, 1, n) \in S \cup {Append(prev, body)}
<1>1. CASE b \in S
  BY <1>1
<1>2. CASE b = Append(prev, body)
  <2>1. prev \in Seq(BlockBody) /\ b \in Seq(BlockBody) /\ Len(b) = Len(prev) + 1
    BY <1>2 DEF Hash
  <2>2. CASE n = Len(b)
    BY <1>2, <2>1, <2>2
  <2>3. CASE n # Len(b)
    <3>1. n \in 0 .. Len(prev)
      BY <2>1, <2>3
    <3>2. SubSeq(b, 1, n) = SubSeq(prev, 1, n)
      BY <1>2, <2>1, <3>1
    <3> QED BY <3>1, <3>2, Zenon
  <2> QED BY <2>2, <2>3
<1> QED BY <1>1, <1>2

\* ActivateBestChain connects blocks the node has.
LEMMA ConnectedStored ==
  ASSUME IInv, NEW b \in stored
  PROVE  Connected(b) \subseteq stored
<1>1. Len(b) \in Nat /\ \A n \in 0 .. Len(b) : SubSeq(b, 1, n) \in stored
  BY DEF IInv, Types, KnownParents, Hash
<1>2. \A n \in 1 .. Len(b) : SubSeq(b, 1, n) \in stored
  BY <1>1
<1>3. Connected(b) \subseteq {SubSeq(b, 1, n) : n \in 1 .. Len(b)}
  BY DEF Connected
<1>4. {SubSeq(b, 1, n) : n \in 1 .. Len(b)} \subseteq stored
  BY <1>2, Zenon
<1> QED BY <1>3, <1>4

-----------------------------------------------------------------------------
(* Steps of one call outside cs_main.                                      *)

\* What the invariant sees of a call.
SameCall(th) ==
  /\ pc'[th] = pc[th]
  /\ local'[th].tip = local[th].tip
  /\ local'[th].template = local[th].template
  /\ local'[th].powValid = local[th].powValid
  /\ local'[th].new_block = local[th].new_block
  /\ local'[th].accepted = local[th].accepted
  /\ local'[th].registered = local[th].registered
  /\ local'[th].found = local[th].found

\* A step of one call that leaves cs_main, the chain and the cached template alone.
LEMMA CallStep ==
  ASSUME IInv, NEW th \in Thread, Types',
         \A other \in Thread \ {th} : SameCall(other),
         UNCHANGED <<cs_main, tip, stored, blockChecked, pindexPrev, block_template,
                     nTransactionsUpdatedLast, served>>,
         pc[th] \notin GbtLabels, pc'[th] \notin GbtLabels,
         local'[th].template.prev \in stored,
         SubmitInv(th)',
         local'[th].new_block => local[th].new_block /\ Solved(local'[th]) = Solved(local[th])
  PROVE  IInv'
<1>1. \A other \in Thread \ {th} : Solved(local'[other]) = Solved(local[other])
  BY Zenon DEF SameCall, Solved
<1>2. KnownParents'
  BY DEF IInv, KnownParents, SameCall
<1>3. CacheInv' /\ LongpollIdHonest'
  BY DEF IInv, CacheInv, LongpollIdHonest
<1>4. NewOnce'
  <2> SUFFICES ASSUME NEW a \in Thread, NEW b \in Thread, a # b,
                      local'[a].new_block, local'[b].new_block
               PROVE  Solved(local'[a]) # Solved(local'[b])
    BY DEF NewOnce
  <2>1. \A o \in {a, b} : local[o].new_block /\ Solved(local'[o]) = Solved(local[o])
    BY <1>1 DEF SameCall
  <2> QED BY <2>1 DEF IInv, NewOnce
<1>5. ASSUME NEW other \in Thread
      PROVE  GbtInv(other)'
  <2>1. CASE other = th
    BY <2>1 DEF IInv, GbtInv, GbtLabels
  <2>2. CASE other # th
    BY <2>2 DEF IInv, GbtInv, SameCall
  <2> QED BY <2>1, <2>2
<1>6. ASSUME NEW other \in Thread
      PROVE  SubmitInv(other)'
  <2>1. CASE other # th
    BY <1>1, <2>1 DEF IInv, SubmitInv, SameCall
  <2> QED BY <2>1
<1> QED BY <1>2, <1>3, <1>4, <1>5, <1>6 DEF IInv

\* UNCHANGED of these tuples says it of their variables.
USE DEF chainVars, mempoolVars, cacheVars

LEMMA NoCallType == NoCall \in CallType /\ NoCall.template = NoTemplate
<1>1. << >> \in Hash
  BY DEF Hash
<1>2. NoTemplate \in Template
  BY <1>1 DEF NoTemplate, Template, AnyScript
<1> QED BY <1>1, <1>2, NamesAssumption DEF NoCall, CallType, AnyScript

\* The genesis block is known.
LEMMA GenesisStored ==
  ASSUME IInv
  PROVE  << >> \in stored
<1>1. tip \in stored /\ tip \in Seq(BlockBody) /\ Len(tip) \in Nat
  BY DEF IInv, Types, Hash
<1>2. SubSeq(tip, 1, 0) \in stored
  BY <1>1 DEF IInv, KnownParents
<1>3. SubSeq(tip, 1, 0) = << >>
  BY <1>1
<1> QED BY <1>2, <1>3, Zenon

\* What a step that changes one call does to the two functions.
LEMMA OneCall ==
  ASSUME IInv, NEW th \in Thread, NEW label \in Labels, NEW call \in CallType,
         pc' = [pc EXCEPT ![th] = label], local' = [local EXCEPT ![th] = call]
  PROVE  /\ pc' \in [Thread -> Labels] /\ local' \in [Thread -> CallType]
         /\ pc'[th] = label /\ local'[th] = call
         /\ \A other \in Thread \ {th} : SameCall(other)
BY DEF IInv, Types, SameCall

\* A call begins, waits or ends; its submission, if it is one, is still to be accepted
\* or over.
LEMMA FreshStep ==
  ASSUME IInv, NEW th \in Thread, pc[th] \notin GbtLabels,
         NEW label \in Labels \ (GbtLabels \cup {"activate", "answer"}), NEW call \in CallType,
         ~call.new_block, ~call.accepted, call.found = "no",
         call.registered <=> label \in CaughtLabels, call.template.prev \in stored,
         pc' = [pc EXCEPT ![th] = label], local' = [local EXCEPT ![th] = call],
         UNCHANGED <<cs_main, chainVars, mempoolVars, rpcRunning, cacheVars, served,
                     g_progpow_block_templates>>,
         g_progpow_coinbase_script' \in AnyScript \ {PeerScript}
  PROVE  IInv'
<1>1. /\ pc' \in [Thread -> Labels] /\ local' \in [Thread -> CallType]
      /\ pc'[th] = label /\ local'[th] = call
      /\ \A other \in Thread \ {th} : SameCall(other)
  BY OneCall, Zenon
<1>2. Types'
  BY <1>1 DEF IInv, Types
<1>3. SubmitInv(th)'
  BY <1>1 DEF SubmitInv
<1> QED BY <1>1, <1>2, <1>3, CallStep

\* A thread that is not submitting a block.
LEMMA NotSubmitting ==
  ASSUME IInv, NEW th \in Thread, pc[th] \notin CaughtLabels \cup {"answered"}
  PROVE  /\ local[th] \in CallType /\ local[th].template.prev \in stored
         /\ ~local[th].new_block /\ ~local[th].accepted /\ ~local[th].registered
         /\ local[th].found = "no"
BY DEF IInv, Types, KnownParents, SubmitInv

LEMMA LongPollPreserves ==
  ASSUME IInv, NEW th \in Thread, NEW s \in served, LongPoll(th, s.id)
  PROVE  IInv'
<1> DEFINE call == [local[th] EXCEPT !.tip = s.id.tip, !.watchedTx = s.id.mempool]
<1>1. s.id.tip \in Hash /\ s.id.mempool \in Nat /\ pc[th] = "idle"
  BY DEF IInv, Types, AnswerType, LongPoll
<1>2. /\ call \in CallType /\ call.template.prev \in stored
      /\ ~call.new_block /\ ~call.accepted /\ ~call.registered /\ call.found = "no"
  BY <1>1, NotSubmitting, Zenon DEF CallType, CaughtLabels
<1>3. local' = [local EXCEPT ![th] = call] /\ pc' = [pc EXCEPT ![th] = "waiting"]
  BY Zenon DEF LongPoll, Goto
<1> HIDE DEF call
<1> QED BY <1>1, <1>2, <1>3, FreshStep, Zenon DEF LongPoll, Labels, GbtLabels, CaughtLabels, IInv, Types

LEMMA WakeUpPreserves ==
  ASSUME IInv, NEW th \in Thread, WakeUp(th)
  PROVE  IInv'
<1> DEFINE call == [local[th] EXCEPT !.tip = tip]
<1>1. tip \in Hash /\ pc[th] = "waiting"
  BY DEF IInv, Types, WakeUp
<1>2. /\ call \in CallType /\ call.template.prev \in stored
      /\ ~call.new_block /\ ~call.accepted /\ ~call.registered /\ call.found = "no"
  BY <1>1, NotSubmitting, Zenon DEF CallType, CaughtLabels
<1>3. local' = [local EXCEPT ![th] = call] /\ pc' = [pc EXCEPT ![th] = "relock"]
  BY DEF WakeUp, Goto
<1> HIDE DEF call
<1> QED BY <1>1, <1>2, <1>3, FreshStep, Zenon DEF WakeUp, Labels, GbtLabels, CaughtLabels, IInv, Types

\* The call returns: nothing is left of it.
LEMMA LeavePreserves ==
  ASSUME IInv, NEW th \in Thread, Leave(th), pc[th] \notin GbtLabels,
         UNCHANGED <<cs_main, chainVars, mempoolVars, rpcRunning, cacheVars, served,
                     g_progpow_block_templates>>,
         g_progpow_coinbase_script' \in AnyScript \ {PeerScript}
  PROVE  IInv'
<1>1. /\ NoCall \in CallType /\ NoCall.template.prev \in stored
      /\ ~NoCall.new_block /\ ~NoCall.accepted /\ ~NoCall.registered /\ NoCall.found = "no"
  BY GenesisStored, NoCallType DEF NoTemplate, NoCall
<1> QED BY <1>1, FreshStep, Zenon DEF Leave, Goto, Labels, GbtLabels, CaughtLabels

LEMMA ReturnPreserves ==
  ASSUME IInv, NEW th \in Thread, Return(th)
  PROVE  IInv'
BY LeavePreserves DEF Return, GbtLabels, IInv, Types

LEMMA AssignScriptPreserves ==
  ASSUME IInv, NEW th \in Thread, AssignScript(th)
  PROVE  IInv'
<1>1. g_progpow_coinbase_script' \in AnyScript \ {PeerScript}
  BY NamesAssumption, Zenon DEF AssignScript, IInv, Types, CallType, AnyScript
<1> QED BY <1>1, LeavePreserves DEF AssignScript, GbtLabels

\* setprogpowminingaddress marks the calls it races with.
LEMMA SetProgpowMiningAddressPreserves ==
  ASSUME IInv, NEW th \in Thread, NEW script \in Script, SetProgpowMiningAddress(th, script)
  PROVE  IInv'
<1> DEFINE raced == IF Assigning = {} THEN {} ELSE Assigning \cup {th}
           call(o) == [local[o] EXCEPT !.script = IF o = th THEN script ELSE @,
                                       !.raced = @ \/ o \in raced]
<1>1. script \in AnyScript \ {PeerScript}
  BY NamesAssumption DEF AnyScript
<1>2. ASSUME NEW o \in Thread
      PROVE  /\ call(o) \in CallType /\ call(o).tip = local[o].tip
             /\ call(o).template = local[o].template /\ call(o).powValid = local[o].powValid
             /\ call(o).new_block = local[o].new_block /\ call(o).accepted = local[o].accepted
             /\ call(o).registered = local[o].registered /\ call(o).found = local[o].found
  <2>1. local[o] \in CallType
    BY DEF IInv, Types
  <2> HIDE DEF raced
  <2> QED BY <1>1, <2>1, Zenon DEF CallType
<1>3. local' = [o \in Thread |-> call(o)] /\ pc' = [pc EXCEPT ![th] = "assign"]
  BY Zenon DEF SetProgpowMiningAddress, Goto
<1> HIDE DEF call
<1>4. /\ local' \in [Thread -> CallType] /\ pc' \in [Thread -> Labels] /\ pc'[th] = "assign"
      /\ \A o \in Thread : local'[o] = call(o)
      /\ \A o \in Thread \ {th} : pc'[o] = pc[o]
  BY <1>2, <1>3 DEF IInv, Types, Labels
<1>5. \A other \in Thread \ {th} : SameCall(other)
  BY <1>2, <1>4 DEF SameCall
<1>6. Types'
  <2>1. /\ updates' = updates + 1
        /\ UNCHANGED <<cs_main, chainVars, nTransactionsUpdated, rpcRunning, cacheVars, served,
                       g_progpow_block_templates, g_progpow_coinbase_script>>
    BY Zenon DEF SetProgpowMiningAddress
  <2> QED BY <1>4, <2>1 DEF IInv, Types
<1>7. pc[th] = "idle"
  BY Zenon DEF SetProgpowMiningAddress
<1>8. SubmitInv(th)' /\ local'[th].template.prev \in stored /\ ~local'[th].new_block
  BY <1>2, <1>4, <1>7, NotSubmitting DEF SubmitInv, CaughtLabels
<1> QED BY <1>4, <1>5, <1>6, <1>7, <1>8, CallStep, Zenon DEF SetProgpowMiningAddress, GbtLabels

LEMMA FindTemplatePreserves ==
  ASSUME IInv, NEW th \in Thread, NEW s \in served, NEW powValid \in BOOLEAN,
         FindTemplate(th, s.template, powValid)
  PROVE  IInv'
<1> DEFINE call == [local[th] EXCEPT !.template = s.template, !.powValid = powValid]
<1>1. s.template \in Template /\ s.template.prev \in stored /\ pc[th] = "idle"
  BY DEF IInv, Types, KnownParents, AnswerType, FindTemplate
<1>2. /\ call \in CallType /\ call.template.prev \in stored
      /\ ~call.new_block /\ ~call.accepted /\ ~call.registered /\ call.found = "no"
  BY <1>1, NotSubmitting, Zenon DEF CallType, CaughtLabels
<1>3. local' = [local EXCEPT ![th] = call] /\ pc' = [pc EXCEPT ![th] = "register"]
  BY Zenon DEF FindTemplate, Goto
<1> HIDE DEF call
<1> QED BY <1>1, <1>2, <1>3, FreshStep, Zenon
        DEF FindTemplate, Labels, GbtLabels, CaughtLabels, IInv, Types

LEMMA MissTemplatePreserves ==
  ASSUME IInv, NEW th \in Thread, NEW s \in served, MissTemplate(th, s.template)
  PROVE  IInv'
<1> DEFINE call == [local[th] EXCEPT !.template = s.template, !.answer = "not found"]
<1>1. s.template \in Template /\ s.template.prev \in stored /\ pc[th] = "idle"
  BY Zenon DEF IInv, Types, KnownParents, AnswerType, MissTemplate
<1>2. /\ call \in CallType /\ call.template.prev \in stored
      /\ ~call.new_block /\ ~call.accepted /\ ~call.registered /\ call.found = "no"
  BY <1>1, NotSubmitting, Zenon DEF CallType, CaughtLabels
<1>3. local' = [local EXCEPT ![th] = call] /\ pc' = [pc EXCEPT ![th] = "answered"]
  BY Zenon DEF MissTemplate, Goto
<1> HIDE DEF call
<1> QED BY <1>1, <1>2, <1>3, FreshStep, Zenon
        DEF MissTemplate, Labels, GbtLabels, CaughtLabels, IInv, Types

LEMMA SubmitBlockPreserves ==
  ASSUME IInv, NEW th \in Thread, NEW s \in served, SubmitBlock(th, s.template)
  PROVE  IInv'
<1> DEFINE call == [local[th] EXCEPT !.template = s.template, !.powValid = TRUE]
<1>1. s.template \in Template /\ s.template.prev \in stored /\ pc[th] = "idle"
  BY DEF IInv, Types, KnownParents, AnswerType, SubmitBlock
<1>2. /\ call \in CallType /\ call.template.prev \in stored
      /\ ~call.new_block /\ ~call.accepted /\ ~call.registered /\ call.found = "no"
  BY <1>1, NotSubmitting, Zenon DEF CallType, CaughtLabels
<1>3. local' = [local EXCEPT ![th] = call] /\ pc' = [pc EXCEPT ![th] = "register"]
  BY Zenon DEF SubmitBlock, Goto
<1> HIDE DEF call
<1> QED BY <1>1, <1>2, <1>3, FreshStep, Zenon
        DEF SubmitBlock, Labels, GbtLabels, CaughtLabels, IInv, Types

LEMMA RegisterStateCatcherPreserves ==
  ASSUME IInv, NEW th \in Thread, RegisterStateCatcher(th)
  PROVE  IInv'
<1> DEFINE call == [local[th] EXCEPT !.registered = TRUE]
<1>1. pc[th] = "register"
  BY Zenon DEF RegisterStateCatcher
<1>2. /\ call \in CallType /\ call.template.prev \in stored
      /\ ~call.new_block /\ ~call.accepted /\ call.registered /\ call.found = "no"
  BY <1>1, NotSubmitting, Zenon DEF CallType, CaughtLabels
<1>3. local' = [local EXCEPT ![th] = call] /\ pc' = [pc EXCEPT ![th] = "accept"]
  BY Zenon DEF RegisterStateCatcher, Goto
<1> HIDE DEF call
<1> QED BY <1>1, <1>2, <1>3, FreshStep, Zenon
        DEF RegisterStateCatcher, Labels, GbtLabels, CaughtLabels, IInv, Types

LEMMA AnswerPreserves ==
  ASSUME IInv, NEW th \in Thread, Answer(th)
  PROVE  IInv'
<1> DEFINE answer == IF ~local[th].new_block /\ local[th].accepted THEN "duplicate"
                     ELSE IF local[th].found = "no" THEN "inconclusive" ELSE local[th].found
           call == [local[th] EXCEPT !.registered = FALSE, !.answer = answer]
<1>1. local[th] \in CallType /\ local[th].template.prev \in stored /\ pc[th] = "answer"
  BY Zenon DEF IInv, Types, KnownParents, Answer
<1>2. answer \in {"duplicate", "inconclusive", "invalid", "valid"}
  BY <1>1, Zenon DEF CallType
<1>3. local' = [local EXCEPT ![th] = call] /\ pc' = [pc EXCEPT ![th] = "answered"]
  BY Zenon DEF Answer, Goto
<1> HIDE DEF answer
<1>4. /\ call \in CallType /\ ~call.registered
      /\ call.template = local[th].template /\ call.powValid = local[th].powValid
      /\ call.new_block = local[th].new_block /\ call.accepted = local[th].accepted
      /\ call.found = local[th].found
  BY <1>1, <1>2, Zenon DEF CallType
<1> HIDE DEF call
<1>5. /\ pc' \in [Thread -> Labels] /\ local' \in [Thread -> CallType]
      /\ pc'[th] = "answered" /\ local'[th] = call
      /\ \A other \in Thread \ {th} : SameCall(other)
  BY <1>3, <1>4, OneCall, Zenon DEF Labels
<1>6. Solved(local'[th]) = Solved(local[th])
  BY <1>4, <1>5, Zenon DEF Solved
<1>7. Types'
  BY <1>5, Zenon DEF IInv, Types, Answer
<1>8. SubmitInv(th)'
  BY <1>4, <1>5, <1>6, Zenon DEF IInv, SubmitInv, CaughtLabels, Answer
<1>9. UNCHANGED <<cs_main, tip, stored, blockChecked, pindexPrev, block_template,
                  nTransactionsUpdatedLast, served>>
  BY Zenon DEF Answer
<1> QED BY <1>1, <1>4, <1>5, <1>6, <1>7, <1>8, <1>9, CallStep, Zenon DEF GbtLabels

-----------------------------------------------------------------------------
(* getblocktemplate under cs_main.                                         *)

\* Only the holder of cs_main is in one of these steps.
LEMMA HolderAlone ==
  ASSUME IInv, NEW th \in Thread, pc[th] \in GbtLabels
  PROVE  /\ cs_main = th /\ local[th].tip = tip
         /\ \A other \in Thread \ {th} : pc[other] \notin GbtLabels
BY Zenon DEF IInv, GbtInv

\* A step of the call that takes, holds or releases cs_main: the chain is the same, and
\* the call submits nothing.
LEMMA HolderStep ==
  ASSUME IInv, NEW th \in Thread, Types', KnownParents', CacheInv', LongpollIdHonest',
         \A other \in Thread \ {th} : SameCall(other) /\ pc[other] \notin GbtLabels,
         UNCHANGED <<tip, stored, blockChecked>>,
         pc[th] \notin CaughtLabels \cup {"answered"},
         pc'[th] \notin CaughtLabels \cup {"answered"},
         cs_main' \in {th, Nobody},
         GbtInv(th)', ~local'[th].new_block, ~local'[th].accepted, ~local'[th].registered,
         local'[th].found = "no"
  PROVE  IInv'
<1>1. \A other \in Thread \ {th} : Solved(local'[other]) = Solved(local[other])
  BY Zenon DEF SameCall, Solved
<1>2. NewOnce'
  BY <1>1 DEF IInv, NewOnce, SameCall
<1>3. ASSUME NEW other \in Thread
      PROVE  GbtInv(other)'
  <2>1. CASE other # th
    <3>1. cs_main' # other /\ pc'[other] = pc[other] /\ pc[other] \notin GbtLabels
      BY <2>1, NamesAssumption, Zenon DEF SameCall
    <3> QED BY <3>1, Zenon DEF GbtInv, GbtLabels
  <2> QED BY <2>1, Zenon
<1>4. ASSUME NEW other \in Thread
      PROVE  SubmitInv(other)'
  <2>1. CASE other # th
    BY <1>1, <2>1 DEF IInv, SubmitInv, SameCall
  <2>2. CASE other = th
    BY <2>2, Zenon DEF SubmitInv, CaughtLabels
  <2> QED BY <2>1, <2>2, Zenon
<1> QED BY <1>2, <1>3, <1>4, Zenon DEF IInv

\* cs_main is taken and the tip is read.
LEMMA TakeLock ==
  ASSUME IInv, NEW th \in Thread, pc[th] \in {"idle", "relock"}, cs_main = Nobody, cs_main' = th,
         local' = [local EXCEPT ![th].tip = tip], pc' = [pc EXCEPT ![th] = "update"],
         UNCHANGED <<chainVars, mempoolVars, rpcRunning, cacheVars, served,
                     g_progpow_block_templates, g_progpow_coinbase_script>>
  PROVE  IInv'
<1> DEFINE call == [local[th] EXCEPT !.tip = tip]
<1>1. tip \in Hash /\ pc[th] \notin CaughtLabels \cup {"answered"}
  BY Zenon DEF IInv, Types, CaughtLabels
<1>2. /\ call \in CallType /\ call.template.prev \in stored /\ call.tip = tip
      /\ ~call.new_block /\ ~call.accepted /\ ~call.registered /\ call.found = "no"
  BY <1>1, NotSubmitting, Zenon DEF CallType
<1>3. local' = [local EXCEPT ![th] = call]
  BY Zenon
<1> HIDE DEF call
<1>4. /\ pc' \in [Thread -> Labels] /\ local' \in [Thread -> CallType]
      /\ pc'[th] = "update" /\ local'[th] = call
      /\ \A other \in Thread \ {th} : SameCall(other)
  BY <1>2, <1>3, OneCall, Zenon DEF Labels, GbtLabels
<1>5. \A other \in Thread : pc[other] \notin GbtLabels
  BY NamesAssumption, Zenon DEF IInv, GbtInv
<1>6. Types'
  BY <1>4, Zenon DEF IInv, Types
<1>7. KnownParents' /\ CacheInv' /\ LongpollIdHonest'
  BY <1>2, <1>4 DEF IInv, KnownParents, CacheInv, LongpollIdHonest, SameCall
<1>8. GbtInv(th)'
  BY <1>2, <1>4, Zenon DEF GbtInv, GbtLabels
<1> QED BY <1>1, <1>2, <1>4, <1>5, <1>6, <1>7, <1>8, HolderStep, Zenon DEF CaughtLabels

LEMMA GetBlockTemplatePreserves ==
  ASSUME IInv, NEW th \in Thread, GetBlockTemplate(th)
  PROVE  IInv'
BY TakeLock, Zenon DEF GetBlockTemplate, Goto

LEMMA RelockPreserves ==
  ASSUME IInv, NEW th \in Thread, Relock(th)
  PROVE  IInv'
<1>1. CASE rpcRunning
  BY <1>1, TakeLock, Zenon DEF Relock, Goto, TipAfterWait
<1>2. CASE ~rpcRunning
  BY <1>2, LeavePreserves, Zenon DEF Relock, GbtLabels, IInv, Types
<1> QED BY <1>1, <1>2, Zenon

\* The call ends, with an error or an answer, and releases cs_main.
LEMMA ReleaseLock ==
  ASSUME IInv, NEW th \in Thread, pc[th] \in GbtLabels, Leave(th), cs_main' = Nobody,
         UNCHANGED <<chainVars, mempoolVars, rpcRunning, cacheVars,
                     g_progpow_coinbase_script>>,
         g_progpow_block_templates' \subseteq Template, served' \subseteq AnswerType,
         LongpollIdHonest', \A s \in served' : s.template.prev \in stored
  PROVE  IInv'
<1>1. /\ NoCall \in CallType /\ NoCall.template.prev \in stored
      /\ ~NoCall.new_block /\ ~NoCall.accepted /\ ~NoCall.registered /\ NoCall.found = "no"
  BY GenesisStored, NoCallType, Zenon DEF NoTemplate, NoCall
<1>2. /\ pc' \in [Thread -> Labels] /\ local' \in [Thread -> CallType]
      /\ pc'[th] = "idle" /\ local'[th] = NoCall
      /\ \A other \in Thread \ {th} : SameCall(other)
  BY <1>1, OneCall, Zenon DEF Leave, Goto, Labels
<1>3. Types'
  BY <1>2, Zenon DEF IInv, Types
<1>4. KnownParents' /\ CacheInv'
  BY <1>1, <1>2, Zenon DEF IInv, KnownParents, CacheInv, SameCall
<1>5. GbtInv(th)'
  BY <1>2, NamesAssumption, Zenon DEF GbtInv, GbtLabels
<1> QED BY <1>1, <1>2, <1>3, <1>4, <1>5, HolderAlone, HolderStep, Zenon DEF CaughtLabels, GbtLabels

LEMMA RejectRulesPreserves ==
  ASSUME IInv, NEW th \in Thread, RejectRules(th)
  PROVE  IInv'
BY ReleaseLock, Zenon DEF RejectRules, GbtLabels, IInv, Types, LongpollIdHonest, KnownParents

LEMMA UpdateBlockPreserves ==
  ASSUME IInv, NEW th \in Thread, UpdateBlock(th)
  PROVE  IInv'
<1>1. /\ pc[th] = "update" /\ cs_main = th /\ local[th].tip = tip /\ tip \in Hash
      /\ \A other \in Thread \ {th} : pc[other] \notin GbtLabels
  BY HolderAlone, Zenon DEF UpdateBlock, GbtLabels, IInv, Types
<1>2. PICK label \in {"create", "serve"} :
        /\ pc' = [pc EXCEPT ![th] = label]
        /\ label = "create" => /\ pindexPrev' = NoBlock
                               /\ nTransactionsUpdatedLast' = nTransactionsUpdated
        /\ label = "serve" => /\ pindexPrev = tip
                              /\ UNCHANGED <<pindexPrev, nTransactionsUpdatedLast>>
  BY <1>1, Zenon DEF UpdateBlock, Goto, Cleared
<1>3. /\ pc' \in [Thread -> Labels] /\ pc'[th] = label
      /\ \A other \in Thread \ {th} : SameCall(other)
  BY <1>2, Zenon DEF IInv, Types, SameCall, UpdateBlock, Labels, GbtLabels
<1>4. Types'
  <2>1. /\ pindexPrev' \in Hash \cup {NoBlock} /\ nTransactionsUpdatedLast' \in Nat
        /\ nTransactionsUpdatedLast' <= nTransactionsUpdated
    BY <1>2 DEF IInv, Types
  <2> QED BY <1>3, <2>1, Zenon DEF IInv, Types, UpdateBlock
<1>5. KnownParents' /\ LongpollIdHonest'
  BY Zenon DEF IInv, KnownParents, LongpollIdHonest, UpdateBlock
<1>6. CacheInv'
  BY <1>2, Zenon DEF IInv, CacheInv, UpdateBlock
<1>7. GbtInv(th)'
  BY <1>1, <1>2, <1>3, Zenon DEF GbtInv, GbtLabels, UpdateBlock
<1>8. ~local[th].new_block /\ ~local[th].accepted /\ ~local[th].registered /\ local[th].found = "no"
  BY <1>1, NotSubmitting, Zenon DEF CaughtLabels
<1>9. UNCHANGED <<cs_main, tip, stored, blockChecked, local>>
  BY Zenon DEF UpdateBlock
<1> QED BY <1>1, <1>2, <1>3, <1>4, <1>5, <1>6, <1>7, <1>8, <1>9, HolderStep, Zenon DEF CaughtLabels

\* A read of the payout script gives a script that is no block's of the network.
LEMMA ScriptReadType ==
  ASSUME IInv, NEW script \in ScriptRead
  PROVE  script \in AnyScript \ {PeerScript}
<1>1. CASE script = g_progpow_coinbase_script
  BY <1>1, Zenon DEF IInv, Types
<1>2. CASE script = Torn
  BY <1>2, NamesAssumption, Zenon DEF AnyScript
<1>3. CASE \E th \in Thread : script = local[th].script
  <2>1. PICK th \in Thread : script = local[th].script
    BY <1>3, Zenon
  <2>2. local[th] \in CallType
    BY Zenon DEF IInv, Types
  <2> QED BY <2>1, <2>2, Zenon DEF CallType
<1> QED BY <1>1, <1>2, <1>3, Zenon DEF ScriptRead, Assigning

LEMMA CreateNewBlockPreserves ==
  ASSUME IInv, NEW th \in Thread, CreateNewBlock(th)
  PROVE  IInv'
<1>1. /\ pc[th] = "create" /\ cs_main = th /\ local[th].tip = tip /\ tip \in stored /\ tip \in Hash
      /\ \A other \in Thread \ {th} : pc[other] \notin GbtLabels
  BY HolderAlone, Zenon DEF CreateNewBlock, GbtLabels, IInv, Types
<1>2. CASE Leave(th) /\ cs_main' = Nobody /\ UNCHANGED <<block_template, pindexPrev>>
  BY <1>1, <1>2, ReleaseLock, Zenon DEF CreateNewBlock, GbtLabels, IInv, Types, LongpollIdHonest,
     KnownParents
<1>3. CASE /\ \E script \in ScriptRead :
                block_template' = [prev |-> tip, script |-> script, mempool |-> FilledFrom]
           /\ pindexPrev' = local[th].tip
           /\ Goto(th, "serve")
           /\ UNCHANGED <<local, cs_main>>
  <2>1. PICK script \in ScriptRead :
          block_template' = [prev |-> tip, script |-> script, mempool |-> nTransactionsUpdated]
    BY <1>3, Zenon DEF FilledFrom
  <2>2. /\ block_template' \in Template /\ block_template'.prev = tip
        /\ block_template'.mempool = nTransactionsUpdated
    BY <1>1, <2>1, ScriptReadType, Zenon DEF Template, IInv, Types
  <2>3. /\ pc' \in [Thread -> Labels] /\ pc'[th] = "serve" /\ pindexPrev' = tip
        /\ \A other \in Thread \ {th} : SameCall(other)
    BY <1>1, <1>3, Zenon DEF IInv, Types, SameCall, Goto, Labels, GbtLabels
  <2>4. UNCHANGED <<cs_main, tip, stored, blockChecked, local, nTransactionsUpdatedLast,
                    served>>
    BY <1>3, Zenon DEF CreateNewBlock
  <2>5. Types'
    BY <1>1, <2>2, <2>3, <2>4, Zenon DEF IInv, Types, CreateNewBlock
  <2>6. KnownParents' /\ LongpollIdHonest'
    BY <1>1, <2>2, <2>4, Zenon DEF IInv, KnownParents, LongpollIdHonest
  <2>7. CacheInv'
    BY <2>2, <2>3, <2>4, Zenon DEF IInv, Types, CacheInv
  <2>8. GbtInv(th)'
    BY <1>1, <2>3, <2>4, Zenon DEF GbtInv, GbtLabels
  <2>9. ~local[th].new_block /\ ~local[th].accepted /\ ~local[th].registered /\ local[th].found = "no"
    BY <1>1, NotSubmitting, Zenon DEF CaughtLabels
  <2> QED BY <1>1, <2>3, <2>4, <2>5, <2>6, <2>7, <2>8, <2>9, HolderStep, Zenon DEF CaughtLabels
<1> QED BY <1>2, <1>3, Zenon DEF CreateNewBlock

LEMMA InsertTemplatePreserves ==
  ASSUME IInv, NEW th \in Thread, InsertTemplate(th)
  PROVE  IInv'
<1> DEFINE call == [local[th] EXCEPT !.template = block_template]
<1>1. /\ pc[th] = "serve" /\ cs_main = th /\ local[th].tip = tip /\ pindexPrev = tip
      /\ \A other \in Thread \ {th} : pc[other] \notin GbtLabels
  <2>1. pc[th] = "serve"
    BY Zenon DEF InsertTemplate
  <2> QED BY <2>1, HolderAlone, Zenon DEF GbtLabels, IInv, GbtInv
<1>2. /\ call \in CallType /\ call.template = block_template /\ call.tip = tip
      /\ ~call.new_block /\ ~call.accepted /\ ~call.registered /\ call.found = "no"
  <2>1. block_template \in Template
    BY Zenon DEF IInv, Types
  <2> QED BY <1>1, <2>1, NotSubmitting, Zenon DEF CallType, CaughtLabels
<1>3. local' = [local EXCEPT ![th] = call] /\ pc' = [pc EXCEPT ![th] = "insert"]
  BY Zenon DEF InsertTemplate, Goto
<1> HIDE DEF call
<1>4. /\ pc' \in [Thread -> Labels] /\ local' \in [Thread -> CallType]
      /\ pc'[th] = "insert" /\ local'[th] = call
      /\ \A other \in Thread \ {th} : SameCall(other)
  BY <1>2, <1>3, OneCall, Zenon DEF Labels, GbtLabels
<1>5. Types'
  BY <1>4, Zenon DEF IInv, Types, InsertTemplate
<1>6. KnownParents' /\ CacheInv' /\ LongpollIdHonest'
  BY <1>2, <1>4 DEF IInv, KnownParents, CacheInv, LongpollIdHonest, SameCall, InsertTemplate
<1>7. GbtInv(th)'
  BY <1>1, <1>2, <1>4, Zenon DEF GbtInv, GbtLabels, InsertTemplate
<1>8. UNCHANGED <<cs_main, tip, stored, blockChecked>>
  BY Zenon DEF InsertTemplate
<1> QED BY <1>1, <1>2, <1>4, <1>5, <1>6, <1>7, <1>8, HolderStep, Zenon DEF CaughtLabels

LEMMA ReturnTemplatePreserves ==
  ASSUME IInv, NEW th \in Thread, ReturnTemplate(th)
  PROVE  IInv'
<1> DEFINE answer == [template |-> local[th].template,
                      id |-> [tip |-> local[th].tip, mempool |-> nTransactionsUpdatedLast]]
<1>1. pc[th] = "insert"
  BY Zenon DEF ReturnTemplate
<1>2. /\ local[th].tip = tip /\ pindexPrev = tip /\ local[th].template = block_template
      /\ tip \in Hash /\ block_template \in Template /\ nTransactionsUpdatedLast \in Nat
  BY <1>1, Zenon DEF IInv, GbtInv, GbtLabels, Types
<1>3. block_template.prev = tip /\ block_template.mempool >= nTransactionsUpdatedLast
  BY <1>2, NoBlockAssumption, Zenon DEF IInv, CacheInv
<1>4. /\ answer \in AnswerType /\ answer.template.prev = answer.id.tip
      /\ answer.template.mempool >= answer.id.mempool /\ answer.template.prev \in stored
  BY <1>2, <1>3, Zenon DEF AnswerType, IInv, Types
<1>5. served' = served \cup {answer}
  BY Zenon DEF ReturnTemplate
<1> HIDE DEF answer
<1>6. LongpollIdHonest' /\ served' \subseteq AnswerType /\ \A s \in served' : s.template.prev \in stored
  BY <1>4, <1>5, Zenon DEF IInv, Types, KnownParents, LongpollIdHonest
<1>7. g_progpow_block_templates' \subseteq Template
  BY <1>2, Zenon DEF ReturnTemplate, IInv, Types
<1> QED BY <1>1, <1>6, <1>7, ReleaseLock, Zenon DEF ReturnTemplate, GbtLabels

-----------------------------------------------------------------------------
(* The chain changes; getblocktemplate is not under way.                   *)

\* A new block is stored.
LEMMA StoreStep ==
  ASSUME IInv, NEW prev \in stored, NEW body \in BlockBody,
         stored' = stored \cup {Append(prev, body)}
  PROVE  /\ stored \subseteq stored' /\ stored' \subseteq Hash
         /\ \A b \in stored' : \A n \in 0 .. Len(b) : SubSeq(b, 1, n) \in stored'
<1>1. stored \subseteq Hash /\ \A b \in stored : \A n \in 0 .. Len(b) : SubSeq(b, 1, n) \in stored
  BY Zenon DEF IInv, Types, KnownParents
<1>2. Append(prev, body) \in Hash
  BY <1>1 DEF Hash
<1>3. \A b \in stored \cup {Append(prev, body)} : \A n \in 0 .. Len(b) :
        SubSeq(b, 1, n) \in stored \cup {Append(prev, body)}
  BY <1>1, PrefixesOfAppend, Zenon
<1> QED BY <1>1, <1>2, <1>3, Zenon

LEMMA PeerBlockPreserves ==
  ASSUME IInv, NEW prev \in stored, PeerBlock(prev)
  PROVE  IInv'
<1> DEFINE body == [script |-> PeerScript, mempool |-> 0, pow |-> TRUE]
<1>1. body \in BlockBody
  BY Zenon DEF BlockBody, AnyScript
<1>2. stored' = stored \cup {Append(prev, body)}
  BY Zenon DEF PeerBlock
<1> HIDE DEF body
<1>3. /\ stored \subseteq stored' /\ stored' \subseteq Hash
      /\ \A b \in stored' : \A n \in 0 .. Len(b) : SubSeq(b, 1, n) \in stored'
  BY <1>1, <1>2, StoreStep, Zenon
<1>4. UNCHANGED <<cs_main, tip, blockChecked, mempoolVars, rpcRunning, cacheVars, pc,
                  local, served, g_progpow_block_templates, g_progpow_coinbase_script>>
  BY Zenon DEF PeerBlock
<1>5. Types'
  BY <1>3, <1>4, Zenon DEF IInv, Types
<1>6. KnownParents'
  BY <1>3, <1>4, Zenon DEF IInv, KnownParents
<1>7. CacheInv' /\ NewOnce' /\ LongpollIdHonest'
  BY <1>4, Zenon DEF IInv, CacheInv, NewOnce, LongpollIdHonest, Solved
<1>8. ASSUME NEW th \in Thread
      PROVE  GbtInv(th)' /\ SubmitInv(th)'
  <2>1. GbtInv(th) /\ SubmitInv(th)
    BY Zenon DEF IInv
  <2>2. Solved(local[th])' = Solved(local[th])
    BY <1>4, Zenon DEF Solved
  <2> QED BY <1>3, <1>4, <2>1, <2>2, Zenon DEF GbtInv, SubmitInv
<1> QED BY <1>5, <1>6, <1>7, <1>8, Zenon DEF IInv

\* CheckBlock failed.
LEMMA CheckBlockFails ==
  ASSUME IInv, NEW th \in Thread, AcceptBlock(th), ~CheckBlock(th)
  PROVE  IInv'
<1> DEFINE call == [local[th] EXCEPT !.found = "invalid"]
<1>1. /\ local[th] \in CallType /\ local[th].template.prev \in stored /\ pc[th] = "accept"
      /\ SubmitInv(th) /\ ~local[th].powValid
  BY Zenon DEF IInv, Types, KnownParents, AcceptBlock, CheckBlock
<1>2. /\ local' = [local EXCEPT ![th] = call] /\ pc' = [pc EXCEPT ![th] = "answer"]
      /\ UNCHANGED stored
  BY Zenon DEF AcceptBlock, Goto
<1>3. /\ call \in CallType /\ call.registered = local[th].registered /\ call.found = "invalid"
      /\ call.template = local[th].template /\ call.powValid = local[th].powValid
      /\ call.new_block = local[th].new_block /\ call.accepted = local[th].accepted
  BY <1>1, Zenon DEF CallType
<1> HIDE DEF call
<1>4. /\ pc' \in [Thread -> Labels] /\ local' \in [Thread -> CallType]
      /\ pc'[th] = "answer" /\ local'[th] = call
      /\ \A other \in Thread \ {th} : SameCall(other)
  BY <1>2, <1>3, OneCall, Zenon DEF Labels, CaughtLabels
<1>5. Types'
  BY <1>2, <1>4, Zenon DEF IInv, Types, AcceptBlock
<1>6. SubmitInv(th)'
  BY <1>1, <1>3, <1>4, Zenon DEF SubmitInv, CaughtLabels
<1>7. UNCHANGED <<cs_main, tip, stored, blockChecked, pindexPrev, block_template,
                  nTransactionsUpdatedLast, served>>
  BY <1>2, Zenon DEF AcceptBlock
<1>8. ~local[th].new_block
  BY <1>1, Zenon DEF SubmitInv
<1> QED BY <1>1, <1>3, <1>4, <1>5, <1>6, <1>7, <1>8, CallStep, Zenon DEF GbtLabels

\* AcceptBlock stores the block, which is new or not.
LEMMA BlockAccepted ==
  ASSUME IInv, NEW th \in Thread, AcceptBlock(th), CheckBlock(th)
  PROVE  IInv'
<1> DEFINE block == Solved(local[th])
           body == [script |-> local[th].template.script,
                    mempool |-> local[th].template.mempool, pow |-> local[th].powValid]
           call == [local[th] EXCEPT !.accepted = TRUE, !.new_block = block \notin stored]
<1>1. /\ local[th] \in CallType /\ local[th].template.prev \in stored /\ pc[th] = "accept"
      /\ SubmitInv(th) /\ local[th].powValid /\ local[th].template \in Template
  BY Zenon DEF IInv, Types, KnownParents, AcceptBlock, CheckBlock, CallType
<1>2. body \in BlockBody /\ block = Append(local[th].template.prev, body)
  BY <1>1, Zenon DEF BlockBody, Template, Solved
<1>3. /\ local' = [local EXCEPT ![th] = call] /\ pc' = [pc EXCEPT ![th] = "activate"]
      /\ stored' = stored \cup {block}
  BY Zenon DEF AcceptBlock, Goto
<1>4. /\ call \in CallType /\ call.registered = local[th].registered
      /\ call.found = local[th].found /\ call.template = local[th].template
      /\ call.powValid = local[th].powValid
      /\ call.new_block = (block \notin stored) /\ call.accepted = TRUE
  BY <1>1, Zenon DEF CallType
<1>5. /\ stored \subseteq stored' /\ stored' \subseteq Hash
      /\ \A b \in stored' : \A n \in 0 .. Len(b) : SubSeq(b, 1, n) \in stored'
  BY <1>1, <1>2, <1>3, StoreStep, Zenon
<1> HIDE DEF call, body, block
<1>6. /\ pc' \in [Thread -> Labels] /\ local' \in [Thread -> CallType]
      /\ pc'[th] = "activate" /\ local'[th] = call
      /\ \A other \in Thread \ {th} : SameCall(other)
  BY <1>3, <1>4, OneCall, Zenon DEF Labels, CaughtLabels
<1>7. UNCHANGED <<cs_main, tip, blockChecked, mempoolVars, rpcRunning, cacheVars,
                  served, g_progpow_block_templates, g_progpow_coinbase_script>>
  BY Zenon DEF AcceptBlock
<1>8. /\ \A other \in Thread \ {th} : Solved(local'[other]) = Solved(local[other])
      /\ Solved(local'[th]) = block
  BY <1>4, <1>6, Zenon DEF SameCall, Solved, block
<1>9. Types'
  BY <1>5, <1>6, <1>7, Zenon DEF IInv, Types
<1>10. KnownParents'
  BY <1>1, <1>4, <1>5, <1>6, <1>7, Zenon DEF IInv, KnownParents, SameCall
<1>11. CacheInv' /\ LongpollIdHonest'
  BY <1>7, Zenon DEF IInv, CacheInv, LongpollIdHonest
<1>12. NewOnce'
  <2>1. \A other \in Thread \ {th} : local'[other].new_block => Solved(local[other]) \in stored
    BY <1>6, Zenon DEF IInv, SubmitInv, SameCall
  <2>2. local'[th].new_block => block \notin stored
    BY <1>4, <1>6, Zenon
  <2> SUFFICES ASSUME NEW a \in Thread, NEW b \in Thread, a # b,
                      local'[a].new_block, local'[b].new_block
               PROVE  Solved(local'[a]) # Solved(local'[b])
    BY Zenon DEF NewOnce
  <2>3. CASE a = th \/ b = th
    BY <1>8, <2>1, <2>2, <2>3, Zenon
  <2>4. CASE a # th /\ b # th
    BY <1>6, <1>8, <2>4 DEF IInv, NewOnce, SameCall
  <2> QED BY <2>3, <2>4, Zenon
<1>13. ASSUME NEW other \in Thread
       PROVE  GbtInv(other)'
  BY <1>1, <1>6, <1>7 DEF IInv, GbtInv, SameCall, GbtLabels
<1>14. ASSUME NEW other \in Thread
       PROVE  SubmitInv(other)'
  <2>1. CASE other # th
    <3>1. SameCall(other) /\ Solved(local'[other]) = Solved(local[other])
      BY <1>6, <1>8, <2>1, Zenon
    <3>2. SubmitInv(other)
      BY Zenon DEF IInv
    <3> QED BY <1>5, <1>7, <3>1, <3>2, Zenon DEF SubmitInv, SameCall
  <2>2. CASE other = th
    <3>1. block \in stored' /\ blockChecked \subseteq stored
      BY <1>3, Zenon DEF IInv, Types
    <3>2. call.found = "valid" => block \in blockChecked
      BY <1>1, <1>4, Zenon DEF SubmitInv, block
    <3>3. call.registered /\ call.found # "invalid"
      BY <1>1, <1>4, Zenon DEF SubmitInv, CaughtLabels
    <3> QED BY <1>1, <1>4, <1>6, <1>7, <1>8, <2>2, <3>1, <3>2, <3>3, Zenon DEF SubmitInv, CaughtLabels
  <2> QED BY <2>1, <2>2, Zenon
<1> QED BY <1>9, <1>10, <1>11, <1>12, <1>13, <1>14, Zenon DEF IInv

LEMMA AcceptBlockPreserves ==
  ASSUME IInv, NEW th \in Thread, AcceptBlock(th)
  PROVE  IInv'
BY CheckBlockFails, BlockAccepted, Zenon

\* Who goes on from ActivateBestChain.
Activated == /\ pc' \in [Thread -> Labels]
             /\ \A th \in Thread : \/ pc'[th] = pc[th]
                                   \/ pc[th] = "activate" /\ pc'[th] = "answer"

\* The catcher of a block that is connected hears of it; the other calls are as before.
LEMMA CaughtCall ==
  ASSUME IInv, NEW b \in Candidates, ConnectTip(b), NEW th \in Thread
  PROVE  /\ local'[th] \in CallType
         /\ local'[th].tip = local[th].tip
         /\ local'[th].template = local[th].template
         /\ local'[th].powValid = local[th].powValid
         /\ local'[th].new_block = local[th].new_block
         /\ local'[th].accepted = local[th].accepted
         /\ local'[th].registered = local[th].registered
         /\ Solved(local'[th]) = Solved(local[th])
         /\ \/ /\ local'[th].found = local[th].found
               /\ local[th].registered => Solved(local[th]) \notin Connected(b)
            \/ /\ local'[th].found = "valid" /\ local[th].registered
               /\ Solved(local[th]) \in Connected(b)
<1>1. local[th] \in CallType
  BY Zenon DEF IInv, Types
<1>2. local'[th] = IF \E c \in Connected(b) : Catches(th, c)
                     THEN [local[th] EXCEPT !.found = "valid"] ELSE local[th]
  BY Zenon DEF ConnectTip
<1>3. (\E c \in Connected(b) : Catches(th, c))
        <=> local[th].registered /\ Solved(local[th]) \in Connected(b)
  BY <1>1, Zenon DEF Catches, CallType
<1>4. CASE local[th].registered /\ Solved(local[th]) \in Connected(b)
  <2>1. local'[th] = [local[th] EXCEPT !.found = "valid"]
    BY <1>2, <1>3, <1>4, Zenon
  <2>2. /\ local'[th] \in CallType
        /\ local'[th].tip = local[th].tip
        /\ local'[th].template = local[th].template
        /\ local'[th].powValid = local[th].powValid
        /\ local'[th].new_block = local[th].new_block
        /\ local'[th].accepted = local[th].accepted
        /\ local'[th].registered = local[th].registered
        /\ local'[th].found = "valid"
    BY <1>1, <2>1, Zenon DEF CallType
  <2>3. Solved(local'[th]) = Solved(local[th])
    BY <2>2, Zenon DEF Solved
  <2> QED BY <1>4, <2>2, <2>3, Zenon
<1>5. CASE ~(local[th].registered /\ Solved(local[th]) \in Connected(b))
  <2>1. local'[th] = local[th]
    BY <1>2, <1>3, <1>5, Zenon
  <2>2. Solved(local'[th]) = Solved(local[th])
    BY <2>1, Zenon
  <2> QED BY <1>1, <1>5, <2>1, <2>2, Zenon
<1> QED BY <1>4, <1>5, Zenon

\* A new tip: the templates handed out stay on known blocks, and every submission knows
\* what became of its block.
LEMMA ConnectTipPreserves ==
  ASSUME IInv, NEW b \in Candidates, ConnectTip(b), Activated, cs_main = Nobody,
         UNCHANGED <<cs_main, stored, updates, rpcRunning, cacheVars, served,
                     g_progpow_block_templates, g_progpow_coinbase_script>>
  PROVE  IInv'
<1>1. b \in stored /\ Connected(b) \subseteq stored
  BY ConnectedStored, Zenon DEF Candidates
<1>2. /\ tip' = b /\ blockChecked' = blockChecked \cup Connected(b)
      /\ nTransactionsUpdated' = nTransactionsUpdated + 1
      /\ local' \in [Thread -> CallType]
  <2>1. \A th \in Thread : local'[th] \in CallType
    BY CaughtCall, Zenon
  <2> QED BY <2>1, Zenon DEF ConnectTip
<1>3. Types'
  BY <1>1, <1>2 DEF IInv, Types, Activated
<1>4. KnownParents'
  BY CaughtCall, Zenon DEF IInv, KnownParents
<1>5. CacheInv' /\ LongpollIdHonest'
  BY Zenon DEF IInv, CacheInv, LongpollIdHonest
<1>6. NewOnce'
  <2> SUFFICES ASSUME NEW x \in Thread, NEW y \in Thread, x # y,
                      local'[x].new_block, local'[y].new_block
               PROVE  Solved(local'[x]) # Solved(local'[y])
    BY Zenon DEF NewOnce
  <2>1. /\ local[x].new_block /\ Solved(local'[x]) = Solved(local[x])
        /\ local[y].new_block /\ Solved(local'[y]) = Solved(local[y])
    BY CaughtCall, Zenon
  <2> QED BY <2>1, Zenon DEF IInv, NewOnce
<1>7. ASSUME NEW th \in Thread
      PROVE  GbtInv(th)' /\ SubmitInv(th)'
  <2>1. GbtInv(th) /\ SubmitInv(th) /\ local[th] \in CallType
    BY Zenon DEF IInv, Types
  <2>2. /\ pc[th] \notin GbtLabels
        /\ pc'[th] = pc[th] \/ (pc[th] = "activate" /\ pc'[th] = "answer")
    BY <2>1, NamesAssumption, Zenon DEF GbtInv, Activated
  <2>3. GbtInv(th)'
    BY <2>2, NamesAssumption, Zenon DEF GbtInv, GbtLabels
  <2>4. Solved(local[th]) \in Connected(b) => local[th].powValid
    BY <1>1, <2>1, SolvedHash, Zenon DEF IInv, Types
  <2>5. CASE /\ local'[th].found = local[th].found
             /\ local[th].registered => Solved(local[th]) \notin Connected(b)
    BY <1>2, <2>1, <2>2, <2>3, <2>5, CaughtCall, Zenon DEF SubmitInv, CaughtLabels
  <2>6. CASE /\ local'[th].found = "valid" /\ local[th].registered
             /\ Solved(local[th]) \in Connected(b)
    BY <1>2, <2>1, <2>2, <2>3, <2>4, <2>6, CaughtCall, Zenon DEF SubmitInv, CaughtLabels
  <2> QED BY <2>5, <2>6, CaughtCall, Zenon
<1> QED BY <1>3, <1>4, <1>5, <1>6, <1>7, Zenon DEF IInv

LEMMA ActivateBestChainPreserves ==
  ASSUME IInv, NEW th \in Thread, ActivateBestChain(th)
  PROVE  IInv'
<1>1. pc' = [pc EXCEPT ![th] = "answer"] /\ pc[th] = "activate"
  BY Zenon DEF ActivateBestChain, Goto
<1>2. Activated
  BY <1>1, Zenon DEF Activated, IInv, Types, Labels, CaughtLabels
<1>3. CASE \E b \in Candidates : ConnectTip(b)
  BY <1>2, <1>3, ConnectTipPreserves, Zenon DEF ActivateBestChain
<1>4. CASE UNCHANGED <<tip, blockChecked, nTransactionsUpdated, local>>
  <2>1. UNCHANGED <<cs_main, tip, stored, blockChecked, pindexPrev, block_template,
                    nTransactionsUpdatedLast, served, local>>
    BY <1>4, Zenon DEF ActivateBestChain
  <2>2. Types'
    BY <1>2, <1>4, Zenon DEF IInv, Types, ActivateBestChain, Activated
  <2>3. pc'[th] = "answer" /\ \A other \in Thread \ {th} : SameCall(other)
    BY <1>1, <2>1, Zenon DEF IInv, Types, SameCall
  <2>4. SubmitInv(th)'
    BY <1>1, <2>1, <2>3, Zenon DEF IInv, SubmitInv, CaughtLabels
  <2>5. local[th].template.prev \in stored
    BY Zenon DEF IInv, KnownParents
  <2> QED BY <1>1, <2>1, <2>2, <2>3, <2>4, <2>5, CallStep, Zenon DEF GbtLabels
<1> QED BY <1>3, <1>4, Zenon DEF ActivateBestChain

LEMMA PeerActivateBestChainPreserves ==
  ASSUME IInv, PeerActivateBestChain
  PROVE  IInv'
<1>1. Activated
  BY Zenon DEF PeerActivateBestChain, Activated, IInv, Types
<1> QED BY <1>1, ConnectTipPreserves, Zenon DEF PeerActivateBestChain

\* Only the mempool's counter, the bound on its changes or rpcRunning differ.
LEMMA NoCallChanges ==
  ASSUME IInv, UNCHANGED <<cs_main, chainVars, cacheVars, pc, local, served,
                           g_progpow_block_templates, g_progpow_coinbase_script>>,
         nTransactionsUpdated' \in Nat, nTransactionsUpdated' >= nTransactionsUpdated,
         updates' \in Nat, rpcRunning' \in BOOLEAN
  PROVE  IInv'
<1>1. Types'
  BY DEF IInv, Types
<1>2. KnownParents' /\ CacheInv' /\ NewOnce' /\ LongpollIdHonest'
  BY Zenon DEF IInv, KnownParents, CacheInv, NewOnce, LongpollIdHonest, Solved
<1>3. \A th \in Thread : GbtInv(th)' /\ SubmitInv(th)'
  BY Zenon DEF IInv, GbtInv, SubmitInv, Solved
<1> QED BY <1>1, <1>2, <1>3, Zenon DEF IInv

LEMMA UpdateMempoolPreserves ==
  ASSUME IInv, UpdateMempool
  PROVE  IInv'
BY NoCallChanges DEF UpdateMempool, IInv, Types

LEMMA StopRpcPreserves ==
  ASSUME IInv, StopRpc
  PROVE  IInv'
<1>1. nTransactionsUpdated \in Nat /\ updates \in Nat
  BY Zenon DEF IInv, Types
<1>2. nTransactionsUpdated' = nTransactionsUpdated + 1 /\ updates' = updates
  BY Zenon DEF StopRpc
<1>3. rpcRunning' \in BOOLEAN
  BY Zenon DEF StopRpc
<1>4. nTransactionsUpdated' \in Nat /\ nTransactionsUpdated' >= nTransactionsUpdated
  BY <1>1, <1>2
<1> QED BY <1>1, <1>2, <1>3, <1>4, NoCallChanges, Zenon DEF StopRpc

LEMMA UnchangedPreserves ==
  ASSUME IInv, UNCHANGED vars
  PROVE  IInv'
BY NoCallChanges DEF vars, IInv, Types

\* Only Answer takes a call from "answer" to "answered".
LEMMA OnlyAnswerAnswers ==
  ASSUME IInv, [Next]_vars, NEW th \in Thread, pc[th] = "answer", pc'[th] = "answered"
  PROVE  Answer(th)
<1>1. pc \in [Thread -> Labels]
  BY Zenon DEF IInv, Types
<1>2. ASSUME NEW other \in Thread, NEW label, pc' = [pc EXCEPT ![other] = label]
      PROVE  other = th /\ label = "answered"
  BY <1>1, <1>2, Zenon
<1>3. pc' # pc
  BY Zenon
<1>4. PICK other \in Thread : Call(other) \/ GbtStep(other) \/ AssignScript(other) \/ SubmitStep(other)
  BY <1>3, Zenon DEF Next, vars, PeerBlock, PeerActivateBestChain, UpdateMempool, StopRpc
<1>5. ~Call(other)
  <2>1. Call(other) => pc[other] = "idle" /\ \E label : pc' = [pc EXCEPT ![other] = label]
    BY Zenon DEF Call, Goto, GetBlockTemplate, LongPoll, SetProgpowMiningAddress, FindTemplate,
       MissTemplate, SubmitBlock
  <2> QED BY <1>2, <2>1, Zenon
<1>6. ~GbtStep(other) /\ ~AssignScript(other)
  BY <1>2, Zenon DEF GbtStep, WakeUp, Relock, RejectRules, UpdateBlock, CreateNewBlock,
     InsertTemplate, ReturnTemplate, AssignScript, Leave, Goto
<1>7. SubmitStep(other) => Answer(other) /\ other = th
  BY <1>2, Zenon DEF SubmitStep, RegisterStateCatcher, AcceptBlock, ActivateBestChain, Answer,
     Return, Leave, Goto
<1> QED BY <1>4, <1>5, <1>6, <1>7, Zenon

-----------------------------------------------------------------------------
(* The theorems.                                                           *)

LEMMA InitIInv ==
  ASSUME Init
  PROVE  IInv
<1>1. << >> \in Hash /\ Len(<< >>) = 0
  BY DEF Hash
<1>2. NoTemplate \in Template /\ NoTemplate.prev = << >>
  BY NoCallType, <1>1, Zenon DEF NoTemplate, Template, AnyScript
<1>3. \A th \in Thread : pc[th] = "idle" /\ local[th] = NoCall
  BY Zenon DEF Init
<1>4. Types
  <2>1. local \in [Thread -> CallType] /\ pc \in [Thread -> Labels]
    BY NoCallType, Zenon DEF Init, Labels
  <2> QED BY <1>1, <1>2, <2>1, NamesAssumption DEF Init, Types, AnyScript
<1>5. KnownParents
  <2>1. ASSUME NEW b \in stored, NEW n \in 0 .. Len(b)
        PROVE  SubSeq(b, 1, n) \in stored
    <3>1. b = << >> /\ n = 0
      BY <1>1 DEF Init
    <3>2. SubSeq(<< >>, 1, 0) = << >>
      OBVIOUS
    <3> QED BY <3>1, <3>2, Zenon DEF Init
  <2> QED BY <1>2, <1>3, <2>1, NoCallType, Zenon DEF KnownParents, Init
<1>6. CacheInv /\ NewOnce /\ LongpollIdHonest
  BY <1>3, Zenon DEF Init, CacheInv, NewOnce, LongpollIdHonest, NoCall
<1>7. \A th \in Thread : GbtInv(th) /\ SubmitInv(th)
  BY <1>3, NamesAssumption, Zenon DEF Init, GbtInv, SubmitInv, GbtLabels, CaughtLabels, NoCall
<1> QED BY <1>4, <1>5, <1>6, <1>7, Zenon DEF IInv

LEMMA NextIInv ==
  ASSUME IInv, [Next]_vars
  PROVE  IInv'
<1>1. CASE UNCHANGED vars
  BY <1>1, UnchangedPreserves, Zenon
<1>2. CASE \E th \in Thread : Call(th)
  <2>1. PICK th \in Thread : Call(th)
    BY <1>2, Zenon
  <2>2. CASE GetBlockTemplate(th)
    BY <2>2, GetBlockTemplatePreserves, Zenon
  <2>3. CASE \E s \in served : LongPoll(th, s.id)
    BY <2>3, LongPollPreserves, Zenon
  <2>4. CASE \E script \in Script : SetProgpowMiningAddress(th, script)
    BY <2>4, SetProgpowMiningAddressPreserves, Zenon
  <2>5. CASE \E s \in served, powValid \in BOOLEAN : FindTemplate(th, s.template, powValid)
    BY <2>5, FindTemplatePreserves, Zenon
  <2>6. CASE \E s \in served : MissTemplate(th, s.template)
    BY <2>6, MissTemplatePreserves, Zenon
  <2>7. CASE \E s \in served : SubmitBlock(th, s.template)
    BY <2>7, SubmitBlockPreserves
  <2> QED BY <2>1, <2>2, <2>3, <2>4, <2>5, <2>6, <2>7, Zenon DEF Call
<1>3. CASE \E th \in Thread : GbtStep(th)
  BY <1>3, WakeUpPreserves, RelockPreserves, RejectRulesPreserves, UpdateBlockPreserves,
     CreateNewBlockPreserves, InsertTemplatePreserves, ReturnTemplatePreserves, Zenon DEF GbtStep
<1>4. CASE \E th \in Thread : AssignScript(th)
  BY <1>4, AssignScriptPreserves, Zenon
<1>5. CASE \E th \in Thread : SubmitStep(th)
  BY <1>5, RegisterStateCatcherPreserves, AcceptBlockPreserves, ActivateBestChainPreserves,
     AnswerPreserves, ReturnPreserves, Zenon DEF SubmitStep
<1>6. CASE \E prev \in stored : PeerBlock(prev)
  BY <1>6, PeerBlockPreserves, Zenon
<1>7. CASE PeerActivateBestChain \/ UpdateMempool \/ StopRpc
  BY <1>7, PeerActivateBestChainPreserves, UpdateMempoolPreserves, StopRpcPreserves, Zenon
<1> QED BY <1>1, <1>2, <1>3, <1>4, <1>5, <1>6, <1>7, Zenon DEF Next

THEOREM AlwaysIInv == Spec => []IInv
<1>1. Init => IInv
  BY InitIInv, Zenon
<1>2. IInv /\ [Next]_vars => IInv'
  BY NextIInv, Zenon
<1> QED BY <1>1, <1>2, PTL DEF Spec

\* The hashes, templates and scripts of the node and of every call have their types,
\* and no template pays a network block's script.
THEOREM AlwaysTypeOK == Spec => []TypeOK
<1>1. IInv => TypeOK
  BY Zenon DEF IInv, Types, TypeOK, CallType
<1> QED BY <1>1, AlwaysIInv, PTL

\* getblocktemplate hands out a template on the tip of that moment, with the fields
\* computed from that same block, whatever a failed rebuild or a long poll left behind.
THEOREM AlwaysServedOnTip == Spec => []ServedOnTip
<1>1. IInv => ServedOnTip
  <2> SUFFICES ASSUME IInv, NEW th \in Thread, pc[th] = "insert"
               PROVE  local[th].template.prev = tip /\ pindexPrev = tip /\ cs_main = th
    BY Zenon DEF ServedOnTip
  <2>1. local[th].template = block_template /\ pindexPrev = tip /\ cs_main = th /\ tip \in Hash
    BY Zenon DEF IInv, GbtInv, GbtLabels, Types
  <2> QED BY <2>1, NoBlockAssumption, Zenon DEF IInv, CacheInv
<1> QED BY <1>1, AlwaysIInv, PTL

\* The longpollid of a template names its tip and a mempool it was filled from or an
\* earlier one, so no change is kept from a client that polls with it.
THEOREM AlwaysLongpollIdHonest == Spec => []LongpollIdHonest
<1>1. IInv => LongpollIdHonest
  BY Zenon DEF IInv
<1> QED BY <1>1, AlwaysIInv, PTL

\* pprpcsb and submitblock say of a new block what became of it, whichever thread
\* connected it, and only one of several submissions of it is told that it was new.
THEOREM AlwaysAnswerTruthful == Spec => AnswerTruthful
<1> DEFINE Truthful ==
      \A th \in Thread :
        (pc[th] = "answer" /\ pc'[th] = "answered") =>
          LET block == Solved(local[th])
          IN /\ local'[th].answer = "valid" => block \in blockChecked
             /\ local'[th].answer = "inconclusive" => block \in stored \ blockChecked
             /\ local'[th].answer \in {"valid", "inconclusive"} =>
                  \A other \in Thread \ {th} :
                    ~(local[other].new_block /\ Solved(local[other]) = block)
<1>1. ASSUME IInv, [Next]_vars
      PROVE  [Truthful]_vars
  <2> SUFFICES ASSUME NEW th \in Thread, pc[th] = "answer", pc'[th] = "answered"
               PROVE  LET block == Solved(local[th])
                      IN /\ local'[th].answer = "valid" => block \in blockChecked
                         /\ local'[th].answer = "inconclusive" => block \in stored \ blockChecked
                         /\ local'[th].answer \in {"valid", "inconclusive"} =>
                              \A other \in Thread \ {th} :
                                ~(local[other].new_block /\ Solved(local[other]) = block)
    BY Zenon
  <2>1. Answer(th)
    BY <1>1, OnlyAnswerAnswers, Zenon
  <2>2. local'[th].answer = IF ~local[th].new_block /\ local[th].accepted THEN "duplicate"
                            ELSE IF local[th].found = "no" THEN "inconclusive"
                            ELSE local[th].found
    <3>1. local[th] \in CallType /\ local \in [Thread -> CallType]
      BY <1>1, Zenon DEF IInv, Types
    <3> QED BY <2>1, <3>1, Zenon DEF Answer, CallType
  <2>3. SubmitInv(th) /\ local[th].registered /\ local[th] \in CallType
    BY <1>1, Zenon DEF IInv, SubmitInv, CaughtLabels, Types
  <2>4. local'[th].answer \in {"valid", "inconclusive"} => local[th].accepted /\ local[th].new_block
    BY <2>2, <2>3, Zenon DEF SubmitInv, CallType
  <2>5. local'[th].answer = "valid" => local[th].found = "valid"
    BY <2>2, Zenon
  <2>6. local'[th].answer = "inconclusive" => local[th].found = "no"
    BY <2>2, <2>3, Zenon DEF CallType
  <2>7. \A other \in Thread \ {th} :
          local[th].new_block => ~(local[other].new_block /\ Solved(local[other]) = Solved(local[th]))
    BY <1>1, Zenon DEF IInv, NewOnce
  <2> QED BY <2>3, <2>4, <2>5, <2>6, <2>7, Zenon DEF SubmitInv
<1>2. IInv /\ [Next]_vars => [Truthful]_vars
  BY <1>1, Zenon
<1>3. AnswerTruthful <=> [][Truthful]_vars
  BY Zenon DEF AnswerTruthful
<1> HIDE DEF Truthful
<1> QED BY <1>2, <1>3, AlwaysIInv, PTL DEF Spec
=============================================================================
