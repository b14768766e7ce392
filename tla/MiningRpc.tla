------------------------------ MODULE MiningRpc ------------------------------
(***************************************************************************)
(* The mining RPCs of rpc/mining.cpp as concurrent calls of the HTTP       *)
(* server's worker threads: getblocktemplate with its static template      *)
(* cache and long polling, setprogpowminingaddress, pprpcsb and            *)
(* submitblock, beside a network thread that brings other blocks.          *)
(*                                                                         *)
(* A block hash is collision free, so the hash of a block is the sequence  *)
(* of block bodies from the genesis block, which is << >>, up to it.  A    *)
(* body is what tells two blocks with one parent apart: the payout script, *)
(* the state of the mempool it was filled from, and whether it is solved.  *)
(* All blocks have the same work.  The time of a template is left out: two *)
(* templates that differ in nothing else have one header hash here.        *)
(*                                                                         *)
(* g_progpow_block_templates and g_progpow_coinbase_script are read and    *)
(* written by several threads and no lock covers every access.  An access  *)
(* that overlaps a write has any of the outcomes the race can produce.     *)
(***************************************************************************)
EXTENDS Integers, Sequences, FiniteSets

CONSTANTS
  Thread,         \* the worker threads
  Script,         \* the payout scripts an operator sets
  CScript,        \* the empty script
  Torn,           \* what a script read during its assignment may be
  PeerScript,     \* the coinbase of a block from the network
  Nobody,         \* no thread
  NoBlock,        \* nullptr, or no longpollid
  MaxHeight,      \* bound: heights of blocks
  MaxUpdates      \* bound: changes of the payout script, and of the mempool without
                  \* a new tip, together

VARIABLES
  cs_main,                    \* the getblocktemplate call that holds it
  tip,                        \* hash of the active chain's tip
  stored,                     \* hashes of the blocks the node has
  blockChecked,               \* hashes of the blocks connected so far
  nTransactionsUpdated,       \* the mempool's counter
  updates,                    \* the changes that MaxUpdates bounds
  rpcRunning,
  pindexPrev, block_template, \* statics of getblocktemplate
  nTransactionsUpdatedLast,
  g_progpow_block_templates,
  g_progpow_coinbase_script,
  pc,                         \* where each thread is
  local,                      \* the variables of its call
  served                      \* history: the answers of getblocktemplate

chainVars == <<tip, stored, blockChecked>>
mempoolVars == <<nTransactionsUpdated, updates>>
cacheVars == <<pindexPrev, block_template, nTransactionsUpdatedLast>>
vars == <<cs_main, chainVars, mempoolVars, rpcRunning, cacheVars,
          g_progpow_block_templates, g_progpow_coinbase_script, pc, local, served>>

ASSUME BoundsAssumption == MaxHeight \in Nat /\ MaxUpdates \in Nat
ASSUME NamesAssumption == /\ {CScript, Torn, PeerScript} \cap Script = {}
                          /\ PeerScript \notin {CScript, Torn}
                          /\ Nobody \notin Thread

-----------------------------------------------------------------------------
AnyScript == Script \cup {CScript, Torn, PeerScript}
BlockBody == [script : AnyScript, mempool : Nat, pow : {TRUE}]
Hash == Seq(BlockBody)
Template == [prev : Hash, script : AnyScript, mempool : Nat]

ASSUME NoBlockAssumption == NoBlock \notin Hash

NoTemplate == [prev |-> << >>, script |-> CScript, mempool |-> 0]

\* The hash of the block a template becomes with the submitted nonce and mix_hash.
Solved(call) == Append(call.template.prev, [script |-> call.template.script,
                                            mempool |-> call.template.mempool,
                                            pow |-> call.powValid])

\* What a call keeps: the tip it works on, what a long poll watches, the script
\* being assigned and whether another call assigned it too, the block submitted,
\* and submitblock_StateCatcher.
NoCall == [tip |-> << >>, watchedTx |-> 0, script |-> CScript, raced |-> FALSE,
           template |-> NoTemplate, powValid |-> FALSE, new_block |-> FALSE,
           accepted |-> FALSE, registered |-> FALSE, found |-> "no", answer |-> "none"]

Init ==
  /\ cs_main = Nobody
  /\ tip = << >>
  /\ stored = {<< >>}
  /\ blockChecked = {<< >>}
  /\ nTransactionsUpdated = 0 /\ updates = 0
  /\ rpcRunning = TRUE
  /\ pindexPrev = NoBlock
  /\ block_template = NoTemplate
  /\ nTransactionsUpdatedLast = 0
  /\ g_progpow_block_templates = {}
  /\ g_progpow_coinbase_script = CScript
  /\ pc = [th \in Thread |-> "idle"]
  /\ local = [th \in Thread |-> NoCall]
  /\ served = {}

Goto(th, label) == pc' = [pc EXCEPT ![th] = label]

\* The call returns or throws; its variables are gone.
Leave(th) == /\ Goto(th, "idle")
             /\ local' = [local EXCEPT ![th] = NoCall]

-----------------------------------------------------------------------------
(* getblocktemplate.                                                       *)

\* A call without a longpollid takes cs_main and reads the tip.
GetBlockTemplate(th) ==
  /\ pc[th] = "idle"
  /\ rpcRunning
  /\ cs_main = Nobody
  /\ cs_main' = th
  /\ local' = [local EXCEPT ![th].tip = tip]
  /\ Goto(th, "update")
  /\ UNCHANGED <<chainVars, mempoolVars, rpcRunning, cacheVars, served,
                 g_progpow_block_templates, g_progpow_coinbase_script>>

\* A call with the longpollid of an earlier answer waits without cs_main.
LongPoll(th, id) ==
  /\ pc[th] = "idle"
  /\ rpcRunning
  /\ cs_main = Nobody
  /\ local' = [local EXCEPT ![th].tip = id.tip, ![th].watchedTx = id.mempool]
  /\ Goto(th, "waiting")
  /\ UNCHANGED <<cs_main, chainVars, mempoolVars, rpcRunning, cacheVars, served,
                 g_progpow_block_templates, g_progpow_coinbase_script>>

\* Mutant: only a new tip ends the wait.
WakeReasonTip(th) == tip # local[th].tip \/ ~rpcRunning

\* A new tip, a change of the mempool, or the end of the RPC server.
WakeReason(th) ==
  \/ tip # local[th].tip
  \/ nTransactionsUpdated # local[th].watchedTx
  \/ ~rpcRunning

\* The loop around waitTipChanged sees a reason to stop and goes on to take
\* cs_main again.
WakeUp(th) ==
  /\ pc[th] = "waiting"
  /\ WakeReason(th)
  /\ local' = [local EXCEPT ![th].tip = tip]
  /\ Goto(th, "relock")
  /\ UNCHANGED <<cs_main, chainVars, mempoolVars, rpcRunning, cacheVars, served,
                 g_progpow_block_templates, g_progpow_coinbase_script>>

\* Mutant: the tip that ended the wait is taken for the tip.
TipAfterWaitStale(th) == local[th].tip

\* The tip is read again once cs_main is held.
TipAfterWait(th) == tip

\* cs_main is taken again; a server that is stopping answers with an error.
Relock(th) ==
  /\ pc[th] = "relock"
  /\ cs_main = Nobody
  /\ \/ /\ ~rpcRunning
        /\ Leave(th)
        /\ UNCHANGED cs_main
     \/ /\ rpcRunning
        /\ cs_main' = th
        /\ local' = [local EXCEPT ![th].tip = TipAfterWait(th)]
        /\ Goto(th, "update")
  /\ UNCHANGED <<chainVars, mempoolVars, rpcRunning, cacheVars, served,
                 g_progpow_block_templates, g_progpow_coinbase_script>>

\* The rule checks that precede the cache, and the one that follows it, throw.
RejectRules(th) ==
  /\ pc[th] \in {"update", "serve"}
  /\ cs_main' = Nobody
  /\ Leave(th)
  /\ UNCHANGED <<chainVars, mempoolVars, rpcRunning, cacheVars, served,
                 g_progpow_block_templates, g_progpow_coinbase_script>>

\* Mutant: a failure further on leaves the old pindexPrev in place.
ClearedKept == pindexPrev

Cleared == NoBlock

\* The template is rebuilt for a new tip, and for a changed mempool once it is
\* more than five seconds old (which it may be or not at any call).
UpdateBlock(th) ==
  /\ pc[th] = "update"
  /\ \/ /\ \/ pindexPrev = NoBlock
           \/ pindexPrev # local[th].tip
           \/ nTransactionsUpdated # nTransactionsUpdatedLast
        /\ pindexPrev' = Cleared
        /\ nTransactionsUpdatedLast' = nTransactionsUpdated
        /\ Goto(th, "create")
     \/ /\ pindexPrev = local[th].tip
        /\ Goto(th, "serve")
        /\ UNCHANGED <<pindexPrev, nTransactionsUpdatedLast>>
  /\ UNCHANGED <<cs_main, chainVars, mempoolVars, rpcRunning, block_template, local,
                 served, g_progpow_block_templates, g_progpow_coinbase_script>>

\* The threads that are assigning g_progpow_coinbase_script right now.
Assigning == {th \in Thread : pc[th] = "assign"}

\* What a read of g_progpow_coinbase_script may give.
ScriptRead ==
  {g_progpow_coinbase_script}
    \cup {local[th].script : th \in Assigning}
    \cup (IF Assigning = {} THEN {} ELSE {Torn})

\* The mempool the template is filled from: the one at the time it is built.
FilledFrom == nTransactionsUpdated

\* miner.createNewBlock throws, or gives a template on the active tip.
CreateNewBlock(th) ==
  /\ pc[th] = "create"
  /\ \/ /\ Leave(th)
        /\ cs_main' = Nobody
        /\ UNCHANGED <<block_template, pindexPrev>>
     \/ /\ \E script \in ScriptRead :
             block_template' = [prev |-> tip, script |-> script, mempool |-> FilledFrom]
        /\ pindexPrev' = local[th].tip
        /\ Goto(th, "serve")
        /\ UNCHANGED <<local, cs_main>>
  /\ UNCHANGED <<chainVars, mempoolVars, rpcRunning, nTransactionsUpdatedLast, served,
                 g_progpow_block_templates, g_progpow_coinbase_script>>

\* The insertion into g_progpow_block_templates begins.
InsertTemplate(th) ==
  /\ pc[th] = "serve"
  /\ local' = [local EXCEPT ![th].template = block_template]
  /\ Goto(th, "insert")
  /\ UNCHANGED <<cs_main, chainVars, mempoolVars, rpcRunning, cacheVars, served,
                 g_progpow_block_templates, g_progpow_coinbase_script>>

\* The insertion ends and the call returns the template and its longpollid.
ReturnTemplate(th) ==
  /\ pc[th] = "insert"
  /\ g_progpow_block_templates' = g_progpow_block_templates \cup {local[th].template}
  /\ served' = served \cup {[template |-> local[th].template,
                             id |-> [tip |-> local[th].tip,
                                     mempool |-> nTransactionsUpdatedLast]]}
  /\ cs_main' = Nobody
  /\ Leave(th)
  /\ UNCHANGED <<chainVars, mempoolVars, rpcRunning, cacheVars,
                 g_progpow_coinbase_script>>

-----------------------------------------------------------------------------
(* setprogpowminingaddress.                                                *)

SetProgpowMiningAddress(th, script) ==
  /\ pc[th] = "idle"
  /\ rpcRunning
  /\ updates < MaxUpdates
  /\ updates' = updates + 1
  /\ LET raced == IF Assigning = {} THEN {} ELSE Assigning \cup {th}
     IN local' = [other \in Thread |->
                    [local[other] EXCEPT !.script = IF other = th THEN script ELSE @,
                                         !.raced = @ \/ other \in raced]]
  /\ Goto(th, "assign")
  /\ UNCHANGED <<cs_main, chainVars, nTransactionsUpdated, rpcRunning, cacheVars, served,
                 g_progpow_block_templates, g_progpow_coinbase_script>>

\* The assignment ends; one that overlapped another may leave a mixture of the two.
AssignScript(th) ==
  /\ pc[th] = "assign"
  /\ g_progpow_coinbase_script' \in
       {local[th].script} \cup (IF local[th].raced THEN {Torn} ELSE {})
  /\ Leave(th)
  /\ UNCHANGED <<cs_main, chainVars, mempoolVars, rpcRunning, cacheVars, served,
                 g_progpow_block_templates>>

-----------------------------------------------------------------------------
(* pprpcsb and submitblock.                                                *)

\* A thread that inserts a new header hash changes the tree a search walks down;
\* one that assigns to an entry of the map writes the block it already has.
Inserting == \E th \in Thread : /\ pc[th] = "insert"
                                /\ local[th].template \notin g_progpow_block_templates

\* pprpcsb finds the template of a header hash.  powValid: the mix_hash and the
\* nonce are a solution.
FindTemplate(th, template, powValid) ==
  /\ pc[th] = "idle"
  /\ rpcRunning
  /\ template \in g_progpow_block_templates
  /\ local' = [local EXCEPT ![th].template = template, ![th].powValid = powValid]
  /\ Goto(th, "register")
  /\ UNCHANGED <<cs_main, chainVars, mempoolVars, rpcRunning, cacheVars, served,
                 g_progpow_block_templates, g_progpow_coinbase_script>>

\* pprpcsb does not find the template it was given out with: "Block header hash
\* not found in cached templates".
MissTemplate(th, template) ==
  /\ pc[th] = "idle"
  /\ rpcRunning
  /\ template \in g_progpow_block_templates => Inserting
  /\ local' = [local EXCEPT ![th].template = template, ![th].answer = "not found"]
  /\ Goto(th, "answered")
  /\ UNCHANGED <<cs_main, chainVars, mempoolVars, rpcRunning, cacheVars, served,
                 g_progpow_block_templates, g_progpow_coinbase_script>>

\* submitblock is given the whole block, made from a template given out earlier.
SubmitBlock(th, template) ==
  /\ pc[th] = "idle"
  /\ rpcRunning
  /\ cs_main = Nobody
  /\ local' = [local EXCEPT ![th].template = template, ![th].powValid = TRUE]
  /\ Goto(th, "register")
  /\ UNCHANGED <<cs_main, chainVars, mempoolVars, rpcRunning, cacheVars, served,
                 g_progpow_block_templates, g_progpow_coinbase_script>>

\* UpdateUncommittedBlockStructures under cs_main, then the state catcher is
\* registered for the block's hash.
RegisterStateCatcher(th) ==
  /\ pc[th] = "register"
  /\ cs_main = Nobody
  /\ local' = [local EXCEPT ![th].registered = TRUE]
  /\ Goto(th, "accept")
  /\ UNCHANGED <<cs_main, chainVars, mempoolVars, rpcRunning, cacheVars, served,
                 g_progpow_block_templates, g_progpow_coinbase_script>>

\* CheckBlock: the submitted nonce and mix_hash are a proof of work.
CheckBlock(th) == local[th].powValid

\* The first part of ProcessNewBlock, under cs_main: CheckBlock and AcceptBlock.
\* A block without proof of work is reported to the state catcher at once.
AcceptBlock(th) ==
  LET block == Solved(local[th])
  IN /\ pc[th] = "accept"
     /\ cs_main = Nobody
     /\ \/ /\ ~CheckBlock(th)
           /\ local' = [local EXCEPT ![th].found = "invalid"]
           /\ Goto(th, "answer")
           /\ UNCHANGED stored
        \/ /\ CheckBlock(th)
           /\ local' = [local EXCEPT ![th].accepted = TRUE,
                                     ![th].new_block = block \notin stored]
           /\ stored' = stored \cup {block}
           /\ Goto(th, "activate")
     /\ UNCHANGED <<cs_main, tip, blockChecked, mempoolVars, rpcRunning, cacheVars,
                    served, g_progpow_block_templates, g_progpow_coinbase_script>>

\* Mutant: the catcher's hash is taken before the nonce is filled in.
CatchesUnsolved(th, block) == local[th].registered /\ local[th].template.prev = block

\* submitblock_StateCatcher::BlockChecked.
Catches(th, block) == local[th].registered /\ Solved(local[th]) = block

\* ActivateBestChain makes a stored block with the most work the tip if it has
\* more work than the tip.  Every block it connects is reported to the catchers,
\* and UpdateTip counts as a change of the mempool.
Candidates == {b \in stored : Len(b) > Len(tip) /\ \A c \in stored : Len(c) <= Len(b)}
Connected(b) == {SubSeq(b, 1, n) : n \in 1 .. Len(b)} \ {SubSeq(tip, 1, n) : n \in 0 .. Len(tip)}

ConnectTip(b) ==
  /\ tip' = b
  /\ blockChecked' = blockChecked \cup Connected(b)
  /\ nTransactionsUpdated' = nTransactionsUpdated + 1
  /\ local' = [th \in Thread |-> IF \E c \in Connected(b) : Catches(th, c)
                                   THEN [local[th] EXCEPT !.found = "valid"]
                                   ELSE local[th]]

\* The second part of ProcessNewBlock.
ActivateBestChain(th) ==
  /\ pc[th] = "activate"
  /\ cs_main = Nobody
  /\ \/ \E b \in Candidates : ConnectTip(b)
     \/ /\ Candidates = {}
        /\ UNCHANGED <<tip, blockChecked, nTransactionsUpdated, local>>
  /\ Goto(th, "answer")
  /\ UNCHANGED <<cs_main, stored, updates, rpcRunning, cacheVars, served,
                 g_progpow_block_templates, g_progpow_coinbase_script>>

\* The catcher is unregistered and the call answers.
Answer(th) ==
  /\ pc[th] = "answer"
  /\ local' = [local EXCEPT ![th].registered = FALSE,
                 ![th].answer = IF ~local[th].new_block /\ local[th].accepted THEN "duplicate"
                                ELSE IF local[th].found = "no" THEN "inconclusive"
                                ELSE local[th].found]
  /\ Goto(th, "answered")
  /\ UNCHANGED <<cs_main, chainVars, mempoolVars, rpcRunning, cacheVars, served,
                 g_progpow_block_templates, g_progpow_coinbase_script>>

Return(th) ==
  /\ pc[th] = "answered"
  /\ Leave(th)
  /\ UNCHANGED <<cs_main, chainVars, mempoolVars, rpcRunning, cacheVars, served,
                 g_progpow_block_templates, g_progpow_coinbase_script>>

-----------------------------------------------------------------------------
(* The rest of the node.                                                   *)

\* ProcessNewBlock for a block from the network: stored, and connected later.
PeerBlock(prev) ==
  /\ cs_main = Nobody
  /\ Len(prev) < MaxHeight
  /\ stored' = stored \cup {Append(prev, [script |-> PeerScript, mempool |-> 0, pow |-> TRUE])}
  /\ UNCHANGED <<cs_main, tip, blockChecked, mempoolVars, rpcRunning, cacheVars, pc,
                 local, served, g_progpow_block_templates, g_progpow_coinbase_script>>

PeerActivateBestChain ==
  /\ cs_main = Nobody
  /\ \E b \in Candidates : ConnectTip(b)
  /\ UNCHANGED <<cs_main, stored, updates, rpcRunning, cacheVars, pc, served,
                 g_progpow_block_templates, g_progpow_coinbase_script>>

\* A transaction enters or leaves the mempool, or its fee is changed; loading a
\* mempool file changes fees without cs_main.
UpdateMempool ==
  /\ updates < MaxUpdates
  /\ updates' = updates + 1
  /\ nTransactionsUpdated' = nTransactionsUpdated + 1
  /\ UNCHANGED <<cs_main, chainVars, rpcRunning, cacheVars, pc, local, served,
                 g_progpow_block_templates, g_progpow_coinbase_script>>

\* Shutdown: no new calls, and a last change of the counter.  InterruptRPC and
\* AddTransactionsUpdated (init.cpp) are one step: either one ends a long poll.
StopRpc ==
  /\ rpcRunning
  /\ rpcRunning' = FALSE
  /\ nTransactionsUpdated' = nTransactionsUpdated + 1
  /\ UNCHANGED <<cs_main, chainVars, updates, cacheVars, pc, local, served,
                 g_progpow_block_templates, g_progpow_coinbase_script>>

GbtStep(th) ==
  \/ WakeUp(th)
  \/ Relock(th)
  \/ RejectRules(th)
  \/ UpdateBlock(th)
  \/ CreateNewBlock(th)
  \/ InsertTemplate(th)
  \/ ReturnTemplate(th)

SubmitStep(th) ==
  \/ RegisterStateCatcher(th)
  \/ AcceptBlock(th)
  \/ ActivateBestChain(th)
  \/ Answer(th)
  \/ Return(th)

Call(th) ==
  \/ GetBlockTemplate(th)
  \/ \E s \in served : LongPoll(th, s.id)
  \/ \E script \in Script : SetProgpowMiningAddress(th, script)
  \/ \E s \in served : /\ Len(s.template.prev) < MaxHeight
                       /\ \/ \E powValid \in BOOLEAN : FindTemplate(th, s.template, powValid)
                          \/ MissTemplate(th, s.template)
                          \/ SubmitBlock(th, s.template)

Next ==
  \/ \E th \in Thread : Call(th) \/ GbtStep(th) \/ AssignScript(th) \/ SubmitStep(th)
  \/ \E prev \in stored : PeerBlock(prev)
  \/ PeerActivateBestChain
  \/ UpdateMempool
  \/ StopRpc

Spec == Init /\ [][Next]_vars

\* A call in progress goes on: waitTipChanged returns after at most a minute, and
\* the other steps wait for nothing but cs_main.  A long poll takes cs_main back in
\* competition with the other calls: a mutex free again and again is got.
Fairness == \A th \in Thread : /\ WF_vars(GbtStep(th)) /\ WF_vars(SubmitStep(th))
                               /\ SF_vars(Relock(th))

FairSpec == Spec /\ Fairness

-----------------------------------------------------------------------------
\* Every variable has its type, and the statics hold a template of this node.
TypeOK ==
  /\ cs_main \in Thread \cup {Nobody}
  /\ tip \in stored /\ \A b \in stored : b \in Hash
  /\ blockChecked \subseteq stored
  /\ nTransactionsUpdated \in Nat /\ nTransactionsUpdatedLast \in Nat
  /\ rpcRunning \in BOOLEAN
  /\ pindexPrev = NoBlock \/ pindexPrev \in Hash
  /\ block_template \in Template
  /\ \A template \in g_progpow_block_templates : template \in Template
  /\ g_progpow_coinbase_script \in AnyScript \ {PeerScript}
  /\ \A th \in Thread : local[th].tip \in Hash /\ local[th].template \in Template

\* A template is handed out on the block that is the tip at that moment, and its
\* height and times are computed from that same block (pindexPrev), also after a
\* long poll during which the tip moved, and also when an earlier call failed
\* halfway through a rebuild of the cached template.
ServedOnTip ==
  \A th \in Thread :
    pc[th] = "insert" => /\ local[th].template.prev = tip
                         /\ pindexPrev = tip
                         /\ cs_main = th

\* The longpollid never promises more than the template contains: the template
\* was filled from the mempool the id names or from a later one, so a client that
\* polls with the id is told of every change its template lacks.
LongpollIdHonest ==
  \A s \in served : /\ s.template.prev = s.id.tip
                    /\ s.template.mempool >= s.id.mempool

\* What a submitting miner is told of a new block is what became of it, whichever
\* thread connected it: no error means it was connected, "inconclusive" that it
\* was not, and of two calls with one block only one is not told "duplicate".
AnswerTruthful ==
  [][\A th \in Thread :
       (pc[th] = "answer" /\ pc'[th] = "answered") =>
         LET block == Solved(local[th])
         IN /\ local'[th].answer = "valid" => block \in blockChecked
            /\ local'[th].answer = "inconclusive" => block \in stored \ blockChecked
            /\ local'[th].answer \in {"valid", "inconclusive"} =>
                 \A other \in Thread \ {th} :
                   ~(local[other].new_block /\ Solved(local[other]) = block)]_vars

\* A long poll returns to its caller once the mempool has changed, the tip is
\* another block or the server stops: it sees the reason although it waits without
\* cs_main, gets cs_main back while other calls keep taking it, and comes to its
\* end, with a template or with an error, under the lock.
LongPollAnswers ==
  \A th \in Thread :
    (/\ pc[th] = "waiting"
     /\ \/ tip # local[th].tip
        \/ nTransactionsUpdated # local[th].watchedTx
        \/ ~rpcRunning) ~> pc[th] = "idle"

\* The help text of setprogpowminingaddress: the address is the one used by the
\* block getblocktemplate builds, and future rewards are paid to it.
PaysCurrentAddress ==
  \A th \in Thread :
    pc[th] = "insert" /\ Assigning = {} =>
      local[th].template.script = g_progpow_coinbase_script

\* The comment on g_progpow_block_templates: a later getblocktemplate call does
\* not invalidate the header hash a miner is working on.
TemplateStaysFound ==
  \A th \in Thread :
    pc[th] = "answered" /\ local[th].answer = "not found" =>
      ~\E s \in served : s.template = local[th].template
=============================================================================
