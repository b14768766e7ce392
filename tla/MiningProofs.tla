---------------------------- MODULE MiningProofs ----------------------------
(***************************************************************************)
(* Proofs about the parts that mining rests on beside its RPCs: the cache  *)
(* of epoch contexts (EpochContext), the waits of the mining interface     *)
(* (MiningWaits), the search for nonces (CpuMining) and the beacon made of *)
(* mix_hash values (Beacon).                                               *)
(*                                                                         *)
(* For any number of threads, epochs and places for a context, a thread    *)
(* computes with a living context of its epoch, and the process keeps at   *)
(* most one context per thread.  For any number of callers, a wait for a   *)
(* tip comes back empty only when it was interrupted.  For any width of a  *)
(* nonce the budget of a search is exact where the search does not wrap,   *)
(* and for any chain two calls about one window agree where no height      *)
(* overflows.                                                              *)
(***************************************************************************)
EXTENDS EpochContext, Sequences, FiniteSetTheorems, WellFoundedInduction, TLAPS

-----------------------------------------------------------------------------
(* The cache of epoch contexts.                                            *)

\* What the position of thread t says about the mutex and the pointers.
Position(t) ==
  /\ shared_context_cs = t <=> pc[t] \in {"create", "copy"}
  /\ pc[t] \in {"lock", "create", "copy"} => thread_local_context[t] = None
  /\ pc[t] = "create" => shared_context = None
  /\ pc[t] = "copy" => Matches(shared_context, asked[t])
  /\ pc[t] \in {"return", "compute"} => Matches(thread_local_context[t], asked[t])
  /\ pc[t] = "compute" => context[t] = thread_local_context[t]

\* Some thread has no context of its own, or shares the one in shared_context, so
\* the shared context costs nothing beyond one context per thread.
SharedCounted ==
  shared_context # None =>
    \E t \in Thread : thread_local_context[t] \in {None, shared_context}

IInv == TypeOK /\ (\A t \in Thread : Position(t)) /\ SharedCounted

-----------------------------------------------------------------------------
\* At the start no context exists and every thread is idle.
LEMMA InitIInv == Init => IInv
  BY EpochContextAssumption DEF Init, IInv, TypeOK, Position, SharedCounted

\* A call to get_global_epoch_context only lets go of the caller's own context.
LEMMA GetGlobalEpochContextIInv ==
  ASSUME IInv, NEW t \in Thread, NEW epoch \in Epoch, GetGlobalEpochContext(t, epoch)
  PROVE  IInv'
<1>1. TypeOK'
  BY DEF IInv, TypeOK, GetGlobalEpochContext, ResetLocal, Goto
<1>2. ASSUME NEW u \in Thread PROVE Position(u)'
  BY EpochContextAssumption DEF IInv, TypeOK, Position, GetGlobalEpochContext, ResetLocal, Goto, Matches
<1>3. SharedCounted'
  BY DEF IInv, TypeOK, SharedCounted, GetGlobalEpochContext, ResetLocal
<1>4. QED
  BY <1>1, <1>2, <1>3 DEF IInv

\* The shared context is let go only by the thread that takes the mutex.
LEMMA CheckSharedIInv ==
  ASSUME IInv, NEW t \in Thread, CheckShared(t)
  PROVE  IInv'
<1>1. TypeOK'
  BY DEF IInv, TypeOK, CheckShared, Goto
<1>2. ASSUME NEW u \in Thread PROVE Position(u)'
  BY EpochContextAssumption DEF IInv, TypeOK, Position, CheckShared, Goto, Matches
<1>3. SharedCounted'
  BY DEF IInv, TypeOK, SharedCounted, CheckShared
<1>4. QED
  BY <1>1, <1>2, <1>3 DEF IInv

\* A new context lies where no living context is, so no epoch in use changes.
LEMMA CreateEpochContextIInv ==
  ASSUME IInv, NEW t \in Thread, NEW a \in Address, CreateEpochContext(t, a)
  PROVE  IInv'
<1>1. TypeOK'
  BY DEF IInv, TypeOK, CreateEpochContext, Goto
<1>2. \A u \in Thread : thread_local_context[u] # a
  BY EpochContextAssumption DEF CreateEpochContext, Live
<1>3. ASSUME NEW u \in Thread PROVE Position(u)'
  BY <1>2, EpochContextAssumption DEF IInv, TypeOK, Position, CreateEpochContext, Goto, Matches
<1>4. SharedCounted'
  BY DEF IInv, TypeOK, Position, SharedCounted, CreateEpochContext
<1>5. QED
  BY <1>1, <1>3, <1>4 DEF IInv

\* The thread that leaves update_local_context shares the shared context.
LEMMA CopySharedIInv ==
  ASSUME IInv, NEW t \in Thread, CopyShared(t)
  PROVE  IInv'
<1>1. TypeOK'
  BY DEF IInv, TypeOK, CopyShared, Goto
<1>2. ASSUME NEW u \in Thread PROVE Position(u)'
  BY EpochContextAssumption DEF IInv, TypeOK, Position, CopyShared, Goto, Matches
<1>3. SharedCounted'
  BY DEF IInv, TypeOK, SharedCounted, CopyShared
<1>4. QED
  BY <1>1, <1>2, <1>3 DEF IInv

\* Returning the pointer, computing with it and ending the thread are the
\* thread's own business.
LEMMA LocalStepsIInv ==
  ASSUME IInv, NEW t \in Thread, Return(t) \/ Computed(t) \/ ThreadExit(t)
  PROVE  IInv'
<1>1. TypeOK'
  BY DEF IInv, TypeOK, Position, Matches, Return, Returned, Computed, ThreadExit, Goto
<1>2. ASSUME NEW u \in Thread PROVE Position(u)'
  BY EpochContextAssumption DEF IInv, TypeOK, Position, Return, Returned, Computed, ThreadExit, Goto, Matches
<1>3. SharedCounted'
  BY DEF IInv, TypeOK, SharedCounted, Return, Computed, ThreadExit
<1>4. QED
  BY <1>1, <1>2, <1>3 DEF IInv

\* Every step of every thread preserves the invariant.
LEMMA NextIInv == IInv /\ [Next]_vars => IInv'
<1>1. CASE Next
  BY <1>1, GetGlobalEpochContextIInv, CheckSharedIInv, CreateEpochContextIInv,
     CopySharedIInv, LocalStepsIInv DEF Next
<1>2. CASE UNCHANGED vars
  BY <1>2 DEF vars, IInv, TypeOK, Position, SharedCounted, Matches
<1>3. QED
  BY <1>1, <1>2

-----------------------------------------------------------------------------
\* A thread's context is one of the living ones.
LEMMA InUseFromIInv == IInv => ContextInUse
  BY EpochContextAssumption DEF IInv, TypeOK, Position, Matches, ContextInUse, Live

\* Every living context is held by a thread of its own, once the shared one is
\* charged to the thread that SharedCounted names.
LEMMA BoundFromIInv == IInv => MemoryBound
<1> SUFFICES ASSUME IInv PROVE Cardinality(Live) <= Cardinality(Thread)
  BY DEF MemoryBound
<1>1. PICK charged \in [Thread -> Address \cup {None}] :
        \A a \in Live : \E t \in Thread : charged[t] = a
  <2>1. CASE shared_context = None
    BY <2>1 DEF IInv, TypeOK, Live
  <2>2. CASE shared_context # None
    <3>1. PICK w \in Thread : thread_local_context[w] \in {None, shared_context}
      BY <2>2 DEF IInv, SharedCounted
    <3> DEFINE f == [thread_local_context EXCEPT ![w] = shared_context]
    <3>2. f \in [Thread -> Address \cup {None}]
      BY DEF IInv, TypeOK
    <3>3. ASSUME NEW a \in Live PROVE \E t \in Thread : f[t] = a
      BY <3>1 DEF IInv, TypeOK, Live
    <3>4. QED
      BY <3>2, <3>3, Zenon
  <2>3. QED
    BY <2>1, <2>2
<1> DEFINE Holder == {t \in Thread : charged[t] \in Live}
           g == [t \in Holder |-> charged[t]]
<1>2. IsFiniteSet(Holder) /\ Cardinality(Holder) <= Cardinality(Thread)
  BY FS_Subset, EpochContextAssumption
<1>3. g \in Surjection(Holder, Live)
  BY <1>1 DEF Surjection
<1> HIDE DEF Holder, g
<1>4. IsFiniteSet(Live) /\ Cardinality(Live) <= Cardinality(Holder)
  BY <1>2, <1>3, FS_Surjection
<1>5. QED
  BY <1>2, <1>4, FS_CardinalityType, EpochContextAssumption

\* For any number of threads, whatever other threads replace, a thread computes
\* with a context that is alive and of the epoch it asked for.
THEOREM ContextInUseAlways == Spec => []ContextInUse
<1>1. Spec => []IInv
  BY InitIInv, NextIInv, PTL DEF Spec
<1>2. QED
  BY <1>1, InUseFromIInv, PTL

\* For any number of threads, no more contexts are alive than there are threads.
THEOREM MemoryBoundAlways == Spec => []MemoryBound
<1>1. Spec => []IInv
  BY InitIInv, NextIInv, PTL DEF Spec
<1>2. QED
  BY <1>1, BoundFromIInv, PTL

-----------------------------------------------------------------------------
(* The waits of the mining interface.                                      *)

CONSTANTS Miner, Watcher, Block, Null, Validation, Nobody

VARIABLES
  cs_main, m_tip_block_mutex, tip, tip_block, announce, m_interrupt, notify_due, interrupted,
  notified, at, call, empty

Waits == INSTANCE MiningWaits WITH pc <- at

\* The constants of MiningWaits.
WaitConstants == Miner \cap Watcher = {} /\ Null \notin Block

\* Where a call waits for a tip, and where it goes on because there is one.
Waiting == {"enter", "inside", "tested", "asleep"}
AfterTip == {"getTip", "ibd", "looped", "ahead", "assemble"}
WaitLabel == {"idle", "checkInterrupt", "fees"} \cup Waiting \cup AfterTip

MinerKind == {"wait", "create", "create_cooldown", "ibd_loop"}
MinerWait == {"first_tip", "new_tip", "cooldown"}
CallRecord == [kind : MinerKind \cup {"none", "next"},
               wait : MinerWait \cup {"none", "next_tip"},
               known : Block \cup {Null}, expired : BOOLEAN]

\* A call of waitTipChanged or createNewBlock is past its wait for the first tip
\* only if there is a tip: that wait has no deadline.
MinerAt(label, c, current) ==
  /\ label \in {"idle"} \cup Waiting \cup AfterTip
  /\ label # "idle" => c.kind \in MinerKind
  /\ label \in Waiting => c.wait \in MinerWait
  /\ c.wait = "first_tip" => c.expired = FALSE
  /\ label \in AfterTip => current # Null
  /\ label \in Waiting /\ c.wait # "first_tip" => current # Null

\* A call of waitNext has one kind of wait, and leaves it with a new tip or after a
\* tick.
WatcherAt(label, c) ==
  /\ label \in {"idle", "checkInterrupt", "fees", "assemble"} \cup Waiting
  /\ label \in Waiting \cup {"fees"} => c.wait = "next_tip"
  /\ label = "checkInterrupt" => c.wait \in {"none", "next_tip"}

ThreadAt(w, label, c, current) ==
  IF w \in Miner THEN MinerAt(label, c, current) ELSE WatcherAt(label, c)

\* An announced tip is a block, and the chain never loses its last block.
TipInv ==
  /\ tip \in Block \cup {Null} /\ tip_block \in Block \cup {Null}
  /\ announce \/ tip_block # Null => tip # Null

WaitsInv ==
  /\ at \in [Waits!Thread -> WaitLabel] /\ call \in [Waits!Thread -> CallRecord]
  /\ TipInv
  /\ \A w \in Waits!Thread : ThreadAt(w, at[w], call[w], tip_block)

\* Nobody has called anything.
LEMMA InitWaitsInv == Waits!Init => WaitsInv
<1> SUFFICES ASSUME Waits!Init PROVE WaitsInv
  OBVIOUS
<1>1. Waits!NoCall \in CallRecord /\ Waits!NoCall.wait = "none"
  BY DEF Waits!NoCall, CallRecord, MinerKind, MinerWait
<1>2. ASSUME NEW w \in Waits!Thread PROVE ThreadAt(w, at[w], call[w], tip_block)
  <2>1. at[w] = "idle" /\ call[w] = Waits!NoCall
    BY DEF Waits!Init
  <2> QED BY <1>1, <2>1 DEF ThreadAt, MinerAt, WatcherAt, Waiting, AfterTip
<1>3. at \in [Waits!Thread -> WaitLabel] /\ call \in [Waits!Thread -> CallRecord]
  BY <1>1 DEF Waits!Init, WaitLabel
<1>4. TipInv
  BY DEF Waits!Init, TipInv
<1> QED BY <1>2, <1>3, <1>4 DEF WaitsInv

\* A step of one thread disturbs no other.
LEMMA ThreadMoves ==
  ASSUME WaitsInv, NEW w \in Waits!Thread, NEW label \in WaitLabel, NEW c \in CallRecord,
         at' = [at EXCEPT ![w] = label], call' = [call EXCEPT ![w] = c],
         UNCHANGED <<tip, tip_block, announce>>,
         ThreadAt(w, label, c, tip_block)
  PROVE  WaitsInv'
<1>1. at' \in [Waits!Thread -> WaitLabel] /\ call' \in [Waits!Thread -> CallRecord]
  BY DEF WaitsInv
<1>2. TipInv'
  BY DEF WaitsInv, TipInv
<1>3. ASSUME NEW m \in Waits!Thread PROVE ThreadAt(m, at'[m], call'[m], tip_block')
  <2>1. at \in [Waits!Thread -> WaitLabel]
        /\ call \in [Waits!Thread -> CallRecord] /\ tip_block' = tip_block
        /\ ThreadAt(m, at[m], call[m], tip_block)
    BY DEF WaitsInv
  <2>2. CASE m = w
    <3>1. at'[m] = label /\ call'[m] = c
      BY <2>1, <2>2
    <3> QED BY <2>1, <2>2, <3>1, Zenon
  <2>3. CASE m # w
    <3>1. at'[m] = at[m] /\ call'[m] = call[m]
      BY <2>1, <2>3
    <3> QED BY <2>1, <3>1, Zenon
  <2> QED BY <2>2, <2>3
<1> QED BY <1>1, <1>2, <1>3, Zenon DEF WaitsInv, Waits!Thread, ThreadAt

\* What the invariant says of one thread.
LEMMA WaitsFacts ==
  ASSUME WaitsInv, NEW w \in Waits!Thread
  PROVE  /\ at \in [Waits!Thread -> WaitLabel] /\ call \in [Waits!Thread -> CallRecord]
         /\ at[w] \in WaitLabel /\ call[w] \in CallRecord
         /\ call[w].kind \in MinerKind \cup {"none", "next"}
         /\ call[w].wait \in MinerWait \cup {"none", "next_tip"}
         /\ call[w].known \in Block \cup {Null} /\ call[w].expired \in BOOLEAN
         /\ tip \in Block \cup {Null} /\ tip_block \in Block \cup {Null}
         /\ ThreadAt(w, at[w], call[w], tip_block)
         /\ [at EXCEPT ![w] = at[w]] = at /\ [call EXCEPT ![w] = call[w]] = call
<1>1. at \in [Waits!Thread -> WaitLabel] /\ call \in [Waits!Thread -> CallRecord]
  BY DEF WaitsInv
<1>2. at[w] \in WaitLabel /\ call[w] \in CallRecord
  BY <1>1
<1>3. /\ call[w].kind \in MinerKind \cup {"none", "next"}
      /\ call[w].wait \in MinerWait \cup {"none", "next_tip"}
      /\ call[w].known \in Block \cup {Null} /\ call[w].expired \in BOOLEAN
  BY <1>2 DEF CallRecord
<1>4. [at EXCEPT ![w] = at[w]] = at /\ [call EXCEPT ![w] = call[w]] = call
  BY <1>1
<1> QED BY <1>1, <1>2, <1>3, <1>4, Zenon DEF WaitsInv, TipInv

\* The calls that a thread keeps.
LEMMA Kept ==
  ASSUME WaitsInv, NEW w \in Waits!Thread
  PROVE  /\ Waits!NoCall \in CallRecord /\ Waits!NoCall.wait = "none"
         /\ Waits!Waited(w) \in CallRecord /\ Waits!Waited(w).wait = "none"
         /\ Waits!Waited(w).kind = call[w].kind
         /\ \A b \in Block \cup {Null} :
              LET c == [Waits!Waited(w) EXCEPT !.known = b]
              IN  c \in CallRecord /\ c.wait = "none" /\ c.kind = call[w].kind
         /\ \A b \in Block \cup {Null} :
              LET c == [call[w] EXCEPT !.known = b]
              IN  /\ c \in CallRecord /\ c.wait = call[w].wait /\ c.kind = call[w].kind
                  /\ c.expired = call[w].expired
         /\ \A v \in MinerWait :
              LET c == [call[w] EXCEPT !.wait = v]
              IN  /\ c \in CallRecord /\ c.wait = v /\ c.kind = call[w].kind
                  /\ c.expired = call[w].expired
         /\ \A e \in BOOLEAN :
              LET c == [call[w] EXCEPT !.expired = e]
              IN  /\ c \in CallRecord /\ c.wait = call[w].wait /\ c.kind = call[w].kind
                  /\ c.expired = e
<1>1. call[w] \in CallRecord
  BY WaitsFacts
<1> QED BY <1>1, Zenon DEF CallRecord, MinerKind, MinerWait, Waits!NoCall, Waits!Waited

\* A call begins, or the loop of createNewBlock begins its wait again.
LEMMA StartWaitInv ==
  ASSUME WaitsInv, NEW w \in Miner, NEW kind \in MinerKind, NEW known \in Block \cup {Null},
         Waits!StartWait(w, kind, known), UNCHANGED <<tip, tip_block, announce>>
  PROVE  WaitsInv'
<1> DEFINE c == [kind |-> kind, wait |-> "first_tip", known |-> known, expired |-> FALSE]
<1>1. at' = [at EXCEPT ![w] = "enter"] /\ call' = [call EXCEPT ![w] = c]
  BY DEF Waits!StartWait, Waits!Goto
<1>2. c \in CallRecord /\ ThreadAt(w, "enter", c, tip_block)
  BY DEF CallRecord, MinerKind, MinerWait, ThreadAt, MinerAt, Waiting, AfterTip
<1>3. "enter" \in WaitLabel /\ w \in Waits!Thread
  BY DEF WaitLabel, Waiting, Waits!Thread
<1> QED BY <1>1, <1>2, <1>3, ThreadMoves, Zenon

\* The steps that begin a call.
LEMMA CallWaitsInv ==
  ASSUME WaitConstants, WaitsInv, NEW w \in Waits!Thread,
         \/ \E known \in Block \cup {Null} : Waits!WaitTipChanged(w, known)
         \/ \E kind \in {"create", "create_cooldown"} : Waits!CreateNewBlock(w, kind)
         \/ \E prev \in Block : Waits!WaitNext(w, prev)
  PROVE  WaitsInv'
<1>1. ASSUME NEW known \in Block \cup {Null}, Waits!WaitTipChanged(w, known) PROVE WaitsInv'
  <2>1. "wait" \in MinerKind /\ w \in Miner /\ Waits!StartWait(w, "wait", known)
        /\ UNCHANGED <<tip, tip_block, announce>>
    BY <1>1 DEF MinerKind, Waits!WaitTipChanged, Waits!chainVars
  <2> QED BY <2>1, StartWaitInv
<1>2. ASSUME NEW kind \in {"create", "create_cooldown"}, Waits!CreateNewBlock(w, kind)
      PROVE  WaitsInv'
  <2>1. kind \in MinerKind /\ w \in Miner /\ Waits!StartWait(w, kind, Null)
        /\ UNCHANGED <<tip, tip_block, announce>>
    BY <1>2 DEF MinerKind, Waits!CreateNewBlock, Waits!chainVars
  <2> QED BY <2>1, StartWaitInv
<1>3. ASSUME NEW prev \in Block, Waits!WaitNext(w, prev) PROVE WaitsInv'
  <2> DEFINE c == [kind |-> "next", wait |-> "next_tip", known |-> prev, expired |-> FALSE]
  <2>1. /\ at' = [at EXCEPT ![w] = "enter"] /\ call' = [call EXCEPT ![w] = c]
        /\ w \in Watcher /\ UNCHANGED <<tip, tip_block, announce>>
    BY <1>3 DEF Waits!WaitNext, Waits!Goto, Waits!chainVars
  <2>2. c \in CallRecord /\ "enter" \in WaitLabel
    BY DEF CallRecord, WaitLabel, Waiting
  <2>3. ThreadAt(w, "enter", c, tip_block)
    BY <2>1 DEF WaitConstants, ThreadAt, WatcherAt, Waiting
  <2> QED BY <2>1, <2>2, <2>3, ThreadMoves, Zenon
<1> QED BY <1>1, <1>2, <1>3

\* A thread goes to another label within its wait.
LEMMA WaitingMoves ==
  ASSUME WaitsInv, NEW w \in Waits!Thread, at[w] \in Waiting, NEW label \in Waiting,
         NEW c \in CallRecord, c.kind = call[w].kind, c.wait = call[w].wait,
         c.wait = "first_tip" => c.expired = call[w].expired,
         at' = [at EXCEPT ![w] = label], call' = [call EXCEPT ![w] = c],
         UNCHANGED <<tip, tip_block, announce>>
  PROVE  WaitsInv'
<1>1. label \in WaitLabel
  BY DEF WaitLabel
<1>2. ThreadAt(w, label, c, tip_block)
  BY WaitsFacts, Zenon DEF ThreadAt, MinerAt, WatcherAt, Waiting, AfterTip
<1> QED BY <1>1, <1>2, ThreadMoves, Zenon

\* Taking the lock, the test, sleeping, waking, and the deadline.
LEMMA SleepWaitsInv ==
  ASSUME WaitsInv, NEW w \in Waits!Thread,
         \/ Waits!Enter(w) \/ Waits!Test(w) \/ Waits!Sleep(w) \/ Waits!Wake(w)
         \/ Waits!Expire(w)
  PROVE  WaitsInv'
<1>1. call[w] \in CallRecord /\ [call EXCEPT ![w] = call[w]] = call
  BY WaitsFacts
<1>2. CASE Waits!Enter(w) \/ Waits!Test(w) \/ Waits!Sleep(w) \/ Waits!Wake(w)
  <2>1. PICK label \in Waiting : at' = [at EXCEPT ![w] = label]
    BY <1>2 DEF Waits!Enter, Waits!Test, Waits!Sleep, Waits!Wake, Waits!Goto, Waiting
  <2>2. /\ at[w] \in Waiting /\ call' = [call EXCEPT ![w] = call[w]]
        /\ UNCHANGED <<tip, tip_block, announce>>
    BY <1>1, <1>2 DEF Waits!Enter, Waits!Test, Waits!Sleep, Waits!Wake, Waiting,
                      Waits!chainVars
  <2> QED BY <1>1, <2>1, <2>2, WaitingMoves, Zenon
<1>3. CASE Waits!Expire(w)
  <2> DEFINE c == [call[w] EXCEPT !.expired = TRUE]
  <2>1. /\ at[w] \in Waiting /\ "enter" \in Waiting /\ at' = [at EXCEPT ![w] = "enter"]
        /\ call' = [call EXCEPT ![w] = c] /\ call[w].wait # "first_tip"
        /\ UNCHANGED <<tip, tip_block, announce>>
    BY <1>3 DEF Waits!Expire, Waits!Goto, Waiting, Waits!chainVars
  <2>2. c \in CallRecord /\ c.wait = call[w].wait /\ c.kind = call[w].kind
    BY Kept, Zenon
  <2> HIDE DEF c
  <2> QED BY <2>1, <2>2, WaitingMoves, Zenon
<1> QED BY <1>2, <1>3

\* A call returns.
LEMMA ReturnWaitsInv ==
  ASSUME WaitsInv, NEW w \in Waits!Thread, NEW result, Waits!Return(w, result),
         UNCHANGED <<tip, tip_block, announce>>
  PROVE  WaitsInv'
<1>1. at' = [at EXCEPT ![w] = "idle"] /\ call' = [call EXCEPT ![w] = Waits!NoCall]
  BY DEF Waits!Return, Waits!Goto
<1>2. Waits!NoCall \in CallRecord /\ Waits!NoCall.wait = "none" /\ "idle" \in WaitLabel
  BY Kept DEF WaitLabel
<1>3. ThreadAt(w, "idle", Waits!NoCall, tip_block)
  BY <1>2 DEF ThreadAt, MinerAt, WatcherAt, Waiting, AfterTip
<1> QED BY <1>1, <1>2, <1>3, ThreadMoves, Zenon

\* A call of a miner goes on with a tip known to be there.
LEMMA AfterTipMoves ==
  ASSUME WaitsInv, NEW w \in Waits!Thread, w \in Miner, tip_block # Null,
         NEW label \in AfterTip, NEW c \in CallRecord, c.kind \in MinerKind,
         c.wait # "first_tip" \/ c.expired = FALSE,
         at' = [at EXCEPT ![w] = label], call' = [call EXCEPT ![w] = c],
         UNCHANGED <<tip, tip_block, announce>>
  PROVE  WaitsInv'
<1>1. label \in WaitLabel
  BY DEF WaitLabel
<1>2. ThreadAt(w, label, c, tip_block)
  BY DEF ThreadAt, MinerAt, Waiting, AfterTip
<1> QED BY <1>1, <1>2, ThreadMoves, Zenon

\* The end of a wait that was not interrupted: the wait for the first tip ends with a
\* tip, since it has no deadline.
LEMMA WaitEndsInv ==
  ASSUME WaitsInv, NEW w \in Waits!Thread, Waits!WaitEnds(w)
  PROVE  WaitsInv'
<1>1. /\ at[w] = "inside" /\ (Waits!Awaited(w) \/ call[w].expired)
      /\ ~interrupted[Waits!Flag(w)] /\ ~(m_interrupt /\ w \in Miner)
      /\ UNCHANGED <<tip, tip_block, announce>>
  BY DEF Waits!WaitEnds, Waits!chainVars
<1>2. ThreadAt(w, "inside", call[w], tip_block) /\ call[w].expired \in BOOLEAN
      /\ call[w] \in CallRecord /\ tip_block \in Block \cup {Null}
      /\ [at EXCEPT ![w] = at[w]] = at
  BY <1>1, WaitsFacts
<1>3. CASE w \in Miner
  <2>1. call[w].kind \in MinerKind /\ call[w].wait \in MinerWait
        /\ (call[w].wait = "first_tip" => call[w].expired = FALSE)
        /\ (call[w].wait # "first_tip" => tip_block # Null)
    BY <1>2, <1>3 DEF ThreadAt, MinerAt, Waiting
  <2>2. CASE call[w].wait = "first_tip"
    <3> DEFINE c == [call[w] EXCEPT !.wait = "new_tip"]
    <3>1. tip_block # Null
      BY <1>1, <1>3, <2>1, <2>2 DEF Waits!Awaited, Waits!Condition
    <3>2. call' = [call EXCEPT ![w] = c] /\ at' = [at EXCEPT ![w] = "inside"]
      BY <1>1, <1>2, <2>2 DEF Waits!WaitEnds
    <3>3. c \in CallRecord /\ c.wait = "new_tip" /\ c.kind = call[w].kind
      BY Kept, Zenon DEF MinerWait
    <3> HIDE DEF c
    <3>4. ThreadAt(w, "inside", c, tip_block) /\ "inside" \in WaitLabel
      BY <1>3, <2>1, <3>1, <3>3 DEF ThreadAt, MinerAt, MinerWait, Waiting, AfterTip, WaitLabel
    <3> QED BY <1>1, <3>2, <3>3, <3>4, ThreadMoves, Zenon
  <2>3. CASE call[w].wait = "new_tip"
    <3>1. at' = [at EXCEPT ![w] = "getTip"] /\ call' = [call EXCEPT ![w] = Waits!Waited(w)]
      BY <2>3 DEF Waits!WaitEnds, Waits!Goto
    <3>2. "getTip" \in AfterTip /\ Waits!Waited(w) \in CallRecord
          /\ Waits!Waited(w).kind \in MinerKind /\ Waits!Waited(w).wait # "first_tip"
      BY <2>1, Kept DEF AfterTip
    <3> QED BY <1>1, <1>3, <2>1, <2>3, <3>1, <3>2, AfterTipMoves, Zenon
  <2>4. CASE call[w].wait = "cooldown"
    <3> DEFINE c == [Waits!Waited(w) EXCEPT !.known = tip_block]
    <3>1. /\ at' \in {[at EXCEPT ![w] = "ahead"], [at EXCEPT ![w] = "assemble"]}
          /\ call' \in {[call EXCEPT ![w] = Waits!Waited(w)], [call EXCEPT ![w] = c]}
      BY <2>4 DEF Waits!WaitEnds, Waits!Goto
    <3>2. /\ {"ahead", "assemble"} \subseteq AfterTip
          /\ Waits!Waited(w) \in CallRecord /\ c \in CallRecord
          /\ Waits!Waited(w).kind \in MinerKind /\ Waits!Waited(w).wait # "first_tip"
          /\ c.kind \in MinerKind /\ c.wait # "first_tip"
      BY <1>2, <2>1, Kept DEF AfterTip
    <3> HIDE DEF c
    <3>3. PICK label \in AfterTip : at' = [at EXCEPT ![w] = label]
      BY <3>1, <3>2
    <3>4. PICK d \in CallRecord : /\ call' = [call EXCEPT ![w] = d]
                                  /\ d.kind \in MinerKind /\ d.wait # "first_tip"
      BY <3>1, <3>2
    <3> QED BY <1>1, <1>3, <2>1, <2>4, <3>3, <3>4, AfterTipMoves, Zenon
  <2> QED BY <2>1, <2>2, <2>3, <2>4 DEF MinerWait
<1>4. CASE w \notin Miner
  <2> DEFINE c == [call[w] EXCEPT !.expired = FALSE]
  <2>1. call[w].wait = "next_tip"
    BY <1>2, <1>4 DEF ThreadAt, WatcherAt, Waiting
  <2>2. /\ at' = [at EXCEPT ![w] = "checkInterrupt"]
        /\ call' \in {[call EXCEPT ![w] = Waits!Waited(w)], [call EXCEPT ![w] = c]}
    BY <2>1 DEF Waits!WaitEnds, Waits!Goto
  <2>3. /\ Waits!Waited(w) \in CallRecord /\ Waits!Waited(w).wait = "none"
        /\ c \in CallRecord /\ c.wait = "next_tip"
    BY <2>1, Kept, Zenon
  <2> HIDE DEF c
  <2>4. PICK d \in CallRecord : /\ call' = [call EXCEPT ![w] = d]
                                /\ d.wait \in {"none", "next_tip"}
    BY <2>2, <2>3
  <2>5. ThreadAt(w, "checkInterrupt", d, tip_block) /\ "checkInterrupt" \in WaitLabel
    BY <1>4, <2>4 DEF ThreadAt, WatcherAt, Waiting, WaitLabel
  <2> QED BY <1>1, <2>2, <2>4, <2>5, ThreadMoves, Zenon
<1> QED BY <1>3, <1>4

\* The steps of a miner's call after its wait.
LEMMA MinerWaitsInv ==
  ASSUME WaitsInv, NEW w \in Waits!Thread,
         \/ Waits!GetTip(w) \/ Waits!WhileIbd(w) \/ Waits!Looped(w)
         \/ Waits!CooldownIfHeadersAhead(w)
  PROVE  WaitsInv'
<1>1. /\ at[w] \in {"getTip", "ibd", "looped", "ahead"}
      /\ UNCHANGED <<tip, tip_block, announce>>
  BY DEF Waits!GetTip, Waits!WhileIbd, Waits!Looped, Waits!CooldownIfHeadersAhead,
         Waits!chainVars
<1>2. ThreadAt(w, at[w], call[w], tip_block) /\ call[w] \in CallRecord
      /\ call[w].known \in Block \cup {Null} /\ tip \in Block \cup {Null}
      /\ [call EXCEPT ![w] = call[w]] = call
  BY WaitsFacts
<1>3. w \in Miner
  BY <1>1, <1>2 DEF ThreadAt, WatcherAt, Waiting
<1>4. /\ tip_block # Null /\ call[w].kind \in MinerKind
      /\ call[w].wait = "first_tip" => call[w].expired = FALSE
  BY <1>1, <1>2, <1>3 DEF ThreadAt, MinerAt, AfterTip
<1>5. CASE Waits!GetTip(w)
  <2>1. CASE call[w].kind = "wait" \/ tip = Null
    <3>1. Waits!Return(w, tip)
      BY <1>5, <2>1 DEF Waits!GetTip
    <3> QED BY <1>1, <3>1, ReturnWaitsInv
  <2>2. CASE ~(call[w].kind = "wait" \/ tip = Null)
    <3> DEFINE c == IF call[w].kind = "create" THEN call[w] ELSE [call[w] EXCEPT !.known = tip]
    <3>1. call' = [call EXCEPT ![w] = c]
      BY <1>2, <1>5, <2>2 DEF Waits!GetTip
    <3>2. PICK label \in AfterTip : at' = [at EXCEPT ![w] = label]
      BY <1>4, <1>5, <2>2 DEF Waits!GetTip, Waits!Goto, MinerKind, AfterTip
    <3>3. c \in CallRecord /\ c.kind = call[w].kind /\ c.wait = call[w].wait
          /\ c.expired = call[w].expired
      BY <1>2, Kept
    <3> HIDE DEF c
    <3> QED BY <1>1, <1>3, <1>4, <3>1, <3>2, <3>3, AfterTipMoves, Zenon
  <2> QED BY <2>1, <2>2
<1>6. CASE Waits!WhileIbd(w)
  <2>1. CASE Waits!StartWait(w, "ibd_loop", call[w].known)
    BY <1>1, <1>2, <1>3, <2>1, StartWaitInv DEF MinerKind
  <2>2. CASE Waits!Goto(w, "ahead") /\ UNCHANGED call
    <3>1. at' = [at EXCEPT ![w] = "ahead"] /\ call' = [call EXCEPT ![w] = call[w]]
          /\ "ahead" \in AfterTip
      BY <1>2, <2>2 DEF Waits!Goto, AfterTip
    <3> QED BY <1>1, <1>2, <1>3, <1>4, <3>1, AfterTipMoves, Zenon
  <2> QED BY <1>6, <2>1, <2>2 DEF Waits!WhileIbd
<1>7. CASE Waits!Looped(w)
  <2>1. CASE m_interrupt \/ interrupted["mining"]
    <3>1. Waits!Return(w, Null)
      BY <1>7, <2>1 DEF Waits!Looped
    <3> QED BY <1>1, <3>1, ReturnWaitsInv
  <2>2. CASE ~(m_interrupt \/ interrupted["mining"])
    <3> DEFINE c == [call[w] EXCEPT !.kind = "create_cooldown"]
    <3>1. at' = [at EXCEPT ![w] = "ibd"] /\ call' = [call EXCEPT ![w] = c]
          /\ "ibd" \in AfterTip
      BY <1>7, <2>2 DEF Waits!Looped, Waits!Goto, AfterTip
    <3>2. /\ c \in CallRecord /\ c.kind \in MinerKind
          /\ c.wait = call[w].wait /\ c.expired = call[w].expired
      BY <1>2 DEF CallRecord, MinerKind
    <3> HIDE DEF c
    <3> QED BY <1>1, <1>3, <1>4, <3>1, <3>2, AfterTipMoves, Zenon
  <2> QED BY <2>1, <2>2
<1>8. CASE Waits!CooldownIfHeadersAhead(w)
  <2> DEFINE c == [call[w] EXCEPT !.wait = "cooldown"]
  <2>1. CASE at' = [at EXCEPT ![w] = "enter"] /\ call' = [call EXCEPT ![w] = c]
    <3>1. c \in CallRecord /\ c.kind = call[w].kind /\ c.wait = "cooldown"
      BY Kept, Zenon DEF MinerWait
    <3> HIDE DEF c
    <3>2. ThreadAt(w, "enter", c, tip_block) /\ "enter" \in WaitLabel
      BY <1>3, <1>4, <3>1 DEF ThreadAt, MinerAt, MinerWait, Waiting, AfterTip, WaitLabel
    <3> QED BY <1>1, <2>1, <3>1, <3>2, ThreadMoves, Zenon
  <2>2. CASE /\ at' = [at EXCEPT ![w] = "assemble"]
             /\ call' = [call EXCEPT ![w] = Waits!Waited(w)]
    <3>1. "assemble" \in AfterTip /\ Waits!Waited(w) \in CallRecord
          /\ Waits!Waited(w).kind \in MinerKind /\ Waits!Waited(w).wait # "first_tip"
      BY <1>4, Kept DEF AfterTip
    <3> QED BY <1>1, <1>3, <1>4, <2>2, <3>1, AfterTipMoves, Zenon
  <2> QED BY <1>8, <2>1, <2>2 DEF Waits!CooldownIfHeadersAhead, Waits!Goto
<1> QED BY <1>5, <1>6, <1>7, <1>8

\* An interrupted wait, and the steps that a call of waitNext takes after its wait.
LEMMA OtherWaitsInv ==
  ASSUME WaitsInv, NEW w \in Waits!Thread,
         \/ Waits!Interrupted(w) \/ Waits!CheckInterrupt(w) \/ Waits!Assemble(w)
         \/ Waits!Fees(w)
  PROVE  WaitsInv'
<1>1. UNCHANGED <<tip, tip_block, announce>>
  BY DEF Waits!Interrupted, Waits!CheckInterrupt, Waits!Assemble, Waits!Fees,
         Waits!chainVars
<1>2. ThreadAt(w, at[w], call[w], tip_block) /\ call[w] \in CallRecord
      /\ [call EXCEPT ![w] = call[w]] = call
  BY WaitsFacts
<1>3. CASE \E result : Waits!Return(w, result)
  BY <1>1, <1>3, ReturnWaitsInv
<1>4. CASE /\ Waits!CheckInterrupt(w)
           /\ Waits!Goto(w, IF call[w].wait = "none" THEN "assemble" ELSE "fees")
           /\ UNCHANGED call
  <2> DEFINE label == IF call[w].wait = "none" THEN "assemble" ELSE "fees"
  <2>1. /\ at[w] = "checkInterrupt" /\ at' = [at EXCEPT ![w] = label]
        /\ call' = [call EXCEPT ![w] = call[w]]
    BY <1>2, <1>4 DEF Waits!CheckInterrupt, Waits!Goto
  <2>2. w \notin Miner /\ call[w].wait \in {"none", "next_tip"}
    BY <1>2, <2>1 DEF ThreadAt, MinerAt, WatcherAt, Waiting, AfterTip
  <2>3. ThreadAt(w, label, call[w], tip_block) /\ label \in WaitLabel
    BY <2>2 DEF ThreadAt, WatcherAt, Waiting, AfterTip, WaitLabel
  <2> HIDE DEF label
  <2> QED BY <1>1, <1>2, <2>1, <2>3, ThreadMoves, Zenon
<1>5. CASE Waits!Fees(w) /\ Waits!Goto(w, "enter") /\ UNCHANGED call
  <2>1. /\ at[w] = "fees" /\ at' = [at EXCEPT ![w] = "enter"]
        /\ call' = [call EXCEPT ![w] = call[w]]
    BY <1>2, <1>5 DEF Waits!Fees, Waits!Goto
  <2>2. ThreadAt(w, "enter", call[w], tip_block) /\ "enter" \in WaitLabel
    BY <1>2, <2>1 DEF ThreadAt, MinerAt, WatcherAt, Waiting, AfterTip, WaitLabel
  <2> QED BY <1>1, <1>2, <2>1, <2>2, ThreadMoves, Zenon
<1>6. CASE Waits!Interrupted(w) \/ Waits!Assemble(w)
  BY <1>3, <1>6, Zenon DEF Waits!Interrupted, Waits!Assemble
<1>7. CASE Waits!CheckInterrupt(w)
  BY <1>3, <1>4, <1>7, Zenon DEF Waits!CheckInterrupt
<1>8. CASE Waits!Fees(w)
  BY <1>3, <1>5, <1>8, Zenon DEF Waits!Fees
<1> QED BY <1>6, <1>7, <1>8

\* A step that moves no thread and loses no tip.
LEMMA NodeMoves ==
  ASSUME WaitsInv, at' = at, call' = call, TipInv', tip_block # Null => tip_block' # Null
  PROVE  WaitsInv'
<1>1. ASSUME NEW w \in Waits!Thread PROVE ThreadAt(w, at'[w], call'[w], tip_block')
  <2>1. ThreadAt(w, at[w], call[w], tip_block) /\ at'[w] = at[w] /\ call'[w] = call[w]
    BY WaitsFacts
  <2> QED BY <2>1, Zenon DEF ThreadAt, MinerAt
<1> QED BY <1>1, Zenon DEF WaitsInv, Waits!Thread, ThreadAt

\* The tip, its announcement, and the interrupts.
LEMMA NodeWaitsInv ==
  ASSUME WaitConstants, WaitsInv,
         \/ \E b \in Block, holder \in {Validation, Nobody} : Waits!ChangeTip(b, holder)
         \/ Waits!BlockTip
         \/ \E flag : Waits!InterruptWait(flag)
         \/ Waits!SignalInterrupt \/ Waits!ShutdownNotify \/ UNCHANGED Waits!vars
  PROVE  WaitsInv'
<1>1. TipInv
  BY DEF WaitsInv
<1>2. ASSUME NEW b \in Block, NEW holder \in {Validation, Nobody}, Waits!ChangeTip(b, holder)
      PROVE  WaitsInv'
  <2>1. /\ at' = at /\ call' = call /\ TipInv'
        /\ tip_block # Null => tip_block' # Null
    BY <1>1, <1>2 DEF Waits!ChangeTip, TipInv, WaitConstants
  <2> QED BY <2>1, NodeMoves
<1>3. CASE Waits!BlockTip
  <2>1. /\ at' = at /\ call' = call /\ TipInv'
        /\ tip_block # Null => tip_block' # Null
    BY <1>1, <1>3 DEF Waits!BlockTip, TipInv
  <2> QED BY <2>1, NodeMoves
<1>4. CASE \/ \E flag : Waits!InterruptWait(flag)
           \/ Waits!SignalInterrupt \/ Waits!ShutdownNotify \/ UNCHANGED Waits!vars
  <2>1. at' = at /\ call' = call /\ UNCHANGED <<tip, tip_block, announce>>
    BY <1>4 DEF Waits!InterruptWait, Waits!SignalInterrupt, Waits!ShutdownNotify,
                Waits!vars, Waits!chainVars
  <2>2. TipInv' /\ (tip_block # Null => tip_block' # Null)
    BY <1>1, <2>1 DEF TipInv
  <2> QED BY <2>1, <2>2, NodeMoves
<1> QED BY <1>2, <1>3, <1>4

\* Every step keeps the invariant.
LEMMA NextWaitsInv ==
  ASSUME WaitConstants
  PROVE  WaitsInv /\ [Waits!Next]_(Waits!vars) => WaitsInv'
BY CallWaitsInv, SleepWaitsInv, WaitEndsInv, MinerWaitsInv, OtherWaitsInv, NodeWaitsInv, Zenon
   DEF Waits!Next, Waits!LockStep, Waits!ThreadStep

\* The invariant holds in every reachable state.
LEMMA AlwaysWaitsInv ==
  ASSUME WaitConstants
  PROVE  Waits!Spec => []WaitsInv
BY InitWaitsInv, NextWaitsInv, PTL DEF Waits!Spec

\* A miner's call ends in four places, and in each of them it returns.
LEMMA MinerCallEnds ==
  ASSUME WaitsInv, NEW m \in Miner, at[m] # "idle", at'[m] = "idle",
         [Waits!Next]_(Waits!vars)
  PROVE  Waits!Interrupted(m) \/ Waits!GetTip(m) \/ Waits!Looped(m) \/ Waits!Assemble(m)
<1>1. m \in Waits!Thread
  BY DEF Waits!Thread
<1>2. /\ at \in [Waits!Thread -> WaitLabel]
      /\ at[m] \notin {"checkInterrupt", "fees"}
  <2>1. ThreadAt(m, at[m], call[m], tip_block) /\ at \in [Waits!Thread -> WaitLabel]
    BY <1>1, WaitsFacts
  <2> QED BY <2>1 DEF ThreadAt, MinerAt, Waiting, AfterTip
<1>3. at' # at
  OBVIOUS
<1>4. ASSUME NEW w \in Waits!Thread, NEW label, Waits!Goto(w, label)
      PROVE  w = m /\ label = "idle"
  BY <1>1, <1>2, <1>4 DEF Waits!Goto
<1>5. ASSUME NEW w \in Waits!Thread,
             \/ \E known \in Block \cup {Null} : Waits!WaitTipChanged(w, known)
             \/ \E kind \in {"create", "create_cooldown"} : Waits!CreateNewBlock(w, kind)
             \/ \E prev \in Block : Waits!WaitNext(w, prev)
             \/ Waits!Enter(w) \/ Waits!Test(w) \/ Waits!Sleep(w) \/ Waits!Wake(w)
             \/ Waits!Expire(w) \/ Waits!WhileIbd(w) \/ Waits!CooldownIfHeadersAhead(w)
      PROVE  FALSE
  <2>1. Waits!Goto(w, "enter") \/ Waits!Goto(w, "inside") \/ Waits!Goto(w, "tested")
        \/ Waits!Goto(w, "asleep")
        \/ Waits!Goto(w, "ahead") \/ Waits!Goto(w, "assemble")
    BY <1>5, Zenon DEF Waits!WaitTipChanged, Waits!CreateNewBlock, Waits!WaitNext,
       Waits!StartWait, Waits!Enter, Waits!Test, Waits!Sleep, Waits!Wake, Waits!Expire,
       Waits!WhileIbd, Waits!CooldownIfHeadersAhead
  <2> QED BY <1>4, <2>1
<1>6. ASSUME NEW w \in Waits!Thread, Waits!WaitEnds(w)
      PROVE  FALSE
  <2>1. call[w].wait \in {"first_tip", "new_tip", "cooldown", "next_tip"}
    <3>1. ThreadAt(w, at[w], call[w], tip_block) /\ at[w] = "inside"
      BY <1>6, WaitsFacts DEF Waits!WaitEnds
    <3> QED BY <3>1 DEF ThreadAt, MinerAt, WatcherAt, Waiting, MinerWait
  <2>2. \/ UNCHANGED at \/ Waits!Goto(w, "getTip") \/ Waits!Goto(w, "ahead")
        \/ Waits!Goto(w, "assemble") \/ Waits!Goto(w, "checkInterrupt")
    BY <1>6, <2>1, Zenon DEF Waits!WaitEnds
  <2> QED BY <1>3, <1>4, <2>2
<1>7. ASSUME NEW w \in Waits!Thread,
             \/ Waits!Interrupted(w) \/ Waits!GetTip(w) \/ Waits!Looped(w)
             \/ Waits!CheckInterrupt(w) \/ Waits!Assemble(w) \/ Waits!Fees(w)
      PROVE  Waits!Interrupted(m) \/ Waits!GetTip(m) \/ Waits!Looped(m) \/ Waits!Assemble(m)
  <2>1. \E label : Waits!Goto(w, label)
    BY <1>7, Zenon DEF Waits!Interrupted, Waits!GetTip, Waits!Looped, Waits!CheckInterrupt,
       Waits!Assemble, Waits!Fees, Waits!Return
  <2>2. w = m
    BY <1>4, <2>1
  <2> QED BY <1>2, <1>7, <2>2, Zenon DEF Waits!CheckInterrupt, Waits!Fees
<1>8. ASSUME \/ \E b \in Block, holder \in {Validation, Nobody} : Waits!ChangeTip(b, holder)
             \/ Waits!BlockTip
             \/ \E flag : Waits!InterruptWait(flag)
             \/ Waits!SignalInterrupt \/ Waits!ShutdownNotify \/ UNCHANGED Waits!vars
      PROVE  FALSE
  BY <1>3, <1>8 DEF Waits!ChangeTip, Waits!BlockTip, Waits!InterruptWait,
     Waits!SignalInterrupt, Waits!ShutdownNotify, Waits!vars
<1> QED BY <1>5, <1>6, <1>7, <1>8, Zenon DEF Waits!Next, Waits!LockStep, Waits!ThreadStep

\* For any number of callers and any blocks, waitTipChanged and createNewBlock come
\* back empty only when the node shuts down or the object was interrupted (miner.cpp:573):
\* their wait for the first tip has no deadline, and the chain never loses its tip.
THEOREM EmptyMeansInterruptedAlways ==
  ASSUME WaitConstants
  PROVE  Waits!Spec => Waits!EmptyMeansInterrupted
<1> DEFINE Honest == \A w \in Miner : at[w] # "idle" /\ at'[w] = "idle" /\ empty'[w]
                       => m_interrupt \/ interrupted["mining"]
<1>1. ASSUME WaitsInv, [Waits!Next]_(Waits!vars)
      PROVE  [Honest]_(Waits!vars)
  <2> SUFFICES ASSUME NEW m \in Miner, at[m] # "idle", at'[m] = "idle", empty'[m]
               PROVE  m_interrupt \/ interrupted["mining"]
    BY Zenon
  <2>1. m \in Waits!Thread
    BY DEF Waits!Thread
  <2>2. Waits!Interrupted(m) \/ Waits!GetTip(m) \/ Waits!Looped(m) \/ Waits!Assemble(m)
    BY <1>1, MinerCallEnds
  <2>3. CASE Waits!Interrupted(m)
    BY <2>3 DEF Waits!Interrupted, Waits!Flag
  <2>4. CASE Waits!GetTip(m) \/ Waits!Assemble(m)
    <3>1. tip # Null
      <4>1. at[m] \in {"getTip", "assemble"}
        BY <2>4 DEF Waits!GetTip, Waits!Assemble
      <4>2. ThreadAt(m, at[m], call[m], tip_block)
        BY <1>1, <2>1, WaitsFacts
      <4>3. tip_block # Null
        BY <4>1, <4>2 DEF ThreadAt, MinerAt, AfterTip
      <4> QED BY <1>1, <4>3 DEF WaitsInv, TipInv
    <3>2. Waits!Return(m, tip)
      <4>1. at \in [Waits!Thread -> WaitLabel] /\ call[m].kind \in MinerKind
        <5>1. ThreadAt(m, at[m], call[m], tip_block) /\ at \in [Waits!Thread -> WaitLabel]
          BY <1>1, <2>1, WaitsFacts
        <5> QED BY <5>1 DEF ThreadAt, MinerAt
      <4>2. ASSUME NEW label \in AfterTip PROVE ~Waits!Goto(m, label)
        BY <2>1, <4>1, <4>2 DEF Waits!Goto, AfterTip
      <4>3. CASE Waits!GetTip(m)
        BY <4>1, <4>2, <4>3 DEF Waits!GetTip, MinerKind, AfterTip
      <4>4. CASE Waits!Assemble(m)
        BY <4>4, Zenon DEF Waits!Assemble
      <4> QED BY <2>4, <4>3, <4>4
    <3> QED BY <3>1, <3>2, Zenon DEF Waits!Return
  <2>5. CASE Waits!Looped(m)
    <3>1. at \in [Waits!Thread -> WaitLabel]
      BY <1>1, <2>1, WaitsFacts
    <3>2. ~Waits!Goto(m, "ibd")
      BY <2>1, <3>1 DEF Waits!Goto
    <3> QED BY <2>5, <3>2, Zenon DEF Waits!Looped
  <2> QED BY <2>2, <2>3, <2>4, <2>5
<1> QED BY <1>1, AlwaysWaitsInv, PTL DEF Waits!Spec, Waits!EmptyMeansInterrupted

-----------------------------------------------------------------------------
(* The search for nonces; m_interrupt is the node's, so the one above.     *)

CONSTANTS Width, SizeWidth, GrindNonce, GrindIterations, DEFAULT_MAX_TRIES, MaxGenerate, NoNonce

VARIABLES
  command, step, start_nonce, nGenerate, max_iterations, process, outcome, budget, tried

Mining == INSTANCE CpuMining WITH pc <- step, None <- NoNonce

\* The constants of CpuMining; 2 ^ Width stands for itself, so its type is stated.  A
\* size_t has room for every budget, as it has with 64 bits.
MiningConstants ==
  /\ 2 ^ Width \in Nat /\ 2 ^ SizeWidth \in Nat /\ 2 ^ Width <= 2 ^ SizeWidth
  /\ {GrindIterations, DEFAULT_MAX_TRIES} \subseteq Mining!Uint
  /\ GrindNonce \subseteq Mining!Uint /\ NoNonce \notin Mining!Uint
  /\ MaxGenerate \in Nat

\* The nonces that the command may try do not wrap.
InRange == start_nonce + budget < 2 ^ Width

\* A command that runs has no outcome yet and a block left to find, and what its
\* searches took from the budget is what they tried.
MiningInv ==
  /\ step \in {"idle", "loop", "template", "mine", "found", "submit"}
  /\ start_nonce \in Nat /\ budget \in Nat /\ nGenerate \in Nat
  /\ \/ start_nonce = 0 /\ budget \in Mining!Uint
     \/ command = "grind" /\ start_nonce \in GrindNonce /\ budget = GrindIterations
  /\ step # "idle" => outcome = "none"
  /\ step \notin {"idle", "loop"} => nGenerate > 0
  /\ InRange =>
       /\ tried \in Nat /\ max_iterations \in Nat /\ max_iterations <= budget
       /\ outcome # "bad_target" => tried + max_iterations = budget

\* A number below the modulus is its own remainder.
LEMMA SmallRemainder ==
  ASSUME NEW m \in Nat, NEW n \in Nat, n < m
  PROVE  n % m = n
OBVIOUS

\* What search_light returns where the range does not wrap: a nonce of the range, or
\* NoNonce.
LEMMA SearchLightFacts ==
  ASSUME 2 ^ Width \in Nat, NoNonce \notin Mining!Uint,
         NEW start \in Nat, NEW iterations \in Nat, start + iterations < 2 ^ Width,
         NEW solutions, NEW nonce, nonce = Mining!SearchLight(start, iterations, solutions)
  PROVE  /\ Mining!Searched(start, iterations) = start .. start + iterations - 1
         /\ nonce # NoNonce => nonce \in start .. start + iterations - 1
<1> DEFINE found == (start .. start + iterations - 1) \cap solutions
<1>1. Mining!Searched(start, iterations) = start .. start + iterations - 1
  <2>1. start + iterations \in Nat
    OBVIOUS
  <2>2. (start + iterations) % (2 ^ Width) = start + iterations
    BY <2>1, SmallRemainder
  <2> QED BY <2>2 DEF Mining!Searched, Mining!EndNonce
<1>2. nonce = IF found = {} THEN NoNonce ELSE Mining!Min(found)
  BY <1>1 DEF Mining!SearchLight
<1>3. ASSUME found # {} PROVE Mining!Min(found) \in found
  <2>1. found \subseteq Nat
    OBVIOUS
  <2> HIDE DEF found
  <2>2. PICK x \in found : \A y \in found : <<y, x>> \notin OpToRel(<, Nat)
    BY <1>3, <2>1, NatLessThanWellFounded, WFMin, Zenon
  <2>3. ASSUME NEW y \in found PROVE x <= y
    <3>1. x \in Nat /\ y \in Nat
      BY <2>1
    <3>2. ~(y < x)
      BY <2>2, <3>1, Zenon DEF OpToRel
    <3> QED BY <3>1, <3>2
  <2> QED BY <2>3 DEF Mining!Min
<1> QED BY <1>1, <1>2, <1>3

\* At the start nothing is allowed and nothing tried.
LEMMA InitMiningInv ==
  ASSUME MiningConstants
  PROVE  Mining!Init => MiningInv
<1> SUFFICES ASSUME Mining!Init PROVE MiningInv
  OBVIOUS
<1>1. GrindIterations \in 0 .. 2 ^ Width - 1 /\ 2 ^ Width \in Nat
  BY DEF MiningConstants, Mining!Uint
<1>2. 0 < 2 ^ Width /\ 0 \in Mining!Uint
  BY <1>1 DEF Mining!Uint
<1> QED BY <1>2 DEF Mining!Init, MiningInv, InRange

\* A command begins with its whole budget.
LEMMA StartMiningInv ==
  ASSUME MiningConstants, MiningInv, NEW name, NEW label \in {"loop", "template", "mine"}, NEW n \in Nat,
         label # "loop" => n > 0,
         NEW start \in Nat, NEW tries \in Nat, NEW submit,
         \/ start = 0 /\ tries \in Mining!Uint
         \/ name = "grind" /\ start \in GrindNonce /\ tries = GrindIterations,
         Mining!Start(name, label, n, start, tries, submit)
  PROVE  MiningInv'
BY DEF MiningInv, InRange, Mining!Start

\* The commands.
LEMMA CommandMiningInv ==
  ASSUME MiningConstants, MiningInv,
         \/ \E n \in 0 .. MaxGenerate, tries \in Mining!Uint : Mining!GenerateBlocks(n, tries)
         \/ \E submit \in BOOLEAN : Mining!GenerateOne(submit)
         \/ \E start \in GrindNonce : Mining!Grind(start)
  PROVE  MiningInv'
<1>1. /\ 2 ^ Width \in Nat /\ MaxGenerate \in Nat
      /\ \A x \in Mining!Uint : x \in Nat
      /\ GrindIterations \in Mining!Uint /\ DEFAULT_MAX_TRIES \in Mining!Uint
      /\ \A start \in GrindNonce : start \in Mining!Uint
  BY DEF MiningConstants, Mining!Uint
<1>2. ASSUME NEW n \in 0 .. MaxGenerate, NEW tries \in Mining!Uint, Mining!GenerateBlocks(n, tries)
      PROVE  MiningInv'
  <2>1. n \in Nat /\ tries \in Nat
    BY <1>1
  <2>2. 0 \in Nat /\ "loop" \in {"loop", "template", "mine"}
    OBVIOUS
  <2>3. Mining!Start("generateBlocks", "loop", n, 0, tries, TRUE)
    BY <1>2, Zenon DEF Mining!GenerateBlocks
  <2> QED BY <2>1, <2>2, <2>3, StartMiningInv, Zenon
<1>3. ASSUME NEW submit \in BOOLEAN, Mining!GenerateOne(submit) PROVE MiningInv'
  <2>1. DEFAULT_MAX_TRIES \in Nat
    BY <1>1
  <2>2. 0 \in Nat /\ 1 \in Nat /\ 1 > 0 /\ "template" \in {"loop", "template", "mine"}
    OBVIOUS
  <2>3. Mining!Start("generateblock", "template", 1, 0, DEFAULT_MAX_TRIES, submit)
    BY <1>3, Zenon DEF Mining!GenerateOne
  <2> QED BY <1>1, <2>1, <2>2, <2>3, StartMiningInv, Zenon
<1>4. ASSUME NEW start \in GrindNonce, Mining!Grind(start) PROVE MiningInv'
  <2>1. start \in Nat /\ GrindIterations \in Nat
    BY <1>1
  <2>2. 1 \in Nat /\ 1 > 0 /\ "mine" \in {"loop", "template", "mine"}
    OBVIOUS
  <2>3. Mining!Start("grind", "mine", 1, start, GrindIterations, FALSE)
    BY <1>4, Zenon DEF Mining!Grind
  <2> QED BY <1>4, <2>1, <2>2, <2>3, StartMiningInv, Zenon
<1> QED BY <1>2, <1>3, <1>4

\* The search: what it took from the budget is what it tried.
LEMMA MineInRange ==
  ASSUME MiningConstants, MiningInv, InRange, NEW solutions, Mining!Mine(solutions)
  PROVE  /\ tried' \in Nat /\ max_iterations' \in Nat /\ max_iterations' <= budget
         /\ tried' + max_iterations' = budget
<1> DEFINE nonce == Mining!SearchLight(start_nonce, Mining!Iterations, solutions)
<1>1. /\ 2 ^ Width \in Nat /\ start_nonce \in Nat /\ max_iterations \in Nat /\ budget \in Nat
      /\ max_iterations <= budget /\ start_nonce + budget < 2 ^ Width /\ tried \in Nat
      /\ NoNonce \notin Mining!Uint
  BY DEF MiningConstants, MiningInv, InRange
<1>2. start_nonce + max_iterations < 2 ^ Width /\ Mining!Iterations = max_iterations
  <2>1. max_iterations < 2 ^ SizeWidth /\ 2 ^ SizeWidth \in Nat
    BY <1>1 DEF MiningConstants
  <2>2. max_iterations % (2 ^ SizeWidth) = max_iterations
    BY <1>1, <2>1, SmallRemainder
  <2> QED BY <1>1, <2>2 DEF Mining!Iterations
<1>3. /\ step = "mine" /\ Mining!MineBlock(nonce)
      /\ nonce # NoNonce => outcome' = outcome
  BY DEF Mining!Mine
<1>4. nonce = Mining!SearchLight(start_nonce, max_iterations, solutions)
  BY <1>2
<1> HIDE DEF nonce
<1>5. outcome = "none" /\ tried + max_iterations = budget
  BY <1>3 DEF MiningInv
<1>6. /\ Mining!Searched(start_nonce, max_iterations) = start_nonce .. start_nonce + max_iterations - 1
      /\ nonce # NoNonce => nonce \in start_nonce .. start_nonce + max_iterations - 1
  BY <1>1, <1>2, <1>4, SearchLightFacts
<1>7. CASE nonce = NoNonce
  <2>1. Cardinality(start_nonce .. start_nonce + max_iterations - 1) = max_iterations
    BY <1>1, FS_Interval
  <2>2. Mining!Cardinality(start_nonce .. start_nonce + max_iterations - 1) = max_iterations
    BY <2>1, Zenon DEF Mining!Cardinality, Cardinality
  <2>3. max_iterations' = 0 /\ tried' = tried + max_iterations
    BY <1>2, <1>3, <1>6, <1>7, <2>2 DEF Mining!MineBlock
  <2> QED BY <1>1, <1>5, <2>3
<1>8. CASE nonce # NoNonce
  <2> DEFINE used == nonce - start_nonce + 1
  <2>1. used \in 1 .. max_iterations /\ used \in Nat /\ used < 2 ^ Width
    BY <1>1, <1>2, <1>6, <1>8
  <2>2. used % (2 ^ Width) = used
    <3> HIDE DEF used
    <3> QED BY <1>1, <2>1, SmallRemainder
  <2>3. /\ max_iterations' = IF used < max_iterations THEN max_iterations - used ELSE 0
        /\ tried' = tried + used
    BY <1>3, <1>8, <2>2 DEF Mining!MineBlock, Mining!Remaining, Mining!Consumed
  <2> HIDE DEF used
  <2>4. max_iterations' = max_iterations - used
    BY <1>1, <2>1, <2>3
  <2> QED BY <1>1, <1>3, <1>5, <1>8, <2>1, <2>3, <2>4
<1> QED BY <1>7, <1>8

\* The search keeps the invariant; where the range wraps there is nothing to show
\* about the budget.
LEMMA MineMiningInv ==
  ASSUME MiningConstants, MiningInv, NEW solutions, Mining!Mine(solutions)
  PROVE  MiningInv'
<1>1. /\ step = "mine" /\ step' \in {"idle", "found"}
      /\ command' = command /\ start_nonce' = start_nonce /\ nGenerate' = nGenerate
      /\ budget' = budget
      /\ step' = "found" => outcome' = outcome
  BY DEF Mining!Mine, Mining!Finish
<1>2. outcome = "none" /\ nGenerate > 0
  BY <1>1 DEF MiningInv
<1>3. InRange' => InRange
  BY <1>1 DEF InRange
<1>4. InRange' => /\ tried' \in Nat /\ max_iterations' \in Nat /\ max_iterations' <= budget
                  /\ tried' + max_iterations' = budget
  BY <1>3, MineInRange, Zenon
<1> QED BY <1>1, <1>2, <1>4 DEF MiningInv

\* The steps that search nothing.
LEMMA OtherMiningInv ==
  ASSUME MiningInv,
         \/ Mining!Loop \/ Mining!CreateNewBlock \/ Mining!BadTarget \/ Mining!Found
         \/ \E accepted \in BOOLEAN : Mining!ProcessNewBlock(accepted)
         \/ Mining!SignalInterrupt
         \/ UNCHANGED Mining!vars
  PROVE  MiningInv'
<1>1. CASE Mining!Loop
  BY <1>1 DEF MiningInv, InRange, Mining!Loop, Mining!Finish
<1>2. CASE Mining!CreateNewBlock
  BY <1>2 DEF MiningInv, InRange, Mining!CreateNewBlock, Mining!Finish
<1>3. CASE Mining!BadTarget
  BY <1>3 DEF MiningInv, InRange, Mining!BadTarget, Mining!Finish
<1>4. CASE Mining!Found
  BY <1>4 DEF MiningInv, InRange, Mining!Found, Mining!Finish
<1>5. ASSUME NEW accepted \in BOOLEAN, Mining!ProcessNewBlock(accepted) PROVE MiningInv'
  BY <1>5 DEF MiningInv, InRange, Mining!ProcessNewBlock, Mining!Finish
<1>6. CASE Mining!SignalInterrupt
  BY <1>6 DEF MiningInv, InRange, Mining!SignalInterrupt
<1>7. CASE UNCHANGED Mining!vars
  BY <1>7 DEF MiningInv, InRange, Mining!vars
<1> QED BY <1>1, <1>2, <1>3, <1>4, <1>5, <1>6, <1>7

\* Every step keeps the invariant.
LEMMA NextMiningInv ==
  ASSUME MiningConstants
  PROVE  MiningInv /\ [Mining!Next]_(Mining!vars) => MiningInv'
BY CommandMiningInv, MineMiningInv, OtherMiningInv DEF Mining!Next

\* The invariant holds in every reachable state.
LEMMA AlwaysMiningInv ==
  ASSUME MiningConstants
  PROVE  Mining!Spec => []MiningInv
<1>1. Mining!Init => MiningInv
  BY InitMiningInv
<1>2. MiningInv /\ [Mining!Next]_(Mining!vars) => MiningInv'
  BY NextMiningInv
<1> QED BY <1>1, <1>2, PTL DEF Mining!Spec

\* MineBlock takes from max_iterations exactly the nonces that search_light tried:
\* over all blocks of generatetoaddress, for generateblock, and for a grind whose
\* range does not wrap, for every width and every budget.
THEOREM BudgetExactAlways ==
  ASSUME MiningConstants
  PROVE  Mining!Spec => []Mining!BudgetExact
<1>1. MiningInv => Mining!BudgetExact
  BY DEF MiningInv, InRange, Mining!BudgetExact
<1> QED BY <1>1, AlwaysMiningInv, PTL

-----------------------------------------------------------------------------
(* The beacon.                                                             *)

CONSTANTS MixHash, IntMax, MaxWindow, MaxHeight, MaxStart

VARIABLES chain, reply

RandomBeacon == INSTANCE Beacon

\* A reply about a window whose last height is an int is right about the chain it was
\* given on: a refusal about the blocks that are missing, a value about the blocks
\* of the window.
RightReply(r) ==
  /\ r.kind \in {"none", "needs", "beacon"}
  /\ r.kind # "none" =>
       /\ r.start_height \in Nat /\ r.window_size \in Nat /\ r.on \in Seq(MixHash)
       /\ RandomBeacon!LastHeight(r) <= IntMax =>
            /\ r.kind = "needs" =>
                 /\ RandomBeacon!LastHeight(r) >= Len(r.on)
                 /\ r.more = RandomBeacon!LastHeight(r) - (Len(r.on) - 1)
            /\ r.kind = "beacon" =>
                 /\ RandomBeacon!LastHeight(r) < Len(r.on)
                 /\ r.beacon = RandomBeacon!GetHash(RandomBeacon!Window(r))

BeaconInv == chain \in Seq(MixHash) /\ Len(chain) > 0 /\ RightReply(reply)

\* A chain of the genesis block alone, and no reply.
LEMMA InitBeaconInv == RandomBeacon!Init => BeaconInv
<1> SUFFICES ASSUME RandomBeacon!Init PROVE BeaconInv
  OBVIOUS
<1>1. chain \in [1 .. 1 -> MixHash] /\ reply = [kind |-> "none"]
  BY DEF RandomBeacon!Init, RandomBeacon!NoReply
<1>2. chain = <<chain[1]>> /\ chain[1] \in MixHash
  <2>1. chain = [i \in 1 .. 1 |-> chain[i]] /\ chain[1] \in MixHash
    BY <1>1
  <2> QED BY <2>1
<1>3. chain \in Seq(MixHash) /\ Len(chain) = 1
  <2>1. PICK genesis \in MixHash : chain = <<genesis>>
    BY <1>2
  <2>2. <<genesis>> \in Seq(MixHash) /\ Len(<<genesis>>) = 1
    OBVIOUS
  <2> QED BY <2>1, <2>2, Zenon
<1>4. RightReply(reply)
  BY <1>1 DEF RightReply
<1> QED BY <1>3, <1>4 DEF BeaconInv

\* Blocks come and go, and the last reply stays what it was.
LEMMA ChainBeaconInv ==
  ASSUME BeaconInv,
         \/ \E mix_hash \in MixHash : RandomBeacon!ConnectTip(mix_hash)
         \/ RandomBeacon!DisconnectTip
  PROVE  BeaconInv'
<1>1. chain \in Seq(MixHash) /\ Len(chain) \in Nat /\ Len(chain) > 0 /\ RightReply(reply)
  BY DEF BeaconInv
<1>2. reply' = reply
  BY DEF RandomBeacon!ConnectTip, RandomBeacon!DisconnectTip
<1>3. chain' \in Seq(MixHash) /\ Len(chain') > 0
  <2>1. ASSUME NEW mix_hash \in MixHash, RandomBeacon!ConnectTip(mix_hash)
        PROVE  chain' \in Seq(MixHash) /\ Len(chain') > 0
    <3>1. chain' = Append(chain, mix_hash)
      BY <2>1 DEF RandomBeacon!ConnectTip
    <3> QED BY <1>1, <3>1
  <2>2. CASE RandomBeacon!DisconnectTip
    <3>1. Len(chain) - 1 > 0 /\ chain' = SubSeq(chain, 1, Len(chain) - 1)
      BY <2>2 DEF RandomBeacon!DisconnectTip, RandomBeacon!Height
    <3> QED BY <1>1, <3>1
  <2> QED BY <2>1, <2>2
<1> QED BY <1>1, <1>2, <1>3, Zenon DEF BeaconInv

\* The loop writes the blocks of the window to the hasher, in order.
LEMMA LoopWritesWindow ==
  ASSUME chain \in Seq(MixHash), NEW start_height \in Nat, NEW window_size \in Nat,
         window_size > 0, start_height + window_size - 1 < Len(chain)
  PROVE  RandomBeacon!MixHashes(start_height, start_height + window_size - 1)
           = [i \in 1 .. window_size |-> chain[start_height + i]]
<1>1. Len(chain) \in Nat
  OBVIOUS
<1>2. start_height + window_size - 1 + 1 = start_height + window_size
  OBVIOUS
<1>3. SubSeq(chain, start_height + 1, start_height + window_size)
        = [i \in 1 .. window_size |-> chain[start_height + i]]
  BY <1>1
<1> QED BY <1>2, <1>3 DEF RandomBeacon!MixHashes

\* The call answers for the chain it finds.
LEMMA GetRandomBeaconInv ==
  ASSUME RandomBeacon!BeaconConstants, BeaconInv,
         NEW start_height \in -1 .. MaxStart, NEW window_size \in 0 .. MaxWindow + 1,
         RandomBeacon!GetRandomBeacon(start_height, window_size)
  PROVE  BeaconInv'
<1> DEFINE last == start_height + window_size - 1
<1>1. MaxStart \in Nat /\ MaxWindow \in Nat /\ IntMax \in Nat
  BY DEF RandomBeacon!BeaconConstants
<1>2. start_height \in Nat /\ window_size \in Nat /\ window_size > 0
  BY <1>1 DEF RandomBeacon!GetRandomBeacon, RandomBeacon!Valid
<1>3. chain' = chain /\ chain \in Seq(MixHash) /\ Len(chain) > 0 /\ Len(chain) \in Nat
  BY DEF BeaconInv, RandomBeacon!GetRandomBeacon
<1>4. PICK end_height \in RandomBeacon!EndHeight(start_height, window_size) :
        reply' = IF end_height > RandomBeacon!Height
                 THEN [kind |-> "needs", start_height |-> start_height,
                       window_size |-> window_size, on |-> chain,
                       more |-> RandomBeacon!BlocksNeeded(end_height)]
                 ELSE [kind |-> "beacon", start_height |-> start_height,
                       window_size |-> window_size, on |-> chain,
                       beacon |-> RandomBeacon!GetHash(
                                    RandomBeacon!MixHashes(start_height, end_height))]
  BY Zenon DEF RandomBeacon!GetRandomBeacon
<1>5. last <= IntMax => end_height = last
  BY DEF RandomBeacon!EndHeight
<1>6. CASE end_height > RandomBeacon!Height
  <2>1. /\ reply'.kind = "needs" /\ reply'.start_height = start_height
        /\ reply'.window_size = window_size /\ reply'.on = chain
        /\ reply'.more = end_height - (Len(chain) - 1)
    BY <1>4, <1>6 DEF RandomBeacon!BlocksNeeded, RandomBeacon!Height
  <2>2. RandomBeacon!LastHeight(reply') = last
    BY <2>1 DEF RandomBeacon!LastHeight
  <2>3. last <= IntMax => last >= Len(chain)
    BY <1>2, <1>3, <1>5, <1>6 DEF RandomBeacon!Height
  <2>4. RightReply(reply')
    BY <1>2, <1>3, <1>5, <2>1, <2>2, <2>3 DEF RightReply
  <2> QED BY <1>3, <2>4 DEF BeaconInv
<1>7. CASE ~(end_height > RandomBeacon!Height)
  <2>1. /\ reply'.kind = "beacon" /\ reply'.start_height = start_height
        /\ reply'.window_size = window_size /\ reply'.on = chain
        /\ reply'.beacon
             = RandomBeacon!GetHash(RandomBeacon!MixHashes(start_height, end_height))
    BY <1>4, <1>7
  <2>2. RandomBeacon!LastHeight(reply') = last
    BY <2>1 DEF RandomBeacon!LastHeight
  <2>3. last <= IntMax => last < Len(chain)
    BY <1>2, <1>3, <1>5, <1>7 DEF RandomBeacon!Height
  <2>4. RandomBeacon!Window(reply') = [i \in 1 .. window_size |-> chain[start_height + i]]
    BY <2>1, Zenon DEF RandomBeacon!Window
  <2>5. last <= IntMax => reply'.beacon = RandomBeacon!GetHash(RandomBeacon!Window(reply'))
    <3>1. last <= IntMax => RandomBeacon!MixHashes(start_height, last)
                              = [i \in 1 .. window_size |-> chain[start_height + i]]
      BY <1>2, <1>3, <2>3, LoopWritesWindow
    <3> HIDE DEF last
    <3> QED BY <1>5, <2>1, <2>4, <3>1, Zenon
  <2>6. RightReply(reply')
    <3> HIDE DEF last
    <3> QED BY <1>2, <1>3, <2>1, <2>2, <2>3, <2>5, Zenon DEF RightReply
  <2> QED BY <1>3, <2>6 DEF BeaconInv
<1> QED BY <1>6, <1>7

\* Every step keeps the invariant.
LEMMA NextBeaconInv ==
  ASSUME RandomBeacon!BeaconConstants
  PROVE  BeaconInv /\ [RandomBeacon!Next]_(RandomBeacon!vars) => BeaconInv'
<1> SUFFICES ASSUME BeaconInv, [RandomBeacon!Next]_(RandomBeacon!vars) PROVE BeaconInv'
  OBVIOUS
<1>1. ASSUME NEW start_height \in -1 .. MaxStart, NEW window_size \in 0 .. MaxWindow + 1,
             RandomBeacon!Refuse(start_height, window_size)
      PROVE  BeaconInv'
  <2>1. chain' = chain /\ reply' = [kind |-> "none"]
    BY <1>1 DEF RandomBeacon!Refuse, RandomBeacon!NoReply
  <2>2. RightReply(reply')
    BY <2>1 DEF RightReply
  <2> QED BY <2>1, <2>2 DEF BeaconInv
<1>2. CASE UNCHANGED RandomBeacon!vars
  <2>1. chain' = chain /\ reply' = reply
    BY <1>2 DEF RandomBeacon!vars
  <2> QED BY <2>1, Zenon DEF BeaconInv
<1> QED BY <1>1, <1>2, ChainBeaconInv, GetRandomBeaconInv, Zenon DEF RandomBeacon!Next

\* The invariant holds in every reachable state.
LEMMA AlwaysBeaconInv ==
  ASSUME RandomBeacon!BeaconConstants
  PROVE  RandomBeacon!Spec => []BeaconInv
<1>1. RandomBeacon!Init => BeaconInv
  BY InitBeaconInv
<1>2. BeaconInv /\ [RandomBeacon!Next]_(RandomBeacon!vars) => BeaconInv'
  BY NextBeaconInv
<1> QED BY <1>1, <1>2, PTL DEF RandomBeacon!Spec

\* For any chain, and whatever happens to it between two calls of getrandombeacon
\* about one window that ends at an int, the values are equal exactly when the blocks
\* of the window are.
THEOREM SameBlocksSameBeaconAlways ==
  ASSUME RandomBeacon!BeaconConstants
  PROVE  RandomBeacon!Spec => RandomBeacon!SameBlocksSameBeacon
<1>1. ASSUME BeaconInv, BeaconInv' PROVE RandomBeacon!SameBlocks
  <2> SUFFICES ASSUME RandomBeacon!SameWindow(reply, reply'),
                      RandomBeacon!LastHeight(reply) <= IntMax,
                      reply.kind = "beacon", reply'.kind = "beacon"
               PROVE  reply'.beacon = reply.beacon
                        <=> RandomBeacon!Window(reply') = RandomBeacon!Window(reply)
    BY Zenon DEF RandomBeacon!SameBlocks
  <2>1. RandomBeacon!LastHeight(reply') <= IntMax
    BY DEF RandomBeacon!SameWindow, RandomBeacon!LastHeight
  <2>2. /\ reply.beacon = RandomBeacon!GetHash(RandomBeacon!Window(reply))
        /\ reply'.beacon = RandomBeacon!GetHash(RandomBeacon!Window(reply'))
    BY <1>1, <2>1 DEF BeaconInv, RightReply
  <2>3. ASSUME NEW d, NEW e
        PROVE  RandomBeacon!GetHash(d) = RandomBeacon!GetHash(e) <=> d = e
    BY DEF RandomBeacon!GetHash, RandomBeacon!Sha256
  <2> QED BY <2>2, <2>3, Zenon
<1>2. BeaconInv /\ [RandomBeacon!Next]_(RandomBeacon!vars) => BeaconInv'
  BY NextBeaconInv
<1> QED BY <1>1, <1>2, AlwaysBeaconInv, PTL
        DEF RandomBeacon!Spec, RandomBeacon!SameBlocksSameBeacon

\* For any chain, and however it grows, shrinks or is replaced between the calls,
\* getrandombeacon answers for a window that ends at an int exactly on chains with at
\* least as many more blocks as it asked for.
THEOREM NeedsExactlyMoreAlways ==
  ASSUME RandomBeacon!BeaconConstants
  PROVE  RandomBeacon!Spec => RandomBeacon!NeedsExactlyMore
<1>1. ASSUME BeaconInv, BeaconInv' PROVE RandomBeacon!ExactlyMore
  <2> SUFFICES ASSUME RandomBeacon!SameWindow(reply, reply'),
                      RandomBeacon!LastHeight(reply) <= IntMax, reply.kind = "needs"
               PROVE  reply'.kind = "beacon" <=> Len(reply'.on) >= Len(reply.on) + reply.more
    BY Zenon DEF RandomBeacon!ExactlyMore
  <2> DEFINE last == RandomBeacon!LastHeight(reply)
  <2>1. /\ RandomBeacon!LastHeight(reply') = last
        /\ reply'.kind # "none"
    BY DEF RandomBeacon!SameWindow, RandomBeacon!LastHeight
  <2>2. /\ last \in Int /\ reply.on \in Seq(MixHash)
        /\ reply.more = last - (Len(reply.on) - 1)
    BY <1>1 DEF BeaconInv, RightReply, RandomBeacon!LastHeight
  <2> HIDE DEF last
  <2>3. /\ reply'.kind \in {"needs", "beacon"} /\ reply'.on \in Seq(MixHash)
        /\ reply'.kind = "needs" => last >= Len(reply'.on)
        /\ reply'.kind = "beacon" => last < Len(reply'.on)
    BY <1>1, <2>1 DEF BeaconInv, RightReply, last
  <2>4. Len(reply.on) \in Nat /\ Len(reply'.on) \in Nat
    BY <2>2, <2>3
  <2> QED BY <2>2, <2>3, <2>4
<1>2. BeaconInv /\ [RandomBeacon!Next]_(RandomBeacon!vars) => BeaconInv'
  BY NextBeaconInv
<1> QED BY <1>1, <1>2, AlwaysBeaconInv, PTL
        DEF RandomBeacon!Spec, RandomBeacon!NeedsExactlyMore

\* Where the last height of the window is an int, getrandombeacon returns a value only
\* for a window that lies on the active chain.
THEOREM WindowConfirmedInRange ==
  ASSUME RandomBeacon!BeaconConstants
  PROVE  RandomBeacon!Spec =>
           [](RandomBeacon!LastHeight(reply) <= IntMax => RandomBeacon!WindowConfirmed)
<1>1. BeaconInv => (RandomBeacon!LastHeight(reply) <= IntMax => RandomBeacon!WindowConfirmed)
  BY DEF BeaconInv, RightReply, RandomBeacon!WindowConfirmed
<1> QED BY <1>1, AlwaysBeaconInv, PTL
=============================================================================
