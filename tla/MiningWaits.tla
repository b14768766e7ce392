---------------------------- MODULE MiningWaits -----------------------------
(***************************************************************************)
(* The waits of the mining interface (node/miner.cpp and                   *)
(* node/interfaces.cpp): threads in waitTipChanged or createNewBlock on    *)
(* one Mining object, threads in waitNext on one block template, the       *)
(* thread that changes the active chain and announces its tip through      *)
(* KernelNotifications::blockTip, interrupt(), interruptWait() and the     *)
(* shutdown of the node.                                                   *)
(*                                                                         *)
(* All waits use one mutex and one condition variable, which may wake a    *)
(* thread for no reason.  The clock is left out: a wait with a deadline    *)
(* may expire at any moment after it began.  So are the headers and times  *)
(* that tell initial block download, and blocks ahead of the tip: either   *)
(* answer may be given whenever the code asks.                             *)
(***************************************************************************)
EXTENDS Integers, FiniteSets

CONSTANTS
  Miner,       \* threads that call waitTipChanged and createNewBlock
  Watcher,     \* threads that call waitNext on one template
  Block,       \* hashes of blocks
  Null,        \* no tip, an empty result, uint256::ZERO
  Validation,  \* the thread that changes the active chain
  Nobody       \* no thread

ASSUME MiningWaitsAssumption ==
  /\ Miner \cap Watcher = {} /\ {Validation, Nobody} \cap (Miner \cup Watcher) = {}
  /\ Null \notin Block

Thread == Miner \cup Watcher

VARIABLES
  cs_main, m_tip_block_mutex,  \* the thread that holds each lock
  tip,                         \* tip of the active chain
  tip_block,                   \* m_state.tip_block of KernelNotifications
  announce,                    \* blockTip has not been called for the tip yet
  m_interrupt,                 \* the node is asked to shut down
  notify_due,                  \* Interrupt() has not woken the waits yet
  interrupted,                 \* m_interrupt_mining and m_interrupt_wait
  notified,                    \* sleeping threads that notify_all has reached
  pc, call,                    \* where each thread is, and what its call keeps
  empty                        \* history: whether a miner's last call returned nothing

chainVars == <<cs_main, tip, tip_block, announce>>
shutdownVars == <<m_interrupt, notify_due>>
vars == <<chainVars, m_tip_block_mutex, shutdownVars, interrupted, notified,
          pc, call, empty>>

\* What a call keeps: its kind, which wait it is in, the tip it knows, and whether
\* the deadline of that wait has passed.
NoCall == [kind |-> "none", wait |-> "none", known |-> Null, expired |-> FALSE]

Init ==
  /\ cs_main = Nobody /\ m_tip_block_mutex = Nobody
  /\ tip = Null /\ tip_block = Null /\ announce = FALSE
  /\ m_interrupt = FALSE /\ notify_due = FALSE
  /\ interrupted = [flag \in {"mining", "template"} |-> FALSE]
  /\ notified = {}
  /\ pc = [w \in Thread |-> "idle"]
  /\ call = [w \in Thread |-> NoCall]
  /\ empty = [w \in Miner |-> FALSE]

Flag(w) == IF w \in Miner THEN "mining" ELSE "template"
Goto(w, label) == pc' = [pc EXCEPT ![w] = label]
Asleep == {w \in Thread : pc[w] = "asleep"}

\* A call at the end of its waits keeps nothing but its kind.
Waited(w) == [NoCall EXCEPT !.kind = call[w].kind]

Return(w, result) ==
  /\ Goto(w, "idle")
  /\ call' = [call EXCEPT ![w] = NoCall]
  /\ empty' = [m \in Miner |-> IF m = w THEN result = Null ELSE empty[m]]

-----------------------------------------------------------------------------
(* The calls.                                                              *)

\* waitTipChanged begins with a wait for the first tip, without a deadline.
StartWait(w, kind, known) ==
  /\ call' = [call EXCEPT ![w] = [kind |-> kind, wait |-> "first_tip", known |-> known,
                                  expired |-> FALSE]]
  /\ Goto(w, "enter")

WaitTipChanged(w, known) ==
  /\ pc[w] = "idle" /\ w \in Miner
  /\ StartWait(w, "wait", known)
  /\ empty' = [empty EXCEPT ![w] = FALSE]
  /\ UNCHANGED <<chainVars, m_tip_block_mutex, shutdownVars, interrupted, notified>>

\* createNewBlock, with or without cooldown.
CreateNewBlock(w, kind) ==
  /\ pc[w] = "idle" /\ w \in Miner
  /\ StartWait(w, kind, Null)
  /\ empty' = [empty EXCEPT ![w] = FALSE]
  /\ UNCHANGED <<chainVars, m_tip_block_mutex, shutdownVars, interrupted, notified>>

\* waitNext on a template that was built on some tip.
WaitNext(w, prev) ==
  /\ pc[w] = "idle" /\ w \in Watcher /\ tip_block # Null
  /\ call' = [call EXCEPT ![w] = [kind |-> "next", wait |-> "next_tip", known |-> prev,
                                  expired |-> FALSE]]
  /\ Goto(w, "enter")
  /\ UNCHANGED <<chainVars, m_tip_block_mutex, shutdownVars, interrupted, notified, empty>>

\* Mutant: the first wait does not ask for a tip.
ConditionNoTip(w) == TRUE

\* The predicate of the wait the call is in, apart from interruption.
Condition(w) ==
  CASE call[w].wait = "first_tip" -> tip_block # Null
    [] call[w].wait \in {"new_tip", "next_tip"} -> tip_block # call[w].known
    [] call[w].wait = "cooldown" -> tip_block # Null /\ tip_block # call[w].known

\* Mutant: the predicate forgets the flag.
AwaitedNoFlag(w) == Condition(w) \/ m_interrupt

Awaited(w) == Condition(w) \/ m_interrupt \/ interrupted[Flag(w)]

\* WAIT_LOCK, and the lock taken again after sleeping.
Enter(w) ==
  /\ pc[w] = "enter"
  /\ m_tip_block_mutex = Nobody
  /\ m_tip_block_mutex' = w
  /\ Goto(w, "inside")
  /\ UNCHANGED <<chainVars, shutdownVars, interrupted, notified, call, empty>>

\* The wait looks at its predicate and finds nothing to return for ...
Test(w) ==
  /\ pc[w] = "inside"
  /\ ~Awaited(w) /\ ~call[w].expired
  /\ Goto(w, "tested")
  /\ UNCHANGED <<chainVars, m_tip_block_mutex, shutdownVars, interrupted, notified, call,
                 empty>>

\* ... and goes to sleep, which releases the mutex.
Sleep(w) ==
  /\ pc[w] = "tested"
  /\ m_tip_block_mutex' = Nobody
  /\ Goto(w, "asleep")
  /\ UNCHANGED <<chainVars, shutdownVars, interrupted, notified, call, empty>>

\* The condition variable wakes the thread, notified or not.
Wake(w) ==
  /\ pc[w] = "asleep"
  /\ notified' = notified \ {w}
  /\ Goto(w, "enter")
  /\ UNCHANGED <<chainVars, m_tip_block_mutex, shutdownVars, interrupted, call, empty>>

\* The deadline of the wait, or a tick of waitNext, has passed.  A caller that
\* gives no timeout never gets here, nor does the wait for the first tip.
Expire(w) ==
  /\ pc[w] = "asleep"
  /\ call[w].wait # "first_tip"
  /\ call' = [call EXCEPT ![w].expired = TRUE]
  /\ notified' = notified \ {w}
  /\ Goto(w, "enter")
  /\ UNCHANGED <<chainVars, m_tip_block_mutex, shutdownVars, interrupted, empty>>

\* The scope of the lock ends.
Release(w) == m_tip_block_mutex' = Nobody

\* Interrupted waits reset the flag, whoever else it was meant for.
Interrupted(w) ==
  /\ pc[w] = "inside"
  /\ Awaited(w) \/ call[w].expired
  /\ interrupted[Flag(w)] \/ (m_interrupt /\ w \in Miner)
  /\ interrupted' = [interrupted EXCEPT ![Flag(w)] = FALSE]
  /\ Release(w)
  /\ Return(w, Null)
  /\ UNCHANGED <<chainVars, shutdownVars, notified>>

\* The wait ends otherwise.  The second wait of waitTipChanged follows the first
\* without releasing the lock; a new tip restarts the cooldown.
WaitEnds(w) ==
  /\ pc[w] = "inside"
  /\ Awaited(w) \/ call[w].expired
  /\ ~interrupted[Flag(w)] /\ ~(m_interrupt /\ w \in Miner)
  /\ CASE call[w].wait = "first_tip" ->
            /\ call' = [call EXCEPT ![w].wait = "new_tip"]
            /\ UNCHANGED <<m_tip_block_mutex, pc>>
       [] call[w].wait = "new_tip" ->
            /\ Release(w) /\ Goto(w, "getTip")
            /\ call' = [call EXCEPT ![w] = Waited(w)]
       [] call[w].wait = "cooldown" ->
            /\ Release(w)
            /\ IF Condition(w)
               THEN /\ Goto(w, "ahead")
                    /\ call' = [call EXCEPT ![w] = [Waited(w) EXCEPT !.known = tip_block]]
               ELSE /\ Goto(w, "assemble")
                    /\ call' = [call EXCEPT ![w] = Waited(w)]
       [] call[w].wait = "next_tip" ->
            /\ Release(w)
            /\ Goto(w, "checkInterrupt")
            /\ call' = [call EXCEPT ![w] = IF Condition(w) THEN Waited(w)
                                           ELSE [@ EXCEPT !.expired = FALSE]]
  /\ UNCHANGED <<chainVars, shutdownVars, interrupted, notified, empty>>

\* GetTip under cs_main.  createNewBlock goes on with the tip it got.
GetTip(w) ==
  /\ pc[w] = "getTip"
  /\ cs_main = Nobody
  /\ IF call[w].kind = "wait" \/ tip = Null
     THEN Return(w, tip)
     ELSE /\ Goto(w, CASE call[w].kind = "create" -> "assemble"
                       [] call[w].kind = "create_cooldown" -> "ibd"
                       [] call[w].kind = "ibd_loop" -> "looped")
          /\ call' = IF call[w].kind = "create" THEN call ELSE [call EXCEPT ![w].known = tip]
          /\ UNCHANGED empty
  /\ UNCHANGED <<chainVars, m_tip_block_mutex, shutdownVars, interrupted, notified>>

\* The loop of createNewBlock during initial block download waits for a second, or
\* for a new tip.
WhileIbd(w) ==
  /\ pc[w] = "ibd"
  /\ \/ StartWait(w, "ibd_loop", call[w].known)
     \/ Goto(w, "ahead") /\ UNCHANGED call
  /\ UNCHANGED <<chainVars, m_tip_block_mutex, shutdownVars, interrupted, notified,
                 empty>>

\* It looks at the flags again, without resetting them.
Looped(w) ==
  /\ pc[w] = "looped"
  /\ m_tip_block_mutex = Nobody
  /\ IF m_interrupt \/ interrupted["mining"]
     THEN Return(w, Null)
     ELSE /\ Goto(w, "ibd")
          /\ call' = [call EXCEPT ![w].kind = "create_cooldown"]
          /\ UNCHANGED empty
  /\ UNCHANGED <<chainVars, m_tip_block_mutex, shutdownVars, interrupted, notified>>

\* CooldownIfHeadersAhead asks for BlocksAheadOfTip under cs_main.
CooldownIfHeadersAhead(w) ==
  /\ pc[w] = "ahead"
  /\ cs_main = Nobody
  /\ \/ /\ Goto(w, "enter")
        /\ call' = [call EXCEPT ![w].wait = "cooldown"]
     \/ /\ Goto(w, "assemble")
        /\ call' = [call EXCEPT ![w] = Waited(w)]
  /\ UNCHANGED <<chainVars, m_tip_block_mutex, shutdownVars, interrupted, notified,
                 empty>>

\* waitNext returns when the node shuts down, and goes on with a new tip or a tick.
CheckInterrupt(w) ==
  /\ pc[w] = "checkInterrupt"
  /\ IF m_interrupt
     THEN Return(w, Null)
     ELSE /\ Goto(w, IF call[w].wait = "none" THEN "assemble" ELSE "fees")
          /\ UNCHANGED <<call, empty>>
  /\ UNCHANGED <<chainVars, m_tip_block_mutex, shutdownVars, interrupted, notified>>

\* BlockAssembler builds a template on the tip under cs_main.
Assemble(w) ==
  /\ pc[w] = "assemble"
  /\ cs_main = Nobody
  /\ Return(w, tip)
  /\ UNCHANGED <<chainVars, m_tip_block_mutex, shutdownVars, interrupted, notified>>

\* After a tick without a new tip waitNext returns a template with enough more fees
\* or of least difficulty, has reached its deadline, or goes on waiting.
Fees(w) ==
  /\ pc[w] = "fees"
  /\ cs_main = Nobody
  /\ \/ \E result \in {tip, Null} : Return(w, result)
     \/ Goto(w, "enter") /\ UNCHANGED <<call, empty>>
  /\ UNCHANGED <<chainVars, m_tip_block_mutex, shutdownVars, interrupted, notified>>

-----------------------------------------------------------------------------
(* The rest of the node.                                                   *)

\* ActivateBestChain keeps cs_main until blockTip was called; InvalidateBlock
\* does not.
ChangeTip(b, holder) ==
  /\ cs_main = Nobody /\ ~announce
  /\ b # tip
  /\ cs_main' = holder
  /\ tip' = b /\ announce' = TRUE
  /\ UNCHANGED <<tip_block, m_tip_block_mutex, shutdownVars, interrupted, notified,
                 pc, call, empty>>

\* Mutant: blockTip wakes nobody.
NotifyTipNobody == {}

\* m_tip_block_cv.notify_all().
NotifyTip == Asleep

BlockTip ==
  /\ announce
  /\ m_tip_block_mutex = Nobody
  /\ tip_block' = tip /\ announce' = FALSE
  /\ notified' = notified \cup NotifyTip
  /\ cs_main' = Nobody
  /\ UNCHANGED <<tip, m_tip_block_mutex, shutdownVars, interrupted, pc, call,
                 empty>>

\* interrupt() for the mining object, interruptWait() for the template.
InterruptWait(flag) ==
  /\ m_tip_block_mutex = Nobody
  /\ interrupted' = [interrupted EXCEPT ![flag] = TRUE]
  /\ notified' = notified \cup Asleep
  /\ UNCHANGED <<chainVars, m_tip_block_mutex, shutdownVars, pc, call, empty>>

\* The flag is set without the mutex, also between the test of a wait and its sleep ...
SignalInterrupt ==
  /\ ~m_interrupt
  /\ m_interrupt' = TRUE /\ notify_due' = TRUE
  /\ UNCHANGED <<chainVars, m_tip_block_mutex, interrupted, notified, pc, call, empty>>

\* Mutant: the shutdown notifies without the mutex.
ShutdownLockNone == TRUE

\* WITH_LOCK of Interrupt().
ShutdownLock == m_tip_block_mutex = Nobody

\* ... and Interrupt() wakes the waiting threads under it, once.
ShutdownNotify ==
  /\ notify_due
  /\ ShutdownLock
  /\ notify_due' = FALSE
  /\ notified' = notified \cup Asleep
  /\ UNCHANGED <<chainVars, m_tip_block_mutex, m_interrupt, interrupted, pc, call, empty>>

LockStep(w) == Enter(w) \/ GetTip(w) \/ Looped(w) \/ CooldownIfHeadersAhead(w)
                 \/ Assemble(w) \/ Fees(w)
ThreadStep(w) == Test(w) \/ Sleep(w) \/ Interrupted(w) \/ WaitEnds(w)
                   \/ WhileIbd(w) \/ CheckInterrupt(w)

Next ==
  \/ \E w \in Thread :
       \/ \E known \in Block \cup {Null} : WaitTipChanged(w, known)
       \/ \E kind \in {"create", "create_cooldown"} : CreateNewBlock(w, kind)
       \/ \E prev \in Block : WaitNext(w, prev)
       \/ LockStep(w) \/ Wake(w) \/ Expire(w) \/ ThreadStep(w)
  \/ \E b \in Block, holder \in {Validation, Nobody} : ChangeTip(b, holder)
  \/ BlockTip
  \/ \E flag \in {Flag(w) : w \in Thread} : InterruptWait(flag)
  \/ SignalInterrupt
  \/ ShutdownNotify

Spec == Init /\ [][Next]_vars

\* A thread goes on: one that can run does, a lock that is free again and again is
\* got, a notified thread wakes.  The node's main thread carries its shutdown
\* through.  No wait is assumed to reach its deadline: what ends it has to wake it.
GoesOn(w) == LockStep(w) \/ ThreadStep(w) \/ (w \in notified /\ Wake(w))

FairSpec ==
  /\ Spec
  /\ \A w \in Thread : SF_vars(GoesOn(w))
  /\ SF_vars(BlockTip)
  /\ SF_vars(ShutdownNotify)

-----------------------------------------------------------------------------
\* The variables keep their types, and only a thread inside a wait holds the mutex.
TypeOK ==
  /\ cs_main \in {Validation, Nobody}
  /\ m_tip_block_mutex \in Thread \cup {Nobody}
  /\ \A w \in Thread : pc[w] \in {"inside", "tested"} <=> m_tip_block_mutex = w
  /\ tip \in Block \cup {Null} /\ tip_block \in Block \cup {Null}
  /\ notified \subseteq Asleep
  /\ \A w \in Thread : pc[w] = "idle" <=> call[w] = NoCall

\* A call of waitTipChanged or createNewBlock comes back empty only when the node
\* shuts down or the object was interrupted, also while there is no tip yet
\* ("only returns null when shutting down, not when timing out", miner.cpp:573).
EmptyMeansInterrupted ==
  [][\A w \in Miner : pc[w] # "idle" /\ pc'[w] = "idle" /\ empty'[w]
       => m_interrupt \/ interrupted["mining"]]_vars

\* Every wait ends after the shutdown began, whichever lock or condition the
\* thread was waiting for, and however the flag, which is set without the mutex, and
\* the one notification fall between the thread's test and its sleep.
ShutdownEndsCalls == \A w \in Thread : m_interrupt ~> pc[w] = "idle"

\* A thread that waits for a tip other than the one it knows does not sleep on
\* while blockTip has announced another one.
TipEndsWait ==
  \A w \in Thread :
    (call[w].wait \in {"new_tip", "next_tip"} /\ tip_block # call[w].known)
      ~> (call[w].wait \notin {"new_tip", "next_tip"} \/ tip_block = call[w].known)

\* interrupt() and interruptWait() are not lost on the way to a wait: as long as a
\* call of the object is running, one of them takes the flag, wherever it was when
\* the flag was set.
InterruptHeard ==
  \A flag \in {"mining", "template"} :
    interrupted[flag] ~> \/ ~interrupted[flag]
                         \/ \A w \in Thread : Flag(w) = flag => pc[w] = "idle"

\* Every call that sleeps when its object is interrupted ends
\* ("Interrupts createNewBlock and waitTipChanged.", interfaces/mining.h:147).
InterruptEndsCall ==
  \A w \in Thread : (interrupted[Flag(w)] /\ pc[w] = "asleep") ~> pc[w] = "idle"
=============================================================================
