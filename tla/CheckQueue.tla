----------------------------- MODULE CheckQueue -----------------------------
(***************************************************************************)
(* CCheckQueue (checkqueue.h), the pool of threads that verifies scripts.  *)
(* A master opens a CCheckQueueControl, adds batches of checks and then    *)
(* joins the workers in Loop until nothing is left to do.                  *)
(*                                                                         *)
(* What lies between taking m_mutex and giving it up is one step; a wait   *)
(* on a condition variable ends the step, and the thread comes back in     *)
(* Wake, which a notification or nothing at all (a spurious wakeup) may    *)
(* cause.  A check is modelled by what it returns.                         *)
(***************************************************************************)
EXTENDS Integers, Sequences, FiniteSets, FiniteSetsExt, Functions

CONSTANTS
  Worker, Master,
  Error,        \* what a failing check may return
  None,         \* std::nullopt
  nBatchSize,
  MaxAdd,       \* bound: checks in one call of Add
  MaxChecks,    \* bound: checks under one control
  MaxControls   \* bound: how many controls are opened

ASSUME CheckQueueAssumption ==
  /\ None \notin Error \cup Worker \cup Master
  /\ Worker \cap Master = {}
  /\ IsFiniteSet(Worker) /\ IsFiniteSet(Master)
  /\ nBatchSize \in Nat \ {0}
  /\ MaxAdd \in Nat /\ MaxChecks \in Nat /\ MaxControls \in Nat

VARIABLES
  queue, nIdle, nTotal, m_result, nTodo, m_request_stop,
  m_control_mutex,
  destructor,    \* where ~CCheckQueue is
  pc,            \* where each thread is
  vChecks, nNow, local_result, do_work,   \* locals of Loop
  notified,      \* waiting threads that a notify has reached
  batch,         \* size of the batch Add has not told the workers of yet
  controls,      \* controls opened so far
  \* History, read by no action but for the bound on them:
  added,         \* checks added under the current control
  verdict        \* what the last Complete returned

Thread == Worker \cup Master
shared == <<queue, nIdle, nTotal, m_result, nTodo, m_request_stop>>
locals == <<vChecks, nNow, local_result, do_work>>
history == <<added, verdict>>
vars == <<shared, m_control_mutex, destructor, pc, locals, notified, batch, controls,
          history>>

-----------------------------------------------------------------------------
\* The constructor starts the workers.
Init ==
  /\ queue = << >>
  /\ nIdle = 0
  /\ nTotal = 0
  /\ m_result = None
  /\ nTodo = 0
  /\ m_request_stop = FALSE
  /\ m_control_mutex = None
  /\ destructor = "none"
  /\ pc = [t \in Thread |-> IF t \in Worker THEN "lock" ELSE "idle"]
  /\ vChecks = [t \in Thread |-> << >>]
  /\ nNow = [t \in Thread |-> 0]
  /\ local_result = [t \in Thread |-> None]
  /\ do_work = [t \in Thread |-> FALSE]
  /\ notified = {}
  /\ batch = 0
  /\ controls = 0
  /\ added = << >>
  /\ verdict = None

Waiting(T) == {t \in T : pc[t] = "wait"} \ notified

\* std::condition_variable::notify_one: one of the threads blocked on it, if any.
NotifyOne(T) ==
  IF Waiting(T) = {} THEN UNCHANGED notified
                     ELSE \E t \in Waiting(T) : notified' = notified \cup {t}

NotifyAll(T) == notified' = notified \cup Waiting(T)

\* CCheckQueueControl's constructor takes m_control_mutex.
OpenControl(m) ==
  /\ pc[m] = "idle"
  /\ m_control_mutex = None
  /\ destructor = "none"
  /\ controls < MaxControls
  /\ m_control_mutex' = m
  /\ controls' = controls + 1
  /\ pc' = [pc EXCEPT ![m] = "open"]
  /\ added' = << >>
  /\ verdict' = None
  /\ UNCHANGED <<shared, destructor, locals, notified, batch>>

\* Mutant: a batch counts as one verification.
AddCountsOnce(m, checks) ==
  /\ pc[m] = "open"
  /\ Len(added) + Len(checks) <= MaxChecks
  /\ queue' = queue \o checks
  /\ nTodo' = nTodo + 1
  /\ added' = added \o checks
  /\ batch' = Len(checks)
  /\ pc' = [pc EXCEPT ![m] = "added"]
  /\ UNCHANGED <<nIdle, nTotal, m_result, m_request_stop, m_control_mutex, destructor,
                 locals, notified, controls, verdict>>

\* Add, under m_mutex.
Add(m, checks) ==
  /\ pc[m] = "open"
  /\ Len(added) + Len(checks) <= MaxChecks
  /\ queue' = queue \o checks
  /\ nTodo' = nTodo + Len(checks)
  /\ added' = added \o checks
  /\ batch' = Len(checks)
  /\ pc' = [pc EXCEPT ![m] = "added"]
  /\ UNCHANGED <<nIdle, nTotal, m_result, m_request_stop, m_control_mutex, destructor,
                 locals, notified, controls, verdict>>

\* Add, after m_mutex was released.
NotifyWorkers(m) ==
  /\ pc[m] = "added"
  /\ IF batch = 1 THEN NotifyOne(Worker) ELSE NotifyAll(Worker)
  /\ batch' = 0
  /\ pc' = [pc EXCEPT ![m] = "open"]
  /\ UNCHANGED <<shared, m_control_mutex, destructor, locals, controls, history>>

\* Complete, called by the owner or by the destructor of the control: Loop(true).
Complete(m) ==
  /\ pc[m] = "open"
  /\ pc' = [pc EXCEPT ![m] = "lock"]
  /\ local_result' = [local_result EXCEPT ![m] = None]
  /\ UNCHANGED <<shared, m_control_mutex, destructor, vChecks, nNow, do_work, notified,
                 batch, controls, history>>

\* How many checks a thread takes at once.
BatchNow(total, idle) == Max({1, Min({nBatchSize, Len(queue) \div (total + idle + 1)})})

\* Mutant: the result stays for the next owner of the queue.
ReturnKeepsResult(m, total, result) ==
  /\ nTotal' = total - 1
  /\ m_result' = result
  /\ verdict' = result
  /\ m_control_mutex' = None
  /\ pc' = [pc EXCEPT ![m] = "idle"]
  /\ nNow' = [nNow EXCEPT ![m] = 0]
  /\ added' = << >>

\* The master returns the result; the control is destroyed with it.
ReturnResult(m, total, result) ==
  /\ nTotal' = total - 1
  /\ m_result' = None
  /\ verdict' = result
  /\ m_control_mutex' = None
  /\ pc' = [pc EXCEPT ![m] = "idle"]
  /\ nNow' = [nNow EXCEPT ![m] = 0]
  /\ added' = << >>

\* Take a batch off the end of the queue.
TakeBatch(t, idle, total, result) ==
  LET n == BatchNow(total, idle)
      start == Len(queue) - n
  IN /\ nNow' = [nNow EXCEPT ![t] = n]
     /\ vChecks' = [vChecks EXCEPT ![t] = SubSeq(queue, start + 1, Len(queue))]
     /\ queue' = SubSeq(queue, 1, start)
     /\ do_work' = [do_work EXCEPT ![t] = (result = None)]
     /\ pc' = [pc EXCEPT ![t] = "work"]

\* Mutant: the master leaves as soon as the queue is empty.
NothingLeftQueue(todo) == queue = << >>

NothingLeft(todo) == todo = 0

\* The inner loop of Loop, with the values the fields have when it is reached.
WaitForWork(t, idle, total, todo, result) ==
  /\ nTodo' = todo
  /\ UNCHANGED <<m_request_stop, destructor, batch, controls>>
  /\ \/ /\ queue = << >> /\ ~m_request_stop
        /\ t \in Master /\ NothingLeft(todo)
        /\ ReturnResult(t, total, result)
        /\ nIdle' = idle
        /\ UNCHANGED <<queue, vChecks, do_work>>
     \/ /\ queue = << >> /\ ~m_request_stop
        /\ ~(t \in Master /\ NothingLeft(todo))
        /\ nIdle' = idle + 1
        /\ nTotal' = total
        /\ m_result' = result
        /\ pc' = [pc EXCEPT ![t] = "wait"]
        /\ UNCHANGED <<queue, vChecks, nNow, do_work, m_control_mutex, history>>
     \/ /\ m_request_stop
        /\ nIdle' = idle
        /\ nTotal' = total
        /\ m_result' = result
        /\ pc' = [pc EXCEPT ![t] = "done"]
        /\ UNCHANGED <<queue, vChecks, nNow, do_work, m_control_mutex, history>>
     \/ /\ queue # << >> /\ ~m_request_stop
        /\ TakeBatch(t, idle, total, result)
        /\ nIdle' = idle
        /\ nTotal' = total
        /\ m_result' = result
        /\ UNCHANGED <<m_control_mutex, history>>

\* Mutant: the last worker to finish tells nobody.
TellMasterNever(t, todo) == UNCHANGED notified

\* The worker that finished the last check wakes the master.
TellMaster(t, todo) ==
  IF todo = 0 /\ t \in Worker THEN NotifyOne(Master) ELSE UNCHANGED notified

\* The first error found is the one kept.
SwapResult(t) == local_result[t] # None /\ m_result = None

\* Loop takes m_mutex: account for the batch just done, or count the thread on
\* its first iteration, then look for work.
Lock(t) ==
  /\ pc[t] = "lock"
  /\ IF nNow[t] # 0
       THEN LET todo == nTodo - nNow[t]
            IN /\ TellMaster(t, todo)
               /\ IF SwapResult(t)
                    THEN /\ local_result' = [local_result EXCEPT ![t] = m_result]
                         /\ WaitForWork(t, nIdle, nTotal, todo, local_result[t])
                    ELSE /\ UNCHANGED local_result
                         /\ WaitForWork(t, nIdle, nTotal, todo, m_result)
       ELSE /\ UNCHANGED <<notified, local_result>>
            /\ WaitForWork(t, nIdle, nTotal + 1, nTodo, m_result)

\* cond.wait returns, with m_mutex taken again.
Wake(t) ==
  /\ pc[t] = "wait"
  /\ notified' = notified \ {t}
  /\ WaitForWork(t, nIdle - 1, nTotal, nTodo, m_result)
  /\ UNCHANGED local_result

\* The checks of a batch up to the first that fails: what local_result is then.
RunChecks(checks) ==
  LET bad == {i \in DOMAIN checks : checks[i] # None}
  IN IF bad = {} THEN None ELSE checks[Min(bad)]

\* The checks run without m_mutex.
Work(t) ==
  /\ pc[t] = "work"
  /\ local_result' = IF do_work[t]
                       THEN [local_result EXCEPT ![t] = RunChecks(vChecks[t])]
                       ELSE local_result
  /\ vChecks' = [vChecks EXCEPT ![t] = << >>]
  /\ do_work' = [do_work EXCEPT ![t] = FALSE]
  /\ pc' = [pc EXCEPT ![t] = "lock"]
  /\ UNCHANGED <<shared, m_control_mutex, destructor, nNow, notified, batch, controls,
                 history>>

\* ~CCheckQueue sets m_request_stop, then wakes the workers and joins them.
RequestStop ==
  /\ m_control_mutex = None
  /\ destructor = "none"
  /\ m_request_stop' = TRUE
  /\ destructor' = "notify"
  /\ UNCHANGED <<queue, nIdle, nTotal, m_result, nTodo, m_control_mutex, pc, locals,
                 notified, batch, controls, history>>

\* Mutant: only one worker is woken.
StopNotifyOne ==
  /\ destructor = "notify"
  /\ NotifyOne(Worker)
  /\ destructor' = "join"
  /\ UNCHANGED <<shared, m_control_mutex, pc, locals, batch, controls, history>>

StopNotify ==
  /\ destructor = "notify"
  /\ NotifyAll(Worker)
  /\ destructor' = "join"
  /\ UNCHANGED <<shared, m_control_mutex, pc, locals, batch, controls, history>>

Joined ==
  /\ destructor = "join"
  /\ \A w \in Worker : pc[w] = "done"
  /\ UNCHANGED vars

Batches == UNION {[1 .. n -> Error \cup {None}] : n \in 1 .. MaxAdd}

ThreadStep(t) == Lock(t) \/ Wake(t) \/ Work(t)

Next ==
  \/ \E m \in Master : \/ OpenControl(m)
                       \/ \E checks \in Batches : Add(m, checks)
                       \/ NotifyWorkers(m)
                       \/ Complete(m)
  \/ \E t \in Thread : ThreadStep(t)
  \/ RequestStop
  \/ StopNotify
  \/ Joined

Spec == Init /\ [][Next]_vars

\* Threads get to run, a notified thread wakes up, and a destructor goes on.
FairSpec ==
  /\ Spec
  /\ \A t \in Thread : /\ WF_vars(Lock(t))
                       /\ WF_vars(Work(t))
                       /\ WF_vars(t \in notified /\ Wake(t))
  /\ \A m \in Master : WF_vars(NotifyWorkers(m))
  /\ WF_vars(StopNotify)

-----------------------------------------------------------------------------
Outcome == Error \cup {None}

\* The fields have their types, and no count goes below zero.
TypeOK ==
  /\ queue \in Seq(Outcome)
  /\ nIdle \in 0 .. Cardinality(Thread)
  /\ nTotal \in 0 .. Cardinality(Thread)
  /\ m_result \in Outcome
  /\ nTodo \in 0 .. MaxChecks
  /\ m_control_mutex \in Master \cup {None}
  /\ pc \in [Thread -> {"idle", "open", "added", "lock", "wait", "work", "done"}]
  /\ notified \subseteq {t \in Thread : pc[t] = "wait"}
  /\ local_result \in [Thread -> Outcome]
  /\ nNow \in [Thread -> 0 .. nBatchSize]

\* The checks in the batches of the threads that have not accounted for them yet:
\* the i-th of nNow[t].
InBatches == {c \in Thread \X (1 .. nBatchSize) : /\ pc[c[1]] \in {"work", "lock"}
                                                /\ c[2] <= nNow[c[1]]}

\* nTodo counts the queued checks and those in the batches of the threads until
\* they have been accounted for: it cannot reach zero early (the master would
\* return a verdict on part of the checks) nor stay above zero.
TodoExact == nTodo = Len(queue) + Cardinality(InBatches)

\* Once Complete has returned, no thread holds a check any more: the checks point
\* into data of the block that the owner of the control is about to release.
NothingHeld ==
  m_control_mutex = None => /\ queue = << >>
                            /\ \A t \in Thread : vChecks[t] = << >>

\* The answer of Complete is the one CheckVerdict promises: it says that all the
\* checks of this control passed, or gives the error of one of them, whoever ran
\* which batch and whatever earlier controls found.
Verdict == INSTANCE CheckVerdict WITH open <- m_control_mutex # None,
                                      errors <- Range(added) \ {None}
VerdictHonest == Verdict!Spec

\* A master that joined the pool gets its answer: the notification of the worker
\* that finishes last is not lost.
CompleteReturns ==
  \A m \in Master : (pc[m] \in {"lock", "wait", "work"}) ~> (pc[m] = "idle")

\* The destructor's one notification ends every worker, so that the join returns.
WorkersEnd == m_request_stop ~> \A w \in Worker : pc[w] = "done"
=============================================================================
