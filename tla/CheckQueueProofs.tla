-------------------------- MODULE CheckQueueProofs --------------------------
(***************************************************************************)
(* Proofs about CheckQueue, for any number of workers and masters, any     *)
(* batch size and any errors.                                              *)
(***************************************************************************)
EXTENDS CheckQueue, FiniteSetTheorems, TLAPS

-----------------------------------------------------------------------------
(* Facts about numbers and finite sets.                                    *)

\* Every nonempty set of natural numbers has a least element.
LEMMA NatMin ==
  ASSUME NEW T, T \subseteq Nat, T # {}
  PROVE  Min(T) \in T
<1> DEFINE less == OpToRel(<, Nat)
<1>1. IsWellFoundedOn(less, Nat)
  BY NatLessThanWellFounded, Zenon
<1>2. \E x \in T : \A y \in T : ~(<<y, x>> \in less)
  <2> HIDE DEF less
  <2> QED BY <1>1, WFMin, Zenon
<1>3. PICK x \in T : \A y \in T : ~(<<y, x>> \in less)
  BY <1>2, Zenon
<1>4. \A y \in T : x <= y
  <2> TAKE y \in T
  <2>1. ~(y < x)
    BY <1>3, Zenon DEF OpToRel
  <2> QED BY <2>1
<1> QED BY <1>4, Zenon DEF Min

\* What RunChecks returns: an error of one of the checks, if there is one.
LEMMA RunChecksFindsError ==
  ASSUME NEW checks \in Seq(Outcome)
  PROVE  /\ RunChecks(checks) = None <=> \A i \in 1 .. Len(checks) : checks[i] = None
         /\ RunChecks(checks) # None => \E i \in 1 .. Len(checks) : RunChecks(checks) = checks[i]
<1> DEFINE bad == {i \in DOMAIN checks : checks[i] # None}
<1>1. DOMAIN checks = 1 .. Len(checks)
  OBVIOUS
<1>2. CASE bad = {}
  BY <1>1, <1>2 DEF RunChecks
<1>3. CASE bad # {}
  <2>1. bad \subseteq Nat
    BY <1>1
  <2>2. Min(bad) \in bad
    <3> HIDE DEF bad
    <3> QED BY <1>3, <2>1, NatMin, Zenon
  <2> QED BY <1>1, <1>3, <2>2, Zenon DEF RunChecks
<1> QED BY <1>2, <1>3

\* A thread takes at least one check, and no more than there are.
LEMMA BatchNowRange ==
  ASSUME NEW total \in Nat, NEW idle \in Nat, queue \in Seq(Outcome), queue # << >>
  PROVE  BatchNow(total, idle) \in 1 .. Len(queue) /\ BatchNow(total, idle) <= nBatchSize
<1> DEFINE share == Len(queue) \div (total + idle + 1)
           few == Min({nBatchSize, share})
<1>1. Len(queue) \in Nat /\ Len(queue) >= 1
  OBVIOUS
<1>2. share \in Nat /\ share <= Len(queue)
  <2> DEFINE d == total + idle + 1
  <2>1. d \in Nat \ {0} 
    OBVIOUS
  <2> HIDE DEF d
  <2>2. \A n \in Nat : n \div d \in Nat /\ n \div d <= n
    BY <2>1
  <2> QED BY <1>1, <2>2 DEF d
<1>3. nBatchSize \in Nat \ {0}
  BY CheckQueueAssumption
<1> HIDE DEF share
<1>4. few \in Nat /\ few <= nBatchSize /\ few <= share
  BY <1>2, <1>3 DEF Min
<1> HIDE DEF few
<1>5. Max({1, few}) \in {1, few} /\ Max({1, few}) >= 1
  BY <1>4 DEF Max
<1> QED BY <1>1, <1>2, <1>3, <1>4, <1>5 DEF BatchNow, few, share

-----------------------------------------------------------------------------
(* Counting the checks in batches.                                         *)

\* How many checks of its batch each thread has not accounted for.
HeldOf(p, n) == [t \in Thread |-> IF p[t] \in {"work", "lock"} THEN n[t] ELSE 0]
held == HeldOf(pc, nNow)

Grid(h) == {c \in Thread \X (1 .. nBatchSize) : c[2] <= h[c[1]]}

LEMMA ThreadFinite == IsFiniteSet(Thread)
BY CheckQueueAssumption, FS_Union, Zenon DEF Thread

LEMMA GridFinite ==
  ASSUME NEW h
  PROVE  IsFiniteSet(Grid(h)) /\ Cardinality(Grid(h)) \in Nat
<1>1. IsFiniteSet(1 .. nBatchSize)
  BY CheckQueueAssumption, FS_Interval
<1>2. IsFiniteSet(Thread \X (1 .. nBatchSize))
  BY <1>1, ThreadFinite, FS_Product, Zenon
<1>3. IsFiniteSet(Grid(h))
  BY <1>2, FS_Subset DEF Grid
<1> QED BY <1>3, FS_CardinalityType

\* A thread's row of the grid.
LEMMA RowSize ==
  ASSUME NEW t, NEW n \in Nat
  PROVE  IsFiniteSet({t} \X (1 .. n)) /\ Cardinality({t} \X (1 .. n)) = n
<1>1. IsFiniteSet(1 .. n) /\ Cardinality(1 .. n) = n
  BY FS_Interval
<1>2. IsFiniteSet({t}) /\ Cardinality({t}) = 1
  BY FS_Singleton
<1>3. /\ IsFiniteSet({t} \X (1 .. n))
      /\ Cardinality({t} \X (1 .. n)) = Cardinality({t}) * Cardinality(1 .. n)
  BY <1>1, <1>2, FS_Product
<1> QED BY <1>1, <1>2, <1>3

\* The total without the batch of t.
LEMMA GridWithout ==
  ASSUME NEW h \in [Thread -> 0 .. nBatchSize], NEW t \in Thread
  PROVE  Cardinality(Grid(h)) = h[t] + Cardinality(Grid([h EXCEPT ![t] = 0]))
<1> DEFINE rest == Grid([h EXCEPT ![t] = 0])
           row == {t} \X (1 .. h[t])
<1>1. nBatchSize \in Nat /\ h[t] \in Nat /\ h[t] <= nBatchSize
  BY CheckQueueAssumption
<1>2. Grid(h) = rest \cup row
  BY <1>1 DEF Grid
<1>3. rest \cap row = {}
  BY <1>1 DEF Grid
<1>4. IsFiniteSet(rest) /\ Cardinality(rest) \in Nat
  BY GridFinite
<1>5. IsFiniteSet(row) /\ Cardinality(row) = h[t]
  BY <1>1, RowSize, Zenon
<1>6. Cardinality(rest \cap row) = 0
  BY <1>3, FS_EmptySet, Zenon
<1> HIDE DEF rest, row
<1>7. Cardinality(rest \cup row) = Cardinality(rest) + Cardinality(row) - Cardinality(rest \cap row)
  BY <1>4, <1>5, FS_Union
<1> QED BY <1>1, <1>2, <1>4, <1>5, <1>6, <1>7 DEF rest

\* What replacing the batch of t by one of k checks does to the total.
LEMMA GridUpdate ==
  ASSUME NEW h \in [Thread -> 0 .. nBatchSize], NEW t \in Thread, NEW k \in 0 .. nBatchSize
  PROVE  Cardinality(Grid([h EXCEPT ![t] = k])) = Cardinality(Grid(h)) - h[t] + k
<1> DEFINE g == [h EXCEPT ![t] = k]
           z == [h EXCEPT ![t] = 0]
<1>1. g \in [Thread -> 0 .. nBatchSize] /\ g[t] = k /\ [g EXCEPT ![t] = 0] = z
  BY Zenon
<1> HIDE DEF g, z
<1>2. Cardinality(Grid(g)) = k + Cardinality(Grid(z))
  BY <1>1, GridWithout
<1>3. Cardinality(Grid(h)) = h[t] + Cardinality(Grid(z))
  BY GridWithout, Zenon DEF z
<1>4. Cardinality(Grid(z)) \in Nat
  BY GridFinite
<1>5. h[t] \in Nat /\ k \in Nat
  BY CheckQueueAssumption
<1> QED BY <1>2, <1>3, <1>4, <1>5 DEF g

\* The total is at least any thread's batch.
LEMMA GridBound ==
  ASSUME NEW h \in [Thread -> 0 .. nBatchSize], NEW t \in Thread
  PROVE  h[t] <= Cardinality(Grid(h))
<1> DEFINE z == [h EXCEPT ![t] = 0]
<1>1. h[t] \in Nat
  BY CheckQueueAssumption
<1>2. Cardinality(Grid(h)) = h[t] + Cardinality(Grid(z))
  BY GridWithout, Zenon
<1>3. Cardinality(Grid(z)) \in Nat
  BY GridFinite
<1> HIDE DEF z
<1> QED BY <1>1, <1>2, <1>3

-----------------------------------------------------------------------------
(* The inductive invariant.                                                *)

Types ==
  /\ queue \in Seq(Outcome) /\ added \in Seq(Outcome)
  /\ nTodo \in Nat
  /\ m_result \in Outcome
  /\ m_request_stop \in BOOLEAN
  /\ m_control_mutex \in Master \cup {None}
  /\ pc \in [Thread -> {"idle", "open", "added", "lock", "wait", "work", "done"}]
  /\ notified \subseteq {t \in Thread : pc[t] = "wait"}
  /\ vChecks \in [Thread -> Seq(Outcome)]
  /\ local_result \in [Thread -> Outcome]
  /\ do_work \in [Thread -> BOOLEAN]
  /\ nNow \in [Thread -> 0 .. nBatchSize]

\* The threads in cond.wait, and those that Loop has counted.
Idle == {t \in Thread : pc[t] = "wait"}
Counted == {t \in Thread : \/ pc[t] \in {"work", "wait", "done"}
                           \/ pc[t] = "lock" /\ nNow[t] # 0}

\* nIdle and nTotal are their numbers, so that BatchNow divides by at least one.
CountsExact == nIdle = Cardinality(Idle) /\ nTotal = Cardinality(Counted)

\* nTodo never exceeds what was added.
TodoBounded == nTodo <= Len(added) /\ Len(added) <= MaxChecks

\* Only the owner of m_control_mutex adds checks or is in Loop(true), and there is
\* none while the queue is destroyed; without an owner nothing is left to do.
ControlInv ==
  /\ \A m \in Master : /\ pc[m] = "idle" <=> m_control_mutex # m
                       /\ pc[m] # "done"
                       /\ pc[m] \in {"idle", "open", "added"} => nNow[m] = 0
  /\ \A w \in Worker : pc[w] \notin {"idle", "open", "added"}
  /\ m_request_stop => m_control_mutex = None
  /\ destructor = "none" <=> ~m_request_stop
  /\ m_control_mutex = None => nTodo = 0 /\ added = << >> /\ m_result = None

\* A thread at work has a batch, and skips it only if an error is known already.
BatchInv ==
  \A t \in Thread :
    /\ pc[t] = "work" => /\ nNow[t] # 0
                         /\ do_work[t] \/ m_result # None
    /\ pc[t] # "work" => vChecks[t] = << >>

\* t has done a batch and not accounted for it.
Owes(t) == pc[t] = "lock" /\ nNow[t] # 0

\* What a check handed over under this control may have returned.
Handed == Range(added) \cup {None}

\* Nothing of an earlier control is left where the result is made from.
Known ==
  /\ m_result \in Handed
  /\ \A i \in 1 .. Len(queue) : queue[i] \in Handed
  /\ \A t \in Thread : /\ \A i \in 1 .. Len(vChecks[t]) : vChecks[t][i] \in Handed
                       /\ Owes(t) /\ m_result = None => local_result[t] \in Handed

\* An error that was handed over is in the result or still on its way there.
Remembered ==
  (\E i \in 1 .. Len(added) : added[i] # None) =>
    \/ m_result # None
    \/ \E i \in 1 .. Len(queue) : queue[i] # None
    \/ \E t \in Thread : \E i \in 1 .. Len(vChecks[t]) : vChecks[t][i] # None
    \/ \E t \in Thread : Owes(t) /\ local_result[t] # None

IInv == /\ Types /\ CountsExact /\ TodoExact /\ TodoBounded
        /\ ControlInv /\ BatchInv /\ Known /\ Remembered

-----------------------------------------------------------------------------
(* A thread that has m_mutex at the inner loop of Loop.                    *)

\* What holds there, of the values WaitForWork is given and of what Lock and Wake
\* do besides.
Turn(t, idle, total, todo, result) ==
  /\ pc[t] \in {"lock", "wait"}
  /\ idle = Cardinality(Idle \ {t})
  /\ total = Cardinality(Counted \cup {t})
  /\ todo = nTodo - held[t]
  /\ \/ result = m_result /\ (Owes(t) => local_result[t] = None \/ m_result # None)
     \/ Owes(t) /\ m_result = None /\ result = local_result[t] /\ result # None
  /\ \E r \in Outcome : local_result' = [local_result EXCEPT ![t] = r]
  /\ notified' \subseteq Idle \ {t}

LEMMA BatchesAreGrid ==
  ASSUME NEW p, NEW n \in [Thread -> 0 .. nBatchSize]
  PROVE  /\ HeldOf(p, n) \in [Thread -> 0 .. nBatchSize]
         /\ {c \in Thread \X (1 .. nBatchSize) : /\ p[c[1]] \in {"work", "lock"}
                                                 /\ c[2] <= n[c[1]]} = Grid(HeldOf(p, n))
<1>1. nBatchSize \in Nat
  BY CheckQueueAssumption
<1>2. HeldOf(p, n) \in [Thread -> 0 .. nBatchSize]
  BY <1>1 DEF HeldOf
<1>3. ASSUME NEW c \in Thread \X (1 .. nBatchSize)
      PROVE  (p[c[1]] \in {"work", "lock"} /\ c[2] <= n[c[1]]) <=> c[2] <= HeldOf(p, n)[c[1]]
  BY <1>1 DEF HeldOf
<1> QED BY <1>2, <1>3 DEF Grid

\* InBatches is the grid of held, before and after a step.
LEMMA InBatchesIsGrid ==
  /\ Types => InBatches = Grid(held) /\ held \in [Thread -> 0 .. nBatchSize]
  /\ Types' => InBatches' = Grid(held') /\ held' \in [Thread -> 0 .. nBatchSize]
<1>1. Types => InBatches = Grid(held) /\ held \in [Thread -> 0 .. nBatchSize]
  BY BatchesAreGrid DEF Types, InBatches, held
<1>2. Types' => InBatches' = Grid(held') /\ held' \in [Thread -> 0 .. nBatchSize]
  <2> SUFFICES ASSUME Types'
               PROVE  InBatches' = Grid(held') /\ held' \in [Thread -> 0 .. nBatchSize]
    OBVIOUS
  <2>1. nNow' \in [Thread -> 0 .. nBatchSize]
    BY DEF Types, Thread
  <2> QED BY <2>1, BatchesAreGrid DEF InBatches, held
<1> QED BY <1>1, <1>2

\* The checks that others hold once t has accounted for its batch.
LEMMA TodoOfOthers ==
  ASSUME IInv, NEW t \in Thread
  PROVE  /\ nTodo - held[t] \in Nat
         /\ nTodo - held[t] = Len(queue) + Cardinality(Grid([held EXCEPT ![t] = 0]))
<1>1. InBatches = Grid(held) /\ held \in [Thread -> 0 .. nBatchSize]
  BY InBatchesIsGrid DEF IInv
<1>2. Cardinality(Grid(held)) = held[t] + Cardinality(Grid([held EXCEPT ![t] = 0]))
  BY <1>1, GridWithout, Zenon
<1>3. Cardinality(Grid([held EXCEPT ![t] = 0])) \in Nat
  BY GridFinite
<1>4. held[t] \in Nat /\ Len(queue) \in Nat
  BY <1>1, CheckQueueAssumption DEF IInv, Types
<1> HIDE DEF held
<1> QED BY <1>1, <1>2, <1>3, <1>4 DEF IInv, TodoExact

\* When it is zero the queue is empty and no other thread has a batch.
LEMMA NothingLeftMeansDone ==
  ASSUME IInv, NEW t \in Thread, nTodo - held[t] = 0
  PROVE  queue = << >> /\ \A u \in Thread \ {t} : held[u] = 0
<1> DEFINE z == [held EXCEPT ![t] = 0]
<1>1. held \in [Thread -> 0 .. nBatchSize]
  BY InBatchesIsGrid DEF IInv
<1>2. z \in [Thread -> 0 .. nBatchSize]
  BY <1>1, CheckQueueAssumption
<1>3. Cardinality(Grid(z)) \in Nat
  BY GridFinite
<1>4. Len(queue) \in Nat /\ queue \in Seq(Outcome)
  BY DEF IInv, Types
<1>5. Len(queue) = 0 /\ Cardinality(Grid(z)) = 0
  <2>1. nTodo - held[t] = Len(queue) + Cardinality(Grid(z))
    BY TodoOfOthers
  <2> HIDE DEF z
  <2> QED BY <1>3, <1>4, <2>1
<1>6. ASSUME NEW u \in Thread \ {t}
      PROVE  held[u] = 0
  <2>1. z[u] <= Cardinality(Grid(z))
    BY <1>2, GridBound, Zenon
  <2>2. z[u] = held[u] /\ held[u] \in Nat
    BY <1>1, CheckQueueAssumption
  <2> QED BY <1>5, <2>1, <2>2
<1> QED BY <1>4, <1>5, <1>6
-----------------------------------------------------------------------------
(* The four ways on from there.                                            *)

\* nIdle, nTotal and nTodo when t moves on.
LEMMA CountsFinite ==
  /\ \A t : IsFiniteSet(Idle \ {t}) /\ Cardinality(Idle \ {t}) \in Nat
  /\ \A t \in Thread : IsFiniteSet(Counted \cup {t}) /\ Cardinality(Counted \cup {t}) \in Nat
<1>1. IsFiniteSet(Idle) /\ IsFiniteSet(Counted)
  BY ThreadFinite, FS_Subset DEF Idle, Counted
<1> QED BY <1>1, FS_AddElement, FS_RemoveElement, FS_CardinalityType, Zenon

\* The master has its result: nothing is left of the control.
LEMMA ReturnPreserves ==
  ASSUME IInv, NEW t \in Master, NEW idle, NEW total, NEW todo, NEW result,
         Turn(t, idle, total, todo, result), todo = 0,
         queue = << >>, ~m_request_stop,
         ReturnResult(t, total, result), nIdle' = idle, nTodo' = todo,
         UNCHANGED <<queue, vChecks, do_work, m_request_stop, destructor>>
  PROVE  IInv'
<1> USE DEF IInv
<1>1. t \in Thread /\ t \notin Worker /\ t # None
  BY CheckQueueAssumption DEF Thread
<1>2. \A u \in Thread \ {t} : held[u] = 0
  BY <1>1, NothingLeftMeansDone DEF Turn
<1>3. pc' = [pc EXCEPT ![t] = "idle"] /\ nNow' = [nNow EXCEPT ![t] = 0]
  BY DEF ReturnResult
<1>4. Types'
  <2>1. \E r \in Outcome : local_result' = [local_result EXCEPT ![t] = r]
    BY Zenon DEF Turn
  <2>2. notified' \subseteq {u \in Thread : pc'[u] = "wait"}
    BY <1>1, <1>3 DEF Turn, Idle, Types
  <2> QED BY <1>1, <1>3, <2>1, <2>2, CheckQueueAssumption DEF Types, ReturnResult, Outcome
<1>5. CountsExact'
  <2>1. Idle' = Idle \ {t}
    BY <1>1, <1>3 DEF Idle, Types
  <2>2. Counted' = (Counted \cup {t}) \ {t}
    BY <1>1, <1>3 DEF Counted, Types
  <2>3. Cardinality((Counted \cup {t}) \ {t}) = Cardinality(Counted \cup {t}) - 1
    BY <1>1, CountsFinite, FS_RemoveElement, Zenon
  <2> QED BY <2>1, <2>2, <2>3 DEF CountsExact, Turn, ReturnResult
<1>6. held' = [u \in Thread |-> 0]
  BY <1>1, <1>2, <1>3 DEF held, HeldOf, Types
<1>7. TodoExact'
  <2>1. Grid(held') = {}
    BY <1>6, CheckQueueAssumption DEF Grid
  <2>2. InBatches' = Grid(held')
    BY <1>4, InBatchesIsGrid
  <2>3. Cardinality(InBatches') = 0
    BY <2>1, <2>2, FS_EmptySet
  <2> QED BY <2>3 DEF TodoExact
<1>8. TodoBounded'
  BY CheckQueueAssumption DEF TodoBounded, ReturnResult
<1>9. ControlInv'
  BY <1>1, <1>3, CheckQueueAssumption, Zenon DEF ControlInv, ReturnResult, Types, Turn, Thread
<1>10. \A u \in Thread : pc'[u] # "work" /\ ~Owes(u)' /\ vChecks'[u] = << >>
  <2> TAKE u \in Thread
  <2>1. held[u] = 0 \/ u = t
    BY <1>2
  <2> QED BY <1>1, <1>3, <2>1 DEF held, HeldOf, Owes, BatchInv, Types, Turn
<1>11. BatchInv'
  BY <1>10 DEF BatchInv
<1>12. Known' /\ Remembered'
  BY <1>10 DEF Known, Remembered, Handed, ReturnResult
<1> QED BY <1>4, <1>5, <1>7, <1>8, <1>9, <1>11, <1>12
\* The result a thread leaves behind is one of this control, and none is lost.
LEMMA ResultOfTurn ==
  ASSUME IInv, NEW t \in Thread, NEW idle, NEW total, NEW todo, NEW result,
         Turn(t, idle, total, todo, result)
  PROVE  /\ result \in Outcome /\ result \in Handed
         /\ m_result # None => result = m_result
         /\ Owes(t) /\ local_result[t] # None => result # None
         /\ todo \in Nat /\ todo <= nTodo
         /\ m_control_mutex = None => todo = 0 /\ result = None
         /\ vChecks[t] = << >>
<1> USE DEF IInv
<1>1. todo \in Nat
  BY TodoOfOthers, Zenon DEF Turn
<1>2. held[t] \in Nat /\ nTodo \in Nat
  BY InBatchesIsGrid, CheckQueueAssumption DEF Types
<1>3. todo <= nTodo
  BY <1>1, <1>2 DEF Turn
<1>4. Owes(t) => held[t] # 0
  BY DEF Owes, held, HeldOf
<1>5. /\ result \in Outcome /\ result \in Handed
      /\ m_result # None => result = m_result
      /\ Owes(t) /\ local_result[t] # None => result # None
  BY DEF Turn, Known, Types
<1>6. ASSUME m_control_mutex = None
      PROVE  todo = 0 /\ result = None
  <2>1. nTodo = 0 /\ m_result = None
    BY <1>6 DEF ControlInv
  <2>2. todo = 0 /\ held[t] = 0
    BY <1>1, <1>2, <2>1 DEF Turn
  <2> QED BY <1>4, <2>1, <2>2 DEF Turn
<1>7. vChecks[t] = << >>
  BY DEF Turn, BatchInv
<1> QED BY <1>1, <1>3, <1>5, <1>6, <1>7

\* The thread waits, or ends because the queue is being destroyed.
LEMMA RestPreserves ==
  ASSUME IInv, NEW t \in Thread, NEW idle, NEW total, NEW todo, NEW result,
         Turn(t, idle, total, todo, result), NEW label \in {"wait", "done"},
         label = "done" => m_request_stop,
         pc' = [pc EXCEPT ![t] = label],
         nIdle' = IF label = "wait" THEN idle + 1 ELSE idle,
         nTotal' = total, m_result' = result, nTodo' = todo,
         UNCHANGED <<queue, vChecks, nNow, do_work, m_request_stop, destructor,
                     m_control_mutex, history>>
  PROVE  IInv'
<1> USE DEF IInv
<1>1. UNCHANGED <<queue, vChecks, nNow, do_work, m_request_stop, destructor,
                  m_control_mutex, added>>
  BY DEF history
<1>2. /\ result \in Outcome /\ result \in Handed
      /\ m_result # None => result = m_result
      /\ Owes(t) /\ local_result[t] # None => result # None
      /\ todo \in Nat /\ todo <= nTodo
      /\ m_control_mutex = None => todo = 0 /\ result = None
      /\ vChecks[t] = << >>
  BY ResultOfTurn, Zenon
<1>3. PICK r \in Outcome : local_result' = [local_result EXCEPT ![t] = r]
  BY Zenon DEF Turn
<1>4. Types'
  <2>1. notified' \subseteq {u \in Thread : pc'[u] = "wait"}
    BY DEF Turn, Idle, Types
  <2> QED BY <1>1, <1>2, <1>3, <2>1 DEF Types
<1>5. CountsExact'
  <2>1. Counted' = Counted \cup {t}
    BY <1>1 DEF Counted, Types
  <2>2. CASE label = "wait"
    <3>1. Idle' = (Idle \ {t}) \cup {t}
      BY <2>2 DEF Idle, Types
    <3>2. Cardinality((Idle \ {t}) \cup {t}) = Cardinality(Idle \ {t}) + 1
      BY CountsFinite, FS_AddElement, Zenon
    <3> QED BY <2>1, <2>2, <3>1, <3>2 DEF CountsExact, Turn
  <2>3. CASE label = "done"
    <3>1. Idle' = Idle \ {t}
      BY <2>3 DEF Idle, Types
    <3> QED BY <2>1, <2>3, <3>1 DEF CountsExact, Turn
  <2> QED BY <2>2, <2>3
<1>6. TodoExact'
  <2>1. held' = [held EXCEPT ![t] = 0]
    BY <1>1, Zenon DEF held, HeldOf, Types
  <2>2. InBatches' = Grid(held')
    BY <1>4, InBatchesIsGrid
  <2>3. nTodo - held[t] = Len(queue) + Cardinality(Grid([held EXCEPT ![t] = 0]))
    BY TodoOfOthers, Zenon
  <2> QED BY <1>1, <2>1, <2>2, <2>3 DEF TodoExact, Turn
<1>7. TodoBounded'
  BY <1>1, <1>2 DEF TodoBounded, Types
<1>8. ControlInv'
  BY <1>1, <1>2, CheckQueueAssumption, SMTT(30) DEF ControlInv, Types, Turn, Thread
<1>9. BatchInv'
  BY <1>1, <1>2 DEF BatchInv, Types
<1>10. \A u \in Thread : Owes(u)' <=> u # t /\ Owes(u)
  BY <1>1 DEF Owes, Types
<1>11. Known'
  BY <1>1, <1>2, <1>3, <1>10 DEF Known, Handed, Types
<1>12. Remembered'
  <2> SUFFICES ASSUME \E i \in 1 .. Len(added) : added[i] # None, result = None
               PROVE  \/ \E i \in 1 .. Len(queue) : queue[i] # None
                      \/ \E u \in Thread : \E i \in 1 .. Len(vChecks[u]) : vChecks[u][i] # None
                      \/ \E u \in Thread : Owes(u)' /\ local_result'[u] # None
    BY <1>1, Zenon DEF Remembered
  <2>1. m_result = None
    BY <1>2, Zenon
  <2>2. ASSUME NEW u \in Thread, Owes(u), local_result[u] # None
        PROVE  Owes(u)' /\ local_result'[u] # None
    <3>1. u # t
      BY <1>2, <2>2
    <3> QED BY <1>3, <1>10, <2>2, <3>1 DEF Types
  <2> QED BY <2>1, <2>2, Zenon DEF Remembered
<1> QED BY <1>4, <1>5, <1>6, <1>7, <1>8, <1>9, <1>11, <1>12

LEMMA MinusPlus ==
  ASSUME NEW k \in Nat, NEW i \in 1 .. k
  PROVE  k = (k - i) + i
OBVIOUS

\* A failed check of a queue is in the part that stays or in the part that is taken.
LEMMA SplitKeeps ==
  ASSUME NEW whole \in Seq(Outcome), NEW rest \in Seq(Outcome), NEW taken \in Seq(Outcome),
         Len(whole) = Len(rest) + Len(taken),
         \A j \in 1 .. Len(rest) : rest[j] = whole[j],
         \A j \in 1 .. Len(taken) : taken[j] = whole[Len(rest) + j],
         NEW i \in 1 .. Len(whole), whole[i] # None
  PROVE  \/ \E j \in 1 .. Len(rest) : rest[j] # None
         \/ \E j \in 1 .. Len(taken) : taken[j] # None
<1>1. CASE i <= Len(rest)
  <2>1. i \in 1 .. Len(rest)
    BY <1>1
  <2> QED BY <2>1, Zenon
<1>2. CASE i > Len(rest)
  <2>1. i - Len(rest) \in 1 .. Len(taken) /\ Len(rest) + (i - Len(rest)) = i
    BY <1>2
  <2> QED BY <2>1, Zenon
<1>3. i <= Len(rest) \/ i > Len(rest)
  OBVIOUS
<1> QED BY <1>1, <1>2, <1>3, Zenon

\* The thread takes a batch.
LEMMA TakePreserves ==
  ASSUME IInv, NEW t \in Thread, NEW idle, NEW total, NEW todo, NEW result,
         Turn(t, idle, total, todo, result),
         queue # << >>, TakeBatch(t, idle, total, result),
         nIdle' = idle, nTotal' = total, m_result' = result, nTodo' = todo,
         UNCHANGED <<m_request_stop, destructor, m_control_mutex, history>>
  PROVE  IInv'
<1> USE DEF IInv
<1> DEFINE n == BatchNow(total, idle)
           start == Len(queue) - n
<1>1. UNCHANGED <<m_request_stop, destructor, m_control_mutex, added>>
  BY DEF history
<1>2. /\ result \in Outcome /\ result \in Handed
      /\ m_result # None => result = m_result
      /\ Owes(t) /\ local_result[t] # None => result # None
      /\ todo \in Nat /\ todo <= nTodo
      /\ m_control_mutex = None => todo = 0 /\ result = None
      /\ vChecks[t] = << >>
  BY ResultOfTurn
<1>3. PICK r \in Outcome : local_result' = [local_result EXCEPT ![t] = r]
  BY Zenon DEF Turn
<1>4. idle \in Nat /\ total \in Nat
  BY CountsFinite, Zenon DEF Turn
<1>5. queue \in Seq(Outcome) /\ Len(queue) \in Nat /\ nBatchSize \in Nat
  BY CheckQueueAssumption DEF Types
<1>6. n \in 1 .. Len(queue) /\ n <= nBatchSize
  BY <1>4, <1>5, BatchNowRange
<1>7. /\ nNow' = [nNow EXCEPT ![t] = n]
      /\ vChecks' = [vChecks EXCEPT ![t] = SubSeq(queue, start + 1, Len(queue))]
      /\ queue' = SubSeq(queue, 1, start)
      /\ do_work' = [do_work EXCEPT ![t] = (result = None)]
      /\ pc' = [pc EXCEPT ![t] = "work"]
  BY DEF TakeBatch
<1> HIDE DEF n
<1>8. /\ queue' \in Seq(Outcome) /\ Len(queue') = start
      /\ \A i \in 1 .. start : queue'[i] = queue[i]
  BY <1>5, <1>6, <1>7
<1>9. /\ vChecks'[t] \in Seq(Outcome) /\ Len(vChecks'[t]) = n
      /\ \A i \in 1 .. n : vChecks'[t][i] = queue[start + i]
      /\ \A u \in Thread \ {t} : vChecks'[u] = vChecks[u]
  BY <1>5, <1>6, <1>7 DEF Types
<1>10. Types'
  <2>1. notified' \subseteq {u \in Thread : pc'[u] = "wait"}
    BY <1>7 DEF Turn, Idle, Types
  <2>2. nNow' \in [Thread -> 0 .. nBatchSize]
    BY <1>5, <1>6, <1>7 DEF Types
  <2>3. vChecks' \in [Thread -> Seq(Outcome)]
    BY <1>7, <1>9, Zenon DEF Types
  <2> QED BY <1>1, <1>2, <1>3, <1>7, <1>8, <2>1, <2>2, <2>3, Zenon DEF Types
<1>11. CountsExact'
  <2>1. Counted' = Counted \cup {t}
    BY <1>7 DEF Counted, Types
  <2>2. Idle' = Idle \ {t}
    BY <1>7 DEF Idle, Types
  <2> QED BY <2>1, <2>2 DEF CountsExact, Turn
<1>12. TodoExact'
  <2> DEFINE z == [held EXCEPT ![t] = 0]
  <2>1. held' = [z EXCEPT ![t] = n]
    BY <1>7, Zenon DEF held, HeldOf, Types
  <2>2. InBatches' = Grid(held')
    BY <1>10, InBatchesIsGrid
  <2>3. todo = Len(queue) + Cardinality(Grid(z))
    BY TodoOfOthers, Zenon DEF Turn
  <2>4. z \in [Thread -> 0 .. nBatchSize] /\ z[t] = 0
    BY <1>5, InBatchesIsGrid
  <2>5. n \in 0 .. nBatchSize
    BY <1>5, <1>6
  <2> HIDE DEF z
  <2>6. Cardinality(Grid(held')) = Cardinality(Grid(z)) - 0 + n
    BY <2>1, <2>4, <2>5, GridUpdate, Zenon
  <2>7. Cardinality(Grid(z)) \in Nat
    BY GridFinite, Zenon
  <2> QED BY <1>5, <1>6, <1>8, <2>2, <2>3, <2>6, <2>7 DEF TodoExact
<1>13. TodoBounded'
  BY <1>1, <1>2 DEF TodoBounded, Types
<1>14. ControlInv'
  <2>1. m_control_mutex # None
    <3> SUFFICES ASSUME m_control_mutex = None PROVE FALSE
      BY Zenon
    <3>1. todo = 0
      BY <1>2, Zenon
    <3>2. queue = << >>
      BY <3>1, NothingLeftMeansDone, Zenon DEF Turn
    <3> QED BY <3>2, Zenon
  <2>2. pc'[t] = "work" /\ \A u \in Thread \ {t} : pc'[u] = pc[u] /\ nNow'[u] = nNow[u]
    BY <1>7, Zenon DEF Types
  <2>3. pc[t] \in {"lock", "wait"}
    BY Zenon DEF Turn
  <2> QED BY <1>1, <2>1, <2>2, <2>3, CheckQueueAssumption, SMTT(30) DEF ControlInv, Thread
<1>15. BatchInv'
  <2> SUFFICES ASSUME NEW u \in Thread
               PROVE  /\ pc'[u] = "work" => /\ nNow'[u] # 0
                                            /\ do_work'[u] \/ result # None
                      /\ pc'[u] # "work" => vChecks'[u] = << >>
    BY Zenon DEF BatchInv
  <2>1. CASE u = t
    <3>1. pc'[u] = "work" /\ nNow'[u] = n /\ do_work'[u] = (result = None)
      BY <1>7, <2>1, Zenon DEF Types
    <3>2. nNow'[u] # 0
      BY <1>6, <3>1
    <3>3. do_work'[u] \/ result # None
      BY <3>1, Zenon
    <3> QED BY <3>1, <3>2, <3>3, Zenon
  <2>2. CASE u # t
    <3>1. pc'[u] = pc[u] /\ nNow'[u] = nNow[u] /\ do_work'[u] = do_work[u]
      BY <1>7, <2>2, Zenon DEF Types
    <3> QED BY <1>2, <1>9, <2>2, <3>1, Zenon DEF BatchInv
  <2> QED BY <2>1, <2>2, Zenon
<1>16. \A u \in Thread : Owes(u)' <=> u # t /\ Owes(u)
  BY <1>7, Zenon DEF Owes, Types
<1>17. Known'
  <2>0. \A i \in 1 .. Len(queue) : queue[i] \in Handed
    BY Zenon DEF Known
  <2>1. ASSUME NEW i \in 1 .. Len(queue')
        PROVE  queue'[i] \in Handed
    <3>1. i \in 1 .. start /\ i \in 1 .. Len(queue)
      BY <1>5, <1>6, <1>8
    <3> QED BY <1>8, <2>0, <3>1, Zenon
  <2>2. ASSUME NEW i \in 1 .. Len(vChecks'[t])
        PROVE  vChecks'[t][i] \in Handed
    <3>1. i \in 1 .. n /\ start + i \in 1 .. Len(queue)
      BY <1>5, <1>6, <1>9
    <3> QED BY <1>9, <2>0, <3>1, Zenon
  <2> QED BY <1>1, <1>2, <1>3, <1>9, <1>16, <2>1, <2>2, ZenonT(30) DEF Known, Handed, Types
<1>18. Remembered'
  <2>1. ASSUME NEW i \in 1 .. Len(queue), queue[i] # None
        PROVE  \/ \E j \in 1 .. Len(queue') : queue'[j] # None
               \/ \E j \in 1 .. Len(vChecks'[t]) : vChecks'[t][j] # None
    <3>1. Len(queue) = Len(queue') + Len(vChecks'[t])
      BY <1>5, <1>6, <1>8, <1>9, MinusPlus, Zenon
    <3>2. \A j \in 1 .. Len(vChecks'[t]) : vChecks'[t][j] = queue[Len(queue') + j]
      BY <1>8, <1>9, Zenon
    <3>3. \A j \in 1 .. Len(queue') : queue'[j] = queue[j]
      BY <1>8, Zenon
    <3> QED BY <1>5, <1>8, <1>9, <2>1, <3>1, <3>2, <3>3, SplitKeeps, Zenon
  <2> SUFFICES ASSUME \E i \in 1 .. Len(added) : added[i] # None, result = None
               PROVE  \/ \E i \in 1 .. Len(queue') : queue'[i] # None
                      \/ \E u \in Thread : \E i \in 1 .. Len(vChecks'[u]) : vChecks'[u][i] # None
                      \/ \E u \in Thread : Owes(u)' /\ local_result'[u] # None
    BY <1>1, Zenon DEF Remembered
  <2>2. m_result = None
    BY <1>2, Zenon
  <2>3. ASSUME NEW u \in Thread, Owes(u), local_result[u] # None
        PROVE  Owes(u)' /\ local_result'[u] # None
    <3>1. u # t
      BY <1>2, <2>3, Zenon
    <3> QED BY <1>3, <1>16, <2>3, <3>1, Zenon DEF Types
  <2>4. ASSUME NEW u \in Thread, NEW i \in 1 .. Len(vChecks[u]), vChecks[u][i] # None
        PROVE  vChecks'[u] = vChecks[u]
    <3>1. u # t
      BY <1>2
    <3> QED BY <1>9, <3>1, Zenon
  <2>5. CASE \E i \in 1 .. Len(queue) : queue[i] # None
    BY <2>1, <2>5, Zenon
  <2>6. CASE \E u \in Thread : \E i \in 1 .. Len(vChecks[u]) : vChecks[u][i] # None
    <3>1. PICK u \in Thread : \E i \in 1 .. Len(vChecks[u]) : vChecks[u][i] # None
      BY <2>6, Zenon
    <3>2. vChecks'[u] = vChecks[u]
      BY <2>4, <3>1, Zenon
    <3> QED BY <3>1, <3>2, Zenon
  <2>7. CASE \E u \in Thread : Owes(u) /\ local_result[u] # None
    BY <2>3, <2>7, Zenon
  <2> QED BY <2>2, <2>5, <2>6, <2>7, Zenon DEF Remembered
<1> QED BY <1>10, <1>11, <1>12, <1>13, <1>14, <1>15, <1>17, <1>18, Zenon
-----------------------------------------------------------------------------
(* The steps.                                                              *)

\* Whichever way it goes on.
LEMMA WaitForWorkPreserves ==
  ASSUME IInv, NEW t \in Thread, NEW idle, NEW total, NEW todo, NEW result,
         Turn(t, idle, total, todo, result), WaitForWork(t, idle, total, todo, result)
  PROVE  IInv'
<1>1. nTodo' = todo /\ UNCHANGED <<m_request_stop, destructor>>
  BY Zenon DEF WaitForWork
<1>2. CASE /\ queue = << >> /\ ~m_request_stop
           /\ t \in Master /\ NothingLeft(todo)
           /\ ReturnResult(t, total, result)
           /\ nIdle' = idle
           /\ UNCHANGED <<queue, vChecks, do_work>>
  BY <1>1, <1>2, ReturnPreserves, Zenon DEF NothingLeft
<1>3. CASE /\ nIdle' = idle + 1
           /\ nTotal' = total
           /\ m_result' = result
           /\ pc' = [pc EXCEPT ![t] = "wait"]
           /\ UNCHANGED <<queue, vChecks, nNow, do_work, m_control_mutex, history>>
  BY <1>1, <1>3, RestPreserves, Zenon
<1>4. CASE /\ m_request_stop
           /\ nIdle' = idle
           /\ nTotal' = total
           /\ m_result' = result
           /\ pc' = [pc EXCEPT ![t] = "done"]
           /\ UNCHANGED <<queue, vChecks, nNow, do_work, m_control_mutex, history>>
  BY <1>1, <1>4, RestPreserves, Zenon
<1>5. CASE /\ queue # << >> /\ ~m_request_stop
           /\ TakeBatch(t, idle, total, result)
           /\ nIdle' = idle
           /\ nTotal' = total
           /\ m_result' = result
           /\ UNCHANGED <<m_control_mutex, history>>
  BY <1>1, <1>5, TakePreserves, Zenon
<1> QED BY <1>2, <1>3, <1>4, <1>5, Zenon DEF WaitForWork

\* What a notification adds to notified.
LEMMA NotifyOnlyWaiting ==
  ASSUME Types, NEW T \in SUBSET Thread, NotifyOne(T) \/ NotifyAll(T)
  PROVE  notified' \subseteq Idle
BY Zenon DEF Types, NotifyOne, NotifyAll, Waiting, Idle

\* Lock and Wake bring a thread to the inner loop as Turn says.
LEMMA LockIsTurn ==
  ASSUME IInv, NEW t \in Thread, Lock(t)
  PROVE  \E idle, total, todo, result : /\ Turn(t, idle, total, todo, result)
                                        /\ WaitForWork(t, idle, total, todo, result)
<1> USE DEF IInv
<1>1. pc[t] = "lock" /\ t \notin Idle /\ Idle \ {t} = Idle
  BY Zenon DEF Lock, Idle
<1>2. nIdle = Cardinality(Idle \ {t})
  BY <1>1, Zenon DEF CountsExact
<1>3. held[t] = nNow[t] /\ nTodo \in Nat /\ nNow[t] \in Nat
  BY <1>1, CheckQueueAssumption DEF held, HeldOf, Types
<1>4. local_result \in [Thread -> Outcome] /\ m_result \in Outcome
  BY Zenon DEF Types
<1>5. UNCHANGED local_result => local_result' = [local_result EXCEPT ![t] = local_result[t]]
  BY <1>4, Zenon
<1>6. CASE nNow[t] # 0
  <2>1. Counted \cup {t} = Counted
    BY <1>1, <1>6, Zenon DEF Counted
  <2>2. nTotal = Cardinality(Counted \cup {t})
    BY <2>1, Zenon DEF CountsExact
  <2>3. Owes(t)
    BY <1>1, <1>6, Zenon DEF Owes
  <2>4. notified' \subseteq Idle \ {t}
    <3>1. Master \subseteq Thread
      BY Zenon DEF Thread
    <3>2. UNCHANGED notified => notified' \subseteq Idle
      BY Zenon DEF Types, Idle
    <3> QED BY <1>1, <1>6, <3>1, <3>2, NotifyOnlyWaiting, Zenon DEF Lock, TellMaster
  <2>5. CASE SwapResult(t)
    <3>1. /\ local_result' = [local_result EXCEPT ![t] = m_result]
          /\ WaitForWork(t, nIdle, nTotal, nTodo - nNow[t], local_result[t])
      BY <1>6, <2>5, Zenon DEF Lock
    <3>2. Turn(t, nIdle, nTotal, nTodo - nNow[t], local_result[t])
      BY <1>1, <1>2, <1>3, <1>4, <2>2, <2>3, <2>4, <2>5, <3>1, Zenon DEF Turn, SwapResult
    <3> QED BY <3>1, <3>2, Zenon
  <2>6. CASE ~SwapResult(t)
    <3>1. /\ UNCHANGED local_result
          /\ WaitForWork(t, nIdle, nTotal, nTodo - nNow[t], m_result)
      BY <1>6, <2>6, Zenon DEF Lock
    <3>2. Turn(t, nIdle, nTotal, nTodo - nNow[t], m_result)
      BY <1>1, <1>2, <1>3, <1>4, <1>5, <2>2, <2>3, <2>4, <2>6, <3>1, Zenon DEF Turn, SwapResult
    <3> QED BY <3>1, <3>2, Zenon
  <2> QED BY <2>5, <2>6, Zenon
<1>7. CASE nNow[t] = 0
  <2>1. /\ UNCHANGED <<notified, local_result>>
        /\ WaitForWork(t, nIdle, nTotal + 1, nTodo, m_result)
    BY <1>7, Zenon DEF Lock
  <2>2. t \notin Counted /\ IsFiniteSet(Counted)
    BY <1>1, <1>7, ThreadFinite, FS_Subset, Zenon DEF Counted
  <2>3. nTotal + 1 = Cardinality(Counted \cup {t})
    BY <2>2, FS_AddElement, Zenon DEF CountsExact
  <2>4. notified' \subseteq Idle \ {t}
    BY <1>1, <2>1, Zenon DEF Types, Idle
  <2>5. ~Owes(t) /\ nTodo = nTodo - held[t]
    BY <1>3, <1>7 DEF Owes
  <2>6. Turn(t, nIdle, nTotal + 1, nTodo, m_result)
    BY <1>1, <1>2, <1>4, <1>5, <2>1, <2>3, <2>4, <2>5, Zenon DEF Turn
  <2> QED BY <2>1, <2>6, Zenon
<1> QED BY <1>6, <1>7, Zenon

LEMMA WakeIsTurn ==
  ASSUME IInv, NEW t \in Thread, Wake(t)
  PROVE  \E idle, total, todo, result : /\ Turn(t, idle, total, todo, result)
                                        /\ WaitForWork(t, idle, total, todo, result)
<1> USE DEF IInv
<1>1. pc[t] = "wait" /\ t \in Idle /\ t \in Counted
  BY Zenon DEF Wake, Idle, Counted
<1>2. /\ notified' = notified \ {t}
      /\ WaitForWork(t, nIdle - 1, nTotal, nTodo, m_result)
      /\ UNCHANGED local_result
  BY Zenon DEF Wake
<1>3. IsFiniteSet(Idle)
  BY ThreadFinite, FS_Subset, Zenon DEF Idle
<1>4. nIdle - 1 = Cardinality(Idle \ {t})
  BY <1>1, <1>3, FS_RemoveElement, Zenon DEF CountsExact
<1>5. nTotal = Cardinality(Counted \cup {t})
  <2>1. Counted \cup {t} = Counted
    BY <1>1, Zenon
  <2> QED BY <2>1, Zenon DEF CountsExact
<1>6. held[t] = 0 /\ nTodo = nTodo - held[t] /\ ~Owes(t)
  BY <1>1 DEF held, HeldOf, Owes, Types
<1>7. \E r \in Outcome : local_result' = [local_result EXCEPT ![t] = r]
  BY <1>2 DEF Types
<1>8. notified' \subseteq Idle \ {t}
  BY <1>2, Zenon DEF Types, Idle
<1>9. Turn(t, nIdle - 1, nTotal, nTodo, m_result)
  BY <1>1, <1>4, <1>5, <1>6, <1>7, <1>8, Zenon DEF Turn
<1> QED BY <1>2, <1>9, Zenon
\* Steps that leave the counted things alone.
SameCounts == /\ UNCHANGED <<nIdle, nTotal>>
              /\ Idle' = Idle /\ Counted' = Counted /\ held' = held

LEMMA SameCountsPreserve ==
  ASSUME IInv, SameCounts, Types', nTodo' - Len(queue') = nTodo - Len(queue)
  PROVE  CountsExact' /\ TodoExact'
<1> USE DEF IInv
<1>1. CountsExact'
  BY Zenon DEF SameCounts, CountsExact
<1>2. InBatches' = InBatches
  BY InBatchesIsGrid, Zenon DEF SameCounts
<1>3. InBatches = Grid(held)
  BY InBatchesIsGrid, Zenon
<1>4. Cardinality(InBatches) \in Nat
  BY <1>3, GridFinite, Zenon
<1>5. nTodo \in Nat /\ nTodo' \in Nat /\ Len(queue) \in Nat /\ Len(queue') \in Nat
  BY DEF Types
<1> QED BY <1>1, <1>2, <1>4, <1>5 DEF TodoExact

\* Steps of the owner of a control and of the destructor touch no batch.
LEMMA OpenControlPreserves ==
  ASSUME IInv, NEW m \in Master, OpenControl(m)
  PROVE  IInv'
<1> USE DEF IInv, OpenControl, shared, locals
<1>1. m \in Thread /\ m \notin Worker /\ m # None
  BY CheckQueueAssumption, Zenon DEF Thread
<1>2. Types'
  BY <1>1 DEF Types
<1>3. SameCounts
  BY <1>1, Zenon DEF SameCounts, Idle, Counted, held, HeldOf, Types
<1>4. CountsExact' /\ TodoExact'
  BY <1>2, <1>3, SameCountsPreserve, Zenon
<1>5. nTodo = 0 /\ added = << >> /\ m_result = None
  BY Zenon DEF ControlInv
<1>6. TodoBounded'
  BY <1>5, CheckQueueAssumption, Zenon DEF TodoBounded
<1>7. ControlInv'
  BY <1>1, <1>5, CheckQueueAssumption, Zenon DEF ControlInv, Types, Thread
<1>8. BatchInv'
  BY <1>1, Zenon DEF BatchInv, Types
<1>9. \A u \in Thread : Owes(u)' <=> Owes(u)
  BY <1>1, Zenon DEF Owes, Types
<1>10. Known' /\ Remembered'
  BY <1>5, <1>9, Zenon DEF Known, Remembered, Handed
<1> QED BY <1>2, <1>4, <1>6, <1>7, <1>8, <1>10, Zenon

LEMMA CompletePreserves ==
  ASSUME IInv, NEW m \in Master, Complete(m)
  PROVE  IInv'
<1> USE DEF IInv, Complete, shared, history
<1>1. m \in Thread /\ m \notin Worker /\ m # None
  BY CheckQueueAssumption, Zenon DEF Thread
<1>2. nNow[m] = 0
  BY Zenon DEF ControlInv
<1>3. Types'
  BY <1>1, Zenon DEF Types, Outcome
<1>4. SameCounts
  BY <1>1, <1>2, Zenon DEF SameCounts, Idle, Counted, held, HeldOf, Types
<1>5. CountsExact' /\ TodoExact'
  BY <1>3, <1>4, SameCountsPreserve, Zenon
<1>6. TodoBounded' /\ ControlInv'
  BY <1>1, CheckQueueAssumption, SMTT(30) DEF TodoBounded, ControlInv, Types, Thread
<1>7. BatchInv'
  BY <1>1, Zenon DEF BatchInv, Types
<1>8. \A u \in Thread : (Owes(u)' <=> Owes(u)) /\ (Owes(u) => local_result'[u] = local_result[u])
  BY <1>1, <1>2, Zenon DEF Owes, Types
<1>9. Known'
  BY <1>8, Zenon DEF Known, Handed
<1>10. Remembered'
  BY <1>8, Zenon DEF Remembered
<1> QED BY <1>3, <1>5, <1>6, <1>7, <1>9, <1>10, Zenon

LEMMA NotifyWorkersPreserves ==
  ASSUME IInv, NEW m \in Master, NotifyWorkers(m)
  PROVE  IInv'
<1> USE DEF IInv, shared, locals, history
<1>1. m \in Thread /\ m \notin Worker /\ m # None /\ Worker \subseteq Thread
  BY CheckQueueAssumption, Zenon DEF Thread
<1>2. /\ pc[m] = "added" /\ pc' = [pc EXCEPT ![m] = "open"]
      /\ UNCHANGED <<queue, nIdle, nTotal, m_result, nTodo, m_request_stop, m_control_mutex,
                     destructor, vChecks, nNow, local_result, do_work, added>>
  BY Zenon DEF NotifyWorkers
<1>3. notified' \subseteq Idle
  BY <1>1, NotifyOnlyWaiting, Zenon DEF NotifyWorkers
<1>4. Types'
  BY <1>1, <1>2, <1>3, Zenon DEF Types, Idle
<1>5. SameCounts
  BY <1>1, <1>2, Zenon DEF SameCounts, Idle, Counted, held, HeldOf, Types
<1>6. CountsExact' /\ TodoExact'
  BY <1>2, <1>4, <1>5, SameCountsPreserve, Zenon
<1>7. TodoBounded' /\ ControlInv'
  BY <1>1, <1>2, CheckQueueAssumption, Zenon DEF TodoBounded, ControlInv, Types, Thread
<1>8. BatchInv'
  BY <1>1, <1>2, Zenon DEF BatchInv, Types
<1>9. \A u \in Thread : Owes(u)' <=> Owes(u)
  BY <1>1, <1>2, Zenon DEF Owes, Types
<1>10. Known' /\ Remembered'
  BY <1>2, <1>9, Zenon DEF Known, Remembered, Handed
<1> QED BY <1>4, <1>6, <1>7, <1>8, <1>10, Zenon

LEMMA DestructorPreserves ==
  ASSUME IInv, RequestStop \/ StopNotify
  PROVE  IInv'
<1> USE DEF IInv, shared, locals, history
<1>1. /\ UNCHANGED <<queue, nIdle, nTotal, m_result, nTodo, m_control_mutex, pc, vChecks,
                     nNow, local_result, do_work, added>>
      /\ m_request_stop' \in BOOLEAN
  BY Zenon DEF RequestStop, StopNotify, Types
<1>2. notified' \subseteq Idle
  <2>1. Worker \subseteq Thread
    BY Zenon DEF Thread
  <2> QED BY <2>1, NotifyOnlyWaiting, Zenon DEF RequestStop, StopNotify, Types, Idle
<1>3. Types'
  BY <1>1, <1>2, Zenon DEF Types, Idle
<1>4. SameCounts
  BY <1>1, Zenon DEF SameCounts, Idle, Counted, held
<1>5. CountsExact' /\ TodoExact'
  BY <1>1, <1>3, <1>4, SameCountsPreserve, Zenon
<1>6. TodoBounded' /\ BatchInv' /\ Known' /\ Remembered'
  BY <1>1, Zenon DEF TodoBounded, BatchInv, Known, Remembered, Handed, Owes
<1>7. ControlInv'
  BY <1>1, Zenon DEF ControlInv, RequestStop, StopNotify
<1> QED BY <1>3, <1>5, <1>6, <1>7, Zenon

LEMMA LongerRange ==
  ASSUME NEW k \in Nat, NEW n \in Nat, NEW i \in 1 .. k
  PROVE  i \in 1 .. (k + n)
OBVIOUS

LEMMA ShiftedRange ==
  ASSUME NEW k \in Nat, NEW n \in Nat, NEW i \in 1 .. n
  PROVE  k + i \in 1 .. (k + n)
OBVIOUS

\* What a sequence holds at one of its positions is in its range.
LEMMA InRange ==
  ASSUME NEW seq \in Seq(Outcome), NEW i \in 1 .. Len(seq)
  PROVE  seq[i] \in Range(seq)
BY DEF Range

LEMMA WorkPreserves ==
  ASSUME IInv, NEW t \in Thread, Work(t)
  PROVE  IInv'
<1> USE DEF IInv
<1>1. /\ pc[t] = "work" /\ pc' = [pc EXCEPT ![t] = "lock"]
      /\ vChecks' = [vChecks EXCEPT ![t] = << >>]
      /\ do_work' = [do_work EXCEPT ![t] = FALSE]
      /\ UNCHANGED <<queue, nIdle, nTotal, m_result, nTodo, m_request_stop, m_control_mutex,
                     destructor, nNow, notified, added>>
  BY Zenon DEF Work, shared, history
<1>2. nNow[t] # 0 /\ (do_work[t] \/ m_result # None) /\ vChecks[t] \in Seq(Outcome)
  BY <1>1, Zenon DEF BatchInv, Types
<1>3. /\ RunChecks(vChecks[t]) = None <=> \A i \in 1 .. Len(vChecks[t]) : vChecks[t][i] = None
      /\ RunChecks(vChecks[t]) # None =>
           \E i \in 1 .. Len(vChecks[t]) : RunChecks(vChecks[t]) = vChecks[t][i]
  BY <1>2, RunChecksFindsError, Zenon
<1>4. /\ RunChecks(vChecks[t]) \in Outcome
      /\ RunChecks(vChecks[t]) \in Handed
  <2>1. \A i \in 1 .. Len(vChecks[t]) : vChecks[t][i] \in Outcome /\ vChecks[t][i] \in Handed
    BY <1>2 DEF Known
  <2>2. None \in Outcome /\ None \in Handed
    BY Zenon DEF Outcome, Handed
  <2> HIDE DEF IInv
  <2> QED BY <1>3, <2>1, <2>2, Zenon
<1>5. local_result' = IF do_work[t] THEN [local_result EXCEPT ![t] = RunChecks(vChecks[t])]
                                    ELSE local_result
  BY Zenon DEF Work
<1>6. /\ local_result' \in [Thread -> Outcome]
      /\ do_work[t] => local_result'[t] = RunChecks(vChecks[t])
      /\ \A u \in Thread \ {t} : local_result'[u] = local_result[u]
  <2> HIDE DEF IInv
  <2>1. local_result \in [Thread -> Outcome]
    BY Zenon DEF IInv, Types
  <2> QED BY <1>4, <1>5, <2>1, Zenon
<1>7. Types'
  <2>1. vChecks' \in [Thread -> Seq(Outcome)]
    BY <1>1 DEF Types
  <2>2. notified' \subseteq {u \in Thread : pc'[u] = "wait"}
    BY <1>1, Zenon DEF Types
  <2>3. /\ pc' \in [Thread -> {"idle", "open", "added", "lock", "wait", "work", "done"}]
        /\ do_work' \in [Thread -> BOOLEAN]
    BY <1>1, Zenon DEF Types
  <2> QED BY <1>1, <1>6, <2>1, <2>2, <2>3, Zenon DEF Types
<1>8. SameCounts
  BY <1>1, <1>2, Zenon DEF SameCounts, Idle, Counted, held, HeldOf, Types
<1>9. CountsExact' /\ TodoExact'
  BY <1>1, <1>7, <1>8, SameCountsPreserve, Zenon
<1>10. TodoBounded' /\ ControlInv'
  BY <1>1, CheckQueueAssumption, Zenon DEF TodoBounded, ControlInv, Types, Thread
<1>11. BatchInv'
  BY <1>1, Zenon DEF BatchInv, Types
<1>12. Owes(t)' /\ \A u \in Thread \ {t} : Owes(u)' <=> Owes(u)
  BY <1>1, <1>2, Zenon DEF Owes, Types
<1>13. /\ vChecks'[t] = << >>
       /\ \A u \in Thread \ {t} : vChecks'[u] = vChecks[u]
  BY <1>1, Zenon DEF Types
<1>14. Known'
  <2>1. Handed' = Handed
    BY <1>1, Zenon DEF Handed
  <2>2. m_result = None => local_result'[t] \in Handed
    BY <1>2, <1>4, <1>6, Zenon
  <2>3. \A u \in Thread : \A i \in 1 .. Len(vChecks'[u]) : vChecks'[u][i] \in Handed
    BY <1>13 DEF Known
  <2>4. \A u \in Thread : Owes(u)' /\ m_result = None => local_result'[u] \in Handed
    BY <1>6, <1>12, <2>2, Zenon DEF Known
  <2> QED BY <1>1, <2>1, <2>3, <2>4, Zenon DEF Known
<1>15. Remembered'
  <2> SUFFICES ASSUME \E i \in 1 .. Len(added) : added[i] # None, m_result = None
               PROVE  \/ \E i \in 1 .. Len(queue) : queue[i] # None
                      \/ \E u \in Thread : \E i \in 1 .. Len(vChecks'[u]) : vChecks'[u][i] # None
                      \/ \E u \in Thread : Owes(u)' /\ local_result'[u] # None
    BY <1>1, Zenon DEF Remembered
  <2>1. CASE \E u \in Thread : \E i \in 1 .. Len(vChecks[u]) : vChecks[u][i] # None
    <3>1. PICK u \in Thread : \E i \in 1 .. Len(vChecks[u]) : vChecks[u][i] # None
      BY <2>1, Zenon
    <3>2. CASE u = t
      <4>1. local_result'[t] # None
        BY <1>2, <1>3, <1>6, <3>1, <3>2, Zenon
      <4> QED BY <1>12, <4>1, Zenon
    <3>3. CASE u # t
      <4>1. vChecks'[u] = vChecks[u]
        BY <1>13, <3>3, Zenon
      <4> QED BY <3>1, <4>1, Zenon
    <3> QED BY <3>2, <3>3, Zenon
  <2>2. CASE \E u \in Thread : Owes(u) /\ local_result[u] # None
    <3>1. PICK u \in Thread : Owes(u) /\ local_result[u] # None
      BY <2>2, Zenon
    <3>2. u # t
      BY <1>1, <3>1, Zenon DEF Owes
    <3> QED BY <1>6, <1>12, <3>1, <3>2, Zenon
  <2> QED BY <2>1, <2>2, Zenon DEF Remembered
<1> QED BY <1>7, <1>9, <1>10, <1>11, <1>14, <1>15, Zenon

LEMMA AddPreserves ==
  ASSUME IInv, NEW m \in Master, NEW checks \in Batches, Add(m, checks)
  PROVE  IInv'
<1> USE DEF IInv
<1>1. m \in Thread /\ m \notin Worker /\ m # None
  BY CheckQueueAssumption, Zenon DEF Thread
<1>2. checks \in Seq(Outcome) /\ Len(checks) \in Nat
  BY CheckQueueAssumption DEF Batches, Outcome
<1>3. /\ pc[m] = "open" /\ pc' = [pc EXCEPT ![m] = "added"]
      /\ Len(added) + Len(checks) <= MaxChecks
      /\ queue' = queue \o checks /\ added' = added \o checks
      /\ nTodo' = nTodo + Len(checks)
      /\ UNCHANGED <<nIdle, nTotal, m_result, m_request_stop, m_control_mutex, destructor,
                     vChecks, nNow, local_result, do_work, notified>>
  BY Zenon DEF Add, locals
<1>4. /\ queue \in Seq(Outcome) /\ added \in Seq(Outcome) /\ nTodo \in Nat
      /\ Len(added) \in Nat
  BY DEF Types
<1>5. /\ queue' \in Seq(Outcome) /\ Len(queue') = Len(queue) + Len(checks)
      /\ \A i \in 1 .. Len(queue) : queue'[i] = queue[i]
      /\ \A i \in 1 .. Len(checks) : queue'[Len(queue) + i] = checks[i]
      /\ \A i \in Len(queue) + 1 .. Len(queue') : queue'[i] = checks[i - Len(queue)]
  BY <1>2, <1>3, <1>4
<1>6. /\ added' \in Seq(Outcome) /\ Len(added') = Len(added) + Len(checks)
      /\ \A i \in 1 .. Len(added) : added'[i] = added[i]
      /\ \A i \in 1 .. Len(checks) : added'[Len(added) + i] = checks[i]
      /\ \A i \in Len(added) + 1 .. Len(added') : added'[i] = checks[i - Len(added)]
  BY <1>2, <1>3, <1>4
<1>7. Types'
  <2>1. pc' \in [Thread -> {"idle", "open", "added", "lock", "wait", "work", "done"}]
    BY <1>3, Zenon DEF Types
  <2>2. notified' \subseteq {u \in Thread : pc'[u] = "wait"}
    BY <1>3, Zenon DEF Types
  <2>3. nTodo' \in Nat
    BY <1>2, <1>3, <1>4
  <2> QED BY <1>3, <1>5, <1>6, <2>1, <2>2, <2>3, Zenon DEF Types
<1>8. SameCounts
  BY <1>1, <1>3, Zenon DEF SameCounts, Idle, Counted, held, HeldOf, Types
<1>9. CountsExact' /\ TodoExact'
  <2>1. nTodo' - Len(queue') = nTodo - Len(queue)
    BY <1>2, <1>3, <1>4, <1>5
  <2> QED BY <1>7, <1>8, <2>1, SameCountsPreserve, Zenon
<1>10. TodoBounded'
  <2>1. nTodo <= Len(added) /\ Len(added) \in Nat
    BY <1>4, Zenon DEF TodoBounded
  <2> QED BY <1>2, <1>3, <1>4, <1>6, <2>1 DEF TodoBounded
<1>11. ControlInv'
  <2>1. m_control_mutex = m
    BY <1>3, Zenon DEF ControlInv
  <2> QED BY <1>1, <1>3, <2>1, CheckQueueAssumption, Zenon DEF ControlInv, Types, Thread
<1>12. BatchInv'
  BY <1>1, <1>3, Zenon DEF BatchInv, Types
<1>13. \A u \in Thread : Owes(u)' <=> Owes(u)
  BY <1>1, <1>3, Zenon DEF Owes, Types
<1>14. /\ Handed \subseteq Handed'
       /\ \A i \in 1 .. Len(checks) : checks[i] \in Handed'
  <2>1. \A i \in 1 .. Len(added) : added[i] \in Handed'
    <3> TAKE i \in 1 .. Len(added)
    <3>1. i \in 1 .. Len(added') /\ added'[i] = added[i]
      BY <1>2, <1>4, <1>6, LongerRange, Zenon
    <3> QED BY <1>6, <3>1, InRange, Zenon DEF Handed
  <2>2. \A i \in 1 .. Len(checks) : checks[i] \in Handed'
    <3> TAKE i \in 1 .. Len(checks)
    <3>1. Len(added) + i \in 1 .. Len(added') /\ added'[Len(added) + i] = checks[i]
      BY <1>2, <1>4, <1>6, ShiftedRange, Zenon
    <3> QED BY <1>6, <3>1, InRange, Zenon DEF Handed
  <2>3. Handed = {added[i] : i \in 1 .. Len(added)} \cup {None}
    BY <1>4 DEF Handed, Range
  <2>4. None \in Handed'
    BY Zenon DEF Handed
  <2> HIDE DEF IInv
  <2> QED BY <2>1, <2>2, <2>3, <2>4, Zenon
<1>15. Known'
  <2>1. ASSUME NEW i \in 1 .. Len(queue')
        PROVE  queue'[i] \in Handed'
    <3>1. CASE i \in 1 .. Len(queue)
      <4>1. queue'[i] = queue[i] /\ queue[i] \in Handed
        BY <1>5, <3>1, Zenon DEF Known
      <4> QED BY <1>14, <4>1, Zenon
    <3>2. CASE i \notin 1 .. Len(queue)
      <4>1. i \in Len(queue) + 1 .. Len(queue') /\ i - Len(queue) \in 1 .. Len(checks)
        BY <1>2, <1>4, <1>5, <3>2
      <4> QED BY <1>5, <1>14, <4>1, Zenon
    <3> QED BY <3>1, <3>2, Zenon
  <2>2. m_result' \in Handed'
    BY <1>3, <1>14, Zenon DEF Known
  <2>3. \A u \in Thread : \A i \in 1 .. Len(vChecks[u]) : vChecks[u][i] \in Handed'
    BY <1>14, Zenon DEF Known
  <2>4. \A u \in Thread : Owes(u)' /\ m_result = None => local_result[u] \in Handed'
    BY <1>13, <1>14, Zenon DEF Known
  <2> QED BY <1>3, <2>1, <2>2, <2>3, <2>4, Zenon DEF Known
<1>16. Remembered'
  <2> SUFFICES ASSUME NEW k \in 1 .. Len(added'), added'[k] # None
               PROVE  \/ m_result # None
                      \/ \E i \in 1 .. Len(queue') : queue'[i] # None
                      \/ \E u \in Thread : \E i \in 1 .. Len(vChecks[u]) : vChecks[u][i] # None
                      \/ \E u \in Thread : Owes(u) /\ local_result[u] # None
    BY <1>3, <1>13, Zenon DEF Remembered
  <2>1. CASE k \in 1 .. Len(added)
    <3>1. added[k] # None
      BY <1>6, <2>1, Zenon
    <3>2. ASSUME NEW i \in 1 .. Len(queue), queue[i] # None
          PROVE  \E j \in 1 .. Len(queue') : queue'[j] # None
      <4>1. i \in 1 .. Len(queue') /\ queue'[i] = queue[i]
        BY <1>2, <1>4, <1>5
      <4> QED BY <3>2, <4>1, Zenon
    <3> QED BY <2>1, <3>1, <3>2, Zenon DEF Remembered
  <2>2. CASE k \notin 1 .. Len(added)
    <3> DEFINE j == k - Len(added)
    <3>1. k \in Len(added) + 1 .. Len(added') /\ j \in 1 .. Len(checks)
      BY <1>2, <1>4, <1>6, <2>2
    <3>2. checks[j] # None
      BY <1>6, <3>1, Zenon
    <3>3. Len(queue) + j \in 1 .. Len(queue') /\ queue'[Len(queue) + j] = checks[j]
      BY <1>2, <1>4, <1>5, <3>1
    <3> HIDE DEF j
    <3> QED BY <3>2, <3>3, Zenon
  <2> QED BY <2>1, <2>2, Zenon
<1> QED BY <1>7, <1>9, <1>10, <1>11, <1>12, <1>15, <1>16, Zenon

-----------------------------------------------------------------------------
(* The theorems.                                                           *)

LEMMA InitIInv == Init => IInv
<1> SUFFICES ASSUME Init PROVE IInv
  BY Zenon
<1> USE DEF Init
<1>1. Types
  <2>1. << >> \in Seq(Outcome) /\ None \in Outcome /\ 0 \in 0 .. nBatchSize
    BY CheckQueueAssumption DEF Outcome
  <2>2. vChecks \in [Thread -> Seq(Outcome)] /\ local_result \in [Thread -> Outcome]
    BY <2>1, Zenon
  <2>3. nNow \in [Thread -> 0 .. nBatchSize] /\ do_work \in [Thread -> BOOLEAN]
    BY <2>1, Zenon
  <2>4. pc \in [Thread -> {"idle", "open", "added", "lock", "wait", "work", "done"}]
    BY Zenon
  <2> QED BY <2>1, <2>2, <2>3, <2>4, Zenon DEF Types
<1>2. Idle = {} /\ Counted = {}
  BY Zenon DEF Idle, Counted
<1>3. CountsExact
  BY <1>2, FS_EmptySet, Zenon DEF CountsExact
<1>4. InBatches = {}
  BY CheckQueueAssumption DEF InBatches
<1>5. TodoExact /\ TodoBounded
  BY <1>4, FS_EmptySet, CheckQueueAssumption DEF TodoExact, TodoBounded
<1>6. ControlInv
  BY CheckQueueAssumption, Zenon DEF ControlInv, Thread
<1>7. BatchInv /\ Known /\ Remembered
  BY DEF BatchInv, Known, Remembered, Handed, Owes
<1> QED BY <1>1, <1>3, <1>5, <1>6, <1>7, Zenon DEF IInv

LEMMA UnchangedIInv == IInv /\ UNCHANGED vars => IInv'
<1> SUFFICES ASSUME IInv, UNCHANGED vars PROVE IInv'
  BY Zenon
<1> USE DEF IInv, vars, shared, locals, history
<1>1. Types' /\ TodoBounded' /\ ControlInv' /\ BatchInv'
  BY Zenon DEF Types, TodoBounded, ControlInv, BatchInv
<1>2. CountsExact' /\ TodoExact'
  BY Zenon DEF CountsExact, TodoExact, Idle, Counted, InBatches
<1>3. Known'
  BY Zenon DEF Known, Handed, Owes
<1>4. Remembered'
  BY Zenon DEF Remembered, Owes
<1> QED BY <1>1, <1>2, <1>3, <1>4, Zenon

LEMMA NextIInv == IInv /\ [Next]_vars => IInv'
<1> SUFFICES ASSUME IInv, [Next]_vars PROVE IInv'
  BY Zenon
<1>1. ASSUME NEW m \in Master, OpenControl(m) PROVE IInv'
  BY <1>1, OpenControlPreserves, Zenon
<1>2. ASSUME NEW m \in Master, NEW checks \in Batches, Add(m, checks) PROVE IInv'
  BY <1>2, AddPreserves, Zenon
<1>3. ASSUME NEW m \in Master, NotifyWorkers(m) PROVE IInv'
  BY <1>3, NotifyWorkersPreserves
<1>4. ASSUME NEW m \in Master, Complete(m) PROVE IInv'
  BY <1>4, CompletePreserves
<1>5. ASSUME NEW t \in Thread, Lock(t) PROVE IInv'
  BY <1>5, LockIsTurn, WaitForWorkPreserves, Zenon
<1>6. ASSUME NEW t \in Thread, Wake(t) PROVE IInv'
  BY <1>6, WakeIsTurn, WaitForWorkPreserves, Zenon
<1>7. ASSUME NEW t \in Thread, Work(t) PROVE IInv'
  BY <1>7, WorkPreserves, Zenon
<1>8. CASE RequestStop \/ StopNotify
  BY <1>8, DestructorPreserves, Zenon
<1>9. CASE Joined \/ UNCHANGED vars
  BY <1>9, UnchangedIInv, Zenon DEF Joined
<1> QED BY <1>1, <1>2, <1>3, <1>4, <1>5, <1>6, <1>7, <1>8, <1>9, Zenon DEF Next, ThreadStep

\* The inductive invariant holds in every state of CCheckQueue.
THEOREM AlwaysIInv == Spec => []IInv
BY InitIInv, NextIInv, PTL DEF Spec

\* The fields of CCheckQueue have their types: in particular nIdle and nTotal, from
\* which Loop computes the size of a batch, never go below zero or beyond the number
\* of threads, and nTodo never below zero.
THEOREM AlwaysTypeOK == Spec => []TypeOK
<1>1. IInv => TypeOK
  <2> SUFFICES ASSUME IInv PROVE TypeOK
    BY Zenon
  <2>1. Idle \in SUBSET Thread /\ Counted \in SUBSET Thread
    BY Zenon DEF Idle, Counted
  <2>2. /\ nIdle \in 0 .. Cardinality(Thread)
        /\ nTotal \in 0 .. Cardinality(Thread)
    BY <2>1, ThreadFinite, FS_Subset, FS_CardinalityType DEF IInv, CountsExact
  <2>3. nTodo \in 0 .. MaxChecks
    BY CheckQueueAssumption DEF IInv, Types, TodoBounded
  <2> QED BY <2>2, <2>3, Zenon DEF IInv, Types, TypeOK
<1> QED BY <1>1, AlwaysIInv, PTL

\* Loop and Add keep nTodo equal to the number of checks that are queued or in a
\* batch not accounted for, however many threads take batches of whatever size.
THEOREM AlwaysTodoExact == Spec => []TodoExact
<1>1. IInv => TodoExact
  BY Zenon DEF IInv
<1> QED BY <1>1, AlwaysIInv, PTL

\* When nobody owns the queue, that is after Complete has returned, no check is left
\* in the queue or with a thread.
THEOREM AlwaysNothingHeld == Spec => []NothingHeld
<1>1. IInv => NothingHeld
  <2> SUFFICES ASSUME IInv, m_control_mutex = None
               PROVE  queue = << >> /\ \A t \in Thread : vChecks[t] = << >>
    BY Zenon DEF NothingHeld
  <2>1. nTodo = 0
    BY Zenon DEF IInv, ControlInv
  <2>2. held \in [Thread -> 0 .. nBatchSize] /\ InBatches = Grid(held)
    BY InBatchesIsGrid, Zenon DEF IInv
  <2>3. Cardinality(Grid(held)) \in Nat
    BY GridFinite, Zenon
  <2>4. queue \in Seq(Outcome) /\ Len(queue) \in Nat
    BY DEF IInv, Types
  <2>5. Len(queue) = 0 /\ Cardinality(Grid(held)) = 0
    BY <2>1, <2>2, <2>3, <2>4 DEF IInv, TodoExact
  <2>6. ASSUME NEW t \in Thread
        PROVE  vChecks[t] = << >>
    <3>1. held[t] \in Nat /\ held[t] <= 0
      BY <2>2, <2>5, GridBound, CheckQueueAssumption
    <3>2. pc[t] # "work"
      BY <3>1 DEF IInv, BatchInv, held, HeldOf, Types
    <3> QED BY <3>2, Zenon DEF IInv, BatchInv
  <2> QED BY <2>4, <2>5, <2>6
<1> QED BY <1>1, AlwaysIInv, PTL
-----------------------------------------------------------------------------
(* The refinement.                                                         *)

\* errors of CheckVerdict.
Errors == Range(added) \ {None}

\* With nothing left to do, the result is an error exactly if one was handed over.
LEMMA ResultIsVerdict ==
  ASSUME IInv, NEW t \in Thread, NEW idle, NEW total, NEW todo, NEW result,
         Turn(t, idle, total, todo, result), todo = 0
  PROVE  IF Errors = {} THEN result = None ELSE result \in Errors
<1> USE DEF IInv
<1>1. /\ result \in Handed
      /\ m_result # None => result = m_result
      /\ Owes(t) /\ local_result[t] # None => result # None
      /\ vChecks[t] = << >>
  BY ResultOfTurn
<1>2. queue = << >> /\ \A u \in Thread \ {t} : held[u] = 0
  BY NothingLeftMeansDone, Zenon DEF Turn
<1>3. \A u \in Thread \ {t} : vChecks[u] = << >> /\ ~Owes(u)
  BY <1>2, Zenon DEF held, HeldOf, BatchInv, Owes, Types
<1>4. \A u \in Thread : vChecks[u] = << >>
  BY <1>1, <1>3, Zenon
<1>5. ASSUME Errors # {}
      PROVE  result # None
  <2>1. PICK e \in Range(added) : e # None
    BY <1>5, Zenon DEF Errors
  <2>2. \E i \in 1 .. Len(added) : added[i] # None
    BY <2>1 DEF Range, Types
  <2>3. CASE m_result # None
    BY <1>1, <2>3, Zenon
  <2>4. CASE \E u \in Thread : Owes(u) /\ local_result[u] # None
    BY <1>1, <1>3, <2>4, Zenon
  <2>5. \/ m_result # None
        \/ \E u \in Thread : Owes(u) /\ local_result[u] # None
    <3>1. /\ ~\E i \in 1 .. Len(queue) : queue[i] # None
          /\ ~\E u \in Thread : \E i \in 1 .. Len(vChecks[u]) : vChecks[u][i] # None
      BY <1>2, <1>4
    <3> QED BY <2>2, <3>1, Zenon DEF Remembered
  <2> QED BY <2>3, <2>4, <2>5, Zenon
<1> QED BY <1>1, <1>5, Zenon DEF Handed, Errors

\* A step of CheckVerdict, or one that changes nothing it speaks of.
VerdictStep == \/ Verdict!Next
               \/ UNCHANGED <<m_control_mutex # None, Range(added) \ {None}, verdict>>

LEMMA WaitForWorkRefines ==
  ASSUME IInv, NEW t \in Thread, NEW idle, NEW total, NEW todo, NEW result,
         Turn(t, idle, total, todo, result), WaitForWork(t, idle, total, todo, result)
  PROVE  VerdictStep
<1>1. CASE UNCHANGED <<m_control_mutex, history>>
  BY <1>1, Zenon DEF VerdictStep, history
<1>2. CASE t \in Master /\ NothingLeft(todo) /\ ReturnResult(t, total, result)
  <2>1. IF Errors = {} THEN result = None ELSE result \in Errors
    BY <1>2, ResultIsVerdict, Zenon DEF NothingLeft
  <2>2. m_control_mutex = t /\ t # None
    BY <1>2, CheckQueueAssumption, Zenon DEF IInv, ControlInv, Turn
  <2>3. m_control_mutex' = None /\ added' = << >> /\ verdict' = result
    BY <1>2, Zenon DEF ReturnResult
  <2>4. Range(added') \ {None} = {}
    BY <2>3 DEF Range
  <2>5. Verdict!Complete
    BY <2>1, <2>2, <2>3, <2>4, Zenon DEF Verdict!Complete, Errors
  <2> QED BY <2>5, Zenon DEF VerdictStep, Verdict!Next
<1> QED BY <1>1, <1>2, Zenon DEF WaitForWork

LEMMA AddRefines ==
  ASSUME IInv, NEW m \in Master, NEW checks \in Batches, Add(m, checks)
  PROVE  VerdictStep
<1> DEFINE E == Range(checks) \ {None}
<1>1. m_control_mutex = m /\ m # None
  BY CheckQueueAssumption, Zenon DEF IInv, ControlInv, Add
<1>2. checks \in Seq(Outcome)
  BY CheckQueueAssumption DEF Batches, Outcome
<1>3. added \in Seq(Outcome) /\ added' = added \o checks
  BY Zenon DEF IInv, Types, Add
<1>4. Range(added') = Range(added) \cup Range(checks)
  <2>1. /\ DOMAIN added = 1 .. Len(added) /\ Len(added) \in Nat
        /\ DOMAIN checks = 1 .. Len(checks) /\ Len(checks) \in Nat
        /\ DOMAIN added' = 1 .. Len(added) + Len(checks)
    BY <1>2, <1>3
  <2>2. /\ \A i \in 1 .. Len(added) : added'[i] = added[i]
        /\ \A i \in 1 .. Len(checks) : added'[Len(added) + i] = checks[i]
        /\ \A i \in Len(added) + 1 .. Len(added) + Len(checks) :
             added'[i] = checks[i - Len(added)]
    BY <1>2, <1>3
  <2>3. ASSUME NEW i \in DOMAIN added
        PROVE  added[i] \in Range(added')
    <3>1. i \in DOMAIN added' /\ added'[i] = added[i]
      BY <2>1, <2>2
    <3> QED BY <3>1, Zenon DEF Range
  <2>4. ASSUME NEW i \in DOMAIN checks
        PROVE  checks[i] \in Range(added')
    <3>1. Len(added) + i \in DOMAIN added' /\ added'[Len(added) + i] = checks[i]
      BY <2>1, <2>2
    <3> QED BY <3>1, Zenon DEF Range
  <2>5. ASSUME NEW i \in DOMAIN added'
        PROVE  added'[i] \in Range(added) \cup Range(checks)
    <3>1. CASE i \in DOMAIN added
      BY <2>1, <2>2, <3>1, Zenon DEF Range
    <3>2. CASE i \notin DOMAIN added
      <4>1. i - Len(added) \in DOMAIN checks /\ added'[i] = checks[i - Len(added)]
        BY <2>1, <2>2, <3>2
      <4> QED BY <4>1, Zenon DEF Range
    <3> QED BY <3>1, <3>2, Zenon
  <2> QED BY <2>3, <2>4, <2>5, Zenon DEF Range
<1>5. E \in SUBSET Error
  BY <1>2 DEF Range, Outcome
<1>6. Range(added') \ {None} = (Range(added) \ {None}) \cup E
  BY <1>4, Zenon
<1>7. UNCHANGED <<m_control_mutex, verdict>>
  BY Zenon DEF Add
<1> HIDE DEF E
<1>8. Verdict!Add(E)
  BY <1>1, <1>6, <1>7, Zenon DEF Verdict!Add
<1> QED BY <1>5, <1>8, Zenon DEF VerdictStep, Verdict!Next

LEMMA NextRefines == IInv /\ [Next]_vars => VerdictStep
<1> SUFFICES ASSUME IInv, [Next]_vars PROVE VerdictStep
  BY Zenon
<1>1. ASSUME NEW m \in Master, OpenControl(m) PROVE VerdictStep
  <2>1. m # None /\ Range(<< >>) \ {None} = {}
    BY CheckQueueAssumption DEF Range
  <2>2. Verdict!Open
    BY <1>1, <2>1, Zenon DEF OpenControl, Verdict!Open
  <2> QED BY <2>2, Zenon DEF VerdictStep, Verdict!Next
<1>2. ASSUME NEW m \in Master, NEW checks \in Batches, Add(m, checks) PROVE VerdictStep
  BY <1>2, AddRefines, Zenon
<1>3. ASSUME NEW m \in Master, NotifyWorkers(m) \/ Complete(m) PROVE VerdictStep
  BY <1>3, Zenon DEF NotifyWorkers, Complete, history, VerdictStep
<1>4. ASSUME NEW t \in Thread, Lock(t) \/ Wake(t) PROVE VerdictStep
  BY <1>4, LockIsTurn, WakeIsTurn, WaitForWorkRefines, Zenon
<1>5. ASSUME NEW t \in Thread, Work(t) PROVE VerdictStep
  BY <1>5, Zenon DEF Work, history, VerdictStep
<1>6. CASE RequestStop \/ StopNotify \/ Joined \/ UNCHANGED vars
  BY <1>6, Zenon DEF RequestStop, StopNotify, Joined, vars, history, VerdictStep
<1> QED BY <1>1, <1>2, <1>3, <1>4, <1>5, <1>6, Zenon DEF Next, ThreadStep

\* CCheckQueue implements CheckVerdict: Complete says that all checks of its control
\* passed or gives the error of one of them, for any number of threads, any batches
\* and any interleaving, whatever earlier controls left behind in the threads.
THEOREM ImplementsCheckVerdict == Spec => VerdictHonest
<1>1. Init => Verdict!Init
  BY DEF Init, Verdict!Init, Range
<1>2. VerdictStep =>
        [Verdict!Next]_<<m_control_mutex # None, Range(added) \ {None}, verdict>>
  BY Zenon DEF VerdictStep
<1> QED BY <1>1, <1>2, AlwaysIInv, NextRefines, PTL DEF Spec, VerdictHonest, Verdict!Spec
=============================================================================
