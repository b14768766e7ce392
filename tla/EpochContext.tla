---------------------------- MODULE EpochContext ----------------------------
(***************************************************************************)
(* The cache of epoch contexts of crypto/ethash/lib/ethash/managed.cpp: a  *)
(* context shared by the process, the context each thread holds, and the   *)
(* threads that ask for one to verify or to search a proof of work.  The   *)
(* contexts with the full data set have a second copy of the same code.    *)
(*                                                                         *)
(* A std::shared_ptr is the address of a context or None.  A context is    *)
(* destroyed with the last shared_ptr to it, and its address may then hold *)
(* another one, so a plain pointer to it may be left dangling.  Failure to *)
(* allocate a context ends the process and is left out.                    *)
(***************************************************************************)
EXTENDS Integers, FiniteSets

CONSTANTS
  Thread,    \* the threads of the process
  Epoch,     \* epoch numbers
  Address,   \* where a context may be allocated
  None       \* nullptr, and no thread

ASSUME EpochContextAssumption ==
  /\ IsFiniteSet(Thread)
  /\ None \notin Address
  /\ None \notin Thread

VARIABLES
  shared_context,
  shared_context_cs,      \* the thread that holds the mutex
  thread_local_context,   \* of each thread
  epoch_number,           \* the field of the context at each address
  pc,                     \* where each thread is
  asked,                  \* the epoch it asked for last
  context                 \* the plain pointer it computes with

vars == <<shared_context, shared_context_cs, thread_local_context, epoch_number,
          pc, asked, context>>

Init ==
  /\ shared_context = None
  /\ shared_context_cs = None
  /\ thread_local_context = [t \in Thread |-> None]
  /\ epoch_number \in [Address -> Epoch]
  /\ pc = [t \in Thread |-> "idle"]
  /\ asked \in [Thread -> Epoch]
  /\ context = [t \in Thread |-> None]

-----------------------------------------------------------------------------
\* The contexts some shared_ptr keeps alive.
Live == ({shared_context} \cup {thread_local_context[t] : t \in Thread}) \ {None}

Goto(t, label) == pc' = [pc EXCEPT ![t] = label]

\* Mutant: any context will do.
MatchesAny(ptr, epoch) == ptr # None

\* A pointer to a context of this epoch.
Matches(ptr, epoch) == ptr # None /\ epoch_number[ptr] = epoch

\* Mutant: the obsolete context is held until the new one replaces it.
ResetLocalLate(t) == UNCHANGED thread_local_context

\* thread_local_context.reset().
ResetLocal(t) == thread_local_context' = [thread_local_context EXCEPT ![t] = None]

\* get_global_epoch_context finds the context the thread holds, or goes on to
\* update_local_context, which lets go of it.
GetGlobalEpochContext(t, epoch) ==
  /\ pc[t] = "idle"
  /\ asked' = [asked EXCEPT ![t] = epoch]
  /\ \/ /\ Matches(thread_local_context[t], epoch)
        /\ Goto(t, "return")
        /\ UNCHANGED thread_local_context
     \/ /\ ~Matches(thread_local_context[t], epoch)
        /\ ResetLocal(t)
        /\ Goto(t, "lock")
  /\ UNCHANGED <<shared_context, shared_context_cs, epoch_number, context>>

\* update_local_context takes the mutex and keeps or lets go of the shared context.
CheckShared(t) ==
  /\ pc[t] = "lock"
  /\ shared_context_cs = None
  /\ shared_context_cs' = t
  /\ \/ /\ Matches(shared_context, asked[t])
        /\ Goto(t, "copy")
        /\ UNCHANGED shared_context
     \/ /\ ~Matches(shared_context, asked[t])
        /\ shared_context' = None
        /\ Goto(t, "create")
  /\ UNCHANGED <<thread_local_context, epoch_number, asked, context>>

\* create_epoch_context, while other threads work with the contexts they hold.
CreateEpochContext(t, a) ==
  /\ pc[t] = "create"
  /\ a \notin Live
  /\ shared_context' = a
  /\ epoch_number' = [epoch_number EXCEPT ![a] = asked[t]]
  /\ Goto(t, "copy")
  /\ UNCHANGED <<shared_context_cs, thread_local_context, asked, context>>

\* The thread takes its share and releases the mutex.
CopyShared(t) ==
  /\ pc[t] = "copy"
  /\ thread_local_context' = [thread_local_context EXCEPT ![t] = shared_context]
  /\ shared_context_cs' = None
  /\ Goto(t, "return")
  /\ UNCHANGED <<shared_context, epoch_number, asked, context>>

Returned(t) == thread_local_context[t]

\* The caller computes with the plain pointer.
Return(t) ==
  /\ pc[t] = "return"
  /\ context' = [context EXCEPT ![t] = Returned(t)]
  /\ Goto(t, "compute")
  /\ UNCHANGED <<shared_context, shared_context_cs, thread_local_context,
                 epoch_number, asked>>

\* CheckProofOfWorkImpl, MineBlock or CheckProgPowHash has its result.
Computed(t) ==
  /\ pc[t] = "compute"
  /\ context' = [context EXCEPT ![t] = None]
  /\ Goto(t, "idle")
  /\ UNCHANGED <<shared_context, shared_context_cs, thread_local_context,
                 epoch_number, asked>>

\* A thread ends, which destroys its thread_local variables; another takes its place.
ThreadExit(t) ==
  /\ pc[t] = "idle"
  /\ thread_local_context' = [thread_local_context EXCEPT ![t] = None]
  /\ UNCHANGED <<shared_context, shared_context_cs, epoch_number, pc, asked, context>>

Next == \E t \in Thread :
  \/ \E epoch \in Epoch : GetGlobalEpochContext(t, epoch)
  \/ CheckShared(t)
  \/ \E a \in Address : CreateEpochContext(t, a)
  \/ CopyShared(t)
  \/ Return(t)
  \/ Computed(t)
  \/ ThreadExit(t)

Spec == Init /\ [][Next]_vars

-----------------------------------------------------------------------------
\* The variables keep their types, and a thread that computes has a context:
\* get_global_epoch_context dereferences what it gets without looking.
TypeOK ==
  /\ shared_context \in Address \cup {None}
  /\ shared_context_cs \in Thread \cup {None}
  /\ thread_local_context \in [Thread -> Address \cup {None}]
  /\ epoch_number \in [Address -> Epoch]
  /\ pc \in [Thread -> {"idle", "lock", "create", "copy", "return", "compute"}]
  /\ asked \in [Thread -> Epoch]
  /\ context \in [Thread -> Address \cup {None}]
  /\ \A t \in Thread : pc[t] = "compute" => context[t] # None

\* A thread computes with a context that is alive and of the epoch it asked for,
\* whatever the other threads replace meanwhile.
ContextInUse ==
  \A t \in Thread : pc[t] = "compute" =>
    /\ context[t] \in Live
    /\ epoch_number[context[t]] = asked[t]

\* The threads of the process never keep more contexts, of many megabytes each,
\* than there are threads: letting go of the old one comes before building, and the
\* thread that filled shared_context accounts for it.
MemoryBound == Cardinality(Live) <= Cardinality(Thread)
=============================================================================
