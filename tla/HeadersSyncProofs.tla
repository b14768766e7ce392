-------------------------- MODULE HeadersSyncProofs --------------------------
(***************************************************************************)
(* Proofs about HeadersSync, for every set of header bodies, every salt    *)
(* and hasher, every message size and every parameter.                     *)
(***************************************************************************)
EXTENDS HeadersSync, TLAPS

\* Each bit in the queue has its height.
SameLength == Len(commitHeights) = Len(m_header_commitments)

\* The handler runs in the phase the object is in, and phases before the
\* redownload have none of its state.
PhaseInv ==
  /\ pc # "idle" => pc = m_download_state
  /\ m_download_state = "PRESYNC" =>
       /\ redownloaded = << >> /\ released = << >> /\ checked = 0
       /\ m_redownloaded_headers = << >>
       /\ ~m_process_all_remaining_headers

\* Height below which no commitment is left in the queue.
CommitBase == IF m_download_state = "PRESYNC" THEN ChainStartHeight
                                              ELSE m_redownload_buffer_last_height

\* hs are, in order, the commitment heights above base and up to top.
Within(base, top, hs) ==
  \A i \in 1 .. Len(hs) : hs[i] > base /\ hs[i] <= top /\ IsCommitHeight(hs[i])
Increasing(hs) == \A i, j \in 1 .. Len(hs) : i < j => hs[i] < hs[j]
Complete(base, top, hs) ==
  \A h \in base + 1 .. top : IsCommitHeight(h) => \E i \in 1 .. Len(hs) : hs[i] = h

\* bits are the salted bits of the headers of chain at the heights hs.
BitsOf(hs, bits, chain) ==
  \A i \in 1 .. Len(hs) : bits[i] = Commitment(chain[hs[i] - ChainStartHeight])

\* While commitments are checked, the queue holds, in order, one bit for each
\* commitment height above the redownloaded headers, taken from the PRESYNC chain.
QueueInv ==
  m_download_state # "FINAL" =>
    /\ m_current_height = ChainStartHeight + Len(presync)
    /\ ~m_process_all_remaining_headers =>
         /\ Within(CommitBase, m_current_height, commitHeights)
         /\ Increasing(commitHeights)
         /\ Complete(CommitBase, m_current_height, commitHeights)
         /\ BitsOf(commitHeights, m_header_commitments, presync)

\* hashPrevBlock of the i-th header of a chain of header hashes.
PrevHash(chain, i) == IF i = 1 THEN ChainStart ELSE chain[i - 1]

\* The buffer is the part of the redownloaded chain not yet released.
BufferInv ==
  m_download_state = "REDOWNLOAD" =>
    /\ m_redownload_buffer_last_height = ChainStartHeight + Len(redownloaded)
    /\ Len(redownloaded) = Len(released) + Len(m_redownloaded_headers)
    /\ m_redownload_buffer_last_hash = PrevHash(redownloaded, Len(redownloaded) + 1)
    /\ m_redownload_buffer_first_prev_hash = PrevHash(redownloaded, Len(released) + 1)
    /\ \A j \in 1 .. Len(m_redownloaded_headers) :
         redownloaded[Len(released) + j]
           = Append(PrevHash(redownloaded, Len(released) + j), m_redownloaded_headers[j])
    /\ m_process_all_remaining_headers =>
         checked < Len(redownloaded) /\ m_redownload_chain_work >= m_minimum_required_work
    /\ ~m_process_all_remaining_headers => checked = Len(redownloaded)

\* A message takes the buffer over its size by at most its own headers.
SizeInv ==
  /\ checked <= Len(redownloaded)
  /\ pc = "REDOWNLOAD" =>
       Len(m_redownloaded_headers) + Len(received) <= redownload_buffer_size + MAX_HEADERS

IInv ==
  /\ TypeOK /\ SameLength /\ PhaseInv /\ QueueInv /\ BufferInv /\ SizeInv
  /\ CommitmentsAgree /\ ReleasedConnect /\ ReleaseJustified /\ BoundedMemory

-----------------------------------------------------------------------------
\* What Append does to a sequence.
LEMMA AppendFacts ==
  ASSUME NEW S, NEW s \in Seq(S), NEW e \in S
  PROVE  /\ Append(s, e) \in Seq(S)
         /\ Len(Append(s, e)) = Len(s) + 1
         /\ Append(s, e)[Len(s) + 1] = e
         /\ \A i \in 1 .. Len(s) : Append(s, e)[i] = s[i]
OBVIOUS

\* What Head and Tail do to a non-empty sequence.
LEMMA TailFacts ==
  ASSUME NEW S, NEW s \in Seq(S), s # << >>
  PROVE  /\ Head(s) = s[1] /\ Head(s) \in S
         /\ Tail(s) \in Seq(S)
         /\ Len(s) > 0
         /\ Len(Tail(s)) = Len(s) - 1
         /\ \A i \in 1 .. Len(s) - 1 : Tail(s)[i] = s[i + 1]
OBVIOUS

\* A message is a non-empty sequence of at most MAX_HEADERS bodies.
LEMMA MessageType ==
  ASSUME NEW bodies \in Message
  PROVE  bodies \in Seq(Body) /\ Len(bodies) \in 1 .. MAX_HEADERS
<1>1. PICK n \in 1 .. MAX_HEADERS : bodies \in [1 .. n -> Body]
  BY DEF Message
<1>2. n \in Nat
  BY <1>1, ParamsAssumption
<1> QED
  BY <1>1, <1>2

\* The hash of the next header of a message, and what is left after it.
LEMMA NextHeaderType ==
  ASSUME TypeOK, received # << >>
  PROVE  /\ Head(received) \in Body
         /\ Tail(received) \in Seq(Body)
         /\ Len(Tail(received)) = Len(received) - 1
         /\ NextHash \in Hash
         /\ Work[Head(received)] \in Nat
<1>1. Head(received) \in Body /\ Tail(received) \in Seq(Body)
  BY DEF TypeOK
<1>2. Len(Tail(received)) = Len(received) - 1
  BY DEF TypeOK
<1>3. NextHash \in Hash
  <2>1. receivedPrev \in Seq(Body \cup {Null})
    BY Zenon DEF TypeOK, Hash
  <2>2. Head(received) \in Body \cup {Null}
    BY <1>1
  <2> QED
    BY <2>1, <2>2 DEF Hash, NextHash
<1>4. Work[Head(received)] \in Nat
  BY <1>1, HeaderAssumption
<1> QED
  BY <1>1, <1>2, <1>3, <1>4

\* The hashes the code starts from and resets to are hashes.
LEMMA HashType == ChainStart \in Hash /\ NullHash \in Hash
BY DEF ChainStart, NullHash, Hash

LEMMA CommitmentType == \A hash : Commitment(hash) \in {0, 1}
BY DEF Commitment

LEMMA FinalizeType ==
  ASSUME TypeOK, Finalize, Return, m_redownload_chain_work' \in Nat,
         UNCHANGED historyVars
  PROVE  TypeOK'
<1>1. /\ m_process_all_remaining_headers' \in BOOLEAN
      /\ full_headers_message' \in BOOLEAN
  BY Zenon DEF Finalize, Return
<1> QED
  BY <1>1, HashType DEF TypeOK, Finalize, Return, historyVars, object

LEMMA TypeInit == Init => TypeOK /\ SameLength
<1>1. Init => TypeOK
  <2> SUFFICES ASSUME Init PROVE TypeOK
    OBVIOUS
  <2>1. /\ m_process_all_remaining_headers \in BOOLEAN
        /\ full_headers_message \in BOOLEAN
    BY Zenon DEF Init
  <2> QED
    BY <2>1, HashType, ParamsAssumption DEF Init, TypeOK
<1>2. Init => SameLength
  BY DEF Init, SameLength
<1> QED
  BY <1>1, <1>2

LEMMA TypeStep == TypeOK /\ SameLength /\ [Next]_vars => TypeOK'
<1> SUFFICES ASSUME TypeOK, SameLength, [Next]_vars PROVE TypeOK'
  OBVIOUS
<1> USE DEF object, presyncVars, commitVars, redownloadVars, messageVars, historyVars
<1>1. ASSUME NEW prev \in PeerHash, NEW bodies \in Message,
             ProcessNextHeaders(prev, bodies)
      PROVE  TypeOK'
  <2>1. prev \in Hash
    BY HeaderAssumption DEF Hash
  <2>2. CASE m_download_state = "PRESYNC" /\ prev # m_last_header_received
    BY <1>1, <2>2, FinalizeType DEF ProcessNextHeaders, TypeOK
  <2>3. CASE ~(m_download_state = "PRESYNC" /\ prev # m_last_header_received)
    BY <1>1, <2>1, <2>3, MessageType, Zenon DEF ProcessNextHeaders, TypeOK
  <2> QED
    BY <2>2, <2>3
<1>2. CASE ExceedMaxCommitments
  BY <1>2, FinalizeType DEF ExceedMaxCommitments, TypeOK
<1>9. CASE ValidateAndProcessSingleHeader
  <2>1. commitHeights' \in Seq(Nat) /\ m_header_commitments' \in Seq({0, 1})
    <3>1. CASE IsCommitHeight(m_current_height + 1)
      <4>1. /\ m_header_commitments' = Append(m_header_commitments, Commitment(NextHash))
            /\ commitHeights' = Append(commitHeights, m_current_height + 1)
        BY <1>9, <3>1, Zenon DEF ValidateAndProcessSingleHeader, StoreCommitment
      <4> QED
        BY <4>1, CommitmentType DEF TypeOK
    <3>2. CASE ~IsCommitHeight(m_current_height + 1)
      BY <1>9, <3>2 DEF ValidateAndProcessSingleHeader, TypeOK
    <3> QED
      BY <3>1, <3>2
  <2>2. presync' \in Seq(Hash)
    BY <1>9, NextHeaderType DEF ValidateAndProcessSingleHeader, TypeOK
  <2>3. /\ received # << >>
        /\ m_current_chain_work' = m_current_chain_work + Work[Head(received)]
        /\ m_current_height' = m_current_height + 1
        /\ m_last_header_received' = NextHash
        /\ received' = Tail(received)
        /\ receivedPrev' = NextHash
    BY <1>9, Zenon DEF ValidateAndProcessSingleHeader, NextHeader
  <2>4. m_current_chain_work' \in Nat /\ m_current_height' \in Nat
    <3>1. m_current_chain_work \in Nat /\ m_current_height \in Nat
      BY Zenon DEF TypeOK
    <3>2. Work[Head(received)] \in Nat
      BY <2>3, NextHeaderType, Zenon
    <3> QED
      BY <2>3, <3>1, <3>2
  <2>5. /\ m_last_header_received' \in Hash
        /\ received' \in Seq(Body) /\ receivedPrev' \in Hash
    BY <2>3, NextHeaderType, Zenon
  <2> QED
    BY <1>9, <2>1, <2>2, <2>4, <2>5
    DEF ValidateAndProcessSingleHeader, NextHeader, TypeOK
<1>3. CASE FinishPresync
  <2>1. CASE ~SufficientWork /\ ~full_headers_message
    BY <1>3, <2>1, FinalizeType DEF FinishPresync, TypeOK
  <2>2. CASE SufficientWork \/ full_headers_message
    BY <1>3, <2>2, HashType, ParamsAssumption, Zenon DEF FinishPresync, Return, TypeOK
  <2> QED
    BY <2>1, <2>2
<1>4. CASE RedownloadUnconnected
  BY <1>4, FinalizeType DEF RedownloadUnconnected, TypeOK
<1>5. CASE RedownloadMismatch
  <2>1. m_redownload_chain_work' \in Nat
    <3>1. /\ received # << >>
          /\ m_redownload_chain_work' = m_redownload_chain_work + Work[Head(received)]
      BY <1>5, Zenon DEF RedownloadMismatch, RedownloadWork
    <3>2. m_redownload_chain_work \in Nat
      BY Zenon DEF TypeOK
    <3>3. Work[Head(received)] \in Nat
      BY <3>1, NextHeaderType, Zenon
    <3> QED
      BY <3>1, <3>2, <3>3
  <2> QED
    BY <1>5, <2>1, FinalizeType DEF RedownloadMismatch
<1>10. CASE ValidateAndStoreRedownloadedHeader
  <2>1. m_redownload_chain_work' \in Nat
    <3>1. /\ received # << >>
          /\ m_redownload_chain_work' = m_redownload_chain_work + Work[Head(received)]
      BY <1>10, Zenon DEF ValidateAndStoreRedownloadedHeader, RedownloadWork
    <3>2. m_redownload_chain_work \in Nat
      BY Zenon DEF TypeOK
    <3>3. Work[Head(received)] \in Nat
      BY <3>1, NextHeaderType, Zenon
    <3> QED
      BY <3>1, <3>2, <3>3
  <2>2. m_header_commitments' \in Seq({0, 1}) /\ commitHeights' \in Seq(Nat)
    <3>1. CASE MustCheck
      <4>1. /\ m_header_commitments # << >>
            /\ m_header_commitments' = Tail(m_header_commitments)
            /\ commitHeights' = Tail(commitHeights)
        BY <1>10, <3>1, Zenon DEF ValidateAndStoreRedownloadedHeader, PopCommitment,
                                  CommitmentMatches
      <4>2. commitHeights # << >>
        BY <4>1 DEF SameLength, TypeOK
      <4> QED
        BY <4>1, <4>2 DEF TypeOK
    <3>2. CASE ~MustCheck
      BY <1>10, <3>2 DEF ValidateAndStoreRedownloadedHeader, TypeOK
    <3> QED
      BY <3>1, <3>2
  <2>3. redownloaded' \in Seq(Hash) /\ m_redownloaded_headers' \in Seq(Body)
    BY <1>10, NextHeaderType DEF ValidateAndStoreRedownloadedHeader, TypeOK
  <2>4. m_process_all_remaining_headers' \in BOOLEAN
    BY <1>10, Zenon DEF ValidateAndStoreRedownloadedHeader, ProcessAll
  <2> QED
    BY <1>10, <2>1, <2>2, <2>3, <2>4, NextHeaderType
    DEF ValidateAndStoreRedownloadedHeader, NextHeader, TypeOK
<1>6. CASE PopHeadersReadyForAcceptance
  <2> DEFINE hdr == [prev |-> m_redownload_buffer_first_prev_hash,
                     body |-> Head(m_redownloaded_headers)]
  <2>1. m_redownloaded_headers # << >>
    BY <1>6, ParamsAssumption DEF PopHeadersReadyForAcceptance, HeaderReady, TypeOK
  <2>2. hdr \in [prev : Hash, body : Body]
    BY <2>1 DEF TypeOK
  <2>3. GetHash(hdr) \in Hash
    BY <2>2 DEF GetHash, Hash
  <2>4. released' \in Seq([prev : Hash, body : Body])
    BY <1>6, <2>2 DEF PopHeadersReadyForAcceptance, TypeOK
  <2> QED
    BY <1>6, <2>1, <2>3, <2>4 DEF PopHeadersReadyForAcceptance, FirstPrevHashAfter, TypeOK
<1>7. CASE FinishRedownload
  <2>1. CASE full_headers_message /\ ~(m_redownloaded_headers = << >>
                                       /\ m_process_all_remaining_headers)
    BY <1>7, <2>1, HashType, Zenon DEF FinishRedownload, Return, TypeOK
  <2>2. CASE ~(full_headers_message /\ ~(m_redownloaded_headers = << >>
                                         /\ m_process_all_remaining_headers))
    BY <1>7, <2>2, FinalizeType DEF FinishRedownload, TypeOK
  <2> QED
    BY <2>1, <2>2
<1>8. CASE UNCHANGED vars
  BY <1>8 DEF vars, TypeOK
<1> QED
  BY <1>1, <1>2, <1>3, <1>4, <1>5, <1>6, <1>7, <1>8, <1>9, <1>10, Zenon DEF Next, ProcessStep

LEMMA SameLengthStep == TypeOK /\ SameLength /\ [Next]_vars => SameLength'
<1> SUFFICES ASSUME TypeOK, SameLength, [Next]_vars PROVE SameLength'
  OBVIOUS
<1>0. ASSUME Finalize PROVE SameLength'
  BY <1>0 DEF Finalize, SameLength
<1>u. ASSUME UNCHANGED commitVars PROVE SameLength'
  BY <1>u DEF commitVars, SameLength
<1>1. ASSUME NEW prev \in PeerHash, NEW bodies \in Message,
             ProcessNextHeaders(prev, bodies)
      PROVE  SameLength'
  BY <1>0, <1>1, <1>u, Zenon DEF ProcessNextHeaders
<1>2. CASE ValidateAndProcessSingleHeader
  <2>1. CASE IsCommitHeight(m_current_height + 1)
    <3>1. /\ m_header_commitments' = Append(m_header_commitments, Commitment(NextHash))
          /\ commitHeights' = Append(commitHeights, m_current_height + 1)
      BY <1>2, <2>1, Zenon DEF ValidateAndProcessSingleHeader, StoreCommitment
    <3>2. m_header_commitments \in Seq({0, 1}) /\ commitHeights \in Seq(Nat)
      BY Zenon DEF TypeOK
    <3> QED
      BY <3>1, <3>2 DEF SameLength
  <2>2. CASE ~IsCommitHeight(m_current_height + 1)
    BY <1>2, <1>u, <2>2, Zenon DEF ValidateAndProcessSingleHeader, commitVars
  <2> QED
    BY <2>1, <2>2
<1>3. CASE ValidateAndStoreRedownloadedHeader
  <2>1. CASE MustCheck
    <3>1. /\ m_header_commitments # << >>
          /\ m_header_commitments' = Tail(m_header_commitments)
          /\ commitHeights' = Tail(commitHeights)
      BY <1>3, <2>1, Zenon DEF ValidateAndStoreRedownloadedHeader, PopCommitment,
                               CommitmentMatches
    <3> QED
      BY <3>1 DEF SameLength, TypeOK
  <2>2. CASE ~MustCheck
    BY <1>3, <2>2, <1>u, Zenon DEF ValidateAndStoreRedownloadedHeader
  <2> QED
    BY <2>1, <2>2
<1>7. CASE ExceedMaxCommitments \/ RedownloadMismatch
  BY <1>0, <1>7, Zenon DEF ExceedMaxCommitments, RedownloadMismatch
<1>4. CASE FinishPresync \/ RedownloadUnconnected
  BY <1>0, <1>4, <1>u, Zenon DEF FinishPresync, RedownloadUnconnected
<1>5. CASE PopHeadersReadyForAcceptance \/ FinishRedownload
  BY <1>0, <1>5, <1>u, Zenon DEF PopHeadersReadyForAcceptance, FinishRedownload
<1>6. CASE UNCHANGED vars
  BY <1>6, <1>u DEF vars
<1> QED
  BY <1>1, <1>2, <1>3, <1>4, <1>5, <1>6, <1>7, Zenon DEF Next, ProcessStep

\* Type correctness of HeadersSyncState's fields, for all parameters.
THEOREM TypeCorrect == Spec => []TypeOK
BY TypeInit, TypeStep, SameLengthStep, PTL DEF Spec

-----------------------------------------------------------------------------
LEMMA PhaseStep == TypeOK /\ PhaseInv /\ [Next]_vars => PhaseInv'
<1> SUFFICES ASSUME TypeOK, PhaseInv, [Next]_vars PROVE PhaseInv'
  OBVIOUS
<1> USE DEF object, presyncVars, commitVars, redownloadVars, messageVars, historyVars
<1>0. ASSUME Finalize, Return PROVE PhaseInv'
  BY <1>0 DEF Finalize, Return, PhaseInv
<1>1. ASSUME NEW prev \in PeerHash, NEW bodies \in Message,
             ProcessNextHeaders(prev, bodies)
      PROVE  PhaseInv'
  BY <1>0, <1>1 DEF ProcessNextHeaders, PhaseInv
<1>2. CASE ExceedMaxCommitments \/ RedownloadUnconnected \/ RedownloadMismatch
  BY <1>0, <1>2, Zenon DEF ExceedMaxCommitments, RedownloadUnconnected, RedownloadMismatch
<1>3. CASE ValidateAndProcessSingleHeader
  BY <1>3 DEF ValidateAndProcessSingleHeader, NextHeader, PhaseInv
<1>4. CASE FinishPresync
  <2>1. CASE ~SufficientWork /\ ~full_headers_message
    BY <1>0, <1>4, <2>1, Zenon DEF FinishPresync
  <2>2. CASE ~SufficientWork /\ full_headers_message
    BY <1>4, <2>2 DEF FinishPresync, Return, PhaseInv
  <2>3. CASE SufficientWork
    BY <1>4, <2>3 DEF FinishPresync, Return, PhaseInv
  <2> QED
    BY <2>1, <2>2, <2>3
<1>5. CASE ValidateAndStoreRedownloadedHeader
  BY <1>5 DEF ValidateAndStoreRedownloadedHeader, NextHeader, PhaseInv
<1>6. CASE PopHeadersReadyForAcceptance
  BY <1>6 DEF PopHeadersReadyForAcceptance, PhaseInv
<1>7. CASE FinishRedownload
  BY <1>0, <1>7, Zenon DEF FinishRedownload, Return, PhaseInv
<1>8. CASE UNCHANGED vars
  BY <1>8 DEF vars, PhaseInv
<1> QED
  BY <1>1, <1>2, <1>3, <1>4, <1>5, <1>6, <1>7, <1>8, Zenon DEF Next, ProcessStep

LEMMA BufferStep ==
  TypeOK /\ PhaseInv /\ SizeInv /\ BufferInv /\ [Next]_vars => BufferInv'
<1> SUFFICES ASSUME TypeOK, PhaseInv, SizeInv, BufferInv, [Next]_vars
             PROVE  BufferInv'
  OBVIOUS
<1>t. /\ Len(redownloaded) \in Nat /\ Len(released) \in Nat
      /\ Len(m_redownloaded_headers) \in Nat
      /\ redownloaded \in Seq(Hash) /\ m_redownloaded_headers \in Seq(Body)
      /\ checked \in Nat /\ m_redownload_chain_work \in Nat
  BY DEF TypeOK
<1>b. m_download_state = "REDOWNLOAD" =>
        /\ m_redownload_buffer_last_height = ChainStartHeight + Len(redownloaded)
        /\ Len(redownloaded) = Len(released) + Len(m_redownloaded_headers)
        /\ m_redownload_buffer_last_hash = PrevHash(redownloaded, Len(redownloaded) + 1)
  BY Zenon DEF BufferInv
<1>c. m_download_state = "REDOWNLOAD" =>
        \A j \in 1 .. Len(m_redownloaded_headers) :
          redownloaded[Len(released) + j]
            = Append(PrevHash(redownloaded, Len(released) + j), m_redownloaded_headers[j])
  BY Zenon DEF BufferInv
<1> USE DEF object, presyncVars, commitVars, redownloadVars, messageVars, historyVars
<1>0. ASSUME Finalize PROVE BufferInv'
  BY <1>0 DEF Finalize, BufferInv
<1>u. ASSUME UNCHANGED <<m_download_state, redownloadVars, historyVars>> PROVE BufferInv'
  BY <1>u DEF BufferInv, PrevHash
<1>1. ASSUME NEW prev \in PeerHash, NEW bodies \in Message,
             ProcessNextHeaders(prev, bodies)
      PROVE  BufferInv'
  BY <1>0, <1>1, <1>u, Zenon DEF ProcessNextHeaders
<1>2. CASE ExceedMaxCommitments \/ RedownloadUnconnected \/ RedownloadMismatch
  BY <1>0, <1>2, Zenon DEF ExceedMaxCommitments, RedownloadUnconnected, RedownloadMismatch
<1>3. CASE ValidateAndProcessSingleHeader
  BY <1>3, <1>u, Zenon DEF ValidateAndProcessSingleHeader
<1>4. CASE FinishPresync
  <2>1. CASE SufficientWork
    <3>1. m_download_state = "PRESYNC"
      BY <1>4 DEF FinishPresync, PhaseInv
    <3> QED
      BY <1>4, <2>1, <3>1, ParamsAssumption DEF FinishPresync, BufferInv, PhaseInv, PrevHash
  <2>2. CASE ~SufficientWork
    BY <1>0, <1>4, <1>u, <2>2, Zenon DEF FinishPresync
  <2> QED
    BY <2>1, <2>2
<1>5. CASE ValidateAndStoreRedownloadedHeader
  <2>1. m_download_state = "REDOWNLOAD"
    BY <1>5 DEF ValidateAndStoreRedownloadedHeader, PhaseInv
  <2>2. /\ redownloaded' = Append(redownloaded, NextHash)
        /\ m_redownloaded_headers' = Append(m_redownloaded_headers, Head(received))
        /\ m_redownload_buffer_last_height' = m_redownload_buffer_last_height + 1
        /\ m_redownload_buffer_last_hash' = NextHash
        /\ NextHash = Append(m_redownload_buffer_last_hash, Head(received))
        /\ UNCHANGED <<released, m_redownload_buffer_first_prev_hash, m_download_state>>
    BY <1>5, Zenon DEF ValidateAndStoreRedownloadedHeader, NextHash
  <2>3. Head(received) \in Body /\ NextHash \in Hash
    BY <1>5, NextHeaderType DEF ValidateAndStoreRedownloadedHeader
  <2>4. /\ Len(redownloaded') = Len(redownloaded) + 1
        /\ redownloaded'[Len(redownloaded) + 1] = NextHash
        /\ \A i \in 1 .. Len(redownloaded) : redownloaded'[i] = redownloaded[i]
    BY <1>t, <2>2, <2>3, AppendFacts
  <2>5. /\ Len(m_redownloaded_headers') = Len(m_redownloaded_headers) + 1
        /\ m_redownloaded_headers'[Len(m_redownloaded_headers) + 1] = Head(received)
        /\ \A i \in 1 .. Len(m_redownloaded_headers) :
             m_redownloaded_headers'[i] = m_redownloaded_headers[i]
    BY <1>t, <2>2, <2>3, AppendFacts
  <2>6. /\ Len(redownloaded) \in Nat /\ Len(released) \in Nat
        /\ Len(m_redownloaded_headers) \in Nat
    BY <1>t
  <2>7. /\ m_redownload_buffer_last_height' = ChainStartHeight + Len(redownloaded')
        /\ Len(redownloaded') = Len(released') + Len(m_redownloaded_headers')
    <3>1. /\ Len(released') = Len(released)
          /\ Len(redownloaded') = Len(redownloaded) + 1
          /\ Len(m_redownloaded_headers') = Len(m_redownloaded_headers) + 1
          /\ m_redownload_buffer_last_height' = m_redownload_buffer_last_height + 1
      BY <2>2, <2>4, <2>5, Zenon
    <3>2. /\ m_redownload_buffer_last_height = ChainStartHeight + Len(redownloaded)
          /\ Len(redownloaded) = Len(released) + Len(m_redownloaded_headers)
      BY <1>b, <2>1, Zenon
    <3> QED
      BY <2>6, <3>1, <3>2, ParamsAssumption
  <2>8. \A i \in 1 .. Len(redownloaded) + 1 :
          PrevHash(redownloaded', i) = PrevHash(redownloaded, i)
    BY <2>4, <2>6 DEF PrevHash
  <2>9. /\ m_redownload_buffer_last_hash' = PrevHash(redownloaded', Len(redownloaded') + 1)
        /\ m_redownload_buffer_first_prev_hash'
             = PrevHash(redownloaded', Len(released') + 1)
    <3>1. PrevHash(redownloaded', Len(redownloaded') + 1) = NextHash
      BY <2>4, <2>6 DEF PrevHash
    <3>2. Len(released) + 1 \in 1 .. Len(redownloaded) + 1
      BY <2>1, <2>6 DEF BufferInv
    <3> QED
      BY <2>1, <2>2, <2>8, <3>1, <3>2 DEF BufferInv
  <2>10. ASSUME NEW j \in 1 .. Len(m_redownloaded_headers')
         PROVE  redownloaded'[Len(released') + j]
                  = Append(PrevHash(redownloaded', Len(released') + j),
                           m_redownloaded_headers'[j])
    <3>1. CASE j \in 1 .. Len(m_redownloaded_headers)
      <4>1. Len(released) + j \in 1 .. Len(redownloaded)
        BY <1>b, <2>1, <2>6, <3>1
      <4> QED
        <5>1. redownloaded[Len(released) + j]
                = Append(PrevHash(redownloaded, Len(released) + j), m_redownloaded_headers[j])
          BY <1>c, <2>1, <3>1, Zenon
        <5>2. PrevHash(redownloaded', Len(released) + j)
                = PrevHash(redownloaded, Len(released) + j)
          BY <2>6, <2>8, <4>1
        <5>3. /\ redownloaded'[Len(released) + j] = redownloaded[Len(released) + j]
              /\ m_redownloaded_headers'[j] = m_redownloaded_headers[j]
              /\ released' = released
          BY <2>2, <2>4, <2>5, <3>1, <4>1, Zenon
        <5> QED
          BY <5>1, <5>2, <5>3, Zenon
    <3>2. CASE j = Len(m_redownloaded_headers) + 1
      <4>1. Len(released) + j = Len(redownloaded) + 1
        BY <1>b, <2>1, <2>6, <3>2
      <4>2. PrevHash(redownloaded', Len(redownloaded) + 1) = m_redownload_buffer_last_hash
        BY <1>b, <2>1, <2>6, <2>8
      <4> QED
        BY <2>2, <2>4, <2>5, <3>2, <4>1, <4>2
    <3> QED
      BY <2>5, <2>6, <3>1, <3>2
  <2>11. CASE ProcessAll
    <3>1. m_process_all_remaining_headers' /\ checked' = checked
      BY <1>5, <2>11, Zenon DEF ValidateAndStoreRedownloadedHeader
    <3>2. m_redownload_chain_work' >= m_minimum_required_work
      <4>1. m_redownload_chain_work' = m_redownload_chain_work + Work[Head(received)]
        BY <1>5 DEF ValidateAndStoreRedownloadedHeader, RedownloadWork
      <4>2. Work[Head(received)] \in Nat
        BY <1>5, NextHeaderType DEF ValidateAndStoreRedownloadedHeader
      <4>3. \/ m_redownload_chain_work >= m_minimum_required_work
            \/ m_redownload_chain_work' >= m_minimum_required_work
        BY <2>1, <2>11, <4>1 DEF ProcessAll, RedownloadWork, BufferInv
      <4> QED
        BY <1>t, <4>1, <4>2, <4>3, ParamsAssumption
    <3>3. checked' < Len(redownloaded')
      BY <2>4, <2>6, <3>1 DEF SizeInv, TypeOK
    <3> QED
      BY <2>7, <2>9, <2>10, <3>1, <3>2, <3>3 DEF BufferInv
  <2>12. CASE ~ProcessAll
    <3>1. ~m_process_all_remaining_headers' /\ ~m_process_all_remaining_headers
      BY <1>5, <2>12, Zenon DEF ValidateAndStoreRedownloadedHeader, ProcessAll
    <3>2. checked' = Len(redownloaded')
      BY <1>5, <2>1, <2>4, <2>6, <2>12, <3>1, Zenon DEF ValidateAndStoreRedownloadedHeader, BufferInv
    <3> QED
      BY <2>7, <2>9, <2>10, <3>1, <3>2 DEF BufferInv
  <2> QED
    BY <2>11, <2>12
<1>6. CASE PopHeadersReadyForAcceptance
  <2> DEFINE hdr == [prev |-> m_redownload_buffer_first_prev_hash,
                     body |-> Head(m_redownloaded_headers)]
  <2>1. m_download_state = "REDOWNLOAD" /\ m_redownloaded_headers # << >>
    BY <1>6, ParamsAssumption
    DEF PopHeadersReadyForAcceptance, HeaderReady, PhaseInv, TypeOK
  <2>2. /\ released' = Append(released, hdr)
        /\ m_redownload_buffer_first_prev_hash' = GetHash(hdr)
        /\ m_redownloaded_headers' = Tail(m_redownloaded_headers)
        /\ UNCHANGED <<m_download_state, redownloaded, checked,
                       m_redownload_buffer_last_height, m_redownload_buffer_last_hash,
                       m_redownload_chain_work, m_process_all_remaining_headers>>
    BY <1>6, Zenon DEF PopHeadersReadyForAcceptance, FirstPrevHashAfter
  <2>3. /\ Len(m_redownloaded_headers) \in Nat \ {0}
        /\ Len(m_redownloaded_headers') = Len(m_redownloaded_headers) - 1
        /\ \A i \in 1 .. Len(m_redownloaded_headers) - 1 :
             m_redownloaded_headers'[i] = m_redownloaded_headers[i + 1]
        /\ Head(m_redownloaded_headers) = m_redownloaded_headers[1]
        /\ Head(m_redownloaded_headers) \in Body
    BY <2>1, <2>2, TailFacts DEF TypeOK
  <2>4. Len(released') = Len(released) + 1 /\ Len(released) \in Nat
    <3>1. hdr \in [prev : Hash, body : Body]
      BY <2>3 DEF TypeOK
    <3>2. released \in Seq([prev : Hash, body : Body])
      BY Zenon DEF TypeOK
    <3>3. released' = Append(released, hdr)
      BY <2>2, Zenon
    <3> HIDE DEF hdr
    <3> QED
      BY <3>1, <3>2, <3>3, AppendFacts
  <2>5. GetHash(hdr) = redownloaded[Len(released) + 1]
    <3>1. /\ m_redownload_buffer_first_prev_hash = PrevHash(redownloaded, Len(released) + 1)
          /\ \A j \in 1 .. Len(m_redownloaded_headers) :
               redownloaded[Len(released) + j]
                 = Append(PrevHash(redownloaded, Len(released) + j), m_redownloaded_headers[j])
      BY <2>1, Zenon DEF BufferInv
    <3>2. 1 \in 1 .. Len(m_redownloaded_headers)
      BY <2>3
    <3>3. redownloaded[Len(released) + 1]
            = Append(PrevHash(redownloaded, Len(released) + 1), m_redownloaded_headers[1])
      BY <3>1, <3>2, Zenon
    <3>4. hdr.prev = m_redownload_buffer_first_prev_hash
          /\ hdr.body = m_redownloaded_headers[1]
      BY <2>3
    <3> QED
      BY <3>1, <3>3, <3>4, Zenon DEF GetHash
  <2>6. m_redownload_buffer_first_prev_hash' = PrevHash(redownloaded', Len(released') + 1)
    BY <2>2, <2>4, <2>5 DEF PrevHash
  <2>7. Len(redownloaded') = Len(released') + Len(m_redownloaded_headers')
    <3>1. /\ Len(redownloaded') = Len(redownloaded)
          /\ Len(redownloaded) = Len(released) + Len(m_redownloaded_headers)
      BY <1>b, <2>1, <2>2, Zenon
    <3>2. /\ Len(m_redownloaded_headers') = Len(m_redownloaded_headers) - 1
          /\ Len(released') = Len(released) + 1
      BY <2>3, <2>4, Zenon
    <3> QED
      BY <1>t, <3>1, <3>2
  <2>8. ASSUME NEW j \in 1 .. Len(m_redownloaded_headers')
        PROVE  redownloaded'[Len(released') + j]
                 = Append(PrevHash(redownloaded', Len(released') + j),
                          m_redownloaded_headers'[j])
    <3>1. j + 1 \in 1 .. Len(m_redownloaded_headers)
      BY <2>3
    <3>2. redownloaded[Len(released) + (j + 1)]
            = Append(PrevHash(redownloaded, Len(released) + (j + 1)),
                     m_redownloaded_headers[j + 1])
      BY <2>1, <3>1 DEF BufferInv
    <3>3. Len(released') + j = Len(released) + (j + 1)
      BY <2>3, <2>4
    <3> QED
      BY <2>2, <2>3, <3>2, <3>3
  <2> QED
    BY <2>1, <2>2, <2>6, <2>7, <2>8 DEF BufferInv
<1>7. CASE FinishRedownload
  BY <1>0, <1>7, <1>u, Zenon DEF FinishRedownload
<1>8. CASE UNCHANGED vars
  BY <1>8, <1>u DEF vars
<1> QED
  BY <1>1, <1>2, <1>3, <1>4, <1>5, <1>6, <1>7, <1>8, Zenon DEF Next, ProcessStep

LEMMA MemoryStep ==
  TypeOK /\ SameLength /\ PhaseInv /\ SizeInv /\ BoundedMemory /\ [Next]_vars
    => SizeInv' /\ BoundedMemory'
<1> SUFFICES ASSUME TypeOK, SameLength, PhaseInv, SizeInv, BoundedMemory, [Next]_vars
             PROVE  SizeInv' /\ BoundedMemory'
  OBVIOUS
<1> USE DEF object, presyncVars, commitVars, redownloadVars, messageVars, historyVars
<1>t. /\ Len(redownloaded) \in Nat /\ Len(received) \in Nat /\ checked \in Nat
      /\ Len(m_redownloaded_headers) \in Nat /\ Len(m_header_commitments) \in Nat
      /\ redownloaded \in Seq(Hash) /\ m_redownloaded_headers \in Seq(Body)
      /\ m_header_commitments \in Seq({0, 1}) /\ received \in Seq(Body)
      /\ m_max_commitments \in Nat
  BY DEF TypeOK
<1>p. redownload_buffer_size \in Nat /\ MAX_HEADERS \in Nat
  BY ParamsAssumption
<1>0. ASSUME Finalize, Return, UNCHANGED historyVars PROVE SizeInv' /\ BoundedMemory'
  BY <1>0, <1>t, <1>p DEF Finalize, Return, SizeInv, BoundedMemory
<1>1. ASSUME NEW prev \in PeerHash, NEW bodies \in Message,
             ProcessNextHeaders(prev, bodies)
      PROVE  SizeInv' /\ BoundedMemory'
  <2>1. CASE m_download_state = "PRESYNC" /\ prev # m_last_header_received
    BY <1>0, <1>1, <2>1, Zenon DEF ProcessNextHeaders
  <2>2. CASE ~(m_download_state = "PRESYNC" /\ prev # m_last_header_received)
    <3>1. Len(bodies) \in Nat /\ Len(bodies) <= MAX_HEADERS
      BY MessageType, <1>p
    <3>2. Len(m_redownloaded_headers) <= redownload_buffer_size
      BY <1>1 DEF ProcessNextHeaders, BoundedMemory
    <3> QED
      BY <1>1, <1>t, <1>p, <2>2, <3>1, <3>2 DEF ProcessNextHeaders, SizeInv, BoundedMemory
  <2> QED
    BY <2>1, <2>2
<1>2. CASE ExceedMaxCommitments \/ RedownloadUnconnected \/ RedownloadMismatch
  BY <1>0, <1>2, Zenon DEF ExceedMaxCommitments, RedownloadUnconnected, RedownloadMismatch
<1>3. CASE ValidateAndProcessSingleHeader
  <2>1. Len(m_header_commitments') <= m_max_commitments
    <3>1. CASE IsCommitHeight(m_current_height + 1)
      <4>1. /\ ~TooManyCommitments(m_header_commitments')
            /\ m_header_commitments' = Append(m_header_commitments, Commitment(NextHash))
        BY <1>3, <3>1, Zenon DEF ValidateAndProcessSingleHeader, StoreCommitment
      <4>2. Len(m_header_commitments') \in Nat
        BY <1>t, <4>1, AppendFacts, CommitmentType
      <4> QED
        BY <1>t, <4>1, <4>2 DEF TooManyCommitments
    <3>2. CASE ~IsCommitHeight(m_current_height + 1)
      BY <1>3, <3>2 DEF ValidateAndProcessSingleHeader, BoundedMemory
    <3> QED
      BY <3>1, <3>2
  <2>2. pc' = "PRESYNC" /\ m_download_state' = "PRESYNC"
    BY <1>3 DEF ValidateAndProcessSingleHeader, NextHeader, PhaseInv
  <2>3. UNCHANGED <<m_max_commitments, m_redownloaded_headers, redownloaded, checked>>
    BY <1>3 DEF ValidateAndProcessSingleHeader
  <2> QED
    BY <1>t, <1>p, <2>1, <2>2, <2>3 DEF SizeInv, BoundedMemory
<1>4. CASE FinishPresync
  <2>1. CASE ~SufficientWork /\ ~full_headers_message
    BY <1>0, <1>4, <2>1, Zenon DEF FinishPresync
  <2>2. CASE SufficientWork \/ full_headers_message
    <3>1. m_download_state = "PRESYNC"
      BY <1>4 DEF FinishPresync, PhaseInv
    <3>2. m_redownloaded_headers' = << >> /\ pc' = "idle" /\ m_download_state' # "FINAL"
      BY <1>4, <2>2, <3>1 DEF FinishPresync, Return, PhaseInv
    <3>3. UNCHANGED <<m_max_commitments, m_header_commitments, redownloaded, checked>>
      BY <1>4, <2>2 DEF FinishPresync
    <3> QED
      BY <1>t, <1>p, <3>2, <3>3 DEF SizeInv, BoundedMemory
  <2> QED
    BY <2>1, <2>2
<1>5. CASE ValidateAndStoreRedownloadedHeader
  <2>1. /\ Head(received) \in Body /\ NextHash \in Hash
        /\ Len(received') = Len(received) - 1
    BY <1>5, NextHeaderType DEF ValidateAndStoreRedownloadedHeader, NextHeader
  <2>2. /\ Len(m_redownloaded_headers') = Len(m_redownloaded_headers) + 1
        /\ Len(redownloaded') = Len(redownloaded) + 1
    BY <1>5, <1>t, <2>1, AppendFacts DEF ValidateAndStoreRedownloadedHeader
  <2>3. checked' = checked \/ checked' = checked + 1
    BY <1>5, Zenon DEF ValidateAndStoreRedownloadedHeader
  <2>4. pc' = "REDOWNLOAD" /\ pc = "REDOWNLOAD" /\ m_download_state' = "REDOWNLOAD"
    BY <1>5 DEF ValidateAndStoreRedownloadedHeader, NextHeader, PhaseInv
  <2>5. Len(m_header_commitments') <= m_max_commitments'
    <3>1. CASE MustCheck
      <4>1. /\ m_header_commitments # << >>
            /\ m_header_commitments' = Tail(m_header_commitments)
            /\ m_max_commitments' = m_max_commitments
        BY <1>5, <3>1, Zenon
        DEF ValidateAndStoreRedownloadedHeader, PopCommitment, CommitmentMatches
      <4>2. Len(m_header_commitments') = Len(m_header_commitments) - 1
        BY <1>t, <4>1, TailFacts
      <4> QED
        BY <1>t, <4>1, <4>2 DEF BoundedMemory
    <3>2. CASE ~MustCheck
      BY <1>5, <3>2 DEF ValidateAndStoreRedownloadedHeader, BoundedMemory
    <3> QED
      BY <3>1, <3>2
  <2>6. SizeInv'
    BY <1>t, <1>p, <2>1, <2>2, <2>3, <2>4 DEF SizeInv
  <2>7. Len(m_redownloaded_headers') <= redownload_buffer_size + MAX_HEADERS
    <3>1. Len(received) > 0
      BY <1>5, <1>t, TailFacts DEF ValidateAndStoreRedownloadedHeader
    <3> QED
      BY <1>t, <1>p, <2>1, <2>2, <2>4, <3>1 DEF SizeInv
  <2> QED
    BY <2>4, <2>5, <2>6, <2>7 DEF BoundedMemory
<1>6. CASE PopHeadersReadyForAcceptance
  <2>1. m_redownloaded_headers # << >>
    BY <1>6, ParamsAssumption DEF PopHeadersReadyForAcceptance, HeaderReady, TypeOK
  <2>2. Len(m_redownloaded_headers') = Len(m_redownloaded_headers) - 1
    BY <1>6, <1>t, <2>1, TailFacts DEF PopHeadersReadyForAcceptance
  <2>3. UNCHANGED <<pc, received, redownloaded, checked, m_download_state,
                    m_header_commitments, m_max_commitments>>
    BY <1>6 DEF PopHeadersReadyForAcceptance
  <2>4. pc = "REDOWNLOAD" /\ m_download_state = "REDOWNLOAD"
    BY <1>6 DEF PopHeadersReadyForAcceptance, PhaseInv
  <2> QED
    BY <1>t, <1>p, <2>2, <2>3, <2>4 DEF SizeInv, BoundedMemory
<1>7. CASE FinishRedownload
  <2>1. CASE full_headers_message /\ ~(m_redownloaded_headers = << >>
                                       /\ m_process_all_remaining_headers)
    <3>1. /\ pc' = "idle"
          /\ UNCHANGED <<m_download_state, redownloaded, checked, m_redownloaded_headers,
                         m_header_commitments, m_max_commitments>>
      BY <1>7, <2>1 DEF FinishRedownload, Return
    <3>2. Len(m_redownloaded_headers) <= redownload_buffer_size
      BY <1>7, <1>t, <1>p DEF FinishRedownload, HeaderReady
    <3> QED
      BY <1>t, <1>p, <3>1, <3>2 DEF SizeInv, BoundedMemory
  <2>2. CASE ~(full_headers_message /\ ~(m_redownloaded_headers = << >>
                                         /\ m_process_all_remaining_headers))
    BY <1>0, <1>7, <2>2, Zenon DEF FinishRedownload
  <2> QED
    BY <2>1, <2>2
<1>8. CASE UNCHANGED vars
  BY <1>8 DEF vars, SizeInv, BoundedMemory
<1> QED
  BY <1>1, <1>2, <1>3, <1>4, <1>5, <1>6, <1>7, <1>8, Zenon DEF Next, ProcessStep

\* The predicates of QueueInv do not change while the object's own parameters do not.
LEMMA QueueCarry ==
  ASSUME UNCHANGED object, m_download_state' # "FINAL",
         m_current_height' = ChainStartHeight + Len(presync'),
         ~m_process_all_remaining_headers' =>
           /\ Within(CommitBase', m_current_height', commitHeights')
           /\ Increasing(commitHeights')
           /\ Complete(CommitBase', m_current_height', commitHeights')
           /\ BitsOf(commitHeights', m_header_commitments', presync')
  PROVE  QueueInv'
<1>1. m_commit_offset' = m_commit_offset /\ m_hasher' = m_hasher
  BY DEF object
<1> QED
  BY <1>1 DEF QueueInv, Within, Increasing, Complete, BitsOf, IsCommitHeight, Commitment

LEMMA QueueStep ==
  TypeOK /\ SameLength /\ PhaseInv /\ BufferInv /\ QueueInv /\ [Next]_vars => QueueInv'
<1> SUFFICES ASSUME TypeOK, SameLength, PhaseInv, BufferInv, QueueInv, [Next]_vars
             PROVE  QueueInv'
  OBVIOUS
<1>t. /\ presync \in Seq(Hash) /\ commitHeights \in Seq(Nat)
      /\ m_header_commitments \in Seq({0, 1}) /\ Len(presync) \in Nat
      /\ Len(commitHeights) \in Nat /\ Len(m_header_commitments) = Len(commitHeights)
      /\ m_redownload_buffer_last_height \in Nat
  BY DEF TypeOK, SameLength
<1>p. ChainStartHeight \in Nat
  BY ParamsAssumption
<1>0. ASSUME Finalize PROVE QueueInv'
  BY <1>0 DEF Finalize, QueueInv
<1>u. ASSUME UNCHANGED <<m_download_state, object, m_current_height, presync, commitVars>>,
             CommitBase' = CommitBase,
             UNCHANGED m_process_all_remaining_headers
      PROVE  QueueInv'
  BY <1>u DEF QueueInv, Within, Increasing, Complete, BitsOf, IsCommitHeight, Commitment,
              commitVars, object
<1>v. ASSUME UNCHANGED <<m_download_state, object, presyncVars, commitVars, redownloadVars>>
      PROVE  QueueInv'
  BY <1>u, <1>v DEF CommitBase, presyncVars, redownloadVars
<1>1. ASSUME NEW prev \in PeerHash, NEW bodies \in Message,
             ProcessNextHeaders(prev, bodies)
      PROVE  QueueInv'
  BY <1>0, <1>1, <1>v, Zenon DEF ProcessNextHeaders
<1>2. CASE ExceedMaxCommitments \/ RedownloadUnconnected \/ RedownloadMismatch
  BY <1>0, <1>2, Zenon DEF ExceedMaxCommitments, RedownloadUnconnected, RedownloadMismatch
<1>3. CASE ValidateAndProcessSingleHeader
  <2>1. /\ m_download_state = "PRESYNC" /\ m_download_state' = "PRESYNC"
        /\ CommitBase = ChainStartHeight /\ CommitBase' = ChainStartHeight
        /\ UNCHANGED object
    BY <1>3 DEF ValidateAndProcessSingleHeader, PhaseInv, CommitBase
  <2>2. /\ m_current_height = ChainStartHeight + Len(presync)
        /\ Within(ChainStartHeight, m_current_height, commitHeights)
        /\ Increasing(commitHeights)
        /\ Complete(ChainStartHeight, m_current_height, commitHeights)
        /\ BitsOf(commitHeights, m_header_commitments, presync)
    BY <2>1 DEF QueueInv, PhaseInv
  <2>3. /\ m_current_height' = m_current_height + 1
        /\ presync' = Append(presync, NextHash)
        /\ NextHash \in Hash
    BY <1>3, NextHeaderType DEF ValidateAndProcessSingleHeader
  <2>4. /\ Len(presync') = Len(presync) + 1
        /\ presync'[Len(presync) + 1] = NextHash
        /\ \A i \in 1 .. Len(presync) : presync'[i] = presync[i]
    BY <1>t, <2>3, AppendFacts
  <2>5. m_current_height' = ChainStartHeight + Len(presync')
    BY <1>t, <1>p, <2>2, <2>3, <2>4
  <2>6. \A i \in 1 .. Len(commitHeights) :
          presync'[commitHeights[i] - ChainStartHeight]
            = presync[commitHeights[i] - ChainStartHeight]
    <3> TAKE i \in 1 .. Len(commitHeights)
    <3>1. commitHeights[i] > ChainStartHeight /\ commitHeights[i] <= m_current_height
      BY <2>2, Zenon DEF Within
    <3>2. commitHeights[i] \in Nat
      BY <1>t
    <3>3. commitHeights[i] - ChainStartHeight \in 1 .. Len(presync)
      BY <1>t, <1>p, <2>2, <3>1, <3>2
    <3> QED
      BY <2>4, <3>3, Zenon
  <2>7. CASE IsCommitHeight(m_current_height + 1)
    <3>1. /\ m_header_commitments' = Append(m_header_commitments, Commitment(NextHash))
          /\ commitHeights' = Append(commitHeights, m_current_height + 1)
      BY <1>3, <2>7, Zenon DEF ValidateAndProcessSingleHeader, StoreCommitment
    <3>2. m_current_height + 1 \in Nat
      BY DEF TypeOK
    <3>3. /\ Len(commitHeights') = Len(commitHeights) + 1
          /\ commitHeights'[Len(commitHeights) + 1] = m_current_height + 1
          /\ \A i \in 1 .. Len(commitHeights) : commitHeights'[i] = commitHeights[i]
      BY <1>t, <3>1, <3>2, AppendFacts
    <3>4. /\ m_header_commitments'[Len(commitHeights) + 1] = Commitment(NextHash)
          /\ \A i \in 1 .. Len(commitHeights) :
               m_header_commitments'[i] = m_header_commitments[i]
      BY <1>t, <3>1, AppendFacts, CommitmentType
    <3>5. Within(ChainStartHeight, m_current_height', commitHeights')
      <4> SUFFICES ASSUME NEW i \in 1 .. Len(commitHeights')
                   PROVE  /\ commitHeights'[i] > ChainStartHeight
                          /\ commitHeights'[i] <= m_current_height'
                          /\ IsCommitHeight(commitHeights'[i])
        BY Zenon DEF Within
      <4>1. CASE i \in 1 .. Len(commitHeights)
        <5>1. /\ commitHeights[i] > ChainStartHeight /\ commitHeights[i] <= m_current_height
              /\ IsCommitHeight(commitHeights[i])
          BY <2>2, <4>1, Zenon DEF Within
        <5>2. commitHeights'[i] = commitHeights[i] /\ commitHeights[i] \in Nat
          BY <1>t, <3>3, <4>1
        <5>3. commitHeights[i] <= m_current_height + 1
          BY <3>2, <5>1, <5>2 DEF TypeOK
        <5> QED
          BY <2>3, <5>1, <5>2, <5>3
      <4>2. CASE i = Len(commitHeights) + 1
        <5>1. m_current_height + 1 > ChainStartHeight /\ m_current_height + 1 <= m_current_height'
          BY <1>t, <1>p, <2>2, <2>3
        <5>2. commitHeights'[i] = m_current_height + 1
          BY <3>3, <4>2, Zenon
        <5> QED
          BY <2>7, <5>1, <5>2, Zenon
      <4> QED
        BY <1>t, <3>3, <4>1, <4>2
    <3>6. Increasing(commitHeights')
      <4> SUFFICES ASSUME NEW i \in 1 .. Len(commitHeights'),
                          NEW j \in 1 .. Len(commitHeights'), i < j
                   PROVE  commitHeights'[i] < commitHeights'[j]
        BY Zenon DEF Increasing
      <4>1. i \in 1 .. Len(commitHeights)
        BY <1>t, <3>3
      <4>2. commitHeights'[i] = commitHeights[i] /\ commitHeights[i] \in Nat
        BY <1>t, <3>3, <4>1
      <4>3. CASE j \in 1 .. Len(commitHeights)
        <5>1. commitHeights'[j] = commitHeights[j]
          BY <3>3, <4>3, Zenon
        <5>2. commitHeights[i] < commitHeights[j]
          BY <2>2, <4>1, <4>3, Zenon DEF Increasing
        <5> QED
          BY <4>2, <5>1, <5>2, Zenon
      <4>4. CASE j = Len(commitHeights) + 1
        <5>1. commitHeights[i] <= m_current_height
          BY <2>2, <4>1, Zenon DEF Within
        <5>2. commitHeights'[j] = m_current_height + 1
          BY <3>3, <4>4, Zenon
        <5>3. m_current_height \in Nat
          BY DEF TypeOK
        <5> QED
          BY <4>2, <5>1, <5>2, <5>3
      <4>5. j \in 1 .. Len(commitHeights) \/ j = Len(commitHeights) + 1
        <5>1. j \in 1 .. Len(commitHeights) + 1 /\ Len(commitHeights) \in Nat
          BY <1>t, <3>3, Zenon
        <5> QED
          BY <5>1
      <4> QED
        BY <4>3, <4>4, <4>5, Zenon
    <3>7. Complete(ChainStartHeight, m_current_height', commitHeights')
      <4> SUFFICES ASSUME NEW h \in ChainStartHeight + 1 .. m_current_height',
                          IsCommitHeight(h)
                   PROVE  \E i \in 1 .. Len(commitHeights') : commitHeights'[i] = h
        BY Zenon DEF Complete
      <4>0. Len(commitHeights) + 1 \in 1 .. Len(commitHeights')
        BY <1>t, <3>3
      <4>1. CASE h \in ChainStartHeight + 1 .. m_current_height
        <5>1. PICK i \in 1 .. Len(commitHeights) : commitHeights[i] = h
          BY <2>2, <4>1, Zenon DEF Complete
        <5>2. i \in 1 .. Len(commitHeights')
          BY <1>t, <3>3
        <5> QED
          BY <3>3, <5>1, <5>2, Zenon
      <4>2. CASE h = m_current_height + 1
        BY <3>3, <4>0, <4>2, Zenon
      <4> QED
        BY <1>p, <2>3, <4>1, <4>2 DEF TypeOK
    <3>8. BitsOf(commitHeights', m_header_commitments', presync')
      <4>1. presync'[(m_current_height + 1) - ChainStartHeight] = NextHash
        <5>1. m_current_height = ChainStartHeight + Len(presync) /\ Len(presync) \in Nat
          BY <1>t, <2>2
        <5>2. (m_current_height + 1) - ChainStartHeight = Len(presync) + 1
          BY <1>p, <5>1
        <5>3. presync'[Len(presync) + 1] = NextHash
          BY <2>4, Zenon
        <5> QED
          BY <5>2, <5>3, Zenon
      <4> QED
        <5> SUFFICES ASSUME NEW i \in 1 .. Len(commitHeights')
                     PROVE  m_header_commitments'[i]
                              = Commitment(presync'[commitHeights'[i] - ChainStartHeight])
          BY Zenon DEF BitsOf
        <5>1. CASE i \in 1 .. Len(commitHeights)
          BY <2>2, <2>6, <3>3, <3>4, <5>1, Zenon DEF BitsOf
        <5>2. CASE i = Len(commitHeights) + 1
          <6>1. /\ commitHeights'[i] = m_current_height + 1
                /\ m_header_commitments'[i] = Commitment(NextHash)
            BY <3>3, <3>4, <5>2, Zenon
          <6>2. commitHeights'[i] - ChainStartHeight = (m_current_height + 1) - ChainStartHeight
            BY <6>1, Zenon
          <6> QED
            BY <4>1, <6>1, <6>2, Zenon
        <5> QED
          BY <1>t, <3>3, <5>1, <5>2
    <3> QED
      BY <2>1, <2>5, <3>5, <3>6, <3>7, <3>8, QueueCarry
  <2>8. CASE ~IsCommitHeight(m_current_height + 1)
    <3>1. UNCHANGED <<commitHeights, m_header_commitments>>
      BY <1>3, <2>8 DEF ValidateAndProcessSingleHeader, commitVars
    <3>2. m_current_height \in Nat
      BY DEF TypeOK
    <3>3. Within(ChainStartHeight, m_current_height', commitHeights')
      BY <1>t, <2>2, <2>3, <3>1, <3>2 DEF Within
    <3>4. Increasing(commitHeights')
      BY <2>2, <3>1
    <3>5. Complete(ChainStartHeight, m_current_height', commitHeights')
      BY <1>p, <2>2, <2>3, <2>8, <3>1, <3>2 DEF Complete
    <3>6. BitsOf(commitHeights', m_header_commitments', presync')
      BY <2>2, <2>6, <3>1 DEF BitsOf
    <3> QED
      BY <2>1, <2>5, <3>3, <3>4, <3>5, <3>6, QueueCarry
  <2> QED
    BY <2>7, <2>8
<1>4. CASE FinishPresync
  <2>1. CASE SufficientWork
    <3>1. /\ CommitBase' = CommitBase /\ m_download_state = "PRESYNC"
          /\ m_download_state' = "REDOWNLOAD"
      BY <1>4, <2>1 DEF FinishPresync, PhaseInv, CommitBase
    <3>2. UNCHANGED <<object, m_current_height, presync, commitHeights,
                      m_header_commitments, m_process_all_remaining_headers>>
      BY <1>4, <2>1 DEF FinishPresync, presyncVars, commitVars, redownloadVars
    <3> QED
      BY <3>1, <3>2, QueueCarry DEF QueueInv
  <2>2. CASE ~SufficientWork
    BY <1>0, <1>4, <1>v, <2>2, Zenon DEF FinishPresync
  <2> QED
    BY <2>1, <2>2
<1>5. CASE ValidateAndStoreRedownloadedHeader
  <2>1. /\ m_download_state = "REDOWNLOAD" /\ m_download_state' = "REDOWNLOAD"
        /\ CommitBase = m_redownload_buffer_last_height
        /\ CommitBase' = CommitBase + 1
        /\ UNCHANGED <<object, m_current_height, presync>>
        /\ m_current_height = ChainStartHeight + Len(presync)
    BY <1>5 DEF ValidateAndStoreRedownloadedHeader, PhaseInv, CommitBase, presyncVars, QueueInv
  <2>2. m_current_height \in Nat /\ CommitBase \in Nat
    BY <2>1 DEF TypeOK
  <2>3. CASE ProcessAll
    <3>1. m_process_all_remaining_headers'
      BY <1>5, <2>3, Zenon DEF ValidateAndStoreRedownloadedHeader
    <3> QED
      BY <2>1, <3>1, QueueCarry
  <2>4. CASE ~ProcessAll
    <3>0. ~m_process_all_remaining_headers
      BY <2>4, Zenon DEF ProcessAll
    <3>1. /\ Within(CommitBase, m_current_height, commitHeights)
          /\ Increasing(commitHeights)
          /\ Complete(CommitBase, m_current_height, commitHeights)
          /\ BitsOf(commitHeights, m_header_commitments, presync)
      BY <2>1, <3>0 DEF QueueInv
    <3>2. CASE MustCheck
      <4>1. /\ m_header_commitments # << >>
            /\ m_header_commitments' = Tail(m_header_commitments)
            /\ commitHeights' = Tail(commitHeights)
            /\ IsCommitHeight(CommitBase + 1)
        BY <1>5, <2>1, <3>2
        DEF ValidateAndStoreRedownloadedHeader, PopCommitment, CommitmentMatches, MustCheck
      <4>2. commitHeights # << >>
        BY <1>t, <4>1, TailFacts
      <4>3. /\ Len(commitHeights') = Len(commitHeights) - 1
            /\ \A i \in 1 .. Len(commitHeights) - 1 :
                 commitHeights'[i] = commitHeights[i + 1]
        BY <1>t, <4>1, <4>2, TailFacts
      <4>4. \A i \in 1 .. Len(commitHeights) - 1 :
              m_header_commitments'[i] = m_header_commitments[i + 1]
        BY <1>t, <4>1, TailFacts
      <4>5. Len(commitHeights) > 0 /\ commitHeights[1] > CommitBase
        BY <1>t, <3>1, <4>2, TailFacts DEF Within
      <4>6. Within(CommitBase + 1, m_current_height, commitHeights')
        <5> SUFFICES ASSUME NEW i \in 1 .. Len(commitHeights')
                     PROVE  /\ commitHeights'[i] > CommitBase + 1
                            /\ commitHeights'[i] <= m_current_height
                            /\ IsCommitHeight(commitHeights'[i])
          BY DEF Within
        <5>1. /\ i + 1 \in 1 .. Len(commitHeights) /\ 1 \in 1 .. Len(commitHeights)
              /\ 1 < i + 1
              /\ i \in 1 .. Len(commitHeights) - 1
          BY <1>t, <4>3, <4>5
        <5>2. commitHeights'[i] = commitHeights[i + 1]
          BY <4>3, <5>1, Zenon
        <5>3. commitHeights[1] \in Nat /\ commitHeights[i + 1] \in Nat
          BY <1>t, <5>1
        <5>4. commitHeights[1] < commitHeights[i + 1]
          BY <3>1, <5>1, Zenon DEF Increasing
        <5>5. commitHeights[i + 1] <= m_current_height /\ IsCommitHeight(commitHeights[i + 1])
          BY <3>1, <5>1, Zenon DEF Within
        <5>6. CommitBase \in Nat
          BY <1>t, ParamsAssumption DEF CommitBase
        <5>7. commitHeights[i + 1] > CommitBase + 1
          BY <4>5, <5>3, <5>4, <5>6
        <5> QED
          BY <5>2, <5>5, <5>7, Zenon
      <4>7. Increasing(commitHeights')
        BY <1>t, <3>1, <4>3 DEF Increasing
      <4>8. Complete(CommitBase + 1, m_current_height, commitHeights')
        <5> SUFFICES ASSUME NEW h \in CommitBase + 2 .. m_current_height, IsCommitHeight(h)
                     PROVE  \E i \in 1 .. Len(commitHeights') : commitHeights'[i] = h
          BY <2>2 DEF Complete
        <5>1. PICK i \in 1 .. Len(commitHeights) : commitHeights[i] = h
          BY <2>2, <3>1 DEF Complete
        <5>2. i # 1
          <6>1. CASE m_current_height >= CommitBase + 1
            <7>1. PICK k \in 1 .. Len(commitHeights) : commitHeights[k] = CommitBase + 1
              BY <2>2, <3>1, <4>1, <6>1 DEF Complete
            <7> QED
              BY <1>t, <2>2, <3>1, <5>1, <7>1 DEF Increasing
          <6> QED
            BY <2>2, <6>1
        <5>3. i - 1 \in 1 .. Len(commitHeights') /\ i - 1 \in 1 .. Len(commitHeights) - 1
              /\ (i - 1) + 1 = i
          BY <1>t, <4>3, <5>1, <5>2
        <5>4. commitHeights'[i - 1] = h
          BY <4>3, <5>1, <5>3, Zenon
        <5> QED
          BY <5>3, <5>4, Zenon
      <4>9. BitsOf(commitHeights', m_header_commitments', presync)
        <5> SUFFICES ASSUME NEW i \in 1 .. Len(commitHeights')
                     PROVE  m_header_commitments'[i]
                              = Commitment(presync[commitHeights'[i] - ChainStartHeight])
          BY Zenon DEF BitsOf
        <5>1. i \in 1 .. Len(commitHeights) - 1 /\ i + 1 \in 1 .. Len(commitHeights)
          BY <1>t, <4>3
        <5> QED
          BY <3>1, <4>3, <4>4, <5>1, Zenon DEF BitsOf
      <4> QED
        BY <2>1, <4>6, <4>7, <4>8, <4>9, QueueCarry
    <3>3. CASE ~MustCheck
      <4>1. UNCHANGED <<commitHeights, m_header_commitments>>
        BY <1>5, <3>3 DEF ValidateAndStoreRedownloadedHeader, commitVars
      <4>2. ~IsCommitHeight(CommitBase + 1)
        BY <2>1, <2>4, <3>3 DEF MustCheck
      <4>3. Within(CommitBase + 1, m_current_height, commitHeights')
        BY <1>t, <2>2, <3>1, <4>1, <4>2 DEF Within
      <4>4. Complete(CommitBase + 1, m_current_height, commitHeights')
        BY <2>2, <3>1, <4>1 DEF Complete
      <4> QED
        BY <2>1, <3>1, <4>1, <4>3, <4>4, QueueCarry
    <3> QED
      BY <3>2, <3>3
  <2> QED
    BY <2>3, <2>4
<1>6. CASE PopHeadersReadyForAcceptance
  BY <1>6, <1>u DEF PopHeadersReadyForAcceptance, CommitBase, presyncVars
<1>7. CASE FinishRedownload
  BY <1>0, <1>7, <1>v, Zenon DEF FinishRedownload
<1>8. CASE UNCHANGED vars
  BY <1>8, <1>v DEF vars
<1> QED
  BY <1>1, <1>2, <1>3, <1>4, <1>5, <1>6, <1>7, <1>8, Zenon DEF Next, ProcessStep

\* The bit at the front of the queue belongs to the next commitment height.
LEMMA QueueFront ==
  ASSUME TypeOK, SameLength, BufferInv, QueueInv, m_download_state = "REDOWNLOAD",
         ~m_process_all_remaining_headers, m_header_commitments # << >>,
         IsCommitHeight(m_redownload_buffer_last_height + 1)
  PROVE  /\ Len(redownloaded) + 1 <= Len(presync)
         /\ Head(m_header_commitments) = Commitment(presync[Len(redownloaded) + 1])
<1> DEFINE next == m_redownload_buffer_last_height + 1
<1>t. /\ commitHeights \in Seq(Nat) /\ m_header_commitments \in Seq({0, 1})
      /\ Len(commitHeights) \in Nat /\ Len(m_header_commitments) = Len(commitHeights)
      /\ m_redownload_buffer_last_height \in Nat /\ m_current_height \in Nat
      /\ Len(redownloaded) \in Nat /\ Len(presync) \in Nat
  BY DEF TypeOK, SameLength
<1>1. /\ m_redownload_buffer_last_height = ChainStartHeight + Len(redownloaded)
      /\ m_current_height = ChainStartHeight + Len(presync)
      /\ ChainStartHeight \in Nat
  BY ParamsAssumption DEF BufferInv, QueueInv
<1>2. CommitBase = m_redownload_buffer_last_height
  BY DEF CommitBase
<1>3. /\ Within(m_redownload_buffer_last_height, m_current_height, commitHeights)
      /\ Increasing(commitHeights)
      /\ Complete(m_redownload_buffer_last_height, m_current_height, commitHeights)
      /\ BitsOf(commitHeights, m_header_commitments, presync)
  BY <1>2 DEF QueueInv
<1>4. 1 \in 1 .. Len(commitHeights) /\ Head(m_header_commitments) = m_header_commitments[1]
  BY <1>t, TailFacts
<1>5. /\ commitHeights[1] > m_redownload_buffer_last_height
      /\ commitHeights[1] <= m_current_height /\ commitHeights[1] \in Nat
  BY <1>t, <1>3, <1>4 DEF Within
<1>6. next \in m_redownload_buffer_last_height + 1 .. m_current_height
  BY <1>t, <1>5
<1>7. PICK k \in 1 .. Len(commitHeights) : commitHeights[k] = next
  BY <1>3, <1>6, Zenon DEF Complete
<1>8. commitHeights[1] = next
  <2>1. CASE k = 1
    BY <1>7, <2>1
  <2>2. CASE 1 < k
    <3>1. commitHeights[1] < commitHeights[k]
      BY <1>3, <1>4, <1>7, <2>2, Zenon DEF Increasing
    <3> QED
      BY <1>t, <1>5, <1>7, <3>1
  <2> QED
    BY <1>t, <1>7, <2>1, <2>2
<1>9. commitHeights[1] - ChainStartHeight = Len(redownloaded) + 1
  BY <1>t, <1>1, <1>8
<1>10. m_header_commitments[1] = Commitment(presync[commitHeights[1] - ChainStartHeight])
  BY <1>3, <1>4, Zenon DEF BitsOf
<1>11. Len(redownloaded) + 1 <= Len(presync)
  BY <1>t, <1>1, <1>6
<1> QED
  BY <1>4, <1>9, <1>10, <1>11, Zenon

LEMMA AgreeStep ==
  ASSUME TypeOK, SameLength, PhaseInv, SizeInv, BufferInv, QueueInv,
         CommitmentsAgree, [Next]_vars
  PROVE  CommitmentsAgree'
<1> USE DEF object, presyncVars, commitVars, redownloadVars, messageVars, historyVars
<1>t. /\ redownloaded \in Seq(Hash) /\ Len(redownloaded) \in Nat /\ checked \in Nat
      /\ ChainStartHeight \in Nat
  BY ParamsAssumption DEF TypeOK
<1>u. ASSUME UNCHANGED <<object, presync, redownloaded, checked>> PROVE CommitmentsAgree'
  BY <1>u DEF CommitmentsAgree, IsCommitHeight, Commitment
<1>0. ASSUME Finalize, UNCHANGED historyVars PROVE CommitmentsAgree'
  BY <1>0, <1>u DEF Finalize
<1>1. ASSUME NEW prev \in PeerHash, NEW bodies \in Message,
             ProcessNextHeaders(prev, bodies)
      PROVE  CommitmentsAgree'
  BY <1>0, <1>1, <1>u DEF ProcessNextHeaders
<1>2. CASE ExceedMaxCommitments \/ RedownloadUnconnected \/ RedownloadMismatch
  BY <1>0, <1>2, Zenon DEF ExceedMaxCommitments, RedownloadUnconnected, RedownloadMismatch
<1>3. CASE ValidateAndProcessSingleHeader
  <2>1. checked' = 0
    BY <1>3 DEF ValidateAndProcessSingleHeader, PhaseInv
  <2> QED
    BY <2>1 DEF CommitmentsAgree
<1>4. CASE FinishPresync
  BY <1>0, <1>4, <1>u DEF FinishPresync
<1>5. CASE ValidateAndStoreRedownloadedHeader
  <2>1. /\ redownloaded' = Append(redownloaded, NextHash) /\ NextHash \in Hash
        /\ UNCHANGED <<m_commit_offset, m_hasher, presync>>
        /\ m_download_state = "REDOWNLOAD"
    BY <1>5, NextHeaderType DEF ValidateAndStoreRedownloadedHeader, PhaseInv
  <2>2. /\ redownloaded'[Len(redownloaded) + 1] = NextHash
        /\ \A i \in 1 .. Len(redownloaded) : redownloaded'[i] = redownloaded[i]
    BY <1>t, <2>1, AppendFacts
  <2>3. ASSUME NEW i \in 1 .. checked, IsCommitHeight(ChainStartHeight + i)
        PROVE  /\ i <= Len(presync)
               /\ Commitment(redownloaded'[i]) = Commitment(presync[i])
    <3>1. i \in 1 .. Len(redownloaded)
      BY <1>t DEF SizeInv
    <3> QED
      BY <2>2, <2>3, <3>1, Zenon DEF CommitmentsAgree
  <2>4. ASSUME NEW i \in 1 .. checked', IsCommitHeight(ChainStartHeight + i)
        PROVE  /\ i <= Len(presync)
               /\ Commitment(redownloaded'[i]) = Commitment(presync[i])
    <3>1. CASE ProcessAll
      <4>1. checked' = checked
        BY <1>5, <3>1, Zenon DEF ValidateAndStoreRedownloadedHeader
      <4> QED
        BY <2>3, <2>4, <4>1, Zenon
    <3>2. CASE ~ProcessAll
      <4>1. ~m_process_all_remaining_headers
        BY <3>2, Zenon DEF ProcessAll
      <4>2. /\ checked' = checked + 1 /\ checked = Len(redownloaded)
            /\ m_redownload_buffer_last_height = ChainStartHeight + Len(redownloaded)
        BY <1>5, <2>1, <3>2, <4>1, Zenon DEF ValidateAndStoreRedownloadedHeader, BufferInv
      <4>3. CASE i \in 1 .. checked
        BY <2>3, <2>4, <4>3, Zenon
      <4>4. CASE i = Len(redownloaded) + 1
        <5>1. IsCommitHeight(m_redownload_buffer_last_height + 1)
          <6>1. ChainStartHeight + i = m_redownload_buffer_last_height + 1
            BY <1>t, <4>2, <4>4
          <6> QED
            BY <2>4, <6>1, Zenon
        <5>2. /\ m_header_commitments # << >>
              /\ Head(m_header_commitments) = Commitment(NextHash)
          BY <1>5, <3>2, <5>1, Zenon
          DEF ValidateAndStoreRedownloadedHeader, MustCheck, PopCommitment, CommitmentMatches
        <5>3. /\ Len(redownloaded) + 1 <= Len(presync)
              /\ Head(m_header_commitments) = Commitment(presync[Len(redownloaded) + 1])
          BY <2>1, <4>1, <5>1, <5>2, QueueFront
        <5> QED
          BY <2>2, <4>4, <5>2, <5>3, Zenon
      <4> QED
        BY <1>t, <4>2, <4>3, <4>4
    <3> QED
      BY <3>1, <3>2
  <2> QED
    BY <2>1, <2>4, Zenon DEF CommitmentsAgree, IsCommitHeight, Commitment
<1>6. CASE PopHeadersReadyForAcceptance
  BY <1>6, <1>u DEF PopHeadersReadyForAcceptance
<1>7. CASE FinishRedownload
  BY <1>0, <1>7, <1>u DEF FinishRedownload
<1>8. CASE UNCHANGED vars
  BY <1>8, <1>u DEF vars
<1> QED
  BY <1>1, <1>2, <1>3, <1>4, <1>5, <1>6, <1>7, <1>8, Zenon DEF Next, ProcessStep

LEMMA ReleaseStep ==
  ASSUME TypeOK, PhaseInv, SizeInv, BufferInv, ReleasedConnect, ReleaseJustified, [Next]_vars
  PROVE  ReleasedConnect' /\ ReleaseJustified'
<1> USE DEF object, presyncVars, commitVars, redownloadVars, messageVars, historyVars
<1>t. /\ redownloaded \in Seq(Hash) /\ Len(redownloaded) \in Nat /\ checked \in Nat
      /\ Len(released) \in Nat /\ m_redownload_chain_work \in Nat
      /\ Len(m_redownloaded_headers) \in Nat
      /\ m_minimum_required_work \in Nat /\ redownload_buffer_size \in Nat
  BY ParamsAssumption DEF TypeOK
<1>u. ASSUME UNCHANGED historyVars, UNCHANGED m_redownload_chain_work
      PROVE  ReleasedConnect' /\ ReleaseJustified'
  BY <1>u DEF ReleasedConnect, ReleaseJustified
<1>1. ASSUME NEW prev \in PeerHash, NEW bodies \in Message,
             ProcessNextHeaders(prev, bodies)
      PROVE  ReleasedConnect' /\ ReleaseJustified'
  BY <1>1, <1>u DEF ProcessNextHeaders
<1>2. CASE ExceedMaxCommitments \/ RedownloadUnconnected \/ ValidateAndProcessSingleHeader
  BY <1>2, <1>u DEF ExceedMaxCommitments, RedownloadUnconnected, ValidateAndProcessSingleHeader
<1>3. CASE RedownloadMismatch
  <2>1. Work[Head(received)] \in Nat
    BY <1>3, NextHeaderType DEF RedownloadMismatch
  <2>2. m_redownload_chain_work' = m_redownload_chain_work + Work[Head(received)]
        /\ UNCHANGED historyVars
    BY <1>3 DEF RedownloadMismatch, RedownloadWork
  <2>3. ReleasedConnect'
    BY <2>2 DEF ReleasedConnect
  <2> QED
    BY <1>t, <2>1, <2>2, <2>3 DEF ReleaseJustified
<1>4. CASE FinishPresync
  <2>1. CASE SufficientWork
    <3>1. released' = << >> /\ UNCHANGED historyVars
      BY <1>4, <2>1 DEF FinishPresync, PhaseInv
    <3> QED
      BY <3>1 DEF ReleasedConnect, ReleaseJustified
  <2>2. CASE ~SufficientWork
    BY <1>4, <1>u, <2>2 DEF FinishPresync
  <2> QED
    BY <2>1, <2>2
<1>5. CASE ValidateAndStoreRedownloadedHeader
  <2>1. /\ redownloaded' = Append(redownloaded, NextHash) /\ NextHash \in Hash
        /\ UNCHANGED released
        /\ m_redownload_chain_work' = m_redownload_chain_work + Work[Head(received)]
        /\ Work[Head(received)] \in Nat
        /\ checked' = checked \/ checked' = checked + 1
    BY <1>5, NextHeaderType DEF ValidateAndStoreRedownloadedHeader, RedownloadWork
  <2>2. /\ Len(redownloaded') = Len(redownloaded) + 1
        /\ \A i \in 1 .. Len(redownloaded) : redownloaded'[i] = redownloaded[i]
    BY <1>t, <2>1, AppendFacts
  <2>3. Len(released) <= Len(redownloaded)
    BY DEF ReleasedConnect
  <2>4. ReleasedConnect'
    <3>1. Len(released') <= Len(redownloaded')
      BY <1>t, <2>1, <2>2, <2>3
    <3>2. ASSUME NEW i \in 1 .. Len(released')
          PROVE  /\ GetHash(released'[i]) = redownloaded'[i]
                 /\ released'[i].prev = IF i = 1 THEN ChainStart ELSE redownloaded'[i - 1]
      <4>1. /\ i \in 1 .. Len(released) /\ i \in 1 .. Len(redownloaded)
            /\ i = 1 \/ i - 1 \in 1 .. Len(redownloaded)
        BY <1>t, <2>1, <2>3
      <4>2. /\ GetHash(released[i]) = redownloaded[i]
            /\ released[i].prev = IF i = 1 THEN ChainStart ELSE redownloaded[i - 1]
        BY <4>1, Zenon DEF ReleasedConnect
      <4>3. redownloaded'[i] = redownloaded[i]
        BY <2>2, <4>1, Zenon
      <4>4. CASE i = 1
        BY <2>1, <4>2, <4>3, <4>4, Zenon
      <4>5. CASE i # 1
        <5>1. redownloaded'[i - 1] = redownloaded[i - 1]
          BY <2>2, <4>1, <4>5, Zenon
        <5> QED
          BY <2>1, <4>2, <4>3, <4>5, <5>1, Zenon
      <4> QED
        BY <4>4, <4>5
    <3> QED
      BY <3>1, <3>2 DEF ReleasedConnect, GetHash
  <2>5. ReleaseJustified'
    <3>1. m_download_state = "REDOWNLOAD"
      BY <1>5 DEF ValidateAndStoreRedownloadedHeader, PhaseInv
    <3> SUFFICES ASSUME released # << >>
                 PROVE  \/ Len(redownloaded') - Len(released) >= redownload_buffer_size
                        \/ /\ checked' < Len(redownloaded')
                           /\ m_redownload_chain_work' >= m_minimum_required_work
      BY <2>1 DEF ReleaseJustified
    <3>2. CASE Len(redownloaded) - Len(released) >= redownload_buffer_size
      BY <1>t, <2>2, <3>2
    <3>3. CASE checked < Len(redownloaded) /\ m_redownload_chain_work >= m_minimum_required_work
      <4>1. /\ Len(redownloaded) \in Nat /\ checked \in Nat
            /\ m_redownload_chain_work \in Nat /\ m_minimum_required_work \in Nat
        BY <1>t, Zenon
      <4>2. /\ checked' = checked \/ checked' = checked + 1
            /\ Len(redownloaded') = Len(redownloaded) + 1
        BY <2>1, <2>2, Zenon
      <4>3. /\ m_redownload_chain_work' = m_redownload_chain_work + Work[Head(received)]
            /\ Work[Head(received)] \in Nat
        BY <2>1, Zenon
      <4>4. checked' < Len(redownloaded')
        BY <3>3, <4>1, <4>2
      <4>5. m_redownload_chain_work' >= m_minimum_required_work
        BY <3>3, <4>1, <4>3
      <4> QED
        BY <4>4, <4>5, Zenon
    <3> QED
      BY <3>2, <3>3 DEF ReleaseJustified
  <2> QED
    BY <2>4, <2>5
<1>6. CASE PopHeadersReadyForAcceptance
  <2> DEFINE hdr == [prev |-> m_redownload_buffer_first_prev_hash,
                     body |-> Head(m_redownloaded_headers)]
             n == Len(released) + 1
  <2>1. m_download_state = "REDOWNLOAD" /\ m_redownloaded_headers # << >>
    BY <1>6, ParamsAssumption
    DEF PopHeadersReadyForAcceptance, HeaderReady, PhaseInv, TypeOK
  <2>2. /\ released' = Append(released, hdr)
        /\ UNCHANGED <<redownloaded, checked, m_redownload_chain_work>>
        /\ HeaderReady
    BY <1>6, Zenon DEF PopHeadersReadyForAcceptance
  <2>3. /\ Len(m_redownloaded_headers) \in Nat \ {0}
        /\ Head(m_redownloaded_headers) = m_redownloaded_headers[1]
        /\ Head(m_redownloaded_headers) \in Body
    BY <2>1, TailFacts DEF TypeOK
  <2>4. hdr \in [prev : Hash, body : Body]
    BY <2>3 DEF TypeOK
  <2>5. /\ Len(released') = n /\ released'[n] = hdr
        /\ \A i \in 1 .. Len(released) : released'[i] = released[i]
    <3>1. released \in Seq([prev : Hash, body : Body])
      BY Zenon DEF TypeOK
    <3>2. released' = Append(released, hdr)
      BY <2>2, Zenon
    <3> HIDE DEF hdr
    <3> QED
      BY <2>4, <3>1, <3>2, AppendFacts
  <2>6. Len(redownloaded) = Len(released) + Len(m_redownloaded_headers)
    BY <2>1, Zenon DEF BufferInv
  <2>l. Len(released) \in Nat /\ Len(released') = Len(released) + 1
    <3>1. Len(released) \in Nat
      BY DEF TypeOK
    <3>2. Len(released') = Len(released) + 1
      BY <2>5, Zenon
    <3> QED
      BY <3>1, <3>2
  <2>7. /\ GetHash(hdr) = redownloaded[n]
        /\ hdr.prev = PrevHash(redownloaded, n)
    BY <1>t, <2>1, <2>3 DEF BufferInv, GetHash
  <2>8. ReleasedConnect'
    <3>1. Len(released') <= Len(redownloaded')
      <4>1. redownloaded' = redownloaded
        BY <2>2, Zenon
      <4>2. Len(m_redownloaded_headers) \in Nat \ {0}
        BY <2>3, Zenon
      <4>3. Len(released') <= Len(redownloaded)
        BY <2>6, <2>l, <4>2
      <4> QED
        BY <4>1, <4>3, Zenon
    <3>2. ASSUME NEW i \in 1 .. Len(released')
          PROVE  /\ GetHash(released'[i]) = redownloaded'[i]
                 /\ released'[i].prev = IF i = 1 THEN ChainStart ELSE redownloaded'[i - 1]
      <4>1. CASE i \in 1 .. Len(released)
        BY <2>2, <2>5, <4>1, Zenon DEF ReleasedConnect
      <4>2. CASE i = n
        BY <2>2, <2>5, <2>7, <4>2 DEF PrevHash
      <4>3. i \in 1 .. Len(released) \/ i = n
        BY <2>l, <3>2
      <4> QED
        BY <4>1, <4>2, <4>3
    <3> QED
      BY <3>1, <3>2 DEF ReleasedConnect, GetHash
  <2>9. ReleaseJustified'
    <3>1. CASE Len(m_redownloaded_headers) > redownload_buffer_size
      <4>1. Len(redownloaded') - Len(released') >= redownload_buffer_size
        <5>1. redownloaded' = redownloaded
          BY <2>2, Zenon
        <5>2. Len(m_redownloaded_headers) \in Nat /\ redownload_buffer_size \in Nat
          BY <1>t, Zenon
        <5>3. Len(redownloaded) - Len(released') >= redownload_buffer_size
          BY <2>6, <2>l, <3>1, <5>2
        <5> QED
          BY <5>1, <5>3, Zenon
      <4> QED
        BY <4>1 DEF ReleaseJustified
    <3>2. CASE m_process_all_remaining_headers
      BY <2>1, <2>2, <3>2 DEF ReleaseJustified, BufferInv
    <3> QED
      BY <2>2, <3>1, <3>2 DEF HeaderReady
  <2> QED
    BY <2>8, <2>9
<1>7. CASE FinishRedownload
  BY <1>7, <1>u DEF FinishRedownload
<1>8. CASE UNCHANGED vars
  BY <1>8, <1>u DEF vars
<1> QED
  BY <1>1, <1>2, <1>3, <1>4, <1>5, <1>6, <1>7, <1>8, Zenon DEF Next, ProcessStep

-----------------------------------------------------------------------------
LEMMA InvInit == Init => IInv
<1> SUFFICES ASSUME Init PROVE IInv
  OBVIOUS
<1>1. TypeOK /\ SameLength
  BY TypeInit
<1>2. PhaseInv /\ BufferInv
  BY DEF Init, PhaseInv, BufferInv
<1>3. SizeInv /\ BoundedMemory
  <2>1. m_max_commitments \in Nat /\ redownload_buffer_size \in Nat /\ MAX_HEADERS \in Nat
    BY <1>1, ParamsAssumption DEF TypeOK
  <2> QED
    BY <2>1 DEF Init, SizeInv, BoundedMemory
<1>4. QueueInv
  <2>1. /\ commitHeights = << >> /\ presync = << >>
        /\ m_current_height = ChainStartHeight /\ m_download_state = "PRESYNC"
    BY DEF Init
  <2>2. CommitBase = ChainStartHeight
    BY <2>1 DEF CommitBase
  <2> QED
    BY <2>1, <2>2, ParamsAssumption
    DEF QueueInv, Within, Increasing, Complete, BitsOf
<1>5. CommitmentsAgree /\ ReleasedConnect /\ ReleaseJustified
  BY DEF Init, CommitmentsAgree, ReleasedConnect, ReleaseJustified
<1> QED
  BY <1>1, <1>2, <1>3, <1>4, <1>5 DEF IInv

LEMMA InvStep == IInv /\ [Next]_vars => IInv'
<1> SUFFICES ASSUME IInv, [Next]_vars PROVE IInv'
  OBVIOUS
<1> USE DEF IInv
<1>1. TypeOK' /\ SameLength' /\ PhaseInv'
  BY TypeStep, SameLengthStep, PhaseStep
<1>2. BufferInv' /\ SizeInv' /\ BoundedMemory'
  BY BufferStep, MemoryStep
<1>3. QueueInv'
  BY QueueStep
<1>4. CommitmentsAgree'
  BY AgreeStep
<1>5. ReleasedConnect' /\ ReleaseJustified'
  BY ReleaseStep
<1> QED
  BY <1>1, <1>2, <1>3, <1>4, <1>5

LEMMA Invariance == Spec => []IInv
BY InvInit, InvStep, PTL DEF Spec

\* Whatever the peer sends in the two phases, a redownloaded header at a
\* commitment height, below the required work, has the salted bit recorded for
\* that height in PRESYNC (ValidateAndStoreRedownloadedHeader).
THEOREM CommitmentsAgreeAlways == Spec => []CommitmentsAgree
<1>1. IInv => CommitmentsAgree
  BY DEF IInv
<1> QED
  BY <1>1, Invariance, PTL

\* The headers handed to the caller are the redownloaded chain, from the chain
\* start on, with the right hashPrevBlock in each (PopHeadersReadyForAcceptance).
THEOREM ReleasedConnectAlways == Spec => []ReleasedConnect
<1>1. IInv => ReleasedConnect
  BY DEF IInv
<1> QED
  BY <1>1, Invariance, PTL

\* No header reaches the caller before enough checked headers lie above it or
\* the redownloaded chain has the required work (PopHeadersReadyForAcceptance).
THEOREM ReleaseJustifiedAlways == Spec => []ReleaseJustified
<1>1. IInv => ReleaseJustified
  BY DEF IInv
<1> QED
  BY <1>1, Invariance, PTL

\* The memory one peer's sync uses is bounded by the parameters, whatever the
\* peer sends (m_max_commitments, redownload_buffer_size, Finalize).
THEOREM BoundedMemoryAlways == Spec => []BoundedMemory
<1>1. IInv => BoundedMemory
  BY DEF IInv
<1> QED
  BY <1>1, Invariance, PTL
=============================================================================
