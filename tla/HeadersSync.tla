----------------------------- MODULE HeadersSync -----------------------------
(***************************************************************************)
(* HeadersSyncState (headerssync.h, headerssync.cpp): the two-phase header *)
(* download from one peer.  In PRESYNC the node keeps one salted bit per   *)
(* commitment_period headers and adds up the claimed work.  Once that      *)
(* reaches m_minimum_required_work it downloads the same headers again     *)
(* (REDOWNLOAD), compares them with the bits it kept, and hands a header   *)
(* to its caller only when enough checked headers lie above it, or when    *)
(* the downloaded chain itself has reached the required work.              *)
(*                                                                         *)
(* A block hash is collision free, so the hash of a header is modelled by  *)
(* the sequence of header bodies from the chain start up to that header.   *)
(* A body stands for every field of a header but hashPrevBlock, which is   *)
(* what CompressedHeader keeps.  ProcessNextHeaders runs alone, under      *)
(* m_headers_sync_mutex; each iteration of its loops is one step here.     *)
(***************************************************************************)
EXTENDS Integers, Sequences

CONSTANTS
  Body,               \* the fields of a header other than hashPrevBlock
  Work,               \* GetBlockProof of a header with a given body
  Null,               \* stands in the hash left by SetNull
  PeerHash,           \* the hashPrevBlock values the peer's messages may start with
  MAX_HEADERS,        \* m_opts.max_headers_result of the caller
  commitment_period,
  redownload_buffer_size,
  m_minimum_required_work,
  ChainStartHeight,   \* m_chain_start.nHeight
  ChainStartWork,     \* m_chain_start.nChainWork
  Salt,               \* the keys m_hasher may draw at construction
  Hasher(_, _),       \* m_hasher(hash), for a salt and a hash
  MaxCommitments      \* the values of m_max_commitments the clock may give

VARIABLES
  m_download_state,
  m_hasher, m_commit_offset, m_max_commitments,
  m_current_height, m_current_chain_work,
  m_last_header_received,        \* its hash
  m_header_commitments,
  m_redownloaded_headers,        \* compressed: bodies only
  m_redownload_buffer_last_height,
  m_redownload_buffer_last_hash,
  m_redownload_buffer_first_prev_hash,
  m_redownload_chain_work,
  m_process_all_remaining_headers,
  pc,                            \* where ProcessNextHeaders is
  received,                      \* bodies of the message not looked at yet
  receivedPrev,                  \* hashPrevBlock of the first of them
  full_headers_message,
  \* History, read by no action:
  presync,                       \* hashes of the headers accepted in PRESYNC
  commitHeights,                 \* heights of the bits in m_header_commitments
  redownloaded,                  \* hashes of the headers accepted in REDOWNLOAD
  checked,                       \* how many of those while commitments were checked
  released                       \* headers handed to the caller, in order

object == <<m_hasher, m_commit_offset, m_max_commitments>>
presyncVars == <<m_current_height, m_current_chain_work, m_last_header_received,
                 presync>>
commitVars == <<m_header_commitments, commitHeights>>
redownloadVars == <<m_redownloaded_headers, m_redownload_buffer_last_height,
                    m_redownload_buffer_last_hash, m_redownload_buffer_first_prev_hash,
                    m_redownload_chain_work, m_process_all_remaining_headers>>
messageVars == <<received, receivedPrev, full_headers_message>>
historyVars == <<redownloaded, checked, released>>
vars == <<m_download_state, object, presyncVars, commitVars, redownloadVars, pc,
          messageVars, historyVars>>

ASSUME ParamsAssumption ==
  /\ MAX_HEADERS \in Nat \ {0}
  /\ commitment_period \in Nat \ {0}
  /\ redownload_buffer_size \in Nat
  /\ m_minimum_required_work \in Nat
  /\ ChainStartHeight \in Nat
  /\ ChainStartWork \in Nat
  /\ MaxCommitments \subseteq Nat
ASSUME HeaderAssumption ==
  /\ Work \in [Body -> Nat \ {0}]
  /\ Null \notin Body
  /\ \A p \in PeerHash : p \in Seq(Body)

-----------------------------------------------------------------------------
Header == [prev : Seq(Body), body : Body]

\* CBlockHeader::GetHash: it covers hashPrevBlock and all the other fields.
GetHash(hdr) == Append(hdr.prev, hdr.body)

\* m_chain_start.GetBlockHash().
ChainStart == << >>

\* uint256::SetNull: no header has this hash.
NullHash == <<Null>>

\* m_hasher(hash) & 1.
Commitment(hash) == IF Hasher(m_hasher, hash) % 2 = 1 THEN 1 ELSE 0

IsCommitHeight(height) == height % commitment_period = m_commit_offset

\* HeadersSyncState's constructor.
Init ==
  /\ m_download_state = "PRESYNC"
  /\ m_hasher \in Salt
  /\ m_commit_offset \in 0 .. commitment_period - 1
  /\ m_max_commitments \in MaxCommitments
  /\ m_current_height = ChainStartHeight
  /\ m_current_chain_work = ChainStartWork
  /\ m_last_header_received = ChainStart
  /\ m_header_commitments = << >>
  /\ m_redownloaded_headers = << >>
  /\ m_redownload_buffer_last_height = 0
  /\ m_redownload_buffer_last_hash = NullHash
  /\ m_redownload_buffer_first_prev_hash = NullHash
  /\ m_redownload_chain_work = 0
  /\ m_process_all_remaining_headers = FALSE
  /\ pc = "idle"
  /\ received = << >>
  /\ receivedPrev = NullHash
  /\ full_headers_message = FALSE
  /\ presync = << >>
  /\ commitHeights = << >>
  /\ redownloaded = << >>
  /\ checked = 0
  /\ released = << >>

\* Leave ProcessNextHeaders; what is left of the message is dropped.
Return ==
  /\ pc' = "idle"
  /\ received' = << >>
  /\ receivedPrev' = NullHash
  /\ full_headers_message' = FALSE

Finalize ==
  /\ m_header_commitments' = << >>
  /\ commitHeights' = << >>
  /\ m_last_header_received' = NullHash
  /\ m_redownloaded_headers' = << >>
  /\ m_redownload_buffer_last_hash' = NullHash
  /\ m_redownload_buffer_first_prev_hash' = NullHash
  /\ m_process_all_remaining_headers' = FALSE
  /\ m_current_height' = 0
  /\ m_download_state' = "FINAL"
  /\ UNCHANGED <<object, m_current_chain_work, presync,
                 m_redownload_buffer_last_height>>

\* ProcessNextHeaders is called with a non-empty run of connected headers
\* (CheckHeadersAreContinuous) that starts at hash prev.  In PRESYNC a run
\* that does not connect to the last header received ends the sync.
ProcessNextHeaders(prev, bodies) ==
  /\ pc = "idle"
  /\ m_download_state # "FINAL"
  /\ IF m_download_state = "PRESYNC" /\ prev # m_last_header_received
       THEN /\ Finalize
            /\ Return
            /\ UNCHANGED <<m_redownload_chain_work, historyVars>>
       ELSE /\ pc' = m_download_state
            /\ received' = bodies
            /\ receivedPrev' = prev
            /\ full_headers_message' = (Len(bodies) = MAX_HEADERS)
            /\ UNCHANGED <<m_download_state, object, presyncVars, commitVars,
                           redownloadVars, historyVars>>

\* The hash of the header being looked at.
NextHash == Append(receivedPrev, Head(received))

\* Move on to the next header of the message.
NextHeader ==
  /\ received' = Tail(received)
  /\ receivedPrev' = NextHash
  /\ UNCHANGED <<pc, full_headers_message>>

\* Mutant: the limit is found to be exceeded one commitment late.
TooManyCommitmentsLate(commitments) == Len(commitments) > m_max_commitments + 1

\* The peer's chain is longer than the time since the chain start allows.
TooManyCommitments(commitments) == Len(commitments) > m_max_commitments

\* ValidateAndProcessSingleHeader returns false: the chain is too long.
ExceedMaxCommitments ==
  /\ pc = "PRESYNC"
  /\ received # << >>
  /\ IsCommitHeight(m_current_height + 1)
  /\ TooManyCommitments(Append(m_header_commitments, Commitment(NextHash)))
  /\ Finalize
  /\ Return
  /\ UNCHANGED <<m_redownload_chain_work, historyVars>>

StoreCommitment ==
  /\ m_header_commitments' = Append(m_header_commitments, Commitment(NextHash))
  /\ commitHeights' = Append(commitHeights, m_current_height + 1)
  /\ ~TooManyCommitments(m_header_commitments')

\* ValidateAndProcessSingleHeader returns true.  PermittedDifficultyTransition
\* holds for any two headers, on every network.
ValidateAndProcessSingleHeader ==
  /\ pc = "PRESYNC"
  /\ received # << >>
  /\ IF IsCommitHeight(m_current_height + 1) THEN StoreCommitment
                                            ELSE UNCHANGED commitVars
  /\ m_current_chain_work' = m_current_chain_work + Work[Head(received)]
  /\ m_last_header_received' = NextHash
  /\ m_current_height' = m_current_height + 1
  /\ presync' = Append(presync, NextHash)
  /\ NextHeader
  /\ UNCHANGED <<m_download_state, object, redownloadVars, historyVars>>

SufficientWork == m_current_chain_work >= m_minimum_required_work

\* The end of ValidateAndStoreHeadersCommitments, and what ProcessNextHeaders
\* does with its result: switch to REDOWNLOAD once the chain claims enough
\* work, ask for more after a full message, give up after a short one.
FinishPresync ==
  /\ pc = "PRESYNC"
  /\ received = << >>
  /\ UNCHANGED historyVars
  /\ \/ /\ SufficientWork
        /\ m_redownloaded_headers' = << >>
        /\ m_redownload_buffer_last_height' = ChainStartHeight
        /\ m_redownload_buffer_first_prev_hash' = ChainStart
        /\ m_redownload_buffer_last_hash' = ChainStart
        /\ m_redownload_chain_work' = ChainStartWork
        /\ m_download_state' = "REDOWNLOAD"
        /\ Return
        /\ UNCHANGED <<object, presyncVars, commitVars, m_process_all_remaining_headers>>
     \/ /\ ~SufficientWork
        /\ full_headers_message
        /\ Return
        /\ UNCHANGED <<m_download_state, object, presyncVars, commitVars, redownloadVars>>
     \/ /\ ~SufficientWork
        /\ ~full_headers_message
        /\ Finalize
        /\ Return
        /\ UNCHANGED m_redownload_chain_work

\* The first header left in the message does not follow the redownloaded ones.
RedownloadUnconnected ==
  /\ pc = "REDOWNLOAD"
  /\ received # << >>
  /\ receivedPrev # m_redownload_buffer_last_hash
  /\ Finalize
  /\ Return
  /\ UNCHANGED <<m_redownload_chain_work, historyVars>>

\* The work on the redownloaded chain, this header included, and whether it
\* suffices: from then on commitments are no longer checked.
RedownloadWork == m_redownload_chain_work + Work[Head(received)]
ProcessAll == \/ m_process_all_remaining_headers
              \/ RedownloadWork >= m_minimum_required_work
MustCheck == ~ProcessAll /\ IsCommitHeight(m_redownload_buffer_last_height + 1)

\* Mutant: the bit kept in PRESYNC is popped and not compared.
CommitmentMatchesAny(hash) == m_header_commitments # << >>

\* Neither commitment overrun nor commitment mismatch.
CommitmentMatches(hash) ==
  /\ m_header_commitments # << >>
  /\ Head(m_header_commitments) = Commitment(hash)

\* ValidateAndStoreRedownloadedHeader returns false: a different chain.
RedownloadMismatch ==
  /\ pc = "REDOWNLOAD"
  /\ received # << >>
  /\ receivedPrev = m_redownload_buffer_last_hash
  /\ MustCheck
  /\ ~CommitmentMatches(NextHash)
  /\ m_redownload_chain_work' = RedownloadWork
  /\ Finalize
  /\ Return
  /\ UNCHANGED historyVars

PopCommitment ==
  /\ CommitmentMatches(NextHash)
  /\ m_header_commitments' = Tail(m_header_commitments)
  /\ commitHeights' = Tail(commitHeights)

\* ValidateAndStoreRedownloadedHeader returns true.
ValidateAndStoreRedownloadedHeader ==
  /\ pc = "REDOWNLOAD"
  /\ received # << >>
  /\ receivedPrev = m_redownload_buffer_last_hash
  /\ IF MustCheck THEN PopCommitment ELSE UNCHANGED commitVars
  /\ m_redownload_chain_work' = RedownloadWork
  /\ m_process_all_remaining_headers' = ProcessAll
  /\ m_redownloaded_headers' = Append(m_redownloaded_headers, Head(received))
  /\ m_redownload_buffer_last_height' = m_redownload_buffer_last_height + 1
  /\ m_redownload_buffer_last_hash' = NextHash
  /\ redownloaded' = Append(redownloaded, NextHash)
  /\ checked' = IF ProcessAll THEN checked ELSE checked + 1
  /\ NextHeader
  /\ UNCHANGED <<m_download_state, object, presyncVars, released,
                 m_redownload_buffer_first_prev_hash>>

\* Mutant: headers leave the buffer when it is full rather than over-full.
HeaderReadyEarly ==
  \/ Len(m_redownloaded_headers) >= redownload_buffer_size
  \/ Len(m_redownloaded_headers) > 0 /\ m_process_all_remaining_headers

\* The condition of the loop in PopHeadersReadyForAcceptance.
HeaderReady ==
  \/ Len(m_redownloaded_headers) > redownload_buffer_size
  \/ Len(m_redownloaded_headers) > 0 /\ m_process_all_remaining_headers

\* Mutant: the hash kept for the next header is the one it was built from.
FirstPrevHashAfterStale(hdr) == hdr.prev

FirstPrevHashAfter(hdr) == GetHash(hdr)

\* GetFullHeader puts the previous hash back into a compressed header.
PopHeadersReadyForAcceptance ==
  /\ pc = "REDOWNLOAD"
  /\ received = << >>
  /\ HeaderReady
  /\ LET hdr == [prev |-> m_redownload_buffer_first_prev_hash,
                 body |-> Head(m_redownloaded_headers)]
     IN /\ released' = Append(released, hdr)
        /\ m_redownload_buffer_first_prev_hash' = FirstPrevHashAfter(hdr)
  /\ m_redownloaded_headers' = Tail(m_redownloaded_headers)
  /\ UNCHANGED <<m_download_state, object, presyncVars, commitVars, pc, messageVars,
                 m_redownload_buffer_last_height, m_redownload_buffer_last_hash,
                 m_redownload_chain_work, m_process_all_remaining_headers,
                 redownloaded, checked>>

\* The sync is complete once the buffer has been emptied for good; otherwise it
\* asks for more after a full message and gives up after a short one.
FinishRedownload ==
  /\ pc = "REDOWNLOAD"
  /\ received = << >>
  /\ ~HeaderReady
  /\ UNCHANGED historyVars
  /\ Return
  /\ IF full_headers_message /\ ~(m_redownloaded_headers = << >>
                                  /\ m_process_all_remaining_headers)
       THEN UNCHANGED <<m_download_state, object, presyncVars, commitVars, redownloadVars>>
       ELSE Finalize /\ UNCHANGED m_redownload_chain_work

\* The bodies of one message: between one and MAX_HEADERS headers.
Message == UNION {[1 .. n -> Body] : n \in 1 .. MAX_HEADERS}

\* The rest of a call of ProcessNextHeaders, once it has its message.
ProcessStep ==
  \/ ExceedMaxCommitments
  \/ ValidateAndProcessSingleHeader
  \/ FinishPresync
  \/ RedownloadUnconnected
  \/ RedownloadMismatch
  \/ ValidateAndStoreRedownloadedHeader
  \/ PopHeadersReadyForAcceptance
  \/ FinishRedownload

Next ==
  \/ \E prev \in PeerHash, bodies \in Message : ProcessNextHeaders(prev, bodies)
  \/ ProcessStep

Spec == Init /\ [][Next]_vars

-----------------------------------------------------------------------------
Hash == Seq(Body \cup {Null})

\* Every field has the type the class gives it.
TypeOK ==
  /\ m_download_state \in {"PRESYNC", "REDOWNLOAD", "FINAL"}
  /\ m_hasher \in Salt
  /\ m_commit_offset \in 0 .. commitment_period - 1
  /\ m_max_commitments \in Nat
  /\ m_current_height \in Nat
  /\ m_current_chain_work \in Nat
  /\ m_last_header_received \in Hash
  /\ m_header_commitments \in Seq({0, 1})
  /\ m_redownloaded_headers \in Seq(Body)
  /\ m_redownload_buffer_last_height \in Nat
  /\ m_redownload_buffer_last_hash \in Hash
  /\ m_redownload_buffer_first_prev_hash \in Hash
  /\ m_redownload_chain_work \in Nat
  /\ m_process_all_remaining_headers \in BOOLEAN
  /\ pc \in {"idle", "PRESYNC", "REDOWNLOAD"}
  /\ received \in Seq(Body)
  /\ receivedPrev \in Hash
  /\ full_headers_message \in BOOLEAN
  /\ presync \in Seq(Hash)
  /\ commitHeights \in Seq(Nat)
  /\ redownloaded \in Seq(Hash)
  /\ checked \in Nat
  /\ released \in Seq([prev : Hash, body : Body])

\* Every header the redownload accepted at a commitment height, before its
\* chain reached the required work, has the same salted bit as the header the
\* peer gave at that height in PRESYNC: the queue of bits filled in one phase
\* and emptied in the other never slips (m_header_commitments).
CommitmentsAgree ==
  \A i \in 1 .. checked :
    IsCommitHeight(ChainStartHeight + i) =>
      /\ i <= Len(presync)
      /\ Commitment(redownloaded[i]) = Commitment(presync[i])

\* The headers handed to the caller are the redownloaded headers, in order,
\* each connected to the one before and the first to the chain start, although
\* the buffer keeps no hashPrevBlock (CompressedHeader, GetFullHeader).
ReleasedConnect ==
  /\ Len(released) <= Len(redownloaded)
  /\ \A i \in 1 .. Len(released) :
       /\ GetHash(released[i]) = redownloaded[i]
       /\ released[i].prev = IF i = 1 THEN ChainStart ELSE redownloaded[i - 1]

\* A header is handed over only below redownload_buffer_size headers that passed
\* the commitment checks, or once the redownloaded chain has the required work.
ReleaseJustified ==
  released # << >> =>
    \/ Len(redownloaded) - Len(released) >= redownload_buffer_size
    \/ checked < Len(redownloaded) /\ m_redownload_chain_work >= m_minimum_required_work

\* What one peer can make the node store: at most m_max_commitments bits and,
\* between two messages, at most redownload_buffer_size headers (one message
\* more while it is processed), and nothing once the sync is FINAL.
BoundedMemory ==
  /\ Len(m_header_commitments) <= m_max_commitments
  /\ Len(m_redownloaded_headers) <= redownload_buffer_size + MAX_HEADERS
  /\ pc = "idle" => Len(m_redownloaded_headers) <= redownload_buffer_size
  /\ m_download_state = "FINAL" => /\ m_header_commitments = << >>
                                   /\ m_redownloaded_headers = << >>

=============================================================================
