--------------------------- MODULE HeadersDownload --------------------------
(***************************************************************************)
(* How the peer manager gets the headers of the best chain from its peers  *)
(* (net_processing.cpp): it asks one peer at a time, feeds low-work chains *)
(* to that peer's HeadersSyncState, keeps statistics of those syncs, gives *)
(* up a sync peer that stalls, and stores headers in the block index only  *)
(* once their chain has enough work.                                       *)
(*                                                                         *)
(* Every header has work 1, and a chain is a branch that leaves the others *)
(* at the genesis block, so a height is also the work of a chain.  What    *)
(* HeadersSyncState does with a message is HeadersSync's subject; here it  *)
(* is taken that the commitments tell any two chains apart.  The node is   *)
(* in initial block download.  One thread handles all messages; a handler  *)
(* is one step.  A headers message with bad proof of work or a gap makes   *)
(* the peer a disconnected one (Disconnect).                               *)
(***************************************************************************)
EXTENDS Integers, Sequences, FiniteSets, FiniteSetsExt, Functions

CONSTANTS
  Peer,                \* node ids
  Honest,              \* peers that answer every getheaders, in time, from Main
  Preferred,           \* preferred (outbound) peers
  Chain, Main,         \* the branches; the one of the honest peers
  Length,              \* the height each branch reaches
  max_headers_result,  \* m_opts.max_headers_result
  MinimumWork,         \* GetAntiDoSWorkThreshold
  BufferSize,          \* headers kept back while redownloading
  InvBlock,            \* blocks that are announced with an inv
  NoSync, None

ASSUME HeadersDownloadAssumption ==
  /\ Peer \subseteq Nat /\ Honest \subseteq Peer
  /\ Main \in Chain
  /\ Length \in [Chain -> Nat]
  /\ MinimumWork \in 1..Length[Main]
  /\ max_headers_result \in Nat \ {0}
  /\ BufferSize \in Nat

VARIABLES
  conn,          \* "up", "closing" (fDisconnect) or "gone" (FinalizeNode)
  m_headers_sync,
  recent,        \* m_last_getheaders_timestamp is within HEADERS_RESPONSE_TIME
  request,       \* the getheaders on their way to an honest peer
  stats,         \* m_headers_presync_stats
  bestpeer,      \* m_headers_presync_bestpeer
  fSyncStarted, nSyncStarted,
  announced,     \* the blocks a peer sent an inv for
  inv_before,    \* m_inv_triggered_getheaders_before_sync
  last_inv,      \* m_last_block_inv_triggering_headers_sync
  best_known,    \* the height of pindexBestKnownBlock
  index,         \* the height up to which each branch is in the block index
  best,          \* the branch of m_best_header
  noban          \* the peers with that permission, from the start of their connections

vars == << conn, m_headers_sync, recent, request, stats, bestpeer, fSyncStarted, nSyncStarted,
           announced, inv_before, last_inv, best_known, index, best, noban >>

Syncing(phase, chain, start, cur, redl, out) ==
  [phase |-> phase, chain |-> chain, start |-> start, cur |-> cur, redl |-> redl, out |-> out]

Message(chain, from, n) == [chain |-> chain, from |-> from, n |-> n]

Top(m) == m.from + m.n

Full(m) == m.n = max_headers_result

Init ==
  /\ conn = [p \in Peer |-> "up"]
  /\ m_headers_sync = [p \in Peer |-> NoSync]
  /\ recent = [p \in Peer |-> FALSE]
  /\ request = [p \in Honest |-> << >>]
  /\ stats = [p \in {} |-> 0]
  /\ bestpeer = -1
  /\ fSyncStarted = [p \in Peer |-> FALSE]
  /\ nSyncStarted = 0
  /\ announced = [p \in Peer |-> {}]
  /\ inv_before = [p \in Peer |-> FALSE]
  /\ last_inv = None
  /\ best_known = [p \in Peer |-> 0]
  /\ index = [c \in Chain |-> 0]
  /\ best = Main
  /\ noban \in SUBSET (Peer \ Honest)

-----------------------------------------------------------------------------
(* HeadersSyncState::ProcessNextHeaders: the sync afterwards (NoSync: it   *)
(* is FINAL), whether the message was good, and what it releases.          *)

Outcome(sync, success, released) ==
  [sync |-> sync, success |-> success, released |-> released]

Presync(s, m) ==
  IF m.chain # s.chain \/ m.from # s.cur THEN Outcome(NoSync, FALSE, None)
  ELSE IF Top(m) >= MinimumWork
    THEN Outcome(Syncing("REDOWNLOAD", s.chain, s.start, Top(m), s.start, s.start), TRUE, None)
  ELSE IF Full(m) THEN Outcome([s EXCEPT !.cur = Top(m)], TRUE, None)
  ELSE Outcome(NoSync, TRUE, None)

\* The chain's headers from the last released one up to h.
Released(s, h) == IF h > s.out THEN Message(s.chain, s.out, h - s.out) ELSE None

\* PopHeadersReadyForAcceptance: all but the last BufferSize headers are ready,
\* and all of them once the redownloaded chain has the minimum work.
Ready(s, m) ==
  IF Top(m) >= MinimumWork THEN Top(m) ELSE Max({s.out, Top(m) - BufferSize})

Redownload(s, m) ==
  LET ready == Ready(s, m)
  IN IF m.chain # s.chain \/ m.from # s.redl THEN Outcome(NoSync, FALSE, None)
     ELSE Outcome(IF Top(m) >= MinimumWork \/ ~Full(m) THEN NoSync
                  ELSE [s EXCEPT !.redl = Top(m), !.out = ready],
                  TRUE, Released(s, ready))

ProcessNextHeaders(s, m) == IF s.phase = "PRESYNC" THEN Presync(s, m) ELSE Redownload(s, m)

\* NextHeadersRequestLocator, as the height a peer of the same chain goes on from.
NextRequest(s) == IF s.phase = "PRESYNC" THEN s.cur ELSE s.redl

-----------------------------------------------------------------------------
(* Statistics of the syncs.                                                *)

Stat(s) == [work |-> s.cur, presync |-> s.phase = "PRESYNC"]

\* operator> of HeadersPresyncStats: an empty optional is less than a filled one.
Greater(a, b) == a.work > b.work \/ (a.work = b.work /\ a.presync /\ ~b.presync)

\* The first of the greatest entries, in the order of the map.
Greatest(st) ==
  Min({p \in DOMAIN st : \A q \in DOMAIN st : ~Greater(st[q], st[p])})

\* Mutant: a sync that ended keeps its entry.
EraseNothing(st, p) == st

\* m_headers_presync_stats.erase; m_headers_presync_bestpeer may be outdated.
Erase(st, p) == Restrict(st, DOMAIN st \ {p})

Insert(st, p, s) == [q \in DOMAIN st \union {p} |-> IF q = p THEN Stat(s) ELSE st[q]]

\* m_headers_presync_bestpeer after peer p's entry was written to st.
BestPeer(st, p) ==
  IF bestpeer \notin DOMAIN st THEN Greatest(st)
  ELSE IF bestpeer = p \/ Greater(st[p], st[bestpeer]) THEN p
  ELSE bestpeer

-----------------------------------------------------------------------------
(* Requests.  A request is the height the peer is asked to go on from.     *)

\* GetLocator of m_best_header: of use to a peer of the same branch only.
BestLocator == IF best = Main THEN index[Main] ELSE 0

\* The requests that are on their way to p now, and its timestamp.
Requests(p, queue, is_recent) ==
  /\ request' = IF p \in Honest THEN [request EXCEPT ![p] = queue] ELSE request
  /\ recent' = [recent EXCEPT ![p] = is_recent]

MaybeSendGetHeaders(p, queue, is_recent, from) ==
  Requests(p, IF is_recent THEN queue ELSE Append(queue, from), TRUE)

\* The sync that a message leaves peer p with, and its entry in the statistics.
SetSync(p, s) ==
  /\ m_headers_sync' = [m_headers_sync EXCEPT ![p] = s]
  /\ IF s # NoSync
       THEN stats' = Insert(stats, p, s) /\ bestpeer' = BestPeer(Insert(stats, p, s), p)
       ELSE /\ stats' = IF m_headers_sync[p] = NoSync THEN stats ELSE Erase(stats, p)
            /\ UNCHANGED bestpeer

-----------------------------------------------------------------------------
(* The headers message.                                                    *)

store == << conn, best_known, index, best >>

\* TryLowWorkHeadersSync for headers h that connect, have too little work and
\* belong to no sync: a full message starts one, any other is ignored.
LowWork(p, h, queue) ==
  /\ IF Full(h)
       THEN LET s == Presync(Syncing("PRESYNC", h.chain, h.from, h.from, h.from, h.from), h).sync
            IN SetSync(p, s) /\ Requests(p, Append(queue, NextRequest(s)), TRUE)
       ELSE SetSync(p, NoSync) /\ Requests(p, queue, FALSE)
  /\ UNCHANGED store

\* ProcessNewBlockHeaders and UpdatePeerStateForReceivedHeaders.
Store(p, h, full) ==
  /\ index' = [index EXCEPT ![h.chain] = Max({@, Top(h)})]
  /\ best' = IF Top(h) > index[best] THEN h.chain ELSE best
  /\ best_known' = [best_known EXCEPT ![p] = Max({@, Top(h)})]
  /\ conn' = IF ~full /\ best_known'[p] < MinimumWork /\ p \in Preferred
             THEN [conn EXCEPT ![p] = "closing"] ELSE conn

\* Mutant: whatever connects may be stored.
ValidatedConnected(p, h, success) == TRUE

\* already_validated_work: the sync vouches for the headers, they are known as
\* ancestors of the best header, or the peer is trusted.
Validated(p, h, success) ==
  success \/ (h.chain = best /\ Top(h) <= index[best]) \/ p \in noban

\* Mutant: a sync that asks for more does not send the request.
AskMoreNever(s, queue) == queue

\* The getheaders that IsContinuationOfLowWorkHeadersSync sends.
AskMore(s, queue) == IF s = NoSync THEN queue ELSE Append(queue, NextRequest(s))

\* IsContinuationOfLowWorkHeadersSync: what the peer's sync makes of the message;
\* the headers are then those it releases, or the message's own.
Continuation(p, m) ==
  IF m_headers_sync[p] = NoSync THEN Outcome(NoSync, FALSE, m)
  ELSE LET r == ProcessNextHeaders(m_headers_sync[p], m)
       IN IF r.success THEN r ELSE Outcome(r.sync, FALSE, m)

\* ProcessHeadersMessage for a message that is not empty; queue is what is on
\* its way to p when the message arrives.
ProcessHeadersMessage(p, m, queue) ==
  /\ conn[p] = "up"
  /\ \E r \in {Continuation(p, m)} :
     LET h == r.released
         asked == AskMore(r.sync, queue)
         is_recent == r.sync # NoSync \/ (~r.success /\ recent[p])
     IN \/ /\ h = None
           /\ SetSync(p, r.sync)
           /\ Requests(p, asked, is_recent)
           /\ UNCHANGED store
        \/ /\ h # None
           /\ h.from > index[h.chain]     \* HandleUnconnectingHeaders
           /\ SetSync(p, r.sync)
           /\ MaybeSendGetHeaders(p, asked, is_recent, BestLocator)
           /\ UNCHANGED store
        \/ /\ h # None
           /\ h.from <= index[h.chain]
           /\ ~Validated(p, h, r.success)
           /\ Top(h) < MinimumWork
           /\ LowWork(p, h, queue)
        \/ /\ h # None
           /\ h.from <= index[h.chain]
           /\ Validated(p, h, r.success) \/ Top(h) >= MinimumWork
           /\ SetSync(p, r.sync)
           /\ Store(p, h, Full(m))
           /\ IF Full(m) /\ r.sync = NoSync
                THEN MaybeSendGetHeaders(p, asked, FALSE, Top(h))
                ELSE Requests(p, asked, FALSE)
  /\ UNCHANGED << fSyncStarted, nSyncStarted, announced, inv_before, last_inv, noban >>

\* The message without headers.
EmptyHeaders(p, queue) ==
  /\ conn[p] = "up"
  /\ SetSync(p, NoSync)
  /\ Requests(p, queue, FALSE)
  /\ UNCHANGED << store, fSyncStarted, nSyncStarted, announced, inv_before, last_inv, noban >>

\* An honest peer answers the oldest request.
Answer(p) ==
  LET from == Head(request[p])
      n == Min({max_headers_result, Length[Main] - from})
  IN /\ p \in Honest
     /\ request[p] # << >>
     /\ IF n = 0 THEN EmptyHeaders(p, Tail(request[p]))
        ELSE \E m \in {Message(Main, from, n)} : ProcessHeadersMessage(p, m, Tail(request[p]))

\* The headers messages a peer may put together.
AnyHeaders ==
  {m \in [chain : Chain, from : 0..Max(Range(Length)), n : 1..max_headers_result] :
     Top(m) <= Length[m.chain]}

\* Any other peer sends what it likes.
Unsolicited(p) ==
  /\ p \notin Honest
  /\ \/ EmptyHeaders(p, << >>)
     \/ \E m \in AnyHeaders : ProcessHeadersMessage(p, m, << >>)

\* Time passes for any peer but an honest one that was asked: that one answers first.
MayBeSilent(p) == p \in Honest => request[p] = << >>

\* HEADERS_RESPONSE_TIME passes.
ResponseTimePasses(p) ==
  /\ MayBeSilent(p)
  /\ recent[p]
  /\ recent' = [recent EXCEPT ![p] = FALSE]
  /\ UNCHANGED << conn, m_headers_sync, request, stats, bestpeer, fSyncStarted, nSyncStarted,
                  announced, inv_before, last_inv, best_known, index, best, noban >>

-----------------------------------------------------------------------------
(* SendMessages, inv and disconnection.                                    *)

others == << m_headers_sync, stats, bestpeer, best_known, index, best >>

\* m_best_header is less than 24 hours old: the honest chain's last header is.
CloseToToday == best = Main /\ index[Main] = Length[Main]

MayStart == nSyncStarted = 0 \/ CloseToToday

\* The initial getheaders, from the block before m_best_header.
StartSync(p) ==
  /\ conn[p] = "up"
  /\ ~fSyncStarted[p]
  /\ MayStart
  /\ ~recent[p]
  /\ MaybeSendGetHeaders(p, IF p \in Honest THEN request[p] ELSE << >>, FALSE, Max({0, BestLocator - 1}))
  /\ fSyncStarted' = [fSyncStarted EXCEPT ![p] = TRUE]
  /\ nSyncStarted' = nSyncStarted + 1
  /\ UNCHANGED << conn, others, announced, inv_before, last_inv, noban >>

\* m_headers_sync_timeout passes: our only sync peer is disconnected if there is
\* another preferred one to use instead; a trusted one only loses its turn.
HeadersSyncTimeout(p) ==
  /\ MayBeSilent(p)
  /\ conn[p] = "up"
  /\ fSyncStarted[p]
  /\ ~CloseToToday
  /\ nSyncStarted = 1
  /\ \E q \in Preferred \ {p} : conn[q] # "gone"
  /\ IF p \in noban
       THEN /\ fSyncStarted' = [fSyncStarted EXCEPT ![p] = FALSE]
            /\ nSyncStarted' = nSyncStarted - 1
            /\ UNCHANGED conn
       ELSE /\ conn' = [conn EXCEPT ![p] = "closing"]
            /\ UNCHANGED << fSyncStarted, nSyncStarted >>
  /\ UNCHANGED << others, recent, request, announced, inv_before, last_inv, noban >>

\* A block announced by hash: the peer is asked for headers if it is a sync
\* peer, or as the one peer that this block adds to them.
Inv(p, b) ==
  /\ conn[p] = "up"
  /\ b \notin announced[p]
  /\ announced' = [announced EXCEPT ![p] = @ \union {b}]
  /\ IF fSyncStarted[p] \/ (~inv_before[p] /\ b # last_inv)
       THEN /\ MaybeSendGetHeaders(p, IF p \in Honest THEN request[p] ELSE << >>, recent[p], BestLocator)
            /\ inv_before' = IF fSyncStarted[p] THEN inv_before ELSE [inv_before EXCEPT ![p] = TRUE]
            /\ last_inv' = IF fSyncStarted[p] THEN last_inv ELSE b
       ELSE UNCHANGED << recent, request, inv_before, last_inv >>
  /\ UNCHANGED << conn, others, fSyncStarted, nSyncStarted, noban >>

\* A peer that is not honest goes away or is disconnected for misbehaving.
Disconnect(p) ==
  /\ p \notin Honest
  /\ conn[p] = "up"
  /\ conn' = [conn EXCEPT ![p] = "closing"]
  /\ UNCHANGED << others, recent, request, fSyncStarted, nSyncStarted, announced, inv_before, last_inv, noban >>

\* Mutant: the sync peer is not taken off the count.
SyncStartedKept(p) == nSyncStarted

SyncStartedWithout(p) == nSyncStarted - (IF fSyncStarted[p] THEN 1 ELSE 0)

FinalizeNode(p) ==
  /\ conn[p] = "closing"
  /\ conn' = [conn EXCEPT ![p] = "gone"]
  /\ nSyncStarted' = SyncStartedWithout(p)
  /\ fSyncStarted' = [fSyncStarted EXCEPT ![p] = FALSE]
  /\ m_headers_sync' = [m_headers_sync EXCEPT ![p] = NoSync]
  /\ stats' = Erase(stats, p)
  /\ recent' = [recent EXCEPT ![p] = FALSE]
  /\ best_known' = [best_known EXCEPT ![p] = 0]
  /\ UNCHANGED << request, bestpeer, announced, inv_before, last_inv, index, best, noban >>

Next == \E p \in Peer :
  \/ Answer(p)
  \/ Unsolicited(p)
  \/ ResponseTimePasses(p)
  \/ StartSync(p)
  \/ HeadersSyncTimeout(p)
  \/ \E b \in InvBlock : Inv(p, b)
  \/ Disconnect(p)
  \/ FinalizeNode(p)

Spec == Init /\ [][Next]_vars

\* Honest peers answer, closing connections are cleaned up and timeouts pass.
\* The message handler visits the peers in random order, so a peer that may
\* become the sync peer again and again becomes it.
FairSpec ==
  /\ Spec
  /\ \A p \in Honest : WF_vars(Answer(p)) /\ SF_vars(StartSync(p))
  /\ \A p \in Peer : WF_vars(FinalizeNode(p)) /\ WF_vars(HeadersSyncTimeout(p))

-----------------------------------------------------------------------------
(* Properties.                                                             *)

\* A sync releases no header before it was redownloaded, and redownloads none
\* that it did not see in its first phase while it is in progress.
Sync ==
  {s \in [phase : {"PRESYNC", "REDOWNLOAD"}, chain : Chain, start : Nat, cur : Nat, redl : Nat, out : Nat] :
     s.start <= s.out /\ s.out <= s.redl /\ s.redl <= s.cur}

\* Every variable keeps its type, the heights of a sync their order.
TypeOK ==
  /\ conn \in [Peer -> {"up", "closing", "gone"}]
  /\ m_headers_sync \in [Peer -> Sync \union {NoSync}]
  /\ recent \in [Peer -> BOOLEAN]
  /\ bestpeer \in Peer \union {-1}
  /\ nSyncStarted \in 0..Cardinality(Peer)
  /\ last_inv \in InvBlock \union {None}
  /\ best \in Chain
  /\ \A c \in Chain : index[c] \in 0..Length[c]

\* The statistics hold an entry for exactly the peers with a headers sync in
\* progress, with that sync's work and phase, through every end, failure and
\* restart of a sync and every disconnection.
StatsMatchSyncs ==
  /\ DOMAIN stats = {p \in Peer : m_headers_sync[p] # NoSync}
  /\ \A p \in DOMAIN stats : stats[p] = Stat(m_headers_sync[p])

\* A sync with an honest peer always has the request on its way that will bring
\* the headers it waits for ("It should be impossible for the getheaders
\* request to fail", net_processing.cpp:2735): no sync waits for nothing.
SyncFed == \A p \in Honest :
  m_headers_sync[p] # NoSync =>
    \E i \in 1..Len(request[p]) : request[p][i] = NextRequest(m_headers_sync[p])

\* Headers of a chain without enough work never reach the block index, unless
\* a trusted peer sent them.
WorkChecked == \A c \in Chain :
  Length[c] < MinimumWork /\ index[c] > 0 => \E p \in noban : best_known[p] > 0 \/ conn[p] = "gone"

\* m_headers_presync_bestpeer is "the peer with the most-work entry in
\* m_headers_presync_stats" (net_processing.cpp:890), whenever it has one.
BestPeerHasMostWork ==
  bestpeer \in DOMAIN stats => \A p \in DOMAIN stats : stats[p].work <= stats[bestpeer].work

\* With an honest peer connected the headers of its whole chain are stored in
\* the end, whatever the other peers send or leave out, unless one of its own
\* announcements makes the node ask it a second time before it has answered: the
\* answers then do not fit the sync, which is given up.
HonestChainStored ==
  <>(index[Main] = Length[Main] \/ \E p \in Honest : Len(request[p]) > 1)
=============================================================================
