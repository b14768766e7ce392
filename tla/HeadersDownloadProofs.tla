------------------------ MODULE HeadersDownloadProofs -----------------------
(***************************************************************************)
(* Proofs about HeadersDownload, for any number of peers, honest or not,   *)
(* any branches and any limits on messages and work.                       *)
(***************************************************************************)
EXTENDS HeadersDownload, TLAPS

-----------------------------------------------------------------------------
(* The inductive invariant.                                                *)

Types ==
  /\ conn \in [Peer -> {"up", "closing", "gone"}]
  /\ m_headers_sync \in [Peer -> Sync \cup {NoSync}]
  /\ request \in [Honest -> Seq(0 .. Length[Main])]
  /\ best_known \in [Peer -> Nat]
  /\ index \in [Chain -> Nat] /\ \A c \in Chain : index[c] <= Length[c]
  /\ best \in Chain
  /\ noban \subseteq Peer

\* A sync with peer p stays within its chain, which is the main one if p is honest,
\* and its second phase begins once the chain has shown the minimum work.
GoodSync(p, s) ==
  /\ s \in Sync
  /\ s.cur <= Length[s.chain]
  /\ s.phase = "REDOWNLOAD" => MinimumWork <= s.cur
  /\ p \in Honest => s.chain = Main

SyncInv == \A p \in Peer : m_headers_sync[p] # NoSync => GoodSync(p, m_headers_sync[p])

\* m_headers_presync_stats is a function of the syncs.
StatsInv ==
  stats = [p \in {q \in Peer : m_headers_sync[q] # NoSync} |-> Stat(m_headers_sync[p])]

IInv == Types /\ SyncInv /\ StatsInv /\ SyncFed /\ WorkChecked

-----------------------------------------------------------------------------
(* Operators.                                                              *)

LEMMA MaxOfTwo ==
  ASSUME NEW a \in Int, NEW b \in Int
  PROVE  Max({a, b}) \in {a, b} /\ Max({a, b}) >= a /\ Max({a, b}) >= b
<1>1. \E x \in {a, b} : \A y \in {a, b} : x >= y
  <2>1. CASE a >= b
    BY <2>1
  <2>2. CASE b >= a
    BY <2>2
  <2> QED BY <2>1, <2>2
<1> QED BY <1>1 DEF Max

LEMMA MinOfTwo ==
  ASSUME NEW a \in Int, NEW b \in Int
  PROVE  Min({a, b}) \in {a, b} /\ Min({a, b}) <= a /\ Min({a, b}) <= b
<1>1. \E x \in {a, b} : \A y \in {a, b} : x =< y
  <2>1. CASE a <= b
    BY <2>1
  <2>2. CASE b <= a
    BY <2>2
  <2> QED BY <2>1, <2>2
<1> QED BY <1>1 DEF Min

\* A headers message of peer p has at least one header, all of one branch, which is
\* the main one if p is honest.
GoodMessage(p, m) ==
  /\ m \in [chain : Chain, from : Nat, n : Nat \ {0}]
  /\ Top(m) <= Length[m.chain]
  /\ p \in Honest => m.chain = Main

LEMMA GoodMessageTop ==
  ASSUME NEW p, NEW m, GoodMessage(p, m)
  PROVE  Top(m) \in Nat /\ m.from \in Nat /\ m.from < Top(m) /\ Length[m.chain] \in Nat
BY HeadersDownloadAssumption DEF GoodMessage, Top

\* The first phase: a sync goes on within its chain or ends, and releases nothing.
LEMMA PresyncGood ==
  ASSUME NEW p, NEW s, GoodSync(p, s), s.phase = "PRESYNC", NEW m, GoodMessage(p, m)
  PROVE  LET r == Presync(s, m)
         IN /\ r.sync = NoSync \/ GoodSync(p, r.sync)
            /\ r.success \in BOOLEAN
            /\ ~r.success => r.sync = NoSync
            /\ r.released = None
            /\ m.chain = s.chain /\ m.from = s.cur /\ Full(m) => GoodSync(p, r.sync)
<1>1. /\ s \in Sync /\ Top(m) \in Nat /\ m.from \in Nat /\ m.from < Top(m)
      /\ MinimumWork \in Nat
  BY GoodMessageTop, HeadersDownloadAssumption DEF GoodSync
<1>2. CASE m.chain # s.chain \/ m.from # s.cur
  BY <1>2 DEF Presync, Outcome
<1>3. CASE ~(m.chain # s.chain \/ m.from # s.cur) /\ Top(m) >= MinimumWork
  <2> DEFINE t == Syncing("REDOWNLOAD", s.chain, s.start, Top(m), s.start, s.start)
  <2>1. /\ t \in [phase : {"PRESYNC", "REDOWNLOAD"}, chain : Chain, start : Nat, cur : Nat,
                  redl : Nat, out : Nat]
        /\ t.chain = s.chain /\ t.start = s.start /\ t.cur = Top(m)
        /\ t.redl = s.start /\ t.out = s.start
    BY <1>1 DEF Syncing, Sync
  <2>2. s.start <= Top(m) /\ s.start \in Nat
    BY <1>1, <1>3 DEF Sync
  <2>3. Presync(s, m) = Outcome(t, TRUE, None)
    BY <1>3 DEF Presync
  <2> HIDE DEF t
  <2>4. t \in Sync
    BY <2>1, <2>2 DEF Sync
  <2>5. GoodSync(p, t)
    BY <1>3, <2>1, <2>4 DEF GoodSync, GoodMessage
  <2> QED BY <2>3, <2>5 DEF Outcome
<1>4. CASE ~(m.chain # s.chain \/ m.from # s.cur) /\ ~(Top(m) >= MinimumWork) /\ Full(m)
  <2> DEFINE t == [s EXCEPT !.cur = Top(m)]
  <2>1. /\ t \in [phase : {"PRESYNC", "REDOWNLOAD"}, chain : Chain, start : Nat, cur : Nat,
                  redl : Nat, out : Nat]
        /\ t.chain = s.chain /\ t.start = s.start /\ t.cur = Top(m)
        /\ t.redl = s.redl /\ t.out = s.out /\ t.phase = "PRESYNC"
    BY <1>1 DEF Sync
  <2>2. Presync(s, m) = Outcome(t, TRUE, None)
    BY <1>4 DEF Presync
  <2> HIDE DEF t
  <2>3. t \in Sync
    BY <1>1, <1>4, <2>1 DEF Sync
  <2>4. GoodSync(p, t)
    BY <1>4, <2>1, <2>3 DEF GoodSync, GoodMessage
  <2> QED BY <2>2, <2>4 DEF Outcome
<1>5. CASE ~(m.chain # s.chain \/ m.from # s.cur) /\ ~(Top(m) >= MinimumWork) /\ ~Full(m)
  BY <1>5 DEF Presync, Outcome
<1> QED BY <1>2, <1>3, <1>4, <1>5

\* The second phase: what is released is of a chain that has enough work.
LEMMA RedownloadGood ==
  ASSUME NEW p, NEW s, GoodSync(p, s), s.phase = "REDOWNLOAD", NEW m, GoodMessage(p, m)
  PROVE  LET r == Redownload(s, m)
         IN /\ r.sync = NoSync \/ GoodSync(p, r.sync)
            /\ r.success \in BOOLEAN
            /\ ~r.success => r.sync = NoSync
            /\ r.released # None => /\ GoodMessage(p, r.released)
                                    /\ MinimumWork <= Length[r.released.chain]
<1> DEFINE ready == Ready(s, m)
           t == [s EXCEPT !.redl = Top(m), !.out = ready]
<1>1. /\ s \in Sync /\ Top(m) \in Nat /\ m.from \in Nat /\ m.from < Top(m)
      /\ MinimumWork \in Nat /\ BufferSize \in Nat /\ Length[s.chain] \in Nat
      /\ MinimumWork <= s.cur /\ s.cur <= Length[s.chain]
      /\ p \in Honest => s.chain = Main
  BY GoodMessageTop, HeadersDownloadAssumption DEF GoodSync, Sync
<1>2. CASE m.chain # s.chain \/ m.from # s.redl
  BY <1>2 DEF Redownload, Outcome
<1>3. CASE ~(m.chain # s.chain \/ m.from # s.redl)
  <2>1. s.out \in Nat /\ s.out <= Top(m) /\ s.chain \in Chain /\ s.start <= s.out /\ s.start \in Nat
    BY <1>1, <1>3 DEF Sync
  <2>2. ready \in Nat /\ s.out <= ready /\ ready <= Top(m)
    <3>1. Top(m) - BufferSize \in Int /\ Top(m) - BufferSize <= Top(m)
      BY <1>1
    <3> DEFINE most == Max({s.out, Top(m) - BufferSize})
    <3>2. most \in {s.out, Top(m) - BufferSize} /\ most >= s.out
      BY <2>1, <3>1, MaxOfTwo
    <3>3. ready = IF Top(m) >= MinimumWork THEN Top(m) ELSE most
      BY DEF Ready
    <3> HIDE DEF most, ready
    <3> QED BY <1>1, <2>1, <3>1, <3>2, <3>3
  <2>3. Redownload(s, m) = Outcome(IF Top(m) >= MinimumWork \/ ~Full(m) THEN NoSync ELSE t,
                                   TRUE, Released(s, ready))
    BY <1>3 DEF Redownload
  <2> HIDE DEF ready
  <2>4. ~(Top(m) >= MinimumWork) => GoodSync(p, t)
    <3>1. /\ t \in [phase : {"PRESYNC", "REDOWNLOAD"}, chain : Chain, start : Nat, cur : Nat,
                    redl : Nat, out : Nat]
          /\ t.chain = s.chain /\ t.start = s.start /\ t.cur = s.cur
          /\ t.redl = Top(m) /\ t.out = ready
      BY <1>1, <2>2, Zenon DEF Sync
    <3>2. s.cur \in Nat
      BY <1>1 DEF Sync
    <3> HIDE DEF t
    <3>3. ~(Top(m) >= MinimumWork) => t \in Sync
      BY <1>1, <2>1, <2>2, <3>1, <3>2 DEF Sync
    <3> QED BY <1>1, <3>1, <3>3 DEF GoodSync
  <2> HIDE DEF t
  <2>5. Released(s, ready) # None => /\ GoodMessage(p, Released(s, ready))
                                     /\ MinimumWork <= Length[Released(s, ready).chain]
    <3> DEFINE h == Message(s.chain, s.out, ready - s.out)
    <3> SUFFICES ASSUME ready > s.out
                 PROVE  GoodMessage(p, h) /\ MinimumWork <= Length[h.chain]
      BY <2>1, <2>2 DEF Released
    <3>1. h \in [chain : Chain, from : Nat, n : Nat \ {0}] /\ h.chain = s.chain
      BY <2>1, <2>2 DEF Message
    <3>2. Top(h) = ready
      BY <2>1, <2>2 DEF Message, Top
    <3>3. ready <= Length[s.chain]
      BY <1>1, <1>3, <2>2 DEF GoodMessage
    <3>4. MinimumWork <= Length[s.chain]
      BY <1>1 DEF Sync
    <3> HIDE DEF h
    <3> QED BY <1>1, <3>1, <3>2, <3>3, <3>4 DEF GoodMessage
  <2> QED BY <2>3, <2>4, <2>5 DEF Outcome
<1> QED BY <1>2, <1>3

\* What a message does to the peer's sync, and which headers it leaves to be stored.
LEMMA ContinuationGood ==
  ASSUME IInv, NEW p \in Peer, NEW m, GoodMessage(p, m)
  PROVE  LET r == Continuation(p, m)
         IN /\ r.sync = NoSync \/ GoodSync(p, r.sync)
            /\ r.success \in BOOLEAN
            /\ ~r.success => r.sync = NoSync
            /\ r.released # None => GoodMessage(p, r.released)
            /\ r.released # None /\ r.success => MinimumWork <= Length[r.released.chain]
<1>1. CASE m_headers_sync[p] = NoSync
  BY <1>1 DEF Continuation, Outcome
<1>2. CASE m_headers_sync[p] # NoSync
  <2> DEFINE s == m_headers_sync[p]
             r == ProcessNextHeaders(s, m)
  <2>1. GoodSync(p, s) /\ s.phase \in {"PRESYNC", "REDOWNLOAD"}
    BY <1>2 DEF IInv, SyncInv, GoodSync, Sync
  <2>2. Continuation(p, m) = IF r.success THEN r ELSE Outcome(r.sync, FALSE, m)
    BY <1>2 DEF Continuation
  <2>3. /\ r.sync = NoSync \/ GoodSync(p, r.sync)
        /\ r.success \in BOOLEAN
        /\ ~r.success => r.sync = NoSync
        /\ r.released # None => /\ GoodMessage(p, r.released)
                                /\ MinimumWork <= Length[r.released.chain]
    <3>1. CASE s.phase = "PRESYNC"
      <4>1. r = Presync(s, m)
        BY <3>1 DEF ProcessNextHeaders
      <4> HIDE DEF r, s
      <4> QED BY <2>1, <3>1, <4>1, PresyncGood
    <3>2. CASE s.phase = "REDOWNLOAD"
      <4>1. r = Redownload(s, m)
        BY <3>2 DEF ProcessNextHeaders
      <4> HIDE DEF r, s
      <4> QED BY <2>1, <3>2, <4>1, RedownloadGood
    <3> QED BY <2>1, <3>1, <3>2
  <2> HIDE DEF r
  <2>4. CASE r.success
    BY <2>2, <2>3, <2>4, Zenon
  <2>5. CASE ~r.success
    <3>1. Continuation(p, m) = [sync |-> r.sync, success |-> FALSE, released |-> m]
      BY <2>2, <2>5 DEF Outcome
    <3> QED BY <2>3, <2>5, <3>1
  <2> QED BY <2>3, <2>4, <2>5
<1> QED BY <1>1, <1>2

\* What a peer is asked next is a height of its chain.
LEMMA NextRequestType ==
  ASSUME NEW p \in Honest, NEW s, GoodSync(p, s)
  PROVE  NextRequest(s) \in 0 .. Length[Main]
<1>1. /\ s.cur \in Nat /\ s.redl \in Nat /\ s.redl <= s.cur /\ s.cur <= Length[Main]
      /\ Length[Main] \in Nat
  BY HeadersDownloadAssumption DEF GoodSync, Sync
<1> QED BY <1>1 DEF NextRequest

-----------------------------------------------------------------------------
(* The sync, the statistics and the requests of one peer.                  *)

\* SetSync changes the sync of one peer, and the statistics follow.
LEMMA SetSyncStep ==
  ASSUME IInv, NEW p \in Peer, NEW s, s = NoSync \/ GoodSync(p, s), SetSync(p, s)
  PROVE  /\ m_headers_sync' \in [Peer -> Sync \cup {NoSync}]
         /\ m_headers_sync'[p] = s
         /\ \A q \in Peer \ {p} : m_headers_sync'[q] = m_headers_sync[q]
         /\ SyncInv' /\ StatsInv'
<1>1. /\ m_headers_sync \in [Peer -> Sync \cup {NoSync}]
      /\ m_headers_sync' = [m_headers_sync EXCEPT ![p] = s]
  BY DEF IInv, Types, SetSync
<1>2. s \in Sync \cup {NoSync}
  BY DEF GoodSync
<1>3. /\ m_headers_sync' \in [Peer -> Sync \cup {NoSync}]
      /\ m_headers_sync'[p] = s
      /\ \A q \in Peer \ {p} : m_headers_sync'[q] = m_headers_sync[q]
  BY <1>1, <1>2
<1>4. SyncInv'
  BY <1>3 DEF IInv, SyncInv, GoodSync
<1>5. StatsInv'
  <2> DEFINE old == {q \in Peer : m_headers_sync[q] # NoSync}
             new == {q \in Peer : m_headers_sync'[q] # NoSync}
  <2>1. stats = [q \in old |-> Stat(m_headers_sync[q])]
    BY DEF IInv, StatsInv
  <2>2. DOMAIN stats = old /\ \A q \in old : stats[q] = Stat(m_headers_sync[q])
    BY <2>1
  <2>3. new = IF s # NoSync THEN old \cup {p} ELSE old \ {p}
    BY <1>3
  <2>4. \A q \in Peer \ {p} : Stat(m_headers_sync'[q]) = Stat(m_headers_sync[q])
    BY <1>3
  <2> SUFFICES stats' = [q \in new |-> Stat(m_headers_sync'[q])]
    BY DEF StatsInv
  <2>5. CASE s # NoSync
    <3>1. stats' = [q \in old \cup {p} |-> IF q = p THEN Stat(s) ELSE stats[q]]
      BY <2>2, <2>5 DEF SetSync, Insert
    <3>2. \A q \in old \cup {p} :
            (IF q = p THEN Stat(s) ELSE stats[q]) = Stat(m_headers_sync'[q])
      BY <1>3, <2>2, <2>4
    <3> QED BY <2>3, <2>5, <3>1, <3>2
  <2>6. CASE s = NoSync /\ m_headers_sync[p] = NoSync
    <3>1. stats' = stats /\ new = old /\ p \notin old
      BY <2>3, <2>6 DEF SetSync
    <3> QED BY <2>1, <2>4, <3>1
  <2>7. CASE s = NoSync /\ m_headers_sync[p] # NoSync
    <3>1. stats' = [q \in old \ {p} |-> stats[q]]
      BY <2>2, <2>7 DEF SetSync, Erase, Restrict
    <3>2. \A q \in old \ {p} : stats[q] = Stat(m_headers_sync'[q])
      BY <2>2, <2>4
    <3> QED BY <2>3, <2>7, <3>1, <3>2
  <2> QED BY <2>5, <2>6, <2>7
<1> QED BY <1>3, <1>4, <1>5

\* A message leaves the peer with sync s and the requests in queue.
LEMMA SyncStep ==
  ASSUME IInv, NEW p \in Peer, NEW s, s = NoSync \/ GoodSync(p, s), SetSync(p, s),
         NEW queue, NEW is_recent, Requests(p, queue, is_recent),
         p \in Honest => queue \in Seq(0 .. Length[Main]),
         p \in Honest /\ s # NoSync => \E i \in 1 .. Len(queue) : queue[i] = NextRequest(s)
  PROVE  /\ m_headers_sync' \in [Peer -> Sync \cup {NoSync}]
         /\ request' \in [Honest -> Seq(0 .. Length[Main])]
         /\ SyncInv' /\ StatsInv' /\ SyncFed'
<1>1. /\ m_headers_sync' \in [Peer -> Sync \cup {NoSync}]
      /\ m_headers_sync'[p] = s
      /\ \A q \in Peer \ {p} : m_headers_sync'[q] = m_headers_sync[q]
      /\ SyncInv' /\ StatsInv'
  BY SetSyncStep
<1>2. /\ request' \in [Honest -> Seq(0 .. Length[Main])]
      /\ p \in Honest => request'[p] = queue
      /\ \A q \in Honest \ {p} : request'[q] = request[q]
  BY DEF Requests, IInv, Types
<1>3. Honest \subseteq Peer
  BY HeadersDownloadAssumption
<1>4. SyncFed'
  <2> SUFFICES ASSUME NEW q \in Honest, m_headers_sync'[q] # NoSync
               PROVE  \E i \in 1 .. Len(request'[q]) :
                        request'[q][i] = NextRequest(m_headers_sync'[q])
    BY DEF SyncFed, NextRequest
  <2>1. CASE q = p
    BY <1>1, <1>2, <2>1
  <2>2. CASE q # p
    <3>1. m_headers_sync'[q] = m_headers_sync[q] /\ request'[q] = request[q]
      BY <1>1, <1>2, <1>3, <2>2
    <3> QED BY <3>1 DEF IInv, SyncFed
  <2> QED BY <2>1, <2>2
<1> QED BY <1>1, <1>2, <1>4

-----------------------------------------------------------------------------
(* The block index.                                                        *)

\* What is stored without enough work is already there, or a trusted peer sent it.
LEMMA StoreStep ==
  ASSUME IInv, NEW p \in Peer, NEW h, GoodMessage(p, h), NEW success, NEW full,
         success => MinimumWork <= Length[h.chain],
         Validated(p, h, success) \/ Top(h) >= MinimumWork,
         Store(p, h, full), UNCHANGED noban
  PROVE  /\ conn' \in [Peer -> {"up", "closing", "gone"}]
         /\ best_known' \in [Peer -> Nat]
         /\ index' \in [Chain -> Nat] /\ \A c \in Chain : index'[c] <= Length[c]
         /\ best' \in Chain
         /\ conn[p] = "up" => WorkChecked'
<1>1. /\ h.chain \in Chain /\ Top(h) \in Nat /\ Top(h) > 0 /\ Top(h) <= Length[h.chain]
      /\ Length \in [Chain -> Nat] /\ MinimumWork \in Nat
      /\ conn \in [Peer -> {"up", "closing", "gone"}] /\ best_known \in [Peer -> Nat]
      /\ index \in [Chain -> Nat] /\ \A c \in Chain : index[c] <= Length[c]
      /\ best \in Chain
  BY GoodMessageTop, HeadersDownloadAssumption DEF GoodMessage, IInv, Types
<1> DEFINE high == Max({index[h.chain], Top(h)})
           known == Max({best_known[p], Top(h)})
<1>2. high \in {index[h.chain], Top(h)} /\ high >= index[h.chain] /\ high >= Top(h)
  <2>1. index[h.chain] \in Int /\ Top(h) \in Int
    BY <1>1
  <2> QED BY <2>1, MaxOfTwo, Zenon
<1>3. known \in {best_known[p], Top(h)} /\ known >= best_known[p] /\ known >= Top(h)
  <2>1. best_known[p] \in Int /\ Top(h) \in Int
    BY <1>1
  <2> QED BY <2>1, MaxOfTwo, Zenon
<1>4. /\ index' = [index EXCEPT ![h.chain] = high]
      /\ best' = IF Top(h) > index[best] THEN h.chain ELSE best
      /\ best_known' = [best_known EXCEPT ![p] = known]
      /\ conn' = [conn EXCEPT ![p] = "closing"] \/ conn' = conn
  BY DEF Store
<1> HIDE DEF high, known
<1>5. /\ conn' \in [Peer -> {"up", "closing", "gone"}]
      /\ best_known' \in [Peer -> Nat]
      /\ best' \in Chain
  BY <1>1, <1>3, <1>4
<1>6. index' \in [Chain -> Nat] /\ \A c \in Chain : index'[c] <= Length[c]
  BY <1>1, <1>2, <1>4
<1>7. ASSUME conn[p] = "up"
      PROVE  WorkChecked'
  <2> SUFFICES ASSUME NEW c \in Chain, Length[c] < MinimumWork, index'[c] > 0
               PROVE  \E q \in noban : best_known'[q] > 0 \/ conn'[q] = "gone"
    BY DEF WorkChecked
  <2>1. CASE index[c] > 0
    <3>1. PICK q \in noban : best_known[q] > 0 \/ conn[q] = "gone"
      BY <2>1 DEF IInv, WorkChecked
    <3>2. q \in Peer
      BY DEF IInv, Types
    <3>3. best_known'[q] >= best_known[q] /\ (conn[q] = "gone" => conn'[q] = "gone")
      BY <1>1, <1>3, <1>4, <1>7, <3>2
    <3> QED BY <1>1, <1>5, <3>1, <3>2, <3>3
  <2>2. CASE ~(index[c] > 0)
    <3>1. c = h.chain /\ high = Top(h)
      BY <1>1, <1>2, <1>4, <2>2
    <3>2. ~(Top(h) >= MinimumWork) /\ ~success
      BY <1>1, <3>1
    <3>3. ~(h.chain = best /\ Top(h) <= index[best])
      BY <1>1, <2>2, <3>1
    <3>4. p \in noban
      BY <3>2, <3>3 DEF Validated
    <3>5. best_known'[p] > 0
      BY <1>1, <1>3, <1>4
    <3> QED BY <3>4, <3>5
  <2> QED BY <2>1, <2>2
<1> QED BY <1>5, <1>6, <1>7

\* The rest of the state while the index stays as it is.
LEMMA SameStore ==
  ASSUME IInv, UNCHANGED <<best_known, index, best, noban>>,
         conn' \in [Peer -> {"up", "closing", "gone"}],
         \A p \in Peer : conn[p] = "gone" => conn'[p] = "gone"
  PROVE  WorkChecked'
<1>1. noban \subseteq Peer
  BY DEF IInv, Types
<1> QED BY <1>1 DEF IInv, WorkChecked

-----------------------------------------------------------------------------
(* The actions.                                                            *)

USE DEF store, others

\* The tail of a queue, and a queue with one more request.
LEMMA QueueTypes ==
  ASSUME NEW queue \in Seq(0 .. Length[Main]), NEW from \in 0 .. Length[Main]
  PROVE  /\ Append(queue, from) \in Seq(0 .. Length[Main])
         /\ Len(Append(queue, from)) = Len(queue) + 1
         /\ \A i \in 1 .. Len(queue) : Append(queue, from)[i] = queue[i]
         /\ Append(queue, from)[Len(queue) + 1] = from
         /\ Len(queue) \in Nat
  OBVIOUS

\* The height of the best header is one of the main branch.
LEMMA BestLocatorType ==
  ASSUME IInv
  PROVE  BestLocator \in 0 .. Length[Main] /\ Max({0, BestLocator - 1}) \in 0 .. Length[Main]
<1>1. index[Main] \in Nat /\ index[Main] <= Length[Main] /\ Length[Main] \in Nat
  BY HeadersDownloadAssumption DEF IInv, Types
<1>2. BestLocator \in 0 .. Length[Main]
  BY <1>1 DEF BestLocator
<1>3. Max({0, BestLocator - 1}) \in {0, BestLocator - 1} /\ Max({0, BestLocator - 1}) >= 0
  <2>1. BestLocator - 1 \in Int
    BY <1>1, <1>2
  <2> QED BY <2>1, MaxOfTwo
<1> QED BY <1>1, <1>2, <1>3

\* A message without headers ends the sync.
LEMMA EmptyHeadersPreserves ==
  ASSUME IInv, NEW p \in Peer, NEW queue, p \in Honest => queue \in Seq(0 .. Length[Main]),
         EmptyHeaders(p, queue)
  PROVE  IInv'
<1>1. /\ m_headers_sync' \in [Peer -> Sync \cup {NoSync}]
      /\ request' \in [Honest -> Seq(0 .. Length[Main])]
      /\ SyncInv' /\ StatsInv' /\ SyncFed'
  BY SyncStep, Zenon DEF EmptyHeaders
<1>2. Types'
  BY <1>1 DEF IInv, Types, EmptyHeaders
<1>3. WorkChecked'
  BY DEF IInv, WorkChecked, EmptyHeaders
<1> QED BY <1>1, <1>2, <1>3 DEF IInv

\* The request of the sync that goes on is the last one sent.
LEMMA AskMoreFed ==
  ASSUME NEW p \in Honest, NEW s, s = NoSync \/ GoodSync(p, s),
         NEW queue \in Seq(0 .. Length[Main]), NEW from \in 0 .. Length[Main],
         NEW asked, asked = AskMore(s, queue) \/ asked = Append(AskMore(s, queue), from)
  PROVE  /\ asked \in Seq(0 .. Length[Main])
         /\ s # NoSync => \E i \in 1 .. Len(asked) : asked[i] = NextRequest(s)
<1>1. AskMore(s, queue) \in Seq(0 .. Length[Main])
  <2>1. CASE s = NoSync
    BY <2>1 DEF AskMore
  <2>2. CASE s # NoSync
    BY <2>2, NextRequestType, QueueTypes DEF AskMore
  <2> QED BY <2>1, <2>2
<1>2. asked \in Seq(0 .. Length[Main])
  BY <1>1, QueueTypes, Zenon
<1>3. ASSUME s # NoSync
      PROVE  \E i \in 1 .. Len(asked) : asked[i] = NextRequest(s)
  <2>1. NextRequest(s) \in 0 .. Length[Main] /\ AskMore(s, queue) = Append(queue, NextRequest(s))
    BY <1>3, NextRequestType DEF AskMore
  <2>2. /\ Len(AskMore(s, queue)) = Len(queue) + 1 /\ Len(queue) \in Nat
        /\ AskMore(s, queue)[Len(queue) + 1] = NextRequest(s)
    BY <2>1, QueueTypes
  <2>3. Len(asked) >= Len(queue) + 1 /\ asked[Len(queue) + 1] = NextRequest(s) /\ Len(asked) \in Nat
    <3>1. CASE asked = AskMore(s, queue)
      BY <2>2, <3>1
    <3>2. CASE asked = Append(AskMore(s, queue), from)
      BY <1>1, <2>2, <3>2, QueueTypes
    <3> QED BY <3>1, <3>2
  <2> QED BY <2>2, <2>3
<1> QED BY <1>2, <1>3

\* A message that leaves the peer with its sync, and perhaps one request more.
LEMMA ContinuedSync ==
  ASSUME IInv, NEW p \in Peer, NEW s, s = NoSync \/ GoodSync(p, s), SetSync(p, s),
         NEW queue, p \in Honest => queue \in Seq(0 .. Length[Main]),
         NEW from, p \in Honest => from \in 0 .. Length[Main], NEW is_recent,
         \/ Requests(p, AskMore(s, queue), is_recent)
         \/ Requests(p, Append(AskMore(s, queue), from), is_recent)
  PROVE  /\ m_headers_sync' \in [Peer -> Sync \cup {NoSync}]
         /\ request' \in [Honest -> Seq(0 .. Length[Main])]
         /\ SyncInv' /\ StatsInv' /\ SyncFed'
<1>1. PICK asked : /\ Requests(p, asked, is_recent)
                   /\ asked = AskMore(s, queue) \/ asked = Append(AskMore(s, queue), from)
  BY Zenon
<1>2. p \in Honest => /\ asked \in Seq(0 .. Length[Main])
                      /\ s # NoSync => \E i \in 1 .. Len(asked) : asked[i] = NextRequest(s)
  BY <1>1, AskMoreFed, Zenon
<1> QED BY <1>1, <1>2, SyncStep

\* TryLowWorkHeadersSync: a new sync begins with the request for its next headers.
LEMMA LowWorkStep ==
  ASSUME IInv, NEW p \in Peer, NEW h, GoodMessage(p, h),
         NEW queue, p \in Honest => queue \in Seq(0 .. Length[Main]), LowWork(p, h, queue)
  PROVE  /\ m_headers_sync' \in [Peer -> Sync \cup {NoSync}]
         /\ request' \in [Honest -> Seq(0 .. Length[Main])]
         /\ SyncInv' /\ StatsInv' /\ SyncFed'
<1>1. CASE ~Full(h)
  BY <1>1, SyncStep, Zenon DEF LowWork
<1>2. CASE Full(h)
  <2> DEFINE first == Syncing("PRESYNC", h.chain, h.from, h.from, h.from, h.from)
             s == Presync(first, h).sync
             asked == Append(queue, NextRequest(s))
  <2>1. GoodSync(p, first) /\ first.phase = "PRESYNC"
    <3>1. /\ h.chain \in Chain /\ h.from \in Nat /\ h.from <= Length[h.chain]
          /\ p \in Honest => h.chain = Main
      <4>1. h.chain \in Chain /\ Top(h) <= Length[h.chain] /\ (p \in Honest => h.chain = Main)
        BY DEF GoodMessage
      <4>2. Top(h) \in Nat /\ h.from \in Nat /\ h.from < Top(h) /\ Length[h.chain] \in Nat
        BY GoodMessageTop
      <4> QED BY <4>1, <4>2
    <3> QED BY <3>1 DEF GoodSync, Syncing, Sync
  <2>2. SetSync(p, s) /\ Requests(p, asked, TRUE)
    BY <1>2, Zenon DEF LowWork
  <2>3. GoodSync(p, s)
    <3>1. h.chain = first.chain /\ h.from = first.cur
      BY DEF Syncing
    <3> HIDE DEF first
    <3> QED BY <1>2, <2>1, <3>1, PresyncGood
  <2> HIDE DEF first, s
  <2>4. p \in Honest => /\ asked \in Seq(0 .. Length[Main])
                        /\ \E i \in 1 .. Len(asked) : asked[i] = NextRequest(s)
    <3> SUFFICES ASSUME p \in Honest
                 PROVE  /\ asked \in Seq(0 .. Length[Main])
                        /\ \E i \in 1 .. Len(asked) : asked[i] = NextRequest(s)
      OBVIOUS
    <3>1. NextRequest(s) \in 0 .. Length[Main]
      BY <2>3, NextRequestType
    <3>2. /\ asked \in Seq(0 .. Length[Main]) /\ Len(asked) = Len(queue) + 1
          /\ asked[Len(queue) + 1] = NextRequest(s) /\ Len(queue) \in Nat
      BY <3>1, QueueTypes
    <3> HIDE DEF asked
    <3> QED BY <3>2
  <2> HIDE DEF asked
  <2> QED BY <2>2, <2>3, <2>4, SyncStep, Zenon
<1> QED BY <1>1, <1>2

\* ProcessHeadersMessage for headers that are there.
LEMMA ProcessHeadersMessagePreserves ==
  ASSUME IInv, NEW p \in Peer, NEW m, GoodMessage(p, m),
         NEW queue, p \in Honest => queue \in Seq(0 .. Length[Main]),
         ProcessHeadersMessage(p, m, queue)
  PROVE  IInv'
<1> DEFINE r == Continuation(p, m)
           h == r.released
           asked == AskMore(r.sync, queue)
           is_recent == r.sync # NoSync \/ (~r.success /\ recent[p])
           Kept == /\ m_headers_sync' \in [Peer -> Sync \cup {NoSync}]
                   /\ request' \in [Honest -> Seq(0 .. Length[Main])]
                   /\ SyncInv' /\ StatsInv' /\ SyncFed'
<1>1. /\ r.sync = NoSync \/ GoodSync(p, r.sync)
      /\ ~r.success => r.sync = NoSync
      /\ h # None => GoodMessage(p, h)
      /\ h # None /\ r.success => MinimumWork <= Length[h.chain]
  BY ContinuationGood
<1>2. conn[p] = "up" /\ UNCHANGED noban
  BY Zenon DEF ProcessHeadersMessage
<1>3. \/ /\ h = None
         /\ SetSync(p, r.sync)
         /\ Requests(p, asked, is_recent)
         /\ UNCHANGED store
      \/ /\ h # None
         /\ SetSync(p, r.sync)
         /\ MaybeSendGetHeaders(p, asked, is_recent, BestLocator)
         /\ UNCHANGED store
      \/ /\ h # None
         /\ LowWork(p, h, queue)
      \/ /\ h # None
         /\ Validated(p, h, r.success) \/ Top(h) >= MinimumWork
         /\ SetSync(p, r.sync)
         /\ Store(p, h, Full(m))
         /\ \/ MaybeSendGetHeaders(p, asked, FALSE, Top(h))
            \/ Requests(p, asked, FALSE)
  BY Zenon DEF ProcessHeadersMessage
<1>4. BestLocator \in 0 .. Length[Main]
  BY BestLocatorType
<1> HIDE DEF r
<1>5. ASSUME Kept, UNCHANGED store
      PROVE  IInv'
  <2>1. WorkChecked'
    BY <1>2, <1>5, SameStore DEF IInv, Types
  <2>2. Types'
    BY <1>2, <1>5 DEF IInv, Types
  <2> QED BY <1>5, <2>1, <2>2 DEF IInv
<1>6. CASE /\ h = None
           /\ SetSync(p, r.sync)
           /\ Requests(p, asked, is_recent)
           /\ UNCHANGED store
  <2> HIDE DEF is_recent
  <2>1. Kept
    BY <1>1, <1>4, <1>6, ContinuedSync
  <2> QED BY <1>5, <1>6, <2>1
<1>7. CASE /\ h # None
           /\ SetSync(p, r.sync)
           /\ MaybeSendGetHeaders(p, asked, is_recent, BestLocator)
           /\ UNCHANGED store
  <2> HIDE DEF is_recent
  <2>1. Requests(p, asked, TRUE) \/ Requests(p, Append(asked, BestLocator), TRUE)
    BY <1>7, Zenon DEF MaybeSendGetHeaders
  <2>2. Kept
    BY <1>1, <1>4, <1>7, <2>1, ContinuedSync, Zenon
  <2> QED BY <1>5, <1>7, <2>2
<1>8. CASE h # None /\ LowWork(p, h, queue)
  <2>1. Kept
    BY <1>1, <1>8, LowWorkStep
  <2>2. UNCHANGED store
    BY <1>8 DEF LowWork
  <2> QED BY <1>5, <2>1, <2>2
<1>9. CASE /\ h # None
           /\ Validated(p, h, r.success) \/ Top(h) >= MinimumWork
           /\ SetSync(p, r.sync)
           /\ Store(p, h, Full(m))
           /\ \/ MaybeSendGetHeaders(p, asked, FALSE, Top(h))
              \/ Requests(p, asked, FALSE)
  <2>1. PICK late \in BOOLEAN :
          Requests(p, asked, late) \/ Requests(p, Append(asked, Top(h)), late)
    BY <1>9, Zenon DEF MaybeSendGetHeaders
  <2>2. p \in Honest => Top(h) \in 0 .. Length[Main]
    BY <1>1, <1>9, GoodMessageTop, HeadersDownloadAssumption DEF GoodMessage
  <2>3. Kept
    BY <1>1, <1>9, <2>1, <2>2, ContinuedSync, Zenon
  <2>4. /\ conn' \in [Peer -> {"up", "closing", "gone"}]
        /\ best_known' \in [Peer -> Nat]
        /\ index' \in [Chain -> Nat] /\ \A c \in Chain : index'[c] <= Length[c]
        /\ best' \in Chain
        /\ WorkChecked'
    <3>1. GoodMessage(p, h) /\ (r.success => MinimumWork <= Length[h.chain])
      BY <1>1, <1>9, Zenon
    <3> HIDE DEF h
    <3> QED BY <1>2, <1>9, <3>1, StoreStep, Zenon
  <2>5. Types'
    BY <1>2, <2>3, <2>4 DEF IInv, Types
  <2> QED BY <2>3, <2>4, <2>5 DEF IInv
<1> QED BY <1>3, <1>6, <1>7, <1>8, <1>9, Zenon

\* The first of the requests and the others.
LEMMA HeadTail ==
  ASSUME NEW S, NEW seq \in Seq(S), seq # << >>
  PROVE  Head(seq) \in S /\ Tail(seq) \in Seq(S)
<1>1. Len(seq) \in Nat \ {0} /\ Head(seq) = seq[1]
  OBVIOUS
<1>2. Tail(seq) \in Seq(S)
  BY <1>1
<1> QED BY <1>1, <1>2

\* An honest peer answers with the headers after the height it is asked from.
LEMMA AnswerPreserves ==
  ASSUME IInv, NEW p \in Peer, Answer(p)
  PROVE  IInv'
<1> DEFINE from == Head(request[p])
           left == Length[Main] - from
           n == Min({max_headers_result, left})
<1>1. p \in Honest /\ request[p] \in Seq(0 .. Length[Main]) /\ request[p] # << >>
  BY DEF Answer, IInv, Types
<1>2. from \in 0 .. Length[Main] /\ Tail(request[p]) \in Seq(0 .. Length[Main])
  BY <1>1, HeadTail, Zenon
<1>3. Length[Main] \in Nat /\ Main \in Chain /\ max_headers_result \in Nat \ {0}
  BY HeadersDownloadAssumption
<1> HIDE DEF from
<1>4. left \in Nat /\ n \in {max_headers_result, left} /\ n <= left
  <2>1. left \in Int /\ max_headers_result \in Int /\ left >= 0
    BY <1>2, <1>3
  <2> HIDE DEF left
  <2> QED BY <2>1, MinOfTwo
<1>5. \/ n = 0 /\ EmptyHeaders(p, Tail(request[p]))
      \/ n # 0 /\ ProcessHeadersMessage(p, Message(Main, from, n), Tail(request[p]))
  BY DEF Answer, from
<1>6. CASE n = 0 /\ EmptyHeaders(p, Tail(request[p]))
  BY <1>2, <1>6, EmptyHeadersPreserves
<1>7. CASE n # 0 /\ ProcessHeadersMessage(p, Message(Main, from, n), Tail(request[p]))
  <2>1. n \in Nat \ {0} /\ from + n <= Length[Main]
    BY <1>2, <1>3, <1>4, <1>7
  <2> HIDE DEF n
  <2>2. GoodMessage(p, Message(Main, from, n))
    BY <1>2, <1>3, <2>1 DEF GoodMessage, Message, Top
  <2> QED BY <1>2, <1>7, <2>2, ProcessHeadersMessagePreserves
<1> QED BY <1>5, <1>6, <1>7

\* Any other peer sends any headers that exist.
LEMMA UnsolicitedPreserves ==
  ASSUME IInv, NEW p \in Peer, Unsolicited(p)
  PROVE  IInv'
<1>1. p \notin Honest
  BY DEF Unsolicited
<1>2. CASE EmptyHeaders(p, << >>)
  BY <1>1, <1>2, EmptyHeadersPreserves
<1>3. ASSUME NEW m \in AnyHeaders, ProcessHeadersMessage(p, m, << >>)
      PROVE  IInv'
  <2>1. /\ m.chain \in Chain /\ m.from \in Nat /\ m.n \in Nat \ {0}
        /\ m = [chain |-> m.chain, from |-> m.from, n |-> m.n]
        /\ Top(m) <= Length[m.chain]
    BY HeadersDownloadAssumption DEF AnyHeaders
  <2>2. GoodMessage(p, m)
    BY <1>1, <2>1 DEF GoodMessage
  <2> QED BY <1>1, <1>3, <2>2, ProcessHeadersMessagePreserves
<1> QED BY <1>2, <1>3 DEF Unsolicited

\* A step that touches neither syncs nor the index: requests may be added.
LEMMA OtherStep ==
  ASSUME IInv, UNCHANGED <<m_headers_sync, stats, best_known, index, best, noban>>,
         conn' \in [Peer -> {"up", "closing", "gone"}],
         \A p \in Peer : conn[p] = "gone" => conn'[p] = "gone",
         request' \in [Honest -> Seq(0 .. Length[Main])],
         \A p \in Honest : \A i \in 1 .. Len(request[p]) :
           i \in 1 .. Len(request'[p]) /\ request'[p][i] = request[p][i]
  PROVE  IInv'
<1>1. Types'
  BY DEF IInv, Types
<1>2. SyncInv'
  BY DEF IInv, SyncInv
<1>3. StatsInv'
  BY DEF IInv, StatsInv
<1>4. SyncFed'
  <2> SUFFICES ASSUME NEW p \in Honest, m_headers_sync[p] # NoSync
               PROVE  \E i \in 1 .. Len(request'[p]) :
                        request'[p][i] = NextRequest(m_headers_sync[p])
    BY DEF SyncFed, NextRequest
  <2>1. PICK i \in 1 .. Len(request[p]) : request[p][i] = NextRequest(m_headers_sync[p])
    BY DEF IInv, SyncFed
  <2> QED BY <2>1
<1>5. WorkChecked'
  BY SameStore
<1> QED BY <1>1, <1>2, <1>3, <1>4, <1>5 DEF IInv

\* One more request on its way, or none.
LEMMA MaybeAsk ==
  ASSUME IInv, NEW p \in Peer, NEW from \in 0 .. Length[Main], NEW is_recent,
         MaybeSendGetHeaders(p, IF p \in Honest THEN request[p] ELSE << >>, is_recent, from)
  PROVE  /\ request' \in [Honest -> Seq(0 .. Length[Main])]
         /\ \A q \in Honest : \A i \in 1 .. Len(request[q]) :
              i \in 1 .. Len(request'[q]) /\ request'[q][i] = request[q][i]
<1>1. request \in [Honest -> Seq(0 .. Length[Main])]
  BY DEF IInv, Types
<1>2. CASE p \notin Honest \/ is_recent
  <2>1. request' = request
    <3>1. CASE p \notin Honest
      BY <3>1 DEF MaybeSendGetHeaders, Requests
    <3>2. CASE p \in Honest /\ is_recent
      <4>1. request' = [request EXCEPT ![p] = request[p]]
        BY <3>2 DEF MaybeSendGetHeaders, Requests
      <4> QED BY <1>1, <3>2, <4>1
    <3> QED BY <1>2, <3>1, <3>2
  <2> QED BY <1>1, <2>1
<1>3. CASE p \in Honest /\ ~is_recent
  <2>1. request' = [request EXCEPT ![p] = Append(request[p], from)]
    BY <1>3 DEF MaybeSendGetHeaders, Requests
  <2>2. /\ Append(request[p], from) \in Seq(0 .. Length[Main])
        /\ Len(Append(request[p], from)) = Len(request[p]) + 1
        /\ \A i \in 1 .. Len(request[p]) : Append(request[p], from)[i] = request[p][i]
        /\ Len(request[p]) \in Nat
    BY <1>1, <1>3, QueueTypes
  <2>3. request' \in [Honest -> Seq(0 .. Length[Main])]
    BY <1>1, <2>1, <2>2, Zenon
  <2>4. ASSUME NEW q \in Honest, NEW i \in 1 .. Len(request[q])
        PROVE  i \in 1 .. Len(request'[q]) /\ request'[q][i] = request[q][i]
    <3>1. CASE q = p
      <4>1. request'[p] = Append(request[p], from)
        BY <1>1, <1>3, <2>1
      <4> QED BY <2>2, <2>4, <3>1, <4>1
    <3>2. CASE q # p
      BY <1>1, <2>1, <2>4, <3>2
    <3> QED BY <3>1, <3>2
  <2> QED BY <2>3, <2>4
<1> QED BY <1>2, <1>3

LEMMA StartSyncPreserves ==
  ASSUME IInv, NEW p \in Peer, StartSync(p)
  PROVE  IInv'
<1>1. Max({0, BestLocator - 1}) \in 0 .. Length[Main]
  BY BestLocatorType
<1>2. /\ request' \in [Honest -> Seq(0 .. Length[Main])]
      /\ \A q \in Honest : \A i \in 1 .. Len(request[q]) :
           i \in 1 .. Len(request'[q]) /\ request'[q][i] = request[q][i]
  BY <1>1, MaybeAsk, Zenon DEF StartSync
<1> QED BY <1>2, OtherStep DEF StartSync, IInv, Types

LEMMA InvPreserves ==
  ASSUME IInv, NEW p \in Peer, NEW b, Inv(p, b)
  PROVE  IInv'
<1>1. BestLocator \in 0 .. Length[Main]
  BY BestLocatorType
<1>2. CASE MaybeSendGetHeaders(p, IF p \in Honest THEN request[p] ELSE << >>, recent[p], BestLocator)
  <2>1. /\ request' \in [Honest -> Seq(0 .. Length[Main])]
        /\ \A q \in Honest : \A i \in 1 .. Len(request[q]) :
             i \in 1 .. Len(request'[q]) /\ request'[q][i] = request[q][i]
    BY <1>1, <1>2, MaybeAsk
  <2> QED BY <2>1, OtherStep DEF Inv, IInv, Types
<1>3. CASE UNCHANGED request
  BY <1>3, OtherStep DEF Inv, IInv, Types
<1> QED BY <1>2, <1>3 DEF Inv

\* Timeouts and the begin of a disconnection leave requests and syncs alone.
LEMMA QuietStepPreserves ==
  ASSUME IInv, NEW p \in Peer,
         ResponseTimePasses(p) \/ HeadersSyncTimeout(p) \/ Disconnect(p)
  PROVE  IInv'
<1>1. UNCHANGED <<m_headers_sync, stats, best_known, index, best, noban, request>>
  BY DEF ResponseTimePasses, HeadersSyncTimeout, Disconnect
<1>2. conn' = conn \/ (conn[p] = "up" /\ conn' = [conn EXCEPT ![p] = "closing"])
  BY DEF ResponseTimePasses, HeadersSyncTimeout, Disconnect
<1>3. /\ conn' \in [Peer -> {"up", "closing", "gone"}]
      /\ \A q \in Peer : conn[q] = "gone" => conn'[q] = "gone"
  BY <1>2, Zenon DEF IInv, Types
<1> QED BY <1>1, <1>3, OtherStep DEF IInv, Types

\* FinalizeNode takes the peer's sync and its entry away.
LEMMA FinalizeNodePreserves ==
  ASSUME IInv, NEW p \in Peer, FinalizeNode(p)
  PROVE  IInv'
<1>1. /\ conn[p] = "closing" /\ conn' = [conn EXCEPT ![p] = "gone"]
      /\ m_headers_sync' = [m_headers_sync EXCEPT ![p] = NoSync]
      /\ stats' = Erase(stats, p)
      /\ best_known' = [best_known EXCEPT ![p] = 0]
      /\ UNCHANGED <<request, index, best, noban>>
  BY DEF FinalizeNode
<1>2. /\ m_headers_sync' \in [Peer -> Sync \cup {NoSync}]
      /\ m_headers_sync'[p] = NoSync
      /\ \A q \in Peer \ {p} : m_headers_sync'[q] = m_headers_sync[q]
  BY <1>1 DEF IInv, Types
<1>3. Types'
  BY <1>1, <1>2 DEF IInv, Types
<1>4. SyncInv'
  BY <1>2 DEF IInv, SyncInv
<1>5. StatsInv'
  <2> DEFINE old == {q \in Peer : m_headers_sync[q] # NoSync}
             new == {q \in Peer : m_headers_sync'[q] # NoSync}
  <2>1. DOMAIN stats = old /\ \A q \in old : stats[q] = Stat(m_headers_sync[q])
    BY DEF IInv, StatsInv
  <2>2. new = old \ {p}
    BY <1>2
  <2>3. stats' = [q \in old \ {p} |-> stats[q]]
    BY <1>1, <2>1 DEF Erase, Restrict
  <2>4. \A q \in old \ {p} : stats[q] = Stat(m_headers_sync'[q])
    BY <1>2, <2>1
  <2>5. stats' = [q \in new |-> Stat(m_headers_sync'[q])]
    BY <2>2, <2>3, <2>4
  <2> QED BY <2>5 DEF StatsInv
<1>6. SyncFed'
  <2> SUFFICES ASSUME NEW q \in Honest, m_headers_sync'[q] # NoSync
               PROVE  \E i \in 1 .. Len(request[q]) :
                        request[q][i] = NextRequest(m_headers_sync'[q])
    BY <1>1 DEF SyncFed, NextRequest
  <2>1. q # p /\ q \in Peer
    BY <1>2, HeadersDownloadAssumption
  <2>2. m_headers_sync'[q] = m_headers_sync[q]
    BY <1>2, <2>1
  <2> QED BY <2>2 DEF IInv, SyncFed
<1>7. WorkChecked'
  <2> SUFFICES ASSUME NEW c \in Chain, Length[c] < MinimumWork, index[c] > 0
               PROVE  \E q \in noban : best_known'[q] > 0 \/ conn'[q] = "gone"
    BY <1>1 DEF WorkChecked
  <2>1. PICK q \in noban : best_known[q] > 0 \/ conn[q] = "gone"
    BY DEF IInv, WorkChecked
  <2>2. q \in Peer /\ conn \in [Peer -> {"up", "closing", "gone"}] /\ best_known \in [Peer -> Nat]
    BY DEF IInv, Types
  <2>3. CASE q = p
    BY <1>1, <2>2, <2>3
  <2>4. CASE q # p
    BY <1>1, <2>1, <2>2, <2>4
  <2> QED BY <2>3, <2>4
<1> QED BY <1>3, <1>4, <1>5, <1>6, <1>7 DEF IInv

-----------------------------------------------------------------------------
(* The theorems.                                                           *)

LEMMA InitIInv ==
  ASSUME Init
  PROVE  IInv
<1>1. << >> \in Seq(0 .. Length[Main])
  OBVIOUS
<1>2. Types
  BY <1>1, HeadersDownloadAssumption DEF Init, Types
<1>3. SyncInv /\ SyncFed
  BY HeadersDownloadAssumption DEF Init, SyncInv, SyncFed
<1>4. StatsInv
  <2>1. {q \in Peer : m_headers_sync[q] # NoSync} = {}
    BY DEF Init
  <2>2. stats = [p \in {} |-> 0]
    BY DEF Init
  <2>3. stats = [p \in {} |-> Stat(m_headers_sync[p])]
    BY <2>2
  <2> QED BY <2>1, <2>3 DEF StatsInv
<1>5. WorkChecked
  BY DEF Init, WorkChecked
<1> QED BY <1>2, <1>3, <1>4, <1>5 DEF IInv

LEMMA NextIInv ==
  ASSUME IInv, [Next]_vars
  PROVE  IInv'
<1>1. CASE UNCHANGED vars
  <2>1. UNCHANGED <<m_headers_sync, stats, best_known, index, best, noban, request, conn>>
    BY <1>1 DEF vars
  <2> QED BY <2>1, OtherStep DEF IInv, Types
<1>2. CASE Next
  BY <1>2, AnswerPreserves, UnsolicitedPreserves, StartSyncPreserves, InvPreserves,
     QuietStepPreserves, FinalizeNodePreserves DEF Next
<1> QED BY <1>1, <1>2

THEOREM AlwaysIInv == Spec => []IInv
<1>1. Init => IInv
  BY InitIInv
<1>2. IInv /\ [Next]_vars => IInv'
  BY NextIInv
<1> QED BY <1>1, <1>2, PTL DEF Spec

\* m_headers_presync_stats has an entry for exactly the peers whose low-work sync is in
\* progress, with that sync's work and phase, whatever headers messages, timeouts and
\* disconnections come.
THEOREM AlwaysStatsMatchSyncs == Spec => []StatsMatchSyncs
<1>1. IInv => StatsMatchSyncs
  BY DEF IInv, StatsInv, StatsMatchSyncs
<1> QED BY <1>1, AlwaysIInv, PTL

\* A low-work sync with an honest peer never waits without a getheaders on its way that
\* brings the headers it goes on with.
THEOREM AlwaysSyncFed == Spec => []SyncFed
<1>1. IInv => SyncFed
  BY DEF IInv
<1> QED BY <1>1, AlwaysIInv, PTL

\* ProcessNewBlockHeaders stores no header of a branch without the minimum work unless
\* a peer with the noban permission sent it.
THEOREM AlwaysWorkChecked == Spec => []WorkChecked
<1>1. IInv => WorkChecked
  BY DEF IInv
<1> QED BY <1>1, AlwaysIInv, PTL
=============================================================================
