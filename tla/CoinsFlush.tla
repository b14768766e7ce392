----------------------------- MODULE CoinsFlush -----------------------------
(***************************************************************************)
(* The coins of a chainstate on their way to disk: blocks are connected    *)
(* and disconnected in the coins cache (CoinsTip), FlushStateToDisk writes *)
(* the block index and then the cache, CCoinsViewDB::BatchWrite splits the *)
(* cache over several database batches, and after a crash ReplayBlocks     *)
(* completes what was interrupted (validation.cpp, coins.cpp, txdb.cpp).   *)
(*                                                                         *)
(* The block index is written with a synced batch, the coins are not: a    *)
(* crash may also lose the latest batches of the coins database.           *)
(* The node is not pruned, so block and undo files stay.  cs_main is held  *)
(* throughout, and only a crash comes between the batches of a flush.      *)
(***************************************************************************)
EXTENDS CoinsView, Sequences

CONSTANTS
  Outpoint, Block, Genesis, Null,
  pprev,       \* the parent of each block; Null for Genesis
  nHeight,     \* the height of each block
  vtx,         \* what each block does to each outpoint
  Fetched,     \* bound: the outpoints that are looked up between blocks
  MaxFlushes,  \* bound: calls of FlushStateToDisk that write
  MaxCrashes,  \* bound: crashes
  MaxEvents,   \* bound: flushes and crashes together
  MaxLost      \* bound: unsynced batches that one crash can lose

VARIABLES
  phase,          \* where the node is: see Phase
  tip,            \* m_block_hash of the coins cache
  cache,          \* cacheCoins
  pindex,         \* the block that ReplayBlocks has come to
  todo,           \* the dirty outpoints that the flush has still to write
  m_block_index,  \* what the index knows of each block
  disk_index,     \* what the block index database holds
  undo,           \* the undo files
  dbs,            \* the coins database: its states, the latest one last
  flushes, crashes

memory == << phase, tip, cache, pindex, todo, m_block_index >>
vars == << memory, disk_index, undo, dbs, flushes, crashes >>

\* "flush" and "sync" are the two ways to write the cache; "rollback" and
\* "rollforward" are the loops of ReplayBlocks, "replay" is the flush at its end.
Phase == {"down", "loaded", "rollback", "rollforward", "replay", "replayed", "run",
          "flush", "sync", "failed"}
Knowledge == {"none", "data", "undo"}

\* The best block, or while a flush is not complete its new and its old tip.
Database == [coins : [Outpoint -> Nat], best : Block \union {Null},
             heads : {<< >>} \union (Block \X (Block \union {Null}))]

CoinsFlushAssumption ==
  /\ Fetched \subseteq Outpoint
  /\ Genesis \in Block /\ Null \notin Block
  /\ pprev \in [Block -> Block \union {Null}] /\ nHeight \in [Block -> Nat]
  /\ pprev[Genesis] = Null /\ nHeight[Genesis] = 0
  /\ \A b \in Block \ {Genesis} : pprev[b] \in Block /\ nHeight[b] = nHeight[pprev[b]] + 1
  /\ vtx \in [Block -> [Outpoint -> Effect]]
  /\ {MaxFlushes, MaxCrashes, MaxEvents, MaxLost} \subseteq Nat

ASSUME CoinsFlushAssumption

\* A block and its ancestors.
Ancestors[b \in Block] == IF b = Genesis THEN {Genesis} ELSE {b} \union Ancestors[pprev[b]]

NoCoins == [o \in Outpoint |-> NoCoin]

\* The unspent coins after a block, from the blocks alone.
Utxo[b \in Block] ==
  IF b = Genesis THEN NoCoins
  ELSE [o \in Outpoint |-> IF vtx[b][o].spent THEN NoCoin
                           ELSE IF vtx[b][o].made # "no" THEN nHeight[b]
                           ELSE Utxo[pprev[b]][o]]

UtxoAt(b) == IF b = Null THEN NoCoins ELSE Utxo[b]

\* ConnectBlock refuses every other block and drops its view: an outpoint is made
\* where there is none (BIP30), and spent where there is one (CheckTxInputs).
ValidBlocks ==
  \A b \in Block \ {Genesis} : \A o \in Outpoint :
    /\ vtx[b][o].made # "no" => Utxo[pprev[b]][o] = NoCoin
    /\ vtx[b][o].made = "no" /\ vtx[b][o].spent => Utxo[pprev[b]][o] # NoCoin

ASSUME ValidBlocks

-----------------------------------------------------------------------------
(* The coins database.                                                     *)

db == dbs[Len(dbs)]

EmptyCache == [o \in Outpoint |-> Absent]

Dirty(c) == {o \in Outpoint : c[o] # Absent /\ c[o].dirty}

Init ==
  /\ phase = "down"
  /\ tip = Null
  /\ cache = EmptyCache
  /\ pindex = Null
  /\ todo = {}
  /\ m_block_index = [b \in Block |-> "none"]
  /\ disk_index = [b \in Block |-> "none"]
  /\ undo = [b \in Block |-> NoCoins]
  /\ dbs = << [coins |-> NoCoins, best |-> Null, heads |-> << >>] >>
  /\ flushes = 0
  /\ crashes = 0

\* A batch is appended; what is too old can no longer be lost.
WriteBatch(d) ==
  LET all == Append(dbs, d)
  IN dbs' = SubSeq(all, IF Len(all) > MaxLost + 1 THEN Len(all) - MaxLost ELSE 1, Len(all))

\* The dirty coins of S as the batch writes (or erases) them.
Written(S) == [o \in Outpoint |-> IF o \in S THEN cache[o].coin ELSE db.coins[o]]

\* Mutant: the batches keep the old best block until the last one.
HeadsKeepBest == [best |-> db.best, heads |-> << >>]

\* Erase(DB_BEST_BLOCK), Write(DB_HEAD_BLOCKS): from old_tip to the new one.
Heads == [best |-> Null,
          heads |-> << tip, IF db.best = Null /\ db.heads # << >> THEN db.heads[2] ELSE db.best >>]

\* Mutant: the coins left in the cache keep their flags.
SyncedDirty(e) == IF e = Absent \/ e.coin = NoCoin THEN Absent ELSE e

\* NextAndMaybeErase when the cache is not erased.
Synced(e) == IF e = Absent \/ e.coin = NoCoin THEN Absent ELSE Entry(e.coin, FALSE, FALSE)

BatchWritePartial(S) ==
  /\ phase \in {"flush", "sync", "replay"}
  /\ S \subseteq todo
  /\ S # {}
  /\ WriteBatch([coins |-> Written(S), best |-> Heads.best, heads |-> Heads.heads])
  /\ todo' = todo \ S
  /\ UNCHANGED << phase, tip, cache, pindex, m_block_index, disk_index, undo, flushes, crashes >>

BatchWriteLast ==
  /\ phase \in {"flush", "sync", "replay"}
  /\ WriteBatch([coins |-> Written(todo), best |-> tip, heads |-> << >>])
  /\ todo' = {}
  /\ cache' = IF phase = "sync" THEN [o \in Outpoint |-> Synced(cache[o])] ELSE EmptyCache
  /\ phase' = IF phase = "replay" THEN "replayed" ELSE "run"
  /\ UNCHANGED << tip, pindex, m_block_index, disk_index, undo, flushes, crashes >>

-----------------------------------------------------------------------------
(* The running node.                                                       *)

\* The data of a block whose header is known is stored (AcceptBlock).
AcceptBlock(b) ==
  /\ phase = "run"
  /\ m_block_index[b] = "none"
  /\ m_block_index[pprev[b]] # "none"
  /\ m_block_index' = [m_block_index EXCEPT ![b] = "data"]
  /\ UNCHANGED << phase, tip, cache, pindex, todo, disk_index, undo, dbs, flushes, crashes >>

\* The outcome of a child view that is flushed into the cache.
Flushed(child, block) ==
  LET merged == [o \in Outpoint |-> BatchWrite(cache[o], child[o])]
  IN IF \E o \in Outpoint : merged[o] = Thrown
       THEN phase' = "failed" /\ UNCHANGED << tip, cache >>
       ELSE phase' = phase /\ tip' = block /\ cache' = merged

InView(o) == GetCoin(cache[o], db.coins[o])

\* ConnectTip: ConnectBlock in a view over the cache, with its undo data
\* written once; the genesis block only becomes the best block.
ConnectTip(b) ==
  /\ phase = "run"
  /\ pprev[b] = tip
  /\ m_block_index[b] # "none"
  /\ IF b = Genesis
       THEN Flushed(EmptyCache, b) /\ UNCHANGED << m_block_index, undo >>
       ELSE /\ Flushed([o \in Outpoint |-> ConnectBlock(vtx[b][o], InView(o), nHeight[b])], b)
            /\ m_block_index' = [m_block_index EXCEPT ![b] = "undo"]
            /\ undo' = IF m_block_index[b] = "undo" THEN undo
                       ELSE [undo EXCEPT ![b] =
                               [o \in Outpoint |-> UndoCoin(vtx[b][o], InView(o), nHeight[b])]]
  /\ UNCHANGED << pindex, todo, disk_index, dbs, flushes, crashes >>

\* The block's undo data can be read, and the view holds what the block left.
CanDisconnect(b) ==
  /\ m_block_index[b] = "undo"
  /\ \A o \in Outpoint : DisconnectClean(vtx[b][o], InView(o), nHeight[b])

\* DisconnectTip: what its lookups fetch into the cache, the merge overwrites.
DisconnectTip ==
  /\ phase = "run"
  /\ tip \notin {Null, Genesis}
  /\ IF CanDisconnect(tip)
       THEN Flushed([o \in Outpoint |->
                       DisconnectBlock(Absent, vtx[tip][o], InView(o), undo[tip][o])], pprev[tip])
       ELSE phase' = "failed" /\ UNCHANGED << tip, cache >>
  /\ UNCHANGED << pindex, todo, m_block_index, disk_index, undo, dbs, flushes, crashes >>

\* Uncache, and the coins a reader fetches: clean entries come and go.
ReadCoin(o) ==
  /\ phase = "run"
  /\ cache' = [cache EXCEPT ![o] = FetchCoin(cache[o], db.coins[o])]
  /\ UNCHANGED << phase, tip, pindex, todo, m_block_index, disk_index, undo, dbs, flushes,
                  crashes >>

Uncache(o) ==
  /\ phase = "run"
  /\ cache[o] # Absent
  /\ ~cache[o].dirty
  /\ cache' = [cache EXCEPT ![o] = Absent]
  /\ UNCHANGED << phase, tip, pindex, todo, m_block_index, disk_index, undo, dbs, flushes,
                  crashes >>

WriteBlockIndexDB == disk_index' = m_block_index

\* FlushStateToDisk that writes: the index now, the coins in the batches to
\* come, unless nothing was connected yet.
FlushStateToDisk(empty_cache) ==
  /\ phase = "run"
  /\ flushes < MaxFlushes
  /\ flushes + crashes < MaxEvents
  /\ flushes' = flushes + 1
  /\ WriteBlockIndexDB
  /\ IF tip = Null
       THEN UNCHANGED << phase, todo >>
       ELSE /\ phase' = IF empty_cache THEN "flush" ELSE "sync"
            /\ todo' = Dirty(cache)
  /\ UNCHANGED << tip, cache, pindex, m_block_index, undo, dbs, crashes >>

-----------------------------------------------------------------------------
(* Crash and start-up.                                                     *)

\* The process ends, and the coins database may lose its latest batches.
Crash(n) ==
  /\ crashes < MaxCrashes
  /\ flushes + crashes < MaxEvents
  /\ crashes' = crashes + 1
  /\ phase # "failed"
  /\ n \in 1..Len(dbs)
  /\ dbs' = SubSeq(dbs, 1, n)
  /\ phase' = "down"
  /\ tip' = Null
  /\ cache' = EmptyCache
  /\ pindex' = Null
  /\ todo' = {}
  /\ m_block_index' = [b \in Block |-> "none"]
  /\ UNCHANGED << disk_index, undo, flushes >>

\* LoadBlockIndex, and LoadGenesisBlock where the index has no genesis block.
LoadBlockIndex ==
  /\ phase = "down"
  /\ phase' = "loaded"
  /\ m_block_index' = IF disk_index[Genesis] # "none" THEN disk_index
                      ELSE [disk_index EXCEPT ![Genesis] = "data"]
  /\ UNCHANGED << tip, cache, pindex, todo, disk_index, undo, dbs, flushes, crashes >>

Known(b) == m_block_index[b] # "none"

LastCommonAncestor(a, b) ==
  CHOOSE c \in Ancestors[a] \cap Ancestors[b] :
    \A d \in Ancestors[a] \cap Ancestors[b] : nHeight[d] <= nHeight[c]

GetAncestor(b, height) == CHOOSE a \in Ancestors[b] : nHeight[a] = height

\* The tips of the interrupted flush; the old one is Null in the first flush.
pindexNew == db.heads[1]
pindexOld == db.heads[2]
pindexFork == IF pindexOld = Null THEN Null ELSE LastCommonAncestor(pindexOld, pindexNew)

\* ReplayBlocks up to its loops, which work in a cache of their own.
ReplayBlocks ==
  /\ phase = "loaded"
  /\ IF db.heads = << >>
       THEN phase' = "replayed" /\ UNCHANGED pindex
       ELSE IF Known(pindexNew) /\ (pindexOld = Null \/ Known(pindexOld))
       THEN phase' = "rollback" /\ pindex' = pindexOld
       ELSE phase' = "failed" /\ UNCHANGED pindex
  /\ UNCHANGED << tip, cache, todo, m_block_index, disk_index, undo, dbs, flushes, crashes >>

\* A pass of a loop: the files of the block can be read, and nothing is thrown.
Rolled(readable, entries, block) ==
  IF readable /\ \A o \in Outpoint : entries[o] # Thrown
    THEN cache' = entries /\ pindex' = block /\ UNCHANGED phase
    ELSE phase' = "failed" /\ UNCHANGED << cache, pindex >>

\* A block of the old branch is undone; it may never have been applied in full.
\* The fork is at or above the genesis block.
RollbackBlock ==
  /\ phase = "rollback"
  /\ pindex # pindexFork
  /\ Rolled(m_block_index[pindex] = "undo",
            [o \in Outpoint |->
               DisconnectBlock(cache[o], vtx[pindex][o], db.coins[o], undo[pindex][o])],
            pprev[pindex])
  /\ UNCHANGED << tip, todo, m_block_index, disk_index, undo, dbs, flushes, crashes >>

\* nForkHeight is 0 without an old tip.
RolledBack ==
  /\ phase = "rollback"
  /\ pindex = pindexFork
  /\ phase' = "rollforward"
  /\ pindex' = IF pindexFork = Null THEN Genesis ELSE pindexFork
  /\ UNCHANGED << tip, cache, todo, m_block_index, disk_index, undo, dbs, flushes, crashes >>

RollforwardNext ==
  /\ phase = "rollforward"
  /\ nHeight[pindex] < nHeight[pindexNew]
  /\ LET b == GetAncestor(pindexNew, nHeight[pindex] + 1)
     IN Rolled(Known(b),
               [o \in Outpoint |->
                  RollforwardBlock(cache[o], vtx[b][o], db.coins[o], nHeight[b])],
               b)
  /\ UNCHANGED << tip, todo, m_block_index, disk_index, undo, dbs, flushes, crashes >>

\* SetBestBlock and Flush of the cache.
RolledForward ==
  /\ phase = "rollforward"
  /\ nHeight[pindex] >= nHeight[pindexNew]
  /\ phase' = "replay"
  /\ tip' = pindexNew
  /\ todo' = Dirty(cache)
  /\ pindex' = Null
  /\ UNCHANGED << cache, m_block_index, disk_index, undo, dbs, flushes, crashes >>

\* Mutant: a database without a best block makes start-up begin again.
LoadChainTipAgain ==
  /\ phase = "replayed"
  /\ phase' = IF db.best # Null /\ Known(db.best) THEN "run" ELSE "down"
  /\ tip' = db.best
  /\ UNCHANGED << cache, pindex, todo, m_block_index, disk_index, undo, dbs, flushes, crashes >>

\* InitCoinsCache, and LoadChainTip unless the coins view is empty.
LoadChainTip ==
  /\ phase = "replayed"
  /\ phase' = IF db.best = Null \/ Known(db.best) THEN "run" ELSE "failed"
  /\ tip' = db.best
  /\ UNCHANGED << cache, pindex, todo, m_block_index, disk_index, undo, dbs, flushes, crashes >>

Batches == (\E S \in SUBSET todo : BatchWritePartial(S)) \/ BatchWriteLast

Replay == ReplayBlocks \/ RollbackBlock \/ RolledBack \/ RollforwardNext \/ RolledForward

Startup == LoadBlockIndex \/ Replay \/ LoadChainTip

Next ==
  \/ \E b \in Block \ {Genesis} : AcceptBlock(b)
  \/ \E b \in Block : ConnectTip(b)
  \/ DisconnectTip
  \/ \E o \in Fetched : ReadCoin(o) \/ Uncache(o)
  \/ \E empty_cache \in BOOLEAN : FlushStateToDisk(empty_cache)
  \/ Batches
  \/ \E n \in 1..(MaxLost + 1) : Crash(n)
  \/ Startup

Spec == Init /\ [][Next]_vars

\* A start-up and a flush that are not cut short by a crash go on.
FairSpec == Spec /\ WF_vars(Startup) /\ WF_vars(Batches)

-----------------------------------------------------------------------------
(* Properties.                                                             *)

\* The states of an entry that coins.h allows: unspent and FRESH and DIRTY,
\* unspent and DIRTY, unspent and clean, or spent and DIRTY.
Allowed(e) ==
  e # Absent => (e.fresh => e.dirty) /\ (e.coin = NoCoin => e.dirty /\ ~e.fresh)

\* Every variable keeps its type, and so does every entry of the cache.
TypeOK ==
  /\ phase \in Phase
  /\ {tip, pindex} \subseteq Block \union {Null}
  /\ cache \in [Outpoint -> CacheEntry \union {Absent}]
  /\ \A o \in Outpoint : Allowed(cache[o])
  /\ todo \subseteq Dirty(cache)
  /\ m_block_index \in [Block -> Knowledge]
  /\ disk_index \in [Block -> Knowledge]
  /\ undo \in [Block -> [Outpoint -> Nat]]
  /\ dbs \in Seq(Database) /\ Len(dbs) \in 1..(MaxLost + 1)
  /\ flushes \in 0..MaxFlushes
  /\ crashes \in 0..MaxCrashes

\* The cache over the database is the set of unspent coins of the tip, in the
\* middle of a flush and after any reorganisation, flush and replay: no DIRTY
\* or FRESH flag ever makes a flush drop a spent or an added coin.
ViewExact ==
  phase \in {"run", "flush", "sync"} => \A o \in Outpoint : InView(o) = UtxoAt(tip)[o]

\* A coin is FRESH in the cache of a running node only if the database has no
\* unspent version of it (coins.h: FRESH means the parent cache does not have
\* this entry or that it is a spent entry).
FreshMeansUnknown ==
  phase = "run" => \A o \in Outpoint :
    cache[o] # Absent /\ cache[o].fresh => db.coins[o] = NoCoin

\* The node never has to give up: ReplayBlocks, LoadChainTip, DisconnectTip
\* and the coins cache never fail or throw, whatever batches a crash lost, a
\* crash in the middle of a replay included, and the database's assertion on
\* the heads of an interrupted flush holds.
NeverStuck ==
  /\ phase # "failed"
  /\ phase \in {"flush", "sync", "replay"} /\ db.heads # << >> => db.heads[1] = tip

\* Where start-up will take the tip, from what a database holds.
Recovered(d) == IF d.heads # << >> THEN d.heads[1] ELSE d.best

Up == phase \in {"run", "flush", "sync"}

Linked(a, b) == (b \in Block /\ pprev[b] = a) \/ (a \in Block /\ pprev[a] = b)

Store == INSTANCE CoinsStore WITH
  tip <- IF Up THEN tip ELSE Recovered(db),
  coins <- IF Up THEN [o \in Outpoint |-> InView(o)] ELSE UtxoAt(Recovered(db)),
  saved <- {Recovered(dbs[i]) : i \in 1..Len(dbs)}

\* The cache, the batches, the crashes and the replay together implement a
\* store whose coins are always those of one tip (CoinsStore).
CrashSafe == Store!Spec

\* A node that went down comes up again, unless it crashes for ever.
ComesUp == (phase = "down") ~> (phase = "run")
=============================================================================
