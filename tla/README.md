# A TLA+ model of Sharecoin

Sharecoin is a fork of Bitcoin Core. It replaces the proof of work by ProgPoW,
the retargeting by LWMA (a linearly weighted moving average), adds RPCs for GPU
miners, and derives a randomness beacon from the chain. This directory models
the parts of `src/bitcoin-source/src` in which order, concurrency or arithmetic
decide whether the node is right. Paths to code below are relative to it.

## Inventory

| Part | State | Operations | What makes it hard |
|---|---|---|---|
| Headers sync (`headerssync.cpp`) | phase, commitment bits, buffer of compressed headers, work | `ProcessNextHeaders`, `Finalize` | a peer may serve another chain the second time; two queues must stay aligned; memory is limited |
| Headers messages (`net_processing.cpp`) | one `m_headers_sync` per peer | `ProcessHeadersMessage`, `TryLowWorkHeadersSync` | several peers, timeouts, unanswered requests |
| Retargeting (`pow.cpp`, `arith_uint256.cpp`) | the chain's times and nBits | `GetNextWorkRequired`, `LwmaCalculateNextWorkRequired` | negative solvetimes, unsigned 256-bit products, compact rounding |
| Proof of work (`pow.cpp`, `crypto/ethash`) | epoch contexts, shared and per thread | `CheckProgPowHash`, `update_local_context` | several verifying threads at an epoch boundary |
| Mining RPCs (`rpc/mining.cpp`) | template cache, map of templates, payout script | `getblocktemplate`, `submitblock`, `pprpcsb`, `setprogpowminingaddress` | long polls release `cs_main`; two globals have no common lock |
| Mining waits and CPU mining (`node/miner.cpp`, `pow.cpp`) | interrupt flag, nonce budget | `WaitTipChanged`, `WaitAndCreateNewBlock`, `MineBlock` | one flag, several waiters; a budget shared by blocks |
| Block index and chain selection (`validation.cpp`) | index, candidates, unlinked blocks, best header, tip | `AcceptBlock`, `ActivateBestChain`, `InvalidateBlock`, `PreciousBlock`, `ReconsiderBlock` | `cs_main` is released between steps; reorganisations fail half way |
| Flush and restart (`validation.cpp`, `txdb.cpp`) | index, coins, head blocks on disk | `FlushStateToDisk`, `ReplayBlocks`, `LoadChainTip` | a crash between two writes |
| Script check queue (`checkqueue.h`) | queue, counts, result, sleeping threads | `Add`, `Complete`, `Loop`, the destructor | workers and master share counters and notifications |
| Beacon (`rpc/mining.cpp`, `src/docs/BEACON-SPEC.md`) | none of its own | `getrandombeacon` | windows near the tip may be reorganised; `int` arithmetic on heights |
| Block assembly, mempool, scripts, transport, wallet, GUI, libraries | | | mostly untouched by the patch scripts of the fork; see `PROJECT.json` |

The parts meet in few places. Headers that the sync releases go to
`AcceptBlockHeader`; its blocks go to `AcceptBlock` and `ActivateBestChain`;
both ask the retargeting for the required nBits. A new tip wakes long polls,
and a solved template comes back as a block through `ProcessNewBlock`. The
beacon reads the active chain. `PROJECT.json` lists every part, and the hazards
of each one at the line where it bites.

## Modules

**HeadersSync** is the object one peer's download lives in. Its variables are
the fields of `HeadersSyncState`, `pc` and the unread part of the message, and
history variables no action reads. A hash is the sequence of header bodies from
the chain start, so equal hashes mean equal chains. The salted hasher is an
arbitrary operator. `ProcessNextHeaders` takes any message the peer may send,
and each iteration of its loops is a step.
`PermittedDifficultyTransition` allows every transition in this fork, so it is
no guard.

**Lwma** grows a chain. `GetNextWorkRequired` starts a computation, `LwmaStep` is
one iteration of the loop, `LwmaFinish` the floor, the product and the cap.
`AcceptBlock` adds a block with any time that the median-time and time-warp rules
allow. `arith_uint256` is an integer modulo `2^Width`, and `SetCompact` and
`GetCompact` are translated with their rounding and sign bit.

**MiningRpc** runs the RPCs in several threads beside a network thread.
`getblocktemplate` is cut where it releases or takes `cs_main`, where it builds
and where it inserts. `pprpcsb` looks a template up without a lock: a lookup that
overlaps an insertion may miss. A payout script read or written during another
assignment may be torn. Validation is cut into accept, activate and answer,
so that another thread may connect the submitted block in between.

**ChainSelection** has a constant tree of blocks and the part of it the node
knows. Each action is one section under `cs_main`. `ActivateBestChain` finds,
disconnects and connects in separate steps, `InvalidateBlock` disconnects one tip
per step; `m_chainstate_mutex` excludes one from the other. A block may fail
`ContextualCheckBlock` (`BadBlock`) or `ConnectBlock` (`BadConnect`).

**HeadersDownload** is the peer manager around it: `ProcessHeadersMessage`, the
throttled `getheaders`, the choice of a sync peer and its timeout, invs,
`FinalizeNode`, and the statistics of the syncs. A chain is a branch and a height,
and a sync (`m_headers_sync`) is reduced to its phase and heights. It takes from
HeadersSync that commitments tell two chains apart. Honest peers answer from
`Main`; the others send anything, or nothing. One handler is one step, since one
thread handles messages.

**CoinsFlush** connects and disconnects blocks in the coins cache and takes the
cache to disk. **CoinsView** has the operations on one entry with its `DIRTY` and
`FRESH` flags. `FlushStateToDisk` writes the block index, then the cache in
batches, with the two heads as marks; a crash may come between any two writes and
loses up to `MaxLost` of the latest coins batches, which are not synced (LevelDB is
external). `LoadBlockIndex`, `ReplayBlocks` and `LoadChainTip` bring the node up
again; each pass of the two loops of `ReplayBlocks` is a step, and so is each batch of
the flush at its end. A block is an effect on each outpoint: whether it makes it, by a
transaction or by its coinbase, and whether it then spends it. `ValidBlocks` keeps to
blocks that `ConnectBlock` does not refuse: an outpoint is made only where there is no
coin, and spent only where there is one. **CoinsStore** is the abstract specification: coins always belong to one tip,
and a crash goes back to a tip that was saved.

**CheckQueue** has workers, masters and the destructor. What happens under
`m_mutex` is one step; a wait ends a step, and a thread may wake for no reason.
**CheckVerdict** is the abstract specification: `Complete` gives the verdict on the
checks of its own control.

**EpochContext** has the shared and the thread-local epoch contexts of
`managed.cpp`. A `shared_ptr` is an address, an address is free once nothing
points to it, and a thread computes with a plain pointer after the call returned.

**MiningWaits** has the calls of the mining interface that wait for a tip, with
`cs_main`, `m_tip_block_mutex`, the condition variable, both interrupt flags and
the shutdown. The test of an awaited condition is a step of its own, taken under the
mutex, and the sleep that releases the mutex the next one: `SignalInterrupt` sets
`m_interrupt` without the mutex and may come between the two. `Interrupt` of `init.cpp`
then notifies once. The clock is left out: a wait with a deadline may expire at any time.
Whether the node is in initial block download, and whether the tip is behind the best
header, is left open each time `createNewBlock` asks.

**CpuMining** has `MineBlock`, the nonce arithmetic of `search_light` modulo
`2^Width`, the cast of a budget to `size_t`, and the callers: `generatetoaddress`,
`generateblock`, `grind`.

**Beacon** has `getrandombeacon` on a chain that grows and reorganises. An `int` sum
beyond `IntMax` is undefined, and every outcome a build may give it is a choice. The
last reply is kept with the chain it was given on, so that the next one can be compared
with it after a reorganisation.

**MCProgPow** puts EpochContext, CpuMining and Beacon in one run. They share no state:
`Init` chooses one of them, and only its steps are taken.

The `MC*` modules give the constants their values, and the `*Proofs` modules extend
the module they prove theorems about. Operators whose comment starts
with "Mutant" are faulty variants of the definition that follows them; no
specification uses one. Replacing the definition by the variant makes the
property named in `PROJECT.json` fail, which shows the property can fail.

## Runs

| Run | Result | What it shows |
|---|---|---|
| `headers_sync` | holds | released headers connect, agree with the commitments, are released only with cause; memory is bounded |
| `lwma_default` | holds | with room above `powLimit`, no product wraps, the chain can always grow, and a step goes the right way |
| `lwma_sharenet` | violated | with shareNet's `powLimit` the product wraps |
| `mining_rpc` | holds | templates are on the tip when handed out; a longpollid promises no more than its template has; answers to submitters are true; long polls end |
| `chain_selection` | holds | with bad blocks, preciousblock, invalidateblock and reconsiderblock: failures reach every descendant, candidates and unlinked blocks are those `CheckBlockIndex` asserts, a valid active chain, `cs_main` never released on a worse tip, and the best chain wins in the end |
| `headers_download` | holds | only chains with enough work are stored; every sync has a request on its way; statistics match the syncs; the chain of an honest peer is stored in the end, also when the sync peer stalls and may not be disconnected, unless two requests to it cross |
| `coins_flush` | holds | the view is that of the tip; a FRESH coin is unknown to the database; start-up never fails and the node comes up after the last crash; CoinsStore is implemented |
| `check_queue` | holds | no check is lost or left in a worker's hands; CheckVerdict is implemented; `Complete` and the destructor return |
| `progpow_parts` | holds | a thread never computes with a freed or foreign context, and there are no more contexts than threads; nonces tried and left add up to the budget; two beacons of one window are equal exactly when its blocks are, and a refusal names the exact number of blocks to wait for, whatever the chain does between the calls |
| `mining_waits` | holds | the two locks do not deadlock; an empty result means interrupt or shutdown; no wake-up by a shutdown, a new tip or an interrupt is lost |
| `mining_waits_interrupt` | violated | of two callers, `interrupt()` ends only one |
| `beacon_overflow` | violated | a beacon is returned for a window that is not on the chain |

The violated runs check what a text of the repository says, quoted in `PROJECT.json`.
`lwma_sharenet` is about a comment in `pow.cpp`. The wrap was recomputed
with the code's constants: 45 blocks at 0x207fffff, 1198 s apart, give
0x1f17c90f, a target about 1400 times smaller.

### Disagreements

Modelling met other places where the code does not do what a comment, an
assertion or a help text says. Each has a configuration whose one property states
the text and which TLC violates; its trace is the explanation.

| Configuration | Property | The text | What the code does |
|---|---|---|---|
| `MCMiningRpcPayout.cfg` | `PaysCurrentAddress` | "the address to pay future block rewards to" (`rpc/mining.cpp:1424`) | `getblocktemplate` serves its cached template, built with the old script, until the tip or the mempool changes |
| `MCMiningRpcLookup.cfg` | `TemplateStaysFound` | "an external GPU miner's in-flight search over a stable header hash isn't invalidated by a later getblocktemplate call" (`rpc/mining.cpp:40-42`) | `pprpcsb` reads the map without the lock of the insertion; an overlapping search may miss an entry |
| `MCChainSelectionHeader.cfg` | `BestHeader` | "There should be no block with more work than m_best_header, unless it's known to be invalid" (`validation.cpp:5314`) | `InvalidateBlock` chooses among headers it collected before its loop; a better one that arrives during it is left out |
| `MCChainSelectionUnlinked.cfg` | `UnlinkedExact` | "it must be in m_blocks_unlinked" (`validation.cpp:5385`) | a block whose data arrives while an ancestor is being invalidated is not there after reconsiderblock |
| `MCChainSelectionPrecious.cfg` | `CandidatesExact` | "pindex must be in setBlockIndexCandidates" (`validation.cpp:5358`, asserted in 5363) | preciousblock gives two blocks of equal work the ids -1 and -2 and the second becomes the tip; preciousblock of the tip resets its id to -1 (3516-3519), and the first, pruned from the candidates meanwhile, is as good again |
| `MCHeadersDownloadBest.cfg` | `BestPeerHasMostWork` | "The peer with the most-work entry in m_headers_presync_stats." (`net_processing.cpp:890`) | the best peer may start again with less work within one message and stays best |
| `MCMiningWaitsInterrupt.cfg` (run `mining_waits_interrupt`) | `InterruptEndsCall` | "Interrupts createNewBlock and waitTipChanged." (`interfaces/mining.h:147`) | of two sleeping callers, the first to wake resets the flag before the other sees it, and the other sleeps on |
| `MCCpuMiningGrind.cfg` | `WholeBudgetTried` | "The whole budget was tried and none worked." (`pow.cpp:259`) | a start nonce near `2^64` makes the end of the search wrap and the loop does not run |
| `MCCpuMiningShutdown.cfg` | `TemplateExists` | "CHECK_NONFATAL(block_template);" (`rpc/mining.cpp:224`) | a shutdown after the loop's test makes `createNewBlock` return nothing, and the call ends with an internal error |
| `MCBeaconOverflow.cfg` (run `beacon_overflow`) | `WindowConfirmed` | "only returns a value once every block in `[start_height, start_height + window_size - 1]` is on the active chain" (`src/docs/BEACON-SPEC.md:19-21`) | the sum overflows `int` near `2^31`; where it wraps, the hash of no blocks is returned |
| `MCBeaconHash.cfg` | `SingleSha256` | "The value itself is the SHA-256 of the `mix_hash` values" (`src/docs/BEACON-SPEC.md:23`) | `HashWriter::GetHash` hashes twice; `src/docs/DETAILS.md:191` says the same as the specification |

One more thing TLC found is no disagreement with a text. While a sync redownloads, a
stored header clears the timestamp of the last request, so an inv of the sync peer
sends a second getheaders (`net_processing.cpp:4202`). If the block index is ahead of
the sync by then, through another peer, neither answer fits what the node expects when
it arrives: the sync is given up, a new one is broken by the late answer, and nothing
is on its way until the peer announces another block or times out. `HonestChainStored`
leaves out behaviours in which requests to an honest peer cross.

`CheckBlockIndex`, which asserts what the three `MCChainSelection` configurations
violate, is off by default outside shareNet. `chain_selection` checks the
second one up to the first invalidateblock (`UnlinkedUntilInvalidate`). The third
was found by a proof attempt: it takes three calls of preciousblock, and
`chain_selection` has one.

Every module also states a type invariant, `TypeOK`, that says what its variables
hold. TLC confirms it with the constants of each run that holds; it is not listed
among their properties, since it says nothing about the code. For HeadersSync, Lwma,
MiningRpc, ChainSelection, CheckQueue and CoinsFlush it is proved.

## Bounds

* `headers_sync`: messages of at most 2 headers, a commitment every 2 headers, a
  buffer of 2, two bodies with work 1 and 2, and a start 6 units below the
  required work. A PRESYNC therefore spans several messages and commitments, the
  buffer overflows, either limit on commitments (1 or 3) is met, and the second
  download can differ anywhere. `MaxBase` limits the hash a message starts at, and
  so the length of the chain.
* `lwma_*`: a window of 3 blocks, spacing 4, words of 24 bits in digits of 3, and
  time steps back, fast, on time, slow and past the clamp. `MaxHeight` 7 leaves
  the bootstrap blocks and then replaces the whole window. `MinableTarget` stops
  chains whose target no miner would meet. `powLimit` is `2^20 - 1`, with room
  above it, or `2^23 - 1`, all but the top bit, as on shareNet.
* `mining_rpc`: two threads, so that any two calls overlap; one height above the
  start, so that templates go stale and competing blocks appear; `MaxUpdates` is one
  change, of the mempool or of the payout script, which may come at any point of a
  call.
* `chain_selection`: branches of two and three blocks on the genesis block: a tie, an
  overtaking branch, and a failure below its top. One block fails its checks and one
  fails to connect. Each of the three RPCs is called at most once and at most two of
  them (`MaxCalls`), enough for an arrival, an invalidation and a reconsideration to
  interleave.
* `headers_download`: one honest peer and one that sends anything; messages of 2
  headers; a minimum work of 6, so that a sync needs several messages in each phase; a
  branch that goes beyond it by one and one that stays 3 below it; a buffer of 1.
  Whether the other peer may be disconnected (`noban`) is chosen in `Init`; if not, the
  code only passes the sync on.
* `coins_flush`: a common block and branches of one and two blocks. Four coins:
  one that both branches spend, one created and spent in one block, one created at
  another height on each branch, one that a block creates and the next one spends.
  At most two flushes, two crashes and three of them together (`MaxEvents`), so that a
  crash may interrupt the recovery from another one; each loses at most one batch.
* `check_queue`: two workers and a master, two controls one after the other, so that
  what the first leaves behind could show in the second; four checks in batches of at
  most two.
* `progpow_parts`: three threads, three epochs and four addresses for the contexts.
  Nonces of 3 bits, budgets of up to 7, at most 2 blocks per call, and start nonces of
  grind at 0, in the middle and where the range wraps. A chain of height 3 over two
  hashes, windows of 1 to 3 and starts up to 3, so that two windows with the same blocks
  and with others both occur; the largest `int` is 4, so that sums beyond it occur too.
  `MCBeaconOverflow.cfg` has the same bounds.
* `mining_waits`: a caller of `waitTipChanged` or `createNewBlock`, a caller of
  `waitNext`, two blocks that may become the tip in turn. `mining_waits_interrupt`
  has two callers of the first kind. `InterruptHeard` holds on that instance as well
  (152 520 states).

In the runs of HeadersSync, Lwma, MiningRpc, ChainSelection and HeadersDownload
headers, blocks, calls or heights run out, and a peer may fall silent, so deadlock
is not checked there. It is checked in all other runs.

## Fairness

`mining_rpc` assumes weak fairness of each step of a call in progress:
`waitTipChanged` has a timeout (a minute, then ten seconds), and nothing else in
a call waits except for `cs_main`. Taking `cs_main` back after a long poll (`Relock`) has
strong fairness: the other calls take the lock and give it up again and again, and a
thread that wants it is scheduled. Without it TLC shows a long poll that wakes and never
gets the lock. No call has to be made.
`chain_selection` assumes weak fairness of the steps of `ActivateBestChain` and
`InvalidateBlock`: a thread inside one of them keeps running. No header, block or
RPC has to arrive. Nothing is assumed of a peer.

* `headers_download`: an honest peer answers every request (WF), the
  `SendMessages` loop reaches it again and again (SF of `StartSync`, which is
  switched off whenever another sync is started), and the node's own steps are taken:
  the timeout of a silent peer passes and a closed connection is cleaned up. Time
  passes for an honest peer only when it owes no answer.
* `coins_flush`: WF of start-up and of the batches of a flush; crashes are
  finite. `check_queue`: WF of each thread's steps and of waking up once
  notified; a thread that was not notified need never wake.
* `mining_waits`: SF of the steps of each call (`GoesOn`: its locks, its own steps,
  waking once notified), of `BlockTip` and of the one notification at shutdown. Locks
  are held briefly and given up again and again, and the threads that want one are
  scheduled. A thread that was not notified need never wake, no deadline has to pass,
  and the notification is not repeated: one that a thread misses is lost.

## Proofs

`HeadersSyncProofs` proves, for every set of bodies, work, hasher, salt, message
size and parameter that `ParamsAssumption` and `HeaderAssumption` allow:

| Theorem | Statement |
|---|---|
| `TypeCorrect` | `TypeOK` always holds |
| `CommitmentsAgreeAlways` | a redownloaded header at a checked commitment height has the bit of the PRESYNC header there |
| `ReleasedConnectAlways` | released headers are the redownloaded ones, in order and connected |
| `ReleaseJustifiedAlways` | none is released without a full buffer above it or enough work |
| `BoundedMemoryAlways` | bits and buffered headers stay within their limits |

The four properties are not inductive. `CommitmentsAgree` needs to know which
height the front of the queue belongs to, and `ReleasedConnect` which header the
front of the buffer is. `IInv` adds:

* `SameLength` and `QueueInv`: while commitments are checked, the queue holds, in
  increasing order, exactly the commitment heights between the last redownloaded
  header and the end of PRESYNC, with the bits of the PRESYNC headers there. The
  front of the queue is then the next commitment height (`QueueFront`).
* `BufferInv`: the buffer is the redownloaded chain without what was released, and
  the two stored hashes are those at its ends.
* `PhaseInv` and `SizeInv`: what is still empty in PRESYNC, and that buffer and
  unread message together fit.

Each conjunct has a lemma with one case per action; `InvStep` joins them and
`Invariance` gives `Spec => []IInv`. The assumptions on the constants are those
TLC evaluates in `headers_sync`.

`MiningProofs` is about the parts that mining rests on beside its RPCs: EpochContext,
which it extends, and MiningWaits, CpuMining and Beacon, which it instantiates (`Waits!`,
`Mining!` and `RandomBeacon!`). It proves, for every finite set of threads and any epochs
and addresses, any callers and blocks, every width of a nonce and any chain:

| Theorem | Statement |
|---|---|
| `ContextInUseAlways` | a thread computes with a context that is alive and of the epoch it asked for |
| `MemoryBoundAlways` | there are never more contexts than threads |
| `EmptyMeansInterruptedAlways` | `EmptyMeansInterrupted`: no step ends a call with nothing unless the node shuts down or the object was interrupted |
| `BudgetExactAlways` | `BudgetExact`: for every generate command, and for a grind whose range does not wrap |
| `SameBlocksSameBeaconAlways` | `SameBlocksSameBeacon`, an action property |
| `NeedsExactlyMoreAlways` | `NeedsExactlyMore`, an action property |
| `WindowConfirmedInRange` | `WindowConfirmed` for a window whose last height is an `int` |

`ContextInUse` follows from `Position`, which says what a thread knows at each
point: the mutex is its own in `create` and `copy`, its own context is given up
before the shared one is looked at, and what it computes with is its own
context. `MemoryBound` is not inductive: the shared context would count beside
one per thread. `SharedCounted` says that while there is one, some thread has no
context or shares it. `update_local_context` drops its own context before it
replaces the shared one, and this is why it holds: the contexts alive are then
the image of the threads, and no larger.

`EmptyMeansInterrupted` needs `WaitsInv`. The result of a call is read under `cs_main`
after the wait under `m_tip_block_mutex` is over, so the tip may be another one by then.
`MinerAt` says why there is one at all: the wait for the first tip has no deadline, so a
call that is past it has seen `tip_block` set. `TipInv` says that `tip_block` and an
announced tip are never ahead of a chain that has none. Only the two places where a call
looks at the flags are then left to return nothing (`MinerCallEnds`). That the threads
of `waitNext` are others, and that no block is `Null`, is what `WaitConstants` assumes.
TLC confirms `WaitsInv` on the 78 618 states of the instance of `mining_waits`.

`BudgetExact` is about ranges of nonces that do not wrap, and the three theorems about
Beacon are about windows that end at an `int`. `MCCpuMiningGrind.cfg` and
`MCBeaconOverflow.cfg` show what happens beyond these conditions, and the theorems say
that nothing else can go wrong. Generate commands start at nonce 0 and are always in
range. `MiningInv` adds that a running command has no outcome and a block left to find;
the step that needs an argument is the search, where the range of nonces is an interval
with as many members as the budget has left, and the first solution is one of them
(`SearchLightFacts`). `BeaconInv` says that the last reply is right about the chain it
was given on (`RightReply`): a value is the hash of the blocks of the window, a refusal
counts the blocks that are missing. It says nothing of the chain of now, and so no block
that comes or goes disturbs it; two replies that are right, each about its own chain,
give both action properties. `MiningConstants` and `BeaconConstants` are what is assumed
of the constants; `MCProgPow` has TLC evaluate `CpuMiningConstants` and
`BeaconConstants`. The provers know nothing of `2^n`, so `2 ^ Width \in Nat` is one of
the assumptions, and so is that a `size_t` has as many bits as a nonce or more.

`LwmaProofs` proves, for every word width, digit size, window, spacing and sequence
of block times:

| Theorem | Statement |
|---|---|
| `AlwaysTypeOK` | the accumulators and the result have their types |
| `InRangeGivenRoom` | given `Room`, the product never wraps (`IntermediatesInRange`) |
| `AlwaysCanExtend` | given `Room`, the required nBits is always accepted (`CanExtend`) |
| `AlwaysRightDirection` | given `Room`, slow and fast windows move the target the right way (`RightDirection`) |

`Room` says that solvetimes are limited and `3 * T * (N + 1) * powLimit < k * 2^Width`.
With the code's 600, 45 and 13772 this is `powLimit < 0.166 * 2^256`: it holds on every
network but shareNet, and the constants of `lwma_default` satisfy it. `lwma_sharenet`
shows what happens without it. The loop invariant `FoldInv` says that any bound on the
targets counted so far bounds `sum_target`, and any on the solvetimes bounds `t`; the
three properties take different bounds. The rest is about the compact form: it rounds
down to a unit of whole digits (`CompactForm`), is zero only for zero (`RoundedDown`)
and keeps the order of targets (`RoundedMono`). The provers know nothing of `2^n`, so
`PowerAssumption` states the laws of exponents up to `Width`; TLC evaluates it.
`WeightAssumption` states three facts about the weights of `chainparams.cpp` and the
bound `MinableTarget`.

`CheckQueueProofs` proves, for any finite sets of workers and masters and any batch size:

| Theorem | Statement |
|---|---|
| `AlwaysTypeOK` | the counters and the locals of the threads have their types |
| `AlwaysTodoExact` | `nTodo` is the number of checks queued or in a batch (`TodoExact`) |
| `AlwaysNothingHeld` | after `Complete` nobody holds a check (`NothingHeld`) |
| `ImplementsCheckVerdict` | every step is a step of CheckVerdict or a stutter (`VerdictHonest`) |

The verdict needs to know where an error is before it is in `m_result`. `Remembered`
says that an error handed over under this control is in the queue, in a batch, or in the
`local_result` of a thread that has still to account for it; `Known` that nothing of an
earlier control is in any of these places. `TodoExact` closes the argument: when the
master finds `nTodo` zero, no check is queued or in a batch, so `m_result` speaks for
all. `CountsExact` is needed for the batch size, which divides by `nTotal`, and
`ControlInv` says what a thread may be doing while nobody has the control.

`ChainSelectionProofs` proves, for every finite tree of blocks with work that grows
along `pprev`, and any number of calls:

| Theorem | Statement |
|---|---|
| `AlwaysTypeOK` | the index, the sets and the calls in progress have their types |
| `AlwaysFailureInherited` | `FailureInherited` |
| `AlwaysActiveChainValid` | `ActiveChainValid` |
| `AlwaysUnlinkedUntilInvalidate` | `UnlinkedUntilInvalidate` |
| `CandidatesExactUnlessDemoted` | `CandidatesExact`, unless the tip was demoted |
| `ForwardProgressUnlessDemoted` | `ForwardProgress`, unless the tip was demoted |
| `PruningLeavesCandidates` | the assertion of `PruneBlockIndexCandidates` (`validation.cpp:3197`) holds, unless the tip was demoted |

`TipDemoted` is a step that gives the tip a larger sequence id, as in
`MCChainSelectionPrecious.cfg`; the last three theorems are about behaviours without
such a step, `Spec /\ [][~TipDemoted]_vars => ...`, since the first of them is false
with one. A behaviour with a single preciousblock per tie has none. `FailedInv` extends
`FailureInherited` into the loop of `InvalidateBlock`, where only descendants of the
block it disconnected last may lack the mark. `AbcInv` says that the `pindexMostWork`
kept while `cs_main` is released stays valid above the active chain. `CandInv` is
`CandidatesExact` relaxed for blocks that preciousblock tied with the tip, inside a
section of `ActivateBestChain` relative to the tip it started from; `CInv` adds what the
absence of a demotion gives. The tree lemmas (ancestors are transitive and linear, a
child lies on every path) are proved by taking a counterexample of least work, since
every nonempty set of naturals has a least element.

`MiningRpcProofs` proves, for any threads, scripts, heights and mempool updates:

| Theorem | Statement |
|---|---|
| `AlwaysTypeOK` | the cache, the map and the calls in progress have their types |
| `AlwaysServedOnTip` | `ServedOnTip` |
| `AlwaysLongpollIdHonest` | `LongpollIdHonest` |
| `AlwaysAnswerTruthful` | `AnswerTruthful`, an action property |

`IInv` says what the cached template and `pindexPrev` have in common, also after a
rebuild that failed (`CacheInv`), what `getblocktemplate` knows at each point
(`GbtInv`), what a submission knows (`SubmitInv`), and that one block is new to one call
only (`NewOnce`). `NamesAssumption` keeps the scripts apart and `NoBlockAssumption` the
null hash from the hashes of blocks.

`HeadersDownloadProofs` proves, for any peers, chains, message and buffer sizes:

| Theorem | Statement |
|---|---|
| `AlwaysStatsMatchSyncs` | `StatsMatchSyncs` |
| `AlwaysSyncFed` | `SyncFed` |
| `AlwaysWorkChecked` | `WorkChecked` |

`SyncInv` says that a sync stays within the chain its peer serves, which is `Main` for an
honest one, and that it redownloads only a chain with the minimum work; from it follows
that what a sync releases has enough work, and that its next request can be answered.

`CoinsFlushProofs` proves, for any tree of valid blocks of any size, any outpoints, and
any number of flushes, crashes, batches and batches lost:

| Theorem | Statement |
|---|---|
| `AlwaysTypeOK` | `TypeOK`, with the states of an entry that `coins.h` allows |
| `AlwaysViewExact` | `ViewExact` |
| `AlwaysFreshMeansUnknown` | `FreshMeansUnknown` |
| `AlwaysNeverStuck` | `NeverStuck` |
| `ImplementsCoinsStore` | every step is a step of CoinsStore or a stutter (`CrashSafe`) |

Three things have to be known that the properties do not say. What a crash may find:
`DbInv` says that every database state it may go back to is complete, or a mixture, coin
by coin, of the coins of two tips whose branches the block index on disk knows with their
undo data; `IndexInv` says that the undo data is that of the blocks, and that the index
in memory knows all that the one on disk does. What a flush still owes: `WriteInv` says
that outside `todo` the database already has the coins of the new tip, and that this tip
is in the index on disk, since the index is written first. And what a replay has reached:
`RollInv` says that each coin the cache shows is the one after `pindex` or already the new
tip's, the reason why a block may be undone or applied that was never applied or was
applied before. `RunInv` gives the cache of a running node its coins, and `Sound` its
flags: a FRESH entry has no coin below it, a clean one has the coin below. At the fork the
two readings of `RollInv` meet, and at the new tip they are one. TLC confirms `IInv` on
the 205 947 states of `coins_flush`.

`Ancestors` and `Utxo` recurse along `pprev`. That the recursive functions exist is proved
(`AncestorsDef`, `UtxoDef`) from the heights, with a lowest block for which they would not
(`LowestBlock`), and so are the facts about forks and branches that the replay needs. The
assumptions are those TLC evaluates: `CoinsViewAssumption`, `CoinsFlushAssumption` and
`ValidBlocks`. In the refinement a connected or disconnected block is `Move`, the last
batch of a flush `Save`, a crash `Crash`; the steps of start-up are stutters, because the
abstract tip is where start-up will take the node.

Only model-checked: `TypeOK` of the modules not named above; the liveness properties
(`LongPollAnswers`, `BestChainWins`, `HonestChainStored`, `ComesUp`,
`CompleteReturns`, `WorkersEnd`, `ShutdownEndsCalls`, `TipEndsWait`,
`InterruptHeard`), which need fairness and `ENABLED`; and anything that needs
induction over data.

## Not modelled

* ProgPoW, ethash and SHA-256 as functions: a hash is collision free and a proof
  of work is valid or not.
* Pruning, assumeutxo snapshots, and more than one chainstate, in ChainSelection;
  interruption of `ActivateBestChain` by a shutdown; branches longer than 32
  blocks.
* The time of a template, and so the five seconds `getblocktemplate` waits before
  it rebuilds for a changed mempool: a rebuild may or may not happen then.
* Pruning, snapshots, reindexing and failing writes in CoinsFlush. Block and undo
  files are kept whole. The index is written and read entry by entry; the fields of
  a header are not part of it.
* Block download, compact blocks, eviction of peers on lagging chains and
  transaction relay in HeadersDownload, and a node that has left initial block
  download.
* Block assembly: the order of chunks comes from the mempool's TxGraph.
* `prioritisetransaction`, `submitheader` and the read-only RPCs.
* What `PROJECT.json` lists as not modelled, each with its reason.

## Plan

In this order; each step is a module, its runs, then its theorems.

1. An abstract specification of a release (only a chain with enough work is handed
   on) that HeadersSync implements and HeadersDownload uses.
2. Transaction requests (`txrequest.cpp`), validation signals and their queue,
   versionbits.
