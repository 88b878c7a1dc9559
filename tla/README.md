# TLA+ specifications of the Koto node

Koto is a Zcash-derived full node and wallet. These modules model the parts of
it in which concurrency, caching, crashes or long sequences of calls decide
whether the node is correct, check them with TLC on small instances, and prove
the safety properties of ten components for all instances with TLAPS. All source
paths are relative to the repository; `main.cpp` and so on live in `src/src/`.
`PROJECT.json` maps each definition to its lines and lists components, runs,
mutants, findings, hazards and theorems.

## The system

### Parts, state and operations

| Part | State | Operations that change it |
| --- | --- | --- |
| Block index and active chain (`main.cpp`, `chain.cpp`) | `mapBlockIndex` with `nStatus`, `nChainTx`, `nSequenceId`; `setBlockIndexCandidates`; `mapBlocksUnlinked`; `chainActive` | accept a header or block, link, find the best chain, connect and disconnect, invalidate, reconsider |
| Coins view (`coins.cpp`, `txdb.cpp`) | a view per block over `pcoinsTip` over LevelDB, with DIRTY and FRESH flags; anchors and nullifiers of Sprout, Sapling and Orchard | fetch, modify, push and pop anchors, set nullifiers, flush |
| Disk state (`main.cpp`, `txdb.cpp`) | block and undo files, block index database, coins database, dirty sets | store a block, write undo data, flush, prune, load at start |
| Memory pool (`txmempool.cpp`, `mempool_limit.cpp`) | `mapTx`, `mapNextTx`, nullifier maps, evicted list | accept, remove for a block, conflict, reorganisation, anchor, expiry, epoch, limit |
| Script check queue (`checkqueue.h`) | queue, `nTodo`, `nIdle`, `nTotal`, `fAllOk` | add checks, work in batches, wait |
| Wallet notification (`validationinterface.cpp`) | last notified block, recently added and conflicted transactions, sequence numbers | drain under `cs_main`, then notify without it |
| Wallet witnesses (`wallet/wallet.cpp`) | witness cache and height per note, `nWitnessCacheSize`, best block of the wallet file | increment, decrement, add to wallet, set best chain, rescan |
| Asynchronous RPC (`asyncrpcqueue.cpp`, `asyncrpcoperation.cpp`) | operation map, queue, operation states, flags | add, run, cancel, pop a result, close, finish |
| HTTP server (`httpserver.cpp`) | work queue, running flag, requests and their replies | receive, enqueue, work, reply, interrupt, stop |
| Block download (`main.cpp`, `net.cpp`) | `mapNodeState`, `mapBlocksInFlight`, `nQueuedValidatedHeaders`, `nPreferredDownload`, `nSyncStarted` | connect, version, inv, headers, block, `SendMessages`, disconnect, timeouts |
| Orphan transactions (`main.cpp`) | `mapOrphanTransactions`, `mapOrphanTransactionsByPrev` | add, erase, limit, resolve when a parent comes, forget a peer |
| Address manager, scheduler, mining, keys | tables and maps of their own | see "Not modelled" and the plan |

How they interact: `ThreadMessageHandler` goes from peer to peer, processes its
messages and calls `SendMessages`, which asks it for blocks. Network and RPC
threads call `ProcessNewBlock`, which
stores the block, then `ActivateBestChain`, which moves the active chain one
step at a time and releases `cs_main` between steps. `ConnectBlock` checks
scripts through the check queue, changes a view over `pcoinsTip`, which
`ConnectTip` flushes into `pcoinsTip`; `FlushStateToDisk` writes files, index
and coins. `ConnectTip` and `DisconnectTip` edit the memory pool and leave notes
for the notification thread, which leads the wallets along the chain later and
without the lock. RPC calls come in through the HTTP work queue; long ones
become asynchronous operations. Shutdown interrupts and joins all of them and
flushes one last time.

### What is hard about it

- state read under `cs_main`, used after its release (`ActivateBestChain`, the
  notification thread);
- blocks that arrive before their ancestors, and marks of failure that are set
  and cleared while they do;
- caches whose flags are conclusions about the layer below;
- several stores (files, index, coins, wallet file) written one after the other,
  with the process dying in between;
- condition variables, atomics stored outside of the lock, stopping while busy;
- peers that answer late, in another peer's stead, out of order or never, and go
  away with requests or transactions that others wait for;
- a reorganisation that passes through states in which chain, coins and pool
  disagree.

`PROJECT.json` lists these as hazards, each at its line, with the properties
that would catch it going wrong.

## Modules

Every component has one module, and an `MC_` module with the constants of its
instances. `.cfg` files named `MC_*` hold runs that pass; those named `V_*` hold
three that show a disagreement between the code and what it says of itself (see
"Disagreements"). Two `MC_` modules run a pair of components that share no state
side by side, each explored while the other is in its initial state, which visits
the states of both and not their product: `MC_CoinsView` the two halves of the coins
view, `MC_Wallet` the operations of the wallet and its witness caches.

**CheckQueue** (`checkqueue.h`). One process per worker and master. `pc` follows
`Loop`: `TakeBatch` and `Block` are the two ways through its critical section
(clean-up of the previous batch, notification, decision), `Execute` runs a batch
without the lock, `Return` is the master's exit, and `Construct`, `Add`, `Wait`
and the destructor are those of `CCheckQueueControl`. Condition variables may
wake up spuriously; boost interruption may end a wait. Which checks a batch
holds is left open, its size is the code's formula.

**ChainState** (`main.cpp`). `AcceptBlockHeader`, `ReceivedBlockTransactions`
with its breadth-first linking, `FindMostWorkChain`, `ActivateBestChainStep`,
`InvalidBlockFound`, `InvalidateBlock`, `ReconsiderBlock`. The flags of
`nStatus`, `nChainTx != 0`, the candidate set and the unlinked map are separate
variables. A thread in `ActivateBestChain` keeps `mostWork` between steps; other
threads run in between. Whether a block is valid is a constant.

**CoinsCache** refines **CoinsMap**. `CoinsCache` is the stack view, `pcoinsTip`,
database with its flags: `FetchCoins`, `ModifyCoins`, `ModifyNewCoins`, the
modifier's clean-up, `BatchWrite`, in the order in which `UpdateCoins`,
`ApplyTxInUndo`, `ConnectTip`, `DisconnectTip`, a rejected block and the memory
pool use them. `CoinsMap` is three maps: what is on disk, at the tip and in
the block. `VerifyDB`, which stacks a throw-away view, is outside this protocol.

**ShieldedView** (`coins.cpp`, `main.cpp`). Anchors and nullifiers of the pools,
a treestate being the sequence of its commitments: `PushAnchor`,
`PopAnchor` with `BringBestAnchorIntoCache`, `SetNullifiers`, `BatchWrite`, as
`ConnectBlock` and `DisconnectBlock` call them, with flushes and crashes.

**ChainFlush** (`main.cpp`, `txdb.cpp`). Where block and undo data go
(`FindBlockPos`, `AcceptBlock`, `ConnectBlock`'s undo), what `FlushBlockFile`
commits, the steps of `FlushStateToDisk` one by one, `FindFilesToPrune`,
`PruneOneBlockFile`, `UnlinkPrunedFiles`, and `LoadBlockIndexDB` after the
process died. A block file holds `BlocksPerFile` blocks; `vinfoBlockFile` is
derived from the index, which is written in the same batch.

**BlockDownload** (`main.cpp`). Which peer is asked for which block. Every message
handler that changes a request is an action, `SendMessages` is one action from its
ban check to its getdata, and rounds of `ThreadMessageHandler` (`copied`, `todo`) say
whose turn it is; a peer in the round is kept from `FinalizeNode` by its reference.
A turn may end without `SendMessages`, when one of its two TRY_LOCKs fails (`Skip`).
Times are kept as what is left until them, so that the state space is finite.

**Mempool** (`txmempool.cpp`, `main.cpp`). The pool's maps, `AcceptToMemoryPool`'s
contextual checks, and all removals in the order `ConnectTip`, `DisconnectTip`
and the end of a step make them; resurrection is one step per transaction.
A transaction has one output.

**OrphanTx** (`main.cpp`) extends `Mempool` with the orphan maps and the handler of
the tx message: one step per orphan tried, since each accepted one may make the
pool evict another. The chain moves, pool and peers change between two messages.

**NotifyWallets** (`validationinterface.cpp`). The chain moves at any time; the
thread drains under `cs_main` and then notifies, one block per step, without it.

**WalletWitness** (`wallet/wallet.cpp`). Witness caches of the wallet's notes
while the chain moves up to `MaxReorg` back, the single-transaction writes of
`AddToWallet`, `SetBestChain`, and a restart with its rescan (one step). A
witness is the sequence of commitments it leads to.

**AsyncRPCQueue**, **HTTPServer** (files of the same name). Threads
and their locks; each access of an atomic outside a lock is a step of its own. The
event loop of the HTTP server runs one callback at a time; its work queue is deleted
request by request, each answered by its destructor.

**BlockTree** holds the tree of blocks shared by `ChainFlush`, `ShieldedView`,
`Mempool`, `NotifyWallets`, `WalletWitness` and `BlockDownload`. The proofs are in
modules of their own: **ChainStateProofs**, **ChainFlushProofs**,
**AsyncRPCQueueProofs** and **BlockDownloadProofs** are each about the component they
are named for, **CoinsViewProofs** about `CoinsCache` and `ShieldedView`,
**MempoolProofs** about `Mempool` and `OrphanTx`, and **HandoverProofs** about the
modules in which one thread hands work to another: `CheckQueue`, `HTTPServer` and
`NotifyWallets`. **DataFacts** is what several of them need to know of queues, of
least and greatest elements, and of trees.

## What the runs check

"States" are distinct states of the instance in the `.cfg`.

| Run | Instance | States | Shows |
| --- | --- | --- | --- |
| `checkqueue` | 2 workers, 1 master, 3 checks (1 invalid) | 166,538 | the verdict is exact, session after session; a waiting master always has someone who will wake it; `Wait` returns, even when all workers were interrupted |
| `chain` | 5 blocks on branches of 1 and 3, the longer one with more work from its third block, 2 threads, a block that fails to connect, reorganisations of 1, `invalidateblock` and `reconsiderblock` | 56,189 | linking and `mapBlocksUnlinked` are right in every order of arrival; failure marks have a cause; the candidate set holds what it should and nothing worse than the tip; the best valid chain is active and no failed block is; work is lost only to invalid blocks; every `ActivateBestChain` ends |
| `coins_view` | 2 transactions of 2 outputs; beside it 7 blocks, 2 pools | 22,536 | the flags are true, the stack refines `CoinsMap`; nullifiers and anchors are those of the active chain; no double spend; the database is the state after its own best block, after any crash |
| `orchard_anchor` | the 7 blocks with Orchard | | violated: disconnecting a block leaves its Orchard anchor behind |
| `flush` | 6 blocks in files of 2, arriving up to 2 ahead, a crash between any two writes, any number of times | 1,039,529 | the index knows the best block of the coins and claims only data that exists; block data is committed before the index names it; pruning leaves the data a reorganisation reads |
| `mempool` | 9 blocks, 11 transactions, limit 3, an upgrade at height 5, 2 peers, 2 orphans | 120,930 | between calls the pool fits chain, coins and the next block, its maps agree with it, `removeForReorg` finds the coins it asserts; the orphan maps agree with each other; a missing parent that arrives brings in all that waited for it |
| `notify` | 6 blocks, 3 transactions, 4 connections | 583,162 | `at()` never throws; no dangling pointer; wallets are led to the right blocks, hear of conflicts and catch up; when "fully notified" is claimed, the chain they were told of includes the active one |
| `wallet` | 3 operations, 2 workers, 2 callers; beside it 14 blocks, caches of 3, reorganisations of 2 down to below the block the wallet was born at, restarts clean or after a crash | 1,004,462 | nothing runs or is reported twice; no wake-up is lost; nothing accepted stays unsettled once the queue stopped; witnesses are those of the chain and none is missing; no assertion on witnesses fails, and that on `nWitnessCacheSize` only in a wallet led back to its birth |
| `witness_birth` | the 14 blocks | | violated: the first block a new wallet saw is disconnected, and `assert(nWitnessCacheSize > 0)` fails |
| `http` | 4 requests, 2 workers, depth 2 | 102,981 | each request has one owner and one answer; shutdown ends |
| `download` | 5 blocks, branches of 1 and 2 on a shared one, 2 peers (1 outbound), window 1, 2 requests per peer, a block that may be invalid | 360,927 | the map of requests, the lists of the peers and their counters agree; of the totals, two are exact and `nQueuedValidatedHeaders` is never too small; only a peer that owes a block is held to be stalling; no block that is offered stays missing for ever |
| `queued_headers` | the same | | violated: a request that dies with its peer stays in `nQueuedValidatedHeaders` |

The type invariant `TypeOK` of a module is a conjunct of one of its invariants, or
part of what is proved (`CheckQueue`, `CoinsCache`); where modules are used
together it has the component's name in front (`CoinsTypeOK`). `CleanBetweenSessions`,
`TodoIsExact` and `BatchWriteAssertion` are proved and not run.

Each property of a passing run has a mutant: an operator beside the definition
it mutates (suffixes such as `_NotDirty`), which stands for a plausible slip in
that code and makes TLC find the property violated.

### Bounds and why they suffice

Trees have two branches of which one overtakes the other, with a common part below,
since that is what a reorganisation is; two threads, since the shared state is a lock
and a cached pointer; files of two, since one element hides off-by-one errors; limits
(`Capacity`, `MaxDepth`, `CacheSize`, `MAX_REORG_LENGTH`, `MIN_BLOCKS_TO_KEEP`) as
small as keeps their order: `MAX_REORG_LENGTH < MIN_BLOCKS_TO_KEEP <=
PruneAfterHeight`, and the witness cache one longer than the deepest reorganisation.
`MaxConnects` and the number of `Files` bound counters that grow without bound in the
program; runs reach the bound, and the interesting cases happen well before it. In
`checkqueue` `nNow` is always one, because three checks are shared among the threads;
a fourth check, of which a thread takes two at once, gives an instance that passes too
but takes TLC over four minutes (772,578 states), and the proof is for all batch
sizes. `BLOCK_DOWNLOAD_WINDOW` bounds how far ahead of the tip blocks arrive. In
`download` the window is one block on branches of two and three, so that it does close
and one peer can stall the other, and the time limits are their smallest: a request
times out after one unit per block queued, which keeps the order of events and not
their distance. A NodeId is given out once (`fresh`), as in the code. In `mempool` a
transaction waits for two parents (`u`), the orphans of a chain of three compete for
two places, and one transaction is too large to be kept. `OnlyFittingRestarts` cuts
off behaviours after the premise of the properties of `WalletWitness` (`~diverged`)
has become false for good.

Symmetry is used for the interchangeable threads and operations of `AsyncRPCQueue` in
`wallet` and the peers of `mempool`, which check safety only. Deadlock is checked
except in `http`, whose threads are meant to stop.

### Fairness

Fairness is weak fairness of the steps of running threads: an operating system runs a
thread that is ready. `CheckQueue` assumes it of steps within `Loop`, not of callers;
`ChainState` of a thread inside `ActivateBestChain`; `NotifyWallets` of the notifier,
which wakes up every second; `HTTPServer` of the event loop, the workers and the main
thread once it stops. `BlockDownload` states what its threads do as conditions that
recur, rather than with WF over every action: `ThreadMessageHandler` finishes each
round and begins another while anybody is connected, `ThreadSocketHandler` gets to
every closed connection, time passes, and a peer whose turn comes again and again
finds `cs_vSend` and `cs_main` free again and again (strong fairness, since a TRY_LOCK
may fail any number of times in between; the other threads hold both for a bounded
time). Nothing is assumed of the peers: they may stay connected and never answer, and
`DownloadGoesOn` holds because of the timeouts. No fairness is assumed of arrivals,
crashes, RPC calls or wake-ups without cause.

## What is proved

For every value of the constants, from the named assumptions of the modules
(`BlockTreeAssumption` and `ChainStateAssumption`: the blocks are a tree in which work
grows along every link; `FlushAssumption`: the order of the limits, `MAX_REORG_LENGTH
< MIN_BLOCKS_TO_KEEP <= PruneAfterHeight`, and file numbers from 0;
`ShieldedAssumption`: sorts only; `CheckQueueAssumption`: finitely many checks,
distinct sorts, a positive batch size; `NoEntryAssumption`: the absence of an entry is
not an entry; `AsyncRPCAssumption`: at least one worker, and distinct names for
threads; `HTTPAssumption`: a queue of at least one place, no request is `NoRequest`;
`ContentsAssumption` and `ChainAssumption`: no chain of the tree confirms a
transaction twice or two that exclude each other, nor spends what it does not confirm,
since `ConnectBlock` refuses that; `MempoolAssumption` and `OrphanAssumption`: sorts,
finitely many transactions, and that a transaction that is no coinbase spends
something; `BlockDownloadAssumption`: sorts, a window and a number of requests per
peer of at least one). Every inductive invariant below was an invariant of a TLC run
before it was proved (that of `ShieldedView` with its roots restricted to those of the
block tree and the ones of at most two notes, those of `Mempool` and `BlockDownload`
without the sorts of their records, because TLC cannot enumerate all of them).

**ChainStateProofs.** All five invariants of the run `chain`, and its action property
`WorkIsLostOnlyToInvalidity` (`WorkIsKept`), from `Invariant`. `LinkInv` is what
linking keeps at all times, `WaitInv` that away from invalid blocks a block with data
is linked or waits. The difficult part is `BestInv`. `CandidatesComplete` is not
inductive, because within `ActivateBestChain` an invalid block lowers the tip below
blocks that were pruned from the candidates: the invariant says that a valid block
that is no worse than the tip and not a candidate is then worse than a candidate that
will connect (the old tip, or better), so that when no thread is active, and no
candidate is better than the tip, there is no such block. The proof that
`ReceivedBlockTransactions` links the right blocks goes by a block of least height
that it would miss.

**CoinsViewProofs**, shielded half. `NullifiersFollowChain`, `AnchorsFollowChain` and
`DiskIsConsistent`, from `Invariant`. `PoolInv` and `NullInv` give the entries of the
cache their meaning over the database (an entry that is not dirty agrees with it,
a tree is stored under its own root); `ChainInv` and `DiskInv` say that what the view
and the database answer are the treestates of the chains to the tip and to the
database's block; `UndoInv` that undo data hold the treestates of the parent, for
blocks connected now or at the last flush, so that `DisconnectBlock` after a crash
pops to the right anchor; and `Disjoint` that no two blocks of a chain reveal the same
nullifier, without which disconnecting one block would erase the nullifier of another.
The pool whose anchors are not popped (Orchard) is part of the model and of
`Invariant`; the theorem about anchors is about the other two.

**ChainFlushProofs.** `CoinsStayIndexed`, `IndexNeverLies` and `ReorgsFindTheirData`,
all properties of the run `flush`, from `Invariant`, which adds that no restart fails.
`IndexInv`: the two indexes differ in the dirty entries only, both are closed under
`pprev`, and nothing is dirty from the write of the index to that of the coins.
`DataInv`: both indexes claim only what is in the files; while files are to be
removed the index in memory claims nothing in them, and from the write of the index
on the one on disk claims no more than that; block data that is not committed is in
the last file and not claimed on disk. `ReorgInv`: the blocks above
`highest - MIN_BLOCKS_TO_KEEP` of the chains in memory and on disk have block and undo
data, and a step to a new height moves among such blocks, because the fork is at most
`MAX_REORG_LENGTH` below the tip; it needs that chains are lines
(`ChainLengths` in `DataFacts`).

**HandoverProofs**, check queue. `VerdictCorrect`, `TodoCorrect`, `SessionsAreClean`,
`NoLostWakeup`, `TypeCorrect`. The properties are not inductive. The invariant adds
who holds which check (`BatchInv`: batches are disjoint, not empty, and held only
between taking and clean-up), that a master past "idle" owns the control lock
(`ControlInv`), that outside of a session nothing is outstanding (`SessionInv`),
that `fAllOk` is the verdict on the checks accounted for and a thread's `fOk` can
be wrong only when `fAllOk` is false already (`ResultInv`: a worker skips checks once
the batch failed), and that a master blocks only with checks out (`BlockedInv`).
`nTodo` is then the cardinality of the outstanding checks, and the clean-up
subtracts exactly the size of one batch.

**CoinsViewProofs**, transparent half. `FlagsCorrect`, `AssertionHolds`, and
`CachesAreMaps`, that `CoinsCache` implements `CoinsMap`. `ModifyNewCoins` marks
entries FRESH without a look at the parent, and `BatchWrite` drops entries on the
strength of that flag; the invariant `Bookkeeping` says why this is right: an entry of
the view that is not FRESH was pulled through `pcoinsTip`, which therefore has it, and
only transactions the block has touched are DIRTY. The refinement has one step per
action: lookups are stutters, the two flushes copy one map onto another.

**AsyncRPCQueueProofs.** `OnlyOnce`, `NobodyOversleeps` and `StopSettles`, that is all
three properties of the run `wallet` about `AsyncRPCQueue`, from `Invariance`. None of
them is inductive, because the atomics are read and written outside of `lock_`. The
invariant `IInv` has a part for each idea, and each part a lemma with one step per
action: `LockInv` (which places of which thread hold `lock_`, `cs_main` and
`cs_wallet`); `PlaceInv` (an operation is with its submitter, in the queue or with one
worker); `OnceInv` (what is queued, or taken and not begun, has not run; what is in
the map has not been reported, or by the call that is about to remove it, which relies
on the wallet lock around `z_getoperationresult`); `StateInv` (the state of an
operation follows its place, up to a cancel that comes too late, and before `close` an
accepted operation is queued, held, cancelled or done); `StopInv` (once
`cancelAllOperations` has `lock_` nobody is between test and push of `addOperation`,
so what it sees is all there will be, and it leaves nothing READY); `WaitInv` (a
worker leaves only an empty queue or a closed one, and nobody who could push remains).
A worker that is told of `closed_` or `finish_` too early, before its wait, is why
`WaitInv` is about places and not about notifications.

**HandoverProofs**, HTTP server. `AnsweredOnce` (`OneOwner`) and `StopForgetsNobody`
(`NobodyForgotten`). `OneOwner` does not say what the destructor of `HTTPRequest`
goes by: `ReplyInv` adds that a worker's request that was answered is in `replySent`
and that a worker holds a request exactly while it works; `StopInv` adds that
once the workers are joined all have left and no callback is under way, and that
the queue is empty before the loop is told to end. One lemma per kind of step.

**HandoverProofs**, notifier. `ConflictsAreFound` (`NeverThrows`),
`WalletFollowsChain` and `NoTransactionIsLost`, from `NotifyInvariant`. `blockStack`
is the path from the fork to the tip that was collected (`StackInv`); every block
between the chain the notifier was told to reach and the active one has an entry in
`recentlyConflictedTxs`, because it was connected after the entries were last drained
(`ConflictInv`); `hashBlock` names only blocks that hold the transaction, and those of
the chain down from `pindexLastTip` (`WalletInv`); a chain not extended since it was
collected has only got shorter (`SequenceInv`); a conflict nobody was told of waits in
the map or in the stack (`UntoldInv`).

**MempoolProofs.** `MapsAgree`, `PoolCanBeMined`, `CoinsAreFound`, `OrphansAgree` and
`OrphansResolved`, all properties of the run `mempool`. `PoolFitsChain` holds between
calls only, so the invariant has to say what a transaction satisfies in the middle of
one (`Fits`): its inputs may also be outputs still to be resurrected, and what depends
on the height is out of order from the first disconnect until `removeForReorg`. For
the orphans `HandlerInv` says what the tx handler still has to try: an orphan that
waits for an accepted transaction is marked for erasure, about to be tried, waits for
an entry of `vWorkQueue`, has a peer that misbehaved, or misses an input. The last
disjunct survives an eviction in the middle of the call, because the pool only loses
what an orphan could have spent.

**BlockDownloadProofs.** `RequestsAgree`, `TotalsAgree` and `StallersOwe`, from
`Invariant`. `Linked` says that a list holds no hash twice, that its counters count it,
and that the lists together are `mapBlocksInFlight`; it is about `net` alone, so that
`MarkBlockAsReceived` and `MarkBlockAsInFlight` are shown to keep it once, for every
handler that calls them, in whatever order. `IndexInv` is needed because handlers follow
`pprev` links of blocks they know, `NodeOK` because a stalling peer must owe a block.
The totals (`CounterInv`) are cardinalities of sets of peers and of hashes; the two
functions change `nQueuedValidatedHeaders` by what they change of its set, and
`FinalizeNode` only makes the set smaller.

**DataFacts.** The provers have no induction, but they accept the argument by a least
counterexample: `NatMin` and `LeastElement` come from the well-foundedness of the
naturals, `TreeInduction` from the assumption that links lead down to the genesis
block. `TreeRecursion` proves that the recursive definitions over the tree (`Chains`,
`TreeAfter`) have a value, which a `CHOOSE` alone does not give.

Proving found errors in the properties and in the model, which TLC then confirmed on
larger instances. The premise of `LinkingIsExact` left out invalid ancestors, and that
of `CandidatesComplete` a reorganisation too long for the node; both were true on the
smaller tree that `chain` used before. In `ChainFlush` a restart did not update the
history variable `highest` when the process had died between the write of the coins
and `UpdateTip`, and `ReorgFindsData` compared with the tip, which is below the
highest as soon as a reorganisation has disconnected a block: it said nothing of
longer ones. It now goes by the goal of the step.

Only model-checked: all liveness properties (fairness and ENABLED are beyond the
prover), and the properties of `WalletWitness`, whose rescan folds over a path of any
length, so that a proof would need induction over data.

## Disagreements between code and documentation

Three runs end with a counterexample, described under `findings`.

- `orchard_anchor`: `DisconnectBlock` pops the Sprout and Sapling anchors and not the
  Orchard one (`main.cpp:2911`), so the view after it is not the one before the block.
- `witness_birth`: a wallet created at the current tip has `nWitnessCacheSize` 0. When
  the blocks it saw since are disconnected, `DecrementNoteWitnesses` brings it back to 0
  and its assertion fails (`wallet.cpp:1308`, with a TODO above it). `OnlyBirthAborts`
  says that this is the only assertion that fails, and when.
- `queued_headers`: `nQueuedValidatedHeaders` is "Number of blocks in flight with
  validated headers." (`main.cpp:264`), and `FinalizeNode` does not take the requests of
  a peer out of it (`main.cpp:397`): each is counted for ever and lengthens the
  timeouts of later requests. `TotalsMatch` says that it errs on that side only;
  `DownloadGoesOn` holds all the same.

Modelling the rest of the code brought up cases in which a stronger property
would be false. They are the reason for the premises of the properties named.

- `ActivateBestChain` keeps `pindexMostWork` while `cs_main` is released
  (`main.cpp:4175`, `4184`). With two threads the target can be stale, or invalidated
  meanwhile: the premise `~raced` of the properties of `ChainState` is that no step
  was made with such a target. Linking, causes of failure and the end of every
  activation do not need it.
- `ReconsiderBlock` clears ancestors without making them candidates and leaves
  marks on siblings (`main.cpp:4289`): the premise `~reconsidered`.
- Undo data of a file that is not the last one is not committed before the index
  is written (`main.cpp:3611`): what `IndexedDataExists` says of committed data is about
  block files only.
- Pruning goes by the tip in memory, a crash goes back to the coins of the last
  flush (`main.cpp:3632`): `ReorgFindsData` exempts a step that begins below the
  highest tip there has been. With a chain of four, a branch of two above the
  genesis block and a crash after the files were removed and before the coins were
  written, `DisconnectTip` does miss pruned data there; on the instance of the run
  no read ever fails.
- Children of an invalid block are not filed in `mapBlocksUnlinked`
  (`main.cpp:4486`): a missing block below them that arrives later does not link
  them, also when `reconsiderblock` clears the mark. `LinkingIsExact` is about blocks without
  an invalid ancestor.
- `recentlyConflictedTxs` keeps the conflicts of a block's first connection
  (`main.cpp:3910`): `TransactionsReachWallet` asks for those of first
  connections.
- `cancel` tests and sets in two steps (`asyncrpcoperation.cpp:66`): an operation that
  is already running can be marked cancelled; `AtMostOnce` holds all the same.
- After a restart on a branch the wallet was not led along, or on a chain shorter than
  the one it was being led to, or a crash after a disconnect that `SetBestChain` did
  not follow, cached witnesses need not fit (`wallet.cpp:4862`, `1115`): the premise
  `~diverged`.
- A disconnected block's transactions are accepted again by the rules of the
  height above (`main.cpp:3828`); `PoolFitsChain` is about the pool
  between calls, after `removeWithoutBranchId` ran.
- An orphan reached through two parents in one call of the tx handler is accepted
  and then, being in the pool, refused (`main.cpp:6766`); it leaves the orphan maps
  either way. Orphans are not tried when their parent comes in a block or by
  RPC: `OrphansAreResolved` is about the parents the handler accepted. The
  exclusion of shielded transactions (`main.cpp:6822`) names joinsplits, Sapling spends and
  outputs, and not Orchard actions; the transactions of `OrphanTx` have none.

## Abstractions to keep in mind

- Validity of blocks, scripts and proofs is a constant of the instance. Blocks
  have equal work where a module has no `Work`.
- `ChainFlush`: the process dies, the machine does not; what a power failure could
  lose is visible in `unsynced` only. The two files of a number are unlinked
  together. Reindexing and import are left out, and so are writes that fail and a
  full disk (`BatchWrite` and `FlushStateToDisk` drop changes from memory before the
  write that should store them succeeds, `txdb.cpp:289`, `main.cpp:3622`).
- `WalletWitness`: `invalidateblock` deeper than `MAX_REORG_LENGTH`, the skipping of
  blocks older than the first key, `-rescan` and `clearWitnessCaches` are left out.
  A restart with its rescan is one step: a crash during the rescan is not modelled.
- `HTTPServer`: a callback that began before requests were rejected is over
  before the work queue is deleted.
- `BlockDownload`: work is height, peers are neither whitelisted nor clients, and
  `ActivateBestChain` reaches the best tip with the block that sets it off. A
  misbehaviour score is a choice whether it reaches the threshold. `ibd` stands for the
  three tests of how recent the chain is (`IsInitialBlockDownload`, `CanDirectFetch`,
  and that of the best header in `SendMessages`). A block that passes `AcceptBlock` and
  fails `ConnectBlock` does not occur here; it does in `ChainState`.
- `ChainFlush`: `BLOCK_DOWNLOAD_WINDOW` bounds which headers are accepted; the code has
  that limit on what it asks for.
- `NotifyWallets`: a block removes from the mempool its own transactions and their
  rivals; removals by expiry, size limit or epoch, which the notifier is not told of,
  are left out.
- `AsyncRPCQueue`: `popOperationForId` looks the operation up and erases it in two
  critical sections (`asyncrpcqueue.cpp:116`), which are one step; the wallet lock
  around it keeps other callers away.
- `OrphanTx`: `recentRejects` is left out, which only makes the handler ignore messages.
  An orphan refused because it expired more than a block ago is not scored against its peer
  (`main.cpp:882`), which would only make the handler try fewer orphans.
- `Mempool`: no transaction of the instance spends a coinbase together with another
  input; the proof does not depend on it. Fees, priority and the random choice of the
  evicted transaction are a free choice; the limit counts transactions.

## Not modelled

Cryptography, scripts, serialization, LevelDB, Berkeley DB, sockets, user
interface and RPC formatting: pure functions over data or plain I/O, out of a
model checker's reach or without state of their own. Of the peer-to-peer protocol,
the relay of addresses and transactions and the serving of blocks are left out. The
address manager, the scheduler, mining, wallet keys and payment operations have
state worth modelling and are next.

## Plan

Done first, because everything rests on it: the chain and what it stores, then
the pool and the wallet that follow it, then the threads that serve.

1. Failing writes: the shutdown path after a failed flush, in `ChainFlush` and
   `ShieldedView`. Liveness of `AsyncRPCQueue` (it needs strong fairness of the mutex and
   a smaller instance). `Scheduler`.
2. Compositions: `NotifyWallets` with `ChainFlush` (a block pruned before it is
   notified), `WalletWitness` on top of `NotifyWallets`.
3. `AddrMan` with the conditions of `Check_`; the ban list; `limitedmap`.
4. The history tree cache, `RewindBlockIndex`, `VerifyDB`.
5. Wallet: key pool and encryption, locking of notes by payment operations.
6. Mining threads; difficulty and subsidy as operators against a reference.
7. Proofs: `WalletWitness` between two restarts.
