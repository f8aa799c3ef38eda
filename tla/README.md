# Verification of Nezha

This directory models the concurrency control of Nezha in TLA+, checks the
models with TLC on small instances, and proves almost all of their safety
properties with TLAPS for every value of the constants. Source paths are relative to the
repository root (`src/` in `PROJECT.json`).

## 1. The system

Nezha compares schemes that execute the transactions of a block concurrently
and still commit a serializable result. Its parts, their state and what makes
them hard:

| part | source | state | operations | hard behaviour |
|---|---|---|---|---|
| Depurge scheduler | `core/Depurge.go` | queue per key, ready counters, two ready queues | addTransaction, Execute, Abort, Prune, PopReady, PopPruneReady | calls of many goroutines interleave; lost wake-ups |
| replay driver, Depurge mode | `test_replay.go` 36-800 | scheduler, inProgress, committedDelta, serialReplayList, levm pool | main loop, validation goroutine, serial replay | exit condition made of three reads; values published after release; two pools |
| replay driver, Vegeta mode | `test_replay.go` 868-1757 | speculative sets, chain order, DAG, batches, committedDelta or shared trie | order, batch, validate, merge, serial replay | map iteration order, data race on a slice, shared accounts |
| shared account trie | `ethereum/go-ethereum/core/state/statedb.go` | account trie, object caches, journal revisions | ResetObjectCache, Finalise, IntermediateShared_Re, RevertToSnapshot | whole-account overwrites, lost snapshots |
| levm worker pool | `utils/levm_spec_fallback.go` | idle channel, one StateDB per worker | Acquire, Release, ReExecute, ReExecuteCommit, batches | blocking, state that accumulates |
| dataset exporter | `cmd/eth-dataset-exporter` | block files, checkpoint, semaphore | block loop, export goroutine, checkpoint, signal | crash and restart, overlapping saves |
| RPC client | `.../exporter/rpc_client.go` | rate tokens | retry | retries and rate limit |
| Nezha conflict graph | `core/conflict_queue.go`, `core/nezha_variable.go` | queues, sequence numbers, aborts | CreateGraph, QueuesSort, DeSS, concurrent commit | cyclic dependencies, map iteration order, renumbering across queues |
| conflict-graph baseline | `core/classical_graph.go`, `graph/` | graph, cycles, aborts | NewBuildConflictGraph, Tarjan, Johnson, RebuildGraph, BasicTopologicalSort | cycle enumeration with blocking, aborted vertices that stay in the graph |
| benchmark driver | `test.go` | as the replay drivers, on synthetic contracts | TestDepurge, TestVegeta, ... | exit condition reads queues first; unlocked appends |
| LLM pre-analysis | `utils/llm_rwnset.go`, `utils/mainnet_*.go` | caches | analysis, retries, key derivation | retries, stale cache |
| sparse replay daemon | `cmd/eth-replayd` | sparse state, tracker | execute, snapshot, revert | sequential |
| fetchers and readers | `cmd/ethscan-fetcher`, `cmd/mainnet-preanalyze`, `utils/replay_dataset.go`, `utils/witness_trie.go` | files | I/O | none modelled |

The drivers obtain for each transaction the keys it may touch (static analysis
or pre-execution), schedule by those keys, re-execute on levm workers, compare
the real keys with the expected ones, and commit or put the transaction on
`serialReplayList`.

## 2. Modules

| module | models |
|---|---|
| `OrderedKeyLocks` | abstract: what the Depurge scheduler promises, locking in TxID order |
| `DepurgeScheduler` | `core/Depurge.go`, one action per method |
| `DepurgeSchedulerProofs` | its inductive invariant, its properties, the refinement of `OrderedKeyLocks` |
| `ReplayDepurge` | `runReplayDepurgeMode`, composed with `DepurgeScheduler` |
| `ReplayDepurgeProofs` | its inductive invariant and its properties |
| `VegetaDag` | chain order, DAG and batches of `runReplayVegetaMode` |
| `VegetaOverlay` | validation with overlays (no `--disk-trie`), composed with `VegetaDag` |
| `VegetaSharedTrie` | validation on the shared trie (`--disk-trie`), composed with `VegetaDag` |
| `VegetaDagProofs` | what order, DAG and batches keep, and what a batch that joins the committed transactions changes |
| `VegetaOverlayProofs` | the inductive invariant of the overlay mode and its properties |
| `VegetaTrieWorkerProofs`, `VegetaSharedTrieProofs` | the inductive invariant of the shared-trie mode, kept by the goroutines and by the main goroutine, and its properties |
| `DatasetExporter` | the exporter's loop, goroutines, requests with rate limit and retries, checkpoint, signals, crashes |
| `DatasetExporterProofs` | its inductive invariant and its properties |
| `Workload` | the list of simulated transactions that the benchmark gives to each scheme |
| `Numbering` | ascending lists and the search for free sequence numbers |
| `QueueGraph` | Nezha's address queues, their sorting, the numbers, the concurrent commit; both `conflict_queue.go` and `nezha_variable.go` |
| `QueueGraphProofs` | lemmas on ranks and free numbers, on a turn of `QueuesSort` and on `sortInQueue`; the inductive invariant and the theorems |
| `ConflictGraph` | the baseline: conflict graph, components, cycles, aborts, topological order, commit |
| `ConcurrencySchemes` | the benchmark's comparison: one of the schemes on one list |
| `BenchDepurge` | `TestDepurge` of the benchmark, composed with `DepurgeScheduler` |
| `MC...` | instances for TLC |

**DepurgeScheduler.** Every public method takes `ds.mu`, so each is one
action. `running` is not a field of the Go struct: it is the set of
transactions that were popped and not yet executed or aborted. The lists
`readyQueue` and `pruneReadyQueue`, with the maps that mirror them, are sets;
the order of pops is left open. Transactions are numbered in the order of
their TxID strings, in which `Depurge_schedule` adds them. `SchedNext` is the
protocol of the drivers: a block of any number of transactions is added before
the first one is popped.

**ReplayDepurge.** `loop` is the main goroutine, `worker[t]` the goroutine of
a transaction. Each access to shared state is one step: the three reads of the
exit condition, the pop, `Invoke`, the overlay, the re-execution, each
scheduler call, the publication of the values, the release of the levm worker
and the decrement of `inProgress`. A value is named by the transaction that
wrote it. A re-execution fails or touches one of `RealSets`. `Contexts` has the
number of scheduled transactions of each block, which differ: the last slice of
the range may be shorter, and a transaction whose pre-execution failed has no
context. Each block gets a new scheduler, `committedDelta` and the list stay.

**VegetaDag.** `TxOrder` is the order of the range, the numbers are the order
of the hashes, in which batches and the replay list are sorted. Ranging over
the Go maps gives any order of the readers and of the writers of a key, and
`sort.Slice` any order of chains of equal length: `ChainOrders` has every
result. `blockSize` is the flag `--txs-per-block`, chosen once. `order` is a
history of the chain orders.

**VegetaOverlay.** The batch's snapshot is `committedDelta`, which only `Merge`
changes. The append to `serialReplayList` outside the lock is a data race: a
read and a store of the slice. The model therefore loses failed transactions as
the code does (section 3).

**VegetaSharedTrie.** A transaction loads accounts into its objects on first
use and flushes them one by one. `AccountOf` says which keys share an account.
`AccountsApart` says of a range that two transactions that may write to a common
account conflict in the DAG. The code does not see to it (`HasConflict` compares keys,
and a contract has many slots), so properties of values are stated under it.
`revision` is whether the snapshot is still valid: `Finalise` drops it, and
`RevertToSnapshot` panics without it. Balances, nonces and deleted accounts
are not keys of the drivers and are left out.

**DatasetExporter.** `file` and `checkpoint` survive the process. Saving, by a
goroutine or after a signal, is truncation followed by a write; two saves at
once leave either number or a file that does not parse, and so does a crash in
between. A signal is noticed at the top of the loop only. Goroutines run on
while the main one saves, until `os.Exit` ends them. `Interval` stands for the 10 of the code, so that
checkpoints happen within three blocks. A block whose traces failed is written
all the same and counts as full, as in the code. The four requests of a block
(block, receipts, two traces of a transaction) are attempts that each take a
token of the rate limiter; the wait before a retry is part of the attempt.

**Workload.** A simulated transaction is the pair of the keys it read and
wrote. A key is the rank of its composite key, because `QueuesSort` sorts the
keys. A transaction without keys is an empty slot of `sortedTxs`. The commits
store under the bare key of the node, without its contract: `SlotOf` maps a
composite key to that entry of the database, and two contracts may share one.

**QueueGraph.** One step is a turn of `AdvancedTopologicalSort`, the sorting of
one queue, the start of one number of the commit, or one `StoreState`. All
nodes of a transaction carry the same `Sequence` between calls
(`assignSequence`), so `seq` has one number per transaction. Numbers are given
by the place of a transaction among the others instead of by loops:
`FreeNumber(used, from, n)` is what the n-th turn of the search for an unused
number finds, `Rank` the turn in which a transaction comes. The two schemes
differ in `Moved` (the variable scheme keeps all transactions that read and
write the key) and in `OutOfRange` (it panics on an empty slot). The commit of
the variable scheme, which re-executes, is not modelled.

**ConflictGraph.** Tarjan's and Johnson's recursions are recursive operators
over a record of their shared arrays; a step builds a vertex, finds the
components, searches one for cycles, breaks cycles by one abort, or sorts one
transaction.

**BenchDepurge.** As `ReplayDepurge`, with what `TestDepurge` does differently:
the exit condition reads the queues first, a failed re-execution is not
replayed, the conservative keys are computed again on the current state, and
`commitOrder` is appended to without a lock. Values are left out. Its commit looks
bare keys up in a map of `Contract:key` entries, finds none and stores nothing.

## 3. Runs

| run | instance | checks |
|---|---|---|
| `sched` | up to 4 transactions, 2 keys | exclusion, no stall, nothing left in the queues, the inductive invariant (types, exact counters, one worker per transaction), refinement of `OrderedKeyLocks`, every transaction finishes |
| `replay` | a block of 3 and one of 1, 2 keys, 2 goroutines, 3 claims, 4 outcomes of a re-execution and its failure | nothing dropped or counted twice, pool free for serial replay, pruning safe, delta complete, the inductive invariant, protocol of the scheduler across blocks, termination |
| `vegeta_overlay` | 3 transactions, one block or blocks of 2, 2 keys, 2 goroutines | serial equivalence, final delta, no transaction lost by the DAG, only aborted ones replayed, the inductive invariant, termination |
| `vegeta_trie` | 3 transactions, one block or blocks of 2, 2 keys of one account and 1 of another, 2 workers, failing flushes | serial equivalence and trie content while accounts are apart, flushed or replayed, the inductive invariant, the mode ends |
| `exporter` | 3 blocks, 2 slots, 2 starts, 1 retry | gaps of a completed run, the inductive invariant, every run ends |
| `schemes` | every list of 3 transactions over 2 keys; every list of 4 that each write a key of their own and read up to two others; two dense lists of 4; one list of 5; one of 6; lists of two contracts with a common slot; all three schemes | every queue once, order inside a queue, serializable numbers if the queues' dependencies are acyclic, no lost update, last writer of every database entry stored, every cycle found and broken, commit order of the baseline, the inductive invariant, every scheme ends |

Why the bounds are enough for the cases of interest: three transactions are
the least with a waiting transaction released by one that itself waited, and
with a batch in which a later transaction runs before an earlier one that
waits; two keys let transactions share one key and not the other; two
goroutines are the least that race, and fewer than a block's transactions, so that
`Invoke` waits. Two blocks, the second shorter, carry state from one to the
next; two keys of one account and one of another give transactions that flush
each other's keys and yet conflict. Two starts of the exporter are a run and its resumption; one retry is an
attempt that may be followed by another. Three transactions over two keys give
cyclic queue dependencies and a number that two queues disagree on; the lists
of four have components with several overlapping cycles, where Johnson's
blocking matters; the list of five breaks its cycles by aborting a transaction
and then its neighbours, as in `cg_aborted`; in the list of six a cycle of
queues costs a reader its place (below).
What is proved (section 4) holds for every bound.

Deadlock checking is off where the system really stops: the scheduler and the
Depurge driver when everything is done, the exporter when no start is left.
The Vegeta modules and `ConcurrencySchemes` have an explicit terminal step and
are checked for deadlock.

### Disagreements found

| run | what the code does |
|---|---|
| `replay_overlay` | `Execute` releases successors before the values are in `committedDelta` (`test_replay.go` 462 and 471); for the same reason two writers of a key can publish in the wrong order |
| `vegeta_trie_slots` | two transactions writing different slots of one account: one write is lost |
| `nezha_order` | two committed writers of a key can get the same number, and are then stored concurrently (`conflict_queue.go` 326): `LastWriterStored` holds, but which of them is last is open |
| `cg_aborted` | an aborted transaction with arcs only from aborted ones is committed (`classical_graph.go` 101) |
| `exporter_checkpoint` | on a signal the block before the next one is recorded, although earlier blocks are still being fetched; the exit ends them and the next run starts after them (`main.go` 111) |
| `bench_drops` | the benchmark's loop can end with a transaction still queued (`test.go` 1014) |

The comment or document each contradicts is quoted in `PROJECT.json`.

The models contain further behaviour that a reader may not expect and that no
run is devoted to: after a failed re-execution in the Depurge mode only that
transaction is replayed, its dependents commit; a failed flush of the shared-trie
mode reverts to a snapshot that `Finalise` dropped, which panics; a checkpoint
torn by a crash or by two saves stops every later run; the variable scheme panics
on an empty slot.

One of these contradicts the code's own comment. In the overlay mode the
goroutines of a batch append to `serialReplayList` without a lock
(`test_replay.go` 1440 and 1469). When two fail at the same time, one append can
be lost: that transaction is neither merged nor replayed, while line 1490 says
that failed ones "will be replayed serially in Step 8". `Reject` and `StoreList`
do this, and no property here should be read as excluding it: `EveryTxDecided`
says that such a transaction counts as aborted, and `SerialEquivalence` is about
the transactions that were committed or replayed.

When the dependencies between queues have a cycle, the numbers of
the queue scheme need not be serializable, even if nobody reads and writes the
same key. `QueuesSort` may then take a queue before one whose writers read it;
if these writers share a number, `sortInQueue` gives the second a new one
(`conflict_queue.go` 329), which may be that of a transaction overwriting what it
read, or a higher one. `RenumberedReader` in `MCConcurrencySchemes` is such a
list: transaction 4 reads key 1, transaction 5 writes it, and both commit with
the number 12. `ReadersFirst` is therefore stated, and proved, for acyclic
dependencies.

### Fairness

Weak fairness of each goroutine: the Go runtime runs every runnable goroutine,
the main loops poll without blocking except where an action's guard says so,
and a re-execution ends because levm runs under a gas limit. No fairness is
assumed of failures, signals or crashes. The ticker of the rate limiter ticks.
The schemes are sequential code whose goroutines only call `StoreState`: the
fairness of `ConcurrencySchemes` is that of its next-state relation, written
out because that relation is enabled until the scheme has stopped.

## 4. Proofs

Assumed of the constants: `NTx` is a natural number, `Keys` is finite,
`NBlocks` and `PoolSize` are positive, a block has at most `NTx` contexts, claims
and outcomes are sets of keys, and the transactions whose pre-execution
failed are none of the scheduled ones; for the queue schemes, that `NKeys` is
positive, every list has pairs of sets of keys and every key an entry of the
database; for Vegeta, that `TxOrder`
lists the numbers from 1 without repetition, block sizes are natural numbers,
there is a worker, and speculative and real sets are sets of keys; for the
exporter, that the range, the slots, the interval and the starts are positive.
Nothing else is assumed.

`SchedInv` is inductive: queues are sorted by TxID and hold only unfinished
transactions that claim the key, a counter is the number of queues in which
another transaction is ahead, and a transaction is ready or running exactly
when it waits nowhere. Counters and exclusion are not inductive alone: a
release has to know that the next transaction of a queue waits there.
`NeverStalls` follows because the least unfinished TxID is first in all its
queues. `SchedulerImplementsLocks` maps `held[t]` to the queues that contain
`t`.

`DriverInv` adds the agreement of the driver with the scheduler: `inProgress`
counts the busy goroutines, idle workers and holders add up to the pool,
`running` is what the goroutines have in hand, a transaction is executed
exactly when it is committed, listed, or about to be listed, the delta has a
committed value for every published key, and a goroutine claims what it
touched. Once `inProgress` was read as 0 nobody is left who could push, which
is why the order of the three reads is safe (`LoopDropsNothing`), and why a new
scheduler replaces only one that has executed or aborted its whole block
(`DriverFollowsProtocol`).

`QueueInv` has one part per phase. `SortInv`: the in-degrees count the arcs
between unsorted queues exactly, a queue of degree 0 is in the list, and a list
of several queues has only such; so a turn never empties the list early, and
the queue that `findMaxNode` appends is not there yet (`QueuesSortComplete`).
`NumberInv`: in the queues already sorted everyone has a number, and at most
one transaction that reads and writes the key is not aborted
(`NoUpdateLost`). `CommitInv`: up to the current number, what is not being
stored was stored, or a value with a higher number was, in the entry of the
database that the keys of several contracts may share
(`HighestWriterStored`). `EveryQueueSorted` is about one call of `sortInQueue`
on whatever numbers it finds: `SortReadersSorts` gives the bound `maxRead` on
the readers, `SortWritersSorts` numbers the writers in four groups (moved, new,
kept, renumbered) that lie apart from one another and above the readers.

`OrderInv`, the part for `AcyclicSerializable`: without cycles the queue that a
turn takes has no arc from an unsorted queue (`HeadIsFree`), so every queue a
transaction writes is sorted before those it reads. After a queue is sorted the
numbers of its readers no longer change, and those of its writers only grow.

`DagInv` is what both Vegeta modes rest on: the chain order has the transactions
of the blocks begun once each, a block ends when all of its transactions were
executed (a non-empty remainder always has a ready one, its first in chain
order), and of two conflicting transactions the earlier is executed first.
`VegetaDagProofs` turns this into what a merge needs: the transactions of a batch
do not conflict with one another nor with earlier ones that have not been
executed, so joining them to the committed ones changes neither what those read
nor who wrote last before a member of the batch (`JoiningReads`, `DoneReads`).

`OverlayInv` adds that the executed transactions are the committed and the
aborted ones, that results are of transactions handed to a goroutine and within
their speculative sets, that `committedDelta` has the last committed writer of
each key, that every committed transaction read what a serial execution in chain
order gives it, and that the replay redoes the listed transactions in the order
of their TxIDs. It implies `SerialEquivalence`, `DeltaIsSerialState` and `EveryTxDecided`.

`SharedTrieInv` has the same structure with object caches and flushes one account
at a time. During a batch a key of the trie has the value of the transaction that
flushed it, or the one it had when the batch began (`KeyInv`), and what the
transactions of the batch read is of the latter kind, although the trie changes
under them: who writes a key that another one reads is not in the same batch.
`NothingLost` holds for any range and any `AccountOf`. `Serializable` and
`TrieSerial` prove `SerialIfAccountsApart` and `CarriedIfAccountsApart`: an account
may have any number of keys, and a flush carries along the ones its transaction
did not write, with the values they had when the batch began (`AccountInv`). That
this is harmless needs `AccountsApart`; `vegeta_trie_slots` violates
`TrieCarriesEveryWrite` without it.

`ExporterInv` says that every block the loop has passed is written, logged, still
with a goroutine, or skipped by the checkpoint the run resumed from, and that a
stop of the process makes at most `Slots` blocks skippable, for no more
goroutines than that exist at once. From the latter `CheckpointLoss` bounds what
the checkpoints of `exporter_checkpoint`'s kind can cost in all.

Only model-checked: liveness (`AllFinish`, `EventuallyDone`,
`EventuallyEnds`, `RunsEnd`, `SchemesEnd`), which the proof system does not
cover; everything about the conflict-graph baseline (`CyclesFound`,
`CyclesBroken`, `CommitOrderSerializable`), whose algorithms are recursive; and
`TypeOK` of `ConcurrencySchemes`, which speaks of the baseline as well.

## 5. Not modelled

- The EVM interpreter, hashing and encoding, workload generation,
  configuration, report output, prompts to the language model and the caches of
  its answers: data to the schedulers, or pure I/O. The vendored go-ethereum is
  by far most of the repository's code; only the parts of its StateDB that the
  shared-trie mode changed are modelled.
- `TestVegeta` of the benchmark: chain order, DAG and batches are those of
  `VegetaDag`, but it adds deltas to the state while a batch runs. Its values,
  like those of `TestDepurge`, are sums of deltas, which the models do not have.
- The commit of the variable scheme. It re-executes the transactions of a number
  on a copy of the state, and whether one is valid depends on its deltas.
- `RemoveCycles`, `GetAllCycles`, `BuildConflictGraph`, and with them `graph/tarjan.go`
  and `graph/johnson_cycles.go`: no scheme calls them.
- The batch calls of the levm pool, which loop over the modelled ones, and the
  arithmetic of the deltas.
- The sparse replay daemon and the fetchers: sequential programs around the EVM
  and a web service.
