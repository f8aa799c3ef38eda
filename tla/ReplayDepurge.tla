--------------------------- MODULE ReplayDepurge ---------------------------
(***************************************************************************)
(* runReplayDepurgeMode of test_replay.go: the transactions of each block  *)
(* are scheduled by the Depurge scheduler, validated concurrently by a     *)
(* pool of goroutines that re-execute them on pooled levm workers, and     *)
(* those that abort are replayed serially after the last block.            *)
(*                                                                         *)
(* The scheduler is DepurgeScheduler, whose methods are the atomic steps   *)
(* the goroutines make.  A value of the state is named by the transaction  *)
(* that wrote it: <<block, tx>>, or Witness for the value before the run.  *)
(* Re-execution is external: it fails, or it reads and writes any keys.    *)
(***************************************************************************)
EXTENDS DepurgeScheduler

CONSTANTS NBlocks,    \* blocks of at most txsPerBlock transactions
          Contexts,   \* how many transactions of each block have a context
          ClaimSets,  \* the conservative key sets considered
          RealSets,   \* <<keys read, keys written>> of a re-execution
          PoolSize,   \* runtime.NumCPU(): goroutines of the ants pool, and levm workers
          PreExecFailed   \* transactions without a speculative RW set

Blocks  == 1..NBlocks

ASSUME DriverAssumption == NBlocks \in Nat \ {0} /\ PoolSize \in Nat \ {0}
ASSUME FailedAssumption == PreExecFailed \cap (Blocks \X Txs) = {}
ASSUME BlockAssumption ==
    /\ Contexts \in [Blocks -> 0..NTx]
    /\ ClaimSets \subseteq SUBSET Keys
    /\ RealSets \subseteq (SUBSET Keys) \X (SUBSET Keys)

Witness == <<0, 0>>
Writers == {Witness} \cup (Blocks \X Txs)

VARIABLES
    block,             \* the block being validated
    loop,              \* where the main goroutine is
    inProgress,        \* the atomic counter the main loop polls
    worker,            \* where the goroutine of each transaction is
    overlaySnapshot,   \* what the goroutine copied of committedDelta
    real,              \* the real keys of its re-execution
    wrote,             \* the keys of its result.WriteValues
    idle,              \* idle levm workers
    committedDelta,    \* key -> value written by committed transactions
    lastExecuted,      \* key -> last transaction that wrote it and was Executed
    committed,         \* transactions counted as committed
    reexecError,       \* transactions counted in reexecErrorCount
    serialReplayList,  \* transactions to be replayed serially
    serialReplayed     \* transactions replayed serially

driverVars == <<block, loop, inProgress, worker, overlaySnapshot, real, wrote,
                idle, committedDelta, lastExecuted, committed,
                reexecError, serialReplayList, serialReplayed>>
vars == <<schedVars, driverVars>>

NoKeys == [t \in Txs |-> {}]

DriverInit ==
    /\ SchedInit
    /\ block = 1
    /\ loop = "schedule"
    /\ inProgress = 0
    /\ worker = [t \in Txs |-> "none"]
    /\ overlaySnapshot = [t \in Txs |-> [k \in Keys |-> Witness]]
    /\ real = NoKeys
    /\ wrote = NoKeys
    /\ idle = PoolSize
    /\ committedDelta = [k \in Keys |-> Witness]
    /\ lastExecuted = [k \in Keys |-> Witness]
    /\ committed = {}
    /\ reexecError = {}
    /\ serialReplayList = PreExecFailed
    /\ serialReplayed = {}

-----------------------------------------------------------------------------
(* The main goroutine *)

\* everything the main goroutine leaves to the workers
workerVars == <<worker, overlaySnapshot, real, wrote, idle, committedDelta,
                lastExecuted, committed, reexecError, serialReplayList>>

\* blockContexts holds the transactions of the block's slice that have a
\* context: the last slice may be shorter, and PreExecute may have failed.
Schedule(t, ks) ==
    /\ loop = "schedule"
    /\ t <= Contexts[block]
    /\ addTransaction(t, ks)
    /\ UNCHANGED driverVars

GoTo(from, to) ==
    /\ loop = from
    /\ loop' = to

Scheduled ==
    /\ added = Contexts[block]
    /\ GoTo("schedule", "readInProgress")
    /\ UNCHANGED <<schedVars, workerVars, block, inProgress, serialReplayed>>

\* Variant: the exit condition looks at the queues alone.
ReadInProgressIgnored ==
    /\ loop = "readInProgress"
    /\ loop' = "readReady"
    /\ UNCHANGED <<schedVars, workerVars, block, inProgress, serialReplayed>>

\* The three reads of the exit condition are three steps, in this order.
ReadInProgress ==
    /\ loop = "readInProgress"
    /\ loop' = IF inProgress = 0 THEN "readReady" ELSE "popReady"
    /\ UNCHANGED <<schedVars, workerVars, block, inProgress, serialReplayed>>

ReadReady ==
    /\ loop = "readReady"
    /\ loop' = IF readyQueue = {} THEN "readPruneReady" ELSE "popReady"
    /\ UNCHANGED <<schedVars, workerVars, block, inProgress, serialReplayed>>

ReadPruneReady ==
    /\ loop = "readPruneReady"
    /\ loop' = IF pruneReadyQueue = {} THEN "blockDone" ELSE "popReady"
    /\ UNCHANGED <<schedVars, workerVars, block, inProgress, serialReplayed>>

\* The popped transaction is counted before Invoke, which blocks while every
\* goroutine of the pool is busy.
Dispatch(t, next) ==
    /\ inProgress' = inProgress + 1
    /\ worker' = [worker EXCEPT ![t] = "invoked"]
    /\ loop' = next
    /\ UNCHANGED <<block, overlaySnapshot, real, wrote, idle, committedDelta,
                   lastExecuted, committed, reexecError, serialReplayList,
                   serialReplayed>>

Goroutines == {t \in Txs : worker[t] \notin {"none", "invoked"}}

\* Variant: the pool admits one goroutine too many.
InvokeOneMore(t) ==
    /\ worker[t] = "invoked"
    /\ Cardinality(Goroutines) <= PoolSize
    /\ worker' = [worker EXCEPT ![t] = "start"]
    /\ loop' = IF loop = "invokeReady" THEN "popReady" ELSE "popPruneReady"
    /\ UNCHANGED <<schedVars, block, inProgress, overlaySnapshot, real, wrote, idle,
                   committedDelta, lastExecuted, committed, reexecError,
                   serialReplayList, serialReplayed>>

Invoke(t) ==
    /\ worker[t] = "invoked"
    /\ Cardinality(Goroutines) < PoolSize
    /\ worker' = [worker EXCEPT ![t] = "start"]
    /\ loop' = IF loop = "invokeReady" THEN "popReady" ELSE "popPruneReady"
    /\ UNCHANGED <<schedVars, block, inProgress, overlaySnapshot, real, wrote, idle,
                   committedDelta, lastExecuted, committed, reexecError,
                   serialReplayList, serialReplayed>>

DispatchReady(t) ==
    /\ loop = "popReady"
    /\ PopReady(t)
    /\ Dispatch(t, "invokeReady")

NoMoreReady ==
    /\ readyQueue = {}
    /\ GoTo("popReady", "popPruneReady")
    /\ UNCHANGED <<schedVars, workerVars, block, inProgress, serialReplayed>>

DispatchPruneReady(t) ==
    /\ loop = "popPruneReady"
    /\ PopPruneReady(t)
    /\ Dispatch(t, "invokePruneReady")

NoMorePruneReady ==
    /\ pruneReadyQueue = {}
    /\ GoTo("popPruneReady", "readInProgress")
    /\ UNCHANGED <<schedVars, workerVars, block, inProgress, serialReplayed>>

\* Variant: the next block reuses the scheduler's record of executed ones.
NextBlockSameExecuted ==
    /\ block < NBlocks
    /\ block' = block + 1
    /\ GoTo("blockDone", "schedule")
    /\ added' = 0
    /\ txKeyMap' = NoKeys
    /\ keyQueues' = [k \in Keys |-> <<>>]
    /\ txReadyCount' = [t \in Txs |-> 0]
    /\ UNCHANGED <<txExecuted, readyQueue, pruneReadyQueue, running>>
    /\ UNCHANGED <<workerVars, inProgress, serialReplayed>>

\* The next block gets a scheduler of its own; committedDelta and
\* serialReplayList are shared across blocks.
NextBlock ==
    /\ block < NBlocks
    /\ block' = block + 1
    /\ GoTo("blockDone", "schedule")
    /\ added' = 0
    /\ txKeyMap' = NoKeys
    /\ keyQueues' = [k \in Keys |-> <<>>]
    /\ txReadyCount' = [t \in Txs |-> 0]
    /\ txExecuted' = {}
    /\ readyQueue' = {}
    /\ pruneReadyQueue' = {}
    /\ running' = {}
    /\ UNCHANGED <<workerVars, inProgress, serialReplayed>>

StartSerialReplay ==
    /\ block = NBlocks
    /\ GoTo("blockDone", "serial")
    /\ UNCHANGED <<schedVars, workerVars, block, inProgress, serialReplayed>>

\* The first replayed transaction starts from committedDelta and writes its
\* values back to it, the later ones run on the replayer's own state; both
\* leave the list as it is, and a failed replay counts as replayed.
SerialReplay(x, ws) ==
    /\ loop = "serial"
    /\ x \in serialReplayList \ serialReplayed
    /\ \A y \in serialReplayList \ serialReplayed :
            (x \in Writers /\ y \in Writers /\ x[1] = y[1]) => x[2] <= y[2]
    /\ serialReplayed' = serialReplayed \cup {x}
    /\ committedDelta' = IF serialReplayed = {}
                         THEN [k \in Keys |-> IF k \in ws THEN x ELSE committedDelta[k]]
                         ELSE committedDelta
    /\ UNCHANGED <<schedVars, block, loop, inProgress, worker, overlaySnapshot, real,
                   wrote, idle, lastExecuted, committed, reexecError, serialReplayList>>

Finished ==
    /\ serialReplayed = serialReplayList
    /\ GoTo("serial", "done")
    /\ UNCHANGED <<schedVars, workerVars, block, inProgress, serialReplayed>>

-----------------------------------------------------------------------------
(* The goroutine that validates transaction t *)

\* everything a goroutine leaves to the main one
loopVars == <<block, loop, serialReplayed>>

\* the goroutine's locals; each is reset after its last read
locals == <<overlaySnapshot, real, wrote>>

Step(t, from, to) ==
    /\ worker[t] = from
    /\ worker' = [worker EXCEPT ![t] = to]
    /\ UNCHANGED loopVars

\* filterOverlayByKeys under the read lock
TakeOverlay(t) ==
    /\ Step(t, "start", "reExecute")
    /\ overlaySnapshot' = [overlaySnapshot EXCEPT ![t] =
            [k \in Keys |-> IF k \in txKeyMap[t] THEN committedDelta[k] ELSE Witness]]
    /\ UNCHANGED <<schedVars, inProgress, real, wrote, idle, committedDelta,
                   lastExecuted, committed, reexecError, serialReplayList>>

NoOverlay == [k \in Keys |-> Witness]

\* Acquire blocks until a levm worker is idle.  ReExecute works on that
\* worker's own state and touches nothing shared, so both are one step.
ReExecuteOk(t, rs, ws) ==
    /\ idle > 0
    /\ idle' = idle - 1
    /\ Step(t, "reExecute", IF rs \cup ws \subseteq txKeyMap[t] THEN "prune" ELSE "abort")
    /\ real' = [real EXCEPT ![t] = rs \cup ws]
    /\ wrote' = [wrote EXCEPT ![t] = ws]
    /\ overlaySnapshot' = [overlaySnapshot EXCEPT ![t] = NoOverlay]
    /\ UNCHANGED <<schedVars, inProgress, committedDelta,
                   lastExecuted, committed, reexecError, serialReplayList>>

ReExecuteError(t) ==
    /\ idle > 0
    /\ idle' = idle - 1
    /\ Step(t, "reExecute", "abort")
    /\ reexecError' = reexecError \cup {<<block, t>>}
    /\ overlaySnapshot' = [overlaySnapshot EXCEPT ![t] = NoOverlay]
    /\ UNCHANGED <<schedVars, inProgress, real, wrote, committedDelta,
                   lastExecuted, committed, serialReplayList>>

AbortTx(t) ==
    /\ Step(t, "abort", "append")
    /\ Abort(t)
    /\ real' = [real EXCEPT ![t] = {}]
    /\ wrote' = [wrote EXCEPT ![t] = {}]
    /\ UNCHANGED <<inProgress, overlaySnapshot, idle, committedDelta, lastExecuted,
                   committed, reexecError, serialReplayList>>

AppendSerial(t) ==
    /\ Step(t, "append", "release")
    /\ serialReplayList' = serialReplayList \cup {<<block, t>>}
    /\ UNCHANGED <<schedVars, inProgress, locals, idle, committedDelta, lastExecuted,
                   committed, reexecError>>

\* Variant: Prune is given the written keys in place of the touched ones.
PruneTxReads(t) ==
    /\ Step(t, "prune", "execute")
    /\ IF txKeyMap[t] \subseteq real[t] THEN UNCHANGED schedVars ELSE Prune(t, wrote[t])
    /\ UNCHANGED <<inProgress, locals, idle, committedDelta,
                   lastExecuted, committed, reexecError, serialReplayList>>

\* Prune is called only when some conservative key was not touched.
PruneTx(t) ==
    /\ Step(t, "prune", "execute")
    /\ IF txKeyMap[t] \subseteq real[t] THEN UNCHANGED schedVars ELSE Prune(t, real[t])
    /\ UNCHANGED <<inProgress, locals, idle, committedDelta,
                   lastExecuted, committed, reexecError, serialReplayList>>

\* Variant: a committed transaction is not marked in the scheduler.
ExecuteTxUnmarked(t) ==
    /\ Step(t, "execute", "publish")
    /\ committed' = committed \cup {<<block, t>>}
    /\ lastExecuted' = [k \in Keys |->
            IF k \in wrote[t] THEN <<block, t>> ELSE lastExecuted[k]]
    /\ real' = [real EXCEPT ![t] = {}]
    /\ UNCHANGED <<schedVars, inProgress, overlaySnapshot, wrote, idle, committedDelta,
                   reexecError, serialReplayList>>

ExecuteTx(t) ==
    /\ Step(t, "execute", "publish")
    /\ Execute(t)
    /\ committed' = committed \cup {<<block, t>>}
    /\ lastExecuted' = [k \in Keys |->
            IF k \in wrote[t] THEN <<block, t>> ELSE lastExecuted[k]]
    /\ real' = [real EXCEPT ![t] = {}]
    /\ UNCHANGED <<inProgress, overlaySnapshot, wrote, idle, committedDelta, reexecError,
                   serialReplayList>>

\* Variant: only the keys that are in committedDelta already are updated.
PublishDeltaKnown(t) ==
    /\ Step(t, "publish", "release")
    /\ committedDelta' = [k \in Keys |->
            IF k \in wrote[t] /\ committedDelta[k] # Witness
            THEN <<block, t>> ELSE committedDelta[k]]
    /\ wrote' = [wrote EXCEPT ![t] = {}]
    /\ UNCHANGED <<schedVars, inProgress, overlaySnapshot, real, idle, lastExecuted,
                   committed, reexecError, serialReplayList>>

PublishDelta(t) ==
    /\ Step(t, "publish", "release")
    /\ committedDelta' = [k \in Keys |->
            IF k \in wrote[t] THEN <<block, t>> ELSE committedDelta[k]]
    /\ wrote' = [wrote EXCEPT ![t] = {}]
    /\ UNCHANGED <<schedVars, inProgress, overlaySnapshot, real, idle, lastExecuted,
                   committed, reexecError, serialReplayList>>

\* The deferred calls run in reverse order: first the worker goes back to the
\* pool, then inProgress is decremented and the goroutine is free.
ReleaseWorker(t) ==
    /\ Step(t, "release", "leave")
    /\ idle' = idle + 1
    /\ UNCHANGED <<schedVars, inProgress, locals, committedDelta, lastExecuted,
                   committed, reexecError, serialReplayList>>

\* Variant: the goroutine ends without the decrement.
LeaveCounted(t) ==
    /\ Step(t, "leave", "none")
    /\ UNCHANGED <<schedVars, inProgress, locals, idle, committedDelta, lastExecuted,
                   committed, reexecError, serialReplayList>>

Leave(t) ==
    /\ Step(t, "leave", "none")
    /\ inProgress' = inProgress - 1
    /\ UNCHANGED <<schedVars, locals, idle, committedDelta, lastExecuted, committed,
                   reexecError, serialReplayList>>

-----------------------------------------------------------------------------
LoopStep ==
    \/ Scheduled
    \/ ReadInProgress
    \/ ReadReady
    \/ ReadPruneReady
    \/ \E t \in Txs : DispatchReady(t)
    \/ \E t \in Txs : Invoke(t)
    \/ NoMoreReady
    \/ \E t \in Txs : DispatchPruneReady(t)
    \/ NoMorePruneReady
    \/ NextBlock
    \/ StartSerialReplay
    \/ \E x \in PreExecFailed \cup Writers, ws \in SUBSET Keys : SerialReplay(x, ws)
    \/ Finished

WorkerStep(t) ==
    \/ TakeOverlay(t)
    \/ \E rw \in RealSets : ReExecuteOk(t, rw[1], rw[2])
    \/ ReExecuteError(t)
    \/ AbortTx(t)
    \/ AppendSerial(t)
    \/ PruneTx(t)
    \/ ExecuteTx(t)
    \/ PublishDelta(t)
    \/ ReleaseWorker(t)
    \/ Leave(t)

DriverNext ==
    \/ \E t \in Txs, ks \in ClaimSets : Schedule(t, ks)
    \/ LoopStep
    \/ \E t \in Txs : WorkerStep(t)

DriverSpec == DriverInit /\ [][DriverNext]_vars

\* The main goroutine and the pool's goroutines are scheduled by the Go
\* runtime; a re-execution ends (levm runs under a gas limit).
DriverFairness ==
    /\ WF_vars(\E t \in Txs, ks \in ClaimSets : Schedule(t, ks))
    /\ WF_vars(LoopStep)
    /\ \A t \in Txs : WF_vars(WorkerStep(t))

FairDriverSpec == DriverSpec /\ DriverFairness
-----------------------------------------------------------------------------
(* Properties *)

Places == {"none", "invoked", "start", "reExecute", "abort", "append", "prune",
           "execute", "publish", "release", "leave"}

\* Every variable of runReplayDepurgeMode has its type: the counter counts the
\* pool's goroutines and the one waiting in Invoke, the pool never overflows.
DriverTypeOK ==
    /\ SchedTypeOK
    /\ block \in Blocks
    /\ loop \in {"schedule", "readInProgress", "readReady", "readPruneReady",
                 "popReady", "invokeReady", "popPruneReady", "invokePruneReady",
                 "blockDone", "serial", "done"}
    /\ inProgress \in 0..(PoolSize + 1)
    /\ worker \in [Txs -> Places]
    /\ overlaySnapshot \in [Txs -> [Keys -> Writers]]
    /\ real \in [Txs -> SUBSET Keys]
    /\ wrote \in [Txs -> SUBSET Keys]
    /\ idle \in 0..PoolSize
    /\ committedDelta \in [Keys -> Writers \cup PreExecFailed]
    /\ lastExecuted \in [Keys -> Writers]
    /\ committed \subseteq Blocks \X Txs
    /\ reexecError \subseteq Blocks \X Txs
    /\ serialReplayList \subseteq PreExecFailed \cup (Blocks \X Txs)
    /\ serialReplayed \subseteq serialReplayList

\* The exit condition of the main loop is safe (the comment above it): the
\* loop ends only when every transaction of the block was committed or is on
\* serialReplayList, and none is both.  Reading the queues before inProgress
\* loses a transaction that the last worker releases between the reads.
EveryTxOnce ==
    /\ committed \cap serialReplayList = {}
    /\ loop = "blockDone" =>
            \A t \in 1..Contexts[block] : <<block, t>> \in committed \cup serialReplayList

\* "Safe because the validation loop is done; no other goroutine uses the pool
\* concurrently at this point": when serial replay takes a levm worker, every
\* worker is back in the pool, because Release is deferred after the decrement
\* of inProgress and so runs before it.
SerialReplayAlone ==
    loop \in {"blockDone", "serial"} =>
        /\ idle = PoolSize
        /\ \A t \in Txs : worker[t] = "none"

\* Both pools have NumCPU members and a goroutine holds at most one levm
\* worker, so Acquire never waits and the two pools cannot block each other.
AcquireNeverWaits ==
    \A t \in Txs : worker[t] = "reExecute" => idle > 0

\* When the loop of a block ends, every key that a committed transaction wrote
\* is in committedDelta with a value that a committed transaction wrote: no
\* write is dropped, and none of an aborted transaction is kept.
DeltaComplete ==
    loop = "blockDone" =>
        \A k \in Keys : /\ committedDelta[k] = Witness <=> lastExecuted[k] = Witness
                        /\ committedDelta[k] \in committed \cup {Witness}

\* Pruning is safe: of two goroutines whose transactions are about to commit,
\* none touched a key that the other touched, although each gave back the keys
\* it claimed in vain before it called Execute.
NoConflictInFlight ==
    \A t, u \in Txs :
        (t # u /\ worker[t] \in {"prune", "execute"} /\ worker[u] \in {"prune", "execute"})
            => real[t] \cap real[u] = {}

(* The inductive invariant behind the properties above. *)

Busy    == {t \in Txs : worker[t] # "none"}
Holding == {t \in Txs : worker[t] \in {"abort", "append", "prune", "execute",
                                       "publish", "release"}}
InHand  == {t \in Txs : worker[t] \in {"invoked", "start", "reExecute", "abort",
                                       "prune", "execute"}}

CountInv ==
    /\ inProgress = Cardinality(Busy)
    /\ idle = PoolSize - Cardinality(Holding)
    /\ Cardinality(Goroutines) <= PoolSize

\* Once inProgress was read as 0 no goroutine is left that could push, so what
\* the loop reads of the queues afterwards stays true.
LoopInv ==
    /\ running = InHand
    /\ \A t \in Txs : worker[t] \in {"append", "publish", "release", "leave"}
                        => t \in txExecuted
    /\ loop = "schedule" => txExecuted = {}
    /\ loop # "schedule" => added = Contexts[block]
    /\ loop \in {"schedule", "readReady", "readPruneReady", "blockDone", "serial",
                 "done"} => Busy = {}
    /\ loop \in {"readPruneReady", "blockDone", "serial", "done"} => readyQueue = {}
    /\ loop \in {"blockDone", "serial", "done"} => pruneReadyQueue = {}
    /\ \A t \in Txs : worker[t] = "invoked" => loop \in {"invokeReady", "invokePruneReady"}
    /\ \A t, u \in Txs : worker[t] = "invoked" /\ worker[u] = "invoked" => t = u

OnceInv ==
    /\ committed \cap serialReplayList = {}
    /\ \A t \in Txs : t \in txExecuted <=> \/ worker[t] = "append"
                                          \/ <<block, t>> \in committed \cup serialReplayList
    /\ \A t \in Txs : worker[t] = "append" => <<block, t>> \notin committed \cup serialReplayList
    /\ \A b \in Blocks, t \in Txs : <<b, t>> \in committed \cup serialReplayList => b <= block

DeltaInv ==
    /\ loop \notin {"serial", "done"} =>
            \A k \in Keys :
                /\ committedDelta[k] \in committed \cup {Witness}
                /\ committedDelta[k] # Witness => lastExecuted[k] # Witness
                /\ lastExecuted[k] # Witness =>
                        \/ committedDelta[k] # Witness
                        \/ \E t \in Txs : worker[t] = "publish" /\ k \in wrote[t]
    /\ \A t \in Txs : worker[t] = "publish" =>
            /\ <<block, t>> \in committed
            /\ \A k \in wrote[t] : lastExecuted[k] # Witness

\* Until it prunes, a transaction claims all its conservative keys; then it
\* still claims the ones it touched.
HeldInv ==
    /\ \A t \in 1..added \ txExecuted : worker[t] # "execute" => Held(t) = txKeyMap[t]
    /\ \A t \in Txs : worker[t] = "prune" => real[t] \subseteq txKeyMap[t]
    /\ \A t \in Txs : worker[t] = "execute" => real[t] \subseteq Held(t)

\* The goroutines, the counters, the two lists and the claimed keys agree with
\* the scheduler.
DriverInv ==
    /\ SchedInv /\ DriverTypeOK /\ CountInv /\ LoopInv /\ OnceInv /\ DeltaInv
    /\ HeldInv

\* The driver calls the scheduler as DepurgeScheduler assumes: after the setup
\* of a block, only the goroutine that was handed a transaction prunes,
\* executes or aborts it, nothing is added once a transaction was handed out,
\* and the scheduler is replaced by a new one only when every transaction of
\* the block has been executed or aborted in it.
DriverObeysProtocol ==
    /\ SchedInit
    /\ [][SchedNext \/ (txExecuted = 1..Contexts[block] /\ SchedInit')]_schedVars

\* Every block is finished and every aborted transaction is replayed.
EventuallyDone == <>(loop = "done" /\ serialReplayed = serialReplayList)

\* "committedDelta stores the absolute post-exec value for each key written by
\* any prior-committed tx, so the next ReExecute ...": a transaction that is
\* re-executed sees, on its conservative keys, the values of the transactions
\* executed before it.
OverlayCurrent ==
    \A t \in Txs : worker[t] = "reExecute" =>
        \A k \in txKeyMap[t] : overlaySnapshot[t][k] = lastExecuted[k]
=============================================================================
