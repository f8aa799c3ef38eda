------------------------ MODULE ReplayDepurgeProofs ------------------------
(***************************************************************************)
(* Proofs about ReplayDepurge for any number of blocks, transactions and   *)
(* goroutines and any finite set of keys: the driver uses the scheduler as *)
(* the scheduler's proofs assume, its main loop drops no transaction, and  *)
(* serial replay finds the levm pool unused.                               *)
(***************************************************************************)
EXTENDS ReplayDepurge, DepurgeSchedulerProofs

(* What the steps leave alone *)

\* The steps of the main goroutine that only decide where it goes next.
LoopMoves ==
    \/ Scheduled \/ ReadInProgress \/ ReadReady \/ ReadPruneReady
    \/ NoMoreReady \/ NoMorePruneReady \/ StartSerialReplay \/ Finished

LEMMA LoopMovesFrame ==
    ASSUME LoopMoves
    PROVE  /\ UNCHANGED schedVars
           /\ UNCHANGED <<block, inProgress, serialReplayed>>
           /\ UNCHANGED <<worker, overlaySnapshot, real, wrote, idle, committedDelta,
                          lastExecuted, committed, reexecError, serialReplayList>>
<1>1. UNCHANGED <<schedVars, workerVars, block, inProgress, serialReplayed>>
  BY DEF LoopMoves, Scheduled, ReadInProgress, ReadReady, ReadPruneReady, NoMoreReady,
         NoMorePruneReady, StartSerialReplay, Finished
<1>2. QED
  BY <1>1 DEF workerVars

\* The steps of a goroutine that do not call the scheduler.
LEMMA WorkerFrame ==
    ASSUME NEW t \in Txs,
           \/ TakeOverlay(t)
           \/ \E rs, ws \in SUBSET Keys : ReExecuteOk(t, rs, ws)
           \/ ReExecuteError(t) \/ AppendSerial(t) \/ PublishDelta(t)
           \/ ReleaseWorker(t) \/ Leave(t)
    PROVE  /\ UNCHANGED schedVars
           /\ UNCHANGED <<added, txKeyMap, keyQueues, txExecuted, running>>
           /\ UNCHANGED <<block, loop, lastExecuted, committed>>
<1>1. UNCHANGED schedVars /\ UNCHANGED <<lastExecuted, committed>> /\ UNCHANGED loopVars
  <2>1. CASE \E rs, ws \in SUBSET Keys : ReExecuteOk(t, rs, ws)
    BY <2>1 DEF ReExecuteOk, Step
  <2>2. CASE TakeOverlay(t)
    BY <2>2 DEF TakeOverlay, Step
  <2>3. CASE ReExecuteError(t)
    BY <2>3 DEF ReExecuteError, Step
  <2>4. CASE AppendSerial(t)
    BY <2>4 DEF AppendSerial, Step
  <2>5. CASE PublishDelta(t)
    BY <2>5 DEF PublishDelta, Step
  <2>6. CASE ReleaseWorker(t)
    BY <2>6 DEF ReleaseWorker, Step
  <2>7. CASE Leave(t)
    BY <2>7 DEF Leave, Step
  <2>8. QED
    BY <2>1, <2>2, <2>3, <2>4, <2>5, <2>6, <2>7, Zenon
<1>2. QED
  BY <1>1 DEF schedVars, loopVars

LEMMA PruneFrame ==
    ASSUME NEW t \in Txs, PruneTx(t)
    PROVE  /\ UNCHANGED <<added, txKeyMap, txExecuted, running>>
           /\ UNCHANGED <<block, loop, real, wrote, committedDelta, lastExecuted, committed,
                          serialReplayList>>
<1>1. UNCHANGED schedVars \/ Prune(t, real[t])
  BY DEF PruneTx
<1>2. UNCHANGED <<added, txKeyMap, txExecuted, running>>
  BY <1>1 DEF schedVars, Prune
<1>3. QED
  BY <1>2 DEF PruneTx, Step, loopVars, locals

-----------------------------------------------------------------------------
(* The scheduler's part of a step *)

\* While a goroutine works on a transaction the setup of the block is over.
LEMMA BusyLoop ==
    ASSUME DriverInv, NEW t \in Txs, worker[t] # "none"
    PROVE  /\ added = Contexts[block]
           /\ loop \notin {"schedule", "readReady", "readPruneReady", "blockDone",
                           "serial", "done"}
BY DEF DriverInv, LoopInv, Busy

\* A goroutine that is about to call the scheduler holds its transaction.
LEMMA InHandRunning ==
    ASSUME DriverInv, NEW t \in Txs, worker[t] \in {"abort", "prune", "execute"}
    PROVE  t \in running
<1>1. t \in InHand /\ worker[t] # "none"
  BY DEF InHand
<1>2. QED
  BY <1>1 DEF DriverInv, LoopInv

\* When the main loop has ended, every transaction of the block was executed
\* or aborted in its scheduler.
LEMMA BlockExecuted ==
    ASSUME DriverInv, loop = "blockDone"
    PROVE  txExecuted = 1..Contexts[block]
<1>1. /\ Busy = {} /\ readyQueue = {} /\ pruneReadyQueue = {}
      /\ added = Contexts[block] /\ running = InHand
  BY DEF DriverInv, LoopInv
<1>2. running = {}
  BY <1>1 DEF InHand, Busy
<1>3. NoStall
  BY InvNoStall DEF DriverInv
<1>4. QED
  BY <1>1, <1>2, <1>3, Zenon DEF NoStall

\* The key sets of a re-execution and the claims of a context are sets of keys.
LEMMA KeySets ==
    /\ \A ks \in ClaimSets : ks \in SUBSET Keys
    /\ \A t \in Txs : (\E rw \in RealSets : ReExecuteOk(t, rw[1], rw[2]))
            => \E rs, ws \in SUBSET Keys : ReExecuteOk(t, rs, ws)
<1>1. \A rw \in RealSets : rw[1] \in SUBSET Keys /\ rw[2] \in SUBSET Keys
  BY BlockAssumption
<1>2. QED
  BY <1>1, BlockAssumption, Zenon

\* Every step of the driver is a step of the scheduler's callers, the start of
\* a new scheduler, or no step of the scheduler at all.
LEMMA ProtocolStep ==
    ASSUME DriverInv, [DriverNext]_vars
    PROVE  [SchedNext \/ (txExecuted = 1..Contexts[block] /\ SchedInit')]_schedVars
<1> DEFINE Renewed == txExecuted = 1..Contexts[block] /\ SchedInit'
<1>1. ASSUME NEW t \in Txs, NEW ks \in SUBSET Keys, Schedule(t, ks)
      PROVE  SchedNext
  <2>1. loop = "schedule" /\ addTransaction(t, ks)
    BY <1>1 DEF Schedule
  <2>2. txExecuted = {} /\ Busy = {} /\ running = InHand
    BY <2>1 DEF DriverInv, LoopInv
  <2>3. running = {}
    BY <2>2 DEF Busy, InHand
  <2>4. QED
    BY <2>1, <2>2, <2>3, Zenon DEF SchedNext
<1>2. ASSUME LoopStep
      PROVE  [SchedNext \/ Renewed]_schedVars
  <2>1. ASSUME NEW t \in Txs, DispatchReady(t)
        PROVE  SchedNext
    BY <2>1 DEF DispatchReady, SchedNext
  <2>2. ASSUME NEW t \in Txs, DispatchPruneReady(t)
        PROVE  SchedNext
    BY <2>2 DEF DispatchPruneReady, SchedNext
  <2>3. ASSUME NextBlock
        PROVE  Renewed
    <3>1. SchedInit'
      BY <2>3 DEF NextBlock, SchedInit, NoKeys
    <3>2. loop = "blockDone"
      BY <2>3 DEF NextBlock, GoTo
    <3>3. QED
      BY <3>1, <3>2, BlockExecuted
  <2>4. ASSUME \/ \E t \in Txs : Invoke(t)
               \/ \E x \in PreExecFailed \cup Writers, ws \in SUBSET Keys : SerialReplay(x, ws)
        PROVE  UNCHANGED schedVars
    BY <2>4 DEF Invoke, SerialReplay
  <2>5. QED
    BY <1>2, <2>1, <2>2, <2>3, <2>4, LoopMovesFrame, Zenon DEF LoopStep, LoopMoves
<1>3. ASSUME NEW t \in Txs, WorkerStep(t)
      PROVE  [SchedNext \/ Renewed]_schedVars
  <2>1. ASSUME AbortTx(t)
        PROVE  SchedNext
    <3>1. t \in running /\ Abort(t)
      BY <2>1, InHandRunning DEF AbortTx, Step
    <3>2. QED
      BY <3>1 DEF SchedNext
  <2>2. ASSUME PruneTx(t)
        PROVE  SchedNext \/ UNCHANGED schedVars
    <3>1. t \in running /\ real[t] \in SUBSET Keys
      BY <2>2, InHandRunning DEF PruneTx, Step, DriverInv, DriverTypeOK
    <3>2. UNCHANGED schedVars \/ Prune(t, real[t])
      BY <2>2 DEF PruneTx
    <3>3. QED
      BY <3>1, <3>2, Zenon DEF SchedNext
  <2>3. ASSUME ExecuteTx(t)
        PROVE  SchedNext
    <3>1. t \in running /\ Execute(t)
      BY <2>3, InHandRunning DEF ExecuteTx, Step
    <3>2. QED
      BY <3>1 DEF SchedNext
  <2>4. ASSUME \/ TakeOverlay(t)
               \/ \E rs, ws \in SUBSET Keys : ReExecuteOk(t, rs, ws)
               \/ ReExecuteError(t) \/ AppendSerial(t) \/ PublishDelta(t)
               \/ ReleaseWorker(t) \/ Leave(t)
        PROVE  UNCHANGED schedVars
    BY <2>4, WorkerFrame
  <2>5. QED
    BY <1>3, <2>1, <2>2, <2>3, <2>4, KeySets, Zenon DEF WorkerStep
<1>4. ASSUME UNCHANGED vars
      PROVE  UNCHANGED schedVars
  BY <1>4 DEF vars
<1>5. QED
  BY <1>1, <1>2, <1>3, <1>4, KeySets DEF DriverNext

\* The scheduler's invariant is kept by every step of the driver.
LEMMA SchedKept ==
    ASSUME DriverInv, [DriverNext]_vars
    PROVE  SchedInv'
<1>1. [SchedNext \/ SchedInit']_schedVars
  BY ProtocolStep, Zenon
<1>2. SchedInit' => SchedInv'
  BY SchedInitInv, PTL
<1>3. [SchedNext]_schedVars => SchedInv'
  BY SchedStepInv DEF DriverInv
<1>4. QED
  BY <1>1, <1>2, <1>3

-----------------------------------------------------------------------------
(* The counters *)

\* The sets of goroutines that the counters count are finite.
LEMMA WorkerSetsFinite ==
    /\ IsFiniteSet(Busy) /\ Cardinality(Busy) \in Nat
    /\ IsFiniteSet(Holding) /\ Cardinality(Holding) \in Nat
    /\ IsFiniteSet(Goroutines) /\ Cardinality(Goroutines) \in Nat
<1>1. IsFiniteSet(Txs)
  BY FS_Interval, NTxAssumption DEF Txs
<1>2. Busy \subseteq Txs /\ Holding \subseteq Txs /\ Goroutines \subseteq Txs
  BY DEF Busy, Holding, Goroutines
<1>3. QED
  BY <1>1, <1>2, FS_Subset, FS_CardinalityType

\* A transaction that the main loop pops is in no goroutine's hands.
LEMMA PoppedIsFree ==
    ASSUME DriverInv, NEW t \in readyQueue \cup pruneReadyQueue
    PROVE  t \in Txs /\ worker[t] = "none"
<1>1. t \in Txs /\ t \notin running /\ t \notin txExecuted
  BY DEF DriverInv, SchedInv, SchedTypeOK, OneWorkerPerTx
<1>2. worker[t] \in Places
  BY <1>1 DEF DriverInv, DriverTypeOK
<1>3. QED
  BY <1>1, <1>2, Zenon DEF DriverInv, LoopInv, InHand, Places

\* inProgress counts the busy goroutines, idle the levm workers they do not
\* hold, and the goroutines never exceed the pool.
LEMMA CountKept ==
    ASSUME DriverInv, [DriverNext]_vars
    PROVE  CountInv'
<1> /\ worker \in [Txs -> Places] /\ inProgress \in Nat /\ idle \in Nat
    /\ PoolSize \in Nat
    /\ inProgress = Cardinality(Busy)
    /\ idle = PoolSize - Cardinality(Holding)
    /\ Cardinality(Goroutines) <= PoolSize
  BY DriverAssumption DEF DriverInv, DriverTypeOK, CountInv
<1>1. ASSUME UNCHANGED <<worker, inProgress, idle>>
      PROVE  CountInv'
  BY <1>1 DEF CountInv, Busy, Holding, Goroutines
<1>2. ASSUME NEW t \in Txs, worker[t] = "none",
             worker' = [worker EXCEPT ![t] = "invoked"],
             inProgress' = inProgress + 1, idle' = idle
      PROVE  CountInv'
  <2>1. /\ t \notin Busy /\ Busy' = Busy \cup {t}
        /\ Holding' = Holding /\ Goroutines' = Goroutines
    BY <1>2 DEF Busy, Holding, Goroutines
  <2>2. Cardinality(Busy') = Cardinality(Busy) + 1
    BY <2>1, WorkerSetsFinite, FS_AddElement, Zenon
  <2>3. QED
    BY <1>2, <2>1, <2>2 DEF CountInv
<1>3. ASSUME NEW t \in Txs, Invoke(t)
      PROVE  CountInv'
  <2>1. /\ t \notin Goroutines /\ Goroutines' = Goroutines \cup {t}
        /\ Holding' = Holding /\ Busy' = Busy
    BY <1>3 DEF Invoke, Busy, Holding, Goroutines
  <2>2. Cardinality(Goroutines') = Cardinality(Goroutines) + 1
    BY <2>1, WorkerSetsFinite, FS_AddElement, Zenon
  <2>3. Cardinality(Goroutines) < PoolSize /\ UNCHANGED <<inProgress, idle>>
    BY <1>3 DEF Invoke
  <2>4. QED
    BY <2>1, <2>2, <2>3, WorkerSetsFinite DEF CountInv
<1>4. ASSUME NEW t \in Txs,
             \/ TakeOverlay(t) \/ AbortTx(t) \/ AppendSerial(t) \/ PruneTx(t)
             \/ ExecuteTx(t) \/ PublishDelta(t)
      PROVE  CountInv'
  <2>1. UNCHANGED <<inProgress, idle>>
    BY <1>4, Zenon DEF TakeOverlay, AbortTx, AppendSerial, PruneTx, ExecuteTx, PublishDelta
  <2>2. Busy' = Busy /\ Holding' = Holding /\ Goroutines' = Goroutines
    BY <1>4 DEF TakeOverlay, AbortTx, AppendSerial, PruneTx, ExecuteTx,
                      PublishDelta, Step, Busy, Holding, Goroutines
  <2>3. QED
    BY <2>1, <2>2, Zenon DEF CountInv
<1>5. ASSUME NEW t \in Txs,
             \/ \E rs, ws \in SUBSET Keys : ReExecuteOk(t, rs, ws)
             \/ ReExecuteError(t)
      PROVE  CountInv'
  <2>1. idle' = idle - 1 /\ inProgress' = inProgress
    BY <1>5, Zenon DEF ReExecuteOk, ReExecuteError
  <2>2. /\ t \notin Holding /\ Holding' = Holding \cup {t}
        /\ Busy' = Busy /\ Goroutines' = Goroutines
    BY <1>5 DEF ReExecuteOk, ReExecuteError, Step, Busy, Holding, Goroutines
  <2>3. Cardinality(Holding') = Cardinality(Holding) + 1
    BY <2>2, WorkerSetsFinite, FS_AddElement, Zenon
  <2>4. QED
    BY <2>1, <2>2, <2>3, WorkerSetsFinite DEF CountInv
<1>6. ASSUME NEW t \in Txs, ReleaseWorker(t)
      PROVE  CountInv'
  <2>1. idle' = idle + 1 /\ inProgress' = inProgress
    BY <1>6 DEF ReleaseWorker
  <2>2. /\ t \in Holding /\ Holding' = Holding \ {t}
        /\ Busy' = Busy /\ Goroutines' = Goroutines
    BY <1>6 DEF ReleaseWorker, Step, Busy, Holding, Goroutines
  <2>3. Cardinality(Holding') = Cardinality(Holding) - 1
    BY <2>2, WorkerSetsFinite, FS_RemoveElement, Zenon
  <2>4. QED
    BY <2>1, <2>2, <2>3, WorkerSetsFinite DEF CountInv
<1>7. ASSUME NEW t \in Txs, Leave(t)
      PROVE  CountInv'
  <2>1. inProgress' = inProgress - 1 /\ idle' = idle
    BY <1>7 DEF Leave
  <2>2. /\ t \in Busy /\ Busy' = Busy \ {t}
        /\ t \in Goroutines /\ Goroutines' = Goroutines \ {t}
        /\ Holding' = Holding
    BY <1>7 DEF Leave, Step, Busy, Holding, Goroutines
  <2>3. /\ Cardinality(Busy') = Cardinality(Busy) - 1
        /\ Cardinality(Goroutines') = Cardinality(Goroutines) - 1
    BY <2>2, WorkerSetsFinite, FS_RemoveElement, Zenon
  <2>4. QED
    BY <2>1, <2>2, <2>3, WorkerSetsFinite DEF CountInv
<1>8. ASSUME NEW t \in Txs, DispatchReady(t) \/ DispatchPruneReady(t)
      PROVE  CountInv'
  <2>1. t \in readyQueue \cup pruneReadyQueue
    BY <1>8 DEF DispatchReady, DispatchPruneReady, PopReady, PopPruneReady
  <2>2. worker[t] = "none"
    BY <2>1, PoppedIsFree
  <2>3. /\ worker' = [worker EXCEPT ![t] = "invoked"]
        /\ inProgress' = inProgress + 1 /\ idle' = idle
    BY <1>8 DEF DispatchReady, DispatchPruneReady, Dispatch
  <2>4. QED
    BY <1>2, <2>2, <2>3, Zenon
<1>9. ASSUME LoopStep
      PROVE  CountInv'
  <2>1. ASSUME LoopMoves
        PROVE  UNCHANGED <<worker, inProgress, idle>>
    BY <2>1, LoopMovesFrame, Zenon
  <2>2. ASSUME \/ NextBlock
               \/ \E x \in PreExecFailed \cup Writers, ws \in SUBSET Keys : SerialReplay(x, ws)
        PROVE  UNCHANGED <<worker, inProgress, idle>>
    BY <2>2 DEF NextBlock, SerialReplay, workerVars
  <2>3. QED
    BY <1>1, <1>3, <1>8, <1>9, <2>1, <2>2, Zenon DEF LoopStep, LoopMoves
<1>10. ASSUME NEW t \in Txs, WorkerStep(t)
       PROVE  CountInv'
  BY <1>4, <1>5, <1>6, <1>7, <1>10, KeySets, Zenon DEF WorkerStep
<1>11. ASSUME NEW t \in Txs, NEW ks \in SUBSET Keys, Schedule(t, ks)
       PROVE  CountInv'
  BY <1>1, <1>11 DEF Schedule, driverVars
<1>12. ASSUME UNCHANGED vars
       PROVE  CountInv'
  BY <1>1, <1>12, Zenon DEF vars, driverVars
<1>13. QED
  BY <1>9, <1>10, <1>11, <1>12, KeySets, Zenon DEF DriverNext

-----------------------------------------------------------------------------
(* The main loop *)

\* A successful re-execution leads to pruning or to an abort.
LEMMA ReExecuteMoves ==
    ASSUME NEW t \in Txs, \E rs, ws \in SUBSET Keys : ReExecuteOk(t, rs, ws)
    PROVE  Step(t, "reExecute", "prune") \/ Step(t, "reExecute", "abort")
<1>1. PICK rs \in SUBSET Keys, ws \in SUBSET Keys : ReExecuteOk(t, rs, ws)
  OBVIOUS
<1>2. QED
  BY <1>1 DEF ReExecuteOk

\* A goroutine's step from one place to another inside the validation of its
\* transaction, the scheduler's sets apart.
LEMMA WorkerPlace ==
    ASSUME DriverInv, NEW t \in Txs, WorkerStep(t)
    PROVE  \E a, b \in Places \ {"invoked"} :
                /\ worker[t] = a /\ a # "none" /\ b # "start"
                /\ worker' = [worker EXCEPT ![t] = b]
                /\ UNCHANGED <<loop, block, serialReplayed>>
                /\ added' = added
<1> DEFINE From == {"start", "reExecute", "abort", "append", "prune", "execute",
                    "publish", "release", "leave"}
           To   == {"none", "reExecute", "abort", "append", "prune", "execute",
                    "publish", "release", "leave"}
<1>1. ASSUME NEW a \in From, NEW b \in To, Step(t, a, b), added' = added
      PROVE  \E c, d \in Places \ {"invoked"} :
                  /\ worker[t] = c /\ c # "none" /\ d # "start"
                  /\ worker' = [worker EXCEPT ![t] = d]
                  /\ UNCHANGED <<loop, block, serialReplayed>>
                  /\ added' = added
  <2>1. a \in Places \ {"invoked"} /\ a # "none" /\ b \in Places \ {"invoked"} /\ b # "start"
    BY DEF Places
  <2>2. worker[t] = a /\ worker' = [worker EXCEPT ![t] = b]
        /\ UNCHANGED <<loop, block, serialReplayed>>
    BY <1>1, Zenon DEF Step, loopVars
  <2>3. QED
    BY <1>1, <2>1, <2>2, Zenon
<1>2. \E a \in From, b \in To : Step(t, a, b)
  <2>1. CASE \E rs, ws \in SUBSET Keys : ReExecuteOk(t, rs, ws)
    BY <2>1, ReExecuteMoves, Zenon
  <2>2. CASE TakeOverlay(t) \/ ReExecuteError(t) \/ AbortTx(t) \/ AppendSerial(t)
    BY <2>2, Zenon DEF TakeOverlay, ReExecuteError, AbortTx, AppendSerial
  <2>3. CASE PruneTx(t) \/ ExecuteTx(t) \/ PublishDelta(t) \/ ReleaseWorker(t) \/ Leave(t)
    BY <2>3 DEF PruneTx, ExecuteTx, PublishDelta, ReleaseWorker, Leave
  <2>4. QED
    BY <2>1, <2>2, <2>3, KeySets, Zenon DEF WorkerStep
<1>3. added' = added
  <2>1. CASE AbortTx(t) \/ ExecuteTx(t)
    BY <2>1, Zenon DEF AbortTx, ExecuteTx, Abort, Execute
  <2>2. QED
    BY <2>1, WorkerFrame, PruneFrame, KeySets, Zenon DEF WorkerStep
<1> HIDE DEF From, To
<1>4. QED
  BY <1>1, <1>2, <1>3

\* What the scheduler calls running is what the goroutines have in hand, and a
\* goroutine past its Execute or Abort has an executed transaction.
LEMMA WorkerInHand ==
    ASSUME DriverInv, NEW t \in Txs, WorkerStep(t)
    PROVE  /\ running' = InHand'
           /\ \A u \in Txs : worker'[u] \in {"append", "publish", "release", "leave"}
                                => u \in txExecuted'
<1> USE DEF InHand, Step
<1> /\ running = InHand /\ worker \in [Txs -> Places] /\ txExecuted \subseteq Txs
    /\ \A u \in Txs : worker[u] \in {"append", "publish", "release", "leave"}
                          => u \in txExecuted
  BY DEF DriverInv, LoopInv, DriverTypeOK, SchedTypeOK
<1>1. CASE AbortTx(t)
  BY <1>1, Zenon DEF AbortTx, Abort
<1>2. CASE ExecuteTx(t)
  BY <1>2 DEF ExecuteTx, Execute
<1>3. CASE PruneTx(t)
  <2>1. running' = running /\ txExecuted' = txExecuted
    BY <1>3, PruneFrame, Zenon
  <2>2. QED
    BY <1>3, <2>1 DEF PruneTx
<1>4. CASE \/ TakeOverlay(t)
           \/ \E rs, ws \in SUBSET Keys : ReExecuteOk(t, rs, ws)
           \/ ReExecuteError(t) \/ AppendSerial(t) \/ PublishDelta(t)
           \/ ReleaseWorker(t) \/ Leave(t)
  <2>1. running' = running /\ txExecuted' = txExecuted
    BY <1>4, WorkerFrame
  <2>2. CASE \E rs, ws \in SUBSET Keys : ReExecuteOk(t, rs, ws)
    BY <2>1, <2>2, ReExecuteMoves, Zenon
  <2>3. CASE TakeOverlay(t) \/ ReExecuteError(t)
    BY <2>1, <2>3, Zenon DEF TakeOverlay, ReExecuteError
  <2>4. CASE AppendSerial(t) \/ PublishDelta(t) \/ ReleaseWorker(t) \/ Leave(t)
    BY <2>1, <2>4 DEF AppendSerial, PublishDelta, ReleaseWorker, Leave
  <2>5. QED
    BY <1>4, <2>2, <2>3, <2>4, Zenon
<1>5. QED
  BY <1>1, <1>2, <1>3, <1>4, KeySets, Zenon DEF WorkerStep

\* inProgress is 0 only when no goroutine is left.
LEMMA ZeroMeansNoneBusy ==
    ASSUME DriverInv, inProgress = 0
    PROVE  Busy = {}
<1>1. Cardinality(Busy) = 0
  BY DEF DriverInv, CountInv
<1>2. QED
  BY <1>1, WorkerSetsFinite, FS_EmptySet

\* What the main loop read of the counter and the queues stays true.
LEMMA LoopKept ==
    ASSUME DriverInv, [DriverNext]_vars
    PROVE  LoopInv'
<1> LoopInv /\ worker \in [Txs -> Places]
  BY Zenon DEF DriverInv, DriverTypeOK
<1>1. ASSUME NEW t \in Txs, NEW ks \in SUBSET Keys, Schedule(t, ks)
      PROVE  LoopInv'
  BY <1>1, Zenon DEF Schedule, addTransaction, driverVars, LoopInv, InHand, Busy
<1>2. ASSUME NEW t \in Txs, WorkerStep(t)
      PROVE  LoopInv'
  <2>1. PICK a, b \in Places \ {"invoked"} :
                /\ worker[t] = a /\ a # "none" /\ b # "start"
                /\ worker' = [worker EXCEPT ![t] = b]
                /\ UNCHANGED <<loop, block, serialReplayed>>
                /\ added' = added
    BY <1>2, WorkerPlace
  <2>2. /\ added = Contexts[block]
        /\ loop \notin {"schedule", "readReady", "readPruneReady", "blockDone",
                        "serial", "done"}
    BY <2>1, BusyLoop
  <2>3. \A u \in Txs : worker'[u] = "invoked" <=> worker[u] = "invoked"
    BY <2>1, Zenon
  <2>4. QED
    BY <1>2, <2>1, <2>2, <2>3, WorkerInHand, Zenon DEF LoopInv
<1>3. ASSUME NEW t \in Txs, DispatchReady(t) \/ DispatchPruneReady(t)
      PROVE  LoopInv'
  <2>1. t \in readyQueue \cup pruneReadyQueue
    BY <1>3 DEF DispatchReady, DispatchPruneReady, PopReady, PopPruneReady
  <2>2. worker[t] = "none"
    BY <2>1, PoppedIsFree, Zenon
  <2>3. /\ worker' = [worker EXCEPT ![t] = "invoked"]
        /\ running' = running \cup {t}
        /\ added' = added /\ txExecuted' = txExecuted /\ block' = block
        /\ loop \in {"popReady", "popPruneReady"}
        /\ loop' \in {"invokeReady", "invokePruneReady"}
    BY <1>3 DEF DispatchReady, DispatchPruneReady, Dispatch, PopReady, PopPruneReady
  <2>4. running' = InHand'
    BY <2>3 DEF LoopInv, InHand
  <2>5. \A u \in Txs : worker[u] # "invoked"
    BY <2>3 DEF LoopInv
  <2>6. QED
    BY <2>2, <2>3, <2>4, <2>5, Zenon DEF LoopInv
<1>4. ASSUME NEW t \in Txs, Invoke(t)
      PROVE  LoopInv'
  <2>1. /\ worker[t] = "invoked" /\ worker' = [worker EXCEPT ![t] = "start"]
        /\ loop' \in {"popReady", "popPruneReady"}
        /\ UNCHANGED <<running, added, block, txExecuted>>
    BY <1>4 DEF Invoke, schedVars
  <2>2. running' = InHand'
    BY <2>1 DEF LoopInv, InHand
  <2>3. added = Contexts[block]
    BY <2>1, BusyLoop, Zenon
  <2>4. \A u \in Txs : worker'[u] # "invoked"
    BY <2>1, Zenon DEF LoopInv
  <2>5. QED
    BY <2>1, <2>2, <2>3, <2>4, Zenon DEF LoopInv
<1>5. ASSUME ReadInProgress
      PROVE  LoopInv'
  <2>1. inProgress = 0 => Busy = {}
    BY ZeroMeansNoneBusy, Zenon
  <2>2. QED
    BY <1>5, <2>1 DEF ReadInProgress, LoopInv, InHand, Busy, schedVars, workerVars
<1>6. ASSUME NextBlock
      PROVE  LoopInv'
  <2>1. \A t \in Txs : worker[t] = "none"
    BY <1>6 DEF NextBlock, GoTo, LoopInv, Busy
  <2>2. QED
    BY <1>6, <2>1, Zenon DEF NextBlock, GoTo, LoopInv, Busy, InHand, workerVars
<1>7. ASSUME \/ Scheduled \/ ReadReady \/ ReadPruneReady \/ NoMoreReady
             \/ NoMorePruneReady \/ StartSerialReplay \/ Finished
             \/ \E x \in PreExecFailed \cup Writers, ws \in SUBSET Keys : SerialReplay(x, ws)
             \/ UNCHANGED vars
      PROVE  LoopInv'
  BY <1>7, Zenon DEF Scheduled, ReadReady, ReadPruneReady, NoMoreReady,
        NoMorePruneReady, StartSerialReplay, Finished, SerialReplay, GoTo, LoopInv,
        InHand, Busy, schedVars, workerVars, driverVars, vars
<1>8. QED
  BY <1>1, <1>2, <1>3, <1>4, <1>5, <1>6, <1>7, KeySets, Zenon DEF DriverNext, LoopStep

-----------------------------------------------------------------------------
(* The two lists and committedDelta *)

\* committed and serialReplayList partition the executed transactions, save
\* those between their Abort and their append.
LEMMA OnceKept ==
    ASSUME DriverInv, [DriverNext]_vars
    PROVE  OnceInv'
<1> /\ OnceInv /\ worker \in [Txs -> Places] /\ block \in Blocks
    /\ committed \subseteq Blocks \X Txs
    /\ serialReplayList \subseteq PreExecFailed \cup (Blocks \X Txs)
    /\ NBlocks \in Nat
  BY DriverAssumption, Zenon DEF DriverInv, DriverTypeOK
<1>1. ASSUME UNCHANGED <<committed, serialReplayList, block, txExecuted>>,
             \A t \in Txs : worker'[t] = "append" <=> worker[t] = "append"
      PROVE  OnceInv'
  BY <1>1, Zenon DEF OnceInv
<1>2. ASSUME NEW t \in Txs, AbortTx(t)
      PROVE  OnceInv'
  <2>1. /\ t \notin txExecuted /\ txExecuted' = txExecuted \cup {t}
        /\ worker' = [worker EXCEPT ![t] = "append"]
        /\ UNCHANGED <<committed, serialReplayList, block>>
    BY <1>2, Zenon DEF AbortTx, Abort, Step, loopVars
  <2>2. QED
    BY <2>1, Zenon DEF OnceInv
<1>3. ASSUME NEW t \in Txs, AppendSerial(t)
      PROVE  OnceInv'
  <2>1. /\ worker[t] = "append" /\ worker' = [worker EXCEPT ![t] = "release"]
        /\ serialReplayList' = serialReplayList \cup {<<block, t>>}
        /\ UNCHANGED <<committed, txExecuted, block>>
    BY <1>3, Zenon DEF AppendSerial, Step, loopVars, schedVars
  <2>2. QED
    BY <2>1 DEF OnceInv, Blocks
<1>4. ASSUME NEW t \in Txs, ExecuteTx(t)
      PROVE  OnceInv'
  <2>1. /\ t \notin txExecuted /\ txExecuted' = txExecuted \cup {t}
        /\ worker[t] = "execute" /\ worker' = [worker EXCEPT ![t] = "publish"]
        /\ committed' = committed \cup {<<block, t>>}
        /\ UNCHANGED <<serialReplayList, block>>
    BY <1>4, Zenon DEF ExecuteTx, Execute, Step, loopVars
  <2>2. QED
    BY <2>1 DEF OnceInv, Blocks
<1>5. ASSUME NEW t \in Txs,
             \/ TakeOverlay(t)
             \/ \E rs, ws \in SUBSET Keys : ReExecuteOk(t, rs, ws)
             \/ ReExecuteError(t) \/ PruneTx(t) \/ PublishDelta(t)
             \/ ReleaseWorker(t) \/ Leave(t)
      PROVE  OnceInv'
  <2>1. UNCHANGED <<committed, serialReplayList, block, txExecuted>>
    <3>1. UNCHANGED <<committed, block, txExecuted>>
      BY <1>5, WorkerFrame, PruneFrame, Zenon
    <3>2. CASE \E rs, ws \in SUBSET Keys : ReExecuteOk(t, rs, ws)
      BY <3>1, <3>2, Zenon DEF ReExecuteOk
    <3>3. CASE TakeOverlay(t) \/ ReExecuteError(t) \/ PruneTx(t)
      BY <3>1, <3>3, Zenon DEF TakeOverlay, ReExecuteError, PruneTx
    <3>4. CASE PublishDelta(t) \/ ReleaseWorker(t) \/ Leave(t)
      BY <3>1, <3>4, Zenon DEF PublishDelta, ReleaseWorker, Leave
    <3>5. QED
      BY <1>5, <3>2, <3>3, <3>4, Zenon
  <2>2. \A u \in Txs : worker'[u] = "append" <=> worker[u] = "append"
    <3>1. CASE \E rs, ws \in SUBSET Keys : ReExecuteOk(t, rs, ws)
      BY <3>1, ReExecuteMoves DEF Step
    <3>2. CASE TakeOverlay(t) \/ ReExecuteError(t) \/ PruneTx(t)
      BY <3>2, ZenonT(30) DEF TakeOverlay, ReExecuteError, PruneTx, Step
    <3>3. CASE PublishDelta(t) \/ ReleaseWorker(t) \/ Leave(t)
      BY <3>3, Zenon DEF PublishDelta, ReleaseWorker, Leave, Step
    <3>4. QED
      BY <1>5, <3>1, <3>2, <3>3, Zenon
  <2>3. QED
    BY <1>1, <2>1, <2>2, Zenon
<1>6. ASSUME NextBlock
      PROVE  OnceInv'
  <2>1. \A t \in Txs : worker'[t] = "none"
    BY <1>6, Zenon DEF NextBlock, GoTo, DriverInv, LoopInv, Busy, workerVars
  <2>2. /\ block' = block + 1 /\ txExecuted' = {} /\ block' \in Blocks
        /\ UNCHANGED <<committed, serialReplayList>>
    BY <1>6 DEF NextBlock, workerVars, Blocks
  <2>3. \A t \in Txs : <<block', t>> \notin committed \cup serialReplayList
    BY <2>2 DEF OnceInv, Blocks
  <2>4. QED
    BY <2>1, <2>2, <2>3 DEF OnceInv, Blocks
<1>7. ASSUME NEW t \in Txs, DispatchReady(t) \/ DispatchPruneReady(t) \/ Invoke(t)
      PROVE  OnceInv'
  <2>1. UNCHANGED <<committed, serialReplayList, block, txExecuted>>
    BY <1>7, Zenon DEF DispatchReady, DispatchPruneReady, Dispatch, PopReady, PopPruneReady,
                Invoke, schedVars
  <2>2. worker[t] \in {"none", "invoked"}
    BY <1>7, PoppedIsFree, Zenon DEF DispatchReady, DispatchPruneReady, PopReady,
                              PopPruneReady, Invoke
  <2>3. \A u \in Txs : worker'[u] = "append" <=> worker[u] = "append"
    BY <1>7, <2>2, Zenon DEF DispatchReady, DispatchPruneReady, Dispatch, Invoke
  <2>4. QED
    BY <1>1, <2>1, <2>3
<1>8. ASSUME \/ \E t \in Txs, ks \in SUBSET Keys : Schedule(t, ks)
             \/ LoopMoves
             \/ \E x \in PreExecFailed \cup Writers, ws \in SUBSET Keys : SerialReplay(x, ws)
             \/ UNCHANGED vars
      PROVE  OnceInv'
  <2>1. UNCHANGED <<committed, serialReplayList, block, txExecuted, worker>>
    <3>1. CASE \E t \in Txs, ks \in SUBSET Keys : Schedule(t, ks)
      BY <3>1 DEF Schedule, addTransaction, driverVars
    <3>2. CASE LoopMoves
      BY <3>2, LoopMovesFrame, Zenon DEF schedVars
    <3>3. CASE \E x \in PreExecFailed \cup Writers, ws \in SUBSET Keys : SerialReplay(x, ws)
      BY <3>3, Zenon DEF SerialReplay, schedVars
    <3>4. CASE UNCHANGED vars
      BY <3>4, Zenon DEF vars, driverVars, schedVars
    <3>5. QED
      BY <1>8, <3>1, <3>2, <3>3, <3>4, Zenon
  <2>2. QED
    BY <1>1, <2>1, Zenon
<1>9. QED
  BY <1>2, <1>3, <1>4, <1>5, <1>6, <1>7, <1>8, KeySets, Zenon
     DEF DriverNext, LoopStep, LoopMoves, WorkerStep

\* What committedDelta still lacks, a goroutine is about to publish.
LEMMA DeltaKept ==
    ASSUME DriverInv, [DriverNext]_vars
    PROVE  DeltaInv'
<1> /\ DeltaInv /\ worker \in [Txs -> Places] /\ block \in Blocks
    /\ wrote \in [Txs -> SUBSET Keys]
    /\ committedDelta \in [Keys -> Writers \cup PreExecFailed]
    /\ lastExecuted \in [Keys -> Writers]
  BY DEF DriverInv, DriverTypeOK
<1>1. \A t \in Txs : <<block, t>> # Witness
  BY DEF Blocks, Witness
<1>2. ASSUME UNCHANGED <<committed, committedDelta, lastExecuted, block>>,
             loop' \notin {"serial", "done"} => loop \notin {"serial", "done"},
             \A t \in Txs : worker'[t] = "publish" <=> worker[t] = "publish",
             \A t \in Txs : worker[t] = "publish" => wrote'[t] = wrote[t]
      PROVE  DeltaInv'
  BY <1>2, ZenonT(30) DEF DeltaInv
<1>3. ASSUME NEW t \in Txs, ExecuteTx(t)
      PROVE  DeltaInv'
  <2>1. /\ worker' = [worker EXCEPT ![t] = "publish"]
        /\ committed' = committed \cup {<<block, t>>}
        /\ lastExecuted' = [k \in Keys |->
                IF k \in wrote[t] THEN <<block, t>> ELSE lastExecuted[k]]
        /\ UNCHANGED <<committedDelta, wrote, block, loop>>
    BY <1>3, Zenon DEF ExecuteTx, Step, loopVars
  <2>2. QED
    BY <1>1, <2>1, ZenonT(30) DEF DeltaInv
<1>4. ASSUME NEW t \in Txs, PublishDelta(t)
      PROVE  DeltaInv'
  <2>1. /\ worker[t] = "publish" /\ worker' = [worker EXCEPT ![t] = "release"]
        /\ wrote' = [wrote EXCEPT ![t] = {}]
        /\ committedDelta' = [k \in Keys |->
                IF k \in wrote[t] THEN <<block, t>> ELSE committedDelta[k]]
        /\ UNCHANGED <<committed, lastExecuted, block, loop>>
    BY <1>4, Zenon DEF PublishDelta, Step, loopVars
  <2>2. QED
    BY <1>1, <2>1, Zenon DEF DeltaInv
<1>5. ASSUME NEW t \in Txs,
             \/ TakeOverlay(t)
             \/ \E rs, ws \in SUBSET Keys : ReExecuteOk(t, rs, ws)
             \/ ReExecuteError(t) \/ AbortTx(t) \/ AppendSerial(t) \/ PruneTx(t)
             \/ ReleaseWorker(t) \/ Leave(t)
      PROVE  DeltaInv'
  <2>1. UNCHANGED <<committed, committedDelta, lastExecuted, block, loop>>
    <3>1. CASE AbortTx(t)
      BY <3>1, Zenon DEF AbortTx, Step, loopVars
    <3>2. CASE PruneTx(t)
      BY <3>2, PruneFrame
    <3>3. CASE \E rs, ws \in SUBSET Keys : ReExecuteOk(t, rs, ws)
      BY <3>3, WorkerFrame, Zenon DEF ReExecuteOk
    <3>4. CASE TakeOverlay(t) \/ ReExecuteError(t)
      BY <3>4, WorkerFrame, Zenon DEF TakeOverlay, ReExecuteError
    <3>5. CASE AppendSerial(t) \/ ReleaseWorker(t) \/ Leave(t)
      BY <3>5, WorkerFrame DEF AppendSerial, ReleaseWorker, Leave
    <3>6. QED
      BY <1>5, <3>1, <3>2, <3>3, <3>4, <3>5, Zenon
  <2>2. \A u \in Txs : worker'[u] = "publish" <=> worker[u] = "publish"
    <3>1. CASE \E rs, ws \in SUBSET Keys : ReExecuteOk(t, rs, ws)
      BY <3>1, ReExecuteMoves DEF Step
    <3>2. CASE TakeOverlay(t) \/ ReExecuteError(t) \/ PruneTx(t) \/ AbortTx(t)
      BY <3>2, Zenon DEF TakeOverlay, ReExecuteError, PruneTx, AbortTx, Step
    <3>3. CASE AppendSerial(t) \/ ReleaseWorker(t) \/ Leave(t)
      BY <3>3 DEF AppendSerial, ReleaseWorker, Leave, Step
    <3>4. QED
      BY <1>5, <3>1, <3>2, <3>3, Zenon
  <2>3. \A u \in Txs : worker[u] = "publish" => wrote'[u] = wrote[u]
    <3>1. CASE \E rs, ws \in SUBSET Keys : ReExecuteOk(t, rs, ws)
      BY <3>1, Zenon DEF ReExecuteOk, Step
    <3>2. CASE TakeOverlay(t) \/ ReExecuteError(t) \/ PruneTx(t) \/ AbortTx(t)
      BY <3>2, ZenonT(30) DEF TakeOverlay, ReExecuteError, PruneTx, AbortTx, Step, locals
    <3>3. CASE AppendSerial(t) \/ ReleaseWorker(t) \/ Leave(t)
      BY <3>3, Zenon DEF AppendSerial, ReleaseWorker, Leave, locals
    <3>4. QED
      BY <1>5, <3>1, <3>2, <3>3, Zenon
  <2>4. QED
    BY <1>2, <2>1, <2>2, <2>3, Zenon
<1>6. ASSUME NEW t \in Txs, DispatchReady(t) \/ DispatchPruneReady(t) \/ Invoke(t)
      PROVE  DeltaInv'
  <2>1. worker[t] \in {"none", "invoked"}
    BY <1>6, PoppedIsFree, Zenon DEF DispatchReady, DispatchPruneReady, PopReady,
                              PopPruneReady, Invoke
  <2>2. loop \notin {"serial", "done"}
    BY <1>6, BusyLoop, Zenon DEF DispatchReady, DispatchPruneReady, Invoke
  <2>3. QED
    BY <1>2, <1>6, <2>1, <2>2, Zenon DEF DispatchReady, DispatchPruneReady, Dispatch, Invoke
<1>7. ASSUME NextBlock \/ \E x \in PreExecFailed \cup Writers, ws \in SUBSET Keys :
                                SerialReplay(x, ws)
      PROVE  DeltaInv'
  <2>1. \A t \in Txs : worker'[t] = "none" /\ worker[t] = "none"
    BY <1>7, Zenon DEF NextBlock, SerialReplay, GoTo, DriverInv, LoopInv, Busy, workerVars
  <2>2. CASE NextBlock
    BY <2>1, <2>2, Zenon DEF NextBlock, GoTo, DeltaInv, workerVars
  <2>3. CASE \E x \in PreExecFailed \cup Writers, ws \in SUBSET Keys : SerialReplay(x, ws)
    BY <2>1, <2>3 DEF SerialReplay, DeltaInv
  <2>4. QED
    BY <1>7, <2>2, <2>3, Zenon
<1>8. ASSUME \/ \E t \in Txs, ks \in SUBSET Keys : Schedule(t, ks)
             \/ LoopMoves
             \/ UNCHANGED vars
      PROVE  DeltaInv'
  <2>1. UNCHANGED <<committed, committedDelta, lastExecuted, block, worker, wrote>>
    <3>1. CASE LoopMoves
      BY <3>1, LoopMovesFrame
    <3>2. CASE UNCHANGED driverVars
      BY <3>2 DEF driverVars
    <3>3. QED
      BY <1>8, <3>1, <3>2, Zenon DEF Schedule, vars
  <2>2. loop' \notin {"serial", "done"} => loop \notin {"serial", "done"}
    <3>1. CASE LoopMoves
      BY <3>1, Zenon DEF LoopMoves, Scheduled, ReadInProgress, ReadReady, ReadPruneReady,
                  NoMoreReady, NoMorePruneReady, StartSerialReplay, Finished, GoTo
    <3>2. CASE UNCHANGED driverVars
      BY <3>2 DEF driverVars
    <3>3. QED
      BY <1>8, <3>1, <3>2, Zenon DEF Schedule, vars
  <2>3. QED
    BY <1>2, <2>1, <2>2, Zenon
<1>9. QED
  BY <1>3, <1>4, <1>5, <1>6, <1>7, <1>8, KeySets, Zenon
     DEF DriverNext, LoopStep, LoopMoves, WorkerStep

-----------------------------------------------------------------------------
(* Types *)

\* The counters stay in range: at most one transaction waits for Invoke, and
\* only goroutines of the pool hold levm workers.
LEMMA CountBounds ==
    CountInv /\ LoopInv => inProgress \in 0..(PoolSize + 1) /\ idle \in 0..PoolSize
<1> SUFFICES ASSUME CountInv, LoopInv
             PROVE  inProgress \in 0..(PoolSize + 1) /\ idle \in 0..PoolSize
  OBVIOUS
<1>1. PoolSize \in Nat
  BY DriverAssumption
<1>2. Cardinality(Busy) <= Cardinality(Goroutines) + 1
  <2>1. CASE \E u \in Txs : worker[u] = "invoked"
    <3>1. PICK u \in Txs : worker[u] = "invoked"
      BY <2>1
    <3>2. Busy = Goroutines \cup {u} /\ u \notin Goroutines
      BY <3>1 DEF Busy, Goroutines, LoopInv
    <3>3. Cardinality(Goroutines \cup {u}) = Cardinality(Goroutines) + 1
      BY <3>2, WorkerSetsFinite, FS_AddElement, Zenon
    <3>4. QED
      BY <3>2, <3>3, WorkerSetsFinite
  <2>2. CASE \A u \in Txs : worker[u] # "invoked"
    <3>1. Busy = Goroutines
      BY <2>2 DEF Busy, Goroutines
    <3>2. QED
      BY <3>1, WorkerSetsFinite
  <2>3. QED
    BY <2>1, <2>2, Zenon
<1>3. Cardinality(Holding) <= Cardinality(Goroutines)
  <2>1. Holding \subseteq Goroutines
    BY Zenon DEF Holding, Goroutines
  <2>2. QED
    BY <2>1, WorkerSetsFinite, FS_Subset
<1>4. QED
  BY <1>1, <1>2, <1>3, WorkerSetsFinite DEF CountInv

\* The types of the variables that only the main goroutine or only a worker
\* changes, step by step.
LEMMA TypeKept ==
    ASSUME DriverInv, [DriverNext]_vars
    PROVE  DriverTypeOK'
<1>1. DriverTypeOK
  BY Zenon DEF DriverInv
<1>2. SchedTypeOK'
  BY SchedKept DEF SchedInv
<1>3. inProgress' \in 0..(PoolSize + 1) /\ idle' \in 0..PoolSize
  <2>1. CountInv' /\ LoopInv'
    BY CountKept, LoopKept
  <2>2. (CountInv /\ LoopInv)' => (inProgress \in 0..(PoolSize + 1) /\ idle \in 0..PoolSize)'
    BY CountBounds, PTL
  <2>3. QED
    BY <2>1, <2>2
<1> DEFINE Rest == /\ block \in Blocks
                   /\ loop \in {"schedule", "readInProgress", "readReady", "readPruneReady",
                                "popReady", "invokeReady", "popPruneReady",
                                "invokePruneReady", "blockDone", "serial", "done"}
                   /\ worker \in [Txs -> Places]
                   /\ overlaySnapshot \in [Txs -> [Keys -> Writers]]
                   /\ real \in [Txs -> SUBSET Keys]
                   /\ wrote \in [Txs -> SUBSET Keys]
                   /\ committedDelta \in [Keys -> Writers \cup PreExecFailed]
                   /\ lastExecuted \in [Keys -> Writers]
                   /\ committed \subseteq Blocks \X Txs
                   /\ reexecError \subseteq Blocks \X Txs
                   /\ serialReplayList \subseteq PreExecFailed \cup (Blocks \X Txs)
                   /\ serialReplayed \subseteq serialReplayList
<1> Rest
  BY <1>1 DEF DriverTypeOK
<1>4. \A t \in Txs : <<block, t>> \in Blocks \X Txs /\ <<block, t>> \in Writers
  BY DEF Writers
<1>5. Witness \in Writers
  BY DEF Writers
<1>6. ASSUME NEW t \in Txs, TakeOverlay(t)
      PROVE  Rest'
  <2>1. \A k \in txKeyMap[t] : committedDelta[k] \in Writers
    <3>1. loop \notin {"serial", "done"}
      BY <1>6, BusyLoop, Zenon DEF TakeOverlay, Step
    <3>2. \A k \in Keys : committedDelta[k] \in committed \cup {Witness}
      BY <3>1, Zenon DEF DriverInv, DeltaInv
    <3>3. txKeyMap[t] \subseteq Keys
      BY <1>1, Zenon DEF DriverTypeOK, SchedTypeOK
    <3>4. committed \cup {Witness} \subseteq Writers
      BY DEF Writers
    <3>5. QED
      BY <3>2, <3>3, <3>4, Zenon
  <2>2. QED
    BY <1>5, <1>6, <2>1, Zenon DEF TakeOverlay, Step, loopVars, Places
<1>7. ASSUME NEW t \in Txs,
             \/ \E rs, ws \in SUBSET Keys : ReExecuteOk(t, rs, ws)
             \/ ReExecuteError(t)
      PROVE  Rest'
  <2>1. NoOverlay \in [Keys -> Writers]
    BY <1>5, Zenon DEF NoOverlay
  <2>2. CASE ReExecuteError(t)
    BY <1>4, <2>1, <2>2, Zenon DEF ReExecuteError, Step, loopVars, Places
  <2>3. CASE \E rs, ws \in SUBSET Keys : ReExecuteOk(t, rs, ws)
    <3>1. PICK rs \in SUBSET Keys, ws \in SUBSET Keys : ReExecuteOk(t, rs, ws)
      BY <2>3, Zenon
    <3>2. worker' \in [Txs -> Places]
      BY <3>1, Zenon DEF ReExecuteOk, Step, Places
    <3>3. real' \in [Txs -> SUBSET Keys] /\ wrote' \in [Txs -> SUBSET Keys]
      BY <3>1, Zenon DEF ReExecuteOk
    <3>4. overlaySnapshot' \in [Txs -> [Keys -> Writers]]
      BY <2>1, <3>1 DEF ReExecuteOk
    <3>5. QED
      BY <3>1, <3>2, <3>3, <3>4, Zenon DEF ReExecuteOk, Step, loopVars
  <2>4. QED
    BY <1>7, <2>2, <2>3, Zenon
<1>8. ASSUME NEW t \in Txs,
             AbortTx(t) \/ AppendSerial(t) \/ PruneTx(t) \/ ReleaseWorker(t) \/ Leave(t)
      PROVE  Rest'
  <2>1. CASE AbortTx(t)
    BY <2>1, Zenon DEF AbortTx, Step, loopVars, Places
  <2>2. CASE AppendSerial(t)
    BY <1>4, <2>2 DEF AppendSerial, Step, loopVars, locals, Places
  <2>3. CASE PruneTx(t)
    BY <2>3, ZenonT(30) DEF PruneTx, Step, loopVars, locals, Places
  <2>4. CASE ReleaseWorker(t) \/ Leave(t)
    BY <2>4 DEF ReleaseWorker, Leave, Step, loopVars, locals, Places
  <2>5. QED
    BY <1>8, <2>1, <2>2, <2>3, <2>4, Zenon
<1>9. ASSUME NEW t \in Txs, ExecuteTx(t)
      PROVE  Rest'
  <2>1. worker' \in [Txs -> Places] /\ real' \in [Txs -> SUBSET Keys]
    BY <1>9, Zenon DEF ExecuteTx, Step, Places
  <2>2. lastExecuted' \in [Keys -> Writers] /\ committed' \subseteq Blocks \X Txs
    BY <1>4, <1>9 DEF ExecuteTx
  <2>3. QED
    BY <1>9, <2>1, <2>2, Zenon DEF ExecuteTx, Step, loopVars
<1>10. ASSUME NEW t \in Txs, PublishDelta(t)
       PROVE  Rest'
  <2>1. worker' \in [Txs -> Places] /\ wrote' \in [Txs -> SUBSET Keys]
    BY <1>10, Zenon DEF PublishDelta, Step, Places
  <2>2. committedDelta' \in [Keys -> Writers \cup PreExecFailed]
    BY <1>4, <1>10, Zenon DEF PublishDelta
  <2>3. QED
    BY <1>10, <2>1, <2>2, Zenon DEF PublishDelta, Step, loopVars
<1>11. ASSUME NEW t \in Txs, DispatchReady(t) \/ DispatchPruneReady(t) \/ Invoke(t)
       PROVE  Rest'
  <2>1. \E b \in Places : worker' = [worker EXCEPT ![t] = b]
    BY <1>11 DEF DispatchReady, DispatchPruneReady, Dispatch, Invoke, Places
  <2>2. worker' \in [Txs -> Places]
    BY <2>1, Zenon
  <2>3. loop' \in {"invokeReady", "invokePruneReady", "popReady", "popPruneReady"}
    BY <1>11, Zenon DEF DispatchReady, DispatchPruneReady, Dispatch, Invoke
  <2>4. UNCHANGED <<block, overlaySnapshot, real, wrote, committedDelta, lastExecuted,
                    committed, reexecError, serialReplayList, serialReplayed>>
    BY <1>11, Zenon DEF DispatchReady, DispatchPruneReady, Dispatch, Invoke
  <2>5. QED
    BY <2>2, <2>3, <2>4, Zenon
<1>12. ASSUME LoopMoves
       PROVE  Rest'
  <2>1. loop' \in {"schedule", "readInProgress", "readReady", "readPruneReady",
                   "popReady", "invokeReady", "popPruneReady", "invokePruneReady",
                   "blockDone", "serial", "done"}
    BY <1>12, Zenon DEF LoopMoves, Scheduled, ReadInProgress, ReadReady, ReadPruneReady,
                 NoMoreReady, NoMorePruneReady, StartSerialReplay, Finished, GoTo
  <2>2. QED
    BY <1>12, <2>1, LoopMovesFrame, Zenon
<1>13. ASSUME NextBlock
       PROVE  Rest'
  BY <1>13, DriverAssumption DEF NextBlock, GoTo, workerVars, Blocks
<1>14. ASSUME NEW x \in PreExecFailed \cup Writers, NEW ws \in SUBSET Keys,
              SerialReplay(x, ws)
       PROVE  Rest'
  <2>1. committedDelta' \in [Keys -> Writers \cup PreExecFailed]
    BY <1>14, Zenon DEF SerialReplay
  <2>2. serialReplayed' \subseteq serialReplayList'
    BY <1>14, Zenon DEF SerialReplay
  <2>3. QED
    BY <1>14, <2>1, <2>2, Zenon DEF SerialReplay
<1>15. ASSUME UNCHANGED driverVars
       PROVE  Rest'
  BY <1>15, Zenon DEF driverVars
<1>16. Rest'
  <2>1. ASSUME NEW t \in Txs, NEW ks \in SUBSET Keys, Schedule(t, ks)
        PROVE  Rest'
    BY <1>15, <2>1, Zenon DEF Schedule
  <2>2. ASSUME UNCHANGED vars
        PROVE  Rest'
    BY <1>15, <2>2, ZenonT(30) DEF vars
  <2> HIDE DEF Rest
  <2>3. QED
    BY <1>6, <1>7, <1>8, <1>9, <1>10, <1>11, <1>12, <1>13, <1>14, <2>1, <2>2, KeySets, Zenon
       DEF DriverNext, LoopStep, LoopMoves, WorkerStep
<1>17. QED
  BY <1>2, <1>3, <1>16 DEF DriverTypeOK

-----------------------------------------------------------------------------
(* The claimed keys *)

\* A goroutine claims the keys it touched until its Execute.
LEMMA HeldKept ==
    ASSUME DriverInv, [DriverNext]_vars
    PROVE  HeldInv'
<1> /\ HeldInv /\ SchedInv /\ worker \in [Txs -> Places] /\ added \in Nat
    /\ real \in [Txs -> SUBSET Keys] /\ txKeyMap \in [Txs -> SUBSET Keys]
    /\ txExecuted \subseteq Txs /\ 1..added \subseteq Txs
  BY NTxAssumption DEF DriverInv, DriverTypeOK, SchedTypeOK, Txs
<1>1. ASSUME UNCHANGED <<keyQueues, added, txExecuted, txKeyMap>>,
             \A t \in Txs : worker'[t] = "prune" <=> worker[t] = "prune",
             \A t \in Txs : worker'[t] = "execute" <=> worker[t] = "execute",
             \A t \in Txs : worker[t] \in {"prune", "execute"} => real'[t] = real[t]
      PROVE  HeldInv'
  <2>1. \A t \in Txs : Held(t)' = Held(t)
    BY <1>1, Zenon DEF Held
  <2>2. QED
    BY <1>1, <2>1, Zenon DEF HeldInv
<1>2. ASSUME NEW t \in Txs, NEW ks \in SUBSET Keys, Schedule(t, ks)
      PROVE  HeldInv'
  <2>1. /\ added' = t /\ t = added + 1 /\ txKeyMap' = [txKeyMap EXCEPT ![t] = ks]
        /\ UNCHANGED <<worker, real, txExecuted>> /\ loop = "schedule"
        /\ addTransaction(t, ks)
    BY <1>2, Zenon DEF Schedule, addTransaction, driverVars
  <2>2. \A u \in Txs : worker[u] = "none"
    BY <2>1 DEF DriverInv, LoopInv, Busy
  <2>3. Held(t)' = ks /\ \A u \in Txs \ {t} : Held(u)' = Held(u)
    BY <2>1, HeldAfterAdd, Zenon
  <2>4. ASSUME NEW u \in 1..added' \ txExecuted'
        PROVE  Held(u)' = txKeyMap'[u]
    <3>1. u = t \/ u \in 1..added \ txExecuted
      BY <2>1
    <3>2. CASE u = t
      BY <2>1, <2>3, <3>2, Zenon
    <3>3. CASE u # t
      BY <2>1, <2>2, <2>3, <3>1, <3>3, Zenon DEF HeldInv
    <3>4. QED
      BY <3>2, <3>3
  <2>5. QED
    BY <2>1, <2>2, <2>4, Zenon DEF HeldInv
<1>3. ASSUME NEW t \in Txs, AbortTx(t) \/ ExecuteTx(t)
      PROVE  HeldInv'
  <2>1. /\ worker[t] \in {"abort", "execute"}
        /\ worker' = [worker EXCEPT ![t] = IF worker[t] = "abort" THEN "append" ELSE "publish"]
        /\ real' = [real EXCEPT ![t] = {}]
        /\ txExecuted' = txExecuted \cup {t} /\ UNCHANGED <<added, txKeyMap>>
        /\ Execute(t) \/ Abort(t)
    <3>1. CASE AbortTx(t)
      BY <3>1 DEF AbortTx, Abort, Step
    <3>2. CASE ExecuteTx(t)
      BY <3>2, Zenon DEF ExecuteTx, Execute, Step
    <3>3. QED
      BY <1>3, <3>1, <3>2, Zenon
  <2>2. t \in running
    BY <2>1, InHandRunning, Zenon
  <2>3. \A u \in Txs \ {t} : Held(u)' = Held(u)
    BY <2>1, <2>2, HeldAfterFinish, Zenon
  <2>4. \A u \in Txs \ {t} : worker'[u] = worker[u] /\ real'[u] = real[u]
    BY <2>1, Zenon
  <2>5. worker'[t] \notin {"prune", "execute"}
    BY <2>1, Zenon
  <2>6. QED
    BY <2>1, <2>3, <2>4, <2>5 DEF HeldInv
<1>4. ASSUME NEW t \in Txs, PruneTx(t)
      PROVE  HeldInv'
  <2>1. /\ worker[t] = "prune" /\ worker' = [worker EXCEPT ![t] = "execute"]
        /\ UNCHANGED <<real, added, txExecuted, txKeyMap>>
        /\ \/ txKeyMap[t] \subseteq real[t] /\ UNCHANGED keyQueues
           \/ Prune(t, real[t])
    <3>1. UNCHANGED <<real, added, txExecuted, txKeyMap>>
      BY <1>4, PruneFrame
    <3>2. \/ txKeyMap[t] \subseteq real[t] /\ UNCHANGED keyQueues
          \/ Prune(t, real[t])
      BY <1>4, Zenon DEF PruneTx, schedVars
    <3>3. QED
      BY <1>4, <3>1, <3>2, Zenon DEF PruneTx, Step
  <2>2. t \in running
    BY <2>1, InHandRunning, Zenon
  <2>3. t \in 1..added \ txExecuted
    BY <2>2, RunningAtFront, Zenon
  <2>4. Held(t) = txKeyMap[t] /\ real[t] \subseteq txKeyMap[t]
    BY <2>1, <2>3, Zenon DEF HeldInv
  <2>5. real[t] \subseteq Held(t)' /\ \A u \in Txs \ {t} : Held(u)' = Held(u)
    <3>1. CASE UNCHANGED keyQueues
      BY <2>4, <3>1, Zenon DEF Held
    <3>2. CASE Prune(t, real[t])
      BY <2>2, <2>4, <3>2, HeldAfterPrune
    <3>3. QED
      BY <2>1, <3>1, <3>2, Zenon
  <2>6. QED
    BY <2>1, <2>5 DEF HeldInv
<1>5. ASSUME NEW t \in Txs,
             \/ \E rs, ws \in SUBSET Keys : ReExecuteOk(t, rs, ws)
             \/ ReExecuteError(t)
      PROVE  HeldInv'
  <2>1. CASE ReExecuteError(t)
    BY <1>1, <2>1, Zenon DEF ReExecuteError, Step, schedVars
  <2>2. CASE \E rs, ws \in SUBSET Keys : ReExecuteOk(t, rs, ws)
    <3>1. PICK rs \in SUBSET Keys, ws \in SUBSET Keys : ReExecuteOk(t, rs, ws)
      BY <2>2
    <3>2. /\ real' = [real EXCEPT ![t] = rs \cup ws]
          /\ worker' = [worker EXCEPT ![t] =
                  IF rs \cup ws \subseteq txKeyMap[t] THEN "prune" ELSE "abort"]
          /\ worker[t] = "reExecute"
          /\ UNCHANGED <<keyQueues, added, txExecuted, txKeyMap>>
      BY <3>1, Zenon DEF ReExecuteOk, Step, schedVars
    <3>3. \A u \in Txs : Held(u)' = Held(u)
      BY <3>2, Zenon DEF Held
    <3>4. QED
      BY <3>2, <3>3, Zenon DEF HeldInv
  <2>3. QED
    BY <1>5, <2>1, <2>2, Zenon
<1>6. ASSUME NEW t \in Txs,
             TakeOverlay(t) \/ AppendSerial(t) \/ PublishDelta(t) \/ ReleaseWorker(t)
                \/ Leave(t)
      PROVE  HeldInv'
  <2>1. UNCHANGED <<keyQueues, added, txExecuted, txKeyMap, real>>
    <3>1. UNCHANGED <<keyQueues, added, txExecuted, txKeyMap>>
      BY <1>6, WorkerFrame, Zenon
    <3>2. real' = real
      BY <1>6, Zenon DEF TakeOverlay, AppendSerial, PublishDelta, ReleaseWorker, Leave, locals
    <3>3. QED
      BY <3>1, <3>2, Zenon
  <2>2. /\ \A u \in Txs : worker'[u] = "prune" <=> worker[u] = "prune"
        /\ \A u \in Txs : worker'[u] = "execute" <=> worker[u] = "execute"
    BY <1>6, Zenon
       DEF TakeOverlay, AppendSerial, PublishDelta, ReleaseWorker, Leave, Step
  <2>3. QED
    BY <1>1, <2>1, <2>2, Zenon
<1>7. ASSUME NEW t \in Txs, DispatchReady(t) \/ DispatchPruneReady(t) \/ Invoke(t)
      PROVE  HeldInv'
  <2>1. UNCHANGED <<keyQueues, added, txExecuted, txKeyMap, real>>
    BY <1>7, Zenon DEF DispatchReady, DispatchPruneReady, Dispatch, PopReady, PopPruneReady,
                Invoke, schedVars
  <2>2. worker[t] \in {"none", "invoked"}
    BY <1>7, PoppedIsFree, Zenon DEF DispatchReady, DispatchPruneReady, PopReady,
                              PopPruneReady, Invoke
  <2>3. /\ \A u \in Txs : worker'[u] = "prune" <=> worker[u] = "prune"
        /\ \A u \in Txs : worker'[u] = "execute" <=> worker[u] = "execute"
    BY <1>7, <2>2, Zenon DEF DispatchReady, DispatchPruneReady, Dispatch, Invoke
  <2>4. QED
    BY <1>1, <2>1, <2>3
<1>8. ASSUME NextBlock
      PROVE  HeldInv'
  <2>1. \A t \in Txs : worker'[t] = "none"
    BY <1>8 DEF NextBlock, GoTo, DriverInv, LoopInv, Busy, workerVars
  <2>2. added' = 0
    BY <1>8, Zenon DEF NextBlock
  <2>3. 1..added' = {}
    BY <2>2
  <2>4. QED
    BY <2>1, <2>3, Zenon DEF HeldInv
<1>9. ASSUME \/ LoopMoves
             \/ \E x \in PreExecFailed \cup Writers, ws \in SUBSET Keys : SerialReplay(x, ws)
             \/ UNCHANGED vars
      PROVE  HeldInv'
  <2>1. UNCHANGED <<keyQueues, added, txExecuted, txKeyMap, worker, real>>
    <3>1. CASE LoopMoves
      BY <3>1, LoopMovesFrame, Zenon DEF schedVars
    <3>2. CASE \E x \in PreExecFailed \cup Writers, ws \in SUBSET Keys : SerialReplay(x, ws)
      BY <3>2, Zenon DEF SerialReplay, schedVars
    <3>3. CASE UNCHANGED vars
      BY <3>3 DEF schedVars, driverVars, vars
    <3>4. QED
      BY <1>9, <3>1, <3>2, <3>3, Zenon
  <2>2. QED
    BY <1>1, <2>1, Zenon
<1>10. ASSUME NEW t \in Txs, WorkerStep(t)
       PROVE  HeldInv'
  BY <1>3, <1>4, <1>5, <1>6, <1>10, KeySets, Zenon DEF WorkerStep
<1>11. ASSUME LoopStep
       PROVE  HeldInv'
  BY <1>7, <1>8, <1>9, <1>11, Zenon DEF LoopStep, LoopMoves
<1>12. QED
  BY <1>2, <1>9, <1>10, <1>11, KeySets, Zenon DEF DriverNext

-----------------------------------------------------------------------------
(* Theorems *)

LEMMA DriverInitInv == DriverInit => DriverInv
<1> SUFFICES ASSUME DriverInit
             PROVE  DriverInv
  OBVIOUS
<1>1. SchedInv
  BY SchedInitInv DEF DriverInit
<1>2. Busy = {} /\ Holding = {} /\ Goroutines = {} /\ InHand = {}
  BY DEF DriverInit, Busy, Holding, Goroutines, InHand
<1>3. Cardinality({}) = 0 /\ NBlocks \in Nat \ {0} /\ PoolSize \in Nat \ {0}
  BY FS_EmptySet, DriverAssumption, Zenon
<1>4. CountInv
  BY <1>2, <1>3 DEF CountInv, DriverInit
<1>5. LoopInv
  BY <1>2, Zenon DEF LoopInv, DriverInit, SchedInit
<1>6. OnceInv
  BY FailedAssumption, <1>3 DEF OnceInv, DriverInit, SchedInit, Blocks
<1>7. DeltaInv
  BY Zenon DEF DeltaInv, DriverInit
<1>8. DriverTypeOK
  <2>1. SchedTypeOK /\ block \in Blocks /\ Witness \in Writers /\ "none" \in Places
    BY <1>1, <1>3 DEF DriverInit, SchedInv, Blocks, Writers, Places
  <2>2. inProgress \in 0..(PoolSize + 1) /\ idle \in 0..PoolSize
    BY <1>3 DEF DriverInit
  <2>3. worker \in [Txs -> Places] /\ overlaySnapshot \in [Txs -> [Keys -> Writers]]
    BY <2>1 DEF DriverInit
  <2>4. real \in [Txs -> SUBSET Keys] /\ wrote \in [Txs -> SUBSET Keys]
    BY DEF DriverInit, NoKeys
  <2>5. /\ committedDelta \in [Keys -> Writers \cup PreExecFailed]
        /\ lastExecuted \in [Keys -> Writers]
    BY <2>1, Zenon DEF DriverInit
  <2>6. /\ committed = {} /\ reexecError = {} /\ serialReplayed = {}
        /\ serialReplayList = PreExecFailed /\ loop = "schedule"
    BY Zenon DEF DriverInit
  <2>7. QED
    BY <2>1, <2>2, <2>3, <2>4, <2>5, <2>6, Zenon DEF DriverTypeOK
<1>9. HeldInv
  BY DEF HeldInv, DriverInit, SchedInit
<1>10. QED
  BY <1>1, <1>4, <1>5, <1>6, <1>7, <1>8, <1>9, Zenon DEF DriverInv

\* The goroutines, counters, lists and committedDelta of runReplayDepurgeMode
\* agree with the scheduler's state in every reachable state.
THEOREM DriverInvariance == DriverSpec => []DriverInv
<1>1. DriverInv /\ [DriverNext]_vars => DriverInv'
  BY SchedKept, CountKept, LoopKept, OnceKept, DeltaKept, TypeKept, HeldKept, Zenon
     DEF DriverInv
<1>2. QED
  BY DriverInitInv, <1>1, PTL DEF DriverSpec

\* Every variable of the driver keeps its type; inProgress never exceeds the
\* pool by more than the transaction that waits for Invoke.
THEOREM DriverTypes == DriverSpec => []DriverTypeOK
<1>1. DriverInv => DriverTypeOK
  BY Zenon DEF DriverInv
<1>2. QED
  BY DriverInvariance, <1>1, PTL

\* The main loop ends a block only when each transaction was committed or is
\* on serialReplayList, and never both.
THEOREM LoopDropsNothing == DriverSpec => []EveryTxOnce
<1>1. DriverInv => EveryTxOnce
  <2> SUFFICES ASSUME DriverInv
               PROVE  EveryTxOnce
    BY Zenon
  <2>1. committed \cap serialReplayList = {}
    BY Zenon DEF DriverInv, OnceInv
  <2>2. ASSUME loop = "blockDone", NEW t \in 1..Contexts[block]
        PROVE  <<block, t>> \in committed \cup serialReplayList
    <3>1. t \in txExecuted
      BY <2>2, BlockExecuted, Zenon
    <3>2. t \in Txs
      BY <3>1, Zenon DEF DriverInv, DriverTypeOK, SchedTypeOK
    <3>3. worker[t] # "append"
      BY <2>2, <3>2, Zenon DEF DriverInv, LoopInv, Busy
    <3>4. QED
      BY <3>1, <3>2, <3>3, Zenon DEF DriverInv, OnceInv
  <2>3. QED
    BY <2>1, <2>2 DEF EveryTxOnce
<1>2. QED
  BY DriverInvariance, <1>1, PTL

\* Serial replay takes its levm worker when no goroutine holds one.
THEOREM SerialReplayExclusive == DriverSpec => []SerialReplayAlone
<1>1. DriverInv => SerialReplayAlone
  <2> SUFFICES ASSUME DriverInv, loop \in {"blockDone", "serial"}
               PROVE  idle = PoolSize /\ \A t \in Txs : worker[t] = "none"
    BY Zenon DEF SerialReplayAlone
  <2>1. Busy = {}
    BY DEF DriverInv, LoopInv
  <2>2. Holding = {} /\ \A t \in Txs : worker[t] = "none"
    BY <2>1 DEF Busy, Holding
  <2>3. Cardinality(Holding) = 0
    BY <2>2, FS_EmptySet, Zenon
  <2>4. QED
    BY <2>2, <2>3, DriverAssumption DEF DriverInv, CountInv
<1>2. QED
  BY DriverInvariance, <1>1, PTL

\* A goroutine that is about to Acquire finds an idle levm worker: those that
\* hold one are other goroutines of a pool of the same size.
THEOREM AcquireImmediate == DriverSpec => []AcquireNeverWaits
<1>1. DriverInv => AcquireNeverWaits
  <2> SUFFICES ASSUME DriverInv, NEW t \in Txs, worker[t] = "reExecute"
               PROVE  idle > 0
    BY DEF AcquireNeverWaits
  <2>1. Holding \subseteq Goroutines \ {t} /\ t \in Goroutines
    BY Zenon DEF Holding, Goroutines
  <2>2. /\ IsFiniteSet(Goroutines \ {t})
        /\ Cardinality(Goroutines \ {t}) = Cardinality(Goroutines) - 1
    BY <2>1, WorkerSetsFinite, FS_RemoveElement, Zenon
  <2>3. Cardinality(Holding) <= Cardinality(Goroutines \ {t})
    BY <2>1, <2>2, FS_Subset, Zenon
  <2>4. QED
    BY <2>2, <2>3, WorkerSetsFinite, DriverAssumption DEF DriverInv, CountInv
<1>2. QED
  BY DriverInvariance, <1>1, PTL

\* At the end of a block committedDelta holds a committed value for exactly
\* the keys that committed transactions wrote.
THEOREM DeltaIsComplete == DriverSpec => []DeltaComplete
<1>1. DriverInv => DeltaComplete
  BY DEF DriverInv, LoopInv, DeltaInv, DeltaComplete, Busy
<1>2. QED
  BY DriverInvariance, <1>1, PTL

\* The driver follows the protocol under which the scheduler was verified.
THEOREM DriverFollowsProtocol == DriverSpec => DriverObeysProtocol
<1>1. DriverInit => SchedInit
  BY DEF DriverInit
<1>2. DriverInv /\ [DriverNext]_vars
        => [SchedNext \/ (txExecuted = 1..Contexts[block] /\ SchedInit')]_schedVars
  BY ProtocolStep, Zenon
<1>3. QED
  BY <1>1, <1>2, DriverInvariance, PTL DEF DriverSpec, DriverObeysProtocol

\* Whatever was pruned, transactions that are about to commit at the same time
\* touched disjoint sets of keys.
THEOREM InFlightDisjoint == DriverSpec => []NoConflictInFlight
<1>1. DriverInv => NoConflictInFlight
  <2> SUFFICES ASSUME DriverInv, NEW t \in Txs, NEW u \in Txs, t # u,
                      worker[t] \in {"prune", "execute"},
                      worker[u] \in {"prune", "execute"}
               PROVE  real[t] \cap real[u] = {}
    BY DEF NoConflictInFlight
  <2>1. t \in running /\ u \in running
    BY InHandRunning, Zenon
  <2>2. t \in 1..added \ txExecuted /\ u \in 1..added \ txExecuted
    BY <2>1, RunningAtFront, Zenon DEF DriverInv
  <2>3. ASSUME NEW v \in Txs, v \in 1..added \ txExecuted, worker[v] \in {"prune", "execute"}
        PROVE  real[v] \subseteq Held(v)
    <3>1. CASE worker[v] = "prune"
      <4>1. real[v] \subseteq txKeyMap[v] /\ Held(v) = txKeyMap[v]
        BY <2>3, <3>1, ZenonT(30) DEF DriverInv, HeldInv
      <4>2. QED
        BY <4>1
    <3>2. CASE worker[v] = "execute"
      BY <2>3, <3>2, Zenon DEF DriverInv, HeldInv
    <3>3. QED
      BY <2>3, <3>1, <3>2, Zenon
  <2>4. KeyExclusion
    BY InvKeyExclusion, Zenon DEF DriverInv
  <2>5. real[t] \subseteq Held(t) /\ real[u] \subseteq Held(u)
    BY <2>2, <2>3
  <2>6. QED
    BY <2>1, <2>4, <2>5, Zenon DEF KeyExclusion
<1>2. QED
  BY DriverInvariance, <1>1, PTL
=============================================================================
