---------------------------- MODULE BenchDepurge ----------------------------
(***************************************************************************)
(* TestDepurge of test.go: the benchmark's driver of the Depurge           *)
(* scheduler.  Goroutines of a pool re-execute the transactions, check     *)
(* them against their conservative keys and execute or abort them in the   *)
(* scheduler, while the main goroutine pops what is ready and polls for    *)
(* the end; then the transactions that exceeded their keys are replayed    *)
(* serially.  Re-execution is external.                                    *)
(***************************************************************************)
EXTENDS DepurgeScheduler

CONSTANT PoolSize   \* runtime.NumCPU()

VARIABLES
    loop,              \* where the main goroutine is
    inProgress,        \* the atomic counter
    worker,            \* where the goroutine of each transaction is
    real,              \* the real keys of its re-execution
    commitOrder,       \* transactions in commitOrder[0]
    orderRead,         \* the slice an append to it has read and not stored yet
    serialReplayList,
    serialReplayed

benchVars == <<loop, inProgress, worker, real, commitOrder, orderRead, serialReplayList,
               serialReplayed>>
vars == <<schedVars, benchVars>>

Init ==
    /\ SchedInit
    /\ loop = "schedule" /\ inProgress = 0
    /\ worker = [t \in Txs |-> "none"]
    /\ real = [t \in Txs |-> {}]
    /\ commitOrder = {} /\ orderRead = [t \in Txs |-> {}]
    /\ serialReplayList = {} /\ serialReplayed = {}

-----------------------------------------------------------------------------
(* The main goroutine *)

resultVars == <<real, commitOrder, orderRead, serialReplayList, serialReplayed>>

\* Depurge_schedule; only transactions with a context are scheduled.
Schedule(t, ks) ==
    /\ loop = "schedule"
    /\ addTransaction(t, ks)
    /\ UNCHANGED benchVars

GoTo(from, to) ==
    /\ loop = from
    /\ loop' = to
    /\ UNCHANGED <<schedVars, inProgress, worker, resultVars>>

\* The loop's condition reads the queues first and the counter last.
Poll ==
    \/ added = NTx /\ GoTo("schedule", "readReady")
    \/ GoTo("readReady", IF readyQueue # {} THEN "popReady" ELSE "readPruneReady")
    \/ GoTo("readPruneReady", IF pruneReadyQueue # {} THEN "popReady" ELSE "readInProgress")
    \/ GoTo("readInProgress", IF inProgress > 0 THEN "popReady" ELSE "serial")
    \/ readyQueue = {} /\ GoTo("popReady", "popPruneReady")
    \/ pruneReadyQueue = {} /\ GoTo("popPruneReady", "readReady")

\* The transaction popped is counted, then Invoke waits for the pool.
Dispatch(t) ==
    /\ \/ loop = "popReady" /\ PopReady(t) /\ loop' = "invokeReady"
       \/ loop = "popPruneReady" /\ PopPruneReady(t) /\ loop' = "invokePruneReady"
    /\ inProgress' = inProgress + 1
    /\ worker' = [worker EXCEPT ![t] = "invoked"]
    /\ UNCHANGED resultVars

Goroutines == {t \in Txs : worker[t] \notin {"none", "invoked"}}

Invoke(t) ==
    /\ worker[t] = "invoked" /\ Cardinality(Goroutines) < PoolSize
    /\ worker' = [worker EXCEPT ![t] = "reExecute"]
    /\ loop' = IF loop = "invokeReady" THEN "popReady" ELSE "popPruneReady"
    /\ UNCHANGED <<schedVars, inProgress, resultVars>>

\* serialReplayList sorted; a failed replay is passed over.
SerialReplay(t) ==
    /\ loop = "serial"
    /\ t \in serialReplayList \ serialReplayed
    /\ \A u \in serialReplayList \ serialReplayed : t <= u
    /\ serialReplayed' = serialReplayed \cup {t}
    /\ UNCHANGED <<schedVars, loop, inProgress, worker, real, commitOrder, orderRead,
                   serialReplayList>>

\* The commit looks each write of commitOrder up in committedState by its bare
\* key, while updateCommittedState made the entries 'Contract:key': none is
\* found, and nothing is stored.
Commit ==
    /\ loop = "serial" /\ serialReplayed = serialReplayList
    /\ loop' = "done"
    /\ UNCHANGED <<schedVars, inProgress, worker, real, commitOrder, orderRead,
                   serialReplayList, serialReplayed>>

-----------------------------------------------------------------------------
(* The goroutine that validates transaction t *)

Step(t, from, to) ==
    /\ worker[t] = from
    /\ worker' = [worker EXCEPT ![t] = to]
    /\ UNCHANGED <<loop, serialReplayed>>

\* The real keys are compared with the conservative keys computed again on the
\* current state, or with the scheduler's when there are none; Prune is called
\* only when some of these was not touched.
ReExecute(t, rw, dynamic) ==
    /\ LET conservative == IF dynamic = {} THEN txKeyMap[t] ELSE dynamic
       IN  Step(t, "reExecute", IF ~(rw \subseteq conservative) THEN "exceed"
                                ELSE IF rw = conservative THEN "execute" ELSE "prune")
    /\ real' = [real EXCEPT ![t] = rw]
    /\ UNCHANGED <<schedVars, inProgress, commitOrder, orderRead, serialReplayList>>

\* A transaction whose re-execution failed is aborted and not replayed.
ReExecuteError(t) ==
    /\ Step(t, "reExecute", "leave")
    /\ Abort(t)
    /\ UNCHANGED <<inProgress, real, commitOrder, orderRead, serialReplayList>>

AbortExceeding(t) ==
    /\ Step(t, "exceed", "append")
    /\ Abort(t)
    /\ UNCHANGED <<inProgress, real, commitOrder, orderRead, serialReplayList>>

AppendSerial(t) ==
    /\ Step(t, "append", "leave")
    /\ serialReplayList' = serialReplayList \cup {t}
    /\ UNCHANGED <<schedVars, inProgress, real, commitOrder, orderRead>>

\* Prune gives back the scheduler's keys that were not touched.
PruneTx(t) ==
    /\ Step(t, "prune", "execute")
    /\ Prune(t, real[t])
    /\ UNCHANGED <<inProgress, real, commitOrder, orderRead, serialReplayList>>

ExecuteTx(t) ==
    /\ Step(t, "execute", "order")
    /\ Execute(t)
    /\ UNCHANGED <<inProgress, real, commitOrder, orderRead, serialReplayList>>

\* The append to commitOrder[0] is not locked: it reads the slice ...
ReadOrder(t) ==
    /\ Step(t, "order", "storeOrder")
    /\ orderRead' = [orderRead EXCEPT ![t] = commitOrder]
    /\ UNCHANGED <<schedVars, inProgress, real, commitOrder, serialReplayList>>

\* ... and stores it with the transaction added.
StoreOrder(t) ==
    /\ Step(t, "storeOrder", "leave")
    /\ commitOrder' = orderRead[t] \cup {t}
    /\ orderRead' = [orderRead EXCEPT ![t] = {}]
    /\ UNCHANGED <<schedVars, inProgress, real, serialReplayList>>

Leave(t) ==
    /\ Step(t, "leave", "none")
    /\ inProgress' = inProgress - 1
    /\ real' = [real EXCEPT ![t] = {}]
    /\ UNCHANGED <<schedVars, commitOrder, orderRead, serialReplayList>>

\* The Go runtime may notice two goroutines in the map and end the process.
ConcurrentMapWrites ==
    /\ \E t, u \in Txs : t # u /\ worker[t] = "storeOrder" /\ worker[u] = "storeOrder"
    /\ loop' = "fatal"
    /\ UNCHANGED <<schedVars, inProgress, worker, resultVars>>

-----------------------------------------------------------------------------
Validate(t) ==
    \/ \E rw, dynamic \in SUBSET Keys : ReExecute(t, rw, dynamic)
    \/ ReExecuteError(t) \/ AbortExceeding(t) \/ AppendSerial(t)
    \/ PruneTx(t) \/ ExecuteTx(t) \/ ReadOrder(t) \/ StoreOrder(t) \/ Leave(t)

Next ==
    /\ loop # "fatal"
    /\ \/ \E t \in Txs, ks \in SUBSET Keys : Schedule(t, ks)
       \/ Poll \/ Commit \/ ConcurrentMapWrites
       \/ \E t \in Txs : Dispatch(t) \/ Invoke(t) \/ SerialReplay(t) \/ Validate(t)

Spec == Init /\ [][Next]_vars

-----------------------------------------------------------------------------
\* The loop ends when every transaction was executed or aborted: otherwise "the
\* loop then exited with the successor still queued and the tx was silently
\* dropped", as the comment on the other driver's loop puts it.
NothingDropped == loop \in {"serial", "done"} => txExecuted = Txs
=============================================================================
