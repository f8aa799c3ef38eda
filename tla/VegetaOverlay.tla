--------------------------- MODULE VegetaOverlay ---------------------------
(***************************************************************************)
(* Vegeta without --disk-trie: every transaction of a batch re-executes on *)
(* a pooled levm worker, on top of one snapshot of committedDelta; the     *)
(* batch's writes are merged into committedDelta when all have finished,   *)
(* and aborted transactions are replayed serially at the end.              *)
(* A value is named by the transaction that wrote it.                      *)
(***************************************************************************)
EXTENDS VegetaDag

CONSTANTS PoolSize,   \* runtime.NumCPU(): goroutines, and levm workers
          RealSets    \* the <<reads, writes>> a re-execution may report

ASSUME PoolAssumption ==
    PoolSize \in Nat \ {0} /\ RealSets \subseteq (SUBSET Keys) \X (SUBSET Keys)

VARIABLES
    committedDelta,    \* key -> value
    todo,              \* transactions of the batch not handed to the pool yet
    worker,            \* where the goroutine of each transaction is
    idle,              \* idle levm workers
    batchResults,      \* transactions of the batch that validated
    wrote,             \* keys of batchWriteValues
    seen,              \* history: key -> value, for the keys the transaction read
    serialReplayList,
    listRead,          \* the slice an append has read and not stored yet
    committed,         \* transactions merged into committedDelta
    stateDB,           \* state of the levm of the serial replay
    aborted,           \* transactions counted by algorithmAborted
    replayed           \* transactions replayed serially

runVars == <<committedDelta, todo, worker, idle, batchResults, wrote, seen,
             serialReplayList, listRead, committed, aborted, replayed, stateDB>>
vars == <<dagVars, runVars>>

Init ==
    /\ DagInit
    /\ committedDelta = [k \in Keys |-> Witness]
    /\ todo = {}
    /\ worker = [t \in Txs |-> "none"]
    /\ idle = PoolSize
    /\ batchResults = {}
    /\ wrote = [t \in Txs |-> {}]
    /\ seen = [t \in Txs |-> <<>>]
    /\ serialReplayList = {}
    /\ listRead = [t \in Txs |-> {}]
    /\ committed = {} /\ aborted = {} /\ replayed = {}
    /\ stateDB = [k \in Keys |-> Witness]

-----------------------------------------------------------------------------
(* The main goroutine *)

Order == OrderBlock /\ UNCHANGED runVars

\* A batch starts: overlaySnapshot is committedDelta, which does not change
\* before the batch is merged.
Select ==
    /\ SelectBatch
    /\ todo' = batch'
    /\ batchResults' = {}
    /\ UNCHANGED <<committedDelta, worker, idle, wrote, seen, stateDB, serialReplayList,
                   listRead, committed, aborted, replayed>>

Goroutines == {t \in Txs : worker[t] # "none"}

\* Invoke blocks while every goroutine of the pool is busy.
Invoke(t) ==
    /\ phase = "run"
    /\ t \in todo /\ \A u \in todo : t <= u
    /\ Cardinality(Goroutines) < PoolSize
    /\ todo' = todo \ {t}
    /\ worker' = [worker EXCEPT ![t] = "acquire"]
    /\ UNCHANGED <<dagVars, committedDelta, idle, batchResults, wrote, seen, stateDB,
                   serialReplayList, listRead, committed, aborted, replayed>>

\* After wg.Wait(): the merge runs in the order of the TxIDs.
Merge ==
    /\ todo = {} /\ Goroutines = {}
    /\ BatchDone
    /\ committedDelta' = [k \in Keys |->
           LET writers == {t \in batchResults : k \in wrote[t]}
           IN  IF writers = {} THEN committedDelta[k] ELSE Max(writers)]
    /\ committed' = committed \cup batchResults
    /\ aborted' = aborted \cup (batch \ batchResults)
    /\ UNCHANGED <<todo, worker, idle, batchResults, wrote, seen, stateDB,
                   serialReplayList, listRead, replayed>>

EndBlock == NextBlock /\ UNCHANGED runVars

EndValidation == StartSerialReplay /\ UNCHANGED runVars

-----------------------------------------------------------------------------
(* The goroutine validating a transaction *)

Acquire(t) ==
    /\ worker[t] = "acquire" /\ idle > 0
    /\ idle' = idle - 1
    /\ worker' = [worker EXCEPT ![t] = "execute"]
    /\ UNCHANGED <<dagVars, committedDelta, todo, batchResults, wrote, seen, stateDB,
                   serialReplayList, listRead, committed, aborted, replayed>>

\* The values a transaction reads.
Read(state, rs) == [k \in rs |-> state[k]]

\* Real keys within the speculative ones
KeysMatch(t, real) == real[1] \subseteq specRS[t] /\ real[2] \subseteq specWS[t]

\* ReExecute succeeds and the result validates.
Validate(t) ==
    /\ worker[t] = "execute"
    /\ \E real \in RealSets :
          /\ KeysMatch(t, real)
          /\ seen' = [seen EXCEPT ![t] = Read(committedDelta, real[1])]
          /\ wrote' = [wrote EXCEPT ![t] = real[2]]
    /\ batchResults' = batchResults \cup {t}
    /\ worker' = [worker EXCEPT ![t] = "release"]
    /\ UNCHANGED <<dagVars, committedDelta, todo, idle, stateDB, serialReplayList, listRead,
                   committed, aborted, replayed>>

\* ReExecute fails, or the real keys exceed the speculative ones: the
\* append to serialReplayList, outside resultsLock, reads the slice ...
Reject(t) ==
    /\ worker[t] = "execute"
    /\ listRead' = [listRead EXCEPT ![t] = serialReplayList]
    /\ worker' = [worker EXCEPT ![t] = "append"]
    /\ UNCHANGED <<dagVars, committedDelta, todo, idle, batchResults, wrote, seen, stateDB,
                   serialReplayList, committed, aborted, replayed>>

\* ... and stores it with the transaction added.
StoreList(t) ==
    /\ worker[t] = "append"
    /\ serialReplayList' = listRead[t] \cup {t}
    /\ listRead' = [listRead EXCEPT ![t] = {}]
    /\ worker' = [worker EXCEPT ![t] = "release"]
    /\ UNCHANGED <<dagVars, committedDelta, todo, idle, batchResults, wrote, seen, stateDB,
                   committed, aborted, replayed>>

\* Variant: the levm worker is not released.
ReturnKeepingWorker(t) ==
    /\ worker[t] = "release"
    /\ worker' = [worker EXCEPT ![t] = "none"]
    /\ UNCHANGED <<dagVars, committedDelta, todo, idle, batchResults, wrote, seen, stateDB,
                   serialReplayList, listRead, committed, aborted, replayed>>

\* The deferred Release and wg.Done.
Return(t) ==
    /\ worker[t] = "release"
    /\ idle' = idle + 1
    /\ worker' = [worker EXCEPT ![t] = "none"]
    /\ UNCHANGED <<dagVars, committedDelta, todo, batchResults, wrote, seen, stateDB,
                   serialReplayList, listRead, committed, aborted, replayed>>

-----------------------------------------------------------------------------
(* Step 8: the serial replay *)

NextToReplay(t) ==
    /\ phase = "serial"
    /\ t \in serialReplayList \ replayed
    /\ \A u \in serialReplayList \ replayed : t <= u

\* Variant: the first replay does not apply committedDelta.
ReplayBaseNoOverride == stateDB

\* The state t is replayed on: the first replay applies committedDelta on top
\* of the witness, the others accumulate.
ReplayBase == IF replayed = {} THEN committedDelta ELSE stateDB

\* A failing replay leaves the base; both count as replayed.
Replay(t) ==
    /\ NextToReplay(t)
    /\ \/ /\ stateDB' = ReplayBase
          /\ UNCHANGED <<committedDelta, wrote, seen>>
       \/ \E real \in RealSets :
             /\ seen' = [seen EXCEPT ![t] = Read(ReplayBase, real[1])]
             /\ wrote' = [wrote EXCEPT ![t] = real[2]]
             /\ stateDB' = [k \in Keys |-> IF k \in real[2] THEN t ELSE ReplayBase[k]]
             /\ committedDelta' = IF replayed = {} THEN stateDB' ELSE committedDelta
    /\ replayed' = replayed \cup {t}
    /\ UNCHANGED <<dagVars, todo, worker, idle, batchResults, serialReplayList, listRead,
                   committed, aborted>>

Finish ==
    /\ phase = "serial" /\ serialReplayList \subseteq replayed
    /\ phase' = "done"
    /\ UNCHANGED <<specRS, specWS, blockSize, start, orderedTxs, remaining, executed, batch, order, runVars>>

Terminated == phase = "done" /\ UNCHANGED vars

Worker(t) == Acquire(t) \/ Validate(t) \/ Reject(t) \/ StoreList(t) \/ Return(t)
Main == Order \/ Select \/ Merge \/ EndBlock \/ EndValidation \/ Finish
Next ==
    \/ Main
    \/ \E t \in Txs : Invoke(t) \/ Worker(t) \/ Replay(t)
    \/ Terminated

Spec == Init /\ [][Next]_vars

\* The Go scheduler runs every goroutine that can take a step.
FairSpec ==
    /\ Spec
    /\ WF_vars(Main)
    /\ \A t \in Txs : WF_vars(Invoke(t)) /\ WF_vars(Worker(t)) /\ WF_vars(Replay(t))

-----------------------------------------------------------------------------
(* Properties *)

\* The state of the main goroutine, the pool and the histories has its type.
TypeOK ==
    /\ phase \in {"order", "select", "run", "serial", "done"}
    /\ committedDelta \in [Keys -> Txs \cup {Witness}] /\ stateDB \in [Keys -> Txs \cup {Witness}]
    /\ worker \in [Txs -> {"none", "acquire", "execute", "append", "release"}]
    /\ idle + Cardinality({t \in Txs : worker[t] \in {"execute", "append", "release"}}) = PoolSize
    /\ todo \subseteq batch /\ Goroutines \subseteq batch \ todo
    /\ batch \subseteq remaining /\ remaining \cap executed = {}

\* The execution is equivalent to the serial one that runs the transactions the
\* batches committed in chain order and then the replayed ones in TxID order:
\* what each of them read was written last before it in that order.
SerialEquivalence ==
    /\ \A t \in committed : \A k \in DOMAIN seen[t] :
          seen[t][k] = LastWriter(order, k, Position(order, t) - 1, committed, wrote)
    /\ \A t \in replayed : \A k \in DOMAIN seen[t] :
          seen[t][k] = ReplayedValue(order, k, t, committed, replayed, wrote)

\* Between two batches committedDelta is what the serial execution of the
\* committed transactions in chain order leaves: Merge applies a batch in
\* TxID order, which is another order.
DeltaIsSerialState ==
    phase = "select" =>
        committedDelta = [k \in Keys |-> LastWriter(order, k, Len(order), committed, wrote)]

\* No transaction is lost by the DAG: the loop over the batches breaks when no
\* transaction is ready, and when the range is done each one was committed or
\* counted as aborted, not both.  The serial replay runs aborted ones only, so
\* none is executed twice; it may miss some, because the appends race.
EveryTxDecided ==
    /\ committed \cap aborted = {}
    /\ phase \in {"serial", "done"} => /\ committed \cup aborted = Txs
                                      /\ replayed \subseteq serialReplayList
                                      /\ serialReplayList \subseteq aborted

\* The transactions that failed: counted as aborted already, or in the batch and
\* stored in the list.
Rejected ==
    aborted \cup {t \in batch \ (todo \cup batchResults) : worker[t] \in {"release", "none"}}

\* The pool: levm workers are neither lost nor shared, and a transaction of a
\* batch is waiting, in a goroutine, validated or rejected.
PoolInv ==
    /\ TypeOK /\ idle \in Nat
    /\ committed \cup aborted = Done /\ committed \cap aborted = {}
    /\ IF phase = "run" THEN batchResults \subseteq batch \ todo ELSE batchResults \subseteq committed
    /\ \A t \in batchResults : worker[t] \in {"none", "release"}

\* serialReplayList and the copies racing appends hold rejected transactions
\* only; a racing append may have dropped some.
ListInv ==
    /\ listRead \in [Txs -> SUBSET Rejected] /\ serialReplayList \subseteq Rejected

\* Values: a validated transaction stays within its speculative keys and has read
\* committedDelta, which is the serial state of the committed transactions.
DeltaInv ==
    /\ wrote \in [Txs -> SUBSET Keys] /\ DOMAIN seen = Txs
    /\ \A t \in committed \cup batchResults :
          wrote[t] \subseteq specWS[t] /\ DOMAIN seen[t] \subseteq specRS[t]
    /\ \A t \in Txs \ (committed \cup batchResults \cup replayed) :
          wrote[t] = {} /\ DOMAIN seen[t] = {}
    /\ phase = "run" => \A t \in batchResults : \A k \in DOMAIN seen[t] :
          seen[t][k] = committedDelta[k]
    /\ replayed = {} => \A k \in Keys :
          committedDelta[k] = LastWriter(order, k, Len(order), committed, wrote)

\* The replay goes through the list in the order of the TxIDs and accumulates.
ReplayInv ==
    /\ replayed \subseteq serialReplayList
    /\ replayed # {} => /\ phase \in {"serial", "done"}
                        /\ \A k \in Keys : stateDB[k] = ReplayedValue(order, k, NTx + 1, committed, replayed, wrote)
    /\ \A t \in replayed, u \in serialReplayList \ replayed : t < u

\* The inductive invariant of the overlay mode.
OverlayInv ==
    DagInv /\ PoolInv /\ ListInv /\ DeltaInv /\ ReplayInv /\ SerialEquivalence

\* The batches, the pool and the serial replay never wait for one another forever.
EventuallyDone == <>(phase = "done")
=============================================================================
