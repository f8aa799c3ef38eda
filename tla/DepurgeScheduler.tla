-------------------------- MODULE DepurgeScheduler --------------------------
(***************************************************************************)
(* The Depurge scheduler of core/Depurge.go: one FIFO queue of             *)
(* transactions per conservative key, a counter per transaction of the     *)
(* queues it still has to reach the front of, and two queues of            *)
(* transactions that may run.  Every public method holds ds.mu, so every   *)
(* method is one atomic step; the composition of calls is not atomic and   *)
(* is what the interleavings of this module explore.                       *)
(*                                                                         *)
(* Transactions are numbered in the order of their TxID strings, the order *)
(* in which Depurge_schedule adds them.  readyQueue and pruneReadyQueue    *)
(* are kept as sets: the maps inReady and inPruneReady mirror the lists,   *)
(* and the order in which ready transactions are popped is left open.      *)
(***************************************************************************)
EXTENDS Integers, Sequences, FiniteSets

CONSTANTS NTx,   \* the most transactions a block can have
          Keys   \* state keys

ASSUME NTxAssumption  == NTx \in Nat
ASSUME KeysAssumption == IsFiniteSet(Keys)

Txs  == 1..NTx
None == 0       \* the empty string front() returns on an empty queue

VARIABLES
    added,            \* transactions 1..added have been given to addTransaction
    txKeyMap,         \* conservative keys of each transaction
    keyQueues,        \* key -> FIFO of transactions
    txReadyCount,     \* queues the transaction is not yet at the front of
    txExecuted,       \* transactions executed or aborted
    readyQueue,       \* may run, released by addTransaction or Execute
    pruneReadyQueue,  \* may run, released by Abort or Prune
    running           \* popped by the main loop, not yet executed or aborted

schedVars == <<added, txKeyMap, keyQueues, txReadyCount, txExecuted,
               readyQueue, pruneReadyQueue, running>>

-----------------------------------------------------------------------------
(* TransactionQueue *)

InQueue(q, t) == \E i \in 1..Len(q) : q[i] = t

Front(q) == IF q = <<>> THEN None ELSE Head(q)

Push(q, t) == IF InQueue(q, t) THEN q ELSE Append(q, t)

\* list.Remove of the element that index[t] points to
Remove(q, t) ==
    LET i == CHOOSE j \in 1..Len(q) : q[j] = t
    IN  [j \in 1..(Len(q) - 1) |-> IF j < i THEN q[j] ELSE q[j + 1]]

-----------------------------------------------------------------------------
SchedInit ==
    /\ added = 0
    /\ txKeyMap = [t \in Txs |-> {}]
    /\ keyQueues = [k \in Keys |-> <<>>]
    /\ txReadyCount = [t \in Txs |-> 0]
    /\ txExecuted = {}
    /\ readyQueue = {}
    /\ pruneReadyQueue = {}
    /\ running = {}

\* Depurge_schedule adds the contexts in TxID order; ks is the union of the
\* context's PreReadSet and PreWriteSet, deduplicated.
addTransaction(t, ks) ==
    /\ t = added + 1
    /\ added' = t
    /\ txKeyMap' = [txKeyMap EXCEPT ![t] = ks]
    /\ keyQueues' = [k \in Keys |->
            IF k \in ks THEN Push(keyQueues[k], t) ELSE keyQueues[k]]
    /\ txReadyCount' = [txReadyCount EXCEPT
            ![t] = Cardinality({k \in ks : Front(Push(keyQueues[k], t)) # t})]
    /\ readyQueue' = IF \A k \in ks : Front(Push(keyQueues[k], t)) = t
                     THEN readyQueue \cup {t} ELSE readyQueue
    /\ UNCHANGED <<txExecuted, pruneReadyQueue, running>>

-----------------------------------------------------------------------------
(* The release loop shared by Execute, Abort and Prune.  rel is the set of *)
(* keys whose queue the transaction leaves from the front.                 *)

NextTx(k) == Front(Tail(keyQueues[k]))

\* the queues of rel whose new front is u
Freed(rel, u) == {k \in rel : NextTx(k) = u}

\* Variant: one decrement per call, however many queues were freed.
CountAfterOnce(rel, done) ==
    [u \in Txs |-> IF u \in done \/ Freed(rel, u) = {} THEN txReadyCount[u]
                   ELSE txReadyCount[u] - 1]

\* txReadyCount[nextTx]-- once per freed queue, done meaning txExecuted
CountAfter(rel, done) ==
    [u \in Txs |-> IF u \in done THEN txReadyCount[u]
                   ELSE txReadyCount[u] - Cardinality(Freed(rel, u))]

\* Variant: off by one, a transaction is released one queue too early.
ReleasedEarly(rel, done) ==
    {u \in Txs \ done : txReadyCount[u] > 1 /\ CountAfter(rel, done)[u] <= 1}

\* the transactions whose counter passes 0 in the loop
Released(rel, done) ==
    {u \in Txs \ done : /\ txReadyCount[u] > 0
                        /\ CountAfter(rel, done)[u] <= 0}

FrontKeys(t) == {k \in txKeyMap[t] : Front(keyQueues[k]) = t}

PopFrom(rel) ==
    [k \in Keys |-> IF k \in rel THEN Tail(keyQueues[k]) ELSE keyQueues[k]]

\* A call on an executed transaction returns at once: a stuttering step.
Execute(t) ==
    LET rel  == FrontKeys(t)
        done == txExecuted \cup {t}
    IN  /\ t \notin txExecuted
        /\ txExecuted' = done
        /\ keyQueues' = PopFrom(rel)
        /\ txReadyCount' = CountAfter(rel, done)
        /\ readyQueue' = readyQueue \cup Released(rel, done)
        /\ running' = running \ {t}
        /\ UNCHANGED <<added, txKeyMap, pruneReadyQueue>>

\* Variant: an abort leaves the transaction in its queues.
AbortInPlace(t) ==
    /\ t \notin txExecuted
    /\ txExecuted' = txExecuted \cup {t}
    /\ running' = running \ {t}
    /\ UNCHANGED <<added, txKeyMap, keyQueues, txReadyCount, readyQueue, pruneReadyQueue>>

Abort(t) ==
    LET rel  == FrontKeys(t)
        done == txExecuted \cup {t}
    IN  /\ t \notin txExecuted
        /\ txExecuted' = done
        /\ keyQueues' = PopFrom(rel)
        /\ txReadyCount' = CountAfter(rel, done)
        /\ pruneReadyQueue' =
                pruneReadyQueue \cup (Released(rel, done) \ readyQueue)
        /\ running' = running \ {t}
        /\ UNCHANGED <<added, txKeyMap, readyQueue>>

\* Variant: the next transaction of a pruned queue is not told.
PruneSilent(t, realKeys) ==
    LET spurious == {k \in txKeyMap[t] \ realKeys : InQueue(keyQueues[k], t)}
    IN  /\ keyQueues' = [k \in Keys |->
                IF k \in spurious THEN Remove(keyQueues[k], t) ELSE keyQueues[k]]
        /\ UNCHANGED <<added, txKeyMap, txReadyCount, txExecuted, readyQueue,
                       pruneReadyQueue, running>>

\* The conservative keys of t that it did not really touch are given back.
Prune(t, realKeys) ==
    LET spurious == {k \in txKeyMap[t] \ realKeys : InQueue(keyQueues[k], t)}
        rel      == {k \in spurious : Front(keyQueues[k]) = t}
    IN  /\ keyQueues' = [k \in Keys |->
                IF k \in spurious THEN Remove(keyQueues[k], t) ELSE keyQueues[k]]
        /\ txReadyCount' = CountAfter(rel, txExecuted)
        /\ pruneReadyQueue' =
                pruneReadyQueue \cup (Released(rel, txExecuted) \ readyQueue)
        /\ UNCHANGED <<added, txKeyMap, txExecuted, readyQueue, running>>

PopReady(t) ==
    /\ t \in readyQueue
    /\ readyQueue' = readyQueue \ {t}
    /\ running' = running \cup {t}
    /\ UNCHANGED <<added, txKeyMap, keyQueues, txReadyCount, txExecuted,
                   pruneReadyQueue>>

PopPruneReady(t) ==
    /\ t \in pruneReadyQueue
    /\ pruneReadyQueue' = pruneReadyQueue \ {t}
    /\ running' = running \cup {t}
    /\ UNCHANGED <<added, txKeyMap, keyQueues, txReadyCount, txExecuted,
                   readyQueue>>

-----------------------------------------------------------------------------
(* The scheduler under any callers that follow the drivers' protocol:      *)
(* Depurge_schedule has added the whole block, of any size, before a       *)
(* transaction is popped, and only the worker that was handed one prunes,  *)
(* executes or aborts it.                                                  *)

SchedNext ==
    \/ /\ running = {} /\ txExecuted = {}
       /\ \E t \in Txs, ks \in SUBSET Keys : addTransaction(t, ks)
    \/ \E t \in Txs : PopReady(t)
    \/ \E t \in Txs : PopPruneReady(t)
    \/ \E t \in running, ks \in SUBSET Keys : Prune(t, ks)
    \/ \E t \in running : Execute(t)
    \/ \E t \in running : Abort(t)

SchedSpec == SchedInit /\ [][SchedNext]_schedVars

\* A worker that was handed a transaction finishes it, and the main loop
\* keeps polling both queues.
SchedFairness ==
    /\ \A t \in Txs : WF_schedVars(PopReady(t) \/ PopPruneReady(t))
    /\ \A t \in Txs : WF_schedVars(t \in running /\ (Execute(t) \/ Abort(t)))

FairSchedSpec == SchedSpec /\ SchedFairness
-----------------------------------------------------------------------------
(* Properties *)

Held(t) == {k \in Keys : InQueue(keyQueues[k], t)}

\* the queues in which t waits behind another transaction
Waits(t) == {k \in Held(t) : Head(keyQueues[k]) # t}

SchedTypeOK ==
    /\ added \in 0..NTx
    /\ txKeyMap \in [Txs -> SUBSET Keys]
    /\ keyQueues \in [Keys -> Seq(Txs)]
    /\ txReadyCount \in [Txs -> Int]
    /\ txExecuted \subseteq Txs
    /\ readyQueue \subseteq Txs
    /\ pruneReadyQueue \subseteq Txs
    /\ running \subseteq Txs

\* The counter that Execute, Abort and Prune decrement across their three
\* loops never drifts: for a transaction that is still to finish it is the
\* number of queues in which another transaction is ahead of it.
ReadyCountExact ==
    \A t \in 1..added \ txExecuted : txReadyCount[t] = Cardinality(Waits(t))

\* "each txID is processed by exactly one worker at a time" (the comment on
\* DepurgeScheduler): a transaction is in at most one of readyQueue,
\* pruneReadyQueue, a worker's hands and the executed ones, although Execute
\* pushes to readyQueue without looking at inPruneReady.
OneWorkerPerTx ==
    /\ readyQueue \cap pruneReadyQueue = {}
    /\ running \cap (readyQueue \cup pruneReadyQueue) = {}
    /\ txExecuted \cap (readyQueue \cup pruneReadyQueue \cup running) = {}

\* Two transactions in the hands of workers never hold a key in common,
\* whatever was pruned, executed and aborted before.
KeyExclusion ==
    \A t, u \in running : t # u => Held(t) \cap Held(u) = {}

\* No wake-up is lost and nobody waits on everybody: while a transaction is
\* unfinished, some transaction is ready or running, so the main loop may
\* stop when both queues are empty and no worker is busy.
NoStall ==
    (readyQueue = {} /\ pruneReadyQueue = {} /\ running = {})
        => txExecuted = 1..added

\* A finished transaction leaves nothing behind in the queues: Execute and
\* Abort only pop the queues it is at the front of, Prune removes the rest.
NothingLeftBehind ==
    \A t \in txExecuted : Held(t) = {}

\* TxID order is the order of every queue, so no two transactions can wait
\* for each other.
Sorted(q) == \A i, j \in 1..Len(q) : i < j => q[i] < q[j]

\* The inductive invariant behind the properties above.  ReadyCountExact and
\* OneWorkerPerTx are not inductive alone: a release must know that it can
\* only reach a transaction that waits in the queue (the queue's order and
\* members) and that waiting and being handed out exclude each other.
SchedInv ==
    /\ SchedTypeOK
    /\ \A k \in Keys : Sorted(keyQueues[k])
    /\ \A k \in Keys : \A i \in 1..Len(keyQueues[k]) :
            /\ keyQueues[k][i] \in 1..added \ txExecuted
            /\ k \in txKeyMap[keyQueues[k][i]]
    /\ readyQueue \cup pruneReadyQueue \cup running \cup txExecuted \subseteq 1..added
    /\ OneWorkerPerTx
    /\ ReadyCountExact
    /\ \A t \in 1..added \ txExecuted :
            t \in readyQueue \cup pruneReadyQueue \cup running <=> Waits(t) = {}

Locks == INSTANCE OrderedKeyLocks
            WITH declared <- added,
                 held     <- [t \in Txs |-> Held(t)],
                 started  <- running,
                 finished <- txExecuted

\* The queues implement ordered locking: PopReady and PopPruneReady hand out
\* a transaction only when no transaction with a smaller TxID holds one of
\* its keys, and keys are given back only by the transaction that holds them.
ImplementsOrderedLocks == Locks!LockSpec

\* Every transaction that was added is finished in the end, under the
\* fairness of the main loop and of the workers.
AllFinish == \A t \in Txs : (t <= added) ~> (t \in txExecuted)
=============================================================================
