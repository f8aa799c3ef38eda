------------------------- MODULE ConcurrencySchemes -------------------------
(***************************************************************************)
(* The benchmark's comparison: each scheme processes, by itself, the       *)
(* transactions that a simulation returned.                                *)
(***************************************************************************)
EXTENDS QueueGraph, ConflictGraph

vars == <<inputVars, pc, db, queueVars, cgVars>>

Init == Simulated /\ QueueInit /\ CGInit

\* The scheme has stored its results, or panicked.
Stopped == pc \in {"done", "panic"}
Finished == Stopped /\ UNCHANGED vars

Next ==
    \/ QueueNext /\ UNCHANGED cgVars
    \/ CGNext /\ UNCHANGED queueVars
    \/ Finished

\* Weak fairness of Next, which is enabled until the scheme has stopped: the
\* schemes are sequential code, and the goroutines that store the results of one
\* number only call StoreState.
Fairness == []<>Stopped \/ []<><<TRUE>>_vars

Spec == Init /\ [][Next]_vars /\ Fairness

\* The state has its type: numbers start at the initial one, queues and
\* components are made of the keys and transactions of the list.
TypeOK ==
    /\ ToSet(zeroDegree) \cup ToSet(sequence) \subseteq Queues
    /\ \A t \in Txs : seq[t] = 0 \/ seq[t] >= InitialSequence
    /\ \A t \in Txs : assigned[t] \subseteq rset[t] /\ storing[t] \subseteq wset[t]
    /\ aborted \subseteq Listed
    /\ db \in [Slots -> Txs \cup {0}]
    /\ ToSet(sccs) \subseteq SUBSET Txs
    /\ invalid \subseteq Txs
    /\ degree \in [Txs -> Int]
    /\ ToSet(empty) \cup ToSet(commitOrder) \subseteq Txs

\* Every scheme ends, although QueuesSort appends queues it picks to the list it
\* walks, BreakCycles loops on a sum that it takes down itself, and a commit
\* waits for the pool.
SchemesEnd == <>Stopped
=============================================================================
