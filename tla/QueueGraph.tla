----------------------------- MODULE QueueGraph -----------------------------
(***************************************************************************)
(* Nezha's address-based conflict graph: one queue of readers and writers  *)
(* per key.  QueuesSort orders the queues topologically, DeSS sorts them   *)
(* one by one and gives every transaction a sequence number or aborts it,  *)
(* and the driver commits the transactions number by number, those of one  *)
(* number concurrently.  core/nezha_variable.go is the same algorithm with *)
(* one difference, which the scheme selects.                               *)
(***************************************************************************)
EXTENDS Workload, Numbering

VARIABLES
    inDegree,   \* AdvancedTopologicalSort: arcs from unsorted queues, per queue
    zeroDegree, \* zeroDegreeVex
    sequence,   \* topologicalOrder, then the queues DeSS has not sorted yet
    seq,        \* Sequence of the transaction's nodes; 0 is unassigned
    assigned,   \* keys of its "r" nodes with isAssigned
    aborted,    \* transactions with isAborted
    level,      \* the sequence number being committed
    storing     \* goroutines of p: transaction -> keys still to be stored

queueVars == <<inDegree, zeroDegree, sequence, seq, assigned, aborted, level, storing>>

InitialSequence == 10

Queues == UNION {rset[t] \cup wset[t] : t \in Txs}

\* The arcs of queue k: the other keys read by the transactions that write k.
DepQueue(k) == UNION {rset[t] \ {k} : t \in Writers(k)}

\* Among the queues U, the least in-degree, then the most arcs, then the first;
\* the first queue of all if U is empty.
FindMaxNode(U, in) ==
    LET least == {k \in U : \A l \in U : in[k] <= in[l]}
    IN  IF U = {} THEN Min(Queues)
        ELSE Min({k \in least : \A l \in least : Cardinality(DepQueue(k)) >= Cardinality(DepQueue(l))})

QueueInit ==
    /\ inDegree = [k \in Keys |-> Cardinality({l \in Queues : k \in DepQueue(l)})]
    /\ LET zero == {k \in Queues : inDegree[k] = 0}
       IN  zeroDegree = IF zero = {} /\ Queues # {} THEN <<FindMaxNode(Queues, inDegree)>>
                        ELSE Ascending(zero)
    /\ sequence = <<>>
    /\ seq = [t \in Txs |-> 0]
    /\ assigned = [t \in Txs |-> {}]
    /\ aborted = {}
    /\ level = 0
    /\ storing = [t \in Txs |-> {}]

-----------------------------------------------------------------------------
(* QueuesSort *)

\* What a turn of the loop appends when min > 0.  After the last queue min is
\* not computed again: it is the in-degree that queue had.
Stuck(top, left, in) ==
    IF (IF left = {} THEN inDegree[top] > 0 ELSE \A k \in left : in[k] > 0)
    THEN <<FindMaxNode(left, in)>> ELSE <<>>

\* One turn: queue top is sorted, its arcs to the queues of `open` are removed.
\* The arcs come from a Go map: the queues that become free are appended in
\* any order.
Turn(top, open) ==
    LET in == [k \in Keys |-> IF k \in DepQueue(top) \cap open THEN inDegree[k] - 1 ELSE inDegree[k]]
        freed == {k \in DepQueue(top) \cap open : in[k] = 0}
    IN  /\ inDegree' = in
        /\ sequence' = Append(sequence, top)
        /\ \E zero \in Bijection(1..Cardinality(freed), freed) :
              zeroDegree' = Tail(zeroDegree) \o zero \o
                            Stuck(top, Queues \ (Range(sequence) \cup {top}), in)

\* Variant: the arcs to queues that are sorted already are removed too.
SortVertexAgain == Turn(Head(zeroDegree), Queues)

SortVertex == Turn(Head(zeroDegree), Queues \ (Range(sequence) \cup {Head(zeroDegree)}))

\* CreateVariableGraph takes the first node of every transaction, where
\* CreateGraph skips those without any; AdvancedTopologicalSort takes the first
\* vertex when it finds none of degree 0, and there is none without queues.
OutOfRange == Queues = {} \/ (scheme = "variable" /\ Listed # Txs)

QueueSchemePanics ==
    /\ scheme # "cg" /\ pc = "start" /\ OutOfRange
    /\ pc' = "panic"
    /\ UNCHANGED <<inputVars, db, queueVars>>

Created == scheme # "cg" /\ pc = "start" /\ ~OutOfRange

QueuesSort ==
    /\ Created /\ zeroDegree # <<>>
    /\ SortVertex
    /\ UNCHANGED <<inputVars, pc, seq, assigned, aborted, level, storing, db>>

QueuesSorted ==
    /\ Created /\ zeroDegree = <<>>
    /\ pc' = "DeSS"
    /\ UNCHANGED <<inputVars, db, queueVars>>

-----------------------------------------------------------------------------
(* DeSS *)

\* Variant: the transactions that read and write the key are all kept.
MovedAll(same) == same

\* sortInQueue in the original scheme: of the transactions that read and write
\* the key only the first is kept; the variable scheme keeps them all.
Moved(same) == IF scheme = "nezha" /\ same # {} THEN {Min(same)} ELSE same

\* The numbered writers to be moved behind all others: those not after the
\* readers, and all but the first of those that share a number.
Renumbered(rest, numbers, maxRead) ==
    {t \in rest : numbers[t] <= maxRead \/ \E u \in rest : u < t /\ numbers[u] = numbers[t]}

\* The readers of k, first of sortInQueue: they get the initial number, or the
\* least one that a reader of k already has.
SortReaders(k) ==
    LET placed  == {t \in Readers(k) \ aborted : seq[t] # 0}
        fresh   == IF placed = {} THEN Readers(k) ELSE {t \in Readers(k) : seq[t] = 0}
        readSeq == IF placed = {} THEN InitialSequence ELSE Min({seq[t] : t \in placed})
        seqR    == [t \in Txs |-> IF t \in fresh THEN readSeq ELSE seq[t]]
    IN  [seq      |-> seqR,
         assigned |-> [t \in Txs |-> assigned[t] \cup IF t \in placed \cup fresh THEN {k} ELSE {}],
         maxRead  |-> Max({0} \cup {seqR[t] : t \in IF placed = {} THEN fresh ELSE placed})]

\* Then its writers: those already numbered up to maxRead are moved behind it if
\* they read this key, aborted if they read another, and renumbered otherwise;
\* the other writers get numbers of their own after the readers.
SortWriters(k, r) ==
    LET ordered == {t \in Writers(k) \ aborted : r.seq[t] # 0}
        late    == {t \in ordered : r.seq[t] <= r.maxRead}
        same    == {t \in late : k \in r.assigned[t]}
        before  == {t \in late \ same : r.assigned[t] # {}}
        rest    == ordered \ (same \cup before)
        numbers == {r.seq[t] : t \in rest}
        base    == IF r.maxRead = 0 THEN InitialSequence - 1 ELSE r.maxRead
        maxSame == base + Cardinality(Moved(same))
        unset   == {t \in Writers(k) : r.seq[t] = 0}
        seqW    == [t \in Txs |-> IF t \in Moved(same) THEN base + Rank(Moved(same), t)
                                  ELSE IF t \in unset THEN FreeNumber(numbers, maxSame, Rank(unset, t))
                                  ELSE r.seq[t]]
        maxW    == Max({maxSame} \cup {seqW[t] : t \in unset} \cup numbers)
        twice   == Renumbered(rest, r.seq, IF same = {} THEN r.maxRead ELSE maxSame)
        earlier(t) == {u \in twice : r.seq[u] < r.seq[t] \/ (r.seq[u] = r.seq[t] /\ u <= t)}
    IN  [seq      |-> [t \in Txs |-> IF t \in twice THEN maxW + Cardinality(earlier(t)) ELSE seqW[t]],
         assigned |-> r.assigned,
         aborted  |-> aborted \cup before \cup (same \ Moved(same))]

SortInQueue(k) == SortWriters(k, SortReaders(k))

DeSS ==
    /\ pc = "DeSS" /\ sequence # <<>>
    /\ \E nodes \in {SortInQueue(Head(sequence))} :
          seq' = nodes.seq /\ assigned' = nodes.assigned /\ aborted' = nodes.aborted
    /\ sequence' = Tail(sequence)
    /\ UNCHANGED <<inputVars, pc, inDegree, zeroDegree, level, storing, db>>

Committed == Listed \ aborted

-----------------------------------------------------------------------------
(* The driver commits *)

\* Variant: the level being committed is taken again.
HigherLevelsAgain == {seq[t] : t \in Committed} \cap {n \in Nat : n >= level}

HigherLevels == {seq[t] : t \in Committed} \cap {n \in Nat : n > level}

\* Variant: the nodes that were read are stored too.
StartLevelAllNodes ==
    /\ level' = Min(HigherLevels)
    /\ storing' = [t \in Txs |-> IF t \in Committed /\ seq[t] = level'
                                  THEN rset[t] \cup wset[t] ELSE storing[t]]

\* The transactions of the next number are invoked on the pool.
StartLevel ==
    /\ level' = Min(HigherLevels)
    /\ storing' = [t \in Txs |-> IF t \in Committed /\ seq[t] = level' THEN wset[t] ELSE storing[t]]

\* Variant: the driver does not wait for the level before.
NextLevelNoWait ==
    /\ pc = "DeSS" /\ sequence = <<>> /\ scheme = "nezha"
    /\ HigherLevels # {}
    /\ StartLevel
    /\ UNCHANGED <<inputVars, pc, inDegree, zeroDegree, sequence, seq, assigned, aborted, db>>

\* wg.Wait() before the next number.
NextLevel ==
    /\ pc = "DeSS" /\ sequence = <<>> /\ scheme = "nezha"
    /\ HigherLevels # {} /\ \A t \in Txs : storing[t] = {}
    /\ StartLevel
    /\ UNCHANGED <<inputVars, pc, inDegree, zeroDegree, sequence, seq, assigned, aborted, db>>

\* StoreState of one node by the goroutine of t: the account stored is named by
\* the node's slot, without the contract.
Store(t, k) ==
    /\ k \in storing[t]
    /\ db' = [db EXCEPT ![SlotOf[k]] = t]
    /\ storing' = [storing EXCEPT ![t] = @ \ {k}]
    /\ UNCHANGED <<inputVars, pc, inDegree, zeroDegree, sequence, seq, assigned, aborted, level>>

\* The commit of the variable scheme re-executes the transactions; it is not modelled.
QueueSchemeDone ==
    /\ pc = "DeSS" /\ sequence = <<>>
    /\ scheme = "nezha" => HigherLevels = {} /\ \A t \in Txs : storing[t] = {}
    /\ pc' = "done"
    /\ UNCHANGED <<inputVars, db, queueVars>>

QueueNext ==
    \/ QueueSchemePanics \/ QueuesSort \/ QueuesSorted \/ DeSS \/ NextLevel \/ QueueSchemeDone
    \/ \E t \in Txs : \E k \in storing[t] : Store(t, k)

QueueSpec == Simulated /\ QueueInit /\ [][QueueNext]_<<inputVars, pc, db, queueVars>>

-----------------------------------------------------------------------------
(* Properties *)

\* QueuesSort returns every queue exactly once, whatever cycles the
\* dependencies have and in whatever order the maps are read.
EveryQueueOnce ==
    Created => /\ IsInjective(sequence)
               /\ zeroDegree = <<>> => Range(sequence) = Queues

\* When sortInQueue has sorted the queue of k, its writers have different
\* numbers and a transaction that only reads k is before all of them; in the
\* original scheme, so is every reader before the other writers.
QueueSorted ==
    [][DeSS => LET k == Head(sequence)
                   live(S) == S \ aborted'
               IN  /\ \A t, u \in live(Writers(k)) : t # u => seq'[t] # seq'[u]
                   /\ \A t \in live(Readers(k)), u \in live(Writers(k)) :
                         t # u /\ (scheme = "nezha" \/ t \notin Writers(k)) => seq'[t] < seq'[u]]_queueVars

Sorted == pc \in {"DeSS", "done"} /\ sequence = <<>> /\ scheme # "cg"

\* The dependencies between queues have no cycle: of any queues, one has no arc
\* from the others.
Acyclic ==
    \A S \in SUBSET Queues : S # {} => \E k \in S : \A l \in S : k \notin DepQueue(l)

\* Those that read k come before those that overwrite it.
ReadersBeforeWriters(k) ==
    \A t \in Readers(k) \ aborted, u \in Writers(k) \ aborted :
        t # u /\ (scheme = "nezha" \/ t \notin Writers(k)) => seq[t] < seq[u]

\* Later queues do not undo the order of earlier ones as long as the dependencies
\* between queues are acyclic: then every committed transaction that read a key
\* is numbered before those that overwrite it, so the order is serializable.
ReadersFirst == Sorted /\ Acyclic => \A k \in Queues : ReadersBeforeWriters(k)

\* No update is lost: all transactions were simulated on the same state, so of
\* those that read and write a key at most one commits, whichever queues are
\* sorted in between and whatever numbers they gave.
NoLostUpdate ==
    Sorted /\ scheme = "nezha" =>
        \A t, u \in Committed : t # u => rset[t] \cap wset[t] \cap rset[u] \cap wset[u] = {}

\* However the goroutines of the pool interleave, an entry of the database ends
\* with the value of one that has the highest number among the committed
\* transactions that write its slot, in whatever contract: keys of two contracts
\* with the same slot do not conflict, but StoreState gives them one entry.
LastWriterStored ==
    pc = "done" /\ scheme = "nezha" => \A s \in Slots :
        LET ws == SlotWriters(s) \cap Committed
        IN  IF ws = {} THEN db[s] = 0
            ELSE db[s] \in ws /\ \A u \in ws : seq[u] <= seq[db[s]]

Unsorted == Queues \ Range(sequence)
DeSSDone == pc \in {"DeSS", "done"} /\ sequence = <<>>

InputInv ==
    /\ Txs = 1..Len(rset) /\ rset \in [Txs -> SUBSET Keys] /\ wset \in [Txs -> SUBSET Keys]
    /\ pc \in {"start", "DeSS", "done", "panic"}

\* QueuesSort: the degrees count the arcs between unsorted queues, and a list of
\* several queues holds only free ones.
SortInv ==
    /\ inDegree \in [Keys -> Int]
    /\ sequence \in Seq(Queues) /\ zeroDegree \in Seq(Queues)
    /\ pc = "start" =>
        /\ IsInjective(sequence) /\ IsInjective(zeroDegree)
        /\ Range(zeroDegree) \subseteq Unsorted
        /\ Unsorted # {} => zeroDegree # <<>>
        /\ \A k \in Unsorted : inDegree[k] = Cardinality({l \in Unsorted : k \in DepQueue(l)})
        /\ \A k \in Unsorted : inDegree[k] = 0 => k \in Range(zeroDegree)
        /\ Len(zeroDegree) > 1 => \A k \in Range(zeroDegree) : inDegree[k] = 0

\* DeSS: in the queues already sorted everyone has a number.
NumberInv ==
    /\ seq \in [Txs -> Nat] /\ assigned \in [Txs -> SUBSET Keys] /\ aborted \subseteq Txs
    /\ pc \in {"DeSS", "done"} => \A k \in Unsorted :
        /\ \A t \in Readers(k) \cup Writers(k) : seq[t] # 0
        /\ scheme = "nezha" => \A t, u \in (Readers(k) \cap Writers(k)) \ aborted : t = u

\* Without cycles QueuesSort takes a queue after all that have an arc to it, so
\* DeSS has sorted every queue a transaction writes before one it reads.
OrderInv ==
    /\ IsInjective(sequence)
    /\ pc = "start" /\ Acyclic => \A j \in DOMAIN sequence : \A l \in Queues :
          sequence[j] \in DepQueue(l) => \E i \in 1..(j - 1) : sequence[i] = l
    /\ pc \in {"DeSS", "done"} /\ Acyclic =>
          /\ \A i \in DOMAIN sequence : \A k \in DepQueue(sequence[i]) :
                \E j \in DOMAIN sequence : i < j /\ sequence[j] = k
          /\ \A k \in Unsorted : ReadersBeforeWriters(k)

\* The commit: up to the level, what is not being stored was stored, or something
\* with a higher number was.
CommitInv ==
    /\ level \in Nat /\ storing \in [Txs -> SUBSET Keys] /\ db \in [Slots -> Txs \cup {0}]
    /\ level # 0 \/ pc = "done" => DeSSDone
    /\ \A t \in Txs : storing[t] # {} =>
          /\ t \in Committed /\ seq[t] = level /\ storing[t] \subseteq wset[t]
          /\ scheme = "nezha" /\ pc = "DeSS" /\ DeSSDone
    /\ \A s \in Slots : db[s] # 0 => DeSSDone /\ db[s] \in SlotWriters(s) \cap Committed /\ seq[db[s]] <= level
    /\ \A k \in Keys : \A u \in Writers(k) \cap Committed :
          seq[u] \in 1..level /\ k \notin storing[u] => db[SlotOf[k]] # 0 /\ seq[u] <= seq[db[SlotOf[k]]]
    /\ pc = "done" /\ scheme = "nezha" => HigherLevels = {}

\* The inductive invariant of the queue schemes: it says why QueuesSort never
\* runs dry, which numbers DeSS has given, and what the commit has stored.
QueueInv == scheme # "cg" => InputInv /\ SortInv /\ NumberInv /\ OrderInv /\ CommitInv

\* "DeSS obtain a deterministic total order": conflicting transactions that
\* commit never share a number, for those that do are stored concurrently.
TotalOrder ==
    Sorted => \A t, u \in Committed :
        t # u /\ wset[t] \cap (rset[u] \cup wset[u]) # {} => seq[t] # seq[u]
=============================================================================
