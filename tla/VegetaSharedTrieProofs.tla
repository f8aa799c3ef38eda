----------------------- MODULE VegetaSharedTrieProofs -----------------------
(***************************************************************************)
(* The shared-trie mode of Vegeta flushes or replays every transaction, and *)
(* is serializable when transactions that write keys of one account are    *)
(* kept apart: for any range of transactions, block size, keys and their   *)
(* accounts, number of workers and read and write sets.                    *)
(***************************************************************************)
EXTENDS VegetaTrieWorkerProofs

-----------------------------------------------------------------------------
(* The main goroutine *)

\* Outside a batch no goroutine runs, and nothing is on its way to the trie.
LEMMA NoGoroutines ==
    ASSUME DagInv, BatchInv, phase \notin {"run", "panicked"}
    PROVE  /\ \A t \in Txs : worker[t] = "none"
           /\ Flushing = batchResults /\ batchResults \subseteq committed
           /\ phase \in {"order", "select"} => replayed = {}
<1>1. \A t \in Txs : worker[t] = "none"
  BY Basics
<1> QED BY <1>1 DEF Flushing, BatchInv

\* A step of the main goroutine between two batches leaves the objects alone.
LEMMA MainKeepsObjects ==
    ASSUME ObjectInv, UNCHANGED <<specRS, specWS, worker, real, object, pending, seen>>,
           committed' \cup Flushing' \subseteq committed \cup Flushing
    PROVE  ObjectInv'
<1>1. \A t : /\ WholeAccounts(t) => WholeAccounts(t)'
             /\ Finalised(t) => Finalised(t)'
             /\ WithinSpec(t) => WithinSpec(t)'
  BY DEF WholeAccounts, Finalised, WithinSpec, KeysOf
<1> QED BY <1>1 DEF ObjectInv

\* The initial state satisfies the invariant.
LEMMA InitInv == Init => SharedTrieInv
<1> SUFFICES ASSUME Init PROVE SharedTrieInv
  OBVIOUS
<1>1. DagInv
  BY DagInitInv DEF Init
<1>2. phase = "order" /\ order = <<>> /\ batch = {} /\ remaining = {} /\ executed = {}
  BY Zenon DEF Init, DagInit
<1>3. Range(order) = {}
  BY <1>2 DEF Range
<1>4. Done = {} /\ Rejected = {} /\ Goroutines = {} /\ Flushing = {}
  BY <1>2, <1>3 DEF Done, Rejected, Init, Goroutines, Flushing
<1>5. BatchInv
  BY <1>2, <1>4, Zenon DEF BatchInv, TypeOK, Init
<1>6. ObjectInv
  BY <1>4 DEF ObjectInv, Init, NoKeys
<1>7. ValueInv /\ SerialEquivalence
  <2>1. ASSUME NEW k \in Keys PROVE trie[k] = ReplayedValue(order, k, NTx + 1, committed, replayed, Wrote)
    <3>1. LastWriter(order, k, Len(order), committed, Wrote) = Witness
      BY <1>2 DEF LastWriter, Writers, Init
    <3>2. replayed = {} /\ trie[k] = Witness
      BY DEF Init
    <3> QED BY <3>1, <3>2, NoneReplayed, Zenon
  <2>2. ValueInv
    BY <1>2, <2>1 DEF ValueInv
  <2>3. SerialEquivalence
    BY DEF SerialEquivalence, Init
  <2> QED BY <2>2, <2>3
<1> QED BY <1>1, <1>5, <1>6, <1>7 DEF SharedTrieInv

\* Ordering a block: the committed transactions keep their places.
LEMMA OrderKeepsInv ==
    ASSUME SharedTrieInv, Order
    PROVE  SharedTrieInv'
<1> /\ phase = "order" /\ phase' = "select" /\ OrderBlock /\ UNCHANGED <<specRS, specWS, batch>>
    /\ UNCHANGED <<trie, todo, worker, real, object, pending, revision, seen, batchResults,
                   serialReplayList, committed, aborted, replayed>>
  BY DEF Order, OrderBlock, runVars
<1> DagInv /\ BatchInv /\ ObjectInv
  BY DEF SharedTrieInv
<1>1. DagInv' /\ Done' = Done
  BY OrderBlockKeepsInv
<1>2. /\ \A t \in Txs : worker[t] = "none"
      /\ replayed = {} /\ batch = {} /\ todo = {} /\ batchResults \subseteq committed
  BY NoGoroutines, Basics
<1>3. BatchInv'
  <2>1. TypeOK'
    BY <1>1, <1>2, Zenon DEF BatchInv, TypeOK, Goroutines, DagInv
  <2>2. Rejected' = Rejected
    BY DEF Rejected
  <2> QED BY <1>1, <1>2, <2>1, <2>2, Zenon DEF BatchInv
<1>4. ObjectInv'
  BY MainKeepsObjects DEF Flushing
<1>5. ASSUME AccountsApart PROVE ValueInv' /\ SerialEquivalence'
  <2>1. ValueInv /\ SerialEquivalence /\ committed \in SUBSET Done
    BY <1>5, Basics DEF SharedTrieInv
  <2>2. ASSUME NEW k
        PROVE  /\ LastWriter(order', k, Len(order'), committed, Wrote) = LastWriter(order, k, Len(order), committed, Wrote)
               /\ \A t \in committed : LastWriter(order', k, Position(order', t) - 1, committed, Wrote)
                                           = LastWriter(order, k, Position(order, t) - 1, committed, Wrote)
    BY <2>1, OrderKeepsWriters, Zenon
  <2>3. Wrote' = Wrote
    BY DEF Wrote
  <2>4. SerialEquivalence'
    BY <1>2, <2>1, <2>2, <2>3, ZenonT(30) DEF SerialEquivalence
  <2>5. ASSUME NEW k \in Keys PROVE trie[k] = ReplayedValue(order', k, NTx + 1, committed, replayed, Wrote)
    <3>1. trie[k] = ReplayedValue(order, k, NTx + 1, committed, replayed, Wrote)
      BY <2>1 DEF ValueInv
    <3>2. trie[k] = LastWriter(order, k, Len(order), committed, Wrote)
      BY <1>2, <3>1, NoneReplayed, Zenon
    <3>3. ReplayedValue(order', k, NTx + 1, committed, replayed, Wrote)
             = LastWriter(order', k, Len(order'), committed, Wrote)
      BY <1>2, NoneReplayed, Zenon
    <3> QED BY <2>2, <3>2, <3>3, Zenon
  <2> QED BY <2>3, <2>4, <2>5, Zenon DEF ValueInv
<1> QED BY <1>1, <1>3, <1>4, <1>5, ApartKept, Zenon DEF SharedTrieInv

\* A batch starts with everybody waiting, and the trie as the batches before left it.
LEMMA SelectKeepsInv ==
    ASSUME SharedTrieInv, Select
    PROVE  SharedTrieInv'
<1> /\ phase = "select" /\ phase' = "run" /\ todo' = batch' /\ batchResults' = {} /\ SelectBatch
    /\ UNCHANGED <<specRS, specWS, blockSize, start, orderedTxs, remaining, executed, order>>
    /\ UNCHANGED <<trie, worker, real, object, pending, revision, seen, serialReplayList,
                   committed, aborted, replayed>>
  BY DEF Select, SelectBatch
<1> DagInv /\ BatchInv /\ ObjectInv
  BY DEF SharedTrieInv
<1>1. DagInv' /\ Done' = Done
  BY SelectBatchKeepsInv
<1>2. /\ \A t \in Txs : worker[t] = "none"
      /\ replayed = {} /\ batch = {} /\ Rejected = aborted /\ Flushing' = {}
  <2>1. \A t \in Txs : worker[t] = "none"
    BY NoGoroutines, Zenon
  <2> QED BY <2>1, NoGoroutines, Basics DEF Flushing
<1>3. BatchInv'
  <2>1. TypeOK'
    BY <1>1, <1>2, Zenon DEF BatchInv, TypeOK, Goroutines, DagInv
  <2>2. Rejected' = aborted
    BY DEF Rejected
  <2> QED BY <1>1, <1>2, <2>1, <2>2, Zenon DEF BatchInv
<1>4. ObjectInv'
  BY <1>2, MainKeepsObjects, Zenon
<1>5. ASSUME AccountsApart PROVE ValueInv' /\ SerialEquivalence'
  <2>1. ValueInv /\ SerialEquivalence /\ Wrote' = Wrote
    BY <1>5 DEF SharedTrieInv, Wrote
  <2>2. SerialEquivalence'
    BY <2>1, Zenon DEF SerialEquivalence
  <2>3. ASSUME NEW k \in Keys PROVE KeyInv(k)'
    <3>1. trie[k] = ReplayedValue(order, k, NTx + 1, committed, replayed, Wrote)
      BY <2>1 DEF ValueInv
    <3>2. trie[k] = LastWriter(order, k, Len(order), committed, Wrote)
      BY <1>2, <3>1, NoneReplayed, Zenon
    <3> QED BY <1>2, <2>1, <3>2 DEF KeyInv, BatchBase
  <2>4. ASSUME NEW k \in Keys PROVE AccountInv(k)'
    BY <1>2, Zenon DEF AccountInv
  <2> QED BY <2>2, <2>3, <2>4, Zenon DEF ValueInv
<1> QED BY <1>1, <1>3, <1>4, <1>5, ApartKept, Zenon DEF SharedTrieInv

\* The steps between blocks, and around the serial replay, change the phase.
LEMMA PhaseStepKeepsInv ==
    ASSUME SharedTrieInv, EndBlock \/ EndValidation \/ Finish
    PROVE  SharedTrieInv'
<1> /\ \/ phase = "select" /\ phase' = "order" /\ batch' = {}
       \/ phase = "order" /\ start >= NTx /\ phase' = "serial" /\ batch' = batch
       \/ phase = "serial" /\ phase' = "done" /\ batch' = batch /\ serialReplayList \subseteq replayed
    /\ UNCHANGED <<specRS, specWS, remaining, executed, order>>
    /\ UNCHANGED <<trie, todo, worker, real, object, pending, revision, seen, batchResults,
                   serialReplayList, committed, aborted, replayed>>
  BY DEF EndBlock, EndValidation, Finish, NextBlock, StartSerialReplay, runVars
<1> DagInv /\ BatchInv /\ ObjectInv
  BY DEF SharedTrieInv
<1>1. DagInv' /\ Done' = Done
  <2>1. CASE EndBlock
    BY <2>1, NextBlockKeepsInv DEF EndBlock
  <2>2. CASE EndValidation
    BY <2>2, PhaseKeepsInv DEF EndValidation, StartSerialReplay
  <2>3. CASE Finish
    BY <2>3, PhaseKeepsInv DEF Finish
  <2> QED BY <2>1, <2>2, <2>3
<1>2. /\ \A t \in Txs : worker[t] = "none"
      /\ batch = {} /\ batch' = {} /\ todo = {} /\ Rejected = aborted
  BY NoGoroutines, Basics
<1>3. BatchInv'
  <2>1. TypeOK'
    BY <1>1, <1>2, Zenon DEF BatchInv, TypeOK, Goroutines, DagInv
  <2>2. Rejected' = aborted
    BY <1>2 DEF Rejected
  <2> QED BY <1>1, <1>2, <2>1, <2>2, Zenon DEF BatchInv
<1>4. ObjectInv'
  BY MainKeepsObjects DEF Flushing
<1>5. ASSUME AccountsApart PROVE ValueInv' /\ SerialEquivalence'
  <2>1. ValueInv /\ SerialEquivalence /\ Wrote' = Wrote
    BY <1>5 DEF SharedTrieInv, Wrote
  <2>2. SerialEquivalence'
    BY <2>1, Zenon DEF SerialEquivalence
  <2> QED BY <2>1, <2>2, Zenon DEF ValueInv
<1> QED BY <1>1, <1>3, <1>4, <1>5, ApartKept, Zenon DEF SharedTrieInv

\* The end of a batch: its results are in the trie, and have read what the
\* transactions before them in chain order wrote last.
LEMMA EndBatchKeepsInv ==
    ASSUME SharedTrieInv, EndBatch
    PROVE  SharedTrieInv'
<1> DEFINE merged == committed \cup batchResults
<1> /\ phase = "run" /\ phase' = "select" /\ batch' = {} /\ todo = {} /\ Goroutines = {} /\ BatchDone
    /\ committed' = merged /\ aborted' = aborted \cup (batch \ batchResults)
    /\ UNCHANGED <<specRS, specWS, order>>
    /\ UNCHANGED <<trie, todo, worker, real, object, pending, revision, seen, batchResults,
                   serialReplayList, replayed>>
  BY DEF EndBatch, BatchDone
<1> DagInv /\ BatchInv /\ ObjectInv
  BY DEF SharedTrieInv
<1>1. DagInv' /\ Done' = Done \cup batch /\ batch \cap Done = {}
  BY BatchDoneKeepsInv, Zenon
<1>2. /\ replayed = {} /\ batchResults \subseteq batch /\ batch \subseteq Txs /\ ~BetweenBlocks
      /\ committed \subseteq Done /\ \A t \in Txs : worker[t] = "none" /\ pending[t] = {}
  BY Basics DEF BatchInv, Goroutines
<1>3. Flushing = batchResults /\ Flushing' = batchResults
  BY <1>2, Zenon DEF Flushing
<1>4. BatchInv'
  <2>1. TypeOK'
    BY <1>1, Zenon DEF BatchInv, TypeOK, Goroutines, DagInv
  <2>2. Rejected' = aborted' /\ Rejected = aborted'
    BY <1>2, Zenon DEF Rejected
  <2>3. (committed \cup aborted = Done)' /\ (committed \cap aborted = {})'
    BY <1>1, <1>2, Zenon DEF BatchInv
  <2> QED BY <1>2, <2>1, <2>2, <2>3, Zenon DEF BatchInv
<1>5. ObjectInv'
  BY <1>3, MainKeepsObjects
<1>6. ASSUME AccountsApart PROVE ValueInv' /\ SerialEquivalence'
  <2>1. /\ \A k \in Keys : KeyInv(k)
        /\ SerialEquivalence /\ Wrote' = Wrote
    BY <1>6, Zenon DEF SharedTrieInv, ValueInv, Wrote
  <2>2. \A t \in merged : Wrote[t] \subseteq specWS[t] /\ DOMAIN seen[t] \subseteq specRS[t]
    BY <1>1, <1>2, <1>3, Basics, Zenon DEF ObjectInv, WithinSpec, Wrote
  <2>3. Joins(committed, batchResults, Wrote)
    BY <1>2, <2>2, Zenon DEF Joins
  <2>4. \A t \in batchResults : \A k : InTrie(t, k) <=> k \in Wrote[t]
    BY <1>2, Zenon DEF InTrie, Wrote
  <2>5. ASSUME NEW k \in Keys PROVE trie[k] = LastWriter(order, k, Len(order), merged, Wrote)
    <3>1. KeyInv(k)
      BY <2>1
    <3>2. CASE \A t \in batchResults : k \notin Wrote[t]
      <4>1. trie[k] = LastWriter(order, k, Len(order), committed, Wrote)
        BY <1>3, <2>4, <3>1, <3>2 DEF KeyInv, BatchBase
      <4>2. LastWriter(order, k, Len(order), merged, Wrote) = LastWriter(order, k, Len(order), committed, Wrote)
        BY <2>3, <3>2, JoinLeaves
      <4> QED BY <4>1, <4>2
    <3>3. ASSUME NEW t \in batchResults, k \in Wrote[t]
          PROVE  trie[k] = LastWriter(order, k, Len(order), merged, Wrote)
      <4>1. trie[k] = t
        BY <1>3, <2>4, <3>1, <3>3, Zenon DEF KeyInv
      <4>2. LastWriter(order, k, Len(order), merged, Wrote) = t
        BY <2>3, <3>3, JoinWrites
      <4> QED BY <4>1, <4>2, Zenon
    <3> QED BY <3>2, <3>3, Zenon
  <2>6. ValueInv'
    <3>1. ASSUME NEW k \in Keys PROVE trie[k] = ReplayedValue(order, k, NTx + 1, merged, replayed, Wrote)
      <4> HIDE DEF merged
      <4>1. ReplayedValue(order, k, NTx + 1, merged, {}, Wrote) = LastWriter(order, k, Len(order), merged, Wrote)
        BY NoneReplayed, Zenon
      <4> QED BY <1>2, <2>5, <4>1
    <3> QED BY <2>1, <3>1, Zenon DEF ValueInv
  <2>7. ASSUME NEW t \in committed, NEW k \in DOMAIN seen[t]
        PROVE  seen[t][k] = LastWriter(order, k, Position(order, t) - 1, merged, Wrote)
    <3>1. seen[t][k] = LastWriter(order, k, Position(order, t) - 1, committed, Wrote)
      BY <2>1, Zenon DEF SerialEquivalence
    <3>2. k \in specRS[t]
      BY <2>2, Zenon
    <3>3. LastWriter(order, k, Position(order, t) - 1, merged, Wrote)
             = LastWriter(order, k, Position(order, t) - 1, committed, Wrote)
      BY <2>3, <3>2, DoneReads
    <3> QED BY <3>1, <3>3
  <2>8. ASSUME NEW t \in batchResults, NEW k \in DOMAIN seen[t]
        PROVE  seen[t][k] = LastWriter(order, k, Position(order, t) - 1, merged, Wrote)
    <3>1. k \in specRS[t] /\ k \in Keys
      BY <1>2, <2>2, Zenon DEF DagInv
    <3>2. seen[t][k] = LastWriter(order, k, Len(order), committed, Wrote)
      BY <1>3, <2>1, <3>1, Zenon DEF KeyInv, BatchBase
    <3>3. LastWriter(order, k, Position(order, t) - 1, merged, Wrote)
             = LastWriter(order, k, Len(order), committed, Wrote)
      BY <2>3, <3>1, JoiningReads
    <3> QED BY <3>2, <3>3, Zenon
  <2>9. SerialEquivalence'
    BY <1>2, <2>1, <2>7, <2>8, Zenon DEF SerialEquivalence
  <2> QED BY <2>6, <2>9, Zenon
<1> QED BY <1>1, <1>4, <1>5, <1>6, ApartKept, Zenon DEF SharedTrieInv

-----------------------------------------------------------------------------
(* The serial replay *)

\* The transaction that is replayed was aborted, and comes after all that were.
LEMMA ReplayedNext ==
    ASSUME SharedTrieInv, NEW t \in Txs, NextToReplay(t), replayed' = replayed \cup {t},
           real' \in [Txs -> (SUBSET Keys) \X (SUBSET Keys)], \A u \in Txs \ {t} : real'[u] = real[u]
    PROVE  /\ t \notin committed /\ t \notin batchResults /\ t \notin replayed
           /\ committed \subseteq Txs /\ replayed \subseteq Txs /\ serialReplayList \subseteq Txs
           /\ ReplaysNext(t, NTx + 1, committed, replayed, Wrote, Wrote')
<1>1. DagInv /\ BatchInv
  BY DEF SharedTrieInv
<1>2. phase = "serial" /\ t \in serialReplayList /\ t \notin replayed
  BY DEF NextToReplay
<1>3. /\ serialReplayList = aborted /\ aborted \subseteq Txs /\ committed \subseteq Txs
      /\ committed \cap aborted = {} /\ batchResults \subseteq committed /\ replayed \subseteq serialReplayList
  BY <1>1, <1>2, Basics DEF BatchInv
<1>4. replayed \in SUBSET Nat /\ t \in Nat /\ NTx + 1 \in Nat /\ t < NTx + 1
  BY <1>3, RangeIsAll
<1>5. \A u \in replayed : u < t
  BY <1>1, <1>2, Zenon DEF BatchInv
<1>6. \A u \in committed \cup replayed : Wrote'[u] = Wrote[u]
  BY <1>2, <1>3, Zenon DEF Wrote
<1> QED BY <1>2, <1>3, <1>4, <1>5, <1>6, Zenon DEF ReplaysNext

\* A replay reads what the flushed transactions and the replays before it left,
\* and adds its own writes.
LEMMA ReplayKeepsInv ==
    ASSUME SharedTrieInv, NEW t \in Txs, Replay(t)
    PROVE  SharedTrieInv'
<1> /\ phase = "serial" /\ t \in serialReplayList \ replayed /\ NextToReplay(t)
    /\ \A u \in serialReplayList \ replayed : t <= u
    /\ replayed' = replayed \cup {t}
    /\ UNCHANGED <<specRS, specWS, blockSize, phase, start, orderedTxs, remaining, executed, batch, order>>
    /\ UNCHANGED <<todo, worker, object, pending, revision, batchResults, serialReplayList, committed, aborted>>
  BY DEF Replay, NextToReplay, dagVars
<1> DagInv /\ BatchInv /\ ObjectInv
  BY Zenon DEF SharedTrieInv
<1>1. PICK r \in RealSets \cup {NoKeys} :
         /\ real' = [real EXCEPT ![t] = r]
         /\ seen' = [seen EXCEPT ![t] = [k \in r[1] |-> trie[k]]]
         /\ trie' = [k \in Keys |-> IF k \in r[2] THEN t ELSE trie[k]]
  BY Zenon DEF Replay
<1>2. r \in (SUBSET Keys) \X (SUBSET Keys)
  BY SharedTrieAssumption DEF NoKeys
<1>3. /\ real' \in [Txs -> (SUBSET Keys) \X (SUBSET Keys)] /\ real'[t] = r /\ DOMAIN seen' = Txs
      /\ \A u \in Txs \ {t} : real'[u] = real[u] /\ seen'[u] = seen[u]
      /\ seen'[t] = [k \in r[1] |-> trie[k]]
  BY <1>1, <1>2 DEF ObjectInv
<1>4. /\ t \notin committed /\ t \notin batchResults /\ t \notin replayed
      /\ committed \subseteq Txs /\ replayed \subseteq Txs /\ serialReplayList \subseteq Txs
      /\ ReplaysNext(t, NTx + 1, committed, replayed, Wrote, Wrote')
  BY <1>3, ReplayedNext, Zenon
<1>5. DagInv' /\ Done' = Done
  BY PhaseKeepsInv, Zenon
<1>6. /\ \A u \in Txs : worker[u] = "none"
      /\ Flushing = batchResults /\ Flushing' = batchResults /\ batchResults \subseteq committed
  <2>1. \A u \in Txs : worker[u] = "none"
    BY NoGoroutines, Zenon
  <2> QED BY <2>1, NoGoroutines, Zenon DEF Flushing
<1>7. BatchInv'
  <2>1. trie' \in [Keys -> Txs \cup {Witness}]
    BY <1>1, Zenon DEF BatchInv, TypeOK
  <2>2. TypeOK' /\ Rejected' = Rejected
    BY <2>1, Zenon DEF BatchInv, TypeOK, Goroutines, Rejected
  <2>3. ASSUME NEW a \in replayed', NEW u \in serialReplayList \ replayed' PROVE a < u
    <3>1. u \in serialReplayList \ replayed /\ t < u
      BY <1>4, RangeIsAll
    <3> QED BY <3>1, Zenon DEF BatchInv
  <2> QED BY <1>5, <2>2, <2>3, Zenon DEF BatchInv
<1>8. ObjectInv'
  <2>1. ASSUME NEW u \in committed' \cup Flushing' PROVE WithinSpec(u)'
    <3>1. u \in committed /\ real'[u] = real[u] /\ seen'[u] = seen[u]
      BY <1>3, <1>4, <1>6, Zenon
    <3> QED BY <3>1, Zenon DEF ObjectInv, WithinSpec
  <2> QED BY <1>3, <1>6, <2>1, Zenon DEF ObjectInv
<1>9. ASSUME AccountsApart PROVE ValueInv' /\ SerialEquivalence'
  <2>1. /\ \A k \in Keys : trie[k] = ReplayedValue(order, k, NTx + 1, committed, replayed, Wrote)
        /\ SerialEquivalence /\ Len(order) \in Nat /\ order \in Seq(Txs) /\ IsInjective(order)
    BY <1>9 DEF SharedTrieInv, ValueInv, DagInv
  <2>2. /\ Wrote'[t] = r[2]
        /\ \A u \in committed : Wrote'[u] = Wrote[u]
    BY <1>3, <1>4, Zenon DEF Wrote
  <2>3. ASSUME NEW k \in Keys
        PROVE  trie'[k] = ReplayedValue(order, k, NTx + 1, committed, replayed \cup {t}, Wrote')
    <3>1. CASE k \in r[2]
      <4>1. ReplayedValue(order, k, NTx + 1, committed, replayed \cup {t}, Wrote') = t
        BY <1>4, <2>1, <2>2, <3>1, ReplayWrites
      <4> QED BY <1>1, <3>1, <4>1, Zenon
    <3>2. CASE k \notin r[2]
      <4>1. ReplayedValue(order, k, NTx + 1, committed, replayed \cup {t}, Wrote')
               = ReplayedValue(order, k, NTx + 1, committed, replayed, Wrote)
        BY <1>4, <2>1, <2>2, <3>2, ReplayLeaves
      <4> QED BY <1>1, <2>1, <3>2, <4>1, Zenon
    <3> QED BY <3>1, <3>2, Zenon
  <2>4. ValueInv'
    BY <2>3 DEF ValueInv
  <2>5. ASSUME NEW u \in committed, NEW k \in DOMAIN seen'[u]
        PROVE  seen'[u][k] = LastWriter(order, k, Position(order, u) - 1, committed, Wrote')
    <3>1. Position(order, u) - 1 \in Nat
      <4>1. u \in Range(order)
        BY Basics, Zenon DEF Done
      <4>2. Position(order, u) \in 1..Len(order)
        BY <2>1, <4>1, PlaceOf, Zenon
      <4> QED BY <2>1, <4>2
    <3> DEFINE n == Position(order, u) - 1
    <3> HIDE DEF n
    <3>2. n \in Nat
      BY <3>1, Zenon DEF n
    <3>3. LastWriter(order, k, n, committed, Wrote') = LastWriter(order, k, n, committed, Wrote)
      BY <2>2, <3>2, LastWriterElsewhere
    <3>4. seen'[u] = seen[u]
      BY <1>3, <1>4, Zenon
    <3> QED BY <2>1, <3>3, <3>4, Zenon DEF SerialEquivalence, n
  <2>6. ASSUME NEW u \in replayed, NEW k \in DOMAIN seen'[u]
        PROVE  seen'[u][k] = ReplayedValue(order, k, u, committed, replayed \cup {t}, Wrote')
    <3>1. seen'[u] = seen[u]
      BY <1>3, <1>4, Zenon
    <3>2. ReplayedValue(order, k, u, committed, replayed \cup {t}, Wrote')
             = ReplayedValue(order, k, u, committed, replayed, Wrote)
      BY <1>4, <2>1, ReplayedBefore
    <3> QED BY <2>1, <3>1, <3>2, Zenon DEF SerialEquivalence
  <2>7. ASSUME NEW k \in DOMAIN seen'[t]
        PROVE  seen'[t][k] = ReplayedValue(order, k, t, committed, replayed \cup {t}, Wrote')
    <3>1. k \in Keys /\ seen'[t][k] = trie[k]
      BY <1>2, <1>3
    <3>2. ReplayedValue(order, k, t, committed, replayed \cup {t}, Wrote')
             = ReplayedValue(order, k, NTx + 1, committed, replayed, Wrote)
      BY <1>4, <2>1, ReplayReads
    <3> QED BY <2>1, <3>1, <3>2
  <2>8. SerialEquivalence'
    BY <2>5, <2>6, <2>7, Zenon DEF SerialEquivalence
  <2> QED BY <2>4, <2>8, Zenon
<1> QED BY <1>5, <1>7, <1>8, <1>9, ApartKept, Zenon DEF SharedTrieInv

-----------------------------------------------------------------------------
(* The theorems *)

\* A step that changes nothing keeps the invariant.
LEMMA StutterKeepsInv ==
    ASSUME SharedTrieInv, UNCHANGED vars
    PROVE  SharedTrieInv'
<1> /\ UNCHANGED <<specRS, specWS, blockSize, phase, start, orderedTxs, remaining, executed, batch, order>>
    /\ UNCHANGED <<trie, todo, worker, real, object, pending, revision, seen, batchResults,
                   serialReplayList, committed, aborted, replayed>>
  BY DEF vars, dagVars, runVars
<1> DagInv /\ BatchInv /\ ObjectInv
  BY DEF SharedTrieInv
<1>1. DagInv' /\ Done' = Done
  BY PhaseKeepsInv, Zenon
<1>2. Rejected' = Rejected /\ Flushing' = Flushing /\ TypeOK' /\ Wrote' = Wrote
  BY Zenon DEF Rejected, Flushing, BatchInv, TypeOK, Goroutines, Wrote
<1>3. BatchInv'
  BY <1>1, <1>2, Zenon DEF BatchInv
<1>4. ObjectInv'
  BY <1>2, MainKeepsObjects, Zenon
<1>5. ASSUME AccountsApart PROVE ValueInv' /\ SerialEquivalence'
  <2>1. ValueInv /\ SerialEquivalence
    BY <1>5 DEF SharedTrieInv
  <2>2. SerialEquivalence'
    BY <1>2, <2>1, Zenon DEF SerialEquivalence
  <2>3. \A k : BatchBase(k)' = BatchBase(k)
    BY <1>2, Zenon DEF BatchBase
  <2>4. \A k : KeyInv(k) => KeyInv(k)'
    BY <1>2, <2>3, Zenon DEF KeyInv, InTrie
  <2>5. \A k : AccountInv(k) => AccountInv(k)'
    BY <2>3, ApartKept, Zenon DEF AccountInv
  <2> QED BY <1>2, <2>1, <2>2, <2>4, <2>5, Zenon DEF ValueInv
<1> QED BY <1>1, <1>3, <1>4, <1>5, ApartKept, Zenon DEF SharedTrieInv

\* SharedTrieInv holds in every reachable state of the shared-trie mode, whatever
\* the range, the block size, the keys and their accounts, the read and write
\* sets and the number of workers are.
THEOREM SharedTrieInvariant == Spec => []SharedTrieInv
<1>1. SharedTrieInv /\ [Next]_vars => SharedTrieInv'
  <2> SUFFICES ASSUME SharedTrieInv, [Next]_vars PROVE SharedTrieInv'
    OBVIOUS
  <2>1. CASE Main
    BY <2>1, OrderKeepsInv, SelectKeepsInv, EndBatchKeepsInv, PhaseStepKeepsInv, Zenon DEF Main
  <2>2. ASSUME NEW t \in Txs, Worker(t) PROVE SharedTrieInv'
    BY <2>2, LoadKeepsInv, FlushAccountKeepsInv, FinaliseKeepsInv, MismatchKeepsInv, FlushedKeepsInv,
       FlushFailsKeepsInv, Zenon DEF Worker
  <2>3. ASSUME NEW t \in Txs, Receive(t) \/ Replay(t) PROVE SharedTrieInv'
    BY <2>3, ReceiveKeepsInv, ReplayKeepsInv, Zenon
  <2>4. CASE UNCHANGED vars
    BY <2>4, StutterKeepsInv
  <2> QED BY <2>1, <2>2, <2>3, <2>4, Zenon DEF Next, Terminated
<1> QED BY InitInv, <1>1, PTL DEF Spec

\* Every transaction is flushed or replayed, never both, when the mode returns:
\* none is lost in serialReplayList, however the goroutines interleave.
THEOREM NothingLost == Spec => []FlushedOrReplayed
<1>1. SharedTrieInv => FlushedOrReplayed
  <2> SUFFICES ASSUME SharedTrieInv PROVE FlushedOrReplayed
    OBVIOUS
  <2>1. DagInv /\ BatchInv
    BY Zenon DEF SharedTrieInv
  <2>2. committed \cap serialReplayList = {}
    <3>1. committed \subseteq Done /\ batch \cap Done = {} /\ committed \cap aborted = {}
      BY <2>1, Basics DEF BatchInv
    <3> QED BY <2>1, <3>1, Zenon DEF BatchInv, Rejected
  <2>3. ASSUME phase = "done" PROVE committed \cup replayed = Txs
    <3>1. Range(order) = Upto(start) /\ remaining = {} /\ start \in Nat /\ start >= NTx
      BY <2>1, <2>3, Zenon DEF DagInv, BetweenBlocks
    <3>2. Done = Txs
      BY <3>1, UptoBounds, Zenon DEF Done
    <3>3. serialReplayList = aborted /\ replayed = serialReplayList /\ committed \cup aborted = Done
      BY <2>1, <2>3, Basics, Zenon DEF BatchInv
    <3> QED BY <3>2, <3>3, Zenon
  <2> QED BY <2>2, <2>3, Zenon DEF FlushedOrReplayed
<1> QED BY <1>1, SharedTrieInvariant, PTL

\* The goroutines that flush whole accounts into the trie others read, and the
\* serial replay, are equivalent to one serial execution, as long as transactions
\* that write keys of one account conflict.
THEOREM Serializable == Spec => []SerialIfAccountsApart
<1>1. SharedTrieInv => SerialIfAccountsApart
  BY DEF SharedTrieInv, SerialIfAccountsApart
<1> QED BY <1>1, SharedTrieInvariant, PTL

\* The trie carries every successful write after a batch, although a flush
\* overwrites the keys of an account its transaction did not write, as long as
\* transactions that write keys of one account conflict.
THEOREM TrieSerial == Spec => []CarriedIfAccountsApart
<1>1. SharedTrieInv => CarriedIfAccountsApart
  <2> SUFFICES ASSUME SharedTrieInv, AccountsApart, phase = "select"
               PROVE  trie = [k \in Keys |-> LastWriter(order, k, Len(order), committed, Wrote)]
    BY DEF CarriedIfAccountsApart, TrieCarriesEveryWrite
  <2>1. DagInv /\ BatchInv /\ ValueInv
    BY DEF SharedTrieInv
  <2>2. replayed = {} /\ trie \in [Keys -> Txs \cup {Witness}]
    BY <2>1, NoGoroutines DEF BatchInv, TypeOK
  <2>3. ASSUME NEW k \in Keys PROVE trie[k] = LastWriter(order, k, Len(order), committed, Wrote)
    <3>1. trie[k] = ReplayedValue(order, k, NTx + 1, committed, replayed, Wrote)
      BY <2>1 DEF ValueInv
    <3> QED BY <2>2, <3>1, NoneReplayed, Zenon
  <2> QED BY <2>2, <2>3
<1> QED BY <1>1, SharedTrieInvariant, PTL

=============================================================================
