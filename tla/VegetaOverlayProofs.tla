------------------------ MODULE VegetaOverlayProofs ------------------------
(***************************************************************************)
(* The overlay mode of Vegeta is serializable, loses no transaction and    *)
(* accounts for the ones its racing list drops: for any range of           *)
(* transactions, block size, keys, pool and read and write sets.           *)
(***************************************************************************)
EXTENDS VegetaOverlay, VegetaDagProofs, FiniteSetTheorems

\* What the parts of the invariant say together of a state: who is executed, in
\* a batch or in a goroutine.
LEMMA Basics ==
    ASSUME DagInv, PoolInv
    PROVE  /\ batch \subseteq Txs /\ Done \subseteq Txs /\ batch \cap Done = {}
           /\ committed \subseteq Done /\ aborted \subseteq Done /\ Rejected \subseteq Txs
           /\ phase # "run" => batch = {} /\ todo = {} /\ Rejected = aborted
           /\ \A t \in Txs : worker[t] # "none" => phase = "run" /\ t \in batch /\ t \notin todo
           /\ phase = "run" => ~BetweenBlocks
<1>1. Done \subseteq Txs /\ Range(order) \subseteq Txs
  <2>1. \A i \in DOMAIN order : order[i] \in Txs
    BY DEF DagInv
  <2> QED BY <2>1 DEF Done, Range
<1>2. phase # "run" => batch = {}
  BY DEF DagInv, PoolInv, TypeOK, BetweenBlocks
<1>3. phase = "run" => ~BetweenBlocks
  BY DEF BetweenBlocks
<1>4. batch \subseteq Txs
  BY <1>1, <1>2, <1>3 DEF DagInv
<1>5. batch \cap Done = {}
  BY DEF DagInv, Done
<1>6. /\ committed \subseteq Done /\ aborted \subseteq Done /\ todo \subseteq batch
      /\ \A t \in Txs : worker[t] # "none" => t \in batch /\ t \notin todo
  BY DEF PoolInv, TypeOK, Goroutines
<1>7. Rejected \subseteq Txs /\ (phase # "run" => Rejected = aborted)
  BY <1>1, <1>2, <1>4, <1>6 DEF Rejected
<1> QED BY <1>1, <1>2, <1>3, <1>4, <1>5, <1>6, <1>7, Zenon

\* Nothing is replayed while batches run.
LEMMA NoReplayInBatch ==
    ASSUME ReplayInv, phase \in {"order", "select", "run"}
    PROVE  replayed = {}
BY DEF ReplayInv

\* A step that leaves the values and their order alone keeps what is said of them.
LEMMA ValuesKept ==
    ASSUME DeltaInv, SerialEquivalence,
           UNCHANGED <<specRS, specWS, order, wrote, seen, committed, replayed, committedDelta>>,
           \/ UNCHANGED <<phase, batchResults>>
           \/ /\ batchResults' \subseteq committed /\ batchResults \subseteq committed
              /\ phase' = "run" => batchResults' = {}
    PROVE  DeltaInv' /\ SerialEquivalence'
<1>1. SerialEquivalence'
  BY DEF SerialEquivalence
<1>2. DeltaInv'
  BY DEF DeltaInv
<1> QED BY <1>1, <1>2

-----------------------------------------------------------------------------
(* The goroutines of a batch *)

\* The levm workers in use.
InUse == {t \in Txs : worker[t] \in {"execute", "append", "release"}}

\* Taking one levm worker out of the pool or putting it back keeps their number.
LEMMA InUseCount ==
    ASSUME NEW t \in Txs, worker \in [Txs -> {"none", "acquire", "execute", "append", "release"}],
           NEW pos \in {"none", "acquire", "execute", "append", "release"},
           worker' = [worker EXCEPT ![t] = pos], idle \in Nat, idle + Cardinality(InUse) = PoolSize,
           \/ (worker[t] \in {"none", "acquire"} <=> pos \in {"none", "acquire"}) /\ idle' = idle
           \/ worker[t] = "acquire" /\ pos = "execute" /\ idle > 0 /\ idle' = idle - 1
           \/ worker[t] = "release" /\ pos = "none" /\ idle' = idle + 1
    PROVE  idle' \in Nat /\ idle' + Cardinality(InUse') = PoolSize
<1>1. IsFiniteSet(InUse) /\ Cardinality(InUse) \in Nat
  <2>1. IsFiniteSet(Txs) /\ InUse \in SUBSET Txs
    BY RangeIsAll, FS_Interval DEF InUse
  <2>2. IsFiniteSet(InUse)
    BY <2>1, FS_Subset, Zenon
  <2> QED BY <2>2, FS_CardinalityType, Zenon
<1>2. CASE (worker[t] \in {"none", "acquire"} <=> pos \in {"none", "acquire"}) /\ idle' = idle
  <2>1. InUse' = InUse
    BY <1>2, Zenon DEF InUse
  <2> QED BY <1>2, <2>1, Zenon
<1>3. CASE worker[t] = "acquire" /\ pos = "execute" /\ idle > 0 /\ idle' = idle - 1
  <2>1. InUse' = InUse \cup {t} /\ t \notin InUse
    BY <1>3 DEF InUse
  <2>2. Cardinality(InUse') = Cardinality(InUse) + 1
    BY <1>1, <2>1, FS_AddElement
  <2> QED BY <1>1, <1>3, <2>2
<1>4. CASE worker[t] = "release" /\ pos = "none" /\ idle' = idle + 1
  <2>1. InUse' = InUse \ {t} /\ t \in InUse
    BY <1>4 DEF InUse
  <2>2. Cardinality(InUse') = Cardinality(InUse) - 1
    BY <1>1, <2>1, FS_RemoveElement, Zenon
  <2> QED BY <1>1, <1>4, <2>2
<1> QED BY <1>2, <1>3, <1>4

\* A goroutine that starts, acquires its levm worker or returns changes nobody's
\* values and lists.
LEMMA MoveKeepsInv ==
    ASSUME OverlayInv, NEW t \in Txs, Invoke(t) \/ Acquire(t) \/ Return(t)
    PROVE  OverlayInv'
<1> /\ UNCHANGED <<specRS, specWS, blockSize, phase, start, orderedTxs, remaining, executed, batch, order>>
    /\ UNCHANGED <<committedDelta, batchResults, wrote, seen, stateDB, serialReplayList, listRead,
                   committed, aborted, replayed>>
  BY DEF Invoke, Acquire, Return, dagVars
<1> DagInv /\ PoolInv /\ ListInv /\ DeltaInv /\ ReplayInv /\ SerialEquivalence
  BY DEF OverlayInv
<1>1. DagInv' /\ Done' = Done
  BY PhaseKeepsInv
<1>2. DeltaInv' /\ SerialEquivalence'
  BY ValuesKept
<1>3. ReplayInv'
  BY DEF ReplayInv
<1>4. /\ worker \in [Txs -> {"none", "acquire", "execute", "append", "release"}]
      /\ idle \in Nat /\ idle + Cardinality(InUse) = PoolSize
      /\ todo \subseteq batch /\ \A u \in Txs : worker[u] # "none" => u \in batch \ todo
  BY DEF PoolInv, TypeOK, InUse, Goroutines
<1>5. PICK pos \in {"acquire", "execute", "none"} :
         /\ worker' = [worker EXCEPT ![t] = pos]
         /\ \/ worker[t] = "none" /\ pos = "acquire" /\ idle' = idle /\ t \in todo /\ todo' = todo \ {t}
            \/ worker[t] = "acquire" /\ pos = "execute" /\ idle > 0 /\ idle' = idle - 1 /\ todo' = todo
            \/ worker[t] = "release" /\ pos = "none" /\ idle' = idle + 1 /\ todo' = todo
  BY <1>4 DEF Invoke, Acquire, Return
<1>6. idle' \in Nat /\ idle' + Cardinality(InUse') = PoolSize
  BY <1>4, <1>5, InUseCount, Zenon
<1>7. /\ worker' \in [Txs -> {"none", "acquire", "execute", "append", "release"}]
      /\ todo' \subseteq batch' /\ Goroutines' \subseteq batch' \ todo'
  BY <1>4, <1>5, Zenon DEF Goroutines
<1>8. /\ \A u \in batchResults' : worker'[u] \in {"none", "release"}
      /\ IF phase' = "run" THEN batchResults' \subseteq batch' \ todo' ELSE batchResults' \subseteq committed'
  <2>1. ASSUME NEW u \in batchResults PROVE worker'[u] \in {"none", "release"}
    <3>1. worker[u] \in {"none", "release"} /\ u \in Txs /\ (phase = "run" => u \in batch \ todo)
      BY Basics DEF PoolInv
    <3> QED BY <1>4, <1>5, <3>1, Basics, Zenon
  <2>2. todo' \subseteq todo
    BY <1>5, Zenon
  <2> QED BY <2>1, <2>2, Zenon DEF PoolInv
<1>9. PoolInv'
  BY <1>1, <1>6, <1>7, <1>8, Zenon DEF PoolInv, TypeOK, InUse
<1>10. Rejected' = Rejected
  BY <1>4, <1>5 DEF Rejected
<1>11. ListInv'
  BY <1>4, <1>5, <1>10, Zenon DEF ListInv
<1> QED BY <1>1, <1>2, <1>3, <1>9, <1>11, Zenon DEF OverlayInv

\* A transaction that executes is in the batch and not decided yet.
LEMMA Executing ==
    ASSUME OverlayInv, NEW t \in Txs, worker[t] \in {"execute", "append"}
    PROVE  /\ phase = "run" /\ t \in batch /\ t \notin todo /\ t \notin batchResults
           /\ t \notin committed /\ t \notin Rejected /\ replayed = {}
<1>1. DagInv /\ PoolInv /\ ReplayInv
  BY DEF OverlayInv
<1>2. phase = "run" /\ t \in batch /\ t \notin todo /\ t \notin Done /\ committed \subseteq Done /\ aborted \subseteq Done
  BY <1>1, Basics
<1>3. t \notin batchResults
  BY <1>1 DEF PoolInv
<1>4. t \notin Rejected
  BY <1>2, Zenon DEF Rejected
<1> QED BY <1>1, <1>2, <1>3, <1>4, NoReplayInBatch, Zenon

\* Whatever a goroutine does between execution and return, it keeps its levm worker.
LEMMA KeepsWorker ==
    ASSUME OverlayInv, NEW t \in Txs, NEW pos \in {"append", "release"},
           worker[t] \in {"execute", "append"}, worker' = [worker EXCEPT ![t] = pos],
           UNCHANGED <<specRS, specWS, blockSize, phase, start, orderedTxs, remaining, executed, batch, order>>,
           UNCHANGED <<committedDelta, todo, idle, stateDB, committed, aborted, replayed>>,
           batchResults' = batchResults \/ (batchResults' = batchResults \cup {t} /\ pos = "release")
    PROVE  DagInv' /\ Done' = Done /\ PoolInv'
<1>1. DagInv /\ PoolInv
  BY DEF OverlayInv
<1>2. DagInv' /\ Done' = Done
  BY <1>1, PhaseKeepsInv
<1>3. phase = "run" /\ t \in batch /\ t \notin todo
  BY Executing
<1>4. /\ worker \in [Txs -> {"none", "acquire", "execute", "append", "release"}]
      /\ idle \in Nat /\ idle + Cardinality(InUse) = PoolSize
  BY <1>1 DEF PoolInv, TypeOK, InUse
<1>5. idle' \in Nat /\ idle' + Cardinality(InUse') = PoolSize
  BY <1>4, InUseCount, Zenon
<1>6. /\ worker' \in [Txs -> {"none", "acquire", "execute", "append", "release"}]
      /\ Goroutines' = Goroutines
  BY <1>4 DEF Goroutines
<1>7. \A u \in batchResults' : worker'[u] \in {"none", "release"}
  <2>1. batchResults \subseteq Txs
    BY <1>1, <1>3, Basics DEF PoolInv
  <2> QED BY <1>1, <1>4, <2>1, Executing DEF PoolInv
<1>8. batchResults' \subseteq batch' \ todo'
  BY <1>1, <1>3 DEF PoolInv
<1> QED
  BY <1>1, <1>2, <1>3, <1>5, <1>6, <1>7, <1>8, Zenon DEF PoolInv, TypeOK, InUse

\* A validated transaction has read committedDelta and keeps within its
\* speculative keys.
LEMMA ValidateKeepsInv ==
    ASSUME OverlayInv, NEW t \in Txs, Validate(t)
    PROVE  OverlayInv'
<1> /\ UNCHANGED <<specRS, specWS, blockSize, phase, start, orderedTxs, remaining, executed, batch, order>>
    /\ UNCHANGED <<committedDelta, todo, idle, stateDB, serialReplayList, listRead, committed, aborted, replayed>>
    /\ worker[t] = "execute" /\ worker' = [worker EXCEPT ![t] = "release"]
    /\ batchResults' = batchResults \cup {t}
  BY DEF Validate, dagVars
<1> DagInv /\ PoolInv /\ ListInv /\ DeltaInv /\ ReplayInv /\ SerialEquivalence
  BY DEF OverlayInv
<1>1. /\ phase = "run" /\ t \in batch /\ t \notin todo /\ t \notin batchResults
      /\ t \notin committed /\ t \notin Rejected /\ replayed = {}
  BY Executing
<1>2. DagInv' /\ Done' = Done /\ PoolInv'
  BY KeepsWorker, Zenon
<1>3. PICK real \in RealSets :
         /\ real[1] \subseteq specRS[t] /\ real[2] \subseteq specWS[t]
         /\ seen' = [seen EXCEPT ![t] = Read(committedDelta, real[1])]
         /\ wrote' = [wrote EXCEPT ![t] = real[2]]
  BY ZenonT(30) DEF Validate, KeysMatch
<1>4. real[2] \in SUBSET Keys
  BY PoolAssumption
<1>5. ReplayInv'
  BY <1>1, Zenon DEF ReplayInv
<1>6. committed \in SUBSET Txs /\ batchResults \subseteq Txs /\ order \in Seq(Txs)
  BY <1>1, Basics, Zenon DEF PoolInv, DagInv
<1>7. wrote \in [Txs -> SUBSET Keys] /\ DOMAIN seen = Txs
  BY Zenon DEF DeltaInv
<1>8. /\ wrote' \in [Txs -> SUBSET Keys] /\ DOMAIN seen' = Txs
      /\ \A u \in Txs \ {t} : wrote'[u] = wrote[u] /\ seen'[u] = seen[u]
      /\ wrote'[t] = real[2] /\ DOMAIN seen'[t] = real[1]
      /\ \A k \in real[1] : seen'[t][k] = committedDelta[k]
  BY <1>3, <1>4, <1>7, Zenon DEF Read
<1>9. \A k : \A n \in Nat :
          LastWriter(order', k, n, committed', wrote') = LastWriter(order, k, n, committed, wrote)
  <2> TAKE k
  <2> TAKE n \in Nat
  <2>1. \A u \in committed : wrote'[u] = wrote[u]
    BY <1>1, <1>6, <1>8, Zenon
  <2>2. LastWriter(order, k, n, committed, wrote') = LastWriter(order, k, n, committed, wrote)
    BY <2>1, LastWriterElsewhere
  <2> QED BY <2>2
<1>10. SerialEquivalence'
  <2> SUFFICES ASSUME NEW u \in committed, NEW k \in DOMAIN seen[u]
               PROVE  seen'[u][k] = LastWriter(order', k, Position(order', u) - 1, committed', wrote')
    BY <1>1, <1>6, <1>8 DEF SerialEquivalence
  <2>1. Position(order, u) - 1 \in Nat
    <3>1. u \in Range(order)
      BY Zenon DEF PoolInv, Done
    <3>2. order \in Seq(Txs) /\ IsInjective(order)
      BY Zenon DEF DagInv
    <3>3. Position(order, u) \in 1..Len(order)
      BY <3>1, <3>2, PlaceOf, Zenon
    <3> QED BY <3>2, <3>3
  <2> QED BY <1>1, <1>6, <1>8, <1>9, <2>1 DEF SerialEquivalence
<1>11. DeltaInv'
  <2>1. Len(order) \in Nat
    BY <1>6
  <2>2. \A k \in Keys : committedDelta'[k] = LastWriter(order', k, Len(order'), committed', wrote')
    BY <1>1, <1>9, <2>1, Zenon DEF DeltaInv
  <2>3. \A u \in committed' \cup batchResults' :
           wrote'[u] \subseteq specWS'[u] /\ DOMAIN seen'[u] \subseteq specRS'[u]
    BY <1>3, <1>6, <1>8 DEF DeltaInv
  <2>4. \A u \in Txs \ (committed' \cup batchResults' \cup replayed') :
           wrote'[u] = {} /\ DOMAIN seen'[u] = {}
    BY <1>8, Zenon DEF DeltaInv
  <2>5. \A u \in batchResults' : \A k \in DOMAIN seen'[u] : seen'[u][k] = committedDelta'[k]
    BY <1>1, <1>6, <1>8 DEF DeltaInv
  <2> QED BY <1>8, <2>2, <2>3, <2>4, <2>5, Zenon DEF DeltaInv
<1>12. Rejected' = Rejected
  <2>1. worker \in [Txs -> {"none", "acquire", "execute", "append", "release"}] /\ batch \subseteq Txs
    BY Basics DEF PoolInv, TypeOK
  <2> QED BY <2>1, Zenon DEF Rejected
<1>13. ListInv'
  <2>1. \A u \in Txs : worker'[u] = "append" => worker[u] = "append"
    BY Zenon DEF PoolInv, TypeOK
  <2> QED BY <1>12, <2>1, ZenonT(30) DEF ListInv
<1> QED BY <1>2, <1>5, <1>10, <1>11, <1>13, Zenon DEF OverlayInv

\* A rejected transaction reads the list, which holds rejected ones.
LEMMA RejectKeepsInv ==
    ASSUME OverlayInv, NEW t \in Txs, Reject(t)
    PROVE  OverlayInv'
<1> /\ UNCHANGED <<specRS, specWS, blockSize, phase, start, orderedTxs, remaining, executed, batch, order>>
    /\ UNCHANGED <<committedDelta, todo, idle, batchResults, wrote, seen, stateDB, serialReplayList,
                   committed, aborted, replayed>>
    /\ worker[t] = "execute" /\ worker' = [worker EXCEPT ![t] = "append"]
    /\ listRead' = [listRead EXCEPT ![t] = serialReplayList]
  BY DEF Reject, dagVars
<1> DagInv /\ PoolInv /\ ListInv /\ DeltaInv /\ ReplayInv /\ SerialEquivalence
  BY DEF OverlayInv
<1>1. DagInv' /\ Done' = Done /\ PoolInv'
  BY KeepsWorker, Zenon
<1>2. DeltaInv' /\ SerialEquivalence'
  BY ValuesKept
<1>3. ReplayInv'
  BY Zenon DEF ReplayInv
<1>4. worker \in [Txs -> {"none", "acquire", "execute", "append", "release"}] /\ batch \subseteq Txs
  BY Basics, Zenon DEF PoolInv, TypeOK
<1>5. Rejected' = Rejected
  BY <1>4, Zenon DEF Rejected
<1>6. ListInv'
  BY <1>5, Zenon DEF ListInv
<1> QED BY <1>1, <1>2, <1>3, <1>6, Zenon DEF OverlayInv

\* What is stored in the list are rejected transactions, whatever was dropped.
LEMMA StoreListKeepsInv ==
    ASSUME OverlayInv, NEW t \in Txs, StoreList(t)
    PROVE  OverlayInv'
<1> /\ UNCHANGED <<specRS, specWS, blockSize, phase, start, orderedTxs, remaining, executed, batch, order>>
    /\ UNCHANGED <<committedDelta, todo, idle, batchResults, wrote, seen, stateDB, committed, aborted, replayed>>
    /\ worker[t] = "append" /\ worker' = [worker EXCEPT ![t] = "release"]
    /\ serialReplayList' = listRead[t] \cup {t}
    /\ listRead' = [listRead EXCEPT ![t] = {}]
  BY DEF StoreList, dagVars
<1> DagInv /\ PoolInv /\ ListInv /\ DeltaInv /\ ReplayInv /\ SerialEquivalence
  BY DEF OverlayInv
<1>1. /\ phase = "run" /\ t \in batch /\ t \notin todo /\ t \notin batchResults
      /\ t \notin committed /\ t \notin Rejected /\ replayed = {}
  BY Executing
<1>2. DagInv' /\ Done' = Done /\ PoolInv'
  BY KeepsWorker, ZenonT(30)
<1>3. DeltaInv' /\ SerialEquivalence'
  BY ValuesKept, Zenon
<1>4. ReplayInv'
  BY <1>1, Zenon DEF ReplayInv
<1>5. worker \in [Txs -> {"none", "acquire", "execute", "append", "release"}] /\ batch \subseteq Txs
  BY Basics DEF PoolInv, TypeOK
<1>6. Rejected' = Rejected \cup {t}
  BY <1>1, <1>5, Zenon DEF Rejected
<1>7. ListInv'
  BY <1>6, Zenon DEF ListInv
<1> QED BY <1>2, <1>3, <1>4, <1>7, Zenon DEF OverlayInv

-----------------------------------------------------------------------------
(* The main goroutine *)

\* The initial state satisfies the invariant.
LEMMA InitInv == Init => OverlayInv
<1> SUFFICES ASSUME Init PROVE OverlayInv
  OBVIOUS
<1>1. DagInv
  BY DagInitInv DEF Init
<1>2. phase = "order" /\ order = <<>> /\ Range(order) = {} /\ batch = {} /\ remaining = {} /\ executed = {}
  <2>1. phase = "order" /\ order = <<>> /\ batch = {} /\ remaining = {} /\ executed = {}
    BY Zenon DEF Init, DagInit
  <2> QED BY <2>1 DEF Range
<1>3. Done = {} /\ Rejected = {} /\ Goroutines = {} /\ InUse = {}
  BY <1>2, Zenon DEF Done, Rejected, Init, Goroutines, InUse
<1>4. idle \in Nat /\ idle + Cardinality(InUse) = PoolSize
  BY <1>3, FS_EmptySet, PoolAssumption DEF Init
<1>5. TypeOK
  BY <1>2, <1>3, <1>4, Zenon DEF TypeOK, Init, InUse
<1>6. PoolInv
  BY <1>2, <1>3, <1>4, <1>5, Zenon DEF PoolInv, Init
<1>7. ListInv
  BY <1>3, Zenon DEF ListInv, Init
<1>8. \A k : LastWriter(order, k, Len(order), committed, wrote) = Witness
  BY <1>2, Zenon DEF LastWriter, Writers, Init
<1>9. DeltaInv
  <2>1. DOMAIN seen = Txs /\ \A t \in Txs : DOMAIN seen[t] = {}
    BY DEF Init
  <2>2. \A k \in Keys : committedDelta[k] = Witness
    BY DEF Init
  <2>3. /\ wrote \in [Txs -> SUBSET Keys] /\ \A t \in Txs : wrote[t] = {}
        /\ committed = {} /\ batchResults = {}
    BY Zenon DEF Init
  <2> QED BY <1>8, <2>1, <2>2, <2>3, Zenon DEF DeltaInv
<1>10. ReplayInv /\ SerialEquivalence
  BY DEF ReplayInv, SerialEquivalence, Init
<1> QED BY <1>1, <1>6, <1>7, <1>9, <1>10 DEF OverlayInv

\* Ordering a block: the committed transactions keep their places.
LEMMA OrderKeepsInv ==
    ASSUME OverlayInv, Order
    PROVE  OverlayInv'
<1> /\ phase = "order" /\ phase' = "select" /\ order' = order \o orderedTxs'
    /\ UNCHANGED <<specRS, specWS, batch>>
    /\ UNCHANGED <<committedDelta, todo, worker, idle, batchResults, wrote, seen, serialReplayList,
                   listRead, committed, aborted, replayed, stateDB>>
  BY DEF Order, OrderBlock, runVars
<1> DagInv /\ PoolInv /\ ListInv /\ DeltaInv /\ ReplayInv /\ SerialEquivalence
  BY DEF OverlayInv
<1>1. DagInv' /\ Done' = Done
  BY OrderBlockKeepsInv, Zenon DEF Order
<1>2. replayed = {} /\ batch = {} /\ todo = {}
  BY NoReplayInBatch, Basics, Zenon
<1>3. PoolInv'
  BY <1>1, <1>2 DEF PoolInv, TypeOK, Goroutines, DagInv
<1>4. ListInv'
  <2>1. Rejected' = Rejected
    BY DEF Rejected
  <2> QED BY <2>1, ZenonT(30) DEF ListInv
<1>5. ReplayInv'
  BY <1>2 DEF ReplayInv
<1>6. committed \in SUBSET Done /\ OrderBlock
  BY DEF PoolInv, Order
<1>7. ASSUME NEW k
      PROVE  /\ LastWriter(order', k, Len(order'), committed', wrote')
                    = LastWriter(order, k, Len(order), committed, wrote)
             /\ \A t \in committed :
                   LastWriter(order', k, Position(order', t) - 1, committed', wrote')
                       = LastWriter(order, k, Position(order, t) - 1, committed, wrote)
  BY <1>6, OrderKeepsWriters, Zenon
<1>8. SerialEquivalence'
  BY <1>2, <1>7, ZenonT(30) DEF SerialEquivalence
<1>9. DeltaInv'
  <2>1. batchResults \subseteq committed
    BY DEF PoolInv
  <2> QED BY <1>7, <2>1, Zenon DEF DeltaInv
<1> QED BY <1>1, <1>3, <1>4, <1>5, <1>8, <1>9, Zenon DEF OverlayInv

\* A batch starts with everybody waiting and no results.
LEMMA SelectKeepsInv ==
    ASSUME OverlayInv, Select
    PROVE  OverlayInv'
<1> /\ phase = "select" /\ phase' = "run" /\ todo' = batch' /\ batchResults' = {}
    /\ UNCHANGED <<specRS, specWS, blockSize, start, orderedTxs, remaining, executed, order>>
    /\ UNCHANGED <<committedDelta, worker, idle, wrote, seen, serialReplayList,
                   listRead, committed, aborted, replayed, stateDB>>
  BY DEF Select, SelectBatch
<1> DagInv /\ PoolInv /\ ListInv /\ DeltaInv /\ ReplayInv /\ SerialEquivalence
  BY DEF OverlayInv
<1>1. DagInv' /\ Done' = Done
  BY SelectBatchKeepsInv, Zenon DEF Select
<1>2. replayed = {} /\ batch = {} /\ todo = {} /\ Rejected = aborted
      /\ batchResults \subseteq committed
  BY NoReplayInBatch, Basics, Zenon DEF PoolInv
<1>3. Goroutines = {} /\ Goroutines' = {}
  BY <1>2, Zenon DEF PoolInv, TypeOK, Goroutines
<1>4. PoolInv'
  BY <1>1, <1>3, Zenon DEF PoolInv, TypeOK, DagInv
<1>5. ListInv'
  <2>1. Rejected' = Rejected
    BY <1>2, Zenon DEF Rejected
  <2> QED BY <2>1, Zenon DEF ListInv
<1>6. ReplayInv'
  BY <1>2, Zenon DEF ReplayInv
<1>7. DeltaInv' /\ SerialEquivalence'
  BY <1>2, ValuesKept, Zenon
<1> QED BY <1>1, <1>4, <1>5, <1>6, <1>7 DEF OverlayInv

\* The steps between blocks, and around the serial replay, change the phase.
LEMMA PhaseStepKeepsInv ==
    ASSUME OverlayInv, EndBlock \/ EndValidation \/ Finish
    PROVE  OverlayInv'
<1> /\ \/ phase = "select" /\ phase' = "order" /\ batch' = {}
       \/ phase = "order" /\ start >= NTx /\ phase' = "serial" /\ batch' = batch
       \/ phase = "serial" /\ phase' = "done" /\ batch' = batch
    /\ UNCHANGED <<specRS, specWS, remaining, executed, order>>
    /\ UNCHANGED <<committedDelta, todo, worker, idle, batchResults, wrote, seen, serialReplayList,
                   listRead, committed, aborted, replayed, stateDB>>
  BY DEF EndBlock, EndValidation, Finish, NextBlock, StartSerialReplay, runVars
<1> DagInv /\ PoolInv /\ ListInv /\ DeltaInv /\ ReplayInv /\ SerialEquivalence
  BY Zenon DEF OverlayInv
<1>1. DagInv' /\ Done' = Done
  <2>1. CASE EndBlock
    BY <2>1, NextBlockKeepsInv, Zenon DEF EndBlock
  <2>2. CASE EndValidation
    BY <2>2, PhaseKeepsInv, Zenon DEF EndValidation, StartSerialReplay
  <2>3. CASE Finish
    BY <2>3, PhaseKeepsInv, Zenon DEF Finish
  <2> QED BY <2>1, <2>2, <2>3, Zenon
<1>2. batch = {} /\ batch' = {} /\ todo = {} /\ batchResults \subseteq committed
      /\ (replayed # {} => phase \in {"serial", "done"})
  <2>1. phase # "run"
    OBVIOUS
  <2>2. batchResults \subseteq committed /\ (replayed # {} => phase \in {"serial", "done"})
    BY <2>1, Zenon DEF PoolInv, ReplayInv
  <2>3. batch = {} /\ todo = {}
    BY <2>1, Basics, Zenon
  <2> QED BY <2>2, <2>3, Zenon
<1>3. PoolInv'
  BY <1>1, <1>2 DEF PoolInv, TypeOK, Goroutines, DagInv
<1>4. ListInv'
  <2>1. Rejected' = Rejected
    BY <1>2, Zenon DEF Rejected
  <2> QED BY <2>1, ZenonT(30) DEF ListInv
<1>5. ReplayInv'
  BY <1>2, Zenon DEF ReplayInv
<1>6. DeltaInv' /\ SerialEquivalence'
  BY <1>2, ValuesKept
<1> QED BY <1>1, <1>3, <1>4, <1>5, <1>6, Zenon DEF OverlayInv

-----------------------------------------------------------------------------
(* The merge of a batch *)

\* With a batch merged, its transactions have read what the transactions before
\* them in chain order wrote last, and those committed before still have; the
\* last writer of a key is the one of the batch, if there is one.
LEMMA MergedWriters ==
    ASSUME OverlayInv, phase = "run", NEW k
    PROVE  LET merged == committed \cup batchResults
           IN  /\ \A t \in batchResults : k \in DOMAIN seen[t] =>
                     LastWriter(order, k, Position(order, t) - 1, merged, wrote)
                         = LastWriter(order, k, Len(order), committed, wrote)
               /\ \A t \in committed : k \in DOMAIN seen[t] =>
                     LastWriter(order, k, Position(order, t) - 1, merged, wrote)
                         = LastWriter(order, k, Position(order, t) - 1, committed, wrote)
               /\ (\A t \in batchResults : k \notin wrote[t]) =>
                     LastWriter(order, k, Len(order), merged, wrote)
                         = LastWriter(order, k, Len(order), committed, wrote)
               /\ \A t \in batchResults : k \in wrote[t] =>
                     /\ LastWriter(order, k, Len(order), merged, wrote) = t
                     /\ {u \in batchResults : k \in wrote[u]} = {t}
<1> DEFINE merged == committed \cup batchResults
<1>1. /\ Joins(committed, batchResults, wrote)
      /\ \A t \in merged : DOMAIN seen[t] \subseteq specRS[t]
  BY Basics, Zenon DEF OverlayInv, PoolInv, DeltaInv, Joins
<1>2. ASSUME NEW t \in batchResults, k \in DOMAIN seen[t]
      PROVE  LastWriter(order, k, Position(order, t) - 1, merged, wrote)
                 = LastWriter(order, k, Len(order), committed, wrote)
  <2>1. k \in specRS[t]
    BY <1>1, <1>2, Zenon
  <2> QED BY <1>1, <2>1, JoiningReads, SMTT(20)
<1>3. ASSUME NEW t \in committed, k \in DOMAIN seen[t]
      PROVE  LastWriter(order, k, Position(order, t) - 1, merged, wrote)
                 = LastWriter(order, k, Position(order, t) - 1, committed, wrote)
  <2>1. k \in specRS[t]
    BY <1>1, <1>3, Zenon
  <2> QED BY <1>1, <2>1, DoneReads
<1>4. ASSUME \A t \in batchResults : k \notin wrote[t]
      PROVE  LastWriter(order, k, Len(order), merged, wrote)
                 = LastWriter(order, k, Len(order), committed, wrote)
  BY <1>1, <1>4, JoinLeaves
<1>5. ASSUME NEW t \in batchResults, k \in wrote[t]
      PROVE  /\ LastWriter(order, k, Len(order), merged, wrote) = t
             /\ {u \in batchResults : k \in wrote[u]} = {t}
  <2>1. /\ LastWriter(order, k, Len(order), merged, wrote) = t
        /\ \A u \in batchResults : k \in wrote[u] => u = t
    BY <1>1, <1>5, JoinWrites
  <2> QED BY <1>5, <2>1, Zenon
<1> QED BY <1>2, <1>3, <1>4, <1>5, ZenonT(30)

\* Merging a batch in the order of the TxIDs leaves the state its transactions
\* leave in chain order.
LEMMA MergeKeepsInv ==
    ASSUME OverlayInv, Merge
    PROVE  OverlayInv'
<1> DEFINE merged == committed \cup batchResults
<1> /\ phase = "run" /\ phase' = "select" /\ batch' = {} /\ todo = {} /\ Goroutines = {}
    /\ committed' = merged /\ aborted' = aborted \cup (batch \ batchResults)
    /\ UNCHANGED <<specRS, specWS, order>>
    /\ UNCHANGED <<todo, worker, idle, batchResults, wrote, seen, stateDB, serialReplayList, listRead, replayed>>
  BY DEF Merge, BatchDone
<1> DagInv /\ PoolInv /\ ListInv /\ DeltaInv /\ ReplayInv /\ SerialEquivalence
  BY Zenon DEF OverlayInv
<1>1. DagInv' /\ Done' = Done \cup batch /\ batch \cap Done = {}
  BY BatchDoneKeepsInv, Zenon DEF Merge
<1>2. replayed = {} /\ batchResults \subseteq batch /\ batchResults \subseteq Txs
  BY NoReplayInBatch, Basics DEF PoolInv
<1>3. ASSUME NEW k \in Keys
      PROVE  /\ committedDelta'[k] = LastWriter(order, k, Len(order), merged, wrote)
             /\ committedDelta'[k] \in Txs \cup {Witness}
  <2>1. committedDelta'[k] = IF {t \in batchResults : k \in wrote[t]} = {} THEN committedDelta[k]
                             ELSE Max({t \in batchResults : k \in wrote[t]})
    BY Zenon DEF Merge
  <2>2. CASE \A t \in batchResults : k \notin wrote[t]
    <3>1. committedDelta'[k] = committedDelta[k]
      BY <2>1, <2>2, Zenon
    <3>2. committedDelta[k] \in Txs \cup {Witness}
      BY Zenon DEF PoolInv, TypeOK
    <3>3. committedDelta[k] = LastWriter(order, k, Len(order), committed, wrote)
      BY <1>2 DEF DeltaInv
    <3>4. LastWriter(order, k, Len(order), merged, wrote) = LastWriter(order, k, Len(order), committed, wrote)
      BY <2>2, MergedWriters, Zenon
    <3> QED BY <3>1, <3>2, <3>3, <3>4, Zenon
  <2>3. ASSUME NEW t \in batchResults, k \in wrote[t]
        PROVE  /\ committedDelta'[k] = LastWriter(order, k, Len(order), merged, wrote)
               /\ committedDelta'[k] \in Txs \cup {Witness}
    <3>1. /\ LastWriter(order, k, Len(order), merged, wrote) = t
          /\ {u \in batchResults : k \in wrote[u]} = {t}
      BY <2>3, MergedWriters, Zenon
    <3>2. t \in Nat /\ t \in Txs
      BY <1>2, RangeIsAll
    <3>3. Max({t}) = t
      <4>1. {t} \in SUBSET (0..t) /\ {t} # {}
        BY <3>2
      <4>2. Max({t}) \in {t}
        BY <3>2, <4>1, GreatestOf, Zenon
      <4> QED BY <4>2, Zenon
    <3> QED BY <2>1, <3>1, <3>2, <3>3, ZenonT(30)
  <2> QED BY <2>2, <2>3, Zenon
<1>4. committedDelta' \in [Keys -> Txs \cup {Witness}]
  <2>1. DOMAIN committedDelta' = Keys /\ committedDelta' = [k \in Keys |-> committedDelta'[k]]
    BY Zenon DEF Merge
  <2> QED BY <1>3, <2>1
<1>5. PoolInv'
  <2>1. Goroutines' = {} /\ InUse' = InUse
    BY DEF Goroutines, InUse
  <2>2. TypeOK'
    BY <1>1, <1>4, <2>1, ZenonT(30) DEF PoolInv, TypeOK, InUse, DagInv
  <2>3. (committed \cup aborted = Done)' /\ (committed \cap aborted = {})'
    BY <1>1, <1>2 DEF PoolInv
  <2> QED BY <2>2, <2>3, Zenon DEF PoolInv
<1>6. ListInv'
  <2>1. \A t \in Txs : worker[t] = "none"
    BY Zenon DEF Goroutines
  <2>2. batch \subseteq Txs
    BY Basics, Zenon
  <2>3. Rejected' = Rejected
    BY <2>1, <2>2 DEF Rejected
  <2> QED BY <2>1, <2>3, ZenonT(30) DEF ListInv
<1>7. ReplayInv'
  BY <1>2, ZenonT(30) DEF ReplayInv
<1>8. DeltaInv'
  BY <1>3, ZenonT(30) DEF DeltaInv
<1>9. SerialEquivalence'
  <2> SUFFICES ASSUME NEW t \in merged, NEW k \in DOMAIN seen[t]
               PROVE  seen[t][k] = LastWriter(order, k, Position(order, t) - 1, merged, wrote)
    BY <1>2, Zenon DEF SerialEquivalence
  <2>1. CASE t \in committed
    BY <2>1, MergedWriters, ZenonT(30) DEF SerialEquivalence
  <2>2. CASE t \in batchResults
    <3>1. k \in Keys
      BY <1>2, <2>2, ZenonT(30) DEF DeltaInv, DagInv
    <3>2. seen[t][k] = committedDelta[k]
      BY <2>2, ZenonT(30) DEF DeltaInv
    <3>3. committedDelta[k] = LastWriter(order, k, Len(order), committed, wrote)
      BY <1>2, <3>1, Zenon DEF DeltaInv
    <3> QED BY <2>2, <3>2, <3>3, MergedWriters, ZenonT(30)
  <2> QED BY <2>1, <2>2
<1> QED BY <1>1, <1>5, <1>6, <1>7, <1>8, <1>9, Zenon DEF OverlayInv

-----------------------------------------------------------------------------
(* The serial replay *)

\* A replay, whether it succeeds or fails, reads what the committed transactions
\* and the replays before it left, and adds its own writes.
LEMMA ReplayStep ==
    ASSUME OverlayInv, NEW t \in Txs, Replay(t)
    PROVE  /\ t \notin committed /\ t \notin batchResults /\ t \notin replayed
           /\ wrote' \in [Txs -> SUBSET Keys] /\ DOMAIN seen' = Txs
           /\ \A u \in Txs \ {t} : wrote'[u] = wrote[u] /\ seen'[u] = seen[u]
           /\ committedDelta' \in [Keys -> Txs \cup {Witness}] /\ stateDB' \in [Keys -> Txs \cup {Witness}]
           /\ \A k \in DOMAIN seen'[t] : k \in Keys /\ seen'[t][k] = ReplayBase[k]
           /\ \A k \in Keys : /\ stateDB'[k] = IF k \in wrote'[t] THEN t ELSE ReplayBase[k]
                              /\ ReplayBase[k] = ReplayedValue(order, k, NTx + 1, committed, replayed, wrote)
<1>1. DagInv /\ PoolInv /\ ListInv /\ DeltaInv /\ ReplayInv
  BY DEF OverlayInv
<1>2. phase = "serial" /\ t \in serialReplayList /\ t \notin replayed
  BY ZenonT(30) DEF Replay, NextToReplay
<1>3. t \in aborted
  BY <1>1, <1>2, Basics, Zenon DEF ListInv
<1>4. t \notin committed /\ t \notin batchResults
  BY <1>1, <1>2, <1>3, Zenon DEF PoolInv
<1>5. /\ wrote \in [Txs -> SUBSET Keys] /\ DOMAIN seen = Txs /\ wrote[t] = {} /\ DOMAIN seen[t] = {}
  BY <1>1, <1>2, <1>4, Zenon DEF DeltaInv
<1>6. /\ committedDelta \in [Keys -> Txs \cup {Witness}] /\ stateDB \in [Keys -> Txs \cup {Witness}]
      /\ ReplayBase \in [Keys -> Txs \cup {Witness}]
  BY <1>1, Zenon DEF PoolInv, TypeOK, ReplayBase
<1>7. ASSUME NEW k \in Keys
      PROVE  ReplayBase[k] = ReplayedValue(order, k, NTx + 1, committed, replayed, wrote)
  <2>1. CASE replayed = {}
    <3>1. ReplayedValue(order, k, NTx + 1, committed, replayed, wrote)
             = LastWriter(order, k, Len(order), committed, wrote)
      BY <2>1, NoneReplayed, Zenon
    <3> QED BY <1>1, <2>1, <3>1, ZenonT(30) DEF DeltaInv, ReplayBase
  <2>2. CASE replayed # {}
    BY <1>1, <2>2, Zenon DEF ReplayInv, ReplayBase
  <2> QED BY <2>1, <2>2
<1>8. CASE stateDB' = ReplayBase /\ UNCHANGED <<committedDelta, wrote, seen>>
  BY <1>2, <1>4, <1>5, <1>6, <1>7, <1>8, Zenon
<1>9. ASSUME NEW real \in RealSets,
             seen' = [seen EXCEPT ![t] = Read(ReplayBase, real[1])],
             wrote' = [wrote EXCEPT ![t] = real[2]],
             stateDB' = [k \in Keys |-> IF k \in real[2] THEN t ELSE ReplayBase[k]],
             committedDelta' = IF replayed = {} THEN stateDB' ELSE committedDelta
      PROVE  /\ wrote' \in [Txs -> SUBSET Keys] /\ DOMAIN seen' = Txs
             /\ \A u \in Txs \ {t} : wrote'[u] = wrote[u] /\ seen'[u] = seen[u]
             /\ committedDelta' \in [Keys -> Txs \cup {Witness}] /\ stateDB' \in [Keys -> Txs \cup {Witness}]
             /\ \A k \in DOMAIN seen'[t] : k \in Keys /\ seen'[t][k] = ReplayBase[k]
             /\ \A k \in Keys : stateDB'[k] = IF k \in wrote'[t] THEN t ELSE ReplayBase[k]
  <2>1. real[1] \in SUBSET Keys /\ real[2] \in SUBSET Keys
    BY PoolAssumption
  <2>2. /\ wrote' \in [Txs -> SUBSET Keys] /\ wrote'[t] = real[2]
        /\ \A u \in Txs \ {t} : wrote'[u] = wrote[u]
    BY <1>5, <1>9, <2>1, ZenonT(30)
  <2>3. /\ DOMAIN seen' = Txs /\ seen'[t] = Read(ReplayBase, real[1])
        /\ \A u \in Txs \ {t} : seen'[u] = seen[u]
    BY <1>5, <1>9, Zenon
  <2>4. \A k \in DOMAIN seen'[t] : k \in Keys /\ seen'[t][k] = ReplayBase[k]
    BY <2>1, <2>3, Zenon DEF Read
  <2>5. stateDB' \in [Keys -> Txs \cup {Witness}]
    BY <1>6, <1>9, Zenon
  <2>6. committedDelta' \in [Keys -> Txs \cup {Witness}]
    BY <1>6, <1>9, <2>5, Zenon
  <2> QED BY <1>9, <2>2, <2>3, <2>4, <2>5, <2>6, ZenonT(30)
<1>10. \/ stateDB' = ReplayBase /\ UNCHANGED <<committedDelta, wrote, seen>>
       \/ \E real \in RealSets :
             /\ seen' = [seen EXCEPT ![t] = Read(ReplayBase, real[1])]
             /\ wrote' = [wrote EXCEPT ![t] = real[2]]
             /\ stateDB' = [k \in Keys |-> IF k \in real[2] THEN t ELSE ReplayBase[k]]
             /\ committedDelta' = IF replayed = {} THEN stateDB' ELSE committedDelta
  BY DEF Replay
<1> QED BY <1>2, <1>4, <1>7, <1>8, <1>9, <1>10, ZenonT(30)

\* What the replays read and left, once t is replayed too.
LEMMA ReplayedAfter ==
    ASSUME NEW t, Len(order) \in Nat, replayed' = replayed \cup {t},
           ReplaysNext(t, NTx + 1, committed, replayed, wrote, wrote'), NEW k
    PROVE  /\ ReplayedValue(order, k, t, committed, replayed', wrote')
                  = ReplayedValue(order, k, NTx + 1, committed, replayed, wrote)
           /\ \A u \in replayed : ReplayedValue(order, k, u, committed, replayed', wrote')
                                      = ReplayedValue(order, k, u, committed, replayed, wrote)
           /\ ReplayedValue(order, k, NTx + 1, committed, replayed', wrote')
                  = IF k \in wrote'[t] THEN t
                    ELSE ReplayedValue(order, k, NTx + 1, committed, replayed, wrote)
<1>1. ReplayedValue(order, k, t, committed, replayed \cup {t}, wrote')
         = ReplayedValue(order, k, NTx + 1, committed, replayed, wrote)
  BY ReplayReads
<1>2. ASSUME NEW u \in replayed
      PROVE  ReplayedValue(order, k, u, committed, replayed \cup {t}, wrote')
                 = ReplayedValue(order, k, u, committed, replayed, wrote)
  BY ReplayedBefore
<1>3. ASSUME k \in wrote'[t]
      PROVE  ReplayedValue(order, k, NTx + 1, committed, replayed \cup {t}, wrote') = t
  BY <1>3, ReplayWrites
<1>4. ASSUME k \notin wrote'[t]
      PROVE  ReplayedValue(order, k, NTx + 1, committed, replayed \cup {t}, wrote')
                 = ReplayedValue(order, k, NTx + 1, committed, replayed, wrote)
  BY <1>4, ReplayLeaves
<1> QED BY <1>1, <1>2, <1>3, <1>4, Zenon

\* The replay goes on in the order of the TxIDs.
LEMMA ReplayKeepsInv ==
    ASSUME OverlayInv, NEW t \in Txs, Replay(t)
    PROVE  OverlayInv'
<1> /\ phase = "serial" /\ t \in serialReplayList \ replayed
    /\ \A u \in serialReplayList \ replayed : t <= u
    /\ UNCHANGED <<specRS, specWS, blockSize, phase, start, orderedTxs, remaining, executed, batch, order>>
    /\ UNCHANGED <<todo, worker, idle, batchResults, serialReplayList, listRead, committed, aborted>>
    /\ replayed' = replayed \cup {t}
  BY Zenon DEF Replay, NextToReplay, dagVars
<1> DagInv /\ PoolInv /\ ListInv /\ DeltaInv /\ ReplayInv /\ SerialEquivalence
  BY DEF OverlayInv
<1>1. /\ t \notin committed /\ t \notin batchResults /\ t \notin replayed
      /\ wrote' \in [Txs -> SUBSET Keys] /\ DOMAIN seen' = Txs
      /\ \A u \in Txs \ {t} : wrote'[u] = wrote[u] /\ seen'[u] = seen[u]
      /\ committedDelta' \in [Keys -> Txs \cup {Witness}] /\ stateDB' \in [Keys -> Txs \cup {Witness}]
      /\ \A k \in DOMAIN seen'[t] : k \in Keys /\ seen'[t][k] = ReplayBase[k]
      /\ \A k \in Keys : /\ stateDB'[k] = IF k \in wrote'[t] THEN t ELSE ReplayBase[k]
                         /\ ReplayBase[k] = ReplayedValue(order, k, NTx + 1, committed, replayed, wrote)
  BY ReplayStep, ZenonT(30)
<1>2. DagInv' /\ Done' = Done
  BY PhaseKeepsInv
<1>3. PoolInv'
  BY <1>1, <1>2, ZenonT(30) DEF PoolInv, TypeOK, Goroutines
<1>4. ListInv'
  <2>1. Rejected' = Rejected
    BY DEF Rejected
  <2> QED BY <2>1, ZenonT(30) DEF ListInv
<1>5. /\ committed \subseteq Txs /\ batchResults \subseteq committed /\ serialReplayList \subseteq Txs
      /\ replayed \subseteq serialReplayList
  BY Basics, ZenonT(30) DEF PoolInv, ListInv, ReplayInv
<1>6. DeltaInv'
  <2>1. \A u \in committed' \cup batchResults' :
           wrote'[u] \subseteq specWS'[u] /\ DOMAIN seen'[u] \subseteq specRS'[u]
    BY <1>1, <1>5, ZenonT(30) DEF DeltaInv
  <2>2. \A u \in Txs \ (committed' \cup batchResults' \cup replayed') :
           wrote'[u] = {} /\ DOMAIN seen'[u] = {}
    BY <1>1, ZenonT(30) DEF DeltaInv
  <2>3. phase' # "run" /\ replayed' # {}
    OBVIOUS
  <2> QED BY <1>1, <2>1, <2>2, <2>3, ZenonT(30) DEF DeltaInv
<1>7. /\ Len(order) \in Nat /\ t \in Nat
      /\ ReplaysNext(t, NTx + 1, committed, replayed, wrote, wrote')
      /\ \A u \in committed : wrote'[u] = wrote[u]
  <2>1. replayed \in SUBSET Txs
    BY <1>5, Basics, Zenon
  <2>2. \A u \in replayed : u < t
    BY Zenon DEF ReplayInv
  <2>3. Len(order) \in Nat
    BY DEF DagInv
  <2>4. \A u \in committed \cup replayed : u \in Txs \ {t}
    BY <1>1, <1>5, <2>1, ZenonT(30)
  <2>5. \A u \in committed \cup replayed : wrote'[u] = wrote[u]
    BY <1>1, <2>4, Zenon
  <2>6. t \in Nat /\ NTx + 1 \in Nat /\ t < NTx + 1 /\ replayed \in SUBSET Nat
    BY <2>1, RangeIsAll
  <2> QED BY <2>2, <2>3, <2>5, <2>6, Zenon DEF ReplaysNext
<1>8. ASSUME NEW k
       PROVE  /\ ReplayedValue(order, k, t, committed, replayed', wrote')
                     = ReplayedValue(order, k, NTx + 1, committed, replayed, wrote)
              /\ \A u \in replayed : ReplayedValue(order, k, u, committed, replayed', wrote')
                                         = ReplayedValue(order, k, u, committed, replayed, wrote)
              /\ ReplayedValue(order, k, NTx + 1, committed, replayed', wrote')
                     = IF k \in wrote'[t] THEN t
                       ELSE ReplayedValue(order, k, NTx + 1, committed, replayed, wrote)
  BY <1>7, ReplayedAfter, Zenon
<1>9. ReplayInv'
  <2>1. \A k \in Keys : stateDB'[k] = ReplayedValue(order', k, NTx + 1, committed', replayed', wrote')
    BY <1>1, <1>8, ZenonT(30)
  <2>2. ASSUME NEW a \in replayed', NEW u \in serialReplayList' \ replayed' PROVE a < u
    <3>1. u \in serialReplayList \ replayed /\ t < u
      BY <1>5, RangeIsAll
    <3>2. CASE a = t
      BY <3>1, <3>2, Zenon
    <3>3. CASE a \in replayed
      BY <3>1, <3>3, Zenon DEF ReplayInv
    <3> QED BY <3>2, <3>3, Zenon
  <2>3. replayed' \subseteq serialReplayList' /\ phase' = "serial"
    BY <1>5, Zenon
  <2> QED BY <2>1, <2>2, <2>3, Zenon DEF ReplayInv
<1>10. SerialEquivalence'
  <2>1. ASSUME NEW u \in committed, NEW k \in DOMAIN seen[u]
        PROVE  seen[u][k] = LastWriter(order, k, Position(order, u) - 1, committed, wrote')
    <3>1. Position(order, u) - 1 \in Nat
      <4>1. u \in Range(order)
        BY Zenon DEF PoolInv, Done
      <4>2. order \in Seq(Txs) /\ IsInjective(order)
        BY Zenon DEF DagInv
      <4>3. Position(order, u) \in 1..Len(order)
        BY <4>1, <4>2, PlaceOf, Zenon
      <4> QED BY <4>2, <4>3
    <3>2. \A v \in committed : wrote'[v] = wrote[v]
      BY <1>7, Zenon
    <3> DEFINE n == Position(order, u) - 1
    <3> HIDE DEF n
    <3>3. n \in Nat
      BY <3>1, Zenon DEF n
    <3>4. LastWriter(order, k, n, committed, wrote') = LastWriter(order, k, n, committed, wrote)
      BY <3>2, <3>3, LastWriterElsewhere
    <3> QED BY <3>4 DEF SerialEquivalence, n
  <2>2. ASSUME NEW u \in replayed, NEW k \in DOMAIN seen[u]
        PROVE  seen[u][k] = ReplayedValue(order, k, u, committed, replayed', wrote')
    BY <1>8, Zenon DEF SerialEquivalence
  <2>3. ASSUME NEW k \in DOMAIN seen'[t]
        PROVE  seen'[t][k] = ReplayedValue(order, k, t, committed, replayed', wrote')
    BY <1>1, <1>8, ZenonT(30)
  <2>4. \A u \in committed \cup replayed : seen'[u] = seen[u]
    BY <1>1, <1>5, ZenonT(30)
  <2>5. ASSUME NEW u \in committed', NEW k \in DOMAIN seen'[u]
        PROVE  seen'[u][k] = LastWriter(order', k, Position(order', u) - 1, committed', wrote')
    BY <2>1, <2>4
  <2>6. ASSUME NEW u \in replayed', NEW k \in DOMAIN seen'[u]
        PROVE  seen'[u][k] = ReplayedValue(order', k, u, committed', replayed', wrote')
    BY <2>2, <2>3, <2>4, ZenonT(30)
  <2> QED BY <2>5, <2>6, Zenon DEF SerialEquivalence
<1> QED BY <1>2, <1>3, <1>4, <1>6, <1>9, <1>10, Zenon DEF OverlayInv

-----------------------------------------------------------------------------
(* The theorems *)

\* A step that changes nothing keeps the invariant.
LEMMA StutterKeepsInv ==
    ASSUME OverlayInv, UNCHANGED vars
    PROVE  OverlayInv'
<1> /\ UNCHANGED <<specRS, specWS, blockSize, phase, start, orderedTxs, remaining, executed, batch, order>>
    /\ UNCHANGED <<committedDelta, todo, worker, idle, batchResults, wrote, seen, serialReplayList,
                   listRead, committed, aborted, replayed, stateDB>>
  BY DEF vars, dagVars, runVars
<1> DagInv /\ PoolInv /\ ListInv /\ DeltaInv /\ ReplayInv /\ SerialEquivalence
  BY DEF OverlayInv
<1>1. DagInv' /\ Done' = Done
  BY PhaseKeepsInv, Zenon
<1>2. PoolInv'
  BY <1>1 DEF PoolInv, TypeOK, Goroutines
<1>3. ListInv'
  <2>1. Rejected' = Rejected
    BY Zenon DEF Rejected
  <2> QED BY <2>1, ZenonT(30) DEF ListInv
<1>4. DeltaInv' /\ SerialEquivalence'
  BY ValuesKept, Zenon
<1>5. ReplayInv'
  BY DEF ReplayInv
<1> QED BY <1>1, <1>2, <1>3, <1>4, <1>5, Zenon DEF OverlayInv

\* OverlayInv holds in every reachable state of the overlay mode, whatever the
\* range, the block size, the keys, the read and write sets and the pool are.
THEOREM OverlayInvariant == Spec => []OverlayInv
<1>1. OverlayInv /\ [Next]_vars => OverlayInv'
  <2> SUFFICES ASSUME OverlayInv, [Next]_vars PROVE OverlayInv'
    OBVIOUS
  <2>1. CASE Main
    BY <2>1, OrderKeepsInv, SelectKeepsInv, MergeKeepsInv, PhaseStepKeepsInv, Zenon DEF Main
  <2>2. ASSUME NEW t \in Txs, Invoke(t) \/ Worker(t) \/ Replay(t) PROVE OverlayInv'
    BY <2>2, MoveKeepsInv, ValidateKeepsInv, RejectKeepsInv, StoreListKeepsInv, ReplayKeepsInv, Zenon DEF Worker
  <2>3. CASE UNCHANGED vars
    BY <2>3, StutterKeepsInv
  <2> QED BY <2>1, <2>2, <2>3 DEF Next, Terminated
<1> QED BY InitInv, <1>1, PTL DEF Spec

\* The parallel validation with its merge in TxID order and the serial replay are
\* equivalent to one serial execution.
THEOREM Serializable == Spec => []SerialEquivalence
<1>1. OverlayInv => SerialEquivalence
  BY Zenon DEF OverlayInv
<1> QED BY <1>1, OverlayInvariant, PTL

\* Between two batches committedDelta is the state of the serial execution of the
\* committed transactions in chain order.
THEOREM DeltaSerial == Spec => []DeltaIsSerialState
<1>1. OverlayInv => DeltaIsSerialState
  <2> SUFFICES ASSUME OverlayInv, phase = "select"
               PROVE  committedDelta = [k \in Keys |-> LastWriter(order, k, Len(order), committed, wrote)]
    BY DEF DeltaIsSerialState
  <2>1. PoolInv /\ DeltaInv /\ ReplayInv
    BY DEF OverlayInv
  <2>2. replayed = {}
    BY <2>1, NoReplayInBatch, Zenon
  <2>3. committedDelta \in [Keys -> Txs \cup {Witness}]
    BY <2>1, Zenon DEF PoolInv, TypeOK
  <2> QED BY <2>1, <2>2, <2>3, ZenonT(30) DEF DeltaInv
<1> QED BY <1>1, OverlayInvariant, PTL

\* Every transaction of the range is committed or aborted when the validation
\* ends, and never both: the break on an empty batch loses nobody; and the
\* serial replay runs aborted transactions only.
THEOREM AllDecided == Spec => []EveryTxDecided
<1>1. OverlayInv => EveryTxDecided
  <2> SUFFICES ASSUME OverlayInv PROVE EveryTxDecided
    OBVIOUS
  <2>1. DagInv /\ PoolInv /\ ListInv /\ ReplayInv
    BY DEF OverlayInv
  <2>2. committed \cup aborted = Done /\ committed \cap aborted = {}
    BY <2>1 DEF PoolInv
  <2>3. ASSUME phase \in {"serial", "done"} PROVE Done = Txs
    <3>1. Range(order) = Upto(start) /\ remaining = {} /\ start \in Nat /\ start >= NTx
      BY <2>1, <2>3, Zenon DEF DagInv, BetweenBlocks
    <3>2. Upto(start) = Txs
      BY <3>1, UptoBounds, Zenon
    <3> QED BY <3>1, <3>2, Zenon DEF Done
  <2>4. ASSUME phase \in {"serial", "done"} PROVE Rejected = aborted
    BY <2>1, <2>4, Basics, Zenon
  <2>5. replayed \subseteq serialReplayList /\ serialReplayList \subseteq Rejected
    BY <2>1, Zenon DEF ListInv, ReplayInv
  <2> QED BY <2>2, <2>3, <2>4, <2>5, Zenon DEF EveryTxDecided
<1> QED BY <1>1, OverlayInvariant, PTL
=============================================================================
