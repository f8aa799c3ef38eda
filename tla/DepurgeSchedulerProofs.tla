----------------------- MODULE DepurgeSchedulerProofs -----------------------
(***************************************************************************)
(* Proofs about DepurgeScheduler for any number of transactions and any    *)
(* finite set of keys: the inductive invariant SchedInv, the properties    *)
(* that follow from it, and the refinement of OrderedKeyLocks.             *)
(***************************************************************************)
EXTENDS DepurgeScheduler, FiniteSetTheorems, TLAPS

(* Facts about one queue *)

\* Popping the front of a sorted queue removes exactly the front, and the
\* transactions that still wait are those that waited and are not the new
\* front.
LEMMA PopQueue ==
    ASSUME NEW q \in Seq(Txs), Sorted(q), q # <<>>
    PROVE  /\ Tail(q) \in Seq(Txs)
           /\ Sorted(Tail(q))
           /\ Head(q) \in Txs
           /\ Front(Tail(q)) \in Txs \cup {None}
           /\ \A i \in 1..Len(Tail(q)) : \E j \in 1..Len(q) : Tail(q)[i] = q[j]
           /\ \A u \in Txs : InQueue(Tail(q), u) <=> (InQueue(q, u) /\ u # Head(q))
           /\ \A u \in Txs : (InQueue(Tail(q), u) /\ Head(Tail(q)) # u)
                    <=> (InQueue(q, u) /\ u # Head(q) /\ Front(Tail(q)) # u)
           /\ \A u \in Txs : Front(Tail(q)) = u => (InQueue(q, u) /\ u # Head(q))
<1>1. /\ Len(q) \in Nat \ {0}
      /\ Head(q) = q[1]
      /\ Head(q) \in Txs
      /\ Tail(q) \in Seq(Txs)
      /\ Len(Tail(q)) = Len(q) - 1
      /\ \A i \in 1..(Len(q) - 1) : Tail(q)[i] = q[i + 1]
  OBVIOUS
<1>2. \A i \in 1..Len(q) : q[i] \in Txs
  OBVIOUS
<1>3. Sorted(Tail(q))
  BY <1>1, <1>2 DEF Sorted
<1>4. \A i \in 1..Len(Tail(q)) : \E j \in 1..Len(q) : Tail(q)[i] = q[j]
  BY <1>1
<1>5. ASSUME NEW u \in Txs
      PROVE  InQueue(Tail(q), u) <=> (InQueue(q, u) /\ u # Head(q))
  <2>1. ASSUME InQueue(Tail(q), u)
        PROVE  InQueue(q, u) /\ u # Head(q)
    <3>1. PICK i \in 1..(Len(q) - 1) : q[i + 1] = u
      BY <1>1, <2>1 DEF InQueue
    <3>2. q[1] < q[i + 1]
      BY <1>1 DEF Sorted
    <3>3. QED
      BY <1>1, <1>2, <3>1, <3>2 DEF InQueue, Txs
  <2>2. ASSUME InQueue(q, u), u # Head(q)
        PROVE  InQueue(Tail(q), u)
    <3>1. PICK i \in 1..Len(q) : q[i] = u
      BY <2>2 DEF InQueue
    <3>2. i # 1 /\ i - 1 \in 1..(Len(q) - 1) /\ Tail(q)[i - 1] = q[i]
      BY <1>1, <2>2, <3>1
    <3>3. QED
      BY <1>1, <3>1, <3>2 DEF InQueue
  <2>3. QED
    BY <2>1, <2>2
<1>6. Tail(q) # <<>> => /\ Front(Tail(q)) = Head(Tail(q))
                        /\ Head(Tail(q)) = Tail(q)[1]
                        /\ Head(Tail(q)) \in Txs
                        /\ InQueue(Tail(q), Head(Tail(q)))
  BY <1>1 DEF Front, InQueue
<1>7. Tail(q) = <<>> => /\ Front(Tail(q)) = None
                        /\ \A u \in Txs : ~InQueue(Tail(q), u)
  BY <1>1, SMTT(30) DEF Front, InQueue
<1>8. None \notin Txs
  BY DEF None, Txs
<1>9. Front(Tail(q)) \in Txs \cup {None}
  BY <1>6, <1>7
<1>10. \A u \in Txs : (InQueue(Tail(q), u) /\ Head(Tail(q)) # u)
                    <=> (InQueue(q, u) /\ u # Head(q) /\ Front(Tail(q)) # u)
  BY <1>5, <1>6, <1>7, <1>8
<1>11. \A u \in Txs : Front(Tail(q)) = u => (InQueue(q, u) /\ u # Head(q))
  BY <1>5, <1>6, <1>7, <1>8
<1>12. QED
  BY <1>1, <1>3, <1>4, <1>5, <1>9, <1>10, <1>11, Zenon

\* Pushing a transaction with a larger number keeps the queue sorted; it is at
\* the front only if the queue was empty.
LEMMA PushQueue ==
    ASSUME NEW q \in Seq(Txs), Sorted(q), NEW t \in Txs,
           \A i \in 1..Len(q) : q[i] < t
    PROVE  /\ Push(q, t) \in Seq(Txs)
           /\ Sorted(Push(q, t))
           /\ Len(Push(q, t)) = Len(q) + 1
           /\ \A i \in 1..Len(q) : Push(q, t)[i] = q[i]
           /\ Push(q, t)[Len(q) + 1] = t
           /\ \A u \in Txs : InQueue(Push(q, t), u) <=> (InQueue(q, u) \/ u = t)
           /\ Front(Push(q, t)) = Head(Push(q, t))
           /\ Head(Push(q, t)) \in Txs
           /\ q # <<>> => Head(Push(q, t)) = Head(q) /\ Head(q) # t
           /\ q = <<>> => Head(Push(q, t)) = t
<1>1. \A i \in 1..Len(q) : q[i] \in Txs
  OBVIOUS
<1>2. ~InQueue(q, t)
  BY <1>1 DEF InQueue, Txs
<1>3. Push(q, t) = Append(q, t)
  BY <1>2 DEF Push
<1> DEFINE p == Append(q, t)
<1>4. /\ p \in Seq(Txs)
      /\ Len(q) \in Nat
      /\ Len(p) = Len(q) + 1
      /\ \A i \in 1..Len(q) : p[i] = q[i]
      /\ p[Len(q) + 1] = t
  OBVIOUS
<1> HIDE DEF p
<1>5. Sorted(p)
  <2> SUFFICES ASSUME NEW i \in 1..Len(p), NEW j \in 1..Len(p), i < j
               PROVE  p[i] < p[j]
    BY DEF Sorted
  <2>1. i \in 1..Len(q) /\ p[i] = q[i]
    BY <1>4
  <2>2. CASE j = Len(q) + 1
    BY <1>4, <2>1, <2>2
  <2>3. CASE j \in 1..Len(q)
    BY <1>4, <2>1, <2>3 DEF Sorted
  <2>4. QED
    BY <1>4, <2>2, <2>3
<1>6. \A u \in Txs : InQueue(p, u) <=> (InQueue(q, u) \/ u = t)
  BY <1>4 DEF InQueue
<1>7. p # <<>> /\ Head(p) = p[1] /\ Front(p) = Head(p) /\ Head(p) \in Txs
  BY <1>4 DEF Front
<1>8. q # <<>> => Len(q) # 0 /\ Head(q) = q[1]
  OBVIOUS
<1>9. q # <<>> => Head(p) = Head(q) /\ Head(q) # t
  BY <1>1, <1>4, <1>7, <1>8 DEF Txs
<1>10. q = <<>> => Head(p) = t
  BY <1>4, <1>7, SMTT(30)
<1>11. QED
  BY <1>3, <1>4, <1>5, <1>6, <1>7, <1>9, <1>10 DEF p

\* Removing the front through the index is the same as popping it.
LEMMA RemoveFront ==
    ASSUME NEW q \in Seq(Txs), Sorted(q), q # <<>>
    PROVE  Remove(q, Head(q)) = Tail(q)
<1>1. /\ Len(q) \in Nat \ {0}
      /\ Head(q) = q[1]
      /\ Tail(q) \in Seq(Txs)
      /\ Len(Tail(q)) = Len(q) - 1
      /\ \A i \in 1..(Len(q) - 1) : Tail(q)[i] = q[i + 1]
  OBVIOUS
<1>2. \A j \in 1..Len(q) : q[j] = Head(q) <=> j = 1
  <2>1. \A i \in 1..Len(q) : q[i] \in Int
    BY NTxAssumption DEF Txs
  <2>2. \A j \in 1..Len(q) : j # 1 => q[1] < q[j]
    BY <1>1 DEF Sorted
  <2>3. QED
    BY <1>1, <2>1, <2>2
<1>3. (CHOOSE j \in 1..Len(q) : q[j] = Head(q)) = 1
  BY <1>1, <1>2
<1> DEFINE r == Remove(q, Head(q))
<1>4. r = [j \in 1..(Len(q) - 1) |-> IF j < 1 THEN q[j] ELSE q[j + 1]]
  BY <1>3, Zenon DEF Remove
<1>5. /\ r \in Seq(Txs)
      /\ Len(r) = Len(q) - 1
      /\ \A i \in 1..(Len(q) - 1) : r[i] = q[i + 1]
  <2> HIDE DEF r
  <2>1. \A j \in 1..(Len(q) - 1) : q[j + 1] \in Txs /\ ~(j < 1)
    BY <1>1
  <2>2. r \in [1..(Len(q) - 1) -> Txs]
    BY <1>4, <2>1
  <2>3. Len(q) - 1 \in Nat
    BY <1>1
  <2>4. r \in Seq(Txs) /\ Len(r) = Len(q) - 1
    BY <2>2, <2>3
  <2>5. QED
    BY <1>4, <2>1, <2>4
<1> HIDE DEF r
<1>6. r \in [1..(Len(q) - 1) -> Txs] /\ Tail(q) \in [1..(Len(q) - 1) -> Txs]
  <2>1. \A s \in Seq(Txs) : s \in [1..Len(s) -> Txs]
    OBVIOUS
  <2>2. QED
    BY <1>1, <1>5, <2>1, Zenon
<1>7. \A i \in 1..(Len(q) - 1) : r[i] = Tail(q)[i]
  BY <1>1, <1>5
<1>8. r = Tail(q)
  BY <1>6, <1>7
<1>9. QED
  BY <1>8 DEF r
-----------------------------------------------------------------------------
(* The release loop *)

\* A transaction in a worker's hands is at the front of every queue it is in.
LEMMA RunningAtFront ==
    ASSUME SchedInv, NEW t \in running
    PROVE  /\ t \in Txs
           /\ t \in 1..added \ txExecuted
           /\ \A k \in Held(t) : /\ keyQueues[k] # <<>>
                                 /\ Head(keyQueues[k]) = t
                                 /\ Front(keyQueues[k]) = t
                                 /\ k \in txKeyMap[t]
<1>1. t \in Txs /\ t \in 1..added \ txExecuted /\ Waits(t) = {}
  BY DEF SchedInv, SchedTypeOK, OneWorkerPerTx
<1>2. ASSUME NEW k \in Held(t)
      PROVE  /\ keyQueues[k] # <<>>
             /\ Head(keyQueues[k]) = t
             /\ k \in txKeyMap[t]
  <2>1. k \in Keys /\ InQueue(keyQueues[k], t) /\ keyQueues[k] \in Seq(Txs)
    BY <1>2 DEF Held, SchedInv, SchedTypeOK
  <2>2. PICK i \in 1..Len(keyQueues[k]) : keyQueues[k][i] = t
    BY <2>1 DEF InQueue
  <2>3. QED
    BY <1>1, <1>2, <2>1, <2>2 DEF Waits, SchedInv
<1>3. QED
  BY <1>1, <1>2 DEF Front

\* When a running transaction leaves the front of the queues of rel, the
\* waits of every other transaction shrink by exactly its freed queues.
LEMMA LeaveFront ==
    ASSUME SchedInv, NEW t \in running, NEW rel \in SUBSET Keys,
           \A k \in rel : keyQueues[k] # <<>> /\ Head(keyQueues[k]) = t,
           keyQueues' = PopFrom(rel)
    PROVE  /\ keyQueues' \in [Keys -> Seq(Txs)]
           /\ \A k \in Keys : Sorted(keyQueues'[k])
           /\ \A k \in Keys : \A i \in 1..Len(keyQueues'[k]) :
                 \E j \in 1..Len(keyQueues[k]) : keyQueues'[k][i] = keyQueues[k][j]
           /\ Held(t)' = Held(t) \ rel
           /\ Waits(t)' = {}
           /\ Freed(rel, t) = {}
           /\ \A u \in Txs \ {t} : /\ Held(u)' = Held(u)
                                   /\ Waits(u)' = Waits(u) \ Freed(rel, u)
                                   /\ Freed(rel, u) \subseteq Waits(u)
<1>1. t \in Txs /\ Waits(t) = {}
  BY DEF SchedInv, SchedTypeOK, OneWorkerPerTx
<1>2. \A k \in Keys : keyQueues[k] \in Seq(Txs) /\ Sorted(keyQueues[k])
  BY DEF SchedInv, SchedTypeOK
<1>3. \A k \in Keys : keyQueues'[k] = IF k \in rel THEN Tail(keyQueues[k])
                                      ELSE keyQueues[k]
  BY DEF PopFrom
<1>4. ASSUME NEW k \in rel
      PROVE  /\ keyQueues'[k] \in Seq(Txs)
             /\ Sorted(keyQueues'[k])
             /\ \A i \in 1..Len(keyQueues'[k]) :
                   \E j \in 1..Len(keyQueues[k]) : keyQueues'[k][i] = keyQueues[k][j]
             /\ \A u \in Txs : InQueue(keyQueues'[k], u)
                                  <=> (InQueue(keyQueues[k], u) /\ u # t)
             /\ \A u \in Txs : (InQueue(keyQueues'[k], u) /\ Head(keyQueues'[k]) # u)
                   <=> (InQueue(keyQueues[k], u) /\ u # t /\ NextTx(k) # u)
             /\ \A u \in Txs : NextTx(k) = u => (InQueue(keyQueues[k], u) /\ u # t)
  <2>1. /\ k \in Keys /\ keyQueues[k] \in Seq(Txs) /\ Sorted(keyQueues[k])
        /\ keyQueues[k] # <<>> /\ Head(keyQueues[k]) = t
        /\ keyQueues'[k] = Tail(keyQueues[k])
    BY <1>2, <1>3, <1>4
  <2> DEFINE q == keyQueues[k]
  <2>2. /\ Tail(q) \in Seq(Txs)
        /\ Sorted(Tail(q))
        /\ \A i \in 1..Len(Tail(q)) : \E j \in 1..Len(q) : Tail(q)[i] = q[j]
        /\ \A u \in Txs : InQueue(Tail(q), u) <=> (InQueue(q, u) /\ u # t)
        /\ \A u \in Txs : (InQueue(Tail(q), u) /\ Head(Tail(q)) # u)
                 <=> (InQueue(q, u) /\ u # t /\ Front(Tail(q)) # u)
        /\ \A u \in Txs : Front(Tail(q)) = u => (InQueue(q, u) /\ u # t)
    BY <2>1, PopQueue, Zenon
  <2>3. NextTx(k) = Front(Tail(q))
    BY DEF NextTx
  <2> HIDE DEF q
  <2>4. keyQueues'[k] = Tail(q) /\ keyQueues[k] = q
    BY <2>1 DEF q
  <2>5. keyQueues'[k] \in Seq(Txs) /\ Sorted(keyQueues'[k])
    BY <2>2, <2>4
  <2>6. \A i \in 1..Len(keyQueues'[k]) :
            \E j \in 1..Len(keyQueues[k]) : keyQueues'[k][i] = keyQueues[k][j]
    BY <2>2, <2>4
  <2>7. ASSUME NEW u \in Txs
        PROVE  /\ InQueue(keyQueues'[k], u) <=> (InQueue(keyQueues[k], u) /\ u # t)
               /\ (InQueue(keyQueues'[k], u) /\ Head(keyQueues'[k]) # u)
                     <=> (InQueue(keyQueues[k], u) /\ u # t /\ NextTx(k) # u)
               /\ NextTx(k) = u => (InQueue(keyQueues[k], u) /\ u # t)
    BY <2>2, <2>3, <2>4, Zenon
  <2>8. QED
    BY <2>5, <2>6, <2>7
<1>5. keyQueues' \in [Keys -> Seq(Txs)]
  <2>1. \A k \in Keys : keyQueues'[k] \in Seq(Txs)
    BY <1>2, <1>3, <1>4
  <2>2. QED
    BY <2>1 DEF PopFrom
<1>6. \A k \in Keys : Sorted(keyQueues'[k])
  BY <1>2, <1>3, <1>4
<1>7. \A k \in Keys : \A i \in 1..Len(keyQueues'[k]) :
          \E j \in 1..Len(keyQueues[k]) : keyQueues'[k][i] = keyQueues[k][j]
  BY <1>3, <1>4
<1>8. Held(t)' = Held(t) \ rel
  BY <1>1, <1>3, <1>4 DEF Held
<1>9. Waits(t)' = {}
  <2> SUFFICES ASSUME NEW k \in Held(t)', Head(keyQueues'[k]) # t
               PROVE  FALSE
    BY DEF Waits
  <2>1. k \in Held(t) /\ k \notin rel /\ keyQueues'[k] = keyQueues[k]
    BY <1>3, <1>8 DEF Held
  <2>2. QED
    BY <1>1, <2>1 DEF Waits
<1>10. Freed(rel, t) = {}
  BY <1>1, <1>4 DEF Freed
<1>11. ASSUME NEW u \in Txs \ {t}
       PROVE  /\ Held(u)' = Held(u)
              /\ Waits(u)' = Waits(u) \ Freed(rel, u)
              /\ Freed(rel, u) \subseteq Waits(u)
  <2>1. \A k \in Keys : InQueue(keyQueues'[k], u) <=> InQueue(keyQueues[k], u)
    BY <1>3, <1>4
  <2>2. Held(u)' = Held(u)
    BY <2>1 DEF Held
  <2>3. Freed(rel, u) \subseteq Waits(u)
    BY <1>4 DEF Freed, Waits, Held
  <2>4. ASSUME NEW k \in Keys
        PROVE  k \in Waits(u)' <=> k \in Waits(u) \ Freed(rel, u)
    <3>1. CASE k \in rel
      BY <1>4, <2>1, <3>1 DEF Waits, Held, Freed
    <3>2. CASE k \notin rel
      BY <1>3, <2>1, <3>2 DEF Waits, Held, Freed
    <3>3. QED
      BY <3>1, <3>2
  <2>5. Waits(u)' \subseteq Keys /\ Waits(u) \subseteq Keys
    BY DEF Waits, Held
  <2>6. QED
    BY <2>2, <2>3, <2>4, <2>5
<1>12. QED
  BY <1>5, <1>6, <1>7, <1>8, <1>9, <1>10, <1>11

\* After the loop every counter is again the number of waits, and the
\* transactions it pushes are exactly those that stopped waiting.
LEMMA ReleaseCount ==
    ASSUME SchedInv, NEW t \in running, NEW rel \in SUBSET Keys,
           \A k \in rel : keyQueues[k] # <<>> /\ Head(keyQueues[k]) = t,
           keyQueues' = PopFrom(rel),
           NEW done \in SUBSET Txs,
           txExecuted \subseteq done, done \subseteq txExecuted \cup {t}
    PROVE  /\ CountAfter(rel, done) \in [Txs -> Int]
           /\ Released(rel, done) \subseteq 1..added \ (txExecuted \cup {t})
           /\ \A u \in 1..added \ (txExecuted \cup {t}) :
                 /\ CountAfter(rel, done)[u] = Cardinality(Waits(u)')
                 /\ u \in Released(rel, done) <=> Waits(u) # {} /\ Waits(u)' = {}
           /\ t \notin done => CountAfter(rel, done)[t] = txReadyCount[t]
<1>1. /\ t \in Txs /\ added \in Nat /\ 1..added \subseteq Txs
      /\ txReadyCount \in [Txs -> Int]
  BY NTxAssumption DEF SchedInv, SchedTypeOK, Txs
<1>2. /\ Freed(rel, t) = {}
      /\ \A u \in Txs \ {t} : /\ Waits(u)' = Waits(u) \ Freed(rel, u)
                              /\ Freed(rel, u) \subseteq Waits(u)
  BY LeaveFront
<1>3. \A u \in Txs : /\ IsFiniteSet(Waits(u)) /\ IsFiniteSet(Freed(rel, u))
                     /\ Cardinality(Waits(u)) \in Nat
                     /\ Cardinality(Freed(rel, u)) \in Nat
  <2>1. \A u \in Txs : Waits(u) \in SUBSET Keys /\ Freed(rel, u) \in SUBSET Keys
    BY DEF Waits, Held, Freed
  <2>2. QED
    BY <2>1, KeysAssumption, FS_Subset, FS_CardinalityType
<1>4. CountAfter(rel, done) \in [Txs -> Int]
  BY <1>1, <1>3 DEF CountAfter
<1>5. \A u \in Txs \ done :
         CountAfter(rel, done)[u] = txReadyCount[u] - Cardinality(Freed(rel, u))
  BY DEF CountAfter
<1>6. ASSUME NEW u \in Txs \ done, Freed(rel, u) = {}
      PROVE  CountAfter(rel, done)[u] = txReadyCount[u] /\ u \notin Released(rel, done)
  <2>1. Cardinality(Freed(rel, u)) = 0
    BY <1>6, FS_EmptySet
  <2>2. txReadyCount[u] \in Int /\ u \in Txs \ done
    BY <1>1
  <2>3. CountAfter(rel, done)[u] = txReadyCount[u]
    BY <1>5, <2>1, <2>2
  <2>4. QED
    BY <2>2, <2>3 DEF Released
<1>7. ASSUME NEW u \in 1..added \ (txExecuted \cup {t})
      PROVE  /\ CountAfter(rel, done)[u] = Cardinality(Waits(u)')
             /\ u \in Released(rel, done) <=> Waits(u) # {} /\ Waits(u)' = {}
  <2>1. u \in Txs \ done /\ u \in Txs \ {t} /\ txReadyCount[u] = Cardinality(Waits(u))
    BY <1>1 DEF SchedInv, ReadyCountExact
  <2>2. /\ Waits(u) \cap Freed(rel, u) = Freed(rel, u)
        /\ Waits(u)' = Waits(u) \ Freed(rel, u)
    BY <1>2, <2>1
  <2>3. /\ IsFiniteSet(Waits(u)')
        /\ Cardinality(Waits(u)') = Cardinality(Waits(u)) - Cardinality(Freed(rel, u))
    <3>1. /\ IsFiniteSet(Waits(u) \ Freed(rel, u))
          /\ Cardinality(Waits(u) \ Freed(rel, u))
                = Cardinality(Waits(u)) - Cardinality(Waits(u) \cap Freed(rel, u))
      BY <1>3, <2>1, FS_Difference, Zenon
    <3>2. QED
      BY <2>2, <3>1, Zenon
  <2>4. CountAfter(rel, done)[u] = Cardinality(Waits(u)')
    BY <1>5, <2>1, <2>3
  <2>5. Cardinality(Waits(u)') \in Nat
    BY <2>3, FS_CardinalityType
  <2>6. /\ Cardinality(Waits(u)) = 0 <=> Waits(u) = {}
        /\ Cardinality(Waits(u)') = 0 <=> Waits(u)' = {}
    BY <1>3, <2>1, <2>3, FS_EmptySet
  <2>7. u \in Released(rel, done)
           <=> Cardinality(Waits(u)) > 0 /\ Cardinality(Waits(u)') <= 0
    BY <2>1, <2>4 DEF Released
  <2>8. QED
    BY <1>3, <2>1, <2>4, <2>5, <2>6, <2>7
<1>8. ASSUME NEW u \in Txs \ 1..added
      PROVE  u \notin Released(rel, done)
  <2>1. Waits(u) = {}
    BY <1>8 DEF SchedInv, Waits, Held, InQueue
  <2>2. u # t
    BY <1>8 DEF SchedInv
  <2>3. Freed(rel, u) = {}
    BY <1>2, <2>1, <2>2
  <2>4. QED
    BY <1>6, <2>3 DEF Released
<1>9. t \notin Released(rel, done)
  BY <1>1, <1>2, <1>6 DEF Released
<1>10. Released(rel, done) \subseteq 1..added \ (txExecuted \cup {t})
  <2>1. Released(rel, done) \subseteq Txs \ done
    BY DEF Released
  <2>2. QED
    BY <1>8, <1>9, <2>1
<1>11. QED
  BY <1>1, <1>2, <1>4, <1>6, <1>7, <1>10, Zenon
-----------------------------------------------------------------------------
(* The inductive invariant *)

\* Execute, Abort and Prune all preserve the invariant: they differ in
\* whether t is finished and in which queue the released ones are pushed to.
LEMMA ReleaseInv ==
    ASSUME SchedInv, NEW t \in running, NEW rel \in SUBSET Keys,
           \A k \in rel : keyQueues[k] # <<>> /\ Head(keyQueues[k]) = t,
           NEW done \in SUBSET Txs,
           txExecuted \subseteq done, done \subseteq txExecuted \cup {t},
           t \in done => Held(t) \subseteq rel,
           added' = added, txKeyMap' = txKeyMap,
           keyQueues' = PopFrom(rel),
           txReadyCount' = CountAfter(rel, done),
           txExecuted' = done,
           running' = running \ done,
           \/ /\ readyQueue' = readyQueue \cup Released(rel, done)
              /\ pruneReadyQueue' = pruneReadyQueue
           \/ /\ readyQueue' = readyQueue
              /\ pruneReadyQueue' = pruneReadyQueue
                                      \cup (Released(rel, done) \ readyQueue)
    PROVE  SchedInv'
<1> DEFINE Out == readyQueue \cup pruneReadyQueue \cup running
           Rel == Released(rel, done)
<1>1. /\ SchedTypeOK /\ OneWorkerPerTx /\ ReadyCountExact
      /\ Out \cup txExecuted \subseteq 1..added
      /\ \A u \in 1..added \ txExecuted : u \in Out <=> Waits(u) = {}
      /\ added \in Nat /\ 1..added \subseteq Txs
      /\ t \in Txs /\ t \notin txExecuted
  BY NTxAssumption, SMTT(30) DEF SchedInv, SchedTypeOK, OneWorkerPerTx, Txs
<1>2. /\ CountAfter(rel, done) \in [Txs -> Int]
      /\ Rel \subseteq 1..added \ (txExecuted \cup {t})
      /\ \A u \in 1..added \ (txExecuted \cup {t}) :
            /\ CountAfter(rel, done)[u] = Cardinality(Waits(u)')
            /\ u \in Rel <=> Waits(u) # {} /\ Waits(u)' = {}
      /\ t \notin done => CountAfter(rel, done)[t] = txReadyCount[t]
  BY ReleaseCount
<1>3. /\ keyQueues' \in [Keys -> Seq(Txs)]
      /\ \A k \in Keys : Sorted(keyQueues'[k])
      /\ \A k \in Keys : \A i \in 1..Len(keyQueues'[k]) :
            \E j \in 1..Len(keyQueues[k]) : keyQueues'[k][i] = keyQueues[k][j]
      /\ Held(t)' = Held(t) \ rel
      /\ Waits(t)' = {}
      /\ \A u \in Txs \ {t} : Waits(u)' \subseteq Waits(u)
  BY LeaveFront
<1>4. Rel \cap Out = {}
  BY <1>1, <1>2
<1>5. /\ readyQueue' \cup pruneReadyQueue' = readyQueue \cup pruneReadyQueue \cup Rel
      /\ readyQueue' \cap pruneReadyQueue' = {}
  BY <1>1, <1>4 DEF OneWorkerPerTx
<1> HIDE DEF Rel
<1>6. SchedTypeOK'
  <2>1. /\ readyQueue' \subseteq Txs /\ pruneReadyQueue' \subseteq Txs
        /\ running' \subseteq Txs
    BY <1>1, <1>2, <1>5, Zenon DEF SchedTypeOK
  <2>2. QED
    BY <1>1, <1>2, <1>3, <2>1 DEF SchedTypeOK
<1>7. \A k \in Keys : \A i \in 1..Len(keyQueues'[k]) :
          /\ keyQueues'[k][i] \in 1..added \ done
          /\ k \in txKeyMap[keyQueues'[k][i]]
  <2> SUFFICES ASSUME NEW k \in Keys, NEW i \in 1..Len(keyQueues'[k])
               PROVE  /\ keyQueues'[k][i] \in 1..added \ done
                      /\ k \in txKeyMap[keyQueues'[k][i]]
    OBVIOUS
  <2>1. /\ keyQueues'[k][i] \in 1..added \ txExecuted
        /\ k \in txKeyMap[keyQueues'[k][i]]
    BY <1>3 DEF SchedInv
  <2>2. t \in done => keyQueues'[k][i] # t
    <3> SUFFICES ASSUME t \in done, keyQueues'[k][i] = t
                 PROVE  FALSE
      OBVIOUS
    <3>1. k \in Held(t)'
      BY DEF Held, InQueue
    <3>2. Held(t)' = {}
      BY <1>3
    <3>3. QED
      BY <3>1, <3>2
  <2>3. QED
    BY <2>1, <2>2
<1>8. readyQueue' \cup pruneReadyQueue' \cup running' \cup done \subseteq 1..added
  <2>1. readyQueue' \cup pruneReadyQueue' \subseteq 1..added
    BY <1>1, <1>2, <1>5, Zenon
  <2>2. running' \subseteq 1..added
    BY <1>1
  <2>3. done \subseteq 1..added
    BY <1>1
  <2>4. QED
    BY <2>1, <2>2, <2>3
<1>9. OneWorkerPerTx'
  BY <1>1, <1>2, <1>4, <1>5 DEF OneWorkerPerTx
<1>10. ASSUME NEW u \in 1..added \ done
       PROVE  /\ CountAfter(rel, done)[u] = Cardinality(Waits(u)')
              /\ u \in readyQueue' \cup pruneReadyQueue' \cup running'
                    <=> Waits(u)' = {}
  <2>1. CASE u = t
    <3>1. CountAfter(rel, done)[t] = 0
      <4>1. CountAfter(rel, done)[t] = txReadyCount[t]
        BY <1>2, <2>1
      <4>2. txReadyCount[t] = Cardinality(Waits(t)) /\ Waits(t) = {}
        BY <1>1 DEF ReadyCountExact
      <4>3. QED
        BY <4>1, <4>2, FS_EmptySet
    <3>2. t \in running'
      BY <2>1
    <3>3. Cardinality(Waits(t)') = 0
      BY <1>3, FS_EmptySet
    <3>4. QED
      BY <1>3, <2>1, <3>1, <3>2, <3>3, Zenon
  <2>2. CASE u # t
    <3>1. u \in 1..added \ (txExecuted \cup {t}) /\ u \in Txs \ {t}
      BY <1>1, <2>2
    <3>2. u \in readyQueue' \cup pruneReadyQueue' \cup running'
             <=> u \in Out \/ u \in Rel
      BY <1>5, <2>2
    <3>3. u \in Rel <=> Waits(u) # {} /\ Waits(u)' = {}
      BY <1>2, <3>1
    <3>4. u \in Out <=> Waits(u) = {}
      BY <1>1, <3>1
    <3>5. Waits(u) = {} => Waits(u)' = {}
      BY <1>3, <3>1
    <3>6. QED
      BY <1>2, <3>1, <3>2, <3>3, <3>4, <3>5, SMTT(30)
  <2>3. QED
    BY <2>1, <2>2
<1>11. ReadyCountExact'
  BY <1>10, SMTT(30) DEF ReadyCountExact
<1>12. QED
  BY <1>3, <1>6, <1>7, <1>8, <1>9, <1>10, <1>11, SMTT(30) DEF SchedInv

\* addTransaction preserves the invariant: the new transaction is last in
\* its queues, so nobody else's waits change.
LEMMA AddInv ==
    ASSUME SchedInv, NEW t \in Txs, NEW ks \in SUBSET Keys, addTransaction(t, ks)
    PROVE  SchedInv'
<1>1. /\ SchedTypeOK /\ OneWorkerPerTx /\ ReadyCountExact
      /\ added \in Nat /\ 1..added \subseteq Txs /\ t = added + 1
      /\ t \notin 1..added /\ 1..t = 1..added \cup {t}
      /\ readyQueue \cup pruneReadyQueue \cup running \cup txExecuted \subseteq 1..added
  BY NTxAssumption DEF SchedInv, SchedTypeOK, addTransaction, Txs
<1>2. \A k \in Keys : /\ keyQueues[k] \in Seq(Txs) /\ Sorted(keyQueues[k])
                      /\ \A i \in 1..Len(keyQueues[k]) :
                            /\ keyQueues[k][i] \in 1..added \ txExecuted
                            /\ k \in txKeyMap[keyQueues[k][i]]
                            /\ keyQueues[k][i] < t
  BY <1>1 DEF SchedInv, SchedTypeOK
<1>3. \A k \in Keys : keyQueues'[k] = IF k \in ks THEN Push(keyQueues[k], t)
                                      ELSE keyQueues[k]
  BY DEF addTransaction
<1>4. ASSUME NEW k \in ks
      PROVE  /\ k \in Keys
             /\ keyQueues'[k] \in Seq(Txs)
             /\ Sorted(keyQueues'[k])
             /\ \A i \in 1..Len(keyQueues'[k]) :
                   /\ keyQueues'[k][i] \in 1..t \ txExecuted
                   /\ k \in txKeyMap'[keyQueues'[k][i]]
             /\ \A u \in Txs : InQueue(keyQueues'[k], u)
                                  <=> (InQueue(keyQueues[k], u) \/ u = t)
             /\ Front(Push(keyQueues[k], t)) = Head(keyQueues'[k])
             /\ keyQueues[k] # <<>> => /\ Head(keyQueues'[k]) = Head(keyQueues[k])
                                       /\ Head(keyQueues[k]) # t
             /\ keyQueues[k] = <<>> => Head(keyQueues'[k]) = t
  <2> DEFINE q == keyQueues[k]
  <2>1. k \in Keys /\ q \in Seq(Txs) /\ Sorted(q) /\ \A i \in 1..Len(q) : q[i] < t
    BY <1>2
  <2>2. keyQueues'[k] = Push(q, t)
    BY <1>3, Zenon
  <2>3. /\ Push(q, t) \in Seq(Txs)
        /\ Sorted(Push(q, t))
        /\ Len(Push(q, t)) = Len(q) + 1
        /\ \A i \in 1..Len(q) : Push(q, t)[i] = q[i]
        /\ Push(q, t)[Len(q) + 1] = t
        /\ \A u \in Txs : InQueue(Push(q, t), u) <=> (InQueue(q, u) \/ u = t)
        /\ Front(Push(q, t)) = Head(Push(q, t))
        /\ q # <<>> => Head(Push(q, t)) = Head(q) /\ Head(q) # t
        /\ q = <<>> => Head(Push(q, t)) = t
    BY <2>1, PushQueue
  <2>4. txKeyMap' = [txKeyMap EXCEPT ![t] = ks] /\ txKeyMap \in [Txs -> SUBSET Keys]
    BY <1>1 DEF addTransaction, SchedTypeOK
  <2>5. \A i \in 1..Len(q) : q[i] \in 1..added \ txExecuted /\ k \in txKeyMap[q[i]]
    BY <1>2
  <2> DEFINE p == Push(q, t)
  <2> HIDE DEF q, p
  <2>6. ASSUME NEW i \in 1..Len(p)
        PROVE  p[i] \in 1..t \ txExecuted /\ k \in txKeyMap'[p[i]]
    <3>1. Len(q) \in Nat /\ Len(p) = Len(q) + 1
      BY <2>1, <2>3 DEF p
    <3>2. CASE i \in 1..Len(q)
      <4>1. p[i] = q[i]
        BY <2>3, <3>2 DEF p
      <4>2. QED
        BY <1>1, <2>4, <2>5, <3>2, <4>1
    <3>3. CASE i = Len(q) + 1
      <4>1. p[i] = t
        BY <2>3, <3>3 DEF p
      <4>2. t \notin txExecuted /\ t \in 1..t
        BY <1>1
      <4>3. QED
        BY <2>4, <4>1, <4>2
    <3>4. QED
      BY <3>1, <3>2, <3>3
  <2>7. keyQueues'[k] = p /\ keyQueues[k] = q
    BY <2>2 DEF p, q
  <2>8. \A i \in 1..Len(keyQueues'[k]) : /\ keyQueues'[k][i] \in 1..t \ txExecuted
                                         /\ k \in txKeyMap'[keyQueues'[k][i]]
    BY <2>6, <2>7
  <2>9. keyQueues'[k] \in Seq(Txs) /\ Sorted(keyQueues'[k])
    BY <2>3, <2>7 DEF p
  <2>10. \A u \in Txs : InQueue(keyQueues'[k], u)
                          <=> (InQueue(keyQueues[k], u) \/ u = t)
    BY <2>3, <2>7 DEF p
  <2>11. /\ Front(Push(keyQueues[k], t)) = Head(keyQueues'[k])
         /\ keyQueues[k] # <<>> => /\ Head(keyQueues'[k]) = Head(keyQueues[k])
                                   /\ Head(keyQueues[k]) # t
         /\ keyQueues[k] = <<>> => Head(keyQueues'[k]) = t
    BY <2>3, <2>7 DEF p
  <2>12. QED
    BY <2>1, <2>8, <2>9, <2>10, <2>11
<1>5. \A u \in 1..added : Waits(u)' = Waits(u)
  <2> SUFFICES ASSUME NEW u \in 1..added, NEW k \in Keys
               PROVE  (InQueue(keyQueues'[k], u) /\ Head(keyQueues'[k]) # u)
                         <=> (InQueue(keyQueues[k], u) /\ Head(keyQueues[k]) # u)
    BY DEF Waits, Held
  <2>1. CASE k \in ks
    <3>1. InQueue(keyQueues'[k], u) <=> InQueue(keyQueues[k], u)
      BY <1>1, <1>4, <2>1
    <3>2. InQueue(keyQueues[k], u) => keyQueues[k] # <<>>
      BY DEF InQueue
    <3>3. QED
      BY <1>4, <2>1, <3>1, <3>2
  <2>2. CASE k \notin ks
    BY <1>3, <2>2
  <2>3. QED
    BY <2>1, <2>2
<1>6. Waits(t)' = {k \in ks : Front(Push(keyQueues[k], t)) # t}
  <2>1. \A k \in Keys \ ks : ~InQueue(keyQueues'[k], t)
    BY <1>1, <1>2, <1>3 DEF InQueue
  <2>2. \A k \in ks : InQueue(keyQueues'[k], t)
    BY <1>4
  <2>3. \A k \in ks : Front(Push(keyQueues[k], t)) = Head(keyQueues'[k])
    BY <1>4
  <2>4. QED
    BY <2>1, <2>2, <2>3, SMTT(30) DEF Waits, Held
<1>7. IsFiniteSet(Waits(t)') /\ Cardinality(Waits(t)') \in Nat
  <2>1. Waits(t)' \subseteq Keys
    BY <1>6
  <2>2. QED
    BY <2>1, KeysAssumption, FS_Subset, FS_CardinalityType
<1>8. /\ txReadyCount' = [txReadyCount EXCEPT ![t] = Cardinality(Waits(t)')]
      /\ readyQueue' = IF Waits(t)' = {} THEN readyQueue \cup {t} ELSE readyQueue
      /\ UNCHANGED <<txExecuted, pruneReadyQueue, running>>
      /\ added' = t
      /\ txKeyMap' = [txKeyMap EXCEPT ![t] = ks]
  BY <1>6, Zenon DEF addTransaction
<1>9. /\ keyQueues' \in [Keys -> Seq(Txs)]
      /\ \A k \in Keys : Sorted(keyQueues'[k])
      /\ \A k \in Keys : \A i \in 1..Len(keyQueues'[k]) :
            /\ keyQueues'[k][i] \in 1..t \ txExecuted
            /\ k \in txKeyMap'[keyQueues'[k][i]]
  <2> SUFFICES ASSUME NEW k \in Keys
               PROVE  /\ keyQueues'[k] \in Seq(Txs)
                      /\ Sorted(keyQueues'[k])
                      /\ \A i \in 1..Len(keyQueues'[k]) :
                            /\ keyQueues'[k][i] \in 1..t \ txExecuted
                            /\ k \in txKeyMap'[keyQueues'[k][i]]
    BY DEF addTransaction
  <2>1. CASE k \in ks
    BY <1>4, <2>1
  <2>2. CASE k \notin ks
    <3>1. \A u \in 1..added : txKeyMap'[u] = txKeyMap[u]
      BY <1>1, <1>8 DEF SchedTypeOK
    <3>2. QED
      BY <1>1, <1>2, <1>3, <2>2, <3>1
  <2>3. QED
    BY <2>1, <2>2, Zenon
<1>10. SchedTypeOK'
  <2>1. txReadyCount' \in [Txs -> Int] /\ txKeyMap' \in [Txs -> SUBSET Keys]
    BY <1>1, <1>7, <1>8 DEF SchedTypeOK
  <2>2. added' \in 0..NTx
    BY <1>8, NTxAssumption DEF Txs
  <2>3. QED
    BY <1>1, <1>8, <1>9, <2>1, <2>2 DEF SchedTypeOK
<1>11. OneWorkerPerTx'
  BY <1>1, <1>8 DEF OneWorkerPerTx
<1>12. readyQueue' \cup pruneReadyQueue' \cup running' \cup txExecuted' \subseteq 1..t
  BY <1>1, <1>8
<1>13. ASSUME NEW u \in 1..t \ txExecuted
       PROVE  /\ txReadyCount'[u] = Cardinality(Waits(u)')
              /\ u \in readyQueue' \cup pruneReadyQueue' \cup running'
                    <=> Waits(u)' = {}
  <2>1. CASE u = t
    BY <1>1, <1>8, <2>1 DEF SchedTypeOK
  <2>2. CASE u \in 1..added
    <3>1. txReadyCount'[u] = txReadyCount[u]
      BY <1>1, <1>8, <2>2, SMTT(30) DEF SchedTypeOK
    <3>2. u \in readyQueue' <=> u \in readyQueue
      BY <1>1, <1>8, <2>2, SMTT(30)
    <3>3. /\ txReadyCount[u] = Cardinality(Waits(u))
          /\ u \in readyQueue \cup pruneReadyQueue \cup running <=> Waits(u) = {}
      BY <1>13, <2>2 DEF SchedInv, ReadyCountExact
    <3>4. QED
      BY <1>5, <1>8, <2>2, <3>1, <3>2, <3>3, SMTT(30)
  <2>3. QED
    BY <1>1, <2>1, <2>2
<1>14. ReadyCountExact'
  BY <1>8, <1>13 DEF ReadyCountExact
<1>15. QED
  BY <1>8, <1>9, <1>10, <1>11, <1>12, <1>13, <1>14, SMTT(30) DEF SchedInv

\* SchedInv holds of a new scheduler.
LEMMA SchedInitInv == SchedInit => SchedInv
<1> SUFFICES ASSUME SchedInit PROVE SchedInv
  OBVIOUS
<1>1. \A k \in Keys : keyQueues[k] = <<>>
  BY DEF SchedInit
<1>2. SchedTypeOK
  BY NTxAssumption DEF SchedInit, SchedTypeOK
<1>3. 1..added = {}
  BY DEF SchedInit
<1>4. QED
  BY <1>1, <1>2, <1>3
     DEF SchedInit, SchedInv, OneWorkerPerTx, ReadyCountExact, Sorted

\* Every action keeps SchedInv.
LEMMA SchedStepInv == SchedInv /\ [SchedNext]_schedVars => SchedInv'
<1> SUFFICES ASSUME SchedInv, [SchedNext]_schedVars
             PROVE  SchedInv'
  OBVIOUS
<1>1. ASSUME NEW t \in Txs, NEW ks \in SUBSET Keys, addTransaction(t, ks)
      PROVE  SchedInv'
  BY <1>1, AddInv
<1>2. ASSUME NEW t \in Txs, PopReady(t) \/ PopPruneReady(t)
      PROVE  SchedInv'
  <2>1. UNCHANGED <<added, txKeyMap, keyQueues, txReadyCount, txExecuted>>
    BY <1>2 DEF PopReady, PopPruneReady
  <2>2. /\ readyQueue' \cup pruneReadyQueue' \cup running'
              = readyQueue \cup pruneReadyQueue \cup running
        /\ readyQueue' \subseteq readyQueue
        /\ pruneReadyQueue' \subseteq pruneReadyQueue
        /\ running' = running \cup {t}
    BY <1>2 DEF PopReady, PopPruneReady
  <2>3. OneWorkerPerTx'
    BY <1>2, <2>1 DEF SchedInv, OneWorkerPerTx, PopReady, PopPruneReady
  <2>4. SchedTypeOK'
    BY <2>1, <2>2 DEF SchedInv, SchedTypeOK
  <2>5. \A u : Waits(u)' = Waits(u)
    BY <2>1, Zenon DEF Waits, Held
  <2>6. QED
    BY <2>1, <2>2, <2>3, <2>4, <2>5, Zenon DEF SchedInv, ReadyCountExact
<1>3. ASSUME NEW t \in running, NEW ks \in SUBSET Keys, Prune(t, ks)
      PROVE  SchedInv'
  <2> DEFINE spurious == {k \in txKeyMap[t] \ ks : InQueue(keyQueues[k], t)}
             rel == {k \in spurious : Front(keyQueues[k]) = t}
  <2>1. t \in Txs /\ txKeyMap[t] \in SUBSET Keys /\ t \notin txExecuted
    BY RunningAtFront DEF SchedInv, SchedTypeOK
  <2>2. \A k \in spurious : /\ k \in Keys
                            /\ keyQueues[k] # <<>>
                            /\ Head(keyQueues[k]) = t
                            /\ Front(keyQueues[k]) = t
    BY <2>1, RunningAtFront DEF Held
  <2>3. rel = spurious /\ rel \in SUBSET Keys
    BY <2>2
  <2>4. \A k \in rel : Remove(keyQueues[k], t) = Tail(keyQueues[k])
    <3> SUFFICES ASSUME NEW k \in rel
                 PROVE  Remove(keyQueues[k], t) = Tail(keyQueues[k])
      OBVIOUS
    <3>1. /\ keyQueues[k] \in Seq(Txs) /\ Sorted(keyQueues[k])
          /\ keyQueues[k] # <<>> /\ Head(keyQueues[k]) = t
      BY <2>2, <2>3, Zenon DEF SchedInv, SchedTypeOK
    <3>2. QED
      BY <3>1, RemoveFront, Zenon
  <2>5. keyQueues' = PopFrom(rel)
    BY <1>3, <2>3, <2>4, Zenon DEF Prune, PopFrom
  <2>6. /\ txReadyCount' = CountAfter(rel, txExecuted)
        /\ pruneReadyQueue' = pruneReadyQueue
                                \cup (Released(rel, txExecuted) \ readyQueue)
        /\ UNCHANGED <<added, txKeyMap, txExecuted, readyQueue, running>>
    BY <1>3 DEF Prune
  <2>7. running = running \ txExecuted /\ txExecuted \in SUBSET Txs
    BY DEF SchedInv, SchedTypeOK, OneWorkerPerTx
  <2>8. \A k \in rel : keyQueues[k] # <<>> /\ Head(keyQueues[k]) = t
    BY <2>2
  <2> HIDE DEF rel
  <2>9. QED
    BY <2>1, <2>3, <2>5, <2>6, <2>7, <2>8, ReleaseInv, SMTT(30)
<1>4. ASSUME NEW t \in running, Execute(t) \/ Abort(t)
      PROVE  SchedInv'
  <2> DEFINE rel  == FrontKeys(t)
             done == txExecuted \cup {t}
  <2>1. /\ t \in Txs /\ txKeyMap[t] \in SUBSET Keys
        /\ txExecuted \in SUBSET Txs /\ running \cap txExecuted = {}
    BY RunningAtFront DEF SchedInv, SchedTypeOK, OneWorkerPerTx
  <2>2. rel \in SUBSET Keys /\ Held(t) \subseteq rel
    BY <2>1, RunningAtFront DEF FrontKeys
  <2>3. \A k \in rel : keyQueues[k] # <<>> /\ Head(keyQueues[k]) = t
    BY <2>1 DEF FrontKeys, Front, None, Txs
  <2>4. done \in SUBSET Txs /\ running \ {t} = running \ done
    BY <2>1
  <2>5. /\ txExecuted' = done
        /\ keyQueues' = PopFrom(rel)
        /\ txReadyCount' = CountAfter(rel, done)
        /\ running' = running \ done
        /\ added' = added /\ txKeyMap' = txKeyMap
        /\ \/ /\ readyQueue' = readyQueue \cup Released(rel, done)
              /\ pruneReadyQueue' = pruneReadyQueue
           \/ /\ readyQueue' = readyQueue
              /\ pruneReadyQueue' = pruneReadyQueue
                                      \cup (Released(rel, done) \ readyQueue)
    BY <1>4, <2>4 DEF Execute, Abort
  <2>6. txExecuted \subseteq done
    OBVIOUS
  <2>7. done \subseteq txExecuted \cup {t}
    OBVIOUS
  <2> HIDE DEF rel, done
  <2>8. QED
    BY <2>2, <2>3, <2>4, <2>5, <2>6, <2>7, ReleaseInv, SMTT(30)
<1>5. ASSUME UNCHANGED schedVars
      PROVE  SchedInv'
  <2>1. \A u : Waits(u)' = Waits(u)
    BY <1>5 DEF Waits, Held, schedVars
  <2>2. QED
    BY <1>5, <2>1
       DEF SchedInv, schedVars, SchedTypeOK, OneWorkerPerTx, ReadyCountExact
<1>6. QED
  BY <1>1, <1>2, <1>3, <1>4, <1>5 DEF SchedNext

\* SchedInv is inductive: it holds initially and every action keeps it.
THEOREM SchedInvariance == SchedSpec => []SchedInv
<1>1. QED
  BY SchedInitInv, SchedStepInv, PTL DEF SchedSpec

-----------------------------------------------------------------------------
(* What follows from the invariant *)

\* For any block and any keys: the counters of the scheduler never drift.
THEOREM CountersExact == SchedSpec => []ReadyCountExact
<1>1. SchedInv => ReadyCountExact
  BY DEF SchedInv
<1>2. QED
  BY <1>1, SchedInvariance, PTL

\* For any block and any keys: a transaction is handed to one worker at a time.
THEOREM SingleWorker == SchedSpec => []OneWorkerPerTx
<1>1. SchedInv => OneWorkerPerTx
  BY DEF SchedInv
<1>2. QED
  BY <1>1, SchedInvariance, PTL

\* Running transactions are at the front of the queues they are in, and a
\* queue has one front.
LEMMA InvKeyExclusion == SchedInv => KeyExclusion
<1> SUFFICES ASSUME SchedInv, NEW t \in running, NEW u \in running, t # u,
                    NEW k \in Held(t) \cap Held(u)
             PROVE  FALSE
  BY DEF KeyExclusion
<1>1. Head(keyQueues[k]) = t
  BY RunningAtFront
<1>2. Head(keyQueues[k]) = u
  BY RunningAtFront, SMTT(30)
<1>3. QED
  BY <1>1, <1>2

\* For any block and any keys: concurrent workers hold disjoint key sets.
THEOREM WorkersExclude == SchedSpec => []KeyExclusion
<1>1. QED
  BY InvKeyExclusion, SchedInvariance, PTL

\* For any block and any keys: Execute and Abort leave no entry of a finished
\* transaction in any queue.
THEOREM QueuesClean == SchedSpec => []NothingLeftBehind
<1>1. SchedInv => NothingLeftBehind
  BY DEF SchedInv, NothingLeftBehind, Held, InQueue
<1>2. QED
  BY <1>1, SchedInvariance, PTL

\* A nonempty set of naturals has a least element.
LEMMA LeastElement ==
    ASSUME NEW S \in SUBSET Nat, S # {}
    PROVE  \E x \in S : \A y \in S : x <= y
<1>1. PICK x \in S : \A y \in S : ~(<<y, x>> \in OpToRel(<, Nat))
  BY NatLessThanWellFounded, WFMin, Zenon
<1>2. \A y \in S : ~(y < x)
  BY <1>1, Zenon DEF OpToRel
<1>3. QED
  BY <1>2

\* The unfinished transaction with the smallest TxID waits for nobody.
LEMMA InvNoStall == SchedInv => NoStall
<1> SUFFICES ASSUME SchedInv,
                    readyQueue \cup pruneReadyQueue \cup running = {},
                    1..added \ txExecuted # {}
             PROVE  FALSE
  BY Zenon DEF NoStall, SchedInv
<1>1. added \in Nat /\ 1..added \ txExecuted \in SUBSET Nat
  BY DEF SchedInv, SchedTypeOK
<1>2. PICK x \in 1..added \ txExecuted :
               \A y \in 1..added \ txExecuted : x <= y
  BY <1>1, LeastElement, Zenon
<1>3. ASSUME NEW k \in Held(x)
      PROVE  Head(keyQueues[k]) = x
  <2>1. k \in Keys /\ keyQueues[k] \in Seq(Txs) /\ Sorted(keyQueues[k])
    BY DEF Held, SchedInv, SchedTypeOK
  <2>2. PICK i \in 1..Len(keyQueues[k]) : keyQueues[k][i] = x
    BY DEF Held, InQueue
  <2>3. /\ 1 \in 1..Len(keyQueues[k])
        /\ Head(keyQueues[k]) = keyQueues[k][1]
        /\ keyQueues[k][1] \in 1..added \ txExecuted
    BY <2>1, <2>2 DEF SchedInv
  <2>4. i = 1 \/ keyQueues[k][1] < keyQueues[k][i]
    BY <2>1, <2>2, <2>3 DEF Sorted
  <2>5. QED
    BY <1>1, <1>2, <2>2, <2>3, <2>4
<1>4. Waits(x) = {}
  BY <1>3 DEF Waits
<1>5. QED
  BY <1>2, <1>4 DEF SchedInv

\* For any block and any keys: the scheduler never stalls.  The unfinished
\* transaction with the least TxID is at the front of all its queues.
THEOREM NeverStalls == SchedSpec => []NoStall
<1>1. QED
  BY InvNoStall, SchedInvariance, PTL

\* A transaction that waits for nobody shares no key with a smaller TxID.
LEMMA FirstInOrder ==
    ASSUME SchedInv, NEW t \in Txs, Waits(t) = {}, NEW u \in 1..(t - 1)
    PROVE  Held(u) \cap Held(t) = {}
<1> SUFFICES ASSUME NEW k \in Held(u) \cap Held(t) PROVE FALSE
  OBVIOUS
<1>1. k \in Keys /\ keyQueues[k] \in Seq(Txs) /\ Sorted(keyQueues[k])
  BY DEF Held, SchedInv, SchedTypeOK
<1>2. PICK i \in 1..Len(keyQueues[k]) : keyQueues[k][i] = u
  BY DEF Held, InQueue
<1>3. Head(keyQueues[k]) = t /\ Head(keyQueues[k]) = keyQueues[k][1]
      /\ 1 \in 1..Len(keyQueues[k])
  BY <1>1, <1>2 DEF Waits
<1>4. i = 1 \/ keyQueues[k][1] < keyQueues[k][i]
  BY <1>1, <1>2, <1>3 DEF Sorted
<1>5. QED
  BY <1>2, <1>3, <1>4 DEF Txs

\* addTransaction claims the conservative keys.
LEMMA HeldAfterAdd ==
    ASSUME SchedInv, NEW t \in Txs, NEW ks \in SUBSET Keys, addTransaction(t, ks)
    PROVE  Held(t)' = ks /\ \A u \in Txs \ {t} : Held(u)' = Held(u)
<1>1. \A k \in Keys : keyQueues'[k] = IF k \in ks THEN Push(keyQueues[k], t)
                                      ELSE keyQueues[k]
  BY DEF addTransaction
<1>2. \A k \in Keys : /\ keyQueues[k] \in Seq(Txs) /\ Sorted(keyQueues[k])
                      /\ \A i \in 1..Len(keyQueues[k]) : keyQueues[k][i] < t
  BY NTxAssumption, SMTT(30) DEF SchedInv, SchedTypeOK, addTransaction
<1>3. \A k \in ks : \A u \in Txs :
          InQueue(Push(keyQueues[k], t), u) <=> (InQueue(keyQueues[k], u) \/ u = t)
  BY <1>2, PushQueue
<1>4. \A k \in Keys : ~InQueue(keyQueues[k], t)
  BY <1>2 DEF InQueue, Txs
<1>5. \A k \in Keys : \A u \in Txs :
          InQueue(keyQueues'[k], u) <=> (InQueue(keyQueues[k], u) \/ (u = t /\ k \in ks))
  BY <1>1, <1>3
<1>6. QED
  BY <1>4, <1>5, Zenon DEF Held

\* Prune gives back exactly the keys that were not touched.
LEMMA HeldAfterPrune ==
    ASSUME SchedInv, NEW t \in running, NEW ks \in SUBSET Keys, Prune(t, ks)
    PROVE  /\ Held(t)' = Held(t) \cap ks
           /\ \A u \in Txs \ {t} : Held(u)' = Held(u)
<1> DEFINE spurious == {k \in txKeyMap[t] \ ks : InQueue(keyQueues[k], t)}
<1>1. t \in Txs /\ txKeyMap[t] \in SUBSET Keys
  BY RunningAtFront DEF SchedInv, SchedTypeOK
<1>2. \A k \in spurious : /\ k \in Keys
                          /\ keyQueues[k] # <<>>
                          /\ Head(keyQueues[k]) = t
  BY <1>1, RunningAtFront DEF Held
<1>3. \A k \in spurious : Remove(keyQueues[k], t) = Tail(keyQueues[k])
  <2> SUFFICES ASSUME NEW k \in spurious
               PROVE  Remove(keyQueues[k], t) = Tail(keyQueues[k])
    OBVIOUS
  <2>1. /\ keyQueues[k] \in Seq(Txs) /\ Sorted(keyQueues[k])
        /\ keyQueues[k] # <<>> /\ Head(keyQueues[k]) = t
    BY <1>2, Zenon DEF SchedInv, SchedTypeOK
  <2>2. QED
    BY <2>1, RemoveFront, Zenon
<1>4. keyQueues' = PopFrom(spurious) /\ spurious \in SUBSET Keys
  BY <1>2, <1>3 DEF Prune, PopFrom
<1>5. Held(t) \ spurious = Held(t) \cap ks
  BY <1>1, RunningAtFront, Zenon DEF Held
<1> HIDE DEF spurious
<1>6. /\ Held(t)' = Held(t) \ spurious
      /\ \A u \in Txs \ {t} : Held(u)' = Held(u)
  BY <1>2, <1>4, LeaveFront, SMTT(30)
<1>7. QED
  BY <1>5, <1>6, SMTT(30)

\* Execute and Abort give back all keys of their transaction, and no other.
LEMMA HeldAfterFinish ==
    ASSUME SchedInv, NEW t \in running, Execute(t) \/ Abort(t)
    PROVE  Held(t)' = {} /\ \A u \in Txs \ {t} : Held(u)' = Held(u)
<1>1. keyQueues' = PopFrom(FrontKeys(t))
  BY DEF Execute, Abort
<1>2. t \in Txs /\ txKeyMap[t] \in SUBSET Keys
  BY RunningAtFront DEF SchedInv, SchedTypeOK
<1>3. FrontKeys(t) \in SUBSET Keys /\ Held(t) \subseteq FrontKeys(t)
  BY <1>2, RunningAtFront DEF FrontKeys
<1>4. \A k \in FrontKeys(t) : keyQueues[k] # <<>> /\ Head(keyQueues[k]) = t
  BY <1>2 DEF FrontKeys, Front, None, Txs
<1>5. QED
  BY <1>1, <1>3, <1>4, LeaveFront, SMTT(30)

\* For any block and any keys: the queues and counters of core/Depurge.go
\* implement locking in TxID order.
THEOREM SchedulerImplementsLocks == SchedSpec => ImplementsOrderedLocks
<1> DEFINE held == [t \in Txs |-> Held(t)]
<1>1. SchedInit => Locks!LockInit
  <2> SUFFICES ASSUME SchedInit PROVE Locks!LockInit
    OBVIOUS
  <2>1. \A t \in Txs : Held(t) = {}
    BY DEF SchedInit, Held, InQueue
  <2>2. held = [t \in 1..NTx |-> {}]
    BY <2>1 DEF Txs
  <2>3. QED
    BY <2>2 DEF Locks!LockInit, SchedInit
<1>2. SchedInv /\ SchedInv' /\ [SchedNext]_schedVars => [Locks!LockNext]_Locks!lockVars
  <2> SUFFICES ASSUME SchedInv, SchedInv', [SchedNext]_schedVars
               PROVE  [Locks!LockNext]_Locks!lockVars
    BY Zenon
  <2>0. added \in Nat /\ NTx \in Nat /\ 1..added \subseteq Txs
    BY NTxAssumption DEF SchedInv, SchedTypeOK, Txs
  <2>1. ASSUME NEW t \in Txs, NEW ks \in SUBSET Keys, addTransaction(t, ks)
        PROVE  Locks!LockNext
    <3>1. held' = [held EXCEPT ![t] = ks]
      BY <2>1, HeldAfterAdd, Zenon
    <3>2. Locks!Declare(t, ks)
      BY <2>1, <3>1 DEF Locks!Declare, addTransaction
    <3>3. QED
      BY <3>2 DEF Locks!LockNext, Txs
  <2>2. ASSUME NEW t \in Txs, PopReady(t) \/ PopPruneReady(t)
        PROVE  Locks!LockNext
    <3>1. /\ UNCHANGED <<added, keyQueues, txExecuted>>
          /\ running' = running \cup {t}
          /\ t \in readyQueue \cup pruneReadyQueue
      BY <2>2, Zenon DEF PopReady, PopPruneReady
    <3>2. t \in 1..added \ txExecuted /\ t \notin running /\ Waits(t) = {}
      BY <3>1 DEF SchedInv, OneWorkerPerTx
    <3>3. \A u \in 1..(t - 1) : held[u] \cap held[t] = {}
      BY <2>0, <3>2, FirstInOrder DEF Txs
    <3>4. held' = held
      BY <3>1 DEF Held
    <3>5. Locks!Start(t)
      BY <2>0, <3>1, <3>2, <3>3, <3>4 DEF Locks!Start
    <3>6. QED
      BY <3>5 DEF Locks!LockNext, Txs
  <2>3. ASSUME NEW t \in running, NEW ks \in SUBSET Keys, Prune(t, ks)
        PROVE  Locks!LockNext
    <3>1. t \in Txs
      BY RunningAtFront
    <3>2. held' = [held EXCEPT ![t] = held[t] \ (Keys \ ks)]
      <4>1. Held(t)' = Held(t) \ (Keys \ ks) /\ \A u \in Txs \ {t} : Held(u)' = Held(u)
        BY <2>3, HeldAfterPrune DEF Held
      <4>2. QED
        BY <3>1, <4>1, Zenon
    <3>3. Locks!GiveBack(t, Keys \ ks)
      BY <2>3, <3>2 DEF Locks!GiveBack, Prune
    <3>4. QED
      BY <3>1, <3>3 DEF Locks!LockNext, Txs
  <2>4. ASSUME NEW t \in running, Execute(t) \/ Abort(t)
        PROVE  Locks!LockNext
    <3>1. t \in Txs
      BY RunningAtFront
    <3>2. held' = [held EXCEPT ![t] = {}]
      BY <2>4, <3>1, HeldAfterFinish, Zenon
    <3>3. Locks!Finish(t)
      BY <2>4, <3>2 DEF Locks!Finish, Execute, Abort
    <3>4. QED
      BY <3>1, <3>3 DEF Locks!LockNext, Txs
  <2>5. ASSUME UNCHANGED schedVars
        PROVE  UNCHANGED Locks!lockVars
    BY <2>5 DEF schedVars, Locks!lockVars, Held
  <2>6. QED
    BY <2>1, <2>2, <2>3, <2>4, <2>5 DEF SchedNext
<1>3. QED
  BY <1>1, <1>2, SchedInvariance, PTL
     DEF SchedSpec, ImplementsOrderedLocks, Locks!LockSpec
=============================================================================
