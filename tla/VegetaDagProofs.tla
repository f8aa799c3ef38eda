-------------------------- MODULE VegetaDagProofs --------------------------
(***************************************************************************)
(* Every step of the scheduling half of Vegeta keeps DagInv, and what      *)
(* DagInv says of the transactions of one batch.                           *)
(***************************************************************************)
EXTENDS VegetaDag, WellFoundedInduction, TLAPS

\* A set of natural numbers that is not empty has a least element.
LEMMA LeastOf ==
    ASSUME NEW S \in SUBSET Nat, S # {}
    PROVE  Min(S) \in S /\ \A y \in S : Min(S) <= y
<1>1. PICK x \in S : \A y \in S : ~(<<y, x>> \in OpToRel(<, Nat))
  BY NatLessThanWellFounded, WFMin, Zenon
<1>2. \A y \in S : ~(y < x)
  BY <1>1, Zenon DEF OpToRel
<1>3. \A y \in S : x <= y
  BY <1>2
<1>4. QED
  BY <1>3, Zenon DEF Min

\* A set of numbers up to n that is not empty has a greatest element: the one
\* whose distance to n is least.
LEMMA GreatestOf ==
    ASSUME NEW n \in Nat, NEW S \in SUBSET (0..n), S # {}
    PROVE  Max(S) \in S /\ \A y \in S : y <= Max(S)
<1> DEFINE Distances == {n - x : x \in S}
<1>1. \A x \in S : x \in Nat /\ n - x \in Nat
  OBVIOUS
<1>2. Distances \in SUBSET Nat /\ Distances # {}
  BY <1>1
<1>3. Min(Distances) \in Distances /\ \A d \in Distances : Min(Distances) <= d
  BY <1>2, LeastOf, Zenon
<1>4. PICK x \in S : \A y \in S : n - x <= n - y
  BY <1>3, Zenon
<1>5. \E z \in S : \A y \in S : z >= y
  BY <1>1, <1>4
<1> QED BY <1>5, Zenon DEF Max

\* A one-to-one numbering of a set is a list of its elements, each once.
LEMMA EnumeratesAll ==
    ASSUME NEW S, NEW n \in Nat, NEW s \in Bijection(1..n, S)
    PROVE  s \in Seq(S) /\ Len(s) = n /\ Range(s) = S /\ IsInjective(s)
<1>1. s \in [1..n -> S] /\ IsInjective(s) /\ \A x \in S : \E i \in 1..n : s[i] = x
  BY DEF Bijection, Injection, Surjection
<1>2. s \in Seq(S) /\ Len(s) = n
  BY <1>1
<1>3. Range(s) = S
  BY <1>1 DEF Range
<1>4. QED
  BY <1>1, <1>2, <1>3

\* Concatenation joins the elements.
LEMMA ConcatLists ==
    ASSUME NEW S, NEW s \in Seq(S), NEW r \in Seq(S)
    PROVE  /\ s \o r \in Seq(S)
           /\ Range(s \o r) = Range(s) \cup Range(r)
           /\ IsInjective(s) /\ IsInjective(r) /\ Range(s) \cap Range(r) = {} => IsInjective(s \o r)
<1> DEFINE q == s \o r
<1>1. /\ q \in Seq(S) /\ Len(q) = Len(s) + Len(r)
      /\ \A i \in 1..(Len(s) + Len(r)) : q[i] = IF i <= Len(s) THEN s[i] ELSE r[i - Len(s)]
  OBVIOUS
<1>2. /\ Len(s) \in Nat /\ DOMAIN s = 1..Len(s) /\ Len(r) \in Nat /\ DOMAIN r = 1..Len(r)
      /\ DOMAIN q = 1..(Len(s) + Len(r))
  BY <1>1
<1> HIDE DEF q
<1>3. /\ \A i \in DOMAIN s : i \in DOMAIN q /\ q[i] = s[i]
      /\ \A i \in DOMAIN r : i + Len(s) \in DOMAIN q /\ q[i + Len(s)] = r[i]
      /\ \A i \in DOMAIN q : \/ i \in DOMAIN s /\ q[i] = s[i]
                             \/ i - Len(s) \in DOMAIN r /\ q[i] = r[i - Len(s)]
  <2>1. \A i \in DOMAIN s : i \in DOMAIN q /\ q[i] = s[i]
    BY <1>1, <1>2
  <2>2. ASSUME NEW i \in DOMAIN r PROVE i + Len(s) \in DOMAIN q /\ q[i + Len(s)] = r[i]
    <3>1. i + Len(s) \in 1..(Len(s) + Len(r)) /\ ~(i + Len(s) <= Len(s)) /\ (i + Len(s)) - Len(s) = i
      BY <1>2, <2>2
    <3>2. QED
      BY <1>1, <1>2, <3>1
  <2>3. ASSUME NEW i \in DOMAIN q
        PROVE  \/ i \in DOMAIN s /\ q[i] = s[i]
               \/ i - Len(s) \in DOMAIN r /\ q[i] = r[i - Len(s)]
    BY <1>1, <1>2, <2>3
  <2>4. QED
    BY <2>1, <2>2, <2>3
<1>4. Range(q) = Range(s) \cup Range(r)
  <2>1. ASSUME NEW x \in Range(q) PROVE x \in Range(s) \cup Range(r)
    BY <1>3, <2>1 DEF Range
  <2>2. ASSUME NEW x \in Range(s) PROVE x \in Range(q)
    BY <1>3, <2>2 DEF Range
  <2>3. ASSUME NEW x \in Range(r) PROVE x \in Range(q)
    BY <1>3, <2>3 DEF Range
  <2>4. QED
    BY <2>1, <2>2, <2>3
<1>5. IsInjective(s) /\ IsInjective(r) /\ Range(s) \cap Range(r) = {} => IsInjective(q)
  <2> SUFFICES ASSUME IsInjective(s), IsInjective(r), Range(s) \cap Range(r) = {},
                      NEW i \in DOMAIN q, NEW j \in DOMAIN q, q[i] = q[j]
               PROVE  i = j
    BY DEF IsInjective
  <2>1. \A a \in DOMAIN s, b \in DOMAIN r : s[a] # r[b]
    BY DEF Range
  <2>2. QED
    BY <1>2, <1>3, <2>1 DEF IsInjective
<1>6. QED
  BY <1>1, <1>4, <1>5 DEF q

\* The range lists every TxID once.
LEMMA RangeIsAll ==
    /\ NTx \in Nat /\ NTx > 0 /\ Txs = 1..NTx
    /\ TxOrder \in Seq(Txs) /\ IsInjective(TxOrder) /\ Range(TxOrder) = Txs /\ DOMAIN TxOrder = Txs
<1>1. Len(TxOrder) \in Nat /\ Len(TxOrder) # 0 /\ DOMAIN TxOrder = 1..Len(TxOrder)
  BY VegetaAssumption
<1> QED BY <1>1, EnumeratesAll, VegetaAssumption DEF NTx, Txs

\* The transactions of the first blocks: none at the start, all at the end.
LEMMA UptoBounds ==
    /\ Upto(0) = {}
    /\ \A n \in Nat : Upto(n) \subseteq Txs /\ (n >= NTx => Upto(n) = Txs)
<1>1. Upto(0) = {}
  BY DEF Upto
<1>2. ASSUME NEW n \in Nat PROVE Upto(n) \subseteq Txs
  BY RangeIsAll DEF Upto
<1>3. ASSUME NEW n \in Nat, n >= NTx PROVE Upto(n) = Txs
  <2>1. 1..n \cap Txs = Txs
    BY <1>3, RangeIsAll
  <2> QED BY <2>1, RangeIsAll DEF Upto, Range
<1> QED BY <1>1, <1>2, <1>3

\* The block blockIDs holds the transactions between start and its end.
LEMMA BlockTxs ==
    ASSUME start \in Nat, blockSize \in Nat \ {0}, start < NTx
    PROVE  /\ Range(blockIDs) \subseteq Txs
           /\ Upto(start) \cup Range(blockIDs) = Upto(start + blockSize)
           /\ Upto(start) \cap Range(blockIDs) = {}
           /\ blockIDs \in Seq(Txs)
<1> DEFINE m == start + 1
           n == Min({start + blockSize, NTx})
           D == {i \in Txs : m <= i /\ i <= start + blockSize}
<1>1. n \in {start + blockSize, NTx} /\ n <= start + blockSize /\ n <= NTx
  <2>1. {start + blockSize, NTx} \in SUBSET Nat
    BY RangeIsAll
  <2> QED BY <2>1, LeastOf
<1> HIDE DEF n
<1>2. /\ blockIDs \in Seq(Txs) /\ Len(blockIDs) = n - m + 1
      /\ \A i \in 1..(n - m + 1) : blockIDs[i] = TxOrder[m + i - 1]
  <2>1. m \in Nat /\ n \in Nat /\ m \in 1..(n + 1) /\ n \in 0..NTx
    BY <1>1, RangeIsAll
  <2>2. TxOrder \in Seq(Txs) /\ n \in (m - 1)..Len(TxOrder) /\ m \in 1..(Len(TxOrder) + 1)
    BY <2>1, RangeIsAll DEF NTx
  <2>3. blockIDs = SubSeq(TxOrder, m, n)
    BY DEF blockIDs, n
  <2> HIDE DEF m
  <2>4. /\ SubSeq(TxOrder, m, n) \in Seq(Txs) /\ Len(SubSeq(TxOrder, m, n)) = n - m + 1
        /\ \A i \in 1..(n - m + 1) : SubSeq(TxOrder, m, n)[i] = TxOrder[m + i - 1]
    BY <2>2
  <2> QED BY <2>3, <2>4
<1>3. DOMAIN blockIDs = 1..(n - m + 1)
  BY <1>2
<1>4. Range(blockIDs) = {TxOrder[i] : i \in D}
  <2>1. ASSUME NEW i \in 1..(n - m + 1)
        PROVE  m + i - 1 \in D /\ blockIDs[i] = TxOrder[m + i - 1]
    BY <1>1, <1>2, RangeIsAll
  <2>2. ASSUME NEW i \in D
        PROVE  i - m + 1 \in 1..(n - m + 1) /\ blockIDs[i - m + 1] = TxOrder[i]
    <3>1. i \in Nat /\ i <= n
      BY <1>1, RangeIsAll
    <3>2. i - m + 1 \in 1..(n - m + 1) /\ m + (i - m + 1) - 1 = i
      BY <1>1, <3>1, RangeIsAll
    <3> QED BY <1>2, <3>2
  <2>3. Range(blockIDs) = {blockIDs[i] : i \in 1..(n - m + 1)}
    BY <1>3 DEF Range
  <2>4. ASSUME NEW x \in Range(blockIDs) PROVE x \in {TxOrder[i] : i \in D}
    BY <2>1, <2>3
  <2>5. ASSUME NEW x \in {TxOrder[i] : i \in D} PROVE x \in Range(blockIDs)
    BY <2>2, <2>3
  <2> QED BY <2>4, <2>5
<1>5. /\ 1..(start + blockSize) \cap Txs = (1..start \cap Txs) \cup D
      /\ (1..start) \cap D = {} /\ D \subseteq Txs
  BY RangeIsAll
<1>6. \A i, j \in Txs : TxOrder[i] = TxOrder[j] => i = j
  BY RangeIsAll DEF IsInjective
<1>7. Range(blockIDs) \subseteq Txs
  BY <1>4, <1>5, RangeIsAll
<1>8. Upto(start) \cup Range(blockIDs) = Upto(start + blockSize)
  BY <1>4, <1>5 DEF Upto
<1>9. Upto(start) \cap Range(blockIDs) = {}
  BY <1>4, <1>5, <1>6 DEF Upto
<1> QED BY <1>2, <1>7, <1>8, <1>9

\* A chain order lists the transactions of the block, each once.
LEMMA ChainOrderLists ==
    ASSUME start \in Nat, blockSize \in Nat \ {0}, start < NTx, NEW s \in ChainOrders
    PROVE  s \in Seq(Txs) /\ IsInjective(s) /\ Range(s) = Range(blockIDs)
<1>1. Range(blockIDs) \subseteq Txs /\ Len(blockIDs) \in Nat /\ DOMAIN blockIDs = 1..Len(blockIDs)
  BY BlockTxs
<1>2. s \in Bijection(1..Len(blockIDs), Range(blockIDs))
  BY <1>1 DEF ChainOrders
<1>3. s \in Seq(Range(blockIDs)) /\ Range(s) = Range(blockIDs) /\ IsInjective(s)
  BY <1>1, <1>2, EnumeratesAll, Zenon
<1>4. s \in Seq(Txs)
  BY <1>1, <1>3
<1> QED BY <1>3, <1>4

-----------------------------------------------------------------------------
(* The steps *)

\* The speculative sets and the block size chosen at the start satisfy DagInv.
LEMMA DagInitInv == DagInit => DagInv
<1> SUFFICES ASSUME DagInit PROVE DagInv
  OBVIOUS
<1>1. specRS \in [Txs -> SUBSET Keys] /\ specWS \in [Txs -> SUBSET Keys]
  <2>1. PICK spec \in [Txs -> SpecSets] :
           specRS = [t \in Txs |-> spec[t][1]] /\ specWS = [t \in Txs |-> spec[t][2]]
    BY DEF DagInit
  <2>2. \A t \in Txs : spec[t] \in (SUBSET Keys) \X (SUBSET Keys)
    BY <2>1, VegetaAssumption
  <2> QED BY <2>1, <2>2
<1>2. blockSize \in Nat \ {0}
  BY RangeIsAll, VegetaAssumption DEF DagInit
<1>3. /\ order \in Seq(Txs) /\ IsInjective(order) /\ Range(order) = {} /\ DOMAIN order = {}
      /\ orderedTxs \in Seq(Txs) /\ IsInjective(orderedTxs)
  BY DEF DagInit, IsInjective, Range
<1> QED
  BY <1>1, <1>2, <1>3, UptoBounds, Zenon DEF DagInit, DagInv, BetweenBlocks, ConflictsExecutedFirst

\* Ordering a block appends it to the order and executes nothing.
LEMMA OrderBlockKeepsInv ==
    ASSUME DagInv, OrderBlock
    PROVE  DagInv' /\ Done' = Done
<1>1. /\ phase = "order" /\ start < NTx /\ start \in Nat /\ blockSize \in Nat \ {0}
      /\ order \in Seq(Txs) /\ IsInjective(order)
      /\ Range(order) = Upto(start) /\ remaining = {} /\ batch = {}
      /\ UNCHANGED <<specRS, specWS, blockSize, start, batch>>
      /\ phase' = "select" /\ executed' = {} /\ remaining' = Range(orderedTxs')
      /\ order' = order \o orderedTxs'
  BY DEF DagInv, OrderBlock, BetweenBlocks
<1>2. /\ orderedTxs' \in Seq(Txs) /\ IsInjective(orderedTxs')
      /\ Range(orderedTxs') = Range(blockIDs)
  BY <1>1, ChainOrderLists DEF OrderBlock
<1>3. /\ Upto(start) \cup Range(orderedTxs') = Upto(start + blockSize)
      /\ Range(order) \cap Range(orderedTxs') = {}
  BY <1>1, <1>2, BlockTxs
<1>4. /\ order' \in Seq(Txs) /\ IsInjective(order')
      /\ Range(order') = Range(order) \cup Range(orderedTxs')
  BY <1>1, <1>2, <1>3, ConcatLists
<1>5. Done' = Done
  BY <1>1, <1>3, <1>4 DEF Done
<1> DEFINE n == Len(order)
<1>6. /\ n \in Nat /\ DOMAIN order = 1..n /\ DOMAIN order' = 1..(n + Len(orderedTxs'))
      /\ DOMAIN orderedTxs' = 1..Len(orderedTxs') /\ Len(orderedTxs') \in Nat
      /\ \A i \in DOMAIN order' : order'[i] = IF i <= n THEN order[i] ELSE orderedTxs'[i - n]
  BY <1>1, <1>2
<1> HIDE DEF n
<1>7. ASSUME NEW i \in DOMAIN order', order'[i] \in Range(orderedTxs')
      PROVE  i - n \in DOMAIN orderedTxs' /\ order'[i] = orderedTxs'[i - n]
  <2>1. ASSUME i <= n PROVE FALSE
    <3>1. i \in DOMAIN order /\ order'[i] = order[i]
      BY <1>6, <2>1
    <3>2. order'[i] \in Range(order)
      BY <3>1, Zenon DEF Range
    <3> QED BY <1>3, <1>7, <3>2, Zenon
  <2> QED BY <1>6, <2>1
<1>8. BlockInOrder'
  <2> SUFFICES ASSUME NEW i \in DOMAIN order', NEW j \in DOMAIN order', i < j,
                      order'[i] \in Range(orderedTxs'), order'[j] \in Range(orderedTxs')
               PROVE  \E a, b \in DOMAIN orderedTxs' :
                         a < b /\ orderedTxs'[a] = order'[i] /\ orderedTxs'[b] = order'[j]
    BY DEF BlockInOrder
  <2>1. i - n < j - n
    BY <1>6
  <2> QED BY <1>7, <2>1
<1>9. ConflictsExecutedFirst'
  <2> SUFFICES ASSUME NEW i \in DOMAIN order', NEW j \in DOMAIN order', i < j,
                      order'[j] \in Done' \cup batch'
               PROVE  order'[i] \in Done'
    BY DEF ConflictsExecutedFirst
  <2>1. order'[j] \in Done /\ order'[j] \in Range(order)
    BY <1>1, <1>5 DEF Done
  <2>2. j <= n
    <3>1. order'[j] \notin Range(orderedTxs')
      BY <1>3, <2>1
    <3> QED BY <1>6, <3>1 DEF Range
  <2>3. i \in DOMAIN order /\ order'[i] = order[i]
    BY <1>6, <2>2
  <2> QED BY <1>1, <1>5, <2>3, Zenon DEF Done, Range
<1>10. ~BetweenBlocks' /\ (specRS \in [Txs -> SUBSET Keys] /\ specWS \in [Txs -> SUBSET Keys])'
  BY <1>1 DEF BetweenBlocks, DagInv
<1>11. Range(order') = Upto(start' + blockSize')
  BY <1>1, <1>3, <1>4
<1> QED
  BY <1>1, <1>2, <1>4, <1>5, <1>8, <1>9, <1>10, <1>11 DEF DagInv

\* A batch is ready: what its transactions conflict with earlier was executed.
LEMMA SelectBatchKeepsInv ==
    ASSUME DagInv, SelectBatch
    PROVE  DagInv' /\ Done' = Done
<1>1. /\ phase = "select" /\ phase' = "run" /\ batch' = Ready
      /\ UNCHANGED <<specRS, specWS, blockSize, start, orderedTxs, remaining, executed, order>>
  BY DEF SelectBatch
<1>2. /\ remaining \cup executed = Range(orderedTxs) /\ remaining \cap executed = {}
      /\ BlockInOrder /\ ConflictsExecutedFirst /\ ~BetweenBlocks /\ ~BetweenBlocks'
  BY <1>1 DEF DagInv, BetweenBlocks
<1>3. Done' = Done /\ Ready \subseteq remaining /\ BlockInOrder'
  BY <1>1, <1>2 DEF Done, Ready, BlockInOrder
<1>4. ConflictsExecutedFirst'
  <2> SUFFICES ASSUME NEW i \in DOMAIN order, NEW j \in DOMAIN order, i < j,
                      order[j] \in Done \cup Ready, HasConflict(order[j], order[i])
               PROVE  order[i] \in Done
    BY <1>1, <1>3 DEF ConflictsExecutedFirst, HasConflict
  <2>1. CASE order[j] \in Done
    BY <1>2, <2>1 DEF ConflictsExecutedFirst
  <2>2. CASE order[j] \in Ready /\ order[i] \in Range(orderedTxs)
    <3>1. order[i] \in Predecessors(order[j])
      <4>1. order[j] \in Range(orderedTxs)
        BY <1>2, <1>3, <2>2
      <4> QED BY <1>2, <2>2, <4>1 DEF BlockInOrder, Predecessors
    <3>2. order[i] \in executed
      BY <2>2, <3>1 DEF Ready
    <3> QED BY <1>2, <3>2 DEF Done, Range
  <2>3. CASE order[i] \notin Range(orderedTxs)
    BY <1>2, <2>3, Zenon DEF Done, Range
  <2> QED BY <2>1, <2>2, <2>3
<1> QED
  BY <1>1, <1>2, <1>3, <1>4 DEF DagInv, BetweenBlocks

\* A batch that has finished was executed.
LEMMA BatchDoneKeepsInv ==
    ASSUME DagInv, BatchDone
    PROVE  DagInv' /\ Done' = Done \cup batch /\ batch \cap Done = {}
<1>1. /\ phase = "run" /\ phase' = "select" /\ batch' = {}
      /\ remaining' = remaining \ batch /\ executed' = executed \cup batch
      /\ UNCHANGED <<specRS, specWS, blockSize, start, orderedTxs, order>>
  BY DEF BatchDone
<1>2. /\ remaining \cup executed = Range(orderedTxs) /\ remaining \cap executed = {}
      /\ BlockInOrder /\ ConflictsExecutedFirst /\ ~BetweenBlocks /\ ~BetweenBlocks'
      /\ batch \subseteq remaining
  BY <1>1 DEF DagInv, BetweenBlocks
<1>3. batch \subseteq Range(order)
  BY <1>2 DEF DagInv
<1>4. Done' = Done \cup batch /\ batch \cap Done = {}
  BY <1>1, <1>2, <1>3 DEF Done
<1>5. BlockInOrder'
  BY <1>1, <1>2 DEF BlockInOrder
<1>6. ConflictsExecutedFirst'
  BY <1>1, <1>2, <1>4 DEF ConflictsExecutedFirst, HasConflict
<1>7. (remaining \cup executed)' = remaining \cup executed /\ (remaining \cap executed)' = {}
  BY <1>1, <1>2
<1> QED
  BY <1>1, <1>2, <1>4, <1>5, <1>6, <1>7 DEF DagInv

\* When no transaction is ready, none remains: of those that do, the first
\* in chain order would be ready.
LEMMA NoneReadyNoneRemains ==
    ASSUME DagInv, ~BetweenBlocks, Ready = {}
    PROVE  remaining = {}
<1> SUFFICES ASSUME remaining # {} PROVE FALSE
  OBVIOUS
<1> DEFINE Left == {i \in DOMAIN orderedTxs : orderedTxs[i] \in remaining}
<1>1. /\ remaining \cup executed = Range(orderedTxs) /\ remaining \cap executed = {}
      /\ DOMAIN orderedTxs = 1..Len(orderedTxs) /\ Len(orderedTxs) \in Nat
  BY DEF DagInv
<1>2. Left \in SUBSET Nat /\ Left # {}
  BY <1>1 DEF Range
<1>3. PICK i \in Left : \A j \in Left : i <= j
  BY <1>2, LeastOf, Zenon
<1>4. orderedTxs[i] \in remaining
  BY <1>3
<1>5. Predecessors(orderedTxs[i]) \subseteq executed
  <2> SUFFICES ASSUME NEW prev \in Predecessors(orderedTxs[i]) PROVE prev \in executed
    OBVIOUS
  <2>1. PICK a \in DOMAIN orderedTxs, b \in DOMAIN orderedTxs :
           b < a /\ orderedTxs[a] = orderedTxs[i] /\ orderedTxs[b] = prev
    BY DEF Predecessors
  <2>2. a = i
    BY <1>3, <2>1 DEF DagInv, IsInjective
  <2>3. b \notin Left
    BY <1>1, <1>3, <2>1, <2>2
  <2> QED BY <1>1, <2>1, <2>3 DEF Range
<1> QED BY <1>4, <1>5 DEF Ready

\* The loop over the batches of a block ends with the block executed.
LEMMA NextBlockKeepsInv ==
    ASSUME DagInv, NextBlock
    PROVE  DagInv' /\ Done' = Done
<1>1. /\ phase = "select" /\ phase' = "order" /\ start' = start + blockSize
      /\ batch' = {} /\ ~BetweenBlocks /\ BetweenBlocks'
      /\ UNCHANGED <<specRS, specWS, blockSize, orderedTxs, remaining, executed, order>>
  BY DEF NextBlock, BetweenBlocks
<1>2. remaining = {}
  BY <1>1, NoneReadyNoneRemains DEF NextBlock
<1>3. Done' = Done
  BY <1>1 DEF Done
<1>4. ConflictsExecutedFirst'
  BY <1>1, <1>3, Zenon DEF DagInv, ConflictsExecutedFirst, HasConflict
<1>5. start' \in Nat /\ Range(order') = Upto(start')
  BY <1>1 DEF DagInv
<1> QED
  BY <1>1, <1>2, <1>3, <1>4, <1>5 DEF DagInv

\* Outside the loop over the batches only the phase changes: the serial replay
\* begins after the last block and ends, and a panic may end the process
\* during a batch.
LEMMA PhaseKeepsInv ==
    ASSUME DagInv,
           UNCHANGED <<specRS, specWS, blockSize, start, orderedTxs, remaining, executed, batch, order>>,
           \/ phase' = phase
           \/ phase = "order" /\ start >= NTx /\ phase' = "serial"
           \/ phase = "serial" /\ phase' = "done"
           \/ phase = "run" /\ phase' = "panicked"
    PROVE  DagInv' /\ Done' = Done
<1>1. BetweenBlocks' = BetweenBlocks
  BY DEF BetweenBlocks
<1>2. Done' = Done /\ BlockInOrder' = BlockInOrder
  BY DEF Done, BlockInOrder
<1>3. ConflictsExecutedFirst' = ConflictsExecutedFirst
  BY <1>2, Zenon DEF ConflictsExecutedFirst, HasConflict
<1>4. (phase' \in {"serial", "done"} => start' >= NTx) /\ (phase' = "select" => batch' = {})
  BY DEF DagInv
<1> QED
  BY <1>1, <1>2, <1>3, <1>4 DEF DagInv

-----------------------------------------------------------------------------
(* What a batch may rely on *)

\* A conflict has no direction.
LEMMA ConflictSymmetric ==
    ASSUME NEW t, NEW u
    PROVE  HasConflict(t, u) <=> HasConflict(u, t)
BY DEF HasConflict

\* The transactions of a batch do not conflict with one another, and those
\* executed before that one of them conflicts with precede it in chain order.
LEMMA BatchIndependent ==
    ASSUME DagInv, ~BetweenBlocks
    PROVE  /\ batch \subseteq Range(order) /\ batch \cap Done = {}
           /\ \A t, u \in batch : t # u => ~HasConflict(t, u)
           /\ \A i, j \in DOMAIN order :
                 order[i] \in Done /\ order[j] \in batch /\ HasConflict(order[i], order[j]) => i < j
<1>1. batch \subseteq Range(order) /\ batch \cap Done = {} /\ ConflictsExecutedFirst
  BY DEF DagInv, Done
<1>2. DOMAIN order \subseteq Int
  BY DEF DagInv
<1>3. ASSUME NEW t \in batch, NEW u \in batch, t # u, HasConflict(t, u)
      PROVE  FALSE
  <2>1. PICK i \in DOMAIN order, j \in DOMAIN order : order[i] = t /\ order[j] = u
    BY <1>1 DEF Range
  <2>2. i < j \/ j < i
    BY <1>2, <1>3, <2>1
  <2>3. t \in Done \/ u \in Done
    BY <1>1, <1>3, <2>1, <2>2, ConflictSymmetric DEF ConflictsExecutedFirst
  <2> QED BY <1>1, <2>3
<1>4. ASSUME NEW i \in DOMAIN order, NEW j \in DOMAIN order, order[i] \in Done,
             order[j] \in batch, HasConflict(order[i], order[j])
      PROVE  i < j
  <2>1. order[j] \notin Done
    BY <1>1, <1>4
  <2>2. ~(j < i)
    BY <1>1, <1>4, <2>1 DEF ConflictsExecutedFirst
  <2>3. i # j
    BY <1>4, <2>1
  <2> QED BY <1>2, <2>2, <2>3
<1> QED BY <1>1, <1>3, <1>4

-----------------------------------------------------------------------------
(* The last writer *)

\* In an order without repetitions each transaction has its place.
LEMMA PositionIs ==
    ASSUME NEW s \in Seq(Txs), IsInjective(s), NEW i \in DOMAIN s
    PROVE  Position(s, s[i]) = i
BY DEF Position, IsInjective

\* A member of an order has a place in it.
LEMMA PlaceOf ==
    ASSUME NEW s \in Seq(Txs), IsInjective(s), NEW u \in Range(s)
    PROVE  Position(s, u) \in 1..Len(s) /\ s[Position(s, u)] = u
<1>1. PICK i \in DOMAIN s : u = s[i]
  BY DEF Range
<1> QED BY <1>1, PositionIs

\* The places of an order that hold writers are finitely many: there is a last one.
LEMMA LastPlace ==
    ASSUME NEW s, NEW k, NEW n \in Nat, NEW done, NEW wrote, Writers(s, k, n, done, wrote) # {}
    PROVE  /\ Max(Writers(s, k, n, done, wrote)) \in Writers(s, k, n, done, wrote)
           /\ \A i \in Writers(s, k, n, done, wrote) : i <= Max(Writers(s, k, n, done, wrote))
<1> DEFINE W == Writers(s, k, n, done, wrote)
<1>1. W \in SUBSET (0..n)
  BY DEF Writers
<1> QED BY <1>1, GreatestOf, Zenon

\* LastWriter is the transaction at the last place that holds a writer of k.
LEMMA LastWriterAt ==
    ASSUME NEW s, NEW k, NEW n \in Nat, NEW done, NEW wrote,
           NEW i \in Writers(s, k, n, done, wrote),
           \A j \in Writers(s, k, n, done, wrote) : j <= i
    PROVE  LastWriter(s, k, n, done, wrote) = s[i]
<1> DEFINE W == Writers(s, k, n, done, wrote)
<1>1. Max(W) \in W /\ i <= Max(W) /\ Max(W) <= i
  BY LastPlace
<1>2. W \in SUBSET Nat
  BY DEF Writers
<1>3. Max(W) = i
  BY <1>1, <1>2
<1> QED BY <1>3 DEF LastWriter

\* LastWriter depends only on the places that hold writers of k.
LEMMA LastWriterSame ==
    ASSUME NEW s, NEW k, NEW n \in Nat, NEW done, NEW wrote,
           NEW s2, NEW n2, NEW done2, NEW wrote2,
           Writers(s, k, n, done, wrote) = Writers(s2, k, n2, done2, wrote2),
           \A i \in Writers(s, k, n, done, wrote) : s[i] = s2[i]
    PROVE  LastWriter(s, k, n, done, wrote) = LastWriter(s2, k, n2, done2, wrote2)
<1> DEFINE W == Writers(s, k, n, done, wrote)
<1>1. CASE W = {}
  BY <1>1 DEF LastWriter
<1>2. CASE W # {}
  <2>1. s[Max(W)] = s2[Max(W)]
    BY <1>2, LastPlace
  <2> QED BY <1>2, <2>1 DEF LastWriter
<1> QED BY <1>1, <1>2

\* What the transactions that are not done write does not matter.
LEMMA LastWriterElsewhere ==
    ASSUME NEW s, NEW k, NEW n \in Nat, NEW done, NEW wrote, NEW wrote2,
           \A u \in done : wrote2[u] = wrote[u]
    PROVE  LastWriter(s, k, n, done, wrote2) = LastWriter(s, k, n, done, wrote)
<1>1. Writers(s, k, n, done, wrote2) = Writers(s, k, n, done, wrote)
  BY DEF Writers
<1> QED BY <1>1 DEF LastWriter

\* Ordering one more block moves nobody and changes no last writer.
LEMMA LastWriterExtends ==
    ASSUME NEW s \in Seq(Txs), NEW r \in Seq(Txs), IsInjective(s), IsInjective(s \o r),
           Range(s) \cap Range(r) = {}, NEW done \in SUBSET Range(s), NEW k, NEW wrote
    PROVE  /\ LastWriter(s \o r, k, Len(s \o r), done, wrote) = LastWriter(s, k, Len(s), done, wrote)
           /\ \A t \in done :
                 /\ Position(s, t) \in DOMAIN s /\ Position(s \o r, t) = Position(s, t)
                 /\ LastWriter(s \o r, k, Position(s, t) - 1, done, wrote)
                       = LastWriter(s, k, Position(s, t) - 1, done, wrote)
<1> DEFINE q == s \o r
<1>1. /\ q \in Seq(Txs) /\ Len(q) = Len(s) + Len(r) /\ Len(s) \in Nat /\ Len(r) \in Nat
      /\ DOMAIN s = 1..Len(s) /\ DOMAIN q = 1..(Len(s) + Len(r)) /\ DOMAIN r = 1..Len(r)
      /\ \A i \in 1..(Len(s) + Len(r)) : q[i] = IF i <= Len(s) THEN s[i] ELSE r[i - Len(s)]
  OBVIOUS
<1>2. IsInjective(q)
  OBVIOUS
<1> HIDE DEF q
<1>3. \A i \in 1..Len(s) : i \in DOMAIN q /\ q[i] = s[i]
  BY <1>1
<1>4. ASSUME NEW i \in DOMAIN q, q[i] \in done PROVE i \in 1..Len(s)
  <2>1. q[i] \notin Range(r)
    BY <1>4
  <2>2. CASE ~(i <= Len(s))
    <3>1. i - Len(s) \in DOMAIN r /\ q[i] = r[i - Len(s)]
      BY <1>1, <1>4, <2>2
    <3> QED BY <2>1, <3>1 DEF Range
  <2> QED BY <1>1, <1>4, <2>2
<1>5. LastWriter(q, k, Len(q), done, wrote) = LastWriter(s, k, Len(s), done, wrote)
  <2>1. Writers(s, k, Len(s), done, wrote) = Writers(q, k, Len(q), done, wrote)
    BY <1>1, <1>3, <1>4 DEF Writers
  <2>2. \A i \in Writers(s, k, Len(s), done, wrote) : s[i] = q[i]
    BY <1>3 DEF Writers
  <2> QED BY <1>1, <2>1, <2>2, LastWriterSame
<1>6. ASSUME NEW t \in done
      PROVE  /\ Position(s, t) \in DOMAIN s /\ Position(q, t) = Position(s, t)
             /\ LastWriter(q, k, Position(s, t) - 1, done, wrote)
                   = LastWriter(s, k, Position(s, t) - 1, done, wrote)
  <2>1. PICK i \in DOMAIN s : t = s[i]
    BY DEF Range
  <2>2. Position(s, t) = i /\ Position(q, t) = i
    BY <1>1, <1>2, <1>3, <2>1, PositionIs
  <2>3. i - 1 \in Nat /\ \A j \in 1..(i - 1) : q[j] = s[j]
    BY <1>1, <1>3
  <2>4. Writers(s, k, i - 1, done, wrote) = Writers(q, k, i - 1, done, wrote)
    BY <2>3 DEF Writers
  <2>5. \A j \in Writers(s, k, i - 1, done, wrote) : s[j] = q[j]
    BY <2>3 DEF Writers
  <2>6. LastWriter(q, k, i - 1, done, wrote) = LastWriter(s, k, i - 1, done, wrote)
    BY <2>3, <2>4, <2>5, LastWriterSame
  <2> QED BY <2>2, <2>6
<1> QED BY <1>5, <1>6 DEF q

\* Ordering a block changes nothing in what the transactions done have read and left.
LEMMA OrderKeepsWriters ==
    ASSUME DagInv, OrderBlock, NEW done \in SUBSET Done, NEW wrote, NEW k
    PROVE  /\ LastWriter(order', k, Len(order'), done, wrote) = LastWriter(order, k, Len(order), done, wrote)
           /\ \A t \in done : LastWriter(order', k, Position(order', t) - 1, done, wrote)
                                  = LastWriter(order, k, Position(order, t) - 1, done, wrote)
<1>1. DagInv' /\ Done' = Done /\ order' = order \o orderedTxs'
  BY OrderBlockKeepsInv DEF OrderBlock
<1>2. remaining' = Range(orderedTxs') /\ Done = Range(order)
  BY DEF OrderBlock, DagInv, BetweenBlocks, Done
<1>3. done \in SUBSET Range(order) /\ Range(order) \cap Range(orderedTxs') = {}
  BY <1>1, <1>2 DEF Done
<1>4. /\ order \in Seq(Txs) /\ orderedTxs' \in Seq(Txs) /\ IsInjective(order)
      /\ IsInjective(order \o orderedTxs')
  BY <1>1 DEF DagInv
<1>5. LastWriter(order \o orderedTxs', k, Len(order \o orderedTxs'), done, wrote)
         = LastWriter(order, k, Len(order), done, wrote)
  BY <1>3, <1>4, LastWriterExtends
<1>6. \A t \in done : /\ Position(order \o orderedTxs', t) = Position(order, t)
                      /\ LastWriter(order \o orderedTxs', k, Position(order, t) - 1, done, wrote)
                            = LastWriter(order, k, Position(order, t) - 1, done, wrote)
  BY <1>3, <1>4, LastWriterExtends
<1> QED BY <1>1, <1>5, <1>6, Zenon

-----------------------------------------------------------------------------
(* The end of a batch *)

\* The transactions results of the batch join those done, and all of them wrote
\* only what they were expected to.
Joins(done, results, wrote) ==
    /\ DagInv /\ ~BetweenBlocks
    /\ done \subseteq Done /\ results \subseteq batch
    /\ \A t \in done \cup results : wrote[t] \subseteq specWS[t]

\* The places in the chain order of the transactions that join and of those done.
LEMMA JoinPlaces ==
    ASSUME NEW done, NEW results, NEW wrote, Joins(done, results, wrote)
    PROVE  /\ order \in Seq(Txs) /\ IsInjective(order) /\ Len(order) \in Nat /\ DOMAIN order = 1..Len(order)
           /\ \A t \in done \cup results :
                 \E i \in DOMAIN order : order[i] = t /\ Position(order, t) = i /\ i - 1 \in Nat
           /\ \A t, u \in results : t # u => ~HasConflict(t, u)
           /\ \A i, j \in DOMAIN order :
                 order[i] \in done /\ order[j] \in results /\ HasConflict(order[i], order[j]) => i < j
           /\ \A t, u \in done \cup results : \A k \in wrote[u] :
                 k \in specRS[t] \cup wrote[t] => HasConflict(t, u) /\ HasConflict(u, t)
<1>1. order \in Seq(Txs) /\ IsInjective(order) /\ Len(order) \in Nat /\ DOMAIN order = 1..Len(order)
  BY DEF Joins, DagInv
<1>2. /\ batch \subseteq Range(order)
      /\ \A t, u \in batch : t # u => ~HasConflict(t, u)
      /\ \A i, j \in DOMAIN order :
            order[i] \in Done /\ order[j] \in batch /\ HasConflict(order[i], order[j]) => i < j
  BY BatchIndependent DEF Joins
<1>3. results \subseteq batch /\ done \subseteq Done /\ Done \subseteq Range(order)
  BY DEF Joins, Done
<1>4. ASSUME NEW t \in done \cup results
      PROVE  \E i \in DOMAIN order : order[i] = t /\ Position(order, t) = i /\ i - 1 \in Nat
  <2>1. t \in Range(order)
    BY <1>2, <1>3
  <2>2. Position(order, t) \in 1..Len(order) /\ order[Position(order, t)] = t
    BY <1>1, <2>1, PlaceOf
  <2> QED BY <1>1, <2>2
<1>5. ASSUME NEW t \in done \cup results, NEW u \in done \cup results, NEW k \in wrote[u],
             k \in specRS[t] \cup wrote[t]
      PROVE  HasConflict(t, u) /\ HasConflict(u, t)
  BY <1>5 DEF Joins, HasConflict
<1> QED BY <1>1, <1>2, <1>3, <1>4, <1>5, ZenonT(30)

\* What a transaction that joins was expected to read is, of the transactions
\* before it in chain order, what those done wrote last.
LEMMA JoiningReads ==
    ASSUME NEW done, NEW results, NEW wrote, Joins(done, results, wrote),
           NEW t \in results, NEW k \in specRS[t]
    PROVE  LastWriter(order, k, Position(order, t) - 1, done \cup results, wrote)
               = LastWriter(order, k, Len(order), done, wrote)
<1> DEFINE both == done \cup results
<1>1. /\ order \in Seq(Txs) /\ IsInjective(order) /\ Len(order) \in Nat /\ DOMAIN order = 1..Len(order)
      /\ \A u \in results : t # u => ~HasConflict(t, u)
      /\ \A i, j \in DOMAIN order :
            order[i] \in done /\ order[j] \in results /\ HasConflict(order[i], order[j]) => i < j
      /\ \A u \in both : k \in wrote[u] => HasConflict(t, u) /\ HasConflict(u, t)
  BY JoinPlaces, ZenonT(30)
<1>2. PICK p \in DOMAIN order : order[p] = t /\ Position(order, t) = p /\ p - 1 \in Nat
  BY JoinPlaces
<1>3. ASSUME NEW i \in Writers(order, k, p - 1, both, wrote)
      PROVE  i \in Writers(order, k, Len(order), done, wrote)
  <2>1. i \in DOMAIN order /\ i # p /\ order[i] \in both /\ k \in wrote[order[i]]
    BY <1>1, <1>2 DEF Writers
  <2>2. order[i] # t /\ HasConflict(t, order[i])
    BY <1>1, <1>2, <2>1, ZenonT(30) DEF IsInjective
  <2>3. order[i] \in done
    BY <1>1, <2>1, <2>2
  <2> QED BY <1>1, <2>1, <2>3 DEF Writers
<1>4. ASSUME NEW i \in Writers(order, k, Len(order), done, wrote)
      PROVE  i \in Writers(order, k, p - 1, both, wrote)
  <2>1. i \in DOMAIN order /\ order[i] \in done /\ k \in wrote[order[i]]
    BY <1>1 DEF Writers
  <2>2. i < p
    BY <1>1, <1>2, <2>1
  <2> QED BY <1>1, <1>2, <2>1, <2>2 DEF Writers
<1>5. Writers(order, k, p - 1, both, wrote) = Writers(order, k, Len(order), done, wrote)
  BY <1>3, <1>4, Zenon
<1> QED BY <1>2, <1>5, ZenonT(30) DEF LastWriter

\* What a transaction done was expected to read is what it was before.
LEMMA DoneReads ==
    ASSUME NEW done, NEW results, NEW wrote, Joins(done, results, wrote),
           NEW t \in done, NEW k \in specRS[t]
    PROVE  LastWriter(order, k, Position(order, t) - 1, done \cup results, wrote)
               = LastWriter(order, k, Position(order, t) - 1, done, wrote)
<1> DEFINE both == done \cup results
<1>1. /\ Len(order) \in Nat /\ DOMAIN order = 1..Len(order)
      /\ \A i, j \in DOMAIN order :
            order[i] \in done /\ order[j] \in results /\ HasConflict(order[i], order[j]) => i < j
      /\ \A u \in both : k \in wrote[u] => HasConflict(t, u) /\ HasConflict(u, t)
  BY JoinPlaces, ZenonT(30)
<1>2. PICK p \in DOMAIN order : order[p] = t /\ Position(order, t) = p /\ p - 1 \in Nat
  BY JoinPlaces
<1>3. ASSUME NEW i \in Writers(order, k, p - 1, both, wrote)
      PROVE  i \in Writers(order, k, p - 1, done, wrote)
  <2>1. i \in DOMAIN order /\ i < p /\ order[i] \in both /\ k \in wrote[order[i]]
    BY <1>1, <1>2 DEF Writers
  <2>2. order[i] \notin results
    BY <1>1, <1>2, <2>1
  <2> QED BY <2>1, <2>2 DEF Writers
<1>4. Writers(order, k, p - 1, both, wrote) = Writers(order, k, p - 1, done, wrote)
  BY <1>3 DEF Writers
<1> QED BY <1>2, <1>4, ZenonT(30) DEF LastWriter

\* A key that none of the transactions that join wrote keeps its last writer ...
LEMMA JoinLeaves ==
    ASSUME NEW done, NEW results, NEW wrote, Joins(done, results, wrote),
           NEW k, \A t \in results : k \notin wrote[t]
    PROVE  LastWriter(order, k, Len(order), done \cup results, wrote)
               = LastWriter(order, k, Len(order), done, wrote)
<1>1. Writers(order, k, Len(order), done \cup results, wrote) = Writers(order, k, Len(order), done, wrote)
  BY DEF Writers
<1> QED BY <1>1, ZenonT(30) DEF LastWriter

\* ... and one that one of them wrote was written by no other of them, and last.
LEMMA JoinWrites ==
    ASSUME NEW done, NEW results, NEW wrote, Joins(done, results, wrote),
           NEW t \in results, NEW k \in wrote[t]
    PROVE  /\ LastWriter(order, k, Len(order), done \cup results, wrote) = t
           /\ \A u \in results : k \in wrote[u] => u = t
<1> DEFINE both == done \cup results
<1>1. /\ order \in Seq(Txs) /\ IsInjective(order) /\ Len(order) \in Nat /\ DOMAIN order = 1..Len(order)
      /\ \A u, v \in results : u # v => ~HasConflict(u, v)
      /\ \A i, j \in DOMAIN order :
            order[i] \in done /\ order[j] \in results /\ HasConflict(order[i], order[j]) => i < j
      /\ \A u \in both : k \in wrote[u] => HasConflict(t, u) /\ HasConflict(u, t)
  BY JoinPlaces, ZenonT(30)
<1>2. PICK p \in DOMAIN order : order[p] = t /\ p - 1 \in Nat
  BY JoinPlaces
<1>3. \A u \in results : k \in wrote[u] => u = t
  BY <1>1
<1>4. p \in Writers(order, k, Len(order), both, wrote)
  BY <1>1, <1>2 DEF Writers
<1>5. ASSUME NEW i \in Writers(order, k, Len(order), both, wrote) PROVE i <= p
  <2>1. i \in DOMAIN order /\ order[i] \in both /\ k \in wrote[order[i]]
    BY <1>1 DEF Writers
  <2>2. CASE order[i] \in results
    BY <1>1, <1>2, <1>3, <2>1, <2>2 DEF IsInjective
  <2>3. CASE order[i] \in done
    BY <1>1, <1>2, <2>1, <2>3
  <2> QED BY <2>1, <2>2, <2>3
<1>6. Len(order) \in Nat
  BY <1>1
<1> HIDE DEF both
<1>7. LastWriter(order, k, Len(order), both, wrote) = order[p]
  BY <1>4, <1>5, <1>6, LastWriterAt
<1> QED BY <1>2, <1>3, <1>7 DEF both

-----------------------------------------------------------------------------
(* The serial replay *)

\* The replayed writers of k that come before t.
RedoneWriters(k, t, redone, wrote) == {u \in redone : u < t /\ k \in wrote[u]}

\* ReplayedValue in terms of its writers.
LEMMA ReplayedValueIs ==
    ASSUME NEW s, NEW k, NEW t, NEW done, NEW redone, NEW wrote
    PROVE  ReplayedValue(s, k, t, done, redone, wrote)
               = IF RedoneWriters(k, t, redone, wrote) = {} THEN LastWriter(s, k, Len(s), done, wrote)
                 ELSE Max(RedoneWriters(k, t, redone, wrote))
BY DEF ReplayedValue, RedoneWriters

\* Before the first replay, the state is what the transactions done left.
LEMMA NoneReplayed ==
    ASSUME NEW s, NEW k, NEW t, NEW done, NEW wrote
    PROVE  ReplayedValue(s, k, t, done, {}, wrote) = LastWriter(s, k, Len(s), done, wrote)
<1>1. RedoneWriters(k, t, {}, wrote) = {}
  BY DEF RedoneWriters
<1> QED BY <1>1, ReplayedValueIs

\* The transaction t, before n, is the next to be replayed, and the writes of the
\* others stay the same.
ReplaysNext(t, n, done, redone, wrote, wrote2) ==
    /\ redone \in SUBSET Nat /\ t \in Nat /\ n \in Nat
    /\ t < n /\ \A u \in redone : u < t
    /\ \A u \in done \cup redone : wrote2[u] = wrote[u]

\* Replaying t after all that were replayed leaves what they read as it was.
LEMMA ReplayedBefore ==
    ASSUME NEW s, Len(s) \in Nat, NEW k, NEW t, NEW n, NEW done, NEW redone, NEW wrote, NEW wrote2,
           ReplaysNext(t, n, done, redone, wrote, wrote2), NEW u \in redone
    PROVE  ReplayedValue(s, k, u, done, redone \cup {t}, wrote2)
               = ReplayedValue(s, k, u, done, redone, wrote)
<1> DEFINE more == redone \cup {t}
<1>1. /\ redone \in SUBSET Nat /\ t \in Nat /\ u < t
      /\ \A v \in done \cup redone : wrote2[v] = wrote[v]
  BY DEF ReplaysNext
<1>2. LastWriter(s, k, Len(s), done, wrote2) = LastWriter(s, k, Len(s), done, wrote)
  BY <1>1, LastWriterElsewhere
<1>3. RedoneWriters(k, u, more, wrote2) = RedoneWriters(k, u, redone, wrote)
  BY <1>1 DEF RedoneWriters
<1> HIDE DEF more
<1> QED BY <1>2, <1>3, ReplayedValueIs DEF more

\* A transaction replayed after the others reads what they left.
LEMMA ReplayReads ==
    ASSUME NEW s, Len(s) \in Nat, NEW k, NEW t, NEW n, NEW done, NEW redone, NEW wrote, NEW wrote2,
           ReplaysNext(t, n, done, redone, wrote, wrote2)
    PROVE  ReplayedValue(s, k, t, done, redone \cup {t}, wrote2)
               = ReplayedValue(s, k, n, done, redone, wrote)
<1> DEFINE more == redone \cup {t}
<1>1. /\ redone \in SUBSET Nat /\ t \in Nat /\ n \in Nat
      /\ t < n /\ \A u \in redone : u < t
      /\ \A u \in done \cup redone : wrote2[u] = wrote[u]
  BY DEF ReplaysNext
<1>2. LastWriter(s, k, Len(s), done, wrote2) = LastWriter(s, k, Len(s), done, wrote)
  BY <1>1, LastWriterElsewhere
<1>3. RedoneWriters(k, t, more, wrote2) = RedoneWriters(k, n, redone, wrote)
  <2>1. ~(t < t) /\ \A u \in redone : u < t /\ u < n /\ wrote2[u] = wrote[u]
    BY <1>1
  <2> QED BY <2>1, Zenon DEF RedoneWriters
<1> HIDE DEF more
<1> QED BY <1>2, <1>3, ReplayedValueIs DEF more

\* What it does not write is what the others left ...
LEMMA ReplayLeaves ==
    ASSUME NEW s, Len(s) \in Nat, NEW k, NEW t, NEW n, NEW done, NEW redone, NEW wrote, NEW wrote2,
           ReplaysNext(t, n, done, redone, wrote, wrote2), k \notin wrote2[t]
    PROVE  ReplayedValue(s, k, n, done, redone \cup {t}, wrote2)
               = ReplayedValue(s, k, n, done, redone, wrote)
<1> DEFINE more == redone \cup {t}
<1>1. /\ redone \in SUBSET Nat /\ t \in Nat /\ n \in Nat
      /\ t < n /\ \A u \in redone : u < t
      /\ \A u \in done \cup redone : wrote2[u] = wrote[u]
  BY DEF ReplaysNext
<1>2. LastWriter(s, k, Len(s), done, wrote2) = LastWriter(s, k, Len(s), done, wrote)
  BY <1>1, LastWriterElsewhere
<1>3. RedoneWriters(k, n, more, wrote2) = RedoneWriters(k, n, redone, wrote)
  BY <1>1 DEF RedoneWriters
<1> HIDE DEF more
<1> QED BY <1>2, <1>3, ReplayedValueIs DEF more

\* ... and what it writes is its own.
LEMMA ReplayWrites ==
    ASSUME NEW s, Len(s) \in Nat, NEW k, NEW t, NEW n, NEW done, NEW redone, NEW wrote, NEW wrote2,
           ReplaysNext(t, n, done, redone, wrote, wrote2), k \in wrote2[t]
    PROVE  ReplayedValue(s, k, n, done, redone \cup {t}, wrote2) = t
<1> DEFINE more == redone \cup {t}
<1>1. /\ redone \in SUBSET Nat /\ t \in Nat /\ n \in Nat
      /\ t < n /\ \A u \in redone : u < t
      /\ \A u \in done \cup redone : wrote2[u] = wrote[u]
  BY DEF ReplaysNext
<1> DEFINE W == RedoneWriters(k, n, more, wrote2)
<1>2. t \in W /\ W \in SUBSET more /\ W \in SUBSET Nat /\ \A u \in W : u <= t
  <2>1. \A u \in more : u \in Nat /\ u <= t
    BY <1>1
  <2>2. t \in W /\ W \in SUBSET more
    BY <1>1, Zenon DEF RedoneWriters
  <2> HIDE DEF W
  <2> QED BY <2>1, <2>2, Zenon
<1>3. W \in SUBSET (0..t)
  <2> HIDE DEF W
  <2> QED BY <1>1, <1>2
<1>4. Max(W) \in W /\ \A u \in W : u <= Max(W)
  BY <1>1, <1>2, <1>3, GreatestOf, Zenon
<1> HIDE DEF W
<1>5. Max(W) = t /\ W # {}
  <2>1. Max(W) \in Nat /\ Max(W) <= t /\ t <= Max(W) /\ W # {}
    BY <1>2, <1>4, Zenon
  <2> QED BY <1>1, <2>1
<1> HIDE DEF more
<1> QED BY <1>5, ReplayedValueIs, Zenon DEF W, more

=============================================================================
