----------------------------- MODULE VegetaDag -----------------------------
(***************************************************************************)
(* The scheduling half of Vegeta (runReplayVegetaMode): the transactions   *)
(* of a block are ordered by their dependency chains, the order and the    *)
(* speculative read and write sets give a DAG, and the DAG is executed in  *)
(* batches of transactions whose predecessors have been executed.  How a   *)
(* batch is executed is left to VegetaOverlay and VegetaSharedTrie.        *)
(***************************************************************************)
EXTENDS Integers, Sequences, FiniteSets, FiniteSetsExt, Functions

CONSTANTS TxOrder,    \* orderedTxIDs: the TxIDs in the order of the range
          Keys,       \* storage keys
          BlockSizes, \* the values of the flag txs-per-block; 0: one block
          SpecSets    \* the <<reads, writes>> a pre-execution may report

ASSUME VegetaAssumption ==
    /\ TxOrder \in Seq(Nat) /\ TxOrder # <<>> /\ TxOrder \in Bijection(1..Len(TxOrder), 1..Len(TxOrder))
    /\ BlockSizes \subseteq Nat
    /\ SpecSets \subseteq (SUBSET Keys) \X (SUBSET Keys)

\* A TxID is a hash: the numbers give the order in which sort.Strings puts them.
NTx == Len(TxOrder)
Txs == 1..NTx

VARIABLES
    specRS, specWS,  \* speculativeRS and speculativeWS
    blockSize,
    phase,           \* where the main goroutine is
    start,           \* number of transactions in the blocks before this one
    orderedTxs,      \* the transactions of the block in chain order
    remaining,       \* those not executed yet
    executed,        \* those executed, whatever came of it
    batch,           \* those being executed
    order            \* history: orderedTxs of all blocks so far

dagVars == <<specRS, specWS, blockSize, phase, start, orderedTxs, remaining, executed, batch, order>>

blockIDs == SubSeq(TxOrder, start + 1, Min({start + blockSize, NTx}))

DagInit ==
    /\ \E spec \in [Txs -> SpecSets] :
          /\ specRS = [t \in Txs |-> spec[t][1]]
          /\ specWS = [t \in Txs |-> spec[t][2]]
    /\ blockSize \in {IF n = 0 \/ n >= NTx THEN NTx ELSE n : n \in BlockSizes}
    /\ phase = "order"
    /\ start = 0
    /\ orderedTxs = <<>>
    /\ remaining = {} /\ executed = {} /\ batch = {}
    /\ order = <<>>

-----------------------------------------------------------------------------
(* Chain order.  Ranging over a Go map visits the transactions in any order, *)
(* rOrder for blockRS and wOrder for blockWS.                                *)

\* The chain of k: its readers, then the writers that do not read it.
Chain(k, rOrder, wOrder) ==
    SelectSeq(rOrder, LAMBDA t : k \in specRS[t])
        \o SelectSeq(wOrder, LAMBDA t : k \in specWS[t] \ specRS[t])

\* The orders of the chains that sort.Slice may return: longest first, ties in any order.
LongestFirst(rOrder, wOrder) ==
    {ks \in Bijection(1..Cardinality(Keys), Keys) :
        \A i, j \in DOMAIN ks :
            i < j => Len(Chain(ks[i], rOrder, wOrder)) >= Len(Chain(ks[j], rOrder, wOrder))}

\* Whether walking through the lists one after the other meets t before u.
Before(lists, t, u) ==
    LET First(x) == Min({c \in DOMAIN lists : x \in Range(lists[c])})
        list == lists[First(t)]
    IN  \/ First(t) < First(u)
        \/ First(t) = First(u) /\ \E i, j \in DOMAIN list : i < j /\ list[i] = t /\ list[j] = u

\* The block in the order in which its transactions are met in the chains, with
\* the transactions in no chain at the end.
ChainOrders ==
    LET orders == Bijection(DOMAIN blockIDs, Range(blockIDs))
    IN  {s \in orders :
            \E rOrder, wOrder \in orders : \E ks \in LongestFirst(rOrder, wOrder) :
                LET chains == [c \in DOMAIN ks |-> Chain(ks[c], rOrder, wOrder)]
                IN  \A i, j \in DOMAIN s : i < j => Before(Append(chains, blockIDs), s[i], s[j])}

OrderBlock ==
    /\ phase = "order" /\ start < NTx
    /\ orderedTxs' \in ChainOrders
    /\ order' = order \o orderedTxs'
    /\ remaining' = Range(orderedTxs')
    /\ executed' = {}
    /\ phase' = "select"
    /\ UNCHANGED <<specRS, specWS, blockSize, start, batch>>

-----------------------------------------------------------------------------
(* The DAG and its batches *)

\* Variant: the W-R conflicts are forgotten.
HasConflictNoWR(t, prev) ==
    \/ specWS[t] \cap specWS[prev] # {}
    \/ specRS[t] \cap specWS[prev] # {}

\* Variant: the W-W conflicts are forgotten.
HasConflictNoWW(t, prev) ==
    \/ specRS[t] \cap specWS[prev] # {}
    \/ specWS[t] \cap specRS[prev] # {}

\* W-W, R-W and W-R conflicts of t with the earlier transaction prev.
HasConflict(t, prev) ==
    \/ specWS[t] \cap specWS[prev] # {}
    \/ specRS[t] \cap specWS[prev] # {}
    \/ specWS[t] \cap specRS[prev] # {}

\* Variant: the inner loop goes one too far.
PredecessorsAndSelf(t) ==
    {prev \in Range(orderedTxs) :
        \E i, j \in DOMAIN orderedTxs :
            j <= i /\ orderedTxs[i] = t /\ orderedTxs[j] = prev /\ HasConflict(t, prev)}

\* dag[t]
Predecessors(t) ==
    {prev \in Range(orderedTxs) :
        \E i, j \in DOMAIN orderedTxs :
            j < i /\ orderedTxs[i] = t /\ orderedTxs[j] = prev /\ HasConflict(t, prev)}

Ready == {t \in remaining : Predecessors(t) \subseteq executed}

SelectBatch ==
    /\ phase = "select" /\ Ready # {}
    /\ batch' = Ready
    /\ phase' = "run"
    /\ UNCHANGED <<specRS, specWS, blockSize, start, orderedTxs, remaining, executed, order>>

\* No transaction remains, or none is ready: the loop over the batches ends.
NextBlock ==
    /\ phase = "select" /\ Ready = {}
    /\ start' = start + blockSize
    /\ phase' = "order"
    /\ batch' = {}
    /\ UNCHANGED <<specRS, specWS, blockSize, orderedTxs, remaining, executed, order>>

\* Variant: the batch stays in remaining.
BatchNotRemoved ==
    /\ phase = "run"
    /\ executed' = executed \cup batch
    /\ batch' = {}
    /\ phase' = "select"
    /\ UNCHANGED <<specRS, specWS, blockSize, start, orderedTxs, remaining, order>>

\* What the loop does with a batch whose goroutines have finished.
BatchDone ==
    /\ phase = "run"
    /\ remaining' = remaining \ batch
    /\ executed' = executed \cup batch
    /\ batch' = {}
    /\ phase' = "select"
    /\ UNCHANGED <<specRS, specWS, blockSize, start, orderedTxs, order>>

\* The range is validated; the serial replay begins.
StartSerialReplay ==
    /\ phase = "order" /\ start >= NTx
    /\ phase' = "serial"
    /\ UNCHANGED <<specRS, specWS, blockSize, start, orderedTxs, remaining, executed, batch, order>>

-----------------------------------------------------------------------------
(* The serial execution a parallel one is compared with *)

\* The place of t in the order s.
Position(s, t) == CHOOSE i \in DOMAIN s : s[i] = t

\* The places among the first n of the order s that hold a transaction done whose
\* write set, given by wrote, has k, and the last of these transactions; Witness if
\* there is none.
Witness == 0

Writers(s, k, n, done, wrote) == {i \in 1..n : s[i] \in done /\ k \in wrote[s[i]]}

LastWriter(s, k, n, done, wrote) ==
    LET writers == Writers(s, k, n, done, wrote)
    IN  IF writers = {} THEN Witness ELSE s[Max(writers)]

\* The value of k when the transactions done have run in the order s and then,
\* of those redone, the ones before t in the order of the TxIDs.
ReplayedValue(s, k, t, done, redone, wrote) ==
    LET writers == {u \in redone : u < t /\ k \in wrote[u]}
    IN  IF writers = {} THEN LastWriter(s, k, Len(s), done, wrote) ELSE Max(writers)

-----------------------------------------------------------------------------
(* What the scheduling keeps, however the batches are executed *)

\* The transactions executed so far, in this block and the ones before it.
Done == Range(order) \ remaining

\* The first n transactions of the range.
Upto(n) == {TxOrder[i] : i \in 1..n \cap Txs}

BetweenBlocks == phase \in {"order", "serial", "done"}

\* The order has the transactions of the block as orderedTxs has them.
BlockInOrder ==
    \A i, j \in DOMAIN order :
        i < j /\ order[i] \in Range(orderedTxs) /\ order[j] \in Range(orderedTxs) =>
            \E a, b \in DOMAIN orderedTxs :
                a < b /\ orderedTxs[a] = order[i] /\ orderedTxs[b] = order[j]

\* Before a transaction is executed, every earlier one it conflicts with was.
ConflictsExecutedFirst ==
    \A i, j \in DOMAIN order :
        i < j /\ order[j] \in Done \cup batch /\ HasConflict(order[j], order[i])
            => order[i] \in Done

\* The chain order holds each transaction of the blocks begun once, a block that
\* ends has executed all of its transactions, and conflicting ones are
\* executed in the chain order.
DagInv ==
    /\ specRS \in [Txs -> SUBSET Keys] /\ specWS \in [Txs -> SUBSET Keys]
    /\ blockSize \in Nat \ {0} /\ start \in Nat
    /\ order \in Seq(Txs) /\ IsInjective(order)
    /\ orderedTxs \in Seq(Txs) /\ IsInjective(orderedTxs)
    /\ IF BetweenBlocks
       THEN Range(order) = Upto(start) /\ remaining = {}
       ELSE /\ Range(order) = Upto(start + blockSize)
            /\ remaining \cup executed = Range(orderedTxs) /\ BlockInOrder
            /\ Range(orderedTxs) \subseteq Range(order)
    /\ phase \in {"serial", "done"} => start >= NTx
    /\ batch \subseteq remaining /\ remaining \cap executed = {}
    /\ phase = "select" => batch = {}
    /\ ConflictsExecutedFirst
=============================================================================
