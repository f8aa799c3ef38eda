------------------------------ MODULE Workload ------------------------------
(***************************************************************************)
(* The input of the benchmark's concurrency-control schemes: transactions  *)
(* simulated on the same state, each with the keys it read and wrote.      *)
(* A key is the rank of its composite key, contract and storage slot; the  *)
(* database knows the slot alone.  A transaction without any key is one    *)
(* whose simulation failed and left an empty place in the list.            *)
(***************************************************************************)
EXTENDS Integers, FiniteSets, Sequences, FiniteSetsExt, Functions

CONSTANTS NKeys,
          SlotOf,      \* key -> its storage slot, the Key of its RWSet
          Workloads,   \* the lists of <<reads, writes>> a simulation may return
          Schemes      \* subset of {"nezha", "variable", "cg"}

Keys == 1..NKeys
Slots == {SlotOf[k] : k \in Keys}

ASSUME WorkloadAssumption ==
    /\ NKeys \in Nat \ {0} /\ DOMAIN SlotOf = Keys
    /\ \A txs \in Workloads : txs \in Seq((SUBSET Keys) \X (SUBSET Keys))
    /\ Schemes \subseteq {"nezha", "variable", "cg"}

VARIABLES scheme,   \* the scheme that processes the list
          rset,     \* keys of the transaction's "r" nodes
          wset,     \* keys of its "w" nodes
          pc,
          db        \* slot -> transaction whose value was stored last, 0 for none

Txs == DOMAIN rset

inputVars == <<scheme, rset, wset>>

Simulated ==
    /\ scheme \in Schemes /\ pc = "start" /\ db = [s \in Slots |-> 0]
    /\ \E txs \in Workloads :
          /\ rset = [t \in DOMAIN txs |-> txs[t][1]]
          /\ wset = [t \in DOMAIN txs |-> txs[t][2]]

\* Transactions with at least one node.
Listed == {t \in Txs : rset[t] \cup wset[t] # {}}
Readers(k) == {t \in Txs : k \in rset[t]}
Writers(k) == {t \in Txs : k \in wset[t]}

\* The transactions that write slot s, in whatever contract.
SlotWriters(s) == {t \in Txs : \E k \in wset[t] : SlotOf[k] = s}

\* u wrote a key whose value before t read.
ReadsBefore(t, u) == t # u /\ rset[t] \cap wset[u] # {}
=============================================================================
