------------------------ MODULE MCConcurrencySchemes ------------------------
(* Lists of transactions for the schemes. *)
EXTENDS ConcurrencySchemes

\* Three transactions on two keys, with any sets; empty slots among them.
AnyThree == [1..3 -> (SUBSET {1, 2}) \X (SUBSET {1, 2})]

\* Four transactions, each with a key of its own to write and up to two others
\* to read: any graph of conflicts with at most two arcs from a vertex.
OwnKeys ==
    LET Reads == {S \in SUBSET (1..4) : Cardinality(S) <= 2}
    IN  {[t \in 1..4 |-> <<reads[t] \ {t}, {t}>>] : reads \in [1..4 -> Reads]}

\* Everyone reads everything, and everyone writes in part.
Dense == {[t \in 1..4 |-> <<1..4, {t}>>], [t \in 1..4 |-> <<{1, 2}, {1 + (t % 2)}>>]}

\* A path whose middle is aborted first, and then both its neighbours.
AbortedPath ==
    << <<{2, 3}, {1}>>, <<{1, 4}, {2}>>, <<{1, 5}, {3}>>, <<{2}, {4}>>, <<{3}, {5}>> >>

\* The cycle of queues 2 and 3 lets QueuesSort take queue 1 before queue 2, whose
\* writers read 1: in queue 2 they share a number, the second gets a new one, and
\* ends no longer before transaction 5, which writes 1.
RenumberedReader ==
    << <<{}, {7}>>, <<{1}, {7}>>, <<{1, 3}, {2}>>, <<{1}, {2}>>, <<{4, 5, 6}, {1}>>, <<{2}, {3}>> >>

\* Keys 8 and 9 are of a second contract and have the slots of keys 1 and 2.  All
\* keys of a transaction are of its contract.
MCSlotOf == [k \in Keys |-> IF k > 7 THEN k - 7 ELSE k]
TwoContracts ==
    [1..3 -> {<<{1}, {1}>>, <<{}, {1, 2}>>, <<{2}, {1}>>,
              <<{8}, {8}>>, <<{}, {8, 9}>>, <<{9}, {8}>>}]

MCLists == AnyThree \cup OwnKeys \cup Dense \cup {AbortedPath, RenumberedReader} \cup TwoContracts
PathOnly == {AbortedPath}
BlindWriters == {l \in AnyThree : \A t \in 1..3 : l[t][1] = {} \/ l[t][2] = {}}
=============================================================================
