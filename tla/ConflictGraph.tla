--------------------------- MODULE ConflictGraph ---------------------------
(***************************************************************************)
(* The conflict-graph baseline: a graph with one vertex per transaction,   *)
(* its strongly connected components (Tarjan), the cycles of each          *)
(* component (Johnson), the transactions aborted to break them, and the    *)
(* commit order by topological sorting.                                    *)
(***************************************************************************)
EXTENDS Workload, Graphs

VARIABLES
    gSlice,      \* adjacency lists of the transactions, as far as they are built
    sccs,        \* components still to be searched for cycles
    cycles,      \* cycles of the component at hand not broken yet
    invalid,     \* transactions aborted to break cycles
    degree,      \* inDegree of the adjacency list
    empty,       \* emptyInDegreeVex
    commitOrder  \* topologicalOrder

cgVars == <<gSlice, sccs, cycles, invalid, degree, empty, commitOrder>>

CGInit ==
    /\ gSlice = <<>> /\ sccs = <<>> /\ cycles = <<>> /\ invalid = {}
    /\ degree = [t \in Txs |-> 0] /\ empty = <<>> /\ commitOrder = <<>>

-----------------------------------------------------------------------------
(* NewBuildConflictGraph *)

\* An arc to every later transaction for each key that both write ...
WriteArcs(t) ==
    FlattenSeq([i \in 1..(Len(rset) - t) |-> [n \in 1..Cardinality(wset[t] \cap wset[t + i]) |-> t + i]])

\* ... and one to the writers of the keys read, in the order of the "r" nodes.
ReadArcs(t, nodes) ==
    FoldLeft(LAMBDA arcs, u : IF u \in ToSet(arcs) THEN arcs ELSE Append(arcs, u),
             WriteArcs(t),
             FlattenSeq([i \in DOMAIN nodes |-> SetToSortSeq(Writers(nodes[i]) \ {t}, <)]))

\* The "r" nodes come from a Go map: they have any order.
BuildVertex ==
    /\ scheme = "cg" /\ pc = "start" /\ Len(gSlice) < Len(rset)
    /\ \E nodes \in SetToSeqs(rset[Len(gSlice) + 1]) :
          gSlice' = Append(gSlice, ReadArcs(Len(gSlice) + 1, nodes))
    /\ UNCHANGED <<inputVars, db, pc, sccs, cycles, invalid, degree, empty, commitOrder>>

-----------------------------------------------------------------------------
(* Tarjan's algorithm; stackMember is membership in st *)

RECURSIVE SCCUtil(_, _)
SCCUtil(s, u) ==
    LET Neighbour(r, v) ==
            IF r.disc[v] = -1
            THEN LET q == SCCUtil(r, v) IN [q EXCEPT !.low[u] = Min({@, q.low[v]})]
            ELSE IF v \in ToSet(r.st) THEN [r EXCEPT !.low[u] = Min({@, r.disc[v]})]
            ELSE r
        entered == [s EXCEPT !.low[u] = s.time, !.disc[u] = s.time, !.time = @ + 1,
                             !.st = Append(@, u)]
        left == FoldLeft(Neighbour, entered, gSlice[u])
        from == CHOOSE i \in DOMAIN left.st : left.st[i] = u
    IN  IF left.low[u] # left.disc[u] THEN left
        ELSE [left EXCEPT !.st = SubSeq(@, 1, from - 1),
                          !.list = Append(@, {left.st[i] : i \in from..Len(left.st)})]

SCC ==
    LET unvisited == [t \in Txs |-> -1]
        start == [time |-> 0, low |-> unvisited, disc |-> unvisited, st |-> <<>>, list |-> <<>>]
    IN  FoldLeft(LAMBDA s, u : IF s.disc[u] = -1 THEN SCCUtil(s, u) ELSE s,
                 start, [t \in Txs |-> t]).list

FindSCCs ==
    /\ scheme = "cg" /\ pc = "start" /\ Len(gSlice) = Len(rset)
    /\ sccs' = SCC
    /\ pc' = "break"
    /\ UNCHANGED <<inputVars, db, gSlice, cycles, invalid, degree, empty, commitOrder>>

-----------------------------------------------------------------------------
(* Johnson's algorithm *)

\* Variant: a vertex stays blocked once it was left.
UnblockNothing(s, v) == s

RECURSIVE Unblock(_, _)
Unblock(s, v) ==
    [FoldLeft(LAMBDA r, n : IF n \in r.blocked THEN Unblock(r, n) ELSE r,
              [s EXCEPT !.blocked = @ \ {v}],
              SetToSortSeq(s.blockedMap[v], <))
     EXCEPT !.blockedMap[v] = {}]

RECURSIVE FindCyclesRecur(_, _, _, _)
FindCyclesRecur(s, explore, startV, currentV) ==
    LET Neighbour(r, n) ==
            IF n \notin explore THEN r
            ELSE IF n = startV THEN [r EXCEPT !.found = TRUE, !.cycles = Append(@, r.stack)]
            ELSE IF n \in r.blocked THEN r
            ELSE LET q == FindCyclesRecur([r EXCEPT !.found = FALSE], explore, startV, n)
                 IN  [q EXCEPT !.found = @ \/ r.found]
        entered == [s EXCEPT !.stack = Append(@, currentV), !.blocked = @ \cup {currentV}]
        left == FoldLeft(Neighbour, entered, gSlice[currentV])
        waits == ToSet(gSlice[currentV]) \cap explore
        unblocked == IF left.found THEN Unblock(left, currentV)
                     ELSE [left EXCEPT !.blockedMap = [v \in Txs |->
                              IF v \in waits THEN @[v] \cup {currentV} ELSE @[v]]]
    IN  [unblocked EXCEPT !.stack = Front(@)]

CyclesFrom(startV, explore) ==
    FindCyclesRecur([stack |-> <<>>, blocked |-> {}, blockedMap |-> [t \in Txs |-> {}],
                     cycles |-> <<>>, found |-> FALSE], explore, startV, startV).cycles

\* A vertex is not explored again once the cycles through it were found.
FindCycles(component) ==
    LET vertices == SetToSortSeq(component, <)
    IN  IF Len(vertices) = 1 THEN <<>>
        ELSE IF Len(vertices) = 2 THEN <<vertices>>
        ELSE FlattenSeq([i \in DOMAIN vertices |->
                 CyclesFrom(vertices[i], {v \in component : v >= vertices[i]})])

SearchComponent ==
    /\ pc = "break" /\ cycles = <<>> /\ sccs # <<>>
    /\ cycles' = FindCycles(Head(sccs))
    /\ sccs' = Tail(sccs)
    /\ UNCHANGED <<inputVars, db, pc, gSlice, invalid, degree, empty, commitOrder>>

-----------------------------------------------------------------------------
(* BreakCycles *)

CyclesWith(v) == Cardinality({i \in DOMAIN cycles : v \in ToSet(cycles[i])})

\* Variant: the cycles left are forgotten after the first abort.
BreakCyclesOnce ==
    /\ pc = "break" /\ cycles # <<>>
    /\ invalid' = invalid \cup {Min({v \in Txs : \A u \in Txs : CyclesWith(v) >= CyclesWith(u)})}
    /\ cycles' = <<>>
    /\ UNCHANGED <<inputVars, db, pc, gSlice, sccs, degree, empty, commitOrder>>

\* The first of the vertices in most of the cycles left is aborted.
BreakCycles ==
    /\ pc = "break" /\ cycles # <<>>
    /\ \E max \in {Min({v \in Txs : \A u \in Txs : CyclesWith(v) >= CyclesWith(u)})} :
          /\ cycles' = SelectSeq(cycles, LAMBDA c : max \notin ToSet(c))
          /\ invalid' = invalid \cup {max}
    /\ UNCHANGED <<inputVars, db, pc, gSlice, sccs, degree, empty, commitOrder>>

-----------------------------------------------------------------------------
(* Init and RebuildGraph of the adjacency list, then BasicTopologicalSort *)

Arcs(t, v) == Cardinality({i \in DOMAIN gSlice[t] : gSlice[t][i] = v})

\* Variant: the arcs of aborted transactions are not taken off the degrees.
RebuildGraphKept ==
    /\ pc = "break" /\ cycles = <<>> /\ sccs = <<>>
    /\ degree' = [v \in Txs |-> MapThenSumSet(LAMBDA t : Arcs(t, v), Txs)]
    /\ empty' = SetToSortSeq({v \in Txs : degree'[v] = 0}, <)
    /\ pc' = "sort"
    /\ UNCHANGED <<inputVars, db, gSlice, sccs, cycles, invalid, commitOrder>>

\* Only the arcs that leave aborted transactions are taken off the degrees.
RebuildGraph ==
    /\ pc = "break" /\ cycles = <<>> /\ sccs = <<>>
    /\ degree' = [v \in Txs |-> MapThenSumSet(LAMBDA t : Arcs(t, v), Txs \ invalid)]
    /\ empty' = SetToSortSeq({v \in Txs : degree'[v] = 0}, <)
    /\ pc' = "sort"
    /\ UNCHANGED <<inputVars, db, gSlice, sccs, cycles, invalid, commitOrder>>

\* Arcs from a valid to an aborted transaction have isAborted.
SortTx ==
    /\ pc = "sort" /\ empty # <<>>
    /\ LET top == Head(empty)
           Arc(s, v) == IF top \notin invalid /\ v \in invalid THEN s
                        ELSE [degree |-> [s.degree EXCEPT ![v] = @ - 1],
                              empty  |-> IF s.degree[v] = 1 THEN Append(s.empty, v) ELSE s.empty]
       IN  \E after \in {FoldLeft(Arc, [degree |-> degree, empty |-> Tail(empty)], gSlice[top])} :
              /\ degree' = after.degree
              /\ empty' = after.empty
              /\ commitOrder' = Append(commitOrder, top)
    /\ UNCHANGED <<inputVars, db, pc, gSlice, sccs, cycles, invalid>>

\* The driver stores the writes of the transactions one after the other, each
\* under its slot.
CommitInOrder ==
    /\ pc = "sort" /\ empty = <<>>
    /\ db' = FoldLeft(LAMBDA d, t : [s \in Slots |-> IF t \in SlotWriters(s) THEN t ELSE d[s]], db, commitOrder)
    /\ pc' = "done"
    /\ UNCHANGED <<inputVars, cgVars>>

CGNext ==
    \/ BuildVertex \/ FindSCCs \/ SearchComponent \/ BreakCycles
    \/ RebuildGraph \/ SortTx \/ CommitInOrder

-----------------------------------------------------------------------------
(* Properties *)

Conflicts == [node |-> Txs, edge |-> {<<t, u>> \in Txs \X Txs : u \in ToSet(gSlice[t])}]

\* The elementary circuits inside C, each from its first transaction.
Circuits(C) ==
    {p \in UNION {SetToSeqs(S) : S \in {S \in SUBSET C : Cardinality(S) > 1}} :
        /\ p[1] = Min(ToSet(p))
        /\ \A i \in DOMAIN p : <<p[i], p[(i % Len(p)) + 1]>> \in Conflicts.edge}

\* SCCUtil partitions the transactions into the classes of mutual reachability,
\* and FindCycles returns every elementary circuit of a class and nothing else,
\* although it blocks vertices and stops exploring those it is done with.
CyclesFound ==
    [][/\ pc = "start" /\ pc' = "break" =>
          LET reach == ConnectionsIn(Conflicts)
          IN  ToSet(sccs') = {{u \in Txs : u = t \/ (reach[t, u] /\ reach[u, t])} : t \in Txs}
       /\ pc = "break" /\ sccs' # sccs => ToSet(cycles') = Circuits(Head(sccs))]_<<pc, cgVars>>

Valid == Txs \ invalid

\* Once cycles are broken, component by component, the transactions that were
\* not aborted are free of cycles, also of those through several components.
CyclesBroken ==
    pc = "sort" => IsDag([node |-> Valid, edge |-> Conflicts.edge \cap (Valid \X Valid)])

\* Aborted transactions with conflicts only from aborted ones: the degree that
\* RebuildGraph leaves them is 0.
Orphans == {v \in invalid : \A t \in Valid : v \notin ToSet(gSlice[t])}

Position(t) == CHOOSE i \in DOMAIN commitOrder : commitOrder[i] = t

\* Unless an aborted transaction is left with degree 0, the commit order has
\* every transaction that was not aborted exactly once and no other, those that
\* read a key stand before those that overwrite it, the writers of a key stand
\* in the order of the list, and an entry of the database ends with the value of
\* the last in that order that writes its slot, in whatever contract.
CommitOrderSerializable ==
    scheme = "cg" /\ pc = "done" /\ Orphans = {} =>
        /\ IsInjective(commitOrder) /\ ToSet(commitOrder) = Valid
        /\ \A t, u \in Valid : ReadsBefore(t, u) => Position(t) < Position(u)
        /\ \A t, u \in Valid : t < u /\ wset[t] \cap wset[u] # {} => Position(t) < Position(u)
        /\ \A s \in Slots :
              LET ws == SlotWriters(s) \cap Valid
              IN  IF ws = {} THEN db[s] = 0
                  ELSE db[s] \in ws /\ \A u \in ws : Position(u) <= Position(db[s])

\* RebuildGraph "remove[s] all vertices and edges of aborted transactions": no
\* aborted transaction is committed.
AbortedNotCommitted == ToSet(commitOrder) \cap invalid = {}
=============================================================================
