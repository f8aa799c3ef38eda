-------------------------- MODULE QueueGraphProofs --------------------------
(***************************************************************************)
(* Proofs about the queue schemes for any keys and any lists of            *)
(* transactions: QueuesSort returns every queue once, sortInQueue leaves   *)
(* every queue in order whatever numbers it finds, no update is lost, and  *)
(* the commit stores the value of the writer with the highest number.      *)
(***************************************************************************)
EXTENDS QueueGraph, FiniteSetTheorems, TLAPS

-----------------------------------------------------------------------------
(* Least and greatest elements, lists without repetitions *)

\* A set of natural numbers that is not empty has a least element.
LEMMA LeastOf ==
    ASSUME NEW S \in SUBSET Nat, S # {}
    PROVE  Min(S) \in S /\ \A y \in S : Min(S) <= y
<1>1. PICK x \in S : \A y \in S : ~(<<y, x>> \in OpToRel(<, Nat))
  BY NatLessThanWellFounded, WFMin, Zenon
<1>2. \A y \in S : ~(y < x)
  BY <1>1, Zenon DEF OpToRel
<1>3. \A y \in S : x <= y
  BY <1>2
<1>4. QED
  BY <1>3, Zenon DEF Min

\* A finite set of natural numbers that is not empty has a greatest element:
\* among its subsets without one, a smallest would stay without one when an
\* element is removed.
LEMMA GreatestOf ==
    ASSUME NEW S \in SUBSET Nat, IsFiniteSet(S), S # {}
    PROVE  Max(S) \in S /\ \A y \in S : y <= Max(S)
<1> DEFINE HasMax(U) == \E x \in U : \A y \in U : y <= x
           Bad == {U \in SUBSET S : U # {} /\ ~HasMax(U)}
           Sizes == {Cardinality(U) : U \in Bad}
<1>1. ASSUME Bad # {} PROVE FALSE
  <2>1. \A U \in SUBSET S : IsFiniteSet(U) /\ Cardinality(U) \in Nat
    BY FS_Subset, FS_CardinalityType, Zenon
  <2>2. Sizes \in SUBSET Nat /\ Sizes # {}
    BY <1>1, <2>1
  <2>3. Min(Sizes) \in Sizes /\ \A n \in Sizes : Min(Sizes) <= n
    BY <2>2, LeastOf, Zenon
  <2>4. PICK U \in Bad : \A V \in Bad : Cardinality(U) <= Cardinality(V)
    BY <2>3, Zenon
  <2>5. PICK x \in U : TRUE
    BY Zenon
  <2>6. U \ {x} \in SUBSET S /\ Cardinality(U \ {x}) = Cardinality(U) - 1
    BY <2>1, <2>5, FS_RemoveElement
  <2>7. U \ {x} \notin Bad
    <3>1. Cardinality(U) \in Nat
      BY <2>1
    <3>2. ~(Cardinality(U) <= Cardinality(U \ {x}))
      BY <2>6, <3>1
    <3>3. QED
      BY <2>4, <3>2, Zenon
  <2>8. CASE U \ {x} = {}
    BY <2>5, <2>8
  <2>9. CASE U \ {x} # {}
    <3>1. PICK m \in U \ {x} : \A y \in U \ {x} : y <= m
      BY <2>6, <2>7, <2>9
    <3>2. m \in Nat /\ x \in Nat /\ \A y \in U : y \in Nat
      BY <2>5
    <3>3. CASE m <= x
      BY <2>5, <3>1, <3>2, <3>3
    <3>4. CASE x <= m
      BY <2>5, <3>1, <3>2, <3>4
    <3>5. QED
      BY <3>2, <3>3, <3>4
  <2>10. QED
    BY <2>8, <2>9
<1>2. HasMax(S)
  BY <1>1
<1>3. \E x \in S : \A y \in S : x >= y
  BY <1>2
<1>4. QED
  BY <1>3, Zenon DEF Max

\* A one-to-one numbering of a set is a list of its elements, each once.
LEMMA EnumeratesAll ==
    ASSUME NEW S, NEW n \in Nat, NEW s \in Bijection(1..n, S)
    PROVE  s \in Seq(S) /\ Len(s) = n /\ Range(s) = S /\ IsInjective(s)
<1>1. s \in [1..n -> S] /\ IsInjective(s) /\ \A x \in S : \E i \in 1..n : s[i] = x
  BY DEF Bijection, Injection, Surjection
<1>2. s \in Seq(S) /\ Len(s) = n
  BY <1>1
<1>3. Range(s) = S
  BY <1>1 DEF Range
<1>4. QED
  BY <1>1, <1>2, <1>3

\* Concatenation joins the elements.
LEMMA ConcatLists ==
    ASSUME NEW S, NEW s \in Seq(S), NEW r \in Seq(S)
    PROVE  /\ s \o r \in Seq(S)
           /\ Range(s \o r) = Range(s) \cup Range(r)
           /\ IsInjective(s) /\ IsInjective(r) /\ Range(s) \cap Range(r) = {} => IsInjective(s \o r)
<1> DEFINE q == s \o r
<1>1. /\ q \in Seq(S) /\ Len(q) = Len(s) + Len(r)
      /\ \A i \in 1..(Len(s) + Len(r)) : q[i] = IF i <= Len(s) THEN s[i] ELSE r[i - Len(s)]
  OBVIOUS
<1>2. /\ Len(s) \in Nat /\ DOMAIN s = 1..Len(s) /\ Len(r) \in Nat /\ DOMAIN r = 1..Len(r)
      /\ DOMAIN q = 1..(Len(s) + Len(r))
  BY <1>1
<1> HIDE DEF q
<1>3. /\ \A i \in DOMAIN s : i \in DOMAIN q /\ q[i] = s[i]
      /\ \A i \in DOMAIN r : i + Len(s) \in DOMAIN q /\ q[i + Len(s)] = r[i]
      /\ \A i \in DOMAIN q : \/ i \in DOMAIN s /\ q[i] = s[i]
                             \/ i - Len(s) \in DOMAIN r /\ q[i] = r[i - Len(s)]
  <2>1. \A i \in DOMAIN s : i \in DOMAIN q /\ q[i] = s[i]
    BY <1>1, <1>2
  <2>2. ASSUME NEW i \in DOMAIN r PROVE i + Len(s) \in DOMAIN q /\ q[i + Len(s)] = r[i]
    <3>1. i + Len(s) \in 1..(Len(s) + Len(r)) /\ ~(i + Len(s) <= Len(s)) /\ (i + Len(s)) - Len(s) = i
      BY <1>2, <2>2
    <3>2. QED
      BY <1>1, <1>2, <3>1
  <2>3. ASSUME NEW i \in DOMAIN q
        PROVE  \/ i \in DOMAIN s /\ q[i] = s[i]
               \/ i - Len(s) \in DOMAIN r /\ q[i] = r[i - Len(s)]
    BY <1>1, <1>2, <2>3
  <2>4. QED
    BY <2>1, <2>2, <2>3
<1>4. Range(q) = Range(s) \cup Range(r)
  <2>1. ASSUME NEW x \in Range(q) PROVE x \in Range(s) \cup Range(r)
    BY <1>3, <2>1 DEF Range
  <2>2. ASSUME NEW x \in Range(s) PROVE x \in Range(q)
    BY <1>3, <2>2 DEF Range
  <2>3. ASSUME NEW x \in Range(r) PROVE x \in Range(q)
    BY <1>3, <2>3 DEF Range
  <2>4. QED
    BY <2>1, <2>2, <2>3
<1>5. IsInjective(s) /\ IsInjective(r) /\ Range(s) \cap Range(r) = {} => IsInjective(q)
  <2> SUFFICES ASSUME IsInjective(s), IsInjective(r), Range(s) \cap Range(r) = {},
                      NEW i \in DOMAIN q, NEW j \in DOMAIN q, q[i] = q[j]
               PROVE  i = j
    BY DEF IsInjective
  <2>1. \A a \in DOMAIN s, b \in DOMAIN r : s[a] # r[b]
    BY DEF Range
  <2>2. QED
    BY <1>2, <1>3, <2>1 DEF IsInjective
<1>6. QED
  BY <1>1, <1>4, <1>5 DEF q

(* Ranks, lists and free numbers *)

\* The image of a finite set under a function is finite.
LEMMA ImageFinite ==
    ASSUME NEW S, IsFiniteSet(S), NEW f
    PROVE  IsFiniteSet({f[x] : x \in S})
<1> DEFINE g == [x \in S |-> f[x]]
<1>1. g \in Surjection(S, {f[x] : x \in S})
  BY DEF Surjection
<1>2. QED
  BY <1>1, FS_Surjection

\* Ranks count from 1 and grow with the elements.
LEMMA RankOrder ==
    ASSUME NEW S \in SUBSET Int, IsFiniteSet(S)
    PROVE  /\ \A x \in S : Rank(S, x) \in 1..Cardinality(S)
           /\ \A x, y \in S : x < y => Rank(S, x) < Rank(S, y)
<1> DEFINE Upto(x) == {y \in S : y <= x}
<1>1. \A x \in S : IsFiniteSet(Upto(x)) /\ Cardinality(Upto(x)) \in Nat
                    /\ Cardinality(Upto(x)) <= Cardinality(S)
  BY FS_Subset, FS_CardinalityType
<1>2. ASSUME NEW x \in S PROVE Cardinality(Upto(x)) # 0
  <2>1. x \in Upto(x)
    OBVIOUS
  <2>2. QED
    BY <1>1, <2>1, FS_EmptySet
<1>3. ASSUME NEW x \in S, NEW y \in S, x < y
      PROVE  Cardinality(Upto(x)) < Cardinality(Upto(y))
  <2>1. x \in Int /\ y \in Int /\ \A z \in S : z <= x => z <= y
    BY <1>3
  <2>2. Upto(x) \in SUBSET Upto(y)
    BY <2>1, Zenon
  <2>3. y <= y /\ ~(y <= x)
    BY <1>3, <2>1
  <2>4. y \in Upto(y) /\ y \notin Upto(x)
    BY <2>3
  <2>5. Upto(x) # Upto(y)
    BY <2>4
  <2>6. QED
    BY <1>1, <2>2, <2>5, FS_Subset
<1>4. Cardinality(S) \in Nat
  BY FS_CardinalityType
<1>5. QED
  BY <1>1, <1>2, <1>3, <1>4 DEF Rank

\* Ascending lists the elements of a set of integers.
LEMMA AscendingLists ==
    ASSUME NEW S \in SUBSET Int, IsFiniteSet(S)
    PROVE  Ascending(S) \in Bijection(1..Cardinality(S), S)
<1> DEFINE D == 1..Cardinality(S)
           r == [x \in S |-> Rank(S, x)]
<1>1. Cardinality(S) \in Nat
  BY FS_CardinalityType
<1>2. r \in [S -> D] /\ \A x, y \in S : x # y => r[x] # r[y]
  BY RankOrder
<1>3. r \in Injection(S, D)
  BY <1>2 DEF Injection, IsInjective
<1>4. IsFiniteSet(D) /\ Cardinality(D) = Cardinality(S)
  BY <1>1, FS_Interval
<1>5. r \in Surjection(S, D)
  BY <1>3, <1>4, FS_Injection
<1>6. \A i \in D : \E x \in S : Rank(S, x) = i
  BY <1>5, Zenon DEF Surjection
<1>7. \A i \in D : Ascending(S)[i] \in S /\ Rank(S, Ascending(S)[i]) = i
  BY <1>6 DEF Ascending
<1>8. Ascending(S) \in [D -> S]
  BY <1>7 DEF Ascending
<1>9. Ascending(S) \in Injection(D, S)
  BY <1>7, <1>8 DEF Injection, IsInjective, Ascending
<1>10. Ascending(S) \in Surjection(D, S)
  BY <1>4, <1>9, FS_Injection
<1>11. QED
  BY <1>9, <1>10 DEF Bijection

\* The lists with no and with one element.
LEMMA ShortLists ==
    ASSUME NEW S
    PROVE  /\ \A s \in Seq(S) : s = <<>> <=> Range(s) = {}
           /\ \A x \in S : <<x>> \in Seq(S) /\ Len(<<x>>) = 1 /\ Range(<<x>>) = {x} /\ IsInjective(<<x>>)
<1>1. ASSUME NEW s \in Seq(S) PROVE s = <<>> <=> Range(s) = {}
  <2>1. Len(s) \in Nat /\ DOMAIN s = 1..Len(s) /\ (s # <<>> => Len(s) # 0)
    OBVIOUS
  <2>2. CASE s = <<>>
    BY <2>2 DEF Range
  <2>3. CASE s # <<>>
    <3>1. s[1] \in Range(s)
      BY <2>1, <2>3 DEF Range
    <3>2. QED
      BY <2>3, <3>1
  <2>4. QED
    BY <2>2, <2>3
<1>2. ASSUME NEW x \in S PROVE <<x>> \in Seq(S) /\ Len(<<x>>) = 1 /\ Range(<<x>>) = {x} /\ IsInjective(<<x>>)
  BY DEF Range, IsInjective
<1>3. QED
  BY <1>1, <1>2

\* A list of elements of a set is a list of elements of a larger one.
LEMMA WiderList ==
    ASSUME NEW S, NEW T, S \subseteq T, NEW s \in Seq(S)
    PROVE  s \in Seq(T)
OBVIOUS

\* Appending adds one element.
LEMMA AppendList ==
    ASSUME NEW S, NEW s \in Seq(S), NEW x \in S
    PROVE  /\ Append(s, x) \in Seq(S)
           /\ Range(Append(s, x)) = Range(s) \cup {x}
           /\ IsInjective(s) /\ x \notin Range(s) => IsInjective(Append(s, x))
<1> DEFINE q == Append(s, x)
<1>1. /\ q \in Seq(S) /\ Len(q) = Len(s) + 1 /\ q[Len(s) + 1] = x
      /\ \A i \in 1..Len(s) : q[i] = s[i]
  OBVIOUS
<1>2. Len(s) \in Nat /\ DOMAIN s = 1..Len(s) /\ DOMAIN q = 1..(Len(s) + 1)
  BY <1>1
<1> HIDE DEF q
<1>3. Range(q) = Range(s) \cup {x}
  BY <1>1, <1>2 DEF Range
<1>4. IsInjective(s) /\ x \notin Range(s) => IsInjective(q)
  BY <1>1, <1>2 DEF Range, IsInjective
<1>5. QED
  BY <1>1, <1>3, <1>4 DEF q

\* A list is its head and its tail, which in a list without repetitions does
\* not have the head again.
LEMMA TailList ==
    ASSUME NEW S, NEW s \in Seq(S), s # <<>>
    PROVE  /\ Tail(s) \in Seq(S) /\ Head(s) \in S
           /\ Range(s) = {Head(s)} \cup Range(Tail(s))
           /\ IsInjective(s) => IsInjective(Tail(s)) /\ Head(s) \notin Range(Tail(s))
<1> DEFINE q == Tail(s)
<1>1. /\ q \in Seq(S) /\ Len(q) = Len(s) - 1 /\ Head(s) \in S
      /\ \A i \in 1..Len(q) : q[i] = s[i + 1]
  OBVIOUS
<1>2. Len(s) \in Nat \ {0} /\ DOMAIN s = 1..Len(s) /\ DOMAIN q = 1..(Len(s) - 1) /\ Head(s) = s[1]
  BY <1>1
<1> HIDE DEF q
<1>3. Range(s) = {Head(s)} \cup Range(q)
  <2>1. \A i \in 1..Len(s) : i = 1 \/ (i - 1 \in 1..Len(q) /\ s[i] = q[i - 1])
    BY <1>1, <1>2
  <2>2. \A i \in 1..Len(q) : i + 1 \in 1..Len(s)
    BY <1>1, <1>2
  <2>3. ASSUME NEW x \in Range(s) PROVE x = Head(s) \/ x \in Range(q)
    <3>1. PICK i \in 1..Len(s) : x = s[i]
      BY <1>2, <2>3 DEF Range
    <3>2. CASE i = 1
      BY <1>2, <3>1, <3>2
    <3>3. CASE i # 1
      <4>1. i - 1 \in DOMAIN q /\ x = q[i - 1]
        BY <1>1, <1>2, <2>1, <3>1, <3>3
      <4>2. QED
        BY <4>1 DEF Range
    <3>4. QED
      BY <3>2, <3>3
  <2>4. ASSUME NEW x \in Range(q) PROVE x \in Range(s)
    <3>1. PICK i \in 1..Len(q) : x = q[i]
      BY <1>1, <1>2, <2>4 DEF Range
    <3>2. i + 1 \in DOMAIN s /\ x = s[i + 1]
      BY <1>1, <1>2, <2>2, <3>1
    <3>3. QED
      BY <3>2 DEF Range
  <2>5. Head(s) \in Range(s)
    BY <1>2 DEF Range
  <2>6. QED
    BY <2>3, <2>4, <2>5
<1>4. ASSUME IsInjective(s) PROVE IsInjective(q) /\ Head(s) \notin Range(q)
  <2>1. \A i \in DOMAIN q : i + 1 \in DOMAIN s /\ i + 1 # 1 /\ q[i] = s[i + 1]
    BY <1>1, <1>2
  <2>2. Head(s) \notin Range(q)
    BY <1>2, <1>4, <2>1 DEF Range, IsInjective
  <2>3. \A i, j \in DOMAIN q : q[i] = q[j] => i + 1 = j + 1
    BY <1>4, <2>1 DEF IsInjective
  <2>4. QED
    BY <1>2, <2>2, <2>3 DEF IsInjective
<1>5. QED
  BY <1>1, <1>3, <1>4 DEF q

\* The n-th free number exists, however the numbers in use lie, and it is the
\* n-th: the least i with n free numbers up to it is itself free.
LEMMA FreeNumberIs ==
    ASSUME NEW used \in SUBSET Nat, IsFiniteSet(used), NEW from \in Nat, NEW n \in Nat \ {0}
    PROVE  /\ FreeNumber(used, from, n) \in Nat
           /\ FreeNumber(used, from, n) > from
           /\ FreeNumber(used, from, n) \notin used
           /\ Cardinality(((from + 1)..FreeNumber(used, from, n)) \ used) = n
<1> DEFINE Free(i) == ((from + 1)..i) \ used
           top == from + n + Cardinality(used)
           T == {i \in Nat : i > from /\ Cardinality(Free(i)) >= n}
           m == Min(T)
<1>1. \A i \in Nat : IsFiniteSet(Free(i)) /\ Cardinality(Free(i)) \in Nat
  <2>1. \A i \in Nat : IsFiniteSet((from + 1)..i)
    BY FS_Interval
  <2>2. \A i \in Nat : IsFiniteSet(Free(i))
    BY <2>1, FS_Difference, Zenon
  <2>3. QED
    BY <2>2, FS_CardinalityType
<1>2. Cardinality(used) \in Nat /\ top \in Nat /\ top > from
  BY FS_CardinalityType
<1>3. Cardinality(Free(top)) >= n
  <2> DEFINE I == (from + 1)..top
  <2>1. IsFiniteSet(I) /\ Cardinality(I) = n + Cardinality(used)
    BY <1>2, FS_Interval
  <2>2. IsFiniteSet(I \cap used) /\ Cardinality(I \cap used) <= Cardinality(used)
    BY FS_Intersection, Zenon
  <2>3. Cardinality(I \cap used) \in Nat
    BY <2>2, FS_CardinalityType
  <2>4. Cardinality(I \ used) = Cardinality(I) - Cardinality(I \cap used)
    BY <2>1, FS_Difference, Zenon
  <2>5. QED
    BY <1>2, <2>1, <2>2, <2>3, <2>4
<1>4. top \in T
  BY <1>2, <1>3
<1>5. m \in T /\ \A i \in T : m <= i
  <2>1. T \in SUBSET Nat /\ T # {}
    BY <1>4, Zenon
  <2>2. QED
    BY <2>1, LeastOf, Zenon
<1> HIDE DEF m, T
<1>6. m \in Nat /\ m > from /\ m <= top /\ Cardinality(Free(m)) >= n /\ m - 1 \in Nat
  BY <1>4, <1>5 DEF T
<1>7. Cardinality(Free(m - 1)) < n
  <2>1. CASE m - 1 > from
    <3>1. m - 1 \notin T
      BY <1>5, <1>6
    <3>2. ~(Cardinality(Free(m - 1)) >= n)
      BY <1>6, <2>1, <3>1 DEF T
    <3>3. Cardinality(Free(m - 1)) \in Nat
      BY <1>1, <1>6
    <3>4. QED
      BY <3>2, <3>3
  <2>2. CASE m - 1 = from
    <3>1. Free(m - 1) = {}
      BY <2>2
    <3>2. QED
      BY <3>1, FS_EmptySet
  <2>3. QED
    BY <1>6, <2>1, <2>2
<1>8. ASSUME m \in used PROVE FALSE
  <2>1. Free(m) = Free(m - 1)
    BY <1>6, <1>8
  <2>2. QED
    BY <1>1, <1>6, <1>7, <2>1
<1>9. Cardinality(Free(m)) = n
  <2>1. Free(m) = Free(m - 1) \cup {m} /\ m \notin Free(m - 1)
    BY <1>6, <1>8
  <2>2. Cardinality(Free(m)) = Cardinality(Free(m - 1)) + 1
    BY <1>1, <1>6, <2>1, FS_AddElement, Zenon
  <2>3. Cardinality(Free(m - 1)) \in Nat /\ Cardinality(Free(m)) \in Nat
    BY <1>1, <1>6
  <2>4. QED
    BY <1>6, <1>7, <2>2, <2>3
<1>10. m \in (from + 1)..top
  BY <1>2, <1>6
<1>11. LET i == FreeNumber(used, from, n)
       IN  i \in (from + 1)..top /\ i \notin used /\ Cardinality(Free(i)) = n
  BY <1>8, <1>9, <1>10, Zenon DEF FreeNumber
<1>12. QED
  BY <1>2, <1>11

(* The transactions and their queues *)

\* There are finitely many transactions and queues, numbered from 1.
LEMMA Finite ==
    ASSUME InputInv
    PROVE  /\ IsFiniteSet(Txs) /\ Txs \subseteq Nat \ {0}
           /\ IsFiniteSet(Keys) /\ Keys \subseteq Nat
           /\ Queues \subseteq Keys /\ IsFiniteSet(Queues)
           /\ \A k : DepQueue(k) \subseteq Queues /\ k \notin DepQueue(k)
<1>1. rset \in [Txs -> SUBSET Keys] /\ wset \in [Txs -> SUBSET Keys] /\ Txs = 1..Len(rset)
  BY DEF InputInv
<1>2. Len(rset) \in Nat
  <2>1. rset \in Seq(SUBSET Keys)
    BY <1>1
  <2>2. QED
    BY <2>1
<1>3. IsFiniteSet(Txs) /\ Txs \subseteq Nat \ {0}
  <2>1. IsFiniteSet(1..Len(rset))
    BY <1>2, FS_Interval
  <2>2. 1..Len(rset) \subseteq Nat \ {0}
    BY <1>2
  <2>3. QED
    BY <1>1, <2>1, <2>2
<1>4. IsFiniteSet(Keys) /\ Keys \subseteq Nat
  BY WorkloadAssumption, FS_Interval DEF WorkloadAssumption, Keys
<1>5. Queues \subseteq Keys
  BY <1>1 DEF Queues
<1>6. IsFiniteSet(Queues)
  BY <1>4, <1>5, FS_Subset, Zenon
<1>7. ASSUME NEW k PROVE DepQueue(k) \subseteq Queues /\ k \notin DepQueue(k)
  BY <1>1 DEF Queues, DepQueue, Writers
<1>8. QED
  BY <1>3, <1>4, <1>5, <1>6, <1>7

\* findMaxNode returns one of the queues it is given.
LEMMA FindMaxIn ==
    ASSUME InputInv, NEW U \in SUBSET Queues, U # {}, NEW in, \A k \in U : in[k] \in Nat
    PROVE  FindMaxNode(U, in) \in U
<1> DEFINE degrees == {in[k] : k \in U}
           least == {k \in U : \A l \in U : in[k] <= in[l]}
           arcs == [k \in least |-> Cardinality(DepQueue(k))]
           most == {k \in least : \A l \in least : Cardinality(DepQueue(k)) >= Cardinality(DepQueue(l))}
<1>1. U \subseteq Nat /\ IsFiniteSet(U)
  BY Finite, FS_Subset
<1>2. least # {}
  <2>1. degrees \in SUBSET Nat /\ degrees # {}
    OBVIOUS
  <2>2. Min(degrees) \in degrees /\ \A d \in degrees : Min(degrees) <= d
    BY <2>1, LeastOf, Zenon
  <2>3. PICK k \in U : in[k] = Min(degrees)
    BY <2>2, Zenon
  <2>4. QED
    BY <2>2, <2>3
<1>3. most # {}
  <2> DEFINE counts == {arcs[k] : k \in least}
  <2>1. \A k : IsFiniteSet(DepQueue(k))
    BY Finite, FS_Subset
  <2>2. \A k : Cardinality(DepQueue(k)) \in Nat
    BY <2>1, FS_CardinalityType
  <2>3. counts \in SUBSET Nat /\ counts # {}
    BY <1>2, <2>2, Zenon
  <2>4. IsFiniteSet(least)
    BY <1>1, FS_Subset
  <2>5. IsFiniteSet(counts)
    BY <2>4, ImageFinite, ZenonT(30)
  <2>6. Max(counts) \in counts /\ \A d \in counts : d <= Max(counts)
    BY <2>3, <2>5, GreatestOf, Zenon
  <2>7. PICK k \in least : arcs[k] = Max(counts)
    BY <2>6, Zenon
  <2>8. \A l \in least : Cardinality(DepQueue(l)) <= Cardinality(DepQueue(k))
    BY <2>6, <2>7, Zenon
  <2>9. \A l \in least : Cardinality(DepQueue(k)) >= Cardinality(DepQueue(l))
    BY <2>2, <2>8
  <2>10. QED
    BY <2>9
<1>4. Min(most) \in U
  <2>1. most \in SUBSET Nat
    BY <1>1, Zenon
  <2>2. QED
    BY <1>3, <2>1, LeastOf, Zenon
<1>5. QED
  BY <1>4 DEF FindMaxNode

-----------------------------------------------------------------------------
(* QueuesSort *)

\* The queues depend on the input only.
LEMMA QueuesKept ==
    ASSUME UNCHANGED inputVars
    PROVE  /\ Txs' = Txs /\ Queues' = Queues /\ Listed' = Listed
           /\ \A k : DepQueue(k)' = DepQueue(k) /\ Readers(k)' = Readers(k) /\ Writers(k)' = Writers(k)
           /\ \A s : SlotWriters(s)' = SlotWriters(s)
BY DEF inputVars, Txs, Queues, Listed, DepQueue, Readers, Writers, SlotWriters

\* Before the first turn.
LEMMA SortInit ==
    ASSUME InputInv, QueueInit
    PROVE  SortInv
<1> DEFINE zero == {k \in Queues : inDegree[k] = 0}
           Into(k) == {l \in Queues : k \in DepQueue(l)}
<1>1. \A k : IsFiniteSet(Into(k)) /\ Cardinality(Into(k)) \in Nat
  BY Finite, FS_Subset, FS_CardinalityType
<1>2. /\ inDegree = [k \in Keys |-> Cardinality(Into(k))] /\ sequence = <<>>
      /\ zeroDegree = IF zero = {} /\ Queues # {} THEN <<FindMaxNode(Queues, inDegree)>>
                       ELSE Ascending(zero)
  BY DEF QueueInit
<1>3. inDegree \in [Keys -> Nat] /\ \A k \in Queues : inDegree[k] = Cardinality(Into(k))
  BY <1>1, <1>2, Finite, Zenon
<1>4. Range(sequence) = {} /\ IsInjective(sequence) /\ Unsorted = Queues /\ sequence \in Seq(Queues)
  BY <1>2 DEF Range, IsInjective, Unsorted
<1>5. CASE zero = {} /\ Queues # {}
  <2>1. zeroDegree = <<FindMaxNode(Queues, inDegree)>> /\ FindMaxNode(Queues, inDegree) \in Queues
    BY <1>2, <1>3, <1>5, FindMaxIn, Finite, Zenon
  <2>2. zeroDegree \in Seq(Queues) /\ Len(zeroDegree) = 1 /\ Range(zeroDegree) \subseteq Queues
        /\ IsInjective(zeroDegree) /\ zeroDegree # <<>>
    BY <2>1 DEF Range, IsInjective
  <2>3. QED
    BY <1>3, <1>4, <1>5, <2>2 DEF SortInv
<1>6. CASE ~(zero = {} /\ Queues # {})
  <2>1. zero \in SUBSET Int /\ IsFiniteSet(zero)
    BY Finite, FS_Subset
  <2>2. zeroDegree \in Seq(zero) /\ Range(zeroDegree) = zero /\ IsInjective(zeroDegree)
    BY <1>2, <1>6, <2>1, AscendingLists, EnumeratesAll, FS_CardinalityType, Zenon
  <2>3. zeroDegree \in Seq(Queues)
    BY <2>2
  <2>4. Queues # {} => zeroDegree # <<>>
    BY <1>6, <2>2 DEF Range
  <2>5. QED
    BY <1>3, <1>4, <2>2, <2>3, <2>4 DEF SortInv
<1>7. QED
  BY <1>5, <1>6

\* A turn keeps the degrees exact and never leaves the list empty while a queue
\* is unsorted: if no queue is free, the list had only the one just sorted, and
\* findMaxNode appends another.
LEMMA SortStep ==
    ASSUME InputInv, SortInv, Created, zeroDegree # <<>>, SortVertex, UNCHANGED <<inputVars, pc>>
    PROVE  SortInv'
<1> DEFINE top == Head(zeroDegree)
           left == Queues \ (Range(sequence) \cup {top})
           in == [k \in Keys |-> IF k \in DepQueue(top) \cap left THEN inDegree[k] - 1 ELSE inDegree[k]]
           From(U, k) == {l \in U : k \in DepQueue(l)}
           freed == {k \in DepQueue(top) \cap left : in[k] = 0}
<1>1. PICK zero \in Bijection(1..Cardinality(freed), freed) :
         /\ inDegree' = in
         /\ sequence' = Append(sequence, top)
         /\ zeroDegree' = Tail(zeroDegree) \o zero \o Stuck(top, left, in)
  BY Zenon DEF SortVertex, Turn
<1>2. /\ inDegree \in [Keys -> Int] /\ sequence \in Seq(Queues) /\ zeroDegree \in Seq(Queues)
      /\ IsInjective(sequence) /\ IsInjective(zeroDegree)
      /\ Range(zeroDegree) \subseteq Unsorted
      /\ \A k \in Unsorted : inDegree[k] = Cardinality(From(Unsorted, k))
      /\ \A k \in Unsorted : inDegree[k] = 0 => k \in Range(zeroDegree)
      /\ Len(zeroDegree) > 1 => \A k \in Range(zeroDegree) : inDegree[k] = 0
  BY DEF SortInv, Created
<1>3. /\ Tail(zeroDegree) \in Seq(Queues) /\ top \in Queues
      /\ Range(zeroDegree) = {top} \cup Range(Tail(zeroDegree))
      /\ IsInjective(Tail(zeroDegree)) /\ top \notin Range(Tail(zeroDegree))
  BY <1>2, TailList, Zenon
<1>4. top \in Unsorted /\ left = Unsorted \ {top} /\ Range(Tail(zeroDegree)) \subseteq left
  BY <1>2, <1>3, Zenon DEF Unsorted
<1>5. /\ sequence' \in Seq(Queues) /\ IsInjective(sequence')
      /\ Range(sequence') = Range(sequence) \cup {top}
  BY <1>1, <1>2, <1>4, AppendList DEF Unsorted
<1>6. ASSUME NEW U \in SUBSET Queues, NEW k
      PROVE  IsFiniteSet(From(U, k)) /\ Cardinality(From(U, k)) \in Nat
  BY Finite, FS_Subset, FS_CardinalityType
<1>7. ASSUME NEW k \in left
      PROVE  in[k] = Cardinality(From(left, k)) /\ in[k] \in Nat /\ inDegree[k] \in Nat
  <2>1. From(left, k) = From(Unsorted, k) \ {top} /\ k \in Keys /\ k \in Unsorted /\ Unsorted \subseteq Queues
    BY <1>4, <1>7, Finite DEF Unsorted
  <2>2. IsFiniteSet(From(Unsorted, k)) /\ Cardinality(From(Unsorted, k)) \in Nat
    BY <1>6, <2>1, Zenon
  <2>3. Cardinality(From(left, k)) =
          IF top \in From(Unsorted, k) THEN Cardinality(From(Unsorted, k)) - 1 ELSE Cardinality(From(Unsorted, k))
    BY <2>1, <2>2, FS_RemoveElement, Zenon
  <2>4. top \in From(Unsorted, k) <=> k \in DepQueue(top) \cap left
    BY <1>4, <1>7
  <2>5. in[k] = Cardinality(From(left, k)) /\ inDegree[k] = Cardinality(From(Unsorted, k))
    BY <1>2, <2>1, <2>3, <2>4
  <2>6. Cardinality(From(left, k)) \in Nat
    BY <1>6, Zenon
  <2>7. QED
    BY <2>2, <2>5, <2>6
<1>8. freed \subseteq left /\ zero \in Seq(Queues) /\ Range(zero) = freed /\ IsInjective(zero)
  <2>1. IsFiniteSet(freed) /\ freed \subseteq Queues /\ freed \subseteq left
    BY Finite, FS_Subset, Zenon
  <2>2. zero \in Seq(freed) /\ Range(zero) = freed /\ IsInjective(zero)
    BY <1>1, <2>1, EnumeratesAll, FS_CardinalityType, Zenon
  <2>3. QED
    BY <2>1, <2>2, WiderList, Zenon
<1>9. /\ Unsorted' = left /\ Queues' = Queues /\ left \subseteq Keys
      /\ \A k \in left : From(left, k) = {l \in left : k \in DepQueue(l)'}
  BY <1>5, QueuesKept, Finite DEF Unsorted
<1>10. \A k \in left : in[k] = IF k \in DepQueue(top) THEN inDegree[k] - 1 ELSE inDegree[k]
  BY <1>9
<1>11. \A k : k \in freed <=> k \in DepQueue(top) /\ k \in left /\ in[k] = 0
  OBVIOUS
<1> DEFINE tail == Tail(zeroDegree)
<1>12. /\ left \subseteq Queues /\ From(Unsorted, top) \subseteq left
       /\ (IF left = {} THEN inDegree[top] > 0 ELSE \A k \in left : in[k] > 0)
             => Stuck(top, left, in) = <<FindMaxNode(left, in)>>
       /\ ~(IF left = {} THEN inDegree[top] > 0 ELSE \A k \in left : in[k] > 0)
             => Stuck(top, left, in) = <<>>
  BY <1>4, Finite, Zenon DEF Stuck
<1> HIDE DEF in, left, freed, From, top, tail
<1>13. SUFFICES /\ zeroDegree' \in Seq(Queues) /\ IsInjective(zeroDegree') /\ Range(zeroDegree') \subseteq left
                /\ left # {} => zeroDegree' # <<>>
                /\ \A k \in left : in[k] = 0 => k \in Range(zeroDegree')
                /\ Len(zeroDegree') > 1 => \A k \in Range(zeroDegree') : in[k] = 0
  <2>1. in \in [Keys -> Int]
    BY <1>2 DEF in
  <2>2. \A k \in left : in[k] = Cardinality({l \in left : k \in DepQueue(l)'})
    BY <1>7, <1>9, Zenon
  <2>3. QED
    BY <1>1, <1>5, <1>9, <1>13, <2>1, <2>2, Zenon DEF SortInv
<1>14. ASSUME NEW k \in Range(tail) PROVE k \in left /\ inDegree[k] = 0 /\ in[k] = 0
  <2>1. tail \in Seq(Queues) /\ tail # <<>>
    BY <1>3, <1>14, ShortLists, Zenon DEF tail
  <2>2. Len(zeroDegree) > 1
    BY <1>2, <2>1 DEF tail
  <2>3. inDegree[k] = 0 /\ k \in left
    BY <1>2, <1>3, <1>4, <1>14, <2>2, Zenon DEF tail
  <2>4. in[k] \in Nat /\ (in[k] = inDegree[k] - 1 \/ in[k] = inDegree[k])
    BY <1>7, <1>10, <2>3
  <2>5. QED
    BY <2>3, <2>4
<1>15. CASE left # {} /\ \A k \in left : in[k] > 0
  <2>1. tail = <<>>
    <3>1. Range(tail) = {}
      BY <1>14, <1>15
    <3>2. QED
      BY <1>3, <3>1, ShortLists, Zenon DEF tail
  <2>2. zero = <<>>
    <3>1. freed = {}
      BY <1>11, <1>15
    <3>2. QED
      BY <1>8, <3>1, ShortLists
  <2>3. FindMaxNode(left, in) \in left /\ left \in SUBSET Queues
    BY <1>7, <1>12, <1>15, FindMaxIn
  <2>4. Stuck(top, left, in) = <<FindMaxNode(left, in)>>
    BY <1>12, <1>15
  <2>5. zeroDegree' = <<FindMaxNode(left, in)>>
    <3> DEFINE f == FindMaxNode(left, in)
    <3>1. zeroDegree' = <<>> \o <<>> \o <<f>>
      BY <1>1, <2>1, <2>2, <2>4, Zenon DEF tail
    <3>2. <<f>> \in Seq(Queues)
      BY <2>3, ShortLists
    <3>3. QED
      BY <3>1, <3>2
  <2>6. /\ zeroDegree' \in Seq(left) /\ Len(zeroDegree') = 1 /\ IsInjective(zeroDegree')
        /\ Range(zeroDegree') = {FindMaxNode(left, in)}
    BY <2>3, <2>5, ShortLists
  <2>7. zeroDegree' \in Seq(Queues) /\ zeroDegree' # <<>>
    BY <2>3, <2>6, ShortLists, SMTT(20)
  <2>8. QED
    BY <1>15, <2>3, <2>6, <2>7
<1>16. CASE ~(left # {} /\ \A k \in left : in[k] > 0)
  <2>1. Stuck(top, left, in) = <<>>
    <3>1. CASE left = {}
      <4>1. From(Unsorted, top) = {}
        BY <1>12, <3>1
      <4>2. inDegree[top] = 0
        BY <1>2, <1>4, <4>1, FS_EmptySet DEF From
      <4>3. QED
        BY <1>12, <3>1, <4>2
    <3>2. CASE left # {}
      BY <1>12, <1>16, <3>2
    <3>3. QED
      BY <3>1, <3>2
  <2>2. zeroDegree' = tail \o zero
    <3>1. tail \o zero \in Seq(Queues)
      BY <1>3, <1>8, ConcatLists DEF tail
    <3>2. zeroDegree' = (tail \o zero) \o <<>>
      BY <1>1, <2>1 DEF tail
    <3>3. QED
      BY <3>1, <3>2
  <2>3. ASSUME NEW k \in freed PROVE k \in left /\ inDegree[k] = 1 /\ in[k] = 0
    <3>1. k \in left /\ k \in DepQueue(top) /\ in[k] = 0
      BY <1>11, <2>3
    <3>2. inDegree[k] \in Nat /\ in[k] = inDegree[k] - 1
      BY <1>7, <1>10, <3>1
    <3>3. QED
      BY <3>1, <3>2
  <2>4. Range(tail) \cap Range(zero) = {}
    <3>1. \A k \in Range(zero) : inDegree[k] = 1
      BY <1>8, <2>3
    <3>2. QED
      BY <1>14, <3>1
  <2>5. /\ zeroDegree' \in Seq(Queues) /\ IsInjective(zeroDegree')
        /\ Range(zeroDegree') = Range(tail) \cup freed
    <3>1. tail \in Seq(Queues) /\ IsInjective(tail)
      BY <1>3 DEF tail
    <3>2. /\ tail \o zero \in Seq(Queues) /\ IsInjective(tail \o zero)
          /\ Range(tail \o zero) = Range(tail) \cup Range(zero)
      BY <1>8, <2>4, <3>1, ConcatLists
    <3>3. QED
      BY <1>8, <2>2, <3>2
  <2>6. ASSUME NEW k \in left, in[k] = 0 PROVE k \in Range(zeroDegree')
    <3>1. CASE k \in DepQueue(top)
      BY <1>11, <2>5, <2>6, <3>1
    <3>2. CASE k \notin DepQueue(top)
      <4>1. inDegree[k] = 0
        BY <1>10, <2>6, <3>2
      <4>2. k \in Unsorted /\ k # top
        BY <1>4 DEF left
      <4>3. QED
        BY <1>2, <1>3, <2>5, <4>1, <4>2 DEF tail
    <3>3. QED
      BY <3>1, <3>2
  <2>7. ASSUME left # {} PROVE zeroDegree' # <<>>
    <3>1. PICK k \in left : ~(in[k] > 0)
      BY <1>16, <2>7
    <3>2. in[k] = 0
      BY <1>7, <3>1
    <3>3. QED
      BY <2>5, <2>6, <3>2, ShortLists
  <2>8. Range(zeroDegree') \subseteq left /\ \A k \in Range(zeroDegree') : in[k] = 0
    BY <1>14, <2>3, <2>5
  <2>9. QED
    BY <2>5, <2>6, <2>7, <2>8
<1>17. QED
  BY <1>15, <1>16

-----------------------------------------------------------------------------
(* The order of the queues, when their dependencies are acyclic *)

\* Whether the dependencies are acyclic depends on the input only.
LEMMA AcyclicKept ==
    ASSUME UNCHANGED inputVars
    PROVE  Acyclic' <=> Acyclic
BY DEF Acyclic, Queues, DepQueue, Writers, Txs, inputVars

\* Without cycles the queue that AdvancedTopologicalSort takes is free: every
\* queue with an arc to it is in the sequence.
LEMMA HeadIsFree ==
    ASSUME InputInv, SortInv, pc = "start", Acyclic, zeroDegree # <<>>,
           NEW l \in Queues, Head(zeroDegree) \in DepQueue(l)
    PROVE  l \in Range(sequence)
<1> DEFINE top == Head(zeroDegree)
           From(k) == {m \in Unsorted : k \in DepQueue(m)}
<1>1. /\ zeroDegree \in Seq(Queues) /\ Range(zeroDegree) \subseteq Unsorted
      /\ \A k \in Unsorted : inDegree[k] = Cardinality(From(k))
      /\ \A k \in Unsorted : inDegree[k] = 0 => k \in Range(zeroDegree)
      /\ Len(zeroDegree) > 1 => \A k \in Range(zeroDegree) : inDegree[k] = 0
  BY DEF SortInv
<1>2. /\ Range(zeroDegree) = {top} \cup Range(Tail(zeroDegree)) /\ top \in Unsorted
      /\ Tail(zeroDegree) \in Seq(Queues)
  BY <1>1, TailList
<1>3. \A k : IsFiniteSet(From(k))
  BY Finite, FS_Subset DEF Unsorted
<1>4. inDegree[top] = 0
  <2>1. CASE Len(zeroDegree) > 1
    BY <1>1, <1>2, <2>1
  <2>2. CASE ~(Len(zeroDegree) > 1)
    <3>1. Tail(zeroDegree) = <<>>
      BY <1>1, <2>2
    <3>2. Range(zeroDegree) = {top}
      BY <1>2, <3>1 DEF Range
    <3>3. PICK k \in Unsorted : \A m \in Unsorted : k \notin DepQueue(m)
      BY <1>2, Zenon DEF Acyclic, Unsorted
    <3>4. From(k) = {}
      BY <3>3
    <3>5. inDegree[k] = 0
      BY <1>1, <3>4, FS_EmptySet, Zenon
    <3>6. QED
      BY <1>1, <3>2, <3>3, <3>5
  <2>3. QED
    BY <2>1, <2>2
<1>5. From(top) = {}
  BY <1>1, <1>2, <1>3, <1>4, FS_EmptySet, Zenon
<1>6. QED
  BY <1>5 DEF Unsorted

\* A turn of QueuesSort: the queue it appends comes after those with an arc to it.
LEMMA TurnKeepsOrder ==
    ASSUME InputInv, SortInv, OrderInv, Created, zeroDegree # <<>>, SortVertex, UNCHANGED <<inputVars, pc>>
    PROVE  OrderInv'
<1> DEFINE top == Head(zeroDegree)
           n == Len(sequence)
<1>1. pc = "start" /\ pc' = "start" /\ Queues' = Queues /\ \A l : DepQueue(l)' = DepQueue(l)
  BY QueuesKept, Zenon DEF Created
<1>2. sequence' = Append(sequence, top) /\ sequence \in Seq(Queues) /\ IsInjective(sequence)
  BY DEF SortVertex, Turn, SortInv, OrderInv
<1>3. top \in Unsorted
  <2>1. top \in Range(zeroDegree) /\ Range(zeroDegree) \subseteq Unsorted
    BY <1>1, TailList DEF SortInv
  <2>2. QED
    BY <2>1
<1>4. IsInjective(sequence')
  BY <1>2, <1>3, AppendList DEF Unsorted
<1>5. /\ n \in Nat /\ DOMAIN sequence = 1..n /\ DOMAIN sequence' = 1..(n + 1)
      /\ sequence'[n + 1] = top /\ \A i \in 1..n : sequence'[i] = sequence[i]
  BY <1>2, <1>3 DEF Unsorted
<1>6. ASSUME Acyclic', NEW j \in 1..(n + 1), NEW l \in Queues, sequence'[j] \in DepQueue(l)
      PROVE  \E i \in 1..(j - 1) : sequence'[i] = l
  <2>1. Acyclic
    BY <1>6, AcyclicKept
  <2>2. CASE j = n + 1
    <3>1. l \in Range(sequence)
      BY <1>1, <1>5, <1>6, <2>1, <2>2, HeadIsFree
    <3>2. PICK i \in 1..n : sequence[i] = l
      BY <1>5, <3>1 DEF Range
    <3>3. QED
      BY <1>5, <2>2, <3>2
  <2>3. CASE j \in 1..n
    <3>1. PICK i \in 1..(j - 1) : sequence[i] = l
      BY <1>1, <1>5, <1>6, <2>1, <2>3, Zenon DEF OrderInv
    <3>2. QED
      BY <1>5, <2>3, <3>1
  <2>4. QED
    BY <1>5, <2>2, <2>3
<1>7. QED
  BY <1>1, <1>4, <1>5, <1>6 DEF OrderInv

\* QueuesSort is done: every arc leads from an earlier queue to a later one.
LEMMA SequenceInOrder ==
    ASSUME InputInv, SortInv, OrderInv, pc = "start", zeroDegree = <<>>, pc' = "DeSS",
           UNCHANGED <<inputVars, sequence, seq, aborted>>
    PROVE  OrderInv'
<1>1. Unsorted' = {} /\ Range(sequence) = Queues /\ IsInjective(sequence)
  <2>1. Unsorted = {} /\ sequence \in Seq(Queues)
    BY DEF SortInv
  <2>2. Range(sequence) \subseteq Queues
    BY <2>1 DEF Range
  <2>3. QED
    BY <2>1, <2>2, QueuesKept, Zenon DEF Unsorted, OrderInv
<1>2. ASSUME Acyclic, NEW i \in DOMAIN sequence, NEW k \in DepQueue(sequence[i])
      PROVE  \E j \in DOMAIN sequence : i < j /\ sequence[j] = k
  <2>1. sequence[i] \in Queues /\ k \in Queues /\ DOMAIN sequence = 1..Len(sequence) /\ Len(sequence) \in Nat
    BY <1>1, Finite DEF SortInv, Range
  <2>2. PICK j \in DOMAIN sequence : sequence[j] = k
    BY <1>1, <2>1 DEF Range
  <2>3. PICK h \in 1..(j - 1) : sequence[h] = sequence[i]
    BY <1>2, <2>1, <2>2 DEF OrderInv
  <2>4. h = i
    BY <1>1, <2>1, <2>3 DEF IsInjective
  <2>5. QED
    BY <2>1, <2>2, <2>3, <2>4
<1>3. QED
  BY <1>1, <1>2, AcyclicKept, QueuesKept DEF OrderInv

-----------------------------------------------------------------------------
(* sortInQueue *)

\* What SortReaders leaves: every reader of k has a number, numbers do not get
\* lost or change for those not aborted, and a reader that is not aborted is at
\* most at maxRead.
ReadersSorted(k, r) ==
    /\ r.seq \in [Txs -> Nat] /\ r.assigned \in [Txs -> SUBSET Keys] /\ r.maxRead \in Nat
    /\ \A t \in Txs : seq[t] # 0 \/ t \in Readers(k) => r.seq[t] # 0
    /\ \A t \in Txs \ aborted : seq[t] # 0 => r.seq[t] = seq[t]
    /\ \A t \in Readers(k) \ aborted : r.seq[t] <= r.maxRead /\ k \in r.assigned[t]

\* Readers and writers are transactions.
LEMMA QueueFinite ==
    ASSUME InputInv, NEW k
    PROVE  /\ Readers(k) \subseteq Txs /\ Writers(k) \subseteq Txs
           /\ \A S \in SUBSET Txs : IsFiniteSet(S)
BY Finite, FS_Subset, Zenon DEF Readers, Writers

\* The readers' half of sortInQueue.
LEMMA SortReadersSorts ==
    ASSUME InputInv, NumberInv, NEW k \in Keys
    PROVE  ReadersSorted(k, SortReaders(k))
<1> DEFINE placed  == {t \in Readers(k) \ aborted : seq[t] # 0}
           fresh   == IF placed = {} THEN Readers(k) ELSE {t \in Readers(k) : seq[t] = 0}
           readSeq == IF placed = {} THEN InitialSequence ELSE Min({seq[t] : t \in placed})
           seqR    == [t \in Txs |-> IF t \in fresh THEN readSeq ELSE seq[t]]
           known   == [t \in Txs |-> assigned[t] \cup IF t \in placed \cup fresh THEN {k} ELSE {}]
           counted == IF placed = {} THEN fresh ELSE placed
           maxRead == Max({0} \cup {seqR[t] : t \in counted})
<1>1. SortReaders(k) = [seq |-> seqR, assigned |-> known, maxRead |-> maxRead]
  BY DEF SortReaders
<1>2. seq \in [Txs -> Nat] /\ assigned \in [Txs -> SUBSET Keys] /\ Readers(k) \subseteq Txs
  BY QueueFinite, Zenon DEF NumberInv
<1>3. readSeq \in Nat \ {0} /\ (placed # {} => \A t \in placed : readSeq <= seq[t])
  <2>1. CASE placed = {}
    BY <2>1 DEF InitialSequence
  <2>2. CASE placed # {}
    <3> DEFINE given == {seq[t] : t \in placed}
    <3>1. given \in SUBSET (Nat \ {0}) /\ given # {}
      BY <1>2, <2>2
    <3>2. Min(given) \in given /\ \A n \in given : Min(given) <= n
      BY <3>1, LeastOf, Zenon
    <3>3. QED
      BY <2>2, <3>1, <3>2
  <2>3. QED
    BY <2>1, <2>2
<1>4. /\ placed \subseteq Readers(k) /\ fresh \subseteq Readers(k)
      /\ \A t \in placed : seq[t] # 0
      /\ \A t \in Readers(k) : t \in fresh \/ seq[t] # 0
      /\ \A t \in Readers(k) \ aborted : t \in placed \/ t \in fresh
      /\ placed # {} => placed \cap fresh = {}
      /\ placed = {} => fresh = Readers(k)
      /\ \A t \in fresh \ aborted : seq[t] = 0
  OBVIOUS
<1> HIDE DEF readSeq, placed, fresh
<1>5. /\ seqR \in [Txs -> Nat] /\ \A t \in fresh : seqR[t] = readSeq
      /\ \A t \in Txs \ fresh : seqR[t] = seq[t]
  BY <1>2, <1>3, <1>4
<1>6. /\ known \in [Txs -> SUBSET Keys]
      /\ \A t \in Readers(k) \ aborted : k \in known[t]
  BY <1>2, <1>4
<1>7. /\ \A t \in Txs : seq[t] # 0 \/ t \in Readers(k) => seqR[t] # 0
      /\ \A t \in Txs \ aborted : seq[t] # 0 => seqR[t] = seq[t]
  BY <1>3, <1>4, <1>5
<1> HIDE DEF seqR, known
<1>8. maxRead \in Nat /\ \A t \in counted : seqR[t] <= maxRead
  <2> DEFINE all == {seqR[t] : t \in counted}
  <2>1. counted \in SUBSET Txs
    BY <1>2, <1>4
  <2>2. all \in SUBSET Nat
    BY <1>5, <2>1
  <2>3. IsFiniteSet(all)
    BY <2>1, QueueFinite, ImageFinite
  <2>4. IsFiniteSet(all \cup {0})
    BY <2>3, FS_AddElement
  <2>5. {0} \cup all \in SUBSET Nat /\ IsFiniteSet({0} \cup all) /\ {0} \cup all # {}
    <3>1. {0} \cup all = all \cup {0}
      OBVIOUS
    <3>2. QED
      BY <2>2, <2>4, <3>1
  <2>6. Max({0} \cup all) \in {0} \cup all /\ \A n \in {0} \cup all : n <= Max({0} \cup all)
    BY <2>5, GreatestOf, Zenon
  <2>7. QED
    BY <2>2, <2>6
<1> HIDE DEF maxRead
<1>9. ASSUME NEW t \in Readers(k) \ aborted PROVE seqR[t] <= maxRead
  <2>1. CASE t \in counted
    BY <1>8, <2>1
  <2>2. CASE t \notin counted
    <3>1. placed # {} /\ t \in fresh
      BY <1>4, <2>2
    <3>2. PICK u \in placed : TRUE
      BY <3>1
    <3>3. seqR[u] = seq[u] /\ u \in counted /\ u \in Txs
      BY <1>2, <1>4, <1>5, <3>1, <3>2, Zenon
    <3>4. seqR[t] <= seqR[u] /\ seqR[u] <= maxRead /\ seqR[t] \in Nat /\ seqR[u] \in Nat
      BY <1>2, <1>3, <1>5, <1>8, <3>1, <3>3, Zenon
    <3>5. QED
      BY <1>8, <3>4
  <2>3. QED
    BY <2>1, <2>2
<1>10. QED
  BY <1>1, <1>5, <1>6, <1>7, <1>8, <1>9, SMTT(20) DEF ReadersSorted

\* Transactions listed by their number, and by their place in the list where it
\* is the same, have different places.
LEMMA PlacesDiffer ==
    ASSUME NEW S \in SUBSET Nat, IsFiniteSet(S), NEW f \in [S -> Nat]
    PROVE  LET earlier(t) == {u \in S : f[u] < f[t] \/ (f[u] = f[t] /\ u <= t)}
           IN  /\ \A t \in S : Cardinality(earlier(t)) \in Nat \ {0}
               /\ \A t, u \in S : t # u => Cardinality(earlier(t)) # Cardinality(earlier(u))
<1> DEFINE earlier(t) == {u \in S : f[u] < f[t] \/ (f[u] = f[t] /\ u <= t)}
<1>1. \A t \in S : IsFiniteSet(earlier(t)) /\ Cardinality(earlier(t)) \in Nat
  BY FS_Subset, FS_CardinalityType
<1>2. ASSUME NEW t \in S PROVE Cardinality(earlier(t)) # 0
  <2>1. t \in earlier(t)
    OBVIOUS
  <2>2. QED
    BY <1>1, <2>1, FS_EmptySet
<1>3. ASSUME NEW t \in S, NEW u \in S, f[t] < f[u] \/ (f[t] = f[u] /\ t < u)
      PROVE  Cardinality(earlier(t)) # Cardinality(earlier(u))
  <2>1. t \in Nat /\ u \in Nat /\ f[t] \in Nat /\ f[u] \in Nat
    OBVIOUS
  <2>2. ASSUME NEW v \in earlier(t) PROVE v \in earlier(u)
    <3>1. v \in S /\ v \in Nat /\ f[v] \in Nat /\ (f[v] < f[t] \/ (f[v] = f[t] /\ v <= t))
      BY <2>2
    <3>2. f[v] < f[u] \/ (f[v] = f[u] /\ v <= u)
      BY <1>3, <2>1, <3>1
    <3>3. QED
      BY <3>1, <3>2
  <2>3. u \in earlier(u)
    BY <2>1
  <2>4. ~(f[u] < f[t] \/ (f[u] = f[t] /\ u <= t))
    BY <1>3, <2>1
  <2>5. u \notin earlier(t)
    BY <2>4
  <2>6. earlier(t) \in SUBSET earlier(u) /\ earlier(t) # earlier(u)
    BY <2>2, <2>3, <2>5, ZenonT(30)
  <2>7. QED
    BY <1>1, <2>6, FS_Subset
<1>4. ASSUME NEW t \in S, NEW u \in S, t # u
      PROVE  Cardinality(earlier(t)) # Cardinality(earlier(u))
  <2>1. t \in Nat /\ u \in Nat /\ f[t] \in Nat /\ f[u] \in Nat
    OBVIOUS
  <2>2. \/ f[t] < f[u] \/ (f[t] = f[u] /\ t < u)
        \/ f[u] < f[t] \/ (f[u] = f[t] /\ u < t)
    BY <1>4, <2>1
  <2>3. QED
    BY <1>3, <2>2
<1>5. QED
  BY <1>1, <1>2, <1>4

\* What sortInQueue leaves in the queue of k, besides the types: numbers do not
\* get lost and everyone has one, at most one transaction that reads and writes k
\* is kept, writers have different numbers and readers lower ones; and the numbers
\* of those that stay change for writers only, and upwards.
QueueInOrder(k, n) ==
    /\ n.seq \in [Txs -> Nat] /\ n.assigned \in [Txs -> SUBSET Keys]
    /\ aborted \subseteq n.aborted /\ n.aborted \subseteq Txs
    /\ \A t \in Txs : seq[t] # 0 \/ t \in Readers(k) \cup Writers(k) => n.seq[t] # 0
    /\ scheme = "nezha" => \A t, u \in (Readers(k) \cap Writers(k)) \ n.aborted : t = u
    /\ \A t, u \in Writers(k) \ n.aborted : t # u => n.seq[t] # n.seq[u]
    /\ \A t \in Readers(k) \ n.aborted, u \in Writers(k) \ n.aborted :
          t # u /\ (scheme = "nezha" \/ t \notin Writers(k)) => n.seq[t] < n.seq[u]
    /\ \A t \in Txs \ n.aborted : seq[t] # 0 =>
          seq[t] <= n.seq[t] /\ (t \notin Writers(k) => n.seq[t] = seq[t])

\* The writers' half of sortInQueue.  The writers that stay are those moved behind
\* the readers, those without a number before, and those that keep or change
\* theirs: each group is numbered apart from the others.
LEMMA SortWritersSorts ==
    ASSUME InputInv, NumberInv, NEW k \in Keys, NEW r, ReadersSorted(k, r)
    PROVE  QueueInOrder(k, SortWriters(k, r))
<1> DEFINE ordered == {t \in Writers(k) \ aborted : r.seq[t] # 0}
           late    == {t \in ordered : r.seq[t] <= r.maxRead}
           same    == {t \in late : k \in r.assigned[t]}
           before  == {t \in late \ same : r.assigned[t] # {}}
           rest    == ordered \ (same \cup before)
           numbers == {r.seq[t] : t \in rest}
           base    == IF r.maxRead = 0 THEN InitialSequence - 1 ELSE r.maxRead
           moved   == Moved(same)
           maxSame == base + Cardinality(moved)
           unset   == {t \in Writers(k) : r.seq[t] = 0}
           seqW    == [t \in Txs |-> IF t \in moved THEN base + Rank(moved, t)
                                     ELSE IF t \in unset THEN FreeNumber(numbers, maxSame, Rank(unset, t))
                                     ELSE r.seq[t]]
           maxW    == Max({maxSame} \cup {seqW[t] : t \in unset} \cup numbers)
           newRead == IF same = {} THEN r.maxRead ELSE maxSame
           twice   == Renumbered(rest, r.seq, newRead)
           earlier(t) == {u \in twice : r.seq[u] < r.seq[t] \/ (r.seq[u] = r.seq[t] /\ u <= t)}
           last    == [t \in Txs |-> IF t \in twice THEN maxW + Cardinality(earlier(t)) ELSE seqW[t]]
           gone    == aborted \cup before \cup (same \ moved)
<1>1. SortWriters(k, r) = [seq |-> last, assigned |-> r.assigned, aborted |-> gone]
  BY ZenonT(30) DEF SortWriters
<1>2. /\ r.seq \in [Txs -> Nat] /\ r.assigned \in [Txs -> SUBSET Keys] /\ r.maxRead \in Nat
      /\ \A t \in Txs : seq[t] # 0 \/ t \in Readers(k) => r.seq[t] # 0
      /\ \A t \in Txs \ aborted : seq[t] # 0 => r.seq[t] = seq[t]
      /\ \A t \in Readers(k) \ aborted : r.seq[t] <= r.maxRead /\ k \in r.assigned[t]
  BY DEF ReadersSorted
<1>3. Readers(k) \subseteq Txs /\ Writers(k) \subseteq Txs /\ aborted \subseteq Txs /\ Txs \subseteq Nat \ {0}
  BY QueueFinite, Finite DEF NumberInv
<1>4. /\ same \subseteq Writers(k) /\ before \subseteq Writers(k) /\ rest \subseteq Writers(k) /\ unset \subseteq Writers(k)
      /\ rest \cap same = {} /\ rest \cap unset = {} /\ same \cap unset = {}
      /\ \A t \in rest : r.seq[t] # 0
      /\ \A t \in unset : r.seq[t] = 0
      /\ \A t \in same : r.seq[t] <= r.maxRead
      /\ \A t \in Writers(k) \ aborted : t \in unset \/ t \in same \/ t \in before \/ t \in rest
  BY ZenonT(30)
<1>5. (Readers(k) \cap Writers(k)) \ aborted \subseteq same
  BY <1>2, <1>3, Zenon
<1> HIDE DEF ordered, late, same, before, rest, unset
<1>6. moved \subseteq same /\ (scheme = "nezha" => \A t, u \in moved : t = u)
  <2>1. CASE scheme = "nezha" /\ same # {}
    <3>1. same \in SUBSET Nat
      BY <1>3, <1>4, Zenon
    <3>2. Min(same) \in same
      BY <2>1, <3>1, LeastOf
    <3>3. QED
      BY <2>1, <3>2 DEF Moved
  <2>2. CASE ~(scheme = "nezha" /\ same # {})
    BY <2>2, Zenon DEF Moved
  <2>3. QED
    BY <2>1, <2>2
<1> HIDE DEF moved
<1>7. base \in Nat \ {0} /\ r.maxRead <= base
  BY <1>2 DEF InitialSequence
<1> HIDE DEF base
<1>8. /\ IsFiniteSet(moved) /\ Cardinality(moved) \in Nat /\ moved \in SUBSET Int
      /\ IsFiniteSet(unset) /\ unset \in SUBSET Int /\ IsFiniteSet(rest) /\ rest \in SUBSET Txs
  <2>1. moved \in SUBSET Txs /\ unset \in SUBSET Txs /\ rest \in SUBSET Txs
    BY <1>3, <1>4, <1>6
  <2>2. IsFiniteSet(moved) /\ IsFiniteSet(unset) /\ IsFiniteSet(rest)
    BY <2>1, QueueFinite
  <2>3. moved \in SUBSET Int /\ unset \in SUBSET Int
    BY <1>3, <2>1
  <2>4. QED
    BY <2>1, <2>2, <2>3, FS_CardinalityType, Zenon
<1>9. maxSame \in Nat \ {0} /\ base <= maxSame
  BY <1>7, <1>8
<1>10. /\ \A t \in moved : base + Rank(moved, t) \in Nat /\ base + Rank(moved, t) > base
                             /\ base + Rank(moved, t) <= maxSame
       /\ \A t, u \in moved : t # u => base + Rank(moved, t) # base + Rank(moved, u)
  <2>1. /\ \A t \in moved : Rank(moved, t) \in 1..Cardinality(moved)
        /\ \A t, u \in moved : t < u => Rank(moved, t) < Rank(moved, u)
    BY <1>8, RankOrder
  <2>2. \A t, u \in moved : t # u => t < u \/ u < t
    BY <1>8
  <2>3. \A t, u \in moved : t # u => Rank(moved, t) # Rank(moved, u)
    BY <1>8, <2>1, <2>2
  <2>4. QED
    BY <1>7, <1>8, <2>1, <2>3
<1>11. numbers \in SUBSET Nat /\ IsFiniteSet(numbers)
  <2>1. numbers \in SUBSET Nat
    BY <1>2, <1>8, Zenon
  <2>2. IsFiniteSet(numbers)
    BY <1>8, ImageFinite
  <2>3. QED
    BY <2>1, <2>2, Zenon
<1> DEFINE F(t) == FreeNumber(numbers, maxSame, Rank(unset, t))
<1> HIDE DEF maxSame
<1>12. /\ \A t \in unset : F(t) \in Nat /\ F(t) > maxSame /\ F(t) \notin numbers
       /\ \A t, u \in unset : t # u => F(t) # F(u)
  <2> HIDE DEF numbers
  <2>1. /\ \A t \in unset : Rank(unset, t) \in 1..Cardinality(unset)
        /\ \A t, u \in unset : t < u => Rank(unset, t) < Rank(unset, u)
    BY <1>8, RankOrder
  <2>2. \A t, u \in unset : t # u => t < u \/ u < t
    BY <1>8
  <2>3. \A t \in unset : Rank(unset, t) \in Nat \ {0}
    BY <1>8, <2>1, FS_CardinalityType
  <2>4. \A t, u \in unset : t # u => Rank(unset, t) # Rank(unset, u)
    BY <2>1, <2>2, <2>3
  <2>5. ASSUME NEW t \in unset
        PROVE  /\ F(t) \in Nat /\ F(t) > maxSame /\ F(t) \notin numbers
               /\ Cardinality(((maxSame + 1)..F(t)) \ numbers) = Rank(unset, t)
    BY <1>9, <1>11, <2>3, FreeNumberIs, Zenon
  <2>6. QED
    BY <2>4, <2>5, Zenon
<1>13. /\ seqW \in [Txs -> Nat]
       /\ \A t \in moved : seqW[t] = base + Rank(moved, t)
       /\ \A t \in unset : seqW[t] = F(t)
       /\ \A t \in Txs \ (moved \cup unset) : seqW[t] = r.seq[t]
  <2>1. moved \cap unset = {} /\ moved \subseteq Txs /\ unset \subseteq Txs
    BY <1>3, <1>4, <1>6, Zenon
  <2> HIDE DEF numbers
  <2>2. \A t \in Txs : seqW[t] = IF t \in moved THEN base + Rank(moved, t)
                                 ELSE IF t \in unset THEN F(t) ELSE r.seq[t]
    BY Zenon
  <2> HIDE DEF F
  <2>3. \A t \in Txs : seqW[t] \in Nat
    BY <1>2, <1>10, <1>12, <2>1, <2>2, Zenon
  <2>4. seqW \in [Txs -> Nat]
    BY <2>3, Zenon
  <2>5. QED
    BY <2>1, <2>2, <2>4, Zenon
<1> HIDE DEF seqW, F
<1>14. /\ maxW \in Nat /\ maxSame <= maxW
       /\ \A t \in unset : seqW[t] <= maxW
       /\ \A t \in rest : r.seq[t] <= maxW
  <2> DEFINE new == {seqW[t] : t \in unset}
             all == {maxSame} \cup new \cup numbers
  <2>1. IsFiniteSet(new) /\ new \in SUBSET Nat
    <3>1. IsFiniteSet(new)
      BY <1>8, ImageFinite, Zenon
    <3>2. \A t \in unset : seqW[t] \in Nat
      BY <1>12, <1>13
    <3>3. QED
      BY <3>1, <3>2
  <2>2. IsFiniteSet({maxSame} \cup new)
    BY <2>1, FS_Singleton, FS_Union, Zenon
  <2>3. IsFiniteSet(all) /\ all \in SUBSET Nat /\ all # {}
    <3>1. \A S : IsFiniteSet(S) => IsFiniteSet(S \cup numbers)
      BY <1>11, FS_Union, Zenon
    <3>2. QED
      BY <1>9, <1>11, <2>1, <2>2, <3>1
  <2>4. Max(all) \in all /\ \A n \in all : n <= Max(all)
    BY <2>3, GreatestOf, ZenonT(30)
  <2>5. QED
    BY <2>3, <2>4, Zenon
<1> HIDE DEF maxW, numbers
<1>15. newRead \in Nat /\ r.maxRead <= newRead /\ newRead <= maxSame /\ (same # {} => newRead = maxSame)
  BY <1>2, <1>7, <1>9
<1> HIDE DEF newRead
<1>16. /\ twice \subseteq rest
       /\ \A u \in rest \ twice : r.seq[u] > newRead /\ \A v \in rest : v < u => r.seq[v] # r.seq[u]
  BY <1>2, <1>8, <1>15 DEF Renumbered
<1> HIDE DEF twice
<1>17. /\ \A t \in twice : Cardinality(earlier(t)) \in Nat \ {0}
       /\ \A t, u \in twice : t # u => Cardinality(earlier(t)) # Cardinality(earlier(u))
  <2> DEFINE f == [t \in twice |-> r.seq[t]]
             place(t) == {u \in twice : f[u] < f[t] \/ (f[u] = f[t] /\ u <= t)}
  <2>1. twice \in SUBSET Nat /\ twice \in SUBSET Txs
    BY <1>3, <1>8, <1>16
  <2>2. IsFiniteSet(twice)
    BY <2>1, QueueFinite, Zenon
  <2>3. f \in [twice -> Nat]
    BY <1>2, <2>1, Zenon
  <2>4. \A t \in twice : earlier(t) = place(t)
    OBVIOUS
  <2> HIDE DEF f
  <2>5. /\ \A t \in twice : Cardinality(place(t)) \in Nat \ {0}
        /\ \A t, u \in twice : t # u => Cardinality(place(t)) # Cardinality(place(u))
    BY <2>1, <2>2, <2>3, PlacesDiffer, Zenon
  <2> HIDE DEF place, earlier
  <2>6. QED
    BY <2>4, <2>5, Zenon
<1> HIDE DEF earlier
<1>18. /\ last \in [Txs -> Nat]
       /\ \A t \in twice : last[t] = maxW + Cardinality(earlier(t))
       /\ \A t \in Txs \ twice : last[t] = seqW[t]
  <2>1. twice \subseteq Txs
    BY <1>8, <1>16, Zenon
  <2>2. QED
    BY <1>13, <1>14, <1>17, <2>1
<1> HIDE DEF last, gone
<1>19. ASSUME NEW t \in Writers(k) \ gone
       PROVE  t \in moved \/ t \in unset \/ t \in rest \ twice \/ t \in twice
  BY <1>4, <1>19, Zenon DEF gone
<1>20. \A t \in moved : last[t] \in Nat /\ last[t] > base /\ last[t] <= maxSame /\ same # {}
  <2>1. \A t \in moved : t \in Txs \ twice
    BY <1>3, <1>4, <1>6, <1>16, Zenon
  <2>2. QED
    BY <1>6, <1>10, <1>13, <1>18, <2>1
<1>21. \A t \in unset : last[t] \in Nat /\ last[t] > maxSame /\ last[t] <= maxW /\ last[t] \notin numbers /\ last[t] = F(t)
  <2>1. \A t \in unset : t \in Txs \ twice
    BY <1>3, <1>4, <1>16, Zenon
  <2>2. QED
    BY <1>12, <1>13, <1>14, <1>18, <2>1
<1>22. \A t \in rest \ twice : last[t] = r.seq[t] /\ last[t] \in Nat /\ last[t] > newRead /\ last[t] <= maxW /\ last[t] \in numbers
  <2>1. \A t \in rest : t \in Txs \ (moved \cup unset) /\ r.seq[t] \in numbers
    BY <1>3, <1>4, <1>6, Zenon DEF numbers
  <2>2. QED
    BY <1>13, <1>14, <1>16, <1>18, <2>1, Zenon
<1>23. \A t \in twice : last[t] \in Nat /\ last[t] > maxW
  BY <1>14, <1>17, <1>18
<1>24. ASSUME NEW t \in Writers(k) \ gone, NEW u \in Writers(k) \ gone, t # u
       PROVE  last[t] # last[u]
  <2>1. \A a \in moved, b \in unset \cup (rest \ twice) \cup twice : last[a] < last[b]
    BY <1>9, <1>14, <1>15, <1>20, <1>21, <1>22, <1>23, SMTT(20)
  <2>2. \A a \in unset \cup (rest \ twice), b \in twice : last[a] < last[b]
    BY <1>14, <1>21, <1>22, <1>23
  <2>3. \A a \in unset, b \in rest \ twice : last[a] # last[b]
    BY <1>21, <1>22, Zenon
  <2>4. \A a, b \in moved : a # b => last[a] # last[b]
    <3>1. \A a \in moved : last[a] = base + Rank(moved, a)
      BY <1>3, <1>4, <1>6, <1>13, <1>16, <1>18, ZenonT(30)
    <3>2. QED
      BY <1>10, <3>1
  <2>5. \A a, b \in unset : a # b => last[a] # last[b]
    BY <1>12, <1>21, Zenon
  <2>6. \A a, b \in rest \ twice : a # b => last[a] # last[b]
    <3>1. \A a, b \in rest : a # b => a < b \/ b < a
      BY <1>3, <1>8
    <3>2. QED
      BY <1>16, <1>22, <3>1, Zenon
  <2>7. \A a, b \in twice : a # b => last[a] # last[b]
    BY <1>14, <1>17, <1>18
  <2>8. \A a \in moved \cup unset \cup (rest \ twice) \cup twice : last[a] \in Nat
    BY <1>20, <1>21, <1>22, <1>23, Zenon
  <2>9. t \in moved \/ t \in unset \/ t \in rest \ twice \/ t \in twice
    BY <1>19
  <2>10. u \in moved \/ u \in unset \/ u \in rest \ twice \/ u \in twice
    BY <1>19
  <2>11. \A a, b \in Nat : a < b => a # b
    OBVIOUS
  <2>12. QED
    BY <1>24, <2>1, <2>2, <2>3, <2>4, <2>5, <2>6, <2>7, <2>8, <2>9, <2>10, <2>11, Zenon
<1>25. ASSUME NEW t \in Readers(k) \ gone, NEW u \in Writers(k) \ gone, t # u,
              scheme = "nezha" \/ t \notin Writers(k)
       PROVE  last[t] < last[u]
  <2>1. t \in Readers(k) \ aborted
    BY <1>25 DEF gone
  <2>2. u \in moved \/ u \in unset \/ u \in rest \ twice \/ u \in twice
    BY <1>19, Zenon
  <2>3. CASE t \notin Writers(k)
    <3>1. last[t] = r.seq[t] /\ r.seq[t] \in Nat /\ r.seq[t] <= r.maxRead
      BY <1>2, <1>3, <1>4, <1>6, <1>13, <1>16, <1>18, <2>1, <2>3, ZenonT(30)
    <3>2. last[u] \in Nat /\ last[u] > r.maxRead
      <4>1. r.maxRead \in Nat /\ base \in Nat /\ r.maxRead <= base
        BY <1>2, <1>7
      <4>2. CASE u \in moved
        BY <1>20, <4>1, <4>2
      <4>3. CASE u \in unset
        BY <1>9, <1>15, <1>21, <4>1, <4>3
      <4>4. CASE u \in rest \ twice
        BY <1>15, <1>22, <4>1, <4>4
      <4>5. CASE u \in twice
        BY <1>9, <1>14, <1>15, <1>23, <4>1, <4>5
      <4>6. QED
        BY <2>2, <4>2, <4>3, <4>4, <4>5, Zenon
    <3>3. QED
      BY <1>2, <3>1, <3>2
  <2>4. CASE t \in Writers(k)
    <3>1. t \in moved /\ scheme = "nezha"
      BY <1>5, <1>25, <2>1, <2>4, Zenon DEF gone
    <3>2. u \notin moved
      BY <1>6, <1>25, <3>1, Zenon
    <3>3. last[t] \in Nat /\ last[t] <= maxSame /\ newRead = maxSame
      BY <1>15, <1>20, <3>1
    <3>4. last[u] \in Nat /\ last[u] > maxSame
      <4>1. CASE u \in unset
        BY <1>21, <4>1, Zenon
      <4>2. CASE u \in rest \ twice
        BY <1>22, <3>3, <4>2, Zenon
      <4>3. CASE u \in twice
        BY <1>9, <1>14, <1>23, <4>3
      <4>4. QED
        BY <2>2, <3>2, <4>1, <4>2, <4>3, Zenon
    <3>5. QED
      BY <1>9, <3>3, <3>4
  <2>5. QED
    BY <2>3, <2>4
<1>26. scheme = "nezha" => \A t, u \in (Readers(k) \cap Writers(k)) \ gone : t = u
  BY <1>5, <1>6, Zenon DEF gone
<1>27. \A t \in Txs : seq[t] # 0 \/ t \in Readers(k) \cup Writers(k) => last[t] # 0
  <2>1. \A t \in moved : last[t] # 0
    BY <1>7, <1>20
  <2>2. \A t \in unset : last[t] # 0
    BY <1>9, <1>21
  <2>3. \A t \in twice : last[t] # 0
    BY <1>14, <1>23
  <2>4. \A t \in Txs \ (moved \cup unset \cup twice) : last[t] = r.seq[t]
    BY <1>13, <1>18, Zenon
  <2>5. \A t \in Writers(k) : t \in unset \/ r.seq[t] # 0
    BY DEF unset
  <2>6. QED
    BY <1>2, <2>1, <2>2, <2>3, <2>4, <2>5, Zenon
<1>28. aborted \subseteq gone /\ gone \subseteq Txs
  BY <1>3, <1>4, ZenonT(30) DEF gone
<1>29. ASSUME NEW t \in Txs \ gone, seq[t] # 0
       PROVE  seq[t] <= last[t] /\ (t \notin Writers(k) => last[t] = seq[t])
  <2>1. r.seq[t] = seq[t] /\ seq[t] \in Nat
    <3>1. t \in Txs \ aborted /\ seq \in [Txs -> Nat]
      BY Zenon DEF gone, NumberInv
    <3>2. QED
      BY <1>2, <1>29, <3>1
  <2>2. CASE t \notin Writers(k)
    <3>1. t \notin moved /\ t \notin unset /\ t \notin twice
      BY <1>4, <1>6, <1>16, <2>2, Zenon
    <3>2. last[t] = r.seq[t]
      BY <1>13, <1>18, <3>1, Zenon
    <3>3. QED
      BY <2>1, <3>2
  <2>3. CASE t \in Writers(k)
    <3>1. CASE t \in moved
      <4>1. last[t] \in Nat /\ last[t] > base /\ r.seq[t] <= r.maxRead
        BY <1>4, <1>6, <1>20, <3>1, Zenon
      <4>2. QED
        BY <1>2, <1>7, <2>1, <2>3, <4>1
    <3>2. CASE t \in rest \ twice
      BY <1>22, <2>1, <2>3, <3>2
    <3>3. CASE t \in twice
      <4>1. last[t] \in Nat /\ last[t] > maxW /\ r.seq[t] <= maxW
        BY <1>14, <1>16, <1>23, <3>3, Zenon
      <4>2. QED
        BY <1>14, <2>1, <2>3, <4>1
    <3>4. t \notin unset
      BY <1>4, <1>29, <2>1, Zenon
    <3>5. QED
      BY <1>19, <2>3, <3>1, <3>2, <3>3, <3>4, Zenon
  <2>4. QED
    BY <2>2, <2>3, Zenon
<1>30. /\ SortWriters(k, r).seq = last /\ SortWriters(k, r).assigned = r.assigned
       /\ SortWriters(k, r).aborted = gone
  BY <1>1
<1>31. QED
  BY <1>2, <1>18, <1>24, <1>25, <1>26, <1>27, <1>28, <1>29, <1>30, ZenonT(30) DEF QueueInOrder

\* sortInQueue as a whole.
LEMMA SortInQueueSorts ==
    ASSUME InputInv, NumberInv, NEW k \in Keys
    PROVE  QueueInOrder(k, SortInQueue(k))
BY SortReadersSorts, SortWritersSorts, Zenon DEF SortInQueue

-----------------------------------------------------------------------------

(* The inductive invariant *)

\* Nothing is committed before DeSS is done.
LEMMA NothingCommitted ==
    ASSUME CommitInv, ~DeSSDone
    PROVE  /\ level = 0 /\ pc # "done" /\ storing \in [Txs -> SUBSET Keys] /\ db \in [Slots -> Txs \cup {0}]
           /\ \A t \in Txs : storing[t] = {}
           /\ \A s \in Slots : db[s] = 0
BY Zenon DEF CommitInv

\* A step that leaves the commit alone before it starts keeps its invariant.
LEMMA CommitNotStarted ==
    ASSUME CommitInv, ~DeSSDone, UNCHANGED <<inputVars, level, storing, db>>, pc' # "done"
    PROVE  CommitInv'
<1>1. /\ level' = 0 /\ storing' \in [Txs' -> SUBSET Keys] /\ db' \in [Slots -> Txs' \cup {0}]
      /\ \A t \in Txs' : storing'[t] = {}
      /\ \A s \in Slots : db'[s] = 0
  BY NothingCommitted, QueuesKept DEF inputVars
<1>2. \A k \in Keys : SlotOf[k] \in Slots
  BY Zenon DEF Slots
<1>3. QED
  BY <1>1, <1>2 DEF CommitInv

\* Steps keep the input.
LEMMA InputKept ==
    ASSUME InputInv, UNCHANGED inputVars, pc' \in {"start", "DeSS", "done", "panic"}
    PROVE  InputInv'
BY DEF InputInv, inputVars, Txs

\* The list a simulation returned, before the first step.
LEMMA InputInit ==
    ASSUME Simulated
    PROVE  InputInv
<1>1. PICK txs \in Workloads : /\ rset = [t \in DOMAIN txs |-> txs[t][1]]
                               /\ wset = [t \in DOMAIN txs |-> txs[t][2]]
  BY DEF Simulated
<1>2. txs \in Seq((SUBSET Keys) \X (SUBSET Keys))
  BY WorkloadAssumption DEF WorkloadAssumption
<1>3. Len(txs) \in Nat /\ txs \in [1..Len(txs) -> (SUBSET Keys) \X (SUBSET Keys)]
  BY <1>2
<1>4. rset \in [1..Len(txs) -> SUBSET Keys] /\ wset \in [1..Len(txs) -> SUBSET Keys]
  BY <1>1, <1>3
<1>5. rset \in Seq(SUBSET Keys)
  BY <1>3, <1>4
<1>6. Txs = 1..Len(txs) /\ Txs = 1..Len(rset)
  BY <1>4, <1>5 DEF Txs
<1>7. QED
  BY <1>4, <1>6 DEF InputInv, Simulated

\* The invariant holds before the first step.
LEMMA QueueInvInit == Simulated /\ QueueInit => QueueInv
<1> SUFFICES ASSUME Simulated, QueueInit PROVE QueueInv
  OBVIOUS
<1>1. InputInv /\ SortInv
  BY InputInit, SortInit, Zenon
<1>2. /\ seq = [t \in Txs |-> 0] /\ assigned = [t \in Txs |-> {}] /\ aborted = {} /\ level = 0
      /\ storing = [t \in Txs |-> {}] /\ db = [s \in Slots |-> 0] /\ pc = "start"
  BY DEF QueueInit, Simulated
<1>3. NumberInv
  BY <1>2, Zenon DEF NumberInv
<1>4. CommitInv
  BY <1>2 DEF CommitInv
<1>5. OrderInv
  BY <1>2 DEF QueueInit, OrderInv, IsInjective
<1>6. QED
  BY <1>1, <1>3, <1>4, <1>5 DEF QueueInv

\* DeSS sorts the next queue: it joins those in which everyone has a number.
LEMMA DeSSStep ==
    ASSUME InputInv, SortInv, NumberInv, CommitInv, DeSS
    PROVE  InputInv' /\ SortInv' /\ NumberInv' /\ CommitInv'
<1> DEFINE k == Head(sequence)
           n == SortInQueue(k)
<1>1. /\ pc = "DeSS" /\ sequence # <<>> /\ pc' = pc /\ sequence' = Tail(sequence)
      /\ seq' = n.seq /\ assigned' = n.assigned /\ aborted' = n.aborted
      /\ UNCHANGED <<inputVars, inDegree, zeroDegree, level, storing, db>>
  BY DEF DeSS
<1>2. /\ sequence \in Seq(Queues) /\ Tail(sequence) \in Seq(Queues) /\ k \in Queues
      /\ Range(sequence) = {k} \cup Range(Tail(sequence))
  BY <1>1, TailList DEF SortInv
<1>3. QueueInOrder(k, n)
  BY <1>2, Finite, SortInQueueSorts
<1> HIDE DEF k, n
<1>4. InputInv'
  BY <1>1, InputKept, Zenon
<1>5. SortInv'
  BY <1>1, <1>2, QueuesKept DEF SortInv
<1>6. CommitInv'
  BY <1>1, CommitNotStarted, Zenon DEF DeSSDone
<1>7. seq' \in [Txs' -> Nat] /\ assigned' \in [Txs' -> SUBSET Keys] /\ aborted' \subseteq Txs' /\ aborted \subseteq aborted'
  BY <1>1, <1>3, QueuesKept, Zenon DEF QueueInOrder
<1>8. ASSUME NEW l \in Unsorted'
      PROVE  /\ \A t \in Readers(l)' \cup Writers(l)' : seq'[t] # 0
             /\ scheme' = "nezha" => \A t, u \in (Readers(l)' \cap Writers(l)') \ aborted' : t = u
  <2>1. Readers(l)' = Readers(l) /\ Writers(l)' = Writers(l) /\ scheme' = scheme
    BY <1>1, QueuesKept DEF inputVars
  <2>2. l = k \/ l \in Unsorted
    BY <1>1, <1>2, <1>8, QueuesKept DEF Unsorted
  <2>3. Readers(l) \subseteq Txs /\ Writers(l) \subseteq Txs
    BY QueueFinite, Zenon
  <2>4. CASE l = k
    BY <1>1, <1>3, <2>1, <2>3, <2>4, Zenon DEF QueueInOrder
  <2>5. CASE l \in Unsorted
    <3>1. /\ \A t \in Readers(l) \cup Writers(l) : seq[t] # 0
          /\ scheme = "nezha" => \A t, u \in (Readers(l) \cap Writers(l)) \ aborted : t = u
      BY <1>1, <2>5 DEF NumberInv
    <3>2. \A t \in Txs : seq[t] # 0 => seq'[t] # 0
      BY <1>1, <1>3, ZenonT(30) DEF QueueInOrder
    <3>3. QED
      BY <1>7, <2>1, <2>3, <3>1, <3>2, Zenon
  <2>6. QED
    BY <2>2, <2>4, <2>5, Zenon
<1>9. NumberInv'
  BY <1>7, <1>8, Zenon DEF NumberInv
<1>10. QED
  BY <1>4, <1>5, <1>6, <1>9, Zenon

\* Without cycles DeSS has sorted the queues that a transaction writes before one
\* it reads: readers of the queues already sorted keep their numbers, and their
\* writers only get higher ones.
LEMMA DeSSKeepsOrder ==
    ASSUME InputInv, SortInv, NumberInv, OrderInv, DeSS
    PROVE  OrderInv'
<1> DEFINE k == Head(sequence)
           n == SortInQueue(k)
           m == Len(sequence)
<1>1. /\ pc = "DeSS" /\ sequence # <<>> /\ pc' = pc /\ sequence' = Tail(sequence)
      /\ seq' = n.seq /\ aborted' = n.aborted /\ UNCHANGED inputVars
  BY Zenon DEF DeSS
<1>2. /\ sequence \in Seq(Queues) /\ k \in Queues /\ IsInjective(Tail(sequence))
      /\ Range(sequence) = {k} \cup Range(Tail(sequence)) /\ k \notin Range(Tail(sequence))
  BY <1>1, TailList DEF SortInv, OrderInv
<1>3. QueueInOrder(k, n)
  BY <1>2, Finite, SortInQueueSorts
<1> HIDE DEF n
<1>4. /\ m \in Nat \ {0} /\ DOMAIN sequence = 1..m /\ DOMAIN sequence' = 1..(m - 1) /\ sequence[1] = k
      /\ \A i \in 1..(m - 1) : i + 1 \in 1..m /\ sequence'[i] = sequence[i + 1]
  BY <1>1, <1>2
<1> HIDE DEF k, m
<1>5. ASSUME Acyclic', NEW i \in DOMAIN sequence', NEW q \in DepQueue(sequence[i])'
      PROVE  \E j \in DOMAIN sequence' : i < j /\ sequence'[j] = q
  <2>1. i + 1 \in DOMAIN sequence /\ q \in DepQueue(sequence[i + 1]) /\ Acyclic
    <3>1. DepQueue(sequence[i])' = DepQueue(sequence'[i])
      BY <1>1 DEF DepQueue, Writers, Txs, inputVars
    <3>2. QED
      BY <1>1, <1>4, <1>5, <3>1, AcyclicKept, Zenon
  <2>2. PICK j \in DOMAIN sequence : i + 1 < j /\ sequence[j] = q
    BY <1>1, <2>1, Zenon DEF OrderInv
  <2>3. j - 1 \in DOMAIN sequence' /\ i < j - 1 /\ sequence'[j - 1] = q
    BY <1>4, <2>2
  <2>4. QED
    BY <2>3, Zenon
<1>6. ASSUME Acyclic, NEW l \in Unsorted', NEW t \in Readers(l) \ aborted', NEW u \in Writers(l) \ aborted',
             t # u, scheme = "nezha" \/ t \notin Writers(l)
      PROVE  seq'[t] < seq'[u]
  <2>1. l = k \/ l \in Unsorted
    BY <1>1, <1>2, QueuesKept, Zenon DEF Unsorted
  <2>2. CASE l = k
    BY <1>1, <1>3, <1>6, <2>2, Zenon DEF QueueInOrder
  <2>3. CASE l \in Unsorted
    <3>1. /\ t \in Txs \ n.aborted /\ u \in Txs \ n.aborted /\ aborted \subseteq n.aborted
          /\ seq[t] # 0 /\ seq[u] # 0 /\ seq[t] \in Nat /\ seq[u] \in Nat
      BY <1>1, <1>3, <2>3, QueueFinite, Zenon DEF QueueInOrder, NumberInv
    <3>2. t \notin Writers(k)
      <4>1. SUFFICES ASSUME t \in Writers(k) PROVE FALSE
        OBVIOUS
      <4>2. l # k /\ l \notin Range(sequence)
        BY <1>2, <2>3, Zenon DEF Unsorted
      <4>3. l \in DepQueue(sequence[1])
        BY <1>4, <4>1, <4>2 DEF DepQueue, Readers
      <4>4. PICK j \in DOMAIN sequence : sequence[j] = l
        BY <1>1, <1>4, <1>6, <4>3 DEF OrderInv
      <4>5. QED
        BY <4>2, <4>4 DEF Range
    <3>3. seq'[t] = seq[t] /\ seq[u] <= seq'[u] /\ seq'[u] \in Nat
      BY <1>1, <1>3, <3>1, <3>2, Zenon DEF QueueInOrder
    <3>4. seq[t] < seq[u]
      BY <1>1, <1>6, <2>3, <3>1, Zenon DEF OrderInv, ReadersBeforeWriters
    <3>5. QED
      BY <3>1, <3>3, <3>4
  <2>4. QED
    BY <2>1, <2>2, <2>3, Zenon
<1>7. Acyclic' => \A l \in Unsorted' : ReadersBeforeWriters(l)'
  <2>1. scheme' = scheme /\ \A l : Readers(l)' = Readers(l) /\ Writers(l)' = Writers(l)
    BY <1>1, QueuesKept, Zenon DEF inputVars
  <2>2. QED
    BY <1>1, <1>6, <2>1, AcyclicKept, Zenon DEF ReadersBeforeWriters
<1>8. QED
  BY <1>1, <1>2, <1>5, <1>7, Zenon DEF OrderInv

\* Steps that change neither the sequence nor the numbers keep the order.
LEMMA OrderKept ==
    ASSUME OrderInv, UNCHANGED <<inputVars, sequence, seq, aborted>>,
           pc' = pc \/ pc' = "panic" \/ (pc = "DeSS" /\ pc' = "done")
    PROVE  OrderInv'
<1>1. /\ Queues' = Queues /\ Unsorted' = Unsorted /\ scheme' = scheme /\ \A l : DepQueue(l)' = DepQueue(l)
      /\ \A l : ReadersBeforeWriters(l)' <=> ReadersBeforeWriters(l)
  BY QueuesKept DEF Unsorted, ReadersBeforeWriters, inputVars
<1>2. Acyclic' <=> Acyclic
  BY AcyclicKept
<1>3. QED
  BY <1>1, <1>2 DEF OrderInv

\* The driver goes to the next number: it is the least one above the level, so
\* everything below it was stored.
LEMMA NextLevelStep ==
    ASSUME InputInv, NumberInv, CommitInv, NextLevel
    PROVE  CommitInv'
<1> DEFINE m == Min(HigherLevels)
<1>1. /\ pc = "DeSS" /\ sequence = <<>> /\ scheme = "nezha" /\ HigherLevels # {}
      /\ \A t \in Txs : storing[t] = {}
      /\ level' = m
      /\ storing' = [t \in Txs |-> IF t \in Committed /\ seq[t] = level' THEN wset[t] ELSE storing[t]]
      /\ UNCHANGED <<inputVars, pc, sequence, seq, aborted, db>>
  BY ZenonT(30) DEF NextLevel, StartLevel
<1>2. m \in HigherLevels /\ \A y \in HigherLevels : m <= y
  <2>1. HigherLevels \in SUBSET Nat
    BY Zenon DEF HigherLevels
  <2>2. QED
    BY <1>1, <2>1, LeastOf, Zenon
<1> HIDE DEF m
<1>3. m \in Nat /\ level \in Nat /\ m > level
  BY <1>2 DEF HigherLevels, CommitInv
<1>4. /\ Txs' = Txs /\ Committed' = Committed /\ DeSSDone' = DeSSDone /\ DeSSDone
      /\ \A k \in Keys : Writers(k)' = Writers(k)
      /\ \A s \in Slots : SlotWriters(s)' = SlotWriters(s)
      /\ Committed \subseteq Txs
  BY <1>1, ZenonT(30) DEF inputVars, Txs, Committed, Listed, DeSSDone, Writers, SlotWriters
<1>5. seq \in [Txs -> Nat] /\ storing \in [Txs -> SUBSET Keys] /\ db \in [Slots -> Txs \cup {0}]
      /\ wset \in [Txs -> SUBSET Keys]
  BY DEF NumberInv, CommitInv, InputInv
<1>6. storing' \in [Txs' -> SUBSET Keys] /\ level' \in Nat /\ db' \in [Slots -> Txs' \cup {0}]
  BY <1>1, <1>3, <1>4, <1>5, Zenon
<1>7. ASSUME NEW t \in Txs, storing'[t] # {}
      PROVE  t \in Committed /\ seq[t] = m /\ storing'[t] \subseteq wset[t]
  BY <1>1, <1>7, Zenon
<1>8. ASSUME NEW s \in Slots, db[s] # 0
      PROVE  db[s] \in SlotWriters(s) \cap Committed /\ seq[db[s]] <= m
  <2>1. db[s] \in SlotWriters(s) \cap Committed /\ seq[db[s]] <= level
    BY <1>8, Zenon DEF CommitInv
  <2>2. QED
    BY <1>3, <1>4, <1>5, <2>1
<1>9. ASSUME NEW k \in Keys, NEW u \in Writers(k) \cap Committed, seq[u] \in 1..m, k \notin storing'[u]
      PROVE  db[SlotOf[k]] # 0 /\ seq[u] <= seq[db[SlotOf[k]]]
  <2>1. u \in Txs /\ k \in wset[u] /\ seq[u] \in Nat
    BY <1>4, <1>5, Zenon DEF Writers
  <2>2. seq[u] # m
    BY <1>1, <1>9, <2>1, Zenon
  <2>3. seq[u] \notin HigherLevels
    BY <1>2, <1>3, <1>9, <2>1, <2>2
  <2>4. seq[u] \in 1..level
    BY <1>3, <1>9, <2>1, <2>3 DEF HigherLevels
  <2>5. QED
    BY <1>1, <2>1, <2>4, Zenon DEF CommitInv
<1>10. QED
  BY <1>1, <1>4, <1>6, <1>7, <1>8, <1>9, ZenonT(30) DEF CommitInv, inputVars

\* A goroutine of the pool stores one node of the level: the number it leaves in
\* the database is the highest that has been stored.
LEMMA StoreStep ==
    ASSUME InputInv, NumberInv, CommitInv, NEW t \in Txs, NEW k \in storing[t], Store(t, k)
    PROVE  CommitInv'
<1>1. /\ db' = [db EXCEPT ![SlotOf[k]] = t]
      /\ storing' = [storing EXCEPT ![t] = @ \ {k}]
      /\ UNCHANGED <<inputVars, pc, sequence, seq, aborted, level>>
  BY Zenon DEF Store
<1>2. /\ t \in Committed /\ seq[t] = level /\ k \in wset[t] /\ scheme = "nezha" /\ pc = "DeSS" /\ DeSSDone
  BY Zenon DEF CommitInv
<1>3. /\ seq \in [Txs -> Nat] /\ storing \in [Txs -> SUBSET Keys] /\ db \in [Slots -> Txs \cup {0}]
      /\ wset \in [Txs -> SUBSET Keys] /\ level \in Nat /\ 0 \notin Txs
  BY Finite DEF NumberInv, CommitInv, InputInv
<1>4. /\ k \in Keys /\ t \in SlotWriters(SlotOf[k])
      /\ \A l \in Keys : SlotOf[l] \in Slots
  BY <1>2, <1>3, Zenon DEF SlotWriters, Slots
<1>5. /\ Txs' = Txs /\ Committed' = Committed /\ DeSSDone' = DeSSDone
      /\ \A l \in Keys : Writers(l)' = Writers(l)
      /\ \A s \in Slots : SlotWriters(s)' = SlotWriters(s)
  BY <1>1, ZenonT(30) DEF inputVars, Txs, Committed, Listed, DeSSDone, Writers, SlotWriters
<1>6. storing' \in [Txs' -> SUBSET Keys] /\ level' \in Nat /\ db' \in [Slots -> Txs' \cup {0}]
  BY <1>1, <1>3, <1>4, <1>5, Zenon
<1>7. ASSUME NEW u \in Txs, storing'[u] # {}
      PROVE  u \in Committed /\ seq[u] = level /\ storing'[u] \subseteq wset[u]
  <2>1. storing[u] # {} /\ storing'[u] \subseteq storing[u]
    BY <1>1, <1>3, <1>7, Zenon
  <2>2. QED
    BY <2>1, Zenon DEF CommitInv
<1>8. ASSUME NEW s \in Slots, db'[s] # 0
      PROVE  db'[s] \in SlotWriters(s) \cap Committed /\ seq[db'[s]] <= level
  <2>1. CASE s = SlotOf[k]
    BY <1>1, <1>2, <1>3, <1>4, <2>1
  <2>2. CASE s # SlotOf[k]
    <3>1. db'[s] = db[s]
      BY <1>1, <1>3, <2>2, Zenon
    <3>2. QED
      BY <1>8, <3>1, Zenon DEF CommitInv
  <2>3. QED
    BY <2>1, <2>2, Zenon
<1>9. ASSUME NEW l \in Keys, NEW u \in Writers(l) \cap Committed, seq[u] \in 1..level, l \notin storing'[u]
      PROVE  db'[SlotOf[l]] # 0 /\ seq[u] <= seq[db'[SlotOf[l]]]
  <2>1. CASE SlotOf[l] = SlotOf[k]
    BY <1>1, <1>2, <1>3, <1>4, <1>9, <2>1
  <2>2. CASE SlotOf[l] # SlotOf[k]
    <3>1. db'[SlotOf[l]] = db[SlotOf[l]] /\ l \notin storing[u]
      BY <1>1, <1>3, <1>4, <1>9, <2>2, Zenon DEF Writers
    <3>2. QED
      BY <1>9, <3>1, Zenon DEF CommitInv
  <2>3. QED
    BY <2>1, <2>2, Zenon
<1>10. QED
  BY <1>1, <1>2, <1>5, <1>6, <1>7, <1>8, <1>9, ZenonT(30) DEF CommitInv, inputVars

\* The driver has no higher number and nothing left to store.
LEMMA DoneStep ==
    ASSUME CommitInv, QueueSchemeDone
    PROVE  CommitInv'
<1>1. /\ pc = "DeSS" /\ sequence = <<>> /\ pc' = "done"
      /\ scheme = "nezha" => HigherLevels = {} /\ \A t \in Txs : storing[t] = {}
      /\ UNCHANGED <<inputVars, db, sequence, seq, aborted, level, storing>>
  BY DEF QueueSchemeDone, queueVars
<1>2. /\ Txs' = Txs /\ Committed' = Committed /\ DeSSDone /\ DeSSDone' /\ HigherLevels' = HigherLevels
      /\ \A l \in Keys : Writers(l)' = Writers(l)
      /\ \A s \in Slots : SlotWriters(s)' = SlotWriters(s)
  BY <1>1, ZenonT(30) DEF inputVars, Txs, Committed, Listed, DeSSDone, Writers, SlotWriters, HigherLevels
<1>3. \A t \in Txs : storing[t] = {}
  BY <1>1, Zenon DEF CommitInv
<1>4. QED
  BY <1>1, <1>2, <1>3, Zenon DEF CommitInv, inputVars

\* Every step of a queue scheme keeps the invariant.
LEMMA QueueInvStep == QueueInv /\ [QueueNext]_<<inputVars, pc, db, queueVars>> => QueueInv'
<1> SUFFICES ASSUME QueueInv, [QueueNext]_<<inputVars, pc, db, queueVars>> PROVE QueueInv'
  BY Zenon
<1>0. UNCHANGED inputVars
  BY DEF QueueNext, QueueSchemePanics, QueuesSort, QueuesSorted, DeSS, NextLevel, QueueSchemeDone, Store
<1> SUFFICES ASSUME InputInv, SortInv, NumberInv, OrderInv, CommitInv
             PROVE  InputInv' /\ SortInv' /\ NumberInv' /\ OrderInv' /\ CommitInv'
  BY <1>0 DEF QueueInv, inputVars
<1>1. CASE QueueSchemePanics
  <2>1. pc = "start" /\ pc' = "panic" /\ UNCHANGED <<inputVars, db, queueVars>>
    BY <1>1 DEF QueueSchemePanics
  <2>2. InputInv'
    BY <2>1, InputKept
  <2>3. SortInv' /\ NumberInv'
    BY <2>1, QueuesKept, ZenonT(30) DEF SortInv, NumberInv, queueVars
  <2>4. CommitInv'
    BY <2>1, CommitNotStarted, Zenon DEF DeSSDone, queueVars
  <2>5. OrderInv'
    BY <2>1, OrderKept, Zenon DEF queueVars
  <2>6. QED
    BY <2>2, <2>3, <2>4, <2>5
<1>2. CASE QueuesSort
  <2>1. /\ Created /\ zeroDegree # <<>> /\ SortVertex /\ pc = "start"
        /\ UNCHANGED <<inputVars, pc, seq, assigned, aborted, level, storing, db>>
    BY <1>2 DEF QueuesSort, Created
  <2>2. InputInv'
    BY <2>1, InputKept
  <2>3. SortInv'
    BY <2>1, SortStep, Zenon
  <2>4. NumberInv'
    BY <2>1, QueuesKept DEF NumberInv
  <2>5. CommitInv'
    BY <2>1, CommitNotStarted DEF DeSSDone
  <2>6. OrderInv'
    BY <2>1, TurnKeepsOrder, Zenon
  <2>7. QED
    BY <2>2, <2>3, <2>4, <2>5, <2>6, Zenon
<1>3. CASE QueuesSorted
  <2>1. pc = "start" /\ zeroDegree = <<>> /\ pc' = "DeSS" /\ UNCHANGED <<inputVars, db, queueVars>>
    BY <1>3 DEF QueuesSorted, Created
  <2>2. InputInv'
    BY <2>1, InputKept, Zenon
  <2>3. SortInv'
    BY <2>1, QueuesKept, Zenon DEF SortInv, queueVars
  <2>4. NumberInv'
    <3>1. Unsorted' = {}
      BY <2>1, QueuesKept, Zenon DEF SortInv, Unsorted, queueVars
    <3>2. QED
      BY <2>1, <3>1, QueuesKept, Zenon DEF NumberInv, queueVars
  <2>5. CommitInv'
    BY <2>1, CommitNotStarted, Zenon DEF DeSSDone, queueVars
  <2>6. OrderInv'
    BY <2>1, SequenceInOrder DEF queueVars
  <2>7. QED
    BY <2>2, <2>3, <2>4, <2>5, <2>6
<1>4. CASE DeSS
  BY <1>4, DeSSStep, DeSSKeepsOrder
<1>5. ASSUME UNCHANGED <<inputVars, inDegree, zeroDegree, sequence, seq, assigned, aborted>>,
             pc = "DeSS", pc' \in {"DeSS", "done"}
      PROVE  InputInv' /\ SortInv' /\ NumberInv' /\ OrderInv'
  <2>1. InputInv'
    BY <1>5, InputKept, Zenon
  <2>2. SortInv'
    BY <1>5, QueuesKept, Zenon DEF SortInv
  <2>3. Unsorted' = Unsorted
    BY <1>5, QueuesKept, Zenon DEF Unsorted
  <2>4. NumberInv'
    BY <1>5, <2>3, QueuesKept, Zenon DEF NumberInv, inputVars
  <2>5. OrderInv'
    BY <1>5, OrderKept, Zenon
  <2>6. QED
    BY <2>1, <2>2, <2>4, <2>5, Zenon
<1>6. CASE NextLevel
  <2>1. UNCHANGED <<inputVars, inDegree, zeroDegree, sequence, seq, assigned, aborted>> /\ pc = "DeSS" /\ pc' = pc
    BY <1>6, Zenon DEF NextLevel
  <2>2. QED
    BY <1>5, <1>6, <2>1, NextLevelStep, Zenon
<1>7. CASE QueueSchemeDone
  <2>1. UNCHANGED <<inputVars, inDegree, zeroDegree, sequence, seq, assigned, aborted>> /\ pc = "DeSS" /\ pc' = "done"
    BY <1>7, Zenon DEF QueueSchemeDone, queueVars
  <2>2. QED
    BY <1>5, <1>7, <2>1, DoneStep, Zenon
<1>8. ASSUME NEW t \in Txs, NEW k \in storing[t], Store(t, k)
      PROVE  InputInv' /\ SortInv' /\ NumberInv' /\ OrderInv' /\ CommitInv'
  <2>1. UNCHANGED <<inputVars, inDegree, zeroDegree, sequence, seq, assigned, aborted>> /\ pc' = pc
    BY <1>8, Zenon DEF Store
  <2>2. pc = "DeSS"
    BY <1>8, Zenon DEF CommitInv
  <2>3. QED
    BY <1>5, <1>8, <2>1, <2>2, StoreStep, Zenon
<1>9. CASE UNCHANGED <<inputVars, pc, db, queueVars>>
  <2>1. /\ Queues' = Queues /\ Unsorted' = Unsorted /\ DeSSDone' = DeSSDone /\ Committed' = Committed
        /\ HigherLevels' = HigherLevels
    BY <1>9, QueuesKept, ZenonT(30) DEF Unsorted, DeSSDone, Committed, HigherLevels, queueVars
  <2>2. InputInv'
    BY <1>9, InputKept, Zenon DEF InputInv
  <2>3. SortInv'
    BY <1>9, <2>1, QueuesKept, Zenon DEF SortInv, queueVars
  <2>4. NumberInv'
    BY <1>9, <2>1, QueuesKept DEF NumberInv, queueVars, inputVars
  <2>5. CommitInv'
    BY <1>9, <2>1, QueuesKept, ZenonT(30) DEF CommitInv, queueVars, inputVars
  <2>6. OrderInv'
    BY <1>9, OrderKept DEF queueVars
  <2>7. QED
    BY <2>2, <2>3, <2>4, <2>5, <2>6
<1>10. QED
  BY <1>1, <1>2, <1>3, <1>4, <1>6, <1>7, <1>8, <1>9, Zenon DEF QueueNext

-----------------------------------------------------------------------------
(* The theorems *)

\* The queue schemes keep their inductive invariant, for any list of transactions.
THEOREM QueueInvariance == QueueSpec => []QueueInv
<1>1. QED
  BY QueueInvInit, QueueInvStep, PTL DEF QueueSpec

\* QueuesSort returns every queue exactly once: it never runs dry before the last
\* queue, and no queue is appended twice, whatever cycles the arcs form.
THEOREM QueuesSortComplete == QueueSpec => []EveryQueueOnce
<1>1. QueueInv => EveryQueueOnce
  <2> SUFFICES ASSUME QueueInv, Created PROVE IsInjective(sequence) /\ (zeroDegree = <<>> => Range(sequence) = Queues)
    BY DEF EveryQueueOnce
  <2>1. SortInv /\ pc = "start"
    BY DEF QueueInv, Created
  <2>2. Range(sequence) \subseteq Queues
    <3>1. sequence \in Seq(Queues)
      BY <2>1 DEF SortInv
    <3>2. \A i \in 1..Len(sequence) : sequence[i] \in Queues
      BY <3>1
    <3>3. QED
      BY <3>1, <3>2 DEF Range
  <2>3. QED
    BY <2>1, <2>2, ZenonT(30) DEF SortInv, Unsorted
<1>2. QED
  BY <1>1, QueueInvariance, PTL

\* When the dependencies between queues are acyclic, the numbers DeSS gives put
\* every committed reader of a key before its committed overwriters: the commit
\* order is serializable.
THEOREM AcyclicSerializable == QueueSpec => []ReadersFirst
<1>1. QueueInv => ReadersFirst
  <2> SUFFICES ASSUME QueueInv, Sorted, Acyclic, NEW k \in Queues PROVE ReadersBeforeWriters(k)
    BY DEF ReadersFirst
  <2>1. OrderInv /\ pc \in {"DeSS", "done"} /\ sequence = <<>>
    BY DEF QueueInv, Sorted
  <2>2. k \in Unsorted
    BY <2>1 DEF Unsorted, Range
  <2>3. QED
    BY <2>1, <2>2 DEF OrderInv
<1>2. QED
  BY <1>1, QueueInvariance, PTL

\* Of the transactions that read and write one key at most one commits.
THEOREM NoUpdateLost == QueueSpec => []NoLostUpdate
<1>1. QueueInv => NoLostUpdate
  <2> SUFFICES ASSUME QueueInv, Sorted, scheme = "nezha", NEW t \in Committed, NEW u \in Committed, t # u,
                      NEW k, k \in rset[t], k \in wset[t], k \in rset[u], k \in wset[u]
               PROVE  FALSE
    BY Zenon DEF NoLostUpdate
  <2>1. NumberInv /\ pc \in {"DeSS", "done"} /\ sequence = <<>>
    BY Zenon DEF QueueInv, Sorted
  <2>2. t \in Txs /\ u \in Txs /\ t \notin aborted /\ u \notin aborted
    BY Zenon DEF Committed, Listed
  <2>3. k \in Unsorted
    BY <2>1, <2>2 DEF Unsorted, Queues, Range
  <2>4. t \in (Readers(k) \cap Writers(k)) \ aborted /\ u \in (Readers(k) \cap Writers(k)) \ aborted
    BY <2>2, Zenon DEF Readers, Writers
  <2>5. QED
    BY <2>1, <2>3, <2>4, Zenon DEF NumberInv
<1>2. QED
  BY <1>1, QueueInvariance, PTL

\* When the driver is done, every entry of the database holds the value of a
\* committed transaction that writes its slot, in whatever contract, and none of
\* those has a higher number, however the goroutines of the pool interleaved.
THEOREM HighestWriterStored == QueueSpec => []LastWriterStored
<1>1. QueueInv => LastWriterStored
  <2> SUFFICES ASSUME QueueInv, pc = "done", scheme = "nezha", NEW s \in Slots
               PROVE  /\ SlotWriters(s) \cap Committed = {} => db[s] = 0
                      /\ SlotWriters(s) \cap Committed # {} =>
                            /\ db[s] \in SlotWriters(s) \cap Committed
                            /\ \A u \in SlotWriters(s) \cap Committed : seq[u] <= seq[db[s]]
    BY DEF LastWriterStored
  <2>1. InputInv /\ NumberInv /\ CommitInv
    BY Zenon DEF QueueInv
  <2>2. db[s] # 0 => db[s] \in SlotWriters(s) \cap Committed
    BY <2>1, Zenon DEF CommitInv
  <2>3. ASSUME NEW u \in SlotWriters(s) \cap Committed
        PROVE  db[s] # 0 /\ seq[u] <= seq[db[s]]
    <3>1. PICK k \in wset[u] : SlotOf[k] = s
      BY Zenon DEF SlotWriters
    <3>2. u \in Txs /\ k \in Keys /\ u \in Writers(k) \cap Committed
      BY <2>1, Zenon DEF SlotWriters, Writers, InputInv
    <3>3. k \in Unsorted
      BY <2>1, <3>2 DEF CommitInv, DeSSDone, Unsorted, Queues, Range
    <3>4. seq[u] \in Nat /\ seq[u] # 0 /\ level \in Nat
      BY <2>1, <3>2, <3>3, Zenon DEF NumberInv, CommitInv
    <3>5. seq[u] \in 1..level
      BY <2>1, <3>2, <3>4 DEF CommitInv, HigherLevels
    <3>6. storing[u] = {}
      BY <2>1, <3>2 DEF CommitInv
    <3>7. QED
      BY <2>1, <3>1, <3>2, <3>5, <3>6, Zenon DEF CommitInv
  <2>4. QED
    BY <2>2, <2>3, Zenon
<1>2. QED
  BY <1>1, QueueInvariance, PTL

OnlyQueueSchemes == scheme = "cg" => pc = "start"

\* Whichever queue DeSS sorts, and whatever numbers earlier queues gave, the
\* committing writers of that queue get different numbers and its readers come
\* before them.
THEOREM EveryQueueSorted == QueueSpec => QueueSorted
<1>1. Simulated /\ QueueInit => OnlyQueueSchemes
  BY Zenon DEF Simulated, OnlyQueueSchemes
<1>2. OnlyQueueSchemes /\ [QueueNext]_<<inputVars, pc, db, queueVars>> => OnlyQueueSchemes'
  BY DEF OnlyQueueSchemes, QueueNext, QueueSchemePanics, QueuesSort, QueuesSorted, DeSS, NextLevel,
         QueueSchemeDone, Store, Created, inputVars
<1> DEFINE InOrder == LET k == Head(sequence)
                          live(S) == S \ aborted'
                      IN  /\ \A t, u \in live(Writers(k)) : t # u => seq'[t] # seq'[u]
                          /\ \A t \in live(Readers(k)), u \in live(Writers(k)) :
                                t # u /\ (scheme = "nezha" \/ t \notin Writers(k)) => seq'[t] < seq'[u]
<1>3. QueueInv /\ OnlyQueueSchemes => [DeSS => InOrder]_queueVars
  <2> SUFFICES ASSUME QueueInv, OnlyQueueSchemes, DeSS PROVE InOrder
    OBVIOUS
  <2>1. InputInv /\ SortInv /\ NumberInv /\ sequence # <<>>
    BY Zenon DEF QueueInv, OnlyQueueSchemes, DeSS
  <2>2. Head(sequence) \in Keys
    BY <2>1, TailList, Finite DEF SortInv
  <2>3. QueueInOrder(Head(sequence), SortInQueue(Head(sequence)))
    BY <2>1, <2>2, SortInQueueSorts, Zenon
  <2>4. seq' = SortInQueue(Head(sequence)).seq /\ aborted' = SortInQueue(Head(sequence)).aborted
    BY DEF DeSS
  <2>5. QED
    BY <2>3, <2>4, ZenonT(30) DEF QueueInOrder
<1>4. QED
  BY <1>1, <1>2, <1>3, QueueInvariance, PTL DEF QueueSpec, QueueSorted
=============================================================================
