---------------------- MODULE VegetaTrieWorkerProofs ----------------------
(***************************************************************************)
(* The goroutines of a batch of the shared-trie mode of Vegeta keep        *)
(* SharedTrieInv: they receive a transaction, load and finalise objects of  *)
(* the statedb they share, and flush accounts to the one trie.             *)
(***************************************************************************)
EXTENDS VegetaSharedTrie, VegetaDagProofs

\* What the parts of the invariant say together of a state: who is executed, in
\* a batch or in a goroutine.
LEMMA Basics ==
    ASSUME DagInv, BatchInv
    PROVE  /\ batch \subseteq Txs /\ Done \subseteq Txs /\ batch \cap Done = {}
           /\ committed \subseteq Done /\ aborted \subseteq Done
           /\ \A t \in Txs : worker[t] # "none" => phase \in {"run", "panicked"} /\ t \in batch /\ t \notin todo
           /\ phase \notin {"run", "panicked"} => batch = {} /\ todo = {} /\ Rejected = aborted
           /\ phase = "run" => ~BetweenBlocks /\ replayed = {} /\ Flushing \subseteq batch
<1>1. Done \subseteq Txs /\ Range(order) \subseteq Txs
  <2>1. \A i \in DOMAIN order : order[i] \in Txs
    BY DEF DagInv
  <2> QED BY <2>1 DEF Done, Range
<1>2. phase \notin {"run", "panicked"} => batch = {}
  BY DEF DagInv, BatchInv, TypeOK, BetweenBlocks
<1>3. batch \subseteq Txs
  <2>1. phase \in {"run", "panicked"} => ~BetweenBlocks
    BY DEF BetweenBlocks
  <2> QED BY <1>1, <1>2, <2>1 DEF DagInv
<1>4. batch \cap Done = {}
  BY DEF DagInv, Done
<1>5. /\ committed \subseteq Done /\ aborted \subseteq Done /\ todo \subseteq batch
      /\ \A t \in Txs : worker[t] # "none" => t \in batch /\ t \notin todo
  BY DEF BatchInv, TypeOK, Goroutines
<1>6. phase \notin {"run", "panicked"} => Rejected = aborted
  BY <1>2 DEF Rejected
<1>7. phase = "run" => ~BetweenBlocks /\ replayed = {} /\ Flushing \subseteq batch
  BY <1>5 DEF BatchInv, BetweenBlocks, Flushing
<1> QED BY <1>1, <1>2, <1>3, <1>4, <1>5, <1>6, <1>7, ZenonT(30)

\* A transaction of the batch that has not been flushed: nobody has read or
\* replayed anything of it.
LEMMA Undecided ==
    ASSUME DagInv, BatchInv, NEW t \in batch
    PROVE  t \in Txs /\ t \notin Done /\ t \notin committed /\ t \notin aborted
BY Basics, Zenon

\* While what the others have read and written stays the same, so does what the
\* committed transactions left, and the execution stays serial.
LEMMA ValuesKept ==
    ASSUME DagInv, BatchInv, ObjectInv, NEW t, t \notin committed, t \notin replayed,
           UNCHANGED <<order, committed, replayed>>,
           \A u \in Txs \ {t} : real'[u] = real[u] /\ seen'[u] = seen[u]
    PROVE  /\ \A k : BatchBase(k)' = BatchBase(k)
           /\ phase = "run" /\ SerialEquivalence => SerialEquivalence'
<1>1. committed \subseteq Txs /\ committed \subseteq Done
  BY Basics
<1>2. \A u \in committed : Wrote'[u] = Wrote[u] /\ seen'[u] = seen[u]
  BY <1>1 DEF Wrote
<1>3. ASSUME NEW k, NEW n \in Nat
      PROVE  LastWriter(order, k, n, committed, Wrote') = LastWriter(order, k, n, committed, Wrote)
  BY <1>2, LastWriterElsewhere
<1>4. Len(order) \in Nat /\ order \in Seq(Txs) /\ IsInjective(order)
  BY DEF DagInv
<1>5. ASSUME NEW k PROVE BatchBase(k)' = BatchBase(k)
  BY <1>3, <1>4 DEF BatchBase
<1>6. ASSUME phase = "run", SerialEquivalence PROVE SerialEquivalence'
  <2>1. replayed = {} /\ replayed' = {}
    BY <1>6, Basics
  <2>2. ASSUME NEW u \in committed, NEW k \in DOMAIN seen[u]
        PROVE  seen[u][k] = LastWriter(order, k, Position(order, u) - 1, committed, Wrote')
    <3>1. Position(order, u) - 1 \in Nat
      <4>1. u \in Range(order)
        BY <1>1 DEF Done
      <4>2. Position(order, u) \in 1..Len(order)
        BY <1>4, <4>1, PlaceOf
      <4> QED BY <1>4, <4>2
    <3>2. seen[u][k] = LastWriter(order, k, Position(order, u) - 1, committed, Wrote)
      BY <1>6, Zenon DEF SerialEquivalence
    <3> QED BY <1>3, <3>1, <3>2, Zenon
  <2> QED BY <1>2, <2>1, <2>2, ZenonT(30) DEF SerialEquivalence
<1> QED BY <1>5, <1>6

\* The batch of t and of another transaction that is being flushed or was: they
\* share no key that one of them writes.
LEMMA NoSharedKey ==
    ASSUME DagInv, BatchInv, ObjectInv, phase = "run", NEW t \in batch, NEW u \in Flushing, u # t,
           NEW k, k \in specRS[t] \cup specWS[t]
    PROVE  ~InTrie(u, k) /\ k \notin real[u][2]
<1>1. ~HasConflict(t, u)
  BY Basics, BatchIndependent
<1>2. real[u][2] \subseteq specWS[u]
  BY DEF ObjectInv, WithinSpec
<1> QED BY <1>1, <1>2 DEF HasConflict, InTrie

\* Nor do they write keys of one account, when AccountsApart holds.
LEMMA NoSharedAccount ==
    ASSUME DagInv, BatchInv, ObjectInv, AccountsApart, phase = "run",
           NEW t \in batch, NEW u \in Flushing, u # t, NEW k, AccountOf[k] \in SpecAccounts(t)
    PROVE  ~InTrie(u, k) /\ k \notin real[u][2]
<1>1. ~HasConflict(t, u) /\ t \in Txs /\ u \in Txs
  BY Basics, BatchIndependent
<1>2. real[u][2] \subseteq specWS[u]
  BY DEF ObjectInv, WithinSpec
<1>3. k \notin real[u][2]
  BY <1>1, <1>2, Zenon DEF AccountsApart, SpecAccounts
<1> QED BY <1>3 DEF InTrie

\* The accounts that transactions may flush depend on the speculative sets only.
LEMMA ApartKept ==
    ASSUME UNCHANGED <<specRS, specWS>>
    PROVE  /\ AccountsApart' <=> AccountsApart
           /\ \A t : SpecAccounts(t)' = SpecAccounts(t)
<1>1. \A t : SpecAccounts(t)' = SpecAccounts(t)
  BY Zenon DEF SpecAccounts
<1>2. \A t, u : HasConflict(t, u)' <=> HasConflict(t, u)
  BY Zenon DEF HasConflict
<1> QED BY <1>1, <1>2, Zenon DEF AccountsApart

\* What the others may flush stays as it was loaded when only t moves.
LEMMA AccountsKept ==
    ASSUME NEW k, AccountInv(k), NEW t \in Txs, UNCHANGED <<specRS, specWS>>, BatchBase(k)' = BatchBase(k),
           \A u \in Txs \ {t} : worker'[u] = worker[u] /\ object'[u] = object[u] /\ real'[u] = real[u],
           AccountOf[k] \in SpecAccounts(t) /\ k \in DOMAIN object'[t] =>
               /\ worker'[t] = "execute" => object'[t][k] = BatchBase(k)
               /\ worker'[t] = "flush" => k \in real'[t][2] \/ object'[t][k] = BatchBase(k)
    PROVE  AccountInv(k)'
<1> SUFFICES ASSUME NEW u \in Txs, AccountOf[k] \in SpecAccounts(u), k \in DOMAIN object'[u]
             PROVE  /\ worker'[u] = "execute" => object'[u][k] = BatchBase(k)
                    /\ worker'[u] = "flush" => k \in real'[u][2] \/ object'[u][k] = BatchBase(k)
  BY ApartKept, Zenon DEF AccountInv
<1>1. CASE u = t
  BY <1>1, Zenon
<1>2. CASE u # t
  BY <1>2, Zenon DEF AccountInv
<1> QED BY <1>1, <1>2, Zenon

-----------------------------------------------------------------------------
(* The goroutines of a batch *)

\* The batch, its lists and the trie's keys after a step of the goroutine of t that
\* only moves it between positions, and possibly changes its objects.
LEMMA StepKeepsBatch ==
    ASSUME DagInv, BatchInv, phase = "run", NEW t \in batch,
           NEW pos \in {"none", "execute", "flush"}, worker' = [worker EXCEPT ![t] = pos],
           UNCHANGED <<specRS, specWS, blockSize, phase, start, orderedTxs, remaining, executed, batch, order>>,
           UNCHANGED <<committed, aborted, replayed>>,
           trie' \in [Keys -> Txs \cup {Witness}], revision' \in [Txs -> BOOLEAN], DOMAIN pending' = Txs,
           \A u \in Txs \ {t} : revision'[u] = revision[u] /\ pending'[u] = pending[u],
           \/ t \in todo /\ pos = "execute" /\ todo' = todo \ {t}
           \/ worker[t] # "none" /\ todo' = todo,
           \/ pos = "execute" /\ revision'[t] /\ pending'[t] = {}
           \/ pos = "flush" /\ ~revision'[t]
           \/ pos = "none" /\ pending'[t] = {},
           \/ pos # "none" /\ UNCHANGED <<batchResults, serialReplayList>>
           \/ pos = "none" /\ batchResults' = batchResults \cup {t} /\ UNCHANGED serialReplayList
           \/ pos = "none" /\ serialReplayList' = serialReplayList \cup {t} /\ UNCHANGED batchResults
    PROVE  DagInv' /\ BatchInv'
<1>1. t \in Txs /\ t \notin aborted /\ batch \subseteq Txs /\ replayed = {}
  BY Basics
<1>2. DagInv' /\ Done' = Done
  BY PhaseKeepsInv, Zenon
<1>3. /\ worker' \in [Txs -> {"none", "execute", "flush"}] /\ worker'[t] = pos
      /\ \A u \in Txs \ {t} : worker'[u] = worker[u]
  BY <1>1, Zenon DEF BatchInv, TypeOK
<1>4. /\ \A u \in Txs : worker[u] # "none" => u \in batch \ todo /\ u \notin batchResults
      /\ batchResults \subseteq batch \ todo /\ todo \subseteq batch /\ serialReplayList = Rejected
      /\ \A u \in Txs : worker[u] = "execute" => revision[u] /\ pending[u] = {}
      /\ \A u \in Txs : worker[u] = "flush" => ~revision[u]
      /\ \A u \in Txs : worker[u] = "none" => pending[u] = {}
  BY DEF BatchInv, TypeOK, Goroutines
<1>5. TypeOK'
  <2>1. todo' \subseteq batch' /\ Goroutines' \subseteq batch' \ todo'
    BY <1>3, <1>4, Zenon DEF Goroutines
  <2>2. \A u \in Txs : worker'[u] = "execute" => revision'[u] /\ pending'[u] = {}
    BY <1>3, <1>4, Zenon
  <2>3. phase' = "run" /\ batch' \subseteq remaining' /\ (remaining \cap executed)' = {}
    BY <1>2, Zenon DEF DagInv
  <2> QED BY <1>3, <2>1, <2>2, <2>3, Zenon DEF TypeOK
<1>6. serialReplayList' = Rejected'
  <2>1. t \notin Rejected /\ t \notin batchResults
    BY <1>1, <1>4, Zenon DEF Rejected
  <2>2. CASE pos # "none" /\ UNCHANGED <<batchResults, serialReplayList>>
    BY <1>1, <1>3, <1>4, <2>1, <2>2 DEF Rejected
  <2>3. CASE pos = "none" /\ batchResults' = batchResults \cup {t} /\ UNCHANGED serialReplayList
    BY <1>1, <1>3, <1>4, <2>1, <2>3 DEF Rejected
  <2>4. CASE pos = "none" /\ serialReplayList' = serialReplayList \cup {t} /\ UNCHANGED batchResults
    BY <1>1, <1>3, <1>4, <2>1, <2>4 DEF Rejected
  <2> QED BY <2>2, <2>3, <2>4, Zenon
<1>7. /\ \A u \in Txs : worker'[u] # "none" => u \notin batchResults'
      /\ \A u \in Txs : worker'[u] = "flush" => ~revision'[u]
      /\ \A u \in Txs : worker'[u] = "none" => pending'[u] = {}
      /\ batchResults' \subseteq batch' \ todo'
  BY <1>1, <1>3, <1>4
<1> QED BY <1>1, <1>2, <1>5, <1>6, <1>7, Zenon DEF BatchInv

\* A transaction with a goroutine is in the batch and not decided yet.
LEMMA InFlight ==
    ASSUME SharedTrieInv, Alive, NEW t \in Txs, worker[t] # "none"
    PROVE  /\ phase = "run" /\ t \in batch /\ t \notin todo /\ t \notin batchResults
           /\ t \notin committed /\ replayed = {} /\ todo \ {t} = todo
<1>1. DagInv /\ BatchInv
  BY DEF SharedTrieInv
<1>2. phase = "run" /\ t \in batch /\ t \notin todo /\ replayed = {}
  BY <1>1, Basics DEF Alive
<1>3. t \notin batchResults /\ t \notin committed
  BY <1>1, <1>2, Undecided, Zenon DEF BatchInv
<1> QED BY <1>2, <1>3

\* The objects after a step of the goroutine of t: only its own may have changed.
LEMMA StepKeepsObjects ==
    ASSUME DagInv, BatchInv, ObjectInv, phase = "run", NEW t \in batch,
           NEW pos \in {"none", "execute", "flush"}, worker' = [worker EXCEPT ![t] = pos],
           UNCHANGED <<specRS, specWS, committed>>, Flushing' \subseteq Flushing \cup {t},
           real' \in [Txs -> (SUBSET Keys) \X (SUBSET Keys)], DOMAIN object' = Txs, DOMAIN seen' = Txs,
           \A u \in Txs \ {t} : /\ real'[u] = real[u] /\ object'[u] = object[u]
                                /\ seen'[u] = seen[u] /\ pending'[u] = pending[u],
           pos # "none" => WholeAccounts(t)', pos = "flush" => Finalised(t)',
           t \in Flushing' => WithinSpec(t)'
    PROVE  ObjectInv'
<1>1. /\ t \in Txs /\ t \notin committed /\ committed \subseteq Txs /\ Flushing \subseteq Txs
      /\ worker'[t] = pos /\ \A u \in Txs \ {t} : worker'[u] = worker[u]
  <2>1. t \in Txs /\ t \notin committed /\ committed \subseteq Txs /\ Flushing \subseteq Txs
    BY Undecided, Basics
  <2> QED BY <2>1 DEF BatchInv, TypeOK
<1>2. ASSUME NEW u \in Txs, worker'[u] # "none" PROVE WholeAccounts(u)'
  <2>1. CASE u # t
    <3>1. WholeAccounts(u) /\ object'[u] = object[u]
      BY <1>1, <1>2, <2>1 DEF ObjectInv
    <3> QED BY <3>1, Zenon DEF WholeAccounts, KeysOf
  <2> QED BY <1>1, <1>2, <2>1, Zenon
<1>3. ASSUME NEW u \in Txs, worker'[u] = "flush" PROVE Finalised(u)'
  <2>1. CASE u # t
    <3>1. Finalised(u) /\ object'[u] = object[u] /\ real'[u] = real[u] /\ pending'[u] = pending[u]
      BY <1>1, <1>3, <2>1, Zenon DEF ObjectInv
    <3> QED BY <3>1 DEF Finalised
  <2> QED BY <1>1, <1>3, <2>1, Zenon
<1>4. ASSUME NEW u \in committed' \cup Flushing' PROVE WithinSpec(u)'
  <2>1. CASE u # t
    <3>1. WithinSpec(u) /\ real'[u] = real[u] /\ seen'[u] = seen[u]
      BY <1>1, <2>1 DEF ObjectInv
    <3> QED BY <3>1 DEF WithinSpec
  <2> QED BY <1>1, <2>1
<1> QED BY <1>2, <1>3, <1>4, Zenon DEF ObjectInv

\* A goroutine receives a transaction that nobody has executed: it has no objects.
LEMMA ReceiveKeepsInv ==
    ASSUME SharedTrieInv, NEW t \in Txs, Receive(t)
    PROVE  SharedTrieInv'
<1> /\ phase = "run" /\ t \in todo /\ todo' = todo \ {t}
    /\ object' = [object EXCEPT ![t] = <<>>] /\ revision' = [revision EXCEPT ![t] = TRUE]
    /\ worker' = [worker EXCEPT ![t] = "execute"]
    /\ UNCHANGED <<specRS, specWS, blockSize, phase, start, orderedTxs, remaining, executed, batch, order>>
    /\ UNCHANGED <<trie, pending, seen, batchResults, serialReplayList, committed, aborted, replayed>>
  BY DEF Receive, dagVars
<1> DagInv /\ BatchInv /\ ObjectInv
  BY DEF SharedTrieInv
<1>1. PICK r \in RealSets \cup {NoKeys} : real' = [real EXCEPT ![t] = r]
  BY Zenon DEF Receive
<1>2. r \in (SUBSET Keys) \X (SUBSET Keys)
  BY SharedTrieAssumption DEF NoKeys
<1>3. /\ t \in batch /\ worker[t] = "none" /\ pending[t] = {} /\ t \notin batchResults
      /\ trie \in [Keys -> Txs \cup {Witness}] /\ revision' \in [Txs -> BOOLEAN] /\ revision'[t]
      /\ DOMAIN pending = Txs /\ worker \in [Txs -> {"none", "execute", "flush"}]
      /\ \A u \in Txs \ {t} : revision'[u] = revision[u]
  BY DEF BatchInv, TypeOK, Goroutines
<1>4. t \notin committed /\ replayed = {} /\ batch \subseteq Txs /\ committed \subseteq Txs /\ Flushing \subseteq Txs
  BY <1>3, Undecided, Basics
<1>5. DagInv' /\ BatchInv'
  BY <1>3, StepKeepsBatch, Zenon
<1>6. /\ real' \in [Txs -> (SUBSET Keys) \X (SUBSET Keys)] /\ DOMAIN object' = Txs
      /\ \A u \in Txs \ {t} : real'[u] = real[u] /\ object'[u] = object[u]
      /\ DOMAIN object'[t] = {}
  BY <1>1, <1>2 DEF ObjectInv
<1>7. Flushing' = Flushing /\ t \notin Flushing
  BY <1>3 DEF Flushing
<1>8. ObjectInv'
  <2>1. WholeAccounts(t)'
    BY <1>6, Zenon DEF WholeAccounts
  <2>2. worker'[t] = "execute" /\ t \notin committed' \cup Flushing'
    BY <1>3, <1>4, <1>7, Zenon
  <2>3. DOMAIN seen' = Txs /\ Flushing' \subseteq Flushing \cup {t}
    BY <1>7 DEF ObjectInv
  <2> QED BY <1>3, <1>6, <2>1, <2>2, <2>3, StepKeepsObjects, Zenon
<1>9. ASSUME AccountsApart PROVE ValueInv' /\ SerialEquivalence'
  <2>1. ValueInv /\ SerialEquivalence
    BY <1>9, Zenon DEF SharedTrieInv
  <2>2. (\A k : BatchBase(k)' = BatchBase(k)) /\ SerialEquivalence'
    BY <1>4, <1>6, <2>1, ValuesKept, Zenon
  <2>3. \A u \in Flushing : \A k : InTrie(u, k)' = InTrie(u, k)
    BY <1>4, <1>6, <1>7, Zenon DEF InTrie
  <2>4. \A u \in Txs \ {t} : worker'[u] = worker[u] /\ object'[u] = object[u]
    BY <1>3, <1>6, Zenon
  <2>5. ASSUME NEW k \in Keys PROVE KeyInv(k)'
    <3>1. KeyInv(k)
      BY <2>1 DEF ValueInv
    <3> QED BY <1>6, <1>7, <2>2, <2>3, <2>4, <3>1 DEF KeyInv
  <2>6. ASSUME NEW k \in Keys PROVE AccountInv(k)'
    <3>1. AccountInv(k)
      BY <2>1, Zenon DEF ValueInv
    <3> QED BY <1>6, <2>2, <2>4, <3>1, AccountsKept, Zenon
  <2>7. ValueInv'
    BY <2>5, <2>6, Zenon DEF ValueInv
  <2> QED BY <2>2, <2>7
<1> QED BY <1>5, <1>8, <1>9, ApartKept, Zenon DEF SharedTrieInv

\* An account that t loads holds, for the keys t was expected to read, what the
\* committed transactions left: nobody else in the batch writes them.
LEMMA LoadKeepsInv ==
    ASSUME SharedTrieInv, Alive, NEW t \in Txs, NEW a, LoadAccount(t, a)
    PROVE  SharedTrieInv'
<1> DEFINE D == DOMAIN object[t]
<1> /\ worker[t] = "execute"
    /\ object' = [object EXCEPT ![t] = [k \in D \cup KeysOf(a) |-> IF k \in D THEN object[t][k] ELSE trie[k]]]
    /\ UNCHANGED <<specRS, specWS, blockSize, phase, start, orderedTxs, remaining, executed, batch, order>>
    /\ UNCHANGED <<trie, todo, worker, real, pending, revision, seen, batchResults, serialReplayList,
                   committed, aborted, replayed>>
  <2>1. worker[t] = "execute"
    BY DEF LoadAccount
  <2>2. object' = [object EXCEPT ![t] = [k \in D \cup KeysOf(a) |-> IF k \in D THEN object[t][k] ELSE trie[k]]]
    BY DEF LoadAccount
  <2> QED BY <2>1, <2>2 DEF LoadAccount, dagVars
<1> DagInv /\ BatchInv /\ ObjectInv
  BY DEF SharedTrieInv
<1>1. /\ phase = "run" /\ t \in batch /\ t \notin todo /\ t \notin batchResults
      /\ t \notin committed /\ replayed = {} /\ todo \ {t} = todo
  BY InFlight, Zenon
<1>2. /\ trie \in [Keys -> Txs \cup {Witness}] /\ revision \in [Txs -> BOOLEAN] /\ DOMAIN pending = Txs
      /\ revision[t] /\ pending[t] = {} /\ worker \in [Txs -> {"none", "execute", "flush"}]
      /\ worker' = [worker EXCEPT ![t] = "execute"]
  BY Zenon DEF BatchInv, TypeOK
<1>3. DagInv' /\ BatchInv'
  BY <1>1, <1>2, StepKeepsBatch, Zenon
<1>4. /\ DOMAIN object' = Txs /\ \A u \in Txs \ {t} : object'[u] = object[u]
      /\ object'[t] = [k \in D \cup KeysOf(a) |-> IF k \in D THEN object[t][k] ELSE trie[k]]
  BY DEF ObjectInv
<1>5. Flushing' = Flushing /\ t \notin Flushing
  BY <1>1, <1>2 DEF Flushing
<1>6. WholeAccounts(t)'
  <2>1. WholeAccounts(t)
    BY DEF ObjectInv
  <2>2. \A k \in KeysOf(a) : k \in Keys /\ KeysOf(AccountOf[k]) = KeysOf(a)
    BY DEF KeysOf
  <2> HIDE DEF D
  <2>3. D \subseteq Keys /\ \A k \in D : object[t][k] \in Txs \cup {Witness} /\ KeysOf(AccountOf[k]) \subseteq D
    BY <2>1, Zenon DEF WholeAccounts, D
  <2>4. /\ DOMAIN object'[t] = D \cup KeysOf(a)
        /\ \A k \in D \cup KeysOf(a) : object'[t][k] \in Txs \cup {Witness}
    BY <1>2, <1>4, <2>2, <2>3, Zenon
  <2> QED BY <2>2, <2>3, <2>4, Zenon DEF WholeAccounts, KeysOf
<1>7. ObjectInv'
  <2>1. /\ real' \in [Txs -> (SUBSET Keys) \X (SUBSET Keys)] /\ DOMAIN seen' = Txs
        /\ Flushing' \subseteq Flushing \cup {t} /\ t \notin Flushing'
    BY <1>5 DEF ObjectInv
  <2> QED BY <1>1, <1>2, <1>4, <1>6, <2>1, StepKeepsObjects, Zenon
<1>8. ASSUME AccountsApart PROVE ValueInv' /\ SerialEquivalence'
  <2>1. ValueInv /\ SerialEquivalence
    BY <1>8 DEF SharedTrieInv
  <2>2. (\A k : BatchBase(k)' = BatchBase(k)) /\ SerialEquivalence'
    BY <1>1, <2>1, ValuesKept, Zenon
  <2>3. \A u \in Flushing : \A k : InTrie(u, k)' = InTrie(u, k)
    BY DEF InTrie
  <2>4. ASSUME NEW k \in Keys, k \in specRS[t] \cap DOMAIN object'[t]
        PROVE  object'[t][k] = BatchBase(k)
    <3>1. CASE k \in D
      BY <1>1, <1>4, <2>1, <2>4, <3>1 DEF ValueInv, KeyInv
    <3>2. CASE k \notin D
      <4>1. \A u \in Flushing : ~InTrie(u, k)
        BY <1>1, <1>5, <2>4, NoSharedKey, Zenon
      <4>2. trie[k] = BatchBase(k)
        BY <1>1, <2>1, <4>1, Zenon DEF ValueInv, KeyInv
      <4> QED BY <1>4, <2>4, <3>2, <4>2, Zenon
    <3> QED BY <3>1, <3>2, Zenon
  <2>5. ASSUME NEW k \in Keys PROVE KeyInv(k)'
    <3>1. KeyInv(k)
      BY <1>1, <2>1, Zenon DEF ValueInv
    <3>2. ASSUME NEW u \in Txs, worker[u] = "execute", k \in specRS[u] \cap DOMAIN object'[u]
          PROVE  object'[u][k] = BatchBase(k)
      BY <1>4, <2>4, <3>1, <3>2, Zenon DEF KeyInv
    <3> QED BY <1>5, <2>2, <2>3, <3>1, <3>2, Zenon DEF KeyInv
  <2>6. ASSUME NEW k \in Keys PROVE AccountInv(k)'
    <3>1. AccountInv(k) /\ KeyInv(k)
      BY <1>1, <2>1, Zenon DEF ValueInv
    <3>2. ASSUME AccountOf[k] \in SpecAccounts(t), k \in DOMAIN object'[t]
          PROVE  object'[t][k] = BatchBase(k)
      <4>1. CASE k \in D
        BY <1>4, <3>1, <3>2, <4>1 DEF AccountInv
      <4>2. CASE k \notin D
        <5>1. \A u \in Flushing : ~InTrie(u, k)
          BY <1>1, <1>5, <1>8, <3>2, NoSharedAccount, Zenon
        <5>2. trie[k] = BatchBase(k)
          BY <3>1, <5>1, Zenon DEF KeyInv
        <5> QED BY <1>4, <3>2, <4>2, <5>2, Zenon
      <4> QED BY <4>1, <4>2, Zenon
    <3>3. worker'[t] = "execute"
      BY Zenon
    <3> QED BY <1>4, <2>2, <3>1, <3>2, <3>3, AccountsKept, Zenon
  <2>7. ValueInv'
    BY <1>1, <2>5, <2>6, Zenon DEF ValueInv
  <2> QED BY <2>2, <2>7
<1> QED BY <1>3, <1>7, <1>8, ApartKept, Zenon DEF SharedTrieInv

\* The execution of t is over and its keys match: it has read what the committed
\* transactions left, and none of its writes is in the trie.
LEMMA FinaliseKeepsInv ==
    ASSUME SharedTrieInv, Alive, NEW t \in Txs, Finalise(t)
    PROVE  SharedTrieInv'
<1> /\ worker[t] = "execute" /\ Touched(t) \subseteq Loaded(t) /\ KeysMatch(t)
    /\ seen' = [seen EXCEPT ![t] = [k \in real[t][1] |-> object[t][k]]]
    /\ object' = [object EXCEPT ![t] = [k \in DOMAIN object[t] |-> IF k \in real[t][2] THEN t ELSE object[t][k]]]
    /\ pending' = [pending EXCEPT ![t] = {AccountOf[k] : k \in real[t][2]}]
    /\ revision' = [revision EXCEPT ![t] = FALSE] /\ worker' = [worker EXCEPT ![t] = "flush"]
    /\ UNCHANGED <<specRS, specWS, blockSize, phase, start, orderedTxs, remaining, executed, batch, order>>
    /\ UNCHANGED <<trie, todo, real, batchResults, serialReplayList, committed, aborted, replayed>>
  BY DEF Finalise, dagVars
<1> DagInv /\ BatchInv /\ ObjectInv
  BY DEF SharedTrieInv
<1>1. /\ phase = "run" /\ t \in batch /\ t \notin todo /\ t \notin batchResults
      /\ t \notin committed /\ replayed = {} /\ todo \ {t} = todo
  BY InFlight, Zenon
<1>2. /\ trie \in [Keys -> Txs \cup {Witness}] /\ revision' \in [Txs -> BOOLEAN] /\ DOMAIN pending' = Txs
      /\ ~revision'[t] /\ pending'[t] = {AccountOf[k] : k \in real[t][2]}
      /\ \A u \in Txs \ {t} : revision'[u] = revision[u] /\ pending'[u] = pending[u]
      /\ worker \in [Txs -> {"none", "execute", "flush"}]
  BY Zenon DEF BatchInv, TypeOK
<1>3. DagInv' /\ BatchInv'
  BY <1>1, <1>2, StepKeepsBatch, Zenon
<1>4. /\ real[t][1] \subseteq Keys /\ real[t][2] \subseteq Keys /\ WholeAccounts(t)
      /\ real[t][1] \subseteq specRS[t] /\ real[t][2] \subseteq specWS[t]
  BY DEF ObjectInv, KeysMatch
<1>5. ASSUME NEW k \in real[t][1] \cup real[t][2] PROVE k \in DOMAIN object[t]
  <2>1. PICK l \in DOMAIN object[t] : AccountOf[l] = AccountOf[k]
    BY Zenon DEF Touched, Loaded
  <2>2. KeysOf(AccountOf[l]) \subseteq DOMAIN object[t]
    BY <1>4 DEF WholeAccounts
  <2> QED BY <1>4, <2>1, <2>2 DEF KeysOf
<1>6. /\ DOMAIN object' = Txs /\ DOMAIN seen' = Txs
      /\ \A u \in Txs \ {t} : object'[u] = object[u] /\ seen'[u] = seen[u]
      /\ object'[t] = [k \in DOMAIN object[t] |-> IF k \in real[t][2] THEN t ELSE object[t][k]]
      /\ seen'[t] = [k \in real[t][1] |-> object[t][k]]
  BY Zenon DEF ObjectInv
<1>7. Flushing' = Flushing \cup {t} /\ t \notin Flushing
  BY <1>1, <1>2 DEF Flushing
<1>8. ObjectInv'
  <2>1. WholeAccounts(t)'
    BY <1>4, <1>6 DEF WholeAccounts, KeysOf
  <2>2. Finalised(t)'
    BY <1>2, <1>5, <1>6, Zenon DEF Finalised
  <2>3. WithinSpec(t)'
    BY <1>4, <1>6, Zenon DEF WithinSpec
  <2>4. real' \in [Txs -> (SUBSET Keys) \X (SUBSET Keys)]
    BY DEF ObjectInv
  <2> QED BY <1>1, <1>2, <1>6, <1>7, <2>1, <2>2, <2>3, <2>4, StepKeepsObjects, Zenon
<1>9. ASSUME AccountsApart PROVE ValueInv' /\ SerialEquivalence'
  <2>1. ValueInv /\ SerialEquivalence
    BY <1>9, Zenon DEF SharedTrieInv
  <2>2. (\A k : BatchBase(k)' = BatchBase(k)) /\ SerialEquivalence'
    BY <1>1, <1>6, <2>1, ValuesKept, Zenon
  <2>3. \A u \in Flushing : \A k : InTrie(u, k)' = InTrie(u, k)
    BY <1>1, <1>2, <1>7, Basics DEF InTrie
  <2>4. \A k : ~InTrie(t, k)'
    BY <1>2, Zenon DEF InTrie
  <2>5. ASSUME NEW k \in DOMAIN seen'[t] PROVE k \in Keys /\ seen'[t][k] = BatchBase(k)
    <3>1. k \in Keys /\ k \in specRS[t] \cap DOMAIN object[t] /\ seen'[t][k] = object[t][k]
      BY <1>4, <1>5, <1>6, Zenon
    <3> QED BY <1>1, <2>1, <3>1, Zenon DEF ValueInv, KeyInv
  <2>6. \A u \in Txs : worker'[u] = "execute" => worker[u] = "execute" /\ u # t
    BY <1>2, Zenon
  <2>7. \A u \in Flushing : u # t /\ u \in Txs
    BY <1>1, <1>7, Basics, Zenon
  <2>8. ASSUME NEW k \in Keys PROVE KeyInv(k)'
    <3>1. KeyInv(k)
      BY <1>1, <2>1 DEF ValueInv
    <3>2. ASSUME NEW u \in Txs, worker'[u] = "execute", k \in specRS[u] \cap DOMAIN object'[u]
          PROVE  object'[u][k] = BatchBase(k)
      BY <1>6, <2>6, <3>1, <3>2, Zenon DEF KeyInv
    <3>3. ASSUME NEW u \in Flushing', k \in DOMAIN seen'[u]
          PROVE  seen'[u][k] = BatchBase(k)
      BY <1>6, <1>7, <2>5, <2>7, <3>1, <3>3, Zenon DEF KeyInv
    <3>4. ASSUME NEW u \in Flushing', InTrie(u, k)'
          PROVE  trie[k] = u
      BY <1>7, <2>3, <2>4, <3>1, <3>4 DEF KeyInv
    <3>5. ASSUME \A u \in Flushing' : ~InTrie(u, k)'
          PROVE  trie[k] = BatchBase(k)
      BY <1>7, <2>3, <3>1, <3>5, Zenon DEF KeyInv
    <3> QED BY <2>2, <3>2, <3>3, <3>4, <3>5, Zenon DEF KeyInv
  <2>9. ASSUME NEW k \in Keys PROVE AccountInv(k)'
    <3>1. AccountInv(k)
      BY <1>1, <2>1, Zenon DEF ValueInv
    <3>2. ASSUME AccountOf[k] \in SpecAccounts(t), k \in DOMAIN object'[t], k \notin real[t][2]
          PROVE  object'[t][k] = BatchBase(k)
      BY <1>6, <3>1, <3>2, Zenon DEF AccountInv
    <3>3. worker'[t] = "flush" /\ \A u \in Txs \ {t} : worker'[u] = worker[u]
      BY <1>2, Zenon
    <3> QED BY <1>6, <2>2, <3>1, <3>2, <3>3, AccountsKept, Zenon
  <2>10. ValueInv'
    BY <1>1, <2>8, <2>9, Zenon DEF ValueInv
  <2> QED BY <2>2, <2>10, Zenon
<1> QED BY <1>3, <1>8, <1>9, ApartKept, Zenon DEF SharedTrieInv

\* A transaction whose keys do not match is reverted and listed for the replay.
LEMMA MismatchKeepsInv ==
    ASSUME SharedTrieInv, Alive, NEW t \in Txs, Mismatch(t)
    PROVE  SharedTrieInv'
<1> /\ worker[t] = "execute" /\ worker' = [worker EXCEPT ![t] = "none"]
    /\ serialReplayList' = serialReplayList \cup {t}
    /\ UNCHANGED <<specRS, specWS, blockSize, phase, start, orderedTxs, remaining, executed, batch, order>>
    /\ UNCHANGED <<trie, todo, real, object, pending, revision, seen, batchResults, committed, aborted, replayed>>
  BY DEF Mismatch, dagVars
<1> DagInv /\ BatchInv /\ ObjectInv
  BY DEF SharedTrieInv
<1>1. /\ phase = "run" /\ t \in batch /\ t \notin todo /\ t \notin batchResults
      /\ t \notin committed /\ replayed = {} /\ todo \ {t} = todo
  BY InFlight, Zenon
<1>2. /\ trie \in [Keys -> Txs \cup {Witness}] /\ revision \in [Txs -> BOOLEAN] /\ DOMAIN pending = Txs
      /\ pending[t] = {} /\ worker \in [Txs -> {"none", "execute", "flush"}]
  BY Zenon DEF BatchInv, TypeOK
<1>3. DagInv' /\ BatchInv'
  BY <1>1, <1>2, StepKeepsBatch, Zenon
<1>4. Flushing' = Flushing /\ t \notin Flushing
  BY <1>1, <1>2, Zenon DEF Flushing
<1>5. ObjectInv'
  <2>1. /\ real' \in [Txs -> (SUBSET Keys) \X (SUBSET Keys)] /\ DOMAIN seen' = Txs /\ DOMAIN object' = Txs
        /\ Flushing' \subseteq Flushing \cup {t} /\ t \notin Flushing'
    BY <1>4, Zenon DEF ObjectInv
  <2> QED BY <1>1, <2>1, StepKeepsObjects, Zenon
<1>6. ASSUME AccountsApart PROVE ValueInv' /\ SerialEquivalence'
  <2>1. ValueInv /\ SerialEquivalence
    BY <1>6, Zenon DEF SharedTrieInv
  <2>2. (\A k : BatchBase(k)' = BatchBase(k)) /\ SerialEquivalence'
    BY <1>1, <2>1, ValuesKept, Zenon
  <2>3. ASSUME NEW k \in Keys PROVE KeyInv(k)'
    <3>1. KeyInv(k)
      BY <1>1, <2>1, Zenon DEF ValueInv
    <3>2. \A u : InTrie(u, k)' = InTrie(u, k)
      BY Zenon DEF InTrie
    <3>3. \A u \in Txs : worker'[u] = "execute" => worker[u] = "execute"
      BY <1>2, Zenon
    <3> QED BY <1>4, <2>2, <3>1, <3>2, <3>3, Zenon DEF KeyInv
  <2>4. ASSUME NEW k \in Keys PROVE AccountInv(k)'
    <3>1. AccountInv(k)
      BY <1>1, <2>1, Zenon DEF ValueInv
    <3>2. worker'[t] = "none" /\ \A u \in Txs \ {t} : worker'[u] = worker[u]
      BY <1>2, Zenon
    <3> QED BY <2>2, <3>1, <3>2, AccountsKept, Zenon
  <2>5. ValueInv'
    BY <1>1, <2>3, <2>4, Zenon DEF ValueInv
  <2> QED BY <2>2, <2>5
<1> QED BY <1>3, <1>5, <1>6, ApartKept, Zenon DEF SharedTrieInv

\* Overwriting an account in the trie: nobody else in the batch writes a key of
\* it, so the keys t did not write are overwritten with the values they have.
LEMMA FlushAccountKeepsInv ==
    ASSUME SharedTrieInv, Alive, NEW t \in Txs, NEW a, FlushAccount(t, a)
    PROVE  SharedTrieInv'
<1> /\ worker[t] = "flush" /\ a \in pending[t]
    /\ trie' = [k \in Keys |-> IF k \in KeysOf(a) THEN object[t][k] ELSE trie[k]]
    /\ pending' = [pending EXCEPT ![t] = pending[t] \ {a}]
    /\ UNCHANGED <<specRS, specWS, blockSize, phase, start, orderedTxs, remaining, executed, batch, order>>
    /\ UNCHANGED <<todo, worker, real, object, revision, seen, batchResults, serialReplayList,
                   committed, aborted, replayed>>
  BY Zenon DEF FlushAccount, dagVars
<1> DagInv /\ BatchInv /\ ObjectInv
  BY Zenon DEF SharedTrieInv
<1>1. /\ phase = "run" /\ t \in batch /\ t \notin todo /\ t \notin batchResults
      /\ t \notin committed /\ replayed = {} /\ todo \ {t} = todo
  BY InFlight, Zenon
<1>2. /\ trie \in [Keys -> Txs \cup {Witness}] /\ revision \in [Txs -> BOOLEAN] /\ DOMAIN pending' = Txs
      /\ ~revision[t] /\ pending'[t] = pending[t] \ {a}
      /\ \A u \in Txs \ {t} : pending'[u] = pending[u]
      /\ worker \in [Txs -> {"none", "execute", "flush"}] /\ worker' = [worker EXCEPT ![t] = "flush"]
  BY Zenon DEF BatchInv, TypeOK
<1>3. Finalised(t) /\ WholeAccounts(t) /\ WithinSpec(t) /\ t \in Flushing /\ Flushing' = Flushing
  BY Zenon DEF ObjectInv, Flushing
<1>4. PICK key \in real[t][2] : AccountOf[key] = a
  BY <1>3, Zenon DEF Finalised
<1>5. key \in Keys /\ key \in KeysOf(a) /\ key \in DOMAIN object[t] /\ object[t][key] = t
  <2>1. key \in DOMAIN object[t] /\ object[t][key] = t
    BY <1>3, Zenon DEF Finalised
  <2> QED BY <1>3, <1>4, <2>1, Zenon DEF WholeAccounts, KeysOf
<1>6. trie' \in [Keys -> Txs \cup {Witness}]
  <2>1. \A k \in KeysOf(a) : object[t][k] \in Txs \cup {Witness}
    BY <1>3, <1>4, <1>5, Zenon DEF WholeAccounts
  <2> QED BY <1>2, <2>1, Zenon
<1>7. DagInv' /\ BatchInv'
  BY <1>1, <1>2, <1>6, StepKeepsBatch, Zenon
<1>8. ObjectInv'
  <2>1. WholeAccounts(t)'
    BY <1>3, Zenon DEF WholeAccounts, KeysOf
  <2>2. Finalised(t)'
    BY <1>2, <1>3, Zenon DEF Finalised
  <2>3. WithinSpec(t)'
    BY <1>3, Zenon DEF WithinSpec
  <2>4. real' \in [Txs -> (SUBSET Keys) \X (SUBSET Keys)] /\ DOMAIN seen' = Txs /\ DOMAIN object' = Txs
    BY Zenon DEF ObjectInv
  <2> QED BY <1>1, <1>2, <1>3, <2>1, <2>2, <2>3, <2>4, StepKeepsObjects, Zenon
<1>9. ASSUME AccountsApart PROVE ValueInv' /\ SerialEquivalence'
  <2>1. ValueInv /\ SerialEquivalence
    BY <1>9, Zenon DEF SharedTrieInv
  <2>2. (\A k : BatchBase(k)' = BatchBase(k)) /\ SerialEquivalence'
    BY <1>1, <2>1, ValuesKept, Zenon
  <2>3. a \in SpecAccounts(t)
    BY <1>3, <1>4, Zenon DEF WithinSpec, SpecAccounts
  <2>4. ASSUME NEW k \in Keys, AccountOf[k] # a PROVE KeyInv(k)'
    <3>1. KeyInv(k) /\ trie'[k] = trie[k]
      BY <1>1, <2>1, <2>4, Zenon DEF ValueInv, KeysOf
    <3>2. \A u \in Flushing : InTrie(u, k)' = InTrie(u, k)
      BY <1>1, <1>2, <2>4, Basics, Zenon DEF InTrie
    <3> QED BY <1>3, <2>2, <3>1, <3>2, Zenon DEF KeyInv
  <2>5. ASSUME NEW k \in Keys, AccountOf[k] = a PROVE KeyInv(k)'
    <3>1. KeyInv(k) /\ AccountInv(k) /\ trie'[k] = object[t][k] /\ k \in DOMAIN object[t]
      BY <1>1, <1>3, <1>4, <1>5, <2>1, <2>5, Zenon DEF ValueInv, KeysOf, WholeAccounts
    <3>2. \A u \in Flushing : u # t => k \notin real[u][2]
      BY <1>1, <1>9, <2>3, <2>5, NoSharedAccount, Zenon
    <3>3. \A u \in Flushing : InTrie(u, k)' <=> u = t /\ k \in real[t][2]
      BY <1>2, <1>3, <2>5, <3>2, Zenon DEF InTrie
    <3>4. trie'[k] = IF k \in real[t][2] THEN t ELSE BatchBase(k)
      BY <1>3, <2>3, <2>5, <3>1, Zenon DEF Finalised, AccountInv
    <3> QED BY <1>3, <2>2, <3>1, <3>3, <3>4, Zenon DEF KeyInv
  <2>6. ASSUME NEW k \in Keys PROVE AccountInv(k)'
    <3>1. AccountInv(k)
      BY <1>1, <2>1, Zenon DEF ValueInv
    <3> QED BY <2>2, <3>1, ApartKept, Zenon DEF AccountInv
  <2>7. ValueInv'
    BY <1>1, <2>4, <2>5, <2>6, Zenon DEF ValueInv
  <2> QED BY <2>2, <2>7, Zenon
<1> QED BY <1>7, <1>8, <1>9, ApartKept, Zenon DEF SharedTrieInv

\* When all its accounts are in the trie, t is one of the results of the batch.
LEMMA FlushedKeepsInv ==
    ASSUME SharedTrieInv, Alive, NEW t \in Txs, Flushed(t)
    PROVE  SharedTrieInv'
<1> /\ worker[t] = "flush" /\ pending[t] = {} /\ worker' = [worker EXCEPT ![t] = "none"]
    /\ batchResults' = batchResults \cup {t}
    /\ UNCHANGED <<specRS, specWS, blockSize, phase, start, orderedTxs, remaining, executed, batch, order>>
    /\ UNCHANGED <<trie, todo, real, object, pending, revision, seen, serialReplayList,
                   committed, aborted, replayed>>
  BY Zenon DEF Flushed, dagVars
<1> DagInv /\ BatchInv /\ ObjectInv
  BY Zenon DEF SharedTrieInv
<1>1. /\ phase = "run" /\ t \in batch /\ t \notin todo /\ t \notin batchResults
      /\ t \notin committed /\ replayed = {} /\ todo \ {t} = todo
  BY InFlight, Zenon
<1>2. /\ trie \in [Keys -> Txs \cup {Witness}] /\ revision \in [Txs -> BOOLEAN] /\ DOMAIN pending = Txs
      /\ worker \in [Txs -> {"none", "execute", "flush"}]
  BY Zenon DEF BatchInv, TypeOK
<1>3. DagInv' /\ BatchInv'
  BY <1>1, <1>2, StepKeepsBatch, Zenon
<1>4. Flushing' = Flushing /\ t \in Flushing
  BY <1>1, <1>2, Zenon DEF Flushing
<1>5. ObjectInv'
  <2>1. /\ real' \in [Txs -> (SUBSET Keys) \X (SUBSET Keys)] /\ DOMAIN seen' = Txs /\ DOMAIN object' = Txs
        /\ Flushing' \subseteq Flushing \cup {t} /\ WithinSpec(t)
    BY <1>4, Zenon DEF ObjectInv
  <2>2. WithinSpec(t)'
    BY <2>1, Zenon DEF WithinSpec
  <2> QED BY <1>1, <2>1, <2>2, StepKeepsObjects, Zenon
<1>6. ASSUME AccountsApart PROVE ValueInv' /\ SerialEquivalence'
  <2>1. ValueInv /\ SerialEquivalence
    BY <1>6, Zenon DEF SharedTrieInv
  <2>2. (\A k : BatchBase(k)' = BatchBase(k)) /\ SerialEquivalence'
    BY <1>1, <2>1, ValuesKept, Zenon
  <2>3. ASSUME NEW k \in Keys PROVE KeyInv(k)'
    <3>1. KeyInv(k)
      BY <1>1, <2>1, Zenon DEF ValueInv
    <3>2. \A u : InTrie(u, k)' = InTrie(u, k)
      BY Zenon DEF InTrie
    <3>3. \A u \in Txs : worker'[u] = "execute" => worker[u] = "execute"
      BY <1>2, Zenon
    <3> QED BY <1>4, <2>2, <3>1, <3>2, <3>3, Zenon DEF KeyInv
  <2>4. ASSUME NEW k \in Keys PROVE AccountInv(k)'
    <3>1. AccountInv(k)
      BY <1>1, <2>1, Zenon DEF ValueInv
    <3>2. worker'[t] = "none" /\ \A u \in Txs \ {t} : worker'[u] = worker[u]
      BY <1>2, Zenon
    <3> QED BY <2>2, <3>1, <3>2, AccountsKept, Zenon
  <2>5. ValueInv'
    BY <1>1, <2>3, <2>4, Zenon DEF ValueInv
  <2> QED BY <2>2, <2>5, Zenon
<1> QED BY <1>3, <1>5, <1>6, ApartKept, Zenon DEF SharedTrieInv

\* A flush that fails ends the process: the snapshot is gone.
LEMMA FlushFailsKeepsInv ==
    ASSUME SharedTrieInv, Alive, NEW t \in Txs, FlushFails(t)
    PROVE  SharedTrieInv'
<1> DagInv /\ BatchInv /\ ObjectInv
  BY Zenon DEF SharedTrieInv
<1>1. ~revision[t]
  BY Zenon DEF BatchInv, FlushFails
<1> /\ worker[t] = "flush" /\ worker' = [worker EXCEPT ![t] = "none"] /\ phase' = "panicked"
    /\ UNCHANGED <<specRS, specWS, blockSize, start, orderedTxs, remaining, executed, batch, order>>
    /\ UNCHANGED <<trie, todo, real, object, pending, revision, seen, batchResults, serialReplayList,
                   committed, aborted, replayed>>
  BY <1>1 DEF FlushFails
<1>2. /\ phase = "run" /\ t \in batch /\ t \notin todo /\ t \notin batchResults
      /\ t \notin committed /\ replayed = {}
  BY InFlight
<1>3. DagInv' /\ Done' = Done
  BY <1>2, PhaseKeepsInv, Zenon
<1>4. /\ worker' \in [Txs -> {"none", "execute", "flush"}] /\ worker'[t] = "none"
      /\ \A u \in Txs \ {t} : worker'[u] = worker[u]
  BY Zenon DEF BatchInv, TypeOK
<1>5. BatchInv'
  <2>1. TypeOK'
    BY <1>4, Zenon DEF BatchInv, TypeOK, Goroutines
  <2>2. Rejected \subseteq Rejected'
    <3>1. batch \subseteq Txs
      BY Basics, Zenon
    <3> QED BY <1>4, <3>1, Zenon DEF Rejected
  <2>3. \A u \in Txs : worker'[u] # "none" => worker'[u] = worker[u]
    BY <1>4, Zenon
  <2> QED BY <1>2, <1>3, <2>1, <2>2, <2>3, Zenon DEF BatchInv
<1>6. ObjectInv'
  <2>1. /\ real' \in [Txs -> (SUBSET Keys) \X (SUBSET Keys)] /\ DOMAIN seen' = Txs /\ DOMAIN object' = Txs
        /\ Flushing' \subseteq Flushing /\ t \in Flushing
    BY <1>4 DEF ObjectInv, Flushing
  <2>2. WithinSpec(t)'
    BY <2>1, Zenon DEF ObjectInv, WithinSpec
  <2> QED BY <1>2, <2>1, <2>2, StepKeepsObjects, Zenon
<1>7. ASSUME AccountsApart PROVE ValueInv' /\ SerialEquivalence'
  <2>1. SerialEquivalence
    BY <1>7 DEF SharedTrieInv
  <2> QED BY <1>2, <2>1, ValuesKept DEF ValueInv
<1> QED BY <1>3, <1>5, <1>6, <1>7, ApartKept, Zenon DEF SharedTrieInv
=============================================================================
