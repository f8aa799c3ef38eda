-------------------------- MODULE VegetaSharedTrie --------------------------
(***************************************************************************)
(* Vegeta with --disk-trie: every pool worker is pinned for the whole      *)
(* validation and keeps a StateDB over the one shared account trie.  A     *)
(* transaction loads the accounts it touches, executes in place, and is    *)
(* reverted or flushed, account by account, into the shared trie.          *)
(* The trie holds accounts, a transaction reads and writes keys of them.   *)
(* A value is named by the transaction that wrote it.                      *)
(***************************************************************************)
EXTENDS VegetaDag

CONSTANTS NWorkers,    \* levmPool.NumWorkers()
          RealSets,    \* the <<reads, writes>> a re-execution may report
          AccountOf    \* the account a key belongs to

ASSUME SharedTrieAssumption ==
    /\ NWorkers \in Nat \ {0}
    /\ RealSets \subseteq (SUBSET Keys) \X (SUBSET Keys)
    /\ DOMAIN AccountOf = Keys

KeysOf(a) == {k \in Keys : AccountOf[k] = a}

VARIABLES
    trie,              \* the shared trie, key -> value
    todo,              \* transactions of the batch not received from txC yet
    worker,            \* where the goroutine executing each transaction is
    real,              \* the <<reads, writes>> of its execution
    object,            \* its stateObjects, key -> value, for the keys of loaded accounts
    pending,           \* accounts in stateObjectsPending
    revision,          \* whether snap is among the validRevisions
    seen,              \* history: key -> value, for the keys read
    batchResults,      \* transactions of the batch that were flushed
    serialReplayList,
    committed,         \* transactions flushed
    aborted,           \* transactions counted by algorithmAborted
    replayed           \* transactions replayed serially

runVars == <<trie, todo, worker, real, object, pending, revision, seen, batchResults,
             serialReplayList, committed, aborted, replayed>>
vars == <<dagVars, runVars>>

NoKeys == <<{}, {}>>

Init ==
    /\ DagInit
    /\ trie = [k \in Keys |-> Witness]
    /\ todo = {}
    /\ worker = [t \in Txs |-> "none"]
    /\ real = [t \in Txs |-> NoKeys]
    /\ object = [t \in Txs |-> <<>>]
    /\ pending = [t \in Txs |-> {}]
    /\ revision = [t \in Txs |-> FALSE]
    /\ seen = [t \in Txs |-> <<>>]
    /\ batchResults = {} /\ serialReplayList = {}
    /\ committed = {} /\ aborted = {} /\ replayed = {}

-----------------------------------------------------------------------------
(* The main goroutine *)

Order == OrderBlock /\ UNCHANGED runVars

Select ==
    /\ SelectBatch
    /\ todo' = batch'
    /\ batchResults' = {}
    /\ UNCHANGED <<trie, worker, real, object, pending, revision, seen, serialReplayList,
                   committed, aborted, replayed>>

Goroutines == {t \in Txs : worker[t] # "none"}

\* After wg.Wait(); there is no overlay to merge.
EndBatch ==
    /\ todo = {} /\ Goroutines = {}
    /\ BatchDone
    /\ committed' = committed \cup batchResults
    /\ aborted' = aborted \cup (batch \ batchResults)
    /\ UNCHANGED <<trie, todo, worker, real, object, pending, revision, seen, batchResults,
                   serialReplayList, replayed>>

EndBlock == NextBlock /\ UNCHANGED runVars

EndValidation == StartSerialReplay /\ UNCHANGED runVars

-----------------------------------------------------------------------------
(* The goroutine of a pinned worker *)

\* It receives the next transaction, resets its object cache and takes a snapshot.
Receive(t) ==
    /\ phase = "run"
    /\ t \in todo /\ \A u \in todo : t <= u
    /\ Cardinality(Goroutines) < NWorkers
    /\ todo' = todo \ {t}
    /\ \E r \in RealSets \cup {NoKeys} : real' = [real EXCEPT ![t] = r]
    /\ object' = [object EXCEPT ![t] = <<>>]
    /\ revision' = [revision EXCEPT ![t] = TRUE]
    /\ worker' = [worker EXCEPT ![t] = "execute"]
    /\ UNCHANGED <<dagVars, trie, pending, seen, batchResults, serialReplayList, committed,
                   aborted, replayed>>

Touched(t) == {AccountOf[k] : k \in real[t][1] \cup real[t][2]}
Loaded(t) == {AccountOf[k] : k \in DOMAIN object[t]}

\* ReExecuteCommit loads an account on its first use.  An execution that fails
\* reports no keys: it is the case NoKeys.
LoadAccount(t, a) ==
    /\ worker[t] = "execute"
    /\ a \in Touched(t) \ Loaded(t)
    /\ object' = [object EXCEPT ![t] =
                    [k \in DOMAIN @ \cup KeysOf(a) |-> IF k \in DOMAIN @ THEN @[k] ELSE trie[k]]]
    /\ UNCHANGED <<dagVars, trie, todo, worker, real, pending, revision, seen, batchResults,
                   serialReplayList, committed, aborted, replayed>>

\* Real keys within the speculative ones
KeysMatch(t) == real[t][1] \subseteq specRS[t] /\ real[t][2] \subseteq specWS[t]

\* The execution is over: its writes are in the objects, and IntermediateShared
\* starts with Finalise, which makes the written accounts pending and clears
\* the journal with its revisions.
Finalise(t) ==
    /\ worker[t] = "execute" /\ Touched(t) \subseteq Loaded(t)
    /\ KeysMatch(t)
    /\ seen' = [seen EXCEPT ![t] = [k \in real[t][1] |-> object[t][k]]]
    /\ object' = [object EXCEPT ![t] = [k \in DOMAIN @ |-> IF k \in real[t][2] THEN t ELSE @[k]]]
    /\ pending' = [pending EXCEPT ![t] = {AccountOf[k] : k \in real[t][2]}]
    /\ revision' = [revision EXCEPT ![t] = FALSE]
    /\ worker' = [worker EXCEPT ![t] = "flush"]
    /\ UNCHANGED <<dagVars, trie, todo, real, batchResults, serialReplayList, committed,
                   aborted, replayed>>

\* Variant: the transaction is not queued for the replay.
MismatchNotQueued(t) ==
    /\ worker[t] = "execute" /\ Touched(t) \subseteq Loaded(t)
    /\ ~KeysMatch(t)
    /\ revision[t]
    /\ worker' = [worker EXCEPT ![t] = "none"]
    /\ UNCHANGED <<dagVars, trie, todo, real, object, pending, revision, seen, batchResults,
                   serialReplayList, committed, aborted, replayed>>

\* The real keys exceed the speculative ones: revert, queue for the replay.
Mismatch(t) ==
    /\ worker[t] = "execute" /\ Touched(t) \subseteq Loaded(t)
    /\ ~KeysMatch(t)
    /\ revision[t]
    /\ serialReplayList' = serialReplayList \cup {t}
    /\ worker' = [worker EXCEPT ![t] = "none"]
    /\ UNCHANGED <<dagVars, trie, todo, real, object, pending, revision, seen, batchResults,
                   committed, aborted, replayed>>

\* updateStateObject overwrites the whole account in the shared trie.
FlushAccount(t, a) ==
    /\ worker[t] = "flush"
    /\ a \in pending[t]
    /\ trie' = [k \in Keys |-> IF k \in KeysOf(a) THEN object[t][k] ELSE trie[k]]
    /\ pending' = [pending EXCEPT ![t] = @ \ {a}]
    /\ UNCHANGED <<dagVars, todo, worker, real, object, revision, seen, batchResults,
                   serialReplayList, committed, aborted, replayed>>

\* Variant: the loop over the pending accounts stops one short.
FlushedShort(t) ==
    /\ worker[t] = "flush" /\ Cardinality(pending[t]) <= 1
    /\ batchResults' = batchResults \cup {t}
    /\ worker' = [worker EXCEPT ![t] = "none"]
    /\ UNCHANGED <<dagVars, trie, todo, real, object, pending, revision, seen,
                   serialReplayList, committed, aborted, replayed>>

Flushed(t) ==
    /\ worker[t] = "flush" /\ pending[t] = {}
    /\ batchResults' = batchResults \cup {t}
    /\ worker' = [worker EXCEPT ![t] = "none"]
    /\ UNCHANGED <<dagVars, trie, todo, real, object, pending, revision, seen,
                   serialReplayList, committed, aborted, replayed>>

\* CommitDirtyStorage fails before any account is updated.  The goroutine then
\* reverts to its snapshot: RevertToSnapshot panics when the revision is gone,
\* which ends the process.
FlushFails(t) ==
    /\ worker[t] = "flush" /\ pending[t] # {}
    /\ pending[t] = {AccountOf[k] : k \in real[t][2]}
    /\ phase' = IF revision[t] THEN phase ELSE "panicked"
    /\ serialReplayList' = IF revision[t] THEN serialReplayList \cup {t} ELSE serialReplayList
    /\ worker' = [worker EXCEPT ![t] = "none"]
    /\ UNCHANGED <<specRS, specWS, blockSize, start, orderedTxs, remaining, executed, batch, order,
                   trie, todo, real, object, pending, revision, seen, batchResults,
                   committed, aborted, replayed>>

-----------------------------------------------------------------------------
(* Step 8: the serial replay, on worker 0 *)

NextToReplay(t) ==
    /\ phase = "serial"
    /\ t \in serialReplayList \ replayed
    /\ \A u \in serialReplayList \ replayed : t <= u

\* Variant: the replay applies the key check too and queues the transaction again.
ReplayRequeued(t) ==
    /\ NextToReplay(t)
    /\ \E r \in RealSets \cup {NoKeys} :
          /\ real' = [real EXCEPT ![t] = r]
          /\ seen' = [seen EXCEPT ![t] = [k \in r[1] |-> trie[k]]]
          /\ trie' = [k \in Keys |-> IF k \in r[2] THEN t ELSE trie[k]]
          /\ replayed' = IF r[1] \subseteq specRS[t] /\ r[2] \subseteq specWS[t]
                          THEN replayed \cup {t} ELSE replayed
    /\ UNCHANGED <<dagVars, todo, worker, object, pending, revision, batchResults,
                   serialReplayList, committed, aborted>>

\* committedDelta is empty in this mode: the worker reads the shared trie, and
\* its writes accumulate in its objects.  Nobody else uses the trie any more,
\* so the trie and the objects over it are one state.
Replay(t) ==
    /\ NextToReplay(t)
    /\ \E r \in RealSets \cup {NoKeys} :
          /\ real' = [real EXCEPT ![t] = r]
          /\ seen' = [seen EXCEPT ![t] = [k \in r[1] |-> trie[k]]]
          /\ trie' = [k \in Keys |-> IF k \in r[2] THEN t ELSE trie[k]]
    /\ replayed' = replayed \cup {t}
    /\ UNCHANGED <<dagVars, todo, worker, object, pending, revision, batchResults,
                   serialReplayList, committed, aborted>>

Finish ==
    /\ phase = "serial" /\ serialReplayList \subseteq replayed
    /\ phase' = "done"
    /\ UNCHANGED <<specRS, specWS, blockSize, start, orderedTxs, remaining, executed, batch, order, runVars>>

Terminated == phase \in {"done", "panicked"} /\ UNCHANGED vars

Alive == phase # "panicked"

Worker(t) ==
    /\ Alive
    /\ \/ \E a \in Touched(t) : LoadAccount(t, a) \/ FlushAccount(t, a)
       \/ Finalise(t) \/ Mismatch(t) \/ Flushed(t) \/ FlushFails(t)

Main == Order \/ Select \/ EndBatch \/ EndBlock \/ EndValidation \/ Finish

Next ==
    \/ Main
    \/ \E t \in Txs : Receive(t) \/ Worker(t) \/ Replay(t)
    \/ Terminated

Spec == Init /\ [][Next]_vars

\* The Go scheduler runs every goroutine that can take a step.
FairSpec ==
    /\ Spec
    /\ WF_vars(Main)
    /\ \A t \in Txs : WF_vars(Receive(t)) /\ WF_vars(Worker(t)) /\ WF_vars(Replay(t))

-----------------------------------------------------------------------------
(* Properties *)

Wrote == [t \in Txs |-> real[t][2]]

\* A transaction in flight holds its snapshot until its objects are finalised,
\* and only then has accounts to flush; nobody is in flight between batches.
TypeOK ==
    /\ phase \in {"order", "select", "run", "serial", "done", "panicked"}
    /\ trie \in [Keys -> Txs \cup {Witness}]
    /\ worker \in [Txs -> {"none", "execute", "flush"}]
    /\ \A t \in Txs : worker[t] = "execute" => revision[t] /\ pending[t] = {}
    /\ todo \subseteq batch /\ Goroutines \subseteq batch \ todo
    /\ batch \subseteq remaining /\ remaining \cap executed = {}

\* The accounts t may flush
SpecAccounts(t) == {AccountOf[k] : k \in specWS[t]}

\* No two transactions write different keys of one account without a conflict,
\* so the DAG keeps those that flush one account apart.  Contracts do have many
\* slots, and nothing in the code makes this so for every range.
AccountsApart ==
    \A t, u \in Txs : t # u /\ SpecAccounts(t) \cap SpecAccounts(u) # {} => HasConflict(t, u)

\* The execution is equivalent to the serial one that runs the flushed
\* transactions in chain order and then the replayed ones in TxID order.
SerialEquivalence ==
    /\ \A t \in committed : \A k \in DOMAIN seen[t] :
          seen[t][k] = LastWriter(order, k, Position(order, t) - 1, committed, Wrote)
    /\ \A t \in replayed : \A k \in DOMAIN seen[t] :
          seen[t][k] = ReplayedValue(order, k, t, committed, replayed, Wrote)

\* "No overlay merge: the shared trie already carries every successful write."
TrieCarriesEveryWrite ==
    phase = "select" =>
        trie = [k \in Keys |-> LastWriter(order, k, Len(order), committed, Wrote)]

\* The transactions read the shared trie, whole accounts at a time, while others
\* flush theirs into it, and yet they are serializable, as long as those that
\* write keys of one account are kept apart.
SerialIfAccountsApart == AccountsApart => SerialEquivalence

\* After every batch the trie carries every successful write, as long as the
\* transactions that write keys of one account are kept apart.
CarriedIfAccountsApart == AccountsApart => TrieCarriesEveryWrite

\* Every transaction was flushed or replayed, never both, when the mode returns.
FlushedOrReplayed ==
    /\ committed \cap serialReplayList = {}
    /\ phase = "done" => committed \cup replayed = Txs

\* The transactions of the batch whose writes are in the trie or on their way.
Flushing == {t \in Txs : worker[t] = "flush"} \cup batchResults

\* The transactions that were reverted: counted as aborted already, or in the batch.
Rejected == aborted \cup {t \in batch \ (todo \cup batchResults) : worker[t] = "none"}

\* The batch and the lists: a transaction of a batch is waiting, with a worker,
\* flushed or rejected, and the rejected ones are the ones listed for the replay,
\* which goes through the list in the order of the TxIDs.
BatchInv ==
    /\ TypeOK /\ revision \in [Txs -> BOOLEAN] /\ DOMAIN pending = Txs
    /\ committed \cup aborted = Done /\ committed \cap aborted = {}
    /\ IF phase \in {"run", "panicked"} THEN batchResults \subseteq batch \ todo
                                        ELSE batchResults \subseteq committed
    /\ \A t \in Txs : worker[t] # "none" => t \notin batchResults
    /\ \A t \in Txs : worker[t] = "flush" => ~revision[t]
    /\ phase # "panicked" => \A t \in Txs : worker[t] = "none" => pending[t] = {}
    /\ serialReplayList \subseteq Rejected
    /\ phase # "panicked" => serialReplayList = Rejected
    /\ replayed \subseteq serialReplayList
    /\ replayed # {} => phase \in {"serial", "done"}
    /\ phase = "done" => serialReplayList \subseteq replayed
    /\ \A t \in replayed, u \in serialReplayList \ replayed : t < u

\* The objects of a worker: whole accounts, ...
WholeAccounts(t) ==
    /\ DOMAIN object[t] \subseteq Keys
    /\ \A k \in DOMAIN object[t] : /\ object[t][k] \in Txs \cup {Witness}
                                   /\ KeysOf(AccountOf[k]) \subseteq DOMAIN object[t]

\* ... with the writes of its transaction once they are finalised; ...
Finalised(t) ==
    /\ pending[t] \subseteq {AccountOf[k] : k \in real[t][2]}
    /\ \A k \in real[t][2] : k \in DOMAIN object[t] /\ object[t][k] = t

\* ... only then were its keys found to match.
WithinSpec(t) == real[t][2] \subseteq specWS[t] /\ DOMAIN seen[t] \subseteq specRS[t]

ObjectInv ==
    /\ real \in [Txs -> (SUBSET Keys) \X (SUBSET Keys)] /\ DOMAIN object = Txs /\ DOMAIN seen = Txs
    /\ \A t \in Txs : worker[t] # "none" => WholeAccounts(t)
    /\ \A t \in Txs : worker[t] = "flush" => Finalised(t)
    /\ \A t \in committed \cup Flushing : WithinSpec(t)

\* The value of k when the batch began.
BatchBase(k) == LastWriter(order, k, Len(order), committed, Wrote)

\* Whether t has written k to the trie.
InTrie(t, k) == k \in real[t][2] /\ AccountOf[k] \notin pending[t]

\* During a batch the trie has the flushed writes of k over the value the batch
\* began with, and who was expected to read k has read that value.
KeyInv(k) ==
    /\ \A t \in Flushing : InTrie(t, k) => trie[k] = t
    /\ (\A t \in Flushing : ~InTrie(t, k)) => trie[k] = BatchBase(k)
    /\ \A t \in Flushing : k \in DOMAIN seen[t] => seen[t][k] = BatchBase(k)
    /\ \A t \in Txs : worker[t] = "execute" /\ k \in specRS[t] \cap DOMAIN object[t]
                          => object[t][k] = BatchBase(k)

\* Who may flush the account of k has loaded that value too, and flushes it along
\* with its own writes.
AccountInv(k) ==
    \A t \in Txs : AccountOf[k] \in SpecAccounts(t) /\ k \in DOMAIN object[t] =>
        /\ worker[t] = "execute" => object[t][k] = BatchBase(k)
        /\ worker[t] = "flush" => k \in real[t][2] \/ object[t][k] = BatchBase(k)

ValueInv ==
    /\ phase = "run" => \A k \in Keys : KeyInv(k) /\ AccountInv(k)
    /\ phase \notin {"run", "panicked"} => \A k \in Keys :
          trie[k] = ReplayedValue(order, k, NTx + 1, committed, replayed, Wrote)

\* The inductive invariant of the shared-trie mode.
SharedTrieInv ==
    /\ DagInv /\ BatchInv /\ ObjectInv
    /\ AccountsApart => ValueInv /\ SerialEquivalence

\* The batches and the pinned workers never wait for one another forever: the
\* mode returns, unless a failed flush ends the process.
EventuallyEnds == <>(phase \in {"done", "panicked"})
=============================================================================
