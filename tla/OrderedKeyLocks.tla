--------------------------- MODULE OrderedKeyLocks ---------------------------
(***************************************************************************)
(* What the Depurge scheduler promises its callers, without queues and     *)
(* counters: transactions declare the keys they may touch, in TxID order;  *)
(* a transaction starts only when no earlier transaction holds one of its  *)
(* keys; while it runs it may give keys back; when it ends it gives back   *)
(* the rest.  DepurgeScheduler is shown to implement this specification.   *)
(***************************************************************************)
EXTENDS Integers

CONSTANTS NTx, Keys

VARIABLES declared,  \* transactions 1..declared have declared their keys
          held,      \* the keys each transaction claims
          started,   \* running transactions
          finished   \* transactions that ended, by commit or by abort

lockVars == <<declared, held, started, finished>>

LockInit ==
    /\ declared = 0
    /\ held = [t \in 1..NTx |-> {}]
    /\ started = {}
    /\ finished = {}

Declare(t, ks) ==
    /\ t = declared + 1
    /\ declared' = t
    /\ held' = [held EXCEPT ![t] = ks]
    /\ UNCHANGED <<started, finished>>

Start(t) ==
    /\ t <= declared
    /\ t \notin started \cup finished
    /\ \A u \in 1..(t - 1) : held[u] \cap held[t] = {}
    /\ started' = started \cup {t}
    /\ UNCHANGED <<declared, held, finished>>

GiveBack(t, ks) ==
    /\ t \in started
    /\ held' = [held EXCEPT ![t] = held[t] \ ks]
    /\ UNCHANGED <<declared, started, finished>>

Finish(t) ==
    /\ t \in started
    /\ held' = [held EXCEPT ![t] = {}]
    /\ started' = started \ {t}
    /\ finished' = finished \cup {t}
    /\ UNCHANGED declared

LockNext ==
    \E t \in 1..NTx :
        \/ \E ks \in SUBSET Keys : Declare(t, ks) \/ GiveBack(t, ks)
        \/ Start(t)
        \/ Finish(t)

LockSpec == LockInit /\ [][LockNext]_lockVars
=============================================================================
