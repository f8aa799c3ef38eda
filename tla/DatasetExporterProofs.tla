------------------------ MODULE DatasetExporterProofs ------------------------
(***************************************************************************)
(* The safety properties of the dataset exporter for any number of blocks, *)
(* slots, retries and runs.                                                *)
(***************************************************************************)
EXTENDS DatasetExporter, FiniteSetTheorems, TLAPS

\* The sets of blocks whose sizes the invariant compares are finite.
LEMMA BlocksFinite ==
    /\ \A S \in SUBSET Blocks : IsFiniteSet(S) /\ Cardinality(S) \in Nat
    /\ \A S, T \in SUBSET Blocks :
          S \subseteq T => Cardinality(S) <= Cardinality(T)
    /\ \A S, T \in SUBSET Blocks :
          Cardinality(S \cup T) <= Cardinality(S) + Cardinality(T)
<1>1. IsFiniteSet(Blocks)
  BY ExporterAssumption, FS_Interval DEF Blocks
<1>2. ASSUME NEW S \in SUBSET Blocks
      PROVE  IsFiniteSet(S) /\ Cardinality(S) \in Nat
  <2>1. IsFiniteSet(S)
    BY <1>1, FS_Subset
  <2> QED BY <2>1, FS_CardinalityType
<1>3. ASSUME NEW S \in SUBSET Blocks, NEW T \in SUBSET Blocks, S \subseteq T
      PROVE  Cardinality(S) <= Cardinality(T)
  BY <1>2, <1>3, FS_Subset
<1>4. ASSUME NEW S \in SUBSET Blocks, NEW T \in SUBSET Blocks
      PROVE  Cardinality(S \cup T) <= Cardinality(S) + Cardinality(T)
  <2>1. Cardinality(S \cup T)
          = Cardinality(S) + Cardinality(T) - Cardinality(S \cap T)
    BY <1>2, FS_Union
  <2>2. Cardinality(S) \in Nat /\ Cardinality(T) \in Nat /\ Cardinality(S \cap T) \in Nat
    BY <1>2
  <2> QED BY <2>1, <2>2
<1> QED BY <1>2, <1>3, <1>4

\* The budget of blocks left behind grows by Slots with each run.
LEMMA SlotsPerRun ==
    ASSUME NEW n \in Nat
    PROVE  /\ Slots * n \in Nat
           /\ n > 0 => Slots * n = Slots * (n - 1) + Slots
<1>1. Slots \in Nat
  BY ExporterAssumption
<1> QED BY <1>1

\* The initial state, before the first start, satisfies the invariant.
LEMMA InitInv == Init => ExporterInv
<1> SUFFICES ASSUME Init PROVE ExporterInv
  OBVIOUS
<1> USE ExporterAssumption DEF Init
<1>1. Active = {}
  BY DEF Active, Idle
<1>2. ~Running
  BY DEF Running
<1>3. TypeOK
  BY <1>1, <1>2, FS_EmptySet DEF TypeOK, Idle, NextCall, Blocks
<1>4. Skipped = {}
  BY DEF Skipped, Missing, Saved, Blocks
<1>5. Cardinality(Skipped) <= Slots * runs
  BY <1>4, FS_EmptySet
<1> QED BY <1>1, <1>2, <1>3, <1>5 DEF ExporterInv, Idle, Blocks

-----------------------------------------------------------------------------
(* The steps of a goroutine *)

\* What every step of the goroutine of block b does: the loop goes on
\* unchanged, no other goroutine moves, a goroutine that ends leaves its block
\* written or its error logged, and the only number saved is that of b.
LEMMA ExportFrame ==
    ASSUME NEW b \in Blocks, ExporterInv, Export(b)
    PROVE  /\ UNCHANGED <<main, bn, signalled, runs, resumed>>
           /\ b \in Active /\ Active' \subseteq Active
           /\ Missing' \ Active' \subseteq Missing \ Active
           /\ \A c \in Blocks : pc'[c] \in {"count", "check", "saving"} => file'[c] = "full"
           /\ checkpoint' \in {checkpoint, Torn, b}
<1> USE DEF ExporterInv, TypeOK
<1>1. CASE Answered(b) \/ Retried(b)
  BY <1>1 DEF Answered, Retried, Attempt, NextCall, Active, Missing, disk, loop, counters, history
<1>2. CASE GivenUp(b)
  BY <1>2 DEF GivenUp, Attempt, NextCall, Active, Missing, disk, loop, counters
<1>3. CASE OpenFile(b) \/ WriteFile(b)
  BY <1>3 DEF OpenFile, WriteFile, Active, Missing, loop, counters, history
<1>4. CASE WriteFails(b)
  BY <1>4 DEF WriteFails, Active, Missing, disk, loop, counters
<1>5. CASE Count(b) \/ NoSave(b)
  BY <1>5 DEF Count, NoSave, Active, Missing, disk, loop, counters, history
<1>6. CASE OpenCheckpoint(b) \/ SaveCheckpoint(b)
  BY <1>6 DEF OpenCheckpoint, SaveCheckpoint, Active, Missing, loop, counters, history
<1>7. CASE SaveFails(b)
  BY <1>7 DEF SaveFails, Active, Missing, disk, loop, counters, history
<1> QED BY <1>1, <1>2, <1>3, <1>4, <1>5, <1>6, <1>7 DEF Export

\* A goroutine keeps the variables in their types.
LEMMA ExportTypes ==
    ASSUME NEW b \in Blocks, ExporterInv, Export(b)
    PROVE  /\ file' \in [Blocks -> {"none", "partial", "full"}]
           /\ pc' \in [Blocks -> DOMAIN NextCall \cup {"none", "build", "write", "count", "check", "saving"}]
           /\ attempt' \in [Blocks -> 0..MaxRetries]
           /\ failed' \subseteq Blocks
<1> USE ExporterAssumption DEF ExporterInv, TypeOK
<1>1. CASE Answered(b)
  BY <1>1 DEF Answered, Attempt, NextCall, disk, history
<1>2. CASE Retried(b)
  BY <1>2 DEF Retried, Attempt, disk, history
<1>3. CASE GivenUp(b)
  BY <1>3 DEF GivenUp, Attempt, disk
<1>4. CASE OpenFile(b) \/ WriteFile(b)
  BY <1>4 DEF OpenFile, WriteFile, rpcVars, history
<1>5. CASE WriteFails(b)
  BY <1>5 DEF WriteFails, rpcVars, disk
<1>6. CASE Count(b) \/ NoSave(b)
  BY <1>6 DEF Count, NoSave, rpcVars, disk, history
<1>7. CASE OpenCheckpoint(b) \/ SaveCheckpoint(b)
  BY <1>7 DEF OpenCheckpoint, SaveCheckpoint, rpcVars, history
<1>8. CASE SaveFails(b)
  BY <1>8 DEF SaveFails, rpcVars, disk, history
<1> QED BY <1>1, <1>2, <1>3, <1>4, <1>5, <1>6, <1>7, <1>8 DEF Export

\* A step of a goroutine keeps the invariant.
LEMMA ExportKeepsInv ==
    ASSUME NEW b \in Blocks, ExporterInv, Export(b)
    PROVE  ExporterInv'
<1>1. /\ UNCHANGED <<main, bn, signalled, runs, resumed>>
      /\ b \in Active /\ Active' \subseteq Active
      /\ Missing' \ Active' \subseteq Missing \ Active
      /\ \A c \in Blocks : pc'[c] \in {"count", "check", "saving"} => file'[c] = "full"
      /\ checkpoint' \in {checkpoint, Torn, b}
  BY ExportFrame
<1>2. /\ b < bn /\ Running' = Running /\ Running
  BY <1>1 DEF ExporterInv, TypeOK, Running
<1>3. Active \subseteq Blocks /\ Active' \subseteq Blocks
  BY DEF Active
<1>4. Skipped' \subseteq Skipped
  BY <1>1, <1>2, ExporterAssumption DEF Skipped, Saved, Missing, Blocks, ExporterInv
<1>5. Skipped \subseteq Blocks
  BY DEF Skipped, Missing
<1>6. Cardinality(Active') <= Slots
  BY <1>1, <1>3, BlocksFinite, ExporterAssumption DEF ExporterInv, TypeOK
<1>7. Cardinality(Skipped') <= Slots * (runs' - 1)
  <2>1. Cardinality(Skipped) <= Slots * (runs - 1) /\ runs > 0 /\ runs \in Nat
    BY <1>2 DEF ExporterInv
  <2>2. Slots * (runs - 1) \in Nat
    BY <2>1, SlotsPerRun
  <2>3. Cardinality(Skipped') <= Cardinality(Skipped)
    BY <1>4, <1>5, BlocksFinite
  <2>4. Cardinality(Skipped) \in Nat /\ Cardinality(Skipped') \in Nat
    BY <1>4, <1>5, BlocksFinite
  <2> QED BY <1>1, <2>1, <2>2, <2>3, <2>4
<1>8. checkpoint' \in {Absent, Torn} \/ checkpoint' \in 0..NBlocks
  BY <1>1, ExporterAssumption DEF ExporterInv, TypeOK, Blocks
<1>9. TypeOK'
  BY <1>1, <1>2, <1>6, <1>8, ExportTypes DEF ExporterInv, TypeOK
<1> QED BY <1>1, <1>2, <1>7, <1>9 DEF ExporterInv

-----------------------------------------------------------------------------
(* The steps of the main goroutine *)

\* A start keeps the invariant: the run begins right after a checkpoint, so
\* whatever it passes was passed already.
LEMMA StartKeepsInv ==
    ASSUME ExporterInv, Start
    PROVE  ExporterInv'
<1> USE ExporterAssumption
<1>1. /\ main = "down" /\ runs \in Nat /\ runs' = runs + 1
      /\ UNCHANGED <<file, checkpoint, failed>> /\ ~Running /\ Active = {}
  BY DEF Start, disk, ExporterInv, TypeOK, Running
<1>2. Active' = {} /\ Missing' = Missing /\ Saved' = Saved
  BY <1>1 DEF Start, Active, Idle, Missing, Saved
<1>3. /\ pc' \in [Blocks -> DOMAIN NextCall \cup {"none", "build", "write", "count", "check", "saving"}]
      /\ attempt' \in [Blocks -> 0..MaxRetries]
      /\ \A b \in Blocks : pc'[b] = "none"
  BY DEF Start, Idle
<1>4. Cardinality(Active') <= Slots
  BY <1>2, FS_EmptySet
<1>5. \/ /\ main' = "refused" /\ UNCHANGED <<bn, resumed>>
      \/ /\ main' = "select" /\ checkpoint # Torn
         /\ bn' \in 1..NBlocks /\ resumed' \in 0..(NBlocks - 1) /\ bn' = resumed' + 1
         /\ resumed' = 0 \/ (Saved /\ resumed' = checkpoint)
  BY DEF Start, ResumeBlock, ExporterInv, TypeOK, Saved
<1>6. TypeOK'
  BY <1>1, <1>2, <1>3, <1>4, <1>5 DEF ExporterInv, TypeOK
<1>7. Skipped' \subseteq Skipped
  BY <1>1, <1>2, <1>5 DEF Skipped, Missing, Blocks, ExporterInv
<1>8. Cardinality(Skipped') <= Slots * runs
  <2>1. Skipped \subseteq Blocks
    BY DEF Skipped, Missing
  <2>2. /\ Cardinality(Skipped) \in Nat /\ Cardinality(Skipped') \in Nat
        /\ Cardinality(Skipped') <= Cardinality(Skipped)
    BY <1>7, <2>1, BlocksFinite
  <2>3. Cardinality(Skipped) <= Slots * runs /\ Slots * runs \in Nat
    BY <1>1, SlotsPerRun DEF ExporterInv
  <2> QED BY <2>2, <2>3
<1>9. /\ runs' > 0 /\ runs' \in Nat
      /\ Cardinality(Skipped') <= Slots * (runs' - 1)
      /\ Cardinality(Skipped') <= Slots * runs'
  <2>1. runs' - 1 = runs /\ runs' \in Nat /\ runs' > 0
    BY <1>1
  <2>2. Slots * runs' = Slots * runs + Slots /\ Slots * runs \in Nat
    BY <2>1, <1>1, SlotsPerRun
  <2>3. Cardinality(Skipped') \in Nat
    <3>1. Skipped' \subseteq Blocks
      BY <1>2, <1>7 DEF Skipped, Missing
    <3> QED BY <3>1, BlocksFinite
  <2> QED BY <1>8, <2>1, <2>2, <2>3
<1>10. \A b \in Missing' \ Active' : b < bn' => b <= resumed' \/ main' = "refused"
  BY <1>5 DEF Missing, Blocks
<1> QED
  BY <1>1, <1>2, <1>3, <1>5, <1>6, <1>9, <1>10 DEF ExporterInv, Running

\* Acquiring a slot and starting a goroutine for block bn keeps the invariant.
LEMMA LaunchKeepsInv ==
    ASSUME ExporterInv, Launch
    PROVE  ExporterInv'
<1> USE ExporterAssumption
<1>1. /\ Running /\ Running' /\ main' = "select"
      /\ bn \in Blocks /\ bn' = bn + 1
      /\ UNCHANGED <<file, checkpoint, failed, runs, resumed, attempt>>
      /\ pc' = [pc EXCEPT ![bn] = "block"]
  BY DEF Launch, Running, ExporterInv, Blocks, disk, history, rpcVars
<1>2. pc' \in [Blocks -> DOMAIN NextCall \cup {"none", "build", "write", "count", "check", "saving"}]
  BY <1>1 DEF ExporterInv, TypeOK, NextCall
<1>3. Active' = Active \cup {bn} /\ Active \subseteq Blocks
  BY <1>1 DEF Active, ExporterInv, TypeOK
<1>4. Missing' = Missing /\ Saved' = Saved
  BY <1>1 DEF Missing, Saved
<1>5. Cardinality(Active') <= Slots
  <2>1. Cardinality(Active) \in Nat /\ IsFiniteSet(Active)
    BY <1>3, BlocksFinite
  <2>2. Cardinality(Active \cup {bn}) = IF bn \in Active THEN Cardinality(Active)
                                        ELSE Cardinality(Active) + 1
    BY <2>1, FS_AddElement, Zenon
  <2>3. Cardinality(Active) < Slots
    BY DEF Launch
  <2> QED BY <1>3, <2>1, <2>2, <2>3
<1>6. TypeOK'
  BY <1>1, <1>2, <1>5 DEF ExporterInv, TypeOK
<1>7. Skipped' \subseteq Skipped /\ Skipped \subseteq Blocks
  BY <1>1, <1>3, <1>4 DEF Skipped, Missing, Blocks, ExporterInv
<1>8. runs' > 0 /\ Cardinality(Skipped') <= Slots * (runs' - 1)
  <2>1. /\ Cardinality(Skipped) \in Nat /\ Cardinality(Skipped') \in Nat
        /\ Cardinality(Skipped') <= Cardinality(Skipped)
    BY <1>7, BlocksFinite
  <2>2. runs > 0 /\ runs \in Nat /\ Cardinality(Skipped) <= Slots * (runs - 1)
    BY <1>1 DEF ExporterInv
  <2>3. Slots * (runs - 1) \in Nat
    BY <2>2, SlotsPerRun
  <2> QED BY <1>1, <2>1, <2>2, <2>3
<1>9. \A b \in Missing' \ Active' : b < bn' => b <= resumed'
  BY <1>1, <1>3, <1>4 DEF ExporterInv, Missing, Blocks
<1>10. \A b \in Active' : b < bn'
  BY <1>1, <1>3 DEF ExporterInv, Blocks
<1>11. \A b \in Blocks : pc'[b] \in {"count", "check", "saving"} => file'[b] = "full"
  BY <1>1 DEF ExporterInv, TypeOK
<1> QED
  BY <1>1, <1>6, <1>8, <1>9, <1>10, <1>11 DEF ExporterInv, Blocks

\* The save after a signal keeps the invariant: the number it leaves is that of
\* the last block with a goroutine, and no goroutine ends before the process.
LEMMA InterruptKeepsInv ==
    ASSUME ExporterInv, Interrupt \/ InterruptSaves \/ InterruptSaveFails
    PROVE  ExporterInv'
<1> USE ExporterAssumption
<1>1. /\ Running /\ Running' /\ main' \in {"saving", "exiting"} /\ bn \in Blocks
      /\ UNCHANGED <<file, bn, failed, runs, resumed, attempt, pc>>
      /\ checkpoint' \in {checkpoint, Torn, bn - 1}
  BY DEF Interrupt, InterruptSaves, InterruptSaveFails, Interrupted, Running, ExporterInv,
         Blocks, disk, history, rpcVars, counters
<1>2. Active' = Active /\ Missing' = Missing
  BY <1>1 DEF Active, Missing
<1>3. checkpoint' \in {Absent, Torn} \/ checkpoint' \in 0..NBlocks
  BY <1>1 DEF ExporterInv, TypeOK, Blocks
<1>4. TypeOK'
  BY <1>1, <1>2, <1>3 DEF ExporterInv, TypeOK
<1>5. Skipped' \subseteq Skipped /\ Skipped \subseteq Blocks
  BY <1>1, <1>2 DEF Skipped, Missing, Saved, Blocks
<1>6. runs' > 0 /\ Cardinality(Skipped') <= Slots * (runs' - 1)
  <2>1. /\ Cardinality(Skipped) \in Nat /\ Cardinality(Skipped') \in Nat
        /\ Cardinality(Skipped') <= Cardinality(Skipped)
    BY <1>5, BlocksFinite
  <2>2. runs > 0 /\ runs \in Nat /\ Cardinality(Skipped) <= Slots * (runs - 1)
    BY <1>1 DEF ExporterInv
  <2>3. Slots * (runs - 1) \in Nat
    BY <2>2, SlotsPerRun
  <2> QED BY <1>1, <2>1, <2>2, <2>3
<1> QED
  BY <1>1, <1>2, <1>4, <1>6 DEF ExporterInv, Blocks

\* A process that stops, by a signal or a crash, leaves at most Slots more
\* blocks behind: the ones its goroutines were working on.
LEMMA StopKeepsInv ==
    ASSUME ExporterInv, Exit \/ Crash
    PROVE  ExporterInv'
<1> USE ExporterAssumption
<1>1. /\ Running /\ ~Running' /\ main' = "down"
      /\ UNCHANGED <<file, checkpoint, bn, failed, runs, resumed, attempt>>
      /\ pc' = Idle
  BY DEF Exit, Crash, Running, disk, history, rpcVars
<1>2. /\ pc' \in [Blocks -> DOMAIN NextCall \cup {"none", "build", "write", "count", "check", "saving"}]
      /\ \A b \in Blocks : pc'[b] = "none"
      /\ Active' = {} /\ Cardinality(Active') <= Slots
  BY <1>1, FS_EmptySet DEF Idle, Active
<1>3. TypeOK'
  BY <1>1, <1>2 DEF ExporterInv, TypeOK
<1>4. Skipped' \subseteq Skipped \cup Active
  BY <1>1, <1>2 DEF Skipped, Missing, Saved
<1>5. Cardinality(Skipped') <= Slots * runs'
  <2>1. Skipped \subseteq Blocks /\ Active \subseteq Blocks
    BY DEF Skipped, Missing, Active
  <2>2. /\ Cardinality(Skipped') <= Cardinality(Skipped \cup Active)
        /\ Cardinality(Skipped \cup Active) <= Cardinality(Skipped) + Cardinality(Active)
        /\ Cardinality(Skipped') \in Nat /\ Cardinality(Skipped \cup Active) \in Nat
        /\ Cardinality(Skipped) \in Nat /\ Cardinality(Active) \in Nat
    BY <1>4, <2>1, BlocksFinite
  <2>3. /\ runs \in Nat /\ runs > 0 /\ Cardinality(Active) <= Slots
        /\ Cardinality(Skipped) <= Slots * (runs - 1)
    BY <1>1 DEF ExporterInv, TypeOK
  <2>4. Slots * runs = Slots * (runs - 1) + Slots /\ Slots * (runs - 1) \in Nat
    BY <2>3, SlotsPerRun
  <2> QED BY <1>1, <2>2, <2>3, <2>4
<1> QED
  BY <1>1, <1>2, <1>3, <1>5 DEF ExporterInv

\* The other steps of the main goroutine, the signal and the ticker only move
\* the program counters of the loop.
LEMMA LoopKeepsInv ==
    ASSUME ExporterInv,
           Select \/ LoopEnds \/ Complete \/ Signal \/ Refill \/ UNCHANGED vars
    PROVE  ExporterInv'
<1> USE ExporterAssumption
<1>1. UNCHANGED <<file, checkpoint, bn, failed, runs, resumed, attempt, pc>>
  BY DEF Select, LoopEnds, Complete, Signal, Refill, vars, disk, loop, rpcVars, counters, history
<1>2. /\ Active' = Active /\ Missing' = Missing /\ Saved' = Saved /\ Skipped' = Skipped
  BY <1>1 DEF Active, Missing, Saved, Skipped
<1>3. \/ main' = main
      \/ main = "select" /\ bn <= NBlocks /\ main' = "acquire"
      \/ main = "select" /\ bn > NBlocks /\ main' = "drain"
      \/ main = "drain" /\ Active = {} /\ main' = "complete"
  BY DEF Select, LoopEnds, Complete, Signal, Refill, vars, loop
<1>4. TypeOK'
  BY <1>1, <1>2, <1>3 DEF ExporterInv, TypeOK, Running
<1>5. IF Running' THEN runs' > 0 /\ Cardinality(Skipped') <= Slots * (runs' - 1)
                  ELSE Cardinality(Skipped') <= Slots * runs'
  <2>1. CASE Running' = Running
    BY <1>1, <1>2, <2>1 DEF ExporterInv
  <2>2. CASE Running /\ ~Running'
    <3>1. runs \in Nat /\ runs > 0 /\ Cardinality(Skipped) <= Slots * (runs - 1)
      BY <2>2 DEF ExporterInv
    <3>2. Slots * runs = Slots * (runs - 1) + Slots /\ Slots * (runs - 1) \in Nat
      BY <3>1, SlotsPerRun
    <3>3. Cardinality(Skipped) \in Nat
      <4>1. Skipped \subseteq Blocks
        BY DEF Skipped, Missing
      <4> QED BY <4>1, BlocksFinite
    <3> QED BY <1>1, <1>2, <2>2, <3>1, <3>2, <3>3
  <2> QED BY <1>3, <2>1, <2>2 DEF Running
<1> QED
  BY <1>1, <1>2, <1>3, <1>4, <1>5 DEF ExporterInv, Running

-----------------------------------------------------------------------------
(* The theorems *)

\* ExporterInv is an invariant of the exporter (the loop, the goroutines and the
\* checkpoints of main.go), whatever the blocks, slots, retries and runs.
THEOREM ExporterInvariant == Spec => []ExporterInv
<1>1. ExporterInv /\ [Next]_vars => ExporterInv'
  <2> SUFFICES ASSUME ExporterInv, [Next]_vars PROVE ExporterInv'
    OBVIOUS
  <2>1. CASE \E b \in Blocks : Export(b)
    BY <2>1, ExportKeepsInv
  <2> QED
    BY <2>1, StartKeepsInv, LaunchKeepsInv, InterruptKeepsInv, StopKeepsInv, LoopKeepsInv DEF Next, Main
<1> QED BY <1>1, InitInv, PTL DEF Spec

\* A run that completes has written, or logged the error of, every block after
\* the checkpoint it resumed from: the semaphore, wg.Wait and the order of
\* writing and counting lose none.
THEOREM NoGap == Spec => []CompleteRunHasNoGap
<1>1. ExporterInv => CompleteRunHasNoGap
  BY ExporterAssumption DEF ExporterInv, TypeOK, CompleteRunHasNoGap, Missing, Running, Blocks
<1> QED BY <1>1, ExporterInvariant, PTL

\* What a checkpoint makes the next run skip is bounded: at most one block for
\* each slot and each time the process was started is lost for good.
THEOREM CheckpointLoss == Spec => []CheckpointSkipsAtMostSlots
<1>1. ExporterInv => CheckpointSkipsAtMostSlots
  <2> SUFFICES ASSUME ExporterInv, Saved
               PROVE  Cardinality({b \in Missing : b <= checkpoint}) <= Slots * runs
    BY DEF CheckpointSkipsAtMostSlots
  <2> DEFINE Passed == {b \in Missing : b <= checkpoint}
  <2>1. Passed \subseteq Skipped \cup Active
    BY DEF Skipped
  <2>2. Skipped \subseteq Blocks /\ Active \subseteq Blocks
    BY DEF Skipped, Missing, Active
  <2>3. /\ Cardinality(Passed) <= Cardinality(Skipped \cup Active)
        /\ Cardinality(Skipped \cup Active) <= Cardinality(Skipped) + Cardinality(Active)
        /\ Cardinality(Passed) \in Nat /\ Cardinality(Skipped \cup Active) \in Nat
        /\ Cardinality(Skipped) \in Nat /\ Cardinality(Active) \in Nat
    BY <2>1, <2>2, BlocksFinite
  <2>4. runs \in Nat /\ Slots * runs \in Nat
    BY SlotsPerRun DEF ExporterInv
  <2>5. CASE Running
    <3>1. /\ runs > 0 /\ Cardinality(Active) <= Slots
          /\ Cardinality(Skipped) <= Slots * (runs - 1)
      BY <2>5 DEF ExporterInv, TypeOK
    <3>2. Slots * runs = Slots * (runs - 1) + Slots /\ Slots * (runs - 1) \in Nat
      BY <2>4, <3>1, SlotsPerRun
    <3> QED BY <2>3, <3>1, <3>2, ExporterAssumption
  <2>6. CASE ~Running
    <3>1. Cardinality(Active) = 0 /\ Cardinality(Skipped) <= Slots * runs
      BY <2>6, FS_EmptySet, Zenon DEF ExporterInv, TypeOK
    <3> QED BY <2>3, <2>4, <3>1
  <2> QED BY <2>5, <2>6
<1> QED BY <1>1, ExporterInvariant, PTL

=============================================================================
