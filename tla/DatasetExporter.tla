--------------------------- MODULE DatasetExporter ---------------------------
(***************************************************************************)
(* cmd/eth-dataset-exporter: a loop starts one goroutine per block, at     *)
(* most Slots at a time; a goroutine fetches its block with requests that  *)
(* share a rate limiter and are retried, writes its file and saves a       *)
(* checkpoint after every Interval blocks.  A signal makes the loop save a *)
(* checkpoint and exit; a run started again resumes from it.               *)
(***************************************************************************)
EXTENDS Naturals, FiniteSets

CONSTANTS NBlocks,    \* blocks of the range fromBlock..toBlock
          Slots,      \* capacity of sem
          Interval,   \* blocks between two checkpoints, 10 in the code
          MaxRetries, \* of a request, 10 in the code
          MaxRuns,    \* bound: how often the process is started
          Absent,     \* there is no checkpoint file
          Torn        \* the checkpoint file does not parse

ASSUME ExporterAssumption ==
    /\ NBlocks \in Nat \ {0} /\ Slots \in Nat \ {0} /\ Interval \in Nat \ {0}
    /\ MaxRetries \in Nat /\ MaxRuns \in Nat \ {0}
    /\ Absent # Torn /\ Absent \notin Nat /\ Torn \notin Nat

Blocks == 1..NBlocks

\* Block 0 is the one before the range.
VARIABLES
    file,        \* block -> "none", "partial" or "full": survives the process
    checkpoint,  \* the checkpoint file: survives the process
    main,        \* where the main goroutine is
    bn,          \* the loop variable
    signalled,   \* a signal is in sigCh
    pc,          \* where the goroutine of each block is
    token,       \* rateCh holds its token
    attempt,     \* retries of the request each goroutine is making
    blockCount,
    overlapped,  \* two savers are, or were while one still is, writing at once
    runs,        \* history: how often the process was started
    failed,      \* history: blocks whose error was logged
    resumed      \* history: the checkpoint this run resumed from

disk == <<file, checkpoint>>
loop == <<main, bn, signalled>>
rpcVars == <<token, attempt>>
counters == <<blockCount, overlapped>>
history == <<runs, failed, resumed>>
vars == <<disk, loop, pc, rpcVars, counters, history>>

Idle == [b \in Blocks |-> "none"]
Active == {b \in Blocks : pc[b] # "none"}
SomeoneSaves == main = "saving" \/ \E b \in Blocks : pc[b] = "saving"

Init ==
    /\ file = [b \in Blocks |-> "none"]
    /\ checkpoint = Absent
    /\ main = "down" /\ bn = 1 /\ signalled = FALSE
    /\ pc = Idle /\ token = FALSE /\ attempt = [b \in Blocks |-> 0]
    /\ blockCount = 0 /\ overlapped = FALSE
    /\ runs = 0 /\ failed = {} /\ resumed = 0

-----------------------------------------------------------------------------
(* The main goroutine *)

\* Variant: the run resumes one block too late.
ResumeTooLate ==
    IF checkpoint # Absent /\ checkpoint \in 1..(NBlocks - 1) THEN checkpoint + 2 ELSE 1

\* A checkpoint outside of the range, or at its end, is not used.
ResumeBlock ==
    IF checkpoint # Absent /\ checkpoint \in 1..(NBlocks - 1) THEN checkpoint + 1 ELSE 1

\* log.Fatalf when the checkpoint does not parse.
Start ==
    /\ main = "down" /\ runs < MaxRuns
    /\ runs' = runs + 1
    /\ IF checkpoint = Torn
       THEN main' = "refused" /\ UNCHANGED <<bn, resumed>>
       ELSE /\ main' = "select" /\ bn' = ResumeBlock
            /\ resumed' = IF checkpoint \in 1..(NBlocks - 1) THEN checkpoint ELSE 0
    /\ signalled' = FALSE
    /\ pc' = Idle /\ token' = FALSE /\ attempt' = [b \in Blocks |-> 0]
    /\ blockCount' = 0 /\ overlapped' = FALSE
    /\ UNCHANGED <<disk, failed>>

Running == main \in {"select", "acquire", "drain", "saving", "exiting"}

\* Nobody receives a second signal.
Signal ==
    /\ main \in {"select", "acquire", "drain"} /\ ~signalled
    /\ signalled' = TRUE
    /\ UNCHANGED <<rpcVars, disk, main, bn, pc, counters, history>>

Select ==
    /\ main = "select" /\ bn <= NBlocks /\ ~signalled
    /\ main' = "acquire"
    /\ UNCHANGED <<rpcVars, disk, bn, signalled, pc, counters, history>>

\* Variant: the semaphore is not acquired.
LaunchUnlimited ==
    /\ main = "acquire"
    /\ pc' = [pc EXCEPT ![bn] = "block"]
    /\ bn' = bn + 1
    /\ main' = "select"
    /\ UNCHANGED <<rpcVars, disk, signalled, counters, history>>

\* sem <- struct{}{} blocks while Slots goroutines run.
Launch ==
    /\ main = "acquire" /\ Cardinality(Active) < Slots
    /\ pc' = [pc EXCEPT ![bn] = "block"]
    /\ bn' = bn + 1
    /\ main' = "select"
    /\ UNCHANGED <<rpcVars, disk, signalled, counters, history>>

\* The signal is received, at the top of the loop only.
Interrupted == main = "select" /\ bn <= NBlocks /\ signalled /\ signalled' = FALSE

\* WriteCheckpoint truncates the file, also while a goroutine saves ...
Interrupt ==
    /\ Interrupted
    /\ checkpoint' = Torn
    /\ overlapped' = SomeoneSaves
    /\ main' = "saving"
    /\ UNCHANGED <<rpcVars, file, bn, pc, blockCount, history>>

\* ... and writes it; goroutines still run, and may save, until os.Exit.
InterruptSaves ==
    /\ main = "saving"
    /\ checkpoint' \in IF overlapped THEN {bn - 1, Torn} ELSE {bn - 1}
    /\ main' = "exiting"
    /\ UNCHANGED <<rpcVars, file, bn, signalled, pc, counters, history>>

\* The error of WriteCheckpoint is ignored here too.
InterruptSaveFails ==
    /\ Interrupted \/ (main = "saving" /\ UNCHANGED signalled)
    /\ main' = "exiting"
    /\ UNCHANGED <<rpcVars, disk, bn, pc, counters, history>>

\* os.Exit ends the goroutines where they are.
Exit ==
    /\ main = "exiting"
    /\ main' = "down"
    /\ pc' = Idle
    /\ UNCHANGED <<rpcVars, disk, bn, signalled, counters, history>>

LoopEnds ==
    /\ main = "select" /\ bn > NBlocks
    /\ main' = "drain"
    /\ UNCHANGED <<rpcVars, disk, bn, signalled, pc, counters, history>>

\* wg.Wait() returns.
Complete ==
    /\ main = "drain" /\ Active = {}
    /\ main' = "complete"
    /\ UNCHANGED <<rpcVars, disk, bn, signalled, pc, counters, history>>

\* The process is killed at any point; the files stay as they are.
Crash ==
    /\ Running
    /\ main' = "down"
    /\ pc' = Idle
    /\ UNCHANGED <<rpcVars, disk, bn, signalled, counters, history>>

\* The ticker of the rate limiter; rateCh holds one token at most.
Refill ==
    /\ Running /\ ~token
    /\ token' = TRUE
    /\ UNCHANGED <<disk, loop, pc, attempt, counters, history>>

-----------------------------------------------------------------------------
(* The goroutine of block b *)

\* exportBlock asks for the block, its receipts and, for each transaction (one
\* here), the two traces.
NextCall == [block |-> "receipts", receipts |-> "prestate", prestate |-> "diff", diff |-> "build"]

\* Every attempt takes a token; the backoff before it is part of the step.
Attempt(b) == pc[b] \in DOMAIN NextCall /\ token /\ token' = FALSE

Answered(b) ==
    /\ Attempt(b)
    /\ pc' = [pc EXCEPT ![b] = NextCall[pc[b]]]
    /\ attempt' = [attempt EXCEPT ![b] = 0]
    /\ UNCHANGED <<disk, loop, counters, history>>

\* Variant: the attempts are not counted.
RetriedForever(b) ==
    /\ Attempt(b)
    /\ UNCHANGED <<attempt, disk, loop, pc, counters, history>>

\* The request failed with a retryable error.
Retried(b) ==
    /\ Attempt(b) /\ attempt[b] < MaxRetries
    /\ attempt' = [attempt EXCEPT ![b] = @ + 1]
    /\ UNCHANGED <<disk, loop, pc, counters, history>>

\* It failed for good, at the last attempt or with another error.  Without a
\* block or receipts the export fails; a missing trace is only a warning.
GivenUp(b) ==
    /\ Attempt(b)
    /\ attempt' = [attempt EXCEPT ![b] = 0]
    /\ IF pc[b] \in {"block", "receipts"}
       THEN failed' = failed \cup {b} /\ pc' = [pc EXCEPT ![b] = "none"]
       ELSE failed' = failed /\ pc' = [pc EXCEPT ![b] = "build"]
    /\ UNCHANGED <<disk, loop, counters, runs, resumed>>

\* WriteBlock holds the writer's mutex while os.WriteFile truncates the file ...
OpenFile(b) ==
    /\ pc[b] = "build" /\ \A c \in Blocks : pc[c] # "write"
    /\ file' = [file EXCEPT ![b] = "partial"]
    /\ pc' = [pc EXCEPT ![b] = "write"]
    /\ UNCHANGED <<rpcVars, checkpoint, loop, counters, history>>

\* ... and writes it.
WriteFile(b) ==
    /\ pc[b] = "write"
    /\ file' = [file EXCEPT ![b] = "full"]
    /\ pc' = [pc EXCEPT ![b] = "count"]
    /\ UNCHANGED <<rpcVars, checkpoint, loop, counters, history>>

WriteFails(b) ==
    /\ pc[b] \in {"build", "write"}
    /\ failed' = failed \cup {b}
    /\ pc' = [pc EXCEPT ![b] = "none"]
    /\ UNCHANGED <<rpcVars, disk, loop, counters, runs, resumed>>

\* blockCount++ under mu.
Count(b) ==
    /\ pc[b] = "count"
    /\ blockCount' = blockCount + 1
    /\ pc' = [pc EXCEPT ![b] = "check"]
    /\ UNCHANGED <<rpcVars, disk, loop, overlapped, history>>

\* blockCount is read again without mu: two goroutines may both see a multiple.
NoSave(b) ==
    /\ pc[b] = "check" /\ blockCount % Interval # 0
    /\ pc' = [pc EXCEPT ![b] = "none"]
    /\ UNCHANGED <<rpcVars, disk, loop, counters, history>>

\* WriteCheckpoint truncates the file in place ...
OpenCheckpoint(b) ==
    /\ pc[b] = "check" /\ blockCount % Interval = 0
    /\ checkpoint' = Torn
    /\ overlapped' = SomeoneSaves
    /\ pc' = [pc EXCEPT ![b] = "saving"]
    /\ UNCHANGED <<rpcVars, file, loop, blockCount, history>>

\* ... and writes it; two writes at once may leave a mixture.
SaveCheckpoint(b) ==
    /\ pc[b] = "saving"
    /\ checkpoint' \in IF overlapped THEN {b, Torn} ELSE {b}
    /\ pc' = [pc EXCEPT ![b] = "none"]
    /\ UNCHANGED <<rpcVars, file, loop, counters, history>>

\* The error of WriteCheckpoint is ignored.
SaveFails(b) ==
    /\ \/ pc[b] = "check" /\ blockCount % Interval = 0
       \/ pc[b] = "saving"
    /\ pc' = [pc EXCEPT ![b] = "none"]
    /\ UNCHANGED <<rpcVars, disk, loop, counters, history>>

Export(b) ==
    \/ Answered(b) \/ Retried(b) \/ GivenUp(b)
    \/ OpenFile(b) \/ WriteFile(b) \/ WriteFails(b) \/ Count(b)
    \/ NoSave(b) \/ OpenCheckpoint(b) \/ SaveCheckpoint(b) \/ SaveFails(b)

Main ==
    \/ Select \/ Launch \/ LoopEnds \/ Complete
    \/ Interrupt \/ InterruptSaves \/ InterruptSaveFails \/ Exit

Next == Start \/ Main \/ Signal \/ Crash \/ Refill \/ \E b \in Blocks : Export(b)

Spec == Init /\ [][Next]_vars

\* The scheduler runs every goroutine and the ticker ticks; nobody has to send a
\* signal, and a request may fail every time.
FairSpec ==
    /\ Spec /\ WF_vars(Start) /\ WF_vars(Main) /\ WF_vars(Refill)
    /\ \A b \in Blocks : WF_vars(Export(b))

-----------------------------------------------------------------------------
(* Properties *)

\* The state of the process and of the files has its type, and only a running
\* process has goroutines.
TypeOK ==
    /\ file \in [Blocks -> {"none", "partial", "full"}]
    /\ main \in {"down", "refused", "select", "acquire", "saving", "exiting", "drain", "complete"}
    /\ pc \in [Blocks -> DOMAIN NextCall \cup {"none", "build", "write", "count", "check", "saving"}]
    /\ attempt \in [Blocks -> 0..MaxRetries]
    /\ checkpoint \in {Absent, Torn} \/ checkpoint \in 0..NBlocks
    /\ Cardinality(Active) <= Slots
    /\ ~Running => Active = {}
    /\ failed \subseteq Blocks

Missing == {b \in Blocks : file[b] # "full" /\ b \notin failed}

Saved == checkpoint \notin {Absent, Torn}

\* The blocks no goroutine works on that the loop, or a run resumed from the
\* checkpoint, has passed although they are missing.
Skipped ==
    {b \in Missing \ Active : b < bn \/ (Saved /\ b <= checkpoint)}

\* The inductive invariant of the exporter.  The loop variable stays in its range
\* and ahead of the goroutines; a block is counted, and its number saved, only
\* after its file is written; a run passes no block after the one it resumed
\* from without a goroutine, a file or a logged error for it; and every
\* run that stopped has left at most Slots blocks behind.
ExporterInv ==
    /\ TypeOK
    /\ bn \in 1..(NBlocks + 1) /\ resumed \in 0..(NBlocks - 1) /\ runs \in Nat
    /\ main \in {"acquire", "saving"} => bn <= NBlocks
    /\ main \in {"drain", "complete"} => bn = NBlocks + 1
    /\ \A b \in Active : b < bn
    /\ \A b \in Blocks : pc[b] \in {"count", "check", "saving"} => file[b] = "full"
    /\ Running \/ main = "complete" => \A b \in Missing \ Active : b < bn => b <= resumed
    /\ IF Running THEN runs > 0 /\ Cardinality(Skipped) <= Slots * (runs - 1)
                  ELSE Cardinality(Skipped) <= Slots * runs

\* A run that completes leaves no gap: every block after the checkpoint it resumed from was
\* written, or its error was logged.
CompleteRunHasNoGap ==
    main = "complete" => \A b \in Missing : b <= resumed

\* A process that stopped left the number of a block to resume after: every
\* block up to it is written, or its error was logged.
CheckpointCoversWritten ==
    Saved /\ ~Running => \A b \in 1..checkpoint : file[b] = "full" \/ b \in failed

\* What a checkpoint skips: of the blocks up to it, at most Slots for each time
\* the process was started are neither written nor logged as errors.
CheckpointSkipsAtMostSlots ==
    Saved => Cardinality({b \in Missing : b <= checkpoint}) <= Slots * runs

\* A run ends, it completes or exits, although its requests wait for tokens that
\* other goroutines take and are sent again when they fail.
RunsEnd == [](Running => <>~Running)
=============================================================================
