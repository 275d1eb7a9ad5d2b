----------------------------- MODULE Telemetry ------------------------------
(***************************************************************************)
(* The PreToolUse telemetry file of packages/cli/src/commands/hook.ts:     *)
(* each hook process writes one line under an advisory lock that is taken  *)
(* with O_EXCL, tried a bounded number of times, and reclaimed when it is  *)
(* stale; a full file is rotated to .1, .1 to .2 and so on.  With lock     *)
(* mode "rotate-only" a line that fits is written without the lock.        *)
(*                                                                         *)
(* Abstractions: every line has the same length, so sizes count lines; a   *)
(* line is the process that writes it; reading the clock is a choice,      *)
(* since a holder that is slow for TELEM_LOCK_STALE_MS looks dead.         *)
(***************************************************************************)
EXTENDS Naturals, FiniteSets

CONSTANTS
  Tellers,               \* hook processes
  Nobody,                \* the lock file does not exist
  OldLines,              \* what earlier processes left in each file
  MaxLinesPerFile,       \* MAX_BYTES
  MaxFiles,              \* MAX_FILES
  TELEM_LOCK_MAX_RETRIES,
  MaxMishaps             \* bound: dying and slow lock holders

ASSUME TelemetryAssumption ==
  /\ Nobody \notin Tellers
  /\ MaxLinesPerFile \in Nat \ {0} /\ MaxFiles \in Nat \ {0}
  /\ TELEM_LOCK_MAX_RETRIES \in Nat \ {0} /\ MaxMishaps \in Nat

VARIABLES
  file,     \* 0 is the active file, i the one rotated to .i; {} if it is absent
  lockMode, \* "always" or "rotate-only"
  lock,     \* the lock file: who made it, and whether it is stale
  teller,   \* per process: where it is, its tries, the next file to shift
  mishaps,  \* counter for the bound
  said,     \* history: the lines that were written
  dropped,  \* history: the lines of files that were rotated out
  usurped   \* history: was a lock removed under its living holder?

telemetryHistory == <<said, dropped, usurped>>
telemetryVars == <<file, lockMode, lock, teller, mishaps, telemetryHistory>>

Free == [by |-> Nobody, stale |-> FALSE]

TelemetryInit ==
  /\ file = [i \in 0..(MaxFiles + 1) |-> IF i \in DOMAIN OldLines THEN OldLines[i] ELSE {}]
  /\ lockMode \in {"always", "rotate-only"}
  /\ lock = Free
  /\ teller = [p \in Tellers |-> [pc |-> "new", rotate |-> FALSE, tries |-> 0, shift |-> 0]]
  /\ mishaps = 0 /\ said = UNION {file[i] : i \in DOMAIN file} /\ dropped = {} /\ usurped = FALSE

Mishap ==
  /\ mishaps < MaxMishaps
  /\ mishaps' = mishaps + 1

At(p, label) == teller' = [teller EXCEPT ![p].pc = label]

full == Cardinality(file[0]) + 1 > MaxLinesPerFile

\* Does p still own the lock file that it would remove?
Usurps(p) ==
  lock.by \notin {Nobody, p} /\ teller[lock.by].pc \notin {"dead", "done"}

-----------------------------------------------------------------------------
\* appendTelemetryFile: the file is measured before the lock is asked for.
Measure(p) ==
  /\ teller[p].pc = "new"
  /\ teller' = [teller EXCEPT
       ![p].rotate = file[0] # {} /\ full,
       ![p].pc = IF (file[0] # {} /\ full) \/ lockMode = "always" THEN "lock" ELSE "append"]
  /\ UNCHANGED <<file, lockMode, lock, mishaps, telemetryHistory>>

(***************************************************************************)
(* withTelemetryLock.                                                      *)
(***************************************************************************)
Acquire(p) ==
  /\ teller[p].pc = "lock" /\ teller[p].tries < TELEM_LOCK_MAX_RETRIES
  /\ lock = Free
  /\ lock' = [by |-> p, stale |-> FALSE]
  /\ At(p, IF teller[p].rotate THEN "recheck" ELSE "append")
  /\ UNCHANGED <<file, lockMode, mishaps, telemetryHistory>>

\* EEXIST: a stale lock is removed in the next step, any other is waited for.
Busy(p) ==
  /\ teller[p].pc = "lock" /\ teller[p].tries < TELEM_LOCK_MAX_RETRIES
  /\ lock # Free
  /\ teller' = [teller EXCEPT ![p].tries = @ + 1,
                              ![p].pc = IF lock.stale THEN "reclaim" ELSE "lock"]
  /\ UNCHANGED <<file, lockMode, lock, mishaps, telemetryHistory>>

Reclaim(p) ==
  /\ teller[p].pc = "reclaim"
  /\ lock' = Free
  /\ usurped' = (usurped \/ Usurps(p))
  /\ At(p, "lock")
  /\ UNCHANGED <<file, lockMode, mishaps, said, dropped>>

\* "telemetry lock contention, skipping file write"
Skip(p) ==
  /\ teller[p].pc = "lock" /\ teller[p].tries = TELEM_LOCK_MAX_RETRIES
  /\ At(p, "done")
  /\ UNCHANGED <<file, lockMode, lock, mishaps, telemetryHistory>>

\* The lock file is removed by its path, whoever made it.
Release(p) ==
  /\ teller[p].pc = "release"
  /\ lock' = Free
  /\ usurped' = (usurped \/ Usurps(p))
  /\ At(p, "done")
  /\ UNCHANGED <<file, lockMode, mishaps, said, dropped>>

\* TELEM_LOCK_STALE_MS pass while the lock is held.
LockGrowsStale ==
  /\ lock # Free /\ ~lock.stale
  /\ \/ teller[lock.by].pc \in {"dead", "done"} /\ UNCHANGED mishaps
     \/ teller[lock.by].pc \notin {"dead", "done"} /\ Mishap
  /\ lock' = [lock EXCEPT !.stale = TRUE]
  /\ UNCHANGED <<file, lockMode, teller, telemetryHistory>>

-----------------------------------------------------------------------------
(***************************************************************************)
(* rotateTelemetryFiles, after another look at the size.                   *)
(***************************************************************************)

\* cleanupRotatedFiles removes the files that would leave the range.
Recheck(p) ==
  /\ teller[p].pc = "recheck"
  /\ IF file[0] # {} /\ full
     THEN /\ file' = [i \in DOMAIN file |-> IF i >= MaxFiles THEN {} ELSE file[i]]
          /\ dropped' = dropped \cup UNION {file[i] : i \in {j \in DOMAIN file : j >= MaxFiles}}
          /\ teller' = [teller EXCEPT ![p].pc = "shift", ![p].shift = MaxFiles - 1]
     ELSE At(p, "append") /\ UNCHANGED <<file, dropped>>
  /\ UNCHANGED <<lockMode, lock, mishaps, said, usurped>>

Move(i) == file' = [file EXCEPT ![i + 1] = file[i], ![i] = {}]

\* Mutant: the files are shifted from the front.
ShiftForward(p) ==
  LET i == MaxFiles - teller[p].shift IN
  /\ teller[p].pc = "shift" /\ teller[p].shift > 0
  /\ IF file[i] # {} THEN Move(i) ELSE UNCHANGED file
  /\ teller' = [teller EXCEPT ![p].shift = @ - 1]
  /\ UNCHANGED <<lockMode, lock, mishaps, telemetryHistory>>

\* One rename, from the last file to the first; it replaces what is there.
Shift(p) ==
  LET i == teller[p].shift IN
  /\ teller[p].pc = "shift" /\ i > 0
  /\ IF file[i] # {} THEN Move(i) ELSE UNCHANGED file
  /\ teller' = [teller EXCEPT ![p].shift = i - 1]
  /\ UNCHANGED <<lockMode, lock, mishaps, telemetryHistory>>

\* If the active file is gone the rename throws, and the line is written anyway.
RotateActive(p) ==
  /\ teller[p].pc = "shift" /\ teller[p].shift = 0
  /\ IF file[0] # {} THEN Move(0) ELSE UNCHANGED file
  /\ At(p, "append")
  /\ UNCHANGED <<lockMode, lock, mishaps, telemetryHistory>>

\* Nothing tells a lock-free append that fits from one under the lock.
AppendLine(p) ==
  /\ teller[p].pc = "append"
  /\ file' = [file EXCEPT ![0] = @ \cup {p}]
  /\ said' = said \cup {p}
  /\ At(p, IF teller[p].rotate \/ lockMode = "always" THEN "release" ELSE "done")
  /\ UNCHANGED <<lockMode, lock, mishaps, dropped, usurped>>

TellerDies(p) ==
  /\ teller[p].pc \notin {"new", "done", "dead"}
  /\ Mishap
  /\ At(p, "dead")
  /\ UNCHANGED <<file, lockMode, lock, telemetryHistory>>

TelemetryNext ==
  \/ \E p \in Tellers :
       \/ Measure(p) \/ Acquire(p) \/ Busy(p) \/ Reclaim(p) \/ Skip(p) \/ Release(p)
       \/ Recheck(p) \/ Shift(p) \/ RotateActive(p) \/ AppendLine(p) \/ TellerDies(p)
  \/ LockGrowsStale

TelemetrySpec == TelemetryInit /\ [][TelemetryNext]_telemetryVars

-----------------------------------------------------------------------------
(***************************************************************************)
(* Rotation loses no line: one that was written is in the active or in a   *)
(* rotated file, unless the file it was in was rotated out, or a lock was  *)
(* taken from a holder that was only slow.                                 *)
(***************************************************************************)
TelemetryKept ==
  usurped \/ said \subseteq dropped \cup UNION {file[i] : i \in DOMAIN file}

=============================================================================
