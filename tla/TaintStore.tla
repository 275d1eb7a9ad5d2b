----------------------------- MODULE TaintStore -----------------------------
(***************************************************************************)
(* The per-session taint snapshot of packages/agents/src/claude-code:      *)
(* every PostToolUse hook is a process of its own that folds the taint its *)
(* tool call raised into one snapshot file, under a lock file that is tried *)
(* once and reclaimed by age; `patchwork clear-taint` rewrites the same    *)
(* file without taking the lock; PreToolUse only reads it.                 *)
(*                                                                         *)
(* Abstractions: a taint source is the pair of its kind and the call that  *)
(* raised it (ts, ref and content_hash identify the call); generated_file  *)
(* taint has one source per write instead of one per upstream source; the  *)
(* age of the lock file is one bit, "older than LOCK_STALE_MS".            *)
(***************************************************************************)
EXTENDS Naturals, FiniteSets

CONSTANTS
  Calls,        \* the PostToolUse hooks of the session, one process each
  Tools,        \* the tools they may report
  NoTool,       \* the call has not happened yet
  NoLock,       \* there is no lock file
  NoSnapshot,   \* there is no snapshot file; also the reader's null
  MaxCrashes,   \* bound: hook processes that die
  MaxFaults,    \* bound: failed writes of the marker or of the snapshot
  MaxClears,    \* bound: runs of clear-taint
  MayStall      \* may a live holder outlast LOCK_STALE_MS?

ALL_TAINT_KINDS ==
  {"prompt", "secret", "network_content", "mcp", "generated_file"}

(***************************************************************************)
(* The kinds each call raises: RAISES_FOR_TOOL narrowed by the handler     *)
(* (Read never raises secret) and, for Bash, by the shell indicators.      *)
(***************************************************************************)
RAISES_FOR_TOOL ==
  [WebFetch |-> {"network_content", "prompt"}, mcp |-> {"mcp", "prompt"},
   Read |-> {"prompt"}, Write |-> {"generated_file"},
   BashFetch |-> {"network_content", "prompt"},
   BashSecret |-> {"secret", "prompt"}, BashEval |-> {"prompt"}]

Source == ALL_TAINT_KINDS \X Calls
Snapshot == [active : SUBSET Source, cleared : SUBSET Source]
LockFile == [owner : Calls, old : BOOLEAN]

ASSUME ConstantsAssumption ==
  /\ Tools \subseteq DOMAIN RAISES_FOR_TOOL /\ NoTool \notin Tools
  /\ NoLock \notin LockFile /\ NoSnapshot \notin Snapshot
  /\ MaxCrashes \in Nat /\ MaxFaults \in Nat /\ MaxClears \in Nat
  /\ MayStall \in BOOLEAN

VARIABLES
  snapshot,  \* <session>.json
  pending,   \* does <session>.pending exist?
  lock,      \* <session>.lock
  pc,        \* where each PostToolUse hook is in the update
  tool,      \* the tool it reports
  folded,    \* the snapshot it will write
  clear,     \* the clear-taint process: at, kinds, allowSecret, its snapshot
  committed, \* history: the sources that a successful write recorded
  stolen,    \* history: has the lock file of a live holder been unlinked?
  raced,     \* history: has clear-taint overwritten a snapshot it did not load?
  crashes, faults, clears   \* counters for the bounds

files == <<snapshot, pending, lock>>
hooks == <<pc, tool, folded>>
history == <<committed, stolen, raced>>
counters == <<crashes, faults, clears>>
vars == <<files, hooks, clear, history, counters>>

createSnapshot == [active |-> {}, cleared |-> {}]
Locked == {"load", "mark", "write", "unmark", "release"}
Held(l) == l # NoLock /\ pc[l.owner] \in Locked

-----------------------------------------------------------------------------
\* readTaintSnapshot: null if the file is missing or its marker is there.
readTaintSnapshot == IF pending THEN NoSnapshot ELSE snapshot

loadOrInitSnapshot ==
  IF readTaintSnapshot = NoSnapshot THEN createSnapshot ELSE readTaintSnapshot

(***************************************************************************)
(* registerTaint and registerGeneratedFile: a write is tainted only by     *)
(* what is active when it happens.                                         *)
(***************************************************************************)
Raised(s, c) ==
  {k \in RAISES_FOR_TOOL[tool[c]] : k = "generated_file" => s.active # {}} \X {c}

\* Mutant: the fold replaces the active sources of the snapshot.
FoldReplaces(s, c) == [s EXCEPT !.active = Raised(s, c)]

Fold(s, c) == [s EXCEPT !.active = @ \cup Raised(s, c)]

\* Mutant: no kind is refused.
AcceptsEveryKind(kinds, allowSecret) == kinds

\* The kinds for which clearTaint does not throw.
Accepted(kinds, allowSecret) == {k \in kinds : k = "secret" => allowSecret}

\* clearTaint, for the accepted kinds: their sources stay, marked as cleared.
clearTaint(s, kinds) ==
  LET gone == {x \in s.active : x[1] \in kinds}
  IN [active |-> s.active \ gone, cleared |-> s.cleared \cup gone]

-----------------------------------------------------------------------------
NoClear == [at |-> "idle", kinds |-> {}, allowSecret |-> FALSE, loaded |-> createSnapshot]

Init ==
  /\ snapshot = NoSnapshot /\ pending = FALSE /\ lock = NoLock
  /\ pc = [c \in Calls |-> "idle"]
  /\ tool = [c \in Calls |-> NoTool]
  /\ folded = [c \in Calls |-> createSnapshot]
  /\ clear = NoClear
  /\ committed = {} /\ stolen = FALSE /\ raced = FALSE
  /\ crashes = 0 /\ faults = 0 /\ clears = 0

Goto(c, label) == pc' = [pc EXCEPT ![c] = label]

\* What a process held in memory ends with it.
Forget(c) == folded' = [folded EXCEPT ![c] = createSnapshot]

\* updateTaintSnapshotForPostTool for a call that raises some kind (it returns
\* at once for the others).
PostToolUse(c, t) ==
  /\ pc[c] = "idle"
  /\ tool' = [tool EXCEPT ![c] = t]
  /\ Goto(c, "open")
  /\ UNCHANGED <<files, folded, clear, history, counters>>

(***************************************************************************)
(* withSessionLock.  A call that does not get the lock throws: the handler *)
(* swallows the error and the hook ends at "dropped".                      *)
(***************************************************************************)
Acquire(c) ==
  /\ pc[c] \in {"open", "reopen"} /\ lock = NoLock
  /\ lock' = [owner |-> c, old |-> FALSE]
  /\ Goto(c, "load")
  /\ UNCHANGED <<snapshot, pending, tool, folded, clear, history, counters>>

LockExists(c) ==
  /\ pc[c] \in {"open", "reopen"} /\ lock # NoLock
  /\ Goto(c, IF pc[c] = "open" THEN "stat" ELSE "dropped")
  /\ UNCHANGED <<files, tool, folded, clear, history, counters>>

\* statSync: a vanished or a fresh lock file gives up, an old one is unlinked.
StatLock(c) ==
  /\ pc[c] = "stat"
  /\ Goto(c, IF lock # NoLock /\ lock.old THEN "unlink" ELSE "dropped")
  /\ UNCHANGED <<files, tool, folded, clear, history, counters>>

UnlinkStale(c) ==
  /\ pc[c] = "unlink"
  /\ lock' = NoLock
  /\ stolen' = (stolen \/ Held(lock))
  /\ Goto(c, "reopen")
  /\ UNCHANGED <<snapshot, pending, tool, folded, clear, committed, raced, counters>>

\* finally: unlink whatever lock file is there.
Release(c) ==
  /\ pc[c] = "release"
  /\ lock' = NoLock
  /\ stolen' = (stolen \/ (Held(lock) /\ lock.owner # c))
  /\ Goto(c, "done") /\ Forget(c)
  /\ UNCHANGED <<snapshot, pending, tool, clear, committed, raced, counters>>

(***************************************************************************)
(* doFoldedUpdate.                                                         *)
(***************************************************************************)
Load(c) ==
  /\ pc[c] = "load"
  /\ folded' = [folded EXCEPT ![c] = Fold(loadOrInitSnapshot, c)]
  /\ Goto(c, IF Raised(loadOrInitSnapshot, c) = {} THEN "release" ELSE "mark")
  /\ UNCHANGED <<files, tool, clear, history, counters>>

\* setPendingMarker is best effort.
SetPendingMarker(c) ==
  /\ pc[c] = "mark"
  /\ \/ pending' = TRUE /\ UNCHANGED faults
     \/ faults < MaxFaults /\ faults' = faults + 1 /\ UNCHANGED pending
  /\ Goto(c, "write")
  /\ UNCHANGED <<snapshot, lock, tool, folded, clear, history, crashes, clears>>

\* writeTaintSnapshot throws: the finally block still clears the marker.
WriteFails(c) ==
  /\ pc[c] = "write" /\ faults < MaxFaults
  /\ faults' = faults + 1
  /\ Goto(c, "unmark")
  /\ UNCHANGED <<files, tool, folded, clear, history, crashes, clears>>

\* writeTaintSnapshot renames the new file into place.
WriteSnapshot(c) ==
  /\ pc[c] = "write"
  /\ snapshot' = folded[c]
  /\ committed' = committed \cup (folded[c].active \cap (ALL_TAINT_KINDS \X {c}))
  /\ Goto(c, "unmark")
  /\ UNCHANGED <<pending, lock, tool, folded, clear, stolen, raced, counters>>

ClearPendingMarker(c) ==
  /\ pc[c] = "unmark"
  /\ pending' = FALSE
  /\ Goto(c, "release")
  /\ UNCHANGED <<snapshot, lock, tool, folded, clear, history, counters>>

-----------------------------------------------------------------------------
(***************************************************************************)
(* patchwork clear-taint: one kind, or every kind but secret.  It reads the *)
(* snapshot (and stops at null), loads it again, and writes it back.       *)
(***************************************************************************)
ClearChoices == {{k} : k \in ALL_TAINT_KINDS} \cup {ALL_TAINT_KINDS \ {"secret"}}

ClearTaint(kinds, allowSecret) ==
  /\ clear.at = "idle" /\ clears < MaxClears /\ readTaintSnapshot # NoSnapshot
  /\ clears' = clears + 1
  /\ clear' = [clear EXCEPT !.at = "load", !.kinds = kinds, !.allowSecret = allowSecret]
  /\ UNCHANGED <<files, hooks, history, crashes, faults>>

\* Nothing is written if every kind was refused.
ClearLoad ==
  /\ clear.at = "load"
  /\ clear' = IF Accepted(clear.kinds, clear.allowSecret) = {} THEN NoClear
              ELSE [clear EXCEPT !.at = "write", !.loaded = loadOrInitSnapshot]
  /\ UNCHANGED <<files, hooks, history, counters>>

ClearWrite ==
  /\ clear.at = "write"
  /\ snapshot' = clearTaint(clear.loaded, Accepted(clear.kinds, clear.allowSecret))
  /\ raced' = (raced \/ snapshot # clear.loaded)
  /\ clear' = NoClear
  /\ UNCHANGED <<pending, lock, hooks, committed, stolen, counters>>

-----------------------------------------------------------------------------
\* A hook process dies anywhere in the update.
Crash(c) ==
  /\ pc[c] \notin {"idle", "dropped", "done", "dead"} /\ crashes < MaxCrashes
  /\ crashes' = crashes + 1
  /\ Goto(c, "dead") /\ Forget(c)
  /\ UNCHANGED <<files, tool, clear, history, faults, clears>>

\* The lock file becomes older than LOCK_STALE_MS.
Age ==
  /\ lock # NoLock /\ ~lock.old
  /\ MayStall \/ ~Held(lock)
  /\ lock' = [lock EXCEPT !.old = TRUE]
  /\ UNCHANGED <<snapshot, pending, hooks, clear, history, counters>>

Step(c) ==
  \/ Acquire(c) \/ LockExists(c) \/ StatLock(c) \/ UnlinkStale(c)
  \/ Load(c) \/ SetPendingMarker(c) \/ WriteFails(c) \/ WriteSnapshot(c)
  \/ ClearPendingMarker(c) \/ Release(c)

Next ==
  \/ \E c \in Calls : \E t \in Tools : PostToolUse(c, t)
  \/ \E c \in Calls : Step(c)
  \/ \E kinds \in ClearChoices, allow \in BOOLEAN : ClearTaint(kinds, allow)
  \/ ClearLoad \/ ClearWrite
  \/ \E c \in Calls : Crash(c)
  \/ Age

Spec == Init /\ [][Next]_vars
-----------------------------------------------------------------------------
(***************************************************************************)
(* Properties.                                                             *)
(***************************************************************************)
\* The variables have their types: what the hooks and clear-taint write is
\* always a snapshot.
TypeOK ==
  /\ snapshot \in Snapshot \cup {NoSnapshot} /\ pending \in BOOLEAN
  /\ lock \in LockFile \cup {NoLock}
  /\ pc \in [Calls -> Locked \cup {"idle", "open", "stat", "unlink", "reopen",
                                  "dropped", "done", "dead"}]
  /\ tool \in [Calls -> Tools \cup {NoTool}]
  /\ folded \in [Calls -> Snapshot]
  /\ clear \in [at : {"idle", "load", "write"}, kinds : SUBSET ALL_TAINT_KINDS,
                allowSecret : BOOLEAN, loaded : Snapshot]
  /\ committed \subseteq Source /\ stolen \in BOOLEAN /\ raced \in BOOLEAN
  /\ crashes \in Nat /\ faults \in Nat /\ clears \in Nat

Recorded(s) == s.active \cup s.cleared

\* No update is lost: a source that a hook wrote stays in the snapshot, active
\* or cleared, whatever other hooks and clear-taint do meanwhile, as long as no
\* hook died, no lock was stolen and clear-taint did not overwrite a newer file.
NoLostUpdate ==
  crashes = 0 /\ ~stolen /\ ~raced /\ committed # {} =>
    snapshot # NoSnapshot /\ committed \subseteq Recorded(snapshot)

\* A source stops being active only because a human cleared its kind, and a
\* secret only with --allow-secret (same exceptions as NoLostUpdate).
TaintShrinksOnlyByClear ==
  [][crashes = 0 /\ ~stolen' /\ ~raced' /\ snapshot # NoSnapshot =>
       \A x \in snapshot.active \ snapshot'.active :
         /\ clear.at = "write" /\ x[1] \in clear.kinds
         /\ x[1] = "secret" => clear.allowSecret]_vars
=============================================================================
