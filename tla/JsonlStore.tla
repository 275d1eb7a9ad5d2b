----------------------------- MODULE JsonlStore -----------------------------
(***************************************************************************)
(* The append-only audit log of packages/core/src/store/jsonl.ts.          *)
(*                                                                         *)
(* Every hook invocation is a process with a JsonlStore of its own; all of *)
(* them append to one events.jsonl under an advisory lock file that is     *)
(* created with O_EXCL.  A process takes the steps of append/withLock one  *)
(* file-system call at a time, so that two processes interleave between    *)
(* any two calls, and it may die between any two of them.                  *)
(*                                                                         *)
(* Abstractions: an event is the number of the append call that carries it *)
(* (its event_hash: distinct events have distinct hashes) and the call's   *)
(* number is also withLock's random token; file sizes count lines; a lock  *)
(* file's age is one bit, "older than LOCK_STALE_THRESHOLD_MS".            *)
(***************************************************************************)
EXTENDS Naturals, Sequences

CONSTANTS
  Procs,              \* process ids (a dead pid is not reused)
  HostOf,             \* the host each process runs on
  Keys,               \* idempotency keys
  NoKey,              \* an event without idempotency_key
  NoLock,             \* there is no lock file
  MaxEvents,          \* bound: append calls in a behaviour
  MaxRetries,         \* LOCK_MAX_RETRIES (50 in the code)
  FinalAttempts,      \* FINAL_RECLAIM_ATTEMPTS (3 in the code)
  RotateAt,           \* rotation.maxBytes, in lines; 0 disables rotation
  MaxFiles,           \* rotation.maxFiles
  MaxCrashes,         \* bound: processes that die
  MaxTorn,            \* bound: I/O errors of appends
  MaxMetaFaults,      \* bound: failed writes of the lock metadata
  MayStall,           \* may a live holder outlast LOCK_STALE_THRESHOLD_MS?
  CoarseClock         \* may two writes to the log get the same mtime?

ASSUME BoundsAssumption ==
  /\ MaxEvents \in Nat /\ MaxRetries \in Nat \ {0} /\ FinalAttempts \in Nat \ {0}
  /\ RotateAt \in Nat /\ MaxFiles \in Nat \ {0}
  /\ MaxCrashes \in Nat /\ MaxTorn \in Nat /\ MaxMetaFaults \in Nat
  /\ MayStall \in BOOLEAN /\ CoarseClock \in BOOLEAN

ASSUME ValuesAssumption ==
  /\ NoKey \notin Keys
  /\ NoLock \notin [owner : Procs, token : Nat, meta : BOOLEAN, old : BOOLEAN]

VARIABLES
  lockFile,  \* events.jsonl.lock: NoLock or its creator, token, metadata, age
  log,       \* the complete lines of events.jsonl
  torn,      \* does an incomplete line end events.jsonl?
  archive,   \* the rotated files, events.1.jsonl first
  clock,     \* the mtime of the last write to events.jsonl
  pc,        \* where each process is in append
  call,      \* its event, prev_hash and attempt counter
  store,     \* its JsonlStore fields: dedupIndex, lastHashCache, ...
  result,    \* history: how each append call ended
  issued, crashes, metaFaults, torns,  \* counters for the bounds
  stolen     \* history: has a live holder's lock file been unlinked?

disk == <<log, torn, archive, clock>>
counters == <<issued, crashes, metaFaults, torns>>
vars == <<lockFile, disk, pc, call, store, result, counters, stolen>>

Lock == [owner : Procs, token : Nat, meta : BOOLEAN, old : BOOLEAN]
Line == [id : Nat, key : Keys \cup {NoKey}, prev : Nat]
Call == [id : Nat, key : Keys \cup {NoKey}, prev : Nat, tries : Nat]
Store == [built : BOOLEAN, keys : SUBSET Keys, tip : Nat, mtime : Nat,
          errors : BOOLEAN]
Outcome == {"none", "pending", "ok", "dup", "refused", "lockError", "ioError",
            "lateError"}

NewStore == [built |-> FALSE, keys |-> {}, tip |-> 0, mtime |-> 0,
             errors |-> FALSE]

(***************************************************************************)
(* Inside withLock's fn() and its finally block.                           *)
(***************************************************************************)
Holding == {"meta", "index", "rotate", "rotated", "write", "release", "unlock"}

Mine(p, l) == l # NoLock /\ l.owner = p /\ l.token = call[p].id
Held(l) == l # NoLock /\ pc[l.owner] \in Holding /\ Mine(l.owner, l)

-----------------------------------------------------------------------------
Init ==
  /\ lockFile = NoLock
  /\ log = <<>> /\ torn = FALSE /\ archive = <<>> /\ clock = 0
  /\ pc = [p \in Procs |-> "idle"]
  /\ call = [p \in Procs |-> [id |-> 0, key |-> NoKey, prev |-> 0, tries |-> 0]]
  /\ store = [p \in Procs |-> NewStore]
  /\ result = [e \in 1..MaxEvents |-> "none"]
  /\ issued = 0 /\ crashes = 0 /\ metaFaults = 0 /\ torns = 0
  /\ stolen = FALSE

Goto(p, label) == pc' = [pc EXCEPT ![p] = label]

\* append is called with a valid event (an invalid one throws at once).
Append_(p, key) ==
  /\ pc[p] = "idle" /\ issued < MaxEvents
  /\ issued' = issued + 1
  /\ call' = [call EXCEPT ![p] = [id |-> issued + 1, key |-> key,
                                  prev |-> 0, tries |-> 0]]
  /\ result' = [result EXCEPT ![issued + 1] = "pending"]
  /\ Goto(p, "open")
  /\ UNCHANGED <<lockFile, disk, store, crashes, metaFaults, torns, stolen>>

\* append returns or throws.
Return(p, how) ==
  /\ Goto(p, "idle")
  /\ result' = [result EXCEPT ![call[p].id] = how]

-----------------------------------------------------------------------------
\* Mutant: only the age of the lock counts, not the death of its holder.
IsLockStaleByAge(p) == lockFile # NoLock /\ lockFile.old

(***************************************************************************)
(* isLockStale: no (readable) metadata: by age; same host: is the holder   *)
(* dead; another host: by age.  A missing file is not stale.               *)
(***************************************************************************)
IsLockStale(p) ==
  /\ lockFile # NoLock
  /\ IF lockFile.meta /\ HostOf[lockFile.owner] = HostOf[p]
     THEN pc[lockFile.owner] = "dead"
     ELSE lockFile.old

\* Mutant: the lock file is opened without O_EXCL.
AcquireNotExclusive(p) ==
  /\ pc[p] \in {"open", "reopen"}
  /\ lockFile' = [owner |-> p, token |-> call[p].id, meta |-> FALSE, old |-> FALSE]
  /\ Goto(p, "meta")
  /\ UNCHANGED <<disk, call, store, result, counters, stolen>>

\* openLock succeeds: the file did not exist and is now this process's.
Acquire(p) ==
  /\ pc[p] \in {"open", "reopen"} /\ lockFile = NoLock
  /\ lockFile' = [owner |-> p, token |-> call[p].id, meta |-> FALSE, old |-> FALSE]
  /\ Goto(p, "meta")
  /\ UNCHANGED <<disk, call, store, result, counters, stolen>>

\* openLock throws EEXIST in the retry loop.
LockExists(p) ==
  /\ pc[p] = "open" /\ lockFile # NoLock
  /\ Goto(p, "check")
  /\ UNCHANGED <<lockFile, disk, call, store, result, counters, stolen>>

NextAttempt(p) ==
  /\ call' = [call EXCEPT ![p].tries = @ + 1]
  /\ Goto(p, IF call[p].tries + 1 < MaxRetries THEN "open" ELSE "final")

\* Mutant: a process that meets the lock waits for it to become stale.
CheckStaleWaits(p) ==
  /\ pc[p] = "check" /\ IsLockStale(p)
  /\ Goto(p, "unlink")
  /\ UNCHANGED <<lockFile, disk, call, store, result, counters, stolen>>

\* The loop's stale check: unlink next, or sleep and try again.
CheckStale(p) ==
  /\ pc[p] = "check"
  /\ IF IsLockStale(p) THEN Goto(p, "unlink") /\ UNCHANGED call
                       ELSE NextAttempt(p)
  /\ UNCHANGED <<lockFile, disk, store, result, counters, stolen>>

\* unlinkLock removes whatever lock file is there now.
RemoveLock ==
  /\ lockFile' = NoLock
  /\ stolen' = (stolen \/ Held(lockFile))

UnlinkStale(p) ==
  /\ pc[p] = "unlink"
  /\ RemoveLock
  /\ NextAttempt(p)
  /\ UNCHANGED <<disk, store, result, counters>>

\* After LOCK_MAX_RETRIES: reclaim a stale lock, or give up.
FinalCheck(p) ==
  /\ pc[p] = "final"
  /\ \/ /\ IsLockStale(p)
        /\ Goto(p, "reclaim")
        /\ call' = [call EXCEPT ![p].tries = 0]
        /\ UNCHANGED result
     \/ /\ ~IsLockStale(p)
        /\ Return(p, "lockError")
        /\ UNCHANGED call
  /\ UNCHANGED <<lockFile, disk, store, counters, stolen>>

FinalUnlink(p) ==
  /\ pc[p] = "reclaim"
  /\ RemoveLock
  /\ Goto(p, "reopen")
  /\ UNCHANGED <<disk, call, store, result, counters>>

\* The final open throws EEXIST: unlink again (with no new stale check), at
\* most FINAL_RECLAIM_ATTEMPTS times.
FinalExists(p) ==
  /\ pc[p] = "reopen" /\ lockFile # NoLock
  /\ call' = [call EXCEPT ![p].tries = @ + 1]
  /\ \/ /\ call[p].tries + 1 < FinalAttempts
        /\ Goto(p, "reclaim")
        /\ UNCHANGED result
     \/ /\ call[p].tries + 1 >= FinalAttempts
        /\ Return(p, "lockError")
  /\ UNCHANGED <<lockFile, disk, store, counters, stolen>>

\* The metadata goes to the opened file, which may no longer be the one at
\* the path; the write is best effort.
WriteMeta(p) ==
  /\ pc[p] = "meta"
  /\ \/ /\ lockFile' = IF Mine(p, lockFile) THEN [lockFile EXCEPT !.meta = TRUE]
                                            ELSE lockFile
        /\ UNCHANGED metaFaults
     \/ /\ metaFaults < MaxMetaFaults
        /\ metaFaults' = metaFaults + 1
        /\ UNCHANGED lockFile
  /\ Goto(p, "index")
  /\ UNCHANGED <<disk, call, store, result, issued, crashes, torns, stolen>>

\* finally: unlink only a lock file whose metadata is this call's.
ReadOwnMeta(p) ==
  /\ pc[p] = "release"
  /\ Goto(p, IF Mine(p, lockFile) /\ lockFile.meta THEN "unlock" ELSE "idle")
  /\ UNCHANGED <<lockFile, disk, call, store, result, counters, stolen>>

Unlock(p) ==
  /\ pc[p] = "unlock"
  /\ lockFile' = NoLock
  /\ stolen' = (stolen \/ (Held(lockFile) /\ ~Mine(p, lockFile)))
  /\ Goto(p, "idle")
  /\ UNCHANGED <<disk, call, store, result, counters>>

-----------------------------------------------------------------------------
(***************************************************************************)
(* The body of append.  fn() ends at "release", its outcome in result.     *)
(***************************************************************************)
\* Mutant: the index is not filled from disk.
LogKeysEmpty == {}

LogKeys == {log[i].key : i \in DOMAIN log} \ {NoKey}
Tip == IF log = <<>> THEN 0 ELSE log[Len(log)].id
FileExists == log # <<>> \/ torn
FileMtime == IF FileExists THEN clock ELSE 0

\* Mutants: a built index is never refreshed; corrupt lines are not counted.
EnsureIndexOnce(s) ==
  IF s.built THEN s
  ELSE [built |-> TRUE, keys |-> LogKeys, tip |-> Tip, mtime |-> FileMtime,
        errors |-> torn]
EnsureIndexIgnoresErrors(s) ==
  IF s.built /\ s.mtime = FileMtime THEN s
  ELSE [built |-> TRUE, keys |-> LogKeys, tip |-> Tip, mtime |-> FileMtime,
        errors |-> FALSE]

\* ensureIndex: parse the file unless the cached mtime is still the file's.
EnsureIndex(s) ==
  IF s.built /\ s.mtime = FileMtime THEN s
  ELSE [built |-> TRUE, keys |-> LogKeys, tip |-> Tip, mtime |-> FileMtime,
        errors |-> torn]

Finish(p, how) ==
  /\ Goto(p, "release")
  /\ result' = [result EXCEPT ![call[p].id] = how]

\* Refresh the index, refuse a corrupt log, skip a known key, else chain the
\* event to the cached tip.
Index(p) ==
  /\ pc[p] = "index"
  /\ store' = [store EXCEPT ![p] = EnsureIndex(@)]
  /\ LET s == EnsureIndex(store[p]) IN
     \/ s.errors /\ Finish(p, "refused") /\ UNCHANGED call
     \/ ~s.errors /\ call[p].key \in s.keys /\ Finish(p, "dup") /\ UNCHANGED call
     \/ /\ ~s.errors /\ call[p].key \notin s.keys
        /\ call' = [call EXCEPT ![p].prev = s.tip]
        /\ Goto(p, IF RotateAt > 0 /\ FileExists /\ Len(log) + 1 > RotateAt
                   THEN "rotate" ELSE "write")
        /\ UNCHANGED result
  /\ UNCHANGED <<lockFile, disk, counters, stolen>>

\* Mutant: the chain restarts in the new file.
RotateFilesRestartsChain(p) ==
  /\ pc[p] = "rotate"
  /\ archive' = <<log>>
  /\ log' = <<>> /\ torn' = FALSE
  /\ store' = [store EXCEPT ![p] = NewStore]
  /\ call' = [call EXCEPT ![p].prev = 0]
  /\ Goto(p, "rotated")
  /\ UNCHANGED <<lockFile, clock, result, counters, stolen>>

\* rotateFiles: the active file becomes events.1.jsonl, the others move up,
\* the oldest is deleted; the cache is reset.
RotateFiles(p) ==
  /\ pc[p] = "rotate"
  /\ archive' = SubSeq(<<log>> \o archive, 1,
                       IF Len(archive) < MaxFiles THEN Len(archive) + 1 ELSE MaxFiles)
  /\ log' = <<>> /\ torn' = FALSE
  /\ store' = [store EXCEPT ![p] = NewStore]
  /\ Goto(p, "rotated")
  /\ UNCHANGED <<lockFile, clock, call, result, counters, stolen>>

Tick == IF CoarseClock THEN {clock, clock + 1} \ {0} ELSE {clock + 1}

NewLine(p) == [id |-> call[p].id, key |-> call[p].key, prev |-> call[p].prev]

\* The key cannot be recorded after a rotation, where dedupIndex is null.
NoIndex(p) == pc[p] = "rotated" /\ call[p].key # NoKey

\* Mutant: the key is recorded before the line is written.
WriteLineKeyFirst(p) ==
  /\ pc[p] \in {"write", "rotated"}
  /\ log' = IF torn \/ NoIndex(p) THEN log ELSE Append(log, NewLine(p))
  /\ clock' \in Tick
  /\ store' = IF NoIndex(p) THEN store
              ELSE [store EXCEPT ![p].keys = @ \cup ({call[p].key} \ {NoKey}),
                                 ![p].tip = call[p].id, ![p].mtime = clock']
  /\ Finish(p, IF NoIndex(p) THEN "lateError" ELSE "ok")
  /\ UNCHANGED <<lockFile, torn, archive, call, counters, stolen>>

\* appendFileSync writes the line; a line after an incomplete one continues
\* it and is lost with it.  Then append may still throw, with the cache as it
\* was: when chmodSync of a new file fails, or when the key cannot be recorded.
WriteLine(p) ==
  /\ pc[p] \in {"write", "rotated"}
  /\ log' = IF torn THEN log ELSE Append(log, NewLine(p))
  /\ clock' \in Tick
  /\ \/ /\ ~NoIndex(p) /\ Finish(p, "ok")
        /\ store' = [store EXCEPT ![p].keys = @ \cup ({call[p].key} \ {NoKey}),
                                  ![p].tip = call[p].id, ![p].mtime = clock']
        /\ UNCHANGED torns
     \/ NoIndex(p) /\ Finish(p, "lateError") /\ UNCHANGED <<store, torns>>
     \/ /\ ~FileExists /\ torns < MaxTorn /\ torns' = torns + 1
        /\ Finish(p, "lateError") /\ UNCHANGED store
  /\ UNCHANGED <<lockFile, torn, archive, call, issued, crashes, metaFaults, stolen>>

\* appendFileSync fails after writing part of the line.
TornWrite(p) ==
  /\ pc[p] \in {"write", "rotated"} /\ torns < MaxTorn
  /\ torns' = torns + 1
  /\ torn' = TRUE /\ clock' \in Tick
  /\ UNCHANGED <<log, archive>>
  /\ Finish(p, "ioError")
  /\ UNCHANGED <<lockFile, call, store, issued, crashes, metaFaults, stolen>>

-----------------------------------------------------------------------------
\* The process dies (killed, or its hook timed out) anywhere in append.
Crash(p) ==
  /\ pc[p] \notin {"idle", "dead"} /\ crashes < MaxCrashes
  /\ crashes' = crashes + 1
  /\ Goto(p, "dead")
  /\ UNCHANGED <<lockFile, disk, call, store, result, issued, metaFaults, torns, stolen>>

\* The lock file becomes older than LOCK_STALE_THRESHOLD_MS.
Age ==
  /\ lockFile # NoLock /\ ~lockFile.old
  /\ MayStall \/ ~Held(lockFile)
  /\ lockFile' = [lockFile EXCEPT !.old = TRUE]
  /\ UNCHANGED <<disk, pc, call, store, result, counters, stolen>>

Step(p) ==
  \/ Acquire(p) \/ LockExists(p) \/ CheckStale(p) \/ UnlinkStale(p)
  \/ FinalCheck(p) \/ FinalUnlink(p) \/ FinalExists(p)
  \/ WriteMeta(p) \/ Index(p) \/ RotateFiles(p) \/ WriteLine(p) \/ TornWrite(p)
  \/ ReadOwnMeta(p) \/ Unlock(p)

Next ==
  \/ \E p \in Procs : \E key \in Keys \cup {NoKey} : Append_(p, key)
  \/ \E p \in Procs : Step(p)
  \/ \E p \in Procs : Crash(p)
  \/ Age

Spec == Init /\ [][Next]_vars

\* The operating system runs every live process, and time passes.
Fairness == (\A p \in Procs : WF_vars(Step(p))) /\ WF_vars(Age)
FairSpec == Spec /\ Fairness
-----------------------------------------------------------------------------
(***************************************************************************)
(* Properties.                                                             *)
(***************************************************************************)
\* The variables have their types: lock metadata, cache fields and counters
\* of JsonlStore stay in range whatever the interleaving.
TypeOK ==
  /\ lockFile \in Lock \cup {NoLock}
  /\ log \in Seq(Line) /\ torn \in BOOLEAN /\ archive \in Seq(Seq(Line))
  /\ clock \in Nat
  /\ pc \in [Procs -> Holding \cup {"idle", "open", "check", "unlink", "final",
                                   "reclaim", "reopen", "dead"}]
  /\ call \in [Procs -> Call] /\ store \in [Procs -> Store]
  /\ result \in [1..MaxEvents -> Outcome]
  /\ issued \in Nat /\ crashes \in Nat /\ metaFaults \in Nat /\ torns \in Nat
  /\ stolen \in BOOLEAN

\* withLock: two processes are never inside the append critical section at once.
MutualExclusion ==
  \A p, q \in Procs : pc[p] \in Holding /\ pc[q] \in Holding => p = q

\* append builds one chain: each line's prev_hash is the event_hash of the line
\* before it, which is what verifyChain demands, so two writers never fork it.
ChainLinked == \A i \in 2..Len(log) : log[i].prev = log[i - 1].id

\* append deduplicates: no idempotency_key is on two lines of events.jsonl,
\* although each process decides from a cached index.
NoDuplicateKeys ==
  \A i, j \in DOMAIN log : log[i].key = log[j].key /\ log[i].key # NoKey => i = j

\* What append tells its caller is true of the files: an event it accepted is
\* on a line, also one it threw for only after it was written, and one it
\* skipped or threw for before is not, also when another writer left a torn line
\* behind.  Excepted are an event whose file may have been rotated out, and the
\* states after a live holder's lock file was unlinked.
HonestOutcome ==
  LET written(e) == \/ \E i \in DOMAIN log : log[i].id = e
                    \/ \E f \in DOMAIN archive : \E i \in DOMAIN archive[f] : archive[f][i].id = e
  IN ~stolen => \A e \in 1..MaxEvents :
       /\ result[e] \in {"ok", "lateError"} /\ Len(archive) < MaxFiles => written(e)
       /\ result[e] \in {"dup", "refused", "lockError", "ioError"} => ~written(e)

\* append is atomic: with its lock file, its cached index and its torn writes it
\* implements AuditLog, in which a line and the answer about it appear at once.
AuditLogOfStore == INSTANCE AuditLog WITH lines <- log, answer <- result
AppendIsAtomic == AuditLogOfStore!Spec

\* The chain and the exclusion survive crashes, slow holders and failed
\* metadata writes as long as no unlink removed a live holder's lock file.
SafeUnlessStolen == ~stolen => MutualExclusion /\ ChainLinked /\ NoDuplicateKeys

\* rotateFiles keeps the chain: the first line of the active file links to the
\* last line of events.1.jsonl (unless the rotating process died in between).
RotationKeepsChain ==
  crashes = 0 /\ ~stolen /\ log # <<>> /\ archive # <<>> =>
    log[1].prev = archive[1][Len(archive[1])].id

\* withLock never spins for ever: every append call returns or throws, unless
\* its process dies.
EveryCallReturns == \A p \in Procs : pc[p] = "open" ~> pc[p] \in {"idle", "dead"}

\* A lock whose holder died is reclaimed at once: a process that meets it on its
\* first attempt enters the critical section (no other process contends).
DeadHolderDoesNotBlock ==
  \A p \in Procs :
    /\ pc[p] = "open" /\ call[p].tries = 0
    /\ lockFile # NoLock /\ lockFile.meta /\ pc[lockFile.owner] = "dead"
    ~> pc[p] = "meta"
=============================================================================
