------------------------------- MODULE Trust -------------------------------
(***************************************************************************)
(* Seals, keys, witnesses and attestations: the commands `patchwork seal`, *)
(* `seal rotate-key`, `witness publish`, `attest` and `verify` as          *)
(* processes that read and write the same files, while hooks append events *)
(* and while the log may be changed behind the program's back, which is    *)
(* what the checks of Verification are there to notice.                    *)
(*                                                                         *)
(* Abstractions: keys are numbers in order of creation; a lock file is its *)
(* creator and one bit of age (its metadata, written after it, only tells  *)
(* who that is); a command reads the log in one step and each other file   *)
(* in the step that uses it.  --allow-invalid is not given to `seal`.      *)
(***************************************************************************)
EXTENDS Verification

CONSTANTS
  Procs,        \* the processes; each runs one command at a time
  NoProc,       \* nobody holds the lock
  Invocations,  \* the verify command lines: profile, configuration and flags
  Quorum,       \* --quorum and --remote-witness-quorum
  MaxEvents,    \* bound: events appended
  Plans,        \* bound: how often each command is run, one plan per behaviour
  MaxMishaps    \* bound: changes of the log, deaths and stalls of commands and
                \* unanswered requests

Commands == {"seal", "sealKeyFile", "rotateKey", "publish", "attest", "verify"}

ASSUME TrustAssumption ==
  /\ NoProc \notin Procs /\ Quorum \in Nat \ {0} /\ IsFiniteSet(Urls)
  /\ MaxEvents \in Nat /\ MaxMishaps \in Nat
  /\ Plans \subseteq [Commands -> Nat] /\ NoAttestation \notin Attestation
  /\ \A i \in Invocations : i.config.on \subseteq ConfigOptions

VARIABLES
  log,                  \* events.jsonl
  keys, active,         \* keyring: the <id>.key files, and ACTIVE
  legacyKey,            \* keys/seal.key, 0 if there is none
  sealFile, seals,      \* seals.jsonl: does it exist, and its lines
  witnesses, anchors,   \* witnesses.jsonl, and what each witness stores
  attestation,          \* attestations/latest.json
  lock,                 \* the lock files of seals.jsonl and witnesses.jsonl
  pc, job,              \* the commands
  passed,               \* did the last verify exit with 0?
  attested,             \* history: the log that the attestation is about
  keyWrites,            \* history: how often keys/seal.key was created
  sealedSince,          \* history: was a seal made after the log was damaged?
  plan,                 \* the commands that are still to be run
  events, lastKey, damages, faults   \* counters

keyring == <<keys, active, legacyKey>>
trail == <<sealFile, seals, witnesses, anchors, attestation, lock>>
history == <<passed, attested, keyWrites, sealedSince>>
counters == <<plan, events, lastKey, damages, faults>>
vars == <<log, keyring, trail, pc, job, history, counters>>

Files == {"seals", "witnesses"}
Lock == [owner : Procs \cup {NoProc}, old : BOOLEAN]
Free == [owner |-> NoProc, old |-> FALSE]
NONE == 0      \* there is no ACTIVE file
EMPTY == -1    \* ACTIVE is there but not written yet: malformed

Idle == [command |-> "none", log |-> <<>>, key |-> 0, todo |-> {},
         got |-> {}, options |-> {}, draft |-> NoAttestation]

\* What a check reads, for the log that process p has read.
World(p, tooOld, reachable) ==
  [log |-> job[p].log, keys |-> keys, legacyKey |-> legacyKey, sealFile |-> sealFile,
   seals |-> seals, witnesses |-> witnesses, anchors |-> anchors,
   attestation |-> attestation, quorum |-> Quorum,
   tooOld |-> tooOld, reachable |-> reachable]

-----------------------------------------------------------------------------
Init ==
  /\ log = <<>> /\ keys = {} /\ active = NONE /\ legacyKey = 0
  /\ sealFile = FALSE /\ seals = <<>> /\ witnesses = <<>>
  /\ anchors = [u \in Urls |-> {}] /\ attestation = NoAttestation
  /\ lock = [f \in Files |-> Free]
  /\ pc = [p \in Procs |-> "idle"] /\ job = [p \in Procs |-> Idle]
  /\ passed = FALSE /\ attested = <<>> /\ keyWrites = 0 /\ sealedSince = FALSE
  /\ plan \in Plans /\ events = 0 /\ lastKey = 0 /\ damages = 0 /\ faults = 0

Goto(p, label) == pc' = [pc EXCEPT ![p] = label]
End(p) == Goto(p, "idle") /\ job' = [job EXCEPT ![p] = Idle]
Fault == damages + faults < MaxMishaps /\ faults' = faults + 1

\* A hook appends an event (JsonlStore models how).
AppendEvent ==
  /\ events < MaxEvents /\ events' = events + 1
  /\ log' = Append(log, [id |-> events + damages + 1, prev |-> ChainTip(log),
                         hash |-> "ok", form |-> "event"])
  /\ UNCHANGED <<keyring, trail, pc, job, history, plan, lastKey, damages, faults>>

(***************************************************************************)
(* The log changes behind the program's back: a line is edited, loses its  *)
(* hashes or its shape, lines are lost or repeated, or the last one is     *)
(* replaced by another event with matching hashes.                         *)
(***************************************************************************)
Cut(l, i, j) == SubSeq(l, 1, i - 1) \o SubSeq(l, j + 1, Len(l))

Damaged(l) ==
  {[l EXCEPT ![i].hash = h] : i \in DOMAIN l, h \in {"bad", "none"}} \cup
  {[l EXCEPT ![i].form = f] : i \in DOMAIN l, f \in {"invalid", "corrupt"}} \cup
  {Cut(l, i, j) : i \in DOMAIN l, j \in DOMAIN l} \cup
  {[l EXCEPT ![Len(l)].id = events + damages + 1]}

Damage ==
  /\ log # <<>> /\ damages + faults < MaxMishaps /\ damages' = damages + 1
  /\ log' \in Damaged(log) \ {log}
  /\ UNCHANGED <<keyring, trail, pc, job, history, events, lastKey, plan, faults>>

-----------------------------------------------------------------------------
(***************************************************************************)
(* Every command but rotate-key begins by reading and checking the log.    *)
(***************************************************************************)
\* Without a log verify, seal and publish stop.  seal also refuses invalid lines
\* and a log without a chained event, publish a broken chain.
SealRefused == events = 0 \/ Invalid(log) # {} \/ Chained(log) = {}

PublishRefused ==
  \/ events = 0 \/ Chained(log) = {}
  \/ HashMismatch(log) # {} \/ PrevLinkMismatch(log) # {}

Refused(command) ==
  CASE command \in {"seal", "sealKeyFile"} -> SealRefused
    [] command = "publish" -> PublishRefused
    [] OTHER -> command = "verify" /\ events = 0

\* attest also writes an artifact when there is no log: one that is no pass.
NoLog == [pass |-> FALSE, tip |-> 0, count |-> 0, sealTip |-> 0, witnessTip |-> 0,
          keyId |-> 0, signer |-> 0, intact |-> TRUE]

FirstStep(command) ==
  CASE command = "seal" -> "keyring" [] command = "sealKeyFile" -> "keyFile"
    [] command = "rotateKey" -> "newKey"
    [] command = "attest" /\ events = 0 -> "keyring" [] OTHER -> "check"

\* What a command knows once it has read the log.
Job0(command, options) ==
  [command |-> command, options |-> options, key |-> 0, todo |-> {}, got |-> {},
   draft |-> IF command = "attest" THEN NoLog ELSE NoAttestation,
   log |-> IF command = "rotateKey" THEN <<>> ELSE log]

Start(p, command, options) ==
  /\ pc[p] = "idle" /\ plan[command] > 0 /\ ~Refused(command)
  /\ plan' = [plan EXCEPT ![command] = @ - 1]
  /\ job' = [job EXCEPT ![p] = Job0(command, options)]
  /\ Goto(p, FirstStep(command))
  /\ UNCHANGED <<log, keyring, trail, history, events, lastKey, damages, faults>>

-----------------------------------------------------------------------------
(***************************************************************************)
(* Keys: ensureKeyring, rotateKey and ensureSealKey.                       *)
(***************************************************************************)
\* Where a command goes with the key it has got.
AfterKey(p) ==
  CASE job[p].command = "attest" -> "write"
    [] job[p].command = "rotateKey" -> "end" [] OTHER -> "sealFile"

WithKey(p, key) ==
  /\ job' = [job EXCEPT ![p].key = key]
  /\ Goto(p, AfterKey(p))

\* An ACTIVE that names no key of the keyring: seal throws, attest falls back
\* to the legacy key or leaves the artifact unsigned.
EnsureKeyring(p) ==
  /\ pc[p] = "keyring"
  /\ \/ active = NONE /\ Goto(p, "newKey") /\ UNCHANGED job
     \/ active \in keys /\ WithKey(p, active)
     \/ /\ active \notin keys \cup {NONE}
        /\ IF job[p].command = "attest" THEN WithKey(p, legacyKey) ELSE End(p)
  /\ UNCHANGED <<log, keyring, trail, history, counters>>

\* Mutant: the keyring holds the newest key only.
WriteKeyFileDropsOld(p) ==
  /\ pc[p] = "newKey"
  /\ lastKey' = lastKey + 1
  /\ keys' = {lastKey + 1}
  /\ job' = [job EXCEPT ![p].key = lastKey + 1]
  /\ Goto(p, "truncate")
  /\ UNCHANGED <<log, active, legacyKey, trail, history, events, plan, damages, faults>>

\* generateAndActivateKey: the key file, then ACTIVE, which is truncated first.
WriteKeyFile(p) ==
  /\ pc[p] = "newKey"
  /\ lastKey' = lastKey + 1
  /\ keys' = keys \cup {lastKey + 1}
  /\ job' = [job EXCEPT ![p].key = lastKey + 1]
  /\ Goto(p, "truncate")
  /\ UNCHANGED <<log, active, legacyKey, trail, history, events, plan, damages, faults>>

TruncateActive(p) ==
  /\ pc[p] = "truncate"
  /\ active' = EMPTY
  /\ Goto(p, "activate")
  /\ UNCHANGED <<log, keys, legacyKey, trail, job, history, counters>>

WriteActive(p) ==
  /\ pc[p] = "activate"
  /\ active' = job[p].key
  /\ IF AfterKey(p) = "end" THEN End(p) ELSE Goto(p, AfterKey(p)) /\ UNCHANGED job
  /\ UNCHANGED <<log, keys, legacyKey, trail, history, counters>>

\* ensureSealKey: read keys/seal.key, or create it after having looked.
ReadKeyFile(p) ==
  /\ pc[p] = "keyFile"
  /\ IF legacyKey # 0 THEN WithKey(p, legacyKey)
     ELSE Goto(p, "newKeyFile") /\ UNCHANGED job
  /\ UNCHANGED <<log, keyring, trail, history, counters>>

CreateKeyFile(p) ==
  /\ pc[p] = "newKeyFile"
  /\ lastKey' = lastKey + 1 /\ legacyKey' = lastKey + 1
  /\ keyWrites' = keyWrites + 1
  /\ WithKey(p, lastKey + 1)
  /\ UNCHANGED <<log, keys, active, trail, passed, attested, sealedSince, events,
                 plan, damages, faults>>

-----------------------------------------------------------------------------
(***************************************************************************)
(* withSealLock and withWitnessLock: O_EXCL, stale if its holder is dead or *)
(* it is old, released by path whoever holds it.  A reclaim in the last    *)
(* attempt falls out of the loop: the command goes on without the lock.    *)
(***************************************************************************)
FileOf(p) == IF job[p].command = "publish" THEN "witnesses" ELSE "seals"
Stale(l) == l.owner # NoProc /\ (l.old \/ pc[l.owner] = "dead")

EnsureSealFile(p) ==
  /\ pc[p] = "sealFile"
  /\ sealFile' = TRUE
  /\ Goto(p, "lock")
  /\ UNCHANGED <<log, keyring, seals, witnesses, anchors, attestation, lock, job, history,
                 counters>>

TakeLock(p) ==
  /\ pc[p] = "lock"
  /\ \/ /\ lock[FileOf(p)] = Free
        /\ lock' = [lock EXCEPT ![FileOf(p)] = [owner |-> p, old |-> FALSE]]
        /\ Goto(p, "append")
     \/ /\ Stale(lock[FileOf(p)])
        /\ lock' = [lock EXCEPT ![FileOf(p)] = Free]
        /\ pc' \in {[pc EXCEPT ![p] = "append"], pc}
  /\ UNCHANGED <<log, keyring, sealFile, seals, witnesses, anchors, attestation, job,
                 history, counters>>

\* The retries run out.
LockContention(p) ==
  /\ pc[p] = "lock" /\ lock[FileOf(p)] # Free /\ ~Stale(lock[FileOf(p)])
  /\ End(p)
  /\ UNCHANGED <<log, keyring, trail, history, counters>>

Unlock(p) ==
  /\ pc[p] = "unlock"
  /\ lock' = [lock EXCEPT ![FileOf(p)] = Free]
  /\ End(p)
  /\ UNCHANGED <<log, keyring, sealFile, seals, witnesses, anchors, attestation, history,
                 counters>>

\* The holder stalls for longer than the threshold.
LockAges(f) ==
  /\ lock[f].owner # NoProc /\ ~lock[f].old /\ Fault
  /\ lock' = [lock EXCEPT ![f].old = TRUE]
  /\ UNCHANGED <<log, keyring, sealFile, seals, witnesses, anchors, attestation, pc, job,
                 history, plan, events, lastKey, damages>>

-----------------------------------------------------------------------------
SealOf(p) ==
  [form |-> "seal", tip |-> ChainTip(job[p].log),
   count |-> Cardinality(Chained(job[p].log)),
   keyId |-> IF job[p].command = "seal" THEN job[p].key ELSE 0, signer |-> job[p].key]

\* A line after one that was cut short is glued to it.
AppendLine(file, line) ==
  IF file # <<>> /\ file[Len(file)].form = "torn"
  THEN [file EXCEPT ![Len(file)].form = "corrupt"]
  ELSE Append(file, line)

AppendSeal(p) ==
  /\ pc[p] = "append" /\ FileOf(p) = "seals"
  /\ seals' = AppendLine(seals, SealOf(p))
  /\ sealedSince' = (sealedSince \/ damages > 0)
  /\ Goto(p, "unlock")
  /\ UNCHANGED <<log, keyring, sealFile, witnesses, anchors, attestation, lock, job, passed,
                 attested, keyWrites, counters>>

-----------------------------------------------------------------------------
(***************************************************************************)
(* witness publish.                                                        *)
(***************************************************************************)
\* The latest seal has to verify and to be about the tip that was read.
CheckSeal(p) ==
  LET w == World(p, {}, {})
      ok == /\ sealFile /\ SealSigned(w)
            /\ LatestSeal(w).tip = ChainTip(job[p].log)
  IN
  /\ pc[p] = "check" /\ job[p].command = "publish"
  /\ IF ok THEN Goto(p, "post") /\ job' = [job EXCEPT ![p].todo = Urls]
           ELSE End(p)
  /\ UNCHANGED <<log, keyring, trail, history, counters>>

\* postToWitness: the witness may store the anchor although its answer is lost.
Post(p, u) ==
  LET tip == ChainTip(job[p].log) IN
  /\ pc[p] = "post" /\ u \in job[p].todo
  /\ \/ /\ anchors' = [anchors EXCEPT ![u] = @ \cup {tip}]
        /\ job' = [job EXCEPT ![p].todo = @ \ {u}, ![p].got = @ \cup {u}]
        /\ UNCHANGED faults
     \/ /\ anchors' \in {anchors, [anchors EXCEPT ![u] = @ \cup {tip}]}
        /\ job' = [job EXCEPT ![p].todo = @ \ {u}]
        /\ Fault
  /\ UNCHANGED <<log, keyring, sealFile, seals, witnesses, attestation, lock, pc, history,
                 plan, events, lastKey, damages>>

\* Nothing is written when no witness answered.
Posted(p) ==
  /\ pc[p] = "post" /\ job[p].todo = {}
  /\ IF job[p].got = {} THEN End(p) ELSE Goto(p, "lock") /\ UNCHANGED job
  /\ UNCHANGED <<log, keyring, trail, history, counters>>

\* The records of the answered requests, one append each.
AppendWitness(p, u) ==
  LET record == [tip |-> ChainTip(job[p].log),
                 count |-> Cardinality(Chained(job[p].log)), url |-> u] IN
  /\ pc[p] = "append" /\ FileOf(p) = "witnesses" /\ u \in job[p].got
  /\ witnesses' = Append(witnesses, record)
  /\ job' = [job EXCEPT ![p].got = @ \ {u}]
  /\ IF job[p].got = {u} THEN Goto(p, "unlock") ELSE UNCHANGED pc
  /\ UNCHANGED <<log, keyring, sealFile, seals, anchors, attestation, lock, history, counters>>

-----------------------------------------------------------------------------
(***************************************************************************)
(* verify and attest: the log was read first, the other files are read now. *)
(***************************************************************************)
\* The records that may be too old for the options.
Aged(o) ==
  {x[2] : x \in {<<"maxSealAge", "seal">>, <<"maxWitnessAge", "witness">>,
                 <<"maxAttestationAge", "attestation">>} \cap (o \X {"seal", "witness",
                 "attestation"})}

Verify(p, tooOld, reachable) ==
  /\ pc[p] = "check" /\ job[p].command = "verify"
  /\ passed' = runVerification(job[p].options, World(p, tooOld, reachable))
  /\ End(p)
  /\ UNCHANGED <<log, keyring, trail, attested, keyWrites, sealedSince, counters>>

\* attest passes the seal and witness requirements on, but no attestation
\* option and no request for remote proof.
AttestOptions(options) ==
  options \cap {"requireSeal", "requireWitness", "maxSealAge", "maxWitnessAge"}

Attest(p, tooOld) ==
  /\ pc[p] = "check" /\ job[p].command = "attest"
  /\ job' = [job EXCEPT ![p].draft =
               AttestationOf(AttestOptions(job[p].options), World(p, tooOld, {}), 0)]
  /\ Goto(p, "keyring")
  /\ UNCHANGED <<log, keyring, trail, history, counters>>

WriteAttestation(p) ==
  /\ pc[p] = "write"
  /\ attestation' = [job[p].draft EXCEPT !.signer = job[p].key,
                       !.keyId = IF job[p].key \in keys THEN job[p].key ELSE 0]
  /\ attested' = job[p].log
  /\ End(p)
  /\ UNCHANGED <<log, keyring, sealFile, seals, witnesses, anchors, lock, passed, keyWrites,
                 sealedSince, counters>>

-----------------------------------------------------------------------------
\* A command dies: in the middle of writing its seal or its artifact, the file
\* is left cut short.
Die(p) ==
  /\ pc[p] \notin {"idle", "dead"} /\ Fault
  /\ Goto(p, "dead") /\ job' = [job EXCEPT ![p] = Idle]
  /\ \/ UNCHANGED <<seals, attestation>>
     \/ /\ pc[p] = "append" /\ FileOf(p) = "seals"
        /\ seals' = AppendLine(seals, [SealOf(p) EXCEPT !.form = "torn"])
        /\ UNCHANGED attestation
     \/ /\ pc[p] = "write"
        /\ attestation' = [job[p].draft EXCEPT !.intact = FALSE]
        /\ UNCHANGED seals
  /\ UNCHANGED <<log, keyring, sealFile, witnesses, anchors, lock, history, plan, events,
                 lastKey, damages>>

Step(p) ==
  \/ EnsureKeyring(p) \/ WriteKeyFile(p) \/ TruncateActive(p) \/ WriteActive(p)
  \/ ReadKeyFile(p) \/ CreateKeyFile(p)
  \/ EnsureSealFile(p) \/ TakeLock(p) \/ LockContention(p) \/ Unlock(p) \/ AppendSeal(p)
  \/ CheckSeal(p) \/ (\E u \in Urls : Post(p, u) \/ AppendWitness(p, u)) \/ Posted(p)
  \/ \E tooOld \in SUBSET Aged(job[p].options), r \in SUBSET Urls : Verify(p, tooOld, r)
  \/ \E tooOld \in SUBSET Aged(AttestOptions(job[p].options)) : Attest(p, tooOld)
  \/ WriteAttestation(p)
  \/ Die(p)

\* The options of a verify or attest command line that is not refused.
Options ==
  {resolveVerifyDefaults(i.profile, parseConfigFile(i.config), i.flags) :
     i \in {j \in Invocations : ~ConfigRefused(j.profile, j.config)}}

Next ==
  \/ AppendEvent \/ Damage
  \/ \E p \in Procs : \E c \in Commands \ {"verify", "attest"} : Start(p, c, {})
  \/ \E p \in Procs : \E c \in {"verify", "attest"}, o \in Options : Start(p, c, o)
  \/ \E p \in Procs : Step(p)
  \/ \E f \in Files : LockAges(f)

Spec == Init /\ [][Next]_vars
-----------------------------------------------------------------------------
(***************************************************************************)
(* Properties.                                                             *)
(***************************************************************************)
\* Whatever keys are created or rotated in between, every seal in the file
\* verifies: the keyring still has the key it names, and a seal without key_id
\* is checked with the key that made it (unless two commands, neither of which
\* had seen the other's key file, both created it).
SealsVerify ==
  \A i \in DOMAIN seals :
    LET s == seals[i] IN
    s.form = "seal" =>
      IF s.keyId # 0 THEN s.keyId \in keys /\ s.signer = s.keyId
      ELSE keyWrites <= 1 => s.signer = legacyKey

\* Process p ends a verify that passes, or fails, in this step.
Verifies(p) == pc[p] = "check" /\ job[p].command = "verify" /\ pc'[p] = "idle"
Whole == {i \in DOMAIN seals : seals[i].form = "seal"}

\* A log that nothing but append has written passes verify, whoever seals,
\* rotates, witnesses or attests meanwhile: as long as the log did not grow
\* between the two reads, no command died, no key file was created twice and
\* no seal file has just been created.
UntouchedPasses ==
  [][\A p \in Procs :
       /\ Verifies(p) /\ job[p].options = {} /\ job[p].log = log
       /\ damages = 0 /\ faults = 0 /\ keyWrites <= 1 /\ (sealFile => seals # <<>>)
       => passed']_vars

\* A pass means that no sealed event is missing from the log that was read,
\* except before its first chained event (which may link to a rotated file), if
\* all damage came after the seals, invalid lines are not allowed and no seal
\* was appended late, after a seal of a longer log (seal reads the log before it
\* takes the lock).
SealedEventsPresent ==
  [][\A p \in Procs :
       /\ Verifies(p) /\ passed' /\ job[p].options \cap {"noSealCheck", "allowInvalid"} = {}
       /\ ~sealedSince /\ \A i, j \in Whole : i < j => seals[i].tip <= seals[j].tip
       => \A i \in Whole :
            LET l == job[p].log IN
            \/ \A k \in Chained(l) : l[k].id > seals[i].tip
            \/ \E k \in Chained(l) : l[k].id = seals[i].tip]_vars

\* Have l and m the same chained events in the same order?
FromEnd(l, i) == Cardinality({j \in Chained(l) : j >= i})
SameChain(l, m) ==
  /\ Cardinality(Chained(l)) = Cardinality(Chained(m))
  /\ \A i \in Chained(l), j \in Chained(m) : FromEnd(l, i) = FromEnd(m, j) => l[i] = m[j]

\* A pass under the strict profile means that the chained events that were read
\* are those the attestation was made from, in the same order: whatever was
\* edited, lost or replaced in between is noticed (unless --allow-invalid lets
\* an invalid line be the end of the log).
StrictPassIsAttested ==
  [][\A p \in Procs :
       /\ Verifies(p) /\ passed'
       /\ PROFILES["strict"] \subseteq job[p].options /\ "allowInvalid" \notin job[p].options
       => SameChain(job[p].log, attested)]_vars
=============================================================================
