# Patchwork: a TLA+ verification project

Patchwork records what AI coding agents do. Claude Code runs a *hook* process
before and after every tool call; the hook decides whether the call may go
ahead, appends an audit event to a hash-chained log, and folds the taint that
the call brought in into a per-session snapshot. A root-owned relay keeps a
second chained log that the agent cannot write, seals it, publishes the seals to
witnesses, and signs what hooks ask it to sign. In team mode a sync agent pushes
the relay log to a server. Commands that a human runs seal, attest, verify and
repair what the hooks wrote.

Almost nothing here is a long-lived process with memory of its own: hooks and
commands are short processes that meet in the file system. What makes the code
hard is the order of file-system calls of several processes, processes that die
between two calls, and state that is cached or checked and then used. The models
take the code apart at exactly those points; the pure parts (policy, shell
parser, verification) are operators, driven by state machines that reach the
inputs worth looking at.

## Inventory

| Component | State | Operations | Talks to | Hard because | Correct when |
|---|---|---|---|---|---|
| JSONL store `core/src/store/jsonl.ts` | `events.jsonl`, `.lock`, rotated files; per process: dedup index, cached tip, mtime | `append` (lock, index, dedup, chain, rotate, write, unlock) | every hook and CLI process | stale locks reclaimed by path, deaths, cached state, torn lines, rotation | one chain, no duplicate key, honest answers |
| Taint store `agents/.../taint-store.ts`, `core/src/taint` | snapshot, `.pending`, `.lock` per session | PostToolUse fold, `clear-taint`, PreToolUse read | hooks of one session, a human | lock tried once, marker, deaths, `clear-taint` without the lock | recorded taint is neither lost nor cleared by a machine |
| Relay `core/src/relay` | relay log, seals, witness records, socket; in memory: tip, counts, cycle flag | start/recover, event, heartbeat, auto-seal, witness, sign, verify, stop | hooks (socket), witnesses (HTTP), launchd | awaits, reentrancy, restart in any place, unreadable files, short writes | one chain over restarts, truthful answers, truthful increasing seals, everything sealed in the end |
| Team sync `team/src/sync`, ingest | cursor file; server tables | cycle, backoff, push, ingest | relay log, HTTP | lost, late, repeated requests, overlapping cycles, partial ingest | no gap before the cursor, everything arrives |
| Enrollment `team/src/server/routes`, `sync/enrollment.ts` | teams, tokens, machines; client configuration | bootstrap, enroll, unenroll | HTTP | check before an await, lost response, no transaction | one team, one machine per token, keys that belong to their machine |
| PreToolUse decision, approvals `agents/.../pre-tool-decision.ts`, `approval-store.ts`, `cli/.../approve.ts` | pending and approved tokens | decide, request, approve, consume | taint store, policy, sinks, store | token spent once, spent before the event is stored, expiry | a dangerous call needs an unspent approval for it |
| Policy, risk, sinks `core/src/policy`, `risk`, `sinks` | three policy files; files and links | load, evaluate | decision | precedence of files, rules and defaults; several names of one file; a policy that cannot be read | a rule binds a file also through its links; a deny rule only denies |
| Shell recogniser `core/src/shell` | none | parse, indicators | decision | nesting, prefixes, what is dynamic | nothing nested escapes; certain only when it is |
| Dual write `core/src/store/sqlite.ts`, `cli/src/store.ts`, `sync.ts`, `codex/history-parser.ts` | SQLite rows, divergence marker | append to both, rebuild, import | JSONL store | one of two writes fails, marker removed too early | divergence is recorded until it is repaired |
| Verification `core/src/hash/chain.ts`, `cli/src/verify-engine.ts` | reads logs, seals, witnesses, keys | verify chain, seal, witness, attestation | everything above | what is legacy, which failure is fatal | an untouched log passes, a pass means what it says |
| Seals, keys, witnesses `core/src/hash/seal.ts`, `cli/.../seal.ts`, `witness.ts`, `attest.ts` | keyring, seals, lock, records, attestation | create and rotate keys, seal, publish, attest | verification | check-then-create, log read before the lock | every seal verifies with the keyring |
| Signing proxy `core/src/relay/signing-proxy.ts` | two keyrings, signed documents | sign with relay or locally, verify | relay, keyring | absent, late, refusing relay; half-written ACTIVE | the source a signature names is true, and it verifies later |
| Commit attestation `agents/.../commit-attestor.ts` | attestations, index, notes, failure log | window, verdict, sign, store | store, git, signing | window cut from a growing log, five writes that may fail | a commit is never missed in silence, a pass vouches for a clean window |
| Installer `agents/.../installer.ts`, `cli/.../init.ts` | `settings.json` | install, uninstall | the user's editor | no lock, plain writes, several formats | exactly one handler per event, the user's entries kept |
| Telemetry `cli/src/commands/hook.ts` | telemetry files, lock | write, rotate | other hooks | lock judged by age, removed by path | rotation loses no line |
| Trust store, relay health, URL and git canonicalisation, reports, web | files | one-shot or read-only | | | |

`PROJECT.json` lists every component, also the ones not modelled and why, and
every hazard at the line where it bites.

## Modules

| Module | Models |
|---|---|
| `AuditLog` | what `append` promises: the abstract log that `JsonlStore` implements |
| `JsonlStore`, `JsonlStoreProofs` | `append`/`withLock` of `jsonl.ts`, one action per file-system call; its theorems |
| `TaintStore` | PostToolUse taint update and `clear-taint` |
| `PreToolHook`, `PreToolHookProofs` | the PreToolUse hook from stdin to its answer, approval files, `patchwork approve` |
| `Policy` | policy files, files and links, risk and the engine |
| `Shell` | shell parser and the judgement of its tree |
| `Decisions`, `DecisionsProofs` | the decision over `Policy` and `Shell`; theorems on all three |
| `RelayDaemon`, `RelayDaemonProofs` | relay daemon, auto-seal, relay client |
| `Signing` | signing proxy, the relay's sign/verify handlers, keyring, in-toto envelope |
| `CommitAttestor` | the PostToolUse hook of a `git commit` |
| `TeamSync`, `TeamSyncProofs` | sync agent, network, ingest handler |
| `Enrollment` | bootstrap and enrolment of machines |
| `DualWrite` | SQLite beside JSONL, `sync db`, `sync codex` |
| `Verification`, `Trust`, `TrustProofs` | what verify and attest compute; the commands that seal, rotate, publish, attest and verify |
| `Installer`, `Telemetry` | hooks in `settings.json`; the telemetry file |
| `WorkstationProofs` | theorems on `Signing`, `TaintStore`, `Installer` |
| `ServicesProofs` | theorems on `DualWrite`, `CommitAttestor`, `Enrollment`, `Telemetry` |
| `MC*` | instances for TLC; the `.cfg` files give the bounds |

`Decisions` composes `Policy` with `Shell`, `Trust` composes the commands with
`Verification`, and `JsonlStore` instantiates `AuditLog`. Modules that use
another component as a step say so: `DualWrite` and `CommitAttestor` append to the
log in one step, which `AppendIsAtomic` justifies. `MCServices`,
`MCWorkstation` and `MCRelay` put parts without common state side by side: a variable `scene`,
fixed in the initial state, says which part a behaviour is about, and the others
stay as they are; a scene explores exactly what a run of its own would.

In every module a comment before a definition whose first word is "Mutant" marks
a deliberately wrong variant of the definition after it. No specification uses
it; it shows that a property can fail.

### AuditLog and JsonlStore

A process is one hook with its own `JsonlStore` object. `pc[p]` is the place in
`append`: `open` (openSync with O_EXCL), `check` (isStale), `unlink`, the final
reclaim (`final`, `reclaim`, `reopen`), then inside the lock `meta` (write the
metadata), `index` (ensureIndex, refuse, dedup, compute prev_hash), `rotate`,
`write`, and the `finally` block `release` and `unlock`. The lock file is a
record of who created it, its token, whether its metadata is there and whether
it is older than the threshold. The clock is the file's mtime. `stolen` is a
history variable: a live holder's lock file has been unlinked.

`AuditLog` has no lock, cache or file: a step appends one linked line and answers
its caller in the same instant, or answers without a line. `AppendIsAtomic` is
`AuditLog!Spec` under the mapping `lines <- log, answer <- result`.

`append` can throw after its line is in the file, without having updated its cache:
the chmod of a new file fails, or an event with a key follows a rotation, which has
set `dedupIndex` to null (`jsonl.ts:170`). Both answers are `lateError`.

Modelled faults: death anywhere (`Crash`), an append cut short (`TornWrite`), a failed
chmod, failed metadata writes, a holder that stalls (`MayStall`), equal mtimes
(`CoarseClock`). The runs keep `MayStall` and `CoarseClock` off; the theorems
cover stalling. With them the code does go wrong: a holder that outlasts the age
threshold loses its lock, and two writes within one mtime leave a stale cached
tip that forks the chain (`jsonl.ts:311`). Rotation is an option of the store
that the CLI and the agents do not use; a process that dies between its rename and
its write leaves no active file, and the next one begins a new chain. Not modelled: reuse of a dead process
id, clock skew between hosts, failed renames in a rotation (one step here).

### TaintStore

A call is one PostToolUse hook: `open`, `stat`, `unlink`, `reopen` are
withSessionLock's single attempt and its reclaim by age; `load`, `mark`,
`write`, `unmark` are doFoldedUpdate; `release` unlinks the lock. A hook that
does not get the lock ends at `dropped`, as the handler swallows the error: its
taint is lost without a marker, although the comment at `taint-store.ts:344`
speaks of one. `clear` is the clear-taint process, which takes no lock. A source
is a pair (kind, call).

### PreToolHook

A member of `Hooks` is one PreToolUse process and the call it decides. `pc[h]`
is `evaluate` (policy, sinks, taint: handlePreToolUse up to the verdict), then
for a verdict other than allow consumeApprovedToken: `list` (readdir and the
clock), `scan` (read one token file), `unlink` (take a matching token),
`collect` (remove an expired one); `pend` writes the request, `append` the audit
event, `reply` prints the answer. A process writes at most one request, so a
request's id is the hook that wrote it, and `token[r]` is the expiry in
`r.approved.json` (0: no such file). An approver is one terminal running
`patchwork approve`; the same request can be approved in two of them.

A call is its session and its *shape*, the class of tool input the decision
tells apart: `persistence`, `shellCombo`, `adminCli`, `secretRead`,
`doubtfulShell` (parsed with doubt and showing an indicator), `policyDenied`,
`malformed`, `plain`. `Decisions` models what puts a command in its class. A hook
reads the snapshot once, so the snapshot is a free choice of "null", "clean" or
"tainted" at that point; `TaintStore` models what it can be.

Faults, each counted: unusable stdin, a policy file that does not parse, an
error in the enforcement layer, a directory that cannot be listed, a failed
unlink, request or audit append, and the agent killing the hook at its timeout.
`Throw` is hookCommand's catch block: it denies in fail-closed mode and prints
nothing otherwise, and silence lets the call go ahead.
Not modelled: a clock that goes back, two requests with the same random id.

### Policy, Shell, Decisions

`Policy` holds the three policy files (`system`, `user`, `project`), each absent, malformed or valid.
Its actions create, break, remove and edit them, rule by rule; `loadActivePolicy`, `evaluatePolicy`
and `classifyRisk` are operators on them. A glob is the set of names it matches. `disk` says of each
name without a `..` whether it is a file, a link or nothing, and changes under the policy's feet;
`realpath` is realpathSync, which throws for a name that leads to no file, and
`expandPathCandidates` is the name as given with its `realpath`: no caller passes a cwd, and an
absolute name keeps its `..` (`sensitive.ts:76`), so nothing else is ever added. `Shell` starts from the lexer's tokens:
`parseShellCommand` builds the tree with its confidence and its indicators as the parser does
(pipelines, sequences, subshells, substitutions, prefixes such as sudo, exec, env and timeout,
interpreters with -c and their inline scripts), and `classifyDangerousShellCombos` judges it. The
parser's methods call each other with a cursor; here each is a rule (`parseSequence`, `Segments`,
`parsePipeline`, `Subshell`, `parseSimpleCommand`, `Parts`, ...) that says what stands at a position
and where it ends, and `parse` is the recursive function that ties them. `Decisions` types a command
token by token behind one of several openings, or edits a policy, and `CommandDecision` is what the
hook answers: when the active policy cannot be read the handler throws before it looks at a sink, and
the catch block denies in fail-closed mode or prints nothing (`Thrown`, `hook.ts:63-70`). The properties compare the tree with a flat reading of the token
sequence that shares no code with the parser.

### RelayDaemon

Handlers of the daemon are atomic, as they run on one event loop without an
await; `AutoSeal` ends at the await for the witnesses and `AutoSealDone`
continues after it. `CrashInProcessEvent` dies between the write and the reply.
`log` has one entry for each write: `whole`, `cut` short, or `glued` to a cut one, so
that it cannot be parsed either. processEvent does not look at the result of writeSync
(`daemon.ts:451`): a write that falls short moves the tip and the count and is answered
with ok, as `ProcessEvent` does; a write that throws is `WriteError`, which leaves the
state alone and rejects. A start that cannot read the log takes it for an empty one
(`daemon.ts:168-170`), and one that cannot read the seals finds none; `freshLog` and
`freshSeals` are history variables that record where. A torn last seal makes
readLastSeal return null, so that a restarted daemon believes nothing is sealed.
The client's view (`client[e]`) tells what it knows: acknowledged, rejected, recorded
as a divergence, or silent. Not modelled: a write that loses only its newline, whose
line can still be read if nothing follows it.

### Signing and CommitAttestor

`CommitAttestor` follows the hook of a `git commit` from its append through the
window since the last commit to the verdict, the attestation file, its index line,
the git note, the envelope and its note; any call may throw, and where the code
catches, `_failures.jsonl` gets a line, or not. `Signing` takes one attestation and
one envelope through requestSignature: probe the relay, send, time out, fall back
to the user's keyring; handleSign with validateDssePae; key creation and rotation
with ACTIVE truncated and then filled; and any later verification. `relay` is
`up`, `deaf` or `absent`, and changes.

### TeamSync and Enrollment

`CycleStart` is `cycle()` up to its await, `CycleOk` and `CycleFails` the rest.
Nothing prevents two cycles at a time (`agent.ts:64`), so `Cycles` may have two
members. Requests can be lost, delivered after the agent gave up, rejected, or
cut short by the server's death; the agent can restart with only its cursor
file. Offsets and `MAX_BATCH_BYTES` count lines.

In `Enrollment` a request is its progress through the handler: sent, past the
check that comes before the await, executing its statements one by one. The server
may die between two statements, messages are lost or late, and several clients of
one machine may enrol it at once.

### DualWrite

A hook appends to the log, inserts a row, and marks a divergence if it cannot.
`sync db` reads the marker and the log, inserts the log's events one by one into the
database that is there, and removes the marker if no insert failed; `sync codex` reads the timestamps and hashes of the log,
then appends entries it has not seen. `excused` collects the events whose absence
from the index nobody could record.

### Verification and Trust

`Verification` translates the checks: a line of the log has an id, the id it
links to, a hash that is right, wrong or missing, and a form; a check is the
disjunction of its failures. `Trust` runs the commands as processes, each file
read or written in its own step, while events are appended and something other
than the program cuts, repeats, edits or replaces lines (`Damage`). A plan says how
often each command runs in a behaviour.

### Installer and Telemetry

`Installer` merges handlers into a settings file that has entries in both formats,
of older Patchwork versions and of the user; two runners and the user overlap, and
the plain write of the user's own file can be cut short. `Telemetry` is the lock
with its retries and its staleness by age, and the rotation.

## Runs

| Run | Shows |
|---|---|
| `jsonl_store` | three live writers, four appends, one torn write or failed chmod: one chain, no duplicates, honest answers, and refinement of `AuditLog` |
| `jsonl_faults` | two writers, a death, a failed metadata write, rotation at every line: safe unless a live lock was unlinked; rotation keeps the chain; the answers are true, also those thrown after a rotation; every call returns; a dead holder's lock is reclaimed at once |
| `workstation` | three taint updates, clear-taint, a death, a failed write: no lost update, no unasked clearing. Two installers and the user: exactly one handler as asked, the user's entries kept. Two signers, a relay that changes, rotations: signatures verify later and name their source |
| `relay` | two events, a death or stop, a fault (a log or seals that cannot be read at a start, a write of a log line that throws or falls short, a seal cut short), a witness: one chain, truthful answers, truthful increasing seals, up to what the fault itself spoils, and every event line is sealed in the end. Two sync cycles, three lines, a failure: no gaps before the cursor, everything arrives |
| `pretool` | three calls of two sessions in fail-closed mode, two terminals, two approvals, expiry, one fault: an approval is used once, in time, by its action; nothing dangerous runs without one; the log knows before the agent; a valid approval is not lost |
| `trust` | seals, rotations, witnesses, attestations and verifications overlap on a log that grows and is damaged: seals verify, what was only appended to passes, the events that seals name are not missing after a pass without `--allow-invalid`, a strict pass is what was attested |
| `decisions` | commands typed token by token, policies edited rule by rule or malformed, files and links that come and go: links do not get around a rule, rules are monotone, the parser misses nothing nested, the dangerous is stopped wherever it stands |
| `services` | dual writer, `sync db` and imports; commits; bootstrap and enrolment; telemetry |
| `jsonl_reclaim` (violation) | two reclaimers of a dead holder's lock: the slower unlinks the faster one's new lock and the chain forks |
| `commit_attested` (violation) | a commit whose sha git abbreviates has no attestation although nothing failed |
| `intoto_refused` (violation) | the relay refuses the in-toto statement that the product itself makes |
| `traversal` (violation) | a file that does not exist yet, named with a `..`, is not judged as the file it stands for |

Bounds. Three writers are what a reclaim race needs (a dead holder and two
reclaimers); two retries and two final attempts are enough to leave the loop
both ways. Three taint hooks let one wait, one hold and one come late. Two events
let the second arrive while the first one's seal waits for its witness; a down and a
fault let a recovery meet a line cut short, or a file that it cannot read, and go on
from there, and the theorems allow any number of both. A batch of one event in a window
of two lines makes the batch end inside the window. Three PreToolUse hooks are a
denied call and two retries that race for its approval, or two denied calls with
the same key; two ticks let a token expire between two looks at the clock;
`RaceCalls` has one shape of each kind the approval flow tells apart, and the
theorems cover the others. In `trust` two processes overlap any two commands, each
of three plans is what one of the properties needs (a full strict verification, a
rotation between two seals, two first uses of a key file), and one mishap is a
change of the log or a fault of a command; two events let a sealed one be cut off
or replaced. In `decisions` three tokens after an opening reach every production
of the parser, including an opening that is closed again, and three edits are a
policy and two rules in its way, or a policy, a rule and a link; a command meets every
policy that one edit makes, the malformed one too. In `services` two hooks, two importers and one
rebuild overlap pairwise; two handlers are a commit and one that appends into its
window; two bootstraps and three clients on two machines make every pair of
requests meet, also on one machine; three tellers are a holder, a reclaimer and a
bystander. In `workstation` two signers are a creator of a key and a rotator, with
three keys: root's, the user's first and its successor.
The counters only bound how often faults happen; after they are used up every
action that is not a fault stays enabled, so the liveness properties are about
"finitely many faults". Deadlock is not checked: when all processes have ended
the system rests. Symmetry is declared only where properties are invariants or
step properties and processes differ in nothing but their name.

Exceptions in properties.
`NoLostUpdate` and `TaintShrinksOnlyByClear` leave out states after a live lock
was unlinked, after a death, and after clear-taint overwrote a snapshot it had
not loaded: the code loses updates there. In particular the hook that comes after
a death starts from an empty snapshot and removes the marker
(`taint-store.ts:430`). `HonestOutcome` leaves out events whose file may have been
rotated out of the last archive, and states after a live lock was unlinked.
`RotationKeepsChain` leaves out states after a death.
The relay's properties do not leave a fault out but say what it may do:
`RelayChainLinked` lets an event name one whose line cannot be read, and begin a chain
after a start that could not read the log; `AnswerIsTrue` lets an acknowledged event be
unreadable if its write, or the one just before it, was cut short; `SealsMatchLog` lets
a count include unreadable events, and asks for increase only in a log without such
faults; `EveryEventSealed` leaves those logs out, and a glued seal, which the
daemon counts as made. `EventuallySynced` bounds heartbeats, since a window of heartbeats only is read
again for ever (`agent.ts:101`). `FreshApprovalKept` speaks of requests approved
once: a hook that has judged a token expired unlinks the file by name, and a
second approval of that request goes with it. `NothingDangerousRuns` leaves out
hooks that throw when fail-closed mode is off: the catch block prints nothing
(`hook.ts:63`); `DangerousStopped` leaves out the same hooks while the active policy is
malformed. `NamesDoNotMatter` speaks of names that lead to a file. `UntouchedPasses` compares two reads that saw the same log, and,
like `SealsVerify`, leaves out a legacy key file that two commands created at
once. `SealedEventsPresent` leaves out passes with `--allow-invalid`, events before the
first chained one of the log (rotation archives them), seals written after the damage, and a seal
of an older log appended after one of a longer log, as only the latest seal is
checked. `IndexFollowsLog` excuses what nobody could mark (SQLite does not open,
the marker cannot be written, the hook dies, the event is imported) and the marker
that `sync db` removes although it is newer than the one it read. Two overlapping
imports duplicate entries. `EnrollmentConsistent` allows a second team if two
bootstraps raced, and a token used twice if a death left it unmarked.
`CommitAccountedFor` leaves out commits of which git printed nothing, and hooks that
died or whose failure line could not be written; `PassMeansClean` applies if the commit is the last event of its window.
`TelemetryKept` leaves out locks taken from a holder that was only slow.

Fairness. `JsonlStore`: the operating system runs every live process and time
passes (`lockIO.sleep` is finite). `RelayDaemon`: launchd restarts the daemon
(`scripts/com.patchwork.relay.plist`, KeepAlive), the timer fires, and witness
requests end after 10 s (`AbortSignal.timeout`). `TeamSync`: the interval timer
runs cycles, backoff has a cap, a request that is not lost is served, and a push
ends after 30 s. `MCRelay` takes the fairness of each module for the behaviours that are about
its part. No fairness is assumed of hooks appearing, of the relay's
clients, or of failures; the other modules state none.

## Proofs

Every theorem holds for all values of the constants that the module's named
assumptions allow. In each case the properties that the runs check are not
inductive; the invariants below are.

`JsonlStoreProofs` (for any number of processes, keys, events, retries): with a
clock that tells writes apart, `StoreSafeUnlessStolen`; without deaths, failed
metadata writes and stalls, `StoreSafe`, which includes that no live lock is ever
unlinked; without rotation and while no live lock is unlinked,
`AppendRefinesAuditLog` and `OutcomesAreHonest`. `LockInv` says that, unless a lock
was stolen, a process inside the critical section owns the lock file that is
there. `DataInv` says what a process may rely on inside: the clock is ahead of
every cached mtime that is not the file's, a cache with the file's mtime has the
file's keys and tip (`CacheInv`), and a process between index and write has the
tip as `prev_hash` and a key that is not in the log (`WriterInv`). `CallInv` ties
what a process has answered to the file, and `CalmInv` says that without faults
nobody ever finds a live lock stale. The refinement maps initial states to initial
states and every step to a step of the log or to a stutter.

What an append promises follows from there. `AuditLog` is one chain without
duplicates (`LogIsHonest`), and `KeysAreRecordedOnce` says so of the store. For
rotation (`RotationNeverBreaksChain`, while nobody dies and no live lock is
unlinked) the chain must survive the moment in which the active file is absent:
`RotationInv` says that between the rename and the write one process holds the id
of the last archived line, or its line was cut short.

`PreToolHookProofs` (any finite sets of hooks, terminals, sessions, calls, ttls,
fail-closed or not): every property of the `pretool` run. `IInv` adds that a request
and an approval are about a call that was made (`RequestsOK`, `ApproversOK`); that a
hook about to unlink or collect has read the file it names, and a file found
expired is unchanged unless its request was approved again (`FilesOK`); that what a
hook has in hand before it answers is what the answer promises (`HooksOK`); and
that the tokens taken from a request, plus the one in the directory, are at most
its approvals (`CountsOK`). `UnreadableIsStrictest` is about the decision alone.

`TeamSyncProofs` (any log, batch limit, number of overlapping cycles and failures):
`NothingBeforeTheCursorIsMissing`. `SyncInv` says what every cycle and every request
under way covers: a batch begins at a cursor the server is not missing anything
before, and has every event and seal up to the place the cursor will move to
(`CycleInv`, `RequestInv`). `CursorNeverRewinds` is an action property: a batch
ends where it began or later, and while no two cycles have overlapped the one that
pushes began at the cursor on disk (`OneCycle`). Where they overlap, a late failure
writes the older cursor back, which only repeats work; no run checks this one.

`RelayDaemonProofs` (any number of events, restarts, faults, witnesses):
`TypeCorrect`, `OneChain`, `AnswersAreTrue`, `SealsAreTrue`. A running daemon's tip is
what the next event may name and its count is one that the log allows (`Recovered`):
a recovery reads both from the lines that can be parsed, a short write moves both
although its line cannot, and a start that could not read the log begins again. What is
said of a prefix of the log is not touched by later writes, except that a start adds to
`freshLog`, which only allows more. `Answers` adds to the property that an event which
is not sent, still waits or was rejected is nowhere in the log. The daemon knows what
the last seal covers unless that line cannot be read (`SealKnown`). That is not enough
for seals to increase: after a seal that was cut short the daemon believes nothing is
sealed. `Sealed` therefore also speaks of the unreadable lines: each covers more than
every readable one before it, and a seal that continues a line cut short is unreadable
too.

`TrustProofs` (any number of processes, keys, seals, damages and deaths): all four
properties of the `trust` run. `EverySealVerifies`: a command that is to seal holds a key
that is in the keyring, or the one of the key file, at each of its labels (`KeysOK`).
`UntouchedLogPasses`: while nothing was damaged, the log and every copy that a command
has read are numbered chains with true hashes (`LogsOK`). `SealedEventsAreThere`: a seal
is about an event that existed, and unless it was made after a damage, so are the events
up to it: whatever copy is read, an event below a seal's tip links to the one before it
(`SealsOK`), so that a chain which verifies and holds the last tip holds the others, or
begins after them. `StrictPassIsTheAttestedChain`: an attestation that says "pass" was
made of an unbroken chain whose tip and length it names (`AttestOK`), and ids determine
links, so two chains with that tip and length are one. The facts about the last and the
n-th chained line of a log are proved from the least element of a set of positions.

`DecisionsProofs` (any paths, links, rules, calls and edits; any tokens, openings and
inline body): `LinksAreJudgedByTheirFiles` and `RulesDoWhatTheirListSays` are about the
policy engine. Beyond types there is nothing to carry from state to state; the work is
in the engine. A name that realpath returns leads to itself and has no other name
(`FilesLeadToThemselves`), so its names are among those of each link to it, whatever was
linked and removed before. A path with fewer names is at most as risky (`FewerNamesLessRisk`), since
the highest of fewer levels is not above the highest of more; a section's verdict
depends on its list only through the rules that match, and is monotone in both lists;
`loadActivePolicy` looks at no level below the active one, and an edit of a policy file
leaves the names of files alone (`EditsLeaveTheDisk`).

`TreeMissesNothing` and `NothingDangerousPasses` are about the shell recogniser, for
every sequence of tokens; the second also for every set of policy files, with
`CommandDecision` as it is when the active one is malformed. The state carries nothing but its type (`Typed`); the work is
in the parser, in four steps.
1. The recursion ends (`ParserReturns`). `Mu` measures a call: what is left of the
   tokens, the rank of the rule at one position, and the inline bodies that may still be
   started on, since `sh -c` starts over on another sequence. Each rule calls only below
   its own measure and returns a node, a list or parts, and a position that is not
   before its own (`SequenceRule` to `PartsRule`). A function that obeys the rules below
   a measure is unique and exists, so `parse` obeys them everywhere.
2. Brackets (`Depth`, `Balanced`): a rule passes over whole brackets, or runs to the end
   of the command (`Level`), the `)` it meets after an opener is the one that the flat
   reading pairs with that opener (`Brackets`), and where all brackets are closed a
   well-formed command has no `)` (`NoBracket`). So the parse of a well-formed command
   ends at its end.
3. What a command is called: a row of static words becomes the argument vector
   (`RowIs`), and peeling prefixes leaves the command proper (`UnwrapPlain`,
   `WholeCommand`); an interpreter keeps its name with or without an inline body.
4. What the rules reach (`Reached`, by least counterexample of `Mu`): every token
   between the start and the end of a rule is covered by the node or by one of the
   nodes it returns, with its name, its reserved `patchwork` command and its doubt
   (`Covers`), and a pipeline into a shell is known as soon as its stages are put
   together (`Piped`). A rule in the middle of a pipeline owes less than one at its
   start, and the last stage owes an interpreter: `ReachedStages` and `ReachedCommand`
   are what makes this inductive.
The flat reading of the tokens that the properties compare with has no recursion, so
that what is proved is about the parser and not about a second one.

`ServicesProofs` (any number of processes and failures) has a section for each of
four modules.
`TheIndexFollows`: that an event without a row has left a marker is not inductive,
as `sync db` removes the marker. `Covered` says what that command knows in between: it
inserts every event that was open when it read the log, unless a marker was written
after it had begun. `HistoryEntersOnce`: while one import runs, only
it adds history entries, and it knows those that are there.
`NoCommitMissedInSilence`: `Progress` says at each label what the hook has done or
reported so far. `PassingIsClean`: a passing result in hand vouches for a window of the
session as it was read; the session only grows and keys tell events apart, so the
window stays clean.
`EnrolledIsLetIn`: ids are below the counter that makes them (`Numbered`), one
bootstrap is past its check unless they raced (`OneBootstrap`), a token that enrolled a
machine is marked, or its handler is about to mark it, or the server died (`Spent`), a
machine has one row per team (`OncePerTeam`), and every answer under way or saved is a
row the server stored (`Answers`).
`LinesAreKept`: only the process that the lock names renames files (`OneRotates`), and
the place it renames into is empty (`RoomToShift`).

`WorkstationProofs` (any number of hooks, signers, installers and failures) has a
section for each of three modules.
`UpdatesAreKept`, `OnlyAHumanClears`: the hook in the locked section owns the lock file
(`Owned`); the marker, which makes a snapshot unreadable, is there only while a write is
in progress, so the next holder loads what the last one wrote (`Visible`); and what a
hook is about to write keeps all that the file has *now*, although clear-taint writes
without the lock (`Fresh`): it moves sources from active to cleared and loses none, so a
fold loaded before it still contains them.
`SourcesAreTrue`: the two keyrings share no key and their ACTIVE files name keys they
have (`KeysOK`); a signature in the hands of a signer that has not stored it yet already
satisfies what `SourceIsTrue` says of a stored document (`HandsOK`). `SignaturesVerify`
follows with `DocumentsIntact`: the verifier computes the signed text from the stored
document, and gets the text that was signed because the four fields that signing adds
are those the payload leaves out.
`OwnEntriesStay`, `LastCommandCounts`: a command about to write has in hand the user's
entries as of its read and what it was asked for (`WriterOK`); a write over a file that
changed since makes the difference visible in `own`. Behind it is what the filter in
installer.ts does to a list of any length (`OnlyOthers`, `OthersStay`, `OursGoes`).

Assumptions on constants are what the code relies on. Those worth a reader's
attention: a history is a sequence of entries with a timestamp (`DualWriteAssumption`);
the audit event of a denial has an idempotency key that no commit's has, as a denied
call has no PostToolUse event (`AttestorAssumption`); a configuration switches on
options that exist (`TrustAssumption`); policy files hold what the schema lets through, and taking the `..` out of a name gives
a name without one (`PolicyAssumption`); the lexer gives tokens, and the
quoted body of `sh -c` is shorter than the command and so does not hold itself
(`DecisionsAssumption`, `ShellAssumption`); handlers a person adds by hand are
of other programs (`InstallAssumption`). `CoarseClock`, `MayStall` and the like are
constants, and a theorem that needs one off says so.

Induction. The induction theorems of the library take an operator as a parameter, and
the provers here cannot instantiate one. Where a recursive function or a position in a
log needs induction (`Installer`, `Trust`, `CommitAttestor`, `Shell`) it is proved from
`WFMin`: a nonempty set of naturals, here the set of counterexamples, has a least
element.

Only model-checked: the liveness properties `EveryCallReturns`, `DeadHolderDoesNotBlock`,
`EveryEventSealed` and `EventuallySynced`, since fairness and ENABLED are out of the
prover's reach. Every other property of a passing run is stated by a theorem.

## What the models brought to light

The four violation runs are described in `PROJECT.json` under "findings". While
modelling, these differences between the code and what its comments or documents
say, or a reader would expect, were met; no run is devoted to them.

Store and taint
* A hook that meets the session lock drops its taint without a marker; a death
  during the write rolls taint back at the next hook.
* SQLite that cannot be opened leaves no divergence marker, although `db-status`
  then says "Stores are in sync"; imported events get neither a row nor a marker;
  a repeated delivery of a keyed event inserts a row for an event that the log
  does not have under that id; `sync db` counts rows ignored as duplicates among
  the inserted.
* `sync codex` takes the second of two tool calls with one timestamp and no output
  for a repeat, and imports entries without timestamp again each time.

Relay
* A write of an event that falls short (a full disk) is acknowledged and counted, although
  the line, and the next one with it, cannot be read: `daemon.ts:391` says "Validate and
  store an audit event", and `daemon.ts:451` does not look at what writeSync returns.
* A start that cannot read the log goes on as if there were none ("starting fresh",
  `daemon.ts:168-170`): the next event begins a chain in the middle of the file and the
  count begins at 0.
* After a short write and a restart the recovered count can be below what the last seal
  counted, so that auto-seal waits for more events than `MinEvents`.

Verification, seals, signing
* runVerification does not look at `is_valid`, so a legacy line in the middle of
  the chain passes unless `--strict` is given, although `chain.ts` says it fails.
* The seal check looks at the latest seal only and does not compare
  `chained_events`; the remote quorum counts records, not distinct witnesses.
* A type error in a configuration with `profile: strict` falls back to the
  baseline profile.
* A process that dies between truncating and filling ACTIVE leaves a keyring that
  cannot sign until the next rotation.
* With `PATCHWORK_REQUIRE_RELAY=1` an attestation may still be signed with the
  legacy key or not at all, since generateCommitAttestation has a fallback of its
  own; the relay refuses branch names outside `[A-Za-z0-9._\-/]`.

Commits
* The window's last event is taken for the commit itself (`commit-attestor.ts:79-85`),
  which another hook's append in between makes false; a failed or denied
  `git commit` ends the window of earlier denials as well.
* Once `<sha>.intoto.json` exists, resolveShortSha finds two files for the sha.

Policy and shell
* A policy file that cannot be parsed switches the whole decision off: the hook throws
  before it looks at taint and sinks, and the call goes ahead unless
  `PATCHWORK_PRETOOL_FAIL_CLOSED=1`.
* The default rule is applied to every candidate name, not only to the primary
  path as `engine.ts` says around line 259; a rule's own `action` field decides
  whether shell metacharacters are checked.
* Redirects after a subshell neither lower the confidence nor are searched for
  indicators, nor are tokens after an unmatched `)`.
* `unwrapCompoundPrefixes` gives up after eight prefixes (`safety`, `parse.ts:427`): what
  stands behind the ninth `sudo` has no indicator and the parse is still called certain.
  `ParserSound` says so by `Proper`.
* The text of a here-document is taken for the target of a redirect
  (`consumeHeredoc`) and not parsed: the commands in the text of `sh <<EOF` have no
  indicators, and what the shell expands there leaves the confidence at high.

Team, installer, telemetry
* Two bootstraps race although `admin.ts` says "Only works when no teams exist
  yet"; an unenrolled machine, or one whose answer was lost, cannot enrol again; a
  death in the middle of the bootstrap leaves a team without a token.
* The installer drops user handlers that share a matcher group with one of
  Patchwork's, and the user's own `guard.sh` hooks, although `installer.ts:220`
  says it "doesn't overwrite user hooks"; a death in the plain write of the
  user's settings leaves a file that does not parse.
* The telemetry file is measured before its lock is taken, so it can outgrow its
  limit.

## Not modelled, and why

* The lexer, glob and regular-expression matching, URL and git canonicalisation:
  strings character by character; their results are inputs of the models.
* Links to links and directories that are links: realpath follows them in one call.
* Conversions between formats (codex entries, Claude Code inputs, in-toto fields
  of one admissible value).
* Reports, replay, compliance frameworks, the web dashboard, relay health: they read and
  present, and change nothing.
* The trust store: a list that a human edits, one more input of the decision.
* `setup`, which deploys a system installation: a script run once by a human.
* A second daemon on one socket, and the counts in the relay client's divergence
  marker, which no document promises to be exact.
* The team server's read-only routes.

What could come next: the lexer, which decides where words end and which of them are
dynamic, below `Shell`; an abstract mailbox that the relay and the team sync implement
together.
