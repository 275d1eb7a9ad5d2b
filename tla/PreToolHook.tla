---------------------------- MODULE PreToolHook ----------------------------
(***************************************************************************)
(* The PreToolUse hook of packages/agents and packages/cli: every tool     *)
(* call of the agent starts one hook process that decides the call from    *)
(* the policy, the sinks and the session's taint, lets a human's single-use *)
(* approval override a denial, writes the audit event and answers.  Hooks  *)
(* run concurrently with each other, with `patchwork approve` in several   *)
(* terminals and with everything that changes the taint snapshot.          *)
(*                                                                         *)
(* Abstractions: a call is its session and its shape, the class of tool    *)
(* input the decision tells apart; a request id is the hook that wrote the *)
(* request (a process writes at most one); the snapshot, which a hook reads *)
(* once, is reduced to what the decision asks of it and is any of its      *)
(* values then (TaintStore models how it changes).                         *)
(***************************************************************************)
EXTENDS Naturals, FiniteSets

CONSTANTS
  Hooks,       \* PreToolUse processes, one per tool call
  Approvers,   \* terminals that run `patchwork approve`
  Sessions,
  Calls,       \* the calls the agent may make
  FailClosed,  \* PATCHWORK_PRETOOL_FAIL_CLOSED=1 in the hooks' environment
  NoCall, NoRequest,
  Ttls,        \* the --ttl values in use, in ticks
  MaxClock,    \* bound: ticks
  MaxApprovals,\* bound: runs of `patchwork approve`
  MaxFaults    \* bound: failed system calls, unreadable inputs, killed hooks

Shapes == {"plain", "malformed", "policyDenied", "persistence", "secretRead",
           "shellCombo", "adminCli", "doubtfulShell"}

Snapshots == {"null", "clean", "tainted"}

ASSUME ConstantsAssumption ==
  /\ Calls \subseteq [session : Sessions, shape : Shapes] /\ NoCall \notin Calls
  /\ IsFiniteSet(Hooks) /\ NoRequest \notin Hooks /\ FailClosed \in BOOLEAN
  /\ Ttls \subseteq Nat \ {0}
  /\ MaxClock \in Nat /\ MaxApprovals \in Nat /\ MaxFaults \in Nat

VARIABLES
  pending,     \* the requests whose .pending.json exists
  token,       \* expires_at_ms of each request's .approved.json, 0 if none
  log,         \* the audit events appended: hook and status
  pc, call,    \* each hook: where it is, and the call it decides
  ret,         \* what handlePreToolUse will return
  files, now,  \* consumeApprovedToken: entries left to read, Date.now()
  file, expiry,\* the token it is about to unlink, and its expires_at_ms
  out,         \* what the process answered
  approver,    \* each approve process: where it is, and its request
  clock,
  saw,         \* history: the snapshot on which each call was allowed
  consumed,    \* history: the request whose token each hook took
  granted,     \* history: how often each request was approved
  approvals, faults   \* counters for the bounds

store == <<pending, token, log>>
scan == <<files, now, file, expiry>>
history == <<consumed, granted>>
vars == <<store, pc, call, saw, ret, scan, out, approver, clock, history,
          approvals, faults>>

Goto(h, label) == pc' = [pc EXCEPT ![h] = label]
Returns(h, answer) == ret' = [ret EXCEPT ![h] = answer]
Fault == faults < MaxFaults /\ faults' = faults + 1

-----------------------------------------------------------------------------
(***************************************************************************)
(* The decision: classifyToolEvent, classifyDangerousShellCombos and       *)
(* decidePreToolUse.                                                       *)
(***************************************************************************)
\* Mutant: a missing snapshot counts as a clean session.
TaintedIfReadable(s) == s = "tainted"

\* A null snapshot stands for every kind of taint.
Tainted(s) == s \in {"null", "tainted"}

severityFor(tainted) == IF tainted THEN "deny" ELSE "approval_required"

SinkSeverities(shape, tainted) ==
  CASE shape \in {"persistence", "shellCombo"} -> {severityFor(tainted)}
    [] shape = "adminCli" -> {"deny"}
    [] shape = "secretRead" -> {"advisory"}
    [] OTHER -> {}

\* decidePreToolUse, after the policy has allowed the call: the keystone rule
\* for a shell command parsed with doubt, then the sinks.
decidePreToolUse(shape, s) ==
  LET severities == SinkSeverities(shape, Tainted(s))
  IN IF (shape = "doubtfulShell" /\ Tainted(s)) \/ "deny" \in severities THEN "deny"
     ELSE IF "approval_required" \in severities THEN "approval_required"
     ELSE "allow"

\* Mutant: the session is left out of the key.
KeyWithoutSession(c) == <<c.shape>>

canonicalKey(c) == <<c.session, c.shape>>

-----------------------------------------------------------------------------
Init ==
  /\ pending = {} /\ token = [r \in Hooks |-> 0] /\ log = {}
  /\ pc = [h \in Hooks |-> "idle"] /\ call = [h \in Hooks |-> NoCall]
  /\ ret = [h \in Hooks |-> "none"] /\ out = [h \in Hooks |-> "none"]
  /\ files = [h \in Hooks |-> {}] /\ now = [h \in Hooks |-> 0]
  /\ file = [h \in Hooks |-> NoRequest] /\ expiry = [h \in Hooks |-> 0]
  /\ saw = [h \in Hooks |-> "unread"]
  /\ approver = [a \in Approvers |-> [at |-> "idle", request |-> NoRequest]]
  /\ clock = 1
  /\ consumed = [h \in Hooks |-> NoRequest] /\ granted = [r \in Hooks |-> 0]
  /\ approvals = 0 /\ faults = 0

-----------------------------------------------------------------------------
(***************************************************************************)
(* hookCommand and handlePreToolUse.                                       *)
(***************************************************************************)
\* The catch block of hookCommand.
Throw(h) ==
  /\ Goto(h, "done")
  /\ out' = [out EXCEPT ![h] = IF FailClosed THEN "failClosedDeny" ELSE "silent"]

ReadStdin(h, c) ==
  /\ pc[h] = "idle"
  /\ call' = [call EXCEPT ![h] = c]
  /\ Goto(h, "evaluate")
  /\ UNCHANGED <<store, saw, ret, scan, out, approver, clock, history,
                 approvals, faults>>

\* No stdin within 500 ms, JSON that does not parse, or a store directory that
\* cannot be made: the handler does not see the call.
BadInput(h, c) ==
  /\ pc[h] = "idle" /\ Fault
  /\ call' = [call EXCEPT ![h] = c]
  /\ Throw(h)
  /\ UNCHANGED <<store, saw, ret, scan, approver, clock, history, approvals>>

\* loadActivePolicy throws on a policy file that does not parse.
PolicyThrows(h) ==
  /\ pc[h] = "evaluate" /\ call[h].shape # "malformed" /\ Fault
  /\ Throw(h)
  /\ UNCHANGED <<store, call, saw, ret, scan, approver, clock, history,
                 approvals>>

Outright == {"malformed", "policyDenied"}

\* Malformed input, a policy denial and an error of the enforcement layer are
\* denied outright, without looking for an approval.
DenyOutright(h) ==
  /\ pc[h] = "evaluate"
  /\ \/ call[h].shape \in Outright /\ UNCHANGED faults
     \/ call[h].shape \notin Outright /\ Fault
  /\ Returns(h, "deny") /\ Goto(h, "append")
  /\ UNCHANGED <<store, call, saw, scan, out, approver, clock, history,
                 approvals>>

\* computeTaintSinkDecision; an allowed call is not logged here.
Decide(h, s) ==
  /\ pc[h] = "evaluate" /\ call[h].shape \notin Outright
  /\ IF decidePreToolUse(call[h].shape, s) = "allow"
     THEN Returns(h, "allow") /\ Goto(h, "reply") /\ saw' = [saw EXCEPT ![h] = s]
     ELSE UNCHANGED <<ret, saw>> /\ Goto(h, "list")
  /\ UNCHANGED <<store, call, scan, out, approver, clock, history,
                 approvals, faults>>

-----------------------------------------------------------------------------
(***************************************************************************)
(* consumeApprovedToken: list the directory, read the clock once, then try *)
(* the token files one by one.                                             *)
(***************************************************************************)
ListTokens(h) ==
  /\ pc[h] = "list"
  /\ \/ files' = [files EXCEPT ![h] = {r \in Hooks : token[r] # 0}] /\ UNCHANGED faults
     \/ files' = [files EXCEPT ![h] = {}] /\ Fault
  /\ now' = [now EXCEPT ![h] = clock]
  /\ Goto(h, "scan")
  /\ UNCHANGED <<store, call, saw, ret, file, expiry, out, approver, clock,
                 history, approvals>>

Matches(h, r) == canonicalKey(call[r]) = canonicalKey(call[h]) /\ token[r] > now[h]

\* Mutant: every token that does not match is collected.
AfterReadCollectsAll(h, r) ==
  IF token[r] = 0 THEN "scan" ELSE IF Matches(h, r) THEN "unlink" ELSE "collect"

\* What a hook does with the token file it has opened, if it is still there.
AfterRead(h, r) ==
  IF token[r] = 0 THEN "scan"
  ELSE IF Matches(h, r) THEN "unlink"
  ELSE IF token[r] <= now[h] THEN "collect" ELSE "scan"

ReadToken(h, r) ==
  /\ pc[h] = "scan" /\ r \in files[h]
  /\ files' = [files EXCEPT ![h] = @ \ {r}]
  /\ Goto(h, AfterRead(h, r))
  /\ IF AfterRead(h, r) = "scan" THEN UNCHANGED <<file, expiry>>
     ELSE file' = [file EXCEPT ![h] = r] /\ expiry' = [expiry EXCEPT ![h] = token[r]]
  /\ UNCHANGED <<store, call, saw, ret, now, out, approver, clock, history,
                 approvals, faults>>

\* The scan returns null and its locals are gone.
ReturnsNull(h) ==
  /\ Goto(h, "pend")
  /\ files' = [files EXCEPT ![h] = {}]
  /\ now' = [now EXCEPT ![h] = 0]
  /\ file' = [file EXCEPT ![h] = NoRequest]
  /\ expiry' = [expiry EXCEPT ![h] = 0]

ScanEnds(h) ==
  /\ pc[h] = "scan" /\ files[h] = {}
  /\ ReturnsNull(h)
  /\ UNCHANGED <<store, call, saw, ret, out, approver, clock, history,
                 approvals, faults>>

\* Mutant: a token that another hook has unlinked still counts.
UnlinkTokenIgnoringRace(h) ==
  /\ pc[h] = "unlink"
  /\ token' = [token EXCEPT ![file[h]] = 0]
  /\ consumed' = [consumed EXCEPT ![h] = file[h]]
  /\ files' = [files EXCEPT ![h] = {}]
  /\ Returns(h, "allow") /\ Goto(h, "append")
  /\ UNCHANGED <<pending, log, call, saw, now, file, expiry, out, approver,
                 clock, granted, approvals, faults>>

\* The hook whose unlink succeeds has the approval.
UnlinkToken(h) ==
  /\ pc[h] = "unlink" /\ token[file[h]] # 0
  /\ token' = [token EXCEPT ![file[h]] = 0]
  /\ consumed' = [consumed EXCEPT ![h] = file[h]]
  /\ files' = [files EXCEPT ![h] = {}]
  /\ Returns(h, "allow") /\ Goto(h, "append")
  /\ UNCHANGED <<pending, log, call, saw, now, file, expiry, out, approver,
                 clock, granted, approvals, faults>>

\* The unlink fails: the scan gives up, whatever else the directory holds.
UnlinkFails(h) ==
  /\ pc[h] = "unlink"
  /\ \/ token[file[h]] = 0 /\ UNCHANGED faults
     \/ token[file[h]] # 0 /\ Fault
  /\ ReturnsNull(h)
  /\ UNCHANGED <<store, call, saw, ret, out, approver, clock, history,
                 approvals>>

\* Unlinks whatever file has the name of the expired token, if it can.
CollectToken(h) ==
  /\ pc[h] = "collect"
  /\ \/ token' = [token EXCEPT ![file[h]] = 0] /\ UNCHANGED faults
     \/ Fault /\ UNCHANGED token
  /\ Goto(h, "scan")
  /\ file' = [file EXCEPT ![h] = NoRequest] /\ expiry' = [expiry EXCEPT ![h] = 0]
  /\ UNCHANGED <<pending, log, call, saw, ret, files, now, out, approver, clock,
                 history, approvals>>

-----------------------------------------------------------------------------
\* writePendingRequest; a failure is ignored.
WritePendingRequest(h) ==
  /\ pc[h] = "pend"
  /\ \/ pending' = pending \cup {h} /\ UNCHANGED faults
     \/ Fault /\ UNCHANGED pending
  /\ Returns(h, "deny") /\ Goto(h, "append")
  /\ UNCHANGED <<token, log, call, saw, scan, out, approver, clock, history,
                 approvals>>

\* Mutant: a failed append is swallowed.
AppendThrowsSwallowed(h) ==
  /\ pc[h] = "append" /\ Fault
  /\ Goto(h, "reply")
  /\ UNCHANGED <<store, call, saw, ret, scan, out, approver, clock, history,
                 approvals>>

\* store.append throws out of the handler, also when it was about to deny.
AppendThrows(h) ==
  /\ pc[h] = "append" /\ Fault
  /\ Throw(h)
  /\ UNCHANGED <<store, call, saw, ret, scan, approver, clock, history,
                 approvals>>

Status(answer) == IF answer = "allow" THEN "completed" ELSE "denied"

Append(h) ==
  /\ pc[h] = "append"
  /\ log' = log \cup {<<h, Status(ret[h])>>}
  /\ Goto(h, "reply")
  /\ UNCHANGED <<pending, token, call, saw, ret, scan, out,
                 approver, clock, history, approvals, faults>>

\* flushRelay, then the answer on stdout.
Reply(h) ==
  /\ pc[h] = "reply"
  /\ out' = [out EXCEPT ![h] = ret[h]]
  /\ Goto(h, "done")
  /\ UNCHANGED <<store, call, saw, ret, scan, approver,
                 clock, history, approvals, faults>>

\* The agent kills a hook that takes longer than its timeout.
Killed(h) ==
  /\ pc[h] \notin {"idle", "done"} /\ Fault
  /\ out' = [out EXCEPT ![h] = "killed"]
  /\ Goto(h, "done")
  /\ UNCHANGED <<store, call, saw, ret, scan, approver,
                 clock, history, approvals>>

-----------------------------------------------------------------------------
(***************************************************************************)
(* patchwork approve <request_id>, in a human's terminal.                  *)
(***************************************************************************)
At(a, label, r) == approver' = [approver EXCEPT ![a] = [at |-> label, request |-> r]]

ReadPendingRequest(a, r) ==
  /\ approver[a].at = "idle" /\ r \in pending /\ approvals < MaxApprovals
  /\ approvals' = approvals + 1
  /\ At(a, "approve", r)
  /\ UNCHANGED <<store, pc, call, saw, ret, scan, out, clock, history, faults>>

WriteApprovedToken(a, ttl) ==
  /\ approver[a].at = "approve"
  /\ token' = [token EXCEPT ![approver[a].request] = clock + ttl]
  /\ granted' = [granted EXCEPT ![approver[a].request] = @ + 1]
  /\ At(a, "cleanup", approver[a].request)
  /\ UNCHANGED <<pending, log, pc, call, saw, ret, scan, out, clock,
                 consumed, approvals, faults>>

UnlinkPendingRequest(a) ==
  /\ approver[a].at = "cleanup"
  /\ pending' = pending \ {approver[a].request}
  /\ At(a, "idle", NoRequest)
  /\ UNCHANGED <<token, log, pc, call, saw, ret, scan, out, clock, history,
                 approvals, faults>>

-----------------------------------------------------------------------------
Tick ==
  /\ clock < MaxClock
  /\ clock' = clock + 1
  /\ UNCHANGED <<store, pc, call, saw, ret, scan, out, approver, history,
                 approvals, faults>>

Step(h) ==
  \/ PolicyThrows(h) \/ DenyOutright(h) \/ (\E s \in Snapshots : Decide(h, s))
  \/ ListTokens(h) \/ (\E r \in Hooks : ReadToken(h, r)) \/ ScanEnds(h)
  \/ UnlinkToken(h) \/ UnlinkFails(h) \/ CollectToken(h)
  \/ WritePendingRequest(h) \/ AppendThrows(h) \/ Append(h) \/ Reply(h) \/ Killed(h)

Approve(a) ==
  \/ \E r \in Hooks : ReadPendingRequest(a, r)
  \/ \E ttl \in Ttls : WriteApprovedToken(a, ttl)
  \/ UnlinkPendingRequest(a)

Next ==
  \/ \E h \in Hooks : \E c \in Calls : ReadStdin(h, c) \/ BadInput(h, c)
  \/ \E h \in Hooks : Step(h)
  \/ \E a \in Approvers : Approve(a)
  \/ Tick

Spec == Init /\ [][Next]_vars
-----------------------------------------------------------------------------
(***************************************************************************)
(* Properties.                                                             *)
(***************************************************************************)
\* The variables have their types; in particular a hook answers only allow or
\* deny, or says nothing.
TypeOK ==
  /\ pending \subseteq Hooks /\ token \in [Hooks -> Nat]
  /\ log \subseteq Hooks \X {"completed", "denied"}
  /\ pc \in [Hooks -> {"idle", "evaluate", "list", "scan", "unlink", "collect", "pend",
                      "append", "reply", "done"}]
  /\ call \in [Hooks -> Calls \cup {NoCall}]
  /\ ret \in [Hooks -> {"none", "allow", "deny"}]
  /\ files \in [Hooks -> SUBSET Hooks] /\ now \in [Hooks -> Nat]
  /\ file \in [Hooks -> Hooks \cup {NoRequest}]
  /\ out \in [Hooks -> {"none", "allow", "deny", "silent", "failClosedDeny", "killed"}]
  /\ approver \in [Approvers -> [at : {"idle", "approve", "cleanup"},
                                 request : Hooks \cup {NoRequest}]]
  /\ clock \in Nat /\ expiry \in [Hooks -> Nat]
  /\ saw \in [Hooks -> Snapshots \cup {"unread"}]
  /\ consumed \in [Hooks -> Hooks \cup {NoRequest}] /\ granted \in [Hooks -> Nat]
  /\ approvals \in Nat /\ faults \in Nat

\* An approval is single-use: however many hooks race for a token, and however
\* often a request is approved again, the calls a request lets through are never
\* more than the times a human approved it.
SingleUse ==
  \A r \in Hooks :
    Cardinality({h \in Hooks : consumed[h] = r}) <= granted[r]

\* An approval covers exactly the denied action: the same session, tool and
\* target, never malformed input or a policy denial, and never a call whose hook
\* looked for approvals after the token had expired.
ApprovalScope ==
  \A h \in Hooks : consumed[h] # NoRequest =>
    /\ call[consumed[h]] = call[h]
    /\ call[h].shape \notin Outright
    /\ expiry[h] > now[h]

\* A dangerous call runs only with an approval: whatever a hook answers, unless
\* it threw where fail-closed mode is off, a call that goes ahead is harmless, or
\* approved, or a doubtful shell command of a session whose snapshot was clean.
NothingDangerousRuns ==
  \A h \in Hooks :
    out[h] = "allow" \/ (out[h] = "silent" /\ FailClosed) =>
      \/ call[h].shape \in {"plain", "secretRead"}
      \/ consumed[h] # NoRequest
      \/ call[h].shape = "doubtfulShell" /\ saw[h] = "clean"

\* The audit log knows before the agent does: a denial, and a call let through
\* by an approval, is answered only once its event is in the log.
AnswersAudited ==
  \A h \in Hooks :
    /\ out[h] = "deny" => <<h, "denied">> \in log
    /\ out[h] = "allow" /\ consumed[h] # NoRequest => <<h, "completed">> \in log

\* A human's approval is not lost: while it is valid, the token of a request
\* approved once goes away only because a matching call took it.
FreshApprovalKept ==
  [][\A r \in Hooks : token[r] > clock /\ granted[r] = 1 /\ token'[r] = 0 =>
       \E h \in Hooks : consumed[h] = NoRequest /\ consumed'[h] = r]_vars
=============================================================================
