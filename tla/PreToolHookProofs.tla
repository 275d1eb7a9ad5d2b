------------------------- MODULE PreToolHookProofs -------------------------
(***************************************************************************)
(* For every number of hooks, terminals, sessions and calls: TypeOK,       *)
(* SingleUse, ApprovalScope, NothingDangerousRuns, AnswersAudited and      *)
(* FreshApprovalKept hold of PreToolHook.                                  *)
(*                                                                         *)
(* None of them is inductive.  IInv adds where a hook may be when it has   *)
(* taken a token, that a request is about a call that was made (so its key *)
(* never changes under a hook that has compared it), and that a token in   *)
(* the directory is an approval nobody has used.                           *)
(***************************************************************************)
EXTENDS PreToolHook, FiniteSetTheorems, TLAPS

Searching == {"list", "scan", "unlink", "collect", "pend"}

\* A call that may go ahead without an approval.
Harmless(h) ==
  \/ call[h].shape \in {"plain", "secretRead"}
  \/ call[h].shape = "doubtfulShell" /\ saw[h] = "clean"

\* What must be true before hook h answers a.
MayAnswer(h, a) ==
  /\ a = "deny" => <<h, "denied">> \in log
  /\ a = "allow" /\ consumed[h] # NoRequest => <<h, "completed">> \in log
  /\ a = "allow" /\ consumed[h] = NoRequest => Harmless(h)

HookOK(h) ==
  /\ pc[h] = "idle" <=> call[h] = NoCall
  /\ pc[h] # "done" => out[h] = "none"
  /\ out[h] = "silent" => ~FailClosed
  /\ pc[h] \in Searching => call[h].shape \notin Outright /\ consumed[h] = NoRequest
  /\ pc[h] \in {"idle", "evaluate"} => consumed[h] = NoRequest
  /\ pc[h] \in {"append", "reply"} => ret[h] # "none"
  /\ pc[h] = "append" /\ ret[h] = "allow" => consumed[h] # NoRequest
  /\ pc[h] = "reply" => MayAnswer(h, ret[h])
  /\ out[h] \in {"allow", "deny"} => MayAnswer(h, out[h])

\* A hook that is about to unlink a file has read it, and a hook that has taken a
\* token took the one it had compared.
FileOK(h) ==
  /\ pc[h] \in {"unlink", "collect"} => file[h] \in Hooks /\ granted[file[h]] >= 1
  /\ pc[h] = "unlink" => call[file[h]] = call[h] /\ expiry[h] > now[h]
  /\ pc[h] = "collect" =>
       /\ expiry[h] <= now[h]
       /\ granted[file[h]] = 1 => token[file[h]] \in {0, expiry[h]}
  /\ consumed[h] # NoRequest =>
       /\ call[consumed[h]] = call[h] /\ call[h].shape \notin Outright
       /\ expiry[h] > now[h]
  /\ now[h] <= clock

\* A request is about a call, and a token is an approval.
RequestOK(r) ==
  /\ r \in pending => pc[r] # "idle"
  /\ granted[r] >= 1 => pc[r] # "idle"
  /\ token[r] # 0 => granted[r] >= 1

ApproverOK(a) ==
  approver[a].at # "idle" =>
    approver[a].request \in Hooks /\ pc[approver[a].request] # "idle"

Takers(r) == {h \in Hooks : consumed[h] = r}

\* A token in the directory is an approval that nobody has used.
CountOK(r) ==
  Cardinality(Takers(r)) + (IF token[r] = 0 THEN 0 ELSE 1) <= granted[r]

HooksOK == \A h \in Hooks : HookOK(h)
FilesOK == \A h \in Hooks : FileOK(h)
RequestsOK == \A r \in Hooks : RequestOK(r)
ApproversOK == \A a \in Approvers : ApproverOK(a)
CountsOK == \A r \in Hooks : CountOK(r)

IInv == TypeOK /\ HooksOK /\ FilesOK /\ RequestsOK /\ ApproversOK /\ CountsOK
-----------------------------------------------------------------------------
(***************************************************************************)
(* The decision.                                                           *)
(***************************************************************************)
\* A call is allowed only if it is harmless, or a doubtful shell command of a
\* session whose snapshot is readable and clean.
LEMMA AllowedIsHarmless ==
  ASSUME NEW shape \in Shapes, NEW s \in Snapshots, shape \notin Outright,
         decidePreToolUse(shape, s) = "allow"
  PROVE  shape \in {"plain", "secretRead"} \/ (shape = "doubtfulShell" /\ s = "clean")
<1>1. shape \in {"persistence", "shellCombo"} =>
        SinkSeverities(shape, Tainted(s)) = {severityFor(Tainted(s))}
  BY DEF SinkSeverities
<1>2. shape = "adminCli" => SinkSeverities(shape, Tainted(s)) = {"deny"}
  BY DEF SinkSeverities
<1>3. severityFor(Tainted(s)) \in {"deny", "approval_required"}
  BY DEF severityFor
<1>4. s = "clean" \/ Tainted(s)
  BY DEF Snapshots, Tainted
<1> QED
  BY <1>1, <1>2, <1>3, <1>4 DEF decidePreToolUse, Shapes, Outright

\* pre-tool-decision.ts: a missing or unreadable snapshot never relaxes the
\* verdict; what any snapshot blocks, null blocks at least as strictly.
THEOREM UnreadableIsStrictest ==
  ASSUME NEW shape \in Shapes, NEW s \in Snapshots
  PROVE  /\ decidePreToolUse(shape, s) = "deny" => decidePreToolUse(shape, "null") = "deny"
         /\ decidePreToolUse(shape, s) # "allow" => decidePreToolUse(shape, "null") # "allow"
<1> DEFINE sev(v) == SinkSeverities(shape, Tainted(v))
<1>1. Tainted("null")
  BY DEF Tainted
<1>2. CASE shape \in {"persistence", "shellCombo"}
  <2>1. sev("null") = {"deny"}
    BY <1>1, <1>2 DEF SinkSeverities, severityFor
  <2> QED BY <2>1 DEF decidePreToolUse
<1>3. CASE shape \notin {"persistence", "shellCombo"}
  <2>1. sev(s) = sev("null")
    BY <1>3 DEF SinkSeverities
  <2> QED BY <2>1, <1>1 DEF decidePreToolUse
<1> QED
  BY <1>2, <1>3

-----------------------------------------------------------------------------
(***************************************************************************)
(* Type correctness.                                                       *)
(***************************************************************************)
USE DEF Goto, Returns, Fault, store, scan, history

LEMMA TypeInit == Init => TypeOK
  BY ConstantsAssumption DEF Init, TypeOK

\* Every step of PreToolHook keeps the variables in their types.
LEMMA TypeStep == TypeOK /\ [Next]_vars => TypeOK'
<1> SUFFICES ASSUME TypeOK, [Next]_vars PROVE TypeOK'
  OBVIOUS
<1> USE ConstantsAssumption
<1> USE DEF TypeOK
<1>1. ASSUME NEW h \in Hooks, NEW c \in Calls, ReadStdin(h, c) PROVE TypeOK'
  BY <1>1 DEF ReadStdin
<1>2. ASSUME NEW h \in Hooks, NEW c \in Calls, BadInput(h, c) PROVE TypeOK'
  BY <1>2 DEF BadInput, Throw
<1>3. ASSUME NEW h \in Hooks, PolicyThrows(h) PROVE TypeOK'
  BY <1>3 DEF PolicyThrows, Throw
<1>4. ASSUME NEW h \in Hooks, DenyOutright(h) PROVE TypeOK'
  BY <1>4 DEF DenyOutright
<1>5. ASSUME NEW h \in Hooks, NEW s \in Snapshots, Decide(h, s) PROVE TypeOK'
  <2>1. /\ ret' = ret \/ ret' = [ret EXCEPT ![h] = "allow"]
        /\ saw' = saw \/ saw' = [saw EXCEPT ![h] = s]
        /\ pc' = [pc EXCEPT ![h] = "reply"] \/ pc' = [pc EXCEPT ![h] = "list"]
    BY <1>5 DEF Decide
  <2> QED BY <1>5, <2>1 DEF Decide
<1>6. ASSUME NEW h \in Hooks, ListTokens(h) PROVE TypeOK'
  BY <1>6 DEF ListTokens
<1>7. ASSUME NEW h \in Hooks, NEW r \in Hooks, ReadToken(h, r) PROVE TypeOK'
  BY <1>7 DEF ReadToken, AfterRead
<1>8. ASSUME NEW h \in Hooks, ScanEnds(h) PROVE TypeOK'
  BY <1>8 DEF ScanEnds, ReturnsNull
<1>9. ASSUME NEW h \in Hooks, UnlinkToken(h) PROVE TypeOK'
  BY <1>9 DEF UnlinkToken
<1>10. ASSUME NEW h \in Hooks, UnlinkFails(h) PROVE TypeOK'
  BY <1>10 DEF UnlinkFails, ReturnsNull
<1>11. ASSUME NEW h \in Hooks, CollectToken(h) PROVE TypeOK'
  BY <1>11 DEF CollectToken
<1>12. ASSUME NEW h \in Hooks, WritePendingRequest(h) PROVE TypeOK'
  BY <1>12 DEF WritePendingRequest
<1>13. ASSUME NEW h \in Hooks, AppendThrows(h) PROVE TypeOK'
  BY <1>13 DEF AppendThrows, Throw
<1>14. ASSUME NEW h \in Hooks, Append(h) PROVE TypeOK'
  BY <1>14 DEF Append, Status
<1>15. ASSUME NEW h \in Hooks, Reply(h) PROVE TypeOK'
  BY <1>15 DEF Reply
<1>16. ASSUME NEW h \in Hooks, Killed(h) PROVE TypeOK'
  BY <1>16 DEF Killed
<1>17. ASSUME NEW a \in Approvers, NEW r \in Hooks, ReadPendingRequest(a, r) PROVE TypeOK'
  BY <1>17 DEF ReadPendingRequest, At
<1>18. ASSUME NEW a \in Approvers, NEW ttl \in Ttls, WriteApprovedToken(a, ttl) PROVE TypeOK'
  <2> DEFINE Process == [at : {"idle", "approve", "cleanup"},
                         request : Hooks \cup {NoRequest}]
  <2>1. approver[a] \in Process
    OBVIOUS
  <2>2. approver[a].request \in Hooks \cup {NoRequest} /\ clock + ttl \in Nat
    BY <2>1
  <2>3. token' \in [Hooks -> Nat] /\ granted' \in [Hooks -> Nat]
    <3>1. CASE approver[a].request \in Hooks
      BY <1>18, <2>2, <3>1 DEF WriteApprovedToken
    <3>2. CASE approver[a].request \notin Hooks
      <4>1. token' = token /\ granted' = granted
        BY <1>18, <3>2 DEF WriteApprovedToken
      <4> QED BY <4>1
    <3> QED BY <3>1, <3>2
  <2>4. [at |-> "cleanup", request |-> approver[a].request] \in Process
    BY <2>2
  <2>5. approver' \in [Approvers -> Process]
    BY <1>18, <2>4 DEF WriteApprovedToken, At
  <2> QED BY <1>18, <2>3, <2>5 DEF WriteApprovedToken
<1>19. ASSUME NEW a \in Approvers, UnlinkPendingRequest(a) PROVE TypeOK'
  BY <1>19 DEF UnlinkPendingRequest, At
<1>20. CASE Tick
  BY <1>20 DEF Tick
<1>21. CASE UNCHANGED vars
  BY <1>21 DEF vars
<1> QED
  BY <1>1, <1>2, <1>3, <1>4, <1>5, <1>6, <1>7, <1>8, <1>9, <1>10, <1>11,
     <1>12, <1>13, <1>14, <1>15, <1>16, <1>17, <1>18, <1>19, <1>20, <1>21
     DEF Next, Step, Approve

-----------------------------------------------------------------------------
(***************************************************************************)
(* The other parts of IInv, one by one.                                    *)
(***************************************************************************)
\* A hook that has read its input has a call.
LEMMA CallMade ==
  ASSUME TypeOK, HooksOK, NEW h \in Hooks, pc[h] # "idle"
  PROVE  /\ call[h] \in [session : Sessions, shape : Shapes]
         /\ call[h].shape \in Shapes
  BY ConstantsAssumption DEF TypeOK, HooksOK, HookOK

\* canonicalKey tells calls apart.
LEMMA KeyIdentifiesCall ==
  ASSUME NEW c \in [session : Sessions, shape : Shapes],
         NEW d \in [session : Sessions, shape : Shapes],
         canonicalKey(c) = canonicalKey(d)
  PROVE  c = d
<1>1. c.session = d.session /\ c.shape = d.shape
  BY DEF canonicalKey
<1> QED BY <1>1

\* What holds of a hook is kept by every step.
LEMMA HooksStep == IInv /\ [Next]_vars => HooksOK'
<1> SUFFICES ASSUME IInv, [Next]_vars, NEW g \in Hooks PROVE HookOK(g)'
  BY DEF HooksOK
<1> USE ConstantsAssumption
<1>0. HookOK(g) /\ TypeOK
  BY DEF IInv, HooksOK
<1> USE <1>0 DEF TypeOK, HookOK, MayAnswer, Harmless, Searching, Outright
<1>1. ASSUME NEW h \in Hooks, NEW c \in Calls, ReadStdin(h, c) PROVE HookOK(g)'
  BY <1>1 DEF ReadStdin
<1>2. ASSUME NEW h \in Hooks, NEW c \in Calls, BadInput(h, c) PROVE HookOK(g)'
  BY <1>2 DEF BadInput, Throw
<1>3. ASSUME NEW h \in Hooks, PolicyThrows(h) PROVE HookOK(g)'
  BY <1>3 DEF PolicyThrows, Throw
<1>4. ASSUME NEW h \in Hooks, DenyOutright(h) PROVE HookOK(g)'
  BY <1>4 DEF DenyOutright
<1>5. ASSUME NEW h \in Hooks, NEW s \in Snapshots, Decide(h, s) PROVE HookOK(g)'
  <2> DEFINE allowed == decidePreToolUse(call[h].shape, s) = "allow"
  <2>1. CASE allowed
    <3>1. call[h].shape \in Shapes
      BY <1>5, CallMade DEF Decide, IInv
    <3>2. \/ call[h].shape \in {"plain", "secretRead"}
          \/ call[h].shape = "doubtfulShell" /\ s = "clean"
      BY <1>5, <2>1, <3>1, AllowedIsHarmless DEF Decide
    <3> HIDE DEF allowed
    <3> QED BY <1>5, <3>2 DEF Decide, IInv, HooksOK
  <2>2. CASE ~allowed
    BY <1>5, <2>2 DEF Decide
  <2> QED BY <2>1, <2>2
<1>6. ASSUME NEW h \in Hooks, ListTokens(h) PROVE HookOK(g)'
  BY <1>6 DEF ListTokens
<1>7. ASSUME NEW h \in Hooks, NEW r \in Hooks, ReadToken(h, r) PROVE HookOK(g)'
  BY <1>7 DEF ReadToken, AfterRead
<1>8. ASSUME NEW h \in Hooks, ScanEnds(h) PROVE HookOK(g)'
  BY <1>8 DEF ScanEnds, ReturnsNull
<1>9. ASSUME NEW h \in Hooks, UnlinkToken(h) PROVE HookOK(g)'
  <2>1. file[h] \in Hooks
    BY <1>9 DEF UnlinkToken, IInv, FilesOK, FileOK
  <2> QED BY <1>9, <2>1 DEF UnlinkToken
<1>10. ASSUME NEW h \in Hooks, UnlinkFails(h) PROVE HookOK(g)'
  BY <1>10 DEF UnlinkFails, ReturnsNull
<1>11. ASSUME NEW h \in Hooks, CollectToken(h) PROVE HookOK(g)'
  BY <1>11 DEF CollectToken
<1>12. ASSUME NEW h \in Hooks, WritePendingRequest(h) PROVE HookOK(g)'
  BY <1>12 DEF WritePendingRequest
<1>13. ASSUME NEW h \in Hooks, AppendThrows(h) PROVE HookOK(g)'
  BY <1>13 DEF AppendThrows, Throw
<1>14. ASSUME NEW h \in Hooks, Append(h) PROVE HookOK(g)'
  BY <1>14 DEF Append, Status
<1>15. ASSUME NEW h \in Hooks, Reply(h) PROVE HookOK(g)'
  BY <1>15 DEF Reply
<1>16. ASSUME NEW h \in Hooks, Killed(h) PROVE HookOK(g)'
  BY <1>16 DEF Killed
<1>17. ASSUME NEW a \in Approvers, NEW r \in Hooks, ReadPendingRequest(a, r) PROVE HookOK(g)'
  BY <1>17 DEF ReadPendingRequest, At
<1>18. ASSUME NEW a \in Approvers, NEW ttl \in Ttls, WriteApprovedToken(a, ttl) PROVE HookOK(g)'
  BY <1>18 DEF WriteApprovedToken, At
<1>19. ASSUME NEW a \in Approvers, UnlinkPendingRequest(a) PROVE HookOK(g)'
  BY <1>19 DEF UnlinkPendingRequest, At
<1>20. CASE Tick
  BY <1>20 DEF Tick
<1>21. CASE UNCHANGED vars
  BY <1>21 DEF vars
<1> QED
  BY <1>1, <1>2, <1>3, <1>4, <1>5, <1>6, <1>7, <1>8, <1>9, <1>10, <1>11,
     <1>12, <1>13, <1>14, <1>15, <1>16, <1>17, <1>18, <1>19, <1>20, <1>21
     DEF Next, Step, Approve

\* So is what holds of the file it is about to unlink.
LEMMA FilesStep == IInv /\ [Next]_vars => FilesOK'
<1> SUFFICES ASSUME IInv, [Next]_vars, NEW g \in Hooks PROVE FileOK(g)'
  BY DEF FilesOK
<1> USE ConstantsAssumption
<1>0. FileOK(g) /\ HookOK(g) /\ TypeOK /\ RequestsOK /\ ApproversOK
  BY DEF IInv, FilesOK, HooksOK
<1> USE <1>0 DEF TypeOK, FileOK, HookOK, RequestsOK, RequestOK, ApproversOK, ApproverOK,
                 Searching, Outright
<1>1. ASSUME NEW h \in Hooks, NEW c \in Calls, ReadStdin(h, c) PROVE FileOK(g)'
  <2>1. consumed[g] # h /\ call[h] = NoCall
    BY <1>1 DEF ReadStdin, IInv, HooksOK
  <2>2. pc[g] \in {"unlink", "collect"} => file[g] # h
    BY <1>1 DEF ReadStdin
  <2> QED BY <1>1, <2>1, <2>2 DEF ReadStdin
<1>2. ASSUME NEW h \in Hooks, NEW c \in Calls, BadInput(h, c) PROVE FileOK(g)'
  <2>1. consumed[g] # h /\ call[h] = NoCall
    BY <1>2 DEF BadInput, IInv, HooksOK
  <2>2. pc[g] \in {"unlink", "collect"} => file[g] # h
    BY <1>2 DEF BadInput
  <2> QED BY <1>2, <2>1, <2>2 DEF BadInput, Throw
<1>3. ASSUME NEW h \in Hooks, PolicyThrows(h) PROVE FileOK(g)'
  BY <1>3 DEF PolicyThrows, Throw
<1>4. ASSUME NEW h \in Hooks, DenyOutright(h) PROVE FileOK(g)'
  BY <1>4 DEF DenyOutright
<1>5. ASSUME NEW h \in Hooks, NEW s \in Snapshots, Decide(h, s) PROVE FileOK(g)'
  BY <1>5 DEF Decide
<1>6. ASSUME NEW h \in Hooks, ListTokens(h) PROVE FileOK(g)'
  BY <1>6 DEF ListTokens
<1>7. ASSUME NEW h \in Hooks, NEW r \in Hooks, ReadToken(h, r) PROVE FileOK(g)'
  <2>1. CASE AfterRead(h, r) = "scan"
    BY <1>7, <2>1 DEF ReadToken
  <2>2. CASE AfterRead(h, r) = "unlink"
    <3>1. token[r] # 0 /\ Matches(h, r)
      BY <2>2 DEF AfterRead
    <3>2. call[r] = call[h]
      BY <1>7, <3>1, CallMade, KeyIdentifiesCall DEF ReadToken, Matches, IInv
    <3> QED BY <1>7, <2>2, <3>1, <3>2 DEF ReadToken, Matches
  <2>3. CASE AfterRead(h, r) = "collect"
    <3>1. token[r] # 0 /\ token[r] <= now[h]
      BY <2>3 DEF AfterRead
    <3> QED BY <1>7, <2>3, <3>1 DEF ReadToken
  <2> QED BY <2>1, <2>2, <2>3 DEF AfterRead
<1>8. ASSUME NEW h \in Hooks, ScanEnds(h) PROVE FileOK(g)'
  BY <1>8 DEF ScanEnds, ReturnsNull
<1>9. ASSUME NEW h \in Hooks, UnlinkToken(h) PROVE FileOK(g)'
  BY <1>9 DEF UnlinkToken
<1>10. ASSUME NEW h \in Hooks, UnlinkFails(h) PROVE FileOK(g)'
  BY <1>10 DEF UnlinkFails, ReturnsNull
<1>11. ASSUME NEW h \in Hooks, CollectToken(h) PROVE FileOK(g)'
  BY <1>11 DEF CollectToken
<1>12. ASSUME NEW h \in Hooks, WritePendingRequest(h) PROVE FileOK(g)'
  BY <1>12 DEF WritePendingRequest
<1>13. ASSUME NEW h \in Hooks, AppendThrows(h) PROVE FileOK(g)'
  BY <1>13 DEF AppendThrows, Throw
<1>14. ASSUME NEW h \in Hooks, Append(h) PROVE FileOK(g)'
  BY <1>14 DEF Append, Status
<1>15. ASSUME NEW h \in Hooks, Reply(h) PROVE FileOK(g)'
  BY <1>15 DEF Reply
<1>16. ASSUME NEW h \in Hooks, Killed(h) PROVE FileOK(g)'
  BY <1>16 DEF Killed
<1>17. ASSUME NEW a \in Approvers, NEW r \in Hooks, ReadPendingRequest(a, r) PROVE FileOK(g)'
  BY <1>17 DEF ReadPendingRequest, At
<1>18. ASSUME NEW a \in Approvers, NEW ttl \in Ttls, WriteApprovedToken(a, ttl) PROVE FileOK(g)'
  BY <1>18 DEF WriteApprovedToken, At
<1>19. ASSUME NEW a \in Approvers, UnlinkPendingRequest(a) PROVE FileOK(g)'
  BY <1>19 DEF UnlinkPendingRequest, At
<1>20. CASE Tick
  BY <1>20 DEF Tick
<1>21. CASE UNCHANGED vars
  BY <1>21 DEF vars
<1> QED
  BY <1>1, <1>2, <1>3, <1>4, <1>5, <1>6, <1>7, <1>8, <1>9, <1>10, <1>11,
     <1>12, <1>13, <1>14, <1>15, <1>16, <1>17, <1>18, <1>19, <1>20, <1>21
     DEF Next, Step, Approve

\* Requests and tokens are about calls that were made.
LEMMA RequestsStep == IInv /\ [Next]_vars => RequestsOK'
<1> SUFFICES ASSUME IInv, [Next]_vars, NEW q \in Hooks PROVE RequestOK(q)'
  BY DEF RequestsOK
<1> USE ConstantsAssumption
<1>0. RequestOK(q) /\ TypeOK /\ ApproversOK
  BY DEF IInv, RequestsOK
<1> USE <1>0 DEF TypeOK, RequestOK, ApproversOK, ApproverOK
<1>1. ASSUME NEW h \in Hooks, NEW c \in Calls, ReadStdin(h, c) PROVE RequestOK(q)'
  BY <1>1 DEF ReadStdin
<1>2. ASSUME NEW h \in Hooks, NEW c \in Calls, BadInput(h, c) PROVE RequestOK(q)'
  BY <1>2 DEF BadInput, Throw
<1>3. ASSUME NEW h \in Hooks, PolicyThrows(h) PROVE RequestOK(q)'
  BY <1>3 DEF PolicyThrows, Throw
<1>4. ASSUME NEW h \in Hooks, DenyOutright(h) PROVE RequestOK(q)'
  BY <1>4 DEF DenyOutright
<1>5. ASSUME NEW h \in Hooks, NEW s \in Snapshots, Decide(h, s) PROVE RequestOK(q)'
  BY <1>5 DEF Decide
<1>6. ASSUME NEW h \in Hooks, ListTokens(h) PROVE RequestOK(q)'
  BY <1>6 DEF ListTokens
<1>7. ASSUME NEW h \in Hooks, NEW r \in Hooks, ReadToken(h, r) PROVE RequestOK(q)'
  BY <1>7 DEF ReadToken, AfterRead
<1>8. ASSUME NEW h \in Hooks, ScanEnds(h) PROVE RequestOK(q)'
  BY <1>8 DEF ScanEnds, ReturnsNull
<1>9. ASSUME NEW h \in Hooks, UnlinkToken(h) PROVE RequestOK(q)'
  BY <1>9 DEF UnlinkToken
<1>10. ASSUME NEW h \in Hooks, UnlinkFails(h) PROVE RequestOK(q)'
  BY <1>10 DEF UnlinkFails, ReturnsNull
<1>11. ASSUME NEW h \in Hooks, CollectToken(h) PROVE RequestOK(q)'
  BY <1>11 DEF CollectToken
<1>12. ASSUME NEW h \in Hooks, WritePendingRequest(h) PROVE RequestOK(q)'
  BY <1>12 DEF WritePendingRequest
<1>13. ASSUME NEW h \in Hooks, AppendThrows(h) PROVE RequestOK(q)'
  BY <1>13 DEF AppendThrows, Throw
<1>14. ASSUME NEW h \in Hooks, Append(h) PROVE RequestOK(q)'
  BY <1>14 DEF Append, Status
<1>15. ASSUME NEW h \in Hooks, Reply(h) PROVE RequestOK(q)'
  BY <1>15 DEF Reply
<1>16. ASSUME NEW h \in Hooks, Killed(h) PROVE RequestOK(q)'
  BY <1>16 DEF Killed
<1>17. ASSUME NEW a \in Approvers, NEW r \in Hooks, ReadPendingRequest(a, r) PROVE RequestOK(q)'
  BY <1>17 DEF ReadPendingRequest, At
<1>18. ASSUME NEW a \in Approvers, NEW ttl \in Ttls, WriteApprovedToken(a, ttl) PROVE RequestOK(q)'
  BY <1>18 DEF WriteApprovedToken, At
<1>19. ASSUME NEW a \in Approvers, UnlinkPendingRequest(a) PROVE RequestOK(q)'
  BY <1>19 DEF UnlinkPendingRequest, At
<1>20. CASE Tick
  BY <1>20 DEF Tick
<1>21. CASE UNCHANGED vars
  BY <1>21 DEF vars
<1> QED
  BY <1>1, <1>2, <1>3, <1>4, <1>5, <1>6, <1>7, <1>8, <1>9, <1>10, <1>11,
     <1>12, <1>13, <1>14, <1>15, <1>16, <1>17, <1>18, <1>19, <1>20, <1>21
     DEF Next, Step, Approve

\* So are the requests that are being approved.
LEMMA ApproversStep == IInv /\ [Next]_vars => ApproversOK'
<1> SUFFICES ASSUME IInv, [Next]_vars, NEW b \in Approvers PROVE ApproverOK(b)'
  BY DEF ApproversOK
<1> USE ConstantsAssumption
<1>0. ApproverOK(b) /\ TypeOK /\ RequestsOK
  BY DEF IInv, ApproversOK
<1> USE <1>0 DEF TypeOK, RequestsOK, RequestOK, ApproverOK
<1>1. ASSUME NEW h \in Hooks, NEW c \in Calls, ReadStdin(h, c) PROVE ApproverOK(b)'
  BY <1>1 DEF ReadStdin
<1>2. ASSUME NEW h \in Hooks, NEW c \in Calls, BadInput(h, c) PROVE ApproverOK(b)'
  BY <1>2 DEF BadInput, Throw
<1>3. ASSUME NEW h \in Hooks, PolicyThrows(h) PROVE ApproverOK(b)'
  BY <1>3 DEF PolicyThrows, Throw
<1>4. ASSUME NEW h \in Hooks, DenyOutright(h) PROVE ApproverOK(b)'
  BY <1>4 DEF DenyOutright
<1>5. ASSUME NEW h \in Hooks, NEW s \in Snapshots, Decide(h, s) PROVE ApproverOK(b)'
  BY <1>5 DEF Decide
<1>6. ASSUME NEW h \in Hooks, ListTokens(h) PROVE ApproverOK(b)'
  BY <1>6 DEF ListTokens
<1>7. ASSUME NEW h \in Hooks, NEW r \in Hooks, ReadToken(h, r) PROVE ApproverOK(b)'
  BY <1>7 DEF ReadToken, AfterRead
<1>8. ASSUME NEW h \in Hooks, ScanEnds(h) PROVE ApproverOK(b)'
  BY <1>8 DEF ScanEnds, ReturnsNull
<1>9. ASSUME NEW h \in Hooks, UnlinkToken(h) PROVE ApproverOK(b)'
  BY <1>9 DEF UnlinkToken
<1>10. ASSUME NEW h \in Hooks, UnlinkFails(h) PROVE ApproverOK(b)'
  BY <1>10 DEF UnlinkFails, ReturnsNull
<1>11. ASSUME NEW h \in Hooks, CollectToken(h) PROVE ApproverOK(b)'
  BY <1>11 DEF CollectToken
<1>12. ASSUME NEW h \in Hooks, WritePendingRequest(h) PROVE ApproverOK(b)'
  BY <1>12 DEF WritePendingRequest
<1>13. ASSUME NEW h \in Hooks, AppendThrows(h) PROVE ApproverOK(b)'
  BY <1>13 DEF AppendThrows, Throw
<1>14. ASSUME NEW h \in Hooks, Append(h) PROVE ApproverOK(b)'
  BY <1>14 DEF Append, Status
<1>15. ASSUME NEW h \in Hooks, Reply(h) PROVE ApproverOK(b)'
  BY <1>15 DEF Reply
<1>16. ASSUME NEW h \in Hooks, Killed(h) PROVE ApproverOK(b)'
  BY <1>16 DEF Killed
<1>17. ASSUME NEW a \in Approvers, NEW r \in Hooks, ReadPendingRequest(a, r) PROVE ApproverOK(b)'
  BY <1>17 DEF ReadPendingRequest, At
<1>18. ASSUME NEW a \in Approvers, NEW ttl \in Ttls, WriteApprovedToken(a, ttl) PROVE ApproverOK(b)'
  BY <1>18 DEF WriteApprovedToken, At
<1>19. ASSUME NEW a \in Approvers, UnlinkPendingRequest(a) PROVE ApproverOK(b)'
  BY <1>19 DEF UnlinkPendingRequest, At
<1>20. CASE Tick
  BY <1>20 DEF Tick
<1>21. CASE UNCHANGED vars
  BY <1>21 DEF vars
<1> QED
  BY <1>1, <1>2, <1>3, <1>4, <1>5, <1>6, <1>7, <1>8, <1>9, <1>10, <1>11,
     <1>12, <1>13, <1>14, <1>15, <1>16, <1>17, <1>18, <1>19, <1>20, <1>21
     DEF Next, Step, Approve

\* A token that is taken was in the directory, and taking it adds one taker.
LEMMA CountsStep == IInv /\ [Next]_vars => CountsOK'
<1> SUFFICES ASSUME IInv, [Next]_vars, NEW r \in Hooks PROVE CountOK(r)'
  BY DEF CountsOK
<1> USE ConstantsAssumption
<1>0. CountOK(r) /\ TypeOK
  BY DEF IInv, CountsOK
<1>a. IsFiniteSet(Takers(r)) /\ Cardinality(Takers(r)) \in Nat
  <2>1. Takers(r) \subseteq Hooks
    BY DEF Takers
  <2> QED BY <2>1, FS_Subset, FS_CardinalityType
<1>1. ASSUME UNCHANGED <<token, consumed, granted>> PROVE CountOK(r)'
  BY <1>0, <1>1 DEF CountOK, Takers
<1>2. ASSUME NEW h \in Hooks, UnlinkToken(h) PROVE CountOK(r)'
  <2>1. file[h] \in Hooks /\ consumed[h] = NoRequest
    BY <1>2 DEF UnlinkToken, IInv, FilesOK, FileOK, HooksOK, HookOK, Searching
  <2>2. CASE r = file[h]
    <3>1. Takers(r)' = Takers(r) \cup {h} /\ h \notin Takers(r)
      BY <1>0, <1>2, <2>1, <2>2 DEF UnlinkToken, Takers, TypeOK
    <3>2. Cardinality(Takers(r) \cup {h}) = Cardinality(Takers(r)) + 1
      BY <1>a, <3>1, FS_AddElement
    <3>3. token[r] # 0 /\ token'[r] = 0 /\ granted'[r] = granted[r]
      BY <1>0, <1>2, <2>2 DEF UnlinkToken, TypeOK
    <3>4. Cardinality(Takers(r)') = Cardinality(Takers(r)) + 1
      BY <3>1, <3>2
    <3> QED BY <1>0, <1>a, <3>3, <3>4 DEF CountOK, TypeOK
  <2>3. CASE r # file[h]
    <3>1. Takers(r)' = Takers(r)
      BY <1>0, <1>2, <2>1, <2>3 DEF UnlinkToken, Takers, TypeOK
    <3> QED BY <1>0, <1>2, <2>3, <3>1 DEF CountOK, UnlinkToken, TypeOK
  <2> QED BY <2>2, <2>3
<1>3. ASSUME NEW h \in Hooks, CollectToken(h) PROVE CountOK(r)'
  <2>1. Takers(r)' = Takers(r) /\ granted' = granted /\ (token[r] = 0 => token'[r] = 0)
    BY <1>0, <1>3 DEF CollectToken, Takers, TypeOK
  <2> QED BY <1>0, <1>a, <2>1 DEF CountOK, TypeOK
<1>4. ASSUME NEW a \in Approvers, NEW ttl \in Ttls, WriteApprovedToken(a, ttl)
      PROVE  CountOK(r)'
  <2>1. Takers(r)' = Takers(r)
    BY <1>4 DEF WriteApprovedToken, Takers
  <2>2. CASE r = approver[a].request
    <3>1. granted'[r] = granted[r] + 1
      BY <1>0, <1>4, <2>2 DEF WriteApprovedToken, TypeOK
    <3>2. Cardinality(Takers(r)) <= granted[r] /\ granted[r] \in Nat
      BY <1>0, <1>a DEF CountOK, TypeOK
    <3> QED BY <1>a, <2>1, <3>1, <3>2 DEF CountOK
  <2>3. CASE r # approver[a].request
    BY <1>0, <1>4, <2>1, <2>3 DEF CountOK, WriteApprovedToken, TypeOK
  <2> QED BY <2>2, <2>3
<1>5. \/ UNCHANGED <<token, consumed, granted>>
      \/ \E h \in Hooks : UnlinkToken(h) \/ CollectToken(h)
      \/ \E a \in Approvers : \E ttl \in Ttls : WriteApprovedToken(a, ttl)
  BY DEF Next, Step, Approve, ReadStdin, BadInput, PolicyThrows, DenyOutright, Decide,
         ListTokens, ReadToken, ScanEnds, UnlinkFails, WritePendingRequest, AppendThrows,
         Append, Reply, Killed, ReadPendingRequest, UnlinkPendingRequest, Tick, vars
<1> QED
  BY <1>1, <1>2, <1>3, <1>4, <1>5

LEMMA InvInit == Init => IInv
<1> SUFFICES ASSUME Init PROVE IInv
  OBVIOUS
<1>1. TypeOK
  BY TypeInit
<1>2. HooksOK /\ FilesOK /\ RequestsOK /\ ApproversOK
  BY ConstantsAssumption DEF Init, HooksOK, HookOK, MayAnswer, Searching, FilesOK, FileOK,
     RequestsOK, RequestOK, ApproversOK, ApproverOK
<1>3. CountsOK
  <2> SUFFICES ASSUME NEW r \in Hooks PROVE CountOK(r)
    BY DEF CountsOK
  <2>1. Takers(r) = {}
    BY ConstantsAssumption DEF Init, Takers
  <2> QED BY <2>1, FS_EmptySet DEF Init, CountOK
<1> QED BY <1>1, <1>2, <1>3 DEF IInv

LEMMA InvStep == IInv /\ [Next]_vars => IInv'
  BY TypeStep, HooksStep, FilesStep, RequestsStep, ApproversStep, CountsStep DEF IInv

LEMMA Invariance == Spec => []IInv
  BY InvInit, InvStep, PTL DEF Spec

-----------------------------------------------------------------------------
(***************************************************************************)
(* The theorems.                                                           *)
(***************************************************************************)
\* Every variable of PreToolHook keeps its type.
THEOREM TypeCorrect == Spec => []TypeOK
<1>1. IInv => TypeOK
  BY DEF IInv
<1> QED BY <1>1, Invariance, PTL

\* However many hooks race, the calls that a request's approvals let through
\* are at most the approvals a human gave.
THEOREM ApprovalsAreSingleUse == Spec => []SingleUse
<1>1. ASSUME IInv PROVE SingleUse
  <2> SUFFICES ASSUME NEW r \in Hooks
               PROVE  Cardinality(Takers(r)) <= granted[r]
    BY DEF SingleUse, Takers
  <2>1. Takers(r) \subseteq Hooks
    BY DEF Takers
  <2>2. Cardinality(Takers(r)) \in Nat
    BY <2>1, ConstantsAssumption, FS_Subset, FS_CardinalityType
  <2> QED BY <1>1, <2>2 DEF IInv, CountsOK, CountOK, TypeOK
<1> QED BY <1>1, Invariance, PTL

\* An approval covers only the session and the tool input it was asked for.
THEOREM ApprovalsAreScoped == Spec => []ApprovalScope
<1>1. IInv => ApprovalScope
  BY DEF IInv, FilesOK, FileOK, ApprovalScope
<1> QED BY <1>1, Invariance, PTL

\* Nothing dangerous goes ahead without an approval.
THEOREM DangerNeedsApproval == Spec => []NothingDangerousRuns
<1>1. IInv => NothingDangerousRuns
  BY DEF IInv, HooksOK, HookOK, MayAnswer, Harmless, NothingDangerousRuns
<1> QED BY <1>1, Invariance, PTL

\* The audit log has the event before the agent has the answer.
THEOREM AnswersAreAudited == Spec => []AnswersAudited
<1>1. IInv => AnswersAudited
  BY DEF IInv, HooksOK, HookOK, MayAnswer, AnswersAudited
<1> QED BY <1>1, Invariance, PTL

\* A valid approval of a request approved once goes away only by being used.
THEOREM FreshApprovalsAreKept == Spec => FreshApprovalKept
<1> DEFINE Kept ==
      \A r \in Hooks : token[r] > clock /\ granted[r] = 1 /\ token'[r] = 0 =>
        \E h \in Hooks : consumed[h] = NoRequest /\ consumed'[h] = r
<1>1. ASSUME IInv, [Next]_vars PROVE [Kept]_vars
  <2> SUFFICES ASSUME NEW r \in Hooks, token[r] > clock, granted[r] = 1, token'[r] = 0
               PROVE  \E h \in Hooks : consumed[h] = NoRequest /\ consumed'[h] = r
    OBVIOUS
  <2> USE ConstantsAssumption
  <2>1. TypeOK
    BY <1>1 DEF IInv
  <2>2. ASSUME NEW h \in Hooks, UnlinkToken(h)
        PROVE  consumed[h] = NoRequest /\ consumed'[h] = r
    <3>1. consumed[h] = NoRequest
      BY <1>1, <2>2 DEF UnlinkToken, IInv, HooksOK, HookOK, Searching
    <3>2. r = file[h]
      BY <2>1, <2>2 DEF UnlinkToken, TypeOK
    <3> QED BY <2>1, <2>2, <3>1, <3>2 DEF UnlinkToken, TypeOK
  <2>3. ASSUME NEW h \in Hooks, CollectToken(h) PROVE FALSE
    <3>1. r = file[h]
      BY <2>1, <2>3 DEF CollectToken, TypeOK
    <3>2. token[r] <= now[h] /\ now[h] <= clock
      BY <1>1, <2>1, <2>3, <3>1 DEF CollectToken, IInv, FilesOK, FileOK, TypeOK
    <3> QED BY <2>1, <3>2 DEF TypeOK
  <2>4. ASSUME NEW a \in Approvers, NEW ttl \in Ttls, WriteApprovedToken(a, ttl)
        PROVE  FALSE
    BY <2>1, <2>4 DEF WriteApprovedToken, TypeOK
  <2>5. \/ token' = token
        \/ \E h \in Hooks : UnlinkToken(h) \/ CollectToken(h)
        \/ \E a \in Approvers : \E ttl \in Ttls : WriteApprovedToken(a, ttl)
    BY <1>1 DEF Next, Step, Approve, ReadStdin, BadInput, PolicyThrows, DenyOutright,
       Decide, ListTokens, ReadToken, ScanEnds, UnlinkFails, WritePendingRequest,
       AppendThrows, Append, Reply, Killed, ReadPendingRequest, UnlinkPendingRequest,
       Tick, vars
  <2>6. token' # token
    BY <2>1 DEF TypeOK
  <2> QED BY <2>2, <2>3, <2>4, <2>5, <2>6
<1>2. [][Kept]_vars => FreshApprovalKept
  BY PTL DEF FreshApprovalKept
<1> QED BY <1>1, <1>2, Invariance, PTL DEF Spec
=============================================================================
