---------------------------- MODULE RelayDaemon ----------------------------
(***************************************************************************)
(* The root-owned relay of packages/core/src/relay: hooks send a copy of   *)
(* every audit event over a Unix socket (client.ts), the daemon chains it  *)
(* into its own append-only log (daemon.ts) and periodically seals the tip *)
(* and publishes the seal to witnesses (auto-seal.ts).  launchd restarts   *)
(* the daemon when it dies; it then recovers its state from the files.     *)
(*                                                                         *)
(* Abstractions: an event stands for its _relay_hash (it is sent once, and *)
(* received_at makes hashes distinct); a seal is its tip and event count   *)
(* (the signature is not modelled); one daemon runs at a time.  The relay  *)
(* log is the sequence of the writes to it.  A write is whole, cut (short, *)
(* so that it does not parse and has no newline) or glued: complete, but   *)
(* on the line that a cut one has begun.  A line of the seals log is whole,*)
(* torn (it ends the log without a newline) or glued: a torn one that a    *)
(* later seal continued.                                                   *)
(***************************************************************************)
EXTENDS Integers, Sequences, FiniteSets

CONSTANTS
  Events,      \* the audit events, each sent by a hook process of its own
  NoTip,       \* chainTip null
  Endpoints,   \* witness endpoints; {} when witness publishing is disabled
  Quorum,      \* witness.quorum
  MinEvents,   \* auto_seal.min_events_between_seals
  MaxDowns,    \* bound: crashes and stops of the daemon
  MaxBeats,    \* bound: heartbeats written by the timer
  MaxFaults    \* bound: reads and writes that fail or are cut short

ASSUME RelayAssumption ==
  /\ NoTip \notin Events /\ IsFiniteSet(Endpoints)
  /\ Quorum \in Nat \ {0} /\ MinEvents \in Nat
  /\ MaxDowns \in Nat /\ MaxBeats \in Nat /\ MaxFaults \in Nat

VARIABLES
  log,        \* the writes to the relay log
  freshLog,   \* history: Len(log) at each start that could not read the log
  seals,      \* the lines of the seals log
  freshSeals, \* history: Len(seals) at each start that could not read them
  witnesses,  \* the witness records
  socketFile, \* does the socket file exist?
  up,         \* is the daemon running?
  state,      \* its RelayDaemonState, autoSealInProgress and the cycle's seal
  inbox,      \* events in the daemon's socket buffers
  client,     \* how far the hook that sends each event is
  downs, beats, faults  \* counters for the bounds

files == <<log, freshLog, seals, freshSeals, witnesses>>
counters == <<downs, beats, faults>>
vars == <<files, socketFile, up, state, inbox, client, counters>>

Tips == Events \cup {NoTip}
Forms == {"whole", "cut", "glued"}
\* A write that cannot be read keeps what it was about.
Line == [type : {"event", "heartbeat"}, id : Tips, prev : Tips, form : Forms]
Seal == [tip : Tips, count : Nat]
\* at: history, the writes to the relay log when the seal was made.
SealLine == [kind : {"whole", "torn", "glued"}, seal : Seal, at : Nat]
State == [chainTip : Tips, eventCount : Nat, lastSealEventCount : Nat,
          totalSeals : Nat, autoSealInProgress : BOOLEAN, seal : Seal]

NoSeal == [tip |-> NoTip, count |-> 0]
Heartbeat_ == [type |-> "heartbeat", id |-> NoTip, prev |-> NoTip, form |-> "whole"]

\* The writes of events, and the event lines that can be read.
WrittenAt == {i \in DOMAIN log : log[i].type = "event"}
EventAt == {i \in WrittenAt : log[i].form = "whole"}

CutAtEnd == log # <<>> /\ log[Len(log)].form = "cut"

\* A write that is complete continues the line of a cut one before it.
AppendLine(l, cut) ==
  log' = Append(log, [l EXCEPT !.form = IF cut THEN "cut"
                                        ELSE IF CutAtEnd THEN "glued" ELSE "whole"])

Fault(n) == faults + n <= MaxFaults /\ faults' = faults + n

\* writeHeartbeat, in a handler with n faults of its own: the failure of its
\* write, in full or in part, is ignored.
Beat(n) ==
  \/ AppendLine(Heartbeat_, FALSE) /\ Fault(n)
  \/ AppendLine(Heartbeat_, TRUE) /\ Fault(n + 1)
  \/ UNCHANGED log /\ Fault(n + 1)

SealsTorn == seals # <<>> /\ seals[Len(seals)].kind = "torn"
SealLines(kind, seal) ==
  LET line == [kind |-> kind, seal |-> seal, at |-> Len(log)]
  IN IF SealsTorn THEN [seals EXCEPT ![Len(seals)] = line] ELSE Append(seals, line)

-----------------------------------------------------------------------------
Init ==
  /\ log = <<>> /\ seals = <<>> /\ witnesses = <<>> /\ freshLog = {} /\ freshSeals = {}
  /\ socketFile = FALSE /\ up = FALSE
  /\ state = [chainTip |-> NoTip, eventCount |-> 0, lastSealEventCount |-> 0,
              totalSeals |-> 0, autoSealInProgress |-> FALSE, seal |-> NoSeal]
  /\ inbox = {} /\ client = [e \in Events |-> "new"]
  /\ downs = 0 /\ beats = 0 /\ faults = 0

\* Mutant: heartbeats are counted.
RecoveredCountAll == Len(log)

\* init: the last parseable event is the tip, heartbeats and corrupt lines
\* are skipped.
RecoveredTip ==
  IF EventAt = {} THEN NoTip ELSE log[CHOOSE i \in EventAt : \A j \in EventAt : j <= i].id
RecoveredCount == Cardinality(EventAt)

\* The last line, if it can be parsed: after a seal that was cut short, or that
\* continued such a line, the daemon finds no seal.
readLastSeal ==
  IF seals # <<>> /\ seals[Len(seals)].kind = "whole" THEN seals[Len(seals)].seal ELSE NoSeal

\* start: recover the chain and the seals, replace the socket, write the first
\* heartbeat.  A log that cannot be read is taken for an empty one, seals that
\* cannot be read for none.
Start ==
  /\ ~up
  /\ up' = TRUE /\ socketFile' = TRUE
  /\ \E logRead, sealsRead \in BOOLEAN :
       /\ ~logRead => log # <<>>
       /\ ~sealsRead => seals # <<>>
       /\ state' = [chainTip |-> IF logRead THEN RecoveredTip ELSE NoTip,
                    eventCount |-> IF logRead THEN RecoveredCount ELSE 0,
                    lastSealEventCount |-> IF sealsRead THEN readLastSeal.count ELSE 0,
                    totalSeals |-> IF sealsRead THEN Len(seals) ELSE 0,
                    autoSealInProgress |-> FALSE, seal |-> NoSeal]
       /\ freshLog' = freshLog \cup IF logRead THEN {} ELSE {Len(log)}
       /\ freshSeals' = freshSeals \cup IF sealsRead THEN {} ELSE {Len(seals)}
       /\ Beat((IF logRead THEN 0 ELSE 1) + (IF sealsRead THEN 0 ELSE 1))
  /\ UNCHANGED <<seals, witnesses, inbox, client, downs, beats>>

\* stop: a last heartbeat; the connections are served, the socket removed.
\* An auto-seal cycle that waits for its witnesses is abandoned.
Stop ==
  /\ up /\ inbox = {} /\ downs < MaxDowns
  /\ downs' = downs + 1
  /\ up' = FALSE /\ socketFile' = FALSE
  /\ Beat(0)
  /\ UNCHANGED <<freshLog, seals, freshSeals, witnesses, state, inbox, client, beats>>

\* The daemon dies between two handlers; what is in its buffers is lost and
\* the socket file stays behind.
Crash ==
  /\ up /\ downs < MaxDowns
  /\ downs' = downs + 1
  /\ up' = FALSE /\ inbox' = {}
  /\ UNCHANGED <<files, socketFile, state, client, beats, faults>>

WriteHeartbeat ==
  /\ up /\ beats < MaxBeats
  /\ beats' = beats + 1
  /\ Beat(0)
  /\ UNCHANGED <<freshLog, seals, freshSeals, witnesses, socketFile, up, state, inbox, client,
                 downs>>

-----------------------------------------------------------------------------
(***************************************************************************)
(* sendToRelayAsync.                                                       *)
(***************************************************************************)
To(e, what) == client' = [client EXCEPT ![e] = what]

\* No socket file: nothing is sent or recorded.  A socket nobody listens on:
\* the error is recorded in the divergence marker.
Send(e) ==
  /\ client[e] = "new"
  /\ \/ ~socketFile /\ To(e, "silent") /\ UNCHANGED inbox
     \/ socketFile /\ ~up /\ To(e, "recorded") /\ UNCHANGED inbox
     \/ socketFile /\ up /\ To(e, "sent") /\ inbox' = inbox \cup {e}
  /\ UNCHANGED <<files, socketFile, up, state, counters>>

\* RELAY_TIMEOUT_MS passes before the hook learns that its write completed;
\* the daemon may have the message all the same.
SendTimeout(e) ==
  /\ client[e] = "new" /\ socketFile
  /\ To(e, "recorded")
  /\ \/ UNCHANGED inbox
     \/ up /\ inbox' = inbox \cup {e}
  /\ UNCHANGED <<files, socketFile, up, state, counters>>

\* The response arrives within the grace period, or the connection breaks.
ReadResponse(e) ==
  /\ \/ client[e] = "ok" /\ To(e, "done")
     \/ client[e] = "rejected" /\ To(e, "recorded")
     \/ client[e] = "sent" /\ e \notin inbox /\ To(e, "recorded")
  /\ UNCHANGED <<files, socketFile, up, state, inbox, counters>>

\* The grace period ends first: the hook goes on and records nothing.
GiveUp(e) ==
  /\ client[e] \in {"sent", "ok", "rejected"}
  /\ To(e, "silent")
  /\ UNCHANGED <<files, socketFile, up, state, inbox, counters>>

-----------------------------------------------------------------------------
(***************************************************************************)
(* processEvent, for a valid event whose hash matches.                     *)
(***************************************************************************)
EventLine(e) == [type |-> "event", id |-> e, prev |-> state.chainTip, form |-> "whole"]
Reply(e, what) ==
  client' = [client EXCEPT ![e] = IF @ = "sent" THEN what ELSE @]

\* writeSync may write less than the line: its result is not looked at, so the
\* tip and the count move and the hook is told that the event is stored.
ProcessEvent(e) ==
  /\ up /\ e \in inbox
  /\ inbox' = inbox \ {e}
  /\ \/ AppendLine(EventLine(e), FALSE) /\ Fault(0)
     \/ AppendLine(EventLine(e), TRUE) /\ Fault(1)
  /\ state' = [state EXCEPT !.chainTip = e, !.eventCount = @ + 1]
  /\ Reply(e, "ok")
  /\ UNCHANGED <<freshLog, seals, freshSeals, witnesses, socketFile, up, downs, beats>>

\* Mutant: a write that throws is acknowledged.
WriteErrorAcked(e) ==
  /\ up /\ e \in inbox /\ Fault(1)
  /\ inbox' = inbox \ {e}
  /\ Reply(e, "ok")
  /\ UNCHANGED <<files, socketFile, up, state, downs, beats>>

\* Mutant: the state is updated before the write.
WriteErrorAdvances(e) ==
  /\ up /\ e \in inbox /\ Fault(1)
  /\ inbox' = inbox \ {e}
  /\ state' = [state EXCEPT !.chainTip = e, !.eventCount = @ + 1]
  /\ Reply(e, "rejected")
  /\ UNCHANGED <<files, socketFile, up, downs, beats>>

\* openSync or writeSync throws: nothing is written, the event is rejected and
\* the chain state is as before.
WriteError(e) ==
  /\ up /\ e \in inbox /\ Fault(1)
  /\ inbox' = inbox \ {e}
  /\ Reply(e, "rejected")
  /\ UNCHANGED <<files, socketFile, up, state, downs, beats>>

\* The daemon dies in processEvent: the line is complete or cut short, and
\* nobody is told.
CrashInProcessEvent(e) ==
  /\ up /\ e \in inbox /\ downs < MaxDowns
  /\ downs' = downs + 1
  /\ up' = FALSE /\ inbox' = {}
  /\ \/ AppendLine(EventLine(e), FALSE) /\ Fault(0)
     \/ AppendLine(EventLine(e), TRUE) /\ Fault(1)
  /\ UNCHANGED <<freshLog, seals, freshSeals, witnesses, socketFile, state, client, beats>>

-----------------------------------------------------------------------------
(***************************************************************************)
(* runAutoSealCycle.  Up to its first await it is one step; while it waits *)
(* for the witnesses other handlers run.                                   *)
(***************************************************************************)
shouldAutoSeal ==
  /\ state.chainTip # NoTip
  /\ state.eventCount - state.lastSealEventCount >= MinEvents

SealNow == [tip |-> state.chainTip, count |-> state.eventCount]
performSeal ==
  /\ seals' = SealLines(IF SealsTorn THEN "glued" ELSE "whole", SealNow)
  /\ state' = [state EXCEPT !.autoSealInProgress = TRUE, !.seal = SealNow]

AutoSeal ==
  /\ up /\ ~state.autoSealInProgress /\ shouldAutoSeal
  /\ performSeal
  /\ UNCHANGED <<log, freshLog, freshSeals, witnesses, socketFile, up, inbox, client, counters>>

\* The seal is cut short: by an I/O error, which ends the cycle with nothing
\* sealed, or by the death of the daemon.
SealCutShort ==
  /\ up /\ ~state.autoSealInProgress /\ shouldAutoSeal
  /\ Fault(1)
  /\ seals' = SealLines("torn", SealNow)
  /\ \/ UNCHANGED <<up, inbox, downs>>
     \/ downs < MaxDowns /\ downs' = downs + 1 /\ up' = FALSE /\ inbox' = {}
  /\ UNCHANGED <<log, freshLog, freshSeals, witnesses, socketFile, state, client, beats>>

\* Mutant: the live event count is taken as sealed.
AutoSealDoneLive(answered) ==
  /\ up /\ state.autoSealInProgress
  /\ state' = [state EXCEPT !.lastSealEventCount = state.eventCount,
                            !.totalSeals = @ + 1,
                            !.autoSealInProgress = FALSE, !.seal = NoSeal]
  /\ witnesses' = witnesses
  /\ UNCHANGED <<log, freshLog, seals, freshSeals, socketFile, up, inbox, client, counters>>

\* The endpoints in answered accepted the anchor: record the result, and what
\* the emitted seal covers.
AutoSealDone(answered) ==
  /\ up /\ state.autoSealInProgress
  /\ state' = [state EXCEPT !.lastSealEventCount = state.seal.count,
                            !.totalSeals = @ + 1,
                            !.autoSealInProgress = FALSE, !.seal = NoSeal]
  /\ witnesses' = IF Endpoints = {} THEN witnesses
                  ELSE Append(witnesses, [tip |-> state.seal.tip,
                                quorum_met |-> Cardinality(answered) >= Quorum])
  /\ UNCHANGED <<log, freshLog, seals, freshSeals, socketFile, up, inbox, client, counters>>

-----------------------------------------------------------------------------
Next ==
  \/ Start \/ Stop \/ Crash \/ WriteHeartbeat
  \/ \E e \in Events : Send(e) \/ SendTimeout(e) \/ ReadResponse(e) \/ GiveUp(e)
  \/ \E e \in Events : ProcessEvent(e) \/ WriteError(e) \/ CrashInProcessEvent(e)
  \/ AutoSeal \/ SealCutShort
  \/ \E answered \in SUBSET Endpoints : AutoSealDone(answered)

Spec == Init /\ [][Next]_vars

(***************************************************************************)
(* launchd restarts the daemon (KeepAlive), the event loop serves sockets  *)
(* and timers, and every witness request ends (AbortSignal.timeout).       *)
(***************************************************************************)
Fairness ==
  /\ WF_vars(Start) /\ WF_vars(AutoSeal)
  /\ WF_vars(\E answered \in SUBSET Endpoints : AutoSealDone(answered))
-----------------------------------------------------------------------------
(***************************************************************************)
(* Properties.                                                             *)
(***************************************************************************)
\* What an event that is written after the first n writes may name as the one
\* before it: the last event line that can be read, the last event that was
\* written, or nothing when there is none, or none since a start that could not
\* read the log.
LastOf(S, n, t) == \E i \in S : i <= n /\ (\A j \in S : j <= n => j <= i) /\ t = log[i].id
Predecessor(n, t) ==
  \/ LastOf(EventAt, n, t) \/ LastOf(WrittenAt, n, t)
  \/ /\ t = NoTip
     /\ \E f \in {0} \cup freshLog : f <= n /\ \A i \in EventAt : ~(f < i /\ i <= n)

\* processEvent builds one chain over restarts: each event line names the one
\* before it.  Crashes in any place, writes that fail and writes that are cut
\* short make no difference, except that the event of a write that cannot be
\* read may be the one that is named; only a start that could not read the log
\* begins another chain.
RelayChainLinked == \A i \in EventAt : Predecessor(i - 1, log[i].prev)

\* The answer that a hook gets is true of the log, whatever happens afterwards:
\* an event that was rejected is not in it, and one that was acknowledged is.  It
\* can be read unless its own write, or the one just before it, was cut short.
AnswerIsTrue ==
  \A e \in Events :
    LET at == {i \in WrittenAt : log[i].id = e} IN
    /\ client[e] = "rejected" => at = {}
    /\ client[e] \in {"ok", "done"} =>
         \E i \in at : \/ i \in EventAt \/ log[i].form = "cut"
                       \/ i > 1 /\ log[i - 1].form = "cut"

\* A count of the first n writes: as many as the events written since the
\* beginning, or since a start that could not read the log, those that cannot be
\* read counted or not.
Between(S, f, n) == Cardinality({i \in S : f < i /\ i <= n})
Counted(n, count) ==
  \E f \in {0} \cup freshLog :
    f <= n /\ Between(EventAt, f, n) <= count /\ count <= Between(WrittenAt, f, n)

\* Every start could read the first n writes, and so can everybody.
Healthy(n) ==
  /\ \A f \in freshLog : n < f
  /\ \A i \in WrittenAt : i <= n => i \in EventAt

\* A seal that can be read tells the truth about the log at the time: its tip is
\* the event that the next one would have named, its count is the events up to
\* there, and it covers more than the seals before it.  So it is when events
\* arrive while witnesses are asked, when cycles would overlap, when a restart
\* interrupts a cycle or a seal was cut short, and when count and last seal were
\* recovered from the files.  For "more", the log must be healthy, and no start
\* in between have failed to read the seals.
SealsMatchLog ==
  LET whole == {i \in DOMAIN seals : seals[i].kind = "whole"} IN
  \A i \in whole :
    /\ Predecessor(seals[i].at, seals[i].seal.tip)
    /\ Counted(seals[i].at, seals[i].seal.count)
    /\ MinEvents > 0 /\ Healthy(seals[i].at) =>
         \A j \in whole : j < i /\ (\A f \in freshSeals : ~(j <= f /\ f < i)) =>
           seals[j].seal.count < seals[i].seal.count

\* Every event in the relay log is eventually covered by a seal that can be
\* read; events that arrive while a cycle waits for its witnesses are not
\* forgotten.  Excepted are the logs that are not healthy, since what the last
\* seal counted may be more than a restart finds, and those with a seal glued to
\* one that was cut short, which the daemon counts as made.
EveryEventSealed ==
  \A e \in Events :
    (\E j \in EventAt : log[j].id = e) ~>
      \/ ~Healthy(Len(log))
      \/ \E i \in DOMAIN seals : seals[i].kind = "glued"
      \/ \E i \in DOMAIN seals, j \in EventAt :
           seals[i].kind = "whole" /\ log[j].id = e /\ j <= seals[i].at
=============================================================================
