------------------------------ MODULE TeamSync ------------------------------
(***************************************************************************)
(* Team mode of packages/team: a sync agent reads new lines of the relay   *)
(* log, pushes them in signed batches to the team server, and keeps its    *)
(* position in a cursor file; the server inserts events and seals that it  *)
(* does not have yet.  Requests and responses may be lost or late, either  *)
(* side may die, and the agent's timer may start a cycle while the last    *)
(* one still waits for its response (nothing in cycle() prevents it).      *)
(*                                                                         *)
(* Abstractions: an event is the number of its line in the relay log, and  *)
(* offsets, like MAX_BATCH_BYTES, count lines instead of bytes; a seal is  *)
(* its number in the seals log (sealed_at grows); the signature and the    *)
(* batch hash of a batch in transit always match.                          *)
(***************************************************************************)
EXTENDS Naturals, FiniteSets, FiniteSetsExt

CONSTANTS
  Cycles,          \* cycles that may run at the same time
  NoCycle,         \* nobody waits for the response any more
  MAX_BATCH_EVENTS,
  MAX_BATCH_LINES, \* MAX_BATCH_BYTES
  MaxLines,        \* bound: lines of the relay log
  MaxHeartbeats,   \* bound: heartbeats and corrupt lines among them
  MaxSeals,        \* bound: seals
  MaxFailures      \* bound: pushes that fail, requests that are lost, deaths

ASSUME SyncAssumption ==
  /\ NoCycle \notin Cycles
  /\ MAX_BATCH_EVENTS \in Nat \ {0} /\ MAX_BATCH_LINES \in Nat \ {0}
  /\ MaxLines \in Nat /\ MaxHeartbeats \in Nat /\ MaxSeals \in Nat
  /\ MaxFailures \in Nat

VARIABLES
  relayEvents, \* the lines of the relay log that hold an event
  relayLength, \* the number of its lines
  relaySeals,  \* the number of seals in the seals log
  cursor,      \* sync-cursor.json
  backoff,     \* is the time since the last failure below computeBackoffMs?
  cycle,       \* per cycle: what it pushes, and with which cursor it began
  requests,    \* batches on their way to the server
  responses,   \* per cycle: the response that waits for it
  server,      \* events, seals and last_chain_tip of this machine
  failures,    \* counter for the bound
  overlapped   \* history: have two cycles run at the same time?

relay == <<relayEvents, relayLength, relaySeals>>
syncVars == <<relay, cursor, backoff, cycle, requests, responses, server, failures,
          overlapped>>

Lines == 1..MaxLines
Cursor == [offset : 0..MaxLines, seal : 0..MaxSeals, failing : BOOLEAN]
Batch == [events : SUBSET Lines, seals : SUBSET (1..MaxSeals), end : 0..MaxLines]
NoBatch == [events |-> {}, seals |-> {}, end |-> 0]
DEFAULT_SYNC_CURSOR == [offset |-> 0, seal |-> 0, failing |-> FALSE]
Idle == [pushing |-> FALSE, from |-> DEFAULT_SYNC_CURSOR, batch |-> NoBatch]

-----------------------------------------------------------------------------
SyncInit ==
  /\ relayEvents = {} /\ relayLength = 0 /\ relaySeals = 0
  /\ cursor = DEFAULT_SYNC_CURSOR /\ backoff = FALSE
  /\ cycle = [c \in Cycles |-> Idle]
  /\ requests = {} /\ responses = [c \in Cycles |-> "none"]
  /\ server = [events |-> {}, seals |-> {}, tip |-> 0]
  /\ failures = 0 /\ overlapped = FALSE

\* The relay daemon appends an event, or a line that is none, or a seal.
RelayAppendsEvent ==
  /\ relayLength < MaxLines
  /\ relayLength' = relayLength + 1
  /\ relayEvents' = relayEvents \cup {relayLength + 1}
  /\ UNCHANGED <<relaySeals, cursor, backoff, cycle, requests, responses, server,
                 failures, overlapped>>

RelayAppendsHeartbeat ==
  /\ relayLength < MaxLines
  /\ relayLength - Cardinality(relayEvents) < MaxHeartbeats
  /\ relayLength' = relayLength + 1
  /\ UNCHANGED <<relayEvents, relaySeals, cursor, backoff, cycle, requests,
                 responses, server, failures, overlapped>>

RelaySeals ==
  /\ relaySeals < MaxSeals
  /\ relaySeals' = relaySeals + 1
  /\ UNCHANGED <<relayEvents, relayLength, cursor, backoff, cycle, requests,
                 responses, server, failures, overlapped>>

-----------------------------------------------------------------------------
MinOf(a, b) == IF a < b THEN a ELSE b

\* Mutant: the offset is advanced past the whole window although the batch
\* stopped at MAX_BATCH_EVENTS.
readNewEventsWholeWindow(offset) ==
  LET last == MinOf(relayLength, offset + MAX_BATCH_LINES)
      window == {i \in relayEvents : offset < i /\ i <= last}
      taken == {i \in window : Cardinality({j \in window : j <= i}) <= MAX_BATCH_EVENTS}
  IN [events |-> taken, end |-> last]

(***************************************************************************)
(* readNewEvents: the events of at most MAX_BATCH_LINES lines after the    *)
(* offset, MAX_BATCH_EVENTS of them at most, and the offset of the last    *)
(* line that was consumed.                                                 *)
(***************************************************************************)
readNewEvents(offset) ==
  LET last == MinOf(relayLength, offset + MAX_BATCH_LINES)
      window == {i \in relayEvents : offset < i /\ i <= last}
      taken == {i \in window : Cardinality({j \in window : j <= i}) <= MAX_BATCH_EVENTS}
  IN [events |-> taken,
      end |-> IF Cardinality(taken) = MAX_BATCH_EVENTS THEN Max(taken) ELSE last]

readNewSeals(lastSeal) == {s \in 1..relaySeals : s > lastSeal}

\* Mutant: an agent that has failed does not try again.
CycleStartNeverRetries(c) ==
  LET read == readNewEvents(cursor.offset)
      batch == [events |-> read.events, seals |-> readNewSeals(cursor.seal),
                end |-> read.end]
  IN
  /\ ~cycle[c].pushing /\ ~cursor.failing /\ read.events # {}
  /\ cycle' = [cycle EXCEPT ![c] = [pushing |-> TRUE, from |-> cursor, batch |-> batch]]
  /\ requests' = requests \cup {[cycle |-> c, batch |-> batch]}
  /\ UNCHANGED <<relay, cursor, backoff, responses, server, failures, overlapped>>

\* cycle() up to its await: skipped while backing off; without new events it
\* returns and leaves the cursor alone.
CycleStart(c) ==
  LET read == readNewEvents(cursor.offset)
      batch == [events |-> read.events, seals |-> readNewSeals(cursor.seal),
                end |-> read.end]
  IN
  /\ ~cycle[c].pushing /\ ~(cursor.failing /\ backoff) /\ read.events # {}
  /\ cycle' = [cycle EXCEPT ![c] = [pushing |-> TRUE, from |-> cursor, batch |-> batch]]
  /\ requests' = requests \cup {[cycle |-> c, batch |-> batch]}
  /\ overlapped' = (overlapped \/ \E d \in Cycles : cycle[d].pushing)
  /\ UNCHANGED <<relay, cursor, backoff, responses, server, failures>>

BackoffElapses ==
  /\ backoff
  /\ backoff' = FALSE
  /\ UNCHANGED <<relay, cursor, cycle, requests, responses, server, failures, overlapped>>

\* The server accepted the batch: advance the cursor to its end.
CycleOk(c) ==
  LET b == cycle[c].batch IN
  /\ cycle[c].pushing /\ responses[c] = "ok"
  /\ cursor' = [offset |-> b.end, failing |-> FALSE,
                seal |-> IF b.seals = {} THEN cycle[c].from.seal ELSE Max(b.seals)]
  /\ cycle' = [cycle EXCEPT ![c] = Idle]
  /\ responses' = [responses EXCEPT ![c] = "none"]
  /\ UNCHANGED <<relay, backoff, requests, server, failures, overlapped>>

\* The push is rejected, or AbortSignal.timeout ends it: because the request is
\* gone, or because the server is slow (then it may still be delivered).  The
\* cursor the cycle began with is written back, as failing.
CycleFails(c) ==
  /\ cycle[c].pushing
  /\ \/ responses[c] = "rejected" /\ UNCHANGED failures
     \/ /\ responses[c] = "none" /\ \A r \in requests : r.cycle # c
        /\ UNCHANGED failures
     \/ /\ responses[c] = "ok" \/ \E r \in requests : r.cycle = c
        /\ failures < MaxFailures /\ failures' = failures + 1
  /\ cursor' = [cycle[c].from EXCEPT !.failing = TRUE]
  /\ backoff' = TRUE
  /\ cycle' = [cycle EXCEPT ![c] = Idle]
  /\ responses' = [responses EXCEPT ![c] = "none"]
  /\ requests' = {IF r.cycle = c THEN [r EXCEPT !.cycle = NoCycle] ELSE r : r \in requests}
  /\ UNCHANGED <<relay, server, overlapped>>

\* The agent process dies and is started again: only the cursor file is left.
AgentRestarts ==
  /\ failures < MaxFailures
  /\ failures' = failures + 1
  /\ cycle' = [c \in Cycles |-> Idle]
  /\ responses' = [c \in Cycles |-> "none"]
  /\ requests' = {[r EXCEPT !.cycle = NoCycle] : r \in requests}
  /\ UNCHANGED <<relay, cursor, backoff, server, overlapped>>

-----------------------------------------------------------------------------
(***************************************************************************)
(* The ingest handler: events in one transaction (INSERT OR IGNORE), then  *)
(* the seals one by one, then last_chain_tip; it answers last.             *)
(***************************************************************************)
Answer(r, what) ==
  /\ requests' = requests \ {r}
  /\ responses' = IF r.cycle = NoCycle THEN responses
                  ELSE [responses EXCEPT ![r.cycle] = what]

Ingest(r) ==
  /\ server' = [events |-> server.events \cup r.batch.events,
                seals |-> server.seals \cup r.batch.seals, tip |-> Max(r.batch.events)]
  /\ Answer(r, "ok")
  /\ UNCHANGED <<relay, cursor, backoff, cycle, failures, overlapped>>

\* Authentication or validation fails: nothing is stored.
IngestRejects(r) ==
  /\ failures < MaxFailures
  /\ failures' = failures + 1
  /\ Answer(r, "rejected")
  /\ UNCHANGED <<relay, cursor, backoff, cycle, server, overlapped>>

\* The server dies after the transaction, in or after the seals; there is no
\* response.
IngestDies(r) ==
  /\ failures < MaxFailures
  /\ failures' = failures + 1
  /\ \E n \in 0..MaxSeals :
       server' = [events |-> server.events \cup r.batch.events,
                  seals |-> server.seals \cup {s \in r.batch.seals : s <= n},
                  tip |-> server.tip]
  /\ requests' = requests \ {r}
  /\ UNCHANGED <<relay, cursor, backoff, cycle, responses, overlapped>>

\* The request is lost on the way.
RequestLost(r) ==
  /\ failures < MaxFailures
  /\ failures' = failures + 1
  /\ requests' = requests \ {r}
  /\ UNCHANGED <<relay, cursor, backoff, cycle, responses, server, overlapped>>

-----------------------------------------------------------------------------
AgentStep(c) == CycleStart(c) \/ CycleOk(c) \/ CycleFails(c)
ServerStep == \E r \in requests : Ingest(r) \/ IngestRejects(r) \/ IngestDies(r)

SyncNext ==
  \/ RelayAppendsEvent \/ RelayAppendsHeartbeat \/ RelaySeals
  \/ \E c \in Cycles : AgentStep(c)
  \/ BackoffElapses \/ AgentRestarts
  \/ ServerStep
  \/ \E r \in requests : RequestLost(r)

SyncSpec == SyncInit /\ [][SyncNext]_syncVars

(***************************************************************************)
(* The agent's timer runs cycles, time passes, requests that are not lost  *)
(* are served and responses are read; failures are finitely many.          *)
(***************************************************************************)
SyncFairness ==
  /\ \A c \in Cycles : WF_syncVars(AgentStep(c))
  /\ WF_syncVars(BackoffElapses) /\ WF_syncVars(ServerStep)
-----------------------------------------------------------------------------
(***************************************************************************)
(* Properties.                                                             *)
(***************************************************************************)
\* No gaps: the server has every event before the cursor and every seal up to
\* the last one it says, whatever was lost, late, repeated, partly done or
\* overlapping.
NoGaps ==
  /\ \A i \in relayEvents : i <= cursor.offset => i \in server.events
  /\ \A s \in 1..cursor.seal : s \in server.seals

\* The cursor is never rewound, unless two cycles of the agent overlapped.
CursorMonotone ==
  [][~overlapped' => cursor'.offset >= cursor.offset /\ cursor'.seal >= cursor.seal]_syncVars

\* Catch-up: every event of the relay log reaches the server once failures end.
EventuallySynced == \A i \in Lines : i \in relayEvents ~> i \in server.events
=============================================================================
