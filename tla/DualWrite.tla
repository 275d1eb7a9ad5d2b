----------------------------- MODULE DualWrite ------------------------------
(***************************************************************************)
(* The SQLite index beside the JSONL log (createDualWriter in adapter.ts   *)
(* of packages/agents): each hook process appends its event to the log and *)
(* then inserts a row; if it cannot, it notes that in a divergence marker. *)
(* `patchwork sync db` rebuilds the index from the log and clears the      *)
(* marker; `patchwork sync codex` appends the history of another agent to  *)
(* the log.  Only the log is locked, and a process may fail or die between *)
(* any two steps.                                                          *)
(*                                                                         *)
(* Abstractions: an append to the log is one step (JsonlStore shows why it *)
(* may be); a row is the id of its event, and an event is the process that *)
(* made it with the number of its history entry, 0 for a hook; a history   *)
(* entry is the timestamp and content hash of the one event it stands for. *)
(* The relay, which gets the same events, is RelayDaemon's.                *)
(***************************************************************************)
EXTENDS Naturals, Sequences, FiniteSets

CONSTANTS
  Writers,       \* hook processes
  Importers,     \* `sync codex` processes
  History,       \* codex's history.jsonl
  None,          \* no idempotency_key, not of the history
  Keys,          \* the idempotency_keys of the hooks' events
  MaxRebuilds,   \* bound: runs of `sync db`
  MaxWriteFaults \* bound: failing writes and dying processes

ASSUME DualWriteAssumption ==
  /\ Writers \cap Importers = {}
  /\ None \notin Keys
  /\ Len(History) \in Nat /\ DOMAIN History = 1..Len(History)
  /\ \A n \in DOMAIN History : History[n] # None
  /\ MaxRebuilds \in Nat /\ MaxWriteFaults \in Nat

VARIABLES
  events,      \* events.jsonl; its order is not told apart here
  rows,        \* the ids in audit.db
  marker,      \* failure_count of sqlite-divergence.json, 0 if there is none
  report,      \* is there a report of a failed `sync db`?
  writer,      \* per hook: where it is, its key and the marker it has read
  importer,    \* per `sync codex`: what it has seen and the next entry
  rebuild,     \* the `sync db` process
  writeFaults, \* counter for the bound
  excused,     \* history: events whose missing row nobody could note
  overlap      \* history: have two `sync codex` run at the same time?

stores == <<events, rows, marker, report>>
processes == <<writer, importer, rebuild>>
dualVars == <<stores, processes, writeFaults, excused, overlap>>

Ids == {e.id : e \in events}
Stamps == {e.stamp : e \in events} \ {None}

DualInit ==
  /\ events = {} /\ rows = {} /\ marker = 0 /\ report = FALSE
  /\ writer = [w \in Writers |-> [pc |-> "new", key |-> None, opened |-> TRUE, seen |-> 0]]
  /\ importer = [i \in Importers |-> [pc |-> "new", known |-> {}, next |-> 1]]
  /\ rebuild = [pc |-> "idle", before |-> 0, todo |-> {}, failed |-> FALSE,
                marked |-> FALSE, runs |-> 0]
  /\ writeFaults = 0 /\ excused = {} /\ overlap = FALSE

WriteFault ==
  /\ writeFaults < MaxWriteFaults
  /\ writeFaults' = writeFaults + 1

GoOn(w, pc) == writer' = [writer EXCEPT ![w].pc = pc]

-----------------------------------------------------------------------------
(***************************************************************************)
(* handleClaudeCodeHook and createDualWriter.                              *)
(***************************************************************************)

\* The process opens the stores; without SQLite it goes on with the log only.
OpenStores(w) ==
  /\ writer[w].pc = "new"
  /\ \E k \in Keys \cup {None}, opened \in BOOLEAN :
       /\ writer' = [writer EXCEPT ![w].pc = "append", ![w].key = k, ![w].opened = opened]
       /\ IF opened THEN UNCHANGED writeFaults ELSE WriteFault
  /\ UNCHANGED <<stores, importer, rebuild, excused, overlap>>

\* The log drops an event whose idempotency_key it has.
AppendPrimary(w) ==
  LET k == writer[w].key IN
  /\ writer[w].pc = "append"
  /\ events' = IF k # None /\ \E e \in events : e.key = k
               THEN events
               ELSE events \cup {[id |-> <<w, 0>>, key |-> k, stamp |-> None]}
  /\ GoOn(w, IF writer[w].opened THEN "insert" ELSE "done")
  /\ excused' = IF writer[w].opened THEN excused ELSE excused \cup {<<w, 0>>}
  /\ UNCHANGED <<rows, marker, report, importer, rebuild, writeFaults, overlap>>

\* The log cannot be written: the error ends the hook.
AppendPrimaryThrows(w) ==
  /\ writer[w].pc = "append"
  /\ WriteFault
  /\ GoOn(w, "done")
  /\ UNCHANGED <<stores, importer, rebuild, excused, overlap>>

InsertRow(w) ==
  /\ writer[w].pc = "insert"
  /\ rows' = rows \cup {<<w, 0>>}
  /\ GoOn(w, "done")
  /\ UNCHANGED <<events, marker, report, importer, rebuild, writeFaults, excused, overlap>>

\* recordDivergence reads the marker ...
InsertRowThrows(w) ==
  /\ writer[w].pc = "insert"
  /\ WriteFault
  /\ writer' = [writer EXCEPT ![w].pc = "mark", ![w].seen = marker]
  /\ UNCHANGED <<stores, importer, rebuild, excused, overlap>>

\* ... and renames a new one into its place.
WriteMarker(w) ==
  /\ writer[w].pc = "mark"
  /\ marker' = writer[w].seen + 1
  /\ rebuild' = [rebuild EXCEPT !.marked = (rebuild.pc # "idle")]
  /\ GoOn(w, "done")
  /\ UNCHANGED <<events, rows, report, importer, writeFaults, excused, overlap>>

WriteMarkerThrows(w) ==
  /\ writer[w].pc = "mark"
  /\ WriteFault
  /\ excused' = excused \cup {<<w, 0>>}
  /\ GoOn(w, "done")
  /\ UNCHANGED <<stores, importer, rebuild, overlap>>

WriterDies(w) ==
  /\ writer[w].pc \in {"append", "insert", "mark"}
  /\ WriteFault
  /\ excused' = IF writer[w].pc = "append" THEN excused ELSE excused \cup {<<w, 0>>}
  /\ GoOn(w, "done")
  /\ UNCHANGED <<stores, importer, rebuild, overlap>>

-----------------------------------------------------------------------------
(***************************************************************************)
(* `patchwork sync codex`: syncCodexHistory.                               *)
(***************************************************************************)
ImportReadsLog(i) ==
  /\ importer[i].pc = "new"
  /\ importer' = [importer EXCEPT ![i].pc = "import", ![i].known = Stamps]
  /\ overlap' = (overlap \/ \E j \in Importers : importer[j].pc = "import")
  /\ UNCHANGED <<stores, writer, rebuild, writeFaults, excused>>

\* Mutant: only the events of this run are looked at.
ImportEntryTwice(i) ==
  LET n == importer[i].next IN
  /\ importer[i].pc = "import" /\ n <= Len(History)
  /\ events' = IF importer[i].known \cap {History[m] : m \in 1..(n - 1)} = {}
               THEN events \cup {[id |-> <<i, n>>, key |-> None, stamp |-> History[n]]}
               ELSE events
  /\ importer' = [importer EXCEPT ![i].next = n + 1]
  /\ UNCHANGED <<rows, marker, report, writer, rebuild, writeFaults, excused, overlap>>

\* An entry is skipped if the log had its timestamp and hash when the command
\* began, or an earlier entry had them.  Nothing inserts a row for it.
ImportEntry(i) ==
  LET n == importer[i].next IN
  /\ importer[i].pc = "import" /\ n <= Len(History)
  /\ IF History[n] \in importer[i].known
     THEN UNCHANGED <<events, excused>>
     ELSE /\ events' = events \cup {[id |-> <<i, n>>, key |-> None, stamp |-> History[n]]}
          /\ excused' = excused \cup {<<i, n>>}
  /\ importer' = [importer EXCEPT ![i].known = @ \cup {History[n]}, ![i].next = n + 1]
  /\ UNCHANGED <<rows, marker, report, writer, rebuild, writeFaults, overlap>>

\* An error is counted, and the next entry is tried.
ImportEntryThrows(i) ==
  /\ importer[i].pc = "import" /\ importer[i].next <= Len(History)
  /\ WriteFault
  /\ importer' = [importer EXCEPT ![i].next = @ + 1]
  /\ UNCHANGED <<stores, writer, rebuild, excused, overlap>>

ImportEnds(i) ==
  /\ importer[i].pc = "import"
  /\ \/ importer[i].next > Len(History) /\ UNCHANGED writeFaults
     \/ importer[i].next <= Len(History) /\ WriteFault
  /\ importer' = [importer EXCEPT ![i].pc = "done"]
  /\ UNCHANGED <<stores, writer, rebuild, excused, overlap>>

-----------------------------------------------------------------------------
(***************************************************************************)
(* `patchwork sync db`.                                                    *)
(***************************************************************************)
RebuildReadsMarker ==
  /\ rebuild.pc = "idle" /\ rebuild.runs < MaxRebuilds
  /\ rebuild' = [rebuild EXCEPT !.pc = "read", !.before = marker, !.runs = @ + 1]
  /\ UNCHANGED <<stores, writer, importer, writeFaults, excused, overlap>>

\* An empty log ends the command.
RebuildReadsLog ==
  /\ rebuild.pc = "read"
  /\ rebuild' = [rebuild EXCEPT !.pc = IF events = {} THEN "idle" ELSE "insert",
                                !.todo = Ids]
  /\ UNCHANGED <<stores, writer, importer, writeFaults, excused, overlap>>

\* INSERT OR IGNORE for each event; the loop is one step since nobody reads
\* the rows in between.
RebuildInserts ==
  /\ rebuild.pc = "insert"
  /\ \E lost \in SUBSET rebuild.todo :
       /\ IF lost = {} THEN UNCHANGED writeFaults ELSE WriteFault
       /\ rows' = rows \cup (rebuild.todo \ lost)
       /\ rebuild' = [rebuild EXCEPT !.pc = "finish", !.failed = (lost # {}), !.todo = {}]
  /\ UNCHANGED <<events, marker, report, writer, importer, excused, overlap>>

\* Mutant: the marker is cleared although events could not be inserted.
RebuildFinishesAnyway ==
  /\ rebuild.pc = "finish"
  /\ marker' = IF rebuild.before > 0 THEN 0 ELSE marker
  /\ report' = rebuild.failed
  /\ rebuild' = [rebuild EXCEPT !.pc = "idle", !.before = 0, !.failed = FALSE,
                                !.marked = FALSE]
  /\ excused' = IF rebuild.before > 0 /\ rebuild.marked
                THEN excused \cup (Ids \ rows) ELSE excused
  /\ UNCHANGED <<events, rows, writer, importer, writeFaults, overlap>>

\* Only a full success clears the marker and the report of an earlier failure;
\* a marker that was written after the command began goes with it.
RebuildFinishes ==
  LET clears == rebuild.before > 0 /\ ~rebuild.failed IN
  /\ rebuild.pc = "finish"
  /\ marker' = IF clears THEN 0 ELSE marker
  /\ report' = rebuild.failed
  /\ rebuild' = [rebuild EXCEPT !.pc = "idle", !.before = 0, !.failed = FALSE,
                                !.marked = FALSE]
  /\ excused' = IF clears /\ rebuild.marked THEN excused \cup (Ids \ rows) ELSE excused
  /\ UNCHANGED <<events, rows, writer, importer, writeFaults, overlap>>

\* The command dies, or cannot open the database.
RebuildDies ==
  /\ rebuild.pc # "idle"
  /\ WriteFault
  /\ rebuild' = [rebuild EXCEPT !.pc = "idle", !.before = 0, !.todo = {}, !.failed = FALSE,
                                !.marked = FALSE]
  /\ UNCHANGED <<stores, writer, importer, excused, overlap>>

DualNext ==
  \/ \E w \in Writers :
       \/ OpenStores(w) \/ AppendPrimary(w) \/ AppendPrimaryThrows(w) \/ InsertRow(w)
       \/ InsertRowThrows(w) \/ WriteMarker(w) \/ WriteMarkerThrows(w) \/ WriterDies(w)
  \/ \E i \in Importers :
       ImportReadsLog(i) \/ ImportEntry(i) \/ ImportEntryThrows(i) \/ ImportEnds(i)
  \/ RebuildReadsMarker \/ RebuildReadsLog \/ RebuildInserts \/ RebuildFinishes
  \/ RebuildDies

DualSpec == DualInit /\ [][DualNext]_dualVars

-----------------------------------------------------------------------------
(***************************************************************************)
(* The index follows the log.  Every row belongs to an event that the log  *)
(* has, under its id or its idempotency_key; and an event that the index   *)
(* lacks while no hook is about to add or to mark it has left a divergence *)
(* marker.  The exceptions are the ones in which no process was in a       *)
(* position to leave one: SQLite could not be opened, the marker could not *)
(* be written, the hook died first, the event was imported, or `sync db`   *)
(* removed a marker that was written after it had read the old one.        *)
(***************************************************************************)
IndexFollowsLog ==
  /\ \A r \in rows \ Ids :
       \E e \in events : e.key # None /\ e.key = writer[r[1]].key
  /\ \A e \in Ids \ (rows \cup excused) :
       marker > 0 \/ writer[e[1]].pc \in {"insert", "mark"}

(***************************************************************************)
(* Importing the same history again adds nothing: while no two imports     *)
(* have overlapped, the log has no timestamp and hash twice, and it has    *)
(* those of every entry that an import which met no fault is past.         *)
(***************************************************************************)
HistoryImportedOnce ==
  /\ ~overlap => \A d, e \in events :
       d.stamp = e.stamp => d = e \/ d.stamp = None
  /\ writeFaults = 0 => \A i \in Importers : \A n \in 1..(importer[i].next - 1) :
       History[n] \in Stamps

=============================================================================
