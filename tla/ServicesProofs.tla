--------------------------- MODULE ServicesProofs ---------------------------
(***************************************************************************)
(* The index beside the log, the attestation of commits, enrollment and    *)
(* telemetry, for every number of processes, events, commits, machines and *)
(* failures.  Each section proves the invariants of one module.            *)
(***************************************************************************)
EXTENDS DualWrite, CommitAttestor, Enrollment, Telemetry,
        FiniteSetTheorems, SequenceTheorems, WellFoundedInduction, TLAPS

-----------------------------------------------------------------------------
(***************************************************************************)
(* DualWrite: the index follows the log.  An event that nobody answers for *)
(* is one that no process has in hand, that has no row and no excuse; that *)
(* a marker stands for it is not inductive, since `sync db` clears the     *)
(* marker.  Covered says what the command knows in between: of the events  *)
(* that were open when it read the log it has inserted, or will insert,    *)
(* every one, unless a marker was written after it had begun.              *)
(***************************************************************************)
EventIds == (Writers \X {0}) \cup (Importers \X (Nat \ {0}))
Events == [id : EventIds, key : Keys \cup {None}, stamp : {None} \cup {History[n] : n \in DOMAIN History}]

LabelsOfWriter == {"new", "append", "insert", "mark", "done"}
WriterStates == [pc : LabelsOfWriter, key : Keys \cup {None}, opened : BOOLEAN, seen : Nat]

ImporterStates ==
  [pc : {"new", "import", "done"}, known : SUBSET {History[n] : n \in DOMAIN History},
   next : Nat \ {0}]

RebuildStates ==
  [pc : {"idle", "read", "insert", "finish"}, before : Nat, todo : SUBSET EventIds,
   failed : BOOLEAN, marked : BOOLEAN, runs : Nat]

DualTypes ==
  /\ events \subseteq Events /\ rows \subseteq EventIds /\ marker \in Nat
  /\ excused \subseteq EventIds
  /\ writer \in [Writers -> WriterStates] /\ importer \in [Importers -> ImporterStates]
  /\ rebuild \in RebuildStates /\ overlap \in BOOLEAN /\ writeFaults \in Nat

\* Does a hook still answer for the missing row?
InHand(e) == e \in Writers \X {0} /\ writer[e[1]].pc \in {"insert", "mark"}

\* The events that a marker has to stand for.
Open == {e \in Ids : e \notin rows \cup excused /\ ~InHand(e)}

\* The event of w, or the one that it repeats, is in the log.
Recorded(w) == <<w, 0>> \in Ids \/ \E e \in events : e.key # None /\ e.key = writer[w].key

WritersRecorded ==
  /\ \A w \in Writers : writer[w].pc \in {"insert", "mark"} => Recorded(w)
  /\ \A w \in Writers : writer[w].pc \in {"new", "append"} => <<w, 0>> \notin Ids \cup rows
  /\ \A r \in rows : r \in Ids \/ (r \in Writers \X {0} /\ Recorded(r[1]))
  /\ \A e \in Ids : e \in Importers \X (Nat \ {0}) => e \in excused
  /\ rebuild.todo \subseteq Ids

Covered ==
  /\ rebuild.pc = "insert" /\ ~rebuild.marked => Open \subseteq rebuild.todo
  /\ rebuild.pc = "finish" /\ ~rebuild.marked /\ ~rebuild.failed => Open = {}

IndexInv == DualTypes /\ WritersRecorded /\ Covered /\ (Open # {} => marker > 0)

LEMMA IndexInvFollows == IndexInv => IndexFollowsLog
<1> SUFFICES ASSUME IndexInv PROVE IndexFollowsLog
  OBVIOUS
<1>1. ASSUME NEW r \in rows \ Ids
      PROVE  \E e \in events : e.key # None /\ e.key = writer[r[1]].key
  <2>1. r \in Writers \X {0} /\ Recorded(r[1])
    BY <1>1 DEF IndexInv, WritersRecorded
  <2>2. r = <<r[1], 0>>
    BY <2>1
  <2> QED BY <1>1, <2>1, <2>2 DEF Recorded
<1>2. ASSUME NEW e \in Ids \ (rows \cup excused)
      PROVE  marker > 0 \/ writer[e[1]].pc \in {"insert", "mark"}
  BY <1>2 DEF IndexInv, Open, InHand
<1> QED BY <1>1, <1>2 DEF IndexFollowsLog

LEMMA IndexInvInit == DualInit => IndexInv
<1> SUFFICES ASSUME DualInit PROVE IndexInv
  OBVIOUS
<1>1. DualTypes
  <2>1. writer \in [Writers -> WriterStates]
    BY DEF DualInit, WriterStates, LabelsOfWriter
  <2>2. importer \in [Importers -> ImporterStates]
    BY DEF DualInit, ImporterStates
  <2>3. rebuild \in RebuildStates
    BY DEF DualInit, RebuildStates
  <2> QED BY <2>1, <2>2, <2>3 DEF DualInit, DualTypes
<1>2. Ids = {} /\ Open = {}
  BY DEF DualInit, Ids, Open
<1>3. WritersRecorded /\ Covered
  BY <1>2 DEF DualInit, WritersRecorded, Covered
<1> QED BY <1>1, <1>2, <1>3 DEF IndexInv

-----------------------------------------------------------------------------
(***************************************************************************)
(* Types.                                                                  *)
(***************************************************************************)
LEMMA EventTypes ==
  ASSUME DualTypes
  PROVE  /\ Ids \subseteq EventIds
         /\ Stamps \subseteq {History[n] : n \in DOMAIN History}
<1>1. \A e \in events : e.id \in EventIds /\ e.stamp \in {None} \cup {History[n] : n \in DOMAIN History}
  BY DEF DualTypes, Events
<1> QED BY <1>1 DEF Ids, Stamps

LEMMA DualStepTypes ==
  ASSUME DualTypes, [DualNext]_dualVars PROVE DualTypes'
<1> USE DualWriteAssumption
<1> USE DEF stores, processes
<1>t. /\ events \subseteq Events /\ rows \subseteq EventIds /\ marker \in Nat
      /\ excused \subseteq EventIds
      /\ writer \in [Writers -> WriterStates] /\ importer \in [Importers -> ImporterStates]
      /\ rebuild \in RebuildStates /\ overlap \in BOOLEAN /\ writeFaults \in Nat
  BY DEF DualTypes
<1>e. /\ \A w \in Writers : <<w, 0>> \in EventIds
      /\ \A i \in Importers, n \in Nat \ {0} : <<i, n>> \in EventIds
  BY DEF EventIds
\* The hooks.
<1>1. ASSUME NEW w \in Writers, NEW s \in WriterStates, writer' = [writer EXCEPT ![w] = s]
      PROVE  writer' \in [Writers -> WriterStates]
  BY <1>1, <1>t
<1>2. ASSUME NEW w \in Writers, NEW pc \in LabelsOfWriter, GoOn(w, pc)
      PROVE  writer' \in [Writers -> WriterStates]
  <2>1. writer' = [writer EXCEPT ![w] = [writer[w] EXCEPT !.pc = pc]]
    BY <1>2, <1>t DEF GoOn
  <2>2. [writer[w] EXCEPT !.pc = pc] \in WriterStates
    BY <1>t DEF WriterStates
  <2> QED BY <1>1, <2>1, <2>2
<1>3. ASSUME NEW w \in Writers, OpenStores(w) PROVE DualTypes'
  <2>1. PICK k \in Keys \cup {None}, opened \in BOOLEAN :
          /\ writer' = [writer EXCEPT ![w].pc = "append", ![w].key = k, ![w].opened = opened]
          /\ IF opened THEN UNCHANGED writeFaults ELSE WriteFault
    BY <1>3 DEF OpenStores
  <2>2. writer' = [writer EXCEPT ![w] = [writer[w] EXCEPT !.pc = "append", !.key = k,
                                                          !.opened = opened]]
    BY <1>t, <2>1
  <2>3. [writer[w] EXCEPT !.pc = "append", !.key = k, !.opened = opened] \in WriterStates
    BY <1>t DEF WriterStates, LabelsOfWriter
  <2>4. UNCHANGED <<events, rows, marker, importer, rebuild, excused, overlap>>
    BY <1>3 DEF OpenStores
  <2>5. writeFaults' \in Nat
    BY <1>t, <2>1 DEF WriteFault
  <2> QED BY <1>1, <1>t, <2>2, <2>3, <2>4, <2>5 DEF DualTypes
<1>4. ASSUME NEW w \in Writers, AppendPrimary(w) PROVE DualTypes'
  <2>1. [id |-> <<w, 0>>, key |-> writer[w].key, stamp |-> None] \in Events
    BY <1>t, <1>e DEF Events, WriterStates
  <2>2. events' \subseteq Events /\ excused' \subseteq EventIds
    BY <1>4, <1>t, <1>e, <2>1 DEF AppendPrimary
  <2>3. writer' \in [Writers -> WriterStates]
    BY <1>2, <1>4 DEF AppendPrimary, LabelsOfWriter
  <2> QED BY <1>4, <1>t, <2>2, <2>3 DEF AppendPrimary, DualTypes
<1>5. ASSUME NEW w \in Writers,
             \/ AppendPrimaryThrows(w) \/ InsertRow(w) \/ WriteMarkerThrows(w) \/ WriterDies(w)
      PROVE  DualTypes'
  <2>1. writer' \in [Writers -> WriterStates]
    BY <1>2, <1>5 DEF AppendPrimaryThrows, InsertRow, WriteMarkerThrows, WriterDies, LabelsOfWriter
  <2>2. /\ UNCHANGED <<events, marker, importer, rebuild, overlap>>
        /\ rows' \subseteq EventIds /\ excused' \subseteq EventIds
        /\ writeFaults' \in Nat
    BY <1>5, <1>t, <1>e
       DEF AppendPrimaryThrows, InsertRow, WriteMarkerThrows, WriterDies, WriteFault
  <2> QED BY <1>t, <2>1, <2>2 DEF DualTypes
<1>6. ASSUME NEW w \in Writers, InsertRowThrows(w) PROVE DualTypes'
  <2>1. writer' = [writer EXCEPT ![w] = [writer[w] EXCEPT !.pc = "mark", !.seen = marker]]
    BY <1>6, <1>t DEF InsertRowThrows
  <2>2. [writer[w] EXCEPT !.pc = "mark", !.seen = marker] \in WriterStates
    BY <1>t DEF WriterStates, LabelsOfWriter
  <2>3. /\ UNCHANGED <<events, rows, marker, importer, rebuild, excused, overlap>>
        /\ writeFaults' \in Nat
    BY <1>6, <1>t DEF InsertRowThrows, WriteFault
  <2> QED BY <1>1, <1>t, <2>1, <2>2, <2>3 DEF DualTypes
<1>7. ASSUME NEW w \in Writers, WriteMarker(w) PROVE DualTypes'
  <2>1. writer' \in [Writers -> WriterStates]
    BY <1>2, <1>7 DEF WriteMarker, LabelsOfWriter
  <2>2. marker' \in Nat
    BY <1>7, <1>t DEF WriteMarker, WriterStates
  <2>3. rebuild' \in RebuildStates
    BY <1>7, <1>t DEF WriteMarker, RebuildStates
  <2> QED BY <1>7, <1>t, <2>1, <2>2, <2>3 DEF WriteMarker, DualTypes
\* `sync codex`.
<1>8. ASSUME NEW i \in Importers, NEW s \in ImporterStates,
             importer' = [importer EXCEPT ![i] = s]
      PROVE  importer' \in [Importers -> ImporterStates]
  BY <1>8, <1>t
<1>9. ASSUME NEW i \in Importers, ImportReadsLog(i) PROVE DualTypes'
  <2>1. importer' = [importer EXCEPT ![i] = [importer[i] EXCEPT !.pc = "import", !.known = Stamps]]
    BY <1>9, <1>t DEF ImportReadsLog
  <2>2. [importer[i] EXCEPT !.pc = "import", !.known = Stamps] \in ImporterStates
    BY <1>t, EventTypes DEF ImporterStates
  <2>3. /\ UNCHANGED <<events, rows, marker, writer, rebuild, excused, writeFaults>>
        /\ overlap' \in BOOLEAN
    BY <1>9 DEF ImportReadsLog
  <2> QED BY <1>8, <1>t, <2>1, <2>2, <2>3 DEF DualTypes
<1>10. ASSUME NEW i \in Importers, ImportEntry(i) PROVE DualTypes'
  <2> DEFINE n == importer[i].next
             s == [importer[i] EXCEPT !.known = @ \cup {History[n]}, !.next = n + 1]
  <2>1. importer' = [importer EXCEPT ![i] = s]
    BY <1>10, <1>t DEF ImportEntry
  <2>2. n \in Nat \ {0} /\ n \in DOMAIN History
    BY <1>10, <1>t DEF ImportEntry, ImporterStates
  <2>3. s \in ImporterStates
    <3>1. importer[i] \in ImporterStates
      BY <1>t
    <3>2. importer[i].known \cup {History[n]} \in SUBSET {History[m] : m \in DOMAIN History}
      BY <2>2, <3>1 DEF ImporterStates
    <3>3. n + 1 \in Nat \ {0}
      BY <2>2
    <3> QED BY <3>1, <3>2, <3>3 DEF ImporterStates
  <2>4. [id |-> <<i, n>>, key |-> None, stamp |-> History[n]] \in Events
    BY <1>e, <2>2 DEF Events
  <2>5. events' \subseteq Events /\ excused' \subseteq EventIds
    BY <1>10, <1>t, <1>e, <2>2, <2>4 DEF ImportEntry
  <2>6. importer' \in [Importers -> ImporterStates]
    BY <1>8, <2>1, <2>3
  <2> QED BY <1>10, <1>t, <2>5, <2>6 DEF ImportEntry, DualTypes
<1>11. ASSUME NEW i \in Importers, ImportEntryThrows(i) \/ ImportEnds(i) PROVE DualTypes'
  <2>1. /\ UNCHANGED <<events, rows, marker, writer, rebuild, excused, overlap>>
        /\ writeFaults' \in Nat
    BY <1>11, <1>t DEF ImportEntryThrows, ImportEnds, WriteFault
  <2>2. CASE ImportEntryThrows(i)
    <3>1. importer' = [importer EXCEPT ![i] = [importer[i] EXCEPT !.next = importer[i].next + 1]]
      BY <2>2, <1>t DEF ImportEntryThrows
    <3>2. [importer[i] EXCEPT !.next = importer[i].next + 1] \in ImporterStates
      BY <1>t DEF ImporterStates
    <3> QED BY <1>8, <1>t, <2>1, <3>1, <3>2 DEF DualTypes
  <2>3. CASE ImportEnds(i)
    <3>1. importer' = [importer EXCEPT ![i] = [importer[i] EXCEPT !.pc = "done"]]
      BY <2>3, <1>t DEF ImportEnds
    <3>2. [importer[i] EXCEPT !.pc = "done"] \in ImporterStates
      BY <1>t DEF ImporterStates
    <3> QED BY <1>8, <1>t, <2>1, <3>1, <3>2 DEF DualTypes
  <2> QED BY <1>11, <2>2, <2>3
\* `sync db`.
<1>12. ASSUME RebuildReadsMarker \/ RebuildReadsLog \/ RebuildDies PROVE DualTypes'
  <2>1. /\ UNCHANGED <<events, rows, marker, writer, importer, excused, overlap>>
        /\ writeFaults' \in Nat
    BY <1>12, <1>t DEF RebuildReadsMarker, RebuildReadsLog, RebuildDies, WriteFault
  <2>2. rebuild' \in RebuildStates
    <3>1. CASE RebuildReadsMarker
      <4>1. rebuild' = [rebuild EXCEPT !.pc = "read", !.before = marker, !.runs = rebuild.runs + 1]
        BY <3>1 DEF RebuildReadsMarker
      <4>2. rebuild.runs + 1 \in Nat
        BY <1>t DEF RebuildStates
      <4> QED BY <1>t, <4>1, <4>2 DEF RebuildStates
    <3>2. CASE RebuildReadsLog
      <4>1. Ids \in SUBSET EventIds
        BY EventTypes
      <4> QED BY <3>2, <4>1, <1>t DEF RebuildReadsLog, RebuildStates
    <3>3. CASE RebuildDies
      BY <3>3, <1>t DEF RebuildDies, RebuildStates
    <3> QED BY <1>12, <3>1, <3>2, <3>3
  <2> QED BY <1>t, <2>1, <2>2 DEF DualTypes
<1>13. ASSUME RebuildInserts PROVE DualTypes'
  <2>1. PICK lost \in SUBSET rebuild.todo :
          /\ IF lost = {} THEN UNCHANGED writeFaults ELSE WriteFault
          /\ rows' = rows \cup (rebuild.todo \ lost)
          /\ rebuild' = [rebuild EXCEPT !.pc = "finish", !.failed = (lost # {}), !.todo = {}]
    BY <1>13 DEF RebuildInserts
  <2>2. rebuild' \in RebuildStates
    <3>1. (lost # {}) \in BOOLEAN /\ {} \in SUBSET EventIds
      OBVIOUS
    <3> QED BY <1>t, <2>1, <3>1 DEF RebuildStates
  <2>3. rows' \subseteq EventIds
    BY <1>t, <2>1 DEF RebuildStates
  <2>4. writeFaults' \in Nat
    BY <1>t, <2>1 DEF WriteFault
  <2> QED BY <1>13, <1>t, <2>2, <2>3, <2>4 DEF RebuildInserts, DualTypes
<1>14. ASSUME RebuildFinishes PROVE DualTypes'
  <2>1. rebuild' \in RebuildStates
    BY <1>14, <1>t DEF RebuildFinishes, RebuildStates
  <2>2. marker' \in Nat /\ excused' \subseteq EventIds
    BY <1>14, <1>t, EventTypes DEF RebuildFinishes
  <2> QED BY <1>14, <1>t, <2>1, <2>2 DEF RebuildFinishes, DualTypes
<1>15. CASE UNCHANGED dualVars
  BY <1>t, <1>15 DEF dualVars, DualTypes
<1> QED
  BY <1>3, <1>4, <1>5, <1>6, <1>7, <1>9, <1>10, <1>11, <1>12, <1>13, <1>14, <1>15 DEF DualNext

-----------------------------------------------------------------------------
(***************************************************************************)
(* The steps.                                                              *)
(***************************************************************************)
LEMMA GoOnFacts ==
  ASSUME DualTypes, NEW w \in Writers, NEW pc, GoOn(w, pc)
  PROVE  /\ writer'[w].pc = pc /\ writer'[w].key = writer[w].key
         /\ \A v \in Writers \ {w} : writer'[v] = writer[v]
<1>1. writer' = [writer EXCEPT ![w] = [writer[w] EXCEPT !.pc = pc]]
  BY DEF GoOn, DualTypes
<1>2. writer[w] \in WriterStates
  BY DEF DualTypes
<1> QED BY <1>1, <1>2 DEF DualTypes, WriterStates

\* A step that leaves the stores alone and in which one hook, that has nothing
\* in hand, goes on with nothing in hand.
LEMMA StoresStay ==
  ASSUME IndexInv, NEW w \in Writers,
         writer[w].pc \notin {"insert", "mark"}, writer'[w].pc \notin {"insert", "mark"},
         writer[w].pc = "done" => writer'[w].pc = "done",
         writer[w].key = writer'[w].key \/ writer[w].pc \in {"new", "append"},
         \A v \in Writers \ {w} : writer'[v] = writer[v],
         UNCHANGED <<events, rows, marker, excused, rebuild>>, DualTypes'
  PROVE  IndexInv'
<1>1. Ids' = Ids
  BY DEF Ids
<1>2. \A e \in Ids : InHand(e)' <=> InHand(e)
  BY DEF InHand
<1>3. Open' = Open
  BY <1>1, <1>2 DEF Open
<1>4. WritersRecorded'
  <2>1. \A v \in Writers \ {w} : Recorded(v)' <=> Recorded(v)
    BY <1>1 DEF Recorded
  <2>2. Recorded(w) => Recorded(w)' \/ (<<w, 0>> \notin Ids \cup rows)
    BY <1>1 DEF Recorded, IndexInv, WritersRecorded
  <2>3. \A r \in rows : r \in Ids \/ (r \in Writers \X {0} /\ Recorded(r[1])')
    <3> TAKE r \in rows
    <3>1. r \in Ids \/ (r \in Writers \X {0} /\ Recorded(r[1]))
      BY DEF IndexInv, WritersRecorded
    <3>2. r \in Writers \X {0} => r = <<r[1], 0>> /\ r[1] \in Writers
      OBVIOUS
    <3> QED BY <2>1, <2>2, <3>1, <3>2
  <2>4. \A v \in Writers : writer'[v].pc \in {"insert", "mark"} => Recorded(v)'
    BY <2>1 DEF IndexInv, WritersRecorded
  <2>5. \A v \in Writers : writer'[v].pc \in {"new", "append"} => <<v, 0>> \notin Ids \cup rows
    <3> TAKE v \in Writers
    <3>1. writer[w].pc \in LabelsOfWriter
      BY DEF IndexInv, DualTypes, WriterStates
    <3>2. writer'[v].pc \in {"new", "append"} => writer[v].pc \in {"new", "append"}
      BY <3>1 DEF LabelsOfWriter
    <3> QED BY <3>2 DEF IndexInv, WritersRecorded
  <2> QED BY <1>1, <2>3, <2>4, <2>5 DEF IndexInv, WritersRecorded
<1> QED BY <1>3, <1>4 DEF IndexInv, Covered

LEMMA OpenStoresIndex ==
  ASSUME IndexInv, NEW w \in Writers, OpenStores(w), DualTypes' PROVE IndexInv'
<1>1. PICK k \in Keys \cup {None}, opened \in BOOLEAN :
        writer' = [writer EXCEPT ![w].pc = "append", ![w].key = k, ![w].opened = opened]
  BY DEF OpenStores
<1>2. writer' = [writer EXCEPT ![w] = [writer[w] EXCEPT !.pc = "append", !.key = k,
                                                        !.opened = opened]]
  BY <1>1 DEF IndexInv, DualTypes
<1>3. writer'[w].pc = "append" /\ \A v \in Writers \ {w} : writer'[v] = writer[v]
  BY <1>2 DEF IndexInv, DualTypes, WriterStates
<1>4. writer[w].pc = "new" /\ UNCHANGED <<events, rows, marker, excused, rebuild>>
  BY DEF OpenStores, stores
<1> QED BY <1>3, <1>4, StoresStay

LEMMA AppendThrowsIndex ==
  ASSUME IndexInv, NEW w \in Writers, AppendPrimaryThrows(w), DualTypes' PROVE IndexInv'
<1>1. /\ writer[w].pc = "append" /\ GoOn(w, "done")
      /\ UNCHANGED <<events, rows, marker, excused, rebuild>>
  BY DEF AppendPrimaryThrows, stores
<1>2. writer'[w].pc = "done" /\ \A v \in Writers \ {w} : writer'[v] = writer[v]
  BY <1>1, GoOnFacts DEF IndexInv
<1> QED BY <1>1, <1>2, StoresStay

\* The event is new to the log, or its key is in it.
LEMMA AppendIndex_ ==
  ASSUME IndexInv, NEW w \in Writers, AppendPrimary(w), DualTypes' PROVE IndexInv'
<1> DEFINE k == writer[w].key
           new == [id |-> <<w, 0>>, key |-> k, stamp |-> None]
           pc == IF writer[w].opened THEN "insert" ELSE "done"
<1>1. /\ writer[w].pc = "append" /\ GoOn(w, pc) /\ UNCHANGED <<rows, marker, rebuild>>
      /\ excused' = IF writer[w].opened THEN excused ELSE excused \cup {<<w, 0>>}
  BY DEF AppendPrimary
<1>2. /\ writer'[w].pc = pc /\ writer'[w].key = k
      /\ \A v \in Writers \ {w} : writer'[v] = writer[v]
  BY <1>1, GoOnFacts DEF IndexInv
<1>3. \/ events' = events /\ k # None /\ \E e \in events : e.key = k
      \/ events' = events \cup {new}
  BY DEF AppendPrimary
<1>4. events \subseteq events' /\ (Ids' = Ids \/ Ids' = Ids \cup {<<w, 0>>})
  BY <1>3 DEF Ids
<1>5. Recorded(w)'
  <2>1. CASE events' = events \cup {new}
    <3>1. new \in events' /\ new.id = <<w, 0>>
      BY <2>1
    <3> QED BY <3>1 DEF Recorded, Ids
  <2>2. CASE events' = events /\ k # None /\ \E e \in events : e.key = k
    BY <1>2, <2>2 DEF Recorded
  <2> QED BY <1>3, <2>1, <2>2
<1>6. \A v \in Writers : Recorded(v) => Recorded(v)'
  <2> TAKE v \in Writers
  <2>1. CASE v = w
    BY <1>5, <2>1
  <2>2. CASE v # w
    BY <1>2, <1>4, <2>2 DEF Recorded
  <2> QED BY <2>1, <2>2
<1>7. WritersRecorded'
  <2>1. WritersRecorded
    BY DEF IndexInv
  <2>2. \A v \in Writers : writer'[v].pc \in {"insert", "mark"} => Recorded(v)'
    BY <1>2, <1>5, <1>6, <2>1 DEF WritersRecorded
  <2>3. \A v \in Writers : writer'[v].pc \in {"new", "append"} => <<v, 0>> \notin Ids' \cup rows'
    BY <1>1, <1>2, <1>4, <2>1 DEF WritersRecorded
  <2>4. \A r \in rows' : r \in Ids' \/ (r \in Writers \X {0} /\ Recorded(r[1])')
    BY <1>1, <1>4, <1>6, <2>1 DEF WritersRecorded
  <2>5. \A e \in Ids' : e \in Importers \X (Nat \ {0}) => e \in excused'
    BY <1>1, <1>4, <2>1 DEF WritersRecorded
  <2>6. rebuild'.todo \subseteq Ids'
    BY <1>1, <1>4, <2>1 DEF WritersRecorded
  <2> QED BY <2>2, <2>3, <2>4, <2>5, <2>6 DEF WritersRecorded
<1>8. Open' \subseteq Open
  <2> SUFFICES ASSUME NEW e \in Open' PROVE e \in Open
    OBVIOUS
  <2>1. e \in Ids' /\ e \notin rows' \cup excused' /\ ~InHand(e)'
    BY DEF Open
  <2>2. CASE e = <<w, 0>>
    <3>1. writer'[w].pc # "insert"
      BY <2>1, <2>2 DEF InHand
    <3> QED BY <1>1, <1>2, <2>1, <2>2, <3>1
  <2>3. CASE e # <<w, 0>>
    <3>1. e \in Ids /\ e \notin rows \cup excused
      BY <1>1, <1>4, <2>1, <2>3
    <3>2. e \in Writers \X {0} => e = <<e[1], 0>> /\ e[1] \in Writers
      OBVIOUS
    <3>3. ~InHand(e)
      BY <1>2, <2>1, <2>3, <3>2 DEF InHand
    <3> QED BY <3>1, <3>3 DEF Open
  <2> QED BY <2>2, <2>3
<1> QED BY <1>1, <1>7, <1>8 DEF IndexInv, Covered

\* A hook ends with its row inserted, or excused, or with its marker written.
LEMMA HookEnds ==
  ASSUME IndexInv, DualTypes', NEW w \in Writers, GoOn(w, "done"),
         writer[w].pc \in {"append", "insert", "mark"},
         UNCHANGED <<events, rebuild>>,
         writer[w].pc \in {"insert", "mark"} => <<w, 0>> \in rows' \cup excused',
         rows' \in {rows, rows \cup {<<w, 0>>}}, rows' = rows \/ writer[w].pc = "insert",
         excused' \in {excused, excused \cup {<<w, 0>>}}, marker' = marker
  PROVE  IndexInv'
<1>1. /\ writer'[w].pc = "done" /\ writer'[w].key = writer[w].key
      /\ \A v \in Writers \ {w} : writer'[v] = writer[v]
  BY GoOnFacts DEF IndexInv
<1>2. Ids' = Ids
  BY DEF Ids
<1>3. \A v \in Writers : Recorded(v)' <=> Recorded(v)
  BY <1>1, <1>2 DEF Recorded
<1>4. WritersRecorded
  BY DEF IndexInv
<1>5. WritersRecorded'
  <2>1. \A v \in Writers : writer'[v].pc \in {"insert", "mark"} => Recorded(v)'
    BY <1>1, <1>3, <1>4 DEF WritersRecorded
  <2>2. \A v \in Writers : writer'[v].pc \in {"new", "append"} => <<v, 0>> \notin Ids' \cup rows'
    <3> SUFFICES ASSUME NEW v \in Writers, writer'[v].pc \in {"new", "append"}
                 PROVE  <<v, 0>> \notin Ids' \cup rows'
      OBVIOUS
    <3>1. v # w /\ writer'[v] = writer[v]
      BY <1>1
    <3>2. <<v, 0>> \notin Ids \cup rows
      BY <1>4, <3>1 DEF WritersRecorded
    <3>3. <<v, 0>> # <<w, 0>>
      BY <3>1
    <3> QED BY <1>2, <3>2, <3>3
  <2>3. \A r \in rows' : r \in Ids' \/ (r \in Writers \X {0} /\ Recorded(r[1])')
    <3> SUFFICES ASSUME NEW r \in rows' PROVE r \in Ids' \/ (r \in Writers \X {0} /\ Recorded(r[1])')
      OBVIOUS
    <3>1. CASE r \in rows
      <4>1. r \in Writers \X {0} => r[1] \in Writers
        OBVIOUS
      <4> QED BY <1>2, <1>3, <1>4, <3>1, <4>1 DEF WritersRecorded
    <3>2. CASE r \notin rows
      <4>1. r = <<w, 0>> /\ writer[w].pc = "insert"
        BY <3>2
      <4>2. Recorded(w)'
        BY <1>3, <1>4, <4>1 DEF WritersRecorded
      <4>3. r[1] = w /\ r \in Writers \X {0}
        BY <4>1
      <4> QED BY <4>2, <4>3
    <3> QED BY <3>1, <3>2
  <2>4. \A e \in Ids' : e \in Importers \X (Nat \ {0}) => e \in excused'
    BY <1>2, <1>4 DEF WritersRecorded
  <2>5. rebuild'.todo \subseteq Ids'
    BY <1>2, <1>4 DEF WritersRecorded
  <2> QED BY <2>1, <2>2, <2>3, <2>4, <2>5 DEF WritersRecorded
<1>6. Open' \subseteq Open
  <2> SUFFICES ASSUME NEW e \in Open' PROVE e \in Open
    OBVIOUS
  <2>1. e \in Ids /\ e \notin rows' \cup excused' /\ ~InHand(e)'
    BY <1>2 DEF Open
  <2>2. e \notin rows \cup excused
    BY <2>1
  <2>3. CASE e = <<w, 0>>
    <3>1. writer[w].pc = "append"
      BY <2>1, <2>3
    <3> QED BY <1>4, <2>1, <2>3, <3>1 DEF WritersRecorded
  <2>4. CASE e # <<w, 0>>
    <3>1. e \in Writers \X {0} => e = <<e[1], 0>> /\ e[1] \in Writers
      OBVIOUS
    <3>2. ~InHand(e)
      BY <1>1, <2>1, <2>4, <3>1 DEF InHand
    <3> QED BY <2>1, <2>2, <3>2 DEF Open
  <2> QED BY <2>3, <2>4
<1> QED BY <1>5, <1>6 DEF IndexInv, Covered

LEMMA HookEndsIndex ==
  ASSUME IndexInv, DualTypes', NEW w \in Writers,
         InsertRow(w) \/ WriteMarkerThrows(w) \/ WriterDies(w)
  PROVE  IndexInv'
<1>1. CASE InsertRow(w)
  <2>1. /\ writer[w].pc = "insert" /\ rows' = rows \cup {<<w, 0>>} /\ GoOn(w, "done")
        /\ UNCHANGED <<events, rebuild, marker, excused>>
    BY <1>1 DEF InsertRow
  <2> QED BY <2>1, HookEnds
<1>2. CASE WriteMarkerThrows(w)
  <2>1. /\ writer[w].pc = "mark" /\ excused' = excused \cup {<<w, 0>>} /\ GoOn(w, "done")
        /\ UNCHANGED <<events, rebuild, marker, rows>>
    BY <1>2 DEF WriteMarkerThrows, stores
  <2> QED BY <2>1, HookEnds
<1>3. CASE WriterDies(w)
  <2>1. /\ writer[w].pc \in {"append", "insert", "mark"} /\ GoOn(w, "done")
        /\ UNCHANGED <<events, rebuild, marker, rows>>
        /\ excused' = IF writer[w].pc = "append" THEN excused ELSE excused \cup {<<w, 0>>}
    BY <1>3 DEF WriterDies, stores
  <2> QED BY <2>1, HookEnds
<1> QED BY <1>1, <1>2, <1>3

LEMMA InsertThrowsIndex ==
  ASSUME IndexInv, DualTypes', NEW w \in Writers, InsertRowThrows(w) PROVE IndexInv'
<1>1. /\ writer[w].pc = "insert" /\ UNCHANGED <<events, rows, marker, excused, rebuild>>
      /\ writer' = [writer EXCEPT ![w] = [writer[w] EXCEPT !.pc = "mark", !.seen = marker]]
  BY DEF InsertRowThrows, stores, IndexInv, DualTypes
<1>2. /\ writer'[w].pc = "mark" /\ writer'[w].key = writer[w].key
      /\ \A v \in Writers \ {w} : writer'[v] = writer[v]
  BY <1>1 DEF IndexInv, DualTypes, WriterStates
<1>3. Ids' = Ids
  BY <1>1 DEF Ids
<1>4. \A v \in Writers : Recorded(v)' <=> Recorded(v)
  BY <1>1, <1>2, <1>3 DEF Recorded
<1>5. \A e \in Ids : InHand(e)' <=> InHand(e)
  <2> TAKE e \in Ids
  <2>1. e \in Writers \X {0} => e[1] \in Writers
    OBVIOUS
  <2> QED BY <1>1, <1>2, <2>1 DEF InHand
<1>6. Open' = Open
  BY <1>1, <1>3, <1>5 DEF Open
<1>7. WritersRecorded
  BY DEF IndexInv
<1>8. WritersRecorded'
  <2>1. \A v \in Writers : writer'[v].pc \in {"insert", "mark"} => Recorded(v)'
    BY <1>1, <1>2, <1>4, <1>7 DEF WritersRecorded
  <2>2. \A v \in Writers : writer'[v].pc \in {"new", "append"} => <<v, 0>> \notin Ids' \cup rows'
    BY <1>1, <1>2, <1>3, <1>7 DEF WritersRecorded
  <2>3. \A r \in rows' : r \in Ids' \/ (r \in Writers \X {0} /\ Recorded(r[1])')
    <3> TAKE r \in rows'
    <3>1. r \in Writers \X {0} => r[1] \in Writers
      OBVIOUS
    <3> QED BY <1>1, <1>3, <1>4, <1>7, <3>1 DEF WritersRecorded
  <2> QED BY <1>1, <1>3, <1>7, <2>1, <2>2, <2>3 DEF WritersRecorded
<1> QED BY <1>1, <1>6, <1>8 DEF IndexInv, Covered

\* The marker stands for every open event, and `sync db` is told of it.
LEMMA WriteMarkerIndex ==
  ASSUME IndexInv, DualTypes', NEW w \in Writers, WriteMarker(w) PROVE IndexInv'
<1>1. /\ writer[w].pc = "mark" /\ UNCHANGED <<events, rows, excused>>
      /\ marker' = writer[w].seen + 1 /\ GoOn(w, "done")
      /\ rebuild' = [rebuild EXCEPT !.marked = (rebuild.pc # "idle")]
  BY DEF WriteMarker
<1>2. /\ writer'[w].pc = "done" /\ writer'[w].key = writer[w].key
      /\ \A v \in Writers \ {w} : writer'[v] = writer[v]
  BY <1>1, GoOnFacts DEF IndexInv
<1>3. Ids' = Ids
  BY <1>1 DEF Ids
<1>4. \A v \in Writers : Recorded(v)' <=> Recorded(v)
  BY <1>1, <1>2, <1>3 DEF Recorded
<1>5. marker' > 0
  BY <1>1 DEF IndexInv, DualTypes, WriterStates
<1>6. /\ rebuild'.pc = rebuild.pc /\ rebuild'.todo = rebuild.todo
      /\ rebuild'.marked = (rebuild.pc # "idle")
  BY <1>1 DEF IndexInv, DualTypes, RebuildStates
<1>7. Covered'
  BY <1>6 DEF Covered
<1>8. WritersRecorded
  BY DEF IndexInv
<1>9. WritersRecorded'
  <2>1. \A v \in Writers : writer'[v].pc \in {"insert", "mark"} => Recorded(v)'
    BY <1>1, <1>2, <1>4, <1>8 DEF WritersRecorded
  <2>2. \A v \in Writers : writer'[v].pc \in {"new", "append"} => <<v, 0>> \notin Ids' \cup rows'
    BY <1>1, <1>2, <1>3, <1>8 DEF WritersRecorded
  <2>3. \A r \in rows' : r \in Ids' \/ (r \in Writers \X {0} /\ Recorded(r[1])')
    <3> TAKE r \in rows'
    <3>1. r \in Writers \X {0} => r[1] \in Writers
      OBVIOUS
    <3> QED BY <1>1, <1>3, <1>4, <1>8, <3>1 DEF WritersRecorded
  <2> QED BY <1>1, <1>3, <1>6, <1>8, <2>1, <2>2, <2>3 DEF WritersRecorded
<1> QED BY <1>5, <1>7, <1>9 DEF IndexInv

\* Nothing that the invariant speaks of moves.
LEMMA IndexStays ==
  ASSUME IndexInv, DualTypes', UNCHANGED <<events, rows, marker, excused, writer>>,
         rebuild'.todo \subseteq Ids, Covered'
  PROVE  IndexInv'
<1>1. Ids' = Ids /\ Open' = Open
  BY DEF Ids, Open, InHand
<1>2. \A v \in Writers : Recorded(v)' <=> Recorded(v)
  BY <1>1 DEF Recorded
<1>3. WritersRecorded'
  <2>1. \A r \in rows : r \in Ids \/ (r \in Writers \X {0} /\ Recorded(r[1])')
    <3> TAKE r \in rows
    <3>1. r \in Writers \X {0} => r[1] \in Writers
      OBVIOUS
    <3> QED BY <1>2, <3>1 DEF IndexInv, WritersRecorded
  <2> QED BY <1>1, <1>2, <2>1 DEF IndexInv, WritersRecorded
<1> QED BY <1>1, <1>3 DEF IndexInv

LEMMA ImportEntryIndex ==
  ASSUME IndexInv, DualTypes', NEW i \in Importers, ImportEntry(i) PROVE IndexInv'
<1> USE DualWriteAssumption
<1> DEFINE n == importer[i].next
           new == [id |-> <<i, n>>, key |-> None, stamp |-> History[n]]
<1>0. n \in Nat \ {0}
  BY DEF IndexInv, DualTypes, ImporterStates
<1>1. /\ UNCHANGED <<rows, marker, writer, rebuild>>
      /\ \/ UNCHANGED <<events, excused>>
         \/ events' = events \cup {new} /\ excused' = excused \cup {<<i, n>>}
  BY DEF ImportEntry
<1> HIDE DEF n
<1>2. CASE UNCHANGED <<events, excused>>
  <2>1. Covered' /\ rebuild'.todo \subseteq Ids
    BY <1>1, <1>2 DEF IndexInv, Covered, WritersRecorded, Open, Ids, InHand
  <2> QED BY <1>1, <1>2, <2>1, IndexStays
<1>3. CASE events' = events \cup {new} /\ excused' = excused \cup {<<i, n>>}
  <2>0. new.id = <<i, n>>
    OBVIOUS
  <2> HIDE DEF new
  <2>1. Ids' = Ids \cup {<<i, n>>}
    BY <1>3, <2>0 DEF Ids
  <2>2. \A v \in Writers : Recorded(v) => Recorded(v)'
    BY <1>1, <1>3, <2>1 DEF Recorded
  <2>3. \A v \in Writers : <<v, 0>> # <<i, n>>
    BY <1>0
  <2>4. WritersRecorded
    BY DEF IndexInv
  <2>5. WritersRecorded'
    <3>1. \A r \in rows' : r \in Ids' \/ (r \in Writers \X {0} /\ Recorded(r[1])')
      <4> TAKE r \in rows'
      <4>1. r \in Writers \X {0} => r[1] \in Writers
        OBVIOUS
      <4> QED BY <1>1, <2>1, <2>2, <2>4, <4>1 DEF WritersRecorded
    <3>2. \A v \in Writers : writer'[v].pc \in {"new", "append"} => <<v, 0>> \notin Ids' \cup rows'
      BY <1>1, <2>1, <2>3, <2>4 DEF WritersRecorded
    <3>3. \A e \in Ids' : e \in Importers \X (Nat \ {0}) => e \in excused'
      BY <1>3, <2>1, <2>4 DEF WritersRecorded
    <3>4. \A v \in Writers : writer'[v].pc \in {"insert", "mark"} => Recorded(v)'
      BY <1>1, <2>2, <2>4 DEF WritersRecorded
    <3>5. rebuild'.todo \subseteq Ids'
      BY <1>1, <2>1, <2>4 DEF WritersRecorded
    <3> QED BY <3>1, <3>2, <3>3, <3>4, <3>5 DEF WritersRecorded
  <2>6. Open' \subseteq Open
    BY <1>1, <1>3, <2>1 DEF Open, InHand
  <2> QED BY <1>1, <2>5, <2>6 DEF IndexInv, Covered
<1> QED BY <1>1, <1>2, <1>3

LEMMA RebuildIndex ==
  ASSUME IndexInv, DualTypes', RebuildReadsMarker \/ RebuildReadsLog \/ RebuildDies
  PROVE  IndexInv'
<1>1. UNCHANGED <<events, rows, marker, excused, writer>> /\ Open' = Open
  BY DEF RebuildReadsMarker, RebuildReadsLog, RebuildDies, stores, Open, Ids, InHand
<1>2. rebuild'.todo \subseteq Ids
  BY DEF RebuildReadsMarker, RebuildReadsLog, RebuildDies, IndexInv, WritersRecorded, DualTypes,
         RebuildStates
<1>3. Covered'
  <2>1. rebuild'.pc \in {"read", "idle"} \/ (rebuild'.pc = "insert" /\ rebuild'.todo = Ids)
    BY DEF RebuildReadsMarker, RebuildReadsLog, RebuildDies, IndexInv, DualTypes, RebuildStates
  <2> QED BY <1>1, <2>1 DEF Covered, Open
<1> QED BY <1>1, <1>2, <1>3, IndexStays

LEMMA RebuildInsertsIndex ==
  ASSUME IndexInv, DualTypes', RebuildInserts PROVE IndexInv'
<1>1. PICK lost \in SUBSET rebuild.todo :
        /\ rows' = rows \cup (rebuild.todo \ lost)
        /\ rebuild' = [rebuild EXCEPT !.pc = "finish", !.failed = (lost # {}), !.todo = {}]
  BY DEF RebuildInserts
<1>2. /\ rebuild.pc = "insert" /\ UNCHANGED <<events, marker, excused, writer>> /\ Ids' = Ids
      /\ \A v \in Writers : Recorded(v)' <=> Recorded(v)
  BY DEF RebuildInserts, Ids, Recorded
<1>3. /\ rebuild'.pc = "finish" /\ rebuild'.todo = {} /\ rebuild'.failed = (lost # {})
      /\ rebuild'.marked = rebuild.marked
  BY <1>1 DEF IndexInv, DualTypes, RebuildStates
<1>4. WritersRecorded
  BY DEF IndexInv
<1>5. WritersRecorded'
  <2>1. \A r \in rows' : r \in Ids' \/ (r \in Writers \X {0} /\ Recorded(r[1])')
    <3> TAKE r \in rows'
    <3>1. r \in Writers \X {0} => r[1] \in Writers
      OBVIOUS
    <3>2. r \in Ids \/ r \in rows
      BY <1>1, <1>4 DEF WritersRecorded
    <3> QED BY <1>2, <1>4, <3>1, <3>2 DEF WritersRecorded
  <2>2. \A v \in Writers : writer'[v].pc \in {"new", "append"} => <<v, 0>> \notin Ids' \cup rows'
    BY <1>1, <1>2, <1>4 DEF WritersRecorded
  <2> QED BY <1>2, <1>3, <1>4, <2>1, <2>2 DEF WritersRecorded
<1>6. Open' \subseteq Open /\ (lost = {} => Open' \cap rebuild.todo = {})
  BY <1>1, <1>2 DEF Open, InHand
<1>7. Covered'
  <2>1. ~rebuild.marked => Open \subseteq rebuild.todo
    BY <1>2 DEF IndexInv, Covered
  <2> QED BY <1>3, <1>6, <2>1 DEF Covered
<1> QED BY <1>2, <1>5, <1>6, <1>7 DEF IndexInv

\* The marker may be cleared: whatever was open has a row, or a marker was
\* written meanwhile and goes with the old one.
LEMMA RebuildFinishesIndex ==
  ASSUME IndexInv, DualTypes', RebuildFinishes PROVE IndexInv'
<1> DEFINE clears == rebuild.before > 0 /\ ~rebuild.failed
<1>1. /\ rebuild.pc = "finish" /\ UNCHANGED <<events, rows, writer>> /\ Ids' = Ids
      /\ marker' = IF clears THEN 0 ELSE marker
      /\ excused' = IF clears /\ rebuild.marked THEN excused \cup (Ids \ rows) ELSE excused
      /\ \A v \in Writers : Recorded(v)' <=> Recorded(v)
  BY DEF RebuildFinishes, Ids, Recorded
<1>2. rebuild'.pc = "idle" /\ rebuild'.todo = rebuild.todo
  BY DEF RebuildFinishes, IndexInv, DualTypes, RebuildStates
<1>3. WritersRecorded
  BY DEF IndexInv
<1>4. WritersRecorded'
  <2>1. \A r \in rows' : r \in Ids' \/ (r \in Writers \X {0} /\ Recorded(r[1])')
    <3> TAKE r \in rows'
    <3>1. r \in Writers \X {0} => r[1] \in Writers
      OBVIOUS
    <3> QED BY <1>1, <1>3, <3>1 DEF WritersRecorded
  <2> QED BY <1>1, <1>2, <1>3, <2>1 DEF WritersRecorded
<1>5. Open' \subseteq Open
  BY <1>1 DEF Open, InHand
<1>6. Open' # {} => marker' > 0
  <2>1. CASE clears /\ rebuild.marked
    BY <1>1, <2>1 DEF Open
  <2>2. CASE clears /\ ~rebuild.marked
    BY <1>1, <1>5, <2>2 DEF IndexInv, Covered
  <2>3. CASE ~clears
    BY <1>1, <1>5, <2>3 DEF IndexInv
  <2> QED BY <2>1, <2>2, <2>3
<1> QED BY <1>2, <1>4, <1>6 DEF IndexInv, Covered

LEMMA IndexInvNext ==
  ASSUME IndexInv, [DualNext]_dualVars PROVE IndexInv'
<1>t. DualTypes'
  BY DualStepTypes DEF IndexInv
<1>1. ASSUME UNCHANGED <<stores, writer, rebuild, excused>> PROVE IndexInv'
  <2>1. Covered' /\ rebuild'.todo \subseteq Ids
    BY <1>1 DEF IndexInv, Covered, WritersRecorded, Open, Ids, InHand, stores
  <2> QED BY <1>1, <1>t, <2>1, IndexStays DEF stores
<1>2. ASSUME NEW i \in Importers, ImportReadsLog(i) \/ ImportEntryThrows(i) \/ ImportEnds(i)
      PROVE  IndexInv'
  BY <1>1, <1>2 DEF ImportReadsLog, ImportEntryThrows, ImportEnds
<1>3. CASE UNCHANGED dualVars
  BY <1>1, <1>3 DEF dualVars, processes
<1> QED
  BY <1>t, <1>2, <1>3, OpenStoresIndex, AppendIndex_, AppendThrowsIndex, HookEndsIndex,
     InsertThrowsIndex, WriteMarkerIndex, ImportEntryIndex, RebuildIndex, RebuildInsertsIndex,
     RebuildFinishesIndex DEF DualNext

(***************************************************************************)
(* For any number of hooks, imports, rebuilds and failures: every row      *)
(* belongs to an event of the log, and an event without a row that no hook *)
(* has in hand has left a divergence marker, or is one of the exceptions.  *)
(***************************************************************************)
THEOREM TheIndexFollows == DualSpec => []IndexFollowsLog
<1>1. DualInit => IndexInv
  BY IndexInvInit
<1>2. IndexInv /\ [DualNext]_dualVars => IndexInv'
  BY IndexInvNext
<1>3. IndexInv => IndexFollowsLog
  BY IndexInvFollows
<1> QED BY <1>1, <1>2, <1>3, PTL DEF DualSpec

-----------------------------------------------------------------------------
(***************************************************************************)
(* Importing the history.  While one import runs and no other has run at   *)
(* the same time, only it adds timestamps and hashes to the log, and it    *)
(* knows them all.                                                         *)
(***************************************************************************)
Importing(i) == importer[i].pc = "import"

ImportInv ==
  /\ \A i \in Importers : importer[i].known \subseteq Stamps
  /\ ~overlap =>
       /\ \A i, j \in Importers : Importing(i) /\ Importing(j) => i = j
       /\ \A i \in Importers : Importing(i) => Stamps \subseteq importer[i].known
       /\ \A d, e \in events : d.stamp = e.stamp => d = e \/ d.stamp = None
  /\ writeFaults = 0 =>
       \A i \in Importers : \A n \in 1..(importer[i].next - 1) : History[n] \in Stamps

LEMMA ImportInvInit == DualInit => ImportInv
  BY DEF DualInit, ImportInv, Importing, Stamps

LEMMA ImportInvNext ==
  ASSUME DualTypes, ImportInv, [DualNext]_dualVars PROVE ImportInv'
<1> USE DualWriteAssumption
<1> USE DEF stores, processes
<1>t. /\ importer \in [Importers -> ImporterStates] /\ writeFaults \in Nat /\ overlap \in BOOLEAN
  BY DEF DualTypes
<1>f. \/ writeFaults' = writeFaults \/ writeFaults' = writeFaults + 1
  BY DEF DualNext, OpenStores, AppendPrimary, AppendPrimaryThrows, InsertRow, InsertRowThrows,
     WriteMarker, WriteMarkerThrows, WriterDies, ImportReadsLog, ImportEntry, ImportEntryThrows,
     ImportEnds, RebuildReadsMarker, RebuildReadsLog, RebuildInserts, RebuildFinishes,
     RebuildDies, dualVars, WriteFault
<1>z. writeFaults' = 0 => writeFaults = 0
  BY <1>t, <1>f
\* The hooks add no timestamps.
<1>1. ASSUME UNCHANGED <<importer, overlap>>,
             events' = events \/ \E w \in Writers, k \in Keys \cup {None} :
               events' = events \cup {[id |-> <<w, 0>>, key |-> k, stamp |-> None]}
      PROVE  ImportInv'
  <2>1. Stamps' = Stamps
    BY <1>1 DEF Stamps
  <2>2. \A d \in events' : d \in events \/ d.stamp = None
    BY <1>1
  <2>3. ~overlap => \A d, e \in events' : d.stamp = e.stamp => d = e \/ d.stamp = None
    BY <2>2 DEF ImportInv
  <2> QED BY <1>1, <1>z, <2>1, <2>3 DEF ImportInv, Importing
<1>2. ASSUME NEW w \in Writers, AppendPrimary(w) PROVE ImportInv'
  <2>1. writer[w].key \in Keys \cup {None}
    BY DEF DualTypes, WriterStates
  <2> QED BY <1>1, <1>2, <2>1 DEF AppendPrimary
<1>3. ASSUME NEW i \in Importers, ImportReadsLog(i) PROVE ImportInv'
  <2>1. /\ importer' = [importer EXCEPT ![i] = [importer[i] EXCEPT !.pc = "import", !.known = Stamps]]
        /\ UNCHANGED <<events, writeFaults>> /\ importer[i].pc = "new"
        /\ overlap' = (overlap \/ \E j \in Importers : Importing(j))
    BY <1>3, <1>t DEF ImportReadsLog, Importing
  <2>2. /\ importer'[i].known = Stamps /\ importer'[i].next = importer[i].next
        /\ \A j \in Importers \ {i} : importer'[j] = importer[j]
    BY <1>t, <2>1 DEF ImporterStates
  <2>3. Stamps' = Stamps
    BY <2>1 DEF Stamps
  <2>4. ~overlap' => ~overlap /\ \A j \in Importers \ {i} : ~Importing(j)'
    BY <2>1, <2>2 DEF Importing
  <2> QED BY <2>1, <2>2, <2>3, <2>4 DEF ImportInv
<1>4. ASSUME NEW i \in Importers, ImportEntry(i) PROVE ImportInv'
  <2> DEFINE n == importer[i].next
             new == [id |-> <<i, n>>, key |-> None, stamp |-> History[n]]
  <2>1. /\ Importing(i) /\ n \in DOMAIN History /\ n \in Nat \ {0} /\ History[n] # None
        /\ UNCHANGED <<overlap, writeFaults>>
        /\ importer' = [importer EXCEPT ![i] = [importer[i] EXCEPT !.known = @ \cup {History[n]},
                                                                   !.next = n + 1]]
        /\ events' = IF History[n] \in importer[i].known THEN events ELSE events \cup {new}
    BY <1>4, <1>t DEF ImportEntry, Importing, ImporterStates
  <2>2. /\ importer'[i].pc = "import" /\ importer'[i].known = importer[i].known \cup {History[n]}
        /\ importer'[i].next = n + 1
        /\ \A j \in Importers \ {i} : importer'[j] = importer[j]
    BY <1>t, <2>1 DEF ImporterStates, Importing
  <2>k. importer[i].known \subseteq Stamps
    BY DEF ImportInv
  <2> HIDE DEF n
  <2>3. Stamps' = Stamps \cup {History[n]}
    <3>1. CASE History[n] \in importer[i].known
      BY <2>1, <2>k, <3>1 DEF Stamps
    <3>2. CASE History[n] \notin importer[i].known
      <4>1. new.stamp = History[n]
        OBVIOUS
      <4> HIDE DEF new
      <4>2. events' = events \cup {new}
        BY <2>1, <3>2
      <4>3. Stamps' \subseteq Stamps \cup {History[n]}
        BY <4>1, <4>2 DEF Stamps
      <4>4. Stamps \cup {History[n]} \subseteq Stamps'
        BY <2>1, <4>1, <4>2 DEF Stamps
      <4> QED BY <4>3, <4>4
    <3> QED BY <3>1, <3>2
  <2>4. \A j \in Importers : importer'[j].known \subseteq Stamps'
    BY <2>2, <2>3 DEF ImportInv
  <2>5. ASSUME ~overlap'
        PROVE  /\ \A j, l \in Importers : Importing(j)' /\ Importing(l)' => j = l
               /\ \A j \in Importers : Importing(j)' => Stamps' \subseteq importer'[j].known
               /\ \A d, e \in events' : d.stamp = e.stamp => d = e \/ d.stamp = None
    <3>1. \A j \in Importers : Importing(j)' => j = i
      BY <2>1, <2>2, <2>5 DEF ImportInv, Importing
    <3>2. Stamps \subseteq importer[i].known
      BY <2>1, <2>5 DEF ImportInv
    <3>3. \A d, e \in events : d.stamp = e.stamp => d = e \/ d.stamp = None
      BY <2>1, <2>5 DEF ImportInv
    <3>4. CASE History[n] \in importer[i].known
      BY <2>1, <2>2, <2>3, <3>1, <3>2, <3>3, <3>4
    <3>5. CASE History[n] \notin importer[i].known
      <4>1. \A d \in events : d.stamp # History[n]
        BY <2>1, <3>2, <3>5 DEF Stamps
      <4>2. new.stamp = History[n]
        OBVIOUS
      <4> HIDE DEF new
      <4>3. \A d, e \in events' : d.stamp = e.stamp => d = e \/ d.stamp = None
        BY <2>1, <3>3, <3>5, <4>1, <4>2
      <4> QED BY <2>2, <2>3, <3>1, <3>2, <4>3
    <3> QED BY <3>4, <3>5
  <2>6. ASSUME writeFaults' = 0, NEW j \in Importers, NEW m \in 1..(importer'[j].next - 1)
        PROVE  History[m] \in Stamps'
    <3>1. CASE j = i /\ m = n
      BY <2>3, <3>1
    <3>2. CASE ~(j = i /\ m = n)
      <4>1. m \in 1..(importer[j].next - 1)
        <5>1. CASE j = i
          BY <2>1, <2>2, <2>6, <3>2, <5>1 DEF n
        <5>2. CASE j # i
          BY <2>2, <2>6, <5>2
        <5> QED BY <5>1, <5>2
      <4> QED BY <1>z, <2>3, <2>6, <4>1 DEF ImportInv
    <3> QED BY <3>1, <3>2
  <2> QED BY <2>4, <2>5, <2>6 DEF ImportInv
\* Without faults this happens only at the end of the history.
<1>5. ASSUME NEW i \in Importers, ImportEntryThrows(i) \/ ImportEnds(i) PROVE ImportInv'
  <2>1. /\ UNCHANGED <<events, overlap>> /\ importer[i].pc = "import"
        /\ \A j \in Importers : importer'[j].known = importer[j].known /\ (Importing(j)' => Importing(j))
    <3>1. CASE ImportEntryThrows(i)
      <4>1. /\ importer' = [importer EXCEPT ![i] = [importer[i] EXCEPT !.next = @ + 1]]
            /\ UNCHANGED <<events, overlap>> /\ importer[i].pc = "import"
        BY <1>t, <3>1 DEF ImportEntryThrows
      <4> QED BY <1>t, <4>1 DEF Importing, ImporterStates
    <3>2. CASE ImportEnds(i)
      <4>1. /\ importer' = [importer EXCEPT ![i] = [importer[i] EXCEPT !.pc = "done"]]
            /\ UNCHANGED <<events, overlap>> /\ importer[i].pc = "import"
        BY <1>t, <3>2 DEF ImportEnds
      <4> QED BY <1>t, <4>1 DEF Importing, ImporterStates
    <3> QED BY <1>5, <3>1, <3>2
  <2>2. writeFaults' = 0 => \A j \in Importers : importer'[j].next = importer[j].next
    <3>1. CASE ImportEntryThrows(i)
      BY <1>t, <3>1 DEF ImportEntryThrows, WriteFault
    <3>2. CASE ImportEnds(i)
      BY <1>t, <3>2 DEF ImportEnds, ImporterStates
    <3> QED BY <1>5, <3>1, <3>2
  <2>3. Stamps' = Stamps
    BY <2>1 DEF Stamps
  <2> QED BY <1>z, <2>1, <2>2, <2>3 DEF ImportInv
<1>6. ASSUME UNCHANGED <<events, importer, overlap>> PROVE ImportInv'
  BY <1>1, <1>6
<1> QED
  BY <1>2, <1>3, <1>4, <1>5, <1>6
  DEF DualNext, OpenStores, AppendPrimaryThrows, InsertRow, InsertRowThrows, WriteMarker,
      WriteMarkerThrows, WriterDies, RebuildReadsMarker, RebuildReadsLog, RebuildInserts,
      RebuildFinishes, RebuildDies, dualVars

(***************************************************************************)
(* For any history and any number of imports: while no two have            *)
(* overlapped, no timestamp and hash is in the log twice, and an import    *)
(* without faults leaves out nothing that it is past.                      *)
(***************************************************************************)
THEOREM HistoryEntersOnce == DualSpec => []HistoryImportedOnce
<1>1. DualInit => IndexInv /\ ImportInv
  BY IndexInvInit, ImportInvInit
<1>2. IndexInv /\ ImportInv /\ [DualNext]_dualVars => (IndexInv /\ ImportInv)'
  BY IndexInvNext, ImportInvNext DEF IndexInv
<1>3. ImportInv => HistoryImportedOnce
  BY DEF ImportInv, HistoryImportedOnce
<1> QED BY <1>1, <1>2, <1>3, PTL DEF DualSpec

-----------------------------------------------------------------------------
(***************************************************************************)
(* The attestation of commits: whatever a hook has not done by the time it *)
(* is at some label it has recorded, and a passing result that it holds or *)
(* has written is about a clean window of the session.                     *)
(***************************************************************************)
SessionEvents == [key : Nat \cup {NoKey}, kind : {"plain", "denial", "commit", "attempt"},
                  hash : {"ok", "none", "bad"}]

HandlerLabels == {"new", "extract", "query", "write", "index", "note", "envelope",
                  "envelopeNote", "done", "dead"}

HandlerStates == [pc : HandlerLabels, in : Input, pass : BOOLEAN, length : Nat]

\* The hooks and the session keep their shape.
AttestorTypes ==
  /\ session \in Seq(SessionEvents)
  /\ handler \in [Handlers -> HandlerStates]
  /\ missteps \in Nat

AttestedCommits == {a.commit : a \in attested}

Reported(h) == h \in silenced \/ \E f \in missed : f.by = h

\* Everything there is to do for commit k, but for its note.
DoneButNote(k) ==
  /\ k \in AttestedCommits /\ k \in indexed
  /\ "PATCHWORK_INTOTO" \in variables =>
       k \in envelopes /\ <<"patchwork-intoto", k>> \in notes

\* What the hook has done by the time it is at its label.
Progress(h) ==
  LET k == handler[h].in.key
      at == handler[h].pc IN
  /\ at \in {"index", "note", "envelope", "envelopeNote"} => k \in AttestedCommits
  /\ at \in {"note", "envelope", "envelopeNote"} => k \in indexed
  /\ at \in {"envelope", "envelopeNote"} => Reported(h) \/ <<"patchwork", k>> \in notes
  /\ at = "envelopeNote" => k \in envelopes
  /\ at = "done" /\ handler[h].in.kind = "commit" /\ handler[h].in.stdout # "empty" =>
       Reported(h) \/ (DoneButNote(k) /\ <<"patchwork", k>> \in notes)

HandlerStep(h) ==
  \/ StoreEvent(h) \/ ExtractFails(h) \/ ReadSession(h)
  \/ WriteAttestation(h) \/ AppendIndex(h) \/ WriteAttestationThrows(h)
  \/ AddGitNote(h) \/ AddGitNoteThrows(h)
  \/ WriteEnvelope(h) \/ AddIntotoGitNote(h) \/ EnvelopeThrows(h) \/ HandlerDies(h)

LEMMA ProceedTo ==
  ASSUME AttestorTypes, NEW h \in Handlers, NEW at \in HandlerLabels, Proceed(h, at)
  PROVE  /\ handler' \in [Handlers -> HandlerStates]
         /\ handler'[h].pc = at /\ handler'[h].in = handler[h].in
         /\ handler'[h].pass = handler[h].pass /\ handler'[h].length = handler[h].length
         /\ \A g \in Handlers \ {h} : handler'[g] = handler[g]
<1>1. handler' = [handler EXCEPT ![h] = [handler[h] EXCEPT !.pc = at]]
  BY DEF Proceed, AttestorTypes
<1> QED BY <1>1 DEF AttestorTypes, HandlerStates

LEMMA StoreEventFacts ==
  ASSUME AttestorTypes, NEW h \in Handlers, StoreEvent(h)
  PROVE  \E i \in Inputs :
           /\ handler' \in [Handlers -> HandlerStates]
           /\ handler'[h].pc = AfterStore(i) /\ handler'[h].in = i
           /\ \A g \in Handlers \ {h} : handler'[g] = handler[g]
           /\ \/ session' = session
              \/ session' = Append(session, [key |-> i.key, kind |-> i.kind, hash |-> "ok"])
<1>1. PICK i \in Inputs :
        /\ session' = IF i.key # NoKey /\ \E n \in DOMAIN session : session[n].key = i.key
                      THEN session
                      ELSE Append(session, [key |-> i.key, kind |-> i.kind, hash |-> "ok"])
        /\ handler' = [handler EXCEPT ![h].pc = AfterStore(i), ![h].in = i]
  BY DEF StoreEvent
<1>2. AfterStore(i) \in HandlerLabels
  BY DEF AfterStore, HandlerLabels
<1>3. handler' = [handler EXCEPT ![h] = [handler[h] EXCEPT !.pc = AfterStore(i), !.in = i]]
  BY <1>1 DEF AttestorTypes
<1>4. i \in Input
  BY AttestorAssumption
<1> HIDE DEF AfterStore
<1>5. /\ handler' \in [Handlers -> HandlerStates]
      /\ handler'[h].pc = AfterStore(i) /\ handler'[h].in = i
      /\ \A g \in Handlers \ {h} : handler'[g] = handler[g]
  BY <1>2, <1>3, <1>4 DEF AttestorTypes, HandlerStates
<1> QED BY <1>1, <1>5

LEMMA ReadSessionFacts ==
  ASSUME AttestorTypes, NEW h \in Handlers, ReadSession(h)
  PROVE  /\ handler' \in [Handlers -> HandlerStates]
         /\ handler[h].pc = "query"
         /\ handler'[h].pc = "write" /\ handler'[h].in = handler[h].in
         /\ handler'[h].pass => (pass(session) /\ handler'[h].length = Len(session))
         /\ \A g \in Handlers \ {h} : handler'[g] = handler[g]
<1>1. pass(<<>>) = FALSE /\ pass(session) \in BOOLEAN
  BY DEF pass
<1>2. Len(session) \in Nat
  BY DEF AttestorTypes
<1>3. CASE handler' = [handler EXCEPT ![h].pc = "write", ![h].length = Len(session),
                                      ![h].pass = pass(session)]
  <2>1. handler' = [handler EXCEPT ![h] = [handler[h] EXCEPT !.pc = "write",
                      !.length = Len(session), !.pass = pass(session)]]
    BY <1>3 DEF AttestorTypes
  <2> QED BY <1>1, <1>2, <2>1 DEF AttestorTypes, HandlerStates, HandlerLabels, ReadSession
<1>4. CASE handler' = [handler EXCEPT ![h].pc = "write", ![h].pass = pass(<<>>)]
  <2>1. handler' = [handler EXCEPT ![h] = [handler[h] EXCEPT !.pc = "write", !.pass = FALSE]]
    BY <1>1, <1>4 DEF AttestorTypes
  <2> QED BY <1>1, <1>2, <2>1 DEF AttestorTypes, HandlerStates, HandlerLabels, ReadSession
<1> QED BY <1>3, <1>4 DEF ReadSession

LEMMA AttestorTypesNext ==
  ASSUME AttestorTypes, NEW h \in Handlers, HandlerStep(h)
  PROVE  AttestorTypes'
<1> USE DEF HandlerLabels
<1>1. missteps' \in Nat
  BY AttestorAssumption
  DEF AttestorTypes, HandlerStep, StoreEvent, ExtractFails, ReadSession, WriteAttestation,
      AppendIndex, WriteAttestationThrows, AddGitNote, AddGitNoteThrows, WriteEnvelope,
      AddIntotoGitNote, EnvelopeThrows, HandlerDies, RecordMissed, Misstep
<1>2. CASE StoreEvent(h)
  <2>1. PICK i \in Inputs :
          /\ handler' \in [Handlers -> HandlerStates]
          /\ \/ session' = session
             \/ session' = Append(session, [key |-> i.key, kind |-> i.kind, hash |-> "ok"])
    BY <1>2, StoreEventFacts
  <2>2. [key |-> i.key, kind |-> i.kind, hash |-> "ok"] \in SessionEvents
    BY AttestorAssumption DEF Input, SessionEvents
  <2>3. session' \in Seq(SessionEvents)
    BY <2>1, <2>2 DEF AttestorTypes
  <2> QED BY <1>1, <2>1, <2>3 DEF AttestorTypes
<1>3. CASE ReadSession(h)
  BY <1>1, <1>3, ReadSessionFacts DEF AttestorTypes, ReadSession
<1>4. CASE ~StoreEvent(h) /\ ~ReadSession(h)
  <2>1. session' = session
    BY <1>4
    DEF HandlerStep, ExtractFails, WriteAttestation, AppendIndex, WriteAttestationThrows,
        AddGitNote, AddGitNoteThrows, WriteEnvelope, AddIntotoGitNote, EnvelopeThrows, HandlerDies
  <2>2. \E at \in HandlerLabels : Proceed(h, at)
    BY <1>4
    DEF HandlerStep, ExtractFails, WriteAttestation, AppendIndex, WriteAttestationThrows,
        AddGitNote, AddGitNoteThrows, AfterNote, WriteEnvelope, AddIntotoGitNote,
        EnvelopeThrows, HandlerDies
  <2>3. handler' \in [Handlers -> HandlerStates]
    BY <2>2, ProceedTo
  <2> QED BY <1>1, <2>1, <2>3 DEF AttestorTypes
<1> QED BY <1>2, <1>3, <1>4

\* What the other hooks have done stays done.
LEMMA OthersProgress ==
  ASSUME AttestorTypes, NEW h \in Handlers, NEW g \in Handlers,
         handler'[g] = handler[g], variables' = variables, Progress(g),
         AttestedCommits \subseteq AttestedCommits', indexed \subseteq indexed',
         notes \subseteq notes', envelopes \subseteq envelopes',
         missed \subseteq missed', silenced \subseteq silenced'
  PROVE  Progress(g)'
<1>1. Reported(g) => Reported(g)'
  BY DEF Reported
<1>2. \A k : DoneButNote(k) => DoneButNote(k)'
  BY DEF DoneButNote
<1> HIDE DEF Reported, DoneButNote, AttestedCommits
<1> QED BY <1>1, <1>2 DEF Progress

LEMMA RecordFaults ==
  ASSUME NEW h, NEW stage, NEW faults, RecordMissed(h, stage, faults)
  PROVE  missed \subseteq missed' /\ silenced \subseteq silenced' /\ Reported(h)'
<1>1. CASE missed' = missed \cup {[by |-> h, stage |-> stage]} /\ UNCHANGED silenced
  <2> DEFINE f == [by |-> h, stage |-> stage]
  <2>1. f.by = h
    OBVIOUS
  <2> HIDE DEF f
  <2>2. f \in missed'
    BY <1>1 DEF f
  <2> QED BY <1>1, <2>1, <2>2 DEF Reported
<1>2. CASE silenced' = silenced \cup {h} /\ UNCHANGED missed
  BY <1>2 DEF Reported
<1> QED BY <1>1, <1>2 DEF RecordMissed

LEMMA WritesAttestation ==
  ASSUME NEW h \in Handlers, WriteAttestation(h)
  PROVE  AttestedCommits' = AttestedCommits \cup {handler[h].in.key}
<1> DEFINE c == handler[h].in.key
           new(source) == [commit |-> c, pass |-> handler[h].pass,
                           length |-> handler[h].length, source |-> source]
<1>1. PICK source \in signature_source :
        attested' = {a \in attested : a.commit # c} \cup {new(source)}
  BY DEF WriteAttestation
<1>2. new(source).commit = c
  OBVIOUS
<1> HIDE DEF new
<1>3. AttestedCommits' \subseteq AttestedCommits \cup {c}
  BY <1>1, <1>2 DEF AttestedCommits
<1>4. AttestedCommits \cup {c} \subseteq AttestedCommits'
  BY <1>1, <1>2 DEF AttestedCommits
<1> QED BY <1>3, <1>4

LEMMA ProgressNext ==
  ASSUME AttestorTypes, NEW h \in Handlers, HandlerStep(h), \A g \in Handlers : Progress(g)
  PROVE  \A g \in Handlers : Progress(g)'
<1> USE DEF HandlerLabels
<1>1. ASSUME Progress(h)', \A g \in Handlers \ {h} : handler'[g] = handler[g],
             variables' = variables, AttestedCommits \subseteq AttestedCommits',
             indexed \subseteq indexed', notes \subseteq notes', envelopes \subseteq envelopes',
             missed \subseteq missed', silenced \subseteq silenced'
      PROVE  \A g \in Handlers : Progress(g)'
  <2> TAKE g \in Handlers
  <2>1. CASE g = h
    BY <1>1, <2>1
  <2>2. CASE g # h
    <3>1. handler'[g] = handler[g]
      BY <1>1, <2>2
    <3> QED BY <1>1, <3>1, OthersProgress
  <2> QED BY <2>1, <2>2
<1>2. UNCHANGED attested => AttestedCommits' = AttestedCommits
  BY DEF AttestedCommits
<1>3. Progress(h)
  OBVIOUS
<1>4. CASE StoreEvent(h)
  <2>1. PICK i \in Inputs :
          /\ handler'[h].pc = AfterStore(i) /\ handler'[h].in = i
          /\ \A g \in Handlers \ {h} : handler'[g] = handler[g]
    BY <1>4, StoreEventFacts
  <2>2. Progress(h)'
    BY <2>1 DEF Progress, AfterStore
  <2> QED BY <1>1, <1>2, <1>4, <2>1, <2>2 DEF StoreEvent, artifacts
<1>5. CASE ExtractFails(h)
  <2>1. /\ handler'[h].pc = "done"
        /\ \A g \in Handlers \ {h} : handler'[g] = handler[g]
    BY <1>5, ProceedTo DEF ExtractFails
  <2>2. missed \subseteq missed' /\ silenced \subseteq silenced' /\ Reported(h)'
    BY <1>5, RecordFaults DEF ExtractFails
  <2>3. Progress(h)'
    BY <2>1, <2>2 DEF Progress
  <2> QED BY <1>1, <1>2, <1>5, <2>1, <2>2, <2>3 DEF ExtractFails, artifacts
<1>6. CASE ReadSession(h)
  <2>1. Progress(h)'
    BY <1>6, ReadSessionFacts DEF Progress
  <2> QED BY <1>1, <1>2, <1>6, <2>1, ReadSessionFacts DEF ReadSession, artifacts
<1>7. CASE WriteAttestation(h)
  <2>1. /\ handler'[h].pc = "index" /\ handler'[h].in = handler[h].in
        /\ \A g \in Handlers \ {h} : handler'[g] = handler[g]
    BY <1>7, ProceedTo DEF WriteAttestation
  <2>2. AttestedCommits' = AttestedCommits \cup {handler[h].in.key}
    BY <1>7, WritesAttestation
  <2>3. Progress(h)'
    BY <2>1, <2>2 DEF Progress
  <2> QED BY <1>1, <1>7, <2>1, <2>2, <2>3 DEF WriteAttestation
<1>8. CASE AppendIndex(h)
  <2>1. /\ handler'[h].pc = "note" /\ handler'[h].in = handler[h].in
        /\ \A g \in Handlers \ {h} : handler'[g] = handler[g]
    BY <1>8, ProceedTo DEF AppendIndex
  <2>2. Progress(h)'
    BY <1>2, <1>3, <1>8, <2>1 DEF Progress, AppendIndex
  <2> QED BY <1>1, <1>2, <1>8, <2>1, <2>2 DEF AppendIndex
<1>9. CASE WriteAttestationThrows(h)
  <2>1. /\ handler'[h].pc = "done"
        /\ \A g \in Handlers \ {h} : handler'[g] = handler[g]
    BY <1>9, ProceedTo DEF WriteAttestationThrows
  <2>2. missed \subseteq missed' /\ silenced \subseteq silenced' /\ Reported(h)'
    BY <1>9, RecordFaults DEF WriteAttestationThrows
  <2>3. Progress(h)'
    BY <2>1, <2>2 DEF Progress
  <2> QED BY <1>1, <1>2, <1>9, <2>1, <2>2, <2>3 DEF WriteAttestationThrows, artifacts
<1>10. CASE AddGitNote(h)
  <2>1. /\ handler'[h].pc = AfterNote /\ handler'[h].in = handler[h].in
        /\ \A g \in Handlers \ {h} : handler'[g] = handler[g]
    BY <1>10, ProceedTo DEF AddGitNote, AfterNote
  <2>2. /\ <<"patchwork", handler[h].in.key>> \in notes'
        /\ indexed' = indexed /\ variables' = variables /\ UNCHANGED attested
        /\ handler[h].pc = "note"
    BY <1>10 DEF AddGitNote
  <2>3. Progress(h)'
    BY <1>2, <1>3, <2>1, <2>2 DEF Progress, DoneButNote, AfterNote
  <2> QED BY <1>1, <1>2, <1>10, <2>1, <2>3 DEF AddGitNote
<1>11. CASE AddGitNoteThrows(h)
  <2>1. /\ handler'[h].pc = AfterNote /\ handler'[h].in = handler[h].in
        /\ \A g \in Handlers \ {h} : handler'[g] = handler[g]
    BY <1>11, ProceedTo DEF AddGitNoteThrows, AfterNote
  <2>2. missed \subseteq missed' /\ silenced \subseteq silenced' /\ Reported(h)'
    BY <1>11, RecordFaults DEF AddGitNoteThrows
  <2>3. indexed' = indexed /\ UNCHANGED attested /\ handler[h].pc = "note"
    BY <1>11 DEF AddGitNoteThrows, artifacts
  <2>4. Progress(h)'
    BY <1>2, <1>3, <2>1, <2>2, <2>3 DEF Progress, AfterNote
  <2> QED BY <1>1, <1>2, <1>11, <2>1, <2>2, <2>4 DEF AddGitNoteThrows, artifacts
<1>12. CASE WriteEnvelope(h)
  <2>1. /\ handler'[h].pc = "envelopeNote" /\ handler'[h].in = handler[h].in
        /\ \A g \in Handlers \ {h} : handler'[g] = handler[g]
    BY <1>12, ProceedTo DEF WriteEnvelope
  <2>2. /\ handler[h].in.key \in envelopes' /\ handler[h].pc = "envelope"
        /\ UNCHANGED <<notes, indexed, attested>> /\ (Reported(h) => Reported(h)')
    BY <1>12 DEF WriteEnvelope, Reported
  <2>3. Progress(h)'
    BY <1>2, <1>3, <2>1, <2>2 DEF Progress
  <2> QED BY <1>1, <1>2, <1>12, <2>1, <2>3 DEF WriteEnvelope
<1>13. CASE AddIntotoGitNote(h)
  <2>1. /\ handler'[h].pc = "done" /\ handler'[h].in = handler[h].in
        /\ \A g \in Handlers \ {h} : handler'[g] = handler[g]
    BY <1>13, ProceedTo DEF AddIntotoGitNote
  <2>2. /\ <<"patchwork-intoto", handler[h].in.key>> \in notes' /\ notes \subseteq notes'
        /\ handler[h].pc = "envelopeNote"
        /\ UNCHANGED <<envelopes, indexed, attested>> /\ (Reported(h) => Reported(h)')
    BY <1>13 DEF AddIntotoGitNote, Reported
  <2>3. Progress(h)'
    BY <1>2, <1>3, <2>1, <2>2 DEF Progress, DoneButNote
  <2> QED BY <1>1, <1>2, <1>13, <2>1, <2>3 DEF AddIntotoGitNote
<1>14. CASE EnvelopeThrows(h)
  <2>1. /\ handler'[h].pc = "done"
        /\ \A g \in Handlers \ {h} : handler'[g] = handler[g]
    BY <1>14, ProceedTo DEF EnvelopeThrows
  <2>2. missed \subseteq missed' /\ silenced \subseteq silenced' /\ Reported(h)'
    BY <1>14, RecordFaults DEF EnvelopeThrows
  <2>3. Progress(h)'
    BY <2>1, <2>2 DEF Progress
  <2> QED BY <1>1, <1>2, <1>14, <2>1, <2>2, <2>3 DEF EnvelopeThrows, artifacts
<1>15. CASE HandlerDies(h)
  <2>1. /\ handler'[h].pc = "dead"
        /\ \A g \in Handlers \ {h} : handler'[g] = handler[g]
    BY <1>15, ProceedTo DEF HandlerDies
  <2>2. Progress(h)'
    BY <2>1 DEF Progress
  <2> QED BY <1>1, <1>2, <1>15, <2>1, <2>2 DEF HandlerDies, artifacts
<1> QED
  BY <1>4, <1>5, <1>6, <1>7, <1>8, <1>9, <1>10, <1>11, <1>12, <1>13, <1>14, <1>15
  DEF HandlerStep

\* No hook is in silence about what it left out.
AccountInv == AttestorTypes /\ \A h \in Handlers : Progress(h)

LEMMA AccountInvInit == AttestorInit => AccountInv
<1> SUFFICES ASSUME AttestorInit PROVE AccountInv
  OBVIOUS
<1>1. session \in Seq(SessionEvents)
  <2>1. CASE session = <<>>
    BY <2>1
  <2>2. CASE session \in {<<[key |-> NoKey, kind |-> x[1], hash |-> x[2]]>> :
                x \in {<<"denial", "ok">>, <<"plain", "none">>, <<"plain", "bad">>}}
    <3>1. PICK x \in {<<"denial", "ok">>, <<"plain", "none">>, <<"plain", "bad">>} :
            session = <<[key |-> NoKey, kind |-> x[1], hash |-> x[2]]>>
      BY <2>2
    <3>2. [key |-> NoKey, kind |-> x[1], hash |-> x[2]] \in SessionEvents
      BY DEF SessionEvents
    <3> QED BY <3>1, <3>2
  <2> QED BY <2>1, <2>2 DEF AttestorInit
<1>2. [kind |-> "plain", key |-> NoKey, stdout |-> "empty"] \in Input
  BY DEF Input
<1>3. handler \in [Handlers -> HandlerStates] /\ missteps \in Nat
  BY <1>2 DEF AttestorInit, HandlerStates, HandlerLabels
<1>4. \A h \in Handlers : Progress(h)
  BY DEF AttestorInit, Progress
<1> QED BY <1>1, <1>3, <1>4 DEF AccountInv, AttestorTypes

LEMMA AccountInvNext == AccountInv /\ [AttestorNext]_attestorVars => AccountInv'
<1> SUFFICES ASSUME AccountInv, [AttestorNext]_attestorVars PROVE AccountInv'
  OBVIOUS
<1>1. CASE UNCHANGED attestorVars
  <2>1. \A g \in Handlers : Progress(g)'
    BY <1>1
    DEF attestorVars, artifacts, AccountInv, Progress, Reported, DoneButNote, AttestedCommits
  <2> QED BY <1>1, <2>1 DEF attestorVars, AccountInv, AttestorTypes
<1>2. ASSUME NEW h \in Handlers, HandlerStep(h) PROVE AccountInv'
  BY <1>2, AttestorTypesNext, ProgressNext DEF AccountInv
<1> QED BY <1>1, <1>2 DEF AttestorNext, HandlerStep

(***************************************************************************)
(* For any number of hooks, inputs and failures: once the hook of a        *)
(* successful commit is through, everything asked for is there or          *)
(* _failures.jsonl has a line of this hook.                                *)
(***************************************************************************)
THEOREM NoCommitMissedInSilence == AttestorSpec => []CommitAccountedFor
<1>1. AccountInv => CommitAccountedFor
  BY DEF AccountInv, Progress, CommitAccountedFor, Reported, DoneButNote, AttestedCommits
<1> QED BY <1>1, AccountInvInit, AccountInvNext, PTL DEF AttestorSpec

-----------------------------------------------------------------------------
LEMMA LeastOf ==
  ASSUME NEW T \in SUBSET Nat, T # {}
  PROVE  \E x \in T : \A y \in T : x <= y
<1> DEFINE R == {ss \in Nat \X Nat : ss[1] < ss[2]}
<1>1. IsWellFoundedOn(R, Nat)
  BY NatLessThanWellFounded DEF OpToRel
<1> HIDE DEF R
<1>2. \E x \in T : \A y \in T : ~(<<y, x>> \in R)
  BY <1>1, WFMin
<1>3. ASSUME NEW x \in T, NEW y \in T, ~(<<y, x>> \in R) PROVE x <= y
  BY <1>3 DEF R
<1> QED BY <1>2, <1>3

\* Max chooses the last of some positions, or 0.
LEMMA LastPosition ==
  ASSUME NEW n \in Nat, NEW T \in SUBSET (0..n), T # {}
  PROVE  Max(T) \in T /\ \A y \in T : y <= Max(T)
<1> DEFINE D == {n - y : y \in T}
<1>1. D \in SUBSET Nat /\ D # {}
  <2>1. ASSUME NEW y \in T PROVE y \in 0..n
    OBVIOUS
  <2>2. ASSUME NEW y \in T PROVE n - y \in Nat
    BY <2>1
  <2> QED BY <2>2
<1>2. PICK d \in D : \A e \in D : d <= e
  BY <1>1, LeastOf
<1>3. PICK x \in T : d = n - x
  OBVIOUS
<1>4. \A y \in T : x >= y
  <2> TAKE y \in T
  <2>1. n - x <= n - y
    BY <1>2, <1>3
  <2> QED BY <2>1
<1>5. \E y \in T : \A z \in T : y >= z
  BY <1>4
<1> HIDE DEF D
<1>6. Max(T) \in T /\ \A y \in T : Max(T) >= y
  BY <1>5 DEF Max
<1> QED BY <1>6

\* The first l events are a clean window, the l-th of them left aside.
CleanWindow(l) ==
  /\ l \in 1..Len(session)
  /\ \A n \in 1..l : session[n].hash # "bad"
  /\ \A n \in 1..(l - 1) : session[n].kind = "denial" =>
       \E m \in n..(l - 1) : looksLikeCommit(session[m])

LEMMA PassIsClean ==
  ASSUME AttestorTypes, pass(session)
  PROVE  CleanWindow(Len(session))
<1> DEFINE L == Len(session)
           prior == Front(session)
           commits == {n \in DOMAIN prior : looksLikeCommit(prior[n])}
           k == findLastCommitEventIndex(prior)
           w == SubSeq(prior, k + 1, Len(prior))
           denials == {n \in DOMAIN w : w[n].kind = "denial"}
<1>1. session \in Seq(SessionEvents) /\ session # <<>> /\ L \in Nat /\ L # 0
  BY DEF AttestorTypes, pass
<1>2. /\ prior \in Seq(SessionEvents) /\ Len(prior) = L - 1 /\ DOMAIN prior = 1..(L - 1)
      /\ \A n \in 1..(L - 1) : prior[n] = session[n]
  <2>1. prior \in Seq(SessionEvents) /\ Len(prior) = L - 1
    <3>1. \A n \in 1..(L - 1) : session[n] \in SessionEvents
      BY <1>1
    <3> HIDE DEF L
    <3>2. prior = SubSeq(session, 1, L - 1)
      BY DEF Front, L
    <3> HIDE DEF prior
    <3> QED BY <1>1, <3>1, <3>2, SubSeqProperties
  <2>2. \A n \in 1..(L - 1) : prior[n] = session[n]
    BY <1>1 DEF Front
  <2> QED BY <2>1, <2>2
<1>3. countHighRiskDenials(w) = 0
  BY <1>1 DEF pass, sinceLastCommit
<1>4. \A n \in 1..L : session[n].hash # "bad"
  BY <1>1 DEF pass, verifyEventHashes
<1>5. k \in {0} \cup commits /\ \A n \in commits : n <= k
  <2>1. {0} \cup commits \in SUBSET (0..L)
    BY <1>1, <1>2
  <2> HIDE DEF commits
  <2>2. /\ Max({0} \cup commits) \in {0} \cup commits
        /\ \A y \in {0} \cup commits : y <= Max({0} \cup commits)
    BY <1>1, <2>1, LastPosition
  <2> QED BY <2>2 DEF findLastCommitEventIndex, commits
<1>6. k \in 0..(L - 1)
  BY <1>1, <1>2, <1>5
<1> HIDE DEF prior, k
<1>7. /\ DOMAIN w = 1..((L - 1) - k)
      /\ \A n \in 1..((L - 1) - k) : w[n] = prior[n + k]
  BY <1>1, <1>2, <1>6
<1> HIDE DEF w
<1>8. denials = {}
  <2>1. IsFiniteSet(1..((L - 1) - k))
    BY <1>1, <1>6, FS_Interval
  <2>2. denials \in SUBSET (1..((L - 1) - k))
    BY <1>7
  <2>3. Cardinality(denials) = 0
    BY <1>3 DEF countHighRiskDenials
  <2> HIDE DEF denials
  <2>4. IsFiniteSet(denials)
    BY <2>1, <2>2, FS_Subset
  <2> QED BY <2>3, <2>4, FS_EmptySet
<1>9. ASSUME NEW n \in 1..(L - 1), session[n].kind = "denial"
      PROVE  \E m \in n..(L - 1) : looksLikeCommit(session[m])
  <2>1. CASE n > k
    <3>1. n - k \in 1..((L - 1) - k) /\ (n - k) + k = n
      BY <1>1, <1>6, <2>1
    <3>2. w[n - k] = session[n]
      BY <1>2, <1>7, <3>1
    <3>3. n - k \in denials
      BY <1>7, <1>9, <3>1, <3>2
    <3> QED BY <1>8, <3>3
  <2>2. CASE n <= k
    <3>1. k # 0 /\ k \in n..(L - 1)
      BY <1>1, <1>6, <2>2
    <3>2. looksLikeCommit(prior[k])
      BY <1>5, <3>1
    <3>3. prior[k] = session[k]
      BY <1>1, <1>2, <1>6, <3>1
    <3> QED BY <3>1, <3>2, <3>3
  <2> QED BY <1>1, <1>6, <2>1, <2>2
<1> QED BY <1>1, <1>4, <1>9 DEF CleanWindow

\* What a hook or a file passes is a clean window, and a key tells what the
\* event with it was told to be.
PassInv ==
  /\ \A h \in Handlers :
       /\ handler[h].pc \in {"query", "write"} =>
            handler[h].in \in Inputs /\ handler[h].in.kind = "commit"
       /\ handler[h].pc = "write" /\ handler[h].pass => CleanWindow(handler[h].length)
  /\ \A a \in attested : a.pass => CleanWindow(a.length)
  /\ \A a \in attested : \E i \in Inputs : i.kind = "commit" /\ i.key = a.commit
  /\ \A n \in 1..Len(session) : session[n].key # NoKey =>
       \E j \in Inputs : j.key = session[n].key /\ j.kind = session[n].kind

LEMMA PassInvInit == AttestorInit => PassInv
<1> SUFFICES ASSUME AttestorInit PROVE PassInv
  OBVIOUS
<1>1. \A n \in 1..Len(session) : session[n].key = NoKey
  BY DEF AttestorInit
<1> QED BY <1>1 DEF AttestorInit, PassInv

\* The session only grows.
LEMMA SessionGrows ==
  ASSUME AttestorTypes, NEW e \in SessionEvents, session' = Append(session, e)
  PROVE  /\ Len(session)' = Len(session) + 1 /\ session'[Len(session) + 1] = e
         /\ \A n \in 1..Len(session) : session'[n] = session[n]
         /\ \A l : CleanWindow(l) => CleanWindow(l)'
<1>1. /\ Len(session') = Len(session) + 1 /\ session'[Len(session) + 1] = e
      /\ \A n \in 1..Len(session) : session'[n] = session[n]
      /\ Len(session) \in Nat
  BY DEF AttestorTypes
<1>2. ASSUME NEW l, CleanWindow(l) PROVE CleanWindow(l)'
  <2>1. l \in 1..Len(session) /\ l \in 1..Len(session')
    BY <1>1, <1>2 DEF CleanWindow
  <2>2. \A n \in 1..l : session'[n] = session[n]
    BY <1>1, <2>1
  <2>3. \A n \in 1..l : session'[n].hash # "bad"
    BY <1>2, <2>2 DEF CleanWindow
  <2>4. ASSUME NEW n \in 1..(l - 1), session'[n].kind = "denial"
        PROVE  \E m \in n..(l - 1) : looksLikeCommit(session'[m])
    <3>1. n \in 1..l /\ session[n].kind = "denial"
      BY <1>1, <2>1, <2>2, <2>4
    <3>2. PICK m \in n..(l - 1) : looksLikeCommit(session[m])
      BY <1>2, <2>4, <3>1 DEF CleanWindow
    <3>3. m \in 1..l
      BY <1>1, <2>1, <2>4
    <3> QED BY <2>2, <3>2, <3>3
  <2> QED BY <2>1, <2>3, <2>4 DEF CleanWindow
<1> QED BY <1>1, <1>2

LEMMA PassInvStore ==
  ASSUME AttestorTypes, PassInv, NEW h \in Handlers, StoreEvent(h)
  PROVE  PassInv'
<1>1. PICK i \in Inputs :
        /\ handler'[h].pc = AfterStore(i) /\ handler'[h].in = i
        /\ \A g \in Handlers \ {h} : handler'[g] = handler[g]
        /\ \/ session' = session
           \/ session' = Append(session, [key |-> i.key, kind |-> i.kind, hash |-> "ok"])
  BY StoreEventFacts
<1>2. attested' = attested
  BY DEF StoreEvent, artifacts
<1>3. AfterStore(i) # "write" /\ (AfterStore(i) = "query" => i.kind = "commit")
  BY DEF AfterStore
<1>4. /\ \A l : CleanWindow(l) => CleanWindow(l)'
      /\ \A n \in 1..Len(session)' : session'[n].key # NoKey =>
           \E j \in Inputs : j.key = session'[n].key /\ j.kind = session'[n].kind
  <2>1. CASE session' = session
    BY <2>1 DEF PassInv, CleanWindow
  <2>2. CASE session' = Append(session, [key |-> i.key, kind |-> i.kind, hash |-> "ok"])
    <3> DEFINE e == [key |-> i.key, kind |-> i.kind, hash |-> "ok"]
    <3>1. e \in SessionEvents /\ e.key = i.key /\ e.kind = i.kind
      BY AttestorAssumption DEF Input, SessionEvents
    <3> HIDE DEF e
    <3>2. /\ Len(session)' = Len(session) + 1 /\ session'[Len(session) + 1] = e
          /\ \A n \in 1..Len(session) : session'[n] = session[n]
          /\ \A l : CleanWindow(l) => CleanWindow(l)'
      <4>1. session' = Append(session, e)
        BY <2>2 DEF e
      <4> QED BY <3>1, <4>1, SessionGrows
    <3>3. ASSUME NEW n \in 1..Len(session)', session'[n].key # NoKey
          PROVE  \E j \in Inputs : j.key = session'[n].key /\ j.kind = session'[n].kind
      <4>1. n = Len(session) + 1 \/ n \in 1..Len(session)
        BY <3>2 DEF AttestorTypes
      <4>2. CASE n = Len(session) + 1
        BY <3>1, <3>2, <4>2
      <4>3. CASE n \in 1..Len(session)
        BY <3>2, <3>3, <4>3 DEF PassInv
      <4> QED BY <4>1, <4>2, <4>3
    <3> QED BY <3>2, <3>3
  <2> QED BY <1>1, <2>1, <2>2
<1>5. \A g \in Handlers :
        /\ handler'[g].pc \in {"query", "write"} =>
             handler'[g].in \in Inputs /\ handler'[g].in.kind = "commit"
        /\ handler'[g].pc = "write" /\ handler'[g].pass => CleanWindow(handler[g].length)
        /\ handler'[g].pc = "write" => handler'[g].length = handler[g].length
  <2> TAKE g \in Handlers
  <2>1. CASE g = h
    BY <1>1, <1>3, <2>1
  <2>2. CASE g # h
    BY <1>1, <2>2 DEF PassInv
  <2> QED BY <2>1, <2>2
<1> HIDE DEF CleanWindow
<1> QED BY <1>2, <1>4, <1>5 DEF PassInv

LEMMA PassInvNext ==
  ASSUME AttestorTypes, PassInv, NEW h \in Handlers, HandlerStep(h)
  PROVE  PassInv'
<1>1. CASE StoreEvent(h)
  BY <1>1, PassInvStore
<1>2. ASSUME session' = session PROVE \A l : CleanWindow(l)' <=> CleanWindow(l)
  BY <1>2 DEF CleanWindow
<1>3. CASE ReadSession(h)
  <2>1. UNCHANGED <<session, attested>>
    BY <1>3 DEF ReadSession, artifacts
  <2>2. \A g \in Handlers :
          /\ handler'[g].pc \in {"query", "write"} =>
               handler'[g].in \in Inputs /\ handler'[g].in.kind = "commit"
          /\ handler'[g].pc = "write" /\ handler'[g].pass => CleanWindow(handler'[g].length)
    <3> TAKE g \in Handlers
    <3>1. CASE g = h
      BY <1>3, <3>1, PassIsClean, ReadSessionFacts DEF PassInv
    <3>2. CASE g # h
      BY <1>3, <3>2, ReadSessionFacts DEF PassInv
    <3> QED BY <3>1, <3>2
  <2> QED BY <1>2, <2>1, <2>2 DEF PassInv
<1>4. CASE ~StoreEvent(h) /\ ~ReadSession(h)
  <2>1. session' = session /\ (WriteAttestation(h) \/ attested' = attested)
    BY <1>4
    DEF HandlerStep, ExtractFails, WriteAttestation, AppendIndex, WriteAttestationThrows,
        AddGitNote, AddGitNoteThrows, WriteEnvelope, AddIntotoGitNote, EnvelopeThrows,
        HandlerDies, artifacts
  <2>2. \E at \in HandlerLabels : at \notin {"query", "write"} /\ Proceed(h, at)
    BY <1>4
    DEF HandlerStep, ExtractFails, WriteAttestation, AppendIndex, WriteAttestationThrows,
        AddGitNote, AddGitNoteThrows, AfterNote, WriteEnvelope, AddIntotoGitNote,
        EnvelopeThrows, HandlerDies, HandlerLabels
  <2>3. /\ handler'[h].pc \notin {"query", "write"}
        /\ \A g \in Handlers \ {h} : handler'[g] = handler[g]
    BY <2>2, ProceedTo
  <2>4. \A g \in Handlers :
          /\ handler'[g].pc \in {"query", "write"} =>
               handler'[g].in \in Inputs /\ handler'[g].in.kind = "commit"
          /\ handler'[g].pc = "write" /\ handler'[g].pass => CleanWindow(handler'[g].length)
    <3> TAKE g \in Handlers
    <3> QED BY <2>3 DEF PassInv
  <2>5. \A a \in attested' :
          /\ a.pass => CleanWindow(a.length)
          /\ \E i \in Inputs : i.kind = "commit" /\ i.key = a.commit
    <3>1. CASE attested' = attested
      BY <3>1 DEF PassInv
    <3>2. CASE WriteAttestation(h)
      <4> DEFINE new(source) == [commit |-> handler[h].in.key, pass |-> handler[h].pass,
                                 length |-> handler[h].length, source |-> source]
      <4>1. PICK source \in signature_source :
              \A a \in attested' : a \in attested \/ a = new(source)
        BY <3>2 DEF WriteAttestation
      <4>2. /\ new(source).commit = handler[h].in.key /\ new(source).pass = handler[h].pass
            /\ new(source).length = handler[h].length
        OBVIOUS
      <4>3. handler[h].pc = "write"
        BY <3>2 DEF WriteAttestation
      <4> HIDE DEF new
      <4> QED BY <4>1, <4>2, <4>3 DEF PassInv
    <3> QED BY <2>1, <3>1, <3>2
  <2> QED BY <1>2, <2>1, <2>4, <2>5 DEF PassInv
<1> QED BY <1>1, <1>3, <1>4

(***************************************************************************)
(* For any number of hooks and any session: what a passing attestation has *)
(* read had no edited line, and no denial of a high-risk action since the  *)
(* commit before.                                                          *)
(***************************************************************************)
THEOREM PassingIsClean == AttestorSpec => []PassMeansClean
<1>1. AttestorInit => AccountInv /\ PassInv
  BY AccountInvInit, PassInvInit
<1>2. AccountInv /\ PassInv /\ [AttestorNext]_attestorVars => (AccountInv /\ PassInv)'
  <2> SUFFICES ASSUME AccountInv, PassInv, [AttestorNext]_attestorVars
               PROVE  (AccountInv /\ PassInv)'
    OBVIOUS
  <2>1. CASE UNCHANGED attestorVars
    BY <2>1, AccountInvNext DEF attestorVars, artifacts, PassInv, CleanWindow
  <2>2. ASSUME NEW h \in Handlers, HandlerStep(h) PROVE PassInv'
    BY <2>2, PassInvNext DEF AccountInv
  <2> QED BY <2>1, <2>2, AccountInvNext DEF AttestorNext, HandlerStep
<1>3. AccountInv /\ PassInv => PassMeansClean
  <2> SUFFICES ASSUME AccountInv, PassInv, NEW a \in attested, a.pass,
                      session[a.length].key = a.commit
               PROVE  /\ \A n \in 1..a.length : session[n].hash # "bad"
                      /\ \A n \in 1..a.length : session[n].kind = "denial" =>
                           \E m \in n..(a.length - 1) : looksLikeCommit(session[m])
    BY DEF PassMeansClean
  <2>1. CleanWindow(a.length)
    BY DEF PassInv
  <2>2. PICK i \in Inputs : i.kind = "commit" /\ i.key = a.commit
    BY DEF PassInv
  <2>3. a.length \in 1..Len(session) /\ a.length \in Nat /\ session[a.length].key # NoKey
    BY <2>1, <2>2, AttestorAssumption DEF CleanWindow, AccountInv, AttestorTypes
  <2>4. session[a.length].kind # "denial"
    <3>1. PICK j \in Inputs :
            j.key = session[a.length].key /\ j.kind = session[a.length].kind
      BY <2>3 DEF PassInv
    <3> QED BY <2>2, <3>1, AttestorAssumption
  <2>5. \A n \in 1..a.length : n = a.length \/ n \in 1..(a.length - 1)
    BY <2>3
  <2> QED BY <2>1, <2>4, <2>5 DEF CleanWindow
<1> QED BY <1>1, <1>2, <1>3, PTL DEF AttestorSpec

-----------------------------------------------------------------------------
(***************************************************************************)
(* Enrollment: a machine that thinks it is enrolled is.  EnrollmentConsis- *)
(* tent is not inductive: the server's checks (no team yet, token unused,  *)
(* machine not enrolled) read tables, so that the invariant has to say     *)
(* what each table knows of the requests in between.  Numbered says that   *)
(* what is made next is new, OneBootstrap that a bootstrap past its check  *)
(* still finds no team, Spent that a token which has enrolled a machine is *)
(* marked, and Answers that what is told to a client is in the tables.     *)
(***************************************************************************)
Configs == {NoConfig} \cup [team : Nat, row : Nat, key : Nat]

Shapes ==
  /\ admin \in [Admins -> {"new", "body", "refused", "done", "lost"}]
  /\ config \in [Machines -> Configs]
  /\ inbox \subseteq [client : Clients, token : Nat]
  /\ replies \subseteq [client : Clients, config : Configs]
  /\ tokens \subseteq [token : Nat, team : Nat, usedBy : Nat]
  /\ handedOut \subseteq Nat
  /\ servings \in Nat

\* What is made next is new.
Numbered ==
  /\ \A t \in tokens : t.token <= servings
  /\ \A r \in machines : r.key <= servings
  /\ \A r \in machines : r.key \in Nat
  /\ \A x \in spentBy : x[1] \in Nat /\ x[1] <= servings

\* Unless two of them raced, a bootstrap past its check finds no team.
OneBootstrap ==
  raced \/ /\ \A s, t \in teams : s = t
           /\ \A a, b \in Admins : admin[a] = "body" /\ admin[b] = "body" => a = b
           /\ \A a \in Admins : admin[a] = "body" => teams = {}

\* A token that has enrolled a machine is marked, or a crash prevented it.
Spent ==
  /\ \A x \in spentBy : x[1] \in torn \/ \A t \in tokens : t.token = x[1] => t.usedBy # 0
  /\ \A x, y \in spentBy : x[1] = y[1] => x = y \/ x[1] \in torn

OncePerTeam == \A r, s \in machines : r.team = s.team /\ r.machine = s.machine => r = s

\* The row that a configuration of machine m speaks of.
RowOf(c, m) == [row |-> c.row, team |-> c.team, machine |-> m, key |-> c.key]

\* What is told to a client is in the tables.
Answers ==
  /\ \A r, s \in machines : r.key = s.key => r = s
  /\ \A r \in replies : r.config # NoConfig => RowOf(r.config, MachineOf[r.client]) \in machines
  /\ \A m \in Machines : config[m] # NoConfig => RowOf(config[m], m) \in machines

EnrollInv == Shapes /\ Numbered /\ OneBootstrap /\ Spent /\ OncePerTeam /\ Answers

-----------------------------------------------------------------------------
LEMMA EnrollInvInit == EnrollInit => EnrollInv
  BY DEF EnrollInit, EnrollInv, Shapes, Numbered, OneBootstrap, Spent, OncePerTeam, Answers, Configs

LEMMA BootstrapChecksIInv ==
  ASSUME EnrollInv, NEW a \in Admins, BootstrapChecks(a) PROVE EnrollInv'
<1>1. Shapes'
  BY DEF EnrollInv, Shapes, BootstrapChecks, database
<1>2. Numbered' /\ Spent' /\ OncePerTeam' /\ Answers'
  BY DEF EnrollInv, Numbered, Spent, OncePerTeam, Answers, RowOf, BootstrapChecks, database
<1>3. OneBootstrap'
  BY DEF EnrollInv, Shapes, OneBootstrap, BootstrapChecks, database
<1> QED BY <1>1, <1>2, <1>3 DEF EnrollInv

LEMMA BootstrapWritesIInv ==
  ASSUME EnrollInv, NEW a \in Admins, BootstrapWrites(a) PROVE EnrollInv'
<1>0. admin[a] = "body" /\ servings' = servings + 1 /\ servings \in Nat
      /\ UNCHANGED <<machines, expired, client, inbox, replies, config, spentBy, torn, raced>>
  BY DEF BootstrapWrites, Serve, EnrollInv, Shapes, enrollHistory
<1>1. PICK n \in Names :
        \/ /\ admin' = [admin EXCEPT ![a] = "refused"]
           /\ UNCHANGED <<teams, tokens, handedOut>>
        \/ /\ teams' = teams \cup {[team |-> servings', name |-> n]}
           /\ tokens' = tokens \cup {[token |-> servings', team |-> servings', usedBy |-> 0]}
           /\ handedOut' = handedOut \/ handedOut' = handedOut \cup {servings'}
           /\ \/ admin' = [admin EXCEPT ![a] = "done"]
              \/ admin' = [admin EXCEPT ![a] = "lost"]
  BY DEF BootstrapWrites
<1>2. admin' \in [Admins -> {"new", "body", "refused", "done", "lost"}]
      /\ admin'[a] # "body" /\ \A b \in Admins \ {a} : admin'[b] = admin[b]
  BY <1>1 DEF EnrollInv, Shapes
<1>3. Shapes'
  <2>1. tokens' \subseteq [token : Nat, team : Nat, usedBy : Nat]
    BY <1>0, <1>1 DEF EnrollInv, Shapes
  <2>2. handedOut \subseteq Nat /\ servings' \in Nat
    BY <1>0 DEF EnrollInv, Shapes
  <2>3. handedOut' \subseteq handedOut \cup {servings'}
    BY <1>1
  <2> QED BY <1>0, <1>2, <2>1, <2>2, <2>3 DEF EnrollInv, Shapes
<1>4. Numbered'
  BY <1>0, <1>1 DEF EnrollInv, Shapes, Numbered
<1>5. OneBootstrap'
  BY <1>0, <1>1, <1>2 DEF EnrollInv, OneBootstrap
<1>6. Spent'
  BY <1>0, <1>1 DEF EnrollInv, Shapes, Numbered, Spent
<1>7. OncePerTeam' /\ Answers'
  BY <1>0 DEF EnrollInv, OncePerTeam, Answers, RowOf
<1> QED BY <1>3, <1>4, <1>5, <1>6, <1>7 DEF EnrollInv

LEMMA BootstrapDiesIInv ==
  ASSUME EnrollInv, NEW a \in Admins, BootstrapDies(a) PROVE EnrollInv'
<1>0. admin[a] = "body" /\ servings' = servings + 1 /\ servings \in Nat
      /\ UNCHANGED <<tokens, machines, handedOut, inbox, replies, config, spentBy, torn, raced>>
  BY DEF BootstrapDies, Serve, EnrollInv, Shapes, enrollHistory
<1>1. PICK n \in Names : teams' = teams \cup {[team |-> servings', name |-> n]}
  BY DEF BootstrapDies
<1>2. admin' \in [Admins -> {"new", "body", "refused", "done", "lost"}]
      /\ admin'[a] # "body" /\ \A b \in Admins \ {a} : admin'[b] = admin[b]
  BY DEF EnrollInv, Shapes, BootstrapDies
<1>3. Shapes' /\ Numbered'
  BY <1>0, <1>2 DEF EnrollInv, Shapes, Numbered
<1>4. OneBootstrap'
  BY <1>0, <1>1, <1>2 DEF EnrollInv, OneBootstrap
<1>5. Spent' /\ OncePerTeam' /\ Answers'
  BY <1>0 DEF EnrollInv, Spent, OncePerTeam, Answers, RowOf
<1> QED BY <1>3, <1>4, <1>5 DEF EnrollInv

LEMMA EnrollAsksIInv ==
  ASSUME EnrollInv, NEW c \in Clients, EnrollAsks(c) PROVE EnrollInv'
<1>1. Shapes'
  <2>1. PICK t \in handedOut : inbox' = inbox \cup {[client |-> c, token |-> t]}
    BY DEF EnrollAsks
  <2> QED BY <2>1 DEF EnrollInv, Shapes, EnrollAsks, database
<1>2. Numbered' /\ OneBootstrap' /\ Spent' /\ OncePerTeam' /\ Answers'
  BY DEF EnrollInv, Numbered, OneBootstrap, Spent, OncePerTeam, Answers, RowOf, EnrollAsks,
         database, enrollHistory
<1> QED BY <1>1, <1>2 DEF EnrollInv

LEMMA EnrollAnsweredIInv ==
  ASSUME EnrollInv, NEW c \in Clients, EnrollAnswered(c) PROVE EnrollInv'
<1>1. PICK r \in replies :
        /\ r.client = c /\ replies' = replies \ {r}
        /\ \/ config' = config
           \/ r.config # NoConfig /\ config' = [config EXCEPT ![MachineOf[c]] = r.config]
  BY DEF EnrollAnswered
<1>2. UNCHANGED <<teams, tokens, machines, admin, handedOut, inbox, servings, spentBy, torn, raced>>
  BY DEF EnrollAnswered, database, enrollHistory
<1>3. MachineOf[c] \in Machines
  BY EnrollAssumption
<1>4. Shapes'
  BY <1>1, <1>2, <1>3 DEF EnrollInv, Shapes
<1>5. Numbered' /\ OneBootstrap' /\ Spent' /\ OncePerTeam'
  BY <1>2 DEF EnrollInv, Numbered, OneBootstrap, Spent, OncePerTeam
<1>6. Answers'
  <2>1. ASSUME NEW m \in Machines, config'[m] # NoConfig
        PROVE RowOf(config'[m], m) \in machines
    BY <1>1, <1>3, <2>1 DEF EnrollInv, Shapes, Answers
  <2> QED BY <1>1, <1>2, <2>1 DEF EnrollInv, Answers, RowOf
<1> QED BY <1>4, <1>5, <1>6 DEF EnrollInv

LEMMA UnenrollIInv ==
  ASSUME EnrollInv, NEW m \in Machines, Unenroll(m) PROVE EnrollInv'
<1>1. Shapes'
  BY DEF EnrollInv, Shapes, Unenroll, database, Configs
<1>2. Numbered' /\ OneBootstrap' /\ Spent' /\ OncePerTeam'
  BY DEF EnrollInv, Numbered, OneBootstrap, Spent, OncePerTeam, Unenroll, database, enrollHistory
<1>3. Answers'
  BY DEF EnrollInv, Shapes, Answers, RowOf, Unenroll, database
<1> QED BY <1>1, <1>2, <1>3 DEF EnrollInv

LEMMA EnrollRefusedIInv ==
  ASSUME EnrollInv, NEW q \in inbox, EnrollRefused(q) PROVE EnrollInv'
<1>1. q.client \in Clients /\ replies' = replies \cup {[client |-> q.client, config |-> NoConfig]}
  BY DEF EnrollInv, Shapes, EnrollRefused
<1>2. Shapes'
  BY <1>1 DEF EnrollInv, Shapes, EnrollRefused, database, Configs
<1>3. Numbered' /\ OneBootstrap' /\ Spent' /\ OncePerTeam' /\ Answers'
  BY <1>1 DEF EnrollInv, Numbered, OneBootstrap, Spent, OncePerTeam, Answers, RowOf, EnrollRefused,
         database, enrollHistory
<1> QED BY <1>2, <1>3 DEF EnrollInv

LEMMA EnrollAcceptedIInv ==
  ASSUME EnrollInv, NEW q \in inbox, EnrollAccepted(q) PROVE EnrollInv'
<1> DEFINE team == teamOf(q.token)
           told == [team |-> team, row |-> servings', key |-> servings']
           row == RowOf(told, MachineOf[q.client])
           marked == {IF t.token = q.token THEN [t EXCEPT !.usedBy = servings'] ELSE t : t \in tokens}
<1>1. /\ servings' = servings + 1 /\ servings \in Nat /\ servings' \in Nat /\ servings' # 0
      /\ q.client \in Clients /\ MachineOf[q.client] \in Machines
      /\ inbox' = inbox \ {q} /\ machines' = machines \cup {row}
      /\ spentBy' = spentBy \cup {<<q.token, servings'>>}
      /\ UNCHANGED <<teams, admin, handedOut, config, raced>>
  BY EnrollAssumption DEF EnrollAccepted, Serve, EnrollInv, Shapes, RowOf
<1>2. \/ /\ tokens' = marked /\ torn' = torn
         /\ replies' = replies \cup {[client |-> q.client, config |-> told]}
      \/ /\ tokens' = tokens /\ replies' = replies /\ torn' = torn \cup {q.token}
  BY DEF EnrollAccepted
<1>3. PICK used \in tokens : used.token = q.token /\ used.usedBy = 0
  BY DEF EnrollAccepted, tokenAccepted
<1>4. team \in Nat /\ q.token \in Nat /\ q.token <= servings
  BY <1>1, <1>3 DEF teamOf, EnrollInv, Shapes, Numbered
<1>5. \A r \in machines : r.team = team => r.machine # MachineOf[q.client]
  BY DEF EnrollAccepted, enrolled
<1> HIDE DEF team
<1>6. /\ marked \subseteq [token : Nat, team : Nat, usedBy : Nat]
      /\ \A t \in marked : t.token <= servings /\ (t.token = q.token => t.usedBy # 0)
      /\ \A t \in marked : \E s \in tokens : s.token = t.token /\ (s.usedBy # 0 => t.usedBy # 0)
  BY <1>1 DEF EnrollInv, Shapes, Numbered
<1> HIDE DEF marked
<1>7. told \in Configs
  BY <1>1, <1>4 DEF Configs
<1>8. Shapes'
  BY <1>1, <1>2, <1>6, <1>7 DEF EnrollInv, Shapes
<1>9. Numbered'
  BY <1>1, <1>2, <1>4, <1>6 DEF EnrollInv, Shapes, Numbered, RowOf
<1>10. OneBootstrap'
  BY <1>1 DEF EnrollInv, OneBootstrap
<1>11. Spent'
  <2>1. ASSUME NEW x \in spentBy, x[1] \notin torn PROVE x[1] # q.token
    BY <1>3, <2>1 DEF EnrollInv, Spent
  <2>2. \A x \in spentBy' : x[1] \in torn' \/ \A t \in tokens' : t.token = x[1] => t.usedBy # 0
    BY <1>1, <1>2, <1>6, <2>1 DEF EnrollInv, Spent
  <2>3. \A x, y \in spentBy' : x[1] = y[1] => x = y \/ x[1] \in torn'
    BY <1>1, <1>2, <2>1 DEF EnrollInv, Spent
  <2> QED BY <2>2, <2>3 DEF Spent
<1>12. OncePerTeam'
  BY <1>1, <1>5 DEF EnrollInv, OncePerTeam, RowOf
<1>13. Answers'
  <2>1. \A r \in machines : r.key # servings'
    BY <1>1 DEF EnrollInv, Numbered
  <2>2. \A r, s \in machines' : r.key = s.key => r = s
    BY <1>1, <2>1 DEF EnrollInv, Answers, RowOf
  <2>3. \A r \in replies' :
          r.config # NoConfig => RowOf(r.config, MachineOf[r.client]) \in machines'
    BY <1>1, <1>2 DEF EnrollInv, Answers
  <2> QED BY <1>1, <2>2, <2>3 DEF EnrollInv, Answers
<1> QED BY <1>8, <1>9, <1>10, <1>11, <1>12, <1>13 DEF EnrollInv

LEMMA EnrollInvNext == EnrollInv /\ [EnrollNext]_enrollVars => EnrollInv'
<1> SUFFICES ASSUME EnrollInv, [EnrollNext]_enrollVars PROVE EnrollInv'
  OBVIOUS
<1>1. ASSUME NEW a \in Admins, BootstrapChecks(a) \/ BootstrapWrites(a) \/ BootstrapDies(a)
      PROVE EnrollInv'
  BY <1>1, BootstrapChecksIInv, BootstrapWritesIInv, BootstrapDiesIInv
<1>2. CASE TokenExpires
  BY <1>2 DEF TokenExpires, people, enrollHistory, EnrollInv, Shapes, Numbered, OneBootstrap, Spent,
              OncePerTeam, Answers, RowOf
<1>3. ASSUME NEW c \in Clients, EnrollAsks(c) \/ EnrollAnswered(c) PROVE EnrollInv'
  BY <1>3, EnrollAsksIInv, EnrollAnsweredIInv
<1>4. ASSUME NEW c \in Clients, EnrollGivesUp(c) PROVE EnrollInv'
  BY <1>4 DEF EnrollGivesUp, database, enrollHistory, EnrollInv, Shapes, Numbered, OneBootstrap,
              Spent, OncePerTeam, Answers, RowOf
<1>5. ASSUME NEW m \in Machines, Unenroll(m) PROVE EnrollInv'
  BY <1>5, UnenrollIInv
<1>6. ASSUME NEW q \in inbox, EnrollRefused(q) \/ EnrollAccepted(q) PROVE EnrollInv'
  BY <1>6, EnrollRefusedIInv, EnrollAcceptedIInv
<1>7. CASE UNCHANGED enrollVars
  BY <1>7 DEF enrollVars, database, people, enrollHistory, EnrollInv, Shapes, Numbered, OneBootstrap,
              Spent, OncePerTeam, Answers, RowOf
<1> QED BY <1>1, <1>2, <1>3, <1>4, <1>5, <1>6, <1>7 DEF EnrollNext

LEMMA IInvConsistent == EnrollInv => EnrollmentConsistent
<1> SUFFICES ASSUME EnrollInv PROVE EnrollmentConsistent
  OBVIOUS
<1>1. raced \/ Cardinality(teams) <= 1
  <2>1. CASE teams = {}
    BY <2>1, FS_EmptySet
  <2>2. ASSUME NEW t \in teams, ~raced PROVE Cardinality(teams) <= 1
    <3>1. teams = {t}
      BY <2>2 DEF EnrollInv, OneBootstrap
    <3>2. Cardinality({t}) = 1
      BY FS_Singleton
    <3> QED BY <3>1, <3>2
  <2> QED BY <2>1, <2>2
<1>2. ASSUME NEW m \in Machines, config[m] # NoConfig
      PROVE machineAuth(config[m].key) = {RowOf(config[m], m)}
  <2>1. RowOf(config[m], m) \in machines /\ RowOf(config[m], m).key = config[m].key
    BY <1>2 DEF EnrollInv, Answers, RowOf
  <2>2. \A r \in machines : r.key = config[m].key => r = RowOf(config[m], m)
    BY <2>1 DEF EnrollInv, Answers
  <2> QED BY <2>1, <2>2 DEF machineAuth
<1> QED BY <1>1, <1>2 DEF EnrollInv, Spent, OncePerTeam, EnrollmentConsistent, RowOf

(***************************************************************************)
(* For every number of bootstraps, clients and machines, and whatever is   *)
(* lost, late or cut short by a crash: there is one team unless two        *)
(* bootstraps raced, a token enrols one machine unless a crash left it     *)
(* unmarked, a machine is enrolled once per team, and the API key in a     *)
(* machine's configuration is that machine's.                              *)
(***************************************************************************)
THEOREM EnrolledIsLetIn == EnrollSpec => []EnrollmentConsistent
<1>1. EnrollInit => EnrollInv
  BY EnrollInvInit
<1>2. EnrollInv /\ [EnrollNext]_enrollVars => EnrollInv'
  BY EnrollInvNext
<1>3. EnrollInv => EnrollmentConsistent
  BY IInvConsistent
<1> QED BY <1>1, <1>2, <1>3, PTL DEF EnrollSpec

-----------------------------------------------------------------------------
(***************************************************************************)
(* Telemetry: no line is lost.  A process between taking and removing the  *)
(* lock file finds its own name in it (OneRotates), so only it renames     *)
(* files, and the place it renames into is empty (RoomToShift).            *)
(***************************************************************************)
LabelsOfTeller == {"new", "lock", "reclaim", "recheck", "shift", "append", "release", "done", "dead"}

TheLines == Tellers \cup UNION {OldLines[i] : i \in DOMAIN OldLines}

TellerStates == [pc : LabelsOfTeller, rotate : BOOLEAN, tries : Nat, shift : Nat]

TelemetryTypes ==
  /\ file \in [0..(MaxFiles + 1) -> SUBSET TheLines]
  /\ lock \in [by : Tellers \cup {Nobody}, stale : BOOLEAN]
  /\ teller \in [Tellers -> TellerStates]

\* Is p between taking the lock and removing it?
Locked(p) ==
  \/ teller[p].pc \in {"recheck", "shift", "release"}
  \/ teller[p].pc = "append" /\ (teller[p].rotate \/ lockMode = "always")

OneRotates == \A p \in Tellers : Locked(p) => lock.by = p

RoomToShift ==
  \A p \in Tellers : teller[p].pc = "shift" =>
    teller[p].shift \in 0..(MaxFiles - 1) /\ file[teller[p].shift + 1] = {}

KeptInv == TelemetryTypes /\ (usurped \/ (OneRotates /\ RoomToShift /\ TelemetryKept))

LEMMA TelemetryInitKept == TelemetryInit => KeptInv
<1> SUFFICES ASSUME TelemetryInit PROVE KeptInv
  OBVIOUS
<1>1. TelemetryTypes
  <2>1. file \in [0..(MaxFiles + 1) -> SUBSET TheLines]
    BY DEF TelemetryInit, TheLines
  <2> QED BY <2>1 DEF TelemetryInit, TelemetryTypes, Free, LabelsOfTeller, TellerStates
<1>2. OneRotates /\ RoomToShift
  BY DEF TelemetryInit, OneRotates, RoomToShift, Locked
<1>3. TelemetryKept
  BY DEF TelemetryInit, TelemetryKept
<1> QED BY <1>1, <1>2, <1>3 DEF KeptInv

\* A step changes one process, by at most these two assignments.
LEMMA TellerFields ==
  ASSUME TelemetryTypes, NEW p \in Tellers, NEW pc \in LabelsOfTeller, NEW r \in BOOLEAN,
         NEW n \in Nat
  PROVE  /\ [teller EXCEPT ![p].pc = pc] \in [Tellers -> TellerStates]
         /\ [teller EXCEPT ![p].rotate = r, ![p].pc = pc] \in [Tellers -> TellerStates]
         /\ [teller EXCEPT ![p].tries = n, ![p].pc = pc] \in [Tellers -> TellerStates]
         /\ [teller EXCEPT ![p].pc = pc, ![p].shift = n] \in [Tellers -> TellerStates]
         /\ [teller EXCEPT ![p].shift = n] \in [Tellers -> TellerStates]
<1> DEFINE a == [teller EXCEPT ![p].pc = pc]
           b == [teller EXCEPT ![p].rotate = r]
           c == [teller EXCEPT ![p].tries = n]
           d == [teller EXCEPT ![p].shift = n]
<1>t. teller \in [Tellers -> TellerStates]
  BY DEF TelemetryTypes
<1>1. a \in [Tellers -> TellerStates]
  BY <1>t DEF TellerStates
<1>2. b \in [Tellers -> TellerStates]
  BY <1>t DEF TellerStates
<1>3. c \in [Tellers -> TellerStates]
  BY <1>t DEF TellerStates
<1>4. d \in [Tellers -> TellerStates]
  BY <1>t DEF TellerStates
<1>5. [teller EXCEPT ![p].rotate = r, ![p].pc = pc] = [b EXCEPT ![p].pc = pc]
  OBVIOUS
<1>6. [teller EXCEPT ![p].tries = n, ![p].pc = pc] = [c EXCEPT ![p].pc = pc]
  OBVIOUS
<1>7. [teller EXCEPT ![p].pc = pc, ![p].shift = n] = [a EXCEPT ![p].shift = n]
  OBVIOUS
<1> HIDE DEF a, b, c, d
<1>8. [b EXCEPT ![p].pc = pc] \in [Tellers -> TellerStates]
  BY <1>2 DEF TellerStates
<1>9. [c EXCEPT ![p].pc = pc] \in [Tellers -> TellerStates]
  BY <1>3 DEF TellerStates
<1>10. [a EXCEPT ![p].shift = n] \in [Tellers -> TellerStates]
  BY <1>1 DEF TellerStates
<1> QED BY <1>1, <1>4, <1>5, <1>6, <1>7, <1>8, <1>9, <1>10 DEF a, d

LEMMA TelemetryStepTypes ==
  ASSUME TelemetryTypes, [TelemetryNext]_telemetryVars PROVE TelemetryTypes'
<1> USE TelemetryAssumption
<1>t. /\ file \in [0..(MaxFiles + 1) -> SUBSET TheLines]
      /\ lock \in [by : Tellers \cup {Nobody}, stale : BOOLEAN]
      /\ teller \in [Tellers -> TellerStates]
  BY DEF TelemetryTypes
<1>1. file' \in [0..(MaxFiles + 1) -> SUBSET TheLines]
  <2>1. ASSUME NEW p \in Tellers, Recheck(p) PROVE file' \in [0..(MaxFiles + 1) -> SUBSET TheLines]
    BY <2>1, <1>t DEF Recheck
  <2>2. ASSUME NEW i \in Nat, Move(i) PROVE file' \in [0..(MaxFiles + 1) -> SUBSET TheLines]
    <3>1. i + 1 \in 0..(MaxFiles + 1) => file[i] \in SUBSET TheLines
      BY <1>t
    <3> QED BY <2>2, <3>1, <1>t DEF Move
  <2>3. ASSUME NEW p \in Tellers, Shift(p) \/ RotateActive(p) \/ AppendLine(p)
        PROVE  file' \in [0..(MaxFiles + 1) -> SUBSET TheLines]
    <3>1. \/ \E i \in Nat : Move(i)
          \/ UNCHANGED file
          \/ file' = [file EXCEPT ![0] = @ \cup {p}]
      BY <2>3, <1>t DEF Shift, RotateActive, AppendLine, TellerStates
    <3>2. file[0] \cup {p} \in SUBSET TheLines
      BY <1>t DEF TheLines
    <3> QED BY <2>2, <3>1, <3>2, <1>t
  <2>4. ASSUME UNCHANGED file PROVE file' \in [0..(MaxFiles + 1) -> SUBSET TheLines]
    BY <2>4, <1>t
  <2> QED
    BY <2>1, <2>3, <2>4 DEF TelemetryNext, Measure, Acquire, Busy, Reclaim, Skip, Release,
       TellerDies, LockGrowsStale, telemetryVars
<1>2. lock' \in [by : Tellers \cup {Nobody}, stale : BOOLEAN]
  <2>1. \/ UNCHANGED lock \/ lock' = [lock EXCEPT !.stale = TRUE] \/ lock' = Free
        \/ \E p \in Tellers : lock' = [by |-> p, stale |-> FALSE]
    BY DEF TelemetryNext, Measure, Acquire, Busy, Reclaim, Skip, Release, Recheck,
           Shift, RotateActive, AppendLine, TellerDies, LockGrowsStale, telemetryVars
  <2>2. Nobody \in Tellers \cup {Nobody}
    OBVIOUS
  <2>3. [lock EXCEPT !.stale = TRUE] \in [by : Tellers \cup {Nobody}, stale : BOOLEAN]
    BY <1>t
  <2>4. Free \in [by : Tellers \cup {Nobody}, stale : BOOLEAN]
    BY DEF Free
  <2>5. \A p \in Tellers :
          [by |-> p, stale |-> FALSE] \in [by : Tellers \cup {Nobody}, stale : BOOLEAN]
    OBVIOUS
  <2> QED BY <1>t, <2>1, <2>3, <2>4, <2>5
<1>5. teller' \in [Tellers -> TellerStates]
  <2>1. ASSUME NEW p \in Tellers, Measure(p) PROVE teller' \in [Tellers -> TellerStates]
    <3> DEFINE r == file[0] # {} /\ full
               pc == IF r \/ lockMode = "always" THEN "lock" ELSE "append"
    <3>1. teller' = [teller EXCEPT ![p].rotate = r, ![p].pc = pc]
      BY <2>1 DEF Measure
    <3>2. r \in BOOLEAN /\ pc \in LabelsOfTeller
      BY DEF LabelsOfTeller
    <3> HIDE DEF r, pc
    <3> QED BY <3>1, <3>2, TellerFields
  <2>2. ASSUME NEW p \in Tellers,
               Acquire(p) \/ Reclaim(p) \/ Skip(p) \/ Release(p) \/ RotateActive(p) \/ AppendLine(p)
                 \/ TellerDies(p)
        PROVE  teller' \in [Tellers -> TellerStates]
    <3>1. PICK pc \in LabelsOfTeller : At(p, pc)
      BY <2>2 DEF Acquire, Reclaim, Skip, Release, RotateActive, AppendLine, TellerDies,
                      LabelsOfTeller
    <3>2. 0 \in Nat /\ TRUE \in BOOLEAN
      OBVIOUS
    <3>3. [teller EXCEPT ![p].pc = pc] \in [Tellers -> TellerStates]
      BY <3>2, TellerFields
    <3> QED BY <3>1, <3>3 DEF At
  <2>3. ASSUME NEW p \in Tellers, Busy(p) PROVE teller' \in [Tellers -> TellerStates]
    <3> DEFINE n == teller[p].tries + 1
               pc == IF lock.stale THEN "reclaim" ELSE "lock"
    <3>1. teller' = [teller EXCEPT ![p].tries = n, ![p].pc = pc]
      BY <2>3, <1>t DEF Busy
    <3>2. n \in Nat /\ pc \in LabelsOfTeller
      BY <1>t DEF LabelsOfTeller, TellerStates
    <3> HIDE DEF n, pc
    <3> QED BY <3>1, <3>2, TellerFields
  <2>4. ASSUME NEW p \in Tellers, Recheck(p) PROVE teller' \in [Tellers -> TellerStates]
    <3>1. \/ teller' = [teller EXCEPT ![p].pc = "shift", ![p].shift = MaxFiles - 1]
          \/ teller' = [teller EXCEPT ![p].pc = "append"]
      BY <2>4 DEF Recheck, At
    <3>2. "shift" \in LabelsOfTeller /\ "append" \in LabelsOfTeller /\ TRUE \in BOOLEAN
      BY DEF LabelsOfTeller
    <3>3. MaxFiles - 1 \in Nat
      OBVIOUS
    <3>4. [teller EXCEPT ![p].pc = "shift", ![p].shift = MaxFiles - 1] \in [Tellers -> TellerStates]
      BY <3>2, <3>3, TellerFields
    <3>5. [teller EXCEPT ![p].pc = "append"] \in [Tellers -> TellerStates]
      BY <3>2, <3>3, TellerFields
    <3> QED BY <3>1, <3>4, <3>5
  <2>5. ASSUME NEW p \in Tellers, Shift(p) PROVE teller' \in [Tellers -> TellerStates]
    <3>1. teller' = [teller EXCEPT ![p].shift = teller[p].shift - 1] /\ teller[p].shift - 1 \in Nat
      BY <2>5, <1>t DEF Shift, TellerStates
    <3>2. \A n \in Nat : [teller EXCEPT ![p].shift = n] \in [Tellers -> TellerStates]
      BY TellerFields DEF LabelsOfTeller
    <3> QED BY <3>1, <3>2
  <2>6. CASE LockGrowsStale \/ UNCHANGED telemetryVars
    BY <2>6, <1>t DEF LockGrowsStale, telemetryVars
  <2> QED BY <2>1, <2>2, <2>3, <2>4, <2>5, <2>6 DEF TelemetryNext
<1> QED BY <1>1, <1>2, <1>5 DEF TelemetryTypes

\* At changes the pc of one process.
LEMMA AtFacts ==
  ASSUME TelemetryTypes, NEW p \in Tellers, NEW label, At(p, label)
  PROVE  /\ teller'[p].pc = label /\ teller'[p].rotate = teller[p].rotate
         /\ teller'[p].shift = teller[p].shift
         /\ \A q \in Tellers \ {p} : teller'[q] = teller[q]
<1>1. teller[p] \in TellerStates
  BY DEF TelemetryTypes
<1>2. teller' = [teller EXCEPT ![p] = [teller[p] EXCEPT !.pc = label]]
  BY DEF At, TelemetryTypes
<1> QED BY <1>1, <1>2 DEF TelemetryTypes, TellerStates

\* A file is renamed into an empty place.
LEMMA MoveKeeps ==
  ASSUME TelemetryTypes, TelemetryKept, NEW i \in 0..MaxFiles, Move(i), file[i + 1] = {},
         UNCHANGED <<said, dropped, usurped>>
  PROVE  /\ TelemetryKept' /\ file'[i] = {}
         /\ \A j \in 0..(MaxFiles + 1) : j \notin {i, i + 1} => file'[j] = file[j]
<1> USE TelemetryAssumption
<1>1. /\ file'[i] = {} /\ file'[i + 1] = file[i]
      /\ \A j \in 0..(MaxFiles + 1) : j \notin {i, i + 1} => file'[j] = file[j]
      /\ DOMAIN file = 0..(MaxFiles + 1) /\ DOMAIN file' = DOMAIN file
  BY DEF Move, TelemetryTypes
<1>2. \A j \in DOMAIN file : file[j] \subseteq UNION {file'[k] : k \in DOMAIN file'}
  <2> TAKE j \in DOMAIN file
  <2>1. CASE j = i
    BY <1>1, <2>1
  <2>2. CASE j = i + 1
    BY <2>2
  <2>3. CASE j \notin {i, i + 1}
    BY <1>1, <2>3
  <2> QED BY <2>1, <2>2, <2>3
<1>3. ASSUME ~usurped' PROVE said' \subseteq dropped' \cup UNION {file'[k] : k \in DOMAIN file'}
  <2>1. said \subseteq dropped \cup UNION {file[k] : k \in DOMAIN file}
    BY <1>3 DEF TelemetryKept
  <2> QED BY <1>2, <2>1
<1> QED BY <1>1, <1>3 DEF TelemetryKept

LEMMA KeptInvNext ==
  ASSUME KeptInv, [TelemetryNext]_telemetryVars PROVE KeptInv'
<1> DEFINE Goal == OneRotates /\ RoomToShift /\ TelemetryKept
<1>a. TelemetryTypes /\ TelemetryTypes'
  BY TelemetryStepTypes DEF KeptInv
<1> SUFFICES ASSUME ~usurped' PROVE Goal'
  BY <1>a DEF KeptInv
<1> USE TelemetryAssumption
<1>u. ~usurped
  BY DEF TelemetryNext, Measure, Acquire, Busy, Reclaim, Skip, Release, Recheck, Shift,
         RotateActive, AppendLine, TellerDies, LockGrowsStale, telemetryVars, telemetryHistory
<1>g. Goal
  BY <1>u DEF KeptInv
<1>t. /\ lock \in [by : Tellers \cup {Nobody}, stale : BOOLEAN]
      /\ teller \in [Tellers -> TellerStates]
      /\ file \in [0..(MaxFiles + 1) -> SUBSET TheLines]
  BY <1>a DEF TelemetryTypes
\* A step of a process that was not and is not about to rotate or release.
<1>q. ASSUME NEW p \in Tellers, ~Locked(p)', teller'[p].pc # "shift",
             UNCHANGED <<file, lockMode, said, dropped>>,
             \A q \in Tellers \ {p} : teller'[q] = teller[q] /\ (Locked(q) => lock'.by = q)
      PROVE  Goal'
  <2>1. \A q \in Tellers \ {p} : Locked(q)' <=> Locked(q)
    BY <1>q DEF Locked
  <2>2. OneRotates'
    BY <1>q, <2>1 DEF OneRotates
  <2>3. RoomToShift'
    BY <1>q, <1>g DEF RoomToShift
  <2>4. TelemetryKept'
    BY <1>q, <1>g, <1>u DEF TelemetryKept
  <2> QED BY <2>2, <2>3, <2>4
<1>1. ASSUME NEW p \in Tellers, Measure(p) PROVE Goal'
  <2> DEFINE r == file[0] # {} /\ full
             pc == IF r \/ lockMode = "always" THEN "lock" ELSE "append"
  <2>1. teller' = [teller EXCEPT ![p] = [teller[p] EXCEPT !.rotate = r, !.pc = pc]]
    BY <1>1, <1>t DEF Measure
  <2> HIDE DEF r
  <2>2. teller'[p].rotate = r /\ teller'[p].pc = pc
    BY <1>t, <2>1 DEF TellerStates
  <2>3. \A q \in Tellers \ {p} : teller'[q] = teller[q]
    BY <1>t, <2>1
  <2>4. UNCHANGED <<file, lockMode, lock, said, dropped>>
    BY <1>1 DEF Measure, telemetryHistory
  <2>5. ~Locked(p)' /\ teller'[p].pc # "shift"
    BY <2>2, <2>4 DEF Locked
  <2> QED BY <1>g, <1>q, <2>3, <2>4, <2>5 DEF OneRotates
<1>2. ASSUME NEW p \in Tellers, Acquire(p) PROVE Goal'
  <2>1. /\ lock.by = Nobody /\ lock' = [by |-> p, stale |-> FALSE]
        /\ At(p, IF teller[p].rotate THEN "recheck" ELSE "append")
        /\ UNCHANGED <<file, lockMode, telemetryHistory>>
    BY <1>2 DEF Acquire, Free
  <2>2. \A q \in Tellers : ~Locked(q)
    BY <1>g, <2>1 DEF OneRotates
  <2>3. /\ teller'[p].pc \in {"recheck", "append"}
        /\ \A q \in Tellers \ {p} : teller'[q] = teller[q]
    BY <1>a, <2>1, AtFacts
  <2>4. \A q \in Tellers \ {p} : ~Locked(q)'
    BY <2>1, <2>2, <2>3 DEF Locked
  <2>5. lock'.by = p
    BY <2>1
  <2>6. OneRotates'
    BY <2>4, <2>5 DEF OneRotates
  <2>7. RoomToShift'
    BY <1>g, <2>1, <2>3 DEF RoomToShift
  <2>8. TelemetryKept'
    BY <1>g, <2>1 DEF TelemetryKept, telemetryHistory
  <2> QED BY <2>6, <2>7, <2>8
<1>3. ASSUME NEW p \in Tellers, Busy(p) PROVE Goal'
  <2> DEFINE pc == IF lock.stale THEN "reclaim" ELSE "lock"
  <2>1. teller' = [teller EXCEPT ![p] = [teller[p] EXCEPT !.tries = @ + 1, !.pc = pc]]
    BY <1>3, <1>t DEF Busy
  <2>2. teller'[p].pc = pc
    BY <1>t, <2>1 DEF TellerStates
  <2>3. \A q \in Tellers \ {p} : teller'[q] = teller[q]
    BY <1>t, <2>1
  <2>4. UNCHANGED <<file, lockMode, lock, said, dropped>>
    BY <1>3 DEF Busy, telemetryHistory
  <2>5. ~Locked(p)' /\ teller'[p].pc # "shift"
    BY <2>2 DEF Locked
  <2> QED BY <1>g, <1>q, <2>3, <2>4, <2>5 DEF OneRotates
<1>4. ASSUME NEW p \in Tellers, Skip(p) \/ TellerDies(p) PROVE Goal'
  <2>1. UNCHANGED <<file, lockMode, lock, said, dropped>>
    BY <1>4 DEF Skip, TellerDies, telemetryHistory
  <2>2. /\ teller'[p].pc \in {"done", "dead"}
        /\ \A q \in Tellers \ {p} : teller'[q] = teller[q]
    BY <1>4, <1>a, AtFacts DEF Skip, TellerDies
  <2>3. ~Locked(p)' /\ teller'[p].pc # "shift"
    BY <2>2 DEF Locked
  <2> QED BY <1>g, <1>q, <2>1, <2>2, <2>3 DEF OneRotates
<1>5. ASSUME NEW p \in Tellers, Reclaim(p) \/ Release(p) PROVE Goal'
  <2>1. ~Usurps(p) /\ UNCHANGED <<file, lockMode, said, dropped>>
    BY <1>5 DEF Reclaim, Release
  <2>2. /\ teller'[p].pc \in {"lock", "done"}
        /\ \A q \in Tellers \ {p} : teller'[q] = teller[q]
    BY <1>5, <1>a, AtFacts DEF Reclaim, Release
  <2>3. ~Locked(p)' /\ teller'[p].pc # "shift"
    BY <2>2 DEF Locked
  <2>4. \A q \in Tellers \ {p} : ~Locked(q)
    <3> TAKE q \in Tellers \ {p}
    <3>1. CASE lock.by \in {Nobody, p}
      BY <1>g, <3>1 DEF OneRotates
    <3>2. CASE lock.by \notin {Nobody, p}
      <4>1. teller[lock.by].pc \in {"dead", "done"}
        BY <2>1, <3>2 DEF Usurps
      <4>2. ~Locked(lock.by)
        BY <4>1 DEF Locked
      <4> QED BY <1>g, <4>2 DEF OneRotates
    <3> QED BY <3>1, <3>2
  <2> QED BY <1>q, <2>1, <2>2, <2>3, <2>4
<1>6. CASE LockGrowsStale \/ UNCHANGED telemetryVars
  <2>1. UNCHANGED <<file, lockMode, teller, telemetryHistory>>
    BY <1>6 DEF LockGrowsStale, telemetryVars
  <2>2. lock'.by = lock.by
    BY <1>6, <1>t DEF LockGrowsStale, telemetryVars
  <2> QED BY <1>g, <2>1, <2>2 DEF OneRotates, Locked, RoomToShift, TelemetryKept, telemetryHistory
\* Only one process is between taking and removing the lock.
<1>7. ASSUME NEW p \in Tellers, Locked(p), NEW q \in Tellers \ {p} PROVE ~Locked(q)
  BY <1>7, <1>g DEF OneRotates
\* A step of the one that is, after which it may still be.
<1>8. ASSUME NEW p \in Tellers, Locked(p), UNCHANGED <<lock, lockMode>>, TelemetryKept',
             \A q \in Tellers \ {p} : teller'[q] = teller[q],
             teller'[p].pc = "shift" =>
               teller'[p].shift \in 0..(MaxFiles - 1) /\ file'[teller'[p].shift + 1] = {}
      PROVE  Goal'
  <2>1. lock'.by = p
    BY <1>8, <1>g DEF OneRotates
  <2>2. \A q \in Tellers \ {p} : ~Locked(q)
    BY <1>7, <1>8
  <2>3. \A q \in Tellers \ {p} : ~Locked(q)' /\ teller'[q].pc # "shift"
    BY <1>8, <2>2 DEF Locked
  <2> QED BY <1>8, <2>1, <2>3 DEF OneRotates, RoomToShift
<1>9. ASSUME NEW p \in Tellers, Recheck(p) PROVE Goal'
  <2>1. Locked(p) /\ UNCHANGED <<lock, lockMode, said>>
    BY <1>9 DEF Recheck, Locked
  <2>2. CASE At(p, "append") /\ UNCHANGED <<file, dropped>>
    <3>1. TelemetryKept'
      BY <1>9, <1>g, <2>2 DEF Recheck, TelemetryKept
    <3> QED BY <1>8, <1>a, <2>1, <2>2, <3>1, AtFacts
  <2>3. CASE /\ file' = [i \in DOMAIN file |-> IF i >= MaxFiles THEN {} ELSE file[i]]
             /\ dropped' = dropped \cup UNION {file[i] : i \in {j \in DOMAIN file : j >= MaxFiles}}
             /\ teller' = [teller EXCEPT ![p].pc = "shift", ![p].shift = MaxFiles - 1]
    <3>1. teller' = [teller EXCEPT ![p] = [teller[p] EXCEPT !.pc = "shift", !.shift = MaxFiles - 1]]
      BY <2>3, <1>t
    <3>2. /\ teller'[p].shift = MaxFiles - 1 /\ MaxFiles - 1 \in 0..(MaxFiles - 1)
          /\ \A q \in Tellers \ {p} : teller'[q] = teller[q]
      BY <1>t, <3>1 DEF TellerStates
    <3>3. MaxFiles \in DOMAIN file /\ file'[MaxFiles] = {}
      BY <1>t, <2>3
    <3>4. \A i \in DOMAIN file : file[i] \subseteq dropped' \cup UNION {file'[k] : k \in DOMAIN file'}
      <4> TAKE i \in DOMAIN file
      <4>1. CASE i >= MaxFiles
        BY <2>3, <4>1
      <4>2. CASE ~(i >= MaxFiles)
        <5>1. i \in DOMAIN file' /\ file'[i] = file[i]
          BY <2>3, <4>2
        <5> QED BY <5>1
      <4> QED BY <4>1, <4>2
    <3>5. dropped \subseteq dropped'
      BY <2>3
    <3>6. TelemetryKept'
      <4>1. said \subseteq dropped \cup UNION {file[k] : k \in DOMAIN file}
        BY <1>g, <1>u DEF TelemetryKept
      <4>2. said' \subseteq dropped' \cup UNION {file'[k] : k \in DOMAIN file'}
        BY <2>1, <3>4, <3>5, <4>1
      <4> QED BY <4>2 DEF TelemetryKept
    <3> QED BY <1>8, <2>1, <3>2, <3>3, <3>6
  <2> QED BY <1>9, <2>2, <2>3 DEF Recheck
<1>10. ASSUME NEW p \in Tellers, Shift(p) PROVE Goal'
  <2> DEFINE i == teller[p].shift
  <2>1. /\ Locked(p) /\ UNCHANGED <<lock, lockMode, said, dropped, usurped>>
        /\ i \in 1..(MaxFiles - 1) /\ file[i + 1] = {}
    BY <1>10, <1>g, <1>t DEF Shift, Locked, RoomToShift, telemetryHistory, TellerStates
  <2>2. teller' = [teller EXCEPT ![p] = [teller[p] EXCEPT !.shift = i - 1]]
    BY <1>10, <1>t DEF Shift
  <2>3. /\ teller'[p].shift = i - 1 /\ i - 1 \in 0..(MaxFiles - 1) /\ (i - 1) + 1 = i
        /\ \A q \in Tellers \ {p} : teller'[q] = teller[q]
    BY <1>t, <2>1, <2>2 DEF TellerStates
  <2>4. i \in 0..MaxFiles
    BY <2>1
  <2>5. Move(i) \/ (file[i] = {} /\ UNCHANGED file)
    BY <1>10 DEF Shift
  <2> HIDE DEF i
  <2>6. file'[i] = {} /\ TelemetryKept'
    BY <1>a, <1>g, <2>1, <2>4, <2>5, MoveKeeps DEF TelemetryKept
  <2> QED BY <1>8, <2>1, <2>3, <2>6
<1>11. ASSUME NEW p \in Tellers, RotateActive(p) PROVE Goal'
  <2>1. /\ Locked(p) /\ UNCHANGED <<lock, lockMode, said, dropped, usurped>>
        /\ file[0 + 1] = {} /\ At(p, "append")
    BY <1>11, <1>g DEF RotateActive, Locked, RoomToShift, telemetryHistory
  <2>2. Move(0) \/ UNCHANGED file
    BY <1>11 DEF RotateActive
  <2>3. TelemetryKept'
    BY <1>a, <1>g, <2>1, <2>2, MoveKeeps DEF TelemetryKept
  <2> QED BY <1>8, <1>a, <2>1, <2>3, AtFacts
<1>12. ASSUME NEW p \in Tellers, AppendLine(p) PROVE Goal'
  <2>1. /\ file' = [file EXCEPT ![0] = @ \cup {p}] /\ said' = said \cup {p}
        /\ UNCHANGED <<lock, lockMode, dropped, usurped>>
        /\ At(p, IF teller[p].rotate \/ lockMode = "always" THEN "release" ELSE "done")
    BY <1>12 DEF AppendLine
  <2>2. /\ DOMAIN file' = DOMAIN file /\ 0 \in DOMAIN file /\ file'[0] = file[0] \cup {p}
        /\ \A i \in DOMAIN file : i # 0 => file'[i] = file[i]
    BY <1>t, <2>1
  <2>3. TelemetryKept'
    <3>1. said \subseteq dropped \cup UNION {file[k] : k \in DOMAIN file}
      BY <1>g, <1>u DEF TelemetryKept
    <3>2. \A k \in DOMAIN file : file[k] \subseteq file'[k]
      BY <2>2
    <3>3. said' \subseteq dropped' \cup UNION {file'[k] : k \in DOMAIN file'}
      BY <2>1, <2>2, <3>1, <3>2
    <3> QED BY <3>3 DEF TelemetryKept
  <2>4. /\ teller'[p].pc = IF teller[p].rotate \/ lockMode = "always" THEN "release" ELSE "done"
        /\ \A q \in Tellers \ {p} : teller'[q] = teller[q]
    BY <1>a, <2>1, AtFacts
  <2>5. OneRotates'
    <3>1. ASSUME NEW q \in Tellers, Locked(q)' PROVE Locked(q)
      <4>1. CASE q = p
        BY <1>12, <3>1, <4>1, <2>4 DEF Locked, AppendLine
      <4>2. CASE q # p
        BY <3>1, <4>2, <2>1, <2>4 DEF Locked
      <4> QED BY <4>1, <4>2
    <3> QED BY <1>g, <2>1, <3>1 DEF OneRotates
  <2>6. RoomToShift'
    <3> SUFFICES ASSUME NEW q \in Tellers, teller'[q].pc = "shift"
                 PROVE  teller'[q].shift \in 0..(MaxFiles - 1) /\ file'[teller'[q].shift + 1] = {}
      BY DEF RoomToShift
    <3>1. q # p
      BY <2>4
    <3>2. teller[q].shift \in 0..(MaxFiles - 1) /\ file[teller[q].shift + 1] = {}
      BY <1>g, <2>4, <3>1 DEF RoomToShift
    <3>3. teller[q].shift + 1 \in DOMAIN file /\ teller[q].shift + 1 # 0
      BY <1>t, <3>2
    <3> QED BY <2>2, <2>4, <3>1, <3>2, <3>3
  <2> QED BY <2>3, <2>5, <2>6
<1> QED
  BY <1>1, <1>2, <1>3, <1>4, <1>5, <1>6, <1>9, <1>10, <1>11, <1>12 DEF TelemetryNext

(***************************************************************************)
(* However many hooks write at once, whatever they find in the files and   *)
(* whoever dies in between: unless a lock is taken from a holder that was  *)
(* only slow, every line that was written is in a file or in one that was  *)
(* rotated out.                                                            *)
(***************************************************************************)
THEOREM LinesAreKept == TelemetrySpec => []TelemetryKept
<1>1. TelemetryInit => KeptInv
  BY TelemetryInitKept
<1>2. KeptInv /\ [TelemetryNext]_telemetryVars => KeptInv'
  BY KeptInvNext
<1>3. KeptInv => TelemetryKept
  BY DEF KeptInv, TelemetryKept
<1> QED BY <1>1, <1>2, <1>3, PTL DEF TelemetrySpec

=============================================================================
