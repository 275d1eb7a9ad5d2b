-------------------------- MODULE RelayDaemonProofs --------------------------
(***************************************************************************)
(* Proof that the relay's log is one chain over all restarts, that a hook  *)
(* is told the truth about its event, and that seals tell the truth, for   *)
(* any number of events, deaths, failed reads and failed, short or lost    *)
(* writes.                                                                 *)
(***************************************************************************)
EXTENDS RelayDaemon, FiniteSetTheorems, TLAPS

USE RelayAssumption

ClientStates == {"new", "sent", "silent", "recorded", "ok", "rejected", "done"}

TypeOK ==
  /\ log \in Seq(Line) /\ freshLog \subseteq Nat
  /\ seals \in Seq(SealLine) /\ freshSeals \subseteq Nat
  /\ up \in BOOLEAN /\ state \in State /\ inbox \subseteq Events
  /\ client \in [Events -> ClientStates]

\* What init looks for is there.
HasLast ==
  EventAt # {} => \E i \in EventAt : \A j \in EventAt : j <= i

\* An event that a hook has not sent, that waits for the daemon or that was
\* rejected is nowhere in the log; one that was acknowledged is.
At(e) == {i \in WrittenAt : log[i].id = e}
Stored(e) ==
  \E i \in At(e) : i \in EventAt \/ log[i].form = "cut" \/ (i > 1 /\ log[i - 1].form = "cut")
Answers ==
  \A e \in Events :
    /\ client[e] \in {"new", "rejected"} => e \notin inbox
    /\ client[e] \in {"new", "rejected"} \/ e \in inbox => At(e) = {}
    /\ client[e] \in {"ok", "done"} => Stored(e)

\* A seal line, readable or not, is true of the log as it was, and covers more
\* than every readable seal before it.
Sealed ==
  /\ \A i \in DOMAIN seals :
       /\ seals[i].at <= Len(log)
       /\ Predecessor(seals[i].at, seals[i].seal.tip)
       /\ Counted(seals[i].at, seals[i].seal.count)
  /\ \A i, j \in DOMAIN seals : i < j => seals[i].at <= seals[j].at
  /\ MinEvents > 0 => \A i, j \in DOMAIN seals :
       /\ i < j /\ seals[i].kind = "whole" /\ Healthy(seals[j].at)
       /\ \A f \in freshSeals : ~(i <= f /\ f < j)
       => seals[i].seal.count < seals[j].seal.count

\* A running daemon knows the tip and the count of its log.
Recovered ==
  Predecessor(Len(log), state.chainTip) /\ Counted(Len(log), state.eventCount)

\* A running daemon knows what the last seal covers, unless it cannot be read.
SealKnown ==
  /\ state.autoSealInProgress =>
       /\ seals # <<>> /\ seals[Len(seals)].kind # "torn"
       /\ state.seal = seals[Len(seals)].seal
  /\ /\ ~state.autoSealInProgress /\ seals # <<>> /\ seals[Len(seals)].kind = "whole"
     /\ Len(seals) \notin freshSeals
     => seals[Len(seals)].seal.count <= state.lastSealEventCount

IInv ==
  /\ TypeOK /\ HasLast /\ RelayChainLinked /\ Answers /\ Sealed
  /\ up => Recovered /\ SealKnown

-----------------------------------------------------------------------------
(***************************************************************************)
(* What is said of the first n writes stays true when there are more.      *)
(***************************************************************************)
LEMMA Positions ==
  ASSUME log \in Seq(Line)
  PROVE  /\ EventAt \subseteq WrittenAt /\ WrittenAt \subseteq 1..Len(log)
         /\ WrittenAt \subseteq Nat /\ EventAt \subseteq Nat /\ Len(log) \in Nat
  BY DEF EventAt, WrittenAt

LEMMA BetweenType ==
  ASSUME log \in Seq(Line), NEW f \in Nat, NEW n \in Nat
  PROVE  /\ IsFiniteSet({i \in EventAt : f < i /\ i <= n})
         /\ IsFiniteSet({i \in WrittenAt : f < i /\ i <= n})
         /\ Between(EventAt, f, n) \in Nat /\ Between(WrittenAt, f, n) \in Nat
<1>1. IsFiniteSet(1..Len(log))
  BY Positions, FS_Interval
<1>2. /\ {i \in EventAt : f < i /\ i <= n} \subseteq 1..Len(log)
      /\ {i \in WrittenAt : f < i /\ i <= n} \subseteq 1..Len(log)
  BY Positions
<1> QED BY <1>1, <1>2, FS_Subset, FS_CardinalityType DEF Between

\* The log only grows, and starts that could not read it are not forgotten.
Grown ==
  /\ log' \in Seq(Line) /\ Len(log') >= Len(log)
  /\ \A i \in 1..Len(log) : log'[i] = log[i]
  /\ freshLog \subseteq freshLog' /\ freshLog' \subseteq Nat

LEMMA GrownPositions ==
  ASSUME log \in Seq(Line), Grown, NEW n \in Nat, n <= Len(log), NEW i \in Nat, i <= n
  PROVE  /\ i \in EventAt' <=> i \in EventAt
         /\ i \in WrittenAt' <=> i \in WrittenAt
         /\ i \in WrittenAt => log'[i] = log[i]
<1>1. i \in DOMAIN log <=> i \in DOMAIN log'
  BY DEF Grown
<1>2. i \in DOMAIN log => log'[i] = log[i]
  BY DEF Grown
<1> QED BY <1>1, <1>2 DEF EventAt, WrittenAt

LEMMA GrownKeeps ==
  ASSUME log \in Seq(Line), Grown, NEW n \in Nat, n <= Len(log)
  PROVE  /\ \A t : Predecessor(n, t) => Predecessor(n, t)'
         /\ \A c : Counted(n, c) => Counted(n, c)'
         /\ Healthy(n)' => Healthy(n)
<1>0. /\ EventAt \subseteq Nat /\ WrittenAt \subseteq Nat
      /\ EventAt' \subseteq Nat /\ WrittenAt' \subseteq Nat
  <2>1. log' \in Seq(Line)
    BY DEF Grown
  <2> QED BY <2>1, Positions DEF EventAt, WrittenAt
<1>1. \A i \in Nat : i <= n => /\ i \in EventAt' <=> i \in EventAt
                               /\ i \in WrittenAt' <=> i \in WrittenAt
                               /\ i \in WrittenAt => log'[i] = log[i]
  BY GrownPositions
<1>2. EventAt \subseteq WrittenAt
  BY DEF EventAt
<1>3. freshLog \subseteq freshLog'
  BY DEF Grown
<1>4. ASSUME NEW t, Predecessor(n, t) PROVE Predecessor(n, t)'
  <2>1. LastOf(EventAt, n, t) => LastOf(EventAt, n, t)'
    BY <1>0, <1>1, <1>2 DEF LastOf
  <2>2. LastOf(WrittenAt, n, t) => LastOf(WrittenAt, n, t)'
    BY <1>0, <1>1 DEF LastOf
  <2>3. ASSUME NEW f \in {0} \cup freshLog, f <= n, \A i \in EventAt : ~(f < i /\ i <= n)
        PROVE  f \in {0} \cup freshLog' /\ \A i \in EventAt' : ~(f < i /\ i <= n)
    BY <1>0, <1>1, <1>3, <2>3
  <2> QED BY <1>4, <2>1, <2>2, <2>3 DEF Predecessor
<1>5. ASSUME NEW c, Counted(n, c) PROVE Counted(n, c)'
  <2>1. PICK f \in {0} \cup freshLog :
          f <= n /\ Between(EventAt, f, n) <= c /\ c <= Between(WrittenAt, f, n)
    BY <1>5 DEF Counted
  <2>2. /\ {i \in EventAt' : f < i /\ i <= n} = {i \in EventAt : f < i /\ i <= n}
        /\ {i \in WrittenAt' : f < i /\ i <= n} = {i \in WrittenAt : f < i /\ i <= n}
    BY <1>0, <1>1
  <2>3. Between(EventAt, f, n)' = Between(EventAt, f, n)
        /\ Between(WrittenAt, f, n)' = Between(WrittenAt, f, n)
    BY <2>2 DEF Between
  <2> QED BY <1>3, <2>1, <2>3 DEF Counted
<1>6. ASSUME Healthy(n)' PROVE Healthy(n)
  BY <1>0, <1>1, <1>3, <1>6 DEF Healthy
<1> QED BY <1>4, <1>5, <1>6

\* What is said of the log as a whole when a line is added.
LEMMA LineAdded ==
  ASSUME log \in Seq(Line), NEW m \in Line, NEW n \in Nat, n = Len(log),
         log' = Append(log, m)
  PROVE  /\ Len(log') = n + 1 /\ log'[n + 1] = m
         /\ WrittenAt' = WrittenAt \cup (IF m.type = "event" THEN {n + 1} ELSE {})
         /\ EventAt' = EventAt \cup
              (IF m.type = "event" /\ m.form = "whole" THEN {n + 1} ELSE {})
         /\ \A i \in WrittenAt : i <= n /\ log'[i] = log[i]
<1>1. /\ Len(log') = n + 1 /\ log'[n + 1] = m /\ DOMAIN log' = DOMAIN log \cup {n + 1}
      /\ n + 1 \notin DOMAIN log /\ \A i \in DOMAIN log : i <= n /\ log'[i] = log[i]
  OBVIOUS
<1>2. WrittenAt' = WrittenAt \cup (IF m.type = "event" THEN {n + 1} ELSE {})
  BY <1>1 DEF WrittenAt
<1>3. EventAt' = EventAt \cup (IF m.type = "event" /\ m.form = "whole" THEN {n + 1} ELSE {})
  BY <1>1, <1>2 DEF EventAt, WrittenAt
<1> QED BY <1>1, <1>2, <1>3 DEF WrittenAt

LEMMA BeatKeeps ==
  ASSUME log \in Seq(Line), NEW m \in Line, m.type = "heartbeat", NEW n \in Nat, n = Len(log),
         log' = Append(log, m), freshLog' \subseteq Nat
  PROVE  /\ \A t : Predecessor(n, t)' => Predecessor(n + 1, t)'
         /\ \A c : Counted(n, c)' => Counted(n + 1, c)'
<1>1. /\ WrittenAt' = WrittenAt /\ EventAt' = EventAt
      /\ \A i \in WrittenAt : i <= n /\ i \in Nat
      /\ \A i \in EventAt : i <= n /\ i \in Nat
  BY LineAdded, Positions
<1>2. ASSUME NEW t, Predecessor(n, t)' PROVE Predecessor(n + 1, t)'
  <2>1. ASSUME LastOf(EventAt, n, t)' PROVE LastOf(EventAt, n + 1, t)'
    <3>1. PICK i \in EventAt' :
            i <= n /\ (\A j \in EventAt' : j <= n => j <= i) /\ t = log'[i].id
      BY <2>1 DEF LastOf
    <3>2. i <= n + 1 /\ \A j \in EventAt' : j <= n + 1 => j <= i
      BY <1>1, <3>1
    <3> QED BY <3>1, <3>2 DEF LastOf
  <2>2. ASSUME LastOf(WrittenAt, n, t)' PROVE LastOf(WrittenAt, n + 1, t)'
    <3>1. PICK i \in WrittenAt' :
            i <= n /\ (\A j \in WrittenAt' : j <= n => j <= i) /\ t = log'[i].id
      BY <2>2 DEF LastOf
    <3>2. i <= n + 1 /\ \A j \in WrittenAt' : j <= n + 1 => j <= i
      BY <1>1, <3>1
    <3> QED BY <3>1, <3>2 DEF LastOf
  <2>3. ASSUME NEW f \in {0} \cup freshLog', f <= n, \A i \in EventAt' : ~(f < i /\ i <= n)
        PROVE  f <= n + 1 /\ \A i \in EventAt' : ~(f < i /\ i <= n + 1)
    BY <1>1, <2>3
  <2> QED BY <1>2, <2>1, <2>2, <2>3 DEF Predecessor
<1>3. ASSUME NEW c, Counted(n, c)' PROVE Counted(n + 1, c)'
  <2>1. PICK f \in {0} \cup freshLog' :
          /\ f <= n /\ Between(EventAt, f, n)' <= c /\ c <= Between(WrittenAt, f, n)'
    BY <1>3 DEF Counted
  <2>2. /\ {i \in EventAt' : f < i /\ i <= n + 1} = {i \in EventAt' : f < i /\ i <= n}
        /\ {i \in WrittenAt' : f < i /\ i <= n + 1} = {i \in WrittenAt' : f < i /\ i <= n}
    BY <1>1
  <2>3. /\ Between(EventAt, f, n + 1)' = Between(EventAt, f, n)'
        /\ Between(WrittenAt, f, n + 1)' = Between(WrittenAt, f, n)'
    BY <2>2 DEF Between
  <2>4. f <= n + 1
    BY <2>1
  <2> QED BY <2>1, <2>3, <2>4 DEF Counted
<1> QED BY <1>2, <1>3

LEMMA EventAdded ==
  ASSUME log \in Seq(Line), NEW m \in Line, m.type = "event", NEW n \in Nat, n = Len(log),
         log' = Append(log, m), UNCHANGED freshLog, freshLog \subseteq Nat
  PROVE  /\ Predecessor(n + 1, m.id)'
         /\ \A c \in Nat : Counted(n, c) => Counted(n + 1, c + 1)'
<1>1. /\ WrittenAt' = WrittenAt \cup {n + 1} /\ log'[n + 1] = m
      /\ EventAt' = EventAt \cup (IF m.form = "whole" THEN {n + 1} ELSE {})
      /\ \A i \in WrittenAt : i <= n /\ i \in Nat
      /\ \A i \in EventAt : i <= n /\ i \in Nat
  BY LineAdded, Positions
<1>2. LastOf(WrittenAt, n + 1, m.id)'
  BY <1>1 DEF LastOf
<1>3. ASSUME NEW c \in Nat, Counted(n, c) PROVE Counted(n + 1, c + 1)'
  <2>1. PICK f \in {0} \cup freshLog :
          /\ f <= n /\ Between(EventAt, f, n) <= c /\ c <= Between(WrittenAt, f, n)
    BY <1>3 DEF Counted
  <2>2. f \in Nat
    BY <2>1
  <2> DEFINE W == {i \in WrittenAt : f < i /\ i <= n}
             E == {i \in EventAt : f < i /\ i <= n}
  <2>3. /\ {i \in WrittenAt' : f < i /\ i <= n + 1} = W \cup {n + 1}
        /\ {i \in EventAt' : f < i /\ i <= n + 1} =
             E \cup (IF m.form = "whole" THEN {n + 1} ELSE {})
    BY <1>1, <2>1, <2>2
  <2>4. n + 1 \notin W /\ n + 1 \notin E
    BY <2>2
  <2>5. IsFiniteSet(W) /\ IsFiniteSet(E) /\ Cardinality(W) \in Nat /\ Cardinality(E) \in Nat
    BY <2>2, BetweenType DEF Between
  <2> HIDE DEF W, E
  <2>6. /\ Cardinality(W \cup {n + 1}) = Cardinality(W) + 1
        /\ Cardinality(E \cup {n + 1}) = Cardinality(E) + 1
    BY <2>4, <2>5, FS_AddElement
  <2>7. Between(WrittenAt, f, n) = Cardinality(W) /\ Between(EventAt, f, n) = Cardinality(E)
    BY DEF Between, W, E
  <2>8. Between(WrittenAt, f, n + 1)' = Cardinality(W) + 1
    BY <2>3, <2>6 DEF Between
  <2>9. /\ Between(EventAt, f, n + 1)' <= Cardinality(E) + 1
        /\ Between(EventAt, f, n + 1)' \in Nat
    <3> DEFINE F == {i \in EventAt' : f < i /\ i <= n + 1}
    <3>1. F = E \cup {n + 1} \/ F = E
      BY <2>3
    <3>2. Between(EventAt, f, n + 1)' = Cardinality(F)
      BY DEF Between
    <3> HIDE DEF F
    <3>3. Cardinality(F) \in {Cardinality(E), Cardinality(E) + 1}
      BY <2>6, <3>1
    <3> QED BY <2>5, <3>2, <3>3
  <2>10. f <= n + 1 /\ f \in {0} \cup freshLog'
    BY <2>1, <2>2
  <2> QED BY <2>1, <2>5, <2>7, <2>8, <2>9, <2>10 DEF Counted
<1> QED BY <1>2, <1>3 DEF Predecessor

\* In a healthy log there is one count.
LEMMA HealthyCount ==
  ASSUME log \in Seq(Line), freshLog \subseteq Nat, NEW n \in Nat, Healthy(n), NEW c \in Nat,
         Counted(n, c)
  PROVE  c = Between(EventAt, 0, n)
<1>1. PICK f \in {0} \cup freshLog :
        f <= n /\ Between(EventAt, f, n) <= c /\ c <= Between(WrittenAt, f, n)
  BY DEF Counted
<1>2. f = 0
  BY <1>1 DEF Healthy
<1>3. {i \in WrittenAt : 0 < i /\ i <= n} = {i \in EventAt : 0 < i /\ i <= n}
  BY Positions DEF Healthy
<1>4. Between(WrittenAt, 0, n) = Between(EventAt, 0, n)
  BY <1>3 DEF Between
<1>5. 0 \in Nat /\ Between(EventAt, 0, n) \in Nat
  BY BetweenType
<1> QED BY <1>1, <1>2, <1>4, <1>5

LEMMA HealthyPrefix ==
  ASSUME log \in Seq(Line), freshLog \subseteq Nat, NEW n \in Nat, NEW k \in Nat, k <= n, Healthy(n)
  PROVE  Healthy(k) /\ Between(EventAt, 0, k) <= Between(EventAt, 0, n)
<1>1. Healthy(k)
  BY Positions DEF Healthy
<1>2. {i \in EventAt : 0 < i /\ i <= k} \subseteq {i \in EventAt : 0 < i /\ i <= n}
  BY Positions
<1> DEFINE A == {i \in EventAt : 0 < i /\ i <= k}
           B == {i \in EventAt : 0 < i /\ i <= n}
<1>3. IsFiniteSet(B) /\ A \subseteq B
  <2>1. B \subseteq EventAt /\ EventAt \subseteq 1..Len(log) /\ IsFiniteSet(1..Len(log))
    BY Positions, FS_Interval
  <2> QED BY <1>2, <2>1, FS_Subset
<1> HIDE DEF A, B
<1>4. Cardinality(A) <= Cardinality(B)
  BY <1>3, FS_Subset
<1> QED BY <1>1, <1>4 DEF Between, A, B

-----------------------------------------------------------------------------
LEMMA InitIInv == Init => IInv
<1> SUFFICES ASSUME Init PROVE IInv
  OBVIOUS
<1>1. WrittenAt = {} /\ EventAt = {}
  BY DEF Init, EventAt, WrittenAt
<1>2. TypeOK
  <2>1. log = <<>> /\ seals = <<>> /\ freshLog = {} /\ freshSeals = {} /\ up = FALSE
        /\ inbox = {} /\ client = [e \in Events |-> "new"]
    BY DEF Init
  <2>2. state \in State
    BY DEF Init, State, Tips, NoSeal, Seal
  <2>3. log \in Seq(Line) /\ seals \in Seq(SealLine)
    BY <2>1
  <2>4. client \in [Events -> ClientStates]
    BY <2>1 DEF ClientStates
  <2> QED BY <2>1, <2>2, <2>3, <2>4 DEF TypeOK
<1>3. HasLast /\ RelayChainLinked
  BY <1>1 DEF HasLast, RelayChainLinked
<1>4. Answers
  BY <1>1 DEF Init, Answers, At
<1>5. Sealed
  BY DEF Init, Sealed
<1> QED BY <1>2, <1>3, <1>4, <1>5 DEF IInv, Init

(***************************************************************************)
(* What a line that is added leaves true.                                  *)
(***************************************************************************)
LEMMA AppendLineShape ==
  ASSUME log \in Seq(Line), NEW l \in Line, NEW cut \in BOOLEAN, AppendLine(l, cut)
  PROVE  \E m \in Line :
           /\ log' = Append(log, m)
           /\ m.type = l.type /\ m.id = l.id /\ m.prev = l.prev
           /\ m.form = "glued" => CutAtEnd
<1>1. PICK form \in Forms :
        log' = Append(log, [l EXCEPT !.form = form]) /\ (form = "glued" => CutAtEnd)
  BY DEF AppendLine, Forms
<1>2. PICK m \in Line : m = [l EXCEPT !.form = form]
  BY DEF Line
<1> QED BY <1>1, <1>2 DEF Line

LEMMA LineGrows ==
  ASSUME log \in Seq(Line), freshLog \subseteq freshLog', freshLog' \subseteq Nat,
         UNCHANGED log \/ \E m \in Line : log' = Append(log, m)
  PROVE  Grown
<1>1. CASE UNCHANGED log
  BY <1>1 DEF Grown
<1>2. CASE \E m \in Line : log' = Append(log, m)
  BY <1>2 DEF Grown
<1> QED BY <1>1, <1>2

\* An event line that names the tip continues the chain.
LEMMA LinkedStays ==
  ASSUME log \in Seq(Line), HasLast, RelayChainLinked, Grown,
         NEW n \in Nat, n = Len(log), NEW m \in Line, log' = Append(log, m),
         m.type = "event" => Predecessor(n, m.prev)
  PROVE  HasLast' /\ RelayChainLinked'
<1>1. /\ log'[n + 1] = m
      /\ EventAt' = EventAt \cup
           (IF m.type = "event" /\ m.form = "whole" THEN {n + 1} ELSE {})
      /\ \A i \in EventAt : i \in 1..n /\ log'[i] = log[i]
  BY LineAdded, Positions
<1>2. HasLast'
  BY <1>1 DEF HasLast
<1>3. ASSUME NEW i \in EventAt PROVE Predecessor(i - 1, log[i].prev)'
  <2>1. Predecessor(i - 1, log[i].prev)
    BY DEF RelayChainLinked
  <2>2. PICK k \in Nat : k = i - 1 /\ k <= Len(log)
    BY <1>1
  <2>3. PICK t : t = log[i].prev
    OBVIOUS
  <2>4. Predecessor(k, t)'
    BY <2>1, <2>2, <2>3, GrownKeeps
  <2>5. t = log'[i].prev
    BY <1>1, <2>3
  <2> QED BY <2>2, <2>4, <2>5
<1>4. ASSUME m.type = "event" PROVE Predecessor(n, m.prev)'
  BY <1>4, GrownKeeps
<1>5. ASSUME NEW i \in EventAt' PROVE Predecessor(i - 1, log[i].prev)'
  <2>1. CASE i \in EventAt
    BY <1>3, <2>1
  <2>2. CASE i \notin EventAt
    <3>1. i = n + 1 /\ m.type = "event" /\ i - 1 = n
      BY <1>1, <2>2
    <3> QED BY <1>1, <1>4, <3>1
  <2> QED BY <2>1, <2>2
<1> QED BY <1>2, <1>5 DEF RelayChainLinked

\* Growth of the log makes no seal untrue.
LEMMA SealedStays ==
  ASSUME TypeOK, Sealed, Grown, UNCHANGED seals, freshSeals \subseteq freshSeals'
  PROVE  Sealed'
<1>1. ASSUME NEW i \in DOMAIN seals
      PROVE  /\ seals[i].at \in Nat /\ seals[i].at <= Len(log)
             /\ Predecessor(seals[i].at, seals[i].seal.tip)
             /\ Counted(seals[i].at, seals[i].seal.count)
  <2>1. seals[i] \in SealLine
    BY DEF TypeOK
  <2> QED BY <2>1 DEF Sealed, SealLine
<1>2. ASSUME NEW i \in DOMAIN seals
      PROVE  /\ seals[i].at <= Len(log')
             /\ Predecessor(seals[i].at, seals[i].seal.tip)'
             /\ Counted(seals[i].at, seals[i].seal.count)'
             /\ Healthy(seals[i].at)' => Healthy(seals[i].at)
  <2>1. PICK n, t, c :
          n \in Nat /\ n = seals[i].at /\ t = seals[i].seal.tip /\ c = seals[i].seal.count
    BY <1>1
  <2>2. /\ n <= Len(log) /\ Predecessor(n, t) /\ Counted(n, c)
    BY <1>1, <2>1
  <2>6. n \in Nat
    BY <2>1
  <2>3. Predecessor(n, t)' /\ Counted(n, c)' /\ (Healthy(n)' => Healthy(n))
    BY <2>2, <2>6, GrownKeeps DEF TypeOK
  <2>4. n <= Len(log')
    BY <2>2, <2>6 DEF Grown, TypeOK
  <2>5. seals'[i] = seals[i]
    OBVIOUS
  <2> QED BY <2>1, <2>3, <2>4, <2>5
<1>3. \A i, j \in DOMAIN seals : i < j => seals[i].at <= seals[j].at
  BY DEF Sealed
<1>4. ASSUME MinEvents > 0, NEW i \in DOMAIN seals, NEW j \in DOMAIN seals,
             i < j, seals[i].kind = "whole", Healthy(seals[j].at)',
             \A f \in freshSeals' : ~(i <= f /\ f < j)
      PROVE  seals[i].seal.count < seals[j].seal.count
  BY <1>2, <1>4 DEF Sealed
<1> QED BY <1>2, <1>3, <1>4 DEF Sealed

\* An event's writes are as they were after one that is not the event's.
LEMMA OthersAnswered ==
  ASSUME log \in Seq(Line), NEW m \in Line, log' = Append(log, m),
         NEW d \in Events, m.type # "event" \/ m.id # d
  PROVE  At(d)' = At(d) /\ (Stored(d) => Stored(d)')
<1>1. PICK n \in Nat : n = Len(log)
  BY Positions
<1>2. /\ log'[n + 1] = m
      /\ WrittenAt' = WrittenAt \cup (IF m.type = "event" THEN {n + 1} ELSE {})
      /\ EventAt \subseteq EventAt'
      /\ \A i \in WrittenAt : i \in 1..n /\ log'[i] = log[i]
  BY <1>1, LineAdded, Positions
<1>3. At(d)' = At(d)
  BY <1>2 DEF At
<1>4. \A i \in 1..n : log'[i] = log[i]
  BY <1>1
<1>5. ASSUME NEW i \in At(d)
      PROVE  i \in 1..n /\ log'[i] = log[i] /\ (i > 1 => log'[i - 1] = log[i - 1])
  <2>1. i \in 1..n
    BY <1>2 DEF At
  <2>2. i > 1 => i - 1 \in 1..n
    BY <1>1, <2>1
  <2> QED BY <1>4, <2>1, <2>2
<1> QED BY <1>2, <1>3, <1>5 DEF Stored

\* An event is stored by its own write, unless it is cut short or glued.
LEMMA ItIsStored ==
  ASSUME log \in Seq(Line), NEW e \in Events, NEW m \in Line, m.type = "event", m.id = e,
         m.form = "glued" => CutAtEnd, log' = Append(log, m)
  PROVE  Stored(e)'
<1>1. PICK n \in Nat : n = Len(log)
  BY Positions
<1>2. /\ log'[n + 1] = m
      /\ n + 1 \in WrittenAt' /\ (m.form = "whole" => n + 1 \in EventAt')
  BY <1>1, LineAdded
<1>3. n + 1 \in At(e)'
  BY <1>2 DEF At
<1>4. m.form = "glued" => n + 1 > 1 /\ log'[(n + 1) - 1].form = "cut"
  BY <1>1 DEF CutAtEnd
<1>5. m.form \in {"whole", "cut", "glued"}
  BY DEF Line, Forms
<1> QED BY <1>2, <1>3, <1>4, <1>5 DEF Stored

-----------------------------------------------------------------------------
\* A heartbeat, whole, cut short or lost, changes nothing that is said of the
\* events.
LEMMA BeatStays ==
  ASSUME IInv, NEW k \in Nat, Beat(k), UNCHANGED <<seals, client, inbox>>,
         freshLog \subseteq freshLog', freshLog' \subseteq Nat, freshSeals \subseteq freshSeals',
         NEW n \in Nat, n = Len(log)
  PROVE  /\ log' \in Seq(Line) /\ Grown
         /\ HasLast' /\ RelayChainLinked' /\ Answers' /\ Sealed'
         /\ \A t : Predecessor(n, t)' => Predecessor(Len(log), t)'
         /\ \A c : Counted(n, c)' => Counted(Len(log), c)'
<1>0. log \in Seq(Line) /\ TypeOK
  BY DEF IInv, TypeOK
<1>1. CASE UNCHANGED log
  <2>1. Grown
    BY <1>0, <1>1, LineGrows
  <2>2. EventAt' = EventAt /\ WrittenAt' = WrittenAt
    BY <1>1 DEF EventAt, WrittenAt
  <2>3. HasLast'
    BY <2>2 DEF IInv, HasLast
  <2>4. RelayChainLinked'
    <3> SUFFICES ASSUME NEW i \in EventAt' PROVE Predecessor(i - 1, log[i].prev)'
      BY DEF RelayChainLinked
    <3>1. PICK t : t = log[i].prev
      OBVIOUS
    <3>2. PICK p \in Nat : p = i - 1 /\ p <= Len(log)
      BY <1>0, <2>2, Positions
    <3>3. Predecessor(p, t)
      BY <2>2, <3>1, <3>2 DEF IInv, RelayChainLinked
    <3>4. Predecessor(p, t)'
      BY <1>0, <2>1, <3>2, <3>3, GrownKeeps
    <3> QED BY <1>1, <3>1, <3>2, <3>4
  <2>5. Answers'
    BY <1>1, <2>2 DEF IInv, Answers, At, Stored
  <2>6. Sealed'
    BY <1>0, <2>1, SealedStays DEF IInv
  <2> QED BY <1>0, <1>1, <2>1, <2>3, <2>4, <2>5, <2>6
<1>2. CASE \E cut \in BOOLEAN : AppendLine(Heartbeat_, cut)
  <2>1. Heartbeat_ \in Line /\ Heartbeat_.type = "heartbeat"
    BY DEF Heartbeat_, Line, Tips, Forms
  <2>2. PICK m \in Line : log' = Append(log, m) /\ m.type = "heartbeat"
    BY <1>0, <1>2, <2>1, AppendLineShape
  <2>3. log' \in Seq(Line) /\ Grown /\ Len(log') = n + 1
    BY <1>0, <2>2, LineGrows
  <2>4. HasLast' /\ RelayChainLinked'
    BY <1>0, <2>2, <2>3, LinkedStays DEF IInv
  <2>5. Answers'
    BY <1>0, <2>2, OthersAnswered DEF IInv, Answers
  <2>6. Sealed'
    BY <1>0, <2>3, SealedStays DEF IInv
  <2>7. /\ \A t : Predecessor(n, t)' => Predecessor(n + 1, t)'
        /\ \A c : Counted(n, c)' => Counted(n + 1, c)'
    BY <1>0, <2>2, BeatKeeps
  <2> QED BY <2>3, <2>4, <2>5, <2>6, <2>7
<1> QED BY <1>1, <1>2 DEF Beat

\* What init recovers are the tip and the count.
LEMMA RecoveredIsKnown ==
  ASSUME TypeOK, HasLast
  PROVE  /\ RecoveredTip \in Tips /\ RecoveredCount \in Nat
         /\ Predecessor(Len(log), RecoveredTip) /\ Counted(Len(log), RecoveredCount)
<1>0. /\ log \in Seq(Line) /\ Len(log) \in Nat /\ EventAt \subseteq 1..Len(log)
      /\ WrittenAt \subseteq 1..Len(log) /\ EventAt \subseteq WrittenAt
  BY Positions DEF TypeOK
<1>1. RecoveredTip \in Tips /\ Predecessor(Len(log), RecoveredTip)
  <2>1. CASE EventAt = {}
    BY <1>0, <2>1 DEF RecoveredTip, Predecessor, Tips
  <2>2. CASE EventAt # {}
    <3> DEFINE last == CHOOSE i \in EventAt : \A j \in EventAt : j <= i
    <3>1. last \in EventAt /\ \A j \in EventAt : j <= last
      BY <2>2 DEF HasLast
    <3>2. RecoveredTip = log[last].id
      BY <2>2 DEF RecoveredTip
    <3> HIDE DEF last
    <3>3. log[last] \in Line
      BY <1>0, <3>1
    <3> QED BY <1>0, <3>1, <3>2, <3>3 DEF LastOf, Predecessor, Line
  <2> QED BY <2>1, <2>2
<1>2. RecoveredCount \in Nat /\ Counted(Len(log), RecoveredCount)
  <2>1. /\ {i \in EventAt : 0 < i /\ i <= Len(log)} = EventAt
        /\ {i \in WrittenAt : 0 < i /\ i <= Len(log)} = WrittenAt
    <3>1. /\ \A i \in EventAt : 0 < i /\ i <= Len(log)
          /\ \A i \in WrittenAt : 0 < i /\ i <= Len(log)
      BY <1>0
    <3> QED BY <3>1
  <2>2. IsFiniteSet(WrittenAt)
    <3>1. IsFiniteSet(1..Len(log))
      BY <1>0, FS_Interval
    <3> QED BY <1>0, <3>1, FS_Subset
  <2>3. Cardinality(EventAt) \in Nat /\ Cardinality(EventAt) <= Cardinality(WrittenAt)
    BY <1>0, <2>2, FS_Subset, FS_CardinalityType
  <2>4. /\ Between(EventAt, 0, Len(log)) = Cardinality(EventAt)
        /\ Between(WrittenAt, 0, Len(log)) = Cardinality(WrittenAt)
    BY <2>1 DEF Between
  <2> QED BY <1>0, <2>3, <2>4 DEF RecoveredCount, Counted
<1> QED BY <1>1, <1>2

LEMMA StartIInv == ASSUME IInv, Start PROVE IInv'
<1>1. PICK logRead \in BOOLEAN, sealsRead \in BOOLEAN, k \in Nat :
        /\ state' = [chainTip |-> IF logRead THEN RecoveredTip ELSE NoTip,
                     eventCount |-> IF logRead THEN RecoveredCount ELSE 0,
                     lastSealEventCount |-> IF sealsRead THEN readLastSeal.count ELSE 0,
                     totalSeals |-> IF sealsRead THEN Len(seals) ELSE 0,
                     autoSealInProgress |-> FALSE, seal |-> NoSeal]
        /\ freshLog' = freshLog \cup IF logRead THEN {} ELSE {Len(log)}
        /\ freshSeals' = freshSeals \cup IF sealsRead THEN {} ELSE {Len(seals)}
        /\ Beat(k)
  <2>1. \A logRead, sealsRead \in BOOLEAN :
          (IF logRead THEN 0 ELSE 1) + (IF sealsRead THEN 0 ELSE 1) \in Nat
    OBVIOUS
  <2> QED BY <2>1 DEF Start
<1>2. UNCHANGED <<seals, client, inbox>> /\ up' = TRUE
  BY DEF Start
<1>3. PICK n \in Nat : n = Len(log)
  BY DEF IInv, TypeOK
<1>4. /\ freshLog \subseteq freshLog' /\ freshLog' \subseteq Nat
      /\ freshSeals \subseteq freshSeals' /\ freshSeals' \subseteq Nat
      /\ ~logRead => n \in freshLog'
      /\ ~sealsRead => Len(seals) \in freshSeals'
  <2>1. /\ freshLog \subseteq Nat /\ freshSeals \subseteq Nat
        /\ Len(log) \in Nat /\ Len(seals) \in Nat
    BY DEF IInv, TypeOK
  <2>2. /\ freshLog' = IF logRead THEN freshLog ELSE freshLog \cup {n}
        /\ freshSeals' = IF sealsRead THEN freshSeals ELSE freshSeals \cup {Len(seals)}
    BY <1>1, <1>3
  <2> QED BY <2>1, <2>2
<1>5. /\ log' \in Seq(Line) /\ Grown
      /\ HasLast' /\ RelayChainLinked' /\ Answers' /\ Sealed'
      /\ \A t : Predecessor(n, t)' => Predecessor(Len(log), t)'
      /\ \A c : Counted(n, c)' => Counted(Len(log), c)'
  BY <1>1, <1>2, <1>3, <1>4, BeatStays
<1>6. /\ RecoveredTip \in Tips /\ RecoveredCount \in Nat
      /\ Predecessor(n, RecoveredTip) /\ Counted(n, RecoveredCount)
  BY <1>3, RecoveredIsKnown DEF IInv
<1>7. readLastSeal.count \in Nat /\ Len(seals) \in Nat
      /\ (seals # <<>> /\ seals[Len(seals)].kind = "whole" => readLastSeal = seals[Len(seals)].seal)
  <2>1. seals \in Seq(SealLine)
    BY DEF IInv, TypeOK
  <2>2. seals # <<>> => seals[Len(seals)] \in SealLine
    BY <2>1
  <2> QED BY <2>1, <2>2 DEF readLastSeal, NoSeal, SealLine, Seal
<1>8. state' \in State
  <2>1. NoSeal \in Seal /\ NoTip \in Tips
    BY DEF NoSeal, Seal, Tips
  <2> QED BY <1>1, <1>6, <1>7, <2>1 DEF State
<1>9. TypeOK'
  BY <1>2, <1>4, <1>5, <1>8 DEF IInv, TypeOK
<1>10. PICK t, c : t = state'.chainTip /\ c = state'.eventCount
  OBVIOUS
<1>11. Predecessor(n, t)' /\ Counted(n, c)'
  <2>1. CASE logRead
    <3>1. t = RecoveredTip /\ c = RecoveredCount
      BY <1>1, <1>10, <2>1
    <3>2. Predecessor(n, t) /\ Counted(n, c)
      BY <1>6, <3>1
    <3> QED BY <1>3, <1>5, <3>2, GrownKeeps DEF IInv, TypeOK
  <2>2. CASE ~logRead
    <3>1. t = NoTip /\ c = 0 /\ n \in {0} \cup freshLog'
      BY <1>1, <1>4, <1>10, <2>2
    <3>2. EventAt' \subseteq Nat /\ WrittenAt' \subseteq Nat
      BY <1>5, Positions DEF EventAt, WrittenAt
    <3>3. /\ \A i \in EventAt' : ~(n < i /\ i <= n)
          /\ \A i \in WrittenAt' : ~(n < i /\ i <= n)
      BY <3>2
    <3>4. Predecessor(n, t)'
      BY <3>1, <3>3 DEF Predecessor
    <3>5. /\ {i \in EventAt' : n < i /\ i <= n} = {}
          /\ {i \in WrittenAt' : n < i /\ i <= n} = {}
      BY <3>3
    <3>6. Between(EventAt, n, n)' = 0 /\ Between(WrittenAt, n, n)' = 0
      BY <3>5, FS_EmptySet DEF Between
    <3>7. Counted(n, c)'
      BY <3>1, <3>6 DEF Counted
    <3> QED BY <3>4, <3>7
  <2> QED BY <2>1, <2>2
<1>12. Recovered'
  <2>1. Predecessor(Len(log), t)' /\ Counted(Len(log), c)'
    BY <1>5, <1>11
  <2> QED BY <1>10, <2>1 DEF Recovered
<1>13. SealKnown'
  <2>1. ~state'.autoSealInProgress
    BY <1>1
  <2>2. sealsRead => state'.lastSealEventCount = readLastSeal.count
    BY <1>1
  <2>3. /\ seals' # <<>> /\ seals'[Len(seals')].kind = "whole" /\ Len(seals') \notin freshSeals'
        => seals'[Len(seals')].seal.count <= state'.lastSealEventCount
    BY <1>2, <1>4, <1>7, <2>2
  <2> QED BY <2>1, <2>3 DEF SealKnown
<1> QED BY <1>5, <1>9, <1>12, <1>13 DEF IInv

LEMMA StopIInv == ASSUME IInv, Stop \/ WriteHeartbeat PROVE IInv'
<1>1. /\ Beat(0) /\ UNCHANGED <<seals, client, inbox, state, freshLog, freshSeals>>
      /\ up' \in BOOLEAN /\ (up' => up)
  BY DEF Stop, WriteHeartbeat, IInv, TypeOK
<1>2. PICK n \in Nat : n = Len(log)
  BY DEF IInv, TypeOK
<1>3. /\ log' \in Seq(Line) /\ Grown
      /\ HasLast' /\ RelayChainLinked' /\ Answers' /\ Sealed'
      /\ \A t : Predecessor(n, t)' => Predecessor(Len(log), t)'
      /\ \A c : Counted(n, c)' => Counted(Len(log), c)'
  BY <1>1, <1>2, BeatStays DEF IInv, TypeOK
<1>4. TypeOK'
  BY <1>1, <1>3 DEF IInv, TypeOK
<1>5. ASSUME Recovered PROVE Recovered'
  <2>1. PICK t, c : t = state.chainTip /\ c = state.eventCount
    OBVIOUS
  <2>2. Predecessor(n, t) /\ Counted(n, c)
    BY <1>2, <1>5, <2>1 DEF Recovered
  <2>3. Predecessor(n, t)' /\ Counted(n, c)'
    BY <1>2, <1>3, <2>2, GrownKeeps DEF IInv, TypeOK
  <2>4. Predecessor(Len(log), t)' /\ Counted(Len(log), c)'
    BY <1>3, <2>3
  <2>5. t = state'.chainTip /\ c = state'.eventCount
    BY <1>1, <2>1
  <2> QED BY <2>4, <2>5 DEF Recovered
<1>6. SealKnown => SealKnown'
  BY <1>1 DEF SealKnown
<1> QED BY <1>1, <1>3, <1>4, <1>5, <1>6 DEF IInv

-----------------------------------------------------------------------------
\* A step that leaves both logs and the daemon's state alone.
LEMMA QuietStep ==
  ASSUME IInv, UNCHANGED <<log, freshLog, seals, freshSeals, state>>,
         up' \in BOOLEAN, up' => up,
         inbox' \subseteq Events, client' \in [Events -> ClientStates],
         \A e \in Events :
           /\ client'[e] \in {"new", "rejected"} => e \notin inbox'
           /\ client'[e] \in {"new", "rejected"} \/ e \in inbox' =>
                client[e] \in {"new", "rejected"} \/ e \in inbox
           /\ client'[e] \in {"ok", "done"} => client[e] \in {"ok", "done"}
  PROVE  IInv'
<1>1. /\ EventAt' = EventAt /\ WrittenAt' = WrittenAt
      /\ \A e \in Events : At(e)' = At(e) /\ Stored(e)' = Stored(e)
  BY DEF EventAt, WrittenAt, At, Stored
<1>2. TypeOK' /\ HasLast'
  BY <1>1 DEF IInv, TypeOK, HasLast
<1>3. Answers'
  BY <1>1 DEF IInv, Answers
<1>4. /\ \A n, t : Predecessor(n, t)' = Predecessor(n, t)
      /\ \A n, c : Counted(n, c)' = Counted(n, c)
      /\ \A n : Healthy(n)' = Healthy(n)
  BY <1>1 DEF Predecessor, LastOf, Counted, Between, Healthy
<1>5. RelayChainLinked'
  BY <1>1, <1>4 DEF IInv, RelayChainLinked
<1>6. Sealed'
  BY <1>4 DEF IInv, Sealed
<1>7. /\ Recovered => Recovered'
      /\ SealKnown => SealKnown'
  BY <1>4 DEF Recovered, SealKnown
<1> QED BY <1>2, <1>3, <1>5, <1>6, <1>7 DEF IInv

LEMMA ClientIInv ==
  ASSUME IInv, NEW e \in Events,
         Send(e) \/ SendTimeout(e) \/ ReadResponse(e) \/ GiveUp(e) \/ WriteError(e)
  PROVE  IInv'
<1>1. /\ UNCHANGED <<log, freshLog, seals, freshSeals, state>>
      /\ up' \in BOOLEAN /\ (up' => up)
  BY DEF Send, SendTimeout, ReadResponse, GiveUp, WriteError, files, IInv, TypeOK
<1>2. /\ client \in [Events -> ClientStates] /\ inbox \subseteq Events
      /\ \A d \in Events : client[d] \in {"new", "rejected"} => d \notin inbox
  BY DEF IInv, TypeOK, Answers
<1>3. /\ inbox' \subseteq Events /\ client' \in [Events -> ClientStates]
      /\ \A d \in Events :
           /\ client'[d] \in {"new", "rejected"} => d \notin inbox'
           /\ client'[d] \in {"new", "rejected"} \/ d \in inbox' =>
                client[d] \in {"new", "rejected"} \/ d \in inbox
           /\ client'[d] \in {"ok", "done"} => client[d] \in {"ok", "done"}
  <2>1. CASE Send(e) \/ SendTimeout(e)
    BY <1>2, <2>1 DEF Send, SendTimeout, To, ClientStates
  <2>2. CASE ReadResponse(e) \/ GiveUp(e)
    BY <1>2, <2>2 DEF ReadResponse, GiveUp, To, ClientStates
  <2>3. CASE WriteError(e)
    BY <1>2, <2>3 DEF WriteError, Reply, ClientStates
  <2> QED BY <2>1, <2>2, <2>3
<1> QED BY <1>1, <1>3, QuietStep

\* The line of an event that waits, in whole or in part.
LEMMA EventWritten ==
  ASSUME IInv, up, NEW e \in inbox, NEW cut \in BOOLEAN, AppendLine(EventLine(e), cut),
         UNCHANGED <<freshLog, seals, freshSeals>>,
         inbox' \subseteq inbox \ {e}, client' \in [Events -> ClientStates],
         \A d \in Events : client'[d] = client[d] \/ (d = e /\ client'[d] = "ok")
  PROVE  /\ log' \in Seq(Line) /\ HasLast' /\ RelayChainLinked' /\ Answers' /\ Sealed'
         /\ Predecessor(Len(log), e)'
         /\ \A c \in Nat : Counted(Len(log), c) => Counted(Len(log), c + 1)'
<1>1. /\ e \in Events /\ e \in Tips /\ state.chainTip \in Tips /\ log \in Seq(Line)
      /\ TypeOK
  BY DEF IInv, TypeOK, State, Tips
<1>2. PICK n \in Nat : n = Len(log)
  BY <1>1
<1>3. EventLine(e) \in Line
  BY <1>1 DEF EventLine, Line, Forms
<1>4. PICK m \in Line : /\ log' = Append(log, m)
                        /\ m.type = "event" /\ m.id = e /\ m.prev = state.chainTip
                        /\ m.form = "glued" => CutAtEnd
  BY <1>1, <1>3, AppendLineShape DEF EventLine
<1>5. log' \in Seq(Line) /\ Grown /\ Len(log') = n + 1
  <2>1. freshLog \subseteq freshLog' /\ freshLog' \subseteq Nat
    BY <1>1 DEF TypeOK
  <2> QED BY <1>1, <1>2, <1>4, <2>1, LineGrows
<1>6. HasLast' /\ RelayChainLinked'
  <2>1. Predecessor(n, m.prev)
    BY <1>2, <1>4 DEF IInv, Recovered
  <2> QED BY <1>1, <1>2, <1>4, <1>5, <2>1, LinkedStays DEF IInv
<1>7. Sealed'
  BY <1>1, <1>5, SealedStays DEF IInv
<1>8. Stored(e)'
  BY <1>1, <1>4, ItIsStored
<1>9. \A d \in Events : d # e => At(d)' = At(d) /\ (Stored(d) => Stored(d)')
  BY <1>1, <1>4, OthersAnswered
<1>10. Answers'
  <2>1. client[e] \notin {"new", "rejected"}
    BY <1>1 DEF IInv, Answers
  <2> QED BY <1>1, <1>8, <1>9, <2>1 DEF IInv, Answers
<1>11. /\ Predecessor(n + 1, e)'
       /\ \A c \in Nat : Counted(n, c) => Counted(n + 1, c + 1)'
  BY <1>1, <1>2, <1>4, EventAdded DEF TypeOK
<1> QED BY <1>2, <1>5, <1>6, <1>7, <1>10, <1>11

LEMMA ProcessEventIInv == ASSUME IInv, NEW e \in Events, ProcessEvent(e) PROVE IInv'
<1>1. /\ up /\ up' = up /\ e \in inbox /\ inbox' = inbox \ {e}
      /\ UNCHANGED <<freshLog, seals, freshSeals>>
      /\ client' = [client EXCEPT ![e] = IF client[e] = "sent" THEN "ok" ELSE client[e]]
  BY DEF ProcessEvent, Reply
<1>2. PICK cut \in BOOLEAN : AppendLine(EventLine(e), cut)
  BY DEF ProcessEvent
<1>3. /\ client' \in [Events -> ClientStates] /\ inbox' \subseteq Events
      /\ \A d \in Events : client'[d] = client[d] \/ (d = e /\ client'[d] = "ok")
  BY <1>1 DEF IInv, TypeOK, ClientStates
<1>4. /\ log' \in Seq(Line) /\ HasLast' /\ RelayChainLinked' /\ Answers' /\ Sealed'
      /\ Predecessor(Len(log), e)'
      /\ \A c \in Nat : Counted(Len(log), c) => Counted(Len(log), c + 1)'
  BY <1>1, <1>2, <1>3, EventWritten
<1>5. /\ state' \in State /\ state'.chainTip = e /\ state'.eventCount = state.eventCount + 1
      /\ state'.autoSealInProgress = state.autoSealInProgress /\ state'.seal = state.seal
      /\ state'.lastSealEventCount = state.lastSealEventCount
  <2>1. state \in State /\ e \in Tips
    BY DEF IInv, TypeOK, Tips
  <2>2. state' = [[state EXCEPT !.chainTip = e] EXCEPT !.eventCount = state.eventCount + 1]
    BY DEF ProcessEvent
  <2>3. PICK s \in State : s = [state EXCEPT !.chainTip = e]
    BY <2>1 DEF State
  <2>4. /\ s.chainTip = e /\ s.eventCount = state.eventCount /\ s.eventCount \in Nat
        /\ s.autoSealInProgress = state.autoSealInProgress /\ s.seal = state.seal
        /\ s.lastSealEventCount = state.lastSealEventCount
    BY <2>1, <2>3 DEF State
  <2>5. PICK n \in Nat : n = state.eventCount + 1
    BY <2>4
  <2>6. state' = [s EXCEPT !.eventCount = n]
    BY <2>2, <2>3, <2>5
  <2>7. state' \in State
    BY <2>6 DEF State
  <2>8. /\ state'.chainTip = s.chainTip /\ state'.eventCount = n
        /\ state'.autoSealInProgress = s.autoSealInProgress /\ state'.seal = s.seal
        /\ state'.lastSealEventCount = s.lastSealEventCount
    BY <2>6 DEF State
  <2> QED BY <2>4, <2>5, <2>7, <2>8
<1>6. TypeOK'
  BY <1>1, <1>3, <1>4, <1>5 DEF IInv, TypeOK
<1>7. Recovered'
  <2>1. state.eventCount \in Nat /\ Counted(Len(log), state.eventCount)
    BY <1>1 DEF IInv, TypeOK, State, Recovered
  <2>2. PICK c \in Nat : c = state.eventCount
    BY <2>1
  <2>3. Counted(Len(log), c + 1)'
    BY <1>4, <2>1, <2>2
  <2>4. state'.chainTip = e /\ state'.eventCount = c + 1
    BY <1>5, <2>2
  <2> QED BY <1>4, <2>3, <2>4 DEF Recovered
<1>8. SealKnown => SealKnown'
  BY <1>1, <1>5 DEF SealKnown
<1> QED BY <1>1, <1>4, <1>6, <1>7, <1>8 DEF IInv

LEMMA CrashInProcessEventIInv ==
  ASSUME IInv, NEW e \in Events, CrashInProcessEvent(e) PROVE IInv'
<1>1. /\ up /\ up' = FALSE /\ e \in inbox /\ inbox' = {}
      /\ UNCHANGED <<freshLog, seals, freshSeals, state, client>>
  BY DEF CrashInProcessEvent
<1>2. PICK cut \in BOOLEAN : AppendLine(EventLine(e), cut)
  BY DEF CrashInProcessEvent
<1>3. client' \in [Events -> ClientStates]
  BY <1>1 DEF IInv, TypeOK
<1>4. log' \in Seq(Line) /\ HasLast' /\ RelayChainLinked' /\ Answers' /\ Sealed'
  BY <1>1, <1>2, <1>3, EventWritten
<1>5. TypeOK'
  BY <1>1, <1>4 DEF IInv, TypeOK
<1> QED BY <1>1, <1>4, <1>5 DEF IInv

-----------------------------------------------------------------------------
\* A seal line replaces one that was cut short, or comes after all the others.
LEMMA SealLinesShape ==
  ASSUME TypeOK, NEW kind \in {"whole", "torn", "glued"}, NEW seal \in Seal
  PROVE  \E m \in Nat \ {0} :
           /\ SealLines(kind, seal) \in Seq(SealLine) /\ Len(SealLines(kind, seal)) = m
           /\ SealLines(kind, seal)[m] = [kind |-> kind, seal |-> seal, at |-> Len(log)]
           /\ \A i \in 1..m : i < m => i \in DOMAIN seals /\ SealLines(kind, seal)[i] = seals[i]
           /\ m = IF SealsTorn THEN Len(seals) ELSE Len(seals) + 1
<1> DEFINE line == [kind |-> kind, seal |-> seal, at |-> Len(log)]
<1>1. line \in SealLine /\ seals \in Seq(SealLine)
  BY DEF SealLine, TypeOK
<1>2. CASE SealsTorn
  <2>1. SealLines(kind, seal) = [seals EXCEPT ![Len(seals)] = line] /\ seals # <<>>
    BY <1>2 DEF SealLines, SealsTorn
  <2> HIDE DEF line
  <2> QED BY <1>1, <1>2, <2>1 DEF line
<1>3. CASE ~SealsTorn
  <2>1. SealLines(kind, seal) = Append(seals, line)
    BY <1>3 DEF SealLines
  <2> HIDE DEF line
  <2> QED BY <1>1, <1>3, <2>1 DEF line
<1> QED BY <1>2, <1>3

\* What is said of the log when it does not change.
LEMMA LogSays ==
  ASSUME IInv, UNCHANGED <<log, freshLog>>
  PROVE  /\ EventAt' = EventAt /\ WrittenAt' = WrittenAt /\ HasLast' /\ RelayChainLinked'
         /\ \A n, t : Predecessor(n, t)' = Predecessor(n, t)
         /\ \A n, c : Counted(n, c)' = Counted(n, c)
         /\ \A n : Healthy(n)' = Healthy(n)
         /\ inbox' \subseteq inbox /\ UNCHANGED client => Answers'
         /\ UNCHANGED <<seals, freshSeals>> => Sealed'
         /\ Recovered /\ state'.chainTip = state.chainTip /\ state'.eventCount = state.eventCount
            => Recovered'
<1>1. /\ EventAt' = EventAt /\ WrittenAt' = WrittenAt
      /\ \A e \in Events : At(e)' = At(e) /\ Stored(e)' = Stored(e)
  BY DEF EventAt, WrittenAt, At, Stored
<1>2. /\ \A n, t : Predecessor(n, t)' = Predecessor(n, t)
      /\ \A n, c : Counted(n, c)' = Counted(n, c)
      /\ \A n : Healthy(n)' = Healthy(n)
  BY <1>1 DEF Predecessor, LastOf, Counted, Between, Healthy
<1>3. HasLast' /\ RelayChainLinked'
  BY <1>1, <1>2 DEF IInv, HasLast, RelayChainLinked
<1>4. inbox' \subseteq inbox /\ UNCHANGED client => Answers'
  BY <1>1 DEF IInv, Answers
<1>5. UNCHANGED <<seals, freshSeals>> => Sealed'
  BY <1>2 DEF IInv, Sealed
<1>6. Recovered /\ state'.chainTip = state.chainTip /\ state'.eventCount = state.eventCount
      => Recovered'
  BY <1>2 DEF Recovered
<1> QED BY <1>1, <1>2, <1>3, <1>4, <1>5, <1>6

\* In a healthy log what a running daemon counts is more than what is sealed.
LEMMA SealCoversMore ==
  ASSUME IInv, up, ~state.autoSealInProgress, shouldAutoSeal, MinEvents > 0,
         Healthy(Len(log)), NEW i \in DOMAIN seals, seals[i].kind = "whole",
         NEW m \in Nat, i < m, m = IF SealsTorn THEN Len(seals) ELSE Len(seals) + 1,
         \A f \in freshSeals : ~(i <= f /\ f < m)
  PROVE  seals[i].seal.count < state.eventCount
<1> DEFINE l == Len(seals)
<1>1. /\ l \in Nat /\ l \in DOMAIN seals /\ i \in Nat /\ i <= l /\ seals # <<>>
      /\ freshSeals \subseteq Nat /\ l <= m
  BY DEF IInv, TypeOK
<1>2. /\ log \in Seq(Line) /\ Len(log) \in Nat /\ freshLog \subseteq Nat
      /\ state.eventCount \in Nat /\ state.lastSealEventCount \in Nat
  BY DEF IInv, TypeOK, State
<1>3. \A j \in DOMAIN seals : /\ seals[j] \in SealLine /\ seals[j].seal.count \in Nat
                              /\ seals[j].at \in Nat
  <2> TAKE j \in DOMAIN seals
  <2>1. seals[j] \in SealLine
    BY DEF IInv, TypeOK
  <2> QED BY <2>1 DEF SealLine, Seal
<1> HIDE DEF l
<1>4. CASE i = l
  <2>1. m = l + 1 /\ ~SealsTorn
    BY <1>1, <1>4 DEF l
  <2>2. l \notin freshSeals
    BY <1>1, <1>4, <2>1
  <2>3. seals[l].seal.count <= state.lastSealEventCount
    BY <1>1, <1>4, <2>2 DEF IInv, SealKnown, l
  <2>4. state.lastSealEventCount < state.eventCount
    BY <1>2 DEF shouldAutoSeal
  <2> QED BY <1>2, <1>3, <1>4, <2>3, <2>4
<1>5. CASE i < l
  <2>1. /\ seals[l].at <= Len(log) /\ Counted(seals[l].at, seals[l].seal.count)
    BY <1>1 DEF IInv, Sealed
  <2>2. PICK n \in Nat, c \in Nat : n = seals[l].at /\ c = seals[l].seal.count
    BY <1>1, <1>3
  <2>3. Healthy(n) /\ Between(EventAt, 0, n) <= Between(EventAt, 0, Len(log))
    BY <1>2, <2>1, <2>2, HealthyPrefix
  <2>4. c = Between(EventAt, 0, n)
    BY <1>2, <2>1, <2>2, <2>3, HealthyCount
  <2>5. state.eventCount = Between(EventAt, 0, Len(log))
    BY <1>2, HealthyCount DEF IInv, Recovered
  <2>6. \A f \in freshSeals : ~(i <= f /\ f < l)
    BY <1>1
  <2>7. seals[i].seal.count < seals[l].seal.count
    BY <1>1, <1>5, <2>2, <2>3, <2>6 DEF IInv, Sealed
  <2> QED BY <1>2, <1>3, <2>2, <2>3, <2>4, <2>5, <2>7
<1> QED BY <1>1, <1>4, <1>5

LEMMA SealWritten ==
  ASSUME IInv, up, ~state.autoSealInProgress, shouldAutoSeal,
         UNCHANGED <<log, freshLog, freshSeals>>,
         NEW kind \in {"whole", "torn", "glued"}, seals' = SealLines(kind, SealNow)
  PROVE  /\ seals' \in Seq(SealLine) /\ seals' # <<>>
         /\ seals'[Len(seals')] = [kind |-> kind, seal |-> SealNow, at |-> Len(log)]
         /\ Sealed'
<1>1. /\ TypeOK /\ state \in State /\ SealNow \in Seal
      /\ SealNow.count = state.eventCount /\ SealNow.tip = state.chainTip
      /\ state.eventCount \in Nat
  BY DEF IInv, TypeOK, State, SealNow, Seal
<1>2. PICK m \in Nat \ {0} :
        /\ seals' \in Seq(SealLine) /\ Len(seals') = m
        /\ seals'[m] = [kind |-> kind, seal |-> SealNow, at |-> Len(log)]
        /\ \A i \in 1..m : i < m => i \in DOMAIN seals /\ seals'[i] = seals[i]
        /\ m = IF SealsTorn THEN Len(seals) ELSE Len(seals) + 1
  BY <1>1, SealLinesShape
<1>3. seals' # <<>> /\ DOMAIN seals' = 1..m
  BY <1>2
<1>4. /\ \A n, t : Predecessor(n, t)' = Predecessor(n, t)
      /\ \A n, c : Counted(n, c)' = Counted(n, c)
      /\ \A n : Healthy(n)' = Healthy(n)
  BY LogSays
<1>5. /\ seals'[m].at = Len(log) /\ seals'[m].seal.tip = state.chainTip
      /\ seals'[m].seal.count = state.eventCount /\ Len(log) \in Nat
  BY <1>1, <1>2 DEF TypeOK
<1>6. \A i \in DOMAIN seals :
        /\ seals[i].at <= Len(log)
        /\ Predecessor(seals[i].at, seals[i].seal.tip)
        /\ Counted(seals[i].at, seals[i].seal.count)
  BY DEF IInv, Sealed
<1>7. ASSUME NEW i \in DOMAIN seals'
      PROVE  /\ seals'[i].at <= Len(log)
             /\ Predecessor(seals'[i].at, seals'[i].seal.tip)
             /\ Counted(seals'[i].at, seals'[i].seal.count)
  <2>1. CASE i = m
    BY <1>5, <2>1 DEF IInv, Recovered
  <2>2. CASE i # m
    <3>1. i \in DOMAIN seals /\ seals'[i] = seals[i]
      BY <1>2, <1>3, <2>2
    <3> QED BY <1>6, <3>1
  <2> QED BY <2>1, <2>2
<1>8. ASSUME NEW i \in DOMAIN seals', NEW j \in DOMAIN seals', i < j
      PROVE  seals'[i].at <= seals'[j].at
  <2>1. i \in DOMAIN seals /\ seals'[i] = seals[i]
    BY <1>2, <1>3, <1>8
  <2>2. CASE j = m
    BY <1>5, <1>6, <2>1, <2>2
  <2>3. CASE j # m
    <3>1. j \in DOMAIN seals /\ seals'[j] = seals[j]
      BY <1>2, <1>3, <2>3
    <3> QED BY <1>8, <2>1, <3>1 DEF IInv, Sealed
  <2> QED BY <2>2, <2>3
<1>9. ASSUME MinEvents > 0, NEW i \in DOMAIN seals', NEW j \in DOMAIN seals', i < j,
             seals'[i].kind = "whole", Healthy(seals'[j].at),
             \A f \in freshSeals : ~(i <= f /\ f < j)
      PROVE  seals'[i].seal.count < seals'[j].seal.count
  <2>1. i \in DOMAIN seals /\ seals'[i] = seals[i]
    BY <1>2, <1>3, <1>9
  <2>2. CASE j = m
    BY <1>2, <1>5, <1>9, <2>1, <2>2, SealCoversMore
  <2>3. CASE j # m
    <3>1. j \in DOMAIN seals /\ seals'[j] = seals[j]
      BY <1>2, <1>3, <2>3
    <3> QED BY <1>9, <2>1, <3>1 DEF IInv, Sealed
  <2> QED BY <2>2, <2>3
<1>10. Sealed'
  BY <1>4, <1>7, <1>8, <1>9 DEF Sealed
<1> QED BY <1>2, <1>3, <1>10

LEMMA SealIInv == ASSUME IInv, AutoSeal \/ SealCutShort PROVE IInv'
<1>1. /\ up /\ ~state.autoSealInProgress /\ shouldAutoSeal
      /\ UNCHANGED <<log, freshLog, freshSeals, client>>
      /\ up' \in BOOLEAN /\ inbox' \subseteq inbox /\ inbox \subseteq Events
  BY DEF AutoSeal, SealCutShort, IInv, TypeOK
<1>2. PICK kind \in {"whole", "torn", "glued"} :
        /\ seals' = SealLines(kind, SealNow)
        /\ \/ kind = "torn" /\ state' = state
           \/ /\ kind # "torn"
              /\ state' = [state EXCEPT !.autoSealInProgress = TRUE, !.seal = SealNow]
  BY DEF AutoSeal, performSeal, SealCutShort
<1>3. /\ seals' \in Seq(SealLine) /\ seals' # <<>>
      /\ seals'[Len(seals')] = [kind |-> kind, seal |-> SealNow, at |-> Len(log)]
      /\ Sealed'
  BY <1>1, <1>2, SealWritten
<1>4. /\ state' \in State /\ state'.chainTip = state.chainTip
      /\ state'.eventCount = state.eventCount
      /\ IF kind = "torn" THEN ~state'.autoSealInProgress
         ELSE state'.autoSealInProgress /\ state'.seal = SealNow
  <2>1. state \in State /\ SealNow \in Seal
    BY DEF IInv, TypeOK, State, SealNow, Seal
  <2> QED BY <1>1, <1>2, <2>1 DEF State
<1>5. TypeOK'
  BY <1>1, <1>3, <1>4 DEF IInv, TypeOK
<1>6. /\ HasLast' /\ RelayChainLinked' /\ Answers'
      /\ Recovered => Recovered'
  BY <1>1, <1>4, LogSays
<1>7. SealKnown'
  BY <1>3, <1>4 DEF SealKnown
<1> QED BY <1>1, <1>3, <1>5, <1>6, <1>7 DEF IInv

LEMMA AutoSealDoneIInv ==
  ASSUME IInv, NEW answered \in SUBSET Endpoints, AutoSealDone(answered) PROVE IInv'
<1>1. UNCHANGED <<log, freshLog, seals, freshSeals, up, inbox, client>> /\ state.autoSealInProgress
  BY DEF AutoSealDone
<1>2. /\ state' \in State /\ state'.chainTip = state.chainTip
      /\ state'.eventCount = state.eventCount /\ ~state'.autoSealInProgress
      /\ state'.lastSealEventCount = state.seal.count /\ state.seal.count \in Nat
  <2>1. state \in State /\ NoSeal \in Seal
    BY DEF IInv, TypeOK, NoSeal, Seal, Tips
  <2>2. state' = [state EXCEPT !.lastSealEventCount = state.seal.count,
                               !.totalSeals = state.totalSeals + 1,
                               !.autoSealInProgress = FALSE, !.seal = NoSeal]
    BY DEF AutoSealDone
  <2>3. PICK c \in Nat : c = state.seal.count
    BY <2>1 DEF State, Seal
  <2>4. PICK n \in Nat : n = state.totalSeals + 1
    BY <2>1 DEF State
  <2>5. PICK s \in State : s = [state EXCEPT !.lastSealEventCount = c]
    BY <2>1 DEF State
  <2>6. PICK t \in State : t = [s EXCEPT !.totalSeals = n]
    BY DEF State
  <2>7. PICK u \in State : u = [t EXCEPT !.autoSealInProgress = FALSE]
    BY DEF State
  <2>8. PICK v \in State : v = [u EXCEPT !.seal = NoSeal]
    BY <2>1 DEF State
  <2>9. state' = v
    BY <2>2, <2>3, <2>4, <2>5, <2>6, <2>7, <2>8 DEF State
  <2>10. s.chainTip = state.chainTip /\ s.eventCount = state.eventCount /\ s.lastSealEventCount = c
    BY <2>1, <2>5 DEF State
  <2>11. t.chainTip = s.chainTip /\ t.eventCount = s.eventCount /\ t.lastSealEventCount = s.lastSealEventCount
    BY <2>6 DEF State
  <2>12. /\ u.chainTip = t.chainTip /\ u.eventCount = t.eventCount
         /\ u.lastSealEventCount = t.lastSealEventCount /\ ~u.autoSealInProgress
    BY <2>7 DEF State
  <2>13. /\ v.chainTip = u.chainTip /\ v.eventCount = u.eventCount
         /\ v.lastSealEventCount = u.lastSealEventCount
         /\ v.autoSealInProgress = u.autoSealInProgress
    BY <2>8 DEF State
  <2> QED BY <2>3, <2>9, <2>10, <2>11, <2>12, <2>13
<1>3. TypeOK'
  BY <1>1, <1>2 DEF IInv, TypeOK
<1>4. /\ HasLast' /\ RelayChainLinked' /\ Answers' /\ Sealed'
      /\ Recovered => Recovered'
  BY <1>1, <1>2, LogSays
<1>5. SealKnown => SealKnown'
  BY <1>1, <1>2 DEF SealKnown
<1> QED BY <1>1, <1>3, <1>4, <1>5 DEF IInv

-----------------------------------------------------------------------------
LEMMA NextIInv == ASSUME IInv, [Next]_vars PROVE IInv'
<1>1. CASE Start
  BY <1>1, StartIInv
<1>2. CASE Stop \/ WriteHeartbeat
  BY <1>2, StopIInv
<1>3. CASE \E e \in Events : Send(e) \/ SendTimeout(e) \/ ReadResponse(e) \/ GiveUp(e)
  BY <1>3, ClientIInv
<1>4. CASE \E e \in Events : ProcessEvent(e) \/ WriteError(e) \/ CrashInProcessEvent(e)
  BY <1>4, ProcessEventIInv, ClientIInv, CrashInProcessEventIInv
<1>5. CASE AutoSeal \/ SealCutShort
  BY <1>5, SealIInv
<1>6. CASE \E answered \in SUBSET Endpoints : AutoSealDone(answered)
  BY <1>6, AutoSealDoneIInv
<1>7. CASE Crash \/ UNCHANGED vars
  <2>1. /\ UNCHANGED <<log, freshLog, seals, freshSeals, state, client>>
        /\ up' \in BOOLEAN /\ (up' => up) /\ inbox' \subseteq inbox /\ inbox \subseteq Events
        /\ client \in [Events -> ClientStates]
    <3>1. TypeOK
      BY DEF IInv
    <3>2. CASE Crash
      BY <3>1, <3>2 DEF Crash, files, TypeOK
    <3>3. CASE UNCHANGED vars
      BY <3>1, <3>3 DEF vars, files, TypeOK
    <3> QED BY <1>7, <3>2, <3>3
  <2>2. \A e \in Events : client[e] \in {"new", "rejected"} => e \notin inbox
    BY DEF IInv, Answers
  <2> QED BY <2>1, <2>2, QuietStep
<1> QED BY <1>1, <1>2, <1>3, <1>4, <1>5, <1>6, <1>7 DEF Next

\* The invariant holds in every reachable state.
THEOREM Invariance == Spec => []IInv
<1>1. IInv /\ [Next]_vars => IInv'
  BY NextIInv
<1> QED BY <1>1, InitIInv, PTL DEF Spec

\* The daemon's log, seals and state are well formed.
THEOREM TypeCorrect == Spec => []TypeOK
<1>1. IInv => TypeOK
  BY DEF IInv
<1> QED BY <1>1, Invariance, PTL

\* Over all restarts, crashes, failed reads and failed or short writes, each
\* event line names the one before it as RelayChainLinked says (processEvent,
\* init).
THEOREM OneChain == Spec => []RelayChainLinked
<1>1. IInv => RelayChainLinked
  BY DEF IInv
<1> QED BY <1>1, Invariance, PTL

\* A rejected event is not in the log, and an acknowledged one is in it unless a
\* write was cut short (processEvent).
THEOREM AnswersAreTrue == Spec => []AnswerIsTrue
<1>1. IInv => AnswerIsTrue
  BY DEF IInv, Answers, At, Stored, AnswerIsTrue
<1> QED BY <1>1, Invariance, PTL

\* A readable seal names the tip and the count of the log at its time, and in a
\* healthy log it covers more than the readable seals before it (performSeal,
\* runAutoSealCycle, readLastSeal, init).
THEOREM SealsAreTrue == Spec => []SealsMatchLog
<1>1. ASSUME IInv PROVE SealsMatchLog
  BY <1>1 DEF IInv, Sealed, SealsMatchLog
<1> QED BY <1>1, Invariance, PTL
=============================================================================
