--------------------------- MODULE TeamSyncProofs ---------------------------
(***************************************************************************)
(* Proof that the team server misses nothing before the agent's cursor,    *)
(* for every number of cycles, lines and failures and every batch limit.   *)
(***************************************************************************)
EXTENDS TeamSync, Integers, FiniteSetTheorems, WellFoundedInduction, TLAPS

(***************************************************************************)
(* Least and greatest elements.                                            *)
(***************************************************************************)
\* The natural numbers are well-founded.
LEMMA LeastElement ==
  ASSUME NEW T \in SUBSET Nat, T # {}
  PROVE  \E x \in T : \A y \in T : x <= y
<1> DEFINE R == {ss \in Nat \X Nat : ss[1] < ss[2]}
<1>1. IsWellFoundedOn(R, Nat)
  BY NatLessThanWellFounded DEF OpToRel
<1> HIDE DEF R
<1>2. \E x \in T : \A y \in T : ~(<<y, x>> \in R)
  BY <1>1, WFMin
<1>3. ASSUME NEW x \in T, NEW y \in T, ~(<<y, x>> \in R) PROVE x <= y
  BY <1>3 DEF R
<1> QED BY <1>2, <1>3

\* A bounded set of natural numbers has a greatest element, which Max chooses.
LEMMA GreatestElement ==
  ASSUME NEW n \in Nat, NEW T \in SUBSET (0..n), T # {}
  PROVE  Max(T) \in T /\ \A y \in T : Max(T) >= y
<1> DEFINE D == {n - y : y \in T}
<1>1. D \in SUBSET Nat /\ D # {}
  <2>1. ASSUME NEW y \in T PROVE n - y \in Nat
    <3>1. y \in Nat /\ y <= n
      OBVIOUS
    <3> QED BY <3>1
  <2> QED BY <2>1
<1>2. PICK d \in D : \A e \in D : d <= e
  BY <1>1, LeastElement
<1>3. PICK x \in T : d = n - x
  OBVIOUS
<1>4. \A y \in T : x >= y
  <2> TAKE y \in T
  <2>1. n - x <= n - y
    BY <1>2, <1>3
  <2> QED BY <2>1
<1>5. \E y \in T : \A z \in T : y >= z
  BY <1>4
<1> HIDE DEF D
<1> QED BY <1>5 DEF Max

\* What Max makes of the seals after the last one that was synced.
LEMMA MaxOfInterval ==
  ASSUME NEW a \in Nat, NEW b \in Nat, a + 1 <= b
  PROVE  Max((a + 1)..b) = b
<1> DEFINE I == (a + 1)..b
<1>1. I \in SUBSET (0..b) /\ b \in I
  OBVIOUS
<1>2. Max(I) \in I /\ Max(I) >= b
  BY <1>1, GreatestElement
<1> QED BY <1>2

-----------------------------------------------------------------------------
(***************************************************************************)
(* readNewEvents.                                                          *)
(***************************************************************************)
First(W, k) == {i \in W : Cardinality({j \in W : j <= i}) <= k}

\* The first k members of a set of lines: with every member also the smaller
\* ones, some if there are k of them, and the whole set otherwise.
LEMMA FirstMembers ==
  ASSUME NEW n \in Nat, NEW W \in SUBSET (0..n), NEW k \in Nat \ {0}
  PROVE  /\ \A i \in First(W, k) : \A j \in W : j <= i => j \in First(W, k)
         /\ Cardinality(First(W, k)) = k => First(W, k) # {}
         /\ Cardinality(First(W, k)) # k => First(W, k) = W
<1> DEFINE UpTo(i) == {j \in W : j <= i}
           T == {i \in W : Cardinality(UpTo(i)) <= k}
<1>1. IsFiniteSet(W) /\ W \subseteq Nat
  <2>1. IsFiniteSet(0..n) /\ W \subseteq 0..n
    BY FS_Interval
  <2>2. W \subseteq Nat
    OBVIOUS
  <2>3. IsFiniteSet(W)
    BY <2>1, FS_Subset, Zenon
  <2> QED BY <2>2, <2>3
<1>2. \A i : UpTo(i) \subseteq W
  OBVIOUS
<1>3. \A i \in W : \A j \in W : j <= i => UpTo(j) \subseteq UpTo(i)
  <2> SUFFICES ASSUME NEW i \in W, NEW j \in W, j <= i, NEW l \in W, l <= j PROVE l <= i
    OBVIOUS
  <2> QED BY <1>1
<1>4. \A i \in W : i \in UpTo(i)
  BY <1>1
<1>5. \A i, j \in W : j \in UpTo(i) <=> j <= i
  OBVIOUS
<1>6. T \subseteq W /\ \A i \in W : i \in T <=> Cardinality(UpTo(i)) <= k
  OBVIOUS
<1> HIDE DEF UpTo, T
<1>7. \A i : IsFiniteSet(UpTo(i)) /\ Cardinality(UpTo(i)) \in Nat
  <2> TAKE i
  <2>1. UpTo(i) \subseteq W
    BY <1>2
  <2>2. IsFiniteSet(UpTo(i))
    BY <1>1, <2>1, FS_Subset
  <2> QED BY <2>2, FS_CardinalityType
<1>8. IsFiniteSet(T) /\ Cardinality(T) \in Nat
  BY <1>1, <1>6, FS_Subset, FS_CardinalityType
<1>9. ASSUME NEW i \in T, NEW j \in W, j <= i PROVE j \in T
  <2>1. Cardinality(UpTo(j)) <= Cardinality(UpTo(i))
    BY <1>3, <1>6, <1>7, <1>9, FS_Subset
  <2> QED BY <1>6, <1>7, <2>1
<1>10. T = {} => Cardinality(T) = 0
  BY FS_EmptySet
<1>11. ASSUME Cardinality(T) # k PROVE T = W
  <2> SUFFICES ASSUME W \ T # {} PROVE FALSE
    BY <1>6
  <2>1. PICK m \in W \ T : \A i \in W \ T : m <= i
    <3>1. W \ T \in SUBSET Nat
      BY <1>1
    <3> QED BY <3>1, LeastElement
  <2>2. UpTo(m) = T \cup {m}
    <3>1. ASSUME NEW i \in UpTo(m) PROVE i \in T \cup {m}
      <4>1. i \in W /\ i <= m /\ i \in Nat /\ m \in Nat
        BY <1>1, <1>2, <1>5, <2>1, <3>1
      <4>2. i \notin T => m <= i
        BY <2>1, <4>1
      <4> QED BY <4>1, <4>2
    <3>2. ASSUME NEW i \in T PROVE i \in UpTo(m)
      BY <1>1, <1>5, <1>6, <1>9, <2>1
    <3>3. m \in UpTo(m)
      BY <1>4, <2>1
    <3> QED BY <3>1, <3>2, <3>3
  <2>3. Cardinality(UpTo(m)) = Cardinality(T) + 1
    BY <1>8, <2>1, <2>2, FS_AddElement
  <2>4. Cardinality(T) > k
    BY <1>6, <1>7, <1>8, <1>11, <2>1, <2>3
  <2>5. T # {}
    BY <1>10, <2>4
  <2>6. Max(T) \in T /\ \A i \in T : Max(T) >= i
    <3>1. T \in SUBSET (0..n)
      BY <1>6
    <3> QED BY <2>5, <3>1, GreatestElement
  <2>7. UpTo(Max(T)) = T
    <3>1. ASSUME NEW i \in UpTo(Max(T)) PROVE i \in T
      BY <1>2, <1>5, <1>6, <1>9, <2>6
    <3>2. ASSUME NEW i \in T PROVE i \in UpTo(Max(T))
      BY <1>1, <1>5, <1>6, <2>6
    <3> QED BY <3>1, <3>2
  <2>8. Cardinality(UpTo(Max(T))) <= k
    BY <1>6, <2>6
  <2> QED BY <1>8, <2>4, <2>7, <2>8
<1>12. Cardinality(T) = k => T # {}
  BY <1>10
<1>13. First(W, k) = T
  BY DEF First, T, UpTo
<1> QED BY <1>9, <1>11, <1>12, <1>13

\* The batch has every event between the offset and its end, and it does not
\* end behind the log: when the batch stops at MAX_BATCH_EVENTS the offset stops
\* at its last event, and otherwise the batch is the whole window.  Nor does it
\* end before the offset.
LEMMA ReadMissesNothing ==
  ASSUME relayLength \in Nat, relayEvents \subseteq 1..relayLength,
         NEW offset \in Nat
  PROVE  LET read == readNewEvents(offset) IN
         /\ read.end \in Nat /\ read.end <= relayLength
         /\ read.events \subseteq relayEvents
         /\ \A i \in relayEvents : offset < i /\ i <= read.end => i \in read.events
         /\ offset <= relayLength => offset <= read.end
<1> DEFINE last == MinOf(relayLength, offset + MAX_BATCH_LINES)
           W == {i \in relayEvents : offset < i /\ i <= last}
           T == First(W, MAX_BATCH_EVENTS)
           end == IF Cardinality(T) = MAX_BATCH_EVENTS THEN Max(T) ELSE last
<1>1. MAX_BATCH_EVENTS \in Nat \ {0} /\ last \in Nat /\ last <= relayLength
  BY SyncAssumption DEF MinOf
<1>2. W \in SUBSET (0..relayLength) /\ W \subseteq relayEvents
  <2>1. ASSUME NEW i \in relayEvents PROVE i \in 0..relayLength
    OBVIOUS
  <2> QED BY <2>1
<1>3. \A i \in relayEvents : i \in W <=> offset < i /\ i <= last
  OBVIOUS
<1>4. readNewEvents(offset) = [events |-> T, end |-> end]
  BY DEF readNewEvents, First
<1>5. T \subseteq W
  BY DEF First
<1>l. offset <= relayLength => offset <= last
  BY SyncAssumption DEF MinOf
<1>w. \A i \in W : offset < i
  OBVIOUS
<1> HIDE DEF last, W
<1>6. /\ \A i \in T : \A j \in W : j <= i => j \in T
      /\ Cardinality(T) = MAX_BATCH_EVENTS => T # {}
      /\ Cardinality(T) # MAX_BATCH_EVENTS => T = W
  <2>1. relayLength \in Nat
    OBVIOUS
  <2> QED BY <1>1, <1>2, <2>1, FirstMembers
<1> HIDE DEF T
<1>7. T # {} => Max(T) \in T /\ \A i \in T : Max(T) >= i
  <2>1. T \in SUBSET (0..relayLength)
    BY <1>2, <1>5
  <2> QED BY <2>1, GreatestElement
<1>8. \A i \in W : i \in Nat /\ i <= last
  BY <1>2, <1>3
<1>9. end \in Nat /\ end <= last
  BY <1>1, <1>5, <1>6, <1>7, <1>8
<1>10. ASSUME NEW i \in relayEvents, offset < i, i <= end PROVE i \in T
  <2>1. i \in W
    <3>1. i \in Nat
      BY <1>10
    <3> QED BY <1>1, <1>3, <1>9, <1>10, <3>1
  <2> QED BY <1>6, <1>7, <1>10, <2>1
<1>11. offset <= relayLength => offset <= end
  <2>1. CASE Cardinality(T) = MAX_BATCH_EVENTS
    <3>1. Max(T) \in W /\ Max(T) \in Nat
      BY <1>5, <1>6, <1>7, <1>8, <2>1
    <3> QED BY <1>w, <2>1, <3>1
  <2>2. CASE Cardinality(T) # MAX_BATCH_EVENTS
    BY <1>l, <2>2
  <2> QED BY <2>1, <2>2
<1> HIDE DEF end
<1> QED BY <1>1, <1>2, <1>4, <1>5, <1>9, <1>10, <1>11
-----------------------------------------------------------------------------
(***************************************************************************)
(* The inductive invariant.                                                *)
(***************************************************************************)
\* The variables have their types: cursor, batches and the server's rows stay
\* within the relay log.
TypeOK ==
  /\ relayLength \in Nat /\ relayEvents \subseteq 1..relayLength /\ relaySeals \in Nat
  /\ cycle \in [Cycles -> [pushing : BOOLEAN,
                           from : [offset : Nat, seal : Nat, failing : BOOLEAN],
                           batch : [events : SUBSET Nat, seals : SUBSET Nat, end : Nat]]]
  /\ cursor \in [offset : Nat, seal : Nat, failing : BOOLEAN]
  /\ requests \subseteq [cycle : Cycles \cup {NoCycle},
                         batch : [events : SUBSET Nat, seals : SUBSET Nat, end : Nat]]
  /\ responses \in [Cycles -> {"none", "ok", "rejected"}]
  /\ {"events", "seals"} \subseteq DOMAIN server

\* The server has what is before the cursor c.
Synced(c) ==
  /\ c.offset <= relayLength /\ c.seal <= relaySeals
  /\ \A i \in relayEvents : i <= c.offset => i \in server.events
  /\ \A s \in 1..c.seal : s \in server.seals

\* A batch that was read at the cursor c skips nothing.
Continues(b, c) ==
  /\ b.end <= relayLength
  /\ \A i \in relayEvents : c.offset < i /\ i <= b.end => i \in b.events
  /\ \E n \in Nat : n <= relaySeals /\ b.seals = (c.seal + 1)..n

\* A cycle that pushes began at a synced cursor with a batch that continues it,
\* and if its response says so, the server has the batch.
CycleInv ==
  \A c \in Cycles :
    /\ cycle[c].pushing =>
         Synced(cycle[c].from) /\ Continues(cycle[c].batch, cycle[c].from)
    /\ responses[c] # "none" =>
         cycle[c].pushing /\ \A r \in requests : r.cycle # c
    /\ responses[c] = "ok" =>
         /\ cycle[c].batch.events \subseteq server.events
         /\ cycle[c].batch.seals \subseteq server.seals

\* A request that a cycle waits for carries the batch of that cycle.
RequestInv ==
  \A r \in requests : r.cycle # NoCycle =>
    cycle[r.cycle].pushing /\ r.batch = cycle[r.cycle].batch

SyncInv == TypeOK /\ Synced(cursor) /\ CycleInv /\ RequestInv

LEMMA SyncInvInit == SyncInit => SyncInv
<1> SUFFICES ASSUME SyncInit PROVE SyncInv
  OBVIOUS
<1>1. TypeOK
  BY DEF SyncInit, TypeOK, DEFAULT_SYNC_CURSOR, Idle, NoBatch
<1>2. Synced(cursor)
  BY DEF SyncInit, Synced, DEFAULT_SYNC_CURSOR
<1>3. CycleInv
  BY DEF SyncInit, CycleInv, Idle
<1>4. RequestInv
  BY DEF SyncInit, RequestInv
<1> QED BY <1>1, <1>2, <1>3, <1>4 DEF SyncInv

\* What is synced stays synced while the log and the server's rows only grow.
Grows ==
  /\ relayLength <= relayLength' /\ relaySeals <= relaySeals'
  /\ relayLength' \in Nat /\ relaySeals' \in Nat /\ relayEvents' \subseteq Nat
  /\ \A i \in relayEvents' : i \in relayEvents \/ i > relayLength
  /\ server.events \subseteq server'.events /\ server.seals \subseteq server'.seals

LEMMA SyncedIsStable ==
  ASSUME TypeOK, Grows,
         NEW c \in [offset : Nat, seal : Nat, failing : BOOLEAN], Synced(c)
  PROVE  Synced(c)'
<1>1. ASSUME NEW i \in relayEvents', i <= c.offset PROVE i \in server'.events
  <2>1. i \in Nat /\ relayLength \in Nat /\ c.offset \in Nat /\ c.offset <= relayLength
    BY DEF TypeOK, Grows, Synced
  <2>2. i \in relayEvents
    BY <1>1, <2>1 DEF Grows
  <2> QED BY <1>1, <2>2 DEF Grows, Synced
<1> QED BY <1>1 DEF TypeOK, Grows, Synced

LEMMA ContinuesIsStable ==
  ASSUME TypeOK, Grows,
         NEW c \in [offset : Nat, seal : Nat, failing : BOOLEAN],
         NEW b \in [events : SUBSET Nat, seals : SUBSET Nat, end : Nat], Continues(b, c)
  PROVE  Continues(b, c)'
<1>1. b.end <= relayLength'
  BY DEF TypeOK, Grows, Continues
<1>2. \A i \in relayEvents' : c.offset < i /\ i <= b.end => i \in b.events
  BY DEF TypeOK, Grows, Continues
<1>3. \E n \in Nat : n <= relaySeals' /\ b.seals = (c.seal + 1)..n
  BY DEF TypeOK, Grows, Continues
<1> QED BY <1>1, <1>2, <1>3 DEF Continues
-----------------------------------------------------------------------------
(***************************************************************************)
(* Every step preserves the invariant.                                     *)
(***************************************************************************)
\* The server answered: a response is new only if a request of that cycle is
\* gone, and it says ok only if the server has the batch of that request.
Answered(c) ==
  \E r \in requests :
    /\ r.cycle = c /\ requests' = requests \ {r}
    /\ responses'[c] = "ok" => /\ r.batch.events \subseteq server'.events
                               /\ r.batch.seals \subseteq server'.seals

\* A step that leaves the cursor and the cycles alone: log and rows may grow,
\* requests may go, with an answer or without.
LEMMA AgentUntouched ==
  ASSUME SyncInv, TypeOK', Grows, UNCHANGED <<cursor, cycle>>,
         requests' \subseteq requests,
         \A c \in Cycles : responses'[c] = responses[c] \/ Answered(c)
  PROVE  SyncInv'
<1>1. Synced(cursor)'
  BY SyncedIsStable DEF SyncInv, TypeOK, Synced
<1>2. CycleInv'
  <2> SUFFICES ASSUME NEW c \in Cycles
               PROVE /\ cycle[c].pushing =>
                          Synced(cycle[c].from)' /\ Continues(cycle[c].batch, cycle[c].from)'
                     /\ responses'[c] # "none" =>
                          cycle[c].pushing /\ \A r \in requests' : r.cycle # c
                     /\ responses'[c] = "ok" =>
                          /\ cycle[c].batch.events \subseteq server'.events
                          /\ cycle[c].batch.seals \subseteq server'.seals
    BY DEF CycleInv, Synced, Continues
  <2>1. cycle[c].from \in [offset : Nat, seal : Nat, failing : BOOLEAN]
    BY DEF SyncInv, TypeOK
  <2>2. cycle[c].batch \in [events : SUBSET Nat, seals : SUBSET Nat, end : Nat]
    BY DEF SyncInv, TypeOK
  <2>3. ASSUME cycle[c].pushing
        PROVE Synced(cycle[c].from)' /\ Continues(cycle[c].batch, cycle[c].from)'
    <3>1. Synced(cycle[c].from) /\ Continues(cycle[c].batch, cycle[c].from)
      BY <2>3 DEF SyncInv, CycleInv
    <3>2. Synced(cycle[c].from)'
      BY <2>1, <3>1, SyncedIsStable DEF SyncInv, Synced
    <3>3. Continues(cycle[c].batch, cycle[c].from)'
      BY <2>1, <2>2, <3>1, ContinuesIsStable DEF SyncInv, Continues
    <3> QED BY <3>2, <3>3
  <2>4. CASE responses'[c] = responses[c]
    BY <2>3, <2>4 DEF SyncInv, CycleInv, Grows
  <2>5. CASE Answered(c)
    <3>1. PICK r \in requests :
            /\ r.cycle = c /\ requests' = requests \ {r}
            /\ responses'[c] = "ok" => /\ r.batch.events \subseteq server'.events
                                       /\ r.batch.seals \subseteq server'.seals
      BY <2>5 DEF Answered
    <3>2. cycle[c].pushing /\ r.batch = cycle[c].batch
      BY <3>1, SyncAssumption DEF SyncInv, RequestInv
    <3>3. ASSUME NEW q \in requests', q.cycle = c PROVE FALSE
      <4>1. q.batch = cycle[c].batch
        BY <3>1, <3>3, SyncAssumption DEF SyncInv, RequestInv
      <4>2. q = r
        BY <3>1, <3>2, <3>3, <4>1 DEF SyncInv, TypeOK
      <4> QED BY <3>1, <4>2
    <3> QED BY <2>3, <3>1, <3>2, <3>3
  <2> QED BY <2>4, <2>5
<1>3. RequestInv'
  <2>1. RequestInv /\ cycle' = cycle
    BY DEF SyncInv
  <2> QED BY <2>1 DEF RequestInv
<1> QED BY <1>1, <1>2, <1>3 DEF SyncInv

\* The relay's steps only let the log grow.
LEMMA RelayKeeps ==
  ASSUME SyncInv, RelayAppendsEvent \/ RelayAppendsHeartbeat \/ RelaySeals
  PROVE  SyncInv'
<1>1. UNCHANGED <<cursor, cycle, requests, responses, server>>
  BY DEF RelayAppendsEvent, RelayAppendsHeartbeat, RelaySeals
<1>2. /\ relayLength \in Nat /\ relayEvents \subseteq 1..relayLength /\ relaySeals \in Nat
      /\ relayLength <= relayLength' /\ relaySeals <= relaySeals'
      /\ relayLength' \in Nat /\ relaySeals' \in Nat
      /\ relayEvents' = relayEvents \/ relayEvents' = relayEvents \cup {relayLength + 1}
      /\ relayEvents' # relayEvents => relayLength' = relayLength + 1
  BY DEF RelayAppendsEvent, RelayAppendsHeartbeat, RelaySeals, SyncInv, TypeOK
<1>3. \A i \in relayEvents' : i \in 1..relayLength' /\ (i \in relayEvents \/ i > relayLength)
  <2>1. CASE relayEvents' = relayEvents
    BY <1>2, <2>1
  <2>2. CASE relayEvents' = relayEvents \cup {relayLength + 1} /\ relayLength' = relayLength + 1
    BY <1>2, <2>2
  <2> QED BY <1>2, <2>1, <2>2
<1>4. Grows
  BY <1>1, <1>2, <1>3 DEF Grows
<1>5. TypeOK'
  BY <1>1, <1>2, <1>3 DEF SyncInv, TypeOK
<1> QED BY <1>1, <1>4, <1>5, AgentUntouched

\* A step of the server stores a batch, or part of it, and answers last.
LEMMA ServerKeeps ==
  ASSUME SyncInv, NEW r \in requests,
         Ingest(r) \/ IngestRejects(r) \/ IngestDies(r) \/ RequestLost(r)
  PROVE  SyncInv'
<1>1. TypeOK /\ r.batch \in [events : SUBSET Nat, seals : SUBSET Nat, end : Nat]
  BY DEF SyncInv, TypeOK
<1>2. UNCHANGED <<relay, cursor, cycle>> /\ requests' = requests \ {r}
  BY DEF Ingest, IngestRejects, IngestDies, RequestLost, Answer
<1>3. UNCHANGED <<relayEvents, relayLength, relaySeals>>
  BY <1>2 DEF relay
<1>4. /\ server.events \subseteq server'.events /\ server.seals \subseteq server'.seals
      /\ {"events", "seals"} \subseteq DOMAIN server'
  <2>1. CASE Ingest(r)
    BY <2>1 DEF Ingest
  <2>2. CASE IngestDies(r)
    BY <1>1, <2>2 DEF TypeOK, IngestDies
  <2>3. CASE IngestRejects(r) \/ RequestLost(r)
    BY <1>1, <2>3 DEF TypeOK, IngestRejects, RequestLost
  <2> QED BY <2>1, <2>2, <2>3
<1>5. /\ responses' \in [Cycles -> {"none", "ok", "rejected"}]
      /\ \A c \in Cycles : responses'[c] = responses[c] \/ Answered(c)
  <2>1. CASE Ingest(r)
    <3>1. /\ r.batch.events \subseteq server'.events /\ r.batch.seals \subseteq server'.seals
          /\ Answer(r, "ok")
      BY <2>1 DEF Ingest
    <3> QED BY <1>1, <1>2, <3>1 DEF TypeOK, Answer, Answered
  <2>2. CASE IngestRejects(r)
    <3>1. Answer(r, "rejected")
      BY <2>2 DEF IngestRejects
    <3> QED BY <1>1, <1>2, <3>1 DEF TypeOK, Answer, Answered
  <2>3. CASE IngestDies(r) \/ RequestLost(r)
    <3>1. responses' = responses
      BY <2>3 DEF IngestDies, RequestLost
    <3> QED BY <1>1, <3>1 DEF TypeOK
  <2> QED BY <2>1, <2>2, <2>3
<1>6. Grows
  BY <1>1, <1>3, <1>4 DEF TypeOK, Grows
<1>7. TypeOK'
  BY <1>1, <1>2, <1>3, <1>4, <1>5 DEF TypeOK
<1> QED BY <1>2, <1>5, <1>6, <1>7, AgentUntouched

\* The batch that a cycle begins with continues the cursor.
LEMMA StartKeeps ==
  ASSUME SyncInv, NEW c \in Cycles, CycleStart(c)
  PROVE  SyncInv'
<1> DEFINE read == readNewEvents(cursor.offset)
           batch == [events |-> read.events, seals |-> readNewSeals(cursor.seal),
                     end |-> read.end]
<1>1. /\ TypeOK /\ Synced(cursor) /\ CycleInv /\ RequestInv
      /\ cursor \in [offset : Nat, seal : Nat, failing : BOOLEAN]
  BY DEF SyncInv, TypeOK
<1>2. /\ ~cycle[c].pushing
      /\ cycle' = [cycle EXCEPT ![c] = [pushing |-> TRUE, from |-> cursor, batch |-> batch]]
      /\ requests' = requests \cup {[cycle |-> c, batch |-> batch]}
      /\ UNCHANGED <<relay, cursor, responses, server>>
  BY DEF CycleStart
<1>3. UNCHANGED <<relayEvents, relayLength, relaySeals>>
  BY <1>2 DEF relay
<1>4. /\ read.end \in Nat /\ read.end <= relayLength
      /\ read.events \subseteq relayEvents
      /\ \A i \in relayEvents : cursor.offset < i /\ i <= read.end => i \in read.events
  BY <1>1, ReadMissesNothing DEF TypeOK
<1>5. readNewSeals(cursor.seal) = (cursor.seal + 1)..relaySeals
  BY <1>1 DEF TypeOK, readNewSeals
<1> HIDE DEF read
<1>6. Continues(batch, cursor)
  BY <1>1, <1>4, <1>5 DEF TypeOK, Continues
<1>7. batch \in [events : SUBSET Nat, seals : SUBSET Nat, end : Nat]
  <2>1. read.events \subseteq Nat
    <3>1. 1..relayLength \subseteq Nat /\ relayEvents \subseteq 1..relayLength
      BY <1>1 DEF TypeOK
    <3> QED BY <1>4, <3>1
  <2>2. (cursor.seal + 1)..relaySeals \subseteq Nat
    BY <1>1 DEF TypeOK
  <2> QED BY <1>4, <1>5, <2>1, <2>2
<1> HIDE DEF batch
<1>8. TypeOK'
  BY <1>1, <1>2, <1>3, <1>7 DEF TypeOK
<1>9. CycleInv'
  <2> SUFFICES ASSUME NEW d \in Cycles
               PROVE /\ cycle'[d].pushing =>
                          Synced(cycle'[d].from) /\ Continues(cycle'[d].batch, cycle'[d].from)
                     /\ responses[d] # "none" =>
                          cycle'[d].pushing /\ \A r \in requests' : r.cycle # d
                     /\ responses[d] = "ok" =>
                          /\ cycle'[d].batch.events \subseteq server.events
                          /\ cycle'[d].batch.seals \subseteq server.seals
    BY <1>2, <1>3 DEF CycleInv, Synced, Continues
  <2>1. CASE d = c
    <3>1. cycle'[d] = [pushing |-> TRUE, from |-> cursor, batch |-> batch]
      BY <1>1, <1>2, <2>1 DEF TypeOK
    <3>2. responses[d] = "none"
      BY <1>1, <1>2, <2>1 DEF CycleInv
    <3> QED BY <1>1, <1>6, <3>1, <3>2
  <2>2. CASE d # c
    <3>1. cycle'[d] = cycle[d] /\ \A r \in requests' : r.cycle = d => r \in requests
      BY <1>1, <1>2, <2>2 DEF TypeOK
    <3> QED BY <1>1, <3>1 DEF CycleInv
  <2> QED BY <2>1, <2>2
<1>10. RequestInv'
  <2> SUFFICES ASSUME NEW r \in requests', r.cycle # NoCycle
               PROVE cycle'[r.cycle].pushing /\ r.batch = cycle'[r.cycle].batch
    BY DEF RequestInv
  <2>1. CASE r \in requests
    BY <1>1, <1>2, <2>1 DEF TypeOK, RequestInv
  <2>2. CASE r = [cycle |-> c, batch |-> batch]
    BY <1>1, <1>2, <2>2 DEF TypeOK
  <2> QED BY <1>2, <2>1, <2>2
<1>11. Synced(cursor)'
  BY <1>1, <1>2, <1>3 DEF Synced
<1> QED BY <1>8, <1>9, <1>10, <1>11 DEF SyncInv

\* A cycle ends and leaves a synced cursor; no request carries its name any
\* more, and the other cycles keep their requests.
LEMMA EndOfCycles ==
  ASSUME SyncInv, NEW Ended \in SUBSET Cycles, Synced(cursor'),
         cursor' \in [offset : Nat, seal : Nat, failing : BOOLEAN],
         cycle' = [c \in Cycles |-> IF c \in Ended THEN Idle ELSE cycle[c]],
         responses' = [c \in Cycles |-> IF c \in Ended THEN "none" ELSE responses[c]],
         \A r \in requests' : \/ r \in requests /\ r.cycle \notin Ended
                              \/ r.cycle = NoCycle /\ \E q \in requests : r.batch = q.batch
                                                   /\ r = [cycle |-> NoCycle, batch |-> q.batch],
         UNCHANGED <<relay, server>>
  PROVE  SyncInv'
<1>1. TypeOK /\ CycleInv /\ RequestInv
  BY DEF SyncInv
<1>2. UNCHANGED <<relayEvents, relayLength, relaySeals>>
  BY DEF relay
<1>3. TypeOK'
  <2>1. requests' \subseteq [cycle : Cycles \cup {NoCycle},
                             batch : [events : SUBSET Nat, seals : SUBSET Nat, end : Nat]]
    BY <1>1 DEF TypeOK
  <2>2. Idle \in [pushing : BOOLEAN, from : [offset : Nat, seal : Nat, failing : BOOLEAN],
                  batch : [events : SUBSET Nat, seals : SUBSET Nat, end : Nat]]
    BY DEF Idle, DEFAULT_SYNC_CURSOR, NoBatch
  <2> QED BY <1>1, <1>2, <2>1, <2>2 DEF TypeOK
<1>4. CycleInv'
  <2> SUFFICES ASSUME NEW d \in Cycles
               PROVE /\ cycle'[d].pushing =>
                          Synced(cycle'[d].from) /\ Continues(cycle'[d].batch, cycle'[d].from)
                     /\ responses'[d] # "none" =>
                          cycle'[d].pushing /\ \A r \in requests' : r.cycle # d
                     /\ responses'[d] = "ok" =>
                          /\ cycle'[d].batch.events \subseteq server.events
                          /\ cycle'[d].batch.seals \subseteq server.seals
    BY <1>2 DEF CycleInv, Synced, Continues
  <2>1. CASE d \in Ended
    <3>1. ~cycle'[d].pushing /\ responses'[d] = "none"
      BY <2>1 DEF Idle
    <3> QED BY <3>1
  <2>2. CASE d \notin Ended
    <3>1. cycle'[d] = cycle[d] /\ responses'[d] = responses[d]
      BY <2>2
    <3>2. \A r \in requests' : r.cycle = d => r \in requests
      BY SyncAssumption
    <3> QED BY <1>1, <3>1, <3>2 DEF CycleInv
  <2> QED BY <2>1, <2>2
<1>5. RequestInv'
  <2> SUFFICES ASSUME NEW r \in requests', r.cycle # NoCycle
               PROVE cycle'[r.cycle].pushing /\ r.batch = cycle'[r.cycle].batch
    BY DEF RequestInv
  <2>1. r \in requests /\ r.cycle \notin Ended /\ r.cycle \in Cycles
    BY <1>1 DEF TypeOK
  <2>2. cycle'[r.cycle] = cycle[r.cycle]
    BY <2>1
  <2> QED BY <1>1, <2>1, <2>2 DEF RequestInv
<1>6. Synced(cursor)'
  <2>1. Synced(cursor') /\ server' = server
    OBVIOUS
  <2> QED BY <1>2, <2>1 DEF Synced
<1> QED BY <1>3, <1>4, <1>5, <1>6 DEF SyncInv

\* The server has the batch that it accepted, so the cursor may go to its end.
LEMMA OkKeeps ==
  ASSUME SyncInv, NEW c \in Cycles, CycleOk(c)
  PROVE  SyncInv'
<1> DEFINE b == cycle[c].batch
           f == cycle[c].from
<1>1. TypeOK /\ CycleInv /\ RequestInv
  BY DEF SyncInv
<1>2. /\ cycle[c].pushing /\ responses[c] = "ok"
      /\ cursor' = [offset |-> b.end, failing |-> FALSE,
                    seal |-> IF b.seals = {} THEN f.seal ELSE Max(b.seals)]
      /\ cycle' = [cycle EXCEPT ![c] = Idle]
      /\ responses' = [responses EXCEPT ![c] = "none"]
      /\ requests' = requests /\ UNCHANGED <<relay, server>>
  BY DEF CycleOk
<1>3. /\ f \in [offset : Nat, seal : Nat, failing : BOOLEAN]
      /\ b \in [events : SUBSET Nat, seals : SUBSET Nat, end : Nat]
  BY <1>1 DEF TypeOK
<1>4. /\ Synced(f) /\ Continues(b, f)
      /\ \A r \in requests : r.cycle # c
      /\ b.events \subseteq server.events /\ b.seals \subseteq server.seals
  BY <1>1, <1>2 DEF CycleInv
<1> HIDE DEF b, f
<1>5. PICK n \in Nat : n <= relaySeals /\ b.seals = (f.seal + 1)..n
  BY <1>4 DEF Continues
<1>6. /\ cursor'.seal \in Nat /\ cursor'.seal <= relaySeals
      /\ \A s \in 1..cursor'.seal : s \in 1..f.seal \/ s \in b.seals
  <2>1. CASE b.seals = {}
    BY <1>2, <1>3, <1>4, <2>1 DEF Synced
  <2>2. CASE b.seals # {}
    <3>1. f.seal + 1 <= n
      BY <1>3, <1>5, <2>2
    <3>2. Max(b.seals) = n
      BY <1>3, <1>5, <3>1, MaxOfInterval
    <3> QED BY <1>1, <1>2, <1>3, <1>5, <2>2, <3>2 DEF TypeOK
  <2> QED BY <2>1, <2>2
<1>7. cursor' \in [offset : Nat, seal : Nat, failing : BOOLEAN]
  BY <1>2, <1>3, <1>6
<1>8. Synced(cursor')
  <2>1. cursor'.offset = b.end /\ b.end <= relayLength
    BY <1>2, <1>4 DEF Continues
  <2>2. ASSUME NEW i \in relayEvents, i <= b.end PROVE i \in server.events
    <3>1. i \in Nat /\ f.offset \in Nat
      BY <1>1, <1>3 DEF TypeOK
    <3>2. i <= f.offset \/ f.offset < i
      BY <3>1
    <3> QED BY <1>4, <2>2, <3>2 DEF Synced, Continues
  <2>3. ASSUME NEW s \in 1..cursor'.seal PROVE s \in server.seals
    BY <1>4, <1>6 DEF Synced
  <2> QED BY <1>6, <2>1, <2>2, <2>3 DEF Synced
<1>9. /\ cycle' = [d \in Cycles |-> IF d \in {c} THEN Idle ELSE cycle[d]]
      /\ responses' = [d \in Cycles |-> IF d \in {c} THEN "none" ELSE responses[d]]
  BY <1>1, <1>2 DEF TypeOK
<1>10. \A r \in requests' : r \in requests /\ r.cycle \notin {c}
  BY <1>2, <1>4
<1> DEFINE Ended == {c}
<1>11. /\ Ended \in SUBSET Cycles
       /\ \A r \in requests' : r \in requests /\ r.cycle \notin Ended
       /\ cycle' = [d \in Cycles |-> IF d \in Ended THEN Idle ELSE cycle[d]]
       /\ responses' = [d \in Cycles |-> IF d \in Ended THEN "none" ELSE responses[d]]
  BY <1>9, <1>10
<1> HIDE DEF Ended
<1> QED BY <1>2, <1>7, <1>8, <1>11, EndOfCycles

\* A failed cycle writes back the cursor that it began with.
LEMMA FailsKeeps ==
  ASSUME SyncInv, NEW c \in Cycles, CycleFails(c)
  PROVE  SyncInv'
<1> DEFINE f == cycle[c].from
<1>1. TypeOK /\ CycleInv /\ RequestInv
  BY DEF SyncInv
<1>2. /\ cycle[c].pushing
      /\ cursor' = [f EXCEPT !.failing = TRUE]
      /\ cycle' = [cycle EXCEPT ![c] = Idle]
      /\ responses' = [responses EXCEPT ![c] = "none"]
      /\ requests' = {IF r.cycle = c THEN [r EXCEPT !.cycle = NoCycle] ELSE r : r \in requests}
      /\ UNCHANGED <<relay, server>>
  BY DEF CycleFails
<1>3. f \in [offset : Nat, seal : Nat, failing : BOOLEAN] /\ Synced(f)
  BY <1>1, <1>2 DEF TypeOK, CycleInv
<1> HIDE DEF f
<1>4. /\ cursor' \in [offset : Nat, seal : Nat, failing : BOOLEAN]
      /\ cursor'.offset = f.offset /\ cursor'.seal = f.seal
  BY <1>2, <1>3
<1>5. Synced(cursor')
  BY <1>3, <1>4 DEF Synced
<1>6. /\ cycle' = [d \in Cycles |-> IF d \in {c} THEN Idle ELSE cycle[d]]
      /\ responses' = [d \in Cycles |-> IF d \in {c} THEN "none" ELSE responses[d]]
  BY <1>1, <1>2 DEF TypeOK
<1>7. ASSUME NEW r \in requests'
      PROVE \/ r \in requests /\ r.cycle \notin {c}
            \/ r.cycle = NoCycle /\ \E q \in requests : r.batch = q.batch
                                 /\ r = [cycle |-> NoCycle, batch |-> q.batch]
  <2>1. PICK q \in requests : r = IF q.cycle = c THEN [q EXCEPT !.cycle = NoCycle] ELSE q
    BY <1>2
  <2>2. [q EXCEPT !.cycle = NoCycle] = [cycle |-> NoCycle, batch |-> q.batch]
    BY <1>1 DEF TypeOK
  <2> QED BY <2>1, <2>2
<1> DEFINE Ended == {c}
<1>8. /\ Ended \in SUBSET Cycles
      /\ \A r \in requests' :
           \/ r \in requests /\ r.cycle \notin Ended
           \/ r.cycle = NoCycle /\ \E q \in requests : r.batch = q.batch
                                /\ r = [cycle |-> NoCycle, batch |-> q.batch]
      /\ cycle' = [d \in Cycles |-> IF d \in Ended THEN Idle ELSE cycle[d]]
      /\ responses' = [d \in Cycles |-> IF d \in Ended THEN "none" ELSE responses[d]]
  BY <1>6, <1>7
<1> HIDE DEF Ended
<1> QED BY <1>2, <1>4, <1>5, <1>8, EndOfCycles

\* A restarted agent has only the cursor file.
LEMMA RestartKeeps ==
  ASSUME SyncInv, AgentRestarts
  PROVE  SyncInv'
<1>1. TypeOK /\ Synced(cursor)
  BY DEF SyncInv
<1>2. /\ cursor' = cursor /\ UNCHANGED <<relay, server>>
      /\ cycle' = [c \in Cycles |-> Idle] /\ responses' = [c \in Cycles |-> "none"]
      /\ requests' = {[r EXCEPT !.cycle = NoCycle] : r \in requests}
  BY DEF AgentRestarts
<1>3. /\ cycle' = [c \in Cycles |-> IF c \in Cycles THEN Idle ELSE cycle[c]]
      /\ responses' = [c \in Cycles |-> IF c \in Cycles THEN "none" ELSE responses[c]]
  BY <1>2
<1>4. ASSUME NEW r \in requests'
      PROVE r.cycle = NoCycle /\ \E q \in requests : r.batch = q.batch
                               /\ r = [cycle |-> NoCycle, batch |-> q.batch]
  <2>1. PICK q \in requests : r = [q EXCEPT !.cycle = NoCycle]
    BY <1>2
  <2>2. [q EXCEPT !.cycle = NoCycle] = [cycle |-> NoCycle, batch |-> q.batch]
    BY <1>1 DEF TypeOK
  <2> QED BY <2>1, <2>2
<1>5. Synced(cursor') /\ cursor' \in [offset : Nat, seal : Nat, failing : BOOLEAN]
  BY <1>1, <1>2 DEF TypeOK
<1> QED BY <1>2, <1>3, <1>4, <1>5, EndOfCycles

LEMMA SyncInvNext == SyncInv /\ [SyncNext]_syncVars => SyncInv'
<1> SUFFICES ASSUME SyncInv, [SyncNext]_syncVars PROVE SyncInv'
  OBVIOUS
<1>1. CASE RelayAppendsEvent \/ RelayAppendsHeartbeat \/ RelaySeals
  BY <1>1, RelayKeeps
<1>2. ASSUME NEW c \in Cycles, AgentStep(c) PROVE SyncInv'
  BY <1>2, StartKeeps, OkKeeps, FailsKeeps DEF AgentStep
<1>3. CASE AgentRestarts
  BY <1>3, RestartKeeps
<1>4. ASSUME NEW r \in requests,
             Ingest(r) \/ IngestRejects(r) \/ IngestDies(r) \/ RequestLost(r)
      PROVE SyncInv'
  BY <1>4, ServerKeeps
<1>5. CASE BackoffElapses \/ UNCHANGED syncVars
  <2>1. UNCHANGED <<relay, cursor, cycle, requests, responses, server>>
    BY <1>5 DEF BackoffElapses, syncVars
  <2>2. UNCHANGED <<relayEvents, relayLength, relaySeals>>
    BY <2>1 DEF relay
  <2>3. TypeOK' /\ CycleInv' /\ RequestInv' /\ Synced(cursor)'
    BY <2>1, <2>2 DEF SyncInv, TypeOK, CycleInv, RequestInv, Synced, Continues
  <2> QED BY <2>3 DEF SyncInv
<1> QED BY <1>1, <1>2, <1>3, <1>4, <1>5 DEF SyncNext, ServerStep

-----------------------------------------------------------------------------
\* What the agent counts as synced is on the server, whatever was lost, late,
\* repeated, partly stored or overlapping, for any batch limits.
THEOREM NothingBeforeTheCursorIsMissing == SyncSpec => []NoGaps
<1>1. SyncInv => NoGaps
  <2>1. SyncInv => Synced(cursor)
    BY DEF SyncInv
  <2>2. Synced(cursor) => NoGaps
    BY DEF Synced, NoGaps
  <2> QED BY <2>1, <2>2
<1> QED BY SyncInvInit, SyncInvNext, <1>1, PTL DEF SyncSpec

-----------------------------------------------------------------------------
(***************************************************************************)
(* The cursor goes forwards.  A batch ends where it began or later         *)
(* (BatchAhead), and while no two cycles have overlapped the one that      *)
(* pushes began at the cursor there is (OneCycle).                         *)
(***************************************************************************)
BatchAhead ==
  \A c \in Cycles : cycle[c].pushing => cycle[c].from.offset <= cycle[c].batch.end

OneCycle ==
  ~overlapped => \A c \in Cycles : cycle[c].pushing =>
    /\ cycle[c].from.offset = cursor.offset /\ cycle[c].from.seal = cursor.seal
    /\ \A d \in Cycles : cycle[d].pushing => d = c

ForwardInv == SyncInv /\ BatchAhead /\ OneCycle

LEMMA ForwardInvInit == SyncInit => ForwardInv
<1> SUFFICES ASSUME SyncInit PROVE ForwardInv
  OBVIOUS
<1>1. \A c \in Cycles : ~cycle[c].pushing
  BY DEF SyncInit, Idle
<1> QED BY <1>1, SyncInvInit DEF ForwardInv, BatchAhead, OneCycle

\* Some cycles end and the others go on.
LEMMA EndedForward ==
  ASSUME ForwardInv, NEW c \in Cycles, cycle[c].pushing,
         cycle' = [cycle EXCEPT ![c] = Idle], overlapped' = overlapped
  PROVE  BatchAhead' /\ OneCycle'
<1>1. ~cycle'[c].pushing /\ \A d \in Cycles : d # c => cycle'[d] = cycle[d]
  BY DEF ForwardInv, SyncInv, TypeOK, Idle
<1> QED BY <1>1 DEF ForwardInv, BatchAhead, OneCycle

LEMMA StartForward ==
  ASSUME ForwardInv, NEW c \in Cycles, CycleStart(c)
  PROVE  BatchAhead' /\ OneCycle'
<1> DEFINE read == readNewEvents(cursor.offset)
           new == [pushing |-> TRUE, from |-> cursor,
                   batch |-> [events |-> read.events, seals |-> readNewSeals(cursor.seal),
                              end |-> read.end]]
<1>1. TypeOK /\ Synced(cursor) /\ cycle' = [cycle EXCEPT ![c] = new] /\ cursor' = cursor
  BY DEF ForwardInv, SyncInv, CycleStart
<1>2. cursor.offset <= read.end
  BY <1>1, ReadMissesNothing DEF TypeOK, Synced
<1>3. new.pushing /\ new.from = cursor /\ new.batch.end = read.end
  OBVIOUS
<1> HIDE DEF new, read
<1>4. cycle'[c] = new /\ \A d \in Cycles : d # c => cycle'[d] = cycle[d]
  BY <1>1 DEF TypeOK
<1>5. BatchAhead'
  BY <1>2, <1>3, <1>4 DEF ForwardInv, BatchAhead
<1>6. ~overlapped' => \A d \in Cycles : ~cycle[d].pushing
  BY DEF CycleStart
<1>7. OneCycle'
  BY <1>1, <1>3, <1>4, <1>6 DEF OneCycle
<1> QED BY <1>5, <1>7

LEMMA ForwardInvNext == ForwardInv /\ [SyncNext]_syncVars => ForwardInv'
<1> SUFFICES ASSUME ForwardInv, [SyncNext]_syncVars PROVE ForwardInv'
  OBVIOUS
<1>1. SyncInv'
  BY SyncInvNext DEF ForwardInv
<1>2. ASSUME NEW c \in Cycles, AgentStep(c) PROVE BatchAhead' /\ OneCycle'
  BY <1>2, StartForward, EndedForward DEF AgentStep, CycleOk, CycleFails
<1>3. CASE AgentRestarts
  <2>1. \A c \in Cycles : ~cycle'[c].pushing
    BY <1>3 DEF AgentRestarts, Idle
  <2> QED BY <1>1, <2>1 DEF ForwardInv, BatchAhead, OneCycle
<1>4. ASSUME UNCHANGED <<cursor, cycle, overlapped>> PROVE BatchAhead' /\ OneCycle'
  BY <1>4 DEF ForwardInv, BatchAhead, OneCycle
<1> QED
  BY <1>1, <1>2, <1>3, <1>4
  DEF ForwardInv, SyncNext, syncVars, ServerStep, RelayAppendsEvent, RelayAppendsHeartbeat, RelaySeals,
      BackoffElapses, Ingest, IngestRejects, IngestDies, RequestLost

\* A cycle that was accepted leaves the cursor where it was or further on.
LEMMA OkForward ==
  ASSUME ForwardInv, NEW c \in Cycles, CycleOk(c), ~overlapped'
  PROVE  cursor'.offset >= cursor.offset /\ cursor'.seal >= cursor.seal
<1> DEFINE b == cycle[c].batch
           f == cycle[c].from
<1>1. /\ cycle[c].pushing /\ ~overlapped
      /\ cursor' = [offset |-> b.end, failing |-> FALSE,
                    seal |-> IF b.seals = {} THEN f.seal ELSE Max(b.seals)]
  BY DEF CycleOk
<1>2. /\ f \in [offset : Nat, seal : Nat, failing : BOOLEAN]
      /\ b \in [events : SUBSET Nat, seals : SUBSET Nat, end : Nat]
  BY DEF ForwardInv, SyncInv, TypeOK
<1>3. /\ f.offset <= b.end /\ Continues(b, f)
      /\ f.offset = cursor.offset /\ f.seal = cursor.seal
  BY <1>1 DEF ForwardInv, SyncInv, BatchAhead, OneCycle, CycleInv
<1> HIDE DEF b, f
<1>4. PICK n \in Nat : b.seals = (f.seal + 1)..n
  BY <1>3 DEF Continues
<1>5. cursor'.seal >= f.seal
  <2>1. CASE b.seals = {}
    BY <1>1, <1>2, <2>1
  <2>2. CASE b.seals # {}
    <3>1. f.seal + 1 <= n
      BY <1>2, <1>4, <2>2
    <3>2. Max(b.seals) = n
      BY <1>2, <1>4, <3>1, MaxOfInterval
    <3> QED BY <1>1, <1>2, <2>2, <3>1, <3>2
  <2> QED BY <2>1, <2>2
<1> QED BY <1>1, <1>2, <1>3, <1>5

\* A cycle that failed writes back the cursor it began with.
LEMMA FailsForward ==
  ASSUME ForwardInv, NEW c \in Cycles, CycleFails(c), ~overlapped'
  PROVE  cursor'.offset >= cursor.offset /\ cursor'.seal >= cursor.seal
<1> DEFINE f == cycle[c].from
<1>1. cycle[c].pushing /\ ~overlapped /\ cursor' = [f EXCEPT !.failing = TRUE]
  BY DEF CycleFails
<1>2. f \in [offset : Nat, seal : Nat, failing : BOOLEAN]
  BY DEF ForwardInv, SyncInv, TypeOK
<1>3. f.offset = cursor.offset /\ f.seal = cursor.seal
  BY <1>1 DEF ForwardInv, OneCycle
<1> HIDE DEF f
<1> QED BY <1>1, <1>2, <1>3

(***************************************************************************)
(* For any number of lines, losses and failures: the cursor file goes back *)
(* only when a cycle was started while another waited for its response.    *)
(***************************************************************************)
THEOREM CursorNeverRewinds == SyncSpec => CursorMonotone
<1>1. ForwardInv /\ [SyncNext]_syncVars =>
        [~overlapped' => cursor'.offset >= cursor.offset /\ cursor'.seal >= cursor.seal]_syncVars
  <2> SUFFICES ASSUME ForwardInv, SyncNext, ~overlapped'
               PROVE  cursor'.offset >= cursor.offset /\ cursor'.seal >= cursor.seal
    OBVIOUS
  <2>1. ASSUME NEW c \in Cycles, CycleOk(c) \/ CycleFails(c)
        PROVE  cursor'.offset >= cursor.offset /\ cursor'.seal >= cursor.seal
    BY <2>1, OkForward, FailsForward
  <2>2. CASE cursor' = cursor
    <3>1. cursor.offset \in Nat /\ cursor.seal \in Nat
      BY DEF ForwardInv, SyncInv, TypeOK
    <3> QED BY <2>2, <3>1
  <2> QED
    BY <2>1, <2>2
    DEF SyncNext, AgentStep, ServerStep, CycleStart, RelayAppendsEvent, RelayAppendsHeartbeat,
        RelaySeals, BackoffElapses, AgentRestarts, Ingest, IngestRejects, IngestDies, RequestLost
<1> QED BY <1>1, ForwardInvInit, ForwardInvNext, PTL DEF SyncSpec, CursorMonotone
=============================================================================
