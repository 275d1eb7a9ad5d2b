----------------------------- MODULE TrustProofs -----------------------------
(***************************************************************************)
(* What `patchwork verify` shows, for every number of processes, events,   *)
(* keys, seals, damages and deaths: every seal can be verified, a log that *)
(* was left alone passes, a pass means that no sealed event is missing,    *)
(* and a pass under the strict profile that the log is the attested one.   *)
(***************************************************************************)
EXTENDS Trust, FiniteSetTheorems, SequenceTheorems, WellFoundedInduction, TLAPS

-----------------------------------------------------------------------------
(***************************************************************************)
(* Positions in a log.                                                     *)
(***************************************************************************)
LEMMA LeastOf ==
  ASSUME NEW T \in SUBSET Nat, T # {}
  PROVE  \E x \in T : \A y \in T : x <= y
<1> DEFINE R == {ss \in Nat \X Nat : ss[1] < ss[2]}
<1>1. IsWellFoundedOn(R, Nat)
  BY NatLessThanWellFounded DEF OpToRel
<1> HIDE DEF R
<1>2. \E x \in T : \A y \in T : ~(<<y, x>> \in R)
  BY <1>1, WFMin
<1>3. ASSUME NEW x \in T, NEW y \in T, ~(<<y, x>> \in R) PROVE x <= y
  BY <1>3 DEF R
<1> QED BY <1>2, <1>3

\* Max chooses the last of some positions.
LEMMA LastOf ==
  ASSUME NEW n \in Nat, NEW T \in SUBSET (1..n), T # {}
  PROVE  Max(T) \in T /\ \A y \in T : y <= Max(T)
<1> DEFINE D == {n - y : y \in T}
<1>1. D \in SUBSET Nat /\ D # {}
  <2>1. ASSUME NEW y \in T PROVE y \in 1..n
    OBVIOUS
  <2>2. ASSUME NEW y \in T PROVE n - y \in Nat
    BY <2>1
  <2> QED BY <2>2
<1>2. PICK d \in D : \A e \in D : d <= e
  BY <1>1, LeastOf
<1>3. PICK x \in T : d = n - x
  OBVIOUS
<1>4. \A y \in T : x >= y
  <2> TAKE y \in T
  <2>1. n - x <= n - y
    BY <1>2, <1>3
  <2> QED BY <2>1
<1>5. \E y \in T : \A z \in T : y >= z
  BY <1>4
<1> HIDE DEF D
<1>6. Max(T) \in T /\ \A y \in T : Max(T) >= y
  BY <1>5 DEF Max
<1> QED BY <1>6

\* The position of C before that of i.
LEMMA PositionBefore ==
  ASSUME NEW n \in Nat, NEW C \in SUBSET (1..n), NEW k \in C, NEW i \in C, k < i
  PROVE  LET b == Max({j \in C : j < i}) IN
         b \in C /\ k <= b /\ b < i /\ \A j \in C : j < i => j <= b
<1> DEFINE B == {j \in C : j < i}
<1>1. B \in SUBSET (1..n) /\ k \in B
  OBVIOUS
<1>2. Max(B) \in B /\ \A j \in B : j <= Max(B)
  BY <1>1, LastOf
<1> QED BY <1>1, <1>2

LEMMA PositionAfter ==
  ASSUME NEW n \in Nat, NEW C \in SUBSET (1..n), NEW k \in C, NEW i \in C, i < k
  PROVE  \E a \in C : i < a /\ a <= k /\ \A j \in C : i < j => a <= j
<1> DEFINE A == {j \in C : i < j}
<1>1. \A j \in C : j \in Nat
  OBVIOUS
<1>2. A \in SUBSET Nat /\ k \in A
  BY <1>1
<1>3. PICK a \in A : \A j \in A : a <= j
  BY <1>2, LeastOf
<1> QED BY <1>1, <1>2, <1>3

LEMMA Positions ==
  ASSUME NEW l \in Seq(Line)
  PROVE  /\ Hashed(l) \in SUBSET (1..Len(l)) /\ Chained(l) \in SUBSET (1..Len(l))
         /\ IsFiniteSet(Chained(l)) /\ Cardinality(Chained(l)) \in Nat
         /\ ChainTip(l) \in Nat
         /\ Hashed(l) # {} => \E i \in Hashed(l) : ChainTip(l) = l[i].id /\ \A j \in Hashed(l) : j <= i
<1>1. Hashed(l) \in SUBSET (1..Len(l)) /\ Chained(l) \in SUBSET (1..Len(l))
  BY DEF Hashed, Chained
<1>2. IsFiniteSet(1..Len(l))
  BY FS_Interval
<1>3. IsFiniteSet(Chained(l)) /\ Cardinality(Chained(l)) \in Nat
  BY <1>1, <1>2, FS_Subset, FS_CardinalityType
<1>4. ASSUME Hashed(l) # {}
      PROVE  \E i \in Hashed(l) : ChainTip(l) = l[i].id /\ \A j \in Hashed(l) : j <= i
  <2>1. Len(l) \in Nat
    OBVIOUS
  <2>2. Max(Hashed(l)) \in Hashed(l) /\ \A j \in Hashed(l) : j <= Max(Hashed(l))
    BY <1>1, <1>4, <2>1, LastOf
  <2> QED BY <1>4, <2>2 DEF ChainTip
<1>5. ChainTip(l) \in Nat
  <2>1. CASE Hashed(l) = {}
    BY <2>1 DEF ChainTip
  <2>2. CASE Hashed(l) # {}
    <3>1. PICK i \in Hashed(l) : ChainTip(l) = l[i].id
      BY <1>4, <2>2
    <3>2. i \in 1..Len(l)
      BY <1>1
    <3>3. l[i] \in Line
      BY <3>2
    <3> QED BY <3>1, <3>3 DEF Line
  <2> QED BY <2>1, <2>2
<1> QED BY <1>1, <1>3, <1>4, <1>5
-----------------------------------------------------------------------------
(***************************************************************************)
(* What an unbroken chain is.                                              *)
(***************************************************************************)
\* A chained event links to the chained event before it.
LEMMA Linked ==
  ASSUME NEW l \in Seq(Line), PrevLinkMismatch(l) = {},
         NEW a \in Chained(l), NEW b \in Chained(l), b < a,
         \A j \in Chained(l) : j < a => j <= b
  PROVE  l[a].prev = l[b].id
<1>1. Chained(l) \in SUBSET (1..Len(l)) /\ Len(l) \in Nat
  BY Positions
<1>2. LET m == Max({j \in Chained(l) : j < a})
      IN m \in Chained(l) /\ b <= m /\ m < a
  BY <1>1, PositionBefore
<1>3. Max({j \in Chained(l) : j < a}) = b
  BY <1>1, <1>2
<1>4. {j \in Chained(l) : j < a} # {}
  OBVIOUS
<1>5. a \notin PrevLinkMismatch(l)
  OBVIOUS
<1> QED BY <1>3, <1>4, <1>5 DEF PrevLinkMismatch

\* The last chained event has rank 1 from the end, any other the rank of its
\* successor and one.
LEMMA Rank ==
  ASSUME NEW l \in Seq(Line), NEW i \in Chained(l)
  PROVE  /\ FromEnd(l, i) \in Nat \ {0}
         /\ FromEnd(l, i) = 1 => \A j \in Chained(l) : j <= i
         /\ FromEnd(l, i) # 1 => \E a \in Chained(l) :
              /\ i < a /\ \A j \in Chained(l) : j < a => j <= i
              /\ FromEnd(l, a) = FromEnd(l, i) - 1
<1> DEFINE C == Chained(l)
           From(k) == {j \in C : j >= k}
<1>1. C \in SUBSET (1..Len(l)) /\ IsFiniteSet(C) /\ Len(l) \in Nat
  BY Positions
<1> HIDE DEF C
<1>2. \A k : IsFiniteSet(From(k)) /\ Cardinality(From(k)) \in Nat
  BY <1>1, FS_Subset, FS_CardinalityType
<1>3. \A k : FromEnd(l, k) = Cardinality(From(k))
  BY DEF FromEnd, C
<1>4. i \in C /\ \A j \in C : j \in Nat
  BY <1>1 DEF C
<1>5. CASE \A j \in C : j <= i
  <2>1. From(i) = {i}
    <3>1. \A j \in C : j >= i <=> j = i
      BY <1>4, <1>5
    <3> QED BY <1>4, <3>1
  <2>2. Cardinality({i}) = 1
    BY FS_Singleton
  <2> QED BY <1>3, <1>5, <2>1, <2>2 DEF C
<1>6. CASE ~\A j \in C : j <= i
  <2>1. PICK k \in C : i < k
    BY <1>1, <1>4, <1>6
  <2>2. PICK a \in C : i < a /\ \A j \in C : i < j => a <= j
    BY <1>1, <1>4, <2>1, PositionAfter
  <2>3. \A j \in C : j >= i <=> (j >= a \/ j = i)
    BY <1>4, <2>2
  <2>4. From(i) = From(a) \cup {i}
    BY <1>4, <2>3
  <2>5. i \notin From(a) /\ a \in From(a)
    BY <1>4, <2>2
  <2>6. From(a) # {}
    BY <2>5
  <2> HIDE DEF From
  <2>7. Cardinality(From(i)) = Cardinality(From(a)) + 1
    <3>1. IsFiniteSet(From(a))
      BY <1>2
    <3>2. Cardinality(From(a) \cup {i}) = Cardinality(From(a)) + 1
      BY <2>5, <3>1, FS_AddElement
    <3> QED BY <2>4, <3>2
  <2>8. Cardinality(From(a)) \in Nat \ {0}
    BY <1>2, <2>6, FS_EmptySet
  <2>9. FromEnd(l, i) \in Nat \ {0, 1} /\ FromEnd(l, a) = FromEnd(l, i) - 1
    BY <1>3, <2>7, <2>8
  <2>10. \A j \in C : j < a => j <= i
    BY <1>4, <2>2
  <2> QED BY <2>2, <2>9, <2>10 DEF C
<1> QED BY <1>5, <1>6

Unbroken(l) == HashMismatch(l) = {} /\ PrevLinkMismatch(l) = {} /\ Invalid(l) = {}

LEMMA UnbrokenLines ==
  ASSUME NEW l \in Seq(Line), Unbroken(l)
  PROVE  /\ Hashed(l) = Chained(l)
         /\ \A i \in Chained(l) : i \in DOMAIN l /\ l[i] \in Line
                                 /\ l[i].hash = "ok" /\ l[i].form = "event"
<1>1. ASSUME NEW i \in DOMAIN l PROVE l[i] \in Line /\ l[i].form = "event"
  BY <1>1 DEF Unbroken, Invalid
<1>2. Hashed(l) = Chained(l)
  BY <1>1 DEF Hashed, Chained
<1>3. ASSUME NEW i \in Chained(l) PROVE i \in DOMAIN l /\ l[i].hash = "ok"
  <2>1. i \in DOMAIN l /\ l[i].hash # "none" /\ l[i] \in Line
    BY <1>1 DEF Chained, Hashed
  <2>2. l[i].hash \in {"ok", "bad", "none"}
    BY <2>1 DEF Line
  <2>3. l[i].hash # "bad"
    BY <1>3 DEF Unbroken, HashMismatch
  <2> QED BY <2>1, <2>2, <2>3
<1> QED BY <1>1, <1>2, <1>3

\* Two unbroken chains of the same length with the same tip are the same, when
\* an event_hash stands for one prev_hash.
LEMMA SameTipSameChain ==
  ASSUME NEW l \in Seq(Line), NEW m \in Seq(Line), Unbroken(l), Unbroken(m),
         ChainTip(l) = ChainTip(m), Cardinality(Chained(l)) = Cardinality(Chained(m)),
         \A i \in DOMAIN l, j \in DOMAIN m : l[i].id = m[j].id => l[i].prev = m[j].prev
  PROVE  SameChain(l, m)
<1> DEFINE Differ(i, j) == /\ i \in Chained(l) /\ j \in Chained(m)
                           /\ FromEnd(l, i) = FromEnd(m, j) /\ l[i] # m[j]
           D == {r \in Nat : \E i \in Chained(l), j \in Chained(m) :
                               Differ(i, j) /\ FromEnd(l, i) = r}
<1>0. \A e, f \in Line : e.id = f.id /\ e.prev = f.prev /\ e.hash = f.hash
                          /\ e.form = f.form => e = f
  BY DEF Line
<1>1. ASSUME NEW i \in Chained(l), NEW j \in Chained(m), l[i].id = m[j].id
      PROVE  l[i] = m[j]
  <2>1. /\ i \in DOMAIN l /\ l[i] \in Line /\ l[i].hash = "ok" /\ l[i].form = "event"
        /\ j \in DOMAIN m /\ m[j] \in Line /\ m[j].hash = "ok" /\ m[j].form = "event"
    BY UnbrokenLines
  <2>2. l[i].prev = m[j].prev
    BY <1>1, <2>1
  <2> QED BY <1>0, <1>1, <2>1, <2>2
<1>2. ASSUME NEW k \in Seq(Line), Unbroken(k), NEW i \in Chained(k),
             \A j \in Chained(k) : j <= i
      PROVE  k[i].id = ChainTip(k)
  <2>1. PICK t \in Hashed(k) : ChainTip(k) = k[t].id /\ \A j \in Hashed(k) : j <= t
    BY <1>2, Positions, UnbrokenLines
  <2>2. i \in Nat /\ t \in Nat /\ i <= t /\ t <= i
    BY <1>2, <2>1, Positions, UnbrokenLines
  <2> QED BY <2>1, <2>2
<1>3. D = {}
  <2> SUFFICES ASSUME D # {} PROVE FALSE
    OBVIOUS
  <2>1. D \in SUBSET Nat
    OBVIOUS
  <2>2. PICK r \in D : \A s \in D : r <= s
    BY <2>1, LeastOf
  <2>3. PICK i \in Chained(l), j \in Chained(m) : Differ(i, j) /\ FromEnd(l, i) = r
    BY <2>2
  <2> HIDE DEF D
  <2>4. r \in Nat \ {0} /\ FromEnd(m, j) = r /\ l[i] # m[j]
    BY <2>3, Rank
  <2>5. CASE r = 1
    <3>1. l[i].id = ChainTip(l) /\ m[j].id = ChainTip(m)
      BY <1>2, <2>3, <2>4, <2>5, Rank
    <3> QED BY <1>1, <2>4, <3>1
  <2>6. CASE r # 1
    <3>1. PICK a \in Chained(l) : /\ i < a /\ \A k \in Chained(l) : k < a => k <= i
                                  /\ FromEnd(l, a) = r - 1
      BY <2>3, <2>6, Rank
    <3>2. PICK b \in Chained(m) : /\ j < b /\ \A k \in Chained(m) : k < b => k <= j
                                  /\ FromEnd(m, b) = r - 1
      BY <2>4, <2>6, Rank
    <3>3. r - 1 \in Nat /\ r - 1 \notin D
      BY <2>2, <2>4
    <3>4. l[a] = m[b]
      BY <3>1, <3>2, <3>3 DEF D
    <3>5. l[a].prev = l[i].id /\ m[b].prev = m[j].id
      BY <3>1, <3>2, Linked DEF Unbroken
    <3> QED BY <1>1, <2>4, <3>4, <3>5
  <2> QED BY <2>5, <2>6
<1>4. ASSUME NEW i \in Chained(l), NEW j \in Chained(m), FromEnd(l, i) = FromEnd(m, j)
      PROVE  l[i] = m[j]
  <2>1. FromEnd(l, i) \in Nat
    BY Rank
  <2> QED BY <1>3, <1>4, <2>1
<1> QED BY <1>4 DEF SameChain

\* An unbroken chain that holds event T, and in which the events up to T link to
\* the one before them, holds every earlier event, except before its beginning.
LEMMA NothingMissing ==
  ASSUME NEW l \in Seq(Line), Unbroken(l), NEW T \in Nat, NEW t \in Nat, t <= T,
         NEW k0 \in Chained(l), l[k0].id = T,
         \A j \in DOMAIN l : l[j].id <= T => l[j].prev = l[j].id - 1
  PROVE  \/ \A k \in Chained(l) : l[k].id > t
         \/ \E k \in Chained(l) : l[k].id = t
<1> DEFINE C == Chained(l)
<1>1. C \in SUBSET (1..Len(l)) /\ Len(l) \in Nat
  BY Positions
<1>2. \A k \in C : k \in Nat /\ l[k].id \in Nat /\ (l[k].id <= T => l[k].prev = l[k].id - 1)
  BY <1>1, UnbrokenLines DEF Line
<1>3. ASSUME NEW a \in C, NEW b \in C, b < a, \A j \in C : j < a => j <= b
      PROVE  l[a].prev = l[b].id
  BY <1>3, Linked DEF Unbroken
<1>4. k0 \in C
  OBVIOUS
<1> HIDE DEF C
<1>5. \A k \in C : k > k0 => l[k].id > T
  <2> DEFINE B == {k \in C : k > k0 /\ l[k].id <= T}
  <2>1. SUFFICES ASSUME B # {} PROVE FALSE
    BY <1>2
  <2>2. B \in SUBSET Nat
    BY <1>2
  <2>3. PICK a \in B : \A j \in B : a <= j
    BY <2>1, <2>2, LeastOf
  <2>4. PICK b \in C : k0 <= b /\ b < a /\ \A j \in C : j < a => j <= b
    <3>1. a \in C /\ k0 < a
      BY <1>2, <1>4, <2>3
    <3> QED BY <1>1, <1>4, <3>1, PositionBefore
  <2>5. l[a].prev = l[b].id /\ l[a].prev = l[a].id - 1 /\ l[a].id <= T
    BY <1>2, <1>3, <2>3, <2>4
  <2>6. a \in Nat /\ l[a].id \in Nat /\ b \in Nat /\ l[b].id \in Nat /\ k0 \in Nat
    BY <1>2, <1>4, <2>3, <2>4
  <2>7. l[b].id < T
    BY <2>5, <2>6
  <2>8. b # k0
    BY <2>7
  <2>9. b > k0 /\ l[b].id <= T
    BY <2>4, <2>6, <2>7, <2>8
  <2>10. b \in B
    BY <2>4, <2>9
  <2>11. a <= b
    BY <2>3, <2>10
  <2> QED BY <2>4, <2>6, <2>11
<1>6. \A k \in C : k <= k0 => l[k].id <= T
  <2> DEFINE B == {k \in C : k <= k0 /\ l[k].id > T}
  <2>1. SUFFICES ASSUME B # {} PROVE FALSE
    BY <1>2
  <2>2. B \in SUBSET (1..Len(l))
    BY <1>1
  <2>3. Max(B) \in B /\ \A j \in B : j <= Max(B)
    BY <1>1, <2>1, <2>2, LastOf
  <2>4. PICK b \in B : \A j \in B : j <= b
    BY <2>3
  <2>5. b \in C /\ b < k0 /\ l[b].id > T
    BY <1>2, <1>4, <2>4
  <2>6. PICK a \in C : b < a /\ a <= k0 /\ \A j \in C : b < j => a <= j
    BY <1>1, <1>4, <2>5, PositionAfter
  <2>7. l[a].id <= T
    BY <1>2, <2>4, <2>5, <2>6
  <2>8. l[a].prev = l[b].id
    BY <1>2, <1>3, <2>5, <2>6
  <2> QED BY <1>2, <2>5, <2>6, <2>7, <2>8
<1>7. ASSUME NEW k1 \in C, l[k1].id <= t PROVE \E k \in C : l[k].id = t
  <2> DEFINE B == {k \in C : l[k].id <= t}
  <2>1. B \in SUBSET (1..Len(l)) /\ k1 \in B
    BY <1>1, <1>7
  <2>2. Max(B) \in B /\ \A j \in B : j <= Max(B)
    BY <1>1, <2>1, LastOf
  <2>3. PICK b \in B : \A j \in B : j <= b
    BY <2>2
  <2>4. b \in C /\ l[b].id <= t
    BY <2>3
  <2>5. b <= k0
    BY <1>2, <1>4, <1>5, <2>4
  <2>6. CASE b = k0
    BY <1>2, <1>4, <2>4, <2>6
  <2>7. CASE b < k0
    <3>1. PICK a \in C : b < a /\ a <= k0 /\ \A j \in C : b < j => a <= j
      BY <1>1, <1>4, <2>4, <2>7, PositionAfter
    <3>2. l[a].id > t /\ l[a].id <= T
      BY <1>2, <1>6, <2>3, <2>4, <3>1
    <3>3. l[a].prev = l[b].id
      BY <1>2, <1>3, <2>4, <3>1
    <3> QED BY <1>2, <2>4, <3>1, <3>2, <3>3
  <2> QED BY <1>2, <1>4, <2>4, <2>5, <2>6, <2>7
<1> QED BY <1>2, <1>7 DEF C
-----------------------------------------------------------------------------
(***************************************************************************)
(* The invariants.                                                         *)
(***************************************************************************)
Job == [command : Commands \cup {"none"}, log : Seq(Line), key : Nat, todo : SUBSET Urls,
        got : SUBSET Urls, options : Options \cup {{}},
        draft : Attestation \cup {NoAttestation}]

Labels == {"idle", "dead", "check", "keyring", "newKey", "truncate", "activate", "keyFile",
           "newKeyFile", "sealFile", "lock", "append", "unlock", "post", "write"}

\* What every variable holds.
TypeOK ==
  /\ log \in Seq(Line) /\ attested \in Seq(Line) /\ seals \in Seq(SealRecord)
  /\ keys \in SUBSET (Nat \ {0}) /\ active \in Int /\ legacyKey \in Nat /\ lastKey \in Nat
  /\ sealFile \in BOOLEAN /\ witnesses \in Seq(WitnessRecord)
  /\ anchors \in [Urls -> SUBSET Nat] /\ attestation \in Attestation \cup {NoAttestation}
  /\ lock \in [Files -> Lock] /\ pc \in [Procs -> Labels] /\ job \in [Procs -> Job]
  /\ passed \in BOOLEAN /\ keyWrites \in Nat /\ sealedSince \in BOOLEAN
  /\ plan \in [Commands -> Nat] /\ events \in Nat /\ damages \in Nat /\ faults \in Nat

\* What a command can be at each label, and that attest has its draft.
Flow(label, command) ==
  /\ label \in {"idle", "dead"} => command = "none"
  /\ label = "check" => command \in {"publish", "attest", "verify"}
  /\ label = "keyring" => command \in {"seal", "attest"}
  /\ label \in {"newKey", "truncate", "activate"} => command \in {"seal", "attest", "rotateKey"}
  /\ label \in {"keyFile", "newKeyFile"} => command = "sealKeyFile"
  /\ label = "sealFile" => command \in {"seal", "sealKeyFile"}
  /\ label \in {"lock", "append", "unlock"} => command \in {"seal", "sealKeyFile", "publish"}
  /\ label = "post" => command = "publish"
  /\ label = "write" => command = "attest"

FlowOK == \A p \in Procs :
  /\ Flow(pc[p], job[p].command)
  /\ job[p].command = "attest" => job[p].draft \in Attestation

\* A command that seals has its key: from the keyring, or the key file.
HoldsKey(p) ==
  /\ pc[p] \in {"truncate", "activate"} => job[p].key \in keys
  /\ pc[p] \in {"sealFile", "lock", "append"} /\ job[p].command = "seal" => job[p].key \in keys
  /\ pc[p] \in {"sealFile", "lock", "append"} /\ job[p].command = "sealKeyFile" =>
       job[p].key # 0 /\ (keyWrites <= 1 => job[p].key = legacyKey)
  /\ pc[p] \in {"lock", "append"} /\ job[p].command # "publish" => sealFile

KeysOK ==
  /\ keyWrites = 0 <=> legacyKey = 0
  /\ seals # <<>> => sealFile
  /\ \A p \in Procs : HoldsKey(p)
  /\ \A i \in Whole : seals[i].signer # 0
  /\ SealsVerify

\* The logs that the program still remembers, and what each of them is.
Seen == {log, attested} \cup {job[p].log : p \in Procs}
Known == 1..(events + damages)
Untouched(l) ==
  \A i \in DOMAIN l : l[i] = [id |-> i, prev |-> i - 1, hash |-> "ok", form |-> "event"]

LogsOK ==
  /\ \A l \in Seen : \A i \in DOMAIN l : l[i].id \in Known
  /\ \A l, m \in Seen : \A i \in DOMAIN l, j \in DOMAIN m :
       l[i].id = m[j].id => l[i].prev = m[j].prev
  /\ damages = 0 => Len(log) = events /\ \A l \in Seen : Len(l) <= events /\ Untouched(l)

\* A command that seals has read a chain; a seal is about an event that was
\* there, and, unless it was made after a damage, so are the events up to it.
SealsOK ==
  /\ \A p \in Procs : job[p].command \in {"seal", "sealKeyFile"} =>
       Chained(job[p].log) # {}
  /\ \A i \in Whole : seals[i].tip \in Known
  /\ faults = 0 => Whole = DOMAIN seals
  /\ ~sealedSince => \A i \in Whole, l \in Seen : \A j \in DOMAIN l :
       l[j].id <= seals[i].tip => l[j].prev = l[j].id - 1

\* An attestation that says pass is about an unbroken chain.
Vouches(a, l) ==
  a # NoAttestation /\ a.pass =>
    Unbroken(l) /\ a.tip = ChainTip(l) /\ a.count = Cardinality(Chained(l))

AttestOK ==
  /\ \A p \in Procs : Vouches(job[p].draft, job[p].log)
  /\ attestation # NoAttestation /\ attestation.intact => Vouches(attestation, attested)

IInv == TypeOK /\ FlowOK /\ KeysOK /\ LogsOK /\ SealsOK /\ AttestOK
-----------------------------------------------------------------------------
(***************************************************************************)
(* What the checks and the writes yield.                                   *)
(***************************************************************************)
LEMMA WorldFields ==
  ASSUME NEW p, NEW tooOld, NEW reachable
  PROVE  LET w == World(p, tooOld, reachable) IN
         /\ w.log = job[p].log /\ w.keys = keys /\ w.legacyKey = legacyKey
         /\ w.sealFile = sealFile /\ w.seals = seals /\ w.attestation = attestation
  BY DEF World

\* The latest seal is the last whole line of the file.
LEMMA Latest ==
  ASSUME NEW w, w.seals \in Seq(SealRecord), SealLines(w) # {}
  PROVE  /\ Max(SealLines(w)) \in SealLines(w) /\ LatestSeal(w) \in SealRecord
         /\ LatestSeal(w) = w.seals[Max(SealLines(w))]
         /\ \A i \in SealLines(w) : i <= Max(SealLines(w))
<1>1. SealLines(w) \in SUBSET (1..Len(w.seals)) /\ Len(w.seals) \in Nat
  BY DEF SealLines
<1>2. Max(SealLines(w)) \in SealLines(w) /\ \A i \in SealLines(w) : i <= Max(SealLines(w))
  BY <1>1, LastOf
<1>3. w.seals[Max(SealLines(w))] \in SealRecord
  BY <1>1, <1>2
<1> QED BY <1>2, <1>3 DEF LatestSeal

LEMMA SealTipType ==
  ASSUME TypeOK, NEW p, NEW tooOld, NEW reachable, NEW o
  PROVE  SealTip(o, World(p, tooOld, reachable)) \in Nat
<1> DEFINE w == World(p, tooOld, reachable)
<1>1. w.seals \in Seq(SealRecord)
  BY WorldFields DEF TypeOK
<1> HIDE DEF w
<1>2. CASE SealLines(w) = {}
  BY <1>2 DEF SealTip, SealSigned, w
<1>3. CASE SealLines(w) # {}
  <2>1. LatestSeal(w) \in SealRecord
    BY <1>1, <1>3, Latest
  <2>2. LatestSeal(w).tip \in Nat
    BY <2>1 DEF SealRecord
  <2> QED BY <2>2 DEF SealTip, w
<1> QED BY <1>2, <1>3

LEMMA AttestationType ==
  ASSUME TypeOK, NEW p \in Procs, NEW o, NEW tooOld, NEW reachable
  PROVE  AttestationOf(o, World(p, tooOld, reachable), 0) \in Attestation
<1> DEFINE w == World(p, tooOld, reachable)
<1>1. w.log \in Seq(Line)
  BY WorldFields DEF TypeOK, Job
<1>2. SealTip(o, w) \in Nat
  BY SealTipType
<1> HIDE DEF w
<1>3. ChainTip(w.log) \in Nat /\ Cardinality(Chained(w.log)) \in Nat
  BY <1>1, Positions
<1>4. WitnessTip(o, w) \in Nat
  BY <1>3 DEF WitnessTip
<1>5. runVerification(o, w) \in BOOLEAN
  BY DEF runVerification
<1>6. AttestationOf(o, w, 0) \in Attestation
  BY <1>2, <1>3, <1>4, <1>5 DEF AttestationOf, Attestation
<1> QED BY <1>6 DEF w

\* A damaged log: old lines, at most the last one with a new event_hash.
LEMMA DamagedLines ==
  ASSUME NEW l \in Seq(Line), l # <<>>, events + damages \in Nat, NEW m \in Damaged(l)
  PROVE  /\ m \in Seq(Line)
         /\ \A j \in DOMAIN m :
              \/ \E i \in DOMAIN l : m[j].id = l[i].id /\ m[j].prev = l[i].prev
              \/ j = Len(m) /\ m[j].id = events + damages + 1
<1>1. Len(l) \in Nat \ {0} /\ DOMAIN l = 1..Len(l) /\ events + damages + 1 \in Nat
  BY LenProperties, EmptySeq
<1>2. \A i \in DOMAIN l : l[i] \in Line
  OBVIOUS
<1>3. ASSUME NEW i \in DOMAIN l, NEW e \in Line, m = [l EXCEPT ![i] = e],
             e.id = l[i].id /\ e.prev = l[i].prev
      PROVE  /\ m \in Seq(Line)
             /\ \A j \in DOMAIN m : \E k \in DOMAIN l : m[j].id = l[k].id /\ m[j].prev = l[k].prev
  <2>1. m \in Seq(Line) /\ Len(m) = Len(l)
        /\ \A j \in 1..Len(l) : m[j] = IF j = i THEN e ELSE l[j]
    BY <1>1, <1>3, ExceptSeq
  <2>2. DOMAIN m = DOMAIN l
    BY <1>1, <2>1, LenProperties
  <2>3. ASSUME NEW j \in DOMAIN m PROVE m[j].id = l[j].id /\ m[j].prev = l[j].prev
    BY <1>1, <1>3, <2>1, <2>2
  <2> QED BY <2>1, <2>2, <2>3
<1>4. CASE m \in {[l EXCEPT ![i].hash = h] : i \in DOMAIN l, h \in {"bad", "none"}}
  <2>1. PICK i \in DOMAIN l, h \in {"bad", "none"} : m = [l EXCEPT ![i].hash = h]
    BY <1>4
  <2> DEFINE e == [l[i] EXCEPT !.hash = h]
  <2>2. e \in Line /\ e.id = l[i].id /\ e.prev = l[i].prev
    BY <1>2 DEF Line
  <2>3. m = [l EXCEPT ![i] = e]
    BY <2>1
  <2> HIDE DEF e
  <2> QED BY <1>3, <2>2, <2>3
<1>5. CASE m \in {[l EXCEPT ![i].form = f] : i \in DOMAIN l, f \in {"invalid", "corrupt"}}
  <2>1. PICK i \in DOMAIN l, f \in {"invalid", "corrupt"} : m = [l EXCEPT ![i].form = f]
    BY <1>5
  <2> DEFINE e == [l[i] EXCEPT !.form = f]
  <2>2. e \in Line /\ e.id = l[i].id /\ e.prev = l[i].prev
    BY <1>2 DEF Line
  <2>3. m = [l EXCEPT ![i] = e]
    BY <2>1
  <2> HIDE DEF e
  <2> QED BY <1>3, <2>2, <2>3
<1>6. CASE m \in {Cut(l, i, j) : i \in DOMAIN l, j \in DOMAIN l}
  <2>1. PICK i \in DOMAIN l, j \in DOMAIN l :
             m = Cut(l, i, j)
    BY <1>6
  <2> DEFINE a == SubSeq(l, 1, i - 1)
             b == SubSeq(l, j + 1, Len(l))
  <2>2. i \in 1..Len(l) /\ j \in 1..Len(l)
    BY <1>1
  <2>3. a \in Seq(Line) /\ \A k \in DOMAIN a : \E e \in DOMAIN l : a[k] = l[e]
    <3>1. \A k \in 1..(i - 1) : l[k] \in Line
      BY <1>1, <1>2, <2>2
    <3>2. /\ a \in Seq(Line) /\ Len(a) = IF 1 <= i - 1 THEN i - 1 ELSE 0
          /\ \A k \in 1..(i - 1) : a[k] = l[1 + k - 1]
      BY <2>2, <3>1, SubSeqProperties
    <3>3. DOMAIN a = 1..Len(a) /\ Len(a) \in Nat
      BY <3>2, LenProperties
    <3>4. ASSUME NEW k \in DOMAIN a PROVE k \in 1..(i - 1) /\ k \in 1..Len(l) /\ 1 + k - 1 = k
      BY <1>1, <2>2, <3>2, <3>3
    <3> QED BY <1>1, <3>2, <3>4
  <2>4. b \in Seq(Line) /\ \A k \in DOMAIN b : \E e \in DOMAIN l : b[k] = l[e]
    <3>1. \A k \in (j + 1)..Len(l) : l[k] \in Line
      BY <1>1, <1>2, <2>2
    <3>2. /\ b \in Seq(Line) /\ Len(b) = IF j + 1 <= Len(l) THEN Len(l) - (j + 1) + 1 ELSE 0
          /\ \A k \in 1..(Len(l) - (j + 1) + 1) : b[k] = l[(j + 1) + k - 1]
      <4>1. j + 1 \in Int /\ Len(l) \in Int
        BY <1>1, <2>2
      <4> QED BY <3>1, <4>1, SubSeqProperties
    <3>3. DOMAIN b = 1..Len(b) /\ Len(b) \in Nat
      BY <3>2, LenProperties
    <3>4. ASSUME NEW k \in DOMAIN b
          PROVE  k \in 1..(Len(l) - (j + 1) + 1) /\ (j + 1) + k - 1 \in 1..Len(l)
      BY <1>1, <2>2, <3>2, <3>3
    <3> QED BY <1>1, <3>2, <3>4
  <2> HIDE DEF a, b
  <2>5. m = a \o b
    BY <2>1 DEF a, b, Cut
  <2>6. /\ m \in Seq(Line) /\ Len(m) = Len(a) + Len(b)
        /\ \A k \in 1..(Len(a) + Len(b)) : m[k] = IF k <= Len(a) THEN a[k] ELSE b[k - Len(a)]
    BY <2>3, <2>4, <2>5, ConcatProperties, Zenon
  <2>7. DOMAIN m = 1..Len(m) /\ DOMAIN a = 1..Len(a) /\ DOMAIN b = 1..Len(b)
        /\ Len(a) \in Nat /\ Len(b) \in Nat
    BY <2>3, <2>4, <2>6, LenProperties
  <2>8. ASSUME NEW k \in DOMAIN m PROVE \E e \in DOMAIN l : m[k] = l[e]
    <3>1. CASE k <= Len(a)
      <4>1. k \in DOMAIN a /\ m[k] = a[k]
        BY <2>6, <2>7, <3>1
      <4> QED BY <2>3, <4>1
    <3>2. CASE ~(k <= Len(a))
      <4>1. k - Len(a) \in DOMAIN b /\ m[k] = b[k - Len(a)]
        BY <2>6, <2>7, <3>2
      <4> QED BY <2>4, <4>1
    <3> QED BY <3>1, <3>2
  <2> QED BY <2>6, <2>8
<1>7. CASE m = [l EXCEPT ![Len(l)].id = events + damages + 1]
  <2> DEFINE e == [l[Len(l)] EXCEPT !.id = events + damages + 1]
  <2>1. Len(l) \in 1..Len(l)
    BY <1>1
  <2>2. e \in Line /\ e.id = events + damages + 1
    BY <1>1, <1>2, <2>1 DEF Line
  <2>3. m = [l EXCEPT ![Len(l)] = e]
    BY <1>7
  <2> HIDE DEF e
  <2>4. m \in Seq(Line) /\ Len(m) = Len(l)
        /\ \A j \in 1..Len(l) : m[j] = IF j = Len(l) THEN e ELSE l[j]
    BY <2>1, <2>2, <2>3, ExceptSeq
  <2>5. DOMAIN m = DOMAIN l
    BY <1>1, <2>4, LenProperties
  <2>6. ASSUME NEW j \in DOMAIN m PROVE m[j] = l[j] \/ (j = Len(m) /\ m[j].id = events + damages + 1)
    BY <1>1, <2>2, <2>4, <2>5
  <2> QED BY <2>4, <2>5, <2>6
<1> DEFINE H == {[l EXCEPT ![i].hash = h] : i \in DOMAIN l, h \in {"bad", "none"}}
           F == {[l EXCEPT ![i].form = f] : i \in DOMAIN l, f \in {"invalid", "corrupt"}}
           P == {Cut(l, i, j) : i \in DOMAIN l, j \in DOMAIN l}
           R == [l EXCEPT ![Len(l)].id = events + damages + 1]
<1>8. Damaged(l) = H \cup F \cup P \cup {R}
  BY DEF Damaged
<1> HIDE DEF H, F, P, R
<1>9. m \in H \/ m \in F \/ m \in P \/ m = R
  BY <1>8
<1>10. CASE m \in H
  BY <1>4, <1>10 DEF H
<1>11. CASE m \in F
  BY <1>5, <1>11 DEF F
<1>12. CASE m \in P
  BY <1>6, <1>12 DEF P
<1>13. CASE m = R
  BY <1>7, <1>13 DEF R
<1> QED BY <1>9, <1>10, <1>11, <1>12, <1>13

LEMMA AppendedLine ==
  ASSUME NEW s \in Seq(SealRecord), NEW r \in SealRecord
  PROVE  LET t == AppendLine(s, r) IN
         /\ t \in Seq(SealRecord) /\ t # <<>>
         /\ \A i \in DOMAIN t : t[i].form = "seal" => (i \in DOMAIN s /\ t[i] = s[i]) \/ t[i] = r
         /\ (\A i \in DOMAIN s : s[i].form = "seal") => t = Append(s, r)
<1> DEFINE t == AppendLine(s, r)
<1>1. \A i \in DOMAIN s : s[i] \in SealRecord
  OBVIOUS
<1>2. CASE s # <<>> /\ s[Len(s)].form = "torn"
  <2>1. t = [s EXCEPT ![Len(s)].form = "corrupt"]
    BY <1>2 DEF AppendLine
  <2>2. Len(s) \in 1..Len(s) /\ DOMAIN s = 1..Len(s)
    BY <1>2, LenProperties, EmptySeq
  <2> DEFINE e == [s[Len(s)] EXCEPT !.form = "corrupt"]
  <2>3. e \in SealRecord /\ e.form = "corrupt"
    BY <1>1, <2>2 DEF SealRecord
  <2> HIDE DEF e
  <2>4. t = [s EXCEPT ![Len(s)] = e]
    BY <2>1 DEF e
  <2> HIDE DEF t
  <2>5. t \in Seq(SealRecord) /\ Len(t) = Len(s)
        /\ \A j \in 1..Len(s) : t[j] = IF j = Len(s) THEN e ELSE s[j]
    BY <2>2, <2>3, <2>4, ExceptSeq
  <2>6. DOMAIN t = DOMAIN s /\ t # <<>>
    <3>1. DOMAIN t = 1..Len(s)
      BY <2>5, LenProperties
    <3>2. DOMAIN <<>> = 1..0
      OBVIOUS
    <3> QED BY <2>2, <3>1, <3>2
  <2>7. \A i \in DOMAIN t : t[i].form = "seal" => i \in DOMAIN s /\ t[i] = s[i]
    BY <2>2, <2>3, <2>5, <2>6
  <2>8. ~\A i \in DOMAIN s : s[i].form = "seal"
    BY <1>2, <2>2
  <2> QED BY <2>5, <2>6, <2>7, <2>8 DEF t
<1>3. CASE ~(s # <<>> /\ s[Len(s)].form = "torn")
  <2>1. t = Append(s, r)
    BY <1>3 DEF AppendLine
  <2>2. Append(s, r) \in Seq(SealRecord) /\ Append(s, r) # <<>>
        /\ \A i \in DOMAIN Append(s, r) : (i \in DOMAIN s /\ Append(s, r)[i] = s[i])
                                          \/ Append(s, r)[i] = r
    OBVIOUS
  <2> QED BY <2>1, <2>2
<1> QED BY <1>2, <1>3
-----------------------------------------------------------------------------
(***************************************************************************)
(* Types.                                                                  *)
(***************************************************************************)
LEMMA JobFields ==
  ASSUME TypeOK, NEW p \in Procs
  PROVE  /\ job[p] \in Job /\ job[p].log \in Seq(Line) /\ job[p].key \in Nat
         /\ job[p].todo \in SUBSET Urls /\ job[p].got \in SUBSET Urls
         /\ job[p].draft \in Attestation \cup {NoAttestation}
         /\ Idle \in Job /\ ChainTip(job[p].log) \in Nat
         /\ Cardinality(Chained(job[p].log)) \in Nat
<1>1. job[p] \in Job
  BY DEF TypeOK
<1>2. <<>> \in Seq(Line)
  OBVIOUS
<1>3. Idle \in Job
  BY <1>2 DEF Idle, Job
<1>4. job[p].log \in Seq(Line)
  BY <1>1 DEF Job
<1> QED BY <1>1, <1>3, <1>4, Positions DEF Job

\* A command that moves on, and one that ends.
LEMMA GotoType ==
  ASSUME TypeOK, NEW p \in Procs, NEW label \in Labels, Goto(p, label)
  PROVE  pc' \in [Procs -> Labels]
  BY DEF TypeOK, Goto

LEMMA EndType ==
  ASSUME TypeOK, NEW p \in Procs, End(p)
  PROVE  pc' \in [Procs -> Labels] /\ job' \in [Procs -> Job]
<1>1. pc' \in [Procs -> Labels]
  BY GotoType DEF End, Labels
<1>2. job' \in [Procs -> Job]
  BY JobFields DEF TypeOK, End
<1> QED BY <1>1, <1>2

LEMMA WithKeyType ==
  ASSUME TypeOK, FlowOK, NEW p \in Procs, NEW key \in Nat, WithKey(p, key),
         pc[p] \in {"keyring", "keyFile", "newKeyFile"}
  PROVE  pc' \in [Procs -> Labels] /\ job' \in [Procs -> Job]
<1>1. job[p].command \in {"seal", "attest", "sealKeyFile"}
  BY DEF FlowOK, Flow
<1>2. AfterKey(p) \in Labels
  BY <1>1 DEF AfterKey, Labels
<1>3. [job[p] EXCEPT !.key = key] \in Job
  BY JobFields DEF Job
<1> QED BY <1>2, <1>3, GotoType DEF WithKey, TypeOK
LEMMA SealOfType ==
  ASSUME TypeOK, NEW p \in Procs
  PROVE  SealOf(p) \in SealRecord /\ [SealOf(p) EXCEPT !.form = "torn"] \in SealRecord
  BY JobFields DEF SealOf, SealRecord

LEMMA StartType ==
  ASSUME TypeOK, NEW p \in Procs, NEW command \in Commands,
         NEW options \in Options \cup {{}}, Start(p, command, options)
  PROVE  TypeOK'
<1>1. FirstStep(command) \in Labels
  BY DEF FirstStep, Labels
<1>2. NoLog \in Attestation
  BY DEF NoLog, Attestation
<1>3. Job0(command, options) \in Job
  <2>1. log \in Seq(Line) /\ <<>> \in Seq(Line)
    BY DEF TypeOK
  <2>2. (IF command = "rotateKey" THEN <<>> ELSE log) \in Seq(Line)
    BY <2>1
  <2>3. (IF command = "attest" THEN NoLog ELSE NoAttestation) \in Attestation \cup {NoAttestation}
    BY <1>2
  <2> QED BY <2>2, <2>3 DEF Job0, Job
<1>4. job' = [job EXCEPT ![p] = Job0(command, options)]
  BY DEF Start
<1>5. pc' \in [Procs -> Labels]
  BY <1>1, GotoType DEF Start
<1>6. plan' \in [Commands -> Nat]
  BY DEF Start, TypeOK
<1> QED BY <1>3, <1>4, <1>5, <1>6 DEF TypeOK, Start, keyring, trail, history

\* Every step of a command but its last writes.
LEMMA StepType ==
  ASSUME TypeOK, FlowOK, NEW p \in Procs, Step(p)
  PROVE  TypeOK'
<1>0. ChainTip(job[p].log) \in Nat
  BY JobFields
<1> USE JobFields
<1>1. ASSUME EnsureKeyring(p) PROVE TypeOK'
  <2>1. active \in keys => active \in Nat
    BY DEF TypeOK
  <2>2. pc' \in [Procs -> Labels] /\ job' \in [Procs -> Job]
    <3>1. CASE Goto(p, "newKey") /\ UNCHANGED job
      BY <3>1, GotoType DEF TypeOK, Labels
    <3>2. CASE active \in Nat /\ WithKey(p, active)
      BY <1>1, <3>2, WithKeyType DEF EnsureKeyring
    <3>3. CASE WithKey(p, legacyKey)
      <4>1. legacyKey \in Nat
        BY DEF TypeOK
      <4> QED BY <1>1, <3>3, <4>1, WithKeyType DEF EnsureKeyring
    <3>4. CASE End(p)
      BY <3>4, EndType
    <3> QED BY <1>1, <2>1, <3>1, <3>2, <3>3, <3>4 DEF EnsureKeyring
  <2> QED BY <1>1, <2>2 DEF EnsureKeyring, TypeOK, keyring, trail, history, counters
<1>2. ASSUME WriteKeyFile(p) PROVE TypeOK'
  <2>1. pc' \in [Procs -> Labels]
    BY <1>2, GotoType DEF WriteKeyFile, Labels
  <2>2. lastKey' \in Nat /\ keys' \in SUBSET (Nat \ {0}) /\ lastKey + 1 \in Nat
    BY <1>2 DEF WriteKeyFile, TypeOK
  <2>3. [job[p] EXCEPT !.key = lastKey + 1] \in Job
    BY <2>2 DEF Job
  <2>4. job' \in [Procs -> Job]
    BY <1>2, <2>3 DEF WriteKeyFile, TypeOK
  <2> QED BY <1>2, <2>1, <2>2, <2>4 DEF WriteKeyFile, TypeOK, trail, history
<1>3. ASSUME TruncateActive(p) PROVE TypeOK'
  <2>1. pc' \in [Procs -> Labels]
    BY <1>3, GotoType DEF TruncateActive, Labels
  <2> QED BY <1>3, <2>1 DEF TruncateActive, TypeOK, EMPTY, keyring, trail, history, counters
<1>4. ASSUME WriteActive(p) PROVE TypeOK'
  <2>1. CASE AfterKey(p) = "end"
    <3>1. End(p)
      BY <1>4, <2>1 DEF WriteActive
    <3>2. pc' \in [Procs -> Labels] /\ job' \in [Procs -> Job]
      BY <3>1, EndType
    <3> QED BY <1>4, <3>2 DEF WriteActive, TypeOK, keyring, trail, history, counters
  <2>2. CASE AfterKey(p) # "end"
    <3>1. AfterKey(p) \in Labels
      BY <2>2 DEF AfterKey, Labels
    <3>2. pc' \in [Procs -> Labels]
      BY <1>4, <2>2, <3>1, GotoType DEF WriteActive
    <3> QED BY <1>4, <2>2, <3>2 DEF WriteActive, TypeOK, keyring, trail, history, counters
  <2> QED BY <2>1, <2>2
<1>5. ASSUME ReadKeyFile(p) PROVE TypeOK'
  <2>1. legacyKey \in Nat
    BY DEF TypeOK
  <2>2. CASE legacyKey # 0
    <3>1. pc' \in [Procs -> Labels] /\ job' \in [Procs -> Job]
      BY <1>5, <2>1, <2>2, WithKeyType DEF ReadKeyFile
    <3> QED BY <1>5, <3>1 DEF ReadKeyFile, TypeOK, keyring, trail, history, counters
  <2>3. CASE legacyKey = 0
    <3>1. pc' \in [Procs -> Labels]
      BY <1>5, <2>3, GotoType DEF ReadKeyFile, Labels
    <3> QED BY <1>5, <2>3, <3>1 DEF ReadKeyFile, TypeOK, keyring, trail, history, counters
  <2> QED BY <2>2, <2>3
<1>6. ASSUME CreateKeyFile(p) PROVE TypeOK'
  <2>1. lastKey + 1 \in Nat /\ keyWrites + 1 \in Nat
    BY DEF TypeOK
  <2>2. pc' \in [Procs -> Labels] /\ job' \in [Procs -> Job]
    BY <1>6, <2>1, WithKeyType DEF CreateKeyFile
  <2> QED BY <1>6, <2>1, <2>2 DEF CreateKeyFile, TypeOK, trail
<1>7. ASSUME EnsureSealFile(p) PROVE TypeOK'
  <2>1. pc' \in [Procs -> Labels]
    BY <1>7, GotoType DEF EnsureSealFile, Labels
  <2> QED BY <1>7, <2>1 DEF EnsureSealFile, TypeOK, keyring, trail, history, counters
<1>8. Free \in Lock /\ [owner |-> p, old |-> FALSE] \in Lock /\ FileOf(p) \in Files
  BY DEF Free, Lock, FileOf, Files
<1>9. ASSUME TakeLock(p) PROVE TypeOK'
  <2>1. lock' \in [Files -> Lock]
    BY <1>8, <1>9 DEF TakeLock, TypeOK
  <2>2. pc' \in [Procs -> Labels]
    BY <1>9 DEF TakeLock, TypeOK, Goto, Labels
  <2> QED BY <1>9, <2>1, <2>2 DEF TakeLock, TypeOK, keyring, trail, history, counters
<1>10. ASSUME LockContention(p) PROVE TypeOK'
  <2>1. pc' \in [Procs -> Labels] /\ job' \in [Procs -> Job]
    BY <1>10, EndType DEF LockContention
  <2> QED BY <1>10, <2>1 DEF LockContention, TypeOK, keyring, trail, history, counters
<1>11. ASSUME Unlock(p) PROVE TypeOK'
  <2>1. pc' \in [Procs -> Labels] /\ job' \in [Procs -> Job]
    BY <1>11, EndType DEF Unlock
  <2>2. lock' \in [Files -> Lock]
    BY <1>8, <1>11 DEF Unlock, TypeOK
  <2> QED BY <1>11, <2>1, <2>2 DEF Unlock, TypeOK, keyring, trail, history, counters
<1>12. ASSUME AppendSeal(p) PROVE TypeOK'
  <2>1. pc' \in [Procs -> Labels]
    BY <1>12, GotoType DEF AppendSeal, Labels
  <2>2. seals' \in Seq(SealRecord)
    BY <1>12, SealOfType, AppendedLine DEF AppendSeal, TypeOK
  <2>3. sealedSince' \in BOOLEAN
    BY <1>12 DEF AppendSeal, TypeOK
  <2> QED BY <1>12, <2>1, <2>2, <2>3 DEF AppendSeal, TypeOK, keyring, trail, history, counters
<1>13. ASSUME CheckSeal(p) PROVE TypeOK'
  <2>1. CASE Goto(p, "post") /\ job' = [job EXCEPT ![p].todo = Urls]
    <3>1. pc' \in [Procs -> Labels]
      BY <2>1, GotoType DEF Labels
    <3>2. [job[p] EXCEPT !.todo = Urls] \in Job
      BY DEF Job
    <3>3. job' \in [Procs -> Job]
      BY <2>1, <3>2 DEF TypeOK
    <3> QED BY <1>13, <3>1, <3>3 DEF CheckSeal, TypeOK, keyring, trail, history, counters
  <2>2. CASE End(p)
    <3>1. pc' \in [Procs -> Labels] /\ job' \in [Procs -> Job]
      BY <2>2, EndType
    <3> QED BY <1>13, <3>1 DEF CheckSeal, TypeOK, keyring, trail, history, counters
  <2> QED BY <1>13, <2>1, <2>2 DEF CheckSeal
<1>14. ASSUME NEW u \in Urls, Post(p, u) PROVE TypeOK'
  <2>1. anchors' \in [Urls -> SUBSET Nat]
    <3>1. anchors[u] \cup {ChainTip(job[p].log)} \in SUBSET Nat
      BY <1>0 DEF TypeOK
    <3> QED BY <1>14, <3>1 DEF Post, TypeOK
  <2>2. [job[p] EXCEPT !.todo = @ \ {u}] \in Job
        /\ [job[p] EXCEPT !.todo = @ \ {u}, !.got = @ \cup {u}] \in Job
    BY DEF Job
  <2>3. job' \in [Procs -> Job]
    BY <1>14, <2>2 DEF Post, TypeOK
  <2>4. faults' \in Nat
    BY <1>14 DEF Post, TypeOK, Fault
  <2> QED BY <1>14, <2>1, <2>3, <2>4 DEF Post, TypeOK, keyring, trail, history, counters
<1>15. ASSUME NEW u \in Urls, AppendWitness(p, u) PROVE TypeOK'
  <2>1. [tip |-> ChainTip(job[p].log), count |-> Cardinality(Chained(job[p].log)), url |-> u]
          \in WitnessRecord
    BY DEF WitnessRecord
  <2>2. witnesses' \in Seq(WitnessRecord)
    BY <1>15, <2>1 DEF AppendWitness, TypeOK
  <2>3. [job[p] EXCEPT !.got = @ \ {u}] \in Job
    BY DEF Job
  <2>4. job' \in [Procs -> Job]
    BY <1>15, <2>3 DEF AppendWitness, TypeOK
  <2>5. pc' \in [Procs -> Labels]
    BY <1>15, GotoType DEF AppendWitness, TypeOK, Labels
  <2> QED BY <1>15, <2>2, <2>4, <2>5 DEF AppendWitness, TypeOK, keyring, trail, history, counters
<1>16. ASSUME Posted(p) PROVE TypeOK'
  <2>1. CASE End(p)
    <3>1. pc' \in [Procs -> Labels] /\ job' \in [Procs -> Job]
      BY <2>1, EndType
    <3> QED BY <1>16, <3>1 DEF Posted, TypeOK, keyring, trail, history, counters
  <2>2. CASE Goto(p, "lock") /\ UNCHANGED job
    <3>1. pc' \in [Procs -> Labels]
      BY <2>2, GotoType DEF Labels
    <3> QED BY <1>16, <2>2, <3>1 DEF Posted, TypeOK, keyring, trail, history, counters
  <2> QED BY <1>16, <2>1, <2>2 DEF Posted
<1>17. ASSUME NEW tooOld, NEW r, Verify(p, tooOld, r) PROVE TypeOK'
  <2>1. pc' \in [Procs -> Labels] /\ job' \in [Procs -> Job]
    BY <1>17, EndType DEF Verify
  <2>2. passed' \in BOOLEAN
    BY <1>17 DEF Verify, runVerification
  <2> QED BY <1>17, <2>1, <2>2 DEF Verify, TypeOK, keyring, trail, history, counters
<1>18. ASSUME NEW tooOld, Attest(p, tooOld) PROVE TypeOK'
  <2>1. pc' \in [Procs -> Labels]
    BY <1>18, GotoType DEF Attest, Labels
  <2> DEFINE a == AttestationOf(AttestOptions(job[p].options), World(p, tooOld, {}), 0)
  <2>2. a \in Attestation
    BY AttestationType
  <2>3. job' = [job EXCEPT ![p].draft = a]
    BY <1>18 DEF Attest
  <2> HIDE DEF a
  <2>4. [job[p] EXCEPT !.draft = a] \in Job
    BY <2>2 DEF Job
  <2>5. job' \in [Procs -> Job]
    BY <2>3, <2>4 DEF TypeOK
  <2> QED BY <1>18, <2>1, <2>5 DEF Attest, TypeOK, keyring, trail, history, counters
<1>19. ASSUME WriteAttestation(p) PROVE TypeOK'
  <2>1. pc' \in [Procs -> Labels] /\ job' \in [Procs -> Job]
    BY <1>19, EndType DEF WriteAttestation
  <2>2. job[p].draft \in Attestation /\ job[p].key \in Nat
    BY <1>19 DEF WriteAttestation, FlowOK, Flow
  <2>3. attestation' \in Attestation
    BY <1>19, <2>2 DEF WriteAttestation, Attestation
  <2> QED BY <1>19, <2>1, <2>3 DEF WriteAttestation, TypeOK, keyring, trail, history, counters
<1>20. ASSUME Die(p) PROVE TypeOK'
  <2>1. pc' \in [Procs -> Labels] /\ job' \in [Procs -> Job]
    BY <1>20, GotoType DEF Die, Labels, TypeOK
  <2>2. seals' \in Seq(SealRecord)
    BY <1>20, SealOfType, AppendedLine DEF Die, TypeOK
  <2>3. attestation' \in Attestation \cup {NoAttestation}
    <3>1. pc[p] = "write" => job[p].draft \in Attestation
      BY DEF FlowOK, Flow
    <3> QED BY <1>20, <3>1 DEF Die, TypeOK, Attestation
  <2>4. faults' \in Nat
    <3>1. Fault
      BY <1>20, Zenon DEF Die
    <3> QED BY <3>1 DEF Fault, TypeOK
  <2> QED BY <1>20, <2>1, <2>2, <2>3, <2>4 DEF Die, TypeOK, keyring, trail, history, counters
<1> QED
  BY <1>1, <1>2, <1>3, <1>4, <1>5, <1>6, <1>7, <1>9, <1>10, <1>11, <1>12, <1>13, <1>14,
     <1>15, <1>16, <1>17, <1>18, <1>19, <1>20, Zenon DEF Step
-----------------------------------------------------------------------------
(***************************************************************************)
(* What a step of a command leaves alone.                                  *)
(***************************************************************************)
\* Process p drew up an attestation.
Attests(p) == \E tooOld : Attest(p, tooOld)

\* Process p went on, or is done.
Moved(p) ==
  /\ log' = log /\ events' = events /\ damages' = damages
  /\ \A q \in Procs \ {p} : pc'[q] = pc[q] /\ job'[q] = job[q]
  /\ Flow(pc'[p], job'[p].command)
  /\ \/ job'[p] = Idle
     \/ /\ job'[p].command = job[p].command /\ job'[p].log = job[p].log
        /\ Attests(p) \/ job'[p].draft = job[p].draft

LEMMA StepShape ==
  ASSUME TypeOK, FlowOK, NEW p \in Procs, Step(p)
  PROVE  Moved(p)
<1>1. /\ pc \in [Procs -> Labels] /\ job \in [Procs -> Job] /\ job[p] \in Job
      /\ Flow(pc[p], job[p].command)
  BY JobFields DEF TypeOK, FlowOK
<1>2. ASSUME EnsureKeyring(p) PROVE Moved(p)
  <2>1. CASE Goto(p, "newKey") /\ UNCHANGED job
    BY <1>1, <1>2, <2>1 DEF EnsureKeyring, Moved, Flow, Goto, End, Idle, Job, Labels, history, counters
  <2>2. CASE \E key : WithKey(p, key)
    BY <1>1, <1>2, <2>2 DEF EnsureKeyring, WithKey, AfterKey, Moved, Flow, Goto, End, Idle, Job, Labels, history, counters
  <2>3. CASE End(p)
    BY <1>1, <1>2, <2>3 DEF EnsureKeyring, Moved, Flow, Goto, End, Idle, Job, Labels, history, counters
  <2> QED BY <1>2, <2>1, <2>2, <2>3 DEF EnsureKeyring
<1>3. ASSUME WriteKeyFile(p) PROVE Moved(p)
  BY <1>1, <1>3 DEF WriteKeyFile, Moved, Flow, Goto, End, Idle, Job, Labels, history, counters
<1>4. ASSUME TruncateActive(p) PROVE Moved(p)
  BY <1>1, <1>4 DEF TruncateActive, Moved, Flow, Goto, End, Idle, Job, Labels, history, counters
<1>5. ASSUME WriteActive(p) PROVE Moved(p)
  <2>1. CASE End(p)
    BY <1>1, <1>5, <2>1 DEF WriteActive, Moved, Flow, Goto, End, Idle, Job, Labels, history, counters
  <2>2. CASE Goto(p, AfterKey(p)) /\ UNCHANGED job /\ AfterKey(p) # "end"
    BY <1>1, <1>5, <2>2 DEF WriteActive, AfterKey, Moved, Flow, Goto, End, Idle, Job, Labels, history, counters
  <2> QED BY <1>5, <2>1, <2>2 DEF WriteActive
<1>6. ASSUME ReadKeyFile(p) PROVE Moved(p)
  BY <1>1, <1>6 DEF ReadKeyFile, WithKey, AfterKey, Moved, Flow, Goto, End, Idle, Job, Labels, history, counters
<1>7. ASSUME CreateKeyFile(p) PROVE Moved(p)
  BY <1>1, <1>7 DEF CreateKeyFile, WithKey, AfterKey, Moved, Flow, Goto, End, Idle, Job, Labels, history, counters
<1>8. ASSUME EnsureSealFile(p) PROVE Moved(p)
  BY <1>1, <1>8 DEF EnsureSealFile, Moved, Flow, Goto, End, Idle, Job, Labels, history, counters
<1>9. ASSUME TakeLock(p) PROVE Moved(p)
  BY <1>1, <1>9 DEF TakeLock, Moved, Flow, Goto, End, Idle, Job, Labels, history, counters
<1>10. ASSUME LockContention(p) PROVE Moved(p)
  BY <1>1, <1>10 DEF LockContention, Moved, Flow, Goto, End, Idle, Job, Labels, history, counters
<1>11. ASSUME Unlock(p) PROVE Moved(p)
  BY <1>1, <1>11 DEF Unlock, Moved, Flow, Goto, End, Idle, Job, Labels, history, counters
<1>12. ASSUME AppendSeal(p) PROVE Moved(p)
  BY <1>1, <1>12 DEF AppendSeal, FileOf, Moved, Flow, Goto, End, Idle, Job, Labels, history, counters
<1>13. ASSUME CheckSeal(p) PROVE Moved(p)
  <2>1. CASE Goto(p, "post") /\ job' = [job EXCEPT ![p].todo = Urls]
    BY <1>1, <1>13, <2>1 DEF CheckSeal, Moved, Flow, Goto, End, Idle, Job, Labels, history, counters
  <2>2. CASE End(p)
    BY <1>1, <1>13, <2>2 DEF CheckSeal, Moved, Flow, Goto, End, Idle, Job, Labels, history, counters
  <2> QED BY <1>13, <2>1, <2>2 DEF CheckSeal
<1>14. ASSUME NEW u \in Urls, Post(p, u) PROVE Moved(p)
  BY <1>1, <1>14 DEF Post, Moved, Flow, Goto, End, Idle, Job, Labels, history, counters
<1>15. ASSUME NEW u \in Urls, AppendWitness(p, u) PROVE Moved(p)
  BY <1>1, <1>15 DEF AppendWitness, FileOf, Moved, Flow, Goto, End, Idle, Job, Labels, history, counters
<1>16. ASSUME Posted(p) PROVE Moved(p)
  <2>1. CASE Goto(p, "lock") /\ UNCHANGED job
    BY <1>1, <1>16, <2>1 DEF Posted, Moved, Flow, Goto, End, Idle, Job, Labels, history, counters
  <2>2. CASE End(p)
    BY <1>1, <1>16, <2>2 DEF Posted, Moved, Flow, Goto, End, Idle, Job, Labels, history, counters
  <2> QED BY <1>16, <2>1, <2>2 DEF Posted
<1>17. ASSUME NEW tooOld, NEW r, Verify(p, tooOld, r) PROVE Moved(p)
  BY <1>1, <1>17 DEF Verify, Moved, Flow, Goto, End, Idle, Job, Labels, history, counters
<1>18. ASSUME NEW tooOld, Attest(p, tooOld) PROVE Moved(p)
  <2>1. Attests(p)
    BY <1>18 DEF Attests
  <2> QED BY <1>1, <1>18, <2>1 DEF Attest, Moved, Flow, Goto, End, Idle, Job, Labels, history, counters
<1>19. ASSUME WriteAttestation(p) PROVE Moved(p)
  BY <1>1, <1>19 DEF WriteAttestation, Moved, Flow, Goto, End, Idle, Job, Labels, history, counters
<1>20. ASSUME Die(p) PROVE Moved(p)
  BY <1>1, <1>20 DEF Die, Moved, Flow, Goto, End, Idle, Job, Labels, history, counters
<1> QED
  BY <1>2, <1>3, <1>4, <1>5, <1>6, <1>7, <1>8, <1>9, <1>10, <1>11, <1>12,
     <1>13, <1>14, <1>15, <1>16, <1>17, <1>18, <1>19, <1>20, Zenon DEF Step
LEMMA StartShape ==
  ASSUME TypeOK, NEW p \in Procs, NEW command \in Commands,
         NEW options \in Options \cup {{}}, Start(p, command, options)
  PROVE  /\ log' = log /\ events' = events /\ damages' = damages
         /\ \A q \in Procs \ {p} : pc'[q] = pc[q] /\ job'[q] = job[q]
         /\ job'[p] = Job0(command, options) /\ pc'[p] = FirstStep(command)
         /\ pc'[p] \in {"keyring", "keyFile", "newKey", "check"}
         /\ Flow(pc'[p], command)
         /\ job'[p].command = command /\ job'[p].log \in {log, <<>>}
         /\ command \in {"seal", "sealKeyFile"} => job'[p].log = log /\ Chained(log) # {}
         /\ job'[p].draft \in {NoLog, NoAttestation}
         /\ command = "attest" => job'[p].draft = NoLog
<1>1. pc \in [Procs -> Labels] /\ job \in [Procs -> Job]
  BY DEF TypeOK
<1>2. /\ pc' = [pc EXCEPT ![p] = FirstStep(command)]
      /\ job' = [job EXCEPT ![p] = Job0(command, options)]
      /\ log' = log /\ events' = events /\ damages' = damages /\ ~Refused(command)
  BY DEF Start, Goto
<1>3. FirstStep(command) \in {"keyring", "keyFile", "newKey", "check"} /\ Flow(FirstStep(command), command)
  BY DEF FirstStep, Flow, Commands
<1>4. command \in {"seal", "sealKeyFile"} => Chained(log) # {}
  BY <1>2 DEF Refused, SealRefused
<1>5. /\ Job0(command, options).command = command
      /\ Job0(command, options).log \in {log, <<>>}
      /\ command \in {"seal", "sealKeyFile"} => Job0(command, options).log = log
      /\ Job0(command, options).draft \in {NoLog, NoAttestation}
      /\ command = "attest" => Job0(command, options).draft = NoLog
  BY DEF Job0
<1>6. job'[p] = Job0(command, options) /\ pc'[p] = FirstStep(command)
      /\ \A q \in Procs \ {p} : pc'[q] = pc[q] /\ job'[q] = job[q]
  BY <1>1, <1>2
<1> QED BY <1>2, <1>3, <1>4, <1>5, <1>6

TypeFlow == TypeOK /\ FlowOK

LEMMA TypeFlowStep ==
  ASSUME TypeFlow, [Next]_vars
  PROVE  TypeFlow'
<1> USE DEF TypeFlow
<1>1. CASE AppendEvent
  <2>1. events + damages + 1 \in Nat /\ ChainTip(log) \in Nat /\ events' \in Nat
    BY <1>1, Positions DEF TypeOK, AppendEvent
  <2>2. log' \in Seq(Line)
    BY <1>1, <2>1 DEF AppendEvent, TypeOK, Line
  <2>3. UNCHANGED <<keyring, trail, pc, job, history, plan, lastKey, damages, faults>>
    BY <1>1 DEF AppendEvent
  <2>4. TypeOK'
    BY <2>1, <2>2, <2>3 DEF TypeOK, keyring, trail, history
  <2>5. FlowOK'
    BY <2>3 DEF FlowOK
  <2> QED BY <2>4, <2>5
<1>2. CASE Damage
  <2>1. log' \in Seq(Line)
    BY <1>2, DamagedLines DEF Damage, TypeOK
  <2>2. damages' \in Nat
    BY <1>2 DEF Damage, TypeOK
  <2>3. UNCHANGED <<keyring, trail, pc, job, history, events, lastKey, plan, faults>>
    BY <1>2 DEF Damage
  <2>4. TypeOK'
    BY <2>1, <2>2, <2>3 DEF TypeOK, keyring, trail, history
  <2>5. FlowOK'
    BY <2>3 DEF FlowOK
  <2> QED BY <2>4, <2>5
<1>3. ASSUME NEW p \in Procs, NEW c \in Commands, NEW o \in Options \cup {{}}, Start(p, c, o)
      PROVE  TypeFlow'
  <2>1. TypeOK'
    BY <1>3, StartType
  <2>2. NoLog \in Attestation
    BY DEF NoLog, Attestation
  <2>3. \A q \in Procs : Flow(pc'[q], job'[q].command)
                        /\ (job'[q].command = "attest" => job'[q].draft \in Attestation)
    BY <1>3, <2>2, StartShape DEF FlowOK
  <2> QED BY <2>1, <2>3 DEF FlowOK
<1>4. ASSUME NEW p \in Procs, Step(p)
      PROVE  TypeFlow'
  <2>1. TypeOK' /\ Moved(p)
    BY <1>4, StepType, StepShape
  <2>2. \A q \in Procs : Flow(pc'[q], job'[q].command)
    BY <2>1 DEF Moved, FlowOK
  <2>3. ASSUME NEW q \in Procs, job'[q].command = "attest" PROVE job'[q].draft \in Attestation
    <3>1. CASE q # p
      BY <2>1, <2>3, <3>1 DEF Moved, FlowOK
    <3>2. CASE q = p /\ Attests(p)
      <4>1. PICK tooOld : Attest(p, tooOld)
        BY <3>2 DEF Attests
      <4>2. AttestationOf(AttestOptions(job[p].options), World(p, tooOld, {}), 0) \in Attestation
        BY AttestationType
      <4>3. job'[p].draft = AttestationOf(AttestOptions(job[p].options), World(p, tooOld, {}), 0)
        BY <4>1, JobFields DEF Attest, TypeOK, Job
      <4> QED BY <3>2, <4>2, <4>3
    <3>3. CASE q = p /\ job'[p] # Idle /\ ~Attests(p)
      BY <2>1, <2>3, <3>3 DEF Moved, FlowOK
    <3>4. CASE q = p /\ job'[p] = Idle
      BY <2>3, <3>4 DEF Idle
    <3> QED BY <3>1, <3>2, <3>3, <3>4
  <2> QED BY <2>1, <2>2, <2>3 DEF FlowOK
<1>5. ASSUME NEW f \in Files, LockAges(f)
      PROVE  TypeFlow'
  <2>1. lock' \in [Files -> Lock] /\ faults' \in Nat
    <3>1. lock[f] \in Lock
      BY DEF TypeOK
    <3>2. [lock[f] EXCEPT !.old = TRUE] \in Lock
      BY <3>1 DEF Lock
    <3> QED BY <1>5, <3>2 DEF LockAges, TypeOK, Fault
  <2>2. TypeOK'
    BY <1>5, <2>1 DEF LockAges, TypeOK, keyring, history
  <2>3. FlowOK'
    BY <1>5 DEF LockAges, FlowOK
  <2> QED BY <2>2, <2>3
<1>6. CASE UNCHANGED vars
  BY <1>6 DEF vars, TypeOK, FlowOK, keyring, trail, history, counters
<1> QED BY <1>1, <1>2, <1>3, <1>4, <1>5, <1>6 DEF Next, Commands

LEMMA TypeFlowInit ==
  ASSUME Init
  PROVE  TypeFlow
<1>1. <<>> \in Seq(Line) /\ <<>> \in Seq(SealRecord) /\ <<>> \in Seq(WitnessRecord)
  OBVIOUS
<1>2. Idle \in Job /\ Idle.command = "none"
  BY <1>1 DEF Idle, Job
<1>3. Free \in Lock
  BY DEF Free, Lock
<1>4. TypeOK
  <2>1. plan \in [Commands -> Nat]
    BY TrustAssumption DEF Init
  <2>2. /\ anchors \in [Urls -> SUBSET Nat] /\ lock \in [Files -> Lock]
        /\ pc \in [Procs -> Labels] /\ job \in [Procs -> Job]
    BY <1>2, <1>3 DEF Init, Labels
  <2>3. /\ keys \in SUBSET (Nat \ {0}) /\ active \in Int /\ legacyKey \in Nat /\ lastKey \in Nat
        /\ keyWrites \in Nat /\ events \in Nat /\ damages \in Nat /\ faults \in Nat
    BY SMT DEF Init, NONE
  <2>5. /\ sealFile \in BOOLEAN /\ passed \in BOOLEAN /\ sealedSince \in BOOLEAN
        /\ attestation \in Attestation \cup {NoAttestation}
    BY Zenon DEF Init
  <2>4. /\ log \in Seq(Line) /\ attested \in Seq(Line) /\ seals \in Seq(SealRecord)
        /\ witnesses \in Seq(WitnessRecord)
    BY <1>1 DEF Init
  <2> QED BY <2>1, <2>2, <2>3, <2>4, <2>5 DEF TypeOK
<1>5. FlowOK
  BY <1>2 DEF Init, FlowOK, Flow
<1> QED BY <1>4, <1>5 DEF TypeFlow
-----------------------------------------------------------------------------
(***************************************************************************)
(* Keys.                                                                   *)
(***************************************************************************)
\* A step in which no key file is made and no seal appended.
LEMMA KeysKept ==
  ASSUME TypeFlow, KeysOK, keys \subseteq keys', legacyKey' = legacyKey, keyWrites' = keyWrites,
         sealFile => sealFile', seals' = seals, \A p \in Procs : HoldsKey(p)'
  PROVE  KeysOK'
<1>1. SealsVerify'
  BY DEF KeysOK, SealsVerify
<1> QED BY <1>1 DEF KeysOK, Whole

LEMMA KeysStep ==
  ASSUME TypeFlow, KeysOK, [Next]_vars
  PROVE  KeysOK'
<1> USE DEF TypeFlow
<1>1. CASE UNCHANGED <<pc, job, keyring, history, sealFile, seals>>
  <2>1. \A p \in Procs : HoldsKey(p)'
    BY <1>1 DEF KeysOK, HoldsKey, keyring, history
  <2> QED BY <1>1, <2>1, KeysKept DEF keyring, history
<1>2. ASSUME NEW p \in Procs, NEW c \in Commands, NEW o \in Options \cup {{}}, Start(p, c, o)
      PROVE  KeysOK'
  <2>1. UNCHANGED <<keyring, trail, history>>
    BY <1>2 DEF Start
  <2>2. \A q \in Procs : HoldsKey(q)'
    <3> TAKE q \in Procs
    <3>1. CASE q = p
      BY <1>2, <3>1, StartShape DEF HoldsKey
    <3>2. CASE q # p
      BY <1>2, <2>1, <3>2, StartShape DEF HoldsKey, KeysOK, keyring, trail, history
    <3> QED BY <3>1, <3>2
  <2> QED BY <2>1, <2>2, KeysKept DEF keyring, trail, history
<1>3. ASSUME NEW p \in Procs, Step(p)
      PROVE  KeysOK'
  <2>1. Moved(p) /\ HoldsKey(p) /\ Flow(pc[p], job[p].command)
    BY <1>3, StepShape DEF KeysOK, FlowOK
  <2>2. pc \in [Procs -> Labels] /\ job \in [Procs -> Job] /\ job[p] \in Job
    BY JobFields DEF TypeOK
  <2> USE DEF Goto, End
  \* The other processes keep their keys when the keys stay or are added to.
  <2>3. ASSUME UNCHANGED <<keyring, keyWrites, sealFile, seals>>, HoldsKey(p)' PROVE KeysOK'
    <3>1. \A q \in Procs : HoldsKey(q)'
      BY <2>1, <2>3 DEF HoldsKey, KeysOK, Moved, keyring
    <3> QED BY <2>3, <3>1, KeysKept DEF keyring
  <2>4. ASSUME UNCHANGED <<keyring, keyWrites, sealFile, seals>>,
               pc'[p] \notin {"truncate", "activate", "sealFile", "lock", "append"}
        PROVE  KeysOK'
    BY <2>3, <2>4 DEF HoldsKey
  <2>5. ASSUME EnsureKeyring(p) PROVE KeysOK'
    <3>1. UNCHANGED <<keyring, keyWrites, sealFile, seals>>
      BY <2>5 DEF EnsureKeyring, history, trail
    <3>2. CASE WithKey(p, active) /\ active \in keys
      <4>1. job'[p].key = active /\ job'[p].command = job[p].command
            /\ job[p].command \in {"seal", "attest"}
            /\ pc'[p] \in {"write", "sealFile"}
        BY <2>1, <2>2, <2>5, <3>2 DEF WithKey, AfterKey, EnsureKeyring, Flow, Job
      <4>2. HoldsKey(p)'
        BY <3>1, <3>2, <4>1 DEF HoldsKey, keyring
      <4> QED BY <2>3, <3>1, <4>2
    <3>3. CASE Goto(p, "newKey")
      BY <2>2, <2>4, <3>1, <3>3
    <3>4. CASE WithKey(p, legacyKey) /\ job[p].command = "attest"
      <4>1. pc'[p] = "write"
        BY <2>2, <3>4 DEF WithKey, AfterKey
      <4> QED BY <2>4, <3>1, <4>1
    <3>5. CASE End(p)
      BY <2>2, <2>4, <3>1, <3>5
    <3> QED BY <2>5, <3>2, <3>3, <3>4, <3>5 DEF EnsureKeyring
  <2>6. ASSUME WriteKeyFile(p) PROVE KeysOK'
    <3>1. /\ keys' = keys \cup {lastKey + 1} /\ job'[p].key = lastKey + 1 /\ pc'[p] = "truncate"
          /\ UNCHANGED <<legacyKey, sealFile, seals, keyWrites>>
      BY <2>2, <2>6 DEF WriteKeyFile, trail, history, Job
    <3>2. \A q \in Procs : HoldsKey(q)'
      BY <2>1, <3>1 DEF HoldsKey, KeysOK, Moved
    <3> QED BY <3>1, <3>2, KeysKept
  <2>7. ASSUME TruncateActive(p) PROVE KeysOK'
    <3>1. /\ UNCHANGED <<keys, legacyKey, sealFile, seals, keyWrites, job>> /\ pc'[p] = "activate"
          /\ pc[p] = "truncate"
      BY <2>2, <2>7 DEF TruncateActive, trail, history
    <3>2. \A q \in Procs : HoldsKey(q)'
      BY <2>1, <3>1 DEF HoldsKey, KeysOK, Moved
    <3> QED BY <3>1, <3>2, KeysKept
  <2>8. ASSUME WriteActive(p) PROVE KeysOK'
    <3>1. UNCHANGED <<keys, legacyKey, sealFile, seals, keyWrites>> /\ pc[p] = "activate"
      BY <2>8 DEF WriteActive, trail, history
    <3>2. HoldsKey(p)'
      <4>1. CASE pc'[p] = "idle"
        BY <4>1 DEF HoldsKey
      <4>2. CASE pc'[p] \in {"write", "sealFile"} /\ job' = job
                 /\ job[p].command \in {"seal", "attest"}
        BY <2>1, <3>1, <4>2 DEF HoldsKey
      <4>3. job[p].command \in {"seal", "attest", "rotateKey"}
        BY <2>1, <3>1 DEF Flow
      <4> QED BY <2>2, <2>8, <4>1, <4>2, <4>3 DEF WriteActive, AfterKey
    <3>3. \A q \in Procs : HoldsKey(q)'
      BY <2>1, <3>1, <3>2 DEF HoldsKey, KeysOK, Moved
    <3> QED BY <3>1, <3>3, KeysKept
  <2>9. ASSUME ReadKeyFile(p) PROVE KeysOK'
    <3>1. UNCHANGED <<keyring, keyWrites, sealFile, seals>>
      BY <2>9 DEF ReadKeyFile, history, trail
    <3>2. CASE legacyKey # 0
      <4>1. job'[p].key = legacyKey /\ job'[p].command = "sealKeyFile" /\ pc'[p] = "sealFile"
        BY <2>1, <2>2, <2>9, <3>2 DEF ReadKeyFile, WithKey, AfterKey, Flow, Job
      <4>2. HoldsKey(p)'
        BY <3>1, <3>2, <4>1 DEF HoldsKey, keyring
      <4> QED BY <2>3, <3>1, <4>2
    <3>3. CASE legacyKey = 0
      <4>1. pc'[p] = "newKeyFile"
        BY <2>2, <2>9, <3>3 DEF ReadKeyFile
      <4> QED BY <2>4, <3>1, <4>1
    <3> QED BY <3>2, <3>3
  <2>10. ASSUME CreateKeyFile(p) PROVE KeysOK'
    <3>1. /\ legacyKey' = lastKey + 1 /\ keyWrites' = keyWrites + 1 /\ lastKey + 1 # 0
          /\ keyWrites \in Nat
          /\ UNCHANGED <<keys, sealFile, seals>>
      BY <2>10 DEF CreateKeyFile, trail, TypeOK
    <3>2. job'[p].key = lastKey + 1 /\ job'[p].command = "sealKeyFile" /\ pc'[p] = "sealFile"
      BY <2>1, <2>2, <2>10 DEF CreateKeyFile, WithKey, AfterKey, Flow, Job
    <3>3. HoldsKey(p)'
      BY <3>1, <3>2 DEF HoldsKey
    <3>4. ASSUME NEW q \in Procs, q # p PROVE HoldsKey(q)'
      <4>1. HoldsKey(q) /\ pc'[q] = pc[q] /\ job'[q] = job[q] /\ job[q].key \in Nat
        BY <2>1, <3>4, JobFields DEF KeysOK, Moved
      \* Had q a key before, it was not the first.
      <4>2. ASSUME job[q].key # 0, keyWrites <= 1 => job[q].key = legacyKey
            PROVE  ~(keyWrites + 1 <= 1)
        BY <3>1, <4>2 DEF KeysOK
      <4> QED BY <3>1, <4>1, <4>2 DEF HoldsKey
    <3>5. \A q \in Procs : HoldsKey(q)'
      BY <3>3, <3>4
    \* A seal without key_id was not made with the first key file.
    <3>6. SealsVerify'
      <4>1. keyWrites + 1 <= 1 => legacyKey = 0
        BY <3>1 DEF KeysOK
      <4>2. keyWrites + 1 <= 1 => keyWrites <= 1
        BY <3>1
      <4> QED BY <3>1, <4>1, <4>2 DEF KeysOK, SealsVerify, Whole
    <3> QED BY <3>1, <3>5, <3>6 DEF KeysOK, Whole
  <2>11. ASSUME EnsureSealFile(p) PROVE KeysOK'
    <3>1. UNCHANGED <<keyring, keyWrites, seals, job>> /\ sealFile' = TRUE
          /\ pc[p] = "sealFile" /\ pc'[p] = "lock"
      BY <2>2, <2>11 DEF EnsureSealFile, history
    <3>2. \A q \in Procs : HoldsKey(q)'
      BY <2>1, <3>1 DEF HoldsKey, KeysOK, Moved, keyring
    <3> QED BY <3>1, <3>2, KeysKept DEF keyring
  <2>12. ASSUME TakeLock(p) PROVE KeysOK'
    <3>1. UNCHANGED <<keyring, keyWrites, sealFile, seals, job>>
          /\ pc[p] = "lock" /\ pc'[p] \in {"lock", "append"}
      BY <2>2, <2>12 DEF TakeLock, history
    <3>2. HoldsKey(p)'
      BY <2>1, <3>1 DEF HoldsKey, keyring
    <3> QED BY <2>3, <3>1, <3>2
  <2>13. ASSUME LockContention(p) \/ Unlock(p) PROVE KeysOK'
    BY <2>2, <2>4, <2>13 DEF LockContention, Unlock, history, trail
  \* What is appended is about the key that is held.
  <2>14. ASSUME seals' \in {AppendLine(seals, SealOf(p)),
                            AppendLine(seals, [SealOf(p) EXCEPT !.form = "torn"])},
                pc[p] = "append", FileOf(p) = "seals", UNCHANGED <<keyring, keyWrites, sealFile>>,
                pc'[p] \in {"unlock", "dead"}
         PROVE  KeysOK'
    <3>1. job[p].command \in {"seal", "sealKeyFile"} /\ sealFile
      BY <2>1, <2>14 DEF Flow, FileOf, HoldsKey
    <3>2. job[p].key # 0
      BY <2>1, <2>14, <3>1 DEF HoldsKey, TypeOK
    <3>3. SealOf(p).signer # 0 /\ [SealOf(p) EXCEPT !.form = "torn"].signer # 0
      BY <3>2 DEF SealOf
    <3>4. \A q \in Procs : HoldsKey(q)'
      BY <2>1, <2>14 DEF HoldsKey, KeysOK, Moved, keyring
    <3>5. \A i \in DOMAIN seals' : seals'[i].form = "seal" =>
             (i \in DOMAIN seals /\ seals'[i] = seals[i])
             \/ seals'[i] \in {SealOf(p), [SealOf(p) EXCEPT !.form = "torn"]}
      <4>1. seals \in Seq(SealRecord)
        BY DEF TypeOK
      <4>2. PICK r \in {SealOf(p), [SealOf(p) EXCEPT !.form = "torn"]} : seals' = AppendLine(seals, r)
        BY <2>14
      <4>3. r \in SealRecord
        BY SealOfType
      <4> QED BY <4>1, <4>2, <4>3, AppendedLine
    <3>6. \A i \in Whole' : seals'[i].signer # 0
      BY <3>3, <3>5 DEF KeysOK, Whole
    <3>7. ASSUME NEW r \in {SealOf(p), [SealOf(p) EXCEPT !.form = "torn"]}
          PROVE  IF r.keyId # 0 THEN r.keyId \in keys /\ r.signer = r.keyId
                 ELSE keyWrites <= 1 => r.signer = legacyKey
      <4>1. r.signer = job[p].key /\ r.keyId = IF job[p].command = "seal" THEN job[p].key ELSE 0
        BY DEF SealOf
      <4> QED BY <2>1, <2>14, <3>1, <3>2, <4>1 DEF HoldsKey
    <3>8. SealsVerify'
      BY <2>14, <3>5, <3>7 DEF KeysOK, SealsVerify, keyring
    <3> QED BY <2>14, <3>1, <3>4, <3>6, <3>8 DEF KeysOK, keyring
  <2>15. ASSUME AppendSeal(p) PROVE KeysOK'
    BY <2>2, <2>14, <2>15 DEF AppendSeal, keyring
  <2>16. ASSUME CheckSeal(p) PROVE KeysOK'
    BY <2>2, <2>4, <2>16 DEF CheckSeal, history, trail
  <2>17. ASSUME NEW u \in Urls, Post(p, u) PROVE KeysOK'
    <3>1. UNCHANGED <<keyring, keyWrites, sealFile, seals>> /\ pc'[p] = "post"
      BY <2>17 DEF Post, history
    <3> QED BY <2>4, <3>1
  <2>18. ASSUME NEW u \in Urls, AppendWitness(p, u) PROVE KeysOK'
    <3>1. UNCHANGED <<keyring, keyWrites, sealFile, seals>>
          /\ job[p].command = "publish" /\ job'[p].command = "publish"
      BY <2>1, <2>2, <2>18 DEF AppendWitness, history, FileOf, Flow, Job
    <3>2. pc'[p] \in {"append", "unlock"}
      BY <2>2, <2>18 DEF AppendWitness
    <3> QED BY <2>3, <3>1, <3>2 DEF HoldsKey
  <2>19. ASSUME Posted(p) PROVE KeysOK'
    <3>1. UNCHANGED <<keyring, keyWrites, sealFile, seals>> /\ job[p].command = "publish"
      BY <2>1, <2>19 DEF Posted, history, trail, Flow
    <3>2. CASE pc'[p] = "idle"
      BY <2>4, <3>1, <3>2
    <3>3. CASE pc'[p] = "lock" /\ job' = job
      BY <2>3, <3>1, <3>3 DEF HoldsKey
    <3> QED BY <2>2, <2>19, <3>2, <3>3 DEF Posted
  <2>20. ASSUME NEW tooOld, NEW r, Verify(p, tooOld, r) PROVE KeysOK'
    BY <2>2, <2>4, <2>20 DEF Verify, trail
  <2>21. ASSUME NEW tooOld, Attest(p, tooOld) PROVE KeysOK'
    BY <2>2, <2>4, <2>21 DEF Attest, trail, history
  <2>22. ASSUME WriteAttestation(p) PROVE KeysOK'
    BY <2>2, <2>4, <2>22 DEF WriteAttestation
  <2>23. ASSUME Die(p) PROVE KeysOK'
    <3>1. UNCHANGED <<keyring, keyWrites, sealFile>> /\ pc'[p] = "dead"
      BY <2>2, <2>23 DEF Die, history
    <3>2. CASE UNCHANGED seals
      BY <2>4, <3>1, <3>2
    <3>3. CASE pc[p] = "append" /\ FileOf(p) = "seals"
               /\ seals' = AppendLine(seals, [SealOf(p) EXCEPT !.form = "torn"])
      BY <2>14, <3>1, <3>3
    <3> QED BY <2>23, <3>2, <3>3 DEF Die
  <2> QED
    BY <1>3, <2>5, <2>6, <2>7, <2>8, <2>9, <2>10, <2>11, <2>12, <2>13, <2>15, <2>16, <2>17,
       <2>18, <2>19, <2>20, <2>21, <2>22, <2>23, Zenon DEF Step
<1>4. ASSUME AppendEvent \/ Damage \/ (\E f \in Files : LockAges(f)) \/ UNCHANGED vars
      PROVE  UNCHANGED <<pc, job, keyring, history, sealFile, seals>>
  BY <1>4 DEF AppendEvent, Damage, LockAges, vars, trail
<1> QED BY <1>1, <1>2, <1>3, <1>4 DEF Next, Commands
-----------------------------------------------------------------------------
(***************************************************************************)
(* The logs that are remembered.                                           *)
(***************************************************************************)
LEMMA SeenType ==
  ASSUME TypeOK
  PROVE  \A l \in Seen : l \in Seq(Line) /\ \A i \in DOMAIN l : l[i] \in Line
<1>1. \A l \in Seen : l \in Seq(Line)
  BY JobFields DEF Seen, TypeOK
<1> QED BY <1>1

\* Only a hook and damage bring a log that is new.
LEMMA SeenAfter ==
  ASSUME TypeFlow, [Next]_vars
  PROVE  /\ Seen' \subseteq Seen \cup {<<>>, log'}
         /\ AppendEvent \/ Damage \/ (log' = log /\ events' = events /\ damages' = damages)
<1> USE DEF TypeFlow
<1>1. CASE AppendEvent \/ Damage
  BY <1>1 DEF AppendEvent, Damage, Seen, history
<1>2. ASSUME NEW p \in Procs, NEW c \in Commands, NEW o \in Options \cup {{}}, Start(p, c, o)
      PROVE  /\ Seen' \subseteq Seen \cup {<<>>, log'}
             /\ log' = log /\ events' = events /\ damages' = damages
  <2>1. attested' = attested
    BY <1>2 DEF Start, history
  <2>2. \A q \in Procs : job'[q].log \in {job[q].log, log, <<>>}
    BY <1>2, StartShape
  <2> QED BY <1>2, <2>1, <2>2, StartShape DEF Seen
<1>3. ASSUME NEW p \in Procs, Step(p)
      PROVE  /\ Seen' \subseteq Seen \cup {<<>>, log'}
             /\ log' = log /\ events' = events /\ damages' = damages
  <2>1. Moved(p)
    BY <1>3, StepShape
  <2>2. attested' \in {attested, job[p].log}
    BY <1>3, Zenon DEF Step, EnsureKeyring, WriteKeyFile, TruncateActive, WriteActive, ReadKeyFile,
       CreateKeyFile, EnsureSealFile, TakeLock, LockContention, Unlock, AppendSeal, CheckSeal, Post,
       AppendWitness, Posted, Verify, Attest, WriteAttestation, Die, history
  <2>3. \A q \in Procs : job'[q].log \in {job[q].log, <<>>}
    BY <2>1 DEF Moved, Idle
  <2> QED BY <2>1, <2>2, <2>3 DEF Moved, Seen
<1>4. CASE UNCHANGED vars \/ \E f \in Files : LockAges(f)
  BY <1>4 DEF LockAges, Seen, vars, history, counters
<1> QED BY <1>1, <1>2, <1>3, <1>4 DEF Next, Commands

\* A log whose lines are old, except maybe for the last, which is new.
LEMMA NewLog ==
  ASSUME TypeOK, LogsOK, NEW m \in Seq(Line),
         \A j \in DOMAIN m :
           \/ \E i \in DOMAIN log : m[j].id = log[i].id /\ m[j].prev = log[i].prev
           \/ j = Len(m) /\ m[j].id = events + damages + 1
  PROVE  /\ \A j \in DOMAIN m : m[j].id \in 1..(events + damages + 1)
         /\ \A l \in Seen : \A i \in DOMAIN l, j \in DOMAIN m :
              l[i].id = m[j].id => l[i].prev = m[j].prev
         /\ \A i, j \in DOMAIN m : m[i].id = m[j].id => m[i].prev = m[j].prev
<1>1. events + damages \in Nat
  BY DEF TypeOK
<1>2. log \in Seen
  BY DEF Seen
<1>3. \A l \in Seen : \A i \in DOMAIN l : l[i].id \in 1..(events + damages)
  BY DEF LogsOK, Known
<1>4. \A l, k \in Seen : \A i \in DOMAIN l, j \in DOMAIN k : l[i].id = k[j].id => l[i].prev = k[j].prev
  BY DEF LogsOK
<1>5. ASSUME NEW j \in DOMAIN m PROVE m[j].id \in 1..(events + damages + 1)
  BY <1>1, <1>2, <1>3
<1>6. ASSUME NEW l \in Seen, NEW i \in DOMAIN l, NEW j \in DOMAIN m, l[i].id = m[j].id
      PROVE  l[i].prev = m[j].prev
  <2>1. l[i].id # events + damages + 1
    BY <1>1, <1>3
  <2>2. PICK k \in DOMAIN log : m[j].id = log[k].id /\ m[j].prev = log[k].prev
    BY <1>6, <2>1
  <2> QED BY <1>2, <1>4, <1>6, <2>2
<1>7. ASSUME NEW i \in DOMAIN m, NEW j \in DOMAIN m, m[i].id = m[j].id
      PROVE  m[i].prev = m[j].prev
  <2>1. CASE \E k \in DOMAIN log : m[i].id = log[k].id /\ m[i].prev = log[k].prev
    BY <1>2, <1>6, <1>7, <2>1
  <2>2. CASE \E k \in DOMAIN log : m[j].id = log[k].id /\ m[j].prev = log[k].prev
    BY <1>2, <1>6, <1>7, <2>2
  <2>3. CASE i = Len(m) /\ j = Len(m)
    BY <2>3
  <2> QED BY <2>1, <2>2, <2>3
<1> QED BY <1>5, <1>6, <1>7

\* A hook links its event to the end of the log.
LEMMA AppendedEvent ==
  ASSUME TypeOK, AppendEvent
  PROVE  /\ log' \in Seq(Line) /\ Len(log') = Len(log) + 1
         /\ \A j \in DOMAIN log' :
              \/ j \in DOMAIN log /\ log'[j] = log[j]
              \/ j = Len(log') /\ log'[j] = [id |-> events + damages + 1, prev |-> ChainTip(log),
                                           hash |-> "ok", form |-> "event"]
<1> DEFINE e == [id |-> events + damages + 1, prev |-> ChainTip(log), hash |-> "ok", form |-> "event"]
<1>1. log \in Seq(Line) /\ events + damages + 1 \in Nat /\ ChainTip(log) \in Nat
  BY Positions DEF TypeOK
<1>2. e \in Line
  BY <1>1 DEF Line
<1>3. log' = Append(log, e)
  BY DEF AppendEvent
<1> HIDE DEF e
<1>4. /\ Append(log, e) \in Seq(Line) /\ Len(Append(log, e)) = Len(log) + 1
      /\ \A j \in DOMAIN Append(log, e) :
           \/ j \in DOMAIN log /\ Append(log, e)[j] = log[j]
           \/ j = Len(log) + 1 /\ Append(log, e)[j] = e
  BY <1>1, <1>2
<1> QED BY <1>3, <1>4 DEF e

\* Verify finds no fault in a log that was left alone.
LEMMA UntouchedLog ==
  ASSUME NEW l \in Seq(Line), Untouched(l)
  PROVE  /\ Hashed(l) = DOMAIN l /\ Chained(l) = DOMAIN l
         /\ Unbroken(l) /\ ChainTip(l) = Len(l)
<1>1. \A i \in DOMAIN l : /\ l[i].id = i /\ l[i].prev = i - 1
                          /\ l[i].hash = "ok" /\ l[i].form = "event"
  BY DEF Untouched
<1>2. Hashed(l) = DOMAIN l /\ Chained(l) = DOMAIN l
  BY <1>1 DEF Hashed, Chained
<1>3. HashMismatch(l) = {} /\ Invalid(l) = {}
  BY <1>1, <1>2 DEF HashMismatch, Invalid
<1>4. DOMAIN l = 1..Len(l) /\ Len(l) \in Nat
  BY LenProperties
<1>5. ASSUME NEW i \in PrevLinkMismatch(l) PROVE FALSE
  <2> DEFINE before == {j \in Chained(l) : j < i}
  <2>1. i \in Chained(l) /\ before # {} /\ l[i].prev # l[Max(before)].id
    BY DEF PrevLinkMismatch
  <2>2. PICK k \in Chained(l) : k < i
    BY <2>1
  <2>3. /\ Max(before) \in Chained(l) /\ Max(before) < i
        /\ \A j \in Chained(l) : j < i => j <= Max(before)
    <3>1. Chained(l) \in SUBSET (1..Len(l)) /\ Len(l) \in Nat
      BY Positions
    <3> QED BY <2>1, <2>2, <3>1, PositionBefore
  <2> HIDE DEF before
  <2>4. i - 1 \in Chained(l) /\ i - 1 < i /\ i \in Nat /\ Max(before) \in Nat
    BY <1>2, <1>4, <2>1, <2>2, <2>3
  <2>5. Max(before) = i - 1
    BY <2>3, <2>4
  <2> QED BY <1>1, <1>2, <2>1, <2>3, <2>5
<1>6. ChainTip(l) = Len(l)
  <2>1. CASE l = <<>>
    BY <1>2, <2>1 DEF ChainTip
  <2>2. CASE l # <<>>
    <3>1. Len(l) \in Hashed(l)
      BY <1>2, <1>4, <2>2, EmptySeq
    <3>2. PICK i \in Hashed(l) : ChainTip(l) = l[i].id /\ \A j \in Hashed(l) : j <= i
      BY <3>1, Positions
    <3>3. i = Len(l)
      BY <1>2, <1>4, <3>1, <3>2
    <3> QED BY <1>1, <1>2, <3>2, <3>3
  <2> QED BY <2>1, <2>2
<1> QED BY <1>2, <1>3, <1>5, <1>6 DEF Unbroken

LEMMA LogsStep ==
  ASSUME TypeFlow, LogsOK, [Next]_vars
  PROVE  LogsOK'
<1> USE DEF TypeFlow
<1>1. Seen' \subseteq Seen \cup {<<>>, log'}
  BY SeenAfter
<1>2. events \in Nat /\ damages \in Nat /\ log \in Seen
  BY DEF TypeOK, Seen
<1>3. DOMAIN <<>> = {}
  OBVIOUS
<1>4. CASE AppendEvent \/ Damage
  <2>1. /\ log' \in Seq(Line) /\ events' + damages' = events + damages + 1
        /\ \A j \in DOMAIN log' :
           \/ \E i \in DOMAIN log : log'[j].id = log[i].id /\ log'[j].prev = log[i].prev
           \/ j = Len(log') /\ log'[j].id = events + damages + 1
    <3>1. CASE AppendEvent
      <4>1. log' \in Seq(Line) /\ \A j \in DOMAIN log' :
              \/ j \in DOMAIN log /\ log'[j] = log[j]
              \/ j = Len(log') /\ log'[j].id = events + damages + 1
        BY <3>1, AppendedEvent
      <4>2. events' = events + 1 /\ damages' = damages
        BY <3>1 DEF AppendEvent
      <4> QED BY <1>2, <4>1, <4>2
    <3>2. CASE Damage
      <4>1. log \in Seq(Line) /\ log # <<>> /\ log' \in Damaged(log)
            /\ events' = events /\ damages' = damages + 1
        BY <3>2 DEF Damage, TypeOK
      <4>2. events + damages \in Nat /\ events' + damages' = events + damages + 1
        BY <1>2, <4>1
      <4>3. /\ log' \in Seq(Line)
            /\ \A j \in DOMAIN log' :
                 \/ \E i \in DOMAIN log : log'[j].id = log[i].id /\ log'[j].prev = log[i].prev
                 \/ j = Len(log') /\ log'[j].id = events + damages + 1
        BY <4>1, <4>2, DamagedLines
      <4> QED BY <4>2, <4>3
    <3> QED BY <1>4, <3>1, <3>2
  <2>2. /\ \A j \in DOMAIN log' : log'[j].id \in 1..(events + damages + 1)
        /\ \A l \in Seen : \A i \in DOMAIN l, j \in DOMAIN log' :
              l[i].id = log'[j].id => l[i].prev = log'[j].prev
        /\ \A i, j \in DOMAIN log' : log'[i].id = log'[j].id => log'[i].prev = log'[j].prev
    BY <2>1, NewLog
  <2>3. \A l \in Seen' : \A i \in DOMAIN l : l[i].id \in Known'
    <3>1. \A l \in Seen : \A i \in DOMAIN l : l[i].id \in 1..(events + damages)
      BY DEF LogsOK, Known
    <3>2. 1..(events + damages) \subseteq 1..(events + damages + 1)
      BY <1>2
    <3>3. Known' = 1..(events + damages + 1)
      BY <2>1 DEF Known
    <3> QED BY <1>1, <1>3, <2>2, <3>1, <3>2, <3>3
  <2>4. \A l, m \in Seen' : \A i \in DOMAIN l, j \in DOMAIN m :
          l[i].id = m[j].id => l[i].prev = m[j].prev
    <3>1. \A l, m \in Seen : \A i \in DOMAIN l, j \in DOMAIN m :
            l[i].id = m[j].id => l[i].prev = m[j].prev
      BY DEF LogsOK
    <3> QED BY <1>1, <1>3, <2>2, <3>1
  <2>5. ASSUME damages' = 0 PROVE Len(log') = events' /\ \A l \in Seen' : Len(l) <= events' /\ Untouched(l)
    <3>1. AppendEvent /\ damages = 0 /\ events' = events + 1
      BY <1>2, <1>4, <2>5 DEF Damage, AppendEvent
    <3>2. Len(log) = events /\ \A l \in Seen : Len(l) <= events /\ Untouched(l)
      BY <3>1 DEF LogsOK
    <3>3. ChainTip(log) = events /\ log \in Seq(Line)
      BY <1>2, <3>2, UntouchedLog DEF TypeOK
    <3>4. Len(log') = events' /\ Untouched(log')
      <4>1. \A j \in DOMAIN log' :
              \/ j \in DOMAIN log /\ log'[j] = log[j]
              \/ j = events + 1 /\ log'[j] = [id |-> events + 1, prev |-> events,
                                             hash |-> "ok", form |-> "event"]
        BY <1>2, <3>1, <3>2, <3>3, AppendedEvent
      <4>2. Len(log') = events'
        BY <3>1, <3>2, AppendedEvent
      <4>3. events + 1 - 1 = events
        BY <1>2
      <4> QED BY <1>2, <3>2, <4>1, <4>2, <4>3 DEF Untouched
    <3>5. Len(<<>>) = 0 /\ Untouched(<<>>)
      BY <1>3 DEF Untouched
    <3>6. ASSUME NEW l \in Seen' PROVE Len(l) <= events' /\ Untouched(l)
      <4>1. CASE l \in Seen
        <5>1. Len(l) \in Nat /\ Len(l) <= events /\ Untouched(l)
          BY <3>2, <4>1, SeenType, LenProperties
        <5> QED BY <1>2, <3>1, <5>1
      <4>2. CASE l = <<>>
        BY <1>2, <3>1, <3>5, <4>2
      <4>3. CASE l = log'
        BY <1>2, <3>1, <3>4, <4>3
      <4> QED BY <1>1, <4>1, <4>2, <4>3
    <3> QED BY <3>4, <3>6
  <2> QED BY <2>3, <2>4, <2>5 DEF LogsOK, Untouched
<1>5. CASE log' = log /\ events' = events /\ damages' = damages
  <2>1. Seen' \subseteq Seen \cup {<<>>}
    BY <1>1, <1>2, <1>5
  <2>2. Len(<<>>) = 0 /\ Untouched(<<>>)
    BY <1>3 DEF Untouched
  <2>3. \A l \in Seen' : \A i \in DOMAIN l : l[i].id \in Known'
    BY <1>3, <1>5, <2>1 DEF LogsOK, Known
  <2>4. \A l, m \in Seen' : \A i \in DOMAIN l, j \in DOMAIN m :
          l[i].id = m[j].id => l[i].prev = m[j].prev
    BY <1>3, <2>1 DEF LogsOK
  <2>5. damages' = 0 => Len(log') = events' /\ \A l \in Seen' : Len(l) <= events' /\ Untouched(l)
    BY <1>2, <1>5, <2>1, <2>2 DEF LogsOK
  <2> QED BY <2>3, <2>4, <2>5 DEF LogsOK, Untouched
<1> QED BY <1>4, <1>5, SeenAfter
-----------------------------------------------------------------------------
(***************************************************************************)
(* Seals.                                                                  *)
(***************************************************************************)
\* The tip of a chain is one of its events.
LEMMA TipOfChain ==
  ASSUME NEW l \in Seq(Line), Chained(l) # {}
  PROVE  \E i \in DOMAIN l : ChainTip(l) = l[i].id
<1>1. Hashed(l) # {}
  BY DEF Chained
<1>2. PICK i \in Hashed(l) : ChainTip(l) = l[i].id
  BY <1>1, Positions
<1> QED BY <1>2 DEF Hashed

\* Seals that stay are still about what they were about.
LEMMA SealsKept ==
  ASSUME TypeFlow, LogsOK, SealsOK, [Next]_vars, seals' = seals, sealedSince' = sealedSince,
         faults' = 0 => faults = 0,
         \A p \in Procs : job'[p].command \in {"seal", "sealKeyFile"} => Chained(job'[p].log) # {}
  PROVE  SealsOK'
<1> USE DEF TypeFlow
<1>1. events + damages \in Nat /\ log \in Seen
  BY DEF TypeOK, Seen
<1>2. Known \subseteq Known'
  <2>1. CASE AppendEvent \/ Damage
    <3>1. events' + damages' = events + damages + 1
      <4>1. (events' = events + 1 /\ damages' = damages) \/ (events' = events /\ damages' = damages + 1)
        BY <2>1 DEF AppendEvent, Damage
      <4>2. events \in Nat /\ damages \in Nat
        BY DEF TypeOK
      <4> QED BY <4>1, <4>2
    <3> QED BY <1>1, <3>1 DEF Known
  <2>2. CASE events' = events /\ damages' = damages
    BY <2>2 DEF Known
  <2> QED BY <2>1, <2>2, SeenAfter
<1>3. ASSUME ~sealedSince, NEW i \in Whole, NEW l \in Seen', NEW j \in DOMAIN l, l[j].id <= seals[i].tip
      PROVE  l[j].prev = l[j].id - 1
  <2>1. \A m \in Seen : \A k \in DOMAIN m : m[k].id <= seals[i].tip => m[k].prev = m[k].id - 1
    BY <1>3 DEF SealsOK
  <2>2. CASE l \in Seen
    BY <1>3, <2>1, <2>2
  <2>3. CASE l = <<>>
    BY <2>3
  <2>4. CASE l = log' /\ (AppendEvent \/ Damage)
    <3>1. \/ \E k \in DOMAIN log : l[j].id = log[k].id /\ l[j].prev = log[k].prev
          \/ l[j].id = events + damages + 1
      <4>1. CASE AppendEvent
        BY <1>3, <2>4, <4>1, AppendedEvent
      <4>2. CASE Damage
        <5>1. log \in Seq(Line) /\ log # <<>> /\ log' \in Damaged(log)
          BY <4>2 DEF Damage, TypeOK
        <5>2. \A k \in DOMAIN log' :
                 \/ \E e \in DOMAIN log : log'[k].id = log[e].id /\ log'[k].prev = log[e].prev
                 \/ k = Len(log') /\ log'[k].id = events + damages + 1
          BY <1>1, <5>1, DamagedLines
        <5> QED BY <2>4, <5>2
      <4> QED BY <2>4, <4>1, <4>2
    <3>2. seals[i].tip \in 1..(events + damages)
      BY DEF SealsOK, Known
    <3>3. l[j].id # events + damages + 1
      BY <1>1, <1>3, <3>2
    <3>4. PICK k \in DOMAIN log : l[j].id = log[k].id /\ l[j].prev = log[k].prev
      BY <3>1, <3>3
    <3> QED BY <1>1, <1>3, <2>1, <3>4
  <2>5. CASE l = log' /\ log' = log
    BY <1>1, <2>2, <2>5
  <2> QED BY <2>2, <2>3, <2>4, <2>5, SeenAfter
<1>4. Whole' = Whole
  BY DEF Whole
<1>5. \A i \in Whole : seals[i].tip \in Known'
  BY <1>2 DEF SealsOK
<1>6. faults' = 0 => Whole = DOMAIN seals
  BY DEF SealsOK
<1> QED BY <1>3, <1>4, <1>5, <1>6 DEF SealsOK

LEMMA SealsStep ==
  ASSUME TypeFlow, LogsOK, SealsOK, [Next]_vars
  PROVE  SealsOK'
<1> USE DEF TypeFlow
<1>1. ASSUME NEW p \in Procs, NEW c \in Commands, NEW o \in Options \cup {{}}, Start(p, c, o)
      PROVE  SealsOK'
  <2>1. seals' = seals /\ sealedSince' = sealedSince /\ faults' = faults
    BY <1>1 DEF Start, trail, history
  <2>2. \A q \in Procs : job'[q].command \in {"seal", "sealKeyFile"} => Chained(job'[q].log) # {}
    BY <1>1, StartShape DEF SealsOK
  <2> QED BY <2>1, <2>2, SealsKept
<1>2. ASSUME NEW p \in Procs, Step(p)
      PROVE  SealsOK'
  <2>1. Moved(p) /\ Flow(pc[p], job[p].command)
    BY <1>2, StepShape DEF FlowOK
  <2>2. \A q \in Procs : job'[q].command \in {"seal", "sealKeyFile"} => Chained(job'[q].log) # {}
    BY <2>1 DEF Moved, SealsOK, Idle
  <2>3. faults \in Nat /\ events + damages \in Nat /\ damages \in Nat /\ seals \in Seq(SealRecord)
    BY DEF TypeOK
  \* What is appended: a whole seal, or one cut short by a death.
  <2>4. ASSUME NEW r \in {SealOf(p), [SealOf(p) EXCEPT !.form = "torn"]},
               seals' = AppendLine(seals, r), pc[p] = "append", FileOf(p) = "seals",
               faults' = 0 => faults = 0 /\ r = SealOf(p),
               sealedSince => sealedSince', r.form = "seal" /\ ~sealedSince' => ~(damages > 0)
        PROVE  SealsOK'
    <3>1. job[p].command \in {"seal", "sealKeyFile"} /\ job[p].log \in Seen /\ job[p].log \in Seq(Line)
      BY <2>1, <2>4, JobFields DEF Flow, FileOf, Seen
    <3>2. PICK i \in DOMAIN job[p].log : ChainTip(job[p].log) = job[p].log[i].id
      BY <3>1, TipOfChain DEF SealsOK
    <3>3. r.tip \in Known /\ r \in SealRecord
      <4>1. r.tip = ChainTip(job[p].log)
        BY DEF SealOf
      <4>2. r \in SealRecord
        BY SealOfType
      <4> QED BY <3>1, <3>2, <4>1, <4>2 DEF LogsOK
    <3>4. /\ \A k \in DOMAIN seals' : seals'[k].form = "seal" =>
                (k \in DOMAIN seals /\ seals'[k] = seals[k]) \/ seals'[k] = r
          /\ (\A k \in DOMAIN seals : seals[k].form = "seal") => seals' = Append(seals, r)
      BY <2>3, <2>4, <3>3, AppendedLine
    <3>5. Known' = Known /\ Seen' \subseteq Seen \cup {<<>>}
      <4>1. log \in Seen
        BY DEF Seen
      <4> QED BY <2>1, <4>1, SeenAfter DEF Moved, Known
    <3>6. \A k \in Whole' : seals'[k].tip \in Known'
      BY <3>3, <3>4, <3>5 DEF SealsOK, Whole
    <3>7. faults' = 0 => Whole' = DOMAIN seals'
      <4>1. SUFFICES ASSUME faults' = 0 PROVE Whole' = DOMAIN seals'
        OBVIOUS
      <4>2. r.form = "seal" /\ \A k \in DOMAIN seals : seals[k].form = "seal"
        BY <2>4, <4>1 DEF SealOf, SealsOK, Whole
      <4>3. seals' = Append(seals, r)
        BY <3>4, <4>2
      <4>4. \A k \in DOMAIN Append(seals, r) : Append(seals, r)[k].form = "seal"
        BY <2>3, <3>3, <4>2
      <4> QED BY <4>3, <4>4 DEF Whole
    <3>8. ASSUME ~sealedSince', NEW k \in Whole', NEW l \in Seen', NEW j \in DOMAIN l,
                 l[j].id <= seals'[k].tip
          PROVE  l[j].prev = l[j].id - 1
      <4>1. l \in Seen
        <5>1. DOMAIN <<>> = {}
          OBVIOUS
        <5> QED BY <3>5, <3>8, <5>1
      <4>2. ~sealedSince
        BY <2>4, <3>8
      <4>3. CASE k \in Whole /\ seals'[k] = seals[k]
        BY <3>8, <4>1, <4>2, <4>3 DEF SealsOK
      <4>4. CASE seals'[k] = r /\ r.form = "seal"
        <5>1. damages = 0
          BY <2>3, <2>4, <3>8, <4>4
        <5>2. l[j] = [id |-> j, prev |-> j - 1, hash |-> "ok", form |-> "event"]
          BY <3>8, <4>1, <5>1 DEF LogsOK, Untouched
        <5> QED BY <5>2
      <4> QED BY <3>4, <3>8, <4>3, <4>4 DEF Whole
    <3>9. \A i_1 \in Whole', l \in Seen' : ~sealedSince' => \A j \in DOMAIN l :
            l[j].id <= seals'[i_1].tip => l[j].prev = l[j].id - 1
      BY <3>8
    <3> QED BY <2>2, <3>6, <3>7, <3>9 DEF SealsOK
  <2>5. CASE AppendSeal(p)
    <3>1. SealOf(p).form = "seal" /\ faults' = faults
      BY <2>5 DEF SealOf, AppendSeal, counters
    <3>2. (sealedSince => sealedSince') /\ (~sealedSince' => ~(damages > 0))
      BY <2>5, Zenon DEF AppendSeal
    <3> QED BY <2>4, <2>5, <3>1, <3>2 DEF AppendSeal
  <2>6. CASE Die(p) /\ pc[p] = "append" /\ FileOf(p) = "seals"
             /\ seals' = AppendLine(seals, [SealOf(p) EXCEPT !.form = "torn"])
    <3>1. [SealOf(p) EXCEPT !.form = "torn"].form = "torn"
      BY DEF SealOf
    <3>2. faults' # 0 /\ sealedSince' = sealedSince
      BY <2>3, <2>6 DEF Die, Fault, history
    <3> QED BY <2>4, <2>6, <3>1, <3>2
  <2>7. CASE seals' = seals /\ sealedSince' = sealedSince /\ faults' \in {faults, faults + 1}
    BY <2>2, <2>3, <2>7, SealsKept
  <2>8. AppendSeal(p) \/ Die(p)
        \/ (seals' = seals /\ sealedSince' = sealedSince /\ faults' \in {faults, faults + 1})
    BY <1>2 DEF Step, EnsureKeyring, WriteKeyFile, TruncateActive, WriteActive, ReadKeyFile,
       CreateKeyFile, EnsureSealFile, TakeLock, LockContention, Unlock, CheckSeal, Post,
       AppendWitness, Posted, Verify, Attest, WriteAttestation, Fault, history, trail, counters
  <2>9. CASE Die(p) /\ seals' = seals
    BY <2>7, <2>9 DEF Die, Fault, history
  <2> QED BY <2>5, <2>6, <2>7, <2>8, <2>9 DEF Die
<1>3. ASSUME AppendEvent \/ Damage \/ (\E f \in Files : LockAges(f)) \/ UNCHANGED vars
      PROVE  SealsOK'
  <2>1. seals' = seals /\ sealedSince' = sealedSince /\ job' = job /\ faults' \in {faults, faults + 1}
    BY <1>3 DEF AppendEvent, Damage, LockAges, Fault, vars, trail, history, counters
  <2>2. faults \in Nat
    BY DEF TypeOK
  <2> QED BY <2>1, <2>2, SealsKept DEF SealsOK
<1> QED BY <1>1, <1>2, <1>3 DEF Next, Commands

-----------------------------------------------------------------------------
(***************************************************************************)
(* Attestations.                                                           *)
(***************************************************************************)
\* attest is given no option that lets an invalid line or a broken chain pass.
LEMMA AttestationVouches ==
  ASSUME TypeOK, NEW p \in Procs, NEW tooOld
  PROVE  Vouches(AttestationOf(AttestOptions(job[p].options), World(p, tooOld, {}), 0),
                 job[p].log)
<1> DEFINE o == AttestOptions(job[p].options)
           w == World(p, tooOld, {})
           a == AttestationOf(o, w, 0)
<1>1. a.pass = runVerification(o, w) /\ a.tip = ChainTip(w.log)
      /\ a.count = Cardinality(Chained(w.log)) /\ w.log = job[p].log
  BY WorldFields DEF AttestationOf
<1>2. "allowInvalid" \notin o
  BY DEF AttestOptions
<1> HIDE DEF o, w
<1>3. runVerification(o, w) => Unbroken(w.log)
  BY <1>2 DEF runVerification, ChainFails, Unbroken
<1> HIDE DEF a
<1>4. Vouches(a, job[p].log)
  BY <1>1, <1>3 DEF Vouches
<1> QED BY <1>4 DEF a, o, w

LEMMA AttestStep ==
  ASSUME TypeFlow, AttestOK, [Next]_vars
  PROVE  AttestOK'
<1> USE DEF TypeFlow
<1>1. ~NoLog.pass /\ (NoAttestation # NoAttestation => FALSE)
  BY DEF NoLog
<1>2. ASSUME NEW p \in Procs, NEW c \in Commands, NEW o \in Options \cup {{}}, Start(p, c, o)
      PROVE  AttestOK'
  <2>1. attestation' = attestation /\ attested' = attested
    BY <1>2 DEF Start, trail, history
  <2>2. \A q \in Procs : Vouches(job'[q].draft, job'[q].log)
    <3> TAKE q \in Procs
    <3>1. CASE q # p
      BY <1>2, <3>1, StartShape DEF AttestOK
    <3>2. CASE q = p
      BY <1>1, <1>2, <3>2, StartShape DEF Vouches
    <3> QED BY <3>1, <3>2
  <2> QED BY <2>1, <2>2 DEF AttestOK
<1>3. ASSUME NEW p \in Procs, Step(p)
      PROVE  AttestOK'
  <2>1. Moved(p)
    BY <1>3, StepShape
  <2>2. \A q \in Procs : Vouches(job'[q].draft, job'[q].log)
    <3> TAKE q \in Procs
    <3>1. CASE q # p
      BY <2>1, <3>1 DEF Moved, AttestOK
    <3>2. CASE q = p /\ job'[p] = Idle
      BY <3>2 DEF Vouches, Idle
    <3>3. CASE q = p /\ job'[p] # Idle /\ ~Attests(p)
      BY <2>1, <3>3 DEF Moved, AttestOK
    <3>4. CASE q = p /\ Attests(p)
      <4>1. PICK tooOld : Attest(p, tooOld)
        BY <3>4 DEF Attests
      <4>2. /\ job'[p].draft
                 = AttestationOf(AttestOptions(job[p].options), World(p, tooOld, {}), 0)
            /\ job'[p].log = job[p].log
        BY <4>1, JobFields DEF Attest, TypeOK, Job
      <4> QED BY <3>4, <4>2, AttestationVouches
    <3> QED BY <3>1, <3>2, <3>3, <3>4
  <2>3. attestation' # NoAttestation /\ attestation'.intact => Vouches(attestation', attested')
    <3>1. CASE attestation' = attestation /\ attested' = attested
      BY <3>1 DEF AttestOK
    <3>2. CASE WriteAttestation(p)
      <4>1. job[p].draft \in Attestation /\ job[p].draft # NoAttestation
        BY <3>2, TrustAssumption DEF WriteAttestation, FlowOK, Flow
      <4>2. Vouches(job[p].draft, job[p].log) /\ attested' = job[p].log
        BY <3>2 DEF WriteAttestation, AttestOK
      <4>3. attestation'.pass = job[p].draft.pass /\ attestation'.tip = job[p].draft.tip
            /\ attestation'.count = job[p].draft.count
        BY <3>2, <4>1 DEF WriteAttestation, Attestation
      <4> QED BY <4>1, <4>2, <4>3 DEF Vouches
    <3>3. CASE Die(p) /\ pc[p] = "write" /\ attestation' = [job[p].draft EXCEPT !.intact = FALSE]
      <4>1. job[p].draft \in Attestation
        BY <3>3 DEF FlowOK, Flow
      <4>2. ~attestation'.intact
        BY <3>3, <4>1 DEF Attestation
      <4> QED BY <4>2
    <3>4. WriteAttestation(p) \/ Die(p) \/ (attestation' = attestation /\ attested' = attested)
      BY <1>3 DEF Step, EnsureKeyring, WriteKeyFile, TruncateActive, WriteActive, ReadKeyFile,
         CreateKeyFile, EnsureSealFile, TakeLock, LockContention, Unlock, AppendSeal, CheckSeal, Post,
         AppendWitness, Posted, Verify, Attest, history, trail
    <3> QED BY <3>1, <3>2, <3>3, <3>4 DEF Die, history
  <2> QED BY <2>2, <2>3 DEF AttestOK
<1>4. ASSUME AppendEvent \/ Damage \/ (\E f \in Files : LockAges(f)) \/ UNCHANGED vars
      PROVE  AttestOK'
  <2>1. attestation' = attestation /\ attested' = attested /\ job' = job
    BY <1>4 DEF AppendEvent, Damage, LockAges, vars, trail, history
  <2> QED BY <2>1 DEF AttestOK
<1> QED BY <1>2, <1>3, <1>4 DEF Next, Commands
-----------------------------------------------------------------------------
(***************************************************************************)
(* The theorems.                                                           *)
(***************************************************************************)
\* Every variable holds what it should, every command is where it can be.
THEOREM TypeCorrect == Spec => [](TypeOK /\ FlowOK)
<1>1. Init => TypeFlow
  BY TypeFlowInit
<1>2. TypeFlow /\ [Next]_vars => TypeFlow'
  BY TypeFlowStep
<1>3. TypeFlow => TypeOK /\ FlowOK
  BY DEF TypeFlow
<1> QED BY <1>1, <1>2, <1>3, PTL DEF Spec

LEMMA InitInv ==
  ASSUME Init
  PROVE  KeysOK /\ LogsOK /\ SealsOK /\ AttestOK
<1>1. Whole = {} /\ Seen \subseteq {<<>>} /\ \A p \in Procs : job[p] = Idle /\ pc[p] = "idle"
  BY DEF Init, Whole, Seen, Idle
<1>2. KeysOK
  BY <1>1 DEF Init, KeysOK, HoldsKey, SealsVerify
<1>3. LogsOK
  <2>1. DOMAIN <<>> = {} /\ Len(<<>>) = 0
    OBVIOUS
  <2> QED BY <1>1, <2>1 DEF Init, LogsOK, Untouched
<1>4. SealsOK
  <2>1. DOMAIN seals = {}
    BY DEF Init
  <2> QED BY <1>1, <2>1 DEF SealsOK, Idle
<1>5. AttestOK
  BY <1>1 DEF Init, AttestOK, Vouches, Idle
<1> QED BY <1>2, <1>3, <1>4, <1>5

THEOREM Invariance == Spec => []IInv
<1>1. Init => IInv
  BY TypeFlowInit, InitInv DEF IInv, TypeFlow
<1>2. IInv /\ [Next]_vars => IInv'
  <2>1. SUFFICES ASSUME IInv, [Next]_vars PROVE IInv'
    OBVIOUS
  <2>2. TypeFlow /\ KeysOK /\ LogsOK /\ SealsOK /\ AttestOK
    BY <2>1 DEF IInv, TypeFlow
  <2>3. TypeFlow' /\ KeysOK' /\ LogsOK' /\ SealsOK' /\ AttestOK'
    BY <2>1, <2>2, TypeFlowStep, KeysStep, LogsStep, SealsStep, AttestStep
  <2> QED BY <2>3 DEF IInv, TypeFlow
<1> QED BY <1>1, <1>2, PTL DEF Spec

\* However many keys are created and rotated, and whatever dies in between:
\* every seal in the file can still be verified (SealsVerify).
THEOREM EverySealVerifies == Spec => []SealsVerify
<1>1. IInv => SealsVerify
  BY DEF IInv, KeysOK
<1> QED BY <1>1, Invariance, PTL

\* A verify command ends in one way.
LEMMA VerifyStep ==
  ASSUME TypeOK, [Next]_vars, NEW p \in Procs, Verifies(p)
  PROVE  \E tooOld, r : passed' = runVerification(job[p].options, World(p, tooOld, r))
<1>1. pc \in [Procs -> Labels] /\ pc[p] = "check" /\ job[p].command = "verify" /\ pc'[p] = "idle"
  BY DEF TypeOK, Verifies
<1>2. ASSUME NEW q \in Procs, NEW c \in Commands, NEW o \in Options \cup {{}}, Start(q, c, o)
      PROVE  FALSE
  <2>1. pc'[p] = pc[p] \/ pc'[p] \in {"keyring", "keyFile", "newKey", "check"}
    BY <1>2, StartShape
  <2> QED BY <1>1, <2>1
<1>3. ASSUME NEW q \in Procs, Step(q), q # p PROVE FALSE
  <2>1. pc'[p] = pc[p]
    BY <1>1, <1>3 DEF Step, EnsureKeyring, WriteKeyFile, TruncateActive, WriteActive, ReadKeyFile,
       CreateKeyFile, EnsureSealFile, TakeLock, LockContention, Unlock, AppendSeal, CheckSeal, Post,
       AppendWitness, Posted, Verify, Attest, WriteAttestation, Die, WithKey, Goto, End
  <2> QED BY <1>1, <2>1
<1>4. ASSUME Step(p)
      PROVE  \E tooOld, r : passed' = runVerification(job[p].options, World(p, tooOld, r))
  <2>1. (\E tooOld \in SUBSET Aged(job[p].options), r \in SUBSET Urls : Verify(p, tooOld, r)) \/ Die(p)
    BY <1>1, <1>4 DEF Step, EnsureKeyring, WriteKeyFile, TruncateActive, WriteActive, ReadKeyFile,
       CreateKeyFile, EnsureSealFile, TakeLock, LockContention, Unlock, AppendSeal, CheckSeal, Post,
       AppendWitness, Posted, Attest, WriteAttestation
  <2>2. ~Die(p)
    BY <1>1 DEF Die, Goto
  <2> QED BY <2>1, <2>2 DEF Verify
<1>5. ~(AppendEvent \/ Damage \/ (\E f \in Files : LockAges(f)) \/ UNCHANGED vars)
  BY <1>1 DEF AppendEvent, Damage, LockAges, vars
<1> QED BY <1>2, <1>3, <1>4, <1>5 DEF Next, Commands

\* A log that nothing but append has written passes verify, whatever else runs
\* (UntouchedPasses).
THEOREM UntouchedLogPasses == Spec => UntouchedPasses
<1>1. ASSUME IInv, [Next]_vars, NEW p \in Procs, Verifies(p), job[p].options = {}, job[p].log = log,
             damages = 0, faults = 0, keyWrites <= 1, sealFile => seals # <<>>
      PROVE  passed'
  <2>1. PICK tooOld, r : passed' = runVerification({}, World(p, tooOld, r))
    BY <1>1, VerifyStep DEF IInv
  <2> DEFINE w == World(p, tooOld, r)
  <2>2. w.log = log /\ w.keys = keys /\ w.legacyKey = legacyKey /\ w.sealFile = sealFile
        /\ w.seals = seals
    BY <1>1, WorldFields
  <2>3. log \in Seq(Line) /\ seals \in Seq(SealRecord) /\ events \in Nat /\ keys \in SUBSET (Nat \ {0})
    BY <1>1 DEF IInv, TypeOK
  <2> HIDE DEF w
  <2>4. log \in Seen /\ Len(log) = events /\ Untouched(log)
    BY <1>1 DEF IInv, LogsOK, Seen
  <2>5. Hashed(log) = DOMAIN log /\ Unbroken(log)
    BY <2>3, <2>4, UntouchedLog
  <2>6. ~ChainFails({}, log)
    BY <2>5 DEF ChainFails, Unbroken
  <2>7. ~runSealCheck({}, w)
    <3>1. CASE ~sealFile
      BY <2>2, <3>1 DEF runSealCheck
    <3>2. CASE sealFile
      <4>1. SealLines(w) = DOMAIN seals /\ seals # <<>>
        BY <1>1, <2>2, <3>2 DEF IInv, SealsOK, Whole, SealLines
      <4>2. SealLines(w) # {}
        BY <2>3, <4>1
      <4> DEFINE last == Max(SealLines(w))
      <4>3. last \in Whole /\ LatestSeal(w) = seals[last]
        BY <2>2, <2>3, <4>2, Latest DEF Whole, SealLines
      <4> HIDE DEF last
      <4>4. seals[last].tip \in 1..events
        BY <1>1, <2>3, <4>3 DEF IInv, SealsOK, Known
      <4>5. seals[last].signer # 0 /\ LoadKey(w, seals[last].keyId) = seals[last].signer
        BY <1>1, <2>2, <2>3, <4>3 DEF IInv, KeysOK, SealsVerify, Whole, LoadKey
      <4>6. SealTip({}, w) = seals[last].tip
        BY <2>2, <3>2, <4>2, <4>3, <4>5 DEF SealTip, SealSigned
      <4>7. seals[last].tip \in Hashed(log) /\ log[seals[last].tip].id = seals[last].tip
        BY <2>3, <2>4, <2>5, <4>4 DEF Untouched
      <4>8. SealTip({}, w) # 0
        BY <4>4, <4>6
      <4> QED BY <2>2, <4>6, <4>7, <4>8 DEF runSealCheck
    <3> QED BY <3>1, <3>2
  <2>8. ~runWitnessCheck({}, w) /\ ~runRemoteWitnessCheck({}, w) /\ ~runAttestationCheck({}, w)
    BY DEF runWitnessCheck, runRemoteWitnessCheck, runAttestationCheck
  <2>9. runVerification({}, w)
    BY <2>2, <2>6, <2>7, <2>8 DEF runVerification
  <2> QED BY <2>1, <2>9 DEF w
<1>2. IInv /\ [Next]_vars =>
        [\A p \in Procs :
           /\ Verifies(p) /\ job[p].options = {} /\ job[p].log = log
           /\ damages = 0 /\ faults = 0 /\ keyWrites <= 1 /\ (sealFile => seals # <<>>)
           => passed']_vars
  BY <1>1
<1> QED BY <1>2, Invariance, PTL DEF Spec, UntouchedPasses

\* A pass means that no sealed event is missing from the log that was read
\* (SealedEventsPresent).
THEOREM SealedEventsAreThere == Spec => SealedEventsPresent
<1>1. ASSUME IInv, [Next]_vars, NEW p \in Procs, Verifies(p), passed',
             job[p].options \cap {"noSealCheck", "allowInvalid"} = {},
             ~sealedSince, \A i, j \in Whole : i < j => seals[i].tip <= seals[j].tip,
             NEW i \in Whole
      PROVE  \/ \A k \in Chained(job[p].log) : job[p].log[k].id > seals[i].tip
             \/ \E k \in Chained(job[p].log) : job[p].log[k].id = seals[i].tip
  <2>1. PICK tooOld, r : passed' = runVerification(job[p].options, World(p, tooOld, r))
    BY <1>1, VerifyStep DEF IInv
  <2> DEFINE w == World(p, tooOld, r)
             o == job[p].options
             l == job[p].log
  <2>2. w.log = l /\ w.sealFile = sealFile /\ w.seals = seals
    BY WorldFields
  <2>3. l \in Seq(Line) /\ l \in Seen /\ seals \in Seq(SealRecord)
    BY <1>1, JobFields DEF IInv, TypeOK, Seen
  <2>4. "noSealCheck" \notin o /\ "allowInvalid" \notin o
    BY <1>1
  <2>5. runVerification(o, w)
    BY <1>1, <2>1
  <2> HIDE DEF w, o, l
  <2>6. Unbroken(l)
    BY <2>2, <2>4, <2>5 DEF runVerification, ChainFails, Unbroken
  <2>7. SealTip(o, w) # 0 /\ \E k \in Hashed(l) : l[k].id = SealTip(o, w)
    <3>1. seals # <<>>
      BY <1>1 DEF Whole
    <3>2. sealFile
      BY <1>1, <3>1 DEF IInv, KeysOK
    <3> QED BY <2>2, <2>4, <2>5, <3>2 DEF runVerification, runSealCheck
  <2>8. SealTip(o, w) = LatestSeal(w).tip
    BY <2>7 DEF SealTip
  <2>9. SealLines(w) = Whole
    BY <2>2 DEF SealLines, Whole
  <2> DEFINE last == Max(SealLines(w))
  <2>10. last \in Whole /\ LatestSeal(w) = seals[last] /\ \A k \in Whole : k <= last
    BY <1>1, <2>2, <2>3, <2>9, Latest
  <2> HIDE DEF last
  <2>11. seals[i].tip \in Nat /\ seals[last].tip \in Nat /\ i \in Nat /\ last \in Nat
    <3>1. ASSUME NEW k \in DOMAIN seals PROVE k \in Nat /\ seals[k] \in SealRecord
      BY <2>3
    <3>2. i \in DOMAIN seals /\ last \in DOMAIN seals
      BY <2>10 DEF Whole
    <3> QED BY <3>1, <3>2 DEF SealRecord
  <2>12. seals[i].tip <= seals[last].tip
    BY <1>1, <2>10, <2>11
  <2>13. \A j \in DOMAIN l : l[j].id <= seals[last].tip => l[j].prev = l[j].id - 1
    BY <1>1, <2>3, <2>10 DEF IInv, SealsOK
  <2>14. PICK k0 \in Chained(l) : l[k0].id = seals[last].tip
    BY <2>3, <2>6, <2>7, <2>8, <2>10, UnbrokenLines
  <2>15. \/ \A k \in Chained(l) : l[k].id > seals[i].tip
         \/ \E k \in Chained(l) : l[k].id = seals[i].tip
    BY <2>3, <2>6, <2>11, <2>12, <2>13, <2>14, NothingMissing
  <2> QED BY <2>15 DEF l
<1>2. IInv /\ [Next]_vars =>
        [\A p \in Procs :
           /\ Verifies(p) /\ passed' /\ job[p].options \cap {"noSealCheck", "allowInvalid"} = {}
           /\ ~sealedSince /\ \A i, j \in Whole : i < j => seals[i].tip <= seals[j].tip
           => \A i \in Whole :
                LET l == job[p].log IN
                \/ \A k \in Chained(l) : l[k].id > seals[i].tip
                \/ \E k \in Chained(l) : l[k].id = seals[i].tip]_vars
  BY <1>1
<1> QED BY <1>2, Invariance, PTL DEF Spec, SealedEventsPresent

\* Neither the profile nor a configuration can leave out the attestation check
\* without dropping what it requires.
LEMMA StrictChecksAttestation ==
  ASSUME NEW o \in Options \cup {{}}, PROFILES["strict"] \subseteq o
  PROVE  "noAttestationCheck" \notin o /\ {"requireSignedAttestation", "strictAttestationFile"} \subseteq o
<1>1. {"requireSignedAttestation", "strictAttestationFile"} \subseteq o
  BY DEF PROFILES
<1>2. ASSUME "noAttestationCheck" \in o PROVE FALSE
  <2>1. PICK i \in Invocations : o = resolveVerifyDefaults(i.profile, parseConfigFile(i.config), i.flags)
    BY <1>2 DEF Options
  <2> DEFINE c == parseConfigFile(i.config)
             name == ProfileName(i.profile, c)
             defaults == IF name \in DOMAIN PROFILES THEN PROFILES[name] ELSE {}
  <2>2. c.on \subseteq ConfigOptions
    BY TrustAssumption DEF parseConfigFile, NoConfig
  <2>3. "noAttestationCheck" \notin c.on
    BY <2>2 DEF ConfigOptions
  <2>4. "noAttestationCheck" \notin defaults
    BY DEF PROFILES
  <2>5. o = (((defaults \cup c.on) \ c.off) \cup i.flags) \ Disabled(i.flags)
    BY <2>1 DEF resolveVerifyDefaults
  <2> HIDE DEF c, defaults
  <2>6. "noAttestationCheck" \in i.flags
    BY <1>2, <2>3, <2>4, <2>5
  <2>7. "strictAttestationFile" \in Disabled(i.flags)
    BY <2>6 DEF Disabled
  <2> QED BY <1>1, <2>5, <2>7
<1> QED BY <1>1, <1>2

\* A pass under the strict profile means that the chain that was read is the
\* one the attestation was made from (StrictPassIsAttested).
THEOREM StrictPassIsTheAttestedChain == Spec => StrictPassIsAttested
<1>1. ASSUME IInv, [Next]_vars, NEW p \in Procs, Verifies(p), passed',
             PROFILES["strict"] \subseteq job[p].options, "allowInvalid" \notin job[p].options
      PROVE  SameChain(job[p].log, attested)
  <2>1. PICK tooOld, r : passed' = runVerification(job[p].options, World(p, tooOld, r))
    BY <1>1, VerifyStep DEF IInv
  <2> DEFINE w == World(p, tooOld, r)
             o == job[p].options
             l == job[p].log
  <2>2. w.log = l /\ w.attestation = attestation
    BY WorldFields
  <2>3. l \in Seq(Line) /\ l \in Seen /\ attested \in Seq(Line) /\ attested \in Seen
        /\ o \in Options \cup {{}}
    BY <1>1, JobFields DEF IInv, TypeOK, Seen, Job
  <2>4. "noAttestationCheck" \notin o
        /\ {"requireSignedAttestation", "strictAttestationFile"} \subseteq o
    BY <1>1, <2>3, StrictChecksAttestation
  <2>5. runVerification(o, w) /\ "allowInvalid" \notin o
    BY <1>1, <2>1
  <2> HIDE DEF w, o, l
  <2>6. Unbroken(l)
    BY <2>2, <2>5 DEF runVerification, ChainFails, Unbroken
  <2>7. ~runAttestationCheck(o, w)
    BY <2>5 DEF runVerification
  <2>8. AttestationOptions \cap o # {} /\ {"requireAttestation", "requireSignedAttestation",
          "maxAttestationAge"} \cap o # {}
    BY <2>4 DEF AttestationOptions
  <2>9. /\ attestation # NoAttestation
        /\ ~ArtifactRejected(o, w, attestation) /\ ~BindingMismatch(o, w, attestation)
    BY <2>2, <2>4, <2>7, <2>8 DEF runAttestationCheck
  <2>10. attestation.intact /\ attestation.pass
    BY <2>4, <2>9 DEF ArtifactRejected
  <2>11. attestation.tip = ChainTip(l) /\ attestation.count = Cardinality(Chained(l))
    BY <2>2, <2>9 DEF BindingMismatch
  <2>12. /\ Unbroken(attested) /\ attestation.tip = ChainTip(attested)
         /\ attestation.count = Cardinality(Chained(attested))
    BY <1>1, <2>9, <2>10 DEF IInv, AttestOK, Vouches
  <2>13. \A i \in DOMAIN l, j \in DOMAIN attested :
           l[i].id = attested[j].id => l[i].prev = attested[j].prev
    BY <1>1, <2>3 DEF IInv, LogsOK
  <2>14. SameChain(l, attested)
    BY <2>3, <2>6, <2>11, <2>12, <2>13, SameTipSameChain
  <2> QED BY <2>14 DEF l
<1>2. IInv /\ [Next]_vars =>
        [\A p \in Procs :
           /\ Verifies(p) /\ passed'
           /\ PROFILES["strict"] \subseteq job[p].options /\ "allowInvalid" \notin job[p].options
           => SameChain(job[p].log, attested)]_vars
  BY <1>1
<1> QED BY <1>2, Invariance, PTL DEF Spec, StrictPassIsAttested
=============================================================================
