-------------------------- MODULE WorkstationProofs --------------------------
(***************************************************************************)
(* Signatures, the taint snapshot and the installed hooks, for every       *)
(* number of signers, hooks, installers, keys, commits, tools and faults.  *)
(* Each section proves the invariants of one module.                       *)
(***************************************************************************)
EXTENDS Signing, TaintStore, Installer, FiniteSetTheorems, WellFoundedInduction, TLAPS

-----------------------------------------------------------------------------
(***************************************************************************)
(* Signing: a document's source is true, and what was signed verifies.     *)
(*                                                                         *)
(* SourceIsTrue speaks of what is on disk.  The invariant that implies it  *)
(* says the same of what each process has in hand (HandsOK), and that no   *)
(* key is in both keyrings (KeysOK): a key that is made next is in         *)
(* neither, as its number is above all the others.  SignedVerifies follows *)
(* from it and from the fact that no stored document ever changes.         *)
(***************************************************************************)
Artifacts == {Artifact(c, b) : c \in Nat, b \in Branches \cup {"none"}}

Processes ==
  [pc : {"idle", "probe", "sent", "local", "refused", "generate", "clear", "activate", "store",
         "dead"},
   what : {"none", "attestation", "envelope", "rotation"}, artifact : Artifacts, key : Nat,
   source : {"none", "relay", "local", "legacy", "unsigned"}]

Keyring == [ids : SUBSET Nat, active : Nat, torn : BOOLEAN]

SigningTypes ==
  /\ keyring \in [{"user", "root"} -> Keyring]
  /\ signer \in [Signers -> Processes]
  /\ keys \in Nat /\ commits \in Nat /\ requireRelay \in BOOLEAN

\* No key is in both keyrings, and an active key is in its own.
KeysOK ==
  /\ \A k \in keyring["user"].ids \cup keyring["root"].ids : k <= keys
  /\ keyring["user"].ids \cap keyring["root"].ids = {}
  /\ \A r \in {"user", "root"} : keyring[r].active # 0 => keyring[r].active \in keyring[r].ids

\* A process that signs locally may do so, and what it has in hand is what it
\* will say of it.
HandOK(s) ==
  /\ s.what = "rotation" => s.pc \in {"generate", "clear", "activate"}
  /\ s.pc \in {"local", "generate", "clear", "activate"} => s.what = "rotation" \/ ~requireRelay
  /\ s.pc \in {"clear", "activate"} => s.key \in keyring["user"].ids
  /\ s.pc = "store" /\ s.source = "relay" =>
       s.key \in keyring["root"].ids /\ Signable(TextOf(s.what, s.artifact))
  /\ s.pc = "store" /\ s.source = "local" => s.key \in keyring["user"].ids /\ ~requireRelay

HandsOK == \A p \in Signers : HandOK(signer[p])

SigningInv == SigningTypes /\ KeysOK /\ HandsOK /\ SourceIsTrue

-----------------------------------------------------------------------------
LEMMA RestOK == Rest \in Processes /\ Rest.pc = "idle" /\ Rest.what = "none"
<1>1. Artifact(0, "none") \in Artifacts
  BY DEF Artifacts
<1> QED BY <1>1 DEF Rest, Processes

LEMMA SigningInvInit == SigningInit => SigningInv
<1> SUFFICES ASSUME SigningInit PROVE SigningInv
  OBVIOUS
<1>1. PICK root \in {{}, {1}} :
        keyring = [user |-> [ids |-> {}, active |-> 0, torn |-> FALSE],
                   root |-> [ids |-> root, active |-> Cardinality(root), torn |-> FALSE]]
  BY DEF SigningInit
<1>2. Cardinality(root) \in {0, 1} /\ (Cardinality(root) = 1 => root = {1})
  <2>1. Cardinality({}) = 0
    BY FS_EmptySet
  <2>2. Cardinality({1}) = 1
    BY FS_Singleton
  <2> QED BY <2>1, <2>2
<1>3. SigningTypes
  <2>1. keyring["user"] \in Keyring /\ keyring["root"] \in Keyring
    BY <1>1, <1>2 DEF Keyring
  <2>2. keyring \in [{"user", "root"} -> Keyring]
    BY <1>1, <2>1
  <2> QED BY <2>2, RestOK DEF SigningInit, SigningTypes
<1>4. KeysOK
  BY <1>1, <1>2 DEF SigningInit, KeysOK
<1>5. HandsOK
  BY RestOK DEF SigningInit, HandsOK, HandOK
<1>6. SourceIsTrue
  BY DEF SigningInit, SourceIsTrue
<1> QED BY <1>3, <1>4, <1>5, <1>6 DEF SigningInv

(***************************************************************************)
(* Steps that change one process and no keyring.                           *)
(***************************************************************************)
LEMMA StepOfOne ==
  ASSUME SigningInv, NEW p \in Signers, NEW s \in Processes, HandOK(s),
         signer' = [signer EXCEPT ![p] = s],
         keyring' = keyring, keys' = keys, documents' = documents, requireRelay' = requireRelay,
         commits' \in Nat
  PROVE  SigningInv'
<1>1. SigningTypes' /\ KeysOK' /\ SourceIsTrue'
  BY DEF SigningInv, SigningTypes, KeysOK, SourceIsTrue
<1>2. \A q \in Signers : HandOK(signer'[q])
  BY DEF SigningInv, SigningTypes, HandsOK
<1>3. HandsOK'
  BY <1>2 DEF HandsOK, HandOK
<1> QED BY <1>1, <1>3 DEF SigningInv

\* Jump writes one record.
LEMMA JumpIsOne ==
  ASSUME SigningTypes, NEW p \in Signers, NEW label, Jump(p, label)
  PROVE  signer' = [signer EXCEPT ![p] = [signer[p] EXCEPT !.pc = label]]
  BY DEF Jump, SigningTypes

\* Without the relay a process signs with the user's key or not at all.
LEMMA WithoutRelayIInv ==
  ASSUME SigningInv, NEW p \in Signers, WithoutRelay(p), signer[p].pc \in {"probe", "sent"},
         keyring' = keyring, keys' = keys, documents' = documents, requireRelay' = requireRelay,
         commits' = commits
  PROVE  SigningInv'
<1> DEFINE s == [signer[p] EXCEPT !.pc = IF requireRelay THEN "refused" ELSE "local"]
<1>1. signer' = [signer EXCEPT ![p] = s]
  BY JumpIsOne DEF WithoutRelay, SigningInv
<1>2. s \in Processes /\ HandOK(s)
  BY DEF SigningInv, SigningTypes, Processes, HandsOK, HandOK
<1> HIDE DEF s
<1> QED BY <1>1, <1>2, StepOfOne DEF SigningInv, SigningTypes

LEMMA StartSigningIInv ==
  ASSUME SigningInv, NEW p \in Signers, NEW b \in Branches, StartSigning(p, b) PROVE SigningInv'
<1> DEFINE s == [Rest EXCEPT !.pc = "probe", !.what = "attestation",
                             !.artifact = Artifact(commits + 1, b)]
<1>1. Artifact(commits + 1, b) \in Artifacts
  BY DEF SigningInv, SigningTypes, Artifacts
<1>2. s \in Processes /\ HandOK(s)
  BY <1>1, RestOK DEF Processes, HandOK
<1>3. signer' = [signer EXCEPT ![p] = s]
  BY DEF StartSigning
<1>4. commits' \in Nat /\ UNCHANGED <<keyring, keys, documents, requireRelay>>
  BY DEF StartSigning, SigningInv, SigningTypes
<1> HIDE DEF s
<1> QED BY <1>2, <1>3, <1>4, StepOfOne

LEMMA StartRotationIInv ==
  ASSUME SigningInv, NEW p \in Signers, StartRotation(p) PROVE SigningInv'
<1> DEFINE s == [Rest EXCEPT !.pc = "generate", !.what = "rotation"]
<1>1. s \in Processes /\ HandOK(s)
  BY RestOK DEF Processes, HandOK
<1>2. signer' = [signer EXCEPT ![p] = s]
  BY DEF StartRotation
<1> HIDE DEF s
<1> QED BY <1>1, <1>2, StepOfOne DEF StartRotation, rest, SigningInv, SigningTypes

LEMMA DiesIInv ==
  ASSUME SigningInv, NEW p \in Signers, SignerDies(p) PROVE SigningInv'
<1> DEFINE s == [Rest EXCEPT !.pc = "dead"]
<1>1. s \in Processes /\ HandOK(s)
  BY RestOK DEF Processes, HandOK
<1>2. signer' = [signer EXCEPT ![p] = s]
  BY DEF SignerDies
<1> HIDE DEF s
<1> QED BY <1>1, <1>2, StepOfOne DEF SignerDies, SigningInv, SigningTypes

LEMMA ProbeIInv ==
  ASSUME SigningInv, NEW p \in Signers, Probe(p) PROVE SigningInv'
<1> DEFINE s == [signer[p] EXCEPT !.pc = "sent"]
<1>1. signer[p].pc = "probe" /\ UNCHANGED <<keyring, keys, documents, requireRelay, commits>>
  BY DEF Probe, On, rest
<1>2. CASE WithoutRelay(p)
  BY <1>1, <1>2, WithoutRelayIInv
<1>3. CASE Jump(p, "sent")
  <2>1. s \in Processes /\ HandOK(s)
    BY <1>1 DEF SigningInv, SigningTypes, Processes, HandsOK, HandOK
  <2>2. signer' = [signer EXCEPT ![p] = s]
    BY <1>3, JumpIsOne DEF SigningInv
  <2> HIDE DEF s
  <2> QED BY <1>1, <2>1, <2>2, StepOfOne DEF SigningInv, SigningTypes
<1> QED BY <1>2, <1>3 DEF Probe

LEMMA RequestFailsIInv ==
  ASSUME SigningInv, NEW p \in Signers, sendRelayRequestFails(p) PROVE SigningInv'
<1>1. /\ signer[p].pc = "sent" /\ WithoutRelay(p)
      /\ UNCHANGED <<keyring, keys, documents, requireRelay, commits>>
  BY DEF sendRelayRequestFails, On
<1> QED BY <1>1, WithoutRelayIInv

LEMMA LocalSignIInv ==
  ASSUME SigningInv, NEW p \in Signers, LocalSign(p) PROVE SigningInv'
<1> DEFINE u == keyring["user"]
           jumped(label) == [signer[p] EXCEPT !.pc = label]
           signed == [signer[p] EXCEPT !.pc = "store", !.key = u.active, !.source = "local"]
<1>1. /\ u \in Keyring /\ signer[p] \in Processes /\ signer[p].pc = "local"
      /\ u.active # 0 => u.active \in u.ids
      /\ signer[p].what # "rotation" /\ ~requireRelay
  BY DEF LocalSign, On, SigningInv, SigningTypes, KeysOK, HandsOK, HandOK
<1>2. UNCHANGED <<keyring, keys, documents, requireRelay, commits>> /\ commits' \in Nat
  BY DEF LocalSign, rest, SigningInv, SigningTypes
<1>3. ASSUME NEW label \in {"refused", "generate"}, Jump(p, label) PROVE SigningInv'
  <2>1. jumped(label) \in Processes /\ HandOK(jumped(label))
    BY <1>1 DEF Processes, HandOK
  <2>2. signer' = [signer EXCEPT ![p] = jumped(label)]
    BY <1>3, JumpIsOne DEF SigningInv
  <2> HIDE DEF jumped
  <2> QED BY <1>2, <2>1, <2>2, StepOfOne
<1>4. CASE u.active # 0 /\ Signed(p, u.active, "local")
  <2>1. signed \in Processes /\ HandOK(signed)
    BY <1>1, <1>4 DEF Processes, HandOK, Keyring
  <2>2. signer' = [signer EXCEPT ![p] = signed]
    BY <1>4 DEF Signed
  <2> HIDE DEF signed
  <2> QED BY <1>2, <2>1, <2>2, StepOfOne
<1> QED BY <1>3, <1>4 DEF LocalSign

LEMMA UnsignedIInv ==
  ASSUME SigningInv, NEW p \in Signers, Unsigned(p) PROVE SigningInv'
<1>1. /\ signer[p] \in Processes /\ signer[p].pc = "refused" /\ signer[p].what # "rotation"
      /\ UNCHANGED <<keyring, keys, documents, requireRelay>> /\ commits' \in Nat
  BY DEF Unsigned, On, rest, SigningInv, SigningTypes, HandsOK, HandOK
<1>2. ASSUME NEW source \in {"legacy", "unsigned"}, Signed(p, 0, source) PROVE SigningInv'
  <2> DEFINE s == [signer[p] EXCEPT !.pc = "store", !.key = 0, !.source = source]
  <2>1. s \in Processes /\ HandOK(s)
    BY <1>1 DEF Processes, HandOK
  <2>2. signer' = [signer EXCEPT ![p] = s]
    BY <1>2 DEF Signed
  <2> HIDE DEF s
  <2> QED BY <1>1, <2>1, <2>2, StepOfOne
<1>3. CASE signer' = [signer EXCEPT ![p] = Rest]
  <2>1. HandOK(Rest)
    BY RestOK DEF HandOK, Rest
  <2> QED BY <1>1, <1>3, <2>1, RestOK, StepOfOne
<1> QED BY <1>2, <1>3 DEF Unsigned

-----------------------------------------------------------------------------
(***************************************************************************)
(* Steps that change a keyring: keys are added, and never removed.         *)
(***************************************************************************)
LEMMA KeysGrow ==
  ASSUME SigningInv, SigningTypes', KeysOK', requireRelay' = requireRelay, documents' = documents,
         keyring["user"].ids \subseteq keyring'["user"].ids,
         keyring["root"].ids \subseteq keyring'["root"].ids,
         NEW p \in Signers, NEW s \in Processes, HandOK(s)',
         signer' = [signer EXCEPT ![p] = s]
  PROVE  SigningInv'
<1>1. \A k \in keyring["user"].ids : k \notin keyring'["root"].ids
  BY DEF KeysOK
<1>2. \A k \in keyring["root"].ids : k \notin keyring'["user"].ids
  BY DEF KeysOK
<1>3. SourceIsTrue'
  BY <1>1, <1>2 DEF SigningInv, SourceIsTrue
<1>4. ASSUME NEW q \in Signers PROVE HandOK(signer[q])'
  <2>1. CASE q = p
    BY <2>1 DEF SigningInv, SigningTypes, HandOK
  <2>2. CASE q # p
    BY <2>2 DEF SigningInv, SigningTypes, HandsOK, HandOK
  <2> QED BY <2>1, <2>2
<1>5. HandsOK'
  BY <1>4 DEF HandsOK
<1> QED BY <1>3, <1>5 DEF SigningInv

LEMMA GenerateKeyIInv ==
  ASSUME SigningInv, NEW p \in Signers, GenerateKey(p) PROVE SigningInv'
<1> DEFINE u == keyring["user"]
           new == [u EXCEPT !.ids = u.ids \cup {keys + 1}]
<1>1. /\ signer[p] \in Processes /\ signer[p].pc = "generate"
      /\ signer[p].what = "rotation" \/ ~requireRelay
      /\ u \in Keyring /\ keyring["root"] \in Keyring /\ keys \in Nat
      /\ keys' = keys + 1 /\ keys' \in Nat
      /\ UNCHANGED <<documents, requireRelay, commits>>
  BY DEF GenerateKey, On, rest, SigningInv, SigningTypes, HandsOK, HandOK
<1>2. PICK s \in Processes : s = [signer[p] EXCEPT !.pc = "clear", !.key = keys + 1]
  BY <1>1 DEF Processes
<1>3. new \in Keyring /\ new.ids = u.ids \cup {keys'} /\ new.active = u.active
  BY <1>1 DEF Keyring
<1>4. keyring' = [keyring EXCEPT !["user"] = new]
  BY DEF GenerateKey
<1>5. signer' = [signer EXCEPT ![p] = s]
  BY <1>2 DEF GenerateKey
<1>6. s.pc = "clear" /\ s.key = keys' /\ s.what = signer[p].what
  BY <1>1, <1>2 DEF Processes
<1> HIDE DEF new
<1>7. SigningTypes'
  BY <1>1, <1>2, <1>3, <1>4, <1>5 DEF SigningInv, SigningTypes
<1>8. keyring'["user"] = new /\ keyring'["root"] = keyring["root"]
  BY <1>4 DEF SigningInv, SigningTypes
<1>9. KeysOK'
  BY <1>1, <1>3, <1>8 DEF SigningInv, KeysOK, Keyring
<1>10. HandOK(s)'
  BY <1>1, <1>3, <1>6, <1>8 DEF HandOK
<1> QED BY <1>1, <1>2, <1>3, <1>5, <1>7, <1>8, <1>9, <1>10, KeysGrow

LEMMA ClearActiveIInv ==
  ASSUME SigningInv, NEW p \in Signers, ClearActive(p) PROVE SigningInv'
<1> DEFINE u == keyring["user"]
           new == [u EXCEPT !.torn = TRUE]
<1>1. /\ signer[p] \in Processes /\ signer[p].pc = "clear" /\ HandOK(signer[p])
      /\ u \in Keyring /\ keyring["root"] \in Keyring
      /\ UNCHANGED <<keys, documents, requireRelay, commits>>
  BY DEF ClearActive, On, rest, SigningInv, SigningTypes, HandsOK
<1>2. PICK s \in Processes : s = [signer[p] EXCEPT !.pc = "activate"]
  BY <1>1 DEF Processes
<1>3. new \in Keyring /\ new.ids = u.ids /\ new.active = u.active
  BY <1>1 DEF Keyring
<1>4. keyring' = [keyring EXCEPT !["user"] = new]
  BY DEF ClearActive
<1>5. s.pc = "activate" /\ s.key = signer[p].key /\ s.what = signer[p].what
  BY <1>1, <1>2 DEF Processes
<1>6. signer' = [signer EXCEPT ![p] = s]
  BY <1>2, JumpIsOne DEF ClearActive, SigningInv
<1> HIDE DEF new
<1>7. SigningTypes'
  BY <1>1, <1>2, <1>3, <1>4, <1>6 DEF SigningInv, SigningTypes
<1>8. keyring'["user"] = new /\ keyring'["root"] = keyring["root"]
  BY <1>4 DEF SigningInv, SigningTypes
<1>9. KeysOK'
  BY <1>1, <1>3, <1>8 DEF SigningInv, KeysOK
<1>10. HandOK(s)'
  BY <1>1, <1>3, <1>5, <1>8 DEF HandOK
<1> QED BY <1>1, <1>2, <1>3, <1>6, <1>7, <1>8, <1>9, <1>10, KeysGrow

LEMMA FillActiveIInv ==
  ASSUME SigningInv, NEW p \in Signers, FillActive(p) PROVE SigningInv'
<1> DEFINE u == keyring["user"]
           k == signer[p].key
           new == [u EXCEPT !.active = k, !.torn = FALSE]
<1>1. /\ signer[p] \in Processes /\ signer[p].pc = "activate" /\ HandOK(signer[p])
      /\ u \in Keyring /\ keyring["root"] \in Keyring
      /\ UNCHANGED <<keys, documents, requireRelay, commits>>
  BY DEF FillActive, On, rest, SigningInv, SigningTypes, HandsOK
<1>2. k \in Nat /\ k \in u.ids
  BY <1>1 DEF Processes, HandOK
<1>3. new \in Keyring /\ new.ids = u.ids /\ new.active = k
  BY <1>1, <1>2 DEF Keyring
<1>4. keyring' = [keyring EXCEPT !["user"] = new]
  BY DEF FillActive
<1> HIDE DEF new
<1>5. keyring'["user"] = new /\ keyring'["root"] = keyring["root"]
  BY <1>4 DEF SigningInv, SigningTypes
<1>6. KeysOK'
  BY <1>1, <1>2, <1>3, <1>5 DEF SigningInv, KeysOK
<1>7. PICK s \in Processes :
        signer' = [signer EXCEPT ![p] = s] /\ HandOK(s)'
  <2>1. CASE signer[p].what = "rotation"
    <3>1. HandOK(Rest)'
      BY RestOK DEF HandOK
    <3> QED BY <2>1, <3>1, RestOK DEF FillActive
  <2>2. CASE signer[p].what # "rotation"
    <3>1. PICK s \in Processes :
            s = [signer[p] EXCEPT !.pc = "store", !.key = k, !.source = "local"]
      BY <1>1, <1>2 DEF Processes
    <3>2. signer' = [signer EXCEPT ![p] = s]
      BY <2>2, <3>1 DEF FillActive, Signed
    <3>3. s.pc = "store" /\ s.key = k /\ s.source = "local" /\ s.what = signer[p].what
      BY <1>1, <3>1 DEF Processes
    <3>4. HandOK(s)'
      BY <1>1, <1>2, <1>3, <1>5, <2>2, <3>3 DEF HandOK
    <3> QED BY <3>2, <3>4
  <2> QED BY <2>1, <2>2
<1>8. SigningTypes'
  BY <1>1, <1>3, <1>4, <1>7 DEF SigningInv, SigningTypes
<1> QED BY <1>1, <1>3, <1>5, <1>6, <1>7, <1>8, KeysGrow

LEMMA RelaySignsIInv ==
  ASSUME SigningInv, NEW p \in Signers, handleSign(p) PROVE SigningInv'
<1> DEFINE r == keyring["root"]
<1>1. /\ signer[p] \in Processes /\ signer[p].pc = "sent" /\ HandOK(signer[p])
      /\ r \in Keyring /\ keyring["user"] \in Keyring /\ keys \in Nat /\ keys + 1 \in Nat
      /\ UNCHANGED <<documents, requireRelay, commits>> /\ commits' \in Nat
  BY DEF handleSign, On, rest, SigningInv, SigningTypes, HandsOK
<1>2. CASE WithoutRelay(p) /\ UNCHANGED <<keyring, keys>>
  BY <1>1, <1>2, WithoutRelayIInv
<1>3. ASSUME Signable(TextOf(signer[p].what, signer[p].artifact)), r.active # 0,
             Signed(p, r.active, "relay"), UNCHANGED <<keyring, keys>>
      PROVE  SigningInv'
  <2>1. PICK s \in Processes :
          s = [signer[p] EXCEPT !.pc = "store", !.key = r.active, !.source = "relay"]
    BY <1>1 DEF Processes, Keyring
  <2>2. signer' = [signer EXCEPT ![p] = s]
    BY <1>3, <2>1 DEF Signed
  <2>3. /\ s.pc = "store" /\ s.key = r.active /\ s.source = "relay" /\ s.what = signer[p].what
        /\ s.artifact = signer[p].artifact
    BY <1>1, <2>1 DEF Processes
  <2>4. HandOK(s)
    BY <1>1, <1>3, <2>3 DEF HandOK, SigningInv, KeysOK
  <2> QED BY <1>1, <1>3, <2>2, <2>4, StepOfOne
<1>4. ASSUME Signable(TextOf(signer[p].what, signer[p].artifact)), r.active = 0,
             keys' = keys + 1, Signed(p, keys + 1, "relay"),
             keyring' = [keyring EXCEPT !["root"] =
                           [ids |-> r.ids \cup {keys + 1}, active |-> keys + 1, torn |-> FALSE]]
      PROVE  SigningInv'
  <2> DEFINE new == [ids |-> r.ids \cup {keys + 1}, active |-> keys + 1, torn |-> FALSE]
  <2>1. PICK s \in Processes :
          s = [signer[p] EXCEPT !.pc = "store", !.key = keys + 1, !.source = "relay"]
    BY <1>1 DEF Processes
  <2>2. signer' = [signer EXCEPT ![p] = s]
    BY <1>4, <2>1 DEF Signed
  <2>3. /\ s.pc = "store" /\ s.key = keys + 1 /\ s.source = "relay"
        /\ s.what = signer[p].what /\ s.artifact = signer[p].artifact
    BY <1>1, <2>1 DEF Processes
  <2>4. new \in Keyring /\ new.ids = r.ids \cup {keys + 1} /\ new.active = keys + 1
    BY <1>1 DEF Keyring
  <2>5. keyring'["root"] = new /\ keyring'["user"] = keyring["user"] /\ keys' \in Nat
    BY <1>1, <1>4 DEF SigningInv, SigningTypes
  <2>6. keyring' = [keyring EXCEPT !["root"] = new]
    BY <1>4
  <2> HIDE DEF new
  <2>7. SigningTypes'
    BY <1>1, <2>1, <2>2, <2>4, <2>5, <2>6 DEF SigningInv, SigningTypes
  <2>8. KeysOK'
    BY <1>1, <1>4, <2>4, <2>5 DEF SigningInv, KeysOK, Keyring
  <2>9. HandOK(s)'
    <3>1. s.key \in keyring'["root"].ids
      BY <2>3, <2>4, <2>5
    <3>2. s.what # "rotation" /\ Signable(TextOf(s.what, s.artifact))'
      BY <1>1, <1>4, <2>3 DEF HandOK, Signable, validateDssePae, TextOf
    <3> QED BY <2>3, <3>1, <3>2 DEF HandOK
  <2> QED BY <1>1, <1>4, <2>2, <2>4, <2>5, <2>7, <2>8, <2>9, KeysGrow
<1> QED BY <1>2, <1>3, <1>4 DEF handleSign

-----------------------------------------------------------------------------
\* What a stored document says of its signature.
LEMMA FinishedSays ==
  ASSUME NEW p \in Signers, SigningTypes
  PROVE  /\ Finished(p).signature_source = signer[p].source
         /\ Finished(p).key_id = signer[p].key
         /\ Finished(p).signature.data = TextOf(signer[p].what, signer[p].artifact)
<1> DEFINE s == signer[p]
           text == TextOf(s.what, s.artifact)
           signed == [payload_hash |-> text, signature |-> Signature(s.key, text),
                      key_id |-> s.key, signature_source |-> s.source]
           fields == DOMAIN s.artifact \cup DOMAIN signed
<1>1. Signature(s.key, text).data = text
  BY DEF Signature
<1>2. CASE s.what = "attestation"
  <2>1. Finished(p) = [f \in fields |-> IF f \in DOMAIN signed THEN signed[f] ELSE s.artifact[f]]
    BY <1>2 DEF Finished
  <2>2. {"signature_source", "key_id", "signature"} \subseteq DOMAIN signed
    OBVIOUS
  <2>3. /\ signed.signature_source = s.source /\ signed.key_id = s.key
        /\ signed.signature = Signature(s.key, text)
    OBVIOUS
  <2>4. {"signature_source", "key_id", "signature"} \subseteq fields
    BY <2>2
  <2> HIDE DEF signed, text, fields
  <2>5. \A f \in {"signature_source", "key_id", "signature"} : Finished(p)[f] = signed[f]
    BY <2>1, <2>2, <2>4
  <2>6. /\ Finished(p).signature_source = s.source /\ Finished(p).key_id = s.key
        /\ Finished(p).signature = Signature(s.key, text)
    BY <2>3, <2>5
  <2> QED BY <1>1, <2>6 DEF text
<1>3. CASE s.what # "attestation"
  <2>1. Finished(p) = [payloadType |-> text.payloadType, payload |-> text.statement,
                       signature |-> Signature(s.key, text), key_id |-> s.key,
                       signature_source |-> s.source]
    BY <1>3 DEF Finished
  <2> HIDE DEF text
  <2> QED BY <1>1, <2>1 DEF text
<1> QED BY <1>2, <1>3

LEMMA StoreSignedIInv ==
  ASSUME SigningInv, NEW p \in Signers, StoreSigned(p) PROVE SigningInv'
<1> DEFINE body == Finished(p)
<1>1. /\ signer[p] \in Processes /\ signer[p].pc = "store" /\ HandOK(signer[p])
      /\ documents' = documents \cup {[what |-> signer[p].what, body |-> body]}
      /\ UNCHANGED <<keyring, keys, requireRelay, commits>>
  BY DEF StoreSigned, On, rest, SigningInv, SigningTypes, HandsOK
<1>2. PICK s \in Processes : signer' = [signer EXCEPT ![p] = s] /\ HandOK(s)
  <2>1. CASE signer[p].what = "attestation"
    <3>1. PICK s \in Processes : s = [Rest EXCEPT !.pc = "probe", !.what = "envelope",
                                                 !.artifact = signer[p].artifact]
      BY <1>1, RestOK DEF Processes
    <3>2. s.pc = "probe" /\ s.what = "envelope"
      BY <3>1, RestOK DEF Processes
    <3>3. signer' = [signer EXCEPT ![p] = s]
      BY <2>1, <3>1 DEF StoreSigned
    <3> QED BY <3>2, <3>3 DEF HandOK
  <2>2. CASE signer[p].what # "attestation"
    <3>1. signer' = [signer EXCEPT ![p] = Rest]
      BY <2>2 DEF StoreSigned
    <3> QED BY <3>1, RestOK DEF HandOK
  <2> QED BY <2>1, <2>2
<1>3. SigningTypes' /\ KeysOK'
  BY <1>1, <1>2 DEF SigningInv, SigningTypes, KeysOK
<1>4. HandsOK'
  <2> SUFFICES ASSUME NEW q \in Signers PROVE HandOK(signer[q])'
    BY DEF HandsOK
  <2>1. CASE q = p
    BY <1>1, <1>2, <2>1 DEF SigningInv, SigningTypes, HandOK
  <2>2. CASE q # p
    BY <1>1, <1>2, <2>2 DEF SigningInv, SigningTypes, HandsOK, HandOK
  <2> QED BY <2>1, <2>2
<1>5. SourceIsTrue'
  <2>1. /\ body.signature_source = "relay" =>
             /\ body.key_id \in keyring["root"].ids \ keyring["user"].ids
             /\ Signable(body.signature.data)
        /\ body.signature_source = "local" =>
             ~requireRelay /\ body.key_id \in keyring["user"].ids \ keyring["root"].ids
    BY <1>1, FinishedSays DEF SigningInv, KeysOK, HandOK
  <2> HIDE DEF body
  <2>2. \A d \in documents' : d \in documents \/ d.body = body
    BY <1>1
  <2>3. keyring' = keyring /\ requireRelay' = requireRelay
    BY <1>1
  <2>4. \A t : Signable(t)' <=> Signable(t)
    BY DEF Signable, validateDssePae
  <2> QED BY <2>1, <2>2, <2>3 DEF SigningInv, SourceIsTrue, Signable, validateDssePae
<1> QED BY <1>3, <1>4, <1>5 DEF SigningInv

LEMMA SigningInvNext == SigningInv /\ [SigningNext]_signingVars => SigningInv'
<1> SUFFICES ASSUME SigningInv, [SigningNext]_signingVars PROVE SigningInv'
  OBVIOUS
<1>1. ASSUME NEW p \in Signers, (\E b \in Branches : StartSigning(p, b)) \/ StartRotation(p)
      PROVE  SigningInv'
  BY <1>1, StartSigningIInv, StartRotationIInv
<1>2. ASSUME NEW p \in Signers, SigningStep(p) \/ SignerDies(p) PROVE SigningInv'
  BY <1>2, ProbeIInv, RelaySignsIInv, RequestFailsIInv, LocalSignIInv, GenerateKeyIInv,
     ClearActiveIInv, FillActiveIInv, StoreSignedIInv, UnsignedIInv, DiesIInv DEF SigningStep
<1>3. ASSUME UNCHANGED <<keyring, requireRelay, signer, documents, commits, keys>> PROVE SigningInv'
  BY <1>3 DEF SigningInv, SigningTypes, KeysOK, HandsOK, HandOK, SourceIsTrue
<1>4. CASE RelayChanges
  BY <1>3, <1>4 DEF RelayChanges
<1>5. CASE UNCHANGED signingVars
  BY <1>3, <1>5 DEF signingVars
<1> QED BY <1>1, <1>2, <1>4, <1>5 DEF SigningNext

(***************************************************************************)
(* However many hooks sign and rotate keys, whatever the relay does and    *)
(* whoever dies in between, a document signed by "relay" carries a key of  *)
(* root's keyring that no user has and a text the relay accepts, and with  *)
(* PATCHWORK_REQUIRE_RELAY none is signed by "local".                      *)
(***************************************************************************)
THEOREM SourcesAreTrue == SigningInit /\ [][SigningNext]_signingVars => []SourceIsTrue
<1>1. SigningInit => SigningInv
  BY SigningInvInit
<1>2. SigningInv /\ [SigningNext]_signingVars => SigningInv'
  BY SigningInvNext
<1>3. SigningInv => SourceIsTrue
  BY DEF SigningInv
<1> QED BY <1>1, <1>2, <1>3, PTL

-----------------------------------------------------------------------------
(***************************************************************************)
(* SignedVerifies.  Whoever verifies a document computes the signed text   *)
(* again from the document; it is the text that was signed, because the    *)
(* four fields that signing adds are those the payload leaves out.  So a   *)
(* document is intact from the step that stores it, whatever happens to    *)
(* the keyrings later, and SourceIsTrue says where its key is.             *)
(***************************************************************************)
\* The text a verifier computes from a document that was read back.
TextRead(d) ==
  IF d.what = "attestation" THEN buildAttestationPayload(d.body)
  ELSE dssePAE(d.body.payloadType, d.body.payload)

Intact(d) ==
  /\ d.body.signature = Signature(d.body.key_id, TextRead(d))
  /\ d.what = "attestation" => d.body.payload_hash = TextRead(d)

DocumentsIntact == \A d \in documents : Intact(d)

\* Signing adds only fields that the payload leaves out.
LEMMA PayloadSurvivesSigning ==
  ASSUME NEW p \in Signers, SigningTypes, signer[p].what = "attestation"
  PROVE  /\ buildAttestationPayload(Finished(p)) = buildAttestationPayload(signer[p].artifact)
         /\ Finished(p).payload_hash = buildAttestationPayload(signer[p].artifact)
<1> DEFINE s == signer[p]
           text == TextOf(s.what, s.artifact)
           signed == [payload_hash |-> text, signature |-> Signature(s.key, text),
                      key_id |-> s.key, signature_source |-> s.source]
           fields == DOMAIN s.artifact \cup DOMAIN signed
           body == Finished(p)
           kept == {"kind", "schema_version", "commit_sha", "branch", "risk_summary"}
<1>1. body = [f \in fields |-> IF f \in DOMAIN signed THEN signed[f] ELSE s.artifact[f]]
  BY DEF Finished
<1>2. DOMAIN signed = EXCLUDED_FIELDS
  BY DEF EXCLUDED_FIELDS
<1>3. signed.payload_hash = text
  OBVIOUS
<1>4. DOMAIN s.artifact = kept
  <2>1. s.artifact \in Artifacts
    BY DEF SigningTypes, Processes
  <2>2. PICK c \in Nat, b \in Branches \cup {"none"} : s.artifact = Artifact(c, b)
    BY <2>1 DEF Artifacts
  <2> QED BY <2>2 DEF Artifact
<1> HIDE DEF text, signed, body
<1>5. DOMAIN body = kept \cup EXCLUDED_FIELDS
  BY <1>1, <1>2, <1>4
<1>6. \A f \in kept : f \notin EXCLUDED_FIELDS /\ body[f] = s.artifact[f]
  BY <1>1, <1>2, <1>4 DEF EXCLUDED_FIELDS
<1>7. body.payload_hash = text
  BY <1>1, <1>2, <1>3 DEF EXCLUDED_FIELDS
<1>8. /\ DOMAIN body \ EXCLUDED_FIELDS = kept
      /\ DOMAIN s.artifact \ EXCLUDED_FIELDS = kept
  BY <1>4, <1>5, <1>6
<1>9. buildAttestationPayload(body) = [kind |-> "json", text |-> [f \in kept |-> body[f]]]
  BY <1>8 DEF buildAttestationPayload
<1>10. buildAttestationPayload(s.artifact)
         = [kind |-> "json", text |-> [f \in kept |-> s.artifact[f]]]
  BY <1>8 DEF buildAttestationPayload
<1>11. [f \in kept |-> body[f]] = [f \in kept |-> s.artifact[f]]
  BY <1>6
<1>12. text = buildAttestationPayload(s.artifact)
  BY DEF text, TextOf
<1> QED BY <1>7, <1>9, <1>10, <1>11, <1>12 DEF body

\* A document is intact when it is stored.
LEMMA StoredIntact ==
  ASSUME NEW p \in Signers, SigningTypes
  PROVE  Intact([what |-> signer[p].what, body |-> Finished(p)])
<1> DEFINE s == signer[p]
           d == [what |-> s.what, body |-> Finished(p)]
<1>1. Finished(p).signature = Signature(s.key, TextOf(s.what, s.artifact))
  <2> DEFINE text == TextOf(s.what, s.artifact)
             signed == [payload_hash |-> text, signature |-> Signature(s.key, text),
                        key_id |-> s.key, signature_source |-> s.source]
             fields == DOMAIN s.artifact \cup DOMAIN signed
  <2>1. CASE s.what = "attestation"
    <3>1. Finished(p) = [f \in fields |-> IF f \in DOMAIN signed THEN signed[f]
                                          ELSE s.artifact[f]]
      BY <2>1 DEF Finished
    <3>2. "signature" \in DOMAIN signed /\ signed.signature = Signature(s.key, text)
      OBVIOUS
    <3> HIDE DEF signed, text
    <3>3. "signature" \in fields
      BY <3>2
    <3> QED BY <3>1, <3>2, <3>3 DEF text
  <2>2. CASE s.what # "attestation"
    BY <2>2 DEF Finished
  <2> QED BY <2>1, <2>2
<1>2. Finished(p).key_id = s.key
  BY FinishedSays
<1>3. d.what = s.what /\ d.body = Finished(p)
  OBVIOUS
<1> HIDE DEF d
<1>4. CASE s.what = "attestation"
  <2>1. TextRead(d) = TextOf(s.what, s.artifact)
    BY <1>3, <1>4, PayloadSurvivesSigning DEF TextRead, TextOf
  <2>2. Finished(p).payload_hash = TextRead(d)
    BY <1>4, <2>1, PayloadSurvivesSigning DEF TextOf
  <2> QED BY <1>1, <1>2, <1>3, <2>1, <2>2 DEF Intact, d
<1>5. CASE s.what # "attestation"
  <2> DEFINE text == TextOf(s.what, s.artifact)
  <2>1. Finished(p).payloadType = text.payloadType /\ Finished(p).payload = text.statement
    BY <1>5 DEF Finished
  <2>2. text = dssePAE(text.payloadType, text.statement)
    BY <1>5 DEF TextOf, dssePAE
  <2> HIDE DEF text
  <2>3. TextRead(d) = text
    BY <1>3, <1>5, <2>1, <2>2 DEF TextRead
  <2> QED BY <1>1, <1>2, <1>3, <1>5, <2>3 DEF Intact, text, d
<1> QED BY <1>4, <1>5

LEMMA DocumentsIntactNext ==
  SigningInv /\ DocumentsIntact /\ [SigningNext]_signingVars => DocumentsIntact'
<1> SUFFICES ASSUME SigningInv, DocumentsIntact, [SigningNext]_signingVars PROVE DocumentsIntact'
  OBVIOUS
<1>1. ASSUME NEW p \in Signers, StoreSigned(p) PROVE DocumentsIntact'
  <2>1. documents' = documents \cup {[what |-> signer[p].what, body |-> Finished(p)]}
    BY <1>1 DEF StoreSigned
  <2>2. Intact([what |-> signer[p].what, body |-> Finished(p)])
    BY StoredIntact DEF SigningInv
  <2>3. \A d \in documents' : Intact(d)
    BY <2>1, <2>2 DEF DocumentsIntact
  <2> QED BY <2>3 DEF DocumentsIntact
<1>2. ASSUME UNCHANGED documents PROVE DocumentsIntact'
  BY <1>2 DEF DocumentsIntact
<1>3. (\E p \in Signers : StoreSigned(p)) \/ UNCHANGED documents
  BY DEF SigningNext, SigningStep, StartSigning, StartRotation, Probe, handleSign,
         sendRelayRequestFails, LocalSign, GenerateKey, ClearActive, FillActive, Unsigned,
         SignerDies, RelayChanges, signingVars
<1> QED BY <1>1, <1>2, <1>3

\* An intact document whose key is where its source says is verified.
LEMMA IntactVerifies == SigningTypes /\ SourceIsTrue /\ DocumentsIntact => SignedVerifies
<1> SUFFICES ASSUME SourceIsTrue, DocumentsIntact,
                    NEW d \in documents, d.body.signature_source \in {"local", "relay"}
             PROVE  \/ Verify(d).verified
                    \/ /\ Verify(d).reason = "no_key_available"
                       /\ d.body.signature_source = "relay" /\ relay # "up"
  BY DEF SignedVerifies
<1> DEFINE text == TextRead(d)
           asked == requestVerification(text, d.body.signature, d.body.key_id)
<1>1. Intact(d)
  BY DEF DocumentsIntact
<1>2. Verify(d) = asked
  <2>1. CASE d.what = "attestation"
    BY <1>1, <2>1 DEF Verify, verifyCommitAttestation, Intact, TextRead
  <2>2. CASE d.what # "attestation"
    BY <2>2 DEF Verify, verifyDsseEnvelope, TextRead
  <2> QED BY <2>1, <2>2
<1>3. verifySeal(text, d.body.signature, d.body.key_id)
  BY <1>1 DEF verifySeal, Intact
<1> HIDE DEF text
<1>4. CASE d.body.signature_source = "local"
  <2>1. d.body.key_id \in keyring["user"].ids
    BY <1>4 DEF SourceIsTrue
  <2> QED BY <1>2, <1>3, <2>1 DEF requestVerification
<1>5. CASE d.body.signature_source = "relay"
  <2>1. d.body.key_id \in keyring["root"].ids \ keyring["user"].ids
    BY <1>5 DEF SourceIsTrue
  <2>2. CASE relay = "up"
    BY <1>2, <1>3, <2>1, <2>2 DEF requestVerification, handleVerify
  <2>3. CASE relay # "up"
    BY <1>2, <1>5, <2>1, <2>3 DEF requestVerification
  <2> QED BY <2>2, <2>3
<1> QED BY <1>4, <1>5

(***************************************************************************)
(* However many keys are made and rotated, whatever the relay does and     *)
(* whoever dies in between: every attestation and envelope that carries a  *)
(* signature of a keyring is verified at any later time, or has to wait    *)
(* for the relay that signed it.                                           *)
(***************************************************************************)
THEOREM SignaturesVerify == SigningInit /\ [][SigningNext]_signingVars => []SignedVerifies
<1>1. SigningInit => SigningInv /\ DocumentsIntact
  BY SigningInvInit DEF SigningInit, DocumentsIntact
<1>2. SigningInv /\ DocumentsIntact /\ [SigningNext]_signingVars => (SigningInv /\ DocumentsIntact)'
  BY SigningInvNext, DocumentsIntactNext
<1>3. SigningInv /\ DocumentsIntact => SignedVerifies
  BY IntactVerifies DEF SigningInv
<1> QED BY <1>1, <1>2, <1>3, PTL

-----------------------------------------------------------------------------
(***************************************************************************)
(* TaintStore: no update is lost, and only a human's clear-taint makes the *)
(* active taint shrink.                                                    *)
(***************************************************************************)
USE ConstantsAssumption

\* The hook in the locked section owns the lock file, so there is one at most.
Owned ==
  ~stolen => \A c \in Calls : pc[c] \in Locked => lock # NoLock /\ lock.owner = c

\* Only the write in progress hides the snapshot from loadOrInitSnapshot.
Visible ==
  ~stolen /\ crashes = 0 /\ pending => \E c \in Calls : pc[c] \in {"write", "unmark"}

Keeps(s, t) == s.active \subseteq t.active /\ Recorded(s) \subseteq Recorded(t)

\* What a hook is about to write keeps all that the file holds by now.
Fresh ==
  ~stolen /\ ~raced /\ crashes = 0 /\ snapshot # NoSnapshot =>
    \A c \in Calls : pc[c] \in {"mark", "write"} => Keeps(snapshot, folded[c])

ToolsKnown == \A c \in Calls : pc[c] # "idle" => tool[c] \in Tools

IInv ==
  TypeOK /\ ToolsKnown /\ Owned /\ Visible /\ Fresh /\ NoLostUpdate

-----------------------------------------------------------------------------
\* A hook raises sources of its own call only.
LEMMA RaisedIsSource ==
  ASSUME NEW s, NEW c \in Calls, tool[c] \in Tools
  PROVE  Raised(s, c) \subseteq Source
<1>1. RAISES_FOR_TOOL[tool[c]] \subseteq ALL_TAINT_KINDS
  BY DEF RAISES_FOR_TOOL, ALL_TAINT_KINDS
<1> QED BY <1>1 DEF Raised, Source

\* Folding the taint of a call into a snapshot loses nothing of it.
LEMMA FoldKeeps ==
  ASSUME NEW s \in Snapshot, NEW c \in Calls, tool[c] \in Tools
  PROVE  Fold(s, c) \in Snapshot /\ Keeps(s, Fold(s, c))
<1>1. Fold(s, c) = [s EXCEPT !.active = s.active \cup Raised(s, c)]
  BY DEF Fold
<1>2. PICK r \in SUBSET Source : r = Raised(s, c)
  BY RaisedIsSource
<1>3. /\ Fold(s, c).active = s.active \cup r /\ Fold(s, c).cleared = s.cleared
      /\ Fold(s, c) \in Snapshot
  BY <1>1, <1>2 DEF Snapshot
<1> QED BY <1>3 DEF Keeps, Recorded

\* Clearing kinds moves their sources and records the same ones as before.
LEMMA ClearKeepsRecorded ==
  ASSUME NEW s \in Snapshot, NEW kinds
  PROVE  /\ clearTaint(s, kinds) \in Snapshot
         /\ Recorded(clearTaint(s, kinds)) = Recorded(s)
         /\ clearTaint(s, kinds).active = {x \in s.active : x[1] \notin kinds}
BY DEF clearTaint, Recorded, Snapshot

\* The snapshots the code starts from.
LEMMA LoadedOK ==
  ASSUME TypeOK PROVE createSnapshot \in Snapshot /\ loadOrInitSnapshot \in Snapshot
BY DEF createSnapshot, Snapshot, TypeOK, loadOrInitSnapshot, readTaintSnapshot

-----------------------------------------------------------------------------
LEMMA InitIInv == Init => IInv
<1> SUFFICES ASSUME Init PROVE IInv
  OBVIOUS
<1> USE DEF Init
<1>1. TypeOK
  BY DEF TypeOK, NoClear, createSnapshot, Snapshot
<1>2. ToolsKnown /\ Owned /\ Visible /\ Fresh /\ NoLostUpdate
  BY DEF ToolsKnown, Owned, Visible, Fresh, NoLostUpdate, Locked
<1> QED BY <1>1, <1>2 DEF IInv

\* One hook in the locked section excludes the others.
LEMMA OneHolder ==
  ASSUME Owned, ~stolen, NEW c \in Calls, NEW d \in Calls,
         pc[c] \in Locked, pc[d] \in Locked
  PROVE  c = d
BY DEF Owned

LEMMA PostToolUseIInv ==
  ASSUME IInv, NEW c \in Calls, NEW t \in Tools, PostToolUse(c, t) PROVE IInv'
<1> USE DEF IInv, PostToolUse, Goto, files, history, counters
<1>1. TypeOK' /\ ToolsKnown'
  BY DEF TypeOK, ToolsKnown
<1>2. Owned'
  BY DEF Owned, TypeOK, Locked
<1>3. Visible' /\ Fresh' /\ NoLostUpdate'
  BY DEF Visible, Fresh, Keeps, Recorded, NoLostUpdate, TypeOK
<1> QED BY <1>1, <1>2, <1>3

LEMMA LockIInv ==
  ASSUME IInv, NEW c \in Calls,
         Acquire(c) \/ LockExists(c) \/ StatLock(c) \/ UnlinkStale(c) \/ Release(c)
  PROVE  IInv'
<1> USE DEF IInv, Goto, Forget, files, history, counters
<1>1. TypeOK'
  <2>1. CASE Acquire(c)
    <3>1. lock' \in LockFile
      BY <2>1 DEF Acquire, LockFile
    <3> QED BY <2>1, <3>1 DEF TypeOK, Acquire, Locked
  <2>2. CASE LockExists(c)
    BY <2>2 DEF TypeOK, LockExists, Locked
  <2>3. CASE StatLock(c)
    BY <2>3 DEF TypeOK, StatLock, Locked
  <2>4. CASE UnlinkStale(c)
    BY <2>4 DEF TypeOK, UnlinkStale, Held, Locked
  <2>5. CASE Release(c)
    BY <2>5, LoadedOK DEF TypeOK, Release, Held, Locked
  <2> QED BY <2>1, <2>2, <2>3, <2>4, <2>5
<1>2. ToolsKnown'
  BY DEF TypeOK, ToolsKnown, Acquire, LockExists, StatLock, UnlinkStale, Release
<1>3. Owned'
  <2>1. CASE Acquire(c)
    <3>1. lock' \in LockFile /\ lock'.owner = c
      BY <2>1 DEF Acquire, LockFile
    <3>2. ASSUME ~stolen, NEW d \in Calls PROVE pc[d] \notin Locked
      BY <2>1, <3>2 DEF Owned, Acquire
    <3>3. lock' # NoLock
      BY <3>1
    <3> QED BY <2>1, <3>1, <3>2, <3>3 DEF Owned, Acquire, TypeOK, Locked
  <2>2. CASE LockExists(c) \/ StatLock(c)
    BY <2>2 DEF Owned, LockExists, StatLock, TypeOK, Locked
  <2>3. CASE UnlinkStale(c)
    <3> SUFFICES ASSUME ~stolen', NEW d \in Calls, pc'[d] \in Locked PROVE FALSE
      BY DEF Owned
    <3>1. pc[d] \in Locked /\ ~stolen /\ ~Held(lock)
      BY <2>3 DEF UnlinkStale, TypeOK, Locked
    <3> QED BY <3>1 DEF Owned, Held
  <2>4. CASE Release(c)
    <3> SUFFICES ASSUME ~stolen', NEW d \in Calls, pc'[d] \in Locked PROVE FALSE
      BY DEF Owned
    <3>1. d # c /\ pc[d] \in Locked /\ pc[c] \in Locked /\ ~stolen
      BY <2>4 DEF Release, TypeOK, Locked
    <3> QED BY <3>1, OneHolder
  <2> QED BY <2>1, <2>2, <2>3, <2>4
<1>4. /\ \A d \in Calls : pc'[d] \in {"mark", "write", "unmark"} => pc'[d] = pc[d] /\ folded'[d] = folded[d]
      /\ \A d \in Calls : pc[d] \in {"mark", "write", "unmark"} => pc'[d] = pc[d]
      /\ UNCHANGED <<snapshot, pending, crashes, raced, committed>> /\ (~stolen' => ~stolen)
  BY DEF TypeOK, Acquire, LockExists, StatLock, UnlinkStale, Release
<1>5. Visible' /\ Fresh' /\ NoLostUpdate'
  BY <1>4 DEF Visible, Fresh, Keeps, Recorded, NoLostUpdate
<1> QED BY <1>1, <1>2, <1>3, <1>5

LEMMA LoadIInv ==
  ASSUME IInv, NEW c \in Calls, Load(c) PROVE IInv'
<1> USE DEF IInv, Load, Goto, files, history, counters
<1>1. /\ tool[c] \in Tools /\ pc[c] \in Locked /\ loadOrInitSnapshot \in Snapshot
      /\ Fold(loadOrInitSnapshot, c) \in Snapshot
      /\ Keeps(loadOrInitSnapshot, Fold(loadOrInitSnapshot, c))
  BY LoadedOK, FoldKeeps DEF ToolsKnown, Locked
<1>2. TypeOK' /\ ToolsKnown'
  BY <1>1 DEF TypeOK, ToolsKnown, Locked
<1>3. Owned'
  BY <1>1 DEF Owned, TypeOK, Locked
<1>4. Visible' /\ NoLostUpdate'
  BY DEF Visible, NoLostUpdate, Recorded, TypeOK
<1>5. Fresh'
  <2> SUFFICES ASSUME ~stolen, ~raced, crashes = 0, snapshot # NoSnapshot, NEW d \in Calls,
                      pc'[d] \in {"mark", "write"}
               PROVE  Keeps(snapshot, folded'[d])
    BY DEF Fresh, Keeps, Recorded
  <2>1. CASE d = c
    <3>1. ~pending
      BY <1>1, OneHolder DEF Visible, Locked
    <3>2. loadOrInitSnapshot = snapshot
      BY <3>1 DEF loadOrInitSnapshot, readTaintSnapshot
    <3> QED BY <1>1, <2>1, <3>2 DEF TypeOK
  <2>2. CASE d # c
    BY <2>2 DEF Fresh, TypeOK
  <2> QED BY <2>1, <2>2
<1> QED BY <1>2, <1>3, <1>4, <1>5

LEMMA MarkIInv ==
  ASSUME IInv, NEW c \in Calls, SetPendingMarker(c) \/ WriteFails(c) \/ ClearPendingMarker(c)
  PROVE  IInv'
<1> USE DEF IInv, SetPendingMarker, WriteFails, ClearPendingMarker, Goto, files, history,
             counters
<1>1. TypeOK' /\ ToolsKnown'
  <2>1. CASE SetPendingMarker(c)
    <3>1. pending' \in BOOLEAN
      BY <2>1 DEF TypeOK
    <3>2. faults' \in Nat
      BY <2>1 DEF TypeOK
    <3>3. pc' = [pc EXCEPT ![c] = "write"]
      BY <2>1
    <3> QED BY <2>1, <3>1, <3>2, <3>3 DEF TypeOK, ToolsKnown, Locked
  <2>2. CASE WriteFails(c)
    BY <2>2 DEF TypeOK, ToolsKnown, Locked
  <2>3. CASE ClearPendingMarker(c)
    BY <2>3 DEF TypeOK, ToolsKnown, Locked
  <2> QED BY <2>1, <2>2, <2>3
<1>2. Owned'
  BY DEF Owned, TypeOK, Locked
<1>3. Visible' /\ NoLostUpdate'
  BY DEF Visible, NoLostUpdate, Recorded, TypeOK
<1>4. Fresh'
  BY DEF Fresh, Keeps, Recorded, TypeOK
<1> QED BY <1>1, <1>2, <1>3, <1>4

LEMMA WriteSnapshotIInv ==
  ASSUME IInv, NEW c \in Calls, WriteSnapshot(c) PROVE IInv'
<1> USE DEF IInv, WriteSnapshot, Goto, files, history, counters
<1>1. /\ pc[c] = "write" /\ pc[c] \in Locked /\ folded[c] \in Snapshot /\ snapshot' = folded[c]
      /\ UNCHANGED folded
  BY DEF TypeOK, Locked
<1>2. TypeOK' /\ ToolsKnown'
  BY <1>1 DEF TypeOK, ToolsKnown, Locked, Snapshot
<1>3. Owned' /\ Visible'
  BY <1>1 DEF Owned, Visible, TypeOK, Locked
<1>4. Fresh'
  <2> SUFFICES ASSUME ~stolen, NEW d \in Calls, pc'[d] \in {"mark", "write"} PROVE FALSE
    BY DEF Fresh
  <2>1. d # c /\ pc[d] \in Locked
    BY DEF TypeOK, Locked
  <2> QED BY <1>1, <2>1, OneHolder
<1>5. NoLostUpdate'
  <2> SUFFICES ASSUME crashes = 0, ~stolen, ~raced
               PROVE  folded[c] # NoSnapshot /\ committed' \subseteq Recorded(folded[c])
    BY <1>1 DEF NoLostUpdate, Recorded
  <2>1. committed \subseteq Recorded(folded[c])
    BY <1>1 DEF NoLostUpdate, Fresh, Keeps
  <2> QED BY <1>1, <2>1 DEF Recorded
<1> QED BY <1>2, <1>3, <1>4, <1>5

LEMMA ClearIInv ==
  ASSUME IInv,
         (\E kinds \in ClearChoices, allow \in BOOLEAN : ClearTaint(kinds, allow)) \/ ClearLoad
  PROVE  IInv'
<1>1. UNCHANGED <<files, hooks, history, crashes, faults>>
  BY DEF ClearTaint, ClearLoad, counters
<1>2. /\ clear' \in [at : {"idle", "load", "write"}, kinds : SUBSET ALL_TAINT_KINDS,
                     allowSecret : BOOLEAN, loaded : Snapshot]
      /\ clears' \in Nat
  <2>1. CASE ClearLoad
    <3>1. NoClear \in [at : {"idle", "load", "write"}, kinds : SUBSET ALL_TAINT_KINDS,
                       allowSecret : BOOLEAN, loaded : Snapshot]
      BY LoadedOK DEF IInv, NoClear
    <3>2. clears' = clears
      BY <2>1 DEF ClearLoad, counters
    <3> QED BY <2>1, <3>1, <3>2, LoadedOK DEF ClearLoad, IInv, TypeOK
  <2>2. ASSUME NEW kinds \in ClearChoices, NEW allow \in BOOLEAN, ClearTaint(kinds, allow)
        PROVE  <1>2!1 /\ <1>2!2
    <3>1. kinds \in SUBSET ALL_TAINT_KINDS
      BY DEF ClearChoices
    <3> DEFINE Clear == [at : {"idle", "load", "write"}, kinds : SUBSET ALL_TAINT_KINDS,
                         allowSecret : BOOLEAN, loaded : Snapshot]
    <3>2. [clear EXCEPT !.at = "load"] \in Clear
      BY DEF IInv, TypeOK
    <3>3. [[clear EXCEPT !.at = "load"] EXCEPT !.kinds = kinds] \in Clear
      BY <3>1, <3>2
    <3>4. ASSUME NEW d \in Clear PROVE [d EXCEPT !.allowSecret = allow] \in Clear
      OBVIOUS
    <3>5. clear' = [[[clear EXCEPT !.at = "load"] EXCEPT !.kinds = kinds] EXCEPT
                      !.allowSecret = allow]
      BY <2>2 DEF ClearTaint
    <3>6. clears' \in Nat
      <4>1. clears' = clears + 1
        BY <2>2 DEF ClearTaint
      <4>2. clears \in Nat
        BY DEF IInv, TypeOK
      <4> QED BY <4>1, <4>2
    <3> QED BY <3>3, <3>4, <3>5, <3>6
  <2> QED BY <2>1, <2>2
<1>3. TypeOK'
  BY <1>1, <1>2 DEF IInv, TypeOK, files, hooks, history
<1>4. ToolsKnown' /\ Owned' /\ Visible'
  BY <1>1 DEF IInv, ToolsKnown, Owned, Visible, files, hooks, history
<1>5. Fresh' /\ NoLostUpdate'
  BY <1>1 DEF IInv, Fresh, Keeps, NoLostUpdate, Recorded, files, hooks, history
<1> QED BY <1>3, <1>4, <1>5 DEF IInv

LEMMA ClearWriteIInv ==
  ASSUME IInv, ClearWrite PROVE IInv'
<1> DEFINE new == clearTaint(clear.loaded, Accepted(clear.kinds, clear.allowSecret))
<1> USE DEF IInv, hooks, counters
<1>1. /\ clear.loaded \in Snapshot /\ new \in Snapshot /\ Recorded(new) = Recorded(clear.loaded)
      /\ new.active \subseteq clear.loaded.active
  BY ClearKeepsRecorded DEF TypeOK
<1>2. snapshot' = new /\ (~raced' => ~raced /\ snapshot = clear.loaded)
      /\ clear' = NoClear /\ raced' \in BOOLEAN
      /\ UNCHANGED <<pending, lock, pc, tool, folded, committed, stolen, crashes, faults, clears>>
  BY DEF ClearWrite, TypeOK
<1> HIDE DEF new
<1>3. TypeOK'
  BY <1>1, <1>2, LoadedOK DEF TypeOK, NoClear
<1>4. ToolsKnown' /\ Owned' /\ Visible'
  BY <1>2 DEF ToolsKnown, Owned, Visible
<1>5. new # NoSnapshot
  BY <1>1
<1>6. Fresh'
  BY <1>1, <1>2 DEF Fresh, Keeps, Recorded
<1>7. NoLostUpdate'
  BY <1>1, <1>2, <1>5 DEF NoLostUpdate, Recorded
<1> QED BY <1>3, <1>4, <1>6, <1>7

LEMMA CrashIInv ==
  ASSUME IInv, NEW c \in Calls, Crash(c) PROVE IInv'
<1> USE DEF IInv, Crash, Goto, Forget, files, history
<1>1. TypeOK' /\ ToolsKnown' /\ Owned'
  BY LoadedOK DEF TypeOK, ToolsKnown, Owned, Locked
<1>2. crashes' # 0
  BY DEF TypeOK
<1>3. Visible' /\ Fresh' /\ NoLostUpdate'
  BY <1>2 DEF Visible, Fresh, NoLostUpdate
<1> QED BY <1>1, <1>3

LEMMA AgeIInv ==
  ASSUME IInv, Age PROVE IInv'
<1> USE DEF IInv, Age, hooks, history, counters
<1>1. lock' \in LockFile /\ lock'.owner = lock.owner
  BY DEF TypeOK, LockFile
<1>2. TypeOK' /\ ToolsKnown' /\ Visible' /\ Fresh' /\ NoLostUpdate'
  BY <1>1 DEF TypeOK, ToolsKnown, Visible, Fresh, Keeps, NoLostUpdate, Recorded
<1>3. Owned'
  BY <1>1 DEF Owned
<1> QED BY <1>2, <1>3

LEMMA NextIInv ==
  ASSUME IInv, [Next]_vars PROVE IInv'
<1>1. CASE \E c \in Calls : \E t \in Tools : PostToolUse(c, t)
  BY <1>1, PostToolUseIInv
<1>2. CASE \E c \in Calls : Step(c)
  BY <1>2, LockIInv, LoadIInv, MarkIInv, WriteSnapshotIInv DEF Step
<1>3. CASE (\E kinds \in ClearChoices, allow \in BOOLEAN : ClearTaint(kinds, allow)) \/ ClearLoad
  BY <1>3, ClearIInv
<1>4. CASE ClearWrite
  BY <1>4, ClearWriteIInv
<1>5. CASE \E c \in Calls : Crash(c)
  BY <1>5, CrashIInv
<1>6. CASE Age
  BY <1>6, AgeIInv
<1>7. CASE UNCHANGED vars
  BY <1>7 DEF vars, files, hooks, history, counters, IInv, TypeOK, ToolsKnown, Owned, Visible,
              Fresh, Keeps, NoLostUpdate, Recorded
<1> QED BY <1>1, <1>2, <1>3, <1>4, <1>5, <1>6, <1>7 DEF Next

\* The invariant holds in every reachable state.
THEOREM Invariance == Spec => []IInv
<1>1. IInv /\ [Next]_vars => IInv'
  BY NextIInv
<1> QED BY <1>1, InitIInv, PTL DEF Spec

\* Every snapshot file that a hook or clear-taint writes is well formed.
THEOREM TypeCorrect == Spec => []TypeOK
<1>1. IInv => TypeOK
  BY DEF IInv
<1> QED BY <1>1, Invariance, PTL

\* A taint source that a hook recorded is never lost to another hook's update
\* (withSessionLock, doFoldedUpdate, clearTaint).
THEOREM UpdatesAreKept == Spec => []NoLostUpdate
<1>1. IInv => NoLostUpdate
  BY DEF IInv
<1> QED BY <1>1, Invariance, PTL

-----------------------------------------------------------------------------
\* Whatever step makes a source inactive is clear-taint's, for its kind.
LEMMA ShrinkIsAClear ==
  ASSUME IInv, Next, crashes = 0, ~stolen', ~raced', snapshot # NoSnapshot,
         NEW x \in snapshot.active \ snapshot'.active
  PROVE  /\ clear.at = "write" /\ x[1] \in clear.kinds
         /\ x[1] = "secret" => clear.allowSecret
<1>1. CASE ClearWrite
  <2>1. snapshot = clear.loaded /\ clear.at = "write"
    BY <1>1 DEF ClearWrite, IInv, TypeOK
  <2>2. x[1] \in Accepted(clear.kinds, clear.allowSecret)
    BY <1>1, <2>1, ClearKeepsRecorded DEF ClearWrite, IInv, TypeOK
  <2> QED BY <2>1, <2>2 DEF Accepted
<1>2. ASSUME NEW c \in Calls, WriteSnapshot(c) PROVE FALSE
  <2>1. snapshot.active \subseteq folded[c].active
    BY <1>2 DEF IInv, Fresh, Keeps, WriteSnapshot, TypeOK
  <2> QED BY <1>2, <2>1 DEF WriteSnapshot
<1>3. CASE UNCHANGED snapshot
  BY <1>3
<1> QED BY <1>1, <1>2, <1>3 DEF Next, Step, PostToolUse, Acquire, LockExists, StatLock,
             UnlinkStale, Release, Load, SetPendingMarker, WriteFails, ClearPendingMarker,
             ClearTaint, ClearLoad, Crash, Age, files

\* The active taint of a session shrinks only by what a human cleared, and a
\* secret only with --allow-secret (clearTaint).
THEOREM OnlyAHumanClears == Spec => TaintShrinksOnlyByClear
<1>1. IInv /\ [Next]_vars =>
        [crashes = 0 /\ ~stolen' /\ ~raced' /\ snapshot # NoSnapshot =>
           \A x \in snapshot.active \ snapshot'.active :
             /\ clear.at = "write" /\ x[1] \in clear.kinds
             /\ x[1] = "secret" => clear.allowSecret]_vars
  BY ShrinkIsAClear
<1> QED BY <1>1, Invariance, PTL DEF Spec, TaintShrinksOnlyByClear
-----------------------------------------------------------------------------
(***************************************************************************)
(* Installer: the settings file keeps the user's entries and has what the  *)
(* last command asked for.                                                 *)
(*                                                                         *)
(* The state invariant is short: a command that is to write has in hand    *)
(* the user's entries as they were when it read them, and what it was      *)
(* asked for.  Behind it is what Array.filter does to a list of any        *)
(* length: OtherEntries keeps what is not Patchwork's, drops the rest, and *)
(* an entry of Patchwork's at the end changes nothing.  These are proved   *)
(* by induction on a prefix of the list, taken from the least element of   *)
(* the set of counterexamples.                                             *)
(***************************************************************************)
(***************************************************************************)
(* Induction over 0..n, from the least element of what is missing.         *)
(***************************************************************************)
LEMMA LeastNat ==
  ASSUME NEW T \in SUBSET Nat, T # {}
  PROVE  \E n \in T : \A m \in T : ~(m < n)
<1>1. PICK n \in T : \A m \in T : ~(<<m, n>> \in OpToRel(<, Nat))
  BY NatLessThanWellFounded, WFMin
<1>2. \A m \in T : ~(m < n)
  BY <1>1, Zenon DEF OpToRel
<1> QED BY <1>1, <1>2

LEMMA UpTo ==
  ASSUME NEW n \in Nat, NEW T \in SUBSET (0..n), 0 \in T, \A i \in 1..n : i - 1 \in T => i \in T
  PROVE  \A i \in 0..n : i \in T
<1> SUFFICES ASSUME 0..n \ T # {} PROVE FALSE
  OBVIOUS
<1> DEFINE missing == 0..n \ T
<1>0. missing \in SUBSET Nat /\ missing # {}
  OBVIOUS
<1>1. PICK i \in missing : \A m \in missing : ~(m < i)
  <2> HIDE DEF missing
  <2> QED BY <1>0, LeastNat
<1>2. i \in 1..n /\ i - 1 \in 0..n
  OBVIOUS
<1> QED BY <1>1, <1>2

(***************************************************************************)
(* What OtherEntries keeps.                                                *)
(***************************************************************************)
\* f lists, for each i, the entries of others among the first i.
Filters(f, list, n) ==
  /\ f \in [0..n -> Seq(Entries)]
  /\ f[0] = <<>>
  /\ \A i \in 1..n :
       f[i] = IF isPatchwork(list[i]) THEN f[i - 1] ELSE Append(f[i - 1], list[i])

LEMMA FilterExists ==
  ASSUME NEW list \in Seq(Entries)
  PROVE  \E f : Filters(f, list, Len(list))
<1> DEFINE T == {n \in 0..Len(list) : \E f : Filters(f, list, n)}
<1>1. 0 \in T
  <2>1. Filters([i \in 0..0 |-> <<>>], list, 0)
    BY DEF Filters
  <2> QED BY <2>1
<1>2. ASSUME NEW n \in 1..Len(list), n - 1 \in T PROVE n \in T
  <2>1. PICK f : Filters(f, list, n - 1)
    BY <1>2
  <2> DEFINE new == IF isPatchwork(list[n]) THEN f[n - 1] ELSE Append(f[n - 1], list[n])
             g == [i \in 0..n |-> IF i = n THEN new ELSE f[i]]
  <2>2. new \in Seq(Entries)
    BY <2>1 DEF Filters
  <2>3. g \in [0..n -> Seq(Entries)] /\ g[0] = <<>> /\ g[n] = new
    BY <2>1, <2>2 DEF Filters
  <2>4. \A i \in 0..(n - 1) : g[i] = f[i]
    OBVIOUS
  <2> HIDE DEF g
  <2>5. Filters(g, list, n)
    <3>1. ASSUME NEW i \in 1..n
          PROVE  g[i] = IF isPatchwork(list[i]) THEN g[i - 1] ELSE Append(g[i - 1], list[i])
      <4>1. CASE i = n
        BY <4>1, <2>3, <2>4
      <4>2. CASE i # n
        BY <4>2, <2>4, <2>1 DEF Filters
      <4> QED BY <4>1, <4>2
    <3> QED BY <2>3, <3>1 DEF Filters
  <2> QED BY <2>5
<1> HIDE DEF T
<1>3. \A i \in 0..Len(list) : i \in T
  <2>1. T \in SUBSET (0..Len(list)) /\ Len(list) \in Nat
    BY DEF T
  <2> QED BY <2>1, <1>1, <1>2, UpTo
<1> QED BY <1>3 DEF T

LEMMA OtherEntriesIs ==
  ASSUME NEW list \in Seq(Entries)
  PROVE  \E f : Filters(f, list, Len(list)) /\ OtherEntries(list) = f[Len(list)]
<1> DEFINE n == Len(list)
           Eq(f) == f = [i \in 0..n |->
             IF i = 0 THEN <<>>
             ELSE IF isPatchwork(list[i]) THEN f[i - 1] ELSE Append(f[i - 1], list[i])]
           chosen == CHOOSE f : Eq(f)
<1>1. OtherEntries(list) = chosen[n]
  BY DEF OtherEntries
<1>2. PICK f : Filters(f, list, n)
  BY FilterExists
<1>3. Eq(f)
  <2> DEFINE r == [i \in 0..n |->
             IF i = 0 THEN <<>>
             ELSE IF isPatchwork(list[i]) THEN f[i - 1] ELSE Append(f[i - 1], list[i])]
  <2>1. ASSUME NEW i \in 0..n PROVE f[i] = r[i]
    <3>1. CASE i = 0
      BY <3>1, <1>2 DEF Filters
    <3>2. CASE i # 0
      <4>1. i \in 1..n
        BY <3>2
      <4>2. f[i] = IF isPatchwork(list[i]) THEN f[i - 1] ELSE Append(f[i - 1], list[i])
        BY <4>1, <1>2 DEF Filters
      <4> QED BY <4>1, <4>2
    <3> QED BY <3>1, <3>2
  <2>2. f \in [0..n -> Seq(Entries)]
    BY <1>2 DEF Filters
  <2> QED BY <2>1, <2>2
<1>4. Eq(chosen)
  <2> HIDE DEF Eq
  <2> QED BY <1>3
<1> HIDE DEF chosen
<1>5. \A i \in 0..n : i \in {k \in 0..n : chosen[k] = f[k]}
  <2> DEFINE T == {k \in 0..n : chosen[k] = f[k]}
  <2>1. 0 \in T
    BY <1>2, <1>4 DEF Filters
  <2>2. ASSUME NEW i \in 1..n, i - 1 \in T PROVE i \in T
    <3>1. chosen[i] = IF isPatchwork(list[i]) THEN chosen[i - 1] ELSE Append(chosen[i - 1], list[i])
      <4> DEFINE r == [k \in 0..n |->
             IF k = 0 THEN <<>>
             ELSE IF isPatchwork(list[k]) THEN chosen[k - 1] ELSE Append(chosen[k - 1], list[k])]
      <4>1. r[i] = IF isPatchwork(list[i]) THEN chosen[i - 1] ELSE Append(chosen[i - 1], list[i])
        OBVIOUS
      <4>2. chosen = r
        BY <1>4
      <4> HIDE DEF r
      <4> QED BY <4>1, <4>2
    <3>2. chosen[i - 1] = f[i - 1]
      BY <2>2
    <3> QED BY <3>1, <3>2, <1>2 DEF Filters
  <2>3. T \in SUBSET (0..n) /\ n \in Nat
    OBVIOUS
  <2> HIDE DEF T
  <2>4. \A i \in 0..n : i \in T
    BY <2>1, <2>2, <2>3, UpTo
  <2> QED BY <2>4 DEF T
<1>6. chosen[n] = f[n]
  BY <1>5
<1> QED BY <1>1, <1>2, <1>6

\* It returns entries, none of them Patchwork's.
LEMMA OnlyOthers ==
  ASSUME NEW list \in Seq(Entries)
  PROVE  /\ OtherEntries(list) \in Seq(Entries)
         /\ \A k \in DOMAIN OtherEntries(list) : ~isPatchwork(OtherEntries(list)[k])
<1>1. PICK f : Filters(f, list, Len(list)) /\ OtherEntries(list) = f[Len(list)]
  BY OtherEntriesIs
<1> DEFINE T == {i \in 0..Len(list) : \A k \in DOMAIN f[i] : ~isPatchwork(f[i][k])}
<1>2. 0 \in T
  BY <1>1 DEF Filters
<1>3. ASSUME NEW i \in 1..Len(list), i - 1 \in T PROVE i \in T
  <2>1. f[i - 1] \in Seq(Entries) /\ list[i] \in Entries
    BY <1>1 DEF Filters
  <2>2. f[i] = IF isPatchwork(list[i]) THEN f[i - 1] ELSE Append(f[i - 1], list[i])
    BY <1>1 DEF Filters
  <2>3. \A k \in DOMAIN f[i - 1] : ~isPatchwork(f[i - 1][k])
    BY <1>3
  <2>4. CASE isPatchwork(list[i])
    BY <2>4, <2>2, <2>3
  <2>5. CASE ~isPatchwork(list[i])
    <3> DEFINE x == list[i]
               t == f[i - 1]
    <3>1. x \in Entries /\ t \in Seq(Entries) /\ ~isPatchwork(x) /\ f[i] = Append(t, x)
          /\ \A k \in DOMAIN t : ~isPatchwork(t[k])
      BY <2>1, <2>2, <2>3, <2>5
    <3> HIDE DEF x, t
    <3>2. \A k \in DOMAIN Append(t, x) : ~isPatchwork(Append(t, x)[k])
      BY <3>1
    <3>3. \A k \in DOMAIN f[i] : ~isPatchwork(f[i][k])
      BY <3>1, <3>2
    <3> QED BY <3>3
  <2> QED BY <2>4, <2>5
<1> HIDE DEF T
<1>4. \A i \in 0..Len(list) : i \in T
  <2>1. T \in SUBSET (0..Len(list)) /\ Len(list) \in Nat
    BY DEF T
  <2> QED BY <2>1, <1>2, <1>3, UpTo
<1> QED BY <1>1, <1>4 DEF T, Filters

\* It keeps all of a list without entries of Patchwork's, in its order.
LEMMA OthersStay ==
  ASSUME NEW list \in Seq(Entries), \A i \in DOMAIN list : ~isPatchwork(list[i])
  PROVE  OtherEntries(list) = list
<1>1. PICK f : Filters(f, list, Len(list)) /\ OtherEntries(list) = f[Len(list)]
  BY OtherEntriesIs
<1> DEFINE T == {i \in 0..Len(list) : f[i] = SubSeq(list, 1, i)}
<1>2. 0 \in T
  <2>1. SubSeq(list, 1, 0) = <<>> /\ f[0] = <<>>
    BY <1>1 DEF Filters
  <2>2. 0 \in 0..Len(list)
    OBVIOUS
  <2> QED BY ONLY <2>1, <2>2, Zenon
<1>3. ASSUME NEW i \in 1..Len(list), i - 1 \in T PROVE i \in T
  <2>1. f[i - 1] = SubSeq(list, 1, i - 1)
    BY <1>3
  <2>2. f[i] = Append(f[i - 1], list[i])
    <3>1. ~isPatchwork(list[i])
      OBVIOUS
    <3> QED BY <3>1, <1>1 DEF Filters
  <2>3. SubSeq(list, 1, i) = Append(SubSeq(list, 1, i - 1), list[i])
    OBVIOUS
  <2> QED BY <2>1, <2>2, <2>3
<1> HIDE DEF T
<1>4. \A i \in 0..Len(list) : i \in T
  <2>1. T \in SUBSET (0..Len(list)) /\ Len(list) \in Nat
    BY DEF T
  <2> QED BY <2>1, <1>2, <1>3, UpTo
<1>5. f[Len(list)] = SubSeq(list, 1, Len(list))
  BY <1>4 DEF T
<1> QED BY <1>1, <1>5

\* An entry of Patchwork's at the end makes no difference.
LEMMA OursGoes ==
  ASSUME NEW list \in Seq(Entries), NEW entry \in Entries, isPatchwork(entry)
  PROVE  OtherEntries(Append(list, entry)) = OtherEntries(list)
<1> DEFINE longer == Append(list, entry)
           n == Len(list)
<1>0. /\ longer \in Seq(Entries) /\ Len(longer) = n + 1 /\ longer[n + 1] = entry
      /\ n \in Nat /\ \A i \in 1..n : longer[i] = list[i]
  OBVIOUS
<1> HIDE DEF longer
<1>1. PICK f : Filters(f, list, n) /\ OtherEntries(list) = f[n]
  BY OtherEntriesIs
<1>2. PICK g : Filters(g, longer, n + 1) /\ OtherEntries(longer) = g[n + 1]
  BY OtherEntriesIs, <1>0
<1> DEFINE T == {i \in 0..n : g[i] = f[i]}
<1>3. 0 \in T
  BY <1>0, <1>1, <1>2 DEF Filters
<1>4. ASSUME NEW i \in 1..n, i - 1 \in T PROVE i \in T
  <2>1. f[i] = IF isPatchwork(list[i]) THEN f[i - 1] ELSE Append(f[i - 1], list[i])
    BY <1>1 DEF Filters
  <2>2. g[i] = IF isPatchwork(longer[i]) THEN g[i - 1] ELSE Append(g[i - 1], longer[i])
    BY <1>0, <1>2 DEF Filters
  <2>3. g[i - 1] = f[i - 1] /\ longer[i] = list[i]
    BY <1>0, <1>4
  <2> QED BY <2>1, <2>2, <2>3
<1> HIDE DEF T
<1>5. n \in T
  <2>1. T \in SUBSET (0..n)
    BY DEF T
  <2>2. \A i \in 0..n : i \in T
    BY <2>1, <1>0, <1>3, <1>4, UpTo
  <2> QED BY <2>2, <1>0
<1>6. g[n + 1] = g[n]
  BY <1>0, <1>2 DEF Filters
<1> QED BY <1>1, <1>2, <1>5, <1>6 DEF T, longer

-----------------------------------------------------------------------------
Hooks == [HookEvents -> Seq(Entries)]
Commands == {NoCommand} \cup [op : {"uninstall"}] \cup [op : {"install"}, flags : InitFlags]

Runner == [pc : {"idle", "dead", "read", "check", "recheck", "rename", "truncate", "fill"},
           todo : Commands, hooks : Hooks, based : Nat, fd : {"none", "clean", "shared", "gone"}]

InstallTypes ==
  /\ settings \in [text : {"none", "json", "broken"}, hooks : Hooks]
  /\ version \in Nat
  /\ runner \in [Runners -> Runner]

\* A process that is to write has what was asked of it, and if nobody changed
\* the user's entries since it read them, they are in what it writes.
WriterOK(r) ==
  /\ r.pc # "idle" /\ r.pc # "dead" =>
       /\ r.todo.op \in {"install", "uninstall"}
       /\ r.todo.op = "install" =>
            r.todo.flags.policyMode # "invalid" /\ ~Conflict(buildInstallOptions(r.todo.flags))
  /\ r.pc \in {"check", "recheck", "rename", "truncate", "fill"} =>
       /\ r.based <= version /\ (r.based = version => Own(r.hooks) = own)
       /\ AsAsked(r.todo, r.hooks)

InstallInv ==
  /\ InstallTypes
  /\ \A p \in Runners : WriterOK(runner[p])
  /\ settings.text = "none" => settings.hooks = NoHooks /\ own = NoHooks
  /\ OwnHooksKept /\ InstalledAsAsked

LEMMA EventsAre == HookEvents = {"PreToolUse", "PostToolUse", "SessionStart"}
  BY DEF HookEvents, HookNames

LEMMA NoHooksOK == NoHooks \in Hooks /\ Own(NoHooks) = NoHooks
<1>1. <<>> \in Seq(Entries) /\ OtherEntries(<<>>) = <<>>
  <2>1. <<>> \in Seq(Entries) /\ \A i \in DOMAIN <<>> : ~isPatchwork(<<>>[i])
    OBVIOUS
  <2> QED BY <2>1, OthersStay
<1> QED BY <1>1 DEF NoHooks, Hooks, Own, strip

\* What Patchwork recognises as its own contains what records.
LEMMA OursArePatchworks ==
  ASSUME NEW entry, NEW k \in DOMAIN entry.hooks, isOurs(entry.hooks[k])
  PROVE  isPatchwork(entry)
  BY DEF isOurs, isPatchwork

LEMMA OursInside ==
  ASSUME NEW list, NEW i, NEW j
  PROVE  <<i, j>> \in Ours(list) <=>
           i \in DOMAIN list /\ j \in DOMAIN list[i].hooks /\ isOurs(list[i].hooks[j])
  BY DEF Ours

LEMMA PlacesArePairs ==
  ASSUME NEW list, NEW place \in Ours(list)
  PROVE  place = <<place[1], place[2]>>
  BY DEF Ours

LEMMA NoneOfOurs ==
  ASSUME NEW list, \A i \in DOMAIN list : ~isPatchwork(list[i])
  PROVE  Ours(list) = {}
  BY OursArePatchworks DEF Ours

LEMMA StripKeepsOwn ==
  ASSUME NEW h \in Hooks
  PROVE  /\ strip(h) \in Hooks /\ Own(strip(h)) = Own(h)
         /\ \A e \in HookEvents : Ours(strip(h)[e]) = {}
<1>1. ASSUME NEW e \in HookEvents
      PROVE  /\ OtherEntries(h[e]) \in Seq(Entries)
             /\ OtherEntries(OtherEntries(h[e])) = OtherEntries(h[e])
             /\ Ours(OtherEntries(h[e])) = {}
  <2>1. h[e] \in Seq(Entries)
    BY DEF Hooks
  <2> QED BY <2>1, OnlyOthers, OthersStay, NoneOfOurs
<1> QED BY <1>1 DEF strip, Own, Hooks

\* The handler that an install adds.
LEMMA BuiltHooks ==
  ASSUME NEW f \in InitFlags, NEW e \in HookEvents,
         f.policyMode # "invalid", ~Conflict(buildInstallOptions(f))
  PROVE  LET entry == buildHooks(buildInstallOptions(f))[e] IN
         /\ entry \in Entries /\ isPatchwork(entry)
         /\ DOMAIN entry.hooks = {1} /\ isOurs(entry.hooks[1])
         /\ e = "PreToolUse" =>
              ("FAIL_CLOSED" \in entry.hooks[1].env <=> AskedFailClosed(f))
<1> DEFINE o == buildInstallOptions(f)
           env == IF e # "PreToolUse" THEN {}
                  ELSE o.env \cup (IF resolveFailClosed(o) THEN {"FAIL_CLOSED"} ELSE {})
           h == Handler(HookNames[e], env)
<1>1. buildHooks(o)[e] = Group(<<h>>)
  BY DEF buildHooks
<1>2. /\ HookNames[e] \in Words /\ HookNames[e] \in PatchworkNames
      /\ HookNames[e] # "guard.sh"
  <2>1. HookNames[e] \in {"pre-tool", "post-tool", "session-start"}
    BY EventsAre DEF HookNames
  <2>2. HookNames[e] \in {HookNames[k] : k \in HookEvents}
    OBVIOUS
  <2>3. HookNames[e] # "guard.sh"
    BY <2>1
  <2> QED BY <2>2, <2>3, InstallAssumption DEF PatchworkNames
<1>3. o.env \subseteq Words /\ "FAIL_CLOSED" \notin o.env
  <2>1. f.env \subseteq Words /\ "FAIL_CLOSED" \notin f.env
    BY InstallAssumption
  <2>2. o.env = f.env \cup (IF f.strictProfile THEN {"TELEMETRY_JSON", "WARN_MS"} ELSE {})
    BY DEF buildInstallOptions
  <2>3. o.env \subseteq f.env \cup {"TELEMETRY_JSON", "WARN_MS"}
    BY <2>2
  <2>4. "TELEMETRY_JSON" \in Words /\ "WARN_MS" \in Words
        /\ "TELEMETRY_JSON" # "FAIL_CLOSED" /\ "WARN_MS" # "FAIL_CLOSED"
    BY InstallAssumption
  <2> HIDE DEF o
  <2> QED BY <2>1, <2>3, <2>4
<1>4. resolveFailClosed(o) <=> AskedFailClosed(f)
  BY InstallAssumption DEF resolveFailClosed, AskedFailClosed, Conflict, buildInstallOptions
<1>5. env \subseteq Words /\ (e = "PreToolUse" => ("FAIL_CLOSED" \in env <=> AskedFailClosed(f)))
  <2>1. "FAIL_CLOSED" \in Words
    BY InstallAssumption
  <2> HIDE DEF o
  <2>2. CASE e # "PreToolUse"
    BY <2>2
  <2>3. CASE e = "PreToolUse" /\ resolveFailClosed(o)
    <3>1. env = o.env \cup {"FAIL_CLOSED"}
      BY <2>3
    <3> HIDE DEF env
    <3> QED BY <3>1, <2>1, <2>3, <1>3, <1>4
  <2>4. CASE e = "PreToolUse" /\ ~resolveFailClosed(o)
    <3>1. env = o.env
      BY <2>4
    <3> HIDE DEF env
    <3> QED BY <3>1, <2>4, <1>3, <1>4
  <2> QED BY <2>2, <2>3, <2>4
<1> HIDE DEF env, o
<1>6. h \in Handlers /\ h.env = env /\ isOurs(h)
  BY <1>2, <1>5 DEF Handlers, Handler, isOurs
<1> HIDE DEF h
<1>7. /\ Group(<<h>>) \in Entries /\ Group(<<h>>).hooks = <<h>>
  BY <1>6 DEF Group, Entries
<1>8. isPatchwork(Group(<<h>>))
  BY <1>6, <1>7, OursArePatchworks
<1> QED BY <1>1, <1>5, <1>6, <1>7, <1>8 DEF o

LEMMA MergeKeepsOwn ==
  ASSUME NEW h \in Hooks, NEW f \in InitFlags,
         f.policyMode # "invalid", ~Conflict(buildInstallOptions(f))
  PROVE  LET new == merge(h, buildInstallOptions(f)) IN
         /\ new \in Hooks /\ Own(new) = Own(h)
         /\ AsAsked([op |-> "install", flags |-> f], new)
<1> DEFINE o == buildInstallOptions(f)
           new == merge(h, o)
<1>1. ASSUME NEW e \in HookEvents
      PROVE  /\ new[e] \in Seq(Entries) /\ OtherEntries(new[e]) = OtherEntries(h[e])
             /\ \E place \in Ours(new[e]) : Ours(new[e]) = {place}
             /\ e = "PreToolUse" =>
                  \A place \in Ours(new[e]) :
                    "FAIL_CLOSED" \in HandlerAt(new[e], place).env <=> AskedFailClosed(f)
  <2> DEFINE kept == OtherEntries(h[e])
             entry == buildHooks(o)[e]
             n == Len(kept) + 1
  <2>1. new[e] = Append(kept, entry)
    BY DEF merge
  <2>2. h[e] \in Seq(Entries)
    BY DEF Hooks
  <2>3. /\ kept \in Seq(Entries) /\ \A i \in DOMAIN kept : ~isPatchwork(kept[i])
        /\ OtherEntries(kept) = kept
    BY <2>2, OnlyOthers, OthersStay
  <2>4. /\ entry \in Entries /\ isPatchwork(entry)
        /\ DOMAIN entry.hooks = {1} /\ isOurs(entry.hooks[1])
        /\ e = "PreToolUse" => ("FAIL_CLOSED" \in entry.hooks[1].env <=> AskedFailClosed(f))
    BY BuiltHooks
  <2> HIDE DEF kept, entry, new, o
  <2>5. new[e] \in Seq(Entries) /\ OtherEntries(new[e]) = kept
    BY <2>1, <2>3, <2>4, OursGoes
  <2>6. /\ DOMAIN new[e] = 1..n /\ n \in Nat /\ n > 0 /\ new[e][n] = entry
        /\ \A i \in 1..n : i # n => i \in DOMAIN kept /\ new[e][i] = kept[i]
    BY <2>1, <2>3, <2>4
  <2>7. <<n, 1>> \in Ours(new[e])
    <3>1. n \in DOMAIN new[e] /\ 1 \in DOMAIN new[e][n].hooks /\ isOurs(new[e][n].hooks[1])
      BY <2>4, <2>6
    <3> QED BY ONLY <3>1, OursInside
  <2>8. ASSUME NEW i, NEW j, <<i, j>> \in Ours(new[e]) PROVE i = n /\ j = 1
    <3>1. i \in DOMAIN new[e] /\ j \in DOMAIN new[e][i].hooks /\ isOurs(new[e][i].hooks[j])
      BY ONLY <2>8, OursInside
    <3>2. i = n
      <4>1. isPatchwork(new[e][i])
        BY ONLY <3>1, OursArePatchworks
      <4> QED BY <3>1, <4>1, <2>3, <2>6
    <3> QED BY <3>1, <3>2, <2>4, <2>6
  <2>9. Ours(new[e]) = {<<n, 1>>}
    <3>1. ASSUME NEW place \in Ours(new[e]) PROVE place = <<n, 1>>
      <4>1. place = <<place[1], place[2]>>
        BY PlacesArePairs
      <4>2. place[1] = n /\ place[2] = 1
        BY <4>1, <2>8
      <4> QED BY <4>1, <4>2
    <3> QED BY <3>1, <2>7
  <2>10. HandlerAt(new[e], <<n, 1>>) = entry.hooks[1]
    BY <2>6 DEF HandlerAt
  <2> QED BY <2>4, <2>5, <2>9, <2>10 DEF kept
<1>2. new \in Hooks
  BY <1>1 DEF merge, Hooks
<1>3. Own(new) = Own(h)
  BY <1>1 DEF Own, strip
<1>4. AsAsked([op |-> "install", flags |-> f], new)
  <2> HIDE DEF new
  <2> QED BY <1>1, EventsAre DEF AsAsked
<1> QED BY <1>2, <1>3, <1>4

-----------------------------------------------------------------------------
\* What a person adds is none of Patchwork's and moves none of Patchwork's.
LEMMA AddedIsNotOurs ==
  ASSUME NEW list \in Seq(Entries), NEW x \in UserHandlers
  PROVE  LET longer == Append(list, Group(<<x>>)) IN
         /\ longer \in Seq(Entries) /\ Ours(longer) = Ours(list)
         /\ \A place \in Ours(list) : HandlerAt(longer, place) = HandlerAt(list, place)
<1> DEFINE g == Group(<<x>>)
           longer == Append(list, g)
<1>1. x \in Handlers /\ ~isOurs(x)
  BY InstallAssumption
<1>2. g \in Entries /\ g.hooks = <<x>>
  BY <1>1 DEF Group, Entries
<1> HIDE DEF g
<1>3. /\ longer \in Seq(Entries) /\ DOMAIN longer = DOMAIN list \cup {Len(list) + 1}
      /\ Len(list) + 1 \notin DOMAIN list
      /\ longer[Len(list) + 1] = g /\ \A i \in DOMAIN list : longer[i] = list[i]
  BY <1>2
<1> HIDE DEF longer
<1>4. ASSUME NEW i, NEW j PROVE <<i, j>> \in Ours(longer) <=> <<i, j>> \in Ours(list)
  <2>1. CASE i = Len(list) + 1
    <3>1. ~(j \in DOMAIN longer[i].hooks /\ isOurs(longer[i].hooks[j]))
      BY <2>1, <1>1, <1>2, <1>3
    <3> QED BY <3>1, <2>1, <1>3, OursInside
  <2>2. CASE i # Len(list) + 1
    <3>1. i \in DOMAIN longer <=> i \in DOMAIN list
      BY <2>2, <1>3
    <3>2. i \in DOMAIN list => longer[i] = list[i]
      BY <1>3
    <3> QED BY ONLY <3>1, <3>2, OursInside
  <2> QED BY <2>1, <2>2
<1>5. Ours(longer) = Ours(list)
  <2>1. \A place \in Ours(longer) : place \in Ours(list)
    BY <1>4, PlacesArePairs
  <2>2. \A place \in Ours(list) : place \in Ours(longer)
    BY <1>4, PlacesArePairs
  <2> QED BY <2>1, <2>2
<1>6. ASSUME NEW place \in Ours(list) PROVE HandlerAt(longer, place) = HandlerAt(list, place)
  <2>1. place[1] \in DOMAIN list
    BY DEF Ours
  <2> QED BY <2>1, <1>3 DEF HandlerAt
<1> QED BY <1>3, <1>5, <1>6 DEF longer, g

LEMMA JoinedIsNotOurs ==
  ASSUME NEW list \in Seq(Entries), NEW n \in DOMAIN list, NEW x \in UserHandlers
  PROVE  LET joined == [list EXCEPT ![n].hooks = Append(@, x)] IN
         /\ joined \in Seq(Entries) /\ Ours(joined) = Ours(list)
         /\ \A place \in Ours(list) : HandlerAt(joined, place) = HandlerAt(list, place)
<1> DEFINE joined == [list EXCEPT ![n].hooks = Append(@, x)]
           hs == list[n].hooks
<1>1. x \in Handlers /\ ~isOurs(x)
  BY InstallAssumption
<1>2. list[n] \in Entries /\ hs \in Seq(Handlers)
  <2>1. list[n] \in Entries
    OBVIOUS
  <2> QED BY ONLY <2>1 DEF Entries
<1>3. /\ DOMAIN joined = DOMAIN list /\ joined[n] = [list[n] EXCEPT !.hooks = Append(hs, x)]
      /\ \A i \in DOMAIN list : i # n => joined[i] = list[i]
  OBVIOUS
<1>4. joined[n] \in Entries /\ joined[n].hooks = Append(hs, x)
  <2>1. Append(hs, x) \in Seq(Handlers)
    BY <1>1, <1>2
  <2> DEFINE t == Append(hs, x)
             y == list[n]
  <2>2. t \in Seq(Handlers) /\ y \in Entries /\ joined[n] = [y EXCEPT !.hooks = t]
    BY <2>1, <1>2, <1>3
  <2> HIDE DEF t, y, joined
  <2>3. joined[n] \in Entries /\ joined[n].hooks = t
    BY ONLY <2>2 DEF Entries
  <2> QED BY <2>3 DEF t
<1> HIDE DEF hs
<1>5. /\ DOMAIN Append(hs, x) = DOMAIN hs \cup {Len(hs) + 1} /\ Len(hs) + 1 \notin DOMAIN hs
      /\ Append(hs, x)[Len(hs) + 1] = x /\ \A k \in DOMAIN hs : Append(hs, x)[k] = hs[k]
  BY <1>1, <1>2
<1>6. joined \in Seq(Entries)
  <2>1. list \in [1..Len(list) -> Entries] /\ Len(list) \in Nat
    OBVIOUS
  <2>2. joined \in [1..Len(list) -> Entries]
    BY <2>1, <1>4
  <2> QED BY <2>1, <2>2
<1> HIDE DEF joined
<1>7. ASSUME NEW i, NEW j PROVE <<i, j>> \in Ours(joined) <=> <<i, j>> \in Ours(list)
  <2>1. CASE i = n
    <3>1. joined[i].hooks = Append(hs, x) /\ list[i].hooks = hs
      BY <2>1, <1>4 DEF hs
    <3>2. j \in DOMAIN Append(hs, x) /\ isOurs(Append(hs, x)[j])
          <=> j \in DOMAIN hs /\ isOurs(hs[j])
      <4>1. CASE j = Len(hs) + 1
        BY <4>1, <1>1, <1>5
      <4>2. CASE j # Len(hs) + 1
        BY <4>2, <1>5
      <4> QED BY <4>1, <4>2
    <3>3. i \in DOMAIN joined /\ i \in DOMAIN list
      BY <2>1, <1>3
    <3>4. <<i, j>> \in Ours(joined) <=> j \in DOMAIN Append(hs, x) /\ isOurs(Append(hs, x)[j])
      BY ONLY <3>1, <3>3, OursInside
    <3>5. <<i, j>> \in Ours(list) <=> j \in DOMAIN hs /\ isOurs(hs[j])
      BY ONLY <3>1, <3>3, OursInside
    <3> QED BY <3>2, <3>4, <3>5
  <2>2. CASE i # n
    <3>1. i \in DOMAIN joined <=> i \in DOMAIN list
      BY <1>3
    <3>2. i \in DOMAIN list => joined[i] = list[i]
      BY <2>2, <1>3
    <3> QED BY ONLY <3>1, <3>2, OursInside
  <2> QED BY <2>1, <2>2
<1>8. Ours(joined) = Ours(list)
  <2>1. \A place \in Ours(joined) : place \in Ours(list)
    BY <1>7, PlacesArePairs
  <2>2. \A place \in Ours(list) : place \in Ours(joined)
    BY <1>7, PlacesArePairs
  <2> QED BY <2>1, <2>2
<1>9. ASSUME NEW place \in Ours(list) PROVE HandlerAt(joined, place) = HandlerAt(list, place)
  <2>1. place[1] \in DOMAIN list /\ place[2] \in DOMAIN list[place[1]].hooks
    BY DEF Ours
  <2>2. CASE place[1] = n
    BY <2>1, <2>2, <1>4, <1>5 DEF HandlerAt, hs
  <2>3. CASE place[1] # n
    BY <2>1, <2>3, <1>3 DEF HandlerAt
  <2> QED BY <2>2, <2>3
<1> QED BY <1>6, <1>8, <1>9 DEF joined

\* A list may be changed where the change does not touch what is Patchwork's.
LEMMA AsAskedStays ==
  ASSUME NEW c, NEW h \in Hooks, NEW e \in HookEvents, NEW list \in Seq(Entries),
         Ours(list) = Ours(h[e]),
         \A place \in Ours(h[e]) : HandlerAt(list, place) = HandlerAt(h[e], place),
         AsAsked(c, h)
  PROVE  [h EXCEPT ![e] = list] \in Hooks /\ AsAsked(c, [h EXCEPT ![e] = list])
<1> DEFINE new == [h EXCEPT ![e] = list]
<1>1. new \in Hooks
  BY DEF Hooks
<1>2. new[e] = list /\ \A k \in HookEvents : k # e => new[k] = h[k]
  BY DEF Hooks
<1> HIDE DEF new
<1>3. \A k \in HookEvents : Ours(new[k]) = Ours(h[k])
  BY <1>2
<1>4. ASSUME NEW k \in HookEvents, NEW place \in Ours(h[k])
      PROVE  HandlerAt(new[k], place) = HandlerAt(h[k], place)
  BY <1>2
<1>5. "PreToolUse" \in HookEvents
  BY EventsAre
<1> QED BY <1>1, <1>3, <1>4, <1>5 DEF AsAsked, new

-----------------------------------------------------------------------------
LEMMA InstallInvInit == InstallInit => InstallInv
<1> SUFFICES ASSUME InstallInit PROVE InstallInv
  OBVIOUS
<1>1. NoHooks \in Hooks /\ Own(NoHooks) = NoHooks
  BY NoHooksOK
<1>2. Seeds \subseteq Hooks
  BY InstallAssumption DEF Hooks
<1>3. settings \in [text : {"none", "json", "broken"}, hooks : Hooks]
  BY <1>1, <1>2 DEF InstallInit
<1>4. Idle.pc = "idle" /\ Idle.todo \in Commands /\ Idle.hooks = NoHooks /\ Idle.based = 0 /\ Idle.fd = "none"
      /\ Idle = [pc |-> "idle", todo |-> NoCommand, hooks |-> NoHooks, based |-> 0, fd |-> "none"]
  BY DEF Idle, Commands
<1>5. InstallTypes
  BY <1>1, <1>3, <1>4 DEF InstallTypes, InstallInit, Runner
<1>6. \A p \in Runners : WriterOK(runner[p])
  BY <1>4 DEF InstallInit, WriterOK
<1>7. settings.text = "none" => settings.hooks = NoHooks /\ own = NoHooks
  BY <1>1 DEF InstallInit
<1>8. OwnHooksKept /\ InstalledAsAsked
  BY DEF InstallInit, OwnHooksKept, InstalledAsAsked, AsAsked, NoCommand
<1> QED BY <1>5, <1>6, <1>7, <1>8 DEF InstallInv

LEMMA IdleOK == Idle \in Runner /\ WriterOK(Idle) /\ Idle.pc = "idle"
                /\ [Idle EXCEPT !.pc = "dead"] \in Runner /\ WriterOK([Idle EXCEPT !.pc = "dead"])
  BY NoHooksOK DEF Idle, Runner, WriterOK, Commands

\* A step of one process that leaves the file alone.
LEMMA OneRunner ==
  ASSUME InstallInv, NEW p \in Runners, NEW r \in Runner, WriterOK(r),
         runner' = [runner EXCEPT ![p] = r], UNCHANGED <<settings, own, version, latest>>
  PROVE  InstallInv'
<1>1. \A x : WriterOK(x) => WriterOK(x)'
  BY DEF WriterOK, Own, strip, AsAsked
<1>2. \A q \in Runners : WriterOK(runner'[q])
  BY DEF InstallInv, InstallTypes
<1>3. \A q \in Runners : WriterOK(runner[q])'
  BY <1>2 DEF WriterOK
<1>4. InstallTypes'
  BY DEF InstallInv, InstallTypes, Runner
<1> QED BY <1>3, <1>4 DEF InstallInv, OwnHooksKept, InstalledAsAsked

LEMMA StartInstallInv ==
  ASSUME InstallInv, NEW p \in Runners, NEW f \in InitFlags, StartInstall(p, f)
  PROVE  InstallInv'
<1>1. CASE f.policyMode = "invalid" \/ Conflict(buildInstallOptions(f))
  <2>1. UNCHANGED <<settings, own, version, latest, runner>>
    BY <1>1 DEF StartInstall
  <2> QED BY <2>1 DEF InstallInv, InstallTypes, WriterOK, OwnHooksKept, InstalledAsAsked
<1>2. CASE f.policyMode # "invalid" /\ ~Conflict(buildInstallOptions(f))
  <2> DEFINE r == [Idle EXCEPT !.pc = "read", !.todo = [op |-> "install", flags |-> f]]
  <2>1. r \in Runner
    BY NoHooksOK DEF Idle, Runner, Commands
  <2>2. WriterOK(r)
    BY <1>2 DEF WriterOK, Idle
  <2>3. runner' = [runner EXCEPT ![p] = r] /\ UNCHANGED <<settings, own, version, latest>>
    BY <1>2 DEF StartInstall
  <2> HIDE DEF r
  <2> QED BY <2>1, <2>2, <2>3, OneRunner
<1> QED BY <1>1, <1>2

LEMMA StartUninstallInv ==
  ASSUME InstallInv, NEW p \in Runners, StartUninstall(p)
  PROVE  InstallInv'
<1>1. CASE settings.text = "none"
  <2>1. UNCHANGED <<settings, own, version, latest, runner>>
    BY <1>1 DEF StartUninstall
  <2> QED BY <2>1 DEF InstallInv, InstallTypes, WriterOK, OwnHooksKept, InstalledAsAsked
<1>2. CASE settings.text # "none"
  <2> DEFINE r == [Idle EXCEPT !.pc = "read", !.todo = [op |-> "uninstall"]]
  <2>1. r \in Runner
    BY NoHooksOK DEF Idle, Runner, Commands
  <2>2. WriterOK(r)
    BY DEF WriterOK, Idle
  <2>3. runner' = [runner EXCEPT ![p] = r] /\ UNCHANGED <<settings, own, version, latest>>
    BY <1>2 DEF StartUninstall
  <2> HIDE DEF r
  <2> QED BY <2>1, <2>2, <2>3, OneRunner
<1> QED BY <1>1, <1>2

LEMMA ReadSettingsInv ==
  ASSUME InstallInv, NEW p \in Runners, ReadSettings(p)
  PROVE  InstallInv'
<1> DEFINE todo == runner[p].todo
           install == todo.op = "install"
           refused == \/ install /\ scope = "project" /\ linked
                      \/ settings.text = "broken"
                      \/ settings.text = "none" /\ ~install
           new == IF install THEN merge(settings.hooks, buildInstallOptions(todo.flags))
                  ELSE strip(settings.hooks)
           r == [runner[p] EXCEPT
                   !.pc = IF install /\ scope = "project" THEN "check" ELSE "truncate",
                   !.hooks = new, !.based = version]
<1>1. runner[p] \in Runner /\ runner[p].pc = "read" /\ WriterOK(runner[p])
  BY DEF InstallInv, InstallTypes, Runner, ReadSettings, At
<1>2. UNCHANGED <<settings, own, version, latest>>
  BY DEF ReadSettings
<1>3. CASE refused
  <2>1. runner' = [runner EXCEPT ![p] = Idle]
    BY <1>3 DEF ReadSettings
  <2> QED BY <2>1, <1>2, IdleOK, OneRunner
<1>4. CASE ~refused
  <2>1. runner' = [runner EXCEPT ![p] = r]
    BY <1>4 DEF ReadSettings
  <2>2. settings.hooks \in Hooks /\ Own(settings.hooks) = own
    <3>1. settings.hooks \in Hooks /\ settings.text \in {"none", "json"}
      BY <1>4 DEF InstallInv, InstallTypes
    <3> QED BY <3>1, NoHooksOK DEF InstallInv, OwnHooksKept
  <2>3. /\ todo \in Commands /\ todo.op \in {"install", "uninstall"}
        /\ install => todo.flags.policyMode # "invalid" /\ ~Conflict(buildInstallOptions(todo.flags))
    BY <1>1 DEF WriterOK, Runner
  <2>4. new \in Hooks /\ Own(new) = own /\ AsAsked(todo, new)
    <3>1. CASE install
      <4>1. todo.flags \in InitFlags /\ todo = [op |-> "install", flags |-> todo.flags]
        BY <3>1, <2>3 DEF Commands, NoCommand
      <4> DEFINE f == todo.flags
      <4> HIDE DEF todo, f
      <4>2. f \in InitFlags /\ f.policyMode # "invalid" /\ ~Conflict(buildInstallOptions(f))
        BY <4>1, <2>3, <3>1 DEF f
      <4>3. LET m == merge(settings.hooks, buildInstallOptions(f)) IN
            m \in Hooks /\ Own(m) = Own(settings.hooks) /\ AsAsked([op |-> "install", flags |-> f], m)
        BY <4>2, <2>2, MergeKeepsOwn
      <4> QED BY <4>1, <4>3, <3>1, <2>2 DEF f
    <3>2. CASE ~install
      <4>1. todo.op = "uninstall" /\ new = strip(settings.hooks)
        BY <3>2, <2>3
      <4> QED BY <4>1, <2>2, StripKeepsOwn DEF AsAsked
    <3> QED BY <3>1, <3>2
  <2>5. /\ r \in Runner /\ r.todo = todo /\ r.hooks = new /\ r.based = version
        /\ version \in Nat
    <3> HIDE DEF new
    <3> QED BY <1>1, <2>4 DEF Runner, InstallInv, InstallTypes
  <2>6. WriterOK(r)
    <3> HIDE DEF new, r, todo
    <3> QED BY <2>3, <2>4, <2>5 DEF WriterOK
  <2> HIDE DEF r
  <2> QED BY <2>1, <2>5, <2>6, <1>2, OneRunner
<1> QED BY <1>3, <1>4

\* The steps between the read and the write.
LEMMA MoveOn ==
  ASSUME InstallInv, NEW p \in Runners, NEW label \in {"recheck", "rename"},
         runner[p].pc \in {"check", "recheck"}, Move(p, label),
         UNCHANGED <<settings, own, version, latest>>
  PROVE  InstallInv'
<1> DEFINE r == [runner[p] EXCEPT !.pc = label]
<1>1. runner[p] \in Runner /\ WriterOK(runner[p])
  BY DEF InstallInv, InstallTypes, Runner
<1>2. r \in Runner /\ WriterOK(r)
  BY <1>1 DEF Runner, WriterOK
<1>3. runner' = [runner EXCEPT ![p] = r]
  BY DEF Move
<1> HIDE DEF r
<1> QED BY <1>2, <1>3, OneRunner

LEMMA GiveUp ==
  ASSUME InstallInv, NEW p \in Runners, Finish(p), UNCHANGED <<settings, own, version, latest>>
  PROVE  InstallInv'
  BY IdleOK, OneRunner DEF Finish

LEMMA CheckInv ==
  ASSUME InstallInv, NEW p \in Runners, WriteTemporary(p) \/ Recheck(p) \/ Die(p)
  PROVE  InstallInv'
<1>1. CASE WriteTemporary(p)
  BY <1>1, GiveUp, MoveOn DEF WriteTemporary, At
<1>2. CASE Recheck(p)
  BY <1>2, GiveUp, MoveOn DEF Recheck, At
<1>3. CASE Die(p)
  BY <1>3, IdleOK, OneRunner DEF Die
<1> QED BY <1>1, <1>2, <1>3

\* What another process has in hand stays, apart from the state of its file.
SameInHand(s, r) ==
  s = Idle \/ (s.pc = r.pc /\ s.todo = r.todo /\ s.hooks = r.hooks /\ s.based = r.based)

LEMMA DetachedOK ==
  ASSUME NEW r \in [Runners -> Runner]
  PROVE  /\ Detached(r) \in [Runners -> Runner]
         /\ \A q \in Runners : /\ Detached(r)[q].pc = r[q].pc /\ Detached(r)[q].todo = r[q].todo
                               /\ Detached(r)[q].hooks = r[q].hooks
                               /\ Detached(r)[q].based = r[q].based
<1>1. ASSUME NEW q \in Runners
      PROVE  LET s == IF r[q].pc = "fill" THEN [r[q] EXCEPT !.fd = "gone"] ELSE r[q] IN
             s \in Runner /\ s.pc = r[q].pc /\ s.todo = r[q].todo /\ s.hooks = r[q].hooks
             /\ s.based = r[q].based
  BY DEF Runner
<1> QED BY <1>1 DEF Detached

LEMMA LandedInv ==
  ASSUME InstallInv, NEW p \in Runners, runner[p].pc \in {"rename", "fill"}, Landed(p),
         runner' \in [Runners -> Runner], \A q \in Runners : SameInHand(runner'[q], runner[q])
  PROVE  InstallInv'
<1>1. /\ runner[p] \in Runner /\ WriterOK(runner[p]) /\ version \in Nat
  BY DEF InstallInv, InstallTypes
<1>2. /\ runner[p].hooks \in Hooks /\ AsAsked(runner[p].todo, runner[p].hooks)
      /\ runner[p].based <= version /\ (runner[p].based = version => Own(runner[p].hooks) = own)
  BY <1>1 DEF Runner, WriterOK
<1>3. settings' = [text |-> "json", hooks |-> runner[p].hooks] /\ latest' = runner[p].todo
  BY DEF Landed
<1>4. /\ version' \in Nat /\ version <= version' /\ own' = Own(runner[p].hooks)
      /\ version' = version => own' = own
  BY <1>1, <1>2 DEF Landed
<1>5. InstallTypes'
  BY <1>2, <1>3, <1>4 DEF InstallTypes
<1>6. ASSUME NEW q \in Runners PROVE WriterOK(runner[q])'
  <2>1. WriterOK(runner[q]) /\ runner[q] \in Runner /\ runner[q].based \in Nat
    BY DEF InstallInv, InstallTypes, Runner
  <2>2. CASE runner'[q] = Idle
    BY <2>2 DEF Idle, WriterOK
  <2>3. CASE runner'[q] # Idle
    <3>1. /\ runner'[q].pc = runner[q].pc /\ runner'[q].todo = runner[q].todo
          /\ runner'[q].hooks = runner[q].hooks /\ runner'[q].based = runner[q].based
      BY <2>3 DEF SameInHand
    <3>2. runner[q].pc \in {"check", "recheck", "rename", "truncate", "fill"} =>
            /\ runner'[q].based <= version'
            /\ runner'[q].based = version' => Own(runner'[q].hooks) = own'
            /\ AsAsked(runner'[q].todo, runner'[q].hooks)
      BY <2>1, <3>1, <1>1, <1>4 DEF WriterOK
    <3> QED BY <2>1, <3>1, <3>2 DEF WriterOK, Own, strip, AsAsked
  <2> QED BY <2>2, <2>3
<1>7. (settings.text = "none" => settings.hooks = NoHooks /\ own = NoHooks)'
  BY <1>3
<1>8. OwnHooksKept' /\ InstalledAsAsked'
  BY <1>2, <1>3, <1>4 DEF OwnHooksKept, InstalledAsAsked, Own, strip, AsAsked
<1> QED BY <1>5, <1>6, <1>7, <1>8 DEF InstallInv

\* The file is cut or replaced by something that is no list of hooks.
LEMMA BrokenInv ==
  ASSUME InstallInv, UNCHANGED <<own, version, latest>>,
         settings' = [text |-> "broken", hooks |-> NoHooks], runner' \in [Runners -> Runner],
         \A q \in Runners : WriterOK(runner'[q])
  PROVE  InstallInv'
<1>1. InstallTypes'
  BY NoHooksOK DEF InstallInv, InstallTypes
<1>2. \A q \in Runners : WriterOK(runner[q])'
  BY DEF WriterOK, Own, strip, AsAsked
<1> QED BY <1>1, <1>2 DEF InstallInv, OwnHooksKept, InstalledAsAsked

LEMMA RenameInv ==
  ASSUME InstallInv, NEW p \in Runners, Rename(p)
  PROVE  InstallInv'
<1>1. runner[p].pc = "rename" /\ Landed(p) /\ runner' = Detached([runner EXCEPT ![p] = Idle])
  BY DEF Rename, At
<1> DEFINE r == [runner EXCEPT ![p] = Idle]
<1>2. r \in [Runners -> Runner]
  BY IdleOK DEF InstallInv, InstallTypes
<1>3. runner \in [Runners -> Runner]
  BY DEF InstallInv, InstallTypes
<1>4. runner' \in [Runners -> Runner]
  BY <1>1, <1>2, DetachedOK
<1>5. ASSUME NEW q \in Runners PROVE SameInHand(runner'[q], runner[q])
  <2>1. CASE q = p
    BY <2>1, <1>1, <1>3, IdleOK DEF Detached, SameInHand
  <2>2. CASE q # p
    <3>1. r[q] = runner[q]
      BY <2>2, <1>3
    <3> HIDE DEF r
    <3> QED BY <3>1, <1>1, <1>2, DetachedOK DEF SameInHand, r
  <2> QED BY <2>1, <2>2
<1> QED BY <1>1, <1>4, <1>5, LandedInv

LEMMA TruncateInv ==
  ASSUME InstallInv, NEW p \in Runners, Truncate(p)
  PROVE  InstallInv'
<1> DEFINE r == [runner[p] EXCEPT !.pc = "fill", !.fd = "clean"]
<1>1. runner \in [Runners -> Runner] /\ runner[p] \in Runner /\ runner[p].pc = "truncate"
      /\ WriterOK(runner[p])
  BY DEF InstallInv, InstallTypes, Truncate, At
<1>2. r \in Runner /\ WriterOK(r)
  BY <1>1 DEF Runner, WriterOK
<1>3. runner' = [runner EXCEPT ![p] = r]
  BY <1>1 DEF Truncate
<1> HIDE DEF r
<1>4. runner' \in [Runners -> Runner] /\ \A q \in Runners : WriterOK(runner'[q])
  BY <1>1, <1>2, <1>3 DEF InstallInv
<1> QED BY <1>4, BrokenInv DEF Truncate

LEMMA FillInv ==
  ASSUME InstallInv, NEW p \in Runners, Fill(p)
  PROVE  InstallInv'
<1>1. runner \in [Runners -> Runner] /\ runner[p].pc = "fill"
  BY DEF InstallInv, InstallTypes, Fill, At
<1> DEFINE s(q) == IF q = p THEN Idle
                   ELSE IF runner[q].pc = "fill" /\ runner[p].fd # "gone" /\ runner[q].fd = "clean"
                   THEN [runner[q] EXCEPT !.fd = "shared"] ELSE runner[q]
<1>2. runner' = [q \in Runners |-> s(q)]
  BY DEF Fill
<1>3. ASSUME NEW q \in Runners PROVE s(q) \in Runner /\ SameInHand(s(q), runner[q])
  <2>1. runner[q] \in Runner
    BY <1>1
  <2> QED BY <2>1, IdleOK DEF SameInHand, Runner
<1> HIDE DEF s
<1>4. runner' \in [Runners -> Runner] /\ \A q \in Runners : SameInHand(runner'[q], runner[q])
  BY <1>2, <1>3
<1>5. \A q \in Runners : WriterOK(runner'[q])
  BY <1>4, IdleOK DEF SameInHand, WriterOK, InstallInv
<1>6. CASE UNCHANGED <<settings, own, version, latest>>
  <2>1. \A q \in Runners : WriterOK(runner[q])'
    BY <1>5, <1>6 DEF WriterOK, Own, strip, AsAsked
  <2>2. InstallTypes'
    BY <1>4, <1>6 DEF InstallInv, InstallTypes
  <2> QED BY <2>1, <2>2, <1>6 DEF InstallInv, OwnHooksKept, InstalledAsAsked
<1>7. CASE Landed(p)
  BY <1>1, <1>4, <1>7, LandedInv
<1>8. CASE settings' = [text |-> "broken", hooks |-> NoHooks] /\ UNCHANGED <<own, version, latest>>
  BY <1>4, <1>5, <1>8, BrokenInv
<1> QED BY <1>6, <1>7, <1>8 DEF Fill

\* Once the user has changed the file, what the processes have read is old.
LEMMA OldNews ==
  ASSUME InstallInv, version' = version + 1, runner' = Detached(runner)
  PROVE  /\ version' \in Nat /\ runner' \in [Runners -> Runner]
         /\ \A q \in Runners : WriterOK(runner[q])'
<1>1. runner \in [Runners -> Runner] /\ version \in Nat
  BY DEF InstallInv, InstallTypes
<1>2. runner' \in [Runners -> Runner]
  BY <1>1, DetachedOK
<1>3. ASSUME NEW q \in Runners PROVE WriterOK(runner[q])'
  <2>1. /\ runner'[q].pc = runner[q].pc /\ runner'[q].todo = runner[q].todo
        /\ runner'[q].hooks = runner[q].hooks /\ runner'[q].based = runner[q].based
    BY <1>1, DetachedOK
  <2>2. WriterOK(runner[q]) /\ runner[q].based \in Nat
    BY <1>1 DEF InstallInv, Runner
  <2>3. runner[q].pc \in {"check", "recheck", "rename", "truncate", "fill"} =>
          runner'[q].based <= version' /\ runner'[q].based # version'
    BY <2>1, <2>2, <1>1 DEF WriterOK
  <2> QED BY <2>1, <2>2, <2>3 DEF WriterOK, AsAsked
<1> QED BY <1>1, <1>2, <1>3

LEMMA UserEditInv ==
  ASSUME InstallInv, NEW h, UserEdit(h), h \in Hooks, AsAsked(latest, h)
  PROVE  InstallInv'
<1>1. settings' = [text |-> "json", hooks |-> h] /\ own' = Own(h) /\ latest' = latest
  BY DEF UserEdit
<1>2. version' \in Nat /\ runner' \in [Runners -> Runner] /\ \A q \in Runners : WriterOK(runner[q])'
  BY OldNews DEF UserEdit
<1>3. InstallTypes'
  BY <1>1, <1>2 DEF InstallTypes
<1> QED BY <1>1, <1>2, <1>3 DEF InstallInv, OwnHooksKept, InstalledAsAsked, Own, strip, AsAsked

LEMMA AddHookInv ==
  ASSUME InstallInv, NEW e \in UserEvents, NEW x \in UserHandlers, AddHook(e, x) \/ JoinGroup(e, x)
  PROVE  InstallInv'
<1> DEFINE h == settings.hooks
<1>1. /\ h \in Hooks /\ AsAsked(latest, h) /\ e \in HookEvents
  BY InstallAssumption DEF InstallInv, InstallTypes, InstalledAsAsked, AddHook, JoinGroup
<1>2. h[e] \in Seq(Entries)
  BY <1>1 DEF Hooks
<1>3. CASE AddHook(e, x)
  <2> DEFINE list == Append(h[e], Group(<<x>>))
  <2>1. UserEdit([h EXCEPT ![e] = list])
    BY <1>3 DEF AddHook
  <2>2. /\ list \in Seq(Entries) /\ Ours(list) = Ours(h[e])
        /\ \A place \in Ours(h[e]) : HandlerAt(list, place) = HandlerAt(h[e], place)
    BY <1>2, AddedIsNotOurs
  <2> HIDE DEF list, h
  <2>3. [h EXCEPT ![e] = list] \in Hooks /\ AsAsked(latest, [h EXCEPT ![e] = list])
    BY <2>2, <1>1, AsAskedStays
  <2> QED BY <2>1, <2>3, UserEditInv
<1>4. CASE JoinGroup(e, x)
  <2>1. PICK i \in DOMAIN h[e] : UserEdit([h EXCEPT ![e][i].hooks = Append(@, x)])
    BY <1>4 DEF JoinGroup
  <2> DEFINE list == [h[e] EXCEPT ![i].hooks = Append(@, x)]
  <2>2. [h EXCEPT ![e][i].hooks = Append(@, x)] = [h EXCEPT ![e] = list]
    BY <1>1 DEF Hooks
  <2>3. UserEdit([h EXCEPT ![e] = list])
    BY <2>1, <2>2
  <2>4. /\ list \in Seq(Entries) /\ Ours(list) = Ours(h[e])
        /\ \A place \in Ours(h[e]) : HandlerAt(list, place) = HandlerAt(h[e], place)
    BY <1>2, JoinedIsNotOurs
  <2> HIDE DEF list, h
  <2>5. [h EXCEPT ![e] = list] \in Hooks /\ AsAsked(latest, [h EXCEPT ![e] = list])
    BY <2>4, <1>1, AsAskedStays
  <2> QED BY <2>3, <2>5, UserEditInv
<1> QED BY <1>3, <1>4

LEMMA PutAsideInv == ASSUME InstallInv, PutAside PROVE InstallInv'
<1>1. /\ settings' = [text |-> "none", hooks |-> NoHooks] /\ own' = NoHooks
      /\ version' = version + 1 /\ runner' = Detached(runner)
  BY DEF PutAside
<1>2. version' \in Nat /\ runner' \in [Runners -> Runner] /\ \A q \in Runners : WriterOK(runner[q])'
  BY <1>1, OldNews
<1>3. InstallTypes'
  BY <1>1, <1>2, NoHooksOK DEF InstallTypes
<1> QED BY <1>1, <1>2, <1>3 DEF InstallInv, OwnHooksKept, InstalledAsAsked

LEMMA InstallInvNext == InstallInv /\ [InstallNext]_installVars => InstallInv'
<1> SUFFICES ASSUME InstallInv, [InstallNext]_installVars PROVE InstallInv'
  OBVIOUS
<1>1. ASSUME NEW p \in Runners, InstallStep(p) PROVE InstallInv'
  BY <1>1, ReadSettingsInv, CheckInv, RenameInv, TruncateInv, FillInv DEF InstallStep
<1>2. CASE Checkout \/ UNCHANGED installVars
  <2>1. UNCHANGED <<settings, own, version, latest, runner>>
    BY <1>2 DEF Checkout, installVars
  <2> QED BY <2>1 DEF InstallInv, InstallTypes, WriterOK, OwnHooksKept, InstalledAsAsked
<1> QED BY <1>1, <1>2, StartInstallInv, StartUninstallInv, CheckInv, AddHookInv, PutAsideInv
        DEF InstallNext

\* The settings file, whenever it parses, has the user's entries, as
\* installClaudeCodeHooks and uninstallClaudeCodeHooks promise, for any number of
\* commands that overlap, die or meet the user's edits.
THEOREM OwnEntriesStay == InstallInit /\ [][InstallNext]_installVars => []OwnHooksKept
<1>1. InstallInv => OwnHooksKept
  BY DEF InstallInv
<1> QED BY <1>1, InstallInvInit, InstallInvNext, PTL

\* ... and the handlers that the last command asked for, once for each event.
THEOREM LastCommandCounts == InstallInit /\ [][InstallNext]_installVars => []InstalledAsAsked
<1>1. InstallInv => InstalledAsAsked
  BY DEF InstallInv
<1> QED BY <1>1, InstallInvInit, InstallInvNext, PTL
=============================================================================
