---------------------------- MODULE Verification ----------------------------
(***************************************************************************)
(* What `patchwork verify` and `patchwork attest` compute: verifyChain of  *)
(* packages/core/src/hash/chain.ts, and the seal, witness, remote proof    *)
(* and attestation checks of packages/cli/src/verify-engine.ts under the   *)
(* options that profile, configuration file and command line resolve to.   *)
(*                                                                         *)
(* Abstractions: an event_hash is the number of the event that was hashed; *)
(* a key id is the key; a signature is the key that made it; options are   *)
(* a set of names; whether a record is too old for a --max-...-age option  *)
(* is an input.  A check is reduced to whether it fails: its reasons are   *)
(* disjuncts, as every early return but the last one reports a failure.    *)
(***************************************************************************)
EXTENDS Integers, Sequences, FiniteSets, FiniteSetsExt

CONSTANTS NoAttestation, Urls

\* A line of events.jsonl: its event_hash (id) may be missing or not match,
\* and the line may not satisfy the schema or not even be JSON.
Line == [id : Nat, prev : Nat, hash : {"ok", "bad", "none"},
         form : {"event", "invalid", "corrupt"}]

\* A line of seals.jsonl, whole, cut short, or glued to one cut short.
SealRecord == [form : {"seal", "torn", "corrupt"}, tip : Nat, count : Nat,
               keyId : Nat, signer : Nat]

WitnessRecord == [tip : Nat, count : Nat, url : Urls]

Attestation == [pass : BOOLEAN, tip : Nat, count : Nat, sealTip : Nat,
                witnessTip : Nat, keyId : Nat, signer : Nat, intact : BOOLEAN]

-----------------------------------------------------------------------------
(***************************************************************************)
(* verifyChain.                                                            *)
(***************************************************************************)
\* Kinds of lines, as sets of their positions: those with an event_hash that are
\* JSON at all, those that are valid events, and what is wrong with the others.
Hashed(lines) == {i \in DOMAIN lines : lines[i].form # "corrupt" /\ lines[i].hash # "none"}

Chained(lines) == {i \in Hashed(lines) : lines[i].form = "event"}

HashMismatch(lines) == {i \in Chained(lines) : lines[i].hash = "bad"}

\* The first chained event anchors the chain, whatever its prev_hash.
PrevLinkMismatch(lines) ==
  {i \in Chained(lines) :
     LET before == {j \in Chained(lines) : j < i}
     IN before # {} /\ lines[i].prev # lines[Max(before)].id}

Legacy(lines) == {i \in DOMAIN lines : lines[i].form = "event" /\ lines[i].hash = "none"}

Invalid(lines) == {i \in DOMAIN lines : lines[i].form # "event"}

\* The event_hash of the last line that has one, 0 if none has.
ChainTip(lines) == IF Hashed(lines) = {} THEN 0 ELSE lines[Max(Hashed(lines))].id

ChainFails(o, lines) ==
  \/ HashMismatch(lines) # {} \/ PrevLinkMismatch(lines) # {}
  \/ Invalid(lines) # {} /\ "allowInvalid" \notin o
  \/ Legacy(lines) # {} /\ "strict" \in o

-----------------------------------------------------------------------------
(***************************************************************************)
(* The checks.  o is the set of options; w is what the command reads: the  *)
(* log, seals, witnesses, keys, attestation, and what is too old.          *)
(***************************************************************************)
\* loadKeyById, or the legacy key (0: there is none).
LoadKey(w, keyId) == IF keyId \in w.keys THEN keyId ELSE w.legacyKey

SealLines(w) == {i \in DOMAIN w.seals : w.seals[i].form = "seal"}
LatestSeal(w) == w.seals[Max(SealLines(w))]

SealSigned(w) ==
  /\ SealLines(w) # {}
  /\ LatestSeal(w).signer # 0
  /\ LoadKey(w, LatestSeal(w).keyId) = LatestSeal(w).signer

\* seal_tip_hash: known once the signature verifies.
SealTip(o, w) ==
  IF "noSealCheck" \notin o /\ w.sealFile /\ SealSigned(w)
     /\ ("strictSealFile" \in o => Max(SealLines(w)) = Len(w.seals))
  THEN LatestSeal(w).tip ELSE 0

\* Mutant: a valid signature is enough.
runSealCheckAnyTip(o, w) ==
  /\ "noSealCheck" \notin o
  /\ \/ ~w.sealFile /\ {"requireSeal", "maxSealAge"} \cap o # {}
     \/ w.sealFile /\ SealTip(o, w) = 0
     \/ w.sealFile /\ "maxSealAge" \in o /\ "seal" \in w.tooOld

\* Mutant: the seal has to be about the end of the log.
runSealCheckTipOnly(o, w) ==
  /\ "noSealCheck" \notin o
  /\ \/ ~w.sealFile /\ {"requireSeal", "maxSealAge"} \cap o # {}
     \/ w.sealFile /\ SealTip(o, w) \notin {ChainTip(w.log)} \ {0}
     \/ w.sealFile /\ "maxSealAge" \in o /\ "seal" \in w.tooOld

\* Does the seal check report a failure?  A seal file without a verifiable
\* latest seal always fails; the sealed tip may be anywhere in the log.
runSealCheck(o, w) ==
  /\ "noSealCheck" \notin o
  /\ \/ ~w.sealFile /\ {"requireSeal", "maxSealAge"} \cap o # {}
     \/ /\ w.sealFile
        /\ \/ SealTip(o, w) = 0
           \/ \A i \in Hashed(w.log) : w.log[i].id # SealTip(o, w)
           \/ "maxSealAge" \in o /\ "seal" \in w.tooOld

MatchingWitnesses(w) ==
  LET tip == ChainTip(w.log)
  IN {i \in DOMAIN w.witnesses : tip # 0 /\ w.witnesses[i].tip = tip}

WitnessTip(o, w) ==
  IF "noWitnessCheck" \notin o /\ MatchingWitnesses(w) # {}
  THEN ChainTip(w.log) ELSE 0

runWitnessCheck(o, w) ==
  /\ "noWitnessCheck" \notin o
  /\ \/ {"requireWitness", "maxWitnessAge"} \cap o # {} /\ MatchingWitnesses(w) = {}
     \/ "maxWitnessAge" \in o /\ "witness" \in w.tooOld

\* checkRemoteWitnesses: GET every matching record's anchor from its witness.
\* Without a tip every record is asked about.
runRemoteWitnessCheck(o, w) ==
  LET tip == ChainTip(w.log)
      candidates == {i \in DOMAIN w.witnesses : tip # 0 => w.witnesses[i].tip = tip}
      verified == {i \in candidates :
                     /\ w.witnesses[i].url \in w.reachable
                     /\ w.witnesses[i].tip \in w.anchors[w.witnesses[i].url]}
  IN /\ "requireRemoteWitnessProof" \in o /\ "noRemoteWitnessCheck" \notin o
     /\ Cardinality(verified) < w.quorum

AttestationOptions == {"requireAttestation", "requireSignedAttestation",
  "maxAttestationAge", "strictAttestationFile", "requireAttestationBinding"}

\* Mutant: only --require-attestation and an age make a missing artifact fail.
runAttestationCheckIfPresent(o, w) ==
  /\ "noAttestationCheck" \notin o /\ AttestationOptions \cap o # {}
  /\ IF w.attestation = NoAttestation
     THEN {"requireAttestation", "maxAttestationAge"} \cap o # {}
     ELSE w.attestation.tip # ChainTip(w.log)

\* The artifact must be intact, properly signed, a pass and fresh as required.
ArtifactRejected(o, w, a) ==
  \/ ~a.intact
  \/ a.signer # 0 /\ LoadKey(w, a.keyId) # a.signer
  \/ "requireSignedAttestation" \in o /\ a.signer = 0
  \/ "strictAttestationFile" \in o /\ ~a.pass
  \/ "maxAttestationAge" \in o /\ "attestation" \in w.tooOld

\* What it says must be the current state.
BindingMismatch(o, w, a) ==
  \/ a.tip # ChainTip(w.log)
  \/ a.count # Cardinality(Chained(w.log))
  \/ "noSealCheck" \notin o /\ a.sealTip # SealTip(o, w)
  \/ "noWitnessCheck" \notin o /\ a.witnessTip # WitnessTip(o, w)

runAttestationCheck(o, w) ==
  /\ "noAttestationCheck" \notin o /\ AttestationOptions \cap o # {}
  /\ IF w.attestation = NoAttestation
     THEN {"requireAttestation", "requireSignedAttestation", "maxAttestationAge"}
          \cap o # {}
     ELSE ArtifactRejected(o, w, w.attestation) \/ BindingMismatch(o, w, w.attestation)

\* The pass field of runVerification.
runVerification(o, w) ==
  ~( \/ ChainFails(o, w.log) \/ runSealCheck(o, w) \/ runWitnessCheck(o, w)
     \/ runRemoteWitnessCheck(o, w) \/ runAttestationCheck(o, w) )

\* What `patchwork attest` writes about w, signed with key (0: unsigned).
AttestationOf(o, w, key) ==
  [pass |-> runVerification(o, w),
   tip |-> ChainTip(w.log), count |-> Cardinality(Chained(w.log)),
   sealTip |-> SealTip(o, w), witnessTip |-> WitnessTip(o, w),
   keyId |-> key, signer |-> key, intact |-> TRUE]

-----------------------------------------------------------------------------
(***************************************************************************)
(* loadConfig and resolveVerifyDefaults.  A configuration is its profile,  *)
(* the requirements it turns on and off, and how it parses: "valid",       *)
(* "unknownKey" (used but invalid), or "typeError" (invalid and ignored).  *)
(***************************************************************************)
PROFILES == [strict |-> {"requireSeal", "requireWitness", "requireRemoteWitnessProof",
                         "requireSignedAttestation", "requireAttestationBinding",
                         "strictAttestationFile"},
             baseline |-> {}]

\* What the verify section of a configuration can turn on: no check can be left
\* out there.
ConfigOptions ==
  {"requireSeal", "requireWitness", "requireRemoteWitnessProof", "requireSignedAttestation",
   "requireAttestationBinding", "strictAttestationFile", "maxSealAge", "maxWitnessAge",
   "maxAttestationAge"}

NoConfig == [status |-> "valid", profile |-> "none", on |-> {}, off |-> {}]

parseConfigFile(c) == IF c.status = "typeError" THEN NoConfig ELSE c

ProfileName(profile, config) ==
  IF profile # "none" THEN profile
  ELSE IF config.profile # "none" THEN config.profile ELSE "baseline"

\* What the --no-...-check flags switch off.
Disabled(flags) ==
  (IF "noSealCheck" \in flags THEN {"requireSeal"} ELSE {}) \cup
  (IF "noWitnessCheck" \in flags THEN {"requireWitness"} ELSE {}) \cup
  (IF "noRemoteWitnessCheck" \in flags THEN {"requireRemoteWitnessProof"} ELSE {}) \cup
  (IF "noAttestationCheck" \in flags
   THEN {"requireSignedAttestation", "requireAttestationBinding",
         "strictAttestationFile"} ELSE {})

\* Flags over configuration over profile; an unknown profile is baseline.
resolveVerifyDefaults(profile, config, flags) ==
  LET name == ProfileName(profile, config)
      defaults == IF name \in DOMAIN PROFILES THEN PROFILES[name] ELSE {}
  IN (((defaults \cup config.on) \ config.off) \cup flags) \ Disabled(flags)

\* An invalid configuration is an error under the strict profile only.
ConfigRefused(profile, file) ==
  file.status # "valid" /\ ProfileName(profile, parseConfigFile(file)) = "strict"
=============================================================================
