------------------------------- MODULE Signing -------------------------------
(***************************************************************************)
(* How a commit attestation and its in-toto envelope are signed and        *)
(* verified: requestSignature and requestVerification of packages/core/src/*)
(* relay/signing-proxy.ts, handleSign and handleVerify of relay/daemon.ts, *)
(* attestation/intoto.ts, hash/attestation.ts, the keyring of hash/seal.ts *)
(* and `patchwork commit-attest --verify`.                                 *)
(*                                                                         *)
(* There are two keyrings: the user's, which every hook may create and     *)
(* `patchwork seal --rotate-key` extends, and root's, which only the relay *)
(* daemon reads.  CommitAttestor models when an attestation is made and    *)
(* takes its signature as given.                                           *)
(*                                                                         *)
(* Abstractions: a key is a number and its id; a signature is its key and  *)
(* its text, a hash is what is hashed; an artifact is a function of its    *)
(* field names; the two lengths of a DSSE encoding, which dssePAE computes *)
(* and validateDssePae recomputes, and fields of one admissible value are  *)
(* left out.                                                               *)
(***************************************************************************)
EXTENDS Naturals, FiniteSets

CONSTANTS
  Signers,        \* handlers of a commit, and processes that rotate the key
  Branches,       \* the branches of commits
  PlainBranches,  \* those that match PATCHWORK_SUBJECT_NAME_RE
  MaxKeys, MaxCommits, MaxRelayChanges,
  MaxSigningFaults  \* bounds; a fault is a timeout or a death

ASSUME SigningAssumption == PlainBranches \subseteq Branches

VARIABLES
  keyring,        \* user's and root's: the ids of key files, the ACTIVE file
  relay,          \* absent, up, or deaf (a socket on which nobody answers)
  requireRelay,   \* PATCHWORK_REQUIRE_RELAY
  signer,         \* each process: where it is and what it is signing
  documents,      \* the attestations and envelopes on disk
  commits, keys, relayChanges, signingFaults   \* counters

signingVars ==
  <<keyring, relay, requireRelay, signer, documents, commits, keys, relayChanges,
    signingFaults>>
rest == <<relay, requireRelay, commits, relayChanges, signingFaults>>

\* The required keys of a risk summary: one for the five levels, the denials.
RiskKeys == {"levels", "denials"}

-----------------------------------------------------------------------------
(***************************************************************************)
(* What is signed.                                                         *)
(***************************************************************************)
\* The artifact of generateCommitAttestation, whose risk_summary always has the
\* denials of the window.
Artifact(commit, branch) ==
  [kind |-> "commit-attestation", schema_version |-> 1, commit_sha |-> commit,
   branch |-> branch, risk_summary |-> RiskKeys \cup {"denials_high_risk_since_last_commit"}]

EXCLUDED_FIELDS == {"signature", "payload_hash", "key_id", "signature_source"}

buildAttestationPayload(artifact) ==
  [kind |-> "json",
   text |-> [f \in DOMAIN artifact \ EXCLUDED_FIELDS |-> artifact[f]]]

\* buildInTotoStatement: the subject is the commit, the predicate the rest.
buildInTotoStatement(artifact) ==
  [subject |-> [branch |-> artifact.branch, sha |-> artifact.commit_sha,
                gitCommit |-> artifact.commit_sha],
   predicateType |-> "ai-agent-session/v1",
   predicate |-> [schema_version |-> 1, risk_summary |-> artifact.risk_summary]]

\* dssePAE of the canonical statement.
dssePAE(payloadType, statement) ==
  [kind |-> "dsse", payloadType |-> payloadType, statement |-> statement]

TextOf(what, artifact) ==
  IF what = "attestation" THEN buildAttestationPayload(artifact)
  ELSE dssePAE("in-toto", buildInTotoStatement(artifact))

-----------------------------------------------------------------------------
(***************************************************************************)
(* The relay daemon.                                                       *)
(***************************************************************************)
PATCHWORK_PREDICATE_KEYS == {"schema_version", "risk_summary"}
PATCHWORK_RISK_KEYS == RiskKeys

\* Closed schema: no other key, and every required one.
validatePatchworkAiAgentPredicate(p) ==
  /\ DOMAIN p = PATCHWORK_PREDICATE_KEYS
  /\ p.schema_version = 1
  /\ p.risk_summary \subseteq PATCHWORK_RISK_KEYS
  /\ RiskKeys \subseteq p.risk_summary

validateDssePae(data) ==
  LET s == data.statement IN
  /\ data.payloadType = "in-toto"
  /\ s.predicateType = "ai-agent-session/v1"
  /\ validatePatchworkAiAgentPredicate(s.predicate)
  /\ s.subject.branch \in PlainBranches
  /\ s.subject.sha = s.subject.gitCommit

\* classifySignablePayload # null
Signable(data) ==
  \/ data.kind = "dsse" /\ validateDssePae(data)
  \/ /\ data.kind = "json"
     /\ data.text.kind = "commit-attestation" /\ data.text.schema_version = 1

Signature(key, data) == [key |-> key, data |-> data]
verifySeal(data, signature, key) == signature = Signature(key, data)

\* handleVerify
handleVerify(data, signature, id) ==
  IF id \notin keyring["root"].ids THEN [verified |-> FALSE, reason |-> "unknown_key"]
  ELSE [verified |-> verifySeal(data, signature, id), reason |-> "signature_mismatch"]

-----------------------------------------------------------------------------
(***************************************************************************)
(* Verification.                                                           *)
(***************************************************************************)
\* Mutant: only the active key of the user's keyring is tried.
requestVerificationActive(data, signature, id) ==
  IF id = keyring["user"].active
  THEN [verified |-> verifySeal(data, signature, id), reason |-> "signature_mismatch"]
  ELSE IF relay = "up" THEN handleVerify(data, signature, id)
  ELSE [verified |-> FALSE, reason |-> "no_key_available"]

\* The user's keyring first, then the relay.
requestVerification(data, signature, id) ==
  IF id \in keyring["user"].ids
  THEN [verified |-> verifySeal(data, signature, id), reason |-> "signature_mismatch"]
  ELSE IF relay = "up" THEN handleVerify(data, signature, id)
  ELSE [verified |-> FALSE, reason |-> "no_key_available"]

\* verifyCommitAttestation of the artifact that was read back.
verifyCommitAttestation(artifact) ==
  LET payload == buildAttestationPayload(artifact) IN
  CASE artifact.signature_source = "unsigned" -> [verified |-> FALSE, reason |-> "unsigned"]
    [] artifact.signature_source = "legacy" -> [verified |-> FALSE, reason |-> "no_key_id"]
    [] OTHER ->
       IF payload # artifact.payload_hash
       THEN [verified |-> FALSE, reason |-> "payload_hash_mismatch"]
       ELSE requestVerification(payload, artifact.signature, artifact.key_id)

\* verifyDsseEnvelope: the encoding is recomputed from the envelope.
verifyDsseEnvelope(envelope) ==
  requestVerification(dssePAE(envelope.payloadType, envelope.payload),
                      envelope.signature, envelope.key_id)

Verify(d) ==
  IF d.what = "attestation" THEN verifyCommitAttestation(d.body)
  ELSE verifyDsseEnvelope(d.body)

-----------------------------------------------------------------------------
(***************************************************************************)
(* Signing.                                                                *)
(***************************************************************************)
Rest == [pc |-> "idle", what |-> "none", artifact |-> Artifact(0, "none"), key |-> 0,
         source |-> "none"]

SigningInit ==
  /\ \E root \in {{}, {1}} :
       keyring = [user |-> [ids |-> {}, active |-> 0, torn |-> FALSE],
                  root |-> [ids |-> root, active |-> Cardinality(root), torn |-> FALSE]]
  /\ relay \in {"absent", "up"} /\ requireRelay \in BOOLEAN
  /\ signer = [p \in Signers |-> Rest]
  /\ documents = {}
  /\ commits = 0 /\ keys = 1 /\ relayChanges = 0 /\ signingFaults = 0

On(p, label) == signer[p].pc = label
Jump(p, label) == signer' = [signer EXCEPT ![p].pc = label]

\* A commit is to be attested.
StartSigning(p, branch) ==
  /\ On(p, "idle") /\ commits < MaxCommits /\ commits' = commits + 1
  /\ signer' = [signer EXCEPT ![p] =
       [Rest EXCEPT !.pc = "probe", !.what = "attestation",
                    !.artifact = Artifact(commits + 1, branch)]]
  /\ UNCHANGED <<keyring, relay, requireRelay, documents, keys, relayChanges, signingFaults>>

\* `patchwork seal --rotate-key`
StartRotation(p) ==
  /\ On(p, "idle") /\ keys < MaxKeys
  /\ signer' = [signer EXCEPT ![p] = [Rest EXCEPT !.pc = "generate", !.what = "rotation"]]
  /\ UNCHANGED <<keyring, documents, keys, rest>>

\* Mutant: the local key is used in any case.
WithoutRelayLocal(p) == Jump(p, "local")

\* What requestSignature does when the relay cannot or will not sign.
WithoutRelay(p) == Jump(p, IF requireRelay THEN "refused" ELSE "local")

Signed(p, key, source) ==
  signer' = [signer EXCEPT ![p] = [@ EXCEPT !.pc = "store", !.key = key, !.source = source]]

\* existsSync(sockPath)
Probe(p) ==
  /\ On(p, "probe")
  /\ IF relay = "absent" THEN WithoutRelay(p) ELSE Jump(p, "sent")
  /\ UNCHANGED <<keyring, documents, keys, rest>>

\* handleSign; the first request creates root's keyring.
handleSign(p) ==
  LET r == keyring["root"] IN
  /\ On(p, "sent") /\ relay = "up"
  /\ \/ /\ ~Signable(TextOf(signer[p].what, signer[p].artifact))
        /\ WithoutRelay(p)
        /\ UNCHANGED <<keyring, keys>>
     \/ /\ Signable(TextOf(signer[p].what, signer[p].artifact)) /\ r.active # 0
        /\ Signed(p, r.active, "relay")
        /\ UNCHANGED <<keyring, keys>>
     \/ /\ Signable(TextOf(signer[p].what, signer[p].artifact)) /\ r.active = 0
        /\ keys < MaxKeys /\ keys' = keys + 1
        /\ keyring' = [keyring EXCEPT !["root"] =
                         [ids |-> @.ids \cup {keys + 1}, active |-> keys + 1, torn |-> FALSE]]
        /\ Signed(p, keys + 1, "relay")
  /\ UNCHANGED <<documents, rest>>

\* Nobody listens, or the answer comes after SIGN_TIMEOUT_MS.
sendRelayRequestFails(p) ==
  /\ On(p, "sent")
  /\ \/ relay # "up" /\ UNCHANGED signingFaults
     \/ /\ relay = "up" /\ signingFaults < MaxSigningFaults
        /\ signingFaults' = signingFaults + 1
  /\ WithoutRelay(p)
  /\ UNCHANGED <<keyring, documents, keys, relay, requireRelay, commits, relayChanges>>

\* ensureKeyring of the user's keyring: an ACTIVE file that is being written is
\* malformed, and a missing one starts a new keyring.
LocalSign(p) ==
  LET u == keyring["user"] IN
  /\ On(p, "local")
  /\ IF u.torn THEN Jump(p, "refused")
     ELSE IF u.active = 0 THEN Jump(p, "generate")
     ELSE Signed(p, u.active, "local")
  /\ UNCHANGED <<keyring, documents, keys, rest>>

\* generateAndActivateKey: the key file, then ACTIVE, truncated and filled.
GenerateKey(p) ==
  /\ On(p, "generate") /\ keys < MaxKeys /\ keys' = keys + 1
  /\ keyring' = [keyring EXCEPT !["user"] =
                   [@ EXCEPT !.ids = keyring["user"].ids \cup {keys + 1}]]
  /\ signer' = [signer EXCEPT ![p] = [@ EXCEPT !.pc = "clear", !.key = keys + 1]]
  /\ UNCHANGED <<documents, rest>>

ClearActive(p) ==
  /\ On(p, "clear")
  /\ keyring' = [keyring EXCEPT !["user"] = [@ EXCEPT !.torn = TRUE]]
  /\ Jump(p, "activate")
  /\ UNCHANGED <<documents, keys, rest>>

FillActive(p) ==
  /\ On(p, "activate")
  /\ keyring' = [keyring EXCEPT !["user"] = [@ EXCEPT !.active = signer[p].key,
                                                      !.torn = FALSE]]
  /\ IF signer[p].what = "rotation" THEN signer' = [signer EXCEPT ![p] = Rest]
     ELSE Signed(p, signer[p].key, "local")
  /\ UNCHANGED <<documents, keys, rest>>

\* The signature and its source join the artifact, whose text is recomputed by
\* whoever verifies it.  (The source of an envelope is history: the file keeps
\* the key's id only.)
Finished(p) ==
  LET s == signer[p]
      text == TextOf(s.what, s.artifact)
      signed == [payload_hash |-> text, signature |-> Signature(s.key, text),
                 key_id |-> s.key, signature_source |-> s.source]
      fields == DOMAIN s.artifact \cup DOMAIN signed
  IN IF s.what = "attestation"
     THEN [f \in fields |-> IF f \in DOMAIN signed THEN signed[f] ELSE s.artifact[f]]
     ELSE [payloadType |-> text.payloadType, payload |-> text.statement,
           signature |-> Signature(s.key, text), key_id |-> s.key,
           signature_source |-> s.source]

\* writeCommitAttestation, after which the envelope is signed; writeIntotoEnvelope.
StoreSigned(p) ==
  /\ On(p, "store")
  /\ documents' = documents \cup {[what |-> signer[p].what, body |-> Finished(p)]}
  /\ signer' = [signer EXCEPT ![p] =
       IF @.what = "attestation"
       THEN [Rest EXCEPT !.pc = "probe", !.what = "envelope", !.artifact = signer[p].artifact]
       ELSE Rest]
  /\ UNCHANGED <<keyring, keys, rest>>

\* All signing failed: an attestation gets the legacy key or none, an envelope
\* is not written.
Unsigned(p) ==
  /\ On(p, "refused")
  /\ IF signer[p].what = "attestation"
     THEN \E source \in {"legacy", "unsigned"} : Signed(p, 0, source)
     ELSE signer' = [signer EXCEPT ![p] = Rest]
  /\ UNCHANGED <<keyring, documents, keys, rest>>

-----------------------------------------------------------------------------
RelayChanges ==
  /\ relayChanges < MaxRelayChanges /\ relayChanges' = relayChanges + 1
  /\ relay' \in {"absent", "up", "deaf"} \ {relay}
  /\ UNCHANGED <<keyring, requireRelay, signer, documents, commits, keys, signingFaults>>

SignerDies(p) ==
  /\ signer[p].pc \notin {"idle", "dead"}
  /\ signingFaults < MaxSigningFaults
  /\ signingFaults' = signingFaults + 1
  /\ signer' = [signer EXCEPT ![p] = [Rest EXCEPT !.pc = "dead"]]
  /\ UNCHANGED <<keyring, relay, requireRelay, documents, keys, relayChanges, commits>>

SigningStep(p) ==
  \/ Probe(p) \/ handleSign(p) \/ sendRelayRequestFails(p) \/ LocalSign(p)
  \/ GenerateKey(p) \/ ClearActive(p) \/ FillActive(p) \/ StoreSigned(p) \/ Unsigned(p)

SigningNext ==
  \/ \E p \in Signers : (\E b \in Branches : StartSigning(p, b)) \/ StartRotation(p)
  \/ \E p \in Signers : SigningStep(p) \/ SignerDies(p)
  \/ RelayChanges

-----------------------------------------------------------------------------
\* What was signed verifies at any later time: after rotations, half-written
\* ACTIVE files, races to create the keyring and changes of the relay, every
\* attestation and envelope signed with a key of a keyring is verified, except
\* that one signed by the relay has to wait until the relay answers.
SignedVerifies ==
  \A d \in documents :
    d.body.signature_source \in {"local", "relay"} =>
      \/ Verify(d).verified
      \/ /\ Verify(d).reason = "no_key_available"
         /\ d.body.signature_source = "relay" /\ relay # "up"

\* signature_source is what a verifier can rely on: "relay" only for a key of
\* root's keyring and a text the relay accepts, "local" only for one of the
\* user's, and with PATCHWORK_REQUIRE_RELAY never "local".
SourceIsTrue ==
  \A d \in documents :
    LET body == d.body IN
    /\ body.signature_source = "relay" =>
         body.key_id \in keyring["root"].ids \ keyring["user"].ids /\ Signable(body.signature.data)
    /\ body.signature_source = "local" =>
         ~requireRelay /\ body.key_id \in keyring["user"].ids \ keyring["root"].ids

\* The relay signs the in-toto statements Patchwork itself produces.
StatementAccepted ==
  \A p \in Signers :
    On(p, "sent") /\ signer[p].what = "envelope" /\ signer[p].artifact.branch \in PlainBranches =>
      Signable(TextOf("envelope", signer[p].artifact))
=============================================================================
