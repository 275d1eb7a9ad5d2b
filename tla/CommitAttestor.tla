--------------------------- MODULE CommitAttestor ---------------------------
(***************************************************************************)
(* Commit attestation (commit-attestor.ts and git-commit-detector.ts of    *)
(* packages/agents).  The hook of a successful `git commit` reads the      *)
(* events of its session from the log, to which it has just appended the   *)
(* commit, decides whether the work since the previous commit was clean,   *)
(* has the result signed, and writes it to disk and to the git notes; what *)
(* goes wrong becomes a line of _failures.jsonl.  Other hooks of the       *)
(* session append to the log all the while.                                *)
(*                                                                         *)
(* Abstractions: an append to the log is one step (JsonlStore shows why it *)
(* may be); the events are those of one session, which query() selects; a  *)
(* commit is its tool_use_id; stdout is what extractCommitInfo and         *)
(* assertCommitSha make of it: nothing, no [branch sha], or one with an    *)
(* abbreviated or a full sha.                                              *)
(***************************************************************************)
EXTENDS Naturals, Sequences, FiniteSets, FiniteSetsExt, SequencesExt

CONSTANTS
  Handlers,       \* hook processes
  NoKey,          \* no idempotency_key
  Inputs,         \* what the hooks are told
  MaxMissteps     \* bound: failing calls and dying processes

(***************************************************************************)
(* kind: what the handler makes of the input.  "denial" is a denied action *)
(* of high or critical risk, "commit" a completed `git commit`, "attempt"  *)
(* one that failed or was denied, "plain" everything else.  The key names  *)
(* the hook event: PostToolUse for a commit, PreToolUse for a denial.      *)
(***************************************************************************)
Input == [kind : {"plain", "denial", "commit", "attempt"}, key : Nat \cup {NoKey},
          stdout : {"empty", "unparsed", "short", "full"}]

ASSUME AttestorAssumption ==
  /\ Inputs \subseteq Input /\ NoKey \notin Nat
  /\ \A i \in Inputs : i.kind = "commit" => i.key # NoKey
  /\ \A i, j \in Inputs : i.kind = "commit" /\ j.key = i.key => j.kind # "denial"
  /\ MaxMissteps \in Nat

VARIABLES
  session,   \* the events of the session in events.jsonl
  variables, \* the environment variables that are set
  handler,   \* per process: where it is, its input and what it has computed
  attested,  \* the attestation files
  indexed,   \* the commits in index.jsonl
  notes,     \* the git notes, <<ref, commit>>
  envelopes, \* the commits with an in-toto envelope
  missed,    \* the lines of _failures.jsonl
  missteps,  \* counter for the bound
  silenced   \* history: hooks whose line for _failures.jsonl was lost

artifacts == <<attested, indexed, notes, envelopes>>
attestorVars == <<session, variables, handler, artifacts, missed, missteps, silenced>>

\* The log is new, or it has a line of the session: a denial, a line that is
\* older than the hash chain, or one that has been edited.
AttestorInit ==
  /\ session \in {<<>>} \cup
        {<<[key |-> NoKey, kind |-> x[1], hash |-> x[2]]>> :
           x \in {<<"denial", "ok">>, <<"plain", "none">>, <<"plain", "bad">>}}
  /\ variables \in SUBSET {"PATCHWORK_INTOTO", "PATCHWORK_REQUIRE_RELAY"}
  /\ handler = [h \in Handlers |->
       [pc |-> "new", in |-> [kind |-> "plain", key |-> NoKey, stdout |-> "empty"],
        pass |-> FALSE, length |-> 0]]
  /\ attested = {} /\ indexed = {} /\ notes = {} /\ envelopes = {} /\ missed = {}
  /\ missteps = 0 /\ silenced = {}

Misstep ==
  /\ missteps < MaxMissteps
  /\ missteps' = missteps + 1

Proceed(h, pc) == handler' = [handler EXCEPT ![h].pc = pc]

-----------------------------------------------------------------------------
\* What handlePostToolUse does once the event is stored: only a completed
\* `git commit` that printed something is looked at.
AfterStore(i) ==
  CASE i.kind # "commit" \/ i.stdout = "empty" -> "done"
    [] i.stdout = "unparsed" -> "extract"
    [] OTHER -> "query"

\* The event is appended, unless the log has its idempotency_key.
StoreEvent(h) ==
  /\ handler[h].pc = "new"
  /\ \E i \in Inputs :
       /\ session' = IF i.key # NoKey /\ \E n \in DOMAIN session : session[n].key = i.key
                     THEN session
                     ELSE Append(session, [key |-> i.key, kind |-> i.kind, hash |-> "ok"])
       /\ handler' = [handler EXCEPT ![h].pc = AfterStore(i), ![h].in = i]
  /\ UNCHANGED <<variables, artifacts, missed, missteps, silenced>>

\* writeAttestationFailure swallows its own errors; faults led to it.
RecordMissed(h, stage, faults) ==
  \/ /\ missteps + faults <= MaxMissteps
     /\ missteps' = missteps + faults
     /\ missed' = missed \cup {[by |-> h, stage |-> stage]}
     /\ UNCHANGED silenced
  \/ /\ missteps + faults < MaxMissteps
     /\ missteps' = missteps + faults + 1
     /\ silenced' = silenced \cup {h}
     /\ UNCHANGED missed

ExtractFails(h) ==
  /\ handler[h].pc = "extract"
  /\ RecordMissed(h, "extract", 0)
  /\ Proceed(h, "done")
  /\ UNCHANGED <<session, variables, artifacts>>

-----------------------------------------------------------------------------
(***************************************************************************)
(* generateCommitAttestation.                                              *)
(***************************************************************************)

\* verifyEventHashes: no edited line, and no line without a hash after one
\* that has one.
verifyEventHashes(events) ==
  \A n \in DOMAIN events :
    /\ events[n].hash # "bad"
    /\ events[n].hash = "none" => \A m \in 1..n : events[m].hash = "none"

looksLikeCommit(e) == e.kind \in {"commit", "attempt"}

\* 0 if there is none.
findLastCommitEventIndex(events) ==
  Max({0} \cup {n \in DOMAIN events : looksLikeCommit(events[n])})

countHighRiskDenials(events) ==
  Cardinality({n \in DOMAIN events : events[n].kind = "denial"})

\* Mutant: the current commit is taken for the previous one.
sinceLastCommitOfAll(events) ==
  SubSeq(events, findLastCommitEventIndex(events) + 1, Len(events))

\* The events after the previous commit; the last event is taken to be the
\* current commit, whatever it is.
sinceLastCommit(events) ==
  LET prior == IF events = <<>> THEN events ELSE Front(events)
  IN SubSeq(prior, findLastCommitEventIndex(prior) + 1, Len(prior))

pass(events) ==
  /\ verifyEventHashes(events)
  /\ countHighRiskDenials(sinceLastCommit(events)) = 0
  /\ events # <<>>

\* A log that cannot be read leaves the attestation without events.
ReadSession(h) ==
  /\ handler[h].pc = "query"
  /\ \/ /\ handler' = [handler EXCEPT ![h].pc = "write", ![h].length = Len(session),
                                      ![h].pass = pass(session)]
        /\ UNCHANGED missteps
     \/ /\ handler' = [handler EXCEPT ![h].pc = "write", ![h].pass = pass(<<>>)]
        /\ Misstep
  /\ UNCHANGED <<session, variables, artifacts, missed, silenced>>

\* The relay signs, or else the local keyring unless the relay is required;
\* "throws" if neither does.
requestSignature ==
  {"relay", "throws"} \cup
  (IF "PATCHWORK_REQUIRE_RELAY" \in variables THEN {} ELSE {"local"})

\* Whatever requestSignature throws, the legacy key is tried and then the
\* attestation goes unsigned.
signature_source ==
  UNION {IF s = "throws" THEN {"legacy", "unsigned"} ELSE {s} : s \in requestSignature}

-----------------------------------------------------------------------------
(***************************************************************************)
(* writeCommitAttestation, addGitNote and, with PATCHWORK_INTOTO, the      *)
(* envelope and its note.                                                  *)
(***************************************************************************)
assertCommitSha(i) == i.stdout = "full"

\* The signature was awaited; nothing that others write was read meanwhile.
WriteAttestation(h) ==
  LET c == handler[h].in.key IN
  /\ handler[h].pc = "write" /\ assertCommitSha(handler[h].in)
  /\ \E source \in signature_source :
       attested' = {a \in attested : a.commit # c} \cup
                   {[commit |-> c, pass |-> handler[h].pass, length |-> handler[h].length,
                     source |-> source]}
  /\ Proceed(h, "index")
  /\ UNCHANGED <<session, variables, indexed, notes, envelopes, missed, missteps, silenced>>

AppendIndex(h) ==
  /\ handler[h].pc = "index"
  /\ indexed' = indexed \cup {handler[h].in.key}
  /\ Proceed(h, "note")
  /\ UNCHANGED <<session, variables, attested, notes, envelopes, missed, missteps, silenced>>

\* assertCommitSha or one of the two writes throws.
WriteAttestationThrows(h) ==
  /\ handler[h].pc \in {"write", "index"}
  /\ RecordMissed(h, "generate", IF assertCommitSha(handler[h].in) THEN 1 ELSE 0)
  /\ Proceed(h, "done")
  /\ UNCHANGED <<session, variables, artifacts>>

AfterNote == IF "PATCHWORK_INTOTO" \in variables THEN "envelope" ELSE "done"

AddGitNote(h) ==
  /\ handler[h].pc = "note"
  /\ notes' = notes \cup {<<"patchwork", handler[h].in.key>>}
  /\ Proceed(h, AfterNote)
  /\ UNCHANGED <<session, variables, attested, indexed, envelopes, missed, missteps, silenced>>

\* Mutant: a note that could not be added is not recorded.
AddGitNoteThrowsSilently(h) ==
  /\ handler[h].pc = "note"
  /\ Misstep
  /\ Proceed(h, AfterNote)
  /\ UNCHANGED <<session, variables, artifacts, missed, silenced>>

AddGitNoteThrows(h) ==
  /\ handler[h].pc = "note"
  /\ RecordMissed(h, "note", 1)
  /\ Proceed(h, AfterNote)
  /\ UNCHANGED <<session, variables, artifacts>>

\* buildIntotoEnvelope and writeIntotoEnvelope; here there is no key to fall
\* back to.
WriteEnvelope(h) ==
  /\ handler[h].pc = "envelope"
  /\ envelopes' = envelopes \cup {handler[h].in.key}
  /\ Proceed(h, "envelopeNote")
  /\ UNCHANGED <<session, variables, attested, indexed, notes, missed, missteps, silenced>>

AddIntotoGitNote(h) ==
  /\ handler[h].pc = "envelopeNote"
  /\ notes' = notes \cup {<<"patchwork-intoto", handler[h].in.key>>}
  /\ Proceed(h, "done")
  /\ UNCHANGED <<session, variables, attested, indexed, envelopes, missed, missteps, silenced>>

EnvelopeThrows(h) ==
  /\ handler[h].pc \in {"envelope", "envelopeNote"}
  /\ RecordMissed(h, IF handler[h].pc = "envelope" THEN "generate" ELSE "note", 1)
  /\ Proceed(h, "done")
  /\ UNCHANGED <<session, variables, artifacts>>

HandlerDies(h) ==
  /\ handler[h].pc \notin {"new", "done", "dead"}
  /\ Misstep
  /\ Proceed(h, "dead")
  /\ UNCHANGED <<session, variables, artifacts, missed, silenced>>

AttestorNext ==
  \E h \in Handlers :
    \/ StoreEvent(h) \/ ExtractFails(h) \/ ReadSession(h)
    \/ WriteAttestation(h) \/ AppendIndex(h) \/ WriteAttestationThrows(h)
    \/ AddGitNote(h) \/ AddGitNoteThrows(h)
    \/ WriteEnvelope(h) \/ AddIntotoGitNote(h) \/ EnvelopeThrows(h) \/ HandlerDies(h)

AttestorSpec == AttestorInit /\ [][AttestorNext]_attestorVars

-----------------------------------------------------------------------------
(***************************************************************************)
(* No commit is missed in silence: once the hook of a successful commit is *)
(* through and git had printed something, there are the attestation, its   *)
(* index line, its note and (if they are asked for) the envelope and its   *)
(* note, or _failures.jsonl has a line of this hook.                       *)
(***************************************************************************)
CommitAccountedFor ==
  \A h \in Handlers :
    LET i == handler[h].in IN
    handler[h].pc = "done" /\ i.kind = "commit" /\ i.stdout # "empty" /\ h \notin silenced =>
      \/ \E f \in missed : f.by = h
      \/ /\ i.key \in {a.commit : a \in attested} \cap indexed
         /\ <<"patchwork", i.key>> \in notes
         /\ "PATCHWORK_INTOTO" \in variables =>
              i.key \in envelopes /\ <<"patchwork-intoto", i.key>> \in notes

(***************************************************************************)
(* A passing attestation vouches for a clean window: if the last event it  *)
(* read was the commit it is about, then no line it read had been edited   *)
(* and every denial of a high-risk action before it is separated from it   *)
(* by another `git commit`.                                                *)
(***************************************************************************)
PassMeansClean ==
  \A a \in attested :
    a.pass /\ session[a.length].key = a.commit =>
      /\ \A n \in 1..a.length : session[n].hash # "bad"
      /\ \A n \in 1..a.length : session[n].kind = "denial" =>
           \E m \in n..(a.length - 1) : looksLikeCommit(session[m])

(***************************************************************************)
(* "Signed compliance proof on every git commit": when nothing fails, a    *)
(* commit whose sha git has printed is attested once its hook is through.  *)
(***************************************************************************)
CommitAttested ==
  \A h \in Handlers :
    handler[h].pc = "done" /\ handler[h].in.kind = "commit" /\ missteps = 0
      /\ handler[h].in.stdout \in {"short", "full"}
    => \E a \in attested : a.commit = handler[h].in.key

=============================================================================
