----------------------------- MODULE MCServices -----------------------------
(***************************************************************************)
(* Four parts that share no state, checked side by side: a behaviour is    *)
(* one of DualWrite, CommitAttestor, Enrollment or Telemetry, chosen by    *)
(* scene, while the variables of the others keep their initial values.     *)
(***************************************************************************)
EXTENDS DualWrite, CommitAttestor, Enrollment, Telemetry, TLC

CONSTANTS Scenes, c1, c2, c3, m1, m2

\* Two events of the same timestamp, neither of which has a content hash.
MCHistory == <<"entry", "entry">>

Told(kind, key, stdout) == [kind |-> kind, key |-> key, stdout |-> stdout]

MCInputs ==
  {Told("denial", NoKey, "empty"), Told("attempt", NoKey, "empty"),
   Told("commit", 1, "full"), Told("commit", 2, "full"), Told("commit", 3, "short"),
   Told("commit", 4, "unparsed")}

MCMachineOf == (c1 :> m1) @@ (c2 :> m1) @@ (c3 :> m2)

\* A full active file, and two that were rotated.
MCOldLines == (0 :> {"old"}) @@ (1 :> {"older"}) @@ (2 :> {"oldest"})

VARIABLE scene

MCInit ==
  /\ scene \in Scenes
  /\ DualInit /\ EnrollInit
  /\ AttestorInit /\ (scene # "commits" => session = <<>> /\ variables = {})
  /\ TelemetryInit /\ (scene # "telemetry" => lockMode = "always")

MCNext ==
  /\ UNCHANGED scene
  /\ \/ scene = "stores" /\ DualNext /\ UNCHANGED <<attestorVars, enrollVars, telemetryVars>>
     \/ scene = "commits" /\ AttestorNext /\ UNCHANGED <<dualVars, enrollVars, telemetryVars>>
     \/ scene = "team" /\ EnrollNext /\ UNCHANGED <<dualVars, attestorVars, telemetryVars>>
     \/ scene = "telemetry" /\ TelemetryNext /\ UNCHANGED <<dualVars, attestorVars, enrollVars>>

Symmetry ==
  UNION {Permutations(S) : S \in {Writers, Importers, Handlers}}
=============================================================================
