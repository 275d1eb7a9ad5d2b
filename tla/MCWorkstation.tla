--------------------------- MODULE MCWorkstation ---------------------------
(***************************************************************************)
(* Three parts of one workstation that share no state, checked side by     *)
(* side: a behaviour is one of TaintStore, Installer or Signing, chosen by *)
(* scene, while the variables of the others keep their initial values.     *)
(***************************************************************************)
EXTENDS TaintStore, Installer, Signing, TLC

CONSTANT Scenes

Flagged(mode, legacy, strict) ==
  [policyMode |-> mode, pretoolFailClosed |-> legacy, strictProfile |-> strict, env |-> {}]

MCFlags ==
  {Flagged("unset", FALSE, TRUE), Flagged("audit", FALSE, TRUE),
   Flagged("audit", TRUE, FALSE), Flagged("unset", TRUE, FALSE),
   Flagged("invalid", FALSE, FALSE)}

MCWords ==
  PatchworkNames \cup {"FAIL_CLOSED", "TELEMETRY_JSON", "WARN_MS", "fmt", "lint"}

MCUserHandlers == {Handler("fmt", {})}

\* Entries in both formats, of another installer, of the user, of both in one
\* group, and a guard script.
MCSeeds ==
  {[NoHooks EXCEPT
      !["PreToolUse"] = <<Flat(Handler("pre-tool", {})), Group(<<Handler("lint", {})>>),
                          Group(<<Handler("hook-wrapper.sh", {})>>)>>,
      !["SessionStart"] = <<Group(<<Handler("lint", {}), Handler("session-start", {})>>),
                            Group(<<Handler("guard.sh", {})>>)>>]}

VARIABLE scene

\* Outside its scene a part has one initial state.
MCInit ==
  /\ scene \in Scenes
  /\ Init
  /\ InstallInit /\ (scene # "installer" => scope = "user" /\ settings.text = "none")
  /\ SigningInit
  /\ (scene # "signing" => relay = "up" /\ requireRelay /\ keyring["root"].ids = {})

MCNext ==
  /\ UNCHANGED scene
  /\ \/ scene = "taint" /\ Next /\ UNCHANGED <<installVars, signingVars>>
     \/ scene = "installer" /\ InstallNext /\ UNCHANGED <<vars, signingVars>>
     \/ scene = "signing" /\ SigningNext /\ UNCHANGED <<vars, installVars>>
=============================================================================
