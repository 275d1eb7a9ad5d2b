------------------------------ MODULE MCRelay ------------------------------
(***************************************************************************)
(* The relay daemon, and the agent that pushes the relay's log to the team *)
(* server, which reads that log as a row of numbered lines.  The two share *)
(* no state and are checked side by side: a behaviour is one of            *)
(* RelayDaemon or TeamSync, chosen by scene, while the variables of the    *)
(* other keep their initial values.                                        *)
(***************************************************************************)
EXTENDS RelayDaemon, TeamSync

VARIABLE scene

MCInit == scene \in {"relay", "team"} /\ Init /\ SyncInit

MCNext ==
  /\ UNCHANGED scene
  /\ \/ scene = "relay" /\ Next /\ UNCHANGED syncVars
     \/ scene = "team" /\ SyncNext /\ UNCHANGED vars

mcVars == <<scene, vars, syncVars>>

\* Fairness and SyncFairness, each of the behaviours that are about its part.
MCFairness ==
  /\ WF_vars(scene = "relay" /\ Start) /\ WF_vars(scene = "relay" /\ AutoSeal)
  /\ WF_vars(scene = "relay" /\ \E answered \in SUBSET Endpoints : AutoSealDone(answered))
  /\ \A c \in Cycles : WF_syncVars(scene = "team" /\ AgentStep(c))
  /\ WF_syncVars(scene = "team" /\ BackoffElapses) /\ WF_syncVars(scene = "team" /\ ServerStep)

MCSpec == MCInit /\ [][MCNext]_mcVars /\ MCFairness
=============================================================================
