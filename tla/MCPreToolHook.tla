--------------------------- MODULE MCPreToolHook ---------------------------
(* Small instances of PreToolHook for TLC. *)
EXTENDS PreToolHook, TLC

CONSTANTS s1, s2

\* One sink call from each of two sessions, so that a key that forgets the
\* session is noticed, a command the keystone rule decides and one the policy denies.
RaceCalls ==
  {[session |-> s, shape |-> "persistence"] : s \in {s1, s2}} \cup
  {[session |-> s1, shape |-> k] : k \in {"doubtfulShell", "policyDenied"}}

Symmetry == Permutations(Hooks) \cup Permutations(Approvers)
=============================================================================
