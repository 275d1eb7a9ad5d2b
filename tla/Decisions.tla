----------------------------- MODULE Decisions -----------------------------
(***************************************************************************)
(* The decision of the PreToolUse handler as a whole: what the policy      *)
(* files and the shell recogniser make of a command that is typed token by *)
(* token, while the policy files are edited.  PreToolHook models the       *)
(* process around it and takes the class of a call as given.               *)
(***************************************************************************)
EXTENDS Policy, Shell

CONSTANTS
  Tokens,      \* what the lexer can give
  Openings,    \* the commands begin with one of these
  MaxTokens    \* bound: tokens added to an opening

ASSUME DecisionsAssumption == Tokens \subseteq Token /\ Openings \subseteq Seq(Token)

VARIABLES toks, added   \* the command, and a counter

vars == <<policyVars, toks, added>>

\* The catch block of the hook process: PATCHWORK_PRETOOL_FAIL_CLOSED=1 denies,
\* otherwise nothing is printed and the call goes ahead.
Thrown(failClosed) == IF failClosed THEN "deny" ELSE "none"

\* handlePreToolUse lets the policy deny, or the sinks decide.
CommandDecision(t, tainted, failClosed) ==
  LET verdict == Verdict(mapClaudeCodeTool("Bash", t)) IN
  CASE verdict = "throws" -> Thrown(failClosed)
    [] verdict = "deny" -> "deny"
    [] OTHER -> ShellVerdict(t, tainted)

Init == PolicyInit /\ toks \in Openings /\ added = 0

NextToken(tok) ==
  /\ added < MaxTokens /\ added' = added + 1
  /\ toks' = Append(toks, tok)
  /\ UNCHANGED policyVars

\* Bound: the policy files are edited after the command, once if there is one,
\* and not at all after the longest ones; the disk changes if there is none.
Next ==
  \/ /\ EditNext \/ (toks = <<>> /\ DiskNext)
     /\ (toks # <<>> => edits = 0 /\ added < MaxTokens)
     /\ UNCHANGED <<toks, added>>
  \/ edits = 0 /\ \E tok \in Tokens : NextToken(tok)

Spec == Init /\ [][Next]_vars
-----------------------------------------------------------------------------
\* The tree misses nothing that a flat reading of the tokens sees: whatever is
\* nested in what, the indicator of every command reaches the root, unless more
\* prefixes stand before it than are unwrapped, and the parse is called certain
\* only if no word is dynamic, here-documents aside, and no process is
\* substituted.
ParserSound ==
  LET root == parseShellCommand(toks) IN
  WellFormed(toks) =>
    /\ \A i \in Commands(toks) :
         LET j == IF Whole(toks, i) THEN Proper(toks, i) ELSE i
         IN j # 0 /\ Static(toks[j]) => NameIndicators(toks[j].w) \subseteq root.indicators
    /\ root.confidence = "high" =>
         /\ \A i \in Expanded(toks) : Static(toks[i])
         /\ \A i \in DOMAIN toks : toks[i].kind # "process_sub"

\* A pipeline whose last stage, at position i, is an interpreter.
PipedToShell(t, i) ==
  /\ i \in Commands(t) /\ i > 1 /\ t[i - 1].kind = "pipe"
  /\ Whole(t, i) /\ Kind(t, LastWord(t, i) + 1) # "pipe"
  /\ Proper(t, i) # 0 /\ t[Proper(t, i)].w \in INTERPRETER_NAMES

\* A command of `patchwork` that is reserved to a human, at position i.
HumansOnly(t, i) ==
  /\ i \in Commands(t) /\ Whole(t, i) /\ Proper(t, i) # 0
  /\ LET j == IF t[i].w = "exec" /\ t[Proper(t, i)].w = "-a" THEN Proper(t, i) + 2
              ELSE Proper(t, i)
     IN j < LastWord(t, i) /\ t[j].w = "patchwork" /\ t[j + 1].w = "approve"

\* Wherever it is in the command and whatever the policy files allow, a
\* pipeline into a shell needs an approval, or is denied in a tainted session,
\* and the agent's own `patchwork approve` is always denied.  Excepted is an
\* active policy file that cannot be read while the hook does not fail closed:
\* then nobody decides.
DangerousStopped ==
  \A failClosed \in BOOLEAN : failClosed \/ loadActivePolicy.status # "malformed" =>
    LET decision(tainted) == CommandDecision(toks, tainted, failClosed) IN
    \A i \in DOMAIN toks : WellFormed(toks) =>
      /\ PipedToShell(toks, i) => /\ decision(TRUE) = "deny"
                                  /\ decision(FALSE) \in {"deny", "approval_required"}
      /\ HumansOnly(toks, i) => \A tainted \in BOOLEAN : decision(tainted) = "deny"
=============================================================================
