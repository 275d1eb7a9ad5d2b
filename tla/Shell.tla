------------------------------- MODULE Shell -------------------------------
(***************************************************************************)
(* The shell recogniser: parseShellCommand of packages/core/src/shell,     *)
(* from the lexer's tokens to the tree with its confidence and its sink    *)
(* indicators, classifyDangerousShellCombos of packages/agents, which      *)
(* judges the tree, and the flat reading of the tokens that the tree is    *)
(* compared with.                                                          *)
(*                                                                         *)
(* Abstractions: each list of names (interpreters, fetch tools, prefixes,  *)
(* secret paths...) is represented by one or two members; separators are   *)
(* one token; an indicator is its kind, and the indicators of a node are a *)
(* set; values of environment variables, raw texts and positions are left  *)
(* out, and so are quotes, which the lexer resolves.  A node carries the   *)
(* nodes below it, so that what walks the tree is a set of nodes.          *)
(***************************************************************************)
EXTENDS Integers, Sequences, FiniteSetsExt

CONSTANT Script   \* the tokens of the word "script", an inline -c body

TokenKind == {"word", "assignment", "redirect", "heredoc_marker", "process_sub", "lparen",
              "rparen", "pipe", "semi", "comment"}
Token == [kind : TokenKind, w : STRING]

\* The body of a quoted word is shorter than the word.
ASSUME ShellAssumption ==
  Script \in Seq(Token) /\ \A i \in DOMAIN Script : Script[i].w # "script"

INTERPRETER_NAMES == {"sh"}
COMPOUND_PREFIXES == {"sudo", "exec", "nice", "timeout", "stdbuf", "env"}
Unresolved == {"$x"}      \* words with an expansion
Flags == {"-c", "-e", "-n", "-a", "-p", "--flag", "--ignore-scripts"}
ShortFlags == {"-c", "-e", "-n", "-a", "-p"}
Assignments == {"A=B"}
Durations == {"30"}
EnvironFiles == {"/proc/self/environ"}

Separators == {"semi"}    \* ; newline && || &
Ends == Separators \cup {"pipe", "rparen"}

\* A node of the tree.  argv is empty when it is not resolved.
Unknown ==
  [argv |-> <<>>, resolved |-> FALSE, head |-> "", redirects |-> {}, children |-> <<>>,
   op |-> "none", confidence |-> "unknown", indicators |-> {}, below |-> {}]

Confidences == <<"unknown", "low", "high">>
Rank(confidence) == CHOOSE i \in 1..3 : Confidences[i] = confidence
mergeConfidence(confidences) == Confidences[Min({Rank(c) : c \in confidences} \cup {3})]

Inherited(children) == UNION {children[i].indicators : i \in DOMAIN children}

\* What a walk over the tree of n visits.
Nodes(n) == {n} \cup n.below
Under(children) == UNION {Nodes(children[i]) : i \in DOMAIN children}

-----------------------------------------------------------------------------
(***************************************************************************)
(* Sink indicators.                                                        *)
(***************************************************************************)
\* By the name of the command.
NameIndicators(head) ==
  CASE head \in INTERPRETER_NAMES -> {"interpreter"} [] head = "curl" -> {"fetch_tool"}
    [] head = "eval" -> {"eval_construct"} [] head = "scp" -> {"scp_rsync"}
    [] head = "nc" -> {"nc_socat"} [] head = "ssh" -> {"ssh"} [] OTHER -> {}

indicatorForRedirect(r) ==
  CASE r.to = "/dev/tcp" -> {"network_redirect"} [] r.to = "secret" -> {"secret_path"}
    [] OTHER -> {}

indicatorsForLeaf(n) ==
  LET head == IF n.argv # <<>> THEN n.argv[1] ELSE n.head
      args == {n.argv[i] : i \in 2 .. Len(n.argv)}
      second == IF Len(n.argv) > 1 THEN n.argv[2] ELSE ""
  IN NameIndicators(head) \cup UNION {indicatorForRedirect(r) : r \in n.redirects} \cup
     {k \in {"package_lifecycle", "gh_upload", "git_remote_mutate",
             "interpreter_inline_eval", "secret_path"} :
        CASE k = "package_lifecycle" ->
               head = "npm" /\ second = "install" /\ "--ignore-scripts" \notin args
          [] k = "gh_upload" -> head = "gh" /\ second = "api" /\ Len(n.argv) >= 3
          [] k = "git_remote_mutate" -> head = "git" /\ second \in {"push", "-c"}
          [] k = "interpreter_inline_eval" -> head = "node" /\ "-e" \in args
          [] OTHER -> \E i \in DOMAIN n.argv : n.argv[i] = "secret"}

IsInterpreter(n) == n.argv # <<>> /\ n.argv[1] \in INTERPRETER_NAMES

combineChildrenIndicators(n) ==
  (IF n.op = "pipe" /\ Len(n.children) >= 2 /\ IsInterpreter(n.children[Len(n.children)])
   THEN {"pipe_to_interpreter"} ELSE {}) \cup
  (IF IsInterpreter(n) /\ \E i \in DOMAIN n.children : n.children[i].op = "process_sub"
   THEN {"process_sub_to_interpreter"} ELSE {})

-----------------------------------------------------------------------------
(***************************************************************************)
(* The parser.                                                             *)
(***************************************************************************)
Kind(t, i) == IF i \in DOMAIN t THEN t[i].kind ELSE "none"
Static(tok) == tok.w \notin Unresolved

\* The first position from which on no flag stands; a flag in taking takes the
\* next word, if there is one.
AfterFlags(argv, from, taking) ==
  LET n == Len(argv)
      f[i \in 1 .. n + 2] ==
        IF i > n \/ argv[i] \notin Flags THEN i
        ELSE IF argv[i] \in taking /\ i < n THEN f[i + 2] ELSE f[i + 1]
  IN f[from]

\* How many words the prefix argv[1] and its arguments take.
PrefixLength(argv) ==
  LET n == Len(argv)
      Skip(from, skipped) ==   \* the first word that is not skipped
        Min({i \in from .. n + 1 : i = n + 1 \/ argv[i] \notin skipped}) - 1
  IN CASE argv[1] = "nice" ->
            IF n > 2 /\ argv[2] = "-n" THEN 3 ELSE IF n > 1 /\ argv[2] \in Flags THEN 2 ELSE 1
       [] argv[1] = "timeout" -> Skip(2, Flags \cup Durations)
       [] argv[1] = "env" -> Skip(2, Flags \cup Assignments)
       [] argv[1] = "stdbuf" -> Min({AfterFlags(argv, 2, ShortFlags), n + 1}) - 1
       [] OTHER -> 1

\* The loop gives up after so many prefixes.
Safety == 8

Unwrap(argv) ==
  LET peeled[k \in 0 .. Safety] ==
        IF k = 0 THEN argv
        ELSE LET left == peeled[k - 1]
             IN IF left = <<>> \/ left[1] \notin COMPOUND_PREFIXES THEN left
                ELSE SubSeq(left, PrefixLength(left) + 1, Len(left))
  IN peeled[Safety]

unwrapCompoundPrefixes(n) ==
  IF n.argv = <<>> \/ n.argv[1] \notin COMPOUND_PREFIXES THEN n
  ELSE LET argv == Unwrap(n.argv)
       IN [n EXCEPT !.argv = argv, !.resolved = argv # <<>>]

\* The -c body of an interpreter, as tokens; empty if there is none.
InlineBody(n) ==
  LET flags == {i \in 2 .. Len(n.argv) - 1 : n.argv[i] = "-c"}
      body == n.argv[Min(flags) + 1]
  IN IF ~IsInterpreter(n) \/ flags = {} THEN <<>>
     ELSE IF body = "script" THEN Script ELSE <<[kind |-> "word", w |-> body]>>

\* `sh -c body` gets the parsed body as its first child.
maybeUnwrapInlineDashC(n, inner) ==
  [n EXCEPT !.children = <<inner>> \o @, !.below = @ \cup Nodes(inner),
     !.confidence = mergeConfidence({@, inner.confidence})]

WithIndicators(n) ==
  [n EXCEPT !.indicators = indicatorsForLeaf(n) \cup Inherited(n.children)
                           \cup combineChildrenIndicators(n)]

Parent(children, op) ==
  [Unknown EXCEPT !.children = children, !.op = op,
     !.confidence = mergeConfidence({children[i].confidence : i \in DOMAIN children}),
     !.indicators = Inherited(children), !.below = Under(children)]

\* Mutant: the indicators that span the stages are not looked for.
PipelineStagesOnly(stages) ==
  IF Len(stages) = 1 THEN stages[1] ELSE Parent(stages, "pipe")

Pipeline(stages) ==
  LET parent == Parent(stages, "pipe")
  IN IF Len(stages) = 1 THEN stages[1]
     ELSE [parent EXCEPT !.indicators = @ \cup combineChildrenIndicators(parent)]

\* Mutant: a sequence keeps the indicators of its first command only.
SequenceFirst(nodes) ==
  CASE nodes = <<>> -> Unknown [] Len(nodes) = 1 -> nodes[1]
    [] OTHER -> [Parent(nodes, "sequence") EXCEPT !.indicators = nodes[1].indicators]

Sequence(nodes) ==
  CASE nodes = <<>> -> Unknown [] Len(nodes) = 1 -> nodes[1]
    [] OTHER -> Parent(nodes, "sequence")

\* consumeRedirect: the target is the next word, if there is one.
HasTarget(t, i) == Kind(t, i + 1) = "word"
AfterRedirect(t, i) == IF HasTarget(t, i) THEN i + 2 ELSE i + 1

\* consumeHeredoc: the delimiter and the body.
AfterHeredoc(t, i) ==
  IF ~HasTarget(t, i) THEN i + 1 ELSE IF Kind(t, i + 2) = "word" THEN i + 3 ELSE i + 2

\* What a simple command is made of: its words, its resolved redirects (operator
\* and target), its process substitutions, its confidence, and whether that was
\* set by an assignment, which overrides what came before.
Nothing(i) == [words |-> <<>>, redirects |-> {}, subs |-> <<>>, confidence |-> "high",
               assigned |-> FALSE, i |-> i]
Lower(parts) == [parts EXCEPT !.confidence = mergeConfidence({@, "low"})]

\* One more token in front of the parts.
AddWord(tok, parts) ==
  LET p == [parts EXCEPT !.words = <<tok.w>> \o @] IN IF Static(tok) THEN p ELSE Lower(p)
AddAssignment(tok, parts) ==
  IF Static(tok) THEN parts ELSE [Lower(parts) EXCEPT !.assigned = TRUE]
AddRedirect(t, i, parts) ==
  IF HasTarget(t, i) /\ Static(t[i + 1])
  THEN [parts EXCEPT !.redirects = @ \cup {[kind |-> t[i].w, to |-> t[i + 1].w]}]
  ELSE Lower(parts)
\* The text of a here-document is taken for a target.
AddHeredoc(t, i, parts) ==
  IF AfterHeredoc(t, i) = i + 3
  THEN [parts EXCEPT !.redirects = @ \cup {[kind |-> t[i].w, to |-> t[i + 2].w]}]
  ELSE parts
AddUnexpected(parts) ==
  IF parts.assigned THEN parts ELSE [parts EXCEPT !.confidence = "unknown"]

\* The node of a simple command, before an inline body is parsed.
Leaf(parts) ==
  LET static == \A k \in DOMAIN parts.words : parts.words[k] \notin Unresolved
  IN unwrapCompoundPrefixes(
       [Unknown EXCEPT
          !.argv = IF static THEN parts.words ELSE <<>>, !.resolved = static,
          !.head = IF parts.words # <<>> /\ parts.words[1] \notin Unresolved
                   THEN parts.words[1] ELSE "",
          !.redirects = parts.redirects, !.children = parts.subs,
          !.below = Under(parts.subs),
          !.confidence = IF parts.subs # <<>>
                         THEN mergeConfidence({parts.confidence, "low"})
                         ELSE parts.confidence])

Grammar == {"sequence", "segments", "stages", "command", "redirects", "prefix", "words"}
Places == Grammar \X Seq(Token) \X Nat

\* The rules of the grammar: what stands at position i of t, and the position
\* after it.  A rule finds what the others say in the function f.

Close(t, i) == IF Kind(t, i) = "rparen" THEN i + 1 ELSE i

parseSequence(f, t, i) ==
  LET s == f[<<"segments", t, i>>] IN [node |-> Sequence(s.nodes), i |-> s.i]

\* The commands of a sequence; anything but a separator ends it.
Segments(f, t, i) ==
  IF Kind(t, i) \in {"none", "rparen"} THEN [nodes |-> <<>>, i |-> i]
  ELSE IF Kind(t, i) \in Separators \cup {"comment"} THEN f[<<"segments", t, i + 1>>]
  ELSE LET p == f[<<"stages", t, i>>]
           rest == IF Kind(t, p.i) \in Separators THEN f[<<"segments", t, p.i + 1>>]
                   ELSE [nodes |-> <<>>, i |-> p.i]
       IN [nodes |-> <<Pipeline(p.nodes)>> \o rest.nodes, i |-> rest.i]

parsePipeline(f, t, i) ==
  LET c == f[<<"command", t, i>>]
      rest == IF Kind(t, c.i) = "pipe" THEN f[<<"stages", t, c.i + 1>>]
              ELSE [nodes |-> <<>>, i |-> c.i]
  IN [nodes |-> <<c.node>> \o rest.nodes, i |-> rest.i]

\* A subshell; the redirects that follow it are recorded but neither searched
\* for indicators nor do they lower the confidence.
Subshell(f, t, i) ==
  LET inner == f[<<"sequence", t, i + 1>>]
  IN [node |-> Parent(<<inner.node>>, "subshell"), i |-> f[<<"redirects", t, Close(t, inner.i)>>]]

Redirects(f, t, i) ==
  IF Kind(t, i) = "redirect" THEN f[<<"redirects", t, AfterRedirect(t, i)>>] ELSE i

parseSimpleCommand(f, t, i) ==
  LET parts == f[<<"prefix", t, i>>]
      leaf == Leaf(parts)
      body == InlineBody(leaf)
  IN [node |-> WithIndicators(
        IF body = <<>> THEN leaf
        ELSE maybeUnwrapInlineDashC(leaf, f[<<"sequence", body, 1>>].node)),
      i |-> parts.i]

ProcessSub(f, g, t, i) ==
  LET inner == f[<<"sequence", t, i + 1>>]
      rest == f[<<g, t, Close(t, inner.i)>>]
  IN [rest EXCEPT !.subs = <<[inner.node EXCEPT !.op = "process_sub"]>> \o @]

\* The parts of a simple command: g is "prefix" before its first word and
\* "words" from there on.
Parts(f, g, t, i) ==
  CASE Kind(t, i) \in Ends \cup {"none"} -> Nothing(i)
    [] Kind(t, i) = "comment" -> f[<<g, t, i + 1>>]
    [] Kind(t, i) = "redirect" -> AddRedirect(t, i, f[<<g, t, AfterRedirect(t, i)>>])
    [] Kind(t, i) = "heredoc_marker" -> AddHeredoc(t, i, f[<<g, t, AfterHeredoc(t, i)>>])
    [] Kind(t, i) = "process_sub" -> ProcessSub(f, g, t, i)
    [] Kind(t, i) = "assignment" /\ g = "prefix" -> AddAssignment(t[i], f[<<g, t, i + 1>>])
    [] Kind(t, i) = "word" \/ (Kind(t, i) = "assignment" /\ g = "words") ->
         AddWord(t[i], f[<<"words", t, i + 1>>])
    [] OTHER -> AddUnexpected(f[<<g, t, i + 1>>])

Rule(f, g, t, i) ==
  CASE g = "sequence" -> parseSequence(f, t, i)
    [] g = "segments" -> Segments(f, t, i)
    [] g = "stages" -> parsePipeline(f, t, i)
    [] g = "command" -> IF Kind(t, i) = "lparen" THEN Subshell(f, t, i)
                        ELSE parseSimpleCommand(f, t, i)
    [] g = "redirects" -> Redirects(f, t, i)
    [] OTHER -> Parts(f, g, t, i)

parse[x \in Places] == Rule(parse, x[1], x[2], x[3])

\* What follows an unmatched ) is not looked at.
parseShellCommand(t) == parse[<<"sequence", t, 1>>].node

-----------------------------------------------------------------------------
(***************************************************************************)
(* classifyDangerousShellCombos and the keystone rule.                     *)
(***************************************************************************)
EGRESS_KINDS == {"fetch_tool", "nc_socat", "scp_rsync", "gh_upload", "network_redirect"}

\* exec -a NAME hides the name of the command; other flags are skipped.
peelModifierFlags(argv, head) ==
  IF head # "exec" THEN argv
  ELSE SubSeq(argv, AfterFlags(argv, 1, {"-a"}), Len(argv))

isAdminCliInvocation(n) ==
  LET argv == peelModifierFlags(n.argv, n.head)
  IN IF ~n.resolved THEN n.head = "patchwork"
     ELSE Len(argv) >= 2 /\ argv[1] = "patchwork" /\ argv[2] = "approve"

isEnvDump(n) ==
  \/ \E r \in n.redirects : r.kind = "<" /\ r.to \in EnvironFiles
  \/ IF ~n.resolved THEN n.head = "env"
     ELSE \/ \E i \in DOMAIN n.argv : n.argv[i] \in EnvironFiles
          \/ n.argv \in {<<"env">>, <<"printenv">>, <<"set">>, <<"export", "-p">>}

\* The severities of the combinations that are found.
classifyDangerousShellCombos(root, tainted) ==
  LET nodes == Nodes(root)
      kinds == UNION {n.indicators : n \in nodes}
      found == \/ kinds \cap {"pipe_to_interpreter", "process_sub_to_interpreter",
                              "git_remote_mutate", "package_lifecycle"} # {}
               \/ {"interpreter_inline_eval", "fetch_tool"} \subseteq kinds
               \/ /\ kinds \cap EGRESS_KINDS # {}
                  /\ "secret_path" \in kinds \/ \E n \in nodes : isEnvDump(n)
  IN (IF \E n \in nodes : isAdminCliInvocation(n) THEN {"deny"} ELSE {}) \cup
     (IF found THEN {IF tainted THEN "deny" ELSE "approval_required"} ELSE {})

\* Some doubt about a command with any indicator.
Keystone(root) ==
  /\ \E n \in Nodes(root) : n.indicators # {}
  /\ \E n \in Nodes(root) : n.confidence # "high"

\* decidePreToolUse for a command that the policy allows.
ShellVerdict(t, tainted) ==
  LET root == parseShellCommand(t)
      severities == classifyDangerousShellCombos(root, tainted)
  IN IF (tainted /\ Keystone(root)) \/ "deny" \in severities THEN "deny"
     ELSE IF severities # {} THEN "approval_required" ELSE "allow"

-----------------------------------------------------------------------------
(***************************************************************************)
(* The same, read from the tokens without a tree.                          *)
(***************************************************************************)
Openers(t) == {i \in DOMAIN t : t[i].kind \in {"lparen", "process_sub"}}

\* How many more brackets open than close from position j to position i.
Balance(t, j, i) ==
  Cardinality({k \in j .. i : k \in Openers(t)})
  - Cardinality({k \in j .. i : Kind(t, k) = "rparen"})

\* The opener that the ) at position i closes, 0 if there is none.
Opener(t, i) ==
  LET open == {j \in Openers(t) : j < i /\ Balance(t, j, i) = 0}
  IN IF open = {} THEN 0 ELSE Max(open)

Begins(t, i) == i = 1 \/ t[i - 1].kind \in Separators \cup {"pipe", "lparen", "process_sub"}

\* Every ) is matched, and a subshell is a command of its own.
WellFormed(t) ==
  \A i \in DOMAIN t :
    /\ t[i].kind = "lparen" => Begins(t, i)
    /\ t[i].kind = "rparen" =>
         /\ Opener(t, i) # 0
         /\ t[Opener(t, i)].kind = "lparen" => Kind(t, i + 1) \in Ends \cup {"none"}

\* The last of the words in a row that start at position i, and whether they
\* are the whole rest of the command.
LastWord(t, i) == Max({j \in i .. Len(t) : \A k \in i .. j : t[k].kind = "word"})
Whole(t, i) ==
  /\ Kind(t, LastWord(t, i) + 1) \in Ends \cup {"none"}
  /\ \A k \in i .. LastWord(t, i) : Static(t[k])

Commands(t) == {i \in DOMAIN t : t[i].kind = "word" /\ Begins(t, i)}

\* Where the command proper starts, after `sudo` and `exec`, 0 if there are
\* more of them than the parser unwraps.
Proper(t, i) ==
  LET rest == {j \in i .. LastWord(t, i) : t[j].w \notin {"sudo", "exec"}}
  IN IF rest = {} \/ Min(rest) > i + Safety THEN 0 ELSE Min(rest)

\* The text of a here-document and its delimiter, in which the parser looks for no
\* expansion.
HeredocText(t, i) ==
  /\ Kind(t, i) = "word"
  /\ \/ Kind(t, i - 1) = "heredoc_marker"
     \/ Kind(t, i - 1) = "word" /\ Kind(t, i - 2) = "heredoc_marker"

\* The words and assignments that the shell expands.
Expanded(t) == {i \in DOMAIN t : t[i].kind \in {"word", "assignment"} /\ ~HeredocText(t, i)}
=============================================================================
