------------------------------- MODULE Policy -------------------------------
(***************************************************************************)
(* Risk classification and the policy engine: classifyRisk of              *)
(* packages/core/src/risk, evaluatePolicy and loadActivePolicy of          *)
(* packages/core/src/policy, applied to tool calls while the three policy  *)
(* files are being edited, and files and links come and go.                *)
(*                                                                         *)
(* Abstractions: a verdict is without its reason, so the order of the      *)
(* rules of one list does not matter and a list is a set; a glob is the    *)
(* set of paths it matches; a command is a sequence of shell tokens, an    *)
(* MCP tool name is split at "__", a URL into scheme, host labels (top     *)
(* level first), port and pieces of its path; the prefix lists of the risk *)
(* classifier are represented by some of their members.  A link leads to a *)
(* file or to nothing, not to another link; no directory is a link.        *)
(***************************************************************************)
EXTENDS Naturals, Sequences

CONSTANTS
  Paths,       \* names of files, as a tool call gives them
  Lexical,     \* pathResolve: a name without its ..
  NoFile,      \* what a name leads to that does not exist
  FirstDisk,   \* the files and links that there are at first
  Sensitive,   \* the paths that match SENSITIVE_GLOBS
  Config,      \* the paths that contain one of CONFIG_FILE_PATTERNS
  Calls,       \* the calls that are looked at
  Rules,       \* the rules of each section
  Defaults,    \* the policies that are created
  MaxEdits     \* bound: changes of policy files and of the disk

Levels == {"system", "user", "project"}
Sections == {"files", "commands", "network", "mcp"}
Lists == {"deny", "allow"}

AnyRule == UNION {Rules[s] : s \in Sections}
SectionRules == [deny : SUBSET AnyRule, allow : SUBSET AnyRule, default : {"allow", "deny"}]
Policies == [status : {"absent", "valid", "malformed"}, max_risk : 0..4,
             rules : [Sections -> SectionRules]]

\* The names without a .., and what each may be: nothing, a file (it leads to
\* itself) or a link.
Plain == {p \in Paths : Lexical[p] = p}
Disks == [Plain -> Plain \cup {NoFile}]

ASSUME PolicyAssumption ==
  /\ \A p \in Paths : Lexical[p] \in Plain
  /\ NoFile \notin Paths /\ FirstDisk \in Disks
  /\ \A c \in Calls :
       /\ c.section \in Sections /\ (c.section = "files" => c.target \in Paths)
       /\ c = [section |-> c.section, action |-> c.action, target |-> c.target]
  /\ Defaults \subseteq Policies
  /\ MaxEdits \in Nat

VARIABLES
  policyFile, \* the policy file of each level
  disk,       \* where each plain name leads
  edits       \* counter

StartsWith(s, p) == Len(p) <= Len(s) /\ SubSeq(s, 1, Len(p)) = p
Word(w) == [kind |-> "word", w |-> w]
Dynamic == {"$x"}   \* words with an expansion or a substitution

\* The section and the action of each tool; every other one counts as MCP.
ToolActions ==
  [Write |-> <<"files", "file_create">>, Edit |-> <<"files", "file_edit">>,
   Read |-> <<"files", "file_read">>, Glob |-> <<"files", "file_glob">>,
   Bash |-> <<"commands", "command_execute">>, WebFetch |-> <<"network", "web_fetch">>]

mapClaudeCodeTool(tool, target) ==
  LET a == IF tool \in DOMAIN ToolActions THEN ToolActions[tool] ELSE <<"mcp", "mcp_tool_call">>
  IN [section |-> a[1], action |-> a[2], target |-> target]

-----------------------------------------------------------------------------
\* What realpathSync makes of a name; nothing if it throws.
realpath(p) ==
  LET q == disk[Lexical[p]] IN IF q # NoFile /\ disk[q] = q THEN {q} ELSE {}

\* expandPathCandidates, as the engine and the classifier call it: nobody gives
\* it a cwd, so that a name is resolved only if it leads to a file.
expandPathCandidates(p) == {p} \cup realpath(p)

(***************************************************************************)
(* classifyRisk: the level, from 0 (none) to 4 (critical).                 *)
(***************************************************************************)
Highest(levels) == CHOOSE l \in levels : \A m \in levels : m <= l

FileRisk(action, names) ==
  Highest({0} \cup
    (IF names \cap Sensitive = {} THEN {} ELSE {IF action = "file_read" THEN 3 ELSE 4}) \cup
    (IF names \cap Config # {} /\ action # "file_read" THEN {3} ELSE {}) \cup
    (IF action \in {"file_write", "file_edit", "file_create"} THEN {2} ELSE {}) \cup
    (IF action = "file_delete" THEN {3} ELSE {}) \cup
    (IF action \in {"file_read", "file_glob", "file_grep"} THEN {1} ELSE {}))

DENY_COMMAND_PREFIXES == {"sudo", "curl", "ssh"}
HIGH_RISK_COMMAND_PREFIXES == {<<Word("npm"), Word("install")>>}

\* Every URL names the loopback host, or none is given and the host is named.
targetsLoopbackOnly(command) ==
  LET words == {command[i].w : i \in DOMAIN command}
      urls == words \cap {"url", "localUrl"}
  IN IF urls # {} THEN urls = {"localUrl"} ELSE "localhost" \in words

\* curl to the loopback host only is downgraded.
CommandRisk(command) ==
  IF Len(command) > 1 /\ command[1].w \in DENY_COMMAND_PREFIXES
  THEN IF command[1].w = "curl" /\ targetsLoopbackOnly(command) THEN 2 ELSE 4
  ELSE IF \E p \in HIGH_RISK_COMMAND_PREFIXES : StartsWith(command, p) THEN 3 ELSE 2

classifyRisk(c) ==
  CASE c.section = "files" -> FileRisk(c.action, expandPathCandidates(c.target))
    [] c.section = "commands" -> CommandRisk(c.target)
    [] OTHER -> 2

-----------------------------------------------------------------------------
(***************************************************************************)
(* evaluatePolicy.                                                         *)
(***************************************************************************)
\* hasShellMetacharsAfter
HasShellMetacharsAfter(command, n) ==
  \E i \in n + 1 .. Len(command) :
    command[i].kind \notin {"word", "assignment"} \/ command[i].w \in Dynamic

\* A prefix that matches decides; an empty pattern is not given.  A regex is
\* the words it looks for, and whether isSafePolicyRegex accepts it.
matchesCommandRule(command, r) ==
  IF r.prefix # <<>> /\ StartsWith(command, r.prefix)
  THEN ~(r.action = "allow" /\ HasShellMetacharsAfter(command, Len(r.prefix)))
  ELSE \/ r.exact # <<>> /\ command = r.exact
       \/ r.safe /\ \E i \in DOMAIN command : command[i].w \in r.regex

\* A domain hides the url_prefix of the same rule; the path of a url_prefix
\* matches up to a "/" or its end.
matchesNetworkRule(url, r) ==
  /\ url.valid
  /\ IF r.domain # <<>> THEN StartsWith(url.host, r.domain)
     ELSE LET want == r.prefix.path IN
          /\ r.prefix.valid /\ url.scheme = r.prefix.scheme /\ url.host = r.prefix.host
          /\ url.port = r.prefix.port
          /\ StartsWith(url.path, want)
          /\ Len(url.path) > Len(want) /\ want[Len(want)] # "/" =>
               url.path[Len(want) + 1] = "/"

\* parseMcpToolName: mcp, a server, and a tool that may contain "__" itself.
matchesMcpRule(name, r) ==
  \/ r.tool # <<>> /\ name = r.tool
  \/ r.server # "" /\ Len(name) >= 3 /\ name[1] = "mcp" /\ name[2] = r.server

\* Mutant: an allow list makes everything else denied.
evaluateRulesListed(rules, hits) ==
  IF rules.deny \cap hits # {} THEN "deny"
  ELSE IF rules.allow \cap hits # {} THEN "allow"
  ELSE IF rules.default = "deny" \/ rules.allow # {} THEN "deny" ELSE "none"

\* The scheme of all sections, given the rules that match.
evaluateRules(rules, hits) ==
  IF rules.deny \cap hits # {} THEN "deny"
  ELSE IF rules.allow \cap hits # {} THEN "allow"
  ELSE IF rules.default = "deny" THEN "deny" ELSE "none"

Listed(rules) == rules.deny \cup rules.allow

evaluateFileRules(rules, path) ==
  evaluateRules(rules, {r \in Listed(rules) : path \in r.glob})
evaluateCommandRules(rules, command) ==
  evaluateRules(rules, {r \in Listed(rules) : matchesCommandRule(command, r)})
evaluateNetworkRules(rules, url) ==
  evaluateRules(rules, {r \in Listed(rules) : matchesNetworkRule(url, r)})
evaluateMcpRules(rules, name) ==
  evaluateRules(rules, {r \in Listed(rules) : matchesMcpRule(name, r)})

evaluateSection(policy, section, target) ==
  LET rules == policy.rules[section] IN
  CASE section = "files" -> evaluateFileRules(rules, target)
    [] section = "commands" -> evaluateCommandRules(rules, target)
    [] section = "network" -> evaluateNetworkRules(rules, target)
    [] OTHER -> evaluateMcpRules(rules, target)

\* What the rules are applied to: every candidate of a path, or the target.
Targets(c) ==
  IF c.section = "files" THEN expandPathCandidates(c.target) ELSE {c.target}

\* Mutant: a file is judged by the name that was given.
evaluatePolicyByName(policy, c) ==
  /\ classifyRisk(c) <= policy.max_risk
  /\ evaluateSection(policy, c.section, c.target) # "deny"

\* The allowed field of the decision.
evaluatePolicy(policy, c) ==
  /\ classifyRisk(c) <= policy.max_risk
  /\ \A t \in Targets(c) : evaluateSection(policy, c.section, t) # "deny"

-----------------------------------------------------------------------------
(***************************************************************************)
(* loadActivePolicy, and the files it reads.                               *)
(***************************************************************************)
NoRules == [deny |-> {}, allow |-> {}, default |-> "allow"]
Absent == [status |-> "absent", max_risk |-> 4, rules |-> [s \in Sections |-> NoRules]]

\* The first file that exists; without one, DEFAULT_POLICY allows everything.
ActiveLevel ==
  IF policyFile["system"].status # "absent" THEN "system"
  ELSE IF policyFile["user"].status # "absent" THEN "user" ELSE "project"

loadActivePolicy == policyFile[ActiveLevel]

\* A file that does not parse makes the hook throw (PreToolHook).
Verdict(c) ==
  IF loadActivePolicy.status = "malformed" THEN "throws"
  ELSE IF evaluatePolicy(loadActivePolicy, c) THEN "allow" ELSE "deny"

PolicyInit == policyFile = [l \in Levels |-> Absent] /\ disk = FirstDisk /\ edits = 0

Edit == edits < MaxEdits /\ edits' = edits + 1

CreatePolicy(l, p) ==
  /\ policyFile[l].status = "absent" /\ Edit /\ UNCHANGED disk
  /\ policyFile' = [policyFile EXCEPT ![l] = p]

\* Somebody adds a rule to one of the lists of a section.
AddRule(l, s, list, r) ==
  /\ policyFile[l].status = "valid" /\ Edit /\ UNCHANGED disk
  /\ policyFile' = [policyFile EXCEPT ![l].rules[s][list] = @ \cup {r}]

BreakFile(l) ==
  /\ policyFile[l].status = "valid" /\ Edit /\ UNCHANGED disk
  /\ policyFile' = [policyFile EXCEPT ![l].status = "malformed"]

RemoveFile(l) ==
  /\ policyFile[l].status # "absent" /\ Edit /\ UNCHANGED disk
  /\ policyFile' = [policyFile EXCEPT ![l] = Absent]

\* Anybody, the agent included, creates a file or a link, or removes one.
CreateFile(p) ==
  /\ disk[p] = NoFile /\ Edit /\ UNCHANGED policyFile
  /\ disk' = [disk EXCEPT ![p] = p]

MakeLink(p, q) ==
  /\ p # q /\ disk[p] = NoFile /\ disk[q] \in {q, NoFile} /\ \A r \in Plain : disk[r] # p
  /\ Edit /\ UNCHANGED policyFile
  /\ disk' = [disk EXCEPT ![p] = q]

RemoveName(p) ==
  /\ disk[p] # NoFile /\ Edit /\ UNCHANGED policyFile
  /\ disk' = [disk EXCEPT ![p] = NoFile]

EditNext ==
  \E l \in Levels :
    \/ \E p \in Defaults : CreatePolicy(l, p)
    \/ \E s \in Sections, list \in Lists : \E r \in Rules[s] : AddRule(l, s, list, r)
    \/ BreakFile(l) \/ RemoveFile(l)
DiskNext ==
  \E p \in Plain : CreateFile(p) \/ RemoveName(p) \/ \E q \in Plain : MakeLink(p, q)
PolicyNext == EditNext \/ DiskNext

policyVars == <<policyFile, disk, edits>>
PolicySpec == PolicyInit /\ [][PolicyNext]_policyVars
-----------------------------------------------------------------------------
(***************************************************************************)
(* Properties.                                                             *)
(***************************************************************************)
Adds(list) ==
  \E l \in {k \in Levels : policyFile[k].status = "valid" /\ policyFile'[k] # policyFile[k]} :
    \E s \in Sections : \E r \in Rules[s] : AddRule(l, s, list, r)

\* Rules only do what their list says, whatever other rules there are: a new
\* deny rule allows no call that was not allowed, a new allow rule stops none
\* that was, and an edit of a file below the active one changes nothing, so a
\* repository cannot loosen the policy of its user or its system.
RulesMonotone ==
  [][/\ Adds("deny") => \A c \in Calls : Verdict(c)' = "allow" => Verdict(c) = "allow"
     /\ Adds("allow") => \A c \in Calls : Verdict(c) = "allow" => Verdict(c)' = "allow"
     /\ /\ policyFile["system"].status # "absent" \/ policyFile["user"].status # "absent"
        /\ policyFile'["system"] = policyFile["system"] /\ policyFile'["user"] = policyFile["user"]
        => \A c \in Calls : Verdict(c)' = Verdict(c)]_policyFile

\* Whatever links are made, under which names and when, a call is allowed on a
\* name that leads to a file only if it is allowed on that file, and never when
\* a deny rule covers the name or the file.
NamesDoNotMatter ==
  \A c \in Calls : c.section = "files" /\ Verdict(c) = "allow" =>
    /\ \A p \in realpath(c.target) : Verdict([c EXCEPT !.target = p]) = "allow"
    /\ \A p \in {c.target} \cup realpath(c.target) :
         \A r \in loadActivePolicy.rules["files"].deny : p \notin r.glob

\* sensitive.ts:71, of names that do not exist: "Lexical resolution still catches
\* `..` traversal."
TraversalCaught ==
  \A c \in Calls : c.section = "files" /\ Verdict(c) = "allow" =>
    Verdict([c EXCEPT !.target = Lexical[c.target]]) = "allow"
=============================================================================
