-------------------------- MODULE DecisionsProofs --------------------------
(***************************************************************************)
(* What the policy engine and the shell recogniser decide, for every set   *)
(* of rules, calls, files, links and edits of the three policy files, and  *)
(* for every sequence of tokens: a link is judged as what it leads to, a   *)
(* rule does only what its list says, and the tree of a command misses     *)
(* none of its sinks.                                                      *)
(***************************************************************************)
EXTENDS Decisions, SequenceTheorems, FiniteSetTheorems, WellFoundedInduction, TLAPS

\* Typing a command leaves the policy files and the disk alone.
LEMMA PolicyWithin == Spec => PolicySpec
<1>1. Init => PolicyInit
  BY DEF Init
<1>2. [Next]_vars => [PolicyNext]_policyVars
  BY DEF Next, NextToken, PolicyNext, vars, policyVars
<1> QED BY <1>1, <1>2, PTL DEF Spec, PolicySpec

\* The files are absent or hold what the schema lets through.
PolicyTypes == policyFile \in [Levels -> Policies] /\ disk \in Disks

LEMMA PolicyTypesInit == PolicyInit => PolicyTypes
<1>1. NoRules \in SectionRules
  BY DEF NoRules, SectionRules
<1>2. Absent \in Policies
  BY <1>1 DEF Absent, Policies
<1> QED BY <1>2, PolicyAssumption DEF PolicyInit, PolicyTypes

\* What a new rule changes.
LEMMA NewDenyRule ==
  ASSUME PolicyTypes, NEW l \in Levels, NEW s \in Sections, NEW r \in Rules[s],
         AddRule(l, s, "deny", r)
  PROVE  /\ policyFile' \in [Levels -> Policies]
         /\ policyFile'[l].status = policyFile[l].status
         /\ policyFile'[l].max_risk = policyFile[l].max_risk
         /\ policyFile'[l].rules[s] = [policyFile[l].rules[s] EXCEPT !.deny = @ \cup {r}]
         /\ \A t \in Sections \ {s} : policyFile'[l].rules[t] = policyFile[l].rules[t]
         /\ \A k \in Levels \ {l} : policyFile'[k] = policyFile[k]
<1> DEFINE old == policyFile[l]
           new == [old EXCEPT !.rules = [old.rules EXCEPT ![s] =
                     [old.rules[s] EXCEPT !.deny = @ \cup {r}]]]
<1>1. policyFile' = [policyFile EXCEPT ![l] = new]
  BY DEF AddRule, PolicyTypes, Policies, SectionRules
<1>2. old \in Policies
  BY DEF PolicyTypes
<1>3. r \in AnyRule
  BY DEF AnyRule
<1> HIDE DEF old
<1>4. [old.rules[s] EXCEPT !.deny = @ \cup {r}] \in SectionRules
  BY <1>2, <1>3 DEF Policies, SectionRules
<1>5. /\ new \in Policies
      /\ new.status = old.status /\ new.max_risk = old.max_risk
      /\ new.rules[s] = [old.rules[s] EXCEPT !.deny = @ \cup {r}]
      /\ \A t \in Sections \ {s} : new.rules[t] = old.rules[t]
  BY <1>2, <1>4 DEF Policies
<1> HIDE DEF new
<1> QED BY <1>1, <1>5 DEF PolicyTypes, old

LEMMA NewAllowRule ==
  ASSUME PolicyTypes, NEW l \in Levels, NEW s \in Sections, NEW r \in Rules[s],
         AddRule(l, s, "allow", r)
  PROVE  /\ policyFile' \in [Levels -> Policies]
         /\ policyFile'[l].status = policyFile[l].status
         /\ policyFile'[l].max_risk = policyFile[l].max_risk
         /\ policyFile'[l].rules[s] = [policyFile[l].rules[s] EXCEPT !.allow = @ \cup {r}]
         /\ \A t \in Sections \ {s} : policyFile'[l].rules[t] = policyFile[l].rules[t]
         /\ \A k \in Levels \ {l} : policyFile'[k] = policyFile[k]
<1> DEFINE old == policyFile[l]
           new == [old EXCEPT !.rules = [old.rules EXCEPT ![s] =
                     [old.rules[s] EXCEPT !.allow = @ \cup {r}]]]
<1>1. policyFile' = [policyFile EXCEPT ![l] = new]
  BY DEF AddRule, PolicyTypes, Policies, SectionRules
<1>2. old \in Policies
  BY DEF PolicyTypes
<1>3. r \in AnyRule
  BY DEF AnyRule
<1> HIDE DEF old
<1>4. [old.rules[s] EXCEPT !.allow = @ \cup {r}] \in SectionRules
  BY <1>2, <1>3 DEF Policies, SectionRules
<1>5. /\ new \in Policies
      /\ new.status = old.status /\ new.max_risk = old.max_risk
      /\ new.rules[s] = [old.rules[s] EXCEPT !.allow = @ \cup {r}]
      /\ \A t \in Sections \ {s} : new.rules[t] = old.rules[t]
  BY <1>2, <1>4 DEF Policies
<1> HIDE DEF new
<1> QED BY <1>1, <1>5 DEF PolicyTypes, old

LEMMA PolicyTypesNext == PolicyTypes /\ [PolicyNext]_policyVars => PolicyTypes'
<1> SUFFICES ASSUME PolicyTypes, [PolicyNext]_policyVars PROVE PolicyTypes'
  OBVIOUS
<1>1. Absent \in Policies
  <2>1. NoRules \in SectionRules
    BY DEF NoRules, SectionRules
  <2> QED BY <2>1 DEF Absent, Policies
<1>2. ASSUME NEW l \in Levels, NEW p \in Defaults, CreatePolicy(l, p) PROVE PolicyTypes'
  BY <1>2, PolicyAssumption DEF PolicyTypes, CreatePolicy
<1>3. ASSUME NEW l \in Levels, NEW s \in Sections, NEW list \in Lists, NEW r \in Rules[s],
             AddRule(l, s, list, r)
      PROVE  PolicyTypes'
  BY <1>3, NewDenyRule, NewAllowRule DEF Lists, PolicyTypes, AddRule
<1>4. ASSUME NEW l \in Levels, BreakFile(l) PROVE PolicyTypes'
  BY <1>4 DEF PolicyTypes, BreakFile, Policies
<1>5. ASSUME NEW l \in Levels, RemoveFile(l) PROVE PolicyTypes'
  BY <1>1, <1>5 DEF PolicyTypes, RemoveFile
<1>6. ASSUME NEW p \in Plain, CreateFile(p) PROVE PolicyTypes'
  BY <1>6 DEF PolicyTypes, CreateFile, Disks
<1>7. ASSUME NEW p \in Plain, NEW q \in Plain, MakeLink(p, q) PROVE PolicyTypes'
  BY <1>7 DEF PolicyTypes, MakeLink, Disks
<1>8. ASSUME NEW p \in Plain, RemoveName(p) PROVE PolicyTypes'
  BY <1>8 DEF PolicyTypes, RemoveName, Disks
<1>9. CASE EditNext
  BY <1>2, <1>3, <1>4, <1>5, <1>9 DEF EditNext
<1>10. CASE DiskNext
  BY <1>6, <1>7, <1>8, <1>10 DEF DiskNext
<1>11. CASE UNCHANGED policyVars
  BY <1>11 DEF policyVars, PolicyTypes
<1> QED BY <1>9, <1>10, <1>11 DEF PolicyNext

\* An edit of a policy file leaves the disk alone.
LEMMA EditsLeaveTheDisk ==
  ASSUME [PolicyNext]_policyVars, policyFile' # policyFile
  PROVE  disk' = disk
<1>1. ASSUME DiskNext PROVE FALSE
  BY <1>1 DEF DiskNext, CreateFile, RemoveName, MakeLink
<1>2. ASSUME EditNext PROVE disk' = disk
  BY <1>2 DEF EditNext, CreatePolicy, AddRule, BreakFile, RemoveFile
<1> QED BY <1>1, <1>2 DEF PolicyNext, policyVars

-----------------------------------------------------------------------------
(***************************************************************************)
(* Names.                                                                  *)
(***************************************************************************)
\* Highest chooses the greatest of some levels.
LEMMA HighestLevel ==
  ASSUME NEW T \in SUBSET (0..4), T # {}
  PROVE  Highest(T) \in T /\ \A m \in T : m <= Highest(T)
<1>1. \E l \in T : \A m \in T : m <= l
  <2>1. CASE 4 \in T
    BY <2>1
  <2>2. CASE 4 \notin T /\ 3 \in T
    BY <2>2
  <2>3. CASE 4 \notin T /\ 3 \notin T /\ 2 \in T
    BY <2>3
  <2>4. CASE 4 \notin T /\ 3 \notin T /\ 2 \notin T /\ 1 \in T
    <3>1. \A m \in T : m <= 1
      BY <2>4
    <3> QED BY <2>4, <3>1
  <2>5. CASE 4 \notin T /\ 3 \notin T /\ 2 \notin T /\ 1 \notin T
    <3>1. \A m \in T : m = 0
      BY <2>5
    <3>2. PICK l \in T : TRUE
      OBVIOUS
    <3>3. \A m \in T : m <= l
      BY <3>1, <3>2
    <3> QED BY <3>3
  <2> QED BY <2>1, <2>2, <2>3, <2>4, <2>5
<1> QED BY <1>1 DEF Highest

\* A path with fewer names is at most as risky.
LEMMA FewerNamesLessRisk ==
  ASSUME NEW action, NEW names, NEW fewer \in SUBSET names
  PROVE  /\ FileRisk(action, fewer) \in 0..4 /\ FileRisk(action, names) \in 0..4
         /\ FileRisk(action, fewer) <= FileRisk(action, names)
<1> DEFINE L(n) ==
      {0} \cup
      (IF n \cap Sensitive = {} THEN {} ELSE {IF action = "file_read" THEN 3 ELSE 4}) \cup
      (IF n \cap Config # {} /\ action # "file_read" THEN {3} ELSE {}) \cup
      (IF action \in {"file_write", "file_edit", "file_create"} THEN {2} ELSE {}) \cup
      (IF action = "file_delete" THEN {3} ELSE {}) \cup
      (IF action \in {"file_read", "file_glob", "file_grep"} THEN {1} ELSE {})
<1>1. FileRisk(action, names) = Highest(L(names)) /\ FileRisk(action, fewer) = Highest(L(fewer))
  BY DEF FileRisk
<1>2. L(fewer) \in SUBSET (0..4) /\ L(names) \in SUBSET (0..4)
  OBVIOUS
<1>3. L(fewer) \subseteq L(names)
  OBVIOUS
<1>4. L(fewer) # {} /\ L(names) # {}
  OBVIOUS
<1> HIDE DEF L
<1>5. /\ Highest(L(fewer)) \in L(fewer) /\ Highest(L(names)) \in L(names)
      /\ \A m \in L(names) : m <= Highest(L(names))
  BY <1>2, <1>4, HighestLevel
<1> QED BY <1>1, <1>2, <1>3, <1>5

\* A deny rule that covers a path denies it.
LEMMA DenyRuleDenies ==
  ASSUME NEW policy, NEW p, evaluateSection(policy, "files", p) # "deny",
         NEW r \in policy.rules["files"].deny
  PROVE  p \notin r.glob
BY DEF evaluateSection, evaluateFileRules, evaluateRules, Listed

\* What a name leads to is a file, and leads to itself.
LEMMA FilesLeadToThemselves ==
  ASSUME PolicyTypes, NEW t \in Paths, NEW p \in realpath(t)
  PROVE  p \in Paths /\ expandPathCandidates(p) = {p}
<1>1. Lexical[t] \in Plain
  BY PolicyAssumption
<1>2. p = disk[Lexical[t]] /\ p # NoFile /\ disk[p] = p
  BY DEF realpath
<1>3. p \in Plain
  BY <1>1, <1>2 DEF PolicyTypes, Disks
<1>4. Lexical[p] = p /\ p \in Paths
  BY <1>3 DEF Plain
<1> QED BY <1>2, <1>4 DEF realpath, expandPathCandidates

(***************************************************************************)
(* Whatever files and links are made and removed, and whatever the         *)
(* policies: a call on a name that leads to a file is allowed only if it   *)
(* is on that file, and no deny rule covers the name or the file.          *)
(***************************************************************************)
THEOREM LinksAreJudgedByTheirFiles == Spec => []NamesDoNotMatter
<1>1. PolicyTypes => NamesDoNotMatter
  <2> SUFFICES ASSUME PolicyTypes, NEW c \in Calls, c.section = "files", Verdict(c) = "allow"
               PROVE  /\ \A p \in realpath(c.target) : Verdict([c EXCEPT !.target = p]) = "allow"
                      /\ \A p \in {c.target} \cup realpath(c.target) :
                           \A r \in loadActivePolicy.rules["files"].deny : p \notin r.glob
    BY DEF NamesDoNotMatter
  <2> DEFINE policy == loadActivePolicy
  <2>1. policy \in Policies
    BY DEF PolicyTypes, loadActivePolicy, ActiveLevel, Levels
  <2> HIDE DEF policy
  <2>2. policy.status # "malformed" /\ evaluatePolicy(policy, c)
    BY DEF Verdict, policy
  <2>3. /\ classifyRisk(c) <= policy.max_risk
        /\ \A t \in expandPathCandidates(c.target) : evaluateSection(policy, "files", t) # "deny"
    BY <2>2 DEF evaluatePolicy, Targets
  <2>4. ASSUME NEW p \in {c.target} \cup realpath(c.target)
        PROVE  \A r \in policy.rules["files"].deny : p \notin r.glob
    BY <2>3, DenyRuleDenies DEF expandPathCandidates
  <2>5. ASSUME NEW p \in realpath(c.target)
        PROVE  Verdict([c EXCEPT !.target = p]) = "allow"
    <3> DEFINE d == [c EXCEPT !.target = p]
    <3>1. d.section = "files" /\ d.action = c.action /\ d.target = p
      <4>1. c = [section |-> c.section, action |-> c.action, target |-> c.target]
        BY PolicyAssumption
      <4>2. d = [section |-> c.section, action |-> c.action, target |-> p]
        BY <4>1
      <4> QED BY <4>2
    <3> HIDE DEF d
    <3>2. expandPathCandidates(p) = {p} /\ {p} \subseteq expandPathCandidates(c.target)
      <4>1. c.target \in Paths
        BY PolicyAssumption
      <4> QED BY <4>1, FilesLeadToThemselves DEF expandPathCandidates
    <3>3. /\ classifyRisk(d) = FileRisk(c.action, {p})
          /\ classifyRisk(c) = FileRisk(c.action, expandPathCandidates(c.target))
      BY <3>1, <3>2 DEF classifyRisk
    <3>4. classifyRisk(d) <= policy.max_risk
      <4>1. policy.max_risk \in 0..4
        BY <2>1 DEF Policies
      <4> QED BY <2>3, <3>2, <3>3, <4>1, FewerNamesLessRisk
    <3>5. \A t \in Targets(d) : evaluateSection(policy, d.section, t) # "deny"
      BY <2>3, <3>1, <3>2 DEF Targets
    <3>6. evaluatePolicy(policy, d)
      BY <3>4, <3>5 DEF evaluatePolicy
    <3> QED BY <2>2, <3>6 DEF Verdict, policy, d
  <2> QED BY <2>4, <2>5 DEF policy
<1> QED BY <1>1, PolicyTypesInit, PolicyTypesNext, PolicyWithin, PTL DEF PolicySpec

-----------------------------------------------------------------------------
(***************************************************************************)
(* Rules.                                                                  *)
(***************************************************************************)
\* The rules of a list and of one with more deny rules.
MoreDeny(more, rules) ==
  /\ rules.deny \subseteq more.deny /\ more.allow = rules.allow
  /\ more.default = rules.default

MoreAllow(more, rules) ==
  /\ more.deny = rules.deny /\ rules.allow \subseteq more.allow
  /\ more.default = rules.default

LEMMA MoreDenyAllowsLess ==
  ASSUME NEW rules, NEW more, MoreDeny(more, rules), NEW hits, NEW moreHits,
         hits = {r \in Listed(rules) : r \in moreHits}, moreHits \subseteq Listed(more),
         evaluateRules(more, moreHits) # "deny"
  PROVE  evaluateRules(rules, hits) # "deny"
<1>1. rules.deny \cap hits = {}
  BY DEF evaluateRules, MoreDeny
<1>2. rules.allow \cap hits = more.allow \cap moreHits
  BY DEF MoreDeny, Listed
<1> QED BY <1>1, <1>2 DEF evaluateRules, MoreDeny

LEMMA MoreAllowStopsNone ==
  ASSUME NEW rules, NEW more, MoreAllow(more, rules), NEW hits, NEW moreHits,
         hits = {r \in Listed(rules) : r \in moreHits}, moreHits \subseteq Listed(more),
         evaluateRules(rules, hits) # "deny"
  PROVE  evaluateRules(more, moreHits) # "deny"
<1>1. more.deny \cap moreHits = rules.deny \cap hits
  BY DEF MoreAllow, Listed
<1>2. rules.allow \cap hits \subseteq more.allow \cap moreHits
  BY DEF MoreAllow, Listed
<1> QED BY <1>1, <1>2 DEF evaluateRules, MoreAllow

\* The rules of a section that match a target are those of Listed that do.
Matching(rules, section, t) ==
  {r \in Listed(rules) :
     CASE section = "files" -> t \in r.glob
       [] section = "commands" -> matchesCommandRule(t, r)
       [] section = "network" -> matchesNetworkRule(t, r)
       [] OTHER -> matchesMcpRule(t, r)}

LEMMA SectionByMatching ==
  ASSUME NEW policy, NEW s \in Sections, NEW t
  PROVE  evaluateSection(policy, s, t)
           = evaluateRules(policy.rules[s], Matching(policy.rules[s], s, t))
<1> USE DEF evaluateSection, Matching, Listed, Sections
<1>1. CASE s = "files"
  BY <1>1 DEF evaluateFileRules
<1>2. CASE s = "commands"
  BY <1>2 DEF evaluateCommandRules
<1>3. CASE s = "network"
  BY <1>3 DEF evaluateNetworkRules
<1>4. CASE s = "mcp"
  BY <1>4 DEF evaluateMcpRules
<1> QED BY <1>1, <1>2, <1>3, <1>4

LEMMA MatchingMore ==
  ASSUME NEW rules, NEW more, NEW s, NEW t, Listed(rules) \subseteq Listed(more)
  PROVE  /\ Matching(rules, s, t) = {r \in Listed(rules) : r \in Matching(more, s, t)}
         /\ Matching(more, s, t) \subseteq Listed(more)
BY DEF Matching

\* What a policy with more deny rules allows was allowed before.
LEMMA PolicyMoreDeny ==
  ASSUME NEW policy, NEW more, more.max_risk = policy.max_risk,
         \A s \in Sections : MoreDeny(more.rules[s], policy.rules[s]),
         NEW c, c.section \in Sections, evaluatePolicy(more, c)
  PROVE  evaluatePolicy(policy, c)
<1>1. ASSUME NEW t \in Targets(c) PROVE evaluateSection(policy, c.section, t) # "deny"
  <2> DEFINE s == c.section
             rules == policy.rules[s]
             other == more.rules[s]
  <2>1. MoreDeny(other, rules) /\ Listed(rules) \subseteq Listed(other)
    BY DEF MoreDeny, Listed
  <2>2. evaluateRules(other, Matching(other, s, t)) # "deny"
    BY <1>1, SectionByMatching DEF evaluatePolicy
  <2>3. evaluateRules(rules, Matching(rules, s, t)) # "deny"
    BY <2>1, <2>2, MatchingMore, MoreDenyAllowsLess
  <2> QED BY <2>3, SectionByMatching
<1> QED BY <1>1 DEF evaluatePolicy

LEMMA PolicyMoreAllow ==
  ASSUME NEW policy, NEW more, more.max_risk = policy.max_risk,
         \A s \in Sections : MoreAllow(more.rules[s], policy.rules[s]),
         NEW c, c.section \in Sections, evaluatePolicy(policy, c)
  PROVE  evaluatePolicy(more, c)
<1>1. ASSUME NEW t \in Targets(c) PROVE evaluateSection(more, c.section, t) # "deny"
  <2> DEFINE s == c.section
             rules == policy.rules[s]
             other == more.rules[s]
  <2>1. MoreAllow(other, rules) /\ Listed(rules) \subseteq Listed(other)
    BY DEF MoreAllow, Listed
  <2>2. evaluateRules(rules, Matching(rules, s, t)) # "deny"
    BY <1>1, SectionByMatching DEF evaluatePolicy
  <2>3. evaluateRules(other, Matching(other, s, t)) # "deny"
    BY <2>1, <2>2, MatchingMore, MoreAllowStopsNone
  <2> QED BY <2>3, SectionByMatching
<1> QED BY <1>1 DEF evaluatePolicy

\* A new rule moves no file into the foreground, and the active one has it or
\* is as it was.
LEMMA ActiveAfterDeny ==
  ASSUME PolicyTypes, Adds("deny")
  PROVE  /\ loadActivePolicy'.status = loadActivePolicy.status
         /\ loadActivePolicy'.max_risk = loadActivePolicy.max_risk
         /\ \A s \in Sections : MoreDeny(loadActivePolicy'.rules[s], loadActivePolicy.rules[s])
<1>1. PICK l \in Levels, s \in Sections : \E r \in Rules[s] : AddRule(l, s, "deny", r)
  BY DEF Adds
<1>2. PICK r \in Rules[s] : AddRule(l, s, "deny", r)
  BY <1>1
<1>3. /\ policyFile'[l].status = policyFile[l].status
      /\ policyFile'[l].max_risk = policyFile[l].max_risk
      /\ policyFile'[l].rules[s] = [policyFile[l].rules[s] EXCEPT !.deny = @ \cup {r}]
      /\ \A t \in Sections \ {s} : policyFile'[l].rules[t] = policyFile[l].rules[t]
      /\ \A k \in Levels \ {l} : policyFile'[k] = policyFile[k]
  BY <1>2, NewDenyRule
<1>4. \A k \in Levels : policyFile'[k].status = policyFile[k].status
  BY <1>3
<1>5. \A k \in Levels, t \in Sections : policyFile[k].rules[t] \in SectionRules
  BY DEF PolicyTypes, Policies
<1>6. MoreDeny(policyFile'[l].rules[s], policyFile[l].rules[s])
  BY <1>3, <1>5 DEF MoreDeny, SectionRules
<1>7. \A k \in Levels :
        /\ policyFile'[k].max_risk = policyFile[k].max_risk
        /\ \A t \in Sections : MoreDeny(policyFile'[k].rules[t], policyFile[k].rules[t])
  <2> TAKE k \in Levels
  <2>1. \A t \in Sections : MoreDeny(policyFile[k].rules[t], policyFile[k].rules[t])
    BY DEF MoreDeny
  <2>2. CASE k = l
    BY <1>3, <1>6, <2>1, <2>2
  <2>3. CASE k # l
    BY <1>3, <2>1, <2>3
  <2> QED BY <2>2, <2>3
<1>8. ActiveLevel' = ActiveLevel /\ ActiveLevel \in Levels
  BY <1>4 DEF ActiveLevel, Levels
<1> QED BY <1>4, <1>7, <1>8 DEF loadActivePolicy

LEMMA ActiveAfterAllow ==
  ASSUME PolicyTypes, Adds("allow")
  PROVE  /\ loadActivePolicy'.status = loadActivePolicy.status
         /\ loadActivePolicy'.max_risk = loadActivePolicy.max_risk
         /\ \A s \in Sections : MoreAllow(loadActivePolicy'.rules[s], loadActivePolicy.rules[s])
<1>1. PICK l \in Levels, s \in Sections : \E r \in Rules[s] : AddRule(l, s, "allow", r)
  BY DEF Adds
<1>2. PICK r \in Rules[s] : AddRule(l, s, "allow", r)
  BY <1>1
<1>3. /\ policyFile'[l].status = policyFile[l].status
      /\ policyFile'[l].max_risk = policyFile[l].max_risk
      /\ policyFile'[l].rules[s] = [policyFile[l].rules[s] EXCEPT !.allow = @ \cup {r}]
      /\ \A t \in Sections \ {s} : policyFile'[l].rules[t] = policyFile[l].rules[t]
      /\ \A k \in Levels \ {l} : policyFile'[k] = policyFile[k]
  BY <1>2, NewAllowRule
<1>4. \A k \in Levels : policyFile'[k].status = policyFile[k].status
  BY <1>3
<1>5. \A k \in Levels, t \in Sections : policyFile[k].rules[t] \in SectionRules
  BY DEF PolicyTypes, Policies
<1>6. MoreAllow(policyFile'[l].rules[s], policyFile[l].rules[s])
  BY <1>3, <1>5 DEF MoreAllow, SectionRules
<1>7. \A k \in Levels :
        /\ policyFile'[k].max_risk = policyFile[k].max_risk
        /\ \A t \in Sections : MoreAllow(policyFile'[k].rules[t], policyFile[k].rules[t])
  <2> TAKE k \in Levels
  <2>1. \A t \in Sections : MoreAllow(policyFile[k].rules[t], policyFile[k].rules[t])
    BY DEF MoreAllow
  <2>2. CASE k = l
    BY <1>3, <1>6, <2>1, <2>2
  <2>3. CASE k # l
    BY <1>3, <2>1, <2>3
  <2> QED BY <2>2, <2>3
<1>8. ActiveLevel' = ActiveLevel /\ ActiveLevel \in Levels
  BY <1>4 DEF ActiveLevel, Levels
<1> QED BY <1>4, <1>7, <1>8 DEF loadActivePolicy

(***************************************************************************)
(* For every set of rules and every edit: a new deny rule allows nothing,  *)
(* a new allow rule stops nothing, and a file below the active one decides *)
(* nothing.                                                                *)
(***************************************************************************)
THEOREM RulesDoWhatTheirListSays == Spec => RulesMonotone
<1>1. ASSUME PolicyTypes, disk' = disk, Adds("deny"), NEW c \in Calls, Verdict(c)' = "allow"
      PROVE  Verdict(c) = "allow"
  <2>1. PICK p : p = loadActivePolicy'
    OBVIOUS
  <2>2. p.status # "malformed" /\ evaluatePolicy(p, c)
    <3>1. loadActivePolicy'.status # "malformed" /\ evaluatePolicy(loadActivePolicy, c)'
      BY <1>1 DEF Verdict
    <3>2. evaluatePolicy(loadActivePolicy, c)' = evaluatePolicy(p, c)
      BY <1>1, <2>1 DEF evaluatePolicy, classifyRisk, Targets, expandPathCandidates, realpath
    <3> QED BY <2>1, <3>1, <3>2
  <2>3. evaluatePolicy(loadActivePolicy, c)
    BY <1>1, <2>1, <2>2, ActiveAfterDeny, PolicyMoreDeny, PolicyAssumption
  <2> QED BY <1>1, <2>1, <2>2, <2>3, ActiveAfterDeny DEF Verdict
<1>2. ASSUME PolicyTypes, disk' = disk, Adds("allow"), NEW c \in Calls, Verdict(c) = "allow"
      PROVE  Verdict(c)' = "allow"
  <2>1. PICK p : p = loadActivePolicy'
    OBVIOUS
  <2>2. loadActivePolicy.status # "malformed" /\ evaluatePolicy(loadActivePolicy, c)
    BY <1>2 DEF Verdict
  <2>3. evaluatePolicy(p, c)
    BY <1>2, <2>1, <2>2, ActiveAfterAllow, PolicyMoreAllow, PolicyAssumption
  <2>4. evaluatePolicy(loadActivePolicy, c)' = evaluatePolicy(p, c)
    BY <1>2, <2>1 DEF evaluatePolicy, classifyRisk, Targets, expandPathCandidates, realpath
  <2> QED BY <1>2, <2>2, <2>3, <2>4, ActiveAfterAllow DEF Verdict
<1>3. ASSUME policyFile["system"].status # "absent" \/ policyFile["user"].status # "absent",
             policyFile'["system"] = policyFile["system"], disk' = disk,
             policyFile'["user"] = policyFile["user"], NEW c \in Calls
      PROVE  Verdict(c)' = Verdict(c)
  <2>1. loadActivePolicy' = loadActivePolicy
    BY <1>3 DEF loadActivePolicy, ActiveLevel
  <2>2. evaluatePolicy(loadActivePolicy, c)' = evaluatePolicy(loadActivePolicy, c)
    BY <1>3, <2>1 DEF evaluatePolicy, classifyRisk, Targets, expandPathCandidates, realpath
  <2> QED BY <2>1, <2>2 DEF Verdict
<1> DEFINE Step ==
      /\ Adds("deny") => \A c \in Calls : Verdict(c)' = "allow" => Verdict(c) = "allow"
      /\ Adds("allow") => \A c \in Calls : Verdict(c) = "allow" => Verdict(c)' = "allow"
      /\ /\ policyFile["system"].status # "absent" \/ policyFile["user"].status # "absent"
         /\ policyFile'["system"] = policyFile["system"] /\ policyFile'["user"] = policyFile["user"]
         => \A c \in Calls : Verdict(c)' = Verdict(c)
<1>4. PolicyTypes /\ [PolicyNext]_policyVars => [Step]_policyFile
  BY <1>1, <1>2, <1>3, EditsLeaveTheDisk
<1> QED BY <1>4, PolicyTypesInit, PolicyTypesNext, PolicyWithin, PTL DEF PolicySpec, RulesMonotone

-----------------------------------------------------------------------------
(***************************************************************************)
(* Least and greatest numbers.                                             *)
(***************************************************************************)
LEMMA LeastNat ==
  ASSUME NEW T \in SUBSET Nat, T # {}
  PROVE  \E n \in T : \A m \in T : n <= m
<1>1. PICK n \in T : \A m \in T : ~(<<m, n>> \in OpToRel(<, Nat))
  BY NatLessThanWellFounded, WFMin
<1>2. \A m \in T : ~(m < n)
  BY <1>1, Zenon DEF OpToRel
<1>3. \A m \in T : n <= m
  BY <1>2
<1> QED BY <1>3

LEMMA MinIs ==
  ASSUME NEW T \in SUBSET Nat, T # {}
  PROVE  Min(T) \in T /\ \A m \in T : Min(T) <= m
<1>1. \E n \in T : \A m \in T : n <= m
  BY LeastNat
<1> QED BY <1>1, Zenon DEF Min

LEMMA MaxIs ==
  ASSUME NEW n \in Nat, NEW T \in SUBSET (0..n), T # {}
  PROVE  Max(T) \in T /\ \A m \in T : Max(T) >= m
<1> DEFINE R == {n - m : m \in T}
<1>1. R \in SUBSET Nat /\ R # {}
  <2>1. \A m \in T : m \in 0..n
    OBVIOUS
  <2>2. \A m \in T : n - m \in Nat
    BY <2>1
  <2> QED BY <2>2
<1>2. PICK r \in R : \A k \in R : r <= k
  <2> HIDE DEF R
  <2> QED BY <1>1, LeastNat
<1>3. PICK x \in T : r = n - x
  OBVIOUS
<1>4. \A m \in T : x >= m
  <2> SUFFICES ASSUME NEW m \in T PROVE x >= m
    OBVIOUS
  <2>1. n - m \in R
    OBVIOUS
  <2> HIDE DEF R
  <2>2. n - x <= n - m
    BY <2>1, <1>2, <1>3
  <2>3. x \in Int /\ m \in Int
    OBVIOUS
  <2> QED BY <2>2, <2>3
<1> QED BY <1>4, Zenon DEF Max

LEMMA UpTo ==
  ASSUME NEW n \in Nat, NEW T \in SUBSET (0..n), 0 \in T, \A i \in 1..n : i - 1 \in T => i \in T
  PROVE  \A i \in 0..n : i \in T
<1> SUFFICES ASSUME 0..n \ T # {} PROVE FALSE
  OBVIOUS
<1> DEFINE missing == 0..n \ T
<1>0. missing \in SUBSET Nat /\ missing # {}
  OBVIOUS
<1>1. PICK i \in missing : \A m \in missing : i <= m
  <2> HIDE DEF missing
  <2> QED BY <1>0, LeastNat
<1>2. i \in 1..n /\ i - 1 \in 0..n
  OBVIOUS
<1> QED BY <1>1, <1>2

(***************************************************************************)
(* Confidence is the least of those merged.                                *)
(***************************************************************************)
Levels3 == {"unknown", "low", "high"}

LEMMA RankIs ==
  ASSUME NEW c \in Levels3
  PROVE  Rank(c) \in 1..3 /\ Confidences[Rank(c)] = c
<1>1. \E i \in 1..3 : Confidences[i] = c
  <2>1. Confidences[1] = "unknown" /\ Confidences[2] = "low" /\ Confidences[3] = "high"
    BY DEF Confidences
  <2> QED BY <2>1 DEF Levels3
<1> QED BY <1>1, Zenon DEF Rank

LEMMA MergeIs ==
  ASSUME NEW C \in SUBSET Levels3
  PROVE  /\ mergeConfidence(C) \in Levels3
         /\ mergeConfidence(C) = "high" => \A c \in C : c = "high"
<1> DEFINE T == {Rank(c) : c \in C} \cup {3}
<1>1. Confidences[1] = "unknown" /\ Confidences[2] = "low" /\ Confidences[3] = "high"
  BY DEF Confidences
<1>2. T \in SUBSET (1..3) /\ T # {}
  BY RankIs
<1>3. Min(T) \in T /\ \A m \in T : Min(T) <= m
  <2>1. T \in SUBSET Nat
    BY <1>2
  <2> HIDE DEF T
  <2> QED BY <2>1, <1>2, MinIs
<1>4. mergeConfidence(C) = Confidences[Min(T)]
  BY DEF mergeConfidence
<1>5. Min(T) \in 1..3
  <2> HIDE DEF T
  <2> QED BY <1>2, <1>3
<1>6. Confidences[Min(T)] \in Levels3
  <2> HIDE DEF T
  <2> QED BY <1>1, <1>5 DEF Levels3
<1>7. ASSUME mergeConfidence(C) = "high", NEW c \in C PROVE c = "high"
  <2>1. Min(T) = 3
    <3> DEFINE m == Min(T)
    <3>1. m \in 1..3 /\ Confidences[m] = "high"
      BY <1>4, <1>5, <1>7
    <3> HIDE DEF m
    <3> QED BY <3>1, <1>1 DEF m
  <2>2. Rank(c) \in T
    OBVIOUS
  <2>3. Min(T) <= Rank(c)
    <3> HIDE DEF T
    <3> QED BY <1>3, <2>2
  <2>4. c \in Levels3
    OBVIOUS
  <2>5. Rank(c) = 3
    <3> HIDE DEF T
    <3> QED BY <2>1, <2>3, <2>4, RankIs
  <2> QED BY <2>4, <2>5, <1>1, RankIs
<1> QED BY <1>4, <1>6, <1>7

(***************************************************************************)
(* Sequences.                                                              *)
(***************************************************************************)
LEMMA Cons ==
  ASSUME NEW S, NEW s \in Seq(S), NEW a
  PROVE  LET c == <<a>> \o s
         IN /\ c \in Seq(S \cup {a}) /\ c # <<>>
            /\ Len(c) = Len(s) + 1
            /\ c[1] = a
            /\ \A k \in 1..Len(s) : c[k + 1] = s[k]
<1> DEFINE B == S \cup {a}
<1>1. s \in Seq(B)
  <2>1. S \subseteq B
    OBVIOUS
  <2> HIDE DEF B
  <2> QED BY <2>1, SeqMonotonic
<1>2. <<a>> \in Seq(B) /\ Len(<<a>>) = 1 /\ <<a>>[1] = a
  OBVIOUS
<1>3. Len(s) \in Nat
  BY LenProperties
<1> HIDE DEF B
<1>4. /\ <<a>> \o s \in Seq(B)
      /\ Len(<<a>> \o s) = Len(<<a>>) + Len(s)
      /\ \A i \in 1 .. Len(<<a>>) + Len(s) :
           (<<a>> \o s)[i] = IF i <= Len(<<a>>) THEN <<a>>[i] ELSE s[i - Len(<<a>>)]
  BY <1>1, <1>2, ConcatProperties, Zenon
<1>5. Len(<<a>> \o s) = Len(s) + 1
  BY <1>2, <1>3, <1>4
<1>6. (<<a>> \o s)[1] = a
  <2>1. 1 \in 1 .. Len(<<a>>) + Len(s) /\ 1 <= Len(<<a>>)
    BY <1>2, <1>3
  <2> QED BY <2>1, <1>2, <1>4
<1>7. ASSUME NEW k \in 1..Len(s) PROVE (<<a>> \o s)[k + 1] = s[k]
  <2>1. k + 1 \in 1 .. Len(<<a>>) + Len(s) /\ ~(k + 1 <= Len(<<a>>)) /\ (k + 1) - Len(<<a>>) = k
    BY <1>2, <1>3
  <2> QED BY <2>1, <1>4
<1>8. <<a>> \o s # <<>>
  BY <1>3, <1>4, <1>5, EmptySeq
<1> QED BY <1>4, <1>5, <1>6, <1>7, <1>8 DEF B
(***************************************************************************)
(* The flags that are skipped.                                             *)
(***************************************************************************)
\* What the recursive function of AfterFlags says of position i.
Skips(f, argv, taking, i) ==
  IF i > Len(argv) \/ argv[i] \notin Flags THEN i
  ELSE IF argv[i] \in taking /\ i < Len(argv) THEN f[i + 2] ELSE f[i + 1]

LEMMA SkipsExists ==
  ASSUME NEW argv \in Seq(STRING), NEW taking
  PROVE  \E f : f = [i \in 1 .. Len(argv) + 2 |-> Skips(f, argv, taking, i)]
<1> DEFINE n == Len(argv)
           D(k) == n + 3 - k .. n + 2
           T == {k \in 0 .. n + 2 :
                   \E f : f = [i \in D(k) |-> Skips(f, argv, taking, i)]}
<1>0. n \in Nat
  BY LenProperties
<1>1. 0 \in T
  <2>1. D(0) = {}
    BY <1>0
  <2>2. <<>> = [i \in D(0) |-> Skips(<<>>, argv, taking, i)]
    BY <2>1
  <2>3. \E f : f = [i \in D(0) |-> Skips(f, argv, taking, i)]
    <3> HIDE DEF D
    <3> QED BY <2>2
  <2> QED BY <2>3, <1>0
<1>2. ASSUME NEW k \in 1 .. n + 2, k - 1 \in T PROVE k \in T
  <2>1. PICK f : f = [i \in D(k - 1) |-> Skips(f, argv, taking, i)]
    BY <1>2
  <2> DEFINE p == n + 3 - k
             g == [i \in D(k) |-> IF i = p THEN Skips(f, argv, taking, i) ELSE f[i]]
  <2>2. \A i \in D(k) : i # p => i \in D(k - 1)
    BY <1>0
  <2>3. \A i \in D(k - 1) : i \in D(k) /\ i # p
    BY <1>0
  <2>4. \A i \in D(k - 1) : g[i] = f[i]
    BY <2>3
  <2>5. \A i \in D(k) : i <= n => i + 1 \in D(k - 1) /\ i + 2 \in D(k - 1)
    BY <1>0
  <2>6. \A i \in D(k) : Skips(g, argv, taking, i) = Skips(f, argv, taking, i)
    <3> SUFFICES ASSUME NEW i \in D(k)
                 PROVE  Skips(g, argv, taking, i) = Skips(f, argv, taking, i)
      OBVIOUS
    <3>1. CASE i > n
      BY <3>1 DEF Skips
    <3>2. CASE i <= n
      <4>1. g[i + 1] = f[i + 1] /\ g[i + 2] = f[i + 2]
        BY <3>2, <2>4, <2>5
      <4> HIDE DEF g
      <4> QED BY <4>1 DEF Skips
    <3>3. i \in Int
      BY <1>0
    <3> QED BY <1>0, <3>1, <3>2, <3>3
  <2>7. \A i \in D(k - 1) : f[i] = Skips(f, argv, taking, i)
    <3> DEFINE r == [i \in D(k - 1) |-> Skips(f, argv, taking, i)]
    <3>1. \A i \in D(k - 1) : r[i] = Skips(f, argv, taking, i)
      OBVIOUS
    <3>2. f = r
      BY <2>1
    <3> HIDE DEF r
    <3> QED BY <3>1, <3>2
  <2>8. \A i \in D(k) : g[i] = Skips(g, argv, taking, i)
    <3> SUFFICES ASSUME NEW i \in D(k) PROVE g[i] = Skips(g, argv, taking, i)
      OBVIOUS
    <3>1. g[i] = IF i = p THEN Skips(f, argv, taking, i) ELSE f[i]
      OBVIOUS
    <3> HIDE DEF g, D
    <3> QED BY <3>1, <2>2, <2>6, <2>7
  <2>9. g = [i \in D(k) |-> Skips(g, argv, taking, i)]
    <3> DEFINE r == [i \in D(k) |-> Skips(g, argv, taking, i)]
    <3>1. \A i \in D(k) : r[i] = g[i]
      BY <2>8
    <3>2. DOMAIN g = D(k) /\ DOMAIN r = D(k) /\ g = [i \in DOMAIN g |-> g[i]]
      OBVIOUS
    <3>3. r = [i \in D(k) |-> r[i]]
      OBVIOUS
    <3>4. g = r
      <4> HIDE DEF r, g, D
      <4> QED BY <3>1, <3>2, <3>3
    <3> QED BY <3>4 DEF r
  <2> HIDE DEF g, D
  <2> QED BY <2>9
<1> HIDE DEF T
<1>3. n + 2 \in T
  <2>1. n + 2 \in Nat /\ T \in SUBSET (0 .. n + 2)
    BY <1>0 DEF T
  <2>2. \A i \in 0 .. n + 2 : i \in T
    BY <2>1, <1>1, <1>2, UpTo
  <2> QED BY <2>1, <2>2
<1>4. D(n + 2) = 1 .. n + 2
  BY <1>0
<1> QED BY <1>3, <1>4 DEF T

LEMMA AfterFlagsIs ==
  ASSUME NEW argv \in Seq(STRING), NEW taking, NEW i \in 1 .. Len(argv) + 2
  PROVE  AfterFlags(argv, i, taking) =
           IF i > Len(argv) \/ argv[i] \notin Flags THEN i
           ELSE IF argv[i] \in taking /\ i < Len(argv) THEN AfterFlags(argv, i + 2, taking)
           ELSE AfterFlags(argv, i + 1, taking)
<1> DEFINE n == Len(argv)
           Eq(f) == f = [k \in 1 .. n + 2 |->
             IF k > n \/ argv[k] \notin Flags THEN k
             ELSE IF argv[k] \in taking /\ k < n THEN f[k + 2] ELSE f[k + 1]]
           chosen == CHOOSE f : Eq(f)
<1>0. n \in Nat
  BY LenProperties
<1>1. \A k : AfterFlags(argv, k, taking) = chosen[k]
  BY DEF AfterFlags
<1>2. \E f : Eq(f)
  BY SkipsExists DEF Skips
<1>3. Eq(chosen)
  <2> HIDE DEF Eq
  <2> QED BY <1>2
<1> HIDE DEF chosen
<1>4. chosen[i] = IF i > n \/ argv[i] \notin Flags THEN i
                  ELSE IF argv[i] \in taking /\ i < n THEN chosen[i + 2] ELSE chosen[i + 1]
  <2> DEFINE r == [k \in 1 .. n + 2 |->
             IF k > n \/ argv[k] \notin Flags THEN k
             ELSE IF argv[k] \in taking /\ k < n THEN chosen[k + 2] ELSE chosen[k + 1]]
  <2>1. r[i] = IF i > n \/ argv[i] \notin Flags THEN i
               ELSE IF argv[i] \in taking /\ i < n THEN chosen[i + 2] ELSE chosen[i + 1]
    OBVIOUS
  <2>2. chosen = r
    BY <1>3
  <2> HIDE DEF r
  <2> QED BY <2>1, <2>2
<1> QED BY <1>1, <1>4

LEMMA AfterFlagsBounds ==
  ASSUME NEW argv \in Seq(STRING), NEW taking, NEW i \in 1 .. Len(argv) + 2
  PROVE  AfterFlags(argv, i, taking) \in i .. Len(argv) + 2
<1> DEFINE n == Len(argv)
           A(k) == AfterFlags(argv, k, taking)
           T == {k \in 0 .. n + 1 : \A j \in n + 2 - k .. n + 2 : A(j) \in j .. n + 2}
<1>0. n \in Nat
  BY LenProperties
<1>1. \A j \in 1 .. n + 2 :
        A(j) = IF j > n \/ argv[j] \notin Flags THEN j
               ELSE IF argv[j] \in taking /\ j < n THEN A(j + 2) ELSE A(j + 1)
  BY AfterFlagsIs
<1> HIDE DEF A
<1>2. 0 \in T
  <2>1. A(n + 2) = n + 2
    BY <1>0, <1>1
  <2> QED BY <1>0, <2>1
<1>3. ASSUME NEW k \in 1 .. n + 1, k - 1 \in T PROVE k \in T
  <2> SUFFICES ASSUME NEW j \in n + 2 - k .. n + 2 PROVE A(j) \in j .. n + 2
    OBVIOUS
  <2>1. CASE j # n + 2 - k
    BY <2>1, <1>0, <1>3
  <2>2. CASE j = n + 2 - k
    <3>1. j \in 1 .. n + 1
      BY <1>0, <2>2
    <3>2. A(j + 1) \in j + 1 .. n + 2
      BY <1>0, <2>2, <1>3
    <3>3. j <= n => A(j + 2) \in j + 2 .. n + 2
      BY <1>0, <2>2, <1>3
    <3> QED BY <1>0, <3>1, <3>2, <3>3, <1>1
  <2> QED BY <2>1, <2>2
<1> HIDE DEF T
<1>4. n + 1 \in T
  <2>1. n + 1 \in Nat /\ T \in SUBSET (0 .. n + 1)
    BY <1>0 DEF T
  <2>2. \A k \in 0 .. n + 1 : k \in T
    BY <2>1, <1>2, <1>3, UpTo
  <2> QED BY <2>1, <2>2
<1> QED BY <1>0, <1>4 DEF T, A

(***************************************************************************)
(* The prefixes that are unwrapped.                                        *)
(***************************************************************************)
LEMMA PrefixLengthIs ==
  ASSUME NEW argv \in Seq(STRING), argv # <<>>
  PROVE  /\ PrefixLength(argv) \in 1 .. Len(argv)
         /\ argv[1] \in {"sudo", "exec"} => PrefixLength(argv) = 1
<1> DEFINE n == Len(argv)
           Skip(from, skipped) ==
             Min({i \in from .. n + 1 : i = n + 1 \/ argv[i] \notin skipped}) - 1
<1>0. n \in Nat /\ n >= 1
  BY EmptySeq, LenProperties
<1>1. ASSUME NEW skipped PROVE Skip(2, skipped) \in 1 .. n
  <2> DEFINE T == {i \in 2 .. n + 1 : i = n + 1 \/ argv[i] \notin skipped}
  <2>1. T \in SUBSET Nat /\ T # {} /\ T \in SUBSET (2 .. n + 1)
    <3>1. n + 1 \in T
      BY <1>0
    <3> QED BY <3>1, <1>0
  <2>2. Min(T) \in T
    <3> HIDE DEF T
    <3> QED BY <2>1, MinIs
  <2>3. Min(T) \in 2 .. n + 1
    <3> HIDE DEF T
    <3> QED BY <2>1, <2>2
  <2> HIDE DEF T
  <2>4. Min(T) - 1 \in 1 .. n
    BY <1>0, <2>3
  <2> QED BY <2>4 DEF T
<1>2. Min({AfterFlags(argv, 2, ShortFlags), n + 1}) - 1 \in 1 .. n
  <2> DEFINE a == AfterFlags(argv, 2, ShortFlags)
  <2>1. a \in 2 .. n + 2
    <3>1. 2 \in 1 .. Len(argv) + 2
      BY <1>0
    <3> QED BY <3>1, AfterFlagsBounds
  <2> HIDE DEF a
  <2>2. {a, n + 1} \in SUBSET Nat /\ {a, n + 1} # {}
    BY <2>1, <1>0
  <2>3. Min({a, n + 1}) \in {a, n + 1} /\ Min({a, n + 1}) <= n + 1
    BY <2>2, MinIs
  <2> DEFINE m == Min({a, n + 1})
  <2>4. m \in {a, n + 1} /\ m <= n + 1
    BY <2>3
  <2> HIDE DEF m
  <2>5. m - 1 \in 1 .. n
    BY <2>1, <2>4, <1>0
  <2> QED BY <2>5 DEF m, a
<1> HIDE DEF Skip
<1>3. PrefixLength(argv) =
        CASE argv[1] = "nice" ->
               IF n > 2 /\ argv[2] = "-n" THEN 3 ELSE IF n > 1 /\ argv[2] \in Flags THEN 2 ELSE 1
          [] argv[1] = "timeout" -> Skip(2, Flags \cup Durations)
          [] argv[1] = "env" -> Skip(2, Flags \cup Assignments)
          [] argv[1] = "stdbuf" -> Min({AfterFlags(argv, 2, ShortFlags), n + 1}) - 1
          [] OTHER -> 1
  BY DEF PrefixLength, Skip
<1>4. CASE argv[1] = "nice"
  BY <1>0, <1>3, <1>4
<1>5. CASE argv[1] = "timeout"
  BY <1>1, <1>3, <1>5
<1>6. CASE argv[1] = "env"
  BY <1>1, <1>3, <1>6
<1>7. CASE argv[1] = "stdbuf"
  BY <1>2, <1>3, <1>7
<1>8. CASE argv[1] \notin {"nice", "timeout", "env", "stdbuf"}
  <2>1. PrefixLength(argv) = 1
    BY <1>3, <1>8
  <2> QED BY <2>1, <1>0
<1> QED BY <1>4, <1>5, <1>6, <1>7, <1>8
LEMMA SuffixIs ==
  ASSUME NEW S, NEW s \in Seq(S), NEW q \in 1 .. Len(s) + 1
  PROVE  LET u == SubSeq(s, q, Len(s))
         IN /\ u \in Seq(S)
            /\ Len(u) = Len(s) + 1 - q
            /\ \A k \in 1 .. Len(u) : u[k] = s[q + k - 1]
<1> DEFINE n == Len(s)  u == SubSeq(s, q, n)
<1>0. n \in Nat /\ q \in Int /\ n \in Int
  BY LenProperties
<1>1. \A i \in q .. n : s[i] \in S
  BY <1>0, ElementOfSeq
<1>2. /\ u \in Seq(S) /\ Len(u) = IF q <= n THEN n - q + 1 ELSE 0
      /\ \A i \in 1 .. n - q + 1 : u[i] = s[q + i - 1]
  BY <1>0, <1>1, SubSeqProperties
<1> HIDE DEF u
<1>3. Len(u) = n + 1 - q
  BY <1>0, <1>2
<1>4. \A k \in 1 .. Len(u) : u[k] = s[q + k - 1]
  BY <1>0, <1>2, <1>3
<1> QED BY <1>2, <1>3, <1>4 DEF u

LEMMA SuffixOfSuffix ==
  ASSUME NEW S, NEW s \in Seq(S), NEW q \in 1 .. Len(s) + 1, NEW r \in 1 .. Len(s) + 2 - q
  PROVE  LET u == SubSeq(s, q, Len(s))
         IN SubSeq(u, r, Len(u)) = SubSeq(s, q + r - 1, Len(s))
<1> DEFINE u == SubSeq(s, q, Len(s))
           v == SubSeq(u, r, Len(u))
           w == SubSeq(s, q + r - 1, Len(s))
<1>0. Len(s) \in Nat
  BY LenProperties
<1>1. u \in Seq(S) /\ Len(u) = Len(s) + 1 - q /\ \A k \in 1 .. Len(u) : u[k] = s[q + k - 1]
  BY SuffixIs
<1> HIDE DEF u
<1>2. r \in 1 .. Len(u) + 1
  BY <1>0, <1>1
<1>3. v \in Seq(S) /\ Len(v) = Len(u) + 1 - r /\ \A k \in 1 .. Len(v) : v[k] = u[r + k - 1]
  BY <1>1, <1>2, SuffixIs
<1>4. q + r - 1 \in 1 .. Len(s) + 1
  BY <1>0
<1>5. w \in Seq(S) /\ Len(w) = Len(s) + 1 - (q + r - 1)
      /\ \A k \in 1 .. Len(w) : w[k] = s[(q + r - 1) + k - 1]
  BY <1>4, SuffixIs
<1> HIDE DEF v, w
<1>6. Len(v) = Len(w)
  BY <1>0, <1>1, <1>3, <1>5
<1>7. ASSUME NEW k \in 1 .. Len(v) PROVE v[k] = w[k]
  <2>1. v[k] = u[r + k - 1] /\ w[k] = s[(q + r - 1) + k - 1]
    BY <1>3, <1>5, <1>6
  <2>2. r + k - 1 \in 1 .. Len(u) /\ q + (r + k - 1) - 1 = (q + r - 1) + k - 1
    BY <1>0, <1>1, <1>3
  <2> QED BY <2>1, <2>2, <1>1
<1>8. v = w
  BY <1>3, <1>5, <1>6, <1>7, SeqEqual
<1> QED BY <1>8 DEF u, v, w

\* One round of the loop.
Peel(left) ==
  IF left = <<>> \/ left[1] \notin COMPOUND_PREFIXES THEN left
  ELSE SubSeq(left, PrefixLength(left) + 1, Len(left))

Peels(p, argv, n) == p = [k \in 0 .. n |-> IF k = 0 THEN argv ELSE Peel(p[k - 1])]

LEMMA PeelsAt ==
  ASSUME NEW p, NEW argv, NEW n \in Nat, Peels(p, argv, n), NEW k \in 0 .. n
  PROVE  p[k] = IF k = 0 THEN argv ELSE Peel(p[k - 1])
<1> DEFINE r == [i \in 0 .. n |-> IF i = 0 THEN argv ELSE Peel(p[i - 1])]
<1>1. r[k] = IF k = 0 THEN argv ELSE Peel(p[k - 1])
  OBVIOUS
<1>2. p = r
  BY DEF Peels
<1> HIDE DEF r
<1> QED BY <1>1, <1>2

LEMMA PeelsExist ==
  ASSUME NEW argv, NEW n \in Nat
  PROVE  \E p : Peels(p, argv, n)
<1> DEFINE T == {m \in 0 .. n : \E p : Peels(p, argv, m)}
<1>1. 0 \in T
  <2> DEFINE g == [k \in 0 .. 0 |-> argv]
  <2>1. g = [k \in 0 .. 0 |-> IF k = 0 THEN argv ELSE Peel(g[k - 1])]
    <3>1. \A k \in 0 .. 0 : k = 0
      OBVIOUS
    <3> QED BY <3>1
  <2>2. Peels(g, argv, 0)
    <3> HIDE DEF g
    <3> QED BY <2>1 DEF Peels
  <2> HIDE DEF g
  <2> QED BY <2>2
<1>2. ASSUME NEW m \in 1 .. n, m - 1 \in T PROVE m \in T
  <2>1. PICK p : Peels(p, argv, m - 1)
    BY <1>2
  <2> DEFINE g == [k \in 0 .. m |-> IF k = m THEN Peel(p[m - 1]) ELSE p[k]]
             r == [k \in 0 .. m |-> IF k = 0 THEN argv ELSE Peel(g[k - 1])]
  <2>2. \A k \in 0 .. m - 1 : g[k] = p[k]
    OBVIOUS
  <2>3. g[m] = Peel(p[m - 1])
    OBVIOUS
  <2>4. ASSUME NEW k \in 0 .. m PROVE g[k] = r[k]
    <3>1. r[k] = IF k = 0 THEN argv ELSE Peel(g[k - 1])
      OBVIOUS
    <3>2. CASE k = m
      <4>1. g[m - 1] = p[m - 1] /\ m # 0
        BY <2>2
      <4> HIDE DEF g, r
      <4> QED BY <4>1, <3>1, <3>2, <2>3
    <3>3. CASE k # m
      <4>1. k \in 0 .. m - 1 /\ m - 1 \in Nat
        BY <3>3
      <4>2. g[k] = p[k] /\ (k # 0 => g[k - 1] = p[k - 1])
        BY <4>1, <2>2
      <4>3. p[k] = IF k = 0 THEN argv ELSE Peel(p[k - 1])
        BY <4>1, <2>1, PeelsAt
      <4> HIDE DEF g, r
      <4> QED BY <4>2, <4>3, <3>1
    <3> QED BY <3>2, <3>3
  <2>5. g = r
    <3>1. g = [k \in 0 .. m |-> g[k]] /\ r = [k \in 0 .. m |-> r[k]]
      OBVIOUS
    <3> HIDE DEF g, r
    <3> QED BY <3>1, <2>4
  <2>6. Peels(g, argv, m)
    <3> HIDE DEF g
    <3> QED BY <2>5 DEF Peels
  <2> HIDE DEF g
  <2> QED BY <2>6
<1> HIDE DEF T
<1>3. n \in T
  <2>1. T \in SUBSET (0 .. n)
    BY DEF T
  <2>2. \A m \in 0 .. n : m \in T
    BY <2>1, <1>1, <1>2, UpTo
  <2> QED BY <2>2
<1> QED BY <1>3 DEF T

LEMMA UnwrapIs ==
  ASSUME NEW argv
  PROVE  \E p : Peels(p, argv, Safety) /\ Unwrap(argv) = p[Safety]
<1> DEFINE Eq(p) == p = [k \in 0 .. Safety |->
             IF k = 0 THEN argv
             ELSE LET left == p[k - 1]
                  IN IF left = <<>> \/ left[1] \notin COMPOUND_PREFIXES THEN left
                     ELSE SubSeq(left, PrefixLength(left) + 1, Len(left))]
           chosen == CHOOSE p : Eq(p)
<1>1. Unwrap(argv) = chosen[Safety]
  BY DEF Unwrap
<1>2. \A p : Eq(p) <=> Peels(p, argv, Safety)
  BY DEF Peels, Peel
<1>3. Safety \in Nat
  BY DEF Safety
<1>4. \E p : Eq(p)
  <2> HIDE DEF Eq
  <2> QED BY <1>2, <1>3, PeelsExist
<1>5. Eq(chosen)
  <2> HIDE DEF Eq
  <2> QED BY <1>4
<1> HIDE DEF Eq, chosen
<1> QED BY <1>1, <1>2, <1>5

\* What is left is a suffix of the words.
LEMMA UnwrapSuffix ==
  ASSUME NEW argv \in Seq(STRING)
  PROVE  \E q \in 1 .. Len(argv) + 1 : Unwrap(argv) = SubSeq(argv, q, Len(argv))
<1> DEFINE n == Len(argv)
<1>0. n \in Nat /\ Safety \in Nat
  BY LenProperties DEF Safety
<1>1. PICK p : Peels(p, argv, Safety) /\ Unwrap(argv) = p[Safety]
  BY UnwrapIs
<1> DEFINE T == {k \in 0 .. Safety : \E q \in 1 .. n + 1 : p[k] = SubSeq(argv, q, n)}
<1>2. 0 \in T
  <2>1. p[0] = argv
    BY <1>0, <1>1, PeelsAt
  <2>2. SubSeq(argv, 1, n) = argv
    BY SubSeqFull
  <2> QED BY <2>1, <2>2, <1>0
<1>3. ASSUME NEW k \in 1 .. Safety, k - 1 \in T PROVE k \in T
  <2> SUFFICES \E j \in 1 .. n + 1 : p[k] = SubSeq(argv, j, n)
    BY <1>0
  <2>1. PICK q \in 1 .. n + 1 : p[k - 1] = SubSeq(argv, q, n)
    BY <1>3
  <2> DEFINE left == p[k - 1]
  <2>2. left = SubSeq(argv, q, n) /\ left \in Seq(STRING) /\ Len(left) = n + 1 - q
    BY <2>1, SuffixIs
  <2>3. p[k] = Peel(left)
    <3>1. k \in 0 .. Safety /\ k # 0
      BY <1>0
    <3> QED BY <3>1, <1>0, <1>1, PeelsAt
  <2> HIDE DEF left
  <2>4. CASE left = <<>> \/ left[1] \notin COMPOUND_PREFIXES
    <3>1. p[k] = SubSeq(argv, q, n)
      BY <2>2, <2>3, <2>4 DEF Peel
    <3> QED BY <3>1
  <2>5. CASE ~(left = <<>> \/ left[1] \notin COMPOUND_PREFIXES)
    <3>1. PrefixLength(left) \in 1 .. Len(left)
      BY <2>2, <2>5, PrefixLengthIs
    <3> DEFINE r == PrefixLength(left) + 1
    <3>2. r \in 1 .. n + 2 - q
      BY <3>1, <2>2, <1>0
    <3>3. p[k] = SubSeq(left, r, Len(left))
      BY <2>3, <2>5 DEF Peel
    <3> HIDE DEF r
    <3>4. p[k] = SubSeq(argv, q + r - 1, n)
      BY <3>2, <3>3, <2>2, SuffixOfSuffix
    <3>5. q + r - 1 \in 1 .. n + 1
      BY <3>2, <1>0
    <3> QED BY <3>4, <3>5, <1>0
  <2> QED BY <2>4, <2>5
<1> HIDE DEF T
<1>4. Safety \in T
  <2>1. T \in SUBSET (0 .. Safety)
    BY DEF T
  <2>2. \A k \in 0 .. Safety : k \in T
    BY <2>1, <1>0, <1>2, <1>3, UpTo
  <2> QED BY <2>2, <1>0
<1> QED BY <1>1, <1>4 DEF T

\* sudo and exec, up to so many, are taken off and nothing else is.
LEMMA UnwrapPlain ==
  ASSUME NEW argv \in Seq(STRING), NEW m \in 0 .. Safety, m < Len(argv),
         \A k \in 1 .. m : argv[k] \in {"sudo", "exec"},
         argv[m + 1] \notin COMPOUND_PREFIXES
  PROVE  Unwrap(argv) = SubSeq(argv, m + 1, Len(argv))
<1> DEFINE n == Len(argv)
<1>0. n \in Nat /\ Safety \in Nat
  BY LenProperties DEF Safety
<1>1. PICK p : Peels(p, argv, Safety) /\ Unwrap(argv) = p[Safety]
  BY UnwrapIs
<1> DEFINE At(k) == (IF k < m THEN k ELSE m) + 1
           T == {k \in 0 .. Safety : p[k] = SubSeq(argv, At(k), n)}
<1>2. 0 \in T
  <2>1. p[0] = argv
    BY <1>0, <1>1, PeelsAt
  <2>2. SubSeq(argv, 1, n) = argv
    BY SubSeqFull
  <2>3. At(0) = 1
    OBVIOUS
  <2> QED BY <2>1, <2>2, <2>3, <1>0
<1>3. ASSUME NEW k \in 1 .. Safety, k - 1 \in T PROVE k \in T
  <2> DEFINE left == p[k - 1]
             q == At(k - 1)
  <2>1. q \in 1 .. n /\ q \in 1 .. n + 1
    BY <1>0
  <2>2. left = SubSeq(argv, q, n)
    BY <1>3
  <2>3. p[k] = Peel(left)
    <3>1. k \in 0 .. Safety /\ k # 0
      BY <1>0
    <3> QED BY <3>1, <1>0, <1>1, PeelsAt
  <2>21. q = (IF k - 1 < m THEN k - 1 ELSE m) + 1
    OBVIOUS
  <2> HIDE DEF left, q
  <2>4. /\ left \in Seq(STRING) /\ Len(left) = n + 1 - q
        /\ \A i \in 1 .. Len(left) : left[i] = argv[q + i - 1]
    BY <2>1, <2>2, SuffixIs
  <2>5. left # <<>> /\ left[1] = argv[q]
    <3>1. 1 \in 1 .. Len(left) /\ q + 1 - 1 = q
      BY <2>1, <2>4, <1>0
    <3>2. left[1] = argv[q]
      BY <3>1, <2>4
    <3>3. left # <<>>
      BY <3>1, EmptySeq
    <3> QED BY <3>2, <3>3
  <2>6. CASE k - 1 < m
    <3>1. q = k /\ At(k) = k + 1 /\ k \in 1 .. m
      BY <2>6, <2>21
    <3>2. left[1] \in {"sudo", "exec"} /\ PrefixLength(left) = 1
      BY <3>1, <2>4, <2>5, PrefixLengthIs
    <3>3. p[k] = SubSeq(left, 2, Len(left))
      BY <3>2, <2>3, <2>5 DEF Peel, COMPOUND_PREFIXES
    <3>4. 2 \in 1 .. n + 2 - q
      BY <2>1, <1>0
    <3>5. p[k] = SubSeq(argv, q + 2 - 1, n)
      BY <3>3, <3>4, <2>1, <2>2, SuffixOfSuffix
    <3>6. q + 2 - 1 = At(k)
      BY <3>1
    <3> HIDE DEF At
    <3> QED BY <3>5, <3>6
  <2>7. CASE ~(k - 1 < m)
    <3>1. q = m + 1 /\ At(k) = m + 1
      BY <2>7, <2>21
    <3>2. p[k] = left
      BY <3>1, <2>3, <2>5 DEF Peel
    <3> HIDE DEF At
    <3> QED BY <3>1, <3>2, <2>2
  <2> QED BY <2>6, <2>7
<1>4. At(Safety) = m + 1
  BY <1>0
<1> HIDE DEF T
<1>5. Safety \in T
  <2>1. T \in SUBSET (0 .. Safety)
    BY DEF T
  <2>2. \A k \in 0 .. Safety : k \in T
    BY <2>1, <1>0, <1>2, <1>3, UpTo
  <2> QED BY <2>2, <1>0
<1> QED BY <1>1, <1>4, <1>5 DEF T

(***************************************************************************)
(* Nodes and lists of nodes.                                               *)
(***************************************************************************)
IsNode(n) ==
  n \in [argv : Seq(STRING), resolved : BOOLEAN, head : {n.head}, redirects : {n.redirects},
         children : {n.children}, op : {n.op}, confidence : Levels3,
         indicators : {n.indicators}, below : {n.below}]

IsList(s) == (\E S : s \in Seq(S)) /\ \A k \in DOMAIN s : IsNode(s[k])

\* n tells what c tells.
Above(n, c) ==
  /\ c.indicators \subseteq n.indicators
  /\ Nodes(c) \subseteq Nodes(n)
  /\ n.confidence = "high" => c.confidence = "high"

LEMMA AboveTrans ==
  ASSUME NEW a, NEW b, NEW c, Above(a, b), Above(b, c)
  PROVE  Above(a, c)
BY DEF Above

LEMMA EmptyList == IsList(<<>>)
<1>1. <<>> \in Seq(STRING) /\ DOMAIN <<>> = {}
  OBVIOUS
<1> QED BY <1>1 DEF IsList

LEMMA ListDomain ==
  ASSUME NEW s, IsList(s)
  PROVE  Len(s) \in Nat /\ DOMAIN s = 1 .. Len(s) /\ (s = <<>> <=> Len(s) = 0)
<1>1. PICK S : s \in Seq(S)
  BY DEF IsList
<1> QED BY <1>1, LenProperties, EmptySeq

LEMMA ConsList ==
  ASSUME NEW s, IsList(s), NEW a, IsNode(a)
  PROVE  LET c == <<a>> \o s
         IN /\ IsList(c) /\ c # <<>>
            /\ Len(c) = Len(s) + 1
            /\ c[1] = a
            /\ \A k \in 1 .. Len(s) : c[k + 1] = s[k]
            /\ \A k \in 1 .. Len(c) : c[k] = IF k = 1 THEN a ELSE s[k - 1]
<1>1. PICK S : s \in Seq(S)
  BY DEF IsList
<1> DEFINE c == <<a>> \o s
<1>2. /\ c \in Seq(S \cup {a}) /\ c # <<>> /\ Len(c) = Len(s) + 1 /\ c[1] = a
      /\ \A k \in 1 .. Len(s) : c[k + 1] = s[k]
  BY <1>1, Cons
<1>3. Len(s) \in Nat /\ DOMAIN s = 1 .. Len(s) /\ DOMAIN c = 1 .. Len(c)
  <2> HIDE DEF c
  <2> QED BY <1>1, <1>2, LenProperties
<1> HIDE DEF c
<1>4. \A k \in 1 .. Len(c) : c[k] = IF k = 1 THEN a ELSE s[k - 1]
  <2> SUFFICES ASSUME NEW k \in 1 .. Len(c) PROVE c[k] = IF k = 1 THEN a ELSE s[k - 1]
    OBVIOUS
  <2>1. CASE k = 1
    BY <2>1, <1>2
  <2>2. CASE k # 1
    <3>1. k - 1 \in 1 .. Len(s) /\ (k - 1) + 1 = k
      BY <2>2, <1>2, <1>3
    <3>2. c[(k - 1) + 1] = s[k - 1]
      BY <3>1, <1>2
    <3> QED BY <3>1, <3>2, <2>2
  <2> QED BY <2>1, <2>2
<1>5. ASSUME NEW k \in DOMAIN c PROVE IsNode(c[k])
  <2>1. k \in 1 .. Len(c) /\ c[k] = IF k = 1 THEN a ELSE s[k - 1]
    BY <1>3, <1>4
  <2>2. k # 1 => k - 1 \in DOMAIN s
    BY <2>1, <1>2, <1>3
  <2> QED BY <2>1, <2>2 DEF IsList
<1>6. IsList(c)
  BY <1>2, <1>5 DEF IsList
<1> QED BY <1>2, <1>4, <1>6 DEF c

MergedConfidence(s) == mergeConfidence({s[k].confidence : k \in DOMAIN s})

LEMMA MergedIs ==
  ASSUME NEW s, IsList(s)
  PROVE  /\ MergedConfidence(s) \in Levels3
         /\ MergedConfidence(s) = "high" => \A k \in DOMAIN s : s[k].confidence = "high"
<1>1. \A k \in DOMAIN s : s[k].confidence \in Levels3
  BY DEF IsList, IsNode
<1> DEFINE C == {s[k].confidence : k \in DOMAIN s}
<1>2. C \in SUBSET Levels3
  BY <1>1
<1>3. \A k \in DOMAIN s : s[k].confidence \in C
  OBVIOUS
<1> HIDE DEF C
<1>4. mergeConfidence(C) \in Levels3 /\ (mergeConfidence(C) = "high" => \A c \in C : c = "high")
  BY <1>2, MergeIs
<1> QED BY <1>3, <1>4 DEF C, MergedConfidence

LEMMA InheritedIs ==
  ASSUME NEW s, NEW k \in DOMAIN s
  PROVE  s[k].indicators \subseteq Inherited(s) /\ Nodes(s[k]) \subseteq Under(s)
BY DEF Inherited, Under

LEMMA UnknownIs == IsNode(Unknown)
<1>1. <<>> \in Seq(STRING)
  OBVIOUS
<1> QED BY <1>1 DEF IsNode, Unknown, Levels3

\* The node of a subshell, a pipeline or a sequence.
LEMMA ParentIs ==
  ASSUME NEW s, IsList(s), NEW op
  PROVE  LET n == Parent(s, op)
         IN /\ IsNode(n) /\ n.children = s /\ n.op = op /\ n.below = Under(s)
            /\ \A k \in DOMAIN s : Above(n, s[k])
<1> DEFINE c == MergedConfidence(s)
           n == Parent(s, op)
<1>1. c \in Levels3
  BY MergedIs
<1>2. n = [Unknown EXCEPT !.children = s, !.op = op, !.confidence = c,
              !.indicators = Inherited(s), !.below = Under(s)]
  BY DEF Parent, MergedConfidence
<1>3. <<>> \in Seq(STRING)
  OBVIOUS
<1> HIDE DEF c, n
<1>4. /\ IsNode(n) /\ n.children = s /\ n.op = op /\ n.confidence = c
      /\ n.indicators = Inherited(s) /\ n.below = Under(s)
  BY <1>1, <1>2, <1>3 DEF IsNode, Unknown
<1>5. ASSUME NEW k \in DOMAIN s PROVE Above(n, s[k])
  <2>1. s[k].indicators \subseteq n.indicators
    BY <1>4, InheritedIs
  <2>2. Nodes(s[k]) \subseteq Under(s)
    BY InheritedIs
  <2>3. n.confidence = "high" => s[k].confidence = "high"
    BY <1>4, MergedIs DEF c
  <2>4. Nodes(n) = {n} \cup Under(s)
    BY <1>4 DEF Nodes
  <2>5. Nodes(s[k]) \subseteq Nodes(n)
    BY <2>2, <2>4
  <2> QED BY <2>1, <2>3, <2>5 DEF Above
<1> QED BY <1>4, <1>5 DEF n

LEMMA SequenceIs ==
  ASSUME NEW s, IsList(s)
  PROVE  IsNode(Sequence(s)) /\ \A k \in DOMAIN s : Above(Sequence(s), s[k])
<1>0. Len(s) \in Nat /\ DOMAIN s = 1 .. Len(s) /\ (s = <<>> <=> Len(s) = 0)
  BY ListDomain
<1>1. CASE s = <<>>
  <2>1. Sequence(s) = Unknown
    BY <1>1 DEF Sequence
  <2>2. DOMAIN s = {}
    BY <1>1
  <2> QED BY <2>1, <2>2, UnknownIs
<1>2. CASE Len(s) = 1
  <2>1. Sequence(s) = s[1]
    BY <1>0, <1>2 DEF Sequence
  <2>2. DOMAIN s = {1}
    BY <1>0, <1>2
  <2> QED BY <2>1, <2>2 DEF IsList, Above
<1>3. CASE s # <<>> /\ Len(s) # 1
  <2>1. Sequence(s) = Parent(s, "sequence")
    BY <1>3 DEF Sequence
  <2> QED BY <2>1, ParentIs
<1> QED BY <1>1, <1>2, <1>3

LEMMA PipelineIs ==
  ASSUME NEW s, IsList(s), s # <<>>
  PROVE  /\ IsNode(Pipeline(s))
         /\ \A k \in DOMAIN s : Above(Pipeline(s), s[k])
         /\ Len(s) >= 2 /\ IsInterpreter(s[Len(s)])
            => "pipe_to_interpreter" \in Pipeline(s).indicators
<1>0. Len(s) \in Nat /\ DOMAIN s = 1 .. Len(s) /\ (s = <<>> <=> Len(s) = 0)
  BY ListDomain
<1>1. CASE Len(s) = 1
  <2>1. Pipeline(s) = s[1]
    BY <1>1 DEF Pipeline
  <2>2. DOMAIN s = {1}
    BY <1>0, <1>1
  <2> QED BY <2>1, <2>2, <1>1 DEF IsList, Above
<1>2. CASE Len(s) # 1
  <2> DEFINE p == Parent(s, "pipe")
             n == Pipeline(s)
             combined == combineChildrenIndicators(p)
  <2>1. n = [p EXCEPT !.indicators = @ \cup combined]
    BY <1>2 DEF Pipeline
  <2>2. IsNode(p) /\ p.children = s /\ p.op = "pipe" /\ p.below = Under(s) /\ \A k \in DOMAIN s : Above(p, s[k])
    BY ParentIs
  <2>4. IsInterpreter(s[Len(s)]) => "pipe_to_interpreter" \in combined
    <3>1. Len(s) >= 2
      BY <1>0, <1>2
    <3> HIDE DEF p
    <3> QED BY <3>1, <2>2, <1>0 DEF combineChildrenIndicators
  <2> HIDE DEF p, n, combined
  <2>5. IsNode(n) /\ n.confidence = p.confidence /\ n.below = p.below
        /\ n.indicators = p.indicators \cup combined
    BY <2>1, <2>2 DEF IsNode
  <2>6. ASSUME NEW k \in DOMAIN s PROVE Above(n, s[k])
    <3>0. Nodes(n) = {n} \cup Under(s) /\ Nodes(s[k]) \subseteq Under(s)
      BY <2>2, <2>5, InheritedIs DEF Nodes
    <3>1. Nodes(s[k]) \subseteq Nodes(n)
      BY <3>0
    <3> QED BY <3>1, <2>2, <2>5 DEF Above
  <2> QED BY <2>4, <2>5, <2>6 DEF n
<1> QED BY <1>1, <1>2

(***************************************************************************)
(* The node of a simple command.                                           *)
(***************************************************************************)
\* The parts of a command that starts at or before position i of t.
IsParts(p, t, i) ==
  /\ p \in [words : Seq(STRING), redirects : {p.redirects}, subs : {p.subs},
            confidence : Levels3, assigned : BOOLEAN, i : Nat]
  /\ IsList(p.subs)
  /\ \A m \in DOMAIN p.words : \E k \in DOMAIN t : p.words[m] = t[k].w
  /\ Len(p.words) + i <= p.i

StaticWords(p) == \A k \in DOMAIN p.words : p.words[k] \notin Unresolved

\* The words that are known, prefixes included.
Known(p) == IF StaticWords(p) THEN p.words ELSE <<>>

\* What a leaf that is made of the parts p is like.
IsLeaf(n, p) ==
  /\ IsNode(n) /\ n.children = p.subs /\ n.below = Under(p.subs)
  /\ n.head = IF p.words # <<>> /\ p.words[1] \notin Unresolved
              THEN p.words[1] ELSE ""
  /\ n.confidence = "high" => p.confidence = "high" /\ p.subs = <<>>
  /\ n.argv = IF Known(p) = <<>> \/ Known(p)[1] \notin COMPOUND_PREFIXES
              THEN Known(p) ELSE Unwrap(Known(p))
  /\ n.argv # <<>> => n.resolved
  /\ Len(n.argv) <= Len(p.words)
  /\ \A m \in DOMAIN n.argv : \E k \in DOMAIN p.words : n.argv[m] = p.words[k]

LEMMA LeafIs ==
  ASSUME NEW t, NEW i \in Nat, NEW p, IsParts(p, t, i)
  PROVE  IsLeaf(Leaf(p), p)
<1> DEFINE head == IF p.words # <<>> /\ p.words[1] \notin Unresolved THEN p.words[1] ELSE ""
           c == IF p.subs # <<>> THEN mergeConfidence({p.confidence, "low"}) ELSE p.confidence
           n0 == [Unknown EXCEPT
             !.argv = Known(p), !.resolved = StaticWords(p), !.head = head,
             !.redirects = p.redirects, !.children = p.subs, !.below = Under(p.subs),
             !.confidence = c]
           n == Leaf(p)
<1>0. /\ p.words \in Seq(STRING) /\ p.confidence \in Levels3 /\ IsList(p.subs)
      /\ Known(p) \in Seq(STRING) /\ StaticWords(p) \in BOOLEAN
  <2>1. p.words \in Seq(STRING) /\ p.confidence \in Levels3 /\ IsList(p.subs)
    BY DEF IsParts
  <2>2. <<>> \in Seq(STRING)
    OBVIOUS
  <2> QED BY <2>1, <2>2 DEF Known, StaticWords
<1>1. n = unwrapCompoundPrefixes(n0)
  BY DEF Leaf, Known, StaticWords
<1>2. c \in Levels3 /\ (c = "high" => p.confidence = "high" /\ p.subs = <<>>)
  <2> DEFINE C == {p.confidence, "low"}
  <2>1. C \in SUBSET Levels3 /\ "low" \in C
    BY <1>0 DEF Levels3
  <2> HIDE DEF C
  <2>2. mergeConfidence(C) \in Levels3 /\ mergeConfidence(C) # "high"
    BY <2>1, MergeIs
  <2> QED BY <2>2, <1>0 DEF C
<1> HIDE DEF c, head
<1>3. /\ IsNode(n0) /\ n0.children = p.subs /\ n0.below = Under(p.subs) /\ n0.head = head
      /\ n0.confidence = c /\ n0.argv = Known(p) /\ n0.resolved = StaticWords(p)
  BY <1>0, <1>2 DEF IsNode, Unknown
<1>4. Known(p) # <<>> => StaticWords(p)
  BY DEF Known
<1>5. /\ Len(Known(p)) <= Len(p.words)
      /\ \A m \in DOMAIN Known(p) : \E k \in DOMAIN p.words : Known(p)[m] = p.words[k]
  <2>1. Len(p.words) \in Nat /\ Len(<<>>) = 0 /\ DOMAIN <<>> = {}
    BY <1>0, LenProperties
  <2> QED BY <2>1 DEF Known
<1> HIDE DEF n0
<1>6. CASE n0.argv = <<>> \/ n0.argv[1] \notin COMPOUND_PREFIXES
  <2>1. n = n0
    BY <1>1, <1>6 DEF unwrapCompoundPrefixes
  <2> HIDE DEF n
  <2> QED BY <2>1, <1>2, <1>3, <1>4, <1>5, <1>6 DEF n, head, IsLeaf
<1>7. CASE ~(n0.argv = <<>> \/ n0.argv[1] \notin COMPOUND_PREFIXES)
  <2> DEFINE u == Unwrap(Known(p))
  <2>1. n = [n0 EXCEPT !.argv = u, !.resolved = u # <<>>]
    BY <1>1, <1>3, <1>7 DEF unwrapCompoundPrefixes
  <2>2. PICK q \in 1 .. Len(Known(p)) + 1 : u = SubSeq(Known(p), q, Len(Known(p)))
    BY <1>0, UnwrapSuffix
  <2>3. /\ u \in Seq(STRING) /\ Len(u) = Len(Known(p)) + 1 - q
        /\ \A k \in 1 .. Len(u) : u[k] = Known(p)[q + k - 1]
    BY <1>0, <2>2, SuffixIs
  <2>4. Len(Known(p)) \in Nat /\ Len(p.words) \in Nat /\ Len(u) \in Nat
        /\ DOMAIN u = 1 .. Len(u) /\ DOMAIN Known(p) = 1 .. Len(Known(p))
    <3> HIDE DEF u
    <3> QED BY <1>0, <2>3, LenProperties
  <2> HIDE DEF u, n
  <2>5. /\ IsNode(n) /\ n.children = p.subs /\ n.below = Under(p.subs) /\ n.head = head
        /\ n.confidence = c /\ n.argv = u /\ n.resolved = (u # <<>>)
    BY <1>3, <2>1, <2>3 DEF IsNode
  <2>6. Len(u) <= Len(p.words)
    BY <2>2, <2>3, <2>4, <1>5
  <2>7. ASSUME NEW m \in DOMAIN u PROVE \E k \in DOMAIN p.words : u[m] = p.words[k]
    <3>1. q + m - 1 \in DOMAIN Known(p) /\ m \in 1 .. Len(u)
      BY <2>2, <2>3, <2>4
    <3> QED BY <3>1, <2>3, <1>5
  <2>8. n.argv = Unwrap(Known(p))
    BY <2>5 DEF u
  <2> QED BY <2>5, <2>6, <2>7, <2>8, <1>2, <1>3, <1>7 DEF n, head, IsLeaf
<1> QED BY <1>6, <1>7

\* A body comes from a command of three words or more.
LEMMA InlineBodyIs ==
  ASSUME NEW n, IsNode(n), InlineBody(n) # <<>>
  PROVE  /\ Len(n.argv) >= 3
         /\ \E m \in DOMAIN n.argv :
              InlineBody(n) = IF n.argv[m] = "script" THEN Script
                              ELSE <<[kind |-> "word", w |-> n.argv[m]]>>
<1> DEFINE len == Len(n.argv)
           flags == {i \in 2 .. len - 1 : n.argv[i] = "-c"}
<1>0. n.argv \in Seq(STRING) /\ len \in Nat /\ DOMAIN n.argv = 1 .. len
  <2>1. n.argv \in Seq(STRING)
    BY DEF IsNode
  <2> QED BY <2>1, LenProperties
<1>1. flags # {} /\ InlineBody(n) = IF n.argv[Min(flags) + 1] = "script" THEN Script
                                    ELSE <<[kind |-> "word", w |-> n.argv[Min(flags) + 1]]>>
  BY DEF InlineBody
<1>2. flags \in SUBSET Nat /\ flags \in SUBSET (2 .. len - 1)
  BY <1>0
<1> DEFINE m == Min(flags)
<1>3. m \in flags
  <2> HIDE DEF flags
  <2> QED BY <1>1, <1>2, MinIs
<1>4. m + 1 \in DOMAIN n.argv /\ len >= 3
  <2> HIDE DEF m
  <2> QED BY <1>0, <1>2, <1>3
<1> HIDE DEF flags
<1> QED BY <1>1, <1>4

\* n is the command that is made of the leaf.
CommandOf(n, leaf) ==
  /\ IsNode(n)
  /\ n.argv = leaf.argv /\ n.head = leaf.head /\ n.resolved = leaf.resolved
  /\ NameIndicators(IF n.argv # <<>> THEN n.argv[1] ELSE n.head) \subseteq n.indicators
  /\ n.confidence = "high" => leaf.confidence = "high"
  /\ \A k \in DOMAIN leaf.children : /\ leaf.children[k].indicators \subseteq n.indicators
                                     /\ Nodes(leaf.children[k]) \subseteq Nodes(n)

LEMMA CommandIs ==
  ASSUME NEW leaf, IsNode(leaf), IsList(leaf.children), leaf.below = Under(leaf.children),
         NEW body, NEW inner, body # <<>> => IsNode(inner)
  PROVE  CommandOf(WithIndicators(IF body = <<>> THEN leaf
                                  ELSE maybeUnwrapInlineDashC(leaf, inner)), leaf)
<1> DEFINE m == IF body = <<>> THEN leaf ELSE maybeUnwrapInlineDashC(leaf, inner)
           n == WithIndicators(m)
           kids == leaf.children
<1>0. Len(kids) \in Nat /\ DOMAIN kids = 1 .. Len(kids)
  BY ListDomain
<1>1. /\ IsNode(m) /\ m.argv = leaf.argv /\ m.head = leaf.head /\ m.resolved = leaf.resolved
      /\ Under(kids) \subseteq m.below
      /\ m.confidence = "high" => leaf.confidence = "high"
      /\ \A k \in DOMAIN kids : \E j \in DOMAIN m.children : m.children[j] = kids[k]
  <2>1. CASE body = <<>>
    BY <2>1
  <2>2. CASE body # <<>>
    <3> DEFINE C == {leaf.confidence, inner.confidence}
               list == <<inner>> \o kids
               below == leaf.below \cup Nodes(inner)
               c == mergeConfidence(C)
    <3>1. m = [leaf EXCEPT !.children = list, !.below = below, !.confidence = c]
      BY <2>2 DEF maybeUnwrapInlineDashC
    <3>2. C \in SUBSET Levels3 /\ leaf.confidence \in C
      BY <2>2 DEF IsNode
    <3> HIDE DEF C
    <3>3. c \in Levels3 /\ (c = "high" => leaf.confidence = "high")
      BY <3>2, MergeIs
    <3>4. Len(list) = Len(kids) + 1 /\ IsList(list) /\ \A k \in 1 .. Len(kids) : list[k + 1] = kids[k]
      BY <2>2, ConsList
    <3> HIDE DEF list, c, m
    <3>5. DOMAIN list = 1 .. Len(list)
      BY <3>4, ListDomain
    <3>6. \A k \in DOMAIN kids : k + 1 \in DOMAIN list /\ list[k + 1] = kids[k]
      BY <1>0, <3>4, <3>5
    <3>7. /\ IsNode(m) /\ m.argv = leaf.argv /\ m.head = leaf.head /\ m.resolved = leaf.resolved
          /\ m.children = list /\ m.below = below /\ m.confidence = c
      BY <3>1, <3>3 DEF IsNode
    <3> QED BY <3>3, <3>6, <3>7
  <2> QED BY <2>1, <2>2
<1> HIDE DEF m
<1> DEFINE ind == indicatorsForLeaf(m) \cup Inherited(m.children) \cup combineChildrenIndicators(m)
<1>2. n = [m EXCEPT !.indicators = ind]
  BY DEF WithIndicators
<1> HIDE DEF n
<1>3. /\ IsNode(n) /\ n.argv = m.argv /\ n.head = m.head /\ n.resolved = m.resolved
      /\ n.below = m.below /\ n.confidence = m.confidence /\ n.indicators = ind
  BY <1>1, <1>2 DEF IsNode
<1>4. NameIndicators(IF m.argv # <<>> THEN m.argv[1] ELSE m.head) \subseteq indicatorsForLeaf(m)
  BY DEF indicatorsForLeaf
<1>5. ASSUME NEW k \in DOMAIN kids
      PROVE  kids[k].indicators \subseteq n.indicators /\ Nodes(kids[k]) \subseteq Nodes(n)
  <2>1. PICK j \in DOMAIN m.children : m.children[j] = kids[k]
    BY <1>1
  <2>2. kids[k].indicators \subseteq Inherited(m.children)
    BY <2>1, InheritedIs
  <2>3. Nodes(kids[k]) \subseteq Under(kids)
    BY InheritedIs
  <2>4. Nodes(n) = {n} \cup m.below
    BY <1>3 DEF Nodes
  <2> QED BY <2>2, <2>3, <2>4, <1>1, <1>3
<1>6. NameIndicators(IF n.argv # <<>> THEN n.argv[1] ELSE n.head) \subseteq n.indicators
  BY <1>3, <1>4
<1> QED BY <1>1, <1>3, <1>5, <1>6 DEF n, m, CommandOf

(***************************************************************************)
(* The parser is well founded: each rule calls others that are farther on  *)
(* in the tokens, or lower in the grammar at the same place, or at work on *)
(* an inline body.                                                         *)
(***************************************************************************)
Left(t, i) == IF i <= Len(t) THEN Len(t) + 1 - i ELSE 0

RuleRank(g) ==
  IF g = "sequence" THEN 4 ELSE IF g = "segments" THEN 3 ELSE IF g = "stages" THEN 2
  ELSE IF g = "command" THEN 1 ELSE 0

\* More than any place in an inline body counts, and the bodies that t may hold.
Weight == 5 * Len(Script) + 15
Bodies(t) ==
  IF Len(t) <= 1 THEN 0
  ELSE IF \E i \in DOMAIN t : t[i].w = "script" THEN 2 * Weight ELSE Weight

Mu(g, t, i) == Bodies(t) + 5 * Left(t, i) + RuleRank(g)

\* Where a rule that starts at position i may stop.
Past(t, i, j) == j \in Nat /\ i <= j /\ (j = i \/ j <= Len(t) + 1)

\* What a rule returns.
Good(g, t, i, r) ==
  CASE g \in {"sequence", "command"} ->
         r = [node |-> r.node, i |-> r.i] /\ IsNode(r.node) /\ Past(t, i, r.i)
    [] g \in {"segments", "stages"} ->
         /\ r = [nodes |-> r.nodes, i |-> r.i] /\ IsList(r.nodes) /\ Past(t, i, r.i)
         /\ g = "stages" => r.nodes # <<>>
    [] g = "redirects" -> Past(t, i, r)
    [] OTHER -> IsParts(r, t, i) /\ Past(t, i, r.i)

Sane(f, g, t, i) ==
  \A h \in Grammar, u \in Seq(Token), j \in Nat :
    Mu(h, u, j) < Mu(g, t, i) => Good(h, u, j, f[<<h, u, j>>])

Agree(e, f, g, t, i) ==
  \A h \in Grammar, u \in Seq(Token), j \in Nat :
    Mu(h, u, j) < Mu(g, t, i) => e[<<h, u, j>>] = f[<<h, u, j>>]

LEMMA WeightIs == Weight \in Nat /\ Len(Script) \in Nat /\ Weight = 5 * Len(Script) + 15
  BY ShellAssumption, LenProperties DEF Weight

LEMMA BodiesIs ==
  ASSUME NEW t
  PROVE  Bodies(t) \in Nat
BY WeightIs DEF Bodies

LEMMA MuIs ==
  ASSUME NEW g, NEW t \in Seq(Token), NEW i \in Nat
  PROVE  Mu(g, t, i) \in Nat /\ Left(t, i) \in Nat /\ RuleRank(g) \in 0 .. 4
<1>1. Len(t) \in Nat
  BY LenProperties
<1>2. Left(t, i) \in Nat /\ RuleRank(g) \in 0 .. 4
  BY <1>1 DEF Left, RuleRank
<1> QED BY <1>2, BodiesIs DEF Mu

LEMMA KindIs ==
  ASSUME NEW t \in Seq(Token), NEW i \in Nat
  PROVE  /\ Kind(t, i) = "none" <=> i \notin 1 .. Len(t)
         /\ i \in 1 .. Len(t) => /\ Kind(t, i) = t[i].kind /\ t[i] \in Token
                                 /\ i \in DOMAIN t /\ i + 1 \in Nat
         /\ Len(t) \in Nat /\ DOMAIN t = 1 .. Len(t)
<1>1. Len(t) \in Nat /\ DOMAIN t = 1 .. Len(t)
  BY LenProperties
<1>2. i \in 1 .. Len(t) => t[i] \in Token
  BY <1>1, ElementOfSeq
<1>3. i \in 1 .. Len(t) => t[i].kind # "none"
  BY <1>2 DEF Token, TokenKind
<1> QED BY <1>1, <1>2, <1>3 DEF Kind

LEMMA FartherOn ==
  ASSUME NEW t \in Seq(Token), NEW i \in 0 .. Len(t), NEW j \in Nat, i < j, NEW g, NEW h
  PROVE  Mu(h, t, j) < Mu(g, t, i)
<1> DEFINE a == Left(t, i)
           b == Left(t, j)
           r == RuleRank(g)
           s == RuleRank(h)
           bodies == Bodies(t)
<1>1. Len(t) \in Nat /\ i \in Nat
  BY LenProperties
<1>2. b + 1 <= a
  BY <1>1 DEF Left
<1>3. a \in Nat /\ b \in Nat /\ r \in 0 .. 4 /\ s \in 0 .. 4 /\ bodies \in Nat
  BY <1>1, MuIs, BodiesIs
<1>4. Mu(h, t, j) = bodies + 5 * b + s /\ Mu(g, t, i) = bodies + 5 * a + r
  BY DEF Mu
<1> HIDE DEF a, b, r, s, bodies
<1> QED BY <1>2, <1>3, <1>4

LEMMA LowerRule ==
  ASSUME NEW t \in Seq(Token), NEW i \in Nat, NEW g, NEW h, RuleRank(h) < RuleRank(g)
  PROVE  Mu(h, t, i) < Mu(g, t, i)
<1>1. /\ Left(t, i) \in Nat /\ RuleRank(g) \in 0 .. 4 /\ RuleRank(h) \in 0 .. 4 /\ Bodies(t) \in Nat
  BY MuIs, BodiesIs
<1> QED BY <1>1 DEF Mu

\* Where the next token is looked for.
LEMMA NextPlace ==
  ASSUME NEW t \in Seq(Token), NEW i \in 1 .. Len(t)
  PROVE  /\ Past(t, i, i + 1)
         /\ Past(t, i, AfterRedirect(t, i)) /\ i < AfterRedirect(t, i)
         /\ Past(t, i, AfterHeredoc(t, i)) /\ i < AfterHeredoc(t, i)
<1>1. Len(t) \in Nat /\ i \in Nat /\ i + 1 \in Nat /\ i + 2 \in Nat
  BY LenProperties
<1>2. HasTarget(t, i) => i + 1 <= Len(t)
  BY <1>1, KindIs DEF HasTarget
<1>3. Kind(t, i + 2) = "word" => i + 2 <= Len(t)
  BY <1>1, KindIs
<1> QED BY <1>1, <1>2, <1>3 DEF Past, AfterRedirect, AfterHeredoc

LEMMA ClosePlace ==
  ASSUME NEW t \in Seq(Token), NEW i \in Nat, NEW j, Past(t, i, j)
  PROVE  Past(t, i, Close(t, j))
<1>1. j \in Nat /\ Len(t) \in Nat
  BY LenProperties DEF Past
<1>2. Kind(t, j) = "rparen" => j <= Len(t)
  BY <1>1, KindIs
<1> QED BY <1>1, <1>2 DEF Past, Close

LEMMA PastTrans ==
  ASSUME NEW t \in Seq(Token), NEW i \in Nat, NEW j, NEW k, Past(t, i, j), Past(t, j, k)
  PROVE  Past(t, i, k)
BY LenProperties DEF Past

\* What the rules get from what they call.
LEMMA Called ==
  ASSUME NEW e, NEW f, NEW g \in Grammar, NEW t \in Seq(Token), NEW i \in Nat,
         Sane(f, g, t, i), Agree(e, f, g, t, i),
         NEW h \in Grammar, NEW u \in Seq(Token), NEW j \in Nat, Mu(h, u, j) < Mu(g, t, i)
  PROVE  e[<<h, u, j>>] = f[<<h, u, j>>] /\ Good(h, u, j, f[<<h, u, j>>])
BY DEF Sane, Agree

LEMMA IsGrammar ==
  /\ "sequence" \in Grammar /\ "segments" \in Grammar /\ "stages" \in Grammar
  /\ "command" \in Grammar /\ "redirects" \in Grammar /\ "prefix" \in Grammar
  /\ "words" \in Grammar
BY DEF Grammar

\* Each rule: it depends on what it calls alone, and returns what it should.
LEMMA SequenceRule ==
  ASSUME NEW e, NEW f, NEW t \in Seq(Token), NEW i \in Nat,
         Sane(f, "sequence", t, i), Agree(e, f, "sequence", t, i)
  PROVE  /\ parseSequence(e, t, i) = parseSequence(f, t, i)
         /\ Good("sequence", t, i, parseSequence(f, t, i))
<1> DEFINE s == f[<<"segments", t, i>>]
<1>1. Mu("segments", t, i) < Mu("sequence", t, i)
  BY LowerRule DEF RuleRank
<1>2. e[<<"segments", t, i>>] = s /\ Good("segments", t, i, s)
  BY <1>1, Called, IsGrammar
<1>3. IsList(s.nodes) /\ Past(t, i, s.i)
  BY <1>2 DEF Good
<1>4. IsNode(Sequence(s.nodes))
  BY <1>3, SequenceIs
<1>5. parseSequence(f, t, i) = [node |-> Sequence(s.nodes), i |-> s.i]
  BY DEF parseSequence
<1>6. parseSequence(e, t, i) = [node |-> Sequence(s.nodes), i |-> s.i]
  BY <1>2 DEF parseSequence
<1> HIDE DEF s
<1> QED BY <1>3, <1>4, <1>5, <1>6 DEF Good

LEMMA SegmentsRule ==
  ASSUME NEW e, NEW f, NEW t \in Seq(Token), NEW i \in Nat,
         Sane(f, "segments", t, i), Agree(e, f, "segments", t, i)
  PROVE  /\ Segments(e, t, i) = Segments(f, t, i)
         /\ Good("segments", t, i, Segments(f, t, i))
<1>1. CASE Kind(t, i) \in {"none", "rparen"}
  <2>1. Segments(e, t, i) = [nodes |-> <<>>, i |-> i] /\ Segments(f, t, i) = [nodes |-> <<>>, i |-> i]
    BY <1>1 DEF Segments
  <2> QED BY <2>1, EmptyList DEF Good, Past
<1>2. ASSUME Kind(t, i) \notin {"none", "rparen"} PROVE i \in 1 .. Len(t) /\ Past(t, i, i + 1)
  <2>1. i \in 1 .. Len(t)
    BY <1>2, KindIs
  <2> QED BY <2>1, NextPlace
<1>3. CASE Kind(t, i) \notin {"none", "rparen"} /\ Kind(t, i) \in Separators \cup {"comment"}
  <2> DEFINE r == f[<<"segments", t, i + 1>>]
  <2>1. Mu("segments", t, i + 1) < Mu("segments", t, i)
    BY <1>2, <1>3, FartherOn
  <2>2. e[<<"segments", t, i + 1>>] = r /\ Good("segments", t, i + 1, r)
    BY <2>1, Called, IsGrammar
  <2>3. Segments(f, t, i) = r /\ Segments(e, t, i) = r
    BY <1>3, <2>2 DEF Segments
  <2> HIDE DEF r
  <2>4. r = [nodes |-> r.nodes, i |-> r.i] /\ IsList(r.nodes) /\ Past(t, i + 1, r.i)
    BY <2>2 DEF Good
  <2>5. Past(t, i, r.i)
    BY <1>2, <1>3, <2>4, PastTrans
  <2> QED BY <2>3, <2>4, <2>5 DEF Good
<1>4. CASE Kind(t, i) \notin {"none", "rparen"} /\ Kind(t, i) \notin Separators \cup {"comment"}
  <2> DEFINE p == f[<<"stages", t, i>>]
             again == Kind(t, p.i) \in Separators
             s == f[<<"segments", t, p.i + 1>>]
             rest == IF again THEN s ELSE [nodes |-> <<>>, i |-> p.i]
  <2>1. Mu("stages", t, i) < Mu("segments", t, i)
    BY LowerRule DEF RuleRank
  <2>2. e[<<"stages", t, i>>] = p /\ Good("stages", t, i, p)
    BY <2>1, Called, IsGrammar
  <2>3. IsList(p.nodes) /\ Past(t, i, p.i) /\ p.nodes # <<>>
    BY <2>2 DEF Good
  <2>4. p.i \in Nat /\ i <= p.i
    BY <2>3 DEF Past
  <2>5. IsNode(Pipeline(p.nodes))
    BY <2>3, PipelineIs
  <2>6. ASSUME again
        PROVE  e[<<"segments", t, p.i + 1>>] = s /\ IsList(s.nodes) /\ Past(t, p.i, s.i)
    <3>1. p.i \in 1 .. Len(t)
      BY <2>4, <2>6, KindIs DEF Separators
    <3>2. Mu("segments", t, p.i + 1) < Mu("segments", t, i)
      BY <1>2, <1>4, <2>4, FartherOn
    <3>3. e[<<"segments", t, p.i + 1>>] = s /\ Good("segments", t, p.i + 1, s)
      BY <3>2, <2>4, Called, IsGrammar
    <3>4. IsList(s.nodes) /\ Past(t, p.i + 1, s.i)
      BY <3>3 DEF Good
    <3> HIDE DEF s
    <3> QED BY <3>1, <3>3, <3>4, <2>4, NextPlace, PastTrans
  <2>7. IsList(rest.nodes) /\ Past(t, p.i, rest.i)
    <3>1. CASE again
      BY <2>6, <3>1
    <3>2. CASE ~again
      BY <2>4, <3>2, EmptyList DEF Past
    <3> QED BY <3>1, <3>2
  <2>8. Past(t, i, rest.i)
    <3> HIDE DEF rest, p
    <3> QED BY <2>3, <2>7, PastTrans
  <2>9. Segments(f, t, i) = [nodes |-> <<Pipeline(p.nodes)>> \o rest.nodes, i |-> rest.i]
    BY <1>4 DEF Segments
  <2>10. Segments(e, t, i) = [nodes |-> <<Pipeline(p.nodes)>> \o rest.nodes, i |-> rest.i]
    <3>1. CASE again
      BY <1>4, <2>2, <2>6, <3>1 DEF Segments
    <3>2. CASE ~again
      BY <1>4, <2>2, <3>2 DEF Segments
    <3> QED BY <3>1, <3>2
  <2> DEFINE list == <<Pipeline(p.nodes)>> \o rest.nodes
  <2>11. IsList(list)
    <3> HIDE DEF rest, p
    <3> QED BY <2>5, <2>7, ConsList
  <2> HIDE DEF list, rest, p
  <2> QED BY <2>8, <2>9, <2>10, <2>11 DEF Good, list
<1> QED BY <1>1, <1>3, <1>4

LEMMA StagesRule ==
  ASSUME NEW e, NEW f, NEW t \in Seq(Token), NEW i \in Nat,
         Sane(f, "stages", t, i), Agree(e, f, "stages", t, i)
  PROVE  /\ parsePipeline(e, t, i) = parsePipeline(f, t, i)
         /\ Good("stages", t, i, parsePipeline(f, t, i))
<1> DEFINE c == f[<<"command", t, i>>]
           again == Kind(t, c.i) = "pipe"
           s == f[<<"stages", t, c.i + 1>>]
           rest == IF again THEN s ELSE [nodes |-> <<>>, i |-> c.i]
           list == <<c.node>> \o rest.nodes
<1>1. Mu("command", t, i) < Mu("stages", t, i)
  BY LowerRule DEF RuleRank
<1>2. e[<<"command", t, i>>] = c /\ Good("command", t, i, c)
  BY <1>1, Called, IsGrammar
<1>3. IsNode(c.node) /\ Past(t, i, c.i)
  BY <1>2 DEF Good
<1>4. c.i \in Nat /\ i <= c.i /\ Len(t) \in Nat
  BY <1>3, LenProperties DEF Past
<1>5. ASSUME again
      PROVE  e[<<"stages", t, c.i + 1>>] = s /\ IsList(s.nodes) /\ Past(t, c.i, s.i)
  <2>1. c.i \in 1 .. Len(t)
    BY <1>4, <1>5, KindIs
  <2>2. i \in 0 .. Len(t)
    <3> HIDE DEF c
    <3> QED BY <1>4, <2>1
  <2>3. Mu("stages", t, c.i + 1) < Mu("stages", t, i)
    BY <1>4, <2>2, FartherOn
  <2>4. e[<<"stages", t, c.i + 1>>] = s /\ Good("stages", t, c.i + 1, s)
    BY <2>3, <1>4, Called, IsGrammar
  <2>5. IsList(s.nodes) /\ Past(t, c.i + 1, s.i)
    BY <2>4 DEF Good
  <2> HIDE DEF s
  <2> QED BY <2>1, <2>4, <2>5, <1>4, NextPlace, PastTrans
<1>6. IsList(rest.nodes) /\ Past(t, c.i, rest.i)
  <2>1. CASE again
    BY <1>5, <2>1
  <2>2. CASE ~again
    BY <1>4, <2>2, EmptyList DEF Past
  <2> QED BY <2>1, <2>2
<1>7. parsePipeline(f, t, i) = [nodes |-> list, i |-> rest.i]
  BY DEF parsePipeline
<1>8. parsePipeline(e, t, i) = [nodes |-> list, i |-> rest.i]
  <2>1. CASE again
    BY <1>2, <1>5, <2>1 DEF parsePipeline
  <2>2. CASE ~again
    BY <1>2, <2>2 DEF parsePipeline
  <2> QED BY <2>1, <2>2
<1> HIDE DEF c, rest
<1>9. Past(t, i, rest.i) /\ IsList(list) /\ list # <<>>
  BY <1>3, <1>6, PastTrans, ConsList
<1> HIDE DEF list
<1> QED BY <1>7, <1>8, <1>9 DEF Good

\* An inline body counts less than the command that it comes from.
LEMMA BodyIs ==
  ASSUME NEW t \in Seq(Token), NEW i \in Nat, NEW p, IsParts(p, t, i), Past(t, i, p.i),
         InlineBody(Leaf(p)) # <<>>
  PROVE  /\ InlineBody(Leaf(p)) \in Seq(Token)
         /\ Mu("sequence", InlineBody(Leaf(p)), 1) < Mu("command", t, i)
<1> DEFINE n == Leaf(p)
           body == InlineBody(n)
<1>1. /\ IsNode(n) /\ Len(n.argv) <= Len(p.words)
      /\ \A m \in DOMAIN n.argv : \E k \in DOMAIN p.words : n.argv[m] = p.words[k]
  <2>1. IsLeaf(n, p)
    BY LeafIs
  <2> QED BY <2>1 DEF IsLeaf
<1>2. Len(n.argv) >= 3 /\ \E m \in DOMAIN n.argv :
        body = IF n.argv[m] = "script" THEN Script ELSE <<[kind |-> "word", w |-> n.argv[m]]>>
  BY <1>1, InlineBodyIs
<1>3. n.argv \in Seq(STRING) /\ p.words \in Seq(STRING) /\ p.i \in Nat /\ Len(t) \in Nat
  BY <1>1, LenProperties DEF IsNode, IsParts
<1>4. PICK m \in DOMAIN n.argv :
        body = IF n.argv[m] = "script" THEN Script ELSE <<[kind |-> "word", w |-> n.argv[m]]>>
  BY <1>2
<1>5. PICK k \in DOMAIN t : n.argv[m] = t[k].w
  BY <1>1, <1>4 DEF IsParts
<1>6. n.argv[m] \in STRING
  <2> HIDE DEF n
  <2> QED BY <1>3, ElementOfSeq, LenProperties
<1>7. Len(t) >= 2
  <2>1. Len(n.argv) \in Nat /\ Len(p.words) \in Nat
    BY <1>3, LenProperties
  <2>2. Len(p.words) + i <= p.i
    BY DEF IsParts
  <2> HIDE DEF n
  <2> QED BY <1>1, <1>2, <1>3, <2>1, <2>2 DEF Past
<1>8. Mu("command", t, i) >= Bodies(t) /\ Mu("command", t, i) \in Nat
  <2>1. Left(t, i) \in Nat /\ RuleRank("command") \in 0 .. 4 /\ Bodies(t) \in Nat
    BY MuIs, BodiesIs
  <2> QED BY <2>1 DEF Mu
<1> HIDE DEF n
<1>9. CASE n.argv[m] = "script"
  <2>1. body = Script
    BY <1>4, <1>9
  <2>2. Bodies(t) = 2 * Weight
    <3>1. ~(Len(t) <= 1)
      BY <1>3, <1>7
    <3>2. \E j \in DOMAIN t : t[j].w = "script"
      BY <1>5, <1>9
    <3> QED BY <3>1, <3>2 DEF Bodies
  <2>3. Bodies(Script) <= Weight
    BY ShellAssumption, WeightIs DEF Bodies
  <2>4. Left(Script, 1) <= Len(Script) /\ Left(Script, 1) \in Nat
    BY WeightIs DEF Left
  <2>5. Mu("sequence", Script, 1) = Bodies(Script) + 5 * Left(Script, 1) + 4
    BY DEF Mu, RuleRank
  <2>6. Mu("sequence", Script, 1) < 2 * Weight
    <3> DEFINE l == Left(Script, 1)
               b == Bodies(Script)
               w == Weight
               s == Len(Script)
    <3>1. b \in Nat /\ w \in Nat /\ s \in Nat /\ w = 5 * s + 15 /\ l \in Nat /\ l <= s /\ b <= w
      BY <2>3, <2>4, WeightIs, BodiesIs
    <3>2. Mu("sequence", Script, 1) = b + 5 * l + 4
      BY <2>5
    <3> HIDE DEF l, b, w, s
    <3>3. b + 5 * l + 4 < 2 * w
      BY <3>1
    <3> QED BY <3>2, <3>3 DEF w
  <2>7. Mu("sequence", Script, 1) \in Nat
    BY ShellAssumption, MuIs
  <2>8. Weight \in Nat
    BY WeightIs
  <2> HIDE DEF body
  <2> QED BY <2>1, <2>2, <2>6, <2>7, <2>8, <1>8, ShellAssumption DEF body, n
<1>10. CASE n.argv[m] # "script"
  <2> DEFINE tok == [kind |-> "word", w |-> n.argv[m]]
  <2>1. body = <<tok>>
    BY <1>4, <1>10
  <2>2. tok \in Token
    BY <1>6 DEF Token, TokenKind
  <2> HIDE DEF tok
  <2>3. <<tok>> \in Seq(Token) /\ Len(<<tok>>) = 1
    BY <2>2
  <2>4. Mu("sequence", <<tok>>, 1) = 9
    BY <2>3 DEF Mu, Bodies, RuleRank, Left
  <2>5. Bodies(t) >= Weight
    BY <1>7, <1>3, WeightIs DEF Bodies
  <2>6. Weight >= 15 /\ Weight \in Nat /\ Bodies(t) \in Nat
    BY WeightIs, BodiesIs
  <2> HIDE DEF body
  <2> QED BY <2>1, <2>3, <2>4, <2>5, <2>6, <1>8 DEF body, n
<1> QED BY <1>9, <1>10

LEMMA RedirectsRule ==
  ASSUME NEW e, NEW f, NEW t \in Seq(Token), NEW i \in Nat,
         Sane(f, "redirects", t, i), Agree(e, f, "redirects", t, i)
  PROVE  /\ Redirects(e, t, i) = Redirects(f, t, i)
         /\ Good("redirects", t, i, Redirects(f, t, i))
<1>1. CASE Kind(t, i) = "redirect"
  <2> DEFINE j == AfterRedirect(t, i)
             r == f[<<"redirects", t, j>>]
  <2>1. i \in 1 .. Len(t) /\ Len(t) \in Nat
    BY <1>1, KindIs
  <2>2. Past(t, i, j) /\ i < j
    BY <2>1, NextPlace
  <2>3. j \in Nat
    BY <2>2 DEF Past
  <2> HIDE DEF j
  <2>4. Mu("redirects", t, j) < Mu("redirects", t, i)
    BY <2>1, <2>2, <2>3, FartherOn
  <2>5. e[<<"redirects", t, j>>] = r /\ Good("redirects", t, j, r)
    BY <2>3, <2>4, Called, IsGrammar
  <2>6. Redirects(f, t, i) = r /\ Redirects(e, t, i) = r
    BY <1>1, <2>5 DEF Redirects, j
  <2>7. Past(t, j, r)
    BY <2>5 DEF Good
  <2> HIDE DEF r
  <2>8. Past(t, i, r)
    BY <2>2, <2>7, PastTrans
  <2> QED BY <2>6, <2>8 DEF Good
<1>2. CASE Kind(t, i) # "redirect"
  BY <1>2 DEF Redirects, Good, Past
<1> QED BY <1>1, <1>2

LEMMA SubshellRule ==
  ASSUME NEW e, NEW f, NEW t \in Seq(Token), NEW i \in Nat, Kind(t, i) = "lparen",
         Sane(f, "command", t, i), Agree(e, f, "command", t, i)
  PROVE  /\ Subshell(e, t, i) = Subshell(f, t, i)
         /\ Good("command", t, i, Subshell(f, t, i))
<1> DEFINE inner == f[<<"sequence", t, i + 1>>]
           c == Close(t, inner.i)
           r == f[<<"redirects", t, c>>]
           n == Parent(<<inner.node>>, "subshell")
<1>1. i \in 1 .. Len(t) /\ Len(t) \in Nat
  BY KindIs
<1>2. Mu("sequence", t, i + 1) < Mu("command", t, i)
  BY <1>1, FartherOn
<1>3. e[<<"sequence", t, i + 1>>] = inner /\ Good("sequence", t, i + 1, inner)
  BY <1>2, Called, IsGrammar
<1>4. IsNode(inner.node) /\ Past(t, i + 1, inner.i)
  BY <1>3 DEF Good
<1>5. Past(t, i + 1, c) /\ c \in Nat /\ i < c
  <2>1. Past(t, i + 1, c)
    BY <1>4, ClosePlace
  <2> QED BY <2>1 DEF Past
<1>6. IsNode(n)
  <2>1. IsList(<<inner.node>>)
    <3>1. IsList(<<inner.node>> \o <<>>)
      BY <1>4, ConsList, EmptyList
    <3> QED BY <3>1
  <2> QED BY <2>1, ParentIs
<1>7. Subshell(f, t, i) = [node |-> n, i |-> r]
  BY DEF Subshell
<1>8. Subshell(e, t, i) = [node |-> n, i |-> e[<<"redirects", t, c>>]]
  BY <1>3 DEF Subshell
<1> HIDE DEF c, inner
<1>9. Mu("redirects", t, c) < Mu("command", t, i)
  BY <1>1, <1>5, FartherOn
<1>10. e[<<"redirects", t, c>>] = r /\ Good("redirects", t, c, r)
  BY <1>5, <1>9, Called, IsGrammar
<1>11. Past(t, c, r)
  BY <1>10 DEF Good
<1> HIDE DEF r, n
<1>12. Past(t, i, r)
  BY <1>1, <1>5, <1>11, NextPlace, PastTrans
<1> QED BY <1>6, <1>7, <1>8, <1>10, <1>12 DEF Good

LEMMA SimpleRule ==
  ASSUME NEW e, NEW f, NEW t \in Seq(Token), NEW i \in Nat,
         Sane(f, "command", t, i), Agree(e, f, "command", t, i)
  PROVE  /\ parseSimpleCommand(e, t, i) = parseSimpleCommand(f, t, i)
         /\ Good("command", t, i, parseSimpleCommand(f, t, i))
<1> DEFINE p == f[<<"prefix", t, i>>]
           leaf == Leaf(p)
           body == InlineBody(leaf)
           inner == f[<<"sequence", body, 1>>]
           n == WithIndicators(IF body = <<>> THEN leaf
                               ELSE maybeUnwrapInlineDashC(leaf, inner.node))
<1>1. Mu("prefix", t, i) < Mu("command", t, i)
  BY LowerRule DEF RuleRank
<1>2. e[<<"prefix", t, i>>] = p /\ Good("prefix", t, i, p)
  BY <1>1, Called, IsGrammar
<1>3. IsParts(p, t, i) /\ Past(t, i, p.i)
  BY <1>2 DEF Good
<1>4. parseSimpleCommand(f, t, i) = [node |-> n, i |-> p.i]
  BY DEF parseSimpleCommand
<1>5. parseSimpleCommand(e, t, i) =
        [node |-> WithIndicators(IF body = <<>> THEN leaf
                                 ELSE maybeUnwrapInlineDashC(leaf, e[<<"sequence", body, 1>>].node)),
         i |-> p.i]
  BY <1>2 DEF parseSimpleCommand
<1> HIDE DEF p
<1>6. ASSUME body # <<>>
      PROVE  e[<<"sequence", body, 1>>] = inner /\ IsNode(inner.node)
  <2>1. body \in Seq(Token) /\ Mu("sequence", body, 1) < Mu("command", t, i)
    BY <1>3, <1>6, BodyIs
  <2> HIDE DEF body
  <2>2. e[<<"sequence", body, 1>>] = inner /\ Good("sequence", body, 1, inner)
    BY <2>1, Called, IsGrammar
  <2> HIDE DEF inner
  <2> QED BY <2>2 DEF Good
<1>7. IsNode(leaf) /\ leaf.children = p.subs /\ leaf.below = Under(p.subs) /\ IsList(p.subs)
  <2>1. IsLeaf(leaf, p) /\ IsList(p.subs)
    <3>1. IsList(p.subs)
      BY <1>3 DEF IsParts
    <3> QED BY <1>3, <3>1, LeafIs
  <2> QED BY <2>1 DEF IsLeaf
<1> HIDE DEF leaf, body, inner
<1>8. IsNode(n)
  BY <1>6, <1>7, CommandIs DEF CommandOf
<1>9. parseSimpleCommand(e, t, i) = [node |-> n, i |-> p.i]
  BY <1>5, <1>6
<1> HIDE DEF n
<1> QED BY <1>3, <1>4, <1>8, <1>9 DEF Good
\* What is put in front of the parts that stand from position j on.
LEMMA AddedParts ==
  ASSUME NEW t \in Seq(Token), NEW i \in 1 .. Len(t), NEW j \in Nat, i < j,
         NEW p, IsParts(p, t, j)
  PROVE  /\ IsParts(p, t, i)
         /\ IsParts(AddRedirect(t, i, p), t, i) /\ AddRedirect(t, i, p).i = p.i
         /\ IsParts(AddHeredoc(t, i, p), t, i) /\ AddHeredoc(t, i, p).i = p.i
         /\ IsParts(AddAssignment(t[i], p), t, i) /\ AddAssignment(t[i], p).i = p.i
         /\ IsParts(AddUnexpected(p), t, i) /\ AddUnexpected(p).i = p.i
         /\ IsParts(AddWord(t[i], p), t, i) /\ AddWord(t[i], p).i = p.i
         /\ \A n : IsNode(n) =>
              LET q == [p EXCEPT !.subs = <<n>> \o @] IN IsParts(q, t, i) /\ q.i = p.i
<1> DEFINE Fields(q) == q \in [words : Seq(STRING), redirects : {q.redirects}, subs : {q.subs},
                               confidence : Levels3, assigned : BOOLEAN, i : Nat]
<1>1. Fields(p) /\ IsList(p.subs) /\ Len(p.words) + j <= p.i
      /\ \A m \in DOMAIN p.words : \E k \in DOMAIN t : p.words[m] = t[k].w
  BY DEF IsParts
<1>2. Len(p.words) \in Nat /\ DOMAIN p.words = 1 .. Len(p.words) /\ Len(p.words) + i + 1 <= p.i
  <2>1. Len(p.words) \in Nat /\ DOMAIN p.words = 1 .. Len(p.words)
    BY <1>1, LenProperties
  <2> QED BY <1>1, <2>1
<1>3. ASSUME NEW q, Fields(q), q.words = p.words, q.subs = p.subs, q.i = p.i
      PROVE  IsParts(q, t, i) /\ q.i = p.i
  <2>1. Len(p.words) + i <= p.i
    BY <1>1, <1>2
  <2>2. /\ Len(q.words) + i <= q.i /\ IsList(q.subs)
        /\ \A m \in DOMAIN q.words : \E k \in DOMAIN t : q.words[m] = t[k].w
    BY <1>1, <1>3, <2>1
  <2> QED BY <1>3, <2>2 DEF IsParts
<1>4. IsParts(p, t, i)
  BY <1>1, <1>3
<1> DEFINE low == Lower(p)
<1>5. Fields(low) /\ low.words = p.words /\ low.subs = p.subs /\ low.i = p.i
  <2> DEFINE C == {p.confidence, "low"}
             c == mergeConfidence(C)
  <2>1. C \in SUBSET Levels3
    BY <1>1 DEF Levels3
  <2> HIDE DEF C
  <2>2. c \in Levels3
    BY <2>1, MergeIs
  <2>3. low = [p EXCEPT !.confidence = c]
    BY DEF Lower, C
  <2> HIDE DEF c, low
  <2> QED BY <1>1, <2>2, <2>3
<1>6. IsParts(AddRedirect(t, i, p), t, i) /\ AddRedirect(t, i, p).i = p.i
  <2> DEFINE red == p.redirects \cup {[kind |-> t[i].w, to |-> t[i + 1].w]}
             q == [p EXCEPT !.redirects = red]
  <2>1. Fields(q) /\ q.words = p.words /\ q.subs = p.subs /\ q.i = p.i
    <3> HIDE DEF red
    <3> QED BY <1>1
  <2>2. AddRedirect(t, i, p) \in {q, low}
    BY DEF AddRedirect
  <2> HIDE DEF q, Fields, low
  <2> QED BY <2>1, <2>2, <1>3, <1>5
<1>11. IsParts(AddHeredoc(t, i, p), t, i) /\ AddHeredoc(t, i, p).i = p.i
  <2> DEFINE red == p.redirects \cup {[kind |-> t[i].w, to |-> t[i + 2].w]}
             q == [p EXCEPT !.redirects = red]
  <2>1. Fields(q) /\ q.words = p.words /\ q.subs = p.subs /\ q.i = p.i
    <3> HIDE DEF red
    <3> QED BY <1>1
  <2>2. AddHeredoc(t, i, p) \in {p, q}
    BY DEF AddHeredoc
  <2> HIDE DEF q, Fields
  <2> QED BY <2>1, <2>2, <1>3, <1>4
<1>7. IsParts(AddAssignment(t[i], p), t, i) /\ AddAssignment(t[i], p).i = p.i
  <2> DEFINE q == [low EXCEPT !.assigned = TRUE]
  <2>1. Fields(q) /\ q.words = p.words /\ q.subs = p.subs /\ q.i = p.i
    <3> HIDE DEF low
    <3> QED BY <1>5
  <2>2. AddAssignment(t[i], p) \in {p, q}
    BY DEF AddAssignment
  <2> HIDE DEF q, Fields, low
  <2> QED BY <2>1, <2>2, <1>3, <1>4
<1>8. IsParts(AddUnexpected(p), t, i) /\ AddUnexpected(p).i = p.i
  <2> DEFINE q == [p EXCEPT !.confidence = "unknown"]
  <2>1. Fields(q) /\ q.words = p.words /\ q.subs = p.subs /\ q.i = p.i
    BY <1>1 DEF Levels3
  <2>2. AddUnexpected(p) \in {p, q}
    BY DEF AddUnexpected
  <2> HIDE DEF q, Fields, low
  <2> QED BY <2>1, <2>2, <1>3, <1>4
<1>9. IsParts(AddWord(t[i], p), t, i) /\ AddWord(t[i], p).i = p.i
  <2> DEFINE w == t[i].w
             words == <<w>> \o p.words
             q == [p EXCEPT !.words = words]
             l == Lower(q)
             c == mergeConfidence({p.confidence, "low"})
  <2>1. i \in DOMAIN t /\ w \in STRING
    <3>1. i \in DOMAIN t /\ t[i] \in Token
      BY KindIs, LenProperties
    <3> QED BY <3>1 DEF Token
  <2>2. /\ words \in Seq(STRING) /\ Len(words) = Len(p.words) + 1 /\ words[1] = w
        /\ \A k \in 1 .. Len(p.words) : words[k + 1] = p.words[k]
    <3>1. words \in Seq(STRING \cup {w}) /\ Len(words) = Len(p.words) + 1 /\ words[1] = w
          /\ \A k \in 1 .. Len(p.words) : words[k + 1] = p.words[k]
      BY <1>1, Cons
    <3>2. STRING \cup {w} = STRING
      BY <2>1
    <3> QED BY <3>1, <3>2
  <2> HIDE DEF words, c
  <2>3. DOMAIN words = 1 .. Len(words)
    BY <2>2, LenProperties
  <2>4. \A m \in DOMAIN words : \E k \in DOMAIN t : words[m] = t[k].w
    <3> SUFFICES ASSUME NEW m \in 1 .. Len(words) PROVE \E k \in DOMAIN t : words[m] = t[k].w
      BY <2>3
    <3>1. CASE m = 1
      BY <2>1, <2>2, <3>1
    <3>2. CASE m # 1
      <4>1. m - 1 \in 1 .. Len(p.words) /\ words[m] = p.words[m - 1]
        <5>1. m - 1 \in 1 .. Len(p.words) /\ m - 1 + 1 = m
          BY <1>2, <2>2, <3>2
        <5> QED BY <2>2, <5>1
      <4> QED BY <1>1, <1>2, <4>1
    <3> QED BY <3>1, <3>2
  <2>5. q \in [words : Seq(STRING), redirects : {p.redirects}, subs : {p.subs},
               confidence : Levels3, assigned : BOOLEAN, i : Nat]
        /\ q.words = words /\ q.redirects = p.redirects /\ q.subs = p.subs /\ q.i = p.i
        /\ q.confidence = p.confidence
    BY <1>1, <2>2
  <2>6. c \in Levels3
    <3> DEFINE C == {p.confidence, "low"}
    <3>1. C \in SUBSET Levels3
      BY <1>1 DEF Levels3
    <3> HIDE DEF C
    <3> QED BY <3>1, MergeIs DEF C, c
  <2>7. l = [q EXCEPT !.confidence = c]
    BY <2>5 DEF Lower, c
  <2> HIDE DEF q, l
  <2>8. l \in [words : Seq(STRING), redirects : {p.redirects}, subs : {p.subs},
               confidence : Levels3, assigned : BOOLEAN, i : Nat]
        /\ l.words = words /\ l.redirects = p.redirects /\ l.subs = p.subs /\ l.i = p.i
    BY <2>5, <2>6, <2>7
  <2>9. IsParts(q, t, i)
    BY <2>5, <2>4, <2>2, <1>1, <1>2 DEF IsParts
  <2>10. IsParts(l, t, i)
    BY <2>8, <2>4, <2>2, <1>1, <1>2 DEF IsParts
  <2>11. AddWord(t[i], p) \in {q, l}
    BY DEF AddWord, q, l, words
  <2> QED BY <2>5, <2>8, <2>9, <2>10, <2>11
<1>10. ASSUME NEW n, IsNode(n)
       PROVE  LET q == [p EXCEPT !.subs = <<n>> \o @] IN IsParts(q, t, i) /\ q.i = p.i
  <2> DEFINE list == <<n>> \o p.subs
             q == [p EXCEPT !.subs = list]
  <2>1. IsList(list)
    BY <1>1, <1>10, ConsList
  <2>2. Fields(q) /\ q.words = p.words /\ q.subs = list /\ q.i = p.i
    <3> HIDE DEF list
    <3> QED BY <1>1
  <2> HIDE DEF list
  <2>3. IsParts(q, t, i) /\ q.i = p.i
    <3> HIDE DEF q
    <3> QED BY <2>1, <2>2, <1>1, <1>2 DEF IsParts
  <2> QED BY <2>3 DEF list
<1> QED BY <1>4, <1>6, <1>7, <1>8, <1>9, <1>10, <1>11

\* The parts after one token, or after a process substitution.
LEMMA PartsRule ==
  ASSUME NEW e, NEW f, NEW g \in {"prefix", "words"}, NEW t \in Seq(Token), NEW i \in Nat,
         Sane(f, g, t, i), Agree(e, f, g, t, i)
  PROVE  /\ Parts(e, g, t, i) = Parts(f, g, t, i)
         /\ Good(g, t, i, Parts(f, g, t, i))
<1>0. Len(t) \in Nat /\ (Kind(t, i) # "none" <=> i \in 1 .. Len(t)) /\ g \in Grammar
  BY KindIs, IsGrammar
<1>1. ASSUME NEW r, IsParts(r, t, i), Past(t, i, r.i) PROVE Good(g, t, i, r)
  BY <1>1 DEF Good
<1>2. ASSUME NEW h \in {"prefix", "words"}, NEW j \in Nat, i \in 1 .. Len(t), Past(t, i, j), i < j
      PROVE  /\ e[<<h, t, j>>] = f[<<h, t, j>>]
             /\ IsParts(f[<<h, t, j>>], t, j) /\ Past(t, i, f[<<h, t, j>>].i)
  <2> DEFINE r == f[<<h, t, j>>]
  <2>1. Mu(h, t, j) < Mu(g, t, i) /\ h \in Grammar
    BY <1>0, <1>2, FartherOn, IsGrammar
  <2>2. e[<<h, t, j>>] = r /\ Good(h, t, j, r)
    BY <1>0, <2>1, Called
  <2> HIDE DEF r
  <2>3. IsParts(r, t, j) /\ Past(t, j, r.i)
    BY <2>2 DEF Good
  <2>4. Past(t, i, r.i)
    BY <1>2, <2>3, PastTrans
  <2> QED BY <2>2, <2>3, <2>4 DEF r
<1>3. CASE Kind(t, i) \in Ends \cup {"none"}
  <2>1. Parts(e, g, t, i) = Nothing(i) /\ Parts(f, g, t, i) = Nothing(i)
    BY <1>3 DEF Parts, Ends, Separators
  <2>2. IsParts(Nothing(i), t, i) /\ Nothing(i).i = i
    BY EmptyList DEF Nothing, IsParts, Levels3
  <2>3. Past(t, i, i)
    BY DEF Past
  <2> QED BY <1>1, <2>1, <2>2, <2>3
<1>4. CASE Kind(t, i) \notin Ends \cup {"none"}
  <2>0. i \in 1 .. Len(t) /\ Past(t, i, i + 1) /\ i < i + 1 /\ i + 1 \in Nat
    BY <1>0, <1>4, NextPlace
  <2>1. CASE Kind(t, i) = "comment"
    <3>1. Parts(e, g, t, i) = e[<<g, t, i + 1>>] /\ Parts(f, g, t, i) = f[<<g, t, i + 1>>]
      BY <1>4, <2>1 DEF Parts
    <3> QED BY <1>1, <1>2, <2>0, <3>1, AddedParts
  <2>2. CASE Kind(t, i) = "redirect"
    <3> DEFINE j == AfterRedirect(t, i)
               r == f[<<g, t, j>>]
    <3>1. /\ Parts(e, g, t, i) = AddRedirect(t, i, e[<<g, t, j>>])
          /\ Parts(f, g, t, i) = AddRedirect(t, i, r)
      BY <1>4, <2>2 DEF Parts
    <3>2. j \in Nat /\ Past(t, i, j) /\ i < j
      BY <2>0, NextPlace DEF Past
    <3> HIDE DEF j
    <3>3. e[<<g, t, j>>] = r /\ IsParts(r, t, j) /\ Past(t, i, r.i)
      BY <1>2, <2>0, <3>2
    <3> HIDE DEF r
    <3>4. IsParts(AddRedirect(t, i, r), t, i) /\ AddRedirect(t, i, r).i = r.i
      BY <2>0, <3>2, <3>3, AddedParts
    <3> QED BY <1>1, <3>1, <3>3, <3>4 DEF r
  <2>3. CASE Kind(t, i) = "heredoc_marker"
    <3> DEFINE j == AfterHeredoc(t, i)
               r == f[<<g, t, j>>]
    <3>1. /\ Parts(e, g, t, i) = AddHeredoc(t, i, e[<<g, t, j>>])
          /\ Parts(f, g, t, i) = AddHeredoc(t, i, r)
      BY <1>4, <2>3 DEF Parts
    <3>2. j \in Nat /\ Past(t, i, j) /\ i < j
      BY <2>0, NextPlace DEF Past
    <3> HIDE DEF j
    <3>3. e[<<g, t, j>>] = r /\ IsParts(r, t, j) /\ Past(t, i, r.i)
      BY <1>2, <2>0, <3>2
    <3> HIDE DEF r
    <3>4. IsParts(AddHeredoc(t, i, r), t, i) /\ AddHeredoc(t, i, r).i = r.i
      BY <2>0, <3>2, <3>3, AddedParts
    <3> QED BY <1>1, <3>1, <3>3, <3>4 DEF r
  <2>4. CASE Kind(t, i) = "process_sub"
    <3> DEFINE inner == f[<<"sequence", t, i + 1>>]
               j == Close(t, inner.i)
               r == f[<<g, t, j>>]
               n == [inner.node EXCEPT !.op = "process_sub"]
               q == [r EXCEPT !.subs = <<n>> \o @]
    <3>1. Mu("sequence", t, i + 1) < Mu(g, t, i)
      BY <2>0, <1>0, FartherOn
    <3>2. e[<<"sequence", t, i + 1>>] = inner /\ Good("sequence", t, i + 1, inner)
      BY <1>0, <2>0, <3>1, Called, IsGrammar
    <3>3. IsNode(inner.node) /\ Past(t, i + 1, inner.i)
      BY <3>2 DEF Good
    <3>4. Past(t, i + 1, j)
      BY <2>0, <3>3, ClosePlace
    <3>5. j \in Nat /\ i < j
      <4> HIDE DEF j
      <4> QED BY <3>4, <2>0, <1>0 DEF Past
    <3>6. Parts(e, g, t, i) = [e[<<g, t, j>>] EXCEPT !.subs = <<n>> \o @]
      BY <1>4, <2>4, <3>2 DEF Parts, ProcessSub
    <3>7. Parts(f, g, t, i) = q
      BY <1>4, <2>4 DEF Parts, ProcessSub
    <3>8. IsNode(n)
      <4> HIDE DEF inner
      <4> QED BY <3>3 DEF IsNode
    <3> HIDE DEF j, inner, n
    <3>9. Past(t, i, j)
      BY <2>0, <3>4, PastTrans
    <3>10. e[<<g, t, j>>] = r /\ IsParts(r, t, j) /\ Past(t, i, r.i)
      BY <1>2, <2>0, <3>5, <3>9
    <3> HIDE DEF r
    <3>11. IsParts(q, t, i) /\ q.i = r.i
      BY <2>0, <3>5, <3>8, <3>10, AddedParts
    <3>12. Parts(e, g, t, i) = q
      BY <3>6, <3>10
    <3> HIDE DEF q
    <3> QED BY <1>1, <3>7, <3>10, <3>11, <3>12
  <2>5. CASE Kind(t, i) \notin {"comment", "redirect", "heredoc_marker", "process_sub"}
    <3> DEFINE as == Kind(t, i) = "assignment" /\ g = "prefix"
               wd == Kind(t, i) = "word" \/ (Kind(t, i) = "assignment" /\ g = "words")
    <3>1. CASE as
      <4> DEFINE r == f[<<g, t, i + 1>>]
      <4>1. Parts(e, g, t, i) = AddAssignment(t[i], e[<<g, t, i + 1>>])
            /\ Parts(f, g, t, i) = AddAssignment(t[i], r)
        BY <1>4, <3>1 DEF Parts
      <4>2. e[<<g, t, i + 1>>] = r /\ IsParts(r, t, i + 1) /\ Past(t, i, r.i)
        BY <1>2, <2>0
      <4> HIDE DEF r
      <4>3. IsParts(AddAssignment(t[i], r), t, i) /\ AddAssignment(t[i], r).i = r.i
        BY <2>0, <4>2, AddedParts
      <4> QED BY <1>1, <4>1, <4>2, <4>3
    <3>2. CASE wd
      <4> DEFINE r == f[<<"words", t, i + 1>>]
      <4>1. Parts(e, g, t, i) = AddWord(t[i], e[<<"words", t, i + 1>>])
            /\ Parts(f, g, t, i) = AddWord(t[i], r)
        BY <1>4, <3>2 DEF Parts
      <4>2. e[<<"words", t, i + 1>>] = r /\ IsParts(r, t, i + 1) /\ Past(t, i, r.i)
        BY <1>2, <2>0
      <4> HIDE DEF r
      <4>3. IsParts(AddWord(t[i], r), t, i) /\ AddWord(t[i], r).i = r.i
        BY <2>0, <4>2, AddedParts
      <4> QED BY <1>1, <4>1, <4>2, <4>3
    <3>3. CASE ~as /\ ~wd
      <4> DEFINE r == f[<<g, t, i + 1>>]
      <4>1. Parts(e, g, t, i) = AddUnexpected(e[<<g, t, i + 1>>])
            /\ Parts(f, g, t, i) = AddUnexpected(r)
        BY <1>4, <2>5, <3>3 DEF Parts
      <4>2. e[<<g, t, i + 1>>] = r /\ IsParts(r, t, i + 1) /\ Past(t, i, r.i)
        BY <1>2, <2>0
      <4> HIDE DEF r
      <4>3. IsParts(AddUnexpected(r), t, i) /\ AddUnexpected(r).i = r.i
        BY <2>0, <4>2, AddedParts
      <4> QED BY <1>1, <4>1, <4>2, <4>3
    <3> QED BY <3>1, <3>2, <3>3
  <2> QED BY <2>1, <2>2, <2>3, <2>4, <2>5
<1> QED BY <1>3, <1>4

LEMMA RuleIs ==
  ASSUME NEW e, NEW f, NEW g \in Grammar, NEW t \in Seq(Token), NEW i \in Nat,
         Sane(f, g, t, i), Agree(e, f, g, t, i)
  PROVE  Rule(e, g, t, i) = Rule(f, g, t, i) /\ Good(g, t, i, Rule(f, g, t, i))
<1>1. CASE g = "sequence"
  BY <1>1, SequenceRule DEF Rule
<1>2. CASE g = "segments"
  BY <1>2, SegmentsRule DEF Rule
<1>3. CASE g = "stages"
  BY <1>3, StagesRule DEF Rule
<1>4. CASE g = "command" /\ Kind(t, i) = "lparen"
  BY <1>4, SubshellRule DEF Rule
<1>5. CASE g = "command" /\ Kind(t, i) # "lparen"
  BY <1>5, SimpleRule DEF Rule
<1>6. CASE g = "redirects"
  BY <1>6, RedirectsRule DEF Rule
<1>7. CASE g \in {"prefix", "words"}
  <2>1. Rule(e, g, t, i) = Parts(e, g, t, i) /\ Rule(f, g, t, i) = Parts(f, g, t, i)
    BY <1>7 DEF Rule
  <2> QED BY <1>7, <2>1, PartsRule
<1> QED BY <1>1, <1>2, <1>3, <1>4, <1>5, <1>6, <1>7 DEF Grammar

(***************************************************************************)
(* There is a parser: functions that solve the equation of the rules on    *)
(* the places below some m agree with each other, and make up parse.       *)
(***************************************************************************)
Solves(f, m) ==
  \A g \in Grammar, t \in Seq(Token), i \in Nat :
    Mu(g, t, i) < m => f[<<g, t, i>>] = Rule(f, g, t, i) /\ Good(g, t, i, f[<<g, t, i>>])

LEMMA SolvesSane ==
  ASSUME NEW f, NEW m \in Nat, Solves(f, m),
         NEW g \in Grammar, NEW t \in Seq(Token), NEW i \in Nat, Mu(g, t, i) <= m
  PROVE  Sane(f, g, t, i)
<1> SUFFICES ASSUME NEW h \in Grammar, NEW u \in Seq(Token), NEW j \in Nat,
                    Mu(h, u, j) < Mu(g, t, i)
             PROVE  Good(h, u, j, f[<<h, u, j>>])
  BY DEF Sane
<1>1. Mu(h, u, j) \in Nat /\ Mu(g, t, i) \in Nat
  BY MuIs
<1>2. Mu(h, u, j) < m
  BY <1>1
<1> QED BY <1>2 DEF Solves

LEMMA OneSolution ==
  ASSUME NEW e, NEW f, NEW m \in Nat, NEW n \in Nat, Solves(e, m), Solves(f, n),
         NEW g \in Grammar, NEW t \in Seq(Token), NEW i \in Nat,
         Mu(g, t, i) < m, Mu(g, t, i) < n
  PROVE  e[<<g, t, i>>] = f[<<g, t, i>>]
<1> DEFINE Differ(k) == \E h \in Grammar, u \in Seq(Token), j \in Nat :
             Mu(h, u, j) = k /\ k < m /\ k < n /\ e[<<h, u, j>>] # f[<<h, u, j>>]
           T == {k \in Nat : Differ(k)}
<1>1. T = {}
  <2> SUFFICES ASSUME T # {} PROVE FALSE
    OBVIOUS
  <2>1. PICK k \in T : \A l \in T : k <= l
    <3>1. T \in SUBSET Nat
      OBVIOUS
    <3> HIDE DEF T
    <3> QED BY <3>1, LeastNat
  <2>2. Differ(k) /\ k \in Nat
    BY <2>1
  <2>3. PICK h \in Grammar, u \in Seq(Token), j \in Nat :
          Mu(h, u, j) = k /\ k < m /\ k < n /\ e[<<h, u, j>>] # f[<<h, u, j>>]
    BY <2>2
  <2>4. Agree(e, f, h, u, j)
    <3> SUFFICES ASSUME NEW h1 \in Grammar, NEW u1 \in Seq(Token), NEW j1 \in Nat,
                        Mu(h1, u1, j1) < k
                 PROVE  e[<<h1, u1, j1>>] = f[<<h1, u1, j1>>]
      BY <2>3 DEF Agree
    <3>1. Mu(h1, u1, j1) \in Nat
      BY MuIs
    <3>2. Mu(h1, u1, j1) \notin T /\ Mu(h1, u1, j1) < m /\ Mu(h1, u1, j1) < n
      <4> HIDE DEF T, Differ
      <4> QED BY <2>1, <2>2, <2>3, <3>1
    <3>3. ~Differ(Mu(h1, u1, j1))
      BY <3>1, <3>2
    <3> QED BY <3>2, <3>3
  <2>5. Sane(f, h, u, j)
    <3>1. k <= n
      BY <2>2, <2>3
    <3> HIDE DEF T, Differ
    <3> QED BY <2>3, <3>1, SolvesSane
  <2>6. Rule(e, h, u, j) = Rule(f, h, u, j)
    BY <2>4, <2>5, RuleIs
  <2>7. e[<<h, u, j>>] = Rule(e, h, u, j) /\ f[<<h, u, j>>] = Rule(f, h, u, j)
    BY <2>3 DEF Solves
  <2> QED BY <2>3, <2>6, <2>7
<1>2. Mu(g, t, i) \in Nat
  BY MuIs
<1>3. ~Differ(Mu(g, t, i))
  BY <1>1, <1>2
<1> QED BY <1>3

LEMMA SomeSolution ==
  ASSUME NEW n \in Nat
  PROVE  \E f : Solves(f, n)
<1> DEFINE T == {m \in 0 .. n : \E f : Solves(f, m)}
<1>1. 0 \in T
  <2>1. ASSUME NEW g \in Grammar, NEW t \in Seq(Token), NEW i \in Nat PROVE ~(Mu(g, t, i) < 0)
    <3>1. Mu(g, t, i) \in Nat
      BY MuIs
    <3> QED BY <3>1
  <2>2. Solves(0, 0)
    BY <2>1 DEF Solves
  <2> QED BY <2>2
<1>2. ASSUME NEW m \in 1 .. n, m - 1 \in T PROVE m \in T
  <2>1. PICK f : Solves(f, m - 1)
    BY <1>2
  <2> DEFINE e == [x \in Places |-> IF Mu(x[1], x[2], x[3]) < m - 1 THEN f[x]
                                    ELSE Rule(f, x[1], x[2], x[3])]
  <2>2. ASSUME NEW g \in Grammar, NEW t \in Seq(Token), NEW i \in Nat
        PROVE  e[<<g, t, i>>] = IF Mu(g, t, i) < m - 1 THEN f[<<g, t, i>>] ELSE Rule(f, g, t, i)
    BY DEF Places
  <2> HIDE DEF e
  <2>3. ASSUME NEW g \in Grammar, NEW t \in Seq(Token), NEW i \in Nat, Mu(g, t, i) < m
        PROVE  e[<<g, t, i>>] = Rule(e, g, t, i) /\ Good(g, t, i, e[<<g, t, i>>])
    <3>1. m - 1 \in Nat /\ Mu(g, t, i) \in Nat /\ Mu(g, t, i) <= m - 1
      <4>1. Mu(g, t, i) \in Nat
        BY MuIs
      <4> QED BY <2>3, <4>1
    <3>2. Sane(f, g, t, i)
      BY <2>1, <3>1, SolvesSane
    <3>3. Agree(e, f, g, t, i)
      <4> SUFFICES ASSUME NEW h \in Grammar, NEW u \in Seq(Token), NEW j \in Nat,
                          Mu(h, u, j) < Mu(g, t, i)
                   PROVE  e[<<h, u, j>>] = f[<<h, u, j>>]
        BY DEF Agree
      <4>1. Mu(h, u, j) \in Nat
        BY MuIs
      <4>2. Mu(h, u, j) < m - 1
        BY <3>1, <4>1
      <4> QED BY <4>2, <2>2
    <3>4. Rule(e, g, t, i) = Rule(f, g, t, i) /\ Good(g, t, i, Rule(f, g, t, i))
      BY <3>2, <3>3, RuleIs
    <3>5. e[<<g, t, i>>] = Rule(f, g, t, i)
      BY <2>1, <2>2 DEF Solves
    <3> QED BY <3>4, <3>5
  <2>4. Solves(e, m)
    BY <2>3 DEF Solves
  <2> QED BY <2>4
<1>3. n \in T
  <2>1. T \in SUBSET (0 .. n)
    OBVIOUS
  <2> HIDE DEF T
  <2> QED BY <1>1, <1>2, <2>1, UpTo
<1> QED BY <1>3

LEMMA ParseExists == \E f : f = [x \in Places |-> Rule(f, x[1], x[2], x[3])]
<1> DEFINE F(m) == CHOOSE f : Solves(f, m)
           l == [x \in Places |-> F(Mu(x[1], x[2], x[3]) + 1)[x]]
<1>1. ASSUME NEW g \in Grammar, NEW t \in Seq(Token), NEW i \in Nat
      PROVE  l[<<g, t, i>>] = F(Mu(g, t, i) + 1)[<<g, t, i>>]
  BY DEF Places
<1>2. ASSUME NEW m \in Nat PROVE Solves(F(m), m)
  BY SomeSolution
<1> HIDE DEF l, F
<1>3. ASSUME NEW g \in Grammar, NEW t \in Seq(Token), NEW i \in Nat
      PROVE  l[<<g, t, i>>] = Rule(l, g, t, i)
  <2> DEFINE m == Mu(g, t, i)
             f == F(m + 1)
  <2>1. m \in Nat /\ m + 1 \in Nat /\ m < m + 1
    <3>1. m \in Nat
      BY MuIs
    <3> HIDE DEF m
    <3> QED BY <3>1
  <2>2. Solves(f, m + 1)
    BY <2>1, <1>2
  <2> HIDE DEF f
  <2>3. Sane(f, g, t, i)
    <3>1. Mu(g, t, i) <= m + 1
      BY <2>1
    <3> QED BY <2>1, <2>2, <3>1, SolvesSane
  <2>4. Agree(l, f, g, t, i)
    <3> SUFFICES ASSUME NEW h \in Grammar, NEW u \in Seq(Token), NEW j \in Nat,
                        Mu(h, u, j) < m
                 PROVE  l[<<h, u, j>>] = f[<<h, u, j>>]
      BY DEF Agree
    <3> DEFINE k == Mu(h, u, j)
    <3>1. k \in Nat /\ k + 1 \in Nat /\ k < k + 1
      <4>1. k \in Nat
        BY MuIs
      <4> HIDE DEF k
      <4> QED BY <4>1
    <3>2. Solves(F(k + 1), k + 1)
      BY <3>1, <1>2
    <3>3. k < m + 1
      BY <2>1, <3>1
    <3>4. F(k + 1)[<<h, u, j>>] = f[<<h, u, j>>]
      BY <2>1, <2>2, <3>1, <3>2, <3>3, OneSolution
    <3> QED BY <1>1, <3>4
  <2>5. Rule(l, g, t, i) = Rule(f, g, t, i)
    BY <2>3, <2>4, RuleIs
  <2>6. f[<<g, t, i>>] = Rule(f, g, t, i)
    BY <2>1, <2>2 DEF Solves
  <2>7. l[<<g, t, i>>] = f[<<g, t, i>>]
    BY <1>1 DEF f
  <2> QED BY <2>5, <2>6, <2>7
<1>4. l = [x \in Places |-> l[x]]
  BY DEF l
<1>5. ASSUME NEW x \in Places PROVE l[x] = Rule(l, x[1], x[2], x[3])
  <2>1. /\ x[1] \in Grammar /\ x[2] \in Seq(Token) /\ x[3] \in Nat
        /\ x = <<x[1], x[2], x[3]>>
    BY DEF Places
  <2>2. l[<<x[1], x[2], x[3]>>] = Rule(l, x[1], x[2], x[3])
    BY <2>1, <1>3
  <2> QED BY <2>1, <2>2
<1>6. l = [x \in Places |-> Rule(l, x[1], x[2], x[3])]
  BY <1>4, <1>5
<1> QED BY <1>6

\* The recursion of the parser ends, in inline bodies too: at every place of every
\* sequence of tokens each rule returns, a tree and a position that is not before
\* the one it started at nor past the end of the tokens.
THEOREM ParserReturns ==
  ASSUME NEW g \in Grammar, NEW t \in Seq(Token), NEW i \in Nat
  PROVE  parse[<<g, t, i>>] = Rule(parse, g, t, i) /\ Good(g, t, i, parse[<<g, t, i>>])
<1>1. parse = [x \in Places |-> Rule(parse, x[1], x[2], x[3])]
  BY ParseExists, Zenon DEF parse
<1>2. ASSUME NEW h \in Grammar, NEW u \in Seq(Token), NEW j \in Nat
      PROVE  parse[<<h, u, j>>] = Rule(parse, h, u, j)
  <2> DEFINE x == <<h, u, j>>
  <2>1. x \in Places /\ x[1] = h /\ x[2] = u /\ x[3] = j
    BY DEF Places
  <2>2. parse[x] = Rule(parse, x[1], x[2], x[3])
    BY <1>1, <2>1
  <2> QED BY <2>1, <2>2
<1> DEFINE Bad(k) == \E h \in Grammar, u \in Seq(Token), j \in Nat :
             Mu(h, u, j) = k /\ ~Good(h, u, j, parse[<<h, u, j>>])
           T == {k \in Nat : Bad(k)}
<1>3. T = {}
  <2> SUFFICES ASSUME T # {} PROVE FALSE
    OBVIOUS
  <2>1. PICK k \in T : \A l \in T : k <= l
    <3>1. T \in SUBSET Nat
      OBVIOUS
    <3> HIDE DEF T
    <3> QED BY <3>1, LeastNat
  <2>2. Bad(k) /\ k \in Nat
    BY <2>1
  <2>3. PICK h \in Grammar, u \in Seq(Token), j \in Nat :
          Mu(h, u, j) = k /\ ~Good(h, u, j, parse[<<h, u, j>>])
    BY <2>2
  <2>4. Sane(parse, h, u, j)
    <3> SUFFICES ASSUME NEW h1 \in Grammar, NEW u1 \in Seq(Token), NEW j1 \in Nat,
                        Mu(h1, u1, j1) < k
                 PROVE  Good(h1, u1, j1, parse[<<h1, u1, j1>>])
      BY <2>3 DEF Sane
    <3>1. Mu(h1, u1, j1) \in Nat
      BY MuIs
    <3>2. Mu(h1, u1, j1) \notin T
      <4> HIDE DEF T, Bad
      <4> QED BY <2>1, <2>2, <3>1
    <3>3. ~Bad(Mu(h1, u1, j1))
      BY <3>1, <3>2
    <3> QED BY <3>3
  <2>5. Agree(parse, parse, h, u, j)
    BY DEF Agree
  <2>6. Good(h, u, j, Rule(parse, h, u, j))
    BY <2>4, <2>5, RuleIs
  <2> QED BY <2>3, <2>6, <1>2
<1>4. Mu(g, t, i) \in Nat
  BY MuIs
<1>5. ~Bad(Mu(g, t, i))
  BY <1>3, <1>4
<1> QED BY <1>2, <1>5

(***************************************************************************)
(* Brackets.                                                               *)
(***************************************************************************)
\* How deep in brackets position n is.
Depth(t, n) == Balance(t, 1, n)

Turn(t, n) ==
  IF n \in Openers(t) THEN 1 ELSE IF Kind(t, n) = "rparen" THEN -1 ELSE 0

LEMMA CountSplit ==
  ASSUME NEW S, NEW j \in Nat, NEW i \in Nat, j <= i
  PROVE  /\ Cardinality({k \in 1 .. j : k \in S}) \in Nat
         /\ Cardinality({k \in j + 1 .. i : k \in S}) \in Nat
         /\ Cardinality({k \in 1 .. i : k \in S}) =
              Cardinality({k \in 1 .. j : k \in S}) + Cardinality({k \in j + 1 .. i : k \in S})
<1> DEFINE A == {k \in 1 .. j : k \in S}
           B == {k \in j + 1 .. i : k \in S}
<1>1. IsFiniteSet(A) /\ IsFiniteSet(B)
  <2>1. IsFiniteSet(1 .. j) /\ IsFiniteSet(j + 1 .. i)
    BY FS_Interval
  <2>2. A \subseteq 1 .. j /\ B \subseteq j + 1 .. i
    OBVIOUS
  <2> HIDE DEF A, B
  <2> QED BY <2>1, <2>2, FS_Subset
<1>2. A \cap B = {} /\ {k \in 1 .. i : k \in S} = A \cup B
  OBVIOUS
<1> HIDE DEF A, B
<1>3. Cardinality(A) \in Nat /\ Cardinality(B) \in Nat
  BY <1>1, FS_CardinalityType
<1>4. Cardinality(A \cup B) = Cardinality(A) + Cardinality(B) - Cardinality(A \cap B)
  BY <1>1, FS_Union
<1>5. Cardinality(A \cap B) = 0
  BY <1>2, FS_EmptySet
<1>6. Cardinality(A \cup B) = Cardinality(A) + Cardinality(B)
  BY <1>3, <1>4, <1>5
<1> QED BY <1>2, <1>3, <1>6 DEF A, B

LEMMA CountOne ==
  ASSUME NEW S, NEW n \in Nat
  PROVE  Cardinality({k \in n .. n : k \in S}) = IF n \in S THEN 1 ELSE 0
<1>1. CASE n \in S
  <2>1. {k \in n .. n : k \in S} = {n}
    BY <1>1
  <2>2. Cardinality({n}) = 1
    BY FS_Singleton
  <2> QED BY <1>1, <2>1, <2>2
<1>2. CASE n \notin S
  <2>1. {k \in n .. n : k \in S} = {}
    BY <1>2
  <2> QED BY <1>2, <2>1, FS_EmptySet
<1> QED BY <1>1, <1>2

LEMMA BalanceIs ==
  ASSUME NEW t \in Seq(Token), NEW j \in Nat, NEW i \in Nat, j <= i
  PROVE  Depth(t, j) \in Int /\ Balance(t, j + 1, i) = Depth(t, i) - Depth(t, j)
<1> DEFINE O == Openers(t)
           C == {k \in Nat : Kind(t, k) = "rparen"}
<1>1. ASSUME NEW a \in Nat, NEW b \in Nat
      PROVE  Balance(t, a, b) = Cardinality({k \in a .. b : k \in O})
                                - Cardinality({k \in a .. b : k \in C})
  <2>1. {k \in a .. b : Kind(t, k) = "rparen"} = {k \in a .. b : k \in C}
    OBVIOUS
  <2> QED BY <2>1 DEF Balance
<1> HIDE DEF O, C
<1> DEFINE o1 == Cardinality({k \in 1 .. j : k \in O})
           o2 == Cardinality({k \in j + 1 .. i : k \in O})
           c1 == Cardinality({k \in 1 .. j : k \in C})
           c2 == Cardinality({k \in j + 1 .. i : k \in C})
<1>2. /\ o1 \in Nat /\ o2 \in Nat
      /\ Cardinality({k \in 1 .. i : k \in O}) = o1 + o2
  BY CountSplit
<1>3. /\ c1 \in Nat /\ c2 \in Nat
      /\ Cardinality({k \in 1 .. i : k \in C}) = c1 + c2
  BY CountSplit
<1>4. Depth(t, j) = o1 - c1
  BY <1>1 DEF Depth
<1>5. Depth(t, i) = (o1 + o2) - (c1 + c2)
  <2>1. Balance(t, 1, i) = Cardinality({k \in 1 .. i : k \in O})
                           - Cardinality({k \in 1 .. i : k \in C})
    BY <1>1
  <2> QED BY <2>1, <1>2, <1>3 DEF Depth
<1>6. Balance(t, j + 1, i) = o2 - c2
  BY <1>1
<1> HIDE DEF o1, o2, c1, c2
<1> QED BY <1>2, <1>3, <1>4, <1>5, <1>6

LEMMA DepthStep ==
  ASSUME NEW t \in Seq(Token), NEW n \in Nat \ {0}
  PROVE  /\ Depth(t, n) \in Int /\ Depth(t, n - 1) \in Int
         /\ Depth(t, n) = Depth(t, n - 1) + Turn(t, n)
<1> DEFINE O == Openers(t)
           C == {k \in Nat : Kind(t, k) = "rparen"}
<1>1. n - 1 \in Nat /\ n - 1 <= n /\ n - 1 + 1 = n /\ n \in Nat /\ n <= n
  OBVIOUS
<1>2. Depth(t, n - 1) \in Int /\ Balance(t, n - 1 + 1, n) = Depth(t, n) - Depth(t, n - 1)
  BY <1>1, BalanceIs
<1>3. Depth(t, n) \in Int
  BY <1>1, BalanceIs
<1>4. Balance(t, n, n) = Cardinality({k \in n .. n : k \in O}) - Cardinality({k \in n .. n : k \in C})
  <2>1. {k \in n .. n : Kind(t, k) = "rparen"} = {k \in n .. n : k \in C}
    OBVIOUS
  <2> QED BY <2>1 DEF Balance
<1>5. ~(n \in O /\ n \in C)
  BY DEF Openers, Kind
<1>6. n \in C <=> Kind(t, n) = "rparen"
  OBVIOUS
<1> HIDE DEF O, C
<1>7. Cardinality({k \in n .. n : k \in O}) = IF n \in O THEN 1 ELSE 0
  BY CountOne
<1>8. Cardinality({k \in n .. n : k \in C}) = IF n \in C THEN 1 ELSE 0
  BY CountOne
<1>9. Balance(t, n, n) = Turn(t, n)
  BY <1>4, <1>5, <1>6, <1>7, <1>8 DEF Turn, O
<1>10. Turn(t, n) \in Int
  BY DEF Turn
<1> QED BY <1>1, <1>2, <1>3, <1>9, <1>10

\* The tokens from position i up to j, exclusive, close what they open and
\* nothing else.
Balanced(t, i, j) ==
  /\ Depth(t, j - 1) = Depth(t, i - 1)
  /\ \A k \in i - 1 .. j - 1 : Depth(t, k) >= Depth(t, i - 1)

LEMMA BalancedTrans ==
  ASSUME NEW t \in Seq(Token), NEW i \in Nat \ {0}, NEW j \in Nat, NEW k \in Nat, i <= j, j <= k,
         Balanced(t, i, j), Balanced(t, j, k)
  PROVE  Balanced(t, i, k)
<1> SUFFICES ASSUME NEW l \in i - 1 .. k - 1, l \notin i - 1 .. j - 1
             PROVE  Depth(t, l) >= Depth(t, i - 1)
  BY DEF Balanced
<1>1. l \in j - 1 .. k - 1
  OBVIOUS
<1> QED BY <1>1 DEF Balanced

LEMMA BalancedNil ==
  ASSUME NEW t \in Seq(Token), NEW i \in Nat \ {0}
  PROVE  Balanced(t, i, i)
<1>1. Depth(t, i - 1) \in Int
  BY DepthStep
<1> QED BY <1>1 DEF Balanced

LEMMA BalancedOne ==
  ASSUME NEW t \in Seq(Token), NEW i \in Nat \ {0}, Kind(t, i) \notin {"lparen", "process_sub", "rparen"}
  PROVE  Balanced(t, i, i + 1)
<1>1. Depth(t, i - 1) \in Int /\ Depth(t, i) = Depth(t, i - 1) + Turn(t, i)
  BY DepthStep
<1>2. Turn(t, i) = 0
  BY DEF Turn, Openers, Kind
<1>3. \A k \in i - 1 .. i : k = i - 1 \/ k = i
  OBVIOUS
<1>4. i + 1 - 1 = i /\ Depth(t, i) = Depth(t, i - 1)
  BY <1>1, <1>2
<1> QED BY <1>1, <1>3, <1>4 DEF Balanced

\* A bracket and the ) that closes it.
LEMMA Brackets ==
  ASSUME NEW t \in Seq(Token), NEW i \in DOMAIN t, NEW r \in DOMAIN t, i < r,
         Kind(t, i) \in {"lparen", "process_sub"}, Kind(t, r) = "rparen",
         Balanced(t, i + 1, r)
  PROVE  Balanced(t, i, r + 1) /\ Opener(t, r) = i
<1>0. i \in Nat \ {0} /\ r \in Nat \ {0} /\ r - 1 \in Nat \ {0} /\ Len(t) \in Nat /\ DOMAIN t = 1 .. Len(t)
  BY KindIs
<1> DEFINE d(n) == Depth(t, n)
<1>1. d(i - 1) \in Int /\ d(i) = d(i - 1) + 1 /\ d(r - 1) \in Int /\ d(r) = d(r - 1) - 1
  <2>1. i \in Openers(t)
    BY DEF Openers, Kind
  <2>2. r \notin Openers(t)
    BY DEF Openers, Kind
  <2>3. Turn(t, i) = 1 /\ Turn(t, r) = -1
    BY <2>1, <2>2 DEF Turn
  <2>4. /\ d(i) \in Int /\ d(i - 1) \in Int /\ d(i) = d(i - 1) + Turn(t, i)
        /\ d(r) \in Int /\ d(r - 1) \in Int /\ d(r) = d(r - 1) + Turn(t, r)
    BY <1>0, DepthStep
  <2> QED BY <2>3, <2>4
<1>2. d(r - 1) = d(i) /\ \A k \in i .. r - 1 : d(k) >= d(i)
  <2>1. i + 1 - 1 = i
    BY <1>0
  <2> QED BY <2>1 DEF Balanced
<1>3. \A k \in Nat : d(k) \in Int
  BY BalanceIs
<1> HIDE DEF d
<1>4. Balanced(t, i, r + 1)
  <2>1. d(r) = d(i - 1)
    BY <1>1, <1>2
  <2>2. ASSUME NEW k \in i - 1 .. r PROVE d(k) >= d(i - 1)
    <3>1. CASE k \in i .. r - 1
      BY <1>0, <1>1, <1>2, <1>3, <3>1
    <3>2. k \in i .. r - 1 \/ k = i - 1 \/ k = r
      BY <1>0
    <3> QED BY <1>1, <2>1, <3>1, <3>2
  <2>3. r + 1 - 1 = r
    BY <1>0
  <2> QED BY <2>1, <2>2, <2>3 DEF Balanced, d
<1>5. \A j \in 1 .. r : Balance(t, j, r) = d(r) - d(j - 1)
  <2> SUFFICES ASSUME NEW j \in 1 .. r PROVE Balance(t, j, r) = d(r) - d(j - 1)
    OBVIOUS
  <2>1. j - 1 \in Nat /\ j - 1 <= r /\ j - 1 + 1 = j /\ r \in Nat
    BY <1>0
  <2>2. Balance(t, j - 1 + 1, r) = Depth(t, r) - Depth(t, j - 1)
    BY <2>1, BalanceIs
  <2> QED BY <2>1, <2>2 DEF d
<1> DEFINE open == {j \in Openers(t) : j < r /\ Balance(t, j, r) = 0}
<1>6. i \in open
  <2>1. Balance(t, i, r) = 0
    BY <1>0, <1>1, <1>2, <1>5
  <2> QED BY <2>1 DEF Openers, Kind
<1>7. ASSUME NEW j \in open PROVE j <= i
  <2> SUFFICES ASSUME j > i PROVE FALSE
    BY <1>0, <1>7 DEF Openers
  <2>1. j \in 1 .. r /\ j - 1 \in i .. r - 1
    BY <1>0, <1>7 DEF Openers
  <2>2. Balance(t, j, r) = d(r) - d(j - 1)
    BY <2>1, <1>5
  <2>3. d(j - 1) >= d(i) /\ d(j - 1) \in Int
    BY <2>1, <1>2, <1>3, <1>0
  <2> QED BY <1>1, <1>2, <1>7, <2>2, <2>3
<1>8. open \in SUBSET (0 .. Len(t))
  BY <1>0 DEF Openers
<1> HIDE DEF open
<1>9. Max(open) \in open /\ \A j \in open : Max(open) >= j
  BY <1>0, <1>6, <1>8, MaxIs
<1>10. Max(open) = i
  <2>1. Max(open) \in Nat
    <3>1. Max(open) \in 0 .. Len(t)
      BY <1>8, <1>9
    <3> QED BY <1>0, <3>1
  <2> QED BY <1>0, <1>6, <1>7, <1>9, <2>1
<1> QED BY <1>4, <1>6, <1>10 DEF Opener, open

\* No ) stands where all brackets are closed.
LEMMA NoBracket ==
  ASSUME NEW t \in Seq(Token), NEW r \in DOMAIN t, Kind(t, r) = "rparen", Balanced(t, 1, r)
  PROVE  ~WellFormed(t)
<1>0. r \in Nat \ {0} /\ r - 1 \in Nat /\ DOMAIN t = 1 .. Len(t) /\ Len(t) \in Nat
  BY KindIs
<1>1. /\ Depth(t, r) = Depth(t, r - 1) + Turn(t, r)
      /\ Depth(t, r) \in Int /\ Depth(t, r - 1) \in Int
  BY <1>0, DepthStep
<1>2. Turn(t, r) = -1
  BY DEF Turn, Openers, Kind
<1>3. Depth(t, r - 1) = Depth(t, 0) /\ \A k \in 0 .. r - 1 : Depth(t, k) >= Depth(t, 0)
  BY DEF Balanced
<1>4. ASSUME NEW j \in 1 .. r PROVE Balance(t, j, r) # 0
  <2>1. j - 1 \in Nat /\ j - 1 <= r /\ j - 1 + 1 = j /\ j - 1 \in 0 .. r - 1
    BY <1>0
  <2>2. Depth(t, j - 1) \in Int /\ Balance(t, j - 1 + 1, r) = Depth(t, r) - Depth(t, j - 1)
    BY <1>0, <2>1, BalanceIs
  <2>3. Depth(t, j - 1) >= Depth(t, 0)
    BY <1>3, <2>1
  <2> QED BY <1>1, <1>2, <1>3, <2>1, <2>2, <2>3
<1>5. Opener(t, r) = 0
  <2>1. {j \in Openers(t) : j < r /\ Balance(t, j, r) = 0} = {}
    BY <1>0, <1>4 DEF Openers
  <2> QED BY <2>1 DEF Opener
<1> QED BY <1>5 DEF WellFormed, Kind

(***************************************************************************)
(* What the parser makes of a row of words.                                *)
(***************************************************************************)
\* The words from position i to position l are the rest of a command.
Row(t, i, l) ==
  /\ i \in Nat \ {0} /\ l \in Nat /\ i <= l + 1
  /\ \A k \in i .. l : Kind(t, k) = "word"
  /\ Kind(t, l + 1) \in Ends \cup {"none"}

IsRow(p, t, i, l) ==
  /\ p.subs = <<>> /\ p.i = l + 1 /\ Len(p.words) = l + 1 - i
  /\ \A m \in 1 .. l + 1 - i : p.words[m] = t[i + m - 1].w

LEMMA PartsAre ==
  ASSUME NEW g \in {"prefix", "words"}, NEW t \in Seq(Token), NEW i \in Nat
  PROVE  /\ parse[<<g, t, i>>] = Parts(parse, g, t, i)
         /\ IsParts(parse[<<g, t, i>>], t, i)
         /\ Past(t, i, parse[<<g, t, i>>].i)
<1> DEFINE r == parse[<<g, t, i>>]
<1>1. r = Rule(parse, g, t, i) /\ Good(g, t, i, r)
  BY ParserReturns, IsGrammar
<1>2. Rule(parse, g, t, i) = Parts(parse, g, t, i)
  BY DEF Rule
<1> HIDE DEF r
<1>3. IsParts(r, t, i) /\ Past(t, i, r.i)
  BY <1>1 DEF Good
<1> QED BY <1>1, <1>2, <1>3 DEF r

\* q is p with the word tok in front.
Worded(q, tok, p) ==
  /\ q.words = <<tok.w>> \o p.words /\ q.subs = p.subs /\ q.i = p.i
  /\ Len(q.words) = Len(p.words) + 1 /\ q.words[1] = tok.w
  /\ \A m \in 1 .. Len(p.words) : q.words[m + 1] = p.words[m]
  /\ q.assigned = p.assigned
  /\ q.confidence = "high" => p.confidence = "high" /\ Static(tok)

LEMMA WordIs ==
  ASSUME NEW t, NEW i \in Nat, NEW p, IsParts(p, t, i), NEW tok \in Token
  PROVE  Worded(AddWord(tok, p), tok, p)
<1> DEFINE words == <<tok.w>> \o p.words
           r == [p EXCEPT !.words = words]
           q == AddWord(tok, p)
<1>1. p \in [words : Seq(STRING), redirects : {p.redirects}, subs : {p.subs},
             confidence : Levels3, assigned : BOOLEAN, i : Nat]
  BY DEF IsParts
<1>2. /\ Len(words) = Len(p.words) + 1 /\ words[1] = tok.w
      /\ \A m \in 1 .. Len(p.words) : words[m + 1] = p.words[m]
  <2>1. p.words \in Seq(STRING)
    BY <1>1
  <2> QED BY <2>1, Cons
<1> DEFINE C == {p.confidence, "low"}
           c == mergeConfidence(C)
<1>3. c # "high"
  <2>1. C \in SUBSET Levels3 /\ "low" \in C
    BY <1>1 DEF Levels3
  <2> HIDE DEF C
  <2> QED BY <2>1, MergeIs
<1> HIDE DEF words
<1>4. r.confidence = p.confidence /\ r.words = words /\ r.subs = p.subs /\ r.i = p.i /\ r.assigned = p.assigned
  BY <1>1
<1>5. q = IF Static(tok) THEN r ELSE [r EXCEPT !.confidence = c]
  BY <1>4 DEF AddWord, Lower, words
<1> HIDE DEF c, q
<1>6. /\ q.words = words /\ q.subs = p.subs /\ q.i = p.i /\ q.assigned = p.assigned
      /\ q.confidence = "high" => p.confidence = "high" /\ Static(tok)
  <2>1. CASE Static(tok)
    BY <1>1, <1>4, <1>5, <2>1
  <2>2. CASE ~Static(tok)
    BY <1>1, <1>3, <1>4, <1>5, <2>2
  <2> QED BY <2>1, <2>2
<1> QED BY <1>2, <1>6 DEF q, words, Worded

LEMMA WordAt ==
  ASSUME NEW g \in {"prefix", "words"}, NEW t \in Seq(Token), NEW i \in Nat, Kind(t, i) = "word"
  PROVE  parse[<<g, t, i>>] = AddWord(t[i], parse[<<"words", t, i + 1>>]) /\ t[i] \in Token
<1>1. Parts(parse, g, t, i) = AddWord(t[i], parse[<<"words", t, i + 1>>])
  BY DEF Parts, Ends, Separators
<1> QED BY <1>1, PartsAre, KindIs

LEMMA RowIs ==
  ASSUME NEW g \in {"prefix", "words"}, NEW t \in Seq(Token), NEW i, NEW l, Row(t, i, l)
  PROVE  IsRow(parse[<<g, t, i>>], t, i, l)
<1>0. i \in Nat \ {0} /\ l \in Nat /\ i <= l + 1
  BY DEF Row
<1> DEFINE n == l + 1 - i
           At(h, k) == parse[<<h, t, l + 1 - k>>]
           T == {k \in 0 .. n : \A h \in {"prefix", "words"} : IsRow(At(h, k), t, l + 1 - k, l)}
<1>1. 0 \in T
  <2> SUFFICES ASSUME NEW h \in {"prefix", "words"} PROVE IsRow(parse[<<h, t, l + 1>>], t, l + 1, l)
    BY <1>0
  <2>1. Parts(parse, h, t, l + 1) = Nothing(l + 1)
    BY DEF Row, Parts, Ends, Separators
  <2>2. parse[<<h, t, l + 1>>] = Nothing(l + 1)
    BY <1>0, <2>1, PartsAre
  <2> QED BY <1>0, <2>2 DEF IsRow, Nothing
<1>2. ASSUME NEW k \in 1 .. n, k - 1 \in T PROVE k \in T
  <2> DEFINE j == l + 1 - k
             p == parse[<<"words", t, j + 1>>]
  <2>1. j \in Nat \ {0} /\ j \in i .. l /\ l + 1 - (k - 1) = j + 1 /\ j + 1 \in Nat
    BY <1>0
  <2>2. IsRow(p, t, j + 1, l)
    <3>1. IsRow(At("words", k - 1), t, l + 1 - (k - 1), l)
      BY <1>2
    <3> HIDE DEF j
    <3> QED BY <2>1, <3>1
  <2>3. Kind(t, j) = "word"
    BY <2>1 DEF Row
  <2>4. IsParts(p, t, j + 1)
    BY <2>1, PartsAre
  <2>5. ASSUME NEW h \in {"prefix", "words"} PROVE IsRow(At(h, k), t, j, l)
    <3> HIDE DEF p
    <3>1. At(h, k) = AddWord(t[j], p) /\ t[j] \in Token
      BY <2>1, <2>3, WordAt DEF p
    <3> HIDE DEF j, At
    <3> DEFINE q == AddWord(t[j], p)
    <3>2. /\ q.subs = p.subs /\ q.i = p.i /\ Len(q.words) = Len(p.words) + 1 /\ q.words[1] = t[j].w
          /\ \A m \in 1 .. Len(p.words) : q.words[m + 1] = p.words[m]
      <4>1. Worded(q, t[j], p)
        BY <2>1, <2>4, <3>1, WordIs
      <4> QED BY <4>1 DEF Worded
    <3> HIDE DEF q
    <3>3. /\ p.subs = <<>> /\ p.i = l + 1 /\ Len(p.words) = l - j
          /\ \A m \in 1 .. l - j : p.words[m] = t[j + m].w
      <4>1. l + 1 - (j + 1) = l - j /\ \A m \in 1 .. l - j : j + 1 + m - 1 = j + m
        BY <2>1, <1>0
      <4> QED BY <2>2, <4>1 DEF IsRow
    <3>4. Len(q.words) = l + 1 - j
      BY <3>2, <3>3, <2>1, <1>0
    <3>5. ASSUME NEW m \in 1 .. l + 1 - j PROVE q.words[m] = t[j + m - 1].w
      <4>1. CASE m = 1
        <5>1. j + m - 1 = j
          BY <4>1, <2>1
        <5> QED BY <4>1, <5>1, <3>2
      <4>2. CASE m # 1
        <5>1. m - 1 \in 1 .. l - j /\ m - 1 + 1 = m /\ j + m - 1 = j + (m - 1)
          BY <4>2, <2>1, <1>0
        <5>2. q.words[m - 1 + 1] = p.words[m - 1] /\ p.words[m - 1] = t[j + (m - 1)].w
          BY <5>1, <3>2, <3>3
        <5> QED BY <5>1, <5>2
      <4> QED BY <4>1, <4>2
    <3>6. IsRow(q, t, j, l)
      BY <3>2, <3>3, <3>4, <3>5 DEF IsRow
    <3> QED BY <3>1, <3>6 DEF q
  <2> QED BY <2>5
<1>3. n \in T
  <2>1. n \in Nat /\ T \in SUBSET (0 .. n)
    BY <1>0
  <2>2. \A k \in 1 .. n : k - 1 \in T => k \in T
    BY <1>2
  <2>3. n \in 0 .. n
    BY <2>1
  <2> HIDE DEF T, n
  <2>4. \A k \in 0 .. n : k \in T
    BY <1>1, <2>1, <2>2, UpTo
  <2> QED BY <2>3, <2>4
<1>4. l + 1 - n = i
  BY <1>0
<1>5. IsRow(At(g, n), t, l + 1 - n, l)
  BY <1>3
<1> HIDE DEF n
<1> QED BY <1>4, <1>5

(***************************************************************************)
(* What the parser makes of a command whose words are all known.           *)
(***************************************************************************)
LEMMA LastWordIs ==
  ASSUME NEW t \in Seq(Token), NEW i \in Commands(t)
  PROVE  /\ i \in 1 .. Len(t) /\ Kind(t, i) = "word" /\ LastWord(t, i) \in i .. Len(t)
         /\ \A k \in i .. LastWord(t, i) : Kind(t, k) = "word" /\ t[k] \in Token
<1> DEFINE R == {j \in i .. Len(t) : \A k \in i .. j : t[k].kind = "word"}
<1>1. i \in 1 .. Len(t) /\ t[i].kind = "word" /\ Len(t) \in Nat /\ DOMAIN t = 1 .. Len(t)
  BY KindIs DEF Commands
<1>2. i \in R /\ R \in SUBSET (0 .. Len(t))
  BY <1>1
<1>3. Max(R) \in R
  <2> HIDE DEF R
  <2> QED BY <1>1, <1>2, MaxIs
<1>4. LastWord(t, i) = Max(R)
  BY DEF LastWord
<1>5. LastWord(t, i) \in i .. Len(t) /\ \A k \in i .. LastWord(t, i) : t[k].kind = "word"
  BY <1>3, <1>4
<1>6. ASSUME NEW k \in i .. LastWord(t, i) PROVE Kind(t, k) = "word" /\ t[k] \in Token
  <2>1. k \in 1 .. Len(t)
    BY <1>1, <1>5
  <2>2. Kind(t, k) = t[k].kind /\ t[k] \in Token
    BY <1>1, <2>1, KindIs
  <2> QED BY <1>5, <2>2
<1> QED BY <1>1, <1>5, <1>6 DEF Kind

LEMMA ProperIs ==
  ASSUME NEW t \in Seq(Token), NEW i \in Commands(t), Proper(t, i) # 0
  PROVE  /\ Proper(t, i) \in i .. LastWord(t, i) /\ Proper(t, i) - i \in 0 .. Safety
         /\ t[Proper(t, i)].w \notin {"sudo", "exec"}
         /\ \A k \in i .. Proper(t, i) - 1 : t[k].w \in {"sudo", "exec"}
<1> DEFINE l == LastWord(t, i)
           rest == {j \in i .. l : t[j].w \notin {"sudo", "exec"}}
<1>1. i \in 1 .. Len(t) /\ l \in i .. Len(t) /\ Len(t) \in Nat
  BY LastWordIs, LenProperties
<1>2. rest # {} /\ ~(Min(rest) > i + Safety) /\ Proper(t, i) = Min(rest)
  BY DEF Proper
<1> HIDE DEF l
<1>3. rest \in SUBSET Nat /\ rest \subseteq i .. l
  BY <1>1
<1>4. Min(rest) \in rest /\ \A j \in rest : Min(rest) <= j
  <2> HIDE DEF rest
  <2> QED BY <1>2, <1>3, MinIs
<1> DEFINE m == Min(rest)
<1>5. m \in i .. l /\ t[m].w \notin {"sudo", "exec"} /\ ~(m > i + Safety)
  BY <1>2, <1>4
<1>6. ASSUME NEW k \in i .. m - 1 PROVE t[k].w \in {"sudo", "exec"}
  <2>1. k \notin rest
    <3> HIDE DEF rest
    <3>1. m \in Nat
      BY <1>1, <1>5
    <3> QED BY <1>1, <1>4, <3>1
  <2>2. k \in i .. l
    <3> HIDE DEF m
    <3> QED BY <1>1, <1>5
  <2> QED BY <2>1, <2>2
<1> HIDE DEF m
<1>7. m - i \in 0 .. Safety
  BY <1>1, <1>5 DEF Safety
<1> QED BY <1>2, <1>5, <1>6, <1>7 DEF m, l

\* The command proper is the argument vector.
LEMMA WholeCommand ==
  ASSUME NEW t \in Seq(Token), NEW i \in Commands(t), Whole(t, i), Proper(t, i) # 0,
         t[Proper(t, i)].w \notin COMPOUND_PREFIXES
  PROVE  LET p == parse[<<"prefix", t, i>>]
             n == Leaf(p)
             j == Proper(t, i)
             l == LastWord(t, i)
         IN /\ p.subs = <<>> /\ p.i = l + 1 /\ n.head = t[i].w /\ n.resolved
            /\ n.argv \in Seq(STRING) /\ Len(n.argv) = l + 1 - j
            /\ \A m \in 1 .. l + 1 - j : n.argv[m] = t[j + m - 1].w
<1> DEFINE p == parse[<<"prefix", t, i>>]
           n == Leaf(p)
           j == Proper(t, i)
           l == LastWord(t, i)
<1>1. /\ i \in 1 .. Len(t) /\ l \in i .. Len(t) /\ Len(t) \in Nat
      /\ \A k \in i .. l : Kind(t, k) = "word" /\ t[k] \in Token
  BY LastWordIs, LenProperties
<1>2. /\ j \in i .. l /\ j - i \in 0 .. Safety
      /\ \A k \in i .. j - 1 : t[k].w \in {"sudo", "exec"}
  BY ProperIs
<1>3. Kind(t, l + 1) \in Ends \cup {"none"} /\ \A k \in i .. l : t[k].w \notin Unresolved
  BY DEF Whole, Static
<1>4. i \in Nat \ {0} /\ l \in Nat /\ j \in Nat /\ i <= l + 1 /\ t[j].w \notin COMPOUND_PREFIXES
  BY <1>1, <1>2
<1> HIDE DEF l, j
<1>5. Row(t, i, l)
  BY <1>1, <1>3, <1>4 DEF Row
<1>6. IsRow(p, t, i, l)
  BY <1>5, RowIs
<1>7. IsParts(p, t, i)
  BY <1>4, PartsAre
<1> HIDE DEF p
<1>8. IsLeaf(n, p)
  BY <1>4, <1>7, LeafIs
<1> HIDE DEF n
<1> DEFINE words == p.words
<1>9. words \in Seq(STRING) /\ Len(words) = l + 1 - i /\ DOMAIN words = 1 .. l + 1 - i
      /\ \A m \in 1 .. l + 1 - i : words[m] = t[i + m - 1].w
  <2>1. words \in Seq(STRING)
    BY <1>7 DEF IsParts
  <2>2. DOMAIN words = 1 .. Len(words)
    BY <2>1, LenProperties
  <2> QED BY <2>1, <2>2, <1>6 DEF IsRow
<1> HIDE DEF words
<1>10. words[1] = t[i].w /\ words # <<>> /\ t[i].w \notin Unresolved
  <2>1. 1 \in 1 .. l + 1 - i /\ i + 1 - 1 = i /\ i \in i .. l
    BY <1>1, <1>4
  <2>2. words # <<>>
    BY <1>9, <2>1
  <2> QED BY <1>3, <1>9, <2>1, <2>2
<1>11. Known(p) = words
  <2>1. ASSUME NEW m \in 1 .. l + 1 - i PROVE words[m] \notin Unresolved
    <3>1. i + m - 1 \in i .. l
      BY <1>1, <1>4
    <3> QED BY <1>3, <1>9, <3>1
  <2> QED BY <2>1, <1>9 DEF Known, StaticWords, words
<1>12. /\ n.head = words[1]
       /\ n.argv = IF words = <<>> \/ words[1] \notin COMPOUND_PREFIXES THEN words ELSE Unwrap(words)
       /\ n.argv # <<>> => n.resolved
  BY <1>8, <1>10, <1>11 DEF IsLeaf, words
<1> DEFINE q == j - i + 1
           argv == SubSeq(words, q, Len(words))
<1>13. q \in 1 .. Len(words) /\ q - 1 \in 0 .. Safety /\ q - 1 < Len(words)
  BY <1>1, <1>2, <1>4, <1>9
<1>14. \A k \in 1 .. q - 1 : words[k] \in {"sudo", "exec"}
  <2> SUFFICES ASSUME NEW k \in 1 .. q - 1 PROVE words[k] \in {"sudo", "exec"}
    OBVIOUS
  <2>1. i + k - 1 \in i .. j - 1 /\ k \in 1 .. l + 1 - i
    BY <1>1, <1>2, <1>4
  <2> QED BY <1>2, <1>9, <2>1
<1>15. words[q] = t[j].w
  <2>1. q \in 1 .. l + 1 - i /\ i + q - 1 = j
    BY <1>1, <1>2, <1>4
  <2>2. words[q] = t[i + q - 1].w
    BY <1>9, <2>1
  <2> QED BY <2>1, <2>2
<1>16. n.argv = argv
  <2>1. CASE q = 1
    <3>1. words[1] \notin COMPOUND_PREFIXES
      BY <1>4, <1>15, <2>1
    <3>2. SubSeq(words, 1, Len(words)) = words
      BY <1>9
    <3> QED BY <1>12, <2>1, <3>1, <3>2
  <2>2. CASE q # 1
    <3> HIDE DEF q
    <3>1. words[1] \in COMPOUND_PREFIXES
      <4>1. 1 \in 1 .. q - 1
        BY <2>2, <1>13, <1>9
      <4> QED BY <4>1, <1>14 DEF COMPOUND_PREFIXES
    <3>2. q - 1 + 1 = q /\ words[q] \notin COMPOUND_PREFIXES
      BY <1>4, <1>13, <1>15
    <3>3. Unwrap(words) = SubSeq(words, q - 1 + 1, Len(words))
      BY <1>9, <1>13, <1>14, <3>2, UnwrapPlain
    <3> QED BY <1>10, <1>12, <3>1, <3>2, <3>3
  <2> QED BY <2>1, <2>2
<1>17. /\ argv \in Seq(STRING) /\ Len(argv) = Len(words) + 1 - q
       /\ \A k \in 1 .. Len(argv) : argv[k] = words[q + k - 1]
  <2>1. q \in 1 .. Len(words) + 1
    BY <1>9, <1>13
  <2> HIDE DEF q
  <2> QED BY <1>9, <2>1, SuffixIs
<1> HIDE DEF argv
<1>18. Len(argv) = l + 1 - j
  BY <1>9, <1>17, <1>1, <1>4
<1>19. ASSUME NEW m \in 1 .. l + 1 - j PROVE argv[m] = t[j + m - 1].w
  <2>1. q + m - 1 \in 1 .. l + 1 - i /\ i + (q + m - 1) - 1 = j + m - 1
    BY <1>1, <1>2, <1>4
  <2>2. argv[m] = words[q + m - 1]
    BY <1>17, <1>18
  <2> QED BY <1>9, <2>1, <2>2
<1>20. n.resolved
  <2>1. argv # <<>>
    <3>1. Len(argv) >= 1
      BY <1>18, <1>2, <1>4, <1>1
    <3> QED BY <3>1
  <2> QED BY <2>1, <1>12, <1>16
<1>21. p.subs = <<>> /\ p.i = l + 1
  BY <1>6 DEF IsRow
<1> QED BY <1>10, <1>12, <1>16, <1>17, <1>18, <1>19, <1>20, <1>21 DEF n, p, j, l

(***************************************************************************)
(* What a node knows of the tokens below it.                               *)
(***************************************************************************)
\* The name of the command that starts at position k, 0 if it is hidden.
NameAt(t, k) == IF Whole(t, k) THEN Proper(t, k) ELSE k

Named(n, t, k) ==
  k \in Commands(t) /\ NameAt(t, k) # 0 /\ Static(t[NameAt(t, k)])
    => NameIndicators(t[NameAt(t, k)].w) \subseteq n.indicators
Piped(n, t, k) == PipedToShell(t, k) => "pipe_to_interpreter" \in n.indicators
Human(n, t, k) == HumansOnly(t, k) => \E m \in Nodes(n) : isAdminCliInvocation(m)
Clean(t, k) == (k \in Expanded(t) => Static(t[k])) /\ Kind(t, k) # "process_sub"

Covers(n, t, k) ==
  Named(n, t, k) /\ Human(n, t, k) /\ (n.confidence = "high" => Clean(t, k))

\* Nothing has to be known of the other tokens.
Neutral(t, k) == Kind(t, k) \notin {"word", "assignment", "process_sub"}

LEMMA NeutralIs ==
  ASSUME NEW t, NEW k, Neutral(t, k), NEW n
  PROVE  Covers(n, t, k) /\ Piped(n, t, k) /\ Clean(t, k)
<1>1. k \notin Commands(t) /\ k \notin Expanded(t)
  BY DEF Neutral, Commands, Expanded, Kind
<1> QED BY <1>1 DEF Covers, Named, Human, HumansOnly, Piped, PipedToShell, Clean, Neutral

LEMMA AboveCovers ==
  ASSUME NEW n, NEW c, Above(n, c), NEW t, NEW k
  PROVE  (Covers(c, t, k) => Covers(n, t, k)) /\ (Piped(c, t, k) => Piped(n, t, k))
BY DEF Above, Covers, Named, Human, Piped

\* The node of a simple command, its inline body included.
CommandNode(p, inner) ==
  WithIndicators(IF InlineBody(Leaf(p)) = <<>> THEN Leaf(p)
                 ELSE maybeUnwrapInlineDashC(Leaf(p), inner))

CommandNodeOf(n, p) ==
  /\ n.argv = Leaf(p).argv /\ n.head = Leaf(p).head /\ n.resolved = Leaf(p).resolved
  /\ NameIndicators(IF n.argv # <<>> THEN n.argv[1] ELSE n.head) \subseteq n.indicators
  /\ n.confidence = "high" => p.confidence = "high" /\ p.subs = <<>>
  /\ \A m \in DOMAIN p.subs : /\ p.subs[m].indicators \subseteq n.indicators
                              /\ Nodes(p.subs[m]) \subseteq Nodes(n)

LEMMA CommandNodeIs ==
  ASSUME NEW t, NEW i \in Nat, NEW p, IsParts(p, t, i),
         NEW inner, InlineBody(Leaf(p)) # <<>> => IsNode(inner)
  PROVE  CommandNodeOf(CommandNode(p, inner), p)
<1> DEFINE leaf == Leaf(p)
           body == InlineBody(leaf)
           n == CommandNode(p, inner)
<1>1. IsLeaf(leaf, p) /\ IsList(p.subs)
  <2>1. IsList(p.subs)
    BY DEF IsParts
  <2> QED BY <2>1, LeafIs
<1>2. /\ IsNode(leaf) /\ leaf.children = p.subs /\ leaf.below = Under(p.subs)
      /\ leaf.confidence = "high" => p.confidence = "high" /\ p.subs = <<>>
  BY <1>1 DEF IsLeaf
<1>3. n = WithIndicators(IF body = <<>> THEN leaf ELSE maybeUnwrapInlineDashC(leaf, inner))
  BY DEF CommandNode
<1> HIDE DEF leaf, body
<1>4. CommandOf(n, leaf)
  <2>1. body # <<>> => IsNode(inner)
    BY DEF body, leaf
  <2>2. IsList(leaf.children) /\ leaf.below = Under(leaf.children)
    BY <1>1, <1>2
  <2> QED BY <1>2, <1>3, <2>1, <2>2, CommandIs
<1> HIDE DEF n
<1> QED BY <1>2, <1>4 DEF n, leaf, CommandOf, CommandNodeOf

\* Prefixes name no sink.
LEMMA PrefixNames ==
  ASSUME NEW w \in COMPOUND_PREFIXES
  PROVE  NameIndicators(w) = {}
BY DEF COMPOUND_PREFIXES, NameIndicators, INTERPRETER_NAMES

\* The node of the command that starts at position i.
LEMMA OwnCommand ==
  ASSUME NEW t \in Seq(Token), NEW i \in Commands(t), NEW inner,
         InlineBody(Leaf(parse[<<"prefix", t, i>>])) # <<>> => IsNode(inner)
  PROVE  LET p == parse[<<"prefix", t, i>>]
             n == CommandNode(p, inner)
         IN /\ Named(n, t, i) /\ Human(n, t, i)
            /\ PipedToShell(t, i) => IsInterpreter(n) /\ Kind(t, p.i) # "pipe"
<1> DEFINE p == parse[<<"prefix", t, i>>]
           leaf == Leaf(p)
           n == CommandNode(p, inner)
           j == Proper(t, i)
           l == LastWord(t, i)
<1>1. i \in 1 .. Len(t) /\ Kind(t, i) = "word" /\ Len(t) \in Nat /\ l \in i .. Len(t)
  BY LastWordIs, LenProperties
<1>2. IsParts(p, t, i)
  BY <1>1, PartsAre
<1>3. /\ n.argv = leaf.argv /\ n.head = leaf.head /\ n.resolved = leaf.resolved
      /\ NameIndicators(IF n.argv # <<>> THEN n.argv[1] ELSE n.head) \subseteq n.indicators
  <2>1. i \in Nat
    BY <1>1
  <2>2. CommandNodeOf(n, p)
    BY <1>2, <2>1, CommandNodeIs
  <2> QED BY <2>2 DEF CommandNodeOf
<1> HIDE DEF n
<1>4. ASSUME Whole(t, i), j # 0, t[j].w \notin COMPOUND_PREFIXES
      PROVE  /\ p.i = l + 1 /\ n.head = t[i].w /\ n.resolved
             /\ n.argv \in Seq(STRING) /\ Len(n.argv) = l + 1 - j
             /\ \A m \in 1 .. l + 1 - j : n.argv[m] = t[j + m - 1].w
             /\ n.argv # <<>> /\ n.argv[1] = t[j].w /\ j \in i .. l
  <2>1. /\ p.i = l + 1 /\ leaf.head = t[i].w /\ leaf.resolved
        /\ leaf.argv \in Seq(STRING) /\ Len(leaf.argv) = l + 1 - j
        /\ \A m \in 1 .. l + 1 - j : leaf.argv[m] = t[j + m - 1].w
    BY <1>4, WholeCommand
  <2>2. j \in i .. l
    BY <1>4, ProperIs
  <2> HIDE DEF j, l, leaf, p
  <2>3. 1 \in 1 .. l + 1 - j /\ j + 1 - 1 = j /\ l + 1 - j >= 1
    BY <2>2, <1>1
  <2>4. leaf.argv # <<>>
    BY <2>1, <2>3
  <2> QED BY <1>3, <2>1, <2>2, <2>3, <2>4
<1>5. Named(n, t, i)
  <2>1. CASE Whole(t, i)
    <3> SUFFICES ASSUME j # 0 PROVE NameIndicators(t[j].w) \subseteq n.indicators
      BY <2>1 DEF Named, NameAt
    <3>1. CASE t[j].w \in COMPOUND_PREFIXES
      BY <3>1, PrefixNames
    <3>2. CASE t[j].w \notin COMPOUND_PREFIXES
      BY <1>3, <1>4, <2>1, <3>2
    <3> QED BY <3>1, <3>2
  <2>2. CASE ~Whole(t, i)
    <3> SUFFICES ASSUME Static(t[i]) PROVE NameIndicators(t[i].w) \subseteq n.indicators
      BY <2>2 DEF Named, NameAt
    <3> DEFINE q == parse[<<"words", t, i + 1>>]
    <3>1. p = AddWord(t[i], q) /\ t[i] \in Token
      BY <1>1, WordAt
    <3>2. IsParts(q, t, i + 1)
      BY <1>1, PartsAre
    <3> HIDE DEF q, p
    <3>3. Worded(p, t[i], q)
      BY <1>1, <3>1, <3>2, WordIs
    <3>4. Len(p.words) = Len(q.words) + 1 /\ p.words[1] = t[i].w
      BY <3>3 DEF Worded
    <3>5. Len(q.words) \in Nat
      BY <3>2, LenProperties DEF IsParts
    <3>6. p.words # <<>>
      BY <3>4, <3>5
    <3>7. IsLeaf(leaf, p)
      BY <1>1, <1>2, LeafIs
    <3>8. leaf.head = t[i].w
      BY <3>4, <3>6, <3>7 DEF IsLeaf, Static
    <3>9. leaf.argv = IF Known(p) = <<>> \/ Known(p)[1] \notin COMPOUND_PREFIXES
                      THEN Known(p) ELSE Unwrap(Known(p))
      BY <3>7 DEF IsLeaf
    <3>10. Known(p) # <<>> => Known(p)[1] = t[i].w
      BY <3>4 DEF Known
    <3> HIDE DEF leaf
    <3>11. CASE t[i].w \in COMPOUND_PREFIXES
      BY <3>11, PrefixNames
    <3>12. CASE t[i].w \notin COMPOUND_PREFIXES
      <4>1. leaf.argv = Known(p)
        BY <3>9, <3>10, <3>12
      <4>2. (IF n.argv # <<>> THEN n.argv[1] ELSE n.head) = t[i].w
        BY <4>1, <1>3, <3>8, <3>10
      <4> QED BY <4>2, <1>3
    <3> QED BY <3>11, <3>12
  <2> QED BY <2>1, <2>2
<1>6. PipedToShell(t, i) => IsInterpreter(n) /\ Kind(t, p.i) # "pipe"
  <2> SUFFICES ASSUME PipedToShell(t, i) PROVE IsInterpreter(n) /\ Kind(t, p.i) # "pipe"
    OBVIOUS
  <2>1. Whole(t, i) /\ j # 0 /\ t[j].w \in INTERPRETER_NAMES /\ Kind(t, l + 1) # "pipe"
    BY DEF PipedToShell
  <2>2. t[j].w \notin COMPOUND_PREFIXES
    BY <2>1 DEF INTERPRETER_NAMES, COMPOUND_PREFIXES
  <2> HIDE DEF j, l, p
  <2> QED BY <2>1, <2>2, <1>4 DEF IsInterpreter
<1>7. Human(n, t, i)
  <2> SUFFICES ASSUME HumansOnly(t, i) PROVE isAdminCliInvocation(n)
    BY DEF Human, Nodes
  <2> DEFINE k == IF t[i].w = "exec" /\ t[j].w = "-a" THEN j + 2 ELSE j
  <2>1. Whole(t, i) /\ j # 0 /\ k < l /\ t[k].w = "patchwork" /\ t[k + 1].w = "approve"
    BY DEF HumansOnly
  <2>2. t[j].w \notin COMPOUND_PREFIXES
    BY <2>1 DEF COMPOUND_PREFIXES
  <2>3. /\ n.head = t[i].w /\ n.resolved
        /\ n.argv \in Seq(STRING) /\ Len(n.argv) = l + 1 - j
        /\ \A m \in 1 .. l + 1 - j : n.argv[m] = t[j + m - 1].w
        /\ n.argv # <<>> /\ n.argv[1] = t[j].w /\ j \in i .. l
    BY <2>1, <2>2, <1>4
  <2> HIDE DEF j, l, p, leaf
  <2> DEFINE argv == peelModifierFlags(n.argv, n.head)
  <2>4. j \in Nat /\ l \in Nat
    <3>1. l \in i .. Len(t) /\ i \in 1 .. Len(t) /\ Len(t) \in Nat /\ j \in i .. l
      BY <1>1, <2>3
    <3> QED BY <3>1
  <2> SUFFICES Len(argv) >= 2 /\ argv[1] = "patchwork" /\ argv[2] = "approve"
    BY <2>3 DEF isAdminCliInvocation
  <2>5. CASE t[i].w # "exec"
    <3>1. argv = n.argv /\ k = j
      BY <2>5, <2>3 DEF peelModifierFlags
    <3>2. 2 \in 1 .. l + 1 - j /\ j + 2 - 1 = j + 1 /\ l + 1 - j >= 2
      BY <2>1, <2>4, <3>1
    <3>3. n.argv[2] = t[j + 2 - 1].w
      BY <2>3, <3>2
    <3> QED BY <3>1, <3>2, <3>3, <2>1, <2>3
  <2>6. CASE t[i].w = "exec"
    <3> DEFINE q == IF t[j].w = "-a" THEN 3 ELSE 1
    <3>0. k = j + q - 1 /\ l + 1 - j >= q + 1 /\ q \in {1, 3}
      BY <2>1, <2>4, <2>6
    <3>1. q \in 1 .. l + 1 - j /\ q + 1 \in 1 .. l + 1 - j
      BY <3>0, <2>4
    <3>2. n.argv[q] = "patchwork" /\ n.argv[q + 1] = "approve"
      <4>1. j + (q + 1) - 1 = k + 1
        BY <3>0, <2>4
      <4>2. n.argv[q] = t[j + q - 1].w /\ n.argv[q + 1] = t[j + (q + 1) - 1].w
        BY <2>3, <3>1
      <4> QED BY <4>1, <4>2, <3>0, <2>1
    <3>3. AfterFlags(n.argv, q, {"-a"}) = q
      <4>1. q \in 1 .. Len(n.argv) + 2 /\ ~(q > Len(n.argv)) /\ n.argv[q] \notin Flags
        BY <2>3, <2>4, <3>1, <3>2 DEF Flags
      <4> HIDE DEF q
      <4> QED BY <4>1, <2>3, AfterFlagsIs
    <3>4. AfterFlags(n.argv, 1, {"-a"}) = q
      <4>1. CASE t[j].w = "-a"
        <5>1. n.argv[1] \in Flags /\ n.argv[1] \in {"-a"} /\ ~(1 > Len(n.argv)) /\ 1 < Len(n.argv)
          <6>1. n.argv[1] = "-a"
            BY <2>3, <4>1
          <6>2. Len(n.argv) >= 4
            BY <2>3, <3>0, <4>1
          <6>3. Len(n.argv) \in Nat
            BY <2>3, LenProperties
          <6> QED BY <6>1, <6>2, <6>3 DEF Flags
        <5>2. 1 \in 1 .. Len(n.argv) + 2
          <6>1. Len(n.argv) \in Nat
            BY <2>3, LenProperties
          <6> QED BY <6>1
        <5>3. AfterFlags(n.argv, 1, {"-a"}) = AfterFlags(n.argv, 1 + 2, {"-a"})
          BY <5>1, <5>2, <2>3, AfterFlagsIs
        <5>4. 1 + 2 = q
          BY <4>1
        <5> QED BY <5>3, <5>4, <3>3
      <4>2. CASE t[j].w # "-a"
        BY <4>2, <3>3
      <4> QED BY <4>1, <4>2
    <3> HIDE DEF q
    <3>5. argv = SubSeq(n.argv, q, Len(n.argv))
      BY <2>3, <2>6, <3>4 DEF peelModifierFlags
    <3>6. q \in 1 .. Len(n.argv) + 1
      BY <2>3, <2>4, <3>1
    <3>7. /\ Len(argv) = Len(n.argv) + 1 - q
          /\ \A m \in 1 .. Len(argv) : argv[m] = n.argv[q + m - 1]
      <4>1. n.argv \in Seq(STRING)
        BY <2>3
      <4> HIDE DEF argv
      <4> QED BY <3>5, <3>6, <4>1, SuffixIs
    <3> HIDE DEF argv
    <3>8. Len(argv) >= 2 /\ 1 \in 1 .. Len(argv) /\ 2 \in 1 .. Len(argv)
          /\ q + 1 - 1 = q /\ q + 2 - 1 = q + 1
      BY <2>3, <2>4, <3>0, <3>1, <3>7
    <3>9. argv[1] = n.argv[q + 1 - 1] /\ argv[2] = n.argv[q + 2 - 1]
      BY <3>7, <3>8
    <3> QED BY <3>2, <3>8, <3>9
  <2> QED BY <2>5, <2>6
<1> QED BY <1>5, <1>6, <1>7 DEF n, p

(***************************************************************************)
(* What the rules reach in a well-formed command: they pass over whole     *)
(* brackets, stop at the end of what they parse, and know of every token   *)
(* on the way.                                                             *)
(***************************************************************************)
\* From position i to position j the brackets close, or the command ends.
Level(t, i, j) == i <= j /\ j <= Len(t) + 1 /\ (j = Len(t) + 1 \/ Balanced(t, i, j))

Stops == Ends \cup {"none"}
Outer == {"none", "rparen"}

InSubs(p, t, k) ==
  \E m \in DOMAIN p.subs :
    Named(p.subs[m], t, k) /\ Human(p.subs[m], t, k) /\ Piped(p.subs[m], t, k)

ReachedSequence(t, i, r) ==
  Kind(t, i - 1) # "pipe" =>
    /\ Level(t, i, r.i) /\ Kind(t, r.i) \in Outer
    /\ \A k \in i .. r.i - 1 : Covers(r.node, t, k) /\ Piped(r.node, t, k)

ReachedSegments(t, i, r) ==
  Kind(t, i - 1) # "pipe" =>
    /\ Level(t, i, r.i) /\ Kind(t, r.i) \in Outer
    /\ \A k \in i .. r.i - 1 :
         Neutral(t, k) \/ \E m \in DOMAIN r.nodes : Covers(r.nodes[m], t, k) /\ Piped(r.nodes[m], t, k)

ReachedStages(t, i, r) ==
  /\ Level(t, i, r.i) /\ Kind(t, r.i) \in Outer \cup Separators
  /\ \A k \in i .. r.i - 1 :
       /\ Neutral(t, k) \/ \E m \in DOMAIN r.nodes : Covers(r.nodes[m], t, k)
       /\ PipedToShell(t, k) =>
            \/ \E m \in DOMAIN r.nodes : "pipe_to_interpreter" \in r.nodes[m].indicators
            \/ IsInterpreter(r.nodes[Len(r.nodes)]) /\ (k # i => Len(r.nodes) >= 2)

ReachedCommand(t, i, r) ==
  /\ Level(t, i, r.i) /\ Kind(t, r.i) \in Stops
  /\ \A k \in i .. r.i - 1 : Covers(r.node, t, k) /\ (k # i => Piped(r.node, t, k))
  /\ PipedToShell(t, i) => IsInterpreter(r.node) /\ Kind(t, r.i) # "pipe"

ReachedParts(t, i, r) ==
  Kind(t, i) # "lparen" =>
    /\ Level(t, i, r.i) /\ Kind(t, r.i) \in Stops
    /\ \A k \in i + 1 .. r.i - 1 : k \in Commands(t) => InSubs(r, t, k)
    /\ r.confidence = "high" /\ r.subs = <<>> => \A k \in i .. r.i - 1 : Clean(t, k)
    /\ r.assigned => r.confidence # "high"

Reached(g, t, i) ==
  LET r == parse[<<g, t, i>>]
  IN CASE g = "sequence" -> ReachedSequence(t, i, r)
       [] g = "segments" -> ReachedSegments(t, i, r)
       [] g = "stages" -> ReachedStages(t, i, r)
       [] g = "command" -> ReachedCommand(t, i, r)
       [] g \in {"prefix", "words"} -> ReachedParts(t, i, r)
       [] OTHER -> TRUE

\* What the rules that are called have reached.
Before(g, t, i) ==
  \A h \in Grammar, j \in 1 .. Len(t) + 1 : Mu(h, t, j) < Mu(g, t, i) => Reached(h, t, j)

LEMMA LevelTrans ==
  ASSUME NEW t \in Seq(Token), NEW i \in Nat \ {0}, NEW j \in Nat, NEW k \in Nat,
         Level(t, i, j), Level(t, j, k)
  PROVE  Level(t, i, k)
<1>1. Len(t) \in Nat /\ i <= j /\ j <= Len(t) + 1 /\ j <= k /\ k <= Len(t) + 1
  BY LenProperties DEF Level
<1>2. CASE k = Len(t) + 1
  BY <1>1, <1>2 DEF Level
<1>3. CASE k # Len(t) + 1
  <2>1. j # Len(t) + 1
    BY <1>1, <1>3
  <2>2. Balanced(t, i, j) /\ Balanced(t, j, k)
    BY <1>3, <2>1 DEF Level
  <2> QED BY <1>1, <2>2, BalancedTrans DEF Level
<1> QED BY <1>2, <1>3

LEMMA LevelNil ==
  ASSUME NEW t \in Seq(Token), NEW i \in 1 .. Len(t) + 1
  PROVE  Level(t, i, i)
<1>1. Len(t) \in Nat /\ i \in Nat \ {0}
  BY LenProperties
<1> QED BY <1>1, BalancedNil DEF Level

LEMMA LevelOne ==
  ASSUME NEW t \in Seq(Token), NEW i \in 1 .. Len(t),
         Kind(t, i) \notin {"lparen", "process_sub", "rparen"}
  PROVE  Level(t, i, i + 1)
<1>1. Len(t) \in Nat /\ i \in Nat \ {0}
  BY LenProperties
<1> QED BY <1>1, BalancedOne DEF Level

\* A bracket, what it encloses and the ) after that.
LEMMA LevelBrackets ==
  ASSUME NEW t \in Seq(Token), NEW i \in 1 .. Len(t), Kind(t, i) \in {"lparen", "process_sub"},
         NEW r \in Nat, Level(t, i + 1, r), Kind(t, r) \in Outer
  PROVE  /\ Level(t, i, Close(t, r))
         /\ Close(t, r) \in Nat /\ i < r
         /\ Close(t, r) = IF Kind(t, r) = "rparen" THEN r + 1 ELSE r
         /\ Kind(t, r) = "rparen" => r \in 1 .. Len(t) /\ Opener(t, r) = i
         /\ Kind(t, r) # "rparen" => Kind(t, Close(t, r)) = "none"
<1>1. Len(t) \in Nat /\ i \in Nat \ {0} /\ i + 1 <= r /\ r <= Len(t) + 1
  BY LenProperties DEF Level
<1>2. Kind(t, r) = "none" <=> r \notin 1 .. Len(t)
  BY KindIs
<1>3. CASE Kind(t, r) = "rparen"
  <2>1. r \in 1 .. Len(t) /\ r # Len(t) + 1 /\ DOMAIN t = 1 .. Len(t)
    BY <1>1, <1>2, <1>3, KindIs
  <2>2. Balanced(t, i + 1, r)
    BY <2>1 DEF Level
  <2>3. Balanced(t, i, r + 1) /\ Opener(t, r) = i
    BY <1>1, <1>3, <2>1, <2>2, Brackets
  <2> QED BY <1>1, <1>3, <2>1, <2>3 DEF Level, Close
<1>4. CASE Kind(t, r) = "none"
  <2>1. r = Len(t) + 1
    BY <1>1, <1>2, <1>4
  <2> QED BY <1>1, <1>4, <2>1 DEF Level, Close
<1> QED BY <1>3, <1>4 DEF Outer

\* Inside a command nothing begins.
LEMMA NotFirst ==
  ASSUME NEW t \in Seq(Token), WellFormed(t), NEW k \in 2 .. Len(t) + 1,
         Kind(t, k - 1) \notin Separators \cup {"pipe", "lparen", "process_sub"}
  PROVE  k \notin Commands(t) /\ Kind(t, k) # "lparen"
<1>1. Len(t) \in Nat /\ DOMAIN t = 1 .. Len(t) /\ k - 1 \in DOMAIN t /\ k # 1
  BY LenProperties
<1>2. ~Begins(t, k)
  BY <1>1 DEF Begins, Kind
<1> QED BY <1>1, <1>2 DEF Commands, WellFormed, Kind

\* Tokens of the command itself, from position i up to j, in front of the rest.
LEMMA OwnTokens ==
  ASSUME NEW t \in Seq(Token), WellFormed(t), NEW i \in 1 .. Len(t), NEW j \in Nat,
         i < j, j <= Len(t) + 1,
         Kind(t, i) \in {"comment", "redirect", "heredoc_marker", "assignment", "word"},
         \A k \in i + 1 .. j - 1 : Kind(t, k) = "word",
         NEW rest, ReachedParts(t, j, rest), rest.i \in Nat,
         NEW r, r.i = rest.i, r.subs = rest.subs,
         (rest.assigned => rest.confidence # "high") => (r.assigned => r.confidence # "high"),
         r.confidence = "high" => rest.confidence = "high" /\ \A k \in i .. j - 1 : Clean(t, k)
  PROVE  ReachedParts(t, i, r)
<1>0. Len(t) \in Nat /\ i \in Nat \ {0} /\ i + 1 \in Nat
  BY LenProperties
<1>1. \A k \in i .. j - 1 : Kind(t, k) \in {"comment", "redirect", "heredoc_marker", "assignment", "word"}
  <2>1. \A k \in i .. j - 1 : k = i \/ k \in i + 1 .. j - 1
    BY <1>0
  <2> QED BY <2>1
<1>2. ASSUME NEW k \in i + 1 .. j PROVE k \notin Commands(t) /\ Kind(t, k) # "lparen"
  <2>1. k \in 2 .. Len(t) + 1 /\ k - 1 \in i .. j - 1
    BY <1>0
  <2>2. Kind(t, k - 1) \notin Separators \cup {"pipe", "lparen", "process_sub"}
    BY <1>1, <2>1 DEF Separators
  <2> QED BY <2>1, <2>2, NotFirst
<1>3. /\ Level(t, j, rest.i) /\ Kind(t, rest.i) \in Stops
      /\ \A k \in j + 1 .. rest.i - 1 : k \in Commands(t) => InSubs(rest, t, k)
      /\ rest.confidence = "high" /\ rest.subs = <<>> => \A k \in j .. rest.i - 1 : Clean(t, k)
      /\ r.assigned => r.confidence # "high"
  <2>1. j \in i + 1 .. j
    BY <1>0
  <2>2. Kind(t, j) # "lparen"
    BY <1>2, <2>1
  <2> QED BY <2>2 DEF ReachedParts
<1>4. Level(t, i, j)
  <2>1. CASE j = Len(t) + 1
    BY <2>1, <1>0 DEF Level
  <2>2. CASE j # Len(t) + 1
    <3> DEFINE n == j - i
               T == {k \in 0 .. n : Level(t, i, i + k)}
    <3>1. 0 \in T
      <4>1. i \in 1 .. Len(t) + 1 /\ i + 0 = i
        BY <1>0
      <4> QED BY <4>1, <1>0, LevelNil
    <3>2. ASSUME NEW k \in 1 .. n, k - 1 \in T PROVE k \in T
      <4>1. i + (k - 1) \in i .. j - 1 /\ i + (k - 1) \in 1 .. Len(t) /\ i + (k - 1) + 1 = i + k
            /\ i + (k - 1) \in Nat /\ i + k \in Nat
        BY <1>0
      <4>2. Level(t, i + (k - 1), i + (k - 1) + 1)
        BY <4>1, <1>1, LevelOne
      <4>3. Level(t, i, i + (k - 1))
        BY <3>2
      <4>4. Level(t, i, i + k)
        BY <1>0, <4>1, <4>2, <4>3, LevelTrans
      <4> QED BY <4>4
    <3>3. n \in T
      <4>1. n \in Nat /\ T \in SUBSET (0 .. n) /\ n \in 0 .. n
        BY <1>0
      <4> HIDE DEF T, n
      <4> QED BY <3>1, <3>2, <4>1, UpTo
    <3>4. i + n = j
      BY <1>0
    <3> QED BY <3>3, <3>4
  <2> QED BY <2>1, <2>2
<1>5. Level(t, i, rest.i)
  BY <1>0, <1>3, <1>4, LevelTrans
<1>6. ASSUME NEW k \in i + 1 .. r.i - 1, k \in Commands(t) PROVE InSubs(r, t, k)
  <2>1. k \in j + 1 .. rest.i - 1
    BY <1>0, <1>2, <1>6
  <2>2. InSubs(rest, t, k)
    BY <1>3, <1>6, <2>1
  <2> QED BY <2>2 DEF InSubs
<1>7. ASSUME r.confidence = "high", r.subs = <<>>, NEW k \in i .. r.i - 1 PROVE Clean(t, k)
  <2>1. CASE k \in i .. j - 1
    BY <1>7, <2>1
  <2>2. CASE k \notin i .. j - 1
    <3>1. k \in j .. rest.i - 1
      BY <1>0, <2>2
    <3> QED BY <1>3, <1>7, <3>1
  <2> QED BY <2>1, <2>2
<1> QED BY <1>3, <1>5, <1>6, <1>7 DEF ReachedParts

\* What the other tokens of a command do to its parts.
LEMMA LowerIs ==
  ASSUME NEW t, NEW i \in Nat, NEW p, IsParts(p, t, i)
  PROVE  /\ Lower(p).confidence # "high" /\ Lower(p).subs = p.subs /\ Lower(p).i = p.i
         /\ Lower(p).assigned = p.assigned
         /\ Lower(p) = [p EXCEPT !.confidence = Lower(p).confidence]
<1> DEFINE C == {p.confidence, "low"}
           c == mergeConfidence(C)
<1>1. p \in [words : Seq(STRING), redirects : {p.redirects}, subs : {p.subs},
             confidence : Levels3, assigned : BOOLEAN, i : Nat]
  BY DEF IsParts
<1>2. c # "high"
  <2>1. C \in SUBSET Levels3 /\ "low" \in C
    BY <1>1 DEF Levels3
  <2> HIDE DEF C
  <2> QED BY <2>1, MergeIs
<1>3. Lower(p) = [p EXCEPT !.confidence = c]
  BY DEF Lower
<1> HIDE DEF c
<1> QED BY <1>1, <1>2, <1>3

\* q is p with the redirect at position i in front.
Redirected(q, t, i, p) ==
  /\ q.subs = p.subs /\ q.i = p.i /\ q.assigned = p.assigned
  /\ q.confidence = "high" => p.confidence = "high" /\ HasTarget(t, i) /\ Static(t[i + 1])

LEMMA RedirectIs ==
  ASSUME NEW t, NEW i \in Nat, NEW j \in Nat, NEW p, IsParts(p, t, j)
  PROVE  Redirected(AddRedirect(t, i, p), t, i, p)
<1>1. p \in [words : Seq(STRING), redirects : {p.redirects}, subs : {p.subs},
             confidence : Levels3, assigned : BOOLEAN, i : Nat]
  BY DEF IsParts
<1>2. CASE HasTarget(t, i) /\ Static(t[i + 1])
  <2> DEFINE red == p.redirects \cup {[kind |-> t[i].w, to |-> t[i + 1].w]}
  <2>1. AddRedirect(t, i, p) = [p EXCEPT !.redirects = red]
    BY <1>2 DEF AddRedirect
  <2> HIDE DEF red
  <2> QED BY <1>1, <1>2, <2>1 DEF Redirected
<1>3. CASE ~(HasTarget(t, i) /\ Static(t[i + 1]))
  BY <1>3, LowerIs DEF AddRedirect, Redirected
<1> QED BY <1>2, <1>3

LEMMA HeredocIs ==
  ASSUME NEW t, NEW i \in Nat, NEW j \in Nat, NEW p, IsParts(p, t, j)
  PROVE  LET q == AddHeredoc(t, i, p)
         IN q.subs = p.subs /\ q.i = p.i /\ q.assigned = p.assigned /\ q.confidence = p.confidence
<1> DEFINE red == p.redirects \cup {[kind |-> t[i].w, to |-> t[i + 2].w]}
           q == [p EXCEPT !.redirects = red]
<1>1. q.subs = p.subs /\ q.i = p.i /\ q.assigned = p.assigned /\ q.confidence = p.confidence
  <2> HIDE DEF red
  <2> QED BY DEF IsParts
<1>2. AddHeredoc(t, i, p) \in {p, q}
  BY DEF AddHeredoc
<1> HIDE DEF q
<1> QED BY <1>1, <1>2

LEMMA AssignmentIs ==
  ASSUME NEW t, NEW i \in Nat, NEW p, IsParts(p, t, i), NEW tok
  PROVE  LET q == AddAssignment(tok, p)
         IN /\ q.subs = p.subs /\ q.i = p.i
            /\ q.confidence = "high" => p.confidence = "high" /\ Static(tok) /\ q.assigned = p.assigned
<1>1. p \in [words : Seq(STRING), redirects : {p.redirects}, subs : {p.subs},
             confidence : Levels3, assigned : BOOLEAN, i : Nat]
  BY DEF IsParts
<1>2. CASE Static(tok)
  BY <1>2 DEF AddAssignment
<1>3. CASE ~Static(tok)
  <2> DEFINE l == Lower(p)
             c == l.confidence
  <2>1. c # "high" /\ l = [p EXCEPT !.confidence = c]
    BY LowerIs
  <2>2. AddAssignment(tok, p) = [l EXCEPT !.assigned = TRUE]
    BY <1>3 DEF AddAssignment
  <2> HIDE DEF c, l
  <2> QED BY <1>1, <2>1, <2>2
<1> QED BY <1>2, <1>3

LEMMA CleanIs ==
  ASSUME NEW t, NEW k, Kind(t, k) \in {"word", "assignment"}, Static(t[k])
  PROVE  Clean(t, k)
BY DEF Clean

\* A process substitution knows what the sequence in it knows.
LEMMA SubKnows ==
  ASSUME NEW n, IsNode(n), NEW t, NEW k, Covers(n, t, k), Piped(n, t, k)
  PROVE  LET c == [n EXCEPT !.op = "process_sub"]
         IN Named(c, t, k) /\ Human(c, t, k) /\ Piped(c, t, k)
<1> DEFINE c == [n EXCEPT !.op = "process_sub"]
<1>1. /\ c.argv = n.argv /\ c.head = n.head /\ c.resolved = n.resolved
      /\ c.below = n.below /\ c.indicators = n.indicators
  BY DEF IsNode
<1> HIDE DEF c
<1>2. isAdminCliInvocation(n) => isAdminCliInvocation(c)
  BY <1>1 DEF isAdminCliInvocation
<1>3. Named(c, t, k) /\ Piped(c, t, k)
  BY <1>1 DEF Covers, Named, Piped
<1>4. Human(c, t, k)
  BY <1>1, <1>2 DEF Covers, Human, Nodes
<1> QED BY <1>3, <1>4 DEF c

LEMMA ReachProcessSub ==
  ASSUME NEW t \in Seq(Token), WellFormed(t), NEW i \in 1 .. Len(t), NEW g \in {"prefix", "words"},
         Before(g, t, i), Kind(t, i) = "process_sub"
  PROVE  ReachedParts(t, i, parse[<<g, t, i>>])
<1> DEFINE inner == parse[<<"sequence", t, i + 1>>]
           j == Close(t, inner.i)
           rest == parse[<<g, t, j>>]
           child == [inner.node EXCEPT !.op = "process_sub"]
           subs == <<child>> \o rest.subs
           r == parse[<<g, t, i>>]
<1>0. Len(t) \in Nat /\ i \in Nat \ {0} /\ i + 1 \in 1 .. Len(t) + 1 /\ i + 1 \in Nat /\ g \in Grammar
      /\ DOMAIN t = 1 .. Len(t)
  BY LenProperties, IsGrammar
<1>1. Good("sequence", t, i + 1, inner)
  BY <1>0, ParserReturns, IsGrammar
<1>2. IsNode(inner.node) /\ inner.i \in Nat
  BY <1>1 DEF Good, Past
<1>3. ReachedSequence(t, i + 1, inner)
  <2>1. Mu("sequence", t, i + 1) < Mu(g, t, i)
    BY <1>0, FartherOn
  <2>2. Reached("sequence", t, i + 1)
    BY <1>0, <2>1, IsGrammar DEF Before
  <2> QED BY <2>2 DEF Reached
<1>4. /\ Level(t, i + 1, inner.i) /\ Kind(t, inner.i) \in Outer
      /\ \A k \in i + 1 .. inner.i - 1 : Covers(inner.node, t, k) /\ Piped(inner.node, t, k)
  <2>1. Kind(t, i + 1 - 1) # "pipe"
    BY <1>0
  <2> QED BY <1>3, <2>1 DEF ReachedSequence
<1>5. r = [rest EXCEPT !.subs = subs]
  <2>1. Parts(parse, g, t, i) = ProcessSub(parse, g, t, i)
    BY DEF Parts, Ends, Separators
  <2>2. r = Parts(parse, g, t, i)
    BY <1>0, PartsAre
  <2> QED BY <2>1, <2>2 DEF ProcessSub
<1> DEFINE in == inner.i
<1> HIDE DEF inner, r
<1>6. /\ Level(t, i, j) /\ j \in Nat /\ i < in
      /\ j = IF Kind(t, in) = "rparen" THEN in + 1 ELSE in
      /\ Kind(t, in) = "rparen" => in \in 1 .. Len(t)
      /\ Kind(t, in) # "rparen" => Kind(t, j) = "none"
  BY <1>2, <1>4, LevelBrackets
<1> HIDE DEF in, j, child
<1>7. j \in 1 .. Len(t) + 1 /\ i < j /\ in \in Nat
  BY <1>0, <1>2, <1>6 DEF Level, in
<1>8. j \notin Commands(t) /\ Kind(t, j) # "lparen" /\ (Kind(t, in) = "rparen" => in \notin Commands(t))
  <2>1. CASE Kind(t, in) = "rparen"
    <3>1. j \in 2 .. Len(t) + 1 /\ j - 1 = in /\ in \in DOMAIN t
      BY <1>0, <1>6, <1>7, <2>1
    <3>2. Kind(t, j - 1) \notin Separators \cup {"pipe", "lparen", "process_sub"}
      BY <2>1, <3>1 DEF Separators
    <3>3. in \notin Commands(t)
      BY <2>1, <3>1 DEF Commands, Kind
    <3> QED BY <3>1, <3>2, <3>3, NotFirst
  <2>2. CASE Kind(t, in) # "rparen"
    <3>1. Kind(t, j) = "none"
      BY <1>6, <2>2
    <3> QED BY <2>2, <3>1 DEF Commands, Kind
  <2> QED BY <2>1, <2>2
<1>9. IsParts(rest, t, j)
  BY <1>7, PartsAre
<1>10. ReachedParts(t, j, rest)
  <2>1. Mu(g, t, j) < Mu(g, t, i)
    BY <1>0, <1>7, FartherOn
  <2>2. Reached(g, t, j)
    BY <1>0, <1>7, <2>1 DEF Before
  <2> QED BY <2>2 DEF Reached
<1> HIDE DEF rest
<1>11. /\ Level(t, j, rest.i) /\ Kind(t, rest.i) \in Stops
       /\ \A k \in j + 1 .. rest.i - 1 : k \in Commands(t) => InSubs(rest, t, k)
       /\ rest.assigned => rest.confidence # "high"
  BY <1>8, <1>10 DEF ReachedParts
<1>12. IsNode(child)
  BY <1>2 DEF child, IsNode
<1>13. /\ IsList(rest.subs) /\ rest.i \in Nat /\ subs # <<>>
       /\ Len(subs) = Len(rest.subs) + 1 /\ subs[1] = child
       /\ \A k \in 1 .. Len(rest.subs) : subs[k + 1] = rest.subs[k]
       /\ IsList(subs)
  <2>1. IsList(rest.subs) /\ rest.i \in Nat
    BY <1>9 DEF IsParts
  <2> QED BY <1>12, <2>1, ConsList
<1> HIDE DEF subs
<1>14. /\ r.subs = subs /\ r.i = rest.i /\ r.assigned = rest.assigned
       /\ r.confidence = rest.confidence
  BY <1>5, <1>9 DEF IsParts
<1>15. /\ Len(rest.subs) \in Nat /\ DOMAIN rest.subs = 1 .. Len(rest.subs)
       /\ DOMAIN subs = 1 .. Len(subs)
  BY <1>13, ListDomain
<1>16. ASSUME NEW k \in i + 1 .. r.i - 1, k \in Commands(t) PROVE InSubs(r, t, k)
  <2>1. CASE k \in i + 1 .. in - 1
    <3>1. Covers(inner.node, t, k) /\ Piped(inner.node, t, k)
      BY <1>4, <2>1 DEF in
    <3>2. Named(child, t, k) /\ Human(child, t, k) /\ Piped(child, t, k)
      BY <1>2, <3>1, SubKnows DEF child
    <3>3. 1 \in DOMAIN r.subs /\ r.subs[1] = child
      BY <1>13, <1>14, <1>15
    <3> QED BY <3>2, <3>3 DEF InSubs
  <2>2. CASE k \in j + 1 .. rest.i - 1
    <3>1. InSubs(rest, t, k)
      BY <1>11, <1>16, <2>2
    <3>2. PICK m \in DOMAIN rest.subs : Named(rest.subs[m], t, k) /\ Human(rest.subs[m], t, k)
                                        /\ Piped(rest.subs[m], t, k)
      BY <3>1 DEF InSubs
    <3>3. m + 1 \in DOMAIN r.subs /\ r.subs[m + 1] = rest.subs[m]
      BY <1>13, <1>14, <1>15
    <3> QED BY <3>2, <3>3 DEF InSubs
  <2>3. k \in i + 1 .. in - 1 \/ k \in j + 1 .. rest.i - 1 \/ k = j \/ (k = in /\ Kind(t, in) = "rparen")
    BY <1>0, <1>6, <1>7, <1>13, <1>14
  <2> QED BY <2>1, <2>2, <2>3, <1>8, <1>16
<1>17. Level(t, i, r.i)
  BY <1>0, <1>6, <1>11, <1>13, <1>14, LevelTrans
<1> QED BY <1>11, <1>13, <1>14, <1>16, <1>17 DEF ReachedParts, r

LEMMA ReachParts ==
  ASSUME NEW t \in Seq(Token), WellFormed(t), NEW i \in 1 .. Len(t) + 1,
         NEW g \in {"prefix", "words"}, Before(g, t, i)
  PROVE  ReachedParts(t, i, parse[<<g, t, i>>])
<1> SUFFICES ASSUME Kind(t, i) # "lparen" PROVE ReachedParts(t, i, parse[<<g, t, i>>])
  BY DEF ReachedParts
<1> DEFINE r == parse[<<g, t, i>>]
<1>0. Len(t) \in Nat /\ i \in Nat \ {0} /\ (Kind(t, i) = "none" <=> i \notin 1 .. Len(t))
      /\ r = Parts(parse, g, t, i) /\ g \in Grammar
  BY KindIs, PartsAre, IsGrammar
<1>1. CASE Kind(t, i) \in Stops
  <2>1. r = Nothing(i)
    BY <1>0, <1>1 DEF Parts, Stops, Ends, Separators
  <2>2. r.i = i /\ ~r.assigned
    BY <2>1 DEF Nothing
  <2> HIDE DEF r
  <2> QED BY <1>0, <1>1, <2>2, LevelNil DEF ReachedParts, r
<1>2. ASSUME Kind(t, i) \notin Stops, NEW h \in {"prefix", "words"}, NEW j \in Nat,
             i < j, j <= Len(t) + 1
      PROVE  LET rest == parse[<<h, t, j>>]
             IN ReachedParts(t, j, rest) /\ IsParts(rest, t, j) /\ rest.i \in Nat
  <2>1. Mu(h, t, j) < Mu(g, t, i) /\ h \in Grammar /\ j \in 1 .. Len(t) + 1
    BY <1>0, <1>2, FartherOn, IsGrammar DEF Stops
  <2>2. Reached(h, t, j)
    BY <2>1 DEF Before
  <2>3. ReachedParts(t, j, parse[<<h, t, j>>])
    BY <2>2 DEF Reached
  <2>4. IsParts(parse[<<h, t, j>>], t, j)
    BY PartsAre
  <2>5. parse[<<h, t, j>>].i \in Nat
    BY <2>4 DEF IsParts
  <2> QED BY <2>3, <2>4, <2>5
<1>3. ASSUME Kind(t, i) \notin Stops
      PROVE  /\ i \in 1 .. Len(t) /\ t[i] \in Token /\ i + 1 \in Nat /\ i + 1 <= Len(t) + 1 /\ i < i + 1
             /\ \A k \in i + 1 .. i + 1 - 1 : FALSE
             /\ \A k \in i .. i + 1 - 1 : k = i
             /\ AfterRedirect(t, i) \in i + 1 .. Len(t) + 1 /\ AfterHeredoc(t, i) \in i + 1 .. Len(t) + 1
  <2>1. i \in 1 .. Len(t) /\ t[i] \in Token
    BY <1>0, <1>3, KindIs DEF Stops
  <2>2. /\ Past(t, i, AfterRedirect(t, i)) /\ i < AfterRedirect(t, i)
        /\ Past(t, i, AfterHeredoc(t, i)) /\ i < AfterHeredoc(t, i)
    BY <2>1, NextPlace
  <2> QED BY <1>0, <2>1, <2>2 DEF Past
<1>4. CASE Kind(t, i) = "comment"
  <2> DEFINE rest == parse[<<g, t, i + 1>>]
  <2>1. Kind(t, i) \notin Stops
    BY <1>4 DEF Stops, Ends, Separators
  <2>2. r = rest
    BY <1>0, <1>4, <2>1 DEF Parts, Stops
  <2>3. ReachedParts(t, i + 1, rest) /\ rest.i \in Nat
    BY <1>2, <1>3, <2>1
  <2>4. Clean(t, i)
    BY <1>4, NeutralIs DEF Neutral
  <2> HIDE DEF rest, r
  <2>5. r.i = rest.i /\ r.subs = rest.subs /\ r.assigned = rest.assigned
        /\ (r.confidence = "high" => rest.confidence = "high" /\ Clean(t, i))
    BY <2>2, <2>4
  <2> QED BY <1>3, <1>4, <2>1, <2>3, <2>5, OwnTokens DEF r
<1>5. CASE Kind(t, i) = "redirect"
  <2> DEFINE j == AfterRedirect(t, i)
             rest == parse[<<g, t, j>>]
  <2>1. Kind(t, i) \notin Stops
    BY <1>5 DEF Stops, Ends, Separators
  <2>2. r = AddRedirect(t, i, rest)
    BY <1>0, <1>5, <2>1 DEF Parts, Stops
  <2>3. i \in 1 .. Len(t) /\ j \in i + 1 .. Len(t) + 1 /\ j \in Nat /\ i < j /\ j <= Len(t) + 1
    BY <1>0, <1>3, <2>1
  <2>4. \A k \in i + 1 .. j - 1 : k = i + 1 /\ HasTarget(t, i) /\ Kind(t, k) = "word"
    BY <1>0 DEF AfterRedirect, HasTarget
  <2> HIDE DEF j
  <2>5. ReachedParts(t, j, rest) /\ IsParts(rest, t, j) /\ rest.i \in Nat
    BY <1>2, <2>1, <2>3
  <2> HIDE DEF rest, r
  <2>6. /\ r.subs = rest.subs /\ r.i = rest.i /\ r.assigned = rest.assigned
        /\ r.confidence = "high" => rest.confidence = "high" /\ HasTarget(t, i) /\ Static(t[i + 1])
    <3> DEFINE q == AddRedirect(t, i, rest)
    <3>1. i \in Nat
      BY <1>0
    <3>2. Redirected(q, t, i, rest)
      BY <2>3, <2>5, <3>1, RedirectIs
    <3> QED BY <2>2, <3>2 DEF Redirected
  <2>7. r.confidence = "high" => \A k \in i .. j - 1 : Clean(t, k)
    <3> SUFFICES ASSUME r.confidence = "high", NEW k \in i .. j - 1 PROVE Clean(t, k)
      OBVIOUS
    <3>1. CASE k = i
      BY <1>5, <3>1, NeutralIs DEF Neutral
    <3>2. CASE k # i
      <4>1. k \in i + 1 .. j - 1
        BY <3>2, <2>3, <1>0
      <4> QED BY <4>1, <2>4, <2>6, CleanIs
    <3> QED BY <3>1, <3>2
  <2> QED BY <1>5, <2>3, <2>4, <2>5, <2>6, <2>7, OwnTokens DEF r
<1>6. CASE Kind(t, i) = "heredoc_marker"
  <2> DEFINE j == AfterHeredoc(t, i)
             rest == parse[<<g, t, j>>]
  <2>1. Kind(t, i) \notin Stops
    BY <1>6 DEF Stops, Ends, Separators
  <2>2. r = AddHeredoc(t, i, rest)
    BY <1>0, <1>6, <2>1 DEF Parts, Stops
  <2>3. i \in 1 .. Len(t) /\ j \in i + 1 .. Len(t) + 1 /\ j \in Nat /\ i < j /\ j <= Len(t) + 1
    BY <1>0, <1>3, <2>1
  <2>4. \A k \in i + 1 .. j - 1 : k \in {i + 1, i + 2} /\ Kind(t, k) = "word" /\ Kind(t, i + 1) = "word"
    BY <1>0 DEF AfterHeredoc, HasTarget
  <2> HIDE DEF j
  <2>5. ReachedParts(t, j, rest) /\ IsParts(rest, t, j) /\ rest.i \in Nat
    BY <1>2, <2>1, <2>3
  <2> HIDE DEF rest, r
  <2>6. ASSUME NEW k \in i .. j - 1 PROVE Clean(t, k)
    <3>1. CASE k = i
      BY <1>6, <3>1, NeutralIs DEF Neutral
    <3>2. CASE k # i
      <4>1. k \in {i + 1, i + 2} /\ Kind(t, k) = "word" /\ Kind(t, i + 1) = "word"
        <5>1. k \in i + 1 .. j - 1
          BY <3>2, <2>3, <1>0
        <5> QED BY <5>1, <2>4
      <4>2. i + 1 - 1 = i /\ i + 2 - 1 = i + 1 /\ i + 2 - 2 = i
        BY <1>0
      <4>3. HeredocText(t, k)
        BY <4>1, <4>2, <1>6 DEF HeredocText
      <4> QED BY <4>1, <4>3 DEF Clean, Expanded
    <3> QED BY <3>1, <3>2
  <2>7. /\ r.subs = rest.subs /\ r.i = rest.i /\ r.assigned = rest.assigned
        /\ r.confidence = rest.confidence
    BY <1>0, <2>2, <2>3, <2>5, HeredocIs
  <2> QED BY <1>6, <2>3, <2>4, <2>5, <2>6, <2>7, OwnTokens DEF r
<1>7. CASE Kind(t, i) = "process_sub"
  <2>1. Kind(t, i) \notin Stops
    BY <1>7 DEF Stops, Ends, Separators
  <2> QED BY <1>3, <1>7, <2>1, ReachProcessSub
<1>8. CASE Kind(t, i) = "assignment" /\ g = "prefix"
  <2> DEFINE rest == parse[<<g, t, i + 1>>]
  <2>1. Kind(t, i) \notin Stops
    BY <1>8 DEF Stops, Ends, Separators
  <2>2. r = AddAssignment(t[i], rest)
    BY <1>0, <1>8, <2>1 DEF Parts, Stops
  <2>3. ReachedParts(t, i + 1, rest) /\ IsParts(rest, t, i + 1) /\ rest.i \in Nat
    BY <1>2, <1>3, <2>1
  <2> HIDE DEF rest, r
  <2>4. /\ r.subs = rest.subs /\ r.i = rest.i
        /\ r.confidence = "high" => rest.confidence = "high" /\ Static(t[i]) /\ r.assigned = rest.assigned
    BY <1>0, <1>3, <2>1, <2>2, <2>3, AssignmentIs
  <2>5. r.confidence = "high" => Clean(t, i)
    BY <1>8, <2>4, CleanIs
  <2> QED BY <1>3, <1>8, <2>1, <2>3, <2>4, <2>5, OwnTokens DEF r
<1>9. CASE Kind(t, i) = "word" \/ (Kind(t, i) = "assignment" /\ g = "words")
  <2> DEFINE rest == parse[<<"words", t, i + 1>>]
  <2>1. Kind(t, i) \notin Stops
    BY <1>9 DEF Stops, Ends, Separators
  <2>2. r = AddWord(t[i], rest)
    BY <1>0, <1>9, <2>1 DEF Parts, Stops
  <2>3. ReachedParts(t, i + 1, rest) /\ IsParts(rest, t, i + 1) /\ rest.i \in Nat
    BY <1>2, <1>3, <2>1
  <2> HIDE DEF rest, r
  <2>4. Worded(r, t[i], rest)
    BY <1>0, <1>3, <2>1, <2>2, <2>3, WordIs
  <2>5. /\ r.subs = rest.subs /\ r.i = rest.i /\ r.assigned = rest.assigned
        /\ r.confidence = "high" => rest.confidence = "high" /\ Static(t[i])
    BY <2>4 DEF Worded
  <2>6. r.confidence = "high" => Clean(t, i)
    BY <1>9, <2>5, CleanIs
  <2> QED BY <1>3, <1>9, <2>1, <2>3, <2>5, <2>6, OwnTokens DEF r
<1>10. \/ Kind(t, i) \in Stops
       \/ Kind(t, i) \in {"comment", "redirect", "heredoc_marker", "process_sub", "word", "assignment"}
  <2>1. CASE i \in 1 .. Len(t)
    <3>1. Kind(t, i) \in TokenKind
      BY <2>1, <1>0, KindIs DEF Token
    <3> QED BY <3>1 DEF TokenKind, Stops, Ends, Separators
  <2>2. CASE i \notin 1 .. Len(t)
    BY <2>2, <1>0 DEF Stops
  <2> QED BY <2>1, <2>2
<1> QED BY <1>1, <1>4, <1>5, <1>6, <1>7, <1>8, <1>9, <1>10

LEMMA ReachSubshell ==
  ASSUME NEW t \in Seq(Token), WellFormed(t), NEW i \in 1 .. Len(t) + 1,
         Before("command", t, i), Kind(t, i) = "lparen"
  PROVE  ReachedCommand(t, i, parse[<<"command", t, i>>])
<1> DEFINE inner == parse[<<"sequence", t, i + 1>>]
           in == inner.i
           c == Close(t, in)
           n == Parent(<<inner.node>>, "subshell")
           r == parse[<<"command", t, i>>]
<1>0. Len(t) \in Nat /\ i \in Nat \ {0} /\ i \in 1 .. Len(t) /\ i + 1 \in 1 .. Len(t) + 1
      /\ i + 1 \in Nat /\ DOMAIN t = 1 .. Len(t)
  <2>1. Len(t) \in Nat /\ i \in Nat \ {0} /\ DOMAIN t = 1 .. Len(t)
    BY LenProperties
  <2>2. i \in 1 .. Len(t)
    BY <2>1, KindIs
  <2> QED BY <2>1, <2>2
<1>1. IsNode(inner.node) /\ in \in Nat
  <2>1. Good("sequence", t, i + 1, inner)
    BY <1>0, ParserReturns, IsGrammar
  <2> QED BY <2>1 DEF Good, Past
<1>2. /\ Level(t, i + 1, in) /\ Kind(t, in) \in Outer
      /\ \A k \in i + 1 .. in - 1 : Covers(inner.node, t, k) /\ Piped(inner.node, t, k)
  <2>1. Mu("sequence", t, i + 1) < Mu("command", t, i)
    BY <1>0, FartherOn
  <2>2. Reached("sequence", t, i + 1)
    BY <1>0, <2>1, IsGrammar DEF Before
  <2>3. ReachedSequence(t, i + 1, inner)
    BY <2>2 DEF Reached
  <2>4. Kind(t, i + 1 - 1) # "pipe"
    BY <1>0
  <2> HIDE DEF inner, in
  <2>5. /\ Level(t, i + 1, inner.i) /\ Kind(t, inner.i) \in Outer
        /\ \A k \in i + 1 .. inner.i - 1 : Covers(inner.node, t, k) /\ Piped(inner.node, t, k)
    BY <2>3, <2>4 DEF ReachedSequence
  <2> QED BY <2>5 DEF in
<1>3. r = [node |-> n, i |-> parse[<<"redirects", t, c>>]]
  <2>1. r = Rule(parse, "command", t, i)
    BY <1>0, ParserReturns, IsGrammar
  <2>2. Rule(parse, "command", t, i) = Subshell(parse, t, i)
    BY DEF Rule
  <2> QED BY <2>1, <2>2 DEF Subshell
<1> DEFINE m == inner.node
<1>4. IsNode(m) /\ \A k \in i + 1 .. in - 1 : Covers(m, t, k) /\ Piped(m, t, k)
  BY <1>1, <1>2
<1> HIDE DEF inner, in, m
<1>5. Above(n, m)
  <2>1. IsList(<<m>> \o <<>>) /\ Len(<<m>>) = 1
    BY <1>4, ConsList, EmptyList
  <2>2. IsList(<<m>>)
    BY <2>1
  <2>3. Above(Parent(<<m>>, "subshell"), <<m>>[1])
    BY <2>2, ParentIs
  <2> QED BY <2>3 DEF m
<1>6. /\ Level(t, i, c) /\ c \in Nat /\ i < in
      /\ c = IF Kind(t, in) = "rparen" THEN in + 1 ELSE in
      /\ Kind(t, in) = "rparen" => in \in 1 .. Len(t) /\ Opener(t, in) = i
      /\ Kind(t, in) # "rparen" => Kind(t, c) = "none"
  BY <1>0, <1>1, <1>2, LevelBrackets
<1> HIDE DEF c, n
<1>7. Kind(t, c) \in Stops
  <2>1. CASE Kind(t, in) = "rparen"
    <3>1. in \in DOMAIN t /\ t[in].kind = "rparen" /\ t[i].kind = "lparen" /\ c = in + 1
      BY <1>0, <1>6, <2>1 DEF Kind
    <3> QED BY <3>1, <1>6, <2>1 DEF WellFormed, Stops
  <2>2. CASE Kind(t, in) # "rparen"
    BY <1>6, <2>2 DEF Stops
  <2> QED BY <2>1, <2>2
<1>8. parse[<<"redirects", t, c>>] = c
  <2>1. parse[<<"redirects", t, c>>] = Rule(parse, "redirects", t, c)
    BY <1>6, ParserReturns, IsGrammar
  <2>2. Rule(parse, "redirects", t, c) = Redirects(parse, t, c)
    BY DEF Rule
  <2>3. Kind(t, c) # "redirect"
    BY <1>7 DEF Stops, Ends, Separators
  <2> QED BY <2>1, <2>2, <2>3 DEF Redirects
<1>9. r.node = n /\ r.i = c
  BY <1>3, <1>8
<1> HIDE DEF r
<1>10. ASSUME NEW k \in i .. c - 1 PROVE Covers(n, t, k) /\ Piped(n, t, k)
  <2>1. CASE k \in i + 1 .. in - 1
    BY <1>4, <1>5, <2>1, AboveCovers
  <2>2. CASE k = i \/ (k = in /\ Kind(t, in) = "rparen")
    <3>1. Neutral(t, k)
      BY <2>2 DEF Neutral
    <3> QED BY <3>1, NeutralIs
  <2>3. k \in i + 1 .. in - 1 \/ k = i \/ (k = in /\ Kind(t, in) = "rparen")
    BY <1>0, <1>1, <1>6
  <2> QED BY <2>1, <2>2, <2>3
<1>11. ~PipedToShell(t, i)
  BY <1>0 DEF PipedToShell, Commands, Kind
<1> QED BY <1>6, <1>7, <1>9, <1>10, <1>11 DEF ReachedCommand, r

LEMMA ReachSimple ==
  ASSUME NEW t \in Seq(Token), WellFormed(t), NEW i \in 1 .. Len(t) + 1,
         Before("command", t, i), Kind(t, i) # "lparen"
  PROVE  ReachedCommand(t, i, parse[<<"command", t, i>>])
<1> DEFINE p == parse[<<"prefix", t, i>>]
           body == InlineBody(Leaf(p))
           inner == parse[<<"sequence", body, 1>>].node
           n == CommandNode(p, inner)
           r == parse[<<"command", t, i>>]
<1>0. Len(t) \in Nat /\ i \in Nat \ {0} /\ i \in Nat
  BY LenProperties
<1>1. IsParts(p, t, i) /\ Past(t, i, p.i)
  BY <1>0, PartsAre
<1>2. ReachedParts(t, i, p)
  <2>1. Mu("prefix", t, i) < Mu("command", t, i)
    BY <1>0, LowerRule DEF RuleRank
  <2>2. Reached("prefix", t, i)
    BY <2>1, IsGrammar DEF Before
  <2> QED BY <2>2 DEF Reached
<1>3. r = [node |-> n, i |-> p.i]
  <2>1. r = Rule(parse, "command", t, i)
    BY <1>0, ParserReturns, IsGrammar
  <2>2. Rule(parse, "command", t, i) = parseSimpleCommand(parse, t, i)
    BY DEF Rule
  <2> QED BY <2>1, <2>2 DEF parseSimpleCommand, CommandNode
<1>4. r.node = n /\ r.i = p.i
  BY <1>3
<1>5. body # <<>> => IsNode(inner)
  <2> SUFFICES ASSUME body # <<>> PROVE IsNode(inner)
    OBVIOUS
  <2>1. body \in Seq(Token)
    <3> HIDE DEF p
    <3> QED BY <1>0, <1>1, BodyIs
  <2> HIDE DEF body
  <2>2. Good("sequence", body, 1, parse[<<"sequence", body, 1>>])
    BY <2>1, ParserReturns, IsGrammar
  <2> QED BY <2>2 DEF Good
<1>6. CommandNodeOf(n, p)
  <2> HIDE DEF p, inner
  <2> QED BY <1>0, <1>1, <1>5, CommandNodeIs DEF body
<1>7. i \in Commands(t) =>
        /\ Named(n, t, i) /\ Human(n, t, i)
        /\ PipedToShell(t, i) => IsInterpreter(n) /\ Kind(t, p.i) # "pipe"
  <2> SUFFICES ASSUME i \in Commands(t)
               PROVE  /\ Named(n, t, i) /\ Human(n, t, i)
                      /\ PipedToShell(t, i) => IsInterpreter(n) /\ Kind(t, p.i) # "pipe"
    OBVIOUS
  <2>1. InlineBody(Leaf(p)) # <<>> => IsNode(inner)
    BY <1>5
  <2> HIDE DEF inner
  <2> QED BY <2>1, OwnCommand
<1> HIDE DEF n, r, inner, body, p
<1>8. /\ Level(t, i, p.i) /\ Kind(t, p.i) \in Stops
      /\ \A k \in i + 1 .. p.i - 1 : k \in Commands(t) => InSubs(p, t, k)
      /\ p.confidence = "high" /\ p.subs = <<>> => \A k \in i .. p.i - 1 : Clean(t, k)
  BY <1>2 DEF ReachedParts
<1>9. p.i \in Nat
  BY <1>1 DEF Past
<1>10. ASSUME NEW k \in i .. p.i - 1 PROVE Covers(n, t, k) /\ (k # i => Piped(n, t, k))
  <2>1. n.confidence = "high" => Clean(t, k)
    BY <1>6, <1>8 DEF CommandNodeOf
  <2>2. CASE k \notin Commands(t)
    BY <2>1, <2>2 DEF Covers, Named, Human, HumansOnly, Piped, PipedToShell
  <2>3. CASE k = i /\ k \in Commands(t)
    BY <1>7, <2>1, <2>3 DEF Covers
  <2>4. CASE k # i /\ k \in Commands(t)
    <3>1. InSubs(p, t, k)
      BY <1>0, <1>8, <1>9, <2>4
    <3>2. PICK m \in DOMAIN p.subs :
            Named(p.subs[m], t, k) /\ Human(p.subs[m], t, k) /\ Piped(p.subs[m], t, k)
      BY <3>1 DEF InSubs
    <3>3. p.subs[m].indicators \subseteq n.indicators /\ Nodes(p.subs[m]) \subseteq Nodes(n)
      BY <1>6 DEF CommandNodeOf
    <3> QED BY <2>1, <3>2, <3>3 DEF Covers, Named, Human, Piped
  <2> QED BY <2>2, <2>3, <2>4
<1>11. PipedToShell(t, i) => IsInterpreter(n) /\ Kind(t, p.i) # "pipe"
  BY <1>7 DEF PipedToShell
<1> QED BY <1>4, <1>8, <1>10, <1>11 DEF ReachedCommand, r

LEMMA ReachStages ==
  ASSUME NEW t \in Seq(Token), WellFormed(t), NEW i \in 1 .. Len(t) + 1, Before("stages", t, i)
  PROVE  ReachedStages(t, i, parse[<<"stages", t, i>>])
<1> DEFINE c == parse[<<"command", t, i>>]
           again == Kind(t, c.i) = "pipe"
           s == parse[<<"stages", t, c.i + 1>>]
           rest == IF again THEN s ELSE [nodes |-> <<>>, i |-> c.i]
           list == <<c.node>> \o rest.nodes
           r == parse[<<"stages", t, i>>]
<1>0. Len(t) \in Nat /\ i \in Nat \ {0} /\ i \in Nat
  BY LenProperties
<1>1. IsNode(c.node) /\ c.i \in Nat /\ i <= c.i
  <2>1. Good("command", t, i, c)
    BY <1>0, ParserReturns, IsGrammar
  <2> QED BY <2>1 DEF Good, Past
<1>2. ReachedCommand(t, i, c)
  <2>1. Mu("command", t, i) < Mu("stages", t, i)
    BY <1>0, LowerRule DEF RuleRank
  <2>2. Reached("command", t, i)
    BY <2>1, IsGrammar DEF Before
  <2> QED BY <2>2 DEF Reached
<1>3. /\ Level(t, i, c.i) /\ Kind(t, c.i) \in Stops
      /\ \A k \in i .. c.i - 1 : Covers(c.node, t, k) /\ (k # i => Piped(c.node, t, k))
      /\ PipedToShell(t, i) => IsInterpreter(c.node) /\ ~again
  BY <1>2 DEF ReachedCommand
<1>4. r = [nodes |-> list, i |-> rest.i]
  <2>1. r = Rule(parse, "stages", t, i)
    BY <1>0, ParserReturns, IsGrammar
  <2>2. Rule(parse, "stages", t, i) = parsePipeline(parse, t, i)
    BY DEF Rule
  <2> QED BY <2>1, <2>2 DEF parsePipeline
<1>5. r.nodes = list /\ r.i = rest.i
  BY <1>4
<1> DEFINE ci == c.i
<1> HIDE DEF r, c
<1>6. ASSUME again
      PROVE  /\ IsList(s.nodes) /\ s.nodes # <<>> /\ s.i \in Nat /\ ReachedStages(t, ci + 1, s)
             /\ ci \in i .. Len(t) /\ ci + 1 <= s.i /\ Level(t, i, s.i)
             /\ Kind(t, s.i) \in Outer \cup Separators
  <2>1. ci \in 1 .. Len(t) /\ ci \in i .. Len(t) /\ ci + 1 \in 1 .. Len(t) + 1 /\ ci + 1 \in Nat
    <3>1. ci \in 1 .. Len(t)
      BY <1>1, <1>6, KindIs
    <3> QED BY <3>1, <1>0, <1>1
  <2>2. Good("stages", t, ci + 1, s)
    BY <2>1, ParserReturns, IsGrammar
  <2>3. IsList(s.nodes) /\ s.nodes # <<>> /\ s.i \in Nat /\ ci + 1 <= s.i
    BY <2>2 DEF Good, Past
  <2>4. Mu("stages", t, ci + 1) < Mu("stages", t, i)
    <3> HIDE DEF ci
    <3>1. i \in 0 .. Len(t) /\ i < ci + 1
      BY <1>0, <2>1
    <3> QED BY <2>1, <3>1, FartherOn
  <2>5. Reached("stages", t, ci + 1)
    <3> HIDE DEF ci
    <3> QED BY <2>1, <2>4, IsGrammar DEF Before
  <2>6. ReachedStages(t, ci + 1, s)
    BY <2>5 DEF Reached
  <2>7. Level(t, ci + 1, s.i) /\ Kind(t, s.i) \in Outer \cup Separators
    BY <2>6 DEF ReachedStages
  <2>8. Level(t, ci, ci + 1)
    BY <2>1, <1>6, LevelOne
  <2>9. Level(t, i, ci + 1)
    BY <1>0, <1>1, <1>3, <2>1, <2>8, LevelTrans
  <2>10. Level(t, i, s.i)
    BY <1>0, <2>1, <2>3, <2>7, <2>9, LevelTrans
  <2> QED BY <2>1, <2>3, <2>6, <2>7, <2>10
<1>7. CASE ~again
  <2> DEFINE x == c.node
  <2>1. list = <<x>> \o <<>> /\ rest.i = ci
    BY <1>7
  <2> HIDE DEF x, list, rest
  <2>2. DOMAIN r.nodes = {1} /\ r.nodes[1] = c.node /\ Len(r.nodes) = 1 /\ r.i = ci
    <3>1. <<x>> \o <<>> = <<x>>
      OBVIOUS
    <3>2. DOMAIN <<x>> = {1} /\ <<x>>[1] = x /\ Len(<<x>>) = 1
      OBVIOUS
    <3> QED BY <1>5, <2>1, <3>1, <3>2 DEF x
  <2>3. Kind(t, ci) \in Outer \cup Separators
    BY <1>3, <1>7 DEF Stops, Ends, Outer
  <2>4. ASSUME NEW k \in i .. ci - 1
        PROVE  /\ Covers(c.node, t, k)
               /\ PipedToShell(t, k) =>
                    \/ "pipe_to_interpreter" \in c.node.indicators
                    \/ IsInterpreter(c.node) /\ k = i
    BY <1>3 DEF Piped
  <2> QED BY <1>3, <2>2, <2>3, <2>4 DEF ReachedStages, r
<1>8. CASE again
  <2>1. list = <<c.node>> \o s.nodes /\ rest.i = s.i
    BY <1>8
  <2>2. /\ IsList(s.nodes) /\ s.nodes # <<>> /\ s.i \in Nat /\ ReachedStages(t, ci + 1, s)
        /\ ci \in i .. Len(t) /\ ci + 1 <= s.i /\ Level(t, i, s.i)
        /\ Kind(t, s.i) \in Outer \cup Separators
    BY <1>6, <1>8
  <2> DEFINE x == c.node
             l == s.nodes
  <2>21. IsNode(x) /\ IsList(l)
    BY <1>1, <2>2
  <2> HIDE DEF rest, s, list, l, x
  <2>22. /\ IsList(<<x>> \o l) /\ Len(<<x>> \o l) = Len(l) + 1 /\ (<<x>> \o l)[1] = x
        /\ \A k \in 1 .. Len(l) : (<<x>> \o l)[k + 1] = l[k]
    BY <2>21, ConsList
  <2>23. list = <<x>> \o l
    BY <2>1 DEF x, l
  <2>3. /\ IsList(list) /\ Len(list) = Len(s.nodes) + 1 /\ list[1] = c.node
        /\ \A k \in 1 .. Len(s.nodes) : list[k + 1] = s.nodes[k]
    BY <2>22, <2>23 DEF x, l
  <2>4. /\ Len(s.nodes) \in Nat /\ Len(s.nodes) >= 1 /\ DOMAIN s.nodes = 1 .. Len(s.nodes)
        /\ DOMAIN list = 1 .. Len(list)
    BY <2>2, <2>3, ListDomain
  <2>5. /\ 1 \in DOMAIN list /\ Len(list) >= 2 /\ list[Len(list)] = s.nodes[Len(s.nodes)]
        /\ \A m \in DOMAIN s.nodes : m + 1 \in DOMAIN list /\ list[m + 1] = s.nodes[m]
    <3>1. Len(s.nodes) \in 1 .. Len(s.nodes)
      BY <2>4
    <3> QED BY <2>3, <2>4, <3>1
  <2>6. ASSUME NEW k \in i .. s.i - 1
        PROVE  /\ Neutral(t, k) \/ \E m \in DOMAIN list : Covers(list[m], t, k)
               /\ PipedToShell(t, k) =>
                    \/ \E m \in DOMAIN list : "pipe_to_interpreter" \in list[m].indicators
                    \/ IsInterpreter(list[Len(list)])
    <3>1. CASE k \in i .. ci - 1
      <4>1. Covers(c.node, t, k) /\ (k # i => Piped(c.node, t, k)) /\ ~PipedToShell(t, i)
        BY <1>3, <1>8, <3>1
      <4>2. PipedToShell(t, k) => "pipe_to_interpreter" \in c.node.indicators
        BY <4>1 DEF Piped
      <4> QED BY <2>3, <2>5, <4>1, <4>2
    <3>2. CASE k = ci
      <4>1. Neutral(t, k) /\ ~PipedToShell(t, k)
        BY <1>8, <3>2 DEF Neutral, PipedToShell, Commands, Kind
      <4> QED BY <4>1
    <3>3. CASE k \in ci + 1 .. s.i - 1
      <4>1. /\ Neutral(t, k) \/ \E m \in DOMAIN s.nodes : Covers(s.nodes[m], t, k)
            /\ PipedToShell(t, k) =>
                 \/ \E m \in DOMAIN s.nodes : "pipe_to_interpreter" \in s.nodes[m].indicators
                 \/ IsInterpreter(s.nodes[Len(s.nodes)])
        BY <2>2, <3>3 DEF ReachedStages
      <4>2. Neutral(t, k) \/ \E m \in DOMAIN list : Covers(list[m], t, k)
        BY <2>5, <4>1
      <4>3. (\E m \in DOMAIN s.nodes : "pipe_to_interpreter" \in s.nodes[m].indicators)
              => \E m \in DOMAIN list : "pipe_to_interpreter" \in list[m].indicators
        BY <2>5
      <4> QED BY <2>5, <4>1, <4>2, <4>3
    <3>4. k \in i .. ci - 1 \/ k = ci \/ k \in ci + 1 .. s.i - 1
      BY <1>0, <1>1, <2>2
    <3> QED BY <3>1, <3>2, <3>3, <3>4
  <2>7. r.nodes = list /\ r.i = s.i
    BY <1>5, <2>1
  <2> QED BY <2>2, <2>5, <2>6, <2>7 DEF ReachedStages, r
<1> QED BY <1>7, <1>8

LEMMA ReachSegments ==
  ASSUME NEW t \in Seq(Token), WellFormed(t), NEW i \in 1 .. Len(t) + 1, Before("segments", t, i)
  PROVE  ReachedSegments(t, i, parse[<<"segments", t, i>>])
<1> SUFFICES ASSUME Kind(t, i - 1) # "pipe" PROVE ReachedSegments(t, i, parse[<<"segments", t, i>>])
  BY DEF ReachedSegments
<1> DEFINE r == parse[<<"segments", t, i>>]
<1>0. Len(t) \in Nat /\ i \in Nat \ {0} /\ i \in Nat
  BY LenProperties
<1>1. r = Segments(parse, t, i)
  <2>1. r = Rule(parse, "segments", t, i)
    BY <1>0, ParserReturns, IsGrammar
  <2> QED BY <2>1 DEF Rule
<1>2. ASSUME NEW j \in i .. Len(t)
      PROVE  LET s == parse[<<"segments", t, j + 1>>]
             IN IsList(s.nodes) /\ s.i \in Nat /\ j + 1 <= s.i /\ ReachedSegments(t, j + 1, s)
  <2>1. j \in 1 .. Len(t) /\ j + 1 \in 1 .. Len(t) + 1 /\ j + 1 \in Nat /\ i \in 0 .. Len(t) /\ i < j + 1
    BY <1>0
  <2>2. Good("segments", t, j + 1, parse[<<"segments", t, j + 1>>])
    BY <2>1, ParserReturns, IsGrammar
  <2>3. Mu("segments", t, j + 1) < Mu("segments", t, i)
    BY <2>1, FartherOn
  <2>4. Reached("segments", t, j + 1)
    BY <2>1, <2>3, IsGrammar DEF Before
  <2>5. ReachedSegments(t, j + 1, parse[<<"segments", t, j + 1>>])
    BY <2>4 DEF Reached
  <2> QED BY <2>2, <2>5 DEF Good, Past
<1>3. CASE Kind(t, i) \in Outer
  <2>1. r = [nodes |-> <<>>, i |-> i]
    BY <1>1, <1>3 DEF Segments, Outer
  <2>2. r.i = i
    BY <2>1
  <2>3. Level(t, i, i)
    BY LevelNil
  <2> HIDE DEF r
  <2>4. i .. r.i - 1 = {}
    BY <1>0, <2>2
  <2> QED BY <1>3, <2>2, <2>3, <2>4 DEF ReachedSegments, r
<1>4. CASE Kind(t, i) \in Separators \cup {"comment"}
  <2> DEFINE s == parse[<<"segments", t, i + 1>>]
  <2>1. r = s
    BY <1>1, <1>4 DEF Segments, Separators
  <2>2. i \in 1 .. Len(t) /\ i \in i .. Len(t)
    <3>1. Kind(t, i) # "none"
      BY <1>4 DEF Separators
    <3> QED BY <3>1, <1>0, KindIs
  <2>3. s.i \in Nat /\ i + 1 <= s.i /\ ReachedSegments(t, i + 1, s)
    BY <1>2, <2>2
  <2>4. Kind(t, i + 1 - 1) # "pipe"
    <3>1. i + 1 - 1 = i
      BY <1>0
    <3> QED BY <3>1, <1>4 DEF Separators
  <2> HIDE DEF s, r
  <2>5. /\ Level(t, i + 1, s.i) /\ Kind(t, s.i) \in Outer
        /\ \A k \in i + 1 .. s.i - 1 :
             Neutral(t, k) \/ \E m \in DOMAIN s.nodes : Covers(s.nodes[m], t, k) /\ Piped(s.nodes[m], t, k)
    BY <2>3, <2>4 DEF ReachedSegments
  <2>6. Level(t, i, i + 1)
    BY <1>4, <2>2, LevelOne DEF Separators
  <2>7. Level(t, i, s.i)
    BY <1>0, <2>3, <2>5, <2>6, LevelTrans
  <2>8. Neutral(t, i)
    BY <1>4 DEF Neutral, Separators
  <2>9. \A k \in i .. s.i - 1 : k = i \/ k \in i + 1 .. s.i - 1
    BY <1>0
  <2>10. ReachedSegments(t, i, s)
    BY <2>5, <2>7, <2>8, <2>9 DEF ReachedSegments
  <2> QED BY <2>1, <2>10 DEF r
<1>5. CASE Kind(t, i) \notin Outer \cup Separators \cup {"comment"}
  <2> DEFINE p == parse[<<"stages", t, i>>]
             more == Kind(t, p.i) \in Separators
             s == parse[<<"segments", t, p.i + 1>>]
             rest == IF more THEN s ELSE [nodes |-> <<>>, i |-> p.i]
             n == Pipeline(p.nodes)
             list == <<n>> \o rest.nodes
             pi == p.i
             l == rest.nodes
  <2>1. r = [nodes |-> list, i |-> rest.i]
    BY <1>1, <1>5 DEF Segments, Outer
  <2>2. IsList(p.nodes) /\ p.nodes # <<>> /\ pi \in Nat /\ i <= pi
    <3>1. Good("stages", t, i, p)
      BY <1>0, ParserReturns, IsGrammar
    <3> QED BY <3>1 DEF Good, Past
  <2>3. ReachedStages(t, i, p)
    <3>1. Mu("stages", t, i) < Mu("segments", t, i)
      BY <1>0, LowerRule DEF RuleRank
    <3>2. Reached("stages", t, i)
      BY <3>1, IsGrammar DEF Before
    <3> QED BY <3>2 DEF Reached
  <2>4. r.nodes = list /\ r.i = rest.i
    BY <2>1
  <2> HIDE DEF r
  <2>5. IsNode(n) /\ (\A k \in DOMAIN p.nodes : Above(n, p.nodes[k]))
        /\ (Len(p.nodes) >= 2 /\ IsInterpreter(p.nodes[Len(p.nodes)])
              => "pipe_to_interpreter" \in n.indicators)
    <3> HIDE DEF p
    <3> QED BY <2>2, PipelineIs
  <2> HIDE DEF n, p
  <2>6. Level(t, i, pi) /\ Kind(t, pi) \in Outer \cup Separators
    BY <2>3 DEF ReachedStages
  <2>7. ASSUME NEW k \in i .. pi - 1
        PROVE  Neutral(t, k) \/ (Covers(n, t, k) /\ Piped(n, t, k))
    <3>1. /\ Neutral(t, k) \/ \E m \in DOMAIN p.nodes : Covers(p.nodes[m], t, k)
          /\ PipedToShell(t, k) =>
               \/ \E m \in DOMAIN p.nodes : "pipe_to_interpreter" \in p.nodes[m].indicators
               \/ IsInterpreter(p.nodes[Len(p.nodes)]) /\ (k # i => Len(p.nodes) >= 2)
      BY <2>3 DEF ReachedStages
    <3>2. (\E m \in DOMAIN p.nodes : Covers(p.nodes[m], t, k)) => Covers(n, t, k)
      BY <2>5, AboveCovers
    <3>3. PipedToShell(t, k) => "pipe_to_interpreter" \in n.indicators
      <4> SUFFICES ASSUME PipedToShell(t, k) PROVE "pipe_to_interpreter" \in n.indicators
        OBVIOUS
      <4>1. k # i
        <5>1. PipedToShell(t, i) => Kind(t, i - 1) = "pipe"
          <6>1. i - 1 \in DOMAIN t \/ i = 1 \/ i \notin DOMAIN t
            <7>1. DOMAIN t = 1 .. Len(t)
              BY LenProperties
            <7> QED BY <1>0, <7>1
          <6> QED BY <6>1 DEF PipedToShell, Commands, Kind
        <5> QED BY <5>1
      <4>2. CASE \E m \in DOMAIN p.nodes : "pipe_to_interpreter" \in p.nodes[m].indicators
        BY <2>5, <4>2 DEF Above
      <4>3. CASE IsInterpreter(p.nodes[Len(p.nodes)]) /\ Len(p.nodes) >= 2
        BY <2>5, <4>3
      <4> QED BY <3>1, <4>1, <4>2, <4>3
    <3> QED BY <3>1, <3>2, <3>3 DEF Piped
  <2>8. ASSUME more
        PROVE  /\ IsList(s.nodes) /\ s.i \in Nat /\ pi \in i .. Len(t) /\ pi + 1 <= s.i
               /\ Level(t, i, s.i) /\ Kind(t, s.i) \in Outer
               /\ \A k \in pi + 1 .. s.i - 1 :
                    Neutral(t, k) \/ \E m \in DOMAIN s.nodes : Covers(s.nodes[m], t, k) /\ Piped(s.nodes[m], t, k)
    <3>1. pi \in i .. Len(t) /\ pi \in 1 .. Len(t)
      <4>1. Kind(t, pi) # "none"
        BY <2>8 DEF Separators
      <4> QED BY <4>1, <1>0, <2>2, KindIs
    <3>2. IsList(s.nodes) /\ s.i \in Nat /\ pi + 1 <= s.i /\ ReachedSegments(t, pi + 1, s)
      BY <1>2, <3>1
    <3>3. Kind(t, pi + 1 - 1) # "pipe"
      <4>1. pi + 1 - 1 = pi
        BY <2>2
      <4> QED BY <4>1, <2>8 DEF Separators
    <3> HIDE DEF s, pi
    <3>4. /\ Level(t, pi + 1, s.i) /\ Kind(t, s.i) \in Outer
          /\ \A k \in pi + 1 .. s.i - 1 :
               Neutral(t, k) \/ \E m \in DOMAIN s.nodes : Covers(s.nodes[m], t, k) /\ Piped(s.nodes[m], t, k)
      BY <2>2, <3>2, <3>3 DEF ReachedSegments
    <3>5. Level(t, pi, pi + 1)
      <4>1. Kind(t, pi) \notin {"lparen", "process_sub", "rparen"}
        BY <2>8 DEF Separators, pi
      <4> QED BY <3>1, <4>1, LevelOne
    <3>6. pi + 1 \in Nat
      BY <2>2
    <3>7. Level(t, i, pi + 1)
      BY <1>0, <2>2, <2>6, <3>5, <3>6, LevelTrans
    <3>8. Level(t, i, s.i)
      BY <1>0, <3>2, <3>4, <3>6, <3>7, LevelTrans
    <3> QED BY <3>1, <3>2, <3>4, <3>8
  <2>9. IsList(l)
    <3>1. CASE more
      BY <2>8, <3>1
    <3>2. CASE ~more
      BY <3>2, EmptyList
    <3> QED BY <3>1, <3>2
  <2> HIDE DEF s, l, list
  <2>10. /\ Len(<<n>> \o l) = Len(l) + 1 /\ (<<n>> \o l)[1] = n /\ IsList(<<n>> \o l)
         /\ \A k \in 1 .. Len(l) : (<<n>> \o l)[k + 1] = l[k]
    BY <2>5, <2>9, ConsList
  <2>11. list = <<n>> \o l
    BY DEF list, l
  <2>12. /\ Len(list) = Len(l) + 1 /\ list[1] = n /\ IsList(list)
         /\ \A k \in 1 .. Len(l) : list[k + 1] = l[k]
    BY <2>10, <2>11
  <2>13. /\ Len(l) \in Nat /\ DOMAIN l = 1 .. Len(l) /\ DOMAIN list = 1 .. Len(list)
    BY <2>9, <2>12, ListDomain
  <2>14. /\ 1 \in DOMAIN list
         /\ \A m \in DOMAIN l : m + 1 \in DOMAIN list /\ list[m + 1] = l[m]
    BY <2>12, <2>13
  <2>15. ASSUME NEW k \in i .. pi - 1
         PROVE  Neutral(t, k) \/ \E m \in DOMAIN list : Covers(list[m], t, k) /\ Piped(list[m], t, k)
    BY <2>7, <2>12, <2>14
  <2>16. CASE ~more
    <3>1. rest.i = pi
      BY <2>16
    <3>2. Kind(t, pi) \in Outer
      BY <2>6, <2>16
    <3> HIDE DEF rest, more, pi
    <3>3. r.nodes = list /\ r.i = pi
      BY <2>4, <3>1
    <3>4. Level(t, i, pi)
      BY <2>6
    <3> QED BY <2>15, <3>2, <3>3, <3>4 DEF ReachedSegments, r
  <2>17. CASE more
    <3>1. rest.i = s.i /\ l = s.nodes
      BY <2>17 DEF l, s
    <3> HIDE DEF rest, pi
    <3>2. r.nodes = list /\ r.i = s.i
      BY <2>4, <3>1
    <3>3. ASSUME NEW k \in i .. s.i - 1
          PROVE  Neutral(t, k) \/ \E m \in DOMAIN list : Covers(list[m], t, k) /\ Piped(list[m], t, k)
      <4>1. CASE k \in i .. pi - 1
        BY <2>15, <4>1
      <4>2. CASE k = pi
        BY <2>17, <4>2 DEF Neutral, Separators, pi
      <4>3. CASE k \in pi + 1 .. s.i - 1
        <5>1. Neutral(t, k) \/ \E m \in DOMAIN l : Covers(l[m], t, k) /\ Piped(l[m], t, k)
          BY <2>8, <2>17, <3>1, <4>3
        <5> QED BY <5>1, <2>14
      <4>4. k \in i .. pi - 1 \/ k = pi \/ k \in pi + 1 .. s.i - 1
        BY <1>0, <2>2, <2>8, <2>17
      <4> QED BY <4>1, <4>2, <4>3, <4>4
    <3>4. Level(t, i, s.i) /\ Kind(t, s.i) \in Outer
      BY <2>8, <2>17
    <3> QED BY <3>2, <3>3, <3>4 DEF ReachedSegments, r
  <2> QED BY <2>16, <2>17
<1> QED BY <1>3, <1>4, <1>5

LEMMA ReachSequence ==
  ASSUME NEW t \in Seq(Token), WellFormed(t), NEW i \in 1 .. Len(t) + 1, Before("sequence", t, i)
  PROVE  ReachedSequence(t, i, parse[<<"sequence", t, i>>])
<1> SUFFICES ASSUME Kind(t, i - 1) # "pipe" PROVE ReachedSequence(t, i, parse[<<"sequence", t, i>>])
  BY DEF ReachedSequence
<1> DEFINE s == parse[<<"segments", t, i>>]
           n == Sequence(s.nodes)
           r == parse[<<"sequence", t, i>>]
<1>0. Len(t) \in Nat /\ i \in Nat
  BY LenProperties
<1>1. r = [node |-> n, i |-> s.i]
  <2>1. r = Rule(parse, "sequence", t, i)
    BY <1>0, ParserReturns, IsGrammar
  <2>2. Rule(parse, "sequence", t, i) = parseSequence(parse, t, i)
    BY DEF Rule
  <2> QED BY <2>1, <2>2 DEF parseSequence
<1>2. r.node = n /\ r.i = s.i
  BY <1>1
<1>3. IsList(s.nodes)
  <2>1. Good("segments", t, i, s)
    BY <1>0, ParserReturns, IsGrammar
  <2> QED BY <2>1 DEF Good
<1>4. ReachedSegments(t, i, s)
  <2>1. Mu("segments", t, i) < Mu("sequence", t, i)
    BY <1>0, LowerRule DEF RuleRank
  <2>2. Reached("segments", t, i)
    BY <2>1, IsGrammar DEF Before
  <2> QED BY <2>2 DEF Reached
<1> HIDE DEF r, s
<1>5. \A k \in DOMAIN s.nodes : Above(n, s.nodes[k])
  BY <1>3, SequenceIs
<1> HIDE DEF n
<1>6. /\ Level(t, i, s.i) /\ Kind(t, s.i) \in Outer
      /\ \A k \in i .. s.i - 1 :
           Neutral(t, k) \/ \E m \in DOMAIN s.nodes : Covers(s.nodes[m], t, k) /\ Piped(s.nodes[m], t, k)
  BY <1>4 DEF ReachedSegments
<1>7. \A k \in i .. s.i - 1 : Covers(n, t, k) /\ Piped(n, t, k)
  BY <1>5, <1>6, AboveCovers, NeutralIs
<1> QED BY <1>2, <1>6, <1>7 DEF ReachedSequence, r

\* Every rule reaches what it should.
LEMMA ParseReaches ==
  ASSUME NEW t \in Seq(Token), WellFormed(t), NEW g \in Grammar, NEW i \in 1 .. Len(t) + 1
  PROVE  Reached(g, t, i)
<1>0. Len(t) \in Nat
  BY LenProperties
<1> DEFINE Bad(k) == \E h \in Grammar, j \in 1 .. Len(t) + 1 : Mu(h, t, j) = k /\ ~Reached(h, t, j)
           T == {k \in Nat : Bad(k)}
<1>1. T = {}
  <2> SUFFICES ASSUME T # {} PROVE FALSE
    OBVIOUS
  <2>1. PICK k \in T : \A l \in T : k <= l
    <3>1. T \in SUBSET Nat
      OBVIOUS
    <3> HIDE DEF T
    <3> QED BY <3>1, LeastNat
  <2>2. Bad(k) /\ k \in Nat
    BY <2>1
  <2>3. PICK h \in Grammar, j \in 1 .. Len(t) + 1 : Mu(h, t, j) = k /\ ~Reached(h, t, j)
    BY <2>2
  <2>4. Before(h, t, j)
    <3> SUFFICES ASSUME NEW h1 \in Grammar, NEW j1 \in 1 .. Len(t) + 1, Mu(h1, t, j1) < k
                 PROVE  Reached(h1, t, j1)
      BY <2>3 DEF Before
    <3>1. Mu(h1, t, j1) \in Nat
      <4>1. j1 \in Nat
        BY <1>0
      <4> QED BY <4>1, MuIs
    <3>2. Mu(h1, t, j1) \notin T
      <4> HIDE DEF T, Bad
      <4> QED BY <2>1, <2>2, <3>1
    <3>3. ~Bad(Mu(h1, t, j1))
      BY <3>1, <3>2
    <3> QED BY <3>3
  <2> HIDE DEF T, Bad
  <2>5. CASE h = "sequence"
    BY <2>3, <2>4, <2>5, ReachSequence DEF Reached
  <2>6. CASE h = "segments"
    BY <2>3, <2>4, <2>6, ReachSegments DEF Reached
  <2>7. CASE h = "stages"
    BY <2>3, <2>4, <2>7, ReachStages DEF Reached
  <2>8. CASE h = "command"
    BY <2>3, <2>4, <2>8, ReachSubshell, ReachSimple DEF Reached
  <2>9. CASE h \in {"prefix", "words"}
    BY <2>3, <2>4, <2>9, ReachParts DEF Reached
  <2>10. CASE h = "redirects"
    BY <2>3, <2>10 DEF Reached
  <2> QED BY <2>5, <2>6, <2>7, <2>8, <2>9, <2>10 DEF Grammar
<1>2. Mu(g, t, i) \in Nat
  <2>1. i \in Nat
    BY <1>0
  <2> QED BY <2>1, MuIs
<1>3. ~Bad(Mu(g, t, i))
  BY <1>1, <1>2
<1> QED BY <1>3

(***************************************************************************)
(* The whole command.                                                      *)
(***************************************************************************)
\* The root of the tree knows of every token of a well-formed command.
LEMMA RootCovers ==
  ASSUME NEW t \in Seq(Token), WellFormed(t), NEW k \in DOMAIN t
  PROVE  Covers(parseShellCommand(t), t, k) /\ Piped(parseShellCommand(t), t, k)
<1> DEFINE r == parse[<<"sequence", t, 1>>]
           end == r.i
<1>1. Len(t) \in Nat /\ DOMAIN t = 1 .. Len(t) /\ 1 \in 1 .. Len(t) + 1
  BY LenProperties
<1>2. end \in Nat
  <2>1. Good("sequence", t, 1, r)
    BY <1>1, ParserReturns, IsGrammar
  <2> QED BY <2>1 DEF Good, Past
<1>3. ReachedSequence(t, 1, r)
  <2>1. Reached("sequence", t, 1)
    BY <1>1, ParseReaches, IsGrammar
  <2> QED BY <2>1 DEF Reached
<1>4. Kind(t, 1 - 1) # "pipe"
  BY <1>1 DEF Kind
<1> HIDE DEF r, end
<1>5. /\ Level(t, 1, r.i) /\ Kind(t, r.i) \in Outer
      /\ \A m \in 1 .. r.i - 1 : Covers(r.node, t, m) /\ Piped(r.node, t, m)
  BY <1>3, <1>4 DEF ReachedSequence
<1>6. Kind(t, end) # "rparen"
  <2> SUFFICES ASSUME Kind(t, end) = "rparen" PROVE FALSE
    OBVIOUS
  <2>1. end \in DOMAIN t
    BY <1>2, KindIs
  <2>2. end # Len(t) + 1
    BY <1>1, <2>1
  <2>3. Balanced(t, 1, end)
    BY <1>5, <2>2 DEF Level, end
  <2> QED BY <2>1, <2>3, NoBracket
<1>7. end \notin 1 .. Len(t)
  <2>1. Kind(t, end) = "none"
    BY <1>5, <1>6 DEF Outer, end
  <2> QED BY <1>2, <2>1, KindIs
<1>8. end = Len(t) + 1
  BY <1>1, <1>2, <1>5, <1>7 DEF Level, end
<1>9. k \in 1 .. r.i - 1
  BY <1>1, <1>8 DEF end
<1> QED BY <1>5, <1>9 DEF parseShellCommand, r

\* The decision is one of some, unless the policy cannot be read and the hook
\* does not fail closed.
Decided(t, tainted, decisions) ==
  \A failClosed \in BOOLEAN : failClosed \/ loadActivePolicy.status # "malformed" =>
    CommandDecision(t, tainted, failClosed) \in decisions

\* A command that nobody may run goes no further than its class allows.
LEMMA PipedIsStopped ==
  ASSUME NEW t, "pipe_to_interpreter" \in parseShellCommand(t).indicators
  PROVE  Decided(t, TRUE, {"deny"}) /\ Decided(t, FALSE, {"deny", "approval_required"})
<1> DEFINE root == parseShellCommand(t)
           classes(tainted) == classifyDangerousShellCombos(root, tainted)
<1>1. \E n \in Nodes(root) : "pipe_to_interpreter" \in n.indicators
  BY DEF Nodes
<1> HIDE DEF root
<1>2. "deny" \in classes(TRUE)
  BY <1>1 DEF classifyDangerousShellCombos
<1>3. classes(FALSE) # {}
  BY <1>1 DEF classifyDangerousShellCombos
<1> HIDE DEF classes
<1>4. ShellVerdict(t, TRUE) = "deny" /\ ShellVerdict(t, FALSE) \in {"deny", "approval_required"}
  BY <1>2, <1>3 DEF ShellVerdict, classes, root
<1> QED BY <1>4 DEF Decided, CommandDecision, Thrown, Verdict

LEMMA AdminIsDenied ==
  ASSUME NEW t, NEW tainted, \E n \in Nodes(parseShellCommand(t)) : isAdminCliInvocation(n)
  PROVE  Decided(t, tainted, {"deny"})
<1> DEFINE root == parseShellCommand(t)
           classes == classifyDangerousShellCombos(root, tainted)
<1> HIDE DEF root
<1>1. "deny" \in classes
  BY DEF classifyDangerousShellCombos, root
<1> HIDE DEF classes
<1>2. ShellVerdict(t, tainted) = "deny"
  BY <1>1 DEF ShellVerdict, classes, root
<1> QED BY <1>2 DEF Decided, CommandDecision, Thrown, Verdict

-----------------------------------------------------------------------------
(***************************************************************************)
(* Every behaviour.                                                        *)
(***************************************************************************)
\* What is typed is a sequence of tokens.
Typed == toks \in Seq(Token)

LEMMA TypedAlways == Spec => []Typed
<1>1. Init => Typed
  BY DecisionsAssumption DEF Init, Typed
<1>2. Typed /\ [Next]_vars => Typed'
  <2> SUFFICES ASSUME Typed, [Next]_vars PROVE Typed'
    OBVIOUS
  <2>1. CASE UNCHANGED toks
    BY <2>1 DEF Typed
  <2>2. ASSUME NEW tok \in Tokens, NextToken(tok) PROVE Typed'
    <3>1. tok \in Token /\ toks' = Append(toks, tok)
      BY <2>2, DecisionsAssumption DEF NextToken
    <3> QED BY <3>1, AppendProperties DEF Typed
  <2> QED BY <2>1, <2>2 DEF Next, vars
<1> QED BY <1>1, <1>2, PTL DEF Spec

\* Whatever is nested in what, the tree of a command shows the sink of each of
\* its commands, and calls itself certain only if it left nothing out: for all
\* sequences of tokens and every inline body.
THEOREM TreeMissesNothing == Spec => []ParserSound
<1>1. Typed => ParserSound
  <2> SUFFICES ASSUME toks \in Seq(Token), WellFormed(toks)
               PROVE  LET root == parseShellCommand(toks)
                      IN /\ \A i \in Commands(toks) :
                              LET j == IF Whole(toks, i) THEN Proper(toks, i) ELSE i
                              IN j # 0 /\ Static(toks[j])
                                   => NameIndicators(toks[j].w) \subseteq root.indicators
                         /\ root.confidence = "high" =>
                              /\ \A i \in Expanded(toks) : Static(toks[i])
                              /\ \A i \in DOMAIN toks : toks[i].kind # "process_sub"
    BY DEF Typed, ParserSound
  <2> DEFINE root == parseShellCommand(toks)
  <2>1. \A k \in DOMAIN toks : Covers(root, toks, k)
    BY RootCovers
  <2> HIDE DEF root
  <2>2. ASSUME NEW i \in Commands(toks), NameAt(toks, i) # 0, Static(toks[NameAt(toks, i)])
        PROVE  NameIndicators(toks[NameAt(toks, i)].w) \subseteq root.indicators
    <3>1. i \in DOMAIN toks
      BY DEF Commands
    <3> QED BY <2>1, <2>2, <3>1 DEF Covers, Named
  <2>3. ASSUME root.confidence = "high", NEW i \in DOMAIN toks
        PROVE  (i \in Expanded(toks) => Static(toks[i])) /\ toks[i].kind # "process_sub"
    BY <2>1, <2>3 DEF Covers, Clean, Kind
  <2>4. ASSUME NEW i \in Expanded(toks) PROVE i \in DOMAIN toks
    BY DEF Expanded
  <2> QED BY <2>2, <2>3, <2>4 DEF NameAt, root
<1> QED BY <1>1, TypedAlways, PTL

\* Wherever it stands in a command, a pipeline into a shell is stopped, and a
\* command of patchwork that is a human's is denied: whatever the policy files
\* hold, except that a hook that does not fail closed decides nothing while the
\* active one cannot be read.
THEOREM NothingDangerousPasses == Spec => []DangerousStopped
<1>1. Typed => DangerousStopped
  <2> SUFFICES ASSUME toks \in Seq(Token), NEW failClosed \in BOOLEAN,
                      failClosed \/ loadActivePolicy.status # "malformed",
                      NEW i \in DOMAIN toks, WellFormed(toks)
               PROVE  /\ PipedToShell(toks, i) =>
                           /\ CommandDecision(toks, TRUE, failClosed) = "deny"
                           /\ CommandDecision(toks, FALSE, failClosed)
                                \in {"deny", "approval_required"}
                      /\ HumansOnly(toks, i) => \A tainted \in BOOLEAN :
                           CommandDecision(toks, tainted, failClosed) = "deny"
    BY DEF Typed, DangerousStopped
  <2>1. /\ Piped(parseShellCommand(toks), toks, i)
        /\ Human(parseShellCommand(toks), toks, i)
    BY RootCovers DEF Covers
  <2>2. ASSUME PipedToShell(toks, i)
        PROVE  /\ CommandDecision(toks, TRUE, failClosed) = "deny"
               /\ CommandDecision(toks, FALSE, failClosed) \in {"deny", "approval_required"}
    BY <2>1, <2>2, PipedIsStopped DEF Piped, Decided
  <2>3. ASSUME HumansOnly(toks, i), NEW tainted
        PROVE  CommandDecision(toks, tainted, failClosed) = "deny"
    BY <2>1, <2>3, AdminIsDenied DEF Human, Decided
  <2> QED BY <2>2, <2>3
<1> QED BY <1>1, TypedAlways, PTL
=============================================================================
