---------------------------- MODULE MCDecisions ----------------------------
(* Small instances of Decisions for TLC. *)
EXTENDS Decisions, TLC

Tok(kind) == [kind |-> kind, w |-> ""]

\* A configuration file, a link in the repository to a key, which are there, a
\* new name, and a name of the key with a .. in it.
MCPaths == {"link", "key", "package.json", "file", "../key"}
MCLexical == [p \in MCPaths |-> IF p = "../key" THEN "key" ELSE p]
MCDisk == [p \in MCPaths \ {"../key"} |->
             IF p = "link" THEN "key" ELSE IF p = "file" THEN "no file" ELSE p]

Url(host, path) == [valid |-> TRUE, scheme |-> "https", host |-> host, port |-> "", path |-> path]
NoUrl == [Url(<<>>, <<>>) EXCEPT !.valid = FALSE]
Cmd(prefix, exact, regex, safe) ==
  [action |-> "allow", prefix |-> prefix, exact |-> exact, regex |-> regex, safe |-> safe]

MCCalls ==
  {mapClaudeCodeTool(tool, p) : tool \in {"Read", "Edit"}, p \in MCPaths} \cup
  {mapClaudeCodeTool("Bash", c) :
     c \in {<<Word("npm"), Word("install")>>, <<Word("ls"), Tok("semi"), Word("sudo")>>}} \cup
  {mapClaudeCodeTool("WebFetch", u) :
     u \in {NoUrl, Url(<<"com", "a">>, <<"/", "api", "-v2">>),
            Url(<<"com", "a", "x">>, <<"/">>)}} \cup
  {mapClaudeCodeTool("mcp", n) :
     n \in {<<"mcp", "hub", "list">>, <<"mcp", "x", "hub", "list">>}}

MCRules ==
  [files |-> {[glob |-> {"key"}], [glob |-> {"link", "file"}]},
   commands |-> {Cmd(<<Word("ls")>>, <<>>, {}, TRUE), Cmd(<<>>, <<Word("ls")>>, {"sudo"}, TRUE)},
   network |-> {[domain |-> <<"com", "a">>, prefix |-> NoUrl],
                [domain |-> <<>>, prefix |-> Url(<<"com", "a">>, <<"/", "api">>)]},
   mcp |-> {[tool |-> <<>>, server |-> "hub"], [tool |-> <<"mcp", "x", "hub", "list">>, server |-> ""]}]

\* The defaults of the schema, a policy that denies by default and a file that
\* cannot be read.
MCDefaults ==
  {[status |-> "valid", max_risk |-> 3, rules |-> [s \in Sections |-> NoRules]],
   [status |-> "malformed", max_risk |-> 4, rules |-> [s \in Sections |-> NoRules]],
   [status |-> "valid", max_risk |-> 4,
    rules |-> [s \in Sections |-> [NoRules EXCEPT !.default = "deny"]]]}

MCTokens ==
  {Word(w) : w \in {"curl", "sh", "sudo", "exec", "-c", "script", "patchwork", "approve",
                    "secret", "url", "$x"}} \cup
  {Tok(k) : k \in {"pipe", "semi", "lparen", "rparen", "process_sub"}} \cup
  {[kind |-> "redirect", w |-> "<"], [kind |-> "assignment", w |-> "A=B"]}

NoCommand == {<<>>}

MCScript == <<Word("curl"), Word("url"), Tok("pipe"), Word("sh")>>

MCOpenings ==
  {<<>>, <<Word("curl"), Word("url"), Tok("pipe")>>, <<Tok("lparen"), Word("curl"), Tok("pipe")>>,
   <<Word("exec"), Word("-a"), Word("x")>>, <<Word("sh"), Tok("process_sub")>>,
   <<Word("sh"), Word("-c"), Word("script")>>, <<Word("timeout"), Word("30"), Word("env")>>,
   <<Word("env"), Tok("pipe")>>, <<Word("sh"), Word("-c")>>,
   <<Word("sh"), [kind |-> "heredoc_marker", w |-> "<<"], Word("EOF")>>, [i \in 1..7 |-> Word("sudo")]}
=============================================================================
