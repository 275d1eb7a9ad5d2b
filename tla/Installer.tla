------------------------------ MODULE Installer ------------------------------
(***************************************************************************)
(* `patchwork init` and the removal of its hooks: buildInstallOptions of   *)
(* packages/cli/src/commands/init.ts and packages/agents/src/claude-code/  *)
(* installer.ts, on one settings.json that the user edits as well.         *)
(*                                                                         *)
(* Install and uninstall read the file, compute the new text and write it: *)
(* a project's file by a temporary file and a rename, the user's own (and  *)
(* every uninstall) by truncating and filling the file itself.             *)
(*                                                                         *)
(* Abstractions: a command is the word PATCHWORK_HOOK_RE looks for, or the *)
(* user's word, and the set of variables set in front of it; an event      *)
(* without a list is one with an empty list; the lists of a result are     *)
(* left out.                                                               *)
(***************************************************************************)
EXTENDS Naturals, Sequences

CONSTANTS
  Runners,       \* processes that install or uninstall
  InitFlags,        \* the command lines of `patchwork init`
  Seeds,         \* the hooks of the file before anything runs
  UserHandlers,  \* the handlers the user adds
  UserEvents,    \* the events the user adds them to
  Words,         \* what a command line is made of
  MaxCommands, MaxUserEdits, MaxDeaths   \* bounds

VARIABLES
  scope,         \* "user" or "project": which settings.json this is
  settings,      \* its text and its hooks
  linked,        \* is the project's settings.json a symbolic link?
  version,       \* history: how often own was changed
  own,           \* history: the user's entries that are to be kept
  latest,        \* history: the last command that was carried out
  runner,        \* each process: where it is and what it has read
  commands, userEdits, deaths   \* counters

installVars ==
  <<scope, settings, linked, version, own, latest, runner, commands, userEdits, deaths>>

\* buildHooks: the events and what each of them runs (three of the eight, which
\* are all treated alike but for the variables in front of the first).
HookNames ==
  [PreToolUse |-> "pre-tool", PostToolUse |-> "post-tool", SessionStart |-> "session-start"]
HookEvents == DOMAIN HookNames
NoHooks == [e \in HookEvents |-> <<>>]

Handler(name, env) == [name |-> name, env |-> env]
Group(handlers) == [nested |-> TRUE, hooks |-> handlers]
Flat(handler) == [nested |-> FALSE, hooks |-> <<handler>>]

-----------------------------------------------------------------------------
(***************************************************************************)
(* The options.                                                            *)
(***************************************************************************)
\* buildInstallOptions: explicit flags override the strict profile.
buildInstallOptions(f) ==
  [policyMode |-> IF f.policyMode = "unset" /\ f.strictProfile THEN "fail-closed"
                  ELSE f.policyMode,
   failClosed |-> f.pretoolFailClosed,
   env |-> f.env \cup (IF f.strictProfile THEN {"TELEMETRY_JSON", "WARN_MS"} ELSE {})]

\* resolveFailClosed: the two ways to ask for it must not disagree.
Conflict(o) == o.policyMode = "audit" /\ o.failClosed
resolveFailClosed(o) ==
  IF o.policyMode # "unset" THEN o.policyMode = "fail-closed" ELSE o.failClosed

buildHooks(o) ==
  [e \in HookEvents |->
     Group(<<Handler(HookNames[e],
               IF e # "PreToolUse" THEN {}
               ELSE o.env \cup (IF resolveFailClosed(o) THEN {"FAIL_CLOSED"} ELSE {}))>>)]

-----------------------------------------------------------------------------
(***************************************************************************)
(* The merge.                                                              *)
(***************************************************************************)
\* PATCHWORK_HOOK_RE also knows the wrapper and the guard script.
PatchworkNames == {HookNames[e] : e \in HookEvents} \cup {"hook-wrapper.sh", "guard.sh"}

\* The handlers that record: all but the guard script.
isOurs(h) == h.name \in PatchworkNames \ {"guard.sh"}

\* An entry is Patchwork's if one of its handlers is, nested or flat.
isPatchwork(entry) == \E i \in DOMAIN entry.hooks : entry.hooks[i].name \in PatchworkNames

\* Mutants: only entries in the new format are recognised; the lists of the
\* file are overwritten.
OtherEntriesNestedOnly(list) ==
  LET stays(entry) == ~entry.nested \/ ~isPatchwork(entry) IN SelectSeq(list, stays)
mergeOverwrites(hooks, o) == [e \in HookEvents |-> <<buildHooks(o)[e]>>]

\* existing.filter((e) => !isPatchwork(e)), in a form that can be reasoned about.
OtherEntries(list) ==
  LET kept[i \in 0..Len(list)] ==
        IF i = 0 THEN <<>>
        ELSE IF isPatchwork(list[i]) THEN kept[i - 1] ELSE Append(kept[i - 1], list[i])
  IN kept[Len(list)]

merge(hooks, o) == [e \in HookEvents |-> Append(OtherEntries(hooks[e]), buildHooks(o)[e])]
strip(hooks) == [e \in HookEvents |-> OtherEntries(hooks[e])]

Own(hooks) == strip(hooks)

-----------------------------------------------------------------------------
(***************************************************************************)
(* The commands.                                                           *)
(***************************************************************************)
\* What a file, a person and a command line contain: a person adds handlers of
\* other programs, and fail-closed mode has flags of its own.
Handlers == [name : Words, env : SUBSET Words]
Entries == [nested : BOOLEAN, hooks : Seq(Handlers)]

ASSUME InstallAssumption ==
  /\ PatchworkNames \cup {"FAIL_CLOSED", "TELEMETRY_JSON", "WARN_MS"} \subseteq Words
  /\ Seeds \subseteq [HookEvents -> Seq(Entries)]
  /\ UserEvents \subseteq HookEvents
  /\ UserHandlers \subseteq Handlers /\ \A h \in UserHandlers : ~isOurs(h)
  /\ \A f \in InitFlags :
       /\ f.policyMode \in {"unset", "audit", "fail-closed", "invalid"}
       /\ f.pretoolFailClosed \in BOOLEAN /\ f.strictProfile \in BOOLEAN
       /\ f.env \subseteq Words /\ "FAIL_CLOSED" \notin f.env

NoCommand == [op |-> "none"]
Idle == [pc |-> "idle", todo |-> NoCommand, hooks |-> NoHooks, based |-> 0, fd |-> "none"]

InstallInit ==
  /\ scope \in {"user", "project"}
  /\ \/ settings = [text |-> "none", hooks |-> NoHooks]
     \/ \E h \in Seeds : settings = [text |-> "json", hooks |-> h]
  /\ linked = FALSE /\ version = 0
  /\ own = Own(settings.hooks) /\ latest = NoCommand
  /\ runner = [p \in Runners |-> Idle]
  /\ commands = 0 /\ userEdits = 0 /\ deaths = 0

At(p, label) == runner[p].pc = label
Move(p, label) == runner' = [runner EXCEPT ![p].pc = label]
Finish(p) == runner' = [runner EXCEPT ![p] = Idle]

\* init refuses a flag with an invalid value, and installClaudeCodeHooks
\* contradictory options, before any I/O.
StartInstall(p, f) ==
  /\ At(p, "idle") /\ commands < MaxCommands /\ commands' = commands + 1
  /\ IF f.policyMode = "invalid" \/ Conflict(buildInstallOptions(f))
     THEN UNCHANGED runner
     ELSE runner' = [runner EXCEPT ![p] =
            [Idle EXCEPT !.pc = "read", !.todo = [op |-> "install", flags |-> f]]]
  /\ UNCHANGED <<scope, settings, linked, version, own, latest, userEdits, deaths>>

StartUninstall(p) ==
  /\ At(p, "idle") /\ commands < MaxCommands /\ commands' = commands + 1
  /\ IF settings.text = "none" THEN UNCHANGED runner
     ELSE runner' = [runner EXCEPT ![p] =
            [Idle EXCEPT !.pc = "read", !.todo = [op |-> "uninstall"]]]
  /\ UNCHANGED <<scope, settings, linked, version, own, latest, userEdits, deaths>>

\* Refuse a link in a project, and a text JSON.parse throws for; compute the
\* new hooks.  (A file that is gone makes readFileSync of uninstall throw.)
ReadSettings(p) ==
  LET todo == runner[p].todo
      install == todo.op = "install"
      refused == \/ install /\ scope = "project" /\ linked
                 \/ settings.text = "broken"
                 \/ settings.text = "none" /\ ~install
  IN
  /\ At(p, "read")
  /\ runner' = [runner EXCEPT ![p] =
       IF refused THEN Idle
       ELSE [@ EXCEPT !.pc = IF install /\ scope = "project" THEN "check" ELSE "truncate",
                      !.hooks = IF install
                                THEN merge(settings.hooks, buildInstallOptions(todo.flags))
                                ELSE strip(settings.hooks),
                      !.based = version]]
  /\ UNCHANGED <<scope, settings, linked, version, own, latest, commands, userEdits, deaths>>

\* The new text is in the file: what the user did since it was read is lost.
Landed(p) ==
  /\ settings' = [text |-> "json", hooks |-> runner[p].hooks]
  /\ latest' = runner[p].todo
  /\ IF runner[p].based = version THEN UNCHANGED <<own, version>>
     ELSE own' = Own(runner[p].hooks) /\ version' = version + 1

\* The file that open descriptors refer to is not at the path any more.
Detached(r) == [q \in Runners |-> IF r[q].pc = "fill" THEN [r[q] EXCEPT !.fd = "gone"] ELSE r[q]]

\* atomicWriteRefuseSymlink: check, write a temporary file, check, rename.
WriteTemporary(p) ==
  /\ At(p, "check")
  /\ IF linked THEN Finish(p) ELSE Move(p, "recheck")
  /\ UNCHANGED <<scope, settings, linked, version, own, latest, commands, userEdits, deaths>>

Recheck(p) ==
  /\ At(p, "recheck")
  /\ IF linked THEN Finish(p) ELSE Move(p, "rename")
  /\ UNCHANGED <<scope, settings, linked, version, own, latest, commands, userEdits, deaths>>

Rename(p) ==
  /\ At(p, "rename")
  /\ Landed(p) /\ linked' = FALSE
  /\ runner' = Detached([runner EXCEPT ![p] = Idle])
  /\ UNCHANGED <<scope, commands, userEdits, deaths>>

\* writeFileSync opens and truncates the file itself, ...
Truncate(p) ==
  /\ At(p, "truncate")
  /\ settings' = [text |-> "broken", hooks |-> NoHooks]
  /\ runner' = [runner EXCEPT ![p].pc = "fill", ![p].fd = "clean"]
  /\ UNCHANGED <<scope, linked, version, own, latest, commands, userEdits, deaths>>

\* ... and writes the text.  Over the text of another one that has written since
\* the truncation, the longer of the two texts may stick out.
Fill(p) ==
  /\ At(p, "fill")
  /\ IF runner[p].fd = "gone" THEN UNCHANGED <<settings, own, version, latest>>
     ELSE \/ Landed(p)
          \/ /\ runner[p].fd = "shared"
             /\ settings' = [text |-> "broken", hooks |-> NoHooks]
             /\ UNCHANGED <<own, version, latest>>
  /\ runner' = [q \in Runners |->
       IF q = p THEN Idle
       ELSE IF runner[q].pc = "fill" /\ runner[p].fd # "gone" /\ runner[q].fd = "clean"
       THEN [runner[q] EXCEPT !.fd = "shared"] ELSE runner[q]]
  /\ UNCHANGED <<scope, linked, commands, userEdits, deaths>>

\* The process dies; a truncated file stays as it is.
Die(p) ==
  /\ runner[p].pc \notin {"idle", "dead"} /\ deaths < MaxDeaths
  /\ deaths' = deaths + 1
  /\ runner' = [runner EXCEPT ![p] = [Idle EXCEPT !.pc = "dead"]]
  /\ UNCHANGED <<scope, settings, linked, version, own, latest, commands, userEdits>>

-----------------------------------------------------------------------------
(***************************************************************************)
(* The user, in an editor that replaces the file.                          *)
(***************************************************************************)
UserEdit(hooks) ==
  /\ userEdits < MaxUserEdits /\ userEdits' = userEdits + 1
  /\ settings' = [text |-> "json", hooks |-> hooks]
  /\ own' = Own(hooks)
  /\ version' = version + 1
  /\ runner' = Detached(runner)
  /\ UNCHANGED <<scope, linked, latest, commands, deaths>>

AddHook(e, h) ==
  /\ settings.text = "json"
  /\ UserEdit([settings.hooks EXCEPT ![e] = Append(@, Group(<<h>>))])

\* A handler next to the one of Patchwork, in the same matcher group.
JoinGroup(e, h) ==
  /\ settings.text = "json"
  /\ \E i \in DOMAIN settings.hooks[e] :
       /\ isPatchwork(settings.hooks[e][i]) /\ settings.hooks[e][i].nested
       /\ UserEdit([settings.hooks EXCEPT ![e][i].hooks = Append(@, h)])

\* A file that does not parse is put aside.
PutAside ==
  /\ settings.text = "broken"
  /\ userEdits < MaxUserEdits /\ userEdits' = userEdits + 1
  /\ settings' = [text |-> "none", hooks |-> NoHooks]
  /\ own' = NoHooks /\ latest' = NoCommand
  /\ version' = version + 1
  /\ runner' = Detached(runner)
  /\ UNCHANGED <<scope, linked, commands, deaths>>

\* Another branch of the project is checked out, where the file is a link.
Checkout ==
  /\ scope = "project" /\ userEdits < MaxUserEdits /\ userEdits' = userEdits + 1
  /\ linked' = ~linked
  /\ UNCHANGED <<scope, settings, version, own, latest, runner, commands, deaths>>

InstallStep(p) ==
  \/ ReadSettings(p) \/ WriteTemporary(p) \/ Recheck(p) \/ Rename(p)
  \/ Truncate(p) \/ Fill(p)

InstallNext ==
  \/ \E p \in Runners : (\E f \in InitFlags : StartInstall(p, f)) \/ StartUninstall(p)
  \/ \E p \in Runners : InstallStep(p) \/ Die(p)
  \/ \E e \in UserEvents, h \in UserHandlers : AddHook(e, h) \/ JoinGroup(e, h)
  \/ PutAside \/ Checkout

-----------------------------------------------------------------------------
\* Where in a list there is a handler of Patchwork's.
HandlerAt(list, place) == list[place[1]].hooks[place[2]]
Ours(list) ==
  UNION {{<<i, j>> : j \in {k \in DOMAIN list[i].hooks : isOurs(list[i].hooks[k])}} :
         i \in DOMAIN list}

AskedFailClosed(f) ==
  \/ f.pretoolFailClosed \/ f.policyMode = "fail-closed"
  \/ f.strictProfile /\ f.policyMode = "unset"

AsAsked(command, hooks) ==
  /\ command.op = "uninstall" => \A e \in HookEvents : Ours(hooks[e]) = {}
  /\ command.op = "install" =>
       /\ \A e \in HookEvents : \E place \in Ours(hooks[e]) : Ours(hooks[e]) = {place}
       /\ \A place \in Ours(hooks["PreToolUse"]) :
            "FAIL_CLOSED" \in HandlerAt(hooks["PreToolUse"], place).env
            <=> AskedFailClosed(command.flags)

\* Whenever settings.json parses and an install was the last command carried
\* out, each event has exactly one handler of Patchwork's, however many older
\* entries, formats and concurrent installs there were, and PreToolUse is
\* fail-closed exactly if the flags of that install asked for it; after an
\* uninstall no event has one.
InstalledAsAsked == settings.text = "json" => AsAsked(latest, settings.hooks)

\* Installing and uninstalling keep the user's own entries of every event, in
\* their order: an entry is lost only with a file that was changed between the
\* read and the write of a command, or with one that was put aside because a
\* write had been cut short.
OwnHooksKept == settings.text = "json" => Own(settings.hooks) = own
=============================================================================
