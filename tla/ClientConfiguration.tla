---- MODULE ClientConfiguration ----
(***************************************************************************)
(* Registration of the server with AI clients (crates/app/src/cli/clients: *)
(* configuration.rs, files.rs, process.rs): the files of Codex, Claude     *)
(* Code and OpenCode are backed up, changed by the client's own command    *)
(* and by the program, and restored if a step fails.  The client, which    *)
(* uses the same files, may write to them at any time.                     *)
(*                                                                         *)
(* A document holds the entry of the server, whether it has approvals that *)
(* earlier versions generated, and what is the user's own.                 *)
(***************************************************************************)
EXTENDS Integers, Sequences

CONSTANT
    UserData            \* what a document may hold of the user

NoFile == [is |-> "absent"]
Garbage == [is |-> "garbage"]
Document(server, generated, own) ==
    [is |-> "document", server |-> server, generated |-> generated, own |-> own]
Contents == {NoFile, Garbage}
    \union {Document(s, g, own) : s \in {"none", "old", "odd"}, g \in BOOLEAN, own \in UserData}

\* Where a client keeps its servers and its approvals.
ServerFile(kind) == IF kind = "claude" THEN "mcp" ELSE "config"
RulesFile(kind) == IF kind = "claude" THEN "settings" ELSE "config"
FilesOf(kind) == {ServerFile(kind), RulesFile(kind)}

----
(* Commands as sequences of steps; each names what its failure restores. *)

Does(do, file, undo) == [do |-> do, file |-> file, undo |-> undo]
BackUp(file) == Does("backup", file, {})

ConfigureCodex(undo) ==
    <<BackUp("config"), Does("remove", "config", undo), Does("add", "config", undo),
      Does("read", "config", undo), Does("rules", "config", undo), Does("get", "config", undo)>>

\* Mutant: the settings are backed up when they are about to be changed.
ConfigureClaudeLate(undo) ==
    <<BackUp("mcp"), Does("remove", "mcp", undo), Does("add", "mcp", undo), BackUp("settings"),
      Does("read", "settings", undo), Does("rules", "settings", undo)>>

ConfigureClaude(undo) ==
    <<BackUp("mcp"), BackUp("settings"), Does("remove", "mcp", undo), Does("add", "mcp", undo),
      Does("read", "settings", undo), Does("rules", "settings", undo)>>

ConfigureOpencode(undo) ==
    <<Does("read", "config", {}), BackUp("config"), Does("insert", "config", undo)>>

Configure(kind) ==
    CASE kind = "codex"    -> ConfigureCodex(FilesOf(kind))
      [] kind = "claude"   -> ConfigureClaude(FilesOf(kind))
      [] kind = "opencode" -> ConfigureOpencode(FilesOf(kind))

UnconfigureCli(file) == <<BackUp(file), Does("remove", file, {file})>>

\* What failed in the settings does not bring the server back.
UnconfigureClaude ==
    UnconfigureCli("mcp")
        \o <<BackUp("settings"), Does("read", "settings", {}), Does("rules", "settings", {})>>

UnconfigureOpencode ==
    <<Does("read", "config", {}), BackUp("config"), Does("delete", "config", {"config"})>>

Unconfigure(kind, files) ==
    CASE kind = "codex"    -> UnconfigureCli("config")
      [] kind = "claude"   -> UnconfigureClaude
      [] kind = "opencode" -> IF files["config"] = NoFile THEN <<>> ELSE UnconfigureOpencode

----
(* Execution.  A run has the files, the backups, and the document it read. *)

Started(kind, configure, files) ==
    [is |-> "running", kind |-> kind, files |-> files, backups |-> [f \in DOMAIN files |-> NoFile],
     read |-> NoFile, todo |-> IF configure THEN Configure(kind) ELSE Unconfigure(kind, files),
     undo |-> {}, unrestored |-> {}, quiet |-> TRUE]

Going(run) == run.is = "running" /\ run.todo # <<>>
Done(run) == [run EXCEPT !.todo = Tail(@)]
Wrote(run, content) == [run EXCEPT !.files[Head(run.todo).file] = content]
StepFails(run) == [run EXCEPT !.is = "failing", !.undo = Head(run.todo).undo]

WithServer(content) ==
    IF content = NoFile THEN Document("ours", FALSE, 0) ELSE [content EXCEPT !.server = "ours"]
WithoutServer(content) ==
    IF content.is = "document" /\ content.server # "odd" THEN [content EXCEPT !.server = "none"] ELSE content
WithoutRules(content) ==
    IF content.is = "document" THEN [content EXCEPT !.generated = FALSE] ELSE content

\* backup_with
BackingUp(run, file) ==
    {Done([run EXCEPT !.backups[file] = run.files[file]])}
    \union IF run.files[file] = NoFile THEN {} ELSE {StepFails(run)}

\* command: what a client does that refuses or hangs is its own business, but
\* a refusal to remove a server is accepted.
Removing(run, content) ==
    UNION {{Done(after), StepFails(after)} : after \in {run, Wrote(run, WithoutServer(content))}}
Adding(run, content) ==
    {StepFails(run)} \union IF content = Garbage \/ (content # NoFile /\ content.server = "odd") THEN {}
                         ELSE LET after == Wrote(run, WithServer(content)) IN {Done(after), StepFails(after)}

\* read_json and its likes: no file is no reason to stop.
Reading(run, content) ==
    IF content = NoFile THEN {Done([run EXCEPT !.read = NoFile])}
    ELSE {StepFails(run)} \union IF content = Garbage THEN {} ELSE {Done([run EXCEPT !.read = content])}

\* What was read is written, whatever the file holds by now; the file of Codex
\* only if there is something to remove.
Writing(run, content) ==
    {StepFails(run), Done(Wrote(run, content))}
RemovingRules(run) ==
    IF run.read = NoFile \/ (run.kind = "codex" /\ ~run.read.generated) THEN {Done(run)}
    ELSE Writing(run, WithoutRules(run.read))

Inserting(run) ==
    IF run.read # NoFile /\ run.read.server = "odd" THEN {StepFails(run)}
    ELSE Writing(run, WithoutRules(WithServer(run.read)))

After(run) ==
    LET step == Head(run.todo)
        content == run.files[step.file]
    IN  CASE step.do = "backup" -> BackingUp(run, step.file)
          [] step.do = "remove"  -> Removing(run, content)
          [] step.do = "add"     -> Adding(run, content)
          [] step.do = "get"     -> {Done(run), StepFails(run)}
          [] step.do = "read"    -> Reading(run, content)
          [] step.do = "rules"   -> RemovingRules(run)
          [] step.do = "insert"  -> Inserting(run)
          [] step.do = "delete"  -> Writing(run, WithoutRules(WithoutServer(run.read)))

\* restore: every file is tried; without a backup there was no file.
Restoring(run) ==
    {[run EXCEPT !.is = "failed", !.unrestored = kept,
                 !.files = [f \in DOMAIN @ |-> IF f \in run.undo \ kept THEN run.backups[f] ELSE @[f]]] :
        kept \in SUBSET run.undo}
====
