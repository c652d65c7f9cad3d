---- MODULE AccountSetup ----
(***************************************************************************)
(* Setting up one account (crates/app/src/cli/accounts.rs,                 *)
(* account_secrets.rs, accounts/verification.rs; config.rs, keychain.rs;   *)
(* backend/eas_mailbox/session.rs refresh_policy).  The configuration file *)
(* and the credential store are written one after the other: commands load *)
(* what is there, verify a candidate with Exchange, replace the secret,    *)
(* save the configuration, and roll the secret back if that fails.         *)
(*                                                                         *)
(* The store is updated under a lock of its own, in one step; the file is  *)
(* replaced in one step but read and written without a lock.  Commands may *)
(* overlap each other and the sessions of MCP servers, and may be killed.  *)
(* Settings stand for profile, address and user name; the policy kept with *)
(* a secret goes with its key.  The other accounts of the two files and    *)
(* the prompts are left out.                                               *)
(***************************************************************************)
EXTENDS Integers

CONSTANTS
    Commands,       \* the commands, each given once; one makes a device id of its own
    Settings,       \* what the user may choose
    Passwords,      \* what the user may type
    MaxKeys,        \* bound: policies negotiated
    Absent          \* no account, no secret

Accounts == [settings : Settings, writes : BOOLEAN]
Secrets  == [password : Passwords, device : Commands \union {Absent}, key : 0 .. MaxKeys]

ASSUME KeysArePositive == MaxKeys \in Nat \ {0}
ASSUME AbsentIsNothing == Absent \notin Commands /\ Absent \notin Accounts /\ Absent \notin Secrets

VARIABLES
    config,         \* the account's settings and whether it may write
    secret,         \* its password, device and policy key
    commands,       \* what every command does, where it is and what it holds
    serving,        \* sessions of MCP servers know the account
    keys,           \* the policies negotiated so far
    accepted,       \* history: what Exchange has accepted in a verification
    wiped           \* history: wiped while no command was under way

setupVars == <<config, secret, commands, serving, keys, accepted, wiped>>

----
(* Commands.  Some fields are history: what it found and left, whether no    *)
(* other overlapped it, whether the secret was changed under it, and to what *)
(* after it had replaced it.                                                *)

Places == {"asking", "verifying", "replacing", "reloading", "saving", "restoring", "ended"}
Unused == [at |-> "unused", alone |-> TRUE]

Active == {c \in Commands : commands[c].at \notin {"unused", "ended"}}
IsWriting(command) == command.at \in {"saving", "restoring"}

Account(settings, writes) == [settings |-> settings, writes |-> writes]
Secret(password, device, key) == [password |-> password, device |-> device, key |-> key]
Login(settings, s) == [settings |-> settings, password |-> s.password, device |-> s.device]

\* What is left of a command is what the properties ask for.
Ended(command, result, c, s) ==
    LET ended == [command EXCEPT !.at = "ended", !.result = result, !.password = Absent,
                                 !.left = [config |-> c, secret |-> s]]
    IN  IF result \in {"ok", "restored", "kept"} THEN ended
        ELSE [ended EXCEPT !.account = Absent, !.candidate = Absent, !.original = Absent,
                           !.replaced = Absent, !.since = {}]

\* One command moves on; if the secret changes, the others are disturbed.
Moves(c, command, s) ==
    /\ secret' = s
    /\ commands' = [d \in Commands |->
            IF d = c THEN command
            ELSE IF s = secret \/ d \notin Active THEN commands[d]
            ELSE [commands[d] EXCEPT !.disturbed = TRUE,
                                     !.since = IF IsWriting(commands[d]) THEN {s} ELSE {}]]

Fails(c, result) == Moves(c, Ended(commands[c], result, config, secret), secret)

\* The configuration is loaded, and the account has to be there, or not.
Begin(c, does, settings, password, writes) ==
    LET missing == (does = "add") # (config = Absent)
        command ==
            [does |-> does, at |-> "asking", password |-> password, account |-> Account(settings, writes),
             candidate |-> Absent, original |-> Absent, replaced |-> Absent,
             result |-> "none", found |-> [config |-> config, secret |-> secret], left |-> Absent,
             alone |-> Active = {}, disturbed |-> FALSE, since |-> {}]
        started ==
            CASE does = "add" ->
                    [command EXCEPT !.at = "verifying", !.candidate = Secret(password, c, 0)]
              [] does = "password" -> [command EXCEPT !.account = config]
              [] does = "repair"   -> [command EXCEPT !.account = Account(settings, config.writes)]
              [] does = "remove"   -> [command EXCEPT !.at = "replacing", !.account = Absent]
              [] does = "on"       -> [command EXCEPT !.account = config]
              [] does = "off"      ->
                    [command EXCEPT !.at = "saving", !.account = [config EXCEPT !.writes = FALSE]]
    IN  /\ commands[c].at = "unused"
        /\ commands' = [d \in Commands |->
                IF d = c THEN IF missing THEN Ended(command, "failed", config, secret) ELSE started
                ELSE IF d \in Active THEN [commands[d] EXCEPT !.alone = FALSE]
                ELSE commands[d]]
        /\ UNCHANGED <<config, secret, serving, keys, accepted, wiped>>

\* The secret is loaded.  A repair keeps the device unless the profile changes.
AskUser(c) ==
    LET command == commands[c]
        with(candidate) ==
            LET next == [command EXCEPT !.at = "verifying", !.original = secret, !.candidate = candidate]
            IN  Moves(c, next, secret)
    IN  /\ command.at = "asking"
        /\ IF secret = Absent THEN Fails(c, "failed")
           ELSE CASE command.does = "on" -> with(secret)
                  [] command.does = "password" -> with([secret EXCEPT !.password = command.password])
                  [] command.does = "repair" ->
                        \E device \in {secret.device, c} :
                            /\ device = c => command.account.settings # command.found.config.settings
                            /\ with(Secret(command.password, device, 0))
        /\ UNCHANGED <<config, serving, keys, accepted, wiped>>

\* Exchange accepts the candidate; the policy is negotiated if there is none
\* yet, or if Exchange asks for it.  set-writes does this with the store itself.
Accept(c, refreshes, supports) ==
    LET command == commands[c]
        key == IF refreshes THEN keys + 1 ELSE command.candidate.key
        verified == [command EXCEPT !.candidate.key = key]
        impossible == command.account.writes /\ ~supports
    IN  /\ command.at = "verifying"
        /\ command.candidate.key = 0 => refreshes
        /\ refreshes => keys < MaxKeys
        /\ keys' = IF refreshes THEN keys + 1 ELSE keys
        /\ accepted' = accepted \union {Login(command.account.settings, command.candidate)}
        /\ CASE command.does = "on" ->
                    LET s == IF refreshes /\ secret # Absent THEN [secret EXCEPT !.key = key] ELSE secret
                    IN  Moves(c, IF ~supports \/ (refreshes /\ secret = Absent)
                                 THEN Ended(command, "failed", config, s)
                                 ELSE [command EXCEPT !.at = "reloading"], s)
             [] command.does = "add" /\ impossible -> Fails(c, "failed")
             [] command.does = "repair" /\ impossible ->
                    Moves(c, [verified EXCEPT !.at = "replacing", !.account.writes = FALSE], secret)
             [] OTHER -> Moves(c, [verified EXCEPT !.at = "replacing"], secret)
        /\ UNCHANGED <<config, serving, wiped>>

\* A wipe is ordered: only set-writes has anything to forget.
Decline(c, wipes) ==
    LET s == IF wipes /\ commands[c].does = "on" THEN Absent ELSE secret
    IN  /\ commands[c].at = "verifying"
        /\ Moves(c, Ended(commands[c], IF s = secret THEN "failed" ELSE "wiped", config, s), s)
        /\ wiped' = (wiped \/ (s # secret /\ Active = {c}))
        /\ UNCHANGED <<config, serving, keys, accepted>>

Replace(c) ==
    LET command == commands[c]
        s == command.candidate
        replaced == [command EXCEPT !.at = "saving", !.replaced = secret]
    IN  /\ command.at = "replacing"
        /\ \/ /\ Moves(c, IF command.does = "password" THEN Ended(replaced, "ok", config, s) ELSE replaced, s)
              /\ wiped' = (wiped /\ command.does # "add")
           \/ Fails(c, "failed") /\ UNCHANGED wiped
        /\ UNCHANGED <<config, serving, keys, accepted>>

Reload(c) ==
    /\ commands[c].at = "reloading"
    /\ IF config = Absent THEN Fails(c, "failed")
       ELSE Moves(c, [commands[c] EXCEPT !.at = "saving", !.account = [config EXCEPT !.writes = TRUE]], secret)
    /\ UNCHANGED <<config, serving, keys, accepted, wiped>>

Save(c) ==
    LET command == commands[c]
    IN  /\ command.at = "saving"
        /\ \/ /\ config' = command.account
              /\ Moves(c, Ended(command, "ok", config', secret), secret)
           \/ /\ IF command.does \in {"on", "off"} THEN Fails(c, "failed")
                 ELSE Moves(c, [command EXCEPT !.at = "restoring"], secret)
              /\ UNCHANGED config
        /\ UNCHANGED <<serving, keys, accepted, wiped>>

\* A repair goes back to what it had loaded, the others to what they replaced.
Previous(command) == IF command.does = "repair" THEN command.original ELSE command.replaced

\* Mutant: the secret goes back whoever has changed it.
RestoredAlways(command) == Previous(command)

\* restore: only the command's own candidate goes back.
Restored(command) == IF secret = command.candidate THEN Previous(command) ELSE secret

Restore(c) ==
    LET command == commands[c]
        s == Restored(command)
    IN  /\ command.at = "restoring"
        /\ \/ Moves(c, Ended(command, IF secret = command.candidate THEN "restored" ELSE "kept", config, s), s)
           \/ Fails(c, "broken")
        /\ UNCHANGED <<config, serving, keys, accepted, wiped>>

Kill(c) ==
    /\ c \in Active
    /\ Fails(c, IF IsWriting(commands[c]) THEN "torn" ELSE "killed")
    /\ UNCHANGED <<config, serving, keys, accepted, wiped>>

----
(* Sessions *)

Serve ==
    /\ ~serving /\ config # Absent /\ secret # Absent
    /\ serving' = TRUE
    /\ UNCHANGED <<config, secret, commands, keys, accepted, wiped>>

\* refresh_policy: the store has to have the account still.
RefreshPolicy ==
    /\ serving /\ secret # Absent /\ keys < MaxKeys
    /\ keys' = keys + 1
    /\ Moves(Absent, Absent, [secret EXCEPT !.key = keys + 1])
    /\ UNCHANGED <<config, serving, accepted, wiped>>

WipeSecret ==
    /\ serving /\ secret # Absent
    /\ Moves(Absent, Absent, Absent)
    /\ wiped' = (wiped \/ Active = {})
    /\ UNCHANGED <<config, serving, keys, accepted>>

----
Initially(c, s) ==
    /\ config = c /\ secret = s
    /\ commands = [d \in Commands |-> Unused]
    /\ serving = FALSE /\ wiped = FALSE
    /\ keys = IF s = Absent THEN 0 ELSE s.key
    /\ accepted = IF s = Absent THEN {} ELSE {Login(c.settings, s)}

SetupInit ==
    \/ Initially(Absent, Absent)
    \/ \E settings \in Settings, writes \in BOOLEAN, password \in Passwords :
        Initially(Account(settings, writes), Secret(password, Absent, 1))

CommandNext(c) ==
    \/ \E settings \in Settings, password \in Passwords, writes \in BOOLEAN :
        Begin(c, "add", settings, password, writes)
    \/ \E settings \in Settings, password \in Passwords : Begin(c, "repair", settings, password, FALSE)
    \/ \E password \in Passwords : Begin(c, "password", Absent, password, FALSE)
    \/ \E does \in {"remove", "on", "off"} : Begin(c, does, Absent, Absent, FALSE)
    \/ AskUser(c) \/ Replace(c) \/ Reload(c) \/ Save(c) \/ Restore(c) \/ Kill(c)
    \/ \E refreshes, supports \in BOOLEAN : Accept(c, refreshes, supports)
    \/ \E wipes \in BOOLEAN : Decline(c, wipes)

SetupNext == (\E c \in Commands : CommandNext(c)) \/ Serve \/ RefreshPolicy \/ WipeSecret

SetupSpec == SetupInit /\ [][SetupNext]_setupVars

----
SetupTypeOK ==
    /\ config = Absent \/ (config.settings \in Settings /\ config.writes \in BOOLEAN)
    /\ secret = Absent \/ (secret.password \in Passwords /\ secret.key \in 1 .. MaxKeys)
    /\ \A c \in Commands : commands[c].at \in Places \union {"unused"}

Is(command, result) == command.at = "ended" /\ command.result = result
SameButKey(s, t) ==
    \/ s = Absent /\ t = Absent
    \/ s # Absent /\ t # Absent /\ s.password = t.password /\ s.device = t.device

\* What is configured has been accepted by Exchange as it stands, and nothing
\* is kept of what is not configured, unless commands have overlapped or the
\* secret could not be rolled back.
StoredAsVerified ==
    \/ \E c \in Commands : LET command == commands[c]
                           IN  \/ ~command.alone \/ IsWriting(command)
                               \/ \E result \in {"torn", "broken", "kept"} : Is(command, result)
    \/ /\ config = Absent => secret = Absent
       /\ config # Absent /\ secret # Absent =>
            Login(config.settings, secret) \in accepted

\* A command that nothing comes across does what it was asked, or nothing.
CommandsAreWhole ==
    \A c \in Commands :
        LET command == commands[c]
            found == command.found
            left == command.left
        IN  command.at = "ended" /\ command.alone /\ ~command.disturbed =>
                /\ command.result \in {"failed", "killed", "restored"} =>
                        left.config = found.config /\ SameButKey(left.secret, found.secret)
                /\ command.result = "ok" =>
                        /\ left.config = command.account
                        /\ left.secret = IF command.does = "off" THEN found.secret
                                         ELSE IF command.does = "on" THEN left.secret ELSE command.candidate

\* A rollback puts back what the command has replaced, and never undoes what
\* was written since.  There are two exceptions: a repair puts back what it had
\* loaded before its verification, and a removal the credentials that were wiped
\* after it had removed them.
RollbacksAreFair ==
    \A c \in Commands :
        LET command == commands[c]
        IN  /\ Is(command, "restored") =>
                /\ \/ command.left.secret = command.replaced
                   \/ command.does = "repair" /\ command.replaced # command.original
                /\ command.since \subseteq {command.candidate}
            /\ Is(command, "kept") => command.since = {command.left.secret}

\* Credentials that were wiped stay away until the account is added again.
WipesHold == wiped => secret = Absent

\* The credentials of an account and its configuration belong together, and no
\* command or session undoes what another one has done.
SetUpIsSound == SetupTypeOK /\ StoredAsVerified /\ CommandsAreWhole /\ RollbacksAreFair /\ WipesHold
====
