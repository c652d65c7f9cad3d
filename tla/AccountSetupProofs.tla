---- MODULE AccountSetupProofs ----
(***************************************************************************)
(* Theorems about AccountSetup for any commands, settings and passwords    *)
(* and any number of policies.                                             *)
(*                                                                         *)
(* A command knows of others only what it finds in the store when it rolls *)
(* back.  So its own record has to say what the store holds: a command     *)
(* that is writing either finds its candidate there, or its history names  *)
(* what another one put there (Coherent).  One that nobody came across     *)
(* leaves the account alone until it writes, and then what it replaced is  *)
(* what it found (Untouched).  While no command has overlapped another, at *)
(* most one is active, and the pair of account and secret is accepted but  *)
(* for the moments in which that one is writing (Matched).                 *)
(*                                                                         *)
(* Theorems about Provisioning and LocalFiles, for any policies, files and *)
(* downloads, come last.                                                   *)
(***************************************************************************)
EXTENDS AccountSetup, Provisioning, LocalFiles, SequenceTheorems, TLAPS

Kinds   == {"add", "repair", "password", "remove", "on", "off"}
Results == {"none", "ok", "failed", "killed", "torn", "wiped", "broken", "restored", "kept"}
Stored  == {s \in Secrets : s.key # 0} \union {Absent}
Pairs   == [config : Accounts \union {Absent}, secret : Stored]

Given ==
    [does : Kinds, at : Places, password : Passwords \union {Absent}, account : Accounts \union {Absent},
     candidate : Secrets \union {Absent}, original : Stored, replaced : Stored, result : Results,
     found : Pairs, left : Pairs \union {Absent}, alone : BOOLEAN, disturbed : BOOLEAN,
     since : SUBSET Stored]

Types ==
    /\ config \in Accounts \union {Absent}
    /\ secret \in Stored
    /\ \A c \in Commands : commands[c] \in Given \union {Unused}
    /\ keys \in 0 .. MaxKeys

\* Commands that write both the secret and the configuration.
Both(command) == command.does \in {"add", "repair", "remove"}

Verified(command) ==
    IF command.does = "remove" THEN command.candidate = Absent
    ELSE /\ command.candidate \in Stored \ {Absent}
         /\ Login(command.account.settings, command.candidate) \in accepted

\* What an active command holds at its place.
Coherent(command) ==
    /\ command.does = "remove" <=> command.account = Absent
    /\ command.does = "add" <=> command.found.config = Absent
    /\ command.does = "password" => command.account = command.found.config
    /\ command.at = "asking" => command.does \in {"password", "repair", "on"}
    /\ command.at = "verifying" =>
          command.does \in {"add", "password", "repair", "on"} /\ command.candidate # Absent
    /\ command.at = "replacing" =>
          command.does \in {"add", "password", "repair", "remove"} /\ Verified(command)
    /\ command.at = "reloading" => command.does = "on"
    /\ command.at = "saving" => command.does # "password" /\ (Both(command) => Verified(command))
    /\ command.at = "restoring" => Both(command) /\ Verified(command)
    /\ command.does \in {"password", "repair"} => command.password \in Passwords
    /\ command.does = "repair" /\ command.at # "asking" => command.original # Absent
    /\ ~IsWriting(command) => command.since = {}
    /\ IsWriting(command) /\ Both(command) =>
          (command.since = {} /\ secret = command.candidate) \/ command.since = {secret}

Forms == \A c \in Active : Coherent(commands[c])

\* A command that overlapped no other is the only active one.
Alone == \A c \in Active : commands[c].alone => Active = {c} /\ config = commands[c].found.config

\* Overlapping commands, and those that could not clean up.
Taints(command) == ~command.alone \/ \E result \in {"torn", "broken", "kept"} : Is(command, result)
Tainted == \E c \in Commands : Taints(commands[c])

Matches(c, s) ==
    /\ c = Absent => s = Absent
    /\ c # Absent /\ s # Absent => Login(c.settings, s) \in accepted

\* What the only active command keeps of account and secret.
Matched(command) ==
    /\ ~IsWriting(command) \/ ~Both(command) => Matches(config, secret)
    /\ command.does = "repair" => Matches(config, command.original)
    /\ command.at = "saving" /\ ~Both(command) => command.account.settings = config.settings
    /\ IsWriting(command) /\ Both(command) =>
          Matches(config, command.replaced) /\ Matches(command.account, secret)

Sound ==
    ~Tainted =>
        /\ Active = {} => Matches(config, secret)
        /\ \A c \in Active : Matched(commands[c])

\* What a command that nothing came across has made of the secret so far.
Untouched(command) ==
    IF IsWriting(command) /\ Both(command)
    THEN /\ secret = command.candidate /\ command.replaced = command.found.secret
         /\ command.does = "repair" => command.original = command.found.secret
    ELSE /\ SameButKey(secret, command.found.secret)
         /\ command.does # "on" => secret = command.found.secret
         /\ command.does = "repair" => command.original \in {Absent, command.found.secret}

Whole == \A c \in Active : commands[c].alone /\ ~commands[c].disturbed => Untouched(commands[c])

\* No active command can bring back what was wiped.
AfterWipe(command) ==
    /\ command.does \in {"password", "repair", "on"} => command.at = "asking"
    /\ command.does = "add" => command.at \in {"verifying", "replacing"}
    /\ command.does = "remove" => command.replaced = Absent

Away == wiped => secret = Absent /\ \A c \in Active : AfterWipe(commands[c])

\* CommandsAreWhole and RollbacksAreFair, of one command.
IsWhole(command) ==
    command.at = "ended" /\ command.alone /\ ~command.disturbed =>
        /\ command.result \in {"failed", "killed", "restored"} =>
              command.left.config = command.found.config /\ SameButKey(command.left.secret, command.found.secret)
        /\ command.result = "ok" =>
              /\ command.left.config = command.account
              /\ command.left.secret = IF command.does = "off" THEN command.found.secret
                                       ELSE IF command.does = "on" THEN command.left.secret
                                       ELSE command.candidate

IsFair(command) ==
    /\ Is(command, "restored") =>
          /\ \/ command.left.secret = command.replaced
             \/ command.does = "repair" /\ command.replaced # command.original
          /\ command.since \subseteq {command.candidate}
    /\ Is(command, "kept") => command.since = {command.left.secret}

Results0 == \A c \in Commands : IsWhole(commands[c]) /\ IsFair(commands[c])

IInv == Types /\ Forms /\ Alone /\ Sound /\ Whole /\ Away /\ Results0

----
(* Records *)

\* Another command that has changed the secret to s.
Disturb(command, s) ==
    [command EXCEPT !.disturbed = TRUE, !.since = IF IsWriting(command) THEN {s} ELSE {}]

\* What a step of command c, or of a session, makes of the other commands.
OthersMove(c) ==
    \A d \in Commands \ {c} :
        commands'[d] = IF secret' = secret \/ d \notin Active THEN commands[d]
                       ELSE Disturb(commands[d], secret')

LEMMA MovesFacts ==
    ASSUME NEW c, NEW command, NEW s, Moves(c, command, s)
    PROVE  /\ secret' = s
           /\ OthersMove(c)
           /\ c \in Commands => commands'[c] = command
BY DEF Moves, OthersMove, Disturb

LEMMA ActiveFacts ==
    ASSUME Types
    PROVE  \A c \in Commands :
              /\ c \in Active <=> commands[c] \in Given /\ commands[c].at # "ended"
              /\ c \notin Active <=> commands[c].at \in {"unused", "ended"}
              /\ c \in Active => commands[c] \in Given
<1>1. /\ \A command \in Given : command.at \in Places
      /\ Unused.at = "unused" /\ "unused" \notin Places
  BY DEF Given, Unused, Places
<1>2. \A c \in Commands : commands[c] \in Given \/ commands[c] = Unused
  BY DEF Types
<1> QED BY <1>1, <1>2 DEF Active

LEMMA DisturbFacts ==
    ASSUME NEW command \in Given, NEW s \in Stored
    PROVE  /\ Disturb(command, s) \in Given
           /\ Disturb(command, s).does = command.does
           /\ Disturb(command, s).at = command.at
           /\ Disturb(command, s).password = command.password
           /\ Disturb(command, s).account = command.account
           /\ Disturb(command, s).candidate = command.candidate
           /\ Disturb(command, s).original = command.original
           /\ Disturb(command, s).replaced = command.replaced
           /\ Disturb(command, s).found = command.found
           /\ Disturb(command, s).alone = command.alone
           /\ Disturb(command, s).disturbed = TRUE
           /\ Disturb(command, s).since = IF IsWriting(command) THEN {s} ELSE {}
BY DEF Disturb, Given

----
(* The other commands *)

LEMMA OthersKeep ==
    ASSUME Types, Forms, NEW c, secret' \in Stored, accepted \subseteq accepted', OthersMove(c)
    PROVE  \A d \in Commands \ {c} :
              /\ commands'[d] \in Given \union {Unused}
              /\ commands'[d].at = commands[d].at /\ commands'[d].alone = commands[d].alone
              /\ d \notin Active => commands'[d] = commands[d]
              /\ d \in Active =>
                    /\ Coherent(commands[d])'
                    /\ commands'[d].does = commands[d].does
                    /\ commands'[d].found = commands[d].found
                    /\ commands'[d].account = commands[d].account
                    /\ commands'[d].candidate = commands[d].candidate
                    /\ commands'[d].original = commands[d].original
                    /\ commands'[d].replaced = commands[d].replaced
                    /\ ~commands'[d].disturbed => ~commands[d].disturbed /\ secret' = secret
<1> SUFFICES ASSUME NEW d \in Commands, d # c
             PROVE  /\ commands'[d] \in Given \union {Unused}
                    /\ commands'[d].at = commands[d].at /\ commands'[d].alone = commands[d].alone
                    /\ d \notin Active => commands'[d] = commands[d]
                    /\ d \in Active =>
                          /\ Coherent(commands[d])'
                          /\ commands'[d].does = commands[d].does
                          /\ commands'[d].found = commands[d].found
                          /\ commands'[d].account = commands[d].account
                          /\ commands'[d].candidate = commands[d].candidate
                          /\ commands'[d].original = commands[d].original
                          /\ commands'[d].replaced = commands[d].replaced
                          /\ ~commands'[d].disturbed => ~commands[d].disturbed /\ secret' = secret
  OBVIOUS
<1>1. CASE d \notin Active
  BY <1>1 DEF OthersMove, Types
<1>2. CASE d \in Active /\ secret' = secret
  <2>1. commands'[d] = commands[d] /\ Coherent(commands[d])
    BY <1>2 DEF OthersMove, Forms
  <2>2. Coherent(commands[d])'
    BY <1>2, <2>1 DEF Coherent, Verified, Both, IsWriting
  <2> QED BY <1>2, <2>1, <2>2 DEF Types
<1>3. CASE d \in Active /\ secret' # secret
  <2>1. commands[d] \in Given /\ Coherent(commands[d])
    BY <1>3, ActiveFacts DEF Forms
  <2>2. commands'[d] = Disturb(commands[d], secret')
    BY <1>3 DEF OthersMove
  <2>3. /\ commands'[d] \in Given
        /\ commands'[d].does = commands[d].does /\ commands'[d].at = commands[d].at
        /\ commands'[d].password = commands[d].password
        /\ commands'[d].account = commands[d].account /\ commands'[d].candidate = commands[d].candidate
        /\ commands'[d].original = commands[d].original /\ commands'[d].replaced = commands[d].replaced
        /\ commands'[d].found = commands[d].found
        /\ commands'[d].alone = commands[d].alone /\ commands'[d].disturbed = TRUE
        /\ commands'[d].since = IF IsWriting(commands[d]) THEN {secret'} ELSE {}
    <3> DEFINE s == secret'
               old == commands[d]
    <3>1. old \in Given /\ s \in Stored
      BY <2>1
    <3> HIDE DEF s, old
    <3>2. /\ Disturb(old, s) \in Given
          /\ Disturb(old, s).does = old.does /\ Disturb(old, s).at = old.at
          /\ Disturb(old, s).password = old.password
          /\ Disturb(old, s).account = old.account /\ Disturb(old, s).candidate = old.candidate
          /\ Disturb(old, s).original = old.original /\ Disturb(old, s).replaced = old.replaced
          /\ Disturb(old, s).found = old.found
          /\ Disturb(old, s).alone = old.alone /\ Disturb(old, s).disturbed = TRUE
          /\ Disturb(old, s).since = IF IsWriting(old) THEN {s} ELSE {}
      BY <3>1, DisturbFacts
    <3> QED BY <2>2, <3>2 DEF s, old
  <2>4. Coherent(commands[d])'
    BY <2>1, <2>3 DEF Coherent, Verified, Both, IsWriting
  <2> QED BY <1>3, <2>3, <2>4
<1> QED BY <1>1, <1>2, <1>3

----
(* A step of one command *)

LEMMA CommandKeeps ==
    ASSUME IInv, NEW c \in Active, OthersMove(c),
           config' \in Accounts \union {Absent}, secret' \in Stored, keys' \in 0 .. MaxKeys,
           accepted \subseteq accepted',
           commands' \in [Commands -> Given \union {Unused}], commands'[c] \in Given,
           commands'[c].alone = commands[c].alone, commands'[c].found = commands[c].found,
           config' = config \/ commands'[c].at = "ended",
           commands'[c].at # "ended" => Coherent(commands[c])',
           ~Tainted /\ ~Taints(commands[c])' =>
               IF commands'[c].at = "ended" THEN Matches(config, secret)' ELSE Matched(commands[c])',
           commands[c].alone /\ ~commands'[c].disturbed /\ commands'[c].at # "ended" =>
               Untouched(commands[c])',
           IsWhole(commands[c])', IsFair(commands[c])',
           wiped' => /\ secret' = Absent /\ (wiped \/ Active = {c})
                     /\ commands'[c].at # "ended" => AfterWipe(commands[c])'
    PROVE  IInv'
<1>1. Types /\ Forms /\ Alone /\ Sound /\ Whole /\ Away /\ Results0 /\ c \in Commands
  BY DEF IInv, Active
<1>2. \A d \in Commands \ {c} :
         /\ commands'[d] \in Given \union {Unused}
         /\ commands'[d].at = commands[d].at /\ commands'[d].alone = commands[d].alone
         /\ d \notin Active => commands'[d] = commands[d]
         /\ d \in Active =>
               /\ Coherent(commands[d])'
               /\ commands'[d].does = commands[d].does
               /\ commands'[d].replaced = commands[d].replaced
  BY <1>1, OthersKeep
<1>3. Types'
  BY DEF Types
<1>4. Active' = IF commands'[c].at = "ended" THEN Active \ {c} ELSE Active
  <2>1. commands'[c].at # "unused"
    BY DEF Given, Places
  <2> QED BY <1>1, <1>2, <2>1 DEF Active
<1>5. Forms'
  <2>1. ASSUME NEW d \in Active'
        PROVE  Coherent(commands[d])'
    <3>1. d \in Active /\ d \in Commands /\ (d = c => commands'[c].at # "ended")
      BY <1>1, <1>4 DEF Active
    <3>2. CASE d = c
      BY <3>1, <3>2
    <3> QED BY <1>2, <3>1, <3>2
  <2> QED BY <2>1 DEF Forms
<1>6. \A d \in Active \ {c} : ~commands'[d].alone
  BY <1>1, <1>2 DEF Alone, Active
<1>7. Alone'
  <2>1. ASSUME NEW d \in Active', commands'[d].alone
        PROVE  Active' = {d} /\ config' = commands'[d].found.config
    <3>1. d = c
      BY <1>4, <1>6, <2>1
    <3> QED BY <1>1, <1>4, <2>1, <3>1 DEF Alone
  <2> QED BY <2>1 DEF Alone
<1>8. Sound'
  <2>1. SUFFICES ASSUME ~Tainted'
                 PROVE  /\ Active' = {} => Matches(config, secret)'
                        /\ \A d \in Active' : Matched(commands[d])'
    BY DEF Sound
  <2>2. ~Tainted
    <3>1. ASSUME NEW d \in Commands, Taints(commands[d])
          PROVE  FALSE
      <4>1. ~Taints(commands[d])'
        BY <2>1 DEF Tainted
      <4>2. CASE d = c
        BY <1>1, <3>1, <4>1, <4>2 DEF Taints, Is, Active
      <4>3. CASE d # c /\ d \in Active
        BY <1>2, <3>1, <4>1, <4>3 DEF Taints, Is, Active
      <4>4. CASE d # c /\ d \notin Active
        BY <1>2, <3>1, <4>1, <4>4 DEF Taints, Is
      <4> QED BY <4>2, <4>3, <4>4
    <3> QED BY <3>1 DEF Tainted
  <2>3. ~Taints(commands[c])' /\ ~\E d \in Active \ {c} : TRUE
    <3>1. \A d \in Commands : ~Taints(commands[d])'
      BY <2>1 DEF Tainted
    <3>2. \A d \in Commands : commands'[d].alone
      BY <3>1 DEF Taints
    <3> QED BY <1>1, <1>6, <3>1, <3>2 DEF Active
  <2> QED BY <1>4, <2>2, <2>3
<1>9. Whole'
  <2>1. ASSUME NEW d \in Active', commands'[d].alone, ~commands'[d].disturbed
        PROVE  Untouched(commands[d])'
    <3>1. d = c
      BY <1>4, <1>6, <2>1
    <3> QED BY <1>4, <2>1, <3>1
  <2> QED BY <2>1 DEF Whole
<1>10. Away'
  <2>1. ASSUME wiped', NEW d \in Active', d # c
        PROVE  AfterWipe(commands[d])'
    <3>1. d \in Active /\ d \in Commands /\ AfterWipe(commands[d])
      BY <1>1, <1>4, <2>1 DEF Away, Active
    <3> QED BY <1>2, <2>1, <3>1 DEF AfterWipe
  <2> QED BY <1>4, <2>1 DEF Away
<1>11. Results0'
  <2>1. ASSUME NEW d \in Commands, d # c
        PROVE  IsWhole(commands[d])' /\ IsFair(commands[d])'
    <3>1. CASE d \in Active
      BY <1>2, <2>1, <3>1 DEF IsWhole, IsFair, Is, Active
    <3>2. CASE d \notin Active
      BY <1>1, <1>2, <2>1, <3>2 DEF Results0, IsWhole, IsFair, Is
    <3> QED BY <3>1, <3>2
  <2> QED BY <2>1 DEF Results0
<1> QED BY <1>3, <1>5, <1>7, <1>8, <1>9, <1>10, <1>11 DEF IInv

----
(* A step of a session *)

LEMMA SessionKeeps ==
    ASSUME IInv, OthersMove(Absent), config' = config, secret' \in Stored, keys' \in 0 .. MaxKeys,
           accepted' = accepted, commands' \in [Commands -> Given \union {Unused}],
           \/ secret' = secret \/ secret' = Absent
           \/ /\ secret # Absent /\ secret' # Absent
              /\ secret'.password = secret.password /\ secret'.device = secret.device,
           wiped' => secret' = Absent /\ (wiped \/ Active = {})
    PROVE  IInv'
<1>1. Types /\ Forms /\ Alone /\ Sound /\ Whole /\ Away /\ Results0 /\ Absent \notin Commands
  BY AbsentIsNothing DEF IInv
<1>2. \A d \in Commands :
         /\ commands'[d].at = commands[d].at /\ commands'[d].alone = commands[d].alone
         /\ d \notin Active => commands'[d] = commands[d]
         /\ d \in Active =>
               /\ Coherent(commands[d])'
               /\ commands'[d].does = commands[d].does
               /\ commands'[d].found = commands[d].found
               /\ commands'[d].account = commands[d].account
               /\ commands'[d].candidate = commands[d].candidate
               /\ commands'[d].original = commands[d].original
               /\ commands'[d].replaced = commands[d].replaced
               /\ ~commands'[d].disturbed => ~commands[d].disturbed /\ secret' = secret
  BY <1>1, OthersKeep
<1>3. Types'
  BY <1>1 DEF Types
<1>4. Active' = Active
  BY <1>2 DEF Active
<1>5. Forms'
  BY <1>2, <1>4 DEF Forms, Active
<1>6. Alone'
  BY <1>1, <1>2, <1>4 DEF Alone, Active
<1>7. \A x : Matches(x, secret) => Matches(x, secret)'
  <2>1. ASSUME NEW x, Matches(x, secret)
        PROVE  /\ x = Absent => secret' = Absent
               /\ x # Absent /\ secret' # Absent => Login(x.settings, secret') \in accepted
    BY <2>1 DEF Matches, Login
  <2> QED BY <2>1 DEF Matches
<1>8. Sound'
  <2>1. SUFFICES ASSUME ~Tainted'
                 PROVE  /\ Active' = {} => Matches(config, secret)'
                        /\ \A d \in Active' : Matched(commands[d])'
    BY DEF Sound
  <2>2. ~Tainted
    <3>1. ASSUME NEW d \in Commands, Taints(commands[d])
          PROVE  FALSE
      <4>1. ~Taints(commands[d])'
        BY <2>1 DEF Tainted
      <4>2. CASE d \in Active
        BY <1>2, <3>1, <4>1, <4>2 DEF Taints, Is, Active
      <4>3. CASE d \notin Active
        BY <1>2, <3>1, <4>1, <4>3 DEF Taints, Is
      <4> QED BY <4>2, <4>3
    <3> QED BY <3>1 DEF Tainted
  <2>3. /\ Active = {} => Matches(config, secret)
        /\ \A d \in Active : Matched(commands[d])
    BY <1>1, <2>2 DEF Sound
  <2>4. Matches(config, secret) => Matches(config, secret)'
    BY <1>7 DEF Matches
  <2>5. ASSUME NEW d \in Active
        PROVE  Matched(commands[d])'
    <3>1. Matched(commands[d]) /\ d \in Commands
      BY <2>3 DEF Active
    <3>2. /\ IsWriting(commands[d])' <=> IsWriting(commands[d])
          /\ Both(commands[d])' <=> Both(commands[d])
      BY <1>2, <2>5, <3>1 DEF IsWriting, Both
    <3>3. PICK x : x = commands[d].account /\ x = commands'[d].account
      BY <1>2, <2>5, <3>1
    <3>4. Matches(x, secret) => Matches(x, secret)'
      BY <1>7
    <3>5. Matches(x, secret)' => Matches(commands[d].account, secret)'
      BY <3>3 DEF Matches
    <3> QED BY <1>2, <2>4, <2>5, <3>1, <3>2, <3>3, <3>4, <3>5 DEF Matched, Matches
  <2> QED BY <1>4, <2>3, <2>4, <2>5
<1>9. Whole'
  <2>1. ASSUME NEW d \in Active', commands'[d].alone, ~commands'[d].disturbed
        PROVE  Untouched(commands[d])'
    <3>1. d \in Active /\ d \in Commands /\ Untouched(commands[d]) /\ secret' = secret
      BY <1>1, <1>2, <1>4, <2>1 DEF Whole, Active
    <3> QED BY <1>2, <3>1 DEF Untouched, IsWriting, Both, SameButKey
  <2> QED BY <2>1 DEF Whole
<1>10. Away'
  <2>1. ASSUME wiped', NEW d \in Active'
        PROVE  AfterWipe(commands[d])'
    <3>1. d \in Active /\ d \in Commands /\ AfterWipe(commands[d])
      BY <1>1, <1>4, <2>1 DEF Away, Active
    <3> QED BY <1>2, <3>1 DEF AfterWipe
  <2> QED BY <2>1 DEF Away
<1>11. Results0'
  <2>1. ASSUME NEW d \in Commands
        PROVE  IsWhole(commands[d])' /\ IsFair(commands[d])'
    <3>1. CASE d \in Active
      BY <1>2, <2>1, <3>1 DEF IsWhole, IsFair, Is, Active
    <3>2. CASE d \notin Active
      BY <1>1, <1>2, <2>1, <3>2 DEF Results0, IsWhole, IsFair, Is
    <3> QED BY <3>1, <3>2
  <2> QED BY <2>1 DEF Results0
<1> QED BY <1>3, <1>5, <1>6, <1>8, <1>9, <1>10, <1>11 DEF IInv

----
(* What a command is left with *)

LEMMA EndedFacts ==
    ASSUME NEW command \in Given, NEW result \in Results, NEW pair \in Pairs
    PROVE  LET ended == Ended(command, result, pair.config, pair.secret)
           IN  /\ ended \in Given /\ ended.at = "ended" /\ ended.result = result /\ ended.left = pair
               /\ ended.does = command.does /\ ended.found = command.found
               /\ ended.alone = command.alone /\ ended.disturbed = command.disturbed
               /\ result \in {"ok", "restored", "kept"} =>
                     /\ ended.account = command.account /\ ended.candidate = command.candidate
                     /\ ended.original = command.original /\ ended.replaced = command.replaced
                     /\ ended.since = command.since
<1>1. pair = [config |-> pair.config, secret |-> pair.secret] /\ Absent \in Stored
  BY DEF Pairs, Stored
<1>2. CASE result \in {"ok", "restored", "kept"}
  BY <1>1, <1>2 DEF Ended, Given, Places
<1>3. CASE result \notin {"ok", "restored", "kept"}
  BY <1>1, <1>3 DEF Ended, Given, Places
<1> QED BY <1>2, <1>3

LEMMA MovesType ==
    ASSUME IInv, NEW c, NEW command, NEW s \in Stored, Moves(c, command, s),
           accepted \subseteq accepted', c \in Commands => command \in Given
    PROVE  commands' \in [Commands -> Given \union {Unused}] /\ secret' \in Stored
<1>1. secret' = s /\ OthersMove(c) /\ (c \in Commands => commands'[c] = command)
  BY MovesFacts
<1>2. \A d \in Commands \ {c} : commands'[d] \in Given \union {Unused}
  BY <1>1, OthersKeep DEF IInv
<1>3. commands' = [d \in Commands |-> commands'[d]]
  BY DEF Moves
<1> QED BY <1>1, <1>2, <1>3

\* A command ends.
LEMMA EndFacts ==
    ASSUME IInv, NEW c \in Active, NEW command \in Given, NEW result \in Results, NEW s \in Stored,
           config' \in Accounts \union {Absent}, accepted \subseteq accepted',
           Moves(c, Ended(command, result, config', s), s)
    PROVE  /\ commands' \in [Commands -> Given \union {Unused}]
           /\ secret' = s /\ OthersMove(c)
           /\ commands'[c] \in Given /\ commands'[c].at = "ended"
           /\ commands'[c].result = result /\ commands'[c].left \in Pairs
           /\ commands'[c].left.config = config' /\ commands'[c].left.secret = s
           /\ commands'[c].does = command.does /\ commands'[c].found = command.found
           /\ commands'[c].alone = command.alone /\ commands'[c].disturbed = command.disturbed
           /\ result \in {"ok", "restored", "kept"} =>
                 /\ commands'[c].account = command.account /\ commands'[c].candidate = command.candidate
                 /\ commands'[c].original = command.original /\ commands'[c].replaced = command.replaced
                 /\ commands'[c].since = command.since
<1> DEFINE pair == [config |-> config', secret |-> s]
           ended == Ended(command, result, config', s)
<1>1. pair \in Pairs /\ pair.config = config' /\ pair.secret = s /\ c \in Commands
  BY DEF Pairs, Active
<1> HIDE DEF pair
<1>2. /\ ended \in Given /\ ended.at = "ended" /\ ended.result = result /\ ended.left = pair
      /\ ended.does = command.does /\ ended.found = command.found
      /\ ended.alone = command.alone /\ ended.disturbed = command.disturbed
      /\ result \in {"ok", "restored", "kept"} =>
            /\ ended.account = command.account /\ ended.candidate = command.candidate
            /\ ended.original = command.original /\ ended.replaced = command.replaced
            /\ ended.since = command.since
  <2> DEFINE final == Ended(command, result, pair.config, pair.secret)
  <2>1. final = ended
    BY <1>1
  <2>2. /\ final \in Given /\ final.at = "ended" /\ final.result = result /\ final.left = pair
        /\ final.does = command.does /\ final.found = command.found
        /\ final.alone = command.alone /\ final.disturbed = command.disturbed
        /\ result \in {"ok", "restored", "kept"} =>
              /\ final.account = command.account /\ final.candidate = command.candidate
              /\ final.original = command.original /\ final.replaced = command.replaced
              /\ final.since = command.since
    BY <1>1, EndedFacts
  <2> HIDE DEF final, ended
  <2> QED BY <2>1, <2>2
<1> HIDE DEF ended
<1>3. Moves(c, ended, s)
  BY DEF ended
<1>4. secret' = s /\ OthersMove(c) /\ commands'[c] = ended
  BY <1>1, <1>3, MovesFacts
<1>5. commands' \in [Commands -> Given \union {Unused}]
  BY <1>2, <1>3, MovesType
<1> QED BY <1>1, <1>2, <1>4, <1>5

\* What the invariant says of an active command.
LEMMA ActiveHolds ==
    ASSUME IInv, NEW c \in Active
    PROVE  /\ c \in Commands /\ commands[c] \in Given /\ Coherent(commands[c])
           /\ commands[c].alone => Active = {c} /\ config = commands[c].found.config
           /\ ~Tainted => Matched(commands[c]) /\ commands[c].alone
           /\ commands[c].alone /\ ~commands[c].disturbed => Untouched(commands[c])
           /\ wiped => secret = Absent /\ AfterWipe(commands[c])
           /\ config \in Accounts \union {Absent} /\ secret \in Stored /\ keys \in 0 .. MaxKeys
<1>1. Types /\ Forms /\ Alone /\ Sound /\ Whole /\ Away /\ c \in Commands
  BY DEF IInv, Active
<1>2. commands[c] \in Given
  BY <1>1, ActiveFacts
<1>3. ~Tainted => commands[c].alone
  BY <1>1, <1>2 DEF Tainted, Taints, Given
<1> QED BY <1>1, <1>2, <1>3 DEF Types, Forms, Alone, Sound, Whole, Away

----
(* A command gives up *)

LEMMA FailsKeeps ==
    ASSUME IInv, NEW c \in Active, NEW result \in {"failed", "killed", "torn", "broken"},
           Fails(c, result), config' = config, wiped' => wiped, keys' \in 0 .. MaxKeys,
           accepted \subseteq accepted',
           result \in {"failed", "killed"} => ~IsWriting(commands[c]) \/ ~Both(commands[c])
    PROVE  IInv'
<1>1. /\ c \in Commands /\ commands[c] \in Given
      /\ commands[c].alone => config = commands[c].found.config
      /\ ~Tainted => Matched(commands[c])
      /\ commands[c].alone /\ ~commands[c].disturbed => Untouched(commands[c])
      /\ wiped => secret = Absent
      /\ config \in Accounts \union {Absent} /\ secret \in Stored
  BY ActiveHolds
<1>2. Moves(c, Ended(commands[c], result, config', secret), secret) /\ result \in Results
  BY DEF Fails, Results
<1>3. /\ commands' \in [Commands -> Given \union {Unused}]
      /\ secret' = secret /\ OthersMove(c)
      /\ commands'[c] \in Given /\ commands'[c].at = "ended" /\ commands'[c].result = result
      /\ commands'[c].left.config = config' /\ commands'[c].left.secret = secret
      /\ commands'[c].found = commands[c].found
      /\ commands'[c].alone = commands[c].alone /\ commands'[c].disturbed = commands[c].disturbed
  BY <1>1, <1>2, EndFacts
<1>4. ASSUME ~Tainted, ~Taints(commands[c])'
      PROVE  Matches(config, secret)'
  <2>1. result \in {"failed", "killed"}
    BY <1>3, <1>4 DEF Taints, Is
  <2>2. Matches(config, secret)
    BY <1>1, <1>4, <2>1 DEF Matched
  <2> QED BY <1>3, <2>2 DEF Matches
<1>5. IsWhole(commands[c])'
  <2>1. result \in {"failed", "killed"} /\ commands[c].alone /\ ~commands[c].disturbed =>
           SameButKey(secret, commands[c].found.secret)
    BY <1>1 DEF Untouched
  <2> QED BY <1>1, <1>3, <2>1 DEF IsWhole
<1>6. IsFair(commands[c])'
  BY <1>3 DEF IsFair, Is
<1>7. wiped' => secret' = Absent /\ (wiped \/ Active = {c})
  BY <1>1, <1>3
<1> QED BY <1>1, <1>3, <1>4, <1>5, <1>6, <1>7, CommandKeeps

LEMMA KillKeeps ==
    ASSUME IInv, NEW c \in Commands, Kill(c)
    PROVE  IInv'
<1>1. keys \in 0 .. MaxKeys
  BY DEF IInv, Types
<1>2. CASE IsWriting(commands[c])
  BY <1>1, <1>2, FailsKeeps DEF Kill
<1>3. CASE ~IsWriting(commands[c])
  BY <1>1, <1>3, FailsKeeps DEF Kill
<1> QED BY <1>2, <1>3

----
(* The steps before a command writes *)

\* The secret is loaded.
LEMMA WithKeeps ==
    ASSUME IInv, NEW c \in Active, commands[c].at = "asking", secret # Absent, NEW candidate \in Secrets,
           Moves(c, [commands[c] EXCEPT !.at = "verifying", !.original = secret, !.candidate = candidate],
                 secret),
           UNCHANGED <<config, keys, accepted, wiped>>
    PROVE  IInv'
<1> DEFINE next == [commands[c] EXCEPT !.at = "verifying", !.original = secret, !.candidate = candidate]
<1>1. /\ c \in Commands /\ commands[c] \in Given /\ Coherent(commands[c])
      /\ ~Tainted => Matched(commands[c])
      /\ commands[c].alone /\ ~commands[c].disturbed => Untouched(commands[c])
      /\ ~wiped
      /\ config \in Accounts \union {Absent} /\ secret \in Stored /\ keys \in 0 .. MaxKeys
  BY ActiveHolds
<1>2. /\ next \in Given /\ next.at = "verifying" /\ next.original = secret
      /\ next.candidate = candidate /\ next.does = commands[c].does /\ next.password = commands[c].password
      /\ next.account = commands[c].account /\ next.found = commands[c].found
      /\ next.alone = commands[c].alone /\ next.disturbed = commands[c].disturbed
      /\ next.since = commands[c].since
  BY <1>1 DEF Given, Places
<1> HIDE DEF next
<1>3. Moves(c, next, secret)
  BY DEF next
<1>4. secret' = secret /\ OthersMove(c) /\ commands'[c] = next
  BY <1>1, <1>3, MovesFacts
<1>5. commands' \in [Commands -> Given \union {Unused}]
  BY <1>1, <1>2, <1>3, MovesType
<1>6. Coherent(commands[c])'
  BY <1>1, <1>2, <1>4, AbsentIsNothing DEF Coherent, IsWriting
<1>7. ~Tainted => Matched(commands[c])'
  BY <1>1, <1>2, <1>4 DEF Matched, Matches, IsWriting
<1>8. commands[c].alone /\ ~commands'[c].disturbed => Untouched(commands[c])'
  BY <1>1, <1>2, <1>4 DEF Untouched, SameButKey, IsWriting
<1>9. IsWhole(commands[c])' /\ IsFair(commands[c])' /\ commands'[c].at # "ended"
  BY <1>2, <1>4 DEF IsWhole, IsFair, Is
<1>10. /\ config' \in Accounts \union {Absent} /\ secret' \in Stored /\ keys' \in 0 .. MaxKeys
       /\ accepted \subseteq accepted' /\ config' = config /\ ~wiped'
       /\ commands'[c] \in Given /\ commands'[c].alone = commands[c].alone
       /\ commands'[c].found = commands[c].found
  BY <1>1, <1>2, <1>4
<1> QED BY <1>4, <1>5, <1>6, <1>7, <1>8, <1>9, <1>10, CommandKeeps

LEMMA AskUserKeeps ==
    ASSUME IInv, NEW c \in Commands, AskUser(c)
    PROVE  IInv'
<1>1. commands[c].at = "asking" /\ UNCHANGED <<config, serving, keys, accepted, wiped>> /\ c \in Active
  BY DEF AskUser, Active
<1>2. /\ commands[c] \in Given /\ Coherent(commands[c]) /\ secret \in Stored /\ keys \in 0 .. MaxKeys
  BY <1>1, ActiveHolds
<1>3. CASE secret = Absent
  <2>1. Fails(c, "failed")
    BY <1>3 DEF AskUser
  <2> QED BY <1>1, <1>2, <2>1, FailsKeeps DEF IsWriting
<1>4. CASE secret # Absent
  <2>1. /\ secret \in Secrets /\ commands[c].does \in {"password", "repair", "on"}
        /\ commands[c].does # "on" => commands[c].password \in Passwords
    BY <1>1, <1>2, <1>4 DEF Stored, Coherent
  <2>2. PICK candidate :
           /\ Moves(c, [commands[c] EXCEPT !.at = "verifying", !.original = secret, !.candidate = candidate],
                    secret)
           /\ \/ commands[c].does = "on" /\ candidate = secret
              \/ commands[c].does = "password"
                 /\ candidate = [secret EXCEPT !.password = commands[c].password]
              \/ /\ commands[c].does = "repair"
                 /\ \E device \in {secret.device, c} : candidate = Secret(commands[c].password, device, 0)
    <3>1. CASE commands[c].does = "on"
      BY <1>4, <3>1 DEF AskUser
    <3>2. CASE commands[c].does = "password"
      BY <1>4, <3>2 DEF AskUser
    <3>3. CASE commands[c].does = "repair"
      BY <1>4, <3>3 DEF AskUser
    <3> QED BY <2>1, <3>1, <3>2, <3>3
  <2>3. candidate \in Secrets
    <3>1. 0 \in 0 .. MaxKeys
      BY KeysArePositive
    <3> QED BY <2>1, <2>2, <3>1 DEF Secrets, Secret
  <2> QED BY <1>1, <1>4, <2>2, <2>3, WithKeeps
<1> QED BY <1>3, <1>4

----
(* Verification *)

\* A verified command, which replaces the secret next, and maybe writes less.
Keyed(command, key) == [[command EXCEPT !.candidate.key = key] EXCEPT !.at = "replacing"]
Lesser(command, key) ==
    [[command EXCEPT !.candidate.key = key] EXCEPT !.at = "replacing", !.account.writes = FALSE]

\* The candidate with another key is the same login.
LEMMA VerifiedFacts ==
    ASSUME NEW command \in Given, command.candidate # Absent, NEW key \in 1 .. MaxKeys,
           command.account # Absent, NEW moved \in {Lesser(command, key), Keyed(command, key)}
    PROVE  /\ moved \in Given /\ moved.at = "replacing"
           /\ moved.does = command.does /\ moved.password = command.password
           /\ moved.account # Absent /\ moved.account.settings = command.account.settings
           /\ moved = Keyed(command, key) => moved.account = command.account
           /\ moved.candidate \in Stored \ {Absent}
           /\ moved.candidate.password = command.candidate.password
           /\ moved.candidate.device = command.candidate.device
           /\ moved.original = command.original /\ moved.replaced = command.replaced
           /\ moved.found = command.found /\ moved.alone = command.alone
           /\ moved.disturbed = command.disturbed /\ moved.since = command.since
<1> DEFINE old == command.candidate
           candidate == [old EXCEPT !.key = key]
           account == [command.account EXCEPT !.writes = FALSE]
           verified == [command EXCEPT !.candidate = candidate]
           next == [verified EXCEPT !.at = "replacing"]
           lesser == [next EXCEPT !.account = account]
<1>1. old \in Secrets /\ command.account \in Accounts /\ key # 0 /\ key \in 0 .. MaxKeys
  BY KeysArePositive DEF Given
<1>2. candidate \in Stored \ {Absent} /\ candidate \in Secrets
  BY <1>1, AbsentIsNothing DEF Stored, Secrets
<1>3. candidate.password = old.password /\ candidate.device = old.device
  BY <1>1 DEF Secrets
<1>4. account \in Accounts /\ account # Absent /\ account.settings = command.account.settings
  BY <1>1, AbsentIsNothing DEF Accounts
<1>5. Keyed(command, key) = next /\ Lesser(command, key) = lesser
  BY DEF Given, Keyed, Lesser
<1> HIDE DEF candidate, account
<1>6. \A other \in {next, lesser} :
         /\ other \in Given /\ other.at = "replacing"
         /\ other.does = command.does /\ other.password = command.password
         /\ other.account \in {account, command.account}
         /\ other.candidate = candidate
         /\ other.original = command.original /\ other.replaced = command.replaced
         /\ other.found = command.found /\ other.alone = command.alone
         /\ other.disturbed = command.disturbed /\ other.since = command.since
  <2>1. /\ next \in Given /\ next.at = "replacing"
        /\ next.does = command.does /\ next.password = command.password
        /\ next.account = command.account /\ next.candidate = candidate
        /\ next.original = command.original /\ next.replaced = command.replaced
        /\ next.found = command.found /\ next.alone = command.alone
        /\ next.disturbed = command.disturbed /\ next.since = command.since
    BY <1>2 DEF Given, Places
  <2> HIDE DEF next
  <2>2. /\ lesser \in Given /\ lesser.at = next.at
        /\ lesser.does = next.does /\ lesser.password = next.password
        /\ lesser.account = account /\ lesser.candidate = next.candidate
        /\ lesser.original = next.original /\ lesser.replaced = next.replaced
        /\ lesser.found = next.found /\ lesser.alone = next.alone
        /\ lesser.disturbed = next.disturbed /\ lesser.since = next.since
    BY <1>4, <2>1 DEF Given
  <2> HIDE DEF lesser
  <2> QED BY <2>1, <2>2
<1>7. next.account = command.account
  BY DEF Given
<1> HIDE DEF next, lesser
<1>8. \A other \in {lesser, next} :
         /\ other.account # Absent /\ other.account.settings = command.account.settings
         /\ other = next => other.account = command.account
         /\ other.candidate \in Stored \ {Absent}
         /\ other.candidate.password = old.password /\ other.candidate.device = old.device
  BY <1>2, <1>3, <1>4, <1>6, <1>7
<1> QED BY <1>5, <1>6, <1>8

\* A command that replaces the secret next.
LEMMA ToReplacing ==
    ASSUME IInv, NEW c \in Active, commands[c].at = "verifying", commands[c].does # "on",
           NEW moved \in Given, Moves(c, moved, secret),
           moved.at = "replacing", moved.does = commands[c].does, moved.password = commands[c].password,
           moved.account # Absent, moved.account.settings = commands[c].account.settings,
           moved.does # "repair" => moved.account = commands[c].account,
           moved.candidate \in Stored \ {Absent},
           Login(moved.account.settings, moved.candidate) \in accepted',
           moved.original = commands[c].original, moved.found = commands[c].found,
           moved.alone = commands[c].alone, moved.disturbed = commands[c].disturbed,
           moved.since = commands[c].since,
           config' = config, wiped' = wiped, keys' \in 0 .. MaxKeys, accepted \subseteq accepted'
    PROVE  IInv'
<1>1. /\ c \in Commands /\ commands[c] \in Given /\ Coherent(commands[c])
      /\ ~Tainted => Matched(commands[c])
      /\ commands[c].alone /\ ~commands[c].disturbed => Untouched(commands[c])
      /\ wiped => secret = Absent /\ AfterWipe(commands[c])
      /\ config \in Accounts \union {Absent} /\ secret \in Stored
  BY ActiveHolds
<1>2. secret' = secret /\ OthersMove(c) /\ commands'[c] = moved
  BY <1>1, MovesFacts
<1>3. commands' \in [Commands -> Given \union {Unused}]
  BY <1>1, MovesType
<1>4. Coherent(commands[c])'
  BY <1>1, <1>2 DEF Coherent, Verified, IsWriting
<1>5. ~Tainted => Matched(commands[c])'
  BY <1>1, <1>2 DEF Matched, Matches, IsWriting
<1>6. commands[c].alone /\ ~commands'[c].disturbed => Untouched(commands[c])'
  BY <1>1, <1>2 DEF Untouched, SameButKey, IsWriting
<1>7. IsWhole(commands[c])' /\ IsFair(commands[c])' /\ commands'[c].at # "ended"
  BY <1>2 DEF IsWhole, IsFair, Is
<1>8. wiped' => secret' = Absent /\ wiped /\ AfterWipe(commands[c])'
  BY <1>1, <1>2 DEF AfterWipe, Coherent
<1>9. /\ config' \in Accounts \union {Absent} /\ secret' \in Stored
      /\ commands'[c] \in Given /\ commands'[c].alone = commands[c].alone
      /\ commands'[c].found = commands[c].found
  BY <1>1, <1>2
<1> QED BY <1>2, <1>3, <1>4, <1>5, <1>6, <1>7, <1>8, <1>9, CommandKeeps

\* set-writes moves on, and may have changed the key of the secret.
LEMMA ToReloading ==
    ASSUME IInv, NEW c \in Active, commands[c].at = "verifying", commands[c].does = "on",
           NEW s \in Stored, SameButKey(s, secret),
           \/ Moves(c, [commands[c] EXCEPT !.at = "reloading"], s)
           \/ Moves(c, Ended(commands[c], "failed", config, s), s),
           config' = config, wiped' = wiped, keys' \in 0 .. MaxKeys, accepted \subseteq accepted'
    PROVE  IInv'
<1>1. /\ c \in Commands /\ commands[c] \in Given /\ Coherent(commands[c])
      /\ commands[c].alone => config = commands[c].found.config
      /\ ~Tainted => Matched(commands[c])
      /\ commands[c].alone /\ ~commands[c].disturbed => Untouched(commands[c])
      /\ wiped => AfterWipe(commands[c])
      /\ config \in Accounts \union {Absent}
  BY ActiveHolds
<1>2. ~wiped' /\ config' \in Accounts \union {Absent}
  BY <1>1 DEF AfterWipe
<1>3. Matches(config, secret) => Matches(config', s)
  <2>1. \A settings : secret # Absent => Login(settings, secret) = Login(settings, s)
    BY DEF Login, SameButKey
  <2> QED BY <2>1 DEF Matches, SameButKey
<1>4. commands[c].alone /\ ~commands[c].disturbed => SameButKey(s, commands[c].found.secret)
  BY <1>1 DEF Untouched, SameButKey, IsWriting
<1>5. CASE Moves(c, [commands[c] EXCEPT !.at = "reloading"], s)
  <2> DEFINE next == [commands[c] EXCEPT !.at = "reloading"]
  <2>1. /\ next \in Given /\ next.at = "reloading" /\ next.does = "on" /\ next.password = commands[c].password
        /\ next.account = commands[c].account /\ next.found = commands[c].found
        /\ next.alone = commands[c].alone /\ next.disturbed = commands[c].disturbed
        /\ next.since = commands[c].since
    BY <1>1 DEF Given, Places
  <2> HIDE DEF next
  <2>2. Moves(c, next, s)
    BY <1>5 DEF next
  <2>3. secret' = s /\ OthersMove(c) /\ commands'[c] = next
    BY <1>1, <2>2, MovesFacts
  <2>4. commands' \in [Commands -> Given \union {Unused}]
    BY <1>1, <2>1, <2>2, MovesType
  <2>5. Coherent(commands[c])'
    BY <1>1, <2>1, <2>3 DEF Coherent, IsWriting
  <2>6. ~Tainted => Matched(commands[c])'
    <3>1. ~Tainted => Matches(config, secret)'
      BY <1>1, <1>3, <2>3 DEF Matched, Matches, IsWriting
    <3> QED BY <2>1, <2>3, <3>1 DEF Matched, IsWriting
  <2>7. commands[c].alone /\ ~commands'[c].disturbed => Untouched(commands[c])'
    BY <1>4, <2>1, <2>3 DEF Untouched, SameButKey, IsWriting
  <2>8. IsWhole(commands[c])' /\ IsFair(commands[c])' /\ commands'[c].at # "ended"
    BY <2>1, <2>3 DEF IsWhole, IsFair, Is
  <2>9. /\ secret' \in Stored
        /\ commands'[c] \in Given /\ commands'[c].alone = commands[c].alone
        /\ commands'[c].found = commands[c].found
    BY <2>1, <2>3
  <2> QED BY <1>2, <2>3, <2>4, <2>5, <2>6, <2>7, <2>8, <2>9, CommandKeeps
<1>6. CASE Moves(c, Ended(commands[c], "failed", config', s), s)
  <2>0. "failed" \in Results
    BY DEF Results
  <2>1. /\ commands' \in [Commands -> Given \union {Unused}]
        /\ secret' = s /\ OthersMove(c)
        /\ commands'[c] \in Given /\ commands'[c].at = "ended" /\ commands'[c].result = "failed"
        /\ commands'[c].left.config = config' /\ commands'[c].left.secret = s
        /\ commands'[c].found = commands[c].found
        /\ commands'[c].alone = commands[c].alone /\ commands'[c].disturbed = commands[c].disturbed
    BY <1>1, <1>2, <1>6, <2>0, EndFacts
  <2>2. ~Tainted => Matches(config, secret)'
    BY <1>1, <1>3, <2>1 DEF Matched, Matches, IsWriting
  <2>3. IsWhole(commands[c])' /\ IsFair(commands[c])'
    BY <1>1, <1>4, <2>1 DEF IsWhole, IsFair, Is
  <2> QED BY <1>2, <2>1, <2>2, <2>3, CommandKeeps
<1> QED BY <1>5, <1>6

LEMMA AcceptKeeps ==
    ASSUME IInv, NEW c \in Commands, NEW refreshes \in BOOLEAN, NEW supports \in BOOLEAN,
           Accept(c, refreshes, supports)
    PROVE  IInv'
<1> DEFINE command == commands[c]
           k == IF refreshes THEN keys + 1 ELSE command.candidate.key
<1>1. /\ command.at = "verifying" /\ (command.candidate.key = 0 => refreshes)
      /\ refreshes => keys < MaxKeys
      /\ keys' = IF refreshes THEN keys + 1 ELSE keys
      /\ accepted' = accepted \union {Login(command.account.settings, command.candidate)}
      /\ UNCHANGED <<config, serving, wiped>>
      /\ c \in Active
  BY DEF Accept, Active
<1>2. /\ command \in Given /\ Coherent(command)
      /\ secret \in Stored /\ keys \in 0 .. MaxKeys
  BY <1>1, ActiveHolds
<1>3. /\ command.does \in {"add", "password", "repair", "on"} /\ command.candidate # Absent
      /\ command.account # Absent /\ command.candidate \in Secrets
  BY <1>1, <1>2 DEF Coherent, Given
<1>4. k \in 1 .. MaxKeys /\ keys' \in 0 .. MaxKeys
  <2>1. command.candidate.key \in 0 .. MaxKeys
    BY <1>3 DEF Secrets
  <2> QED BY <1>1, <1>2, <2>1, KeysArePositive
<1>5. CASE command.does = "on"
  <2> DEFINE s == IF refreshes /\ secret # Absent THEN [secret EXCEPT !.key = k] ELSE secret
  <2>1. s \in Stored /\ SameButKey(s, secret)
    <3>1. CASE refreshes /\ secret # Absent
      <4>1. secret \in Secrets /\ k \in 0 .. MaxKeys /\ k # 0
        BY <1>2, <1>4, <3>1, KeysArePositive DEF Stored
      <4>2. /\ [secret EXCEPT !.key = k] \in Secrets
            /\ [secret EXCEPT !.key = k].key = k
            /\ [secret EXCEPT !.key = k].password = secret.password
            /\ [secret EXCEPT !.key = k].device = secret.device
        BY <4>1 DEF Secrets
      <4> QED BY <3>1, <4>1, <4>2, AbsentIsNothing DEF Stored, SameButKey
    <3>2. CASE ~(refreshes /\ secret # Absent)
      BY <1>2, <3>2 DEF SameButKey
    <3> QED BY <3>1, <3>2
  <2>2. Moves(c, IF ~supports \/ (refreshes /\ secret = Absent)
                 THEN Ended(command, "failed", config, s)
                 ELSE [command EXCEPT !.at = "reloading"], s)
    BY <1>5 DEF Accept
  <2> HIDE DEF s
  <2>3. \/ Moves(c, [commands[c] EXCEPT !.at = "reloading"], s)
        \/ Moves(c, Ended(commands[c], "failed", config, s), s)
    BY <2>2
  <2> QED BY <1>1, <1>4, <1>5, <2>1, <2>3, ToReloading
<1>6. CASE command.does # "on" /\ Fails(c, "failed")
  BY <1>1, <1>4, <1>6, FailsKeeps DEF IsWriting
<1>7. CASE command.does # "on" /\ ~Fails(c, "failed")
  <2>0. PICK key \in 1 .. MaxKeys : key = k
    BY <1>4
  <2>1. PICK moved \in {Lesser(commands[c], key), Keyed(commands[c], key)} :
           Moves(c, moved, secret) /\ (moved # Keyed(commands[c], key) => command.does = "repair")
    BY <1>7, <2>0 DEF Accept, Lesser, Keyed
  <2>2. /\ moved \in Given /\ moved.at = "replacing"
        /\ moved.does = command.does /\ moved.password = command.password
        /\ moved.account # Absent /\ moved.account.settings = command.account.settings
        /\ moved = Keyed(command, key) => moved.account = command.account
        /\ moved.candidate \in Stored \ {Absent}
        /\ moved.candidate.password = command.candidate.password
        /\ moved.candidate.device = command.candidate.device
        /\ moved.original = command.original
        /\ moved.found = command.found /\ moved.alone = command.alone
        /\ moved.disturbed = command.disturbed /\ moved.since = command.since
    BY <1>2, <1>3, VerifiedFacts
  <2>3. moved.does # "repair" => moved.account = command.account
    BY <2>1, <2>2
  <2>4. Login(moved.account.settings, moved.candidate) \in accepted'
    BY <1>1, <2>2 DEF Login
  <2> QED BY <1>1, <1>4, <1>7, <2>1, <2>2, <2>3, <2>4, ToReplacing
<1> QED BY <1>5, <1>6, <1>7

\* A wipe leaves nothing behind.
LEMMA WipedKeeps ==
    ASSUME IInv, NEW c \in Active, Moves(c, Ended(commands[c], "wiped", config, Absent), Absent),
           UNCHANGED <<config, keys, accepted>>, wiped' => wiped \/ Active = {c}
    PROVE  IInv'
<1>1. /\ commands[c] \in Given /\ config \in Accounts \union {Absent} /\ keys \in 0 .. MaxKeys
  BY ActiveHolds
<1>2. /\ "wiped" \in Results /\ Absent \in Stored /\ config' \in Accounts \union {Absent}
      /\ accepted \subseteq accepted' /\ keys' \in 0 .. MaxKeys
  BY <1>1 DEF Results, Stored
<1>3. Moves(c, Ended(commands[c], "wiped", config', Absent), Absent)
  OBVIOUS
<1>4. /\ commands' \in [Commands -> Given \union {Unused}]
      /\ secret' = Absent /\ OthersMove(c)
      /\ commands'[c] \in Given /\ commands'[c].at = "ended" /\ commands'[c].result = "wiped"
      /\ commands'[c].found = commands[c].found /\ commands'[c].alone = commands[c].alone
  BY <1>1, <1>2, <1>3, EndFacts
<1>5. Matches(config, secret)'
  BY <1>4 DEF Matches
<1>6. IsWhole(commands[c])' /\ IsFair(commands[c])'
  BY <1>4 DEF IsWhole, IsFair, Is
<1> QED BY <1>2, <1>4, <1>5, <1>6, CommandKeeps

LEMMA DeclineKeeps ==
    ASSUME IInv, NEW c \in Commands, NEW wipes \in BOOLEAN, Decline(c, wipes)
    PROVE  IInv'
<1> DEFINE command == commands[c]
           s == IF wipes /\ command.does = "on" THEN Absent ELSE secret
<1>1. /\ command.at = "verifying" /\ c \in Active
      /\ Moves(c, Ended(command, IF s = secret THEN "failed" ELSE "wiped", config, s), s)
      /\ wiped' = (wiped \/ (s # secret /\ Active = {c}))
      /\ UNCHANGED <<config, serving, keys, accepted>>
  BY DEF Decline, Active
<1>2. /\ command \in Given /\ command.alone => config = command.found.config
      /\ ~Tainted => Matched(command)
      /\ wiped => secret = Absent
      /\ config \in Accounts \union {Absent} /\ secret \in Stored /\ keys \in 0 .. MaxKeys
  BY <1>1, ActiveHolds
<1>3. CASE s = secret
  <2>1. Fails(c, "failed") /\ (wiped' => wiped)
    BY <1>1, <1>3 DEF Fails
  <2> QED BY <1>1, <1>2, <2>1, FailsKeeps DEF IsWriting
<1>4. CASE s # secret
  <2>1. s = Absent
    BY <1>4
  <2>2. Moves(c, Ended(command, "wiped", config, Absent), Absent) /\ (wiped' => wiped \/ Active = {c})
    BY <1>1, <1>4, <2>1
  <2> QED BY <1>1, <2>2, WipedKeeps
<1> QED BY <1>3, <1>4

----
(* The steps that write *)

\* The secret is replaced, and the configuration is next.
LEMMA ToSaving ==
    ASSUME IInv, NEW c \in Active, commands[c].at = "replacing", commands[c].does # "password",
           Moves(c, [commands[c] EXCEPT !.at = "saving", !.replaced = secret], commands[c].candidate),
           UNCHANGED <<config, keys, accepted>>, wiped' => wiped /\ commands[c].does # "add"
    PROVE  IInv'
<1> DEFINE next == [commands[c] EXCEPT !.at = "saving", !.replaced = secret]
<1>1. /\ c \in Commands /\ commands[c] \in Given /\ Coherent(commands[c])
      /\ ~Tainted => Matched(commands[c])
      /\ commands[c].alone /\ ~commands[c].disturbed => Untouched(commands[c])
      /\ wiped => secret = Absent /\ AfterWipe(commands[c])
      /\ config \in Accounts \union {Absent} /\ secret \in Stored /\ keys \in 0 .. MaxKeys
  BY ActiveHolds
<1>2. /\ next \in Given /\ next.at = "saving" /\ next.replaced = secret
      /\ next.original = commands[c].original /\ next.candidate = commands[c].candidate
      /\ next.does = commands[c].does /\ next.password = commands[c].password
      /\ next.account = commands[c].account /\ next.found = commands[c].found
      /\ next.alone = commands[c].alone /\ next.disturbed = commands[c].disturbed
      /\ next.since = commands[c].since
  BY <1>1 DEF Given, Places
<1> HIDE DEF next
<1>3. commands[c].does \in {"add", "repair", "remove"} /\ Verified(commands[c])
  BY <1>1 DEF Coherent
<1>4. commands[c].candidate \in Stored
  BY <1>3 DEF Verified, Stored
<1>5. Moves(c, next, commands[c].candidate)
  BY DEF next
<1>6. secret' = commands[c].candidate /\ OthersMove(c) /\ commands'[c] = next
  BY <1>1, <1>5, MovesFacts
<1>7. commands' \in [Commands -> Given \union {Unused}]
  BY <1>1, <1>2, <1>4, <1>5, MovesType
<1>8. Coherent(commands[c])'
  BY <1>1, <1>2, <1>3, <1>6 DEF Coherent, Verified, IsWriting
<1>9. ~Tainted => Matched(commands[c])'
  <2>1. ~Tainted => Matches(config, secret) /\ (commands[c].does = "repair" =>
                                                   Matches(config, commands[c].original))
    BY <1>1 DEF Matched, IsWriting
  <2>2. Matches(commands[c].account, commands[c].candidate)
    BY <1>1, <1>3 DEF Coherent, Verified, Matches
  <2>3. PICK before, account : before = secret /\ account = commands[c].account
    OBVIOUS
  <2>4. commands'[c].replaced = before /\ commands'[c].account = account
    BY <1>2, <1>6, <2>3
  <2>5. Matches(account, secret)'
    BY <1>6, <2>2, <2>3 DEF Matches
  <2>6. ~Tainted => Matches(config, before)' /\ (commands[c].does = "repair" =>
                                                    Matches(config, commands[c].original)')
    BY <1>1, <1>2, <1>6, <2>1, <2>3 DEF Matches
  <2> QED BY <1>2, <1>3, <1>6, <2>4, <2>5, <2>6 DEF Matched, Both, IsWriting, Matches
<1>10. commands[c].alone /\ ~commands'[c].disturbed => Untouched(commands[c])'
  BY <1>1, <1>2, <1>3, <1>6 DEF Untouched, Both, IsWriting, Coherent
<1>11. IsWhole(commands[c])' /\ IsFair(commands[c])' /\ commands'[c].at # "ended"
  BY <1>2, <1>6 DEF IsWhole, IsFair, Is
<1>12. wiped' => secret' = Absent /\ wiped /\ AfterWipe(commands[c])'
  BY <1>1, <1>2, <1>3, <1>6 DEF AfterWipe, Verified
<1>13. /\ config' \in Accounts \union {Absent} /\ secret' \in Stored /\ keys' \in 0 .. MaxKeys
       /\ accepted \subseteq accepted' /\ config' = config
       /\ commands'[c] \in Given /\ commands'[c].alone = commands[c].alone
       /\ commands'[c].found = commands[c].found
  BY <1>1, <1>2, <1>4, <1>6
<1> QED BY <1>6, <1>7, <1>8, <1>9, <1>10, <1>11, <1>12, <1>13, CommandKeeps

\* A new password has nothing to be saved after it.
LEMMA PasswordKeeps ==
    ASSUME IInv, NEW c \in Active, commands[c].at = "replacing", commands[c].does = "password",
           Moves(c, Ended([commands[c] EXCEPT !.at = "saving", !.replaced = secret], "ok", config,
                          commands[c].candidate), commands[c].candidate),
           UNCHANGED <<config, keys, accepted>>, wiped' => wiped
    PROVE  IInv'
<1> DEFINE next == [commands[c] EXCEPT !.at = "saving", !.replaced = secret]
<1>1. /\ c \in Commands /\ commands[c] \in Given /\ Coherent(commands[c])
      /\ commands[c].alone => config = commands[c].found.config
      /\ ~Tainted => commands[c].alone
      /\ wiped => AfterWipe(commands[c])
      /\ config \in Accounts \union {Absent} /\ secret \in Stored /\ keys \in 0 .. MaxKeys
  BY ActiveHolds
<1>2. /\ next \in Given /\ next.candidate = commands[c].candidate
      /\ next.does = commands[c].does
      /\ next.account = commands[c].account /\ next.found = commands[c].found
      /\ next.alone = commands[c].alone /\ next.disturbed = commands[c].disturbed
  BY <1>1 DEF Given, Places
<1>3. Moves(c, Ended(next, "ok", config', commands[c].candidate), commands[c].candidate)
  OBVIOUS
<1> HIDE DEF next
<1>4. Verified(commands[c]) /\ commands[c].account = commands[c].found.config
  BY <1>1 DEF Coherent
<1>5. commands[c].candidate \in Stored \ {Absent} /\ "ok" \in Results
  BY <1>4 DEF Verified, Results
<1>6. /\ config' \in Accounts \union {Absent} /\ keys' \in 0 .. MaxKeys /\ accepted \subseteq accepted'
      /\ ~wiped'
  BY <1>1 DEF AfterWipe
<1>7. /\ commands' \in [Commands -> Given \union {Unused}]
      /\ secret' = commands[c].candidate /\ OthersMove(c)
      /\ commands'[c] \in Given /\ commands'[c].at = "ended" /\ commands'[c].result = "ok"
      /\ commands'[c].left.config = config' /\ commands'[c].left.secret = commands[c].candidate
      /\ commands'[c].does = next.does /\ commands'[c].found = next.found
      /\ commands'[c].alone = next.alone
      /\ commands'[c].account = next.account /\ commands'[c].candidate = next.candidate
  BY <1>2, <1>3, <1>5, <1>6, EndFacts
<1>8. ~Tainted => Matches(config, secret)'
  BY <1>1, <1>4, <1>5, <1>7 DEF Matches, Verified, Coherent
<1>9. IsWhole(commands[c])' /\ IsFair(commands[c])'
  BY <1>1, <1>2, <1>4, <1>7 DEF IsWhole, IsFair, Is
<1>10. /\ secret' \in Stored
       /\ commands'[c].alone = commands[c].alone /\ commands'[c].found = commands[c].found
  BY <1>2, <1>5, <1>7
<1> QED BY <1>6, <1>7, <1>8, <1>9, <1>10, CommandKeeps

LEMMA ReplaceKeeps ==
    ASSUME IInv, NEW c \in Commands, Replace(c)
    PROVE  IInv'
<1>1. /\ commands[c].at = "replacing" /\ c \in Active
      /\ UNCHANGED <<config, serving, keys, accepted>>
  BY DEF Replace, Active
<1>2. keys \in 0 .. MaxKeys
  BY DEF IInv, Types
<1>3. CASE Fails(c, "failed") /\ UNCHANGED wiped
  BY <1>1, <1>2, <1>3, FailsKeeps DEF IsWriting
<1>4. CASE ~(Fails(c, "failed") /\ UNCHANGED wiped)
  <2>1. wiped' = (wiped /\ commands[c].does # "add")
    BY <1>4 DEF Replace
  <2>2. CASE commands[c].does = "password"
    <3>1. Moves(c, Ended([commands[c] EXCEPT !.at = "saving", !.replaced = secret], "ok", config,
                         commands[c].candidate), commands[c].candidate)
      BY <1>4, <2>2 DEF Replace
    <3> QED BY <1>1, <2>1, <2>2, <3>1, PasswordKeeps
  <2>3. CASE commands[c].does # "password"
    <3>1. Moves(c, [commands[c] EXCEPT !.at = "saving", !.replaced = secret], commands[c].candidate)
      BY <1>4, <2>3 DEF Replace
    <3> QED BY <1>1, <2>1, <2>3, <3>1, ToSaving
  <2> QED BY <2>2, <2>3
<1> QED BY <1>3, <1>4

LEMMA ReloadKeeps ==
    ASSUME IInv, NEW c \in Commands, Reload(c)
    PROVE  IInv'
<1>1. /\ commands[c].at = "reloading" /\ c \in Active
      /\ UNCHANGED <<config, serving, keys, accepted, wiped>>
  BY DEF Reload, Active
<1>2. /\ commands[c] \in Given /\ Coherent(commands[c])
      /\ ~Tainted => Matched(commands[c])
      /\ commands[c].alone /\ ~commands[c].disturbed => Untouched(commands[c])
      /\ wiped => AfterWipe(commands[c])
      /\ config \in Accounts \union {Absent} /\ secret \in Stored /\ keys \in 0 .. MaxKeys
  BY <1>1, ActiveHolds
<1>3. CASE config = Absent
  <2>1. Fails(c, "failed")
    BY <1>3 DEF Reload
  <2> QED BY <1>1, <1>2, <2>1, FailsKeeps DEF IsWriting
<1>4. CASE config # Absent
  <2> DEFINE account == [config EXCEPT !.writes = TRUE]
             next == [commands[c] EXCEPT !.at = "saving", !.account = account]
  <2>1. account \in Accounts \ {Absent} /\ account.settings = config.settings
    BY <1>2, <1>4, AbsentIsNothing DEF Accounts
  <2>2. Moves(c, next, secret)
    BY <1>4 DEF Reload
  <2> HIDE DEF account
  <2>3. /\ next \in Given /\ next.at = "saving" /\ next.account = account
        /\ next.does = commands[c].does /\ next.password = commands[c].password
        /\ next.found = commands[c].found /\ next.since = commands[c].since
        /\ next.alone = commands[c].alone /\ next.disturbed = commands[c].disturbed
    BY <1>2, <2>1 DEF Given, Places
  <2> HIDE DEF next
  <2>4. secret' = secret /\ OthersMove(c) /\ commands'[c] = next
    BY <2>2, MovesFacts
  <2>5. commands' \in [Commands -> Given \union {Unused}]
    BY <1>1, <1>2, <2>2, <2>3, MovesType
  <2>6. commands[c].does = "on" /\ ~wiped'
    BY <1>1, <1>2 DEF Coherent, AfterWipe
  <2>7. Coherent(commands[c])'
    BY <1>1, <1>2, <2>1, <2>3, <2>4, <2>6 DEF Coherent, Both, IsWriting
  <2>8. ~Tainted => Matched(commands[c])'
    BY <1>1, <1>2, <2>1, <2>3, <2>4, <2>6 DEF Matched, Matches, Both, IsWriting
  <2>9. commands[c].alone /\ ~commands'[c].disturbed => Untouched(commands[c])'
    BY <1>1, <1>2, <2>3, <2>4, <2>6 DEF Untouched, SameButKey, Both, IsWriting
  <2>10. IsWhole(commands[c])' /\ IsFair(commands[c])' /\ commands'[c].at # "ended"
    BY <2>3, <2>4 DEF IsWhole, IsFair, Is
  <2>11. /\ config' \in Accounts \union {Absent} /\ secret' \in Stored /\ keys' \in 0 .. MaxKeys
         /\ accepted \subseteq accepted' /\ config' = config
         /\ commands'[c] \in Given /\ commands'[c].alone = commands[c].alone
         /\ commands'[c].found = commands[c].found
    BY <1>1, <1>2, <2>3, <2>4
  <2> QED BY <1>1, <2>4, <2>5, <2>6, <2>7, <2>8, <2>9, <2>10, <2>11, CommandKeeps
<1> QED BY <1>3, <1>4

\* The configuration is saved.
LEMMA SavedKeeps ==
    ASSUME IInv, NEW c \in Active, commands[c].at = "saving", config' = commands[c].account,
           Moves(c, Ended(commands[c], "ok", config', secret), secret),
           UNCHANGED <<keys, accepted, wiped>>
    PROVE  IInv'
<1>1. /\ commands[c] \in Given /\ Coherent(commands[c])
      /\ commands[c].alone => config = commands[c].found.config
      /\ ~Tainted => Matched(commands[c]) /\ commands[c].alone
      /\ commands[c].alone /\ ~commands[c].disturbed => Untouched(commands[c])
      /\ wiped => secret = Absent
      /\ secret \in Stored /\ keys \in 0 .. MaxKeys
  BY ActiveHolds
<1>2. /\ config' \in Accounts \union {Absent} /\ "ok" \in Results
      /\ keys' \in 0 .. MaxKeys /\ accepted \subseteq accepted'
  BY <1>1 DEF Given, Results
<1>3. /\ commands' \in [Commands -> Given \union {Unused}]
      /\ secret' = secret /\ OthersMove(c)
      /\ commands'[c] \in Given /\ commands'[c].at = "ended" /\ commands'[c].result = "ok"
      /\ commands'[c].left.config = config' /\ commands'[c].left.secret = secret
      /\ commands'[c].does = commands[c].does /\ commands'[c].found = commands[c].found
      /\ commands'[c].alone = commands[c].alone /\ commands'[c].disturbed = commands[c].disturbed
      /\ commands'[c].account = commands[c].account /\ commands'[c].candidate = commands[c].candidate
  BY <1>1, <1>2, EndFacts
<1>4. ASSUME ~Tainted
      PROVE  Matches(config, secret)'
  <2>1. Matched(commands[c]) /\ config = commands[c].found.config
    BY <1>1, <1>4
  <2>2. CASE Both(commands[c])
    <3>1. Matches(commands[c].account, secret)
      BY <2>1, <2>2 DEF Matched, IsWriting
    <3> QED BY <1>3, <3>1 DEF Matches
  <2>3. CASE ~Both(commands[c])
    <3>1. /\ Matches(config, secret) /\ commands[c].account.settings = config.settings
          /\ config # Absent /\ commands[c].account # Absent
      BY <1>1, <2>1, <2>3 DEF Matched, Coherent, Both
    <3> QED BY <1>3, <3>1 DEF Matches
  <2> QED BY <2>2, <2>3
<1>5. IsWhole(commands[c])'
  <2>1. commands[c].alone /\ ~commands[c].disturbed =>
           /\ commands[c].does = "off" => secret = commands[c].found.secret
           /\ commands[c].does \notin {"on", "off"} => secret = commands[c].candidate
    BY <1>1 DEF Untouched, Both, IsWriting, Coherent, Given, Kinds
  <2> QED BY <1>3, <2>1 DEF IsWhole
<1>6. IsFair(commands[c])'
  BY <1>3 DEF IsFair, Is
<1> QED BY <1>1, <1>2, <1>3, <1>4, <1>5, <1>6, CommandKeeps

\* The configuration could not be saved.
LEMMA ToRestoring ==
    ASSUME IInv, NEW c \in Active, commands[c].at = "saving", commands[c].does \notin {"on", "off"},
           Moves(c, [commands[c] EXCEPT !.at = "restoring"], secret),
           UNCHANGED <<config, keys, accepted, wiped>>
    PROVE  IInv'
<1> DEFINE next == [commands[c] EXCEPT !.at = "restoring"]
<1>1. /\ c \in Commands /\ commands[c] \in Given /\ Coherent(commands[c])
      /\ ~Tainted => Matched(commands[c])
      /\ commands[c].alone /\ ~commands[c].disturbed => Untouched(commands[c])
      /\ wiped => secret = Absent /\ AfterWipe(commands[c])
      /\ config \in Accounts \union {Absent} /\ secret \in Stored /\ keys \in 0 .. MaxKeys
  BY ActiveHolds
<1>2. /\ next \in Given /\ next.at = "restoring" /\ next.replaced = commands[c].replaced
      /\ next.original = commands[c].original /\ next.candidate = commands[c].candidate
      /\ next.does = commands[c].does /\ next.password = commands[c].password
      /\ next.account = commands[c].account /\ next.found = commands[c].found
      /\ next.alone = commands[c].alone /\ next.disturbed = commands[c].disturbed
      /\ next.since = commands[c].since
  BY <1>1 DEF Given, Places
<1>3. Moves(c, next, secret)
  OBVIOUS
<1> HIDE DEF next
<1>4. secret' = secret /\ OthersMove(c) /\ commands'[c] = next
  BY <1>1, <1>3, MovesFacts
<1>5. commands' \in [Commands -> Given \union {Unused}]
  BY <1>1, <1>2, <1>3, MovesType
<1>6. Both(commands[c])
  BY <1>1 DEF Coherent, Both, Given, Kinds
<1>7. Coherent(commands[c])'
  BY <1>1, <1>2, <1>4, <1>6 DEF Coherent, Verified, Both, IsWriting
<1>8. ~Tainted => Matched(commands[c])'
  BY <1>1, <1>2, <1>4, <1>6 DEF Matched, Matches, Both, IsWriting
<1>9. commands[c].alone /\ ~commands'[c].disturbed => Untouched(commands[c])'
  BY <1>1, <1>2, <1>4, <1>6 DEF Untouched, Both, IsWriting
<1>10. IsWhole(commands[c])' /\ IsFair(commands[c])' /\ commands'[c].at # "ended"
  BY <1>2, <1>4 DEF IsWhole, IsFair, Is
<1>11. wiped' => secret' = Absent /\ wiped /\ AfterWipe(commands[c])'
  BY <1>1, <1>2, <1>4 DEF AfterWipe
<1>12. /\ config' \in Accounts \union {Absent} /\ secret' \in Stored /\ keys' \in 0 .. MaxKeys
       /\ accepted \subseteq accepted' /\ config' = config
       /\ commands'[c] \in Given /\ commands'[c].alone = commands[c].alone
       /\ commands'[c].found = commands[c].found
  BY <1>1, <1>2, <1>4
<1> QED BY <1>4, <1>5, <1>7, <1>8, <1>9, <1>10, <1>11, <1>12, CommandKeeps

LEMMA SaveKeeps ==
    ASSUME IInv, NEW c \in Commands, Save(c)
    PROVE  IInv'
<1>1. commands[c].at = "saving" /\ c \in Active /\ UNCHANGED <<serving, keys, accepted, wiped>>
  BY DEF Save, Active
<1>2. keys \in 0 .. MaxKeys
  BY DEF IInv, Types
<1>3. CASE config' = commands[c].account /\ Moves(c, Ended(commands[c], "ok", config', secret), secret)
  BY <1>1, <1>3, SavedKeeps
<1>4. CASE commands[c].does \in {"on", "off"} /\ Fails(c, "failed") /\ UNCHANGED config
  BY <1>1, <1>2, <1>4, FailsKeeps DEF Both
<1>5. CASE /\ commands[c].does \notin {"on", "off"} /\ UNCHANGED config
           /\ Moves(c, [commands[c] EXCEPT !.at = "restoring"], secret)
  BY <1>1, <1>5, ToRestoring
<1> QED BY <1>3, <1>4, <1>5 DEF Save

\* The secret goes back, or another one's stays.
LEMMA RestoreKeeps ==
    ASSUME IInv, NEW c \in Commands, Restore(c)
    PROVE  IInv'
<1>1. commands[c].at = "restoring" /\ c \in Active /\ UNCHANGED <<config, serving, keys, accepted, wiped>>
  BY DEF Restore, Active
<1>2. /\ commands[c] \in Given /\ Coherent(commands[c])
      /\ commands[c].alone => config = commands[c].found.config
      /\ ~Tainted => Matched(commands[c])
      /\ commands[c].alone /\ ~commands[c].disturbed => Untouched(commands[c])
      /\ wiped => secret = Absent /\ AfterWipe(commands[c])
      /\ config \in Accounts \union {Absent} /\ secret \in Stored /\ keys \in 0 .. MaxKeys
  BY <1>1, ActiveHolds
<1>3. Both(commands[c]) /\ IsWriting(commands[c])
  BY <1>1, <1>2 DEF Coherent, IsWriting
<1>4. /\ config' \in Accounts \union {Absent} /\ keys' \in 0 .. MaxKeys /\ accepted \subseteq accepted'
      /\ "restored" \in Results /\ "kept" \in Results
  BY <1>1, <1>2 DEF Results
<1>5. CASE Fails(c, "broken")
  BY <1>1, <1>2, <1>5, FailsKeeps
<1>6. CASE ~Fails(c, "broken") /\ secret = commands[c].candidate
  <2>1. PICK s : s = Previous(commands[c])
    OBVIOUS
  <2>2. /\ s \in Stored
        /\ s = IF commands[c].does = "repair" THEN commands[c].original ELSE commands[c].replaced
    BY <1>2, <2>1 DEF Previous, Given
  <2>3. Moves(c, Ended(commands[c], "restored", config', s), s)
    BY <1>1, <1>6, <2>1 DEF Restore, Restored
  <2>4. /\ commands' \in [Commands -> Given \union {Unused}]
        /\ secret' = s /\ OthersMove(c)
        /\ commands'[c] \in Given /\ commands'[c].at = "ended" /\ commands'[c].result = "restored"
        /\ commands'[c].left.config = config' /\ commands'[c].left.secret = s
        /\ commands'[c].does = commands[c].does /\ commands'[c].found = commands[c].found
        /\ commands'[c].alone = commands[c].alone /\ commands'[c].disturbed = commands[c].disturbed
        /\ commands'[c].candidate = commands[c].candidate
        /\ commands'[c].original = commands[c].original /\ commands'[c].replaced = commands[c].replaced
        /\ commands'[c].since = commands[c].since
    BY <1>1, <1>2, <1>4, <2>2, <2>3, EndFacts
  <2>5. ~Tainted => Matches(config, secret)'
    <3>1. ~Tainted => Matches(config, s)
      BY <1>2, <1>3, <2>2 DEF Matched
    <3> QED BY <1>1, <2>4, <3>1 DEF Matches
  <2>6. IsWhole(commands[c])'
    <3>1. commands[c].alone /\ ~commands[c].disturbed => s = commands[c].found.secret
      BY <1>2, <1>3, <2>2 DEF Untouched
    <3> QED BY <1>1, <1>2, <2>4, <3>1 DEF IsWhole, SameButKey
  <2>7. IsFair(commands[c])'
    <3>1. commands[c].since \subseteq {commands[c].candidate}
      BY <1>2, <1>3, <1>6 DEF Coherent
    <3> QED BY <2>2, <2>4, <3>1 DEF IsFair, Is
  <2>8. wiped' => secret' = Absent /\ wiped
    BY <1>1, <1>2, <1>3, <2>2, <2>4 DEF AfterWipe, Both
  <2> QED BY <1>1, <1>4, <2>2, <2>4, <2>5, <2>6, <2>7, <2>8, CommandKeeps
<1>7. CASE ~Fails(c, "broken") /\ secret # commands[c].candidate
  <2>1. Moves(c, Ended(commands[c], "kept", config', secret), secret)
    BY <1>1, <1>7 DEF Restore, Restored
  <2>2. /\ commands' \in [Commands -> Given \union {Unused}]
        /\ secret' = secret /\ OthersMove(c)
        /\ commands'[c] \in Given /\ commands'[c].at = "ended" /\ commands'[c].result = "kept"
        /\ commands'[c].left.secret = secret
        /\ commands'[c].found = commands[c].found /\ commands'[c].alone = commands[c].alone
        /\ commands'[c].since = commands[c].since
    BY <1>1, <1>2, <1>4, <2>1, EndFacts
  <2>3. Taints(commands[c])' /\ IsWhole(commands[c])'
    BY <2>2 DEF Taints, Is, IsWhole
  <2>4. IsFair(commands[c])'
    BY <1>2, <1>3, <1>7, <2>2 DEF Coherent, IsFair, Is
  <2>5. wiped' => secret' = Absent /\ wiped
    BY <1>1, <1>2, <2>2
  <2> QED BY <1>1, <1>2, <1>4, <2>2, <2>3, <2>4, <2>5, CommandKeeps
<1> QED BY <1>5, <1>6, <1>7

----
(* A command begins *)

\* What Begin makes of the commands.
LEMMA BeginFacts ==
    ASSUME IInv, NEW c \in Commands, NEW does \in Kinds, NEW settings, NEW password, NEW writes \in BOOLEAN,
           Begin(c, does, settings, password, writes),
           does \in {"add", "repair"} => settings \in Settings,
           does \in {"add", "repair", "password"} => password \in Passwords,
           password \in Passwords \union {Absent}
    PROVE  /\ UNCHANGED <<config, secret, keys, accepted, wiped>> /\ commands[c].at = "unused"
           /\ commands' \in [Commands -> Given \union {Unused}]
           /\ \A d \in Commands \ {c} :
                 IF d \in Active THEN commands'[d] = [commands[d] EXCEPT !.alone = FALSE]
                 ELSE commands'[d] = commands[d]
           /\ LET command == commands'[c]
              IN  /\ command \in Given /\ command.alone = (Active = {}) /\ ~command.disturbed
                  /\ command.found = [config |-> config, secret |-> secret] /\ command.does = does
                  /\ \/ /\ command.at = "ended" /\ command.result = "failed"
                        /\ command.left = command.found
                     \/ /\ command.since = {} /\ (does = "add" <=> config = Absent)
                        /\ command.password = password
                        /\ does # "remove" <=> command.account # Absent
                        /\ does \in {"password", "on"} => command.account = config
                        /\ does = "off" => command.account.settings = config.settings
                        /\ does = "add" => command.candidate # Absent
                        /\ does = "remove" => command.candidate = Absent
                        /\ command.original = Absent /\ command.replaced = Absent
                        /\ command.at = CASE does = "add" -> "verifying" [] does = "remove" -> "replacing"
                                          [] does = "off" -> "saving" [] OTHER -> "asking"
<1>1. /\ config \in Accounts \union {Absent} /\ secret \in Stored /\ Absent \in Stored
      /\ \A d \in Commands : commands[d] \in Given \union {Unused}
  BY DEF IInv, Types, Stored
<1>2. commands[c].at = "unused" /\ UNCHANGED <<config, secret, serving, keys, accepted, wiped>>
  BY DEF Begin
<1> DEFINE missing == (does = "add") # (config = Absent)
           pair == [config |-> config, secret |-> secret]
           command ==
               [does |-> does, at |-> "asking", password |-> password, account |-> Account(settings, writes),
                candidate |-> Absent, original |-> Absent, replaced |-> Absent,
                result |-> "none", found |-> pair, left |-> Absent,
                alone |-> Active = {}, disturbed |-> FALSE, since |-> {}]
           started ==
               CASE does = "add" -> [command EXCEPT !.at = "verifying", !.candidate = Secret(password, c, 0)]
                 [] does = "password" -> [command EXCEPT !.account = config]
                 [] does = "repair"   -> [command EXCEPT !.account = Account(settings, config.writes)]
                 [] does = "remove"   -> [command EXCEPT !.at = "replacing", !.account = Absent]
                 [] does = "on"       -> [command EXCEPT !.account = config]
                 [] does = "off"      ->
                       [command EXCEPT !.at = "saving", !.account = [config EXCEPT !.writes = FALSE]]
           begun == IF missing THEN Ended(command, "failed", config, secret) ELSE started
<1>3. commands' = [d \in Commands |->
                      IF d = c THEN begun
                      ELSE IF d \in Active THEN [commands[d] EXCEPT !.alone = FALSE]
                      ELSE commands[d]]
  BY DEF Begin
<1>4. pair \in Pairs /\ pair.config = config /\ pair.secret = secret
  BY <1>1 DEF Pairs
<1> HIDE DEF pair
<1>5. /\ begun \in Given /\ begun.alone = (Active = {}) /\ ~begun.disturbed
      /\ begun.found = pair /\ begun.does = does
      /\ \/ begun.at = "ended" /\ begun.result = "failed" /\ begun.left = pair
         \/ /\ begun.since = {} /\ (does = "add" <=> config = Absent) /\ begun.password = password
            /\ does # "remove" <=> begun.account # Absent
            /\ does \in {"password", "on"} => begun.account = config
            /\ does = "off" => begun.account.settings = config.settings
            /\ does = "add" => begun.candidate # Absent
            /\ does = "remove" => begun.candidate = Absent
            /\ begun.original = Absent /\ begun.replaced = Absent
            /\ begun.at = CASE does = "add" -> "verifying" [] does = "remove" -> "replacing"
                            [] does = "off" -> "saving" [] OTHER -> "asking"
  <2>1. CASE missing
    <3>1. pair = [config |-> config, secret |-> secret]
      BY DEF pair
    <3> DEFINE e == [command EXCEPT !.at = "ended", !.result = "failed", !.password = Absent, !.left = pair,
                                    !.account = Absent, !.candidate = Absent, !.original = Absent,
                                    !.replaced = Absent, !.since = {}]
    <3>2. begun = e
      BY <2>1, <3>1 DEF Ended
    <3>3. /\ e \in Given /\ e.alone = (Active = {}) /\ ~e.disturbed /\ e.found = pair /\ e.does = does
          /\ e.at = "ended" /\ e.result = "failed" /\ e.left = pair
      BY <1>1, <1>4 DEF Given, Places, Results
    <3> HIDE DEF begun, e
    <3> QED BY <3>2, <3>3
  <2>2. CASE ~missing
    <3>1. does = "add" <=> config = Absent
      BY <2>2
    <3>2. begun = started
      BY <2>2
    <3>3. CASE does = "add"
      <4> DEFINE candidate == Secret(password, c, 0)
                 account == Account(settings, writes)
      <4>1. candidate \in Secrets /\ candidate # Absent /\ account \in Accounts /\ account # Absent
        <5>1. 0 \in 0 .. MaxKeys
          BY KeysArePositive
        <5>2. candidate \in Secrets /\ account \in Accounts
          BY <3>3, <5>1 DEF Secrets, Secret, Accounts, Account
        <5> QED BY <5>2, AbsentIsNothing
      <4>2. begun = [command EXCEPT !.at = "verifying", !.candidate = candidate]
        BY <3>2, <3>3
      <4> HIDE DEF candidate, account, begun
      <4> QED BY <1>1, <1>4, <3>1, <3>3, <4>1, <4>2 DEF Given, Places, Results, account
    <3>4. CASE does \in {"password", "on"}
      <4>1. begun = [command EXCEPT !.account = config] /\ config \in Accounts \ {Absent}
        BY <1>1, <3>1, <3>2, <3>4
      <4> HIDE DEF begun
      <4> QED BY <1>1, <1>4, <3>1, <3>4, <4>1 DEF Given, Places, Results
    <3>5. CASE does = "repair"
      <4> DEFINE account == Account(settings, config.writes)
      <4>1. account \in Accounts /\ account # Absent
        <5>1. config \in Accounts
          BY <1>1, <3>1, <3>5
        <5>2. account \in Accounts
          BY <3>5, <5>1 DEF Accounts, Account
        <5> QED BY <5>2, AbsentIsNothing
      <4>2. begun = [command EXCEPT !.account = account]
        BY <3>2, <3>5
      <4> HIDE DEF account, begun
      <4> QED BY <1>1, <1>4, <3>1, <3>5, <4>1, <4>2 DEF Given, Places, Results
    <3>6. CASE does = "remove"
      <4>1. begun = [command EXCEPT !.at = "replacing", !.account = Absent]
        BY <3>2, <3>6
      <4> HIDE DEF begun
      <4> QED BY <1>1, <1>4, <3>1, <3>6, <4>1 DEF Given, Places, Results
    <3>7. CASE does = "off"
      <4> DEFINE account == [config EXCEPT !.writes = FALSE]
      <4>1. account \in Accounts /\ account # Absent /\ account.settings = config.settings
        <5>1. config \in Accounts
          BY <1>1, <3>1, <3>7
        <5>2. account \in Accounts /\ account.settings = config.settings
          BY <5>1 DEF Accounts
        <5> QED BY <5>2, AbsentIsNothing
      <4>2. begun = [command EXCEPT !.at = "saving", !.account = account]
        BY <3>2, <3>7
      <4> HIDE DEF account, begun
      <4> QED BY <1>1, <1>4, <3>1, <3>7, <4>1, <4>2 DEF Given, Places, Results
    <3> QED BY <3>3, <3>4, <3>5, <3>6, <3>7 DEF Kinds
  <2> QED BY <2>1, <2>2
<1> HIDE DEF begun
<1>6. \A d \in Active : d \in Commands /\ [commands[d] EXCEPT !.alone = FALSE] \in Given
  <2>1. ASSUME NEW d \in Active
        PROVE  d \in Commands /\ commands[d] \in Given
    BY <1>1, ActiveHolds
  <2> QED BY <2>1 DEF Given
<1>7. commands' \in [Commands -> Given \union {Unused}]
  BY <1>1, <1>3, <1>5, <1>6
<1>8. commands'[c] = begun
  BY <1>3
<1>9. \A d \in Commands \ {c} :
         IF d \in Active THEN commands'[d] = [commands[d] EXCEPT !.alone = FALSE]
         ELSE commands'[d] = commands[d]
  BY <1>3
<1> QED BY <1>2, <1>5, <1>7, <1>8, <1>9 DEF pair

LEMMA BeginKeeps ==
    ASSUME IInv, NEW c \in Commands, NEW does \in Kinds, NEW settings, NEW password, NEW writes \in BOOLEAN,
           Begin(c, does, settings, password, writes),
           does \in {"add", "repair"} => settings \in Settings,
           does \in {"add", "repair", "password"} => password \in Passwords,
           password \in Passwords \union {Absent}
    PROVE  IInv'
<1>1. /\ UNCHANGED <<config, secret, keys, accepted, wiped>> /\ commands[c].at = "unused"
      /\ commands' \in [Commands -> Given \union {Unused}]
      /\ \A d \in Commands \ {c} :
            IF d \in Active THEN commands'[d] = [commands[d] EXCEPT !.alone = FALSE]
            ELSE commands'[d] = commands[d]
  BY BeginFacts
<1>2. /\ commands'[c] \in Given /\ commands'[c].alone = (Active = {}) /\ ~commands'[c].disturbed
      /\ commands'[c].found = [config |-> config, secret |-> secret] /\ commands'[c].does = does
      /\ \/ /\ commands'[c].at = "ended" /\ commands'[c].result = "failed"
            /\ commands'[c].left = commands'[c].found
         \/ /\ commands'[c].since = {} /\ (does = "add" <=> config = Absent)
            /\ commands'[c].password = password
            /\ does # "remove" <=> commands'[c].account # Absent
            /\ does \in {"password", "on"} => commands'[c].account = config
            /\ does = "off" => commands'[c].account.settings = config.settings
            /\ does = "add" => commands'[c].candidate # Absent
            /\ does = "remove" => commands'[c].candidate = Absent
            /\ commands'[c].original = Absent /\ commands'[c].replaced = Absent
            /\ commands'[c].at = CASE does = "add" -> "verifying" [] does = "remove" -> "replacing"
                                   [] does = "off" -> "saving" [] OTHER -> "asking"
  BY BeginFacts
<1>3. /\ Types /\ Forms /\ Alone /\ Sound /\ Whole /\ Away /\ Results0 /\ c \notin Active
  BY <1>1 DEF IInv, Active
<1>4. \A d \in Active :
         /\ d \in Commands /\ d # c /\ commands[d] \in Given
         /\ ~commands'[d].alone /\ commands'[d].at = commands[d].at
         /\ commands'[d].does = commands[d].does /\ commands'[d].password = commands[d].password
         /\ commands'[d].account = commands[d].account /\ commands'[d].found = commands[d].found
         /\ commands'[d].candidate = commands[d].candidate /\ commands'[d].original = commands[d].original
         /\ commands'[d].replaced = commands[d].replaced /\ commands'[d].since = commands[d].since
  <2>1. ASSUME NEW d \in Active
        PROVE  d \in Commands /\ d # c /\ commands[d] \in Given
               /\ commands'[d] = [commands[d] EXCEPT !.alone = FALSE]
    <3>1. d \in Commands /\ d # c
      BY <1>3 DEF Active
    <3> QED BY <1>1, <1>3, <3>1, ActiveFacts
  <2>2. ASSUME NEW d \in Active
        PROVE  /\ d \in Commands /\ d # c /\ commands[d] \in Given
               /\ ~commands'[d].alone /\ commands'[d].at = commands[d].at
               /\ commands'[d].does = commands[d].does /\ commands'[d].password = commands[d].password
               /\ commands'[d].account = commands[d].account /\ commands'[d].found = commands[d].found
               /\ commands'[d].candidate = commands[d].candidate
               /\ commands'[d].original = commands[d].original
               /\ commands'[d].replaced = commands[d].replaced /\ commands'[d].since = commands[d].since
    <3>1. PICK command \in Given : command = commands[d]
      BY <2>1
    <3>2. commands'[d] = [command EXCEPT !.alone = FALSE]
      BY <2>1, <3>1
    <3>3. LET moved == [command EXCEPT !.alone = FALSE]
          IN  /\ ~moved.alone /\ moved.at = command.at
              /\ moved.does = command.does /\ moved.password = command.password
              /\ moved.account = command.account /\ moved.found = command.found
              /\ moved.candidate = command.candidate /\ moved.original = command.original
              /\ moved.replaced = command.replaced /\ moved.since = command.since
      BY DEF Given
    <3> QED BY <2>1, <3>1, <3>2, <3>3
  <2> QED BY <2>2
<1>5. \A d \in Commands \ Active : d # c => commands'[d] = commands[d]
  BY <1>1
<1>6. Active' = IF commands'[c].at = "ended" THEN Active ELSE Active \union {c}
  <2>1. commands'[c].at # "unused"
    BY <1>2 DEF Given, Places
  <2>2. \A d \in Commands \ {c} : commands'[d].at = commands[d].at
    BY <1>4, <1>5
  <2> QED BY <2>1, <2>2, <1>3 DEF Active
<1>7. Types'
  BY <1>1, <1>3 DEF Types
<1>8. Forms'
  <2>1. ASSUME NEW d \in Active
        PROVE  Coherent(commands[d])'
    <3>1. Coherent(commands[d])
      BY <1>3 DEF Forms
    <3> QED BY <1>1, <1>4, <2>1, <3>1 DEF Coherent, Verified, Both, IsWriting
  <2>2. commands'[c].at # "ended" => Coherent(commands[c])'
    <3>1. commands'[c].at # "ended" /\ does = "remove" => Verified(commands[c])'
      BY <1>2 DEF Verified
    <3> QED BY <1>2, <3>1 DEF Coherent, Both, IsWriting, Kinds
  <2> QED BY <1>6, <2>1, <2>2 DEF Forms
<1>9. Alone'
  <2>1. \A d \in Active : ~commands'[d].alone
    BY <1>4
  <2>2. commands'[c].alone => Active = {}
    BY <1>2
  <2>3. config' = commands'[c].found.config
    BY <1>1, <1>2
  <2>4. ASSUME NEW d \in Active', commands'[d].alone
        PROVE  Active' = {d} /\ config' = commands'[d].found.config
    <3>1. d = c
      BY <1>6, <2>1, <2>4
    <3> QED BY <1>6, <2>2, <2>3, <2>4, <3>1
  <2> QED BY <2>4 DEF Alone
<1>10. Sound'
  <2>1. SUFFICES ASSUME ~Tainted'
                 PROVE  /\ Active' = {} => Matches(config, secret)'
                        /\ \A d \in Active' : Matched(commands[d])'
    BY DEF Sound
  <2>2. Active = {}
    <3>1. ASSUME NEW d \in Active
          PROVE  FALSE
      BY <1>4, <2>1, <3>1 DEF Tainted, Taints
    <3> QED BY <3>1
  <2>3. ~Tainted
    <3>1. ASSUME NEW d \in Commands, Taints(commands[d])
          PROVE  FALSE
      <4>1. CASE d = c
        <5>1. commands[c] = Unused
          <6>1. commands[c] \notin Given
            BY <1>1 DEF Given, Places
          <6> QED BY <1>3, <6>1 DEF Types
        <5> QED BY <3>1, <4>1, <5>1 DEF Taints, Is, Unused
      <4>2. CASE d # c
        BY <1>5, <2>1, <2>2, <3>1, <4>2 DEF Tainted, Taints, Is
      <4> QED BY <4>1, <4>2
    <3> QED BY <3>1 DEF Tainted
  <2>4. Matches(config, secret)
    BY <1>3, <2>2, <2>3 DEF Sound
  <2>5. Matches(config, secret)'
    BY <1>1, <2>4 DEF Matches
  <2>6. commands'[c].at # "ended" => Matched(commands[c])'
    <3>1. SUFFICES ASSUME commands'[c].at # "ended"
                   PROVE  Matched(commands[c])'
      OBVIOUS
    <3>2. commands'[c].original = Absent /\ (commands'[c].does = "repair" => config # Absent)
      BY <1>2, <3>1
    <3>3. commands'[c].does = "repair" => Matches(config, commands[c].original)'
      BY <1>1, <3>2 DEF Matches
    <3>4. IsWriting(commands[c])' => commands'[c].does = "off"
      BY <1>2, <3>1 DEF IsWriting
    <3> QED BY <1>1, <1>2, <2>5, <3>1, <3>3, <3>4 DEF Matched, Both, IsWriting
  <2> QED BY <1>6, <2>2, <2>5, <2>6
<1>11. Whole'
  <2>1. ASSUME NEW d \in Active', commands'[d].alone
        PROVE  d = c
    BY <1>4, <1>6, <2>1
  <2>2. commands'[c].at # "ended" => Untouched(commands[c])'
    BY <1>1, <1>2 DEF Untouched, SameButKey, Both, IsWriting
  <2>3. c \in Active' => commands'[c].at # "ended"
    BY <1>3, <1>6
  <2> QED BY <2>1, <2>2, <2>3 DEF Whole
<1>12. Away'
  <2>1. ASSUME wiped, NEW d \in Active
        PROVE  AfterWipe(commands[d])'
    BY <1>3, <1>4, <2>1 DEF Away, AfterWipe
  <2>2. commands'[c].at # "ended" => AfterWipe(commands[c])'
    BY <1>2 DEF AfterWipe
  <2> QED BY <1>1, <1>3, <1>6, <2>1, <2>2 DEF Away
<1>13. Results0'
  <2>1. IsWhole(commands[c])' /\ IsFair(commands[c])'
    BY <1>2 DEF IsWhole, IsFair, Is, SameButKey
  <2>2. ASSUME NEW d \in Active
        PROVE  IsWhole(commands[d])' /\ IsFair(commands[d])'
    BY <1>4, <2>2 DEF IsWhole, IsFair, Is, Active
  <2>3. ASSUME NEW d \in Commands, d \notin Active, d # c
        PROVE  IsWhole(commands[d])' /\ IsFair(commands[d])'
    BY <1>3, <1>5, <2>3 DEF Results0, IsWhole, IsFair, Is
  <2> QED BY <2>1, <2>2, <2>3 DEF Results0
<1> QED BY <1>7, <1>8, <1>9, <1>10, <1>11, <1>12, <1>13 DEF IInv

----
(* Sessions, and the whole *)

LEMMA SessionsKeep ==
    ASSUME IInv, Serve \/ RefreshPolicy \/ WipeSecret \/ UNCHANGED setupVars
    PROVE  IInv'
<1>1. Types /\ Forms /\ Away /\ Absent \notin Commands
  BY AbsentIsNothing DEF IInv
<1>2. /\ config \in Accounts \union {Absent} /\ secret \in Stored /\ keys \in 0 .. MaxKeys
      /\ wiped => secret = Absent
  BY <1>1 DEF Types, Away
<1>3. CASE Serve \/ UNCHANGED setupVars
  <2>1. UNCHANGED <<config, secret, commands, keys, accepted, wiped>>
    BY <1>3 DEF Serve, setupVars
  <2>2. IInv' = IInv
    BY <2>1 DEF IInv, Types, Forms, Alone, Sound, Whole, Away, Results0, Active, Coherent, Verified, Both,
                Tainted, Taints, Matches, Matched, Untouched, SameButKey, AfterWipe, IsWhole, IsFair, Is, IsWriting
  <2> QED BY <2>2
<1>4. CASE RefreshPolicy
  <2>1. PICK s : s = [secret EXCEPT !.key = keys + 1]
    OBVIOUS
  <2>2. /\ secret # Absent /\ keys < MaxKeys /\ keys' = keys + 1
        /\ Moves(Absent, Absent, s) /\ UNCHANGED <<config, accepted, wiped>>
    BY <1>4, <2>1 DEF RefreshPolicy
  <2>3. /\ s \in Stored /\ s # Absent /\ s.password = secret.password /\ s.device = secret.device
    <3>1. secret \in Secrets /\ keys + 1 \in 0 .. MaxKeys /\ keys + 1 # 0
      BY <1>2, <2>2, KeysArePositive DEF Stored
    <3>2. /\ s \in Secrets /\ s.key = keys + 1
          /\ s.password = secret.password /\ s.device = secret.device
      BY <2>1, <3>1 DEF Secrets
    <3> QED BY <3>1, <3>2, AbsentIsNothing DEF Stored
  <2>4. secret' = s /\ OthersMove(Absent)
    BY <2>2, MovesFacts
  <2>5. accepted \subseteq accepted' /\ keys' \in 0 .. MaxKeys
    BY <1>2, <2>2, KeysArePositive
  <2>6. commands' \in [Commands -> Given \union {Unused}]
    BY <1>1, <2>2, <2>3, <2>5, MovesType
  <2>7. ~wiped'
    BY <1>2, <2>2
  <2> QED BY <2>2, <2>3, <2>4, <2>5, <2>6, <2>7, SessionKeeps
<1>5. CASE WipeSecret
  <2>1. /\ Moves(Absent, Absent, Absent) /\ wiped' = (wiped \/ Active = {})
        /\ UNCHANGED <<config, keys, accepted>> /\ Absent \in Stored
    BY <1>5 DEF WipeSecret, Stored
  <2>2. secret' = Absent /\ OthersMove(Absent)
    BY <2>1, MovesFacts
  <2>3. accepted \subseteq accepted' /\ keys' \in 0 .. MaxKeys
    BY <1>2, <2>1
  <2>4. commands' \in [Commands -> Given \union {Unused}]
    BY <1>1, <2>1, <2>3, MovesType
  <2> QED BY <2>1, <2>2, <2>3, <2>4, SessionKeeps
<1> QED BY <1>3, <1>4, <1>5

LEMMA SetUpBegins ==
    ASSUME SetupInit
    PROVE  IInv
<1>1. PICK c, s :
         /\ Initially(c, s)
         /\ \/ c = Absent /\ s = Absent
            \/ \E settings \in Settings, writes \in BOOLEAN, password \in Passwords :
                  c = Account(settings, writes) /\ s = Secret(password, Absent, 1)
  BY DEF SetupInit
<1>2. c \in Accounts \union {Absent} /\ s \in Stored /\ (c = Absent <=> s = Absent)
      /\ (s # Absent => s.key = 1)
  <2>1. CASE c = Absent /\ s = Absent
    BY <2>1 DEF Stored
  <2>2. CASE \E settings \in Settings, writes \in BOOLEAN, password \in Passwords :
                c = Account(settings, writes) /\ s = Secret(password, Absent, 1)
    <3>1. 1 \in 0 .. MaxKeys /\ 1 # 0
      BY KeysArePositive
    <3>2. c \in Accounts /\ s \in Secrets /\ s.key = 1
      BY <2>2, <3>1 DEF Accounts, Account, Secrets, Secret
    <3> QED BY <3>1, <3>2, AbsentIsNothing DEF Stored
  <2> QED BY <1>1, <2>1, <2>2
<1>3. /\ config = c /\ secret = s /\ commands = [d \in Commands |-> Unused] /\ ~wiped
      /\ keys = IF s = Absent THEN 0 ELSE s.key
      /\ accepted = IF s = Absent THEN {} ELSE {Login(c.settings, s)}
  BY <1>1 DEF Initially
<1>4. /\ \A d \in Commands : commands[d] = Unused
      /\ Unused.at = "unused" /\ Unused.alone = TRUE
  BY <1>3 DEF Unused
<1>5. Active = {} /\ Matches(config, secret)
  BY <1>2, <1>3, <1>4 DEF Active, Matches
<1>6. Types
  <2>1. keys \in 0 .. MaxKeys
    BY <1>2, <1>3, KeysArePositive
  <2> QED BY <1>2, <1>3, <1>4, <2>1 DEF Types
<1>7. Results0
  BY <1>4 DEF Results0, IsWhole, IsFair, Is
<1> QED BY <1>3, <1>5, <1>6, <1>7 DEF IInv, Forms, Alone, Sound, Whole, Away

LEMMA NextKeeps ==
    ASSUME IInv, [SetupNext]_setupVars
    PROVE  IInv'
<1>1. ASSUME NEW c \in Commands, CommandNext(c)
      PROVE  IInv'
  <2>1. CASE \E settings \in Settings, password \in Passwords, writes \in BOOLEAN :
                Begin(c, "add", settings, password, writes)
    BY <2>1, BeginKeeps DEF Kinds
  <2>2. CASE \E settings \in Settings, password \in Passwords :
                Begin(c, "repair", settings, password, FALSE)
    BY <2>2, BeginKeeps DEF Kinds
  <2>3. CASE \E password \in Passwords : Begin(c, "password", Absent, password, FALSE)
    BY <2>3, BeginKeeps DEF Kinds
  <2>4. CASE \E does \in {"remove", "on", "off"} : Begin(c, does, Absent, Absent, FALSE)
    BY <2>4, BeginKeeps DEF Kinds
  <2>5. CASE AskUser(c)
    BY <2>5, AskUserKeeps
  <2>6. CASE Replace(c)
    BY <2>6, ReplaceKeeps
  <2>7. CASE Reload(c)
    BY <2>7, ReloadKeeps
  <2>8. CASE Save(c)
    BY <2>8, SaveKeeps
  <2>9. CASE Restore(c)
    BY <2>9, RestoreKeeps
  <2>10. CASE Kill(c)
    BY <2>10, KillKeeps
  <2>11. CASE \E refreshes, supports \in BOOLEAN : Accept(c, refreshes, supports)
    BY <2>11, AcceptKeeps
  <2>12. CASE \E wipes \in BOOLEAN : Decline(c, wipes)
    BY <2>12, DeclineKeeps
  <2> QED BY <1>1, <2>1, <2>2, <2>3, <2>4, <2>5, <2>6, <2>7, <2>8, <2>9, <2>10, <2>11, <2>12
          DEF CommandNext
<1>2. CASE Serve \/ RefreshPolicy \/ WipeSecret \/ UNCHANGED setupVars
  BY <1>2, SessionsKeep
<1> QED BY <1>1, <1>2 DEF SetupNext

\* The inductive invariant.
THEOREM Invariance == SetupSpec => []IInv
<1>1. SetupInit => IInv
  BY SetUpBegins
<1>2. IInv /\ [SetupNext]_setupVars => IInv'
  BY NextKeeps
<1> QED BY <1>1, <1>2, PTL DEF SetupSpec

LEMMA SetUpFollows == IInv => SetUpIsSound
<1> SUFFICES ASSUME IInv
             PROVE  SetUpIsSound
  OBVIOUS
<1>1. Types /\ Forms /\ Sound /\ Away /\ Results0
  BY DEF IInv
<1>2. SetupTypeOK
  <2>1. config = Absent \/ (config.settings \in Settings /\ config.writes \in BOOLEAN)
    BY <1>1 DEF Types, Accounts
  <2>2. secret = Absent \/ (secret.password \in Passwords /\ secret.key \in 1 .. MaxKeys)
    <3>1. secret # Absent => secret \in Secrets /\ secret.key # 0
      BY <1>1 DEF Types, Stored
    <3>2. secret # Absent => secret.password \in Passwords /\ secret.key \in 0 .. MaxKeys
      BY <3>1 DEF Secrets
    <3> QED BY <3>1, <3>2, KeysArePositive
  <2>3. \A c \in Commands : commands[c].at \in Places \union {"unused"}
    <3>1. ASSUME NEW c \in Commands
          PROVE  commands[c].at \in Places \union {"unused"}
      <4>1. CASE commands[c] \in Given
        BY <4>1 DEF Given
      <4>2. CASE commands[c] = Unused
        BY <4>2 DEF Unused
      <4> QED BY <1>1, <4>1, <4>2 DEF Types
    <3> QED BY <3>1
  <2> QED BY <2>1, <2>2, <2>3 DEF SetupTypeOK
<1>3. StoredAsVerified
  <2>1. CASE Tainted
    BY <2>1 DEF StoredAsVerified, Tainted, Taints
  <2>2. CASE \E c \in Commands : IsWriting(commands[c])
    BY <2>2 DEF StoredAsVerified
  <2>3. CASE ~Tainted /\ ~\E c \in Commands : IsWriting(commands[c])
    <3>1. Matches(config, secret)
      <4>1. CASE Active = {}
        BY <1>1, <2>3, <4>1 DEF Sound
      <4>2. CASE Active # {}
        <5>1. PICK c \in Active : TRUE
          BY <4>2
        <5>2. c \in Commands /\ Matched(commands[c])
          BY <1>1, <2>3, <5>1 DEF Sound, Active
        <5> QED BY <2>3, <5>2 DEF Matched
      <4> QED BY <4>1, <4>2
    <3> QED BY <3>1 DEF StoredAsVerified, Matches
  <2> QED BY <2>1, <2>2, <2>3
<1>4. CommandsAreWhole
  BY <1>1 DEF Results0, IsWhole, CommandsAreWhole
<1>5. RollbacksAreFair
  BY <1>1 DEF Results0, IsFair, RollbacksAreFair
<1>6. WipesHold
  BY <1>1 DEF Away, WipesHold
<1> QED BY <1>2, <1>3, <1>4, <1>5, <1>6 DEF SetUpIsSound

\* The credentials of an account and its configuration belong together, and no
\* command or session undoes what another one has done (accounts.rs,
\* account_secrets.rs): with any number of commands, however they overlap.
THEOREM SetUpHolds == SetupSpec => []SetUpIsSound
BY Invariance, SetUpFollows, PTL

----
(***************************************************************************)
(* Device policies                                                         *)
(***************************************************************************)

\* A value that is stated and makes sense stands for itself, any other for the
\* default (policy.rs integer).
LEMMA ValueIs ==
    ASSUME NEW policy, NEW field, NEW default
    PROVE  /\ field \in DOMAIN policy /\ Valid(field, policy[field]) => Value(policy, field, default) = policy[field]
           /\ ~(field \in DOMAIN policy /\ Valid(field, policy[field])) => Value(policy, field, default) = default
BY DEF Value

\* What Valid asks of the fields the decision is made of.
LEMMA ValidFields ==
    ASSUME NEW value \in Texts
    PROVE  /\ \A field \in Booleans : Valid(field, value) <=> value \in {0, 1}
           /\ \A field \in Lists \union {"MaxAttachmentSize"} : Valid(field, value) <=> value \in Nat
           /\ \A field \in Bodies : Valid(field, value) <=> value \in Int /\ value >= -1
           /\ Valid("AllowBluetooth", value) <=> value \in {0, 1, 2}
           /\ Valid("MaxEmailAgeFilter", value) <=> value \in 0 .. 5
           /\ Valid("MaxCalendarAgeFilter", value) <=> value \in {0, 4, 5, 6, 7}
<1> USE PoliciesAreFields DEF Texts, Valid
<1>1. ASSUME NEW field \in Booleans
      PROVE  Valid(field, value) <=> value \in {0, 1}
  <2>0. field \notin DOMAIN Choices /\ field \notin Bodies
    BY DEF Booleans, Strict, Restricted, Choices, Bodies
  <2>1. Valid(field, value) <=> value \notin {Empty, Malformed} /\ value \in {0, 1}
    BY <2>0
  <2>2. Empty \notin {0, 1} /\ Malformed \notin {0, 1}
    OBVIOUS
  <2> HIDE DEF Valid
  <2> QED
    BY <2>1, <2>2
<1>2. ASSUME NEW field \in Lists \union {"MaxAttachmentSize"}
      PROVE  Valid(field, value) <=> value \in Nat
  <2>1. field \notin Booleans /\ field \notin DOMAIN Choices /\ field \notin Bodies
    BY DEF Lists, Booleans, Strict, Restricted, Choices, Bodies
  <2>2. Valid(field, value) <=> value \notin {Empty, Malformed} /\ value >= 0
    BY <2>1
  <2>3. value \in Int \/ value \in {Empty, Malformed}
    OBVIOUS
  <2>4. Empty \notin Nat /\ Malformed \notin Nat
    OBVIOUS
  <2> HIDE DEF Valid
  <2> QED
    BY <2>2, <2>3, <2>4
<1>3. ASSUME NEW field \in Bodies
      PROVE  Valid(field, value) <=> value \in Int /\ value >= -1
  <2>1. field \notin Booleans /\ field \notin DOMAIN Choices
    BY DEF Booleans, Strict, Restricted, Choices, Bodies
  <2> QED
    BY <2>1
<1>4. ASSUME NEW field \in {"AllowBluetooth", "MaxEmailAgeFilter", "MaxCalendarAgeFilter"}
      PROVE  Valid(field, value) <=> value \in Choices[field]
  <2>1. field \notin Booleans /\ field \in DOMAIN Choices /\ field \notin Bodies
    BY DEF Booleans, Strict, Restricted, Choices, Bodies
  <2>2. Choices[field] \subseteq Int
    BY DEF Choices
  <2>3. Valid(field, value) <=> value \notin {Empty, Malformed} /\ value \in Choices[field]
    BY <2>1
  <2> HIDE DEF Valid
  <2> QED
    BY <2>2, <2>3
<1>5. /\ Choices["AllowBluetooth"] = {0, 1, 2} /\ Choices["MaxEmailAgeFilter"] = 0 .. 5
      /\ Choices["MaxCalendarAgeFilter"] = {0, 4, 5, 6, 7}
  BY DEF Choices
<1> HIDE DEF Valid
<1> QED
  BY <1>1, <1>2, <1>3, <1>4, <1>5

\* What an accepted policy asks of the device (evaluate_policy).
LEMMA AcceptedPolicies ==
    ASSUME NEW policy, policy \in [DOMAIN policy -> Texts], Supported(policy)
    PROVE  /\ DOMAIN policy \subseteq Known
           /\ \A field \in DOMAIN policy :
               /\ policy[field] # Malformed
               /\ field \in Booleans => policy[field] \in {0, 1}
               /\ field \in Bodies => policy[field] \in Int
               /\ field \in Strict => policy[field] = 0
               /\ field \in Restricted => policy[field] = 1
               /\ field \in Lists => policy[field] \in {0, Empty}
               /\ field = "AllowBluetooth" => policy[field] \in {2, Empty}
<1>1. SUFFICES ASSUME NEW field \in DOMAIN policy
               PROVE  /\ policy[field] # Malformed
                      /\ field \in Booleans => policy[field] \in {0, 1}
                      /\ field \in Bodies => policy[field] \in Int
                      /\ field \in Strict => policy[field] = 0
                      /\ field \in Restricted => policy[field] = 1
                      /\ field \in Lists => policy[field] \in {0, Empty}
                      /\ field = "AllowBluetooth" => policy[field] \in {2, Empty}
  BY DEF Supported
<1>2. PICK value \in Texts : value = policy[field]
  OBVIOUS
<1>3. /\ WellFormed(policy, field) /\ ~Demands(policy, field)
  BY DEF Supported
<1>4. Valid(field, value) \/ (value = Empty /\ field \notin Booleans /\ field \notin Bodies)
  BY <1>2, <1>3 DEF WellFormed
<1>5. value # Malformed
  BY <1>4, PoliciesAreFields DEF Valid
<1>6. field \in Booleans => value \in {0, 1}
  BY <1>4, ValidFields
<1>7. field \in Bodies => value \in Int
  BY <1>4, ValidFields
<1>8. Strict \subseteq Booleans /\ Restricted \subseteq Booleans
  BY DEF Booleans
<1>9. field \in Strict => value = 0
  BY <1>2, <1>3, <1>4, <1>8, ValueIs DEF Demands
<1>10. field \in Restricted => value = 1
  <2> HAVE field \in Restricted
  <2>1. Value(policy, field, 1) = value
    BY <1>2, <1>4, <1>8, ValueIs
  <2> QED
    BY <2>1, <1>3, <1>6, <1>8 DEF Demands
<1>11. field \in Lists => value \in {0, Empty}
  <2> HAVE field \in Lists /\ value # Empty
  <2>1. Value(policy, field, 0) = value
    BY <1>2, <1>4, ValueIs
  <2>2. value \in Nat
    BY <1>4, ValidFields
  <2> QED
    BY <2>1, <2>2, <1>3 DEF Demands
<1>12. field = "AllowBluetooth" => value \in {2, Empty}
  <2> HAVE field = "AllowBluetooth" /\ value # Empty
  <2>1. Value(policy, field, 2) = value
    BY <1>2, <1>4, ValueIs
  <2>2. value \in {0, 1, 2}
    BY <1>4, ValidFields
  <2> QED
    BY <2>1, <2>2, <1>3 DEF Demands
<1> QED
  BY <1>2, <1>5, <1>6, <1>7, <1>9, <1>10, <1>11, <1>12

\* What a field stands for in an accepted policy: what it states, unless it is
\* empty or absent.
LEMMA AcceptedValues ==
    ASSUME NEW policy, policy \in [DOMAIN policy -> Texts], Supported(policy), NEW field, NEW default
    PROVE  /\ field \in DOMAIN policy /\ policy[field] # Empty =>
                 Value(policy, field, default) = policy[field] /\ Valid(field, policy[field])
           /\ ~(field \in DOMAIN policy /\ policy[field] # Empty) => Value(policy, field, default) = default
<1>1. field \in DOMAIN policy /\ policy[field] # Empty => Valid(field, policy[field])
  BY DEF Supported, WellFormed
<1>2. field \in DOMAIN policy /\ policy[field] = Empty => ~Valid(field, policy[field])
  BY DEF Valid
<1> QED
  BY <1>1, <1>2, ValueIs

LEMMA SmallestBounds ==
    ASSUME NEW a \in Nat, NEW b \in Nat
    PROVE  Smallest(a, b) \in 0 .. b /\ Smallest(a, b) <= a
BY DEF Smallest

LEMMA OwnLimits == MaxAttachment \in Nat /\ MaxBody \in Nat
BY DEF MaxAttachment, MaxBody

\* What is fetched stays within the program's own limits and those of an
\* accepted policy (evaluate_policy, PolicyDecision).
LEMMA AcceptedLimits ==
    ASSUME NEW policy, policy \in [DOMAIN policy -> Texts], Supported(policy),
           NEW decision, decision = Evaluate(policy)
    PROVE  /\ decision.maxAttachment \in 0 .. MaxAttachment
           /\ decision.bodyLimit \in 0 .. MaxBody
           /\ decision.mailFilter \in 1 .. 5
           /\ decision.calendarFilter \in 4 .. 6
           /\ "AttachmentsEnabled" \in DOMAIN policy /\ policy["AttachmentsEnabled"] = 0 =>
                 decision.attachmentsEnabled = FALSE
           /\ "MaxAttachmentSize" \in DOMAIN policy /\ policy["MaxAttachmentSize"] # Empty =>
                 decision.maxAttachment <= policy["MaxAttachmentSize"]
           /\ "MaxEmailAgeFilter" \in DOMAIN policy /\ policy["MaxEmailAgeFilter"] \notin {0, Empty} =>
                 decision.mailFilter <= policy["MaxEmailAgeFilter"]
           /\ "MaxCalendarAgeFilter" \in DOMAIN policy /\ policy["MaxCalendarAgeFilter"] \notin {0, Empty} =>
                 decision.calendarFilter <= policy["MaxCalendarAgeFilter"]
<1> DEFINE attachment == Value(policy, "MaxAttachmentSize", MaxAttachment)
           html == Value(policy, "AllowHTMLEmail", 1) = 1
           field == IF html THEN "MaxEmailHTMLBodyTruncationSize" ELSE "MaxEmailBodyTruncationSize"
           body == Value(policy, field, -1)
           mail == Value(policy, "MaxEmailAgeFilter", 0)
           calendar == Value(policy, "MaxCalendarAgeFilter", 0)
<1>1. /\ decision.maxAttachment = Smallest(attachment, MaxAttachment)
      /\ decision.bodyLimit = IF body = -1 THEN MaxBody ELSE Smallest(body, MaxBody)
      /\ decision.mailFilter = IF mail = 0 THEN 5 ELSE mail
      /\ decision.calendarFilter = IF calendar = 0 THEN 6 ELSE Smallest(calendar, 6)
      /\ decision.attachmentsEnabled = (Value(policy, "AttachmentsEnabled", 1) = 1)
  BY DEF Evaluate
<1> HIDE DEF attachment, html, field, body, mail, calendar
<1>2. /\ attachment \in Nat
      /\ "MaxAttachmentSize" \in DOMAIN policy /\ policy["MaxAttachmentSize"] # Empty =>
            attachment = policy["MaxAttachmentSize"]
  <2>1. MaxAttachment \in Nat
    BY DEF MaxAttachment
  <2> QED
    BY <2>1, AcceptedValues, ValidFields DEF attachment
<1>3. body \in Int /\ body >= -1
  <2>1. field \in Bodies
    BY DEF field, Bodies
  <2> QED
    BY <2>1, AcceptedValues, ValidFields DEF body
<1>4. /\ mail \in 0 .. 5
      /\ "MaxEmailAgeFilter" \in DOMAIN policy /\ policy["MaxEmailAgeFilter"] # Empty =>
            mail = policy["MaxEmailAgeFilter"]
  BY AcceptedValues, ValidFields DEF mail
<1>5. /\ calendar \in {0, 4, 5, 6, 7}
      /\ "MaxCalendarAgeFilter" \in DOMAIN policy /\ policy["MaxCalendarAgeFilter"] # Empty =>
            calendar = policy["MaxCalendarAgeFilter"]
  BY AcceptedValues, ValidFields DEF calendar
<1>6. "AttachmentsEnabled" \in DOMAIN policy /\ policy["AttachmentsEnabled"] = 0 =>
          Value(policy, "AttachmentsEnabled", 1) = 0
  BY AcceptedValues, PoliciesAreFields
<1>7. /\ decision.maxAttachment \in 0 .. MaxAttachment
      /\ "MaxAttachmentSize" \in DOMAIN policy /\ policy["MaxAttachmentSize"] # Empty =>
            decision.maxAttachment <= policy["MaxAttachmentSize"]
  BY <1>1, <1>2, SmallestBounds, OwnLimits
<1>8. decision.bodyLimit \in 0 .. MaxBody
  <2>1. CASE body = -1
    BY <1>1, <2>1, OwnLimits
  <2>2. CASE body # -1
    <3>1. body \in Nat
      BY <1>3, <2>2
    <3> QED
      BY <1>1, <2>2, <3>1, SmallestBounds, OwnLimits
  <2> QED
    BY <2>1, <2>2
<1>9. /\ decision.mailFilter \in 1 .. 5
      /\ "MaxEmailAgeFilter" \in DOMAIN policy /\ policy["MaxEmailAgeFilter"] \notin {0, Empty} =>
            decision.mailFilter <= policy["MaxEmailAgeFilter"]
  BY <1>1, <1>4
<1>10. /\ decision.calendarFilter \in 4 .. 6
       /\ "MaxCalendarAgeFilter" \in DOMAIN policy /\ policy["MaxCalendarAgeFilter"] \notin {0, Empty} =>
             decision.calendarFilter <= policy["MaxCalendarAgeFilter"]
  BY <1>1, <1>5 DEF Smallest
<1>11. "AttachmentsEnabled" \in DOMAIN policy /\ policy["AttachmentsEnabled"] = 0 =>
          decision.attachmentsEnabled = FALSE
  <2> HAVE "AttachmentsEnabled" \in DOMAIN policy /\ policy["AttachmentsEnabled"] = 0
  <2>1. (Value(policy, "AttachmentsEnabled", 1) = 1) = FALSE
    BY <1>6
  <2> QED
    BY <1>1, <2>1
<1> QED
  BY <1>7, <1>8, <1>9, <1>10, <1>11

\* The limit of a body is the one of HTML, or of plain text where HTML is not
\* allowed (evaluate_policy, selected_body).
LEMMA AcceptedBodies ==
    ASSUME NEW policy, policy \in [DOMAIN policy -> Texts], Supported(policy),
           NEW decision, decision = Evaluate(policy),
           NEW field, field = IF "AllowHTMLEmail" \in DOMAIN policy /\ policy["AllowHTMLEmail"] = 0
                              THEN "MaxEmailBodyTruncationSize" ELSE "MaxEmailHTMLBodyTruncationSize",
           field \in DOMAIN policy, policy[field] \notin {Empty, -1}
    PROVE  decision.bodyLimit <= policy[field]
<1>1. (Value(policy, "AllowHTMLEmail", 1) = 1) =
          ~("AllowHTMLEmail" \in DOMAIN policy /\ policy["AllowHTMLEmail"] = 0)
  <2>1. "AllowHTMLEmail" \in Booleans
    BY DEF Booleans
  <2>2. "AllowHTMLEmail" \in DOMAIN policy => policy["AllowHTMLEmail"] \in {0, 1}
    BY <2>1, AcceptedPolicies
  <2> QED
    BY <2>2, AcceptedValues, PoliciesAreFields
<1>2. field \in Bodies
  BY DEF Bodies
<1>3. /\ Value(policy, field, -1) = policy[field]
      /\ policy[field] \in Int /\ policy[field] >= -1
  BY <1>2, AcceptedValues, ValidFields
<1>4. decision.bodyLimit = Smallest(policy[field], MaxBody)
  BY <1>1, <1>3 DEF Evaluate
<1> QED
  BY <1>3, <1>4 DEF Smallest, MaxBody

\* A question about a policy is open or has one of the answers of provision.
PolicyInv ==
    \/ question \in PolicyQuestions /\ answer = Nothing
    \/ \E policy \in OfferedPolicies, first \in {"policy", "error", "wipe"},
          second \in {"confirmed", "refused", "lost"} :
        /\ question = [is |-> "provision", policy |-> policy, told |-> Acknowledged(first, policy)]
        /\ answer = Provision(first, policy, second)

\* What Exchange is told of a policy, and what then comes into force, is what
\* the policy allows (EasClient::provision).
LEMMA PolicyInvHonoured == PolicyInv => PoliciesAreHonoured
<1> SUFFICES ASSUME PolicyInv, question.is = "provision"
             PROVE  PoliciesAreHonoured
  BY DEF PoliciesAreHonoured
<1>1. PICK policy \in OfferedPolicies, first \in {"policy", "error", "wipe"},
           second \in {"confirmed", "refused", "lost"} :
        /\ question = [is |-> "provision", policy |-> policy, told |-> Acknowledged(first, policy)]
        /\ answer = Provision(first, policy, second)
  <2>1. ASSUME question \in PolicyQuestions
        PROVE  FALSE
    <3>1. PICK policy \in OfferedPolicies : question = [is |-> "policy", policy |-> policy]
      BY <2>1 DEF PolicyQuestions
    <3> QED
      BY <3>1
  <2> QED
    BY <2>1 DEF PolicyInv
<1>2. policy \in [DOMAIN policy -> Texts]
  BY PoliciesAreFields
<1>3. question.policy = policy /\ question.told = Acknowledged(first, policy)
  BY <1>1
<1>4. Evaluate(policy).supported = Supported(policy)
  BY DEF Evaluate
<1>5. answer.is = "wiped" => question.told = {}
  BY <1>1, <1>3 DEF Provision, Acknowledged, Failed
<1>6. answer.is = "unsupported" => question.told = {"rejected"}
  BY <1>1, <1>3, <1>4 DEF Provision, Acknowledged, Failed
<1>7. answer.is = "negotiated" =>
        /\ Supported(policy) /\ answer.decision = Evaluate(policy) /\ question.told = {"accepted"}
  BY <1>1, <1>3, <1>4 DEF Provision, Acknowledged, Failed
<1>8. CASE answer.is # "negotiated"
  BY <1>5, <1>6, <1>8 DEF PoliciesAreHonoured
<1>9. CASE answer.is = "negotiated"
  <2> DEFINE decision == answer.decision
  <2>1. Supported(policy) /\ decision = Evaluate(policy) /\ question.told = {"accepted"}
    BY <1>7, <1>9
  <2> HIDE DEF decision
  <2>2. policy = <<>> => decision.bodyLimit = MaxBody /\ decision.maxAttachment = MaxAttachment
    <3> HAVE policy = <<>>
    <3>1. DOMAIN policy = {}
      OBVIOUS
    <3>2. \A field, default : Value(policy, field, default) = default
      BY <3>1, ValueIs
    <3> QED
      BY <2>1, <3>2, OwnLimits DEF Evaluate, Smallest
  <2>3. PICK allows : allows = ~("AllowHTMLEmail" \in DOMAIN policy /\ policy["AllowHTMLEmail"] = 0)
    OBVIOUS
  <2>4. allows /\ "MaxEmailHTMLBodyTruncationSize" \in DOMAIN policy
               /\ policy["MaxEmailHTMLBodyTruncationSize"] \notin {Empty, -1} =>
            decision.bodyLimit <= policy["MaxEmailHTMLBodyTruncationSize"]
    BY <1>2, <2>1, <2>3, AcceptedBodies
  <2>5. ~allows /\ "MaxEmailBodyTruncationSize" \in DOMAIN policy
                /\ policy["MaxEmailBodyTruncationSize"] \notin {Empty, -1} =>
            decision.bodyLimit <= policy["MaxEmailBodyTruncationSize"]
    BY <1>2, <2>1, <2>3, AcceptedBodies
  <2>6. /\ decision.maxAttachment \in 0 .. MaxAttachment
        /\ decision.bodyLimit \in 0 .. MaxBody
        /\ decision.mailFilter \in 1 .. 5
        /\ decision.calendarFilter \in 4 .. 6
        /\ "AttachmentsEnabled" \in DOMAIN policy /\ policy["AttachmentsEnabled"] = 0 =>
              decision.attachmentsEnabled = FALSE
        /\ "MaxAttachmentSize" \in DOMAIN policy /\ policy["MaxAttachmentSize"] # Empty =>
              decision.maxAttachment <= policy["MaxAttachmentSize"]
        /\ "MaxEmailAgeFilter" \in DOMAIN policy /\ policy["MaxEmailAgeFilter"] \notin {0, Empty} =>
              decision.mailFilter <= policy["MaxEmailAgeFilter"]
        /\ "MaxCalendarAgeFilter" \in DOMAIN policy /\ policy["MaxCalendarAgeFilter"] \notin {0, Empty} =>
              decision.calendarFilter <= policy["MaxCalendarAgeFilter"]
    BY <1>2, <2>1, AcceptedLimits
  <2>7. /\ DOMAIN policy \subseteq Known
        /\ \A field \in DOMAIN policy :
            /\ policy[field] # Malformed
            /\ field \in Booleans => policy[field] \in {0, 1}
            /\ field \in Bodies => policy[field] \in Int
            /\ field \in Strict => policy[field] = 0
            /\ field \in Restricted => policy[field] = 1
            /\ field \in Lists => policy[field] \in {0, Empty}
            /\ field = "AllowBluetooth" => policy[field] \in {2, Empty}
    BY <1>2, <2>1, AcceptedPolicies
  <2>8. {0, 1} \subseteq Int
    OBVIOUS
  <2> QED
    BY <1>3, <1>9, <2>1, <2>2, <2>3, <2>4, <2>5, <2>6, <2>7, <2>8 DEF PoliciesAreHonoured, decision
<1> QED
  BY <1>8, <1>9

\* Whatever policies Exchange offers, one that comes into force has been
\* accepted, asks for nothing the client cannot do, and limits what is fetched
\* (EasClient::provision, evaluate_policy).
THEOREM PoliciesHold == PolicySpec => []PoliciesAreHonoured
<1>1. PolicyInit => PolicyInv
  BY DEF PolicyInit, PolicyInv
<1>2. PolicyInv /\ [AskPolicy]_<<question, answer>> => PolicyInv'
  <2>1. CASE UNCHANGED <<question, answer>>
    BY <2>1 DEF PolicyInv
  <2>2. ASSUME PolicyInv, AskPolicy
        PROVE  PolicyInv'
    <3>1. question \in PolicyQuestions
      BY <2>2 DEF PolicyInv, AskPolicy
    <3>2. PICK policy \in OfferedPolicies : question = [is |-> "policy", policy |-> policy]
      BY <3>1 DEF PolicyQuestions
    <3> QED
      BY <2>2, <3>2 DEF PolicyInv, AskPolicy
  <2> QED
    BY <2>1, <2>2
<1> QED
  BY <1>1, <1>2, PolicyInvHonoured, PTL DEF PolicySpec

----
(***************************************************************************)
(* Downloads                                                               *)
(***************************************************************************)

Files == [account : Owners, token : Tokens, at : Int, whole : BOOLEAN]

\* What callers were told of is there and whole until its time has come.
CacheKept(cache, now) == \A f \in cache.told : Expired(f, now) \/ (f \in cache.files /\ f.whole)

CacheTyped(cache) ==
    /\ cache \in [is : {"cached"}, files : SUBSET Files, told : SUBSET Files, failed : BOOLEAN]

\* A question about downloads.
CacheQuestion(q) ==
    q \in [is : {"cache"}, last : {"nothing", "download", "start-up", "clear"}, cleared : SUBSET Owners,
           now : Int, tokens : SUBSET Tokens]

\* What one operation that succeeds leaves of the files (prune, store, clear).
CacheFresh(q, cache) ==
    ~cache.failed =>
        \A f \in cache.files :
            /\ q.last \in {"download", "start-up"} => ~Expired(f, q.now)
            /\ f.account \notin q.cleared

CacheInv ==
    /\ CacheQuestion(question)
    /\ answer # Nothing => CacheTyped(answer) /\ CacheKept(answer, question.now) /\ CacheFresh(question, answer)

LEMMA NotExpiredAtOnce ==
    ASSUME NEW f, NEW now \in Int, f.at = now
    PROVE  ~Expired(f, now)
BY DownloadsAreKeptAWhile DEF Expired

\* A download never becomes fresh again.
LEMMA ExpiredForGood ==
    ASSUME NEW f \in Files, NEW now \in Int, Expired(f, now)
    PROVE  Expired(f, now + 1)
<1>1. f.at \in Int
  BY DEF Files
<1> QED
  BY <1>1, DownloadsAreKeptAWhile DEF Expired

\* Removal takes away all that is doomed, or fails and takes away some of it
\* (remove_entry).
LEMMA DeletingEffect ==
    ASSUME NEW cache, CacheTyped(cache), NEW doomed \in SUBSET Files, NEW next \in Deleting(cache, doomed)
    PROVE  /\ CacheTyped(next) /\ next.told = cache.told
           /\ cache.files \ doomed \subseteq next.files /\ next.files \subseteq cache.files
           /\ ~next.failed => next.files = cache.files \ doomed
<1>1. CASE next = Succeeds(cache, cache.files \ doomed)
  BY <1>1 DEF Succeeds, CacheTyped
<1>2. ASSUME NEW part \in SUBSET doomed, next = [cache EXCEPT !.files = @ \ part, !.failed = TRUE]
      PROVE  /\ CacheTyped(next) /\ next.told = cache.told
             /\ cache.files \ doomed \subseteq next.files /\ next.files \subseteq cache.files
             /\ next.failed = TRUE
  BY <1>2 DEF CacheTyped
<1> QED
  BY <1>1, <1>2 DEF Deleting

LEMMA PruneEffect ==
    ASSUME NEW cache, CacheTyped(cache), NEW now \in Int, CacheKept(cache, now), NEW next \in Prune(cache, now)
    PROVE  /\ CacheTyped(next) /\ CacheKept(next, now)
           /\ ~next.failed => \A f \in next.files : ~Expired(f, now)
<1> DEFINE doomed == {f \in cache.files : Expired(f, now)}
<1>1. doomed \in SUBSET Files
  BY DEF CacheTyped
<1>2. next \in Deleting(cache, doomed)
  BY DEF Prune
<1> HIDE DEF doomed
<1>3. /\ CacheTyped(next) /\ next.told = cache.told
      /\ cache.files \ doomed \subseteq next.files /\ next.files \subseteq cache.files
      /\ ~next.failed => next.files = cache.files \ doomed
  BY <1>1, <1>2, DeletingEffect
<1> QED
  BY <1>3 DEF CacheKept, doomed

\* A caller is told of a file only when all of it has been written
\* (private_file).
LEMMA PrivateFileEffect ==
    ASSUME NEW cache, CacheTyped(cache), NEW now \in Int, CacheKept(cache, now),
           ~cache.failed => \A f \in cache.files : ~Expired(f, now), cache.failed = FALSE,
           NEW file \in Files, file.whole = TRUE, file.at = now,
           NEW next \in PrivateFile(cache, file)
    PROVE  /\ CacheTyped(next) /\ CacheKept(next, now)
           /\ ~next.failed => \A f \in next.files : ~Expired(f, now)
<1>1. CASE next = [Succeeds(cache, cache.files \union {file}) EXCEPT !.told = @ \union {file}]
  <2>1. /\ CacheTyped(next) /\ next.files = cache.files \union {file} /\ next.told = cache.told \union {file}
    BY <1>1 DEF Succeeds, CacheTyped
  <2> QED
    BY <2>1, NotExpiredAtOnce DEF CacheKept
<1>2. CASE next = [cache EXCEPT !.failed = TRUE]
  BY <1>2 DEF CacheTyped, CacheKept
<1>3. CASE next = [cache EXCEPT !.failed = TRUE, !.files = @ \union {[file EXCEPT !.whole = FALSE]}]
  <2>1. [file EXCEPT !.whole = FALSE] \in Files
    BY DEF Files
  <2>2. /\ CacheTyped(next) /\ next.told = cache.told /\ cache.files \subseteq next.files /\ next.failed = TRUE
    BY <1>3, <2>1 DEF CacheTyped
  <2> QED
    BY <2>2 DEF CacheKept
<1> QED
  BY <1>1, <1>2, <1>3 DEF PrivateFile

LEMMA StoreEffect ==
    ASSUME NEW cache, CacheTyped(cache), NEW now \in Int, CacheKept(cache, now),
           NEW account \in Owners, NEW token \in Tokens, NEW next \in Store(cache, account, token, now)
    PROVE  /\ CacheTyped(next) /\ CacheKept(next, now)
           /\ ~next.failed => \A f \in next.files : ~Expired(f, now)
<1> DEFINE file == [account |-> account, token |-> token, at |-> now, whole |-> TRUE]
<1>1. file \in Files /\ file.whole = TRUE /\ file.at = now
  BY DEF Files
<1> HIDE DEF file
<1>2. PICK pruned \in Prune(cache, now) :
          next \in IF pruned.failed THEN {pruned} ELSE PrivateFile(pruned, file)
  BY DEF Store, file
<1>3. /\ CacheTyped(pruned) /\ CacheKept(pruned, now)
      /\ ~pruned.failed => \A f \in pruned.files : ~Expired(f, now)
  BY PruneEffect
<1>4. CASE pruned.failed
  BY <1>2, <1>3, <1>4
<1>5. CASE ~pruned.failed
  <2>1. pruned.failed = FALSE
    BY <1>3, <1>5 DEF CacheTyped
  <2>2. next \in PrivateFile(pruned, file)
    BY <1>2, <1>5
  <2> QED
    BY <1>1, <1>3, <2>1, <2>2, PrivateFileEffect
<1> QED
  BY <1>4, <1>5

\* Clearing forgets what callers were told of the downloads it clears (clear).
LEMMA ClearEffect ==
    ASSUME NEW cache, CacheTyped(cache), NEW now \in Int, CacheKept(cache, now), NEW accounts \in SUBSET Owners,
           NEW cleared \in Clear(cache, accounts),
           NEW next, next = [cleared EXCEPT !.told = {f \in @ : f.account \notin accounts}]
    PROVE  /\ CacheTyped(next) /\ CacheKept(next, now)
           /\ ~next.failed => \A f \in next.files : f.account \notin accounts
<1> DEFINE doomed == {f \in cache.files : f.account \in accounts}
<1>1. doomed \in SUBSET Files
  BY DEF CacheTyped
<1>2. cleared \in Deleting(cache, doomed)
  BY DEF Clear
<1> HIDE DEF doomed
<1>3. /\ CacheTyped(cleared) /\ cleared.told = cache.told
      /\ cache.files \ doomed \subseteq cleared.files /\ cleared.files \subseteq cache.files
      /\ ~cleared.failed => cleared.files = cache.files \ doomed
  BY <1>1, <1>2, DeletingEffect
<1>4. /\ CacheTyped(next) /\ next.files = cleared.files /\ next.failed = cleared.failed
      /\ next.told = {f \in cleared.told : f.account \notin accounts}
  BY <1>3 DEF CacheTyped
<1> QED
  BY <1>3, <1>4 DEF CacheKept, doomed

\* Every operation on downloads keeps what callers were told of, and one that
\* succeeds leaves nothing that had to go.
LEMMA CacheSteps ==
    ASSUME CacheInv, AskDownload \/ AskStartUp \/ AskClear \/ AskLater
    PROVE  CacheInv'
<1> USE DEF CacheInv
<1>1. question.now \in Int
  BY DEF CacheQuestion
<1>2. ASSUME AskDownload
      PROVE  CacheInv'
  <2>1. PICK account \in Owners, token \in question.tokens :
            /\ answer' \in Store(IF answer = Nothing THEN NoFiles ELSE answer, account, token, question.now)
            /\ question' = [question EXCEPT !.last = "download", !.cleared = {}, !.tokens = @ \ {token}]
    BY <1>2 DEF AskDownload
  <2>2. token \in Tokens
    BY <2>1 DEF CacheQuestion
  <2>3. PICK cache : cache = IF answer = Nothing THEN NoFiles ELSE answer
    OBVIOUS
  <2>4. CacheTyped(NoFiles) /\ CacheKept(NoFiles, question.now)
    BY DEF NoFiles, CacheTyped, CacheKept
  <2>5. CacheTyped(cache) /\ CacheKept(cache, question.now)
    BY <2>3, <2>4
  <2>6. /\ CacheTyped(answer') /\ CacheKept(answer', question.now)
        /\ ~answer'.failed => \A f \in answer'.files : ~Expired(f, question.now)
    BY <1>1, <2>1, <2>2, <2>3, <2>5, StoreEffect
  <2>7. /\ CacheQuestion(question') /\ question'.now = question.now
        /\ question'.last = "download" /\ question'.cleared = {}
    BY <2>1 DEF CacheQuestion
  <2>8. CacheFresh(question', answer')
    BY <2>6, <2>7 DEF CacheFresh
  <2> QED
    BY <2>6, <2>7, <2>8
<1>3. ASSUME AskStartUp
      PROVE  CacheInv'
  <2>1. /\ answer # Nothing /\ answer' \in Prune(answer, question.now)
        /\ question' = [question EXCEPT !.last = "start-up", !.cleared = {}]
    BY <1>3 DEF AskStartUp
  <2>2. /\ CacheTyped(answer') /\ CacheKept(answer', question.now)
        /\ ~answer'.failed => \A f \in answer'.files : ~Expired(f, question.now)
    BY <1>1, <2>1, PruneEffect
  <2>3. /\ CacheQuestion(question') /\ question'.now = question.now
        /\ question'.last = "start-up" /\ question'.cleared = {}
    BY <2>1 DEF CacheQuestion
  <2>4. CacheFresh(question', answer')
    BY <2>2, <2>3 DEF CacheFresh
  <2> QED
    BY <2>2, <2>3, <2>4
<1>4. ASSUME AskClear
      PROVE  CacheInv'
  <2>0. PICK accounts \in {{owner} : owner \in Owners} \union {Owners} :
            /\ answer # Nothing
            /\ \E cleared \in Clear(answer, accounts) :
                   answer' = [cleared EXCEPT !.told = {f \in @ : f.account \notin accounts}]
            /\ question' = [question EXCEPT !.last = "clear", !.cleared = accounts]
    BY <1>4 DEF AskClear
  <2>1. PICK cleared \in Clear(answer, accounts) :
            answer' = [cleared EXCEPT !.told = {f \in @ : f.account \notin accounts}]
    BY <2>0
  <2>2. accounts \in SUBSET Owners
    BY <2>0
  <2>3. /\ CacheTyped(answer') /\ CacheKept(answer', question.now)
        /\ ~answer'.failed => \A f \in answer'.files : f.account \notin accounts
    BY <1>1, <2>0, <2>1, <2>2, ClearEffect
  <2>4. /\ CacheQuestion(question') /\ question'.now = question.now
        /\ question'.last = "clear" /\ question'.cleared = accounts
    BY <2>0, <2>2 DEF CacheQuestion
  <2>5. CacheFresh(question', answer')
    BY <2>3, <2>4 DEF CacheFresh
  <2> QED
    BY <2>3, <2>4, <2>5
<1>5. ASSUME AskLater
      PROVE  CacheInv'
  <2>1. /\ answer # Nothing /\ answer' = answer
        /\ question' = [question EXCEPT !.now = @ + 1, !.last = "nothing", !.cleared = {}]
    BY <1>5 DEF AskLater
  <2>2. /\ CacheQuestion(question') /\ question'.now = question.now + 1
        /\ question'.last = "nothing" /\ question'.cleared = {}
    <3>1. PICK later \in Int : later = question.now + 1
      BY <1>1
    <3>2. question' = [question EXCEPT !.now = later, !.last = "nothing", !.cleared = {}]
      BY <2>1, <3>1
    <3> QED
      BY <3>1, <3>2 DEF CacheQuestion
  <2>3. CacheTyped(answer)
    BY <2>1
  <2>4. CacheKept(answer, question.now + 1)
    BY <1>1, <2>1, <2>3, ExpiredForGood DEF CacheKept, CacheTyped
  <2>5. CacheFresh(question', answer)
    BY <2>2 DEF CacheFresh
  <2> QED
    BY <2>1, <2>2, <2>3, <2>4, <2>5
<1> QED
  BY <1>2, <1>3, <1>4, <1>5

LEMMA CacheInvKept == CacheInv => DownloadsAreKept
<1> SUFFICES ASSUME CacheInv, answer # Nothing
             PROVE  DownloadsAreKept
  BY DEF DownloadsAreKept
<1> QED
  BY DEF CacheInv, DownloadsAreKept, CacheKept, CacheFresh
----
(***************************************************************************)
(* Files of AI clients.  A command is at a place k of its plan, with the   *)
(* steps before k done.                                                    *)
(***************************************************************************)

ClientKinds == {"codex", "claude", "opencode"}
Acts == {"backup", "remove", "add", "get", "read", "rules", "insert", "delete"}
Changing == {"remove", "add", "rules", "insert", "delete"}
Cleaning == {"rules", "insert", "delete"}
StepsOf(kind) == [do : Acts, file : FilesOf(kind), undo : SUBSET FilesOf(kind)]

\* What the steps before k have done to a file.
Did(plan, k, acts, f) == \E j \in 1 .. k - 1 : plan[j].do \in acts /\ plan[j].file = f

\* Files are backed up before they are changed, once; what a failing step does
\* not restore is unchanged, but for a server that was removed from an excused
\* file; a document is read before it is written back; and the steps that clean
\* up approvals are the last to change a file.
InOrder(plan, kind, excused, k) ==
    LET step == plan[k]
        f == plan[k].file
    IN  /\ step.do \in Changing => Did(plan, k, {"backup"}, f) /\ ~Did(plan, k, Cleaning, f)
        /\ step.do = "backup" => ~Did(plan, k, Changing, f)
        /\ step.do = "read" => \A g : ~Did(plan, k, {"read"}, g)
        /\ step.do \in {"remove", "add"} => ~Did(plan, k, {"read"}, f)
        /\ step.do = "remove" => ~Did(plan, k, {"add", "insert"}, f)
        /\ step.do \in Cleaning => Did(plan, k, {"read"}, f)
        /\ step.do = "delete" => ~Did(plan, k, {"add", "insert"}, f)
        /\ \A g \in step.undo : Did(plan, k, {"backup"}, g)
        /\ \A g \in FilesOf(kind) \ step.undo :
              /\ g # f \/ step.do \notin {"remove", "add"}
              /\ IF g \in excused THEN ~Did(plan, k, Changing \ {"remove"}, g)
                                  ELSE ~Did(plan, k, Changing, g)

Orderly(plan, kind, excused) ==
    /\ plan \in Seq(StepsOf(kind))
    /\ \A k \in DOMAIN plan : InOrder(plan, kind, excused, k)

\* What a plan has done when all its steps are.
Has(plan, acts, f) == Did(plan, Len(plan) + 1, acts, f)

LEMMA KindFiles ==
    /\ ServerFile("codex") = "config" /\ RulesFile("codex") = "config" /\ FilesOf("codex") = {"config"}
    /\ ServerFile("opencode") = "config" /\ RulesFile("opencode") = "config" /\ FilesOf("opencode") = {"config"}
    /\ ServerFile("claude") = "mcp" /\ RulesFile("claude") = "settings" /\ FilesOf("claude") = {"mcp", "settings"}
BY DEF FilesOf, ServerFile, RulesFile

LEMMA Halves ==
    ASSUME NEW S, NEW s \in Seq(S), NEW t \in Seq(S), Len(s) = 2, Len(t) = 3
    PROVE  /\ s \o t \in Seq(S) /\ Len(s \o t) = 5
           /\ (s \o t)[1] = s[1] /\ (s \o t)[2] = s[2]
           /\ (s \o t)[3] = t[1] /\ (s \o t)[4] = t[2] /\ (s \o t)[5] = t[3]
<1>1. /\ s \o t \in Seq(S)
         /\ Len(s \o t) = Len(s) + Len(t)
         /\ \A i \in 1 .. Len(s) + Len(t) : (s \o t)[i] =
                     IF i <= Len(s) THEN s[i] ELSE t[i - Len(s)]
  BY ConcatProperties
<1> QED
  BY <1>1

LEMMA TwoSteps ==
    ASSUME NEW S, NEW first \in S, NEW second \in S
    PROVE  <<first, second>> \in Seq(S)
OBVIOUS

LEMMA ThreeSteps ==
    ASSUME NEW S, NEW first \in S, NEW second \in S, NEW third \in S
    PROVE  <<first, second, third>> \in Seq(S)
OBVIOUS

LEMMA FiveSteps ==
    ASSUME NEW S, NEW first \in S, NEW second \in S, NEW third \in S, NEW fourth \in S, NEW fifth \in S
    PROVE  <<first, second, third, fourth, fifth>> \in Seq(S)
OBVIOUS

LEMMA SixSteps ==
    ASSUME NEW S, NEW first \in S, NEW second \in S, NEW third \in S, NEW fourth \in S, NEW fifth \in S, NEW sixth \in S
    PROVE  <<first, second, third, fourth, fifth, sixth>> \in Seq(S)
OBVIOUS

LEMMA PlanCodex ==
    ASSUME NEW plan, plan = ConfigureCodex({"config"})
    PROVE  Orderly(plan, "codex", {}) /\ Has(plan, {"add", "insert"}, "config") /\ Has(plan, Cleaning, "config")
<1>1. PICK first \in StepsOf("codex") : first = [do |-> "backup", file |-> "config", undo |-> {}]
  BY KindFiles DEF StepsOf, Acts
<1>2. PICK second \in StepsOf("codex") : second = [do |-> "remove", file |-> "config", undo |-> {"config"}]
  BY KindFiles DEF StepsOf, Acts
<1>3. PICK third \in StepsOf("codex") : third = [do |-> "add", file |-> "config", undo |-> {"config"}]
  BY KindFiles DEF StepsOf, Acts
<1>4. PICK fourth \in StepsOf("codex") : fourth = [do |-> "read", file |-> "config", undo |-> {"config"}]
  BY KindFiles DEF StepsOf, Acts
<1>5. PICK fifth \in StepsOf("codex") : fifth = [do |-> "rules", file |-> "config", undo |-> {"config"}]
  BY KindFiles DEF StepsOf, Acts
<1>6. PICK sixth \in StepsOf("codex") : sixth = [do |-> "get", file |-> "config", undo |-> {"config"}]
  BY KindFiles DEF StepsOf, Acts
<1>7. plan = <<first, second, third, fourth, fifth, sixth>>
  BY <1>1, <1>2, <1>3, <1>4, <1>5, <1>6 DEF ConfigureCodex, BackUp, Does
<1>8. plan \in Seq(StepsOf("codex")) /\ Len(plan) = 6 /\ DOMAIN plan = 1 .. 6
  <2>1. <<first, second, third, fourth, fifth, sixth>> \in Seq(StepsOf("codex"))
    BY SixSteps
  <2>2. Len(plan) = 6 /\ DOMAIN plan = 1 .. 6
    BY <1>7
  <2> QED
    BY <1>7, <2>1, <2>2
<1>9. plan[1].do = "backup" /\ plan[1].file = "config" /\ plan[1].undo = {}
  <2>1. plan[1] = first
    BY <1>7
  <2> QED
    BY <1>1, <2>1
<1>10. plan[2].do = "remove" /\ plan[2].file = "config" /\ plan[2].undo = {"config"}
  <2>1. plan[2] = second
    BY <1>7
  <2> QED
    BY <1>2, <2>1
<1>11. plan[3].do = "add" /\ plan[3].file = "config" /\ plan[3].undo = {"config"}
  <2>1. plan[3] = third
    BY <1>7
  <2> QED
    BY <1>3, <2>1
<1>12. plan[4].do = "read" /\ plan[4].file = "config" /\ plan[4].undo = {"config"}
  <2>1. plan[4] = fourth
    BY <1>7
  <2> QED
    BY <1>4, <2>1
<1>13. plan[5].do = "rules" /\ plan[5].file = "config" /\ plan[5].undo = {"config"}
  <2>1. plan[5] = fifth
    BY <1>7
  <2> QED
    BY <1>5, <2>1
<1>14. plan[6].do = "get" /\ plan[6].file = "config" /\ plan[6].undo = {"config"}
  <2>1. plan[6] = sixth
    BY <1>7
  <2> QED
    BY <1>6, <2>1
<1>15. Orderly(plan, "codex", {})
  <2>1. InOrder(plan, "codex", {}, 1)
    BY <1>8, <1>9, <1>10, <1>11, <1>12, <1>13, <1>14, KindFiles DEF InOrder, Did, Changing, Cleaning
  <2>2. InOrder(plan, "codex", {}, 2)
    BY <1>8, <1>9, <1>10, <1>11, <1>12, <1>13, <1>14, KindFiles DEF InOrder, Did, Changing, Cleaning
  <2>3. InOrder(plan, "codex", {}, 3)
    BY <1>8, <1>9, <1>10, <1>11, <1>12, <1>13, <1>14, KindFiles DEF InOrder, Did, Changing, Cleaning
  <2>4. InOrder(plan, "codex", {}, 4)
    BY <1>8, <1>9, <1>10, <1>11, <1>12, <1>13, <1>14, KindFiles DEF InOrder, Did, Changing, Cleaning
  <2>5. InOrder(plan, "codex", {}, 5)
    BY <1>8, <1>9, <1>10, <1>11, <1>12, <1>13, <1>14, KindFiles DEF InOrder, Did, Changing, Cleaning
  <2>6. InOrder(plan, "codex", {}, 6)
    BY <1>8, <1>9, <1>10, <1>11, <1>12, <1>13, <1>14, KindFiles DEF InOrder, Did, Changing, Cleaning
  <2> QED
    BY <1>8, <2>1, <2>2, <2>3, <2>4, <2>5, <2>6 DEF Orderly
<1>16. Has(plan, {"add", "insert"}, "config") /\ Has(plan, Cleaning, "config")
  BY <1>8, <1>9, <1>10, <1>11, <1>12, <1>13, <1>14 DEF Has, Did, Cleaning
<1> QED
  BY <1>15, <1>16

LEMMA PlanClaude ==
    ASSUME NEW plan, plan = ConfigureClaude({"mcp", "settings"})
    PROVE  Orderly(plan, "claude", {}) /\ Has(plan, {"add", "insert"}, "mcp") /\ Has(plan, Cleaning, "settings")
<1>1. PICK first \in StepsOf("claude") : first = [do |-> "backup", file |-> "mcp", undo |-> {}]
  BY KindFiles DEF StepsOf, Acts
<1>2. PICK second \in StepsOf("claude") : second = [do |-> "backup", file |-> "settings", undo |-> {}]
  BY KindFiles DEF StepsOf, Acts
<1>3. PICK third \in StepsOf("claude") : third = [do |-> "remove", file |-> "mcp", undo |-> {"mcp", "settings"}]
  BY KindFiles DEF StepsOf, Acts
<1>4. PICK fourth \in StepsOf("claude") : fourth = [do |-> "add", file |-> "mcp", undo |-> {"mcp", "settings"}]
  BY KindFiles DEF StepsOf, Acts
<1>5. PICK fifth \in StepsOf("claude") : fifth = [do |-> "read", file |-> "settings", undo |-> {"mcp", "settings"}]
  BY KindFiles DEF StepsOf, Acts
<1>6. PICK sixth \in StepsOf("claude") : sixth = [do |-> "rules", file |-> "settings", undo |-> {"mcp", "settings"}]
  BY KindFiles DEF StepsOf, Acts
<1>7. plan = <<first, second, third, fourth, fifth, sixth>>
  BY <1>1, <1>2, <1>3, <1>4, <1>5, <1>6 DEF ConfigureClaude, BackUp, Does
<1>8. plan \in Seq(StepsOf("claude")) /\ Len(plan) = 6 /\ DOMAIN plan = 1 .. 6
  <2>1. <<first, second, third, fourth, fifth, sixth>> \in Seq(StepsOf("claude"))
    BY SixSteps
  <2>2. Len(plan) = 6 /\ DOMAIN plan = 1 .. 6
    BY <1>7
  <2> QED
    BY <1>7, <2>1, <2>2
<1>9. plan[1].do = "backup" /\ plan[1].file = "mcp" /\ plan[1].undo = {}
  <2>1. plan[1] = first
    BY <1>7
  <2> QED
    BY <1>1, <2>1
<1>10. plan[2].do = "backup" /\ plan[2].file = "settings" /\ plan[2].undo = {}
  <2>1. plan[2] = second
    BY <1>7
  <2> QED
    BY <1>2, <2>1
<1>11. plan[3].do = "remove" /\ plan[3].file = "mcp" /\ plan[3].undo = {"mcp", "settings"}
  <2>1. plan[3] = third
    BY <1>7
  <2> QED
    BY <1>3, <2>1
<1>12. plan[4].do = "add" /\ plan[4].file = "mcp" /\ plan[4].undo = {"mcp", "settings"}
  <2>1. plan[4] = fourth
    BY <1>7
  <2> QED
    BY <1>4, <2>1
<1>13. plan[5].do = "read" /\ plan[5].file = "settings" /\ plan[5].undo = {"mcp", "settings"}
  <2>1. plan[5] = fifth
    BY <1>7
  <2> QED
    BY <1>5, <2>1
<1>14. plan[6].do = "rules" /\ plan[6].file = "settings" /\ plan[6].undo = {"mcp", "settings"}
  <2>1. plan[6] = sixth
    BY <1>7
  <2> QED
    BY <1>6, <2>1
<1>15. Orderly(plan, "claude", {})
  <2>1. InOrder(plan, "claude", {}, 1)
    BY <1>8, <1>9, <1>10, <1>11, <1>12, <1>13, <1>14, KindFiles DEF InOrder, Did, Changing, Cleaning
  <2>2. InOrder(plan, "claude", {}, 2)
    BY <1>8, <1>9, <1>10, <1>11, <1>12, <1>13, <1>14, KindFiles DEF InOrder, Did, Changing, Cleaning
  <2>3. InOrder(plan, "claude", {}, 3)
    BY <1>8, <1>9, <1>10, <1>11, <1>12, <1>13, <1>14, KindFiles DEF InOrder, Did, Changing, Cleaning
  <2>4. InOrder(plan, "claude", {}, 4)
    BY <1>8, <1>9, <1>10, <1>11, <1>12, <1>13, <1>14, KindFiles DEF InOrder, Did, Changing, Cleaning
  <2>5. InOrder(plan, "claude", {}, 5)
    BY <1>8, <1>9, <1>10, <1>11, <1>12, <1>13, <1>14, KindFiles DEF InOrder, Did, Changing, Cleaning
  <2>6. InOrder(plan, "claude", {}, 6)
    BY <1>8, <1>9, <1>10, <1>11, <1>12, <1>13, <1>14, KindFiles DEF InOrder, Did, Changing, Cleaning
  <2> QED
    BY <1>8, <2>1, <2>2, <2>3, <2>4, <2>5, <2>6 DEF Orderly
<1>16. Has(plan, {"add", "insert"}, "mcp") /\ Has(plan, Cleaning, "settings")
  BY <1>8, <1>9, <1>10, <1>11, <1>12, <1>13, <1>14 DEF Has, Did, Cleaning
<1> QED
  BY <1>15, <1>16

LEMMA PlanOpencode ==
    ASSUME NEW plan, plan = ConfigureOpencode({"config"})
    PROVE  Orderly(plan, "opencode", {}) /\ Has(plan, {"add", "insert"}, "config") /\ Has(plan, Cleaning, "config")
<1>1. PICK first \in StepsOf("opencode") : first = [do |-> "read", file |-> "config", undo |-> {}]
  BY KindFiles DEF StepsOf, Acts
<1>2. PICK second \in StepsOf("opencode") : second = [do |-> "backup", file |-> "config", undo |-> {}]
  BY KindFiles DEF StepsOf, Acts
<1>3. PICK third \in StepsOf("opencode") : third = [do |-> "insert", file |-> "config", undo |-> {"config"}]
  BY KindFiles DEF StepsOf, Acts
<1>7. plan = <<first, second, third>>
  BY <1>1, <1>2, <1>3 DEF ConfigureOpencode, BackUp, Does
<1>8. plan \in Seq(StepsOf("opencode")) /\ Len(plan) = 3 /\ DOMAIN plan = 1 .. 3
  <2>1. ASSUME NEW S, first \in S, second \in S, third \in S
        PROVE  plan \in Seq(S)
    BY <1>7, <2>1, ThreeSteps
  <2>2. Len(plan) = 3 /\ DOMAIN plan = 1 .. 3
    BY <1>7
  <2> QED
    BY <2>1, <2>2
<1>9. plan[1].do = "read" /\ plan[1].file = "config" /\ plan[1].undo = {}
  <2>1. plan[1] = first
    BY <1>7
  <2> QED
    BY <1>1, <2>1
<1>10. plan[2].do = "backup" /\ plan[2].file = "config" /\ plan[2].undo = {}
  <2>1. plan[2] = second
    BY <1>7
  <2> QED
    BY <1>2, <2>1
<1>11. plan[3].do = "insert" /\ plan[3].file = "config" /\ plan[3].undo = {"config"}
  <2>1. plan[3] = third
    BY <1>7
  <2> QED
    BY <1>3, <2>1
<1>15. Orderly(plan, "opencode", {})
  <2>1. InOrder(plan, "opencode", {}, 1)
    BY <1>8, <1>9, <1>10, <1>11, KindFiles DEF InOrder, Did, Changing, Cleaning
  <2>2. InOrder(plan, "opencode", {}, 2)
    BY <1>8, <1>9, <1>10, <1>11, KindFiles DEF InOrder, Did, Changing, Cleaning
  <2>3. InOrder(plan, "opencode", {}, 3)
    BY <1>8, <1>9, <1>10, <1>11, KindFiles DEF InOrder, Did, Changing, Cleaning
  <2> QED
    BY <1>8, <2>1, <2>2, <2>3 DEF Orderly
<1>16. Has(plan, {"add", "insert"}, "config") /\ Has(plan, Cleaning, "config")
  BY <1>8, <1>9, <1>10, <1>11 DEF Has, Did, Cleaning
<1> QED
  BY <1>15, <1>16

LEMMA UnplanCodex ==
    ASSUME NEW plan, plan = UnconfigureCli("config")
    PROVE  Orderly(plan, "codex", {})
<1>1. PICK first \in StepsOf("codex") : first = [do |-> "backup", file |-> "config", undo |-> {}]
  BY KindFiles DEF StepsOf, Acts
<1>2. PICK second \in StepsOf("codex") : second = [do |-> "remove", file |-> "config", undo |-> {"config"}]
  BY KindFiles DEF StepsOf, Acts
<1>7. plan = <<first, second>>
  BY <1>1, <1>2 DEF UnconfigureCli, BackUp, Does
<1>8. plan \in Seq(StepsOf("codex")) /\ Len(plan) = 2 /\ DOMAIN plan = 1 .. 2
  <2>1. ASSUME NEW S, first \in S, second \in S
        PROVE  plan \in Seq(S)
    BY <1>7, <2>1, TwoSteps
  <2>2. Len(plan) = 2 /\ DOMAIN plan = 1 .. 2
    BY <1>7
  <2> QED
    BY <2>1, <2>2
<1>9. plan[1].do = "backup" /\ plan[1].file = "config" /\ plan[1].undo = {}
  <2>1. plan[1] = first
    BY <1>7
  <2> QED
    BY <1>1, <2>1
<1>10. plan[2].do = "remove" /\ plan[2].file = "config" /\ plan[2].undo = {"config"}
  <2>1. plan[2] = second
    BY <1>7
  <2> QED
    BY <1>2, <2>1
<1>15. Orderly(plan, "codex", {})
  <2>1. InOrder(plan, "codex", {}, 1)
    BY <1>8, <1>9, <1>10, KindFiles DEF InOrder, Did, Changing, Cleaning
  <2>2. InOrder(plan, "codex", {}, 2)
    BY <1>8, <1>9, <1>10, KindFiles DEF InOrder, Did, Changing, Cleaning
  <2> QED
    BY <1>8, <2>1, <2>2 DEF Orderly
<1> QED
  BY <1>15

LEMMA UnplanClaude ==
    ASSUME NEW plan, plan = UnconfigureClaude
    PROVE  Orderly(plan, "claude", {"mcp"}) /\ Has(plan, Cleaning, "settings")
<1>1. PICK first \in StepsOf("claude") : first = [do |-> "backup", file |-> "mcp", undo |-> {}]
  BY KindFiles DEF StepsOf, Acts
<1>2. PICK second \in StepsOf("claude") : second = [do |-> "remove", file |-> "mcp", undo |-> {"mcp"}]
  BY KindFiles DEF StepsOf, Acts
<1>3. PICK third \in StepsOf("claude") : third = [do |-> "backup", file |-> "settings", undo |-> {}]
  BY KindFiles DEF StepsOf, Acts
<1>4. PICK fourth \in StepsOf("claude") : fourth = [do |-> "read", file |-> "settings", undo |-> {}]
  BY KindFiles DEF StepsOf, Acts
<1>5. PICK fifth \in StepsOf("claude") : fifth = [do |-> "rules", file |-> "settings", undo |-> {}]
  BY KindFiles DEF StepsOf, Acts
<1>6. PICK server \in Seq(StepsOf("claude")) : server = <<first, second>>
  BY TwoSteps
<1>7. PICK rules \in Seq(StepsOf("claude")) : rules = <<third, fourth, fifth>>
  BY ThreeSteps
<1>8. /\ plan \in Seq(StepsOf("claude")) /\ Len(plan) = 5 /\ DOMAIN plan = 1 .. 5
      /\ plan[1] = first /\ plan[2] = second /\ plan[3] = third /\ plan[4] = fourth /\ plan[5] = fifth
  <2>1. /\ Len(server) = 2 /\ server[1] = first /\ server[2] = second
        /\ Len(rules) = 3 /\ rules[1] = third /\ rules[2] = fourth /\ rules[3] = fifth
    BY <1>6, <1>7
  <2>2. plan = server \o rules
    BY <1>1, <1>2, <1>3, <1>4, <1>5, <1>6, <1>7 DEF UnconfigureClaude, UnconfigureCli, BackUp, Does
  <2>3. /\ server \o rules \in Seq(StepsOf("claude")) /\ Len(server \o rules) = 5
        /\ (server \o rules)[1] = server[1] /\ (server \o rules)[2] = server[2]
        /\ (server \o rules)[3] = rules[1] /\ (server \o rules)[4] = rules[2]
        /\ (server \o rules)[5] = rules[3]
    BY <2>1, Halves
  <2> QED
    BY <2>1, <2>2, <2>3
<1>9. plan[1].do = "backup" /\ plan[1].file = "mcp" /\ plan[1].undo = {}
  BY <1>1, <1>8
<1>10. plan[2].do = "remove" /\ plan[2].file = "mcp" /\ plan[2].undo = {"mcp"}
  BY <1>2, <1>8
<1>11. plan[3].do = "backup" /\ plan[3].file = "settings" /\ plan[3].undo = {}
  BY <1>3, <1>8
<1>12. plan[4].do = "read" /\ plan[4].file = "settings" /\ plan[4].undo = {}
  BY <1>4, <1>8
<1>13. plan[5].do = "rules" /\ plan[5].file = "settings" /\ plan[5].undo = {}
  BY <1>5, <1>8
<1>15. Orderly(plan, "claude", {"mcp"})
  <2>1. InOrder(plan, "claude", {"mcp"}, 1)
    BY <1>8, <1>9, <1>10, <1>11, <1>12, <1>13, KindFiles DEF InOrder, Did, Changing, Cleaning
  <2>2. InOrder(plan, "claude", {"mcp"}, 2)
    BY <1>8, <1>9, <1>10, <1>11, <1>12, <1>13, KindFiles DEF InOrder, Did, Changing, Cleaning
  <2>3. InOrder(plan, "claude", {"mcp"}, 3)
    BY <1>8, <1>9, <1>10, <1>11, <1>12, <1>13, KindFiles DEF InOrder, Did, Changing, Cleaning
  <2>4. InOrder(plan, "claude", {"mcp"}, 4)
    BY <1>8, <1>9, <1>10, <1>11, <1>12, <1>13, KindFiles DEF InOrder, Did, Changing, Cleaning
  <2>5. InOrder(plan, "claude", {"mcp"}, 5)
    BY <1>8, <1>9, <1>10, <1>11, <1>12, <1>13, KindFiles DEF InOrder, Did, Changing, Cleaning
  <2> QED
    BY <1>8, <2>1, <2>2, <2>3, <2>4, <2>5 DEF Orderly
<1>16. Has(plan, Cleaning, "settings")
  BY <1>8, <1>9, <1>10, <1>11, <1>12, <1>13 DEF Has, Did, Cleaning
<1> QED
  BY <1>15, <1>16

LEMMA UnplanOpencode ==
    ASSUME NEW plan, plan = UnconfigureOpencode
    PROVE  Orderly(plan, "opencode", {}) /\ Has(plan, Cleaning, "config")
<1>1. PICK first \in StepsOf("opencode") : first = [do |-> "read", file |-> "config", undo |-> {}]
  BY KindFiles DEF StepsOf, Acts
<1>2. PICK second \in StepsOf("opencode") : second = [do |-> "backup", file |-> "config", undo |-> {}]
  BY KindFiles DEF StepsOf, Acts
<1>3. PICK third \in StepsOf("opencode") : third = [do |-> "delete", file |-> "config", undo |-> {"config"}]
  BY KindFiles DEF StepsOf, Acts
<1>7. plan = <<first, second, third>>
  BY <1>1, <1>2, <1>3 DEF UnconfigureOpencode, BackUp, Does
<1>8. plan \in Seq(StepsOf("opencode")) /\ Len(plan) = 3 /\ DOMAIN plan = 1 .. 3
  <2>1. ASSUME NEW S, first \in S, second \in S, third \in S
        PROVE  plan \in Seq(S)
    BY <1>7, <2>1, ThreeSteps
  <2>2. Len(plan) = 3 /\ DOMAIN plan = 1 .. 3
    BY <1>7
  <2> QED
    BY <2>1, <2>2
<1>9. plan[1].do = "read" /\ plan[1].file = "config" /\ plan[1].undo = {}
  <2>1. plan[1] = first
    BY <1>7
  <2> QED
    BY <1>1, <2>1
<1>10. plan[2].do = "backup" /\ plan[2].file = "config" /\ plan[2].undo = {}
  <2>1. plan[2] = second
    BY <1>7
  <2> QED
    BY <1>2, <2>1
<1>11. plan[3].do = "delete" /\ plan[3].file = "config" /\ plan[3].undo = {"config"}
  <2>1. plan[3] = third
    BY <1>7
  <2> QED
    BY <1>3, <2>1
<1>15. Orderly(plan, "opencode", {})
  <2>1. InOrder(plan, "opencode", {}, 1)
    BY <1>8, <1>9, <1>10, <1>11, KindFiles DEF InOrder, Did, Changing, Cleaning
  <2>2. InOrder(plan, "opencode", {}, 2)
    BY <1>8, <1>9, <1>10, <1>11, KindFiles DEF InOrder, Did, Changing, Cleaning
  <2>3. InOrder(plan, "opencode", {}, 3)
    BY <1>8, <1>9, <1>10, <1>11, KindFiles DEF InOrder, Did, Changing, Cleaning
  <2> QED
    BY <1>8, <2>1, <2>2, <2>3 DEF Orderly
<1>16. Has(plan, Cleaning, "config")
  BY <1>8, <1>9, <1>10, <1>11 DEF Has, Did, Cleaning
<1> QED
  BY <1>15, <1>16

----
(* What a document may become; the server knows its own entry as "ours". *)

Servers == {"none", "old", "odd", "ours"}
Documents == [is : {"document"}, server : Servers, generated : BOOLEAN, own : UserData \union {0}]
AnyContents == {NoFile, Garbage} \union Documents
Own(content) == IF content.is = "document" THEN content.own ELSE 0

\* Two contents that are alike but for what is the user's.
Agree(content, other) ==
    /\ content.is = other.is
    /\ content.is = "document" => content.server = other.server /\ content.generated = other.generated

LEMMA ContentIs ==
    ASSUME NEW c \in AnyContents
    PROVE  /\ c.is \in {"absent", "garbage", "document"}
           /\ c.is = "document" => c \in Documents
           /\ c.is = "absent" <=> c = NoFile
           /\ c.is = "garbage" <=> c = Garbage
BY DEF AnyContents, Documents, NoFile, Garbage

LEMMA DocumentIs ==
    ASSUME NEW c \in Documents
    PROVE  /\ c.is = "document" /\ c # NoFile /\ c # Garbage
           /\ c.server \in Servers /\ c.generated \in BOOLEAN /\ c.own \in UserData \union {0}
           /\ Own(c) = c.own /\ c \in AnyContents
BY DEF Documents, NoFile, Garbage, Own, AnyContents

LEMMA InitialContents == Contents \subseteq AnyContents
<1> SUFFICES ASSUME NEW c \in Contents
             PROVE  c \in AnyContents
  OBVIOUS
<1>1. CASE c \in {NoFile, Garbage}
  BY <1>1 DEF AnyContents
<1>2. CASE c \notin {NoFile, Garbage}
  <2>1. PICK s \in {"none", "old", "odd"}, g \in BOOLEAN, own \in UserData : c = Document(s, g, own)
    BY <1>2 DEF Contents
  <2> QED
    BY <2>1 DEF Document, Documents, AnyContents, Servers
<1> QED
  BY <1>1, <1>2

LEMMA NoFileIs == NoFile \in AnyContents /\ NoFile # Garbage /\ Own(NoFile) = 0 /\ NoFile.is = "absent"
BY DEF AnyContents, NoFile, Garbage, Own

LEMMA WithServerIs ==
    ASSUME NEW c \in AnyContents, c # Garbage
    PROVE  /\ WithServer(c) \in Documents /\ WithServer(c).server = "ours"
           /\ Own(WithServer(c)) = Own(c)
<1>1. CASE c = NoFile
  <2>1. WithServer(c) = [is |-> "document", server |-> "ours", generated |-> FALSE, own |-> 0]
    BY <1>1 DEF WithServer, Document
  <2>2. PICK d \in Documents : d = [is |-> "document", server |-> "ours", generated |-> FALSE, own |-> 0]
    BY DEF Documents, Servers
  <2>3. d.server = "ours" /\ d.own = 0
    BY <2>2
  <2> QED
    BY <1>1, <2>1, <2>2, <2>3, DocumentIs, NoFileIs
<1>2. CASE c # NoFile
  <2>1. c \in Documents
    BY <1>2 DEF AnyContents
  <2>2. PICK d \in Documents : d = [c EXCEPT !.server = "ours"]
    BY <2>1 DEF Documents, Servers
  <2>3. d.server = "ours" /\ d.own = c.own
    BY <2>1, <2>2 DEF Documents
  <2>4. WithServer(c) = d
    BY <1>2, <2>2 DEF WithServer
  <2> QED
    BY <2>1, <2>2, <2>3, <2>4, DocumentIs
<1> QED
  BY <1>1, <1>2

LEMMA WithoutServerIs ==
    ASSUME NEW c \in AnyContents
    PROVE  /\ WithoutServer(c) \in AnyContents /\ WithoutServer(c).is = c.is
           /\ Own(WithoutServer(c)) = Own(c)
           /\ WithoutServer(WithoutServer(c)) = WithoutServer(c)
<1>1. CASE c.is = "document" /\ c.server # "odd"
  <2>1. c \in Documents
    BY <1>1, ContentIs
  <2>2. PICK d \in Documents : d = [c EXCEPT !.server = "none"]
    BY <2>1 DEF Documents, Servers
  <2>3. d.server = "none" /\ d.own = c.own /\ d.is = "document" /\ [d EXCEPT !.server = "none"] = d
    BY <2>1, <2>2 DEF Documents
  <2>4. WithoutServer(c) = d
    BY <1>1, <2>2 DEF WithoutServer
  <2>5. WithoutServer(d) = d
    BY <2>3 DEF WithoutServer
  <2>6. d \in AnyContents /\ Own(d) = d.own /\ Own(c) = c.own
    BY <2>1, DocumentIs
  <2> QED
    BY <1>1, <2>3, <2>4, <2>5, <2>6
<1>2. CASE ~(c.is = "document" /\ c.server # "odd")
  <2>1. WithoutServer(c) = c
    BY <1>2 DEF WithoutServer
  <2> QED
    BY <2>1
<1> QED
  BY <1>1, <1>2

LEMMA WithoutRulesIs ==
    ASSUME NEW c \in AnyContents
    PROVE  /\ WithoutRules(c) \in AnyContents /\ WithoutRules(c).is = c.is
           /\ Own(WithoutRules(c)) = Own(c)
           /\ c.is = "document" => ~WithoutRules(c).generated /\ WithoutRules(c).server = c.server
<1>1. CASE c.is = "document"
  <2>1. c \in Documents
    BY <1>1, ContentIs
  <2>2. PICK d \in Documents : d = [c EXCEPT !.generated = FALSE]
    BY <2>1 DEF Documents
  <2>3. d.server = c.server /\ d.own = c.own /\ d.is = "document" /\ ~d.generated
    BY <2>1, <2>2 DEF Documents
  <2>4. WithoutRules(c) = d
    BY <1>1, <2>2 DEF WithoutRules
  <2> QED
    BY <1>1, <2>1, <2>2, <2>3, <2>4, DocumentIs
<1>2. CASE c.is # "document"
  <2>1. WithoutRules(c) = c
    BY <1>2 DEF WithoutRules
  <2> QED
    BY <1>2, <2>1
<1> QED
  BY <1>1, <1>2

----
(* What one step does to its file c, its backup b and the document r that was read. *)

Goes(act, c0, b0, r0, c, b, r) ==
    /\ IF act = "backup" THEN b = c0 ELSE b = b0
    /\ IF act = "read" THEN r = c0 ELSE r = r0
    /\ act \notin Changing => c = c0
    /\ act = "remove" => c \in {c0, WithoutServer(c0)}
    /\ act = "add" => c0 # Garbage /\ c = WithServer(c0)
    /\ act = "rules" => c = WithoutRules(r0) \/ (c = c0 /\ (r0.is = "document" => ~r0.generated))
    /\ act = "insert" => c = WithoutRules(WithServer(r0))
    /\ act = "delete" => c = WithoutRules(WithoutServer(r0))

\* What holds of a file once the steps in acts are done to it.
Facts(acts, before, quiet, c, b, r) ==
    /\ "backup" \in acts /\ quiet => b = before
    /\ acts \intersect Changing = {} => Agree(c, before) /\ (quiet => c = before)
    /\ acts \intersect Changing \subseteq {"remove"} /\ quiet => c \in {before, WithoutServer(before)}
    /\ acts \intersect {"add", "insert"} # {} => c.is = "document" /\ c.server = "ours"
    /\ "read" \in acts /\ acts \intersect Cleaning = {} => Agree(r, c) /\ (quiet => r = c)
    /\ acts \intersect Cleaning # {} => (c.is = "document" => ~c.generated)
    /\ quiet => Own(c) = Own(before)

InTurn(act, acts) ==
    /\ act \in Changing => "backup" \in acts /\ acts \intersect Cleaning = {}
    /\ act = "backup" => acts \intersect Changing = {}
    /\ act \in {"remove", "add"} => "read" \notin acts
    /\ act = "remove" => acts \intersect {"add", "insert"} = {}
    /\ act \in Cleaning => "read" \in acts
    /\ act = "delete" => acts \intersect {"add", "insert"} = {}

LEMMA FactsFollow ==
    ASSUME NEW act \in Acts, NEW acts, InTurn(act, acts), NEW quiet \in BOOLEAN,
           NEW before \in AnyContents, NEW c0 \in AnyContents, NEW b0 \in AnyContents,
           NEW r0 \in AnyContents, r0 # Garbage, Facts(acts, before, quiet, c0, b0, r0),
           NEW c \in AnyContents, NEW b \in AnyContents, NEW r \in AnyContents,
           Goes(act, c0, b0, r0, c, b, r)
    PROVE  Facts(acts \union {act}, before, quiet, c, b, r)
<1> USE DEF Acts
<1>1. CASE act \notin Changing
  <2>1. /\ c = c0
        /\ (acts \union {act}) \intersect Changing = acts \intersect Changing
        /\ (acts \union {act}) \intersect {"add", "insert"} = acts \intersect {"add", "insert"}
        /\ (acts \union {act}) \intersect Cleaning = acts \intersect Cleaning
    BY <1>1 DEF Goes, Changing, Cleaning
  <2>2. "backup" \in acts \union {act} /\ quiet => b = before
    BY <2>1 DEF Facts, Goes, InTurn
  <2>3. "read" \in acts \union {act} /\ acts \intersect Cleaning = {} => Agree(r, c) /\ (quiet => r = c)
    BY <2>1 DEF Facts, Goes, InTurn, Agree
  <2> QED
    BY <2>1, <2>2, <2>3 DEF Facts
<1>2. CASE act = "remove"
  <2>1. /\ b = b0 /\ r = r0 /\ c \in {c0, WithoutServer(c0)}
        /\ "read" \notin acts \union {act} /\ (acts \union {act}) \intersect {"add", "insert"} = {}
        /\ (acts \union {act}) \intersect Cleaning = {} /\ "backup" \in acts
        /\ (acts \union {act}) \intersect Changing # {}
        /\ (acts \union {act}) \intersect Changing \subseteq {"remove"} =>
              acts \intersect Changing \subseteq {"remove"}
    BY <1>2 DEF Goes, InTurn, Changing, Cleaning
  <2>2. quiet => Own(c) = Own(before)
    BY <2>1, WithoutServerIs DEF Facts
  <2>3. (acts \union {act}) \intersect Changing \subseteq {"remove"} /\ quiet => c \in {before, WithoutServer(before)}
    BY <2>1, WithoutServerIs DEF Facts
  <2> QED
    BY <2>1, <2>2, <2>3 DEF Facts
<1>3. CASE act = "add"
  <2>1. /\ b = b0 /\ r = r0 /\ c = WithServer(c0) /\ c0 # Garbage
        /\ "read" \notin acts \union {act}
        /\ (acts \union {act}) \intersect Cleaning = {} /\ "backup" \in acts
        /\ (acts \union {act}) \intersect Changing # {}
        /\ ~((acts \union {act}) \intersect Changing \subseteq {"remove"})
    BY <1>3 DEF Goes, InTurn, Changing, Cleaning
  <2>2. Own(c) = Own(c0) /\ c.is = "document" /\ c.server = "ours"
    BY <2>1, WithServerIs, DocumentIs
  <2> QED
    BY <2>1, <2>2 DEF Facts
<1>4. ASSUME act \in Cleaning
      PROVE  Facts(acts \union {act}, before, quiet, c, b, r)
  <2>1. /\ b = b0 /\ r = r0 /\ "read" \in acts /\ acts \intersect Cleaning = {} /\ "backup" \in acts
        /\ (acts \union {act}) \intersect Cleaning # {}
        /\ (acts \union {act}) \intersect Changing # {}
        /\ ~((acts \union {act}) \intersect Changing \subseteq {"remove"})
    BY <1>4 DEF Goes, InTurn, Changing, Cleaning
  <2>2. Agree(r0, c0) /\ (quiet => r0 = c0) /\ (quiet => Own(c0) = Own(before)) /\ (quiet => b = before)
    BY <2>1 DEF Facts
  <2>3. CASE act = "rules"
    <3>1. c = WithoutRules(r0) \/ (c = c0 /\ (r0.is = "document" => ~r0.generated))
      BY <2>3 DEF Goes
    <3>2. (acts \union {act}) \intersect {"add", "insert"} = acts \intersect {"add", "insert"}
      BY <2>3
    <3>3. c.is = "document" => ~c.generated
      BY <2>2, <3>1, WithoutRulesIs DEF Agree
    <3>4. acts \intersect {"add", "insert"} # {} => c.is = "document" /\ c.server = "ours"
      <4>1. acts \intersect {"add", "insert"} # {} => c0.is = "document" /\ c0.server = "ours"
        BY DEF Facts
      <4> QED
        BY <4>1, <2>2, <3>1, WithoutRulesIs DEF Agree
    <3>5. quiet => Own(c) = Own(before)
      BY <2>2, <3>1, WithoutRulesIs
    <3> QED
      BY <2>1, <2>2, <3>2, <3>3, <3>4, <3>5 DEF Facts
  <2>4. CASE act = "insert"
    <3>1. PICK d \in Documents : d = WithServer(r0) /\ d.server = "ours" /\ Own(d) = Own(r0) /\ d.is = "document"
      BY WithServerIs, DocumentIs
    <3>2. c = WithoutRules(d)
      BY <2>4, <3>1 DEF Goes
    <3>3. /\ c.is = "document" /\ c.server = "ours" /\ ~c.generated /\ Own(c) = Own(r0)
      BY <3>1, <3>2, WithoutRulesIs, DocumentIs
    <3> QED
      BY <2>1, <2>2, <3>3 DEF Facts
  <2>5. CASE act = "delete"
    <3>1. PICK d \in AnyContents : d = WithoutServer(r0) /\ Own(d) = Own(r0)
      BY WithoutServerIs
    <3>2. c = WithoutRules(d)
      BY <2>5, <3>1 DEF Goes
    <3>3. (c.is = "document" => ~c.generated) /\ Own(c) = Own(r0)
      BY <3>1, <3>2, WithoutRulesIs
    <3>4. (acts \union {act}) \intersect {"add", "insert"} = {}
      BY <2>5 DEF InTurn
    <3> QED
      BY <2>1, <2>2, <3>3, <3>4 DEF Facts
  <2> QED
    BY <1>4, <2>3, <2>4, <2>5 DEF Cleaning
<1> QED
  BY <1>1, <1>2, <1>3, <1>4 DEF Changing, Cleaning

\* The client stores something of the user.
LEMMA FactsLoud ==
    ASSUME NEW acts, NEW before, NEW quiet, NEW c, NEW b, NEW r, Facts(acts, before, quiet, c, b, r),
           NEW d, Agree(d, c)
    PROVE  Facts(acts, before, FALSE, d, b, r)
BY DEF Facts, Agree

----
(* A run. *)

RunIn(run, kind) ==
    run \in [is : {"running", "failing", "failed", "done", "killed"}, kind : {kind},
             files : [FilesOf(kind) -> AnyContents], backups : [FilesOf(kind) -> AnyContents],
             read : AnyContents \ {Garbage}, todo : Seq(StepsOf(kind)),
             undo : SUBSET FilesOf(kind), unrestored : SUBSET FilesOf(kind), quiet : BOOLEAN]

LEMMA RunFields ==
    ASSUME NEW kind, NEW run, RunIn(run, kind)
    PROVE  /\ run.kind = kind /\ run.files \in [FilesOf(kind) -> AnyContents]
           /\ run.backups \in [FilesOf(kind) -> AnyContents] /\ run.read \in AnyContents \ {Garbage}
           /\ run.todo \in Seq(StepsOf(kind)) /\ run.undo \subseteq FilesOf(kind)
           /\ run.unrestored \subseteq FilesOf(kind) /\ run.quiet \in BOOLEAN
           /\ DOMAIN run.files = FilesOf(kind)
BY DEF RunIn

\* The next step of a run, if it has one.
HasStep(run, kind) ==
    Tail(run.todo) \in Seq(StepsOf(kind)) /\ Head(run.todo).undo \subseteq FilesOf(kind)

LEMMA Progress ==
    ASSUME NEW kind, NEW run, RunIn(run, kind), HasStep(run, kind)
    PROVE  RunIn(Done(run), kind) /\ RunIn(StepFails(run), kind)
<1>1. PICK todo \in Seq(StepsOf(kind)) : todo = Tail(run.todo)
  BY DEF HasStep
<1>2. PICK undo \in SUBSET FilesOf(kind) : undo = Head(run.todo).undo
  BY DEF HasStep
<1>3. Done(run) = [run EXCEPT !.todo = todo]
  BY <1>1 DEF Done, RunIn
<1>4. StepFails(run) = [run EXCEPT !.is = "failing", !.undo = undo]
  BY <1>2 DEF StepFails
<1> QED
  BY <1>3, <1>4 DEF RunIn

\* A run goes on with another file, backup and document, or fails with another file.
GoesOn(run, next, f) ==
    /\ RunIn(next, run.kind)
    /\ \A g \in FilesOf(run.kind) \ {f} : next.files[g] = run.files[g] /\ next.backups[g] = run.backups[g]
    /\ next.is = run.is /\ next.kind = run.kind /\ next.todo = Tail(run.todo) /\ next.undo = run.undo
    /\ next.unrestored = run.unrestored /\ next.quiet = run.quiet

Breaks(run, next, f) ==
    /\ RunIn(next, run.kind)
    /\ next.backups = run.backups /\ next.read = run.read
    /\ \A g \in FilesOf(run.kind) \ {f} : next.files[g] = run.files[g]
    /\ next.is = "failing" /\ next.kind = run.kind /\ next.todo = run.todo
    /\ next.undo = Head(run.todo).undo
    /\ next.unrestored = run.unrestored /\ next.quiet = run.quiet

\* After a write, and after nothing.
LEMMA WroteEffect ==
    ASSUME NEW kind, NEW run, RunIn(run, kind), HasStep(run, kind), NEW f \in FilesOf(kind),
           Head(run.todo).file = f, NEW c \in AnyContents
    PROVE  /\ GoesOn(run, Done(Wrote(run, c)), f)
           /\ Done(Wrote(run, c)).files[f] = c /\ Done(Wrote(run, c)).backups[f] = run.backups[f]
           /\ Done(Wrote(run, c)).read = run.read
           /\ Breaks(run, StepFails(Wrote(run, c)), f)
           /\ StepFails(Wrote(run, c)).files[f] = c
<1>1. PICK step : step = Head(run.todo)
  OBVIOUS
<1>2. Wrote(run, c) = [run EXCEPT !.files = [run.files EXCEPT ![f] = c]]
  BY DEF Wrote, RunIn
<1>3. PICK files \in [FilesOf(kind) -> AnyContents] : files = [run.files EXCEPT ![f] = c]
  BY RunFields
<1>4. files[f] = c /\ \A g \in FilesOf(kind) \ {f} : files[g] = run.files[g]
  BY <1>3, RunFields
<1>5. PICK w : w = [run EXCEPT !.files = files]
  OBVIOUS
<1>6. Wrote(run, c) = w
  BY <1>2, <1>3, <1>5
<1>7. RunIn(w, kind) /\ w.files = files /\ w.backups = run.backups /\ w.read = run.read /\ w.is = run.is
      /\ w.kind = run.kind /\ w.todo = run.todo /\ w.undo = run.undo /\ w.unrestored = run.unrestored
      /\ w.quiet = run.quiet
  BY <1>5 DEF RunIn
<1>8. PICK next : next = Done(w)
  OBVIOUS
<1>9. /\ next.files = files /\ next.backups = run.backups /\ next.read = run.read /\ next.is = run.is
      /\ next.kind = run.kind /\ next.todo = Tail(run.todo) /\ next.undo = run.undo
      /\ next.unrestored = run.unrestored /\ next.quiet = run.quiet
  BY <1>7, <1>8 DEF Done, RunIn
<1>10. PICK broken : broken = StepFails(w)
  OBVIOUS
<1>11. /\ broken.files = files /\ broken.backups = run.backups /\ broken.read = run.read
       /\ broken.is = "failing" /\ broken.kind = run.kind /\ broken.todo = run.todo
       /\ broken.undo = step.undo /\ broken.unrestored = run.unrestored /\ broken.quiet = run.quiet
  BY <1>1, <1>7, <1>10 DEF StepFails, RunIn
<1>14. RunIn(next, kind) /\ RunIn(broken, kind) /\ run.kind = kind
  <2>1. HasStep(w, kind)
    BY <1>7 DEF HasStep
  <2> QED
    BY <1>7, <1>8, <1>10, <2>1, Progress, RunFields
<1>12. GoesOn(run, next, f)
  BY <1>4, <1>9, <1>14 DEF GoesOn
<1>13. Breaks(run, broken, f)
  BY <1>1, <1>4, <1>11, <1>14 DEF Breaks
<1> QED
  BY <1>4, <1>6, <1>8, <1>9, <1>10, <1>11, <1>12, <1>13

LEMMA NothingEffect ==
    ASSUME NEW kind, NEW run, RunIn(run, kind), HasStep(run, kind), NEW f \in FilesOf(kind)
    PROVE  /\ GoesOn(run, Done(run), f)
           /\ Done(run).files[f] = run.files[f] /\ Done(run).backups[f] = run.backups[f]
           /\ Done(run).read = run.read
           /\ Breaks(run, StepFails(run), f) /\ StepFails(run).files[f] = run.files[f]
<1>1. PICK next : next = Done(run)
  OBVIOUS
<1>2. /\ next.files = run.files /\ next.backups = run.backups /\ next.read = run.read /\ next.is = run.is
      /\ next.kind = run.kind /\ next.todo = Tail(run.todo) /\ next.undo = run.undo
      /\ next.unrestored = run.unrestored /\ next.quiet = run.quiet
  BY <1>1 DEF Done, RunIn
<1>3. PICK broken : broken = StepFails(run)
  OBVIOUS
<1>4. PICK step : step = Head(run.todo)
  OBVIOUS
<1>5. /\ broken.files = run.files /\ broken.backups = run.backups /\ broken.read = run.read
      /\ broken.is = "failing" /\ broken.kind = run.kind /\ broken.todo = run.todo
      /\ broken.undo = step.undo /\ broken.unrestored = run.unrestored /\ broken.quiet = run.quiet
  BY <1>3, <1>4 DEF StepFails, RunIn
<1>8. RunIn(next, kind) /\ RunIn(broken, kind) /\ run.kind = kind
  BY <1>1, <1>3, Progress, RunFields
<1>6. GoesOn(run, next, f)
  BY <1>2, <1>8 DEF GoesOn
<1>7. Breaks(run, broken, f)
  BY <1>4, <1>5, <1>8 DEF Breaks
<1> QED
  BY <1>1, <1>2, <1>3, <1>5, <1>6, <1>7

BackedUp(run, f) == [run EXCEPT !.backups[f] = run.files[f]]

LEMMA BackupEffect ==
    ASSUME NEW kind, NEW run, RunIn(run, kind), HasStep(run, kind), NEW f \in FilesOf(kind)
    PROVE  /\ GoesOn(run, Done(BackedUp(run, f)), f)
           /\ Done(BackedUp(run, f)).files[f] = run.files[f]
           /\ Done(BackedUp(run, f)).backups[f] = run.files[f]
           /\ Done(BackedUp(run, f)).read = run.read
<1>9. PICK w : w = BackedUp(run, f)
  OBVIOUS
<1>10. PICK next : next = Done(w)
  OBVIOUS
<1>0. PICK c \in AnyContents : c = run.files[f]
  BY RunFields
<1>1. PICK backups \in [FilesOf(kind) -> AnyContents] : backups = [run.backups EXCEPT ![f] = c]
  BY RunFields
<1>2. backups[f] = c /\ \A g \in FilesOf(kind) \ {f} : backups[g] = run.backups[g]
  BY <1>1, RunFields
<1>3. w = [run EXCEPT !.backups = backups]
  BY <1>0, <1>1, <1>9 DEF RunIn, BackedUp
<1>4. next = Done(w)
  BY <1>10
<1>5. /\ w.files = run.files /\ w.backups = backups /\ w.read = run.read /\ w.is = run.is
      /\ w.kind = run.kind /\ w.todo = run.todo /\ w.undo = run.undo /\ w.unrestored = run.unrestored
      /\ w.quiet = run.quiet /\ RunIn(w, kind)
  BY <1>3 DEF RunIn
<1>6. /\ next.files = run.files /\ next.backups = backups /\ next.read = run.read /\ next.is = run.is
      /\ next.kind = run.kind /\ next.todo = Tail(run.todo) /\ next.undo = run.undo
      /\ next.unrestored = run.unrestored /\ next.quiet = run.quiet
  BY <1>4, <1>5 DEF Done, RunIn
<1>8. RunIn(next, kind) /\ run.kind = kind
  <2>1. HasStep(w, kind)
    BY <1>5 DEF HasStep
  <2> QED
    BY <1>4, <1>5, <2>1, Progress, RunFields
<1>7. GoesOn(run, next, f)
  BY <1>2, <1>6, <1>8 DEF GoesOn
<1> QED
  BY <1>0, <1>2, <1>6, <1>7, <1>9, <1>10

LEMMA ReadEffect ==
    ASSUME NEW kind, NEW run, RunIn(run, kind), HasStep(run, kind), NEW f \in FilesOf(kind),
           NEW r \in AnyContents \ {Garbage}, NEW next, next = Done([run EXCEPT !.read = r])
    PROVE  /\ GoesOn(run, next, f) /\ next.files[f] = run.files[f]
           /\ next.backups[f] = run.backups[f] /\ next.read = r
<1>3. PICK w : w = [run EXCEPT !.read = r]
  OBVIOUS
<1>5. /\ w.files = run.files /\ w.backups = run.backups /\ w.read = r /\ w.is = run.is
      /\ w.kind = run.kind /\ w.todo = run.todo /\ w.undo = run.undo /\ w.unrestored = run.unrestored
      /\ w.quiet = run.quiet /\ RunIn(w, kind)
  BY <1>3 DEF RunIn
<1>6. /\ next.files = run.files /\ next.backups = run.backups /\ next.read = r /\ next.is = run.is
      /\ next.kind = run.kind /\ next.todo = Tail(run.todo) /\ next.undo = run.undo
      /\ next.unrestored = run.unrestored /\ next.quiet = run.quiet
  BY <1>3, <1>5 DEF Done, RunIn
<1>8. RunIn(next, kind) /\ run.kind = kind
  <2>1. HasStep(w, kind)
    BY <1>5 DEF HasStep
  <2> QED
    BY <1>3, <1>5, <2>1, Progress, RunFields
<1>7. GoesOn(run, next, f)
  BY <1>6, <1>8 DEF GoesOn
<1> QED
  BY <1>6, <1>7

\* Every step is one of these.
LEMMA StepEffect ==
    ASSUME NEW kind, NEW run, RunIn(run, kind), HasStep(run, kind), NEW step \in StepsOf(kind), step = Head(run.todo),
           NEW f, f = step.file, NEW next \in After(run)
    PROVE  \/ /\ GoesOn(run, next, f)
              /\ Goes(step.do, run.files[f], run.backups[f], run.read, next.files[f], next.backups[f], next.read)
           \/ /\ Breaks(run, next, f)
              /\ step.do \notin {"remove", "add"} => next.files[f] = run.files[f]
<1> DEFINE Good == GoesOn(run, next, f)
           /\ Goes(step.do, run.files[f], run.backups[f], run.read, next.files[f], next.backups[f], next.read)
    Bad == Breaks(run, next, f) /\ (step.do \notin {"remove", "add"} => next.files[f] = run.files[f])
<1>1. /\ f \in FilesOf(kind) /\ Head(run.todo).file = f /\ step.do \in Acts
      /\ run.files[f] \in AnyContents /\ run.read \in AnyContents /\ run.read # Garbage /\ run.kind = kind
  <2>1. f \in FilesOf(kind) /\ step.do \in Acts
    BY DEF StepsOf
  <2> QED
    BY <2>1, RunFields
<1>2. PICK content \in AnyContents : content = run.files[f]
  BY <1>1
<1>3. next = StepFails(run) => Bad
  BY <1>1, NothingEffect
<1>4. next = Done(run) /\ step.do \notin {"backup", "read", "remove", "add", "insert", "rules", "delete"} => Good
  BY <1>1, NothingEffect DEF Goes, Changing
<1>5. CASE step.do = "backup"
  <2>1. next \in BackingUp(run, f)
    BY <1>5 DEF After
  <2>2. next = Done([run EXCEPT !.backups[f] = run.files[f]]) \/ next = StepFails(run)
    BY <2>1 DEF BackingUp
  <2>3. ASSUME next = Done([run EXCEPT !.backups[f] = run.files[f]])
        PROVE  Good
    <3>0. next = Done(BackedUp(run, f))
      BY <2>3 DEF BackedUp
    <3>1. /\ GoesOn(run, next, f) /\ next.files[f] = run.files[f]
          /\ next.backups[f] = run.files[f] /\ next.read = run.read
      BY <1>1, <3>0, BackupEffect
    <3> QED
      BY <1>5, <3>1 DEF Goes, Changing
  <2> QED
    BY <1>3, <2>2, <2>3
<1>6. CASE step.do = "remove"
  <2>1. next \in Removing(run, content)
    BY <1>2, <1>6 DEF After
  <2>2. PICK c \in AnyContents : c = WithoutServer(content)
    BY WithoutServerIs
  <2>3. \/ next = Done(run) \/ next = StepFails(run)
        \/ next = Done(Wrote(run, c)) \/ next = StepFails(Wrote(run, c))
    BY <2>1, <2>2 DEF Removing
  <2>4. next = Done(run) => Good
    BY <1>1, <1>6, NothingEffect DEF Goes, Changing
  <2>5. ASSUME next = Done(Wrote(run, c))
        PROVE  Good
    <3>1. /\ GoesOn(run, next, f) /\ next.files[f] = c
          /\ next.backups[f] = run.backups[f] /\ next.read = run.read
      BY <1>1, <2>5, WroteEffect
    <3> QED
      BY <1>2, <1>6, <2>2, <3>1 DEF Goes, Changing
  <2>6. next = StepFails(Wrote(run, c)) => Bad
    BY <1>1, <1>6, WroteEffect
  <2> QED
    BY <1>3, <2>3, <2>4, <2>5, <2>6
<1>7. CASE step.do = "add"
  <2>1. next \in Adding(run, content)
    BY <1>2, <1>7 DEF After
  <2>2. CASE content = Garbage \/ (content # NoFile /\ content.server = "odd")
    BY <1>3, <2>1, <2>2 DEF Adding
  <2>3. CASE ~(content = Garbage \/ (content # NoFile /\ content.server = "odd"))
    <3>1. PICK c \in AnyContents : c = WithServer(content)
      BY <2>3, WithServerIs, DocumentIs
    <3>2. next = StepFails(run) \/ next = Done(Wrote(run, c)) \/ next = StepFails(Wrote(run, c))
      BY <2>1, <2>3, <3>1 DEF Adding
    <3>3. ASSUME next = Done(Wrote(run, c))
          PROVE  Good
      <4>1. /\ GoesOn(run, next, f) /\ next.files[f] = c
            /\ next.backups[f] = run.backups[f] /\ next.read = run.read
        BY <1>1, <3>3, WroteEffect
      <4> QED
        BY <1>2, <1>7, <2>3, <3>1, <4>1 DEF Goes, Changing
    <3>4. next = StepFails(Wrote(run, c)) => Bad
      BY <1>1, <1>7, WroteEffect
    <3> QED
      BY <1>3, <3>2, <3>3, <3>4
  <2> QED
    BY <2>2, <2>3
<1>8. CASE step.do = "get"
  <2>1. next \in {Done(run), StepFails(run)}
    BY <1>8 DEF After
  <2> QED
    BY <1>3, <1>4, <1>8, <2>1
<1>9. CASE step.do = "read"
  <2>1. next \in Reading(run, content)
    BY <1>2, <1>9 DEF After
  <2>2. next = StepFails(run) \/ (content # Garbage /\ next = Done([run EXCEPT !.read = content]))
    BY <2>1, NoFileIs DEF Reading
  <2>3. ASSUME content # Garbage, next = Done([run EXCEPT !.read = content])
        PROVE  Good
    <3>1. /\ GoesOn(run, next, f) /\ next.files[f] = run.files[f]
          /\ next.backups[f] = run.backups[f] /\ next.read = content
      BY <1>1, <2>3, ReadEffect
    <3> QED
      BY <1>2, <1>9, <3>1 DEF Goes, Changing
  <2> QED
    BY <1>3, <2>2, <2>3
<1>10. CASE step.do = "rules"
  <2>1. next \in RemovingRules(run)
    BY <1>10 DEF After
  <2>2. CASE run.read = NoFile \/ (run.kind = "codex" /\ ~run.read.generated)
    <3>1. next = Done(run)
      BY <2>1, <2>2 DEF RemovingRules
    <3>2. run.read.is = "document" => ~run.read.generated
      BY <2>2, NoFileIs
    <3> QED
      BY <1>1, <1>10, <3>1, <3>2, NothingEffect DEF Goes, Changing
  <2>3. CASE ~(run.read = NoFile \/ (run.kind = "codex" /\ ~run.read.generated))
    <3>1. PICK c \in AnyContents : c = WithoutRules(run.read)
      BY <1>1, WithoutRulesIs
    <3>2. next = StepFails(run) \/ next = Done(Wrote(run, c))
      BY <2>1, <2>3, <3>1 DEF RemovingRules, Writing
    <3>3. next = Done(Wrote(run, c)) => Good
      BY <1>1, <1>10, <3>1, WroteEffect DEF Goes, Changing
    <3> QED
      BY <1>3, <3>2, <3>3
  <2> QED
    BY <2>2, <2>3
<1>11. CASE step.do = "insert"
  <2>1. next \in Inserting(run)
    BY <1>11 DEF After
  <2>2. PICK c \in AnyContents : c = WithoutRules(WithServer(run.read))
    <3>1. PICK d \in AnyContents : d = WithServer(run.read)
      BY <1>1, WithServerIs, DocumentIs
    <3> QED
      BY <3>1, WithoutRulesIs
  <2>3. next = StepFails(run) \/ next = Done(Wrote(run, c))
    BY <2>1, <2>2 DEF Inserting, Writing
  <2>4. next = Done(Wrote(run, c)) => Good
    BY <1>1, <1>11, <2>2, WroteEffect DEF Goes, Changing
  <2> QED
    BY <1>3, <2>3, <2>4
<1>12. CASE step.do = "delete"
  <2>1. next \in Writing(run, WithoutRules(WithoutServer(run.read)))
    BY <1>12 DEF After
  <2>2. PICK c \in AnyContents : c = WithoutRules(WithoutServer(run.read))
    <3>1. PICK d \in AnyContents : d = WithoutServer(run.read)
      BY <1>1, WithoutServerIs
    <3> QED
      BY <3>1, WithoutRulesIs
  <2>3. next = StepFails(run) \/ next = Done(Wrote(run, c))
    BY <2>1, <2>2 DEF Writing
  <2>4. next = Done(Wrote(run, c)) => Good
    BY <1>1, <1>12, <2>2, WroteEffect DEF Goes, Changing
  <2> QED
    BY <1>3, <2>3, <2>4
<1> QED
  BY <1>1, <1>5, <1>6, <1>7, <1>8, <1>9, <1>10, <1>11, <1>12 DEF Acts

----
(* The invariant. *)

Asked(q) ==
    /\ q.is = "client" /\ q.kind \in ClientKinds /\ q.configure \in BOOLEAN
    /\ q.files \in [FilesOf(q.kind) -> AnyContents]

PlanFor(q) == IF q.configure THEN Configure(q.kind) ELSE Unconfigure(q.kind, q.files)
Excused(q) == IF ~q.configure /\ q.kind = "claude" THEN {"mcp"} ELSE {}

Acted(plan, k, f) == {act \in Acts : Did(plan, k, {act}, f)}

At(q, run, plan, k) ==
    /\ k \in 1 .. Len(plan) + 1 /\ run.todo = SubSeq(plan, k, Len(plan))
    /\ \A f \in FilesOf(q.kind) :
          Facts(Acted(plan, k, f), q.files[f], run.quiet, run.files[f], run.backups[f], run.read)

Spared(q, f, content) ==
    content = q.files[f] \/ (f \in Excused(q) /\ content = WithoutServer(q.files[f]))

Failing(q, run) ==
    run.quiet => \A f \in FilesOf(q.kind) :
        IF f \in run.undo THEN run.backups[f] = q.files[f] ELSE Spared(q, f, run.files[f])
GivenBack(q, run) ==
    run.quiet => \A f \in FilesOf(q.kind) \ run.unrestored : Spared(q, f, run.files[f])
Saved(q, run) ==
    run.quiet => \A f \in FilesOf(q.kind) : run.files[f] = q.files[f] \/ run.backups[f] = q.files[f]
Finished(q, run) ==
    LET server == run.files[ServerFile(q.kind)]
        rules == run.files[RulesFile(q.kind)]
    IN  /\ q.configure => server.is = "document" /\ server.server = "ours"
        /\ rules.is = "document" => ~rules.generated \/ (~q.configure /\ q.kind = "codex")
        /\ run.quiet => \A f \in FilesOf(q.kind) : Own(run.files[f]) = Own(q.files[f])

Runs(q, run) ==
    /\ RunIn(run, q.kind) /\ Saved(q, run)
    /\ run.is = "running" => \E k : At(q, run, PlanFor(q), k)
    /\ run.is = "failing" => Failing(q, run)
    /\ run.is = "failed" => GivenBack(q, run)
    /\ run.is = "done" => Finished(q, run)

ClientInv == Asked(question) /\ (answer # Nothing => Runs(question, answer))

LEMMA ClientQuestionsAsked ==
    ASSUME NEW q \in ClientQuestions
    PROVE  Asked(q)
<1>1. PICK kind \in ClientKinds : q \in [is : {"client"}, kind : {kind}, configure : BOOLEAN,
                                         files : [FilesOf(kind) -> Contents]]
  BY DEF ClientQuestions, ClientKinds
<1>2. q.is = "client" /\ q.kind = kind /\ q.configure \in BOOLEAN /\ q.files \in [FilesOf(kind) -> Contents]
  BY <1>1
<1>3. q.files \in [FilesOf(kind) -> AnyContents]
  BY <1>2, InitialContents
<1> QED
  BY <1>1, <1>2, <1>3 DEF Asked

LEMMA ActedSteps ==
    ASSUME NEW kind, NEW plan \in Seq(StepsOf(kind)), NEW k \in 1 .. Len(plan), NEW f
    PROVE  /\ plan[k].file = f => Acted(plan, k + 1, f) = Acted(plan, k, f) \union {plan[k].do}
           /\ plan[k].file # f => Acted(plan, k + 1, f) = Acted(plan, k, f)
<1>1. plan[k].do \in Acts
  <2>1. plan[k] \in StepsOf(kind)
    OBVIOUS
  <2> QED
    BY <2>1 DEF StepsOf
<1>2. (k + 1) - 1 = k /\ 1 .. k = (1 .. k - 1) \union {k}
  OBVIOUS
<1>3. ASSUME NEW act \in Acts
      PROVE  Did(plan, k + 1, {act}, f) <=> Did(plan, k, {act}, f) \/ (plan[k].do = act /\ plan[k].file = f)
  BY <1>2 DEF Did
<1> QED
  BY <1>1, <1>3 DEF Acted

LEMMA ActedDid ==
    ASSUME NEW plan, NEW k, NEW f, NEW acts, acts \subseteq Acts
    PROVE  Did(plan, k, acts, f) <=> acts \intersect Acted(plan, k, f) # {}
BY DEF Did, Acted

LEMMA PlanIs ==
    ASSUME NEW q, Asked(q), NEW plan, plan = PlanFor(q)
    PROVE  /\ Orderly(plan, q.kind, Excused(q))
           /\ q.configure => Has(plan, {"add", "insert"}, ServerFile(q.kind))
           /\ \/ Has(plan, Cleaning, RulesFile(q.kind))
              \/ ~q.configure /\ q.kind = "codex"
              \/ ~q.configure /\ q.kind = "opencode" /\ q.files["config"] = NoFile
<1>1. CASE q.configure /\ q.kind = "codex"
  <2>1. plan = ConfigureCodex({"config"}) /\ Excused(q) = {}
    BY <1>1, KindFiles DEF PlanFor, Configure, Excused
  <2> QED
    BY <1>1, <2>1, PlanCodex, KindFiles
<1>2. CASE q.configure /\ q.kind = "claude"
  <2>1. plan = ConfigureClaude({"mcp", "settings"}) /\ Excused(q) = {}
    BY <1>2, KindFiles DEF PlanFor, Configure, Excused
  <2> QED
    BY <1>2, <2>1, PlanClaude, KindFiles
<1>3. CASE q.configure /\ q.kind = "opencode"
  <2>1. plan = ConfigureOpencode({"config"}) /\ Excused(q) = {}
    BY <1>3, KindFiles DEF PlanFor, Configure, Excused
  <2> QED
    BY <1>3, <2>1, PlanOpencode, KindFiles
<1>4. CASE ~q.configure /\ q.kind = "codex"
  <2>1. plan = UnconfigureCli("config") /\ Excused(q) = {}
    BY <1>4, KindFiles DEF PlanFor, Unconfigure, Excused
  <2> QED
    BY <1>4, <2>1, UnplanCodex
<1>5. CASE ~q.configure /\ q.kind = "claude"
  <2>1. plan = UnconfigureClaude /\ Excused(q) = {"mcp"}
    BY <1>5, KindFiles DEF PlanFor, Unconfigure, Excused
  <2> QED
    BY <1>5, <2>1, UnplanClaude, KindFiles
<1>6. CASE ~q.configure /\ q.kind = "opencode" /\ q.files["config"] # NoFile
  <2>1. plan = UnconfigureOpencode /\ Excused(q) = {}
    BY <1>6, KindFiles DEF PlanFor, Unconfigure, Excused
  <2> QED
    BY <1>6, <2>1, UnplanOpencode, KindFiles
<1>7. CASE ~q.configure /\ q.kind = "opencode" /\ q.files["config"] = NoFile
  <2>1. plan = <<>>
    BY <1>7 DEF PlanFor, Unconfigure
  <2>2. plan \in Seq(StepsOf(q.kind)) /\ DOMAIN plan = {}
    BY <2>1
  <2> QED
    BY <1>7, <2>2 DEF Orderly
<1> QED
  BY <1>1, <1>2, <1>3, <1>4, <1>5, <1>6, <1>7 DEF Asked, ClientKinds

\* What was backed up before it was changed is still there.
LEMMA PlanSaves ==
    ASSUME NEW kind, NEW excused, NEW plan, Orderly(plan, kind, excused), NEW k \in 1 .. Len(plan) + 1,
           NEW f, Acted(plan, k, f) \intersect Changing # {}
    PROVE  "backup" \in Acted(plan, k, f)
<1>1. PICK j \in 1 .. k - 1 : plan[j].do \in Changing /\ plan[j].file = f
  BY DEF Acted, Did
<1>2. j \in DOMAIN plan /\ j \in Int /\ k \in Int
  BY DEF Orderly
<1>3. Did(plan, j, {"backup"}, f)
  BY <1>1, <1>2 DEF Orderly, InOrder
<1>4. PICK i \in 1 .. j - 1 : plan[i].do \in {"backup"} /\ plan[i].file = f
  BY <1>3 DEF Did
<1>5. i \in 1 .. k - 1
  BY <1>2
<1> QED
  BY <1>4, <1>5 DEF Acted, Did, Acts

LEMMA InTurnIs ==
    ASSUME NEW kind, NEW excused, NEW plan, Orderly(plan, kind, excused), NEW k \in 1 .. Len(plan)
    PROVE  InTurn(plan[k].do, Acted(plan, k, plan[k].file))
<1>1. PICK f : f = plan[k].file
  OBVIOUS
<1>2. PICK acted : acted = Acted(plan, k, f)
  OBVIOUS
<1>3. \A acts \in SUBSET Acts : Did(plan, k, acts, f) <=> acts \intersect acted # {}
  BY <1>2, ActedDid
<1>4. InOrder(plan, kind, excused, k)
  BY DEF Orderly
<1>5. /\ Did(plan, k, {"backup"}, f) <=> "backup" \in acted
      /\ Did(plan, k, {"read"}, f) <=> "read" \in acted
      /\ Did(plan, k, {"add", "insert"}, f) <=> acted \intersect {"add", "insert"} # {}
      /\ Did(plan, k, Cleaning, f) <=> acted \intersect Cleaning # {}
      /\ Did(plan, k, Changing, f) <=> acted \intersect Changing # {}
  <2>1. /\ {"backup"} \subseteq Acts /\ {"read"} \subseteq Acts /\ {"add", "insert"} \subseteq Acts
        /\ Cleaning \subseteq Acts /\ Changing \subseteq Acts
    BY DEF Acts, Cleaning, Changing
  <2> QED
    BY <1>3, <2>1
<1> QED
  BY <1>1, <1>2, <1>4, <1>5 DEF InOrder, InTurn

----
(* One step of a command. *)

LEMMA ClientGoes ==
    ASSUME NEW q, Asked(q), NEW run, Runs(q, run), run.is = "running", Going(run), NEW next \in After(run)
    PROVE  Runs(q, next)
<1> DEFINE plan == PlanFor(q)
           kind == q.kind
<1>1. Orderly(plan, kind, Excused(q)) /\ plan \in Seq(StepsOf(kind)) /\ Len(plan) \in Nat
  <2>1. Orderly(plan, kind, Excused(q))
    BY PlanIs
  <2>2. plan \in Seq(StepsOf(kind))
    BY <2>1 DEF Orderly
  <2> QED
    BY <2>1, <2>2
<1>2. PICK k : At(q, run, plan, k)
  BY DEF Runs
<1>3. RunIn(run, kind) /\ Saved(q, run)
  BY DEF Runs
<1> HIDE DEF plan, kind
<1>4. /\ k \in 1 .. Len(plan) /\ Head(run.todo) = plan[k] /\ Tail(run.todo) = SubSeq(plan, k + 1, Len(plan))
  <2>1. k \in 1 .. Len(plan) + 1 /\ run.todo = SubSeq(plan, k, Len(plan)) /\ run.todo # <<>>
    BY <1>2 DEF At, Going
  <2>2. ASSUME k = Len(plan) + 1
        PROVE  FALSE
    BY <1>1, <2>1, <2>2
  <2> QED
    BY <1>1, <2>1, <2>2
<1>5. PICK step \in StepsOf(kind) : step = plan[k]
  BY <1>1, <1>4
<1>6. PICK f \in FilesOf(kind) : f = step.file
  BY <1>5 DEF StepsOf
<1>7. step.do \in Acts /\ step.undo \subseteq FilesOf(kind)
  BY <1>5 DEF StepsOf
<1>8. /\ q.files \in [FilesOf(kind) -> AnyContents] /\ q.kind = kind /\ PlanFor(q) = plan
  BY DEF Asked, kind, plan
<1>9. /\ run.files \in [FilesOf(kind) -> AnyContents] /\ run.backups \in [FilesOf(kind) -> AnyContents]
      /\ run.read \in AnyContents /\ run.read # Garbage /\ run.quiet \in BOOLEAN /\ run.kind = kind
      /\ run.unrestored \subseteq FilesOf(kind) /\ run.undo \subseteq FilesOf(kind)
      /\ run.todo \in Seq(StepsOf(kind))
  BY <1>3, RunFields
<1>10. \A g \in FilesOf(kind) :
          Facts(Acted(plan, k, g), q.files[g], run.quiet, run.files[g], run.backups[g], run.read)
  BY <1>2, <1>8 DEF At
<1>11. InTurn(step.do, Acted(plan, k, f))
  BY <1>1, <1>4, <1>5, <1>6, InTurnIs
<1>12. InOrder(plan, kind, Excused(q), k)
  BY <1>1, <1>4 DEF Orderly
<1>13. CASE /\ GoesOn(run, next, f)
            /\ Goes(step.do, run.files[f], run.backups[f], run.read, next.files[f], next.backups[f], next.read)
  <2>1. /\ next.files \in [FilesOf(kind) -> AnyContents] /\ next.backups \in [FilesOf(kind) -> AnyContents]
        /\ next.read \in AnyContents /\ next.read # Garbage /\ next.quiet = run.quiet
        /\ next.is = "running" /\ next.todo = Tail(run.todo)
        /\ \A g \in FilesOf(kind) \ {f} : next.files[g] = run.files[g] /\ next.backups[g] = run.backups[g]
    <3>1. RunIn(next, kind)
      BY <1>9, <1>13 DEF GoesOn
    <3> QED
      BY <1>9, <1>13, <3>1, RunFields DEF GoesOn
  <2>2. Facts(Acted(plan, k + 1, f), q.files[f], next.quiet, next.files[f], next.backups[f], next.read)
    <3>1. Acted(plan, k + 1, f) = Acted(plan, k, f) \union {step.do}
      BY <1>1, <1>4, <1>5, <1>6, ActedSteps
    <3>2. /\ q.files[f] \in AnyContents /\ run.files[f] \in AnyContents /\ run.backups[f] \in AnyContents
          /\ next.files[f] \in AnyContents /\ next.backups[f] \in AnyContents
      BY <1>8, <1>9, <2>1
    <3>3. Facts(Acted(plan, k, f), q.files[f], run.quiet, run.files[f], run.backups[f], run.read)
      BY <1>10
    <3>4. Facts(Acted(plan, k, f) \union {step.do}, q.files[f], run.quiet, next.files[f], next.backups[f],
                next.read)
      BY <1>7, <1>9, <1>11, <1>13, <2>1, <3>2, <3>3, FactsFollow
    <3> QED
      BY <2>1, <3>1, <3>4
  <2>3. ASSUME NEW g \in FilesOf(kind), g # f
        PROVE  Facts(Acted(plan, k + 1, g), q.files[g], next.quiet, next.files[g], next.backups[g], next.read)
    <3>1. Acted(plan, k + 1, g) = Acted(plan, k, g)
      BY <1>1, <1>4, <1>5, <1>6, <2>3, ActedSteps
    <3>2. Facts(Acted(plan, k, g), q.files[g], run.quiet, run.files[g], run.backups[g], run.read)
      BY <1>10
    <3>3. next.files[g] = run.files[g] /\ next.backups[g] = run.backups[g]
      BY <2>1, <2>3
    <3>4. next.read = run.read \/ "read" \notin Acted(plan, k, g)
      <4>1. CASE step.do # "read"
        BY <1>13, <4>1 DEF Goes
      <4>2. CASE step.do = "read"
        BY <1>5, <1>12, <4>2 DEF InOrder, Acted
      <4> QED
        BY <4>1, <4>2
    <3> QED
      BY <2>1, <3>1, <3>2, <3>3, <3>4 DEF Facts
  <2>4. At(q, next, plan, k + 1)
    BY <1>1, <1>4, <1>8, <2>1, <2>2, <2>3 DEF At
  <2>5. Saved(q, next)
    <3>1. ASSUME NEW g \in FilesOf(kind), next.quiet, next.files[g] # q.files[g]
          PROVE  next.backups[g] = q.files[g]
      <4>1. Facts(Acted(plan, k + 1, g), q.files[g], next.quiet, next.files[g], next.backups[g], next.read)
        BY <2>2, <2>3
      <4>2. Acted(plan, k + 1, g) \intersect Changing # {}
        BY <3>1, <4>1 DEF Facts
      <4>3. k + 1 \in 1 .. Len(plan) + 1
        BY <1>1, <1>4
      <4>4. "backup" \in Acted(plan, k + 1, g)
        BY <1>1, <4>2, <4>3, PlanSaves
      <4> QED
        BY <3>1, <4>1, <4>4 DEF Facts
    <3> QED
      BY <1>8, <3>1 DEF Saved
  <2>6. RunIn(next, kind)
    BY <1>9, <1>13 DEF GoesOn
  <2> QED
    BY <1>8, <2>1, <2>4, <2>5, <2>6 DEF Runs
<1>14. CASE /\ Breaks(run, next, f)
            /\ step.do \notin {"remove", "add"} => next.files[f] = run.files[f]
  <2>1. /\ next.files \in [FilesOf(kind) -> AnyContents] /\ next.backups = run.backups
        /\ next.quiet = run.quiet /\ next.is = "failing" /\ next.undo = step.undo
        /\ \A g \in FilesOf(kind) \ {f} : next.files[g] = run.files[g]
        /\ RunIn(next, kind)
    <3>1. RunIn(next, kind) /\ Head(run.todo).undo = step.undo
      BY <1>4, <1>5, <1>9, <1>14 DEF Breaks
    <3> QED
      BY <1>9, <1>14, <3>1, RunFields DEF Breaks
  <2>2. ASSUME NEW g \in FilesOf(kind), next.quiet
        PROVE  /\ g \in next.undo => next.backups[g] = q.files[g]
               /\ g \notin next.undo => Spared(q, g, next.files[g])
    <3>1. PICK acted : acted = Acted(plan, k, g)
      OBVIOUS
    <3>2. Facts(acted, q.files[g], TRUE, run.files[g], run.backups[g], run.read)
      BY <1>10, <2>1, <2>2, <3>1 DEF Facts
    <3>3. \A acts \in SUBSET Acts : Did(plan, k, acts, g) <=> acts \intersect acted # {}
      BY <3>1, ActedDid
    <3>4. ASSUME g \in step.undo
          PROVE  run.backups[g] = q.files[g]
      <4>1. Did(plan, k, {"backup"}, g)
        BY <1>5, <1>12, <3>4 DEF InOrder
      <4>2. "backup" \in acted
        BY <3>3, <4>1 DEF Acts
      <4> QED
        BY <3>2, <4>2 DEF Facts
    <3>5. ASSUME g \notin step.undo
          PROVE  Spared(q, g, next.files[g])
      <4>1. /\ g # f \/ step.do \notin {"remove", "add"}
            /\ g \in Excused(q) => ~Did(plan, k, Changing \ {"remove"}, g)
            /\ g \notin Excused(q) => ~Did(plan, k, Changing, g)
        BY <1>5, <1>6, <1>12, <3>5 DEF InOrder
      <4>2. next.files[g] = run.files[g]
        BY <1>14, <2>1, <4>1
      <4>3. /\ g \in Excused(q) => (Changing \ {"remove"}) \intersect acted = {}
            /\ g \notin Excused(q) => Changing \intersect acted = {}
        <5>1. Changing \ {"remove"} \in SUBSET Acts /\ Changing \in SUBSET Acts
          BY DEF Changing, Acts
        <5> QED
          BY <3>3, <4>1, <5>1
      <4>4. CASE g \in Excused(q)
        <5>1. acted \intersect Changing \subseteq {"remove"}
          BY <4>3, <4>4
        <5> QED
          BY <3>2, <4>2, <4>4, <5>1 DEF Facts, Spared
      <4>5. CASE g \notin Excused(q)
        <5>1. acted \intersect Changing = {}
          BY <4>3, <4>5
        <5> QED
          BY <3>2, <4>2, <5>1 DEF Facts, Spared
      <4> QED
        BY <4>4, <4>5
    <3> QED
      BY <2>1, <3>4, <3>5
  <2>3. Failing(q, next)
    BY <1>8, <2>2 DEF Failing
  <2>4. Saved(q, next)
    <3>1. ASSUME NEW g \in FilesOf(kind), next.quiet
          PROVE  next.files[g] = q.files[g] \/ next.backups[g] = q.files[g]
      <4>1. CASE g # f \/ step.do \notin {"remove", "add"}
        <5>1. next.files[g] = run.files[g] /\ next.backups[g] = run.backups[g]
          BY <1>14, <2>1, <4>1
        <5> QED
          BY <1>3, <1>8, <2>1, <3>1, <5>1 DEF Saved
      <4>2. CASE g = f /\ step.do \in {"remove", "add"}
        <5>1. "backup" \in Acted(plan, k, f)
          BY <1>11, <4>2 DEF InTurn, Changing
        <5> QED
          BY <1>10, <2>1, <3>1, <4>2, <5>1 DEF Facts
      <4> QED
        BY <4>1, <4>2
    <3> QED
      BY <1>8, <3>1 DEF Saved
  <2> QED
    BY <1>8, <2>1, <2>3, <2>4 DEF Runs
<1>15. HasStep(run, kind)
  <2>1. Tail(run.todo) \in Seq(StepsOf(kind))
    BY <1>9, HeadTailProperties DEF Going
  <2> QED
    BY <1>4, <1>5, <1>7, <2>1 DEF HasStep
<1> QED
  BY <1>3, <1>4, <1>5, <1>6, <1>13, <1>14, <1>15, StepEffect

\* The last step of a command is done.
LEMMA ClientFinishes ==
    ASSUME NEW q, Asked(q), NEW run, Runs(q, run), run.is = "running", run.todo = <<>>
    PROVE  Runs(q, [run EXCEPT !.is = "done"])
<1> DEFINE plan == PlanFor(q)
           kind == q.kind
<1>1. /\ Orderly(plan, kind, Excused(q)) /\ plan \in Seq(StepsOf(kind)) /\ Len(plan) \in Nat
      /\ q.configure => Has(plan, {"add", "insert"}, ServerFile(kind))
      /\ \/ Has(plan, Cleaning, RulesFile(kind))
         \/ ~q.configure /\ kind = "codex"
         \/ ~q.configure /\ kind = "opencode" /\ q.files["config"] = NoFile
  <2>1. Orderly(plan, kind, Excused(q))
    BY PlanIs
  <2>2. plan \in Seq(StepsOf(kind))
    BY <2>1 DEF Orderly
  <2> QED
    BY <2>1, <2>2, PlanIs
<1>2. PICK k : At(q, run, plan, k)
  BY DEF Runs
<1>3. RunIn(run, kind) /\ Saved(q, run)
  BY DEF Runs
<1>4. PlanFor(q) = plan /\ q.kind = kind /\ q.files \in [FilesOf(kind) -> AnyContents] /\ kind \in ClientKinds
  BY DEF Asked
<1> HIDE DEF plan, kind
<1>5. k = Len(plan) + 1
  <2>1. k \in 1 .. Len(plan) + 1 /\ SubSeq(plan, k, Len(plan)) = <<>>
    BY <1>2 DEF At
  <2>2. ASSUME k <= Len(plan)
        PROVE  FALSE
    <3>1. k \in 1 .. Len(plan) + 1 /\ Len(plan) \in 0 .. Len(plan) /\ k <= Len(plan)
      BY <1>1, <2>1, <2>2
    <3>2. Len(SubSeq(plan, k, Len(plan))) = Len(plan) - k + 1
      BY <1>1, <3>1
    <3>3. Len(SubSeq(plan, k, Len(plan))) = 0
      BY <2>1
    <3> QED
      BY <1>1, <3>1, <3>2, <3>3
  <2> QED
    BY <1>1, <2>1, <2>2
<1>6. \A g \in FilesOf(kind) :
          Facts(Acted(plan, k, g), q.files[g], run.quiet, run.files[g], run.backups[g], run.read)
  BY <1>2, <1>4 DEF At
<1>7. PICK next : next = [run EXCEPT !.is = "done"]
  OBVIOUS
<1>8. RunIn(next, kind) /\ next.files = run.files /\ next.backups = run.backups /\ next.quiet = run.quiet
      /\ next.is = "done"
  BY <1>3, <1>7 DEF RunIn
<1>9. ServerFile(kind) \in FilesOf(kind) /\ RulesFile(kind) \in FilesOf(kind)
  BY DEF FilesOf
<1>10. q.configure => run.files[ServerFile(kind)].is = "document" /\ run.files[ServerFile(kind)].server = "ours"
  <2>1. SUFFICES ASSUME q.configure
                 PROVE  Acted(plan, k, ServerFile(kind)) \intersect {"add", "insert"} # {}
    BY <1>6, <1>9 DEF Facts
  <2>2. Did(plan, k, {"add", "insert"}, ServerFile(kind))
    BY <1>1, <1>5, <2>1 DEF Has
  <2> QED
    BY <2>2, ActedDid DEF Acts
<1>11. run.files[RulesFile(kind)].is = "document" =>
          ~run.files[RulesFile(kind)].generated \/ (~q.configure /\ kind = "codex")
  <2>1. CASE Has(plan, Cleaning, RulesFile(kind))
    <3>1. Did(plan, k, Cleaning, RulesFile(kind))
      BY <1>5, <2>1 DEF Has
    <3>2. Cleaning \subseteq Acts
      BY DEF Cleaning, Acts
    <3>3. Acted(plan, k, RulesFile(kind)) \intersect Cleaning # {}
      BY <3>1, <3>2, ActedDid
    <3> QED
      BY <1>6, <1>9, <3>3 DEF Facts
  <2>2. CASE ~q.configure /\ kind = "opencode" /\ q.files["config"] = NoFile
    <3>1. plan = <<>>
      BY <1>4, <2>2 DEF PlanFor, Unconfigure
    <3>2. Acted(plan, k, "config") \intersect Changing = {}
      BY <1>5, <3>1 DEF Acted, Did
    <3>3. RulesFile(kind) = "config"
      BY <2>2, KindFiles
    <3>4. Agree(run.files["config"], NoFile)
      BY <1>6, <1>9, <2>2, <3>2, <3>3 DEF Facts
    <3> QED
      BY <3>3, <3>4, NoFileIs DEF Agree
  <2> QED
    BY <1>1, <2>1, <2>2
<1>12. run.quiet => \A g \in FilesOf(kind) : Own(run.files[g]) = Own(q.files[g])
  BY <1>6 DEF Facts
<1>13. Finished(q, next)
  BY <1>4, <1>8, <1>10, <1>11, <1>12 DEF Finished
<1>14. Saved(q, next)
  BY <1>3, <1>8 DEF Saved
<1> QED
  BY <1>4, <1>7, <1>8, <1>13, <1>14 DEF Runs

LEMMA ClientRestores ==
    ASSUME NEW q, Asked(q), NEW run, Runs(q, run), run.is = "failing", NEW next \in Restoring(run)
    PROVE  Runs(q, next)
<1>1. PICK kind : kind = q.kind
  OBVIOUS
<1>2. RunIn(run, kind) /\ Saved(q, run) /\ Failing(q, run)
  BY <1>1 DEF Runs
<1>3. /\ run.files \in [FilesOf(kind) -> AnyContents] /\ run.backups \in [FilesOf(kind) -> AnyContents]
      /\ run.undo \subseteq FilesOf(kind) /\ DOMAIN run.files = FilesOf(kind)
  BY <1>2, RunFields
<1>4. PICK kept \in SUBSET run.undo :
          next = [run EXCEPT !.is = "failed", !.unrestored = kept,
                     !.files = [f \in DOMAIN @ |-> IF f \in run.undo \ kept THEN run.backups[f] ELSE @[f]]]
  BY DEF Restoring
<1>5. PICK files \in [FilesOf(kind) -> AnyContents] :
          files = [f \in FilesOf(kind) |-> IF f \in run.undo \ kept THEN run.backups[f] ELSE run.files[f]]
  BY <1>3
<1>6. next = [run EXCEPT !.is = "failed", !.unrestored = kept, !.files = files]
  BY <1>2, <1>3, <1>4, <1>5 DEF RunIn
<1>7. /\ RunIn(next, kind) /\ next.is = "failed" /\ next.unrestored = kept /\ next.files = files
      /\ next.backups = run.backups /\ next.quiet = run.quiet
  BY <1>2, <1>3, <1>6 DEF RunIn
<1>8. \A f \in FilesOf(kind) : files[f] = IF f \in run.undo \ kept THEN run.backups[f] ELSE run.files[f]
  BY <1>5
<1>9. GivenBack(q, next)
  <2>1. ASSUME NEW f \in FilesOf(kind) \ kept, run.quiet
        PROVE  Spared(q, f, files[f])
    <3>1. IF f \in run.undo THEN run.backups[f] = q.files[f] ELSE Spared(q, f, run.files[f])
      BY <1>1, <1>2, <2>1 DEF Failing
    <3> QED
      BY <1>8, <2>1, <3>1 DEF Spared
  <2> QED
    BY <1>1, <1>7, <2>1 DEF GivenBack
<1>10. Saved(q, next)
  BY <1>1, <1>2, <1>7, <1>8 DEF Saved, Failing
<1> QED
  BY <1>1, <1>7, <1>9, <1>10 DEF Runs

----
(* The steps of a question about clients. *)

LEMMA ClientStarts ==
    ASSUME NEW q, Asked(q)
    PROVE  Runs(q, Started(q.kind, q.configure, q.files))
<1>1. PICK kind \in ClientKinds : kind = q.kind
  BY DEF Asked
<1>2. PICK files \in [FilesOf(kind) -> AnyContents] : files = q.files
  BY <1>1 DEF Asked
<1>3. PICK plan : plan = PlanFor(q)
  OBVIOUS
<1>4. plan \in Seq(StepsOf(kind)) /\ Len(plan) \in Nat
  BY <1>1, <1>3, PlanIs DEF Orderly
<1>5. PICK backups \in [FilesOf(kind) -> AnyContents] : backups = [f \in DOMAIN files |-> NoFile]
  BY <1>2, NoFileIs
<1>6. PICK run : run = Started(q.kind, q.configure, q.files)
  OBVIOUS
<1>7. run = [is |-> "running", kind |-> kind, files |-> files, backups |-> backups, read |-> NoFile,
             todo |-> plan, undo |-> {}, unrestored |-> {}, quiet |-> TRUE]
  BY <1>1, <1>2, <1>3, <1>5, <1>6 DEF Started, PlanFor
<1>8. /\ RunIn(run, kind) /\ run.is = "running" /\ run.todo = plan /\ run.files = files
      /\ run.backups = backups /\ run.read = NoFile
  BY <1>4, <1>7, NoFileIs DEF RunIn
<1>9. At(q, run, plan, 1)
  <2>1. 1 \in 1 .. Len(plan) + 1 /\ SubSeq(plan, 1, Len(plan)) = plan
    BY <1>4
  <2>2. ASSUME NEW f \in FilesOf(kind)
        PROVE  Facts(Acted(plan, 1, f), files[f], run.quiet, files[f], backups[f], NoFile)
    <3>1. Acted(plan, 1, f) = {}
      BY DEF Acted, Did
    <3> QED
      BY <3>1 DEF Facts, Agree
  <2> QED
    BY <1>1, <1>2, <1>8, <2>1, <2>2 DEF At
<1>10. Saved(q, run)
  BY <1>2, <1>8 DEF Saved
<1> QED
  BY <1>1, <1>3, <1>6, <1>8, <1>9, <1>10 DEF Runs

\* The client stores something of the user: nothing else of a file changes.
LEMMA ClientStores ==
    ASSUME NEW q, Asked(q), NEW run, Runs(q, run), run.is \in {"running", "failing"},
           NEW f \in DOMAIN run.files, run.files[f].is = "document", NEW own \in UserData,
           NEW next, next = [run EXCEPT !.quiet = FALSE, !.files[f].own = own]
    PROVE  Runs(q, next)
<1>1. PICK kind : kind = q.kind
  OBVIOUS
<1>2. RunIn(run, kind) /\ f \in FilesOf(kind) /\ run.files \in [FilesOf(kind) -> AnyContents]
  <2>1. RunIn(run, kind)
    BY <1>1 DEF Runs
  <2> QED
    BY <2>1, RunFields
<1>3. PICK c \in Documents : c = run.files[f]
  BY <1>2, ContentIs
<1>4. PICK d \in Documents : d = [c EXCEPT !.own = own]
  BY DEF Documents
<1>5. Agree(d, c)
  BY <1>4 DEF Agree, Documents
<1>6. PICK files \in [FilesOf(kind) -> AnyContents] : files = [run.files EXCEPT ![f] = d]
  BY <1>2, DocumentIs
<1>7. files[f] = d /\ \A g \in FilesOf(kind) \ {f} : files[g] = run.files[g]
  BY <1>2, <1>6
<1>8. next = [run EXCEPT !.quiet = FALSE, !.files = files]
  BY <1>2, <1>3, <1>4, <1>6 DEF RunIn
<1>9. /\ RunIn(next, kind) /\ ~next.quiet /\ next.is = run.is /\ next.files = files
      /\ next.backups = run.backups /\ next.read = run.read /\ next.todo = run.todo
  BY <1>2, <1>8 DEF RunIn
<1>10. ASSUME run.is = "running"
       PROVE  \E k : At(q, next, PlanFor(q), k)
  <2>1. PICK k : At(q, run, PlanFor(q), k)
    BY <1>10 DEF Runs
  <2>2. PICK plan : plan = PlanFor(q)
    OBVIOUS
  <2>3. ASSUME NEW g \in FilesOf(kind)
        PROVE  Facts(Acted(plan, k, g), q.files[g], next.quiet, next.files[g], next.backups[g], next.read)
    <3>1. Facts(Acted(plan, k, g), q.files[g], run.quiet, run.files[g], run.backups[g], run.read)
      BY <1>1, <2>1, <2>2 DEF At
    <3>2. Agree(files[g], run.files[g])
      BY <1>3, <1>5, <1>7 DEF Agree
    <3>3. Facts(Acted(plan, k, g), q.files[g], FALSE, files[g], run.backups[g], run.read)
      BY <3>1, <3>2, FactsLoud
    <3> QED
      BY <1>9, <3>3 DEF Facts
  <2>4. At(q, next, plan, k)
    BY <1>1, <1>9, <2>1, <2>2, <2>3 DEF At
  <2> QED
    BY <2>2, <2>4
<1> QED
  BY <1>1, <1>9, <1>10 DEF Runs, Saved, Failing

LEMMA ClientKilled ==
    ASSUME NEW q, Asked(q), NEW run, Runs(q, run), NEW next, next = [run EXCEPT !.is = "killed"]
    PROVE  Runs(q, next)
<1>1. PICK kind : kind = q.kind
  OBVIOUS
<1>2. RunIn(run, kind) /\ Saved(q, run)
  BY <1>1 DEF Runs
<1>3. /\ RunIn(next, kind) /\ next.is = "killed" /\ next.files = run.files /\ next.backups = run.backups
      /\ next.quiet = run.quiet
  BY <1>2 DEF RunIn
<1> QED
  BY <1>1, <1>2, <1>3 DEF Runs, Saved

LEMMA ClientSteps ==
    ASSUME ClientInv, AskCommand \/ AskStep \/ AskClient, UNCHANGED question
    PROVE  ClientInv'
<1>1. Asked(question) /\ question' = question
  BY DEF ClientInv
<1>2. SUFFICES Runs(question, answer')
  BY <1>1 DEF ClientInv
<1>3. CASE AskCommand
  BY <1>1, <1>3, ClientStarts DEF AskCommand
<1>4. CASE AskStep \/ AskClient
  <2>1. answer.is \in {"running", "failing"}
    BY <1>4 DEF AskStep, AskClient
  <2>2. Runs(question, answer)
    <3>1. answer # Nothing
      BY <2>1 DEF Nothing
    <3> QED
      BY <3>1 DEF ClientInv
  <2>3. CASE AskStep
    <3>1. CASE Going(answer) /\ answer' \in After(answer)
      BY <1>1, <2>2, <3>1, ClientGoes DEF Going
    <3>2. CASE answer.is = "running" /\ answer.todo = <<>> /\ answer' = [answer EXCEPT !.is = "done"]
      BY <1>1, <2>2, <3>2, ClientFinishes
    <3>3. CASE answer.is = "failing" /\ answer' \in Restoring(answer)
      BY <1>1, <2>2, <3>3, ClientRestores
    <3>4. CASE answer' = [answer EXCEPT !.is = "killed"]
      BY <1>1, <2>2, <3>4, ClientKilled
    <3> QED
      BY <2>3, <3>1, <3>2, <3>3, <3>4 DEF AskStep
  <2>4. CASE AskClient
    <3>1. PICK f \in DOMAIN answer.files :
            /\ answer.files[f].is = "document"
            /\ \E own \in UserData : answer' = [answer EXCEPT !.quiet = FALSE, !.files[f].own = own]
      BY <2>4 DEF AskClient
    <3>2. PICK own \in UserData : answer' = [answer EXCEPT !.quiet = FALSE, !.files[f].own = own]
      BY <3>1
    <3> QED
      BY <1>1, <2>1, <2>2, <3>1, <3>2, ClientStores
  <2> QED
    BY <1>4, <2>3, <2>4
<1> QED
  BY <1>3, <1>4

LEMMA ClientInvKept ==
    ClientInv => ClientFilesAreKept
<1> SUFFICES ASSUME ClientInv, answer # Nothing
             PROVE  ClientFilesAreKept
  BY DEF ClientFilesAreKept
<1>1. Runs(question, answer) /\ Asked(question)
  BY DEF ClientInv
<1>2. PICK kind \in ClientKinds : kind = question.kind
  BY <1>1 DEF Asked
<1>3. RunIn(answer, kind) /\ answer.kind = kind /\ DOMAIN answer.files = FilesOf(kind)
      /\ answer.unrestored \subseteq FilesOf(kind)
  BY <1>1, <1>2, RunFields DEF Runs
<1>4. \A f \in FilesOf(kind) :
          answer.files[f] # question.files[f] /\ answer.quiet => answer.backups[f] = question.files[f]
  BY <1>1, <1>2 DEF Runs, Saved
<1>5. answer.is = "failed" /\ answer.quiet =>
          \A f \in FilesOf(kind) \ answer.unrestored :
              \/ answer.files[f] = question.files[f]
              \/ ~question.configure /\ kind = "claude" /\ answer.files[f] = WithoutServer(question.files[f])
  BY <1>1, <1>2 DEF Runs, GivenBack, Spared, Excused
<1>6. answer.is = "done" =>
          /\ question.configure =>
                answer.files[ServerFile(kind)].is = "document" /\ answer.files[ServerFile(kind)].server = "ours"
          /\ answer.files[RulesFile(kind)].is = "document" =>
                ~answer.files[RulesFile(kind)].generated \/ (~question.configure /\ kind = "codex")
          /\ answer.quiet => \A f \in FilesOf(kind) : Own(answer.files[f]) = Own(question.files[f])
  BY <1>1, <1>2 DEF Runs, Finished
<1> QED
  BY <1>3, <1>4, <1>5, <1>6 DEF ClientFilesAreKept, Own

----
(* Either question. *)

LocalInv == ClientInv \/ CacheInv

\* Local files are changed only as told: what was in a client's file is in the
\* file or in its backup, a failed command leaves files as they were, a
\* successful one leaves the server where it belongs and keeps what is the
\* user's, and a download stays, whole, for its time and no longer.
THEOREM LocalFilesHold == LocalSpec => []LocalFilesAreKept
<1>1. LocalInit => LocalInv
  <2> SUFFICES ASSUME LocalInit
               PROVE  LocalInv
    OBVIOUS
  <2>1. answer = Nothing
    BY DEF LocalInit
  <2>2. CASE question \in ClientQuestions
    BY <2>1, <2>2, ClientQuestionsAsked DEF LocalInv, ClientInv
  <2>3. CASE question \in CacheQuestions
    BY <2>1, <2>3 DEF LocalInv, CacheInv, CacheQuestions, CacheQuestion
  <2> QED
    BY <2>2, <2>3 DEF LocalInit, LocalQuestions
<1>2. LocalInv /\ [AskLocal]_<<question, answer>> => LocalInv'
  <2> SUFFICES ASSUME LocalInv, [AskLocal]_<<question, answer>>
               PROVE  LocalInv'
    OBVIOUS
  <2>1. CASE UNCHANGED <<question, answer>>
    <3>1. ClientInv => ClientInv'
      BY <2>1 DEF ClientInv
    <3>2. CacheInv => CacheInv'
      BY <2>1 DEF CacheInv
    <3> QED
      BY <3>1, <3>2 DEF LocalInv
  <2>2. CASE (AskCommand \/ AskStep \/ AskClient) /\ UNCHANGED question
    <3>1. question.is = "client"
      BY <2>2 DEF AskCommand, AskStep, AskClient
    <3>2. ClientInv
      BY <3>1 DEF LocalInv, CacheInv, CacheQuestion
    <3> QED
      BY <2>2, <3>2, ClientSteps DEF LocalInv
  <2>3. CASE AskDownload \/ AskStartUp \/ AskClear \/ AskLater
    <3>1. question.is = "cache"
      BY <2>3 DEF AskDownload, AskStartUp, AskClear, AskLater
    <3>2. CacheInv
      BY <3>1 DEF LocalInv, ClientInv, Asked
    <3> QED
      BY <2>3, <3>2, CacheSteps DEF LocalInv
  <2> QED
    BY <2>1, <2>2, <2>3 DEF AskLocal
<1>3. LocalInv => LocalFilesAreKept
  <2>1. ASSUME ClientInv
        PROVE  LocalFilesAreKept
    <3>1. question.is = "client"
      BY <2>1 DEF ClientInv, Asked
    <3> QED
      BY <2>1, <3>1, ClientInvKept DEF LocalFilesAreKept, DownloadsAreKept
  <2>2. ASSUME CacheInv
        PROVE  LocalFilesAreKept
    <3>1. question.is = "cache"
      BY <2>2 DEF CacheInv, CacheQuestion
    <3> QED
      BY <2>2, <3>1, CacheInvKept DEF LocalFilesAreKept, ClientFilesAreKept
  <2> QED
    BY <2>1, <2>2 DEF LocalInv
<1> QED
  BY <1>1, <1>2, <1>3, PTL DEF LocalSpec
====
