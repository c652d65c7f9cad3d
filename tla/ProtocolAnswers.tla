---- MODULE ProtocolAnswers ----
(***************************************************************************)
(* Questions about the answers of Exchange: whether a write was done       *)
(* (Acknowledgements), and whether automatic replies are as they were      *)
(* asked for (AutoReplies).                                                *)
(***************************************************************************)
EXTENDS Questions, Acknowledgements, AutoReplies

CONSTANTS
    Codes,              \* the HTTP status codes of answers
    StatusNumbers,      \* the numbers that a document may give, by the kind of command or the place
    Messages,           \* what a user may give as the text of automatic replies
    Moments,            \* the instants at which replies begin, end and are sent
    Observations(_)     \* what Exchange may say the settings are

\* A field that is missing has no value.
ASSUME NothingIsNoValue == NoField \notin Int \union {"own", "other", "0", "key", "id"}
ASSUME NumbersAreNumbers ==
    StatusNumbers \in [{"compose", "sync", "item", "move", "respond", "replies"} -> SUBSET Int]

----
(* Writes: Exchange executes one or not, and gives any answer that is true. *)

Writes ==
    {[is |-> "compose", name |-> "SendMail"], [is |-> "change"], [is |-> "move"], [is |-> "respond"],
     [is |-> "replies"]}
    \union {[is |-> "calendar", name |-> name] : name \in {"Add", "Change", "Delete"}}

WriteQuestions == [is : {"write"}, command : Writes, executed : BOOLEAN]

Identifiers == {"own", "other", NoField}

Items(names) ==
    {NoField} \union [name : names, id : Identifiers, status : StatusNumbers.item, server : {NoField, "id"}]

SyncDocuments(names) ==
    [status : StatusNumbers.sync \union {NoField}, folder : {"own", "other"}, collection : StatusNumbers.sync,
     key : {NoField, "0", "key"}, item : Items(names)]
    \union [status : StatusNumbers.sync \union {NoField}, folder : {NoField}, collection : {NoField},
            key : {NoField}, item : {NoField}]

Documents(command) ==
    {NoBody, Garbled} \union
    CASE command.is = "compose" -> [name : {"SendMail", "SmartReply"}, status : StatusNumbers.compose]
      [] command.is = "change" -> SyncDocuments({"Change", "Add"})
      [] command.is = "calendar" -> SyncDocuments({"Add", "Change", "Delete"})
      [] command.is = "move" ->
            [overall : {NoField} \union StatusNumbers.move, id : Identifiers, status : StatusNumbers.move,
             server : {NoField, "id"}]
      [] command.is = "respond" -> [status : StatusNumbers.respond, id : Identifiers]
      [] command.is = "replies" -> [outer : StatusNumbers.replies, inner : {NoField} \union StatusNumbers.replies]

\* What the numbers mean: success, a reason why nothing was done, or neither.
Success(command, status) == status = IF command.is = "move" THEN 3 ELSE 1
Reason(command, status) ==
    CASE command.is = "compose" ->
            status \in 101 .. 177 /\ status \notin {110, 111, 118, 149, 169, 170} \union (132 .. 136)
                                                   \union (151 .. 165) \union (173 .. 176)
      [] command.is \in {"change", "calendar"} -> status \in (3 .. 9) \union {12, 13, 15, 16}
      [] command.is = "move" -> status \in {1, 2, 4, 5, 7}
      [] command.is = "respond" -> status \in 2 .. 4
      [] command.is = "replies" -> status \in (2 .. 7) \union (101 .. 109) \union (112 .. 174)

ItsItem(command, document) ==
    /\ document.item # NoField /\ document.item.id # "other"
    /\ document.item.name = IF command.is = "change" THEN "Change" ELSE command.name

\* The numbers a document gives, the outermost first.  A folder or an item that
\* is not the one of the write says nothing.
Levels(command, document) ==
    CASE command.is \in {"change", "calendar"} ->
            LET own == document.folder = "own"
            IN  [overall |-> document.status,
                 folder |-> IF own THEN document.collection ELSE NoField,
                 item |-> IF own /\ ItsItem(command, document) THEN document.item.status ELSE NoField]
      [] command.is = "replies" -> [overall |-> document.outer, folder |-> document.inner, item |-> NoField]
      [] OTHER -> [overall |-> document.status, folder |-> NoField, item |-> NoField]

About(command, document) ==
    CASE command.is = "compose" -> document.name = command.name
      [] command.is \in {"change", "calendar"} -> TRUE
      [] command.is = "move" -> document.overall = NoField /\ document.id = "own"
      [] command.is = "respond" -> document.id # "other"
      [] command.is = "replies" -> TRUE

\* The fields that come with a success: what is new has a name, and no other
\* item is told of.
Complete(command, document) ==
    CASE command.is = "compose" -> FALSE
      [] command.is \in {"change", "calendar"} ->
            /\ document.folder = "own" /\ document.key = "key"
            /\ document.item = NoField \/ ItsItem(command, document)
            /\ command = [is |-> "calendar", name |-> "Add"] =>
                   document.item # NoField /\ document.item.id = "own" /\ document.item.server = "id"
      [] command.is = "move" -> document.server = "id"
      [] command.is = "respond" -> TRUE
      [] command.is = "replies" -> document.inner # NoField

\* A level that does not stand in the way of a success.
Passes(command, number) == number = NoField \/ Success(command, number)

AllSuccess(command, document) ==
    /\ document \notin {NoBody, Garbled}
    /\ About(command, document) /\ Complete(command, document)
    /\ LET levels == Levels(command, document)
       IN  Passes(command, levels.overall) /\ Passes(command, levels.folder) /\ Passes(command, levels.item)

\* The outermost number that is no success gives the reason.
Refusal(command, document) ==
    /\ document \notin {NoBody, Garbled}
    /\ About(command, document)
    /\ LET levels == Levels(command, document)
           refuses(number) == ~Passes(command, number) /\ Reason(command, number)
       IN  \/ refuses(levels.overall)
           \/ Passes(command, levels.overall) /\ refuses(levels.folder)
           \/ Passes(command, levels.overall) /\ Passes(command, levels.folder) /\ refuses(levels.item)

\* Exchange never claims a success of something it did not do, nor a refusal of
\* something it did.
Truthful(command, executed, http, document) ==
    /\ http \in {401, 403, 429, 449} => ~executed
    /\ http = 200 =>
        /\ AllSuccess(command, document) \/ (command.is = "compose" /\ document = NoBody) => executed
        /\ Refusal(command, document) => ~executed

AskWrite ==
    /\ question.is = "write"
    /\ \E http \in Codes, document \in Documents(question.command) :
        /\ http = 200 \/ document = NoBody
        /\ Truthful(question.command, question.executed, http, document)
        /\ question' = [is |-> "acknowledged", command |-> question.command, executed |-> question.executed,
                        http |-> http, document |-> document]
        /\ answer' = [is |-> Verdict(question.command, [http |-> http, document |-> document])]

\* A row says succeeded only of what was done, and failed only of what was not;
\* what was not done is all that is repeated.  What Exchange says in full is
\* understood.
VerdictsAreTrue ==
    question.is = "acknowledged" =>
        LET understood == answer.is # "unknown"
        IN  /\ answer.is = "succeeded" => question.executed
            /\ answer.is \in {"failed", "again", "purged"} => ~question.executed
            /\ question.http = 200 /\ AllSuccess(question.command, question.document) => understood
            /\ question.http \in {401, 403, 429, 449} => understood

----
(* Automatic replies: Exchange has done what was asked, or something else. *)

States == {"disabled", "enabled", "scheduled"}
Times == Moments \union {Unstated}

ReplyQuestions ==
    [is : {"replies"}, state : States, start : Times, end : Times, internal : Messages, external : Messages,
     audience : {"none", "known", "all"}, now : Moments]

AskReplies ==
    /\ question.is = "replies" /\ answer = Nothing
    /\ answer' = Requested(question, question.now)
    /\ UNCHANGED question

\* Settings tell for some audiences whether and what they are answered.
AreSettings(settings) ==
    /\ settings.state \in States /\ settings.start \in Times /\ settings.end \in Times
    /\ DOMAIN settings.messages \subseteq Audiences
    /\ \A a \in DOMAIN settings.messages : settings.messages[a].enabled \in BOOLEAN

AskReadBack ==
    /\ question.is = "replies" /\ answer # Nothing /\ answer # NotSent
    /\ \E observed \in Observations(answer) :
        /\ AreSettings(observed)
        /\ question' = [is |-> "read back", input |-> question, requested |-> answer, observed |-> observed]
        /\ answer' = [is |-> ReadBack(answer, observed)]

\* What a sender is answered at an instant.
Replied(settings, a, t) ==
    IF \/ settings.state = "disabled"
       \/ settings.state = "scheduled" /\ t \notin settings.start .. settings.end - 1
       \/ a \notin DOMAIN settings.messages
       \/ ~settings.messages[a].enabled
    THEN "nothing" ELSE settings.messages[a].text.words

\* What the user wanted a sender to be answered.
Wanted(input, a, t) ==
    IF \/ input.state = "disabled"
       \/ input.state = "scheduled" /\ t \notin input.start .. input.end - 1
       \/ a = "known" /\ input.audience = "none"
       \/ a = "unknown" /\ input.audience # "all"
    THEN "nothing" ELSE IF a = "internal" THEN input.internal.words ELSE input.external.words

\* The same settings, but for how texts are written.
SameButForm(settings, others) ==
    /\ settings.state = others.state /\ settings.start = others.start /\ settings.end = others.end
    /\ DOMAIN settings.messages = DOMAIN others.messages
    /\ \A a \in DOMAIN settings.messages :
        LET message == settings.messages[a]
            other == others.messages[a]
        IN  /\ message.enabled = other.enabled
            /\ message.enabled /\ message.text # Unstated =>
                   other.text # Unstated /\ message.text.words = other.text.words

\* An update is called a success only if every sender is from now on answered
\* what the user asked for; settings that were stored as asked are called one.
RepliesAreAsAsked ==
    question.is = "read back" =>
        /\ answer.is = "succeeded" =>
               \A a \in Audiences, t \in Moments :
                   Replied(question.observed, a, t) = Wanted(question.input, a, t)
        /\ SameButForm(question.requested, question.observed) => answer.is = "succeeded"

\* What is reported of a write is what became of it.
WritesAreJudgedTruly == VerdictsAreTrue /\ RepliesAreAsAsked

----
AskProtocol == AskWrite \/ AskReplies \/ AskReadBack
ProtocolQuestions == WriteQuestions \union ReplyQuestions

ProtocolInit == question \in ProtocolQuestions /\ answer = Nothing
ProtocolSpec == ProtocolInit /\ [][AskProtocol]_<<question, answer>>
====
