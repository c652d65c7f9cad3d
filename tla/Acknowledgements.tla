---- MODULE Acknowledgements ----
(***************************************************************************)
(* What becomes of Exchange's answer to a write: parsing (crates/eas/src/  *)
(* protocol: compose_response.rs, mutation_response.rs, mail_mutation.rs,  *)
(* calendar_mutation_response.rs, meeting_response.rs, oof.rs), the client *)
(* (client.rs, client/), the session (crates/app/src/backend/eas_mailbox)  *)
(* and the row of the operation (runtime/mutation_journal.rs and others).  *)
(*                                                                         *)
(* An answer is an HTTP status and a document: NoBody, Garbled, or the    *)
(* fields that are read of it, each with a value or NoField.  Repeated and *)
(* nested fields are Garbled documents.  Identifiers are own or another's.*)
(***************************************************************************)
EXTENDS Integers

CONSTANTS NoField, NoBody, Garbled

\* A parsed answer, or an error.
Told(status, key) == [is |-> "told", status |-> status, key |-> key]
Error(kind) == [is |-> "error", kind |-> kind]
NotUnderstood == Error("protocol")

----
(* Parsing, command by command *)

\* Reasons for which Exchange did not send a message.
DefiniteRejections ==
    (101 .. 109) \union (112 .. 117) \union (119 .. 131) \union (137 .. 148)
    \union {150, 166, 167, 168, 171, 172, 177}

\* A message was sent if there is no document; a document tells why it was not.
ParseCompose(document, name) ==
    IF document = NoBody THEN Told(1, NoField)
    ELSE IF document.name # name \/ document.status \notin DefiniteRejections THEN NotUnderstood
    ELSE IF document.status = 140 THEN Error("wipe")
    ELSE Told(document.status, NoField)

\* Mutant: 14 is taken for a rejection.
SyncStatusesAll == {1, 14, 15, 16} \union (3 .. 9) \union {12, 13}

\* 14 may follow a change that was made.
SyncStatuses == {1, 15, 16} \union (3 .. 9) \union {12, 13}

Usable(key) == key \notin {NoField, "0"}

RequireStatus(status) ==
    CASE status = 1 -> Told(1, NoField)
      [] status = 3 -> Error("key")
      [] OTHER      -> NotUnderstood

\* parse_mail_change: an answer that does not mention the change confirms it.
ParseChange(document) ==
    LET item == document.item
        overall == IF document.status = NoField THEN Told(1, NoField) ELSE RequireStatus(document.status)
        collection == RequireStatus(document.collection)
    IN  IF overall.is = "error" THEN overall
        ELSE IF document.folder # "own" THEN NotUnderstood
        ELSE IF collection.is = "error" THEN collection
        ELSE IF ~Usable(document.key) THEN NotUnderstood
        ELSE IF item = NoField THEN Told(1, document.key)
        ELSE IF item.name # "Change" \/ item.id = "other" \/ item.status \notin SyncStatuses THEN NotUnderstood
        ELSE Told(item.status, document.key)

\* parse_item: the item itself, by the name of the command and its identifier.
ItemUnderstood(item, name) ==
    /\ item.name = name /\ item.status \in SyncStatuses
    /\ item.id # "other"
    /\ name = "Add" => item.id # NoField /\ (item.status = 1 => item.server # NoField)

\* The first failure of the levels of an answer.
FirstFailure(root, collection, item) ==
    IF root # 1 THEN root ELSE IF collection # 1 THEN collection ELSE item

\* calendar_mutation_response.rs parse: only an Add has to be mentioned.
ParseCalendar(document, name) ==
    LET item == document.item
        root == IF document.status = NoField THEN 1 ELSE document.status
        status == FirstFailure(root, document.collection, IF item = NoField THEN 1 ELSE item.status)
    IN  IF root \notin SyncStatuses THEN NotUnderstood
        ELSE IF document.collection = NoField
             THEN IF root # 1 THEN Told(root, NoField) ELSE NotUnderstood
        ELSE IF \/ document.folder # "own" \/ document.collection \notin SyncStatuses
                \/ root = 1 /\ document.collection = 1 /\ ~Usable(document.key)
                \/ item # NoField /\ ~ItemUnderstood(item, name)
                \/ status = 1 /\ name = "Add" /\ item = NoField
             THEN NotUnderstood
        ELSE Told(status, document.key)

\* parse_move: the item that moved has a new identifier.
ParseMove(document) ==
    IF \/ document.overall # NoField \/ document.id # "own"
       \/ document.status \notin {1, 2, 3, 4, 5, 7}
       \/ document.status = 3 /\ document.server = NoField
    THEN NotUnderstood
    ELSE Told(document.status, NoField)

\* parse_response of a meeting: the identifier may be missing, but is no other.
ParseResponse(document) ==
    IF document.status \notin 1 .. 4 \/ document.id = "other" THEN NotUnderstood
    ELSE Told(document.status, NoField)

Common == (101 .. 156) \union (160 .. 174)

\* parse_oof_set: the inner status counts if the outer one is a success.
ParseReplies(document) ==
    IF document.outer \notin Common \union (1 .. 7) THEN NotUnderstood
    ELSE IF document.outer # 1 THEN Told(document.outer, NoField)
    ELSE IF document.inner \notin Common \union {1, 2, 5, 6} THEN NotUnderstood
    ELSE Told(document.inner, NoField)

Parse(command, document) ==
    IF document = Garbled \/ (document = NoBody /\ command.is # "compose") THEN NotUnderstood
    ELSE CASE command.is = "compose"  -> ParseCompose(document, command.name)
           [] command.is = "change"   -> ParseChange(document)
           [] command.is = "calendar" -> ParseCalendar(document, command.name)
           [] command.is = "move"     -> ParseMove(document)
           [] command.is = "respond"  -> ParseResponse(document)
           [] command.is = "replies"  -> ParseReplies(document)

----
(* The client *)

\* normalize_command_response and require_http_success, after transport.rs
\* normalize.
Normalize(http) ==
    CASE http \in {200, 201, 204} -> Told(http, NoField)
      [] http = 401 -> Error("authentication")
      [] http = 403 -> Error("access")
      [] http = 449 -> Error("policy")
      [] http = 429 -> Error("throttled")
      [] http = 503 -> Error("unavailable")
      [] OTHER -> NotUnderstood

\* mutation_error: only these errors prove that nothing was done.
MutationError(result) ==
    IF result.is = "error"
       /\ result.kind \notin {"authentication", "access", "policy", "key", "wipe", "throttled"}
    THEN Error("unknown") ELSE result

\* compose.rs parse_response, calendar_mutation_result and set_oof.
Client(command, answer) ==
    LET http == MutationError(Normalize(answer.http))
        parsed == MutationError(Parse(command, answer.document))
    IN  IF http.is = "error" THEN http
        ELSE IF command.is = "compose" /\ answer.http # 200 THEN Error("unknown")
        ELSE IF parsed.is = "error" THEN parsed
        ELSE IF command.is = "calendar" /\ parsed.status = 3 THEN Error("key")
        ELSE IF command.is = "replies" /\ parsed.status \in {110, 111} THEN Error("unknown")
        ELSE parsed

----
(* The session and the row *)

SuccessOf(command) == IF command.is = "move" THEN 3 ELSE 1

\* require_success, require_status and their likes.
Confirmed(command, result) == result.is = "told" /\ result.status = SuccessOf(command)

\* The request is repeated: under a new policy key, or for calendars under a
\* new SyncKey.
Repeated(command, result) ==
    \/ result = Error("policy")
    \/ result = Error("key") /\ command.is = "calendar"

\* finish_write, finish_mail_mutation, calendar_failure of a first step, and
\* auto_reply_set_result: what the row says, or what is done instead.
Verdict(command, answer) ==
    LET result == Client(command, answer)
    IN  CASE Confirmed(command, result) -> "succeeded"
          [] Repeated(command, result) -> "again"
          [] result = Error("wipe") -> "purged"
          [] result = Error("unknown") -> "unknown"
          [] OTHER -> "failed"
====
