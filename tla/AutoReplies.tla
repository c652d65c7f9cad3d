---- MODULE AutoReplies ----
(***************************************************************************)
(* Automatic replies (crates/app/src/runtime/auto_reply_support.rs;        *)
(* crates/eas/src/protocol/oof.rs): what an update asks of Exchange, which *)
(* settings are accepted from it, and when they count as those asked for.  *)
(* The requests and records of an update are in CalendarWrites.            *)
(*                                                                         *)
(* Settings have a state, an interval and, for some audiences, whether     *)
(* they are answered and with what.  A text is its words and how they are  *)
(* written down: as HTML or with which line ends.  Blank and Excessive     *)
(* stand for messages without words and messages that are not allowed.     *)
(***************************************************************************)
EXTENDS Integers

CONSTANTS Unstated, Blank, Excessive

Audiences == {"internal", "known", "unknown"}
NotSent == [is |-> "not sent"]

\* Line ends are written alike, HTML is reduced to its text.
Words(text) == text.words

Ordered(settings) ==
    settings.start # Unstated /\ settings.end # Unstated /\ settings.start < settings.end

\* Dates belong to a schedule, which lies ahead.
DatesOfState(input, now) ==
    IF input.state = "scheduled" THEN Ordered(input) /\ input.end > now
    ELSE input.start = Unstated /\ input.end = Unstated

ValidMessage(message) == message \notin {Unstated, Blank, Excessive}

\* Disabling changes nothing else; otherwise there is one message for the own
\* organisation and one for others, if any of them are answered.
MessagesOfState(input) ==
    IF input.state = "disabled"
    THEN input.internal = Unstated /\ input.external = Unstated /\ input.audience = "none"
    ELSE /\ ValidMessage(input.internal)
         /\ IF input.audience = "none" THEN input.external = Unstated ELSE ValidMessage(input.external)

\* requested: the messages are by audience; what is absent is left as it is.
Requested(input, now) ==
    IF ~DatesOfState(input, now) \/ ~MessagesOfState(input) THEN NotSent
    ELSE [is |-> "settings", state |-> input.state, start |-> input.start, end |-> input.end,
          messages |->
            IF input.state = "disabled" THEN <<>>
            ELSE [internal |-> [enabled |-> TRUE, text |-> input.internal],
                  known |-> [enabled |-> input.external # Unstated, text |-> input.external],
                  unknown |-> [enabled |-> input.audience = "all", text |-> input.external]]]

\* parse_oof_get: a schedule without its interval is no answer.
Readable(settings) == settings.state = "scheduled" => Ordered(settings)

\* The first part of matches.
SameTimes(requested, observed) ==
    /\ requested.state = observed.state
    /\ requested.state = "scheduled" =>
           requested.start = observed.start /\ requested.end = observed.end

\* matches: every audience of the request is answered as asked.
Matching(requested, observed) ==
    /\ SameTimes(requested, observed)
    /\ \A a \in DOMAIN requested.messages :
        /\ a \in DOMAIN observed.messages
        /\ LET asked == requested.messages[a]
               actual == observed.messages[a]
           IN  /\ asked.enabled = actual.enabled
               /\ asked.enabled => actual.text # Unstated /\ Words(asked.text) = Words(actual.text)

\* auto_reply_set_result after the acknowledgement: the read-back.
ReadBack(requested, observed) ==
    IF Readable(observed) /\ Matching(requested, observed) THEN "succeeded" ELSE "partial"
====
