---- MODULE MeetingMessages ----
(***************************************************************************)
(* Questions about meetings (Invitations): who is told of an edit of which *)
(* event, and to what an answer to an invitation goes.                     *)
(***************************************************************************)
EXTENDS Questions, Invitations

CONSTANTS
    Roles,              \* of attendees, Out among them
    EventContents,
    Meetings,           \* the events that are edited and answered
    Slots,              \* the slots that an input may name, or All
    Edits               \* what is asked of them

Patches == [deleted : BOOLEAN, attendees : {{}} \union {{a} : a \in [People -> Roles]},
            content : {{}} \union {{c} : c \in EventContents}]

\* The exceptions of an event are of its own slots.
IsEvent(event) ==
    /\ event \in [uid : Int, first : Nat \ {0}, last : Int, recurring : BOOLEAN, content : EventContents,
                  mine : BOOLEAN, attendees : [People -> Roles], meeting : BOOLEAN, requested : BOOLEAN,
                  exceptions : [DOMAIN event.exceptions -> Patches]]
    /\ Preserves(event)

Scopes == {"absent", "series", "occurrence", "following"}

Updates ==
    [is : {"update"}, scope : Scopes, slot : Slots, attendees : {{}} \union {{a} : a \in [People -> Roles]},
     content : {{}} \union {{c} : c \in EventContents}, last : {{}} \union {{s} : s \in Slots}]
Removals == [is : {"delete", "cancel"}, scope : Scopes, slot : Slots]

ASSUME MeetingsAreEvents == \A event \in Meetings : IsEvent(event)
ASSUME SlotsAreNumbers == Slots \subseteq Int
ASSUME EditsAreInputs == Edits \subseteq Updates \union Removals

Mails == [kind : {"request", "other"}, requested : BOOLEAN,
          instance : {"single", "master", "occurrence", "exception"}]

MeetingQuestions == [is : {"meeting"}, event : Meetings] \union [is : {"mail"}, mail : Mails]

AskCreate ==
    /\ question.is = "meeting" /\ DOMAIN question.event.exceptions = {}
    /\ question' = [is |-> "create", event |-> question.event]
    /\ answer' = Create(question.event)

AskEdit ==
    /\ question.is = "meeting"
    /\ \E input \in Edits :
        LET plan == Plan(question.event, input)
        IN  /\ plan # Refused
            /\ question' = [is |-> "edit", event |-> question.event, input |-> input]
            /\ answer' = plan

\* The same events, received from somebody else.
AskResponse ==
    /\ question.is = "meeting"
    /\ \E scope \in Scopes, slot \in Slots, requested \in BOOLEAN :
        LET event == [question.event EXCEPT !.mine = FALSE, !.meeting = TRUE, !.requested = requested]
            input == [scope |-> scope, slot |-> slot]
        IN  /\ question' = [is |-> "response", event |-> event, input |-> input]
            /\ answer' = RespondToEvent(event, input)

AskMailResponse ==
    /\ question.is = "mail"
    /\ \E scope \in Scopes :
        /\ question' = [is |-> "mail response", mail |-> question.mail, scope |-> scope]
        /\ answer' = RespondToMail(question.mail, [scope |-> scope])

AskMeeting == AskCreate \/ AskEdit \/ AskResponse \/ AskMailResponse

MeetingInit == question \in MeetingQuestions /\ answer = Nothing
MeetingSpec == MeetingInit /\ [][AskMeeting]_<<question, answer>>

----
\* What has become of an event, and of the series that may continue it.
Written == {answer.steps[n].event : n \in {k \in DOMAIN answer.steps : answer.steps[k].does # "delete"}}

ShownBefore(p) == IF question.is = "create" THEN {} ELSE Entries(question.event, p)
ShownAfter(p) == UNION {Entries(event, p) : event \in Written}

\* Nothing changed but the attendees of an event as a whole.
RosterOnly(event) ==
    /\ question.is = "edit"
    /\ [question.event EXCEPT !.attendees = event.attendees, !.meeting = event.meeting] = event

\* Who is taken off a series, and nothing else changes, but stays invited to an
\* occurrence.
KeptSilently(p) ==
    \E event \in Written : /\ RosterOnly(event)
                           /\ p \in Invited(question.event.attendees) \ Invited(event.attendees)
                           /\ p \in Everyone(event)

\* After the messages of an edit the calendar of everybody else shows of the
\* event, and of the series that may continue it, what the organizer's shows:
\* the same slots, content and role, and nothing that is gone.  There is one
\* exception (KeptSilently).  When only attendees of the event as a whole
\* change, and some slot is as the event says, nobody gets a message to whom
\* nothing happens.
AttendeesAreTold ==
    question.is \in {"create", "edit"} =>
        LET event == question.event
        IN  /\ \A p \in People : Received(ShownBefore(p), answer.notices, p) = ShownAfter(p) \/ KeptSilently(p)
            /\ \A e \in Written : e.meeting = (Everyone(e) # {})
            /\ /\ \E e \in Written : RosterOnly(e)
               /\ question.input.scope # "occurrence"
               /\ \E slot \in event.first .. event.last : slot \notin DOMAIN event.exceptions
               => \A n \in DOMAIN answer.notices : \A p \in answer.notices[n].to : ShownBefore(p) # ShownAfter(p)

\* Exchange and the organizer are given the same answer, to the one occurrence
\* or to the whole event that was asked for, and never to a slot that is gone.
AnswersReachTheirEvent ==
    question.is = "response" /\ answer # NoAnswer =>
        LET event == question.event
            input == question.input
            meant == IF event.recurring /\ input.scope = "occurrence" THEN input.slot ELSE All
        IN  /\ answer.exchange = {meant}
            /\ answer.reply = IF event.requested THEN {meant} ELSE {}
            /\ input.slot # All => Occurs(event, input.slot)

\* An invitation to one occurrence is never answered for the whole series.
MailsAreAnsweredWhole ==
    question.is = "mail response" /\ answer # NoAnswer => question.mail.instance \in {"single", "master"}

\* Everybody learns what concerns him: attendees of edits, organizers of answers.
PeopleAreTold == AttendeesAreTold /\ AnswersReachTheirEvent /\ MailsAreAnsweredWhole
====
