---- MODULE Invitations ----
(***************************************************************************)
(* Who is told of a change to a meeting, and whom an answer concerns       *)
(* (crates/app/src/runtime: calendar_writes.rs, calendar_prepare.rs,       *)
(* calendar_respond.rs, calendar_response_prepare.rs, calendar_mime.rs;    *)
(* calendar_series: edit.rs, exceptions.rs, split.rs, notifications.rs,    *)
(* response.rs).  The steps of a plan and their failures are in            *)
(* CalendarWrites, the dates of a series in Recurrence.                    *)
(*                                                                         *)
(* An event is a single one or a series; its slots are the ordinals first  *)
(* to last.  An exception removes a slot or gives it attendees or content  *)
(* of its own.  An absent field of an exception or an input is the empty   *)
(* set, a present one has one element (Patch).  Content is subject, body,  *)
(* place and time together.                                                *)
(***************************************************************************)
EXTENDS Integers, Sequences

CONSTANT
    People          \* the addresses of attendees

Out == 0            \* not an attendee; 1 and 2 are required and optional
All == 0            \* no slot: an event as a whole, or a reference to it

Refused == [steps |-> <<>>, notices |-> <<>>]

Apply(value, patch) == IF patch = {} THEN value ELSE CHOOSE new \in patch : TRUE
Merge(former, patch) == IF patch = {} THEN former ELSE patch

Invited(attendees) == {p \in People : attendees[p] # Out}
NoChange == [deleted |-> FALSE, attendees |-> {}, content |-> {}]
Deleted == [NoChange EXCEPT !.deleted = TRUE]

ChangeOf(event, slot) ==
    IF slot \in DOMAIN event.exceptions THEN event.exceptions[slot] ELSE NoChange

\* selected: an occurrence with its exception applied.
Occurs(event, slot) == slot \in event.first .. event.last /\ ~ChangeOf(event, slot).deleted
AttendeesAt(event, slot) == Apply(event.attendees, ChangeOf(event, slot).attendees)
ContentAt(event, slot) == Apply(event.content, ChangeOf(event, slot).content)

\* item_attendees: of the event and of the exceptions that still take place.
Everyone(event) ==
    LET kept == {slot \in DOMAIN event.exceptions : ~event.exceptions[slot].deleted}
    IN  Invited(event.attendees)
        \union UNION {UNION {Invited(a) : a \in event.exceptions[slot].attendees} : slot \in kept}

Ownership(event) ==
    IF Everyone(event) = {} /\ ~event.meeting THEN "personal"
    ELSE IF event.mine THEN "organizer" ELSE "attendee"

RefreshStatus(event) == [event EXCEPT !.meeting = Everyone(event) # {}]

\* calendar_prepare::update, and the new rule of the plans that allow one.
Update(event, input) ==
    RefreshStatus([event EXCEPT
        !.attendees = Apply(@, input.attendees), !.content = Apply(@, input.content),
        !.last = Apply(@, input.last), !.recurring = @ \/ input.last # {}])

\* Every exception keeps its slot.
Preserves(event) == DOMAIN event.exceptions \subseteq event.first .. event.last

----
(* Messages *)

Notice(event, slot, to, method) ==
    IF to = {} THEN <<>> ELSE <<[event |-> event, slot |-> slot, to |-> to, method |-> method]>>

Step(does, event) == [does |-> does, event |-> event]

\* notifications::recipients: a change of the attendees alone concerns those
\* who are new to the event or have another role.
Recipients(old, new) ==
    IF [old EXCEPT !.attendees = new.attendees, !.meeting = new.meeting] # new
    THEN Everyone(new)
    ELSE {p \in Invited(new.attendees) : old.attendees[p] # new.attendees[p]}

\* What a calendar shows of an event to one of its attendees.
Entries(event, p) ==
    {[uid |-> event.uid, slot |-> slot, content |-> ContentAt(event, slot),
      role |-> AttendeesAt(event, slot)[p]] :
        slot \in {s \in event.first .. event.last : Occurs(event, s) /\ AttendeesAt(event, s)[p] # Out}}

\* calendar: a cancellation lists, for the event and for each exception, those
\* of the recipients who are its attendees; an invitation lists all attendees.
Deliver(shown, notice, p) ==
    LET event == notice.event
        concerns(e) == e.uid = event.uid /\ notice.slot \in {All, e.slot}
        listed(e) == \/ p \in Invited(event.attendees)
                     \/ e.slot \in DOMAIN event.exceptions /\ p \in Invited(AttendeesAt(event, e.slot))
    IN  CASE p \notin notice.to -> shown
          [] p \in notice.to /\ notice.method = "request" ->
                {e \in shown : ~concerns(e)} \union {e \in Entries(event, p) : concerns(e)}
          [] p \in notice.to /\ notice.method = "cancel" ->
                {e \in shown : ~(concerns(e) /\ listed(e))}

Received(shown, notices, p) ==
    LET after[n \in 0 .. Len(notices)] ==
            IF n = 0 THEN shown ELSE Deliver(after[n - 1], notices[n], p)
    IN  after[Len(notices)]

----
(* Plans *)

\* calendar_create
Create(event) ==
    [steps |-> <<Step("create", RefreshStatus(event))>>,
     notices |-> Notice(event, All, Invited(event.attendees), "request")]

\* resolve_scope
ResolveScope(event, input) ==
    IF ~event.recurring
    THEN IF input.slot = All /\ input.scope \in {"absent", "series"} THEN "series" ELSE "refused"
    ELSE IF input.slot = All
    THEN IF input.scope = "series" THEN "series" ELSE "refused"
    ELSE IF input.scope = "absent" \/ ~Occurs(event, input.slot) THEN "refused"
    ELSE IF input.scope = "following" /\ input.slot = event.first THEN "series" ELSE input.scope

\* whole
EditWhole(event, input) ==
    LET new == Update(event, input)
    IN  CASE input.is = "update" /\ ~Preserves(new) -> Refused
          [] input.is = "update" /\ Preserves(new) ->
                [steps |-> <<Step("update", new)>>,
                 notices |-> Notice(new, All, Recipients(event, new), "request")
                             \o Notice(event, All, Everyone(event) \ Everyone(new), "cancel")]
          [] OTHER ->
                [steps |-> <<Step("delete", event)>>,
                 notices |-> IF input.is = "delete" THEN <<>>
                             ELSE Notice(event, All, Everyone(event), "cancel")]

\* exceptions::edit: only what the input gives becomes the occurrence's own.
EditOccurrence(event, input) ==
    LET slot == input.slot
        former == ChangeOf(event, slot)
        change == IF input.is # "update" THEN Deleted
                  ELSE [deleted |-> FALSE, attendees |-> Merge(former.attendees, input.attendees),
                        content |-> Merge(former.content, input.content)]
        changed == RefreshStatus([event EXCEPT
            !.exceptions = [s \in DOMAIN @ \union {slot} |-> IF s = slot THEN change ELSE @[s]]])
        before == Invited(AttendeesAt(event, slot))
        after == Invited(AttendeesAt(changed, slot))
    IN  IF input.is = "update" /\ input.last # {} THEN Refused
        ELSE [steps |-> <<Step("update", changed)>>,
              notices |-> CASE input.is = "update" -> Notice(changed, slot, after, "request")
                                                      \o Notice(event, slot, before \ after, "cancel")
                            [] input.is = "cancel" -> Notice(event, slot, before, "cancel")
                            [] input.is = "delete" -> <<>>]

Part(event, from, to) ==
    [event EXCEPT !.first = from, !.last = to,
                  !.exceptions = [slot \in DOMAIN @ \cap (from .. to) |-> @[slot]]]

\* Mutant: those who were invited only to later occurrences are not told.
GoneFromSeries(old, shortened) == Invited(old.attendees) \ Everyone(shortened)

\* Those who lose everything when the old series ends early.
GoneFrom(old, shortened) == Everyone(old) \ Everyone(shortened)

\* split::edit: a new series with a UID of its own, and the old one until then.
EditFollowing(event, input) ==
    LET tail == [Part(event, input.slot, event.last) EXCEPT !.uid = @ + 1]
        new == Update(tail, input)
        shortened == RefreshStatus(Part(event, event.first, input.slot - 1))
        creates == input.is = "update"
    IN  IF creates /\ ~Preserves(new) THEN Refused
        ELSE [steps |-> (IF creates THEN <<Step("create", new)>> ELSE <<>>)
                        \o <<Step("update", shortened)>>,
              notices |-> (IF creates THEN Notice(new, All, Everyone(new), "request") ELSE <<>>)
                          \o Notice(shortened, All, Everyone(shortened), "request")
                          \o Notice(event, All, GoneFrom(event, shortened), "cancel")]

\* plan: which of them an input asks for
Plan(event, input) ==
    LET scope == ResolveScope(event, input)
        allowed == CASE input.is = "update" -> {"personal", "organizer"}
                     [] input.is = "delete" -> {"personal"}
                     [] input.is = "cancel" -> {"organizer"}
    IN  CASE scope = "refused" \/ Ownership(event) \notin allowed -> Refused
          [] OTHER -> CASE scope = "series" -> EditWhole(event, input)
                        [] scope = "occurrence" -> EditOccurrence(event, input)
                        [] scope = "following" -> EditFollowing(event, input)

----
(* Answers to invitations: the slot Exchange is told, and the one in the    *)
(* reply to the organizer, if there is a reply.                             *)

NoAnswer == [exchange |-> {}, reply |-> {}]

\* respond_to_event and response::prepare
RespondToEvent(event, input) ==
    LET scope == ResolveScope(event, input)
        slot == IF scope = "occurrence" THEN input.slot ELSE All
    IN  IF Ownership(event) # "attendee" \/ input.scope = "following" \/ scope = "refused" THEN NoAnswer
        ELSE [exchange |-> {slot}, reply |-> IF event.requested THEN {slot} ELSE {}]

\* respond_to_mail and calendar_response_prepare: only invitations to a whole
\* event can be answered by their mail.
RespondToMail(mail, input) ==
    IF /\ input.scope \in {"absent", "series"}
       /\ mail.kind = "request" /\ mail.requested /\ mail.instance \in {"single", "master"}
    THEN [exchange |-> {All}, reply |-> {All}] ELSE NoAnswer
====
