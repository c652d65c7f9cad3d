---- MODULE CalendarSession ----
(***************************************************************************)
(* The Calendar collection of a session and its bindings from UIDs to      *)
(* server ids (crates/app/src/backend/eas_mailbox: calendar_binding.rs,    *)
(* calendar_write.rs, calendar_agenda.rs, calendar.rs).                    *)
(*                                                                         *)
(* Exchange names an item by an id that it may assign anew whenever a      *)
(* synchronisation starts over with key "0".  A change or deletion carries *)
(* an id and the SyncKey; a meeting response carries the id alone.         *)
(*                                                                         *)
(* One writer of the process is under way, because it owns the account's   *)
(* lock; it takes the session's mutex section by section.  An agenda scan  *)
(* of the same process takes the mutex without the account's lock.  Other  *)
(* processes of the account start synchronisations over at any time.       *)
(*                                                                         *)
(* Abstractions: one Calendar folder; a reference is the UID it leads to;  *)
(* contents of events are left out; a request and its answer are one step  *)
(* when only the waiting session could see the difference; after 449 the   *)
(* same request is sent again; the wipe of an account is in MailSync.      *)
(***************************************************************************)
EXTENDS Integers, FiniteSets, Functions

CONSTANTS
    Uids,           \* UIDs of events, existing or not
    MaxPages,       \* MAX_CALENDAR_SYNC_PAGES and MAX_CALENDAR_PAGES
    MaxKeys         \* bound: SyncKeys Exchange gives out

Ids == 1..Cardinality(Uids)
NoId == 0
Numbering == Injection(Uids, Ids)
Nowhere == [id |-> NoId, key |-> 0]
NoSource == [id |-> NoId]

ASSUME BoundsAreNatural == IsFiniteSet(Uids) /\ {MaxPages, MaxKeys} \subseteq Nat

VARIABLES
    box,            \* the UIDs of the events in the mailbox
    number,         \* the ids Exchange has assigned since it last started over
    srv,            \* SyncKeys: the last given out, the current, the one before
    key,            \* the session's SyncKey, 0 for a new collection
    bindings,       \* calendar_bindings
    writer,         \* the write call that owns the account's lock
    agenda,         \* the agenda scan of the same process that has the mutex
    ran,            \* history: the UIDs Exchange changed for the writer
    overtaken       \* history: a scan came after the last check of the writer's binding

server == <<box, number, srv>>
session == <<key, bindings>>
vars == <<server, session, writer, agenda, ran, overtaken>>

NoWriter == [at |-> "off"]
NoScan == [at |-> "off"]

Init ==
    /\ box \in SUBSET Uids
    /\ number \in Numbering
    /\ srv = [last |-> 0, now |-> 0, before |-> 0]
    /\ key = 0
    /\ bindings = [u \in Uids |-> Nowhere]
    /\ writer = NoWriter
    /\ agenda = NoScan
    /\ ran = {}
    /\ overtaken = FALSE

----
(* Exchange *)

\* The keys under which Exchange accepts requests; the older one means that
\* the answer which carried the newer one was lost.
Known(k) == k # 0 /\ k \in {srv.now, srv.before}

NextKey(k) ==
    /\ srv.last < MaxKeys
    /\ srv' = [last |-> srv.last + 1, now |-> srv.last + 1, before |-> k]

\* Key "0" returns a first key; ids may be assigned anew.
StartOver ==
    /\ NextKey(0)
    /\ number' \in Numbering
    /\ UNCHANGED box

\* Another process of the account synchronises the Calendar.
OtherSession ==
    /\ StartOver
    /\ UNCHANGED <<session, writer, agenda, ran, overtaken>>

\* A page of changes under k leads to the next key; an empty body keeps the key.
Tell(k, changes) ==
    /\ Known(k)
    /\ IF changes = {} THEN UNCHANGED srv ELSE NextKey(k)
    /\ UNCHANGED <<box, number>>

\* The event an id stands for, if it still exists.
Named(id) == {u \in box : number[u] = id}

\* Exchange changes or deletes an event.
Execute(u) ==
    /\ box' = IF writer.does = "delete" THEN box \ {u} ELSE box
    /\ ran' = ran \union {u}

----
(* The session under its mutex *)

MutexFree == agenda = NoScan /\ writer.at \notin {"find", "retry", "send", "again"}

\* reset_calendar
ResetBindings == bindings' = [u \in Uids |-> Nowhere]

\* The writer's call fails or is cancelled, and its guards are dropped.
StopWriter ==
    /\ writer' = NoWriter
    /\ ran' = {}
    /\ overtaken' = FALSE

GoOn(state) ==
    /\ writer' = state
    /\ UNCHANGED <<ran, overtaken>>

\* The answer may arrive, or the writer may be cancelled or time out first.
Hears(newKey, state) ==
    \/ key' = newKey /\ GoOn(state)
    \/ UNCHANGED key /\ StopWriter

\* scan_calendar_collection: reset the collection, ask for its first key.
StartScan(state) ==
    /\ ResetBindings
    /\ StartOver
    /\ \/ key' = srv.last + 1 /\ GoOn(state)
       \/ key' = 0 /\ StopWriter

Scanning(stage, state) == [state EXCEPT !.at = stage, !.told = {}, !.pages = 0]

Work(kind, u) == [at |-> "resolve", does |-> kind, uid |-> u, id |-> NoId,
                  told |-> {}, pages |-> 0, then |-> "check", later |-> NoSource]

\* A write call gets the account's lock.
Begin(kind, u) ==
    /\ writer = NoWriter
    /\ kind = "add" => u \notin box
    /\ GoOn(IF kind = "add" THEN [Work(kind, u) EXCEPT !.at = "ready"] ELSE Work(kind, u))
    /\ UNCHANGED <<server, session, agenda>>

\* mutable_event, find_event_by_uid: look for the UID.
Resolve ==
    /\ writer.at = "resolve" /\ MutexFree
    /\ StartScan(Scanning("find", writer))
    /\ UNCHANGED agenda

\* The scan returns the id that the UID has now.
Found(state) ==
    [state EXCEPT !.at = IF state.at = "find" THEN "fetch" ELSE "again", !.id = number[state.uid]]

\* One page of a scan: the event is on it, or later pages may have it.
\* A scan that misses the event after its last page fails.
FindPage(changes) ==
    LET told == writer.told \union changes
        more == box \ told # {}
    IN  /\ writer.at \in {"find", "retry"}
        /\ changes \subseteq box \ writer.told
        /\ changes = {} => box \subseteq writer.told
        /\ Tell(key, changes)
        /\ \/ /\ writer.uid \in changes
              /\ key' = srv'.now
              /\ bindings' = [bindings EXCEPT ![writer.uid] = [id |-> number[writer.uid], key |-> srv'.now]]
              /\ GoOn(Found(writer))
           \/ /\ writer.uid \notin changes /\ more /\ writer.pages + 1 < MaxPages
              /\ key' = srv'.now
              /\ GoOn([writer EXCEPT !.told = told, !.pages = @ + 1])
              /\ UNCHANGED bindings
           \/ /\ writer.uid \notin changes /\ (more => writer.pages + 1 = MaxPages)
              /\ key' = srv'.now
              /\ StopWriter
              /\ UNCHANGED bindings
        /\ UNCHANGED agenda

\* The answer to a page is lost: the transport asks again under the old key.
LosePage ==
    /\ writer.at \in {"find", "retry"}
    /\ box \ writer.told # {} /\ Tell(key, box)
    /\ UNCHANGED <<session, writer, agenda, ran, overtaken>>

\* refetch_event_by_uid, its ItemOperations request: the item with that id
\* must still be the event with that UID.
Fetch ==
    /\ writer.at = "fetch" /\ MutexFree
    /\ IF Named(writer.id) = {writer.uid} THEN GoOn([writer EXCEPT !.at = writer.then]) ELSE StopWriter
    /\ UNCHANGED <<server, session, agenda>>

\* Mutant: a source that was resolved before the call is used as it is.
ReusableAlways == TRUE

\* mutation_source: the binding has the same id and the collection's key.
Reusable ==
    /\ bindings[writer.uid].id = writer.id
    /\ writer.id # NoId
    /\ bindings[writer.uid].key = key

Check ==
    /\ writer.at = "check" /\ MutexFree
    /\ GoOn([writer EXCEPT !.at = IF Reusable THEN "ready" ELSE "resolve", !.then = "ready"])
    /\ UNCHANGED <<server, session, agenda>>

\* add_event, change_event and delete_event lock the session for their request.
\* initialize_calendar asks for a first key if the collection has none.
Lock ==
    /\ writer.at = "ready" /\ writer.does # "respond" /\ MutexFree
    /\ \/ key # 0 /\ GoOn([writer EXCEPT !.at = "send"]) /\ UNCHANGED <<key, server>>
       \/ key = 0 /\ StartOver /\ Hears(srv.last + 1, [writer EXCEPT !.at = "send"])
    /\ UNCHANGED <<bindings, agenda>>

\* Exchange answers a request under k: it executes it on the item the id names,
\* reports the item missing, or takes it for a repetition under an old key.
Executes(k) ==
    \/ /\ writer.does = "add" /\ NextKey(k)
       /\ box' = box \union {writer.uid} /\ ran' = ran \union {writer.uid}
    \/ writer.does # "add" /\ NextKey(k) /\ \E u \in Named(writer.id) : Execute(u)

Repeats(k) == k = srv.before /\ UNCHANGED <<srv, box, ran>>

\* Mutant: an added event is reported as soon as Exchange accepts it.
AfterwardsUnread == [writer EXCEPT !.at = "done"]

\* An added event is read back by its UID before it is reported.
Afterwards == IF writer.does = "add" THEN [writer EXCEPT !.at = "resolve", !.then = "done"]
                                     ELSE [writer EXCEPT !.at = "done"]

\* A confirmed mutation: apply_mutation_key drops the bindings of the folder;
\* a change binds the event to the new key.
Confirm ==
    /\ writer.at \in {"send", "again"} /\ Known(key)
    /\ Executes(key) \/ Repeats(key)
    /\ key' = srv'.now
    /\ bindings' = [u \in Uids |-> IF writer.does = "change" /\ u = writer.uid
                                     THEN [id |-> writer.id, key |-> srv'.now] ELSE Nowhere]
    /\ writer' = Afterwards
    /\ UNCHANGED <<number, agenda, overtaken>>

\* Exchange executes the request or finds no such item, and moves on to the next
\* key, but its answer is lost or, when it reports the item missing, not used.
LoseAnswer ==
    /\ writer.at \in {"send", "again"} /\ Known(key) /\ NextKey(key)
    /\ box' = CASE writer.does = "add" -> box \union {writer.uid}
                [] writer.does = "delete" -> box \ Named(writer.id)
                [] OTHER -> box
    /\ StopWriter
    /\ UNCHANGED <<number, session, agenda>>

\* InvalidSyncKey: start over, find the event again unless it is to be added,
\* and send once more.
Recover ==
    /\ writer.at = "send" /\ ~Known(key)
    /\ StartScan(Scanning(IF writer.does = "add" THEN "again" ELSE "retry", writer))
    /\ UNCHANGED agenda

\* respond_event: MeetingResponse is sent without a key.
Respond ==
    /\ writer.at = "ready" /\ writer.does = "respond" /\ MutexFree
    /\ \E u \in Named(writer.id) : ran' = ran \union {u}
    /\ writer' = [writer EXCEPT !.at = "done"]
    /\ UNCHANGED <<server, session, agenda, overtaken>>

\* An edit of this and the following occurrences, once its source is resolved,
\* adds the new series first ...
FirstAdd(new) ==
    /\ writer.at = "check" /\ writer.does = "change" /\ writer.then = "check"
    /\ new \notin box /\ writer.later = NoSource
    /\ GoOn([Work("add", new) EXCEPT !.at = "ready", !.later = [uid |-> writer.uid, id |-> writer.id]])
    /\ UNCHANGED <<server, session, agenda>>

\* ... and then changes the old one, from the source it has.
ThenChange ==
    /\ writer.at = "done" /\ writer.later # NoSource
    /\ writer' = [Work("change", writer.later.uid) EXCEPT
                    !.at = "check", !.id = writer.later.id, !.then = "ready"]
    /\ ran' = {} /\ overtaken' = FALSE
    /\ UNCHANGED <<server, session, agenda>>

\* The call returns, fails on an error or on a key that is invalid again, or is
\* cancelled.
End ==
    /\ writer # NoWriter
    /\ StopWriter
    /\ UNCHANGED <<server, session, agenda>>

\* The writer will send its request without another look at its binding.
Bound == writer.at = "ready" \/ (writer.at = "fetch" /\ writer.then = "ready")

\* scan_calendar_events: no account lock, the session's mutex for all pages.
StartAgenda ==
    /\ MutexFree
    /\ ResetBindings /\ StartOver
    /\ \/ key' = srv.last + 1 /\ agenda' = [at |-> "page", told |-> {}, pages |-> 0]
       \/ key' = 0 /\ UNCHANGED agenda
    /\ overtaken' = (overtaken \/ Bound)
    /\ UNCHANGED <<writer, ran>>

AgendaPage(changes) ==
    LET told == agenda.told \union changes
    IN  /\ agenda.at = "page"
        /\ changes \subseteq box \ agenda.told
        /\ changes = {} => box \subseteq agenda.told
        /\ Tell(key, changes)
        /\ key' = srv'.now
        /\ agenda' = IF box \subseteq told \/ agenda.pages + 1 = MaxPages THEN NoScan
                     ELSE [agenda EXCEPT !.told = told, !.pages = @ + 1]
        /\ UNCHANGED <<bindings, writer, ran, overtaken>>

\* The scan fails or is cancelled; a page may be lost with it.
EndAgenda ==
    /\ agenda # NoScan
    /\ agenda' = NoScan
    /\ \/ UNCHANGED server
       \/ Tell(key, box)
    /\ UNCHANGED <<session, writer, ran, overtaken>>

----
Edit ==
    \/ \E u \in Uids : \/ \E kind \in {"add", "change", "delete", "respond"} : Begin(kind, u)
                       \/ FirstAdd(u)
    \/ ThenChange \/ Resolve \/ Fetch \/ Check \/ LosePage \/ Lock
    \/ Confirm \/ LoseAnswer \/ Recover \/ Respond \/ End

Next ==
    \/ Edit
    \/ \E changes \in SUBSET Uids : FindPage(changes) \/ AgendaPage(changes)
    \/ StartAgenda \/ EndAgenda \/ OtherSession

Spec == Init /\ [][Next]_vars

----
TypeOK ==
    /\ box \subseteq Uids
    /\ number \in Numbering
    /\ srv \in [last : 0..MaxKeys, now : 0..MaxKeys, before : 0..MaxKeys]
    /\ key \in 0..MaxKeys
    /\ bindings \in [Uids -> [id : Ids \union {NoId}, key : 0..MaxKeys]]
    /\ agenda # NoScan => writer.at \notin {"find", "retry", "send", "again"}
    /\ ran \subseteq Uids
    /\ overtaken \in BOOLEAN

Keyed == writer # NoWriter /\ writer.does \in {"change", "delete", "add"}

\* What a writer changes or deletes is the event it was asked to, although
\* other processes have Exchange assign ids anew at any time, scans of its own
\* process come between its steps, and rejected keys are recovered.  The one
\* exception is a scan of its own process after its binding's last check.
MutationsHitTheirEvent ==
    /\ TypeOK
    /\ Keyed /\ ~overtaken => ran \subseteq {writer.uid}

\* A write that is reported as done was executed, even if its request was sent
\* under a key whose answer had been lost and Exchange took it for a repetition:
\* changes find their event anew, additions are read back.  Again a scan after
\* the last check is the exception.
DoneMeansExecuted ==
    writer.at = "done" /\ ~overtaken => ran # {}

\* As the comment on explicit synchronisations and its test put it: no
\* synchronisation invalidates bindings while a writer owns the account.  A
\* change or deletion is about to be sent with the id its event has.
WritersKeepTheirBindings ==
    writer.at = "send" /\ writer.does \in {"change", "delete"} /\ Known(key) =>
        number[writer.uid] = writer.id
====
