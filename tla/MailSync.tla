---- MODULE MailSync ----
(***************************************************************************)
(* The mail collections a session keeps (crates/app/src/backend/           *)
(* eas_mailbox: session.rs, sync.rs, mail_properties.rs) and the SyncKeys  *)
(* Exchange keeps for the device (client.rs, protocol/sync.rs).            *)
(*                                                                         *)
(* A SyncKey names what the device has been told of a folder.  Exchange    *)
(* keeps the last key and the one before it, in case an answer was lost.   *)
(*                                                                         *)
(* Every call works under the session's mutex, so at most one is under     *)
(* way.  All processes of an account use one device id; to this session    *)
(* another one is somebody who starts a folder over and thereby makes its  *)
(* keys invalid, whatever it does under its own keys afterwards.           *)
(*                                                                         *)
(* Abstractions: the folders themselves do not change; resolving the       *)
(* source before a change, and the snapshot after a listing, read without  *)
(* changing anything and are left out; an absent collection equals a new   *)
(* one, since every user treats them alike; the requests of one device     *)
(* for one folder reach Exchange in order.                                 *)
(***************************************************************************)
EXTENDS Integers

CONSTANTS
    NumFolders,     \* folders, in the order of the session's map
    Mails,          \* item ids of a folder
    MaxPages,       \* MAX_SYNC_PAGES
    MaxKeys,        \* bound: SyncKeys Exchange gives out
    MaxNews         \* bound: changes made by other clients

Folders == 1..NumFolders
Content == 0..2     \* 0: no such item; 1, 2: the values of its property
Empty   == [m \in Mails |-> 0]
Mailbox == [Mails -> Content]

ASSUME BoundsAreNatural == {NumFolders, MaxPages, MaxKeys, MaxNews} \subseteq Nat

VARIABLES
    box,            \* what the mailbox holds
    srv,            \* what Exchange remembers of the device, per folder
    given,          \* SyncKeys Exchange has given out so far
    news,           \* changes made by others so far
    coll,           \* the session's collections
    job,            \* what the holder of the session's mutex is doing
    wire,           \* the requests of the holder and their answers, per folder
    ran             \* history: Exchange executed the holder's change or move

exchange == <<srv, given>>
vars == <<box, exchange, news, coll, job, wire, ran>>

NewCollection == [key |-> 0, complete |-> FALSE, mail |-> Empty]
Quiet  == [f \in Folders |-> [is |-> "none"]]
Sent   == [is |-> "sent"]
WithKey(what, key) == [is |-> what, key |-> key]
Answer(what) == [is |-> what]
NoJob  == [does |-> "nothing"]

Init ==
    /\ box \in [Folders -> [Mails -> {0, 1}]]
    /\ srv = [f \in Folders |-> [last |-> 0, key |-> 0, seen |-> Empty, oldKey |-> 0, oldSeen |-> Empty]]
    /\ given = 0
    /\ news = 0
    /\ coll = [f \in Folders |-> NewCollection]
    /\ job = NoJob
    /\ wire = Quiet
    /\ ran = FALSE

----
(* Exchange *)

\* Item ids are never used again.
Unused(f, m) ==
    /\ box[f][m] = 0 /\ srv[f].seen[m] = 0 /\ srv[f].oldSeen[m] = 0
    /\ coll[f].mail[m] = 0 /\ wire[f].is \in {"none", "sent"}

\* Another client receives, changes or deletes a mail.
OtherClient(f, m, v) ==
    /\ news < MaxNews
    /\ box[f][m] # v
    /\ box[f][m] = 0 => Unused(f, m)
    /\ box' = [box EXCEPT ![f][m] = v]
    /\ news' = news + 1
    /\ UNCHANGED <<exchange, coll, wire, job, ran>>

\* The mails of f whose state the holder of a view has not been told.
Unknown(f, view) == {m \in Mails : box[f][m] # view[m]}

\* Exchange gives out the next key of f to a device that was at oldKey.
NextKey(f, seen, oldKey, oldSeen) ==
    /\ given < MaxKeys
    /\ given' = given + 1
    /\ srv' = [srv EXCEPT ![f] = [last |-> srv[f].last + 1, key |-> srv[f].last + 1,
                                  seen |-> seen, oldKey |-> oldKey, oldSeen |-> oldSeen]]

\* Key "0" starts over and returns a key alone.
StartOver(f) == NextKey(f, Empty, 0, Empty)

\* Some of the changes since the view of a key that Exchange still knows.
TellChanges(f, key, view, changed) ==
    /\ changed # {}
    /\ NextKey(f, [m \in Mails |-> IF m \in changed THEN box[f][m] ELSE view[m]], key, view)

\* Another process of the account lists f for the first time.
OtherSession(f) ==
    /\ StartOver(f)
    /\ UNCHANGED <<box, news, coll, job, wire, ran>>

Page(key, changes, more) == [is |-> "page", key |-> key, changes |-> changes, more |-> more]

Reply(f, answer) == wire' = [wire EXCEPT ![f] = answer]

\* The device comes back with the key before the last: that answer was lost.
GoBack(f) ==
    /\ srv' = [srv EXCEPT ![f].key = srv[f].oldKey, ![f].seen = srv[f].oldSeen,
                          ![f].oldKey = 0, ![f].oldSeen = Empty]
    /\ UNCHANGED given

Asked(f, kind) == wire[f] = Sent /\ job.does = kind

\* Exchange answers a Sync request; the answer may get lost on its way, and the
\* transport then sends the request again.  An empty body, which keeps the key,
\* means that there is nothing to tell.
AnswerSync(f, heard) ==
    LET key == coll[f].key
        Say(answer) == IF heard THEN Reply(f, answer) ELSE UNCHANGED wire
        Tell(view) == \E changed \in SUBSET Unknown(f, view) :
            /\ TellChanges(f, key, view, changed)
            /\ Say(Page(srv[f].last + 1, [m \in changed |-> box[f][m]], changed # Unknown(f, view)))
    IN  /\ Asked(f, "list")
        /\ \/ key = 0 /\ StartOver(f) /\ Say(Page(srv[f].last + 1, <<>>, FALSE))
           \/ key # 0 /\ key = srv[f].key /\ Tell(srv[f].seen)
           \/ /\ key # 0 /\ key = srv[f].key /\ Unknown(f, srv[f].seen) = {}
              /\ heard /\ Reply(f, Page(key, <<>>, FALSE)) /\ UNCHANGED exchange
           \/ key # 0 /\ key = srv[f].oldKey /\ Tell(srv[f].oldSeen)
           \/ /\ key # 0 /\ key = srv[f].oldKey /\ Unknown(f, srv[f].oldSeen) = {}
              /\ GoBack(f) /\ Say(Page(key, <<>>, FALSE))
           \/ /\ key \notin {0, srv[f].key, srv[f].oldKey}
              /\ heard /\ Reply(f, Answer("invalid")) /\ UNCHANGED exchange
        /\ UNCHANGED <<box, news, coll, job, ran>>

\* A folder's request is answered with 449 before Exchange looks at it, or with
\* an error, or not at all.
AnswerFails(f) ==
    /\ Asked(f, "list")
    /\ \E answer \in {"policy", "error"} : Reply(f, Answer(answer))
    /\ UNCHANGED <<box, exchange, news, coll, job, ran>>

\* Exchange executes a property change under the current key, or refuses it
\* because the mail is gone or has changed meanwhile.  A change that comes with
\* the key before the last is taken for a repetition and answered from memory.
AnswerChange(f) ==
    LET key == job.kept.key
        m == job.mail
        seen == srv[f].seen
    IN  /\ Asked(f, "change")
        /\ \/ /\ key = srv[f].key
              /\ box[f][m] = seen[m]
              /\ box' = [box EXCEPT ![f][m] = job.value]
              /\ ran' = TRUE
              /\ NextKey(f, [seen EXCEPT ![m] = job.value], key, seen)
              /\ Reply(f, WithKey("done", srv[f].last + 1))
           \/ /\ key = srv[f].key
              /\ box[f][m] # seen[m]
              /\ NextKey(f, seen, key, seen)
              /\ Reply(f, WithKey(IF box[f][m] = 0 THEN "missing" ELSE "rejected", srv[f].last + 1))
              /\ UNCHANGED <<box, ran>>
           \/ /\ key = srv[f].oldKey
              /\ Reply(f, WithKey("done", srv[f].key))
              /\ UNCHANGED <<box, exchange, ran>>
           \/ /\ key \notin {srv[f].key, srv[f].oldKey}
              /\ Reply(f, Answer("stale"))
              /\ UNCHANGED <<box, exchange, ran>>
        /\ UNCHANGED <<news, coll, job>>

\* MoveItems carries no SyncKey; the moved item gets a new id.
AnswerMove(f) ==
    LET m == job.mail
        g == job.value
    IN  /\ Asked(f, "move")
        /\ \/ /\ box[f][m] # 0
              /\ \E new \in {n \in Mails : Unused(g, n)} :
                    /\ box' = [box EXCEPT ![f][m] = 0, ![g][new] = box[f][m]]
                    /\ Reply(f, [is |-> "done", new |-> new])
              /\ ran' = TRUE
           \/ box[f][m] = 0 /\ Reply(f, Answer("stale")) /\ UNCHANGED <<box, ran>>
        /\ UNCHANGED <<exchange, news, coll, job>>

----
(* Sections under the session's mutex *)

\* The call returns or is cancelled: its guard and its requests are dropped.
Leave ==
    /\ job' = NoJob
    /\ wire' = Quiet
    /\ ran' = FALSE

Enter(work) ==
    /\ job = NoJob
    /\ job' = work
    /\ UNCHANGED ran

Request(asked) == wire' = [f \in Folders |-> IF f \in asked THEN Sent ELSE Answer("none")]

\* Mutant: a listing that continues leaves the collection ready for changes.
UnpreparedCollection(collection) == collection

\* prepare_requests: a collection under synchronisation is not write-ready.
Prepared(collection) == [collection EXCEPT !.complete = FALSE]

\* sync_mail_selected, its first batch.
StartList(asked) ==
    /\ asked # {}
    /\ Enter([does |-> "list", round |-> 1])
    /\ coll' = [f \in Folders |-> IF f \in asked THEN Prepared(coll[f]) ELSE coll[f]]
    /\ Request(asked)
    /\ UNCHANGED <<box, exchange, news>>

\* patch_mail and removal, for every change of a page.
Patched(mail, changes) == [m \in Mails |-> IF m \in DOMAIN changes THEN changes[m] ELSE mail[m]]

\* Key "0" returns no changes, only the first key.
NeedsNext(collection, page) == collection.key = 0 \/ page.more

\* Mutant: an invalid key is reset, but the mails listed under it are kept.
ReceivedKeepingMail(collection, answer) ==
    CASE answer.is = "page" -> [key |-> answer.key, complete |-> ~NeedsNext(collection, answer),
                                mail |-> Patched(collection.mail, answer.changes)]
      [] answer.is = "invalid" -> [NewCollection EXCEPT !.mail = collection.mail]
      [] OTHER -> collection

\* apply_page, or a new collection after an invalid key.
Received(collection, answer) ==
    CASE answer.is = "page" -> [key |-> answer.key, complete |-> ~NeedsNext(collection, answer),
                                mail |-> Patched(collection.mail, answer.changes)]
      [] answer.is = "invalid" -> NewCollection
      [] OTHER -> collection

\* All answers of a batch are here.  They are processed in folder order up to
\* the first failure, which ends the call; folders that have more to tell, an
\* invalid key or 449 are asked again, after one refresh of the policy.
Process ==
    LET asked == {f \in Folders : wire[f].is # "none"}
        failed == {f \in asked : wire[f].is = "error"}
        handled == {f \in asked : \A b \in failed : f < b}
        received == [f \in Folders |-> IF f \in handled THEN Received(coll[f], wire[f]) ELSE coll[f]]
        again == {f \in handled : wire[f].is = "page" => NeedsNext(coll[f], wire[f])}
        refresh == \E f \in handled : wire[f].is = "policy"
    IN  /\ job.does = "list"
        /\ \A f \in asked : wire[f] # Sent
        /\ \/ /\ failed # {} \/ job.round = MaxPages \/ refresh
              /\ coll' = received
              /\ Leave
           \/ /\ failed = {} /\ again = {} /\ job.round < MaxPages
              /\ coll' = received
              /\ Leave
           \/ /\ failed = {} /\ again # {} /\ job.round < MaxPages
              /\ coll' = [f \in Folders |-> IF f \in again THEN Prepared(received[f]) ELSE received[f]]
              /\ Request(again)
              /\ job' = [job EXCEPT !.round = @ + 1]
              /\ UNCHANGED ran
        /\ UNCHANGED <<box, exchange, news>>

\* property_collection: a completed listing of this process that has the mail.
Ready(collection, m) == collection.complete /\ collection.key # 0 /\ collection.mail[m] # 0

\* Mutant: the collection stays in the session while the change is under way.
KeepCollection(f) == UNCHANGED coll

\* The collection leaves the session before the request does.
RemoveCollection(f) == coll' = [coll EXCEPT ![f] = NewCollection]

\* change_mail_property after its source is resolved.
StartChange(f, m, v) ==
    /\ Ready(coll[f], m)
    /\ Enter([does |-> "change", folder |-> f, mail |-> m, value |-> v, kept |-> coll[f]])
    /\ RemoveCollection(f)
    /\ Request({f})
    /\ UNCHANGED <<box, exchange, news>>

\* The answer to a change: confirmed keys put the collection back, anything
\* else leaves it out of the session.
FinishChange ==
    LET f == job.folder
        m == job.mail
        answer == wire[f]
        Restore(mail) == coll' = [coll EXCEPT ![f] =
                                    [key |-> answer.key, complete |-> job.kept.complete, mail |-> mail]]
        old == job.kept.mail
    IN  /\ job.does = "change"
        /\ \/ answer.is = "done" /\ Restore([old EXCEPT ![m] = job.value]) /\ Leave
           \/ answer.is = "missing" /\ Restore([old EXCEPT ![m] = 0]) /\ Leave
           \/ answer.is = "rejected" /\ Restore(old) /\ Leave
           \/ answer.is = "stale" /\ Leave /\ UNCHANGED coll
        /\ UNCHANGED <<box, exchange, news>>

\* move_message after its source and the folders are read.
StartMove(f, m, g) ==
    /\ f # g
    /\ Enter([does |-> "move", folder |-> f, mail |-> m, value |-> g])
    /\ Request({f})
    /\ UNCHANGED <<box, exchange, news, coll>>

\* The keys stay; the moved mail leaves both listings until the next Sync.
FinishMove ==
    LET answer == wire[job.folder]
    IN  /\ job.does = "move"
        /\ \/ /\ answer.is = "done"
              /\ coll' = [coll EXCEPT ![job.folder].mail[job.mail] = 0,
                                      ![job.value].mail[answer.new] = 0]
              /\ Leave
           \/ answer.is = "stale" /\ Leave /\ UNCHANGED coll
        /\ UNCHANGED <<box, exchange, news>>

\* The client cancels the call that holds the mutex; or the answer to a change
\* or a move is lost, or is an error.  After 449 the policy is negotiated and
\* the request sent once more, which changes nothing unless it fails.
Abandon ==
    /\ job # NoJob
    /\ Leave
    /\ UNCHANGED <<box, exchange, news, coll>>

\* refresh_policy, after 449, is told to wipe the account.
Forget ==
    /\ job # NoJob
    /\ coll' = [f \in Folders |-> NewCollection]
    /\ Leave
    /\ UNCHANGED <<box, exchange, news>>

----
Exchange(f) ==
    \/ \E heard \in BOOLEAN : AnswerSync(f, heard)
    \/ AnswerFails(f) \/ AnswerChange(f) \/ AnswerMove(f) \/ OtherSession(f)

Step ==
    \/ \E asked \in SUBSET Folders : StartList(asked)
    \/ \E f \in Folders, m \in Mails :
        \/ \E v \in Content \ {0} : StartChange(f, m, v)
        \/ \E g \in Folders : StartMove(f, m, g)
    \/ Process \/ FinishChange \/ FinishMove \/ Abandon \/ Forget

Next ==
    \/ \E f \in Folders : Exchange(f)
    \/ Step
    \/ \E f \in Folders, m \in Mails, v \in Content : OtherClient(f, m, v)

Spec == Init /\ [][Next]_vars

----
Collection == [key : 0..MaxKeys, complete : BOOLEAN, mail : Mailbox]

TypeOK ==
    /\ box \in [Folders -> Mailbox]
    /\ srv \in [Folders -> [last : 0..MaxKeys, key : 0..MaxKeys, seen : Mailbox,
                            oldKey : 0..MaxKeys, oldSeen : Mailbox]]
    /\ news \in 0..MaxNews
    /\ coll \in [Folders -> Collection]
    /\ job = NoJob => wire = Quiet
    /\ ran \in BOOLEAN

\* A cache agrees with a view, but for items it dropped after a move or a
\* refusal, of which Exchange still has to tell.
Agrees(f, mail, view) ==
    \A m \in Mails : mail[m] = view[m] \/ (mail[m] = 0 /\ box[f][m] # view[m])

\* What a session holds of a folder is what Exchange believes it told the
\* device under that key, however answers are lost and calls cancelled: what
\* the next page leaves out, the session already has.
CacheMatchesKey ==
    /\ TypeOK
    /\ \A f \in Folders :
        LET c == coll[f] IN
        /\ c.key = 0 => c.mail = Empty
        /\ c.key # 0 /\ c.key = srv[f].key => Agrees(f, c.mail, srv[f].seen)
        /\ c.key # 0 /\ c.key = srv[f].oldKey => Agrees(f, c.mail, srv[f].oldSeen)

\* A collection that is ready for changes never has a key that Exchange has
\* already moved on from for this session.
ReadyMeansCurrent ==
    \A f \in Folders :
        coll[f].complete => coll[f].key # 0 /\ coll[f].key # srv[f].oldKey

\* A change or move that is confirmed was executed, and one that is refused
\* was not.  Exchange answers a repeated key from memory, so a key that outlived
\* an uncertain request would have a change confirmed that was never made.
OutcomesAreTrue ==
    job.does \in {"change", "move"} =>
        LET answer == wire[job.folder].is IN
        /\ answer = "done" => ran
        /\ answer \in {"missing", "rejected", "stale"} => ~ran
====
