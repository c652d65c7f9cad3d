---- MODULE MailBatch ----
(***************************************************************************)
(* A batch of mail writes (crates/app/src/runtime: mail_batch.rs,          *)
(* mail_mutation.rs, write_preview.rs; cli/operations/mail_mutations.rs):  *)
(* entries in order, each a write of its own with its operation UUID.  An  *)
(* MCP call runs it at once.  The CLI reads the mails to show a preview,   *)
(* asks, reads them again to compare, and then runs it.                    *)
(*                                                                         *)
(* The same batch may be submitted again, by the same process or a new     *)
(* one, after it ended in any way.                                         *)
(*                                                                         *)
(* Abstractions: what a preview shows of a mail is its version; one mail   *)
(* per entry; locks, duplicate UUIDs of other batches and wipes are in     *)
(* MailWrites, where one such write is modelled with all its steps; rows   *)
(* are not deleted by retention meanwhile.                                 *)
(***************************************************************************)
EXTENDS Integers, Sequences

CONSTANTS
    AccountOf,      \* the account of every entry, a sequence
    MaxRuns,        \* bound: submissions of the batch
    MaxEdits        \* bound: changes of mails by other clients

Entries == DOMAIN AccountOf
Gone    == 0
Replay  == -1       \* shown for an entry that will not be sent again

ASSUME BoundsAreNatural == {MaxRuns, MaxEdits} \subseteq Nat
ASSUME BatchIsASequence == AccountOf \in Seq({AccountOf[e] : e \in Entries})

VARIABLES
    mail,           \* the version of every mail, or Gone
    edits,          \* changes made by others so far
    row,            \* the journal row of every entry
    wire,           \* the request of every entry and its answer
    happened,       \* history: executions of every entry
    batch,          \* the submission under way
    runs,           \* submissions so far
    answers,        \* what the submission reports of its entries
    begun           \* history: the version an entry of the submission began with

world == <<mail, edits, wire, happened>>
vars == <<world, row, batch, runs, answers, begun>>

Nobody == [at |-> "off"]
None(value) == [e \in Entries |-> value]

Init ==
    /\ mail = None(1)
    /\ edits = 0
    /\ row = None("none")
    /\ wire = None("none")
    /\ happened = None(0)
    /\ batch = Nobody
    /\ runs = 0
    /\ answers = None("none")
    /\ begun = None(Gone)

----
(* Others *)

\* Another client changes or removes a mail.
OtherClient(e) ==
    /\ edits < MaxEdits
    /\ mail[e] # Gone
    /\ mail' \in {[mail EXCEPT ![e] = @ + 1], [mail EXCEPT ![e] = Gone]}
    /\ edits' = edits + 1
    /\ UNCHANGED <<wire, happened, row, batch, runs, answers, begun>>

\* Exchange executes or refuses a request, with or without its sender.
Serve(e) ==
    /\ wire[e] = "sent"
    /\ \/ wire' = [wire EXCEPT ![e] = "done"] /\ happened' = [happened EXCEPT ![e] = @ + 1]
       \/ wire' = [wire EXCEPT ![e] = "refused"] /\ UNCHANGED happened
    /\ UNCHANGED <<mail, edits, row, batch, runs, answers, begun>>

----
(* A submission *)

Open(status) == status \in {"pending", "unknown"}

Stage(at) == [batch EXCEPT !.at = at, !.i = 1, !.prints = <<>>]

\* A new process recovers the pending rows; a CLI command is a new process.
Submit(cli, restarted) ==
    /\ batch = Nobody /\ runs < MaxRuns
    /\ cli => restarted
    /\ row' = IF restarted THEN [e \in Entries |-> IF Open(row[e]) THEN "unknown" ELSE row[e]] ELSE row
    /\ batch' = [at |-> IF cli THEN "show" ELSE "validate", i |-> 1, cli |-> cli,
                 prints |-> <<>>, approved |-> <<>>, failures |-> {}, blocked |-> {}]
    /\ runs' = runs + 1
    /\ answers' = None("none")
    /\ begun' = None(Gone)
    /\ UNCHANGED world

\* The process dies, the call is cancelled, the user declines, or a
\* preparation fails.
Stop ==
    /\ batch # Nobody
    /\ batch' = Nobody
    /\ UNCHANGED <<world, row, runs, answers, begun>>

\* prepare_cli_mail_mutation: finished entries are shown as replays; an open
\* outcome or a mail that is gone fails the preparation.
Look ==
    /\ batch.at \in {"show", "compare"} /\ batch.i \in Entries
    /\ LET e == batch.i IN
        /\ ~Open(row[e])
        /\ row[e] = "none" => mail[e] # Gone
        /\ batch' = [batch EXCEPT !.i = @ + 1,
                       !.prints = Append(@, IF row[e] = "none" THEN mail[e] ELSE Replay)]
    /\ UNCHANGED <<world, row, runs, answers, begun>>

\* The user agrees to what was shown.
Approve ==
    /\ batch.at = "show" /\ batch.i \notin Entries
    /\ batch' = [Stage("compare") EXCEPT !.approved = batch.prints]
    /\ UNCHANGED <<world, row, runs, answers, begun>>

\* Mutant: the second preparation is not compared with the approved one.
SamePreviewUnchecked == TRUE

\* verify: the fingerprint of the second preview is the approved one.
SamePreview == batch.prints = batch.approved

\* commit_cli_mail_batch; the fingerprints of its preparation bind the entries.
Commit ==
    /\ batch.at = "compare" /\ batch.i \notin Entries
    /\ SamePreview
    /\ batch' = [batch EXCEPT !.at = "validate", !.i = 1]
    /\ UNCHANGED <<world, row, runs, answers, begun>>

\* validate_batch: entries without a row are resolved; one that cannot be is
\* set aside.
Validate ==
    /\ batch.at = "validate" /\ batch.i \in Entries
    /\ LET e == batch.i
           next == [batch EXCEPT !.i = @ + 1]
       IN  \/ /\ row[e] # "none" \/ mail[e] # Gone
              /\ batch' = next
           \/ /\ row[e] = "none"
              /\ batch' = [next EXCEPT !.failures = @ \union {e}]
    /\ UNCHANGED <<world, row, runs, answers, begun>>

RunEntries ==
    /\ batch.at = "validate" /\ batch.i \notin Entries
    /\ batch' = [batch EXCEPT !.at = "entry", !.i = 1]
    /\ UNCHANGED <<world, row, runs, answers, begun>>

\* Mutant: only requests of this very run block an account.
StopsAccountOfRequest(answer) == answer = "unknown" /\ batch.at = "wait"

\* Any unknown outcome blocks the account, also one that is replayed.
StopsAccount(answer) == answer = "unknown"

\* The entry is answered and the next one is up.
Answer(answer) ==
    /\ answers' = [answers EXCEPT ![batch.i] = answer]
    /\ batch' = [batch EXCEPT !.at = "entry", !.i = @ + 1,
                   !.blocked = IF StopsAccount(answer) THEN @ \union {AccountOf[batch.i]} ELSE @]
    /\ UNCHANGED runs

AtEntry == batch.at = "entry" /\ batch.i \in Entries
Blocked == AccountOf[batch.i] \in batch.blocked

Skip ==
    /\ AtEntry /\ Blocked
    /\ Answer("skipped")
    /\ UNCHANGED <<world, row, begun>>

SetAside ==
    /\ AtEntry /\ ~Blocked /\ batch.i \in batch.failures
    /\ Answer("failed")
    /\ UNCHANGED <<world, row, begun>>

\* Mutant: a row that is still open counts as a failure.
FromRowOpenFails(status) == IF status = "succeeded" THEN "ok" ELSE "failed"

\* replay_mail_mutation
FromRow(status) == CASE status = "succeeded" -> "ok"
                     [] status = "failed" -> "failed"
                     [] Open(status) -> "unknown"

ReplayEntry ==
    /\ AtEntry /\ ~Blocked /\ batch.i \notin batch.failures
    /\ row[batch.i] # "none"
    /\ Answer(FromRow(row[batch.i]))
    /\ UNCHANGED <<world, row, begun>>

\* mutate_mail up to the row: the account's lock is busy, reading fails, or the
\* mail is not what was approved.
Refuse ==
    /\ AtEntry /\ ~Blocked /\ batch.i \notin batch.failures
    /\ row[batch.i] = "none"
    /\ Answer("failed")
    /\ UNCHANGED <<world, row, begun>>

\* begin_write under the lock, with the mail as it was just read; the request
\* leaves.
Begin ==
    /\ AtEntry /\ ~Blocked /\ batch.i \notin batch.failures
    /\ LET e == batch.i IN
        /\ row[e] = "none"
        /\ mail[e] # Gone
        /\ batch.cli /\ batch.prints[e] # Replay => batch.prints[e] = mail[e]
        /\ row' = [row EXCEPT ![e] = "pending"]
        /\ wire' = [wire EXCEPT ![e] = "sent"]
        /\ begun' = [begun EXCEPT ![e] = mail[e]]
    /\ batch' = [batch EXCEPT !.at = "wait"]
    /\ UNCHANGED <<mail, edits, happened, runs, answers>>

\* finish_mail_mutation: the verdict is recorded and told.  If recording it
\* fails, or naming the mail of a recorded success, the outcome is told as
\* unknown.
Finish(status) ==
    /\ batch.at = "wait"
    /\ \/ row' = [row EXCEPT ![batch.i] = status] /\ Answer(FromRow(status))
       \/ UNCHANGED row /\ Answer("unknown")
       \/ status = "succeeded" /\ row' = [row EXCEPT ![batch.i] = status] /\ Answer("unknown")
    /\ UNCHANGED <<world, begun>>

Receive ==
    \/ batch.at = "wait" /\ wire[batch.i] = "done" /\ Finish("succeeded")
    \/ batch.at = "wait" /\ wire[batch.i] = "refused" /\ Finish("failed")

TimeOut == Finish("unknown")

Return ==
    /\ batch.at = "entry" /\ batch.i \notin Entries
    /\ batch' = Nobody
    /\ UNCHANGED <<world, row, runs, answers, begun>>

----
Next ==
    \/ \E cli, restarted \in BOOLEAN : Submit(cli, restarted)
    \/ Stop \/ Look \/ Approve \/ Commit \/ Validate \/ RunEntries
    \/ Skip \/ SetAside \/ ReplayEntry \/ Refuse \/ Begin \/ Receive \/ TimeOut \/ Return
    \/ \E e \in Entries : OtherClient(e) \/ Serve(e)

Spec == Init /\ [][Next]_vars

----
\* An entry is sent only if no earlier entry of its account has an unknown
\* outcome, be it from this submission or a former one whose process died.
\* Entries before an unknown one may still be sent: the order counts.
NothingAfterUnknown ==
    [][\A e \in Entries : row[e] = "none" /\ row'[e] = "pending" =>
            \A d \in Entries : d < e /\ AccountOf[d] = AccountOf[e] => ~Open(row[d])]_vars

\* What a CLI batch sends is what the user approved: no mail that changed since
\* it was shown, and nothing that was shown as done already.
WrittenAsApproved ==
    batch # Nobody /\ batch.cli =>
        \A e \in Entries : begun[e] # Gone => batch.approved[e] = begun[e]

\* Over all submissions an entry happens at most once; one reported as done
\* happened, one reported as failed did not and will not.
EntriesAreTold ==
    \A e \in Entries :
        /\ happened[e] <= 1
        /\ answers[e] = "ok" => happened[e] = 1
        /\ answers[e] = "failed" => happened[e] = 0 /\ wire[e] # "sent"
====
