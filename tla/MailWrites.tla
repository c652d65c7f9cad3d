---- MODULE MailWrites ----
(***************************************************************************)
(* Write tools that send one Exchange request: mail_send, mail_reply,      *)
(* mail_forward, mail_mark_read, and the move, delete, flag and category   *)
(* mutations.  The module follows a call from its pending row to the end:  *)
(* the request, one resend after Exchange asked for a new policy key, and  *)
(* the journal record and the answer that close it.                        *)
(*                                                                         *)
(* wire[c] is the network and Exchange: the request of call c or Exchange's*)
(* response to it.  Exchange may act on a request long after its sender    *)
(* timed out, was cancelled or died.  Once a response or a timeout reaches *)
(* a call, no await separates it from its journal record, so each closing  *)
(* action does both; a crash between the two is a crash just before.       *)
(***************************************************************************)
EXTENDS WriteRuntime, Naturals

CONSTANT Confirmed      \* the only completed step of a single-request write

ASSUME ConfirmedIsAStep == Confirmed \in Steps

VARIABLES
    wire,       \* the request of each call, or the response to it
    applied     \* history: how often an operation changed the mailbox

mailVars == <<wire, applied>>
vars == <<journalVars, runtimeVars, mailVars>>

Sending == {"sent", "resent"}
Begun   == {"begun"} \cup Sending

Init ==
    /\ RuntimeInit
    /\ wire = [c \in Calls |-> "none"]
    /\ applied = [o \in Ops |-> 0]

----
(* Exchange *)

Respond(c, response) ==
    /\ wire[c] = "request"
    /\ wire' = [wire EXCEPT ![c] = response]

ServerApply(c) ==
    /\ Respond(c, "ok")
    /\ applied' = [applied EXCEPT ![op[c]] = @ + 1]
    /\ UNCHANGED <<journalVars, runtimeVars>>

\* A definite rejection, a demand for a new policy key (HTTP 449), or the
\* order to wipe the account (ComposeMail status 140).
ServerRefuse(c) ==
    /\ wire[c] = "request"
    /\ \E response \in {"rejected", "stale"}
                         \cup (IF Account(c) \in Wipeable THEN {"wiped"} ELSE {}) :
          Respond(c, response)
    /\ UNCHANGED <<applied, journalVars, runtimeVars>>

----
(* The request *)

Send(c) ==
    /\ pc[c] = "begun"
    /\ pc' = [pc EXCEPT ![c] = "sent"]
    /\ wire' = [wire EXCEPT ![c] = "request"]
    /\ UNCHANGED <<applied, journalVars, procVars, lock, callVars, answer>>

\* Mutant: the request is repeated whenever no response has arrived.
ResendUnanswered(c) ==
    /\ pc[c] = "sent"
    /\ pc' = [pc EXCEPT ![c] = "resent"]
    /\ wire' = [wire EXCEPT ![c] = "request"]
    /\ UNCHANGED <<applied, journalVars, procVars, lock, callVars, answer>>

\* 449 to the first request: the policy was renegotiated, send once more.
Resend(c) ==
    /\ pc[c] = "sent"
    /\ wire[c] = "stale"
    /\ pc' = [pc EXCEPT ![c] = "resent"]
    /\ wire' = [wire EXCEPT ![c] = "request"]
    /\ UNCHANGED <<applied, journalVars, procVars, lock, callVars, answer>>

----
(* finish_write and finish_mail_mutation *)

\* The record is written and the caller told; a confirmed move whose new
\* reference cannot be kept, or a journal that cannot be written (a wipe may
\* have deleted the row), is reported as unknown.
Settle(c, status) ==
    /\ \/ /\ Conclude(op[c], status, IF status = "succeeded" THEN {Confirmed} ELSE {})
          /\ \/ End(c, status)
             \/ status = "succeeded" /\ End(c, "unknown")
       \/ UNCHANGED journalVars /\ End(c, "unknown")
    /\ UNCHANGED <<wire, procVars, callVars>>

Confirm(c) ==
    /\ pc[c] \in Sending
    /\ wire[c] = "ok"
    /\ Settle(c, "succeeded")
    /\ UNCHANGED applied

\* move_message to the folder that already holds the message sends nothing.
FindInPlace(c) ==
    /\ pc[c] = "begun"
    /\ applied' = [applied EXCEPT ![op[c]] = @ + 1]
    /\ Settle(c, "succeeded")

\* Nothing was sent (capability, session, full request queue), or Exchange
\* certainly did not act: a rejection, or 449 with no further resend.
Reject(c) ==
    /\ \/ pc[c] = "begun"
       \/ pc[c] \in Sending /\ wire[c] \in {"rejected", "stale"}
    /\ Settle(c, "failed")
    /\ UNCHANGED applied

\* Mutant: a timeout is recorded as a failure.
LoseContactAsFailure(c) ==
    /\ pc[c] \in Sending
    /\ Settle(c, "failed")
    /\ UNCHANGED applied

\* A timeout, a broken connection or an ambiguous answer, at any moment.
LoseContact(c) ==
    /\ pc[c] \in Sending
    /\ Settle(c, "unknown")
    /\ UNCHANGED applied

\* Told to wipe by the response, or by the policy exchange before a send; the
\* caller learns it if the journal, the references and the cached attachments
\* of the account are all gone.
ObeyWipe(c) ==
    /\ \/ pc[c] = "begun"
       \/ pc[c] = "sent" /\ wire[c] = "stale"
       \/ pc[c] \in Sending /\ wire[c] = "wiped"
    /\ Account(c) \in Wipeable
    /\ Wipe(host[c], Account(c))
    /\ \/ PurgeAccount(Account(c)) /\ End(c, "error")
       \/ End(c, "unknown")
    /\ UNCHANGED <<mailVars, phase, unrecovered, callVars>>

----
CallStep(c) ==
    \/ Send(c) \/ Resend(c) \/ Confirm(c) \/ FindInPlace(c) \/ Reject(c)
    \/ LoseContact(c) \/ ObeyWipe(c)

RuntimeOnly == RuntimeStep /\ UNCHANGED mailVars
CancelRequest(c) == Cancel(c, Begun) /\ UNCHANGED mailVars

Next ==
    \/ RuntimeOnly
    \/ \E c \in Calls :
          CallStep(c) \/ CancelRequest(c) \/ ServerApply(c) \/ ServerRefuse(c)

Spec == Init /\ [][Next]_vars

\* Tokio polls every live future, the lock wait ends after 30 seconds and a
\* request after its timeout; nothing obliges Exchange, a crash, a cancelling
\* client or a later process start to act.
CallProgress(c) ==
    \/ (Acquire(c) \/ GiveUp(c) \/ Recheck(c) \/ PrepareFails(c) \/ Begin(c)) /\ UNCHANGED mailVars
    \/ CallStep(c)

StartProgress(p) ==
    /\ \/ ListPending(p) \/ Serve(p)
       \/ \E a \in Accounts : RecoverLock(p, a) \/ RecoverRows(p, a) \/ RecoverSkip(p, a)
    /\ UNCHANGED mailVars

FairSpec ==
    /\ Spec
    /\ \A c \in Calls : WF_vars(CallProgress(c))
    /\ \A p \in Procs : WF_vars(StartProgress(p))

----
(* Properties.  The journal answers for a UUID until its row is deleted, by *)
(* 90-day retention or by a remote wipe; `forgotten' ends each promise.     *)

Remembered == Ops \ forgotten

TypeOK ==
    /\ RuntimeTypeOK
    /\ pc \in [Calls -> Early \cup Begun \cup Ended]
    /\ wire \in [Calls -> {"none", "request", "ok", "rejected", "stale", "wiped"}]
    /\ applied \in [Ops -> Nat]

\* An operation changes the mailbox at most once, however often and from
\* however many processes its UUID is submitted, and through crashes between
\* the pending row, the request and the record (ADR 0003, journal.begin).
AtMostOnce == \A o \in Remembered : applied[o] <= 1

\* A row says succeeded only if Exchange acted, and failed only if Exchange
\* neither acted nor can still act on a request in flight (finish_write,
\* finish_mail_mutation; "Exchange safely rejected the request").
TruthfulRecord ==
    \A o \in Remembered :
        /\ rows[o].status = "succeeded" => applied[o] = 1
        /\ rows[o].status = "failed" =>
              /\ applied[o] = 0
              /\ \A c \in Calls : op[c] = o => wire[c] # "request"

\* The same for what any caller is told, by its own request or by the replay
\* of another call's row (existing_result): succeeded and failed are final.
TruthfulAnswers ==
    \A c \in Calls : op[c] \in Remembered =>
        /\ answer[c] = "succeeded" => applied[op[c]] = 1
        /\ answer[c] = "failed" =>
              /\ applied[op[c]] = 0
              /\ \A d \in Calls : op[d] = op[c] => wire[d] # "request"

\* Recovery at the start of another process, other writers and retention leave
\* a write that is still running alone: its row stays pending and its account
\* stays locked until it closes itself (with_dependencies, write_lock.rs).
RunningWritesAreLeftAlone ==
    \A c \in Calls : pc[c] \in Begun =>
        /\ lock[Account(c)] = c
        /\ op[c] \in Remembered => rows[op[c]].status = "pending"

\* finish updates by UUID alone, yet a row that left pending keeps its
\* verdict until it is deleted: no late writer or recovery rewrites it.
VerdictsStand ==
    [][\A o \in Ops : rows[o].status \notin {"absent", "pending"} /\ o \notin forgotten'
          => rows'[o].status = rows[o].status]_vars

\* A process only ever closes a pending row as unknown on behalf of a call
\* that can no longer close it (recover_account under the free lock).
RecoveryClosesOnlyOrphans ==
    [][\A o \in Remembered : rows[o].status = "pending" /\ rows'[o].status = "unknown"
          => ~\E c \in Calls : op[c] = o /\ pc[c] \in Begun /\ pc'[c] \in Begun]_vars

\* Every submitted call ends: the queue for the lock, a dead or silent holder
\* and a silent Exchange cannot keep it waiting forever (write_lock.rs).
CallsEnd == \A c \in Calls : InFlight(c) ~> pc[c] \in Ended

\* A starting process comes up whatever locks other processes hold: recovery
\* tries each lock and never waits for one (with_dependencies, try_acquire).
StartsEnd == \A p \in Procs : phase[p] \in {"opened", "recovering"} ~> phase[p] \in {"up", "down"}

\* Neither a call nor a start waits forever.
NothingHangs == CallsEnd /\ StartsEnd

\* Every behaviour is one of IdempotentWrites.
Promise == INSTANCE IdempotentWrites WITH
    status  <- [o \in Ops |-> IF o \in forgotten THEN "forgotten"
                              ELSE IF Present(o) THEN rows[o].status ELSE "none"],
    effects <- [o \in Ops |-> IF o \in forgotten THEN 0 ELSE applied[o]]

KeepsPromise == Promise!Spec
====
