---- MODULE CalendarWrites ----
(***************************************************************************)
(* Write tools that record their progress in the journal.  Those that      *)
(* change a calendar in several Exchange requests are calendar_create,     *)
(* calendar_update, calendar_delete, calendar_cancel and calendar_respond. *)
(* A plan names the steps in the order in which they are requested: item   *)
(* changes or a meeting response first, notices after.  A step is          *)
(* requested when the step before it was acknowledged and checkpointed;    *)
(* the first failure, silence or crash ends the operation.                 *)
(* mail_set_auto_reply has a single step, which is recorded as partial     *)
(* when it is acknowledged and as succeeded when a read confirms it.       *)
(*                                                                         *)
(* wire[c] is the request of call c for its current step or Exchange's     *)
(* response to it, as in MailWrites.  A checkpoint and the record that     *)
(* closes the operation are two SQL statements, so a crash may separate    *)
(* them.                                                                   *)
(***************************************************************************)
EXTENDS WriteRuntime, Naturals, Sequences

CONSTANTS
    PlanOf,         \* the steps of each payload, in order
    ItemSteps,      \* Sync commands, whose SyncKey Exchange may reject
    CreateSteps,    \* Sync Adds, whose new item is read back before they count
    VerifiedSteps   \* settings of automatic replies, read back after they are recorded

ASSUME CreatesAreItemSteps == CreateSteps \subseteq ItemSteps /\ ItemSteps \subseteq Steps
ASSUME PlansAreStepLists ==
    /\ PlanOf \in [Payloads -> Seq(Steps)]
    /\ \A f \in Payloads :
          /\ Len(PlanOf[f]) > 0
          /\ \A i, j \in DOMAIN PlanOf[f] : PlanOf[f][i] = PlanOf[f][j] => i = j

ASSUME VerifiedStepsStandAlone ==
    /\ VerifiedSteps \subseteq Steps \ ItemSteps
    /\ \A f \in Payloads : \A i \in DOMAIN PlanOf[f] : PlanOf[f][i] \in VerifiedSteps => Len(PlanOf[f]) = 1

VARIABLES
    wire,       \* the request of each call for its current step, or the response
    at,         \* how many steps of its plan a call has seen acknowledged
    happened    \* history: how often each step of an operation took place

calendarVars == <<wire, at, happened>>
vars == <<journalVars, runtimeVars, calendarVars>>

Sending == {"sent", "resent", "resynced"}
Begun   == {"begun"} \cup Sending
Writing == Begun \cup {"verifying"}

Plan(c)      == PlanOf[input[c]]
Current(c)   == Plan(c)[at[c] + 1]
MoreSteps(c) == at[c] < Len(Plan(c))
FirstSteps(f, n) == {PlanOf[f][i] : i \in 1..n}
Completed(c, n) == FirstSteps(input[c], n)

Init ==
    /\ RuntimeInit
    /\ wire = [c \in Calls |-> "none"]
    /\ at = [c \in Calls |-> 0]
    /\ happened = [o \in Ops |-> [s \in Steps |-> 0]]

----
(* Exchange *)

Respond(c, response) ==
    /\ wire[c] = "request"
    /\ wire' = [wire EXCEPT ![c] = response]

ServerApply(c) ==
    /\ Respond(c, "ok")
    /\ happened' = [happened EXCEPT ![op[c]][Current(c)] = @ + 1]
    /\ UNCHANGED <<at, journalVars, runtimeVars>>

\* A definite rejection, a demand for a new policy key (HTTP 449), a rejected
\* SyncKey (Sync status 3), or the order to wipe the account.
ServerRefuse(c) ==
    /\ wire[c] = "request"
    /\ \E response \in {"rejected", "stale"}
                         \cup (IF Current(c) \in ItemSteps THEN {"badkey"} ELSE {})
                         \cup (IF Account(c) \in Wipeable THEN {"wiped"} ELSE {}) :
          Respond(c, response)
    /\ UNCHANGED <<at, happened, journalVars, runtimeVars>>

----
(* The request for a step *)

Transmit(c, stage) ==
    /\ pc' = [pc EXCEPT ![c] = stage]
    /\ wire' = [wire EXCEPT ![c] = "request"]
    /\ UNCHANGED <<at, happened, journalVars, procVars, lock, callVars, answer>>

Send(c) == pc[c] = "begun" /\ MoreSteps(c) /\ Transmit(c, "sent")

\* Mutant: the request is repeated whenever no response has arrived.
ResendUnanswered(c) == pc[c] = "sent" /\ Transmit(c, "resent")

\* 449 to the first request: the policy was renegotiated, send once more.
Resend(c) == pc[c] = "sent" /\ wire[c] = "stale" /\ Transmit(c, "resent")

\* The SyncKey was rejected: the collection is reset and read again, and the
\* request is sent a last time.
Resync(c) == pc[c] \in {"sent", "resent"} /\ wire[c] = "badkey" /\ Transmit(c, "resynced")

----
(* Checkpoints, and the record that closes the operation *)

\* Mutant: a step counts, and the next is requested, before it is acknowledged.
StepDoneEarly(c) ==
    /\ pc[c] \in Sending
    /\ wire[c] \in {"request", "ok"}
    /\ at' = [at EXCEPT ![c] = @ + 1]
    /\ Checkpoint(op[c], Completed(c, at[c] + 1))
    /\ pc' = [pc EXCEPT ![c] = "begun"]
    /\ UNCHANGED <<wire, happened, lock, answer, procVars, callVars>>

\* checkpoint_mutation and insert_event: the step is durable before the next
\* one is requested.  If either fails the caller learns that the outcome is
\* unknown and the row stays pending.
StepDone(c) ==
    /\ pc[c] \in Sending
    /\ wire[c] = "ok" /\ Current(c) \notin VerifiedSteps
    /\ at' = [at EXCEPT ![c] = @ + 1]
    /\ \/ /\ Checkpoint(op[c], Completed(c, at[c] + 1))
          /\ \/ pc' = [pc EXCEPT ![c] = "begun"] /\ UNCHANGED <<lock, answer>>
             \/ End(c, "unknown")
       \/ UNCHANGED journalVars /\ End(c, "unknown")
    /\ UNCHANGED <<wire, happened, procVars, callVars>>

\* Mutant: the final record does not repeat the completed steps.
SettleWithoutSteps(c, status) ==
    /\ \/ Conclude(op[c], status, {}) /\ End(c, status)
       \/ UNCHANGED journalVars /\ End(c, "unknown")
    /\ UNCHANGED <<calendarVars, procVars, callVars>>

\* calendar_success and calendar_failure: the record is written and the caller
\* told; a journal that cannot be written is reported as unknown.
Settle(c, status) ==
    /\ \/ Conclude(op[c], status, Completed(c, at[c])) /\ End(c, status)
       \/ UNCHANGED journalVars /\ End(c, "unknown")
    /\ UNCHANGED <<calendarVars, procVars, callVars>>

\* Mutant: a failure after the pending row always counts as partial.
AlwaysPartial(c) == "partial"

SafeFailure(c) == IF at[c] = 0 THEN "failed" ELSE "partial"

Succeed(c) ==
    /\ pc[c] = "begun"
    /\ ~MoreSteps(c)
    /\ Settle(c, "succeeded")

\* mail_set_auto_reply: the acknowledged settings are durable as partial before
\* they are read back.
Acknowledge(c) ==
    /\ pc[c] \in Sending
    /\ wire[c] = "ok" /\ Current(c) \in VerifiedSteps
    /\ at' = [at EXCEPT ![c] = @ + 1]
    /\ \/ /\ Conclude(op[c], "partial", Completed(c, at[c] + 1))
          /\ pc' = [pc EXCEPT ![c] = "verifying"] /\ UNCHANGED <<lock, answer>>
       \/ UNCHANGED journalVars /\ End(c, "unknown")
    /\ UNCHANGED <<wire, happened, procVars, callVars>>

Verified(c) == pc[c] = "verifying" /\ Settle(c, "succeeded")

\* Reading back failed, or showed other settings.
Unverified(c) ==
    /\ pc[c] = "verifying"
    /\ End(c, "partial")
    /\ UNCHANGED <<journalVars, calendarVars, procVars, callVars>>

\* The step was not sent (its source is gone, a capability is missing, the
\* request queue is full), or Exchange certainly did not act on it.
FailStep(c) ==
    /\ \/ pc[c] = "begun" /\ MoreSteps(c)
       \/ pc[c] \in Sending /\ wire[c] \in {"rejected", "stale", "badkey"}
    /\ Settle(c, SafeFailure(c))

\* add_event: Exchange acknowledged the new item, but reading it back failed.
LoseNewItem(c) ==
    /\ pc[c] \in Sending
    /\ wire[c] = "ok"
    /\ Current(c) \in CreateSteps
    /\ Settle(c, SafeFailure(c))

\* Mutant: a timeout is recorded as a safe failure.
LoseContactAsFailure(c) ==
    /\ pc[c] \in Sending
    /\ Settle(c, SafeFailure(c))

\* A timeout, a broken connection or an ambiguous answer, at any moment.
LoseContact(c) ==
    /\ pc[c] \in Sending
    /\ Settle(c, "unknown")

\* Told to wipe by the response, by a policy exchange or by a read in between.
ObeyWipe(c) ==
    /\ \/ pc[c] = "begun" /\ MoreSteps(c)
       \/ pc[c] \in Sending /\ wire[c] \in {"stale", "badkey", "wiped"}
       \/ pc[c] \in Sending /\ wire[c] = "ok" /\ Current(c) \in CreateSteps
       \/ pc[c] = "verifying"
    /\ Account(c) \in Wipeable
    /\ Wipe(host[c], Account(c))
    /\ \/ PurgeAccount(Account(c)) /\ End(c, "error")
       \/ End(c, "unknown")
    /\ UNCHANGED <<calendarVars, phase, unrecovered, callVars>>

----
CallStep(c) ==
    \/ Send(c) \/ Resend(c) \/ Resync(c) \/ StepDone(c) \/ Succeed(c)
    \/ Acknowledge(c) \/ Verified(c) \/ Unverified(c)
    \/ FailStep(c) \/ LoseNewItem(c) \/ LoseContact(c) \/ ObeyWipe(c)

\* No await separates the last checkpoint from calendar_success.
CancelRequest(c) ==
    /\ pc[c] = "begun" => MoreSteps(c)
    /\ Cancel(c, Writing)
    /\ UNCHANGED calendarVars

RuntimeOnly == RuntimeStep /\ UNCHANGED calendarVars

Next ==
    \/ RuntimeOnly
    \/ \E c \in Calls :
          CallStep(c) \/ CancelRequest(c) \/ ServerApply(c) \/ ServerRefuse(c)

Spec == Init /\ [][Next]_vars

----
(* Properties.  As in MailWrites, the journal answers for a UUID until its   *)
(* row is deleted; `forgotten' ends each promise.                            *)

Remembered == Ops \ forgotten

StepsOf(o) == FirstSteps(rows[o].payload, Len(PlanOf[rows[o].payload]))

InTransit(o, s) ==
    \E c \in Calls : op[c] = o /\ wire[c] = "request" /\ MoreSteps(c) /\ Current(c) = s

\* The step that comes first in the plan of row o and is not recorded.
FirstOpen(o, s) ==
    LET plan == PlanOf[rows[o].payload]
    IN  \E i \in DOMAIN plan :
           /\ plan[i] = s /\ s \notin rows[o].steps
           /\ \A j \in 1..(i - 1) : plan[j] \in rows[o].steps

TypeOK ==
    /\ RuntimeTypeOK
    /\ pc \in [Calls -> Early \cup Writing \cup Ended]
    /\ wire \in [Calls -> {"none", "request", "ok", "rejected", "stale", "badkey", "wiped"}]
    /\ at \in [Calls -> Nat]
    /\ happened \in [Ops -> [Steps -> Nat]]

\* No attendee is notified twice and no item is created twice under one UUID,
\* through replays, resends, resynchronisation and crashes in between.
StepsHappenOnce ==
    /\ TypeOK
    /\ \A o \in Remembered, s \in Steps : happened[o][s] <= 1

\* Steps take place in the order of the plan and none is left out before
\* another: nobody is told of a change that is not in the calendar, and a
\* series is not truncated before its tail exists (calendar_edits.rs).
StepsHappenInOrder ==
    \A o \in Remembered : Present(o) =>
        LET plan == PlanOf[rows[o].payload]
        IN  \A i \in 1..(Len(plan) - 1) :
               happened[o][plan[i + 1]] > 0 => happened[o][plan[i]] = 1

\* A recorded step took place, also in a row that recovery closed as unknown:
\* completed_steps never claims more than Exchange acknowledged.
RecordedStepsHappened ==
    \A o \in Remembered : \A s \in rows[o].steps : happened[o][s] = 1

\* What a closed row says is final: succeeded means every step of the plan;
\* failed and partial mean that no further step took place or still can, save
\* for a created item that could not be read back (calendar_failure).
ClosedRecordsAreFinal ==
    \A o \in Remembered :
        /\ rows[o].status = "succeeded" => rows[o].steps = StepsOf(o)
        /\ rows[o].status \in {"failed", "partial"} =>
              \A s \in Steps \ rows[o].steps :
                 /\ ~InTransit(o, s)
                 /\ happened[o][s] = 0 \/ (s \in CreateSteps /\ FirstOpen(o, s))
        /\ rows[o].status = "partial" => rows[o].steps # {}

\* A caller is told success only when every step took place, and partial only
\* when some did and no request is under way, also by the replay of a row.
TruthfulAnswers ==
    \A c \in Calls : op[c] \in Remembered =>
        /\ answer[c] = "succeeded" => \A s \in StepsOf(op[c]) : happened[op[c]][s] = 1
        /\ answer[c] = "partial" =>
              /\ \E s \in Steps : happened[op[c]][s] = 1
              /\ \A s \in Steps : ~InTransit(op[c], s)

\* Between its requests a call keeps its account locked and its row pending, or
\* partial while it reads automatic replies back.
RunningEditsAreLeftAlone ==
    \A c \in Calls : pc[c] \in Writing =>
        /\ lock[Account(c)] = c
        /\ op[c] \in Remembered =>
              /\ rows[op[c]].status = (IF pc[c] = "verifying" THEN "partial" ELSE "pending")
              /\ rows[op[c]].steps = Completed(c, at[c])

\* What rows say of past and of running steps is right.
RecordsAreTrue == RecordedStepsHappened /\ RunningEditsAreLeftAlone

\* Progress once recorded is kept: recovery, replays and the final record
\* never drop a completed step.
ProgressIsKept ==
    [][\A o \in Ops \ forgotten' : rows[o].steps \subseteq rows'[o].steps]_vars

\* OperationStatus::Failed: "Exchange safely rejected the request."
FailureMeansUntouched ==
    \A o \in Remembered : rows[o].status = "failed" => \A s \in Steps : happened[o][s] = 0
====
