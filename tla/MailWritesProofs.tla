---- MODULE MailWritesProofs ----
(***************************************************************************)
(* Theorems about MailWrites for any sets of processes, calls, operations, *)
(* accounts and payloads.                                                  *)
(*                                                                         *)
(* The inductive invariant says who owns an operation: among the calls     *)
(* that ever began it, one at most, and that call holds the account's lock *)
(* and a pending row for as long as it runs.  Everything else follows from *)
(* that: only the owner sends, and only the owner closes the row.          *)
(*                                                                         *)
(* The steps of the system are sorted into seven shapes by what they do to *)
(* the journal, the wire and the mailbox; most steps are Calm.             *)
(***************************************************************************)
EXTENDS MailWrites, TLAPS

Holding     == {"locked", "preparing"} \cup Begun
Involved(c) == pc[c] \in Begun \/ wire[c] # "none"

----
(* The inductive invariant *)

Started ==
    \A c \in Calls :
        /\ pc[c] = "new" => wire[c] = "none" /\ answer[c] = "none"
        /\ pc[c] # "new" => host[c] \in Procs /\ op[c] \in Ops /\ input[c] \in Payloads

Locked == \A c \in Calls : pc[c] \in Holding => lock[Account(c)] = c

Shell == TypeOK /\ Started /\ Locked

OwnsRow ==
    \A c \in Calls : pc[c] \in Begun /\ op[c] \in Remembered =>
        rows[op[c]].status = "pending" /\ rows[op[c]].account = Account(c)

OneOwner ==
    \A c, d \in Calls :
        Involved(c) /\ Involved(d) /\ op[c] = op[d] /\ op[c] \in Remembered => c = d

RowFirst ==
    /\ \A c \in Calls : Involved(c) /\ op[c] \in Remembered => Present(op[c])
    /\ \A o \in Remembered : ~Present(o) => applied[o] = 0

WireTells ==
    \A c \in Calls : op[c] \in Remembered =>
        /\ pc[c] = "begun" => wire[c] = "none" /\ applied[op[c]] = 0
        /\ wire[c] \in {"request", "rejected", "stale", "wiped"} => applied[op[c]] = 0
        /\ wire[c] = "ok" => applied[op[c]] = 1

NoPartialRow == \A o \in Ops : rows[o].status # "partial"

AnswersFromRows ==
    \A c \in Calls : op[c] \in Remembered /\ answer[c] \in {"succeeded", "failed"} =>
        rows[op[c]].status = answer[c]

Core ==
    /\ OwnsRow /\ OneOwner /\ RowFirst /\ WireTells
    /\ AtMostOnce /\ TruthfulRecord /\ NoPartialRow /\ AnswersFromRows

IInv == Shell /\ Core

----
(* Types, started calls and locks *)

\* The journal operators keep their types.
LEMMA JournalTypes ==
    ASSUME JournalTypeOK
    PROVE  /\ \A S \in SUBSET Ops : Delete(S) => JournalTypeOK'
           /\ \A a \in Accounts : RecoverAccount(a) => JournalTypeOK'
           /\ \A o \in Ops, a \in Accounts, f \in Payloads : Insert(o, a, f) => JournalTypeOK'
           /\ \A o \in Ops, st \in Statuses, done \in SUBSET Steps :
                 Conclude(o, st, done) => JournalTypeOK'
<1>1. ASSUME NEW S \in SUBSET Ops, Delete(S) PROVE JournalTypeOK'
  BY <1>1 DEF JournalTypeOK, Delete, Row, NoRow, Statuses
<1>2. ASSUME NEW a \in Accounts, RecoverAccount(a) PROVE JournalTypeOK'
  <2>1. \A o \in Ops : rows[o] \in Row
    BY DEF JournalTypeOK
  <2>2. \A o \in Ops : [rows[o] EXCEPT !.status = "unknown"] \in Row
    BY <2>1 DEF Row, Statuses
  <2> QED BY <1>2, <2>1, <2>2 DEF JournalTypeOK, RecoverAccount
<1>3. ASSUME NEW o \in Ops, NEW a \in Accounts, NEW f \in Payloads, Insert(o, a, f)
      PROVE  JournalTypeOK'
  BY <1>3 DEF JournalTypeOK, Insert, Row, Statuses
<1>4. ASSUME NEW o \in Ops, NEW st \in Statuses, NEW done \in SUBSET Steps,
             Conclude(o, st, done)
      PROVE  JournalTypeOK'
  <2>1. rows[o] \in Row
    BY DEF JournalTypeOK
  <2>2. [rows[o] EXCEPT !.status = st, !.steps = done] \in Row
    BY <2>1 DEF Row, Statuses
  <2> QED BY <1>4, <2>2 DEF JournalTypeOK, Conclude
<1> QED BY <1>1, <1>2, <1>3, <1>4

ProcTypes ==
    /\ phase \in [Procs -> {"down", "opened", "recovering", "up"}]
    /\ unrecovered \in [Procs -> SUBSET Accounts]
    /\ disabled \in [Procs -> SUBSET Accounts]

CallTypes ==
    /\ lock \in [Accounts -> Procs \cup Calls \cup {None}]
    /\ pc \in [Calls -> Early \cup Begun \cup Ended]
    /\ host \in [Calls -> Procs \cup {None}]
    /\ op \in [Calls -> Ops \cup {None}]
    /\ input \in [Calls -> Payloads \cup {None}]
    /\ answer \in [Calls -> Answers]
    /\ wire \in [Calls -> {"none", "request", "ok", "rejected", "stale", "wiped"}]

Frame == CallTypes /\ ProcTypes /\ Started /\ Locked

\* Releasing locks touches no other holder's lock.
LEMMA ReleaseFrees ==
    ASSUME NEW H, Release(H), lock \in [Accounts -> Procs \cup Calls \cup {None}]
    PROVE  /\ lock' \in [Accounts -> Procs \cup Calls \cup {None}]
           /\ \A a \in Accounts : lock[a] \notin H => lock'[a] = lock[a]
BY DEF Release

\* A replay tells the caller one of the known answers.
LEMMA ReplayAnswers == ASSUME NEW o, NEW f PROVE ReplayAnswer(o, f) \in Answers
BY PartialIsToldApart DEF ReplayAnswer, ExistingAnswer, Answers

\* Every step keeps types, and a call from its lock to its end keeps the lock.
LEMMA FrameStep == Frame /\ [Next]_vars => Frame'
<1> SUFFICES ASSUME Frame, [Next]_vars PROVE Frame'
  OBVIOUS
<1> USE ReleaseFrees, WipeableAccounts, AccountOfPayload, Holders
    DEF procVars, callVars, mailVars, journalVars, Frame, CallTypes, ProcTypes, Started, Locked,
          Holding, Early, Begun, Sending, Ended, Account, Answers, End
<1>1. ASSUME NEW p \in Procs, Open(p), UNCHANGED mailVars PROVE Frame'
  BY <1>1 DEF Open
<1>2. ASSUME NEW p \in Procs, ListPending(p), UNCHANGED mailVars PROVE Frame'
  BY <1>2 DEF ListPending, PendingAccounts
<1>3. ASSUME NEW p \in Procs, Serve(p), UNCHANGED mailVars PROVE Frame'
  BY <1>3 DEF Serve
<1>4. ASSUME NEW p \in Procs, Crash(p), UNCHANGED mailVars PROVE Frame'
  BY <1>4 DEF Crash, InFlight
<1>5. ASSUME NEW p \in Procs, NEW a \in Accounts, RecoverLock(p, a), UNCHANGED mailVars
      PROVE  Frame'
  BY <1>5 DEF RecoverLock
<1>6. ASSUME NEW p \in Procs, NEW a \in Accounts, RecoverRows(p, a), UNCHANGED mailVars
      PROVE  Frame'
  BY <1>6 DEF RecoverRows
<1>7. ASSUME NEW p \in Procs, NEW a \in Accounts, RecoverSkip(p, a), UNCHANGED mailVars
      PROVE  Frame'
  BY <1>7 DEF RecoverSkip
<1>8. ASSUME NEW p \in Procs, NEW a \in Accounts, ReaderWipe(p, a), UNCHANGED mailVars
      PROVE  Frame'
  BY <1>8 DEF ReaderWipe, Wipe
<1>9. ASSUME NEW c \in Calls, NEW p \in Procs, NEW o \in Ops, NEW f \in Payloads, Issue(c, p, o, f),
             UNCHANGED mailVars
      PROVE  Frame'
  BY <1>9, ReplayAnswers DEF Issue
<1>10. ASSUME NEW c \in Calls, Acquire(c), UNCHANGED mailVars PROVE Frame'
  BY <1>10 DEF Acquire
<1>11. ASSUME NEW c \in Calls, GiveUp(c), UNCHANGED mailVars PROVE Frame'
  BY <1>11 DEF GiveUp
<1>12. ASSUME NEW c \in Calls, Recheck(c), UNCHANGED mailVars PROVE Frame'
  BY <1>12 DEF Recheck
<1>13. ASSUME NEW c \in Calls, PrepareFails(c), UNCHANGED mailVars PROVE Frame'
  BY <1>13 DEF PrepareFails
<1>14. ASSUME NEW c \in Calls, Begin(c), UNCHANGED mailVars PROVE Frame'
  BY <1>14, ReplayAnswers DEF Begin
<1>15. ASSUME NEW c \in Calls, PrepareWiped(c), UNCHANGED mailVars PROVE Frame'
  BY <1>15 DEF PrepareWiped, Wipe
<1>16. ASSUME NEW c \in Calls, Cancel(c, {"queued", "preparing"}), UNCHANGED mailVars
      PROVE  Frame'
  BY <1>16 DEF Cancel
<1>17. ASSUME NEW c \in Calls, Send(c) PROVE Frame'
  BY <1>17 DEF Send
<1>18. ASSUME NEW c \in Calls, Resend(c) PROVE Frame'
  BY <1>18 DEF Resend
<1>19. ASSUME NEW c \in Calls, Confirm(c) PROVE Frame'
  BY <1>19 DEF Confirm, Settle
<1>20. ASSUME NEW c \in Calls, FindInPlace(c) PROVE Frame'
  BY <1>20 DEF FindInPlace, Settle
<1>21. ASSUME NEW c \in Calls, Reject(c) PROVE Frame'
  BY <1>21 DEF Reject, Settle
<1>22. ASSUME NEW c \in Calls, LoseContact(c) PROVE Frame'
  BY <1>22 DEF LoseContact, Settle
<1>23. ASSUME NEW c \in Calls, ObeyWipe(c) PROVE Frame'
  BY <1>23 DEF ObeyWipe, Wipe
<1>24. ASSUME NEW c \in Calls, CancelRequest(c) PROVE Frame'
  BY <1>24 DEF CancelRequest, Cancel
<1>25. ASSUME NEW c \in Calls, ServerApply(c) PROVE Frame'
  BY <1>25 DEF ServerApply, Respond, runtimeVars
<1>26. ASSUME NEW c \in Calls, ServerRefuse(c) PROVE Frame'
  BY <1>26 DEF ServerRefuse, Respond, runtimeVars
<1>27. CASE UNCHANGED vars
  BY <1>27 DEF vars, runtimeVars
<1> QED BY <1>1, <1>2, <1>3, <1>4, <1>5, <1>6, <1>7, <1>8, <1>9, <1>10, <1>11, <1>12, <1>13, <1>14,
           <1>15, <1>16, <1>17, <1>18, <1>19, <1>20, <1>21, <1>22, <1>23, <1>24, <1>25, <1>26, <1>27
    DEF Next, RuntimeOnly, RuntimeStep, CallStep

----
(* What a step does to the journal, the wire and the mailbox *)

\* Rows S are deleted (none by most steps); no call begins, sends or closes.
Calm(S) ==
    /\ \A o \in S : Present(o)
    /\ Delete(S)
    /\ UNCHANGED mailVars
    /\ \A c \in Calls :
          /\ pc'[c] \in Begun => pc'[c] = pc[c]
          /\ pc[c] = "new" \/ (op'[c] = op[c] /\ input'[c] = input[c])
          /\ answer'[c] \in {"succeeded", "failed"} =>
                answer'[c] = answer[c] \/ answer'[c] = ExistingAnswer(rows[op'[c]].status)

Inserts(c) ==
    /\ pc[c] = "preparing"
    /\ pc' = [pc EXCEPT ![c] = "begun"]
    /\ Insert(op[c], Account(c), input[c])
    /\ UNCHANGED <<mailVars, callVars, answer>>

Transmits(c) ==
    /\ \/ pc[c] = "begun" /\ pc' = [pc EXCEPT ![c] = "sent"]
       \/ pc[c] = "sent" /\ wire[c] = "stale" /\ pc' = [pc EXCEPT ![c] = "resent"]
    /\ wire' = [wire EXCEPT ![c] = "request"]
    /\ UNCHANGED <<journalVars, applied, callVars, answer>>

\* What entitles a call to close its row with a verdict.
Entitled(c, verdict) ==
    \/ verdict = "succeeded" /\ pc[c] \in Sending /\ wire[c] = "ok" /\ UNCHANGED applied
    \/ verdict = "succeeded" /\ pc[c] = "begun"
         /\ applied' = [applied EXCEPT ![op[c]] = @ + 1]
    \/ verdict = "failed" /\ (pc[c] = "begun" \/ wire[c] \in {"rejected", "stale"})
         /\ UNCHANGED applied
    \/ verdict = "unknown" /\ UNCHANGED applied

Closes(c, verdict) ==
    /\ pc[c] \in Begun
    /\ pc' = [pc EXCEPT ![c] = "finished"]
    /\ UNCHANGED <<wire, callVars>>
    /\ \/ /\ \E done \in SUBSET Steps : Conclude(op[c], verdict, done)
          /\ \E told \in {verdict, "unknown"} : answer' = [answer EXCEPT ![c] = told]
       \/ UNCHANGED journalVars /\ answer' = [answer EXCEPT ![c] = "unknown"]
    /\ Entitled(c, verdict)

Recovers(p, a) ==
    /\ lock[a] = p
    /\ RecoverAccount(a)
    /\ UNCHANGED <<mailVars, pc, callVars, answer>>

Responds(c, response) ==
    /\ wire[c] = "request"
    /\ wire' = [wire EXCEPT ![c] = response]
    /\ \/ response = "ok" /\ applied' = [applied EXCEPT ![op[c]] = @ + 1]
       \/ response # "ok" /\ UNCHANGED applied
    /\ UNCHANGED <<journalVars, pc, callVars, answer>>

Verdicts  == {"succeeded", "failed", "unknown"}
Responses == {"ok", "rejected", "stale", "wiped"}

Shape ==
    \/ \E S \in SUBSET Ops : Calm(S)
    \/ \E c \in Calls : Inserts(c) \/ Transmits(c)
    \/ \E c \in Calls, verdict \in Verdicts : Closes(c, verdict)
    \/ \E c \in Calls, response \in Responses : Responds(c, response)
    \/ \E p \in Procs, a \in Accounts : Recovers(p, a)

\* A step that leaves the journal alone deletes nothing.
LEMMA DeleteNone == JournalTypeOK /\ UNCHANGED journalVars => Delete({})
BY DEF JournalTypeOK, journalVars, Delete

\* A wipe deletes some rows, or none when the journal cannot be written.
LEMMA WipeDeletes ==
    ASSUME JournalTypeOK, NEW p, NEW a, Wipe(p, a)
    PROVE  \E S \in SUBSET Ops : Delete(S) /\ \A o \in S : Present(o)
<1>1. CASE PurgeAccount(a)
  BY <1>1 DEF PurgeAccount, RowsOf
<1>2. CASE UNCHANGED journalVars
  BY <1>2, DeleteNone
<1> QED BY <1>1, <1>2 DEF Wipe

\* Every step has a shape: one named step per action.
LEMMA StepShape == Frame /\ JournalTypeOK /\ [Next]_vars => Shape
<1> SUFFICES ASSUME Frame, JournalTypeOK, [Next]_vars PROVE Shape
  OBVIOUS
<1> USE DEF Frame, CallTypes, callVars, mailVars
<1>1. ASSUME NEW p \in Procs, Open(p), UNCHANGED mailVars
      PROVE  \E S \in SUBSET Ops : Calm(S)
  BY <1>1 DEF Open, Prune, Expirable, Present,
             Calm, journalVars, Early, Begun, Sending, Ended, End
<1>2. ASSUME NEW p \in Procs, ListPending(p), UNCHANGED mailVars PROVE Calm({})
  BY <1>2, DeleteNone DEF ListPending, Calm, Begun, Sending
<1>3. ASSUME NEW p \in Procs, Serve(p), UNCHANGED mailVars PROVE Calm({})
  BY <1>3, DeleteNone DEF Serve, Calm, Begun, Sending
<1>4. ASSUME NEW p \in Procs, Crash(p), UNCHANGED mailVars PROVE Calm({})
  BY <1>4, DeleteNone DEF Crash, Calm, Begun, Sending, InFlight
<1>5. ASSUME NEW p \in Procs, NEW a \in Accounts, RecoverLock(p, a), UNCHANGED mailVars
      PROVE  Calm({})
  BY <1>5, DeleteNone DEF RecoverLock, Calm, Begun, Sending
<1>6. ASSUME NEW p \in Procs, NEW a \in Accounts, RecoverRows(p, a), UNCHANGED mailVars
      PROVE  Recovers(p, a)
  BY <1>6 DEF RecoverRows, Recovers
<1>7. ASSUME NEW p \in Procs, NEW a \in Accounts, RecoverSkip(p, a), UNCHANGED mailVars
      PROVE  Calm({})
  BY <1>7, DeleteNone DEF RecoverSkip, Calm, Begun, Sending
<1>8. ASSUME NEW p \in Procs, NEW a \in Accounts, ReaderWipe(p, a), UNCHANGED mailVars
      PROVE  \E S \in SUBSET Ops : Calm(S)
  <2>1. PICK S \in SUBSET Ops : Delete(S) /\ \A o \in S : Present(o)
    BY <1>8, WipeDeletes DEF ReaderWipe
  <2>2. Calm(S)
    BY <1>8, <2>1 DEF ReaderWipe, Calm, Begun, Sending
  <2> QED BY <2>2
<1>9. ASSUME NEW c \in Calls, NEW p \in Procs, NEW o \in Ops, NEW f \in Payloads, Issue(c, p, o, f),
             UNCHANGED mailVars
      PROVE  Calm({})
  <2>1. Delete({}) /\ op'[c] = o /\ pc[c] = "new"
    BY <1>9, DeleteNone DEF Issue
  <2>2. \A d \in Calls \ {c} :
           pc'[d] = pc[d] /\ op'[d] = op[d] /\ input'[d] = input[d] /\ answer'[d] = answer[d]
    BY <1>9 DEF Issue, End
  <2>3. pc'[c] \notin Begun
    BY <1>9 DEF Issue, End, Begun, Sending
  <2>4. answer'[c] \in {answer[c], ExistingAnswer(rows[o].status), "conflict", "error"}
    BY <1>9 DEF Issue, End, ReplayAnswer
  <2>5. answer'[c] \in {"succeeded", "failed"} =>
           answer'[c] = answer[c] \/ answer'[c] = ExistingAnswer(rows[op'[c]].status)
    BY <2>1, <2>4
  <2> QED BY <1>9, <2>1, <2>2, <2>3, <2>5 DEF Calm
<1>10. ASSUME NEW c \in Calls, Acquire(c), UNCHANGED mailVars PROVE Calm({})
  BY <1>10, DeleteNone DEF Acquire, Calm, Begun, Sending
<1>11. ASSUME NEW c \in Calls, GiveUp(c), UNCHANGED mailVars PROVE Calm({})
  BY <1>11, DeleteNone DEF GiveUp, Calm, Begun, Sending, End
<1>12. ASSUME NEW c \in Calls, Recheck(c), UNCHANGED mailVars PROVE Calm({})
  BY <1>12, DeleteNone DEF Recheck, Calm, Begun, Sending, End
<1>13. ASSUME NEW c \in Calls, PrepareFails(c), UNCHANGED mailVars PROVE Calm({})
  BY <1>13, DeleteNone DEF PrepareFails, Calm, Begun, Sending, End
<1>14. ASSUME NEW c \in Calls, Begin(c), UNCHANGED mailVars PROVE Inserts(c) \/ Calm({})
  <2>1. CASE Insert(op[c], Account(c), input[c]) /\ pc' = [pc EXCEPT ![c] = "begun"]
    BY <1>14, <2>1 DEF Begin, Inserts, Insert
  <2>2. CASE Present(op[c]) /\ UNCHANGED journalVars
    BY <1>14, <2>2, DeleteNone DEF Begin, ReplayAnswer, Insert,
             Calm, journalVars, Early, Begun, Sending, Ended, End
  <2> QED BY <1>14, <2>1, <2>2 DEF Begin, Insert
<1>15. ASSUME NEW c \in Calls, PrepareWiped(c), UNCHANGED mailVars
      PROVE  \E S \in SUBSET Ops : Calm(S)
  <2>1. PICK S \in SUBSET Ops : Delete(S) /\ \A o \in S : Present(o)
    BY <1>15, WipeDeletes DEF PrepareWiped
  <2>2. Calm(S)
    BY <1>15, <2>1 DEF PrepareWiped, Calm, Begun, Sending, End
  <2> QED BY <2>2
<1>16. ASSUME NEW c \in Calls, Cancel(c, {"queued", "preparing"}), UNCHANGED mailVars
      PROVE  Calm({})
  BY <1>16, DeleteNone DEF Cancel, Calm, Begun, Sending
<1>17. ASSUME NEW c \in Calls, Send(c) PROVE Transmits(c)
  BY <1>17 DEF Send, Transmits
<1>18. ASSUME NEW c \in Calls, Resend(c) PROVE Transmits(c)
  BY <1>18 DEF Resend, Transmits
<1>19. ASSUME NEW c \in Calls, Confirm(c) PROVE Closes(c, "succeeded")
  BY <1>19, ConfirmedIsAStep DEF Confirm, Settle, Closes, Entitled, End, Begun, Sending
<1>20. ASSUME NEW c \in Calls, FindInPlace(c) PROVE Closes(c, "succeeded")
  BY <1>20, ConfirmedIsAStep DEF FindInPlace, Settle, Closes, Entitled, End, Begun, Sending
<1>21. ASSUME NEW c \in Calls, Reject(c) PROVE Closes(c, "failed")
  BY <1>21, ConfirmedIsAStep DEF Reject, Settle, Closes, Entitled, End, Begun, Sending
<1>22. ASSUME NEW c \in Calls, LoseContact(c) PROVE Closes(c, "unknown")
  BY <1>22, ConfirmedIsAStep DEF LoseContact, Settle, Closes, Entitled, End, Begun, Sending
<1>23. ASSUME NEW c \in Calls, ObeyWipe(c) PROVE \E S \in SUBSET Ops : Calm(S)
  <2>1. PICK S \in SUBSET Ops : Delete(S) /\ \A o \in S : Present(o)
    BY <1>23, WipeDeletes DEF ObeyWipe
  <2>2. \E told \in {"error", "unknown"} : End(c, told)
    BY <1>23 DEF ObeyWipe
  <2>3. Calm(S)
    BY <1>23, <2>1, <2>2 DEF ObeyWipe, Calm, Begun, Sending, End
  <2> QED BY <2>3
<1>24. ASSUME NEW c \in Calls, CancelRequest(c) PROVE Calm({})
  BY <1>24, DeleteNone DEF CancelRequest, Calm, Begun, Sending, Cancel
<1>25. ASSUME NEW c \in Calls, ServerApply(c) PROVE Responds(c, "ok")
  BY <1>25 DEF ServerApply, Respond, Responds, runtimeVars
<1>26. ASSUME NEW c \in Calls, ServerRefuse(c)
      PROVE  \E response \in Responses : Responds(c, response)
  BY <1>26 DEF ServerRefuse, Respond, Responds, Responses, runtimeVars
<1>27. ASSUME UNCHANGED vars PROVE Calm({})
  BY <1>27, DeleteNone DEF vars, runtimeVars, Calm
<1> QED BY <1>1, <1>2, <1>3, <1>4, <1>5, <1>6, <1>7, <1>8, <1>9, <1>10, <1>11, <1>12, <1>13, <1>14,
           <1>15, <1>16, <1>17, <1>18, <1>19, <1>20, <1>21, <1>22, <1>23, <1>24, <1>25, <1>26, <1>27
    DEF Next, RuntimeOnly, RuntimeStep, CallStep, Shape, Verdicts, Responses, RowsOf

----
(* Each shape keeps the core *)

\* Deleting rows ends promises and starts none; answers replay what rows say.
LEMMA CalmKeeps ==
    ASSUME Frame, JournalTypeOK, applied \in [Ops -> Nat], Core, Frame',
           NEW S \in SUBSET Ops, Calm(S)
    PROVE  Core'
<1> USE Holders DEF Frame, CallTypes, Started, Locked, JournalTypeOK, Core, Involved, Holding, Begun, Sending,
        Ended, Remembered, Present, Account, journalVars, mailVars, callVars,
        Calm, Delete, NoRow
<1>1. OwnsRow'
  BY DEF OwnsRow
<1>2. OneOwner'
  BY DEF OneOwner
<1>3. RowFirst'
  BY DEF RowFirst
<1>4. WireTells'
  BY DEF WireTells
<1>5. AtMostOnce'
  BY DEF AtMostOnce
<1>6. TruthfulRecord'
  BY DEF TruthfulRecord
<1>7. NoPartialRow'
  BY DEF NoPartialRow
<1>8. AnswersFromRows'
  BY DEF AnswersFromRows, NoPartialRow, ExistingAnswer
<1> QED BY <1>1, <1>2, <1>3, <1>4, <1>5, <1>6, <1>7, <1>8

\* A new row gets its first and only owner.
LEMMA InsertsKeeps ==
    ASSUME Frame, JournalTypeOK, applied \in [Ops -> Nat], Core, Frame',
           NEW c \in Calls, Inserts(c)
    PROVE  Core'
<1> USE Holders DEF Frame, CallTypes, Started, Locked, JournalTypeOK, Core, Involved, Holding, Begun, Sending,
        Ended, Remembered, Present, Account, journalVars, mailVars, callVars,
        Inserts, Insert
<1>1. OwnsRow'
  BY DEF OwnsRow
<1>2. OneOwner'
  BY DEF OneOwner, RowFirst
<1>3. RowFirst'
  BY DEF RowFirst
<1>4. WireTells'
  BY DEF WireTells, RowFirst
<1>5. AtMostOnce'
  BY DEF AtMostOnce
<1>6. TruthfulRecord'
  BY DEF TruthfulRecord
<1>7. NoPartialRow'
  BY DEF NoPartialRow
<1>8. AnswersFromRows'
  BY DEF AnswersFromRows
<1> QED BY <1>1, <1>2, <1>3, <1>4, <1>5, <1>6, <1>7, <1>8

\* Only the owner of a pending row puts a request on the wire.
LEMMA TransmitsKeeps ==
    ASSUME Frame, JournalTypeOK, applied \in [Ops -> Nat], Core, Frame',
           NEW c \in Calls, Transmits(c)
    PROVE  Core'
<1> USE Holders DEF Frame, CallTypes, Started, Locked, JournalTypeOK, Core, Involved, Holding, Begun, Sending,
        Ended, Remembered, Present, Account, journalVars, mailVars, callVars,
        Transmits
<1>1. OwnsRow'
  BY DEF OwnsRow
<1>2. OneOwner'
  BY DEF OneOwner
<1>3. RowFirst'
  BY DEF RowFirst
<1>4. WireTells'
  BY DEF WireTells
<1>5. AtMostOnce'
  BY DEF AtMostOnce
<1>6. TruthfulRecord'
  BY DEF TruthfulRecord, OwnsRow, WireTells
<1>7. NoPartialRow'
  BY DEF NoPartialRow
<1>8. AnswersFromRows'
  BY DEF AnswersFromRows
<1> QED BY <1>1, <1>2, <1>3, <1>4, <1>5, <1>6, <1>7, <1>8

\* Closing touches one call and one operation.
Touches(c, verdict) ==
    /\ op[c] \in Ops /\ pc[c] \in Begun /\ pc'[c] = "finished"
    /\ \A d \in Calls \ {c} : pc'[d] = pc[d] /\ answer'[d] = answer[d]
    /\ op' = op /\ input' = input /\ wire' = wire /\ forgotten' = forgotten
    /\ \A q \in Ops \ {op[c]} : rows'[q] = rows[q] /\ applied'[q] = applied[q]
    /\ \/ rows'[op[c]] = rows[op[c]] /\ answer'[c] = "unknown"
       \/ /\ rows'[op[c]].account = rows[op[c]].account
          /\ rows'[op[c]].status = verdict
          /\ answer'[c] \in {verdict, "unknown"}

\* A remembered operation is closed by its only owner, and as it deserves.
Deserved(c, verdict) ==
    op[c] \notin forgotten =>
        /\ rows[op[c]].status = "pending"
        /\ applied[op[c]] \in {0, 1} /\ applied'[op[c]] \in {0, 1}
        /\ verdict = "succeeded" => applied'[op[c]] = 1
        /\ verdict = "failed" => applied'[op[c]] = 0 /\ wire[c] # "request"
        /\ wire[c] # "none" => applied'[op[c]] = applied[op[c]]
        /\ applied'[op[c]] # applied[op[c]] => applied[op[c]] = 0 /\ verdict = "succeeded"
        /\ \A d \in Calls : Involved(d) /\ op[d] = op[c] => d = c

\* Closes touches no more than that, and the verdict is deserved.
LEMMA CloseEffect ==
    ASSUME Frame, JournalTypeOK, applied \in [Ops -> Nat], Core,
           NEW c \in Calls, NEW verdict \in Verdicts, Closes(c, verdict)
    PROVE  Touches(c, verdict) /\ Deserved(c, verdict)
<1> USE DEF Frame, CallTypes, JournalTypeOK, Core, Remembered, Present
<1>1. op[c] \in Ops /\ pc[c] \in Begun /\ pc'[c] = "finished"
  BY DEF Closes, Started, Begun, Sending
<1>2. /\ \A d \in Calls \ {c} : pc'[d] = pc[d] /\ answer'[d] = answer[d]
      /\ op' = op /\ input' = input /\ wire' = wire /\ forgotten' = forgotten
  BY DEF Closes, callVars, Conclude, journalVars
<1>3. \A q \in Ops \ {op[c]} : rows'[q] = rows[q] /\ applied'[q] = applied[q]
  BY <1>1 DEF Closes, Entitled, Conclude, journalVars
<1>4. \/ rows'[op[c]] = rows[op[c]] /\ answer'[c] = "unknown"
      \/ /\ rows'[op[c]].account = rows[op[c]].account
         /\ rows'[op[c]].status = verdict
         /\ answer'[c] \in {verdict, "unknown"}
  <2>1. CASE UNCHANGED journalVars /\ answer' = [answer EXCEPT ![c] = "unknown"]
    BY <2>1 DEF journalVars
  <2>2. ASSUME NEW done \in SUBSET Steps, Conclude(op[c], verdict, done),
               NEW told \in {verdict, "unknown"}, answer' = [answer EXCEPT ![c] = told]
        PROVE  /\ rows'[op[c]].account = rows[op[c]].account
               /\ rows'[op[c]].status = verdict
               /\ answer'[c] \in {verdict, "unknown"}
    BY <1>1, <2>2 DEF Conclude, Row
  <2> QED BY <2>1, <2>2 DEF Closes
<1>5. Touches(c, verdict)
  BY <1>1, <1>2, <1>3, <1>4 DEF Touches
<1>6. Deserved(c, verdict)
  BY <1>1 DEF Deserved, Closes, Entitled, OwnsRow, OneOwner, WireTells, AtMostOnce, Involved, Begun, Sending
<1> QED BY <1>5, <1>6

\* The owner gives its row the verdict that the response deserves.
LEMMA ClosesKeeps ==
    ASSUME Frame, JournalTypeOK, applied \in [Ops -> Nat], Core, Frame',
           NEW c \in Calls, NEW verdict \in Verdicts, Closes(c, verdict)
    PROVE  Core'
<1>1. Touches(c, verdict) /\ Deserved(c, verdict)
  BY CloseEffect
<1> USE <1>1 DEF Frame, CallTypes, Started, JournalTypeOK, Core, Touches, Deserved, Remembered, Present,
        Verdicts, Involved, Account, Begun, Sending
<1>2. OwnsRow'
  BY DEF OwnsRow
<1>3. OneOwner'
  BY DEF OneOwner
<1>4. RowFirst'
  BY DEF RowFirst
<1>5. WireTells'
  BY DEF WireTells, OneOwner
<1>6. AtMostOnce'
  BY DEF AtMostOnce
<1>7. TruthfulRecord'
  BY DEF TruthfulRecord, OneOwner
<1>8. NoPartialRow'
  BY DEF NoPartialRow
<1>9. AnswersFromRows'
  BY DEF AnswersFromRows
<1> QED BY <1>2, <1>3, <1>4, <1>5, <1>6, <1>7, <1>8, <1>9

\* Exchange acts on a request at most once, while the outcome is open.
LEMMA RespondsKeeps ==
    ASSUME Frame, JournalTypeOK, applied \in [Ops -> Nat], Core, Frame',
           NEW c \in Calls, NEW response \in Responses, Responds(c, response)
    PROVE  Core'
<1> USE Holders DEF Frame, CallTypes, Started, Locked, JournalTypeOK, Core, Involved, Holding, Begun, Sending,
        Ended, Remembered, Present, Account, journalVars, mailVars, callVars,
        Responds, Responses
<1>1. OwnsRow'
  BY DEF OwnsRow
<1>2. OneOwner'
  BY DEF OneOwner
<1>3. RowFirst'
  BY DEF RowFirst
<1>4. WireTells'
  BY DEF WireTells, OneOwner
<1>5. AtMostOnce'
  BY DEF AtMostOnce, WireTells
<1>6. TruthfulRecord'
  BY DEF TruthfulRecord, WireTells
<1>7. NoPartialRow'
  BY DEF NoPartialRow
<1>8. AnswersFromRows'
  BY DEF AnswersFromRows
<1> QED BY <1>1, <1>2, <1>3, <1>4, <1>5, <1>6, <1>7, <1>8

\* Recovery holds the lock that every running owner would hold.
LEMMA RecoversKeeps ==
    ASSUME Frame, JournalTypeOK, applied \in [Ops -> Nat], Core, Frame',
           NEW p \in Procs, NEW a \in Accounts, Recovers(p, a)
    PROVE  Core'
<1> USE Holders DEF Frame, CallTypes, Started, Locked, JournalTypeOK, Core, Involved, Holding, Begun, Sending,
        Ended, Remembered, Present, Account, journalVars, mailVars, callVars,
        Recovers, RecoverAccount
<1>1. OwnsRow'
  BY DEF OwnsRow
<1>2. OneOwner'
  BY DEF OneOwner
<1>3. RowFirst'
  BY DEF RowFirst
<1>4. WireTells'
  BY DEF WireTells
<1>5. AtMostOnce'
  BY DEF AtMostOnce
<1>6. TruthfulRecord'
  BY DEF TruthfulRecord
<1>7. NoPartialRow'
  BY DEF NoPartialRow
<1>8. AnswersFromRows'
  BY DEF AnswersFromRows
<1> QED BY <1>1, <1>2, <1>3, <1>4, <1>5, <1>6, <1>7, <1>8

----
(* The invariant *)

\* The shell, in the parts the step lemmas speak of.
LEMMA ShellParts == Shell <=> Frame /\ JournalTypeOK /\ applied \in [Ops -> Nat]
BY DEF Shell, TypeOK, RuntimeTypeOK, Frame, ProcTypes, CallTypes

\* Nothing has begun.
LEMMA InitIInv == Init => IInv
<1> SUFFICES ASSUME Init PROVE IInv
  OBVIOUS
<1> USE DEF Init, RuntimeInit, JournalInit
<1>1. JournalTypeOK
  BY DEF JournalTypeOK, NoRow, Row
<1>2. Frame
  BY DEF Frame, CallTypes, ProcTypes, Started, Locked, Holding, Begun, Sending, Early, Ended, Answers
<1>3. Core
  BY DEF Core, OwnsRow, OneOwner, RowFirst, WireTells, AtMostOnce, TruthfulRecord, NoPartialRow,
         AnswersFromRows, Remembered, Involved, Begun, Sending, Present, NoRow
<1> QED BY <1>1, <1>2, <1>3, ShellParts DEF IInv

\* The journal and the effect counters keep their types.
LEMMA StoreStep ==
    Frame /\ JournalTypeOK /\ applied \in [Ops -> Nat] /\ Shape
      => JournalTypeOK' /\ applied' \in [Ops -> Nat]
<1> SUFFICES ASSUME Frame, JournalTypeOK, applied \in [Ops -> Nat], Shape
             PROVE  JournalTypeOK' /\ applied' \in [Ops -> Nat]
  OBVIOUS
<1>1. ASSUME NEW S \in SUBSET Ops, Calm(S) PROVE JournalTypeOK' /\ applied' = applied
  BY <1>1, JournalTypes DEF Calm, mailVars
<1>2. ASSUME NEW c \in Calls, Inserts(c) PROVE JournalTypeOK' /\ applied' = applied
  <2>1. op[c] \in Ops /\ input[c] \in Payloads /\ Account(c) \in Accounts
    BY <1>2, AccountOfPayload DEF Inserts, Frame, Started, Account
  <2> QED BY <1>2, <2>1, JournalTypes DEF Inserts, mailVars
<1>3. ASSUME NEW c \in Calls, Transmits(c) PROVE JournalTypeOK' /\ applied' = applied
  BY <1>3 DEF Transmits, journalVars, JournalTypeOK
<1>4. ASSUME NEW c \in Calls, NEW verdict \in Verdicts, Closes(c, verdict)
      PROVE  JournalTypeOK' /\ applied' \in [Ops -> Nat]
  <2>1. op[c] \in Ops /\ verdict \in Statuses
    BY <1>4 DEF Closes, Frame, Started, Begun, Sending, Verdicts, Statuses
  <2>2. JournalTypeOK'
    BY <1>4, <2>1, JournalTypes DEF Closes, journalVars, JournalTypeOK
  <2> QED BY <1>4, <2>1, <2>2 DEF Closes, Entitled
<1>5. ASSUME NEW c \in Calls, NEW response \in Responses, Responds(c, response)
      PROVE  JournalTypeOK' /\ applied' \in [Ops -> Nat]
  BY <1>5 DEF Responds, journalVars, JournalTypeOK
<1>6. ASSUME NEW p \in Procs, NEW a \in Accounts, Recovers(p, a)
      PROVE  JournalTypeOK' /\ applied' = applied
  BY <1>6, JournalTypes DEF Recovers, mailVars
<1> QED BY <1>1, <1>2, <1>3, <1>4, <1>5, <1>6 DEF Shape

\* The invariant is inductive.
LEMMA StepIInv == IInv /\ [Next]_vars => IInv'
<1> SUFFICES ASSUME IInv, [Next]_vars PROVE IInv'
  OBVIOUS
<1>1. Frame /\ JournalTypeOK /\ applied \in [Ops -> Nat] /\ Core
  BY ShellParts DEF IInv
<1>2. Frame' /\ Shape
  BY <1>1, FrameStep, StepShape
<1>3. JournalTypeOK' /\ applied' \in [Ops -> Nat]
  BY <1>1, <1>2, StoreStep
<1>4. Core'
  BY <1>1, <1>2, CalmKeeps, InsertsKeeps, TransmitsKeeps, ClosesKeeps, RespondsKeeps, RecoversKeeps
  DEF Shape
<1>5. Shell'
  BY <1>2, <1>3 DEF Shell, TypeOK, RuntimeTypeOK, Frame, ProcTypes, CallTypes
<1> QED BY <1>4, <1>5 DEF IInv

\* The inductive invariant holds throughout.
THEOREM Invariance == Spec => []IInv
<1>1. Init => IInv
  BY InitIInv
<1>2. IInv /\ [Next]_vars => IInv'
  BY StepIInv
<1> QED BY <1>1, <1>2, PTL DEF Spec

\* Every variable keeps its type, whatever the processes, calls and journal do.
THEOREM TypeCorrect == Spec => []TypeOK
<1>1. IInv => TypeOK
  BY DEF IInv, Shell
<1> QED BY <1>1, Invariance, PTL

\* However many processes submit a UUID however often, and wherever they
\* crash, its operation changes the mailbox at most once.
THEOREM EffectsAtMostOnce == Spec => []AtMostOnce
<1>1. IInv => AtMostOnce
  BY DEF IInv, Core
<1> QED BY <1>1, Invariance, PTL

\* A succeeded row proves the effect, a failed row excludes it for good.
THEOREM RecordsAreTruthful == Spec => []TruthfulRecord
<1>1. IInv => TruthfulRecord
  BY DEF IInv, Core
<1> QED BY <1>1, Invariance, PTL

\* No caller is ever told succeeded or failed when the mailbox says otherwise.
THEOREM AnswersAreTruthful == Spec => []TruthfulAnswers
<1>1. ASSUME IInv PROVE TruthfulAnswers
  BY <1>1 DEF IInv, Shell, TypeOK, RuntimeTypeOK, Core, AnswersFromRows, TruthfulRecord,
              TruthfulAnswers, Remembered
<1> QED BY <1>1, Invariance, PTL

\* Recovery, other writers and retention spare a write that is running.
THEOREM RunningWritesKeepTheirRow == Spec => []RunningWritesAreLeftAlone
<1>1. ASSUME IInv PROVE RunningWritesAreLeftAlone
  BY <1>1 DEF IInv, Shell, Locked, Holding, Core, OwnsRow, RunningWritesAreLeftAlone
<1> QED BY <1>1, Invariance, PTL

----
(* What no step does *)

\* A row that left pending keeps its verdict until the journal deletes it.
THEOREM VerdictsAreFinal == Spec => VerdictsStand
<1> DEFINE Stand == \A o \in Ops : rows[o].status \notin {"absent", "pending"} /\ o \notin forgotten'
                        => rows'[o].status = rows[o].status
<1>1. ASSUME IInv, [Next]_vars PROVE Stand
  <2> USE DEF Frame, CallTypes, JournalTypeOK, Remembered
  <2>1. Frame /\ JournalTypeOK /\ Core /\ Shape
    BY <1>1, ShellParts, StepShape DEF IInv
  <2>2. ASSUME NEW S \in SUBSET Ops, Calm(S) PROVE Stand
    BY <2>1, <2>2 DEF Calm, Delete
  <2>3. ASSUME NEW c \in Calls, Inserts(c) PROVE Stand
    BY <2>1, <2>3 DEF Inserts, Insert, Present
  <2>4. ASSUME NEW c \in Calls, NEW verdict \in Verdicts, Closes(c, verdict) PROVE Stand
    BY <2>1, <2>4 DEF Closes, Conclude, Core, OwnsRow, journalVars
  <2>5. ASSUME NEW p \in Procs, NEW a \in Accounts, Recovers(p, a) PROVE Stand
    BY <2>1, <2>5 DEF Recovers, RecoverAccount
  <2> QED BY <2>1, <2>2, <2>3, <2>4, <2>5 DEF Shape, Transmits, Responds, journalVars
<1> QED BY <1>1, Invariance, PTL DEF Spec, VerdictsStand

\* A step that turns a pending row into unknown either is the owner's own
\* end or finds no owner left.
THEOREM OnlyOrphansAreRecovered == Spec => RecoveryClosesOnlyOrphans
<1> DEFINE Orphans == \A o \in Remembered : rows[o].status = "pending" /\ rows'[o].status = "unknown"
                         => ~\E c \in Calls : op[c] = o /\ pc[c] \in Begun /\ pc'[c] \in Begun
<1>1. ASSUME IInv, [Next]_vars PROVE Orphans
  <2> USE DEF Frame, CallTypes, JournalTypeOK, Remembered
  <2>1. Frame /\ JournalTypeOK /\ Core /\ Shape
    BY <1>1, ShellParts, StepShape DEF IInv
  <2>2. ASSUME NEW S \in SUBSET Ops, Calm(S) PROVE Orphans
    BY <2>1, <2>2 DEF Calm, Delete, NoRow
  <2>3. ASSUME NEW c \in Calls, Inserts(c) PROVE Orphans
    BY <2>1, <2>3 DEF Inserts, Insert, Present
  <2>4. ASSUME NEW c \in Calls, NEW verdict \in Verdicts, Closes(c, verdict) PROVE Orphans
    BY <2>1, <2>4 DEF Closes, Conclude, Core, OneOwner, Involved, journalVars, Begun, Sending
  <2>5. ASSUME NEW p \in Procs, NEW a \in Accounts, Recovers(p, a) PROVE Orphans
    <3>1. ASSUME NEW c \in Calls, op[c] \in Remembered, pc[c] \in Begun
          PROVE  rows'[op[c]] = rows[op[c]]
      <4>1. lock[Account(c)] = c /\ rows[op[c]].account = Account(c)
        BY <2>1, <3>1 DEF Locked, Holding, Core, OwnsRow
      <4>2. Account(c) # a
        BY <2>5, <4>1, Holders DEF Recovers
      <4> QED BY <2>1, <2>5, <3>1, <4>1, <4>2 DEF Recovers, RecoverAccount
    <3> QED BY <3>1
  <2> QED BY <2>1, <2>2, <2>3, <2>4, <2>5 DEF Shape, Transmits, Responds, journalVars
<1> QED BY <1>1, Invariance, PTL DEF Spec, RecoveryClosesOnlyOrphans

----
(* MailWrites keeps the promise of IdempotentWrites *)

\* No row, no effect.
LEMMA InitPromise == Init => Promise!Init
BY DEF Init, RuntimeInit, JournalInit, NoRow, Present, Promise!Init

\* Each shape is one step of the promise, or none.
LEMMA StepPromise == IInv /\ [Next]_vars => Promise!Next \/ UNCHANGED Promise!vars
<1> SUFFICES ASSUME IInv, [Next]_vars PROVE Promise!Next \/ UNCHANGED Promise!vars
  OBVIOUS
<1> USE DEF Frame, CallTypes, JournalTypeOK, Remembered, Present
<1>1. Frame /\ JournalTypeOK /\ applied \in [Ops -> Nat] /\ Core /\ Shape
  BY ShellParts, StepShape DEF IInv
<1>2. ASSUME NEW S \in SUBSET Ops, Calm(S) PROVE Promise!Forget(S)
  <2>1. /\ S \subseteq forgotten' /\ applied' = applied
        /\ \A o \in Ops \ S : rows'[o] = rows[o] /\ (o \in forgotten' <=> o \in forgotten)
        /\ \A o \in S : Present(o) /\ rows[o].status # "none"
    BY <1>1, <1>2 DEF Calm, Delete, mailVars, Row, Statuses
  <2> QED BY <1>1, <2>1 DEF Promise!Forget
<1>3. ASSUME NEW c \in Calls, Inserts(c)
      PROVE  (\E o \in Ops : Promise!Begin(o)) \/ UNCHANGED Promise!vars
  <2> PICK o \in Ops : o = op[c]
    BY <1>1, <1>3 DEF Inserts, Started
  <2>1. Promise!Begin(o) \/ UNCHANGED Promise!vars
    BY <1>1, <1>3 DEF Inserts, Insert, mailVars, Promise!Begin, Promise!Move, Promise!vars
  <2> QED BY <2>1
<1>4. ASSUME NEW c \in Calls, Transmits(c) PROVE UNCHANGED Promise!vars
  BY <1>1, <1>4 DEF Transmits, journalVars, Promise!vars
<1>6. ASSUME NEW c \in Calls, NEW response \in Responses, Responds(c, response)
      PROVE  (\E o \in Ops : Promise!TakeEffect(o)) \/ UNCHANGED Promise!vars
  <2>1. CASE response # "ok"
    BY <1>1, <1>6, <2>1 DEF Responds, journalVars, Promise!vars
  <2>2. CASE response = "ok" /\ op[c] \in forgotten
    BY <1>1, <1>6, <2>2 DEF Responds, journalVars, Promise!vars
  <2>3. CASE response = "ok" /\ op[c] \notin forgotten
    <3> PICK o \in Ops : o = op[c]
      BY <1>1, <1>6 DEF Responds, Started
    <3>1. applied[o] = 0 /\ rows[o].status \in {"pending", "unknown"}
      BY <1>1, <1>6, <2>3
      DEF Responds, Core, RowFirst, WireTells, TruthfulRecord, NoPartialRow, Involved, Row, Statuses
    <3>2. /\ rows' = rows /\ forgotten' = forgotten /\ applied'[o] = 1
          /\ \A q \in Ops \ {o} : applied'[q] = applied[q]
      BY <1>1, <1>6, <2>3, <3>1 DEF Responds, journalVars
    <3>3. Promise!TakeEffect(o)
      BY <2>3, <3>1, <3>2 DEF Promise!TakeEffect
    <3> QED BY <3>3
  <2> QED BY <2>1, <2>2, <2>3
<1>5. ASSUME NEW c \in Calls, NEW verdict \in Verdicts, Closes(c, verdict)
      PROVE  Promise!Next \/ UNCHANGED Promise!vars
  <2>a. Touches(c, verdict) /\ Deserved(c, verdict)
    BY <1>1, <1>5, CloseEffect
  <2> PICK o \in Ops : o = op[c]
    BY <2>a DEF Touches
  <2>1. /\ forgotten' = forgotten
        /\ \A q \in Ops \ {o} : rows'[q] = rows[q] /\ applied'[q] = applied[q]
    BY <2>a DEF Touches
  <2>2. CASE o \in forgotten
    BY <2>1, <2>2 DEF Promise!vars
  <2>3. CASE o \notin forgotten /\ rows'[o] = rows[o]
    <3>1. applied'[o] = applied[o] \/ (applied[o] = 0 /\ applied'[o] = 1 /\ rows[o].status = "pending")
      BY <2>a, <2>1, <2>3 DEF Touches, Deserved
    <3>2. CASE applied'[o] = applied[o]
      BY <2>1, <2>3, <3>2 DEF Promise!vars
    <3>3. CASE applied[o] = 0 /\ applied'[o] = 1 /\ rows[o].status = "pending"
      <4>1. Promise!TakeEffect(o)
        BY <1>1, <2>1, <2>3, <3>3 DEF Promise!TakeEffect
      <4> QED BY <2>1, <4>1 DEF Promise!Next
    <3> QED BY <3>1, <3>2, <3>3
  <2>4. CASE o \notin forgotten /\ rows'[o].status = verdict
    <3>1. rows[o].status = "pending" /\ rows'[o].status # "absent" /\ applied[o] \in {0, 1}
      BY <2>a, <2>1, <2>4 DEF Verdicts, Touches, Deserved
    <3>2. CASE verdict = "unknown"
      <4>1. applied'[o] = applied[o]
        BY <2>a, <2>1, <2>4, <3>2 DEF Touches, Deserved
      <4>2. Promise!LoseTrack({o})
        BY <2>1, <2>4, <3>1, <3>2, <4>1 DEF Promise!LoseTrack
      <4> QED BY <2>1, <4>2 DEF Promise!Next
    <3>3. CASE verdict = "failed"
      <4>1. applied'[o] = 0 /\ applied[o] = 0
        BY <2>a, <2>1, <2>4, <3>3 DEF Touches, Deserved
      <4>2. Promise!Fail(o)
        BY <2>1, <2>4, <3>1, <3>3, <4>1 DEF Promise!Fail, Promise!Move
      <4> QED BY <2>1, <4>2 DEF Promise!Next
    <3>4. CASE verdict = "succeeded"
      <4>1. applied'[o] = 1
        BY <2>a, <2>1, <2>4, <3>4 DEF Touches, Deserved
      <4>2. Promise!Succeed(o) \/ Promise!FindDone(o)
        BY <2>1, <2>4, <3>1, <3>4, <4>1 DEF Promise!Succeed, Promise!FindDone, Promise!Move
      <4> QED BY <2>1, <4>2 DEF Promise!Next
    <3> QED BY <3>2, <3>3, <3>4 DEF Verdicts
  <2> QED BY <2>a, <2>1, <2>2, <2>3, <2>4 DEF Touches, Deserved
<1>7. ASSUME NEW p \in Procs, NEW a \in Accounts, Recovers(p, a)
      PROVE  \E S \in SUBSET Ops : Promise!LoseTrack(S)
  <2> PICK S \in SUBSET Ops :
           S = {o \in Remembered : rows[o].account = a /\ rows[o].status = "pending"}
    OBVIOUS
  <2>1. Promise!LoseTrack(S)
    BY <1>1, <1>7 DEF Recovers, RecoverAccount, mailVars, Promise!LoseTrack
  <2> QED BY <2>1
<1> QED BY <1>1, <1>2, <1>3, <1>4, <1>5, <1>6, <1>7 DEF Shape, Promise!Next

\* MailWrites implements IdempotentWrites: at most one effect, and verdicts
\* that the mailbox bears out, for as long as the journal remembers the UUID.
THEOREM PromiseKept == Spec => KeepsPromise
<1>1. Init => Promise!Init
  BY InitPromise
<1>2. IInv /\ [Next]_vars => [Promise!Next]_(Promise!vars)
  BY StepPromise
<1> QED BY <1>1, <1>2, Invariance, PTL DEF Spec, KeepsPromise, Promise!Spec
====
