---- MODULE CalendarWritesProofs ----
(***************************************************************************)
(* Theorems about CalendarWrites for any sets of processes, calls,         *)
(* operations, accounts, payloads and steps, and any plans.                *)
(*                                                                         *)
(* As for single requests, the inductive invariant says who owns an        *)
(* operation: of the calls that ever began it at most one, which holds the *)
(* account's lock and an open row while it runs.  What is new is how far   *)
(* the operation has come.  Where the owner stands in its plan (at) and    *)
(* what its wire shows determine which steps took place: exactly the first *)
(* at[c], and the next one too once it was acknowledged.                   *)
(*                                                                         *)
(* The first part is about WriteRuntime alone: whatever phases a component *)
(* gives its calls, the runtime's own steps keep types and locks, and all  *)
(* they do to the journal is to insert a pending row, to recover an        *)
(* account under its lock, or to delete rows.                              *)
(***************************************************************************)
EXTENDS CalendarWrites, TLAPS

----
(* The journal *)

\* The journal operators keep their types.
LEMMA JournalTypes ==
    ASSUME JournalTypeOK
    PROVE  /\ \A S \in SUBSET Ops : Delete(S) => JournalTypeOK'
           /\ \A a \in Accounts : RecoverAccount(a) => JournalTypeOK'
           /\ \A o \in Ops, a \in Accounts, f \in Payloads : Insert(o, a, f) => JournalTypeOK'
           /\ \A o \in Ops, st \in Statuses, done \in SUBSET Steps :
                 Conclude(o, st, done) => JournalTypeOK'
           /\ \A o \in Ops, done \in SUBSET Steps : Checkpoint(o, done) => JournalTypeOK'
<1>1. ASSUME NEW S \in SUBSET Ops, Delete(S) PROVE JournalTypeOK'
  BY <1>1 DEF JournalTypeOK, Delete, Row, NoRow, Statuses
<1>2. ASSUME NEW a \in Accounts, RecoverAccount(a) PROVE JournalTypeOK'
  <2>1. \A o \in Ops : rows[o] \in Row
    BY DEF JournalTypeOK
  <2>2. \A o \in Ops : [rows[o] EXCEPT !.status = "unknown"] \in Row
    BY <2>1 DEF Row, Statuses
  <2> QED BY <1>2, <2>1, <2>2 DEF JournalTypeOK, RecoverAccount
<1>3. ASSUME NEW o \in Ops, NEW a \in Accounts, NEW f \in Payloads, Insert(o, a, f)
      PROVE  JournalTypeOK'
  BY <1>3 DEF JournalTypeOK, Insert, Row, Statuses
<1>4. ASSUME NEW o \in Ops, NEW st \in Statuses, NEW done \in SUBSET Steps,
             Conclude(o, st, done)
      PROVE  JournalTypeOK'
  <2>1. rows[o] \in Row
    BY DEF JournalTypeOK
  <2>2. [rows[o] EXCEPT !.status = st, !.steps = done] \in Row
    BY <2>1 DEF Row, Statuses
  <2> QED BY <1>4, <2>2 DEF JournalTypeOK, Conclude
<1>5. ASSUME NEW o \in Ops, NEW done \in SUBSET Steps, Checkpoint(o, done) PROVE JournalTypeOK'
  <2>1. rows[o] \in Row
    BY DEF JournalTypeOK
  <2>2. [rows[o] EXCEPT !.steps = done] \in Row
    BY <2>1 DEF Row, Statuses
  <2> QED BY <1>5, <2>2 DEF JournalTypeOK, Checkpoint
<1> QED BY <1>1, <1>2, <1>3, <1>4, <1>5

\* A step that leaves the journal alone deletes nothing.
LEMMA DeleteNone == JournalTypeOK /\ UNCHANGED journalVars => Delete({})
BY DEF JournalTypeOK, journalVars, Delete

\* A wipe deletes some rows, or none when the journal cannot be written.
LEMMA WipeDeletes ==
    ASSUME JournalTypeOK, NEW p, NEW a, Wipe(p, a)
    PROVE  \E S \in SUBSET Ops : Delete(S) /\ \A o \in S : Present(o)
<1>1. CASE PurgeAccount(a)
  BY <1>1 DEF PurgeAccount, RowsOf
<1>2. CASE UNCHANGED journalVars
  BY <1>2, DeleteNone
<1> QED BY <1>1, <1>2 DEF Wipe

----
(* Types, started calls and locks *)

\* A call that has been issued has a process, a UUID and a payload; a call
\* that got the lock keeps it to its end.
StartedCalls ==
    \A c \in Calls :
        /\ pc[c] = "new" => answer[c] = "none"
        /\ pc[c] # "new" => host[c] \in Procs /\ op[c] \in Ops /\ input[c] \in Payloads

HeldLocks == \A c \in Calls : InFlight(c) /\ pc[c] # "queued" => lock[Account(c)] = c

RuntimeFrame ==
    /\ RuntimeTypeOK
    /\ pc = [c \in Calls |-> pc[c]]
    /\ StartedCalls
    /\ HeldLocks

\* Releasing locks touches no other holder's lock.
LEMMA ReleaseFrees ==
    ASSUME NEW H, Release(H), lock \in [Accounts -> Procs \cup Calls \cup {None}]
    PROVE  /\ lock' \in [Accounts -> Procs \cup Calls \cup {None}]
           /\ \A a \in Accounts : lock[a] \notin H => lock'[a] = lock[a]
BY DEF Release

\* A replay tells the caller one of the known answers.
LEMMA ReplayAnswers == ASSUME NEW o, NEW f PROVE ReplayAnswer(o, f) \in Answers
BY PartialIsToldApart DEF ReplayAnswer, ExistingAnswer, Answers

\* Nobody has called.
LEMMA RuntimeInitFrame == RuntimeInit => RuntimeFrame
BY DEF RuntimeInit, RuntimeFrame, RuntimeTypeOK, JournalInit, JournalTypeOK, NoRow, Row, Answers,
       StartedCalls, HeldLocks, InFlight

----
(* What a runtime step does to the journal and to calls *)

\* Rows S are deleted (none by most steps); no call enters a component's phase.
Calm(S) ==
    /\ \A o \in S : Present(o)
    /\ Delete(S)
    /\ \A c \in Calls :
          /\ pc'[c] = pc[c] \/ pc'[c] \in Ended \/ (pc[c] \in Early /\ pc'[c] \in Early)
          /\ pc[c] = "new" \/ (op'[c] = op[c] /\ input'[c] = input[c])
          /\ answer'[c] \in {"succeeded", "failed", "partial"} =>
                answer'[c] = answer[c] \/ answer'[c] = ExistingAnswer(rows[op'[c]].status)

Inserts(c) ==
    /\ pc[c] = "preparing"
    /\ pc' = [pc EXCEPT ![c] = "begun"]
    /\ Insert(op[c], Account(c), input[c])
    /\ UNCHANGED <<callVars, answer>>

Recovers(p, a) ==
    /\ lock[a] = p
    /\ RecoverAccount(a)
    /\ UNCHANGED <<pc, callVars, answer>>

RuntimeShape ==
    \/ \E S \in SUBSET Ops : Calm(S)
    \/ \E c \in Calls : Inserts(c)
    \/ \E p \in Procs, a \in Accounts : Recovers(p, a)

\* Each runtime step has a shape and keeps the frame: one named step per action.
LEMMA RuntimeStepShape ==
    RuntimeFrame /\ (RuntimeStep \/ UNCHANGED <<journalVars, runtimeVars>>) => RuntimeFrame' /\ RuntimeShape
<1> SUFFICES ASSUME RuntimeFrame, RuntimeStep \/ UNCHANGED <<journalVars, runtimeVars>>
             PROVE  RuntimeFrame' /\ RuntimeShape
  OBVIOUS
<1> DEFINE FramedCalm(S) == RuntimeFrame' /\ Calm(S)
<1>a. JournalTypeOK
  BY DEF RuntimeFrame, RuntimeTypeOK
<1>b. UNCHANGED journalVars => JournalTypeOK' /\ Delete({})
  BY <1>a, DeleteNone, JournalTypes
<1>c. \A S \in SUBSET Ops : Delete(S) => JournalTypeOK'
  BY <1>a, JournalTypes
<1> USE <1>b, ReleaseFrees, WipeableAccounts, AccountOfPayload, Holders
    DEF procVars, callVars, RuntimeFrame, RuntimeTypeOK, StartedCalls, HeldLocks, InFlight,
        Early, Ended, Account, Answers, End
<1>1. ASSUME NEW p \in Procs, Open(p) PROVE \E S \in SUBSET Ops : FramedCalm(S)
  <2>1. PICK S \in SUBSET Expirable : Delete(S)
    BY <1>1 DEF Open, Prune
  <2>2. S \in SUBSET Ops /\ \A o \in S : Present(o)
    BY <2>1 DEF Expirable, Present
  <2>3. JournalTypeOK'
    BY <1>c, <2>1, <2>2
  <2>4. RuntimeFrame'
    BY <1>1, <2>3 DEF Open
  <2>5. Calm(S)
    BY <1>1, <2>1, <2>2 DEF Open, Calm
  <2> QED BY <2>2, <2>4, <2>5
<1>2. ASSUME NEW p \in Procs, ListPending(p) PROVE FramedCalm({})
  BY <1>2 DEF ListPending, PendingAccounts, Calm
<1>3. ASSUME NEW p \in Procs, Serve(p) PROVE FramedCalm({})
  BY <1>3 DEF Serve, Calm
<1>4. ASSUME NEW p \in Procs, Crash(p) PROVE FramedCalm({})
  <2> PICK dead \in SUBSET Calls :
           /\ dead = {c \in Calls : InFlight(c) /\ host[c] = p}
           /\ pc' = [c \in Calls |-> IF c \in dead THEN "gone" ELSE pc[c]]
           /\ Release({p} \cup dead)
    BY <1>4 DEF Crash
  <2>1. \A c \in Calls : pc'[c] = pc[c] \/ (pc'[c] = "gone" /\ pc[c] # "new")
    OBVIOUS
  <2>2. pc' = [c \in Calls |-> pc'[c]]
    OBVIOUS
  <2>3. HeldLocks'
    <3> SUFFICES ASSUME NEW c \in Calls, pc'[c] \notin Ended \cup {"new", "queued"}
                 PROVE  lock'[AccountOf[input[c]]] = c
      BY <1>4 DEF Crash
    <3>1. c \notin dead /\ pc'[c] = pc[c] /\ c # p
      OBVIOUS
    <3>2. lock[AccountOf[input[c]]] = c /\ AccountOf[input[c]] \in Accounts
      BY <3>1
    <3>3. lock[AccountOf[input[c]]] \notin {p} \cup dead
      BY <3>1, <3>2
    <3> QED BY <3>2, <3>3, ReleaseFrees
  <2>4. RuntimeFrame'
    BY <1>4, <2>1, <2>2, <2>3 DEF Crash
  <2>5. Calm({})
    BY <1>4, <2>1 DEF Crash, Calm
  <2> QED BY <2>4, <2>5
<1>5. ASSUME NEW p \in Procs, NEW a \in Accounts, RecoverLock(p, a) PROVE FramedCalm({})
  BY <1>5 DEF RecoverLock, Calm
<1>6. ASSUME NEW p \in Procs, NEW a \in Accounts, RecoverRows(p, a)
      PROVE  RuntimeFrame' /\ Recovers(p, a)
  <2>1. JournalTypeOK'
    BY <1>a, <1>6, JournalTypes DEF RecoverRows
  <2> QED BY <1>6, <2>1 DEF RecoverRows, Recovers
<1>7. ASSUME NEW p \in Procs, NEW a \in Accounts, RecoverSkip(p, a) PROVE FramedCalm({})
  BY <1>7 DEF RecoverSkip, Calm
<1>8. ASSUME NEW p \in Procs, NEW a \in Accounts, ReaderWipe(p, a)
      PROVE  \E S \in SUBSET Ops : FramedCalm(S)
  <2>1. PICK S \in SUBSET Ops : Delete(S) /\ \A o \in S : Present(o)
    BY <1>a, <1>8, WipeDeletes DEF ReaderWipe
  <2>2. JournalTypeOK'
    BY <1>c, <2>1
  <2>3. RuntimeFrame'
    BY <1>8, <2>2 DEF ReaderWipe, Wipe
  <2>4. Calm(S)
    BY <1>8, <2>1 DEF ReaderWipe, Calm
  <2> QED BY <2>3, <2>4
<1>9. ASSUME NEW c \in Calls, NEW p \in Procs, NEW o \in Ops, NEW f \in Payloads, Issue(c, p, o, f)
      PROVE  FramedCalm({})
  <2>1. Delete({}) /\ op'[c] = o /\ pc[c] = "new"
    BY <1>9 DEF Issue
  <2>2. \A d \in Calls \ {c} :
           pc'[d] = pc[d] /\ op'[d] = op[d] /\ input'[d] = input[d] /\ answer'[d] = answer[d]
    BY <1>9 DEF Issue
  <2>3. pc'[c] \in {"queued", "finished"}
    BY <1>9 DEF Issue
  <2>4. answer'[c] \in {answer[c], ExistingAnswer(rows[o].status), "conflict", "error"}
    BY <1>9 DEF Issue, ReplayAnswer
  <2>5. answer'[c] \in {"succeeded", "failed", "partial"} =>
           answer'[c] = answer[c] \/ answer'[c] = ExistingAnswer(rows[op'[c]].status)
    BY <2>1, <2>4
  <2>6. Calm({})
    BY <2>1, <2>2, <2>3, <2>5 DEF Calm
  <2>7. RuntimeFrame'
    BY <1>9, ReplayAnswers DEF Issue
  <2> QED BY <2>6, <2>7
<1>10. ASSUME NEW c \in Calls, Acquire(c) PROVE FramedCalm({})
  BY <1>10 DEF Acquire, Calm
<1>11. ASSUME NEW c \in Calls, GiveUp(c) PROVE FramedCalm({})
  BY <1>11 DEF GiveUp, Calm
<1>12. ASSUME NEW c \in Calls, Recheck(c) PROVE FramedCalm({})
  BY <1>12 DEF Recheck, Calm
<1>13. ASSUME NEW c \in Calls, PrepareFails(c) PROVE FramedCalm({})
  BY <1>13 DEF PrepareFails, Calm
<1>14. ASSUME NEW c \in Calls, Begin(c) PROVE RuntimeFrame' /\ (Inserts(c) \/ Calm({}))
  <2>1. CASE Insert(op[c], Account(c), input[c]) /\ pc' = [pc EXCEPT ![c] = "begun"]
    <3>1. JournalTypeOK'
      BY <1>a, <1>14, <2>1, JournalTypes DEF Begin
    <3> QED BY <1>14, <2>1, <3>1 DEF Begin, Inserts, Insert
  <2>2. CASE Present(op[c]) /\ UNCHANGED journalVars
    <3>1. /\ \E told \in {ReplayAnswer(op[c], input[c]), "conflict"} : End(c, told)
          /\ UNCHANGED <<procVars, callVars>>
      BY <1>14, <2>2 DEF Begin, Insert
    <3>2. RuntimeFrame'
      <4>1. PICK told \in {ReplayAnswer(op[c], input[c]), "conflict"} : End(c, told)
        BY <3>1
      <4>2. told \in Answers /\ pc[c] = "preparing"
        BY <1>14, <4>1, ReplayAnswers DEF Begin
      <4> QED BY <2>2, <3>1, <4>1, <4>2
    <3>3. Calm({})
      BY <1>14, <2>2, <3>1 DEF Begin, ReplayAnswer, Calm
    <3> QED BY <3>2, <3>3
  <2> QED BY <1>14, <2>1, <2>2 DEF Begin, Insert
<1>15. ASSUME NEW c \in Calls, PrepareWiped(c) PROVE \E S \in SUBSET Ops : FramedCalm(S)
  <2>1. PICK S \in SUBSET Ops : Delete(S) /\ \A o \in S : Present(o)
    BY <1>a, <1>15, WipeDeletes DEF PrepareWiped
  <2>2. JournalTypeOK'
    BY <1>c, <2>1
  <2>3. RuntimeFrame'
    BY <1>15, <2>2 DEF PrepareWiped, Wipe
  <2>4. Calm(S)
    BY <1>15, <2>1 DEF PrepareWiped, Calm
  <2> QED BY <2>3, <2>4
<1>16. ASSUME NEW c \in Calls, Cancel(c, {"queued", "preparing"}) PROVE FramedCalm({})
  BY <1>16 DEF Cancel, Calm
<1>17. ASSUME UNCHANGED <<journalVars, runtimeVars>> PROVE FramedCalm({})
  BY <1>17 DEF runtimeVars, Calm
<1> QED BY <1>1, <1>2, <1>3, <1>4, <1>5, <1>6, <1>7, <1>8, <1>9, <1>10, <1>11, <1>12, <1>13, <1>14,
           <1>15, <1>16, <1>17
    DEF RuntimeStep, RuntimeShape

----
(* Calendar writes *)

Refusals    == {"rejected", "stale", "badkey", "wiped"}
Involved(c) == pc[c] \in Writing \/ wire[c] # "none"

\* The steps of the operation of c that took place are the first n of the plan.
Took(c, n) ==
    \A s \in Steps : happened[op[c]][s] = IF s \in Completed(c, n) THEN 1 ELSE 0

----
(* The inductive invariant *)

\* Where a call may stand in its plan.
Positions ==
    \A c \in Calls :
        /\ pc[c] \in Early => wire[c] = "none"
        /\ wire[c] = "none" => at[c] = 0
        /\ pc[c] # "new" => at[c] <= Len(Plan(c))
        /\ pc[c] \in Sending \/ wire[c] \in {"request"} \cup Refusals => at[c] < Len(Plan(c))
        /\ pc[c] = "begun" => wire[c] \in {"none", "ok"}
        /\ pc[c] \in Sending \cup {"verifying"} => wire[c] # "none"
        /\ pc[c] = "verifying" => wire[c] = "ok" /\ at[c] = Len(Plan(c))

Shell == RuntimeFrame /\ TypeOK /\ Positions

OneOwner ==
    \A c, d \in Calls :
        Involved(c) /\ Involved(d) /\ op[c] = op[d] /\ op[c] \in Remembered => c = d

RowFirst ==
    /\ \A c \in Calls : Involved(c) /\ op[c] \in Remembered =>
          Present(op[c]) /\ rows[op[c]].account = Account(c) /\ rows[op[c]].payload = input[c]
    /\ \A o \in Remembered : Present(o) => rows[o].payload \in Payloads
    /\ \A o \in Remembered : ~Present(o) => \A s \in Steps : happened[o][s] = 0

\* Between its requests a call owns its row.
OwnsRow ==
    \A c \in Calls : pc[c] \in Writing /\ op[c] \in Remembered =>
        /\ rows[op[c]].status = (IF pc[c] = "verifying" THEN "partial" ELSE "pending")
        /\ rows[op[c]].steps = Completed(c, at[c])

Progressed ==
    \A c \in Calls : Involved(c) /\ op[c] \in Remembered =>
        /\ pc[c] \in Sending /\ wire[c] = "ok" => Took(c, at[c] + 1)
        /\ pc[c] \in {"begun", "verifying"} \/ wire[c] \in {"request"} \cup Refusals => Took(c, at[c])

\* Once a row is closed with a verdict nothing of its operation is under way.
ClosedIsStill ==
    \A c \in Calls : op[c] \in Remembered /\ rows[op[c]].status \in {"succeeded", "failed", "partial"} =>
        wire[c] # "request"

\* What a failed or partial row leaves out did not happen, save a created item.
LeftOutAreUndone(f, done, h) ==
    \A s \in Steps \ done :
        h[s] = 0 \/ /\ s \in CreateSteps
                    /\ \E i \in DOMAIN PlanOf[f] :
                          PlanOf[f][i] = s /\ \A j \in 1..(i - 1) : PlanOf[f][j] \in done

NothingElse ==
    \A o \in Remembered : rows[o].status \in {"failed", "partial"} =>
        LeftOutAreUndone(rows[o].payload, rows[o].steps, happened[o])

\* The steps that took place are a prefix of the plan.
Ordered(f, h) ==
    \A i \in 1..(Len(PlanOf[f]) - 1) : h[PlanOf[f][i + 1]] > 0 => h[PlanOf[f][i]] = 1

InOrder == \A o \in Remembered : Present(o) => Ordered(rows[o].payload, happened[o])

SuccessIsWhole ==
    \A o \in Remembered : rows[o].status = "succeeded" =>
        rows[o].steps = FirstSteps(rows[o].payload, Len(PlanOf[rows[o].payload]))
PartialIsSome  == \A o \in Remembered : rows[o].status = "partial" => rows[o].steps # {}

AnswersFromRows ==
    \A c \in Calls : op[c] \in Remembered =>
        /\ answer[c] = "succeeded" => rows[op[c]].status = "succeeded"
        /\ answer[c] = "partial" => rows[op[c]].status \in {"partial", "succeeded"}

Once == \A o \in Remembered, s \in Steps : happened[o][s] <= 1

Core ==
    /\ OneOwner /\ RowFirst /\ OwnsRow /\ Progressed
    /\ Once /\ InOrder /\ RecordedStepsHappened
    /\ ClosedIsStill /\ NothingElse /\ SuccessIsWhole /\ PartialIsSome /\ AnswersFromRows

IInv == Shell /\ Core

----
(* Plans *)

\* The steps of a plan are distinct, so a prefix of it determines its length.
LEMMA PlanFacts ==
    ASSUME NEW f \in Payloads
    PROVE  /\ Len(PlanOf[f]) \in Nat \ {0}
           /\ FirstSteps(f, 0) = {}
           /\ \A i \in 1..Len(PlanOf[f]) : PlanOf[f][i] \in Steps
           /\ \A n \in 0..Len(PlanOf[f]) : FirstSteps(f, n) \subseteq Steps
           /\ \A n \in 1..Len(PlanOf[f]) : FirstSteps(f, n) # {}
           /\ \A n \in 0..Len(PlanOf[f]), i \in 1..Len(PlanOf[f]) :
                 PlanOf[f][i] \in FirstSteps(f, n) <=> i <= n
           /\ \A n \in 0..(Len(PlanOf[f]) - 1) :
                 FirstSteps(f, n + 1) = FirstSteps(f, n) \cup {PlanOf[f][n + 1]}
<1> DEFINE plan == PlanOf[f]
<1>1. /\ plan \in Seq(Steps) /\ Len(plan) \in Nat \ {0}
      /\ \A i, j \in 1..Len(plan) : plan[i] = plan[j] => i = j
      /\ \A i \in 1..Len(plan) : plan[i] \in Steps
  BY PlansAreStepLists
<1> QED BY <1>1 DEF FirstSteps

\* A verified step is all there is of its plan.
LEMMA VerifiedAlone ==
    ASSUME NEW f \in Payloads, NEW i \in 1..Len(PlanOf[f]), PlanOf[f][i] \in VerifiedSteps
    PROVE  Len(PlanOf[f]) = 1
BY PlansAreStepLists, VerifiedStepsStandAlone

----
(* What the steps of CalendarWrites do *)

\* Calls that end without a record, and the runtime's own steps.
Quiet(S) == Calm(S) /\ UNCHANGED calendarVars

Opens(c) == Inserts(c) /\ UNCHANGED calendarVars

Transmits(c) ==
    /\ \/ pc[c] = "begun" /\ MoreSteps(c)
       \/ pc[c] \in Sending /\ wire[c] \in {"stale", "badkey"}
    /\ \E stage \in Sending : pc' = [pc EXCEPT ![c] = stage]
    /\ wire' = [wire EXCEPT ![c] = "request"]
    /\ UNCHANGED <<at, happened, journalVars, callVars, answer>>

Finishes(c, told) ==
    /\ pc' = [pc EXCEPT ![c] = "finished"]
    /\ answer' = [answer EXCEPT ![c] = told]

Advances(c) ==
    /\ pc[c] \in Sending /\ wire[c] = "ok"
    /\ at' = [at EXCEPT ![c] = @ + 1]
    /\ \/ Checkpoint(op[c], Completed(c, at[c] + 1)) /\ pc' = [pc EXCEPT ![c] = "begun"] /\ UNCHANGED answer
       \/ Checkpoint(op[c], Completed(c, at[c] + 1)) /\ Finishes(c, "unknown")
       \/ UNCHANGED journalVars /\ Finishes(c, "unknown")
       \/ /\ Current(c) \in VerifiedSteps
          /\ Conclude(op[c], "partial", Completed(c, at[c] + 1))
          /\ pc' = [pc EXCEPT ![c] = "verifying"] /\ UNCHANGED answer
    /\ UNCHANGED <<wire, happened, callVars>>

\* What entitles a call to close its row with a verdict.
Entitled(c, verdict) ==
    \/ verdict = "succeeded" /\ pc[c] \in {"begun", "verifying"} /\ ~MoreSteps(c)
    \/ verdict = SafeFailure(c) /\ pc[c] = "begun" /\ MoreSteps(c)
    \/ verdict = SafeFailure(c) /\ pc[c] \in Sending /\ wire[c] \in Refusals
    \/ verdict = SafeFailure(c) /\ pc[c] \in Sending /\ wire[c] = "ok" /\ Current(c) \in CreateSteps
    \/ verdict = "unknown" /\ pc[c] \in Sending

Verdicts == {"succeeded", "failed", "partial", "unknown"}

Closes(c, verdict) ==
    /\ Entitled(c, verdict)
    /\ \/ Conclude(op[c], verdict, Completed(c, at[c])) /\ Finishes(c, verdict)
       \/ UNCHANGED journalVars /\ Finishes(c, "unknown")
    /\ UNCHANGED <<calendarVars, callVars>>

\* Replies could not be read back: the row stays partial.
Doubts(c) ==
    /\ pc[c] = "verifying"
    /\ Finishes(c, "partial")
    /\ UNCHANGED <<journalVars, calendarVars, callVars>>

Applies(c) ==
    /\ wire[c] = "request"
    /\ wire' = [wire EXCEPT ![c] = "ok"]
    /\ happened' = [happened EXCEPT ![op[c]][Current(c)] = @ + 1]
    /\ UNCHANGED <<at, journalVars, pc, callVars, answer>>

Refuses(c) ==
    /\ wire[c] = "request"
    /\ \E response \in Refusals : wire' = [wire EXCEPT ![c] = response]
    /\ UNCHANGED <<at, happened, journalVars, pc, callVars, answer>>

Orphans(p, a) == Recovers(p, a) /\ UNCHANGED calendarVars

Shape ==
    \/ \E S \in SUBSET Ops : Quiet(S)
    \/ \E c \in Calls : Opens(c) \/ Transmits(c) \/ Advances(c) \/ Doubts(c) \/ Applies(c) \/ Refuses(c)
    \/ \E c \in Calls, verdict \in Verdicts : Closes(c, verdict)
    \/ \E p \in Procs, a \in Accounts : Orphans(p, a)

----
(* Types, started calls and locks *)

\* The runtime's part of the state, without the journal.
CallFrame ==
    /\ phase \in [Procs -> {"down", "opened", "recovering", "up"}]
    /\ unrecovered \in [Procs -> SUBSET Accounts]
    /\ disabled \in [Procs -> SUBSET Accounts]
    /\ lock \in [Accounts -> Procs \cup Calls \cup {None}]
    /\ host \in [Calls -> Procs \cup {None}]
    /\ op \in [Calls -> Ops \cup {None}]
    /\ input \in [Calls -> Payloads \cup {None}]
    /\ answer \in [Calls -> Answers]
    /\ pc = [c \in Calls |-> pc[c]]
    /\ StartedCalls /\ HeldLocks

LEMMA FrameParts == RuntimeFrame <=> CallFrame /\ JournalTypeOK
BY DEF RuntimeFrame, RuntimeTypeOK, CallFrame

\* A step of a writing call keeps the frame, whether the call goes on or ends.
LEMMA CallStepFrame ==
    ASSUME CallFrame, JournalTypeOK, NEW c \in Calls, CallStep(c) \/ CancelRequest(c)
    PROVE  CallFrame'
<1> USE ReleaseFrees, WipeableAccounts, AccountOfPayload, Holders
    DEF procVars, callVars, CallFrame, StartedCalls, HeldLocks, InFlight,
        Writing, Begun, Sending, Early, Ended, Account, Answers, End
<1>1. CASE Send(c)
  BY <1>1 DEF Send, Transmit
<1>2. CASE Resend(c)
  BY <1>2 DEF Resend, Transmit
<1>3. CASE Resync(c)
  BY <1>3 DEF Resync, Transmit
<1>4. CASE StepDone(c)
  BY <1>4 DEF StepDone
<1>5. CASE Acknowledge(c)
  BY <1>5 DEF Acknowledge
<1>6. ASSUME NEW status \in {"succeeded", "failed", "partial", "unknown"}, Settle(c, status),
             pc[c] \in Writing
      PROVE  CallFrame'
  BY <1>6 DEF Settle
<1>7. CASE Succeed(c) \/ Verified(c) \/ FailStep(c) \/ LoseNewItem(c) \/ LoseContact(c)
  BY <1>6, <1>7 DEF Succeed, Verified, FailStep, LoseNewItem, LoseContact, SafeFailure
<1>8. CASE Unverified(c)
  BY <1>8 DEF Unverified
<1>9. CASE ObeyWipe(c)
  BY <1>9 DEF ObeyWipe, Wipe
<1>10. CASE CancelRequest(c)
  BY <1>10 DEF CancelRequest, Cancel
<1> QED BY <1>1, <1>2, <1>3, <1>4, <1>5, <1>7, <1>8, <1>9, <1>10 DEF CallStep

\* Every step keeps the frame's part outside the journal and has a shape.
LEMMA StepShape ==
    ASSUME RuntimeFrame, Positions, [Next]_vars
    PROVE  CallFrame' /\ Shape
<1>a. CallFrame /\ JournalTypeOK
  BY FrameParts
<1>1. CASE RuntimeOnly \/ UNCHANGED vars
  <2>1. RuntimeFrame' /\ RuntimeShape /\ UNCHANGED calendarVars
    BY <1>1, RuntimeStepShape DEF RuntimeOnly, vars
  <2>2. CallFrame'
    BY <2>1 DEF RuntimeFrame, RuntimeTypeOK, CallFrame
  <2> QED BY <2>1, <2>2 DEF RuntimeShape, Shape, Quiet, Opens, Orphans
<1>2. ASSUME NEW c \in Calls, CallStep(c) \/ CancelRequest(c) PROVE CallFrame'
  BY <1>a, <1>2, CallStepFrame
<1>3. ASSUME NEW c \in Calls, ServerApply(c) \/ ServerRefuse(c) PROVE CallFrame'
  BY <1>a, <1>3 DEF ServerApply, ServerRefuse, CallFrame, StartedCalls, HeldLocks, InFlight, Account, runtimeVars
<1>4. ASSUME NEW c \in Calls, CallStep(c) \/ CancelRequest(c) \/ ServerApply(c) \/ ServerRefuse(c) PROVE Shape
  <2> USE <1>a DEF callVars, Writing, Begun, Sending
  <2>1. CASE Send(c)
    BY <2>1 DEF Send, Transmit, Transmits, Shape
  <2>2. CASE Resend(c)
    BY <2>2 DEF Resend, Transmit, Transmits, Shape
  <2>3. CASE Resync(c)
    BY <2>3 DEF Resync, Transmit, Transmits, Shape
  <2>4. CASE StepDone(c)
    BY <2>4 DEF StepDone, Advances, Finishes, End, Shape
  <2>5. CASE Acknowledge(c)
    BY <2>5 DEF Acknowledge, Advances, Finishes, End, Shape
  <2>6. ASSUME NEW status, Settle(c, status), Entitled(c, status) PROVE Closes(c, status)
    BY <2>6 DEF Settle, Closes, Finishes, End
  <2>7. CASE Succeed(c)
    <3>1. Entitled(c, "succeeded") /\ Settle(c, "succeeded")
      BY <2>7 DEF Succeed, Entitled
    <3> QED BY <2>6, <3>1 DEF Shape, Verdicts
  <2>8. CASE Verified(c)
    <3>1. ~MoreSteps(c)
      BY <2>8 DEF Verified, Positions, MoreSteps
    <3>2. Entitled(c, "succeeded") /\ Settle(c, "succeeded")
      BY <2>8, <3>1 DEF Verified, Entitled
    <3> QED BY <2>6, <3>2 DEF Shape, Verdicts
  <2>9. CASE FailStep(c)
    BY <2>6, <2>9 DEF FailStep, Entitled, SafeFailure, Refusals, Shape, Verdicts
  <2>10. CASE LoseNewItem(c)
    BY <2>6, <2>10 DEF LoseNewItem, Entitled, SafeFailure, Shape, Verdicts
  <2>11. CASE LoseContact(c)
    BY <2>6, <2>11 DEF LoseContact, Entitled, Shape, Verdicts
  <2>12. CASE Unverified(c)
    BY <2>12 DEF Unverified, Doubts, Finishes, End, Shape
  <2>13. CASE ObeyWipe(c)
    <3>1. PICK S \in SUBSET Ops : Delete(S) /\ \A o \in S : Present(o)
      BY <2>13, WipeDeletes DEF ObeyWipe
    <3>2. \E told \in {"error", "unknown"} : End(c, told)
      BY <2>13 DEF ObeyWipe
    <3>3. Quiet(S)
      BY <2>13, <3>1, <3>2 DEF ObeyWipe, Quiet, Calm, End, CallFrame, Early, Ended
    <3> QED BY <3>3 DEF Shape
  <2>14. CASE CancelRequest(c)
    <3>1. Quiet({})
      BY <2>14, DeleteNone DEF CancelRequest, Cancel, Quiet, Calm, CallFrame, Early, Ended
    <3> QED BY <3>1 DEF Shape
  <2>15. CASE ServerApply(c)
    BY <2>15 DEF ServerApply, Respond, Applies, runtimeVars, Shape
  <2>16. CASE ServerRefuse(c)
    <3>1. Refuses(c)
      BY <2>16 DEF ServerRefuse, Respond, Refuses, Refusals, runtimeVars
    <3> QED BY <3>1 DEF Shape
  <2> QED BY <1>4, <2>1, <2>2, <2>3, <2>4, <2>5, <2>7, <2>8, <2>9, <2>10, <2>11, <2>12, <2>13,
             <2>14, <2>15, <2>16
      DEF CallStep
<1> QED BY <1>1, <1>2, <1>3, <1>4 DEF Next

\* The types that CalendarWrites adds, and where calls may stand.
CalendarTypes ==
    /\ pc \in [Calls -> Early \cup Writing \cup Ended]
    /\ wire \in [Calls -> {"none", "request", "ok"} \cup Refusals]
    /\ at \in [Calls -> Nat]
    /\ happened \in [Ops -> [Steps -> Nat]]

Base == CallFrame /\ JournalTypeOK /\ CalendarTypes /\ Positions

LEMMA ShellParts == Shell <=> Base
BY FrameParts DEF Shell, Base, TypeOK, CalendarTypes, RuntimeFrame, RuntimeTypeOK, CallFrame, Refusals

\* What the frame says of one call that was issued.
LEMMA CallFacts ==
    ASSUME Base, NEW c \in Calls, pc[c] # "new"
    PROVE  /\ op[c] \in Ops /\ input[c] \in Payloads /\ Account(c) \in Accounts
           /\ at[c] \in 0..Len(PlanOf[input[c]])
           /\ Len(PlanOf[input[c]]) \in Nat \ {0}
           /\ \A n \in 0..Len(PlanOf[input[c]]) : Completed(c, n) \subseteq Steps
           /\ MoreSteps(c) => /\ Current(c) \in Steps /\ Current(c) = PlanOf[input[c]][at[c] + 1]
                              /\ Current(c) \notin Completed(c, at[c])
                              /\ Completed(c, at[c] + 1) = Completed(c, at[c]) \cup {Current(c)}
                              /\ at[c] + 1 \in 0..Len(PlanOf[input[c]])
<1>1. op[c] \in Ops /\ input[c] \in Payloads /\ Account(c) \in Accounts
  BY AccountOfPayload DEF Base, CallFrame, StartedCalls, Account
<1>2. at[c] \in Nat /\ at[c] <= Len(PlanOf[input[c]])
  BY DEF Base, CalendarTypes, Positions, Plan
<1> PICK f \in Payloads, n \in Nat : f = input[c] /\ n = at[c]
  BY <1>1, <1>2
<1>3. n \in 0..Len(PlanOf[f]) /\ Len(PlanOf[f]) \in Nat \ {0}
  BY <1>2, PlanFacts
<1>4. ASSUME n < Len(PlanOf[f])
      PROVE  /\ PlanOf[f][n + 1] \in Steps /\ PlanOf[f][n + 1] \notin FirstSteps(f, n)
             /\ FirstSteps(f, n + 1) = FirstSteps(f, n) \cup {PlanOf[f][n + 1]}
             /\ n + 1 \in 0..Len(PlanOf[f])
  <2>1. n + 1 \in 1..Len(PlanOf[f]) /\ n \in 0..(Len(PlanOf[f]) - 1) /\ ~(n + 1 <= n)
    BY <1>3, <1>4
  <2> QED BY <1>3, <2>1, PlanFacts
<1>5. \A k \in 0..Len(PlanOf[f]) : FirstSteps(f, k) \subseteq Steps
  BY PlanFacts
<1> QED BY <1>1, <1>3, <1>4, <1>5 DEF Completed, MoreSteps, Current, Plan

\* Who sends or has sent was issued, and is at a step of its plan.
LEMMA SenderFacts ==
    ASSUME Base, NEW c \in Calls, pc[c] \in Writing \/ wire[c] # "none"
    PROVE  /\ pc[c] # "new"
           /\ pc[c] \in Sending \/ wire[c] \in {"request"} \cup Refusals => MoreSteps(c)
BY DEF Base, Positions, Writing, Begun, Sending, Early, MoreSteps

\* A verified step is the last.
LEMMA VerifiedIsLast ==
    ASSUME Base, NEW c \in Calls, pc[c] \in Sending, Current(c) \in VerifiedSteps
    PROVE  at[c] + 1 = Len(PlanOf[input[c]])
<1>1. /\ input[c] \in Payloads /\ Current(c) = PlanOf[input[c]][at[c] + 1]
      /\ at[c] \in Nat /\ at[c] + 1 \in 0..Len(PlanOf[input[c]])
  BY CallFacts, SenderFacts DEF Writing, Begun
<1> PICK f \in Payloads : f = input[c]
  BY <1>1
<1> PICK i \in 1..Len(PlanOf[f]) : i = at[c] + 1
  BY <1>1
<1>2. PlanOf[f][i] \in VerifiedSteps
  BY <1>1
<1>3. Len(PlanOf[f]) = 1
  BY <1>2, VerifiedAlone
<1> QED BY <1>3

\* The journal keeps its types.
LEMMA JournalStep == Base /\ Shape => JournalTypeOK'
<1> SUFFICES ASSUME Base, Shape PROVE JournalTypeOK'
  OBVIOUS
<1>a. JournalTypeOK /\ (UNCHANGED journalVars => JournalTypeOK')
  BY DEF Base, JournalTypeOK, journalVars
<1>1. ASSUME NEW S \in SUBSET Ops, Quiet(S) PROVE JournalTypeOK'
  BY <1>a, <1>1, JournalTypes DEF Quiet, Calm
<1>2. ASSUME NEW c \in Calls, Opens(c) PROVE JournalTypeOK'
  BY <1>a, <1>2, CallFacts, JournalTypes DEF Opens, Inserts
<1>3. ASSUME NEW c \in Calls, Advances(c) PROVE JournalTypeOK'
  <2>1. op[c] \in Ops /\ Completed(c, at[c] + 1) \in SUBSET Steps /\ "partial" \in Statuses
    BY <1>3, CallFacts, SenderFacts DEF Advances, Writing, Begun, Statuses
  <2> QED BY <1>a, <1>3, <2>1, JournalTypes DEF Advances
<1>4. ASSUME NEW c \in Calls, NEW verdict \in Verdicts, Closes(c, verdict) PROVE JournalTypeOK'
  <2>1. op[c] \in Ops /\ Completed(c, at[c]) \in SUBSET Steps /\ verdict \in Statuses
    BY <1>4, CallFacts, SenderFacts DEF Closes, Entitled, Writing, Begun, Verdicts, Statuses
  <2> QED BY <1>a, <1>4, <2>1, JournalTypes DEF Closes
<1>5. ASSUME NEW p \in Procs, NEW a \in Accounts, Orphans(p, a) PROVE JournalTypeOK'
  BY <1>a, <1>5, JournalTypes DEF Orphans, Recovers
<1> QED BY <1>a, <1>1, <1>2, <1>3, <1>4, <1>5 DEF Shape, Transmits, Doubts, Applies, Refuses

\* A call moves along its plan and never past its end.
LEMMA PositionStep == Base /\ Shape /\ CallFrame' => CalendarTypes' /\ Positions'
<1> SUFFICES ASSUME Base, Shape, CallFrame' PROVE CalendarTypes' /\ Positions'
  OBVIOUS
<1>a. CallFrame /\ CalendarTypes /\ Positions
  BY DEF Base
<1> USE <1>a DEF CallFrame, CalendarTypes, Positions, Plan, MoreSteps, calendarVars, callVars,
        Writing, Begun, Sending, Refusals, Early, Ended
<1>1. ASSUME NEW S \in SUBSET Ops, Quiet(S) PROVE CalendarTypes' /\ Positions'
  <2>1. \A c \in Calls : pc[c] = "new" => wire[c] = "none" /\ at[c] = 0
    OBVIOUS
  <2>2. ASSUME NEW c \in Calls, pc'[c] # "new" PROVE at'[c] <= Len(PlanOf[input'[c]])
    <3>1. CASE pc[c] = "new"
      <4>1. input'[c] \in Payloads
        BY <2>2 DEF StartedCalls
      <4> QED BY <1>1, <2>1, <3>1, <4>1, PlanFacts DEF Quiet
    <3>2. CASE pc[c] # "new"
      BY <1>1, <3>2 DEF Quiet, Calm
    <3> QED BY <3>1, <3>2
  <2>3. CalendarTypes'
    BY <1>1 DEF Quiet, Calm
  <2>4. wire' = wire /\ at' = at
    BY <1>1 DEF Quiet
  <2>5. ASSUME NEW c \in Calls
        PROVE  /\ pc'[c] = pc[c] \/ pc'[c] \in Ended \/ (pc'[c] \in Early /\ pc[c] \in Early)
               /\ pc'[c] # "new" => pc[c] = "new" \/ input'[c] = input[c]
    BY <1>1 DEF Quiet, Calm
  <2>6. Positions'
    BY <2>2, <2>4, <2>5
  <2> QED BY <2>3, <2>6
<1>2. ASSUME NEW c \in Calls, Opens(c) PROVE CalendarTypes' /\ Positions'
  BY <1>2 DEF Opens, Inserts
<1>3. ASSUME NEW c \in Calls, Transmits(c) PROVE CalendarTypes' /\ Positions'
  BY <1>3 DEF Transmits
<1>4. ASSUME NEW c \in Calls, Advances(c) PROVE CalendarTypes' /\ Positions'
  <2>1. at[c] + 1 \in 1..Len(PlanOf[input[c]])
    BY <1>4, CallFacts, SenderFacts DEF Advances
  <2>2. Current(c) \in VerifiedSteps => at[c] + 1 = Len(PlanOf[input[c]])
    BY <1>4, VerifiedIsLast DEF Advances
  <2>3. CalendarTypes'
    <3>1. /\ \E stage \in {"begun", "finished", "verifying"} : pc' = [pc EXCEPT ![c] = stage]
          /\ at' = [at EXCEPT ![c] = @ + 1] /\ wire' = wire /\ happened' = happened
      BY <1>4 DEF Advances, Finishes
    <3> QED BY <3>1
  <2>4. /\ wire' = wire /\ input' = input
        /\ \A d \in Calls \ {c} : pc'[d] = pc[d] /\ at'[d] = at[d]
        /\ pc'[c] \in {"begun", "finished", "verifying"} /\ wire[c] = "ok"
        /\ pc'[c] = "verifying" => Current(c) \in VerifiedSteps
        /\ at'[c] = at[c] + 1
    BY <1>4 DEF Advances, Finishes
  <2>5. Positions'
    BY <2>1, <2>2, <2>4
  <2> QED BY <2>3, <2>5
<1>5. ASSUME NEW c \in Calls, NEW verdict \in Verdicts, Closes(c, verdict) PROVE CalendarTypes' /\ Positions'
  <2>1. /\ pc' = [pc EXCEPT ![c] = "finished"] /\ pc[c] \notin Early
        /\ wire' = wire /\ at' = at /\ happened' = happened /\ input' = input
    BY <1>5 DEF Closes, Entitled, Finishes
  <2> QED BY <2>1
<1>6. ASSUME NEW c \in Calls, Doubts(c) PROVE CalendarTypes' /\ Positions'
  BY <1>6 DEF Doubts, Finishes
<1>7. ASSUME NEW c \in Calls, Applies(c) PROVE CalendarTypes' /\ Positions'
  <2>1. op[c] \in Ops /\ Current(c) \in Steps
    BY <1>7, CallFacts, SenderFacts DEF Applies
  <2>2. happened' \in [Ops -> [Steps -> Nat]]
    BY <1>7, <2>1 DEF Applies
  <2> QED BY <1>7, <2>2 DEF Applies
<1>8. ASSUME NEW c \in Calls, Refuses(c) PROVE CalendarTypes' /\ Positions'
  BY <1>8 DEF Refuses
<1>9. ASSUME NEW p \in Procs, NEW a \in Accounts, Orphans(p, a) PROVE CalendarTypes' /\ Positions'
  BY <1>9 DEF Orphans, Recovers
<1> QED BY <1>1, <1>2, <1>3, <1>4, <1>5, <1>6, <1>7, <1>8, <1>9 DEF Shape

----
(* Each shape keeps the core *)

\* Deleting rows ends promises and starts none; answers replay what rows say.
LEMMA QuietKeeps ==
    ASSUME Base, Core, Base', NEW S \in SUBSET Ops, Quiet(S)
    PROVE  Core'
<1>a. wire' = wire /\ at' = at /\ happened' = happened
  BY DEF Quiet, calendarVars
<1>b. \A o \in Ops : o \notin forgotten' => o \notin forgotten /\ rows'[o] = rows[o]
  BY DEF Base, JournalTypeOK, Quiet, Calm, Delete
<1>c. \A c \in Calls : pc'[c] \in Writing => pc'[c] = pc[c]
  BY DEF Quiet, Calm, Writing, Begun, Sending, Early, Ended
<1>d. \A c \in Calls : Involved(c)' => Involved(c) /\ op'[c] = op[c] /\ input'[c] = input[c]
  BY <1>a, <1>c, SenderFacts DEF Quiet, Calm, Involved
<1>e. \A c \in Calls : answer'[c] \in {"succeeded", "partial"} =>
         \/ op'[c] = op[c] /\ answer'[c] = answer[c]
         \/ answer'[c] = ExistingAnswer(rows[op'[c]].status)
  BY DEF Quiet, Calm, Base, CallFrame, StartedCalls
<1>f. \A st : /\ ExistingAnswer(st) = "succeeded" => st = "succeeded"
              /\ ExistingAnswer(st) = "partial" => st = "partial"
  BY PartialIsToldApart DEF ExistingAnswer
<1>g. \A c \in Calls : Account(c) = AccountOf[input[c]] /\ Account(c)' = AccountOf[input'[c]]
  BY DEF Account
<1> USE <1>a, <1>b, <1>c, <1>d, <1>g
        DEF Core, Involved, Remembered, Present, Took, Completed, Writing, Begun, Sending, Refusals
<1>1. OneOwner'
  BY DEF OneOwner
<1>2. RowFirst'
  BY DEF RowFirst
<1>3. OwnsRow'
  BY DEF OwnsRow
<1>4. Progressed'
  BY DEF Progressed
<1>5. Once'
  BY DEF Once
<1>6. InOrder'
  BY DEF InOrder
<1>7. RecordedStepsHappened'
  BY DEF RecordedStepsHappened
<1>8. ClosedIsStill'
  BY DEF ClosedIsStill
<1>9. NothingElse'
  BY DEF NothingElse
<1>10. SuccessIsWhole'
  BY DEF SuccessIsWhole
<1>11. PartialIsSome'
  BY DEF PartialIsSome
<1>12. AnswersFromRows'
  BY <1>e, <1>f DEF AnswersFromRows
<1> QED BY <1>1, <1>2, <1>3, <1>4, <1>5, <1>6, <1>7, <1>8, <1>9, <1>10, <1>11, <1>12 DEF Core

\* A new row gets its first and only owner.
LEMMA OpensKeeps ==
    ASSUME Base, Core, Base', NEW c \in Calls, Opens(c)
    PROVE  Core'
<1>a. /\ wire' = wire /\ at' = at /\ happened' = happened /\ op' = op /\ input' = input
      /\ answer' = answer /\ forgotten' = forgotten /\ pc' = [pc EXCEPT ![c] = "begun"]
  BY DEF Opens, Inserts, Insert, calendarVars, callVars
<1>b. wire[c] = "none" /\ at[c] = 0 /\ op[c] \in Ops /\ input[c] \in Payloads
  BY CallFacts DEF Opens, Inserts, Base, Positions, Early
<1> PICK o \in Ops : o = op[c]
  BY <1>b
<1>c. /\ ~Present(o)
      /\ rows'[o] = [account |-> Account(c), payload |-> input[c], status |-> "pending", steps |-> {}]
      /\ \A q \in Ops \ {o} : rows'[q] = rows[q]
  BY DEF Opens, Inserts, Insert, Base, JournalTypeOK
<1>d. pc'[c] = "begun" /\ \A d \in Calls \ {c} : pc'[d] = pc[d]
  BY <1>a DEF Base, CallFrame
<1>e. FirstSteps(input[c], 0) = {}
  BY <1>b, PlanFacts
<1>f. o \notin forgotten => \A d \in Calls : ~Involved(d) \/ op[d] # o
  BY <1>c DEF Core, RowFirst, Remembered
<1>j. o \notin forgotten => \A s \in Steps : happened[o][s] = 0
  BY <1>c DEF Core, RowFirst, Remembered
<1>g. o \notin forgotten => Ordered(input[c], happened[o])
  BY <1>b, <1>j, PlanFacts DEF Ordered
<1>k. rows'[o].status = "pending" /\ rows'[o].steps = {} /\ rows'[o].payload = input[c]
  BY <1>c
<1>h. \A d \in Calls : Account(d) = AccountOf[input[d]] /\ Account(d)' = Account(d)
  BY <1>a DEF Account
<1>i. "begun" \in Writing /\ "begun" \notin Sending \cup {"verifying"}
  BY DEF Writing, Begun, Sending
<1> USE <1>a, <1>b, <1>c, <1>d, <1>e, <1>f, <1>g, <1>h, <1>i, <1>j, <1>k
        DEF Core, Involved, Remembered, Present, Took, Completed, Writing, Begun, Sending, Refusals
<1>1. OneOwner'
  BY DEF OneOwner
<1>2. RowFirst'
  BY DEF RowFirst
<1>3. OwnsRow'
  <2>1. ASSUME NEW d \in Calls \ {c}, pc[d] \in Writing, op[d] \in Remembered
        PROVE  rows'[op[d]] = rows[op[d]]
    BY <2>1
  <2>2. /\ rows'[op'[c]].status = (IF pc'[c] = "verifying" THEN "partial" ELSE "pending")
        /\ rows'[op'[c]].steps = FirstSteps(input'[c], at'[c])
    OBVIOUS
  <2>3. ASSUME NEW d \in Calls \ {c}, pc'[d] \in Writing, op'[d] \in Remembered'
        PROVE  /\ rows'[op'[d]].status = (IF pc'[d] = "verifying" THEN "partial" ELSE "pending")
               /\ rows'[op'[d]].steps = FirstSteps(input'[d], at'[d])
    BY <2>1, <2>3 DEF OwnsRow
  <2> QED BY <2>2, <2>3 DEF OwnsRow
<1>4. Progressed'
  BY DEF Progressed
<1>5. Once'
  BY DEF Once
<1>6. InOrder'
  BY DEF InOrder
<1>7. RecordedStepsHappened'
  BY DEF RecordedStepsHappened
<1>8. ClosedIsStill'
  BY DEF ClosedIsStill
<1>9. NothingElse'
  BY DEF NothingElse
<1>10. SuccessIsWhole'
  BY DEF SuccessIsWhole
<1>11. PartialIsSome'
  BY DEF PartialIsSome
<1>12. AnswersFromRows'
  BY DEF AnswersFromRows
<1> QED BY <1>1, <1>2, <1>3, <1>4, <1>5, <1>6, <1>7, <1>8, <1>9, <1>10, <1>11, <1>12 DEF Core

\* Only the owner of an open row puts a request on the wire.
LEMMA TransmitsKeeps ==
    ASSUME Base, Core, Base', NEW c \in Calls, Transmits(c)
    PROVE  Core'
<1>a. /\ at' = at /\ happened' = happened /\ op' = op /\ input' = input /\ rows' = rows
      /\ answer' = answer /\ forgotten' = forgotten
      /\ pc[c] \in Begun /\ (pc[c] = "begun" \/ wire[c] \in Refusals)
  BY DEF Transmits, journalVars, callVars, Begun, Sending, Refusals
<1>b. /\ pc'[c] \in Sending /\ wire'[c] = "request"
      /\ \A d \in Calls \ {c} : pc'[d] = pc[d] /\ wire'[d] = wire[d]
  BY DEF Transmits, Base, CallFrame, CalendarTypes
<1>c. \A d \in Calls : Account(d)' = Account(d)
  BY <1>a DEF Account
<1>d. op[c] \in Remembered => rows[op[c]].status = "pending"
  BY <1>a DEF Core, OwnsRow, Writing, Begun, Sending
<1> USE <1>a, <1>b, <1>c, <1>d
        DEF Core, Involved, Remembered, Present, Took, Completed, Writing, Begun, Sending, Refusals
<1>1. OneOwner'
  BY DEF OneOwner
<1>2. RowFirst'
  BY DEF RowFirst
<1>3. OwnsRow'
  BY DEF OwnsRow
<1>4. Progressed'
  BY DEF Progressed
<1>5. Once'
  BY DEF Once
<1>6. InOrder'
  BY DEF InOrder
<1>7. RecordedStepsHappened'
  BY DEF RecordedStepsHappened
<1>8. ClosedIsStill'
  BY DEF ClosedIsStill
<1>9. NothingElse'
  BY DEF NothingElse
<1>10. SuccessIsWhole'
  BY DEF SuccessIsWhole
<1>11. PartialIsSome'
  BY DEF PartialIsSome
<1>12. AnswersFromRows'
  BY DEF AnswersFromRows
<1> QED BY <1>1, <1>2, <1>3, <1>4, <1>5, <1>6, <1>7, <1>8, <1>9, <1>10, <1>11, <1>12 DEF Core

\* The operation of a call that runs is its own, and the row says how far it is.
LEMMA OwnerFacts ==
    ASSUME Base, Core, NEW c \in Calls, pc[c] \in Writing, op[c] \notin forgotten
    PROVE  /\ rows[op[c]].status = (IF pc[c] = "verifying" THEN "partial" ELSE "pending")
           /\ rows[op[c]].payload = input[c] /\ rows[op[c]].steps = Completed(c, at[c])
           /\ \A d \in Calls \ {c} : ~Involved(d) \/ op[d] # op[c]
           /\ pc[c] \in Sending /\ wire[c] = "ok" => Took(c, at[c] + 1)
           /\ pc[c] \in {"begun", "verifying"} \/ wire[c] \in {"request"} \cup Refusals => Took(c, at[c])
<1>1. op[c] \in Remembered /\ Involved(c)
  BY CallFacts, SenderFacts DEF Remembered, Involved
<1> QED BY <1>1 DEF Core, OwnsRow, RowFirst, OneOwner, Progressed

\* If exactly the steps of a record took place, it leaves nothing out.
LEMMA NothingLeftOut ==
    ASSUME NEW f, NEW done, NEW h, \A s \in Steps : h[s] = IF s \in done THEN 1 ELSE 0
    PROVE  LeftOutAreUndone(f, done, h)
BY DEF LeftOutAreUndone

\* A checkpoint records one step more, which was acknowledged.
LEMMA AdvancesKeeps ==
    ASSUME Base, Core, Base', NEW c \in Calls, Advances(c)
    PROVE  Core'
<1>a. /\ wire' = wire /\ happened' = happened /\ op' = op /\ input' = input /\ forgotten' = forgotten
      /\ pc[c] \in Sending /\ pc[c] \in Writing /\ pc[c] # "verifying" /\ wire[c] = "ok"
      /\ \A d \in Calls \ {c} : pc'[d] = pc[d] /\ at'[d] = at[d] /\ answer'[d] = answer[d]
      /\ at'[c] = at[c] + 1
  BY DEF Advances, Finishes, Checkpoint, Conclude, journalVars, callVars, Base, CallFrame, CalendarTypes,
         Writing, Begun, Sending
<1>b. /\ op[c] \in Ops /\ input[c] \in Payloads
      /\ at[c] + 1 \in 1..Len(PlanOf[input[c]])
  BY <1>a, CallFacts, SenderFacts
<1> PICK o \in Ops : o = op[c]
  BY <1>b
<1>c. /\ pc'[c] \in {"begun", "verifying", "finished"}
      /\ answer'[c] \in {answer[c], "unknown"}
      /\ \A q \in Ops \ {o} : rows'[q] = rows[q]
      /\ rows'[o].account = rows[o].account /\ rows'[o].payload = rows[o].payload
      /\ \/ rows'[o] = rows[o] /\ pc'[c] = "finished"
         \/ /\ rows'[o].steps = FirstSteps(input[c], at[c] + 1)
            /\ IF pc'[c] = "verifying" THEN rows'[o].status = "partial" ELSE rows'[o].status = rows[o].status
  <2> USE DEF Base, CallFrame, CalendarTypes, JournalTypeOK, Completed, Row
  <2>1. CASE UNCHANGED journalVars /\ Finishes(c, "unknown")
    BY <2>1 DEF journalVars, Finishes
  <2>2. ASSUME Checkpoint(o, Completed(c, at[c] + 1)),
               (pc' = [pc EXCEPT ![c] = "begun"] /\ UNCHANGED answer) \/ Finishes(c, "unknown")
        PROVE  /\ pc'[c] \in {"begun", "finished"}
               /\ answer'[c] \in {answer[c], "unknown"}
               /\ \A q \in Ops \ {o} : rows'[q] = rows[q]
               /\ rows'[o] = [rows[o] EXCEPT !.steps = FirstSteps(input[c], at[c] + 1)]
    BY <2>2 DEF Checkpoint, Finishes
  <2>3. ASSUME Conclude(o, "partial", Completed(c, at[c] + 1)),
               pc' = [pc EXCEPT ![c] = "verifying"], UNCHANGED answer
        PROVE  /\ pc'[c] = "verifying" /\ answer'[c] = answer[c]
               /\ \A q \in Ops \ {o} : rows'[q] = rows[q]
               /\ rows'[o] = [rows[o] EXCEPT !.status = "partial", !.steps = FirstSteps(input[c], at[c] + 1)]
    BY <2>3 DEF Conclude
  <2>4. rows[o] \in Row
    OBVIOUS
  <2> QED BY <2>1, <2>2, <2>3, <2>4 DEF Advances
<1>d. /\ FirstSteps(input[c], at[c] + 1) # {}
      /\ FirstSteps(input[c], at[c] + 1) \subseteq Steps
  BY <1>b, PlanFacts
<1>e. o \notin forgotten =>
         /\ rows[o].status = "pending" /\ rows[o].payload = input[c]
         /\ \A d \in Calls \ {c} : ~Involved(d) \/ op[d] # o
         /\ \A s \in Steps : happened[o][s] = IF s \in FirstSteps(input[c], at[c] + 1) THEN 1 ELSE 0
         /\ LeftOutAreUndone(input[c], FirstSteps(input[c], at[c] + 1), happened[o])
  BY <1>a, OwnerFacts, NothingLeftOut DEF Took, Completed
<1>f. \A d \in Calls : Account(d)' = Account(d)
  BY <1>a DEF Account
<1> USE <1>a, <1>b, <1>c, <1>d, <1>e, <1>f
        DEF Core, Involved, Remembered, Present, Took, Completed, Writing, Begun, Sending, Refusals
<1>1. OneOwner'
  BY DEF OneOwner
<1>2. RowFirst'
  BY DEF RowFirst
<1>3. OwnsRow'
  BY DEF OwnsRow
<1>4. Progressed'
  BY DEF Progressed
<1>5. Once'
  BY DEF Once
<1>6. InOrder'
  BY DEF InOrder
<1>7. RecordedStepsHappened'
  BY DEF RecordedStepsHappened
<1>8. ClosedIsStill'
  BY DEF ClosedIsStill
<1>9. NothingElse'
  BY DEF NothingElse
<1>10. SuccessIsWhole'
  BY DEF SuccessIsWhole
<1>11. PartialIsSome'
  BY DEF PartialIsSome
<1>12. AnswersFromRows'
  BY DEF AnswersFromRows
<1> QED BY <1>1, <1>2, <1>3, <1>4, <1>5, <1>6, <1>7, <1>8, <1>9, <1>10, <1>11, <1>12 DEF Core

\* The owner closes its row with what it saw acknowledged.
LEMMA ClosesKeeps ==
    ASSUME Base, Core, Base', NEW c \in Calls, NEW verdict \in Verdicts, Closes(c, verdict)
    PROVE  Core'
<1>a. /\ wire' = wire /\ happened' = happened /\ at' = at /\ op' = op /\ input' = input
      /\ forgotten' = forgotten
      /\ pc[c] \in Writing /\ pc'[c] = "finished"
      /\ \A d \in Calls \ {c} : pc'[d] = pc[d] /\ answer'[d] = answer[d]
  BY DEF Closes, Entitled, Finishes, Conclude, journalVars, calendarVars, callVars, Base, CallFrame,
         CalendarTypes, Writing, Begun
<1>b. /\ op[c] \in Ops /\ input[c] \in Payloads /\ pc[c] # "new"
      /\ at[c] \in 0..Len(PlanOf[input[c]])
  BY <1>a, CallFacts, SenderFacts
<1> PICK o \in Ops : o = op[c]
  BY <1>b
<1>c. /\ \A q \in Ops \ {o} : rows'[q] = rows[q]
      /\ rows'[o].account = rows[o].account /\ rows'[o].payload = rows[o].payload
      /\ \/ rows'[o] = rows[o] /\ answer'[c] = "unknown"
         \/ /\ rows'[o].steps = FirstSteps(input[c], at[c]) /\ rows'[o].status = verdict
            /\ answer'[c] = verdict
  <2> USE DEF Base, CallFrame, CalendarTypes, JournalTypeOK, Completed, Row
  <2>1. CASE UNCHANGED journalVars /\ Finishes(c, "unknown")
    BY <2>1 DEF journalVars, Finishes
  <2>2. ASSUME Conclude(o, verdict, Completed(c, at[c])), Finishes(c, verdict)
        PROVE  /\ answer'[c] = verdict
               /\ \A q \in Ops \ {o} : rows'[q] = rows[q]
               /\ rows'[o] = [rows[o] EXCEPT !.status = verdict, !.steps = FirstSteps(input[c], at[c])]
    BY <2>2 DEF Conclude, Finishes
  <2>3. rows[o] \in Row
    OBVIOUS
  <2> QED BY <2>1, <2>2, <2>3 DEF Closes
<1>d. o \notin forgotten =>
         /\ rows[o].status \in {"pending", "partial"} /\ rows[o].payload = input[c]
         /\ rows[o].steps = FirstSteps(input[c], at[c])
         /\ \A d \in Calls \ {c} : ~Involved(d) \/ op[d] # o
  BY <1>a, OwnerFacts DEF Completed
<1>e. o \notin forgotten =>
         /\ verdict \in {"succeeded", "failed", "partial"} => wire[c] # "request"
         /\ verdict \in {"failed", "partial"} => LeftOutAreUndone(input[c], FirstSteps(input[c], at[c]), happened[o])
         /\ verdict = "succeeded" => at[c] = Len(PlanOf[input[c]])
         /\ verdict = "partial" => FirstSteps(input[c], at[c]) # {}
         /\ rows[o].status = "partial" => verdict = "succeeded"
  <2> SUFFICES ASSUME o \notin forgotten
               PROVE  /\ verdict \in {"succeeded", "failed", "partial"} => wire[c] # "request"
                      /\ verdict \in {"failed", "partial"} =>
                            LeftOutAreUndone(input[c], FirstSteps(input[c], at[c]), happened[o])
                      /\ verdict = "succeeded" => at[c] = Len(PlanOf[input[c]])
                      /\ verdict = "partial" => FirstSteps(input[c], at[c]) # {}
                      /\ rows[o].status = "partial" => verdict = "succeeded"
    OBVIOUS
  <2>a. /\ rows[o].status = (IF pc[c] = "verifying" THEN "partial" ELSE "pending")
        /\ pc[c] \in {"begun", "verifying"} => wire[c] # "request"
    BY <1>a, OwnerFacts DEF Base, Positions
  <2>b. verdict = SafeFailure(c) => /\ verdict # "succeeded"
                                    /\ verdict = "partial" => FirstSteps(input[c], at[c]) # {}
    BY <1>b, PlanFacts DEF SafeFailure
  <2>c. Took(c, at[c]) => LeftOutAreUndone(input[c], FirstSteps(input[c], at[c]), happened[o])
    BY NothingLeftOut DEF Took, Completed
  <2>1. CASE verdict = "succeeded" /\ pc[c] \in {"begun", "verifying"} /\ ~MoreSteps(c)
    <3>1. at[c] = Len(PlanOf[input[c]])
      BY <1>b, <2>1, PlanFacts DEF MoreSteps, Plan
    <3> QED BY <2>1, <2>a, <3>1
  <2>2. CASE verdict = SafeFailure(c) /\ pc[c] = "begun"
    BY <1>a, <2>2, <2>a, <2>b, <2>c, OwnerFacts
  <2>3. CASE verdict = SafeFailure(c) /\ pc[c] \in Sending /\ wire[c] \in Refusals
    BY <1>a, <2>3, <2>a, <2>b, <2>c, OwnerFacts DEF Refusals, Sending
  <2>4. CASE verdict = SafeFailure(c) /\ pc[c] \in Sending /\ wire[c] = "ok" /\ Current(c) \in CreateSteps
    <3>1. /\ at[c] + 1 \in 1..Len(PlanOf[input[c]]) /\ at[c] \in Nat
          /\ Current(c) = PlanOf[input[c]][at[c] + 1]
          /\ FirstSteps(input[c], at[c] + 1) = FirstSteps(input[c], at[c]) \cup {Current(c)}
      BY <1>b, <2>4, CallFacts, SenderFacts DEF Completed
    <3>2. \A s \in Steps : happened[o][s] = IF s \in FirstSteps(input[c], at[c] + 1) THEN 1 ELSE 0
      BY <1>a, <2>4, OwnerFacts DEF Took, Completed
    <3>3. \A j \in 1..((at[c] + 1) - 1) : PlanOf[input[c]][j] \in FirstSteps(input[c], at[c])
      BY <1>b, <3>1 DEF FirstSteps
    <3>4. at[c] + 1 \in DOMAIN PlanOf[input[c]]
      BY <1>b, <3>1, PlansAreStepLists
    <3>5. LeftOutAreUndone(input[c], FirstSteps(input[c], at[c]), happened[o])
      BY <2>4, <3>1, <3>2, <3>3, <3>4 DEF LeftOutAreUndone
    <3> QED BY <2>4, <2>a, <2>b, <3>5 DEF Sending
  <2>5. CASE verdict = "unknown" /\ pc[c] \in Sending
    BY <2>5, <2>a DEF Sending
  <2> QED BY <2>1, <2>2, <2>3, <2>4, <2>5 DEF Closes, Entitled
<1>f. \A d \in Calls : Account(d)' = Account(d)
  BY <1>a DEF Account
<1>g. verdict \in {"succeeded", "failed", "partial", "unknown"}
  BY DEF Verdicts
<1> USE <1>a, <1>b, <1>c, <1>d, <1>e, <1>f, <1>g
        DEF Core, Involved, Remembered, Present, Took, Completed, Writing, Begun, Sending, Refusals
<1>1. OneOwner'
  BY DEF OneOwner
<1>2. RowFirst'
  BY DEF RowFirst
<1>3. OwnsRow'
  BY DEF OwnsRow
<1>4. Progressed'
  BY DEF Progressed
<1>5. Once'
  BY DEF Once
<1>6. InOrder'
  BY DEF InOrder
<1>7. RecordedStepsHappened'
  BY DEF RecordedStepsHappened
<1>8. ClosedIsStill'
  BY DEF ClosedIsStill
<1>9. NothingElse'
  BY DEF NothingElse
<1>10. SuccessIsWhole'
  BY DEF SuccessIsWhole
<1>11. PartialIsSome'
  BY DEF PartialIsSome
<1>12. AnswersFromRows'
  BY DEF AnswersFromRows
<1> QED BY <1>1, <1>2, <1>3, <1>4, <1>5, <1>6, <1>7, <1>8, <1>9, <1>10, <1>11, <1>12 DEF Core

\* A call that could not verify replies leaves the row partial and says so.
LEMMA DoubtsKeeps ==
    ASSUME Base, Core, Base', NEW c \in Calls, Doubts(c)
    PROVE  Core'
<1>a. /\ wire' = wire /\ happened' = happened /\ at' = at /\ op' = op /\ input' = input
      /\ forgotten' = forgotten /\ rows' = rows
      /\ pc[c] = "verifying" /\ pc'[c] = "finished" /\ answer'[c] = "partial"
      /\ \A d \in Calls \ {c} : pc'[d] = pc[d] /\ answer'[d] = answer[d]
  BY DEF Doubts, Finishes, journalVars, calendarVars, callVars, Base, CallFrame
<1>b. op[c] \notin forgotten => rows[op[c]].status = "partial"
  BY <1>a, OwnerFacts DEF Writing
<1>c. \A d \in Calls : Account(d)' = Account(d)
  BY <1>a DEF Account
<1> USE <1>a, <1>b, <1>c
        DEF Core, Involved, Remembered, Present, Took, Completed, Writing, Begun, Sending, Refusals
<1>1. OneOwner'
  BY DEF OneOwner
<1>2. RowFirst'
  BY DEF RowFirst
<1>3. OwnsRow'
  BY DEF OwnsRow
<1>4. Progressed'
  BY DEF Progressed
<1>5. Once'
  BY DEF Once
<1>6. InOrder'
  BY DEF InOrder
<1>7. RecordedStepsHappened'
  BY DEF RecordedStepsHappened
<1>8. ClosedIsStill'
  BY DEF ClosedIsStill
<1>9. NothingElse'
  BY DEF NothingElse
<1>10. SuccessIsWhole'
  BY DEF SuccessIsWhole
<1>11. PartialIsSome'
  BY DEF PartialIsSome
<1>12. AnswersFromRows'
  BY DEF AnswersFromRows
<1> QED BY <1>1, <1>2, <1>3, <1>4, <1>5, <1>6, <1>7, <1>8, <1>9, <1>10, <1>11, <1>12 DEF Core

\* A refusal leaves everything as it was.
LEMMA RefusesKeeps ==
    ASSUME Base, Core, Base', NEW c \in Calls, Refuses(c)
    PROVE  Core'
<1>a. /\ happened' = happened /\ at' = at /\ op' = op /\ input' = input /\ pc' = pc
      /\ forgotten' = forgotten /\ rows' = rows /\ answer' = answer
      /\ wire[c] = "request" /\ wire'[c] \in Refusals
      /\ \A d \in Calls \ {c} : wire'[d] = wire[d]
  BY DEF Refuses, journalVars, callVars, Base, CalendarTypes
<1>c. \A d \in Calls : Account(d)' = Account(d)
  BY <1>a DEF Account
<1> USE <1>a, <1>c
        DEF Core, Involved, Remembered, Present, Took, Completed, Writing, Begun, Sending, Refusals
<1>1. OneOwner'
  BY DEF OneOwner
<1>2. RowFirst'
  BY DEF RowFirst
<1>3. OwnsRow'
  BY DEF OwnsRow
<1>4. Progressed'
  BY DEF Progressed
<1>5. Once'
  BY DEF Once
<1>6. InOrder'
  BY DEF InOrder
<1>7. RecordedStepsHappened'
  BY DEF RecordedStepsHappened
<1>8. ClosedIsStill'
  BY DEF ClosedIsStill
<1>9. NothingElse'
  BY DEF NothingElse
<1>10. SuccessIsWhole'
  BY DEF SuccessIsWhole
<1>11. PartialIsSome'
  BY DEF PartialIsSome
<1>12. AnswersFromRows'
  BY DEF AnswersFromRows
<1> QED BY <1>1, <1>2, <1>3, <1>4, <1>5, <1>6, <1>7, <1>8, <1>9, <1>10, <1>11, <1>12 DEF Core

\* Exchange takes the next step of the plan, once.
LEMMA AppliesKeeps ==
    ASSUME Base, Core, Base', NEW c \in Calls, Applies(c)
    PROVE  Core'
<1>a. /\ at' = at /\ op' = op /\ input' = input /\ pc' = pc
      /\ forgotten' = forgotten /\ rows' = rows /\ answer' = answer
      /\ wire[c] = "request" /\ wire'[c] = "ok"
      /\ \A d \in Calls \ {c} : wire'[d] = wire[d]
  BY DEF Applies, journalVars, callVars, Base, CalendarTypes
<1>b. /\ op[c] \in Ops /\ input[c] \in Payloads
      /\ at[c] + 1 \in 1..Len(PlanOf[input[c]]) /\ at[c] \in Nat
      /\ Current(c) \in Steps /\ Current(c) \notin FirstSteps(input[c], at[c])
      /\ FirstSteps(input[c], at[c] + 1) = FirstSteps(input[c], at[c]) \cup {Current(c)}
  <2>1. pc[c] # "new" /\ MoreSteps(c)
    BY <1>a, SenderFacts
  <2>2. at[c] \in Nat /\ at[c] + 1 \in 0..Len(PlanOf[input[c]]) => at[c] + 1 \in 1..Len(PlanOf[input[c]])
    OBVIOUS
  <2> QED BY <2>1, <2>2, CallFacts DEF Completed
<1> PICK o \in Ops : o = op[c]
  BY <1>b
<1>c. /\ \A q \in Ops \ {o} : happened'[q] = happened[q]
      /\ happened'[o][Current(c)] = happened[o][Current(c)] + 1
      /\ \A s \in Steps \ {Current(c)} : happened'[o][s] = happened[o][s]
  BY <1>b DEF Applies, Base, CalendarTypes
<1>d. o \notin forgotten =>
         /\ Present(o) /\ rows[o].payload = input[c]
         /\ rows[o].status \notin {"succeeded", "failed", "partial"}
         /\ \A d \in Calls \ {c} : ~Involved(d) \/ op[d] # o
         /\ \A s \in Steps : happened[o][s] = IF s \in FirstSteps(input[c], at[c]) THEN 1 ELSE 0
  BY <1>a, <1>b DEF Core, RowFirst, OneOwner, ClosedIsStill, Progressed, Involved, Remembered, Took, Completed
<1>e. o \notin forgotten =>
         \A s \in Steps : happened'[o][s] = IF s \in FirstSteps(input[c], at[c] + 1) THEN 1 ELSE 0
  BY <1>b, <1>c, <1>d
<1>f. o \notin forgotten => Ordered(input[c], happened'[o])
  BY <1>b, <1>e, PlanFacts DEF Ordered
<1>g. \A d \in Calls : Account(d)' = Account(d)
  BY <1>a DEF Account
<1>h. pc[c] \notin {"begun", "verifying"}
  BY <1>a DEF Base, Positions
<1> USE <1>a, <1>b, <1>c, <1>d, <1>e, <1>f, <1>g, <1>h
        DEF Core, Involved, Remembered, Present, Took, Completed, Writing, Begun, Sending, Refusals
<1>1. OneOwner'
  BY DEF OneOwner
<1>2. RowFirst'
  BY DEF RowFirst
<1>3. OwnsRow'
  BY DEF OwnsRow
<1>4. Progressed'
  BY DEF Progressed
<1>5. Once'
  BY DEF Once
<1>6. InOrder'
  BY DEF InOrder
<1>7. RecordedStepsHappened'
  <2> SUFFICES ASSUME NEW q \in Ops \ forgotten, NEW s \in rows[q].steps
               PROVE  happened'[q][s] = 1
    BY DEF RecordedStepsHappened
  <2>1. happened[q][s] = 1 /\ s \in Steps
    BY DEF RecordedStepsHappened, Base, JournalTypeOK, Row
  <2>2. q = o => s # Current(c)
    BY <2>1
  <2> QED BY <2>1, <2>2
<1>8. ClosedIsStill'
  BY DEF ClosedIsStill
<1>9. NothingElse'
  BY DEF NothingElse
<1>10. SuccessIsWhole'
  BY DEF SuccessIsWhole
<1>11. PartialIsSome'
  BY DEF PartialIsSome
<1>12. AnswersFromRows'
  BY DEF AnswersFromRows
<1> QED BY <1>1, <1>2, <1>3, <1>4, <1>5, <1>6, <1>7, <1>8, <1>9, <1>10, <1>11, <1>12 DEF Core

\* Recovery closes rows whose owner is gone, and records no step.
LEMMA OrphansKeeps ==
    ASSUME Base, Core, Base', NEW p \in Procs, NEW a \in Accounts, Orphans(p, a)
    PROVE  Core'
<1>a. /\ wire' = wire /\ happened' = happened /\ at' = at /\ op' = op /\ input' = input
      /\ forgotten' = forgotten /\ pc' = pc /\ answer' = answer
  BY DEF Orphans, Recovers, RecoverAccount, calendarVars, callVars
<1>b. \A o \in Ops : \/ rows'[o] = rows[o]
                     \/ /\ rows[o].status = "pending" /\ rows[o].account = a
                        /\ rows'[o].status = "unknown" /\ rows'[o].steps = rows[o].steps
                        /\ rows'[o].account = rows[o].account /\ rows'[o].payload = rows[o].payload
  <2>1. \A o \in Ops : rows[o] \in Row
    BY DEF Base, JournalTypeOK
  <2>2. \A o \in Ops : rows'[o] = rows[o] \/ (/\ rows[o].account = a /\ rows[o].status = "pending"
                                              /\ rows'[o] = [rows[o] EXCEPT !.status = "unknown"])
    BY DEF Orphans, Recovers, RecoverAccount
  <2> QED BY <2>1, <2>2 DEF Row
<1>c. \A d \in Calls : pc[d] \in Writing => Account(d) # a
  <2>1. \A d \in Calls : pc[d] \in Writing => lock[Account(d)] = d
    BY DEF Base, CallFrame, HeldLocks, InFlight, Writing, Begun, Sending, Ended
  <2> QED BY <2>1, Holders DEF Orphans, Recovers
<1>d. \A d \in Calls : pc[d] \in Writing /\ op[d] \in Ops \ forgotten => rows'[op[d]] = rows[op[d]]
  BY <1>b, <1>c DEF Core, RowFirst, Involved, Remembered
<1>e. \A d \in Calls : Account(d)' = Account(d)
  BY <1>a DEF Account
<1> USE <1>a, <1>b, <1>d, <1>e
        DEF Core, Involved, Remembered, Present, Took, Completed, Writing, Begun, Sending, Refusals
<1>1. OneOwner'
  BY DEF OneOwner
<1>2. RowFirst'
  BY DEF RowFirst
<1>3. OwnsRow'
  BY DEF OwnsRow
<1>4. Progressed'
  BY DEF Progressed
<1>5. Once'
  BY DEF Once
<1>6. InOrder'
  BY DEF InOrder
<1>7. RecordedStepsHappened'
  BY DEF RecordedStepsHappened
<1>8. ClosedIsStill'
  BY DEF ClosedIsStill
<1>9. NothingElse'
  BY DEF NothingElse
<1>10. SuccessIsWhole'
  BY DEF SuccessIsWhole
<1>11. PartialIsSome'
  BY DEF PartialIsSome
<1>12. AnswersFromRows'
  BY DEF AnswersFromRows
<1> QED BY <1>1, <1>2, <1>3, <1>4, <1>5, <1>6, <1>7, <1>8, <1>9, <1>10, <1>11, <1>12 DEF Core

----
(* Theorems *)

\* Nothing has happened.
LEMMA InitIInv == Init => IInv
<1> SUFFICES ASSUME Init PROVE IInv
  OBVIOUS
<1>1. RuntimeFrame
  BY RuntimeInitFrame DEF Init
<1>2. /\ pc = [c \in Calls |-> "new"] /\ answer = [c \in Calls |-> "none"]
      /\ rows = [o \in Ops |-> NoRow]
  BY DEF Init, RuntimeInit, JournalInit
<1>3. TypeOK
  BY <1>1, <1>2 DEF Init, TypeOK, RuntimeFrame, Early
<1>4. Positions
  BY <1>2 DEF Init, Positions, Early, Writing, Begun, Sending, Refusals
<1>5. Core
  BY <1>2 DEF Init, Core, OneOwner, RowFirst, OwnsRow, Progressed, Once, InOrder, RecordedStepsHappened,
       ClosedIsStill, NothingElse, SuccessIsWhole, PartialIsSome, AnswersFromRows,
       Involved, Remembered, Present, NoRow, Writing, Begun, Sending
<1> QED BY <1>1, <1>3, <1>4, <1>5 DEF IInv, Shell

\* Every step keeps the inductive invariant, by its shape.
LEMMA StepIInv == IInv /\ [Next]_vars => IInv'
<1> SUFFICES ASSUME IInv, [Next]_vars PROVE IInv'
  OBVIOUS
<1>a. Base /\ Core /\ RuntimeFrame /\ Positions
  BY ShellParts DEF IInv, Shell
<1>b. CallFrame' /\ Shape
  BY <1>a, StepShape
<1>c. Base'
  BY <1>a, <1>b, JournalStep, PositionStep DEF Base
<1>1. ASSUME NEW S \in SUBSET Ops, Quiet(S) PROVE Core'
  BY <1>a, <1>c, <1>1, QuietKeeps
<1>2. ASSUME NEW c \in Calls, Opens(c) PROVE Core'
  BY <1>a, <1>c, <1>2, OpensKeeps
<1>3. ASSUME NEW c \in Calls, Transmits(c) PROVE Core'
  BY <1>a, <1>c, <1>3, TransmitsKeeps
<1>4. ASSUME NEW c \in Calls, Advances(c) PROVE Core'
  BY <1>a, <1>c, <1>4, AdvancesKeeps
<1>5. ASSUME NEW c \in Calls, Doubts(c) PROVE Core'
  BY <1>a, <1>c, <1>5, DoubtsKeeps
<1>6. ASSUME NEW c \in Calls, Applies(c) PROVE Core'
  BY <1>a, <1>c, <1>6, AppliesKeeps
<1>7. ASSUME NEW c \in Calls, Refuses(c) PROVE Core'
  BY <1>a, <1>c, <1>7, RefusesKeeps
<1>8. ASSUME NEW c \in Calls, NEW verdict \in Verdicts, Closes(c, verdict) PROVE Core'
  BY <1>a, <1>c, <1>8, ClosesKeeps
<1>9. ASSUME NEW p \in Procs, NEW a \in Accounts, Orphans(p, a) PROVE Core'
  BY <1>a, <1>c, <1>9, OrphansKeeps
<1>10. Core'
  BY <1>b, <1>1, <1>2, <1>3, <1>4, <1>5, <1>6, <1>7, <1>8, <1>9 DEF Shape
<1>11. Shell'
  BY <1>c, ShellParts, PTL
<1> QED BY <1>10, <1>11 DEF IInv

\* Every reachable state satisfies the inductive invariant.
THEOREM Invariance == Spec => []IInv
BY InitIInv, StepIInv, PTL DEF Spec

\* What is under way in transit, in the terms of the invariant.
LEMMA TransitFacts ==
    ASSUME IInv, NEW o \in Remembered, NEW s \in Steps, InTransit(o, s)
    PROVE  /\ rows[o].status \notin {"succeeded", "failed", "partial"}
           /\ happened[o][s] = 0
<1> PICK c \in Calls : op[c] = o /\ wire[c] = "request" /\ MoreSteps(c) /\ Current(c) = s
  BY DEF InTransit
<1>1. Base /\ Core
  BY ShellParts DEF IInv
<1>2. Current(c) \notin Completed(c, at[c])
  BY <1>1, CallFacts, SenderFacts
<1> QED BY <1>1, <1>2 DEF Core, ClosedIsStill, Progressed, Involved, Took

\* No attendee is notified twice and no item created twice under one UUID,
\* however calls, resends, crashes, replays and retries interleave
\* (calendar_edits.rs and calendar_events.rs over write_runtime.rs).
THEOREM StepsOnce == Spec => []StepsHappenOnce
<1>1. IInv => StepsHappenOnce
  BY DEF IInv, Shell, Core, Once, StepsHappenOnce
<1> QED BY <1>1, Invariance, PTL

\* Steps take place in the order of the plan: notices only after the change
\* to the calendar, a truncation only after the tail exists.
THEOREM StepsInOrder == Spec => []StepsHappenInOrder
<1>1. IInv => StepsHappenInOrder
  BY DEF IInv, Core, InOrder, Ordered, StepsHappenInOrder
<1> QED BY <1>1, Invariance, PTL

\* Recorded steps took place, and a running call's lock and row are its own.
THEOREM TrueRecords == Spec => []RecordsAreTrue
<1>1. IInv => RunningEditsAreLeftAlone
  BY DEF IInv, Shell, Core, OwnsRow, RuntimeFrame, HeldLocks, InFlight, Writing, Begun, Sending, Ended,
         RunningEditsAreLeftAlone
<1>2. IInv => RecordsAreTrue
  BY <1>1 DEF IInv, Core, RecordsAreTrue
<1> QED BY <1>2, Invariance, PTL

\* A row that says succeeded stands for its whole plan; one that says failed or
\* partial leaves out nothing that took place, but an item that was created
\* and could not be read back.
THEOREM FinalRecords == Spec => []ClosedRecordsAreFinal
<1>1. IInv => ClosedRecordsAreFinal
  <2> SUFFICES ASSUME IInv, NEW o \in Remembered
               PROVE  /\ rows[o].status = "succeeded" => rows[o].steps = StepsOf(o)
                      /\ rows[o].status \in {"failed", "partial"} =>
                            \A s \in Steps \ rows[o].steps :
                               /\ ~InTransit(o, s)
                               /\ happened[o][s] = 0 \/ (s \in CreateSteps /\ FirstOpen(o, s))
                      /\ rows[o].status = "partial" => rows[o].steps # {}
    BY DEF ClosedRecordsAreFinal
  <2>1. /\ rows[o].status = "succeeded" => rows[o].steps = StepsOf(o)
        /\ rows[o].status = "partial" => rows[o].steps # {}
    BY DEF IInv, Core, SuccessIsWhole, PartialIsSome, StepsOf
  <2>2. ASSUME rows[o].status \in {"failed", "partial"}, NEW s \in Steps \ rows[o].steps
        PROVE  happened[o][s] = 0 \/ (s \in CreateSteps /\ FirstOpen(o, s))
    BY <2>2 DEF IInv, Core, NothingElse, LeftOutAreUndone, FirstOpen
  <2>3. ASSUME rows[o].status \in {"failed", "partial"}, NEW s \in Steps PROVE ~InTransit(o, s)
    BY <2>3, TransitFacts
  <2> QED BY <2>1, <2>2, <2>3
<1> QED BY <1>1, Invariance, PTL

\* A caller that is told success, first hand or by a replay, can rely on every
\* step; one that is told of a partial change, on nothing being under way.
THEOREM AnswersAreTruthful == Spec => []TruthfulAnswers
<1>1. IInv => TruthfulAnswers
  <2> SUFFICES ASSUME IInv, NEW c \in Calls, op[c] \in Remembered
               PROVE  /\ answer[c] = "succeeded" => \A s \in StepsOf(op[c]) : happened[op[c]][s] = 1
                      /\ answer[c] = "partial" =>
                            /\ \E s \in Steps : happened[op[c]][s] = 1
                            /\ \A s \in Steps : ~InTransit(op[c], s)
    BY DEF TruthfulAnswers
  <2> PICK o \in Remembered : o = op[c]
    OBVIOUS
  <2>0. o \in Ops
    BY DEF Remembered
  <2>1. \A s \in rows[o].steps : happened[o][s] = 1
    BY DEF IInv, Core, RecordedStepsHappened
  <2>2. rows[o].steps \subseteq Steps /\ (Present(o) => rows[o].payload \in Payloads)
    BY <2>0 DEF IInv, Shell, TypeOK, RuntimeTypeOK, JournalTypeOK, Row, Core, RowFirst
  <2>3. CASE answer[c] = "succeeded"
    <3>1. rows[o].status = "succeeded"
      BY <2>3 DEF IInv, Core, AnswersFromRows
    <3> QED BY <2>1, <2>3, <3>1 DEF IInv, Core, SuccessIsWhole, StepsOf
  <2>4. CASE answer[c] = "partial"
    <3>1. rows[o].status \in {"partial", "succeeded"}
      BY <2>4 DEF IInv, Core, AnswersFromRows
    <3>2. rows[o].steps # {}
      <4>1. CASE rows[o].status = "partial"
        BY <4>1 DEF IInv, Core, PartialIsSome
      <4>2. CASE rows[o].status = "succeeded"
        <5> PICK f \in Payloads : f = rows[o].payload
          BY <2>2, <4>2 DEF Present
        <5>1. FirstSteps(f, Len(PlanOf[f])) # {}
          <6> PICK n \in Nat \ {0} : n = Len(PlanOf[f])
            BY PlanFacts
          <6>1. n \in 1..Len(PlanOf[f])
            OBVIOUS
          <6> QED BY <6>1, PlanFacts
        <5> QED BY <4>2, <5>1 DEF IInv, Core, SuccessIsWhole
      <4> QED BY <3>1, <4>1, <4>2
    <3>3. \A s \in Steps : ~InTransit(o, s)
      BY <3>1, TransitFacts
    <3> QED BY <2>1, <2>2, <2>4, <3>2, <3>3
  <2> QED BY <2>3, <2>4
<1> QED BY <1>1, Invariance, PTL

\* No step of any call, recovery or replay drops a recorded step.
THEOREM ProgressKept == Spec => ProgressIsKept
<1>1. IInv /\ [Next]_vars => \A o \in Ops \ forgotten' : rows[o].steps \subseteq rows'[o].steps
  <2> SUFFICES ASSUME IInv, [Next]_vars, NEW o \in Ops \ forgotten'
               PROVE  rows[o].steps \subseteq rows'[o].steps
    OBVIOUS
  <2>a. Base /\ Core /\ Shape
    BY ShellParts, StepShape DEF IInv, Shell
  <2>b. rows[o] \in Row /\ DOMAIN rows = Ops
    BY <2>a DEF Base, JournalTypeOK
  <2>1. ASSUME NEW S \in SUBSET Ops, Quiet(S) PROVE rows'[o] = rows[o]
    BY <2>1 DEF Quiet, Calm, Delete
  <2>2. ASSUME NEW c \in Calls, Opens(c) PROVE rows[o].steps \subseteq rows'[o].steps
    <3>1. CASE op[c] # o
      BY <2>b, <2>2, <3>1 DEF Opens, Inserts, Insert
    <3>2. CASE op[c] = o
      <4>1. ~Present(o) /\ o \in Remembered
        BY <2>2, <3>2 DEF Opens, Inserts, Insert, Remembered
      <4>2. rows[o].steps \subseteq Steps
        BY <2>b DEF Row
      <4>3. \A s \in Steps : happened[o][s] = 0
        BY <2>a, <4>1 DEF Core, RowFirst
      <4>4. \A s \in rows[o].steps : happened[o][s] = 1
        BY <2>a, <4>1 DEF Core, RecordedStepsHappened
      <4> QED BY <4>2, <4>3, <4>4
    <3> QED BY <3>1, <3>2
  <2>3. ASSUME NEW c \in Calls, NEW st, NEW n \in {at[c], at[c] + 1}, pc[c] \in Writing,
               n = at[c] + 1 => pc[c] \in Sending,
               Checkpoint(op[c], Completed(c, n)) \/ Conclude(op[c], st, Completed(c, n))
        PROVE  rows[o].steps \subseteq rows'[o].steps
    <3>1. CASE op[c] # o
      BY <2>b, <2>3, <3>1 DEF Checkpoint, Conclude
    <3>2. CASE op[c] = o
      <4>1. o \notin forgotten
        BY <2>3 DEF Checkpoint, Conclude
      <4>2. rows[o].steps = Completed(c, at[c])
        BY <2>a, <2>3, <3>2, <4>1, OwnerFacts
      <4>3. Completed(c, at[c]) \subseteq Completed(c, n)
        BY <2>a, <2>3, CallFacts, SenderFacts
      <4>4. rows'[o].steps = Completed(c, n)
        <5> DEFINE done == Completed(c, n)
        <5>1. /\ DOMAIN rows[o] = {"account", "status", "payload", "steps"}
              /\ o \in DOMAIN rows
          BY <2>b DEF Row
        <5>2. Checkpoint(o, done) \/ Conclude(o, st, done)
          BY <2>3, <3>2
        <5> HIDE DEF done
        <5>3. rows'[o].steps = done
          BY <5>1, <5>2 DEF Checkpoint, Conclude
        <5> QED BY <5>3 DEF done
      <4> QED BY <4>2, <4>3, <4>4
    <3> QED BY <3>1, <3>2
  <2>4. ASSUME NEW c \in Calls, Advances(c) PROVE rows[o].steps \subseteq rows'[o].steps
    BY <2>3, <2>4 DEF Advances, Writing, Begun, journalVars
  <2>5. ASSUME NEW c \in Calls, NEW verdict \in Verdicts, Closes(c, verdict)
        PROVE  rows[o].steps \subseteq rows'[o].steps
    <3>1. pc[c] \in Writing /\ at[c] # at[c] + 1
      BY <2>a, <2>5 DEF Closes, Entitled, Writing, Begun, Base, CalendarTypes
    <3>2. UNCHANGED journalVars \/ Conclude(op[c], verdict, Completed(c, at[c]))
      BY <2>5 DEF Closes
    <3> QED BY <2>3, <3>1, <3>2 DEF journalVars
  <2>6. ASSUME NEW p \in Procs, NEW a \in Accounts, Orphans(p, a)
        PROVE  rows[o].steps \subseteq rows'[o].steps
    BY <2>b, <2>6 DEF Orphans, Recovers, RecoverAccount, Row
  <2> QED BY <2>a, <2>1, <2>2, <2>4, <2>5, <2>6 
      DEF Shape, Transmits, Doubts, Applies, Refuses, journalVars
<1> QED BY <1>1, Invariance, PTL DEF Spec, ProgressIsKept
====
