---- MODULE MailBatchProofs ----
(***************************************************************************)
(* Theorems about MailBatch for any batch, any number of submissions and   *)
(* any changes of the mails by other clients.                              *)
(*                                                                         *)
(* Two things carry over from one submission to the next: the rows, and    *)
(* what Exchange did.  An entry without a row was never sent, and a row    *)
(* with a verdict agrees with Exchange (Recorded).  Within a submission    *)
(* the entries before batch.i are settled: those with an open row have     *)
(* stopped their account (Stopped), and an answer never disagrees with the *)
(* row (Told).  The preview binds the entries that have no row (Bound).    *)
(***************************************************************************)
EXTENDS MailBatch, TLAPS

Accounts == {AccountOf[e] : e \in Entries}
Shown    == Nat \cup {Replay}
Previews == {"show", "compare"}
Stages   == {"show", "compare", "validate", "entry", "wait"}
Statuses == {"none", "pending", "unknown", "succeeded", "failed"}

Submissions ==
    [at : Stages, i : Nat \ {0}, cli : BOOLEAN, prints : Seq(Shown), approved : Seq(Shown),
     failures : SUBSET Entries, blocked : SUBSET Accounts]

Types ==
    /\ mail \in [Entries -> Nat]
    /\ row \in [Entries -> Statuses]
    /\ wire \in [Entries -> {"none", "sent", "done", "refused"}]
    /\ happened \in [Entries -> Nat]
    /\ batch = Nobody \/ batch \in Submissions
    /\ answers \in [Entries -> {"none", "ok", "failed", "unknown", "skipped"}]
    /\ begun \in [Entries -> Nat]

\* An entry without a row was not sent, and a verdict is what Exchange did.
Recorded ==
    \A e \in Entries :
        /\ happened[e] = IF wire[e] = "done" THEN 1 ELSE 0
        /\ row[e] = "none" <=> wire[e] = "none"
        /\ row[e] = "succeeded" => wire[e] = "done"
        /\ row[e] = "failed" => wire[e] = "refused"

Waiting ==
    batch.at = "wait" => batch.i \in Entries /\ row[batch.i] = "pending" /\ batch.i \notin batch.failures

\* What was set aside has no row while it is still to be answered.
Aside ==
    batch.at \in Stages => \A e \in batch.failures :
        batch.at \notin {"entry", "wait"} \/ batch.i <= e => row[e] = "none"

\* Entries are answered in order, and answers agree with the rows.
Told ==
    \A e \in Entries :
        /\ answers[e] # "none" => batch.at \in {"off", "entry", "wait"} /\ (batch.at # "off" => e < batch.i)
        /\ answers[e] = "ok" => row[e] = "succeeded"
        /\ answers[e] = "failed" => row[e] \in {"none", "failed"}

\* An open row of an entry that was passed has stopped its account.
Stopped ==
    batch.at \in {"entry", "wait"} =>
        \A e \in Entries : e < batch.i /\ Open(row[e]) => AccountOf[e] \in batch.blocked

\* A preview shows the entries before batch.i; what is shown as done has a row.
Previewed ==
    batch.at \in Previews =>
        /\ Len(batch.prints) = batch.i - 1
        /\ \A e \in Entries : e < batch.i /\ batch.prints[e] = Replay => row[e] # "none"

\* A CLI batch that runs is bound by the approved preview.
Bound ==
    batch.at \in Stages \ Previews /\ batch.cli =>
        /\ batch.prints = batch.approved
        /\ \A e \in Entries : batch.prints[e] = Replay => row[e] # "none"

Begun ==
    batch.at \in Stages =>
        \A e \in Entries : begun[e] # Gone =>
            batch.at \in {"entry", "wait"} /\ (batch.cli => batch.approved[e] = begun[e])

IInv ==
    /\ Types /\ Recorded /\ Waiting /\ Aside
    /\ Told /\ Stopped /\ Previewed /\ Bound /\ Begun

----
(* Entries and forms of a submission *)

\* Entries are numbered from 1.
LEMMA EntryNumbers == \E n \in Nat : Entries = 1..n
BY BatchIsASequence DEF Entries

\* A stage other than "off" is that of a submission.
LEMMA UnderWay == Types /\ batch # Nobody => batch \in Submissions /\ batch.at \in Stages
BY DEF Types, Submissions

\* The stage "off" is the one without a submission.
LEMMA OffIsNobody == Nobody.at = "off" /\ "off" \notin Stages
BY DEF Nobody, Stages

----
(* Others *)

\* Mails are changed by other clients without regard to the batch.
LEMMA OtherClientKeeps ==
    ASSUME IInv, NEW e \in Entries, OtherClient(e)
    PROVE  IInv'
<1>1. mail' \in [Entries -> Nat]
  BY DEF OtherClient, IInv, Types, Gone
<1> QED BY <1>1 DEF OtherClient, IInv, Types, Recorded, Waiting, Aside, Told, Stopped, Previewed, Bound, Begun

\* A request that was sent has a row.
LEMMA ServeKeeps ==
    ASSUME IInv, NEW e \in Entries, Serve(e)
    PROVE  IInv'
<1>1. Types'
  BY DEF Serve, IInv, Types
<1>2. Recorded'
  BY DEF Serve, IInv, Types, Recorded
<1>3. Waiting' /\ Aside' /\ Told' /\ Stopped' /\ Previewed' /\ Bound' /\ Begun'
  BY DEF Serve, IInv, Waiting, Aside, Told, Stopped, Previewed, Bound, Begun
<1> QED BY <1>1, <1>2, <1>3 DEF IInv

----
(* A submission before its entries run *)

\* Rows of a former process are recovered; nothing is shown, answered or begun yet.
LEMMA SubmitKeeps ==
    ASSUME IInv, NEW cli \in BOOLEAN, NEW restarted \in BOOLEAN, Submit(cli, restarted)
    PROVE  IInv'
<1>a. /\ mail' = mail /\ wire' = wire /\ happened' = happened
      /\ answers' = [e \in Entries |-> "none"] /\ begun' = [e \in Entries |-> Gone]
  BY DEF Submit, world, None
<1>b. /\ batch' \in Submissions /\ batch'.at \in {"show", "validate"} /\ batch'.i = 1
      /\ batch'.prints = <<>> /\ batch'.approved = <<>> /\ batch'.failures = {}
      /\ batch'.at = "show" <=> batch'.cli
  BY DEF Submit, Submissions, Stages
<1>c. /\ row' \in [Entries -> Statuses]
      /\ \A e \in Entries : row'[e] = row[e] \/ (row[e] = "pending" /\ row'[e] = "unknown")
  <2>1. \A e \in Entries : (IF Open(row[e]) THEN "unknown" ELSE row[e]) \in Statuses
    BY DEF IInv, Types, Statuses
  <2> QED BY <2>1 DEF Submit, IInv, Types, Statuses, Open
<1>1. Types'
  BY <1>a, <1>b, <1>c DEF IInv, Types, Gone
<1>2. Recorded'
  BY <1>a, <1>c DEF IInv, Recorded
<1>3. Waiting' /\ Aside' /\ Stopped' /\ Bound'
  BY <1>b DEF Waiting, Aside, Stopped, Bound, Previews, Stages
<1>4. Told' /\ Begun'
  BY <1>a DEF Told, Begun
<1>5. Previewed'
  <2>1. Len(batch'.prints) = batch'.i - 1
    BY <1>b
  <2>2. \A e \in Entries : ~(e < batch'.i)
    BY <1>b, EntryNumbers
  <2> QED BY <2>1, <2>2 DEF Previewed
<1> QED BY <1>1, <1>2, <1>3, <1>4, <1>5 DEF IInv

\* Whatever is left is an ended submission.
LEMMA LeavingKeeps ==
    ASSUME IInv, batch' = Nobody, UNCHANGED <<world, row, runs, answers, begun>>
    PROVE  IInv'
<1>1. batch'.at = "off" /\ "off" \notin Stages
  BY OffIsNobody
<1>2. Types' /\ Recorded'
  BY DEF IInv, Types, Recorded, world
<1>3. Waiting' /\ Aside' /\ Stopped' /\ Previewed' /\ Bound' /\ Begun'
  BY <1>1 DEF Waiting, Aside, Stopped, Previewed, Bound, Begun, Previews, Stages
<1>4. Told'
  BY <1>1 DEF IInv, Told
<1> QED BY <1>2, <1>3, <1>4 DEF IInv

\* A preview has one line per entry that was looked at.
LEMMA LookKeeps ==
    ASSUME IInv, Look
    PROVE  IInv'
<1> DEFINE e == batch.i
           line == IF row[e] = "none" THEN mail[e] ELSE Replay
<1>a. /\ batch \in Submissions /\ batch.at \in Previews /\ batch.i \in Entries
      /\ UNCHANGED <<world, row, runs, answers, begun>>
  BY UnderWay, OffIsNobody DEF Look, IInv, Previews
<1>b. batch.prints \in Seq(Shown) /\ batch.i \in Nat \ {0} /\ Len(batch.prints) = batch.i - 1
  BY <1>a DEF Submissions, IInv, Previewed
<1>c. line \in Shown /\ (line = Replay => row[e] # "none")
  BY <1>a DEF IInv, Types, Shown, Replay
<1> HIDE DEF line
<1>d. /\ Append(batch.prints, line) \in Seq(Shown) /\ Len(Append(batch.prints, line)) = batch.i
      /\ Append(batch.prints, line)[e] = line
      /\ \A d \in 1..e - 1 : Append(batch.prints, line)[d] = batch.prints[d]
  BY <1>b, <1>c
<1>e. batch' = [batch EXCEPT !.i = @ + 1, !.prints = Append(@, line)]
  BY DEF Look, line
<1>f. /\ batch' \in Submissions /\ batch'.at = batch.at /\ batch'.i = batch.i + 1
      /\ batch'.prints = Append(batch.prints, line) /\ batch'.failures = batch.failures
  <2>1. batch.i + 1 \in Nat \ {0}
    BY <1>b
  <2> QED BY <1>a, <1>d, <1>e, <2>1 DEF Submissions
<1>1. Types' /\ Recorded'
  BY <1>a, <1>f DEF IInv, Types, Recorded, world
<1>2. Waiting' /\ Stopped' /\ Bound'
  BY <1>a, <1>f DEF Waiting, Stopped, Bound, Previews
<1>3. Aside'
  BY <1>a, <1>f, <1>b, EntryNumbers DEF IInv, Aside, Submissions, Previews, Stages
<1>4. Told' /\ Begun'
  BY <1>a, <1>f DEF IInv, Told, Begun, Previews, Stages
<1>5. Previewed'
  <2>1. Len(batch'.prints) = batch'.i - 1
    BY <1>b, <1>d, <1>f
  <2>2. ASSUME NEW d \in Entries, d < batch'.i, batch'.prints[d] = Replay
        PROVE  row'[d] # "none"
    <3>1. CASE d = e
      BY <1>a, <1>c, <1>d, <1>f, <2>2, <3>1
    <3>2. CASE d # e
      <4>1. d \in 1..e - 1
        BY <1>b, <1>f, <2>2, <3>2, EntryNumbers
      <4>2. batch.prints[d] = Replay /\ d < batch.i
        BY <1>b, <1>d, <1>f, <2>2, <4>1
      <4> QED BY <1>a, <4>2 DEF IInv, Previewed
    <3> QED BY <3>1, <3>2
  <2> QED BY <2>1, <2>2 DEF Previewed
<1> QED BY <1>1, <1>2, <1>3, <1>4, <1>5 DEF IInv

\* The second preview starts from nothing.
LEMMA ApproveKeeps ==
    ASSUME IInv, Approve
    PROVE  IInv'
<1>a. batch \in Submissions /\ batch.at = "show" /\ UNCHANGED <<world, row, runs, answers, begun>>
  BY UnderWay, OffIsNobody DEF Approve, IInv
<1>b. /\ batch' \in Submissions /\ batch'.at = "compare" /\ batch'.i = 1
      /\ batch'.prints = <<>> /\ batch'.failures = batch.failures
  <2>1. "compare" \in Stages /\ 1 \in Nat \ {0} /\ <<>> \in Seq(Shown) /\ batch.prints \in Seq(Shown)
    BY <1>a DEF Stages, Submissions
  <2>2. batch' = [batch EXCEPT !.at = "compare", !.i = 1, !.prints = <<>>, !.approved = batch.prints]
    BY <1>a DEF Approve, Stage, Submissions
  <2> QED BY <1>a, <2>1, <2>2 DEF Submissions
<1>1. Types' /\ Recorded'
  BY <1>a, <1>b DEF IInv, Types, Recorded, world
<1>2. Waiting' /\ Stopped' /\ Bound'
  BY <1>b DEF Waiting, Stopped, Bound, Previews
<1>3. Aside'
  BY <1>a, <1>b DEF IInv, Aside, Stages
<1>4. Told' /\ Begun'
  BY <1>a, <1>b DEF IInv, Told, Begun, Stages
<1>5. Previewed'
  <2>1. Len(batch'.prints) = batch'.i - 1
    BY <1>b
  <2>2. \A e \in Entries : ~(e < batch'.i)
    BY <1>b, EntryNumbers
  <2> QED BY <2>1, <2>2 DEF Previewed
<1> QED BY <1>1, <1>2, <1>3, <1>4, <1>5 DEF IInv

\* The batch that runs is the one that was approved.
LEMMA CommitKeeps ==
    ASSUME IInv, Commit
    PROVE  IInv'
<1>a. /\ batch \in Submissions /\ batch.at = "compare" /\ batch.i \notin Entries
      /\ batch.prints = batch.approved /\ UNCHANGED <<world, row, runs, answers, begun>>
  BY UnderWay, OffIsNobody DEF Commit, SamePreview, IInv
<1>b. /\ batch' \in Submissions /\ batch'.at = "validate" /\ batch'.i = 1
      /\ batch'.prints = batch.prints /\ batch'.approved = batch.approved /\ batch'.failures = batch.failures
  <2>1. "validate" \in Stages /\ 1 \in Nat \ {0}
    BY DEF Stages
  <2>2. batch' = [batch EXCEPT !.at = "validate", !.i = 1]
    BY DEF Commit
  <2> QED BY <1>a, <2>1, <2>2 DEF Submissions
<1>1. Types' /\ Recorded'
  BY <1>a, <1>b DEF IInv, Types, Recorded, world
<1>2. Waiting' /\ Stopped' /\ Previewed'
  BY <1>b DEF Waiting, Stopped, Previewed, Previews
<1>3. Aside'
  BY <1>a, <1>b DEF IInv, Aside, Stages
<1>4. Told' /\ Begun'
  BY <1>a, <1>b DEF IInv, Told, Begun, Stages
<1>5. Bound'
  <2>1. \A e \in Entries : e < batch.i
    BY <1>a, EntryNumbers DEF Submissions
  <2>2. \A e \in Entries : batch.prints[e] = Replay => row[e] # "none"
    BY <1>a, <2>1 DEF IInv, Previewed, Previews
  <2> QED BY <1>a, <1>b, <2>2 DEF Bound
<1> QED BY <1>1, <1>2, <1>3, <1>4, <1>5 DEF IInv

\* An entry that cannot be resolved has no row.
LEMMA ValidateKeeps ==
    ASSUME IInv, Validate
    PROVE  IInv'
<1>a. /\ batch \in Submissions /\ batch.at = "validate" /\ batch.i \in Entries
      /\ UNCHANGED <<world, row, runs, answers, begun>>
  BY UnderWay, OffIsNobody DEF Validate, IInv
<1>b. /\ batch' \in Submissions /\ batch'.at = "validate" /\ batch'.i = batch.i + 1
      /\ batch'.prints = batch.prints /\ batch'.approved = batch.approved /\ batch'.cli = batch.cli
      /\ \A e \in batch'.failures : e \in batch.failures \/ row[e] = "none"
  <2>1. batch.i + 1 \in Nat \ {0}
    BY <1>a DEF Submissions
  <2>2. CASE batch' = [batch EXCEPT !.i = @ + 1]
    BY <1>a, <2>1, <2>2 DEF Submissions
  <2>3. CASE /\ row[batch.i] = "none"
             /\ batch' = [[batch EXCEPT !.i = @ + 1] EXCEPT !.failures = @ \union {batch.i}]
    BY <1>a, <2>1, <2>3 DEF Submissions
  <2> QED BY <2>2, <2>3 DEF Validate
<1>1. Types' /\ Recorded'
  BY <1>a, <1>b DEF IInv, Types, Recorded, world
<1>2. Waiting' /\ Stopped' /\ Previewed'
  BY <1>b DEF Waiting, Stopped, Previewed, Previews
<1>3. Aside'
  BY <1>a, <1>b DEF IInv, Aside, Stages
<1>4. Told' /\ Begun'
  BY <1>a, <1>b DEF IInv, Told, Begun, Stages
<1>5. Bound'
  BY <1>a, <1>b DEF IInv, Bound
<1> QED BY <1>1, <1>2, <1>3, <1>4, <1>5 DEF IInv

\* Entries run from the first.
LEMMA RunEntriesKeeps ==
    ASSUME IInv, RunEntries
    PROVE  IInv'
<1>a. batch \in Submissions /\ batch.at = "validate" /\ UNCHANGED <<world, row, runs, answers, begun>>
  BY UnderWay, OffIsNobody DEF RunEntries, IInv
<1>b. /\ batch' \in Submissions /\ batch'.at = "entry" /\ batch'.i = 1 /\ batch'.cli = batch.cli
      /\ batch'.prints = batch.prints /\ batch'.approved = batch.approved /\ batch'.failures = batch.failures
  <2>1. "entry" \in Stages /\ 1 \in Nat \ {0}
    BY DEF Stages
  <2>2. batch' = [batch EXCEPT !.at = "entry", !.i = 1]
    BY DEF RunEntries
  <2> QED BY <1>a, <2>1, <2>2 DEF Submissions
<1>1. Types' /\ Recorded'
  BY <1>a, <1>b DEF IInv, Types, Recorded, world
<1>2. Waiting' /\ Previewed'
  BY <1>b DEF Waiting, Previewed, Previews
<1>3. Aside'
  BY <1>a, <1>b DEF IInv, Aside, Stages
<1>4. Told' /\ Begun'
  BY <1>a, <1>b DEF IInv, Told, Begun, Stages
<1>5. Bound'
  BY <1>a, <1>b DEF IInv, Bound, Stages, Previews
<1>6. Stopped'
  <2>1. \A e \in Entries : ~(e < batch'.i)
    BY <1>b, EntryNumbers
  <2> QED BY <2>1 DEF Stopped
<1> QED BY <1>1, <1>2, <1>3, <1>4, <1>5, <1>6 DEF IInv

----
(* The entries of a submission *)

\* Whatever is answered for an entry, if the row agrees with Exchange and the
\* answer with the row, and if an open row stops the account.
LEMMA AnswerKeeps ==
    ASSUME IInv, batch.at \in {"entry", "wait"}, batch.i \in Entries,
           NEW answer \in {"ok", "failed", "unknown", "skipped"}, Answer(answer),
           world' = world, begun' = begun, row' \in [Entries -> Statuses],
           \A e \in Entries \ {batch.i} : row'[e] = row[e],
           row'[batch.i] = "none" <=> row[batch.i] = "none",
           row'[batch.i] = "succeeded" => wire[batch.i] = "done",
           row'[batch.i] = "failed" => wire[batch.i] = "refused",
           Open(row'[batch.i]) => answer = "unknown" \/ Blocked,
           answer = "ok" => row'[batch.i] = "succeeded",
           answer = "failed" => row'[batch.i] \in {"none", "failed"}
    PROVE  IInv'
<1> DEFINE i == batch.i
           B == IF answer = "unknown" THEN batch.blocked \union {AccountOf[i]} ELSE batch.blocked
<1>a. batch \in Submissions /\ "entry" \in Stages /\ batch.i \in Nat
  BY UnderWay, OffIsNobody DEF IInv, Stages, Submissions
<1>b. B \in SUBSET Accounts /\ batch.blocked \subseteq B /\ (answer = "unknown" => AccountOf[i] \in B)
  BY <1>a DEF Submissions, Accounts
<1>c. batch' = [batch EXCEPT !.at = "entry", !.i = @ + 1, !.blocked = B]
  BY <1>a DEF Answer, StopsAccount, Submissions
<1> HIDE DEF B
<1>d. /\ batch' \in Submissions /\ batch'.at = "entry" /\ batch'.i = i + 1 /\ batch'.blocked = B
      /\ batch'.cli = batch.cli /\ batch'.prints = batch.prints /\ batch'.approved = batch.approved
      /\ batch'.failures = batch.failures
  <2>1. batch.i + 1 \in Nat \ {0}
    BY <1>a
  <2> QED BY <1>a, <1>b, <1>c, <2>1 DEF Submissions
<1>e. /\ answers' \in [Entries -> {"none", "ok", "failed", "unknown", "skipped"}]
      /\ answers'[i] = answer /\ \A e \in Entries \ {i} : answers'[e] = answers[e]
  BY DEF Answer, IInv, Types
<1>f. Entries \subseteq Nat /\ batch.failures \subseteq Entries
  BY <1>a, EntryNumbers DEF Submissions
<1>1. Types'
  BY <1>d, <1>e DEF IInv, Types, world
<1>2. Recorded'
  BY DEF IInv, Recorded, world
<1>3. Waiting' /\ Previewed'
  BY <1>d DEF Waiting, Previewed, Previews
<1>4. Aside'
  <2>1. ASSUME NEW e \in batch.failures, i + 1 <= e
        PROVE  row'[e] = "none"
    <3>1. e # i /\ i <= e /\ e \in Entries
      BY <1>a, <1>f, <2>1
    <3>2. row[e] = "none"
      BY <1>a, <3>1 DEF IInv, Aside, Stages
    <3> QED BY <3>1, <3>2
  <2> QED BY <1>d, <2>1 DEF Aside
<1>5. Told'
  <2>1. ASSUME NEW e \in Entries
        PROVE  /\ answers'[e] # "none" => e < i + 1
               /\ answers'[e] = "ok" => row'[e] = "succeeded"
               /\ answers'[e] = "failed" => row'[e] \in {"none", "failed"}
    <3>1. CASE e = i
      BY <1>a, <1>e, <3>1
    <3>2. CASE e # i
      <4>1. answers'[e] = answers[e] /\ row'[e] = row[e]
        BY <1>e, <3>2
      <4>2. answers[e] # "none" => e < i
        BY DEF IInv, Told
      <4> QED BY <1>a, <1>f, <4>1, <4>2 DEF IInv, Told
    <3> QED BY <3>1, <3>2
  <2> QED BY <1>d, <2>1 DEF Told
<1>6. Stopped'
  <2>1. ASSUME NEW e \in Entries, e < i + 1, Open(row'[e])
        PROVE  AccountOf[e] \in B
    <3>1. CASE e = i
      BY <1>b, <2>1, <3>1 DEF Blocked
    <3>2. CASE e # i
      <4>1. e < i /\ row'[e] = row[e]
        BY <1>a, <1>f, <2>1, <3>2
      <4>2. AccountOf[e] \in batch.blocked
        BY <2>1, <4>1 DEF IInv, Stopped
      <4> QED BY <1>b, <4>2
    <3> QED BY <3>1, <3>2
  <2> QED BY <1>d, <2>1 DEF Stopped, Open
<1>7. Bound'
  <2>1. batch.at \in Stages \ Previews
    BY DEF Stages, Previews
  <2>2. \A e \in Entries : row'[e] = "none" <=> row[e] = "none"
    OBVIOUS
  <2> QED BY <1>d, <2>1, <2>2 DEF IInv, Bound
<1>8. Begun'
  BY <1>d DEF IInv, Begun, Stages
<1> QED BY <1>1, <1>2, <1>3, <1>4, <1>5, <1>6, <1>7, <1>8 DEF IInv

\* Entries that are passed over leave their rows alone.
LEMMA PassKeeps ==
    ASSUME IInv, Skip \/ SetAside \/ ReplayEntry \/ Refuse
    PROVE  IInv'
<1>a. /\ batch.at = "entry" /\ batch.i \in Entries
      /\ world' = world /\ begun' = begun /\ row' = row
  BY DEF Skip, SetAside, ReplayEntry, Refuse, AtEntry
<1>b. /\ row \in [Entries -> Statuses]
      /\ row[batch.i] = "succeeded" => wire[batch.i] = "done"
      /\ row[batch.i] = "failed" => wire[batch.i] = "refused"
  BY <1>a DEF IInv, Types, Recorded
<1>1. CASE Skip
  BY <1>a, <1>b, <1>1, AnswerKeeps DEF Skip
<1>2. CASE SetAside
  <2>1. row[batch.i] = "none"
    <3>1. batch \in Submissions /\ batch.i <= batch.i
      BY <1>a, UnderWay, OffIsNobody DEF IInv, Submissions
    <3> QED BY <1>a, <1>2, <3>1 DEF SetAside, IInv, Aside, Stages
  <2> QED BY <1>a, <1>b, <1>2, <2>1, AnswerKeeps DEF SetAside, Open
<1>3. CASE ReplayEntry
  <2>1. row[batch.i] \in {"pending", "unknown", "succeeded", "failed"}
    BY <1>a, <1>b, <1>3 DEF ReplayEntry, Statuses
  <2>2. /\ FromRow(row[batch.i]) \in {"ok", "failed", "unknown", "skipped"}
        /\ Open(row[batch.i]) => FromRow(row[batch.i]) = "unknown"
        /\ FromRow(row[batch.i]) = "ok" => row[batch.i] = "succeeded"
        /\ FromRow(row[batch.i]) = "failed" => row[batch.i] = "failed"
    BY <2>1 DEF FromRow, Open
  <2>3. Answer(FromRow(row[batch.i]))
    BY <1>3 DEF ReplayEntry
  <2> QED BY <1>a, <1>b, <2>2, <2>3, AnswerKeeps
<1>4. CASE Refuse
  BY <1>a, <1>b, <1>4, AnswerKeeps DEF Refuse, Open
<1> QED BY <1>1, <1>2, <1>3, <1>4

\* The request of an entry leaves after its row is written, with the mail as approved.
LEMMA BeginKeeps ==
    ASSUME IInv, Begin
    PROVE  IInv'
<1> DEFINE i == batch.i
<1>a. /\ batch \in Submissions /\ batch.at = "entry" /\ i \in Entries /\ i \in Nat /\ i \notin batch.failures
      /\ row[i] = "none" /\ row' = [row EXCEPT ![i] = "pending"] /\ wire' = [wire EXCEPT ![i] = "sent"]
      /\ begun' = [begun EXCEPT ![i] = mail[i]]
      /\ mail' = mail /\ happened' = happened /\ answers' = answers
      /\ batch.cli /\ batch.prints[i] # Replay => batch.prints[i] = mail[i]
  BY UnderWay, OffIsNobody DEF Begin, AtEntry, IInv, Submissions
<1>b. /\ batch' \in Submissions /\ batch'.at = "wait" /\ batch'.i = i /\ batch'.cli = batch.cli
      /\ batch'.blocked = batch.blocked /\ batch'.failures = batch.failures
      /\ batch'.prints = batch.prints /\ batch'.approved = batch.approved
  <2>1. "wait" \in Stages
    BY DEF Stages
  <2>2. batch' = [batch EXCEPT !.at = "wait"]
    BY DEF Begin
  <2> QED BY <1>a, <2>1, <2>2 DEF Submissions
<1>c. /\ row' \in [Entries -> Statuses] /\ row'[i] = "pending"
      /\ \A e \in Entries \ {i} : row'[e] = row[e]
  BY <1>a DEF IInv, Types, Statuses
<1>d. /\ wire' \in [Entries -> {"none", "sent", "done", "refused"}] /\ wire'[i] = "sent"
      /\ \A e \in Entries \ {i} : wire'[e] = wire[e]
  BY <1>a DEF IInv, Types
<1>e. /\ begun' \in [Entries -> Nat] /\ begun'[i] = mail[i]
      /\ \A e \in Entries \ {i} : begun'[e] = begun[e]
  BY <1>a DEF IInv, Types
<1>f. Entries \subseteq Nat
  BY EntryNumbers
<1>1. Types'
  BY <1>a, <1>b, <1>c, <1>d, <1>e DEF IInv, Types
<1>2. Recorded'
  BY <1>a, <1>c, <1>d DEF IInv, Recorded
<1>3. Waiting' /\ Previewed'
  BY <1>a, <1>b, <1>c DEF Waiting, Previewed, Previews
<1>4. Aside'
  <2>1. \A e \in batch.failures : e # i /\ e \in Entries
    BY <1>a DEF Submissions
  <2> QED BY <1>a, <1>b, <1>c, <2>1 DEF IInv, Aside, Stages
<1>5. Told'
  <2>1. answers[i] = "none"
    BY <1>a DEF IInv, Told
  <2> QED BY <1>a, <1>b, <1>c, <2>1 DEF IInv, Told
<1>6. Stopped'
  BY <1>a, <1>b, <1>c, <1>f DEF IInv, Stopped, Open
<1>7. Bound'
  BY <1>a, <1>b, <1>c DEF IInv, Bound, Stages, Previews
<1>8. Begun'
  <2>1. batch.cli => batch.approved[i] = mail[i]
    BY <1>a DEF IInv, Bound, Stages, Previews
  <2> QED BY <1>a, <1>b, <1>e, <2>1 DEF IInv, Begun, Stages
<1> QED BY <1>1, <1>2, <1>3, <1>4, <1>5, <1>6, <1>7, <1>8 DEF IInv

\* A verdict is recorded and told, or stays open and stops the account.
LEMMA FinishKeeps ==
    ASSUME IInv, NEW status \in {"succeeded", "failed", "unknown"}, Finish(status),
           batch.at = "wait" /\ status = "succeeded" => wire[batch.i] = "done",
           batch.at = "wait" /\ status = "failed" => wire[batch.i] = "refused"
    PROVE  IInv'
<1> DEFINE i == batch.i
<1>a. /\ batch.at = "wait" /\ i \in Entries /\ row[i] = "pending"
      /\ world' = world /\ begun' = begun /\ row \in [Entries -> Statuses]
  BY DEF Finish, IInv, Waiting, Types
<1>1. CASE UNCHANGED row /\ Answer("unknown")
  BY <1>a, <1>1, AnswerKeeps
<1>2. CASE row' = [row EXCEPT ![i] = status] /\ Answer(FromRow(status))
  <2>1. /\ row' \in [Entries -> Statuses] /\ row'[i] = status
        /\ \A e \in Entries \ {i} : row'[e] = row[e]
    BY <1>a, <1>2 DEF Statuses
  <2>2. /\ FromRow(status) \in {"ok", "failed", "unknown", "skipped"}
        /\ Open(status) => FromRow(status) = "unknown"
        /\ FromRow(status) = "ok" => status = "succeeded"
        /\ FromRow(status) = "failed" => status = "failed"
    BY DEF FromRow, Open
  <2> QED BY <1>a, <1>2, <2>1, <2>2, AnswerKeeps
<1>3. CASE row' = [row EXCEPT ![i] = status] /\ Answer("unknown")
  <2>1. /\ row' \in [Entries -> Statuses] /\ row'[i] = status
        /\ \A e \in Entries \ {i} : row'[e] = row[e]
    BY <1>a, <1>3 DEF Statuses
  <2> QED BY <1>a, <1>3, <2>1, AnswerKeeps
<1> QED BY <1>1, <1>2, <1>3 DEF Finish

----
(* The theorems *)

\* No entry has a row, and nothing was sent.
LEMMA InitIInv == Init => IInv
<1> SUFFICES ASSUME Init PROVE IInv
  OBVIOUS
<1>1. batch.at = "off" /\ "off" \notin Stages
  BY OffIsNobody DEF Init
<1>2. Types /\ Recorded
  BY DEF Init, None, Types, Recorded, Statuses, Gone
<1>3. Waiting /\ Aside /\ Stopped /\ Previewed /\ Bound /\ Begun
  BY <1>1 DEF Waiting, Aside, Stopped, Previewed, Bound, Begun, Previews, Stages
<1>4. Told
  BY DEF Init, None, Told
<1> QED BY <1>2, <1>3, <1>4 DEF IInv

\* Every step of the batch, of Exchange and of other clients keeps the invariant.
LEMMA StepIInv == IInv /\ [Next]_vars => IInv'
<1> SUFFICES ASSUME IInv, [Next]_vars PROVE IInv'
  OBVIOUS
<1>1. ASSUME NEW cli \in BOOLEAN, NEW restarted \in BOOLEAN, Submit(cli, restarted) PROVE IInv'
  BY <1>1, SubmitKeeps
<1>2. CASE Stop \/ Return
  BY <1>2, LeavingKeeps DEF Stop, Return
<1>3. CASE Look \/ Approve \/ Commit \/ Validate \/ RunEntries
  BY <1>3, LookKeeps, ApproveKeeps, CommitKeeps, ValidateKeeps, RunEntriesKeeps
<1>4. CASE Skip \/ SetAside \/ ReplayEntry \/ Refuse
  BY <1>4, PassKeeps
<1>5. CASE Begin
  BY <1>5, BeginKeeps
<1>6. CASE Receive
  BY <1>6, FinishKeeps DEF Receive
<1>7. CASE TimeOut
  BY <1>7, FinishKeeps DEF TimeOut
<1>8. ASSUME NEW e \in Entries, OtherClient(e) \/ Serve(e) PROVE IInv'
  BY <1>8, OtherClientKeeps, ServeKeeps
<1>9. CASE UNCHANGED vars
  BY <1>9 DEF vars, world, IInv, Types, Recorded, Waiting, Aside, Told, Stopped, Previewed, Bound, Begun
<1> QED BY <1>1, <1>2, <1>3, <1>4, <1>5, <1>6, <1>7, <1>8, <1>9 DEF Next

\* In every reachable state rows agree with Exchange, answers with rows, and a
\* running batch with the preview that was approved.
THEOREM Invariance == Spec => []IInv
BY InitIInv, StepIInv, PTL DEF Spec

\* mail_batch.rs and mail_mutation.rs: over all submissions an entry happens at
\* most once, and the answers of a submission say what happened.
THEOREM Answered == Spec => []EntriesAreTold
<1>1. IInv => EntriesAreTold
  BY DEF IInv, Recorded, Told, EntriesAreTold
<1> QED BY <1>1, Invariance, PTL

\* cli/operations/mail_mutations.rs: what a CLI batch sends is what was approved.
THEOREM SentAsApproved == Spec => []WrittenAsApproved
<1>1. IInv => WrittenAsApproved
  BY UnderWay DEF IInv, Begun, WrittenAsApproved
<1> QED BY <1>1, Invariance, PTL

\* mail_batch.rs: an entry is sent only if no earlier entry of its account has an
\* open outcome, from this submission or a former one.
THEOREM UnknownStopsAccount == Spec => NothingAfterUnknown
<1> DEFINE Starts(e) == row[e] = "none" /\ row'[e] = "pending"
           Clear(e) == \A d \in Entries : d < e /\ AccountOf[d] = AccountOf[e] => ~Open(row[d])
<1>1. ASSUME IInv, [Next]_vars, NEW e \in Entries, Starts(e)
      PROVE  Clear(e)
  <2>1. CASE Begin
    <3>1. /\ batch \in Submissions /\ batch.at = "entry" /\ batch.i \in Entries
          /\ AccountOf[batch.i] \notin batch.blocked /\ row' = [row EXCEPT ![batch.i] = "pending"]
      BY <1>1, <2>1, UnderWay, OffIsNobody DEF Begin, AtEntry, Blocked, IInv
    <3>2. e = batch.i
      BY <1>1, <3>1 DEF IInv, Types
    <3> QED BY <1>1, <3>1, <3>2 DEF IInv, Stopped
  <2>2. CASE \E status \in {"succeeded", "failed", "unknown"} : Finish(status)
    BY <1>1, <2>2 DEF Finish, IInv, Types
  <2>3. CASE \E cli, restarted \in BOOLEAN : Submit(cli, restarted)
    BY <1>1, <2>3 DEF Submit, Open
  <2>4. CASE UNCHANGED row
    BY <1>1, <2>4
  <2>5. UNCHANGED vars \/ (\E d \in Entries : OtherClient(d) \/ Serve(d)) => UNCHANGED row
    BY DEF vars, OtherClient, Serve
  <2>6. Stop \/ Return \/ Look \/ Approve \/ Commit \/ Validate \/ RunEntries => UNCHANGED row
    BY DEF Stop, Return, Look, Approve, Commit, Validate, RunEntries
  <2>7. Skip \/ SetAside \/ ReplayEntry \/ Refuse => UNCHANGED row
    BY DEF Skip, SetAside, ReplayEntry, Refuse
  <2>8. Receive \/ TimeOut => \E status \in {"succeeded", "failed", "unknown"} : Finish(status)
    BY DEF Receive, TimeOut
  <2> QED BY <1>1, <2>1, <2>2, <2>3, <2>4, <2>5, <2>6, <2>7, <2>8 DEF Next
<1>2. IInv /\ [Next]_vars => [\A e \in Entries : Starts(e) => Clear(e)]_vars
  BY <1>1
<1> QED BY <1>2, Invariance, PTL DEF Spec, NothingAfterUnknown
====
