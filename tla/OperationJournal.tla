---- MODULE OperationJournal ----
(***************************************************************************)
(* The SQLite journal of write operations (crates/app/src/journal).        *)
(*                                                                         *)
(* A row is keyed by the caller's operation UUID.  Each definition below   *)
(* that primes `rows' is one SQL statement or one IMMEDIATE transaction,   *)
(* so it is one atomic step for every process that shares the database.    *)
(*                                                                         *)
(* Abstractions: a payload stands for the pair (kind, payload HMAC), which *)
(* the code always compares together; the completed_steps bit mask is a    *)
(* set of steps; timestamps are left out, so the caller of Prune names the *)
(* rows that are older than 90 days; ClientIds and result locators do not  *)
(* influence any status.                                                   *)
(***************************************************************************)
EXTENDS FiniteSets

CONSTANTS
    Ops,        \* operation UUIDs
    Accounts,   \* account identifiers
    Payloads,   \* (kind, payload HMAC) pairs
    Steps,      \* bits of completed_steps
    None        \* no account, no payload, no holder

ASSUME NoneIsNoValue == None \notin Accounts \cup Payloads

VARIABLES
    rows,       \* the operations table
    forgotten   \* history: operations whose row was deleted at least once

journalVars == <<rows, forgotten>>

Statuses == {"pending", "succeeded", "failed", "partial", "unknown"}

Row == [account : Accounts \cup {None},
        payload : Payloads \cup {None},
        status  : Statuses \cup {"absent"},
        steps   : SUBSET Steps]

NoRow == [account |-> None, payload |-> None, status |-> "absent", steps |-> {}]

Present(o) == rows[o].status # "absent"

RowsOf(a) == {o \in Ops : Present(o) /\ rows[o].account = a}

PendingAccounts ==
    {a \in Accounts : \E o \in RowsOf(a) : rows[o].status = "pending"}

Expirable == {o \in Ops : rows[o].status \in {"succeeded", "failed"}}

JournalInit ==
    /\ rows = [o \in Ops |-> NoRow]
    /\ forgotten = {}

\* An existing row answers only the input it was begun with.
Matches(o, a, f) == rows[o].account = a /\ rows[o].payload = f

\* Mutant: INSERT OR REPLACE.
InsertOrReplace(o, a, f) ==
    /\ rows' = [rows EXCEPT ![o] = [account |-> a, payload |-> f,
                                    status |-> "pending", steps |-> {}]]
    /\ UNCHANGED forgotten

\* begin, when no row exists: the pending row is durable before anything is sent.
Insert(o, a, f) ==
    /\ ~Present(o)
    /\ rows' = [rows EXCEPT ![o] = [account |-> a, payload |-> f,
                                    status |-> "pending", steps |-> {}]]
    /\ UNCHANGED forgotten

\* checkpoint: UPDATE ... WHERE status = 'pending', and one row must change.
Checkpoint(o, done) ==
    /\ rows[o].status = "pending"
    /\ rows' = [rows EXCEPT ![o] = [@ EXCEPT !.steps = done]]
    /\ UNCHANGED forgotten

\* finish: UPDATE ... WHERE operation_id = ?, whatever the row's status or
\* account; only the number of changed rows is verified.
Conclude(o, status, done) ==
    /\ Present(o)
    /\ rows' = [rows EXCEPT ![o] = [@ EXCEPT !.status = status, !.steps = done]]
    /\ UNCHANGED forgotten

\* Mutant: the UPDATE without its "AND status = 'pending'".
RecoverEveryRow(a) ==
    /\ rows' = [o \in Ops |->
                  IF rows[o].account = a
                  THEN [rows[o] EXCEPT !.status = "unknown"] ELSE rows[o]]
    /\ UNCHANGED forgotten

\* recover_account: every pending row of the account becomes unknown.
RecoverAccount(a) ==
    /\ rows' = [o \in Ops |->
                  IF rows[o].account = a /\ rows[o].status = "pending"
                  THEN [rows[o] EXCEPT !.status = "unknown"] ELSE rows[o]]
    /\ UNCHANGED forgotten

Delete(S) ==
    /\ rows' = [o \in Ops |-> IF o \in S THEN NoRow ELSE rows[o]]
    /\ forgotten' = forgotten \cup S

\* prune: succeeded and failed rows that were last updated over 90 days ago.
Prune(expired) == expired \subseteq Expirable /\ Delete(expired)

\* purge_account: every row of a remotely wiped account, pending ones included.
PurgeAccount(a) == Delete(RowsOf(a))

JournalTypeOK ==
    /\ rows \in [Ops -> Row]
    /\ forgotten \subseteq Ops
====
