---- MODULE WriteRuntime ----
(***************************************************************************)
(* What every write tool of the runtime does before its first Exchange     *)
(* request (crates/app/src/runtime, write_lock.rs, mcp/mod.rs): processes  *)
(* that share the journal start, recover and crash; calls look the UUID    *)
(* up, queue for the account's advisory file lock, check the account again *)
(* under it, prepare, and persist a pending row.                           *)
(*                                                                         *)
(* The module has no next-state relation: MailWrites and CalendarWrites    *)
(* extend it with what follows the pending row.  They keep their own       *)
(* phases in pc and leave by End.                                          *)
(*                                                                         *)
(* Abstractions: a call is one invocation of a write tool and is used once *)
(* (Calls bounds the model); the account is a function of the payload,     *)
(* because the payload holds the account or a reference that names it;     *)
(* reads made while preparing are one step that succeeds or fails.         *)
(***************************************************************************)
EXTENDS OperationJournal

CONSTANTS
    Procs,          \* MCP servers and CLI invocations on one machine
    Calls,          \* invocations of a write tool
    AccountOf,      \* the account a payload addresses
    Wipeable,       \* accounts Exchange may order to be wiped
    ToldPartial     \* what a replay tells of a partial row

ASSUME AccountOfPayload == AccountOf \in [Payloads -> Accounts]
ASSUME WipeableAccounts == Wipeable \subseteq Accounts
ASSUME PartialIsToldApart == ToldPartial \in {"failed", "partial"}
ASSUME Holders == Procs \cap Calls = {} /\ None \notin Procs \cup Calls \cup Ops

VARIABLES
    phase,          \* a process: down, opened, recovering or up
    unrecovered,    \* accounts a starting process has still to recover
    disabled,       \* accounts a process has seen wiped
    lock,           \* holder of each account's write-lock file
    pc,             \* where a call is
    host, op, input,\* the process, UUID and payload of a call
    answer          \* what the caller was told

runtimeVars == <<phase, unrecovered, disabled, lock, pc, host, op, input, answer>>
callVars == <<host, op, input>>
procVars == <<phase, unrecovered, disabled>>

Answers == {"none", "succeeded", "failed", "partial", "unknown", "conflict", "error"}
Early   == {"new", "queued", "locked", "preparing"}
Ended   == {"finished", "gone"}

InFlight(c) == pc[c] \notin Ended \cup {"new"}
Account(c)  == AccountOf[input[c]]

RuntimeInit ==
    /\ JournalInit
    /\ phase = [p \in Procs |-> "down"]
    /\ unrecovered = [p \in Procs |-> {}]
    /\ disabled = [p \in Procs |-> {}]
    /\ lock = [a \in Accounts |-> None]
    /\ pc = [c \in Calls |-> "new"]
    /\ host = [c \in Calls |-> None]
    /\ op = [c \in Calls |-> None]
    /\ input = [c \in Calls |-> None]
    /\ answer = [c \in Calls |-> "none"]

\* Dropping a guard closes its file, which frees the lock of that holder alone.
Release(holders) ==
    lock' = [a \in Accounts |-> IF lock[a] \in holders THEN None ELSE lock[a]]

End(c, told) ==
    /\ pc' = [pc EXCEPT ![c] = "finished"]
    /\ answer' = [answer EXCEPT ![c] = told]
    /\ Release({c})

\* Mutant: a row that was never closed is taken for one that failed.
ExistingAnswerHopeful(status) ==
    IF status = "succeeded" THEN "succeeded" ELSE "failed"

\* existing_result of mail, existing of Calendar writes: what a row found under
\* the same UUID tells the caller.
ExistingAnswer(status) ==
    CASE status = "succeeded" -> "succeeded"
      [] status = "failed" -> "failed"
      [] status = "partial" -> ToldPartial
      [] OTHER -> "unknown"

\* Mutant: the stored status is returned as it is.
ReplayStoredStatus(o, f) ==
    IF rows[o].payload = f THEN rows[o].status ELSE "conflict"

ReplayAnswer(o, f) ==
    IF rows[o].payload = f THEN ExistingAnswer(rows[o].status) ELSE "conflict"

----
(* Process start, recovery and death *)

\* Runtime::production opens the journal and prunes it.
Open(p) ==
    /\ phase[p] = "down"
    /\ phase' = [phase EXCEPT ![p] = "opened"]
    /\ disabled' = [disabled EXCEPT ![p] = {}]
    /\ \E expired \in SUBSET Expirable : Prune(expired)
    /\ UNCHANGED <<unrecovered, lock, pc, callVars, answer>>

\* with_dependencies reads the accounts that have pending rows, once.
ListPending(p) ==
    /\ phase[p] = "opened"
    /\ phase' = [phase EXCEPT ![p] = "recovering"]
    /\ unrecovered' = [unrecovered EXCEPT ![p] = PendingAccounts]
    /\ UNCHANGED <<journalVars, disabled, lock, pc, callVars, answer>>

\* Mutant: recovery goes ahead although the lock is held.
RecoverBusyLock(p, a) ==
    /\ a \in unrecovered[p]
    /\ lock' = [lock EXCEPT ![a] = p]
    /\ UNCHANGED <<journalVars, procVars, pc, callVars, answer>>

RecoverLock(p, a) ==
    /\ a \in unrecovered[p]
    /\ lock[a] = None
    /\ lock' = [lock EXCEPT ![a] = p]
    /\ UNCHANGED <<journalVars, procVars, pc, callVars, answer>>

\* Mutant: recovery does not take the lock at all.
RecoverUnlockedRows(p, a) ==
    /\ a \in unrecovered[p]
    /\ RecoverAccount(a)
    /\ unrecovered' = [unrecovered EXCEPT ![p] = @ \ {a}]
    /\ UNCHANGED <<phase, disabled, lock, pc, callVars, answer>>

RecoverRows(p, a) ==
    /\ lock[a] = p
    /\ RecoverAccount(a)
    /\ Release({p})
    /\ unrecovered' = [unrecovered EXCEPT ![p] = @ \ {a}]
    /\ UNCHANGED <<phase, disabled, pc, callVars, answer>>

\* Mutant: recovery waits until the lock is free.
RecoverWaits(p, a) == FALSE

\* try_acquire found the lock held: the owner may still be running.
RecoverSkip(p, a) ==
    /\ a \in unrecovered[p]
    /\ lock[a] \notin {None, p}
    /\ unrecovered' = [unrecovered EXCEPT ![p] = @ \ {a}]
    /\ UNCHANGED <<journalVars, phase, disabled, lock, pc, callVars, answer>>

Serve(p) ==
    /\ phase[p] = "recovering"
    /\ unrecovered[p] = {}
    /\ phase' = [phase EXCEPT ![p] = "up"]
    /\ UNCHANGED <<journalVars, unrecovered, disabled, lock, pc, callVars, answer>>

\* A process dies: its calls vanish with their answers and the operating
\* system drops its file locks.  Requests already sent are not recalled.
Crash(p) ==
    /\ phase[p] # "down"
    /\ phase' = [phase EXCEPT ![p] = "down"]
    /\ unrecovered' = [unrecovered EXCEPT ![p] = {}]
    /\ LET dead == {c \in Calls : InFlight(c) /\ host[c] = p}
       IN  /\ pc' = [c \in Calls |-> IF c \in dead THEN "gone" ELSE pc[c]]
           /\ Release({p} \cup dead)
    /\ UNCHANGED <<journalVars, disabled, callVars, answer>>

----
(* A call up to its pending row *)

\* replay_write, then the first require_write.
Issue(c, p, o, f) ==
    /\ pc[c] = "new"
    /\ phase[p] = "up"
    /\ host' = [host EXCEPT ![c] = p]
    /\ op' = [op EXCEPT ![c] = o]
    /\ input' = [input EXCEPT ![c] = f]
    /\ \/ /\ Present(o)
          /\ End(c, ReplayAnswer(o, f))
       \/ /\ ~Present(o)
          /\ AccountOf[f] \in disabled[p]
          /\ End(c, "error")
       \/ /\ ~Present(o)
          /\ AccountOf[f] \notin disabled[p]
          /\ pc' = [pc EXCEPT ![c] = "queued"]
          /\ UNCHANGED <<lock, answer>>
    /\ UNCHANGED <<journalVars, procVars>>

Acquire(c) ==
    /\ pc[c] = "queued"
    /\ lock[Account(c)] = None
    /\ lock' = [lock EXCEPT ![Account(c)] = c]
    /\ pc' = [pc EXCEPT ![c] = "locked"]
    /\ UNCHANGED <<journalVars, procVars, callVars, answer>>

\* Mutant: the wait for the lock has no timeout.
GiveUpNever(c) == FALSE

\* The lock stayed taken for 30 seconds.
GiveUp(c) ==
    /\ pc[c] = "queued"
    /\ lock[Account(c)] # None
    /\ End(c, "error")
    /\ UNCHANGED <<journalVars, procVars, callVars>>

\* The second require_write: the account may have been wiped in the queue.
Recheck(c) ==
    /\ pc[c] = "locked"
    /\ IF Account(c) \in disabled[host[c]]
       THEN End(c, "error")
       ELSE /\ pc' = [pc EXCEPT ![c] = "preparing"]
            /\ UNCHANGED <<lock, answer>>
    /\ UNCHANGED <<journalVars, procVars, callVars>>

\* The source cannot be read, is not ready, or no longer matches the preview.
PrepareFails(c) ==
    /\ pc[c] = "preparing"
    /\ End(c, "error")
    /\ UNCHANGED <<journalVars, procVars, callVars>>

\* begin_write.  A replay under the lock before it has the same effect.
Begin(c) ==
    /\ pc[c] = "preparing"
    /\ \/ /\ Insert(op[c], Account(c), input[c])
          /\ pc' = [pc EXCEPT ![c] = "begun"]
          /\ UNCHANGED <<lock, answer>>
       \/ /\ Present(op[c])
          /\ End(c, IF Matches(op[c], Account(c), input[c])
                    THEN ReplayAnswer(op[c], input[c]) ELSE "conflict")
          /\ UNCHANGED journalVars
    /\ UNCHANGED <<procVars, callVars>>

\* The MCP client cancels a call: the future is dropped at whichever await it
\* stands, and its lock with it.
Cancel(c, awaiting) ==
    /\ pc[c] \in awaiting
    /\ pc' = [pc EXCEPT ![c] = "gone"]
    /\ Release({c})
    /\ UNCHANGED <<journalVars, procVars, callVars, answer>>

----
(* Remote wipe *)

\* purge_account: the process refuses the account from now on, and the
\* journal forgets it, unless the database cannot be written.  The caller
\* need not hold the write lock.
Wipe(p, a) ==
    /\ disabled' = [disabled EXCEPT ![p] = @ \cup {a}]
    /\ PurgeAccount(a) \/ UNCHANGED journalVars

\* A read tool, or a read made while a write prepares, is told to wipe.
ReaderWipe(p, a) ==
    /\ phase[p] = "up"
    /\ a \in Wipeable \ disabled[p]
    /\ Wipe(p, a)
    /\ UNCHANGED <<phase, unrecovered, lock, pc, callVars, answer>>

PrepareWiped(c) ==
    /\ pc[c] = "preparing"
    /\ Account(c) \in Wipeable
    /\ Wipe(host[c], Account(c))
    /\ End(c, "error")
    /\ UNCHANGED <<phase, unrecovered, callVars>>

----
RuntimeStep ==
    \/ \E p \in Procs : Open(p) \/ ListPending(p) \/ Serve(p) \/ Crash(p)
    \/ \E p \in Procs, a \in Accounts :
          RecoverLock(p, a) \/ RecoverRows(p, a) \/ RecoverSkip(p, a) \/ ReaderWipe(p, a)
    \/ \E c \in Calls, p \in Procs, o \in Ops, f \in Payloads : Issue(c, p, o, f)
    \/ \E c \in Calls :
          \/ Acquire(c) \/ GiveUp(c) \/ Recheck(c) \/ PrepareFails(c)
          \/ Begin(c) \/ PrepareWiped(c) \/ Cancel(c, {"queued", "preparing"})

RuntimeTypeOK ==
    /\ JournalTypeOK
    /\ phase \in [Procs -> {"down", "opened", "recovering", "up"}]
    /\ unrecovered \in [Procs -> SUBSET Accounts]
    /\ disabled \in [Procs -> SUBSET Accounts]
    /\ lock \in [Accounts -> Procs \cup Calls \cup {None}]
    /\ host \in [Calls -> Procs \cup {None}]
    /\ op \in [Calls -> Ops \cup {None}]
    /\ input \in [Calls -> Payloads \cup {None}]
    /\ answer \in [Calls -> Answers]
====
