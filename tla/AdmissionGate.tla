---- MODULE AdmissionGate ----
(***************************************************************************)
(* Who may run and who may send at a time: the call admission of the MCP   *)
(* server (crates/app/src/mcp/mod.rs) and the gate every HTTP request of   *)
(* the process passes (crates/eas/src/transport.rs, transport/admission).  *)
(*                                                                         *)
(* Five tokio semaphores: admitted and running for calls, reads, writes    *)
(* and waiting for requests.  Tokio is fair: a released permit goes to the *)
(* first waiter at once, which holds it from then on although its task     *)
(* has not been polled yet (state granted), and gives it back when it is   *)
(* dropped in that state.                                                  *)
(*                                                                         *)
(* Abstractions: a call sends a fixed set of requests, in any order and as *)
(* concurrently as it likes, as the fan-out over folders and accounts      *)
(* does; durations are left out, so a deadline may pass at any time.       *)
(***************************************************************************)
EXTENDS Integers, FiniteSets

CONSTANTS
    Calls,          \* tool calls of one MCP server
    Requests,       \* HTTP requests those calls send
    CallOf,         \* the call that sends a request
    KindOf,         \* OPTIONS, a read that may be repeated, or a mutation
    Limit,          \* the permits each semaphore starts with
    ReadRetries     \* entries of RETRY_DELAYS

Semaphores == {"admitted", "running", "reads", "writes", "waiting"}
Kinds      == {"options", "read", "mutation"}
Actors     == Calls \cup Requests

ASSUME ActorsAreDistinct == IsFiniteSet(Calls) /\ IsFiniteSet(Requests) /\ Calls \cap Requests = {}
ASSUME RequestsBelongToCalls == CallOf \in [Requests -> Calls] /\ KindOf \in [Requests -> Kinds]
ASSUME LimitsArePositive == Limit \in [Semaphores -> Nat \ {0}] /\ ReadRetries \in Nat

VARIABLES
    st,             \* where a call or a request is
    free,           \* permits nobody holds
    ahead,          \* whom a waiting call or request has before it in its line
    sends           \* how often a request was handed to the network

vars == <<st, free, ahead, sends>>

CallEnds    == {"done", "busy", "cancelled"}
RequestEnds == {"answered", "busy", "network", "unknown", "dropped"}
InCall      == {"queued", "granted", "running"}
InRequest   == {"queued", "granted", "sending", "backoff"}

Gate(r)     == IF KindOf[r] = "mutation" THEN "writes" ELSE "reads"
RequestsOf(c) == {r \in Requests : CallOf[r] = c}

\* OPTIONS and mutations are sent once.
Retries(r)  == IF KindOf[r] = "read" THEN ReadRetries ELSE 0

\* What an actor waits for, and who waits for a semaphore.
LineOf(a) == IF a \in Calls THEN "running" ELSE Gate(a)
Line(s)   == {a \in Actors : st[a] = "queued" /\ LineOf(a) = s}

\* The permits of each semaphore, by the guards that are alive in each state.
Holders(s) ==
    CASE s = "admitted" -> {c \in Calls : st[c] \in InCall}
      [] s = "running"  -> {c \in Calls : st[c] \in {"granted", "running"}}
      [] s = "waiting"  -> {r \in Requests : st[r] \in {"queued", "granted"}}
      [] OTHER -> {r \in Requests : Gate(r) = s /\ st[r] \in InRequest \ {"queued"}}

Init ==
    /\ st = [a \in Actors |-> "new"]
    /\ free = Limit
    /\ ahead = [a \in Actors |-> {}]
    /\ sends = [r \in Requests |-> 0]

Take(s)    == free' = [free EXCEPT ![s] = @ - 1]
Enqueue(a) == ahead' = [ahead EXCEPT ![a] = Line(LineOf(a))]

\* Mutant: a waiter that already owns a permit loses it when it is dropped.
LosingGranted(gone) ==
    [s \in Semaphores |-> Cardinality({a \in Holders(s) \cap gone : st[a] # "granted"})]

\* The permits that come back when futures are dropped.
Returned(gone) == [s \in Semaphores |-> Cardinality(Holders(s) \cap gone)]

\* add_permits gives returned permits to the first waiters that stay.
Served(gone) ==
    {a \in Actors \ gone : /\ st[a] = "queued"
                           /\ Cardinality(ahead[a] \ gone) < Returned(gone)[LineOf(a)]}

\* Futures are dropped: they leave their lines, and every permit they held goes
\* to the first waiter that stays, or back to the semaphore.
Leave(gone, fate) ==
    LET served == Served(gone)
    IN  /\ free' = [s \in Semaphores |->
                       free[s] + Returned(gone)[s] - Cardinality({a \in served : LineOf(a) = s})]
        /\ ahead' = [a \in Actors |-> IF a \in gone \cup served THEN {}
                                      ELSE ahead[a] \ (gone \cup served)]
        /\ st' = [a \in Actors |-> IF a \in gone THEN fate[a]
                                   ELSE IF a \in served THEN "granted" ELSE st[a]]

End(a, outcome) == Leave({a}, [x \in {a} |-> outcome])

----
(* Calls: MailMcpServer::call_tool *)

Admit(c) ==
    /\ st[c] = "new"
    /\ free["admitted"] > 0
    /\ IF free["running"] > 0
         THEN /\ free' = [free EXCEPT !["admitted"] = @ - 1, !["running"] = @ - 1]
              /\ st' = [st EXCEPT ![c] = "running"]
              /\ UNCHANGED ahead
         ELSE /\ Take("admitted")
              /\ st' = [st EXCEPT ![c] = "queued"]
              /\ Enqueue(c)
    /\ UNCHANGED sends

TurnAway(c) ==
    /\ st[c] = "new"
    /\ free["admitted"] = 0
    /\ st' = [st EXCEPT ![c] = "busy"]
    /\ UNCHANGED <<free, ahead, sends>>

\* The permit of running arrives; timeout polls it before its own deadline.
Run(c) ==
    /\ st[c] = "granted"
    /\ st' = [st EXCEPT ![c] = "running"]
    /\ UNCHANGED <<free, ahead, sends>>

GiveUpRunning(c) ==
    /\ st[c] = "queued"
    /\ End(c, "busy")
    /\ UNCHANGED sends

Finish(c) ==
    /\ st[c] = "running"
    /\ \A r \in RequestsOf(c) : st[r] \notin InRequest
    /\ End(c, "done")
    /\ UNCHANGED sends

\* The client cancels: the future of the call is dropped with all its requests.
Cancel(c) ==
    /\ st[c] \in InCall
    /\ LET flying == {r \in RequestsOf(c) : st[r] \in InRequest}
       IN  Leave(flying \cup {c}, [a \in flying \cup {c} |-> IF a = c THEN "cancelled" ELSE "dropped"])
    /\ UNCHANGED sends

----
(* Requests: Gate::acquire, HttpTransport::command and options *)

Ask(r) ==
    /\ st[r] = "new"
    /\ st[CallOf[r]] = "running"
    /\ \/ /\ free[Gate(r)] > 0
          /\ Take(Gate(r))
          /\ st' = [st EXCEPT ![r] = "sending"]
          /\ sends' = [sends EXCEPT ![r] = 1]
          /\ UNCHANGED ahead
       \/ /\ free[Gate(r)] = 0
          /\ free["waiting"] > 0
          /\ Take("waiting")
          /\ st' = [st EXCEPT ![r] = "queued"]
          /\ Enqueue(r)
          /\ UNCHANGED sends
       \/ /\ free[Gate(r)] = 0
          /\ free["waiting"] = 0
          /\ st' = [st EXCEPT ![r] = "busy"]
          /\ UNCHANGED <<free, ahead, sends>>

\* The permit arrives, the place in the line is given up, and the request is sent.
StartSending(r) ==
    /\ st[r] = "granted"
    /\ st' = [st EXCEPT ![r] = "sending"]
    /\ free' = [free EXCEPT !["waiting"] = @ + 1]
    /\ sends' = [sends EXCEPT ![r] = 1]
    /\ UNCHANGED ahead

GiveUpWaiting(r) ==
    /\ st[r] = "queued"
    /\ End(r, "busy")
    /\ UNCHANGED sends

\* Mutant: every failure keeps its own name.
FinalErrorPlain(r) == "network"

\* final_error and response_error: what a request that may have run is told.
FinalError(r) == IF KindOf[r] = "mutation" THEN "unknown" ELSE "network"

\* normalize: a complete answer, or headers whose body breaks off, is too
\* large or comes from elsewhere.  Neither is sent again.
Answered(r) ==
    /\ st[r] = "sending"
    /\ \E outcome \in {"answered", FinalError(r)} : End(r, outcome)
    /\ UNCHANGED sends

\* send_once fails: no connection, the connection broke or the 60 s passed.
SendFails(r) ==
    /\ st[r] = "sending"
    /\ \/ sends[r] <= Retries(r) /\ st' = [st EXCEPT ![r] = "backoff"] /\ UNCHANGED <<free, ahead>>
       \/ sends[r] > Retries(r) /\ End(r, FinalError(r))
    /\ UNCHANGED sends

\* Mutant: each try asks for a permit of its own while it holds the first.
ResendReacquiring(r) ==
    /\ st[r] = "backoff"
    /\ free[Gate(r)] > 0
    /\ st' = [st EXCEPT ![r] = "sending"]
    /\ sends' = [sends EXCEPT ![r] = @ + 1]
    /\ UNCHANGED <<free, ahead>>

\* The delay is over; the permit was held all the time.
Resend(r) ==
    /\ st[r] = "backoff"
    /\ st' = [st EXCEPT ![r] = "sending"]
    /\ sends' = [sends EXCEPT ![r] = @ + 1]
    /\ UNCHANGED <<free, ahead>>

----
RequestStep(r) ==
    StartSending(r) \/ GiveUpWaiting(r) \/ Answered(r) \/ SendFails(r) \/ Resend(r)

\* What happens without anybody's doing: tasks are polled and deadlines pass.
Progress ==
    \/ \E c \in Calls : Run(c) \/ GiveUpRunning(c) \/ Finish(c)
    \/ \E r \in Requests : RequestStep(r)

Next ==
    \/ \E c \in Calls : Admit(c) \/ TurnAway(c) \/ Cancel(c)
    \/ \E r \in Requests : Ask(r)
    \/ Progress

\* Nobody has to call, cancel or answer; the runtime polls what it can poll.
Spec == Init /\ [][Next]_vars /\ WF_vars(Progress)

----
TypeOK ==
    /\ st \in [Actors -> {"new"} \cup InCall \cup InRequest \cup CallEnds \cup RequestEnds]
    /\ \A c \in Calls : st[c] \in {"new"} \cup InCall \cup CallEnds
    /\ \A r \in Requests : st[r] \in {"new"} \cup InRequest \cup RequestEnds
    /\ free \in [Semaphores -> Nat]
    /\ ahead \in [Actors -> SUBSET Actors]
    /\ sends \in [Requests -> 0..ReadRetries + 1]

\* Permits are neither lost nor invented, whatever is cancelled, timed out or
\* dropped between the grant and the next poll: what is free and what is held
\* add up to the limit, those who wait for a permit stand in one line, and none
\* lies idle while somebody waits for it.
PermitsAddUp ==
    /\ TypeOK
    /\ \A s \in Semaphores :
        /\ free[s] + Cardinality(Holders(s)) = Limit[s]
        /\ \A a \in Line(s) : ahead[a] \subseteq Line(s) \ {a}
        /\ \A a, b \in Line(s) : a # b => (a \in ahead[b] <=> b \notin ahead[a])
        /\ Line(s) # {} => free[s] = 0

\* A mutation the transport reports as busy or as a network error was never
\* handed to the network, and none is handed to it twice: the runtime records
\* both reports as failed, that is as safe to submit again.
FailureMeansUnsent ==
    \A r \in Requests : KindOf[r] = "mutation" =>
        /\ st[r] \in {"busy", "network"} => sends[r] = 0
        /\ sends[r] <= 1

\* Every admitted call comes to its end although Exchange may stay silent,
\* requests hold permits over their retries, and calls hold a running permit
\* while their requests wait for others.
CallsEnd ==
    \A c \in Calls : st[c] \in InCall ~> st[c] \in CallEnds
====
