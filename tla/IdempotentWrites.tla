---- MODULE IdempotentWrites ----
(***************************************************************************)
(* What the runtime promises the holder of one operation UUID, without     *)
(* processes, locks, messages or files: as long as the journal remembers   *)
(* the UUID, its effect happens at most once; a recorded success implies   *)
(* the effect and a recorded failure excludes it forever; a record leaves  *)
(* the pending state once and for all.  The effect of an operation of      *)
(* unknown outcome may still arrive later.                                 *)
(***************************************************************************)
CONSTANT Ops

VARIABLES
    status,     \* what the journal says of each UUID
    effects     \* how often its effect took place in the mailbox

vars == <<status, effects>>

Statuses == {"none", "pending", "succeeded", "failed", "unknown", "forgotten"}

Init ==
    /\ status = [o \in Ops |-> "none"]
    /\ effects = [o \in Ops |-> 0]

Move(o, from, to) ==
    /\ status[o] = from
    /\ status' = [status EXCEPT ![o] = to]

Begin(o)   == Move(o, "none", "pending") /\ UNCHANGED effects
Succeed(o) == effects[o] = 1 /\ Move(o, "pending", "succeeded") /\ UNCHANGED effects
Fail(o)    == effects[o] = 0 /\ Move(o, "pending", "failed") /\ UNCHANGED effects

\* The mailbox changes while the outcome is open, once.
TakeEffect(o) ==
    /\ status[o] \in {"pending", "unknown"}
    /\ effects[o] = 0
    /\ effects' = [effects EXCEPT ![o] = 1]
    /\ UNCHANGED status

\* The effect and its record become visible together: nothing was to be done.
FindDone(o) ==
    /\ effects[o] = 0
    /\ Move(o, "pending", "succeeded")
    /\ effects' = [effects EXCEPT ![o] = 1]

\* Recovery of an account, or an ambiguous answer, closes pending records.
LoseTrack(S) ==
    /\ \A o \in S : status[o] = "pending"
    /\ status' = [o \in Ops |-> IF o \in S THEN "unknown" ELSE status[o]]
    /\ UNCHANGED effects

\* Retention and remote wipe end the promise for the records they delete.
Forget(S) ==
    /\ \A o \in S : status[o] # "none"
    /\ status' = [o \in Ops |-> IF o \in S THEN "forgotten" ELSE status[o]]
    /\ effects' = [o \in Ops |-> IF o \in S THEN 0 ELSE effects[o]]

Next ==
    \/ \E o \in Ops : Begin(o) \/ Succeed(o) \/ Fail(o) \/ TakeEffect(o) \/ FindDone(o)
    \/ \E S \in SUBSET Ops : LoseTrack(S) \/ Forget(S)

Spec == Init /\ [][Next]_vars
====
