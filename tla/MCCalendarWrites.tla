---- MODULE MCCalendarWrites ----
(***************************************************************************)
(* CalendarWrites on small instances: f1 splits a series (a create, an     *)
(* update and a notice), f2 answers a meeting request, f3 sets automatic   *)
(* replies.                                                                *)
(***************************************************************************)
EXTENDS CalendarWrites, TLC

CONSTANTS a, f1, f2, f3, new_series, truncate, notify, response, reply, settings

OneAccount == [f \in Payloads |-> a]
Plans      == [f \in Payloads |-> CASE f = f1 -> <<new_series, truncate, notify>>
                                     [] f = f2 -> <<response, reply>>
                                     [] f = f3 -> <<settings>>]
Symmetry   == Permutations(Calls) \cup Permutations(Ops) \cup Permutations(Procs)
====
