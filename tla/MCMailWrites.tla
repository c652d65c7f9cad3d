---- MODULE MCMailWrites ----
(***************************************************************************)
(* MailWrites on small instances: one account that all payloads address,   *)
(* or one account per payload.                                             *)
(***************************************************************************)
EXTENDS MailWrites, TLC

CONSTANTS a, b, f1, f2

OneAccount  == [f \in Payloads |-> a]
TwoAccounts == [f \in Payloads |-> IF f = f1 THEN a ELSE b]

Symmetry == Permutations(Calls) \cup Permutations(Ops) \cup Permutations(Procs)
SymmetryOfOneAccount == Symmetry \cup Permutations(Payloads)
====
