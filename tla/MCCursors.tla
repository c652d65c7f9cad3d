---- MODULE MCCursors ----
(***************************************************************************)
(* Cursors on small instances.                                             *)
(***************************************************************************)
EXTENDS Cursors, TLC

Symmetry == Permutations(Calls) \cup Permutations(Accounts)
====
