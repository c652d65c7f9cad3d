---- MODULE MCMailSync ----
(* The items of a folder are interchangeable.                               *)
EXTENDS MailSync, TLC

Symmetry == Permutations(Mails)
====
