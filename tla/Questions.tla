---- MODULE Questions ----
(***************************************************************************)
(* A question is chosen and then answered the way the code answers it; the *)
(* answer is compared with what it has to be.                              *)
(***************************************************************************)
VARIABLES question, answer

Nothing == [is |-> "nothing"]
====
