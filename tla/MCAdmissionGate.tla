---- MODULE MCAdmissionGate ----
(* A gate of one read, one mutation and one place to wait; one running call *)
(* of two admitted ones, the first of which fans out into four requests.    *)
EXTENDS AdmissionGate, TLC

CONSTANTS c1, c2, c3, r1, m1, m2, m3

MCCallOf == (r1 :> c1) @@ (m1 :> c1) @@ (m2 :> c1) @@ (m3 :> c1)
MCKindOf == (r1 :> "read") @@ (m1 :> "mutation") @@ (m2 :> "mutation") @@ (m3 :> "mutation")
MCLimit  == ("admitted" :> 2) @@ ("running" :> 1) @@ ("reads" :> 1) @@ ("writes" :> 1)
            @@ ("waiting" :> 1)
====
