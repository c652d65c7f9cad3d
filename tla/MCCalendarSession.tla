---- MODULE MCCalendarSession ----
EXTENDS CalendarSession, TLC

Symmetry == Permutations(Uids)
====
