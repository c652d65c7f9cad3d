---- MODULE CursorsProofs ----
(***************************************************************************)
(* Theorems about Cursors for any number of calls and any store size,      *)
(* lifetime and page limit.                                                *)
(*                                                                         *)
(* Of all calls that were given a page of one snapshot, at most one is at  *)
(* its head: it is about to store the cursor for the rest, or that cursor  *)
(* is in the store.  Only a page cut at the head can follow, so pages      *)
(* never overlap.  Losing a head (eviction, expiry, wipe) loses the rest   *)
(* of the snapshot and nothing else.                                       *)
(*                                                                         *)
(* The second part is about such losses: the queue holds the cursors in    *)
(* the order in which they were stored, and a cursor that is missing was   *)
(* taken, expired, was wiped or is older than those that took its place.   *)
(*                                                                         *)
(* The third part is about the pages that Exchange itself hands out: those *)
(* of a search (MailAnswers), and the conversations and mails that are     *)
(* read from it.                                                           *)
(***************************************************************************)
EXTENDS Cursors, MailAnswers, FiniteSetTheorems, SequenceTheorems, TLAPS

Steps == {"new", "reading", "asking", "storing", "answered", "refused", "failed"}

PageTypes ==
    /\ now \in Nat
    /\ since \in [Calls -> Nat]
    /\ pc \in [Calls -> Steps]
    /\ asked \in [Calls -> Calls \cup {None}]
    /\ snap \in [Calls -> Snapshot \cup {None}]
    /\ from \in [Calls -> Nat]
    /\ upto \in [Calls -> Nat]
    /\ cursors \in [Calls -> Cursor \cup {None}]
    /\ deadline \in [Calls -> Nat \cup {None}]

AtHead(c) == c \in Stored \/ pc[c] = "storing"

\* A stored cursor continues the page of the call that stored it.
CursorsContinue ==
    \A k \in Stored :
        /\ pc[k] = "answered"
        /\ cursors[k].snapshot = snap[k]
        /\ cursors[k].offset = upto[k]
        /\ cursors[k].expires = deadline[k]
        /\ upto[k] < snap[k].size

\* A page belongs to a snapshot that its first call took.
PagesHaveSnapshots ==
    \A c \in Calls : Delivered(c) =>
        /\ snap[c] \in Snapshot
        /\ Delivered(snap[c].of)
        /\ snap[snap[c].of] = snap[c]
        /\ from[c] <= upto[c]
        /\ pc[c] = "storing" => upto[c] < snap[c].size

HeadsLead ==
    \A k, d \in Calls : AtHead(k) /\ Delivered(d) /\ snap[d].of = snap[k].of =>
        /\ upto[d] <= upto[k]
        /\ AtHead(d) => d = k

PInv == PageTypes /\ CursorsContinue /\ PagesHaveSnapshots /\ HeadsLead /\ PagesTile

----
(* Steps that cut no page *)

\* What such a step may do: calls that were given no page move on without
\* one, and cursors disappear.
NoNewPage ==
    /\ PageTypes'
    /\ UNCHANGED <<snap, from, upto, deadline>>
    /\ \A c \in Calls : pc'[c] = pc[c] \/ (~Delivered(c) /\ ~Delivered(c)')
    /\ \A k \in Calls : cursors'[k] \in {cursors[k], None}

LEMMA NoNewPageKeeps == PInv /\ NoNewPage => PInv'
<1> SUFFICES ASSUME PInv, NoNewPage PROVE PInv'
  OBVIOUS
<1> USE DEF PInv
<1>1. \A c \in Calls : Delivered(c)' <=> Delivered(c)
  BY DEF NoNewPage, Delivered
<1>2. \A k \in Calls : k \in Stored' => k \in Stored /\ cursors'[k] = cursors[k]
  BY DEF NoNewPage, Stored
<1>3. \A c \in Calls : AtHead(c)' => AtHead(c)
  BY <1>1, <1>2 DEF AtHead, NoNewPage, Delivered
<1>4. CursorsContinue'
  BY <1>2 DEF CursorsContinue, NoNewPage, Delivered, Stored
<1>5. PagesHaveSnapshots'
  BY <1>1 DEF PagesHaveSnapshots, NoNewPage, Snapshot
<1>6. HeadsLead'
  BY <1>1, <1>3 DEF HeadsLead, NoNewPage
<1>7. PagesTile'
  BY <1>1 DEF PagesTile, NoNewPage
<1> QED BY <1>4, <1>5, <1>6, <1>7 DEF NoNewPage

\* Keeping some cursors keeps their types.
LEMMA KeepTypes ==
    ASSUME NEW kept, Keep(kept), cursors \in [Calls -> Cursor \cup {None}]
    PROVE  /\ cursors' \in [Calls -> Cursor \cup {None}]
           /\ \A k \in Calls : cursors'[k] = IF k \in kept THEN cursors[k] ELSE None
BY DEF Keep

LEMMA EnterTypes ==
    ASSUME PageTypes, NEW c \in Calls, NEW step \in Steps, Enter(c, step)
    PROVE  /\ pc' \in [Calls -> Steps] /\ since' \in [Calls -> Nat]
           /\ pc'[c] = step
           /\ \A d \in Calls \ {c} : pc'[d] = pc[d]
BY DEF PageTypes, Enter

----
(* The three ways a page comes about *)

\* first_page: the snapshot is new.
FirstPage(c) ==
    /\ PageTypes'
    /\ pc[c] = "reading"
    /\ pc'[c] \in {"storing", "answered"}
    /\ snap'[c] \in Snapshot
    /\ snap'[c].of = c
    /\ from'[c] = 0
    /\ pc'[c] = "storing" => upto'[c] < snap'[c].size
    /\ \A d \in Calls \ {c} :
          pc'[d] = pc[d] /\ snap'[d] = snap[d] /\ from'[d] = from[d] /\ upto'[d] = upto[d]
    /\ \A k \in Calls : cursors'[k] \in {cursors[k], None}
    /\ deadline' = deadline

LEMMA FirstPageKeeps == ASSUME PInv, NEW c \in Calls, FirstPage(c) PROVE PInv'
<1> USE DEF PInv
<1>1. /\ ~Delivered(c) /\ c \notin Stored /\ ~AtHead(c)
      /\ \A d \in Calls : Delivered(d) => snap[d].of # c
  BY DEF FirstPage, Delivered, CursorsContinue, PagesHaveSnapshots, AtHead
<1>2. \A d \in Calls \ {c} : Delivered(d)' <=> Delivered(d)
  BY DEF FirstPage, Delivered
<1>3. \A k \in Calls : k \in Stored' => k \in Stored /\ cursors'[k] = cursors[k] /\ k # c
  BY <1>1 DEF FirstPage, Stored
<1>4. \A d \in Calls \ {c} : AtHead(d)' => AtHead(d)
  BY <1>3 DEF AtHead, FirstPage
<1>5. CursorsContinue'
  BY <1>3 DEF CursorsContinue, FirstPage, Stored
<1>6. /\ Delivered(c)' /\ from'[c] <= upto'[c] /\ upto'[c] \in Nat
  BY DEF FirstPage, Delivered, PageTypes
<1>7. PagesHaveSnapshots'
  <2> SUFFICES ASSUME NEW d \in Calls, Delivered(d)'
               PROVE  /\ snap'[d] \in Snapshot /\ Delivered(snap[d].of)'
                      /\ snap'[snap'[d].of] = snap'[d] /\ from'[d] <= upto'[d]
                      /\ pc'[d] = "storing" => upto'[d] < snap'[d].size
    BY DEF PagesHaveSnapshots
  <2>1. CASE d = c
    BY <2>1, <1>6 DEF FirstPage, Delivered
  <2>2. CASE d # c
    <3>1. Delivered(d) /\ snap'[d] = snap[d]
      BY <2>2, <1>2 DEF FirstPage
    <3>2. snap[d].of \in Calls \ {c} /\ Delivered(snap[d].of)
      BY <3>1, <1>1 DEF PagesHaveSnapshots, Snapshot
    <3> QED BY <2>2, <3>1, <3>2, <1>2 DEF PagesHaveSnapshots, FirstPage, Delivered
  <2> QED BY <2>1, <2>2
<1>8. \A d \in Calls \ {c} : Delivered(d)' => snap'[d].of # c
  BY <1>1, <1>2 DEF FirstPage
<1>9. HeadsLead'
  <2> SUFFICES ASSUME NEW k \in Calls, NEW d \in Calls, AtHead(k)', Delivered(d)',
                      snap'[d].of = snap'[k].of
               PROVE  upto'[d] <= upto'[k] /\ (AtHead(d)' => d = k)
    BY DEF HeadsLead
  <2>1. Delivered(k)'
    BY <1>5 DEF AtHead, CursorsContinue, Delivered
  <2>2. CASE k = c
    BY <2>2, <1>6, <1>8 DEF FirstPage
  <2>3. CASE k # c
    <3>1. d # c
      BY <2>1, <2>3, <1>8 DEF FirstPage
    <3> QED BY <3>1, <2>3, <1>2, <1>4 DEF HeadsLead, FirstPage
  <2> QED BY <2>2, <2>3
<1>10. PagesTile'
  <2> SUFFICES ASSUME NEW d \in Calls, NEW e \in Calls, Delivered(d)', Delivered(e)',
                      snap'[d].of = snap'[e].of
               PROVE  /\ d # e => upto'[d] <= from'[e] \/ upto'[e] <= from'[d]
                      /\ \E x \in Calls : from'[d] > 0 =>
                            Delivered(x)' /\ snap'[x] = snap'[d] /\ upto'[x] = from'[d]
    BY DEF PagesTile
  <2>1. CASE d = c
    BY <2>1, <1>8 DEF FirstPage
  <2>2. CASE d # c
    <3>1. e # c
      BY <2>2, <1>8 DEF FirstPage
    <3>2. PICK x \in Calls : from[d] > 0 =>
                 Delivered(x) /\ snap[x] = snap[d] /\ upto[x] = from[d]
      BY <2>2, <3>1, <1>2 DEF PagesTile, FirstPage
    <3>3. from[d] > 0 => x # c
      BY <3>2, <1>1
    <3>4. from'[d] > 0 => Delivered(x)' /\ snap'[x] = snap'[d] /\ upto'[x] = from'[d]
      BY <2>2, <3>2, <3>3, <1>2 DEF FirstPage
    <3>5. d # e => upto'[d] <= from'[e] \/ upto'[e] <= from'[d]
      BY <2>2, <3>1, <1>2 DEF PagesTile, FirstPage
    <3> QED BY <3>4, <3>5
  <2> QED BY <2>1, <2>2
<1> QED BY <1>5, <1>7, <1>9, <1>10 DEF FirstPage

\* next_page: the page continues at a cursor, which is removed.
FollowingPage(c, k) ==
    /\ PageTypes'
    /\ pc[c] = "asking"
    /\ k \in Stored
    /\ pc'[c] \in {"storing", "answered"}
    /\ snap'[c] = snap[k]
    /\ from'[c] = upto[k]
    /\ upto'[c] >= upto[k]
    /\ pc'[c] = "storing" => upto'[c] < snap'[c].size
    /\ \A d \in Calls \ {c} :
          pc'[d] = pc[d] /\ snap'[d] = snap[d] /\ from'[d] = from[d] /\ upto'[d] = upto[d]
    /\ \A d \in Calls : cursors'[d] \in {cursors[d], None}
    /\ cursors'[k] = None
    /\ deadline' = deadline

LEMMA FollowingPageKeeps ==
    ASSUME PInv, NEW c \in Calls, NEW k \in Calls, FollowingPage(c, k) PROVE PInv'
<1> USE DEF PInv
<1>1. /\ ~Delivered(c) /\ c \notin Stored /\ ~AtHead(c) /\ c # k
      /\ Delivered(k) /\ AtHead(k)
      /\ \A d \in Calls : Delivered(d) => snap[d].of # c
  BY DEF FollowingPage, Delivered, CursorsContinue, PagesHaveSnapshots, AtHead
<1>2. \A d \in Calls \ {c} : Delivered(d)' <=> Delivered(d)
  BY DEF FollowingPage, Delivered
<1>3. \A d \in Calls : d \in Stored' => d \in Stored /\ cursors'[d] = cursors[d] /\ d # c /\ d # k
  BY <1>1 DEF FollowingPage, Stored
<1>4. \A d \in Calls \ {c} : AtHead(d)' => AtHead(d) /\ d # k
  <2> SUFFICES ASSUME NEW d \in Calls \ {c}, AtHead(d)' PROVE AtHead(d) /\ d # k
    OBVIOUS
  <2>1. pc[k] = "answered"
    BY DEF FollowingPage, CursorsContinue
  <2> QED BY <2>1, <1>3 DEF AtHead, FollowingPage
<1>5. CursorsContinue'
  BY <1>3 DEF CursorsContinue, FollowingPage, Stored
<1>6. /\ Delivered(c)' /\ from'[c] <= upto'[c]
      /\ upto'[c] \in Nat /\ upto[k] \in Nat /\ snap'[c] \in Snapshot
  BY <1>1 DEF FollowingPage, Delivered, PageTypes, PagesHaveSnapshots
<1>7. \A d \in Calls \ {c} : Delivered(d)' /\ snap'[d].of = snap'[c].of => upto'[d] <= upto[k]
  BY <1>1, <1>2 DEF FollowingPage, HeadsLead
<1>8. PagesHaveSnapshots'
  <2> SUFFICES ASSUME NEW d \in Calls, Delivered(d)'
               PROVE  /\ snap'[d] \in Snapshot /\ Delivered(snap[d].of)'
                      /\ snap'[snap'[d].of] = snap'[d] /\ from'[d] <= upto'[d]
                      /\ pc'[d] = "storing" => upto'[d] < snap'[d].size
    BY DEF PagesHaveSnapshots
  <2>1. PICK e \in Calls \ {c} : Delivered(e) /\ snap'[d] = snap[e]
    BY <1>1, <1>2 DEF FollowingPage
  <2>2. snap[e].of \in Calls \ {c} /\ Delivered(snap[e].of) /\ snap[snap[e].of] = snap[e]
    BY <2>1, <1>1 DEF PagesHaveSnapshots, Snapshot
  <2>3. Delivered(snap[d].of)'
    BY <2>1, <2>2, <1>2 DEF Delivered, FollowingPage
  <2>4. snap'[snap'[d].of] = snap'[d] /\ snap'[d] \in Snapshot
    BY <2>1, <2>2 DEF FollowingPage, PagesHaveSnapshots
  <2>5. from'[d] <= upto'[d] /\ (pc'[d] = "storing" => upto'[d] < snap'[d].size)
    BY <1>2, <1>6 DEF FollowingPage, PagesHaveSnapshots
  <2> QED BY <2>3, <2>4, <2>5
<1>9. HeadsLead'
  <2> SUFFICES ASSUME NEW h \in Calls, NEW d \in Calls, AtHead(h)', Delivered(d)',
                      snap'[d].of = snap'[h].of
               PROVE  upto'[d] <= upto'[h] /\ (AtHead(d)' => d = h)
    BY DEF HeadsLead
  <2>1. CASE h = c
    <3>1. upto'[d] <= upto'[h]
      <4>1. CASE d = c
        BY <2>1, <4>1, <1>6
      <4>2. CASE d # c
        <5>1. upto'[d] <= upto[k] /\ upto[k] <= upto'[c] /\ upto'[d] \in Nat
          BY <2>1, <4>2, <1>7 DEF FollowingPage, PageTypes
        <5> QED BY <5>1, <2>1, <1>6
      <4> QED BY <4>1, <4>2
    <3>2. ASSUME d # c PROVE ~AtHead(d)'
      BY <3>2, <2>1, <1>1, <1>2, <1>4 DEF HeadsLead, FollowingPage
    <3> QED BY <3>1, <3>2, <2>1
  <2>2. CASE h # c
    <3>1. AtHead(h) /\ h # k /\ snap'[h] = snap[h]
      BY <2>2, <1>4 DEF FollowingPage
    <3>2. Delivered(h)
      BY <3>1 DEF AtHead, CursorsContinue, Delivered
    <3>3. snap[h].of # snap[k].of
      BY <3>1, <3>2, <1>1 DEF HeadsLead
    <3>4. d # c
      BY <3>1, <3>3 DEF FollowingPage
    <3> QED BY <3>1, <3>4, <2>2, <1>2, <1>4 DEF HeadsLead, FollowingPage
  <2> QED BY <2>1, <2>2
<1>10. PagesTile'
  <2> SUFFICES ASSUME NEW d \in Calls, NEW e \in Calls, Delivered(d)', Delivered(e)',
                      snap'[d].of = snap'[e].of
               PROVE  /\ d # e => upto'[d] <= from'[e] \/ upto'[e] <= from'[d]
                      /\ \E x \in Calls : from'[d] > 0 =>
                            Delivered(x)' /\ snap'[x] = snap'[d] /\ upto'[x] = from'[d]
    BY DEF PagesTile
  <2>1. d # e => upto'[d] <= from'[e] \/ upto'[e] <= from'[d]
    <3>1. CASE d = c /\ e # c
      BY <3>1, <1>7 DEF FollowingPage
    <3>2. CASE d # c /\ e = c
      BY <3>2, <1>7 DEF FollowingPage
    <3>3. CASE d # c /\ e # c
      BY <3>3, <1>2 DEF PagesTile, FollowingPage
    <3> QED BY <3>1, <3>2, <3>3
  <2>2. \E x \in Calls : from'[d] > 0 =>
           Delivered(x)' /\ snap'[x] = snap'[d] /\ upto'[x] = from'[d]
    <3>1. CASE d = c
      BY <3>1, <1>1, <1>2 DEF FollowingPage
    <3>2. CASE d # c
      <4>1. PICK x \in Calls : from[d] > 0 =>
                   Delivered(x) /\ snap[x] = snap[d] /\ upto[x] = from[d]
        BY <3>2, <1>2 DEF PagesTile
      <4>2. from[d] > 0 => x # c
        BY <4>1, <1>1
      <4> QED BY <3>2, <4>1, <4>2, <1>2 DEF FollowingPage
    <3> QED BY <3>1, <3>2
  <2> QED BY <2>1, <2>2
<1> QED BY <1>5, <1>8, <1>9, <1>10 DEF FollowingPage

\* store_cursor: a head stays a head.
Kept(c) ==
    /\ PageTypes'
    /\ pc[c] = "storing"
    /\ pc'[c] = "answered"
    /\ \A d \in Calls \ {c} : pc'[d] = pc[d] /\ deadline'[d] = deadline[d]
    /\ UNCHANGED <<snap, from, upto>>
    /\ cursors'[c] # None
    /\ cursors'[c].snapshot = snap[c]
    /\ cursors'[c].offset = upto[c]
    /\ cursors'[c].expires = deadline'[c]
    /\ \A k \in Calls \ {c} : cursors'[k] \in {cursors[k], None}

LEMMA KeptKeeps == ASSUME PInv, NEW c \in Calls, Kept(c) PROVE PInv'
<1> USE DEF PInv
<1>1. \A d \in Calls : Delivered(d)' <=> Delivered(d)
  BY DEF Kept, Delivered
<1>2. \A k \in Calls \ {c} : k \in Stored' => k \in Stored /\ cursors'[k] = cursors[k]
  BY DEF Kept, Stored
<1>3. \A d \in Calls : AtHead(d)' => AtHead(d)
  BY <1>2 DEF AtHead, Kept
<1>4. CursorsContinue'
  <2> SUFFICES ASSUME NEW k \in Calls, k \in Stored'
               PROVE  /\ pc'[k] = "answered" /\ cursors'[k].snapshot = snap'[k]
                      /\ cursors'[k].offset = upto'[k] /\ cursors'[k].expires = deadline'[k]
                      /\ upto'[k] < snap'[k].size
    BY DEF CursorsContinue, Stored
  <2>1. CASE k = c
    BY <2>1 DEF Kept, PagesHaveSnapshots, Delivered
  <2>2. CASE k # c
    BY <2>2, <1>2 DEF Kept, CursorsContinue
  <2> QED BY <2>1, <2>2
<1>5. PagesHaveSnapshots'
  <2>1. \A d \in Calls : pc'[d] = "storing" => pc[d] = "storing"
    BY DEF Kept
  <2> QED BY <1>1, <2>1 DEF PagesHaveSnapshots, Kept, Snapshot
<1>6. HeadsLead'
  BY <1>1, <1>3 DEF HeadsLead, Kept
<1>7. PagesTile'
  BY <1>1 DEF PagesTile, Kept
<1> QED BY <1>4, <1>5, <1>6, <1>7 DEF Kept

----
(* Every step has one of the shapes *)

\* A page that CutPage cuts lies within its snapshot.
LEMMA CutPageTypes ==
    ASSUME PageTypes, NEW c \in Calls, NEW snapshot \in Snapshot,
           NEW offset \in Nat, NEW limit \in 1..MaxLimit,
           offset <= snapshot.size, CutPage(c, snapshot, offset, limit)
    PROVE  /\ snap' \in [Calls -> Snapshot \cup {None}]
           /\ from' \in [Calls -> Nat] /\ upto' \in [Calls -> Nat]
           /\ pc' \in [Calls -> Steps] /\ since' \in [Calls -> Nat]
           /\ snap'[c] = snapshot /\ from'[c] = offset /\ upto'[c] >= offset
           /\ pc'[c] \in {"storing", "answered"}
           /\ pc'[c] = "storing" => upto'[c] < snapshot.size
           /\ \A d \in Calls \ {c} : /\ pc'[d] = pc[d] /\ snap'[d] = snap[d]
                                      /\ from'[d] = from[d] /\ upto'[d] = upto[d]
<1>1. /\ Least(offset + limit, snapshot.size) \in Nat
      /\ Least(offset + limit, snapshot.size) >= offset
      /\ offset + limit < snapshot.size => Least(offset + limit, snapshot.size) < snapshot.size
  BY CursorConstants DEF Least, Snapshot
<1> QED BY <1>1 DEF CutPage, PageTypes, Enter, Steps

LEMMA ListShape == ASSUME PInv, NEW c \in Calls, List(c) PROVE NoNewPage
BY EnterTypes DEF List, NoNewPage, PInv, PageTypes, Delivered, Steps, storeVars, pageVars, pastVars

LEMMA AskShape == ASSUME PInv, NEW c \in Calls, NEW k \in Calls, Ask(c, k) PROVE NoNewPage
BY EnterTypes DEF Ask, NoNewPage, PInv, PageTypes, Delivered, Steps, storeVars, pastVars

LEMMA CancelShape == ASSUME PInv, NEW c \in Calls, Cancel(c) PROVE NoNewPage
BY EnterTypes DEF Cancel, NoNewPage, PInv, PageTypes, Delivered, Steps, storeVars, pageVars, pastVars

LEMMA QuietShape ==
    ASSUME PInv, \/ Tick \/ UNCHANGED vars
                 \/ \E c \in Calls, a \in Accounts : Reply(c, a)
    PROVE  NoNewPage
BY DEF Tick, Reply, NoNewPage, PInv, PageTypes, Delivered, vars, storeVars, pageVars, pastVars

LEMMA WipeShape == ASSUME PInv, NEW a \in Accounts, WipeElsewhere(a) PROVE NoNewPage
<1>1. PageTypes
  BY DEF PInv
<1>2. Keep({}) /\ UNCHANGED <<now, pc, asked, snap, from, upto, since, deadline>>
  BY DEF WipeElsewhere, Clear, pageVars
<1> QED BY <1>1, <1>2, KeepTypes DEF NoNewPage, PageTypes

LEMMA CollectShape ==
    ASSUME PInv, NEW c \in Calls, Collect(c) PROVE NoNewPage \/ FirstPage(c)
<1>1. PageTypes /\ pc[c] = "reading" /\ now' = now
  BY DEF PInv, Collect
<1>2. PICK gone \in SUBSET Replied(c, "wiped") :
         /\ IF gone = {} THEN UNCHANGED <<storeVars, pastVars>> ELSE Clear
         /\ \/ Enter(c, "failed") /\ UNCHANGED pageVars
            \/ /\ \E S \in SUBSET Replied(c, "mail"), n \in 0..MaxMails, limit \in 1..MaxLimit :
                      CutPage(c, [of |-> c, size |-> n, holds |-> S], 0, limit)
               /\ UNCHANGED asked
  BY DEF Collect
<1>3. /\ cursors' \in [Calls -> Cursor \cup {None}]
      /\ deadline' = deadline
      /\ \A k \in Calls : cursors'[k] \in {cursors[k], None}
  <2>1. CASE gone = {}
    BY <2>1, <1>1, <1>2 DEF storeVars, pastVars, PageTypes
  <2>2. CASE gone # {}
    <3>1. Keep({}) /\ deadline' = deadline
      BY <2>2, <1>2 DEF Clear
    <3> QED BY <3>1, <1>1, KeepTypes DEF PageTypes
  <2> QED BY <2>1, <2>2
<1>4. CASE Enter(c, "failed") /\ UNCHANGED pageVars
  BY <1>1, <1>3, <1>4, EnterTypes DEF NoNewPage, PageTypes, Delivered, Steps, pageVars
<1>5. CASE /\ \E S \in SUBSET Replied(c, "mail"), n \in 0..MaxMails, limit \in 1..MaxLimit :
                  CutPage(c, [of |-> c, size |-> n, holds |-> S], 0, limit)
           /\ UNCHANGED asked
  <2>1. PICK S \in SUBSET Replied(c, "mail"), n \in 0..MaxMails, limit \in 1..MaxLimit :
           CutPage(c, [of |-> c, size |-> n, holds |-> S], 0, limit)
    BY <1>5
  <2>2. /\ [of |-> c, size |-> n, holds |-> S] \in Snapshot
        /\ 0 <= [of |-> c, size |-> n, holds |-> S].size
    BY CursorConstants DEF Snapshot, Replied
  <2> DEFINE s == [of |-> c, size |-> n, holds |-> S]
  <2>3. s.of = c
    OBVIOUS
  <2> HIDE DEF s
  <2>4. FirstPage(c)
    BY <1>1, <1>3, <1>5, <2>1, <2>2, <2>3, CutPageTypes DEF FirstPage, PageTypes, s
  <2> QED BY <2>4
<1> QED BY <1>2, <1>4, <1>5

LEMMA TakeShape ==
    ASSUME PInv, NEW c \in Calls, Take(c)
    PROVE  NoNewPage \/ \E k \in Calls : k = asked[c] /\ FollowingPage(c, k)
<1>1. PageTypes /\ pc[c] = "asking" /\ UNCHANGED <<now, deadline>>
  BY DEF PInv, Take, pastVars
<1>2. PICK t \in Clock(c) :
         /\ Keep(Fresh(t) \ {asked[c]})
         /\ IF asked[c] \in Fresh(t)
            THEN /\ \E limit \in 1..MaxLimit :
                       CutPage(c, cursors[asked[c]].snapshot, cursors[asked[c]].offset, limit)
                 /\ UNCHANGED asked
            ELSE Enter(c, "refused") /\ UNCHANGED pageVars
  BY DEF Take
<1>3. /\ cursors' \in [Calls -> Cursor \cup {None}]
      /\ \A k \in Calls : cursors'[k] \in {cursors[k], None}
      /\ asked[c] \in Calls => cursors'[asked[c]] = None
  BY <1>1, <1>2, KeepTypes DEF PageTypes
<1>4. CASE asked[c] \notin Fresh(t)
  BY <1>1, <1>2, <1>3, <1>4, EnterTypes DEF NoNewPage, PageTypes, Delivered, Steps, pageVars
<1>5. CASE asked[c] \in Fresh(t)
  <2>1. PICK k \in Calls : k = asked[c] /\ k \in Stored
    BY <1>5 DEF Fresh, Stored
  <2>2. /\ cursors[k].snapshot = snap[k] /\ cursors[k].offset = upto[k]
        /\ snap[k] \in Snapshot /\ upto[k] \in Nat /\ upto[k] < snap[k].size
    BY <2>1 DEF PInv, CursorsContinue, PagesHaveSnapshots, Delivered, PageTypes
  <2>3. PICK limit \in 1..MaxLimit : CutPage(c, snap[k], upto[k], limit)
    BY <1>2, <1>5, <2>1, <2>2
  <2>4. upto[k] <= snap[k].size
    BY <2>2 DEF Snapshot
  <2>5. FollowingPage(c, k)
    BY <1>1, <1>2, <1>3, <1>5, <2>1, <2>2, <2>3, <2>4, CutPageTypes DEF FollowingPage, PageTypes
  <2> QED BY <2>1, <2>5
<1> QED BY <1>4, <1>5

LEMMA StoreShape == ASSUME PInv, NEW c \in Calls, Store(c) PROVE Kept(c)
<1>1. PageTypes /\ pc[c] = "storing" /\ UNCHANGED <<now, asked, snap, from, upto>>
  BY DEF PInv, Store, pageVars
<1>2. Enter(c, "answered")
  BY DEF Store
<1>3. PICK t \in Clock(c) :
         /\ \E queue : cursors' = [k \in Calls |->
               IF k = c THEN [snapshot |-> snap[c], offset |-> upto[c], expires |-> t + Lifetime]
               ELSE IF k \in RangeOf(queue) THEN cursors[k] ELSE None]
         /\ deadline' = [deadline EXCEPT ![c] = t + Lifetime]
  BY DEF Store
<1>4. t + Lifetime \in Nat
  BY <1>1, CursorConstants DEF Clock, PageTypes
<1>5. snap[c] \in Snapshot /\ upto[c] \in Nat
  BY <1>1 DEF PInv, PagesHaveSnapshots, Delivered, PageTypes
<1> DEFINE new == [snapshot |-> snap[c], offset |-> upto[c], expires |-> t + Lifetime]
<1>6. /\ new \in Cursor /\ new.snapshot = snap[c] /\ new.offset = upto[c]
      /\ new.expires = t + Lifetime
  BY <1>4, <1>5 DEF Cursor
<1>7. new # None
  BY <1>6, NoneIsNothing
<1> HIDE DEF new
<1>8. PICK queue : cursors' = [k \in Calls |-> IF k = c THEN new
                    ELSE IF k \in RangeOf(queue) THEN cursors[k] ELSE None]
  BY <1>3 DEF new
<1>9. PageTypes'
  BY <1>1, <1>2, <1>3, <1>4, <1>6, <1>8, EnterTypes DEF PageTypes, Steps
<1> QED BY <1>1, <1>2, <1>3, <1>6, <1>7, <1>8, <1>9, EnterTypes DEF Kept, PageTypes, Steps

----
(* Theorems *)

LEMMA StepKeeps == PInv /\ [Next]_vars => PInv'
<1> SUFFICES ASSUME PInv, [Next]_vars PROVE PInv'
  OBVIOUS
<1>1. CASE Tick \/ UNCHANGED vars \/ \E c \in Calls, a \in Accounts : Reply(c, a)
  BY <1>1, QuietShape, NoNewPageKeeps
<1>2. CASE \E a \in Accounts : WipeElsewhere(a)
  BY <1>2, WipeShape, NoNewPageKeeps
<1>3. CASE \E c \in Calls : List(c) \/ Cancel(c) \/ \E k \in Calls : Ask(c, k)
  BY <1>3, ListShape, CancelShape, AskShape, NoNewPageKeeps
<1>4. ASSUME NEW c \in Calls, Collect(c) PROVE PInv'
  BY <1>4, CollectShape, NoNewPageKeeps, FirstPageKeeps
<1>5. ASSUME NEW c \in Calls, Take(c) PROVE PInv'
  BY <1>5, TakeShape, NoNewPageKeeps, FollowingPageKeeps
<1>6. ASSUME NEW c \in Calls, Store(c) PROVE PInv'
  BY <1>6, StoreShape, KeptKeeps
<1> QED BY <1>1, <1>2, <1>3, <1>4, <1>5, <1>6 DEF Next

\* PInv, which says that a snapshot has one head, holds in every reachable
\* state of the store (references.rs).
THEOREM PagesInvariance == Spec => []PInv
<1>1. Init => PInv
  BY DEF Init, PInv, PageTypes, Steps, CursorsContinue, PagesHaveSnapshots, HeadsLead,
         PagesTile, Delivered, Stored
<1> QED BY <1>1, StepKeeps, PTL DEF Spec

\* No mail of a snapshot is given out twice and none is skipped, whichever
\* cursors clients follow or repeat (first_page, next_page).
THEOREM PagesNeverOverlap == Spec => []PagesTile
<1>1. PInv => PagesTile
  BY DEF PInv
<1> QED BY <1>1, PagesInvariance, PTL

\* next_page never serves a cursor that had expired when the client asked.
THEOREM ExpiredIsRefused == Spec => NothingStaleIsServed
<1>1. ASSUME PInv, [Next]_vars
      PROVE  [\A c \in Calls : pc[c] = "asking" /\ Delivered(c)' => since[c] < deadline[asked[c]]]_vars
  <2> SUFFICES ASSUME NEW c \in Calls, pc[c] = "asking", Delivered(c)', Next
               PROVE  since[c] < deadline[asked[c]]
    BY <1>1 DEF vars, Delivered, storeVars, pageVars, pastVars
  <2>1. Take(c)
    <3>1. ASSUME NEW d \in Calls, d # c,
                 \/ List(d) \/ Collect(d) \/ Cancel(d) \/ Take(d) \/ Store(d)
                 \/ \E k \in Calls : Ask(d, k)
          PROVE  pc'[c] = pc[c]
      BY <3>1, <1>1 DEF List, Collect, Cancel, Take, Store, Ask, CutPage, Enter, PInv, PageTypes
    <3>2. ASSUME \/ List(c) \/ Collect(c) \/ Cancel(c) \/ Store(c)
                 \/ \E k \in Calls : Ask(c, k)
          PROVE  FALSE
      BY <3>2 DEF List, Collect, Cancel, Store, Ask
    <3>3. ASSUME \/ Tick \/ \E a \in Accounts : WipeElsewhere(a)
                 \/ \E d \in Calls, a \in Accounts : Reply(d, a)
          PROVE  pc' = pc
      BY <3>3 DEF Tick, WipeElsewhere, Reply
    <3> QED BY <3>1, <3>2, <3>3 DEF Next, Delivered
  <2>2. PICK t \in Clock(c) : asked[c] \in Fresh(t)
    <3>1. PICK t \in Clock(c) : asked[c] \notin Fresh(t) => Enter(c, "refused")
      BY <2>1 DEF Take
    <3>2. ~Enter(c, "refused")
      BY <1>1 DEF Enter, Delivered, PInv, PageTypes
    <3> QED BY <3>1, <3>2
  <2>3. cursors[asked[c]].expires > t /\ cursors[asked[c]].expires = deadline[asked[c]]
        /\ cursors[asked[c]] \in Cursor
    BY <1>1, <2>2 DEF Fresh, Stored, PInv, CursorsContinue, PageTypes
  <2> QED BY <1>1, <2>3 DEF Clock, Cursor, PInv, PageTypes
<1> QED BY <1>1, PagesInvariance, PTL DEF Spec, NothingStaleIsServed

----
(* Queues *)

\* The numbers of a finite set, counted from the least.
LEMMA Ranks ==
    ASSUME NEW places \in SUBSET Nat, IsFiniteSet(places)
    PROVE  LET rank(i) == Cardinality({j \in places : j < i})
               m == Cardinality(places)
           IN  /\ m \in Nat
               /\ \A i \in places : rank(i) \in 0..m - 1
               /\ \A i, j \in places : i < j => rank(i) < rank(j)
               /\ \A n \in 0..m - 1 : \E i \in places : rank(i) = n
<1> DEFINE below(i) == {j \in places : j < i}
           m == Cardinality(places)
           rank == [i \in places |-> Cardinality(below(i))]
<1>1. m \in Nat
  BY FS_CardinalityType
<1>2. \A i \in places : IsFiniteSet(below(i)) /\ Cardinality(below(i)) \in Nat
  BY FS_Subset, FS_CardinalityType
<1>3. ASSUME NEW i \in places
      PROVE  Cardinality(below(i)) \in 0..m - 1
  <2>1. below(i) \in SUBSET places /\ below(i) # places
    BY DEF below
  <2>2. Cardinality(below(i)) <= m /\ Cardinality(below(i)) # m
    <3> HIDE DEF below
    <3> QED BY <2>1, FS_Subset
  <2> QED BY <1>1, <1>2, <2>2
<1>4. ASSUME NEW i \in places, NEW j \in places, i < j
      PROVE  Cardinality(below(i)) < Cardinality(below(j))
  <2>0. /\ i \in Nat /\ j \in Nat /\ \A x \in places : x \in Nat
        /\ \A x : x \in below(i) <=> x \in places /\ x < i
        /\ \A x : x \in below(j) <=> x \in places /\ x < j
    OBVIOUS
  <2>1. below(i) \in SUBSET below(j) /\ i \in below(j) /\ i \notin below(i)
    <3> HIDE DEF below
    <3>1. \A x \in places : x < i => x < j
      BY <1>4, <2>0
    <3>2. below(i) \subseteq below(j)
      BY <2>0, <3>1
    <3>3. i \in below(j)
      BY <1>4, <2>0
    <3>4. ~(i < i)
      BY <2>0
    <3> QED BY <2>0, <3>2, <3>3, <3>4
  <2>2. below(i) # below(j)
    BY <2>1
  <2>3. Cardinality(below(i)) <= Cardinality(below(j)) /\ Cardinality(below(i)) # Cardinality(below(j))
    <3> HIDE DEF below
    <3> QED BY <1>2, <2>1, <2>2, FS_Subset
  <2> QED BY <1>2, <2>3
<1> HIDE DEF below
<1>5. rank \in [places -> 0..m - 1]
  BY <1>3
<1>6. rank \in Injection(places, 0..m - 1)
  <2>1. ASSUME NEW i \in places, NEW j \in places, i # j
        PROVE  rank[i] # rank[j]
    <3>1. i < j \/ j < i
      BY <2>1
    <3> QED BY <1>2, <1>4, <3>1
  <2> QED BY <1>5, <2>1 DEF Injection, IsInjective
<1>7. IsFiniteSet(0..m - 1) /\ Cardinality(0..m - 1) = m
  <2>1. 0 \in Int /\ m - 1 \in Int /\ m \in Nat
    BY <1>1
  <2> HIDE DEF m
  <2>2. /\ IsFiniteSet(0..m - 1)
        /\ Cardinality(0..m - 1) = IF 0 > m - 1 THEN 0 ELSE (m - 1) - 0 + 1
    BY <2>1, FS_Interval
  <2> QED BY <2>1, <2>2
<1>8. rank \in Surjection(places, 0..m - 1)
  <2> HIDE DEF rank
  <2> QED BY <1>6, <1>7, FS_Injection
<1>9. \A n \in 0..m - 1 : \E i \in places : rank[i] = n
  BY <1>8 DEF Surjection
<1> QED BY <1>1, <1>3, <1>4, <1>9 DEF below

\* What stays of a queue has places of its own, in the same order.
LEMMA FilteredFacts ==
    ASSUME NEW T, NEW queue \in Seq(T), NEW S
    PROVE  /\ Filtered(queue, S) \in Seq(T)
           /\ Len(Filtered(queue, S)) <= Len(queue)
           /\ RangeOf(Filtered(queue, S)) = RangeOf(queue) \cap S
           /\ \E place \in [1..Len(Filtered(queue, S)) -> 1..Len(queue)] :
                 /\ \A n \in 1..Len(Filtered(queue, S)) : Filtered(queue, S)[n] = queue[place[n]]
                 /\ \A x, y \in 1..Len(Filtered(queue, S)) : x < y => place[x] < place[y]
<1> DEFINE places == {i \in DOMAIN queue : queue[i] \in S}
           rank == [i \in places |-> Cardinality({j \in places : j < i})]
           m == Cardinality(places)
           Place(n) == CHOOSE i \in places : Cardinality({j \in places : j < i}) = n
           place == [n \in 1..m |-> Place(n - 1)]
           F == Filtered(queue, S)
<1>1. DOMAIN queue = 1..Len(queue) /\ Len(queue) \in Nat /\ places \in SUBSET (1..Len(queue))
  OBVIOUS
<1>2. IsFiniteSet(places) /\ places \in SUBSET Nat /\ m <= Len(queue)
  <2>1. IsFiniteSet(1..Len(queue)) /\ Cardinality(1..Len(queue)) = Len(queue)
    <3>1. 1 \in Int /\ Len(queue) \in Int /\ Len(queue) >= 0
      BY <1>1
    <3>2. Cardinality(1..Len(queue)) = IF 1 > Len(queue) THEN 0 ELSE Len(queue) - 1 + 1
      BY <3>1, FS_Interval
    <3> QED BY <3>1, <3>2, FS_Interval
  <2> HIDE DEF places
  <2>2. IsFiniteSet(places) /\ Cardinality(places) <= Cardinality(1..Len(queue))
    BY <1>1, <2>1, FS_Subset
  <2>3. places \in SUBSET Nat
    BY <1>1
  <2> QED BY <2>1, <2>2, <2>3
<1>3. F = [n \in 1..m |-> queue[Place(n - 1)]]
  BY DEF Filtered
<1>4. \A i \in places : i \in 1..Len(queue) /\ queue[i] \in S
  BY <1>1
<1>5. \A i \in 1..Len(queue) : queue[i] \in S => i \in places
  BY <1>1
<1> HIDE DEF places
<1>6. /\ m \in Nat
      /\ \A i \in places : rank[i] \in 0..m - 1
      /\ \A i, j \in places : i < j => rank[i] < rank[j]
      /\ \A n \in 0..m - 1 : \E i \in places : rank[i] = n
  BY <1>2, Ranks
<1>7. \A n \in 0..m - 1 : Place(n) \in places /\ rank[Place(n)] = n
  BY <1>6
<1> HIDE DEF Place, rank, m
<1>8. \A n \in 1..m : place[n] \in places /\ rank[place[n]] = n - 1 /\ F[n] = queue[place[n]]
  BY <1>3, <1>6, <1>7
<1> HIDE DEF place, F
<1>9. \A i \in places : \E n \in 1..m : place[n] = i
  <2>1. ASSUME NEW i \in places
        PROVE  \E n \in 1..m : place[n] = i
    <3>1. rank[i] \in Nat /\ rank[i] + 1 \in 1..m
      BY <1>6
    <3>2. place[rank[i] + 1] \in places /\ rank[place[rank[i] + 1]] = rank[i]
      BY <1>8, <3>1
    <3>3. ASSUME NEW x \in places, rank[x] = rank[i]
          PROVE  x = i
      <4>1. x \in Nat /\ i \in Nat /\ rank[x] \in Nat /\ ~(rank[x] < rank[i]) /\ ~(rank[i] < rank[x])
        BY <1>2, <1>6, <3>1, <3>3
      <4>2. ~(x < i) /\ ~(i < x)
        BY <1>6, <4>1
      <4> QED BY <4>1, <4>2
    <3> QED BY <3>1, <3>2, <3>3
  <2> QED BY <2>1
<1>10. \A x, y \in 1..m : x < y => place[x] < place[y]
  <2>1. ASSUME NEW x \in 1..m, NEW y \in 1..m, x < y
        PROVE  place[x] < place[y]
    <3>1. x \in Nat /\ y \in Nat /\ ~(y - 1 < x - 1) /\ x - 1 # y - 1
      BY <1>6, <2>1
    <3>2. PICK a \in places, b \in places : /\ a = place[x] /\ rank[a] = x - 1
                                           /\ b = place[y] /\ rank[b] = y - 1
      BY <1>8
    <3>3. a \in Nat /\ b \in Nat /\ a # b /\ ~(b < a)
      BY <1>2, <1>6, <3>1, <3>2
    <3> QED BY <3>2, <3>3
  <2> QED BY <2>1
<1>11. F \in Seq(T) /\ Len(F) = m /\ DOMAIN F = 1..m
  <2>1. ASSUME NEW n \in 1..m
        PROVE  queue[Place(n - 1)] \in T
    <3>1. n - 1 \in 0..m - 1
      BY <1>6
    <3>2. Place(n - 1) \in 1..Len(queue)
      BY <1>4, <1>7, <3>1
    <3> QED BY <3>2
  <2> QED BY <1>3, <1>6, <2>1
<1>12. RangeOf(F) = RangeOf(queue) \cap S
  <2>1. ASSUME NEW x \in RangeOf(F)
        PROVE  x \in RangeOf(queue) \cap S
    <3>1. PICK n \in 1..m : x = F[n]
      BY <1>11 DEF RangeOf
    <3>2. place[n] \in places /\ F[n] = queue[place[n]]
      BY <1>8
    <3> QED BY <1>1, <1>4, <3>1, <3>2 DEF RangeOf
  <2>2. ASSUME NEW x \in RangeOf(queue) \cap S
        PROVE  x \in RangeOf(F)
    <3>1. PICK i \in 1..Len(queue) : x = queue[i]
      BY <1>1 DEF RangeOf
    <3>2. PICK n \in 1..m : place[n] = i
      BY <1>5, <1>9, <3>1
    <3>3. F[n] = x
      BY <1>8, <3>1, <3>2
    <3> QED BY <1>11, <3>3 DEF RangeOf
  <2> QED BY <2>1, <2>2
<1>13. place \in [1..m -> 1..Len(queue)]
  <2>1. place = [n \in 1..m |-> Place(n - 1)]
    BY DEF place
  <2>2. \A n \in 1..m : Place(n - 1) \in 1..Len(queue)
    BY <1>4, <1>6, <1>7
  <2> QED BY <2>1, <2>2
<1> QED BY <1>2, <1>8, <1>10, <1>11, <1>12, <1>13 DEF F

----
(* The queue of the store and the fate of its cursors *)

RestTypes ==
    /\ disabled \subseteq Accounts
    /\ order \in Seq(Calls)
    /\ prunedAt \in Nat \cup {None}
    /\ reply \in [Calls -> [Accounts -> {"none", "awaited", "mail", "failed", "wiped"}]]
    /\ log \in Seq(Calls)
    /\ purged \subseteq Calls
    /\ \A c \in Calls : Delivered(c) => upto[c] <= snap[c].size

\* A queue names cursors in the order in which they were stored, each once.
Ascending(queue) ==
    \A i, j \in DOMAIN queue : \A x, y \in DOMAIN log :
        i < j /\ log[x] = queue[i] /\ log[y] = queue[j] => x < y

QueueSound ==
    /\ RangeOf(order) = Stored
    /\ Stored \subseteq RangeOf(log)
    /\ Len(order) <= MaxSnapshots
    /\ Ascending(order)

\* A call stores at most one cursor, when its page is complete.
LogSound ==
    /\ \A x, y \in DOMAIN log : log[x] = log[y] => x = y
    /\ \A k \in Calls : deadline[k] # None => k \in RangeOf(log)
    /\ \A k \in RangeOf(log) : pc[k] = "answered" /\ deadline[k] # None
    /\ \A k \in Calls : pc[k] = "answered" /\ MailLeft(k) => k \in RangeOf(log)

\* Why a cursor may be missing.
Gone(k) ==
    \/ \E d \in Calls : asked[d] = k /\ Delivered(d)
    \/ deadline[k] # None /\ deadline[k] <= now
    \/ k \in purged
    \/ \E i \in DOMAIN log : log[i] = k /\ Len(log) - i >= MaxSnapshots

Fates == \A k \in RangeOf(log) : k \in Stored \/ Gone(k)

Askers ==
    \A c \in Calls :
        /\ pc[c] \in {"asking", "refused"} => asked[c] \in RangeOf(log)
        /\ \A k \in RangeOf(log) : pc[c] = "refused" /\ asked[c] = k => Gone(k)

QInv == RestTypes /\ QueueSound /\ LogSound /\ Fates /\ Askers

\* The youngest of a queue are its end; it is cut only down to the bound.
LEMMA YoungestFacts ==
    ASSUME NEW T, NEW queue \in Seq(T)
    PROVE  /\ Youngest(queue) \in Seq(T)
           /\ Len(Youngest(queue)) + 1 <= MaxSnapshots
           /\ \E cut \in 0..Len(queue) :
                 /\ Len(Youngest(queue)) = Len(queue) - cut
                 /\ \A n \in 1..Len(Youngest(queue)) : Youngest(queue)[n] = queue[n + cut]
                 /\ cut # 0 => Len(Youngest(queue)) + 1 = MaxSnapshots
<1> DEFINE gap == Len(queue) - MaxSnapshots + 1
           end == SubSeq(queue, Len(queue) - MaxSnapshots + 2, Len(queue))
<1>1. MaxSnapshots \in Nat /\ MaxSnapshots >= 1 /\ Len(queue) \in Nat
  BY CursorConstants
<1>2. CASE Len(queue) < MaxSnapshots
  <2>1. Youngest(queue) = queue
    BY <1>2 DEF Youngest
  <2>2. 0 \in 0..Len(queue) /\ \A n \in 1..Len(queue) : n + 0 = n
    BY <1>1
  <2>3. /\ Len(Youngest(queue)) = Len(queue) - 0
        /\ \A n \in 1..Len(Youngest(queue)) : Youngest(queue)[n] = queue[n + 0]
    BY <1>1, <2>1, <2>2
  <2>4. Youngest(queue) \in Seq(T) /\ Len(Youngest(queue)) + 1 <= MaxSnapshots
    BY <1>1, <1>2, <2>1
  <2>5. \E cut \in 0..Len(queue) :
           /\ Len(Youngest(queue)) = Len(queue) - cut
           /\ \A n \in 1..Len(Youngest(queue)) : Youngest(queue)[n] = queue[n + cut]
           /\ cut # 0 => Len(Youngest(queue)) + 1 = MaxSnapshots
    <3> WITNESS 0 \in 0..Len(queue)
    <3> QED BY <2>3
  <2> QED BY <2>4, <2>5
<1>3. CASE ~(Len(queue) < MaxSnapshots)
  <2>1. Youngest(queue) = end
    BY <1>3 DEF Youngest
  <2>2. /\ gap \in 0..Len(queue) /\ gap # 0
        /\ end \in Seq(T) /\ Len(end) = MaxSnapshots - 1 /\ Len(end) = Len(queue) - gap
    BY <1>1, <1>3
  <2>3. \A n \in 1..Len(end) : end[n] = queue[n + gap]
    BY <1>1, <1>3
  <2> HIDE DEF gap, end
  <2>4. Youngest(queue) \in Seq(T) /\ Len(Youngest(queue)) + 1 <= MaxSnapshots
    BY <1>1, <2>1, <2>2
  <2>5. \E cut \in 0..Len(queue) :
           /\ Len(Youngest(queue)) = Len(queue) - cut
           /\ \A n \in 1..Len(Youngest(queue)) : Youngest(queue)[n] = queue[n + cut]
           /\ cut # 0 => Len(Youngest(queue)) + 1 = MaxSnapshots
    <3> gap \in 0..Len(queue)
      BY <2>2
    <3> WITNESS gap \in 0..Len(queue)
    <3> QED BY <1>1, <2>1, <2>2, <2>3
  <2> QED BY <2>4, <2>5
<1> QED BY <1>2, <1>3

\* What is taken from an ascending queue in its order is ascending.
LEMMA ThinnerAscends ==
    ASSUME NEW queue \in Seq(Calls), NEW rest \in Seq(Calls), Ascending(queue),
           NEW place \in [1..Len(rest) -> 1..Len(queue)],
           \A n \in 1..Len(rest) : rest[n] = queue[place[n]],
           \A m, n \in 1..Len(rest) : m < n => place[m] < place[n]
    PROVE  Ascending(rest)
<1>1. DOMAIN queue = 1..Len(queue) /\ DOMAIN rest = 1..Len(rest)
  OBVIOUS
<1>2. ASSUME NEW i \in 1..Len(rest), NEW j \in 1..Len(rest), NEW x \in DOMAIN log, NEW y \in DOMAIN log,
             i < j, log[x] = rest[i], log[y] = rest[j]
      PROVE  x < y
  <2>1. place[i] \in DOMAIN queue /\ place[j] \in DOMAIN queue /\ place[i] < place[j]
    BY <1>1, <1>2
  <2>2. log[x] = queue[place[i]] /\ log[y] = queue[place[j]]
    BY <1>2
  <2> QED BY <2>1, <2>2 DEF Ascending
<1> QED BY <1>1, <1>2 DEF Ascending

\* Filtering keeps what the queue says of the cursors that stay.
LEMMA FilterKeeps ==
    ASSUME RestTypes, QueueSound, NEW kept
    PROVE  /\ Filtered(order, kept) \in Seq(Calls)
           /\ Len(Filtered(order, kept)) <= MaxSnapshots
           /\ RangeOf(Filtered(order, kept)) = Stored \cap kept
           /\ Ascending(Filtered(order, kept))
<1> DEFINE F == Filtered(order, kept)
<1>1. order \in Seq(Calls) /\ Ascending(order) /\ RangeOf(order) = Stored /\ Len(order) <= MaxSnapshots
  BY DEF RestTypes, QueueSound
<1>2. /\ F \in Seq(Calls) /\ Len(F) <= Len(order) /\ RangeOf(F) = RangeOf(order) \cap kept
      /\ \E place \in [1..Len(F) -> 1..Len(order)] :
            /\ \A n \in 1..Len(F) : F[n] = order[place[n]]
            /\ \A x, y \in 1..Len(F) : x < y => place[x] < place[y]
  BY <1>1, FilteredFacts
<1> HIDE DEF F
<1>3. Ascending(F)
  BY <1>1, <1>2, ThinnerAscends
<1>4. Len(F) <= MaxSnapshots
  BY <1>1, <1>2, CursorConstants
<1>5. /\ F \in Seq(Calls) /\ Len(F) <= MaxSnapshots /\ RangeOf(F) = Stored \cap kept /\ Ascending(F)
  BY <1>1, <1>2, <1>3, <1>4
<1> QED BY <1>5 DEF F

LEMMA KeepQueue ==
    ASSUME PageTypes, RestTypes, QueueSound, NEW kept, Keep(kept), log' = log
    PROVE  order' \in Seq(Calls) /\ QueueSound' /\ Stored' = Stored \cap kept
<1>1. /\ order' \in Seq(Calls) /\ Len(order') <= MaxSnapshots
      /\ RangeOf(order') = Stored \cap kept /\ Ascending(order')
  BY FilterKeeps DEF Keep
<1>2. Stored' = Stored \cap kept
  BY DEF Keep, Stored
<1>3. Stored \cap kept \subseteq RangeOf(log)
  BY DEF QueueSound
<1>4. Ascending(order)'
  BY <1>1 DEF Ascending
<1>5. RangeOf(order)' = RangeOf(order') /\ RangeOf(log)' = RangeOf(log)
  BY DEF RangeOf
<1> QED BY <1>1, <1>2, <1>3, <1>4, <1>5 DEF QueueSound

\* What a call does in a step that stores no cursor.
Moves(d) ==
    \/ pc'[d] = pc[d] /\ asked'[d] = asked[d] /\ snap'[d] = snap[d] /\ upto'[d] = upto[d]
    \/ /\ ~Delivered(d)
       /\ \/ pc'[d] \in {"reading", "failed"}
          \/ pc'[d] = "asking" /\ asked'[d] \in RangeOf(log)
          \/ \E k \in RangeOf(log) : pc'[d] = "refused" /\ asked'[d] = k /\ Gone(k)'
          \/ pc'[d] = "storing" /\ upto'[d] <= snap'[d].size
          \/ pc'[d] = "answered" /\ upto'[d] <= snap'[d].size /\ ~MailLeft(d)'

\* A reason remains one.
LEMMA GoneStays ==
    ASSUME PInv, now' \in Nat, now <= now', log' = log, deadline' = deadline,
           purged \subseteq purged',
           \A d \in Calls : Delivered(d) => pc'[d] = pc[d] /\ asked'[d] = asked[d],
           NEW k \in Calls, Gone(k)
    PROVE  Gone(k)'
<1>1. CASE \E d \in Calls : asked[d] = k /\ Delivered(d)
  BY <1>1 DEF Gone, Delivered
<1>2. CASE deadline[k] # None /\ deadline[k] <= now
  <2>1. deadline[k] \in Nat /\ now \in Nat
    BY <1>2 DEF PInv, PageTypes
  <2> QED BY <1>2, <2>1 DEF Gone
<1>3. CASE k \in purged \/ \E i \in DOMAIN log : log[i] = k /\ Len(log) - i >= MaxSnapshots
  BY <1>3 DEF Gone
<1> QED BY <1>1, <1>2, <1>3 DEF Gone

\* A step that stores no cursor keeps the invariant if it has a reason for each
\* cursor it removes.
LEMMA MovesKeep ==
    ASSUME PInv, QInv, now \in Nat, now' \in Nat, now <= now', log' = log, deadline' = deadline,
           purged \subseteq purged', RestTypes', QueueSound',
           \A k \in Stored \ Stored' : Gone(k)', \A d \in Calls : Moves(d)
    PROVE  QInv'
<1>a. /\ RangeOf(log)' = RangeOf(log) /\ RangeOf(log) \subseteq Calls
      /\ DOMAIN log = 1..Len(log) /\ Len(log) \in Nat
  BY DEF RangeOf, QInv, RestTypes
<1>b. \A k \in RangeOf(log) : pc[k] = "answered" /\ Delivered(k)
  BY DEF QInv, LogSound, Delivered
<1>c. \A d \in Calls : Delivered(d) =>
          pc'[d] = pc[d] /\ asked'[d] = asked[d] /\ snap'[d] = snap[d] /\ upto'[d] = upto[d]
  BY DEF Moves
<1>1. ASSUME NEW k \in Calls, Gone(k)
      PROVE  Gone(k)'
  BY <1>c, <1>1, GoneStays
<1>2. Fates'
  <2>1. ASSUME NEW k \in RangeOf(log), k \notin Stored'
        PROVE  Gone(k)'
    BY <1>a, <1>1, <2>1 DEF QInv, Fates
  <2> QED BY <1>a, <2>1 DEF Fates
<1>3. LogSound'
  <2>1. \A k \in RangeOf(log) : pc'[k] = "answered"
    BY <1>a, <1>b, <1>c
  <2>2. ASSUME NEW k \in Calls, pc'[k] = "answered", MailLeft(k)'
        PROVE  k \in RangeOf(log)
    <3>1. pc[k] = "answered" /\ MailLeft(k)
      BY <2>2 DEF Moves, MailLeft
    <3> QED BY <3>1 DEF QInv, LogSound
  <2> QED BY <1>a, <2>1, <2>2 DEF QInv, LogSound
<1>4. Askers'
  <2>1. ASSUME NEW c \in Calls
        PROVE  /\ pc'[c] \in {"asking", "refused"} => asked'[c] \in RangeOf(log)
               /\ \A k \in RangeOf(log) : pc'[c] = "refused" /\ asked'[c] = k => Gone(k)'
    <3>1. CASE pc'[c] = pc[c] /\ asked'[c] = asked[c]
      <4>1. \A k \in RangeOf(log) : pc[c] = "refused" /\ asked[c] = k => Gone(k)
        BY DEF QInv, Askers
      <4> QED BY <1>a, <1>1, <3>1, <4>1 DEF QInv, Askers
    <3>2. CASE ~(pc'[c] = pc[c] /\ asked'[c] = asked[c])
      <4>1. \/ pc'[c] \in {"reading", "failed", "storing", "answered"}
            \/ pc'[c] = "asking" /\ asked'[c] \in RangeOf(log)
            \/ \E k \in RangeOf(log) : pc'[c] = "refused" /\ asked'[c] = k /\ Gone(k)'
        BY <3>2 DEF Moves
      <4> QED BY <4>1
    <3> QED BY <3>1, <3>2
  <2> QED BY <1>a, <2>1 DEF Askers
<1> QED BY <1>2, <1>3, <1>4 DEF QInv

\* A cursor that the bound pushes out is followed by as many younger ones as
\* the store retains, the new one included.
LEMMA EvictedAreOld ==
    ASSUME log \in Seq(Calls), NEW queue \in Seq(Calls), Ascending(queue),
           RangeOf(queue) \subseteq RangeOf(log),
           NEW cut \in 0..Len(queue), NEW i \in 1..cut, NEW x \in DOMAIN log, log[x] = queue[i]
    PROVE  Len(queue) - cut <= Len(log) - x
<1> DEFINE m == Len(queue) - cut
           at == [n \in 1..m |-> CHOOSE y \in DOMAIN log : log[y] = queue[n + cut]]
<1>1. /\ DOMAIN queue = 1..Len(queue) /\ DOMAIN log = 1..Len(log)
      /\ Len(queue) \in Nat /\ Len(log) \in Nat /\ m \in Nat /\ i \in Nat /\ cut \in Nat
      /\ x \in Nat /\ x <= Len(log) /\ i \in DOMAIN queue
      /\ \A n \in 1..m : n + cut \in 1..Len(queue) /\ i < n + cut
  OBVIOUS
<1>2. \A n \in 1..m : \E y \in DOMAIN log : log[y] = queue[n + cut]
  <2>1. \A n \in 1..m : queue[n + cut] \in RangeOf(log)
    BY <1>1 DEF RangeOf
  <2> QED BY <2>1 DEF RangeOf
<1>3. \A n \in 1..m : at[n] \in DOMAIN log /\ log[at[n]] = queue[n + cut]
  BY <1>2
<1>4. at \in [1..m -> DOMAIN log]
  BY <1>2
<1> HIDE DEF at, m
<1>5. \A n \in 1..m : at[n] \in x + 1..Len(log)
  <2>1. ASSUME NEW n \in 1..m
        PROVE  at[n] \in x + 1..Len(log)
    <3>1. PICK y \in DOMAIN log : y = at[n] /\ log[y] = queue[n + cut]
      BY <1>3
    <3>2. x < y
      BY <1>1, <3>1 DEF Ascending
    <3> QED BY <1>1, <3>1, <3>2
  <2> QED BY <2>1
<1>6. \A p, q \in 1..m : p # q => at[p] # at[q]
  <2>1. ASSUME NEW p \in 1..m, NEW q \in 1..m, p < q
        PROVE  at[p] # at[q]
    <3>1. PICK y \in DOMAIN log, z \in DOMAIN log :
             /\ y = at[p] /\ log[y] = queue[p + cut]
             /\ z = at[q] /\ log[z] = queue[q + cut]
      BY <1>3
    <3>2. p + cut \in DOMAIN queue /\ q + cut \in DOMAIN queue
      BY <1>1
    <3>3. p + cut < q + cut
      <4>1. p \in Int /\ q \in Int /\ cut \in Int
        OBVIOUS
      <4> QED BY <2>1, <4>1
    <3>4. y < z
      BY <3>1, <3>2, <3>3 DEF Ascending
    <3> QED BY <1>1, <3>1, <3>4
  <2>2. \A p, q \in 1..m : p # q => p < q \/ q < p
    BY <1>1
  <2> QED BY <2>1, <2>2
<1>7. at \in Injection(1..m, x + 1..Len(log))
  BY <1>4, <1>5, <1>6 DEF Injection, IsInjective
<1>8. /\ IsFiniteSet(1..m) /\ Cardinality(1..m) = m
      /\ IsFiniteSet(x + 1..Len(log)) /\ Cardinality(x + 1..Len(log)) = Len(log) - x
  <2>1. 1 \in Int /\ m \in Int /\ x + 1 \in Int /\ Len(log) \in Int
    BY <1>1
  <2>2. /\ IsFiniteSet(1..m) /\ Cardinality(1..m) = IF 1 > m THEN 0 ELSE m - 1 + 1
        /\ IsFiniteSet(x + 1..Len(log))
        /\ Cardinality(x + 1..Len(log)) = IF x + 1 > Len(log) THEN 0 ELSE Len(log) - (x + 1) + 1
    BY <2>1, FS_Interval
  <2> QED BY <1>1, <2>2
<1>9. m <= Len(log) - x
  BY <1>7, <1>8, FS_Injection
<1> QED BY <1>9 DEF m

\* store_cursor: the new cursor joins the queue, and what leaves it has expired
\* or is among the oldest.
LEMMA StoreKeepsQueue ==
    ASSUME PInv, QInv, PInv', NEW c \in Calls, Store(c)
    PROVE  QInv'
<1>1. /\ pc[c] = "storing" /\ c \notin RangeOf(log) /\ now \in Nat /\ now' = now
      /\ UNCHANGED <<asked, snap, upto, purged, disabled, reply>>
      /\ log \in Seq(Calls) /\ DOMAIN log = 1..Len(log) /\ Len(log) \in Nat
      /\ RangeOf(log) \subseteq Calls
  <2>1. pc[c] = "storing" /\ now' = now /\ UNCHANGED <<asked, snap, upto, purged, disabled, reply>>
    BY DEF Store, pageVars
  <2>2. now \in Nat /\ log \in Seq(Calls) /\ RangeOf(log) \subseteq Calls
    BY DEF PInv, PageTypes, QInv, RestTypes, RangeOf
  <2>3. c \notin RangeOf(log)
    BY <2>1 DEF QInv, LogSound
  <2> QED BY <2>1, <2>2, <2>3
<1>2. PICK t \in Clock(c) :
         LET pruned == IF PruneDue(t) THEN Filtered(order, Fresh(t)) ELSE order
             queue  == Youngest(pruned)
         IN  /\ order' = Append(queue, c)
             /\ cursors' = [k \in Calls |->
                    IF k = c THEN [snapshot |-> snap[c], offset |-> upto[c],
                                   expires |-> t + Lifetime]
                    ELSE IF k \in RangeOf(queue) THEN cursors[k] ELSE None]
             /\ prunedAt' = IF PruneDue(t) THEN t ELSE prunedAt
             /\ log' = Append(log, c)
             /\ deadline' = [deadline EXCEPT ![c] = t + Lifetime]
  BY DEF Store
<1> DEFINE pruned == IF PruneDue(t) THEN Filtered(order, Fresh(t)) ELSE order
           queue  == Youngest(pruned)
<1>3. /\ order' = Append(queue, c)
      /\ \A k \in Calls \ {c} : cursors'[k] = IF k \in RangeOf(queue) THEN cursors[k] ELSE None
      /\ prunedAt' \in {t, prunedAt}
      /\ log' = Append(log, c)
      /\ \A k \in Calls \ {c} : deadline'[k] = deadline[k]
      /\ deadline'[c] = t + Lifetime
  BY <1>2 DEF PInv, PageTypes
<1>4. t \in Nat /\ t <= now /\ t + Lifetime \in Nat /\ deadline'[c] # None
  BY <1>1, <1>3, CursorConstants, NoneIsNothing DEF Clock, PInv, PageTypes
<1>5. cursors'[c] # None /\ pc'[c] = "answered" /\ \A d \in Calls \ {c} : pc'[d] = pc[d]
  BY StoreShape DEF Kept
<1>6. /\ pruned \in Seq(Calls) /\ Ascending(pruned) /\ RangeOf(pruned) \subseteq Stored
      /\ \A k \in Stored \ RangeOf(pruned) : deadline[k] # None /\ deadline[k] <= now
  <2>1. CASE PruneDue(t)
    <3>1. pruned = Filtered(order, Fresh(t))
      BY <2>1
    <3>2. /\ pruned \in Seq(Calls) /\ Ascending(pruned) /\ RangeOf(pruned) = Stored \cap Fresh(t)
      BY <3>1, FilterKeeps DEF QInv
    <3>3. ASSUME NEW k \in Stored, k \notin Fresh(t)
          PROVE  deadline[k] # None /\ deadline[k] <= now
      <4>1. k \in Calls /\ cursors[k] \in Cursor /\ cursors[k].expires = deadline[k]
        BY <3>3 DEF Stored, PInv, PageTypes, CursorsContinue
      <4>2. deadline[k] \in Nat /\ ~(deadline[k] > t)
        BY <3>3, <4>1 DEF Fresh, Cursor
      <4> QED BY <1>1, <1>4, <4>2, NoneIsNothing
    <3> QED BY <3>2, <3>3
  <2>2. CASE ~PruneDue(t)
    BY <2>2 DEF QInv, QueueSound, RestTypes
  <2> QED BY <2>1, <2>2
<1> HIDE DEF pruned
<1>7. PICK cut \in 0..Len(pruned) :
         /\ Len(queue) = Len(pruned) - cut
         /\ \A n \in 1..Len(queue) : queue[n] = pruned[n + cut]
         /\ cut # 0 => Len(queue) + 1 = MaxSnapshots
  BY <1>6, YoungestFacts
<1>8. queue \in Seq(Calls) /\ Len(queue) + 1 <= MaxSnapshots
  BY <1>6, YoungestFacts
<1> HIDE DEF queue
<1>9. /\ Len(pruned) \in Nat /\ Len(queue) \in Nat /\ cut \in Nat
      /\ DOMAIN pruned = 1..Len(pruned) /\ DOMAIN queue = 1..Len(queue)
  BY <1>6, <1>7, <1>8
<1>10. Ascending(queue)
  <2> DEFINE place == [n \in 1..Len(queue) |-> n + cut]
  <2>1. /\ place \in [1..Len(queue) -> 1..Len(pruned)]
        /\ \A n \in 1..Len(queue) : queue[n] = pruned[place[n]]
        /\ \A m, n \in 1..Len(queue) : m < n => place[m] < place[n]
    BY <1>7, <1>9
  <2> HIDE DEF place
  <2> QED BY <1>6, <1>8, <2>1, ThinnerAscends
<1>11. RangeOf(queue) \subseteq RangeOf(pruned)
  <2>1. \A n \in DOMAIN queue : n + cut \in DOMAIN pruned /\ queue[n] = pruned[n + cut]
    BY <1>7, <1>9
  <2> QED BY <2>1 DEF RangeOf
<1>12. /\ Stored \subseteq RangeOf(log) /\ RangeOf(queue) \subseteq Stored
       /\ RangeOf(queue) \subseteq RangeOf(log) /\ RangeOf(pruned) \subseteq RangeOf(log)
       /\ c \notin RangeOf(queue)
  BY <1>1, <1>6, <1>11 DEF QInv, QueueSound
<1>13. Stored' = RangeOf(queue) \cup {c}
  <2>1. \A k \in Calls : k \in Stored' <=> cursors'[k] # None
    BY DEF Stored
  <2>2. \A k \in RangeOf(queue) : k \in Calls /\ cursors[k] # None
    BY <1>12 DEF Stored
  <2>3. Stored' \subseteq Calls
    BY DEF Stored
  <2> QED BY <1>3, <1>5, <2>1, <2>2, <2>3
<1>14. /\ order' \in Seq(Calls) /\ Len(order') = Len(queue) + 1 /\ DOMAIN order' = 1..Len(queue) + 1
       /\ \A n \in 1..Len(queue) : order'[n] = queue[n]
       /\ order'[Len(queue) + 1] = c
  BY <1>3, <1>8
<1>15. /\ log' \in Seq(Calls) /\ Len(log') = Len(log) + 1 /\ DOMAIN log' = 1..Len(log) + 1
       /\ \A n \in 1..Len(log) : log'[n] = log[n]
       /\ log'[Len(log) + 1] = c
  BY <1>1, <1>3
<1>16. RangeOf(order)' = RangeOf(queue) \cup {c} /\ RangeOf(log)' = RangeOf(log) \cup {c}
  <2>1. ASSUME NEW s \in Seq(Calls), NEW longer, DOMAIN longer = 1..Len(s) + 1,
               \A n \in 1..Len(s) : longer[n] = s[n], longer[Len(s) + 1] = c
        PROVE  RangeOf(longer) = RangeOf(s) \cup {c}
    <3>1. /\ DOMAIN s = 1..Len(s) /\ 1..Len(s) + 1 = 1..Len(s) \cup {Len(s) + 1}
      OBVIOUS
    <3> QED BY <2>1, <3>1 DEF RangeOf
  <2>2. RangeOf(order') = RangeOf(queue) \cup {c}
    BY <1>8, <1>14, <2>1
  <2>3. RangeOf(log') = RangeOf(log) \cup {c}
    BY <1>1, <1>15, <2>1
  <2> QED BY <2>2, <2>3 DEF RangeOf
<1>17. Ascending(order)'
  <2>1. ASSUME NEW i \in 1..Len(queue) + 1, NEW j \in 1..Len(queue) + 1,
               NEW x \in 1..Len(log) + 1, NEW y \in 1..Len(log) + 1,
               i < j, log'[x] = order'[i], log'[y] = order'[j]
        PROVE  x < y
    <3>1. i \in 1..Len(queue) /\ order'[i] = queue[i] /\ queue[i] # c
      BY <1>9, <1>12, <1>14, <2>1 DEF RangeOf
    <3>2. x \in 1..Len(log) /\ log[x] = queue[i]
      BY <1>1, <1>15, <2>1, <3>1
    <3>3. CASE y = Len(log) + 1
      BY <1>1, <3>2, <3>3
    <3>4. CASE y # Len(log) + 1
      <4>1. y \in 1..Len(log) /\ log'[y] = log[y] /\ log[y] # c
        BY <1>1, <1>15, <3>4 DEF RangeOf
      <4>2. j # Len(queue) + 1
        BY <1>14, <2>1, <4>1
      <4>3. j \in 1..Len(queue) /\ order'[j] = queue[j]
        BY <1>9, <1>14, <4>2
      <4> QED BY <1>1, <1>9, <1>10, <2>1, <3>1, <3>2, <4>1, <4>3 DEF Ascending
    <3> QED BY <3>3, <3>4
  <2> QED BY <1>14, <1>15, <2>1 DEF Ascending
<1>18. QueueSound'
  <2>1. RangeOf(order)' = Stored' /\ Stored' \subseteq RangeOf(log)' /\ Len(order') <= MaxSnapshots
    BY <1>8, <1>12, <1>13, <1>14, <1>16
  <2> QED BY <1>17, <2>1 DEF QueueSound
<1>19. LogSound'
  <2>1. ASSUME NEW x \in DOMAIN log', NEW y \in DOMAIN log', log'[x] = log'[y]
        PROVE  x = y
    <3>1. \A n \in 1..Len(log) : log[n] # c
      BY <1>1 DEF RangeOf
    <3>2. \A n \in DOMAIN log' : n \in 1..Len(log) \/ n = Len(log) + 1
      BY <1>1, <1>15
    <3>3. \A m, n \in 1..Len(log) : log[m] = log[n] => m = n
      BY <1>1 DEF QInv, LogSound
    <3> QED BY <1>15, <2>1, <3>1, <3>2, <3>3
  <2>2. ASSUME NEW k \in Calls
        PROVE  /\ deadline'[k] # None => k \in RangeOf(log)'
               /\ k \in RangeOf(log)' => pc'[k] = "answered" /\ deadline'[k] # None
               /\ pc'[k] = "answered" /\ MailLeft(k)' => k \in RangeOf(log)'
    <3>1. CASE k = c
      BY <1>4, <1>5, <1>16, <3>1
    <3>2. CASE k # c
      BY <1>1, <1>3, <1>5, <1>16, <3>2 DEF QInv, LogSound, MailLeft
    <3> QED BY <3>1, <3>2
  <2>3. RangeOf(log)' \subseteq Calls
    BY <1>1, <1>16
  <2> QED BY <2>1, <2>2, <2>3 DEF LogSound
<1>20. ASSUME NEW k \in RangeOf(log), Gone(k)
       PROVE  Gone(k)'
  <2>1. CASE \E d \in Calls : asked[d] = k /\ Delivered(d)
    BY <1>1, <1>5, <2>1 DEF Gone, Delivered
  <2>2. CASE deadline[k] # None /\ deadline[k] <= now
    BY <1>1, <1>3, <2>2 DEF Gone
  <2>3. CASE k \in purged
    BY <1>1, <2>3 DEF Gone
  <2>4. CASE \E i \in DOMAIN log : log[i] = k /\ Len(log) - i >= MaxSnapshots
    <3>1. PICK i \in DOMAIN log : log[i] = k /\ Len(log) - i >= MaxSnapshots
      BY <2>4
    <3>2. i \in DOMAIN log' /\ log'[i] = k /\ Len(log') - i >= MaxSnapshots
      BY <1>1, <1>15, <3>1, CursorConstants
    <3> QED BY <3>2 DEF Gone
  <2> QED BY <1>20, <2>1, <2>2, <2>3, <2>4 DEF Gone
<1>21. ASSUME NEW k \in Stored, k \notin RangeOf(queue)
       PROVE  Gone(k)'
  <2>1. CASE k \notin RangeOf(pruned)
    <3>1. k \in Calls \ {c} /\ deadline[k] # None /\ deadline[k] <= now
      BY <1>1, <1>6, <1>12, <2>1
    <3> QED BY <1>1, <1>3, <3>1 DEF Gone
  <2>2. CASE k \in RangeOf(pruned)
    <3>1. PICK i \in 1..Len(pruned) : pruned[i] = k
      BY <1>9, <2>2 DEF RangeOf
    <3>2. i <= cut
      <4>1. SUFFICES ASSUME ~(i <= cut) PROVE FALSE
        OBVIOUS
      <4>2. i - cut \in 1..Len(queue) /\ (i - cut) + cut = i
        BY <1>7, <1>9, <3>1, <4>1
      <4>3. queue[i - cut] = k
        BY <1>7, <3>1, <4>2
      <4> QED BY <1>9, <1>21, <4>2, <4>3 DEF RangeOf
    <3>3. PICK x \in DOMAIN log : log[x] = k
      BY <1>12 DEF RangeOf
    <3>4. Len(pruned) - cut <= Len(log) - x
      <4>1. i \in 1..cut /\ log[x] = pruned[i]
        BY <1>9, <3>1, <3>2, <3>3
      <4> QED BY <1>1, <1>6, <1>12, <4>1, EvictedAreOld
    <3>5. cut # 0
      BY <1>9, <3>1, <3>2
    <3>6. x \in DOMAIN log' /\ log'[x] = k /\ Len(log') - x >= MaxSnapshots
      BY <1>1, <1>7, <1>9, <1>15, <3>3, <3>4, <3>5
    <3> QED BY <3>6 DEF Gone
  <2> QED BY <2>1, <2>2
<1>22. Fates'
  <2>1. ASSUME NEW k \in RangeOf(log)', k \notin Stored'
        PROVE  Gone(k)'
    <3>1. k \in RangeOf(log) /\ k \notin RangeOf(queue)
      BY <1>13, <1>16, <2>1
    <3> QED BY <1>20, <1>21, <3>1 DEF QInv, Fates
  <2> QED BY <2>1 DEF Fates
<1>23. Askers'
  <2>1. ASSUME NEW d \in Calls
        PROVE  /\ pc'[d] \in {"asking", "refused"} => asked'[d] \in RangeOf(log)'
               /\ \A k \in RangeOf(log)' : pc'[d] = "refused" /\ asked'[d] = k => Gone(k)'
    <3>1. CASE pc'[d] \in {"asking", "refused"}
      <4>1. d # c /\ pc'[d] = pc[d] /\ asked'[d] = asked[d] /\ asked[d] \in RangeOf(log)
        BY <1>1, <1>5, <3>1 DEF QInv, Askers
      <4>2. \A k \in RangeOf(log) : pc[d] = "refused" /\ asked[d] = k => Gone(k)
        BY DEF QInv, Askers
      <4> QED BY <1>16, <1>20, <4>1, <4>2
    <3>2. CASE pc'[d] \notin {"asking", "refused"}
      BY <3>2
    <3> QED BY <3>1, <3>2
  <2> QED BY <2>1 DEF Askers
<1>24. RestTypes'
  <2>1. prunedAt' \in Nat \cup {None}
    BY <1>3, <1>4 DEF QInv, RestTypes
  <2>2. \A d \in Calls : Delivered(d)' => upto'[d] <= snap'[d].size
    BY <1>1, <1>5 DEF QInv, RestTypes, Delivered
  <2> QED BY <1>1, <1>14, <1>15, <2>1, <2>2 DEF QInv, RestTypes
<1> QED BY <1>18, <1>19, <1>22, <1>23, <1>24 DEF QInv

----
(* Every step keeps the queue *)

LEMMA MovesBound ==
    ASSUME QInv, \A d \in Calls : Moves(d)
    PROVE  \A d \in Calls : Delivered(d)' => upto'[d] <= snap'[d].size
BY DEF QInv, RestTypes, Moves, Delivered

\* A step that leaves the store alone.
LEMMA SameStoreKeeps ==
    ASSUME PInv, PInv', QInv, now <= now', UNCHANGED <<storeVars, pastVars>>,
           disabled' \subseteq Accounts,
           reply' \in [Calls -> [Accounts -> {"none", "awaited", "mail", "failed", "wiped"}]],
           \A d \in Calls : Moves(d)
    PROVE  QInv'
<1>1. now \in Nat /\ now' \in Nat
  BY DEF PInv, PageTypes
<1>2. UNCHANGED <<cursors, order, prunedAt, log, deadline, purged>>
  BY DEF storeVars, pastVars
<1>3. RestTypes'
  BY <1>2, MovesBound DEF QInv, RestTypes
<1>4. Stored' = Stored /\ RangeOf(order)' = RangeOf(order) /\ RangeOf(log)' = RangeOf(log)
  BY <1>2 DEF Stored, RangeOf
<1>5. Ascending(order)'
  BY <1>2 DEF QInv, QueueSound, Ascending
<1>6. QueueSound'
  BY <1>2, <1>4, <1>5 DEF QInv, QueueSound
<1> QED BY <1>1, <1>2, <1>3, <1>4, <1>6, MovesKeep

\* A wipe is the reason for every cursor it removes.
LEMMA ClearKeeps ==
    ASSUME PInv, PInv', QInv, now' = now, Clear, disabled' \subseteq Accounts,
           reply' \in [Calls -> [Accounts -> {"none", "awaited", "mail", "failed", "wiped"}]],
           \A d \in Calls : Moves(d)
    PROVE  QInv'
<1>1. now \in Nat /\ now' \in Nat /\ now <= now' /\ PageTypes
  BY DEF PInv, PageTypes
<1>2. Keep({}) /\ purged' = purged \cup Stored /\ UNCHANGED <<prunedAt, log, deadline>>
  BY DEF Clear
<1>3. order' \in Seq(Calls) /\ QueueSound' /\ Stored' = Stored \cap {}
  BY <1>1, <1>2, KeepQueue DEF QInv
<1>4. RestTypes'
  <2>1. purged' \subseteq Calls /\ log' \in Seq(Calls) /\ prunedAt' \in Nat \cup {None}
    BY <1>2 DEF Stored, QInv, RestTypes
  <2> QED BY <1>3, <2>1, MovesBound DEF RestTypes
<1>5. \A k \in Stored \ Stored' : Gone(k)'
  BY <1>2 DEF Gone
<1> QED BY <1>1, <1>2, <1>3, <1>4, <1>5, MovesKeep

\* The call whose page is cut, and no other, moves on.
LEMMA CutPageMoves ==
    ASSUME PInv, NEW c \in Calls, ~Delivered(c), NEW snapshot \in Snapshot, NEW offset \in Nat,
           NEW limit \in 1..MaxLimit, offset <= snapshot.size,
           CutPage(c, snapshot, offset, limit), asked' = asked
    PROVE  /\ pc'[c] \in {"storing", "answered"}
           /\ \A d \in Calls : Moves(d)
<1>1. PageTypes
  BY DEF PInv
<1>2. /\ pc'[c] \in {"storing", "answered"} /\ snap'[c] = snapshot
      /\ \A d \in Calls \ {c} : pc'[d] = pc[d] /\ snap'[d] = snap[d] /\ upto'[d] = upto[d]
  BY <1>1, CutPageTypes
<1>3. /\ upto'[c] = Least(offset + limit, snapshot.size)
      /\ pc'[c] = IF offset + limit < snapshot.size THEN "storing" ELSE "answered"
  BY <1>1 DEF CutPage, Enter, PageTypes
<1>4. /\ Least(offset + limit, snapshot.size) <= snapshot.size
      /\ ~(offset + limit < snapshot.size) => ~(Least(offset + limit, snapshot.size) < snapshot.size)
  BY CursorConstants DEF Least, Snapshot
<1>5. Moves(c)
  <2>1. upto'[c] <= snap'[c].size
    BY <1>2, <1>3, <1>4
  <2>2. pc'[c] = "answered" => ~MailLeft(c)'
    BY <1>2, <1>3, <1>4 DEF MailLeft
  <2> QED BY <1>2, <2>1, <2>2 DEF Moves
<1>6. \A d \in Calls \ {c} : Moves(d)
  BY <1>2 DEF Moves
<1> QED BY <1>2, <1>5, <1>6

LEMMA QuietKeepsQueue ==
    ASSUME PInv, PInv', QInv,
           \/ Tick \/ UNCHANGED vars
           \/ \E c \in Calls : \/ List(c) \/ Cancel(c)
                               \/ \E a \in Accounts : Reply(c, a)
                               \/ \E k \in Calls : Ask(c, k)
    PROVE  QInv'
<1>0. /\ now \in Nat /\ disabled \subseteq Accounts
      /\ reply \in [Calls -> [Accounts -> {"none", "awaited", "mail", "failed", "wiped"}]]
      /\ pc \in [Calls -> Steps] /\ asked \in [Calls -> Calls \cup {None}]
  BY DEF PInv, PageTypes, QInv, RestTypes
<1>1. CASE Tick \/ UNCHANGED vars
  <2>1. UNCHANGED <<disabled, storeVars, pc, reply, pageVars, pastVars>> /\ now <= now'
    BY <1>0, <1>1 DEF Tick, vars
  <2>2. \A d \in Calls : Moves(d)
    BY <2>1 DEF Moves, pageVars
  <2> QED BY <1>0, <2>1, <2>2, SameStoreKeeps
<1>2. ASSUME NEW c \in Calls, List(c) \/ Cancel(c)
      PROVE  QInv'
  <2>1. /\ UNCHANGED <<now, disabled, storeVars, pageVars, pastVars>> /\ ~Delivered(c)
        /\ pc'[c] \in {"reading", "failed"} /\ \A d \in Calls \ {c} : pc'[d] = pc[d]
    BY <1>0, <1>2 DEF List, Cancel, Enter, Delivered
  <2>2. reply' \in [Calls -> [Accounts -> {"none", "awaited", "mail", "failed", "wiped"}]]
    BY <1>0, <1>2 DEF List, Cancel, DropReplies
  <2>3. \A d \in Calls : Moves(d)
    BY <2>1 DEF Moves, pageVars
  <2> QED BY <1>0, <2>1, <2>2, <2>3, SameStoreKeeps
<1>3. ASSUME NEW c \in Calls, NEW a \in Accounts, Reply(c, a)
      PROVE  QInv'
  <2>1. UNCHANGED <<now, disabled, storeVars, pc, pageVars, pastVars>>
    BY <1>3 DEF Reply
  <2>2. reply' \in [Calls -> [Accounts -> {"none", "awaited", "mail", "failed", "wiped"}]]
    BY <1>0, <1>3 DEF Reply
  <2>3. \A d \in Calls : Moves(d)
    BY <2>1 DEF Moves, pageVars
  <2> QED BY <1>0, <2>1, <2>2, <2>3, SameStoreKeeps
<1>4. ASSUME NEW c \in Calls, NEW k \in Calls, Ask(c, k)
      PROVE  QInv'
  <2>1. /\ UNCHANGED <<now, disabled, reply, storeVars, snap, upto, pastVars>> /\ ~Delivered(c)
        /\ pc'[c] = "asking" /\ asked'[c] = k
        /\ \A d \in Calls \ {c} : pc'[d] = pc[d] /\ asked'[d] = asked[d]
    BY <1>0, <1>4 DEF Ask, Enter, Delivered
  <2>2. k \in RangeOf(log)
    BY <1>4 DEF Ask, QInv, LogSound
  <2>3. \A d \in Calls : Moves(d)
    BY <2>1, <2>2 DEF Moves
  <2> QED BY <1>0, <2>1, <2>3, SameStoreKeeps
<1> QED BY <1>1, <1>2, <1>3, <1>4

LEMMA WipeKeepsQueue ==
    ASSUME PInv, PInv', QInv, NEW a \in Accounts, WipeElsewhere(a)
    PROVE  QInv'
<1>1. /\ Clear /\ now' = now /\ disabled' \subseteq Accounts
      /\ reply' \in [Calls -> [Accounts -> {"none", "awaited", "mail", "failed", "wiped"}]]
  BY DEF WipeElsewhere, QInv, RestTypes
<1>2. \A d \in Calls : Moves(d)
  BY DEF WipeElsewhere, pageVars, Moves
<1> QED BY <1>1, <1>2, ClearKeeps

LEMMA CollectKeepsQueue ==
    ASSUME PInv, PInv', QInv, NEW c \in Calls, Collect(c)
    PROVE  QInv'
<1>1. /\ now' = now /\ now \in Nat /\ ~Delivered(c) /\ PageTypes
      /\ reply' \in [Calls -> [Accounts -> {"none", "awaited", "mail", "failed", "wiped"}]]
  BY DEF Collect, DropReplies, Delivered, PInv, PageTypes, QInv, RestTypes
<1>2. PICK gone \in SUBSET Replied(c, "wiped") :
         /\ disabled' = disabled \cup gone
         /\ IF gone = {} THEN UNCHANGED <<storeVars, pastVars>> ELSE Clear
         /\ \/ Enter(c, "failed") /\ UNCHANGED pageVars
            \/ /\ \E S \in SUBSET Replied(c, "mail"), n \in 0..MaxMails, limit \in 1..MaxLimit :
                      CutPage(c, [of |-> c, size |-> n, holds |-> S], 0, limit)
               /\ UNCHANGED asked
  BY DEF Collect
<1>3. disabled' \subseteq Accounts
  BY <1>2 DEF Replied, QInv, RestTypes
<1>4. \A d \in Calls : Moves(d)
  <2>1. CASE Enter(c, "failed") /\ UNCHANGED pageVars
    BY <1>1, <2>1 DEF Enter, pageVars, Moves, PageTypes
  <2>2. CASE /\ \E S \in SUBSET Replied(c, "mail"), n \in 0..MaxMails, limit \in 1..MaxLimit :
                   CutPage(c, [of |-> c, size |-> n, holds |-> S], 0, limit)
             /\ UNCHANGED asked
    <3>1. PICK S \in SUBSET Replied(c, "mail"), n \in 0..MaxMails, limit \in 1..MaxLimit :
             CutPage(c, [of |-> c, size |-> n, holds |-> S], 0, limit)
      BY <2>2
    <3>2. /\ [of |-> c, size |-> n, holds |-> S] \in Snapshot
          /\ 0 <= [of |-> c, size |-> n, holds |-> S].size
      BY CursorConstants DEF Snapshot, Replied
    <3> DEFINE s == [of |-> c, size |-> n, holds |-> S]
    <3>3. CutPage(c, s, 0, limit) /\ s \in Snapshot /\ 0 <= s.size
      BY <3>1, <3>2
    <3> HIDE DEF s
    <3> QED BY <1>1, <2>2, <3>3, CutPageMoves
  <2> QED BY <1>2, <2>1, <2>2
<1>5. CASE gone = {}
  BY <1>1, <1>2, <1>3, <1>4, <1>5, SameStoreKeeps
<1>6. CASE gone # {}
  BY <1>1, <1>2, <1>3, <1>4, <1>6, ClearKeeps
<1> QED BY <1>5, <1>6

\* next_page removes what has expired and what it takes.
LEMMA TakeKeepsQueue ==
    ASSUME PInv, PInv', QInv, NEW c \in Calls, Take(c)
    PROVE  QInv'
<1>1. /\ PageTypes /\ pc[c] = "asking" /\ ~Delivered(c) /\ now \in Nat
      /\ UNCHANGED <<now, disabled, reply, log, deadline, purged>>
      /\ asked[c] \in RangeOf(log) /\ RangeOf(log) \subseteq Calls
  <2>1. PageTypes /\ pc[c] = "asking" /\ UNCHANGED <<now, disabled, reply, log, deadline, purged>>
    BY DEF PInv, Take, pastVars
  <2>2. RangeOf(log) \subseteq Calls
    BY DEF QInv, RestTypes, RangeOf
  <2> QED BY <2>1, <2>2 DEF QInv, Askers, PageTypes, Delivered
<1>2. PICK t \in Clock(c) :
         /\ Keep(Fresh(t) \ {asked[c]})
         /\ prunedAt' = t
         /\ IF asked[c] \in Fresh(t)
            THEN /\ \E limit \in 1..MaxLimit :
                       CutPage(c, cursors[asked[c]].snapshot, cursors[asked[c]].offset, limit)
                 /\ UNCHANGED asked
            ELSE Enter(c, "refused") /\ UNCHANGED pageVars
  BY DEF Take
<1>3. t \in Nat /\ t <= now
  BY <1>1, <1>2 DEF Clock, PageTypes
<1>4. order' \in Seq(Calls) /\ QueueSound' /\ Stored' = Stored \cap (Fresh(t) \ {asked[c]})
  BY <1>1, <1>2, KeepQueue DEF QInv
<1>5. \A k \in Stored \ Fresh(t) : Gone(k) /\ Gone(k)'
  <2>1. ASSUME NEW k \in Stored, k \notin Fresh(t)
        PROVE  k \in Calls /\ deadline[k] # None /\ deadline[k] <= now
    <3>1. k \in Calls /\ cursors[k] \in Cursor /\ cursors[k].expires = deadline[k]
      BY <2>1 DEF Stored, PInv, PageTypes, CursorsContinue
    <3>2. deadline[k] \in Nat /\ ~(deadline[k] > t)
      BY <2>1, <3>1 DEF Fresh, Cursor
    <3> QED BY <1>1, <1>3, <3>1, <3>2, NoneIsNothing
  <2> QED BY <1>1, <2>1 DEF Gone
<1>6. CASE asked[c] \in Fresh(t)
  <2>1. PICK k \in Calls : k = asked[c] /\ k \in Stored
    BY <1>6 DEF Fresh, Stored
  <2>2. /\ cursors[k].snapshot = snap[k] /\ cursors[k].offset = upto[k]
        /\ snap[k] \in Snapshot /\ upto[k] \in Nat /\ upto[k] <= snap[k].size
    BY <2>1 DEF PInv, CursorsContinue, PagesHaveSnapshots, Delivered, PageTypes, Snapshot
  <2>3. PICK limit \in 1..MaxLimit : CutPage(c, snap[k], upto[k], limit)
    BY <1>2, <1>6, <2>1, <2>2
  <2>4. asked' = asked
    BY <1>2, <1>6
  <2>5. pc'[c] \in {"storing", "answered"} /\ \A d \in Calls : Moves(d)
    BY <1>1, <2>2, <2>3, <2>4, CutPageMoves
  <2>6. Gone(k)'
    <3>1. asked'[c] = k /\ Delivered(c)'
      BY <2>1, <2>4, <2>5 DEF Delivered
    <3> QED BY <3>1 DEF Gone
  <2>7. \A d \in Stored \ Stored' : Gone(d)'
    <3>1. ASSUME NEW d \in Stored, d \notin Stored'
          PROVE  Gone(d)'
      <4>1. d \notin Fresh(t) \/ d = k
        BY <1>4, <2>1, <3>1
      <4> QED BY <1>5, <2>6, <3>1, <4>1
    <3> QED BY <3>1
  <2>8. RestTypes'
    BY <1>1, <1>2, <1>3, <1>4, <2>5, MovesBound DEF QInv, RestTypes
  <2> QED BY <1>1, <1>4, <2>5, <2>7, <2>8, MovesKeep
<1>7. CASE asked[c] \notin Fresh(t)
  <2>1. Enter(c, "refused") /\ UNCHANGED <<asked, snap, from, upto>>
    BY <1>2, <1>7 DEF pageVars
  <2>2. pc'[c] = "refused" /\ \A d \in Calls \ {c} : pc'[d] = pc[d]
    BY <1>1, <2>1 DEF Enter, PageTypes
  <2>3. PICK k \in RangeOf(log) : k = asked[c]
    BY <1>1
  <2>4. Gone(k)
    BY <1>5, <1>7, <2>3 DEF QInv, Fates
  <2>5. Gone(k)'
    <3>1. \A d \in Calls : Delivered(d) => pc'[d] = pc[d] /\ asked'[d] = asked[d]
      BY <1>1, <2>1, <2>2
    <3>2. now <= now' /\ now' \in Nat /\ purged \subseteq purged' /\ k \in Calls
      BY <1>1
    <3> QED BY <1>1, <2>4, <3>1, <3>2, GoneStays
  <2>6. \A d \in Calls : Moves(d)
    BY <1>1, <2>1, <2>2, <2>3, <2>5 DEF Moves
  <2>7. \A d \in Stored \ Stored' : Gone(d)'
    <3>1. ASSUME NEW d \in Stored, d \notin Stored'
          PROVE  Gone(d)'
      <4>1. d \notin Fresh(t)
        BY <1>4, <1>7, <3>1
      <4> QED BY <1>5, <3>1, <4>1
    <3> QED BY <3>1
  <2>8. RestTypes'
    BY <1>1, <1>2, <1>3, <1>4, <2>6, MovesBound DEF QInv, RestTypes
  <2> QED BY <1>1, <1>4, <2>6, <2>7, <2>8, MovesKeep
<1> QED BY <1>6, <1>7

LEMMA QueueStep == PInv /\ PInv' /\ QInv /\ [Next]_vars => QInv'
<1> SUFFICES ASSUME PInv, PInv', QInv, [Next]_vars PROVE QInv'
  OBVIOUS
<1> QED
  BY QuietKeepsQueue, WipeKeepsQueue, CollectKeepsQueue, TakeKeepsQueue, StoreKeepsQueue DEF Next

----
(* Theorems about the queue *)

\* The queue holds the stored cursors in the order of the log, and every cursor
\* that was stored is still there or is gone for a documented reason
\* (references.rs: store_cursor, next_page, purge_account).
THEOREM QueueInvariance == Spec => [](PInv /\ QInv)
<1>1. Init => PInv /\ QInv
  <2>1. Init => PInv
    BY DEF Init, PInv, PageTypes, Steps, CursorsContinue, PagesHaveSnapshots, HeadsLead,
           PagesTile, Delivered, Stored
  <2>2. Init => QInv
    <3> SUFFICES ASSUME Init PROVE QInv
      OBVIOUS
    <3>1. Len(order) = 0 /\ DOMAIN order = {} /\ DOMAIN log = {}
      BY DEF Init
    <3>2. Stored = {} /\ RangeOf(order) = {} /\ RangeOf(log) = {}
      BY <3>1 DEF Init, Stored, RangeOf
    <3>3. RestTypes
      BY DEF Init, RestTypes, Delivered
    <3>4. QueueSound
      BY <3>1, <3>2, CursorConstants DEF QueueSound, Ascending
    <3>5. LogSound /\ Fates /\ Askers
      BY <3>1, <3>2 DEF Init, LogSound, Fates, Askers
    <3> QED BY <3>3, <3>4, <3>5 DEF QInv
  <2> QED BY <2>1, <2>2
<1>2. PInv /\ QInv /\ [Next]_vars => (PInv /\ QInv)'
  BY StepKeeps, QueueStep
<1> QED BY <1>1, <1>2, PTL DEF Spec

\* The store and its queue name the same cursors, each once, and no more than
\* MaxSnapshots of them (store_cursor, next_page and purge_account change both).
THEOREM QueueIsTheStore == Spec => []QueueMatchesStore
<1>1. ASSUME PInv, QInv
      PROVE  QueueMatchesStore
  <2>1. TypeOK
    BY <1>1 DEF TypeOK, PInv, PageTypes, Steps, QInv, RestTypes, PagesHaveSnapshots
  <2>2. ASSUME NEW i \in DOMAIN order, NEW j \in DOMAIN order, order[i] = order[j]
        PROVE  i = j
    <3>1. DOMAIN order = 1..Len(order) /\ DOMAIN log = 1..Len(log)
      BY <1>1 DEF QInv, RestTypes
    <3>2. order[i] \in RangeOf(log)
      BY <1>1 DEF QInv, QueueSound, RangeOf
    <3>3. PICK x \in DOMAIN log : log[x] = order[i]
      BY <3>2 DEF RangeOf
    <3>4. x \in Nat /\ ~(x < x) /\ i \in Nat /\ j \in Nat
      BY <3>1
    <3>5. ~(i < j) /\ ~(j < i)
      BY <1>1, <2>2, <3>3, <3>4 DEF QInv, QueueSound, Ascending
    <3> QED BY <3>4, <3>5
  <2> QED BY <1>1, <2>1, <2>2 DEF QueueMatchesStore, QInv, QueueSound
<1> QED BY <1>1, QueueInvariance, PTL

\* next_page refuses a cursor only if another call took it, it expired, a wipe
\* removed it, or MaxSnapshots younger ones were stored.
THEOREM RefusalsHaveReasons == Spec => []RefusalsAreDeserved
<1>1. ASSUME PInv, QInv
      PROVE  RefusalsAreDeserved
  <2> SUFFICES ASSUME NEW c \in Calls, pc[c] = "refused"
               PROVE  \/ \E d \in Calls : asked[d] = asked[c] /\ Delivered(d)
                      \/ deadline[asked[c]] # None /\ deadline[asked[c]] <= now
                      \/ asked[c] \in purged
                      \/ \E i \in DOMAIN log : log[i] = asked[c] /\ Len(log) - i >= MaxSnapshots
    BY DEF RefusalsAreDeserved
  <2>1. PICK k \in RangeOf(log) : k = asked[c]
    BY <1>1 DEF QInv, Askers
  <2>2. Gone(k)
    BY <1>1, <2>1 DEF QInv, Askers
  <2> QED BY <2>1, <2>2 DEF Gone
<1> QED BY <1>1, QueueInvariance, PTL

----
(***************************************************************************)
(* Searches                                                                *)
(***************************************************************************)

\* Induction, stated of a set: every set of numbers has a least one.
LEMMA LeastNatural ==
    ASSUME NEW S, S \subseteq Nat, NEW m \in S
    PROVE  \E least \in S : \A n \in S : least <= n
<1>1. IsFiniteSet(0 .. m)
  BY FS_Interval, 0 \in Int, m \in Int
<1> DEFINE T == {0 .. n : n \in {k \in S : k <= m}}
<1>2. T \subseteq SUBSET (0 .. m) /\ T # {}
  <2>1. 0 .. m \in T
    OBVIOUS
  <2>2. ASSUME NEW t \in T
        PROVE  t \subseteq 0 .. m
    <3>1. PICK n \in S : n <= m /\ t = 0 .. n
      BY <2>2
    <3>2. n \in Nat /\ m \in Nat
      OBVIOUS
    <3> QED
      BY <3>1, <3>2
  <2> QED
    BY <2>1, <2>2
<1>3. PICK t \in T : \A u \in T : ~(<<u, t>> \in StrictSubsetOrdering(0 .. m))
  <2>1. IsWellFoundedOn(StrictSubsetOrdering(0 .. m), FiniteSubsetsOf(0 .. m))
    BY FS_StrictSubsetOrderingWellFounded
  <2>2. FiniteSubsetsOf(0..m) = SUBSET (0 .. m)
    BY <1>1, FS_FiniteSubsetsOfFinite
  <2> HIDE DEF T
  <2>3. T \subseteq FiniteSubsetsOf(0 .. m) /\ T # {}
    BY <1>2, <2>2
  <2> QED
    BY <2>1, <2>3, WFMin
<1>4. PICK n \in S : n <= m /\ t = 0 .. n
  BY <1>3
<1>5. ASSUME NEW k \in S, ~(n <= k)
      PROVE  FALSE
  <2>0. k \in Nat /\ n \in Nat /\ m \in Nat
    OBVIOUS
  <2>1. k <= m
    BY <1>4, <1>5, <2>0
  <2>2. 0 .. k \in T
    BY <2>1
  <2>3. 0 .. k \subseteq 0 .. n /\ 0 .. k # 0 .. n
    <3>1. n \in 0 .. n /\ n \notin 0 .. k
      BY <2>0, <1>5
    <3> QED
      BY <2>0, <1>5, <3>1
  <2>4. 0 .. k \in SUBSET (0 .. m) /\ 0 .. n \in SUBSET (0 .. m)
    BY <1>4, <2>0, <2>1
  <2>5. <<0 .. k, t>> \in StrictSubsetOrdering(0 .. m)
    BY <2>3, <2>4, <1>4 DEF StrictSubsetOrdering
  <2> QED
    BY <2>2, <2>5, <1>3
<1> QED
  BY <1>5, <1>4

\* What holds of 0, and of n + 1 if it holds of n, holds of every number.
LEMMA NaturalsFollow ==
    ASSUME NEW S, 0 \in S, \A n \in Nat : n \in S => n + 1 \in S
    PROVE  \A n \in Nat : n \in S
<1> SUFFICES ASSUME NEW m \in Nat, m \notin S
             PROVE  FALSE
  OBVIOUS
<1> DEFINE T == {n \in Nat : n \notin S}
<1>1. T \subseteq Nat /\ m \in T
  OBVIOUS
<1> HIDE DEF T
<1>2. PICK least \in T : \A n \in T : least <= n
  BY <1>1, LeastNatural
<1> USE DEF T
<1>3. least \in Nat /\ least \notin S
  BY <1>2
<1>4. least # 0 /\ least - 1 \in Nat
  BY <1>3
<1>5. least - 1 \notin S
  BY <1>3, <1>4
<1> QED
  BY <1>2, <1>4, <1>5

\* A function that is defined by what it is at 0, and at n by what it is at
\* n - 1, exists; the values at n are in a set for n.
StepsWithin(N, D, S, base, step) ==
    /\ \A n \in 0 .. N : S[n] \subseteq D
    /\ base \in S[0]
    /\ \A n \in 1 .. N : \A x \in S[n - 1] : step[<<n, x>>] \in S[n]

\* The function exists, and its values are in the sets.
LEMMA StepsDefine ==
    ASSUME NEW N \in Nat, NEW D, NEW S, NEW base, NEW step, StepsWithin(N, D, S, base, step)
    PROVE  \E f \in [0 .. N -> D] : /\ f[0] = base
                                    /\ \A n \in 1 .. N : f[n] = step[<<n, f[n - 1]>>]
                                    /\ \A n \in 0 .. N : f[n] \in S[n]
<1> USE DEF StepsWithin
<1> DEFINE steps(f, m) == /\ f[0] = base
                          /\ \A n \in 1 .. m : f[n] = step[<<n, f[n - 1]>>]
                          /\ \A n \in 0 .. m : f[n] \in S[n]
<1> DEFINE defined(m) == \E f \in [0 .. m -> D] : steps(f, m)
           T == {m \in Nat : m <= N => defined(m)}
<1>1. 0 \in T
  <2>1. PICK f : f = [n \in 0 .. 0 |-> base]
    OBVIOUS
  <2>2. base \in D
    BY 0 \in 0 .. N
  <2>3. f \in [0 .. 0 -> D] /\ f[0] = base
    BY <2>1, <2>2
  <2>4. steps(f, 0)
    BY <2>3
  <2> QED
    BY <2>3, <2>4
<1>2. ASSUME NEW m \in Nat, m \in T
      PROVE  m + 1 \in T
  <2> HIDE DEF defined
  <2>1. SUFFICES ASSUME m + 1 <= N PROVE defined(m + 1)
    OBVIOUS
  <2>11. defined(m)
    BY <1>2, <2>1
  <2> USE DEF defined
  <2>2. PICK f \in [0 .. m -> D] : steps(f, m)
    BY <2>11
  <2>3. PICK next : next = step[<<m + 1, f[m]>>]
    OBVIOUS
  <2>4. next \in S[m + 1] /\ next \in D
    <3>1. m + 1 \in 1 .. N /\ (m + 1) - 1 = m /\ f[m] \in S[m]
      BY <2>1, <2>2
    <3> QED
      BY <2>3, <3>1
  <2>5. PICK g : g = [n \in 0 .. m + 1 |-> IF n = m + 1 THEN next ELSE f[n]]
    OBVIOUS
  <2>6. /\ g \in [0 .. m + 1 -> D]
        /\ g[m + 1] = next
        /\ \A n \in 0 .. m : g[n] = f[n]
    BY <2>2, <2>4, <2>5
  <2>7. g[0] = base
    BY <2>2, <2>6
  <2>8. ASSUME NEW n \in 1 .. m + 1 PROVE g[n] = step[<<n, g[n - 1]>>]
    <3>1. CASE n = m + 1
      <4>0. n - 1 = m /\ m \in 0 .. m
        BY <3>1
      <4>1. n - 1 = m /\ g[m] = f[m]
        BY <2>6, <4>0
      <4> QED
        BY <2>3, <2>6, <3>1, <4>1
    <3>2. CASE n \in 1 .. m
      <4>1. n - 1 \in 0 .. m /\ n \in 0 .. m
        BY <3>2
      <4> QED
        BY <2>2, <2>6, <3>2, <4>1
    <3> QED
      BY <3>1, <3>2
  <2>9. ASSUME NEW n \in 0 .. m + 1 PROVE g[n] \in S[n]
    <3>1. n = m + 1 \/ n \in 0 .. m
      OBVIOUS
    <3> QED
      BY <2>2, <2>4, <2>6, <3>1
  <2>10. steps(g, m + 1)
    BY <2>6, <2>7, <2>8, <2>9
  <2> QED
    BY <2>6, <2>10
<1> HIDE DEF T
<1>3. \A m \in Nat : m \in T
  BY <1>1, <1>2, NaturalsFollow
<1> USE DEF T
<1>4. \E f \in [0 .. N -> D] : steps(f, N)
  BY <1>3
<1> QED
  BY <1>4

\* Whatever it is at, it stays in these sets.
LEMMA StepsStay ==
    ASSUME NEW N \in Nat, NEW S, NEW f, f[0] \in S[0],
           \A n \in 1 .. N : f[n - 1] \in S[n - 1] => f[n] \in S[n]
    PROVE  \A n \in 0 .. N : f[n] \in S[n]
<1> DEFINE T == {n \in Nat : n <= N => f[n] \in S[n]}
<1>1. 0 \in T
  OBVIOUS
<1>2. ASSUME NEW n \in Nat, n \in T PROVE n + 1 \in T
  <2>1. SUFFICES ASSUME n + 1 <= N PROVE f[n + 1] \in S[n + 1]
    OBVIOUS
  <2>2. n + 1 \in 1 .. N /\ (n + 1) - 1 = n
    BY <2>1
  <2>3. f[n] \in S[n]
    BY <1>2, <2>1
  <2> QED
    BY <2>2, <2>3
<1> HIDE DEF T
<1>3. \A n \in Nat : n \in T
  BY <1>1, <1>2, NaturalsFollow
<1> USE DEF T
<1> QED
  BY <1>3

(* Filters *)

FoundBySteps(mails, M, filters, how) ==
    \E kept : /\ kept[0] = <<>>
              /\ \A n \in 1 .. Len(mails) :
                    kept[n] = IF Matches(mails[n].fields, filters) = how THEN Append(kept[n - 1], mails[n])
                              ELSE kept[n - 1]
              /\ \A n \in 0 .. Len(mails) : kept[n] \in Seq(M)
              /\ Which(mails, filters, how) = kept[Len(mails)]

\* The recursion of Which denotes a function: it is followed mail by mail.
LEMMA WhichUnrolled ==
    ASSUME NEW M, NEW mails \in Seq(M), NEW filters, NEW how
    PROVE  FoundBySteps(mails, M, filters, how)
<1>0. PICK N \in Nat : N = Len(mails)
  OBVIOUS
<1> DEFINE S == [n \in 0 .. N |-> Seq(M)]
           step == [c \in (1 .. N) \X Seq(M) |->
                       IF Matches(mails[c[1]].fields, filters) = how THEN Append(c[2], mails[c[1]]) ELSE c[2]]
           equation(f) == f = [n \in 0 .. N |->
                                  IF n = 0 THEN <<>>
                                  ELSE IF Matches(mails[n].fields, filters) = how THEN Append(f[n - 1], mails[n])
                                  ELSE f[n - 1]]
<1>1. \A n \in 0 .. N : S[n] = Seq(M)
  OBVIOUS
<1>2. ASSUME NEW n \in 1 .. N, NEW x \in S[n - 1]
      PROVE  /\ step[<<n, x>>] = IF Matches(mails[n].fields, filters) = how THEN Append(x, mails[n]) ELSE x
             /\ step[<<n, x>>] \in S[n]
  <2>1. x \in Seq(M) /\ mails[n] \in M /\ S[n] = Seq(M)
    BY <1>0, <1>1
  <2>2. step[<<n, x>>] = IF Matches(mails[n].fields, filters) = how THEN Append(x, mails[n]) ELSE x
    BY <2>1
  <2>3. Append(x, mails[n]) \in Seq(M)
    BY <2>1
  <2> HIDE DEF S, step
  <2> QED
    BY <2>1, <2>2, <2>3
<1> HIDE DEF S, step
<1>3. <<>> \in S[0] /\ StepsWithin(N, Seq(M), S, <<>>, step)
  <2>1. <<>> \in S[0]
    BY <1>1, 0 \in 0 .. N, <<>> \in Seq(M)
  <2>2. \A n \in 1 .. N : \A x \in S[n - 1] : step[<<n, x>>] \in S[n]
    BY <1>2
  <2> QED
    BY <1>1, <2>1, <2>2 DEF StepsWithin
<1>4. PICK f \in [0 .. N -> Seq(M)] :
          /\ f[0] = <<>>
          /\ \A n \in 1 .. N : f[n] = step[<<n, f[n - 1]>>]
          /\ \A n \in 0 .. N : f[n] \in S[n]
  <2>1. N \in Nat
    OBVIOUS
  <2> QED
    BY ONLY <1>3, <2>1, StepsDefine
<1>5. ASSUME NEW n \in 0 .. N
      PROVE  f[n] = IF n = 0 THEN <<>>
                    ELSE IF Matches(mails[n].fields, filters) = how THEN Append(f[n - 1], mails[n])
                    ELSE f[n - 1]
  <2>1. CASE n = 0
    BY <1>4, <2>1
  <2>2. CASE n \in 1 .. N
    <3>1. n - 1 \in 0 .. N
      BY <2>2
    <3> QED
      BY <1>2, <1>4, <2>2, <3>1
  <2> QED
    BY <2>1, <2>2
<1>6. equation(f)
  BY <1>4, <1>5
<1>7. PICK kept : kept = CHOOSE g : equation(g)
  OBVIOUS
<1>8. equation(kept)
  BY <1>6, <1>7
<1>9. Which(mails, filters, how) = kept[N]
  BY <1>0, <1>7 DEF Which
<1>10. \A n \in 0 .. N : kept[n] = IF n = 0 THEN <<>>
                                   ELSE IF Matches(mails[n].fields, filters) = how THEN Append(kept[n - 1], mails[n])
                                   ELSE kept[n - 1]
  BY <1>8
<1>11. kept[0] = <<>> /\ \A n \in 1 .. N :
            kept[n] = IF Matches(mails[n].fields, filters) = how THEN Append(kept[n - 1], mails[n]) ELSE kept[n - 1]
  BY <1>10
<1>12. \A n \in 0 .. N : kept[n] \in S[n]
  <2>1. ASSUME NEW n \in 1 .. N, kept[n - 1] \in S[n - 1] PROVE kept[n] \in S[n]
    <3>1. mails[n] \in M /\ kept[n - 1] \in Seq(M) /\ S[n] = Seq(M)
      BY <1>0, <1>1, <2>1
    <3>2. Append(kept[n - 1], mails[n]) \in Seq(M)
      BY <3>1
    <3> QED
      BY <1>11, <3>1, <3>2
  <2> QED
    BY <1>3, <1>11, <2>1, StepsStay
<1> QED
  BY <1>0, <1>1, <1>9, <1>11, <1>12 DEF FoundBySteps

\* What holds of the empty sequence, and of one with another element at its end
\* if it holds of that one, holds of every sequence.
LEMMA SequencesFollow ==
    ASSUME NEW M, NEW P, <<>> \in P, \A s \in Seq(M) : \A m \in M : s \in P => Append(s, m) \in P
    PROVE  Seq(M) \subseteq P
<1> DEFINE T == {n \in Nat : \A s \in Seq(M) : Len(s) = n => s \in P}
<1>1. 0 \in T
  <2>1. \A s \in Seq(M) : Len(s) = 0 => s = <<>>
    BY EmptySeq
  <2> QED
    BY <2>1
<1>2. ASSUME NEW n \in Nat, n \in T PROVE n + 1 \in T
  <2>1. SUFFICES ASSUME NEW s \in Seq(M), Len(s) = n + 1 PROVE s \in P
    OBVIOUS
  <2>2. s # <<>>
    BY <2>1, EmptySeq
  <2>3. PICK front \in Seq(M), last \in M : s = Append(front, last)
    BY <2>2, SequenceEmptyOrAppend
  <2>4. Len(front) = n
    <3>1. Len(front) \in Nat /\ Len(s) = Len(front) + 1
      BY <2>3, AppendProperties, LenProperties
    <3> QED
      BY <2>1, <3>1
  <2> QED
    BY <1>2, <2>3, <2>4
<1> HIDE DEF T
<1>3. \A n \in Nat : n \in T
  BY <1>1, <1>2, NaturalsFollow
<1> USE DEF T
<1>4. \A s \in Seq(M) : Len(s) \in Nat
  BY LenProperties
<1> QED
  BY <1>3, <1>4

\* The filter of a sequence, mail by mail.
LEMMA WhichOfNone ==
    ASSUME NEW filters, NEW how
    PROVE  Which(<<>>, filters, how) = <<>>
<1>1. PICK M, none : none \in Seq(M) /\ none = <<>> /\ Len(none) = 0
  <2>1. <<>> \in Seq({}) /\ Len(<<>>) = 0
    BY EmptySeq
  <2> QED
    BY <2>1
<1>2. FoundBySteps(none, M, filters, how)
  BY <1>1, WhichUnrolled
<1> QED
  BY <1>1, <1>2 DEF FoundBySteps

\* With another mail at the end of a sequence, that mail is kept or not.
LEMMA WhichOfAppend ==
    ASSUME NEW M, NEW s \in Seq(M), NEW m \in M, NEW filters, NEW how
    PROVE  /\ Which(s, filters, how) \in Seq(M)
           /\ Which(Append(s, m), filters, how) =
                  IF Matches(m.fields, filters) = how THEN Append(Which(s, filters, how), m)
                  ELSE Which(s, filters, how)
<1>1. PICK longer : longer = Append(s, m)
  OBVIOUS
<1>2. PICK N \in Nat : N = Len(s)
  BY LenProperties
<1>3. /\ longer \in Seq(M) /\ Len(longer) = N + 1 /\ longer[N + 1] = m
      /\ \A n \in 1 .. N : longer[n] = s[n]
  BY <1>1, <1>2, AppendProperties
<1>4. PICK kept : /\ kept[0] = <<>>
                  /\ \A n \in 1 .. Len(s) :
                        kept[n] = IF Matches(s[n].fields, filters) = how THEN Append(kept[n - 1], s[n])
                                  ELSE kept[n - 1]
                  /\ \A n \in 0 .. Len(s) : kept[n] \in Seq(M)
                  /\ Which(s, filters, how) = kept[Len(s)]
  <2>1. FoundBySteps(s, M, filters, how)
    BY WhichUnrolled
  <2> QED
    BY <2>1 DEF FoundBySteps
<1>5. PICK grown : /\ grown[0] = <<>>
                   /\ \A n \in 1 .. Len(longer) :
                         grown[n] = IF Matches(longer[n].fields, filters) = how THEN Append(grown[n - 1], longer[n])
                                    ELSE grown[n - 1]
                   /\ \A n \in 0 .. Len(longer) : grown[n] \in Seq(M)
                   /\ Which(longer, filters, how) = grown[Len(longer)]
  <2>1. FoundBySteps(longer, M, filters, how)
    BY <1>3, WhichUnrolled
  <2> QED
    BY <2>1 DEF FoundBySteps
<1>6. \A n \in 0 .. N : grown[n] = kept[n]
  <2> DEFINE S == [n \in 0 .. N |-> {kept[n]}]
  <2>1. \A n \in 0 .. N : S[n] = {kept[n]}
    OBVIOUS
  <2> HIDE DEF S
  <2>2. grown[0] \in S[0]
    BY <1>4, <1>5, <2>1, 0 \in 0 .. N
  <2>3. ASSUME NEW n \in 1 .. N, grown[n - 1] \in S[n - 1] PROVE grown[n] \in S[n]
    <3>1. n - 1 \in 0 .. N /\ n \in 0 .. N /\ n \in 1 .. Len(longer) /\ n \in 1 .. Len(s)
      BY <1>2, <1>3
    <3>2. grown[n - 1] = kept[n - 1]
      BY <2>1, <2>3, <3>1
    <3>3. grown[n] = kept[n]
      BY <1>3, <1>4, <1>5, <3>1, <3>2
    <3> QED
      BY <2>1, <3>1, <3>3
  <2>4. \A n \in 0 .. N : grown[n] \in S[n]
    BY <2>2, <2>3, StepsStay
  <2> QED
    BY <2>1, <2>4
<1>7. grown[N + 1] = IF Matches(m.fields, filters) = how THEN Append(kept[N], m) ELSE kept[N]
  <2>1. N + 1 \in 1 .. Len(longer) /\ (N + 1) - 1 = N /\ N \in 0 .. N
    BY <1>3
  <2> QED
    BY <1>3, <1>5, <1>6, <2>1
<1>8. Which(s, filters, how) = kept[N] /\ kept[N] \in Seq(M)
  BY <1>2, <1>4, N \in 0 .. N
<1> QED
  BY <1>1, <1>3, <1>5, <1>7, <1>8

\* What a filter keeps is a sequence of the same mails.
LEMMA WhichIsASequence ==
    ASSUME NEW M, NEW s \in Seq(M), NEW filters, NEW how
    PROVE  Which(s, filters, how) \in Seq(M)
<1>1. PICK kept : /\ \A n \in 0 .. Len(s) : kept[n] \in Seq(M)
                  /\ Which(s, filters, how) = kept[Len(s)]
  <2>1. FoundBySteps(s, M, filters, how)
    BY WhichUnrolled
  <2> QED
    BY <2>1 DEF FoundBySteps
<1>2. Len(s) \in 0 .. Len(s)
  BY LenProperties
<1> QED
  BY <1>1, <1>2

\* What a filter keeps of two sequences is what it keeps of each.
LEMMA WhichOfConcat ==
    ASSUME NEW M, NEW s \in Seq(M), NEW t \in Seq(M), NEW filters, NEW how
    PROVE  Which(s \o t, filters, how) = Which(s, filters, how) \o Which(t, filters, how)
<1>1. PICK first : first = Which(s, filters, how) /\ first \in Seq(M)
  BY WhichIsASequence
<1> DEFINE P == {u \in Seq(M) : Which(s \o u, filters, how) = first \o Which(u, filters, how)}
<1>2. <<>> \in P
  <2>1. s \o <<>> = s /\ first \o <<>> = first /\ <<>> \in Seq(M)
    BY <1>1, ConcatEmptySeq, EmptySeq
  <2> QED
    BY <1>1, <2>1, WhichOfNone
<1>3. ASSUME NEW u \in Seq(M), NEW m \in M, u \in P PROVE Append(u, m) \in P
  <2>1. PICK both : both = s \o u /\ both \in Seq(M)
    BY ConcatProperties
  <2>0. both \in Seq(M)
    BY <2>1
  <2>2. s \o Append(u, m) = Append(both, m) /\ Append(u, m) \in Seq(M)
    <3>1. <<m>> \in Seq(M) /\ Append(u, m) = u \o <<m>> /\ Append(both, m) = both \o <<m>>
      BY <2>1, AppendIsConcat
    <3>2. s \o (u \o <<m>>) = (s \o u) \o <<m>>
      BY <3>1, ConcatAssociative
    <3>3. Append(u, m) \in Seq(M)
      BY AppendProperties
    <3> QED
      BY <2>1, <3>1, <3>2, <3>3
  <2>3. PICK rest : rest = Which(u, filters, how) /\ rest \in Seq(M)
    BY WhichIsASequence
  <2>4. Which(both, filters, how) = first \o rest
    BY <1>3, <2>1, <2>3
  <2>5. /\ Which(Append(both, m), filters, how) =
               IF Matches(m.fields, filters) = how THEN Append(first \o rest, m) ELSE first \o rest
        /\ Which(Append(u, m), filters, how) =
               IF Matches(m.fields, filters) = how THEN Append(rest, m) ELSE rest
    <3>1. Which(Append(both, m), filters, how) =
              IF Matches(m.fields, filters) = how THEN Append(Which(both, filters, how), m) ELSE Which(both, filters, how)
      BY <2>0, WhichOfAppend
    <3>2. Which(Append(u, m), filters, how) =
              IF Matches(m.fields, filters) = how THEN Append(Which(u, filters, how), m) ELSE Which(u, filters, how)
      BY <1>3, WhichOfAppend
    <3> QED
      BY <2>3, <2>4, <3>1, <3>2
  <2>6. Append(first \o rest, m) = first \o Append(rest, m)
    <3>1. <<m>> \in Seq(M) /\ Append(rest, m) = rest \o <<m>>
      BY <2>3, AppendIsConcat
    <3>2. first \o rest \in Seq(M)
      BY <1>1, <2>3, ConcatProperties
    <3>3. Append(first \o rest, m) = (first \o rest) \o <<m>>
      BY <3>2, AppendIsConcat
    <3>4. (first \o rest) \o <<m>> = first \o (rest \o <<m>>)
      <4>1. first \in Seq(M) /\ rest \in Seq(M) /\ <<m>> \in Seq(M)
        BY <1>1, <2>3, <3>1
      <4> QED
        BY ONLY <4>1, ConcatAssociative
    <3> QED
      BY <3>1, <3>3, <3>4
  <2> QED
    BY <2>2, <2>5, <2>6
<1> HIDE DEF P
<1>4. Seq(M) \subseteq P
  BY <1>2, <1>3, SequencesFollow
<1> USE DEF P
<1> QED
  BY <1>1, <1>4

\* Without filters all mails are found.
LEMMA WhichWithoutFilters ==
    ASSUME NEW M, NEW s \in Seq(M)
    PROVE  /\ Which(s, <<>>, "yes") = s
           /\ Which(s, <<>>, "unknown") = <<>>
<1>1. \A fields : Matches(fields, <<>>) = "yes"
  BY DEF Matches
<1> DEFINE P == {u \in Seq(M) : Which(u, <<>>, "yes") = u /\ Which(u, <<>>, "unknown") = <<>>}
<1>2. <<>> \in P
  BY WhichOfNone, EmptySeq
<1>3. ASSUME NEW u \in Seq(M), NEW m \in M, u \in P PROVE Append(u, m) \in P
  <2>1. /\ Which(Append(u, m), <<>>, "yes") =
               IF Matches(m.fields, <<>>) = "yes" THEN Append(Which(u, <<>>, "yes"), m) ELSE Which(u, <<>>, "yes")
        /\ Which(Append(u, m), <<>>, "unknown") =
               IF Matches(m.fields, <<>>) = "unknown" THEN Append(Which(u, <<>>, "unknown"), m)
               ELSE Which(u, <<>>, "unknown")
    BY WhichOfAppend
  <2>2. Append(u, m) \in Seq(M)
    BY AppendProperties
  <2> QED
    BY <1>1, <1>3, <2>1, <2>2
<1> HIDE DEF P
<1>4. Seq(M) \subseteq P
  BY <1>2, <1>3, SequencesFollow
<1> USE DEF P
<1> QED
  BY <1>4

(* Pages *)

\* The part of the hits that was seen.
LEMMA SeenSoFar ==
    ASSUME NEW M, NEW hits \in Seq(M), NEW k \in 0 .. Len(hits)
    PROVE  /\ SubSeq(hits, 1, k) \in Seq(M) /\ Len(SubSeq(hits, 1, k)) = k
           /\ \A n \in 1 .. k : SubSeq(hits, 1, k)[n] = hits[n]
           /\ k = Len(hits) => SubSeq(hits, 1, k) = hits
<1>1. Len(hits) \in Nat
  BY LenProperties
<1>2. 1 \in 1 .. Len(hits) + 1 /\ k \in 1 - 1 .. Len(hits)
  BY <1>1
<1>3. /\ SubSeq(hits, 1, k) \in Seq(M)
      /\ Len(SubSeq(hits, 1, k)) = IF 1 <= k THEN k - 1 + 1 ELSE 0
      /\ \A n \in 1 .. k - 1 + 1 : SubSeq(hits, 1, k)[n] = hits[1 + n - 1]
  BY <1>2, SubSeqProperties
<1>4. /\ Len(SubSeq(hits, 1, k)) = k
      /\ \A n \in 1 .. k : SubSeq(hits, 1, k)[n] = hits[n]
  BY <1>1, <1>3
<1>5. ASSUME k = Len(hits) PROVE SubSeq(hits, 1, k) = hits
  BY <1>3, <1>4, <1>5, SeqEqual
<1> QED
  BY <1>3, <1>4, <1>5

\* There are as many seen identifiers as seen hits.
LEMMA SeenAreCounted ==
    ASSUME NEW hits, NEW k \in Nat,
           \A m, n \in 1 .. k : hits[m].id = hits[n].id => m = n
    PROVE  Cardinality({hits[n].id : n \in 1 .. k}) = k
<1> DEFINE ids == {hits[n].id : n \in 1 .. k}
           f == [n \in 1 .. k |-> hits[n].id]
<1>1. f \in Bijection(1 .. k, ids)
  <2>1. f \in [1 .. k -> ids]
    OBVIOUS
  <2>2. \A m, n \in 1 .. k : f[m] = f[n] => m = n
    OBVIOUS
  <2>3. \A id \in ids : \E n \in 1 .. k : f[n] = id
    OBVIOUS
  <2> HIDE DEF f, ids
  <2>4. f \in Injection(1 .. k, ids)
    BY <2>1, <2>2 DEF Injection, IsInjective
  <2>5. f \in Surjection(1 .. k, ids)
    BY <2>1, <2>3 DEF Surjection
  <2> QED
    BY <2>4, <2>5 DEF Bijection
<1>2. IsFiniteSet(1 .. k) /\ Cardinality(1 .. k) = k
  BY FS_Interval, 1 \in Int, k \in Int
<1> HIDE DEF f, ids
<1>3. Cardinality(1 .. k) = Cardinality(ids)
  BY <1>1, <1>2, FS_Bijection DEF ExistsBijection
<1> USE DEF ids
<1> QED
  BY <1>2, <1>3

Identifiers == {mail.id : mail \in FoundMails}

Searches ==
    [start : Nat, items : Seq(FoundMails), seen : SUBSET Identifiers, calls : Nat, unknown : Nat,
     complete : BOOLEAN, is : {"going", "done", "failed"}]

PageRecords ==
    [mails : Seq(FoundMails), from : Nat \union {Missing}, total : Nat \union {Missing}, truncated : BOOLEAN]

\* The pages that Exchange can hand out at a place of the hits.
LEMMA PagesAreParts ==
    ASSUME NEW hits \in Seq(FoundMails), NEW start \in 0 .. Len(hits), NEW page \in Pages(hits, start)
    PROVE  /\ page \in PageRecords
           /\ page.total \in {Len(hits), Missing}
           /\ \E begin \in {start, 0}, count \in 0 .. Len(hits) - start :
                  /\ page.mails = SubSeq(hits, begin + 1, begin + count)
                  /\ page.from \in {begin, Missing}
<1>1. PICK N \in Nat : N = Len(hits) /\ \A n \in 1 .. N : hits[n] \in FoundMails
  BY LenProperties
<1>2. PICK begin \in {start, 0}, count \in 0 .. Smaller(PageSize, Len(hits) - start),
           told \in BOOLEAN, total \in {Len(hits), Missing}, truncated \in BOOLEAN :
          page = [mails |-> SubSeq(hits, begin + 1, begin + count), from |-> IF told THEN begin ELSE Missing,
                  total |-> total, truncated |-> truncated]
  BY DEF Pages
<1>3. PageSize \in Nat
  BY SearchIsBounded
<1>4. count \in 0 .. Len(hits) - start /\ begin \in 0 .. N
  BY <1>1, <1>2, <1>3 DEF Smaller
<1>5. begin + 1 \in Int /\ begin + count \in Int /\ \A n \in begin + 1 .. begin + count : hits[n] \in FoundMails
  <2>1. begin \in Nat /\ count \in Nat /\ begin + count <= N
    <3>1. start \in 0 .. N
      BY <1>1
    <3> QED
      BY <1>1, <1>2, <1>4, <3>1
  <2>2. \A n \in begin + 1 .. begin + count : n \in 1 .. N
    BY <2>1
  <2> QED
    BY <1>1, <2>1, <2>2
<1>6. SubSeq(hits, begin + 1, begin + count) \in Seq(FoundMails)
  BY <1>5, SubSeqProperties
<1>7. /\ page.mails = SubSeq(hits, begin + 1, begin + count) /\ page.from = (IF told THEN begin ELSE Missing)
      /\ page.total = total
  BY <1>2
<1>8. page \in PageRecords
  <2>1. (IF told THEN begin ELSE Missing) \in Nat \union {Missing} /\ total \in Nat \union {Missing}
    BY <1>1, <1>2, <1>4
  <2> QED
    BY <1>2, <1>6, <2>1 DEF PageRecords
<1> QED
  BY <1>2, <1>4, <1>7, <1>8

\* One that is neither inconsistent nor repeats something continues the search.
LEMMA PageContinues ==
    ASSUME NEW hits \in Seq(FoundMails), NEW search \in Searches, NEW page \in Pages(hits, search.start),
           search.start \in 0 .. Len(hits),
           search.seen = {hits[n].id : n \in 1 .. search.start},
           ~Inconsistent(search, page), ~Repeats(search, page)
    PROVE  \E count \in 0 .. Len(hits) - search.start :
               /\ page.mails = SubSeq(hits, search.start + 1, search.start + count)
               /\ Len(page.mails) = count
               /\ \A n \in 1 .. count : page.mails[n] = hits[search.start + n]
<1>1. PICK start : start = search.start /\ start \in Nat /\ start \in 0 .. Len(hits)
  BY DEF Searches
<1>2. PICK begin \in {start, 0}, count \in 0 .. Len(hits) - start :
          page.mails = SubSeq(hits, begin + 1, begin + count) /\ page.from \in {begin, Missing}
  <2>1. page \in Pages(hits, start) /\ start \in 0 .. Len(hits)
    BY <1>1
  <2> QED
    BY <2>1, PagesAreParts
<1>3. PICK N \in Nat : N = Len(hits) /\ \A n \in 1 .. N : hits[n] \in FoundMails
  BY LenProperties
<1>4. \A place \in 0 .. start : /\ Len(SubSeq(hits, place + 1, place + count)) = count
                                /\ \A n \in 1 .. count : SubSeq(hits, place + 1, place + count)[n] = hits[place + n]
  <2>1. SUFFICES ASSUME NEW place \in 0 .. start
                 PROVE  /\ Len(SubSeq(hits, place + 1, place + count)) = count
                        /\ \A n \in 1 .. count : SubSeq(hits, place + 1, place + count)[n] = hits[place + n]
    OBVIOUS
  <2>2. place + 1 \in Int /\ place + count \in Int /\ \A n \in place + 1 .. place + count : hits[n] \in FoundMails
    BY <1>1, <1>2, <1>3
  <2>3. /\ Len(SubSeq(hits, place + 1, place + count)) =
               IF place + 1 <= place + count THEN (place + count) - (place + 1) + 1 ELSE 0
        /\ \A n \in 1 .. (place + count) - (place + 1) + 1 :
               SubSeq(hits, place + 1, place + count)[n] = hits[place + 1 + n - 1]
    BY <2>2, SubSeqProperties
  <2>4. (place + count) - (place + 1) + 1 = count
    BY <1>1, <1>2
  <2>5. \A n \in 1 .. count : place + 1 + n - 1 = place + n
    BY <1>1, <1>2
  <2>6. \A n \in 1 .. count : SubSeq(hits, place + 1, place + count)[n] = hits[place + n]
    BY <2>3, <2>4, <2>5
  <2>7. Len(SubSeq(hits, place + 1, place + count)) = count
    <3>1. place \in Nat /\ count \in Nat
      BY <1>1, <1>2
    <3>2. place + 1 <= place + count \/ count = 0
      BY <3>1
    <3> QED
      BY ONLY <2>3, <3>1, <3>2
  <2> QED
    BY <2>6, <2>7
<1>8. (count = 0 \/ count > 0) /\ (begin = start \/ (begin = 0 /\ start > 0))
  BY <1>1, <1>2
<1>5. page.mails = SubSeq(hits, start + 1, start + count)
  <2>1. CASE begin = start
    BY <1>2, <2>1
  <2>2. CASE begin = 0 /\ start > 0
    <3>1. page.from = Missing
      BY <1>1, <1>2, <2>2, MissingIsNoNumber DEF Inconsistent
    <3>2. CASE count = 0
      <4>1. SubSeq(hits, 0 + 1, 0 + count) = <<>> /\ SubSeq(hits, start + 1, start + count) = <<>>
        BY <1>1, <3>2, SubSeqEmpty
      <4> QED
        BY <1>2, <2>2, <4>1
    <3>3. CASE count > 0
      <4>1. 0 \in 0 .. start /\ 1 \in 1 .. count /\ 1 \in 1 .. start
        BY <1>1, <1>2, <2>2, <3>3
      <4>2. Len(page.mails) = count /\ page.mails[1] = hits[0 + 1]
        BY <1>2, <1>4, <2>2, <4>1
      <4>3. page.mails \in Seq(FoundMails)
        BY <1>1, PagesAreParts DEF PageRecords
      <4>4. 1 \in DOMAIN page.mails
        BY <4>1, <4>2, <4>3, LenProperties
      <4>5. page.mails[1].id \in search.seen
        BY <1>1, <4>1, <4>2
      <4> QED
        BY <4>4, <4>5 DEF Repeats
    <3> QED
      BY <1>8, <3>2, <3>3
  <2> QED
    BY <1>8, <2>1, <2>2
<1>6. start \in 0 .. start
  BY <1>1
<1>7. Len(page.mails) = count /\ \A n \in 1 .. count : page.mails[n] = hits[start + n]
  BY <1>4, <1>5, <1>6
<1> QED
  BY <1>1, <1>2, <1>5, <1>7

\* What a search is when its first k hits were examined, by fair pages or not.
SearchIs(search, hits, filters, fair, k) ==
    /\ search \in Searches /\ k \in 0 .. Len(hits)
    /\ search.seen = {hits[n].id : n \in 1 .. k}
    /\ search.items = Which(SubSeq(hits, 1, k), filters, "yes")
    /\ search.unknown = Len(Which(SubSeq(hits, 1, k), filters, "unknown"))
    /\ search.calls <= MaxCalls
    /\ search.is = "going" => search.start = k /\ search.calls < MaxCalls
    /\ search.complete => k = Len(hits)
    /\ search.is = "done" /\ fair => search.complete \/ search.calls = MaxCalls

\* Before its first page a search has examined nothing.
LEMMA SearchBegins ==
    ASSUME NEW hits \in Seq(FoundMails), NEW filters, NEW fair
    PROVE  SearchIs(NoCandidates, hits, filters, fair, 0)
<1>1. Len(hits) \in Nat /\ MaxCalls \in Nat \ {0}
  BY LenProperties, SearchIsBounded
<1>2. SubSeq(hits, 1, 0) = <<>> /\ {hits[n].id : n \in 1 .. 0} = {}
  BY SubSeqEmpty
<1>3. Which(<<>>, filters, "yes") = <<>> /\ Which(<<>>, filters, "unknown") = <<>> /\ Len(<<>>) = 0
  BY WhichOfNone, EmptySeq
<1>4. /\ NoCandidates.start = 0 /\ NoCandidates.items = <<>> /\ NoCandidates.seen = {} /\ NoCandidates.calls = 0
      /\ NoCandidates.unknown = 0 /\ NoCandidates.complete = FALSE /\ NoCandidates.is = "going"
      /\ NoCandidates \in Searches
  <2>1. <<>> \in Seq(FoundMails)
    OBVIOUS
  <2> QED
    BY <2>1 DEF NoCandidates, Searches
<1> HIDE DEF NoCandidates
<1>5. 0 \in 0 .. Len(hits) /\ NoCandidates.calls <= MaxCalls /\ NoCandidates.calls < MaxCalls
  BY <1>1, <1>4
<1>6. NoCandidates.seen = {hits[n].id : n \in 1 .. 0}
  BY <1>2, <1>4
<1>7. /\ NoCandidates.items = Which(SubSeq(hits, 1, 0), filters, "yes")
      /\ NoCandidates.unknown = Len(Which(SubSeq(hits, 1, 0), filters, "unknown"))
  BY <1>2, <1>3, <1>4
<1> QED
  BY ONLY <1>4, <1>5, <1>6, <1>7 DEF SearchIs

\* What a page makes of a search that it does not fail.
PageEffect(search, page, filters, next, how) ==
    /\ next \in Searches
    /\ next.items = search.items \o Which(page.mails, filters, "yes")
    /\ next.seen = search.seen \union {page.mails[n].id : n \in DOMAIN page.mails}
    /\ next.unknown = search.unknown + Len(Which(page.mails, filters, "unknown"))
    /\ next.calls = search.calls + 1
    /\ how = "more" /\ search.calls + 1 < MaxCalls =>
            /\ next.is = search.is /\ next.complete = search.complete
            /\ next.start = search.start + Len(page.mails)
    /\ ~(how = "more" /\ search.calls + 1 < MaxCalls) =>
            /\ next.is = "done"
            /\ next.complete <=> how = "exhausted" /\ page.total # Missing

\* A page that fits is examined, and ends the search or not.
LEMMA NextPageEffect ==
    ASSUME NEW search \in Searches, NEW page \in PageRecords, NEW filters,
           ~Inconsistent(search, page), ~Repeats(search, page)
    PROVE  PageEffect(search, page, filters, NextPage(search, page, filters), Continuation(search, page))
<1>0. PICK next, how : next = NextPage(search, page, filters) /\ how = Continuation(search, page)
  OBVIOUS
<1>1. PICK found, unknown, ids :
          /\ found = Which(page.mails, filters, "yes") /\ unknown = Len(Which(page.mails, filters, "unknown"))
          /\ ids = {page.mails[n].id : n \in DOMAIN page.mails}
  OBVIOUS
<1>2. /\ page.mails \in Seq(FoundMails) /\ found \in Seq(FoundMails) /\ unknown \in Nat
      /\ Len(page.mails) \in Nat
  <2>1. page.mails \in Seq(FoundMails)
    BY DEF PageRecords
  <2> QED
    BY <1>1, <2>1, WhichIsASequence, LenProperties
<1>3. ids \in SUBSET Identifiers
  <2>1. \A n \in DOMAIN page.mails : page.mails[n] \in FoundMails
    BY <1>2
  <2> QED
    BY <1>1, <2>1 DEF Identifiers
<1>4. PICK examined : examined = Examined(search, page, filters)
  OBVIOUS
<1>5. examined = [search EXCEPT !.items = @ \o found, !.seen = @ \union ids, !.unknown = @ + unknown, !.calls = @ + 1]
  BY <1>1, <1>4 DEF Examined
<1>6. /\ examined \in Searches
      /\ examined.items = search.items \o found /\ examined.seen = search.seen \union ids
      /\ examined.unknown = search.unknown + unknown /\ examined.calls = search.calls + 1
      /\ examined.start = search.start /\ examined.complete = search.complete /\ examined.is = search.is
  <2>1. PICK items : items = search.items \o found /\ items \in Seq(FoundMails)
    <3>1. search.items \in Seq(FoundMails)
      BY DEF Searches
    <3> QED
      BY <1>2, <3>1, ConcatProperties
  <2>2. search.seen \union ids \in SUBSET Identifiers
    BY <1>3 DEF Searches
  <2>3. examined = [search EXCEPT !.items = items, !.seen = search.seen \union ids,
                                  !.unknown = search.unknown + unknown, !.calls = search.calls + 1]
    BY <1>5, <2>1
  <2>4. items \in Seq(FoundMails)
    BY <2>1
  <2>6. PICK seen, count, calls : /\ seen = search.seen \union ids /\ seen \in SUBSET Identifiers
                                  /\ count = search.unknown + unknown /\ count \in Nat
                                  /\ calls = search.calls + 1 /\ calls \in Nat
    <3>1. search.unknown + unknown \in Nat /\ search.calls + 1 \in Nat
      BY <1>2 DEF Searches
    <3> QED
      BY <2>2, <3>1
  <2>7. examined = [search EXCEPT !.items = items, !.seen = seen, !.unknown = count, !.calls = calls]
    BY <2>3, <2>6
  <2>8. seen \in SUBSET Identifiers /\ count \in Nat /\ calls \in Nat /\ search \in Searches
    BY <2>6
  <2>9. /\ examined \in Searches
        /\ examined.items = items /\ examined.seen = seen
        /\ examined.unknown = count /\ examined.calls = calls
        /\ examined.start = search.start /\ examined.complete = search.complete /\ examined.is = search.is
    BY ONLY <2>4, <2>7, <2>8 DEF Searches
  <2>5. /\ examined \in Searches
        /\ examined.items = items /\ examined.seen = search.seen \union ids
        /\ examined.unknown = search.unknown + unknown /\ examined.calls = search.calls + 1
        /\ examined.start = search.start /\ examined.complete = search.complete /\ examined.is = search.is
    BY <2>6, <2>9
  <2> QED
    BY <2>1, <2>5
<1>7. next = IF how = "more" /\ examined.calls < MaxCalls
             THEN [examined EXCEPT !.start = @ + Len(page.mails)]
             ELSE [examined EXCEPT !.is = "done", !.complete = how = "exhausted" /\ page.total # Missing]
  BY <1>0, <1>4 DEF NextPage
<1>8. ASSUME how = "more", search.calls + 1 < MaxCalls
      PROVE  PageEffect(search, page, filters, next, how)
  <2>1. next = [examined EXCEPT !.start = examined.start + Len(page.mails)]
    BY <1>6, <1>7, <1>8
  <2>2. examined.start + Len(page.mails) \in Nat
    BY <1>2, <1>6 DEF Searches
  <2>3. /\ next \in Searches /\ next.start = examined.start + Len(page.mails)
        /\ next.items = examined.items /\ next.seen = examined.seen /\ next.unknown = examined.unknown
        /\ next.calls = examined.calls /\ next.is = examined.is /\ next.complete = examined.complete
    BY <1>6, <2>1, <2>2 DEF Searches
  <2> QED
    BY <1>1, <1>6, <1>8, <2>3 DEF PageEffect
<1>9. ASSUME ~(how = "more" /\ search.calls + 1 < MaxCalls)
      PROVE  PageEffect(search, page, filters, next, how)
  <2>1. PICK complete \in BOOLEAN : complete <=> how = "exhausted" /\ page.total # Missing
    OBVIOUS
  <2>2. next = [examined EXCEPT !.is = "done", !.complete = complete]
    <3>1. complete = (how = "exhausted" /\ page.total # Missing)
      BY <2>1
    <3> QED
      BY <1>6, <1>7, <1>9, <3>1
  <2>3. /\ next \in Searches
        /\ next.items = examined.items /\ next.seen = examined.seen /\ next.unknown = examined.unknown
        /\ next.calls = examined.calls /\ next.is = "done" /\ next.complete = complete
    BY <1>6, <2>2 DEF Searches
  <2> QED
    BY <1>1, <1>6, <1>9, <2>1, <2>3 DEF PageEffect
<1>10. PageEffect(search, page, filters, next, how)
  BY <1>8, <1>9
<1> QED
  BY <1>0, <1>10

\* A page that does not fail a search leads on to more of its hits.
LEMMA SearchContinues ==
    ASSUME NEW hits \in Seq(FoundMails), NEW filters, NEW fair, NEW search, NEW k,
           SearchIs(search, hits, filters, fair, k), search.is = "going",
           NEW page \in Pages(hits, search.start),
           NEW next, next = NextPage(search, page, filters), next.is # "failed"
    PROVE  \E m \in 0 .. Len(hits) :
               SearchIs(next, hits, filters, fair /\ IsFair(page, hits, search.start), m)
<1>1. /\ search \in Searches /\ search.start = k /\ k \in 0 .. Len(hits)
      /\ search.seen = {hits[n].id : n \in 1 .. k}
      /\ search.calls < MaxCalls /\ search.calls <= MaxCalls /\ search.calls \in Nat
      /\ search.complete => k = Len(hits)
  BY DEF SearchIs, Searches
<1>2. ~Inconsistent(search, page) /\ ~Repeats(search, page)
  <2>1. SUFFICES ASSUME Inconsistent(search, page) \/ Repeats(search, page) PROVE FALSE
    OBVIOUS
  <2>2. next = [search EXCEPT !.is = "failed"]
    BY <2>1 DEF NextPage
  <2> QED
    BY <1>1, <2>2 DEF Searches
<1>3. page \in PageRecords /\ page.total \in {Len(hits), Missing} /\ page \in Pages(hits, k)
  BY <1>1, PagesAreParts
<1>4. PICK count \in 0 .. Len(hits) - k :
          /\ page.mails = SubSeq(hits, k + 1, k + count)
          /\ Len(page.mails) = count
          /\ \A n \in 1 .. count : page.mails[n] = hits[k + n]
  <2>1. search.start \in 0 .. Len(hits) /\ search.seen = {hits[n].id : n \in 1 .. search.start}
    BY <1>1
  <2>2. \E count \in 0 .. Len(hits) - search.start :
           /\ page.mails = SubSeq(hits, search.start + 1, search.start + count)
           /\ Len(page.mails) = count
           /\ \A n \in 1 .. count : page.mails[n] = hits[search.start + n]
    BY <1>1, <1>2, <2>1, PageContinues
  <2> QED
    BY <1>1, <2>2
<1>5. PICK N \in Nat : N = Len(hits)
  BY LenProperties
<1>6. PICK m : m = k + count /\ m \in 0 .. N /\ k \in Nat /\ count \in Nat /\ m \in Nat /\ k <= N
  BY <1>1, <1>4, <1>5
<1>7. PICK how : how = Continuation(search, page)
  OBVIOUS
<1>8. /\ next \in Searches
      /\ next.items = search.items \o Which(page.mails, filters, "yes")
      /\ next.seen = search.seen \union {page.mails[n].id : n \in DOMAIN page.mails}
      /\ next.unknown = search.unknown + Len(Which(page.mails, filters, "unknown"))
      /\ next.calls = search.calls + 1
      /\ how = "more" /\ search.calls + 1 < MaxCalls =>
            /\ next.is = search.is /\ next.complete = search.complete
            /\ next.start = search.start + Len(page.mails)
      /\ ~(how = "more" /\ search.calls + 1 < MaxCalls) =>
            /\ next.is = "done"
            /\ next.complete <=> how = "exhausted" /\ page.total # Missing
  <2>1. PageEffect(search, page, filters, NextPage(search, page, filters), Continuation(search, page))
    BY <1>1, <1>2, <1>3, NextPageEffect
  <2> QED
    BY <1>7, <2>1 DEF PageEffect
<1>9. SubSeq(hits, 1, k) \o page.mails = SubSeq(hits, 1, m)
  <2>1. 1 \in 1 .. Len(hits) + 1 /\ k \in 1 - 1 .. Len(hits) /\ m \in k .. Len(hits)
    BY <1>5, <1>6
  <2>2. SubSeq(hits, 1, k) \o SubSeq(hits, k + 1, m) = SubSeq(hits, 1, m)
    BY <2>1, ConcatAdjacentSubSeq
  <2> QED
    BY <1>4, <1>6, <2>2
<1>10. /\ SubSeq(hits, 1, k) \in Seq(FoundMails) /\ page.mails \in Seq(FoundMails)
       /\ DOMAIN page.mails = 1 .. count
  <2>1. page.mails \in Seq(FoundMails)
    BY <1>3 DEF PageRecords
  <2> QED
    BY <1>1, <1>4, <2>1, SeenSoFar, LenProperties
<1>24. SubSeq(hits, 1, k) \in Seq(FoundMails) /\ page.mails \in Seq(FoundMails)
  BY <1>10
<1>25. ASSUME NEW saying
       PROVE  Which(SubSeq(hits, 1, k) \o page.mails, filters, saying) =
                  Which(SubSeq(hits, 1, k), filters, saying) \o Which(page.mails, filters, saying)
  <2>1. PICK first, second : /\ first = SubSeq(hits, 1, k) /\ second = page.mails
                             /\ first \in Seq(FoundMails) /\ second \in Seq(FoundMails)
    BY <1>24
  <2>2. first \in Seq(FoundMails) /\ second \in Seq(FoundMails)
    BY <2>1
  <2>3. Which(first \o second, filters, saying) = Which(first, filters, saying) \o Which(second, filters, saying)
    BY ONLY <2>2, WhichOfConcat
  <2> QED
    BY <2>1, <2>3
<1>11. next.items = Which(SubSeq(hits, 1, m), filters, "yes")
  <2>1. search.items = Which(SubSeq(hits, 1, k), filters, "yes")
    BY DEF SearchIs
  <2>2. Which(SubSeq(hits, 1, k) \o page.mails, filters, "yes") =
            Which(SubSeq(hits, 1, k), filters, "yes") \o Which(page.mails, filters, "yes")
    BY <1>25
  <2> QED
    BY <1>8, <1>9, <2>1, <2>2
<1>12. next.unknown = Len(Which(SubSeq(hits, 1, m), filters, "unknown"))
  <2>1. search.unknown = Len(Which(SubSeq(hits, 1, k), filters, "unknown"))
    BY DEF SearchIs
  <2>2. PICK first, second : /\ first = Which(SubSeq(hits, 1, k), filters, "unknown")
                             /\ second = Which(page.mails, filters, "unknown")
                             /\ first \in Seq(FoundMails) /\ second \in Seq(FoundMails)
    BY <1>10, WhichIsASequence
  <2>3. first \in Seq(FoundMails) /\ second \in Seq(FoundMails)
    BY <2>2
  <2>4. Len(first \o second) = Len(first) + Len(second)
    BY <2>3, ConcatProperties
  <2>5. Which(SubSeq(hits, 1, k) \o page.mails, filters, "unknown") =
            Which(SubSeq(hits, 1, k), filters, "unknown") \o Which(page.mails, filters, "unknown")
    BY <1>25
  <2> QED
    BY <1>8, <1>9, <2>1, <2>2, <2>4, <2>5
<1>13. next.seen = {hits[n].id : n \in 1 .. m}
  <2>1. {page.mails[n].id : n \in DOMAIN page.mails} = {page.mails[n].id : n \in 1 .. count}
    BY <1>10
  <2>2. ASSUME NEW id PROVE id \in next.seen <=> id \in {hits[n].id : n \in 1 .. m}
    <3>1. ASSUME id \in next.seen PROVE \E n \in 1 .. m : id = hits[n].id
      <4>1. CASE id \in {hits[n].id : n \in 1 .. k}
        <5>1. PICK n \in 1 .. k : id = hits[n].id
          BY <4>1
        <5>2. n \in 1 .. m
          BY <1>6
        <5> QED
          BY <5>1, <5>2
      <4>2. CASE id \in {page.mails[n].id : n \in 1 .. count}
        <5>1. PICK n \in 1 .. count : id = page.mails[n].id
          BY <4>2
        <5>2. k + n \in 1 .. m
          BY <1>6
        <5> QED
          BY <1>4, <5>1, <5>2
      <4> QED
        BY <1>1, <1>8, <2>1, <3>1, <4>1, <4>2
    <3>2. ASSUME NEW n \in 1 .. m, id = hits[n].id PROVE id \in next.seen
      <4>1. CASE n \in 1 .. k
        BY <1>1, <1>8, <3>2, <4>1
      <4>2. CASE n > k
        <5>1. n - k \in 1 .. count /\ k + (n - k) = n
          BY <1>6, <4>2
        <5>2. page.mails[n - k].id = id
          BY <1>4, <3>2, <5>1
        <5> QED
          BY <1>8, <2>1, <5>1, <5>2
      <4> QED
        BY <1>6, <4>1, <4>2
    <3> QED
      BY <3>1, <3>2
  <2> QED
    BY <2>2
<1>14. PICK nextFair \in BOOLEAN : nextFair <=> fair /\ IsFair(page, hits, search.start)
  OBVIOUS
<1>15. next.calls <= MaxCalls /\ MaxCalls \in Nat /\ PageSize \in Nat /\ PageSize > 0
  BY <1>1, <1>8, SearchIsBounded
<1>16. next.is = "going" => next.start = m /\ next.calls < MaxCalls
  BY <1>1, <1>4, <1>6, <1>8
<1>17. /\ how = "exhausted" => ~(page.total # Missing /\ page.total > m)
       /\ how = "exhausted" => ~page.truncated /\ Len(page.mails) < PageSize
  BY <1>1, <1>4, <1>6, <1>7 DEF Continuation
<1>18. next.complete => m = Len(hits)
  <2>1. CASE how = "more" /\ search.calls + 1 < MaxCalls
    <3>1. next.complete => k = Len(hits)
      BY <1>1, <1>8, <2>1
    <3>2. count = 0 \/ k # Len(hits)
      BY <1>4, <1>5, <1>6
    <3> QED
      BY <1>5, <1>6, <3>1, <3>2
  <2>2. CASE ~(how = "more" /\ search.calls + 1 < MaxCalls)
    <3>1. next.complete => page.total = Len(hits) /\ ~(page.total > m)
      BY <1>3, <1>8, <1>17, <2>2
    <3> QED
      BY <1>5, <1>6, <3>1
  <2> QED
    BY <2>1, <2>2
<1>19. next.is = "done" /\ nextFair => next.complete \/ next.calls = MaxCalls
  <2>1. SUFFICES ASSUME next.is = "done", nextFair PROVE next.complete \/ next.calls = MaxCalls
    OBVIOUS
  <2>2. page.total # Missing /\ ~page.truncated /\ (page.mails = <<>> => k = Len(hits))
    BY <1>1, <1>14, <2>1 DEF IsFair
  <2>3. CASE how = "more" /\ search.calls + 1 < MaxCalls
    BY <1>8, <1>1, <2>1, <2>3
  <2>4. CASE how = "more" /\ ~(search.calls + 1 < MaxCalls)
    BY <1>1, <1>8, <1>15, <2>4
  <2>5. CASE how = "exhausted"
    BY <1>8, <2>2, <2>5
  <2>6. CASE how \notin {"more", "exhausted"}
    <3>1. page.total = N
      BY <1>3, <1>5, <2>2
    <3>2. page.mails = <<>> /\ ~(Len(page.mails) < PageSize /\ ~(page.total > m))
      BY <1>1, <1>4, <1>6, <1>7, <2>2, <2>6 DEF Continuation
    <3>3. k = N /\ Len(page.mails) = 0
      BY <1>5, <2>2, <3>2, EmptySeq
    <3>4. m = N
      BY <1>4, <1>6, <3>3
    <3> QED
      BY <1>15, <3>1, <3>2, <3>3, <3>4
  <2> QED
    BY <2>3, <2>4, <2>5, <2>6
<1>20. m \in 0 .. Len(hits) /\ next \in Searches
  BY <1>5, <1>6, <1>8
<1>21. next.calls <= MaxCalls
  BY <1>15
<1>22. next.is = "done" /\ fair /\ IsFair(page, hits, search.start) => next.complete \/ next.calls = MaxCalls
  BY <1>14, <1>19
<1>23. SearchIs(next, hits, filters, fair /\ IsFair(page, hits, search.start), m)
  BY ONLY <1>11, <1>12, <1>13, <1>16, <1>18, <1>20, <1>21, <1>22 DEF SearchIs
<1> QED
  BY <1>20, <1>23

(* Order *)

\* What comes before each place, if all places are in an order.
IsAnOrder(before, N) ==
    /\ before \in [1 .. N -> SUBSET (1 .. N)]
    /\ \A n \in 1 .. N : n \notin before[n]
    /\ \A m, n \in 1 .. N : m # n => m \in before[n] \/ n \in before[m]
    /\ \A n \in 1 .. N : \A m \in before[n] : before[m] \subseteq before[n]

\* The numbers of what comes before are those source 0 on, each once.
LEMMA PlacesAreRanks ==
    ASSUME NEW N \in Nat, NEW before, IsAnOrder(before, N)
    PROVE  /\ \A n \in 1 .. N : Cardinality(before[n]) \in 0 .. N - 1
           /\ \A n \in 1 .. N : \A m \in before[n] : Cardinality(before[m]) < Cardinality(before[n])
           /\ \A p \in 1 .. N : \E n \in 1 .. N : Cardinality(before[n]) = p - 1
<1>1. IsFiniteSet(1 .. N) /\ Cardinality(1 .. N) = N
  BY FS_Interval, 1 \in Int, N \in Int
<1>2. ASSUME NEW n \in 1 .. N
      PROVE  /\ IsFiniteSet(before[n]) /\ Cardinality(before[n]) \in 0 .. N - 1
  <2>1. before[n] \subseteq 1 .. N /\ n \notin before[n]
    BY DEF IsAnOrder
  <2>2. IsFiniteSet(before[n])
    BY <1>1, <2>1, FS_Subset
  <2>3. Cardinality(before[n]) \in Nat
    BY <2>2, FS_CardinalityType
  <2>4. Cardinality(before[n] \union {n}) = Cardinality(before[n]) + 1
    BY <2>1, <2>2, FS_AddElement
  <2>5. before[n] \union {n} \subseteq 1 .. N
    BY <2>1
  <2>6. Cardinality(before[n] \union {n}) <= N
    BY <1>1, <2>5, FS_Subset
  <2> QED
    BY <2>2, <2>3, <2>4, <2>6
<1>3. ASSUME NEW n \in 1 .. N, NEW m \in before[n]
      PROVE  Cardinality(before[m]) < Cardinality(before[n])
  <2>1. m \in 1 .. N /\ before[m] \subseteq before[n] /\ m \notin before[m]
    BY DEF IsAnOrder
  <2>2. Cardinality(before[m]) \in Nat /\ Cardinality(before[n]) \in Nat /\ IsFiniteSet(before[n])
    BY <1>2, <2>1
  <2>3. /\ Cardinality(before[m]) <= Cardinality(before[n])
        /\ Cardinality(before[n]) = Cardinality(before[m]) => before[n] = before[m]
    BY <2>1, <2>2, FS_Subset
  <2>4. before[n] # before[m]
    BY <2>1
  <2> QED
    BY <2>2, <2>3, <2>4
<1> DEFINE rank == [n \in 1 .. N |-> Cardinality(before[n])]
<1>4. \A n \in 1 .. N : rank[n] = Cardinality(before[n])
  OBVIOUS
<1>5. rank \in [1 .. N -> 0 .. N - 1]
  BY <1>2
<1> HIDE DEF rank
<1>6. ASSUME NEW m \in 1 .. N, NEW n \in 1 .. N, rank[m] = rank[n] PROVE m = n
  <2>1. SUFFICES ASSUME m # n PROVE FALSE
    OBVIOUS
  <2>2. m \in before[n] \/ n \in before[m]
    BY <2>1 DEF IsAnOrder
  <2>3. Cardinality(before[m]) # Cardinality(before[n])
    BY <1>2, <1>3, <2>2
  <2> QED
    BY <1>4, <1>6, <2>3
<1>7. rank \in Injection(1 .. N, 0 .. N - 1)
  BY <1>5, <1>6 DEF Injection, IsInjective
<1>8. IsFiniteSet(0 .. N - 1) /\ Cardinality(0 .. N - 1) = N
  BY FS_Interval, 0 \in Int, N - 1 \in Int
<1>9. rank \in Surjection(1 .. N, 0 .. N - 1)
  BY <1>1, <1>7, <1>8, FS_Injection
<1>10. ASSUME NEW p \in 1 .. N PROVE \E n \in 1 .. N : Cardinality(before[n]) = p - 1
  <2>1. p - 1 \in 0 .. N - 1
    OBVIOUS
  <2>2. PICK n \in 1 .. N : rank[n] = p - 1
    BY <1>9, <2>1 DEF Surjection
  <2> QED
    BY <1>4, <2>2
<1> QED
  BY <1>2, <1>3, <1>10

\* Mails that can be put in order.
AreTimed(mails) ==
    \A n \in 1 .. Len(mails) : mails[n].at \in (Nat \ {0}) \union {Missing} /\ mails[n].index \in Int

\* The mails that a stable sort puts before one.
Preceding(mails, n) ==
    {m \in 1 .. Len(mails) : \/ Earlier(mails[m], mails[n])
                             \/ m < n /\ ~Earlier(mails[n], mails[m])}

\* What a stable sort puts before each mail is an order.
LEMMA PrecedingIsAnOrder ==
    ASSUME NEW M, NEW mails \in Seq(M), AreTimed(mails)
    PROVE  IsAnOrder([n \in 1 .. Len(mails) |-> Preceding(mails, n)], Len(mails))
<1>1. PICK N \in Nat : N = Len(mails)
  BY LenProperties
<1>2. PICK at, index : /\ at = [n \in 1 .. N |-> IF mails[n].at = Missing THEN 0 ELSE mails[n].at]
                       /\ index = [n \in 1 .. N |-> mails[n].index]
  OBVIOUS
<1>3. \A n \in 1 .. N : at[n] \in Nat /\ index[n] \in Int
  BY <1>1, <1>2 DEF AreTimed
<1>4. ASSUME NEW m \in 1 .. N, NEW n \in 1 .. N
      PROVE  Earlier(mails[m], mails[n]) <=> at[m] < at[n] \/ (at[m] = at[n] /\ index[m] < index[n])
  BY <1>2 DEF Earlier
<1>5. \A m, n \in 1 .. N :
          m \in Preceding(mails, n) <=>
              \/ at[m] < at[n]
              \/ at[m] = at[n] /\ index[m] < index[n]
              \/ m < n /\ ~(at[n] < at[m]) /\ ~(at[n] = at[m] /\ index[n] < index[m])
  BY <1>1, <1>4 DEF Preceding
<1>6. PICK before : before = [n \in 1 .. N |-> Preceding(mails, n)]
  OBVIOUS
<1>7. before \in [1 .. N -> SUBSET (1 .. N)] /\ \A n \in 1 .. N : before[n] = Preceding(mails, n)
  BY <1>1, <1>6 DEF Preceding
<1>8. \A n \in 1 .. N : n \notin before[n]
  BY <1>3, <1>5, <1>7
<1>9. \A m, n \in 1 .. N : m # n => m \in before[n] \/ n \in before[m]
  BY <1>3, <1>5, <1>7
<1>10. ASSUME NEW n \in 1 .. N, NEW m \in before[n], NEW l \in before[m] PROVE l \in before[n]
  <2>1. m \in 1 .. N
    BY <1>7
  <2>2. l \in 1 .. N
    BY <1>7, <2>1
  <2>3. /\ at[m] < at[n] \/ (at[m] = at[n] /\ index[m] < index[n])
           \/ (m < n /\ ~(at[n] < at[m]) /\ ~(at[n] = at[m] /\ index[n] < index[m]))
        /\ at[l] < at[m] \/ (at[l] = at[m] /\ index[l] < index[m])
           \/ (l < m /\ ~(at[m] < at[l]) /\ ~(at[m] = at[l] /\ index[m] < index[l]))
    BY <1>5, <1>7, <2>1, <2>2
  <2>4. at[l] \in Nat /\ at[m] \in Nat /\ at[n] \in Nat /\ index[l] \in Int /\ index[m] \in Int /\ index[n] \in Int
    BY <1>3, <2>1, <2>2
  <2>5. \/ at[l] < at[n] \/ (at[l] = at[n] /\ index[l] < index[n])
        \/ (l < n /\ ~(at[n] < at[l]) /\ ~(at[n] = at[l] /\ index[n] < index[l]))
    <3>1. l \in Nat /\ m \in Nat /\ n \in Nat
      BY <2>1, <2>2
    <3>2. at[m] <= at[n] /\ at[l] <= at[m]
      BY ONLY <2>3, <2>4
    <3>3. CASE at[l] < at[n]
      BY <3>3
    <3>4. CASE at[l] = at[n]
      <4>1. at[m] = at[n] /\ at[m] = at[l]
        BY ONLY <2>4, <3>2, <3>4
      <4>2. /\ index[m] < index[n] \/ (index[m] = index[n] /\ m < n)
            /\ index[l] < index[m] \/ (index[l] = index[m] /\ l < m)
        BY ONLY <2>3, <2>4, <4>1
      <4>3. index[l] < index[n] \/ (index[l] = index[n] /\ l < n)
        BY ONLY <2>4, <3>1, <4>2
      <4> QED
        BY ONLY <2>4, <3>4, <4>3
    <3> QED
      BY ONLY <2>4, <3>2, <3>3, <3>4
  <2> QED
    BY <1>5, <1>7, <2>2, <2>4, <2>5
<1>11. IsAnOrder(before, N)
  BY <1>7, <1>8, <1>9, <1>10 DEF IsAnOrder
<1> QED
  BY <1>1, <1>6, <1>11

\* The order of mails is theirs, each once, none before an earlier one.
IsSorted(mails, sorted, source) ==
    /\ source \in [1 .. Len(mails) -> 1 .. Len(mails)]
    /\ \A p \in 1 .. Len(mails) : sorted[p] = mails[source[p]]
    /\ \A p, q \in 1 .. Len(mails) : p < q => source[p] # source[q] /\ ~Earlier(mails[source[q]], mails[source[p]])

\* InOrder hands out all mails, each once, none before an earlier one.
LEMMA InOrderSorts ==
    ASSUME NEW M, NEW mails \in Seq(M), AreTimed(mails)
    PROVE  /\ InOrder(mails) \in Seq(M)
           /\ Len(InOrder(mails)) = Len(mails)
           /\ \E source : IsSorted(mails, InOrder(mails), source)
<1>1. PICK N \in Nat : N = Len(mails) /\ DOMAIN mails = 1 .. N /\ \A n \in 1 .. N : mails[n] \in M
  BY LenProperties
<1>2. PICK before : before = [n \in 1 .. N |-> Preceding(mails, n)]
  OBVIOUS
<1>3. IsAnOrder(before, N)
  BY <1>1, <1>2, PrecedingIsAnOrder
<1>4. /\ \A n \in 1 .. N : Cardinality(before[n]) \in 0 .. N - 1
      /\ \A n \in 1 .. N : \A m \in before[n] : Cardinality(before[m]) < Cardinality(before[n])
      /\ \A p \in 1 .. N : \E n \in 1 .. N : Cardinality(before[n]) = p - 1
  BY <1>3, PlacesAreRanks
<1>5. PICK source : source = [p \in 1 .. N |-> CHOOSE n \in 1 .. N : Cardinality(before[n]) = p - 1]
  OBVIOUS
<1>6. \A p \in 1 .. N : source[p] \in 1 .. N /\ Cardinality(before[source[p]]) = p - 1
  BY <1>4, <1>5
<1>7. PICK sorted : sorted = InOrder(mails)
  OBVIOUS
<1>8. sorted = [p \in 1 .. N |-> mails[source[p]]]
  <2>1. \A n \in 1 .. N : before[n] = {m \in 1 .. N : \/ Earlier(mails[m], mails[n])
                                                      \/ m < n /\ ~Earlier(mails[n], mails[m])}
    BY <1>1, <1>2 DEF Preceding
  <2>2. sorted = [place \in 1 .. N |-> mails[CHOOSE n \in 1 .. N :
                     Cardinality({m \in 1 .. N : \/ Earlier(mails[m], mails[n])
                                                 \/ m < n /\ ~Earlier(mails[n], mails[m])}) = place - 1]]
    BY <1>1, <1>7 DEF InOrder
  <2>3. ASSUME NEW p \in 1 .. N
        PROVE  (CHOOSE n \in 1 .. N : Cardinality(before[n]) = p - 1) =
               (CHOOSE n \in 1 .. N :
                     Cardinality({m \in 1 .. N : \/ Earlier(mails[m], mails[n])
                                                 \/ m < n /\ ~Earlier(mails[n], mails[m])}) = p - 1)
    <3>1. \A n \in 1 .. N : Cardinality(before[n]) = p - 1 <=>
                     Cardinality({m \in 1 .. N : \/ Earlier(mails[m], mails[n])
                                                 \/ m < n /\ ~Earlier(mails[n], mails[m])}) = p - 1
      BY <2>1
    <3> QED
      BY <3>1
  <2>4. \A p \in 1 .. N : sorted[p] = mails[CHOOSE n \in 1 .. N : Cardinality(before[n]) = p - 1]
    <3>1. SUFFICES ASSUME NEW p \in 1 .. N
                   PROVE  sorted[p] = mails[CHOOSE n \in 1 .. N : Cardinality(before[n]) = p - 1]
      OBVIOUS
    <3> QED
      BY <2>2, <2>3
  <2>5. \A p \in 1 .. N : sorted[p] = mails[source[p]]
    BY <1>5, <2>4
  <2> QED
    BY <2>2, <2>5
<1>9. /\ sorted \in [1 .. N -> M]
      /\ \A p \in 1 .. N : sorted[p] = mails[source[p]]
  BY <1>1, <1>6, <1>8
<1>10. source \in [1 .. N -> 1 .. N]
  BY <1>5, <1>6
<1>11. ASSUME NEW p \in 1 .. N, NEW q \in 1 .. N, p < q
       PROVE  source[p] # source[q] /\ ~Earlier(mails[source[q]], mails[source[p]])
  <2>1. source[p] # source[q]
    <3>1. SUFFICES ASSUME source[p] = source[q] PROVE FALSE
      OBVIOUS
    <3>2. p - 1 = q - 1
      BY <1>6, <3>1
    <3> QED
      BY <1>11, <3>2
  <2>2. SUFFICES ASSUME Earlier(mails[source[q]], mails[source[p]]) PROVE FALSE
    BY <2>1
  <2>3. source[q] \in before[source[p]]
    BY <1>1, <1>2, <1>6, <2>2 DEF Preceding
  <2>4. Cardinality(before[source[q]]) < Cardinality(before[source[p]])
    BY <1>4, <1>6, <2>3
  <2> QED
    BY <1>6, <1>11, <2>4
<1>12. IsSorted(mails, sorted, source)
  BY <1>1, <1>9, <1>10, <1>11 DEF IsSorted
<1>13. sorted \in Seq(M) /\ Len(sorted) = N
  BY <1>9
<1> QED
  BY <1>1, <1>7, <1>12, <1>13

(* Bodies *)

BodyOf(item) == IF "body" \in DOMAIN item THEN item.body ELSE 0

HaveBodies(M) == \A item \in M : "body" \in DOMAIN item => item.body \in Nat

SummedBySteps(items) ==
    \E total : /\ total[0] = 0
               /\ \A n \in 1 .. Len(items) : total[n] = total[n - 1] + BodyOf(items[n])
               /\ \A n \in 0 .. Len(items) : total[n] \in Nat
               /\ BodySum(items) = total[Len(items)]

\* The recursion of BodySum denotes a function: bodies are added item by item.
LEMMA BodySumUnrolled ==
    ASSUME NEW M, HaveBodies(M), NEW items \in Seq(M)
    PROVE  SummedBySteps(items)
<1>0. PICK N \in Nat : N = Len(items) /\ \A n \in 1 .. N : items[n] \in M
  BY LenProperties
<1>1. \A n \in 1 .. N : BodyOf(items[n]) \in Nat
  BY <1>0 DEF BodyOf, HaveBodies
<1> DEFINE S == [n \in 0 .. N |-> Nat]
           step == [c \in (1 .. N) \X Nat |-> c[2] + BodyOf(items[c[1]])]
           equation(f) == f = [n \in 0 .. N |->
                                  IF n = 0 THEN 0
                                  ELSE f[n - 1] + (IF "body" \in DOMAIN items[n] THEN items[n].body ELSE 0)]
<1>2. \A n \in 0 .. N : S[n] = Nat
  OBVIOUS
<1>3. \A n \in 1 .. N : \A x \in Nat : step[<<n, x>>] = x + BodyOf(items[n])
  OBVIOUS
<1> HIDE DEF S, step
<1>4. \A n \in 1 .. N : \A x \in S[n - 1] : step[<<n, x>>] = x + BodyOf(items[n]) /\ step[<<n, x>>] \in S[n]
  <2>1. SUFFICES ASSUME NEW n \in 1 .. N, NEW x \in S[n - 1]
                 PROVE  step[<<n, x>>] = x + BodyOf(items[n]) /\ step[<<n, x>>] \in S[n]
    OBVIOUS
  <2>2. n - 1 \in 0 .. N /\ n \in 0 .. N
    OBVIOUS
  <2>3. x \in Nat /\ BodyOf(items[n]) \in Nat
    BY <1>1, <1>2, <2>2
  <2> QED
    BY <1>2, <1>3, <2>2, <2>3
<1>5. 0 \in S[0] /\ StepsWithin(N, Nat, S, 0, step)
  <2>1. 0 \in S[0]
    BY <1>2, 0 \in 0 .. N
  <2> QED
    BY <1>2, <1>4, <2>1 DEF StepsWithin
<1>6. PICK f \in [0 .. N -> Nat] :
          /\ f[0] = 0
          /\ \A n \in 1 .. N : f[n] = step[<<n, f[n - 1]>>]
          /\ \A n \in 0 .. N : f[n] \in S[n]
  <2>1. N \in Nat
    OBVIOUS
  <2> QED
    BY ONLY <1>5, <2>1, StepsDefine
<1>7. ASSUME NEW n \in 0 .. N PROVE f[n] = IF n = 0 THEN 0 ELSE f[n - 1] + BodyOf(items[n])
  <2>1. CASE n = 0
    BY <1>6, <2>1
  <2>2. CASE n \in 1 .. N
    <3>1. n - 1 \in 0 .. N
      BY <2>2
    <3> QED
      BY <1>4, <1>6, <2>2, <3>1
  <2> QED
    BY <2>1, <2>2
<1>8. equation(f)
  BY <1>6, <1>7 DEF BodyOf
<1>9. PICK total : total = CHOOSE g : equation(g)
  OBVIOUS
<1>10. equation(total)
  BY <1>8, <1>9
<1>11. BodySum(items) = total[N]
  BY <1>0, <1>9 DEF BodySum
<1>12. \A n \in 0 .. N : total[n] = IF n = 0 THEN 0 ELSE total[n - 1] + BodyOf(items[n])
  BY <1>10 DEF BodyOf
<1>13. total[0] = 0 /\ \A n \in 1 .. N : total[n] = total[n - 1] + BodyOf(items[n])
  BY <1>12
<1>14. \A n \in 0 .. N : total[n] \in S[n]
  <2>1. ASSUME NEW n \in 1 .. N, total[n - 1] \in S[n - 1] PROVE total[n] \in S[n]
    <3>1. n - 1 \in 0 .. N /\ n \in 0 .. N
      OBVIOUS
    <3>2. total[n - 1] \in Nat /\ total[n] = total[n - 1] + BodyOf(items[n])
      BY <1>2, <1>13, <2>1, <3>1
    <3>3. BodyOf(items[n]) \in Nat
      BY <1>1
    <3>4. total[n] \in Nat
      BY <3>2, <3>3
    <3> QED
      BY <1>2, <3>1, <3>4
  <2> QED
    BY <1>5, <1>13, <2>1, StepsStay
<1> QED
  BY <1>0, <1>2, <1>11, <1>13, <1>14 DEF SummedBySteps

\* Nothing has no bodies.
LEMMA BodySumOfNone == BodySum(<<>>) = 0
<1>1. PICK M, none : M = {} /\ none \in Seq(M) /\ none = <<>> /\ Len(none) = 0
  <2>1. <<>> \in Seq({}) /\ Len(<<>>) = 0
    BY EmptySeq
  <2> QED
    BY <2>1
<1>2. HaveBodies(M)
  BY <1>1 DEF HaveBodies
<1>3. SummedBySteps(none)
  BY <1>1, <1>2, BodySumUnrolled
<1> QED
  BY <1>1, <1>3 DEF SummedBySteps

\* Another item adds its body.
LEMMA BodySumOfAppend ==
    ASSUME NEW M, HaveBodies(M), NEW s \in Seq(M), NEW m \in M
    PROVE  BodySum(s) \in Nat /\ BodySum(Append(s, m)) = BodySum(s) + BodyOf(m)
<1>1. PICK longer : longer = Append(s, m)
  OBVIOUS
<1>2. PICK N \in Nat : N = Len(s)
  BY LenProperties
<1>3. /\ longer \in Seq(M) /\ Len(longer) = N + 1 /\ longer[N + 1] = m
      /\ \A n \in 1 .. N : longer[n] = s[n]
  BY <1>1, <1>2, AppendProperties
<1>4. PICK total : /\ total[0] = 0
                   /\ \A n \in 1 .. Len(s) : total[n] = total[n - 1] + BodyOf(s[n])
                   /\ \A n \in 0 .. Len(s) : total[n] \in Nat
                   /\ BodySum(s) = total[Len(s)]
  <2>1. SummedBySteps(s)
    BY BodySumUnrolled
  <2> QED
    BY <2>1 DEF SummedBySteps
<1>5. PICK grown : /\ grown[0] = 0
                   /\ \A n \in 1 .. Len(longer) : grown[n] = grown[n - 1] + BodyOf(longer[n])
                   /\ \A n \in 0 .. Len(longer) : grown[n] \in Nat
                   /\ BodySum(longer) = grown[Len(longer)]
  <2>1. SummedBySteps(longer)
    BY <1>3, BodySumUnrolled
  <2> QED
    BY <2>1 DEF SummedBySteps
<1>6. \A n \in 0 .. N : grown[n] = total[n]
  <2> DEFINE S == [n \in 0 .. N |-> {total[n]}]
  <2>1. \A n \in 0 .. N : S[n] = {total[n]}
    OBVIOUS
  <2> HIDE DEF S
  <2>2. grown[0] \in S[0]
    BY <1>4, <1>5, <2>1, 0 \in 0 .. N
  <2>3. ASSUME NEW n \in 1 .. N, grown[n - 1] \in S[n - 1] PROVE grown[n] \in S[n]
    <3>1. n - 1 \in 0 .. N /\ n \in 0 .. N /\ n \in 1 .. Len(longer) /\ n \in 1 .. Len(s)
      BY <1>2, <1>3
    <3>2. grown[n - 1] = total[n - 1]
      BY <2>1, <2>3, <3>1
    <3>3. grown[n] = total[n]
      BY <1>3, <1>4, <1>5, <3>1, <3>2
    <3> QED
      BY <2>1, <3>1, <3>3
  <2>4. \A n \in 0 .. N : grown[n] \in S[n]
    BY <2>2, <2>3, StepsStay
  <2> QED
    BY <2>1, <2>4
<1>7. grown[N + 1] = total[N] + BodyOf(m)
  <2>1. N + 1 \in 1 .. Len(longer) /\ (N + 1) - 1 = N /\ N \in 0 .. N
    BY <1>3
  <2> QED
    BY <1>3, <1>5, <1>6, <2>1
<1>8. BodySum(s) = total[N] /\ total[N] \in Nat
  BY <1>2, <1>4, N \in 0 .. N
<1>9. BodySum(longer) = grown[N + 1]
  BY <1>3, <1>5
<1> QED
  BY <1>1, <1>7, <1>8, <1>9

(* Reading *)

Shown == [id : Identifiers, body : Nat, cut : BOOLEAN]

\* What a mail is shown as.
Shows(item, mail, bodyLimit) ==
    item.id = mail.id /\ item.body <= bodyLimit /\ (item.cut \/ item.body = mail.body)

CanBeRead(mails) ==
    /\ Len(mails) \in Nat
    /\ \A n \in 1 .. Len(mails) :
           mails[n].id \in Identifiers /\ mails[n].body \in Nat /\ mails[n].belongs \in BOOLEAN

\* A mail that is shown has a body.
LEMMA ShownHaveBodies == HaveBodies(Shown) /\ \A item \in Shown : BodyOf(item) = item.body
  BY DEF Shown, HaveBodies, BodyOf

\* What is read of a mail is within the limit, and whole unless it is cut.
LEMMA ReadShows ==
    ASSUME NEW mail, mail.id \in Identifiers, mail.body \in Nat, NEW limit \in Nat
    PROVE  /\ Read(mail, limit) \in Shown /\ Read(mail, limit).id = mail.id
           /\ Read(mail, limit).body <= limit
           /\ Read(mail, limit).cut \/ Read(mail, limit).body = mail.body
<1>1. Smaller(mail.body, limit) \in Nat /\ Smaller(mail.body, limit) <= limit
  BY DEF Smaller
<1>2. mail.body > limit \/ Smaller(mail.body, limit) = mail.body
  BY DEF Smaller
<1>3. PICK body \in Nat : body = Smaller(mail.body, limit)
  BY <1>1
<1>7. PICK cut \in BOOLEAN : cut <=> mail.body > limit
  OBVIOUS
<1>8. cut = (mail.body > limit)
  BY <1>7
<1>4. Read(mail, limit) = [id |-> mail.id, body |-> body, cut |-> cut]
  BY <1>3, <1>8 DEF Read
<1>5. Read(mail, limit) \in Shown
  BY <1>3, <1>4 DEF Shown
<1>6. Read(mail, limit).id = mail.id /\ Read(mail, limit).body = body /\ Read(mail, limit).cut = cut
  BY <1>4
<1> QED
  BY <1>1, <1>2, <1>3, <1>5, <1>6, <1>7

(* A conversation *)

ThreadState == [remaining : Nat, items : Seq(Shown), foreign : BOOLEAN]

\* What was read of the first n mails found.
ThreadSoFar(read, found, n, bodyLimit, budget) ==
    /\ read \in ThreadState
    /\ read.remaining + BodySum(read.items) = budget
    /\ Len(read.items) <= n
    /\ \E places \in [1 .. Len(read.items) -> 1 .. n] :
           /\ \A i, j \in 1 .. Len(read.items) : i < j => places[i] < places[j]
           /\ \A i \in 1 .. Len(read.items) :
                  /\ Shows(read.items[i], found[places[i]], bodyLimit)
                  /\ found[places[i]].belongs \/ read.foreign

\* One that cannot be read is left out.
LEMMA ThreadSkips ==
    ASSUME NEW read, NEW found, NEW n \in Nat, NEW bodyLimit, NEW budget,
           ThreadSoFar(read, found, n, bodyLimit, budget)
    PROVE  ThreadSoFar(read, found, n + 1, bodyLimit, budget)
<1>1. PICK N \in Nat : N = Len(read.items)
  <2>1. read.items \in Seq(Shown)
    BY DEF ThreadSoFar, ThreadState
  <2> QED
    BY <2>1, LenProperties
<1>2. PICK places \in [1 .. N -> 1 .. n] :
           /\ \A i, j \in 1 .. N : i < j => places[i] < places[j]
           /\ \A i \in 1 .. N :
                  /\ Shows(read.items[i], found[places[i]], bodyLimit)
                  /\ found[places[i]].belongs \/ read.foreign
  BY <1>1 DEF ThreadSoFar
<1>3. places \in [1 .. N -> 1 .. n + 1]
  BY <1>2
<1>4. N <= n + 1
  BY <1>1 DEF ThreadSoFar
<1>5. read \in ThreadState /\ read.remaining + BodySum(read.items) = budget
  BY DEF ThreadSoFar
<1> QED
  BY <1>1, <1>2, <1>3, <1>4, <1>5 DEF ThreadSoFar

\* The next one is shown within what remains.
LEMMA ThreadAdds ==
    ASSUME NEW read, NEW found, NEW n \in Nat, NEW bodyLimit \in Nat, NEW budget \in Nat,
           ThreadSoFar(read, found, n, bodyLimit, budget),
           CanBeRead(found), n + 1 <= Len(found),
           NEW item \in Shown, Shows(item, found[n + 1], bodyLimit), item.body <= read.remaining,
           NEW foreign \in BOOLEAN, read.foreign => foreign, found[n + 1].belongs \/ foreign
    PROVE  ThreadSoFar([remaining |-> read.remaining - item.body, items |-> Append(read.items, item),
                        foreign |-> foreign], found, n + 1, bodyLimit, budget)
<1>0. read.items \in Seq(Shown) /\ read.remaining \in Nat /\ item.body \in Nat
  BY DEF ThreadSoFar, ThreadState, Shown
<1>1. PICK N \in Nat : N = Len(read.items) /\ N <= n
  BY <1>0, LenProperties DEF ThreadSoFar
<1>2. PICK places \in [1 .. N -> 1 .. n] :
           /\ \A i, j \in 1 .. N : i < j => places[i] < places[j]
           /\ \A i \in 1 .. N :
                  /\ Shows(read.items[i], found[places[i]], bodyLimit)
                  /\ found[places[i]].belongs \/ read.foreign
  BY <1>1 DEF ThreadSoFar
<1>3. PICK items, remaining : /\ items = Append(read.items, item) /\ items \in Seq(Shown)
                              /\ remaining = read.remaining - item.body /\ remaining \in Nat
  <2>1. Append(read.items, item) \in Seq(Shown)
    BY <1>0, AppendProperties
  <2>2. read.remaining - item.body \in Nat
    BY <1>0
  <2> QED
    BY <2>1, <2>2
<1>4. /\ items \in Seq(Shown) /\ Len(items) = N + 1 /\ items[N + 1] = item
      /\ \A i \in 1 .. N : items[i] = read.items[i]
  BY <1>0, <1>1, <1>3, AppendProperties
<1>5. BodySum(read.items) \in Nat /\ BodySum(items) = BodySum(read.items) + item.body
  BY <1>0, <1>3, ShownHaveBodies, BodySumOfAppend
<1>6. PICK more : more = [i \in 1 .. N + 1 |-> IF i = N + 1 THEN n + 1 ELSE places[i]]
  OBVIOUS
<1>7. /\ more \in [1 .. N + 1 -> 1 .. n + 1] /\ more[N + 1] = n + 1
      /\ \A i \in 1 .. N : more[i] = places[i] /\ places[i] \in 1 .. n
  BY <1>2, <1>6
<1>8. ASSUME NEW i \in 1 .. N + 1, NEW j \in 1 .. N + 1, i < j PROVE more[i] < more[j]
  <2>1. i \in 1 .. N
    BY <1>8
  <2>2. CASE j = N + 1
    BY <1>7, <2>1, <2>2
  <2>3. CASE j \in 1 .. N
    BY <1>2, <1>7, <1>8, <2>1, <2>3
  <2> QED
    BY <2>2, <2>3
<1>9. ASSUME NEW i \in 1 .. N + 1
      PROVE  /\ Shows(items[i], found[more[i]], bodyLimit)
             /\ found[more[i]].belongs \/ foreign
  <2>1. CASE i = N + 1
    BY <1>4, <1>7, <2>1
  <2>2. CASE i \in 1 .. N
    <3>1. items[i] = read.items[i] /\ more[i] = places[i]
      BY <1>4, <1>7, <2>2
    <3> QED
      BY <1>2, <2>2, <3>1
  <2> QED
    BY <2>1, <2>2
<1>10. PICK next : next = [remaining |-> remaining, items |-> items, foreign |-> foreign]
  OBVIOUS
<1>11. next \in ThreadState /\ next.remaining = remaining /\ next.items = items /\ next.foreign = foreign
  BY <1>3, <1>4, <1>10 DEF ThreadState
<1>12. next.remaining + BodySum(next.items) = budget
  <2>1. read.remaining + BodySum(read.items) = budget
    BY DEF ThreadSoFar
  <2> QED
    BY <1>0, <1>3, <1>5, <1>11, <2>1
<1>13. Len(next.items) = N + 1 /\ N + 1 <= n + 1
  BY <1>1, <1>4, <1>11
<1>14. ThreadSoFar(next, found, n + 1, bodyLimit, budget)
  BY <1>7, <1>8, <1>9, <1>11, <1>12, <1>13 DEF ThreadSoFar
<1> QED
  BY <1>3, <1>10, <1>14

\* A mail of a conversation.
ThreadStep(mail, before, bodyLimit, failing) ==
    IF before.remaining # 0 /\ mail.id \in failing THEN before
    ELSE [remaining |-> before.remaining - Read(mail, Smaller(bodyLimit, before.remaining)).body,
          items |-> Append(before.items, [Read(mail, Smaller(bodyLimit, before.remaining))
                                             EXCEPT !.cut = @ \/ before.remaining = 0]),
          foreign |-> before.foreign \/ ~mail.belongs]

\* Reading the next mail of a conversation keeps what holds of those before it.
LEMMA ThreadStays ==
    ASSUME NEW read, NEW found, NEW n \in Nat, NEW bodyLimit \in Nat, NEW budget \in Nat, NEW failing,
           ThreadSoFar(read, found, n, bodyLimit, budget),
           CanBeRead(found), n + 1 <= Len(found)
    PROVE  ThreadSoFar(ThreadStep(found[n + 1], read, bodyLimit, failing), found, n + 1, bodyLimit, budget)
<1>1. PICK mail : /\ mail = found[n + 1]
                  /\ mail.id \in Identifiers /\ mail.body \in Nat /\ mail.belongs \in BOOLEAN
  <2>1. n + 1 \in 1 .. Len(found)
    BY DEF CanBeRead
  <2> QED
    BY <2>1 DEF CanBeRead
<1>2. read.remaining \in Nat /\ read.foreign \in BOOLEAN
  BY DEF ThreadSoFar, ThreadState
<1>3. PICK limit \in Nat : limit = Smaller(bodyLimit, read.remaining) /\ limit <= bodyLimit /\ limit <= read.remaining
  BY <1>2 DEF Smaller
<1>4. CASE read.remaining # 0 /\ mail.id \in failing
  <2>1. ThreadStep(mail, read, bodyLimit, failing) = read
    BY <1>4 DEF ThreadStep
  <2> QED
    BY <1>1, <2>1, ThreadSkips
<1>5. CASE ~(read.remaining # 0 /\ mail.id \in failing)
  <2>1. PICK shown \in Shown : /\ shown = Read(mail, limit) /\ shown.id = mail.id
                               /\ shown.body <= limit /\ (shown.cut \/ shown.body = mail.body)
    BY <1>1, ReadShows
  <2>2. PICK cut \in BOOLEAN : cut <=> shown.cut \/ read.remaining = 0
    OBVIOUS
  <2>3. PICK item : item = [shown EXCEPT !.cut = cut]
    OBVIOUS
  <2>4. /\ item \in Shown /\ item.id = shown.id /\ item.body = shown.body /\ item.cut = cut
        /\ shown.body \in Nat
    BY <2>3 DEF Shown
  <2>5. Shows(item, mail, bodyLimit) /\ item.body <= read.remaining
    <3>1. item.body <= bodyLimit /\ item.body <= read.remaining
      BY <1>2, <1>3, <2>1, <2>4
    <3> QED
      BY <2>1, <2>2, <2>4, <3>1 DEF Shows
  <2>6. PICK foreign \in BOOLEAN : foreign <=> read.foreign \/ ~mail.belongs
    OBVIOUS
  <2>7. ThreadStep(mail, read, bodyLimit, failing) =
            [remaining |-> read.remaining - item.body, items |-> Append(read.items, item), foreign |-> foreign]
    <3>1. foreign = (read.foreign \/ ~mail.belongs)
      BY <2>6
    <3>2. [Read(mail, limit) EXCEPT !.cut = @ \/ read.remaining = 0] = item
      <4>1. (shown.cut \/ read.remaining = 0) = cut
        BY <2>2
      <4> QED
        BY <2>1, <2>3, <4>1
    <3>3. ThreadStep(mail, read, bodyLimit, failing) =
              [remaining |-> read.remaining - Read(mail, limit).body,
               items |-> Append(read.items, [Read(mail, limit) EXCEPT !.cut = @ \/ read.remaining = 0]),
               foreign |-> read.foreign \/ ~mail.belongs]
      BY <1>3, <1>5 DEF ThreadStep
    <3> QED
      BY <2>1, <2>4, <3>1, <3>2, <3>3
  <2>8. Shows(item, found[n + 1], bodyLimit) /\ (read.foreign => foreign) /\ (found[n + 1].belongs \/ foreign)
    BY <1>1, <2>5, <2>6
  <2>9. ThreadSoFar([remaining |-> read.remaining - item.body, items |-> Append(read.items, item),
                     foreign |-> foreign], found, n + 1, bodyLimit, budget)
    BY <2>4, <2>5, <2>8, ThreadAdds
  <2> QED
    BY <1>1, <2>7, <2>9
<1> QED
  BY <1>4, <1>5

\* Whatever the recursion of Thread denotes, it is read mail by mail.
ThreadEnds(thread, last, found, N, search, resultLimit) ==
    thread = IF search.is = "failed" \/ last.foreign \/ last.items = <<>> THEN Unreadable
             ELSE [is |-> "thread", items |-> last.items,
                   truncated |-> \/ MayMiss(search)
                                 \/ Len(found) > resultLimit
                                 \/ Len(last.items) < N]

\* The recursion of Thread denotes a function, and ends with all that may be read.
LEMMA ThreadUnrolled ==
    ASSUME NEW search, NEW resultLimit \in Nat, NEW bodyLimit \in Nat, NEW budget \in Nat, NEW failing,
           CanBeRead(InOrder(search.items))
    PROVE  \E last :
               /\ ThreadSoFar(last, InOrder(search.items), Smaller(Len(InOrder(search.items)), resultLimit), bodyLimit, budget)
               /\ ThreadEnds(Thread(search, resultLimit, bodyLimit, budget, failing), last,
                             InOrder(search.items), Smaller(Len(InOrder(search.items)), resultLimit), search, resultLimit)
<1>1. PICK found : found = InOrder(search.items)
  OBVIOUS
<1>2. Len(found) \in Nat /\ CanBeRead(found)
  BY <1>1 DEF CanBeRead
<1>3. PICK N \in Nat : N = Smaller(Len(found), resultLimit) /\ N <= Len(found)
  BY <1>2 DEF Smaller
<1>4. PICK start : start = [remaining |-> budget, items |-> <<>>, foreign |-> FALSE]
  OBVIOUS
<1>5. ThreadSoFar(start, found, 0, bodyLimit, budget)
  <2>1. /\ start \in ThreadState /\ start.remaining = budget /\ start.items = <<>> /\ start.foreign = FALSE
    <3>1. <<>> \in Seq(Shown)
      OBVIOUS
    <3> QED
      BY <1>4, <3>1 DEF ThreadState
  <2>2. Len(<<>>) = 0 /\ BodySum(<<>>) = 0
    BY BodySumOfNone, EmptySeq
  <2>3. PICK places : places \in [1 .. 0 -> 1 .. 0]
    <3>1. [i \in 1 .. 0 |-> i] \in [1 .. 0 -> 1 .. 0]
      OBVIOUS
    <3> QED
      BY <3>1
  <2>4. \A i \in 1 .. 0 : FALSE
    OBVIOUS
  <2>5. Len(start.items) = 0 /\ start.remaining + BodySum(start.items) = budget
    BY <2>1, <2>2
  <2>6. places \in [1 .. Len(start.items) -> 1 .. 0] /\ (\A i \in 1 .. Len(start.items) : FALSE) /\ Len(start.items) <= 0
    BY <2>3, <2>4, <2>5
  <2> QED
    BY ONLY <2>1, <2>5, <2>6 DEF ThreadSoFar
<1> DEFINE reads(n) == {read \in ThreadState : ThreadSoFar(read, found, n, bodyLimit, budget)}
           S == [n \in 0 .. N |-> reads(n)]
           step == [c \in (1 .. N) \X ThreadState |-> ThreadStep(found[c[1]], c[2], bodyLimit, failing)]
           equation(f) == f = [n \in 0 .. N |->
                                  IF n = 0 THEN start ELSE ThreadStep(found[n], f[n - 1], bodyLimit, failing)]
<1>6. \A n \in 0 .. N : S[n] \subseteq ThreadState /\
                        \A read : read \in S[n] <=> ThreadSoFar(read, found, n, bodyLimit, budget)
  BY DEF ThreadSoFar
<1>7. \A n \in 1 .. N : \A x \in ThreadState : step[<<n, x>>] = ThreadStep(found[n], x, bodyLimit, failing)
  OBVIOUS
<1> HIDE DEF S, step
<1>8. ASSUME NEW n \in 1 .. N, NEW x \in S[n - 1]
      PROVE  /\ step[<<n, x>>] = ThreadStep(found[n], x, bodyLimit, failing)
             /\ ThreadStep(found[n], x, bodyLimit, failing) \in S[n]
  <2>1. PICK m \in Nat : m = n - 1 /\ n = m + 1
    OBVIOUS
  <2>2. m \in 0 .. N /\ n \in 0 .. N /\ m + 1 <= Len(found)
    BY <1>2, <1>3, <2>1
  <2>3. x \in ThreadState /\ ThreadSoFar(x, found, m, bodyLimit, budget)
    BY <1>6, <2>1, <2>2
  <2>4. ThreadSoFar(ThreadStep(found[m + 1], x, bodyLimit, failing), found, m + 1, bodyLimit, budget)
    BY <1>2, <2>2, <2>3, ThreadStays
  <2> QED
    BY <1>6, <1>7, <2>1, <2>2, <2>3, <2>4
<1>9. start \in S[0] /\ StepsWithin(N, ThreadState, S, start, step)
  <2>1. start \in S[0]
    BY <1>5, <1>6, 0 \in 0 .. N
  <2> QED
    BY <1>6, <1>8, <2>1 DEF StepsWithin
<1>10. PICK f \in [0 .. N -> ThreadState] :
          /\ f[0] = start
          /\ \A n \in 1 .. N : f[n] = step[<<n, f[n - 1]>>]
          /\ \A n \in 0 .. N : f[n] \in S[n]
  <2>1. N \in Nat
    OBVIOUS
  <2> QED
    BY ONLY <1>9, <2>1, StepsDefine
<1>11. ASSUME NEW n \in 0 .. N
       PROVE  f[n] = IF n = 0 THEN start ELSE ThreadStep(found[n], f[n - 1], bodyLimit, failing)
  <2>1. CASE n = 0
    BY <1>10, <2>1
  <2>2. CASE n \in 1 .. N
    <3>1. n - 1 \in 0 .. N
      BY <2>2
    <3> QED
      BY <1>8, <1>10, <2>2, <3>1
  <2> QED
    BY <2>1, <2>2
<1>12. equation(f)
  BY <1>10, <1>11
<1>13. PICK read : read = CHOOSE g : equation(g)
  OBVIOUS
<1>14. equation(read)
  BY <1>12, <1>13
<1>15. \A n \in 0 .. N : read[n] = IF n = 0 THEN start ELSE ThreadStep(found[n], read[n - 1], bodyLimit, failing)
  BY <1>14
<1>16. \A n \in 0 .. N : read[n] \in S[n]
  <2>1. read[0] \in S[0]
    BY <1>9, <1>15, 0 \in 0 .. N
  <2>2. ASSUME NEW n \in 1 .. N, read[n - 1] \in S[n - 1] PROVE read[n] \in S[n]
    <3>1. read[n] = ThreadStep(found[n], read[n - 1], bodyLimit, failing)
      BY <1>15
    <3> QED
      BY <1>8, <2>2, <3>1
  <2> QED
    BY <2>1, <2>2, StepsStay
<1>17. ThreadSoFar(read[N], found, N, bodyLimit, budget)
  BY <1>6, <1>16, N \in 0 .. N
<1>18. ThreadEnds(Thread(search, resultLimit, bodyLimit, budget, failing), read[N], found, N, search, resultLimit)
  BY <1>1, <1>3, <1>4, <1>13 DEF Thread, ThreadEnds, ThreadStep
<1> QED
  BY <1>1, <1>3, <1>17, <1>18

(* Several mails *)

Unread == [id : Identifiers, error : {TRUE}]

Entries == Shown \union Unread

\* What the first n mails are answered with.
ManySoFar(read, mails, n, bodyLimit, budget, failing) ==
    /\ read \in [remaining : Nat, items : Seq(Entries)]
    /\ read.remaining + BodySum(read.items) = budget
    /\ Len(read.items) = n
    /\ \A i \in 1 .. n :
           /\ read.items[i].id = mails[i].id
           /\ mails[i].id \in failing => read.items[i] \in Unread
           /\ mails[i].id \notin failing => read.items[i] \in Shown /\ Shows(read.items[i], mails[i], bodyLimit)

\* Of several mails each has a body or an error.
LEMMA EntriesHaveBodies ==
    /\ HaveBodies(Entries)
    /\ \A item \in Shown : "body" \in DOMAIN item /\ "error" \notin DOMAIN item /\ BodyOf(item) = item.body
    /\ \A item \in Unread : "body" \notin DOMAIN item /\ "error" \in DOMAIN item /\ BodyOf(item) = 0
  BY DEF Shown, Unread, Entries, HaveBodies, BodyOf

\* The next entry is for the next mail.
LEMMA ManyAdds ==
    ASSUME NEW read, NEW mails, NEW n \in Nat, NEW bodyLimit, NEW budget \in Nat, NEW failing,
           ManySoFar(read, mails, n, bodyLimit, budget, failing),
           NEW item \in Entries, NEW remaining \in Nat, remaining + BodyOf(item) = read.remaining,
           item.id = mails[n + 1].id,
           mails[n + 1].id \in failing => item \in Unread,
           mails[n + 1].id \notin failing => item \in Shown /\ Shows(item, mails[n + 1], bodyLimit)
    PROVE  ManySoFar([remaining |-> remaining, items |-> Append(read.items, item)],
                     mails, n + 1, bodyLimit, budget, failing)
<1>1. read.items \in Seq(Entries) /\ read.remaining \in Nat /\ Len(read.items) = n
  BY DEF ManySoFar
<1>2. PICK items : items = Append(read.items, item)
  OBVIOUS
<1>3. /\ items \in Seq(Entries) /\ Len(items) = n + 1 /\ items[n + 1] = item
      /\ \A i \in 1 .. n : items[i] = read.items[i]
  BY <1>1, <1>2, AppendProperties
<1>4. BodySum(read.items) \in Nat /\ BodySum(items) = BodySum(read.items) + BodyOf(item)
  BY <1>1, <1>2, EntriesHaveBodies, BodySumOfAppend
<1>5. BodyOf(item) \in Nat
  BY EntriesHaveBodies DEF Entries, Shown
<1>6. PICK next : next = [remaining |-> remaining, items |-> items]
  OBVIOUS
<1>7. next \in [remaining : Nat, items : Seq(Entries)] /\ next.remaining = remaining /\ next.items = items
  BY <1>3, <1>6
<1>8. next.remaining + BodySum(next.items) = budget
  <2>1. read.remaining + BodySum(read.items) = budget
    BY DEF ManySoFar
  <2> QED
    BY <1>1, <1>4, <1>5, <1>7, <2>1
<1>9. ASSUME NEW i \in 1 .. n + 1
      PROVE  /\ items[i].id = mails[i].id
             /\ mails[i].id \in failing => items[i] \in Unread
             /\ mails[i].id \notin failing => items[i] \in Shown /\ Shows(items[i], mails[i], bodyLimit)
  <2>1. CASE i = n + 1
    BY <1>3, <2>1
  <2>2. CASE i \in 1 .. n
    <3>1. items[i] = read.items[i]
      BY <1>3, <2>2
    <3> QED
      BY <2>2, <3>1 DEF ManySoFar
  <2> QED
    BY <2>1, <2>2
<1>10. ManySoFar(next, mails, n + 1, bodyLimit, budget, failing)
  BY <1>3, <1>7, <1>8, <1>9 DEF ManySoFar
<1> QED
  BY <1>2, <1>6, <1>10

ManyStep(mail, before, bodyLimit, failing) ==
    IF mail.id \in failing
    THEN [before EXCEPT !.items = Append(@, [id |-> mail.id, error |-> TRUE])]
    ELSE LET limit == Smaller(bodyLimit, IF before.remaining = 0 THEN 1 ELSE before.remaining)
             shown == IF before.remaining = 0 THEN [Read(mail, 0) EXCEPT !.cut = TRUE] ELSE Read(mail, limit)
         IN  [remaining |-> before.remaining - shown.body, items |-> Append(before.items, shown)]

\* Reading the next of several mails keeps what holds of those before it.
LEMMA ManyStays ==
    ASSUME NEW read, NEW mails, NEW n \in Nat, NEW bodyLimit \in Nat, NEW budget \in Nat, NEW failing,
           ManySoFar(read, mails, n, bodyLimit, budget, failing),
           CanBeRead(mails), n + 1 <= Len(mails)
    PROVE  ManySoFar(ManyStep(mails[n + 1], read, bodyLimit, failing), mails, n + 1, bodyLimit, budget, failing)
<1>1. PICK mail : mail = mails[n + 1] /\ mail.id \in Identifiers /\ mail.body \in Nat
  <2>1. n + 1 \in 1 .. Len(mails)
    BY DEF CanBeRead
  <2> QED
    BY <2>1 DEF CanBeRead
<1>2. read \in [remaining : Nat, items : Seq(Entries)]
  BY DEF ManySoFar
<1>3. \E item \in Entries, remaining \in Nat :
          /\ ManyStep(mail, read, bodyLimit, failing) = [remaining |-> remaining, items |-> Append(read.items, item)]
          /\ remaining + BodyOf(item) = read.remaining
          /\ item.id = mail.id
          /\ mail.id \in failing => item \in Unread
          /\ mail.id \notin failing => item \in Shown /\ Shows(item, mail, bodyLimit)
  <2>1. CASE mail.id \in failing
    <3>1. PICK item : item = [id |-> mail.id, error |-> TRUE]
      OBVIOUS
    <3>2. item \in Unread /\ item \in Entries /\ item.id = mail.id
      BY <1>1, <3>1 DEF Unread, Entries
    <3>3. BodyOf(item) = 0
      BY <3>2, EntriesHaveBodies
    <3>4. ManyStep(mail, read, bodyLimit, failing) = [read EXCEPT !.items = Append(@, item)]
      BY <2>1, <3>1 DEF ManyStep
    <3>5. [read EXCEPT !.items = Append(@, item)] = [remaining |-> read.remaining, items |-> Append(read.items, item)]
      <4>1. PICK items : items = Append(read.items, item)
        OBVIOUS
      <4>2. [read EXCEPT !.items = items] = [remaining |-> read.remaining, items |-> items]
        BY <1>2
      <4> QED
        BY <4>1, <4>2
    <3>6. PICK remaining \in Nat : remaining = read.remaining
      BY <1>2
    <3>7. /\ ManyStep(mail, read, bodyLimit, failing) = [remaining |-> remaining, items |-> Append(read.items, item)]
          /\ remaining + BodyOf(item) = read.remaining
      BY <3>3, <3>4, <3>5, <3>6
    <3> QED
      BY <2>1, <3>2, <3>7
  <2>2. CASE mail.id \notin failing /\ read.remaining = 0
    <3>1. PICK shown \in Shown : /\ shown = Read(mail, 0) /\ shown.id = mail.id /\ shown.body <= 0
      BY <1>1, ReadShows
    <3>2. PICK item : item = [shown EXCEPT !.cut = TRUE]
      OBVIOUS
    <3>3. item \in Shown /\ item.id = mail.id /\ item.body = 0 /\ item.cut = TRUE
      <4>1. /\ item \in Shown /\ item.id = shown.id /\ item.body = shown.body /\ item.cut = TRUE
            /\ shown.body \in Nat
        BY <3>2 DEF Shown
      <4>2. shown.body = 0
        BY <3>1, <4>1
      <4> QED
        BY <3>1, <4>1, <4>2
    <3>4. item \in Entries /\ BodyOf(item) = 0
      BY <3>3, EntriesHaveBodies DEF Entries
    <3>5. Shows(item, mail, bodyLimit)
      BY <3>3 DEF Shows
    <3>6. ManyStep(mail, read, bodyLimit, failing) = [remaining |-> read.remaining - item.body, items |-> Append(read.items, item)]
      BY <2>2, <3>1, <3>2 DEF ManyStep
    <3>7. read.remaining - item.body = read.remaining
      BY <1>2, <3>3
    <3>8. ManyStep(mail, read, bodyLimit, failing) = [remaining |-> read.remaining, items |-> Append(read.items, item)]
      BY <3>6, <3>7
    <3>9. PICK remaining \in Nat : remaining = read.remaining
      BY <1>2
    <3>10. /\ ManyStep(mail, read, bodyLimit, failing) = [remaining |-> remaining, items |-> Append(read.items, item)]
           /\ remaining + BodyOf(item) = read.remaining
      BY <3>4, <3>8, <3>9
    <3> QED
      BY <2>2, <3>3, <3>4, <3>5, <3>10
  <2>3. CASE mail.id \notin failing /\ read.remaining # 0
    <3>1. PICK limit \in Nat : /\ limit = Smaller(bodyLimit, IF read.remaining = 0 THEN 1 ELSE read.remaining)
                               /\ limit <= bodyLimit /\ limit <= read.remaining
      BY <1>2, <2>3 DEF Smaller
    <3>2. PICK item \in Shown : /\ item = Read(mail, limit) /\ item.id = mail.id /\ item.body <= limit
                                /\ (item.cut \/ item.body = mail.body)
      BY <1>1, ReadShows
    <3>3. item.body \in Nat /\ item \in Entries /\ BodyOf(item) = item.body
      BY <3>2, EntriesHaveBodies DEF Entries, Shown
    <3>4. Shows(item, mail, bodyLimit)
      BY <3>1, <3>2, <3>3 DEF Shows
    <3>5. PICK remaining \in Nat : remaining = read.remaining - item.body
      BY <1>2, <3>1, <3>2, <3>3
    <3>6. ManyStep(mail, read, bodyLimit, failing) = [remaining |-> remaining, items |-> Append(read.items, item)]
      BY <2>3, <3>1, <3>2, <3>5 DEF ManyStep
    <3>7. remaining + BodyOf(item) = read.remaining
      BY <1>2, <3>3, <3>5
    <3> QED
      BY <2>3, <3>2, <3>3, <3>4, <3>6, <3>7
  <2> QED
    BY <2>1, <2>2, <2>3
<1>4. PICK item \in Entries, remaining \in Nat :
          /\ ManyStep(mail, read, bodyLimit, failing) = [remaining |-> remaining, items |-> Append(read.items, item)]
          /\ remaining + BodyOf(item) = read.remaining
          /\ item.id = mail.id
          /\ mail.id \in failing => item \in Unread
          /\ mail.id \notin failing => item \in Shown /\ Shows(item, mail, bodyLimit)
  BY <1>3
<1>5. /\ item.id = mails[n + 1].id
      /\ mails[n + 1].id \in failing => item \in Unread
      /\ mails[n + 1].id \notin failing => item \in Shown /\ Shows(item, mails[n + 1], bodyLimit)
  BY <1>1, <1>4
<1>6. ManySoFar([remaining |-> remaining, items |-> Append(read.items, item)], mails, n + 1, bodyLimit, budget, failing)
  BY <1>4, <1>5, ManyAdds
<1> QED
  BY <1>1, <1>4, <1>6

\* The recursion of GetMany denotes a function, and ends with an entry for each mail.
LEMMA ManyUnrolled ==
    ASSUME NEW mails, NEW bodyLimit \in Nat, NEW budget \in Nat, NEW failing, CanBeRead(mails)
    PROVE  \E last : /\ ManySoFar(last, mails, Len(mails), bodyLimit, budget, failing)
                     /\ GetMany(mails, bodyLimit, budget, failing) = [is |-> "many", items |-> last.items]
<1>1. PICK N \in Nat : N = Len(mails)
  BY DEF CanBeRead
<1>2. PICK start : start = [remaining |-> budget, items |-> <<>>]
  OBVIOUS
<1>3. ManySoFar(start, mails, 0, bodyLimit, budget, failing)
  <2>1. start \in [remaining : Nat, items : Seq(Entries)] /\ start.remaining = budget /\ start.items = <<>>
    <3>1. <<>> \in Seq(Entries)
      OBVIOUS
    <3> QED
      BY <1>2, <3>1
  <2>2. Len(<<>>) = 0 /\ BodySum(<<>>) = 0
    BY BodySumOfNone, EmptySeq
  <2>3. Len(start.items) = 0 /\ start.remaining + BodySum(start.items) = budget
    BY <2>1, <2>2
  <2>4. \A i \in 1 .. 0 : FALSE
    OBVIOUS
  <2> QED
    BY ONLY <2>1, <2>3, <2>4 DEF ManySoFar
<1> DEFINE D == [remaining : Nat, items : Seq(Entries)]
           S == [n \in 0 .. N |-> {read \in D : ManySoFar(read, mails, n, bodyLimit, budget, failing)}]
           step == [c \in (1 .. N) \X D |-> ManyStep(mails[c[1]], c[2], bodyLimit, failing)]
           equation(f) == f = [n \in 0 .. N |->
                                  IF n = 0 THEN start ELSE ManyStep(mails[n], f[n - 1], bodyLimit, failing)]
<1>4. \A n \in 0 .. N : S[n] \subseteq D /\
                        \A read : read \in S[n] <=> ManySoFar(read, mails, n, bodyLimit, budget, failing)
  BY DEF ManySoFar
<1>5. \A n \in 1 .. N : \A x \in D : step[<<n, x>>] = ManyStep(mails[n], x, bodyLimit, failing)
  OBVIOUS
<1> HIDE DEF S, step, D
<1>6. ASSUME NEW n \in 1 .. N, NEW x \in S[n - 1]
      PROVE  /\ step[<<n, x>>] = ManyStep(mails[n], x, bodyLimit, failing)
             /\ ManyStep(mails[n], x, bodyLimit, failing) \in S[n]
  <2>1. PICK m \in Nat : m = n - 1 /\ n = m + 1
    OBVIOUS
  <2>2. m \in 0 .. N /\ n \in 0 .. N /\ m + 1 <= Len(mails)
    BY <1>1, <2>1
  <2>3. x \in D /\ ManySoFar(x, mails, m, bodyLimit, budget, failing)
    BY <1>4, <2>1, <2>2
  <2>4. ManySoFar(ManyStep(mails[m + 1], x, bodyLimit, failing), mails, m + 1, bodyLimit, budget, failing)
    BY <2>2, <2>3, ManyStays
  <2> QED
    BY <1>4, <1>5, <2>1, <2>2, <2>3, <2>4
<1>7. start \in S[0] /\ StepsWithin(N, D, S, start, step)
  <2>1. start \in S[0]
    BY <1>3, <1>4, 0 \in 0 .. N
  <2> QED
    BY <1>4, <1>6, <2>1 DEF StepsWithin
<1>8. PICK f \in [0 .. N -> D] :
          /\ f[0] = start
          /\ \A n \in 1 .. N : f[n] = step[<<n, f[n - 1]>>]
          /\ \A n \in 0 .. N : f[n] \in S[n]
  <2>1. N \in Nat
    OBVIOUS
  <2> QED
    BY ONLY <1>7, <2>1, StepsDefine
<1>9. ASSUME NEW n \in 0 .. N
      PROVE  f[n] = IF n = 0 THEN start ELSE ManyStep(mails[n], f[n - 1], bodyLimit, failing)
  <2>1. CASE n = 0
    BY <1>8, <2>1
  <2>2. CASE n \in 1 .. N
    <3>1. n - 1 \in 0 .. N
      BY <2>2
    <3> QED
      BY <1>6, <1>8, <2>2, <3>1
  <2> QED
    BY <2>1, <2>2
<1>10. equation(f)
  BY <1>8, <1>9
<1>11. PICK read : read = CHOOSE g : equation(g)
  OBVIOUS
<1>12. equation(read)
  BY <1>10, <1>11
<1>13. \A n \in 0 .. N : read[n] = IF n = 0 THEN start ELSE ManyStep(mails[n], read[n - 1], bodyLimit, failing)
  BY <1>12
<1>14. \A n \in 0 .. N : read[n] \in S[n]
  <2>1. read[0] \in S[0]
    BY <1>7, <1>13, 0 \in 0 .. N
  <2>2. ASSUME NEW n \in 1 .. N, read[n - 1] \in S[n - 1] PROVE read[n] \in S[n]
    <3>1. read[n] = ManyStep(mails[n], read[n - 1], bodyLimit, failing)
      BY <1>13
    <3> QED
      BY <1>6, <2>2, <3>1
  <2> QED
    BY <2>1, <2>2, StepsStay
<1>15. ManySoFar(read[N], mails, N, bodyLimit, budget, failing)
  BY <1>4, <1>14, N \in 0 .. N
<1>16. GetMany(mails, bodyLimit, budget, failing) = [is |-> "many", items |-> read[N].items]
  BY <1>1, <1>2, <1>11 DEF GetMany, ManyStep
<1> QED
  BY <1>1, <1>15, <1>16

(* Honesty *)

\* The mails of a conversation that an item stands for.
MailsAmong(mails, item) == {mails[n] : n \in {k \in DOMAIN mails : mails[k].id = item.id}}

BodiesAreRight(mails, reading, items) ==
    /\ BodySum(items) <= reading.budget
    /\ \A n \in DOMAIN items :
        "body" \in DOMAIN items[n] =>
            /\ items[n].body <= reading.body
            /\ items[n].cut \/ \A mail \in MailsAmong(mails, items[n]) : items[n].body = mail.body

ThreadIsRight(mails, reading, thread) ==
    thread # Unreadable =>
        /\ BodiesAreRight(mails, reading, thread.items)
        /\ \A n \in DOMAIN thread.items :
            thread.items[n].id \notin reading.strangers /\ MailsAmong(mails, thread.items[n]) # {}
        /\ \A m, n \in DOMAIN thread.items :
            m < n => \A a \in MailsAmong(mails, thread.items[m]), b \in MailsAmong(mails, thread.items[n]) :
                        a # b /\ ~Earlier(b, a)
        /\ thread.truncated \/ Len(thread.items) = Len(mails)

ManyIsRight(mails, reading, many) ==
    /\ BodiesAreRight(mails, reading, many.items)
    /\ Len(many.items) = Len(mails)
    /\ \A n \in DOMAIN many.items :
        /\ many.items[n].id = mails[n].id
        /\ "error" \in DOMAIN many.items[n] <=> many.items[n].id \in reading.failing

\* Hits, and what is known of them.
LEMMA HitsAreMails ==
    ASSUME NEW hits \in Results \union Conversations
    PROVE  /\ hits \in Seq(FoundMails) /\ Len(hits) \in Nat /\ DOMAIN hits = 1 .. Len(hits)
           /\ \A n \in 1 .. Len(hits) : hits[n] \in FoundMails
           /\ \A m, n \in 1 .. Len(hits) : hits[m].id = hits[n].id => m = n
<1>1. hits \in Seq(FoundMails) /\ \A m, n \in DOMAIN hits : hits[m].id = hits[n].id => m = n
  BY ResultsAreMails
<1>2. Len(hits) \in Nat /\ DOMAIN hits = 1 .. Len(hits)
  BY <1>1, LenProperties
<1>3. \A n \in 1 .. Len(hits) : hits[n] \in FoundMails
  BY <1>1, <1>2
<1> QED
  BY <1>1, <1>2, <1>3

\* An item stands for one mail.
LEMMA OneMailEach ==
    ASSUME NEW hits \in Results \union Conversations, NEW place \in 1 .. Len(hits), NEW item, item.id = hits[place].id
    PROVE  MailsAmong(hits, item) = {hits[place]}
<1>1. {k \in DOMAIN hits : hits[k].id = item.id} = {place}
  BY HitsAreMails
<1> QED
  BY <1>1 DEF MailsAmong

\* Several mails are answered within their limits, each with its own entry.
LEMMA ManyIsHonest ==
    ASSUME NEW hits \in Results \union Conversations, NEW reading \in Readings
    PROVE  ManyIsRight(hits, reading, GetMany(hits, reading.body, reading.budget, reading.failing))
<1>1. PICK N \in Nat : N = Len(hits) /\ \A n \in 1 .. N : hits[n] \in FoundMails
  BY HitsAreMails
<1>2. CanBeRead(hits)
  <2>1. \A mail \in FoundMails : mail.id \in Identifiers /\ mail.body \in Nat /\ mail.belongs \in BOOLEAN
    BY MailsAreMails DEF Identifiers
  <2> QED
    BY <1>1, <2>1 DEF CanBeRead
<1>3. PICK bodyLimit, budget, failing :
          /\ bodyLimit = reading.body /\ budget = reading.budget /\ failing = reading.failing
          /\ bodyLimit \in Nat /\ budget \in Nat
  BY ReadingsAreLimited
<1>4. PICK last : /\ ManySoFar(last, hits, Len(hits), bodyLimit, budget, failing)
                  /\ GetMany(hits, bodyLimit, budget, failing) = [is |-> "many", items |-> last.items]
  <2>1. bodyLimit \in Nat /\ budget \in Nat
    BY <1>3
  <2> QED
    BY <1>2, <2>1, ManyUnrolled
<1>5. PICK items : items = last.items
  OBVIOUS
<1>6. /\ items \in Seq(Entries) /\ last.remaining \in Nat /\ last.remaining + BodySum(items) = budget /\ Len(items) = N
      /\ \A i \in 1 .. N :
             /\ items[i].id = hits[i].id
             /\ hits[i].id \in failing => items[i] \in Unread
             /\ hits[i].id \notin failing => items[i] \in Shown /\ Shows(items[i], hits[i], bodyLimit)
  BY <1>1, <1>4, <1>5 DEF ManySoFar
<1>7. DOMAIN items = 1 .. N
  BY <1>6, LenProperties
<1>8. BodySum(items) <= budget
  <2>1. SummedBySteps(items)
    BY <1>6, EntriesHaveBodies, BodySumUnrolled
  <2>2. BodySum(items) \in Nat
    BY <1>6, <2>1, N \in 0 .. N DEF SummedBySteps
  <2> QED
    BY <1>3, <1>6, <2>2
<1>9. ASSUME NEW n \in 1 .. N
      PROVE  /\ "body" \in DOMAIN items[n] =>
                    /\ items[n].body <= bodyLimit
                    /\ items[n].cut \/ \A mail \in MailsAmong(hits, items[n]) : items[n].body = mail.body
             /\ "error" \in DOMAIN items[n] <=> items[n].id \in failing
  <2>1. MailsAmong(hits, items[n]) = {hits[n]}
    BY <1>1, <1>6, OneMailEach
  <2>2. CASE hits[n].id \in failing
    BY <1>6, <2>2, EntriesHaveBodies
  <2>3. CASE hits[n].id \notin failing
    <3>1. "error" \notin DOMAIN items[n]
      BY <1>6, <2>3, EntriesHaveBodies
    <3>2. Shows(items[n], hits[n], bodyLimit) /\ items[n].id = hits[n].id
      BY <1>6, <2>3
    <3> QED
      BY <2>1, <2>3, <3>1, <3>2 DEF Shows
  <2> QED
    BY <2>2, <2>3
<1>10. PICK many : many = GetMany(hits, bodyLimit, budget, failing) /\ many.items = items
  BY <1>4, <1>5
<1>11. BodiesAreRight(hits, reading, items)
  BY <1>3, <1>7, <1>8, <1>9 DEF BodiesAreRight
<1>12. ManyIsRight(hits, reading, many)
  BY <1>1, <1>3, <1>6, <1>7, <1>9, <1>10, <1>11 DEF ManyIsRight
<1> QED
  BY <1>3, <1>10, <1>12

\* Strangers differ source hits in where they belong only.
AreStrangers(strange, seen, strangers) ==
    /\ strange \in Seq({strange[n] : n \in 1 .. Len(seen)}) /\ Len(strange) = Len(seen)
    /\ \A n \in 1 .. Len(seen) :
           /\ strange[n].id = seen[n].id /\ strange[n].at = seen[n].at
           /\ strange[n].index = seen[n].index /\ strange[n].body = seen[n].body
           /\ strange[n].belongs \in BOOLEAN
           /\ strange[n].belongs <=> seen[n].id \notin strangers

\* What WithStrangers makes of hits.
LEMMA StrangersAreHits ==
    ASSUME NEW seen \in Seq(FoundMails), NEW strangers
    PROVE  AreStrangers(WithStrangers(seen, strangers), seen, strangers)
<1>1. PICK N \in Nat : N = Len(seen) /\ DOMAIN seen = 1 .. N /\ \A n \in 1 .. N : seen[n] \in FoundMails
  BY LenProperties
<1>2. PICK strange : strange = WithStrangers(seen, strangers)
  OBVIOUS
<1>3. strange = [n \in 1 .. N |-> [seen[n] EXCEPT !.belongs = seen[n].id \notin strangers]]
  BY <1>1, <1>2 DEF WithStrangers
<1>4. strange \in [1 .. N -> {strange[n] : n \in 1 .. N}] /\ DOMAIN strange = 1 .. N
  BY <1>3
<1>5. strange \in Seq({strange[n] : n \in 1 .. N}) /\ Len(strange) = N
  BY <1>4
<1>6. ASSUME NEW n \in 1 .. N
      PROVE  /\ strange[n].id = seen[n].id /\ strange[n].at = seen[n].at
             /\ strange[n].index = seen[n].index /\ strange[n].body = seen[n].body
             /\ strange[n].belongs \in BOOLEAN
             /\ strange[n].belongs <=> seen[n].id \notin strangers
  <2>1. PICK mail \in FoundMails : mail = seen[n]
    BY <1>1
  <2>2. PICK belongs \in BOOLEAN : belongs <=> mail.id \notin strangers
    OBVIOUS
  <2>3. strange[n] = [mail EXCEPT !.belongs = belongs]
    <3>1. belongs = (mail.id \notin strangers)
      BY <2>2
    <3> QED
      BY <1>3, <2>1, <3>1
  <2>4. {"id", "at", "index", "body", "belongs"} \subseteq DOMAIN mail
    BY MailsAreMails
  <2>5. strange[n] = [field \in DOMAIN mail |-> IF field = "belongs" THEN belongs ELSE mail[field]]
    BY <2>3
  <2>6. /\ strange[n].id = mail.id /\ strange[n].at = mail.at /\ strange[n].index = mail.index
        /\ strange[n].body = mail.body /\ strange[n].belongs = belongs
    BY <2>4, <2>5
  <2> QED
    BY <2>1, <2>2, <2>6
<1>7. AreStrangers(strange, seen, strangers)
  BY <1>1, <1>5, <1>6 DEF AreStrangers
<1> QED
  BY <1>2, <1>7

\* What mail_get_thread makes of the hits of a search is right.
LEMMA ThreadIsHonest ==
    ASSUME NEW hits \in Conversations, NEW fair, NEW search, NEW k, SearchIs(search, hits, <<>>, fair, k),
           NEW reading \in Readings,
           NEW fetched, fetched = [search EXCEPT !.items = WithStrangers(@, reading.strangers)]
    PROVE  ThreadIsRight(hits, reading, Thread(fetched, reading.results, reading.body, reading.budget, reading.failing))
<1>1. /\ hits \in Seq(FoundMails) /\ DOMAIN hits = 1 .. Len(hits) /\ Len(hits) \in Nat
      /\ \A n \in 1 .. Len(hits) : hits[n] \in FoundMails
      /\ \A m, n \in 1 .. Len(hits) : hits[m].id = hits[n].id => m = n
  BY HitsAreMails
<1>2. search \in Searches /\ k \in 0 .. Len(hits) /\ (search.complete => k = Len(hits)) /\ k \in Nat
  BY <1>1 DEF SearchIs
<1>3. PICK seen \in Seq(FoundMails) :
          /\ seen = SubSeq(hits, 1, k) /\ Len(seen) = k /\ \A n \in 1 .. k : seen[n] = hits[n]
  <2>1. /\ SubSeq(hits, 1, k) \in Seq(FoundMails) /\ Len(SubSeq(hits, 1, k)) = k
        /\ \A n \in 1 .. k : SubSeq(hits, 1, k)[n] = hits[n]
    BY <1>1, <1>2, SeenSoFar
  <2> QED
    BY <2>1
<1>4. search.items = seen
  BY <1>3, WhichWithoutFilters DEF SearchIs
<1>5. PICK strange : strange = WithStrangers(seen, reading.strangers)
  OBVIOUS
<1>6. PICK T : T = {strange[n] : n \in 1 .. k}
  OBVIOUS
<1>7. /\ strange \in Seq(T) /\ Len(strange) = k
      /\ \A n \in 1 .. k :
             /\ strange[n].id = hits[n].id /\ strange[n].at = hits[n].at /\ strange[n].index = hits[n].index
             /\ strange[n].body = hits[n].body /\ strange[n].belongs \in BOOLEAN
             /\ strange[n].belongs <=> hits[n].id \notin reading.strangers
  <2>1. seen \in Seq(FoundMails) /\ Len(seen) = k /\ \A n \in 1 .. k : seen[n] = hits[n]
    BY <1>3
  <2>2. /\ strange \in Seq({strange[n] : n \in 1 .. Len(seen)}) /\ Len(strange) = Len(seen)
        /\ \A n \in 1 .. Len(seen) :
               /\ strange[n].id = seen[n].id /\ strange[n].at = seen[n].at
               /\ strange[n].index = seen[n].index /\ strange[n].body = seen[n].body
               /\ strange[n].belongs \in BOOLEAN
               /\ strange[n].belongs <=> seen[n].id \notin reading.strangers
    <3>1. AreStrangers(WithStrangers(seen, reading.strangers), seen, reading.strangers)
      BY StrangersAreHits
    <3> QED
      BY <1>5, <3>1 DEF AreStrangers
  <2> QED
    BY <1>6, <2>1, <2>2
<1>8. fetched.items = strange /\ fetched.complete = search.complete /\ fetched.unknown = search.unknown
  BY <1>2, <1>4, <1>5 DEF Searches
<1>9. \A n \in 1 .. k :
          /\ n \in 1 .. Len(hits) /\ hits[n] \in FoundMails
          /\ hits[n].at \in (Nat \ {0}) \union {Missing} /\ hits[n].index \in Int
          /\ hits[n].body \in Nat /\ hits[n].id \in Identifiers
  <2>1. \A n \in 1 .. k : n \in 1 .. Len(hits)
    BY <1>1, <1>2
  <2> QED
    BY <1>1, <2>1, MailsAreMails DEF Identifiers
<1>10. AreTimed(strange)
  BY <1>7, <1>9 DEF AreTimed
<1>11. PICK found : found = InOrder(strange) /\ found \in Seq(T) /\ Len(found) = k
                    /\ \E source : IsSorted(strange, found, source)
  BY <1>7, <1>10, InOrderSorts
<1>12. PICK source \in [1 .. k -> 1 .. k] :
          /\ \A p \in 1 .. k : found[p] = strange[source[p]]
          /\ \A p, q \in 1 .. k : p < q => source[p] # source[q] /\ ~Earlier(strange[source[q]], strange[source[p]])
  BY <1>7, <1>11 DEF IsSorted
<1>13. \A p \in 1 .. k : source[p] \in 1 .. k /\ found[p] = strange[source[p]]
  BY <1>12
<1>14. CanBeRead(found)
  <2>1. ASSUME NEW p \in 1 .. k
        PROVE  found[p].id \in Identifiers /\ found[p].body \in Nat /\ found[p].belongs \in BOOLEAN
    <3>1. PICK n \in 1 .. k : found[p] = strange[n]
      BY <1>13
    <3> QED
      BY <1>7, <1>9, <3>1
  <2>2. Len(found) = k
    BY <1>11
  <2> QED
    BY <1>2, <2>1, <2>2 DEF CanBeRead
<1>15. PICK results, bodyLimit, budget, failing :
          /\ results = reading.results /\ bodyLimit = reading.body /\ budget = reading.budget
          /\ failing = reading.failing
          /\ results \in Nat /\ bodyLimit \in Nat /\ budget \in Nat
  BY ReadingsAreLimited
<1>16. PICK thread : thread = Thread(fetched, results, bodyLimit, budget, failing)
  OBVIOUS
<1>17. PICK N \in Nat : N = Smaller(k, results) /\ N <= k /\ (k <= results => N = k)
  BY <1>2, <1>15 DEF Smaller
<1>18. PICK last : /\ ThreadSoFar(last, found, N, bodyLimit, budget)
                   /\ ThreadEnds(thread, last, found, N, fetched, results)
  <2>1. results \in Nat /\ bodyLimit \in Nat /\ budget \in Nat /\ CanBeRead(InOrder(fetched.items))
    BY <1>8, <1>11, <1>14, <1>15
  <2>2. \E last :
               /\ ThreadSoFar(last, InOrder(fetched.items), Smaller(Len(InOrder(fetched.items)), results), bodyLimit, budget)
               /\ ThreadEnds(Thread(fetched, results, bodyLimit, budget, failing), last,
                             InOrder(fetched.items), Smaller(Len(InOrder(fetched.items)), results), fetched, results)
    BY ONLY <2>1, ThreadUnrolled
  <2> QED
    BY <1>8, <1>11, <1>16, <1>17, <2>2
<1>34. SUFFICES ThreadIsRight(hits, reading, thread)
  BY <1>15, <1>16
<1>19. SUFFICES ASSUME thread # Unreadable PROVE ThreadIsRight(hits, reading, thread)
  BY DEF ThreadIsRight
<1>20. PICK items : items = last.items
  OBVIOUS
<1>21. /\ ~last.foreign /\ thread.items = items
       /\ thread.truncated \/ ~(MayMiss(fetched) \/ Len(found) > results \/ Len(items) < N)
  BY <1>18, <1>19, <1>20 DEF ThreadEnds
<1>22. PICK places :
          /\ places \in [1 .. Len(items) -> 1 .. N]
          /\ \A i, j \in 1 .. Len(items) : i < j => places[i] < places[j]
          /\ \A i \in 1 .. Len(items) :
                 /\ Shows(items[i], found[places[i]], bodyLimit)
                 /\ found[places[i]].belongs \/ last.foreign
  BY <1>18, <1>20 DEF ThreadSoFar
<1>23. /\ items \in Seq(Shown) /\ last.remaining \in Nat /\ last.remaining + BodySum(items) = budget
       /\ Len(items) <= N
  BY <1>18, <1>20 DEF ThreadSoFar, ThreadState
<1>24. DOMAIN items = 1 .. Len(items) /\ Len(items) \in Nat
  BY <1>23, LenProperties
<1>25. BodySum(items) <= budget
  <2>1. SummedBySteps(items)
    BY <1>23, ShownHaveBodies, BodySumUnrolled
  <2>2. BodySum(items) \in Nat
    BY <1>24, <2>1, Len(items) \in 0 .. Len(items) DEF SummedBySteps
  <2> QED
    BY <1>15, <1>23, <2>2
<1>26. PICK origin : origin = [i \in 1 .. Len(items) |-> source[places[i]]]
  OBVIOUS
<1>27. ASSUME NEW i \in 1 .. Len(items)
       PROVE  /\ places[i] \in 1 .. k /\ origin[i] \in 1 .. k /\ origin[i] \in 1 .. Len(hits)
              /\ origin[i] = source[places[i]]
              /\ Shows(items[i], strange[origin[i]], bodyLimit) /\ strange[origin[i]].belongs
              /\ items[i].id = hits[origin[i]].id
  <2>1. places[i] \in 1 .. k
    <3>1. places[i] \in 1 .. N
      BY <1>22
    <3> QED
      BY <1>2, <1>17, <3>1
  <2>2. origin[i] = source[places[i]] /\ origin[i] \in 1 .. k /\ found[places[i]] = strange[origin[i]]
    BY <1>13, <1>26, <2>1
  <2>3. Shows(items[i], strange[origin[i]], bodyLimit) /\ strange[origin[i]].belongs
    BY <1>21, <1>22, <2>2
  <2>4. items[i].id = hits[origin[i]].id
    BY <1>7, <2>2, <2>3 DEF Shows
  <2>5. origin[i] \in 1 .. Len(hits)
    BY <1>9, <2>2
  <2> QED
    BY <2>1, <2>2, <2>3, <2>4, <2>5
<1>28. \A i \in 1 .. Len(items) : MailsAmong(hits, items[i]) = {hits[origin[i]]}
  <2>1. SUFFICES ASSUME NEW i \in 1 .. Len(items) PROVE MailsAmong(hits, items[i]) = {hits[origin[i]]}
    OBVIOUS
  <2>2. origin[i] \in 1 .. Len(hits) /\ items[i].id = hits[origin[i]].id
    BY <1>27
  <2>3. hits \in Results \union Conversations
    OBVIOUS
  <2> QED
    BY <2>2, <2>3, OneMailEach
<1>29. ASSUME NEW i \in 1 .. Len(items)
       PROVE  items[i].body <= bodyLimit /\ (items[i].cut \/ items[i].body = hits[origin[i]].body)
  BY <1>7, <1>27 DEF Shows
<1>30. BodiesAreRight(hits, reading, items)
  BY <1>15, <1>24, <1>25, <1>28, <1>29 DEF BodiesAreRight
<1>31. ASSUME NEW i \in 1 .. Len(items)
       PROVE  items[i].id \notin reading.strangers /\ MailsAmong(hits, items[i]) # {}
  <2>1. hits[origin[i]].id \notin reading.strangers
    BY <1>7, <1>27
  <2> QED
    BY <1>27, <1>28, <2>1
<1>32. ASSUME NEW i \in 1 .. Len(items), NEW j \in 1 .. Len(items), i < j
       PROVE  hits[origin[i]] # hits[origin[j]] /\ ~Earlier(hits[origin[j]], hits[origin[i]])
  <2>1. places[i] < places[j]
    BY <1>22, <1>32
  <2>2. origin[i] # origin[j] /\ ~Earlier(strange[origin[j]], strange[origin[i]])
    BY <1>12, <1>27, <2>1
  <2>3. hits[origin[i]].id # hits[origin[j]].id
    BY <1>1, <1>27, <2>2
  <2>4. /\ strange[origin[i]].at = hits[origin[i]].at /\ strange[origin[i]].index = hits[origin[i]].index
        /\ strange[origin[j]].at = hits[origin[j]].at /\ strange[origin[j]].index = hits[origin[j]].index
    BY <1>7, <1>27
  <2>5. ~Earlier(hits[origin[j]], hits[origin[i]])
    BY <2>2, <2>4 DEF Earlier
  <2> QED
    BY <2>3, <2>5
<1>33. thread.truncated \/ Len(items) = Len(hits)
  <2>1. SUFFICES ASSUME ~MayMiss(fetched), ~(Len(found) > results), ~(Len(items) < N)
                 PROVE  Len(items) = Len(hits)
    BY <1>21
  <2>2. k = Len(hits)
    BY <1>2, <1>8, <2>1 DEF MayMiss
  <2>3. k <= results
    BY <1>2, <1>11, <1>15, <2>1
  <2> QED
    BY <1>17, <1>23, <1>24, <2>1, <2>2, <2>3
<1> QED
  BY <1>21, <1>24, <1>28, <1>30, <1>31, <1>32, <1>33 DEF ThreadIsRight

\* The inductive invariant: a search is what SearchIs says of some part of its
\* hits, or has failed; what was read is right.
SearchIsUnderWay ==
    question.is = "mail search" =>
        /\ question \in [is : {"mail search"}, hits : Results \union Conversations,
                         filters : Filters \union {<<>>}, fair : BOOLEAN]
        /\ \/ answer = Nothing
           \/ answer.is = "failed"
           \/ \E k \in 0 .. Len(question.hits) :
                  SearchIs(answer, question.hits, question.filters, question.fair, k)

ReadingIsRight ==
    /\ question.is = "thread" => ThreadIsRight(question.mails, question.reading, answer)
    /\ question.is = "many" => ManyIsRight(question.mails, question.reading, answer)

MailInv == SearchIsUnderWay /\ ReadingIsRight

\* It holds at first.
LEMMA MailInvInit == MailInit => MailInv
<1>1. SUFFICES ASSUME MailInit PROVE MailInv
  OBVIOUS
<1>2. answer = Nothing /\ question \in MailQuestions
  BY <1>1 DEF MailInit
<1>3. question \in [is : {"mail search"}, hits : Results \union Conversations,
                    filters : Filters \union {<<>>}, fair : BOOLEAN]
  BY <1>2 DEF MailQuestions
<1>4. question.is = "mail search"
  BY <1>3
<1> QED
  BY <1>2, <1>3, <1>4 DEF MailInv, SearchIsUnderWay, ReadingIsRight

\* Another page keeps it.
LEMMA MailInvPage == MailInv /\ AskPage => MailInv'
<1>1. SUFFICES ASSUME MailInv, AskPage PROVE MailInv'
  OBVIOUS
<1>2. PICK search : search = (IF answer = Nothing THEN NoCandidates ELSE answer)
  OBVIOUS
<1>3. PICK page \in Pages(question.hits, search.start) :
          /\ question' = [question EXCEPT !.fair = @ /\ IsFair(page, question.hits, search.start)]
          /\ answer' = NextPage(search, page, question.filters)
  BY <1>1, <1>2 DEF AskPage
<1>4. PICK hits, filters, fair :
          /\ hits = question.hits /\ filters = question.filters /\ fair = question.fair
          /\ hits \in Results \union Conversations
  BY <1>1 DEF MailInv, SearchIsUnderWay, AskPage
<1>5. /\ question.is = "mail search" /\ fair \in BOOLEAN
      /\ question \in [is : {"mail search"}, hits : Results \union Conversations,
                       filters : Filters \union {<<>>}, fair : BOOLEAN]
  BY <1>1, <1>4 DEF MailInv, SearchIsUnderWay, AskPage
<1>6. PICK nextFair \in BOOLEAN : nextFair <=> fair /\ IsFair(page, hits, search.start)
  OBVIOUS
<1>7. question' = [question EXCEPT !.fair = nextFair]
  <2>1. nextFair = (question.fair /\ IsFair(page, question.hits, search.start))
    BY <1>4, <1>6
  <2> QED
    BY <1>3, <2>1
<1>8. /\ question' \in [is : {"mail search"}, hits : Results \union Conversations,
                        filters : Filters \union {<<>>}, fair : BOOLEAN]
      /\ question'.is = "mail search" /\ question'.hits = hits /\ question'.filters = filters
      /\ question'.fair = nextFair
  BY <1>4, <1>5, <1>7
<1>9. hits \in Seq(FoundMails)
  BY <1>4, HitsAreMails
<1>10. PICK k \in 0 .. Len(hits) : SearchIs(search, hits, filters, fair, k) /\ search.is = "going"
  <2>1. CASE answer = Nothing
    <3>1. SearchIs(NoCandidates, hits, filters, fair, 0)
      BY <1>9, SearchBegins
    <3>2. NoCandidates.is = "going"
      BY DEF NoCandidates
    <3>3. 0 \in 0 .. Len(hits)
      BY <1>9, LenProperties
    <3> QED
      BY <1>2, <2>1, <3>1, <3>2, <3>3
  <2>2. CASE answer # Nothing
    <3>1. answer.is = "going" /\ search = answer
      BY <1>1, <1>2, <2>2 DEF AskPage
    <3>2. \E k \in 0 .. Len(question.hits) :
              SearchIs(answer, question.hits, question.filters, question.fair, k)
      BY <1>1, <1>5, <2>2, <3>1 DEF MailInv, SearchIsUnderWay
    <3> QED
      BY <1>4, <3>1, <3>2
  <2> QED
    BY <2>1, <2>2
<1>11. PICK next : next = NextPage(search, page, filters) /\ answer' = next
  BY <1>3, <1>4
<1>12. next.is = "failed" \/ \E m \in 0 .. Len(hits) : SearchIs(next, hits, filters, nextFair, m)
  <2>1. SUFFICES ASSUME next.is # "failed" PROVE \E m \in 0 .. Len(hits) : SearchIs(next, hits, filters, nextFair, m)
    OBVIOUS
  <2>2. page \in Pages(hits, search.start)
    BY <1>3, <1>4
  <2>3. \E m \in 0 .. Len(hits) : SearchIs(next, hits, filters, fair /\ IsFair(page, hits, search.start), m)
    BY <1>9, <1>10, <1>11, <2>1, <2>2, SearchContinues
  <2>4. nextFair = (fair /\ IsFair(page, hits, search.start))
    BY <1>6
  <2> QED
    BY <2>3, <2>4
<1>13. SearchIsUnderWay'
  BY <1>8, <1>11, <1>12 DEF SearchIsUnderWay
<1>14. ReadingIsRight'
  BY <1>8 DEF ReadingIsRight
<1> QED
  BY <1>13, <1>14 DEF MailInv

\* Reading a conversation keeps it.
LEMMA MailInvThread == MailInv /\ AskThread => MailInv'
<1>1. SUFFICES ASSUME MailInv, AskThread PROVE MailInv'
  OBVIOUS
<1>2. PICK reading \in Readings :
          /\ question' = [is |-> "thread", mails |-> question.hits, reading |-> reading]
          /\ answer' = Thread([answer EXCEPT !.items = WithStrangers(@, reading.strangers)],
                              reading.results, reading.body, reading.budget, reading.failing)
  BY <1>1 DEF AskThread
<1>3. PICK k \in 0 .. Len(question.hits) : SearchIs(answer, question.hits, question.filters, question.fair, k)
  BY <1>1 DEF MailInv, SearchIsUnderWay, AskThread
<1>4. PICK hits, fair : hits = question.hits /\ fair = question.fair /\ hits \in Conversations
  BY <1>1 DEF AskThread
<1>5. SearchIs(answer, hits, <<>>, fair, k)
  BY <1>1, <1>3, <1>4 DEF AskThread
<1>6. PICK fetched : fetched = [answer EXCEPT !.items = WithStrangers(@, reading.strangers)]
  OBVIOUS
<1>7. ThreadIsRight(hits, reading, Thread(fetched, reading.results, reading.body, reading.budget, reading.failing))
  <2>1. hits \in Conversations
    BY <1>4
  <2> QED
    BY <1>5, <1>6, <2>1, ThreadIsHonest
<1>8. question'.is = "thread" /\ question'.mails = hits /\ question'.reading = reading
  BY <1>2, <1>4
<1>9. ThreadIsRight(question'.mails, question'.reading, answer')
  BY <1>2, <1>6, <1>7, <1>8
<1> QED
  BY <1>8, <1>9 DEF MailInv, SearchIsUnderWay, ReadingIsRight

\* Reading several mails keeps it.
LEMMA MailInvMany == MailInv /\ AskMany => MailInv'
<1>1. SUFFICES ASSUME MailInv, AskMany PROVE MailInv'
  OBVIOUS
<1>2. PICK reading \in Readings :
          /\ question' = [is |-> "many", mails |-> question.hits, reading |-> reading]
          /\ answer' = GetMany(question.hits, reading.body, reading.budget, reading.failing)
  BY <1>1 DEF AskMany
<1>3. question.hits \in Results \union Conversations
  BY <1>1 DEF MailInv, SearchIsUnderWay, AskMany
<1>4. ManyIsRight(question.hits, reading, GetMany(question.hits, reading.body, reading.budget, reading.failing))
  BY <1>3, ManyIsHonest
<1>5. question'.is = "many" /\ question'.mails = question.hits /\ question'.reading = reading
  BY <1>2
<1>6. ManyIsRight(question'.mails, question'.reading, answer')
  BY <1>2, <1>4, <1>5
<1> QED
  BY <1>5, <1>6 DEF MailInv, SearchIsUnderWay, ReadingIsRight

\* What the invariant comes to.
LEMMA MailInvIsHonest == MailInv => SearchIsHonest
<1>1. SUFFICES ASSUME MailInv PROVE SearchIsHonest
  OBVIOUS
<1>2. SearchesAreHonest
  <2>0. PICK seen : seen = SubSeq(question.hits, 1, Cardinality(answer.seen))
    OBVIOUS
  <2>6. SUFFICES question.is = "mail search" /\ answer # Nothing /\ answer.is # "failed" =>
                     /\ answer.items = Which(seen, question.filters, "yes")
                     /\ answer.unknown = Len(Which(seen, question.filters, "unknown"))
                     /\ answer.complete => seen = question.hits
                     /\ answer.is = "done" /\ question.fair => answer.complete \/ answer.calls = MaxCalls
    BY <2>0 DEF SearchesAreHonest
  <2>1. SUFFICES ASSUME question.is = "mail search", answer # Nothing, answer.is # "failed"
                 PROVE  /\ answer.items = Which(seen, question.filters, "yes")
                        /\ answer.unknown = Len(Which(seen, question.filters, "unknown"))
                        /\ answer.complete => seen = question.hits
                        /\ answer.is = "done" /\ question.fair => answer.complete \/ answer.calls = MaxCalls
    OBVIOUS
  <2>2. PICK hits \in Results \union Conversations : hits = question.hits
    BY <1>1, <2>1 DEF MailInv, SearchIsUnderWay
  <2>7. PICK filters, fair : filters = question.filters /\ fair = question.fair
    OBVIOUS
  <2>8. PICK k \in 0 .. Len(hits) : SearchIs(answer, hits, filters, fair, k)
    BY <1>1, <2>1, <2>2, <2>7 DEF MailInv, SearchIsUnderWay
  <2>3. Cardinality(answer.seen) = k
    <3>1. k \in Nat /\ \A m, n \in 1 .. k : hits[m].id = hits[n].id => m = n
      BY HitsAreMails
    <3>2. answer.seen = {hits[n].id : n \in 1 .. k}
      BY <2>8 DEF SearchIs
    <3> QED
      BY <3>1, <3>2, SeenAreCounted
  <2>4. seen = SubSeq(hits, 1, k) /\ (k = Len(hits) => seen = hits)
    <3>1. seen = SubSeq(hits, 1, k)
      BY <2>0, <2>2, <2>3
    <3>2. hits \in Seq(FoundMails)
      BY HitsAreMails
    <3> QED
      BY <3>1, <3>2, SeenSoFar
  <2>5. /\ answer.items = Which(seen, filters, "yes")
        /\ answer.unknown = Len(Which(seen, filters, "unknown"))
        /\ answer.complete => seen = hits
        /\ answer.is = "done" /\ fair => answer.complete \/ answer.calls = MaxCalls
    BY <2>4, <2>8 DEF SearchIs
  <2> QED
    BY <2>2, <2>5, <2>7
<1>3. ReadingIsHonest
  <2>1. question.is = "thread" => ThreadIsRight(question.mails, question.reading, answer)
    BY <1>1 DEF MailInv, ReadingIsRight
  <2>2. question.is = "many" => ManyIsRight(question.mails, question.reading, answer)
    BY <1>1 DEF MailInv, ReadingIsRight
  <2>3. ASSUME NEW item PROVE MailsOf(item) = MailsAmong(question.mails, item)
    BY DEF MailsOf, MailsAmong
  <2>4. BodiesAreHonest <=> BodiesAreRight(question.mails, question.reading, answer.items)
    BY <2>3 DEF BodiesAreHonest, BodiesAreRight
  <2> QED
    BY <2>1, <2>2, <2>3, <2>4 DEF ReadingIsHonest, ThreadIsRight, ManyIsRight
<1> QED
  BY <1>2, <1>3 DEF SearchIsHonest

\* A search never loses or repeats a hit without saying so, and what a
\* conversation or several mails leave out is said to be left out, whatever
\* pages Exchange hands out.
THEOREM SearchesHold == MailSpec => []SearchIsHonest
<1>1. MailInit => MailInv
  BY MailInvInit
<1>2. MailInv /\ [AskMail]_<<question, answer>> => MailInv'
  <2>1. SUFFICES ASSUME MailInv, [AskMail]_<<question, answer>> PROVE MailInv'
    OBVIOUS
  <2>2. CASE AskPage
    BY <2>1, <2>2, MailInvPage
  <2>3. CASE AskThread
    BY <2>1, <2>3, MailInvThread
  <2>4. CASE AskMany
    BY <2>1, <2>4, MailInvMany
  <2>5. CASE UNCHANGED <<question, answer>>
    <3>1. question' = question /\ answer' = answer
      BY <2>5
    <3>2. SearchIsUnderWay'
      BY <2>1, <3>1 DEF MailInv, SearchIsUnderWay
    <3>3. ReadingIsRight'
      BY <2>1, <3>1 DEF MailInv, ReadingIsRight
    <3> QED
      BY <3>2, <3>3 DEF MailInv
  <2> QED
    BY <2>1, <2>2, <2>3, <2>4, <2>5 DEF AskMail
<1>3. MailInv => SearchIsHonest
  BY MailInvIsHonest
<1> QED
  BY <1>1, <1>2, <1>3, PTL DEF MailSpec
====
