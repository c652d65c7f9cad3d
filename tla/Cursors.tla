---- MODULE Cursors ----
(***************************************************************************)
(* The page cursors of mail_list and mail_search in one process            *)
(* (crates/app/src/references.rs, runtime/reads.rs, mail_search.rs).       *)
(*                                                                         *)
(* A first page reads every selected account, keeps the joined mails as an *)
(* immutable snapshot, and stores a cursor if mails are left over.  A page *)
(* that follows a cursor takes it out of the store, and stores a new one   *)
(* for the rest in a second critical section.  A remote wipe of any        *)
(* account, met by any tool, clears the store.                             *)
(*                                                                         *)
(* Abstractions: a cursor's random identifier is the call that stored it;  *)
(* a snapshot is its origin, its number of mails and the accounts they are *)
(* of; each call is made once (Calls bounds the model), and calls whose    *)
(* input is invalid are left out, as is the end of the process.  The clock *)
(* runs forward to MaxTime and is read before the mutex is locked, so a    *)
(* call may use any time since its previous step.                          *)
(***************************************************************************)
EXTENDS FiniteSets, Naturals, Sequences

CONSTANTS
    Calls,          \* invocations of mail_list and mail_search
    Accounts,       \* the enabled accounts
    None,           \* no cursor, no snapshot, no call, no time
    MaxSnapshots,   \* cursors the store retains
    Lifetime,       \* how long a cursor is good for
    PruneInterval,  \* how long storing a cursor leaves expired ones alone
    MaxMails,       \* bound: mails of a snapshot
    MaxLimit,       \* the largest page a client may ask for
    MaxTime         \* bound: the end of the clock

ASSUME CursorConstants ==
    /\ {MaxSnapshots, Lifetime, PruneInterval, MaxLimit} \subseteq Nat \ {0}
    /\ {MaxMails, MaxTime} \subseteq Nat

VARIABLES
    now,
    disabled,   \* accounts this process has seen wiped
    cursors,    \* the stored cursors, by the call that stored them
    order,      \* their identifiers, oldest first
    prunedAt,   \* when expired cursors were last removed
    pc,         \* where a call is
    reply,      \* what each account answered to a first-page call
    asked,      \* the cursor a call follows
    snap,       \* the snapshot a call's page is cut from
    from, upto, \* the page: mails from + 1 to upto of the snapshot
    since,      \* when a call asked, or had its page cut
    log,        \* history: every cursor that was ever stored, in order
    deadline,   \* history: when each of them expires
    purged      \* history: cursors that a wipe removed

storeVars == <<cursors, order, prunedAt>>
pageVars  == <<asked, snap, from, upto>>
pastVars  == <<log, deadline, purged>>
vars == <<now, disabled, storeVars, pc, reply, pageVars, since, pastVars>>

Snapshot == [of : Calls, size : Nat, holds : SUBSET Accounts]
Cursor   == [snapshot : Snapshot, offset : Nat, expires : Nat]

ASSUME NoneIsNothing == None \notin Calls /\ None \notin Nat /\ None \notin Cursor

Stored        == {k \in Calls : cursors[k] # None}
Least(m, n)   == IF m <= n THEN m ELSE n
Delivered(c)  == pc[c] \in {"storing", "answered"}
MailLeft(c)   == upto[c] < snap[c].size
RangeOf(s)    == {s[i] : i \in DOMAIN s}

Init ==
    /\ now = 0
    /\ disabled = {}
    /\ cursors = [k \in Calls |-> None]
    /\ order = <<>>
    /\ prunedAt = None
    /\ pc = [c \in Calls |-> "new"]
    /\ reply = [c \in Calls |-> [a \in Accounts |-> "none"]]
    /\ asked = [c \in Calls |-> None]
    /\ snap = [c \in Calls |-> None]
    /\ from = [c \in Calls |-> 0]
    /\ upto = [c \in Calls |-> 0]
    /\ since = [c \in Calls |-> 0]
    /\ log = <<>>
    /\ deadline = [k \in Calls |-> None]
    /\ purged = {}

Tick ==
    /\ now < MaxTime
    /\ now' = now + 1
    /\ UNCHANGED <<disabled, storeVars, pc, reply, pageVars, since, pastVars>>

\* The clock as a call sees it.
Clock(c) == since[c]..now

\* Only a call that has still to read the clock depends on its previous step.
Enter(c, step) ==
    /\ pc' = [pc EXCEPT ![c] = step]
    /\ since' = [since EXCEPT ![c] = IF step \in {"asking", "storing"} THEN now ELSE 0]

----
(* The store *)

Fresh(t) == {k \in Stored : cursors[k].expires > t}

\* The elements of a queue that are in S, in their order.
Filtered(queue, S) ==
    LET places == {i \in DOMAIN queue : queue[i] \in S}
        Place(n) == CHOOSE i \in places : Cardinality({j \in places : j < i}) = n
    IN  [n \in 1..Cardinality(places) |-> queue[Place(n - 1)]]

\* Only the cursors of kept stay.
Keep(kept) ==
    /\ cursors' = [k \in Calls |-> IF k \in kept THEN cursors[k] ELSE None]
    /\ order' = Filtered(order, kept)

\* Mutant: a wipe empties the map and forgets the queue.
ClearCursorsOnly ==
    /\ cursors' = [k \in Calls |-> None]
    /\ purged' = purged \cup Stored
    /\ UNCHANGED <<order, prunedAt, log, deadline>>

\* purge_account of References: the cursors of all accounts go.
Clear ==
    /\ Keep({})
    /\ purged' = purged \cup Stored
    /\ UNCHANGED <<prunedAt, log, deadline>>

\* The call's page: the next mails of a snapshot, at most limit.
CutPage(c, snapshot, offset, limit) ==
    /\ snap' = [snap EXCEPT ![c] = snapshot]
    /\ from' = [from EXCEPT ![c] = offset]
    /\ upto' = [upto EXCEPT ![c] = Least(offset + limit, snapshot.size)]
    /\ Enter(c, IF offset + limit < snapshot.size THEN "storing" ELSE "answered")

----
(* The first page *)

\* mail_list or mail_search without a cursor, of accounts that are not wiped.
List(c) ==
    /\ pc[c] = "new"
    /\ \E S \in SUBSET (Accounts \ disabled) :
          /\ S # {}
          /\ reply' = [reply EXCEPT ![c] =
                          [a \in Accounts |-> IF a \in S THEN "awaited" ELSE "none"]]
    /\ Enter(c, "reading")
    /\ UNCHANGED <<now, disabled, storeVars, pageVars, pastVars>>

\* Exchange's answer for one account: mails, a failure or the order to wipe.
Reply(c, a) ==
    /\ pc[c] = "reading"
    /\ reply[c][a] = "awaited"
    /\ \E r \in {"mail", "failed", "wiped"} :
          reply' = [reply EXCEPT ![c] = [@ EXCEPT ![a] = r]]
    /\ UNCHANGED <<now, disabled, storeVars, pc, pageVars, since, pastVars>>

Replied(c, r) == {a \in Accounts : reply[c][a] = r}
DropReplies(c) == reply' = [reply EXCEPT ![c] = [a \in Accounts |-> "none"]]

\* collect_partial, then first_page: wiped accounts are purged, the mails of
\* the others become the snapshot.  The call fails without any, and if a purge
\* of the journal or the conversion of a mail fails.
Collect(c) ==
    /\ pc[c] = "reading"
    /\ Replied(c, "awaited") = {}
    /\ \E gone \in SUBSET Replied(c, "wiped") :
          /\ gone = {} => Replied(c, "wiped") = {}
          /\ disabled' = disabled \cup gone
          /\ IF gone = {} THEN UNCHANGED <<storeVars, pastVars>> ELSE Clear
          /\ \/ Enter(c, "failed") /\ UNCHANGED pageVars
             \/ /\ gone = Replied(c, "wiped")
                /\ Replied(c, "mail") # {}
                /\ \E S \in SUBSET Replied(c, "mail"), n \in 0..MaxMails, limit \in 1..MaxLimit :
                      /\ Cardinality(S) <= n
                      /\ n > 0 => S # {}
                      /\ CutPage(c, [of |-> c, size |-> n, holds |-> S], 0, limit)
                /\ UNCHANGED asked
    /\ DropReplies(c)
    /\ UNCHANGED now

\* The client cancels a call that waits for Exchange.
Cancel(c) ==
    /\ pc[c] = "reading"
    /\ Enter(c, "failed")
    /\ DropReplies(c)
    /\ UNCHANGED <<now, disabled, storeVars, pageVars, pastVars>>

\* purge_account on behalf of another tool of the process.
WipeElsewhere(a) ==
    /\ disabled' = disabled \cup {a}
    /\ Clear
    /\ UNCHANGED <<now, pc, reply, pageVars, since>>

----
(* Following a cursor *)

\* The client presents a cursor that an answer gave it, perhaps again.
Ask(c, k) ==
    /\ pc[c] = "new"
    /\ pc[k] = "answered"
    /\ MailLeft(k)
    /\ asked' = [asked EXCEPT ![c] = k]
    /\ Enter(c, "asking")
    /\ UNCHANGED <<now, disabled, storeVars, reply, snap, from, upto, pastVars>>

\* Mutant: the cursor is read, and not removed.
TakeAgain(c) ==
    /\ pc[c] = "asking"
    /\ \E t \in Clock(c) :
          /\ Keep(Fresh(t))
          /\ prunedAt' = t
          /\ IF asked[c] \in Fresh(t)
             THEN /\ LET cursor == cursors[asked[c]]
                     IN  \E limit \in 1..MaxLimit :
                            CutPage(c, cursor.snapshot, cursor.offset, limit)
                  /\ UNCHANGED asked
             ELSE Enter(c, "refused") /\ UNCHANGED pageVars
    /\ UNCHANGED <<now, disabled, reply, pastVars>>

\* Mutant: expired cursors are left to the next store.
TakeUnpruned(c) ==
    /\ pc[c] = "asking"
    /\ Keep(Stored \ {asked[c]})
    /\ IF asked[c] \in Stored
       THEN /\ LET cursor == cursors[asked[c]]
               IN  \E limit \in 1..MaxLimit :
                      CutPage(c, cursor.snapshot, cursor.offset, limit)
            /\ UNCHANGED asked
       ELSE Enter(c, "refused") /\ UNCHANGED pageVars
    /\ UNCHANGED <<now, disabled, reply, prunedAt, pastVars>>

\* next_page up to the unlock: expired cursors are removed, and the one asked
\* for if it is still there.
Take(c) ==
    /\ pc[c] = "asking"
    /\ \E t \in Clock(c) :
          /\ Keep(Fresh(t) \ {asked[c]})
          /\ prunedAt' = t
          /\ IF asked[c] \in Fresh(t)
             THEN /\ LET cursor == cursors[asked[c]]
                     IN  \E limit \in 1..MaxLimit :
                            CutPage(c, cursor.snapshot, cursor.offset, limit)
                  /\ UNCHANGED asked
             ELSE Enter(c, "refused") /\ UNCHANGED pageVars
    /\ UNCHANGED <<now, disabled, reply, pastVars>>

----
(* store_cursor *)

PruneDue(t) ==
    \/ prunedAt = None
    \/ t >= prunedAt + PruneInterval
    \/ prunedAt >= t + PruneInterval

\* Mutant: one cursor too few is kept.
EvictEarly(queue) ==
    IF Len(queue) + 1 < MaxSnapshots THEN queue
    ELSE SubSeq(queue, Len(queue) - MaxSnapshots + 3, Len(queue))

\* The youngest cursors of a queue, so that one more is within the bound.
Youngest(queue) ==
    IF Len(queue) < MaxSnapshots THEN queue
    ELSE SubSeq(queue, Len(queue) - MaxSnapshots + 2, Len(queue))

Store(c) ==
    /\ pc[c] = "storing"
    /\ \E t \in Clock(c) :
          LET pruned == IF PruneDue(t) THEN Filtered(order, Fresh(t)) ELSE order
              queue  == Youngest(pruned)
          IN  /\ order' = Append(queue, c)
              /\ cursors' = [k \in Calls |->
                    IF k = c THEN [snapshot |-> snap[c], offset |-> upto[c],
                                   expires |-> t + Lifetime]
                    ELSE IF k \in RangeOf(queue) THEN cursors[k] ELSE None]
              /\ prunedAt' = IF PruneDue(t) THEN t ELSE prunedAt
              /\ log' = Append(log, c)
              /\ deadline' = [deadline EXCEPT ![c] = t + Lifetime]
    /\ Enter(c, "answered")
    /\ UNCHANGED <<now, disabled, reply, pageVars, purged>>

----
Next ==
    \/ Tick
    \/ \E a \in Accounts : WipeElsewhere(a)
    \/ \E c \in Calls :
          \/ List(c) \/ Collect(c) \/ Cancel(c) \/ Take(c) \/ Store(c)
          \/ \E a \in Accounts : Reply(c, a)
          \/ \E k \in Calls : Ask(c, k)

Spec == Init /\ [][Next]_vars

----
(* Properties *)

\* Types; a page lies within its snapshot.
TypeOK ==
    /\ now \in Nat
    /\ disabled \subseteq Accounts
    /\ cursors \in [Calls -> Cursor \cup {None}]
    /\ order \in Seq(Calls)
    /\ prunedAt \in Nat \cup {None}
    /\ pc \in [Calls -> {"new", "reading", "asking", "storing", "answered", "refused", "failed"}]
    /\ reply \in [Calls -> [Accounts -> {"none", "awaited", "mail", "failed", "wiped"}]]
    /\ asked \in [Calls -> Calls \cup {None}]
    /\ snap \in [Calls -> Snapshot \cup {None}]
    /\ from \in [Calls -> Nat]
    /\ upto \in [Calls -> Nat]
    /\ \A c \in Calls : Delivered(c) => from[c] <= upto[c] /\ upto[c] <= snap[c].size
    /\ since \in [Calls -> Nat]
    /\ log \in Seq(Calls)
    /\ deadline \in [Calls -> Nat \cup {None}]
    /\ purged \subseteq Calls

\* The map of cursors and the queue that orders them for eviction name the
\* same cursors, each once, and at most MaxSnapshots (store_cursor's loop
\* would otherwise evict live cursors for the sake of forgotten ones).
QueueMatchesStore ==
    /\ TypeOK
    /\ RangeOf(order) = Stored
    /\ \A i, j \in DOMAIN order : order[i] = order[j] => i = j
    /\ Len(order) <= MaxSnapshots

\* However many clients follow and repeat its cursors at once, no mail of a
\* snapshot is given out twice, and no page skips mails before it
\* ("each cursor is single-use", docs/architecture.md).
PagesTile ==
    \A c, d \in Calls : Delivered(c) /\ Delivered(d) /\ snap[c].of = snap[d].of =>
        /\ c # d => upto[c] <= from[d] \/ upto[d] <= from[c]
        /\ \E e \in Calls : from[c] > 0 => Delivered(e) /\ snap[e] = snap[c] /\ upto[e] = from[c]

\* A cursor is refused only for a reason the documentation names: another call
\* took it, it expired, a wipe removed it, or MaxSnapshots younger ones came.
RefusalsAreDeserved ==
    \A c \in Calls : pc[c] = "refused" =>
        \/ \E d \in Calls : asked[d] = asked[c] /\ Delivered(d)
        \/ deadline[asked[c]] # None /\ deadline[asked[c]] <= now
        \/ asked[c] \in purged
        \/ \E i \in DOMAIN log : log[i] = asked[c] /\ Len(log) - i >= MaxSnapshots

\* A page is given only to a client that asked before its cursor expired.
NothingStaleIsServed ==
    [][\A c \in Calls : pc[c] = "asking" /\ Delivered(c)' => since[c] < deadline[asked[c]]]_vars

\* docs/security.md: "Remote wipe purges account credentials, process
\* references, attachments, and journal rows."
WipedMailIsGone == \A k \in Stored : cursors[k].snapshot.holds \cap disabled = {}
====
