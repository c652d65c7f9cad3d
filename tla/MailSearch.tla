---- MODULE MailSearch ----
(***************************************************************************)
(* Searches and the reading of conversations and of several mails          *)
(* (crates/app/src/runtime: mail_search.rs, mail_search/filters.rs,        *)
(* mail_thread.rs, mail_batch.rs; crates/eas/src/protocol/mail_search.rs). *)
(*                                                                         *)
(* Exchange keeps the result set of a query from its first page on         *)
(* (RebuildResults) and hands it out in ranges, as long as it likes and    *)
(* with or without saying how much there is.  A mail is its identifier,    *)
(* the fields that filters ask for, each with a value or Missing, its      *)
(* place in a conversation and the length of its body.  Parsing of headers *)
(* is a field that is known or Missing.                                    *)
(***************************************************************************)
EXTENDS Integers, Sequences, FiniteSets

CONSTANTS
    PageSize,       \* the candidates asked for at once, 100 in the code
    MaxCalls,       \* the pages of one search, 10 in the code
    Missing         \* no value

ASSUME SearchIsBounded == {PageSize, MaxCalls} \subseteq Nat \ {0}
ASSUME MissingIsNoNumber == Missing \notin Int

Smaller(a, b) == IF a < b THEN a ELSE b

----
(* Candidates *)

\* A filter is the set of values it accepts; a field that is not known neither
\* passes nor fails, unless another one fails.
Matches(fields, filters) ==
    IF \E f \in DOMAIN filters : fields[f] \notin filters[f] \union {Missing} THEN "no"
    ELSE IF \E f \in DOMAIN filters : fields[f] = Missing THEN "unknown"
    ELSE "yes"

NoCandidates ==
    [start |-> 0, items |-> <<>>, seen |-> {}, calls |-> 0, unknown |-> 0, complete |-> FALSE, is |-> "going"]

\* A page is the mails of a range, the place it begins at and the size of the
\* result set if Exchange tells them, and whether Exchange ends here (status 12).
Inconsistent(search, page) ==
    \/ Len(page.mails) > PageSize
    \/ page.from \notin {search.start, Missing}
    \/ page.from # Missing /\ page.mails = <<>>

Repeats(search, page) ==
    \E n \in DOMAIN page.mails :
        \/ page.mails[n].id \in search.seen
        \/ \E m \in 1 .. n - 1 : page.mails[m].id = page.mails[n].id

\* The mails of which filters say the same.
Which(mails, filters, how) ==
    LET kept[n \in 0 .. Len(mails)] ==
            IF n = 0 THEN <<>>
            ELSE IF Matches(mails[n].fields, filters) = how THEN Append(kept[n - 1], mails[n])
            ELSE kept[n - 1]
    IN  kept[Len(mails)]

Examined(search, page, filters) ==
    [search EXCEPT !.items = @ \o Which(page.mails, filters, "yes"),
                   !.seen = @ \union {page.mails[n].id : n \in DOMAIN page.mails},
                   !.unknown = @ + Len(Which(page.mails, filters, "unknown")),
                   !.calls = @ + 1]

\* Mutant: a page that is not full ends the result set.
ShortPageEnds(search, page) ==
    IF page.truncated THEN "cut off"
    ELSE IF Len(page.mails) < PageSize THEN "exhausted"
    ELSE "more"

\* What a page says of those that follow it.
Continuation(search, page) ==
    LET next == search.start + Len(page.mails)
        more == page.total # Missing /\ page.total > next
    IN  IF page.truncated THEN "cut off"
        ELSE IF Len(page.mails) < PageSize /\ ~more THEN "exhausted"
        ELSE IF page.mails = <<>> THEN "stuck"
        ELSE "more"

NextPage(search, page, filters) ==
    IF Inconsistent(search, page) \/ Repeats(search, page) THEN [search EXCEPT !.is = "failed"]
    ELSE LET how == Continuation(search, page)
             examined == Examined(search, page, filters)
         IN  IF how = "more" /\ examined.calls < MaxCalls
             THEN [examined EXCEPT !.start = @ + Len(page.mails)]
             ELSE [examined EXCEPT !.is = "done",
                                   !.complete = how = "exhausted" /\ page.total # Missing]

\* The answer says whether some mail may be missing from it.
MayMiss(search) == ~search.complete \/ search.unknown > 0

----
(* Conversations and several mails: bodies within a common budget *)

Read(mail, limit) ==
    [id |-> mail.id, body |-> Smaller(mail.body, limit), cut |-> mail.body > limit]

\* By the time of receipt, those without one first, then by their index.
Earlier(a, b) ==
    LET at(mail) == IF mail.at = Missing THEN 0 ELSE mail.at
    IN  at(a) < at(b) \/ (at(a) = at(b) /\ a.index < b.index)

\* A stable sort: each place is of the mail with as many before it.
InOrder(mails) ==
    LET before(n) == {m \in DOMAIN mails : \/ Earlier(mails[m], mails[n])
                                           \/ m < n /\ ~Earlier(mails[n], mails[m])}
    IN  [place \in DOMAIN mails |-> mails[CHOOSE n \in DOMAIN mails : Cardinality(before(n)) = place - 1]]

Unreadable == [is |-> "error"]

\* mail_get_thread: a mail that cannot be read is left out with a warning; one
\* that does not say it belongs to the conversation spoils the answer.
Thread(search, resultLimit, bodyLimit, budget, failing) ==
    LET found == InOrder(search.items)
        read[n \in 0 .. Smaller(Len(found), resultLimit)] ==
            IF n = 0 THEN [remaining |-> budget, items |-> <<>>, foreign |-> FALSE]
            ELSE LET before == read[n - 1]
                     mail == found[n]
                     shown == Read(mail, Smaller(bodyLimit, before.remaining))
                 IN  IF before.remaining # 0 /\ mail.id \in failing THEN before
                     ELSE [remaining |-> before.remaining - shown.body,
                           items |-> Append(before.items, [shown EXCEPT !.cut = @ \/ before.remaining = 0]),
                           foreign |-> before.foreign \/ ~mail.belongs]
        last == read[Smaller(Len(found), resultLimit)]
    IN  IF search.is = "failed" \/ last.foreign \/ last.items = <<>> THEN Unreadable
        ELSE [is |-> "thread", items |-> last.items,
              truncated |-> \/ MayMiss(search)
                            \/ Len(found) > resultLimit
                            \/ Len(last.items) < Smaller(Len(found), resultLimit)]

\* mail_get_many: every mail has an entry, with its own error.
GetMany(mails, bodyLimit, budget, failing) ==
    LET read[n \in 0 .. Len(mails)] ==
            IF n = 0 THEN [remaining |-> budget, items |-> <<>>]
            ELSE LET before == read[n - 1]
                     mail == mails[n]
                     asked == Smaller(bodyLimit, IF before.remaining = 0 THEN 1 ELSE before.remaining)
                     shown == IF before.remaining = 0 THEN [Read(mail, 0) EXCEPT !.cut = TRUE]
                              ELSE Read(mail, asked)
                 IN  IF mail.id \in failing
                     THEN [before EXCEPT !.items = Append(@, [id |-> mail.id, error |-> TRUE])]
                     ELSE [remaining |-> before.remaining - shown.body, items |-> Append(before.items, shown)]
    IN  [is |-> "many", items |-> read[Len(mails)].items]
====
