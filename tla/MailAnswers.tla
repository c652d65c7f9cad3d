---- MODULE MailAnswers ----
(***************************************************************************)
(* Questions about mails (MailSearch): Exchange holds the hits of a query  *)
(* and hands them out in pages; then conversations and several mails are   *)
(* read.                                                                   *)
(***************************************************************************)
EXTENDS Questions, MailSearch

CONSTANTS
    FoundMails,
    Results,            \* the hits of queries
    Filters,
    Conversations,      \* those that are read
    Readings            \* limits, the mails that cannot be read, and those of
                        \* another conversation

ASSUME MailsAreMails ==
    \A mail \in FoundMails : /\ {"id", "at", "index", "body", "belongs"} \subseteq DOMAIN mail
                             /\ mail.at \in (Nat \ {0}) \union {Missing}
                             /\ mail.index \in Int /\ mail.body \in Nat /\ mail.belongs = TRUE

ASSUME ResultsAreMails ==
    \A hits \in Results \union Conversations :
        hits \in Seq(FoundMails) /\ \A m, n \in DOMAIN hits : hits[m].id = hits[n].id => m = n

ASSUME ReadingsAreLimited ==
    \A reading \in Readings : reading.results \in Nat /\ reading.body \in Nat /\ reading.budget \in Nat

MailQuestions ==
    [is : {"mail search"}, hits : Results, filters : Filters, fair : {TRUE}]
    \union [is : {"mail search"}, hits : Conversations, filters : {<<>>}, fair : {TRUE}]

----
(* Searches *)

\* A range of the hits, now and then the wrong one.
Pages(hits, start) ==
    {[mails |-> SubSeq(hits, from + 1, from + count), from |-> IF told THEN from ELSE Missing,
      total |-> total, truncated |-> truncated] :
        from \in {start, 0}, count \in 0 .. Smaller(PageSize, Len(hits) - start),
        told \in BOOLEAN, total \in {Len(hits), Missing}, truncated \in BOOLEAN}

\* Exchange tells how much there is and goes on until it has told everything.
IsFair(page, hits, start) ==
    page.total # Missing /\ ~page.truncated /\ (page.mails = <<>> => start = Len(hits))

AskPage ==
    /\ question.is = "mail search"
    /\ answer = Nothing \/ answer.is = "going"
    /\ LET search == IF answer = Nothing THEN NoCandidates ELSE answer
       IN  \E page \in Pages(question.hits, search.start) :
            /\ question' = [question EXCEPT !.fair = @ /\ IsFair(page, question.hits, search.start)]
            /\ answer' = NextPage(search, page, question.filters)

----
(* Reading *)

\* Those of another conversation are not what they were found as.
WithStrangers(mails, strangers) ==
    [n \in DOMAIN mails |-> [mails[n] EXCEPT !.belongs = mails[n].id \notin strangers]]

AskThread ==
    /\ question.is = "mail search" /\ question.filters = <<>> /\ question.hits \in Conversations
    /\ answer # Nothing /\ answer.is = "done"
    /\ \E reading \in Readings :
        LET search == [answer EXCEPT !.items = WithStrangers(@, reading.strangers)]
        IN  /\ question' = [is |-> "thread", mails |-> question.hits, reading |-> reading]
            /\ answer' = Thread(search, reading.results, reading.body, reading.budget, reading.failing)

AskMany ==
    /\ question.is = "mail search" /\ answer = Nothing /\ question.hits # <<>>
    /\ \E reading \in Readings :
        /\ question' = [is |-> "many", mails |-> question.hits, reading |-> reading]
        /\ answer' = GetMany(question.hits, reading.body, reading.budget, reading.failing)

AskMail == AskPage \/ AskThread \/ AskMany

MailInit == question \in MailQuestions /\ answer = Nothing
MailSpec == MailInit /\ [][AskMail]_<<question, answer>>

----
\* A search never loses or repeats a hit without saying so: what it has found
\* and counted as unknown is what the filters make of the hits it has seen, one
\* said to be complete has seen them all, and one that Exchange answers fairly
\* is complete unless it runs out of pages.
SearchesAreHonest ==
    question.is = "mail search" /\ answer # Nothing /\ answer.is # "failed" =>
        LET seen == SubSeq(question.hits, 1, Cardinality(answer.seen))
        IN  /\ answer.items = Which(seen, question.filters, "yes")
            /\ answer.unknown = Len(Which(seen, question.filters, "unknown"))
            /\ answer.complete => seen = question.hits
            /\ answer.is = "done" /\ question.fair => answer.complete \/ answer.calls = MaxCalls

\* The bodies of an answer together; one that could not be read has none.
BodySum(items) ==
    LET total[n \in 0 .. Len(items)] ==
            IF n = 0 THEN 0 ELSE total[n - 1] + (IF "body" \in DOMAIN items[n] THEN items[n].body ELSE 0)
    IN  total[Len(items)]

\* The mails an item stands for.
MailsOf(item) == {question.mails[n] : n \in {k \in DOMAIN question.mails : question.mails[k].id = item.id}}

\* Bodies stay within their limits, and one that is not marked is whole.
BodiesAreHonest ==
    /\ BodySum(answer.items) <= question.reading.budget
    /\ \A n \in DOMAIN answer.items :
        LET item == answer.items[n]
        IN  "body" \in DOMAIN item => /\ item.body <= question.reading.body
                                      /\ item.cut \/ \A mail \in MailsOf(item) : item.body = mail.body

\* A conversation is in order and without strangers, shows no mail twice, and is
\* complete unless it is marked.  Of several mails each has its answer.
ReadingIsHonest ==
    /\ question.is = "thread" /\ answer # Unreadable =>
        /\ BodiesAreHonest
        /\ \A n \in DOMAIN answer.items :
            answer.items[n].id \notin question.reading.strangers /\ MailsOf(answer.items[n]) # {}
        /\ \A m, n \in DOMAIN answer.items :
            m < n => \A a \in MailsOf(answer.items[m]), b \in MailsOf(answer.items[n]) : a # b /\ ~Earlier(b, a)
        /\ answer.truncated \/ Len(answer.items) = Len(question.mails)
    /\ question.is = "many" =>
        /\ BodiesAreHonest
        /\ Len(answer.items) = Len(question.mails)
        /\ \A n \in DOMAIN answer.items :
            /\ answer.items[n].id = question.mails[n].id
            /\ "error" \in DOMAIN answer.items[n] <=> answer.items[n].id \in question.reading.failing

\* What a search, a conversation or several mails leave out is said to be left out.
SearchIsHonest == SearchesAreHonest /\ ReadingIsHonest
====
