---- MODULE ScheduleAnswers ----
(***************************************************************************)
(* Questions about meeting times (SlotSearch): a search or a request for   *)
(* availability, and which of its pages Exchange answers.                  *)
(***************************************************************************)
EXTENDS Questions, SlotSearch

CONSTANT
    Searches

\* Working hours have been merged.
AreMerged(hours) ==
    /\ hours \in Seq([start : Int, end : Int])
    /\ \A n \in DOMAIN hours : hours[n].start < hours[n].end
    /\ \A m, n \in DOMAIN hours : m < n => hours[m].end < hours[n].start

\* Someone is required; of a weekly search, a day with its buffers is shorter
\* than a query, and the buffers of one day end before those of the next begin.
IsSearch(search) ==
    /\ AreMerged(search.working) /\ search.working # <<>>
    /\ search.duration \in Nat \ {0} /\ search.buffer \in Nat
    /\ Len(search.people) \in Nat /\ DOMAIN search.people = 1 .. Len(search.people)
    /\ \E i \in DOMAIN search.people : search.people[i].role = "required"
    /\ \A i \in DOMAIN search.people :
        /\ search.people[i].role \in {"required", "optional"}
        /\ AreMerged(search.people[i].working)
        /\ search.people[i].busy \subseteq [start : Int, end : Int, status : {"tentative", "busy"}]
        /\ \A b \in search.people[i].busy : b.start < b.end
    /\ search.weekly =>
        \A m, n \in DOMAIN search.working :
            LET v == search.working[m]
                w == search.working[n]
            IN  IF DateIn(v) = DateIn(w) THEN QueryOf(search, [start |-> v.start, end |-> w.end]).end
                                              <= v.start - search.buffer + MaxChunk
                ELSE m < n => QueryOf(search, v).end <= w.start - search.buffer

ASSUME SearchesAreSound == \A search \in Searches : IsSearch(search)

SearchQuestions == [is : {"search"}, search : Searches]

----
AskSlots ==
    /\ question.is = "search"
    /\ \E answers \in [DOMAIN Queries(question.search) -> {"ok", "failed", "throttled"}] :
        LET search == question.search
            records == [i \in DOMAIN search.people |-> Record(search, answers, search.people[i])]
        IN  /\ question' = [is |-> "slots", search |-> search, answers |-> answers]
            /\ answer' = IF Unanswered(search, answers) THEN Nothing
                         ELSE IF search.weekly THEN [patterns |-> Patterns(search, records)]
                         ELSE [records |-> records, suggestions |-> Suggestions(search, records),
                               windows |-> Windows(search, records)]

AskAvailability ==
    /\ question.is = "search" /\ ~question.search.weekly
    /\ \E missing \in SUBSET DOMAIN WorkingQueries(question.search) :
        LET search == question.search
        IN  /\ question' = [is |-> "availability", search |-> search, missing |-> missing]
            /\ answer' = [schedule |-> [i \in DOMAIN search.people |->
                                           Availability(search, search.people[i], missing)]]

AskSchedule == AskSlots \/ AskAvailability

ScheduleInit == question \in SearchQuestions /\ answer = Nothing
ScheduleSpec == ScheduleInit /\ [][AskSchedule]_<<question, answer>>

----
\* Exchange accepts every query.  A suggestion is free for everyone required,
\* in their calendars and with its buffer; a quarter that is not suggested lies
\* outside someone's hours, within half an hour of something or where nothing
\* is known.  The windows hold exactly the suggestions that suit everyone.  A
\* weekly time is said to suit on just the dates on which it would be suggested.
SlotsAreRight(search, answers, slots) ==
    LET queries == Queries(search)
        from(range) == range.start - search.buffer
        to(range) == range.end + search.buffer
        disturbed(p, start, end) == \E b \in p.busy :
            b.start < end /\ start < b.end /\ ~Acceptable(search, b.status)
        known(range) == \A t \in from(range) .. to(range) - 1 : \E n \in DOMAIN queries :
            queries[n].start <= t /\ t < queries[n].end /\ Answered(answers, n)
        required == {search.people[i] : i \in {j \in DOMAIN search.people :
                                                 search.people[j].role = "required"}}
        fits(range) == known(range) /\ \A p \in required : ~disturbed(p, from(range), to(range))
        unfit(range) ==
            \/ ~known(range)
            \/ \E p \in required : \/ ~Contained(range, p.working) \/ ~p.resolved
                                   \/ disturbed(p, from(range) - HalfHour, to(range) + HalfHour)
        weekly(p, date) == [start |-> date * DayLength + p.time,
                            end |-> date * DayLength + p.time + search.duration]
        suitsAll(range) == /\ range \in slots.suggestions
                           /\ Conflicts(search, slots.records, range, "optional") = {}
    IN  /\ \A n \in DOMAIN queries : queries[n].end - queries[n].start \in HalfHour .. MaxChunk
        /\ slots # Nothing /\ ~search.weekly =>
            \A range \in Candidates(search) :
                /\ IF range \in slots.suggestions THEN fits(range) ELSE unfit(range)
                /\ suitsAll(range) <=> Contained(range, slots.windows)
        /\ slots # Nothing /\ search.weekly =>
            \A p \in slots.patterns, date \in Dates(search) :
                IF date \in p.dates THEN fits(weekly(p, date)) ELSE unfit(weekly(p, date))

\* Availability is shown for all of the working hours, or not at all if a page
\* had no data: free means that nothing is in the calendar, and anything else
\* that something is within half an hour.
AvailabilityIsRight(search, missing, schedule) ==
    \A i \in DOMAIN search.people :
        LET person == search.people[i]
            shown == schedule[i]
            at(t) == {shown[n].status : n \in {k \in DOMAIN shown : shown[k].start <= t /\ t < shown[k].end}}
            near(t, d, status) == \E b \in person.busy :
                b.status = status /\ b.start < t + 1 + d /\ t - d < b.end
            whole == person.resolved /\ missing = {}
            working == UNION {w.start .. w.end - 1 : w \in {search.working[k] : k \in DOMAIN search.working}}
        IN  \A t \in search.working[1].start .. LastOf(search.working).end :
                IF whole /\ t \in working
                THEN \E status \in at(t) :
                        /\ at(t) = {status}
                        /\ IF status = "free" THEN \A b \in person.busy : ~near(t, 0, b.status)
                           ELSE near(t, HalfHour, status)
                ELSE at(t) = {}

\* What the searches suggest and what availability shows agree with the calendars
\* of the participants, whatever pages could be read.
SchedulesAreExact ==
    /\ question.is = "slots" => SlotsAreRight(question.search, question.answers, answer)
    /\ question.is = "availability" =>
           AvailabilityIsRight(question.search, question.missing, answer.schedule)
====
