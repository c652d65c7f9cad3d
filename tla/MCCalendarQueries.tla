---- MODULE MCCalendarQueries ----
(***************************************************************************)
(* Questions to the calendar algorithms.                                   *)
(***************************************************************************)
EXTENDS SeriesAnswers, ScheduleAnswers, MeetingMessages, TLC

CONSTANTS p1, p2

----
(* Series: rules with their first date, in two zones *)

Cycles == 12    \* bound: cycles of a rule that are enumerated
MaxProbed == 9  \* bound: slots of a series that are looked at

Rule(kind, interval, first, days, day, nth, month) ==
    [kind |-> kind, interval |-> interval, first |-> first, days |-> days, day |-> day, nth |-> nth,
     month |-> month, count |-> Never, until |-> Never]

AskedRules == {
    Rule("daily", 1, 0, {}, 0, 0, 0),
    Rule("daily", 3, 0, {}, 0, 0, 0),
    Rule("weekly", 1, 0, {1, 4}, 0, 0, 0),
    Rule("weekly", 2, 1, {0, 3, 6}, 0, 0, 0),
    Rule("monthly", 1, 0, {}, 31, 0, 0),
    Rule("monthlyNth", 1, 0, {5}, 0, 5, 0),
    Rule("monthlyNth", 2, 0, 1 .. 5, 0, 2, 0),
    Rule("yearly", 1, 0, {}, 29, 0, 2),
    Rule("yearlyNth", 1, 0, {0}, 0, 3, 3)}

\* The dates of a rule, cycle by cycle.
DatesOf(rule, master) ==
    LET year == MonthOf[master] \div 12
        week == Greatest({d \in master - 6 .. master : Weekday(d) = rule.first})
        months(ms) == {m \in ms : m < Months}
        all == CASE rule.kind = "daily" -> {master + k * rule.interval : k \in 0 .. Cycles}
                 [] rule.kind = "weekly" ->
                        {d \in {week + 7 * rule.interval * k + j :
                                   k \in 0 .. Cycles, j \in 0 .. 6} : Weekday(d) \in rule.days}
                 [] rule.kind \in {"monthly", "monthlyNth"} ->
                        UNION {Nominal(rule, m) : m \in months({MonthOf[master] + k * rule.interval :
                                                                   k \in 0 .. Cycles})}
                 [] rule.kind \in {"yearly", "yearlyNth"} ->
                        UNION {Nominal(rule, m) : m \in months({12 * (year + k * rule.interval)
                                                                   + rule.month - 1 : k \in 0 .. Cycles})}
    IN  {d \in all : master <= d}

UtcZone == [standard |-> 0, daylight |-> 0, summers |-> {}]
NewYork == [standard |-> -5, daylight |-> -4,
            summers |-> {[from |-> 24 * 70 + 7, to |-> 24 * 308 + 6],
                         [from |-> 24 * 434 + 7, to |-> 24 * 672 + 6]}]

\* Around the 29th of February and the change to summer time of 2024; yearly
\* rules begin in 2023.
Origins == {20 + 365 + 31, 6 + 365 + 60}

FirstDate(rule, from) ==
    Least(DatesOf(rule, IF rule.kind \in {"yearly", "yearlyNth"} THEN 31 ELSE from))

Bare(rule, from, zone, hour, duration) ==
    LET start == ToUtc(zone, FirstDate(rule, from) * Day + hour)
    IN  [rule |-> rule, zone |-> zone, start |-> start, end |-> start + duration, exceptions |-> {}]

\* The original starts of a series, in their order and up to its end.
SlotsOf(series) ==
    LET rule == series.rule
        dates == DatesOf(rule, DateOf(LocalMaster(series)))
        counted == {d \in dates : rule.count = Never \/ Cardinality({c \in dates : c < d}) < rule.count}
    IN  {s \in {ToUtc(series.zone, LocalStart(series, d)) :
                   d \in {c \in counted : ~Odd(series.zone, LocalStart(series, c))}} :
            rule.until = Never \/ s <= rule.until}

Nth(S, n) == CHOOSE s \in S : Cardinality({r \in S : r < s}) = n - 1
FirstThree(S) == 1 .. Least({3, Cardinality(S)})

WithEnds(series) ==
    {series, [series EXCEPT !.rule.count = 3], [series EXCEPT !.rule.until = Nth(SlotsOf(series), 3)]}

Moved(series, original, by) ==
    [original |-> original, deleted |-> FALSE, start |-> original + by,
     end |-> original + by + series.end - series.start]

Changed(series) ==
    LET second == Nth(SlotsOf(series), 2)
    IN  {series}
        \union {WithException(series, x) : x \in
            {[original |-> second, deleted |-> TRUE, start |-> Same, end |-> Same],
             Moved(series, second, 3), Moved(series, second, -20), Moved(series, second, 50)}}

AllSeries ==
    UNION {UNION {Changed(s) : s \in WithEnds(b)} : b \in
        {Bare(rule, from, place.zone, place.hour, duration) :
            rule \in AskedRules, from \in Origins, duration \in {0, 1, 30},
            place \in {[zone |-> UtcZone, hour |-> 22], [zone |-> NewYork, hour |-> 2]}}}

RangesOf(series) ==
    LET dates == {DateOf(ToLocal(series.zone, s)) : s \in SlotsOf(series)}
        near == {Nth(dates, n) + delta : n \in FirstThree(dates), delta \in -1 .. 1}
        midnight(date) == ToUtc(series.zone, date * Day)
    IN  {[start |-> midnight(d), end |-> midnight(d + length)] : d \in near, length \in {1, 6}}

MCAgendaRanges == [series \in AllSeries |-> RangesOf(series)]

\* The first slots, and times that are none.
MCProbed ==
    [series \in AllSeries |->
        LET slots == SlotsOf(series)
            first == {s \in slots : Cardinality({r \in slots : r < s}) < MaxProbed}
        IN  first \union {Nth(slots, n) + shift : n \in FirstThree(slots), shift \in {-Day, -1, Day}}]

\* The occurrences in their order, by enumeration.
Occurrences(series) ==
    {OccurrenceAt(series, s) : s \in {r \in SlotsOf(series) : ~IsDeleted(series, r)}}

----
(* Searches *)

Interval(start, end) == [start |-> start, end |-> end]

Working == {<<Interval(4, 21)>>, <<Interval(6, 20), Interval(30, 44)>>, <<Interval(5, 56)>>}
OneWeekday == {<<Interval(6, 20), Interval(30, 44)>>, <<Interval(3, 9), Interval(12, 21), Interval(27, 45)>>}

Person(role, working, resolved, busy) ==
    [role |-> role, working |-> working, resolved |-> resolved, busy |-> busy]

Busy == {{}} \union {{[start |-> start, end |-> start + 4, status |-> status]} :
                        start \in {1, 9, 31}, status \in {"tentative", "busy"}}

MCSearches ==
    {[weekly |-> w[2], working |-> w[1], duration |-> duration, buffer |-> buffer, allowTentative |-> allowed,
      people |-> <<Person("required", w[1], TRUE, first),
                   Person("optional", <<Interval(0, 38)>>, resolved, second)>>] :
        w \in (Working \X {FALSE}) \union (OneWeekday \X {TRUE}),
        duration \in {3, 6}, buffer \in {0, 3}, allowed \in BOOLEAN,
        first \in Busy, second \in {{}, {[start |-> 12, end |-> 14, status |-> "busy"]}}, resolved \in BOOLEAN}

----
(* Meetings *)

Nobody == [p \in People |-> Out]
Rosters == {Nobody, p1 :> 1 @@ p2 :> Out, p1 :> Out @@ p2 :> 1, p1 :> 2 @@ p2 :> 1}
OnlySecond == [NoChange EXCEPT !.attendees = {p1 :> Out @@ p2 :> 1}]
Changes == {Deleted} \union {[NoChange EXCEPT !.attendees = a, !.content = c] :
                                a \in {{}} \union {{r} : r \in Rosters}, c \in {{}, {2}}}

Event(last, attendees, exceptions) ==
    RefreshStatus([uid |-> 1, first |-> 1, last |-> last, recurring |-> last > 1, content |-> 1, mine |-> TRUE,
                   attendees |-> attendees, meeting |-> FALSE, requested |-> FALSE, exceptions |-> exceptions])

MCMeetings ==
    {Event(1, a, <<>>) : a \in Rosters} \union {[Event(1, Nobody, <<>>) EXCEPT !.meeting = TRUE]}
    \union {Event(3, a, slot :> x) : a \in Rosters, slot \in 1 .. 3, x \in Changes}
    \union {Event(3, a, 1 :> x @@ 3 :> y) : a \in Rosters, x \in Changes, y \in {Deleted, OnlySecond}}

MCEdits ==
    Removals \union
    {u \in Updates : /\ u.attendees \in {{}} \union {{r} : r \in Rosters}
                     /\ u.content \in {{}, {3}} /\ u.last \in {{}, {2}, {4}} /\ u.slot # 4}

----
CalendarQuestions == SeriesQuestions \union SearchQuestions \union MeetingQuestions

AskMove ==
    /\ question.is = "series"
    /\ question.series.rule.kind \notin {"yearly", "yearlyNth"} /\ question.series.rule.until = Never
    /\ \E n \in FirstThree(SlotsOf(question.series)), by \in {-20, -3, 20, 60} :
        LET x == Moved(question.series, Nth(SlotsOf(question.series), n), by)
        IN  /\ question' = [is |-> "move", series |-> question.series, x |-> x]
            /\ answer' = [accepted |-> AcceptsMove(question.series, x)]

AskCalendar ==
    \/ AskSeries \/ AskMove \/ AskSchedule \/ AskMeeting

----
\* A rule produces the dates of its cycles and no other, and counts them from the
\* first one; what is accepted as an original start is one of the slots.
SlotsAreExact ==
    question.is = "series" =>
        LET series == question.series
            first == DateOf(LocalMaster(series))
            dates == {d \in DatesOf(series.rule, first) : d \in Days}
            around == {d \in UNION {d - 1 .. d + 1 : d \in dates} : d \in Days /\ d <= Greatest(dates)}
        IN  /\ \A d \in around : Ordinal(series.rule, d, first) =
                    IF d \in dates THEN Cardinality({c \in dates : c <= d}) ELSE NotMember
            /\ \A s \in Probed[series] : IsSlot(series, s) <=> s \in SlotsOf(series)

\* An accepted move leaves the occurrence between its neighbours, as they are
\* after their own changes.
MovesKeepTheOrder ==
    question.is = "move" /\ answer.accepted =>
        \A o \in Occurrences(WithException(question.series, question.x)) :
            /\ o.original < question.x.original => o.end <= question.x.start
            /\ question.x.original < o.original => question.x.end <= o.start
====
