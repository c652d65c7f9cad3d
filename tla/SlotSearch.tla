---- MODULE SlotSearch ----
(***************************************************************************)
(* The search for meeting times (crates/app/src/runtime: slot_search.rs;   *)
(* schedule/time.rs, slots.rs and ranked with plan.rs, records.rs,         *)
(* evaluate.rs and recurring.rs): free/busy is queried in pages, and every *)
(* quarter of an hour is judged for every participant; a weekly search     *)
(* judges a time of day on all dates together.  Availability               *)
(* (schedule.rs) shows the same answers within the working hours.          *)
(*                                                                         *)
(* Intervals are half-open and in sequences, as in the code.  A search has *)
(* the working hours of the request, merged, in UTC; its people with a     *)
(* role, their own working hours and what is in their calendar; a          *)
(* duration, a buffer, whether tentative time counts as free, and whether  *)
(* it is weekly; then its working hours are those of one weekday.  The     *)
(* limits and the ranking of what is returned are left out, and so are     *)
(* changes to and from summer time.                                        *)
(***************************************************************************)
EXTENDS Integers, Sequences, FiniteSets

CONSTANTS
    Quarter,        \* 15 minutes: the grid of suggestions
    MaxChunk,       \* 7 days: the longest query
    DayLength

HalfHour == 2 * Quarter     \* the precision of free/busy, the shortest query

ASSUME ChunksAreLonger ==
    {Quarter, DayLength} \subseteq Nat \ {0} /\ MaxChunk \in Nat /\ MaxChunk >= 2 * HalfHour

Later(a, b) == IF a > b THEN a ELSE b
Sooner(a, b) == IF a < b THEN a ELSE b
LastOf(s) == s[Len(s)]

----
(* Intervals *)

\* The values at some places, in their order.
Those(values, places) ==
    LET kept[n \in 0 .. Len(values)] ==
            IF n = 0 THEN <<>>
            ELSE IF n \in places THEN Append(kept[n - 1], values[n]) ELSE kept[n - 1]
    IN  kept[Len(values)]

Real(values) == Those(values, {n \in DOMAIN values : values[n].start < values[n].end})

\* The rows of a table one after the other.
Flat(rows) ==
    LET flat[n \in 0 .. Len(rows)] == IF n = 0 THEN <<>> ELSE flat[n - 1] \o rows[n]
    IN  flat[Len(rows)]

\* A stable sort: each place is of the interval with as many before it.
ByStart(values) ==
    LET before(n) == {m \in DOMAIN values : \/ values[m].start < values[n].start
                                            \/ m < n /\ values[m].start = values[n].start}
    IN  [place \in DOMAIN values |->
            values[CHOOSE n \in DOMAIN values : Cardinality(before(n)) = place - 1]]

Extend(out, v) == [out EXCEPT ![Len(out)].end = Later(@, v.end)]

\* merge_intervals
Merged(out, v) ==
    IF out # <<>> /\ v.start <= LastOf(out).end THEN Extend(out, v) ELSE Append(out, v)

MergeSorted(values) ==
    LET merge[n \in 0 .. Len(values)] == IF n = 0 THEN <<>> ELSE Merged(merge[n - 1], values[n])
    IN  merge[Len(values)]

MergeIntervals(values) == MergeSorted(ByStart(Real(values)))

Intersect(v, w) == [start |-> Later(v.start, w.start), end |-> Sooner(v.end, w.end)]

\* intersect_groups: all pairs; empty intersections are dropped by the merge.
IntersectGroups(left, right) ==
    MergeIntervals(Flat([i \in DOMAIN left |-> [j \in DOMAIN right |-> Intersect(left[i], right[j])]]))

IntersectAll(groups) ==
    LET common[n \in 0 .. Len(groups) - 1] ==
            IF n = 0 THEN groups[1] ELSE IntersectGroups(common[n - 1], groups[n + 1])
    IN  common[Len(groups) - 1]

Intersecting(v, w) == v.start < w.end /\ w.start < v.end
Ranges(values) == [i \in DOMAIN values |-> [start |-> values[i].start, end |-> values[i].end]]

Contained(range, intervals) ==
    \E i \in DOMAIN intervals : intervals[i].start <= range.start /\ range.end <= intervals[i].end

----
(* Queries and their answers *)

\* A rest that Exchange would refuse as too short is left longer.
ChunkLength(remaining) ==
    IF MaxChunk < remaining /\ remaining - MaxChunk < HalfHour THEN remaining - HalfHour
    ELSE Sooner(remaining, MaxChunk)

\* split_chunks
SplitChunks(start, end) ==
    LET from[cursor \in start .. end] ==
            IF cursor = end THEN <<>>
            ELSE LET next == cursor + ChunkLength(end - cursor)
                 IN  <<[start |-> cursor, end |-> next]>> \o from[next]
    IN  from[start]

DateIn(v) == v.start \div DayLength
Dates(search) == {DateIn(search.working[i]) : i \in DOMAIN search.working}

\* From the first to the last of the working hours on each date.
InDay(out, v) == IF out # <<>> /\ DateIn(LastOf(out)) = DateIn(v) THEN Extend(out, v) ELSE Append(out, v)

DaysOf(hours) ==
    LET days[n \in 0 .. Len(hours)] == IF n = 0 THEN <<>> ELSE InDay(days[n - 1], hours[n])
    IN  days[Len(hours)]

\* A query of some working hours, with the buffer around them.
QueryOf(search, hours) ==
    [start |-> hours.start - search.buffer,
     end |-> Later(hours.end + search.buffer, hours.start - search.buffer + HalfHour)]

\* weekly_queries: one for each date.
WeeklyQueries(search) ==
    LET days == DaysOf(search.working)
    IN  [n \in DOMAIN days |-> QueryOf(search, days[n])]

\* build: from the first working hour to the last, with the buffer around them.
Queries(search) ==
    LET whole == QueryOf(search, [start |-> search.working[1].start, end |-> LastOf(search.working).end])
    IN  IF search.weekly THEN WeeklyQueries(search) ELSE SplitChunks(whole.start, whole.end)

\* slot_pages: after a throttled query the others are not sent; a page that
\* could not be read is unknown, and if all are the search fails.
Answered(answers, n) == answers[n] = "ok" /\ \A m \in 1 .. n - 1 : answers[m] # "throttled"
Unanswered(search, answers) == \A n \in DOMAIN Queries(search) : ~Answered(answers, n)

\* Exchange reports the worst status of each half hour.
Reported(person, start) ==
    LET touched == {b.status : b \in {c \in person.busy : c.start < start + HalfHour /\ start < c.end}}
    IN  IF "busy" \in touched THEN "busy"
        ELSE IF "tentative" \in touched THEN "tentative" ELSE "free"

\* merge: the statuses of a page, or no data for all of it.
PageIntervals(page, known, person) ==
    IF ~known THEN <<[start |-> page.start, end |-> page.end, status |-> "noData"]>>
    ELSE [n \in 1 .. (page.end - page.start + HalfHour - 1) \div HalfHour |->
            LET start == page.start + (n - 1) * HalfHour
            IN  [start |-> start, end |-> Sooner(start + HalfHour, page.end), status |-> Reported(person, start)]]

\* merge_status_intervals; pages do not overlap.
MergedStatus(out, v) ==
    IF out # <<>> /\ v.status = LastOf(out).status /\ v.start <= LastOf(out).end THEN Extend(out, v)
    ELSE Append(out, v)

MergeStatusSorted(values) ==
    LET merge[n \in 0 .. Len(values)] == IF n = 0 THEN <<>> ELSE MergedStatus(merge[n - 1], values[n])
    IN  merge[Len(values)]

MergeStatus(values) == MergeStatusSorted(ByStart(values))

\* prepare: the record of one participant.
Record(search, answers, person) ==
    LET queries == Queries(search)
        page(n) == PageIntervals(queries[n], Answered(answers, n) /\ person.resolved, person)
    IN  MergeStatus(Flat([n \in DOMAIN queries |-> page(n)]))

WithStatus(v, status) == [start |-> v.start, end |-> v.end, status |-> status]

\* clip_to_working: what lies in the working hours.
Clip(values, working) ==
    Real(Flat([i \in DOMAIN values |-> [j \in DOMAIN working |->
                  WithStatus(Intersect(values[i], working[j]), values[i].status)]]))

\* build_plan: the queries of the working hours alone.
WorkingQueries(search) ==
    LET first == search.working[1].start
    IN  SplitChunks(first, Later(LastOf(search.working).end, first + HalfHour))

\* merge of one page: without data for the person it empties what was gathered
\* and ends it.
Gather(search, person, missing, n, out) ==
    IF n \in missing \/ ~person.resolved THEN <<>>
    ELSE IF \E m \in missing : m < n THEN out
    ELSE out \o Clip(PageIntervals(WorkingQueries(search)[n], TRUE, person), search.working)

\* calendar_get_availability: the pages of build_plan in their order.
Availability(search, person, missing) ==
    LET merge[n \in 0 .. Len(WorkingQueries(search))] ==
            IF n = 0 THEN <<>> ELSE Gather(search, person, missing, n, merge[n - 1])
    IN  MergeStatus(merge[Len(WorkingQueries(search))])

----
(* Suggestions *)

Acceptable(search, status) == status = "free" \/ (status = "tentative" /\ search.allowTentative)

\* assess: why the time does not suit the participant.
Reasons(search, person, record, range) ==
    LET padded == [start |-> range.start - search.buffer, end |-> range.end + search.buffer]
        touched == Those(record, {n \in DOMAIN record : Intersecting(record[n], padded)})
        unfit == {touched[i].status : i \in DOMAIN touched}
    IN  (IF Contained(range, person.working) THEN {} ELSE {"outsideWorkingHours"})
        \union {IF s = "noData" THEN "unknown" ELSE s : s \in {u \in unfit : ~Acceptable(search, u)}}
        \union (IF person.resolved /\ Contained(padded, MergeIntervals(Ranges(touched))) THEN {} ELSE {"unknown"})

\* candidate_ranges: the quarters of the working hours.
Candidates(search) ==
    {range \in UNION {{[start |-> t, end |-> t + search.duration] : t \in w.start .. w.end} :
                        w \in {search.working[i] : i \in DOMAIN search.working}} :
        range.start % Quarter = 0 /\ Contained(range, search.working)}

Conflicts(search, records, range, role) ==
    {i \in DOMAIN search.people :
        /\ search.people[i].role = role
        /\ Reasons(search, search.people[i], records[i], range) # {}}

\* find, before the limit: times that suit everyone who is required.
Suggestions(search, records) ==
    {range \in Candidates(search) : Conflicts(search, records, range, "required") = {}}

\* find and pattern of a weekly search: the times of day that lie in the working
\* hours of every date, and on how many of them they suit everyone required.
Patterns(search, records) ==
    LET times == {range.start % DayLength : range \in Candidates(search)}
        at(date, time) == [start |-> date * DayLength + time, end |-> date * DayLength + time + search.duration]
        whole == {t \in times : \A date \in Dates(search) : Contained(at(date, t), search.working)}
        suited(t) == {date \in Dates(search) : Conflicts(search, records, at(date, t), "required") = {}}
    IN  {[time |-> t, dates |-> suited(t)] : t \in whole}

\* Mutant: the buffer is kept at the start only.
ErodeStart(search, free) == [start |-> free.start + search.buffer, end |-> free.end]

\* Free time without the buffer at both ends.
Erode(search, free) == [start |-> free.start + search.buffer, end |-> free.end - search.buffer]

\* windows: the time that suits everyone, at least as long as the meeting.
Windows(search, records) ==
    LET usable(i) == Those(records[i], {n \in DOMAIN records[i] :
                        search.people[i].resolved /\ Acceptable(search, records[i][n].status)})
        free(i) == MergeIntervals(Ranges(usable(i)))
        eroded(i) == Real([n \in DOMAIN free(i) |-> Erode(search, free(i)[n])])
        groups == <<search.working>> \o
                  [i \in DOMAIN search.people |-> IntersectAll(<<eroded(i), search.people[i].working>>)]
        common == IntersectAll(groups)
    IN  Those(common, {n \in DOMAIN common : common[n].end - common[n].start >= search.duration})
====
