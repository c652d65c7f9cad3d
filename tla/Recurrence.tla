---- MODULE Recurrence ----
(***************************************************************************)
(* Recurring events (crates/app/src/runtime: calendar_agenda/recurrence.rs *)
(* and its pattern.rs and timezone.rs; calendar_series: occurrence.rs,     *)
(* split.rs, exceptions.rs): which dates a rule produces and with what     *)
(* ordinal, the agenda of a range of time, and the edits of one occurrence *)
(* and of an occurrence and all that follow.                               *)
(*                                                                         *)
(* Times are hours.  Day 0 is Sunday, 1 January 2023; a date is a day      *)
(* number and a month is counted from January 2023.  A rule is complete    *)
(* (CalendarRecurrence::from_fields refuses others), its weekdays are the  *)
(* set the bit mask stands for.  A time zone is its two offsets and the    *)
(* UTC intervals of its summers.                                           *)
(***************************************************************************)
EXTENDS Integers, FiniteSets

CONSTANTS
    Months,         \* bound: the months of the calendar, whole years
    Reach           \* bound: the days a neighbour is looked for

ASSUME CalendarIsWhole == {Months, Reach} \subseteq Nat \ {0} /\ Months % 12 = 0

Least(S)    == CHOOSE x \in S : \A y \in S : x <= y
Greatest(S) == CHOOSE x \in S : \A y \in S : y <= x

----
(* The Gregorian calendar (chrono) *)

MonthLength(month) ==
    IF month % 12 = 1 THEN IF (month \div 12) % 4 = 1 THEN 29 ELSE 28
    ELSE IF month % 12 \in {3, 5, 8, 10} THEN 30 ELSE 31

\* 2024 is a leap year, and so is every fourth one after it.
YearStart(year) == 365 * year + (year + 2) \div 4
DaysBefore == <<0, 31, 59, 90, 120, 151, 181, 212, 243, 273, 304, 334>>

MonthStart == [month \in 0 .. Months |->
    YearStart(month \div 12) + DaysBefore[1 + (month % 12)]
        + IF (month \div 12) % 4 = 1 /\ month % 12 >= 2 THEN 1 ELSE 0]

Days == 0 .. MonthStart[Months] - 1

MonthOf == [date \in Days |->
    CHOOSE month \in 0 .. Months - 1 : MonthStart[month] <= date /\ date < MonthStart[month + 1]]

Weekday(date) == date % 7

----
(* Patterns *)

NotMember == -1

\* calendar_day: a numbered day beyond the end of the month is its last day.
CalendarDay(month, day) ==
    MonthStart[month] + Least({day, MonthLength(month)}) - 1

\* nth_date: at most one date.
NthDate(month, days, nth) ==
    LET all == MonthStart[month] .. MonthStart[month + 1] - 1
        matches == {date \in all : Weekday(date) \in days}
    IN  IF nth = 5 THEN {date \in matches : \A d \in matches : d <= date}
        ELSE {date \in matches : Cardinality({d \in matches : d <= date}) = nth}

Nominal(rule, month) ==
    IF rule.kind \in {"monthlyNth", "yearlyNth"} THEN NthDate(month, rule.days, rule.nth)
    ELSE {CalendarDay(month, rule.day)}

Daily(rule, date, master) ==
    IF (date - master) % rule.interval # 0 THEN NotMember
    ELSE (date - master) \div rule.interval + 1

WeekStart(date, first) == date - ((7 + Weekday(date) - first) % 7)

Weekly(rule, date, master) ==
    LET chosen(from, to) == Cardinality({d \in from .. to : Weekday(d) \in rule.days})
        anchor == WeekStart(master, rule.first)
        week == WeekStart(date, rule.first)
        weeks == (week - anchor) \div 7
        cycle == weeks \div rule.interval
    IN  IF Weekday(date) \notin rule.days \/ weeks % rule.interval # 0 THEN NotMember
        ELSE IF cycle = 0 THEN chosen(master, date)
        ELSE chosen(master, anchor + 6) + (cycle - 1) * Cardinality(rule.days) + chosen(week, date)

\* calendar_ordinal: the nominal dates from the master to the date.
CalendarOrdinal(rule, date, master, yearly) ==
    LET stride == IF yearly THEN 12 * rule.interval ELSE rule.interval
        cycles == (MonthOf[date] - MonthOf[master]) \div stride
        dates(month) == Nominal(rule, IF yearly THEN 12 * (month \div 12) + rule.month - 1 ELSE month)
    IN  IF date \notin dates(MonthOf[date]) THEN NotMember
        ELSE Cardinality({index \in 0 .. cycles :
                \E d \in dates(MonthOf[master] + index * stride) : master <= d /\ d <= date})

Monthly(rule, date, master) ==
    IF (MonthOf[date] - MonthOf[master]) % rule.interval # 0 THEN NotMember
    ELSE CalendarOrdinal(rule, date, master, FALSE)

Yearly(rule, date, master) ==
    LET year(d) == MonthOf[d] \div 12
    IN  IF (year(date) - year(master)) % rule.interval # 0 THEN NotMember
        ELSE CalendarOrdinal(rule, date, master, TRUE)

Ordinal(rule, date, master) ==
    IF date < master THEN NotMember
    ELSE CASE rule.kind = "daily" -> Daily(rule, date, master)
           [] rule.kind = "weekly" -> Weekly(rule, date, master)
           [] rule.kind \in {"monthly", "monthlyNth"} -> Monthly(rule, date, master)
           [] rule.kind \in {"yearly", "yearlyNth"} -> Yearly(rule, date, master)

Never == -1         \* for count and until
Allows(rule, ordinal) == rule.count = Never \/ ordinal <= rule.count

Before(rule, start) == rule.until = Never \/ start <= rule.until

----
(* Time zones *)

Day == 24
DateOf(local) == local \div Day
TimeOf(local) == local % Day

ToLocal(zone, instant) ==
    instant + IF \E s \in zone.summers : s.from <= instant /\ instant < s.to
              THEN zone.daylight ELSE zone.standard

\* None at a gap, two in a fold: both are errors.
Instants(zone, local) ==
    {i \in {local - zone.standard, local - zone.daylight} : ToLocal(zone, i) = local}

Odd(zone, local)   == Cardinality(Instants(zone, local)) # 1
ToUtc(zone, local) == CHOOSE i \in Instants(zone, local) : TRUE

----
(* Occurrences.  A series is a master with its start and end, its rule, its *)
(* zone and its exceptions by original start.                              *)

Same == -1          \* an exception that leaves the start or the end
Stale == -2         \* the errors of the edits
NoAgenda == {[original |-> -1, start |-> 0, end |-> 0]}

LocalMaster(series)  == ToLocal(series.zone, series.start)
WallDuration(series) == ToLocal(series.zone, series.end) - LocalMaster(series)
LocalStart(series, date) == date * Day + TimeOf(LocalMaster(series))

Produced(series, date) ==
    LET ordinal == Ordinal(series.rule, date, DateOf(LocalMaster(series)))
    IN  ordinal # NotMember /\ Allows(series.rule, ordinal)

\* occurrence: the exception's times, or the ones of the slot.
Occurrence(start, end, exceptions) ==
    LET changed == {x \in exceptions : x.original = start}
        x == IF changed = {} THEN [start |-> Same, end |-> Same] ELSE CHOOSE c \in changed : TRUE
        newStart == IF x.start = Same THEN start ELSE x.start
    IN  [original |-> start, start |-> newStart,
         end |-> IF x.end = Same THEN newStart + end - start ELSE x.end]

\* Zero-length events are points of the half-open range.
Overlaps(o, range) ==
    IF o.start = o.end THEN range.start <= o.start /\ o.start < range.end
    ELSE o.start < range.end /\ range.start < o.end

\* Mutant: an event that began before the range is looked for only inside it.
ScanFromRange(series, range) == DateOf(ToLocal(series.zone, range.start)) - 1

\* Events that began up to their duration before the range may reach into it.
ScanFrom(series, range) ==
    DateOf(ToLocal(series.zone, range.start - (series.end - series.start))) - 1

\* Of occurrences that start together the agenda keeps the first: dates of the
\* rule before exceptions from elsewhere, each in their order.
KeepFirst(scanned, moved) ==
    LET first(S) == {o \in S : \A p \in S : p.start = o.start => o.original <= p.original}
    IN  first(scanned) \union {o \in first(moved) : \A p \in scanned : p.start # o.start}

\* expand: the dates of the range that the rule produces, then exceptions moved
\* to the range from elsewhere.
Expand(series, range) ==
    LET zone == series.zone
        dates == ScanFrom(series, range) .. DateOf(ToLocal(zone, range.end)) + 1
        produced == {d \in dates \cap Days : Produced(series, d)}
        odd == \E d \in produced : Odd(zone, LocalStart(series, d))
        slots == {d \in produced : Before(series.rule, ToUtc(zone, LocalStart(series, d)))}
        ends(d) == LocalStart(series, d) + WallDuration(series)
        scanned == {Occurrence(ToUtc(zone, LocalStart(series, d)), ToUtc(zone, ends(d)),
                               series.exceptions) : d \in slots}
        deleted == {x.original : x \in {e \in series.exceptions : e.deleted}}
        elsewhere == {x \in series.exceptions :
                        /\ \A o \in scanned : o.original # x.original
                        /\ ~x.deleted /\ x.start # Same}
        moved == {Occurrence(x.original, x.original + series.end - series.start, {x}) : x \in elsewhere}
        left(S) == {o \in S : o.original \notin deleted}
        shown(S) == {o \in left(S) : Overlaps(o, range)}
    IN  IF odd \/ (\E d \in slots : Odd(zone, ends(d)))
               \/ \E o \in left(scanned) \union left(moved) : o.end < o.start THEN NoAgenda
        ELSE KeepFirst(shown(scanned), shown(moved))

----
(* Edits of a series *)

\* validate_member: the ordinal of an original start, or Stale.
ValidateMember(series, original) ==
    LET local == ToLocal(series.zone, original)
        ordinal == Ordinal(series.rule, DateOf(local), DateOf(LocalMaster(series)))
    IN  IF /\ ordinal # NotMember
           /\ TimeOf(local) = TimeOf(LocalMaster(series))
           /\ ~Odd(series.zone, local)
           /\ Allows(series.rule, ordinal)
           /\ Before(series.rule, original)
        THEN ordinal ELSE Stale

\* project_occurrence fails if the end is no local time, or two.
HasEnd(series, original) ==
    ~Odd(series.zone, ToLocal(series.zone, original) + WallDuration(series))

\* base_occurrence, without its exception
BaseOccurrence(series, original) ==
    [original |-> original, start |-> original,
     end |-> ToUtc(series.zone, ToLocal(series.zone, original) + WallDuration(series))]

\* selected: the exception's times, or those of the slot.  Unlike the agenda, a
\* moved start leaves the end of the slot.
Selected(series, original) ==
    LET changed == {x \in series.exceptions : x.original = original}
        base == BaseOccurrence(series, original)
        x == IF changed = {} THEN base ELSE CHOOSE c \in changed : TRUE
    IN  [base EXCEPT !.start = IF x.start = Same THEN @ ELSE x.start,
                     !.end = IF x.end = Same THEN @ ELSE x.end]

\* Mutant: the occurrence itself is not counted in.
CountFromAfter(total, ordinal) == total - ordinal

\* What the new series has left.
CountFrom(total, ordinal) == total - ordinal + 1

\* truncate: the old series ends before the occurrence.
Truncated(series, original) ==
    [series EXCEPT !.rule.count = ValidateMember(series, original) - 1,
                   !.rule.until = Never,
                   !.exceptions = {x \in @ : x.original < original}]

\* split::edit with an update that leaves the schedule: the new series begins
\* at the slot of the occurrence and keeps the later exceptions.
NewSeries(series, original) ==
    LET total == series.rule.count
    IN  [series EXCEPT !.start = original,
                       !.end = BaseOccurrence(series, original).end,
                       !.rule.count = IF total = Never THEN Never
                                      ELSE CountFrom(total, ValidateMember(series, original)),
                       !.exceptions = {x \in @ : x.original >= original}]

\* The search for a neighbour passes over deleted occurrences, if exceptions count.
Nearest(series, original, later, overrides) ==
    LET date == DateOf(ToLocal(series.zone, original))
        side == {d \in IF later THEN date + 1 .. date + Reach ELSE date - Reach .. date - 1 :
                    d \in Days /\ Produced(series, d)}
        deleted(d) == \E x \in series.exceptions :
                         x.deleted /\ x.original \in Instants(series.zone, LocalStart(series, d))
        stops == {d \in side : ~(overrides /\ deleted(d))}
    IN  IF stops = {} THEN {} ELSE {IF later THEN Least(stops) ELSE Greatest(stops)}

\* A neighbour at a local time that does not exist is an error; the first date
\* after until ends the search.
ClearOf(series, o, later, overrides) ==
    \A d \in Nearest(series, o.original, later, overrides) :
        /\ ~Odd(series.zone, LocalStart(series, d))
        /\ LET slot == ToUtc(series.zone, LocalStart(series, d))
               n == IF overrides THEN Selected(series, slot) ELSE BaseOccurrence(series, slot)
           IN  \/ ~Before(series.rule, slot)
               \/ HasEnd(series, slot) /\ IF later THEN o.end <= n.start ELSE n.end <= o.start

\* validate_move: the occurrence neither overlaps nor crosses its neighbours.
ValidMove(series, o, overrides) ==
    /\ o.start < o.end /\ o.end - o.start <= 366 * Day
    /\ \A later \in BOOLEAN : ClearOf(series, o, later, overrides)

\* exceptions::edit: the new exception replaces a former one.
WithException(series, x) ==
    [series EXCEPT !.exceptions = {e \in @ : e.original # x.original} \union {x}]

\* exceptions::validate: the first slot, and every exception that has a time.
ValidSeries(series) ==
    /\ ValidateMember(series, series.start) # Stale /\ HasEnd(series, series.start)
    /\ ValidMove(series, BaseOccurrence(series, series.start), FALSE)
    /\ \A x \in series.exceptions :
        /\ ValidateMember(series, x.original) # Stale
        /\ ~x.deleted => /\ HasEnd(series, x.original)
                         /\ ValidMove(series, Selected(series, x.original), TRUE)

\* split::edit leaves occurrences to both series, and validates the new one.
AcceptsSplit(series, original) ==
    /\ ValidateMember(series, original) > 1 /\ HasEnd(series, original)
    /\ ValidSeries(NewSeries(series, original))

\* exceptions::edit with an update of one occurrence, which must not be deleted.
AcceptsMove(series, x) ==
    LET changed == WithException(series, x)
    IN  /\ ValidateMember(series, x.original) # Stale /\ HasEnd(series, x.original)
        /\ \A e \in series.exceptions : e.original = x.original => ~e.deleted
        /\ ValidMove(series, Selected(changed, x.original), TRUE)
        /\ ValidSeries(changed)
====
