---- MODULE EasTimeZones ----
(***************************************************************************)
(* Time zones of calendar items (crates/app/src/runtime:                   *)
(* calendar_schedule.rs writes them, calendar_agenda/timezone.rs reads     *)
(* them).  Exchange knows no zone of the IANA database: an item carries a  *)
(* pair of offsets and, for each, the weekday of a month on which it       *)
(* begins, and these are taken from one year of the zone.                  *)
(*                                                                         *)
(* A zone of the database is the set of its periods: from an instant on    *)
(* its base offset and what summer time adds to it.  Times are hours, so   *)
(* offsets are always whole minutes; names are left out.  Years are        *)
(* counted from 2023.                                                      *)
(***************************************************************************)
EXTENDS Recurrence

None == [month |-> -1]
Rejected == [is |-> "rejected"]

----
(* The database (chrono_tz) *)

\* The period an instant falls into; the first one has no beginning.
PeriodAt(zone, instant) ==
    LET begun == {p \in zone : p.from <= instant}
    IN  CHOOSE p \in begun : \A q \in begun : q.from <= p.from

Total(period) == period.base + period.dst
RealLocal(zone, instant) == instant + Total(PeriodAt(zone, instant))

RealInstants(zone, local) ==
    {i \in {local - Total(p) : p \in zone} : RealLocal(zone, i) = local}

YearOf(local) == MonthOf[DateOf(local)] \div 12
FirstHour(year) == Day * MonthStart[12 * year]

----
(* Writing: what changes in the local year *)

\* locate_transition: a change is found by its total offset.
Transitions(zone, year) ==
    LET old(p) == PeriodAt(zone, p.from - 1)
        begins(p) == p.from + Total(old(p))
    IN  {[local |-> begins(p), dst |-> p.dst, rebased |-> p.base # old(p).base] :
            p \in {q \in zone : /\ FirstHour(year) - 2 * Day < q.from
                                /\ q.from <= FirstHour(year + 1) + 2 * Day
                                /\ Total(q) # Total(old(q))
                                /\ YearOf(begins(q)) = year}}

\* Mutant: the fourth weekday is taken for the last one only if it ends its month.
WeekOfFullWeeks(date) ==
    LET day == date - MonthStart[MonthOf[date]]
    IN  IF day >= 28 THEN 5 ELSE day \div 7 + 1

\* transition_week: the last of its weekday in the month, or its number.
TransitionWeek(date) ==
    IF MonthOf[date + 7] # MonthOf[date] THEN 5
    ELSE (date - MonthStart[MonthOf[date]]) \div 7 + 1

SystemTime(local) ==
    LET date == DateOf(local)
    IN  [month |-> MonthOf[date] % 12, weekday |-> Weekday(date), week |-> TransitionWeek(date),
         hour |-> TimeOf(local)]

\* encode_time_zone: none or two transitions, one of which ends summer time.
Encode(zone, year) ==
    LET found == Transitions(zone, year)
        daylight == {t \in found : t.dst # 0}
        base == PeriodAt(zone, FirstHour(year) + 14 * Day).base
    IN  IF (\E t \in found : t.rebased) \/ Cardinality(found) \notin {0, 2} THEN Rejected
        ELSE IF found = {} THEN [standard |-> base, daylight |-> base, toStandard |-> None, toDaylight |-> None]
        ELSE IF Cardinality(daylight) # 1 THEN Rejected
        ELSE LET to(season) == SystemTime((CHOOSE t \in season : TRUE).local)
             IN  [standard |-> base, daylight |-> base + (CHOOSE t \in daylight : TRUE).dst,
                  toStandard |-> to(found \ daylight), toDaylight |-> to(daylight)]

----
(* Reading *)

\* in_year: the date of a weekday's number, the fifth standing for the last.
InYear(rule, year) ==
    LET month == 12 * year + rule.month
        first == MonthStart[month]
        last == MonthStart[month + 1] - 1
        date == IF rule.week < 5 THEN first + ((7 + rule.weekday - Weekday(first)) % 7) + 7 * (rule.week - 1)
                ELSE last - ((7 + Weekday(last) - rule.weekday) % 7)
    IN  date * Day + rule.hour

\* is_daylight_utc: summer time may last over the end of the year, which is
\* the one in UTC.
IsDaylight(eas, instant) ==
    /\ eas.toDaylight # None
    /\ LET year == YearOf(instant)
           daylight == InYear(eas.toDaylight, year) - eas.standard
           standard == InYear(eas.toStandard, year) - eas.daylight
       IN  IF daylight < standard THEN daylight <= instant /\ instant < standard
           ELSE daylight <= instant \/ instant < standard

EasLocal(eas, instant) == instant + IF IsDaylight(eas, instant) THEN eas.daylight ELSE eas.standard

EasInstants(eas, local) ==
    {i \in {local - eas.standard, local - eas.daylight} : EasLocal(eas, i) = local}

----
(* Schedules, as they are written into a request *)

\* prepare_timed: wall-clock times with their offsets.
PrepareTimed(zone, start, end) ==
    LET instant(t) == t.local - t.offset
        matches(t) == RealLocal(zone, instant(t)) = t.local
        eas == Encode(zone, YearOf(start.local))
    IN  IF ~matches(start) \/ ~matches(end) \/ instant(end) <= instant(start) \/ eas = Rejected THEN Rejected
        ELSE [start |-> instant(start), end |-> instant(end), zone |-> eas]

\* prepare_all_day: from a local midnight to another one.
PrepareAllDay(zone, first, last) ==
    LET midnights(date) == RealInstants(zone, date * Day)
        eas == Encode(zone, YearOf(first * Day))
    IN  IF \/ last <= first \/ eas = Rejected
           \/ Cardinality(midnights(first)) # 1 \/ Cardinality(midnights(last)) # 1 THEN Rejected
        ELSE [start |-> CHOOSE i \in midnights(first) : TRUE, end |-> CHOOSE i \in midnights(last) : TRUE,
              zone |-> eas]
====
