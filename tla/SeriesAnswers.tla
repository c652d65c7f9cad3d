---- MODULE SeriesAnswers ----
(***************************************************************************)
(* Questions about recurring events (Recurrence): the agenda of a range,   *)
(* and an edit of one occurrence and all that follow, which splits the     *)
(* series.                                                                 *)
(***************************************************************************)
EXTENDS Questions, Recurrence

CONSTANTS
    Series,
    AgendaRanges,   \* for a series, the ranges that are asked for
    Probed          \* for a series, the instants at which answers are examined

RuleKinds == {"daily", "weekly", "monthly", "monthlyNth", "yearly", "yearlyNth"}

\* Pattern::parse, and what each kind needs.
Rules ==
    {rule \in [kind : RuleKinds, interval : Nat \ {0}, first : 0 .. 6, days : SUBSET (0 .. 6), day : Nat,
               nth : Nat, month : Nat, count : Int, until : Int] :
        /\ rule.count = Never \/ rule.count > 0
        /\ rule.kind \in {"monthly", "yearly"} => rule.day > 0
        /\ rule.kind \in {"yearly", "yearlyNth"} => rule.month \in 1 .. 12}

\* Clocks change by half a day at most.
LocalZones ==
    {zone \in [standard : Int, daylight : Int, summers : SUBSET [from : Int, to : Int]] :
        zone.daylight - zone.standard \in -12 .. 12}

Exceptions == [original : Int, deleted : BOOLEAN, start : Int, end : Int]

\* A slot of a series: what validate_member accepts.
IsSlot(series, s) ==
    /\ DateOf(ToLocal(series.zone, s)) \in Days
    /\ ValidateMember(series, s) # Stale

IsSeries(series) ==
    /\ series \in [rule : Rules, zone : LocalZones, start : Int, end : Int, exceptions : SUBSET Exceptions]
    /\ series.start <= series.end
    /\ DateOf(LocalMaster(series)) \in Days
    /\ \A x, y \in series.exceptions : x.original = y.original => x = y
    /\ \A x \in series.exceptions : IsSlot(series, x.original)

ASSUME SeriesAreSound ==
    \A series \in Series :
        /\ IsSeries(series)
        /\ Probed[series] \subseteq Int /\ AgendaRanges[series] \subseteq [start : Int, end : Int]

SeriesQuestions == [is : {"series"}, series : Series]

----
AskAgenda ==
    /\ question.is = "series"
    /\ \E range \in AgendaRanges[question.series] :
        /\ question' = [is |-> "agenda", series |-> question.series, range |-> range]
        /\ answer' = [agenda |-> Expand(question.series, range)]

\* An update of an occurrence and all that follow.
AskSplit ==
    /\ question.is = "series"
    /\ \E original \in Probed[question.series] :
        /\ IsSlot(question.series, original)
        /\ AcceptsSplit(question.series, original)
        /\ question' = [is |-> "split", series |-> question.series, original |-> original]
        /\ answer' = [old |-> Truncated(question.series, original),
                      new |-> NewSeries(question.series, original)]

AskSeries == AskAgenda \/ AskSplit

SeriesInit == question \in SeriesQuestions /\ answer = Nothing
SeriesSpec == SeriesInit /\ [][AskSeries]_<<question, answer>>

----
OccurrenceAt(series, s) == Occurrence(s, BaseOccurrence(series, s).end, series.exceptions)

IsDeleted(series, s) == \E x \in series.exceptions : x.original = s /\ x.deleted

\* An exception with only one of its two times.
IsHalf(series, s) == \E x \in series.exceptions : x.original = s /\ (x.start = Same) # (x.end = Same)

\* Some occurrence has no local time, or ends before it starts.
IsBroken(series) ==
    \E date \in Days :
        /\ Produced(series, date)
        /\ \/ Odd(series.zone, LocalStart(series, date))
           \/ Odd(series.zone, LocalStart(series, date) + WallDuration(series))
           \/ LET s == ToUtc(series.zone, LocalStart(series, date))
              IN  ~IsDeleted(series, s) /\ OccurrenceAt(series, s).end < OccurrenceAt(series, s).start

\* The agenda of a range shows every occurrence that overlaps it and no other:
\* long ones that began before, the last one that a count or an end date allows,
\* those moved in or out, and each at its wall-clock time in and out of summer.
\* Of those that start together it shows one.  It fails only for a series with an
\* occurrence that has no local time or ends before it starts.
AgendaIsExact ==
    question.is = "agenda" =>
        LET series == question.series
            agenda == answer.agenda
            due(s) == /\ IsSlot(series, s) /\ ~IsDeleted(series, s)
                      /\ Overlaps(OccurrenceAt(series, s), question.range)
        IN  \/ agenda = NoAgenda /\ IsBroken(series)
            \/ /\ \A o \in agenda :
                    \/ IsHalf(series, o.original)
                    \/ due(o.original) /\ o = OccurrenceAt(series, o.original)
               /\ \A o, p \in agenda : o.start = p.start => o = p
               /\ \A s \in Probed[series] :
                    due(s) /\ HasEnd(series, s) /\ ~IsHalf(series, s) =>
                        \E o \in agenda : o.start = OccurrenceAt(series, s).start

\* A split gives every occurrence of the series to exactly one of the two that
\* replace it: those before the one edited stay, the others are in the new series
\* at the same times, and each takes its exception with it.
SplitsKeepTheSeries ==
    question.is = "split" =>
        LET series == question.series
            original == question.original
            old == answer.old
            new == answer.new
        IN  /\ \A s \in Probed[series] :
                DateOf(ToLocal(series.zone, s)) \in Days =>
                    /\ IsSlot(old, s) <=> IsSlot(series, s) /\ s < original
                    /\ IsSlot(new, s) <=> IsSlot(series, s) /\ original <= s
                    /\ IsSlot(new, s) => BaseOccurrence(new, s) = BaseOccurrence(series, s)
            /\ \A x \in series.exceptions :
                IF x.original < original THEN x \in old.exceptions \ new.exceptions /\ IsSlot(old, x.original)
                ELSE x \in new.exceptions \ old.exceptions /\ IsSlot(new, x.original)
====
