---- MODULE MCQueries ----
(***************************************************************************)
(* The algorithms of the runtime on many inputs: those of the calendar     *)
(* (MCCalendarQueries), those that judge the answers of Exchange           *)
(* (ProtocolAnswers), those of mail searches (MailAnswers), of time        *)
(* zones and of device policies (Provisioning); local files (LocalFiles);  *)
(* and the commands that set up an account.                                *)
(***************************************************************************)
EXTENDS MCCalendarQueries, ProtocolAnswers, LocalFiles, MailAnswers, EasTimeZones, Provisioning, AccountSetup

----
(* Mails: hits of searches; one of each kind of conversation *)

\* Whether a mail is read and how old it is, as far as Exchange says so.
Kinds == {[read |-> TRUE, age |-> 1], [read |-> FALSE, age |-> 1], [read |-> Missing, age |-> 1]}
MCFilters == {<<>>, [read |-> {TRUE}, age |-> {1, 2}]}

\* The third and the fifth are received at the same time.
Mail(n, fields) ==
    [id |-> n, fields |-> fields, at |-> <<3, Missing, 4, 3, 3>>[n], index |-> <<2, 1, 1, 1, 2>>[n],
     body |-> <<0, 2, 5, 1, 3>>[n], belongs |-> TRUE]

Hits(kinds) ==
    {[n \in DOMAIN fields |-> Mail(n, fields[n])] : fields \in UNION {[1 .. n -> kinds] : n \in 0 .. 5}}
MCFoundMails == {Mail(n, fields) : n \in 1 .. 5, fields \in Kinds}
MCResults == Hits(Kinds)
MCConversations == Hits({[read |-> TRUE, age |-> 1]})

\* The mails that cannot be read, and one that is of another conversation.
MCReadings ==
    [results : {2, 5}, body : {2, 4}, budget : {1, 4, 20}, failing : {{}, {2}, {1, 4}, 1 .. 5}, strangers : {{}, {2}}]

----
(* Time zones: winter and summer with the local times at which they end *)

Years == 0 .. 2
Beginning == -10000

Period(from, base, dst) == [from |-> from, base |-> base, dst |-> dst]

\* The nth weekday of a month of each year, or the last one.
Changing(winter, summer, toSummer, toWinter) ==
    LET at(rule, year, old) ==
            Least(NthDate(12 * year + rule.month, {rule.weekday}, rule.nth)) * Day + rule.hour - Total(old)
    IN  {[winter EXCEPT !.from = Beginning]}
        \union {[summer EXCEPT !.from = at(toSummer, y, winter)] : y \in Years}
        \union {[winter EXCEPT !.from = at(toWinter, y, summer)] : y \in Years}

On(nth, weekday, month, hour) == [nth |-> nth, weekday |-> weekday, month |-> month, hour |-> hour]

NewYorkZone  == Changing(Period(0, -5, 0), Period(0, -5, 1), On(2, 0, 2, 2), On(1, 0, 10, 2))
BerlinZone   == Changing(Period(0, 1, 0), Period(0, 1, 1), On(5, 0, 2, 2), On(5, 0, 9, 3))
DublinZone   == Changing(Period(0, 1, -1), Period(0, 1, 0), On(5, 0, 2, 1), On(5, 0, 9, 2))
CairoZone    == Changing(Period(0, 2, 0), Period(0, 2, 1), On(5, 5, 3, 0), On(5, 5, 9, 0))
AucklandZone ==     \* summer at the turn of the year
    Changing(Period(0, 12, 1), Period(0, 12, 0), On(1, 0, 3, 3), On(5, 0, 8, 2))
LisbonZone   == {Period(Beginning, 0, 0)}
Regular == {NewYorkZone, BerlinZone, DublinZone, CairoZone, AucklandZone, LisbonZone}

\* The fourth Sunday; Ramadan; a base offset that changes; summer time all year.
AsuncionZone   == Changing(Period(0, -4, 1), Period(0, -4, 0), On(4, 0, 2, 0), On(1, 0, 9, 0))
CasablancaZone ==
    {Period(Beginning, 1, 0)} \union {Period(24 * d + 2, 1, -1) : d \in {77, 434, 784, 1080}}
    \union {Period(24 * d + 2, 1, 0) : d \in {112, 469, 826, 1092}}
AlmatyZone     == {Period(Beginning, 6, 0), Period(24 * 425 - 6, 5, 0)}
WarZone        == {Period(Beginning, -5, 1)}
Zones == Regular \union {AsuncionZone, CasablancaZone, AlmatyZone, WarZone}

ZoneQuestions == {[is |-> "zone", zone |-> zone, year |-> year] : zone \in Zones, year \in Years}

AskZone ==
    /\ question.is = "zone"
    /\ question' = [question EXCEPT !.is = "encoding"]
    /\ answer' = Encode(question.zone, question.year)

\* The last hour before each change.
Eves(zone) == {RealLocal(zone, p.from - 1) : p \in {q \in zone : q.from # Beginning}} \union {FirstHour(1)}

AskTimed ==
    /\ question.is = "zone"
    /\ \E eve \in {l \in Eves(question.zone) : YearOf(l) = question.year},
          shift \in -2 .. 3, length \in {0, 2, 24 * 40},
          first, last \in {Total(p) : p \in question.zone} :
        LET start == [local |-> eve + shift, offset |-> first]
            end == [local |-> eve + shift + length, offset |-> last]
        IN  /\ question' = [is |-> "timed", zone |-> question.zone, start |-> start, end |-> end]
            /\ answer' = PrepareTimed(question.zone, start, end)

AskAllDay ==
    /\ question.is = "zone"
    /\ \E eve \in {l \in Eves(question.zone) : YearOf(l) = question.year}, shift \in -1 .. 2, length \in 0 .. 2 :
        LET first == DateOf(eve) + shift
        IN  /\ question' = [is |-> "all day", zone |-> question.zone, first |-> first, last |-> first + length]
            /\ answer' = PrepareAllDay(question.zone, first, first + length)

----
(* Policies: at most two fields, one of every kind *)

Fields == {
    "DevicePasswordEnabled", "AllowCamera", "AllowHTMLEmail", "AttachmentsEnabled", "AllowBluetooth",
    "ApprovedApplicationList", "MinDevicePasswordLength", "MaxAttachmentSize", "MaxEmailAgeFilter",
    "MaxEmailBodyTruncationSize", "MaxEmailHTMLBodyTruncationSize", "MaxCalendarAgeFilter", "AllowNewFeature"}
Values == {Empty, Malformed} \union {-2, -1, 0, 1, 2, 4, 5, 7, 40000, 60000, 30 * 1024 * 1024}

MCPolicies == {f :> v @@ g :> w : f, g \in Fields, v, w \in Values} \union {<<>>}

----
(* Answers of Exchange: status numbers of every meaning, two texts that are *)
(* written in two ways, and settings that differ from what was asked in at  *)
(* most two respects                                                        *)

MCCodes == {200, 204, 302, 401, 403, 429, 449, 500, 503}

MCStatusNumbers ==
    [compose |-> {1, 103, 110, 118, 132, 140, 200}, sync |-> {1, 3, 5, 14}, item |-> {1, 3, 8, 14, 110},
     move |-> 1 .. 8, respond |-> 1 .. 5, replies |-> {1, 2, 5, 7, 8, 103, 110, 111}]

Hello == [words |-> "hello", html |-> FALSE]
Away  == [words |-> "away", html |-> FALSE]
InHtml(text) == [text EXCEPT !.html = ~@]
MCMessages == {Unstated, Blank, Excessive, Hello, Away}

\* What Exchange may say for a message or for all settings.
Versions(message) ==
    {message, [message EXCEPT !.enabled = ~@], [message EXCEPT !.text = Unstated]}
    \union {[message EXCEPT !.text = text] : text \in {Hello, Away, InHtml(Hello), InHtml(Away)}}

Altered(settings) ==
    {[settings EXCEPT !.state = state] : state \in States}
    \union {[settings EXCEPT !.start = start] : start \in {Unstated, 1, 3}}
    \union {[settings EXCEPT !.end = end] : end \in {Unstated, 2, 4}}
    \union UNION {{[settings EXCEPT !.messages[a] = version] : version \in Versions(settings.messages[a])} :
                     a \in DOMAIN settings.messages}
    \union {[settings EXCEPT !.messages = [b \in DOMAIN @ \ {a} |-> @[b]]] : a \in Audiences}

AlteredTwice(settings) == UNION {Altered(first) : first \in Altered(settings)}

----
\* The set-up of an account is a question of its own, with many steps.
SetUpQuestion == [is |-> "set-up"]

Init ==
    /\ answer = Nothing
    /\ \/ /\ question \in CalendarQuestions \union ProtocolQuestions \union MailQuestions
                           \union ZoneQuestions \union PolicyQuestions \union LocalQuestions
          /\ Initially(Absent, Absent)
       \/ /\ question = SetUpQuestion
          /\ SetupInit

Ask ==
    \/ AskCalendar \/ AskProtocol \/ AskLocal
    \/ AskMail \/ AskZone \/ AskTimed \/ AskAllDay \/ AskPolicy
SetUp == question = SetUpQuestion /\ SetupNext

Next ==
    \/ Ask /\ UNCHANGED setupVars
    \/ SetUp /\ UNCHANGED <<question, answer>>

Spec == Init /\ [][Next]_<<question, answer, setupVars>>

Symmetry == Permutations(Commands) \union Permutations(Settings) \union Permutations(Passwords)

----
\* What is written of a zone for a year reads as the zone itself in all of that
\* year, in other years too if its changes are on the first, second, third or
\* last of a weekday.  There is one exception: a zone that keeps summer time for
\* the whole year is written without it.
ZonesReadAsWritten ==
    question.is = "encoding" /\ answer # Rejected =>
        LET zone == question.zone
            changes == {p.from : p \in {q \in zone : q.from # Beginning}}
            years == IF zone \in Regular THEN Years ELSE {question.year}
            read == IF answer.toDaylight = None THEN {}
                    ELSE {InYear(rule, y) + shift : rule \in {answer.toStandard, answer.toDaylight},
                                                   y \in years, shift \in -14 .. 14}
            probes == {t \in read \union {c + shift : c \in changes, shift \in -2 .. 2}
                              \union {FirstHour(y) + shift : y \in years, shift \in {-6, 0, 5, 12, 4000}} :
                          t >= 12 /\ YearOf(RealLocal(zone, t)) \in years}
        IN  \/ \A t \in probes : EasLocal(answer, t) = RealLocal(zone, t)
            \/ \A p \in zone : p.dst # 0

\* A schedule that is accepted begins for Exchange when it was written to begin:
\* at that time of the zone, and at that time of what is written of the zone.
SchedulesStartAsWritten ==
    question.is \in {"timed", "all day"} /\ answer # Rejected =>
        LET written == IF question.is = "timed" THEN question.start.local ELSE question.first * Day
            end == IF question.is = "timed" THEN question.end.local ELSE question.last * Day
        IN  /\ RealLocal(question.zone, answer.start) = written /\ RealLocal(question.zone, answer.end) = end
            /\ answer.start < answer.end
            /\ EasLocal(answer.zone, answer.start) = written \/ question.zone = WarZone
            /\ question.is = "all day" => RealInstants(question.zone, written) = {answer.start}

\* Exchange and the program agree on the calendar: the slots of a rule, the order
\* that moves leave, and the wall clock of what is written.
CalendarsAreExact == SlotsAreExact /\ MovesKeepTheOrder /\ ZonesReadAsWritten /\ SchedulesStartAsWritten
====
