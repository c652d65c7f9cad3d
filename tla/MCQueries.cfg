SPECIFICATION Spec
CONSTANTS
    Months = 48
    Reach = 70
    Series <- AllSeries
    AgendaRanges <- MCAgendaRanges
    Probed <- MCProbed
    Quarter = 3
    MaxChunk = 24
    DayLength = 24
    Searches <- MCSearches
    p1 = p1
    p2 = p2
    People = {p1, p2}
    Roles = {0, 1, 2}
    EventContents = {1, 2, 3}
    Meetings <- MCMeetings
    Slots = {0, 1, 2, 3, 4}
    Edits <- MCEdits
    PageSize = 2
    MaxCalls = 3
    Missing = Missing
    FoundMails <- MCFoundMails
    Results <- MCResults
    Filters <- MCFilters
    Conversations <- MCConversations
    Readings <- MCReadings
    Empty = Empty
    Malformed = Malformed
    OfferedPolicies <- MCPolicies
    Commands = {c1, c2}
    Settings = {s1, s2}
    Passwords = {w1, w2}
    MaxKeys = 3
    Absent = Absent
    NoField = NoField
    NoBody = NoBody
    Garbled = Garbled
    Codes <- MCCodes
    StatusNumbers <- MCStatusNumbers
    Messages <- MCMessages
    Moments = {1, 2, 3, 4}
    Observations <- AlteredTwice
    Unstated = Unstated
    Blank = Blank
    Excessive = Excessive
    RetentionHours = 2
    UserData = {1, 2}
    Owners = {a1, a2}
    Tokens = {1, 2, 3}
    Horizon = 3
SYMMETRY Symmetry
INVARIANTS
    
    SplitsKeepTheSeries
    SchedulesAreExact
    PeopleAreTold
    SearchIsHonest
    CalendarsAreExact
    PoliciesAreHonoured
    SetUpIsSound
    WritesAreJudgedTruly
    
CHECK_DEADLOCK FALSE
