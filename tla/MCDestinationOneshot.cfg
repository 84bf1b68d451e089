CONSTANTS
    HgSources = {h1, h2}
    DlSources = {d1}
    Contents = {a, b}
    Empty = Empty
    ErrorReport = ErrorReport
    NoReport = NoReport
    NoSource = NoSource
    Oneshot = TRUE
    Async = FALSE
    Lossy = TRUE
    ThrottleForever = FALSE
    Interval = 2
    MaxPuts = 0
    MaxFaults = 1
    MaxReloads = 0
CHECK_DEADLOCK FALSE
SPECIFICATION FairSpec
INVARIANT OneshotDelivers
PROPERTY OneshotWithReportEnds
