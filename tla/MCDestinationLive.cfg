CONSTANTS
    HgSources = {h1}
    DlSources = {d1}
    Contents = {a, b}
    Empty = Empty
    ErrorReport = ErrorReport
    NoReport = NoReport
    NoSource = NoSource
    Oneshot = FALSE
    Async = TRUE
    Lossy = TRUE
    ThrottleForever = FALSE
    Interval = 1
    MaxPuts = 2
    MaxFaults = 1
    MaxReloads = 0
CHECK_DEADLOCK FALSE
SPECIFICATION FairSpec
PROPERTIES Converges SubmissionSettles StopsWhenTold
