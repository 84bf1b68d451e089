CONSTANTS
    HgSources = {h1}
    DlSources = {}
    Contents = {a, b}
    Empty = Empty
    ErrorReport = ErrorReport
    NoReport = NoReport
    NoSource = NoSource
    Oneshot = FALSE
    Async = TRUE
    Lossy = TRUE
    ThrottleForever = FALSE
    Interval = 1
    MaxPuts = 3
    MaxFaults = 2
    MaxReloads = 0
CHECK_DEADLOCK FALSE
SPECIFICATION Spec
PROPERTY DuplicateIsRecorded
