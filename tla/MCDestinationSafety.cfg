CONSTANTS
    HgSources = {h1, h2}
    DlSources = {d1}
    Contents = {a, b}
    Empty = Empty
    ErrorReport = ErrorReport
    NoReport = NoReport
    NoSource = NoSource
    Oneshot = FALSE
    Async = TRUE
    Lossy = TRUE
    ThrottleForever = FALSE
    Interval = 1
    MaxPuts = 2
    MaxFaults = 1
    MaxReloads = 1
CHECK_DEADLOCK FALSE
SYMMETRY Symmetry
SPECIFICATION Spec
INVARIANTS IInv Coherent SingleFlight
PROPERTY Delivers
