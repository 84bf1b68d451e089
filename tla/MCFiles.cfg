SPECIFICATION FilesSpec
CONSTANTS
    daemon = daemon
    helper = helper
    t1 = t1
    t2 = t2
    t3 = t3
    k1 = k1
    k2 = k2
    Processes <- MCProcesses
    StatusRuns = {helper}
    Threads <- MCThreads
    ProcessOf <- MCProcessOf
    Keys <- MCKeys
    KeysOf <- MCKeysOf
    Values = {v1, v2}
    JobLess = {v2}
    NoValue = NoValue
    NoEntry = NoEntry
    Blank = Blank
    Missing = Missing
    Nobody = Nobody
    MaxRecords = 2
    MaxKills = 1
    Daemons = {d1, d2}
    Helpers = {h1}
    ShortPids = {d1}
    NoFile = NoFile
    Unwritten = Unwritten
    Garbage = Garbage
    MaxStarts = 2
    MaxPidKills = 1
    FilesUsed = {"pid", "run data"}
INVARIANTS
    PidInv AtMostOneDaemon NothingLeftBehind
    RInv Exclusive NothingLost StartRepairs
PROPERTY RefusedOnlyIfRunning
CHECK_DEADLOCK FALSE
