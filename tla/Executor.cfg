SPECIFICATION FairExecutor
CONSTANTS
    Modes = {"daemon", "oneshot", "print"}
    NVirts = 1
    NDests = 2
    SelfStopping = TRUE
    MaxHups = 2
    MaxTerms = 1
    MaxSignals = 2
INVARIANTS ExecutorInv OneGeneration SentinelLast EndsForAReason VirtsFirst
PROPERTIES TermEnds ReloadServes
CHECK_DEADLOCK FALSE
