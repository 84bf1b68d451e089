SPECIFICATION FairExecutor
CONSTANTS
    Modes = {"daemon"}
    NVirts = 1
    NDests = 2
    SelfStopping = TRUE
    MaxHups = 2
    MaxTerms = 0
    MaxSignals = 2
PROPERTIES RunsAgain
CHECK_DEADLOCK FALSE
