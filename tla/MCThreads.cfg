SPECIFICATION ThreadsSpec
CONSTANTS
    Kinds = {"satellite", "esx", "libvirt", "ahv", "hyperv", "kubevirt"}
    SatSources = {"a"}
    SatHosts = {"x", "y"}
    SatGuests = {"g1", "g2"}
    SatMappings <- Pairs
    OtherReport = OtherReport
    Nothing = Nothing
    Torn = Torn
    MaxSatReports = 2
    MaxSatFaults = 1
    MaxSatStarts = 2
    h1 = h1
    c1 = c1
    v1 = v1
    n1 = n1
    p1 = p1
    EsxHosts = {h1}
    EsxVms = {v1}
    EsxClusters = {c1}
    ClusterNames = {n1}
    ExcludedParents = {}
    FilterParents = {}
    PowerStates = {p1}
    Worlds <- OneGuest
    NoReport = NoReport
    ErrorReport = ErrorReport
    Gone = Gone
    Bare = Bare
    Truncates = TRUE
    EsxModes = {TRUE, FALSE}
    MaxEsxChanges = 1
    MaxEsxFaults = 2
    Domains = {"d"}
    LvModes = {TRUE, FALSE}
    NoDomains = NoDomains
    LvError = LvError
    MaxLvChanges = 1
    MaxLvFaults = 1
    AhvHosts = {"h"}
    AhvVms = {1, 2}
    PageSize = 1
    AhvRetries = 2
    AhvVersions = {2, 3}
    AhvModes = {FALSE}
    AhvNothing = AhvNothing
    AhvError = AhvError
    AhvStatus = AhvStatus
    MaxAhvChanges = 1
    MaxAhvFaults = 2
    HvGuests = {"g"}
    HvStates = {"on", "down"}
    HvServers = {{"old"}, {"new"}, {"old", "new"}}
    HvModes = {FALSE, TRUE}
    Unstated = Unstated
    HvAbsent = HvAbsent
    HvNothing = HvNothing
    HvError = HvError
    MaxHvChanges = 1
    MaxHvFaults = 2
    KvNodes = {"n1", "n2"}
    KvVms = {"w1"}
    KvModes = {FALSE}
    Configured = FALSE
    KvNothing = KvNothing
    KvError = KvError
    MaxKvChanges = 2
    MaxKvFaults = 1
INVARIANTS SatInv Remembered OneSystem EsxInv LoggedOut LvInv AhvInv PollersInv
PROPERTIES Settles5 EsxConverges LvConverges PollersConverge ThreadsStop
CHECK_DEADLOCK FALSE
