SPECIFICATION ReadingsSpec
CONSTANTS
    Devices = {d1}
    Services = {s1}
    Nameless = nameless
    EvDays = 2
    EvRetain = 1
    EvMaxRows = 3
    SrMaxTime = 5
    SrValues = {0, 2}
    SrBucket = 2
    SrFull = 1
    SrRetain = 3
    SrStep = 1
    SrSecond = 1
    SrPeriods = {1, 3, 5}
    SrMaxPoints = 2
    AlActive = 1
    AlCritical = 2
    AlWorlds <- Worlds
    AlQuiet <- Quiet
    AlWait <- Waits
    AlForget = 1
    AlBreaks <- Breaks
    AlEdits <- Edits
    AlSilences <- SilenceSet
    AlRequests = {r1}
    AlMaxTime = 3
    AlMaxRounds = 3
    AlMaxWrites = 2
    SpNone = none
    SpRound = 2
    SpInterval = 1
    SpMaxOctets = 2
    SpMaxTime = 2
    TpDevices = {1, 2, 3}
    TpHosts = {1, 2, 3}
    TpPorts = {1, 2}
    TpLldp <- Neighbours
    TpUnseen = 0
    RgIps = {"ip1", "ip2"}
    RgMacs = {"mac1"}
    RgNone = none
    RgCatalogues <- Catalogues
    RgMuted = {"ip2"}
    HmCollections = {c1, c2}
    HmNone = none
    HmWindow = 1
    HmMaxTime = 3
    ScBrowsers = {b1, b2}
    ScNobody = none
    ScKeys = {hash, other}
    ScHash = hash
    ScChanges <- SecretChanges
    ScTries = 1
    ScMaxValue = 2
    ScTTL = 1
    ScMaxTime = 1
    DkCollections = {c1, c2}
    DkConfigs <- DockerConfigs
    DkHere = "here"
    DkMachine <- Machine
    DkRuns <- Runs
    LsSources = {"router", "journal", "backend", "audit"}
    LsKinds <- LogKinds
    LsAsked = {0, 1}
    LsDefault = 2
    LsMost = 3
    LsKeep = 1
    LsTolerance = 1
    LsAheads = {2}
    LsMaxLines = 3
    LsMaxTime = 2
    ShCallers = {c1, c2}
    ShVersions <- HostVersions
    ShSystems = {"linux", "windows"}
    ShMaxSaves = 2
    ShMaxTicks = 1
    WnInterfaces <- Interfaces
    WnConfigured = none
    WnCandidates = {"wan"}
    WnNone = none
    WnMaxOctets = 1
    WnMaxRounds = 4
INVARIANT ReadingsTypeOK
INVARIANT SeriesHonest
INVARIANT SinceIsEpisode
INVARIANT ListedRight
INVARIANT RateHonest
INVARIANT WanHonest
INVARIANT TopologyForest
INVARIANT DevicesExact
INVARIANT WindowHonest
INVARIANT DockerHonest
INVARIANT StreamHonest
INVARIANT HostsCurrent
PROPERTY SecretsKept
PROPERTY EventsTell
CHECK_DEADLOCK FALSE
