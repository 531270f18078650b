SPECIFICATION Spec
CONSTANTS
    WakeRequests <- MCWakeRequests
    WakeSources = {"a"}
    WakeMethods = {"wake-on-lan"}
    WakeMaxLife = 3
    WakeRoutes <- MCWakeRoutes
    WakeWindow = 3
    WakeBudget = 2
    WakeCooldown = 2
    WakeCache = 2
    WakeSkew = 1
    WakeEnd = 3
    SlSensors = {"s1", "s2"}
    SlCapabilities = {"c1", "c2"}
    SlEvents <- MCSlEvents
    SlSubscribers <- MCSlSubscribers
    SlMaxSessions = 1
    SlMaxPending = 1
    SlStarts = 2
    SlMessages = 3
    RcCalls = {"c1", "c2", "c3", "c4"}
    RcId <- MCRcId
    RcForeign = {"c4"}
    RcLarge = {"c3"}
    RcRetries = 1
    RcCacheSize = 1
    RcBacklog = 1
    RcStarts = 2
    MpPackages = {"a", "b"}
    MpImages = {"a1", "a2", "a3", "b1"}
    MpManifest <- MCMpManifest
    MpServices = {}
    MpBudget = 3
    MpWork = 1
    MpWrites = 2
    MpLoads = 2
    MpChanges = 1
    BsModules = {"cam", "gnss"}
    BsDetails = {"d1"}
    BsThreshold = 1
    BsMaxModules = 2
    BsClockMax = 2
    BsEvents = 2
    BsFaults = 1
    BsBoots = 1
    CfMaxAge = 1
    CfFuture = 1
    CfEnd = 1
    CfWrites = 2
    SnConfigs <- MCSnConfigs
    SnStaleAfter = 1
    SnThreshold = 2
    SnLongReasons = {"open"}
    SnBoots = 2
    SnSeqs = 2
    SnEvents = 2
    SnClock = 1
    AuDispatches = {"d1", "d2"}
    AuEvents <- MCAuEvents
    AuRoutes <- MCAuRoutes
    AuMaxText = 2
    AuFaults = 2
    IcIncidents = {"i1", "i2"}
    IcProposals <- MCIcProposals
    IcRequests = {"r1"}
    IcPolicyFile <- MCIcPolicyFile
    IcSessions <- MCIcSessions
    IcEdits = 2
    IcCalls = 1
    RbModules <- MCRbModules
    RbInputs <- MCRbInputs
    RbLaunches = 2
    RbFaults = 2
INVARIANTS ComponentsTypeOK
    WakeSound SensorSound RcSound MpSound BsMerged CfTrueFrame SnTold AuSound
    IcSound RbSound
CHECK_DEADLOCK FALSE
