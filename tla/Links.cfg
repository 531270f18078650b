SPECIFICATION LinksSpec
CONSTANTS
    w1 = w1  w2 = w2  w3 = w3  w4 = w4
    Works = {w1, w2, w3, w4}
    Fit = {w1, w2, w3}
    MaxTasks = 2
    NoWork = NoWork
    LcPeers = {"n1"}
    LcNode = "n1"
    LcBeats = 2
    LcFaults = 1
    SpModules = {"m"}
    SpPrints = {"p", "q"}
    SpForeign <- MCSpForeign
    SpWindow = 2
    SpMaxPending = 1
    SpExponent = 2
    SpMaxDelay = 3
    SpUptime = 2
    SpRows = 2
    SpReboots = 1
    AdTags = {"t1", "t2"}
    AdStaleAfter = 1
    AdRepeat = 2
    AdFailures = 2
    AdFaults = 2
    AdClock = 1
INVARIANTS TypeOK HandlerOnce RunRecorded RunInv ActiveAgrees
    LinksTypeOK LcAgree SpSound AdSound
PROPERTIES LcEnds SpSettles
SYMMETRY FitWorks
