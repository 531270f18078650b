SPECIFICATION DistributedSpec
CONSTANTS
    n1 = n1  n2 = n2
    Works = {1, 2}
    Nodes = {n1, n2}
    MaxTasks <- MCMaxTasks
    Mode <- MCMode
    Tasks = {0}
    Important = {FALSE}
    Unreliable = TRUE
    LeaseTime = 1
    HeartbeatAge = 1
    MaxNow = 1
    NoNode = NoNode  NoLease = NoLease  NoResult = NoResult
    RpWorks = {"w1", "w2"}
    RpNodes = {"n1", "n2"}
    RpLocal = "n1"
    RpNeed <- MCRpNeed
    RpAmounts = {2}
    RpMaxAge = 1
    RpLeaseTime = 1
    RpSkew = 0
    RpEnd = 1
    RpAdverts = 1
INVARIANTS TypeOK LeaseBacked CapacityRespected AcceptanceRevoked RpSound
