SPECIFICATION FairSpec
CONSTANTS
    n1 = n1  n2 = n2
    Works = {2}
    Nodes = {n1, n2}
    MaxTasks <- MCMaxTasks
    Mode <- MCModeOne
    Tasks = {0}
    Important = {TRUE, FALSE}
    Unreliable = FALSE
    LeaseTime = 1
    HeartbeatAge = 1
    MaxNow = 1
    NoNode = NoNode  NoLease = NoLease  NoResult = NoResult
PROPERTY InterruptedRecorded
