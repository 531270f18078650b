SPECIFICATION Spec
CONSTANTS
    n1 = n1  n2 = n2
    Works = {1, 2}
    Nodes = {n1, n2}
    MaxTasks <- MCMaxTasks
    Mode <- MCMode
    Tasks = {0}
    Important = {TRUE, FALSE}
    Unreliable = FALSE
    LeaseTime = 1
    HeartbeatAge = 1
    MaxNow = 1
    NoNode = NoNode  NoLease = NoLease  NoResult = NoResult
INVARIANT AcceptedByHolder
