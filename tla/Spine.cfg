SPECIFICATION FairSpec
CONSTANTS
    c1 = c1  c2 = c2  c3 = c3  p1 = p1  p2 = p2
    drive = drive  steer = steer  refused = refused  ungated = ungated
    misbound = misbound  unknown = unknown  astray = astray  malformed = malformed
    Calls = {c1, c2}
    Procs = {p1, p2}
    ProcOf <- TwoProcs
    Intents = {drive, refused, ungated, misbound, unknown, astray, malformed}
    Request <- MCRequest
    Executors <- MCExecutors
    Spec_ <- MCSpec
    Gates <- MCGates
    AnyTarget = "*"
    Resources = {"can-bus", "steering"}
    NoOwner = NoOwner  NoToken = NoToken  NoCall = NoCall
    Ttl = 1
    MaxNow = 1
INVARIANTS TypeOK TokenInv AtMostOnce HandlerGuarded HonestOutcome
PROPERTIES TornFailsClosed PromiseSpec CallsEnd
CHECK_DEADLOCK FALSE
