SPECIFICATION BsSpec
CONSTANTS
    BsModules = {"cam", "gnss"}
    BsDetails = {"d1"}
    BsThreshold = 1
    BsMaxModules = 2
    BsClockMax = 2
    BsEvents = 3
    BsFaults = 1
    BsBoots = 1
INVARIANT BsFaultTold
CHECK_DEADLOCK FALSE
