SPECIFICATION Spec
CONSTANTS
    w1 = w1  w2 = w2  w3 = w3  w4 = w4
    Works = {w1, w2, w3, w4}
    Fit = {w1, w2, w3}
    MaxTasks = 2
    NoWork = NoWork
INVARIANT ScarKept
SYMMETRY FitWorks
