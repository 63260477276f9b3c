CONSTANTS
    w1 = w1
    w2 = w2
    Worker = {w1}
    MaxRuns = 2
    Graphs = {"graph-v2"}
    MaxIterations = 1
    NoProgressLimit = 1
    RequestLimit = 4
    CallLimit = 1
    MaxFaults = 0
SPECIFICATION RunSpec
INVARIANT
    OneActiveRun
CHECK_DEADLOCK FALSE
