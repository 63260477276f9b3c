CONSTANTS
    w1 = w1
    w2 = w2
    Worker = {w1, w2}
    MaxRuns = 1
    Graphs = {"graph-v2"}
    MaxIterations = 1
    NoProgressLimit = 1
    RequestLimit = 4
    CallLimit = 1
    MaxFaults = 1
SPECIFICATION FairSpec
PROPERTIES
    RunComesToRest
    
CHECK_DEADLOCK FALSE
