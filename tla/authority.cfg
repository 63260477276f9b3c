CONSTANTS
    alice = alice
    bob = bob
    Rule = {1}
    Contents <- RuleContents
    Capability = {"restart"}
    Parameter = {"p", "q"}
    User = {alice, bob}
    NodeKey = {"node"}
    MaxReading = 1
    MaxDecisions = 2
    MaxActions = 2
    MaxChanges = 1
    Target = {1, 2}
    Person = {"carol", "dan"}
    Executor = {"r1", "r2"}
    Completion = {"c1", "c2"}
    MaxEvents = 2
    Alert = {"a1", "a2"}
    Operator = {"op"}
    MaxIncidents = 2
    MaxVersion = 3
    Agent = {"agent"}
    MaxPlans = 2
    MaxSteps = 2
    MaxMoves = 3
    Evidence = {"e1", "e2"}
    Client = {"x", "y"}
    MaxHypotheses = 1
    MaxUpdates = 3
    w1 = w1
    w2 = w2
    Worker = {w1, w2}
    MaxRuns = 1
    Graphs = {"graph-v2"}
    MaxIterations = 2
    NoProgressLimit = 2
    RequestLimit = 4
    CallLimit = 1
    MaxFaults = 1
SPECIFICATION Spec
SYMMETRY People
INVARIANTS
    RunIsConsistent
PROPERTIES
    RecoveryFollowsGraph
    
    CompensationKeepsResource
    AlertsAreAccountedFor
    PlansAreFollowed
    FindingsAreKept
CHECK_DEADLOCK FALSE
