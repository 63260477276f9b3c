CONSTANTS
    a1 = a1
    a2 = a2
    a3 = a3
    r1 = r1
    r2 = r2
    w1 = w1
    w2 = w2
    Actions = {a1, a2}
    Resources = {r1}
    Runners = {w1}
    NoAction = NoAction
    NoRunner = NoRunner
    ResourceOf <- OneResource
    ExecutionLease = 1
    ResourceLockLease = 1
    MaxAttempts = 2
    MaxToken = 2
SPECIFICATION Spec
INVARIANT
    UnknownFreezesResource
