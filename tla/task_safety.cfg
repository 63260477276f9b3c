CONSTANTS
    w1 = w1
    w2 = w2
    t1 = t1
    t2 = t2
    i1 = i1
    Runners = {w1, w2}
    Reliable = {}
    Tasks = {t1, t2}
    Observations = {t1}
    Verifications = {t2}
    Incidents = {i1}
    NoRunner = NoRunner
    NoTask = NoTask
    IncidentOf <- OneIncident
    AssignedTo <- VerifierAssigned
    RunnerLease = 1
    TaskLease = 1
    MaxAttempts <- SingleObservation
    MaxSent = 1
SPECIFICATION Spec
INVARIANTS
    
    ResultIsOfLastAttempt
    FailedTaskHadItsAttempts
    
    
PROPERTIES
    ImplementsTaskLifecycle
