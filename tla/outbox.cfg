CONSTANTS
    p1 = p1
    p2 = p2
    Events = {1, 2}
    Publishers = {p1, p2}
    BatchSize = 1
    MaxAttempts = 2
    MaxCrashes = 1
    MaxReplays = 1
SPECIFICATION FairSpec
INVARIANTS
    PublishedWasReceived
PROPERTIES
    ImplementsEventDelivery
    EveryEventSettles
