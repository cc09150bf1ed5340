SPECIFICATION Spec
CONSTANTS
    e1 = e1
    e2 = e2
    w1 = w1
    w2 = w2
    p1 = p1
    p2 = p2
    Endpoint <- TwoEndpoints
    Subscription <- Subscriptions
    Listening <- Single
    EventTypeOf <- TwoEvents
    Matches <- BySearch
    Worker <- TwoWorkers
    Process <- TwoProcesses
    ProcessOf <- Apart
    MaxFailures = 1
    MaxCrashes = 0
SYMMETRY Interchangeable
INVARIANTS TypeOK JobsNameTheirAttempt NoStranger HandedOver
CHECK_DEADLOCK FALSE
