SPECIFICATION FairSpec
CONSTANTS
    e1 = e1
    w1 = w1
    w2 = w2
    p1 = p1
    p2 = p2
    Endpoint <- OneEndpoint
    EndpointOf <- OneDelivery
    Worker <- TwoWorkers
    Process <- TwoProcesses
    ProcessOf <- Apart
    MaxAttempts = 3
    UintMax = 7
    Failure = {"error_response", "error_timeout"}
    Fault = {}
    PanicOutcome = {"recovered"}
    DelayOutlivesTx = TRUE
    Horizon = 4
    MaxCrashes = 1
INVARIANTS TypeOK PostsBounded CounterCountsAttempts AttemptsKept NoLostAttempt BackoffExponent
PROPERTIES QuietOnceSettled WriteOnce Settles
CHECK_DEADLOCK FALSE
