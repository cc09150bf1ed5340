SPECIFICATION Spec
CONSTANTS
    e1 = e1
    m1 = m1
    w1 = w1
    w2 = w2
    pm = pm
    pd = pd
    PriorityOf <- SecondFirst
    Endpoint <- OneEndpoint
    EndpointOf <- Deliveries
    Subscription = {"*", "refund"}
    Listening <- AllOrOne
    EventTypeOf <- TwoTypes
    Matches <- Selected
    Mapper <- OneMapper
    MapperProcess = {pm}
    MapperProcessOf <- MapperPlace
    Worker <- TwoWorkers
    Process = {pd}
    ProcessOf <- TwoPlaces
    MaxAttempts = 2
    UintMax = 7
    Failure = {"error_response"}
    Horizon = 3
    MaxCrashes = 0
INVARIANT PostedInOrder
