SPECIFICATION Spec
CONSTANTS
  e1 = e1
  w1 = w1
  w2 = w2
  p1 = p1
  p2 = p2
  Endpoint <- OneEndpoint
  EndpointOf <- SameEndpoint
  Worker <- TwoWorkers
  Process <- OneProcess
  ProcessOf <- Together
  MaxAttempts = 2
  UintMax = 7
  Failure = {"error_response"}
  Fault = {}
  PanicOutcome = {"recovered"}
  DelayOutlivesTx = TRUE
  Horizon = 2
  MaxCrashes = 0
PROPERTY DisabledIsQuiet
CHECK_DEADLOCK FALSE
