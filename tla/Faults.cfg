SPECIFICATION Spec
CONSTANTS
  e1 = e1
  w1 = w1
  w2 = w2
  p1 = p1
  p2 = p2
  Endpoint <- OneEndpoint
  EndpointOf <- OneDelivery
  Worker <- TwoWorkers
  Process <- TwoProcesses
  ProcessOf <- Apart
  MaxAttempts = 3
  UintMax = 7
  Failure = {"error_response"}
  Fault = {"body", "enqueue", "load", "read"}
  PanicOutcome = {"recovered", "fatal"}
  DelayOutlivesTx = FALSE
  Horizon = 4
  MaxCrashes = 1
INVARIANTS IInv AccountBalances OneOpenAttempt
PROPERTY LedgerSpec
CHECK_DEADLOCK FALSE
