SPECIFICATION Spec
CONSTANTS
    r1 = r1
    r2 = r2
    torn = torn
    Request <- TwoRequests
    Torn <- torn
    MaxSignals = 2
    Goroutine <- OneOrTwo
    MaxInterrupts = 2
    Flags <- CommandLines
    Config <- ConfigFiles
INVARIANTS TypeOK OneGoroutineStops NoneCut LoneLine
PROPERTIES WorkerStops ServerStops
CHECK_DEADLOCK FALSE
