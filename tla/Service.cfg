SPECIFICATION Spec
CONSTANTS
    Nil = Nil
    Malformed = Malformed
    c1 = c1
    c2 = c2
    Uri <- Texts
    Bracketed <- Brackets
    Numeral <- Sevens
    Call <- Calls
    Command <- Commands
    RawRequest <- ByHand
    ApiKey <- Generated
    EndpointId = {"we1", "we2"}
    Registered <- Old
    FirstKey <- First
    MaxFailures = 1
    MaxCrashes = 1
SYMMETRY Interchangeable
INVARIANTS TypeOK OnlyAcceptedWrite AcceptedIsQueued QueuedInOrder FieldsKept SecretsKept ClientTakesReplies SameChecks
CHECK_DEADLOCK FALSE
