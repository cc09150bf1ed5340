SPECIFICATION Spec
CONSTANTS
    Char <- Characters
    Operator <- Operators
    Answer <- Answers
    Type <- ShortTypes
    Subscription <- ShortSubscriptions
INVARIANTS NoEventMissed FirstSegmentDecides
