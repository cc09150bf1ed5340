SPECIFICATION Spec
CONSTANTS
    Char <- Characters
    Operator <- Operators
    Answer <- Answers
    Type <- SiblingTypes
    Subscription <- SiblingTypes
INVARIANT OnlyWanted
