SPECIFICATION Spec
CONSTANTS
    Rows = {r1, r2}
    Items = {a, b, c}
    NoRow = NoRow
    NoItem = NoItem
    MaxDust = 3
    MaxFaults = 2
INVARIANTS
    TypeOK
    OnePiecePerOrder
    AnswersAreEarned
    NoProofIsOrphaned
PROPERTIES
    CancelledStopsBlocking
CHECK_DEADLOCK FALSE
