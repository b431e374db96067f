SPECIFICATION Spec
CONSTANTS
    Chars = {x, y}
    Items = {bag, cloth}
    Bags = {bag}
    Stacks = {cloth}
    Gear = {}
    NoOne = NoOne
    NoItem = NoItem
    MaxOrders = 2
    MaxFaults = 2
INVARIANTS
    TypeOK
    AnswersAreTrue
PROPERTIES
    KeptIsNotLost
SYMMETRY Perms
CHECK_DEADLOCK FALSE
