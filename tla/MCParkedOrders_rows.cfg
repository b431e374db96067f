SPECIFICATION Spec
CONSTANTS
    Slots <- TwoSlots
    Verbs <- AllVerbs
    Drives <- AllDrives
    Ceiling = 2
    CastTime = 2
    SettleTime = 1
    WalkTime = 1
    RouteTime = 3
    FightTime = 1
    MaxOrders = 2
    MaxHolds = 1
INVARIANTS
    TypeOK
PROPERTIES
    DebtsStayRecorded
    OwnersKeepTheirHold
    EveryOrderEnds
CHECK_DEADLOCK FALSE
