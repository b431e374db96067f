\* One failed attempt, one mishap, two summons per member.
CONSTANTS
    Family <- MCFamily
    Leader = "lead"
    Guest = "guest"
    Warlocks <- MCWarlocks
    Tries = 2
    Nobody = "nobody"
    MaxFailures = 1
    MaxQueue = 2
    MaxMishaps = 1
SPECIFICATION FairSpec
INVARIANTS
    TypeOK
    PartyIsTheFamily
PROPERTIES
    RecoveryEnds
CHECK_DEADLOCK FALSE
