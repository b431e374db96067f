\* What the swap of the guild warlock promises, as the code has it.
CONSTANTS
    Family <- MCFamily
    Leader = "lead"
    Guest = "guest"
    Warlocks <- MCWarlocks
    Tries = 2
    Nobody = "nobody"
    MaxFailures = 1
    MaxQueue = 2
    MaxMishaps = 1
SPECIFICATION Spec
INVARIANTS
    GuestLeaves
CHECK_DEADLOCK FALSE
