\* Two wanted runs, two mishaps (a restart is one), a ghost that runs back in.
CONSTANTS
    Members <- MCMembers
    Leader = "lead"
    Wanted = 2
    MaxMishaps = 2
    MaxReturns = 1
SPECIFICATION FairSpec
INVARIANTS
    TypeOK
    ClearCountedOnce
PROPERTIES
    RecoveryComesFirst
    CampaignFinishes
CHECK_DEADLOCK FALSE
