SPECIFICATION FairErrands
CONSTANTS
    Members <- MCMembers
    Skilled <- MCSkilled
    First0 = "head"
    Wishes <- MCWishes
    Loads <- MCLoads
    LearnTries = 2
    MaxRuns = 1
    MaxMishaps = 1
INVARIANTS
    ErrandsTypeOK
PROPERTIES
    StopRunsDown
    CampaignGoesOn
CHECK_DEADLOCK FALSE
