\* Rules stop asking without saying so.
CONSTANTS
    Callers <- MCFairRules
    Targets = {m1}
    NoTarget = notarget
    Nobody = nobody
    Dwell = 2
    Stale = 1
    OperatorStale = 2
    MarkGrace = 1
    PickTime = 1
    PickKinds <- MCNone
    MaxChanges = 0
    Forgetful <- MCForgetful
SPECIFICATION FairSpec
PROPERTIES
    ExecutorsFollowTheBook
    LeaderComesBack
