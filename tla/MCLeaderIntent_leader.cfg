\* Quest drive, regroup, errands and the run compete for one leader.
CONSTANTS
    Callers <- MCLeaderRules
    Targets = {m1}
    NoTarget = notarget
    Nobody = nobody
    Dwell = 2
    Stale = 1
    OperatorStale = 2
    MarkGrace = 1
    PickTime = 1
    PickKinds <- MCPicksQuest
    MaxChanges = 1
    Forgetful <- MCNone
SPECIFICATION Spec
INVARIANTS
    TypeOK
    RunWaitsForNobody
PROPERTIES
    DwellKept
    CooldownHolds
