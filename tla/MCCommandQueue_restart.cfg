\* One worldserver that may be restarted once: every command is answered.
CONSTANTS
    NRows = 3
    Servers = {s1}
    Tokens = {t1, t2}
    NoToken = none
    PerPoll = 2
    MaxAge = 2
    Lease = 1
    Grace = 1
    Ceiling = 2
    KeyOf <- MCKeyOf3
    NoKey = nokey
    Answers <- MCAnswers
    ReadBacks <- MCApplied
    MaxBacklog = 0
    MaxFaults = 0
SPECIFICATION FairSpec
INVARIANTS
    OneOrderPerTrigger
PROPERTIES
    LeaseSparesLivingRun
    EveryRowEnds
CHECK_DEADLOCK FALSE
