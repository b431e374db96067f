\* Two worldservers on one database, one crash, one failed write.
CONSTANTS
    NRows = 2
    Servers = {s1, s2}
    Tokens = {t1, t2}
    NoToken = none
    PerPoll = 2
    MaxAge = 2
    Lease = 1
    Grace = 1
    Ceiling = 1
    KeyOf <- MCKeyOf2
    NoKey = nokey
    Answers <- MCAnswers
    ReadBacks <- MCReadBacks
    MaxBacklog = 1
    MaxFaults = 1
SPECIFICATION Spec
SYMMETRY Interchangeable
INVARIANTS
    TypeOK
    AtMostOnce
    HeldRowIsDriven
PROPERTIES
    EndedStaysEnded
    PromiseKept
CHECK_DEADLOCK FALSE
