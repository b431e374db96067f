\* A follower's column: bridge, operator, owners and the travel drive.
CONSTANTS
    repair = repair
    spot = spot
    rift = rift
    post = post
    trainer = trainer
    Counters = {repair}
    Points = {spot, rift}
    Guards = {post}
    Named = {trainer}
    Empty = empty
    NoOwner = noowner
    PlaceOf <- MCPlaceOf
    Unreachable = {rift}
    Wants <- MCWants
    Leads = FALSE
    Ceiling = 2
    Grace = 1
    Refusals = 2
    MinAge = 1
    Gap = 1
    MaxQueued = 2
    MaxOrders = 3
    MaxRestarts = 1
SPECIFICATION FairSpec
INVARIANTS
    TypeOK
PROPERTIES
    ForeignErrandStands
    ClaimedWalkEnds
    ColumnIsNotBlocked
