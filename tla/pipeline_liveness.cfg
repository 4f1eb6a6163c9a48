CONSTANTS
    joined = joined
    ended = ended
    lease = lease
    NoEvent = NoEvent
    Events <- LeaseEvents
    Entities <- LeaseEntities
    EntityOf <- LeaseEntityOf
    Cause <- LeaseCause
    Relays = {r1}
    BatchSize = 1
    MaxAttempts = 2
    MaxRollbacks = 2
    MaxRestarts = 1
SPECIFICATION FairSpec
INVARIANTS
    OrderUntilFailure
PROPERTIES
    EveryEventSettles
    EveryEventAudited
CHECK_DEADLOCK FALSE
