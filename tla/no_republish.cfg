CONSTANTS
    joined = joined
    ended = ended
    lease = lease
    NoEvent = NoEvent
    Events <- LeaseEvents
    Entities <- LeaseEntities
    EntityOf <- LeaseEntityOf
    Cause <- LeaseCause
    Relays = {r1, r2}
    BatchSize = 1
    MaxAttempts = 2
    MaxRollbacks = 1
    MaxRestarts = 0
SPECIFICATION Spec
PROPERTIES
    NoRepublish
CHECK_DEADLOCK FALSE
