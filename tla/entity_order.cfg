CONSTANTS
    joined = joined
    ended = ended
    lease = lease
    NoEvent = NoEvent
    Events <- LeaseEvents
    Entities <- LeaseEntities
    EntityOf <- LeaseEntityOf
    Cause <- LeaseCause
    Relays = {r1}
    BatchSize = 2
    MaxAttempts = 2
    MaxRollbacks = 0
    MaxRestarts = 0
SPECIFICATION Spec
INVARIANTS
    EntityOrder
CHECK_DEADLOCK FALSE
