CONSTANTS
    joined = joined
    ended = ended
    lease = lease
    NoEvent = NoEvent
    Events <- LeaseEvents
    Entities <- LeaseEntities
    EntityOf <- LeaseEntityOf
    Cause <- LeaseCause
    Relays = {r1, r2}
    BatchSize = 2
    MaxAttempts = 2
    MaxRollbacks = 1
    MaxRestarts = 1
SPECIFICATION Spec
SYMMETRY RelaySymmetry
INVARIANTS
    PipelineTypeOK
    LogFaithful
    TicksIsolated
    DuplicatesExplained
    QuarantineAtLimit
    AuditFaithful
PROPERTIES
    SettledIsFinal
    ImplementsDelivery
CHECK_DEADLOCK FALSE
