\* Two replicas and two messages of one room; the lease lasts two ticks.
CONSTANTS
    None = None
    Replicas = {a, b}
    Rooms = {x}
    Users = {alice, bob}
    MaxMessages = 2
    MaxSessions = 2
    MaxMishaps = 1
    LeaseTicks = 2
    MaxAge = 0
    Window = 0
SPECIFICATION FairSpec
INVARIANTS ChatTypeOK HandledOnce RoomSessionOwned OneLateResponse CollectorHasTurn
PROPERTIES LeaseKept WaiterLeads TakenUnknowingly
