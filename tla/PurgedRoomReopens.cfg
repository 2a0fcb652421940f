\* A text in a room whose session the retention has removed.
CONSTANTS
    None = None
    Replicas = {a, b}
    Rooms = {x}
    Users = {alice, bob}
    MaxMessages = 2
    MaxSessions = 2
    MaxMishaps = 1
    LeaseTicks = 2
    MaxAge = 0
    Window = 0
SPECIFICATION Spec
INVARIANT PurgedRoomReopens

