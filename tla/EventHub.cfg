\* Two sessions, two subscriptions, a channel of one event: every emission a
\* subscriber did not read in time makes it lag.
CONSTANTS
    Sessions = {s1, s2}
    Receivers = {r1, r2}
    Capacity = 1
    MaxEvents = 2
    None = None
SPECIFICATION FairSpec
INVARIANT HubSound
PROPERTIES  CutIsNoticed
