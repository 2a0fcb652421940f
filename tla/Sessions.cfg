\* Two calls at once on one session, with idle entries swept and old rows purged.
CONSTANTS
    Sessions = {s1}
    Receivers = {}
    Capacity = 1
    Calls = {c1, c2}
    Subjects = {alice}
    Admins = {}
    Contexts = {x1}
    Entries = {e1, e2}
    MaxOpen = 1
    Idling = {s1}
    Expiring = {s1}
    None = None
SPECIFICATION FairSpec
INVARIANTS TypeOK OneTurn SignalSurvives EntryOfOneTurn
PROPERTIES SweepSparesTurns ContextImmutable AskedTurnEnds
