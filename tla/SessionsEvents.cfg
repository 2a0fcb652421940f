\* A subscriber follows the turns of a session.
CONSTANTS
    Sessions = {s1}
    Receivers = {r1}
    Capacity = 2
    Calls = {c1, c2}
    Subjects = {alice}
    Admins = {}
    Contexts = {x1}
    Entries = {e1, e2}
    MaxOpen = 1
    Idling = {}
    Expiring = {}
    None = None
SPECIFICATION Spec
SYMMETRY Symmetry
INVARIANTS TurnsNotMixed
