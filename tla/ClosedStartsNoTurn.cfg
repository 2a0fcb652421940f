\* A documented property the code does not keep.
CONSTANTS
    Sessions = {s1}
    Receivers = {}
    Capacity = 1
    Calls = {c1, c2}
    Subjects = {alice}
    Admins = {}
    Contexts = {x1}
    Entries = {e1, e2}
    MaxOpen = 1
    Idling = {}
    Expiring = {}
    None = None
SPECIFICATION Spec
SYMMETRY Symmetry
PROPERTY ClosedStartsNoTurn
