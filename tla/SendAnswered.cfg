\* A documented property the code does not keep.
CONSTANTS
    Sessions = {s1}
    Receivers = {r1}
    Capacity = 2
    Calls = {c1}
    Subjects = {alice}
    Admins = {}
    Contexts = {x1}
    Entries = {e1}
    MaxOpen = 1
    Idling = {}
    Expiring = {}
    None = None
SPECIFICATION Spec
PROPERTY SendAnswered
