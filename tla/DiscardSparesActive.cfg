\* A documented property the code does not keep.
CONSTANTS
    None = None
    Calls = {c1, c2}
    Definitions = {d1, d2}
    Reserved = {}
    Labels = {l1}
    Contents = {x}
    MaxRows = 1
    MaxWrites = 1
    Users = {alice}
    Mxids = {m1}
    MaxCodes = 1
    MaxLiveCodes = 1
    AttemptLimit = 1
    Groups = {g1}
    Subjects = {s1}
    Declarations = {}
    MaxIds = 1
    Holders = {s1}
    Secrets = {v1}
    MaxTokens = 1
    Processes = {p1}
    MaxLogins = 1
    MaxRotations = 0
SPECIFICATION Spec
CHECK_DEADLOCK FALSE
PROPERTY DiscardSparesActive
