CONSTANTS
    Tokens = {"r", "a", "b", "c", ":"}
    Graphs <- MCGraphs
    RootKeys <- MCRootKeys
    RootDags <- SameKeyDags
    Triggers = {somebody}
    Nobody = nobody
    MaxDepth = 2
    MaxTries = 2
    MaxResumes = 1
    MaxTurns = 1
SPECIFICATION Spec
INVARIANTS
    ChildIsItsOwn
CHECK_DEADLOCK FALSE
