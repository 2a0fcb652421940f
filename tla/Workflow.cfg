CONSTANTS
    Tokens = {"r", "a", "b", "c", ":"}
    Graphs <- MCGraphs
    RootKeys <- MCRootKeys
    RootDags <- MCRootDags
    Triggers = {nobody, somebody}
    Nobody = nobody
    MaxDepth = 2
    MaxTries = 2
    MaxResumes = 1
    MaxTurns = 2
SPECIFICATION Spec
INVARIANTS
    WorkflowTypeOK
    RejectsTheUnwalkable
    NeverAnEmptyLayer
    MessageOnce
    DoneAllTheWayDown
    BoundedAndForTheTrigger
PROPERTIES
    AgentNeverStartsOver
    KeepsItsPromise
    EveryRunEnds
CHECK_DEADLOCK FALSE
