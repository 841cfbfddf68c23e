SPECIFICATION Spec
CONSTANTS
    h1 = h1
    Connections = {h1}
    Identities <- MCIdentities
    Paths <- MCPaths
    Values <- MCValues
    Inputs <- MCInputs
    Declarations <- MCDeclarations
    Limit = 1
    Window = 2
    MaxTime = 4
    MaxFrames = 3
    MaxDeclares = 2
INVARIANTS TypeOK RefusedLeavesNoTrace NamespacesHold DeclarationsHold TwiceTheLimit
PROPERTY RefusalIsEarned
CHECK_DEADLOCK FALSE
