SPECIFICATION FairSpec
CONSTANTS
    SegmentKind <- SegmentKinds
    Hashes <- HashSet
    PathSegments <- Paths
    Spelling <- DeviceRefs
    Majors <- Versions
    MaxNodes = 3
    Matches <- StructuralMatch
    Substituted <- ApplyPlaceholders
    Ids <- SceneIds
    NoId = NoId
    Callers <- Task
    Offered <- Operations
    MaxScenes = 4
    MaxCalls = 16
    Control = "control"
    Conns <- ConnsOf
    HashLike <- HashSet
    Roles <- RoleOf
    Invocations <- Calls
    Dirs <- Suites
    DefaultTokens <- TokenOf
    HashOf <- BundleHash
    HashKey <- BundleKey
    Zeros = "sha256:0"
    Visitor = "v"
    Sessions <- SessionsOf
    Greeting <- Hello
    Visited <- VisitedCalls
    Verdicts <- VerdictOf
INVARIANTS
    TypeOK
    VerdictIsFixed
    RejectionIsRight
    ShadowIsServer
    ExitIsHonest
PROPERTIES
    FirstFrameIsRight
    RunEnds
CHECK_DEADLOCK FALSE
