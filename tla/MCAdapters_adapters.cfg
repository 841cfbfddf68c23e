SPECIFICATION FairSpec
CONSTANTS
    SegmentKind <- Segments
    Hashes <- HashSet
    Payloads <- Documents1
    WritesTo <- Prefix
    Flattened <- Flattening
    Period = 2
    Initial = 1
    BackoffMax = 2
    MaxTime = 7
    MaxSends = 2
INVARIANTS
    TypeOK
    RetriesSlowDown
PROPERTIES
    NoBurst
    WholeDocuments
    CancelStops
CHECK_DEADLOCK FALSE
