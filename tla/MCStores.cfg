SPECIFICATION MCSpec
CONSTANTS
    a = a
    b = b
    p1 = p1
    p2 = p2
    p3 = p3
    EmptyId = EmptyId
    NodeIds = {a, b}
    PortIds = {p1, p2, p3}
    ConnectionIds = {c1, c2}
    NodeInputs <- MCNodeInputs
    Names = {"x", ""}
    Ids = {"p", "q"}
    MaxChanges = 3
    MaxStarts = 2
    MaximumEntries = 2
    MaxEntries = 4
    MaxRequests = 2
    MaxRestarts = 1
    Hardware <- MCHardware
    Nothing = Nothing
    MaxMoves = 2
    MaxLinks = 3
    MaxSinks = 2
    Nodes = {n1, n2}
    NoCall = NoCall
    PortRange = 3
    Failures = {"start", "lose"}
    MaxSources = 2
    MaxId = 2
    MaxPosts = 2
INVARIANTS
    TypeOK
    PortsGloballyUnique
    ConnectionsJoinPorts
    RestartRestores
    PeersAreWhole
    NothingSkipped
    EachEndpointOnce
    NoFeedback
    MatrixKeepsLinks
    MixerPortsDiffer
PROPERTIES
    LossIsExplained
    LegsAreGranted
    CallsReturn
CHECK_DEADLOCK FALSE
