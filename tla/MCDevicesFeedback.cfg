SPECIFICATION MCSpec
CONSTANTS
    a = a
    b = b
    p1 = p1
    p2 = p2
    p3 = p3
    EmptyId = EmptyId
    NodeIds = {a, b}
    PortIds = {p1, p2, p3}
    ConnectionIds = {c1, c2}
    NodeInputs <- MCNodeInputs
    Names = {"x"}
    Ids = {"p", "q"}
    MaxChanges = 1
    MaxStarts = 1
    MaximumEntries = 2
    MaxEntries = 4
    MaxRequests = 2
    MaxRestarts = 1
    Hardware <- MCHardware
    Nothing = Nothing
    MaxMoves = 2
    MaxLinks = 3
    MaxSinks = 2
    Nodes = {n1, n2}
    NoCall = NoCall
    PortRange = 1000
    Failures = {"start", "lose"}
    MaxSources = 2
    MaxId = 2
    MaxPosts = 2
INVARIANT MonitorsNeverFeedBack
CHECK_DEADLOCK FALSE
