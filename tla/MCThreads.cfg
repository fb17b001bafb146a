SPECIFICATION MCSpec
CONSTANTS
    Requests <- MCRequests
    Gains = {0, 200, 201}
    MaxMessages = 2
    MaxPackets = 2
    MaxLost = 2
    Capacity = 3
    PacketFrames = 2
    Sequences = 2
    Timestamps = 3
    MaxDecoded = 2
    MaxBurst = 5
    MaxReceived = 5
    MaxCaptured = 9
INVARIANTS
    RefusalClean
    DevicesBound
    TelemetryCountsEveryLeg
    LatencyBudget
    SwitchIsTrue
    StaysListed
    AnswerTells
    NewestKept
    PacketsTile
PROPERTIES
    Implements
    DeviceReleased
    StopReturns
    NeighbourFound
    MethodReturns
CHECK_DEADLOCK FALSE
