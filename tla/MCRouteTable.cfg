SPECIFICATION FairSpec
CONSTANTS
    Profiles = {low, high}
    NoProfile = NoProfile
    NaN = NaN
    GainInputs = {0, 201}
    MaxInputs = 2
    MaxRoutes = 2
INVARIANTS
    TypeOK
    OrderedIds
    EnabledMeansLive
    CopiesAgree
PROPERTIES
    Implements
    FailureNoticed
    TelemetryFollows
