SPECIFICATION FairSpec
CONSTANTS
    Profiles = {low}
    NoProfile = NoProfile
    NaN = NaN
    GainInputs = {}
    MaxInputs = 1
    MaxRoutes = 2
PROPERTY IdleIsReported
