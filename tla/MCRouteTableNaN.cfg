SPECIFICATION Spec
CONSTANTS
    Profiles = {low}
    NoProfile = NoProfile
    NaN = NaN
    GainInputs = {0, 201, NaN}
    MaxInputs = 2
    MaxRoutes = 2
INVARIANT GainsInRange
