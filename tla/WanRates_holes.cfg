SPECIFICATION WnSpec
CONSTANTS
    WnInterfaces <- Interfaces
    WnConfigured = none
    WnCandidates = {"wan"}
    WnNone = none
    WnMaxOctets = 2
    WnMaxRounds = 3
INVARIANT WanHolesShown
CHECK_DEADLOCK FALSE
