SPECIFICATION AlSpec
CONSTANTS
    AlActive = 1
    AlCritical = 2
    AlWorlds <- Worlds
    AlQuiet <- Quiet
    AlWait <- Waits
    AlForget = 1
    AlBreaks <- Breaks
    AlEdits <- Edits
    AlSilences <- SilenceSet
    AlRequests = {r1, r2}
    AlMaxTime = 4
    AlMaxRounds = 3
    AlMaxWrites = 2
INVARIANT SilenceKept
CHECK_DEADLOCK FALSE
