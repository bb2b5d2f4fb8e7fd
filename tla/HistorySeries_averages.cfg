SPECIFICATION SrSpec
CONSTANTS
    SrMaxTime = 5
    SrValues = {0, 2}
    SrBucket = 2
    SrFull = 1
    SrRetain = 3
    SrStep = 1
    SrSecond = 1
    SrPeriods = {1, 3, 5}
    SrMaxPoints = 2
INVARIANT AveragesWhole
CHECK_DEADLOCK FALSE
