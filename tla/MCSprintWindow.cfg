CONSTANTS
    SprintTimes <- MCSprintTimes
    MinTimes <- MCMinTimes
    Msecs <- MCMsecs
    MaxTime = 4
    MaxMsec = 2
    MaxWindow = 14
SPECIFICATION WSpec
INVARIANTS SprintBound
PROPERTIES LastsMinTime
