CONSTANTS
    IntHalf = 10
    Burst = 2
    Period = 3
    MaxNow = 25
    StartTimes <- MCStartTimes
    StepSizes <- MCStepSizes
SPECIFICATION WSpec
INVARIANTS WindowTypeOK WindowBound EagerService
PROPERTIES RefusalIsFree
