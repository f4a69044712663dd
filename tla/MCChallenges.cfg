CONSTANTS
    a1 = a1
    a2 = a2
    a3 = a3
    a4 = a4
    v1 = v1
    v2 = v2
    NoAddress = NoAddress
    NoValue = NoValue
    NetAddress <- MCNetAddress
    Value <- MCValue
    Lan <- MCLan
    NumSlots = 3
    AuthorizeTimeout = 1
    MessageChallenges = 1
    Cracked = FALSE
    Burst = 1
    Period = 1
    IntHalf = 32
    MaxNow = 5
    StartTimes <- MCStartTimes
    StepSizes <- MCSteps
SPECIFICATION CSpec
INVARIANTS NoEarlyTimeout ReadBeforeEntry
PROPERTIES ChallengeLives PatientIsAnswered
SYMMETRY MCSymmetry
CHECK_DEADLOCK FALSE
