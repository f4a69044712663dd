CONSTANTS
    a1 = a1
    a2 = a2
    a3 = a3
    a4 = a4
    NoAddress = NoAddress
    Address <- MCAddress
    Hash <- MCHash
    NumSlots = 3
    NumHashes = 2
    AddressLimit = 1
    AuthorizeLimit = 2
    Period = 1
    OutLimit = 1
    OutPeriod = 1
    IntHalf = 6
    MaxNow = 4
    Handlers <- MCHandlers
    StartTimes <- MCStartTimes
    StepSizes <- MCStep
SPECIFICATION Spec
INVARIANTS TableConsistent
VIEW MCView
SYMMETRY MCSymmetry
