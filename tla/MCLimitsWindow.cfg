CONSTANTS
    a1 = a1
    a2 = a2
    a3 = a3
    NoAddress = NoAddress
    Address <- MCAddress
    Hash <- MCHash
    Watched = a1
    NumSlots = 2
    NumHashes = 1
    AddressLimit = 1
    AuthorizeLimit = 2
    Period = 2
    OutLimit = 1
    OutPeriod = 1
    IntHalf = 6
    MaxNow = 4
    MaxPaid = 2
    Handlers <- MCHandlers
    StartTimes <- MCStartTimes
    StepSizes <- MCStep
SPECIFICATION WSpec
INVARIANTS NoFalseRefusal AddressBound SharedBound OthersAreDue
SYMMETRY MCSymmetry
