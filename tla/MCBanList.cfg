CONSTANTS
    i1 = i1
    i2 = i2
    Ip <- MCIp
    ZeroIp = ZeroIp
    NumClients = 1
    Counts <- MCCounts
    AdminFirst <- MCAdmin
    Unit = 1
    IntHalf = 4
    MaxClock = 1
    MaxQueue = 2
SPECIFICATION Spec
INVARIANTS OneLinePerAddress
PROPERTIES PolicySpec
SYMMETRY MCSymmetry
