CONSTANTS
    i1 = i1
    i2 = i2
    Ip <- MCIp
    ZeroIp = ZeroIp
    NumClients = 2
    Counts <- MCCounts
    AdminFirst <- MCAdmin
    Unit = 1
    IntHalf = 4
    MaxClock = 1
    MaxQueue = 1
SPECIFICATION Spec
PROPERTIES ExpiredBanIsLifted
