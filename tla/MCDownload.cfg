CONSTANTS
    Size = 5
    WindowSize = 3
    BlkSize = 1
    BlkSizeFast = 2
    Timeout = 1
    BlockNumbers = 5
    Files <- MCFiles
    MaxInFlight = 2
    MaxToggles = 1
SPECIFICATION DownloadFairSpec
INVARIANTS DeliveredInOrder CompleteIsWhole BuffersFit NeverBroken
PROPERTIES Completes
CHECK_DEADLOCK FALSE
