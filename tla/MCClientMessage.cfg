CONSTANTS
    Window = 2
    MaxCommands = 3
    MaxMaps = 2
    MaxEvents = 3
    MaxRestarts = 1
    MaxUnderWay = 1
SPECIFICATION FairSpec
INVARIANTS WindowKept NeverLost ActiveKnowsMap
PROPERTIES EntersWorld
