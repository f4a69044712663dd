CONSTANTS
    t1 = t1
    t2 = t2
    ls = ls
    rm = rm
    Nothing = Nothing
    Tasks <- MCTasks
    Commands <- MCCommands
    Output <- MCOutput
    Callbacks <- MCCallbacks
    MaxLine = 2
    Levels <- MCLevels
SPECIFICATION FairSpec
INVARIANTS ListKept ThreadOwnsTask WholeOutput
PROPERTIES EveryCommandCollected
