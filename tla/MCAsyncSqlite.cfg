CONSTANTS
    t1 = t1
    t2 = t2
    t3 = t3
    d1 = d1
    Nothing = Nothing
    Tasks <- MCTasks
    Dbs <- MCDbs
    MaxTasks = 2
    MaxStores = 2
SPECIFICATION FairSpec
INVARIANTS ListKept DoneInOrder CalledOnce
CHECK_DEADLOCK FALSE
PROPERTIES EveryQueryRuns MapChangeEnds
