SPECIFICATION FairSpec
CONSTANTS
    Workers = {w1, w2, w3}
    Main = main
    Nobody = nobody
    MaxUses = 2
    MaxKeys = 2
    Created = {w1}
INVARIANTS
    LocksAreSound
    InstancesAreSound
    
PROPERTIES
    JoinersReturn
CHECK_DEADLOCK FALSE
