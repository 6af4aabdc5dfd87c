SPECIFICATION VectorSpec
CONSTANTS
    Calls = {a1, a2, a3}
    Documents = {d1}
    Old = Old
    MaxPending = 2
    MaxGeneration = 2
    Nothing = Nothing
SYMMETRY Interchangeable
INVARIANTS ChannelIsSound 
 
CHECK_DEADLOCK FALSE
