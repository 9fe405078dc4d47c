CONSTANTS
    StoreKeys = {k1, k2}
    Values = {v1, v2}
    Lifetimes = {0, 1, Forever}
    Forever = Forever
    Nothing = Nothing
    MaxTime = 3
    SweepInterval = 3
SPECIFICATION StorageSpec
INVARIANTS StorageTypeOK SweptClean
PROPERTIES IsTtlMap
