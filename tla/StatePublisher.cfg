SPECIFICATION FairSpec
CONSTANTS
    Writers = {w1, w2, w3}
    NoWriter = NoWriter
    MaxMutations = 3
INVARIANTS
    SavesAreKept
PROPERTIES
    StoreSpec
    MutationsAreSaved
