\* The same callers one at a time: with the walk defects out of reach,
\* eviction keeps every header of the head's chain stored.
\* A panic ends the node, so deadlock is not an error.
CONSTANTS
    G = G  A1 = A1  B1 = B1  C1 = C1
    NoHash = NoHash
    Nil = Nil
    Blocks <- MCBlocks
    Genesis = G
    PrimeGenesis = G
    InZone = TRUE
    Location <- MCLocation
    NoLocation = NoLocation
    ParentOf <- MCParentOf
    MaxHeadsQueueLimit = 1
    SerialisedCallers = TRUE
    ProcessCrashes = FALSE
    KnownAppendable = FALSE
    ResetCalled = FALSE
SPECIFICATION ConcSpec
CHECK_DEADLOCK FALSE
INVARIANTS
    HeadChainStored
