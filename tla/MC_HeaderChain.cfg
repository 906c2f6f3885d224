\* The whole header chain with a registry of two heads: appends with
\* eviction and trim, reorgs, Stop, exit and restart, readers filling the
\* cache.  A node can reach a database it cannot start from (run
\* head_unloadable), where nothing is enabled any more, so deadlock is
\* not an error here.
CONSTANTS
    G = G  A1 = A1  A2 = A2  B1 = B1  B2 = B2
    NoHash = NoHash
    Nil = Nil
    Blocks <- MCBlocks
    Genesis = G
    PrimeGenesis = G
    InZone = TRUE
    Location <- MCLocation
    NoLocation = NoLocation
    ParentOf <- MCParentOf
    MaxHeadsQueueLimit = 2
    SerialisedCallers = TRUE
    ProcessCrashes = FALSE
    KnownAppendable = FALSE
    ResetCalled = FALSE
SPECIFICATION Spec
CHECK_DEADLOCK FALSE
INVARIANTS
    TypeOK
PROPERTIES
    RegistryRefined
