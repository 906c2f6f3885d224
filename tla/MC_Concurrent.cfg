\* Append and readers running while a SetCurrentHeader is in progress,
\* as the code allows (it takes no lock).  A panic ends the node, so
\* deadlock is not an error.
CONSTANTS
    G = G  A1 = A1  B1 = B1  C1 = C1
    NoHash = NoHash
    Nil = Nil
    Blocks <- MCBlocks
    Genesis = G
    PrimeGenesis = G
    InZone = TRUE
    Location <- MCLocation
    NoLocation = NoLocation
    ParentOf <- MCParentOf
    MaxHeadsQueueLimit = 1
    SerialisedCallers = FALSE
    ProcessCrashes = FALSE
    KnownAppendable = FALSE
    ResetCalled = FALSE
SPECIFICATION ConcSpec
CHECK_DEADLOCK FALSE
INVARIANTS
    InstalledHeadStored
