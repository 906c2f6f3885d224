\* Can the canonical entry of genesis be deleted?  No Reset.
CONSTANTS
    G = G  A1 = A1  A2 = A2  B1 = B1  B2 = B2
    NoHash = NoHash
    Nil = Nil
    Blocks <- MCBlocks
    Genesis = G
    PrimeGenesis = G
    InZone = TRUE
    Location <- MCLocation
    NoLocation = NoLocation
    ParentOf <- MCParentOf
    MaxHeadsQueueLimit = 2
    SerialisedCallers = TRUE
    ProcessCrashes = FALSE
    KnownAppendable = FALSE
    ResetCalled = FALSE
SPECIFICATION Spec
CHECK_DEADLOCK FALSE
INVARIANTS
    GenesisCanonical
