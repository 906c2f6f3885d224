\* Is the new head itself written to the canonical table by every reorg?
CONSTANTS
    G = G  A1 = A1  A2 = A2  B2 = B2  B3 = B3  C1 = C1
    NoHash = NoHash
    Nil = Nil
    Blocks <- MCBlocks
    Genesis = G
    PrimeGenesis = G
    InZone = TRUE
    Location <- MCLocation
    NoLocation = NoLocation
    ParentOf <- MCParentOf
    MaxHeadsQueueLimit = 2
    SerialisedCallers = TRUE
    ProcessCrashes = FALSE
    KnownAppendable = FALSE
    ResetCalled = FALSE
SPECIFICATION ReorgSpec
INVARIANTS
    HeadCanonical
