\* GetAncestor racing SetCurrentHeader, as the code allows: the reader
\* takes no lock.
CONSTANTS
    G = G  A1 = A1  A2 = A2  B2 = B2  B3 = B3  C1 = C1
    NoHash = NoHash
    Nil = Nil
    Blocks <- MCBlocks
    Genesis = G
    PrimeGenesis = G
    InZone = TRUE
    Location <- MCLocation
    NoLocation = NoLocation
    ParentOf <- MCParentOf
    MaxHeadsQueueLimit = 2
    SerialisedCallers = FALSE
    ProcessCrashes = FALSE
    KnownAppendable = FALSE
    ResetCalled = FALSE
    MaxBudget = 2
    MaxCount = 4
SPECIFICATION QSpec
INVARIANTS
    AncestorSound
