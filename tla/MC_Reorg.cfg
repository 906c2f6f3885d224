\* SetCurrentHeader sequences from every consistent database state, in a
\* region context: each reorg also records sliceHeaders slots.
CONSTANTS
    G = G  A1 = A1  A2 = A2  B2 = B2  B3 = B3  C1 = C1
    NoHash = NoHash
    Nil = Nil
    Blocks <- MCBlocks
    Genesis = G
    PrimeGenesis = G
    InZone = FALSE
    Location <- MCLocation
    NoLocation = NoLocation
    ParentOf <- MCParentOf
    MaxHeadsQueueLimit = 2
    SerialisedCallers = TRUE
    ProcessCrashes = FALSE
    KnownAppendable = FALSE
    ResetCalled = FALSE
SPECIFICATION ReorgSpec
INVARIANTS
    StaysAlive
    ExportWritesHeadChain
    GenesisCanonical
PROPERTIES
    ReorgReturns
