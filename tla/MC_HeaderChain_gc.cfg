\* Every garbage-collection path, Reset included, with a registry of one
\* head so that every second append evicts, and the process killed at any
\* step (a kill in the middle of a reorg leaves its partial repair).
\* Deadlock is not an error:
\* a node can reach a database it cannot start from.
CONSTANTS
    G = G  A1 = A1  A2 = A2  B1 = B1  B2 = B2
    NoHash = NoHash
    Nil = Nil
    Blocks <- MCBlocks
    Genesis = G
    PrimeGenesis = G
    InZone = TRUE
    Location <- MCLocation
    NoLocation = NoLocation
    ParentOf <- MCParentOf
    MaxHeadsQueueLimit = 1
    SerialisedCallers = TRUE
    ProcessCrashes = TRUE
    KnownAppendable = FALSE
    ResetCalled = TRUE
SPECIFICATION Spec
CHECK_DEADLOCK FALSE
INVARIANTS
    GenesisKept
