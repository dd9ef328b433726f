\* All parties honest; one transient key-store failure may hit round2.Finalize.
CONSTANTS
    a = a
    b = b
    c = c
    None = None
    Party <- MCParty
    Rank <- MCRank
    Faulty = {}
    Variant = "ed"
    StartReturnsRound = TRUE
    MaxStoreFaults = 1
SPECIFICATION Spec
\* A completed keygen stops: nothing is enabled once every party is done.
CHECK_DEADLOCK FALSE
\* Every session completes, even when a key-store write fails once.
PROPERTY Termination
