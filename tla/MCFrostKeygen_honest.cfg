\* All parties honest, the ed25519 round2, Start returning the first round.
CONSTANTS
    a = a
    b = b
    c = c
    None = None
    Party <- MCParty
    Rank <- MCRank
    Faulty = {}
    Variant = "ed"
    StartReturnsRound = TRUE
    MaxStoreFaults = 0
SPECIFICATION Spec
\* A completed keygen stops: nothing is enabled once every party is done.
CHECK_DEADLOCK FALSE
\* Every session completes.
PROPERTY Termination
