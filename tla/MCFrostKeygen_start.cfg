\* All parties honest, Start returning (nil, nil) as the code does.
CONSTANTS
    a = a
    b = b
    c = c
    None = None
    Party <- MCParty
    Rank <- MCRank
    Faulty = {}
    Variant = "ed"
    StartReturnsRound = FALSE
    MaxStoreFaults = 0
SPECIFICATION Spec
\* No session exists, so nothing ever happens.
CHECK_DEADLOCK FALSE
\* No session ever completes.
PROPERTY Termination
