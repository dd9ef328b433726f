\* All parties honest, running the draft round2 with the inverted identity check.
CONSTANTS
    a = a
    b = b
    c = c
    None = None
    Party <- MCParty
    Rank <- MCRank
    Faulty = {}
    Variant = "draft"
    StartReturnsRound = TRUE
    MaxStoreFaults = 0
SPECIFICATION Spec
\* Every session aborts, so the system stops.
CHECK_DEADLOCK FALSE
\* The draft blames an honest party.
INVARIANT AbortBlamesFaulty
