\* Party c is faulty: its opening may fail the proof or carry the identity
\* commitment, its decommitment may fail, its shares may be evaluated anywhere.
CONSTANTS
    a = a
    b = b
    c = c
    None = None
    Party <- MCParty
    Rank <- MCRank
    Faulty = {c}
    Variant = "secp"
    StartReturnsRound = TRUE
    MaxStoreFaults = 1
SPECIFICATION Spec
\* Honest parties wait for ever on a peer that aborted: the system may stop.
CHECK_DEADLOCK FALSE
\* Each session ends once, honest parties only blame c, and every completed share is consistent.
PROPERTY SessionRefinement
INVARIANT ShareConsistency
