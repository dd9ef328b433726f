\* The transport also hands each party its own broadcasts.
CONSTANTS
    a = a
    b = b
    c = c
    None = None
    Party <- MCParty
    Faulty = {}
    Loopback = TRUE
    Round4Inherits = TRUE
SPECIFICATION Spec
CHECK_DEADLOCK FALSE
INVARIANT NoFailedSession
