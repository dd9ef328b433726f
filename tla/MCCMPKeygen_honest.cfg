\* All parties honest, broadcasts not looped back, round-4 key managers bound.
CONSTANTS
    a = a
    b = b
    c = c
    None = None
    Party <- MCParty
    Faulty = {}
    Loopback = FALSE
    Round4Inherits = TRUE
SPECIFICATION Spec
\* A finished session stops: once every party is done nothing is enabled.
CHECK_DEADLOCK FALSE
\* The protocol terminates: every party ends in its result.
PROPERTY Termination
