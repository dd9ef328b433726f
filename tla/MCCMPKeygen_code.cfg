\* The round-4 object as round3.Finalize builds it: its own key-manager
\* fields shadow round 3's and are never set.
CONSTANTS
    a = a
    b = b
    c = c
    None = None
    Party <- MCParty
    Faulty = {}
    Loopback = FALSE
    Round4Inherits = FALSE
SPECIFICATION Spec
CHECK_DEADLOCK FALSE
PROPERTY Termination
