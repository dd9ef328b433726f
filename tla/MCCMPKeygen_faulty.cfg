\* Party c is faulty: any of its messages may fail validation, and its
\* round-4 shares may be evaluated at the wrong point.
CONSTANTS
    a = a
    b = b
    c = c
    None = None
    Party <- MCParty
    Faulty = {c}
    Loopback = FALSE
    Round4Inherits = TRUE
SPECIFICATION Spec
\* Without timeouts in the core, honest parties wait forever on a peer that
\* aborted: the system really may stop.
CHECK_DEADLOCK FALSE
INVARIANT RIDAgreement
INVARIANT ShareConsistency
PROPERTY SessionRefinement
