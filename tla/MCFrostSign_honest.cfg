\* All signers honest; round2.CanFinalize returns true as in the code (an
\* early Finalize is re-driven), and round2 returns round3: the (nil, nil)
\* of keystore.go:306 fixed.
CONSTANTS
    a = a
    b = b
    c = c
    None = None
    Party <- MCParty
    Faulty = {}
    Round2ReturnsRound3 = TRUE
SPECIFICATION Spec
\* A completed signing stops.
CHECK_DEADLOCK FALSE
\* Every signing session ends.
PROPERTY Termination
