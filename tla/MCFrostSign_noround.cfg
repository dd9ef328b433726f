\* All signers honest; round2.Finalize returns (nil, nil), as in the code.
CONSTANTS
    a = a
    b = b
    c = c
    None = None
    Party <- MCParty
    Faulty = {}
    Round2ReturnsRound3 = FALSE
SPECIFICATION Spec
\* No party has a next round, so nothing happens.
CHECK_DEADLOCK FALSE
\* Every signing session ends with a signature or an abort.
PROPERTY Termination
