\* Signer c is faulty: its D or E may be the identity, its z may be wrong.
\* round2 returns round3: the (nil, nil) of keystore.go:306 fixed.
CONSTANTS
    a = a
    b = b
    c = c
    None = None
    Party <- MCParty
    Faulty = {c}
    Round2ReturnsRound3 = TRUE
SPECIFICATION Spec
\* Honest signers wait for ever on a peer that aborted: the system may stop.
CHECK_DEADLOCK FALSE
\* Each session ends once; honest signers only blame c.
PROPERTY SessionRefinement
