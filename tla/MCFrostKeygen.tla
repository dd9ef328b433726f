---------------------------- MODULE MCFrostKeygen ----------------------------
(* Model-checking instance of FrostKeygen: three parties a, b, c.          *)
EXTENDS FrostKeygen, TLC
CONSTANTS a, b, c
MCParty == {a, b, c}
\* The party IDs sort as a < b < c.
MCRank == [j \in MCParty |-> CASE j = a -> 1 [] j = b -> 2 [] j = c -> 3]
=============================================================================
