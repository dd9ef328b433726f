----------------------------- MODULE MCFrostSign -----------------------------
(* Model-checking instance of FrostSign: a cohort of three parties.        *)
EXTENDS FrostSign, TLC
CONSTANTS a, b, c
MCParty == {a, b, c}
=============================================================================
