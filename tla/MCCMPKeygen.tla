---------------------------- MODULE MCCMPKeygen ----------------------------
(* Model-checking instance of CMPKeygen: three parties a, b, c.           *)
EXTENDS CMPKeygen, TLC

CONSTANTS a, b, c

MCParty == {a, b, c}
=============================================================================
