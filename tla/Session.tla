------------------------------ MODULE Session ------------------------------
(***************************************************************************)
(* What a session of the round engine promises each party, whatever the    *)
(* protocol (spec section 4.1 and section 7): the session runs until it    *)
(* ends once, with a result, with an abort naming the party it holds       *)
(* responsible, or with an error; an honest party's abort names a faulty   *)
(* party.  A protocol module implements it by mapping its own status and   *)
(* culprit onto outcome and blamed.                                        *)
(***************************************************************************)
CONSTANTS
    Party,      \* the parties of the session
    Faulty,     \* the parties that may deviate from the protocol
    None        \* no party blamed

VARIABLES
    outcome,    \* "run", or how the party's session ended
    blamed      \* the party an abort names

vars == <<outcome, blamed>>

Outcome == {"run", "done", "aborted", "failed"}

\* The parties an abort of p may name: a faulty p may blame anyone.
Blameable(p) == IF p \in Faulty THEN Party ELSE Faulty

Init ==
    /\ outcome = [p \in Party |-> "run"]
    /\ blamed = [p \in Party |-> None]

\* The final round returns its result.
Complete(p) ==
    /\ outcome[p] = "run"
    /\ outcome' = [outcome EXCEPT ![p] = "done"]
    /\ UNCHANGED blamed

\* A validation error ends the session naming the sender.
Abort(p) ==
    /\ outcome[p] = "run"
    /\ outcome' = [outcome EXCEPT ![p] = "aborted"]
    /\ \E q \in Blameable(p) : blamed' = [blamed EXCEPT ![p] = q]

\* Any other error ends the session.
Fail(p) ==
    /\ outcome[p] = "run"
    /\ outcome' = [outcome EXCEPT ![p] = "failed"]
    /\ UNCHANGED blamed

Next == \E p \in Party : Complete(p) \/ Abort(p) \/ Fail(p)

Spec == Init /\ [][Next]_vars

=============================================================================
