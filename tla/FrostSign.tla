----------------------------- MODULE FrostSign -----------------------------
(***************************************************************************)
(* FROST signing (the sign package in src/pkg/common/keystore/keystore.go). *)
(*                                                                         *)
(* Round 1 (from the spec) has every party sample its nonces d, e, store   *)
(* them and broadcast the commitments D = d.G, E = e.G.  Round 2 (the      *)
(* code) imports every peer's D and E into sign_d and sign_e; its Finalize *)
(* reads them back for every party of the cohort, derives the binding      *)
(* values rho and the group commitment R = sum (D_l + rho_l.E_l), and      *)
(* broadcasts its response z.  Round 3 (from the spec) checks every z_j    *)
(* against R_j and outputs (R, sum z_j), or aborts naming the party.       *)
(*                                                                         *)
(* Data: party l's nonce commitment pair is the value l; the group         *)
(* commitment a party computes is the set of pairs <<l, commitment of l>>  *)
(* it summed.  A z message carries the group commitment its sender used,   *)
(* since z_j verifies against R_j and c = H(R, Y, msg) only when sender    *)
(* and receiver computed the same R; its ok field says whether z_j was     *)
(* computed honestly from the sender's nonces and key share.               *)
(***************************************************************************)
EXTENDS Naturals, FiniteSets

CONSTANTS
    Party,              \* the signing cohort
    Faulty,             \* parties that may send anything
    Round2ReturnsRound3,\* FALSE: round2.Finalize returns (nil, nil), as the code does
    None                \* an empty store entry

ASSUME PartyAssumption == IsFiniteSet(Party) /\ Party # {}
ASSUME FaultyAssumption == Faulty \subseteq Party
ASSUME FlagAssumption == Round2ReturnsRound3 \in BOOLEAN
ASSUME NoneAssumption == None \notin Party

OtherPartyIDs(p) == Party \ {p}

Status == {"run", "done", "aborted", "noround"}

GroupCommitments == SUBSET (Party \X (Party \cup {None}))

Msg == [rnd : 2..3, from : Party, to : Party, ident : BOOLEAN, ok : BOOLEAN,
        view : GroupCommitments]

VARIABLES
    round,      \* the current round object of each party
    status,     \* "noround": Finalize returned no next round and no error
    culprit,    \* the party an abort names
    nonceStore, \* sign_d / sign_e: the commitment pair held for each party
    rView,      \* the group commitment R computed in round2.Finalize
    zRcvd,      \* round 3: senders whose z verified
    sig,        \* round 3 output: the R of the signature
    msgs        \* every message ever sent

vars == <<round, status, culprit, nonceStore, rView, zRcvd, sig, msgs>>

-----------------------------------------------------------------------------

\* A broadcast of p to its peers.  An honest commitment is never the
\* identity and an honest z is computed as the code does; a faulty party
\* may send either.  Reliable broadcast hands every peer the same content.
IdentValues(p) == IF p \in Faulty THEN BOOLEAN ELSE {FALSE}
OkValues(p) == IF p \in Faulty THEN BOOLEAN ELSE {TRUE}

Broadcast(p, r, ident, ok, view) ==
    {[rnd |-> r, from |-> p, to |-> q, ident |-> ident, ok |-> ok,
      view |-> view] : q \in OtherPartyIDs(p)}

Deliverable(p, m) ==
    /\ status[p] = "run"
    /\ m \in msgs
    /\ m.to = p
    /\ m.rnd = round[p]

AbortBy(p, q) ==
    /\ status' = [status EXCEPT ![p] = "aborted"]
    /\ culprit' = [culprit EXCEPT ![p] = q]

-----------------------------------------------------------------------------
(* Mutants: plausible bugs in the definitions below.                       *)

\* The nonce commitments are imported under the receiver's party ID.
ImportNoncesUnderSelf(p, m) == [nonceStore EXCEPT ![p][p] = m.from]

\* R summed over the other parties only.
GroupCommitmentOthers(p) ==
    {<<l, nonceStore[p][l]>> : l \in OtherPartyIDs(p)}

-----------------------------------------------------------------------------

Init ==
    /\ round = [p \in Party |-> 1]
    /\ status = [p \in Party |-> "run"]
    /\ culprit = [p \in Party |-> None]
    /\ nonceStore = [p \in Party |-> [l \in Party |-> None]]
    /\ rView = [p \in Party |-> {}]
    /\ zRcvd = [p \in Party |-> {}]
    /\ sig = [p \in Party |-> {}]
    /\ msgs = {}

\* Round 1 (from the spec): sample d, e, store the own commitments under the
\* session and broadcast them.
Finalize1(p) ==
    /\ status[p] = "run" /\ round[p] = 1
    /\ \E ident \in IdentValues(p) :
           msgs' = msgs \cup Broadcast(p, 2, ident, TRUE, {})
    /\ nonceStore' = [nonceStore EXCEPT ![p][p] = p]
    /\ round' = [round EXCEPT ![p] = 2]
    /\ UNCHANGED <<status, culprit, rView, zRcvd, sig>>

\* sign_d.ImportKey and sign_e.ImportKey under (session, sender).
ImportNonces(p, m) == [nonceStore EXCEPT ![p][m.from] = m.from]

\* round2.StoreBroadcastMessage: D or E the identity is an error naming the
\* sender; otherwise both are imported.  No broadcast manager is told.
StoreNonces(p, m) ==
    /\ Deliverable(p, m) /\ m.rnd = 2
    /\ IF m.ident
       THEN AbortBy(p, m.from) /\ UNCHANGED nonceStore
       ELSE nonceStore' = ImportNonces(p, m) /\ UNCHANGED <<status, culprit>>
    /\ UNCHANGED <<round, rView, zRcvd, sig, msgs>>

\* round2.CanFinalize returns true: the driver may call Finalize at once.
CanFinalize2(p) == TRUE

\* Every D_l and E_l of the cohort is in sign_d and sign_e.
NoncesStored(p) == \A l \in Party : nonceStore[p][l] # None

\* Steps 1 and 2 of round2.Finalize: rho_l and R_l for every l of PartyIDs,
\* summed into R.
GroupCommitment(p) == {<<l, nonceStore[p][l]>> : l \in Party}

\* round2.Finalize: while a D_l or E_l is missing, GetKey returns (r, err)
\* before anything is sent or stored; the driver keeps round 2 and calls
\* Finalize again after more arrivals (spec 4.1 inv. 3), so such a call
\* changes no state.  Once all are stored, R, the challenge and z are
\* computed and z broadcast, and the method returns (nil, nil): no next
\* round.
Finalize2(p) ==
    /\ status[p] = "run" /\ round[p] = 2
    /\ CanFinalize2(p)
    /\ NoncesStored(p)
    /\ rView' = [rView EXCEPT ![p] = GroupCommitment(p)]
    /\ \E ok \in OkValues(p) :
           msgs' = msgs \cup Broadcast(p, 3, FALSE, ok, GroupCommitment(p))
    /\ IF Round2ReturnsRound3
       THEN round' = [round EXCEPT ![p] = 3] /\ UNCHANGED status
       ELSE status' = [status EXCEPT ![p] = "noround"] /\ UNCHANGED round
    /\ UNCHANGED <<culprit, nonceStore, zRcvd, sig>>

\* Round 3 (from the spec): z_j.G = R_j + c.lambda_j.Y_j, where R_j and c
\* are the receiver's; a failing check aborts naming j.
StoreResponse(p, m) ==
    /\ Deliverable(p, m) /\ m.rnd = 3
    /\ IF m.ok /\ m.view = rView[p]
       THEN zRcvd' = [zRcvd EXCEPT ![p] = @ \cup {m.from}] /\ UNCHANGED <<status, culprit>>
       ELSE AbortBy(p, m.from) /\ UNCHANGED zRcvd
    /\ UNCHANGED <<round, nonceStore, rView, sig, msgs>>

\* Round 3 (from the spec): with every z verified, output (R, sum z_j).
Finalize3(p) ==
    /\ status[p] = "run" /\ round[p] = 3
    /\ OtherPartyIDs(p) \subseteq zRcvd[p]
    /\ sig' = [sig EXCEPT ![p] = rView[p]]
    /\ status' = [status EXCEPT ![p] = "done"]
    /\ UNCHANGED <<round, culprit, nonceStore, rView, zRcvd, msgs>>

Receive(p) == \E m \in msgs : StoreNonces(p, m) \/ StoreResponse(p, m)

Finalize(p) == Finalize1(p) \/ Finalize2(p) \/ Finalize3(p)

Next == \E p \in Party : Receive(p) \/ Finalize(p)

\* The driver keeps delivering and calls Finalize once CanFinalize holds.
Fairness == \A p \in Party : WF_vars(Receive(p)) /\ WF_vars(Finalize(p))

Spec == Init /\ [][Next]_vars /\ Fairness

-----------------------------------------------------------------------------
(* Properties                                                              *)

TypeOK ==
    /\ round \in [Party -> 1..3]
    /\ status \in [Party -> Status]
    /\ culprit \in [Party -> Party \cup {None}]
    /\ nonceStore \in [Party -> [Party -> Party \cup {None}]]
    /\ rView \in [Party -> GroupCommitments]
    /\ zRcvd \in [Party -> SUBSET Party]
    /\ sig \in [Party -> GroupCommitments]
    /\ msgs \subseteq Msg

Honest == Party \ Faulty

\* An honest signer only aborts naming a faulty party: no honest nonce
\* commitment is rejected by round2.StoreBroadcastMessage, and every
\* honest z verifies against the R its receiver computed in round2.Finalize.
AbortBlamesFaulty ==
    \A p \in Honest : status[p] = "aborted" => culprit[p] \in Faulty

\* The session outcome of p, as the abstract Session sees it: a session
\* left without a next round still runs.
Outcome(p) == IF status[p] = "noround" THEN "run" ELSE status[p]

Abs == INSTANCE Session WITH outcome <- [p \in Party |-> Outcome(p)],
                             blamed <- culprit

\* FROST signing implements the abstract Session: each signer's session ends
\* at most once, and an honest signer's abort (a rejected nonce commitment
\* in round2.StoreBroadcastMessage or a rejected z in round 3) names a
\* faulty signer.
SessionRefinement == Abs!Spec

\* Every honest signer's session ends with a signature or an abort.
Termination ==
    <>(\A p \in Honest : status[p] \in {"done", "aborted"})

=============================================================================
