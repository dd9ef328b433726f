---------------------------- MODULE FrostKeygen ----------------------------
(***************************************************************************)
(* FROST distributed key generation (src/protocols/frost/keygen).          *)
(*                                                                         *)
(* FROSTKeygen.Start creates the session.  Round 1 (from the spec) has     *)
(* every party sample its VSS polynomial, key and Schnorr commitment and   *)
(* broadcast them with a hash commitment.  Round 2 (round2.go, keygen.go)  *)
(* imports every peer's opening, verifies its Schnorr proof, marks it in   *)
(* the broadcast manager bcstmgr and, once bcstmgr.HasAll(OtherPartyIDs),  *)
(* broadcasts the chain key and decommitment and sends each peer its VSS   *)
(* share.  Round 3 (from the spec) checks every share against the sender's *)
(* polynomial and sums them.                                               *)
(*                                                                         *)
(* The source holds three versions of round 2: the secp256k1 one, the      *)
(* ed25519 one, and a draft whose identity check is inverted and which     *)
(* never imports the polynomial nor marks the sender.  Variant selects it. *)
(*                                                                         *)
(* Data: party j's polynomial, public key and commitment are the value j;  *)
(* a share f_j(p) is the point p it was evaluated at; a message's ok field *)
(* says whether its proof (or decommitment) verifies, ident whether its    *)
(* Schnorr commitment is the identity point.                               *)
(***************************************************************************)
EXTENDS Naturals, FiniteSets

CONSTANTS
    Party,              \* the party IDs of the session
    Faulty,             \* parties that may send anything
    Variant,            \* "secp", "ed" or "draft": which round2 runs
    StartReturnsRound,  \* FALSE: Start returns (nil, nil), as keygen.go does
    MaxStoreFaults,     \* bound on transient key-store failures in a run
    Rank,               \* Rank[j]: the position of j in the sorted PartyIDs()
    None                \* an empty store entry

ASSUME PartyAssumption == IsFiniteSet(Party) /\ Party # {}
ASSUME FaultyAssumption == Faulty \subseteq Party
ASSUME VariantAssumption == Variant \in {"secp", "ed", "draft"}
ASSUME StartAssumption == StartReturnsRound \in BOOLEAN
ASSUME NoneAssumption == None \notin Party
ASSUME StoreFaultsAssumption == MaxStoreFaults \in Nat
ASSUME RankAssumption ==
    /\ Rank \in [Party -> Nat]
    /\ \A i, j \in Party : Rank[i] = Rank[j] => i = j

OtherPartyIDs(p) == Party \ {p}

Status == {"idle", "nosession", "run", "done", "aborted", "failed"}

Msg == [rnd : 2..3, kind : {"bc", "p2p"}, from : Party, to : Party,
        ok : BOOLEAN, ident : BOOLEAN, pt : Party]

VARIABLES
    round,      \* the current round object of each party
    status,     \* "idle" before Start; "nosession" when Start gave none
    culprit,    \* the party an abort names
    rcvd,       \* bcstmgr: senders whose broadcast of this round is marked
    fwd,        \* msgmgr: senders whose round-3 share is stored
    keyStore,   \* commit_mgr and ec_km: what was imported for each party
    vssStore,   \* vss_mgr: the polynomial imported for each party
    shareStore, \* ec_vss_km: the share of each party's polynomial held
    lastRound,  \* statemgr: the last round recorded by SetLastRound
    groupKey,   \* round 3 output: the polynomials summed into the key
    secret,     \* round 3 output: the summed secret share
    msgs,       \* every message ever sent
    storeFaults \* transient key-store failures so far

vars == <<round, status, culprit, rcvd, fwd, keyStore, vssStore, shareStore,
          lastRound, groupKey, secret, msgs,
                   storeFaults>>

-----------------------------------------------------------------------------
(* Sending                                                                 *)

\* The broadcast values p may emit: an honest party's verify and carry a
\* non-identity commitment; the transport's reliable broadcast hands every
\* peer the same one.
OkValues(p) == IF p \in Faulty THEN BOOLEAN ELSE {TRUE}
IdentValues(p) == IF p \in Faulty THEN BOOLEAN ELSE {FALSE}

Broadcast(p, r, ok, ident) ==
    {[rnd |-> r, kind |-> "bc", from |-> p, to |-> q, ok |-> ok,
      ident |-> ident, pt |-> q] : q \in OtherPartyIDs(p)}

\* The VSS shares p sends in round2.Finalize: f_p(j) to each other party j;
\* a faulty party may evaluate its polynomial anywhere.
SharePoints(p, q) == IF p \in Faulty THEN Party ELSE {q}

Shares(p) ==
    UNION {{[rnd |-> 3, kind |-> "p2p", from |-> p, to |-> q, ok |-> TRUE,
             ident |-> FALSE, pt |-> x] : x \in SharePoints(p, q)} :
              q \in OtherPartyIDs(p)}

Deliverable(p, m) ==
    /\ status[p] = "run"
    /\ m \in msgs
    /\ m.to = p
    /\ m.rnd = round[p]

AbortBy(p, q) ==
    /\ status' = [status EXCEPT ![p] = "aborted"]
    /\ culprit' = [culprit EXCEPT ![p] = q]

-----------------------------------------------------------------------------
(* Mutants: plausible bugs in the definitions below.                       *)

\* The identity check inverted: a commitment that is NOT the identity is
\* rejected.
IdentityRejectedInverted(m) == ~m.ident

\* HasAll is asked for every party ID, the receiver's own included.
CanFinalize2AllParties(p) == Party \subseteq rcvd[p]

\* round2.Finalize sends the peers their shares but never imports its own.
ImportSelfShareSkipped(p) == shareStore

-----------------------------------------------------------------------------
(* Start and round 1                                                       *)

Init ==
    /\ round = [p \in Party |-> 0]
    /\ status = [p \in Party |-> "idle"]
    /\ culprit = [p \in Party |-> None]
    /\ rcvd = [p \in Party |-> {}]
    /\ fwd = [p \in Party |-> {}]
    /\ keyStore = [p \in Party |-> [j \in Party |-> None]]
    /\ vssStore = [p \in Party |-> [j \in Party |-> None]]
    /\ shareStore = [p \in Party |-> [j \in Party |-> None]]
    /\ lastRound = [p \in Party |-> 0]
    /\ groupKey = [p \in Party |-> {}]
    /\ secret = [p \in Party |-> {}]
    /\ msgs = {}
    /\ storeFaults = 0

\* FROSTKeygen.Start: creates a hasher and a round.Session, then returns
\* (nil, nil) in the code, so the caller is left without a first round.
Start(p) ==
    /\ status[p] = "idle"
    /\ IF StartReturnsRound
       THEN status' = [status EXCEPT ![p] = "run"] /\ round' = [round EXCEPT ![p] = 1]
       ELSE status' = [status EXCEPT ![p] = "nosession"] /\ UNCHANGED round
    /\ UNCHANGED <<culprit, rcvd, fwd, keyStore, vssStore, shareStore,
                   lastRound, groupKey, secret, msgs,
                   storeFaults>>

\* Round 1 (from the spec): store the own commitment, key and polynomial and
\* broadcast the opening with its Schnorr proof.
Finalize1(p) ==
    /\ status[p] = "run" /\ round[p] = 1
    /\ \E ok \in OkValues(p), ident \in IdentValues(p) :
           msgs' = msgs \cup Broadcast(p, 2, ok, ident)
    /\ keyStore' = [keyStore EXCEPT ![p][p] = p]
    /\ vssStore' = [vssStore EXCEPT ![p][p] = p]
    /\ lastRound' = [lastRound EXCEPT ![p] = 1]
    /\ round' = [round EXCEPT ![p] = 2]
    /\ UNCHANGED <<status, culprit, rcvd, fwd, shareStore, groupKey, secret,
                   storeFaults>>

-----------------------------------------------------------------------------
(* Round 2                                                                 *)

\* The commitment and the sender's public key are imported (commit_mgr,
\* ec_km) before the Schnorr proof is verified; a proof that fails aborts
\* with the imports left in place, otherwise accept follows.
ImportThenVerify(p, m, accept) ==
    /\ keyStore' = [keyStore EXCEPT ![p][m.from] = m.from]
    /\ IF m.ok THEN accept
       ELSE AbortBy(p, m.from) /\ UNCHANGED <<vssStore, rcvd>>

\* vss_mgr.ImportSecrets of the sender's polynomial, then bcstmgr.Import
\* marks the sender as received.
ImportAndMark(p, m) ==
    /\ vssStore' = [vssStore EXCEPT ![p][m.from] = m.from]
    /\ rcvd' = [rcvd EXCEPT ![p] = @ \cup {m.from}]
    /\ UNCHANGED <<status, culprit>>

\* secp256k1's check of the Schnorr commitment: the identity is rejected.
IdentityRejected(m) == m.ident

\* round2.StoreBroadcastMessage (secp256k1): the parameter checks, the
\* imports, the proof, then the polynomial and the mark.
StoreOpeningSecp(p, m) ==
    IF IdentityRejected(m)
    THEN AbortBy(p, m.from) /\ UNCHANGED <<keyStore, vssStore, rcvd>>
    ELSE ImportThenVerify(p, m, ImportAndMark(p, m))

\* round2.StoreBroadcastMessage (ed25519): no check of the commitment.
StoreOpeningEd(p, m) == ImportThenVerify(p, m, ImportAndMark(p, m))

\* The draft's check, inverted: a commitment that is not the identity is
\* rejected.
IdentityRejectedDraft(m) == ~m.ident

\* round2.StoreBroadcastMessage (draft): the inverted check, the imports and
\* the proof; the polynomial is never imported nor the sender marked.
StoreOpeningDraft(p, m) ==
    IF IdentityRejectedDraft(m)
    THEN AbortBy(p, m.from) /\ UNCHANGED <<keyStore, vssStore, rcvd>>
    ELSE ImportThenVerify(p, m, UNCHANGED <<status, culprit, vssStore, rcvd>>)

StoreOpening(p, m) ==
    /\ Deliverable(p, m) /\ m.rnd = 2 /\ m.kind = "bc"
    /\ CASE Variant = "secp"  -> StoreOpeningSecp(p, m)
         [] Variant = "ed"    -> StoreOpeningEd(p, m)
         [] Variant = "draft" -> StoreOpeningDraft(p, m)
    /\ UNCHANGED <<round, fwd, shareStore, lastRound, groupKey, secret, msgs,
                   storeFaults>>

\* round2.CanFinalize: bcstmgr.HasAll(OtherPartyIDs).
CanFinalize2(p) == OtherPartyIDs(p) \subseteq rcvd[p]

\* The peers the share loop over the sorted PartyIDs() reaches before the
\* iteration for p itself.
SentBefore(p) == {j \in OtherPartyIDs(p) : Rank[j] < Rank[p]}

\* The else-branch of the share loop: the own share f_p(p) goes to ec_vss_km.
ImportSelfShare(p) == [shareStore EXCEPT ![p][p] = p]

\* round2.Finalize: broadcast chain key and decommitment, evaluate the own
\* polynomial at every party, send each peer its share and import the own
\* one, SetLastRound, and return round3 with every manager passed on.  The
\* draft round2 has no Finalize.  A transient key-store failure may hit the
\* self-share import, which returns (nil, err): the session is lost with
\* the broadcast and the shares to the parties ordered before p already
\* out; or SetLastRound, which returns (r, err): everything was sent and
\* imported, and the driver calls Finalize again.
Finalize2(p) ==
    /\ status[p] = "run" /\ round[p] = 2 /\ Variant # "draft"
    /\ CanFinalize2(p)
    /\ \E ok \in OkValues(p) :
        \/ /\ msgs' = msgs \cup Broadcast(p, 3, ok, FALSE) \cup Shares(p)
           /\ shareStore' = ImportSelfShare(p)
           /\ \/ /\ lastRound' = [lastRound EXCEPT ![p] = 2]
                 /\ round' = [round EXCEPT ![p] = 3]
                 /\ rcvd' = [rcvd EXCEPT ![p] = {}]
                 /\ UNCHANGED <<status, storeFaults>>
              \/ /\ storeFaults < MaxStoreFaults
                 /\ storeFaults' = storeFaults + 1
                 /\ UNCHANGED <<status, round, rcvd, lastRound>>
        \/ /\ storeFaults < MaxStoreFaults
           /\ storeFaults' = storeFaults + 1
           /\ msgs' = msgs \cup Broadcast(p, 3, ok, FALSE)
                           \cup {m \in Shares(p) : m.to \in SentBefore(p)}
           /\ status' = [status EXCEPT ![p] = "failed"]
           /\ UNCHANGED <<shareStore, round, rcvd, lastRound>>
    /\ UNCHANGED <<culprit, fwd, keyStore, vssStore, groupKey, secret>>

-----------------------------------------------------------------------------
(* Round 3 (from the spec)                                                 *)

\* The decommitment of the chain key opens the round-1 commitment.
StoreDecommit(p, m) ==
    /\ Deliverable(p, m) /\ m.rnd = 3 /\ m.kind = "bc"
    /\ IF m.ok
       THEN rcvd' = [rcvd EXCEPT ![p] = @ \cup {m.from}] /\ UNCHANGED <<status, culprit>>
       ELSE AbortBy(p, m.from) /\ UNCHANGED rcvd
    /\ UNCHANGED <<round, fwd, keyStore, vssStore, shareStore, lastRound,
                   groupKey, secret, msgs,
                   storeFaults>>

\* Feldman: the share acted on the base equals the sender's imported
\* polynomial in the exponent evaluated at p.
ShareMatches3(p, m) == vssStore[p][m.from] # None /\ m.pt = p

StoreShare(p, m) ==
    /\ Deliverable(p, m) /\ m.rnd = 3 /\ m.kind = "p2p"
    /\ IF ShareMatches3(p, m)
       THEN /\ shareStore' = [shareStore EXCEPT ![p][m.from] = m.pt]
            /\ fwd' = [fwd EXCEPT ![p] = @ \cup {m.from}]
            /\ UNCHANGED <<status, culprit>>
       ELSE AbortBy(p, m.from) /\ UNCHANGED <<shareStore, fwd>>
    /\ UNCHANGED <<round, rcvd, keyStore, vssStore, lastRound, groupKey,
                   secret, msgs,
                   storeFaults>>

\* Sum the shares into the signing share and the polynomials into the group
\* key; the session completes.
Finalize3(p) ==
    /\ status[p] = "run" /\ round[p] = 3
    /\ OtherPartyIDs(p) \subseteq rcvd[p] /\ OtherPartyIDs(p) \subseteq fwd[p]
    /\ secret' = [secret EXCEPT ![p] = {<<j, shareStore[p][j]>> : j \in Party}]
    /\ groupKey' = [groupKey EXCEPT ![p] = {vssStore[p][j] : j \in Party}]
    /\ lastRound' = [lastRound EXCEPT ![p] = 3]
    /\ status' = [status EXCEPT ![p] = "done"]
    /\ UNCHANGED <<round, culprit, rcvd, fwd, keyStore, vssStore, shareStore,
                   msgs,
                   storeFaults>>

Receive(p) ==
    \E m \in msgs :
        \/ StoreOpening(p, m)
        \/ StoreDecommit(p, m)
        \/ StoreShare(p, m)

Finalize(p) == Finalize1(p) \/ Finalize2(p) \/ Finalize3(p)

Next == \E p \in Party : Start(p) \/ Receive(p) \/ Finalize(p)

\* The application starts every session; the driver keeps delivering and
\* calls Finalize once CanFinalize holds.
Fairness ==
    \A p \in Party :
        WF_vars(Start(p)) /\ WF_vars(Receive(p)) /\ WF_vars(Finalize(p))

Spec == Init /\ [][Next]_vars /\ Fairness

-----------------------------------------------------------------------------
(* Properties                                                              *)

TypeOK ==
    /\ round \in [Party -> 0..3]
    /\ status \in [Party -> Status]
    /\ culprit \in [Party -> Party \cup {None}]
    /\ rcvd \in [Party -> SUBSET Party]
    /\ fwd \in [Party -> SUBSET Party]
    /\ keyStore \in [Party -> [Party -> Party \cup {None}]]
    /\ vssStore \in [Party -> [Party -> Party \cup {None}]]
    /\ shareStore \in [Party -> [Party -> Party \cup {None}]]
    /\ lastRound \in [Party -> 0..3]
    /\ groupKey \in [Party -> SUBSET (Party \cup {None})]
    /\ secret \in [Party -> SUBSET (Party \X (Party \cup {None}))]
    /\ msgs \subseteq Msg
    /\ storeFaults \in 0..MaxStoreFaults

Honest == Party \ Faulty

\* An honest party's keygen only ever aborts naming a faulty party: no
\* honest opening fails the Schnorr-commitment check or the proof check of
\* round2.StoreBroadcastMessage, and no honest share fails round 3.
AbortBlamesFaulty ==
    \A p \in Honest : status[p] = "aborted" => culprit[p] \in Faulty

\* An honest party that completes holds the sum of the shares f_j(p), so
\* its share matches the summed exponent polynomial at p (scenario 3).
ShareConsistency ==
    \A p \in Honest :
        status[p] = "done" => secret[p] = {<<j, p>> : j \in Party}

\* The session outcome of p, as the abstract Session sees it: before Start,
\* or when Start returned no session, the party has not ended.
Outcome(p) == IF status[p] \in {"idle", "nosession"} THEN "run" ELSE status[p]

Abs == INSTANCE Session WITH outcome <- [p \in Party |-> Outcome(p)],
                             blamed <- culprit

\* FROST keygen implements the abstract Session: each party's keygen ends at
\* most once, and an honest party's abort (a rejected opening in
\* round2.StoreBroadcastMessage, a rejected decommitment or share in round
\* 3) names a faulty party, the store failure of round2.Finalize included.
SessionRefinement == Abs!Spec

\* Every honest party's keygen session ends, with a key or an abort.
Termination ==
    <>(\A p \in Honest : status[p] \in {"done", "aborted"})

=============================================================================
