----------------------------- MODULE CMPKeygen -----------------------------
(***************************************************************************)
(* The round engine of CMP key generation, rounds 3 to 5, for every party  *)
(* of one session (protocols/cmp/keygen/round3.go and round4.go).          *)
(*                                                                         *)
(* Each party holds one round object.  A round stores the messages of its  *)
(* own number (StoreBroadcastMessage, VerifyMessage + StoreMessage), and   *)
(* once it counts N-1 of them, Finalize computes the derived values, emits *)
(* the next round's messages and returns the next round object.  The       *)
(* driver (lib/round, not in this repository) is modelled from the spec:   *)
(* a message whose round number is not the receiver's current one is       *)
(* dropped, and a validation error aborts the session naming the sender.   *)
(*                                                                         *)
(* The network is the set of all messages ever sent: the transport is      *)
(* at-least-once, so a message may be delivered any number of times, in   *)
(* any order, and a message that arrived too early is delivered again.     *)
(*                                                                         *)
(* Data is abstracted to what the properties tell apart: party j's RID     *)
(* contribution is j itself, a VSS share is the evaluation point it was    *)
(* computed at (the honest share from j to i is F_j(i), i.e. point i), and *)
(* a proof or decommitment either verifies (ok) or not.                    *)
(***************************************************************************)
EXTENDS Naturals, FiniteSets

CONSTANTS
    Party,          \* the session's party ids
    Faulty,         \* parties whose messages may fail validation
    Loopback,       \* the transport hands a party its own broadcasts
    Round4Inherits, \* the round-4 object sees round 3's key managers
    None            \* the absent entry of a store

ASSUME PartyAssumption == IsFiniteSet(Party) /\ Party # {}
ASSUME FaultyAssumption == Faulty \subseteq Party
ASSUME FlagAssumption == Loopback \in BOOLEAN /\ Round4Inherits \in BOOLEAN

ASSUME NoneAssumption == None \notin Party

N == Cardinality(Party)

OtherPartyIDs(p) == Party \ {p}

Status == {"run", "done", "aborted", "failed", "crashed"}

\* A message of round rnd: a broadcast ("bc") or a direct message ("p2p").
\* ok: its decommitment / proofs verify; pt: the point its share is at.
Msg == [rnd : 3..5, kind : {"bc", "p2p"}, from : Party, to : Party,
        ok : BOOLEAN, pt : Party]

VARIABLES
    round,      \* round[p]: the number of p's current round object
    status,     \* status[p]: running, terminal result, abort, error, panic
    culprit,    \* culprit[p]: the party an abort of p names
    bcast,      \* bcast[p]: MessageBroadcasted of p's current round
    fwd,        \* fwd[p]: MessagesForwarded of p's round 4
    ridStore,   \* ridStore[p][j]: rid_km entry (id, j) at p
    shareStore, \* shareStore[p][j]: share from j imported into vss_km at p
    rid,        \* rid[p]: mpckey.RID written by p's round-3 Finalize
    secret,     \* secret[p]: UpdatedSecretECDSA of p's round-4 Finalize
    kmBound,    \* kmBound[p]: the key-manager fields of p's round object are set
    msgs        \* every message ever sent

vars == <<round, status, culprit, bcast, fwd, ridStore, shareStore, rid,
          secret, kmBound, msgs>>

-----------------------------------------------------------------------------
(* Helpers                                                                 *)

\* The recipients of a broadcast of p: every other party, and p itself when
\* the transport loops broadcasts back.
BroadcastTargets(p) == IF Loopback THEN Party ELSE OtherPartyIDs(p)

\* What p emits to q in round rnd: an honest party sends the message the
\* code computes; a faulty one may also send variants that fail validation
\* or carry a share evaluated at another point.
Out(p, q, r, k) ==
    IF p \in Faulty
    THEN [rnd : {r}, kind : {k}, from : {p}, to : {q}, ok : BOOLEAN,
          pt : IF k = "p2p" THEN Party ELSE {q}]
    ELSE {[rnd |-> r, kind |-> k, from |-> p, to |-> q, ok |-> TRUE, pt |-> q]}

Send(p, targets, r, k) == UNION {Out(p, q, r, k) : q \in targets}

\* The driver accepts m at p only in the round m is for.
Deliverable(p, m) ==
    /\ status[p] = "run"
    /\ m \in msgs
    /\ m.to = p
    /\ m.rnd = round[p]

\* Mutant: the driver ends the session on a validation error but does not
\* record the sender it names.
AbortByNoCulprit(p, q) ==
    /\ status' = [status EXCEPT ![p] = "aborted"]
    /\ UNCHANGED culprit

\* A validation error: the driver aborts the session naming the sender.
AbortBy(p, q) ==
    /\ status' = [status EXCEPT ![p] = "aborted"]
    /\ culprit' = [culprit EXCEPT ![p] = q]

\* A call on a nil key-manager interface: the goroutine panics.
Panic(p) == status' = [status EXCEPT ![p] = "crashed"]

\* Finalize returned (nil, err): the session has no next round.
Fail(p) == status' = [status EXCEPT ![p] = "failed"]

-----------------------------------------------------------------------------
(* Mutants: plausible bugs in the definitions below, each of which a       *)
(* property of a passing run must catch.                                   *)

\* round4.CanFinalize compares the share count with N instead of N-1.
CanFinalize4OffByOne(p) ==
    /\ Cardinality(bcast[p]) = N - 1
    /\ Cardinality(fwd[p]) = N

\* The VSS check is dropped.
ShareMatchesUnchecked(p, m) == TRUE

\* RID is folded over the other parties only.
XorRIDOthers(p) == {ridStore[p][j] : j \in OtherPartyIDs(p)}

-----------------------------------------------------------------------------
\* The number of the round object Finalize returns.
NextRound(r) == r + 1

-----------------------------------------------------------------------------
(* Initial state: every party has finished rounds 1 and 2 locally: its own *)
(* RID and its own share f_p(p) are in its stores, all commitments of      *)
(* round 2 have arrived, and its round-2 Finalize has not run yet.         *)

Init ==
    /\ round = [p \in Party |-> 2]
    /\ status = [p \in Party |-> "run"]
    /\ culprit = [p \in Party |-> None]
    /\ bcast = [p \in Party |-> {}]
    /\ fwd = [p \in Party |-> {}]
    /\ ridStore = [p \in Party |-> [j \in Party |-> IF j = p THEN p ELSE None]]
    /\ shareStore = [p \in Party |-> [j \in Party |-> IF j = p THEN p ELSE None]]
    /\ rid = [p \in Party |-> {}]
    /\ secret = [p \in Party |-> {}]
    /\ kmBound = [p \in Party |-> TRUE]
    /\ msgs = {}

-----------------------------------------------------------------------------
(* Actions                                                                 *)

\* Round 2 Finalize: broadcast the opening (RID, chain key, VSS exponents,
\* keys, Schnorr commitment, decommitment) and move to round 3.
Finalize2(p) ==
    /\ status[p] = "run" /\ round[p] = 2
    /\ round' = [round EXCEPT ![p] = NextRound(@)]
    /\ bcast' = [bcast EXCEPT ![p] = {}]
    /\ msgs' = msgs \cup Send(p, BroadcastTargets(p), 3, "bc")
    /\ UNCHANGED <<status, culprit, fwd, ridStore, shareStore, rid, secret,
                   kmBound>>

\* round3.StoreBroadcastMessage: the RID and every key are imported before
\* the decommitment is checked; only a verified opening is counted.
StoreOpening(p, m) ==
    /\ Deliverable(p, m) /\ m.rnd = 3 /\ m.kind = "bc"
    /\ ridStore' = [ridStore EXCEPT ![p][m.from] = m.from]
    /\ IF m.ok
       THEN /\ bcast' = [bcast EXCEPT ![p] = @ \cup {m.from}]
            /\ UNCHANGED <<status, culprit>>
       ELSE /\ AbortBy(p, m.from)
            /\ UNCHANGED bcast
    /\ UNCHANGED <<round, fwd, shareStore, rid, secret, kmBound, msgs>>

\* round3.CanFinalize: the number of stored openings is N-1.
CanFinalize3(p) == Cardinality(bcast[p]) = N - 1

\* round3.Finalize: RID = XOR of every party's rid_km entry; broadcast the
\* zkmod/zkprm proofs, send each other party its encrypted share f_p(j),
\* and return a round4 whose own key-manager fields are left unset.
XorRID(p) == {ridStore[p][j] : j \in Party}

Finalize3(p) ==
    /\ status[p] = "run" /\ round[p] = 3
    /\ CanFinalize3(p)
    /\ IF \E j \in Party : ridStore[p][j] = None
       THEN /\ Fail(p)
            /\ UNCHANGED <<round, bcast, fwd, rid, kmBound, msgs>>
       ELSE /\ rid' = [rid EXCEPT ![p] = XorRID(p)]
            /\ msgs' = msgs \cup Send(p, BroadcastTargets(p), 4, "bc")
                            \cup Send(p, OtherPartyIDs(p), 4, "p2p")
            /\ round' = [round EXCEPT ![p] = NextRound(@)]
            /\ bcast' = [bcast EXCEPT ![p] = {}]
            /\ fwd' = [fwd EXCEPT ![p] = {}]
            /\ kmBound' = [kmBound EXCEPT ![p] = Round4Inherits]
            /\ UNCHANGED status
    /\ UNCHANGED <<culprit, ridStore, shareStore, secret>>

\* round4.StoreBroadcastMessage: verify the sender's zkmod and zkprm proofs.
StoreProofs(p, m) ==
    /\ Deliverable(p, m) /\ m.rnd = 4 /\ m.kind = "bc"
    /\ IF ~kmBound[p]
       THEN Panic(p) /\ UNCHANGED <<culprit, bcast>>
       ELSE IF m.ok
       THEN /\ bcast' = [bcast EXCEPT ![p] = @ \cup {m.from}]
            /\ UNCHANGED <<status, culprit>>
       ELSE AbortBy(p, m.from) /\ UNCHANGED bcast
    /\ UNCHANGED <<round, fwd, ridStore, shareStore, rid, secret, kmBound,
                   msgs>>

\* round4.StoreMessage, Feldman check: the decrypted share acted on the base
\* equals the sender's exponent polynomial evaluated at p.
ShareMatches(p, m) == m.pt = p

\* round4.VerifyMessage (ciphertext, zkfac) then round4.StoreMessage (range
\* and VSS check, import the share, mark the sender).
StoreShare(p, m) ==
    /\ Deliverable(p, m) /\ m.rnd = 4 /\ m.kind = "p2p"
    /\ IF ~kmBound[p]
       THEN Panic(p) /\ UNCHANGED <<culprit, fwd, shareStore>>
       ELSE IF m.ok /\ ShareMatches(p, m)
       THEN /\ shareStore' = [shareStore EXCEPT ![p][m.from] = m.pt]
            /\ fwd' = [fwd EXCEPT ![p] = @ \cup {m.from}]
            /\ UNCHANGED <<status, culprit>>
       ELSE AbortBy(p, m.from) /\ UNCHANGED <<fwd, shareStore>>
    /\ UNCHANGED <<round, bcast, ridStore, rid, secret, kmBound, msgs>>

\* round4.CanFinalize: N-1 proof broadcasts and N-1 shares.
CanFinalize4(p) ==
    /\ Cardinality(bcast[p]) = N - 1
    /\ Cardinality(fwd[p]) = N - 1

\* The new secret share: the sum of the shares from every party.
SumShares(p) == {<<j, shareStore[p][j]>> : j \in Party}

\* round4.Finalize: sum the shares, compute the public shares F(j), prove
\* knowledge of the secret and broadcast it; move to round 5.
Finalize4(p) ==
    /\ status[p] = "run" /\ round[p] = 4
    /\ CanFinalize4(p)
    /\ IF ~kmBound[p]
       THEN Panic(p) /\ UNCHANGED <<round, bcast, secret, msgs>>
       ELSE IF \E j \in Party : shareStore[p][j] = None
       THEN Fail(p) /\ UNCHANGED <<round, bcast, secret, msgs>>
       ELSE /\ secret' = [secret EXCEPT ![p] = SumShares(p)]
            /\ msgs' = msgs \cup Send(p, BroadcastTargets(p), 5, "bc")
            /\ round' = [round EXCEPT ![p] = NextRound(@)]
            /\ bcast' = [bcast EXCEPT ![p] = {}]
            /\ UNCHANGED status
    /\ UNCHANGED <<culprit, fwd, ridStore, shareStore, rid, kmBound>>

\* Round 5 (from the spec): verify each peer's Schnorr proof.
StoreConfirm(p, m) ==
    /\ Deliverable(p, m) /\ m.rnd = 5 /\ m.kind = "bc"
    /\ IF m.ok
       THEN /\ bcast' = [bcast EXCEPT ![p] = @ \cup {m.from}]
            /\ UNCHANGED <<status, culprit>>
       ELSE AbortBy(p, m.from) /\ UNCHANGED bcast
    /\ UNCHANGED <<round, fwd, ridStore, shareStore, rid, secret, kmBound,
                   msgs>>

\* Round 5 Finalize (from the spec): return the terminal result.
Finalize5(p) ==
    /\ status[p] = "run" /\ round[p] = 5
    /\ Cardinality(bcast[p]) = N - 1
    /\ status' = [status EXCEPT ![p] = "done"]
    /\ UNCHANGED <<round, culprit, bcast, fwd, ridStore, shareStore, rid,
                   secret, kmBound, msgs>>

Receive(p) ==
    \E m \in msgs :
        \/ StoreOpening(p, m)
        \/ StoreProofs(p, m)
        \/ StoreShare(p, m)
        \/ StoreConfirm(p, m)

Finalize(p) ==
    \/ Finalize2(p)
    \/ Finalize3(p)
    \/ Finalize4(p)
    \/ Finalize5(p)

Next == \E p \in Party : Receive(p) \/ Finalize(p)

\* The driver re-drives every party: it keeps consuming deliverable messages
\* and calls Finalize when CanFinalize holds.  The transport's at-least-once
\* delivery is the set msgs, which never loses a message.
Fairness == \A p \in Party : WF_vars(Receive(p)) /\ WF_vars(Finalize(p))

Spec == Init /\ [][Next]_vars /\ Fairness

-----------------------------------------------------------------------------
(* Properties                                                              *)

TypeOK ==
    /\ round \in [Party -> 2..5]
    /\ status \in [Party -> Status]
    /\ culprit \in [Party -> Party \cup {None}]
    /\ bcast \in [Party -> SUBSET Party]
    /\ fwd \in [Party -> SUBSET Party]
    /\ ridStore \in [Party -> [Party -> Party \cup {None}]]
    /\ shareStore \in [Party -> [Party -> Party \cup {None}]]
    /\ rid \in [Party -> SUBSET Party]
    /\ secret \in [Party -> SUBSET (Party \X Party)]
    /\ kmBound \in [Party -> BOOLEAN]
    /\ msgs \subseteq Msg

Honest == Party \ Faulty

\* An honest party only ever aborts naming a faulty party: no ordering,
\* duplication or early arrival of honest messages fails a validation in
\* round3/round4 StoreBroadcastMessage, VerifyMessage or StoreMessage.
AbortBlamesFaulty ==
    \A p \in Honest : status[p] = "aborted" => culprit[p] \in Faulty

\* Any two honest parties that have left round 3 wrote the same RID into
\* their mpckey in round3.Finalize (scenario 1: identical RID everywhere).
RIDAgreement ==
    \A p, q \in Honest :
        round[p] > 3 /\ round[q] > 3 /\ status[p] # "failed"
        /\ status[q] # "failed" => rid[p] = rid[q]

\* The public share of j that round4.Finalize computes, F(j) = sum_k F_k(j).
PublicShare(j) == {<<k, j>> : k \in Party}

\* Every honest party that finished round 4 holds a secret share whose
\* public point is the F(p) every party records for it (share.G = Y_self),
\* whatever shares a faulty sender tried.
ShareConsistency ==
    \A p \in Honest : round[p] = 5 => secret[p] = PublicShare(p)

\* The inductive strengthening of ShareConsistency: every share a party has
\* imported into vss_km is evaluated at its own point, and the secret of a
\* party that finished round 4 is the sum of such shares.
ShareInv ==
    /\ TypeOK
    /\ \A p, j \in Party : shareStore[p][j] \in {None, p}
    /\ \A p \in Party : round[p] = 5 => secret[p] = PublicShare(p)

\* The inductive strengthening of AbortBlamesFaulty: every message from an
\* honest party carries valid proofs and the share evaluated at its
\* receiver's point, as round3.Finalize and round4.Finalize compute them.
BlameInv ==
    /\ TypeOK
    /\ \A m \in msgs : m.from \in Honest => m.ok /\ m.pt = m.to
    /\ AbortBlamesFaulty

\* Every honest party's session eventually ends: with a result, or an abort.
Termination ==
    <>(\A p \in Honest : status[p] \in {"done", "aborted"})

\* Finalize is only called when every other party's message has arrived, so
\* a session never ends in a missing-key error (spec 4.1 inv. 3, 4.2).
NoFailedSession == \A p \in Party : status[p] # "failed"

\* What a party's session shows the caller: a panic in a round-4 method ends
\* the session without a result, as an error does.
Outcome(p) == IF status[p] = "crashed" THEN "failed" ELSE status[p]

Abs == INSTANCE Session WITH outcome <- [p \in Party |-> Outcome(p)],
                             blamed <- culprit

\* CMP keygen implements the abstract Session: each party's session ends at
\* most once (round 5's result, an abort on a failed validation in rounds
\* 3 to 5, a Finalize error or a panic), and an honest party's abort names
\* a faulty party.
SessionRefinement == Abs!Spec

=============================================================================
