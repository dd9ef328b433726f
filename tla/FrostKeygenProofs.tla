------------------------- MODULE FrostKeygenProofs -------------------------
(***************************************************************************)
(* Proofs about FROST key generation for every set of parties and every    *)
(* faulty subset: a completed party's secret share is the sum of the       *)
(* shares every party evaluated at it (all three round-2 versions), and,   *)
(* for the secp256k1 and ed25519 round 2, that FrostKeygen implements the  *)
(* abstract Session, so that an honest party's abort names a faulty one.   *)
(***************************************************************************)
EXTENDS FrostKeygen, TLAPS

\* The secret share of p: the share f_j(p) of every party j.
FullShare(p) == {<<j, p>> : j \in Party}

\* ec_vss_km only ever holds, for p, shares evaluated at p.
StoreInv == \A p, j \in Party : shareStore[p][j] \in {None, p}

\* msgmgr marks a sender only once its share is stored.
FwdInv == \A p \in Party : \A j \in fwd[p] : shareStore[p][j] = p

\* round2.Finalize imported the own share before returning round 3.
SelfInv == \A p \in Party : round[p] = 3 => shareStore[p][p] = p

\* A completed party holds its full secret share.
DoneInv == \A p \in Party : status[p] = "done" => secret[p] = FullShare(p)

\* The inductive invariant behind ShareConsistency.
ShareInv == TypeOK /\ StoreInv /\ FwdInv /\ SelfInv /\ DoneInv

\* What an honest party sends: openings and decommitments that verify, a
\* commitment that is not the identity, and the share of each receiver
\* evaluated at the receiver.
MsgInv ==
    \A m \in msgs : m.from \in Honest => m.ok /\ ~m.ident /\ m.pt = m.to

\* Nothing is marked before round 2.
RoundInv == \A p \in Party :
    /\ status[p] = "idle" => round[p] = 0
    /\ round[p] <= 1 => rcvd[p] = {}

\* vss_mgr holds the polynomial of every marked sender and the own one in
\* round 2, and every party's polynomial in round 3.
VssInv ==
    \A p \in Party :
        /\ round[p] = 2 => \A j \in rcvd[p] \cup {p} : vssStore[p][j] # None
        /\ round[p] = 3 => \A j \in Party : vssStore[p][j] # None

\* The inductive invariant behind SessionRefinement.
KeygenInv == ShareInv /\ MsgInv /\ RoundInv /\ VssInv /\ AbortBlamesFaulty

\* The messages p may add to msgs: well typed, from p, and as the code
\* computes them when p is honest.
Sendable(p) ==
    {m \in Msg : m.from = p /\ (p \in Honest => m.ok /\ ~m.ident /\ m.pt = m.to)}

-----------------------------------------------------------------------------
(* Lemmas about the operators of the model                                 *)

\* A broadcast with values p may choose is sendable by p.
LEMMA BroadcastSendable ==
    ASSUME NEW p \in Party, NEW r \in 2..3, NEW ok \in OkValues(p),
           NEW ident \in IdentValues(p)
    PROVE  Broadcast(p, r, ok, ident) \subseteq Sendable(p)
<1>1. ok \in BOOLEAN /\ ident \in BOOLEAN /\ (p \in Honest => ok /\ ~ident)
  BY DEF OkValues, IdentValues, Honest
<1>2. \A q \in OtherPartyIDs(p) :
        [rnd |-> r, kind |-> "bc", from |-> p, to |-> q, ok |-> ok,
         ident |-> ident, pt |-> q] \in Sendable(p)
  BY <1>1 DEF Sendable, Msg, OtherPartyIDs
<1>3. QED
  BY <1>2 DEF Broadcast

\* The shares round2.Finalize sends are sendable by p: an honest party
\* evaluates its polynomial at the receiver.
LEMMA SharesSendable ==
    ASSUME NEW p \in Party
    PROVE  Shares(p) \subseteq Sendable(p)
<1>1. \A q \in OtherPartyIDs(p) : \A x \in SharePoints(p, q) :
        [rnd |-> 3, kind |-> "p2p", from |-> p, to |-> q, ok |-> TRUE,
         ident |-> FALSE, pt |-> x] \in Sendable(p)
  BY DEF Sendable, Msg, OtherPartyIDs, SharePoints, Honest
<1>2. QED
  BY <1>1 DEF Shares

\* Adding sendable messages keeps msgs well typed and MsgInv true.
LEMMA SendKeeps ==
    ASSUME NEW p \in Party, NEW S, S \subseteq Sendable(p),
           msgs \subseteq Msg, MsgInv, msgs' = msgs \cup S
    PROVE  msgs' \subseteq Msg /\ MsgInv'
BY DEF Sendable, MsgInv

\* The imports of round2.StoreBroadcastMessage: the commitment and public
\* key, the polynomial, and the mark of the sender.
KeyImport(p, m) == [keyStore EXCEPT ![p][m.from] = m.from]
VssImport(p, m) == [vssStore EXCEPT ![p][m.from] = m.from]
Marked(p, m) == [rcvd EXCEPT ![p] = rcvd[p] \cup {m.from}]

\* What round2.StoreBroadcastMessage may do, whichever version runs: abort
\* on the commitment check before any import (OpeningRejected), abort on
\* the proof after the imports (ProofRejected), import without marking (the
\* draft), or import the polynomial and mark the sender (secp256k1, ed25519).
OpeningRejected(p, m) ==
    /\ status' = [status EXCEPT ![p] = "aborted"]
    /\ culprit' = [culprit EXCEPT ![p] = m.from]
    /\ UNCHANGED <<keyStore, vssStore, rcvd>>
    /\ \/ Variant = "secp" /\ m.ident
       \/ Variant = "draft" /\ ~m.ident

ProofRejected(p, m) ==
    /\ status' = [status EXCEPT ![p] = "aborted"]
    /\ culprit' = [culprit EXCEPT ![p] = m.from]
    /\ keyStore' = KeyImport(p, m)
    /\ UNCHANGED <<vssStore, rcvd>>
    /\ ~m.ok

ImportedUnmarked(p, m) ==
    /\ UNCHANGED <<status, culprit, vssStore, rcvd>>
    /\ keyStore' = KeyImport(p, m)
    /\ Variant = "draft"

ImportedMarked(p, m) ==
    /\ UNCHANGED <<status, culprit>>
    /\ keyStore' = KeyImport(p, m)
    /\ vssStore' = VssImport(p, m)
    /\ rcvd' = Marked(p, m)
    /\ Variant \in {"secp", "ed"}

LEMMA StoreOpeningCases ==
    ASSUME NEW p \in Party, NEW m, StoreOpening(p, m)
    PROVE  /\ Deliverable(p, m) /\ m.rnd = 2 /\ m.kind = "bc"
           /\ UNCHANGED <<round, fwd, shareStore, lastRound, groupKey, secret,
                          msgs, storeFaults>>
           /\ \/ OpeningRejected(p, m)
              \/ ProofRejected(p, m)
              \/ ImportedUnmarked(p, m)
              \/ ImportedMarked(p, m)
<1>1. /\ Deliverable(p, m) /\ m.rnd = 2 /\ m.kind = "bc"
      /\ UNCHANGED <<round, fwd, shareStore, lastRound, groupKey, secret,
                     msgs, storeFaults>>
  BY DEF StoreOpening
<1>2. CASE Variant = "secp"
  <2>1. StoreOpeningSecp(p, m)
    BY <1>2 DEF StoreOpening
  <2>2. QED
    BY <1>1, <1>2, <2>1 DEF StoreOpeningSecp, ImportThenVerify, ImportAndMark,
        IdentityRejected, AbortBy, OpeningRejected, ProofRejected,
        ImportedMarked, KeyImport, VssImport, Marked
<1>3. CASE Variant = "ed"
  <2>1. StoreOpeningEd(p, m)
    BY <1>3 DEF StoreOpening
  <2>2. QED
    BY <1>1, <1>3, <2>1 DEF StoreOpeningEd, ImportThenVerify, ImportAndMark,
        AbortBy, ProofRejected, ImportedMarked, KeyImport, VssImport, Marked
<1>4. CASE Variant = "draft"
  <2>1. StoreOpeningDraft(p, m)
    BY <1>4 DEF StoreOpening
  <2>2. QED
    BY <1>1, <1>4, <2>1 DEF StoreOpeningDraft, ImportThenVerify,
        IdentityRejectedDraft, AbortBy, OpeningRejected, ProofRejected,
        ImportedUnmarked, KeyImport
<1>5. QED
  BY <1>2, <1>3, <1>4, VariantAssumption

-----------------------------------------------------------------------------
(* ShareConsistency, for every version of round 2                          *)

LEMMA ShareInit == Init => ShareInv
<1> SUFFICES ASSUME Init PROVE ShareInv
  OBVIOUS
<1>1. TypeOK
  BY StoreFaultsAssumption DEF Init, TypeOK, Status
<1>2. StoreInv /\ FwdInv /\ SelfInv /\ DoneInv
  BY DEF Init, StoreInv, FwdInv, SelfInv, DoneInv
<1>3. QED
  BY <1>1, <1>2 DEF ShareInv

\* Every step keeps ShareInv.  Only round2.Finalize and the round-3 share
\* store write ec_vss_km, only the latter marks a sender in msgmgr, and
\* only the round-3 Finalize completes a party.
LEMMA ShareStep == ShareInv /\ [Next]_vars => ShareInv'
<1> SUFFICES ASSUME ShareInv, [Next]_vars PROVE ShareInv'
  OBVIOUS
<1>0. TypeOK /\ StoreInv /\ FwdInv /\ SelfInv /\ DoneInv
  BY DEF ShareInv
<1>1. ASSUME NEW p \in Party, Start(p) PROVE ShareInv'
  <2>1. /\ status[p] = "idle"
        /\ UNCHANGED <<culprit, rcvd, fwd, keyStore, vssStore, shareStore,
                       lastRound, groupKey, secret, msgs, storeFaults>>
    BY <1>1 DEF Start
  <2>2. CASE status' = [status EXCEPT ![p] = "run"] /\ round' = [round EXCEPT ![p] = 1]
    <3>1. TypeOK'
      BY <1>0, <2>1, <2>2 DEF TypeOK, Status
    <3>2. StoreInv' /\ FwdInv' /\ SelfInv' /\ DoneInv'
      BY <1>0, <2>1, <2>2 DEF TypeOK, StoreInv, FwdInv, SelfInv, DoneInv
    <3>3. QED
      BY <3>1, <3>2 DEF ShareInv
  <2>3. CASE status' = [status EXCEPT ![p] = "nosession"] /\ round' = round
    <3>1. TypeOK'
      BY <1>0, <2>1, <2>3 DEF TypeOK, Status
    <3>2. StoreInv' /\ FwdInv' /\ SelfInv' /\ DoneInv'
      BY <1>0, <2>1, <2>3 DEF TypeOK, StoreInv, FwdInv, SelfInv, DoneInv
    <3>3. QED
      BY <3>1, <3>2 DEF ShareInv
  <2>4. QED
    BY <1>1, <2>2, <2>3 DEF Start
<1>2. ASSUME NEW p \in Party, Finalize1(p) PROVE ShareInv'
  <2>1. PICK ok \in OkValues(p), ident \in IdentValues(p) :
            msgs' = msgs \cup Broadcast(p, 2, ok, ident)
    BY <1>2 DEF Finalize1
  <2>2. /\ status[p] = "run" /\ round[p] = 1
        /\ keyStore' = [keyStore EXCEPT ![p][p] = p]
        /\ vssStore' = [vssStore EXCEPT ![p][p] = p]
        /\ lastRound' = [lastRound EXCEPT ![p] = 1]
        /\ round' = [round EXCEPT ![p] = 2]
        /\ UNCHANGED <<status, culprit, rcvd, fwd, shareStore, groupKey, secret,
                       storeFaults>>
    BY <1>2 DEF Finalize1
  <2>3. msgs' \subseteq Msg
    <3>1. 2 \in 2..3
      OBVIOUS
    <3>2. Broadcast(p, 2, ok, ident) \subseteq Sendable(p)
      BY <3>1, BroadcastSendable
    <3>3. QED
      BY <1>0, <2>1, <3>2 DEF Sendable, TypeOK
  <2>4. TypeOK'
    BY <1>0, <2>2, <2>3 DEF TypeOK
  <2>5. StoreInv' /\ FwdInv' /\ SelfInv' /\ DoneInv'
    BY <1>0, <2>2 DEF TypeOK, StoreInv, FwdInv, SelfInv, DoneInv
  <2>6. QED
    BY <2>4, <2>5 DEF ShareInv
<1>3. ASSUME NEW p \in Party, NEW m \in msgs, StoreOpening(p, m)
      PROVE  ShareInv'
  <2>1. /\ status[p] = "run" /\ m.from \in Party
        /\ UNCHANGED <<round, fwd, shareStore, lastRound, groupKey, secret,
                       msgs, storeFaults>>
    BY <1>0, <1>3, StoreOpeningCases DEF Deliverable, TypeOK, Msg
  <2>2. KeyImport(p, m) \in [Party -> [Party -> Party \cup {None}]]
        /\ VssImport(p, m) \in [Party -> [Party -> Party \cup {None}]]
        /\ Marked(p, m) \in [Party -> SUBSET Party]
    BY <1>0, <2>1 DEF TypeOK, KeyImport, VssImport, Marked
  <2>3. StoreInv' /\ FwdInv' /\ SelfInv'
    BY <1>0, <2>1 DEF StoreInv, FwdInv, SelfInv
  <2>4. CASE OpeningRejected(p, m)
    BY <1>0, <2>1, <2>3, <2>4 DEF OpeningRejected, ShareInv, TypeOK, Status,
                                  DoneInv
  <2>5. CASE ProofRejected(p, m)
    BY <1>0, <2>1, <2>2, <2>3, <2>5 DEF ProofRejected, ShareInv, TypeOK,
                                        Status, DoneInv
  <2>6. CASE ImportedUnmarked(p, m)
    BY <1>0, <2>1, <2>2, <2>3, <2>6 DEF ImportedUnmarked, ShareInv, TypeOK,
                                        DoneInv
  <2>7. CASE ImportedMarked(p, m)
    BY <1>0, <2>1, <2>2, <2>3, <2>7 DEF ImportedMarked, ShareInv, TypeOK,
                                        DoneInv
  <2>8. QED
    BY <1>3, <2>4, <2>5, <2>6, <2>7, StoreOpeningCases
<1>4. ASSUME NEW p \in Party, Finalize2(p) PROVE ShareInv'
  <2>1. status[p] = "run" /\ round[p] = 2
    BY <1>4 DEF Finalize2
  <2>2. PICK ok \in OkValues(p) :
          \/ /\ msgs' = msgs \cup Broadcast(p, 3, ok, FALSE) \cup Shares(p)
             /\ shareStore' = ImportSelfShare(p)
             /\ \/ /\ lastRound' = [lastRound EXCEPT ![p] = 2]
                   /\ round' = [round EXCEPT ![p] = 3]
                   /\ rcvd' = [rcvd EXCEPT ![p] = {}]
                   /\ UNCHANGED <<status, storeFaults>>
                \/ /\ storeFaults < MaxStoreFaults
                   /\ storeFaults' = storeFaults + 1
                   /\ UNCHANGED <<status, round, rcvd, lastRound>>
          \/ /\ storeFaults < MaxStoreFaults
             /\ storeFaults' = storeFaults + 1
             /\ msgs' = msgs \cup Broadcast(p, 3, ok, FALSE)
                         \cup {m \in Shares(p) : m.to \in SentBefore(p)}
             /\ status' = [status EXCEPT ![p] = "failed"]
             /\ UNCHANGED <<shareStore, round, rcvd, lastRound>>
    BY <1>4 DEF Finalize2
  <2>3. UNCHANGED <<culprit, fwd, keyStore, vssStore, groupKey, secret>>
    BY <1>4 DEF Finalize2
  <2>4. /\ Broadcast(p, 3, ok, FALSE) \subseteq Sendable(p)
        /\ Shares(p) \subseteq Sendable(p)
    <3>1. FALSE \in IdentValues(p)
      BY Zenon DEF IdentValues
    <3>2. 3 \in 2..3
      OBVIOUS
    <3>3. QED
      BY <3>1, <3>2, BroadcastSendable, SharesSendable
  <2>5. ImportSelfShare(p) \in [Party -> [Party -> Party \cup {None}]]
    BY <1>0 DEF TypeOK, ImportSelfShare
  \* The round completes: round 3 with the own share imported.
  <2>6. CASE /\ msgs' = msgs \cup Broadcast(p, 3, ok, FALSE) \cup Shares(p)
             /\ shareStore' = ImportSelfShare(p)
             /\ lastRound' = [lastRound EXCEPT ![p] = 2]
             /\ round' = [round EXCEPT ![p] = 3]
             /\ rcvd' = [rcvd EXCEPT ![p] = {}]
             /\ UNCHANGED <<status, storeFaults>>
    <3>1. msgs' \subseteq Msg
      BY <1>0, <2>4, <2>6 DEF Sendable, TypeOK
    <3>2. /\ round' \in [Party -> 0..3] /\ lastRound' \in [Party -> 0..3]
          /\ rcvd' \in [Party -> SUBSET Party]
      BY <1>0, <2>6 DEF TypeOK
    <3>3. TypeOK'
      BY <1>0, <2>3, <2>5, <2>6, <3>1, <3>2 DEF TypeOK
    <3>4. StoreInv' /\ FwdInv' /\ SelfInv' /\ DoneInv'
      BY <1>0, <2>3, <2>6 DEF StoreInv, FwdInv, SelfInv, DoneInv,
                              ImportSelfShare, TypeOK
    <3>5. QED
      BY <3>3, <3>4 DEF ShareInv
  \* SetLastRound fails: everything is sent and imported, the round stays.
  <2>7. CASE /\ msgs' = msgs \cup Broadcast(p, 3, ok, FALSE) \cup Shares(p)
             /\ shareStore' = ImportSelfShare(p)
             /\ storeFaults < MaxStoreFaults
             /\ storeFaults' = storeFaults + 1
             /\ UNCHANGED <<status, round, rcvd, lastRound>>
    <3>1. msgs' \subseteq Msg
      BY <1>0, <2>4, <2>7 DEF Sendable, TypeOK
    <3>2. storeFaults' \in 0..MaxStoreFaults
      BY <1>0, <2>7, StoreFaultsAssumption DEF TypeOK
    <3>3. TypeOK'
      BY <1>0, <2>3, <2>5, <2>7, <3>1, <3>2 DEF TypeOK
    <3>4. StoreInv' /\ FwdInv' /\ SelfInv' /\ DoneInv'
      BY <1>0, <2>1, <2>3, <2>7 DEF StoreInv, FwdInv, SelfInv, DoneInv,
                                    ImportSelfShare, TypeOK
    <3>5. QED
      BY <3>3, <3>4 DEF ShareInv
  \* The self-share import fails: the session is lost.
  <2>8. CASE /\ storeFaults < MaxStoreFaults
             /\ storeFaults' = storeFaults + 1
             /\ msgs' = msgs \cup Broadcast(p, 3, ok, FALSE)
                         \cup {m \in Shares(p) : m.to \in SentBefore(p)}
             /\ status' = [status EXCEPT ![p] = "failed"]
             /\ UNCHANGED <<shareStore, round, rcvd, lastRound>>
    <3>1. msgs' \subseteq Msg
      BY <1>0, <2>4, <2>8 DEF Sendable, TypeOK
    <3>2. storeFaults' \in 0..MaxStoreFaults
      BY <1>0, <2>8, StoreFaultsAssumption DEF TypeOK
    <3>3. TypeOK'
      BY <1>0, <2>3, <2>8, <3>1, <3>2 DEF TypeOK, Status
    <3>4. StoreInv' /\ FwdInv' /\ SelfInv' /\ DoneInv'
      BY <1>0, <2>1, <2>3, <2>8 DEF StoreInv, FwdInv, SelfInv, DoneInv, TypeOK
    <3>5. QED
      BY <3>3, <3>4 DEF ShareInv
  <2>9. QED
    BY <2>2, <2>6, <2>7, <2>8
<1>5. ASSUME NEW p \in Party, NEW m \in msgs, StoreDecommit(p, m)
      PROVE  ShareInv'
  <2>1. /\ status[p] = "run" /\ m.from \in Party
        /\ UNCHANGED <<round, fwd, keyStore, vssStore, shareStore, lastRound,
                       groupKey, secret, msgs, storeFaults>>
    BY <1>0, <1>5 DEF StoreDecommit, Deliverable, TypeOK, Msg
  <2>2. CASE m.ok
    <3>1. rcvd' = [rcvd EXCEPT ![p] = rcvd[p] \cup {m.from}]
          /\ UNCHANGED <<status, culprit>>
      BY <1>5, <2>2 DEF StoreDecommit
    <3>2. QED
      BY <1>0, <2>1, <3>1 DEF ShareInv, TypeOK, StoreInv, FwdInv, SelfInv,
                              DoneInv
  <2>3. CASE ~m.ok
    <3>1. status' = [status EXCEPT ![p] = "aborted"]
          /\ culprit' = [culprit EXCEPT ![p] = m.from]
          /\ UNCHANGED rcvd
      BY <1>5, <2>3 DEF StoreDecommit, AbortBy
    <3>2. QED
      BY <1>0, <2>1, <3>1 DEF ShareInv, TypeOK, Status, StoreInv, FwdInv,
                              SelfInv, DoneInv
  <2>4. QED
    BY <2>2, <2>3
<1>6. ASSUME NEW p \in Party, NEW m \in msgs, StoreShare(p, m) PROVE ShareInv'
  <2>1. /\ status[p] = "run" /\ m.from \in Party
        /\ UNCHANGED <<round, rcvd, keyStore, vssStore, lastRound, groupKey,
                       secret, msgs, storeFaults>>
    BY <1>0, <1>6 DEF StoreShare, Deliverable, TypeOK, Msg
  <2>2. CASE ShareMatches3(p, m)
    <3>1. /\ shareStore' = [shareStore EXCEPT ![p][m.from] = p]
          /\ fwd' = [fwd EXCEPT ![p] = fwd[p] \cup {m.from}]
          /\ UNCHANGED <<status, culprit>>
      BY <1>6, <2>2 DEF StoreShare, ShareMatches3
    <3>2. QED
      BY <1>0, <2>1, <3>1 DEF ShareInv, TypeOK, StoreInv, FwdInv, SelfInv,
                              DoneInv
  <2>3. CASE ~ShareMatches3(p, m)
    <3>1. /\ status' = [status EXCEPT ![p] = "aborted"]
          /\ culprit' = [culprit EXCEPT ![p] = m.from]
          /\ UNCHANGED <<shareStore, fwd>>
      BY <1>6, <2>3 DEF StoreShare, AbortBy
    <3>2. QED
      BY <1>0, <2>1, <3>1 DEF ShareInv, TypeOK, Status, StoreInv, FwdInv,
                              SelfInv, DoneInv
  <2>4. QED
    BY <2>2, <2>3
<1>7. ASSUME NEW p \in Party, Finalize3(p) PROVE ShareInv'
  <2>1. /\ status[p] = "run" /\ round[p] = 3
        /\ OtherPartyIDs(p) \subseteq fwd[p]
        /\ secret' = [secret EXCEPT ![p] = {<<j, shareStore[p][j]>> : j \in Party}]
        /\ groupKey' = [groupKey EXCEPT ![p] = {vssStore[p][j] : j \in Party}]
        /\ lastRound' = [lastRound EXCEPT ![p] = 3]
        /\ status' = [status EXCEPT ![p] = "done"]
        /\ UNCHANGED <<round, culprit, rcvd, fwd, keyStore, vssStore, shareStore,
                       msgs, storeFaults>>
    BY <1>7 DEF Finalize3
  <2>2. \A j \in Party : shareStore[p][j] = p
    BY <1>0, <2>1 DEF FwdInv, SelfInv, OtherPartyIDs
  <2>3. secret' = [secret EXCEPT ![p] = FullShare(p)]
    BY <2>1, <2>2 DEF FullShare
  <2>4. TypeOK'
    BY <1>0, <2>1, <2>3 DEF TypeOK, Status, FullShare
  <2>5. StoreInv' /\ FwdInv' /\ SelfInv' /\ DoneInv'
    BY <1>0, <2>1, <2>3 DEF TypeOK, StoreInv, FwdInv, SelfInv, DoneInv
  <2>6. QED
    BY <2>4, <2>5 DEF ShareInv
<1>8. CASE UNCHANGED vars
  BY <1>0, <1>8 DEF vars, ShareInv, TypeOK, StoreInv, FwdInv, SelfInv,
                    DoneInv
<1>9. QED
  BY <1>1, <1>2, <1>3, <1>4, <1>5, <1>6, <1>7, <1>8
     DEF Next, Receive, Finalize

\* A completed party's secret share is the sum of the shares f_j(p) of
\* every party j, for every set of parties, every faulty subset and every
\* version of round 2: round2.Finalize imports the own share before it
\* returns round 3, and round 3 stores only shares that match at p.
THEOREM ShareConsistent == Spec => []ShareConsistency
<1>1. Init => ShareInv
  BY ShareInit
<1>2. ShareInv /\ [Next]_vars => ShareInv'
  BY ShareStep
<1>3. ShareInv => ShareConsistency
  BY DEF ShareInv, DoneInv, ShareConsistency, FullShare, Honest
<1>4. QED
  BY <1>1, <1>2, <1>3, PTL DEF Spec

-----------------------------------------------------------------------------
(* AbortBlamesFaulty, for the secp256k1 and ed25519 round 2                *)

\* A message that fails a check (its proof, the identity check, or the
\* Feldman check at its receiver) was sent by a faulty party.
LEMMA SenderFaulty ==
    ASSUME TypeOK, MsgInv, NEW m \in msgs, ~m.ok \/ m.ident \/ m.pt # m.to
    PROVE  m.from \in Faulty
BY DEF TypeOK, MsgInv, Msg, Honest

\* An abort naming a faulty party keeps AbortBlamesFaulty.
LEMMA AbortKeeps ==
    ASSUME AbortBlamesFaulty, NEW p \in Party, NEW q \in Faulty,
           status' = [status EXCEPT ![p] = "aborted"],
           culprit' = [culprit EXCEPT ![p] = q], status \in [Party -> Status],
           culprit \in [Party -> Party \cup {None}]
    PROVE  AbortBlamesFaulty'
BY DEF AbortBlamesFaulty, Honest

LEMMA KeygenInit == Init => KeygenInv
<1> SUFFICES ASSUME Init PROVE KeygenInv
  OBVIOUS
<1>1. ShareInv
  BY ShareInit
<1>2. MsgInv /\ RoundInv /\ VssInv /\ AbortBlamesFaulty
  BY DEF Init, MsgInv, RoundInv, VssInv, AbortBlamesFaulty, Honest
<1>3. QED
  BY <1>1, <1>2 DEF KeygenInv

\* With the secp256k1 or the ed25519 round 2, every step keeps KeygenInv.
LEMMA KeygenStep ==
    ASSUME Variant \in {"secp", "ed"}
    PROVE  KeygenInv /\ [Next]_vars => KeygenInv'
<1> SUFFICES ASSUME KeygenInv, [Next]_vars PROVE KeygenInv'
  OBVIOUS
<1>0. /\ TypeOK /\ MsgInv /\ RoundInv /\ VssInv /\ AbortBlamesFaulty
      /\ ShareInv'
  BY ShareStep DEF KeygenInv, ShareInv
<1>1. ASSUME NEW p \in Party, Start(p) PROVE KeygenInv'
  <2>1. /\ status[p] = "idle" /\ round[p] = 0 /\ rcvd[p] = {}
        /\ UNCHANGED <<culprit, rcvd, vssStore, msgs>>
    BY <1>0, <1>1 DEF Start, RoundInv
  <2>2. MsgInv'
    BY <1>0, <2>1 DEF MsgInv
  <2>3. CASE StartReturnsRound
    <3>1. /\ status' = [status EXCEPT ![p] = "run"]
          /\ round' = [round EXCEPT ![p] = 1]
      BY <1>1, <2>3 DEF Start
    <3>2. RoundInv' /\ VssInv'
      BY <1>0, <2>1, <3>1 DEF RoundInv, VssInv, TypeOK
    <3>3. AbortBlamesFaulty'
      BY <1>0, <2>1, <3>1 DEF AbortBlamesFaulty, TypeOK, Honest
    <3>4. QED
      BY <1>0, <2>2, <3>2, <3>3 DEF KeygenInv
  <2>4. CASE ~StartReturnsRound
    <3>1. /\ status' = [status EXCEPT ![p] = "nosession"]
          /\ UNCHANGED round
      BY <1>1, <2>4 DEF Start
    <3>2. RoundInv' /\ VssInv'
      BY <1>0, <2>1, <3>1 DEF RoundInv, VssInv, TypeOK
    <3>3. AbortBlamesFaulty'
      BY <1>0, <2>1, <3>1 DEF AbortBlamesFaulty, TypeOK, Honest
    <3>4. QED
      BY <1>0, <2>2, <3>2, <3>3 DEF KeygenInv
  <2>5. QED
    BY <2>3, <2>4
<1>2. ASSUME NEW p \in Party, Finalize1(p) PROVE KeygenInv'
  <2>1. PICK ok \in OkValues(p), ident \in IdentValues(p) :
            msgs' = msgs \cup Broadcast(p, 2, ok, ident)
    BY <1>2 DEF Finalize1
  <2>2. /\ round[p] = 1
        /\ vssStore' = [vssStore EXCEPT ![p][p] = p]
        /\ round' = [round EXCEPT ![p] = 2]
        /\ UNCHANGED <<status, culprit, rcvd>>
    BY <1>2 DEF Finalize1
  <2>3. MsgInv'
    <3>1. 2 \in 2..3
      OBVIOUS
    <3>2. Broadcast(p, 2, ok, ident) \subseteq Sendable(p)
      BY <3>1, BroadcastSendable
    <3>3. QED
      BY <1>0, <2>1, <3>2, SendKeeps DEF TypeOK
  <2>4. rcvd[p] = {}
    BY <1>0, <2>2 DEF RoundInv
  <2>5. RoundInv' /\ VssInv'
    BY <1>0, <2>2, <2>4, NoneAssumption DEF RoundInv, VssInv, TypeOK
  <2>6. AbortBlamesFaulty'
    BY <1>0, <2>2 DEF AbortBlamesFaulty
  <2>7. QED
    BY <1>0, <2>3, <2>5, <2>6 DEF KeygenInv
<1>3. ASSUME NEW p \in Party, NEW m \in msgs, StoreOpening(p, m)
      PROVE  KeygenInv'
  <2>1. /\ status[p] = "run" /\ round[p] = 2 /\ m.from \in Party
        /\ UNCHANGED <<round, msgs>>
    BY <1>0, <1>3, StoreOpeningCases DEF Deliverable, TypeOK, Msg
  <2>2. MsgInv'
    BY <1>0, <2>1 DEF MsgInv
  <2>3. CASE OpeningRejected(p, m)
    <3>1. m.ident
      BY <2>3 DEF OpeningRejected
    <3>2. m.from \in Faulty
      BY <1>0, <3>1, SenderFaulty
    <3>3. AbortBlamesFaulty'
      BY <1>0, <2>3, <3>2, AbortKeeps DEF OpeningRejected, TypeOK
    <3>4. RoundInv' /\ VssInv'
      BY <1>0, <2>1, <2>3 DEF OpeningRejected, RoundInv, VssInv
    <3>5. QED
      BY <1>0, <2>2, <3>3, <3>4 DEF KeygenInv
  <2>4. CASE ProofRejected(p, m)
    <3>1. m.from \in Faulty
      BY <1>0, <2>4, SenderFaulty DEF ProofRejected
    <3>2. AbortBlamesFaulty'
      BY <1>0, <2>4, <3>1, AbortKeeps DEF ProofRejected, TypeOK
    <3>3. RoundInv' /\ VssInv'
      BY <1>0, <2>1, <2>4 DEF ProofRejected, RoundInv, VssInv
    <3>4. QED
      BY <1>0, <2>2, <3>2, <3>3 DEF KeygenInv
  <2>5. CASE ImportedUnmarked(p, m)
    BY <2>5 DEF ImportedUnmarked
  <2>6. CASE ImportedMarked(p, m)
    <3>1. /\ vssStore' = [vssStore EXCEPT ![p][m.from] = m.from]
          /\ rcvd' = [rcvd EXCEPT ![p] = rcvd[p] \cup {m.from}]
          /\ UNCHANGED <<status, culprit>>
      BY <2>6 DEF ImportedMarked, VssImport, Marked
    <3>2. RoundInv'
      BY <1>0, <2>1, <3>1 DEF RoundInv, TypeOK
    <3>3. VssInv'
      BY <1>0, <2>1, <3>1, NoneAssumption DEF VssInv, TypeOK
    <3>4. AbortBlamesFaulty'
      BY <1>0, <3>1 DEF AbortBlamesFaulty
    <3>5. QED
      BY <1>0, <2>2, <3>2, <3>3, <3>4 DEF KeygenInv
  <2>7. QED
    BY <1>3, <2>3, <2>4, <2>5, <2>6, StoreOpeningCases
<1>4. ASSUME NEW p \in Party, Finalize2(p) PROVE KeygenInv'
  <2>1. /\ status[p] = "run" /\ round[p] = 2
        /\ OtherPartyIDs(p) \subseteq rcvd[p]
        /\ UNCHANGED <<culprit, vssStore>>
    BY <1>4 DEF Finalize2, CanFinalize2
  <2>2. \A j \in Party : vssStore[p][j] # None
    BY <1>0, <2>1 DEF VssInv, OtherPartyIDs
  <2>3. PICK ok \in OkValues(p) :
          \/ /\ msgs' = msgs \cup Broadcast(p, 3, ok, FALSE) \cup Shares(p)
             /\ \/ /\ round' = [round EXCEPT ![p] = 3]
                   /\ rcvd' = [rcvd EXCEPT ![p] = {}]
                   /\ UNCHANGED status
                \/ UNCHANGED <<status, round, rcvd>>
          \/ /\ msgs' = msgs \cup Broadcast(p, 3, ok, FALSE)
                         \cup {m \in Shares(p) : m.to \in SentBefore(p)}
             /\ status' = [status EXCEPT ![p] = "failed"]
             /\ UNCHANGED <<round, rcvd>>
    BY <1>4 DEF Finalize2
  <2>4. /\ Broadcast(p, 3, ok, FALSE) \subseteq Sendable(p)
        /\ Shares(p) \subseteq Sendable(p)
    <3>1. FALSE \in IdentValues(p)
      BY Zenon DEF IdentValues
    <3>2. 3 \in 2..3
      OBVIOUS
    <3>3. QED
      BY <3>1, <3>2, BroadcastSendable, SharesSendable
  <2>5. CASE /\ msgs' = msgs \cup Broadcast(p, 3, ok, FALSE) \cup Shares(p)
             /\ round' = [round EXCEPT ![p] = 3]
             /\ rcvd' = [rcvd EXCEPT ![p] = {}]
             /\ UNCHANGED status
    <3>1. MsgInv'
      <4>1. msgs' = msgs \cup (Broadcast(p, 3, ok, FALSE) \cup Shares(p))
        BY <2>5
      <4>2. QED
        BY <1>0, <2>4, <4>1, SendKeeps DEF TypeOK
    <3>2. RoundInv' /\ VssInv'
      <4>1. RoundInv'
        BY <1>0, <2>1, <2>5 DEF RoundInv, TypeOK
      <4>2. VssInv'
        BY <1>0, <2>1, <2>2, <2>5 DEF VssInv, ShareInv, TypeOK
      <4>3. QED
        BY <4>1, <4>2
    <3>3. AbortBlamesFaulty'
      BY <1>0, <2>1, <2>5 DEF AbortBlamesFaulty
    <3>4. QED
      BY <1>0, <3>1, <3>2, <3>3 DEF KeygenInv
  <2>6. CASE /\ msgs' = msgs \cup Broadcast(p, 3, ok, FALSE) \cup Shares(p)
             /\ UNCHANGED <<status, round, rcvd>>
    <3>1. MsgInv'
      <4>1. msgs' = msgs \cup (Broadcast(p, 3, ok, FALSE) \cup Shares(p))
        BY <2>6
      <4>2. QED
        BY <1>0, <2>4, <4>1, SendKeeps DEF TypeOK
    <3>2. RoundInv' /\ VssInv' /\ AbortBlamesFaulty'
      BY <1>0, <2>1, <2>6 DEF RoundInv, VssInv, AbortBlamesFaulty
    <3>3. QED
      BY <1>0, <3>1, <3>2 DEF KeygenInv
  <2>7. CASE /\ msgs' = msgs \cup Broadcast(p, 3, ok, FALSE)
                         \cup {m \in Shares(p) : m.to \in SentBefore(p)}
             /\ status' = [status EXCEPT ![p] = "failed"]
             /\ UNCHANGED <<round, rcvd>>
    <3>1. msgs' = msgs \cup (Broadcast(p, 3, ok, FALSE)
                       \cup {m \in Shares(p) : m.to \in SentBefore(p)})
      BY <2>7
    <3>2. MsgInv'
      <4>1. Broadcast(p, 3, ok, FALSE)
              \cup {m \in Shares(p) : m.to \in SentBefore(p)}
              \subseteq Sendable(p)
        BY <2>4
      <4>2. QED
        BY <1>0, <3>1, <4>1, SendKeeps DEF TypeOK
    <3>3. RoundInv' /\ VssInv'
      BY <1>0, <2>1, <2>7 DEF RoundInv, VssInv
    <3>4. AbortBlamesFaulty'
      BY <1>0, <2>1, <2>7 DEF AbortBlamesFaulty, TypeOK
    <3>5. QED
      BY <1>0, <3>2, <3>3, <3>4 DEF KeygenInv
  <2>8. QED
    BY <2>3, <2>5, <2>6, <2>7
<1>5. ASSUME NEW p \in Party, NEW m \in msgs, StoreDecommit(p, m)
      PROVE  KeygenInv'
  <2>1. /\ status[p] = "run" /\ round[p] = 3 /\ m.from \in Party
        /\ UNCHANGED <<round, vssStore, msgs>>
    BY <1>0, <1>5 DEF StoreDecommit, Deliverable, TypeOK, Msg
  <2>2. MsgInv'
    BY <1>0, <2>1 DEF MsgInv
  <2>3. CASE m.ok
    <3>1. rcvd' = [rcvd EXCEPT ![p] = rcvd[p] \cup {m.from}]
          /\ UNCHANGED <<status, culprit>>
      BY <1>5, <2>3 DEF StoreDecommit
    <3>2. RoundInv' /\ VssInv' /\ AbortBlamesFaulty'
      BY <1>0, <2>1, <3>1 DEF RoundInv, VssInv, AbortBlamesFaulty, TypeOK
    <3>3. QED
      BY <1>0, <2>2, <3>2 DEF KeygenInv
  <2>4. CASE ~m.ok
    <3>1. status' = [status EXCEPT ![p] = "aborted"]
          /\ culprit' = [culprit EXCEPT ![p] = m.from]
          /\ UNCHANGED rcvd
      BY <1>5, <2>4 DEF StoreDecommit, AbortBy
    <3>2. m.from \in Faulty
      BY <1>0, <2>4, SenderFaulty
    <3>3. AbortBlamesFaulty'
      BY <1>0, <3>1, <3>2, AbortKeeps DEF TypeOK
    <3>4. RoundInv' /\ VssInv'
      BY <1>0, <2>1, <3>1 DEF RoundInv, VssInv, TypeOK
    <3>5. QED
      BY <1>0, <2>2, <3>3, <3>4 DEF KeygenInv
  <2>5. QED
    BY <2>3, <2>4
<1>6. ASSUME NEW p \in Party, NEW m \in msgs, StoreShare(p, m)
      PROVE  KeygenInv'
  <2>1. /\ status[p] = "run" /\ round[p] = 3 /\ m.from \in Party /\ m.to = p
        /\ UNCHANGED <<round, rcvd, vssStore, msgs>>
    BY <1>0, <1>6 DEF StoreShare, Deliverable, TypeOK, Msg
  <2>2. MsgInv' /\ VssInv'
    BY <1>0, <2>1 DEF MsgInv, VssInv
  <2>3. CASE ShareMatches3(p, m)
    <3>1. UNCHANGED <<status, culprit>>
      BY <1>6, <2>3 DEF StoreShare
    <3>2. AbortBlamesFaulty' /\ RoundInv'
      BY <1>0, <2>1, <3>1 DEF AbortBlamesFaulty, RoundInv
    <3>3. QED
      BY <1>0, <2>2, <3>2 DEF KeygenInv
  <2>4. CASE ~ShareMatches3(p, m)
    <3>1. status' = [status EXCEPT ![p] = "aborted"]
          /\ culprit' = [culprit EXCEPT ![p] = m.from]
      BY <1>6, <2>4 DEF StoreShare, AbortBy
    <3>2. vssStore[p][m.from] # None
      BY <1>0, <2>1 DEF VssInv
    <3>3. m.pt # m.to
      BY <2>1, <2>4, <3>2 DEF ShareMatches3
    <3>4. m.from \in Faulty
      BY <1>0, <3>3, SenderFaulty
    <3>5. AbortBlamesFaulty'
      BY <1>0, <3>1, <3>4, AbortKeeps DEF TypeOK
    <3>6. RoundInv'
      BY <1>0, <2>1, <3>1 DEF RoundInv, TypeOK
    <3>7. QED
      BY <1>0, <2>2, <3>5, <3>6 DEF KeygenInv
  <2>5. QED
    BY <2>3, <2>4
<1>7. ASSUME NEW p \in Party, Finalize3(p) PROVE KeygenInv'
  <2>1. /\ status' = [status EXCEPT ![p] = "done"]
        /\ UNCHANGED <<round, culprit, rcvd, vssStore, msgs>>
    BY <1>7 DEF Finalize3
  <2>2. MsgInv' /\ RoundInv' /\ VssInv' /\ AbortBlamesFaulty'
    BY <1>0, <2>1 DEF MsgInv, RoundInv, VssInv, AbortBlamesFaulty, TypeOK
  <2>3. QED
    BY <1>0, <2>2 DEF KeygenInv
<1>8. CASE UNCHANGED vars
  BY <1>0, <1>8 DEF vars, KeygenInv, MsgInv, RoundInv, VssInv,
                    AbortBlamesFaulty
<1>9. QED
  BY <1>1, <1>2, <1>3, <1>4, <1>5, <1>6, <1>7, <1>8
     DEF Next, Receive, Finalize

-----------------------------------------------------------------------------
(* Refinement of Session, for the secp256k1 and ed25519 round 2           *)

\* A session that ends moves its abstract outcome from "run" to the end.
LEMMA OutcomeChange ==
    ASSUME TypeOK, NEW p \in Party, status[p] = "run",
           NEW v \in {"done", "aborted", "failed"},
           status' = [status EXCEPT ![p] = v]
    PROVE  /\ [q \in Party |-> Outcome(q)][p] = "run"
           /\ [q \in Party |-> Outcome(q)]'
                = [[q \in Party |-> Outcome(q)] EXCEPT ![p] = v]
BY DEF Outcome, TypeOK

\* FROSTKeygen.Start, with or without a first round, leaves the abstract
\* outcome at "run".
LEMMA OutcomeStart ==
    ASSUME TypeOK, NEW p \in Party, status[p] = "idle",
           NEW v \in {"run", "nosession"},
           status' = [status EXCEPT ![p] = v]
    PROVE  [q \in Party |-> Outcome(q)]' = [q \in Party |-> Outcome(q)]
BY DEF Outcome, TypeOK

\* An abort of p naming a faulty party is an abstract Abort.
LEMMA AbortMaps ==
    ASSUME TypeOK, NEW p \in Party, NEW q \in Faulty, status[p] = "run",
           AbortBy(p, q)
    PROVE  Abs!Next
<1>1. q \in Abs!Blameable(p)
  BY FaultyAssumption DEF Abs!Blameable
<1>2. Abs!Abort(p)
  BY <1>1, OutcomeChange DEF Abs!Abort, AbortBy
<1>3. QED
  BY <1>2 DEF Abs!Next

LEMMA RefinementStep ==
    ASSUME Variant \in {"secp", "ed"}
    PROVE  KeygenInv /\ [Next]_vars => [Abs!Next]_Abs!vars
<1> SUFFICES ASSUME KeygenInv, [Next]_vars PROVE [Abs!Next]_Abs!vars
  OBVIOUS
<1>0. TypeOK /\ MsgInv /\ VssInv
  BY DEF KeygenInv, ShareInv
<1>1. ASSUME NEW p \in Party, Start(p) PROVE UNCHANGED Abs!vars
  <2>1. status[p] = "idle" /\ UNCHANGED culprit
    BY <1>1 DEF Start
  <2>2. CASE StartReturnsRound
    BY <1>0, <1>1, <2>1, <2>2, OutcomeStart DEF Start, Abs!vars
  <2>3. CASE ~StartReturnsRound
    BY <1>0, <1>1, <2>1, <2>3, OutcomeStart DEF Start, Abs!vars
  <2>4. QED
    BY <2>2, <2>3
<1>2. ASSUME NEW p \in Party, Finalize1(p) PROVE UNCHANGED Abs!vars
  BY <1>2 DEF Finalize1, Abs!vars, Outcome
<1>3. ASSUME NEW p \in Party, NEW m \in msgs, StoreOpening(p, m)
      PROVE  [Abs!Next]_Abs!vars
  <2>1. status[p] = "run"
    BY <1>3, StoreOpeningCases DEF Deliverable
  <2>2. CASE OpeningRejected(p, m)
    <3>1. m.from \in Faulty
      BY <1>0, <2>2, SenderFaulty DEF OpeningRejected
    <3>2. QED
      BY <1>0, <2>1, <2>2, <3>1, AbortMaps DEF OpeningRejected, AbortBy
  <2>3. CASE ProofRejected(p, m)
    <3>1. m.from \in Faulty
      BY <1>0, <2>3, SenderFaulty DEF ProofRejected
    <3>2. QED
      BY <1>0, <2>1, <2>3, <3>1, AbortMaps DEF ProofRejected, AbortBy
  <2>4. CASE ImportedUnmarked(p, m)
    BY <2>4 DEF ImportedUnmarked
  <2>5. CASE ImportedMarked(p, m)
    BY <2>5 DEF ImportedMarked, Abs!vars, Outcome
  <2>6. QED
    BY <1>3, <2>2, <2>3, <2>4, <2>5, StoreOpeningCases
<1>4. ASSUME NEW p \in Party, Finalize2(p) PROVE [Abs!Next]_Abs!vars
  <2>1. status[p] = "run" /\ UNCHANGED culprit
    BY <1>4 DEF Finalize2
  <2>2. status' = status \/ status' = [status EXCEPT ![p] = "failed"]
    BY <1>4 DEF Finalize2
  <2>3. CASE status' = status
    BY <2>1, <2>3 DEF Abs!vars, Outcome
  <2>4. CASE status' = [status EXCEPT ![p] = "failed"]
    <3>1. Abs!Fail(p)
      BY <1>0, <2>1, <2>4, OutcomeChange DEF Abs!Fail
    <3>2. QED
      BY <3>1 DEF Abs!Next
  <2>5. QED
    BY <2>2, <2>3, <2>4
<1>5. ASSUME NEW p \in Party, NEW m \in msgs, StoreDecommit(p, m)
      PROVE  [Abs!Next]_Abs!vars
  <2>1. status[p] = "run"
    BY <1>5 DEF StoreDecommit, Deliverable
  <2>2. CASE m.ok
    BY <1>5, <2>2 DEF StoreDecommit, Abs!vars, Outcome
  <2>3. CASE ~m.ok
    <3>1. m.from \in Faulty
      BY <1>0, <2>3, SenderFaulty
    <3>2. AbortBy(p, m.from)
      BY <1>5, <2>3 DEF StoreDecommit
    <3>3. QED
      BY <1>0, <2>1, <3>1, <3>2, AbortMaps
  <2>4. QED
    BY <2>2, <2>3
<1>6. ASSUME NEW p \in Party, NEW m \in msgs, StoreShare(p, m)
      PROVE  [Abs!Next]_Abs!vars
  <2>1. /\ status[p] = "run" /\ round[p] = 3 /\ m.from \in Party /\ m.to = p
    BY <1>0, <1>6 DEF StoreShare, Deliverable, TypeOK, Msg
  <2>2. CASE ShareMatches3(p, m)
    BY <1>6, <2>2 DEF StoreShare, Abs!vars, Outcome
  <2>3. CASE ~ShareMatches3(p, m)
    <3>1. vssStore[p][m.from] # None
      BY <1>0, <2>1 DEF VssInv
    <3>2. m.from \in Faulty
      BY <1>0, <2>1, <2>3, <3>1, SenderFaulty DEF ShareMatches3
    <3>3. AbortBy(p, m.from)
      BY <1>6, <2>3 DEF StoreShare
    <3>4. QED
      BY <1>0, <2>1, <3>2, <3>3, AbortMaps
  <2>4. QED
    BY <2>2, <2>3
<1>7. ASSUME NEW p \in Party, Finalize3(p) PROVE [Abs!Next]_Abs!vars
  <2>1. Abs!Complete(p)
    BY <1>0, <1>7, OutcomeChange DEF Finalize3, Abs!Complete
  <2>2. QED
    BY <2>1 DEF Abs!Next
<1>8. CASE UNCHANGED vars
  BY <1>8 DEF vars, Abs!vars, Outcome
<1>9. QED
  BY <1>1, <1>2, <1>3, <1>4, <1>5, <1>6, <1>7, <1>8
     DEF Next, Receive, Finalize, Abs!vars

\* With the secp256k1 or the ed25519 round 2, FROST keygen implements the
\* abstract Session for every set of parties and every faulty subset: a
\* party's keygen ends at most once (round3.Finalize, an abort or a failed
\* round2.Finalize), and an honest party's abort, on an opening in
\* round2.StoreBroadcastMessage, a decommitment or a Feldman-checked share
\* in round 3, names a faulty party.  The draft round 2 is excluded: run
\* fk_draft shows its inverted identity check blaming an honest party.
THEOREM KeygenRefinement ==
    ASSUME Variant \in {"secp", "ed"}
    PROVE  Spec => SessionRefinement
<1>1. Init => KeygenInv
  BY KeygenInit
<1>2. Init => Abs!Init
  BY DEF Init, Abs!Init, Outcome
<1>3. KeygenInv /\ [Next]_vars => KeygenInv'
  BY KeygenStep
<1>4. KeygenInv /\ [Next]_vars => [Abs!Next]_Abs!vars
  BY RefinementStep
<1>5. QED
  BY <1>1, <1>2, <1>3, <1>4, PTL DEF Spec, SessionRefinement, Abs!Spec

=============================================================================
