-------------------------- MODULE FrostSignProofs --------------------------
(***************************************************************************)
(* Proofs about FROST signing for every cohort and every faulty subset:    *)
(* the type invariant, and that FrostSign implements the abstract Session, *)
(* so that an honest signer's abort always names a faulty signer.          *)
(***************************************************************************)
EXTENDS FrostSign, TLAPS

\* The group commitment of the whole cohort: every party's own pair.
Full == {<<l, l>> : l \in Party}

\* sign_d / sign_e only ever hold a party's own commitment pair under its ID.
StoreInv == \A p, l \in Party : nonceStore[p][l] \in {None, l}

\* A party in round 3 summed every party's commitment pair into R.
ViewInv == \A p \in Party : round[p] = 3 => rView[p] = Full

\* What an honest party sends: commitments that are not the identity, and
\* a z computed over the full group commitment.
MsgInv ==
    \A m \in msgs :
        m.from \in Honest => ~m.ident /\ m.ok /\ (m.rnd = 3 => m.view = Full)

\* The inductive invariant behind SessionRefinement.
IInv == TypeOK /\ StoreInv /\ ViewInv /\ MsgInv /\ AbortBlamesFaulty

-----------------------------------------------------------------------------

\* Broadcast emits well-typed messages.
LEMMA BroadcastType ==
    ASSUME NEW p \in Party, NEW r \in 2..3, NEW ident \in BOOLEAN,
           NEW ok \in BOOLEAN, NEW view \in GroupCommitments
    PROVE  Broadcast(p, r, ident, ok, view) \subseteq Msg
<1>1. \A q \in OtherPartyIDs(p) :
        [rnd |-> r, from |-> p, to |-> q, ident |-> ident, ok |-> ok,
         view |-> view] \in Msg
  BY DEF Msg, OtherPartyIDs
<1>2. QED
  BY <1>1 DEF Broadcast

\* The group commitment a party computes is in the type, and is Full once
\* every commitment pair is held.
LEMMA GroupCommitmentFacts ==
    ASSUME TypeOK, StoreInv, NEW p \in Party
    PROVE  /\ GroupCommitment(p) \in GroupCommitments
           /\ (\A l \in Party : nonceStore[p][l] # None) => GroupCommitment(p) = Full
<1>1. GroupCommitment(p) \in GroupCommitments
  BY DEF TypeOK, GroupCommitment, GroupCommitments
<1>2. ASSUME \A l \in Party : nonceStore[p][l] # None
      PROVE  GroupCommitment(p) = Full
  <2>1. \A l \in Party : nonceStore[p][l] = l
    BY <1>2 DEF StoreInv
  <2>2. QED
    BY <2>1 DEF GroupCommitment, Full
<1>3. QED
  BY <1>1, <1>2

\* An honest party's broadcast values are those of the code.
LEMMA HonestValues ==
    ASSUME NEW p \in Honest
    PROVE  IdentValues(p) = {FALSE} /\ OkValues(p) = {TRUE}
BY DEF Honest, IdentValues, OkValues

-----------------------------------------------------------------------------

LEMMA IInvInit == Init => IInv
<1> SUFFICES ASSUME Init PROVE IInv
  OBVIOUS
<1>1. TypeOK
  <2>1. {} \in GroupCommitments
    BY DEF GroupCommitments
  <2>2. QED
    BY <2>1 DEF Init, TypeOK, Status
<1>2. StoreInv
  BY DEF Init, StoreInv
<1>3. ViewInv
  BY DEF Init, ViewInv
<1>4. MsgInv
  BY DEF Init, MsgInv
<1>5. AbortBlamesFaulty
  BY DEF Init, AbortBlamesFaulty, Honest
<1>6. QED
  BY <1>1, <1>2, <1>3, <1>4, <1>5 DEF IInv

\* A message in msgs whose check fails was sent by a faulty party.
LEMMA SenderFaulty ==
    ASSUME TypeOK, MsgInv, NEW m \in msgs,
           m.ident \/ ~m.ok \/ (m.rnd = 3 /\ m.view # Full)
    PROVE  m.from \in Faulty
BY DEF TypeOK, MsgInv, Msg, Honest

LEMMA IInvStep == IInv /\ [Next]_vars => IInv'
<1> SUFFICES ASSUME IInv, [Next]_vars PROVE IInv'
  OBVIOUS
<1>0. TypeOK /\ StoreInv /\ ViewInv /\ MsgInv /\ AbortBlamesFaulty
  BY DEF IInv
<1>1. ASSUME NEW p \in Party, Finalize1(p) PROVE IInv'
  <2>1. PICK ident \in IdentValues(p) :
            msgs' = msgs \cup Broadcast(p, 2, ident, TRUE, {})
    BY <1>1 DEF Finalize1
  <2>2. ident \in BOOLEAN /\ (p \in Honest => ~ident)
    BY DEF IdentValues, Honest
  <2>3. /\ Broadcast(p, 2, ident, TRUE, {}) \subseteq Msg
        /\ \A m \in Broadcast(p, 2, ident, TRUE, {}) :
               m.from = p /\ m.ident = ident /\ m.ok /\ m.rnd = 2
    <3>1. {} \in GroupCommitments /\ 2 \in 2..3 /\ TRUE \in BOOLEAN
      BY DEF GroupCommitments
    <3>2. Broadcast(p, 2, ident, TRUE, {}) \subseteq Msg
      BY <2>2, <3>1, BroadcastType
    <3>3. \A m \in Broadcast(p, 2, ident, TRUE, {}) :
              m.from = p /\ m.ident = ident /\ m.ok /\ m.rnd = 2
      BY DEF Broadcast
    <3>4. QED
      BY <3>2, <3>3
  <2>4. TypeOK'
    <3>1. round' \in [Party -> 1..3]
      BY <1>0, <1>1 DEF Finalize1, TypeOK
    <3>2. nonceStore' \in [Party -> [Party -> Party \cup {None}]]
      BY <1>0, <1>1 DEF Finalize1, TypeOK
    <3>3. msgs' \subseteq Msg
      BY <1>0, <2>1, <2>3 DEF TypeOK
    <3>4. QED
      BY <1>0, <1>1, <3>1, <3>2, <3>3 DEF Finalize1, TypeOK
  <2>5. StoreInv'
    BY <1>0, <1>1 DEF Finalize1, StoreInv, TypeOK
  <2>6. ViewInv'
    BY <1>0, <1>1 DEF Finalize1, ViewInv, TypeOK
  <2>7. MsgInv'
    <3> SUFFICES ASSUME NEW m \in msgs', m.from \in Honest
                 PROVE  ~m.ident /\ m.ok /\ (m.rnd = 3 => m.view = Full)
      BY DEF MsgInv
    <3>1. CASE m \in msgs
      BY <1>0, <3>1 DEF MsgInv
    <3>2. CASE m \in Broadcast(p, 2, ident, TRUE, {})
      <4>1. m.from = p /\ m.ident = ident /\ m.ok /\ m.rnd = 2
        BY <2>3, <3>2
      <4>2. ~ident
        BY <2>2, <4>1
      <4>3. QED
        BY <4>1, <4>2
    <3>3. QED
      BY <2>1, <3>1, <3>2
  <2>8. AbortBlamesFaulty'
    BY <1>0, <1>1 DEF Finalize1, AbortBlamesFaulty
  <2>9. QED
    BY <2>4, <2>5, <2>6, <2>7, <2>8 DEF IInv
<1>2. ASSUME NEW p \in Party, NEW m \in msgs, StoreNonces(p, m) PROVE IInv'
  <2>1. m \in Msg /\ m.to = p /\ m.rnd = 2
    BY <1>0, <1>2 DEF StoreNonces, Deliverable, TypeOK
  <2>2. CASE m.ident
    <3>1. m.from \in Faulty
      BY <1>0, <2>2, SenderFaulty
    <3>2. TypeOK'
      BY <1>0, <1>2, <2>1, <2>2 DEF StoreNonces, AbortBy, TypeOK, Msg, Status
    <3>3. StoreInv' /\ ViewInv' /\ MsgInv'
      BY <1>0, <1>2, <2>2 DEF StoreNonces, StoreInv, ViewInv, MsgInv
    <3>4. AbortBlamesFaulty'
      BY <1>0, <1>2, <2>2, <3>1 DEF StoreNonces, AbortBy, AbortBlamesFaulty,
                                    TypeOK, Honest
    <3>5. QED
      BY <3>2, <3>3, <3>4 DEF IInv
  <2>3. CASE ~m.ident
    <3>1. nonceStore' = [nonceStore EXCEPT ![p][m.from] = m.from]
      BY <1>2, <2>3 DEF StoreNonces, ImportNonces
    <3>2. TypeOK'
      BY <1>0, <1>2, <2>1, <2>3, <3>1 DEF StoreNonces, TypeOK, Msg
    <3>3. StoreInv'
      BY <1>0, <2>1, <3>1 DEF StoreInv, TypeOK, Msg
    <3>4. ViewInv' /\ MsgInv' /\ AbortBlamesFaulty'
      BY <1>0, <1>2, <2>3 DEF StoreNonces, ViewInv, MsgInv, AbortBlamesFaulty
    <3>5. QED
      BY <3>2, <3>3, <3>4 DEF IInv
  <2>4. QED
    BY <2>2, <2>3
<1>3. ASSUME NEW p \in Party, Finalize2(p) PROVE IInv'
  <2>1. status[p] = "run" /\ round[p] = 2
    BY <1>3 DEF Finalize2
  \* GetKey finds every D_l and E_l: an earlier call changed nothing.
  <2>2. CASE \E l \in Party : nonceStore[p][l] = None
    BY <1>3, <2>2 DEF Finalize2, NoncesStored
  <2>3. CASE ~\E l \in Party : nonceStore[p][l] = None
    <3>1. GroupCommitment(p) = Full /\ GroupCommitment(p) \in GroupCommitments
      BY <1>0, <2>3, GroupCommitmentFacts
    <3>2. PICK ok \in OkValues(p) :
              msgs' = msgs \cup Broadcast(p, 3, FALSE, ok, GroupCommitment(p))
      BY <1>3, <2>3 DEF Finalize2
    <3>3. ok \in BOOLEAN /\ (p \in Honest => ok)
      BY DEF OkValues, Honest
    <3>4. /\ Broadcast(p, 3, FALSE, ok, GroupCommitment(p)) \subseteq Msg
          /\ \A m \in Broadcast(p, 3, FALSE, ok, GroupCommitment(p)) :
                 m.from = p /\ ~m.ident /\ m.ok = ok /\ m.view = Full
      <4>1. Broadcast(p, 3, FALSE, ok, GroupCommitment(p)) \subseteq Msg
        <5>1. 3 \in 2..3 /\ FALSE \in BOOLEAN
          OBVIOUS
        <5>2. QED
          BY <3>1, <3>3, <5>1, BroadcastType
      <4>2. \A m \in Broadcast(p, 3, FALSE, ok, GroupCommitment(p)) :
                m.from = p /\ ~m.ident /\ m.ok = ok /\ m.view = Full
        BY <3>1 DEF Broadcast
      <4>3. QED
        BY <4>1, <4>2
    <3>5. /\ rView' = [rView EXCEPT ![p] = Full]
          /\ \/ round' = [round EXCEPT ![p] = 3] /\ UNCHANGED status
             \/ status' = [status EXCEPT ![p] = "noround"] /\ UNCHANGED round
          /\ UNCHANGED <<culprit, nonceStore, zRcvd, sig>>
      BY <1>3, <2>3, <3>1 DEF Finalize2
    <3>6. TypeOK'
      <4>1. rView' \in [Party -> GroupCommitments]
        BY <1>0, <3>1, <3>5 DEF TypeOK
      <4>2. round' \in [Party -> 1..3] /\ status' \in [Party -> Status]
        BY <1>0, <3>5 DEF TypeOK, Status
      <4>3. msgs' \subseteq Msg
        BY <1>0, <3>2, <3>4 DEF TypeOK
      <4>4. QED
        BY <1>0, <3>5, <4>1, <4>2, <4>3 DEF TypeOK
    <3>7. StoreInv'
      BY <1>0, <3>5 DEF StoreInv
    <3>8. ViewInv'
      BY <1>0, <3>5 DEF ViewInv, TypeOK
    <3>9. MsgInv'
      BY <1>0, <3>2, <3>3, <3>4 DEF MsgInv
    <3>10. AbortBlamesFaulty'
      BY <1>0, <2>1, <3>5 DEF AbortBlamesFaulty, TypeOK, Honest
    <3>11. QED
      BY <3>6, <3>7, <3>8, <3>9, <3>10 DEF IInv
  <2>4. QED
    BY <2>2, <2>3
<1>4. ASSUME NEW p \in Party, NEW m \in msgs, StoreResponse(p, m) PROVE IInv'
  <2>1. m \in Msg /\ m.to = p /\ m.rnd = 3 /\ round[p] = 3
    BY <1>0, <1>4 DEF StoreResponse, Deliverable, TypeOK
  <2>2. rView[p] = Full
    BY <1>0, <2>1 DEF ViewInv
  <2>3. CASE m.ok /\ m.view = rView[p]
    <3>1. TypeOK'
      BY <1>0, <1>4, <2>1, <2>3 DEF StoreResponse, TypeOK, Msg
    <3>2. StoreInv' /\ ViewInv' /\ MsgInv' /\ AbortBlamesFaulty'
      BY <1>0, <1>4, <2>3 DEF StoreResponse, StoreInv, ViewInv, MsgInv,
                              AbortBlamesFaulty
    <3>3. QED
      BY <3>1, <3>2 DEF IInv
  <2>4. CASE ~(m.ok /\ m.view = rView[p])
    <3>1. m.from \in Faulty
      BY <1>0, <2>1, <2>2, <2>4, SenderFaulty
    <3>2. TypeOK'
      BY <1>0, <1>4, <2>1, <2>4 DEF StoreResponse, AbortBy, TypeOK, Msg, Status
    <3>3. StoreInv' /\ ViewInv' /\ MsgInv'
      BY <1>0, <1>4, <2>4 DEF StoreResponse, StoreInv, ViewInv, MsgInv
    <3>4. AbortBlamesFaulty'
      BY <1>0, <1>4, <2>4, <3>1 DEF StoreResponse, AbortBy, AbortBlamesFaulty,
                                    TypeOK, Honest
    <3>5. QED
      BY <3>2, <3>3, <3>4 DEF IInv
  <2>5. QED
    BY <2>3, <2>4
<1>5. ASSUME NEW p \in Party, Finalize3(p) PROVE IInv'
  <2>1. TypeOK'
    BY <1>0, <1>5 DEF Finalize3, TypeOK, Status
  <2>2. StoreInv' /\ ViewInv' /\ MsgInv' /\ AbortBlamesFaulty'
    BY <1>0, <1>5 DEF Finalize3, StoreInv, ViewInv, MsgInv, AbortBlamesFaulty
  <2>3. QED
    BY <2>1, <2>2 DEF IInv
<1>6. CASE UNCHANGED vars
  BY <1>0, <1>6 DEF vars, IInv, TypeOK, StoreInv, ViewInv, MsgInv,
                    AbortBlamesFaulty
<1>7. QED
  BY <1>1, <1>2, <1>3, <1>4, <1>5, <1>6 DEF Next, Receive, Finalize

-----------------------------------------------------------------------------
(* Refinement of the abstract Session                                      *)

\* The abstract outcome changes at p, and only there, when p's status moves
\* from "run" to a final value.
LEMMA OutcomeChange ==
    ASSUME TypeOK, NEW p \in Party, status[p] = "run",
           NEW v \in {"done", "aborted"},
           status' = [status EXCEPT ![p] = v]
    PROVE  /\ [q \in Party |-> Outcome(q)][p] = "run"
           /\ [q \in Party |-> Outcome(q)]'
                = [[q \in Party |-> Outcome(q)] EXCEPT ![p] = v]
BY DEF Outcome, TypeOK

\* The abstract outcome does not change while no status becomes final.
LEMMA OutcomeSame ==
    ASSUME TypeOK, NEW p \in Party,
           \/ status' = status
           \/ status[p] = "run" /\ status' = [status EXCEPT ![p] = "noround"]
    PROVE  [q \in Party |-> Outcome(q)]' = [q \in Party |-> Outcome(q)]
BY DEF Outcome, TypeOK

\* An abort of p naming q is an abstract Abort when q is blameable.
LEMMA AbortMaps ==
    ASSUME TypeOK, NEW p \in Party, NEW q \in Party, status[p] = "run",
           AbortBy(p, q), p \in Honest => q \in Faulty
    PROVE  Abs!Abort(p)
<1>1. q \in Abs!Blameable(p)
  BY DEF Abs!Blameable, Honest
<1>2. QED
  BY <1>1, OutcomeChange DEF Abs!Abort, AbortBy

LEMMA RefinementStep == IInv /\ [Next]_vars => [Abs!Next]_Abs!vars
<1> SUFFICES ASSUME IInv, [Next]_vars PROVE [Abs!Next]_Abs!vars
  OBVIOUS
<1>0. TypeOK /\ MsgInv /\ ViewInv
  BY DEF IInv
<1> DEFINE Stutter == UNCHANGED Abs!vars
<1>1. ASSUME NEW p \in Party, Finalize1(p) PROVE Stutter
  BY <1>0, <1>1, OutcomeSame DEF Finalize1, Abs!vars
<1>2. ASSUME NEW p \in Party, NEW m \in msgs, StoreNonces(p, m)
      PROVE  [Abs!Next]_Abs!vars
  <2>1. status[p] = "run" /\ m \in Msg
    BY <1>0, <1>2 DEF StoreNonces, Deliverable, TypeOK
  <2>2. CASE m.ident
    <3>1. m.from \in Faulty /\ m.from \in Party
      BY <1>0, <2>1, <2>2, SenderFaulty DEF Msg
    <3>2. Abs!Abort(p)
      BY <1>0, <1>2, <2>1, <2>2, <3>1, AbortMaps DEF StoreNonces
    <3>3. QED
      BY <3>2 DEF Abs!Next
  <2>3. CASE ~m.ident
    BY <1>0, <1>2, <2>3, OutcomeSame DEF StoreNonces, Abs!vars
  <2>4. QED
    BY <2>2, <2>3
<1>3. ASSUME NEW p \in Party, Finalize2(p) PROVE [Abs!Next]_Abs!vars
  <2>1. status[p] = "run"
    BY <1>3 DEF Finalize2
  <2>2. CASE \E l \in Party : nonceStore[p][l] = None
    BY <1>3, <2>2 DEF Finalize2, NoncesStored
  <2>3. CASE ~\E l \in Party : nonceStore[p][l] = None
    <3>1. /\ \/ status' = status
             \/ status' = [status EXCEPT ![p] = "noround"]
          /\ UNCHANGED culprit
      BY <1>3, <2>3 DEF Finalize2
    <3>2. QED
      BY <1>0, <2>1, <3>1, OutcomeSame DEF Abs!vars
  <2>4. QED
    BY <2>2, <2>3
<1>4. ASSUME NEW p \in Party, NEW m \in msgs, StoreResponse(p, m)
      PROVE  [Abs!Next]_Abs!vars
  <2>1. status[p] = "run" /\ m \in Msg /\ m.rnd = 3 /\ round[p] = 3
    BY <1>0, <1>4 DEF StoreResponse, Deliverable, TypeOK
  <2>2. CASE ~(m.ok /\ m.view = rView[p])
    <3>1. rView[p] = Full
      BY <1>0, <2>1 DEF ViewInv
    <3>2. m.from \in Faulty /\ m.from \in Party
      BY <1>0, <2>1, <2>2, <3>1, SenderFaulty DEF Msg
    <3>3. Abs!Abort(p)
      BY <1>0, <1>4, <2>1, <2>2, <3>2, AbortMaps DEF StoreResponse
    <3>4. QED
      BY <3>3 DEF Abs!Next
  <2>3. CASE m.ok /\ m.view = rView[p]
    BY <1>0, <1>4, <2>3, OutcomeSame DEF StoreResponse, Abs!vars
  <2>4. QED
    BY <2>2, <2>3
<1>5. ASSUME NEW p \in Party, Finalize3(p) PROVE [Abs!Next]_Abs!vars
  <2>1. Abs!Complete(p)
    BY <1>0, <1>5, OutcomeChange DEF Finalize3, Abs!Complete
  <2>2. QED
    BY <2>1 DEF Abs!Next
<1>6. CASE UNCHANGED vars
  BY <1>0, <1>6, OutcomeSame DEF vars, Abs!vars
<1>7. QED
  BY <1>1, <1>2, <1>3, <1>4, <1>5, <1>6 DEF Next, Receive, Finalize

\* FROST signing implements the abstract Session for every cohort and every
\* faulty subset: a signer's session ends at most once, and an honest
\* signer's abort, on a nonce commitment in round2.StoreBroadcastMessage or
\* on a z in round 3, names a faulty signer.
THEOREM Refinement == Spec => SessionRefinement
<1>1. Init => IInv
  BY IInvInit
<1>2. Init => Abs!Init
  BY DEF Init, Abs!Init, Outcome
<1>3. IInv /\ [Next]_vars => IInv'
  BY IInvStep
<1>4. IInv /\ [Next]_vars => [Abs!Next]_Abs!vars
  BY RefinementStep
<1>5. QED
  BY <1>1, <1>2, <1>3, <1>4, PTL DEF Spec, SessionRefinement, Abs!Spec

=============================================================================
