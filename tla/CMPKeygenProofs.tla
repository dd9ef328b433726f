-------------------------- MODULE CMPKeygenProofs --------------------------
(***************************************************************************)
(* Proofs about CMPKeygen for every set of parties, every set of faulty    *)
(* parties and both settings of the transport and of the round-4 object.   *)
(***************************************************************************)
EXTENDS CMPKeygen, TLAPS

\* Every message a party emits is a well-formed message.
LEMMA SendType ==
    ASSUME NEW p \in Party, NEW T \in SUBSET Party, NEW r \in 3..5,
           NEW k \in {"bc", "p2p"}
    PROVE  Send(p, T, r, k) \subseteq Msg
<1>1. ASSUME NEW q \in T PROVE Out(p, q, r, k) \subseteq Msg
  <2>1. CASE p \in Faulty
    <3>1. (IF k = "p2p" THEN Party ELSE {q}) \subseteq Party
      OBVIOUS
    <3>2. QED
      BY <2>1, <3>1 DEF Out, Msg
  <2>2. CASE p \notin Faulty
    BY <2>2 DEF Out, Msg
  <2>3. QED
    BY <2>1, <2>2
<1>2. QED
  BY <1>1 DEF Send

\* Every step keeps the type invariant.
LEMMA TypeStep == TypeOK /\ [Next]_vars => TypeOK'
<2> SUFFICES ASSUME TypeOK, [Next]_vars PROVE TypeOK'
  OBVIOUS
  <2>1. ASSUME NEW p \in Party, Finalize2(p) PROVE TypeOK'
    <3>1. Send(p, BroadcastTargets(p), 3, "bc") \subseteq Msg
      BY SendType DEF BroadcastTargets, OtherPartyIDs
    <3>2. QED
      BY <2>1, <3>1 DEF Finalize2, TypeOK, NextRound
  <2>2. ASSUME NEW p \in Party, NEW m \in msgs, StoreOpening(p, m)
        PROVE TypeOK'
    <3>1. m \in Msg /\ m.from \in Party
      BY DEF TypeOK, Msg
    <3>2. ridStore' \in [Party -> [Party -> Party \cup {None}]]
      BY <2>2, <3>1 DEF StoreOpening, TypeOK
    <3>3. CASE m.ok
      <4>1. /\ bcast' = [bcast EXCEPT ![p] = @ \cup {m.from}]
            /\ status' = status /\ culprit' = culprit
        BY <2>2, <3>3 DEF StoreOpening
      <4>2. UNCHANGED <<round, fwd, shareStore, rid, secret, kmBound, msgs>>
        BY <2>2 DEF StoreOpening
      <4>3. QED
        BY <3>1, <3>2, <4>1, <4>2 DEF TypeOK
    <3>4. CASE ~m.ok
      <4>1. /\ status' = [status EXCEPT ![p] = "aborted"]
            /\ culprit' = [culprit EXCEPT ![p] = m.from]
            /\ bcast' = bcast
        BY <2>2, <3>4 DEF StoreOpening, AbortBy
      <4>2. UNCHANGED <<round, fwd, shareStore, rid, secret, kmBound, msgs>>
        BY <2>2 DEF StoreOpening
      <4>3. QED
        BY <3>1, <3>2, <4>1, <4>2 DEF TypeOK, Status
    <3>5. QED
      BY <3>3, <3>4
  <2>3. ASSUME NEW p \in Party, Finalize3(p) PROVE TypeOK'
    <3>1. Send(p, BroadcastTargets(p), 4, "bc") \subseteq Msg
      BY SendType DEF BroadcastTargets, OtherPartyIDs
    <3>2. Send(p, OtherPartyIDs(p), 4, "p2p") \subseteq Msg
      BY SendType DEF OtherPartyIDs
    <3>3. CASE \E j \in Party : ridStore[p][j] = None
      BY <2>3, <3>3 DEF Finalize3, Fail, TypeOK, Status
    <3>4. CASE ~\E j \in Party : ridStore[p][j] = None
      <4>1. XorRID(p) \subseteq Party
        BY <3>4 DEF XorRID, TypeOK
      <4>2. /\ rid' = [rid EXCEPT ![p] = XorRID(p)]
            /\ msgs' = msgs \cup Send(p, BroadcastTargets(p), 4, "bc")
                            \cup Send(p, OtherPartyIDs(p), 4, "p2p")
            /\ round' = [round EXCEPT ![p] = NextRound(@)]
            /\ bcast' = [bcast EXCEPT ![p] = {}]
            /\ fwd' = [fwd EXCEPT ![p] = {}]
            /\ kmBound' = [kmBound EXCEPT ![p] = Round4Inherits]
            /\ status' = status
        BY <2>3, <3>4 DEF Finalize3
      <4>3. UNCHANGED <<culprit, ridStore, shareStore, secret>>
        BY <2>3 DEF Finalize3
      <4>4. round[p] = 3
        BY <2>3 DEF Finalize3
      <4>5. QED
        BY <3>1, <3>2, <4>1, <4>2, <4>3, <4>4, FlagAssumption
        DEF TypeOK, NextRound
    <3>5. QED
      BY <3>3, <3>4
  <2>4. ASSUME NEW p \in Party, NEW m \in msgs, StoreProofs(p, m)
        PROVE TypeOK'
    <3>1. m \in Msg /\ m.from \in Party
      BY DEF TypeOK, Msg
    <3>2. CASE ~kmBound[p]
      BY <2>4, <3>2 DEF StoreProofs, Panic, TypeOK, Status
    <3>3. CASE kmBound[p] /\ m.ok
      <4>1. /\ bcast' = [bcast EXCEPT ![p] = @ \cup {m.from}]
            /\ status' = status /\ culprit' = culprit
        BY <2>4, <3>3 DEF StoreProofs
      <4>2. UNCHANGED <<round, fwd, ridStore, shareStore, rid, secret,
                        kmBound, msgs>>
        BY <2>4 DEF StoreProofs
      <4>3. QED
        BY <3>1, <4>1, <4>2 DEF TypeOK
    <3>4. CASE kmBound[p] /\ ~m.ok
      <4>1. /\ status' = [status EXCEPT ![p] = "aborted"]
            /\ culprit' = [culprit EXCEPT ![p] = m.from]
            /\ bcast' = bcast
        BY <2>4, <3>4 DEF StoreProofs, AbortBy
      <4>2. UNCHANGED <<round, fwd, ridStore, shareStore, rid, secret,
                        kmBound, msgs>>
        BY <2>4 DEF StoreProofs
      <4>3. QED
        BY <3>1, <4>1, <4>2 DEF TypeOK, Status
    <3>5. QED
      BY <3>2, <3>3, <3>4
  <2>5. ASSUME NEW p \in Party, NEW m \in msgs, StoreShare(p, m)
        PROVE TypeOK'
    <3>1. m \in Msg /\ m.from \in Party /\ m.pt \in Party
      BY DEF TypeOK, Msg
    <3>2. CASE ~kmBound[p]
      BY <2>5, <3>2 DEF StoreShare, Panic, TypeOK, Status
    <3>3. CASE kmBound[p] /\ m.ok /\ ShareMatches(p, m)
      <4>1. /\ shareStore' = [shareStore EXCEPT ![p][m.from] = m.pt]
            /\ fwd' = [fwd EXCEPT ![p] = @ \cup {m.from}]
            /\ status' = status /\ culprit' = culprit
        BY <2>5, <3>3 DEF StoreShare
      <4>2. UNCHANGED <<round, bcast, ridStore, rid, secret, kmBound, msgs>>
        BY <2>5 DEF StoreShare
      <4>3. QED
        BY <3>1, <4>1, <4>2 DEF TypeOK
    <3>4. CASE kmBound[p] /\ ~(m.ok /\ ShareMatches(p, m))
      <4>1. /\ status' = [status EXCEPT ![p] = "aborted"]
            /\ culprit' = [culprit EXCEPT ![p] = m.from]
            /\ fwd' = fwd /\ shareStore' = shareStore
        BY <2>5, <3>4 DEF StoreShare, AbortBy
      <4>2. UNCHANGED <<round, bcast, ridStore, rid, secret, kmBound, msgs>>
        BY <2>5 DEF StoreShare
      <4>3. QED
        BY <3>1, <4>1, <4>2 DEF TypeOK, Status
    <3>5. QED
      BY <3>2, <3>3, <3>4
  <2>6. ASSUME NEW p \in Party, Finalize4(p) PROVE TypeOK'
    <3>1. Send(p, BroadcastTargets(p), 5, "bc") \subseteq Msg
      BY SendType DEF BroadcastTargets, OtherPartyIDs
    <3>2. CASE ~kmBound[p]
      BY <2>6, <3>2 DEF Finalize4, Panic, TypeOK, Status
    <3>3. CASE kmBound[p] /\ \E j \in Party : shareStore[p][j] = None
      BY <2>6, <3>3 DEF Finalize4, Fail, TypeOK, Status
    <3>4. CASE kmBound[p] /\ ~\E j \in Party : shareStore[p][j] = None
      <4>1. SumShares(p) \subseteq Party \X Party
        BY <3>4 DEF SumShares, TypeOK
      <4>2. /\ secret' = [secret EXCEPT ![p] = SumShares(p)]
            /\ msgs' = msgs \cup Send(p, BroadcastTargets(p), 5, "bc")
            /\ round' = [round EXCEPT ![p] = NextRound(@)]
            /\ bcast' = [bcast EXCEPT ![p] = {}]
            /\ status' = status
        BY <2>6, <3>4 DEF Finalize4
      <4>3. UNCHANGED <<culprit, fwd, ridStore, shareStore, rid, kmBound>>
        BY <2>6 DEF Finalize4
      <4>4. round[p] = 4
        BY <2>6 DEF Finalize4
      <4>5. QED
        BY <3>1, <4>1, <4>2, <4>3, <4>4 DEF TypeOK, NextRound
    <3>5. QED
      BY <3>2, <3>3, <3>4
  <2>7. ASSUME NEW p \in Party, NEW m \in msgs, StoreConfirm(p, m)
        PROVE TypeOK'
    <3>1. m \in Msg /\ m.from \in Party
      BY DEF TypeOK, Msg
    <3>2. CASE m.ok
      <4>1. /\ bcast' = [bcast EXCEPT ![p] = @ \cup {m.from}]
            /\ status' = status /\ culprit' = culprit
        BY <2>7, <3>2 DEF StoreConfirm
      <4>2. UNCHANGED <<round, fwd, ridStore, shareStore, rid, secret,
                        kmBound, msgs>>
        BY <2>7 DEF StoreConfirm
      <4>3. QED
        BY <3>1, <4>1, <4>2 DEF TypeOK
    <3>3. CASE ~m.ok
      <4>1. /\ status' = [status EXCEPT ![p] = "aborted"]
            /\ culprit' = [culprit EXCEPT ![p] = m.from]
            /\ bcast' = bcast
        BY <2>7, <3>3 DEF StoreConfirm, AbortBy
      <4>2. UNCHANGED <<round, fwd, ridStore, shareStore, rid, secret,
                        kmBound, msgs>>
        BY <2>7 DEF StoreConfirm
      <4>3. QED
        BY <3>1, <4>1, <4>2 DEF TypeOK, Status
    <3>4. QED
      BY <3>2, <3>3
  <2>8. ASSUME NEW p \in Party, Finalize5(p) PROVE TypeOK'
    BY <2>8 DEF Finalize5, TypeOK, Status
  <2>9. CASE UNCHANGED vars
    BY <2>9 DEF vars, TypeOK
  <2>10. QED
    BY <2>1, <2>2, <2>3, <2>4, <2>5, <2>6, <2>7, <2>8, <2>9
    DEF Next, Receive, Finalize

\* The type invariant holds in every reachable state.
THEOREM TypeCorrect == Spec => []TypeOK
<1>1. Init => TypeOK
  BY DEF Init, TypeOK, Status
<1>2. QED
  BY <1>1, TypeStep, PTL DEF Spec

-----------------------------------------------------------------------------
(* Share consistency.  ShareConsistency is not inductive by itself: a step *)
(* of round4.Finalize sums whatever is in vss_km, so the invariant must    *)
(* also say that every imported share is evaluated at the receiver's own  *)
(* point, which the Feldman check of round4.StoreMessage guarantees.       *)

\* The stores and the secret keep the shape ShareInv describes.
LEMMA ShareStep == ShareInv /\ [Next]_vars => ShareInv'
<1> DEFINE Stores == \A p, j \in Party : shareStore[p][j] \in {None, p}
           Secrets == \A p \in Party :
                        round[p] = 5 => secret[p] = PublicShare(p)
<1> SUFFICES ASSUME TypeOK, Stores, Secrets, [Next]_vars
             PROVE  TypeOK' /\ Stores' /\ Secrets'
  BY DEF ShareInv
<1>1. TypeOK'
  BY TypeStep
<1>2. ASSUME NEW p \in Party, Finalize2(p) PROVE Stores' /\ Secrets'
  BY <1>2 DEF Finalize2, TypeOK, NextRound
<1>3. ASSUME NEW p \in Party, NEW m \in msgs, StoreOpening(p, m)
      PROVE Stores' /\ Secrets'
  BY <1>3 DEF StoreOpening
<1>4. ASSUME NEW p \in Party, Finalize3(p) PROVE Stores' /\ Secrets'
  <2>1. round[p] = 3 /\ UNCHANGED <<shareStore, secret>>
    BY <1>4 DEF Finalize3
  <2>2. round' = [round EXCEPT ![p] = 4] \/ round' = round
    BY <1>4, <2>1 DEF Finalize3, NextRound
  <2>3. QED
    BY <2>1, <2>2 DEF TypeOK
<1>5. ASSUME NEW p \in Party, NEW m \in msgs, StoreProofs(p, m)
      PROVE Stores' /\ Secrets'
  BY <1>5 DEF StoreProofs
<1>6. ASSUME NEW p \in Party, NEW m \in msgs, StoreShare(p, m)
      PROVE Stores' /\ Secrets'
  <2>1. UNCHANGED <<round, secret>> /\ m.to = p /\ m \in Msg
    BY <1>6 DEF StoreShare, Deliverable, TypeOK
  <2>2. CASE kmBound[p] /\ m.ok /\ ShareMatches(p, m)
    <3>1. shareStore' = [shareStore EXCEPT ![p][m.from] = m.pt] /\ m.pt = p
      BY <1>6, <2>2 DEF StoreShare, ShareMatches
    <3>2. QED
      BY <2>1, <3>1 DEF TypeOK, Msg
  <2>3. CASE ~(kmBound[p] /\ m.ok /\ ShareMatches(p, m))
    <3>1. UNCHANGED shareStore
      BY <1>6, <2>3 DEF StoreShare
    <3>2. QED
      BY <2>1, <3>1
  <2>4. QED
    BY <2>2, <2>3
<1>7. ASSUME NEW p \in Party, Finalize4(p) PROVE Stores' /\ Secrets'
  <2>1. round[p] = 4 /\ UNCHANGED shareStore
    BY <1>7 DEF Finalize4
  <2>2. CASE kmBound[p] /\ ~\E j \in Party : shareStore[p][j] = None
    <3>1. /\ secret' = [secret EXCEPT ![p] = SumShares(p)]
          /\ round' = [round EXCEPT ![p] = 5]
      BY <1>7, <2>1, <2>2 DEF Finalize4, NextRound
    <3>2. SumShares(p) = PublicShare(p)
      BY <2>2 DEF SumShares, PublicShare, TypeOK
    <3>3. QED
      BY <2>1, <3>1, <3>2 DEF TypeOK
  <2>3. CASE ~(kmBound[p] /\ ~\E j \in Party : shareStore[p][j] = None)
    <3>1. UNCHANGED <<round, secret>>
      BY <1>7, <2>3 DEF Finalize4
    <3>2. QED
      BY <2>1, <3>1
  <2>4. QED
    BY <2>2, <2>3
<1>8. ASSUME NEW p \in Party, NEW m \in msgs, StoreConfirm(p, m)
      PROVE Stores' /\ Secrets'
  BY <1>8 DEF StoreConfirm
<1>9. ASSUME NEW p \in Party, Finalize5(p) PROVE Stores' /\ Secrets'
  BY <1>9 DEF Finalize5
<1>10. ASSUME UNCHANGED vars PROVE Stores' /\ Secrets'
  <2>1. UNCHANGED <<round, shareStore, secret>>
    BY <1>10 DEF vars
  <2>2. QED
    BY <2>1
<1>11. QED
  <2>1. Stores' /\ Secrets'
    BY <1>2, <1>3, <1>4, <1>5, <1>6, <1>7, <1>8, <1>9, <1>10
    DEF Next, Receive, Finalize
  <2>2. QED
    BY <1>1, <2>1

\* Every honest party that leaves round 4 through round4.Finalize holds the
\* secret share whose public point every party records for it, whatever
\* shares the faulty parties send; this holds for any number of parties.
THEOREM ShareConsistent == Spec => []ShareConsistency
<1>1. Init => ShareInv
  BY DEF Init, ShareInv, TypeOK, Status
<1>2. ShareInv => ShareConsistency
  BY DEF ShareInv, ShareConsistency, Honest
<1>3. QED
  BY <1>1, <1>2, ShareStep, PTL DEF Spec

-----------------------------------------------------------------------------
(* Blame.  AbortBlamesFaulty is not inductive by itself: it needs to know  *)
(* that no message of an honest party fails a validation, which holds      *)
(* because msgs only grows by what round3.Finalize and round4.Finalize     *)
(* compute.                                                                *)

\* What a party sends carries its own name, and an honest party's message
\* verifies and carries its receiver's point.
LEMMA SendHonest ==
  ASSUME NEW p \in Party, NEW T \in SUBSET Party, NEW r, NEW k,
         NEW m \in Send(p, T, r, k)
  PROVE  /\ m.from = p
         /\ p \notin Faulty => m.ok /\ m.pt = m.to
<1>1. PICK q \in T : m \in Out(p, q, r, k)
  BY DEF Send
<1>2. CASE p \in Faulty
  BY <1>1, <1>2 DEF Out
<1>3. CASE p \notin Faulty
  BY <1>1, <1>3 DEF Out
<1>4. QED
  BY <1>2, <1>3

\* A message that fails a check at its receiver comes from a faulty party.
LEMMA RejectedIsFaulty ==
  ASSUME NEW m \in Msg,
         m.from \in Honest => m.ok /\ m.pt = m.to,
         ~m.ok \/ m.pt # m.to
  PROVE  m.from \in Faulty
  BY DEF Msg, Honest

\* Every step keeps BlameInv.
LEMMA BlameStep == BlameInv /\ [Next]_vars => BlameInv'
<1> DEFINE HM == \A m \in msgs : m.from \in Honest => m.ok /\ m.pt = m.to
<1> SUFFICES ASSUME TypeOK, HM, AbortBlamesFaulty, [Next]_vars
             PROVE  TypeOK' /\ HM' /\ AbortBlamesFaulty'
  BY DEF BlameInv
<1>1. TypeOK'
  BY TypeStep
\* A step that only adds messages p sends keeps HM.
<1>2. ASSUME NEW p \in Party, NEW T1 \in SUBSET Party, NEW T2 \in SUBSET Party,
             NEW r, NEW k1, NEW k2,
             msgs' = msgs \cup Send(p, T1, r, k1) \cup Send(p, T2, r, k2)
      PROVE  HM'
  <2> SUFFICES ASSUME NEW m \in msgs', m.from \in Honest
               PROVE  m.ok /\ m.pt = m.to
    OBVIOUS
  <2>1. CASE m \in msgs
    BY <2>1
  <2>2. CASE m \in Send(p, T1, r, k1) \/ m \in Send(p, T2, r, k2)
    BY <2>2, SendHonest DEF Honest
  <2>3. QED
    BY <1>2, <2>1, <2>2
\* A step that ends p's session without an abort keeps AbortBlamesFaulty.
<1>3. ASSUME NEW p \in Party, NEW v \in Status \ {"aborted"},
             status' = [status EXCEPT ![p] = v], UNCHANGED culprit
      PROVE  AbortBlamesFaulty'
  BY <1>3 DEF AbortBlamesFaulty, TypeOK
\* An abort of p that names the sender of a rejected message keeps it.
<1>4. ASSUME NEW p \in Party, NEW m \in msgs, m.to = p,
             ~m.ok \/ m.pt # p, AbortBy(p, m.from)
      PROVE  AbortBlamesFaulty'
  <2>1. m.from \in Faulty
    BY <1>4, RejectedIsFaulty DEF TypeOK
  <2>2. QED
    BY <1>4, <2>1 DEF AbortBy, AbortBlamesFaulty, TypeOK
<1>5. ASSUME NEW p \in Party, Finalize2(p) PROVE HM' /\ AbortBlamesFaulty'
  <2>1. HM'
    <3>1. /\ BroadcastTargets(p) \in SUBSET Party
          /\ msgs' = msgs \cup Send(p, BroadcastTargets(p), 3, "bc")
                          \cup Send(p, BroadcastTargets(p), 3, "bc")
      BY <1>5 DEF Finalize2, BroadcastTargets, OtherPartyIDs
    <3>2. QED
      BY <3>1, <1>2
  <2>2. QED
    BY <1>5, <2>1 DEF Finalize2, AbortBlamesFaulty
<1>6. ASSUME NEW p \in Party, Finalize3(p) PROVE HM' /\ AbortBlamesFaulty'
  <2>1. CASE \E j \in Party : ridStore[p][j] = None
    <3>1. UNCHANGED msgs /\ Fail(p) /\ UNCHANGED culprit
      BY <1>6, <2>1 DEF Finalize3
    <3>2. QED
      BY <3>1, <1>3 DEF Fail, Status
  <2>4. CASE ~\E j \in Party : ridStore[p][j] = None
    <3>1. /\ msgs' = msgs \cup (Send(p, BroadcastTargets(p), 4, "bc")
                               \cup Send(p, OtherPartyIDs(p), 4, "p2p"))
          /\ UNCHANGED <<status, culprit>>
      BY <1>6, <2>4 DEF Finalize3
    <3>2. HM'
      <4>1. BroadcastTargets(p) \in SUBSET Party /\ OtherPartyIDs(p) \in SUBSET Party
        BY DEF BroadcastTargets, OtherPartyIDs
      <4>2. QED
        BY <3>1, <4>1, <1>2
    <3>3. QED
      BY <3>1, <3>2 DEF AbortBlamesFaulty
  <2>8. QED
    BY <2>1, <2>4
<1>7. ASSUME NEW p \in Party, Finalize4(p) PROVE HM' /\ AbortBlamesFaulty'
  <2>1. CASE ~kmBound[p] \/ \E j \in Party : shareStore[p][j] = None
    <3>1. /\ UNCHANGED <<msgs, culprit>>
          /\ \E v \in {"crashed", "failed"} : status' = [status EXCEPT ![p] = v]
      BY <1>7, <2>1 DEF Finalize4, Panic, Fail
    <3>2. QED
      BY <3>1, <1>3 DEF Status
  <2>4. CASE kmBound[p] /\ ~\E j \in Party : shareStore[p][j] = None
    <3>1. /\ msgs' = msgs \cup Send(p, BroadcastTargets(p), 5, "bc")
                          \cup Send(p, BroadcastTargets(p), 5, "bc")
          /\ UNCHANGED <<status, culprit>>
      BY <1>7, <2>4 DEF Finalize4
    <3>2. HM'
      <4>1. BroadcastTargets(p) \in SUBSET Party
        BY DEF BroadcastTargets, OtherPartyIDs
      <4>2. QED
        BY <3>1, <4>1, <1>2
    <3>3. QED
      BY <3>1, <3>2 DEF AbortBlamesFaulty
  <2>8. QED
    BY <2>1, <2>4
<1>8. ASSUME NEW p \in Party, Finalize5(p) PROVE HM' /\ AbortBlamesFaulty'
  <2>1. UNCHANGED <<msgs, culprit>> /\ status' = [status EXCEPT ![p] = "done"]
    BY <1>8 DEF Finalize5
  <2>2. QED
    BY <2>1, <1>3 DEF Status
<1>9. ASSUME NEW p \in Party, NEW m \in msgs,
             StoreOpening(p, m) \/ StoreProofs(p, m) \/ StoreConfirm(p, m)
      PROVE  HM' /\ AbortBlamesFaulty'
  <2>1. UNCHANGED msgs /\ m.to = p
    BY <1>9 DEF StoreOpening, StoreProofs, StoreConfirm, Deliverable
  <2>2. CASE UNCHANGED <<status, culprit>>
    BY <2>1, <2>2 DEF AbortBlamesFaulty
  <2>3. CASE Panic(p) /\ UNCHANGED culprit
    BY <2>1, <2>3, <1>3 DEF Panic, Status
  <2>4. CASE ~m.ok /\ AbortBy(p, m.from)
    BY <2>1, <2>4, <1>4
  <2>5. QED
    BY <1>9, <2>2, <2>3, <2>4 DEF StoreOpening, StoreProofs, StoreConfirm
<1>10. ASSUME NEW p \in Party, NEW m \in msgs, StoreShare(p, m)
       PROVE  HM' /\ AbortBlamesFaulty'
  <2>1. UNCHANGED msgs /\ m.to = p
    BY <1>10 DEF StoreShare, Deliverable
  <2>2. CASE ~kmBound[p]
    <3>1. Panic(p) /\ UNCHANGED culprit
      BY <1>10, <2>2 DEF StoreShare
    <3>2. QED
      BY <2>1, <3>1, <1>3 DEF Panic, Status
  <2>3. CASE kmBound[p] /\ m.ok /\ ShareMatches(p, m)
    <3>1. UNCHANGED <<status, culprit>>
      BY <1>10, <2>3 DEF StoreShare
    <3>2. QED
      BY <2>1, <3>1 DEF AbortBlamesFaulty
  <2>4. CASE kmBound[p] /\ ~(m.ok /\ ShareMatches(p, m))
    <3>1. AbortBy(p, m.from) /\ (~m.ok \/ m.pt # p)
      BY <1>10, <2>4 DEF StoreShare, ShareMatches
    <3>2. QED
      BY <2>1, <3>1, <1>4
  <2>5. QED
    BY <2>2, <2>3, <2>4
<1>11. ASSUME UNCHANGED vars PROVE HM' /\ AbortBlamesFaulty'
  <2>1. UNCHANGED <<msgs, status, culprit>>
    BY <1>11 DEF vars
  <2>2. QED
    BY <2>1 DEF AbortBlamesFaulty
<1>12. QED
  <2>1. HM' /\ AbortBlamesFaulty'
    BY <1>5, <1>6, <1>7, <1>8, <1>9, <1>10, <1>11 DEF Next, Receive, Finalize
  <2>2. QED
    BY <1>1, <2>1

\* The initial state satisfies BlameInv.
LEMMA BlameInit == Init => BlameInv
<1> SUFFICES ASSUME Init PROVE BlameInv
  OBVIOUS
<1>1. TypeOK
  BY DEF Init, TypeOK, Status
<1>2. AbortBlamesFaulty /\ msgs = {}
  BY DEF Init, AbortBlamesFaulty, Honest
<1>3. QED
  BY <1>1, <1>2 DEF BlameInv

\* An honest party's keygen session only ever aborts naming a faulty party:
\* no duplication, reordering or early delivery of honest messages makes a
\* check of round3 or round4 fail, for any number of parties.
THEOREM BlameCorrect == Spec => []AbortBlamesFaulty
<1>1. Init => BlameInv
  BY BlameInit
<1>2. BlameInv => AbortBlamesFaulty
  BY DEF BlameInv
<1>3. QED
  BY <1>1, <1>2, BlameStep, PTL DEF Spec

-----------------------------------------------------------------------------
(* RID agreement.  RIDAgreement is not inductive by itself: round3.Finalize *)
(* XORs whatever is in rid_km, so the invariant must also say that the     *)
(* entry for j only ever holds j's own contribution (StoreBroadcastMessage *)
(* imports under the sender's id, before the decommitment is checked), and *)
(* that a party past round 3 wrote the XOR of every party's contribution.  *)

RIDInv ==
    /\ TypeOK
    /\ \A p, j \in Party : ridStore[p][j] \in {None, j}
    /\ \A p \in Party : round[p] > 3 => rid[p] = Party

\* With every rid_km entry filled by its owner, the XOR of rid_km is the
\* XOR of every party's contribution.
LEMMA XorRIDFull ==
    ASSUME TypeOK, NEW p \in Party,
           \A j \in Party : ridStore[p][j] \in {None, j},
           ~\E j \in Party : ridStore[p][j] = None
    PROVE  XorRID(p) = Party
BY DEF XorRID

\* Every step keeps RIDInv.
LEMMA RIDStep == RIDInv /\ [Next]_vars => RIDInv'
<1> DEFINE Stores == \A p, j \in Party : ridStore[p][j] \in {None, j}
           Rids == \A p \in Party : round[p] > 3 => rid[p] = Party
<1> SUFFICES ASSUME TypeOK, Stores, Rids, [Next]_vars
             PROVE  TypeOK' /\ Stores' /\ Rids'
  BY DEF RIDInv
<1>1. TypeOK'
  BY TypeStep
<1>2. ASSUME NEW p \in Party, Finalize2(p) PROVE Stores' /\ Rids'
  BY <1>2 DEF Finalize2, TypeOK, NextRound
<1>3. ASSUME NEW p \in Party, NEW m \in msgs, StoreOpening(p, m)
      PROVE Stores' /\ Rids'
  <2>1. /\ ridStore' = [ridStore EXCEPT ![p][m.from] = m.from]
        /\ UNCHANGED <<round, rid>>
        /\ m.from \in Party
    BY <1>3 DEF StoreOpening, TypeOK, Msg
  <2>2. QED
    BY <2>1 DEF TypeOK
<1>4. ASSUME NEW p \in Party, Finalize3(p) PROVE Stores' /\ Rids'
  <2>1. round[p] = 3 /\ UNCHANGED ridStore
    BY <1>4 DEF Finalize3
  <2>2. CASE \E j \in Party : ridStore[p][j] = None
    <3>1. UNCHANGED <<round, rid>>
      BY <1>4, <2>2 DEF Finalize3
    <3>2. QED
      BY <2>1, <3>1
  <2>3. CASE ~\E j \in Party : ridStore[p][j] = None
    <3>1. /\ rid' = [rid EXCEPT ![p] = XorRID(p)]
          /\ round' = [round EXCEPT ![p] = 4]
      BY <1>4, <2>1, <2>3 DEF Finalize3, NextRound
    <3>2. XorRID(p) = Party
      BY <2>3, XorRIDFull
    <3>3. QED
      BY <2>1, <3>1, <3>2 DEF TypeOK
  <2>4. QED
    BY <2>2, <2>3
<1>5. ASSUME NEW p \in Party, NEW m \in msgs, StoreProofs(p, m)
      PROVE Stores' /\ Rids'
  BY <1>5 DEF StoreProofs
<1>6. ASSUME NEW p \in Party, NEW m \in msgs, StoreShare(p, m)
      PROVE Stores' /\ Rids'
  BY <1>6 DEF StoreShare
<1>7. ASSUME NEW p \in Party, Finalize4(p) PROVE Stores' /\ Rids'
  <2>1. round[p] = 4 /\ UNCHANGED <<ridStore, rid>>
    BY <1>7 DEF Finalize4
  <2>2. round' = [round EXCEPT ![p] = 5] \/ round' = round
    BY <1>7, <2>1 DEF Finalize4, NextRound
  <2>3. CASE round' = [round EXCEPT ![p] = 5]
    <3>1. rid[p] = Party
      BY <2>1
    <3>2. QED
      BY <2>1, <2>3, <3>1 DEF TypeOK
  <2>4. CASE round' = round
    BY <2>1, <2>4
  <2>5. QED
    BY <2>2, <2>3, <2>4
<1>8. ASSUME NEW p \in Party, NEW m \in msgs, StoreConfirm(p, m)
      PROVE Stores' /\ Rids'
  BY <1>8 DEF StoreConfirm
<1>9. ASSUME NEW p \in Party, Finalize5(p) PROVE Stores' /\ Rids'
  BY <1>9 DEF Finalize5
<1>10. ASSUME UNCHANGED vars PROVE Stores' /\ Rids'
  BY <1>10 DEF vars
<1>11. QED
  <2>1. Stores' /\ Rids'
    BY <1>2, <1>3, <1>4, <1>5, <1>6, <1>7, <1>8, <1>9, <1>10
    DEF Next, Receive, Finalize
  <2>2. QED
    BY <1>1, <2>1

\* Any two parties that have left round 3 through round3.Finalize wrote the
\* same RID into their mpckey, whatever the faulty parties send and in
\* whatever order the openings arrive, for any number of parties: honest
\* parties agree on the session's RID.
THEOREM RIDAgreed == Spec => []RIDAgreement
<1>1. Init => RIDInv
  BY DEF Init, RIDInv, TypeOK, Status
<1>2. RIDInv => RIDAgreement
  BY DEF RIDInv, RIDAgreement, Honest
<1>3. QED
  BY <1>1, <1>2, RIDStep, PTL DEF Spec

-----------------------------------------------------------------------------
(* Refinement of Session.  Every step is a stutter of the Session or one   *)
(* of its steps; an abort is a Session Abort because, by BlameInv, the      *)
(* message it rejects comes from a faulty party.                           *)

\* A session that ends moves its abstract outcome from "run" to the end; a
\* panic shows as "failed".
LEMMA OutcomeChange ==
    ASSUME TypeOK, NEW p \in Party, status[p] = "run",
           NEW v \in {"done", "aborted", "failed", "crashed"},
           status' = [status EXCEPT ![p] = v]
    PROVE  /\ [q \in Party |-> Outcome(q)][p] = "run"
           /\ [q \in Party |-> Outcome(q)]'
                = [[q \in Party |-> Outcome(q)] EXCEPT
                     ![p] = IF v = "crashed" THEN "failed" ELSE v]
BY DEF Outcome, TypeOK

\* A Finalize error or a panic of a running party is a Session Fail.
LEMMA FailMaps ==
    ASSUME TypeOK, NEW p \in Party, status[p] = "run", UNCHANGED culprit,
           Fail(p) \/ Panic(p)
    PROVE  Abs!Next
<1>1. CASE Fail(p)
  <2>1. Abs!Fail(p)
    BY <1>1, OutcomeChange DEF Fail, Abs!Fail
  <2>2. QED
    BY <2>1 DEF Abs!Next
<1>2. CASE Panic(p)
  <2>1. Abs!Fail(p)
    BY <1>2, OutcomeChange DEF Panic, Abs!Fail
  <2>2. QED
    BY <2>1 DEF Abs!Next
<1>3. QED
  BY <1>1, <1>2

\* An abort of p on a message that fails a check at p is a Session Abort.
LEMMA AbortMaps ==
    ASSUME BlameInv, NEW p \in Party, status[p] = "run",
           NEW m \in msgs, m.to = p, ~m.ok \/ m.pt # p, AbortBy(p, m.from)
    PROVE  Abs!Next
<1>1. m.from \in Faulty
  BY RejectedIsFaulty DEF BlameInv, TypeOK
<1>2. m.from \in Abs!Blameable(p)
  BY <1>1, FaultyAssumption DEF Abs!Blameable
<1>3. Abs!Abort(p)
  BY <1>2, OutcomeChange DEF Abs!Abort, AbortBy, BlameInv
<1>4. QED
  BY <1>3 DEF Abs!Next

\* A step that leaves status and culprit alone is a Session stutter.
LEMMA StutterMaps ==
    ASSUME UNCHANGED <<status, culprit>> PROVE UNCHANGED Abs!vars
BY DEF Abs!vars, Outcome

LEMMA RefinementStep == BlameInv /\ [Next]_vars => [Abs!Next]_Abs!vars
<1> SUFFICES ASSUME BlameInv, [Next]_vars PROVE [Abs!Next]_Abs!vars
  OBVIOUS
<1>0. TypeOK
  BY DEF BlameInv
<1>1. ASSUME NEW p \in Party, Finalize2(p) PROVE [Abs!Next]_Abs!vars
  BY <1>1, StutterMaps DEF Finalize2
\* Every store of p below handles a message m addressed to p while p runs.
<1>2. ASSUME NEW p \in Party, NEW m \in msgs, StoreOpening(p, m)
      PROVE  [Abs!Next]_Abs!vars
  <2>1. status[p] = "run" /\ m.to = p
    BY <1>2 DEF StoreOpening, Deliverable
  <2>2. CASE m.ok
    BY <1>2, <2>2, StutterMaps DEF StoreOpening
  <2>3. CASE ~m.ok
    BY <1>2, <2>1, <2>3, AbortMaps DEF StoreOpening
  <2>4. QED
    BY <2>2, <2>3
<1>3. ASSUME NEW p \in Party, Finalize3(p) PROVE [Abs!Next]_Abs!vars
  <2>1. status[p] = "run" /\ UNCHANGED culprit
    BY <1>3 DEF Finalize3
  <2>2. CASE \E j \in Party : ridStore[p][j] = None
    BY <1>0, <1>3, <2>1, <2>2, FailMaps DEF Finalize3
  <2>3. CASE ~\E j \in Party : ridStore[p][j] = None
    BY <1>3, <2>1, <2>3, StutterMaps DEF Finalize3
  <2>4. QED
    BY <2>2, <2>3
<1>4. ASSUME NEW p \in Party, NEW m \in msgs, StoreProofs(p, m)
      PROVE  [Abs!Next]_Abs!vars
  <2>1. status[p] = "run" /\ m.to = p
    BY <1>4 DEF StoreProofs, Deliverable
  <2>2. CASE ~kmBound[p]
    BY <1>0, <1>4, <2>1, <2>2, FailMaps DEF StoreProofs
  <2>3. CASE kmBound[p] /\ m.ok
    BY <1>4, <2>3, StutterMaps DEF StoreProofs
  <2>4. CASE kmBound[p] /\ ~m.ok
    BY <1>4, <2>1, <2>4, AbortMaps DEF StoreProofs
  <2>5. QED
    BY <2>2, <2>3, <2>4
<1>5. ASSUME NEW p \in Party, NEW m \in msgs, StoreShare(p, m)
      PROVE  [Abs!Next]_Abs!vars
  <2>1. status[p] = "run" /\ m.to = p
    BY <1>5 DEF StoreShare, Deliverable
  <2>2. CASE ~kmBound[p]
    BY <1>0, <1>5, <2>1, <2>2, FailMaps DEF StoreShare
  <2>3. CASE kmBound[p] /\ m.ok /\ ShareMatches(p, m)
    BY <1>5, <2>3, StutterMaps DEF StoreShare
  <2>4. CASE kmBound[p] /\ ~(m.ok /\ ShareMatches(p, m))
    <3>1. ~m.ok \/ m.pt # p
      BY <2>4 DEF ShareMatches
    <3>2. AbortBy(p, m.from)
      BY <1>5, <2>4 DEF StoreShare
    <3>3. QED
      BY <2>1, <3>1, <3>2, AbortMaps
  <2>5. QED
    BY <2>2, <2>3, <2>4
<1>6. ASSUME NEW p \in Party, Finalize4(p) PROVE [Abs!Next]_Abs!vars
  <2>1. status[p] = "run" /\ UNCHANGED culprit
    BY <1>6 DEF Finalize4
  <2>2. CASE ~kmBound[p]
    BY <1>0, <1>6, <2>1, <2>2, FailMaps DEF Finalize4
  <2>3. CASE kmBound[p] /\ \E j \in Party : shareStore[p][j] = None
    BY <1>0, <1>6, <2>1, <2>3, FailMaps DEF Finalize4
  <2>4. CASE kmBound[p] /\ ~\E j \in Party : shareStore[p][j] = None
    BY <1>6, <2>1, <2>4, StutterMaps DEF Finalize4
  <2>5. QED
    BY <2>2, <2>3, <2>4
<1>7. ASSUME NEW p \in Party, NEW m \in msgs, StoreConfirm(p, m)
      PROVE  [Abs!Next]_Abs!vars
  <2>1. status[p] = "run" /\ m.to = p
    BY <1>7 DEF StoreConfirm, Deliverable
  <2>2. CASE m.ok
    BY <1>7, <2>2, StutterMaps DEF StoreConfirm
  <2>3. CASE ~m.ok
    BY <1>7, <2>1, <2>3, AbortMaps DEF StoreConfirm
  <2>4. QED
    BY <2>2, <2>3
<1>8. ASSUME NEW p \in Party, Finalize5(p) PROVE [Abs!Next]_Abs!vars
  <2>1. Abs!Complete(p)
    BY <1>0, <1>8, OutcomeChange DEF Finalize5, Abs!Complete
  <2>2. QED
    BY <2>1 DEF Abs!Next
<1>9. CASE UNCHANGED vars
  BY <1>9, StutterMaps DEF vars
<1>10. QED
  BY <1>1, <1>2, <1>3, <1>4, <1>5, <1>6, <1>7, <1>8, <1>9
     DEF Next, Receive, Finalize

\* CMP keygen implements the abstract Session for every set of parties,
\* every faulty subset and both settings of the transport and of the
\* round-4 object: a party's session ends at most once (round 5's result,
\* an abort in round3/round4 StoreBroadcastMessage, VerifyMessage,
\* StoreMessage or round 5, a Finalize error, or a panic on round 4's
\* unset key managers), and an honest party's abort names a faulty party.
THEOREM Refinement == Spec => SessionRefinement
<1>1. Init => BlameInv
  BY BlameInit
<1>2. Init => Abs!Init
  BY DEF Init, Abs!Init, Outcome
<1>3. BlameInv /\ [Next]_vars => BlameInv'
  BY BlameStep
<1>4. BlameInv /\ [Next]_vars => [Abs!Next]_Abs!vars
  BY RefinementStep
<1>5. QED
  BY <1>1, <1>2, <1>3, <1>4, PTL DEF Spec, SessionRefinement, Abs!Spec

=============================================================================
