--------------------------- MODULE SigningProofs ---------------------------
(***************************************************************************)
(* Proofs about Signing: typing, and uniqueness of recovered signatures    *)
(* inside a quorum whose threshold is a majority of honest members.        *)
(***************************************************************************)
EXTENDS Signing, FiniteSetTheorems, TLAPS

-----------------------------------------------------------------------------
(* The inductive invariant.                                                *)

\* A queued signing request repeats the vote it was queued for.
PendingFollowsVote ==
    \A n \in Honest : \A p \in pendingSigns[n] :
        p.id \notin forgotten => voted[n][p.id] = p.m

\* Shares come from valid members, and a node holds only shares that exist.
SharesExist ==
    /\ \A s \in netShares : s.by \in Valid[s.q]
    /\ \A n \in Honest : sigShares[n] \subseteq netShares
    /\ \A n \in Honest : pendingShares[n] \subseteq netShares

\* Recovered signatures anywhere are among those that were produced, and each of
\* these was signed by a threshold of valid members.
RecoveredExist ==
    /\ \A rs \in netRecSigs : Recoverable(netShares, rs)
    /\ \A n \in Honest : pendingRecSigs[n] \subseteq netRecSigs
    /\ \A n \in Honest, id \in Id :
          recSig[n][id] # NoRec => recSig[n][id] \in netRecSigs /\ recSig[n][id].id = id

\* The inductive invariant.
IInv ==
    /\ TypeOK
    /\ ShareFollowsVote
    /\ PendingFollowsVote
    /\ SharesExist
    /\ RecoveredExist

-----------------------------------------------------------------------------
(* Facts about thresholds.                                                 *)

\* The members that passed the DKG of a quorum are finitely many (validMembers of
\* its commitment).
LEMMA ValidFinite ==
    ASSUME NEW q \in Quorum
    PROVE  IsFiniteSet(Valid[q])
BY QuorumAssumption, FS_Subset, Zenon

\* Two sets of valid members that reach the threshold have an honest member in
\* common: the counting argument behind MajorityThreshold.
LEMMA HonestIntersection ==
    ASSUME MajorityThreshold,
           NEW q \in Quorum,
           NEW S \in SUBSET Valid[q], Cardinality(S) >= Threshold,
           NEW T \in SUBSET Valid[q], Cardinality(T) >= Threshold
    PROVE  \E n \in S \cap T : n \in Honest
<1> DEFINE V == Valid[q]
           F == Valid[q] \cap Faulty
<1>1. IsFiniteSet(V) /\ IsFiniteSet(S) /\ IsFiniteSet(T) /\ IsFiniteSet(F)
  BY ValidFinite, FS_Subset, Zenon
<1>2. /\ Cardinality(V) \in Nat /\ Cardinality(F) \in Nat
      /\ Cardinality(S) \in Nat /\ Cardinality(T) \in Nat
      /\ Cardinality(S \cup T) \in Nat /\ Cardinality(S \cap T) \in Nat
  BY <1>1, FS_CardinalityType, FS_Union, FS_Intersection, ZenonT(60)
<1>3. Cardinality(S \cup T) = Cardinality(S) + Cardinality(T) - Cardinality(S \cap T)
  BY <1>1, FS_Union, Zenon
<1>4. Cardinality(S \cup T) <= Cardinality(V)
  <2>1. S \cup T \subseteq V
    BY Zenon
  <2> QED BY <2>1, <1>1, FS_Subset, Zenon
<1>5. 2 * Threshold > Cardinality(V) + Cardinality(F)
  BY Zenon DEF MajorityThreshold
<1>6. Threshold \in Nat
  BY QuorumAssumption, Zenon
<1>7. Cardinality(S \cap T) > Cardinality(F)
  <2> HIDE DEF V, F
  <2> QED BY <1>2, <1>3, <1>4, <1>5, <1>6
<1>8. ~(S \cap T \subseteq F)
  <2> SUFFICES ASSUME S \cap T \subseteq F PROVE FALSE
    BY Zenon
  <2>1. Cardinality(S \cap T) <= Cardinality(F)
    BY <1>1, FS_Subset, Zenon
  <2> HIDE DEF F
  <2> QED BY <2>1, <1>7, <1>2
<1> QED
  BY <1>8, QuorumAssumption, Zenon DEF Honest

\* A threshold of shares of one session, held by a node, makes the session's
\* signature recoverable: distinct shares of a session have distinct signers.
LEMMA EnoughShares ==
    ASSUME NEW shares \in SUBSET Share,
           \A t \in shares : t.by \in Valid[t.q],
           NEW s \in Share,
           CountForSignHash(shares, s) >= Threshold
    PROVE  Recoverable(shares, [q |-> s.q, id |-> s.id, m |-> s.m])
<1> DEFINE C == {t \in shares : SameSession(s, t)}
           S == {t.by : t \in C}
           f == [t \in C |-> t.by]
<1>0. s.q \in Quorum /\ s.id \in Id /\ s.m \in Msg /\ s.by \in Node
  BY Zenon DEF Share
<1>1. \A t \in C : t = [q |-> s.q, id |-> s.id, m |-> s.m, by |-> t.by]
  BY DEF SameSession, Share
<1>2. S \subseteq Valid[s.q]
  BY Zenon DEF SameSession
<1>3. IsFiniteSet(S)
  BY <1>2, <1>0, ValidFinite, FS_Subset, Zenon
<1>4. f \in Injection(C, S)
  BY <1>1, Zenon DEF Injection, IsInjective
<1>5. IsFiniteSet(C) /\ Cardinality(C) <= Cardinality(S)
  <2> HIDE DEF S, C, f
  <2> QED BY <1>3, <1>4, FS_Injection, Zenon
<1>6. Cardinality(S) >= Threshold
  <2>1. Cardinality(C) >= Threshold
    BY Zenon DEF CountForSignHash
  <2>2. Cardinality(C) \in Nat /\ Cardinality(S) \in Nat /\ Threshold \in Nat
    <3> HIDE DEF S, C
    <3> QED BY <1>5, <1>3, FS_CardinalityType, QuorumAssumption, Zenon
  <2> HIDE DEF S, C
  <2> QED BY <1>5, <2>1, <2>2
<1>7. \A n \in S : [q |-> s.q, id |-> s.id, m |-> s.m, by |-> n] \in shares
  BY <1>1, Zenon
<1> QED
  <2> HIDE DEF S
  <2> QED BY <1>2, <1>6, <1>7, Zenon DEF Recoverable

\* More shares never make a signature unrecoverable.
LEMMA RecoverableMonotone ==
    ASSUME NEW A, NEW B, A \subseteq B, NEW rs, Recoverable(A, rs)
    PROVE  Recoverable(B, rs)
BY Zenon DEF Recoverable

-----------------------------------------------------------------------------
(* The two operators every handler ends in.                                *)

\* What ProcessSigShare and ProcessRecoveredSig may change, and must keep.
StoresOK ==
    /\ recSig \in [Honest -> [Id -> RecSig \cup {NoRec}]]
    /\ pendingShares \in [Honest -> SUBSET Share]
    /\ sigShares \in [Honest -> SUBSET Share]
    /\ netShares \subseteq Share
    /\ netRecSigs \subseteq RecSig
    /\ SharesExist
    /\ \A rs \in netRecSigs : Recoverable(netShares, rs)
    /\ \A n \in Honest, id \in Id :
          recSig[n][id] # NoRec => recSig[n][id] \in netRecSigs /\ recSig[n][id].id = id

\* ProcessRecoveredSig, when the signature is recoverable from the shares that
\* exist after the step, of which there may be more than before.
LEMMA ProcessRecoveredSigOK ==
    ASSUME StoresOK,
           NEW n \in Honest, NEW rs \in RecSig,
           NEW shares \in SUBSET netShares', NEW pshares \in SUBSET netShares',
           netShares \subseteq netShares', netShares' \subseteq Share,
           \A s \in netShares' : s.by \in Valid[s.q],
           Recoverable(netShares', rs),
           ProcessRecoveredSig(n, rs, shares, pshares)
    PROVE  StoresOK' /\ netRecSigs \subseteq netRecSigs'
<1>1. \A r \in netRecSigs : Recoverable(netShares', r)
  BY RecoverableMonotone, Zenon DEF StoresOK
<1>2. rs.id \in Id
  BY Zenon DEF RecSig
<1>3. WithoutSession(shares, rs) \subseteq shares /\ WithoutSession(pshares, rs) \subseteq pshares
  BY Zenon DEF WithoutSession
<1>4. CASE HasRecoveredSigForId(n, rs.id)
  BY <1>1, <1>4, ZenonT(60) DEF StoresOK, SharesExist, ProcessRecoveredSig
<1>5. CASE ~HasRecoveredSigForId(n, rs.id)
  <2>1. /\ recSig' = [recSig EXCEPT ![n][rs.id] = rs]
        /\ netRecSigs' = netRecSigs \cup {rs}
        /\ sigShares' = [sigShares EXCEPT ![n] = WithoutSession(shares, rs)]
        /\ pendingShares' = [pendingShares EXCEPT ![n] = WithoutSession(pshares, rs)]
    BY <1>5, Zenon DEF ProcessRecoveredSig
  <2>2. recSig' \in [Honest -> [Id -> RecSig \cup {NoRec}]]
    BY <2>1, <1>2, Zenon DEF StoresOK
  <2>3. /\ pendingShares' \in [Honest -> SUBSET Share]
        /\ sigShares' \in [Honest -> SUBSET Share]
        /\ SharesExist'
    BY <2>1, <1>3, Zenon DEF StoresOK, SharesExist
  <2>4. \A r \in netRecSigs' : Recoverable(netShares', r)
    BY <2>1, <1>1, Zenon
  <2>5. ASSUME NEW k \in Honest, NEW id \in Id, recSig'[k][id] # NoRec
        PROVE  recSig'[k][id] \in netRecSigs' /\ recSig'[k][id].id = id
    BY <2>1, <2>5, <1>2, Zenon DEF StoresOK
  <2> QED
    BY <2>1, <2>2, <2>3, <2>4, <2>5, Zenon DEF StoresOK
<1> QED
  BY <1>4, <1>5, Zenon

\* ProcessSigShare, on a share of a valid member.
LEMMA ProcessSigShareOK ==
    ASSUME StoresOK,
           NEW n \in Honest, NEW s \in Share, s.by \in Valid[s.q],
           NEW pshares \in SUBSET netShares,
           ProcessSigShare(n, s, pshares)
    PROVE  /\ StoresOK'
           /\ netShares' \in {netShares, netShares \cup {s}}
           /\ netRecSigs \subseteq netRecSigs'
<1>1. CASE HasRecoveredSigForId(n, s.id) \/ s \in sigShares[n]
  BY <1>1, ZenonT(60) DEF ProcessSigShare, StoresOK, SharesExist
<1>2. CASE ~(HasRecoveredSigForId(n, s.id) \/ s \in sigShares[n])
  <2> DEFINE shares == sigShares[n] \cup {s}
             rs == [q |-> s.q, id |-> s.id, m |-> s.m]
  <2>1. netShares' = netShares \cup {s}
    BY <1>2, Zenon DEF ProcessSigShare
  <2>2. /\ netShares' \subseteq Share
        /\ \A t \in netShares' : t.by \in Valid[t.q]
        /\ shares \subseteq netShares'
        /\ pshares \subseteq netShares'
    BY <2>1, Zenon DEF StoresOK, SharesExist
  <2>3. rs \in RecSig
    BY Zenon DEF Share, RecSig
  <2>4. CASE CountForSignHash(shares, s) >= Threshold
    <3>1. ProcessRecoveredSig(n, rs, shares, pshares)
      BY <1>2, <2>4, Zenon DEF ProcessSigShare
    <3>2. Recoverable(shares, rs)
      <4>1. shares \in SUBSET Share /\ \A t \in shares : t.by \in Valid[t.q]
        BY <2>2, Zenon
      <4> HIDE DEF shares
      <4> QED BY <4>1, <2>4, EnoughShares, Zenon
    <3>3. Recoverable(netShares', rs)
      <4> HIDE DEF shares, rs
      <4> QED BY <3>2, <2>2, RecoverableMonotone, Zenon
    <3> HIDE DEF shares, rs
    <3> QED
      BY <2>1, <2>2, <2>3, <3>1, <3>3, ProcessRecoveredSigOK, Zenon
  <2>5. CASE ~(CountForSignHash(shares, s) >= Threshold)
    <3>1. /\ sigShares' = [sigShares EXCEPT ![n] = shares]
          /\ pendingShares' = [pendingShares EXCEPT ![n] = pshares]
          /\ UNCHANGED <<recSig, netRecSigs>>
      BY <1>2, <2>5, Zenon DEF ProcessSigShare
    <3>2. \A r \in netRecSigs' : Recoverable(netShares', r)
      BY <2>1, <3>1, RecoverableMonotone, Zenon DEF StoresOK
    <3> QED
      BY <2>1, <2>2, <3>1, <3>2, ZenonT(60) DEF StoresOK, SharesExist
  <2> QED
    BY <2>4, <2>5, Zenon
<1> QED
  BY <1>1, <1>2, Zenon

-----------------------------------------------------------------------------
(* The invariant is inductive.                                             *)

\* The invariant holds when every node starts with an empty database.
LEMMA IInvInit == Init => IInv
BY ViewAssumption DEF Init, IInv, TypeOK, ShareFollowsVote, PendingFollowsVote,
                      SharesExist, RecoveredExist

\* The part of the invariant that ProcessSigShare and ProcessRecoveredSig rely on.
LEMMA IInvStores == IInv => StoresOK
BY Zenon DEF IInv, StoresOK, TypeOK, RecoveredExist

\* What the code does while nothing is lost keeps the invariant.
LEMMA SigningStepOK ==
    ASSUME IInv, NEW n \in Honest, SigningStep(n)
    PROVE  IInv'
<1> USE DEF IInv
<1>1. ASSUME NEW id \in Id, NEW m \in Msg, AsyncSignIfMember(n, id, m)
      PROVE  IInv'
  <2> DEFINE q == Selected[tip[n]][id]
  <2>1. /\ voted[n][id] = NoMsg
        /\ voted' = [voted EXCEPT ![n][id] = m]
        /\ \/ UNCHANGED pendingSigns
           \/ /\ q \in Quorum
              /\ pendingSigns' = [pendingSigns EXCEPT ![n] =
                                     @ \cup {[q |-> q, id |-> id, m |-> m]}]
        /\ UNCHANGED <<tip, recSig, pendingShares, sigShares, pendingRecSigs,
                       netShares, netRecSigs, forgotten, aborted>>
    BY <1>1, ViewAssumption DEF AsyncSignIfMember, HasVotedOnId, TypeOK
  <2>2. TypeOK'
    BY <2>1 DEF TypeOK, RecSig
  <2>a. \A k \in Honest, i \in Id : voted[k][i] # NoMsg => voted'[k][i] = voted[k][i]
    BY <2>1, Zenon DEF TypeOK
  <2>3. ShareFollowsVote'
    <3>1. netShares \subseteq Share
      BY Zenon DEF TypeOK
    <3> QED
      BY <2>1, <2>a, <3>1, NullAssumption DEF ShareFollowsVote, Share
  <2>4. PendingFollowsVote'
    <3>1. ASSUME NEW k \in Honest, NEW p \in pendingSigns'[k], p.id \notin forgotten'
          PROVE  voted'[k][p.id] = p.m
      <4>1. CASE p \in pendingSigns[k]
        <5>1. p.id \in Id /\ p.m \in Msg
          BY <4>1 DEF TypeOK, RecSig
        <5> QED
          BY <2>1, <2>a, <3>1, <4>1, <5>1, NullAssumption DEF PendingFollowsVote
      <4>2. CASE p \notin pendingSigns[k]
        BY <2>1, <4>2 DEF TypeOK
      <4> QED BY <4>1, <4>2, Zenon
    <3> QED BY <3>1, Zenon DEF PendingFollowsVote
  <2>5. SharesExist' /\ RecoveredExist'
    <3>1. SharesExist'
      BY <2>1, Zenon DEF SharesExist
    <3>2. RecoveredExist'
      BY <2>1, Zenon DEF RecoveredExist, Recoverable
    <3> QED BY <3>1, <3>2, Zenon
  <2> QED BY <2>2, <2>3, <2>4, <2>5, Zenon
<1>2. ASSUME NEW p \in pendingSigns[n], SignPendingSigShare(n, p)
      PROVE  IInv'
  <2> DEFINE s == [q |-> p.q, id |-> p.id, m |-> p.m, by |-> n]
  <2>1. /\ pendingSigns' = [pendingSigns EXCEPT ![n] = @ \ {p}]
        /\ UNCHANGED <<tip, voted, pendingRecSigs, forgotten, aborted>>
    BY <1>2, Zenon DEF SignPendingSigShare
  <2>2. p \in RecSig /\ s \in Share
    BY DEF TypeOK, RecSig, Share, Honest
  <2>3. /\ StoresOK'
        /\ netShares' \in {netShares, netShares \cup {s}}
        /\ netRecSigs \subseteq netRecSigs'
    <3>1. CASE n \in Valid[p.q] \cap SkShare[p.q]
      <4>1. ProcessSigShare(n, s, pendingShares[n])
        BY <1>2, <3>1, Zenon DEF SignPendingSigShare
      <4>2. s.by \in Valid[s.q] /\ pendingShares[n] \subseteq netShares
        BY <3>1, Zenon DEF SharesExist
      <4> HIDE DEF s
      <4> QED BY <2>2, <4>1, <4>2, IInvStores, ProcessSigShareOK, Zenon
    <3>2. CASE n \notin Valid[p.q] \cap SkShare[p.q]
      BY <1>2, <3>2, IInvStores, ZenonT(60) DEF SignPendingSigShare, StoresOK, SharesExist, Recoverable
    <3> QED BY <3>1, <3>2, Zenon
  <2>4. TypeOK' /\ PendingFollowsVote'
    BY <2>1, <2>3, ZenonT(60) DEF TypeOK, PendingFollowsVote, StoresOK
  <2>5. ShareFollowsVote'
    <3>1. p.id \notin forgotten => voted[n][p.id] = p.m
      BY Zenon DEF PendingFollowsVote
    <3> QED BY <2>1, <2>3, <3>1 DEF ShareFollowsVote
  <2>6. SharesExist' /\ RecoveredExist'
    <3>1. SharesExist'
      BY <2>3, Zenon DEF StoresOK
    <3>2. RecoveredExist'
      BY <2>1, <2>3, Zenon DEF StoresOK, RecoveredExist
    <3> QED BY <3>1, <3>2, Zenon
  <2> QED BY <2>4, <2>5, <2>6, Zenon
<1>3. ASSUME NEW s \in netShares, ReceiveSigShare(n, s)
      PROVE  IInv'
  <2>1. TypeOK'
    BY <1>3, Zenon DEF ReceiveSigShare, TypeOK
  <2>2. SharesExist'
    BY <1>3, Zenon DEF ReceiveSigShare, TypeOK, SharesExist
  <2> QED
    BY <1>3, <2>1, <2>2, Zenon DEF ReceiveSigShare, ShareFollowsVote, PendingFollowsVote,
                            RecoveredExist, Recoverable
<1>4. ASSUME NEW s \in pendingShares[n], ProcessPendingSigShare(n, s)
      PROVE  IInv'
  <2>1. /\ ProcessSigShare(n, s, pendingShares[n] \ {s})
        /\ UNCHANGED <<tip, voted, pendingSigns, pendingRecSigs, forgotten, aborted>>
    BY <1>4, Zenon DEF ProcessPendingSigShare
  <2>2. s \in netShares /\ s \in Share /\ s.by \in Valid[s.q]
    BY Zenon DEF SharesExist, TypeOK
  <2>3. pendingShares[n] \ {s} \in SUBSET netShares
    BY Zenon DEF SharesExist
  <2>4. StoresOK' /\ netShares' = netShares /\ netRecSigs \subseteq netRecSigs'
    BY <2>1, <2>2, <2>3, IInvStores, ProcessSigShareOK
  <2>7. TypeOK'
    BY <2>1, <2>4, Zenon DEF StoresOK, TypeOK
  <2>8. ShareFollowsVote' /\ PendingFollowsVote'
    BY <2>1, <2>4, Zenon DEF ShareFollowsVote, PendingFollowsVote
  <2>9. SharesExist' /\ RecoveredExist'
    <3>1. SharesExist'
      BY <2>4, Zenon DEF StoresOK
    <3>2. RecoveredExist'
      BY <2>1, <2>4, Zenon DEF StoresOK, RecoveredExist
    <3> QED BY <3>1, <3>2
  <2> QED
    BY <2>7, <2>8, <2>9, Zenon
<1>5. ASSUME NEW rs \in netRecSigs, ReceiveRecoveredSig(n, rs)
      PROVE  IInv'
  <2>1. TypeOK'
    BY <1>5, Zenon DEF ReceiveRecoveredSig, TypeOK
  <2>2. RecoveredExist'
    BY <1>5, ZenonT(60) DEF ReceiveRecoveredSig, TypeOK, RecoveredExist, Recoverable
  <2> QED
    BY <1>5, <2>1, <2>2, Zenon DEF ReceiveRecoveredSig, ShareFollowsVote, PendingFollowsVote, SharesExist
<1>6. ASSUME NEW rs \in pendingRecSigs[n], ProcessPendingRecoveredSig(n, rs)
      PROVE  IInv'
  <2>1. /\ pendingRecSigs' = [pendingRecSigs EXCEPT ![n] = @ \ {rs}]
        /\ UNCHANGED <<tip, voted, pendingSigns, netShares, forgotten, aborted>>
    BY <1>6, Zenon DEF ProcessPendingRecoveredSig
  <2>2. StoresOK' /\ netRecSigs \subseteq netRecSigs'
    <3>1. CASE rs.q \in Active[tip[n]]
      <4>1. ProcessRecoveredSig(n, rs, sigShares[n], pendingShares[n])
        BY <1>6, <3>1, Zenon DEF ProcessPendingRecoveredSig
      <4>2. rs \in RecSig /\ Recoverable(netShares', rs)
        BY <2>1, ZenonT(60) DEF RecoveredExist, TypeOK, Recoverable
      <4>3. sigShares[n] \in SUBSET netShares' /\ pendingShares[n] \in SUBSET netShares'
        BY <2>1, Zenon DEF SharesExist
      <4>4. /\ netShares \subseteq netShares' /\ netShares' \subseteq Share
            /\ \A s \in netShares' : s.by \in Valid[s.q]
        BY <2>1, Zenon DEF SharesExist, TypeOK
      <4> QED BY <4>1, <4>2, <4>3, <4>4, IInvStores, ProcessRecoveredSigOK, Zenon
    <3>2. CASE rs.q \notin Active[tip[n]]
      BY <1>6, <3>2, IInvStores, ZenonT(60) DEF ProcessPendingRecoveredSig, StoresOK, SharesExist, Recoverable
    <3> QED BY <3>1, <3>2, Zenon
  <2> QED
    BY <2>1, <2>2, ZenonT(60) DEF StoresOK, TypeOK, ShareFollowsVote, PendingFollowsVote, RecoveredExist
<1>7. ASSUME NEW rs \in netRecSigs, ProcessReconstructedRecoveredSig(n, rs)
      PROVE  IInv'
  <2>1. /\ ProcessRecoveredSig(n, rs, sigShares[n], pendingShares[n])
        /\ UNCHANGED <<tip, voted, pendingSigns, pendingRecSigs, netShares, forgotten, aborted>>
    BY <1>7, Zenon DEF ProcessReconstructedRecoveredSig
  <2>2. rs \in RecSig /\ Recoverable(netShares', rs)
    BY <2>1, ZenonT(60) DEF RecoveredExist, TypeOK, Recoverable
  <2>3. sigShares[n] \in SUBSET netShares' /\ pendingShares[n] \in SUBSET netShares'
    BY <2>1, Zenon DEF SharesExist
  <2>4. /\ netShares \subseteq netShares' /\ netShares' \subseteq Share
        /\ \A s \in netShares' : s.by \in Valid[s.q]
    BY <2>1, Zenon DEF SharesExist, TypeOK
  <2>5. StoresOK' /\ netRecSigs \subseteq netRecSigs'
    BY <2>1, <2>2, <2>3, <2>4, IInvStores, ProcessRecoveredSigOK, SMTT(30)
  <2>7. TypeOK'
    BY <2>1, <2>5, Zenon DEF StoresOK, TypeOK
  <2>8. ShareFollowsVote' /\ PendingFollowsVote'
    BY <2>1, <2>5, Zenon DEF ShareFollowsVote, PendingFollowsVote
  <2>9. SharesExist' /\ RecoveredExist'
    <3>1. SharesExist'
      BY <2>5, Zenon DEF StoresOK
    <3>2. RecoveredExist'
      BY <2>1, <2>5, Zenon DEF StoresOK, RecoveredExist
    <3> QED BY <3>1, <3>2, Zenon
  <2> QED
    BY <2>7, <2>8, <2>9, Zenon
<1> QED
  BY <1>1, <1>2, <1>3, <1>4, <1>5, <1>6, <1>7, Zenon DEF SigningStep

\* Losing memory, erasing records and moving tips keep the invariant: what is
\* erased can only make fewer things needed, except a vote, which is then recorded
\* in forgotten.
LEMMA EnvironmentStepOK ==
    ASSUME IInv, NEW n \in Honest, EnvironmentStep(n)
    PROVE  IInv'
<1> USE DEF IInv
<1>1. ASSUME NEW s \in pendingShares[n], AbortOnUnknownQuorum(n, s)
      PROVE  IInv'
  <2>1. TypeOK'
    BY <1>1, Zenon DEF AbortOnUnknownQuorum, LoseMemory, TypeOK
  <2>2. PendingFollowsVote'
    BY <1>1, Zenon DEF AbortOnUnknownQuorum, LoseMemory, TypeOK, PendingFollowsVote
  <2>3. SharesExist'
    BY <1>1, Zenon DEF AbortOnUnknownQuorum, LoseMemory, TypeOK, SharesExist
  <2>4. RecoveredExist'
    BY <1>1, ZenonT(60) DEF AbortOnUnknownQuorum, LoseMemory, TypeOK, RecoveredExist, Recoverable
  <2> QED
    BY <1>1, <2>1, <2>2, <2>3, <2>4, Zenon DEF AbortOnUnknownQuorum, ShareFollowsVote
<1>2. ASSUME NEW s \in sigShares[n], CleanupSession(n, s)
      PROVE  IInv'
  <2>1. /\ WithoutSession(sigShares[n], s) \subseteq sigShares[n]
        /\ WithoutSession(pendingShares[n], s) \subseteq pendingShares[n]
    BY Zenon DEF WithoutSession
  <2>2. TypeOK' /\ SharesExist'
    BY <1>2, <2>1, Zenon DEF CleanupSession, TypeOK, SharesExist
  <2> QED
    BY <1>2, <2>2, Zenon DEF CleanupSession, ShareFollowsVote, PendingFollowsVote,
                      RecoveredExist, Recoverable
<1>3. ASSUME NEW id \in Id, RemoveRecoveredSig(n, id)
      PROVE  IInv'
  <2>1. TypeOK'
    BY <1>3, Zenon DEF RemoveRecoveredSig, TypeOK
  <2>2. RecoveredExist'
    BY <1>3, ZenonT(60) DEF RemoveRecoveredSig, TypeOK, RecoveredExist, Recoverable
  <2> QED
    BY <1>3, <2>1, <2>2, Zenon DEF RemoveRecoveredSig, ShareFollowsVote, PendingFollowsVote, SharesExist
<1>4. ASSUME NEW id \in Id, CleanupOldVote(n, id)
      PROVE  IInv'
  <2>1. TypeOK'
    BY <1>4, Zenon DEF CleanupOldVote, TypeOK
  <2>2. ShareFollowsVote'
    BY <1>4, Zenon DEF CleanupOldVote, TypeOK, Share, ShareFollowsVote
  <2>3. PendingFollowsVote'
    BY <1>4 DEF CleanupOldVote, TypeOK, RecSig, PendingFollowsVote
  <2> QED
    BY <1>4, <2>1, <2>2, <2>3, Zenon DEF CleanupOldVote, SharesExist, RecoveredExist, Recoverable
<1>5. ASSUME Restart(n)
      PROVE  IInv'
  BY <1>5, ZenonT(60) DEF Restart, LoseMemory, TypeOK, ShareFollowsVote, PendingFollowsVote,
              SharesExist, RecoveredExist, Recoverable
<1>6. ASSUME RestartWithReindex(n)
      PROVE  IInv'
  <2>1. TypeOK'
    BY <1>6, Zenon DEF RestartWithReindex, LoseMemory, TypeOK
  <2>2. \A k \in Honest, id \in Id :
            id \notin forgotten' => id \notin forgotten /\ voted'[k][id] = voted[k][id]
    BY <1>6, Zenon DEF RestartWithReindex, HasVotedOnId, TypeOK
  <2>3. ShareFollowsVote'
    <3>1. netShares' = netShares /\ netShares \subseteq Share
      BY <1>6, Zenon DEF RestartWithReindex, TypeOK
    <3> QED
      BY <2>2, <3>1, Zenon DEF Share, ShareFollowsVote
  <2>4. PendingFollowsVote'
    <3>1. \A k \in Honest : pendingSigns'[k] \subseteq pendingSigns[k]
      BY <1>6, Zenon DEF RestartWithReindex, LoseMemory, TypeOK
    <3> QED
      <4>1. \A k \in Honest : \A r \in pendingSigns[k] : r.id \in Id
        BY DEF TypeOK, RecSig
      <4> QED
        BY <2>2, <3>1, <4>1 DEF PendingFollowsVote
  <2>5. SharesExist' /\ RecoveredExist'
    BY <1>6, ZenonT(60) DEF RestartWithReindex, LoseMemory, TypeOK, SharesExist, RecoveredExist, Recoverable
  <2> QED BY <2>1, <2>3, <2>4, <2>5, Zenon
<1>7. ASSUME NEW v \in View, UpdatedBlockTip(n, v)
      PROVE  IInv'
  BY <1>7, ZenonT(60) DEF UpdatedBlockTip, TypeOK, ShareFollowsVote, PendingFollowsVote,
              SharesExist, RecoveredExist, Recoverable
<1> QED
  BY <1>1, <1>2, <1>3, <1>4, <1>5, <1>6, <1>7, Zenon DEF EnvironmentStep

\* No step of the code, of its environment or of a faulty member breaks the
\* invariant.
LEMMA IInvNext == IInv /\ [Next]_vars => IInv'
<1> SUFFICES ASSUME IInv, [Next]_vars PROVE IInv'
  BY Zenon
<1>1. ASSUME NEW s \in Share, FaultySign(s) PROVE IInv'
  <2>1. \A rs \in netRecSigs : Recoverable(netShares', rs)
    BY <1>1, RecoverableMonotone, SMTT(30) DEF FaultySign, IInv, RecoveredExist
  <2> QED
    BY <1>1, <2>1, ZenonT(60) DEF FaultySign, IInv, TypeOK, Honest, ShareFollowsVote,
                      PendingFollowsVote, SharesExist, RecoveredExist
<1>2. ASSUME NEW rs \in RecSig, FaultyRecover(rs) PROVE IInv'
  BY <1>2, ZenonT(60) DEF FaultyRecover, IInv, TypeOK, ShareFollowsVote, PendingFollowsVote,
              SharesExist, RecoveredExist, Recoverable
<1>3. CASE UNCHANGED vars
  BY <1>3, ZenonT(60) DEF vars, IInv, TypeOK, ShareFollowsVote, PendingFollowsVote,
              SharesExist, RecoveredExist, Recoverable
<1> QED
  BY <1>1, <1>2, <1>3, SigningStepOK, EnvironmentStepOK, Zenon DEF Next

\* The invariant holds in every reachable state: votes precede the shares AsyncSign
\* queues and signs, and what a node stores was signed by someone.
THEOREM IInvCorrect == Spec => []IInv
BY IInvInit, IInvNext, PTL DEF Spec

-----------------------------------------------------------------------------
(* What the invariant gives.                                               *)

\* Every variable of the signing state keeps its type in every reachable state.
THEOREM TypeCorrect == Spec => []TypeOK
<1>1. IInv => TypeOK
  BY Zenon DEF IInv
<1> QED BY <1>1, IInvCorrect, PTL

\* An honest member's share (Sign) agrees with its recorded vote (WriteVoteForId)
\* for as long as the vote has not been erased.
THEOREM SharesFollowVotes == Spec => []ShareFollowsVote
<1>1. IInv => ShareFollowsVote
  BY Zenon DEF IInv
<1> QED BY <1>1, IInvCorrect, PTL

\* Whatever path it came by, a stored recovered signature (WriteRecoveredSig) was
\* signed by a threshold of valid members; no assumption on faulty members.
THEOREM StoredSigsAreRecoverable == Spec => []StoredIsRecoverable
<1>1. IInv => StoredIsRecoverable
  BY Zenon DEF IInv, RecoveredExist, StoredIsRecoverable, HasRecoveredSigForId
<1> QED BY <1>1, IInvCorrect, PTL

\* A threshold for each of two messages needs an honest member who signed both.
LEMMA IInvUnique ==
    ASSUME MajorityThreshold
    PROVE  IInv => UniqueRecoveredPerQuorum
<1>1. ASSUME IInv PROVE UniqueRecoveredPerQuorum
  <2> SUFFICES ASSUME NEW r1 \in netRecSigs, NEW r2 \in netRecSigs,
                      r1.q = r2.q, r1.id = r2.id, r1.id \notin forgotten
               PROVE  r1.m = r2.m
    BY Zenon DEF UniqueRecoveredPerQuorum
  <2>1. r1 \in RecSig /\ r2 \in RecSig /\ r1.q \in Quorum
    BY <1>1, Zenon DEF IInv, TypeOK, RecSig
  <2>2. PICK S \in SUBSET Valid[r1.q] :
            /\ Cardinality(S) >= Threshold
            /\ \A n \in S : [q |-> r1.q, id |-> r1.id, m |-> r1.m, by |-> n] \in netShares
    BY <1>1, Zenon DEF IInv, RecoveredExist, Recoverable
  <2>3. PICK T \in SUBSET Valid[r1.q] :
            /\ Cardinality(T) >= Threshold
            /\ \A n \in T : [q |-> r2.q, id |-> r2.id, m |-> r2.m, by |-> n] \in netShares
    BY <1>1, Zenon DEF IInv, RecoveredExist, Recoverable
  <2>4. PICK n \in S \cap T : n \in Honest
    BY <2>1, <2>2, <2>3, HonestIntersection, Zenon
  <2>5. voted[n][r1.id] = r1.m /\ voted[n][r1.id] = r2.m
    BY <1>1, <2>2, <2>3, <2>4, ZenonT(60) DEF IInv, ShareFollowsVote
  <2> QED BY <2>5, Zenon
<1> QED BY <1>1, Zenon

\* The threshold signature of an id is unique inside a quorum: AsyncSignIfMember's
\* vote-once rule is enough when the threshold is a majority in the sense of
\* MajorityThreshold, for any number of members, ids, messages and tips.
THEOREM RecoveredSigsAreUnique ==
    ASSUME MajorityThreshold
    PROVE  Spec => []UniqueRecoveredPerQuorum
BY IInvUnique, IInvCorrect, PTL

-----------------------------------------------------------------------------
(* Signing implements QuorumOracle.                                        *)

OneMoreSig ==
    \E rs \in RecSig : netRecSigs' = netRecSigs \cup {rs} /\ forgotten' = forgotten

SameSigs ==
    netRecSigs' = netRecSigs /\ \E ids \in SUBSET Id : forgotten' = forgotten \cup ids

\* A step of any handler produces at most one new recovered signature, and none
\* while it erases votes.
LEMMA SigsGrowByOne ==
    ASSUME IInv, [Next]_vars
    PROVE  OneMoreSig \/ SameSigs
<1>0. {} \in SUBSET Id
  BY Zenon
<1>1. ASSUME netRecSigs' = netRecSigs, forgotten' = forgotten PROVE SameSigs
  BY <1>0, <1>1, ZenonT(60) DEF SameSigs
<1>2. ASSUME NEW n \in Honest, NEW rs \in RecSig, NEW shares, NEW pshares,
             ProcessRecoveredSig(n, rs, shares, pshares), forgotten' = forgotten
      PROVE  OneMoreSig \/ SameSigs
  BY <1>1, <1>2, Zenon DEF ProcessRecoveredSig, OneMoreSig
<1>3. ASSUME NEW n \in Honest, NEW s \in Share, NEW pshares,
             ProcessSigShare(n, s, pshares), forgotten' = forgotten
      PROVE  OneMoreSig \/ SameSigs
  <2>1. [q |-> s.q, id |-> s.id, m |-> s.m] \in RecSig
    BY Zenon DEF Share, RecSig
  <2> QED BY <1>1, <1>2, <1>3, <2>1, Zenon DEF ProcessSigShare
<1>4. ASSUME NEW n \in Honest, SigningStep(n) PROVE OneMoreSig \/ SameSigs
  <2>1. ASSUME NEW id \in Id, NEW m \in Msg, AsyncSignIfMember(n, id, m)
        PROVE  OneMoreSig \/ SameSigs
    BY <2>1, <1>1, Zenon DEF AsyncSignIfMember
  <2>2. ASSUME NEW p \in pendingSigns[n], SignPendingSigShare(n, p)
        PROVE  OneMoreSig \/ SameSigs
    <3>1. p \in RecSig
      BY <2>2, Zenon DEF IInv, TypeOK
    <3>2. [q |-> p.q, id |-> p.id, m |-> p.m, by |-> n] \in Share
      BY <3>1, Zenon DEF RecSig, Share, Honest
    <3> QED BY <2>2, <3>2, <1>1, <1>3, Zenon DEF SignPendingSigShare
  <2>3. ASSUME NEW s \in netShares, ReceiveSigShare(n, s) PROVE OneMoreSig \/ SameSigs
    BY <2>3, <1>1, Zenon DEF ReceiveSigShare
  <2>4. ASSUME NEW s \in pendingShares[n], ProcessPendingSigShare(n, s)
        PROVE  OneMoreSig \/ SameSigs
    <3>1. s \in Share
      BY <2>4, Zenon DEF IInv, TypeOK
    <3> QED BY <2>4, <3>1, <1>3, Zenon DEF ProcessPendingSigShare
  <2>5. ASSUME NEW rs \in netRecSigs, ReceiveRecoveredSig(n, rs)
        PROVE  OneMoreSig \/ SameSigs
    BY <2>5, <1>1, Zenon DEF ReceiveRecoveredSig
  <2>6. ASSUME NEW rs \in pendingRecSigs[n], ProcessPendingRecoveredSig(n, rs)
        PROVE  OneMoreSig \/ SameSigs
    <3>1. rs \in RecSig
      BY <2>6, Zenon DEF IInv, TypeOK
    <3> QED BY <2>6, <3>1, <1>1, <1>2, Zenon DEF ProcessPendingRecoveredSig
  <2>7. ASSUME NEW rs \in netRecSigs, ProcessReconstructedRecoveredSig(n, rs)
        PROVE  OneMoreSig \/ SameSigs
    <3>1. rs \in RecSig
      BY <2>7, Zenon DEF IInv, TypeOK
    <3> QED BY <2>7, <3>1, <1>2, Zenon DEF ProcessReconstructedRecoveredSig
  <2> QED BY <1>4, <2>1, <2>2, <2>3, <2>4, <2>5, <2>6, <2>7, Zenon DEF SigningStep
<1>5. ASSUME NEW n \in Honest, EnvironmentStep(n) PROVE SameSigs
  <2>1. ASSUME NEW id \in Id, CleanupOldVote(n, id) PROVE SameSigs
    BY <2>1, ZenonT(60) DEF CleanupOldVote, SameSigs
  <2>2. CASE RestartWithReindex(n)
    BY <2>2, ZenonT(60) DEF RestartWithReindex, SameSigs
  <2> QED BY <1>1, <1>5, <2>1, <2>2, Zenon
          DEF EnvironmentStep, AbortOnUnknownQuorum, CleanupSession, RemoveRecoveredSig,
              Restart, UpdatedBlockTip
<1>6. ASSUME NEW rs \in RecSig, FaultyRecover(rs) PROVE OneMoreSig
  BY <1>6, Zenon DEF FaultyRecover, OneMoreSig
<1>7. ASSUME NEW s \in Share, FaultySign(s) PROVE SameSigs
  BY <1>1, <1>7, Zenon DEF FaultySign
<1>8. CASE UNCHANGED vars
  BY <1>1, <1>8, Zenon DEF vars
<1> QED BY <1>4, <1>5, <1>6, <1>7, <1>8, Zenon DEF Next

\* Under MajorityThreshold all the handlers of all nodes together implement the
\* abstract signer the users of CSigningManager assume.
THEOREM SigningImplementsOracle ==
    ASSUME MajorityThreshold
    PROVE  Spec => ImplementsOracle
<1>1. Init => Oracle!Init
  BY Zenon DEF Init, Oracle!Init
<1>2. IInv => UniqueRecoveredPerQuorum
  BY IInvUnique, Zenon
<1>3. IInv' => UniqueRecoveredPerQuorum'
  BY <1>2, PTL
<1>4. IInv /\ IInv' /\ [Next]_vars => [Oracle!Next]_<<netRecSigs, forgotten>>
  <2> SUFFICES ASSUME IInv, UniqueRecoveredPerQuorum', [Next]_vars
               PROVE  [Oracle!Next]_<<netRecSigs, forgotten>>
    BY <1>3, Zenon
  <2>1. CASE SameSigs
    BY <2>1, Zenon DEF SameSigs, Oracle!Next, Oracle!EraseVotes
  <2>2. CASE OneMoreSig
    <3>1. PICK rs \in RecSig : netRecSigs' = netRecSigs \cup {rs} /\ forgotten' = forgotten
      BY <2>2, Zenon DEF OneMoreSig
    <3>2. CASE rs \in netRecSigs
      BY <3>1, <3>2, Zenon
    <3>3. CASE rs \notin netRecSigs
      <4>1. ASSUME NEW r \in netRecSigs, r.q = rs.q, r.id = rs.id, rs.id \notin forgotten
            PROVE  FALSE
        <5>1. r.m = rs.m
          BY <3>1, <4>1, Zenon DEF UniqueRecoveredPerQuorum
        <5>2. r \in RecSig
          BY Zenon DEF IInv, TypeOK
        <5> QED BY <3>3, <4>1, <5>1, <5>2 DEF RecSig
      <4>2. Oracle!SignOnce(rs)
        BY <3>1, <4>1, Zenon DEF Oracle!SignOnce
      <4> QED BY <3>1, <4>2, Zenon DEF RecSig, Oracle!Next
    <3> QED BY <3>2, <3>3, Zenon
  <2> QED BY <2>1, <2>2, SigsGrowByOne, Zenon
<1> QED BY <1>1, <1>4, IInvCorrect, PTL DEF Spec, ImplementsOracle, Oracle!Spec

=============================================================================
