-------------------------- MODULE DKGSessionLemmas --------------------------
(***************************************************************************)
(* What each action of DKGSession keeps, for every set of members, every   *)
(* choice of simulated errors and any number of lost messages: the types,  *)
(* one commitment per member, and the shares behind the commitments.       *)
(***************************************************************************)
EXTENDS DKGSession, TLAPS

-----------------------------------------------------------------------------
(* Finite sets.  What the proofs use of the library about them is one      *)
(* hypothesis of the lemmas; the last section of DKGSessionProofs proves   *)
(* it, where the library is instantiated.                                  *)

FiniteLaws ==
  /\ IsFiniteSet({}) /\ Cardinality({}) = 0
  /\ \A S : IsFiniteSet(S) => Cardinality(S) \in Nat /\ (Cardinality(S) = 0 => S = {})
  /\ \A S : IsFiniteSet(S) => \A T \in SUBSET S : IsFiniteSet(T)
  /\ \A S, x : IsFiniteSet(S) => IsFiniteSet(S \cup {x})
  /\ \A S, T : IsFiniteSet(S) /\ IsFiniteSet(T) => IsFiniteSet(S \X T)
  /\ \A x : Cardinality({x}) = 1

\* The empty set.
LEMMA EmptyFinite ==
  ASSUME FiniteLaws
  PROVE  /\ IsFiniteSet({}) /\ Cardinality({}) = 0
         /\ \A S : IsFiniteSet(S) /\ Cardinality(S) = 0 => S = {}
BY Zenon DEF FiniteLaws

\* Cardinalities are naturals.
LEMMA CardinalityNat ==
  ASSUME FiniteLaws, NEW S, IsFiniteSet(S)
  PROVE  Cardinality(S) \in Nat
BY Zenon DEF FiniteLaws

\* A part of a finite set.
LEMMA SubsetFinite ==
  ASSUME FiniteLaws, NEW S, IsFiniteSet(S), NEW T \in SUBSET S
  PROVE  IsFiniteSet(T)
BY Zenon DEF FiniteLaws

\* One element more.
LEMMA AddFinite ==
  ASSUME FiniteLaws, NEW S, NEW x, IsFiniteSet(S)
  PROVE  IsFiniteSet(S \cup {x})
BY Zenon DEF FiniteLaws

\* Pairs.
LEMMA ProductFinite ==
  ASSUME FiniteLaws, NEW S, IsFiniteSet(S), NEW T, IsFiniteSet(T)
  PROVE  IsFiniteSet(S \X T)
BY Zenon DEF FiniteLaws

\* One element.
LEMMA SingletonCount ==
  ASSUME FiniteLaws, NEW x
  PROVE  Cardinality({x}) = 1
BY Zenon DEF FiniteLaws

-----------------------------------------------------------------------------
(* The inductive invariant.                                                *)


-----------------------------------------------------------------------------
(* The inductive invariant.                                                *)

\* A member sends one premature commitment: VerifyAndCommit runs once a session.
OneCommitment ==
  phase = "commit" =>
    /\ \A a \in sent : a.from \in started
    /\ \A a, b \in sent : a.from = b.from => a = b

\* What members keep as valid commitments was sent, so that all of them have the
\* same commitment of a member, if they have one.
SameCommitments ==
  /\ phase = "commit" => \A p \in Member : node[p].validCommitments \subseteq sent
  /\ phase \in {"contribute", "complain", "justify"} =>
       \A p \in Member : node[p].validCommitments = {}
  /\ \A p, q \in Member :
       \A a \in node[p].validCommitments, b \in node[q].validCommitments :
         a.from = b.from => a = b

\* The signers of a final commitment sent its key.
SignersCommitted ==
  /\ phase # "finalize" => \A p \in Member : final[p] = {}
  /\ \A p \in Member : \A f \in final[p] : \A s \in f.signers :
       \E qc \in node[p].validCommitments :
         qc.from = s /\ qc.valid = f.valid /\ qc.key = f.key

\* A share in the database is a point of the polynomial in the database.
SharesVerified ==
  /\ phase = "contribute" => \A p, m \in Member : db[p].sk[m] = 0
  /\ \A p, m \in Member : db[p].sk[m] = 0 \/ db[p].sk[m] = db[p].vvec[m]

\* A commitment of a member that does not lie is backed by its shares.
Backed(qc) ==
  qc.from \notin Liar =>
    \A m \in qc.valid : db[qc.from].sk[m] = qc.key[m] /\ qc.key[m] # 0

CommitmentsBacked ==
  /\ phase = "commit" => \A qc \in sent : Backed(qc)
  /\ \A p \in Member : \A qc \in node[p].validCommitments : Backed(qc)

\* The inductive invariant.
IInv ==
  /\ TypeOK
  /\ IsFiniteSet(sent)
  /\ OneCommitment
  /\ SameCommitments
  /\ SignersCommitted
  /\ SharesVerified
  /\ CommitmentsBacked

-----------------------------------------------------------------------------
\* The data of a new session is of its type (CDKGSession::Init).
LEMMA NewSessionType == NewSession \in MemberData
BY Zenon DEF NewSession, MemberData

\* The initial states satisfy the invariant.
LEMMA InitIInv ==
  ASSUME FiniteLaws
  PROVE  Init => IInv
<1> SUFFICES ASSUME Init PROVE IInv
  BY Zenon
<1>1. TypeOK
  BY NewSessionType, DKGAssumption
  DEF Init, TypeOK, Phases, Session
<1>2. IsFiniteSet(sent)
  BY EmptyFinite, Zenon DEF Init
<1>3. OneCommitment /\ SameCommitments /\ SignersCommitted
  BY Zenon DEF Init, OneCommitment, SameCommitments, SignersCommitted, NewSession
<1>4. SharesVerified /\ CommitmentsBacked
  BY Zenon DEF Init, SharesVerified, CommitmentsBacked, NewSession
<1> QED
  BY <1>1, <1>2, <1>3, <1>4, Zenon DEF IInv

-----------------------------------------------------------------------------
(* Typing.  Each action keeps the types of what it changes.                *)

\* A message is one of the phase.
LEMMA MessageTypes ==
  /\ phase = "contribute" => Message = Contribution
  /\ phase = "complain" => Message = Complaint
  /\ phase = "justify" => Message = Justification
  /\ phase = "commit" => Message = PrematureCommitment
  /\ phase = "finalize" => Message = PrematureCommitment
BY Zenon DEF Message

\* Marking members as bad keeps the rest of the data (MarkBadMember).
LEMMA MarkBadType ==
  ASSUME NEW n \in MemberData, NEW S \in SUBSET Member
  PROVE  /\ MarkBadMember(n, S) \in MemberData
         /\ MarkBadMember(n, S).validCommitments = n.validCommitments
BY Zenon DEF MarkBadMember, MemberData

\* A contribution is sent, or nothing is (SendContributions).
LEMMA SendContributionsType ==
  ASSUME FiniteLaws, TypeOK, phase = "contribute", IsFiniteSet(sent),
         NEW p \in Member, NEW ses \in Session, SendContributions(p, ses)
  PROVE  /\ sent \subseteq sent' /\ sent' \subseteq Contribution
         /\ IsFiniteSet(sent')
<1> PICK omit \in ShouldSimulateError(p, "contribution-omit"),
         wrong \in LiedTo(p, "contribution-lie", Member) :
           sent' = IF omit THEN sent
                   ELSE sent \cup {[from |-> p, session |-> ses, wrong |-> wrong]}
  BY Zenon DEF SendContributions
<1>1. wrong \subseteq Member
  BY Zenon DEF LiedTo
<1>2. sent \subseteq Contribution
  BY MessageTypes, Zenon DEF TypeOK
<1>3. IsFiniteSet(sent')
  BY AddFinite, Zenon
<1> QED
  BY <1>1, <1>2, <1>3 DEF Contribution

\* Contribute keeps the types.
LEMMA ContributeType ==
  ASSUME FiniteLaws, IInv, NEW p \in Member, Contribute(p)
  PROVE  TypeOK' /\ IsFiniteSet(sent')
<1>1. TypeOK /\ phase = "contribute" /\ IsFiniteSet(sent) /\ session[p] \in Session
  BY Zenon DEF IInv, TypeOK, Contribute
<1>2. sent \subseteq sent' /\ sent' \subseteq Contribution /\ IsFiniteSet(sent')
  BY <1>1, SendContributionsType, Zenon DEF Contribute
<1>3. Message' = Contribution
  BY <1>1, Zenon DEF Message, Contribute
<1> QED
  BY <1>1, <1>2, <1>3, Zenon DEF TypeOK, Contribute

\* Rewind keeps the types.
LEMMA RewindType ==
  ASSUME FiniteLaws, IInv, NEW p \in Member, Rewind(p)
  PROVE  TypeOK' /\ IsFiniteSet(sent')
<1>1. TypeOK /\ phase = "contribute" /\ IsFiniteSet(sent) /\ 2 \in Session
  BY DEF IInv, TypeOK, Rewind, Session
<1>2. sent \subseteq sent' /\ sent' \subseteq Contribution /\ IsFiniteSet(sent')
  BY <1>1, SendContributionsType, Zenon DEF Rewind
<1>3. Message' = Contribution
  BY <1>1, Zenon DEF Message, Rewind
<1> QED
  BY <1>1, <1>2, <1>3, NewSessionType, Zenon DEF TypeOK, Rewind

\* ReceiveContribution keeps the types.
LEMMA ReceiveContributionType ==
  ASSUME IInv, NEW p \in Member, ReceiveContribution(p)
  PROVE  /\ TypeOK' /\ IsFiniteSet(sent')
         /\ \A q \in Member : node'[q].validCommitments = node[q].validCommitments
         /\ \A q, m \in Member : db'[q].sk[m] = db[q].sk[m]
<1>1. TypeOK /\ phase = "contribute" /\ IsFiniteSet(sent) /\ sent \subseteq Contribution
  BY MessageTypes, Zenon DEF IInv, TypeOK, ReceiveContribution
<1>2. PICK msg \in Pending(p), lie \in BOOLEAN :
        /\ recv' = [recv EXCEPT ![p] = @ \cup {msg}]
        /\ \E n2 \in MemberData :
             /\ n2.validCommitments = node[p].validCommitments
             /\ node' = [node EXCEPT ![p] = n2]
        /\ db' = db \/ db' = [db EXCEPT ![p].vvec[msg.from] = msg.session]
  <2> PICK msg \in Pending(p), lie \in BOOLEAN : 
       LET m == msg.from
           n == node[p]
           stored == [n EXCEPT !.contributions[m] = @ \cup {msg}]
           first == n.contributions[m] = {}
       IN /\ recv' = [recv EXCEPT ![p] = @ \cup {msg}]
          /\ node' = [node EXCEPT ![p] =
               IF Cardinality(n.contributions[m]) >= 2 THEN n
               ELSE IF ~first THEN MarkBadMember(stored, {m})
               ELSE IF lie THEN [stored EXCEPT !.weComplain = @ \cup {m}]
               ELSE [stored EXCEPT !.pending = @ \cup {m}]]
          /\ db' = IF first THEN [db EXCEPT ![p].vvec[m] = msg.session] ELSE db
    BY Zenon DEF ReceiveContribution
  <2> DEFINE m == msg.from
             n == node[p]
             stored == [n EXCEPT !.contributions[m] = @ \cup {msg}]
             n2 == IF Cardinality(n.contributions[m]) >= 2 THEN n
                   ELSE IF n.contributions[m] # {} THEN MarkBadMember(stored, {m})
                   ELSE IF lie THEN [stored EXCEPT !.weComplain = @ \cup {m}]
                   ELSE [stored EXCEPT !.pending = @ \cup {m}]
  <2>1. msg \in Contribution /\ m \in Member /\ n \in MemberData
    BY <1>1, Zenon DEF Pending, Contribution, TypeOK
  <2>2. stored \in MemberData /\ stored.validCommitments = n.validCommitments
    BY <2>1, Zenon DEF MemberData
  <2>3. n2 \in MemberData /\ n2.validCommitments = n.validCommitments
    <3>1. MarkBadMember(stored, {m}) \in MemberData
          /\ MarkBadMember(stored, {m}).validCommitments = n.validCommitments
      BY <2>1, <2>2, MarkBadType, Zenon
    <3>2. /\ [stored EXCEPT !.weComplain = @ \cup {m}] \in MemberData
          /\ [stored EXCEPT !.weComplain = @ \cup {m}].validCommitments = n.validCommitments
      BY <2>1, <2>2, Zenon DEF MemberData
    <3>3. /\ [stored EXCEPT !.pending = @ \cup {m}] \in MemberData
          /\ [stored EXCEPT !.pending = @ \cup {m}].validCommitments = n.validCommitments
      BY <2>1, <2>2, Zenon DEF MemberData
    <3> HIDE DEF stored
    <3> QED
      BY <2>1, <3>1, <3>2, <3>3, Zenon
  <2>4. node' = [node EXCEPT ![p] = n2]
    BY Zenon
  <2> HIDE DEF n2, stored
  <2> QED
    BY <2>3, <2>4, Zenon
<1>3. PICK n2 \in MemberData : /\ n2.validCommitments = node[p].validCommitments
                               /\ node' = [node EXCEPT ![p] = n2]
  BY <1>2, Zenon
<1>4. msg \in sent /\ msg.from \in Member /\ msg.session \in 0..2
  BY <1>1 DEF Pending, Contribution, Session
<1>5. db' \in [Member -> [vvec : [Member -> 0..2], sk : [Member -> 0..2]]]
      /\ \A q, m \in Member : db'[q].sk[m] = db[q].sk[m]
  <2> DEFINE R == [vvec : [Member -> 0..2], sk : [Member -> 0..2]]
             new == [db[p] EXCEPT !.vvec = [@ EXCEPT ![msg.from] = msg.session]]
  <2>1. db \in [Member -> R] /\ db[p] \in R
    BY <1>1, Zenon DEF TypeOK
  <2>2. CASE db' = db
    BY <2>1, <2>2, Zenon
  <2>3. CASE db' = [db EXCEPT ![p].vvec[msg.from] = msg.session]
    <3>1. new \in R /\ new.sk = db[p].sk
      BY <2>1, <1>4, Zenon
    <3>2. db' = [db EXCEPT ![p] = new]
      BY <2>3, Zenon
    <3> HIDE DEF new, R
    <3>3. db' \in [Member -> R] /\ \A q \in Member : db'[q].sk = db[q].sk
      BY <2>1, <3>1, <3>2, Zenon
    <3> QED
      BY <3>3, Zenon DEF R
  <2> QED
    BY <1>2, <2>2, <2>3, Zenon
<1>6. node' \in [Member -> MemberData]
      /\ \A q \in Member : node'[q].validCommitments = node[q].validCommitments
  BY <1>1, <1>3, Zenon DEF TypeOK
<1>7. Message' = Contribution
  BY <1>1, Zenon DEF Message, ReceiveContribution
<1>8. recv' \in [Member -> SUBSET sent]
  BY <1>1, <1>2, <1>4, Zenon DEF TypeOK
<1> QED
  BY <1>1, <1>5, <1>6, <1>7, <1>8, Zenon DEF TypeOK, ReceiveContribution

\* VerifyAndComplain keeps the types; a share it adds is the one of the polynomial.
LEMMA VerifyAndComplainType ==
  ASSUME FiniteLaws, IInv, NEW p \in Member, VerifyAndComplain(p)
  PROVE  /\ TypeOK' /\ IsFiniteSet(sent')
         /\ \A q \in Member : node'[q].validCommitments = node[q].validCommitments
         /\ SharesVerified'
<1> DEFINE todo == node[p].pending \ (node[p].bad \cup node[p].weComplain)
           good == {m \in todo : ShareVerifies(p, m)}
           n1 == [node[p] EXCEPT !.pending = {}, !.weComplain = @ \cup (todo \ good)]
           sk == [m \in Member |-> IF m \in good THEN db[p].vvec[m] ELSE db[p].sk[m]]
           missing == {m \in Member : n1.contributions[m] = {}}
           n == MarkBadMember(n1, missing)
           complain == n.weComplain \ n.bad
           new == [from |-> p, bad |-> n.bad, complain |-> complain]
           R == [vvec : [Member -> 0..2], sk : [Member -> 0..2]]
<1>1. /\ TypeOK /\ phase = "complain" /\ IsFiniteSet(sent) /\ sent \subseteq Complaint
      /\ node[p] \in MemberData /\ db[p] \in R /\ SharesVerified
  BY MessageTypes, Zenon DEF IInv, TypeOK, VerifyAndComplain
<1>2. /\ started' = started \cup {p}
      /\ db' = [db EXCEPT ![p].sk = sk]
      /\ node' = [node EXCEPT ![p] = n]
      /\ sent' = sent \/ sent' = sent \cup {new}
      /\ UNCHANGED <<simulated, phase, recv, session, final, lost>>
  BY Zenon DEF VerifyAndComplain, VerifyPendingContributions
<1>3. n1 \in MemberData /\ n1.validCommitments = node[p].validCommitments
  BY <1>1, Zenon DEF MemberData
<1>4. n \in MemberData /\ n.validCommitments = node[p].validCommitments
  BY <1>3, MarkBadType, Zenon
<1>5. new \in Complaint
  <2>1. n.bad \in SUBSET Member /\ n.weComplain \in SUBSET Member
    BY <1>4, Zenon DEF MemberData
  <2> HIDE DEF n
  <2> QED
    BY <2>1, Zenon DEF Complaint
<1> HIDE DEF n, new
<1>6. node' \in [Member -> MemberData]
      /\ \A q \in Member : node'[q].validCommitments = node[q].validCommitments
  BY <1>1, <1>2, <1>4, Zenon DEF TypeOK
<1>7. IsFiniteSet(sent') /\ sent \subseteq sent' /\ sent' \subseteq Complaint
  <2>1. IsFiniteSet(sent \cup {new})  BY <1>1, AddFinite, Zenon
  <2>2. IsFiniteSet(sent')  BY <1>1, <1>2, <2>1, Zenon
  <2>3. sent \subseteq sent' /\ sent' \subseteq Complaint  BY <1>1, <1>2, <1>5, Zenon
  <2> QED  BY <2>2, <2>3, Zenon
<1>8. sk \in [Member -> 0..2]
      /\ \A m \in Member : sk[m] = 0 \/ sk[m] = db[p].vvec[m]
  BY <1>1, Zenon DEF SharesVerified
<1> HIDE DEF sk
<1>9. /\ db' \in [Member -> R]
      /\ \A q \in Member : /\ db'[q].vvec = db[q].vvec
                           /\ db'[q].sk = IF q = p THEN sk ELSE db[q].sk
  BY <1>1, <1>2, <1>8, Zenon DEF TypeOK
<1>10. SharesVerified'
  BY <1>1, <1>2, <1>8, <1>9 DEF SharesVerified
<1>11. Message' = Complaint
  BY <1>1, <1>2, Zenon DEF Message
<1> QED
  BY <1>1, <1>2, <1>6, <1>7, <1>9, <1>10, <1>11, Zenon DEF TypeOK

\* ReceiveComplaint keeps the types.
LEMMA ReceiveComplaintType ==
  ASSUME IInv, NEW p \in Member, ReceiveComplaint(p)
  PROVE  /\ TypeOK' /\ IsFiniteSet(sent')
         /\ \A q \in Member : node'[q].validCommitments = node[q].validCommitments
<1>1. /\ TypeOK /\ phase = "complain" /\ IsFiniteSet(sent) /\ sent \subseteq Complaint
      /\ node[p] \in MemberData
  BY MessageTypes, Zenon DEF IInv, TypeOK, ReceiveComplaint
<1> DEFINE n == node[p]
           stored(msg) == [n EXCEPT !.complaints[msg.from] = @ \cup {msg}]
           Add(of, S, m) == [q \in Member |-> IF q \in S THEN of[q] \cup {m} ELSE of[q]]
           n2(msg) == IF Cardinality(n.complaints[msg.from]) >= 2 THEN n
                      ELSE IF n.complaints[msg.from] # {}
                      THEN MarkBadMember(stored(msg), {msg.from})
                      ELSE [stored(msg) EXCEPT !.votes = Add(@, msg.bad, msg.from),
                                               !.open = Add(@, msg.complain, msg.from)]
<1>2. PICK msg \in Pending(p) : /\ recv' = [recv EXCEPT ![p] = @ \cup {msg}]
                                /\ node' = [node EXCEPT ![p] = n2(msg)]
  BY Zenon DEF ReceiveComplaint
<1>3. /\ msg \in Complaint /\ msg \in sent
      /\ msg.from \in Member /\ msg.bad \subseteq Member /\ msg.complain \subseteq Member
  BY <1>1, Zenon DEF Pending, Complaint
<1>4. stored(msg) \in MemberData /\ stored(msg).validCommitments = n.validCommitments
  BY <1>1, <1>3, Zenon DEF MemberData
<1>5. n2(msg) \in MemberData /\ n2(msg).validCommitments = n.validCommitments
  <2>1. MarkBadMember(stored(msg), {msg.from}) \in MemberData
        /\ MarkBadMember(stored(msg), {msg.from}).validCommitments = n.validCommitments
    BY <1>3, <1>4, MarkBadType, Zenon
  <2> HIDE DEF stored
  <2>2. /\ [stored(msg) EXCEPT !.votes = Add(@, msg.bad, msg.from),
                               !.open = Add(@, msg.complain, msg.from)] \in MemberData
        /\ [stored(msg) EXCEPT !.votes = Add(@, msg.bad, msg.from),
                               !.open = Add(@, msg.complain, msg.from)].validCommitments
             = n.validCommitments
    <3>1. /\ Add(stored(msg).votes, msg.bad, msg.from) \in [Member -> SUBSET Member]
          /\ Add(stored(msg).open, msg.complain, msg.from) \in [Member -> SUBSET Member]
      BY <1>3, <1>4, Zenon DEF MemberData
    <3> HIDE DEF Add
    <3> QED
      BY <1>4, <3>1, Zenon DEF MemberData
  <2> QED
    BY <1>1, <2>1, <2>2, Zenon
<1> HIDE DEF n2
<1>6. node' \in [Member -> MemberData]
      /\ \A q \in Member : node'[q].validCommitments = node[q].validCommitments
  BY <1>1, <1>2, <1>5, Zenon DEF TypeOK
<1>7. recv' \in [Member -> SUBSET sent]
  BY <1>1, <1>2, <1>3, Zenon DEF TypeOK
<1>8. Message' = Complaint
  BY <1>1, Zenon DEF Message, ReceiveComplaint
<1> QED
  BY <1>1, <1>6, <1>7, <1>8, Zenon DEF TypeOK, ReceiveComplaint

\* VerifyAndJustify keeps the types.
LEMMA VerifyAndJustifyType ==
  ASSUME FiniteLaws, IInv, NEW p \in Member, VerifyAndJustify(p)
  PROVE  /\ TypeOK' /\ IsFiniteSet(sent')
         /\ \A q \in Member : node'[q].validCommitments = node[q].validCommitments
<1> DEFINE n == node[p]
           voted == {m \in Member \ n.bad : Cardinality(n.votes[m]) >= BadVotes}
           multiple == {m \in Member \ (n.bad \cup voted) : Cardinality(n.complaints[m]) > 1}
           for == {m \in Member \ (n.bad \cup voted \cup multiple) :
                     \E qc \in n.complaints[m] : p \in qc.complain}
           n2 == MarkBadMember(n, voted \cup multiple)
<1>1. /\ TypeOK /\ phase = "justify" /\ IsFiniteSet(sent) /\ sent \subseteq Justification
      /\ n \in MemberData /\ session[p] \in Session
  BY MessageTypes, Zenon DEF IInv, TypeOK, VerifyAndJustify
<1>2. /\ node' = [node EXCEPT ![p] = n2]
      /\ sent' = sent \/ SendJustification(p, for)
  BY Zenon DEF VerifyAndJustify
<1>3. n2 \in MemberData /\ n2.validCommitments = n.validCommitments
  BY <1>1, MarkBadType, Zenon
<1>4. for \subseteq Member
  BY Zenon
<1> HIDE DEF n2, for
<1>5. sent \subseteq sent' /\ sent' \subseteq Justification /\ IsFiniteSet(sent')
  <2>1. CASE sent' = sent
    BY <1>1, <2>1, Zenon
  <2>2. CASE SendJustification(p, for)
    <3> PICK omit \in ShouldSimulateError(p, "justify-omit"),
             wrong \in LiedTo(p, "justify-lie", for) :
               sent' = IF omit THEN sent
                       ELSE sent \cup {[from |-> p, session |-> session[p],
                                        for |-> for, wrong |-> wrong]}
      BY <2>2, Zenon DEF SendJustification
    <3>1. wrong \subseteq Member
      BY <1>4, Zenon DEF LiedTo
    <3>2. IsFiniteSet(sent')
      BY <1>1, AddFinite, Zenon
    <3> QED
      BY <1>1, <1>4, <3>1, <3>2 DEF Justification
  <2> QED
    BY <1>2, <2>1, <2>2, Zenon
<1>6. node' \in [Member -> MemberData]
      /\ \A q \in Member : node'[q].validCommitments = node[q].validCommitments
  BY <1>1, <1>2, <1>3, Zenon DEF TypeOK
<1>7. Message' = Justification
  BY <1>1, Zenon DEF Message, VerifyAndJustify
<1> QED
  BY <1>1, <1>5, <1>6, <1>7, Zenon DEF TypeOK, VerifyAndJustify

\* ReceiveJustification keeps the types; a share it adds is a point of the
\* polynomial in the database.
LEMMA ReceiveJustificationType ==
  ASSUME IInv, NEW p \in Member, ReceiveJustification(p)
  PROVE  /\ TypeOK' /\ IsFiniteSet(sent')
         /\ \A q \in Member : node'[q].validCommitments = node[q].validCommitments
         /\ SharesVerified'
<1> DEFINE n == node[p]
           R == [vvec : [Member -> 0..2], sk : [Member -> 0..2]]
           stored(msg) == [n EXCEPT !.justifications[msg.from] = @ \cup {msg}]
           good(msg) == {q \in msg.for : q \notin msg.wrong
                                         /\ msg.session = db[p].vvec[msg.from]}
           useful(msg) == n.justifications[msg.from] = {} /\ msg.from \notin n.bad
                            /\ msg.for \subseteq n.open[msg.from]
           closed(msg) == [stored(msg) EXCEPT
             !.open[msg.from] = @ \ good(msg),
             !.weComplain = IF p \in good(msg) THEN @ \ {msg.from} ELSE @,
             !.bad = IF good(msg) = msg.for THEN @ ELSE @ \cup {msg.from}]
           n2(msg) == IF Cardinality(n.justifications[msg.from]) >= 2 THEN n
                      ELSE IF useful(msg) THEN closed(msg)
                      ELSE MarkBadMember(stored(msg), {msg.from})
           d2(msg) == [db[p] EXCEPT !.sk[msg.from] = msg.session]
<1>1. /\ TypeOK /\ phase = "justify" /\ IsFiniteSet(sent) /\ sent \subseteq Justification
      /\ n \in MemberData /\ db[p] \in R /\ SharesVerified
  BY MessageTypes, Zenon DEF IInv, TypeOK, ReceiveJustification
<1>2. PICK msg \in Pending(p) :
        /\ recv' = [recv EXCEPT ![p] = @ \cup {msg}]
        /\ node' = [node EXCEPT ![p] = n2(msg)]
        /\ db' = IF useful(msg) /\ p \in good(msg)
                 THEN [db EXCEPT ![p].sk[msg.from] = msg.session] ELSE db
  BY Zenon DEF ReceiveJustification
<1>3. /\ msg \in Justification /\ msg \in sent
      /\ msg.from \in Member /\ msg.for \subseteq Member /\ msg.session \in 0..2
  BY <1>1 DEF Pending, Justification, Session
<1>4. stored(msg) \in MemberData /\ stored(msg).validCommitments = n.validCommitments
  BY <1>1, <1>3, Zenon DEF MemberData
<1>5. /\ MarkBadMember(stored(msg), {msg.from}) \in MemberData
      /\ MarkBadMember(stored(msg), {msg.from}).validCommitments = n.validCommitments
  BY <1>3, <1>4, MarkBadType, Zenon
<1>6. closed(msg) \in MemberData /\ closed(msg).validCommitments = n.validCommitments
  <2> HIDE DEF stored, good
  <2> QED
    BY <1>3, <1>4, Zenon DEF MemberData
<1>7. n2(msg) \in MemberData /\ n2(msg).validCommitments = n.validCommitments
  <2> HIDE DEF stored, closed, useful
  <2> QED
    BY <1>1, <1>5, <1>6, Zenon
<1>8. d2(msg) \in R /\ d2(msg).vvec = db[p].vvec
      /\ \A m \in Member : d2(msg).sk[m] = IF m = msg.from THEN msg.session ELSE db[p].sk[m]
  BY <1>1, <1>3, Zenon
<1>9. db' = IF useful(msg) /\ p \in good(msg) THEN [db EXCEPT ![p] = d2(msg)] ELSE db
  BY <1>1, <1>2, Zenon DEF TypeOK
<1> HIDE DEF n2, d2, useful
<1>10. db' \in [Member -> R]
  BY <1>1, <1>8, <1>9, Zenon DEF TypeOK
<1>11. SharesVerified'
  <2>1. CASE useful(msg) /\ p \in good(msg)
    <3>1. msg.session = db[p].vvec[msg.from]
      BY <2>1, Zenon
    <3>2. \A q \in Member : db'[q] = IF q = p THEN d2(msg) ELSE db[q]
      BY <1>1, <1>9, <2>1, Zenon DEF TypeOK
    <3>3. phase' = "justify"
      BY <1>1, Zenon DEF ReceiveJustification
    <3> QED
      BY <1>1, <1>8, <3>1, <3>2, <3>3 DEF SharesVerified
  <2>2. CASE ~(useful(msg) /\ p \in good(msg))
    BY <1>1, <1>9, <2>2, Zenon DEF SharesVerified, ReceiveJustification
  <2> QED
    BY <2>1, <2>2, Zenon
<1>12. node' \in [Member -> MemberData]
       /\ \A q \in Member : node'[q].validCommitments = node[q].validCommitments
  BY <1>1, <1>2, <1>7, Zenon DEF TypeOK
<1>13. recv' \in [Member -> SUBSET sent]
  BY <1>1, <1>2, <1>3, Zenon DEF TypeOK
<1>14. Message' = Justification
  BY <1>1, Zenon DEF Message, ReceiveJustification
<1> QED
  BY <1>1, <1>10, <1>11, <1>12, <1>13, <1>14, Zenon DEF TypeOK, ReceiveJustification

-----------------------------------------------------------------------------
(* The invariant.                                                          *)

\* Before the commit phase there are no commitments, so that a step which leaves
\* them alone only has to keep the shares.
LEMMA BeforeCommit ==
  ASSUME IInv, phase \in {"contribute", "complain", "justify"}, phase' = phase,
         final' = final, TypeOK', IsFiniteSet(sent'), SharesVerified',
         \A q \in Member : node'[q].validCommitments = node[q].validCommitments
  PROVE  IInv'
<1>1. OneCommitment'
  BY Zenon DEF OneCommitment
<1>2. \A q \in Member : node'[q].validCommitments = {}
  BY Zenon DEF IInv, SameCommitments
<1>3. SameCommitments'
  BY <1>2, Zenon DEF SameCommitments
<1>4. SignersCommitted'
  BY Zenon DEF IInv, SignersCommitted
<1>5. CommitmentsBacked'
  BY <1>2, Zenon DEF CommitmentsBacked
<1> QED
  BY <1>1, <1>3, <1>4, <1>5, Zenon DEF IInv

\* The steps of the first three phases keep the invariant.
LEMMA EarlyIInv ==
  ASSUME FiniteLaws, IInv, NEW p \in Member,
         \/ Contribute(p) \/ Rewind(p) \/ ReceiveContribution(p)
         \/ VerifyAndComplain(p) \/ ReceiveComplaint(p)
         \/ VerifyAndJustify(p) \/ ReceiveJustification(p)
  PROVE  IInv'
<1>1. CASE Contribute(p)
  BY <1>1, ContributeType, BeforeCommit, Zenon DEF Contribute, IInv, SharesVerified
<1>2. CASE Rewind(p)
  <2>1. node[p].validCommitments = {} /\ NewSession.validCommitments = {}
    BY <1>2, Zenon DEF IInv, SameCommitments, Rewind, NewSession
  <2>2. \A q \in Member : node'[q].validCommitments = node[q].validCommitments
    BY <1>2, <2>1, Zenon DEF Rewind, IInv, TypeOK
  <2>3. SharesVerified'
    BY <1>2, Zenon DEF Rewind, IInv, SharesVerified
  <2> QED
    BY <1>2, <2>2, <2>3, RewindType, BeforeCommit, Zenon DEF Rewind
<1>3. CASE ReceiveContribution(p)
  <2>0. \A q, m \in Member : db'[q].sk[m] = 0
    <3>1. phase = "contribute"
      BY <1>3, Zenon DEF ReceiveContribution
    <3>2. \A q, m \in Member : db'[q].sk[m] = db[q].sk[m]
      BY <1>3, ReceiveContributionType, Zenon
    <3> QED
      BY <3>1, <3>2 DEF IInv, SharesVerified
  <2>1. SharesVerified'
    BY <2>0, Zenon DEF SharesVerified
  <2> QED
    BY <1>3, <2>1, ReceiveContributionType, BeforeCommit, Zenon DEF ReceiveContribution
<1>4. CASE VerifyAndComplain(p)
  BY <1>4, VerifyAndComplainType, BeforeCommit, Zenon DEF VerifyAndComplain
<1>5. CASE ReceiveComplaint(p)
  BY <1>5, ReceiveComplaintType, BeforeCommit, Zenon DEF ReceiveComplaint, IInv, SharesVerified
<1>6. CASE VerifyAndJustify(p)
  BY <1>6, VerifyAndJustifyType, BeforeCommit, Zenon DEF VerifyAndJustify, IInv, SharesVerified
<1>7. CASE ReceiveJustification(p)
  BY <1>7, ReceiveJustificationType, BeforeCommit, Zenon DEF ReceiveJustification
<1> QED
  BY <1>1, <1>2, <1>3, <1>4, <1>5, <1>6, <1>7, Zenon

\* What SendCommitment sends: one commitment of p, or nothing; that of a member
\* that does not lie is backed by its shares.
LEMMA SendCommitmentSends ==
  ASSUME TypeOK, SharesVerified, NEW p \in Member, NEW valid \in SUBSET Member,
         SendCommitment(p, valid)
  PROVE  \/ sent' = sent
         \/ \E qc \in PrematureCommitment :
              sent' = sent \cup {qc} /\ qc.from = p /\ Backed(qc)
<1> DEFINE qc == [from |-> p, valid |-> valid, key |-> QuorumKey(p, valid), share |-> TRUE]
           bogus == [qc EXCEPT !.key = BogusKey]
           spoilt == [qc EXCEPT !.share = FALSE]
<1>1. PICK omit \in ShouldSimulateError(p, "commit-omit"),
           lie \in ShouldSimulateError(p, "commit-lie") :
        IF ~Enough(valid) \/ omit
             \/ ~CanBuildVvec(p, valid) \/ ~CanBuildShare(p, valid)
        THEN UNCHANGED sent
        ELSE IF lie THEN \/ UNCHANGED sent
                         \/ \E msg \in {bogus, spoilt} : sent' = sent \cup {msg}
        ELSE sent' = sent \cup {qc}
  BY Zenon DEF SendCommitment
<1>2. QuorumKey(p, valid) \in Key /\ BogusKey \in Key
  BY DEF QuorumKey, BogusKey, Bogus, Key, TypeOK
<1>3. qc \in PrematureCommitment /\ bogus \in PrematureCommitment
      /\ spoilt \in PrematureCommitment
      /\ qc.from = p /\ bogus.from = p /\ spoilt.from = p
  BY <1>2, Zenon DEF PrematureCommitment
<1>4. lie => p \in Liar
  BY Zenon DEF ShouldSimulateError, Liar
<1>5. CanBuildVvec(p, valid) /\ CanBuildShare(p, valid) => Backed(qc)
  BY Zenon DEF CanBuildVvec, CanBuildShare, Backed, QuorumKey, SharesVerified, TypeOK
<1>6. lie => Backed(bogus) /\ Backed(spoilt)
  BY <1>3, <1>4, Zenon DEF Backed
<1> HIDE DEF qc, bogus, spoilt
<1> QED
  BY <1>1, <1>3, <1>5, <1>6, Zenon

\* VerifyAndCommit keeps the invariant.
LEMMA VerifyAndCommitIInv ==
  ASSUME FiniteLaws, IInv, NEW p \in Member, VerifyAndCommit(p)
  PROVE  IInv'
<1> DEFINE n == MarkBadMember(node[p], {m \in Member : node[p].open[m] # {}})
<1>1. /\ TypeOK /\ phase = "commit" /\ IsFiniteSet(sent) /\ sent \subseteq PrematureCommitment
      /\ node[p] \in MemberData /\ SharesVerified /\ p \notin started
  BY MessageTypes, Zenon DEF IInv, TypeOK, VerifyAndCommit
<1>2. /\ started' = started \cup {p}
      /\ node' = [node EXCEPT ![p] = n]
      /\ SendCommitment(p, Member \ n.bad)
      /\ UNCHANGED <<simulated, phase, recv, session, db, final, lost>>
  BY Zenon DEF VerifyAndCommit
<1>3. n \in MemberData /\ n.validCommitments = node[p].validCommitments
  BY <1>1, MarkBadType, Zenon
<1> HIDE DEF n
<1>4. \/ sent' = sent
      \/ \E qc \in PrematureCommitment :
           sent' = sent \cup {qc} /\ qc.from = p /\ Backed(qc)
  BY <1>1, <1>2, SendCommitmentSends, Zenon
<1>5. sent \subseteq sent' /\ sent' \subseteq PrematureCommitment /\ IsFiniteSet(sent')
  BY <1>1, <1>4, AddFinite, Zenon
<1>6. node' \in [Member -> MemberData]
      /\ \A q \in Member : node'[q].validCommitments = node[q].validCommitments
  BY <1>1, <1>2, <1>3, Zenon DEF TypeOK
<1>7. TypeOK'
  <2>1. Message' = PrematureCommitment
    BY <1>1, <1>2, Zenon DEF Message
  <2> QED
    BY <1>1, <1>2, <1>5, <1>6, <2>1, Zenon DEF TypeOK
<1>8. OneCommitment'
  <2>1. \A a \in sent : a.from \in started /\ a.from # p
    BY <1>1, Zenon DEF IInv, OneCommitment
  <2>2. \A a, b \in sent : a.from = b.from => a = b
    BY <1>1, Zenon DEF IInv, OneCommitment
  <2> QED
    BY <1>2, <1>4, <2>1, <2>2, Zenon DEF OneCommitment
<1>9. \A qc : Backed(qc)' <=> Backed(qc)
  BY <1>2, Zenon DEF Backed, Liar
<1>10. SameCommitments'
  BY <1>1, <1>2, <1>5, <1>6 DEF IInv, SameCommitments
<1>11. SignersCommitted'
  BY <1>1, <1>2, <1>6, Zenon DEF IInv, SignersCommitted
<1>12. SharesVerified'
  BY <1>1, <1>2, Zenon DEF SharesVerified
<1>13. CommitmentsBacked'
  BY <1>1, <1>2, <1>4, <1>6, <1>9, Zenon DEF IInv, CommitmentsBacked
<1> QED
  BY <1>5, <1>7, <1>8, <1>10, <1>11, <1>12, <1>13, Zenon DEF IInv

\* ReceiveCommitment keeps the invariant.
LEMMA ReceiveCommitmentIInv ==
  ASSUME IInv, NEW p \in Member, ReceiveCommitment(p)
  PROVE  IInv'
<1> DEFINE valid(msg) == IF CommitmentVerifies(p, msg)
                         THEN node[p].validCommitments \cup {msg}
                         ELSE node[p].validCommitments
           n(msg) == [node[p] EXCEPT !.commitments = @ \cup {msg},
                                     !.validCommitments = valid(msg)]
<1>1. /\ TypeOK /\ phase = "commit" /\ IsFiniteSet(sent) /\ sent \subseteq PrematureCommitment
      /\ node[p] \in MemberData
  BY MessageTypes, Zenon DEF IInv, TypeOK, ReceiveCommitment
<1>2. PICK msg \in Pending(p) :
        /\ recv' = [recv EXCEPT ![p] = @ \cup {msg}]
        /\ node' = [node EXCEPT ![p].commitments = @ \cup {msg},
                                ![p].validCommitments =
                                  IF CommitmentVerifies(p, msg) THEN @ \cup {msg} ELSE @]
  BY Zenon DEF ReceiveCommitment
<1>3. UNCHANGED <<simulated, phase, started, sent, session, db, final, lost>>
  BY Zenon DEF ReceiveCommitment
<1>4. msg \in sent /\ msg \in PrematureCommitment
  BY <1>1, Zenon DEF Pending
<1>5. n(msg) \in MemberData
      /\ node[p].validCommitments \subseteq n(msg).validCommitments
      /\ n(msg).validCommitments \subseteq node[p].validCommitments \cup {msg}
  BY <1>1, <1>4, Zenon DEF MemberData
<1>6. node' = [node EXCEPT ![p] = n(msg)]
  BY <1>1, <1>2, Zenon DEF TypeOK, MemberData
<1> HIDE DEF n
<1>7. /\ node' \in [Member -> MemberData]
      /\ \A q \in Member : /\ node[q].validCommitments \subseteq node'[q].validCommitments
                           /\ node'[q].validCommitments \subseteq node[q].validCommitments \cup {msg}
  BY <1>1, <1>5, <1>6, Zenon DEF TypeOK
<1>8. TypeOK'
  <2>1. Message' = PrematureCommitment
    BY <1>1, <1>3, Zenon DEF Message
  <2>2. recv' \in [Member -> SUBSET sent]
    BY <1>1, <1>2, <1>4, Zenon DEF TypeOK
  <2> QED
    BY <1>1, <1>3, <1>7, <2>1, <2>2, Zenon DEF TypeOK
<1>9. OneCommitment'
  BY <1>3, Zenon DEF IInv, OneCommitment
<1>10. \A q \in Member : node'[q].validCommitments \subseteq sent
  BY <1>1, <1>4, <1>7, Zenon DEF IInv, SameCommitments
<1>11. SameCommitments'
  BY <1>1, <1>3, <1>10, Zenon DEF IInv, SameCommitments, OneCommitment
<1>12. SignersCommitted'
  BY <1>1, <1>3, Zenon DEF IInv, SignersCommitted
<1>13. SharesVerified'
  BY <1>3, Zenon DEF IInv, SharesVerified
<1>14. \A qc : Backed(qc)' <=> Backed(qc)
  BY <1>3, Zenon DEF Backed, Liar
<1>15. CommitmentsBacked'
  BY <1>1, <1>3, <1>10, <1>14, Zenon DEF IInv, CommitmentsBacked
<1> QED
  BY <1>1, <1>3, <1>8, <1>9, <1>11, <1>12, <1>13, <1>15, Zenon DEF IInv

\* FinalizeCommitments keeps the invariant.
LEMMA FinalizeIInv ==
  ASSUME IInv, NEW p \in Member, FinalizeCommitments(p)
  PROVE  IInv'
<1> DEFINE have == node[p].validCommitments
           Group(valid) == {qc \in have : qc.valid = valid}
           groups == {Group(qc.valid) : qc \in have}
           enough == {cvec \in groups : Enough(cvec)}
<1>1. PICK first \in {f \in [enough -> have] : \A cvec \in enough : f[cvec] \in cvec} :
        final' = [final EXCEPT ![p] = {Aggregate(first[cvec], cvec) : cvec \in enough}]
  BY Zenon DEF FinalizeCommitments
<1>2. /\ TypeOK /\ phase = "finalize" /\ IsFiniteSet(sent) /\ sent \subseteq PrematureCommitment
      /\ have \subseteq PrematureCommitment
  BY MessageTypes, Zenon DEF IInv, TypeOK, FinalizeCommitments, MemberData
<1>3. /\ started' = started \cup {p}
      /\ UNCHANGED <<simulated, phase, sent, recv, session, node, db, lost>>
  BY Zenon DEF FinalizeCommitments
<1>4. ASSUME NEW cvec \in enough
      PROVE  /\ Aggregate(first[cvec], cvec) \in FinalCommitment
             /\ \A s \in Aggregate(first[cvec], cvec).signers :
                  \E qc \in have : /\ qc.from = s
                                   /\ qc.valid = Aggregate(first[cvec], cvec).valid
                                   /\ qc.key = Aggregate(first[cvec], cvec).key
  <2> DEFINE one == first[cvec]
             same == {qc \in cvec : qc.key = one.key}
             real == \A m \in Member : one.key[m] # Bogus
             sig == real /\ \A qc \in same : qc.share
             fqc == [valid |-> one.valid, key |-> one.key,
                     signers |-> {qc.from : qc \in same}, sig |-> sig]
  <2>1. Aggregate(first[cvec], cvec) = fqc
    BY Zenon DEF Aggregate
  <2>2. one \in cvec /\ cvec \subseteq have
    BY <1>1, Zenon
  <2>3. \A qc \in cvec : qc.valid = one.valid
    BY <2>2, Zenon
  <2>4. one \in PrematureCommitment /\ cvec \subseteq PrematureCommitment
    BY <1>2, <2>2, Zenon
  <2>5. {qc.from : qc \in same} \subseteq Member
    BY <2>4, ZenonT(30) DEF PrematureCommitment
  <2>6. sig \in BOOLEAN
    BY Zenon
  <2>7. fqc \in FinalCommitment
    <3>1. one.valid \in SUBSET Member /\ one.key \in Key
      BY <2>4, Zenon DEF PrematureCommitment
    <3> HIDE DEF one, same, sig
    <3> QED
      BY <2>5, <2>6, <3>1, Zenon DEF FinalCommitment
  <2>8. \A s \in {qc.from : qc \in same} :
          \E qc \in have : qc.from = s /\ qc.valid = one.valid /\ qc.key = one.key
    BY <2>2, <2>3, Zenon
  <2>9. fqc.valid = one.valid /\ fqc.key = one.key /\ fqc.signers = {qc.from : qc \in same}
    BY Zenon
  <2> HIDE DEF have, enough, one, same, fqc
  <2>10. \A s \in fqc.signers :
           \E qc \in have : qc.from = s /\ qc.valid = fqc.valid /\ qc.key = fqc.key
    BY <2>8, <2>9
  <2> QED
    BY <2>1, <2>7, <2>10, Zenon
<1> DEFINE new == {Aggregate(first[cvec], cvec) : cvec \in enough}
<1>5. /\ new \in SUBSET FinalCommitment
      /\ \A f \in new : \A s \in f.signers :
           \E qc \in have : qc.from = s /\ qc.valid = f.valid /\ qc.key = f.key
  <2> HIDE DEF have, enough
  <2> SUFFICES ASSUME NEW f \in new
               PROVE  /\ f \in FinalCommitment
                      /\ \A s \in f.signers :
                           \E qc \in have : /\ qc.from = s /\ qc.valid = f.valid
                                            /\ qc.key = f.key
    BY Zenon
  <2> PICK cvec \in enough : f = Aggregate(first[cvec], cvec)
    BY Zenon
  <2> QED
    BY <1>4, Zenon
<1>6. final' = [final EXCEPT ![p] = new]
  BY <1>1, Zenon
<1>a. have = node[p].validCommitments
  BY Zenon
<1> HIDE DEF new, have, Group, groups, enough
<1>7. TypeOK'
  <2>1. Message' = PrematureCommitment
    BY <1>2, <1>3, Zenon DEF Message
  <2>2. final' \in [Member -> SUBSET FinalCommitment]
    BY <1>2, <1>5, <1>6, Zenon DEF TypeOK
  <2> QED
    BY <1>2, <1>3, <2>1, <2>2, Zenon DEF TypeOK
<1>8. SignersCommitted'
  <2>1. \A q \in Member : final'[q] = IF q = p THEN new ELSE final[q]
    BY <1>2, <1>6, Zenon DEF TypeOK
  <2>2. \A f \in new : \A s \in f.signers :
          \E qc \in node[p].validCommitments :
            qc.from = s /\ qc.valid = f.valid /\ qc.key = f.key
    BY <1>5, <1>a, Zenon
  <2> QED
    BY <1>2, <1>3, <2>1, <2>2 DEF IInv, SignersCommitted
<1>9. OneCommitment' /\ SameCommitments' /\ SharesVerified'
  <2>1. OneCommitment'  BY <1>3, Zenon DEF IInv, OneCommitment
  <2>2. SameCommitments'  BY <1>3, ZenonT(60) DEF IInv, SameCommitments
  <2>3. SharesVerified'  BY <1>3, Zenon DEF IInv, SharesVerified
  <2> QED  BY <2>1, <2>2, <2>3, Zenon
<1>10. \A qc : Backed(qc)' <=> Backed(qc)
  BY <1>3, Zenon DEF Backed, Liar
<1>11. CommitmentsBacked'
  BY <1>2, <1>3, <1>10, Zenon DEF IInv, CommitmentsBacked
<1> QED
  BY <1>2, <1>3, <1>7, <1>8, <1>9, <1>11, Zenon DEF IInv

\* The end of a phase keeps the invariant.
LEMMA NextPhaseIInv ==
  ASSUME FiniteLaws, IInv, NextPhase
  PROVE  IInv'
<1> DEFINE missed == {d \in Member \X sent : d[2] \notin recv[d[1]]}
<1>1. /\ lost + Cardinality(missed) <= MaxLost
      /\ lost' = lost + Cardinality(missed)
      /\ started' = {}
      /\ sent' = {}
      /\ recv' = [p \in Member |-> {}]
      /\ UNCHANGED <<simulated, session, node, db, final>>
  BY Zenon DEF NextPhase
<1>2. /\ phase # "finalize" /\ phase \in Phases /\ phase' \in Phases
      /\ phase' = "commit" => phase = "justify"
      /\ phase' \in {"complain", "justify"} => phase \in {"contribute", "complain"}
      /\ phase' # "contribute"
  BY Zenon DEF IInv, TypeOK, NextPhase, Phases
<1>3. lost' \in 0..MaxLost
  <2>1. IsFiniteSet(Member \X sent)
    BY DKGAssumption, ProductFinite, Zenon DEF IInv
  <2>2. missed \subseteq Member \X sent
    BY Zenon
  <2>3. IsFiniteSet(missed)
    BY <2>1, <2>2, SubsetFinite, Zenon
  <2>4. Cardinality(missed) \in Nat
    BY <2>3, CardinalityNat, Zenon
  <2> HIDE DEF missed
  <2> QED
    BY <1>1, <2>4, DKGAssumption DEF IInv, TypeOK
<1>4. TypeOK' /\ IsFiniteSet(sent')
  BY <1>1, <1>2, <1>3, EmptyFinite, Zenon DEF IInv, TypeOK
<1>5. OneCommitment'
  BY <1>1, Zenon DEF OneCommitment
<1>6. SameCommitments'
  BY <1>1, <1>2, Zenon DEF IInv, SameCommitments
<1>7. SignersCommitted'
  BY <1>1, <1>2, Zenon DEF IInv, SignersCommitted
<1>8. SharesVerified'
  BY <1>1, <1>2, Zenon DEF IInv, SharesVerified
<1>9. \A qc : Backed(qc)' <=> Backed(qc)
  BY <1>1, Zenon DEF Backed, Liar
<1>10. CommitmentsBacked'
  BY <1>1, <1>9, Zenon DEF IInv, CommitmentsBacked
<1> QED
  BY <1>4, <1>5, <1>6, <1>7, <1>8, <1>10, Zenon DEF IInv

\* Every step keeps the invariant.
LEMMA NextIInv ==
  ASSUME FiniteLaws
  PROVE  IInv /\ [Next]_vars => IInv'
<1> SUFFICES ASSUME IInv, [Next]_vars PROVE IInv'
  BY Zenon
<1>1. ASSUME NEW p \in Member,
             \/ Contribute(p) \/ Rewind(p) \/ ReceiveContribution(p)
             \/ VerifyAndComplain(p) \/ ReceiveComplaint(p)
             \/ VerifyAndJustify(p) \/ ReceiveJustification(p)
      PROVE  IInv'
  BY <1>1, EarlyIInv, Zenon
<1>2. ASSUME NEW p \in Member, VerifyAndCommit(p) PROVE IInv'
  BY <1>2, VerifyAndCommitIInv, Zenon
<1>3. ASSUME NEW p \in Member, ReceiveCommitment(p) PROVE IInv'
  BY <1>3, ReceiveCommitmentIInv, Zenon
<1>4. ASSUME NEW p \in Member, FinalizeCommitments(p) PROVE IInv'
  BY <1>4, FinalizeIInv
<1>5. CASE NextPhase
  BY <1>5, NextPhaseIInv, Zenon
<1>6. CASE UNCHANGED vars
  <2>1. Message' = Message
    BY <1>6, Zenon DEF vars, Message
  <2>2. \A qc : Backed(qc)' <=> Backed(qc)
    BY <1>6, Zenon DEF vars, Backed, Liar
  <2>3. TypeOK' /\ IsFiniteSet(sent')
    BY <1>6, <2>1, Zenon DEF vars, IInv, TypeOK
  <2>4. OneCommitment' /\ SameCommitments' /\ SharesVerified'
    <3>1. OneCommitment'  BY <1>6, Zenon DEF vars, IInv, OneCommitment
    <3>2. SameCommitments'  BY <1>6, SMTT(30) DEF vars, IInv, SameCommitments
    <3>3. SharesVerified'  BY <1>6, Zenon DEF vars, IInv, SharesVerified
    <3> QED  BY <3>1, <3>2, <3>3, Zenon
  <2>5. SignersCommitted'
    BY <1>6 DEF vars, IInv, SignersCommitted
  <2>6. phase' = phase /\ sent' = sent /\ node' = node
    BY <1>6, Zenon DEF vars
  <2>7. CommitmentsBacked'
    BY <2>2, <2>6, ZenonT(60) DEF IInv, CommitmentsBacked
  <2> QED
    BY <2>3, <2>4, <2>5, <2>7, Zenon DEF IInv
<1> QED
  BY <1>1, <1>2, <1>3, <1>4, <1>5, <1>6, Zenon DEF Next

=============================================================================
