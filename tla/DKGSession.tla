----------------------------- MODULE DKGSession -----------------------------
(***************************************************************************)
(* One distributed key generation of one quorum: the CDKGSession objects   *)
(* of all its members (llmq/quorums_dkgsession.cpp) and the messages they  *)
(* exchange.  Every member runs the code; some of them also take the       *)
(* wrong branches that the code itself can simulate (ShouldSimulateError,  *)
(* set with "quorum dkgsimerror").                                         *)
(*                                                                         *)
(* A phase of the network ends for all members at once.  A member that     *)
(* changes phase earlier or later than another one loses the messages that *)
(* come too late, and a message that comes too early waits in its queue,   *)
(* so what a member may have received when its phase ends is any subset of *)
(* what was sent in it: MaxLost bounds the deliveries that never happen.   *)
(* A polynomial is named by the session that drew it, a share by the       *)
(* polynomial it is a point of, and the quorum key by the polynomials that *)
(* were added up (0: not a valid member, Bogus: a made-up key).            *)
(***************************************************************************)
EXTENDS Integers, FiniteSets

CONSTANTS
  Member,      \* the members of the quorum
  MinSize,     \* params.minSize
  BadVotes,    \* params.dkgBadVotesThreshold
  Errors,      \* the choices of error types that the members simulate
  Rewound,     \* members whose tip is set back to the start of the session
  MaxLost      \* how many deliveries may never happen

Session == 1..2
Bogus == 3

ErrorType == {"contribution-omit", "contribution-lie", "complain-lie",
              "justify-omit", "justify-lie", "commit-omit", "commit-lie"}

ASSUME DKGAssumption ==
  /\ IsFiniteSet(Member)
  /\ MinSize \in Nat \ {0}
  /\ BadVotes \in Nat
  /\ Errors \subseteq [Member -> SUBSET ErrorType]
  /\ Rewound \subseteq Member
  /\ MaxLost \in Nat

VARIABLES
  simulated, \* simulated[p]: the error types that p simulates
  phase,     \* the phase the network is in
  started,   \* members that have taken the local action of the phase
  sent,      \* the messages of the phase
  recv,      \* recv[p]: the messages of the phase p has processed
  session,   \* session[p]: the number of p's current session
  node,      \* node[p]: the CDKGMember data of p's session, by member
  db,        \* db[p]: the contributions in p's database
  final,     \* final[p]: the commitments FinalizeCommitments returned
  lost       \* deliveries that did not happen in earlier phases

vars == <<simulated, phase, started, sent, recv, session, node, db, final, lost>>

Phases == {"contribute", "complain", "justify", "commit", "finalize"}

Key == [Member -> 0..3]

Contribution == [from : Member, session : Session, wrong : SUBSET Member]
Complaint == [from : Member, bad : SUBSET Member, complain : SUBSET Member]
Justification == [from : Member, session : Session, for : SUBSET Member,
                  wrong : SUBSET Member]
PrematureCommitment == [from : Member, valid : SUBSET Member, key : Key,
                        share : BOOLEAN]
FinalCommitment == [valid : SUBSET Member, key : Key, signers : SUBSET Member,
                    sig : BOOLEAN]

\* ShouldSimulateError: the error rate of a member is zero or it is not.
ShouldSimulateError(p, type) == IF type \in simulated[p] THEN BOOLEAN ELSE {FALSE}

\* The members a per-recipient lie of p may hit.
LiedTo(p, type, all) ==
  IF type \in simulated[p] THEN SUBSET (all \ {p}) ELSE {{}}

(***************************************************************************)
(* The data of a new session (CDKGSession::Init).                          *)
(*   contributions[m]  the contributions received from m                   *)
(*   pending           members whose secret share is still unverified      *)
(*   complaints[m], justifications[m]  the messages received from m        *)
(*   votes[m], open[m] badMemberVotes and complaintsFromOthers of m        *)
(*   commitments, validCommitments  premature commitments                  *)
(***************************************************************************)
NewSession ==
  [contributions |-> [m \in Member |-> {}], pending |-> {},
   bad |-> {}, weComplain |-> {},
   complaints |-> [m \in Member |-> {}],
   votes |-> [m \in Member |-> {}], open |-> [m \in Member |-> {}],
   justifications |-> [m \in Member |-> {}],
   commitments |-> {}, validCommitments |-> {}]

Init ==
  /\ simulated \in Errors
  /\ phase = "contribute"
  /\ started = {}
  /\ sent = {}
  /\ recv = [p \in Member |-> {}]
  /\ session = [p \in Member |-> 1]
  /\ node = [p \in Member |-> NewSession]
  /\ db = [p \in Member |-> [vvec |-> [m \in Member |-> 0],
                             sk |-> [m \in Member |-> 0]]]
  /\ final = [p \in Member |-> {}]
  /\ lost = 0

(* params.minSize, as SendCommitment, FinalizeCommitments and              *)
(* CFinalCommitment::Verify apply it; EnoughLessOne is off by one.         *)
EnoughLessOne(S) == Cardinality(S) >= MinSize - 1

Enough(S) == Cardinality(S) >= MinSize

MarkBadMember(n, S) == [n EXCEPT !.bad = @ \cup S]

-----------------------------------------------------------------------------
(***************************************************************************)
(* Phase 1: contributions.                                                 *)
(***************************************************************************)
SendContributions(p, ses) ==
  \E omit \in ShouldSimulateError(p, "contribution-omit"),
     wrong \in LiedTo(p, "contribution-lie", Member) :
    sent' = IF omit THEN sent
            ELSE sent \cup {[from |-> p, session |-> ses, wrong |-> wrong]}

Contribute(p) ==
  /\ phase = "contribute"
  /\ p \notin started
  /\ started' = started \cup {p}
  /\ SendContributions(p, session[p])
  /\ UNCHANGED <<simulated, phase, recv, session, node, db, final, lost>>

(* InvalidateBlock reports the lowered tip, so the phase of p becomes      *)
(* Initialized again for the same quorum: the round is aborted, a new      *)
(* session object is created and draws new secrets.  What the first        *)
(* session wrote to the database stays.                                    *)
Rewind(p) ==
  /\ phase = "contribute"
  /\ p \in Rewound
  /\ p \in started
  /\ session[p] = 1
  /\ session' = [session EXCEPT ![p] = 2]
  /\ node' = [node EXCEPT ![p] = NewSession]
  /\ recv' = [recv EXCEPT ![p] = {}]
  /\ SendContributions(p, 2)
  /\ UNCHANGED <<simulated, phase, started, db, final, lost>>

(* The messages of the phase that p has not processed yet.                 *)
Pending(p) == sent \ recv[p]

(* ReceiveMessage(CDKGContribution).  The share of a contribution is only  *)
(* verified by VerifyPendingContributions.                                 *)
ReceiveContribution(p) ==
  /\ phase = "contribute"
  /\ \E msg \in Pending(p), lie \in BOOLEAN :
       LET m == msg.from
           n == node[p]
           stored == [n EXCEPT !.contributions[m] = @ \cup {msg}]
           first == n.contributions[m] = {}
       IN /\ recv' = [recv EXCEPT ![p] = @ \cup {msg}]
          /\ lie => p # m /\ first /\ TRUE \in ShouldSimulateError(p, "complain-lie")
          /\ node' = [node EXCEPT ![p] =
               IF Cardinality(n.contributions[m]) >= 2 THEN n
               ELSE IF ~first THEN MarkBadMember(stored, {m})
               ELSE IF lie THEN [stored EXCEPT !.weComplain = @ \cup {m}]
               ELSE [stored EXCEPT !.pending = @ \cup {m}]]
          /\ db' = IF first THEN [db EXCEPT ![p].vvec[m] = msg.session] ELSE db
  /\ UNCHANGED <<simulated, phase, started, sent, session, final, lost>>

-----------------------------------------------------------------------------
(***************************************************************************)
(* Phase 2: complaints.                                                    *)
(***************************************************************************)

(* The share in the contribution m sent to p is a point of m's polynomial. *)
ShareVerifies(p, m) == \A msg \in node[p].contributions[m] : p \notin msg.wrong

(* A faulty version that keeps every share without looking at it.          *)
VerifyNoContribution(p) ==
  LET todo == node[p].pending \ (node[p].bad \cup node[p].weComplain)
      good == {m \in todo : ShareVerifies(p, m)}
  IN [n |-> [node[p] EXCEPT !.pending = {}],
      sk |-> [m \in Member |-> IF m \in good THEN db[p].vvec[m]
                               ELSE IF m \in todo THEN Bogus ELSE db[p].sk[m]]]

(* VerifyPendingContributions: members already bad or complained about are *)
(* left out, the share of every other one is checked against its vvec.     *)
VerifyPendingContributions(p) ==
  LET todo == node[p].pending \ (node[p].bad \cup node[p].weComplain)
      good == {m \in todo : ShareVerifies(p, m)}
  IN [n |-> [node[p] EXCEPT !.pending = {}, !.weComplain = @ \cup (todo \ good)],
      sk |-> [m \in Member |-> IF m \in good THEN db[p].vvec[m] ELSE db[p].sk[m]]]

VerifyAndComplain(p) ==
  LET verified == VerifyPendingContributions(p)
      missing == {m \in Member : verified.n.contributions[m] = {}}
      n == MarkBadMember(verified.n, missing)
      complain == n.weComplain \ n.bad
  IN /\ phase = "complain"
     /\ p \notin started
     /\ started' = started \cup {p}
     /\ db' = [db EXCEPT ![p].sk = verified.sk]
     /\ node' = [node EXCEPT ![p] = n]
     /\ sent' = IF n.bad = {} /\ complain = {} THEN sent
                ELSE sent \cup {[from |-> p, bad |-> n.bad, complain |-> complain]}
     /\ UNCHANGED <<simulated, phase, recv, session, final, lost>>

(* ReceiveMessage(CDKGComplaint).                                          *)
ReceiveComplaint(p) ==
  /\ phase = "complain"
  /\ \E msg \in Pending(p) :
       LET m == msg.from
           n == node[p]
           stored == [n EXCEPT !.complaints[m] = @ \cup {msg}]
           Add(of, S) == [q \in Member |-> IF q \in S THEN of[q] \cup {m} ELSE of[q]]
       IN /\ recv' = [recv EXCEPT ![p] = @ \cup {msg}]
          /\ node' = [node EXCEPT ![p] =
               IF Cardinality(n.complaints[m]) >= 2 THEN n
               ELSE IF n.complaints[m] # {} THEN MarkBadMember(stored, {m})
               ELSE [stored EXCEPT !.votes = Add(@, msg.bad),
                                   !.open = Add(@, msg.complain)]]
  /\ UNCHANGED <<simulated, phase, started, sent, session, db, final, lost>>

-----------------------------------------------------------------------------
(***************************************************************************)
(* Phase 3: justifications.                                                *)
(***************************************************************************)
SendJustification(p, for) ==
  \E omit \in ShouldSimulateError(p, "justify-omit"),
     wrong \in LiedTo(p, "justify-lie", for) :
    sent' = IF omit THEN sent
            ELSE sent \cup {[from |-> p, session |-> session[p],
                             for |-> for, wrong |-> wrong]}

VerifyAndJustify(p) ==
  LET n == node[p]
      voted == {m \in Member \ n.bad : Cardinality(n.votes[m]) >= BadVotes}
      multiple == {m \in Member \ (n.bad \cup voted) : Cardinality(n.complaints[m]) > 1}
      for == {m \in Member \ (n.bad \cup voted \cup multiple) :
                \E qc \in n.complaints[m] : p \in qc.complain}
  IN /\ phase = "justify"
     /\ p \notin started
     /\ started' = started \cup {p}
     /\ node' = [node EXCEPT ![p] = MarkBadMember(n, voted \cup multiple)]
     /\ IF for = {} THEN UNCHANGED sent ELSE SendJustification(p, for)
     /\ UNCHANGED <<simulated, phase, recv, session, db, final, lost>>

(* A faulty version that only closes the complaint of p itself.            *)
ReceiveOwnJustification(p) ==
  /\ phase = "justify"
  /\ \E msg \in Pending(p) :
       LET m == msg.from
           n == node[p]
           stored == [n EXCEPT !.justifications[m] = @ \cup {msg}]
           good == {q \in msg.for : q \notin msg.wrong /\ msg.session = db[p].vvec[m]}
           useful == n.justifications[m] = {} /\ m \notin n.bad
                       /\ msg.for \subseteq n.open[m]
       IN /\ recv' = [recv EXCEPT ![p] = @ \cup {msg}]
          /\ node' = [node EXCEPT ![p] =
               IF Cardinality(n.justifications[m]) >= 2 THEN n
               ELSE IF useful
               THEN [stored EXCEPT !.open[m] = @ \ (good \cap {p}),
                                   !.weComplain = IF p \in good THEN @ \ {m} ELSE @,
                                   !.bad = IF good = msg.for THEN @ ELSE @ \cup {m}]
               ELSE MarkBadMember(stored, {m})]
          /\ db' = IF useful /\ p \in good
                   THEN [db EXCEPT ![p].sk[m] = msg.session] ELSE db
  /\ UNCHANGED <<simulated, phase, started, sent, session, final, lost>>

(* ReceiveMessage(CDKGJustification).  A justification is checked against  *)
(* the vvec p received; the ones for other members also close their        *)
(* complaints.                                                             *)
ReceiveJustification(p) ==
  /\ phase = "justify"
  /\ \E msg \in Pending(p) :
       LET m == msg.from
           n == node[p]
           stored == [n EXCEPT !.justifications[m] = @ \cup {msg}]
           good == {q \in msg.for : q \notin msg.wrong /\ msg.session = db[p].vvec[m]}
           useful == n.justifications[m] = {} /\ m \notin n.bad
                       /\ msg.for \subseteq n.open[m]
       IN /\ recv' = [recv EXCEPT ![p] = @ \cup {msg}]
          /\ node' = [node EXCEPT ![p] =
               IF Cardinality(n.justifications[m]) >= 2 THEN n
               ELSE IF useful
               THEN [stored EXCEPT !.open[m] = @ \ good,
                                   !.weComplain = IF p \in good THEN @ \ {m} ELSE @,
                                   !.bad = IF good = msg.for THEN @ ELSE @ \cup {m}]
               ELSE MarkBadMember(stored, {m})]
          /\ db' = IF useful /\ p \in good
                   THEN [db EXCEPT ![p].sk[m] = msg.session] ELSE db
  /\ UNCHANGED <<simulated, phase, started, sent, session, final, lost>>

-----------------------------------------------------------------------------
(***************************************************************************)
(* Phase 4: premature commitments.                                         *)
(***************************************************************************)

(* BuildQuorumVerificationVector over the contributions in the database:   *)
(* it fails when the vvec of a valid member is missing.                    *)
CanBuildVvec(p, valid) == \A m \in valid : db[p].vvec[m] # 0
QuorumKey(p, valid) == [m \in Member |-> IF m \in valid THEN db[p].vvec[m] ELSE 0]

(* AggregateSecretKeys: a member without one of the shares has no share.   *)
CanBuildShare(p, valid) == \A m \in valid : db[p].sk[m] # 0

BogusKey == [m \in Member |-> Bogus]

(* SendCommitment.  Lie types 0 and 1 name a wrong key, 4 spoils the       *)
(* threshold share; 2 and 3 make the signature of the message invalid, and *)
(* BatchVerifyMessageSigs drops it.                                        *)
SendCommitment(p, valid) ==
  LET qc == [from |-> p, valid |-> valid, key |-> QuorumKey(p, valid), share |-> TRUE]
      lies == {[qc EXCEPT !.key = BogusKey], [qc EXCEPT !.share = FALSE]}
  IN \E omit \in ShouldSimulateError(p, "commit-omit"),
        lie \in ShouldSimulateError(p, "commit-lie") :
       IF ~Enough(valid) \/ omit
             \/ ~CanBuildVvec(p, valid) \/ ~CanBuildShare(p, valid)
       THEN UNCHANGED sent
       ELSE IF lie THEN \/ UNCHANGED sent
                        \/ \E msg \in lies : sent' = sent \cup {msg}
       ELSE sent' = sent \cup {qc}

(* A faulty version that drops every member someone complained about.     *)
CommitOnComplaints(p) ==
  LET n == MarkBadMember(node[p], {m \in Member :
         \E q \in Member : \E qc \in node[p].complaints[q] : m \in qc.complain})
  IN /\ phase = "commit"
     /\ p \notin started
     /\ started' = started \cup {p}
     /\ node' = [node EXCEPT ![p] = n]
     /\ SendCommitment(p, Member \ n.bad)
     /\ UNCHANGED <<simulated, phase, recv, session, db, final, lost>>

VerifyAndCommit(p) ==
  LET n == MarkBadMember(node[p], {m \in Member : node[p].open[m] # {}})
  IN /\ phase = "commit"
     /\ p \notin started
     /\ started' = started \cup {p}
     /\ node' = [node EXCEPT ![p] = n]
     /\ SendCommitment(p, Member \ n.bad)
     /\ UNCHANGED <<simulated, phase, recv, session, db, final, lost>>

(* ReceiveMessage(CDKGPrematureCommitment): a commitment whose vvec p      *)
(* cannot build is taken without verification.                             *)
CommitmentVerifies(p, qc) ==
  CanBuildVvec(p, qc.valid) => qc.key = QuorumKey(p, qc.valid) /\ qc.share

ReceiveCommitment(p) ==
  /\ phase = "commit"
  /\ \E msg \in Pending(p) :
       /\ recv' = [recv EXCEPT ![p] = @ \cup {msg}]
       /\ node' = [node EXCEPT ![p].commitments = @ \cup {msg},
                               ![p].validCommitments =
                                  IF CommitmentVerifies(p, msg) THEN @ \cup {msg} ELSE @]
  /\ UNCHANGED <<simulated, phase, started, sent, session, db, final, lost>>

-----------------------------------------------------------------------------
(***************************************************************************)
(* Phase 5: the final commitments.  Commitments are grouped by their valid *)
(* members; the first one in the order of the message hashes, any of them, *)
(* gives the key, and the ones that name another key are skipped.  The     *)
(* recovered signature verifies when every share it is made of does and    *)
(* there are enough of them (threshold <= minSize).                        *)
(***************************************************************************)
Aggregate(first, cvec) ==
  LET same == {qc \in cvec : qc.key = first.key}
      real == \A m \in Member : first.key[m] # Bogus
  IN [valid |-> first.valid, key |-> first.key,
      signers |-> {qc.from : qc \in same},
      sig |-> real /\ \A qc \in same : qc.share]

FinalizeCommitments(p) ==
  LET Group(valid) == {qc \in node[p].validCommitments : qc.valid = valid}
      groups == {Group(qc.valid) : qc \in node[p].validCommitments}
      enough == {cvec \in groups : Enough(cvec)}
  IN /\ phase = "finalize"
     /\ p \notin started
     /\ started' = started \cup {p}
     /\ \E first \in {f \in [enough -> node[p].validCommitments] :
                        \A cvec \in enough : f[cvec] \in cvec} :
          final' = [final EXCEPT ![p] = {Aggregate(first[cvec], cvec) : cvec \in enough}]
     /\ UNCHANGED <<simulated, phase, sent, recv, session, node, db, lost>>

(* CFinalCommitment::Verify, the parts that a session decides.             *)
Verify(fqc) ==
  /\ Enough(fqc.valid)
  /\ Enough(fqc.signers)
  /\ fqc.sig

-----------------------------------------------------------------------------
(* A faulty version with one queue of messages for all phases.             *)
NextPhaseOneQueue ==
  LET missed == {d \in Member \X sent : d[2] \notin recv[d[1]]}
  IN /\ started = Member
     /\ phase # "finalize"
     /\ lost + Cardinality(missed) <= MaxLost
     /\ lost' = lost + Cardinality(missed)
     /\ phase' = CASE phase = "contribute" -> "complain"
                   [] phase = "complain" -> "justify"
                   [] phase = "justify" -> "commit"
                   [] phase = "commit" -> "finalize"
     /\ started' = {}
     /\ sent' = sent
     /\ recv' = [p \in Member |-> {}]
     /\ UNCHANGED <<simulated, session, node, db, final>>

(* The next phase: messages not processed by now never will be.            *)
NextPhase ==
  LET missed == {d \in Member \X sent : d[2] \notin recv[d[1]]}
  IN /\ started = Member
     /\ phase # "finalize"
     /\ lost + Cardinality(missed) <= MaxLost
     /\ lost' = lost + Cardinality(missed)
     /\ phase' = CASE phase = "contribute" -> "complain"
                   [] phase = "complain" -> "justify"
                   [] phase = "justify" -> "commit"
                   [] phase = "commit" -> "finalize"
     /\ started' = {}
     /\ sent' = {}
     /\ recv' = [p \in Member |-> {}]
     /\ UNCHANGED <<simulated, session, node, db, final>>

Next ==
  \/ \E p \in Member : Contribute(p)
  \/ \E p \in Member : Rewind(p)
  \/ \E p \in Member : ReceiveContribution(p)
  \/ \E p \in Member : VerifyAndComplain(p)
  \/ \E p \in Member : ReceiveComplaint(p)
  \/ \E p \in Member : VerifyAndJustify(p)
  \/ \E p \in Member : ReceiveJustification(p)
  \/ \E p \in Member : VerifyAndCommit(p)
  \/ \E p \in Member : ReceiveCommitment(p)
  \/ \E p \in Member : FinalizeCommitments(p)
  \/ NextPhase

Spec == Init /\ [][Next]_vars

-----------------------------------------------------------------------------
MemberData ==
  [contributions : [Member -> SUBSET Contribution], pending : SUBSET Member,
   bad : SUBSET Member, weComplain : SUBSET Member,
   complaints : [Member -> SUBSET Complaint],
   votes : [Member -> SUBSET Member], open : [Member -> SUBSET Member],
   justifications : [Member -> SUBSET Justification],
   commitments : SUBSET PrematureCommitment,
   validCommitments : SUBSET PrematureCommitment]

Message ==
  CASE phase = "contribute" -> Contribution
    [] phase = "complain" -> Complaint
    [] phase = "justify" -> Justification
    [] phase \in {"commit", "finalize"} -> PrematureCommitment

(* The type invariant: the messages under way are those of the phase, and  *)
(* only members that take part have sent or processed any.                 *)
TypeOK ==
  /\ simulated \in Errors
  /\ phase \in Phases
  /\ started \subseteq Member
  /\ sent \subseteq Message
  /\ recv \in [Member -> SUBSET sent]
  /\ session \in [Member -> Session]
  /\ node \in [Member -> MemberData]
  /\ db \in [Member -> [vvec : [Member -> 0..2], sk : [Member -> 0..2]]]
  /\ final \in [Member -> SUBSET FinalCommitment]
  /\ lost \in 0..MaxLost

Liar == {p \in Member : simulated[p] # {}}

(* Two final commitments that verify name the same members and the same    *)
(* key, whichever members FinalizeCommitments returned them to and         *)
(* whatever messages were lost on the way.                                 *)
OneKey ==
  \A p, q \in Member : \A f \in final[p], g \in final[q] :
    Verify(f) /\ Verify(g) => f.valid = g.valid /\ f.key = g.key

(* A member that signed a final commitment and did not lie in it holds a   *)
(* share from every valid member, a point of the polynomial that was added *)
(* to the quorum key: with minSize such members the quorum can sign.       *)
SignersHoldShares ==
  \A p \in Member : \A f \in final[p] : \A s \in f.signers \ Liar :
    \A m \in f.valid : db[s].sk[m] = f.key[m] /\ f.key[m] # 0

(* When every message arrives in its phase, all members judge every other  *)
(* one alike once they have committed, lies and early justifications       *)
(* included.                                                               *)
SameVerdict ==
  phase = "finalize" /\ lost = 0 =>
    \A p, q \in Member : node[p].bad = node[q].bad

(* The comment in VerifyAndComplain: "In case nodes come to different      *)
(* conclusions, the aggregation phase will handle this (most voted quorum  *)
(* key wins)".  No key got more votes than the one of a final commitment.  *)
MostVotedKeyWins ==
  \A p \in Member : \A f \in final[p] : \A qc \in node[p].validCommitments :
    qc.valid = f.valid =>
      Cardinality({q \in node[p].validCommitments : q.valid = f.valid /\ q.key = qc.key})
        <= Cardinality(f.signers)

(* When every message arrives, a member that simulates no error and is not *)
(* rewound is dropped only for a complaint that it left unanswered because *)
(* it had dropped the complainer itself.                                   *)
DroppedOnlyByDropped ==
  phase = "finalize" /\ lost = 0 =>
    \A p \in Member, q \in Member \ (Liar \cup Rewound) :
      q \in node[p].bad =>
        node[p].open[q] # {} /\ node[p].open[q] \subseteq node[q].bad
=============================================================================
