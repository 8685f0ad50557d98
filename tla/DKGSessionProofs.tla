-------------------------- MODULE DKGSessionProofs --------------------------
(***************************************************************************)
(* Proofs about DKGSession for every set of members, every choice of       *)
(* simulated errors and any number of lost messages: typing, one quorum    *)
(* key, and that those who signed a final commitment hold their shares.    *)
(*                                                                         *)
(* When no message is lost, what a member holds is a function of the       *)
(* messages it processed, the members processed the same ones when a phase *)
(* ends, and so they judge alike whatever order the messages came in.      *)
(***************************************************************************)
EXTENDS DKGSessionLemmas

\* Who sent two contributions, and who sent none, in the eyes of p.
Twice(p) == {m \in Member : \E a, b \in node[p].contributions[m] : a # b}
Missing(p) == {m \in Member : node[p].contributions[m] = {}}

\* Who complained about m, who voted m bad, and the members with too many votes.
Complainers(p, m) == {x \in Member : \E qc \in node[p].complaints[x] : m \in qc.complain}
Voters(p, m) == {x \in Member : \E qc \in node[p].complaints[x] : m \in qc.bad}
Voted(p) == {m \in Member : Cardinality(node[p].votes[m]) >= BadVotes}

\* The shares of a justification that verify.
Good(p, msg) == {x \in msg.for : x \notin msg.wrong /\ msg.session = db[p].vvec[msg.from]}
Wrong(p) == {msg \in recv[p] : Good(p, msg) # msg.for}

\* The messages of S that m sent.
From(S, m) == {a \in S : a.from = m}

\* Complaints about m that nothing p received from m answers.
Unanswered(p, m) == {x \in Complainers(p, m) : \A msg \in From(recv[p], m) : x \notin Good(p, msg)}

\* A member sends one message in a phase, when it takes its local action.
OneEach == (\A a \in sent : a.from \in started) /\ (\A a, b \in sent : a.from = b.from => a = b)

\* The vvec in the database is the one of a contribution that was received.
VvecReceived ==
  \A p, m \in Member : node[p].contributions[m] # {} =>
    \E a \in node[p].contributions[m] : db[p].vvec[m] = a.session

\* The phase of the contributions: who sent two is bad (at most one per session).
Contributed ==
  /\ \A a \in sent : a.from \in started /\ (session[a.from] = 1 => a.session = 1)
  /\ \A a, b \in sent : a.from = b.from /\ a.session = b.session => a = b
  /\ VvecReceived
  /\ \A p \in Member :
       /\ node[p].bad = Twice(p)
       /\ \A m \in Member :
            /\ node[p].contributions[m] = From(recv[p], m)
            /\ node[p].complaints[m] = {} /\ node[p].votes[m] = {} /\ node[p].open[m] = {}
            /\ node[p].justifications[m] = {}

\* The phase of the complaints, all contributions received: who sent none is bad too.
Complained ==
  /\ OneEach
  /\ VvecReceived
  /\ \A p, q \in Member : node[p].contributions = node[q].contributions
  /\ \A p \in Member :
       /\ node[p].bad = Twice(p) \cup (IF p \in started THEN Missing(p) ELSE {})
       /\ \A m \in Member :
            /\ node[p].complaints[m] = From(recv[p], m)
            /\ node[p].votes[m] = Voters(p, m) /\ node[p].open[m] = Complainers(p, m)
            /\ node[p].justifications[m] = {}

\* The phase of the justifications, all complaints received: who got too many votes
\* and who answered wrongly is bad too; the complaints nobody answered are open.
Justified ==
  /\ OneEach
  /\ VvecReceived
  /\ \A p, q \in Member : /\ node[p].contributions = node[q].contributions
                          /\ node[p].complaints = node[q].complaints
                          /\ node[p].votes = node[q].votes
  /\ \A msg \in sent : msg.for \subseteq Complainers(msg.from, msg.from)
  /\ \A p \in Member :
       /\ node[p].bad = Twice(p) \cup Missing(p) \cup (IF p \in started THEN Voted(p) ELSE {})
                          \cup {msg.from : msg \in Wrong(p)}
       /\ \A m \in Member :
            /\ \A a, b \in node[p].complaints[m] : a = b
            /\ node[p].justifications[m] = From(recv[p], m)
            /\ m \notin node[p].bad => node[p].open[m] = Unanswered(p, m)

\* Whom p drops in the end.
Verdict(p) == node[p].bad \cup {m \in Member : node[p].open[m] # {}}

\* The phases of the commitments, all justifications received.
Judged ==
  /\ \A p, q \in Member : Verdict(p) = Verdict(q)
  /\ \A p \in Member : phase = "finalize" \/ p \in started => node[p].bad = Verdict(p)

\* What the agreement of the verdicts rests on, phase by phase.
VInv ==
  /\ phase = "contribute" => Contributed
  /\ phase = "complain" /\ lost = 0 => Complained
  /\ phase = "justify" /\ lost = 0 => Justified
  /\ phase \in {"commit", "finalize"} /\ lost = 0 => Judged

\* Members that simulate no error and are not rewound.
Honest == Member \ (Liar \cup Rewound)

\* What the other members hold of an honest member, phase by phase.
Accepted(q) == \A p \in Member : q \notin Twice(p) \cup Missing(p) /\ db[p].vvec[q] = 1

Answered(q) ==
  /\ \A p \in Member : node[p].votes[q] = {}
  /\ \A msg \in From(sent, q) : msg.wrong = {} /\ msg.session = 1
  /\ q \in started => \A x \in Complainers(q, q) :
       x \in node[q].bad \/ \E msg \in From(sent, q) : x \in msg.for

OnlyUnanswered(q) ==
  \A p \in Member : /\ q \in node[p].bad => node[p].open[q] # {}
                    /\ node[p].open[q] \subseteq node[q].bad

\* What keeps honest members from being dropped, phase by phase.
DInv == \A q \in Honest :
  /\ session[q] = 1
  /\ phase = "contribute" /\ q \in started => \E a \in sent : a.from = q
  /\ phase \in {"complain", "justify"} /\ lost = 0 => Accepted(q)
  /\ phase = "complain" /\ lost = 0 => \A a \in sent : q \notin a.bad
  /\ phase = "justify" /\ lost = 0 => Answered(q)
  /\ phase \in {"commit", "finalize"} /\ lost = 0 => OnlyUnanswered(q)

-----------------------------------------------------------------------------
\* A new session holds nothing (CDKGSession::Init).
LEMMA InitV == Init => VInv
<1> SUFFICES ASSUME Init PROVE Contributed /\ phase = "contribute"
  BY Zenon DEF VInv
<1>1. /\ phase = "contribute" /\ sent = {} /\ recv = [p \in Member |-> {}]
      /\ node = [p \in Member |-> NewSession]
  BY Zenon DEF Init
<1>2. ASSUME NEW p \in Member
      PROVE  /\ node[p].bad = {}
             /\ \A m \in Member : /\ node[p].contributions[m] = {} /\ node[p].complaints[m] = {}
                                  /\ node[p].votes[m] = {} /\ node[p].open[m] = {}
                                  /\ node[p].justifications[m] = {}
  BY <1>1, Zenon DEF NewSession
<1> QED
  BY <1>1, <1>2 DEF Contributed, VvecReceived, Twice, From

\* The part of a member's data that the verdicts depend on.
SameData(a, b) ==
  /\ a.contributions = b.contributions /\ a.bad = b.bad /\ a.complaints = b.complaints
  /\ a.votes = b.votes /\ a.open = b.open /\ a.justifications = b.justifications

\* What marking members as bad does to the data of a member.
MarkedBad(u, n, S) ==
  /\ u.bad = n.bad \cup S /\ u.contributions = n.contributions
  /\ u.complaints = n.complaints /\ u.votes = n.votes /\ u.open = n.open
  /\ u.justifications = n.justifications

\* MarkBadMember changes the set of bad members and nothing else.
LEMMA MarkBadFields ==
  ASSUME NEW n \in MemberData, NEW S
  PROVE  MarkedBad(MarkBadMember(n, S), n, S)
BY Zenon DEF MarkedBad, MarkBadMember, MemberData

\* What p itself complains about and the shares it has not verified yet do not matter.
LEMMA OwnFields ==
  ASSUME NEW n \in MemberData, NEW S
  PROVE  /\ SameData([n EXCEPT !.weComplain = S], n)
         /\ SameData([n EXCEPT !.pending = S], n)
         /\ SameData([n EXCEPT !.pending = {}, !.weComplain = S], n)
BY Zenon DEF MemberData, SameData

\* What ReceiveMessage(CDKGContribution) does to the data of p.
ContributionStored(p, msg) ==
  LET m == msg.from
      n == node[p]
      twice == Cardinality(n.contributions[m]) >= 2
  IN /\ recv'[p] = recv[p] \cup {msg}
     /\ \A x \in Member : node'[p].contributions[x] =
          IF x = m /\ ~twice THEN n.contributions[x] \cup {msg} ELSE n.contributions[x]
     /\ node'[p].bad = IF n.contributions[m] = {} \/ twice THEN n.bad ELSE n.bad \cup {m}
     /\ node'[p].complaints = n.complaints /\ node'[p].votes = n.votes
     /\ node'[p].open = n.open /\ node'[p].justifications = n.justifications
     /\ \A x \in Member : db'[p].vvec[x] =
          IF x = m /\ n.contributions[m] = {} THEN msg.session ELSE db[p].vvec[x]
     /\ \A q \in Member \ {p} : recv'[q] = recv[q] /\ node'[q] = node[q] /\ db'[q] = db[q]

\* ReceiveMessage(CDKGContribution) stores a contribution in this way.
LEMMA ContributionReceived ==
  ASSUME IInv, NEW p \in Member, ReceiveContribution(p)
  PROVE  \E msg \in sent \ recv[p] : msg \in Contribution /\ ContributionStored(p, msg)
<1> DEFINE n == node[p]
           stored(msg) == [n EXCEPT !.contributions[msg.from] = @ \cup {msg}]
<1>1. PICK msg \in Pending(p), lie \in BOOLEAN :
        /\ recv' = [recv EXCEPT ![p] = @ \cup {msg}]
        /\ node' = [node EXCEPT ![p] =
             IF Cardinality(n.contributions[msg.from]) >= 2 THEN n
             ELSE IF n.contributions[msg.from] # {} THEN MarkBadMember(stored(msg), {msg.from})
             ELSE IF lie THEN [stored(msg) EXCEPT !.weComplain = @ \cup {msg.from}]
             ELSE [stored(msg) EXCEPT !.pending = @ \cup {msg.from}]]
        /\ db' = IF n.contributions[msg.from] = {}
                 THEN [db EXCEPT ![p].vvec[msg.from] = msg.session] ELSE db
  BY Zenon DEF ReceiveContribution
<1>2. /\ node \in [Member -> MemberData] /\ recv \in [Member -> SUBSET sent]
      /\ db \in [Member -> [vvec : [Member -> 0..2], sk : [Member -> 0..2]]]
      /\ msg \in sent \ recv[p] /\ msg \in Contribution
  BY MessageTypes, Zenon DEF ReceiveContribution, IInv, TypeOK, Pending
<1>3. msg.from \in Member /\ n \in MemberData
  BY <1>2, Zenon DEF Contribution
<1>4. stored(msg) \in MemberData
  BY <1>2, <1>3, Zenon DEF MemberData
<1>5. /\ \A x \in Member : stored(msg).contributions[x] =
           IF x = msg.from THEN n.contributions[x] \cup {msg} ELSE n.contributions[x]
      /\ stored(msg).bad = n.bad
      /\ stored(msg).complaints = n.complaints /\ stored(msg).votes = n.votes
      /\ stored(msg).open = n.open /\ stored(msg).justifications = n.justifications
  BY <1>3, Zenon DEF MemberData
<1>6. /\ recv'[p] = recv[p] \cup {msg}
      /\ \A q \in Member \ {p} : recv'[q] = recv[q] /\ node'[q] = node[q] /\ db'[q] = db[q]
      /\ node'[p] =
             IF Cardinality(n.contributions[msg.from]) >= 2 THEN n
             ELSE IF n.contributions[msg.from] # {} THEN MarkBadMember(stored(msg), {msg.from})
             ELSE IF lie THEN [stored(msg) EXCEPT !.weComplain = @ \cup {msg.from}]
             ELSE [stored(msg) EXCEPT !.pending = @ \cup {msg.from}]
  <2> HIDE DEF n, stored
  <2> QED  BY <1>1, <1>2, Zenon
<1>7. \A x \in Member : db'[p].vvec[x] =
        IF x = msg.from /\ n.contributions[msg.from] = {} THEN msg.session ELSE db[p].vvec[x]
  <2> HIDE DEF n, stored
  <2> QED  BY <1>1, <1>2, <1>3, Zenon
<1> DEFINE s == stored(msg)
<1>8. \/ node'[p] = n /\ Cardinality(n.contributions[msg.from]) >= 2
      \/ /\ ~(Cardinality(n.contributions[msg.from]) >= 2) /\ n.contributions[msg.from] # {}
         /\ node'[p] = MarkBadMember(s, {msg.from})
      \/ /\ ~(Cardinality(n.contributions[msg.from]) >= 2) /\ n.contributions[msg.from] = {}
         /\ SameData(node'[p], s)
  <2> HIDE DEF n, stored
  <2>1. /\ SameData([s EXCEPT !.weComplain = @ \cup {msg.from}], s)
        /\ SameData([s EXCEPT !.pending = @ \cup {msg.from}], s)
    BY <1>4, OwnFields, Zenon
  <2> QED  BY <1>6, <2>1, Zenon
<1>9. /\ \A x \in Member : node'[p].contributions[x] =
           IF x = msg.from /\ ~(Cardinality(n.contributions[msg.from]) >= 2)
           THEN n.contributions[x] \cup {msg} ELSE n.contributions[x]
      /\ node'[p].bad =
           IF n.contributions[msg.from] = {} \/ Cardinality(n.contributions[msg.from]) >= 2
           THEN n.bad ELSE n.bad \cup {msg.from}
      /\ node'[p].complaints = n.complaints /\ node'[p].votes = n.votes
      /\ node'[p].open = n.open /\ node'[p].justifications = n.justifications
  <2> HIDE DEF n, stored
  <2>1. CASE node'[p] = n /\ Cardinality(n.contributions[msg.from]) >= 2
    BY <2>1, Zenon
  <2>2. CASE /\ ~(Cardinality(n.contributions[msg.from]) >= 2) /\ n.contributions[msg.from] # {}
             /\ node'[p] = MarkBadMember(s, {msg.from})
    <3>1. MarkedBad(node'[p], s, {msg.from})
      BY <1>4, <2>2, MarkBadFields, Zenon
    <3> QED  BY <1>5, <2>2, <3>1, Zenon DEF MarkedBad
  <2>3. CASE /\ ~(Cardinality(n.contributions[msg.from]) >= 2) /\ n.contributions[msg.from] = {}
             /\ SameData(node'[p], s)
    BY <1>5, <2>3, Zenon DEF SameData
  <2> QED  BY <1>8, <2>1, <2>2, <2>3, Zenon
<1> QED
  BY <1>2, <1>6, <1>7, <1>9, Zenon DEF ContributionStored

\* A set without two elements has at most one.
LEMMA AtMostOne ==
  ASSUME FiniteLaws, NEW S, \A a, b \in S : a = b
  PROVE  ~(Cardinality(S) >= 2) /\ ~(Cardinality(S) > 1)
<1>1. CASE S = {}
  BY <1>1, EmptyFinite
<1>2. CASE S # {}
  <2>1. PICK a \in S : S = {a}
    BY <1>2, Zenon
  <2> QED  BY <2>1, SingletonCount
<1> QED  BY <1>1, <1>2, Zenon

\* A contribution is stored once, and the second one of a member makes it bad.
LEMMA ReceiveContributionV ==
  ASSUME FiniteLaws, IInv, Contributed, NEW p \in Member, ReceiveContribution(p)
  PROVE  Contributed'
<1>1. PICK msg \in sent \ recv[p] : msg \in Contribution /\ ContributionStored(p, msg)
  BY ContributionReceived, Zenon
<1>2. UNCHANGED <<sent, started, session>>
  BY Zenon DEF ReceiveContribution
<1> DEFINE m == msg.from
           C(q) == node[q].contributions
<1>3. m \in Member /\ msg.session \in 1..2 /\ recv[p] \subseteq sent /\ sent \subseteq Contribution
  BY <1>1, MessageTypes, Zenon DEF Contribution, Session, IInv, TypeOK, ReceiveContribution
<1>4. \A a, b \in C(p)[m] : a = b
  <2> SUFFICES ASSUME NEW a \in C(p)[m], NEW b \in C(p)[m] PROVE a = b
    BY Zenon
  <2>1. a \in recv[p] /\ a.from = m /\ b \in recv[p] /\ b.from = m
    BY <1>3 DEF Contributed, From
  <2>2. a \in sent /\ b \in sent /\ a # msg /\ b # msg
    BY <1>1, <1>3, <2>1, Zenon
  <2>3. a.session \in 1..2 /\ b.session \in 1..2
    BY <1>3, <2>2, Zenon DEF Contribution, Session
  <2>4. a.session # msg.session /\ b.session # msg.session
    BY <2>1, <2>2, <1>1, Zenon DEF Contributed
  <2>5. a.session = b.session
    BY <1>3, <2>3, <2>4
  <2> QED
    BY <2>1, <2>2, <2>5 DEF Contributed
<1>5. ~(Cardinality(C(p)[m]) >= 2)
  BY <1>4, AtMostOne, Zenon
<1>6. /\ recv'[p] = recv[p] \cup {msg}
      /\ \A x \in Member : C(p)'[x] = IF x = m THEN C(p)[x] \cup {msg} ELSE C(p)[x]
      /\ node'[p].bad = IF C(p)[m] = {} THEN node[p].bad ELSE node[p].bad \cup {m}
      /\ node'[p].complaints = node[p].complaints /\ node'[p].votes = node[p].votes
      /\ node'[p].open = node[p].open /\ node'[p].justifications = node[p].justifications
      /\ \A x \in Member : db'[p].vvec[x] =
           IF x = m /\ C(p)[m] = {} THEN msg.session ELSE db[p].vvec[x]
      /\ \A q \in Member \ {p} : recv'[q] = recv[q] /\ node'[q] = node[q] /\ db'[q] = db[q]
  BY <1>1, <1>5, Zenon DEF ContributionStored
<1>7. \A q, x \in Member : C(q)'[x] = From(recv'[q], x)
  <2> SUFFICES ASSUME NEW q \in Member, NEW x \in Member PROVE C(q)'[x] = From(recv'[q], x)
    BY Zenon
  <2>1. C(q)[x] = From(recv[q], x)
    BY Zenon DEF Contributed
  <2>2. CASE q # p
    BY <1>6, <2>1, <2>2, Zenon
  <2>3. CASE q = p
    <3>1. From(recv'[p], x) = IF x = m THEN From(recv[p], x) \cup {msg} ELSE From(recv[p], x)
      BY <1>6 DEF From
    <3> QED  BY <1>6, <2>1, <2>3, <3>1, Zenon
  <2> QED  BY <2>2, <2>3, Zenon
<1>8. VvecReceived'
  <2> SUFFICES ASSUME NEW q \in Member, NEW x \in Member, C(q)'[x] # {}
               PROVE  \E a \in C(q)'[x] : db'[q].vvec[x] = a.session
    BY Zenon DEF VvecReceived
  <2>1. CASE q = p /\ x = m /\ C(p)[m] = {}
    BY <1>6, <2>1, Zenon
  <2>2. CASE ~(q = p /\ x = m /\ C(p)[m] = {})
    <3>1. C(q)[x] # {} /\ C(q)[x] \subseteq C(q)'[x] /\ db'[q].vvec[x] = db[q].vvec[x]
      <4>1. CASE q # p
        BY <1>6, <4>1, Zenon
      <4>2. CASE q = p
        <5>1. C(q)'[x] = (IF x = m THEN C(q)[x] \cup {msg} ELSE C(q)[x])
          BY <1>6, <4>2, Zenon
        <5>2. db'[q].vvec[x] = (IF x = m /\ C(p)[m] = {} THEN msg.session ELSE db[q].vvec[x])
          BY <1>6, <4>2, Zenon
        <5> QED  BY <2>2, <4>2, <5>1, <5>2, Zenon
      <4> QED  BY <4>1, <4>2, Zenon
    <3> QED  BY <3>1 DEF Contributed, VvecReceived
  <2> QED  BY <2>1, <2>2, Zenon
<1>9. ASSUME NEW q \in Member PROVE node'[q].bad = Twice(q)'
  <2>1. CASE q # p
    BY <1>6, <2>1 DEF Contributed, Twice
  <2>2. CASE q = p
    <3>1. node[p].bad = Twice(p)
      BY Zenon DEF Contributed
    <3>2. CASE C(p)[m] = {}
      <4>1. node'[p].bad = node[p].bad
        BY <1>6, <3>2, Zenon
      <4>2. Twice(p)' = Twice(p)
        <5>1. \A x \in Member : C(p)'[x] = IF x = m THEN {msg} ELSE C(p)[x]
          BY <1>6, <3>2, Zenon
        <5> QED  BY <3>2, <5>1 DEF Twice
      <4> QED  BY <2>2, <3>1, <4>1, <4>2, Zenon
    <3>3. CASE C(p)[m] # {}
      <4>1. PICK a \in C(p)[m] : TRUE
        BY <3>3, Zenon
      <4>2. a \in C(p)'[m] /\ msg \in C(p)'[m] /\ a # msg
        <5>1. C(p)'[m] = C(p)[m] \cup {msg}
          BY <1>3, <1>6, Zenon
        <5>2. a \in recv[p]
          BY <1>3, <4>1 DEF Contributed, From
        <5> QED  BY <1>1, <5>1, <5>2, Zenon
      <4>3. \A x \in Member \ {m} : C(p)'[x] = C(p)[x]
        BY <1>6, Zenon
      <4>4. Twice(p)' = Twice(p) \cup {m}
        BY <1>3, <4>2, <4>3 DEF Twice
      <4> QED  BY <1>6, <2>2, <3>1, <3>3, <4>4, Zenon
    <3> QED  BY <3>2, <3>3, Zenon
  <2> QED  BY <2>1, <2>2, Zenon
<1>a. ASSUME NEW q \in Member, NEW x \in Member
      PROVE  /\ node'[q].complaints[x] = {} /\ node'[q].votes[x] = {} /\ node'[q].open[x] = {}
             /\ node'[q].justifications[x] = {}
  BY <1>6 DEF Contributed
<1> QED
  BY <1>2, <1>7, <1>8, <1>9, <1>a, Zenon DEF Contributed

\* A contribution of a new session is not one of an earlier session (SendContributions).
LEMMA SendContributionV ==
  ASSUME IInv, phase = "contribute",
         NEW p \in Member, NEW ses \in Session, SendContributions(p, ses),
         \A a \in sent : a.from = p => a.session # ses,
         \A a, b \in sent : a.from = b.from /\ a.session = b.session => a = b
  PROVE  /\ \A a \in sent' : a \in sent \/ (a.from = p /\ a.session = ses)
         /\ \A a, b \in sent' : a.from = b.from /\ a.session = b.session => a = b
<1>1. PICK wrong : \/ sent' = sent
                  \/ sent' = sent \cup {[from |-> p, session |-> ses, wrong |-> wrong]}
  BY Zenon DEF SendContributions
<1> DEFINE msg == [from |-> p, session |-> ses, wrong |-> wrong]
<1>2. msg.from = p /\ msg.session = ses
  BY Zenon
<1> HIDE DEF msg
<1> QED
  BY <1>1, <1>2, Zenon DEF msg

\* SendContributions leaves what the members hold alone.
LEMMA ContributeV ==
  ASSUME IInv, Contributed, NEW p \in Member, Contribute(p)
  PROVE  Contributed'
<1>1. /\ phase = "contribute" /\ p \notin started /\ started' = started \cup {p}
      /\ SendContributions(p, session[p]) /\ UNCHANGED <<recv, session, node, db>>
  BY Zenon DEF Contribute
<1>2. session[p] \in Session
  BY Zenon DEF IInv, TypeOK
<1>3. \A a \in sent : a.from # p /\ a.from \in started /\ (session[a.from] = 1 => a.session = 1)
  BY <1>1, Zenon DEF Contributed
<1>4. /\ \A a \in sent' : a \in sent \/ (a.from = p /\ a.session = session[p])
      /\ \A a, b \in sent' : a.from = b.from /\ a.session = b.session => a = b
  <2>1. \A a, b \in sent : a.from = b.from /\ a.session = b.session => a = b
    BY Zenon DEF Contributed
  <2> QED
    BY <1>1, <1>2, <1>3, <2>1, SendContributionV, Zenon
<1>5. \A a \in sent' : a.from \in started' /\ (session'[a.from] = 1 => a.session = 1)
  BY <1>1, <1>3, <1>4, Zenon
<1>6. /\ VvecReceived'
      /\ \A q \in Member : Twice(q)' = Twice(q)
  BY <1>1 DEF Contributed, VvecReceived, Twice
<1> QED
  BY <1>1, <1>4, <1>5, <1>6, Zenon DEF Contributed

\* A restarted session starts with nothing received.
LEMMA RewindV ==
  ASSUME IInv, Contributed, NEW p \in Member, Rewind(p)
  PROVE  Contributed'
<1>1. /\ phase = "contribute" /\ p \in started /\ started' = started
      /\ session[p] = 1 /\ session' = [session EXCEPT ![p] = 2]
      /\ node' = [node EXCEPT ![p] = NewSession] /\ recv' = [recv EXCEPT ![p] = {}]
      /\ db' = db /\ SendContributions(p, 2)
  BY Zenon DEF Rewind
<1>2. /\ 2 \in Session
      /\ \A q \in Member : session'[q] = IF q = p THEN 2 ELSE session[q]
      /\ node'[p] = NewSession /\ recv'[p] = {}
      /\ \A q \in Member \ {p} : node'[q] = node[q] /\ recv'[q] = recv[q]
      /\ \A a \in sent : a.from \in Member
  <2>1. /\ session \in [Member -> Session] /\ node \in [Member -> MemberData]
        /\ recv \in [Member -> SUBSET sent] /\ sent \subseteq Contribution
    BY <1>1, MessageTypes, Zenon DEF IInv, TypeOK
  <2>2. \A a \in sent : a.from \in Member
    BY <2>1, Zenon DEF Contribution
  <2> QED  BY <1>1, <2>1, <2>2 DEF Session
<1>3. \A a \in sent : a.from \in started /\ (session[a.from] = 1 => a.session = 1)
  BY Zenon DEF Contributed
<1>4. /\ \A a \in sent' : a \in sent \/ (a.from = p /\ a.session = 2)
      /\ \A a, b \in sent' : a.from = b.from /\ a.session = b.session => a = b
  <2>1. \A a, b \in sent : a.from = b.from /\ a.session = b.session => a = b
    BY DEF Contributed
  <2>2. \A a \in sent : a.from = p => a.session # 2
    BY <1>1, <1>3
  <2> QED
    BY <1>1, <1>2, <2>1, <2>2, SendContributionV, Zenon
<1>5. \A a \in sent' : a.from \in started' /\ (session'[a.from] = 1 => a.session = 1)
  BY <1>1, <1>2, <1>3, <1>4
<1>6. /\ node'[p].bad = {}
      /\ \A m \in Member : /\ node'[p].contributions[m] = {} /\ node'[p].complaints[m] = {}
                           /\ node'[p].votes[m] = {} /\ node'[p].open[m] = {}
                           /\ node'[p].justifications[m] = {}
  BY <1>2 DEF NewSession
<1>7. VvecReceived'
  BY <1>1, <1>2, <1>6 DEF Contributed, VvecReceived
<1>8. ASSUME NEW q \in Member
      PROVE  /\ node'[q].bad = Twice(q)'
             /\ \A m \in Member :
                  /\ node'[q].contributions[m] = From(recv'[q], m)
                  /\ node'[q].complaints[m] = {} /\ node'[q].votes[m] = {}
                  /\ node'[q].open[m] = {} /\ node'[q].justifications[m] = {}
  <2>1. CASE q = p
    BY <1>2, <1>6, <2>1, Zenon DEF Twice, From
  <2>2. CASE q # p
    BY <1>2, <2>2 DEF Contributed, Twice
  <2> QED  BY <2>1, <2>2, Zenon
<1> QED
  BY <1>4, <1>5, <1>7, <1>8, Zenon DEF Contributed

-----------------------------------------------------------------------------
\* What VerifyAndComplain does: members without a contribution are bad.
ComplaintSent(p) ==
  /\ phase = "complain" /\ p \notin started /\ started' = started \cup {p}
  /\ MarkedBad(node'[p], node[p], Missing(p))
  /\ \/ sent' = sent
     \/ \E complain : sent' = sent \cup {[from |-> p, bad |-> node'[p].bad, complain |-> complain]}
  /\ \A q \in Member : db'[q].vvec = db[q].vvec
  /\ \A q \in Member \ {p} : node'[q] = node[q]
  /\ recv' = recv

\* VerifyAndComplain and SendComplaint send such a complaint, at most.
LEMMA VerifyAndComplainFacts ==
  ASSUME IInv, NEW p \in Member, VerifyAndComplain(p)
  PROVE  ComplaintSent(p)
<1> DEFINE v == VerifyPendingContributions(p)
           missing == {m \in Member : v.n.contributions[m] = {}}
           n == MarkBadMember(v.n, missing)
           complain == n.weComplain \ n.bad
<1>1. /\ phase = "complain" /\ p \notin started /\ started' = started \cup {p}
      /\ db' = [db EXCEPT ![p].sk = v.sk] /\ node' = [node EXCEPT ![p] = n] /\ recv' = recv
      /\ sent' = IF n.bad = {} /\ complain = {} THEN sent
                 ELSE sent \cup {[from |-> p, bad |-> n.bad, complain |-> complain]}
  BY Zenon DEF VerifyAndComplain
<1>2. /\ node \in [Member -> MemberData]
      /\ db \in [Member -> [vvec : [Member -> 0..2], sk : [Member -> 0..2]]]
  BY Zenon DEF IInv, TypeOK
<1>3. SameData(v.n, node[p]) /\ v.n \in MemberData
  <2> DEFINE todo == node[p].pending \ (node[p].bad \cup node[p].weComplain)
             good == {m \in todo : ShareVerifies(p, m)}
             n1 == [node[p] EXCEPT !.pending = {}, !.weComplain = @ \cup (todo \ good)]
  <2>1. v.n = n1
    BY Zenon DEF VerifyPendingContributions
  <2>2. node[p] \in MemberData
    BY <1>2, Zenon
  <2>3. n1 \in MemberData
    BY <2>2, Zenon DEF MemberData
  <2> HIDE DEF v, todo, good
  <2> QED  BY <2>1, <2>2, <2>3, OwnFields, Zenon
<1> HIDE DEF v
<1>5. missing = Missing(p)
  BY <1>3, Zenon DEF SameData, Missing
<1>6. MarkedBad(n, node[p], Missing(p))
  <2> HIDE DEF missing
  <2>1. MarkedBad(n, v.n, missing)
    BY <1>3, MarkBadFields, Zenon
  <2> QED  BY <1>3, <1>5, <2>1, Zenon DEF MarkedBad, SameData
<1>7. /\ node'[p] = n /\ \A q \in Member \ {p} : node'[q] = node[q]
      /\ \A q \in Member : db'[q].vvec = db[q].vvec
  <2> HIDE DEF n
  <2> QED  BY <1>1, <1>2, Zenon
<1> HIDE DEF n, complain
<1> QED
  BY <1>1, <1>6, <1>7, Zenon DEF ComplaintSent

\* VerifyAndComplain makes the members without a contribution bad.
LEMMA VerifyAndComplainV ==
  ASSUME IInv, Complained, NEW p \in Member, VerifyAndComplain(p)
  PROVE  Complained'
<1>1. ComplaintSent(p)
  BY VerifyAndComplainFacts, Zenon
<1>2. \A q \in Member : /\ node'[q].contributions = node[q].contributions
                        /\ node'[q].complaints = node[q].complaints
                        /\ node'[q].votes = node[q].votes /\ node'[q].open = node[q].open
                        /\ node'[q].justifications = node[q].justifications
                        /\ db'[q].vvec = db[q].vvec
                        /\ node'[q].bad = node[q].bad \cup (IF q = p THEN Missing(p) ELSE {})
  BY <1>1, Zenon DEF ComplaintSent, MarkedBad
<1>3. \A q \in Member : /\ Twice(q)' = Twice(q) /\ Missing(q)' = Missing(q)
                        /\ \A m \in Member : /\ Voters(q, m)' = Voters(q, m)
                                             /\ Complainers(q, m)' = Complainers(q, m)
  BY <1>2, Zenon DEF Twice, Missing, Voters, Complainers
<1>4. OneEach'
  <2>1. PICK complain : \/ sent' = sent
          \/ sent' = sent \cup {[from |-> p, bad |-> node'[p].bad, complain |-> complain]}
    BY <1>1, Zenon DEF ComplaintSent
  <2> DEFINE msg == [from |-> p, bad |-> node'[p].bad, complain |-> complain]
  <2>2. msg.from = p
    BY Zenon
  <2> HIDE DEF msg
  <2>3. \A a \in sent : a.from \in started /\ a.from # p
    BY <1>1 DEF Complained, OneEach, ComplaintSent
  <2>4. started' = started \cup {p}
    BY <1>1, Zenon DEF ComplaintSent
  <2>5. \A a, b \in sent : a.from = b.from => a = b
    BY Zenon DEF Complained, OneEach
  <2> QED  BY <2>1, <2>2, <2>3, <2>4, <2>5, Zenon DEF OneEach, msg
<1>5. VvecReceived'
  BY <1>2 DEF Complained, VvecReceived
<1>6. ASSUME NEW q \in Member
      PROVE  node'[q].bad = Twice(q)' \cup (IF q \in started' THEN Missing(q)' ELSE {})
  <2>1. node[q].bad = Twice(q) \cup (IF q \in started THEN Missing(q) ELSE {})
    BY Zenon DEF Complained
  <2>2. started' = started \cup {p} /\ p \notin started
    BY <1>1, Zenon DEF ComplaintSent
  <2> QED  BY <1>2, <1>3, <2>1, <2>2, Zenon
<1>7. \A q, m \in Member : /\ node'[q].complaints[m] = From(recv'[q], m)
                           /\ node'[q].votes[m] = Voters(q, m)' /\ node'[q].open[m] = Complainers(q, m)'
                           /\ node'[q].justifications[m] = {}
  <2>1. recv' = recv
    BY <1>1, Zenon DEF ComplaintSent
  <2> QED  BY <1>2, <1>3, <2>1 DEF Complained
<1>8. \A q, r \in Member : node'[q].contributions = node'[r].contributions
  BY <1>2 DEF Complained
<1> QED
  BY <1>4, <1>5, <1>6, <1>7, <1>8, Zenon DEF Complained

\* What ReceiveMessage(CDKGComplaint) does to the data of p, which has no complaint
\* of the member yet.
ComplaintStored(p, msg) ==
  LET m == msg.from
      n == node[p]
  IN /\ \A x \in Member : node'[p].complaints[x] = IF x = m THEN {msg} ELSE n.complaints[x]
     /\ \A x \in Member : node'[p].votes[x] = IF x \in msg.bad THEN n.votes[x] \cup {m} ELSE n.votes[x]
     /\ \A x \in Member : node'[p].open[x] =
          IF x \in msg.complain THEN n.open[x] \cup {m} ELSE n.open[x]
     /\ node'[p].contributions = n.contributions /\ node'[p].bad = n.bad
     /\ node'[p].justifications = n.justifications
     /\ recv'[p] = recv[p] \cup {msg}
     /\ \A q \in Member \ {p} : recv'[q] = recv[q] /\ node'[q] = node[q]

\* ReceiveMessage(CDKGComplaint) stores a complaint in this way.
LEMMA ComplaintReceived ==
  ASSUME FiniteLaws, IInv, Complained, NEW p \in Member, ReceiveComplaint(p)
  PROVE  \E msg \in sent \ recv[p] :
           msg.from \in Member /\ node[p].complaints[msg.from] = {} /\ ComplaintStored(p, msg)
<1> DEFINE n == node[p]
           stored(msg) == [n EXCEPT !.complaints[msg.from] = @ \cup {msg}]
           Add(of, S, m) == [q \in Member |-> IF q \in S THEN of[q] \cup {m} ELSE of[q]]
           added(msg) == [stored(msg) EXCEPT !.votes = Add(@, msg.bad, msg.from),
                                             !.open = Add(@, msg.complain, msg.from)]
<1>1. PICK msg \in Pending(p) :
        /\ recv' = [recv EXCEPT ![p] = @ \cup {msg}]
        /\ node' = [node EXCEPT ![p] =
             IF Cardinality(n.complaints[msg.from]) >= 2 THEN n
             ELSE IF n.complaints[msg.from] # {} THEN MarkBadMember(stored(msg), {msg.from})
             ELSE added(msg)]
  BY Zenon DEF ReceiveComplaint
<1>2. /\ node \in [Member -> MemberData] /\ recv \in [Member -> SUBSET sent]
      /\ msg \in sent \ recv[p] /\ msg \in Complaint
  BY MessageTypes, Zenon DEF ReceiveComplaint, IInv, TypeOK, Pending
<1>3. msg.from \in Member /\ n \in MemberData
  BY <1>2, Zenon DEF Complaint
<1>4. n.complaints[msg.from] = {}
  <2>1. n.complaints[msg.from] = From(recv[p], msg.from)
    BY <1>3 DEF Complained
  <2>2. \A a \in recv[p] : a.from # msg.from
    BY <1>2, Zenon DEF Complained, OneEach
  <2> QED  BY <2>1, <2>2, Zenon DEF From
<1>5. ~(Cardinality(n.complaints[msg.from]) >= 2)
  BY <1>4, AtMostOne, Zenon
<1> HIDE DEF added
<1>6. /\ node'[p] = added(msg) /\ recv'[p] = recv[p] \cup {msg}
      /\ \A q \in Member \ {p} : recv'[q] = recv[q] /\ node'[q] = node[q]
  <2> HIDE DEF n, stored
  <2> QED  BY <1>1, <1>2, <1>4, <1>5, Zenon
<1>7. stored(msg) \in MemberData
  BY <1>2, <1>3, Zenon DEF MemberData
<1>8. /\ \A x \in Member : stored(msg).complaints[x] =
           IF x = msg.from THEN n.complaints[x] \cup {msg} ELSE n.complaints[x]
      /\ stored(msg).contributions = n.contributions /\ stored(msg).bad = n.bad
      /\ stored(msg).votes = n.votes /\ stored(msg).open = n.open
      /\ stored(msg).justifications = n.justifications
  BY <1>3, Zenon DEF MemberData
<1> DEFINE s == stored(msg)
<1>9. /\ added(msg).votes = Add(n.votes, msg.bad, msg.from)
      /\ added(msg).open = Add(n.open, msg.complain, msg.from)
      /\ added(msg).complaints = s.complaints /\ added(msg).contributions = s.contributions
      /\ added(msg).bad = s.bad /\ added(msg).justifications = s.justifications
  <2> HIDE DEF Add, n, stored
  <2>1. /\ [s EXCEPT !.votes = Add(@, msg.bad, msg.from), !.open = Add(@, msg.complain, msg.from)].votes
             = Add(s.votes, msg.bad, msg.from)
        /\ [s EXCEPT !.votes = Add(@, msg.bad, msg.from), !.open = Add(@, msg.complain, msg.from)].open
             = Add(s.open, msg.complain, msg.from)
    BY <1>7, Zenon DEF MemberData
  <2> QED  BY <1>7, <1>8, <2>1, Zenon DEF MemberData, added
<1>a. /\ \A x \in Member : added(msg).votes[x] =
           IF x \in msg.bad THEN n.votes[x] \cup {msg.from} ELSE n.votes[x]
      /\ \A x \in Member : added(msg).open[x] =
           IF x \in msg.complain THEN n.open[x] \cup {msg.from} ELSE n.open[x]
  BY <1>9, Zenon
<1>b. \A x \in Member : added(msg).complaints[x] = IF x = msg.from THEN {msg} ELSE n.complaints[x]
  BY <1>4, <1>8, <1>9, Zenon
<1>c. /\ added(msg).contributions = n.contributions /\ added(msg).bad = n.bad
      /\ added(msg).justifications = n.justifications
  BY <1>8, <1>9, Zenon
<1> HIDE DEF stored
<1>d. ComplaintStored(p, msg)
  BY <1>6, <1>a, <1>b, <1>c, Zenon DEF ComplaintStored
<1> QED
  BY <1>2, <1>3, <1>4, <1>d, Zenon

\* ReceiveMessage(CDKGComplaint) counts a complaint of every member once.
LEMMA ReceiveComplaintV ==
  ASSUME FiniteLaws, IInv, Complained, NEW p \in Member, ReceiveComplaint(p)
  PROVE  Complained'
<1>1. PICK msg \in sent \ recv[p] :
        msg.from \in Member /\ node[p].complaints[msg.from] = {} /\ ComplaintStored(p, msg)
  BY ComplaintReceived, Zenon
<1>2. UNCHANGED <<sent, started, db>>
  BY Zenon DEF ReceiveComplaint
<1> DEFINE m == msg.from
<1>3. /\ \A x \in Member : node'[p].complaints[x] = IF x = m THEN {msg} ELSE node[p].complaints[x]
      /\ \A x \in Member : node'[p].votes[x] =
           IF x \in msg.bad THEN node[p].votes[x] \cup {m} ELSE node[p].votes[x]
      /\ \A x \in Member : node'[p].open[x] =
           IF x \in msg.complain THEN node[p].open[x] \cup {m} ELSE node[p].open[x]
      /\ recv'[p] = recv[p] \cup {msg}
  BY <1>1, Zenon DEF ComplaintStored
<1>4. \A q \in Member : /\ node'[q].contributions = node[q].contributions
                        /\ node'[q].bad = node[q].bad
                        /\ node'[q].justifications = node[q].justifications
  BY <1>1, Zenon DEF ComplaintStored
<1>5. \A q \in Member \ {p} : recv'[q] = recv[q] /\ node'[q] = node[q]
  BY <1>1, Zenon DEF ComplaintStored
<1>6. \A q \in Member : Twice(q)' = Twice(q) /\ Missing(q)' = Missing(q)
  BY <1>4 DEF Twice, Missing
<1>7. OneEach' /\ VvecReceived'
  BY <1>2, <1>4 DEF Complained, OneEach, VvecReceived
<1>8. ASSUME NEW q \in Member, NEW x \in Member
      PROVE  /\ node'[q].complaints[x] = From(recv'[q], x)
             /\ node'[q].votes[x] = Voters(q, x)' /\ node'[q].open[x] = Complainers(q, x)'
  <2>1. /\ node[q].complaints[x] = From(recv[q], x)
        /\ node[q].votes[x] = Voters(q, x) /\ node[q].open[x] = Complainers(q, x)
    BY Zenon DEF Complained
  <2>2. CASE q # p
    BY <1>5, <2>1, <2>2, Zenon DEF Voters, Complainers
  <2>3. CASE q = p
    <3>1. node'[p].complaints[x] = From(recv'[p], x)
      BY <1>1, <1>3, <2>1, <2>3 DEF From
    <3>2. Voters(p, x)' = IF x \in msg.bad THEN Voters(p, x) \cup {m} ELSE Voters(p, x)
      BY <1>1, <1>3 DEF Voters
    <3>3. Complainers(p, x)' =
            IF x \in msg.complain THEN Complainers(p, x) \cup {m} ELSE Complainers(p, x)
      BY <1>1, <1>3 DEF Complainers
    <3> QED  BY <1>3, <2>1, <2>3, <3>1, <3>2, <3>3, Zenon
  <2> QED  BY <2>2, <2>3, Zenon
<1>9. /\ \A q, r \in Member : node'[q].contributions = node'[r].contributions
      /\ \A q, x \in Member : node'[q].justifications[x] = {}
  BY <1>4 DEF Complained
<1>a. \A q \in Member : node'[q].bad = Twice(q)' \cup (IF q \in started' THEN Missing(q)' ELSE {})
  BY <1>2, <1>4, <1>6 DEF Complained
<1>b. \A q, x \in Member : /\ node'[q].complaints[x] = From(recv'[q], x)
                           /\ node'[q].votes[x] = Voters(q, x)' /\ node'[q].open[x] = Complainers(q, x)'
                           /\ node'[q].justifications[x] = {}
  BY <1>8, <1>9, Zenon
<1> QED
  BY <1>7, <1>9, <1>a, <1>b, Zenon DEF Complained

-----------------------------------------------------------------------------
\* What VerifyAndJustify does: members with too many votes are bad, and p answers
\* the complaints of the others.
JustificationSent(p) ==
  LET for == Complainers(p, p) \ node'[p].bad
  IN /\ phase = "justify" /\ p \notin started /\ started' = started \cup {p}
     /\ MarkedBad(node'[p], node[p], Voted(p))
     /\ \/ sent' = sent /\ (for = {} \/ simulated[p] # {})
        \/ \E wrong : /\ wrong = {} \/ simulated[p] # {}
                      /\ sent' = sent \cup {[from |-> p, session |-> session[p],
                                            for |-> for, wrong |-> wrong]}
     /\ \A q \in Member \ {p} : node'[q] = node[q]
     /\ UNCHANGED <<recv, db, session>>

\* VerifyAndJustify and SendJustification send such a justification, at most.
LEMMA VerifyAndJustifyFacts ==
  ASSUME FiniteLaws, IInv, Justified, NEW p \in Member, VerifyAndJustify(p)
  PROVE  JustificationSent(p)
<1> DEFINE n == node[p]
           voted == {m \in Member \ n.bad : Cardinality(n.votes[m]) >= BadVotes}
           multiple == {m \in Member \ (n.bad \cup voted) : Cardinality(n.complaints[m]) > 1}
           for == {m \in Member \ (n.bad \cup voted \cup multiple) :
                     \E qc \in n.complaints[m] : p \in qc.complain}
           u == MarkBadMember(n, voted \cup multiple)
<1>1. /\ phase = "justify" /\ p \notin started /\ started' = started \cup {p}
      /\ node' = [node EXCEPT ![p] = u]
      /\ IF for = {} THEN UNCHANGED sent ELSE SendJustification(p, for)
      /\ UNCHANGED <<recv, db, session>>
  BY Zenon DEF VerifyAndJustify
<1>2. node \in [Member -> MemberData] /\ n \in MemberData
  BY Zenon DEF IInv, TypeOK
<1>3. multiple = {}
  <2>1. \A m \in Member : \A a, b \in n.complaints[m] : a = b
    BY Zenon DEF Justified
  <2>2. \A m \in Member : ~(Cardinality(n.complaints[m]) > 1)
    BY <2>1, AtMostOne, Zenon
  <2> QED  BY <2>2, Zenon
<1>4. n.bad \cup (voted \cup multiple) = n.bad \cup Voted(p)
  BY <1>3, Zenon DEF Voted
<1>5. MarkedBad(u, n, voted \cup multiple)
  BY <1>2, MarkBadFields, Zenon
<1> HIDE DEF u, voted, multiple
<1>6. node'[p] = u /\ \A q \in Member \ {p} : node'[q] = node[q]
  BY <1>1, <1>2, Zenon
<1>7. MarkedBad(node'[p], n, Voted(p))
  BY <1>4, <1>5, <1>6, Zenon DEF MarkedBad
<1>8. for = Complainers(p, p) \ node'[p].bad
  BY <1>4, <1>7, Zenon DEF MarkedBad, Complainers
<1> HIDE DEF for
<1>9. \/ sent' = sent /\ (for = {} \/ simulated[p] # {})
      \/ \E wrong : /\ wrong = {} \/ simulated[p] # {}
                    /\ sent' = sent \cup {[from |-> p, session |-> session[p],
                                          for |-> for, wrong |-> wrong]}
  <2>1. CASE for = {}
    BY <1>1, <2>1, Zenon
  <2>2. CASE for # {}
    <3>1. PICK omit \in ShouldSimulateError(p, "justify-omit"),
               wrong \in LiedTo(p, "justify-lie", for) :
            sent' = IF omit THEN sent
                    ELSE sent \cup {[from |-> p, session |-> session[p], for |-> for, wrong |-> wrong]}
      BY <1>1, <2>2, Zenon DEF SendJustification
    <3>2. /\ omit => simulated[p] # {}
          /\ wrong = {} \/ simulated[p] # {}
      BY Zenon DEF ShouldSimulateError, LiedTo
    <3>3. omit \in BOOLEAN
      BY Zenon DEF ShouldSimulateError
    <3> QED  BY <3>1, <3>2, <3>3, Zenon
  <2> QED  BY <2>1, <2>2, Zenon
<1> QED
  BY <1>1, <1>6, <1>7, <1>8, <1>9, Zenon DEF JustificationSent

\* VerifyAndJustify makes the members with too many votes bad, now or later than
\* the justifications of the others arrive.
LEMMA VerifyAndJustifyV ==
  ASSUME FiniteLaws, IInv, Justified, NEW p \in Member, VerifyAndJustify(p)
  PROVE  Justified'
<1>1. JustificationSent(p)
  BY VerifyAndJustifyFacts, Zenon
<1>2. \A q \in Member : /\ node'[q].contributions = node[q].contributions
                        /\ node'[q].complaints = node[q].complaints
                        /\ node'[q].votes = node[q].votes /\ node'[q].open = node[q].open
                        /\ node'[q].justifications = node[q].justifications
                        /\ node'[q].bad = node[q].bad \cup (IF q = p THEN Voted(p) ELSE {})
  BY <1>1, Zenon DEF JustificationSent, MarkedBad
<1>3. UNCHANGED <<recv, db>> /\ started' = started \cup {p} /\ p \notin started
  BY <1>1, Zenon DEF JustificationSent
<1>4. \A q \in Member : /\ Twice(q)' = Twice(q) /\ Missing(q)' = Missing(q)
                        /\ Voted(q)' = Voted(q)
                        /\ \A m \in Member : Complainers(q, m)' = Complainers(q, m)
  BY <1>2, Zenon DEF Twice, Missing, Voted, Complainers
<1>5. /\ \A q : Wrong(q)' = Wrong(q)
      /\ \A q, msg : Good(q, msg)' = Good(q, msg)
  BY <1>3, Zenon DEF Wrong, Good
<1>6. OneEach' /\ \A msg \in sent' : msg.for \subseteq Complainers(msg.from, msg.from)'
  <2> DEFINE for == Complainers(p, p) \ node'[p].bad
             new(wrong) == [from |-> p, session |-> session[p], for |-> for, wrong |-> wrong]
  <2>1. PICK wrong : sent' = sent \/ sent' = sent \cup {new(wrong)}
    BY <1>1, Zenon DEF JustificationSent
  <2>2. new(wrong).from = p /\ new(wrong).for \subseteq Complainers(p, p)
    BY Zenon
  <2> HIDE DEF new
  <2>3. \A a \in sent : /\ a.from \in started /\ a.from # p /\ a.from \in Member
                        /\ a.for \subseteq Complainers(a.from, a.from)
    <3>1. sent \subseteq Justification
      BY <1>1, MessageTypes, Zenon DEF IInv, TypeOK, JustificationSent
    <3>2. \A a \in sent : a.from \in Member
      BY <3>1, Zenon DEF Justification
    <3> QED  BY <1>3, <3>2 DEF Justified, OneEach
  <2>4. \A a, b \in sent : a.from = b.from => a = b
    BY Zenon DEF Justified, OneEach
  <2>5. OneEach'
    BY <1>3, <2>1, <2>2, <2>3, <2>4, Zenon DEF OneEach
  <2>6. \A msg \in sent' : msg.for \subseteq Complainers(msg.from, msg.from)'
    <3>1. \A x \in Member : Complainers(x, x)' = Complainers(x, x)
      BY <1>4, Zenon
    <3>2. \A msg \in sent : msg.for \subseteq Complainers(msg.from, msg.from)'
      BY <2>3, <3>1, Zenon
    <3>3. ASSUME NEW k, k = new(wrong)
          PROVE  k.for \subseteq Complainers(k.from, k.from)'
      <4>1. k.from = p /\ k.for \subseteq Complainers(p, p)'
        BY <2>2, <3>1, <3>3, Zenon
      <4> QED  BY <4>1, Zenon
    <3> QED  BY <2>1, <3>2, <3>3, Zenon
  <2> QED  BY <2>5, <2>6, Zenon
<1>7. /\ VvecReceived'
      /\ \A q, r \in Member : /\ node'[q].contributions = node'[r].contributions
                              /\ node'[q].complaints = node'[r].complaints
                              /\ node'[q].votes = node'[r].votes
  BY <1>2, <1>3 DEF Justified, VvecReceived
<1>8. ASSUME NEW q \in Member
      PROVE  node'[q].bad = Twice(q)' \cup Missing(q)' \cup (IF q \in started' THEN Voted(q)' ELSE {})
                              \cup {msg.from : msg \in Wrong(q)'}
  <2>1. node[q].bad = Twice(q) \cup Missing(q) \cup (IF q \in started THEN Voted(q) ELSE {})
                        \cup {msg.from : msg \in Wrong(q)}
    BY Zenon DEF Justified
  <2> QED  BY <1>2, <1>3, <1>4, <1>5, <2>1, Zenon
<1>9. ASSUME NEW q \in Member, NEW m \in Member
      PROVE  /\ \A a, b \in node'[q].complaints[m] : a = b
             /\ node'[q].justifications[m] = From(recv'[q], m)
             /\ m \notin node'[q].bad =>
                  node'[q].open[m] = Unanswered(q, m)'
  <2>1. Unanswered(q, m)' = Unanswered(q, m)
    BY <1>3, <1>4, <1>5, Zenon DEF Unanswered
  <2> QED  BY <1>2, <1>3, <2>1 DEF Justified
<1> QED
  BY <1>6, <1>7, <1>8, <1>9, Zenon DEF Justified

-----------------------------------------------------------------------------
\* What ReceiveMessage(CDKGJustification) does with the only justification of its
\* sender: it closes the complaints it answers, and a wrong answer makes the
\* sender bad.
JustificationStored(p, msg) ==
  LET n == node[p]  u == node'[p]  m == msg.from
  IN /\ phase = "justify" /\ msg \in sent /\ msg \notin recv[p] /\ m \in Member
     /\ \A q \in Member : recv'[q] = IF q = p THEN recv[q] \cup {msg} ELSE recv[q]
     /\ u.contributions = n.contributions /\ u.complaints = n.complaints /\ u.votes = n.votes
     /\ \A x \in Member :
          u.justifications[x] = IF x = m THEN n.justifications[x] \cup {msg} ELSE n.justifications[x]
     /\ u.bad = n.bad \cup (IF Good(p, msg) = msg.for THEN {} ELSE {m})
     /\ \A x \in Member : x \notin u.bad =>
          u.open[x] = IF x = m THEN n.open[x] \ Good(p, msg) ELSE n.open[x]
     /\ \A q \in Member \ {p} : node'[q] = node[q]
     /\ \A q \in Member : db'[q].vvec = db[q].vvec
     /\ UNCHANGED <<started, sent, session>>

\* ReceiveMessage(CDKGJustification) stores a justification in this way: nobody
\* answers a complaint that the others did not see.
LEMMA ReceiveJustificationFacts ==
  ASSUME FiniteLaws, IInv, Justified, NEW p \in Member, ReceiveJustification(p)
  PROVE  \E msg : JustificationStored(p, msg)
<1>1. PICK msg \in Pending(p) :
        LET m == msg.from
            n == node[p]
            stored == [n EXCEPT !.justifications[m] = @ \cup {msg}]
            good == {q \in msg.for : q \notin msg.wrong /\ msg.session = db[p].vvec[m]}
            useful == n.justifications[m] = {} /\ m \notin n.bad
                        /\ msg.for \subseteq n.open[m]
        IN /\ recv' = [recv EXCEPT ![p] = @ \cup {msg}]
           /\ node' = [node EXCEPT ![p] =
                IF Cardinality(n.justifications[m]) >= 2 THEN n
                ELSE IF useful
                THEN [stored EXCEPT !.open[m] = @ \ good,
                                    !.weComplain = IF p \in good THEN @ \ {m} ELSE @,
                                    !.bad = IF good = msg.for THEN @ ELSE @ \cup {m}]
                ELSE MarkBadMember(stored, {m})]
           /\ db' = IF useful /\ p \in good
                    THEN [db EXCEPT ![p].sk[m] = msg.session] ELSE db
  BY Zenon DEF ReceiveJustification
<1> DEFINE m == msg.from
           n == node[p]
           g == Good(p, msg)
           stored == [n EXCEPT !.justifications[m] = @ \cup {msg}]
           useful == n.justifications[m] = {} /\ m \notin n.bad /\ msg.for \subseteq n.open[m]
           closed == [stored EXCEPT !.open[m] = @ \ g,
                                    !.weComplain = IF p \in g THEN @ \ {m} ELSE @,
                                    !.bad = IF g = msg.for THEN @ ELSE @ \cup {m}]
           marked == MarkBadMember(stored, {m})
<1>2. /\ phase = "justify" /\ msg \in sent /\ msg \notin recv[p]
      /\ UNCHANGED <<started, sent, session>>
  BY Zenon DEF ReceiveJustification, Pending
<1>3. msg \in Justification /\ m \in Member
  <2>1. sent \subseteq Justification
    BY <1>2, MessageTypes, Zenon DEF IInv, TypeOK
  <2> QED  BY <1>2, <2>1, Zenon DEF Justification
<1>4. /\ node \in [Member -> MemberData] /\ n \in MemberData
      /\ recv \in [Member -> SUBSET sent]
  BY Zenon DEF IInv, TypeOK
<1>5. n.justifications[m] = {}
  <2>1. n.justifications[m] = From(recv[p], m)
    BY <1>3, Zenon DEF Justified
  <2>2. \A a \in recv[p] : a.from # m
    BY <1>2, <1>4, Zenon DEF Justified, OneEach
  <2> QED  BY <2>1, <2>2, Zenon DEF From
<1>6. ~(Cardinality(n.justifications[m]) >= 2)
  BY <1>5, EmptyFinite
<1>7. m \notin n.bad => msg.for \subseteq n.open[m]
  <2>1. m \notin n.bad => n.open[m] = Unanswered(p, m)
    BY <1>3, Zenon DEF Justified
  <2>2. From(recv[p], m) = {}
    BY <1>3, <1>5, Zenon DEF Justified
  <2>3. n.complaints = node[m].complaints
    BY <1>3, Zenon DEF Justified
  <2>4. Complainers(p, m) = Complainers(m, m)
    BY <2>3, Zenon DEF Complainers
  <2>5. msg.for \subseteq Complainers(m, m)
    BY <1>2, Zenon DEF Justified
  <2>6. Unanswered(p, m) = Complainers(p, m)
    BY <2>2, Zenon DEF Unanswered
  <2> QED  BY <2>1, <2>4, <2>5, <2>6, Zenon
<1>8. /\ recv' = [recv EXCEPT ![p] = @ \cup {msg}]
      /\ node' = [node EXCEPT ![p] = IF m \notin n.bad THEN closed ELSE marked]
      /\ db' = db \/ db' = [db EXCEPT ![p].sk[m] = msg.session]
  BY <1>1, <1>5, <1>6, <1>7, Zenon DEF Good
<1>9. stored \in MemberData
  BY <1>3, <1>4, Zenon DEF MemberData
<1>10. /\ \A x \in Member : stored.justifications[x] =
            IF x = m THEN n.justifications[x] \cup {msg} ELSE n.justifications[x]
       /\ stored.contributions = n.contributions /\ stored.complaints = n.complaints
       /\ stored.votes = n.votes /\ stored.open = n.open /\ stored.bad = n.bad
  BY <1>3, <1>4, Zenon DEF MemberData
<1> HIDE DEF stored, g
<1>11. /\ closed.justifications = stored.justifications
       /\ closed.contributions = stored.contributions /\ closed.complaints = stored.complaints
       /\ closed.votes = stored.votes
       /\ closed.bad = IF g = msg.for THEN stored.bad ELSE stored.bad \cup {m}
  BY <1>3, <1>9, Zenon DEF MemberData
<1>12. \A x \in Member : closed.open[x] = IF x = m THEN stored.open[x] \ g ELSE stored.open[x]
  BY <1>3, <1>9, Zenon DEF MemberData
<1>13. MarkedBad(marked, stored, {m})
  BY <1>9, MarkBadFields, Zenon
<1> HIDE DEF closed, marked
<1>14. /\ \A q \in Member : recv'[q] = IF q = p THEN recv[q] \cup {msg} ELSE recv[q]
       /\ \A q \in Member \ {p} : node'[q] = node[q]
       /\ node'[p] = IF m \notin n.bad THEN closed ELSE marked
  <2> HIDE DEF m, n
  <2> QED  BY <1>4, <1>8, Zenon
<1>15. \A q \in Member : db'[q].vvec = db[q].vvec
  <2>1. db \in [Member -> [vvec : [Member -> 0..2], sk : [Member -> 0..2]]]
    BY Zenon DEF IInv, TypeOK
  <2> HIDE DEF m
  <2>2. CASE db' = db
    BY <2>2, Zenon
  <2>3. CASE db' = [db EXCEPT ![p].sk[m] = msg.session]
    <3> SUFFICES ASSUME NEW q \in Member PROVE db'[q].vvec = db[q].vvec
      BY Zenon
    <3>1. DOMAIN db = Member
      BY <2>1, Zenon
    <3> QED  BY <2>1, <2>3, <3>1, SMTT(30)
  <2> QED  BY <1>8, <2>2, <2>3, Zenon
<1>16. CASE m \notin n.bad
  <2>1. node'[p] = closed
    BY <1>14, <1>16, Zenon
  <2> HIDE DEF n, m
  <2>2. /\ node'[p].bad = n.bad \cup (IF g = msg.for THEN {} ELSE {m})
        /\ node'[p].contributions = n.contributions /\ node'[p].complaints = n.complaints
        /\ node'[p].votes = n.votes /\ node'[p].justifications = stored.justifications
    BY <1>10, <1>11, <2>1, Zenon
  <2>3. \A x \in Member : node'[p].open[x] = IF x = m THEN n.open[x] \ g ELSE n.open[x]
    BY <1>10, <1>12, <2>1, Zenon
  <2>4. \A x \in Member : node'[p].justifications[x] =
          IF x = m THEN n.justifications[x] \cup {msg} ELSE n.justifications[x]
    BY <1>10, <2>2, Zenon
  <2> QED  BY <1>2, <1>3, <1>14, <1>15, <2>2, <2>3, <2>4, Zenon DEF JustificationStored, n, m, g
<1>17. CASE m \in n.bad
  <2>1. node'[p] = marked
    BY <1>14, <1>17, Zenon
  <2> HIDE DEF n, m
  <2>2. /\ node'[p].bad = n.bad \cup (IF g = msg.for THEN {} ELSE {m})
        /\ node'[p].contributions = n.contributions /\ node'[p].complaints = n.complaints
        /\ node'[p].votes = n.votes /\ node'[p].justifications = stored.justifications
        /\ node'[p].open = n.open
    BY <1>10, <1>13, <1>17, <2>1, Zenon DEF MarkedBad
  <2>3. \A x \in Member : x \notin node'[p].bad =>
          node'[p].open[x] = IF x = m THEN n.open[x] \ g ELSE n.open[x]
    BY <1>17, <2>2, Zenon
  <2>4. \A x \in Member : node'[p].justifications[x] =
          IF x = m THEN n.justifications[x] \cup {msg} ELSE n.justifications[x]
    BY <1>10, <2>2, Zenon
  <2> QED  BY <1>2, <1>3, <1>14, <1>15, <2>2, <2>3, <2>4, Zenon DEF JustificationStored, n, m, g
<1> QED
  BY <1>16, <1>17, Zenon

\* ReceiveMessage(CDKGJustification) closes the complaints the message answers.
LEMMA ReceiveJustificationV ==
  ASSUME FiniteLaws, IInv, Justified, NEW p \in Member, ReceiveJustification(p)
  PROVE  Justified'
<1>1. PICK msg : JustificationStored(p, msg)
  BY ReceiveJustificationFacts, Zenon
<1> DEFINE m == msg.from
           g == Good(p, msg)
<1>2. /\ \A q \in Member : recv'[q] = IF q = p THEN recv[q] \cup {msg} ELSE recv[q]
      /\ \A q \in Member : db'[q].vvec = db[q].vvec
      /\ msg \in sent /\ m \in Member /\ UNCHANGED <<started, sent>>
  BY <1>1, Zenon DEF JustificationStored
<1>3. \A q \in Member : /\ node'[q].contributions = node[q].contributions
                        /\ node'[q].complaints = node[q].complaints
                        /\ node'[q].votes = node[q].votes
                        /\ q # p => node'[q] = node[q]
  BY <1>1, Zenon DEF JustificationStored
<1>4. /\ node'[p].bad = node[p].bad \cup (IF g = msg.for THEN {} ELSE {m})
      /\ \A x \in Member : /\ node'[p].justifications[x] =
                                IF x = m THEN node[p].justifications[x] \cup {msg}
                                ELSE node[p].justifications[x]
                           /\ x \notin node'[p].bad =>
                                node'[p].open[x] = IF x = m THEN node[p].open[x] \ g
                                                   ELSE node[p].open[x]
  BY <1>1, Zenon DEF JustificationStored
<1>5. \A q \in Member : /\ Twice(q)' = Twice(q) /\ Missing(q)' = Missing(q)
                        /\ Voted(q)' = Voted(q)
                        /\ \A x \in Member : Complainers(q, x)' = Complainers(q, x)
  BY <1>3, Zenon DEF Twice, Missing, Voted, Complainers
<1>6. \A q \in Member : \A k : Good(q, k)' = Good(q, k)
  BY <1>2, Zenon DEF Good
<1>7. \A q \in Member \ {p} : Wrong(q)' = Wrong(q)
  BY <1>2, <1>6, Zenon DEF Wrong
<1>8. Wrong(p)' = Wrong(p) \cup (IF g = msg.for THEN {} ELSE {msg})
  <2> HIDE DEF m
  <2> QED  BY <1>2, <1>6, Zenon DEF Wrong
<1> HIDE DEF g
<1>9. {k.from : k \in Wrong(p)'} = {k.from : k \in Wrong(p)} \cup (IF g = msg.for THEN {} ELSE {m})
  BY <1>8, Zenon
<1>10. /\ OneEach'
       /\ \A k \in sent' : k.for \subseteq Complainers(k.from, k.from)'
  <2>1. sent \subseteq Justification
    BY <1>1, MessageTypes, Zenon DEF IInv, TypeOK, JustificationStored
  <2>2. \A k \in sent : k.from \in Member
    BY <2>1 DEF Justification
  <2>3. OneEach /\ \A k \in sent : k.for \subseteq Complainers(k.from, k.from)
    BY Zenon DEF Justified
  <2>4. OneEach'
    BY <1>2, <2>3, Zenon DEF OneEach
  <2>5. \A k \in sent : k.for \subseteq Complainers(k.from, k.from)'
    BY <1>5, <2>2, <2>3, Zenon
  <2> QED  BY <1>2, <2>4, <2>5, Zenon
<1>11. /\ VvecReceived'
       /\ \A q, r \in Member : /\ node'[q].contributions = node'[r].contributions
                               /\ node'[q].complaints = node'[r].complaints
                               /\ node'[q].votes = node'[r].votes
  BY <1>2, <1>3 DEF Justified, VvecReceived
<1>12. ASSUME NEW q \in Member
       PROVE  node'[q].bad = Twice(q)' \cup Missing(q)' \cup (IF q \in started' THEN Voted(q)' ELSE {})
                               \cup {k.from : k \in Wrong(q)'}
  <2>1. node[q].bad = Twice(q) \cup Missing(q) \cup (IF q \in started THEN Voted(q) ELSE {})
                        \cup {k.from : k \in Wrong(q)}
    BY DEF Justified
  <2>2. CASE q = p
    BY <1>2, <1>4, <1>5, <1>9, <2>1, <2>2, Zenon
  <2>3. CASE q # p
    BY <1>2, <1>3, <1>5, <1>7, <2>1, <2>3, Zenon
  <2> QED  BY <2>2, <2>3, Zenon
<1>13. ASSUME NEW q \in Member, NEW x \in Member
       PROVE  /\ \A a, b \in node'[q].complaints[x] : a = b
              /\ node'[q].justifications[x] = From(recv'[q], x)
              /\ x \notin node'[q].bad =>
                   node'[q].open[x] = Unanswered(q, x)'
  <2>1. /\ \A a, b \in node[q].complaints[x] : a = b
        /\ node[q].justifications[x] = From(recv[q], x)
        /\ x \notin node[q].bad => node[q].open[x] = Unanswered(q, x)
    BY Zenon DEF Justified
  <2>2. \A y : y \in Unanswered(q, x)' <=>
          y \in Complainers(q, x) /\ \A k \in From(recv'[q], x) : y \notin Good(q, k)
    BY <1>5, <1>6, Zenon DEF Unanswered
  <2>3. \A y : y \in Unanswered(q, x) <=>
          y \in Complainers(q, x) /\ \A k \in From(recv[q], x) : y \notin Good(q, k)
    BY Zenon DEF Unanswered
  <2>4. CASE q # p \/ x # m
    <3>1. From(recv'[q], x) = From(recv[q], x)
      BY <1>2, <2>4, Zenon DEF From
    <3>2. Unanswered(q, x)' = Unanswered(q, x)
      BY <2>2, <2>3, <3>1, Zenon
    <3>3. CASE q # p
      BY <1>3, <2>1, <3>1, <3>2, <3>3, Zenon
    <3>4. CASE q = p /\ x # m
      <4>1. node'[q].justifications[x] = node[q].justifications[x]
        BY <1>4, <3>4, Zenon
      <4>2. x \notin node'[q].bad => x \notin node[q].bad /\ node'[q].open[x] = node[q].open[x]
        BY <1>4, <3>4, Zenon
      <4> QED  BY <1>3, <2>1, <3>1, <3>2, <4>1, <4>2, Zenon
    <3> QED  BY <2>4, <3>3, <3>4, Zenon
  <2>5. CASE q = p /\ x = m
    <3>1. From(recv'[q], x) = From(recv[q], x) \cup {msg}
      BY <1>2, <2>5, Zenon DEF From
    <3>2. Unanswered(q, x)' = Unanswered(q, x) \ Good(q, msg)
      BY <2>2, <2>3, <3>1, Zenon
    <3>3. node'[q].justifications[x] = node[q].justifications[x] \cup {msg}
      BY <1>4, <2>5, Zenon
    <3>4. /\ x \notin node'[q].bad => x \notin node[q].bad
          /\ x \notin node'[q].bad => node'[q].open[x] = node[q].open[x] \ Good(q, msg)
      BY <1>4, <2>5, Zenon DEF g
    <3> HIDE DEF m
    <3> QED  BY <1>3, <2>1, <3>1, <3>2, <3>3, <3>4, Zenon
  <2> QED  BY <2>4, <2>5, Zenon
<1> QED
  BY <1>10, <1>11, <1>12, <1>13, Zenon DEF Justified

-----------------------------------------------------------------------------
\* VerifyAndCommit makes the members with an open complaint bad: the verdict of p
\* was all along the one it now acts on.
LEMMA VerifyAndCommitV ==
  ASSUME IInv, Judged, NEW p \in Member, VerifyAndCommit(p)
  PROVE  Judged'
<1> DEFINE S == {m \in Member : node[p].open[m] # {}}
           u == MarkBadMember(node[p], S)
<1>1. /\ phase = "commit" /\ UNCHANGED phase /\ started' = started \cup {p}
      /\ node' = [node EXCEPT ![p] = u]
  BY Zenon DEF VerifyAndCommit
<1>2. node \in [Member -> MemberData] /\ node[p] \in MemberData
  BY Zenon DEF IInv, TypeOK
<1>3. MarkedBad(u, node[p], S)
  BY <1>2, MarkBadFields, Zenon
<1> HIDE DEF u
<1>4. node'[p] = u /\ \A q \in Member \ {p} : node'[q] = node[q]
  BY <1>1, <1>2, Zenon
<1>5. node'[p].open = node[p].open /\ node'[p].bad = Verdict(p)
  BY <1>3, <1>4, Zenon DEF MarkedBad, Verdict
<1>6. \A q \in Member : Verdict(q)' = Verdict(q)
  <2>1. Verdict(p)' = Verdict(p)
    BY <1>5, Zenon DEF Verdict
  <2>2. \A q \in Member \ {p} : Verdict(q)' = Verdict(q)
    BY <1>4, Zenon DEF Verdict
  <2> QED  BY <2>1, <2>2, Zenon
<1>7. \A q \in Member : phase' = "finalize" \/ q \in started' => node'[q].bad = Verdict(q)
  BY <1>1, <1>4, <1>5, Zenon DEF Judged
<1> QED
  BY <1>6, <1>7, Zenon DEF Judged

\* ReceiveMessage(CDKGPrematureCommitment) and FinalizeCommitments judge nobody.
LEMMA CommitmentsOnly ==
  ASSUME IInv, NEW p \in Member, ReceiveCommitment(p) \/ FinalizeCommitments(p)
  PROVE  \A q \in Member : node'[q].bad = node[q].bad /\ node'[q].open = node[q].open
<1>0. node \in [Member -> MemberData]
  BY Zenon DEF IInv, TypeOK
<1>1. CASE ReceiveCommitment(p)
  <2>1. PICK c, v : node' = [node EXCEPT ![p].commitments = c, ![p].validCommitments = v]
    BY <1>1, Zenon DEF ReceiveCommitment
  <2>2. ASSUME NEW q \in Member
        PROVE  node'[q].bad = node[q].bad /\ node'[q].open = node[q].open
    <3>1. node[q] \in MemberData
      BY <1>0, Zenon
    <3> QED  BY <1>0, <2>1, <3>1, Zenon DEF MemberData
  <2> QED  BY <2>2, Zenon
<1>2. CASE FinalizeCommitments(p)
  BY <1>2, Zenon DEF FinalizeCommitments
<1> QED  BY <1>1, <1>2, Zenon

\* They leave the verdict alone.
LEMMA LateV ==
  ASSUME IInv, Judged, NEW p \in Member, ReceiveCommitment(p) \/ FinalizeCommitments(p)
  PROVE  Judged'
<1>2. UNCHANGED phase
  BY Zenon DEF ReceiveCommitment, FinalizeCommitments
<1>3. \A q \in Member : node'[q].bad = node[q].bad /\ node'[q].open = node[q].open
  BY CommitmentsOnly, Zenon
<1>4. \A q \in Member : Verdict(q)' = Verdict(q)
  BY <1>3, Zenon DEF Verdict
<1>5. \A q \in Member : phase' = "finalize" \/ q \in started' => node'[q].bad = Verdict(q)
  <2>1. CASE ReceiveCommitment(p)
    <3>1. UNCHANGED started
      BY <2>1, Zenon DEF ReceiveCommitment
    <3> QED  BY <1>2, <1>3, <3>1, Zenon DEF Judged
  <2>2. CASE FinalizeCommitments(p)
    <3>1. phase = "finalize"
      BY <2>2, Zenon DEF FinalizeCommitments
    <3> QED  BY <1>3, <3>1, Zenon DEF Judged
  <2> QED  BY <2>1, <2>2, Zenon
<1> QED
  BY <1>4, <1>5, Zenon DEF Judged

-----------------------------------------------------------------------------
\* A phase that ends with nothing lost has brought every message to every member.
LEMMA AllArrived ==
  ASSUME FiniteLaws, IInv, NextPhase, lost' = 0
  PROVE  /\ lost = 0 /\ started = Member /\ UNCHANGED <<node, db, session>>
         /\ started' = {} /\ sent' = {}
         /\ \A p \in Member : recv[p] = sent /\ recv'[p] = {}
<1> DEFINE missed == {d \in Member \X sent : d[2] \notin recv[d[1]]}
<1>1. /\ lost' = lost + Cardinality(missed) /\ started = Member
      /\ started' = {} /\ sent' = {} /\ recv' = [p \in Member |-> {}]
      /\ UNCHANGED <<node, db, session>>
  BY Zenon DEF NextPhase
<1>2. lost \in Nat /\ recv \in [Member -> SUBSET sent]
  BY DEF IInv, TypeOK
<1>3. IsFiniteSet(missed) /\ Cardinality(missed) \in Nat
  <2>1. IsFiniteSet(Member \X sent)
    BY DKGAssumption, ProductFinite, Zenon DEF IInv
  <2>2. missed \subseteq Member \X sent
    BY Zenon
  <2>3. IsFiniteSet(missed)
    BY <2>1, <2>2, SubsetFinite, Zenon
  <2> QED  BY <2>3, CardinalityNat, Zenon
<1>4. lost = 0 /\ Cardinality(missed) = 0
  BY <1>1, <1>2, <1>3
<1>5. missed = {}
  BY <1>3, <1>4, EmptyFinite, Zenon
<1>6. ASSUME NEW p \in Member
      PROVE  recv[p] = sent
  <2>1. ASSUME NEW a \in sent
        PROVE  a \in recv[p]
    <3>1. <<p, a>> \notin missed
      BY <1>5, Zenon
    <3> QED  BY <3>1, Zenon
  <2> QED  BY <1>2, <2>1, Zenon
<1> QED
  BY <1>1, <1>4, <1>6, Zenon

\* With all contributions at every member, all members hold the same ones.
LEMMA EndContribute ==
  ASSUME FiniteLaws, IInv, Contributed, NextPhase, lost' = 0
  PROVE  Complained'
<1>1. /\ started = Member /\ UNCHANGED <<node, db>> /\ started' = {} /\ sent' = {}
      /\ \A p \in Member : recv[p] = sent /\ recv'[p] = {}
  BY AllArrived, Zenon
<1>2. node \in [Member -> MemberData]
  BY Zenon DEF IInv, TypeOK
<1>3. ASSUME NEW p \in Member, NEW q \in Member
      PROVE  node[p].contributions = node[q].contributions
  <2>1. /\ node[p].contributions \in [Member -> SUBSET Contribution]
        /\ node[q].contributions \in [Member -> SUBSET Contribution]
    BY <1>2, Zenon DEF MemberData
  <2>2. \A m \in Member : node[p].contributions[m] = node[q].contributions[m]
    BY <1>1 DEF Contributed
  <2> QED  BY <2>1, <2>2
<1>4. OneEach' /\ VvecReceived'
  BY <1>1 DEF OneEach, VvecReceived, Contributed
<1>5. ASSUME NEW p \in Member
      PROVE  node'[p].bad = Twice(p)' \cup (IF p \in started' THEN Missing(p)' ELSE {})
  BY <1>1 DEF Contributed, Twice
<1>6. ASSUME NEW p \in Member, NEW m \in Member
      PROVE  /\ node'[p].complaints[m] = From(recv'[p], m)
             /\ node'[p].votes[m] = Voters(p, m)' /\ node'[p].open[m] = Complainers(p, m)'
             /\ node'[p].justifications[m] = {}
  <2>1. \A x \in Member : /\ node[p].complaints[x] = {} /\ node[p].votes[x] = {}
                          /\ node[p].open[x] = {} /\ node[p].justifications[x] = {}
    BY Zenon DEF Contributed
  <2>2. From(recv'[p], m) = {}
    BY <1>1, Zenon DEF From
  <2>3. Voters(p, m)' = {} /\ Complainers(p, m)' = {}
    BY <1>1, <2>1, Zenon DEF Voters, Complainers
  <2> QED  BY <1>1, <2>1, <2>2, <2>3, Zenon
<1> QED
  BY <1>1, <1>3, <1>4, <1>5, <1>6, Zenon DEF Complained

\* With all complaints at every member, all members hold the same ones.
LEMMA EndComplain ==
  ASSUME FiniteLaws, IInv, Complained, NextPhase, lost' = 0
  PROVE  Justified'
<1>1. /\ started = Member /\ UNCHANGED <<node, db>> /\ started' = {} /\ sent' = {}
      /\ \A p \in Member : recv[p] = sent /\ recv'[p] = {}
  BY AllArrived
<1>2. node \in [Member -> MemberData]
  BY DEF IInv, TypeOK
<1>3. OneEach' /\ VvecReceived' /\ \A msg \in sent' : msg.for \subseteq Complainers(msg.from, msg.from)'
  BY <1>1 DEF OneEach, VvecReceived, Complained
<1>4. ASSUME NEW p \in Member, NEW q \in Member
      PROVE  /\ node[p].contributions = node[q].contributions
             /\ node[p].complaints = node[q].complaints
             /\ node[p].votes = node[q].votes
  <2>1. /\ node[p].complaints \in [Member -> SUBSET Complaint]
        /\ node[q].complaints \in [Member -> SUBSET Complaint]
        /\ node[p].votes \in [Member -> SUBSET Member]
        /\ node[q].votes \in [Member -> SUBSET Member]
    BY <1>2, Zenon DEF MemberData
  <2>2. \A m \in Member : node[p].complaints[m] = node[q].complaints[m]
    BY <1>1 DEF Complained
  <2>3. \A m \in Member : node[p].votes[m] = node[q].votes[m]
    <3>1. \A m \in Member : Voters(p, m) = Voters(q, m)
      BY <2>2, Zenon DEF Voters
    <3>2. \A m \in Member : node[p].votes[m] = Voters(p, m) /\ node[q].votes[m] = Voters(q, m)
      BY Zenon DEF Complained
    <3> QED  BY <3>1, <3>2, Zenon
  <2> QED  BY <2>1, <2>2, <2>3 DEF Complained
<1>5. ASSUME NEW p \in Member
      PROVE  node'[p].bad = Twice(p)' \cup Missing(p)' \cup (IF p \in started' THEN Voted(p)' ELSE {})
                              \cup {msg.from : msg \in Wrong(p)'}
  <2>1. Wrong(p)' = {}
    BY <1>1, Zenon DEF Wrong
  <2>2. node[p].bad = Twice(p) \cup Missing(p)
    BY <1>1, Zenon DEF Complained
  <2>3. Twice(p)' = Twice(p) /\ Missing(p)' = Missing(p)
    BY <1>1, Zenon DEF Twice, Missing
  <2> QED  BY <1>1, <2>1, <2>2, <2>3, Zenon
<1>6. ASSUME NEW p \in Member, NEW m \in Member
      PROVE  /\ \A a, b \in node'[p].complaints[m] : a = b
             /\ node'[p].justifications[m] = From(recv'[p], m)
             /\ m \notin node'[p].bad => node'[p].open[m] = Unanswered(p, m)'
  <2>1. /\ node[p].complaints[m] = From(recv[p], m) /\ node[p].open[m] = Complainers(p, m)
        /\ node[p].justifications[m] = {}
    BY Zenon DEF Complained
  <2>2. From(recv'[p], m) = {}
    BY <1>1 DEF From
  <2>3. \A a, b \in sent : a.from = b.from => a = b
    BY Zenon DEF Complained, OneEach
  <2>4. \A a, b \in node[p].complaints[m] : a = b
    BY <1>1, <2>1, <2>3 DEF From
  <2>5. Complainers(p, m)' = Complainers(p, m)
    BY <1>1, Zenon DEF Complainers
  <2>6. Unanswered(p, m)' = Complainers(p, m)
    BY <2>2, <2>5, Zenon DEF Unanswered
  <2> QED  BY <1>1, <2>1, <2>2, <2>4, <2>6, Zenon
<1> QED
  BY <1>1, <1>3, <1>4, <1>5, <1>6, Zenon DEF Justified

\* A member that sent one contribution has the same verification vector at all
\* members, so that they agree on what its justification is worth.
LEMMA SameWorth ==
  ASSUME Justified, NEW p \in Member, NEW q \in Member, NEW m \in Member,
         m \notin Twice(p) \cup Missing(p), NEW msg, msg.from = m
  PROVE  Good(p, msg) = Good(q, msg)
<1>1. node[p].contributions = node[q].contributions /\ VvecReceived
  BY Zenon DEF Justified
<1>2. node[p].contributions[m] # {} /\ \A a, b \in node[p].contributions[m] : a = b
  BY Zenon DEF Twice, Missing
<1>3. db[p].vvec[m] = db[q].vvec[m]
  BY <1>1, <1>2 DEF VvecReceived
<1> QED
  BY <1>3, Zenon DEF Good

\* With all justifications at every member, whoever is bad or left with an open
\* complaint at one member is so at every other one.
LEMMA SameJudgement ==
  ASSUME Justified, started = Member, \A p \in Member : recv[p] = sent,
         NEW p \in Member, NEW q \in Member, NEW m \in Member, m \in Verdict(p)
  PROVE  m \in Verdict(q)
<1> DEFINE Base(x) == Twice(x) \cup Missing(x) \cup Voted(x)
<1>1. Twice(p) = Twice(q) /\ Missing(p) = Missing(q) /\ Voted(p) = Voted(q)
  BY DEF Justified, Twice, Missing, Voted
<1>2. /\ node[p].bad = Base(p) \cup {msg.from : msg \in Wrong(p)}
      /\ node[q].bad = Base(q) \cup {msg.from : msg \in Wrong(q)}
  BY Zenon DEF Justified
<1>3. CASE m \in Base(p)
  BY <1>1, <1>2, <1>3, Zenon DEF Verdict
<1>4. CASE m \notin Base(p)
  <2>1. \A msg : msg.from = m => Good(p, msg) = Good(q, msg)
    BY <1>4, SameWorth, Zenon
  <2>2. \A msg : msg.from = m => (msg \in Wrong(p) <=> msg \in Wrong(q))
    BY <2>1, Zenon DEF Wrong
  <2>3. m \in node[p].bad <=> m \in node[q].bad
    <3> HIDE DEF Base
    <3> QED  BY <1>1, <1>2, <1>4, <2>2, Zenon DEF Base
  <2>4. CASE m \in node[p].bad
    BY <2>3, <2>4, Zenon DEF Verdict
  <2>5. CASE m \notin node[p].bad
    <3>1. node[p].open[m] = Unanswered(p, m) /\ node[q].open[m] = Unanswered(q, m)
      BY <2>3, <2>5, Zenon DEF Justified
    <3>2. Complainers(p, m) = Complainers(q, m)
      BY DEF Justified, Complainers
    <3>3. \A msg \in From(sent, m) : Good(p, msg) = Good(q, msg)
      BY <2>1, Zenon DEF From
    <3>4. Unanswered(p, m) = Unanswered(q, m)
      BY <3>2, <3>3 DEF Unanswered
    <3>5. node[p].open[m] # {}
      BY <2>5, Zenon DEF Verdict
    <3> QED  BY <3>1, <3>4, <3>5, Zenon DEF Verdict
  <2> QED  BY <2>4, <2>5, Zenon
<1> QED
  BY <1>3, <1>4, Zenon

\* The phase of the justifications ends with one verdict (HandleDKGRound).
LEMMA EndJustify ==
  ASSUME FiniteLaws, IInv, Justified, phase = "justify", NextPhase, lost' = 0
  PROVE  Judged'
<1>1. /\ started = Member /\ UNCHANGED node /\ started' = {}
      /\ \A p \in Member : recv[p] = sent
  BY AllArrived, Zenon
<1>2. phase' = "commit"
  BY Zenon DEF NextPhase
<1>3. \A p \in Member : Verdict(p)' = Verdict(p)
  BY <1>1, Zenon DEF Verdict
<1>4. ASSUME NEW p \in Member, NEW q \in Member
      PROVE  Verdict(p) = Verdict(q)
  <2>1. Verdict(p) \subseteq Member /\ Verdict(q) \subseteq Member
    BY Zenon DEF IInv, TypeOK, MemberData, Verdict
  <2>2. \A m \in Member : m \in Verdict(p) <=> m \in Verdict(q)
    BY <1>1, SameJudgement, Zenon
  <2> QED  BY <2>1, <2>2, Zenon
<1> QED
  BY <1>1, <1>2, <1>3, <1>4, Zenon DEF Judged

\* The phase of the commitments ends with all members having acted on it.
LEMMA EndCommit ==
  ASSUME FiniteLaws, IInv, Judged, phase = "commit", NextPhase, lost' = 0
  PROVE  Judged'
<1>1. started = Member /\ UNCHANGED node
  BY AllArrived, Zenon
<1>2. \A p \in Member : Verdict(p)' = Verdict(p)
  BY <1>1, Zenon DEF Verdict
<1> QED
  BY <1>1, <1>2, Zenon DEF Judged

\* No change of phase breaks the agreement (HandleDKGRound).
LEMMA NextPhaseV ==
  ASSUME FiniteLaws, IInv, VInv, NextPhase
  PROVE  VInv'
<1>1. CASE lost' = 0
  <2>1. lost = 0
    BY <1>1, AllArrived, Zenon
  <2>2. phase \in {"contribute", "complain", "justify", "commit"}
    BY Zenon DEF IInv, TypeOK, Phases, NextPhase
  <2>3. CASE phase = "contribute"
    <3>1. phase' = "complain"
      BY <2>3, Zenon DEF NextPhase
    <3> QED  BY <1>1, <2>3, <3>1, EndContribute, Zenon DEF VInv
  <2>4. CASE phase = "complain"
    <3>1. phase' = "justify"
      BY <2>4, Zenon DEF NextPhase
    <3> QED  BY <1>1, <2>1, <2>4, <3>1, EndComplain, Zenon DEF VInv
  <2>5. CASE phase = "justify"
    <3>1. phase' = "commit"
      BY <2>5, Zenon DEF NextPhase
    <3> QED  BY <1>1, <2>1, <2>5, <3>1, EndJustify, Zenon DEF VInv
  <2>6. CASE phase = "commit"
    <3>1. phase' = "finalize"
      BY <2>6, Zenon DEF NextPhase
    <3> QED  BY <1>1, <2>1, <2>6, <3>1, EndCommit, Zenon DEF VInv
  <2> QED  BY <2>2, <2>3, <2>4, <2>5, <2>6, Zenon
<1>2. CASE lost' # 0
  <2>1. phase' # "contribute"
    BY Zenon DEF IInv, TypeOK, Phases, NextPhase
  <2> QED  BY <1>2, <2>1, Zenon DEF VInv
<1> QED
  BY <1>1, <1>2, Zenon

\* No step of a member or of the network does.
LEMMA NextV ==
  ASSUME FiniteLaws
  PROVE  IInv /\ VInv /\ [Next]_vars => VInv'
<1> SUFFICES ASSUME IInv, VInv, [Next]_vars
             PROVE  VInv'
  BY Zenon
<1>1. ASSUME NEW p \in Member, Contribute(p) \/ Rewind(p) \/ ReceiveContribution(p)
      PROVE  VInv'
  <2>1. phase = "contribute" /\ UNCHANGED phase
    BY <1>1, Zenon DEF Contribute, Rewind, ReceiveContribution
  <2>2. Contributed'
    BY <1>1, <2>1, ContributeV, RewindV, ReceiveContributionV, Zenon DEF VInv
  <2> QED  BY <2>1, <2>2, Zenon DEF VInv
<1>2. ASSUME NEW p \in Member, VerifyAndComplain(p) \/ ReceiveComplaint(p)
      PROVE  VInv'
  <2>1. phase = "complain" /\ UNCHANGED <<phase, lost>>
    BY <1>2, Zenon DEF VerifyAndComplain, ReceiveComplaint
  <2>2. lost = 0 => Complained'
    BY <1>2, <2>1, VerifyAndComplainV, ReceiveComplaintV, Zenon DEF VInv
  <2> QED  BY <2>1, <2>2, Zenon DEF VInv
<1>3. ASSUME NEW p \in Member, VerifyAndJustify(p) \/ ReceiveJustification(p)
      PROVE  VInv'
  <2>1. phase = "justify" /\ UNCHANGED <<phase, lost>>
    BY <1>3, Zenon DEF VerifyAndJustify, ReceiveJustification
  <2>2. lost = 0 => Justified'
    BY <1>3, <2>1, VerifyAndJustifyV, ReceiveJustificationV, Zenon DEF VInv
  <2> QED  BY <2>1, <2>2, Zenon DEF VInv
<1>4. ASSUME NEW p \in Member,
             VerifyAndCommit(p) \/ ReceiveCommitment(p) \/ FinalizeCommitments(p)
      PROVE  VInv'
  <2>1. phase \in {"commit", "finalize"} /\ UNCHANGED <<phase, lost>>
    BY <1>4, Zenon DEF VerifyAndCommit, ReceiveCommitment, FinalizeCommitments
  <2>2. lost = 0 => Judged'
    BY <1>4, <2>1, VerifyAndCommitV, LateV, Zenon DEF VInv
  <2> QED  BY <2>1, <2>2, Zenon DEF VInv
<1>5. CASE NextPhase
  BY <1>5, NextPhaseV, Zenon
<1>6. CASE UNCHANGED vars
  <2>1. UNCHANGED <<phase, started, sent, recv, session, node, db, lost>>
    BY <1>6, Zenon DEF vars
  <2>2. \A p, m : /\ Twice(p)' = Twice(p) /\ Missing(p)' = Missing(p) /\ Voted(p)' = Voted(p)
                 /\ Voters(p, m)' = Voters(p, m) /\ Complainers(p, m)' = Complainers(p, m)
                 /\ Verdict(p)' = Verdict(p) /\ Good(p, m)' = Good(p, m)
    BY <2>1, Zenon DEF Twice, Missing, Voters, Voted, Complainers, Good, Verdict
  <2>3. \A p, m : Wrong(p)' = Wrong(p) /\ Unanswered(p, m)' = Unanswered(p, m)
    BY <2>1, Zenon DEF Good, Wrong, Complainers, Unanswered
  <2>4. (OneEach' <=> OneEach) /\ (VvecReceived' <=> VvecReceived)
    BY <2>1, Zenon DEF OneEach, VvecReceived
  <2>5. Contributed' <=> Contributed
    BY <2>1, <2>2, <2>4, Zenon DEF Contributed
  <2>6. Complained' <=> Complained
    BY <2>1, <2>2, <2>4 DEF Complained
  <2>7. Justified' <=> Justified
    BY <2>1, <2>2, <2>3, <2>4 DEF Justified
  <2>8. Judged' <=> Judged
    BY <2>1, <2>2, Zenon DEF Judged
  <2> QED  BY <2>1, <2>5, <2>6, <2>7, <2>8, Zenon DEF VInv
<1> QED
  BY <1>1, <1>2, <1>3, <1>4, <1>5, <1>6, Zenon DEF Next

-----------------------------------------------------------------------------
\* A new session blames nobody.
LEMMA InitD == Init => DInv
BY Zenon DEF Init, DInv, Honest, Liar

\* An honest member sends a contribution, and no message is ever taken back.
LEMMA ContributionSent ==
  ASSUME NEW p \in Member, NEW ses, SendContributions(p, ses)
  PROVE  sent \subseteq sent' /\ (simulated[p] = {} => \E a \in sent' : a.from = p)
<1>1. PICK omit \in ShouldSimulateError(p, "contribution-omit"),
           wrong \in LiedTo(p, "contribution-lie", Member) :
        sent' = IF omit THEN sent
                ELSE sent \cup {[from |-> p, session |-> ses, wrong |-> wrong]}
  BY Zenon DEF SendContributions
<1>2. omit \in BOOLEAN /\ (simulated[p] = {} => ~omit)
  BY Zenon DEF ShouldSimulateError
<1>3. sent \subseteq sent'
  BY <1>1, <1>2, Zenon
<1>4. ASSUME ~omit PROVE \E a \in sent' : a.from = p
  <2>1. [from |-> p, session |-> ses, wrong |-> wrong] \in sent'
    BY <1>1, <1>4, Zenon
  <2> QED  BY <2>1, Zenon
<1> QED
  BY <1>2, <1>3, <1>4, Zenon

\* SendContributions of an honest member sends its contribution, and a session that
\* is restarted is not one of an honest member.
LEMMA ContributeD ==
  ASSUME IInv, DInv, NEW p \in Member, Contribute(p) \/ Rewind(p) \/ ReceiveContribution(p)
  PROVE  DInv'
<1>1. phase = "contribute" /\ UNCHANGED <<phase, simulated>>
  BY Zenon DEF Contribute, Rewind, ReceiveContribution
<1>2. Honest' = Honest
  BY <1>1, Zenon DEF Honest, Liar
<1> SUFFICES ASSUME NEW q \in Honest
             PROVE  session'[q] = 1 /\ (q \in started' => \E a \in sent' : a.from = q)
  BY <1>1, <1>2, Zenon DEF DInv
<1>3. /\ session[q] = 1 /\ (q \in started => \E a \in sent : a.from = q)
      /\ q \in Member /\ simulated[q] = {} /\ q \notin Rewound
  BY <1>1, Zenon DEF DInv, Honest, Liar
<1>4. CASE Contribute(p)
  <2>1. started' = started \cup {p} /\ UNCHANGED session /\ SendContributions(p, session[p])
    BY <1>4, Zenon DEF Contribute
  <2>2. sent \subseteq sent' /\ (simulated[p] = {} => \E a \in sent' : a.from = p)
    BY <2>1, ContributionSent, Zenon
  <2> QED  BY <1>3, <2>1, <2>2, Zenon
<1>5. CASE Rewind(p)
  <2>1. /\ UNCHANGED started /\ SendContributions(p, 2) /\ p \in Rewound
        /\ session' = [session EXCEPT ![p] = 2]
    BY <1>5, Zenon DEF Rewind
  <2>2. sent \subseteq sent'
    BY <2>1, ContributionSent, Zenon
  <2>3. session'[q] = session[q]
    BY <1>3, <2>1, Zenon DEF IInv, TypeOK
  <2> QED  BY <1>3, <2>1, <2>2, <2>3, Zenon
<1>6. CASE ReceiveContribution(p)
  <2>1. UNCHANGED <<started, session, sent>>
    BY <1>6, Zenon DEF ReceiveContribution
  <2> QED  BY <1>3, <2>1, Zenon
<1> QED
  BY <1>4, <1>5, <1>6, Zenon

\* VerifyAndComplain blames no honest member: it sent one contribution.
LEMMA ComplainD ==
  ASSUME FiniteLaws, IInv, VInv, DInv, NEW p \in Member, VerifyAndComplain(p) \/ ReceiveComplaint(p)
  PROVE  DInv'
<1>1. phase = "complain" /\ UNCHANGED <<phase, simulated, lost, session>>
  BY Zenon DEF VerifyAndComplain, ReceiveComplaint
<1>2. Honest' = Honest
  BY <1>1, Zenon DEF Honest, Liar
<1> SUFFICES ASSUME NEW q \in Honest, lost = 0
             PROVE  Accepted(q)' /\ \A a \in sent' : q \notin a.bad
  BY <1>1, <1>2, Zenon DEF DInv
<1>3. /\ Accepted(q) /\ \A a \in sent : q \notin a.bad
      /\ q \in Member /\ Complained
  BY <1>1, Zenon DEF DInv, Honest, VInv
<1>4. CASE VerifyAndComplain(p)
  <2>1. ComplaintSent(p)
    BY <1>4, VerifyAndComplainFacts, Zenon
  <2>2. \A x \in Member : /\ node'[x].contributions = node[x].contributions
                          /\ db'[x].vvec = db[x].vvec
    BY <2>1, Zenon DEF ComplaintSent, MarkedBad
  <2>3. Accepted(q)'
    BY <1>3, <2>2 DEF Accepted, Twice, Missing
  <2>4. q \notin node'[p].bad
    <3>1. node'[p].bad = node[p].bad \cup Missing(p) /\ p \notin started
      BY <2>1, Zenon DEF ComplaintSent, MarkedBad
    <3>2. node[p].bad = Twice(p) \cup (IF p \in started THEN Missing(p) ELSE {})
      BY <1>3, Zenon DEF Complained
    <3> QED  BY <1>3, <3>1, <3>2, Zenon DEF Accepted
  <2>5. \A a \in sent' : q \notin a.bad
    BY <1>3, <2>1, <2>4 DEF ComplaintSent
  <2> QED  BY <2>3, <2>5, Zenon
<1>5. CASE ReceiveComplaint(p)
  <2>1. PICK msg : ComplaintStored(p, msg)
    BY <1>3, <1>5, ComplaintReceived, Zenon
  <2>2. \A x \in Member : node'[x].contributions = node[x].contributions
    BY <2>1, Zenon DEF ComplaintStored
  <2>3. UNCHANGED <<sent, db>>
    BY <1>5, Zenon DEF ReceiveComplaint
  <2>4. Accepted(q)'
    BY <1>3, <2>2, <2>3 DEF Accepted, Twice, Missing
  <2> QED  BY <1>3, <2>3, <2>4, Zenon
<1> QED
  BY <1>4, <1>5, Zenon

\* VerifyAndJustify of an honest member answers the complaints of all members it has
\* not dropped, with the right shares.
LEMMA JustifyD ==
  ASSUME FiniteLaws, IInv, VInv, DInv, NEW p \in Member, VerifyAndJustify(p) \/ ReceiveJustification(p)
  PROVE  DInv'
<1>1. phase = "justify" /\ UNCHANGED <<phase, simulated, lost, session>>
  BY Zenon DEF VerifyAndJustify, ReceiveJustification
<1>2. Honest' = Honest
  BY <1>1, Zenon DEF Honest, Liar
<1> SUFFICES ASSUME NEW q \in Honest, lost = 0
             PROVE  Accepted(q)' /\ Answered(q)'
  BY <1>1, <1>2, Zenon DEF DInv
<1>3. Accepted(q) /\ Answered(q) /\ q \in Member /\ simulated[q] = {} /\ session[q] = 1 /\ Justified
  BY <1>1, Zenon DEF DInv, Honest, Liar, VInv
<1>4. CASE VerifyAndJustify(p)
  <2>1. JustificationSent(p)
    BY <1>3, <1>4, VerifyAndJustifyFacts, Zenon
  <2>2. \A x \in Member : /\ node'[x].contributions = node[x].contributions
                          /\ node'[x].complaints = node[x].complaints
                          /\ node'[x].votes = node[x].votes
                          /\ node[x].bad \subseteq node'[x].bad
    BY <2>1, Zenon DEF JustificationSent, MarkedBad
  <2>3. Accepted(q)'
    <3>1. UNCHANGED db
      BY <2>1, Zenon DEF JustificationSent
    <3> QED  BY <1>3, <2>2, <3>1 DEF Accepted, Twice, Missing
  <2>4. Complainers(q, q)' = Complainers(q, q)
    BY <1>3, <2>2, Zenon DEF Complainers
  <2> DEFINE for == Complainers(p, p) \ node'[p].bad
             new(wrong) == [from |-> p, session |-> session[p], for |-> for, wrong |-> wrong]
  <2>5. PICK wrong : \/ sent' = sent /\ (for = {} \/ simulated[p] # {})
                     \/ (wrong = {} \/ simulated[p] # {}) /\ sent' = sent \cup {new(wrong)}
    BY <2>1, Zenon DEF JustificationSent
  <2>6. /\ new(wrong).from = p /\ new(wrong).session = session[p]
        /\ new(wrong).for = for /\ new(wrong).wrong = wrong
    BY Zenon
  <2> HIDE DEF new
  <2>7. \A msg \in From(sent', q) : msg.wrong = {} /\ msg.session = 1
    BY <1>3, <2>5, <2>6 DEF Answered, From
  <2>8. From(sent, q) \subseteq From(sent', q)
    BY <2>5, Zenon DEF From
  <2>9. ASSUME q \in started', NEW x \in Complainers(q, q)
        PROVE  x \in node'[q].bad \/ \E msg \in From(sent', q) : x \in msg.for
    <3>1. CASE q # p
      <4>1. q \in started
        BY <2>1, <2>9, <3>1, Zenon DEF JustificationSent
      <4> QED  BY <1>3, <2>2, <2>8, <4>1, Zenon DEF Answered
    <3>2. CASE q = p /\ x \notin node'[q].bad
      <4>1. x \in for
        BY <2>9, <3>2, Zenon
      <4> HIDE DEF for
      <4>2. sent' = sent \cup {new(wrong)}
        BY <1>3, <2>5, <3>2, <4>1, Zenon
      <4>3. new(wrong) \in From(sent', q) /\ x \in new(wrong).for
        BY <2>6, <3>2, <4>1, <4>2, Zenon DEF From
      <4> QED  BY <4>3, Zenon
    <3> QED  BY <3>1, <3>2, Zenon
  <2>10. \A x \in Member : node'[x].votes[q] = {}
    BY <1>3, <2>2, Zenon DEF Answered
  <2> QED  BY <2>3, <2>4, <2>7, <2>9, <2>10, Zenon DEF Answered
<1>5. CASE ReceiveJustification(p)
  <2>1. PICK msg : JustificationStored(p, msg)
    BY <1>3, <1>5, ReceiveJustificationFacts, Zenon
  <2>2. \A x \in Member : /\ node'[x].contributions = node[x].contributions
                          /\ node'[x].complaints = node[x].complaints
                          /\ node'[x].votes = node[x].votes
                          /\ node[x].bad \subseteq node'[x].bad
                          /\ db'[x].vvec = db[x].vvec
    BY <2>1, Zenon DEF JustificationStored
  <2>3. Accepted(q)'
    BY <1>3, <2>2 DEF Accepted, Twice, Missing
  <2>4. Complainers(q, q)' = Complainers(q, q)
    BY <1>3, <2>2, Zenon DEF Complainers
  <2>5. UNCHANGED <<sent, started>>
    BY <2>1, Zenon DEF JustificationStored
  <2>6. Answered(q)'
    BY <1>3, <2>2, <2>4, <2>5, Zenon DEF Answered
  <2> QED  BY <2>3, <2>6, Zenon
<1> QED
  BY <1>4, <1>5, Zenon

\* VerifyAndCommit drops honest members for open complaints only.
LEMMA CommitD ==
  ASSUME IInv, DInv, NEW p \in Member,
         VerifyAndCommit(p) \/ ReceiveCommitment(p) \/ FinalizeCommitments(p)
  PROVE  DInv'
<1>1. phase \in {"commit", "finalize"} /\ UNCHANGED <<phase, simulated, lost, session>>
  BY Zenon DEF VerifyAndCommit, ReceiveCommitment, FinalizeCommitments
<1>2. Honest' = Honest
  BY <1>1, Zenon DEF Honest, Liar
<1> SUFFICES ASSUME NEW q \in Honest, lost = 0
             PROVE  OnlyUnanswered(q)'
  BY <1>1, <1>2, Zenon DEF DInv
<1>3. OnlyUnanswered(q) /\ q \in Member
  BY <1>1, Zenon DEF DInv, Honest
<1>4. \A x \in Member : /\ node'[x].open = node[x].open /\ node[x].bad \subseteq node'[x].bad
                        /\ \A m \in node'[x].bad : m \in node[x].bad \/ node[x].open[m] # {}
  <2>1. node \in [Member -> MemberData] /\ node[p] \in MemberData
    BY Zenon DEF IInv, TypeOK
  <2>2. CASE VerifyAndCommit(p)
    <3> DEFINE S == {m \in Member : node[p].open[m] # {}}
               u == MarkBadMember(node[p], S)
    <3>1. node' = [node EXCEPT ![p] = u]
      BY <2>2, Zenon DEF VerifyAndCommit
    <3>2. MarkedBad(u, node[p], S)
      BY <2>1, MarkBadFields, Zenon
    <3> HIDE DEF u
    <3>3. node'[p] = u /\ \A x \in Member \ {p} : node'[x] = node[x]
      BY <2>1, <3>1, Zenon
    <3> QED  BY <3>2, <3>3, Zenon DEF MarkedBad
  <2>3. CASE ReceiveCommitment(p) \/ FinalizeCommitments(p)
    <3>1. \A x \in Member : node'[x].bad = node[x].bad /\ node'[x].open = node[x].open
      BY <2>3, CommitmentsOnly, Zenon
    <3> QED  BY <3>1, Zenon
  <2> QED  BY <2>2, <2>3, Zenon
<1> QED
  BY <1>3, <1>4, Zenon DEF OnlyUnanswered

\* With all contributions at every member, nobody misses the one of an honest member.
LEMMA EndContributeD ==
  ASSUME FiniteLaws, IInv, Contributed, DInv, phase = "contribute", NextPhase, lost' = 0, NEW q \in Honest
  PROVE  Accepted(q)'
<1>1. /\ started = Member /\ UNCHANGED <<node, db>> /\ \A p \in Member : recv[p] = sent
  BY AllArrived, Zenon
<1>2. q \in Member /\ session[q] = 1 /\ \E a \in sent : a.from = q
  BY <1>1, Zenon DEF DInv, Honest
<1>3. /\ \A a \in sent : a.from = q => a.session = 1
      /\ \A a, b \in sent : a.from = b.from /\ a.session = b.session => a = b
  BY <1>2, Zenon DEF Contributed
<1>4. ASSUME NEW p \in Member
      PROVE  q \notin Twice(p) \cup Missing(p) /\ db[p].vvec[q] = 1
  <2>1. node[p].contributions[q] = From(sent, q)
    BY <1>1, <1>2 DEF Contributed
  <2>2. /\ node[p].contributions[q] # {}
        /\ \A a \in node[p].contributions[q] : a.session = 1
        /\ \A a, b \in node[p].contributions[q] : a = b
    BY <1>2, <1>3, <2>1 DEF From
  <2>3. \E a \in node[p].contributions[q] : db[p].vvec[q] = a.session
    BY <1>2, <2>2, Zenon DEF Contributed, VvecReceived
  <2> QED  BY <2>2, <2>3, Zenon DEF Twice, Missing
<1> QED
  BY <1>1, <1>4 DEF Accepted, Twice, Missing

\* With all complaints at every member, no vote is against an honest member.
LEMMA EndComplainD ==
  ASSUME FiniteLaws, IInv, Complained, DInv, phase = "complain", NextPhase, lost' = 0, NEW q \in Honest
  PROVE  Accepted(q)' /\ Answered(q)'
<1>1. /\ lost = 0 /\ UNCHANGED <<node, db>> /\ started' = {} /\ sent' = {}
      /\ \A p \in Member : recv[p] = sent
  BY AllArrived, Zenon
<1>2. q \in Member /\ Accepted(q) /\ \A a \in sent : q \notin a.bad
  BY <1>1, Zenon DEF DInv, Honest
<1>3. Accepted(q)'
  BY <1>1, <1>2 DEF Accepted, Twice, Missing
<1>4. ASSUME NEW p \in Member PROVE node[p].votes[q] = {}
  <2>1. node[p].votes[q] = Voters(p, q)
    BY <1>2, Zenon DEF Complained
  <2>2. \A x \in Member : node[p].complaints[x] = From(sent, x)
    BY <1>1 DEF Complained
  <2>3. Voters(p, q) = {}
    BY <1>2, <2>2, Zenon DEF Voters, From
  <2> QED  BY <2>1, <2>3, Zenon
<1>5. Answered(q)'
  BY <1>1, <1>4, Zenon DEF Answered, From
<1> QED
  BY <1>3, <1>5, Zenon

\* An honest member is bad at nobody when the justifications are in, and what it
\* left unanswered are complaints of members that it had dropped.
LEMMA EndJustifyD ==
  ASSUME FiniteLaws, IInv, Justified, DInv, BadVotes > 0,
         phase = "justify", NextPhase, lost' = 0, NEW q \in Honest
  PROVE  OnlyUnanswered(q)'
<1>1. /\ lost = 0 /\ started = Member /\ UNCHANGED node
      /\ \A p \in Member : recv[p] = sent
  BY AllArrived, Zenon
<1>2. q \in Member /\ Accepted(q) /\ Answered(q)
  BY <1>1, Zenon DEF DInv, Honest
<1>3. ASSUME NEW p \in Member
      PROVE  q \notin node[p].bad /\ node[p].open[q] \subseteq node[q].bad
  <2>1. \A msg \in From(sent, q) : Good(p, msg) = msg.for
    <3>1. ASSUME NEW msg \in From(sent, q) PROVE Good(p, msg) = msg.for
      <4>1. msg.from = q /\ msg.wrong = {} /\ msg.session = 1 /\ db[p].vvec[q] = 1
        BY <1>2, Zenon DEF Accepted, Answered, From
      <4> QED  BY <4>1, Zenon DEF Good
    <3> QED  BY <3>1, Zenon
  <2>2. q \notin Voted(p)
    <3>1. node[p].votes[q] = {}
      BY <1>2, Zenon DEF Answered
    <3>2. Cardinality(node[p].votes[q]) = 0
      BY <3>1, EmptyFinite, Zenon
    <3> QED  BY <3>2, DKGAssumption DEF Voted
  <2>3. \A msg \in Wrong(p) : msg.from # q
    BY <1>1, <2>1, Zenon DEF Wrong, From
  <2>4. node[p].bad = Twice(p) \cup Missing(p) \cup (IF p \in started THEN Voted(p) ELSE {})
                        \cup {msg.from : msg \in Wrong(p)}
    BY Zenon DEF Justified
  <2>5. q \notin node[p].bad
    BY <1>2, <2>2, <2>3, <2>4, Zenon DEF Accepted
  <2>6. node[p].open[q] = Unanswered(p, q)
    BY <1>2, <2>5, Zenon DEF Justified
  <2>7. Complainers(p, q) = Complainers(q, q)
    <3>1. node[p].complaints = node[q].complaints
      BY <1>2, Zenon DEF Justified
    <3> QED  BY <3>1, Zenon DEF Complainers
  <2>8. ASSUME NEW x \in Unanswered(p, q) PROVE x \in node[q].bad
    <3>1. x \in Complainers(q, q) /\ \A msg \in From(sent, q) : x \notin msg.for
      BY <1>1, <2>1, <2>7, <2>8, Zenon DEF Unanswered
    <3> QED  BY <1>1, <1>2, <3>1, Zenon DEF Answered
  <2> QED  BY <2>5, <2>6, <2>8, Zenon
<1> QED
  BY <1>1, <1>3, Zenon DEF OnlyUnanswered

\* No change of phase makes an honest member bad (HandleDKGRound).
LEMMA NextPhaseD ==
  ASSUME FiniteLaws, IInv, VInv, DInv, BadVotes > 0, NextPhase
  PROVE  DInv'
<1>1. UNCHANGED <<simulated, session>> /\ phase \in Phases \ {"finalize"}
  BY Zenon DEF NextPhase, IInv, TypeOK
<1>2. Honest' = Honest
  BY <1>1, Zenon DEF Honest, Liar
<1>3. phase' # "contribute"
  BY <1>1, Zenon DEF NextPhase, Phases
<1>4. \A q \in Honest : session'[q] = 1
  BY <1>1, Zenon DEF DInv
<1>5. CASE lost' # 0
  BY <1>2, <1>3, <1>4, <1>5, Zenon DEF DInv
<1>6. CASE lost' = 0
  <2>1. lost = 0 /\ UNCHANGED node /\ sent' = {}
    BY <1>6, AllArrived, Zenon
  <2>2. CASE phase = "contribute"
    <3>1. phase' = "complain" /\ Contributed
      BY <2>2, Zenon DEF NextPhase, VInv
    <3>2. \A q \in Honest : Accepted(q)'
      BY <1>6, <2>2, <3>1, EndContributeD, Zenon
    <3> QED  BY <1>2, <1>4, <2>1, <3>1, <3>2, Zenon DEF DInv
  <2>3. CASE phase = "complain"
    <3>1. phase' = "justify" /\ Complained
      BY <2>1, <2>3, Zenon DEF NextPhase, VInv
    <3>2. \A q \in Honest : Accepted(q)' /\ Answered(q)'
      BY <1>6, <2>3, <3>1, EndComplainD, Zenon
    <3> QED  BY <1>2, <1>4, <3>1, <3>2, Zenon DEF DInv
  <2>4. CASE phase = "justify"
    <3>1. phase' = "commit" /\ Justified
      BY <2>1, <2>4, Zenon DEF NextPhase, VInv
    <3>2. \A q \in Honest : OnlyUnanswered(q)'
      BY <1>6, <2>4, <3>1, EndJustifyD, Zenon
    <3> QED  BY <1>2, <1>4, <3>1, <3>2, Zenon DEF DInv
  <2>5. CASE phase = "commit"
    <3>1. phase' = "finalize"
      BY <2>5, Zenon DEF NextPhase
    <3>2. \A q \in Honest : OnlyUnanswered(q)'
      BY <2>1, <2>5, Zenon DEF DInv, OnlyUnanswered
    <3> QED  BY <1>2, <1>4, <3>1, <3>2, Zenon DEF DInv
  <2> QED  BY <1>1, <2>2, <2>3, <2>4, <2>5, Zenon DEF Phases
<1> QED
  BY <1>5, <1>6, Zenon

\* No step of a member or of the network does.
LEMMA NextD ==
  ASSUME FiniteLaws
  PROVE  BadVotes > 0 /\ IInv /\ VInv /\ DInv /\ [Next]_vars => DInv'
<1> SUFFICES ASSUME BadVotes > 0, IInv, VInv, DInv, [Next]_vars
             PROVE  DInv'
  BY Zenon
<1>1. CASE NextPhase
  BY <1>1, NextPhaseD, Zenon
<1>2. CASE UNCHANGED vars
  <2>1. UNCHANGED <<phase, simulated, started, sent, session, node, db, lost>>
    BY <1>2, Zenon DEF vars
  <2>2. \A q : Accepted(q)' <=> Accepted(q)
    <3>1. \A p : Twice(p)' = Twice(p) /\ Missing(p)' = Missing(p)
      BY <2>1, Zenon DEF Twice, Missing
    <3> QED  BY <2>1, <3>1, Zenon DEF Accepted
  <2>3. \A q : Answered(q)' <=> Answered(q)
    BY <2>1, Zenon DEF Answered, Complainers, From
  <2>4. \A q : OnlyUnanswered(q)' <=> OnlyUnanswered(q)
    BY <2>1, Zenon DEF OnlyUnanswered
  <2>5. Honest' = Honest
    BY <2>1, Zenon DEF Honest, Liar
  <2> QED  BY <2>1, <2>2, <2>3, <2>4, <2>5, Zenon DEF DInv
<1> QED
  BY <1>1, <1>2, ContributeD, ComplainD, JustifyD, CommitD, Zenon DEF Next

-----------------------------------------------------------------------------
(* The theorems.  The laws of finite sets hold, by the library.            *)

INSTANCE FiniteSetTheorems

\* What the lemmas assume holds.
LEMMA Laws == FiniteLaws
<1>1. IsFiniteSet({}) /\ Cardinality({}) = 0
  BY FS_EmptySet, Zenon
<1>2. ASSUME NEW S, IsFiniteSet(S)
      PROVE  /\ Cardinality(S) \in Nat /\ (Cardinality(S) = 0 => S = {})
             /\ \A T \in SUBSET S : IsFiniteSet(T)
             /\ \A x : IsFiniteSet(S \cup {x})
  BY <1>2, FS_EmptySet, FS_CardinalityType, FS_Subset, FS_AddElement, Zenon
<1>3. ASSUME NEW S, NEW T, IsFiniteSet(S), IsFiniteSet(T) PROVE IsFiniteSet(S \X T)
  BY <1>3, FS_Product, Zenon
<1>4. \A x : Cardinality({x}) = 1
  BY FS_Singleton, Zenon
<1> QED  BY <1>1, <1>2, <1>3, <1>4, Zenon DEF FiniteLaws

\* Two sets of minSize members meet.  It holds for the parameters of
\* llmq5_60, llmq50_60, llmq400_60 and llmq400_85, not for llmq20_60 (minSize
\* 5 of 20 members).
MajorityMinSize == 2 * MinSize > Cardinality(Member)

\* Two sets of minSize members of the quorum have a member in common.
LEMMA SignersMeet ==
  ASSUME MajorityMinSize, NEW S \in SUBSET Member, NEW T \in SUBSET Member,
         Enough(S), Enough(T)
  PROVE  S \cap T # {}
<1>1. IsFiniteSet(S) /\ IsFiniteSet(T) /\ Cardinality(S) \in Nat
      /\ Cardinality(T) \in Nat /\ Cardinality(Member) \in Nat
  BY DKGAssumption, FS_Subset, FS_CardinalityType, Zenon
<1>2. Cardinality(S) + Cardinality(T) > Cardinality(Member)
  BY <1>1, DKGAssumption DEF MajorityMinSize, Enough
<1> QED
  BY <1>1, <1>2, DKGAssumption, FS_MajoritiesIntersect, Zenon

\* The data of a session keeps its types whatever the members simulate.
THEOREM TypeCorrect == Spec => []TypeOK
<1>1. IInv => TypeOK
  BY Zenon DEF IInv
<1>2. Init => IInv
  BY Laws, InitIInv, Zenon
<1>3. IInv /\ [Next]_vars => IInv'
  BY Laws, NextIInv, Zenon
<1> QED
  BY <1>1, <1>2, <1>3, PTL DEF Spec

\* With minSize more than half of the members, all final commitments that verify
\* name the same valid members and the same key, whoever simulates errors and
\* whatever is lost (FinalizeCommitments, CFinalCommitment::Verify).
THEOREM OneQuorumKey == MajorityMinSize /\ Spec => []OneKey
<1> SUFFICES ASSUME MajorityMinSize PROVE Spec => []OneKey
  BY Zenon
<1>1. IInv => OneKey
  <2> SUFFICES ASSUME IInv, NEW p \in Member, NEW q \in Member,
                      NEW f \in final[p], NEW g \in final[q], Verify(f), Verify(g)
               PROVE  f.valid = g.valid /\ f.key = g.key
    BY DEF OneKey
  <2>1. f.signers \in SUBSET Member /\ g.signers \in SUBSET Member
    BY DEF IInv, TypeOK, FinalCommitment
  <2>2. f.signers \cap g.signers # {}
    BY <2>1, SignersMeet, Zenon DEF Verify
  <2>3. PICK s : s \in f.signers /\ s \in g.signers
    BY <2>2, Zenon
  <2>4. PICK a \in node[p].validCommitments :
          a.from = s /\ a.valid = f.valid /\ a.key = f.key
    BY <2>3, Zenon DEF IInv, SignersCommitted
  <2>5. PICK b \in node[q].validCommitments :
          b.from = s /\ b.valid = g.valid /\ b.key = g.key
    BY <2>3, Zenon DEF IInv, SignersCommitted
  <2>6. a = b
    BY <2>4, <2>5 DEF IInv, SameCommitments
  <2> QED
    BY <2>4, <2>5, <2>6, Zenon
<1>2. Init => IInv
  BY Laws, InitIInv, Zenon
<1>3. IInv /\ [Next]_vars => IInv'
  BY Laws, NextIInv, Zenon
<1> QED
  BY <1>1, <1>2, <1>3, PTL DEF Spec

\* Whoever signed a final commitment without lying holds a share from every
\* valid member, a point of the polynomial that is in the quorum key
\* (VerifyPendingContributions, ReceiveMessage of justifications, SendCommitment).
THEOREM SharesOfSigners == Spec => []SignersHoldShares
<1>1. IInv => SignersHoldShares
  <2> SUFFICES ASSUME IInv, NEW p \in Member, NEW f \in final[p],
                      NEW s \in f.signers \ Liar, NEW m \in f.valid
               PROVE  db[s].sk[m] = f.key[m] /\ f.key[m] # 0
    BY Zenon DEF SignersHoldShares
  <2>1. PICK qc \in node[p].validCommitments :
          qc.from = s /\ qc.valid = f.valid /\ qc.key = f.key
    BY Zenon DEF IInv, SignersCommitted
  <2>2. Backed(qc)
    BY Zenon DEF IInv, CommitmentsBacked
  <2> QED
    BY <2>1, <2>2, Zenon DEF Backed
<1>2. Init => IInv
  BY Laws, InitIInv
<1>3. IInv /\ [Next]_vars => IInv'
  BY Laws, NextIInv
<1> QED
  BY <1>1, <1>2, <1>3, PTL DEF Spec

\* When nothing is lost all members drop the same members, in whatever order
\* ReceiveMessage and the Verify steps ran, and whoever lied (VerifyAndComplain,
\* VerifyAndJustify, VerifyAndCommit).
THEOREM OneVerdict == Spec => []SameVerdict
<1>1. Init => IInv /\ VInv
  BY Laws, InitIInv, InitV, Zenon
<1>2. IInv /\ VInv /\ [Next]_vars => (IInv /\ VInv)'
  BY Laws, NextIInv, NextV, Zenon
<1>3. IInv /\ VInv => SameVerdict
  BY Zenon DEF VInv, Judged, SameVerdict
<1> QED
  BY <1>1, <1>2, <1>3, PTL DEF Spec

\* When nothing is lost, a member that runs the code and was not rewound is dropped
\* only for a complaint it left open because it had dropped the complainer; one vote
\* or more must be needed to drop a member (dkgBadVotesThreshold).
THEOREM DroppedForCause == (BadVotes > 0) /\ Spec => []DroppedOnlyByDropped
<1> SUFFICES ASSUME BadVotes > 0
             PROVE  Spec => []DroppedOnlyByDropped
  BY Zenon
<1>1. Init => IInv /\ VInv /\ DInv
  BY Laws, InitIInv, InitV, InitD, Zenon
<1>2. IInv /\ VInv /\ DInv /\ [Next]_vars => (IInv /\ VInv /\ DInv)'
  BY Laws, NextIInv, NextV, NextD, Zenon
<1>3. IInv /\ VInv /\ DInv => DroppedOnlyByDropped
  BY Zenon DEF DInv, DroppedOnlyByDropped, OnlyUnanswered, Honest
<1> QED
  BY <1>1, <1>2, <1>3, PTL DEF Spec

=============================================================================
