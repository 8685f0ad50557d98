------------------------------ MODULE MCSigning ------------------------------
(***************************************************************************)
(* Instances of Signing for TLC.                                           *)
(***************************************************************************)
EXTENDS Signing, TLC

CONSTANTS n1, n2, n3, n4, n5, n6, q1, q2, i1, m1, m2, v1, v2

\* One quorum.  At v2 it is no longer active, but its commitment is still mined.
OneQuorumMembers == [q \in {q1} |-> Node]
OneQuorumMined == [v \in View |-> {q1}]
OneQuorumActive == [v \in View |-> IF v = v1 THEN {q1} ELSE {}]
OneQuorumSelected == [v \in View |-> [i \in {i1} |-> IF v = v1 THEN q1 ELSE NoQuorum]]

\* One member of the quorum lacks its secret key share, another the vector too.
SomeVvec == [q \in {q1} |-> Node \ {n4}]
SomeSkShare == [q \in {q1} |-> Node \ {n3, n4}]

\* Two quorums without a common member; tip v1 selects one, tip v2 the other.
TwoQuorumsMembers == [q \in {q1, q2} |-> IF q = q1 THEN {n1, n2} ELSE {n3, n4}]
TwoQuorumsMined == [v \in View |-> {q1, q2}]
TwoQuorumsSelected == [v \in View |-> [i \in {i1} |-> IF v = v1 THEN q1 ELSE q2]]

\* The commitment of the quorum is not mined on the chain of tip v2.
ReorgMined == [v \in View |-> IF v = v1 THEN {q1} ELSE {}]

\* Bound: a behaviour is not followed beyond the first erased vote, after which
\* UniqueRecoveredPerQuorum and ShareFollowsVote no longer say anything.
UntilVoteErased == forgotten = {}

\* Bound for six members: three are asked to sign m1, three to sign m2, and only
\* one of each group collects the shares of its group.
TwoCamps ==
    /\ \A n \in {n1, n2, n3} : voted[n][i1] \in {NoMsg, m1}
    /\ \A n \in {n4, n5, n6} : voted[n][i1] \in {NoMsg, m2}
    /\ \A n \in {n2, n3, n5, n6} : pendingShares[n] = {}
    /\ \A s \in pendingShares[n1] : s.m = m1
    /\ \A s \in pendingShares[n4] : s.m = m2

Sym == Permutations(Honest) \cup Permutations(Msg)

=============================================================================
