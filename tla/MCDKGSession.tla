---------------------------- MODULE MCDKGSession ----------------------------
(***************************************************************************)
(* Instances of DKGSession.                                                *)
(***************************************************************************)
EXTENDS DKGSession, TLC

CONSTANTS p1, p2, p3, p4

By(p, types) == [q \in Member |-> IF q = p THEN types ELSE {}]

(* One member simulates errors: it lies about its secrets and its key, or  *)
(* it sends no contribution and complains about the others.                *)
OneLiar == {By(p3, {"contribution-lie", "justify-omit", "justify-lie", "commit-lie"}),
            By(p3, {"contribution-omit", "complain-lie", "commit-omit"})}

(* One member simulates every error.                                       *)
AllErrors == {By(p3, ErrorType)}

(* One member lies in its commitment.                                      *)
OneCommitLiar == {By(p1, {"commit-lie"})}

Rank == [p \in Member |-> IF p = p1 THEN 1 ELSE IF p = p2 THEN 2 ELSE IF p = p3 THEN 3 ELSE 4]

(* Only VerifyAndJustify reads what an early message of its phase changes, *)
(* so in the other phases all members may act before any message is        *)
(* processed, and then process in turn what they receive.                  *)
InTurn ==
  \A p \in Member : recv'[p] # recv[p] /\ recv'[p] # {} /\ phase # "justify" =>
    LET earlier == {q \in Member : Rank[q] < Rank[p]}
        missed == {<<q, msg>> \in earlier \X sent : msg \notin recv[q]}
    IN /\ started = Member
       /\ \A q \in Member : Rank[q] > Rank[p] => recv[q] = {}
       /\ lost + Cardinality(missed) <= MaxLost

Others == Permutations(Member \ {p1})
=============================================================================
