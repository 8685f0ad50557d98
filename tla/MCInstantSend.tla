--------------------------- MODULE MCInstantSend ----------------------------
(***************************************************************************)
(* Small transaction graphs and block trees for InstantSend.               *)
(***************************************************************************)
EXTENDS InstantSend, TLC

CONSTANTS t1, t2, c1, coin, g, a1, b1

\* t1 and t2 spend the same old coin, c1 spends t1.
ConflictInputs == (t1 :> {<<coin, 0>>}) @@ (t2 :> {<<coin, 0>>}) @@ (c1 :> {<<t1, 0>>})
ConflictWinner == (<<coin, 0>> :> t1) @@ (<<t1, 0>> :> c1)

\* Two transactions only.
PairInputs == (t1 :> {<<coin, 0>>}) @@ (t2 :> {<<coin, 0>>})
PairWinner == (<<coin, 0>> :> t1)

\* The message with c1's lock does not come once the node has recovered both
\* of c1's signatures itself.
ChildLockOnce == c1 \in pending => rec[InputId(<<t1, 0>>)] = NoTx /\ rec[LockId(c1)] = NoTx

\* Two blocks on one parent, with t1 and with t2.
ShortParent == (a1 :> g) @@ (b1 :> g)
ShortContents == (g :> <<>>) @@ (a1 :> <<t1>>) @@ (b1 :> <<t2>>)

=============================================================================
