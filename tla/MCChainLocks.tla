---------------------------- MODULE MCChainLocks ----------------------------
(***************************************************************************)
(* Small block trees and sets of chain locks for ChainLocks.               *)
(***************************************************************************)
EXTENDS ChainLocks, TLC

CONSTANTS g, a1, a2, b1, b2

Lock(h, b) == [nHeight |-> h, block |-> b]

\* Two branches of two blocks each.
ForkParent == (a1 :> g) @@ (a2 :> a1) @@ (b1 :> g) @@ (b2 :> b1)

\* A branch of one block against a branch of two.
ShortParent == (a1 :> g) @@ (b1 :> g) @@ (b2 :> b1)

\* A single chain.
LineParent == (a1 :> g) @@ (a2 :> a1)

\* A branch of two blocks against a branch of one.
LateParent == (a1 :> g) @@ (a2 :> a1) @@ (b1 :> g)

LockA1 == {Lock(1, a1)}
LockA2 == {Lock(2, a2)}
LockA1A2 == {Lock(1, a1), Lock(2, a2)}
LockA1B2 == {Lock(1, a1), Lock(2, b2)}

=============================================================================
