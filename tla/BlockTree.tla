----------------------------- MODULE BlockTree ------------------------------
(***************************************************************************)
(* The tree of blocks a node may ever learn of (mapBlockIndex, chain.h).   *)
(***************************************************************************)
EXTENDS Integers

CONSTANTS
    Block, Genesis,
    Parent            \* Parent[b]: hashPrevBlock of every block but Genesis

ASSUME TreeAssumption ==
    /\ Genesis \in Block
    /\ Parent \in [Block \ {Genesis} -> Block]

\* The block and all its ancestors (CBlockIndex::pprev): the smallest set with
\* the block and the parent of everything in it.
Path == [b \in Block |->
    {x \in Block : \A S \in SUBSET Block :
        (b \in S /\ \A y \in S \ {Genesis} : Parent[y] \in S) => x \in S}]

\* CBlockIndex::nHeight
Height ==
    LET nHeight[b \in Block] == IF b = Genesis THEN 0 ELSE nHeight[Parent[b]] + 1
    IN  [b \in Block |-> nHeight[b]]

\* A header is only accepted when its parent is in the index: following the
\* parents ends at the genesis block, so that the recursion of nHeight does too.
ASSUME RootAssumption ==
    /\ \A b \in Block : Genesis \in Path[b]
    /\ Height \in [Block -> Nat] /\ Height[Genesis] = 0
    /\ \A b \in Block \ {Genesis} : Height[b] = Height[Parent[b]] + 1

Heights == {Height[b] : b \in Block}

\* CBlockIndex::GetAncestor
GetAncestor(b, h) == CHOOSE x \in Path[b] : Height[x] = h

=============================================================================
