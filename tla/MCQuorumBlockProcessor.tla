----------------------- MODULE MCQuorumBlockProcessor -----------------------
(***************************************************************************)
(* Instances of QuorumBlockProcessor for TLC.  The sessions that compete   *)
(* for the second interval are interchangeable.                            *)
(***************************************************************************)
EXTENDS QuorumBlockProcessor, TLC

Forks == Permutations(Hash \ {GenesisHash})

=============================================================================
