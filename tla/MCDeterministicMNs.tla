------------------------- MODULE MCDeterministicMNs -------------------------
(* Instances of DeterministicMNs for TLC. *)
EXTENDS DeterministicMNs, TLC

CONSTANTS m1, m2, m3

Rank == m1 :> 1 @@ m2 :> 2 @@ m3 :> 3
InOrder(m, o) == Rank[m] < Rank[o]

Reg(m, coll, addr, op) ==
  [type |-> "reg", mn |-> m, coll |-> coll, addr |-> addr, op |-> op]
Serv(m, addr) == [type |-> "serv", mn |-> m, addr |-> addr]
UpReg(m, op) == [type |-> "upreg", mn |-> m, op |-> op]
Rev(m) == [type |-> "revoke", mn |-> m]
Commit(S) == [type |-> "commit", bad |-> S]
Spend(coll) == [type |-> "spend", coll |-> coll]

\* The first block registers m1 and m2.  Later m3 may take over the collateral
\* and the address of m1, and everything else happens to m1.
Setup == {<<Reg(m1, "c1", "a1", "k1"), Reg(m2, "c2", "a2", "k2")>>}
Menu == { <<>>,
          <<Reg(m3, "c1", "a1", "k3")>>,
          <<Serv(m1, "a3")>>,
          <<UpReg(m1, "k4")>>,
          <<Rev(m1), Spend("c2")>>,
          <<Commit({m1})>>}
Some == {<<>>, <<Reg(m3, "c1", "a1", "k3")>>, <<Commit({m1})>>}

Few == {<<>>, <<Commit({m1})>>}
Calm == [contents |-> <<Setup, Menu, Menu, Menu, Few>>, restarts |-> 0,
         undos |-> 0]
Reorgs == [contents |-> <<Setup, Some, Some>>, restarts |-> 0, undos |-> 2]
Crashes == [contents |-> <<Setup, Some, Some>>, restarts |-> 2, undos |-> 1]

AllScenarios == {Calm, Reorgs, Crashes}

\* A block registers m2 and m3 and spends the collateral of m2.
OneBlock == {[contents |-> <<{<<Reg(m1, "c1", "a1", "k1")>>},
                             {<<Reg(m2, "c2", "a2", "k2"), Spend("c2"),
                                Reg(m3, "c3", "a3", "k3")>>}, {<<>>}>>,
              restarts |-> 0, undos |-> 0]}
OnlyCalm == {Calm}
OnlyReorgs == {Reorgs}
OnlyCrashes == {Crashes}
=============================================================================
