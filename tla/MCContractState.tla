--------------------------- MODULE MCContractState ---------------------------
(* Small instances of ContractState: two branches, one with two blocks.    *)
EXTENDS ContractState

\* An SSTORE of a constant, and one of the old value plus one (modulo the word).
Set(v) == [s \in Store |-> v]
Increment(x) == [s \in Store |-> (s[x] + 1) % 3]

Create(a, ok, x, v) == [op |-> "create", addr |-> a, checks |-> TRUE, parses |-> TRUE,
                        succeeds |-> ok, key |-> x, val |-> v]
CallOf(a, ok, x, v) == [Create(a, ok, x, v) EXCEPT !.op = "call"]
Garbled(a) == [CallOf(a, FALSE, "k", Set(0)) EXCEPT !.parses = FALSE]
Malformed(a) == [Garbled(a) EXCEPT !.checks = FALSE]

\* g creates c1; a1 and b1 follow it, a2 follows a1.  c2 may be created in a2 or,
\* on the other branch, in b1, and called before it exists.
ForkParent == [x \in Block |-> CASE x = "g" -> Root [] x = "a1" -> "g"
                                 [] x = "a2" -> "a1" [] x = "b1" -> "g"]

\* Creations and calls that succeed, fail, do not parse or come before the
\* creation; stores of constants, over one another and over increments; the last
\* transaction of b1 may fail CheckContractTx.
ForkContents ==
    { [x \in Block |-> CASE x = "g" -> g [] x = "a1" -> a1 [] x = "a2" -> a2 [] x = "b1" -> b1] :
        g \in {<<Create("c1", ok, "k", Set(1))>> : ok \in BOOLEAN},
        a1 \in {<<CallOf("c1", FALSE, "k", Set(2)), CallOf("c2", TRUE, "k", Set(2))>>,
                <<Garbled("c1"), CallOf("c1", TRUE, "k", Increment("k"))>>},
        a2 \in {<<Create("c2", ok, "k", Set(1)), CallOf("c2", TRUE, "l", Increment("k"))>> :
                  ok \in BOOLEAN}
                 \cup {<<CallOf("c1", TRUE, "k", Set(0))>>},
        b1 \in {<<CallOf("c1", TRUE, "k", Set(0)), Malformed("c2")>>,
                 <<Create("c2", FALSE, "k", Increment("k")), CallOf("c1", FALSE, "l", Set(2))>>} }

=============================================================================
