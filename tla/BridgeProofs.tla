---------------------------- MODULE BridgeProofs ----------------------------
(***************************************************************************)
(* Proofs about Bridge, for any users, deployments, fees, limits and       *)
(* bounds: the state stays well formed, the supply is what holders have,   *)
(* and the supply is backed.                                               *)
(***************************************************************************)
EXTENDS Bridge, TLAPS

-----------------------------------------------------------------------------
(* Finite sets.  What the proofs use of the library about them is one      *)
(* hypothesis of the lemmas; the last section proves it, where the library *)
(* is instantiated.                                                        *)

FiniteLaws ==
  /\ IsFiniteSet({}) /\ Cardinality({}) = 0
  /\ \A S : IsFiniteSet(S) => Cardinality(S) \in Nat
  /\ \A S : IsFiniteSet(S) => \A T \in SUBSET S : IsFiniteSet(T)
  /\ \A S, T : IsFiniteSet(S) /\ IsFiniteSet(T) => IsFiniteSet(S \cup T)
  /\ \A S, x : IsFiniteSet(S) =>
       /\ IsFiniteSet(S \cup {x})
       /\ Cardinality(S \cup {x}) = IF x \in S THEN Cardinality(S) ELSE Cardinality(S) + 1
  /\ \A n \in Nat : IsFiniteSet(1..n)
  /\ \A S, T : IsFiniteSet(S) /\ T \subseteq SUBSET S /\ T # {} =>
       \E s \in T : \A t \in T : ~(t \subseteq s /\ t # s)

\* The empty set.
LEMMA EmptyFinite ==
  ASSUME FiniteLaws
  PROVE  IsFiniteSet({}) /\ Cardinality({}) = 0
BY Zenon DEF FiniteLaws

\* Cardinalities are naturals.
LEMMA CardinalityNat ==
  ASSUME FiniteLaws, NEW S, IsFiniteSet(S)
  PROVE  Cardinality(S) \in Nat
BY Zenon DEF FiniteLaws

\* A part of a finite set.
LEMMA SubsetFinite ==
  ASSUME FiniteLaws, NEW S, IsFiniteSet(S), NEW T \in SUBSET S
  PROVE  IsFiniteSet(T)
BY Zenon DEF FiniteLaws

\* Two finite sets.
LEMMA UnionFinite ==
  ASSUME FiniteLaws, NEW S, IsFiniteSet(S), NEW T, IsFiniteSet(T)
  PROVE  IsFiniteSet(S \cup T)
BY Zenon DEF FiniteLaws

\* One element more.
LEMMA AddFinite ==
  ASSUME FiniteLaws, NEW S, NEW x, IsFiniteSet(S)
  PROVE  /\ IsFiniteSet(S \cup {x})
         /\ Cardinality(S \cup {x}) = IF x \in S THEN Cardinality(S) ELSE Cardinality(S) + 1
BY Zenon DEF FiniteLaws

\* The positions of a sequence.
LEMMA IntervalFinite ==
  ASSUME FiniteLaws, NEW n \in Nat
  PROVE  IsFiniteSet(1..n)
BY Zenon DEF FiniteLaws

-----------------------------------------------------------------------------
(* Sums over finite sets.  Sum is a fold whose recursive function is named *)
(* by IsSum; facts about all finite sets are proved by taking a smallest   *)
(* subset that violates them.                                              *)

Pick(s) == CHOOSE x \in s : TRUE

\* g gives the sums of f over the subsets of S.
IsSum(g, f, S) ==
  g = [s \in SUBSET S |-> IF s = {} THEN 0 ELSE f[Pick(s)] + g[s \ {Pick(s)}]]

\* The fold of the community modules is the function IsSum describes, at S.
LEMMA SumDef ==
  ASSUME NEW f, NEW S
  PROVE  Sum(f, S) = (CHOOSE g : IsSum(g, f, S))[S]
BY Zenon DEF Sum, FoldFunctionOnSet, MapThenFoldSet, IsSum, Pick

\* The element the fold takes next is one of the set.
LEMMA PickIn == ASSUME NEW s, s # {} PROVE Pick(s) \in s
BY Zenon DEF Pick

\* Among subsets of a finite set there is one that contains no other.
LEMMA Smallest ==
  ASSUME FiniteLaws, NEW S, IsFiniteSet(S), NEW T, T \subseteq SUBSET S, T # {}
  PROVE  \E s \in T : \A t \in T : ~(t \subseteq s /\ t # s)
BY Zenon DEF FiniteLaws

\* Two such functions agree wherever both are defined.
LEMMA SumsAgree ==
  ASSUME FiniteLaws, NEW f, NEW s, NEW t, IsFiniteSet(s), NEW g, NEW h,
         IsSum(g, f, s), IsSum(h, f, t), NEW u, u \subseteq s, u \subseteq t
  PROVE  g[u] = h[u]
<1> DEFINE T == {v \in SUBSET u : g[v] # h[v]}
<1>1. IsFiniteSet(u)
  BY SubsetFinite, Zenon
<1> SUFFICES ASSUME T # {} PROVE FALSE
  BY Zenon
<1>2. PICK v \in T : \A w \in T : ~(w \subseteq v /\ w # v)
  <2> HIDE DEF T
  <2>1. T \subseteq SUBSET u  BY Zenon DEF T
  <2> QED  BY <1>1, <2>1, Smallest
<1>3. g[v] = IF v = {} THEN 0 ELSE f[Pick(v)] + g[v \ {Pick(v)}]
  <2>1. v \in SUBSET s  BY <1>2, Zenon
  <2> QED  BY <2>1, Zenon DEF IsSum
<1>4. h[v] = IF v = {} THEN 0 ELSE f[Pick(v)] + h[v \ {Pick(v)}]
  <2>1. v \in SUBSET t  BY <1>2, Zenon
  <2> QED  BY <2>1, Zenon DEF IsSum
<1>5. v # {}  BY <1>2, <1>3, <1>4, Zenon
<1>6. v \ {Pick(v)} \notin T  BY <1>2, <1>5, PickIn, Zenon
<1>7. g[v \ {Pick(v)}] = h[v \ {Pick(v)}]  BY <1>2, <1>6, Zenon
<1> QED  BY <1>2, <1>3, <1>4, <1>5, <1>7, Zenon

\* There is such a function for every finite set.
LEMMA SumExists ==
  ASSUME FiniteLaws, NEW f, NEW S, IsFiniteSet(S)
  PROVE  \E g : IsSum(g, f, S)
<1> DEFINE T == {v \in SUBSET S : ~\E g : IsSum(g, f, v)}
<1> SUFFICES ASSUME T # {} PROVE FALSE
  BY Zenon
<1>1. PICK v \in T : \A w \in T : ~(w \subseteq v /\ w # v)
  <2> HIDE DEF T
  <2>1. T \subseteq SUBSET S  BY Zenon DEF T
  <2> QED  BY <2>1, Smallest
<1> DEFINE G(w) == CHOOSE g : IsSum(g, f, w)
           Below(w) == G(w)[w]
           Value(w) == IF w = {} THEN 0
                       ELSE f[Pick(w)] + Below(w \ {Pick(w)})
           new == [w \in SUBSET v |-> Value(w)]
<1>2. \A w : w \subseteq v /\ w # v => IsSum(G(w), f, w)
  BY <1>1, Zenon
<1>3. \A w : w \subseteq v /\ w # v => Below(w) = Value(w)
  <2> SUFFICES ASSUME NEW w, w \subseteq v, w # v PROVE Below(w) = Value(w)
    BY Zenon
  <2>1. G(w)[w] = IF w = {} THEN 0 ELSE f[Pick(w)] + G(w)[w \ {Pick(w)}]
    <3> DEFINE h == G(w)
    <3>1. IsSum(h, f, w)  BY <1>2, Zenon
    <3> HIDE DEF h
    <3>2. w \in SUBSET w  BY Zenon
    <3>3. h[w] = IF w = {} THEN 0 ELSE f[Pick(w)] + h[w \ {Pick(w)}]
      BY <3>1, <3>2, Zenon DEF IsSum
    <3> QED  BY <3>3, Zenon DEF h
  <2>2. w # {} => G(w)[w \ {Pick(w)}] = Below(w \ {Pick(w)})
    <3> HAVE w # {}
    <3> DEFINE x == w \ {Pick(w)}
    <3>1. x \subseteq v /\ x # v  BY PickIn, Zenon
    <3>2. IsFiniteSet(w)  BY SubsetFinite, Zenon
    <3> HIDE DEF G
    <3>3. IsSum(G(w), f, w) /\ IsSum(G(x), f, x)  BY <1>2, <3>1, Zenon
    <3>4. x \subseteq w /\ x \subseteq x  BY Zenon
    <3> HIDE DEF x
    <3>5. G(w)[x] = G(x)[x]  BY <3>2, <3>3, <3>4, SumsAgree, SMTT(30)
    <3> QED  BY <3>5, Zenon DEF x
  <2> QED  BY <2>1, <2>2
<1>4. \A w : w \subseteq v => new[w] = IF w = {} THEN 0 ELSE f[Pick(w)] + new[w \ {Pick(w)}]
  <2> SUFFICES ASSUME NEW w, w \subseteq v
               PROVE  new[w] = IF w = {} THEN 0 ELSE f[Pick(w)] + new[w \ {Pick(w)}]
    BY Zenon
  <2>0. CASE w = {}
    BY <2>0, Zenon
  <2>5. CASE w # {}
    <3> DEFINE x == w \ {Pick(w)}
    <3>1. x \subseteq v /\ x # v  BY <2>5, PickIn, Zenon
    <3>2. new[x] = Value(x)  BY <3>1, Zenon
    <3>3. Below(x) = Value(x)  BY <3>1, <1>3, Zenon
    <3>4. new[w] = f[Pick(w)] + Below(x)  BY <2>5, Zenon
    <3> HIDE DEF G, new, Below, Value, x
    <3>5. new[w] = f[Pick(w)] + new[x]  BY <3>2, <3>3, <3>4, Zenon
    <3> QED  BY <3>5, <2>5, Zenon DEF x
  <2> QED  BY <2>0, <2>5, Zenon
<1>5. IsSum(new, f, v)
  <2>1. new = [w \in SUBSET v |-> new[w]]  OBVIOUS
  <2> HIDE DEF new
  <2> QED  BY <2>1, <1>4, Zenon DEF IsSum
<1> QED  BY <1>1, <1>5, Zenon

\* So it holds the sum of every subset.
LEMMA SumIsSum ==
  ASSUME FiniteLaws, NEW f, NEW S, IsFiniteSet(S), NEW g, IsSum(g, f, S), NEW s \in SUBSET S
  PROVE  g[s] = Sum(f, s)
<1> DEFINE h == CHOOSE x : IsSum(x, f, s)
<1>0. IsFiniteSet(s)  BY SubsetFinite, Zenon
<1>1. IsSum(h, f, s)  BY <1>0, SumExists, Zenon
<1> HIDE DEF h
<1>2. g[s] = h[s]  BY <1>1, SumsAgree
<1> QED  BY <1>2, SumDef, Zenon DEF h

\* The sum over no elements.
LEMMA SumEmpty == ASSUME FiniteLaws, NEW f PROVE Sum(f, {}) = 0
<1>1. IsFiniteSet({})  BY EmptyFinite, Zenon
<1>2. PICK g : IsSum(g, f, {})  BY <1>1, SumExists, Zenon
<1>3. g[{}] = 0  BY <1>2, Zenon DEF IsSum
<1> QED  BY <1>1, <1>2, <1>3, SumIsSum, Zenon

\* One step of the fold.
LEMMA SumPick ==
  ASSUME FiniteLaws, NEW f, NEW S, IsFiniteSet(S), S # {}
  PROVE  Sum(f, S) = f[Pick(S)] + Sum(f, S \ {Pick(S)})
<1>1. PICK g : IsSum(g, f, S)  BY SumExists, Zenon
<1>2. g[S] = f[Pick(S)] + g[S \ {Pick(S)}]  BY <1>1, Zenon DEF IsSum
<1>3. \A s \in SUBSET S : g[s] = Sum(f, s)  BY <1>1, SumIsSum, Zenon
<1>4. S \in SUBSET S /\ S \ {Pick(S)} \in SUBSET S  BY Zenon
<1> QED  BY <1>2, <1>3, <1>4, Zenon

\* Sums of naturals are naturals.
LEMMA SumNat ==
  ASSUME FiniteLaws, NEW S, IsFiniteSet(S), NEW f, \A x \in S : f[x] \in Nat
  PROVE  Sum(f, S) \in Nat
<1> DEFINE T == {v \in SUBSET S : Sum(f, v) \notin Nat}
<1> SUFFICES ASSUME T # {} PROVE FALSE
  BY Zenon
<1>1. PICK v \in T : \A w \in T : ~(w \subseteq v /\ w # v)
  <2> HIDE DEF T
  <2>1. T \subseteq SUBSET S  BY Zenon DEF T
  <2> QED  BY <2>1, Smallest
<1>2. IsFiniteSet(v)  BY SubsetFinite, Zenon
<1>3. v # {}  BY SumEmpty
<1>4. Sum(f, v \ {Pick(v)}) \in Nat  BY <1>1, <1>3, PickIn
<1>5. f[Pick(v)] \in Nat  BY <1>3, PickIn, Zenon
<1> QED  BY <1>2, <1>3, <1>4, <1>5, SumPick

\* Any element may be taken out first.
LEMMA SumRemove ==
  ASSUME FiniteLaws, NEW S, IsFiniteSet(S), NEW f, \A y \in S : f[y] \in Nat, NEW x \in S
  PROVE  Sum(f, S) = f[x] + Sum(f, S \ {x})
<1> DEFINE Ok(v, y) == Sum(f, v) = f[y] + Sum(f, v \ {y})
           T == {v \in SUBSET S : \E y \in v : ~Ok(v, y)}
<1> SUFFICES ASSUME T # {} PROVE FALSE
  BY Zenon
<1>1. PICK v \in T : \A w \in T : ~(w \subseteq v /\ w # v)
  <2> HIDE DEF T
  <2>1. T \subseteq SUBSET S  BY Zenon DEF T
  <2> QED  BY <2>1, Smallest
<1>2. PICK y \in v : ~Ok(v, y)  BY <1>1, Zenon
<1> DEFINE p == Pick(v)
<1>3. IsFiniteSet(v) /\ IsFiniteSet(v \ {p, y})  BY SubsetFinite, Zenon
<1>4. p \in v  BY <1>2, PickIn, Zenon
<1>5. Ok(v, p)  BY <1>3, <1>2, SumPick, Zenon
<1>6. p # y  BY <1>5, <1>2, Zenon
<1>7. Ok(v \ {p}, y) /\ Ok(v \ {y}, p)
  <2> HIDE DEF Ok, p
  <2>1. v \ {p} \notin T /\ v \ {y} \notin T  BY <1>1, <1>2, <1>4, Zenon
  <2>2. y \in v \ {p} /\ p \in v \ {y}  BY <1>2, <1>4, <1>6, Zenon
  <2> QED  BY <2>1, <2>2, Zenon
<1>8. (v \ {p}) \ {y} = v \ {p, y} /\ (v \ {y}) \ {p} = v \ {p, y}
  BY Zenon
<1>9. Sum(f, v \ {p, y}) \in Nat  BY <1>3, SumNat, Zenon
<1>10. f[p] \in Nat /\ f[y] \in Nat  BY <1>4, Zenon
<1>11. /\ Sum(f, v) = f[p] + Sum(f, v \ {p})
       /\ Sum(f, v \ {p}) = f[y] + Sum(f, v \ {p, y})
       /\ Sum(f, v \ {y}) = f[p] + Sum(f, v \ {p, y})
       /\ Sum(f, v) # f[y] + Sum(f, v \ {y})
  BY <1>2, <1>5, <1>7, <1>8, Zenon
<1> HIDE DEF p
<1> QED  BY <1>9, <1>10, <1>11

\* Only the values on the set matter.
LEMMA SumSame ==
  ASSUME FiniteLaws, NEW S, IsFiniteSet(S), NEW f, NEW h, \A x \in S : f[x] = h[x]
  PROVE  Sum(f, S) = Sum(h, S)
<1> DEFINE T == {v \in SUBSET S : Sum(f, v) # Sum(h, v)}
<1> SUFFICES ASSUME T # {} PROVE FALSE
  BY Zenon
<1>1. PICK v \in T : \A w \in T : ~(w \subseteq v /\ w # v)
  <2> HIDE DEF T
  <2>1. T \subseteq SUBSET S  BY Zenon DEF T
  <2> QED  BY <2>1, Smallest
<1>2. IsFiniteSet(v)  BY SubsetFinite, Zenon
<1>3. v # {}  BY SumEmpty, Zenon
<1>4. Sum(f, v \ {Pick(v)}) = Sum(h, v \ {Pick(v)})  BY <1>1, <1>3, PickIn
<1>5. f[Pick(v)] = h[Pick(v)]  BY <1>3, PickIn, Zenon
<1> QED  BY <1>1, <1>2, <1>3, <1>4, <1>5, SumPick

\* Sums over disjoint sets add up.
LEMMA SumUnion ==
  ASSUME FiniteLaws, NEW A, IsFiniteSet(A), NEW B, IsFiniteSet(B), A \cap B = {},
         NEW f, \A x \in A \cup B : f[x] \in Nat
  PROVE  Sum(f, A \cup B) = Sum(f, A) + Sum(f, B)
<1> DEFINE T == {v \in SUBSET B : Sum(f, A \cup v) # Sum(f, A) + Sum(f, v)}
<1> SUFFICES ASSUME T # {} PROVE FALSE
  BY Zenon
<1>1. PICK v \in T : \A w \in T : ~(w \subseteq v /\ w # v)
  <2> HIDE DEF T
  <2>1. T \subseteq SUBSET B  BY Zenon DEF T
  <2> QED  BY <2>1, Smallest
<1>2. IsFiniteSet(v) /\ IsFiniteSet(A \cup v)  BY SubsetFinite, UnionFinite, Zenon
<1>3. v # {}
  <2>1. Sum(f, A) \in Nat  BY SumNat, Zenon
  <2>2. A \cup {} = A  BY Zenon
  <2>3. Sum(f, A \cup {}) = Sum(f, A) + Sum(f, {})  BY <2>1, <2>2, SumEmpty
  <2> QED  BY <1>1, <2>3, Zenon
<1> DEFINE p == Pick(v)
           w == v \ {p}
<1>4. p \in v /\ p \notin A /\ w \subseteq v /\ w # v /\ w \subseteq B  BY <1>3, PickIn, Zenon
<1>5. (A \cup v) \ {p} = A \cup w  BY <1>4, Zenon
<1>6. Sum(f, A \cup w) = Sum(f, A) + Sum(f, w)  BY <1>1, <1>4, Zenon
<1>7. Sum(f, v) = f[p] + Sum(f, w)  BY <1>2, <1>4, SumRemove, Zenon
<1>8. Sum(f, A \cup v) = f[p] + Sum(f, A \cup w)
  <2>1. \A y \in A \cup v : f[y] \in Nat  BY Zenon
  <2>2. p \in A \cup v  BY <1>4, Zenon
  <2> HIDE DEF p
  <2> QED  BY <1>2, <2>1, <2>2, <1>5, SumRemove
<1>9. f[p] \in Nat /\ Sum(f, A) \in Nat /\ Sum(f, w) \in Nat
  <2>1. IsFiniteSet(w)  BY <1>4, SubsetFinite, Zenon
  <2> HIDE DEF p, w
  <2> QED  BY <1>4, <2>1, SumNat, Zenon
<1> HIDE DEF p, w
<1> QED  BY <1>1, <1>6, <1>7, <1>8, <1>9

\* A larger set has a larger sum.
LEMMA SumMono ==
  ASSUME FiniteLaws, NEW A, NEW B, IsFiniteSet(B), A \subseteq B, NEW f, \A x \in B : f[x] \in Nat
  PROVE  Sum(f, A) <= Sum(f, B)
<1>1. IsFiniteSet(A) /\ IsFiniteSet(B \ A)  BY SubsetFinite, Zenon
<1>2. A \cup (B \ A) = B /\ A \cap (B \ A) = {}  BY Zenon
<1>3. Sum(f, B) = Sum(f, A) + Sum(f, B \ A)
  BY <1>1, <1>2, SumUnion
<1>4. Sum(f, A) \in Nat /\ Sum(f, B \ A) \in Nat  BY <1>1, SumNat, Zenon
<1> QED  BY <1>3, <1>4

\* One value changes.
LEMMA SumChange ==
  ASSUME FiniteLaws, NEW S, IsFiniteSet(S), NEW x \in S, NEW f \in [S -> Nat], NEW g \in [S -> Nat],
         \A y \in S \ {x} : f[y] = g[y]
  PROVE  Sum(g, S) + f[x] = Sum(f, S) + g[x]
<1>1. IsFiniteSet(S \ {x})  BY SubsetFinite, Zenon
<1>2. Sum(f, S) = f[x] + Sum(f, S \ {x}) /\ Sum(g, S) = g[x] + Sum(g, S \ {x})
  BY SumRemove, Zenon
<1>3. Sum(f, S \ {x}) = Sum(g, S \ {x})  BY <1>1, SumSame, Zenon
<1>4. Sum(f, S \ {x}) \in Nat  BY <1>1, SumNat, Zenon
<1> QED  BY <1>2, <1>3, <1>4

\* Totals of finite sets of events.
LEMMA TotalNat ==
  ASSUME FiniteLaws, NEW A, IsFiniteSet(A), \A e \in A : e.amount \in Nat
  PROVE  Total(A) \in Nat
BY SumNat, Zenon DEF Total

\* An event that is taken out of a set.
LEMMA TotalRemove ==
  ASSUME FiniteLaws, NEW A, IsFiniteSet(A), \A e \in A : e.amount \in Nat, NEW x \in A
  PROVE  Total(A) = x.amount + Total(A \ {x})
<1> DEFINE f == [e \in A |-> e.amount]
           g == [e \in A \ {x} |-> e.amount]
<1>1. IsFiniteSet(A \ {x})  BY SubsetFinite, Zenon
<1>2. \A e \in A : f[e] \in Nat  BY Zenon
<1>3. \A e \in A \ {x} : f[e] = g[e]  BY Zenon
<1>4. f[x] = x.amount  BY Zenon
<1>5. Total(A) = Sum(f, A) /\ Total(A \ {x}) = Sum(g, A \ {x})  BY Zenon DEF Total
<1> HIDE DEF f, g
<1>6. Sum(f, A) = f[x] + Sum(f, A \ {x})  BY <1>2, SumRemove, Zenon
<1>7. Sum(f, A \ {x}) = Sum(g, A \ {x})  BY <1>1, <1>3, SumSame, Zenon
<1> QED  BY <1>4, <1>5, <1>6, <1>7, Zenon

\* An event that is added to a set.
LEMMA TotalAdd ==
  ASSUME FiniteLaws, NEW A, IsFiniteSet(A), \A e \in A : e.amount \in Nat,
         NEW x, x \notin A, x.amount \in Nat
  PROVE  Total(A \cup {x}) = x.amount + Total(A)
<1>1. IsFiniteSet(A \cup {x})  BY AddFinite, Zenon
<1>2. (A \cup {x}) \ {x} = A  BY Zenon
<1> QED  BY <1>1, <1>2, TotalRemove, Zenon

\* A subset of events has no larger total.
LEMMA TotalMono ==
  ASSUME FiniteLaws, NEW A, NEW B, IsFiniteSet(B), \A e \in B : e.amount \in Nat, A \subseteq B
  PROVE  Total(A) <= Total(B)
<1> DEFINE f == [e \in B |-> e.amount]
           g == [e \in A |-> e.amount]
<1>1. IsFiniteSet(A)  BY SubsetFinite, Zenon
<1>2. \A e \in B : f[e] \in Nat  BY Zenon
<1>3. \A e \in A : f[e] = g[e]  BY Zenon
<1>4. Total(B) = Sum(f, B) /\ Total(A) = Sum(g, A)  BY Zenon DEF Total
<1> HIDE DEF f, g
<1>5. Sum(f, A) <= Sum(f, B)  BY <1>2, SumMono, Zenon
<1>6. Sum(f, A) = Sum(g, A)  BY <1>1, <1>3, SumSame
<1> QED  BY <1>4, <1>5, <1>6, Zenon

-----------------------------------------------------------------------------
(* Amounts.                                                                *)

\* A fee of at most 5% (setFee's bound) leaves a natural amount.
LEMMA FeeTaken ==
  ASSUME NEW v \in Nat, NEW bp \in Nat, bp <= 500
  PROVE  amountAfterFee(v, bp) \in Nat /\ amountAfterFee(v, bp) <= v
<1>1. v * bp \in Nat /\ v * bp <= 500 * v
  OBVIOUS
<1> DEFINE p == v * bp
<1> HIDE DEF p
<1>2. p \in Nat /\ p <= 500 * v => p \div 10000 \in Nat /\ p \div 10000 <= v
  OBVIOUS
<1> QED  BY <1>1, <1>2 DEF p, amountAfterFee, calculateFee

-----------------------------------------------------------------------------
(* The inductive invariant.                                                *)

\* Fees never exceed what setFee allows.
FeesBounded == native.fee <= 500 /\ \A b \in ExtBridge : ext[b].fee <= 500

\* Events are numbered in the order they are emitted.
Numbered(events) ==
  /\ IsFiniteSet(events)
  /\ \A e \in events : e.txHash <= Cardinality(events)

\* What the proofs need besides: the supply must be the sum of the balances, or
\* a burn could take it below zero; fees must leave a natural amount; and a new
\* event must have a hash that no completion has used.
IInv ==
  /\ TypeOK /\ scenario \in Scenarios
  /\ FeesBounded
  /\ Numbered(locks) /\ Numbered(burns)
  /\ SupplyIsHeld
  /\ Backed

\* The deployment satisfies it.
LEMMA InitIInv ==
  ASSUME FiniteLaws
  PROVE  Init => IInv
<1> SUFFICES ASSUME Init PROVE IInv
  BY Zenon
<1> USE BridgeAssumption
<1>1. scenario \in Scenarios
  BY Zenon DEF Init
<1>2. TypeOK
  <2>1. /\ scenario.day \in Nat /\ scenario.start \in Limits /\ scenario.funds \in Nat
    BY <1>1, Zenon
  <2>2. sinceReset \in 0..Day /\ sinceUserReset \in [User -> 0..Day]
    BY <2>1 DEF Init, Day
  <2>3. native \in NativeSettings /\ ext \in [ExtBridge -> ExtSettings]
    BY <2>1, Zenon DEF Init, NativeSettings, ExtSettings
  <2>4. /\ balance \in Nat /\ dailyBridged \in Nat /\ totalSupply \in Nat
        /\ funded \in 0..scenario.funds /\ withdrawn \in Nat
    BY <2>1 DEF Init
  <2>5. /\ userDailyBridged \in [User -> Nat] /\ balanceOf \in [User -> Nat]
        /\ allowance \in [User -> [ExtBridge -> Nat]]
    BY Zenon DEF Init
  <2>6. /\ bridge \in ExtBridge /\ tokenPaused \in BOOLEAN
        /\ locks \subseteq Event /\ burns \subseteq Event
        /\ processed \subseteq {e.txHash : e \in burns}
        /\ processedMints \subseteq {e.txHash : e \in locks}
        /\ extProcessed \in [ExtBridge -> SUBSET processedMints]
    BY Zenon DEF Init
  <2> QED
    BY <2>2, <2>3, <2>4, <2>5, <2>6, Zenon DEF TypeOK, HthTypeOK, TokenTypeOK, EventTypeOK, MoneyTypeOK
<1>3. FeesBounded
  BY Zenon DEF Init, FeesBounded
<1>4. Numbered(locks) /\ Numbered(burns)
  BY EmptyFinite, Zenon DEF Init, Numbered
<1>5. SupplyIsHeld
  <2> DEFINE T == {S \in SUBSET User : Sum(balanceOf, S) # 0}
  <2>1. SUFFICES ASSUME T # {} PROVE FALSE
    BY Zenon DEF Init, SupplyIsHeld
  <2>2. PICK S \in T : \A w \in T : ~(w \subseteq S /\ w # S)
    <3>1. T \subseteq SUBSET User  BY Zenon
    <3> HIDE DEF T
    <3> QED  BY <2>1, <3>1, Smallest
  <2>3. IsFiniteSet(S)  BY SubsetFinite, Zenon
  <2>4. S # {}  BY SumEmpty, Zenon
  <2>5. Pick(S) \in S /\ balanceOf[Pick(S)] = 0  BY <2>4, PickIn, Zenon DEF Init
  <2>6. Sum(balanceOf, S \ {Pick(S)}) = 0  BY <2>2, <2>5
  <2> QED  BY <2>2, <2>3, <2>4, <2>5, <2>6, SumPick
<1>6. Backed
  <2>1. Unminted = {} /\ Unreleased = {}  BY Zenon DEF Init, Unminted, Unreleased
  <2>2. Total({}) = 0  BY SumEmpty, Zenon DEF Total
  <2>3. /\ balance = 0 /\ withdrawn = 0 /\ funded = 0 /\ totalSupply = 0
        /\ Total(Unminted) = 0 /\ Total(Unreleased) = 0
    BY <2>1, <2>2, Zenon DEF Init
  <2> QED  BY <2>3 DEF Backed
<1> QED  BY <1>1, <1>2, <1>3, <1>4, <1>5, <1>6, Zenon DEF IInv

\* Facts about the events of a state that satisfies the invariant.
LEMMA EventFacts ==
  ASSUME FiniteLaws, IInv
  PROVE  /\ \A e \in locks \cup burns : e.amount \in Nat /\ e.txHash \in Nat /\ e.to \in User
         /\ IsFiniteSet(Unminted) /\ IsFiniteSet(Unreleased)
         /\ Unminted \subseteq locks /\ Unreleased \subseteq burns
         /\ Total(Unminted) \in Nat /\ Total(Unreleased) \in Nat
         /\ Cardinality(locks) \in Nat /\ Cardinality(burns) \in Nat
<1>1. \A e \in locks \cup burns : e.amount \in Nat /\ e.txHash \in Nat /\ e.to \in User
  <2>1. locks \subseteq Event /\ burns \subseteq Event /\ scenario.events \in Nat
    BY BridgeAssumption, Zenon DEF IInv, TypeOK, EventTypeOK
  <2> QED  BY <2>1 DEF Event, TxHash
<1>2. Unminted \subseteq locks /\ Unreleased \subseteq burns
  BY Zenon DEF Unminted, Unreleased
<1>3. IsFiniteSet(Unminted) /\ IsFiniteSet(Unreleased)
  BY <1>2, SubsetFinite, Zenon DEF IInv, Numbered
<1>4. Total(Unminted) \in Nat /\ Total(Unreleased) \in Nat
  BY <1>1, <1>2, <1>3, TotalNat, Zenon
<1>5. Cardinality(locks) \in Nat /\ Cardinality(burns) \in Nat
  BY CardinalityNat, Zenon DEF IInv, Numbered
<1> QED  BY <1>1, <1>2, <1>3, <1>4, <1>5, Zenon

\* The amounts of such a state.
LEMMA MoneyFacts ==
  ASSUME IInv
  PROVE  /\ balance \in Nat /\ withdrawn \in Nat /\ totalSupply \in Nat /\ funded \in Nat
         /\ balanceOf \in [User -> Nat]
         /\ totalSupply = Sum(balanceOf, User)
         /\ balance + withdrawn >= totalSupply + Total(Unminted) + Total(Unreleased) + funded
<1>1. TypeOK /\ SupplyIsHeld /\ Backed  BY Zenon DEF IInv
<1>2. /\ balance \in Nat /\ withdrawn \in Nat /\ totalSupply \in Nat
      /\ balanceOf \in [User -> Nat]
  BY <1>1, Zenon DEF TypeOK, HthTypeOK, TokenTypeOK, MoneyTypeOK
<1>3. funded \in Nat
  <2>1. funded \in 0..scenario.funds  BY <1>1, Zenon DEF TypeOK, MoneyTypeOK
  <2> QED  BY <2>1
<1> QED  BY <1>1, <1>2, <1>3, Zenon DEF SupplyIsHeld, Backed

\* A new event numbered as Lock and Emit number it.
LEMMA NewEvent ==
  ASSUME FiniteLaws, NEW events, Numbered(events), \A e \in events : e.txHash \in Nat,
         NEW x, x.txHash = Cardinality(events) + 1
  PROVE  /\ x \notin events
         /\ \A e \in events : e.txHash # x.txHash
         /\ Numbered(events \cup {x})
<1>1. Cardinality(events) \in Nat  BY CardinalityNat, Zenon DEF Numbered
<1>2. \A e \in events : e.txHash # x.txHash
  <2> SUFFICES ASSUME NEW e \in events, e.txHash = Cardinality(events) + 1 PROVE FALSE
    BY Zenon
  <2>1. e.txHash <= Cardinality(events)  BY Zenon DEF Numbered
  <2> QED  BY <1>1, <2>1
<1>3. x \notin events  BY <1>2, Zenon
<1>4. /\ IsFiniteSet(events \cup {x})
      /\ Cardinality(events \cup {x}) = Cardinality(events) + 1
  BY <1>3, AddFinite, Zenon DEF Numbered
<1>5. \A e \in events \cup {x} : e.txHash <= Cardinality(events) + 1
  <2> TAKE e \in events \cup {x}
  <2>1. CASE e = x  BY <2>1, <1>1
  <2>2. CASE e \in events
    BY <2>2, <1>1, SMTT(20) DEF Numbered
  <2> QED  BY <2>1, <2>2, Zenon
<1> QED  BY <1>2, <1>3, <1>4, <1>5, Zenon DEF Numbered

\* The bounds of a behaviour.
LEMMA ScenarioFacts ==
  ASSUME scenario \in Scenarios
  PROVE  /\ Day \in Nat \ {0} /\ scenario.events \in Nat /\ scenario.funds \in Nat
         /\ \A v \in scenario.amounts : v \in Nat \ {0}
         /\ Max(scenario.amounts) \in Nat
         /\ scenario.bridges \subseteq ExtBridge /\ scenario.fees \subseteq Fee
         /\ scenario.limits \subseteq Limits /\ scenario.extLimits \subseteq ExtLimits
         /\ scenario.switches \subseteq BOOLEAN
BY BridgeAssumption, Zenon DEF Day

\* What a step leaves alone stays well formed.
LEMMA Kept ==
  ASSUME IInv
  PROVE  /\ UNCHANGED <<balance, dailyBridged, userDailyBridged, sinceReset, sinceUserReset,
                        native, scenario>> => HthTypeOK'
         /\ UNCHANGED <<totalSupply, balanceOf, allowance, bridge, tokenPaused>> => TokenTypeOK'
         /\ UNCHANGED <<locks, burns, processed, processedMints, extProcessed, scenario>>
               => EventTypeOK'
         /\ UNCHANGED <<funded, withdrawn, scenario>> => MoneyTypeOK'
         /\ UNCHANGED ext => ext' \in [ExtBridge -> ExtSettings]
         /\ UNCHANGED <<native, ext>> => FeesBounded'
<1>1. /\ HthTypeOK /\ TokenTypeOK /\ EventTypeOK /\ MoneyTypeOK /\ FeesBounded
      /\ ext \in [ExtBridge -> ExtSettings]
  BY Zenon DEF IInv, TypeOK
<1>2. UNCHANGED <<balance, dailyBridged, userDailyBridged, sinceReset, sinceUserReset, native,
                  scenario>> => HthTypeOK'
  BY <1>1, Zenon DEF HthTypeOK, Day
<1>3. UNCHANGED <<totalSupply, balanceOf, allowance, bridge, tokenPaused>> => TokenTypeOK'
  BY <1>1, Zenon DEF TokenTypeOK
<1>4. UNCHANGED <<locks, burns, processed, processedMints, extProcessed, scenario>> => EventTypeOK'
  BY <1>1, Zenon DEF EventTypeOK, Event, TxHash
<1>5. UNCHANGED <<funded, withdrawn, scenario>> => MoneyTypeOK'
  BY <1>1, Zenon DEF MoneyTypeOK
<1>6. UNCHANGED <<native, ext>> => FeesBounded'
  BY <1>1 DEF FeesBounded
<1> QED  BY <1>1, <1>2, <1>3, <1>4, <1>5, <1>6, Zenon

\* A step that moves no money and announces or completes nothing.
LEMMA Still ==
  ASSUME IInv, TypeOK', FeesBounded',
         UNCHANGED <<balance, processed, totalSupply, balanceOf, processedMints, locks, burns,
                     funded, withdrawn, scenario>>
  PROVE  IInv'
BY Zenon DEF IInv, Numbered, SupplyIsHeld, Backed, Unminted, Unreleased

\* HTHBridge.bridge: the bridge receives at least what it promises to mint.
LEMMA LockStep ==
  ASSUME FiniteLaws, IInv, NEW u \in User, NEW to \in User, NEW v \in scenario.amounts, Lock(u, to, v)
  PROVE  IInv'
<1> DEFINE a == amountAfterFee(v, native.fee)
           x == [txHash |-> Cardinality(locks) + 1, to |-> to, amount |-> a]
<1>0. /\ v \in Nat /\ Day \in Nat \ {0} /\ scenario.events \in Nat
  BY ScenarioFacts, Zenon DEF IInv
<1>1. a \in Nat /\ a <= v
  <2>1. native.fee \in Nat /\ native.fee <= 500
    <3>1. native \in NativeSettings /\ native.fee <= 500
      BY Zenon DEF IInv, TypeOK, HthTypeOK, FeesBounded
    <3> QED  BY <3>1, BridgeAssumption, Zenon DEF NativeSettings
  <2> QED  BY <1>0, <2>1, FeeTaken, Zenon
<1>2. /\ locks' = locks \cup {x} /\ balance' = balance + v
      /\ UNCHANGED <<processed, native, token, external, burns, money>>
  BY Zenon DEF Lock
<1>3. /\ x \notin locks /\ (\A e \in locks : e.txHash # x.txHash)
      /\ Numbered(locks \cup {x})
  BY EventFacts, NewEvent, Zenon DEF IInv
<1>4. x \in Event
  <2>1. Cardinality(locks) \in Nat /\ Cardinality(locks) < scenario.events  BY EventFacts, Zenon DEF Lock
  <2>2. Cardinality(locks) + 1 \in TxHash  BY <1>0, <2>1 DEF TxHash
  <2> QED  BY <1>1, <2>2, Zenon DEF Event
<1>5. TypeOK'
  <2>1. HthTypeOK'
    <3>1. HthTypeOK  BY Zenon DEF IInv, TypeOK
    <3>2. ResetTotal(dailyBridged, sinceReset) \in Nat /\ ResetTime(sinceReset) \in 0..Day
      BY <1>0, <3>1 DEF HthTypeOK, ResetTotal, ResetTime
    <3>3. /\ ResetTotal(userDailyBridged[u], sinceUserReset[u]) \in Nat
          /\ ResetTime(sinceUserReset[u]) \in 0..Day
      BY <1>0, <3>1 DEF HthTypeOK, ResetTotal, ResetTime
    <3>4. /\ dailyBridged' \in Nat /\ sinceReset' \in 0..Day
          /\ userDailyBridged' \in [User -> Nat] /\ sinceUserReset' \in [User -> 0..Day]
      <4> DEFINE d == ResetTotal(dailyBridged, sinceReset)
                 w == ResetTotal(userDailyBridged[u], sinceUserReset[u])
                 t == ResetTime(sinceUserReset[u])
      <4>1. /\ dailyBridged' = d + v /\ sinceReset' = ResetTime(sinceReset)
            /\ userDailyBridged' = [userDailyBridged EXCEPT ![u] = w + v]
            /\ sinceUserReset' = [sinceUserReset EXCEPT ![u] = t]
        BY <3>1, Zenon DEF Lock, HthTypeOK
      <4>2. userDailyBridged \in [User -> Nat] /\ sinceUserReset \in [User -> 0..Day]
        BY <3>1, Zenon DEF HthTypeOK
      <4> HIDE DEF d, w, t
      <4>3. d + v \in Nat /\ w + v \in Nat /\ t \in 0..Day  BY <1>0, <3>2, <3>3 DEF d, w, t
      <4> QED  BY <3>2, <4>1, <4>2, <4>3, Zenon
    <3>5. balance' \in Nat  BY <1>0, <1>2, <3>1 DEF HthTypeOK
    <3> QED  BY <1>2, <3>1, <3>4, <3>5, Zenon DEF HthTypeOK, money, Day
  <2>2. EventTypeOK'
    <3>1. EventTypeOK  BY Zenon DEF IInv, TypeOK
    <3>2. locks' \subseteq Event /\ processedMints \subseteq {e.txHash : e \in locks'}
      BY <1>2, <1>4, <3>1, Zenon DEF EventTypeOK
    <3> QED  BY <1>2, <3>1, <3>2, Zenon DEF EventTypeOK, token, external, money, Event, TxHash
  <2> QED  BY <1>2, <2>1, <2>2, Kept, Zenon DEF TypeOK, token, external, money
<1>6. x \notin Unminted /\ Unminted' = Unminted \cup {x} /\ Unreleased' = Unreleased
  <2>1. x.txHash \notin processedMints
    BY <1>3, Zenon DEF IInv, TypeOK, EventTypeOK
  <2> QED
    BY <1>2, <1>3, <2>1, Zenon DEF Unminted, Unreleased, token
<1>7. Total(Unminted') = a + Total(Unminted)
  <2>1. \A e \in Unminted : e.amount \in Nat  BY EventFacts, Zenon
  <2>2. x.amount = a  BY Zenon
  <2> HIDE DEF x, a
  <2> QED  BY <1>1, <1>6, <2>1, <2>2, EventFacts, TotalAdd, Zenon
<1>8. Backed'
  <2> DEFINE T == Total(Unminted)
             R == Total(Unreleased)
  <2>1. /\ balance \in Nat /\ withdrawn \in Nat /\ totalSupply \in Nat
        /\ funded \in Nat /\ T \in Nat /\ R \in Nat
        /\ balance + withdrawn >= totalSupply + T + R + funded
    BY MoneyFacts, EventFacts, Zenon
  <2>2. /\ balance' = balance + v /\ withdrawn' = withdrawn /\ totalSupply' = totalSupply
        /\ funded' = funded
    BY <1>2, Zenon DEF token, money
  <2> HIDE DEF T, R, a, x
  <2>3. balance' + withdrawn' >= totalSupply' + (a + T) + R + funded'
    BY <1>0, <1>1, <2>1, <2>2
  <2> QED  BY <1>6, <1>7, <2>3, Zenon DEF Backed, T, R
<1> QED
  BY <1>2, <1>3, <1>5, <1>8, ZenonT(60) DEF IInv, FeesBounded, Numbered, SupplyIsHeld, token, external, money

\* HTHBridge.completeBridge pays a burn that was not yet paid.
LEMMA ReleaseStep ==
  ASSUME FiniteLaws, IInv, NEW x \in burns, Release(x)
  PROVE  IInv'
<1>1. /\ x.amount \in Nat /\ x \in Unreleased
      /\ processed' = processed \cup {x.txHash} /\ balance' = balance - x.amount
      /\ balance >= x.amount
      /\ UNCHANGED <<native, token, external, locks, burns, history>>
      /\ UNCHANGED <<dailyBridged, userDailyBridged, sinceReset, sinceUserReset>>
  BY EventFacts, Zenon DEF Release, Unreleased
<1>2. Unreleased' \subseteq Unreleased \ {x} /\ Unminted' = Unminted
  BY <1>1, Zenon DEF Unreleased, Unminted, token
<1>3. Total(Unreleased) = x.amount + Total(Unreleased \ {x})
  BY <1>1, EventFacts, TotalRemove, Zenon
<1>4. Total(Unreleased') <= Total(Unreleased \ {x})
  <2>1. IsFiniteSet(Unreleased \ {x})  BY EventFacts, SubsetFinite, Zenon
  <2>2. \A e \in Unreleased \ {x} : e.amount \in Nat  BY EventFacts, Zenon
  <2> QED  BY <1>2, <2>1, <2>2, TotalMono, Zenon
<1>5. Total(Unreleased') \in Nat /\ Total(Unreleased \ {x}) \in Nat
  <2>1. IsFiniteSet(Unreleased \ {x}) /\ IsFiniteSet(Unreleased')  BY <1>2, EventFacts, SubsetFinite, Zenon
  <2>2. \A e \in Unreleased : e.amount \in Nat  BY EventFacts, Zenon
  <2> QED  BY <1>2, <2>1, <2>2, TotalNat, Zenon
<1>6. TypeOK'
  <2>1. HthTypeOK'
    <3>1. HthTypeOK  BY Zenon DEF IInv, TypeOK
    <3>2. balance' \in Nat  BY <1>1, <3>1 DEF HthTypeOK
    <3> QED  BY <1>1, <3>1, <3>2, Zenon DEF HthTypeOK, history, money, Day
  <2>2. EventTypeOK'
    <3>1. EventTypeOK  BY Zenon DEF IInv, TypeOK
    <3> QED  BY <1>1, <3>1, Zenon DEF EventTypeOK, token, external, history, money, Event, TxHash
  <2> QED  BY <1>1, <2>1, <2>2, Kept, Zenon DEF TypeOK, token, external, history, money
<1>7. Backed'
  <2> DEFINE T == Total(Unreleased \ {x})
             M == Total(Unminted)
             N == Total(Unreleased')
  <2>1. /\ balance \in Nat /\ withdrawn \in Nat /\ totalSupply \in Nat /\ x.amount \in Nat
        /\ funded \in Nat /\ T \in Nat /\ M \in Nat /\ N \in Nat /\ N <= T
        /\ balance + withdrawn >= totalSupply + M + (x.amount + T) + funded
    BY <1>1, <1>3, <1>4, <1>5, MoneyFacts, EventFacts, Zenon
  <2>2. /\ balance' = balance - x.amount /\ withdrawn' = withdrawn /\ totalSupply' = totalSupply
        /\ funded' = funded
    BY <1>1, Zenon DEF token, history, money
  <2> HIDE DEF T, M, N
  <2>3. balance' + withdrawn' >= totalSupply' + M + N + funded'
    BY <2>1, <2>2
  <2> QED  BY <1>2, <2>3, Zenon DEF Backed, N, M
<1> QED
  BY <1>1, <1>6, <1>7 DEF IInv, FeesBounded, Numbered, SupplyIsHeld, token, external, history, money

\* What grows by as much as it must cover covers it still.
LEMMA StillCovers ==
  ASSUME NEW a \in Nat, NEW b \in Nat, NEW c \in Nat, NEW d \in Nat, NEW f \in Nat, NEW g \in Nat,
         NEW s \in Nat, NEW m \in Nat, NEW r \in Nat,
         a + b >= s + m + r + f, (c + d) + f = (a + b) + g
  PROVE  c + d >= s + m + r + g
BY SMTT(30)

\* receive() and emergencyWithdraw().
LEMMA FundStep ==
  ASSUME FiniteLaws, IInv, NEW v \in scenario.amounts, Fund(v) \/ emergencyWithdraw(v)
  PROVE  IInv'
<1>1. v \in Nat  BY ScenarioFacts, Zenon DEF IInv
<1>2. /\ UNCHANGED <<processed, dailyBridged, userDailyBridged, sinceReset, sinceUserReset,
                      native, token, external, locks, burns, scenario>>
      /\ Unminted' = Unminted /\ Unreleased' = Unreleased
  BY Zenon DEF Fund, emergencyWithdraw, Unminted, Unreleased, token
<1>3. /\ balance' \in Nat /\ withdrawn' \in Nat /\ funded' \in 0..scenario.funds
      /\ (balance' + withdrawn') + funded = (balance + withdrawn) + funded'
  <2>1. balance \in Nat /\ withdrawn \in Nat  BY MoneyFacts, Zenon
  <2>2. funded \in 0..scenario.funds /\ scenario.funds \in Nat
    BY ScenarioFacts, Zenon DEF IInv, TypeOK, MoneyTypeOK
  <2> QED  BY <1>1, <2>1, <2>2 DEF Fund, emergencyWithdraw
<1>5. TypeOK'
  <2>1. HthTypeOK'
    <3>1. HthTypeOK  BY Zenon DEF IInv, TypeOK
    <3> QED  BY <1>2, <1>3, <3>1, Zenon DEF HthTypeOK, Day
  <2>2. MoneyTypeOK'  BY <1>2, <1>3, Zenon DEF MoneyTypeOK
  <2> QED  BY <1>2, <2>1, <2>2, Kept, Zenon DEF TypeOK, token, external
<1>4. Backed'
  <2>1. Total(Unminted) \in Nat /\ Total(Unreleased) \in Nat  BY EventFacts, Zenon
  <2>2. funded' \in Nat
    <3>1. funded' \in 0..scenario.funds  BY <1>3, Zenon
    <3> QED  BY <3>1
  <2>3. balance' + withdrawn' >= totalSupply + Total(Unminted) + Total(Unreleased) + funded'
    <3> DEFINE m == Total(Unminted)
               r == Total(Unreleased)
               c == balance'
               d == withdrawn'
               g == funded'
    <3>1. /\ c \in Nat /\ d \in Nat /\ g \in Nat /\ m \in Nat /\ r \in Nat
          /\ balance \in Nat /\ withdrawn \in Nat /\ totalSupply \in Nat /\ funded \in Nat
          /\ balance + withdrawn >= totalSupply + m + r + funded
          /\ (c + d) + funded = (balance + withdrawn) + g
      BY <1>3, <2>1, <2>2, MoneyFacts, Zenon
    <3> HIDE DEF m, r, c, d, g
    <3>2. c + d >= totalSupply + m + r + g  BY <3>1, StillCovers
    <3> QED  BY <3>2, Zenon DEF m, r, c, d, g
  <2>4. totalSupply' = totalSupply  BY <1>2, Zenon DEF token
  <2> QED  BY <1>2, <2>3, <2>4, Zenon DEF Backed
<1> QED
  BY <1>2, <1>4, <1>5, ZenonT(60) DEF IInv, FeesBounded, Numbered, SupplyIsHeld, token, external

\* WrappedHTH.transfer keeps the sum of the balances.
LEMMA TransferStep ==
  ASSUME FiniteLaws, IInv, NEW u \in User, NEW to \in User, NEW v \in scenario.amounts, transfer(u, to, v)
  PROVE  IInv'
<1>1. v \in Nat /\ balanceOf \in [User -> Nat] /\ balanceOf[u] >= v /\ u # to
  BY ScenarioFacts, MoneyFacts, Zenon DEF IInv, transfer
<1>2. UNCHANGED <<totalSupply, allowance, processedMints, bridge, tokenPaused, hth, external,
                  locks, burns, history>>
  BY Zenon DEF transfer
<1> DEFINE mid == [balanceOf EXCEPT ![u] = @ - v]
<1>3. balanceOf' = [mid EXCEPT ![to] = @ + v]
  BY Zenon DEF transfer
<1>4. mid \in [User -> Nat] /\ balanceOf' \in [User -> Nat]
  <2>1. mid \in [User -> Nat]  BY <1>1
  <2> HIDE DEF mid
  <2> QED  BY <1>1, <1>3, <2>1
<1>5. Sum(mid, User) + balanceOf[u] = Sum(balanceOf, User) + mid[u] /\ mid[u] = balanceOf[u] - v
  <2>1. \A y \in User \ {u} : balanceOf[y] = mid[y]  BY <1>1, Zenon
  <2>2. mid[u] = balanceOf[u] - v  BY <1>1, Zenon
  <2> HIDE DEF mid
  <2>3. IsFiniteSet(User) /\ u \in User /\ balanceOf \in [User -> Nat]  BY <1>1, BridgeAssumption, Zenon
  <2>4. Sum(mid, User) + balanceOf[u] = Sum(balanceOf, User) + mid[u]
    BY <1>4, <2>1, <2>3, SumChange, ZenonT(60)
  <2> QED  BY <2>2, <2>4, Zenon
<1>6. Sum(balanceOf', User) + mid[to] = Sum(mid, User) + balanceOf'[to] /\ balanceOf'[to] = mid[to] + v
  <2> HIDE DEF mid
  <2>1. \A y \in User \ {to} : mid[y] = balanceOf'[y]  BY <1>3, <1>4, Zenon
  <2>2. balanceOf'[to] = mid[to] + v  BY <1>3, <1>4, Zenon
  <2>3. IsFiniteSet(User)  BY BridgeAssumption, Zenon
  <2>4. Sum(balanceOf', User) + mid[to] = Sum(mid, User) + balanceOf'[to]
    BY <1>4, <2>1, <2>3, SumChange, ZenonT(60)
  <2> QED  BY <2>2, <2>4, Zenon
<1>7. Sum(mid, User) \in Nat /\ Sum(balanceOf, User) \in Nat /\ Sum(balanceOf', User) \in Nat
  <2> HIDE DEF mid
  <2> QED  BY <1>1, <1>4, SumNat, BridgeAssumption, Zenon
<1>8. Sum(balanceOf', User) = Sum(balanceOf, User)
  <2>1. mid[to] \in Nat /\ balanceOf[u] \in Nat  BY <1>4, <1>1, Zenon
  <2> HIDE DEF mid
  <2> QED  BY <1>1, <1>5, <1>6, <1>7, <2>1
<1>9. TypeOK'
  <2>1. TokenTypeOK'
    <3>1. TokenTypeOK  BY SMTT(30) DEF IInv, TypeOK
    <3> HIDE DEF mid
    <3> QED  BY <1>2, <1>4, <3>1, Zenon DEF TokenTypeOK
  <2> QED  BY <1>2, <2>1, Kept, Zenon DEF TypeOK, hth, external, history, money
<1> QED
  BY <1>2, <1>8, <1>9, ZenonT(60) DEF IInv, FeesBounded, Numbered, SupplyIsHeld, Backed, Unminted, Unreleased,
                          hth, external, history, money

\* HTHBridgeExternal.completeBridge mints a lock that was not yet minted.
LEMMA MintStep ==
  ASSUME FiniteLaws, IInv, NEW b \in ExtBridge, NEW x \in locks, Mint(b, x)
  PROVE  IInv'
<1>1. /\ x.amount \in Nat /\ x.to \in User /\ x \in Unminted
      /\ processedMints' = processedMints \cup {x.txHash}
      /\ totalSupply' = totalSupply + x.amount
      /\ balanceOf' = [balanceOf EXCEPT ![x.to] = @ + x.amount]
      /\ extProcessed' = [extProcessed EXCEPT ![b] = @ \cup {x.txHash}]
      /\ UNCHANGED <<allowance, bridge, tokenPaused, ext, hth, locks, burns, history>>
  BY EventFacts, Zenon DEF Mint, mint, Unminted
<1>2. Unminted' \subseteq Unminted \ {x} /\ Unreleased' = Unreleased
  BY <1>1, Zenon DEF Unreleased, Unminted, hth
<1>3. Total(Unminted) = x.amount + Total(Unminted \ {x})
  BY <1>1, EventFacts, TotalRemove, Zenon
<1>4. Total(Unminted') <= Total(Unminted \ {x})
  <2>1. IsFiniteSet(Unminted \ {x})  BY EventFacts, SubsetFinite, Zenon
  <2>2. \A e \in Unminted \ {x} : e.amount \in Nat  BY EventFacts, Zenon
  <2> QED  BY <1>2, <2>1, <2>2, TotalMono, Zenon
<1>5. Total(Unminted') \in Nat /\ Total(Unminted \ {x}) \in Nat
  <2>1. IsFiniteSet(Unminted \ {x}) /\ IsFiniteSet(Unminted')  BY <1>2, EventFacts, SubsetFinite, Zenon
  <2>2. \A e \in Unminted : e.amount \in Nat  BY EventFacts, Zenon
  <2> QED  BY <1>2, <2>1, <2>2, TotalNat, Zenon
<1>6. balanceOf \in [User -> Nat] /\ balanceOf' \in [User -> Nat] /\ totalSupply \in Nat
  BY <1>1, MoneyFacts
<1>7. TypeOK'
  <2>1. EventTypeOK'
    <3>1. EventTypeOK  BY SMTT(30) DEF IInv, TypeOK
    <3>2. extProcessed' \in [ExtBridge -> SUBSET processedMints']
      BY <1>1, <3>1, Zenon DEF EventTypeOK
    <3>3. processedMints' \subseteq {e.txHash : e \in locks}
      BY <1>1, <3>1, Zenon DEF EventTypeOK
    <3> QED  BY <1>1, <3>1, <3>2, <3>3, Zenon DEF EventTypeOK, hth, history, money, Event, TxHash
  <2>2. TokenTypeOK'
    <3>1. TokenTypeOK  BY Zenon DEF IInv, TypeOK
    <3>2. totalSupply' \in Nat  BY <1>1, <1>6
    <3> QED  BY <1>1, <1>6, <3>1, <3>2, Zenon DEF TokenTypeOK
  <2> QED  BY <1>1, <2>1, <2>2, Kept, SMTT(30) DEF TypeOK, hth, history, money
<1>8. SupplyIsHeld'
  <2>1. Sum(balanceOf', User) + balanceOf[x.to] = Sum(balanceOf, User) + balanceOf'[x.to]
    <3> DEFINE f == balanceOf
               g == balanceOf'
               z == x.to
    <3>1. \A y \in User \ {z} : f[y] = g[y]  BY <1>1, <1>6, Zenon
    <3>2. f \in [User -> Nat] /\ g \in [User -> Nat] /\ z \in User  BY <1>1, <1>6, Zenon
    <3>3. IsFiniteSet(User)  BY BridgeAssumption, Zenon
    <3> HIDE DEF f, g, z
    <3>4. Sum(g, User) + f[z] = Sum(f, User) + g[z]  BY <3>1, <3>2, <3>3, SumChange, SMTT(30)
    <3> QED  BY <3>4, Zenon DEF f, g, z
  <2>2. balanceOf'[x.to] = balanceOf[x.to] + x.amount /\ balanceOf[x.to] \in Nat
    BY <1>1, <1>6, Zenon
  <2>3. Sum(balanceOf, User) \in Nat /\ Sum(balanceOf', User) \in Nat
    BY <1>6, SumNat, BridgeAssumption, Zenon
  <2>4. totalSupply = Sum(balanceOf, User)  BY MoneyFacts, Zenon
  <2>5. totalSupply' = Sum(balanceOf', User)  BY <1>1, <2>1, <2>2, <2>3, <2>4
  <2> QED  BY <2>5, Zenon DEF SupplyIsHeld
<1>9. Backed'
  <2> DEFINE T == Total(Unminted \ {x})
             R == Total(Unreleased)
             N == Total(Unminted')
  <2>1. /\ balance \in Nat /\ withdrawn \in Nat /\ totalSupply \in Nat /\ x.amount \in Nat
        /\ funded \in Nat /\ T \in Nat /\ R \in Nat /\ N \in Nat /\ N <= T
        /\ balance + withdrawn >= totalSupply + (x.amount + T) + R + funded
    BY <1>1, <1>3, <1>4, <1>5, MoneyFacts, EventFacts, Zenon
  <2>2. /\ balance' = balance /\ withdrawn' = withdrawn /\ totalSupply' = totalSupply + x.amount
        /\ funded' = funded
    BY <1>1, Zenon DEF hth, history, money
  <2> HIDE DEF T, R, N
  <2>3. balance' + withdrawn' >= totalSupply' + N + R + funded'
    BY <2>1, <2>2
  <2> QED  BY <1>2, <2>3, Zenon DEF Backed, N, R
<1> QED
  BY <1>1, <1>7, <1>8, <1>9, Zenon DEF IInv, FeesBounded, Numbered, hth, history, money

\* What BridgeBack and burn share: v is burned and an event of at most v is
\* emitted.
LEMMA BurnStep ==
  ASSUME FiniteLaws, IInv, NEW u \in User, NEW to \in User, NEW v \in Nat, NEW a \in Nat, a <= v,
         balanceOf[u] >= v, burned(u, v), Emit(to, a),
         allowance' \in [User -> [ExtBridge -> Nat]],
         UNCHANGED <<hth, external, locks, history>>
  PROVE  IInv'
<1> DEFINE x == [txHash |-> Cardinality(burns) + 1, to |-> to, amount |-> a]
<1>1. /\ burns' = burns \cup {x} /\ Cardinality(burns) < scenario.events
      /\ balanceOf' = [balanceOf EXCEPT ![u] = @ - v] /\ totalSupply' = totalSupply - v
      /\ UNCHANGED <<processedMints, bridge, tokenPaused>>
  BY Zenon DEF burned, Emit
<1>2. balanceOf \in [User -> Nat] /\ balanceOf' \in [User -> Nat] /\ totalSupply \in Nat
  <2>1. balanceOf[u] \in Nat /\ balanceOf[u] - v \in Nat  BY MoneyFacts, SMTT(30)
  <2> QED  BY <1>1, <2>1, MoneyFacts, Zenon
<1>3. /\ x \notin burns /\ (\A e \in burns : e.txHash # x.txHash)
      /\ Numbered(burns \cup {x})
  BY EventFacts, NewEvent, Zenon DEF IInv
<1>4. x \in Event
  <2>1. Cardinality(burns) \in Nat /\ scenario.events \in Nat  BY EventFacts, ScenarioFacts, Zenon DEF IInv
  <2>2. Cardinality(burns) + 1 \in TxHash  BY <1>1, <2>1 DEF TxHash
  <2> QED  BY <2>2, SMTT(30) DEF Event
<1>5. totalSupply' = Sum(balanceOf', User) /\ totalSupply' \in Nat
  <2>1. Sum(balanceOf', User) + balanceOf[u] = Sum(balanceOf, User) + balanceOf'[u]
    <3> DEFINE f == balanceOf
               g == balanceOf'
    <3>1. \A y \in User \ {u} : f[y] = g[y]  BY <1>1, <1>2, Zenon
    <3>2. f \in [User -> Nat] /\ g \in [User -> Nat]  BY <1>2, Zenon
    <3>3. IsFiniteSet(User)  BY BridgeAssumption, Zenon
    <3> HIDE DEF f, g
    <3>4. Sum(g, User) + f[u] = Sum(f, User) + g[u]  BY <3>1, <3>2, <3>3, SumChange, ZenonT(60)
    <3> QED  BY <3>4, Zenon DEF f, g
  <2>2. balanceOf'[u] = balanceOf[u] - v /\ balanceOf[u] \in Nat
    BY <1>1, <1>2, Zenon
  <2>3. Sum(balanceOf, User) \in Nat /\ Sum(balanceOf', User) \in Nat
    BY <1>2, SumNat, BridgeAssumption, Zenon
  <2>4. totalSupply = Sum(balanceOf, User)  BY MoneyFacts, Zenon
  <2>5. totalSupply' = totalSupply - v  BY <1>1, Zenon
  <2>6. totalSupply' = Sum(balanceOf', User)
    BY <2>1, <2>2, <2>3, <2>4, <2>5
  <2> QED  BY <2>3, <2>6, Zenon
<1>6. TypeOK'
  <2>1. EventTypeOK'
    <3>1. EventTypeOK  BY Zenon DEF IInv, TypeOK
    <3>2. burns' \subseteq Event /\ processed \subseteq {e.txHash : e \in burns'}
      BY <1>1, <1>4, <3>1, Zenon DEF EventTypeOK
    <3> HIDE DEF x
    <3> QED  BY <1>1, <3>1, <3>2, Zenon DEF EventTypeOK, hth, external, history, money, Event, TxHash
  <2>2. TokenTypeOK'
    <3>1. TokenTypeOK  BY Zenon DEF IInv, TypeOK
    <3> QED  BY <1>1, <1>2, <1>5, <3>1, Zenon DEF TokenTypeOK
  <2> QED  BY <2>1, <2>2, Kept, SMTT(30) DEF TypeOK, hth, external, history, money
<1>7. x \notin Unreleased /\ Unreleased' = Unreleased \cup {x} /\ Unminted' = Unminted
  <2>1. x.txHash \notin processed
    BY <1>3, Zenon DEF IInv, TypeOK, EventTypeOK
  <2> QED
    BY <1>1, <1>3, <2>1, Zenon DEF Unminted, Unreleased, hth
<1>8. Total(Unreleased') = a + Total(Unreleased)
  <2>1. \A e \in Unreleased : e.amount \in Nat  BY EventFacts, Zenon
  <2>2. x.amount = a  BY Zenon
  <2> HIDE DEF x
  <2> QED  BY <1>7, <2>1, <2>2, EventFacts, TotalAdd, Zenon
<1>9. Backed'
  <2> DEFINE T == Total(Unminted)
             R == Total(Unreleased)
  <2>1. /\ balance \in Nat /\ withdrawn \in Nat /\ totalSupply \in Nat
        /\ funded \in Nat /\ T \in Nat /\ R \in Nat
        /\ balance + withdrawn >= totalSupply + T + R + funded
    BY MoneyFacts, EventFacts, Zenon
  <2>2. /\ balance' = balance /\ withdrawn' = withdrawn /\ totalSupply' = totalSupply - v
        /\ funded' = funded
    BY <1>1, Zenon DEF hth, history, money
  <2> HIDE DEF T, R, x
  <2>3. balance' + withdrawn' >= totalSupply' + T + (a + R) + funded'
    BY <2>1, <2>2
  <2> QED  BY <1>7, <1>8, <2>3, SMTT(30) DEF Backed, T, R
<1> QED
  BY <1>1, <1>3, <1>5, <1>6, <1>9, ZenonT(40)
     DEF IInv, FeesBounded, Numbered, SupplyIsHeld, hth, external, history, money

\* The other calls of users.
LEMMA UsersStep ==
  ASSUME FiniteLaws, IInv, Users
  PROVE  IInv'
<1>0. /\ scenario.bridges \subseteq ExtBridge /\ \A v \in scenario.amounts : v \in Nat
      /\ Max(scenario.amounts) \in Nat
      /\ balanceOf \in [User -> Nat] /\ allowance \in [User -> [ExtBridge -> Nat]]
  BY ScenarioFacts, Zenon DEF IInv, TypeOK, TokenTypeOK
<1>1. ASSUME NEW u \in User, NEW to \in User, NEW v \in scenario.amounts, transfer(u, to, v)
      PROVE  IInv'
  BY <1>1, TransferStep, Zenon
<1>2. ASSUME NEW u \in User, NEW to \in User, NEW b \in scenario.bridges,
             NEW v \in scenario.amounts, BridgeBack(u, to, b, v)
      PROVE  IInv'
  <2>1. v \in Nat /\ b \in ExtBridge  BY <1>0, Zenon
  <2>2. \A a \in {amountAfterFee(v, ext[b].fee), v} : a \in Nat /\ a <= v
    <3>1. ext[b].fee \in Nat /\ ext[b].fee <= 500
      <4>1. ext[b] \in ExtSettings /\ ext[b].fee <= 500
        BY <2>1, ZenonT(40) DEF IInv, TypeOK, FeesBounded
      <4> QED  BY <4>1, BridgeAssumption, Zenon DEF ExtSettings
    <3>2. v <= v  BY <2>1
    <3> QED  BY <2>1, <3>1, <3>2, FeeTaken, Zenon
  <2>3. /\ balanceOf[u] >= v /\ burned(u, v)
        /\ UNCHANGED <<hth, external, locks, history>>
    BY <1>2, Zenon DEF BridgeBack
  <2>5. PICK a \in {amountAfterFee(v, ext[b].fee), v} : Emit(to, a)
    BY <1>2, Zenon DEF BridgeBack
  <2>4. allowance' \in [User -> [ExtBridge -> Nat]]
    <3>1. allowance[u][b] >= v /\ allowance' = [allowance EXCEPT ![u][b] = @ - v]
      BY <1>2, Zenon DEF BridgeBack
    <3>2. allowance[u][b] - v \in Nat  BY <1>0, <2>1, <3>1
    <3> QED  BY <1>0, <2>1, <3>1, <3>2, Zenon
  <2> QED  BY <2>1, <2>2, <2>3, <2>4, <2>5, BurnStep, Zenon
<1>3. ASSUME NEW u \in User, NEW to \in User, NEW v \in scenario.amounts \cup {balanceOf[u]},
             burn(u, to, v)
      PROVE  IInv'
  <2>1. v \in Nat  BY <1>0, Zenon
  <2>2. v <= v  BY <2>1
  <2>3. /\ balanceOf[u] >= v /\ burned(u, v) /\ Emit(to, v)
        /\ UNCHANGED <<hth, external, locks, history>>
        /\ allowance' \in [User -> [ExtBridge -> Nat]]
    BY <1>0, <1>3, Zenon DEF burn
  <2> QED  BY <2>1, <2>2, <2>3, BurnStep, Zenon
<1>4. ASSUME NEW u \in User, NEW b \in scenario.bridges, approve(u, b, Max(scenario.amounts))
      PROVE  IInv'
  <2>1. /\ UNCHANGED <<totalSupply, balanceOf, processedMints, bridge, tokenPaused, hth, external,
                       locks, burns, history>>
        /\ allowance' \in [User -> [ExtBridge -> Nat]]
    BY <1>0, <1>4, SMTT(30) DEF approve
  <2>2. TypeOK' /\ FeesBounded'
    <3>1. TokenTypeOK  BY Zenon DEF IInv, TypeOK
    <3>2. TokenTypeOK'  BY <2>1, <3>1, Zenon DEF TokenTypeOK
    <3> QED  BY <2>1, <3>2, Kept, Zenon DEF TypeOK, hth, external, history, money
  <2> QED  BY <2>1, <2>2, Still, Zenon DEF hth, history, money
<1> QED  BY <1>1, <1>2, <1>3, <1>4, Zenon DEF Users

\* setFee, setLimits, pause and setSupportedChain of HTHBridge.
LEMMA NativeStep ==
  ASSUME IInv, NEW s \in NativeSettings, s.fee <= 500, Native(s)
  PROVE  IInv'
<1>1. TypeOK' /\ FeesBounded'
  <2>1. HthTypeOK /\ FeesBounded  BY Zenon DEF IInv, TypeOK
  <2>2. HthTypeOK' /\ FeesBounded'
    BY <2>1, Zenon DEF Native, HthTypeOK, FeesBounded, external, history, money, Day
  <2> QED  BY <2>2, Kept, Zenon DEF Native, TypeOK, token, external, history, money
<1> QED  BY <1>1, Still, Zenon DEF Native, token, history, money

\* The same of HTHBridgeExternal.
LEMMA ExternalStep ==
  ASSUME IInv, NEW b \in ExtBridge, NEW s \in ExtSettings, s.fee <= 500, External(b, s)
  PROVE  IInv'
<1>1. ext' \in [ExtBridge -> ExtSettings] /\ \A d \in ExtBridge : ext'[d].fee <= 500
  BY ZenonT(30) DEF External, IInv, TypeOK, FeesBounded
<1>2. UNCHANGED <<extProcessed, hth, token, locks, burns, history>>
  BY Zenon DEF External
<1>3. TypeOK' /\ FeesBounded'
  <2>1. FeesBounded'  BY <1>1, <1>2, Zenon DEF IInv, FeesBounded, hth
  <2> QED  BY <1>1, <1>2, <2>1, Kept, Zenon DEF TypeOK, hth, token, history, money
<1> QED  BY <1>2, <1>3, Still, Zenon DEF hth, token, history, money

\* Calls of the owners.
LEMMA AdminStep ==
  ASSUME FiniteLaws, IInv, Admin
  PROVE  IInv'
<1>0. /\ scenario.bridges \subseteq ExtBridge /\ scenario.fees \subseteq Fee
      /\ scenario.limits \subseteq Limits /\ scenario.extLimits \subseteq ExtLimits
      /\ native \in NativeSettings /\ native.fee <= 500
      /\ ext \in [ExtBridge -> ExtSettings] /\ \A b \in ExtBridge : ext[b].fee <= 500
      /\ Fee \subseteq Nat /\ scenario.switches \subseteq BOOLEAN
  BY ScenarioFacts, BridgeAssumption, Zenon DEF IInv, TypeOK, HthTypeOK, FeesBounded
<1>1. ASSUME NEW v \in scenario.amounts, Fund(v) \/ emergencyWithdraw(v) PROVE IInv'
  BY <1>1, FundStep, Zenon
<1>2. ASSUME NEW f \in scenario.fees, setFee(f) PROVE IInv'
  <2>1. [native EXCEPT !.fee = f] \in NativeSettings /\ [native EXCEPT !.fee = f].fee <= 500
    BY <1>0, <1>2 DEF NativeSettings, setFee
  <2> QED  BY <1>2, <2>1, NativeStep, Zenon DEF setFee
<1>3. ASSUME NEW l \in scenario.limits, setLimits(l) PROVE IInv'
  <2>1. [native EXCEPT !.limits = l] \in NativeSettings /\ [native EXCEPT !.limits = l].fee <= 500
    BY <1>0, <1>3, ZenonT(40) DEF NativeSettings
  <2> QED  BY <1>3, <2>1, NativeStep, Zenon DEF setLimits
<1>4. ASSUME NEW p \in scenario.switches, pause(p) PROVE IInv'
  <2>1. [native EXCEPT !.paused = p] \in NativeSettings /\ [native EXCEPT !.paused = p].fee <= 500
    BY <1>0 DEF NativeSettings
  <2> QED  BY <1>4, <2>1, NativeStep, Zenon DEF pause
<1>10. ASSUME NEW p \in scenario.switches, setSupportedChain(p) PROVE IInv'
  <2>1. /\ [native EXCEPT !.supported = p] \in NativeSettings
        /\ [native EXCEPT !.supported = p].fee <= 500
    BY <1>0 DEF NativeSettings
  <2> QED  BY <1>10, <2>1, NativeStep, Zenon DEF setSupportedChain
<1>5. ASSUME NEW b \in scenario.bridges, NEW f \in scenario.fees, extSetFee(b, f) PROVE IInv'
  <2>1. [ext[b] EXCEPT !.fee = f] \in ExtSettings /\ [ext[b] EXCEPT !.fee = f].fee <= 500
    BY <1>0, <1>5 DEF ExtSettings, extSetFee
  <2> QED  BY <1>0, <1>5, <2>1, ExternalStep, Zenon DEF extSetFee
<1>6. ASSUME NEW b \in scenario.bridges, NEW l \in scenario.extLimits, extSetLimits(b, l) PROVE IInv'
  <2>1. [ext[b] EXCEPT !.limits = l] \in ExtSettings /\ [ext[b] EXCEPT !.limits = l].fee <= 500
    BY <1>0 DEF ExtSettings
  <2> QED  BY <1>0, <1>6, <2>1, ExternalStep, Zenon DEF extSetLimits
<1>7. ASSUME NEW b \in scenario.bridges, NEW p \in scenario.switches, extPause(b, p) PROVE IInv'
  <2>1. [ext[b] EXCEPT !.paused = p] \in ExtSettings /\ [ext[b] EXCEPT !.paused = p].fee <= 500
    BY <1>0 DEF ExtSettings
  <2> QED  BY <1>0, <1>7, <2>1, ExternalStep, Zenon DEF extPause
<1>8. ASSUME NEW p \in scenario.switches, pauseToken(p) PROVE IInv'
  <2>1. TypeOK' /\ FeesBounded'
    <3>1. TokenTypeOK  BY Zenon DEF IInv, TypeOK
    <3>2. TokenTypeOK'  BY <1>0, <1>8, <3>1, Zenon DEF pauseToken, TokenTypeOK
    <3> QED  BY <1>8, <3>2, Kept, Zenon DEF pauseToken, TypeOK, hth, external, history, money
  <2> QED  BY <1>8, <2>1, Still, ZenonT(60) DEF pauseToken, hth, history, money
<1>9. ASSUME NEW b \in scenario.bridges, setBridge(b) PROVE IInv'
  <2>1. TypeOK' /\ FeesBounded'
    <3>1. TokenTypeOK  BY SMTT(30) DEF IInv, TypeOK
    <3>2. TokenTypeOK'  BY <1>0, <1>9, <3>1 DEF setBridge, TokenTypeOK
    <3> QED  BY <1>9, <3>2, Kept, Zenon DEF setBridge, TypeOK, hth, external, history, money
  <2> QED  BY <1>9, <2>1, Still, ZenonT(60) DEF setBridge, hth, history, money
<1> QED  BY <1>1, <1>2, <1>3, <1>4, <1>5, <1>6, <1>7, <1>8, <1>9, <1>10, Zenon DEF Admin

\* The steps of Contracts.
AnyNext ==
  \/ \E u, to \in User, v \in scenario.amounts : Lock(u, to, v)
  \/ Tick \/ Users \/ Relay \/ Admin

\* Every step keeps the invariant.
LEMMA NextIInv ==
  ASSUME FiniteLaws
  PROVE  IInv /\ [AnyNext]_vars => IInv'
<1> SUFFICES ASSUME IInv, [AnyNext]_vars PROVE IInv'
  BY Zenon
<1>1. ASSUME NEW u \in User, NEW to \in User, NEW v \in scenario.amounts, Lock(u, to, v)
      PROVE  IInv'
  BY <1>1, LockStep, Zenon
<1>2. CASE Tick
  <2>1. sinceReset' \in 0..Day /\ sinceUserReset' \in [User -> 0..Day]
    <3>1. Day \in Nat  BY ScenarioFacts, Zenon DEF IInv
    <3>2. \A a \in 0..Day : Older(a) \in 0..Day  BY <3>1 DEF Older
    <3>3. sinceReset \in 0..Day /\ sinceUserReset \in [User -> 0..Day]  BY Zenon DEF IInv, TypeOK, HthTypeOK
    <3> QED  BY <1>2, <3>2, <3>3, Zenon DEF Tick
  <2>2. TypeOK' /\ FeesBounded'
    <3>1. HthTypeOK  BY Zenon DEF IInv, TypeOK
    <3>2. HthTypeOK'  BY <1>2, <2>1, <3>1, Zenon DEF Tick, HthTypeOK, money, Day
    <3> QED  BY <1>2, <3>2, Kept, Zenon DEF Tick, TypeOK, token, external, money
  <2> QED  BY <1>2, <2>2, Still, Zenon DEF Tick, token, money
<1>3. CASE Users  BY <1>3, UsersStep, Zenon
<1>4. CASE Relay
  <2>1. scenario.bridges \subseteq ExtBridge  BY ScenarioFacts, Zenon DEF IInv
  <2> QED  BY <1>4, <2>1, MintStep, ReleaseStep, Zenon DEF Relay
<1>5. CASE Admin  BY <1>5, AdminStep
<1>6. CASE UNCHANGED vars
  <2>1. TypeOK' /\ FeesBounded'
    BY <1>6, Kept, Zenon DEF vars, TypeOK, hth, token, external, history, money
  <2> QED  BY <1>6, <2>1, Still, SMTT(30) DEF vars, hth, token, history, money
<1> QED  BY <1>1, <1>2, <1>3, <1>4, <1>5, <1>6, Zenon DEF AnyNext

-----------------------------------------------------------------------------
(* The value locked in a day.                                             *)

Entry == [by : User, value : Nat, age : 0..Day]

Values(lg) == [i \in DOMAIN lg |-> lg[i].value]

RecentOf(lg, U, day) == {i \in DOMAIN lg : lg[i].age < day /\ lg[i].by \in U}

Split(lg, U, day, total, age, limit, mid, new) ==
  /\ mid \cap new = {} /\ RecentOf(lg, U, day) \subseteq mid \cup new
  /\ \A i \in mid : lg[i].age >= age
  /\ Sum(Values(lg), mid) <= limit /\ Sum(Values(lg), new) = total

Window(lg, U, day, total, age, limit) ==
  /\ total <= limit
  /\ \E mid \in SUBSET DOMAIN lg : \E new \in SUBSET DOMAIN lg :
        Split(lg, U, day, total, age, limit, mid, new)

WInv ==
  /\ log \in Seq(Entry)
  /\ native.limits.daily <= scenario.start.daily /\ native.limits.user <= scenario.start.user
  /\ Window(log, User, Day, dailyBridged, sinceReset, scenario.start.daily)
  /\ \A u \in User :
        Window(log, {u}, Day, userDailyBridged[u], sinceUserReset[u], scenario.start.user)

\* What an entry of a log is, and that there are finitely many.
LEMMA LogFacts ==
  ASSUME FiniteLaws, NEW lg \in Seq(Entry)
  PROVE  /\ IsFiniteSet(DOMAIN lg)
         /\ \A i \in DOMAIN lg : /\ lg[i] \in Entry /\ lg[i].by \in User /\ lg[i].value \in Nat
                                 /\ lg[i].age \in 0..Day
<1>1. DOMAIN lg = 1..Len(lg) /\ Len(lg) \in Nat  OBVIOUS
<1>2. IsFiniteSet(1..Len(lg))  BY <1>1, IntervalFinite, Zenon
<1>3. \A i \in DOMAIN lg : lg[i] \in Entry  OBVIOUS
<1> QED  BY <1>1, <1>2, <1>3, Zenon DEF Entry

\* Sums over part of a log, and over the same part of a log with those values.
LEMMA SameValues ==
  ASSUME FiniteLaws, NEW lg \in Seq(Entry), NEW lh, NEW s, s \subseteq DOMAIN lg, s \subseteq DOMAIN lh,
         \A i \in s : lh[i].value = lg[i].value
  PROVE  Sum(Values(lh), s) = Sum(Values(lg), s) /\ Sum(Values(lg), s) \in Nat
<1>1. IsFiniteSet(s)  BY LogFacts, SubsetFinite, Zenon
<1>2. \A i \in s : Values(lg)[i] = Values(lh)[i] /\ Values(lg)[i] \in Nat
  BY LogFacts, Zenon DEF Values
<1> DEFINE f == Values(lg)
           h == Values(lh)
<1>3. \A i \in s : f[i] = h[i] /\ f[i] \in Nat  BY <1>2, Zenon
<1> HIDE DEF f, h
<1>4. Sum(f, s) = Sum(h, s)  BY <1>1, <1>3, SumSame, Zenon
<1>5. Sum(f, s) \in Nat  BY <1>1, <1>3, SumNat, Zenon
<1> QED  BY <1>4, <1>5, Zenon DEF f, h

\* A log with one more entry.
LEMMA AppendFacts ==
  ASSUME NEW lg \in Seq(Entry), NEW e \in Entry
  PROVE  LET n == Len(lg) + 1
             lh == Append(lg, e)
         IN  /\ lh \in Seq(Entry) /\ DOMAIN lh = DOMAIN lg \cup {n} /\ n \notin DOMAIN lg
             /\ lh[n] = e /\ \A i \in DOMAIN lg : lh[i] = lg[i]
OBVIOUS

\* bridge() called by one of U: its total is reset when a day has passed, and
\* counts the new lock.
LEMMA WindowLocked ==
  ASSUME FiniteLaws, Day \in Nat \ {0}, NEW lg \in Seq(Entry), NEW e \in Entry, e.age = 0,
         NEW U, NEW total \in Nat, NEW age \in 0..Day, NEW limit \in Nat,
         Window(lg, U, Day, total, age, limit), ResetTotal(total, age) + e.value <= limit
  PROVE  Window(Append(lg, e), U, Day, ResetTotal(total, age) + e.value, ResetTime(age), limit)
<1> DEFINE n == Len(lg) + 1
           lh == Append(lg, e)
<1>1. /\ lh \in Seq(Entry) /\ DOMAIN lh = DOMAIN lg \cup {n} /\ n \notin DOMAIN lg
      /\ lh[n] = e /\ \A i \in DOMAIN lg : lh[i] = lg[i]
  BY AppendFacts, Zenon
<1>2. PICK mid \in SUBSET DOMAIN lg, new \in SUBSET DOMAIN lg :
        Split(lg, U, Day, total, age, limit, mid, new)
  BY Zenon DEF Window
<1>3. e.value \in Nat  BY Zenon DEF Entry
<1> HIDE DEF n, lh
<1>4. \A s \in SUBSET DOMAIN lg :
        Sum(Values(lh), s) = Sum(Values(lg), s) /\ Sum(Values(lg), s) \in Nat
  BY <1>1, SameValues
<1>5. \A s \in SUBSET DOMAIN lg : Sum(Values(lh), s \cup {n}) = Sum(Values(lh), s) + e.value
  <2> TAKE s \in SUBSET DOMAIN lg
  <2> DEFINE f == Values(lh)
             S == s \cup {n}
  <2>1. S \ {n} = s /\ n \in S /\ S \subseteq DOMAIN lh  BY <1>1, Zenon
  <2>2. IsFiniteSet(S)  BY <1>1, <2>1, LogFacts, SubsetFinite, Zenon
  <2>3. f[n] = e.value /\ \A i \in S : f[i] \in Nat  BY <1>1, <2>1, LogFacts, Zenon DEF Values
  <2> HIDE DEF f, S
  <2>4. Sum(f, S) = f[n] + Sum(f, S \ {n})  BY <2>1, <2>2, <2>3, SumRemove, Zenon
  <2>5. Sum(f, s) \in Nat  BY <1>4, Zenon DEF f
  <2>6. Sum(f, S) = e.value + Sum(f, s)  BY <2>1, <2>3, <2>4, Zenon
  <2>7. e.value + Sum(f, s) = Sum(f, s) + e.value  BY <1>3, <2>5
  <2> QED  BY <2>6, <2>7, Zenon DEF f, S
<1>6. RecentOf(lh, U, Day) \subseteq RecentOf(lg, U, Day) \cup {n}
  BY <1>1, Zenon DEF RecentOf
<1>7. CASE age = Day
  <2>1. RecentOf(lg, U, Day) \subseteq new
    <3>1. \A i \in mid : ~(lg[i].age < Day)  BY <1>2, <1>7, LogFacts DEF Split
    <3> QED  BY <1>2, <3>1, Zenon DEF Split, RecentOf
  <2>2. Sum(Values(lh), {n}) = e.value
    <3>1. Sum(Values(lh), {} \cup {n}) = Sum(Values(lh), {}) + e.value  BY <1>5, Zenon
    <3>2. {} \cup {n} = {n} /\ Sum(Values(lh), {}) = 0  BY SumEmpty, Zenon
    <3> QED  BY <1>3, <3>1, <3>2
  <2>3. Sum(Values(lh), new) <= limit
    BY <1>2, <1>4, Zenon DEF Split, Window
  <2>4. \A i \in new : lh[i].age >= 0  BY <1>1, LogFacts
  <2>5. ResetTotal(total, age) + e.value = e.value /\ ResetTime(age) = 0
    BY <1>3, <1>7 DEF ResetTotal, ResetTime
  <2>6. Split(lh, U, Day, e.value, 0, limit, new, {n})
    BY <1>1, <1>6, <2>1, <2>2, <2>3, <2>4, Zenon DEF Split
  <2>7. new \in SUBSET DOMAIN lh /\ {n} \in SUBSET DOMAIN lh  BY <1>1, Zenon
  <2>8. Window(lh, U, Day, e.value, 0, limit)
    BY <2>5, <2>6, <2>7, Zenon DEF Window
  <2> QED  BY <2>5, <2>8, Zenon DEF lh
<1>8. CASE age # Day
  <2> DEFINE more == new \cup {n}
  <2>1. more \in SUBSET DOMAIN lh /\ mid \in SUBSET DOMAIN lh  BY <1>1, Zenon
  <2>2. mid \cap more = {} /\ RecentOf(lh, U, Day) \subseteq mid \cup more
    BY <1>1, <1>2, <1>6, Zenon DEF Split
  <2>3. \A i \in mid : lh[i].age >= age  BY <1>1, <1>2, Zenon DEF Split
  <2>4. Sum(Values(lh), mid) <= limit /\ Sum(Values(lh), more) = total + e.value
    BY <1>2, <1>4, <1>5, Zenon DEF Split
  <2>5. ResetTotal(total, age) = total /\ ResetTime(age) = age
    BY <1>8, Zenon DEF ResetTotal, ResetTime
  <2> HIDE DEF more
  <2>6. Split(lh, U, Day, total + e.value, age, limit, mid, more)
    BY <2>2, <2>3, <2>4, Zenon DEF Split
  <2>7. Window(lh, U, Day, total + e.value, age, limit)
    BY <2>1, <2>5, <2>6, Zenon DEF Window
  <2> QED  BY <2>5, <2>7, Zenon DEF lh
<1> QED  BY <1>7, <1>8, Zenon

\* bridge() called by somebody else.
LEMMA WindowOther ==
  ASSUME FiniteLaws, NEW lg \in Seq(Entry), NEW e \in Entry, NEW U, e.by \notin U,
         NEW total, NEW age, NEW limit, Window(lg, U, Day, total, age, limit)
  PROVE  Window(Append(lg, e), U, Day, total, age, limit)
<1> DEFINE n == Len(lg) + 1
           lh == Append(lg, e)
<1>1. /\ lh \in Seq(Entry) /\ DOMAIN lh = DOMAIN lg \cup {n} /\ n \notin DOMAIN lg
      /\ lh[n] = e /\ \A i \in DOMAIN lg : lh[i] = lg[i]
  BY AppendFacts, Zenon
<1>2. PICK mid \in SUBSET DOMAIN lg, new \in SUBSET DOMAIN lg :
        Split(lg, U, Day, total, age, limit, mid, new)
  BY Zenon DEF Window
<1> HIDE DEF n, lh
<1>3. Sum(Values(lh), mid) = Sum(Values(lg), mid) /\ Sum(Values(lh), new) = Sum(Values(lg), new)
  BY <1>1, SameValues
<1>4. RecentOf(lh, U, Day) \subseteq RecentOf(lg, U, Day)  BY <1>1, Zenon DEF RecentOf
<1>5. \A i \in mid : lh[i].age >= age  BY <1>1, <1>2, Zenon DEF Split
<1>6. Split(lh, U, Day, total, age, limit, mid, new)
  BY <1>2, <1>3, <1>4, <1>5, Zenon DEF Split
<1>7. mid \in SUBSET DOMAIN lh /\ new \in SUBSET DOMAIN lh  BY <1>1, Zenon
<1>8. Window(lh, U, Day, total, age, limit)  BY <1>6, <1>7, Zenon DEF Window
<1> QED  BY <1>8, Zenon DEF lh

\* A tick of the clock.
LEMMA WindowTick ==
  ASSUME FiniteLaws, Day \in Nat \ {0}, NEW lg \in Seq(Entry),
         NEW U, NEW total, NEW age \in 0..Day, NEW limit, Window(lg, U, Day, total, age, limit)
  PROVE  LET lh == [i \in DOMAIN lg |-> [lg[i] EXCEPT !.age = Older(@)]]
         IN  lh \in Seq(Entry) /\ Window(lh, U, Day, total, Older(age), limit)
<1> DEFINE lh == [i \in DOMAIN lg |-> [lg[i] EXCEPT !.age = Older(@)]]
<1>1. /\ DOMAIN lh = DOMAIN lg
      /\ \A i \in DOMAIN lg : /\ lh[i] = [lg[i] EXCEPT !.age = Older(lg[i].age)]
  BY Zenon
<1>2. \A i \in DOMAIN lg : /\ lh[i] \in Entry /\ lh[i].by = lg[i].by /\ lh[i].value = lg[i].value
                           /\ lh[i].age = Older(lg[i].age)
  <2> TAKE i \in DOMAIN lg
  <2>1. lg[i] \in Entry /\ lg[i].age \in 0..Day  BY LogFacts, Zenon
  <2>2. Older(lg[i].age) \in 0..Day  BY <2>1 DEF Older
  <2> QED  BY <1>1, <2>1, <2>2, Zenon DEF Entry
<1>3. lh \in Seq(Entry)
  <2>1. DOMAIN lg = 1..Len(lg) /\ Len(lg) \in Nat  OBVIOUS
  <2> HIDE DEF lh
  <2>2. lh \in [1..Len(lg) -> Entry]
    <3>1. lh = [i \in DOMAIN lg |-> lh[i]]  BY Zenon DEF lh
    <3> QED  BY <1>2, <2>1, <3>1, Zenon
  <2> QED  BY <2>1, <2>2
<1>4. PICK mid \in SUBSET DOMAIN lg, new \in SUBSET DOMAIN lg :
        Split(lg, U, Day, total, age, limit, mid, new)
  BY Zenon DEF Window
<1> HIDE DEF lh
<1>5. Sum(Values(lh), mid) = Sum(Values(lg), mid) /\ Sum(Values(lh), new) = Sum(Values(lg), new)
  BY <1>1, <1>2, SameValues
<1>6. RecentOf(lh, U, Day) \subseteq RecentOf(lg, U, Day)
  <2>1. \A a \in 0..Day : Older(a) < Day => a < Day  BY DEF Older
  <2> QED  BY <1>1, <1>2, <2>1, LogFacts DEF RecentOf
<1>7. \A i \in mid : lh[i].age >= Older(age)
  <2>1. \A a \in 0..Day : a >= age => Older(a) >= Older(age)  BY DEF Older
  <2> QED  BY <1>1, <1>2, <1>4, <2>1, LogFacts, Zenon DEF Split
<1>8. Split(lh, U, Day, total, Older(age), limit, mid, new)
  BY <1>4, <1>5, <1>6, <1>7, Zenon DEF Split
<1>9. mid \in SUBSET DOMAIN lh /\ new \in SUBSET DOMAIN lh  BY <1>1, Zenon
<1>10. Window(lh, U, Day, total, Older(age), limit)  BY <1>8, <1>9, Zenon DEF Window
<1> QED  BY <1>3, <1>10, Zenon DEF lh

\* A window bounds what was locked in the last day.
LEMMA WindowBounds ==
  ASSUME FiniteLaws, log \in Seq(Entry), NEW U, NEW total \in Nat, NEW age, NEW limit \in Nat,
         Window(log, U, Day, total, age, limit)
  PROVE  RecentValue(U) <= 2 * limit
<1>1. PICK mid \in SUBSET DOMAIN log, new \in SUBSET DOMAIN log :
        Split(log, U, Day, total, age, limit, mid, new)
  BY Zenon DEF Window
<1> DEFINE f == Values(log)
           both == mid \cup new
           s == RecentOf(log, U, Day)
<1>2. /\ IsFiniteSet(mid) /\ IsFiniteSet(new) /\ IsFiniteSet(both) /\ \A i \in both : f[i] \in Nat
      /\ s \subseteq both /\ mid \cap new = {}
  <2>1. both \subseteq DOMAIN log  BY Zenon
  <2>2. \A i \in both : f[i] \in Nat  BY <2>1, LogFacts, Zenon DEF Values
  <2>3. IsFiniteSet(mid) /\ IsFiniteSet(new) /\ IsFiniteSet(both)  BY <2>1, LogFacts, SubsetFinite, Zenon
  <2> QED  BY <1>1, <2>2, <2>3, Zenon DEF Split
<1>3. Sum(f, mid) <= limit /\ Sum(f, new) <= limit
  BY <1>1, Zenon DEF Split, Window
<1>4. RecentValue(U) = Sum(f, s)  BY Zenon DEF RecentValue, Recent, RecentOf, Values
<1> HIDE DEF f, s
<1>5. Sum(f, both) = Sum(f, mid) + Sum(f, new)  BY <1>2, SumUnion, Zenon
<1> HIDE DEF both
<1>6. Sum(f, s) <= Sum(f, both)  BY <1>2, SumMono, Zenon
<1>7. Sum(f, mid) \in Nat /\ Sum(f, new) \in Nat /\ Sum(f, s) \in Nat
  <2>1. IsFiniteSet(s)  BY <1>2, SubsetFinite, Zenon
  <2>2. \A i \in s : f[i] \in Nat  BY <1>2, Zenon
  <2>3. \A i \in mid : f[i] \in Nat  BY <1>2, Zenon DEF both
  <2>4. \A i \in new : f[i] \in Nat  BY <1>2, Zenon DEF both
  <2> QED  BY <1>2, <2>1, <2>2, <2>3, <2>4, SumNat, Zenon
<1> QED  BY <1>3, <1>4, <1>5, <1>6, <1>7

\* No call but bridge(), setLimits and the clock touches what the limits count.
LEMMA LimitsStill ==
  ASSUME IInv, Users \/ Relay \/ Admin
  PROVE  /\ UNCHANGED <<log, dailyBridged, userDailyBridged, sinceReset, sinceUserReset, scenario>>
         /\ native'.limits = native.limits \/ native'.limits \in scenario.limits
<1>1. CASE Users
  <2>1. ASSUME NEW u, NEW to, NEW v, transfer(u, to, v)
        PROVE  UNCHANGED <<hth, history>>
    BY <2>1, Zenon DEF transfer
  <2>2. ASSUME NEW u, NEW to, NEW b, NEW v, BridgeBack(u, to, b, v)
        PROVE  UNCHANGED <<hth, history>>
    BY <2>2, Zenon DEF BridgeBack
  <2>3. ASSUME NEW u, NEW to, NEW v, burn(u, to, v)
        PROVE  UNCHANGED <<hth, history>>
    BY <2>3, Zenon DEF burn
  <2>4. ASSUME NEW u, NEW b, NEW v, approve(u, b, v)
        PROVE  UNCHANGED <<hth, history>>
    BY <2>4, Zenon DEF approve
  <2>5. UNCHANGED <<hth, history>>
    BY <1>1, <2>1, <2>2, <2>3, <2>4, Zenon DEF Users
  <2> QED  BY <2>5, Zenon DEF hth, history, money
<1>2. CASE Relay
  <2>1. ASSUME NEW b, NEW e, Mint(b, e)
        PROVE  UNCHANGED <<hth, history>>
    BY <2>1, Zenon DEF Mint
  <2>2. ASSUME NEW e, Release(e)
        PROVE  UNCHANGED <<log, dailyBridged, userDailyBridged, sinceReset, sinceUserReset, native,
                           scenario>>
    BY <2>2, Zenon DEF Release, history, money
  <2> QED  BY <1>2, <2>1, <2>2, Zenon DEF Relay, hth, history, money
<1>3. CASE Admin
  <2>0. native = [paused |-> native.paused, supported |-> native.supported, fee |-> native.fee,
                  limits |-> native.limits]
    BY Zenon DEF IInv, TypeOK, HthTypeOK, NativeSettings
  <2>1. ASSUME NEW v, Fund(v) \/ emergencyWithdraw(v)
        PROVE  UNCHANGED <<log, dailyBridged, userDailyBridged, sinceReset, sinceUserReset, native,
                           scenario>>
    BY <2>1, Zenon DEF Fund, emergencyWithdraw
  <2>2. ASSUME NEW s, Native(s)
        PROVE  native' = s /\ UNCHANGED <<log, dailyBridged, userDailyBridged, sinceReset,
                                          sinceUserReset, scenario>>
    BY <2>2, Zenon DEF Native, history, money
  <2>3. ASSUME NEW f, setFee(f) PROVE native'.limits = native.limits
    BY <2>0, <2>2, <2>3 DEF setFee
  <2>4. ASSUME NEW f, pause(f) \/ setSupportedChain(f) PROVE native'.limits = native.limits
    BY <2>0, <2>2, <2>4 DEF pause, setSupportedChain
  <2>5. ASSUME NEW l, setLimits(l) PROVE native'.limits = l
    BY <2>0, <2>2, <2>5 DEF setLimits
  <2>6. ASSUME NEW b, NEW f, \/ extSetFee(b, f) \/ extSetLimits(b, f) \/ extPause(b, f)
                             \/ pauseToken(f) \/ setBridge(b)
        PROVE  UNCHANGED <<hth, history>>
    BY <2>6, Zenon DEF extSetFee, extSetLimits, extPause, External, pauseToken, setBridge
  <2>7. ASSUME NEW f, setFee(f) \/ pause(f) \/ setSupportedChain(f) \/ setLimits(f)
        PROVE  UNCHANGED <<log, dailyBridged, userDailyBridged, sinceReset, sinceUserReset,
                           scenario>>
    BY <2>2, <2>7, Zenon DEF setFee, pause, setSupportedChain, setLimits
  <2> QED
    BY <1>3, <2>1, <2>3, <2>4, <2>5, <2>6, <2>7, Zenon DEF Admin, hth, history, money
<1> QED  BY <1>1, <1>2, <1>3, Zenon

\* The facts about the limits that the steps need.
LEMMA LimitFacts ==
  ASSUME IInv, WInv
  PROVE  /\ Day \in Nat \ {0} /\ scenario.start.daily \in Nat /\ scenario.start.user \in Nat
         /\ native.limits.daily \in Nat /\ native.limits.user \in Nat
         /\ dailyBridged \in Nat /\ sinceReset \in 0..Day
         /\ userDailyBridged \in [User -> Nat] /\ sinceUserReset \in [User -> 0..Day]
<1>1. Day \in Nat \ {0} /\ scenario.start \in Limits  BY ScenarioFacts, BridgeAssumption, Zenon DEF IInv
<1>2. native.limits \in Limits  BY Zenon DEF IInv, TypeOK, HthTypeOK, NativeSettings
<1>3. \A l \in Limits : l.daily \in Nat /\ l.user \in Nat  BY BridgeAssumption, Zenon
<1> QED  BY <1>1, <1>2, <1>3, Zenon DEF IInv, TypeOK, HthTypeOK

\* Nothing is locked at first.
LEMMA InitWInv ==
  ASSUME FiniteLaws
  PROVE  Init => WInv
<1> SUFFICES ASSUME Init PROVE WInv
  OBVIOUS
<1>1. log = <<>> /\ native.limits = scenario.start /\ scenario \in Scenarios  BY Zenon DEF Init
<1>2. scenario.start.daily \in Nat /\ scenario.start.user \in Nat
  <2>1. scenario.start \in Limits  BY <1>1, BridgeAssumption, Zenon
  <2> QED  BY <2>1, BridgeAssumption, Zenon
<1>3. ASSUME NEW U, NEW age, NEW limit \in Nat PROVE Window(log, U, Day, 0, age, limit)
  <2>1. DOMAIN log = {} /\ {} \in SUBSET DOMAIN log  BY <1>1
  <2>2. Sum(Values(log), {}) = 0  BY SumEmpty, Zenon
  <2>3. RecentOf(log, U, Day) = {}  BY <2>1, Zenon DEF RecentOf
  <2>4. Split(log, U, Day, 0, age, limit, {}, {})  BY <2>2, <2>3 DEF Split
  <2> QED  BY <2>1, <2>4 DEF Window
<1>4. dailyBridged = 0 /\ \A u \in User : userDailyBridged[u] = 0  BY Zenon DEF Init
<1>5. log \in Seq(Entry)  BY <1>1
<1> QED  BY <1>1, <1>2, <1>3, <1>4, <1>5 DEF WInv

\* Every step keeps the windows, if the limits are never raised.
LEMMA NextWInv ==
  ASSUME FiniteLaws, LimitsNeverRaised, IInv, WInv, [AnyNext]_vars
  PROVE  WInv'
<1>0. /\ Day \in Nat \ {0} /\ scenario.start.daily \in Nat /\ scenario.start.user \in Nat
      /\ native.limits.daily \in Nat /\ native.limits.user \in Nat
      /\ dailyBridged \in Nat /\ sinceReset \in 0..Day
      /\ userDailyBridged \in [User -> Nat] /\ sinceUserReset \in [User -> 0..Day]
  BY LimitFacts, Zenon
<1>1. ASSUME NEW u \in User, NEW to \in User, NEW v \in scenario.amounts, Lock(u, to, v)
      PROVE  WInv'
  <2> DEFINE e == [by |-> u, value |-> v, age |-> 0]
             lh == Append(log, e)
             daily == ResetTotal(dailyBridged, sinceReset) + v
             userDaily == ResetTotal(userDailyBridged[u], sinceUserReset[u]) + v
  <2>1. /\ log' = lh /\ UNCHANGED <<native, scenario>>
        /\ dailyBridged' = daily /\ sinceReset' = ResetTime(sinceReset)
        /\ userDailyBridged' = [userDailyBridged EXCEPT ![u] = userDaily]
        /\ sinceUserReset' = [sinceUserReset EXCEPT ![u] = ResetTime(sinceUserReset[u])]
        /\ daily <= native.limits.daily /\ userDaily <= native.limits.user
    BY <1>1, Zenon DEF Lock, money
  <2>2. v \in Nat  BY ScenarioFacts, Zenon DEF IInv
  <2>20. 0 \in 0..Day  BY <1>0
  <2>21. e \in Entry  BY <2>2, <2>20, Zenon DEF Entry
  <2>22. e.age = 0 /\ e.by = u /\ e.value = v  BY Zenon
  <2>3. e \in Entry /\ e.age = 0 /\ e.by = u /\ e.value = v  BY <2>21, <2>22, Zenon
  <2>4. lh \in Seq(Entry) /\ log \in Seq(Entry)  BY <2>3 DEF WInv
  <2>5. Entry' = Entry /\ Day' = Day  BY <2>1, Zenon DEF Entry, Day
  <2>6. daily <= scenario.start.daily /\ userDaily <= scenario.start.user
    <3>1. daily \in Nat /\ userDaily \in Nat  BY <1>0, <2>2 DEF ResetTotal
    <3>2. daily <= native.limits.daily /\ userDaily <= native.limits.user  BY <2>1, Zenon
    <3>3. /\ native.limits.daily <= scenario.start.daily
          /\ native.limits.user <= scenario.start.user
      BY Zenon DEF WInv
    <3> HIDE DEF daily, userDaily
    <3> QED  BY <1>0, <3>1, <3>2, <3>3
  <2> HIDE DEF e
  <2>7. Window(lh, User, Day, daily, ResetTime(sinceReset), scenario.start.daily)
    BY <1>0, <2>3, <2>4, <2>6, WindowLocked, Zenon DEF WInv
  <2>8. ASSUME NEW w \in User
        PROVE  Window(lh, {w}, Day, userDailyBridged'[w], sinceUserReset'[w], scenario.start.user)
    <3>0. Window(log, {w}, Day, userDailyBridged[w], sinceUserReset[w], scenario.start.user)
      BY Zenon DEF WInv
    <3>1. CASE w = u
      <4>1. userDailyBridged'[w] = userDaily /\ sinceUserReset'[w] = ResetTime(sinceUserReset[u])
        BY <1>0, <2>1, <3>1, Zenon
      <4>2. userDailyBridged[u] \in Nat /\ sinceUserReset[u] \in 0..Day  BY <1>0, Zenon
      <4>3. Window(lh, {u}, Day, userDaily, ResetTime(sinceUserReset[u]), scenario.start.user)
        BY <1>0, <2>3, <2>4, <2>6, <3>0, <3>1, <4>2, WindowLocked, Zenon
      <4> QED  BY <3>1, <4>1, <4>3, Zenon
    <3>2. CASE w # u
      <4>1. userDailyBridged'[w] = userDailyBridged[w] /\ sinceUserReset'[w] = sinceUserReset[w]
        BY <1>0, <2>1, <3>2, Zenon
      <4>2. e.by \notin {w}  BY <2>3, <3>2, Zenon
      <4>3. Window(lh, {w}, Day, userDailyBridged[w], sinceUserReset[w], scenario.start.user)
        BY <2>3, <2>4, <3>0, <4>2, WindowOther, Zenon
      <4> QED  BY <4>1, <4>3, Zenon
    <3> QED  BY <3>1, <3>2, Zenon
  <2> HIDE DEF lh, daily, userDaily
  <2> QED  BY <2>1, <2>4, <2>5, <2>7, <2>8, Zenon DEF WInv
<1>2. CASE Tick
  <2> DEFINE lh == [i \in DOMAIN log |-> [log[i] EXCEPT !.age = Older(@)]]
  <2>1. /\ log' = lh /\ UNCHANGED <<native, scenario, dailyBridged, userDailyBridged>>
        /\ sinceReset' = Older(sinceReset)
        /\ sinceUserReset' = [u \in User |-> Older(sinceUserReset[u])]
    BY <1>2, Zenon DEF Tick, money
  <2>2. Entry' = Entry /\ Day' = Day  BY <2>1, Zenon DEF Entry, Day
  <2>3. log \in Seq(Entry)  BY Zenon DEF WInv
  <2>4. lh \in Seq(Entry) /\ Window(lh, User, Day, dailyBridged, Older(sinceReset), scenario.start.daily)
    <3>1. Window(log, User, Day, dailyBridged, sinceReset, scenario.start.daily)  BY Zenon DEF WInv
    <3> QED  BY <1>0, <2>3, <3>1, WindowTick, Zenon
  <2>5. \A w \in User :
          Window(lh, {w}, Day, userDailyBridged[w], Older(sinceUserReset[w]), scenario.start.user)
    <3> TAKE w \in User
    <3>1. Window(log, {w}, Day, userDailyBridged[w], sinceUserReset[w], scenario.start.user)
      BY Zenon DEF WInv
    <3>2. sinceUserReset[w] \in 0..Day  BY <1>0, Zenon
    <3> QED  BY <1>0, <2>3, <3>1, <3>2, WindowTick, Zenon
  <2> HIDE DEF lh
  <2> QED  BY <2>1, <2>2, <2>4, <2>5, Zenon DEF WInv
<1>3. CASE Users \/ Relay \/ Admin
  <2>1. /\ UNCHANGED <<log, dailyBridged, userDailyBridged, sinceReset, sinceUserReset, scenario>>
        /\ native'.limits = native.limits \/ native'.limits \in scenario.limits
    BY <1>3, LimitsStill, Zenon
  <2>2. Entry' = Entry /\ Day' = Day  BY <2>1, Zenon DEF Entry, Day
  <2>3. \A l \in scenario.limits : l.daily <= scenario.start.daily /\ l.user <= scenario.start.user
    BY Zenon DEF LimitsNeverRaised, IInv
  <2> QED  BY <2>1, <2>2, <2>3, Zenon DEF WInv
<1>4. CASE UNCHANGED vars
  <2>1. UNCHANGED <<log, dailyBridged, userDailyBridged, sinceReset, sinceUserReset, scenario, native>>
    BY <1>4, Zenon DEF vars, hth, history, money
  <2>2. Entry' = Entry /\ Day' = Day  BY <2>1, Zenon DEF Entry, Day
  <2> QED  BY <2>1, <2>2, Zenon DEF WInv
<1> QED  BY <1>1, <1>2, <1>3, <1>4, Zenon DEF AnyNext

-----------------------------------------------------------------------------
(* The laws of finite sets, from the library.                              *)

INSTANCE FiniteSetTheorems

\* A finite set has a smallest subset among any.
LEMMA SmallestSubset ==
  ASSUME NEW S, IsFiniteSet(S), NEW T, T \subseteq SUBSET S, T # {}
  PROVE  \E s \in T : \A t \in T : ~(t \subseteq s /\ t # s)
<1>1. IsWellFoundedOn(StrictSubsetOrdering(S), SUBSET S)
  BY FS_StrictSubsetOrderingWellFounded, FS_FiniteSubsetsOfFinite, Zenon
<1>2. PICK s \in T : \A t \in T : ~(<<t, s>> \in StrictSubsetOrdering(S))
  BY <1>1, WFMin, Zenon
<1> QED  BY <1>2, Zenon DEF StrictSubsetOrdering

\* What the lemmas assume holds.
LEMMA Laws == FiniteLaws
<1>1. IsFiniteSet({}) /\ Cardinality({}) = 0
  BY FS_EmptySet, Zenon
<1>2. ASSUME NEW S, IsFiniteSet(S)
      PROVE  /\ Cardinality(S) \in Nat
             /\ \A T \in SUBSET S : IsFiniteSet(T)
  BY <1>2, FS_CardinalityType, FS_Subset, Zenon
<1>3. ASSUME NEW S, NEW T, IsFiniteSet(S), IsFiniteSet(T) PROVE IsFiniteSet(S \cup T)
  BY <1>3, FS_Union, Zenon
<1>4. ASSUME NEW S, NEW x, IsFiniteSet(S)
      PROVE  /\ IsFiniteSet(S \cup {x})
             /\ Cardinality(S \cup {x}) = IF x \in S THEN Cardinality(S) ELSE Cardinality(S) + 1
  BY <1>4, FS_AddElement, Zenon
<1>5. ASSUME NEW n \in Nat PROVE IsFiniteSet(1..n)
  BY FS_Interval
<1>6. ASSUME NEW S, NEW T, IsFiniteSet(S), T \subseteq SUBSET S, T # {}
      PROVE  \E s \in T : \A t \in T : ~(t \subseteq s /\ t # s)
  BY <1>6, SmallestSubset
<1> QED  BY <1>1, <1>2, <1>3, <1>4, <1>5, <1>6, Zenon DEF FiniteLaws

-----------------------------------------------------------------------------
(* Theorems.                                                               *)

\* Reachable states satisfy the invariant.
LEMMA Invariant == Contracts => []IInv
<1>1. Init => IInv  BY Laws, InitIInv, Zenon
<1>2. IInv /\ [AnyNext]_vars => IInv'  BY Laws, NextIInv, Zenon
<1> QED  BY <1>1, <1>2, PTL DEF Contracts, AnyNext

\* The contracts' state stays well formed: no balance, supply or allowance ever
\* underflows.
THEOREM TypeCorrect == Contracts => []TypeOK
<1>1. IInv => TypeOK  BY Zenon DEF IInv
<1> QED  BY Invariant, <1>1, PTL

\* totalSupply of WrappedHTH is the sum of all balances, through mint, transfer,
\* burn and burnFrom.
THEOREM SupplyHeld == Contracts => []SupplyIsHeld
<1>1. IInv => SupplyIsHeld  BY Zenon DEF IInv
<1> QED  BY Invariant, <1>1, PTL

\* What HTHBridge holds, and what its owner withdrew, covers the wrapped supply,
\* everything in flight and what was deposited as liquidity, whatever the relayer
\* repeats or the owners change.
THEOREM WrappedIsBacked == Contracts => []Backed
<1>1. IInv => Backed  BY Zenon DEF IInv
<1> QED  BY Invariant, <1>1, PTL

\* As long as the owner withdraws no more than was deposited, completeBridge's
\* liquidity check refuses no outstanding burn, nor all of them one after another.
THEOREM BurnsPayable == Contracts => []BurnsArePayable
<1>1. IInv => BurnsArePayable
  <2> SUFFICES ASSUME IInv, withdrawn <= funded PROVE balance >= Total(Unreleased)
    BY Zenon DEF BurnsArePayable
  <2> DEFINE m == Total(Unminted)
             r == Total(Unreleased)
  <2>1. /\ balance \in Nat /\ withdrawn \in Nat /\ totalSupply \in Nat /\ funded \in Nat
        /\ m \in Nat /\ r \in Nat /\ balance + withdrawn >= totalSupply + m + r + funded
    BY Laws, MoneyFacts, EventFacts, Zenon
  <2> HIDE DEF m, r
  <2>2. balance >= r  BY <2>1
  <2> QED  BY <2>2, Zenon DEF r
<1> QED  BY Invariant, <1>1, PTL

\* The bounded behaviours that Spec allows are behaviours of the contracts.
THEOREM SpecIsBounded == Spec => Contracts
<1>1. [Next]_vars => [AnyNext]_vars  BY Zenon DEF Next, AnyNext
<1> QED  BY <1>1, PTL DEF Spec, Contracts, AnyNext

\* If the owner raises no limit, at most twice the daily limit is locked in any
\* day, and at most twice the user's limit by one user, whenever the counters of
\* _resetDailyLimits and _resetUserDailyLimit are reset.
THEOREM AtMostTwice == LimitsNeverRaised /\ Contracts => []TwiceTheLimit
<1> SUFFICES ASSUME LimitsNeverRaised PROVE Contracts => []TwiceTheLimit
  BY Zenon
<1>1. Init => IInv /\ WInv  BY Laws, InitIInv, InitWInv, Zenon
<1>2. IInv /\ WInv /\ [AnyNext]_vars => IInv' /\ WInv'  BY Laws, NextIInv, NextWInv, Zenon
<1>3. IInv /\ WInv => TwiceTheLimit
  <2> SUFFICES ASSUME IInv, WInv PROVE TwiceTheLimit
    BY Zenon
  <2>1. log \in Seq(Entry) /\ Window(log, User, Day, dailyBridged, sinceReset, scenario.start.daily)
    BY Zenon DEF WInv
  <2>2. RecentValue(User) <= 2 * scenario.start.daily
    BY <2>1, Laws, LimitFacts, WindowBounds, Zenon
  <2>3. ASSUME NEW u \in User PROVE RecentValue({u}) <= 2 * scenario.start.user
    <3>1. Window(log, {u}, Day, userDailyBridged[u], sinceUserReset[u], scenario.start.user)
      BY Zenon DEF WInv
    <3>2. userDailyBridged[u] \in Nat  BY Laws, LimitFacts, Zenon
    <3> QED  BY <2>1, <3>1, <3>2, Laws, LimitFacts, WindowBounds, Zenon
  <2> QED  BY <2>2, <2>3, Zenon DEF TwiceTheLimit
<1> QED  BY <1>1, <1>2, <1>3, PTL DEF Contracts, AnyNext

=============================================================================
