------------------------ MODULE ContractStateProofs ------------------------
(***************************************************************************)
(* Proofs about ContractState, for any blocks, contracts and contents: the *)
(* contract database follows a chain that only grows, and the last writes  *)
(* of the active chain stand over what other executions have left in it.   *)
(***************************************************************************)
EXTENDS ContractState, WellFoundedInduction, TLAPS

-----------------------------------------------------------------------------
(* The replay of a chain.  The recursive functions behind it exist, by the *)
(* least number for which they would not.                                  *)

\* A set of naturals has a least element.
LEMMA Least ==
  ASSUME NEW T, T \subseteq Nat, T # {}
  PROVE  \E n \in T : \A m \in T : n <= m
<1>1. PICK n \in T : \A m \in T : ~(<<m, n>> \in OpToRel(<, Nat))
  BY NatLessThanWellFounded, WFMin, Zenon
<1>2. n \in T /\ \A m \in T : ~(m < n)
  BY <1>1, Zenon DEF OpToRel
<1> QED  BY <1>2

\* g gives the states after the first outputs of b, n of them.
IsAfterOutputs(g, outs, s, ht, b, n) ==
  g = [i \in 0..n |-> IF i = 0 THEN s ELSE Apply(outs, g[i - 1], ht, b, i)]

\* Every such function starts at s and applies one output after the other.
LEMMA AfterOutputsSteps ==
  ASSUME NEW outs, NEW s, NEW ht, NEW b, Len(outs[b]) \in Nat
  PROVE  LET f == AfterOutputs(outs, s, ht, b)
         IN  /\ f[0] = s
             /\ \A i \in 1..Len(outs[b]) : f[i] = Apply(outs, f[i - 1], ht, b, i)
<1> DEFINE L == Len(outs[b])
           T == {n \in 0..L : ~\E g : IsAfterOutputs(g, outs, s, ht, b, n)}
           f == AfterOutputs(outs, s, ht, b)
<1>1. T = {}
  <2> SUFFICES ASSUME T # {} PROVE FALSE
    BY Zenon
  <2>1. PICK n \in T : \A m \in T : n <= m
    <3>1. T \subseteq Nat  OBVIOUS
    <3> HIDE DEF T
    <3> QED  BY <3>1, Least, Zenon
  <2>2. n # 0
    <3> DEFINE g == [i \in 0..0 |-> s]
    <3>1. IsAfterOutputs(g, outs, s, ht, b, 0)
      BY DEF IsAfterOutputs
    <3> QED  BY <2>1, <3>1, Zenon
  <2>3. PICK g : IsAfterOutputs(g, outs, s, ht, b, n - 1)
    <3>1. n - 1 \in 0..L /\ n - 1 \notin T  BY <2>1, <2>2
    <3> QED  BY <3>1, Zenon
  <2> DEFINE h == [i \in 0..n |-> IF i = n THEN Apply(outs, g[n - 1], ht, b, n) ELSE g[i]]
  <2>4. \A i \in 0..(n - 1) : g[i] = IF i = 0 THEN s ELSE Apply(outs, g[i - 1], ht, b, i)
    BY <2>3, Zenon DEF IsAfterOutputs
  <2>5. \A i \in 0..n : h[i] = IF i = 0 THEN s ELSE Apply(outs, h[i - 1], ht, b, i)
    <3> SUFFICES ASSUME NEW i \in 0..n
                 PROVE  h[i] = IF i = 0 THEN s ELSE Apply(outs, h[i - 1], ht, b, i)
      BY Zenon
    <3>1. i = 0 \/ h[i - 1] = g[i - 1]  BY <2>1
    <3>2. i = 0 \/ i = n \/ i \in 1..(n - 1)  BY <2>1
    <3>3. i # n => h[i] = g[i]  BY Zenon
    <3>4. h[n] = Apply(outs, g[n - 1], ht, b, n)  BY <2>1
    <3>5. i # n => i \in 0..(n - 1)  BY <2>1
    <3> HIDE DEF h
    <3> QED  BY <2>2, <2>4, <3>1, <3>2, <3>3, <3>4, <3>5, Zenon
  <2>6. IsAfterOutputs(h, outs, s, ht, b, n)
    <3>1. h = [i \in 0..n |-> h[i]]  BY Zenon
    <3> HIDE DEF h
    <3> QED  BY <2>5, <3>1, Zenon DEF IsAfterOutputs
  <2> QED  BY <2>1, <2>6, Zenon
<1>2. \E g : IsAfterOutputs(g, outs, s, ht, b, L)
  BY <1>1
<1>3. IsAfterOutputs(f, outs, s, ht, b, L)
  BY <1>2, Zenon DEF IsAfterOutputs, AfterOutputs
<1>4. \A i \in 0..L : f[i] = IF i = 0 THEN s ELSE Apply(outs, f[i - 1], ht, b, i)
  <2> HIDE DEF f, L
  <2> QED  BY <1>3, Zenon DEF IsAfterOutputs
<1> HIDE DEF f
<1>5. f[0] = s /\ \A i \in 1..L : f[i] = Apply(outs, f[i - 1], ht, b, i)
  BY <1>4
<1> QED  BY <1>5, Zenon DEF f

\* g gives the states after the first n blocks.
IsAfterBlocks(g, outs, blocks, n) ==
  g = [i \in 0..n |-> IF i = 0 THEN Empty ELSE ApplyBlock(outs, g[i - 1], i, blocks[i])]

\* Replay starts with the empty database and applies one block after the other.
LEMMA AfterBlocksSteps ==
  ASSUME NEW outs, NEW blocks, Len(blocks) \in Nat
  PROVE  LET f == AfterBlocks(outs, blocks)
         IN  /\ f[0] = Empty
             /\ \A i \in 1..Len(blocks) : f[i] = ApplyBlock(outs, f[i - 1], i, blocks[i])
<1> DEFINE L == Len(blocks)
           T == {n \in 0..L : ~\E g : IsAfterBlocks(g, outs, blocks, n)}
           f == AfterBlocks(outs, blocks)
<1>1. T = {}
  <2> SUFFICES ASSUME T # {} PROVE FALSE
    BY Zenon
  <2>1. PICK n \in T : \A m \in T : n <= m
    <3>1. T \subseteq Nat  OBVIOUS
    <3> HIDE DEF T
    <3> QED  BY <3>1, Least, Zenon
  <2>2. n # 0
    <3> DEFINE g == [i \in 0..0 |-> Empty]
    <3>1. IsAfterBlocks(g, outs, blocks, 0)
      BY DEF IsAfterBlocks
    <3> QED  BY <2>1, <3>1, Zenon
  <2>3. PICK g : IsAfterBlocks(g, outs, blocks, n - 1)
    <3>1. n - 1 \in 0..L /\ n - 1 \notin T  BY <2>1, <2>2
    <3> QED  BY <3>1, Zenon
  <2> DEFINE h == [i \in 0..n |->
                     IF i = n THEN ApplyBlock(outs, g[n - 1], n, blocks[n]) ELSE g[i]]
  <2>4. \A i \in 0..(n - 1) :
          g[i] = IF i = 0 THEN Empty ELSE ApplyBlock(outs, g[i - 1], i, blocks[i])
    BY <2>3, Zenon DEF IsAfterBlocks
  <2>5. \A i \in 0..n : h[i] = IF i = 0 THEN Empty ELSE ApplyBlock(outs, h[i - 1], i, blocks[i])
    <3> SUFFICES ASSUME NEW i \in 0..n
                 PROVE  h[i] = IF i = 0 THEN Empty ELSE ApplyBlock(outs, h[i - 1], i, blocks[i])
      BY Zenon
    <3>1. i = 0 \/ h[i - 1] = g[i - 1]  BY <2>1
    <3>2. i = 0 \/ i = n \/ i \in 1..(n - 1)  BY <2>1
    <3>3. i # n => h[i] = g[i]  BY Zenon
    <3>4. h[n] = ApplyBlock(outs, g[n - 1], n, blocks[n])  BY <2>1
    <3>5. i # n => i \in 0..(n - 1)  BY <2>1
    <3> HIDE DEF h
    <3> QED  BY <2>2, <2>4, <3>1, <3>2, <3>3, <3>4, <3>5, Zenon
  <2>6. IsAfterBlocks(h, outs, blocks, n)
    <3>1. h = [i \in 0..n |-> h[i]]  BY Zenon
    <3> HIDE DEF h
    <3> QED  BY <2>5, <3>1, Zenon DEF IsAfterBlocks
  <2> QED  BY <2>1, <2>6, Zenon
<1>2. \E g : IsAfterBlocks(g, outs, blocks, L)
  BY <1>1
<1>3. IsAfterBlocks(f, outs, blocks, L)
  BY <1>2, Zenon DEF IsAfterBlocks, AfterBlocks
<1>4. \A i \in 0..L : f[i] = IF i = 0 THEN Empty ELSE ApplyBlock(outs, f[i - 1], i, blocks[i])
  <2> HIDE DEF f, L
  <2> QED  BY <1>3, Zenon DEF IsAfterBlocks
<1> HIDE DEF f
<1>5. f[0] = Empty /\ \A i \in 1..L : f[i] = ApplyBlock(outs, f[i - 1], i, blocks[i])
  BY <1>4
<1> QED  BY <1>5, Zenon DEF f

\* The state after n blocks depends on these blocks only.
LEMMA SamePrefix ==
  ASSUME NEW outs, NEW s \in Seq(Block), NEW t \in Seq(Block),
         NEW n \in Nat, n <= Len(s), n <= Len(t), \A i \in 1..n : s[i] = t[i]
  PROVE  AfterBlocks(outs, s)[n] = AfterBlocks(outs, t)[n]
<1> DEFINE f == AfterBlocks(outs, s)
           g == AfterBlocks(outs, t)
           T == {i \in 0..n : f[i] # g[i]}
<1> SUFFICES ASSUME T # {} PROVE FALSE
  OBVIOUS
<1>1. PICK i \in T : \A m \in T : i <= m
  <2>1. T \subseteq Nat  OBVIOUS
  <2> HIDE DEF T
  <2> QED  BY <2>1, Least, Zenon
<1>2. /\ f[0] = Empty /\ \A k \in 1..Len(s) : f[k] = ApplyBlock(outs, f[k - 1], k, s[k])
      /\ g[0] = Empty /\ \A k \in 1..Len(t) : g[k] = ApplyBlock(outs, g[k - 1], k, t[k])
  BY AfterBlocksSteps
<1> HIDE DEF f, g
<1>3. i \in 1..n  BY <1>1, <1>2
<1>4. f[i - 1] = g[i - 1]  BY <1>1, <1>3
<1>5. f[i] = g[i]  BY <1>2, <1>3, <1>4
<1> QED  BY <1>1, <1>5, Zenon

-----------------------------------------------------------------------------
(* States of the database, and what an output does to them.                *)

\* The code and the storage of every contract.\* The code and the storage of every contract, and who wrote it last.
Codes == [Contract -> Code \cup {NoCode}]
Storages == [Contract -> Store]
Lasts(n) == [Contract -> [Key -> [at : 1..n, in : Block, out : Nat] \cup {NoWrite}]]

\* What a replay of n blocks can give: no key of a contract without code was written.
Records(n) == [code : Codes, storage : Storages, last : Lasts(n)]
Unwritten(s) == \A c \in Contract : s.code[c] = NoCode => \A x \in Key : s.last[c][x] = NoWrite
States(n) == {s \in Records(n) : Unwritten(s)}

\* The outputs of a block are a sequence of outputs.
LEMMA OutputsType ==
  ASSUME NEW outs \in Contents, NEW b \in Block
  PROVE  /\ outs[b] \in Seq(Output) /\ Len(outs[b]) \in Nat
         /\ \A i \in 1..Len(outs[b]) : outs[b][i] \in Output
<1>1. outs[b] \in Seq(Output)
  BY ContractAssumption, Zenon
<1> QED  BY <1>1

\* The fields of an output.
LEMMA OutputType ==
  ASSUME NEW o \in Output
  PROVE  /\ o.addr \in Contract /\ o.key \in Key /\ o.val \in [Store -> Value]
         /\ o.op \in {"create", "call"} /\ o.parses \in BOOLEAN
  BY Zenon DEF Output

\* WriteStorage changes the value of one key.
LEMMA WriteStorageType ==
  ASSUME NEW t \in Storages, NEW o \in Output
  PROVE  LET u == WriteStorage(t, o)
         IN  /\ u \in Storages /\ u[o.addr][o.key] = o.val[t[o.addr]]
             /\ \A c \in Contract, x \in Key : c # o.addr \/ x # o.key => u[c][x] = t[c][x]
             /\ \A c \in Contract : c # o.addr => u[c] = t[c]
<1>1. o.addr \in Contract /\ o.key \in Key /\ o.val \in [Store -> Value]
  BY OutputType, Zenon
<1>2. o.val[t[o.addr]] \in Value
  BY <1>1, Zenon DEF Storages
<1> DEFINE v == o.val[t[o.addr]]
<1>3. t \in [Contract -> [Key -> Value]]
  BY Zenon DEF Storages, Store
<1>4. v \in Value
  BY <1>2, Zenon
<1> DEFINE y == [t[o.addr] EXCEPT ![o.key] = v]
<1>5. y \in [Key -> Value] /\ y[o.key] = v /\ \A x \in Key : x # o.key => y[x] = t[o.addr][x]
  BY <1>1, <1>3, <1>4, Zenon
<1>6. WriteStorage(t, o) = [t EXCEPT ![o.addr] = y]
  BY Zenon DEF WriteStorage
<1> HIDE DEF y, v
<1>7. /\ WriteStorage(t, o) \in [Contract -> [Key -> Value]] /\ WriteStorage(t, o)[o.addr] = y
      /\ \A c \in Contract : c # o.addr => WriteStorage(t, o)[c] = t[c]
  BY <1>1, <1>3, <1>5, <1>6, Zenon
<1>8. \A c \in Contract, x \in Key :
        c # o.addr \/ x # o.key => WriteStorage(t, o)[c][x] = t[c][x]
  BY <1>5, <1>7, Zenon
<1> QED  BY <1>5, <1>7, <1>8, Zenon DEF v, Storages, Store

\* The writer of a key is noted.
Note(l, o, w) == [l EXCEPT ![o.addr] = [@ EXCEPT ![o.key] = w]]

\* One entry changes.
LEMMA NoteType ==
  ASSUME NEW n, NEW l \in Lasts(n), NEW o \in Output, NEW w \in [at : 1..n, in : Block, out : Nat]
  PROVE  /\ Note(l, o, w) \in Lasts(n) /\ Note(l, o, w)[o.addr][o.key] = w
         /\ \A c \in Contract, x \in Key :
              c # o.addr \/ x # o.key => Note(l, o, w)[c][x] = l[c][x]
         /\ \A c \in Contract : c # o.addr => Note(l, o, w)[c] = l[c]
<1>1. o.addr \in Contract /\ o.key \in Key
  BY OutputType, Zenon
<1> DEFINE V == [at : 1..n, in : Block, out : Nat] \cup {NoWrite}
<1>3. l \in [Contract -> [Key -> V]]
  BY Zenon DEF Lasts
<1>4. w \in V
  BY Zenon
<1> HIDE DEF V
<1> DEFINE y == [l[o.addr] EXCEPT ![o.key] = w]
<1>5. y \in [Key -> V] /\ y[o.key] = w /\ \A x \in Key : x # o.key => y[x] = l[o.addr][x]
  BY <1>1, <1>3, <1>4, Zenon
<1>6. Note(l, o, w) = [l EXCEPT ![o.addr] = y]
  BY Zenon DEF Note
<1> HIDE DEF y
<1>7. /\ Note(l, o, w) \in [Contract -> [Key -> V]] /\ Note(l, o, w)[o.addr] = y
      /\ \A c \in Contract : c # o.addr => Note(l, o, w)[c] = l[c]
  BY <1>1, <1>3, <1>5, <1>6, Zenon
<1>8. \A c \in Contract, x \in Key :
        c # o.addr \/ x # o.key => Note(l, o, w)[c][x] = l[c][x]
  BY <1>5, <1>7, Zenon
<1> QED  BY <1>5, <1>7, <1>8, Zenon DEF Lasts, V

\* The constructor or the call of an output has written, and the constructor's code
\* is stored.
Wrote(s, n, b, i, o) ==
  [code |-> s.code, storage |-> WriteStorage(s.storage, o),
   last |-> Note(s.last, o, [at |-> n, in |-> b, out |-> i])]
WithCode(k, o) == [k EXCEPT ![o.addr] = DeployedCode(o)]
Deployed(s, n, b, i, o) ==
  [code |-> WithCode(s.code, o),
   storage |-> WriteStorage(s.storage, o),
   last |-> Note(s.last, o, [at |-> n, in |-> b, out |-> i])]

\* Some code is stored.
LEMMA DeployedValue ==
  ASSUME NEW o PROVE DeployedCode(o) \in Code /\ DeployedCode(o) # NoCode
  BY ContractAssumption, Zenon DEF DeployedCode, Code

\* And no other code changes.
LEMMA WithCodeType ==
  ASSUME NEW k \in Codes, NEW o \in Output
  PROVE  /\ WithCode(k, o) \in Codes /\ WithCode(k, o)[o.addr] # NoCode
         /\ \A c \in Contract : c # o.addr => WithCode(k, o)[c] = k[c]
<1>1. DeployedCode(o) \in Code /\ DeployedCode(o) # NoCode
  BY DeployedValue, Zenon
<1>2. o.addr \in Contract
  BY OutputType, Zenon
<1> QED  BY <1>1, <1>2, Zenon DEF Codes, WithCode

\* An output is skipped, or its execution writes a key, and it may store code.
LEMMA ApplySkipped ==
  ASSUME NEW outs, NEW s, NEW n, NEW b, NEW i,
         ~outs[b][i].parses \/ (outs[b][i].op = "call" /\ s.code[outs[b][i].addr] = NoCode)
  PROVE  Apply(outs, s, n, b, i) = s
  BY Zenon DEF Apply

\* A call of a contract with code.
LEMMA ApplyCall ==
  ASSUME NEW outs, NEW s, NEW n, NEW b, NEW i,
         outs[b][i].parses, outs[b][i].op = "call", s.code[outs[b][i].addr] # NoCode
  PROVE  Apply(outs, s, n, b, i) = Wrote(s, n, b, i, outs[b][i])
  BY Zenon DEF Apply, Wrote, WriteStorage, Note

\* A creation.
LEMMA ApplyCreate ==
  ASSUME NEW outs, NEW s, NEW n, NEW b, NEW i, outs[b][i].parses, outs[b][i].op = "create"
  PROVE  Apply(outs, s, n, b, i) = Deployed(s, n, b, i, outs[b][i])
<1>1. "create" # "call"
  BY Zenon
<1> QED  BY <1>1, Zenon DEF Apply, Deployed, WriteStorage, Note, DeployedCode, WithCode

\* What is left of States when its definition is expanded.
LEMMA StateFields ==
  ASSUME NEW n, NEW s \in States(n)
  PROVE  s \in Records(n) /\ s.code \in Codes /\ s.storage \in Storages /\ s.last \in Lasts(n)
         /\ Unwritten(s)
  BY Zenon DEF States, Records

\* The write of an output of block b at height n.
LEMMA WriteType ==
  ASSUME NEW n \in Nat \ {0}, NEW b \in Block, NEW i \in Nat
  PROVE  [at |-> n, in |-> b, out |-> i] \in [at : 1..n, in : Block, out : Nat]
<1>1. n \in 1..n
  OBVIOUS
<1> QED  BY <1>1, Zenon

\* A write goes to one key of one contract.
LEMMA WroteType ==
  ASSUME NEW n \in Nat \ {0}, NEW b \in Block, NEW i \in Nat, NEW o \in Output, NEW s \in Records(n)
  PROVE  Wrote(s, n, b, i, o) \in Records(n)
<1>1. s.code \in Codes /\ s.storage \in Storages /\ s.last \in Lasts(n)
  BY Zenon DEF Records
<1>2. /\ WriteStorage(s.storage, o) \in Storages
      /\ Note(s.last, o, [at |-> n, in |-> b, out |-> i]) \in Lasts(n)
  BY <1>1, WriteStorageType, WriteType, NoteType, ZenonT(30)
<1> QED  BY <1>1, <1>2, Zenon DEF Records, Wrote

\* Applying an output gives a state again.
LEMMA ApplyType ==
  ASSUME NEW outs \in Contents, NEW n \in Nat \ {0}, NEW b \in Block, NEW i \in 1..Len(outs[b]),
         NEW s \in States(n)
  PROVE  Apply(outs, s, n, b, i) \in States(n)
<1> DEFINE o == outs[b][i]
           w == [at |-> n, in |-> b, out |-> i]
           p == Wrote(s, n, b, i, o)
           q == Deployed(s, n, b, i, o)
<1>1. o \in Output /\ i \in Nat
  BY OutputsType
<1>2. o.addr \in Contract /\ o.op \in {"create", "call"}
  BY <1>1, OutputType, Zenon
<1>3. s.code \in Codes /\ s.storage \in Storages /\ s.last \in Lasts(n) /\ Unwritten(s)
  BY StateFields, Zenon
<1>4. w \in [at : 1..n, in : Block, out : Nat]
  BY <1>1, WriteType, Zenon
<1> HIDE DEF o, w, p, q
<1>5. Note(s.last, o, w) \in Lasts(n) /\ \A c \in Contract : c # o.addr => Note(s.last, o, w)[c] = s.last[c]
  BY <1>1, <1>3, <1>4, NoteType
<1>6. p \in Records(n)
  BY <1>1, WroteType, StateFields, Zenon DEF p
<1>7. p.code = s.code /\ p.storage = WriteStorage(s.storage, o) /\ p.last = Note(s.last, o, w)
  BY Zenon DEF Wrote, p, w
<1>8. /\ q.code = WithCode(s.code, o) /\ q.last = Note(s.last, o, w)
      /\ q = [code |-> WithCode(s.code, o),
              storage |-> WriteStorage(s.storage, o), last |-> Note(s.last, o, w)]
  BY Zenon DEF Deployed, q, w
<1>9. /\ q.code \in Codes /\ q.code[o.addr] # NoCode
      /\ \A c \in Contract : c # o.addr => q.code[c] = s.code[c]
  <2>1. s.code \in Codes /\ o \in Output
    BY <1>1, <1>3, Zenon
  <2>2. /\ WithCode(s.code, o) \in Codes
        /\ WithCode(s.code, o)[o.addr] # NoCode
        /\ \A c \in Contract :
             c # o.addr => WithCode(s.code, o)[c] = s.code[c]
    BY <2>1, WithCodeType
  <2> QED  BY <1>8, <2>2, Zenon
<1>10. q \in States(n)
  <2>1. WriteStorage(s.storage, o) \in Storages
    BY <1>1, <1>3, WriteStorageType, Zenon
  <2>2. q \in Records(n)
    BY <1>5, <1>8, <1>9, <2>1, Zenon DEF Records
  <2>3. Unwritten(q)
    <3> SUFFICES ASSUME NEW c \in Contract, q.code[c] = NoCode, NEW x \in Key
                 PROVE  q.last[c][x] = NoWrite
      BY Zenon DEF Unwritten
    <3>1. c # o.addr /\ s.code[c] = NoCode
      BY <1>9, Zenon
    <3>2. q.last[c] = s.last[c] /\ s.last[c][x] = NoWrite
      BY <1>3, <1>5, <1>8, <3>1, Zenon DEF Unwritten
    <3> QED  BY <3>2, Zenon
  <2> QED  BY <2>2, <2>3, Zenon DEF States
<1>11. s.code[o.addr] # NoCode => p \in States(n)
  <2>1. s.code[o.addr] # NoCode => Unwritten(p)
    <3> SUFFICES ASSUME s.code[o.addr] # NoCode, NEW c \in Contract, p.code[c] = NoCode, NEW x \in Key
                 PROVE  p.last[c][x] = NoWrite
      BY Zenon DEF Unwritten
    <3>1. c # o.addr /\ s.code[c] = NoCode
      BY <1>7, Zenon
    <3>2. p.last[c] = s.last[c] /\ s.last[c][x] = NoWrite
      BY <1>3, <1>5, <1>7, <3>1, Zenon DEF Unwritten
    <3> QED  BY <3>2, Zenon
  <2> QED  BY <1>6, <2>1, Zenon DEF States
<1>12. \/ Apply(outs, s, n, b, i) = s
       \/ s.code[o.addr] # NoCode /\ Apply(outs, s, n, b, i) = p
       \/ Apply(outs, s, n, b, i) = q
  <2>1. CASE ~o.parses \/ (o.op = "call" /\ s.code[o.addr] = NoCode)
    BY <2>1, ApplySkipped, Zenon DEF o
  <2>2. CASE o.parses /\ o.op = "call" /\ s.code[o.addr] # NoCode
    <3>1. Apply(outs, s, n, b, i) = p
      BY <2>2, ApplyCall, SMT DEF o, p
    <3> QED  BY <2>2, <3>1, Zenon
  <2>3. CASE o.parses /\ o.op = "create"
    <3>1. Apply(outs, s, n, b, i) = q
      BY <2>3, ApplyCreate, SMT DEF o, q
    <3> QED  BY <3>1, Zenon
  <2> QED  BY <1>2, <2>1, <2>2, <2>3, Zenon
<1> QED  BY <1>10, <1>11, <1>12, Zenon

\* So is the state after any number of outputs, and after a block.
LEMMA AfterOutputsType ==
  ASSUME NEW outs \in Contents, NEW n \in Nat \ {0}, NEW b \in Block, NEW s \in States(n)
  PROVE  /\ \A i \in 0..Len(outs[b]) : AfterOutputs(outs, s, n, b)[i] \in States(n)
         /\ ApplyBlock(outs, s, n, b) \in States(n)
<1> DEFINE f == AfterOutputs(outs, s, n, b)
           T == {i \in 0..Len(outs[b]) : f[i] \notin States(n)}
<1>0. Len(outs[b]) \in Nat
  BY OutputsType, Zenon
<1>1. f[0] = s /\ \A i \in 1..Len(outs[b]) : f[i] = Apply(outs, f[i - 1], n, b, i)
  BY <1>0, AfterOutputsSteps
<1> HIDE DEF f
<1>2. T = {}
  <2> SUFFICES ASSUME T # {} PROVE FALSE
    BY Zenon
  <2>1. PICK i \in T : \A m \in T : i <= m
    <3>1. T \subseteq Nat  OBVIOUS
    <3> HIDE DEF T
    <3> QED  BY <3>1, Least, Zenon
  <2>2. i \in 1..Len(outs[b])
    BY <1>0, <1>1, <2>1
  <2>3. f[i - 1] \in States(n)
    BY <1>0, <2>1, <2>2
  <2>4. f[i] \in States(n)
    BY <1>1, <2>2, <2>3, ApplyType
  <2> QED  BY <2>1, <2>4, Zenon
<1>3. \A i \in 0..Len(outs[b]) : f[i] \in States(n)
  BY <1>2, Zenon
<1> QED  BY <1>0, <1>3 DEF f, ApplyBlock

\* The empty database is a state.
LEMMA EmptyType == Empty \in States(0)
<1>1. [c \in Contract |-> NoCode] \in Codes
  BY Zenon DEF Codes
<1>2. [c \in Contract |-> [x \in Key |-> Zero]] \in Storages
  BY ContractAssumption, Zenon DEF Storages, Store
<1>3. [c \in Contract |-> [x \in Key |-> NoWrite]] \in Lasts(0)
  BY Zenon DEF Lasts
<1>4. Empty \in Records(0)
  BY <1>1, <1>2, <1>3, Zenon DEF Empty, Records
<1>5. Unwritten(Empty)
  BY Zenon DEF Empty, Unwritten
<1> QED  BY <1>4, <1>5, Zenon DEF States

\* A state of n blocks is one of n + 1.
LEMMA StatesGrow ==
  ASSUME NEW n \in Nat, NEW s \in States(n) PROVE s \in States(n + 1)
<1>1. [at : 1..n, in : Block, out : Nat] \subseteq [at : 1..(n + 1), in : Block, out : Nat]
  <2>1. 1..n \subseteq 1..(n + 1)
    OBVIOUS
  <2> QED  BY <2>1, Zenon
<1>2. s.code \in Codes /\ s.storage \in Storages /\ s.last \in Lasts(n) /\ Unwritten(s) /\ s \in Records(n)
  BY StateFields, Zenon
<1>3. s.last \in Lasts(n + 1)
  <2>1. ASSUME NEW A, NEW B, A \subseteq B, NEW l \in [Contract -> [Key -> A \cup {NoWrite}]]
        PROVE  l \in [Contract -> [Key -> B \cup {NoWrite}]]
    BY <2>1, SMT
  <2> DEFINE A == [at : 1..n, in : Block, out : Nat]
             B == [at : 1..(n + 1), in : Block, out : Nat]
  <2>2. A \subseteq B /\ s.last \in [Contract -> [Key -> A \cup {NoWrite}]]
    BY <1>1, <1>2, Zenon DEF Lasts
  <2> HIDE DEF A, B
  <2>3. s.last \in [Contract -> [Key -> B \cup {NoWrite}]]
    BY <2>1, <2>2, Zenon
  <2> QED  BY <2>3, Zenon DEF Lasts, B
<1>4. s = [code |-> s.code, storage |-> s.storage, last |-> s.last]
  BY <1>2, Zenon DEF Records
<1>5. s \in Records(n + 1)
  BY <1>2, <1>3, <1>4, Zenon DEF Records
<1> QED  BY <1>2, <1>5, Zenon DEF States

\* And so is the replay of every prefix of a chain.
LEMMA AfterBlocksType ==
  ASSUME NEW outs \in Contents, NEW blocks \in Seq(Block)
  PROVE  \A n \in 0..Len(blocks) : AfterBlocks(outs, blocks)[n] \in States(n)
<1> DEFINE f == AfterBlocks(outs, blocks)
           T == {n \in 0..Len(blocks) : f[n] \notin States(n)}
<1>1. f[0] = Empty /\ \A i \in 1..Len(blocks) : f[i] = ApplyBlock(outs, f[i - 1], i, blocks[i])
  BY AfterBlocksSteps
<1> HIDE DEF f
<1>2. T = {}
  <2> SUFFICES ASSUME T # {} PROVE FALSE
    BY Zenon
  <2>1. PICK i \in T : \A m \in T : i <= m
    <3>1. T \subseteq Nat  OBVIOUS
    <3> HIDE DEF T
    <3> QED  BY <3>1, Least, Zenon
  <2>2. i \in 1..Len(blocks)
    BY <1>1, <2>1, EmptyType
  <2>3. f[i - 1] \in States(i - 1) /\ blocks[i] \in Block /\ i - 1 \in Nat /\ (i - 1) + 1 = i
        /\ i \in Nat \ {0}
    BY <2>1, <2>2
  <2>4. f[i - 1] \in States(i)
    <3>1. f[i - 1] \in States((i - 1) + 1)
      BY <2>3, StatesGrow, Zenon
    <3> QED  BY <2>3, <3>1, Zenon
  <2>5. f[i] \in States(i)
    BY <1>1, <2>2, <2>3, <2>4, AfterOutputsType
  <2> QED  BY <2>1, <2>5, Zenon
<1> QED  BY <1>2, Zenon DEF f

\* A block at the end of the chain is applied last.
LEMMA AfterAppend ==
  ASSUME NEW outs, NEW s \in Seq(Block), NEW b \in Block
  PROVE  /\ \A n \in 0..Len(s) : AfterBlocks(outs, Append(s, b))[n] = AfterBlocks(outs, s)[n]
         /\ AfterBlocks(outs, Append(s, b))[Len(Append(s, b))]
              = ApplyBlock(outs, AfterBlocks(outs, s)[Len(s)], Len(s) + 1, b)
<1> DEFINE t == Append(s, b)
<1>1. t \in Seq(Block) /\ Len(t) = Len(s) + 1 /\ t[Len(t)] = b /\ \A i \in 1..Len(s) : s[i] = t[i]
  OBVIOUS
<1> HIDE DEF t
<1>2. \A n \in 0..Len(s) : AfterBlocks(outs, t)[n] = AfterBlocks(outs, s)[n]
  <2> TAKE n \in 0..Len(s)
  <2>1. n \in Nat /\ n <= Len(s) /\ n <= Len(t) /\ \A i \in 1..n : t[i] = s[i]
    BY <1>1
  <2> QED  BY <1>1, <2>1, SamePrefix, ZenonT(60)
<1>3. AfterBlocks(outs, t)[Len(t)] = ApplyBlock(outs, AfterBlocks(outs, t)[Len(t) - 1], Len(t), t[Len(t)])
  <2>1. Len(t) \in Nat /\ Len(t) \in 1..Len(t)  BY <1>1
  <2> QED  BY <2>1, AfterBlocksSteps, Zenon
<1>4. Len(t) - 1 = Len(s) /\ Len(s) \in 0..Len(s)
  BY <1>1
<1>5. AfterBlocks(outs, t)[Len(t)] = ApplyBlock(outs, AfterBlocks(outs, s)[Len(s)], Len(s) + 1, b)
  BY <1>1, <1>2, <1>3, <1>4, Zenon
<1> QED  BY <1>2, <1>5, Zenon DEF t

-----------------------------------------------------------------------------
(* What the database keeps of a replay.                                    *)

\* Every contract of s has code.
Covers(k, s) == \A c \in Contract : s.code[c] # NoCode => k[c] # NoCode

\* The write w of a key above height e is in t, if it builds on nothing.
Kept(outs, e, t, c, x, w) ==
  w # NoWrite /\ w.at > e /\ Blind(outs[w.in][w.out])
    => t[c][x] = outs[w.in][w.out].val[t[c]]

\* So is every one that is the last of l and of m.
Stands(outs, e, t, l, m) ==
  \A c \in Contract : \A x \in Key : m[c][x] = l[c][x] => Kept(outs, e, t, c, x, l[c][x])

\* The last writes that count in the middle of an execution: those of g while
\* VerifyDB executes blocks of the chain again.
Goal(s, f, g) == IF f = "verify" THEN g ELSE s.last

\* The database agrees with the state s of a replay.
Sound(outs, e, k, t, s, f, g) == Covers(k, s) /\ Stands(outs, e, t, s.last, Goal(s, f, g))

\* A value that does not depend on the storage.
LEMMA BlindValue ==
  ASSUME NEW o, Blind(o), NEW y \in Store, NEW z \in Store PROVE o.val[y] = o.val[z]
  BY Zenon DEF Blind

\* A write leaves the last writes of other keys in place.
LEMMA KeptOther ==
  ASSUME NEW outs, NEW e, NEW t \in Storages, NEW o \in Output,
         NEW c \in Contract, NEW x \in Key, c # o.addr \/ x # o.key, NEW w, Kept(outs, e, t, c, x, w)
  PROVE  Kept(outs, e, WriteStorage(t, o), c, x, w)
<1> DEFINE u == WriteStorage(t, o)
           p == outs[w.in][w.out]
<1>1. u \in Storages /\ u[c][x] = t[c][x]
  BY WriteStorageType, Zenon
<1>2. u[c] \in Store /\ t[c] \in Store
  BY <1>1, Zenon DEF Storages
<1> HIDE DEF u, p
<1>3. Blind(p) => p.val[u[c]] = p.val[t[c]]
  BY <1>2, BlindValue, Zenon
<1> QED  BY <1>1, <1>3, Zenon DEF Kept, u, p

\* A write is kept.
LEMMA KeptOwn ==
  ASSUME NEW outs, NEW e, NEW t \in Storages, NEW b, NEW i, NEW n, outs[b][i] \in Output
  PROVE  Kept(outs, e, WriteStorage(t, outs[b][i]), outs[b][i].addr, outs[b][i].key,
              [at |-> n, in |-> b, out |-> i])
<1> DEFINE o == outs[b][i]
           u == WriteStorage(t, o)
           w == [at |-> n, in |-> b, out |-> i]
<1>1. u \in Storages /\ u[o.addr][o.key] = o.val[t[o.addr]] /\ o.addr \in Contract
  BY WriteStorageType, OutputType, Zenon
<1>2. u[o.addr] \in Store /\ t[o.addr] \in Store
  BY <1>1, Zenon DEF Storages
<1>3. outs[w.in][w.out] = o
  BY Zenon
<1> HIDE DEF u, o, w
<1>4. Blind(o) => o.val[u[o.addr]] = o.val[t[o.addr]]
  BY <1>2, BlindValue, Zenon
<1>5. Kept(outs, e, u, o.addr, o.key, w)
  BY <1>1, <1>3, <1>4, Zenon DEF Kept
<1> QED  BY <1>5, Zenon DEF u, o, w

\* The same of all the last writes, when the replay writes too.
LEMMA StandsWrite ==
  ASSUME NEW outs, NEW e, NEW t \in Storages, NEW n \in Nat \ {0}, NEW b \in Block, NEW i \in Nat,
         outs[b][i] \in Output, NEW l \in Lasts(n), NEW m, NEW r, m = l \/ r = m,
         Stands(outs, e, t, l, m),
         NEW q, q = Note(l, outs[b][i], [at |-> n, in |-> b, out |-> i])
  PROVE  Stands(outs, e, WriteStorage(t, outs[b][i]), q, r)
<1> DEFINE o == outs[b][i]
           w == [at |-> n, in |-> b, out |-> i]
<1>1. w \in [at : 1..n, in : Block, out : Nat]
  BY WriteType, Zenon
<1>2. Kept(outs, e, WriteStorage(t, o), o.addr, o.key, w)
  BY KeptOwn, Zenon
<1> HIDE DEF w
<1>3. q = Note(l, o, w) /\ o \in Output
  BY Zenon DEF w
<1> HIDE DEF o
<1>4. q[o.addr][o.key] = w
      /\ \A c \in Contract, x \in Key : c # o.addr \/ x # o.key => q[c][x] = l[c][x]
  BY <1>1, <1>3, NoteType
<1>5. ASSUME NEW c \in Contract, NEW x \in Key, r[c][x] = q[c][x]
      PROVE  Kept(outs, e, WriteStorage(t, o), c, x, q[c][x])
  <2>1. CASE c = o.addr /\ x = o.key
    BY <1>2, <1>4, <2>1, Zenon
  <2>2. CASE c # o.addr \/ x # o.key
    <3>1. q[c][x] = l[c][x]
      BY <1>4, <2>2, Zenon
    <3>2. m[c][x] = l[c][x]
      BY <1>5, <3>1, Zenon
    <3>3. Kept(outs, e, t, c, x, l[c][x])
      BY <3>2, Zenon DEF Stands
    <3> QED  BY <1>3, <2>2, <3>1, <3>3, KeptOther, Zenon
  <2> QED  BY <2>1, <2>2, Zenon
<1> QED  BY <1>5, Zenon DEF Stands, o

\* And when it does not, having written nothing to the contract.
LEMMA StandsStray ==
  ASSUME NEW outs, NEW e, NEW t \in Storages, NEW o \in Output, NEW l, NEW m,
         \A x \in Key : l[o.addr][x] = NoWrite, Stands(outs, e, t, l, m)
  PROVE  Stands(outs, e, WriteStorage(t, o), l, m)
<1>1. ASSUME NEW c \in Contract, NEW x \in Key, m[c][x] = l[c][x]
      PROVE  Kept(outs, e, WriteStorage(t, o), c, x, l[c][x])
  <2>1. CASE c = o.addr
    BY <2>1, Zenon DEF Kept
  <2>2. CASE c # o.addr
    <3>1. Kept(outs, e, t, c, x, l[c][x])
      BY <1>1, Zenon DEF Stands
    <3> QED  BY <2>2, <3>1, KeptOther, Zenon
  <2> QED  BY <2>1, <2>2, Zenon
<1> QED  BY <1>1, Zenon DEF Stands

\* The write of a constructor, or of a call that the replay executes too.
LEMMA WroteSound ==
  ASSUME NEW outs, NEW e, NEW k, NEW t \in Storages, NEW n \in Nat \ {0}, NEW b \in Block,
         NEW i \in Nat, outs[b][i] \in Output, NEW s \in States(n), NEW f, NEW g,
         Sound(outs, e, k, t, s, f, g)
  PROVE  Sound(outs, e, k, WriteStorage(t, outs[b][i]), Wrote(s, n, b, i, outs[b][i]), f, g)
<1> DEFINE p == Wrote(s, n, b, i, outs[b][i])
<1>1. p.code = s.code /\ p.last = Note(s.last, outs[b][i], [at |-> n, in |-> b, out |-> i])
  BY Zenon DEF Wrote
<1> HIDE DEF p
<1>2. s.last \in Lasts(n)
  BY StateFields, Zenon
<1>3. Goal(s, f, g) = s.last \/ Goal(p, f, g) = Goal(s, f, g)
  BY Zenon DEF Goal
<1>4. Stands(outs, e, t, s.last, Goal(s, f, g)) /\ Covers(k, s)
  BY Zenon DEF Sound
<1>5. Stands(outs, e, WriteStorage(t, outs[b][i]), p.last, Goal(p, f, g))
  BY <1>1, <1>2, <1>3, <1>4, StandsWrite, ZenonT(30)
<1>6. Covers(k, p)
  BY <1>1, <1>4, Zenon DEF Covers
<1> QED  BY <1>5, <1>6, Zenon DEF Sound, p

\* SkipOutput: the replay skips the output too.
LEMMA SkipApplied ==
  ASSUME NEW outs, NEW n, NEW b, NEW i, outs[b][i] \in Output,
         NEW k, NEW s, Covers(k, s),
         ~outs[b][i].parses \/ (outs[b][i].op = "call" /\ k[outs[b][i].addr] = NoCode)
  PROVE  Apply(outs, s, n, b, i) = s
<1>1. outs[b][i].addr \in Contract
  BY OutputType, Zenon
<1>2. k[outs[b][i].addr] = NoCode => s.code[outs[b][i].addr] = NoCode
  BY <1>1, Zenon DEF Covers
<1> QED  BY <1>2, ApplySkipped, Zenon

\* The database goes from k and t to j and u as the replay goes from p to z.
Agrees(outs, e, f, g, p, k, t, z, j, u) ==
  /\ Sound(outs, e, j, u, z, f, g)
  /\ k = p.code /\ t = p.storage => j = z.code /\ u = z.storage

\* Call: the replay executes the call, or has not seen the contract.
LEMMA CallApplied ==
  ASSUME NEW outs, NEW e, NEW k, NEW t \in Storages, NEW n \in Nat \ {0}, NEW b \in Block,
         NEW i \in Nat, outs[b][i] \in Output, NEW s \in States(n), NEW f, NEW g,
         Sound(outs, e, k, t, s, f, g),
         outs[b][i].parses, outs[b][i].op = "call", k[outs[b][i].addr] # NoCode
  PROVE  Agrees(outs, e, f, g, s, k, t, Apply(outs, s, n, b, i), k, WriteStorage(t, outs[b][i]))
<1> DEFINE o == outs[b][i]
           u == WriteStorage(t, o)
           z == Apply(outs, s, n, b, i)
<1>1. CASE s.code[o.addr] = NoCode
  <2>1. z = s
    BY <1>1, ApplySkipped, Zenon
  <2>2. \A x \in Key : s.last[o.addr][x] = NoWrite
    <3>1. Unwritten(s) /\ o.addr \in Contract
      BY StateFields, OutputType, Zenon
    <3> QED  BY <1>1, <3>1, Zenon DEF Unwritten
  <2>3. Stands(outs, e, t, s.last, Goal(s, f, g)) /\ Covers(k, s)
    BY Zenon DEF Sound
  <2>4. Stands(outs, e, u, s.last, Goal(s, f, g))
    BY <2>2, <2>3, StandsStray, Zenon
  <2>5. Sound(outs, e, k, u, s, f, g)
    BY <2>3, <2>4, Zenon DEF Sound
  <2>6. ~(k = s.code)
    BY <1>1, Zenon
  <2> QED  BY <2>1, <2>5, <2>6, Zenon DEF Agrees
<1>2. CASE s.code[o.addr] # NoCode
  <2>1. z = Wrote(s, n, b, i, o)
    BY <1>2, ApplyCall, SMT
  <2>2. Sound(outs, e, k, u, Wrote(s, n, b, i, o), f, g)
    BY WroteSound, SMT
  <2>3. Wrote(s, n, b, i, o).code = s.code /\ Wrote(s, n, b, i, o).storage = WriteStorage(s.storage, o)
    BY Zenon DEF Wrote
  <2> QED  BY <2>1, <2>2, <2>3, Zenon DEF Agrees
<1> QED  BY <1>1, <1>2, Zenon

\* SetContractCode completes the output of a constructor that was executed.
LEMMA CreateApplied ==
  ASSUME NEW outs, NEW e, NEW k \in Codes, NEW t, NEW n, NEW b, NEW i, outs[b][i] \in Output,
         NEW s \in States(n), NEW f, NEW g,
         Sound(outs, e, k, t, Wrote(s, n, b, i, outs[b][i]), f, g),
         outs[b][i].parses, outs[b][i].op = "create"
  PROVE  Agrees(outs, e, f, g, Wrote(s, n, b, i, outs[b][i]), k, t,
                Apply(outs, s, n, b, i), WithCode(k, outs[b][i]), t)
<1> DEFINE o == outs[b][i]
           j == WithCode(k, o)
           p == Wrote(s, n, b, i, o)
           z == Apply(outs, s, n, b, i)
<1>1. z = Deployed(s, n, b, i, o)
  BY ApplyCreate, SMT
<1>2. z.last = p.last /\ z.storage = p.storage /\ p.code = s.code /\ z.code = WithCode(s.code, o)
  <2>1. /\ p.last = Note(s.last, o, [at |-> n, in |-> b, out |-> i])
        /\ p.storage = WriteStorage(s.storage, o) /\ p.code = s.code
    BY Zenon DEF Wrote
  <2> DEFINE q == Deployed(s, n, b, i, o)
  <2>2. /\ q.last = Note(s.last, o, [at |-> n, in |-> b, out |-> i])
        /\ q.storage = WriteStorage(s.storage, o) /\ q.code = WithCode(s.code, o)
    BY Zenon DEF Deployed
  <2> HIDE DEF p, q, z
  <2> QED  BY <1>1, <2>1, <2>2, Zenon DEF q
<1>3. s.code \in Codes /\ o \in Output
  BY StateFields, Zenon
<1> HIDE DEF p, z, o
<1>4. /\ j[o.addr] # NoCode /\ \A c \in Contract : c # o.addr => j[c] = k[c]
      /\ \A c \in Contract : c # o.addr => z.code[c] = p.code[c]
  <2>1. j[o.addr] # NoCode /\ \A c \in Contract : c # o.addr => j[c] = k[c]
    BY <1>3, WithCodeType, Zenon
  <2>2. \A c \in Contract : c # o.addr => WithCode(s.code, o)[c] = s.code[c]
    BY <1>3, WithCodeType, Zenon
  <2> QED  BY <1>2, <2>1, <2>2, Zenon
<1>5. k = p.code => j = z.code
  BY <1>2, Zenon
<1> HIDE DEF j
<1>6. Covers(k, p) /\ Stands(outs, e, t, p.last, Goal(p, f, g))
  BY Zenon DEF Sound, p, o
<1>7. Covers(j, z)
  BY <1>4, <1>6, Zenon DEF Covers
<1>8. Goal(z, f, g) = Goal(p, f, g)
  BY <1>2, Zenon DEF Goal
<1>9. Sound(outs, e, j, t, z, f, g)
  BY <1>2, <1>6, <1>7, <1>8, Zenon DEF Sound
<1> QED  BY <1>2, <1>5, <1>9, Zenon DEF Agrees, p, z, o, j

-----------------------------------------------------------------------------
(* The invariant.                                                          *)

\* ExecuteBlockContracts in progress.
Runs == [for : {"none", "connect", "verify"}, blocks : Seq(Block), out : Nat \ {0},
         constructed : BOOLEAN, failed : BOOLEAN]

\* An execution has a block, a connection has just one, VerifyDB has the last ones
\* of the chain, and a constructor that was executed belongs to the output the loop
\* is at.
RunOK(outs, ch, r) ==
  /\ r \in Runs
  /\ r.for = "none" => r = Idle
  /\ r.for # "none" => r.blocks # <<>> /\ r.out <= Len(outs[Head(r.blocks)]) + 1
  /\ r.for = "connect" => Len(r.blocks) = 1
  /\ r.for = "verify" =>
       /\ Len(r.blocks) <= Len(ch)
       /\ \A i \in 1..Len(r.blocks) : r.blocks[i] = ch[Len(ch) - Len(r.blocks) + i]
  /\ r.constructed =>
       /\ r.for # "none" /\ r.out <= Len(outs[Head(r.blocks)])
       /\ outs[Head(r.blocks)][r.out].parses /\ outs[Head(r.blocks)][r.out].op = "create"

\* The height of the block before the one that is executed.
Base(ch, r) == IF r.for = "verify" THEN Len(ch) - Len(r.blocks) ELSE Len(ch)

\* Where the replay is in the middle of an execution: the blocks before, the outputs
\* of the block before the one the loop is at, and the constructor of that one when
\* it was executed.
Before(outs, ch, r) ==
  AfterOutputs(outs, AfterBlocks(outs, ch)[Base(ch, r)], Base(ch, r) + 1, Head(r.blocks))[r.out - 1]

Target(outs, ch, r) ==
  IF r.constructed
  THEN Wrote(Before(outs, ch, r), Base(ch, r) + 1, Head(r.blocks), r.out, outs[Head(r.blocks)][r.out])
  ELSE Before(outs, ch, r)

\* The last writes of a chain.
Last(outs, ch) == AfterBlocks(outs, ch)[Len(ch)].last

\* The contracts of a chain, and of every chain it grew from, have code.
Present(outs, ch, k) == \A n \in 0..Len(ch) : Covers(k, AfterBlocks(outs, ch)[n])

\* The database agrees with the replay.
Tracks(outs, ch, r, e, k, t) ==
  /\ r.for # "none" => Sound(outs, e, k, t, Target(outs, ch, r), r.for, Last(outs, ch))
  /\ r.for = "none" => Stands(outs, e, t, Last(outs, ch), Last(outs, ch))

\* The database is the state of the replay.
Exact(outs, ch, r, k, t) ==
  /\ r.for # "verify"
  /\ r.for = "none" => k = AfterBlocks(outs, ch)[Len(ch)].code /\ t = AfterBlocks(outs, ch)[Len(ch)].storage
  /\ r.for = "connect" => k = Target(outs, ch, r).code /\ t = Target(outs, ch, r).storage

\* The variables the execution reads and writes.
StateType ==
  /\ outputs \in Contents /\ chain \in Seq(Block) /\ flushed \in Seq(Block)
  /\ code \in Codes /\ storage \in Storages /\ since \in Nat

\* The contracts of the active chain and of the flushed one have code, the database
\* agrees with the replay of the active chain on the last writes since the last
\* event, and it is the replay's state while the node only moves forward.
ExecutionInv ==
  /\ StateType
  /\ RunOK(outputs, chain, run)
  /\ Present(outputs, chain, code) /\ Present(outputs, flushed, code)
  /\ Tracks(outputs, chain, run, since, code, storage)
  /\ forward => Exact(outputs, chain, run, code, storage)

-----------------------------------------------------------------------------
(* What the parts of the invariant say of a step.                          *)

\* SetContractCode leaves the contracts of a chain in the database.
LEMMA PresentCode ==
  ASSUME NEW outs, NEW ch, NEW k \in Codes, NEW o \in Output, Present(outs, ch, k)
  PROVE  Present(outs, ch, WithCode(k, o))
<1> DEFINE j == WithCode(k, o)
<1>1. j \in Codes /\ j[o.addr] # NoCode /\ \A c \in Contract : c # o.addr => j[c] = k[c]
  BY WithCodeType, Zenon
<1> HIDE DEF j
<1>2. ASSUME NEW s, Covers(k, s) PROVE Covers(j, s)
  BY <1>1, <1>2, Zenon DEF Covers
<1>3. Present(outs, ch, j)
  BY <1>2, Zenon DEF Present
<1> QED  BY <1>3, Zenon DEF j

\* The empty chain is in every database.
LEMMA EmptyChain ==
  ASSUME NEW outs, NEW k
  PROVE  Present(outs, <<>>, k) /\ AfterBlocks(outs, <<>>)[Len(<<>>)] = Empty
<1>1. Len(<<>>) = 0 /\ 0..0 = {0}
  OBVIOUS
<1>2. AfterBlocks(outs, <<>>)[0] = Empty
  BY <1>1, AfterBlocksSteps, Zenon
<1>3. Covers(k, Empty)
  BY Zenon DEF Covers, Empty
<1> QED  BY <1>1, <1>2, <1>3, Zenon DEF Present

\* A chain grows by a block whose contracts have code.
LEMMA PresentAppend ==
  ASSUME NEW outs, NEW ch \in Seq(Block), NEW b \in Block, NEW k, Present(outs, ch, k),
         Covers(k, ApplyBlock(outs, AfterBlocks(outs, ch)[Len(ch)], Len(ch) + 1, b))
  PROVE  Present(outs, Append(ch, b), k)
<1> DEFINE d == Append(ch, b)
<1>1. Len(d) = Len(ch) + 1 /\ Len(ch) \in Nat
  OBVIOUS
<1>2. /\ \A n \in 0..Len(ch) : AfterBlocks(outs, d)[n] = AfterBlocks(outs, ch)[n]
      /\ AfterBlocks(outs, d)[Len(d)]
           = ApplyBlock(outs, AfterBlocks(outs, ch)[Len(ch)], Len(ch) + 1, b)
  BY AfterAppend, Zenon
<1> HIDE DEF d
<1>3. \A n \in 0..Len(d) : n \in 0..Len(ch) \/ n = Len(d)
  BY <1>1
<1>4. Present(outs, d, k)
  BY <1>2, <1>3, Zenon DEF Present
<1> QED  BY <1>4, Zenon DEF d

\* The first blocks of a chain.
LEMMA Prefix ==
  ASSUME NEW ch \in Seq(Block), NEW n \in Nat, n <= Len(ch)
  PROVE  /\ SubSeq(ch, 1, n) \in Seq(Block) /\ Len(SubSeq(ch, 1, n)) = n
         /\ \A i \in 1..n : SubSeq(ch, 1, n)[i] = ch[i]
<1>1. SubSeq(ch, 1, n) \in Seq(Block)
  OBVIOUS
<1>2. Len(SubSeq(ch, 1, n)) = n
  OBVIOUS
<1>3. ASSUME NEW i \in 1..n PROVE SubSeq(ch, 1, n)[i] = ch[i]
  OBVIOUS
<1> QED  BY <1>1, <1>2, <1>3, Zenon

\* A chain stays in the database when its last block is disconnected.
LEMMA PresentFront ==
  ASSUME NEW outs, NEW ch \in Seq(Block), ch # <<>>, NEW k, Present(outs, ch, k),
         NEW d, d = SubSeq(ch, 1, Len(ch) - 1)
  PROVE  d \in Seq(Block) /\ Len(d) = Len(ch) - 1 /\ Len(d) \in Nat /\ Present(outs, d, k)
<1>1. d \in Seq(Block) /\ Len(d) = Len(ch) - 1 /\ Len(ch) \in Nat /\ Len(d) \in Nat
      /\ \A i \in 1..Len(d) : d[i] = ch[i]
  <2>1. Len(ch) \in Nat \ {0}
    OBVIOUS
  <2>2. Len(ch) - 1 \in Nat /\ Len(ch) - 1 <= Len(ch)
    BY <2>1
  <2>3. d \in Seq(Block) /\ Len(d) = Len(ch) - 1 /\ \A i \in 1..(Len(ch) - 1) : d[i] = ch[i]
    BY <2>2, Prefix, Zenon
  <2> QED  BY <2>1, <2>2, <2>3, Zenon
<1>2. ASSUME NEW n \in 0..Len(d) PROVE Covers(k, AfterBlocks(outs, d)[n])
  <2>1. n \in Nat /\ n \in 0..Len(ch) /\ n <= Len(ch) /\ n <= Len(d)
        /\ \A i \in 1..n : i \in 1..Len(d)
    BY <1>1
  <2>2. \A i \in 1..n : d[i] = ch[i]
    BY <1>1, <2>1, Zenon
  <2>3. AfterBlocks(outs, d)[n] = AfterBlocks(outs, ch)[n]
    BY <1>1, <2>1, <2>2, SamePrefix, ZenonT(60)
  <2> QED  BY <2>1, <2>3, Zenon DEF Present
<1> QED  BY <1>1, <1>2, Zenon DEF Present

\* No block of a chain is above its height.
LEMMA NothingAbove ==
  ASSUME NEW outs \in Contents, NEW ch \in Seq(Block), NEW t
  PROVE  Stands(outs, Len(ch), t, Last(outs, ch), Last(outs, ch)) /\ Len(ch) \in Nat
<1>1. Len(ch) \in Nat /\ Len(ch) \in 0..Len(ch)
  OBVIOUS
<1>2. Last(outs, ch) \in Lasts(Len(ch))
  BY <1>1, AfterBlocksType, StateFields, Zenon DEF Last
<1> DEFINE l == Last(outs, ch)
<1> HIDE DEF l
<1>3. ASSUME NEW c \in Contract, NEW x \in Key PROVE Kept(outs, Len(ch), t, c, x, l[c][x])
  <2>1. l[c][x] \in [at : 1..Len(ch), in : Block, out : Nat] \/ l[c][x] = NoWrite
    BY <1>2, Zenon DEF Lasts, l
  <2>2. l[c][x] \in [at : 1..Len(ch), in : Block, out : Nat] => l[c][x].at \in 1..Len(ch)
    BY Zenon
  <2>3. l[c][x].at \in 1..Len(ch) => ~(l[c][x].at > Len(ch))
    BY <1>1
  <2> QED  BY <2>1, <2>2, <2>3, Zenon DEF Kept
<1> QED  BY <1>1, <1>3, Zenon DEF Stands, l

\* The last writes of the chain stand also in its part.
LEMMA StandsPart ==
  ASSUME NEW outs, NEW e, NEW t, NEW l, NEW m, Stands(outs, e, t, m, m)
  PROVE  Stands(outs, e, t, l, m)
  BY Zenon DEF Stands

\* The block and the output of an execution.
LEMMA RunFacts ==
  ASSUME NEW outs \in Contents, NEW ch \in Seq(Block), NEW r, RunOK(outs, ch, r), r.for # "none"
  PROVE  /\ Head(r.blocks) \in Block /\ r.out \in Nat \ {0} /\ Len(r.blocks) \in Nat \ {0}
         /\ Len(outs[Head(r.blocks)]) \in Nat
         /\ Base(ch, r) \in 0..Len(ch) /\ Base(ch, r) + 1 \in Nat \ {0}
         /\ r.out <= Len(outs[Head(r.blocks)]) => outs[Head(r.blocks)][r.out] \in Output
<1>1. r \in Runs /\ r.blocks # <<>> /\ (r.for = "verify" => Len(r.blocks) <= Len(ch))
  BY Zenon DEF RunOK
<1>2. r.blocks \in Seq(Block) /\ r.out \in Nat \ {0}
  BY <1>1, Zenon DEF Runs
<1>3. Head(r.blocks) \in Block /\ Len(r.blocks) \in Nat \ {0}
  BY <1>1, <1>2
<1>4. Len(outs[Head(r.blocks)]) \in Nat
      /\ \A i \in 1..Len(outs[Head(r.blocks)]) : outs[Head(r.blocks)][i] \in Output
  BY <1>3, OutputsType, Zenon
<1>5. r.out <= Len(outs[Head(r.blocks)]) => r.out \in 1..Len(outs[Head(r.blocks)])
  BY <1>2, <1>4
<1>6. Base(ch, r) \in 0..Len(ch)
  <2>1. Len(ch) \in 0..Len(ch)
    OBVIOUS
  <2>2. Len(r.blocks) <= Len(ch) => Len(ch) - Len(r.blocks) \in 0..Len(ch)
    BY <1>3
  <2> QED  BY <1>1, <2>1, <2>2, Zenon DEF Base
<1>7. Base(ch, r) + 1 \in Nat \ {0}
  BY <1>6
<1> QED  BY <1>2, <1>3, <1>4, <1>5, <1>6, <1>7, Zenon

\* What was executed of a block gives a state.
LEMMA BeforeType ==
  ASSUME NEW outs \in Contents, NEW ch \in Seq(Block), NEW r, RunOK(outs, ch, r), r.for # "none"
  PROVE  Before(outs, ch, r) \in States(Base(ch, r) + 1)
<1> DEFINE b == Head(r.blocks)
           n == Base(ch, r)
           s == AfterBlocks(outs, ch)[n]
<1>1. b \in Block /\ r.out \in Nat \ {0} /\ Len(outs[b]) \in Nat /\ n \in 0..Len(ch)
      /\ n + 1 \in Nat \ {0}
  BY RunFacts, Zenon
<1>2. r.out <= Len(outs[b]) + 1
  BY Zenon DEF RunOK
<1>3. r.out - 1 \in 0..Len(outs[b]) /\ n \in Nat
  BY <1>1, <1>2
<1> HIDE DEF n
<1>4. s \in States(n + 1)
  BY <1>1, <1>3, AfterBlocksType, StatesGrow, Zenon
<1> HIDE DEF b, s
<1>5. AfterOutputs(outs, s, n + 1, b)[r.out - 1] \in States(n + 1)
  <2>1. \A i \in 0..Len(outs[b]) : AfterOutputs(outs, s, n + 1, b)[i] \in States(n + 1)
    BY <1>1, <1>4, AfterOutputsType, SMT
  <2> QED  BY <1>3, <2>1, Zenon
<1> QED  BY <1>5, Zenon DEF Before, b, s, n

\* The loop goes on to the next output.
LEMMA NextOutput ==
  ASSUME NEW outs \in Contents, NEW ch \in Seq(Block), NEW r, RunOK(outs, ch, r), r.for # "none",
         r.out <= Len(outs[Head(r.blocks)]),
         NEW q, q.for = r.for, q.blocks = r.blocks, q.out = r.out + 1, q.constructed = FALSE
  PROVE  Target(outs, ch, q)
           = Apply(outs, Before(outs, ch, r), Base(ch, r) + 1, Head(r.blocks), r.out)
<1> DEFINE b == Head(r.blocks)
           n == Base(ch, r) + 1
           s == AfterBlocks(outs, ch)[Base(ch, r)]
<1>1. b \in Block /\ r.out \in Nat \ {0} /\ Len(outs[b]) \in Nat
  BY RunFacts, Zenon
<1>2. r.out \in 1..Len(outs[b]) /\ q.out - 1 = r.out
  BY <1>1
<1>3. Base(ch, q) = Base(ch, r)
  BY Zenon DEF Base
<1> HIDE DEF b, s, n
<1>4. \A i \in 1..Len(outs[b]) :
        AfterOutputs(outs, s, n, b)[i] = Apply(outs, AfterOutputs(outs, s, n, b)[i - 1], n, b, i)
  BY <1>1, AfterOutputsSteps
<1>5. AfterOutputs(outs, s, n, b)[q.out - 1]
        = Apply(outs, AfterOutputs(outs, s, n, b)[r.out - 1], n, b, r.out)
  BY <1>2, <1>4, Zenon
<1>6. Before(outs, ch, q) = AfterOutputs(outs, s, n, b)[q.out - 1]
  BY <1>3, Zenon DEF Before, b, s, n
<1>7. Before(outs, ch, r) = AfterOutputs(outs, s, n, b)[r.out - 1]
  BY Zenon DEF Before, b, s, n
<1>8. Target(outs, ch, q) = Before(outs, ch, q)
  BY Zenon DEF Target
<1> QED  BY <1>5, <1>6, <1>7, <1>8, Zenon DEF b, n

\* The loop goes on: the next output is one of the block, or the end.
LEMMA NextRunOK ==
  ASSUME NEW outs \in Contents, NEW ch \in Seq(Block), NEW r, RunOK(outs, ch, r), r.for # "none",
         r.out <= Len(outs[Head(r.blocks)]),
         NEW q \in Runs, q.for = r.for, q.blocks = r.blocks, q.out = r.out + 1,
         q.constructed = FALSE
  PROVE  RunOK(outs, ch, q)
<1>1. Len(outs[Head(r.blocks)]) \in Nat /\ r.out \in Nat \ {0}
  BY RunFacts, Zenon
<1>2. q.out <= Len(outs[Head(q.blocks)]) + 1
  BY <1>1
<1>3. /\ r.blocks # <<>> /\ (r.for = "connect" => Len(r.blocks) = 1)
      /\ r.for = "verify" =>
           /\ Len(r.blocks) <= Len(ch)
           /\ \A i \in 1..Len(r.blocks) : r.blocks[i] = ch[Len(ch) - Len(r.blocks) + i]
  BY Zenon DEF RunOK
<1>4. q.constructed # TRUE
  BY Zenon
<1> QED  BY <1>2, <1>3, <1>4, Zenon DEF RunOK

\* The invariant after an output, from what the database holds.
LEMMA NextFollows ==
  ASSUME NEW outs \in Contents, NEW ch \in Seq(Block), NEW r, RunOK(outs, ch, r), r.for # "none",
         r.out <= Len(outs[Head(r.blocks)]),
         NEW q \in Runs, q.for = r.for, q.blocks = r.blocks, q.out = r.out + 1,
         q.constructed = FALSE,
         NEW e, NEW k, NEW t, NEW z,
         z = Apply(outs, Before(outs, ch, r), Base(ch, r) + 1, Head(r.blocks), r.out),
         Sound(outs, e, k, t, z, r.for, Last(outs, ch))
  PROVE  /\ RunOK(outs, ch, q) /\ Tracks(outs, ch, q, e, k, t)
         /\ r.for # "verify" /\ k = z.code /\ t = z.storage => Exact(outs, ch, q, k, t)
<1>1. RunOK(outs, ch, q)
  BY NextRunOK, Zenon
<1>2. Target(outs, ch, q) = z
  BY NextOutput, Zenon
<1>3. Tracks(outs, ch, q, e, k, t)
  BY <1>2, Zenon DEF Tracks
<1>4. r.for # "verify" /\ k = z.code /\ t = z.storage => Exact(outs, ch, q, k, t)
  BY <1>2, Zenon DEF Exact
<1> QED  BY <1>1, <1>3, <1>4, Zenon

\* What there is before an output when no constructor was executed.
LEMMA BeforeHolds ==
  ASSUME NEW outs, NEW ch, NEW r, r \in Runs, r.for # "none", NEW e, NEW k, NEW t,
         Tracks(outs, ch, r, e, k, t), ~r.constructed
  PROVE  /\ Sound(outs, e, k, t, Before(outs, ch, r), r.for, Last(outs, ch))
         /\ Covers(k, Before(outs, ch, r))
         /\ Exact(outs, ch, r, k, t) =>
              r.for # "verify" /\ k = Before(outs, ch, r).code /\ t = Before(outs, ch, r).storage
<1>1. Target(outs, ch, r) = Before(outs, ch, r)
  BY Zenon DEF Target
<1>2. r.for = "connect" \/ r.for = "verify"
  BY Zenon DEF Runs
<1> QED  BY <1>1, <1>2, Zenon DEF Tracks, Exact, Sound

\* No constructor was executed for an output that creates nothing.
LEMMA NotConstructed ==
  ASSUME NEW outs, NEW ch, NEW r, RunOK(outs, ch, r),
         ~outs[Head(r.blocks)][r.out].parses \/ outs[Head(r.blocks)][r.out].op = "call"
  PROVE  r.constructed = FALSE
<1>1. r.constructed \in BOOLEAN
  BY Zenon DEF RunOK, Runs
<1>2. "create" # "call"
  BY Zenon
<1> QED  BY <1>1, <1>2, Zenon DEF RunOK

\* A step of the execution r leads to q, and the database from k and t to j and u.
Follows(outs, ch, e, r, k, t, q, j, u) ==
  /\ RunOK(outs, ch, q) /\ Tracks(outs, ch, q, e, j, u)
  /\ Exact(outs, ch, r, k, t) => Exact(outs, ch, q, j, u)

\* SkipOutput: the replay skips the output too.
LEMMA SkipFollows ==
  ASSUME NEW outs \in Contents, NEW ch \in Seq(Block), NEW e, NEW k, NEW t,
         NEW r, RunOK(outs, ch, r), r.for # "none", r.out <= Len(outs[Head(r.blocks)]),
         Tracks(outs, ch, r, e, k, t),
         \/ ~outs[Head(r.blocks)][r.out].parses
         \/ /\ outs[Head(r.blocks)][r.out].op = "call"
            /\ k[outs[Head(r.blocks)][r.out].addr] = NoCode,
         NEW q \in Runs, q.for = r.for, q.blocks = r.blocks, q.out = r.out + 1,
         q.constructed = r.constructed
  PROVE  Follows(outs, ch, e, r, k, t, q, k, t)
<1> DEFINE s == Before(outs, ch, r)
           b == Head(r.blocks)
           z == Apply(outs, s, Base(ch, r) + 1, b, r.out)
<1>1. r.constructed = FALSE /\ ~r.constructed /\ r \in Runs
  <2>1. r.constructed = FALSE
    BY NotConstructed, Zenon
  <2>2. r \in Runs
    BY Zenon DEF RunOK
  <2> QED  BY <2>1, <2>2, Zenon
<1>2. outs[b][r.out] \in Output
  BY RunFacts, Zenon
<1>3. s = Before(outs, ch, r)
  BY Zenon
<1> HIDE DEF s
<1>4. /\ Sound(outs, e, k, t, s, r.for, Last(outs, ch)) /\ Covers(k, s)
      /\ Exact(outs, ch, r, k, t) => r.for # "verify" /\ k = s.code /\ t = s.storage
  <2>1. ~r.constructed /\ r \in Runs
    BY <1>1, Zenon
  <2>2. r.for # "none" /\ Tracks(outs, ch, r, e, k, t)
    BY Zenon
  <2> QED  BY <2>1, <2>2, BeforeHolds, SMT DEF s
<1>5. z = s
  BY <1>2, <1>4, SkipApplied, Zenon
<1>6. z = Apply(outs, Before(outs, ch, r), Base(ch, r) + 1, Head(r.blocks), r.out)
  BY <1>3, Zenon
<1> HIDE DEF z, b
<1>7. Sound(outs, e, k, t, z, r.for, Last(outs, ch)) /\ q.constructed = FALSE
  BY <1>1, <1>4, <1>5, Zenon
<1>8. /\ RunOK(outs, ch, q) /\ Tracks(outs, ch, q, e, k, t)
      /\ r.for # "verify" /\ k = z.code /\ t = z.storage => Exact(outs, ch, q, k, t)
  BY <1>6, <1>7, NextFollows, Zenon
<1> QED  BY <1>4, <1>5, <1>8, Zenon DEF Follows

\* Call.
LEMMA CallFollows ==
  ASSUME NEW outs \in Contents, NEW ch \in Seq(Block), NEW e, NEW k, NEW t \in Storages,
         NEW r, RunOK(outs, ch, r), r.for # "none", r.out <= Len(outs[Head(r.blocks)]),
         Tracks(outs, ch, r, e, k, t),
         outs[Head(r.blocks)][r.out].parses, outs[Head(r.blocks)][r.out].op = "call",
         k[outs[Head(r.blocks)][r.out].addr] # NoCode,
         NEW q \in Runs, q.for = r.for, q.blocks = r.blocks, q.out = r.out + 1,
         q.constructed = r.constructed,
         NEW u, u = WriteStorage(t, outs[Head(r.blocks)][r.out])
  PROVE  Follows(outs, ch, e, r, k, t, q, k, u)
<1> DEFINE s == Before(outs, ch, r)
           b == Head(r.blocks)
           n == Base(ch, r) + 1
           z == Apply(outs, s, n, b, r.out)
<1>1. r.constructed = FALSE /\ ~r.constructed /\ r \in Runs
  <2>1. r.constructed = FALSE
    BY NotConstructed, Zenon
  <2>2. r \in Runs
    BY Zenon DEF RunOK
  <2> QED  BY <2>1, <2>2, Zenon
<1>2. outs[b][r.out] \in Output /\ b \in Block /\ n \in Nat \ {0} /\ r.out \in Nat \ {0} /\ s \in States(n)
  BY RunFacts, BeforeType, Zenon
<1>3. s = Before(outs, ch, r) /\ r.out \in Nat
  BY <1>2, Zenon
<1>4. z = Apply(outs, Before(outs, ch, r), Base(ch, r) + 1, Head(r.blocks), r.out)
  BY Zenon
<1> HIDE DEF s
<1>5. /\ Sound(outs, e, k, t, s, r.for, Last(outs, ch)) /\ Covers(k, s)
      /\ Exact(outs, ch, r, k, t) => r.for # "verify" /\ k = s.code /\ t = s.storage
  <2>1. ~r.constructed /\ r \in Runs
    BY <1>1, Zenon
  <2>2. r.for # "none" /\ Tracks(outs, ch, r, e, k, t)
    BY Zenon
  <2> QED  BY <2>1, <2>2, BeforeHolds, SMT DEF s
<1>6. outs[b][r.out].parses /\ outs[b][r.out].op = "call" /\ k[outs[b][r.out].addr] # NoCode
      /\ u = WriteStorage(t, outs[b][r.out])
  BY Zenon
<1> HIDE DEF b, n
<1>7. /\ Sound(outs, e, k, u, z, r.for, Last(outs, ch))
      /\ k = s.code /\ t = s.storage => k = z.code /\ u = z.storage
  <2> DEFINE i == r.out
             f == r.for
             g == Last(outs, ch)
  <2>1. /\ outs[b][i].parses /\ outs[b][i].op = "call" /\ k[outs[b][i].addr] # NoCode
        /\ b \in Block /\ n \in Nat \ {0} /\ i \in Nat /\ outs[b][i] \in Output
        /\ Sound(outs, e, k, t, s, f, g) /\ s \in States(n)
    BY <1>2, <1>3, <1>5, <1>6, Zenon
  <2> HIDE DEF i, f, g
  <2>2. Agrees(outs, e, f, g, s, k, t, Apply(outs, s, n, b, i), k, WriteStorage(t, outs[b][i]))
    BY <2>1, CallApplied, Zenon
  <2> QED  BY <1>6, <2>2, Zenon DEF Agrees, g, i, f
<1> HIDE DEF z
<1>8. /\ RunOK(outs, ch, q) /\ Tracks(outs, ch, q, e, k, u)
      /\ r.for # "verify" /\ k = z.code /\ u = z.storage => Exact(outs, ch, q, k, u)
  BY <1>1, <1>4, <1>7, NextFollows, ZenonT(30)
<1> QED  BY <1>5, <1>7, <1>8, Zenon DEF Follows

\* SetContractCode: the output is complete.
LEMMA CodeFollows ==
  ASSUME NEW outs \in Contents, NEW ch \in Seq(Block), NEW e, NEW k \in Codes, NEW t,
         NEW r, RunOK(outs, ch, r), r.for # "none", r.out <= Len(outs[Head(r.blocks)]),
         Tracks(outs, ch, r, e, k, t), r.constructed,
         NEW q \in Runs, q.for = r.for, q.blocks = r.blocks, q.out = r.out + 1,
         q.constructed = FALSE,
         NEW j, j = WithCode(k, outs[Head(r.blocks)][r.out])
  PROVE  Follows(outs, ch, e, r, k, t, q, j, t)
<1> DEFINE s == Before(outs, ch, r)
           b == Head(r.blocks)
           n == Base(ch, r) + 1
           p == Wrote(s, n, b, r.out, outs[b][r.out])
           z == Apply(outs, s, n, b, r.out)
<1>1. outs[b][r.out] \in Output /\ s \in States(n)
  BY RunFacts, BeforeType, Zenon
<1>2. outs[b][r.out].parses /\ outs[b][r.out].op = "create" /\ r \in Runs
  BY Zenon DEF RunOK
<1>3. Target(outs, ch, r) = p
  BY Zenon DEF Target
<1>4. r.for = "connect" \/ r.for = "verify"
  BY <1>2, Zenon DEF Runs
<1>5. z = Apply(outs, Before(outs, ch, r), Base(ch, r) + 1, Head(r.blocks), r.out)
      /\ j = WithCode(k, outs[b][r.out])
  BY Zenon
<1> HIDE DEF s, b, n
<1>6. /\ Sound(outs, e, k, t, p, r.for, Last(outs, ch))
      /\ Exact(outs, ch, r, k, t) => r.for # "verify" /\ k = p.code /\ t = p.storage
  BY <1>3, <1>4, Zenon DEF Tracks, Exact
<1>7. /\ Sound(outs, e, j, t, z, r.for, Last(outs, ch))
      /\ k = p.code /\ t = p.storage => j = z.code /\ t = z.storage
  <2> DEFINE g == Last(outs, ch)
  <2> HIDE DEF g
  <2>1. Sound(outs, e, k, t, Wrote(s, n, b, r.out, outs[b][r.out]), r.for, g)
    BY <1>6, Zenon DEF g
  <2> DEFINE i == r.out
             f == r.for
  <2>2. /\ outs[b][i].parses /\ outs[b][i].op = "create" /\ outs[b][i] \in Output
        /\ Sound(outs, e, k, t, Wrote(s, n, b, i, outs[b][i]), f, g) /\ s \in States(n)
    BY <1>1, <1>2, <2>1, Zenon
  <2> HIDE DEF i, f
  <2>3. Agrees(outs, e, f, g, Wrote(s, n, b, i, outs[b][i]), k, t,
               Apply(outs, s, n, b, i), WithCode(k, outs[b][i]), t)
    BY <2>2, CreateApplied, Zenon
  <2> QED  BY <1>5, <2>3, Zenon DEF Agrees, g, i, f
<1> HIDE DEF p, z
<1>8. /\ RunOK(outs, ch, q) /\ Tracks(outs, ch, q, e, j, t)
      /\ r.for # "verify" /\ j = z.code /\ t = z.storage => Exact(outs, ch, q, j, t)
  <2>1. Sound(outs, e, j, t, z, r.for, Last(outs, ch)) /\ q.constructed = FALSE
    BY <1>7, Zenon
  <2>2. z = Apply(outs, Before(outs, ch, r), Base(ch, r) + 1, Head(r.blocks), r.out)
    BY <1>5, Zenon
  <2> QED  BY <2>1, <2>2, NextFollows, ZenonT(60)
<1> QED  BY <1>6, <1>7, <1>8, Zenon DEF Follows

\* Construct: the write of the constructor is the last of the target.
LEMMA ConstructFollows ==
  ASSUME NEW outs \in Contents, NEW ch \in Seq(Block), NEW e, NEW k, NEW t \in Storages,
         NEW r, RunOK(outs, ch, r), r.for # "none", r.out <= Len(outs[Head(r.blocks)]),
         Tracks(outs, ch, r, e, k, t), ~r.constructed,
         outs[Head(r.blocks)][r.out].parses, outs[Head(r.blocks)][r.out].op = "create",
         NEW q \in Runs, q.for = r.for, q.blocks = r.blocks, q.out = r.out,
         q.constructed = TRUE,
         NEW u, u = WriteStorage(t, outs[Head(r.blocks)][r.out])
  PROVE  Follows(outs, ch, e, r, k, t, q, k, u)
<1> DEFINE s == Before(outs, ch, r)
           b == Head(r.blocks)
           n == Base(ch, r) + 1
           p == Wrote(s, n, b, r.out, outs[b][r.out])
<1>1. RunOK(outs, ch, q) /\ r \in Runs
  BY Zenon DEF RunOK
<1>2. outs[b][r.out] \in Output /\ b \in Block /\ n \in Nat \ {0} /\ r.out \in Nat \ {0} /\ s \in States(n)
  BY RunFacts, BeforeType, Zenon
<1>3. Target(outs, ch, q) = p
  BY Zenon DEF Target, Before, Base
<1>4. s = Before(outs, ch, r) /\ r.out \in Nat /\ u = WriteStorage(t, outs[b][r.out])
  BY <1>2, Zenon
<1> HIDE DEF s, b, n
<1>5. /\ Sound(outs, e, k, t, s, r.for, Last(outs, ch)) /\ Covers(k, s)
      /\ Exact(outs, ch, r, k, t) => r.for # "verify" /\ k = s.code /\ t = s.storage
  BY <1>1, BeforeHolds, ZenonT(30) DEF s
<1>6. Sound(outs, e, k, u, p, r.for, Last(outs, ch))
  <2> DEFINE g == Last(outs, ch)
  <2> HIDE DEF g
  <2>1. Sound(outs, e, k, t, s, r.for, g)
    BY <1>5, Zenon DEF g
  <2>2. Sound(outs, e, k, WriteStorage(t, outs[b][r.out]),
              Wrote(s, n, b, r.out, outs[b][r.out]), r.for, g)
    BY <1>2, <1>4, <2>1, WroteSound, ZenonT(60)
  <2> QED  BY <1>4, <2>2, Zenon DEF g
<1>7. p.code = s.code /\ p.storage = WriteStorage(s.storage, outs[b][r.out])
  BY Zenon DEF Wrote
<1> HIDE DEF p
<1>8. Tracks(outs, ch, q, e, k, u)
  BY <1>3, <1>6, Zenon DEF Tracks
<1>9. Exact(outs, ch, r, k, t) => Exact(outs, ch, q, k, u)
  BY <1>3, <1>4, <1>5, <1>7, Zenon DEF Exact
<1> QED  BY <1>1, <1>8, <1>9, Zenon DEF Follows

-----------------------------------------------------------------------------
(* A block begins and ends.                                                *)

\* Sequences of one block.
LEMMA OneBlock ==
  ASSUME NEW b \in Block
  PROVE  <<b>> \in Seq(Block) /\ Head(<<b>>) = b /\ Len(<<b>>) = 1 /\ <<b>> # <<>>
  OBVIOUS

\* A connection executes the head of its blocks and no other.
LEMMA OnlyBlock ==
  ASSUME NEW v \in Seq(Block), Len(v) = 1 PROVE v = <<Head(v)>> /\ Head(v) \in Block
  OBVIOUS

\* A chain with one block more, written as ConnectTip writes it.
LEMMA ConcatBlock ==
  ASSUME NEW s \in Seq(Block), NEW b \in Block
  PROVE  s \o <<b>> = Append(s, b) /\ s \o <<b>> \in Seq(Block)
<1>1. s \o <<b>> = Append(s, b)
  OBVIOUS
<1>2. Append(s, b) \in Seq(Block)
  OBVIOUS
<1> QED  BY <1>1, <1>2, Zenon

\* The same for the blocks of a connection.
LEMMA ConcatOne ==
  ASSUME NEW s \in Seq(Block), NEW v \in Seq(Block), Len(v) = 1
  PROVE  s \o v = Append(s, Head(v)) /\ s \o v \in Seq(Block)
<1>1. v = <<Head(v)>> /\ Head(v) \in Block
  BY OnlyBlock, Zenon
<1>2. s \o <<Head(v)>> = Append(s, Head(v)) /\ s \o <<Head(v)>> \in Seq(Block)
  BY <1>1, ConcatBlock, Zenon
<1> QED  BY <1>1, <1>2, Zenon

\* Numbers.
LEMMA LastOut == ASSUME NEW x \in Nat \ {0}, NEW n \in Nat, x <= n + 1, ~(x <= n) PROVE x - 1 = n
  OBVIOUS

\* ConnectTip and VerifyDB start at the first output.
Start(f, blocks) == [Idle EXCEPT !.for = f, !.blocks = blocks]

\* ExecuteBlockContracts starts at the first output, with nothing constructed.
LEMMA StartFields ==
  ASSUME NEW f, f = "connect" \/ f = "verify", NEW blocks \in Seq(Block)
  PROVE  /\ Start(f, blocks) \in Runs
         /\ Start(f, blocks).for = f
         /\ Start(f, blocks).blocks = blocks
         /\ Start(f, blocks).out = 1
         /\ Start(f, blocks).constructed = FALSE
<1>1. ASSUME NEW q, q = [Idle EXCEPT !.for = f, !.blocks = blocks]
      PROVE  q \in Runs /\ q.for = f /\ q.blocks = blocks /\ q.out = 1 /\ q.constructed = FALSE
  <2>1. q = [for |-> f, blocks |-> blocks, out |-> 1, constructed |-> FALSE, failed |-> FALSE]
    BY <1>1, Zenon DEF Idle
  <2>2. 1 \in Nat \ {0} /\ FALSE \in BOOLEAN /\ f \in {"none", "connect", "verify"}
    OBVIOUS
  <2>3. q \in Runs
    BY <2>1, <2>2, Zenon DEF Runs
  <2>4. q.for = f /\ q.blocks = blocks /\ q.out = 1 /\ q.constructed = FALSE
    BY <2>1, Zenon
  <2> QED  BY <2>3, <2>4, Zenon
<1> QED  BY <1>1, Zenon DEF Start

\* At the first output the replay is where it was after the blocks before.
LEMMA FirstOutput ==
  ASSUME NEW outs \in Contents, NEW ch, NEW q, q \in Runs, q.out = 1, q.constructed = FALSE,
         Head(q.blocks) \in Block
  PROVE  /\ Target(outs, ch, q) = AfterBlocks(outs, ch)[Base(ch, q)]
         /\ q.out <= Len(outs[Head(q.blocks)]) + 1
<1> DEFINE b == Head(q.blocks)
           n == Base(ch, q)
           s == AfterBlocks(outs, ch)[n]
<1>1. Len(outs[b]) \in Nat
  BY OutputsType, Zenon
<1>2. q.out - 1 = 0 /\ q.out <= Len(outs[b]) + 1
  BY <1>1
<1> HIDE DEF s, n, b
<1>3. AfterOutputs(outs, s, n + 1, b)[0] = s
  BY <1>1, AfterOutputsSteps, SMT
<1>4. Before(outs, ch, q) = AfterOutputs(outs, s, n + 1, b)[q.out - 1]
  BY Zenon DEF Before, s, n, b
<1>5. Target(outs, ch, q) = Before(outs, ch, q)
  BY Zenon DEF Target
<1> QED  BY <1>2, <1>3, <1>4, <1>5, Zenon DEF s, n, b

\* After the last output it is where it is after the block.
LEMMA LastOutput ==
  ASSUME NEW outs \in Contents, NEW ch \in Seq(Block), NEW r, RunOK(outs, ch, r),
         r.for # "none", ~(r.out <= Len(outs[Head(r.blocks)]))
  PROVE  /\ ~r.constructed
         /\ Target(outs, ch, r) = ApplyBlock(outs, AfterBlocks(outs, ch)[Base(ch, r)],
                                             Base(ch, r) + 1, Head(r.blocks))
<1> DEFINE b == Head(r.blocks)
<1>1. r.out <= Len(outs[b]) + 1 /\ ~r.constructed
  BY Zenon DEF RunOK
<1>2. r.out \in Nat \ {0} /\ Len(outs[b]) \in Nat
  BY RunFacts, Zenon
<1>3. r.out - 1 = Len(outs[b])
  BY <1>1, <1>2, LastOut, Zenon
<1>4. Target(outs, ch, r) = Before(outs, ch, r)
  BY <1>1, Zenon DEF Target
<1> QED  BY <1>1, <1>3, <1>4, Zenon DEF Before, ApplyBlock

\* An idle node.
LEMMA IdleOK ==
  /\ Idle.for = "none" /\ Idle \in Runs
  /\ \A outs, ch : RunOK(outs, ch, Idle)
  /\ \A outs, ch, e, k, t :
       Stands(outs, e, t, Last(outs, ch), Last(outs, ch)) <=> Tracks(outs, ch, Idle, e, k, t)
<1>1. 1 \in Nat \ {0} /\ <<>> \in Seq(Block) /\ FALSE \in BOOLEAN
  OBVIOUS
<1>2. Idle \in Runs /\ Idle.for = "none" /\ Idle.constructed = FALSE
  BY <1>1, Zenon DEF Idle, Runs
<1>3. Idle.for # "connect" /\ Idle.for # "verify" /\ Idle.constructed # TRUE
  BY <1>2, Zenon
<1>4. \A outs, ch : RunOK(outs, ch, Idle)
  BY <1>2, <1>3, Zenon DEF RunOK
<1>5. \A outs, ch, e, k, t :
        Stands(outs, e, t, Last(outs, ch), Last(outs, ch)) <=> Tracks(outs, ch, Idle, e, k, t)
  BY <1>2, Zenon DEF Tracks
<1> QED  BY <1>2, <1>4, <1>5, Zenon

\* ConnectTip: nothing of the block was executed yet.
LEMMA ConnectStarts ==
  ASSUME NEW outs \in Contents, NEW ch \in Seq(Block), NEW b \in Block, NEW e, NEW k, NEW t,
         Present(outs, ch, k), Tracks(outs, ch, Idle, e, k, t),
         NEW v \in Seq(Block), v # <<>>, Len(v) = 1, Head(v) = b,
         NEW q, q = Start("connect", v)
  PROVE  /\ RunOK(outs, ch, q) /\ Tracks(outs, ch, q, e, k, t)
         /\ Exact(outs, ch, Idle, k, t) => Exact(outs, ch, q, k, t)
<1> DEFINE s == AfterBlocks(outs, ch)[Len(ch)]
<1>1. q \in Runs /\ q.for = "connect" /\ q.blocks = v /\ q.out = 1 /\ q.constructed = FALSE
  BY StartFields, Zenon
<1>2. q.for # "none" /\ q.for # "verify" /\ q.constructed # TRUE
  BY <1>1, Zenon
<1>3. Base(ch, q) = Len(ch) /\ Head(q.blocks) \in Block
  BY <1>1, <1>2, Zenon DEF Base
<1>4. Target(outs, ch, q) = s /\ q.out <= Len(outs[Head(q.blocks)]) + 1
  BY <1>1, <1>3, FirstOutput, Zenon
<1>5. RunOK(outs, ch, q)
  BY <1>1, <1>2, <1>4, Zenon DEF RunOK
<1>6. Covers(k, s)
  <2>1. Len(ch) \in 0..Len(ch)
    OBVIOUS
  <2> QED  BY <2>1, Zenon DEF Present
<1>7. Stands(outs, e, t, s.last, s.last)
  BY IdleOK, Zenon DEF Last
<1>8. Goal(s, q.for, Last(outs, ch)) = s.last
  BY <1>2, Zenon DEF Goal
<1>9. Tracks(outs, ch, q, e, k, t)
  BY <1>2, <1>4, <1>6, <1>7, <1>8, Zenon DEF Tracks, Sound
<1>10. Exact(outs, ch, Idle, k, t) => Exact(outs, ch, q, k, t)
  BY <1>2, <1>4, IdleOK, Zenon DEF Exact
<1> QED  BY <1>5, <1>9, <1>10, Zenon

\* Executed: the block is in the database when its outputs are, and the tip moves.
LEMMA BlockDone ==
  ASSUME NEW outs \in Contents, NEW ch \in Seq(Block), NEW e, NEW k, NEW t, Present(outs, ch, k),
         NEW r, RunOK(outs, ch, r), r.for = "connect", ~(r.out <= Len(outs[Head(r.blocks)])),
         Tracks(outs, ch, r, e, k, t),
         NEW d, d = ch \o r.blocks
  PROVE  /\ d \in Seq(Block) /\ Present(outs, d, k) /\ Len(r.blocks) = 1
         /\ Tracks(outs, d, Idle, e, k, t)
         /\ Exact(outs, ch, r, k, t) => Exact(outs, d, Idle, k, t)
<1> DEFINE b == Head(r.blocks)
           z == ApplyBlock(outs, AfterBlocks(outs, ch)[Len(ch)], Len(ch) + 1, b)
<1>1. r.for # "none" /\ r.for # "verify"
  BY Zenon
<1>2. r.blocks \in Seq(Block) /\ Len(r.blocks) = 1 /\ b \in Block
  <2>1. r \in Runs /\ Len(r.blocks) = 1
    BY Zenon DEF RunOK
  <2> QED  BY <1>1, <2>1, RunFacts, Zenon DEF Runs
<1>3. Base(ch, r) = Len(ch)
  BY <1>1, Zenon DEF Base
<1>4. Target(outs, ch, r) = z
  BY <1>1, <1>3, LastOutput, Zenon
<1>5. d = Append(ch, b) /\ d \in Seq(Block)
  BY <1>2, ConcatOne, Zenon
<1>6. AfterBlocks(outs, d)[Len(d)] = z
  <2> DEFINE a == Append(ch, b)
  <2>1. AfterBlocks(outs, a)[Len(a)] = z
    BY <1>2, AfterAppend, Zenon
  <2> HIDE DEF a, z
  <2> QED  BY <1>5, <2>1, Zenon DEF a
<1> HIDE DEF z
<1>7. Covers(k, z) /\ Stands(outs, e, t, z.last, z.last)
  <2>1. Goal(z, r.for, Last(outs, ch)) = z.last
    BY <1>1, Zenon DEF Goal
  <2> QED  BY <1>1, <1>4, <2>1, Zenon DEF Tracks, Sound
<1>8. Present(outs, d, k)
  BY <1>2, <1>5, <1>7, PresentAppend, Zenon DEF z
<1>9. Tracks(outs, d, Idle, e, k, t)
  BY <1>6, <1>7, IdleOK, Zenon DEF Last
<1>10. Exact(outs, ch, r, k, t) => Exact(outs, d, Idle, k, t)
  BY <1>4, <1>6, IdleOK, Zenon DEF Exact
<1> QED  BY <1>2, <1>5, <1>8, <1>9, <1>10, Zenon

\* The last blocks of a chain.
IsSuffix(v, ch) ==
  /\ v # <<>> /\ Len(v) <= Len(ch)
  /\ \A i \in 1..Len(v) : v[i] = ch[Len(ch) - Len(v) + i]

\* VerifyDB comes to a block: the replay is at the blocks before it.
LEMMA VerifyStarts ==
  ASSUME NEW outs \in Contents, NEW ch \in Seq(Block), NEW e, NEW k, NEW t, Present(outs, ch, k),
         NEW v \in Seq(Block), IsSuffix(v, ch),
         NEW s, s = AfterBlocks(outs, ch)[Len(ch) - Len(v)],
         Stands(outs, e, t, s.last, Last(outs, ch)),
         NEW q, q = Start("verify", v)
  PROVE  RunOK(outs, ch, q) /\ Tracks(outs, ch, q, e, k, t)
<1>1. q \in Runs /\ q.for = "verify" /\ q.blocks = v /\ q.out = 1 /\ q.constructed = FALSE
  BY StartFields, Zenon
<1>2. q.for # "none" /\ q.for # "connect" /\ q.constructed # TRUE
  BY <1>1, Zenon
<1>3. v # <<>> /\ Len(v) <= Len(ch)
  BY Zenon DEF IsSuffix
<1>4. Head(v) \in Block /\ Len(ch) - Len(v) \in 0..Len(ch)
  BY <1>3
<1>5. Base(ch, q) = Len(ch) - Len(v) /\ Head(q.blocks) \in Block
  BY <1>1, <1>4, Zenon DEF Base
<1>6. Target(outs, ch, q) = s /\ q.out <= Len(outs[Head(q.blocks)]) + 1
  BY <1>1, <1>5, FirstOutput, Zenon
<1>7. RunOK(outs, ch, q)
  BY <1>1, <1>2, <1>6, Zenon DEF RunOK, IsSuffix
<1>8. Covers(k, s)
  BY <1>4, Zenon DEF Present
<1>9. Goal(s, q.for, Last(outs, ch)) = Last(outs, ch)
  BY <1>1, Zenon DEF Goal
<1>10. Tracks(outs, ch, q, e, k, t)
  BY <1>2, <1>6, <1>8, <1>9, Zenon DEF Tracks, Sound
<1> QED  BY <1>7, <1>10, Zenon

\* VerifyDB has executed a block: the replay is at the block.
LEMMA VerifyDone ==
  ASSUME NEW outs \in Contents, NEW ch \in Seq(Block), NEW e, NEW k, NEW t,
         NEW r, RunOK(outs, ch, r), r.for = "verify", ~(r.out <= Len(outs[Head(r.blocks)])),
         Tracks(outs, ch, r, e, k, t),
         NEW n, n = Len(ch) - Len(r.blocks) + 1,
         NEW s, s = AfterBlocks(outs, ch)[n]
  PROVE  /\ n \in 1..Len(ch) /\ Stands(outs, e, t, s.last, Last(outs, ch))
         /\ r.blocks \in Seq(Block) /\ IsSuffix(r.blocks, ch)
<1>1. r.for # "none" /\ r.for # "connect"
  BY Zenon
<1>2. /\ r.blocks # <<>> /\ Len(r.blocks) <= Len(ch) /\ r \in Runs
      /\ \A i \in 1..Len(r.blocks) : r.blocks[i] = ch[Len(ch) - Len(r.blocks) + i]
  BY <1>1, Zenon DEF RunOK
<1>3. r.blocks \in Seq(Block) /\ Len(r.blocks) \in Nat \ {0} /\ Len(ch) \in Nat
  <2>1. r.blocks \in Seq(Block)
    BY <1>2, Zenon DEF Runs
  <2>2. Len(ch) \in Nat
    OBVIOUS
  <2> QED  BY <1>1, <2>1, <2>2, RunFacts, Zenon
<1>4. n \in 1..Len(ch) /\ n - 1 = Len(ch) - Len(r.blocks) /\ 1 \in 1..Len(r.blocks)
  BY <1>2, <1>3
<1>5. Head(r.blocks) = ch[n]
  <2>1. Head(r.blocks) = r.blocks[1]
    BY <1>2, <1>3
  <2> QED  BY <1>2, <1>4, <2>1, Zenon
<1>6. Base(ch, r) = n - 1 /\ Base(ch, r) + 1 = n
  BY <1>4, Zenon DEF Base
<1>7. s = ApplyBlock(outs, AfterBlocks(outs, ch)[n - 1], n, ch[n])
  <2>1. \A i \in 1..Len(ch) :
          AfterBlocks(outs, ch)[i] = ApplyBlock(outs, AfterBlocks(outs, ch)[i - 1], i, ch[i])
    BY <1>3, AfterBlocksSteps, Zenon
  <2> QED  BY <1>4, <2>1, Zenon
<1>8. Target(outs, ch, r) = s
  <2>1. Target(outs, ch, r) = ApplyBlock(outs, AfterBlocks(outs, ch)[Base(ch, r)],
                                         Base(ch, r) + 1, Head(r.blocks))
    BY <1>1, LastOutput, Zenon
  <2> QED  BY <1>5, <1>6, <1>7, <2>1, Zenon
<1>9. Goal(s, r.for, Last(outs, ch)) = Last(outs, ch)
  BY Zenon DEF Goal
<1>10. Stands(outs, e, t, s.last, Last(outs, ch))
  BY <1>1, <1>8, <1>9, Zenon DEF Tracks, Sound
<1> QED  BY <1>2, <1>3, <1>4, <1>10, Zenon DEF IsSuffix

\* The blocks VerifyDB begins with.
LastBlocks(ch, n) == SubSeq(ch, Len(ch) - n + 1, Len(ch))
LEMMA Suffix ==
  ASSUME NEW ch \in Seq(Block), NEW n \in 1..Len(ch)
  PROVE  LastBlocks(ch, n) \in Seq(Block) /\ IsSuffix(LastBlocks(ch, n), ch)
<1> DEFINE v == SubSeq(ch, Len(ch) - n + 1, Len(ch))
<1>1. Len(ch) \in Nat /\ Len(ch) - n + 1 \in 1..Len(ch)
  OBVIOUS
<1>2. v \in Seq(Block)
  BY <1>1
<1>3. Len(v) = n
  BY <1>1
<1>4. ASSUME NEW i \in 1..n PROVE v[i] = ch[Len(ch) - n + i]
  BY <1>1
<1>5. v # <<>>
  <2>1. Len(<<>>) = 0 /\ n # 0
    OBVIOUS
  <2> QED  BY <1>3, <2>1, Zenon
<1>6. n <= Len(ch)
  OBVIOUS
<1> HIDE DEF v
<1>7. IsSuffix(v, ch)
  BY <1>3, <1>4, <1>5, <1>6, Zenon DEF IsSuffix
<1> QED  BY <1>2, <1>7, Zenon DEF LastBlocks, v

\* The blocks it goes on with.
LEMMA TailBlocks ==
  ASSUME NEW ch \in Seq(Block), NEW v \in Seq(Block), IsSuffix(v, ch), Len(v) # 1
  PROVE  /\ Tail(v) \in Seq(Block) /\ IsSuffix(Tail(v), ch)
         /\ Len(ch) - Len(Tail(v)) = Len(ch) - Len(v) + 1
<1>1. /\ v # <<>> /\ Len(v) <= Len(ch)
      /\ \A i \in 1..Len(v) : v[i] = ch[Len(ch) - Len(v) + i]
  BY Zenon DEF IsSuffix
<1>2. Len(v) \in Nat \ {0, 1} /\ Len(ch) \in Nat
  BY <1>1
<1>3. Tail(v) \in Seq(Block) /\ Len(Tail(v)) = Len(v) - 1
  BY <1>1
<1>4. Tail(v) # <<>>
  <2>1. Len(Tail(v)) # 0 /\ Len(<<>>) = 0
    BY <1>2, <1>3
  <2> QED  BY <2>1, Zenon
<1>5. Len(Tail(v)) <= Len(ch) /\ Len(ch) - Len(Tail(v)) = Len(ch) - Len(v) + 1
  BY <1>1, <1>2, <1>3
<1>6. ASSUME NEW i \in 1..Len(Tail(v)) PROVE Tail(v)[i] = ch[Len(ch) - Len(Tail(v)) + i]
  <2>1. Tail(v)[i] = v[i + 1]
    BY <1>1, <1>3
  <2>2. i + 1 \in 1..Len(v) /\ Len(ch) - Len(v) + (i + 1) = Len(ch) - Len(Tail(v)) + i
    BY <1>2, <1>3
  <2> QED  BY <1>1, <2>1, <2>2, Zenon
<1> QED  BY <1>3, <1>4, <1>5, <1>6, Zenon DEF IsSuffix

-----------------------------------------------------------------------------
(* Every step keeps the invariant.                                         *)

\* The empty database holds the empty chain.
LEMMA InitInv == Init => ExecutionInv
<1> SUFFICES ASSUME Init PROVE ExecutionInv
  BY Zenon
<1>1. /\ outputs \in Contents /\ chain = <<>> /\ flushed = <<>> /\ since = 0
      /\ code = Empty.code /\ storage = Empty.storage /\ run = Idle
  BY Zenon DEF Init, Empty
<1>2. Empty.code \in Codes /\ Empty.storage \in Storages
  BY EmptyType, StateFields, Zenon
<1>3. <<>> \in Seq(Block) /\ 0 \in Nat /\ Len(<<>>) = 0
  OBVIOUS
<1>4. StateType
  BY <1>1, <1>2, <1>3, Zenon DEF StateType
<1>5. Present(outputs, <<>>, code) /\ AfterBlocks(outputs, <<>>)[Len(<<>>)] = Empty
  BY EmptyChain, Zenon
<1>6. Stands(outputs, Len(<<>>), storage, Last(outputs, <<>>), Last(outputs, <<>>))
  BY <1>1, <1>3, NothingAbove, Zenon
<1>7. RunOK(outputs, <<>>, Idle) /\ Tracks(outputs, <<>>, Idle, 0, code, storage)
  BY <1>3, <1>6, IdleOK, Zenon
<1>8. Exact(outputs, <<>>, Idle, code, storage)
  BY <1>1, <1>5, IdleOK, Zenon DEF Exact
<1> QED  BY <1>1, <1>4, <1>5, <1>7, <1>8, Zenon DEF ExecutionInv

\* What the invariant says, in plain facts.
LEMMA Facts ==
  ASSUME ExecutionInv
  PROVE  /\ outputs \in Contents /\ chain \in Seq(Block) /\ flushed \in Seq(Block)
         /\ code \in Codes /\ storage \in Storages /\ since \in Nat
         /\ RunOK(outputs, chain, run) /\ run \in Runs
         /\ Present(outputs, chain, code) /\ Present(outputs, flushed, code)
         /\ Tracks(outputs, chain, run, since, code, storage)
         /\ forward => Exact(outputs, chain, run, code, storage)
  BY Zenon DEF ExecutionInv, StateType, RunOK

\* And what has to be shown of a step.
LEMMA Whole ==
  ASSUME outputs' \in Contents, chain' \in Seq(Block), flushed' \in Seq(Block),
         code' \in Codes, storage' \in Storages, since' \in Nat, RunOK(outputs', chain', run'),
         Present(outputs', chain', code'), Present(outputs', flushed', code'),
         Tracks(outputs', chain', run', since', code', storage'),
         forward' => Exact(outputs', chain', run', code', storage')
  PROVE  ExecutionInv'
  BY Zenon DEF ExecutionInv, StateType

\* An execution in progress.
LEMMA InLoop ==
  ASSUME ExecutionInv, Executing
  PROVE  /\ run.for # "none" /\ run.out <= Len(outputs[Head(run.blocks)])
         /\ Now = outputs[Head(run.blocks)][run.out] /\ Now \in Output
<1>1. outputs \in Contents /\ RunOK(outputs, chain, run) /\ chain \in Seq(Block)
  BY Facts, Zenon
<1>2. run # Idle /\ run.out <= Len(outputs[Head(run.blocks)])
  BY Zenon DEF Executing, Current
<1>3. run.for # "none"
  BY <1>1, <1>2, Zenon DEF RunOK
<1>4. Now = outputs[Head(run.blocks)][run.out]
  BY Zenon DEF Now, Current
<1>5. Now \in Output
  BY <1>1, <1>2, <1>3, <1>4, RunFacts, Zenon
<1> QED  BY <1>2, <1>3, <1>4, <1>5, Zenon

\* ConnectTip starts an execution and has written nothing.
LEMMA ConnectTipInv ==
  ASSUME ExecutionInv, NEW b \in Block, ConnectTip(b) PROVE ExecutionInv'
<1>1. /\ run = Idle /\ run' = Start("connect", <<b>>)
      /\ outputs' = outputs /\ chain' = chain /\ flushed' = flushed /\ since' = since
      /\ code' = code /\ storage' = storage /\ forward' = forward
  BY Zenon DEF ConnectTip, Start, db
<1>2. <<b>> \in Seq(Block) /\ Head(<<b>>) = b /\ Len(<<b>>) = 1 /\ <<b>> # <<>>
  BY OneBlock, Zenon
<1> DEFINE v == <<b>>
<1> HIDE DEF v
<1>3. /\ RunOK(outputs, chain, run') /\ Tracks(outputs, chain, run', since, code, storage)
      /\ Exact(outputs, chain, Idle, code, storage) => Exact(outputs, chain, run', code, storage)
  <2>1. v \in Seq(Block) /\ v # <<>> /\ Len(v) = 1 /\ Head(v) = b /\ run' = Start("connect", v)
    BY <1>1, <1>2, Zenon DEF v
  <2>2. Tracks(outputs, chain, Idle, since, code, storage)
    BY <1>1, Facts, Zenon
  <2> QED  BY <2>1, <2>2, Facts, ConnectStarts, Zenon
<1> QED  BY <1>1, <1>3, Facts, Whole, Zenon

\* VerifyDB starts over with the last blocks of the chain.
LEMMA VerifyDBInv ==
  ASSUME ExecutionInv, NEW n \in 1..Len(chain), VerifyDB(n) PROVE ExecutionInv'
<1> DEFINE v == LastBlocks(chain, n)
<1>1. /\ run = Idle /\ run' = Start("verify", v)
      /\ outputs' = outputs /\ chain' = chain /\ flushed' = flushed /\ since' = since
      /\ code' = code /\ storage' = storage /\ forward' = FALSE
  BY Zenon DEF VerifyDB, Start, db, LastBlocks
<1>2. v \in Seq(Block) /\ IsSuffix(v, chain)
  BY Facts, Suffix, Zenon
<1> HIDE DEF v
<1> DEFINE s == AfterBlocks(outputs, chain)[Len(chain) - Len(v)]
<1>3. s = AfterBlocks(outputs, chain)[Len(chain) - Len(v)]
  BY Zenon
<1> HIDE DEF s
<1>4. Stands(outputs, since, storage, s.last, Last(outputs, chain))
  <2>1. Tracks(outputs, chain, Idle, since, code, storage)
    BY <1>1, Facts, Zenon
  <2>2. Stands(outputs, since, storage, Last(outputs, chain), Last(outputs, chain))
    BY <2>1, IdleOK, Zenon
  <2> QED  BY <2>2, StandsPart, Zenon
<1>5. RunOK(outputs, chain, run') /\ Tracks(outputs, chain, run', since, code, storage)
  <2>1. run' = Start("verify", v) /\ outputs \in Contents /\ chain \in Seq(Block)
        /\ Present(outputs, chain, code)
    BY <1>1, Facts, Zenon
  <2> QED  BY <1>2, <1>3, <1>4, <2>1, VerifyStarts, Zenon
<1> QED  BY <1>1, <1>5, Facts, Whole, Zenon

\* Fields of the execution after an output.
Moved(r, q, n, c) ==
  q \in Runs /\ q.for = r.for /\ q.blocks = r.blocks /\ q.out = n /\ q.constructed = c

\* The fields of a record after the updates the actions make.
LEMMA RecordUpdate ==
  ASSUME NEW F, NEW B, NEW N, NEW C,
         NEW r \in [for : F, blocks : B, out : N, constructed : C, failed : C],
         NEW n \in N, NEW c \in C, NEW d \in C
  PROVE  LET p == [r EXCEPT !.out = n]
             q == [r EXCEPT !.constructed = c, !.failed = d]
             u == [r EXCEPT !.constructed = c, !.out = n]
             v == [r EXCEPT !.out = n, !.failed = d]
             Same(x) == /\ x \in [for : F, blocks : B, out : N, constructed : C, failed : C]
                        /\ x.for = r.for /\ x.blocks = r.blocks
         IN  /\ Same(p) /\ p.out = n /\ p.constructed = r.constructed
             /\ Same(q) /\ q.out = r.out /\ q.constructed = c
             /\ Same(u) /\ u.out = n /\ u.constructed = c
             /\ Same(v) /\ v.out = n /\ v.constructed = r.constructed
  BY Zenon

\* The same of the execution in progress.
LEMMA MovedOn ==
  ASSUME NEW r \in Runs, NEW n \in Nat \ {0}, NEW c \in BOOLEAN, NEW d \in BOOLEAN
  PROVE  /\ Moved(r, [r EXCEPT !.out = n], n, r.constructed)
         /\ Moved(r, [r EXCEPT !.constructed = c, !.failed = d], r.out, c)
         /\ Moved(r, [r EXCEPT !.constructed = c, !.out = n], n, c)
         /\ Moved(r, [r EXCEPT !.out = n, !.failed = d], n, r.constructed)
  BY RecordUpdate, Zenon DEF Runs, Moved

\* The number of the next output.
LEMMA NextOut == ASSUME NEW r \in Runs PROVE r.out + 1 \in Nat \ {0}
<1>1. r.out \in Nat \ {0}
  BY Zenon DEF Runs
<1> QED  BY <1>1

\* An output the loop skips, as unparsed or for want of code, the replay skips too.
LEMMA SkipOutputInv == ASSUME ExecutionInv, SkipOutput PROVE ExecutionInv'
<1>1. /\ run' = [run EXCEPT !.out = @ + 1] /\ Executing
      /\ ~Now.parses \/ (Now.op = "call" /\ code[Now.addr] = NoCode)
      /\ outputs' = outputs /\ chain' = chain /\ flushed' = flushed /\ since' = since
      /\ code' = code /\ storage' = storage /\ forward' = forward
  BY Zenon DEF SkipOutput, db
<1>2. /\ run' \in Runs /\ run'.for = run.for /\ run'.blocks = run.blocks
      /\ run'.out = run.out + 1 /\ run'.constructed = run.constructed
  <2>1. run' = [run EXCEPT !.out = run.out + 1] /\ run.out + 1 \in Nat \ {0} /\ TRUE \in BOOLEAN
    BY <1>1, Facts, NextOut, Zenon
  <2>2. Moved(run, [run EXCEPT !.out = run.out + 1], run.out + 1, run.constructed)
    BY <2>1, Facts, MovedOn, Zenon
  <2> QED  BY <2>1, <2>2, Zenon DEF Moved
<1>3. /\ run.for # "none" /\ run.out <= Len(outputs[Head(run.blocks)])
      /\ Now = outputs[Head(run.blocks)][run.out]
  BY <1>1, InLoop, Zenon
<1>4. Follows(outputs, chain, since, run, code, storage, run', code, storage)
  BY <1>1, <1>2, <1>3, Facts, SkipFollows, Zenon
<1> QED  BY <1>1, <1>4, Facts, Whole, Zenon DEF Follows

\* The constructor wrote to the storage of its contract.
LEMMA ConstructInv == ASSUME ExecutionInv, Construct PROVE ExecutionInv'
<1>1. /\ run' = [run EXCEPT !.constructed = TRUE, !.failed = @ \/ ~Now.succeeds]
      /\ Executing /\ Now.parses /\ Now.op = "create" /\ ~run.constructed
      /\ storage' = WriteStorage(storage, Now)
      /\ outputs' = outputs /\ chain' = chain /\ flushed' = flushed /\ since' = since
      /\ code' = code /\ forward' = forward
  BY Zenon DEF Construct
<1>2. /\ run' \in Runs /\ run'.for = run.for /\ run'.blocks = run.blocks
      /\ run'.out = run.out /\ run'.constructed = TRUE
  <2>1. (run.failed \/ ~Now.succeeds) \in BOOLEAN
    BY Zenon
  <2>2. run' = [run EXCEPT !.constructed = TRUE, !.failed = (run.failed \/ ~Now.succeeds)]
    BY <1>1, Zenon
  <2>3. run.out + 1 \in Nat \ {0} /\ TRUE \in BOOLEAN
    BY Facts, NextOut, Zenon
  <2>4. Moved(run, [run EXCEPT !.constructed = TRUE, !.failed = (run.failed \/ ~Now.succeeds)],
              run.out, TRUE)
    BY <2>1, <2>3, Facts, MovedOn, Zenon
  <2> QED  BY <2>2, <2>4, Zenon DEF Moved
<1>3. /\ run.for # "none" /\ run.out <= Len(outputs[Head(run.blocks)])
      /\ Now = outputs[Head(run.blocks)][run.out] /\ Now \in Output
  BY <1>1, InLoop, Zenon
<1>4. Follows(outputs, chain, since, run, code, storage, run', code, storage')
  <2>1. /\ outputs \in Contents /\ chain \in Seq(Block) /\ storage \in Storages
        /\ RunOK(outputs, chain, run) /\ Tracks(outputs, chain, run, since, code, storage)
    BY Facts, Zenon
  <2>2. /\ outputs[Head(run.blocks)][run.out].parses
        /\ outputs[Head(run.blocks)][run.out].op = "create" /\ ~run.constructed
        /\ storage' = WriteStorage(storage, outputs[Head(run.blocks)][run.out])
    BY <1>1, <1>3, Zenon
  <2> QED  BY <1>2, <1>3, <2>1, <2>2, ConstructFollows, Zenon
<1>5. storage' \in Storages
  BY <1>1, <1>3, Facts, WriteStorageType, Zenon
<1> QED  BY <1>1, <1>4, <1>5, Facts, Whole, Zenon DEF Follows

\* The call wrote to the storage of its contract.
LEMMA CallInv == ASSUME ExecutionInv, Call PROVE ExecutionInv'
<1>1. /\ run' = [run EXCEPT !.out = @ + 1, !.failed = @ \/ ~Now.succeeds]
      /\ Executing /\ Now.parses /\ Now.op = "call" /\ code[Now.addr] # NoCode
      /\ storage' = WriteStorage(storage, Now)
      /\ outputs' = outputs /\ chain' = chain /\ flushed' = flushed /\ since' = since
      /\ code' = code /\ forward' = forward
  BY Zenon DEF Call
<1>2. /\ run' \in Runs /\ run'.for = run.for /\ run'.blocks = run.blocks
      /\ run'.out = run.out + 1 /\ run'.constructed = run.constructed
  <2>1. (run.failed \/ ~Now.succeeds) \in BOOLEAN
    BY Zenon
  <2>2. run' = [run EXCEPT !.out = run.out + 1, !.failed = (run.failed \/ ~Now.succeeds)]
    BY <1>1, Zenon
  <2>3. run.out + 1 \in Nat \ {0}
    BY Facts, NextOut, Zenon
  <2>4. Moved(run, [run EXCEPT !.out = run.out + 1, !.failed = (run.failed \/ ~Now.succeeds)],
              run.out + 1, run.constructed)
    BY <2>1, <2>3, Facts, MovedOn, Zenon
  <2> QED  BY <2>2, <2>4, Zenon DEF Moved
<1>3. /\ run.for # "none" /\ run.out <= Len(outputs[Head(run.blocks)])
      /\ Now = outputs[Head(run.blocks)][run.out] /\ Now \in Output
  BY <1>1, InLoop, Zenon
<1>4. Follows(outputs, chain, since, run, code, storage, run', code, storage')
  <2>1. /\ outputs \in Contents /\ chain \in Seq(Block) /\ storage \in Storages
        /\ RunOK(outputs, chain, run) /\ Tracks(outputs, chain, run, since, code, storage)
    BY Facts, Zenon
  <2>2. /\ outputs[Head(run.blocks)][run.out].parses
        /\ outputs[Head(run.blocks)][run.out].op = "call"
        /\ code[outputs[Head(run.blocks)][run.out].addr] # NoCode
        /\ storage' = WriteStorage(storage, outputs[Head(run.blocks)][run.out])
    BY <1>1, <1>3, Zenon
  <2> QED  BY <1>2, <1>3, <2>1, <2>2, CallFollows, Zenon
<1>5. storage' \in Storages
  BY <1>1, <1>3, Facts, WriteStorageType, Zenon
<1> QED  BY <1>1, <1>4, <1>5, Facts, Whole, Zenon DEF Follows

\* The code of a contract is stored and the loop moves on.
LEMMA SetContractCodeInv == ASSUME ExecutionInv, SetContractCode PROVE ExecutionInv'
<1>1. /\ run' = [run EXCEPT !.constructed = FALSE, !.out = run.out + 1]
      /\ Executing /\ run.constructed
      /\ code' = WithCode(code, Now)
      /\ outputs' = outputs /\ chain' = chain /\ flushed' = flushed /\ since' = since
      /\ storage' = storage /\ forward' = forward
  BY Zenon DEF SetContractCode, WithCode
<1>2. /\ run' \in Runs /\ run'.for = run.for /\ run'.blocks = run.blocks
      /\ run'.out = run.out + 1 /\ run'.constructed = FALSE
  <2>1. run.out + 1 \in Nat \ {0} /\ FALSE \in BOOLEAN
    BY Facts, NextOut, Zenon
  <2>2. Moved(run, [run EXCEPT !.constructed = FALSE, !.out = run.out + 1], run.out + 1, FALSE)
    BY <2>1, Facts, MovedOn, Zenon
  <2> QED  BY <1>1, <2>2, Zenon DEF Moved
<1>3. /\ run.for # "none" /\ run.out <= Len(outputs[Head(run.blocks)])
      /\ Now = outputs[Head(run.blocks)][run.out] /\ Now \in Output
  BY <1>1, InLoop, Zenon
<1>4. Follows(outputs, chain, since, run, code, storage, run', code', storage)
  <2>1. /\ outputs \in Contents /\ chain \in Seq(Block) /\ code \in Codes
        /\ RunOK(outputs, chain, run) /\ Tracks(outputs, chain, run, since, code, storage)
    BY Facts, Zenon
  <2>2. run.constructed /\ code' = WithCode(code, outputs[Head(run.blocks)][run.out])
    BY <1>1, <1>3, Zenon
  <2> QED  BY <1>2, <1>3, <2>1, <2>2, CodeFollows, Zenon
<1>5. Present(outputs, chain, code') /\ Present(outputs, flushed, code')
  BY <1>1, <1>3, Facts, PresentCode, Zenon
<1>6. code' \in Codes
  BY <1>1, <1>3, Facts, WithCodeType, Zenon
<1> QED  BY <1>1, <1>4, <1>5, <1>6, Facts, Whole, Zenon DEF Follows

\* The block was executed: a connection puts it on the chain.
LEMMA ExecutedInv == ASSUME ExecutionInv, Executed PROVE ExecutionInv'
<1>1. /\ run # Idle /\ ~Executing
      /\ chain' = IF run.for = "connect" THEN chain \o run.blocks ELSE chain
      /\ run' = IF Len(run.blocks) = 1 THEN Idle
                ELSE [Idle EXCEPT !.for = run.for, !.blocks = Tail(run.blocks)]
      /\ outputs' = outputs /\ flushed' = flushed /\ since' = since
      /\ code' = code /\ storage' = storage /\ forward' = forward
  BY Zenon DEF Executed, db
<1>2. run.for # "none" /\ ~(run.out <= Len(outputs[Head(run.blocks)]))
  <2>1. RunOK(outputs, chain, run)
    BY Facts, Zenon
  <2> QED  BY <1>1, <2>1, Zenon DEF RunOK, Executing, Current
<1>3. run.for = "connect" \/ run.for = "verify"
  <2>1. run \in Runs
    BY Facts, Zenon
  <2> QED  BY <1>2, <2>1, Zenon DEF Runs
<1>4. CASE run.for = "connect"
  <2>1. chain' = chain \o run.blocks
    BY <1>1, <1>4, Zenon
  <2>2. /\ chain' \in Seq(Block) /\ Present(outputs, chain', code) /\ Len(run.blocks) = 1
        /\ Tracks(outputs, chain', Idle, since, code, storage)
        /\ Exact(outputs, chain, run, code, storage) => Exact(outputs, chain', Idle, code, storage)
    BY <1>2, <1>4, <2>1, Facts, BlockDone, ZenonT(30)
  <2>3. run' = Idle
    BY <1>1, <2>2, Zenon
  <2>4. RunOK(outputs, chain', run')
    BY <2>3, IdleOK, Zenon
  <2> QED  BY <1>1, <2>2, <2>3, <2>4, Facts, Whole, Zenon
<1>5. CASE run.for = "verify"
  <2>1. chain' = chain /\ run.for # "connect"
    BY <1>1, <1>5, Zenon
  <2>2. ~forward
    BY <1>5, Facts, Zenon DEF Exact
  <2> DEFINE n == Len(chain) - Len(run.blocks) + 1
             s == AfterBlocks(outputs, chain)[n]
  <2>3. n = Len(chain) - Len(run.blocks) + 1 /\ s = AfterBlocks(outputs, chain)[n]
    BY Zenon
  <2> HIDE DEF n, s
  <2>4. /\ n \in 1..Len(chain) /\ Stands(outputs, since, storage, s.last, Last(outputs, chain))
        /\ run.blocks \in Seq(Block) /\ IsSuffix(run.blocks, chain)
    BY <1>2, <1>5, <2>3, Facts, VerifyDone, Zenon
  <2>5. CASE Len(run.blocks) = 1
    <3>1. run' = Idle
      BY <1>1, <2>5, Zenon
    <3>2. n = Len(chain)
      <4>1. chain \in Seq(Block)
        BY Facts, Zenon
      <4> QED  BY <2>3, <2>5, <4>1
    <3>3. Stands(outputs, since, storage, Last(outputs, chain), Last(outputs, chain))
      BY <2>3, <2>4, <3>2, Zenon DEF Last
    <3>4. RunOK(outputs, chain, run') /\ Tracks(outputs, chain, run', since, code, storage)
      BY <3>1, <3>3, IdleOK, Zenon
    <3> QED  BY <1>1, <2>1, <2>2, <3>4, Facts, Whole, Zenon
  <2>6. CASE Len(run.blocks) # 1
    <3> DEFINE v == Tail(run.blocks)
    <3>1. run' = Start("verify", v)
      BY <1>1, <1>5, <2>6, Zenon DEF Start
    <3>2. v \in Seq(Block) /\ IsSuffix(v, chain) /\ Len(chain) - Len(v) = n
      BY <2>3, <2>4, <2>6, Facts, TailBlocks, Zenon
    <3> HIDE DEF v
    <3>3. s = AfterBlocks(outputs, chain)[Len(chain) - Len(v)]
      BY <2>3, <3>2, Zenon
    <3>4. RunOK(outputs, chain, run') /\ Tracks(outputs, chain, run', since, code, storage)
      <4>1. outputs \in Contents /\ chain \in Seq(Block) /\ Present(outputs, chain, code)
        BY Facts, Zenon
      <4> QED  BY <2>4, <3>1, <3>2, <3>3, <4>1, VerifyStarts, Zenon
    <3> QED  BY <1>1, <2>1, <2>2, <3>4, Facts, Whole, Zenon
  <2> QED  BY <2>5, <2>6, Zenon
<1> QED  BY <1>3, <1>4, <1>5, Zenon

\* The process is idle again, and no longer only moved forward.
LEMMA StoppedInv ==
  ASSUME ExecutionInv, run' = Idle, forward' = FALSE, since' = Len(chain'),
         outputs' = outputs, code' = code, storage' = storage,
         chain' \in Seq(Block), Present(outputs, chain', code),
         flushed' \in Seq(Block), Present(outputs, flushed', code)
  PROVE  ExecutionInv'
<1>1. /\ since' \in Nat
      /\ Stands(outputs, since', storage, Last(outputs, chain'), Last(outputs, chain'))
  BY Facts, NothingAbove, Zenon
<1>2. RunOK(outputs, chain', run') /\ Tracks(outputs, chain', run', since', code, storage)
  BY <1>1, IdleOK, Zenon
<1> QED  BY <1>1, <1>2, Facts, Whole, Zenon

\* Rejection, disconnection, a stop and reindexing leave the database as it is.
LEMMA RestInv ==
  ASSUME ExecutionInv, RejectBlock \/ DisconnectTip \/ Restart \/ Reindex
  PROVE  ExecutionInv'
<1>1. CASE RejectBlock
  <2>1. /\ run' = Idle /\ forward' = FALSE /\ outputs' = outputs /\ chain' = chain
        /\ flushed' = flushed /\ code' = code /\ storage' = storage /\ since' = Len(chain')
    BY <1>1, Zenon DEF RejectBlock, db
  <2> QED  BY <2>1, Facts, StoppedInv, Zenon
<1>2. CASE DisconnectTip
  <2>1. /\ run' = Idle /\ forward' = FALSE /\ outputs' = outputs /\ chain # <<>>
        /\ chain' = SubSeq(chain, 1, Len(chain) - 1) /\ since' = Len(chain) - 1
        /\ flushed' = flushed /\ code' = code /\ storage' = storage
    BY <1>2, Zenon DEF DisconnectTip, db
  <2>2. chain' \in Seq(Block) /\ Len(chain') = Len(chain) - 1 /\ Present(outputs, chain', code)
    BY <2>1, Facts, PresentFront, Zenon
  <2> QED  BY <2>1, <2>2, Facts, StoppedInv, Zenon
<1>3. CASE Restart
  <2>1. /\ run' = Idle /\ outputs' = outputs /\ chain' = flushed
        /\ flushed' = flushed /\ code' = code /\ storage' = storage
    BY <1>3, Zenon DEF Restart, db
  <2>2. CASE run = Idle /\ chain = flushed
    <3>1. forward' = forward /\ since' = since
      BY <1>3, <2>2, Zenon DEF Restart
    <3>2. run' = run /\ chain' = chain
      BY <2>1, <2>2, Zenon
    <3> QED  BY <2>1, <3>1, <3>2, Facts, Whole, Zenon
  <2>3. CASE ~(run = Idle /\ chain = flushed)
    <3>1. forward' = FALSE /\ since' = Len(flushed)
      BY <1>3, <2>3, Zenon DEF Restart
    <3> QED  BY <2>1, <3>1, Facts, StoppedInv, Zenon
  <2> QED  BY <2>2, <2>3, Zenon
<1>4. CASE Reindex
  <2>1. /\ run' = Idle /\ forward' = FALSE /\ outputs' = outputs /\ chain' = <<>> /\ since' = 0
        /\ flushed' = <<>> /\ code' = code /\ storage' = storage
    BY <1>4, Zenon DEF Reindex, InitializeEVMState, db
  <2>2. <<>> \in Seq(Block) /\ Len(<<>>) = 0
    OBVIOUS
  <2>3. Present(outputs, <<>>, code)
    BY EmptyChain, Zenon
  <2>4. since' = Len(chain')
    BY <2>1, <2>2, Zenon
  <2> QED  BY <2>1, <2>2, <2>3, <2>4, Facts, StoppedInv, Zenon
<1> QED  BY <1>1, <1>2, <1>3, <1>4, Zenon

\* Nothing the invariant speaks of changes, or only the flushed chain does.
LEMMA QuietInv ==
  ASSUME ExecutionInv, FlushStateToDisk \/ UNCHANGED vars
  PROVE  ExecutionInv'
<1>1. /\ run' = run /\ forward' = forward /\ outputs' = outputs /\ chain' = chain
      /\ flushed' \in {flushed, chain} /\ code' = code /\ storage' = storage /\ since' = since
  BY Zenon DEF FlushStateToDisk, vars, db
<1>2. flushed' = flushed \/ flushed' = chain
  BY <1>1, Zenon
<1> QED  BY <1>1, <1>2, Facts, Whole, Zenon

\* Every step of the node keeps the invariant.
LEMMA NextInv == ExecutionInv /\ [Next]_vars => ExecutionInv'
<1> SUFFICES ASSUME ExecutionInv, [Next]_vars PROVE ExecutionInv'
  BY Zenon
<1>1. ASSUME NEW b \in Block, ConnectTip(b) PROVE ExecutionInv'
  BY <1>1, ConnectTipInv, Zenon
<1>2. CASE SkipOutput
  BY <1>2, SkipOutputInv, Zenon
<1>3. CASE Construct
  BY <1>3, ConstructInv, Zenon
<1>4. CASE SetContractCode
  BY <1>4, SetContractCodeInv, Zenon
<1>5. CASE Call
  BY <1>5, CallInv, Zenon
<1>6. CASE Executed
  BY <1>6, ExecutedInv, Zenon
<1>7. ASSUME NEW n \in 1..Len(chain), VerifyDB(n) PROVE ExecutionInv'
  BY <1>7, VerifyDBInv, Zenon
<1>8. CASE RejectBlock \/ DisconnectTip \/ Restart \/ Reindex
  BY <1>8, RestInv, Zenon
<1>9. CASE FlushStateToDisk \/ UNCHANGED vars
  BY <1>9, QuietInv, Zenon
<1> QED  BY <1>1, <1>2, <1>3, <1>4, <1>5, <1>6, <1>7, <1>8, <1>9, Zenon DEF Next, Execute

\* The invariant holds of every behaviour of the node.
THEOREM Executes == Spec => []ExecutionInv
  BY InitInv, NextInv, PTL DEF Spec

-----------------------------------------------------------------------------
(* What it says.                                                           *)

\* While the node only moves forward, one valid block after another, and is stopped
\* only between two blocks and after a flush, the contract database is what
\* ExecuteBlockContracts gives when it executes the active chain from an empty
\* database, whatever the blocks hold and however long the chain is.
THEOREM StateFollows == Spec => []StateFollowsChain
<1>1. ExecutionInv => StateFollowsChain
  <2> SUFFICES ASSUME ExecutionInv, forward, run = Idle
               PROVE  code = Replay(chain).code /\ storage = Replay(chain).storage
    BY Zenon DEF StateFollowsChain
  <2>1. Exact(outputs, chain, run, code, storage)
    BY Facts, Zenon
  <2>2. run.for = "none"
    BY IdleOK, Zenon
  <2> QED  BY <2>1, <2>2, Zenon DEF Exact, Replay
<1> QED  BY <1>1, Executes, PTL

\* Whatever abandoned, rejected, unfinished or repeated executions have left in the
\* contract database, the contracts of the active chain have code, and a key holds
\* what the active chain wrote to it last, provided that the writer stores the same
\* value whatever it finds and its block was connected after the last
\* disconnection, rejection, unclean stop or reindex.
THEOREM LastWritesStand == Spec => []LastWriteStands
<1>1. ExecutionInv => LastWriteStands
  <2> SUFFICES ASSUME ExecutionInv, run = Idle, NEW c \in Contract
               PROVE  /\ Replay(chain).code[c] # NoCode => code[c] # NoCode
                      /\ \A x \in Key :
                           LET w == Replay(chain).last[c][x]
                           IN  w # NoWrite /\ w.at > since => Holds(outputs[w.in][w.out], c, x)
    BY Zenon DEF LastWriteStands
  <2>1. chain \in Seq(Block) /\ Present(outputs, chain, code)
    BY Facts, Zenon
  <2>2. Len(chain) \in 0..Len(chain)
    BY <2>1
  <2>3. Covers(code, Replay(chain))
    BY <2>1, <2>2, Zenon DEF Present, Replay
  <2>4. Stands(outputs, since, storage, Replay(chain).last, Replay(chain).last)
    <3>1. Tracks(outputs, chain, Idle, since, code, storage)
      BY Facts, Zenon
    <3> QED  BY <3>1, IdleOK, Zenon DEF Last, Replay
  <2> DEFINE l == Replay(chain).last
  <2> HIDE DEF l
  <2>5. ASSUME NEW x \in Key, l[c][x] # NoWrite, l[c][x].at > since
        PROVE  Holds(outputs[l[c][x].in][l[c][x].out], c, x)
    <3>1. Kept(outputs, since, storage, c, x, l[c][x])
      BY <2>4, Zenon DEF Stands, l
    <3> QED  BY <2>5, <3>1, Zenon DEF Kept, Holds
  <2> QED  BY <2>3, <2>5, Zenon DEF Covers, l
<1> QED  BY <1>1, Executes, PTL

=============================================================================
