--------------------- MODULE QuorumBlockProcessorProofs ---------------------
(***************************************************************************)
(* Proofs about QuorumBlockProcessor, for any chain length, DKG interval,  *)
(* mining window and number of competing quorum hashes.                    *)
(***************************************************************************)
EXTENDS QuorumBlockProcessor, TLAPS

-----------------------------------------------------------------------------
(* DKG intervals.                                                          *)

\* An interval later is at least one interval length higher.
LEMMA Apart ==
  ASSUME NEW d \in Nat \ {0}, NEW a \in Int, NEW b \in Int, a < b
  PROVE  d * a + d <= d * b
<1>1. d * (a + 1) = d * a + d  OBVIOUS
<1>2. d * (a + 1) <= d * b
  <2>1. PICK n \in Nat : b = a + 1 + n
    <3>1. b - (a + 1) \in Nat /\ b = a + 1 + (b - (a + 1))  OBVIOUS
    <3> QED  BY <3>1, Zenon
  <2>2. d * (a + 1 + n) = d * (a + 1) + d * n  OBVIOUS
  <2>3. d * n \in Nat /\ d * (a + 1) \in Int  OBVIOUS
  <2> QED  BY <2>1, <2>2, <2>3
<1> QED  BY <1>1, <1>2, Zenon

\* What division by the interval length gives.
LEMMA Division ==
  ASSUME NEW h \in Nat
  PROVE  \E a \in Nat : /\ h = DkgInterval * a + (h % DkgInterval)
                        /\ h % DkgInterval \in 0..(DkgInterval - 1)
<1> DEFINE D == DkgInterval
           a == h \div D
<1>1. D \in Nat \ {0}  BY ParamsAssumption, Zenon
<1> HIDE DEF D
<1>2. a \in Int /\ h % D \in 0..(D - 1)  BY <1>1
<1>3. h = D * a + (h % D)  BY <1>1
<1>4. a \in Nat
  <2> SUFFICES ASSUME a < 0 PROVE FALSE
    BY <1>2
  <2> HIDE DEF a
  <2>1. D * a + D <= D * 0  BY <1>1, <1>2, Apart
  <2>2. D * a \in Int  BY <1>1, <1>2
  <2> QED  BY <1>1, <1>2, <1>3, <2>1, <2>2
<1> HIDE DEF a
<1>5. h = DkgInterval * a + (h % DkgInterval) /\ h % DkgInterval \in 0..(DkgInterval - 1)
  BY <1>2, <1>3, Zenon DEF D
<1> QED  BY <1>4, <1>5, Zenon

\* The block that starts an interval, and the blocks of one interval.
LEMMA QuorumHeightFacts ==
  ASSUME NEW h \in Nat
  PROVE  /\ QuorumHeight(h) \in 0..h /\ h % DkgInterval \in 0..(DkgInterval - 1)
         /\ QuorumHeight(h) % DkgInterval = 0
         /\ \A k \in QuorumHeight(h)..h : QuorumHeight(k) = QuorumHeight(h)
<1> DEFINE D == DkgInterval
<1>0. D \in Nat \ {0}  BY ParamsAssumption
<1>1. PICK a \in Nat : h = D * a + (h % D) /\ h % D \in 0..(D - 1)  BY Division, Zenon
<1>2. QuorumHeight(h) = D * a  BY <1>0, <1>1 DEF QuorumHeight
<1>3. \A k \in (D * a)..h : QuorumHeight(k) = D * a
  <2> TAKE k \in (D * a)..h
  <2>0. D * a \in Nat /\ k \in Nat  BY <1>0, <1>1
  <2>1. PICK b \in Nat : k = D * b + (k % D) /\ k % D \in 0..(D - 1)  BY <2>0, Division, Zenon
  <2>2. D * b \in Nat  BY <1>0
  <2>3. ~(a < b)
    <3> SUFFICES ASSUME a < b PROVE FALSE
      BY Zenon
    <3>1. D * a + D <= D * b  BY <1>0, Apart
    <3> HIDE DEF D
    <3> QED  BY <1>0, <1>1, <2>0, <2>1, <2>2, <3>1
  <2>4. ~(b < a)
    <3> SUFFICES ASSUME b < a PROVE FALSE
      BY Zenon
    <3>1. D * b + D <= D * a  BY <1>0, Apart
    <3> HIDE DEF D
    <3> QED  BY <1>0, <1>1, <2>0, <2>1, <2>2, <3>1
  <2>5. a = b  BY <2>3, <2>4
  <2> HIDE DEF D
  <2>6. k - (k % D) = D * a  BY <1>0, <2>0, <2>1, <2>2, <2>5
  <2> QED  BY <2>6, Zenon DEF QuorumHeight, D
<1>4. D * a \in 0..h
  <2> HIDE DEF D
  <2> QED  BY <1>0, <1>1
<1>5. (D * a) % D = 0
  <2>1. QuorumHeight(D * a) = D * a  BY <1>3, <1>4
  <2>2. PICK b \in Nat : D * a = D * b + ((D * a) % D) /\ (D * a) % D \in 0..(D - 1)
    BY <1>4, Division
  <2>3. D * a \in Nat /\ D * b \in Nat  BY <1>0
  <2>4. D * a - ((D * a) % D) = D * a  BY <2>1, Zenon DEF QuorumHeight
  <2> HIDE DEF D
  <2> QED  BY <1>0, <2>2, <2>3, <2>4
<1> QED  BY <1>1, <1>2, <1>3, <1>4, <1>5, Zenon

-----------------------------------------------------------------------------
(* The inductive invariant.                                                *)

AnyQc == Commitment \cup NullCommitment \cup {NoQc}
Block == [hash : Hash \cup {NoHash}, qc : AnyQc]

\* Height h of chain c is in a mining phase that has mined no commitment yet.
Due(c, h) == IsMiningPhase(h) /\ ~\E k \in QuorumHeight(h)..(h - 1) : Stores(c[k + 1].qc)

\* CommitmentUntilFirst, of any chain c.
Committed(c) ==
  \A h \in 0..(Len(c) - 1) :
     /\ c[h + 1].qc # NoQc => Due(c, h) /\ c[h + 1].qc.q = c[QuorumHeight(h) + 1].hash
     /\ Due(c, h) /\ Enforced(h) => c[h + 1].qc # NoQc

\* A chain that ConnectTip can have built.
ChainOK(c) ==
  /\ c \in Seq(Block) /\ Len(c) \in 1..(MaxHeight + 1)
  /\ \A i \in 1..Len(c) : c[i].hash \in IF (i - 1) % DkgInterval = 0 THEN Hash ELSE {NoHash}
  /\ \A i, j \in 1..Len(c) : c[i].hash = c[j].hash /\ c[i].hash # NoHash => i = j
  /\ Committed(c)

Filed(m) == m \in [Hash -> Commitment \cup {NoQc}] /\ \A q \in Hash : m[q] # NoQc => m[q].q = q
Heights(bh) == bh \in [0..MaxHeight -> Int] /\ \A h \in 0..MaxHeight : bh[h] \in -1..h

\* m and bh are the two database records of chain c.
DbOf(m, bh, c) ==
  /\ \A q \in Hash :
       m[q] # NoQc => \E h \in 0..(Len(c) - 1) : Stores(c[h + 1].qc) /\ c[h + 1].qc = m[q]
  /\ \A h \in 0..(Len(c) - 1) : Stores(c[h + 1].qc) => m[c[h + 1].qc.q] = c[h + 1].qc
  /\ \A h \in 0..(Len(c) - 1) : bh[h] = IF Stores(c[h + 1].qc) THEN QuorumHeight(h) ELSE -1
  /\ \A h \in Len(c)..MaxHeight : bh[h] = -1

CacheOf(ca, m) == \A q \in Hash : ca[q] # Unset => ca[q] = (m[q] # NoQc)

\* The pool has a commitment for c's quorum that is at least as good.
Kept(bq, c) == bq[c.q] # NoQc /\ bq[c.q].signers >= c.signers

Connecting ==
  /\ tx.op \in {"connect", "test"}
  /\ tx.op = "connect" =>
       /\ ChainOK(Append(chain, tx.block))
       /\ DbOf(mined, byHeight, Append(chain, tx.block))

Disconnecting ==
  /\ tx.op = "disconnect" /\ Height > 0
  /\ DbOf(mined, byHeight, SubSeq(chain, 1, Height))
  /\ Stores(chain[Height + 1].qc) => Kept(byQuorum, chain[Height + 1].qc)

TypesOK ==
  /\ Filed(mined) /\ Heights(byHeight)
  /\ Filed(byQuorum) /\ Filed(quorums)
  /\ cache \in [Hash -> BOOLEAN \cup {Unset}]
  /\ minable \subseteq Commitment
  /\ incoming \in Commitment \cup {NoQc}

IInv ==
  /\ TypesOK /\ ChainOK(chain) /\ CacheOf(cache, mined)
  /\ \/ tx = NoTx /\ DbOf(mined, byHeight, chain)
     \/ /\ tx # NoTx /\ (Connecting \/ Disconnecting)
        /\ Filed(tx.mined) /\ Heights(tx.byHeight)
        /\ DbOf(tx.mined, tx.byHeight, chain) /\ CacheOf(cache, tx.mined)

-----------------------------------------------------------------------------
(* Facts about chains.                                                     *)

\* A stored commitment is one that passed Verify.
LEMMA StoredFacts ==
  ASSUME NEW c \in AnyQc
  PROVE  /\ Stores(c) => c \in Commitment /\ c # NoQc /\ c.q \in Hash
         /\ c # NoQc => c.q \in Hash
         /\ c \in Commitment => Stores(c)
<1>1. \A d \in Commitment \cup NullCommitment : d # NoQc /\ d.q \in Hash /\ d.signers \in Nat
  BY ParamsAssumption DEF Commitment, NullCommitment
<1>2. \A d \in NullCommitment : d.signers = 0  BY Zenon DEF NullCommitment
<1>3. \A d \in Commitment : d.signers # 0  BY DEF Commitment
<1> QED  BY <1>1, <1>2, <1>3, Zenon DEF Stores, AnyQc

\* Entries of a chain.
LEMMA ChainFacts ==
  ASSUME NEW c, ChainOK(c)
  PROVE  /\ Len(c) \in Nat \ {0} /\ DOMAIN c = 1..Len(c)
         /\ \A h \in 0..(Len(c) - 1) :
              /\ h + 1 \in 1..Len(c) /\ h \in Nat /\ c[h + 1] \in Block /\ c[h + 1].qc \in AnyQc
              /\ QuorumHeight(h) \in 0..h /\ c[QuorumHeight(h) + 1].hash \in Hash
<1>1. c \in Seq(Block) /\ Len(c) \in 1..(MaxHeight + 1)  BY Zenon DEF ChainOK
<1>2. Len(c) \in Nat \ {0} /\ DOMAIN c = 1..Len(c)  BY <1>1, ParamsAssumption
<1>3. ASSUME NEW h \in 0..(Len(c) - 1)
      PROVE  /\ h + 1 \in 1..Len(c) /\ h \in Nat /\ c[h + 1] \in Block /\ c[h + 1].qc \in AnyQc
             /\ QuorumHeight(h) \in 0..h /\ c[QuorumHeight(h) + 1].hash \in Hash
  <2>1. h + 1 \in 1..Len(c) /\ h \in Nat  BY <1>2
  <2>2. c[h + 1] \in Block /\ c[h + 1].qc \in AnyQc
    <3>1. c[h + 1] \in Block  BY <1>1, <2>1
    <3>2. \A b \in Block : b.qc \in AnyQc  BY Zenon DEF Block
    <3> QED  BY <3>1, <3>2, Zenon
  <2>3. QuorumHeight(h) \in 0..h /\ QuorumHeight(h) % DkgInterval = 0
    BY <2>1, QuorumHeightFacts, Zenon
  <2> DEFINE k == QuorumHeight(h)
  <2> HIDE DEF k
  <2>4. k \in 0..h /\ k % DkgInterval = 0  BY <2>3, Zenon DEF k
  <2>5. k + 1 \in 1..Len(c) /\ (k + 1) - 1 = k  BY <1>2, <2>4
  <2>6. c[k + 1].hash \in Hash
    <3>1. c[k + 1].hash \in IF ((k + 1) - 1) % DkgInterval = 0 THEN Hash ELSE {NoHash}
      BY <2>5, Zenon DEF ChainOK
    <3> QED  BY <2>4, <2>5, <3>1, Zenon
  <2> QED  BY <2>1, <2>2, <2>3, <2>6, Zenon DEF k
<1> QED  BY <1>2, <1>3, Zenon

\* Two blocks whose commitments name the same quorum are in one interval.
LEMMA SameInterval ==
  ASSUME NEW c, ChainOK(c), NEW h \in 0..(Len(c) - 1), NEW k \in 0..(Len(c) - 1),
         c[QuorumHeight(h) + 1].hash = c[QuorumHeight(k) + 1].hash
  PROVE  QuorumHeight(h) = QuorumHeight(k)
<1> DEFINE a == QuorumHeight(h)
           b == QuorumHeight(k)
<1>1. a \in 0..h /\ b \in 0..k /\ c[a + 1].hash \in Hash  BY ChainFacts, Zenon
<1>2. Len(c) \in Nat  BY ChainFacts, Zenon
<1> HIDE DEF a, b
<1>3. a + 1 \in 1..Len(c) /\ b + 1 \in 1..Len(c)  BY <1>1, <1>2
<1>4. c[a + 1].hash # NoHash  BY <1>1, ParamsAssumption, Zenon
<1>5. c[a + 1].hash = c[b + 1].hash  BY Zenon DEF a, b
<1>6. a + 1 = b + 1  BY <1>3, <1>4, <1>5, Zenon DEF ChainOK
<1>7. a = b  BY <1>1, <1>6
<1> QED  BY <1>7, Zenon DEF a, b

\* A quorum's commitment is mined once.
LEMMA MinedOnce ==
  ASSUME NEW c, ChainOK(c), NEW h \in 0..(Len(c) - 1), NEW k \in 0..(Len(c) - 1),
         Stores(c[h + 1].qc), Stores(c[k + 1].qc), c[h + 1].qc.q = c[k + 1].qc.q
  PROVE  h = k
<1>1. c[h + 1].qc # NoQc /\ c[k + 1].qc # NoQc  BY Zenon DEF Stores
<1>2. QuorumHeight(h) = QuorumHeight(k)
  <2>1. c[QuorumHeight(h) + 1].hash = c[QuorumHeight(k) + 1].hash
    BY <1>1, Zenon DEF ChainOK, Committed
  <2> QED  BY <2>1, SameInterval, Zenon
<1>3. QuorumHeight(h) \in 0..h /\ QuorumHeight(k) \in 0..k /\ h \in Nat /\ k \in Nat  BY ChainFacts, Zenon
<1>4. ~(k < h)
  <2> SUFFICES ASSUME k < h PROVE FALSE
    BY Zenon
  <2>1. k \in QuorumHeight(h)..(h - 1)  BY <1>2, <1>3
  <2> QED  BY <1>1, <2>1, Zenon DEF ChainOK, Committed, Due
<1>5. ~(h < k)
  <2> SUFFICES ASSUME h < k PROVE FALSE
    BY Zenon
  <2>1. h \in QuorumHeight(k)..(k - 1)  BY <1>2, <1>3
  <2> QED  BY <1>1, <2>1, Zenon DEF ChainOK, Committed, Due
<1> QED  BY <1>3, <1>4, <1>5

\* A chain without its last blocks.
LEMMA Prefix ==
  ASSUME NEW c, ChainOK(c), NEW n \in 1..Len(c)
  PROVE  /\ ChainOK(SubSeq(c, 1, n)) /\ Len(SubSeq(c, 1, n)) = n
         /\ \A i \in 1..n : SubSeq(c, 1, n)[i] = c[i]
<1> DEFINE s == SubSeq(c, 1, n)
<1>0. c \in Seq(Block) /\ Len(c) \in 1..(MaxHeight + 1) /\ Len(c) \in Nat /\ MaxHeight \in Nat
  BY ParamsAssumption DEF ChainOK
<1>1. s \in Seq(Block) /\ Len(s) = n /\ \A i \in 1..n : s[i] = c[i]  BY <1>0
<1> HIDE DEF s
<1>2. Len(s) \in 1..(MaxHeight + 1) /\ \A i \in 1..Len(s) : i \in 1..Len(c)  BY <1>0, <1>1
<1>3. \A i \in 1..Len(s) : s[i].hash \in IF (i - 1) % DkgInterval = 0 THEN Hash ELSE {NoHash}
  BY <1>1, <1>2, SMTT(30) DEF ChainOK
<1>4. \A i, j \in 1..Len(s) : s[i].hash = s[j].hash /\ s[i].hash # NoHash => i = j
  BY <1>1, <1>2, SMTT(30) DEF ChainOK
<1>5. Committed(s)
  <2> SUFFICES ASSUME NEW h \in 0..(Len(s) - 1)
               PROVE  /\ s[h + 1].qc # NoQc =>
                           Due(s, h) /\ s[h + 1].qc.q = s[QuorumHeight(h) + 1].hash
                      /\ Due(s, h) /\ Enforced(h) => s[h + 1].qc # NoQc
    BY Zenon DEF Committed
  <2>1. h \in 0..(Len(c) - 1) /\ h + 1 \in 1..n /\ h \in Nat  BY <1>0, <1>1
  <2>2. QuorumHeight(h) \in 0..h  BY <2>1, QuorumHeightFacts, Zenon
  <2>3. \A k \in QuorumHeight(h)..h : s[k + 1] = c[k + 1]
    <3> TAKE k \in QuorumHeight(h)..h
    <3>1. k + 1 \in 1..n  BY <2>1, <2>2
    <3> QED  BY <1>1, <3>1, Zenon
  <2>4. s[h + 1] = c[h + 1] /\ s[QuorumHeight(h) + 1] = c[QuorumHeight(h) + 1]  BY <2>1, <2>2, <2>3
  <2>5. \A k \in QuorumHeight(h)..(h - 1) : s[k + 1] = c[k + 1]  BY <2>1, <2>2, <2>3
  <2>6. /\ c[h + 1].qc # NoQc => Due(c, h) /\ c[h + 1].qc.q = c[QuorumHeight(h) + 1].hash
        /\ Due(c, h) /\ Enforced(h) => c[h + 1].qc # NoQc
    BY <2>1, Zenon DEF ChainOK, Committed
  <2>7. Due(s, h) <=> Due(c, h)  BY <2>5, Zenon DEF Due
  <2> QED  BY <2>4, <2>6, <2>7, Zenon
<1>6. ChainOK(s)  BY <1>1, <1>2, <1>3, <1>4, <1>5, Zenon DEF ChainOK
<1> QED  BY <1>1, <1>6, Zenon DEF s

-----------------------------------------------------------------------------
(* Connecting and disconnecting a block.                                   *)

\* What is known of the state before a block is connected.
Settled ==
  /\ ChainOK(chain) /\ Filed(mined) /\ Heights(byHeight) /\ DbOf(mined, byHeight, chain)
  /\ cache \in [Hash -> BOOLEAN \cup {Unset}] /\ CacheOf(cache, mined)

\* HasMinedCommitment answers what the database says.
LEMMA Lookup ==
  ASSUME Settled, NEW q \in Hash
  PROVE  HasMinedCommitment(q) = (mined[q] # NoQc)
BY Zenon DEF Settled, CacheOf, HasMinedCommitment

\* IsCommitmentRequired is the rule CommitmentUntilFirst states, and the session it
\* asks for is the one of the interval.
LEMMA RequiredMeans ==
  ASSUME Settled
  PROVE  LET h == Height + 1
         IN  /\ IsCommitmentRequired(h) <=> Due(chain, h)
             /\ IsCommitmentRequired(h) =>
                  /\ QuorumHeight(h) \in 0..Height
                  /\ GetQuorumBlockHash(h) = chain[QuorumHeight(h) + 1].hash
                  /\ GetQuorumBlockHash(h) \in Hash /\ mined[GetQuorumBlockHash(h)] = NoQc
<1> DEFINE h == Height + 1
           a == QuorumHeight(h)
           q == chain[a + 1].hash
           done == \E k \in a..(h - 1) : Stores(chain[k + 1].qc)
<1>0. ChainOK(chain) /\ Filed(mined) /\ DbOf(mined, byHeight, chain)  BY Zenon DEF Settled
<1>1. Len(chain) \in Nat \ {0} /\ Height \in Nat /\ h \in Nat /\ h = Len(chain)
  BY <1>0, ChainFacts DEF Height
<1>2. /\ a \in 0..h /\ h % DkgInterval \in 0..(DkgInterval - 1)
      /\ \A k \in a..h : QuorumHeight(k) = a
  BY <1>1, QuorumHeightFacts, Zenon
<1>3. CASE a > Height
  <2>1. a = h  BY <1>1, <1>2, <1>3
  <2>2. h % DkgInterval = 0  BY <1>1, <1>2, <2>1 DEF QuorumHeight
  <2>3. ~IsMiningPhase(h)  BY <2>2, ParamsAssumption DEF IsMiningPhase
  <2>4. GetQuorumBlockHash(h) = NoHash  BY <1>3, Zenon DEF GetQuorumBlockHash
  <2> QED  BY <2>3, <2>4, Zenon DEF IsCommitmentRequired, Due
<1>4. CASE ~(a > Height)
  <2>1. a \in 0..Height /\ a \in a..h /\ QuorumHeight(a) = a  BY <1>1, <1>2, <1>4
  <2>2. a \in 0..(Len(chain) - 1)  BY <1>1, <2>1, Zenon DEF Height
  <2>3. q \in Hash
    <3>1. chain[QuorumHeight(a) + 1].hash \in Hash  BY <1>0, <2>2, ChainFacts, Zenon
    <3> QED  BY <2>1, <3>1, Zenon
  <2>4. GetQuorumBlockHash(h) = q  BY <1>4, Zenon DEF GetQuorumBlockHash
  <2>5. q # NoHash  BY <2>3, ParamsAssumption, Zenon
  <2>6. mined[q] # NoQc => done
    <3> SUFFICES ASSUME mined[q] # NoQc PROVE done
      BY Zenon
    <3>1. PICK j \in 0..(Len(chain) - 1) : Stores(chain[j + 1].qc) /\ chain[j + 1].qc = mined[q]
      BY <1>0, <2>3, Zenon DEF DbOf
    <3>2. chain[j + 1].qc.q = q /\ chain[j + 1].qc # NoQc
      BY <1>0, <2>3, <3>1, Zenon DEF Filed, Stores
    <3>3. chain[QuorumHeight(j) + 1].hash = q
      BY <1>0, <3>2, Zenon DEF ChainOK, Committed
    <3>4. QuorumHeight(j) = QuorumHeight(a)
      <4>1. chain[QuorumHeight(j) + 1].hash = chain[QuorumHeight(a) + 1].hash  BY <2>1, <3>3, Zenon
      <4> QED  BY <1>0, <2>2, <4>1, SameInterval, Zenon
    <3>5. QuorumHeight(j) \in 0..j /\ j \in Nat  BY <1>0, ChainFacts, Zenon
    <3>6. j \in a..(h - 1)  BY <1>1, <2>1, <3>4, <3>5
    <3> QED  BY <3>1, <3>6, Zenon
  <2>7. done => mined[q] # NoQc
    <3> SUFFICES ASSUME NEW k \in a..(h - 1), Stores(chain[k + 1].qc) PROVE mined[q] # NoQc
      BY Zenon
    <3>1. k \in 0..(Len(chain) - 1) /\ k \in a..h  BY <1>1, <1>2
    <3>2. QuorumHeight(k) = a  BY <1>2, <3>1, Zenon
    <3>3. chain[k + 1].qc # NoQc  BY Zenon DEF Stores
    <3>4. chain[k + 1].qc.q = q  BY <1>0, <3>1, <3>2, <3>3, Zenon DEF ChainOK, Committed
    <3>5. mined[q] = chain[k + 1].qc  BY <1>0, <3>1, <3>4, Zenon DEF DbOf
    <3> QED  BY <3>3, <3>5, Zenon
  <2>8. HasMinedCommitment(q) = (mined[q] # NoQc)  BY <2>3, Lookup, Zenon
  <2> HIDE DEF q, done, h, a
  <2>9. IsCommitmentRequired(h) <=> IsMiningPhase(h) /\ mined[q] = NoQc
    BY <2>4, <2>5, <2>8, Zenon DEF IsCommitmentRequired
  <2>10. IsCommitmentRequired(h) <=> IsMiningPhase(h) /\ ~done  BY <2>6, <2>7, <2>9, Zenon
  <2> QED  BY <2>1, <2>3, <2>4, <2>9, <2>10, Zenon DEF q, done, h, a, Due
<1> QED  BY <1>3, <1>4, Zenon

\* The chain with one more block.
LEMMA Longer ==
  ASSUME ChainOK(chain), NEW b \in Block
  PROVE  LET c == Append(chain, b)
         IN  /\ c \in Seq(Block) /\ Len(c) = Len(chain) + 1 /\ c[Len(chain) + 1] = b
             /\ \A i \in 1..Len(chain) : c[i] = chain[i]
<1>1. chain \in Seq(Block)  BY Zenon DEF ChainOK
<1> QED  BY <1>1

\* A block that ProcessBlock accepts continues the chain.
LEMMA Extend ==
  ASSUME Settled, Height < MaxHeight, NEW b \in Block, BlockAccepted(b.qc, Height + 1),
         b.hash \in IF (Height + 1) % DkgInterval = 0 THEN Hash ELSE {NoHash},
         b.hash # NoHash => ~StartsSession(chain, b.hash)
  PROVE  ChainOK(Append(chain, b))
<1> DEFINE c == Append(chain, b)
           n == Len(chain)
<1>0. /\ ChainOK(chain) /\ n \in Nat \ {0} /\ DOMAIN chain = 1..n
      /\ Height + 1 = n /\ Height \in Nat /\ MaxHeight \in Nat
  BY ChainFacts, ParamsAssumption DEF Settled, Height
<1>1. c \in Seq(Block) /\ Len(c) = n + 1 /\ c[n + 1] = b /\ \A i \in 1..n : c[i] = chain[i]
  BY <1>0, Longer, Zenon
<1> HIDE DEF c, n
<1>2. Len(c) \in 1..(MaxHeight + 1)  BY <1>0, <1>1 DEF Height, n
<1>3. \A i \in 1..Len(c) : i \in 1..n \/ i = n + 1  BY <1>0, <1>1
<1>4. \A i \in 1..Len(c) : c[i].hash \in IF (i - 1) % DkgInterval = 0 THEN Hash ELSE {NoHash}
  <2> TAKE i \in 1..Len(c)
  <2>1. CASE i \in 1..n  BY <1>0, <1>1, <2>1, Zenon DEF ChainOK, n
  <2>2. CASE i = n + 1
    <3>1. i - 1 = Height + 1  BY <1>0, <2>2
    <3> QED  BY <1>1, <2>2, <3>1, Zenon
  <2> QED  BY <1>3, <2>1, <2>2, Zenon
<1>5. \A i, j \in 1..Len(c) : c[i].hash = c[j].hash /\ c[i].hash # NoHash => i = j
  <2> SUFFICES ASSUME NEW i \in 1..Len(c), NEW j \in 1..Len(c),
                      c[i].hash = c[j].hash, c[i].hash # NoHash
               PROVE  i = j
    BY Zenon
  <2>1. \A k \in 1..n : b.hash # NoHash => chain[k].hash # b.hash
    BY <1>0, Zenon DEF StartsSession
  <2>2. CASE i \in 1..n /\ j \in 1..n  BY <1>0, <1>1, <2>2, Zenon DEF ChainOK, n
  <2>3. CASE i \in 1..n /\ j = n + 1  BY <1>1, <2>1, <2>3, Zenon
  <2>4. CASE i = n + 1 /\ j \in 1..n  BY <1>1, <2>1, <2>4, Zenon
  <2>5. CASE i = n + 1 /\ j = n + 1  BY <2>5, Zenon
  <2> QED  BY <1>3, <2>2, <2>3, <2>4, <2>5, Zenon
<1>6. Committed(c)
  <2> SUFFICES ASSUME NEW h \in 0..(Len(c) - 1)
               PROVE  /\ c[h + 1].qc # NoQc =>
                           Due(c, h) /\ c[h + 1].qc.q = c[QuorumHeight(h) + 1].hash
                      /\ Due(c, h) /\ Enforced(h) => c[h + 1].qc # NoQc
    BY Zenon DEF Committed
  <2>1. h \in 0..n /\ h \in Nat  BY <1>0, <1>1
  <2>2. QuorumHeight(h) \in 0..h  BY <2>1, QuorumHeightFacts, Zenon
  <2>3. \A k \in QuorumHeight(h)..(h - 1) : c[k + 1] = chain[k + 1]
    <3> TAKE k \in QuorumHeight(h)..(h - 1)
    <3>1. k + 1 \in 1..n  BY <1>0, <2>1, <2>2
    <3> QED  BY <1>1, <3>1, Zenon
  <2>4. Due(c, h) <=> Due(chain, h)  BY <2>3, Zenon DEF Due
  <2>5. CASE h \in 0..(n - 1)
    <3>1. h + 1 \in 1..n /\ QuorumHeight(h) + 1 \in 1..n  BY <1>0, <2>2, <2>5
    <3>2. c[h + 1] = chain[h + 1] /\ c[QuorumHeight(h) + 1] = chain[QuorumHeight(h) + 1]
      BY <1>1, <3>1, Zenon
    <3>3. /\ chain[h + 1].qc # NoQc =>
               Due(chain, h) /\ chain[h + 1].qc.q = chain[QuorumHeight(h) + 1].hash
          /\ Due(chain, h) /\ Enforced(h) => chain[h + 1].qc # NoQc
      BY <1>0, <2>5, Zenon DEF ChainOK, Committed, n
    <3> QED  BY <2>4, <3>2, <3>3, Zenon
  <2>6. CASE h = n
    <3>1. c[h + 1].qc = b.qc /\ h = Height + 1  BY <1>0, <1>1, <2>6, Zenon
    <3>2. /\ IsCommitmentRequired(h) <=> Due(chain, h)
          /\ IsCommitmentRequired(h) =>
               /\ QuorumHeight(h) \in 0..Height
               /\ GetQuorumBlockHash(h) = chain[QuorumHeight(h) + 1].hash
      BY <3>1, RequiredMeans, Zenon
    <3>3. /\ b.qc # NoQc => IsCommitmentRequired(h)
          /\ Enforced(h) /\ IsCommitmentRequired(h) => b.qc # NoQc
      BY <3>1, Zenon DEF BlockAccepted
    <3>4. b.qc # NoQc => b.qc.q = c[QuorumHeight(h) + 1].hash
      <4> SUFFICES ASSUME b.qc # NoQc PROVE b.qc.q = c[QuorumHeight(h) + 1].hash
        BY Zenon
      <4>1. b.qc.q = GetQuorumBlockHash(h)  BY <3>1, Zenon DEF BlockAccepted
      <4>2. QuorumHeight(h) + 1 \in 1..n
        <5>1. QuorumHeight(h) \in 0..Height  BY <3>2, <3>3, Zenon
        <5> QED  BY <1>0, <5>1
      <4> QED  BY <1>1, <3>2, <3>3, <4>1, <4>2, Zenon
    <3> QED  BY <2>4, <3>1, <3>2, <3>3, <3>4, Zenon
  <2> QED  BY <1>0, <2>1, <2>5, <2>6
<1>7. ChainOK(c)  BY <1>1, <1>2, <1>4, <1>5, <1>6, Zenon DEF ChainOK
<1> QED  BY <1>7, Zenon DEF c

\* The databases after ProcessBlock are those of the longer chain.
LEMMA ConnectedDb ==
  ASSUME Settled, Height < MaxHeight, NEW b \in Block, BlockAccepted(b.qc, Height + 1),
         NEW m, m = IF Stores(b.qc) THEN [mined EXCEPT ![b.qc.q] = b.qc] ELSE mined,
         NEW bh, bh = IF Stores(b.qc)
                      THEN [byHeight EXCEPT ![Height + 1] = QuorumHeight(Height + 1)]
                      ELSE byHeight
  PROVE  DbOf(m, bh, Append(chain, b)) /\ Filed(m) /\ Heights(bh)
<1> DEFINE c == Append(chain, b)
           n == Len(chain)
<1>0. /\ ChainOK(chain) /\ n \in Nat \ {0} /\ Height + 1 = n /\ MaxHeight \in Nat /\ n \in 0..MaxHeight
      /\ Filed(mined) /\ Heights(byHeight) /\ DbOf(mined, byHeight, chain)
  BY ChainFacts, ParamsAssumption DEF Settled, Height
<1>1. Len(c) = n + 1 /\ c[n + 1] = b /\ \A h \in 0..(n - 1) : c[h + 1] = chain[h + 1]
  <2>1. Len(c) = n + 1 /\ c[n + 1] = b /\ \A i \in 1..n : c[i] = chain[i]  BY <1>0, Longer, Zenon
  <2>2. \A h \in 0..(n - 1) : h + 1 \in 1..n  BY <1>0
  <2> QED  BY <2>1, <2>2, Zenon
<1>2. QuorumHeight(n) \in 0..n  BY <1>0, QuorumHeightFacts, Zenon
<1>3. b.qc \in AnyQc  BY Zenon DEF Block
<1>4. Stores(b.qc) => b.qc \in Commitment /\ b.qc # NoQc /\ b.qc.q \in Hash /\ mined[b.qc.q] = NoQc
  <2> SUFFICES ASSUME Stores(b.qc)
               PROVE  b.qc \in Commitment /\ b.qc # NoQc /\ b.qc.q \in Hash /\ mined[b.qc.q] = NoQc
    BY Zenon
  <2>1. b.qc \in Commitment /\ b.qc # NoQc /\ b.qc.q \in Hash  BY <1>3, StoredFacts, Zenon
  <2>2. IsCommitmentRequired(Height + 1) /\ b.qc.q = GetQuorumBlockHash(Height + 1)
    BY <2>1, Zenon DEF BlockAccepted
  <2> QED  BY <2>1, <2>2, RequiredMeans, Zenon
<1> HIDE DEF c, n
<1>5. Filed(m)
  <2>1. CASE Stores(b.qc)  BY <1>0, <1>4, <2>1, Zenon DEF Filed
  <2>2. CASE ~Stores(b.qc)  BY <1>0, <2>2, Zenon
  <2> QED  BY <2>1, <2>2, Zenon
<1>6. /\ bh \in [0..MaxHeight -> Int]
      /\ \A h \in 0..MaxHeight :
           bh[h] = IF Stores(b.qc) /\ h = n THEN QuorumHeight(n) ELSE byHeight[h]
  <2>1. CASE Stores(b.qc)
    <3>1. bh = [byHeight EXCEPT ![n] = QuorumHeight(n)]  BY <1>0, <2>1, Zenon
    <3> QED  BY <1>0, <1>2, <2>1, <3>1 DEF Heights
  <2>2. CASE ~Stores(b.qc)  BY <1>0, <2>2, Zenon DEF Heights
  <2> QED  BY <2>1, <2>2, Zenon
<1>7. Heights(bh)  BY <1>0, <1>2, <1>6 DEF Heights
<1>8. \A h \in 0..(Len(c) - 1) : h \in 0..(n - 1) \/ h = n  BY <1>0, <1>1
<1>9. ASSUME NEW q \in Hash, m[q] # NoQc
      PROVE  \E h \in 0..(Len(c) - 1) : Stores(c[h + 1].qc) /\ c[h + 1].qc = m[q]
  <2>1. CASE Stores(b.qc) /\ q = b.qc.q
    <3>1. m[q] = b.qc  BY <1>0, <1>4, <2>1, Zenon DEF Filed
    <3>2. n \in 0..(Len(c) - 1)  BY <1>0, <1>1
    <3> QED  BY <1>1, <2>1, <3>1, <3>2, Zenon
  <2>2. CASE ~(Stores(b.qc) /\ q = b.qc.q)
    <3>1. m[q] = mined[q]  BY <1>0, <2>2, Zenon DEF Filed
    <3>2. PICK h \in 0..(n - 1) : Stores(chain[h + 1].qc) /\ chain[h + 1].qc = mined[q]
      BY <1>0, <1>9, <3>1, Zenon DEF DbOf, n
    <3>3. h \in 0..(Len(c) - 1)  BY <1>0, <1>1
    <3> QED  BY <1>1, <3>1, <3>2, <3>3, Zenon
  <2> QED  BY <2>1, <2>2, Zenon
<1>10. ASSUME NEW h \in 0..(Len(c) - 1), Stores(c[h + 1].qc)
       PROVE  m[c[h + 1].qc.q] = c[h + 1].qc
  <2>1. CASE h = n
    <3>1. c[h + 1].qc = b.qc  BY <1>1, <2>1, Zenon
    <3>2. Stores(b.qc)  BY <1>10, <3>1, Zenon
    <3>3. m[b.qc.q] = b.qc  BY <1>0, <1>4, <3>2, Zenon DEF Filed
    <3> QED  BY <3>1, <3>3, Zenon
  <2>2. CASE h \in 0..(n - 1)
    <3>1. c[h + 1].qc = chain[h + 1].qc  BY <1>1, <2>2, Zenon
    <3>2. mined[chain[h + 1].qc.q] = chain[h + 1].qc  BY <1>0, <1>10, <2>2, <3>1, Zenon DEF DbOf, n
    <3>3. chain[h + 1].qc # NoQc  BY <1>10, <3>1, Zenon DEF Stores
    <3>4. chain[h + 1].qc.q \in Hash
      <4>1. chain[h + 1].qc \in AnyQc  BY <1>0, <2>2, ChainFacts, Zenon DEF n
      <4> QED  BY <3>3, <4>1, StoredFacts, Zenon
    <3>5. Stores(b.qc) => chain[h + 1].qc.q # b.qc.q  BY <1>4, <3>2, <3>3, Zenon
    <3>6. m[chain[h + 1].qc.q] = mined[chain[h + 1].qc.q]  BY <1>0, <3>4, <3>5, Zenon DEF Filed
    <3> QED  BY <3>1, <3>2, <3>6, Zenon
  <2> QED  BY <1>8, <2>1, <2>2, Zenon
<1>11. ASSUME NEW h \in 0..(Len(c) - 1)
       PROVE  bh[h] = IF Stores(c[h + 1].qc) THEN QuorumHeight(h) ELSE -1
  <2>0. h \in 0..MaxHeight  BY <1>0, <1>1
  <2>1. CASE h = n
    <3>1. byHeight[n] = -1
      <4>1. n \in n..MaxHeight  BY <1>0
      <4> QED  BY <1>0, <4>1, Zenon DEF DbOf, n
    <3> QED  BY <1>0, <1>1, <1>6, <2>0, <2>1, <3>1, Zenon
  <2>2. CASE h \in 0..(n - 1)
    <3>1. h # n  BY <1>0, <2>2
    <3>2. byHeight[h] = IF Stores(chain[h + 1].qc) THEN QuorumHeight(h) ELSE -1
      BY <1>0, <2>2, Zenon DEF DbOf, n
    <3> QED  BY <1>1, <1>6, <2>0, <2>2, <3>1, <3>2, Zenon
  <2> QED  BY <1>8, <2>1, <2>2, Zenon
<1>12. ASSUME NEW h \in Len(c)..MaxHeight
       PROVE  bh[h] = -1
  <2>1. h \in n..MaxHeight /\ h \in 0..MaxHeight /\ h # n  BY <1>0, <1>1
  <2>2. byHeight[h] = -1  BY <1>0, <2>1, SMTT(30) DEF DbOf, n
  <2> QED  BY <1>6, <2>1, <2>2, Zenon
<1>13. DbOf(m, bh, c)  BY <1>9, <1>10, <1>11, <1>12, Zenon DEF DbOf
<1> QED  BY <1>5, <1>7, <1>13, Zenon DEF c

\* The databases after UndoBlock are those of the chain without its last block.
LEMMA UndoneDb ==
  ASSUME Settled, Height > 0,
         NEW c, c = chain[Height + 1].qc,
         NEW m, m = IF Stores(c) THEN [mined EXCEPT ![c.q] = NoQc] ELSE mined,
         NEW bh, bh = IF Stores(c) THEN UndoHeight ELSE byHeight
  PROVE  DbOf(m, bh, SubSeq(chain, 1, Height)) /\ Filed(m) /\ Heights(bh)
<1> DEFINE s == SubSeq(chain, 1, Height)
           n == Height
<1>0. /\ ChainOK(chain) /\ n \in Nat \ {0} /\ Len(chain) = n + 1 /\ MaxHeight \in Nat
      /\ n \in 0..MaxHeight /\ n \in 1..Len(chain) /\ n \in 0..(Len(chain) - 1)
      /\ Filed(mined) /\ Heights(byHeight) /\ DbOf(mined, byHeight, chain)
  <2>1. ChainOK(chain) /\ Filed(mined) /\ Heights(byHeight) /\ DbOf(mined, byHeight, chain)
    BY Zenon DEF Settled
  <2>2. Len(chain) \in 1..(MaxHeight + 1) /\ MaxHeight \in Nat  BY <2>1, ParamsAssumption, Zenon DEF ChainOK
  <2> QED  BY <2>1, <2>2 DEF Height
<1>1. Len(s) = n /\ \A h \in 0..(n - 1) : s[h + 1] = chain[h + 1]
  <2>1. Len(s) = n /\ \A i \in 1..n : s[i] = chain[i]  BY <1>0, Prefix, Zenon
  <2>2. \A h \in 0..(n - 1) : h + 1 \in 1..n  BY <1>0
  <2> QED  BY <2>1, <2>2, Zenon
<1>2. c \in AnyQc  BY <1>0, ChainFacts, Zenon
<1>3. Stores(c) => c.q \in Hash /\ c # NoQc  BY <1>2, StoredFacts, Zenon
<1> HIDE DEF s, n
<1>4. c = chain[n + 1].qc  BY Zenon DEF n
<1>5. Filed(m)
  <2>1. CASE Stores(c)  BY <1>0, <1>3, <2>1, Zenon DEF Filed
  <2>2. CASE ~Stores(c)  BY <1>0, <2>2, Zenon
  <2> QED  BY <2>1, <2>2, Zenon
<1>6. /\ bh \in [0..MaxHeight -> Int]
      /\ \A h \in 0..MaxHeight : bh[h] = IF Stores(c) /\ h = n THEN -1 ELSE byHeight[h]
  <2>1. CASE Stores(c)
    <3>1. bh = [byHeight EXCEPT ![n] = -1]  BY <2>1, Zenon DEF UndoHeight, n
    <3> QED  BY <1>0, <2>1, <3>1, SMTT(30) DEF Heights
  <2>2. CASE ~Stores(c)  BY <1>0, <2>2, Zenon DEF Heights
  <2> QED  BY <2>1, <2>2, Zenon
<1>7. Heights(bh)  BY <1>0, <1>6, SMTT(30) DEF Heights
<1>8. ASSUME NEW q \in Hash, m[q] # NoQc
      PROVE  \E h \in 0..(Len(s) - 1) : Stores(s[h + 1].qc) /\ s[h + 1].qc = m[q]
  <2>1. m[q] = mined[q] /\ (Stores(c) => q # c.q)
    <3>1. CASE Stores(c)
      <4>1. m = [mined EXCEPT ![c.q] = NoQc]  BY <3>1, Zenon
      <4>2. q # c.q  BY <1>0, <1>3, <1>8, <3>1, <4>1, Zenon DEF Filed
      <4> QED  BY <1>0, <1>3, <3>1, <4>1, <4>2, Zenon DEF Filed
    <3>2. CASE ~Stores(c)  BY <3>2, SMTT(30)
    <3> QED  BY <3>1, <3>2, Zenon
  <2>2. PICK h \in 0..(Len(chain) - 1) : Stores(chain[h + 1].qc) /\ chain[h + 1].qc = mined[q]
    BY <1>0, <1>8, <2>1, SMTT(30) DEF DbOf
  <2>3. chain[h + 1].qc.q = q  BY <1>0, <1>8, <2>1, <2>2, Zenon DEF Filed
  <2>4. h # n  BY <1>4, <2>1, <2>2, <2>3, SMTT(30)
  <2>5. h \in 0..(n - 1) /\ h \in 0..(Len(s) - 1)  BY <1>0, <1>1, <2>4, SMTT(30)
  <2> QED  BY <1>1, <2>1, <2>2, <2>5, Zenon
<1>9. ASSUME NEW h \in 0..(Len(s) - 1), Stores(s[h + 1].qc)
      PROVE  m[s[h + 1].qc.q] = s[h + 1].qc
  <2>1. h \in 0..(n - 1) /\ h \in 0..(Len(chain) - 1) /\ h # n  BY <1>0, <1>1
  <2>2. s[h + 1].qc = chain[h + 1].qc /\ Stores(chain[h + 1].qc)  BY <1>1, <1>9, <2>1, SMTT(30)
  <2>3. mined[chain[h + 1].qc.q] = chain[h + 1].qc  BY <1>0, <2>1, <2>2, SMTT(30) DEF DbOf
  <2>4. chain[h + 1].qc.q \in Hash
    <3>1. chain[h + 1].qc \in AnyQc  BY <1>0, <2>1, ChainFacts, Zenon
    <3> QED  BY <2>2, <3>1, StoredFacts, Zenon
  <2>5. Stores(c) => chain[h + 1].qc.q # c.q  BY <1>0, <1>4, <2>1, <2>2, MinedOnce, Zenon
  <2>6. m[chain[h + 1].qc.q] = mined[chain[h + 1].qc.q]  BY <1>0, <2>4, <2>5, Zenon DEF Filed
  <2> QED  BY <2>2, <2>3, <2>6, Zenon
<1>10. ASSUME NEW h \in 0..(Len(s) - 1)
       PROVE  bh[h] = IF Stores(s[h + 1].qc) THEN QuorumHeight(h) ELSE -1
  <2>1. h \in 0..(n - 1) /\ h \in 0..(Len(chain) - 1) /\ h # n /\ h \in 0..MaxHeight  BY <1>0, <1>1
  <2>2. byHeight[h] = IF Stores(chain[h + 1].qc) THEN QuorumHeight(h) ELSE -1
    BY <1>0, <2>1, Zenon DEF DbOf
  <2> QED  BY <1>1, <1>6, <2>1, <2>2, Zenon
<1>11. ASSUME NEW h \in Len(s)..MaxHeight
       PROVE  bh[h] = -1
  <2>1. h \in 0..MaxHeight /\ (h = n \/ h \in Len(chain)..MaxHeight)  BY <1>0, <1>1
  <2>2. CASE h = n
    <3>1. byHeight[n] = IF Stores(c) THEN QuorumHeight(n) ELSE -1  BY <1>0, <1>4, Zenon DEF DbOf
    <3> QED  BY <1>6, <2>1, <2>2, <3>1, SMTT(30)
  <2>3. CASE h \in Len(chain)..MaxHeight
    <3>1. byHeight[h] = -1  BY <1>0, <2>3, SMTT(30) DEF DbOf
    <3> QED  BY <1>6, <2>1, <3>1, SMTT(30)
  <2> QED  BY <2>1, <2>2, <2>3, Zenon
<1>12. DbOf(m, bh, s)  BY <1>8, <1>9, <1>10, <1>11, Zenon DEF DbOf
<1> QED  BY <1>5, <1>7, <1>12, Zenon DEF s, n

-----------------------------------------------------------------------------
(* The steps.                                                              *)

\* Between transactions.
LEMMA Between ==
  ASSUME IInv, tx = NoTx
  PROVE  Settled
BY Zenon DEF IInv, TypesOK, Settled

\* IsCommitmentRequired leaves a cache that agrees with the database.
LEMMA LookedUp ==
  ASSUME Settled, NEW ca, ca = CacheAfterLookup(Height + 1)
  PROVE  ca \in [Hash -> BOOLEAN \cup {Unset}] /\ CacheOf(ca, mined)
<1> DEFINE h == Height + 1
           a == QuorumHeight(h)
           q == GetQuorumBlockHash(h)
<1>0. /\ ChainOK(chain) /\ cache \in [Hash -> BOOLEAN \cup {Unset}] /\ CacheOf(cache, mined)
  BY Zenon DEF Settled
<1>1. CASE q = NoHash \/ h < DIP0003Height
  BY <1>0, <1>1, Zenon DEF CacheAfterLookup
<1>2. CASE ~(q = NoHash \/ h < DIP0003Height)
  <2>1. ~(a > Height) /\ q = chain[a + 1].hash  BY <1>2, Zenon DEF GetQuorumBlockHash
  <2>2. Len(chain) \in Nat \ {0} /\ Height \in Nat /\ h \in Nat
    BY <1>0, ChainFacts DEF Height
  <2>3. a \in 0..h /\ \A k \in a..h : QuorumHeight(k) = a  BY <2>2, QuorumHeightFacts, Zenon
  <2>4. a \in 0..(Len(chain) - 1) /\ QuorumHeight(a) = a
    <3>1. a \in a..h  BY <2>2, <2>3
    <3>2. a \in 0..(Len(chain) - 1)  BY <2>1, <2>2, <2>3 DEF Height
    <3> QED  BY <2>3, <3>1, <3>2, Zenon
  <2>5. q \in Hash
    <3>1. chain[QuorumHeight(a) + 1].hash \in Hash  BY <1>0, <2>4, ChainFacts, Zenon
    <3> QED  BY <2>1, <2>4, <3>1, Zenon
  <2>6. HasMinedCommitment(q) = (mined[q] # NoQc)  BY <2>5, Lookup, Zenon
  <2>7. ca = [cache EXCEPT ![q] = HasMinedCommitment(q)]  BY <1>2, Zenon DEF CacheAfterLookup
  <2> HIDE DEF q
  <2>8. ca \in [Hash -> BOOLEAN \cup {Unset}]  BY <1>0, <2>5, <2>6, <2>7, Zenon
  <2>9. ASSUME NEW p \in Hash, ca[p] # Unset PROVE ca[p] = (mined[p] # NoQc)
    <3>1. CASE p = q  BY <1>0, <2>5, <2>6, <2>7, <3>1, Zenon
    <3>2. CASE p # q  BY <1>0, <2>5, <2>7, <2>9, <3>2, Zenon DEF CacheOf
    <3> QED  BY <3>1, <3>2, Zenon
  <2> QED  BY <2>8, <2>9, Zenon DEF CacheOf
<1> QED  BY <1>1, <1>2, Zenon

\* ProcessCommitment leaves a cache that agrees with the database before and after.
LEMMA CacheStored ==
  ASSUME Settled, NEW c \in AnyQc, NEW ca, ca = CacheAfterStore(c, Height + 1),
         NEW m, m = IF Stores(c) THEN [mined EXCEPT ![c.q] = c] ELSE mined
  PROVE  ca \in [Hash -> BOOLEAN \cup {Unset}] /\ CacheOf(ca, mined) /\ CacheOf(ca, m)
<1> DEFINE l == CacheAfterLookup(Height + 1)
<1>1. l \in [Hash -> BOOLEAN \cup {Unset}] /\ CacheOf(l, mined)  BY LookedUp, Zenon
<1>2. Stores(c) => c.q \in Hash  BY StoredFacts, Zenon
<1>3. mined \in [Hash -> Commitment \cup {NoQc}]  BY Zenon DEF Settled, Filed
<1>4. ca = IF Stores(c) THEN [l EXCEPT ![c.q] = Unset] ELSE l  BY Zenon DEF CacheAfterStore
<1> HIDE DEF l
<1>5. CASE Stores(c)
  <2>1. ca = [l EXCEPT ![c.q] = Unset] /\ m = [mined EXCEPT ![c.q] = c]  BY <1>4, <1>5, Zenon
  <2>2. ca \in [Hash -> BOOLEAN \cup {Unset}]  BY <1>1, <2>1, Zenon
  <2>3. \A p \in Hash : ca[p] # Unset => p # c.q /\ ca[p] = l[p] /\ m[p] = mined[p]
    BY <1>1, <1>2, <1>3, <1>5, <2>1, Zenon
  <2> QED  BY <1>1, <2>2, <2>3, Zenon DEF CacheOf
<1>6. CASE ~Stores(c)  BY <1>1, <1>4, <1>6, Zenon
<1> QED  BY <1>5, <1>6, Zenon

\* ConnectBlock of a block, and of the block template, up to the end of ProcessBlock.
LEMMA ProcessStep ==
  ASSUME IInv, tx = NoTx, Height < MaxHeight, NEW b \in Block, NEW op \in {"connect", "test"},
         op = "connect" =>
           /\ b.hash \in IF (Height + 1) % DkgInterval = 0 THEN Hash ELSE {NoHash}
           /\ b.hash # NoHash => ~StartsSession(chain, b.hash),
         ProcessBlock(b, op), UNCHANGED <<chain, pool, lookups>>
  PROVE  IInv'
<1>0. Settled  BY Between, Zenon
<1>1. /\ ChainOK(chain) /\ Filed(mined) /\ Heights(byHeight) /\ DbOf(mined, byHeight, chain)
      /\ Filed(byQuorum) /\ Filed(quorums) /\ minable \subseteq Commitment
      /\ incoming \in Commitment \cup {NoQc}
  BY <1>0, Zenon DEF IInv, TypesOK, Settled
<1>2. UNCHANGED <<chain, byQuorum, minable, incoming, quorums>>  BY SMTT(30) DEF pool, lookups
<1>3. CASE BlockAccepted(b.qc, Height + 1)
  <2>1. /\ mined' = IF Stores(b.qc) THEN [mined EXCEPT ![b.qc.q] = b.qc] ELSE mined
        /\ byHeight' = IF Stores(b.qc)
                       THEN [byHeight EXCEPT ![Height + 1] = QuorumHeight(Height + 1)]
                       ELSE byHeight
        /\ cache' = CacheAfterStore(b.qc, Height + 1)
        /\ tx' = [op |-> op, block |-> b, mined |-> mined, byHeight |-> byHeight]
    BY <1>3, SMTT(30) DEF ProcessBlock
  <2>2. DbOf(mined', byHeight', Append(chain, b)) /\ Filed(mined') /\ Heights(byHeight')
    BY <1>0, <1>3, <2>1, ConnectedDb, Zenon
  <2>3. b.qc \in AnyQc  BY SMTT(30) DEF Block
  <2>4. /\ cache' \in [Hash -> BOOLEAN \cup {Unset}] /\ CacheOf(cache', mined)
        /\ CacheOf(cache', mined')
    BY <1>0, <2>1, <2>3, CacheStored, SMTT(30)
  <2>5. op = "connect" => ChainOK(Append(chain, b))  BY <1>0, <1>3, Extend, SMTT(30)
  <2>6. /\ tx'.op = op /\ tx'.block = b /\ tx'.mined = mined /\ tx'.byHeight = byHeight
        /\ tx' # NoTx
    BY <2>1, SMTT(30) DEF NoTx
  <2>7. Connecting'  BY <1>2, <2>2, <2>5, <2>6, SMTT(30) DEF Connecting
  <2>8. TypesOK'  BY <1>1, <1>2, <2>2, <2>4, SMTT(30) DEF TypesOK
  <2> QED  BY <1>1, <1>2, <2>4, <2>6, <2>7, <2>8, Zenon DEF IInv
<1>4. CASE ~BlockAccepted(b.qc, Height + 1)
  <2>1. cache' = CacheAfterLookup(Height + 1) /\ UNCHANGED <<mined, byHeight, tx>>
    BY <1>4, SMTT(30) DEF ProcessBlock
  <2>2. cache' \in [Hash -> BOOLEAN \cup {Unset}] /\ CacheOf(cache', mined)
    BY <1>0, <2>1, LookedUp, SMTT(30)
  <2>3. TypesOK'  BY <1>1, <1>2, <2>1, <2>2, Zenon DEF TypesOK
  <2> QED  BY <1>1, <1>2, <2>1, <2>2, <2>3, Zenon DEF IInv
<1> QED  BY <1>3, <1>4, Zenon

\* ConnectTip.
LEMMA ConnectStep ==
  ASSUME IInv, NEW hash \in Hash \cup {NoHash}, NEW c \in AnyQc, BeginConnect(hash, c)
  PROVE  IInv'
<1> DEFINE b == [hash |-> hash, qc |-> c]
<1>1. b \in Block /\ b.hash = hash  BY Zenon DEF Block
<1>2. /\ tx = NoTx /\ Height < MaxHeight /\ ProcessBlock(b, "connect")
      /\ UNCHANGED <<chain, pool, lookups>>
  BY Zenon DEF BeginConnect
<1>3. /\ hash \in IF (Height + 1) % DkgInterval = 0 THEN Hash ELSE {NoHash}
      /\ hash # NoHash => ~StartsSession(chain, hash)
  BY Zenon DEF BeginConnect
<1> HIDE DEF b
<1> QED  BY <1>1, <1>2, <1>3, ProcessStep, Zenon

\* CreateNewBlock takes a commitment of the pool or a null one.
LEMMA TemplateStep ==
  ASSUME IInv, CreateNewBlock
  PROVE  IInv'
<1> DEFINE m == GetMinableCommitment(Height + 1)
           c == IF Height + 1 >= DIP0003Height THEN m ELSE NoQc
           q == GetQuorumBlockHash(Height + 1)
           b == [hash |-> NoHash, qc |-> c]
<1>0. tx = NoTx /\ Settled  BY Between, Zenon DEF CreateNewBlock
<1>1. m \in AnyQc /\ NoQc \in AnyQc
  <2>1. CASE ~IsCommitmentRequired(Height + 1)  BY <2>1, Zenon DEF GetMinableCommitment, AnyQc
  <2>2. CASE IsCommitmentRequired(Height + 1)
    <3>1. q \in Hash  BY <1>0, <2>2, RequiredMeans, Zenon
    <3>2. m = IF byQuorum[q] # NoQc THEN byQuorum[q] ELSE [q |-> q, signers |-> 0]
      BY <2>2, SMTT(30) DEF GetMinableCommitment
    <3>3. byQuorum \in [Hash -> Commitment \cup {NoQc}]  BY Zenon DEF IInv, TypesOK, Filed
    <3> HIDE DEF m, q
    <3>4. [q |-> q, signers |-> 0] \in NullCommitment  BY <3>1, Zenon DEF NullCommitment
    <3> QED  BY <3>1, <3>2, <3>3, <3>4, SMTT(30) DEF AnyQc
  <2> QED  BY <2>1, <2>2, Zenon DEF AnyQc
<1>2. Height < MaxHeight /\ ProcessBlock(b, "test") /\ UNCHANGED <<chain, pool, lookups>>
  BY Zenon DEF CreateNewBlock
<1> HIDE DEF m
<1>3. c \in AnyQc  BY <1>1, Zenon
<1> HIDE DEF c
<1>4. b \in Block  BY <1>3, SMTT(30) DEF Block
<1> HIDE DEF b
<1> QED  BY <1>0, <1>2, <1>4, ProcessStep, Zenon

\* AddMinableCommitment keeps the better commitment of a quorum.
LEMMA Added ==
  ASSUME Filed(byQuorum), minable \subseteq Commitment, NEW c \in Commitment, AddMinableCommitment(c)
  PROVE  /\ Filed(byQuorum') /\ minable' \subseteq Commitment /\ Kept(byQuorum', c)
         /\ \A d \in Commitment : Kept(byQuorum, d) => Kept(byQuorum', d)
<1>1. \A d \in Commitment : d.q \in Hash /\ d.signers \in Nat /\ d # NoQc
  BY ParamsAssumption DEF Commitment
<1>2. /\ byQuorum \in [Hash -> Commitment \cup {NoQc}]
      /\ \A q \in Hash : byQuorum[q] # NoQc => byQuorum[q].q = q
  BY Zenon DEF Filed
<1>3. CASE byQuorum[c.q] = NoQc \/ c.signers > byQuorum[c.q].signers
  <2>1. byQuorum' = [byQuorum EXCEPT ![c.q] = c] /\ minable' = minable \cup {c}
    BY <1>3, Zenon DEF AddMinableCommitment
  <2>2. Filed(byQuorum') /\ minable' \subseteq Commitment  BY <1>1, <1>2, <2>1, Zenon DEF Filed
  <2>3. byQuorum'[c.q] = c  BY <1>1, <1>2, <2>1, Zenon
  <2>4. Kept(byQuorum', c)  BY <1>1, <2>3 DEF Kept
  <2>5. ASSUME NEW d \in Commitment, Kept(byQuorum, d) PROVE Kept(byQuorum', d)
    <3>1. CASE d.q = c.q
      <4>1. byQuorum[c.q] \in Commitment /\ byQuorum[c.q].signers >= d.signers
        BY <1>1, <1>2, <2>5, <3>1, Zenon DEF Kept
      <4>2. c.signers > byQuorum[c.q].signers  BY <1>1, <1>3, <4>1, Zenon
      <4>3. c.signers >= d.signers  BY <1>1, <4>1, <4>2
      <4> QED  BY <1>1, <2>3, <3>1, <4>3, Zenon DEF Kept
    <3>2. CASE d.q # c.q
      <4>1. byQuorum'[d.q] = byQuorum[d.q]  BY <1>1, <1>2, <2>1, <3>2, Zenon
      <4> QED  BY <2>5, <4>1, Zenon DEF Kept
    <3> QED  BY <3>1, <3>2, Zenon
  <2> QED  BY <2>2, <2>4, <2>5, Zenon
<1>4. CASE ~(byQuorum[c.q] = NoQc \/ c.signers > byQuorum[c.q].signers)
  <2>1. byQuorum' = byQuorum /\ minable' = minable  BY <1>4, Zenon DEF AddMinableCommitment
  <2>2. byQuorum[c.q] \in Commitment  BY <1>1, <1>2, <1>4, Zenon
  <2>3. byQuorum[c.q].signers >= c.signers  BY <1>1, <1>4, <2>2
  <2>4. Kept(byQuorum, c)  BY <1>4, <2>3, Zenon DEF Kept
  <2> QED  BY <2>1, <2>4, Zenon
<1> QED  BY <1>3, <1>4, Zenon

\* The last block of a chain.
LEMMA TipFacts ==
  ASSUME ChainOK(chain)
  PROVE  /\ Height \in Nat /\ Len(chain) = Height + 1 /\ chain[Height + 1].qc \in AnyQc
         /\ Stores(chain[Height + 1].qc) => chain[Height + 1].qc \in Commitment
<1>1. Len(chain) \in Nat \ {0}  BY ChainFacts, Zenon
<1>2. Height \in 0..(Len(chain) - 1) /\ Height \in Nat /\ Len(chain) = Height + 1
  BY <1>1 DEF Height
<1>3. chain[Height + 1].qc \in AnyQc  BY <1>2, ChainFacts, Zenon
<1> QED  BY <1>2, <1>3, StoredFacts, Zenon

\* Only the pool changes.
LEMMA PoolStep ==
  ASSUME IInv, UNCHANGED <<chain, mined, byHeight, tx, cache, quorums>>,
         Filed(byQuorum'), minable' \subseteq Commitment, incoming' \in Commitment \cup {NoQc},
         \A d \in Commitment : Kept(byQuorum, d) => Kept(byQuorum', d)
  PROVE  IInv'
<1>1. TypesOK'  BY Zenon DEF IInv, TypesOK
<1>2. Connecting => Connecting'  BY Zenon DEF Connecting
<1>3. Disconnecting => Disconnecting'
  <2>1. Height' = Height  BY Zenon DEF Height
  <2>2. Stores(chain[Height + 1].qc) => chain[Height + 1].qc \in Commitment  BY TipFacts, Zenon DEF IInv
  <2> QED  BY <2>1, <2>2, Zenon DEF Disconnecting
<1> QED  BY <1>1, <1>2, <1>3, Zenon DEF IInv

\* Blocks are connected and disconnected for good.
LEMMA CommitStep ==
  ASSUME IInv, CommitConnect \/ CommitDisconnect
  PROVE  IInv'
<1>1. /\ tx' = NoTx
      /\ UNCHANGED <<mined, byHeight, cache, byQuorum, minable, incoming, quorums>>
  BY Zenon DEF CommitConnect, CommitDisconnect, pool, lookups
<1>2. TypesOK' /\ CacheOf(cache', mined')  BY <1>1, Zenon DEF IInv, TypesOK
<1>3. tx # NoTx /\ (Connecting \/ Disconnecting)
  BY DEF IInv, CommitConnect, CommitDisconnect, NoTx
<1>4. ChainOK(chain') /\ DbOf(mined, byHeight, chain')
  <2>1. CASE CommitConnect
    <3>1. tx.op = "connect" /\ chain' = Append(chain, tx.block)  BY <2>1, Zenon DEF CommitConnect
    <3> QED  BY <1>3, <3>1, Zenon DEF Connecting, Disconnecting
  <2>2. CASE CommitDisconnect
    <3>1. tx.op = "disconnect" /\ chain' = SubSeq(chain, 1, Height)  BY <2>2, Zenon DEF CommitDisconnect
    <3>2. Height > 0 /\ DbOf(mined, byHeight, SubSeq(chain, 1, Height))
      BY <1>3, <3>1, Zenon DEF Connecting, Disconnecting
    <3>3. ChainOK(chain)  BY Zenon DEF IInv
    <3>4. Height \in 1..Len(chain)  BY <3>2, <3>3, TipFacts, SMTT(30)
    <3> QED  BY <3>1, <3>2, <3>3, <3>4, Prefix, Zenon
  <2> QED  BY <2>1, <2>2, Zenon
<1> QED  BY <1>1, <1>2, <1>4, Zenon DEF IInv

\* DisconnectBlock.
LEMMA DisconnectStep ==
  ASSUME IInv, BeginDisconnect
  PROVE  IInv'
<1> DEFINE c == chain[Height + 1].qc
<1>0. tx = NoTx /\ Height > 0 /\ Settled  BY Between, Zenon DEF BeginDisconnect
<1>1. /\ ChainOK(chain) /\ Filed(mined) /\ Heights(byHeight) /\ DbOf(mined, byHeight, chain)
      /\ cache \in [Hash -> BOOLEAN \cup {Unset}] /\ CacheOf(cache, mined)
      /\ Filed(byQuorum) /\ Filed(quorums) /\ minable \subseteq Commitment
      /\ incoming \in Commitment \cup {NoQc}
  BY <1>0, Zenon DEF IInv, TypesOK, Settled
<1>2. /\ UNCHANGED <<chain, incoming, quorums>>
      /\ tx' = [op |-> "disconnect", mined |-> mined, byHeight |-> byHeight]
  BY Zenon DEF BeginDisconnect, lookups
<1>3. /\ tx'.op = "disconnect" /\ tx'.mined = mined /\ tx'.byHeight = byHeight /\ tx' # NoTx
  BY <1>2, Zenon DEF NoTx
<1>4. Stores(c) => c \in Commitment /\ c.q \in Hash
  <2>1. c \in AnyQc  BY <1>1, TipFacts, SMTT(30)
  <2> QED  BY <2>1, StoredFacts, Zenon
<1>5. /\ mined' = IF Stores(c) THEN [mined EXCEPT ![c.q] = NoQc] ELSE mined
      /\ byHeight' = IF Stores(c) THEN UndoHeight ELSE byHeight
      /\ cache' = IF Stores(c) THEN [cache EXCEPT ![c.q] = Unset] ELSE cache
      /\ Stores(c) => AddMinableCommitment(c)
      /\ ~Stores(c) => UNCHANGED <<minable, byQuorum>>
  BY Zenon DEF BeginDisconnect
<1>6. DbOf(mined', byHeight', SubSeq(chain, 1, Height)) /\ Filed(mined') /\ Heights(byHeight')
  BY <1>0, <1>5, UndoneDb, Zenon
<1> HIDE DEF c
<1>7. /\ cache' \in [Hash -> BOOLEAN \cup {Unset}] /\ CacheOf(cache', mined)
      /\ CacheOf(cache', mined')
  <2>1. CASE Stores(c)
    <3>1. mined' = [mined EXCEPT ![c.q] = NoQc] /\ cache' = [cache EXCEPT ![c.q] = Unset]
      BY <1>5, <2>1, Zenon
    <3>2. \A p \in Hash : cache'[p] # Unset => p # c.q /\ cache'[p] = cache[p] /\ mined'[p] = mined[p]
      BY <1>1, <1>4, <2>1, <3>1, Zenon DEF Filed
    <3>3. cache' \in [Hash -> BOOLEAN \cup {Unset}]  BY <1>1, <3>1, Zenon
    <3> QED  BY <1>1, <3>2, <3>3, Zenon DEF CacheOf
  <2>2. CASE ~Stores(c)  BY <1>1, <1>5, <2>2, Zenon
  <2> QED  BY <2>1, <2>2, SMTT(30)
<1>8. Filed(byQuorum') /\ minable' \subseteq Commitment /\ (Stores(c) => Kept(byQuorum', c))
  <2>1. CASE Stores(c)  BY <1>1, <1>4, <1>5, <2>1, Added, Zenon
  <2>2. CASE ~Stores(c)  BY <1>1, <1>5, <2>2, Zenon
  <2> QED  BY <2>1, <2>2, Zenon
<1>9. TypesOK'  BY <1>1, <1>2, <1>6, <1>7, <1>8, Zenon DEF TypesOK
<1>10. Disconnecting'
  <2>1. Height' = Height  BY <1>2, Zenon DEF Height
  <2> QED  BY <1>0, <1>2, <1>3, <1>6, <1>8, <2>1, Zenon DEF Disconnecting, c
<1> QED  BY <1>1, <1>2, <1>3, <1>7, <1>9, <1>10, Zenon DEF IInv

\* An open transaction is dropped, or the node restarts.
LEMMA RestoreStep ==
  ASSUME IInv, Rollback \/ Restart
  PROVE  IInv'
<1>1. tx' = NoTx /\ UNCHANGED chain  BY Zenon DEF Rollback, Restart
<1>2. ChainOK(chain)  BY DEF IInv
<1>3. /\ Filed(mined') /\ Heights(byHeight') /\ DbOf(mined', byHeight', chain)
      /\ tx # NoTx => CacheOf(cache, mined')
  <2>1. CASE tx = NoTx
    <3>1. UNCHANGED <<mined, byHeight>>  BY <2>1, Zenon DEF Rollback, Restart
    <3> QED  BY <2>1, <3>1, Zenon DEF IInv, TypesOK
  <2>2. CASE tx # NoTx
    <3>1. mined' = tx.mined /\ byHeight' = tx.byHeight  BY <2>2, Zenon DEF Rollback, Restart
    <3> QED  BY <2>2, <3>1, Zenon DEF IInv
  <2> QED  BY <2>1, <2>2, Zenon
<1>4. CASE Rollback
  <2>1. tx # NoTx /\ UNCHANGED <<cache, byQuorum, minable, incoming, quorums>>
    BY <1>4, Zenon DEF Rollback, pool, lookups
  <2>2. TypesOK'  BY <1>3, <2>1, Zenon DEF IInv, TypesOK
  <2> QED  BY <1>1, <1>2, <1>3, <2>1, <2>2, Zenon DEF IInv
<1>5. CASE Restart
  <2>1. /\ cache' = [q \in Hash |-> Unset] /\ minable' = {} /\ incoming' = NoQc
        /\ byQuorum' = [q \in Hash |-> NoQc] /\ quorums' = [q \in Hash |-> NoQc]
    BY <1>5, SMTT(30) DEF Restart
  <2>2. TypesOK' /\ CacheOf(cache', mined')
    <3>1. TypesOK'  BY <1>3, <2>1, Zenon DEF TypesOK, Filed
    <3>2. CacheOf(cache', mined')  BY <2>1, Zenon DEF CacheOf
    <3> QED  BY <3>1, <3>2, Zenon
  <2> QED  BY <1>1, <1>2, <1>3, <2>2, Zenon DEF IInv
<1> QED  BY <1>4, <1>5, Zenon

\* The invariant holds at first.
LEMMA InitIInv == Init => IInv
<1> SUFFICES ASSUME Init PROVE IInv
  BY Zenon
<1> DEFINE g == [hash |-> GenesisHash, qc |-> NoQc]
<1>1. 0 % DkgInterval = 0 /\ QuorumHeight(0) = 0
  <2>1. QuorumHeight(0) \in 0..0 /\ 0 % DkgInterval \in 0..(DkgInterval - 1)
    BY QuorumHeightFacts, Zenon
  <2> DEFINE r == 0 % DkgInterval
  <2>2. QuorumHeight(0) = 0 - r  BY Zenon DEF QuorumHeight
  <2>3. r \in Int  BY <2>1, ParamsAssumption
  <2> HIDE DEF r
  <2>4. r = 0  BY <2>1, <2>2, <2>3
  <2> QED  BY <2>1, <2>4 DEF r
<1>2. ~IsMiningPhase(0)  BY <1>1, ParamsAssumption DEF IsMiningPhase
<1>3. g \in Block /\ g.qc = NoQc /\ g.hash \in Hash  BY ParamsAssumption, Zenon DEF Block, AnyQc
<1>4. chain = <<g>>  BY Zenon DEF Init
<1>5. ~Stores(NoQc)  BY Zenon DEF Stores
<1> HIDE DEF g
<1>6. chain \in Seq(Block) /\ Len(chain) = 1 /\ chain[1] = g  BY <1>3, <1>4
<1>7. Len(chain) \in 1..(MaxHeight + 1)  BY <1>6, ParamsAssumption
<1>8. \A h \in 0..(Len(chain) - 1) : h = 0 /\ chain[h + 1] = g  BY <1>6
<1>9. \A i \in 1..Len(chain) : i = 1 /\ i - 1 = 0 /\ chain[i] = g  BY <1>6
<1>10. \A i \in 1..Len(chain) : chain[i].hash \in IF (i - 1) % DkgInterval = 0 THEN Hash ELSE {NoHash}
  BY <1>1, <1>3, <1>9, Zenon
<1>11. Committed(chain)  BY <1>2, <1>3, <1>8, Zenon DEF Committed, Due
<1>12. ChainOK(chain)  BY <1>6, <1>7, <1>9, <1>10, <1>11, Zenon DEF ChainOK
<1>13. /\ mined = [q \in Hash |-> NoQc] /\ byQuorum = [q \in Hash |-> NoQc]
       /\ quorums = [q \in Hash |-> NoQc] /\ cache = [q \in Hash |-> Unset]
       /\ byHeight = [h \in 0..MaxHeight |-> -1] /\ minable = {} /\ incoming = NoQc /\ tx = NoTx
  BY Zenon DEF Init
<1>14. Heights(byHeight)
  <2>1. \A h \in 0..MaxHeight : -1 \in -1..h  BY ParamsAssumption
  <2> QED  BY <1>13, <2>1 DEF Heights
<1>15. TypesOK /\ CacheOf(cache, mined)  BY <1>13, <1>14, SMTT(30) DEF TypesOK, Filed, CacheOf
<1>16. DbOf(mined, byHeight, chain)
  <2>1. \A h \in 0..(Len(chain) - 1) : h \in 0..MaxHeight  BY <1>8, ParamsAssumption
  <2>2. \A h \in Len(chain)..MaxHeight : h \in 0..MaxHeight  BY <1>6, ParamsAssumption
  <2> QED  BY <1>3, <1>5, <1>8, <1>13, <2>1, <2>2, Zenon DEF DbOf
<1> QED  BY <1>12, <1>13, <1>15, <1>16, Zenon DEF IInv

\* Every step keeps it.
LEMMA NextIInv == IInv /\ [Next]_vars => IInv'
<1> SUFFICES ASSUME IInv, [Next]_vars PROVE IInv'
  BY Zenon
<1>0. Filed(byQuorum) /\ minable \subseteq Commitment /\ incoming \in Commitment \cup {NoQc}
  BY Zenon DEF IInv, TypesOK
<1>1. ASSUME NEW hash \in Hash \cup {NoHash}, NEW c \in AnyQc, BeginConnect(hash, c) PROVE IInv'
  BY <1>1, ConnectStep, Zenon
<1>2. CASE CreateNewBlock  BY <1>2, TemplateStep, Zenon
<1>3. CASE CommitConnect \/ CommitDisconnect  BY <1>3, CommitStep, Zenon
<1>4. CASE BeginDisconnect  BY <1>4, DisconnectStep
<1>5. CASE Rollback \/ Restart  BY <1>5, RestoreStep, Zenon
<1>6. CASE AddReceived
  <2>1. /\ incoming \in Commitment /\ AddMinableCommitment(incoming) /\ incoming' = NoQc
        /\ UNCHANGED <<chain, mined, byHeight, tx, cache, quorums>>
    BY <1>0, <1>6, Zenon DEF AddReceived, lookups
  <2>2. /\ Filed(byQuorum') /\ minable' \subseteq Commitment
        /\ \A d \in Commitment : Kept(byQuorum, d) => Kept(byQuorum', d)
    BY <1>0, <2>1, Added, Zenon
  <2> QED  BY <2>1, <2>2, PoolStep, Zenon
<1>7. ASSUME NEW c \in Commitment, FinalizeCommitment(c) PROVE IInv'
  <2>1. /\ AddMinableCommitment(c)
        /\ UNCHANGED <<chain, mined, byHeight, tx, cache, quorums, incoming>>
    BY <1>7, Zenon DEF FinalizeCommitment, lookups
  <2>2. /\ Filed(byQuorum') /\ minable' \subseteq Commitment
        /\ \A d \in Commitment : Kept(byQuorum, d) => Kept(byQuorum', d)
    BY <1>0, <2>1, Added, Zenon
  <2> QED  BY <1>0, <2>1, <2>2, PoolStep, Zenon
<1>8. ASSUME NEW c \in Commitment, ReceiveCommitment(c) PROVE IInv'
  <2>1. /\ incoming' \in Commitment \cup {NoQc}
        /\ UNCHANGED <<chain, mined, byHeight, tx, cache, quorums, byQuorum, minable>>
    BY <1>8, Zenon DEF ReceiveCommitment, lookups
  <2> QED  BY <1>0, <2>1, PoolStep, SMTT(30)
<1>9. CASE UNCHANGED vars
  <2>1. UNCHANGED <<chain, mined, byHeight, tx, cache, quorums, byQuorum, minable, incoming>>
    BY <1>9, Zenon DEF vars, pool, lookups
  <2> QED  BY <1>0, <2>1, PoolStep, Zenon
<1> QED
  BY <1>1, <1>2, <1>3, <1>4, <1>5, <1>6, <1>7, <1>8, <1>9, Zenon DEF Next, Blocks, Pool, AnyQc

-----------------------------------------------------------------------------
(* The theorems.                                                           *)

\* IInv is an invariant of CQuorumBlockProcessor and the blocks it is driven by.
LEMMA Invariant == Spec => []IInv
BY InitIInv, NextIInv, PTL DEF Spec

\* The chain, the records, the cache and the pool stay well formed.
THEOREM TypeCorrect == Spec => []TypeOK
<1>1. IInv => TypeOK
  <2> SUFFICES ASSUME IInv PROVE TypeOK
    BY Zenon
  <2>1. ChainOK(chain) /\ TypesOK  BY SMTT(30) DEF IInv
  <2>2. /\ Len(chain) \in 1..(MaxHeight + 1) /\ DOMAIN chain = 1..Len(chain)
        /\ \A i \in 1..Len(chain) :
             chain[i].hash \in IF (i - 1) % DkgInterval = 0 THEN Hash ELSE {NoHash}
    BY <2>1, ChainFacts, Zenon DEF ChainOK
  <2>3. ASSUME NEW i \in 1..Len(chain)
        PROVE  chain[i].qc \in Commitment \cup NullCommitment \cup {NoQc}
    <3>1. chain \in Seq(Block)  BY <2>1, Zenon DEF ChainOK
    <3>2. chain[i] \in Block  BY <3>1
    <3> QED  BY <3>2, Zenon DEF Block, AnyQc
  <2>4. \A m : Filed(m) => \A q \in Hash : m[q] \in {c \in Commitment : c.q = q} \cup {NoQc}
    BY Zenon DEF Filed
  <2>5. /\ Filed(mined) /\ Filed(byQuorum) /\ Filed(quorums) /\ Heights(byHeight)
        /\ cache \in [Hash -> BOOLEAN \cup {Unset}]
        /\ minable \subseteq Commitment /\ incoming \in Commitment \cup {NoQc}
    BY <2>1, Zenon DEF TypesOK
  <2>6. tx.op \in {"none", "connect", "test", "disconnect"}
    <3>1. tx = NoTx \/ Connecting \/ Disconnecting  BY SMTT(30) DEF IInv
    <3> QED  BY <3>1 DEF NoTx, Connecting, Disconnecting
  <2> QED  BY <2>2, <2>3, <2>4, <2>5, <2>6, Zenon DEF TypeOK, Heights
<1> QED  BY <1>1, Invariant, PTL

\* The cache of HasMinedCommitment never contradicts the database, whatever is
\* connected, undone, rolled back or only tested.
THEOREM CacheNeverContradicts == Spec => []CacheAgrees
<1>1. IInv => CacheAgrees  BY SMTT(30) DEF IInv, CacheOf, CacheAgrees
<1> QED  BY <1>1, Invariant, PTL

\* Between blocks the two database records are a function of the active chain.
THEOREM RecordsFollowChain == Spec => []MinedMatchesChain
<1>1. IInv => MinedMatchesChain
  <2> SUFFICES ASSUME IInv, tx = NoTx
      PROVE /\ \A q \in Hash :
                 IF OnChain(q) = {} THEN mined[q] = NoQc
                 ELSE \E h \in OnChain(q) : mined[q] = chain[h + 1].qc
            /\ \A h \in 0..Height :
                 byHeight[h] = IF Stores(chain[h + 1].qc) THEN QuorumHeight(h) ELSE -1
            /\ \A h \in (Height + 1)..MaxHeight : byHeight[h] = -1
    BY Zenon DEF MinedMatchesChain
  <2>1. DbOf(mined, byHeight, chain) /\ Filed(mined) /\ ChainOK(chain)  BY Zenon DEF IInv, TypesOK
  <2>2. Height = Len(chain) - 1 /\ Height + 1 = Len(chain)  BY <2>1, ChainFacts DEF Height
  <2>3. ASSUME NEW q \in Hash, mined[q] # NoQc PROVE \E h \in OnChain(q) : mined[q] = chain[h + 1].qc
    <3>1. PICK h \in 0..Height : Stores(chain[h + 1].qc) /\ chain[h + 1].qc = mined[q]
      BY <2>1, <2>2, <2>3, Zenon DEF DbOf
    <3>2. chain[h + 1].qc.q = q  BY <2>1, <2>3, <3>1, SMTT(30) DEF Filed
    <3> QED  BY <3>1, <3>2, SMTT(30) DEF OnChain
  <2>4. ASSUME NEW q \in Hash, NEW h \in OnChain(q) PROVE mined[q] = chain[h + 1].qc
    BY <2>1, <2>2, SMTT(30) DEF OnChain, DbOf
  <2>5. \A h \in 0..Height : byHeight[h] = IF Stores(chain[h + 1].qc) THEN QuorumHeight(h) ELSE -1
    BY <2>1, <2>2, SMTT(30) DEF DbOf
  <2>6. \A h \in (Height + 1)..MaxHeight : byHeight[h] = -1  BY <2>1, <2>2, SMTT(30) DEF DbOf
  <2> QED  BY <2>3, <2>4, <2>5, <2>6, Zenon
<1> QED  BY <1>1, Invariant, PTL

\* From the enforcement height on every block of the mining phase has a commitment
\* until the first non-null one; no other block of the chain ever has one, and it is
\* for the quorum of its interval.
THEOREM OneCommitmentPerSession == Spec => []CommitmentUntilFirst
<1>1. IInv => CommitmentUntilFirst
  <2> SUFFICES ASSUME IInv, NEW h \in 0..Height
      PROVE LET due == /\ h % DkgInterval \in WindowStart..WindowEnd
                       /\ ~\E k \in QuorumHeight(h)..(h - 1) : Stores(chain[k + 1].qc)
            IN  /\ chain[h + 1].qc # NoQc =>
                     due /\ chain[h + 1].qc.q = chain[QuorumHeight(h) + 1].hash
                /\ due /\ Enforced(h) => chain[h + 1].qc # NoQc
    BY Zenon DEF CommitmentUntilFirst, QuorumHeight
  <2>1. ChainOK(chain)  BY Zenon DEF IInv
  <2>2. h \in 0..(Len(chain) - 1) /\ h \in Nat  BY <2>1, ChainFacts, Zenon DEF Height
  <2> DEFINE r == h % DkgInterval
  <2>3. r \in Int
    <3>1. r \in 0..(DkgInterval - 1)  BY <2>2, QuorumHeightFacts, Zenon
    <3> QED  BY <3>1, ParamsAssumption
  <2>4. IsMiningPhase(h) <=> r >= WindowStart /\ r <= WindowEnd  BY Zenon DEF IsMiningPhase
  <2> HIDE DEF r
  <2>5. IsMiningPhase(h) <=> r \in WindowStart..WindowEnd  BY <2>3, <2>4, ParamsAssumption
  <2>6. IsMiningPhase(h) <=> h % DkgInterval \in WindowStart..WindowEnd  BY <2>5, Zenon DEF r
  <2> QED  BY <2>1, <2>2, <2>6, Zenon DEF ChainOK, Committed, Due
<1> QED  BY <1>1, Invariant, PTL

\* A block is taken off the chain with its commitment already back in the pool.
UndoneStep ==
  Len(chain') < Len(chain) /\ Stores(chain[Len(chain)].qc) =>
    LET c == chain[Len(chain)].qc
    IN  byQuorum'[c.q] # NoQc /\ byQuorum'[c.q].signers >= c.signers

\* A commitment that a reorganisation undoes can be mined again.
THEOREM UndoneCommitmentsReturn == Spec => UndoneIsMinable
<1>1. ASSUME IInv, [Next]_vars, Len(chain') < Len(chain), Stores(chain[Len(chain)].qc)
      PROVE  Kept(byQuorum', chain[Len(chain)].qc)
  <2>1. /\ ChainOK(chain) /\ chain \in Seq(Block) /\ Len(chain) \in Nat
        /\ Len(chain) = Height + 1
    BY <1>1, TipFacts, ChainFacts, Zenon DEF IInv, ChainOK
  <2>2. chain' # chain  BY <1>1, <2>1
  <2>3. ~CommitConnect
    <3> SUFFICES ASSUME CommitConnect PROVE FALSE
      BY Zenon
    <3>1. chain' = Append(chain, tx.block)  BY Zenon DEF CommitConnect
    <3>2. Len(chain') = Len(chain) + 1  BY <2>1, <3>1, SMTT(30)
    <3> QED  BY <1>1, <2>1, <3>2
  <2>4. CommitDisconnect
    BY <1>1, <2>2, <2>3, Zenon
       DEF Next, Blocks, Pool, vars, BeginConnect, CreateNewBlock, BeginDisconnect, Rollback,
           AddReceived, FinalizeCommitment, ReceiveCommitment, Restart
  <2>5. tx.op = "disconnect" /\ UNCHANGED byQuorum  BY <2>4, Zenon DEF CommitDisconnect, pool
  <2>6. Disconnecting  BY <1>1, <2>5 DEF IInv, NoTx, Connecting
  <2> QED  BY <1>1, <2>1, <2>5, <2>6, SMTT(30) DEF Disconnecting
<1>2. IInv /\ [Next]_vars => [UndoneStep]_vars  BY <1>1, Zenon DEF UndoneStep, Kept
<1>3. Spec => [][UndoneStep]_vars  BY <1>2, Invariant, PTL DEF Spec
<1> QED  BY <1>3, Zenon DEF UndoneIsMinable, UndoneStep

\* The pool's index never dangles: the at() of GetMinableCommitment and of
\* AddMinableCommitment finds every commitment the index names.
THEOREM IndexNeverDangles == Spec => []IndexedIsStored
<1>1. Init => IndexedIsStored  BY Zenon DEF Init, IndexedIsStored
<1>2. ASSUME IInv, IndexedIsStored, [Next]_vars PROVE IndexedIsStored'
  <2>1. byQuorum \in [Hash -> Commitment \cup {NoQc}]  BY <1>2, Zenon DEF IInv, TypesOK, Filed
  <2>2. ASSUME NEW c, AddMinableCommitment(c) PROVE IndexedIsStored'
    BY <1>2, <2>1, <2>2, Zenon DEF AddMinableCommitment, IndexedIsStored
  <2>3. CASE UNCHANGED <<byQuorum, minable>>  BY <1>2, <2>3, Zenon DEF IndexedIsStored
  <2>4. CASE Restart  BY <2>4, Zenon DEF Restart, IndexedIsStored
  <2>5. CASE Pool
    BY <2>2, <2>3, <2>5, Zenon DEF Pool, AddReceived, FinalizeCommitment, ReceiveCommitment
  <2>6. CASE BeginDisconnect
    BY <2>2, <2>3, <2>6, Zenon DEF BeginDisconnect, pool
  <2>7. ASSUME NEW hash, NEW c, BeginConnect(hash, c) PROVE UNCHANGED <<byQuorum, minable>>
    BY <2>7, Zenon DEF BeginConnect, pool
  <2>8. CASE CreateNewBlock \/ CommitConnect \/ CommitDisconnect \/ Rollback \/ UNCHANGED vars
    <3>1. UNCHANGED <<byQuorum, minable>>
      BY <2>8, Zenon DEF CreateNewBlock, CommitConnect, CommitDisconnect, Rollback, vars, pool
    <3> QED  BY <2>3, <3>1, Zenon
  <2> QED  BY <1>2, <2>3, <2>4, <2>5, <2>6, <2>7, <2>8, Zenon DEF Next, Blocks
<1> QED  BY <1>1, <1>2, Invariant, PTL DEF Spec

=============================================================================
