-------------------------- MODULE ChainLocksProofs --------------------------
(***************************************************************************)
(* Proofs about ChainLocks: the enforced lock is the best lock whenever    *)
(* its block is known, no locked block is replaced, and, with a single     *)
(* lock, no failed block is part of the active chain.                      *)
(***************************************************************************)
EXTENDS ChainLocks, TLAPS

-----------------------------------------------------------------------------
(* The tree of blocks.                                                     *)

\* A set that holds b and the parent of each of its blocks holds Path[b].
LEMMA PathLeast ==
  ASSUME NEW b \in Block, NEW S \in SUBSET Block, b \in S,
         \A y \in S \ {Genesis} : Parent[y] \in S
  PROVE  Path[b] \subseteq S
  BY Zenon DEF Path

\* A path starts at its block and follows pprev.
LEMMA PathClosed ==
  ASSUME NEW b \in Block
  PROVE  /\ Path[b] \subseteq Block /\ b \in Path[b] /\ Genesis \in Path[b]
         /\ \A x \in Path[b] \ {Genesis} : Parent[x] \in Path[b]
<1>1. Path[b] = {x \in Block : \A S \in SUBSET Block :
                   (b \in S /\ \A y \in S \ {Genesis} : Parent[y] \in S) => x \in S}
  BY Zenon DEF Path
<1>2. ASSUME NEW x \in Path[b] \ {Genesis} PROVE Parent[x] \in Path[b]
  <2>1. Parent[x] \in Block
    BY <1>1, TreeAssumption, Zenon
  <2>2. ASSUME NEW S \in SUBSET Block, b \in S, \A y \in S \ {Genesis} : Parent[y] \in S
        PROVE  Parent[x] \in S
    BY <1>1, <2>2, Zenon
  <2> QED
    BY <1>1, <2>1, <2>2, Zenon
<1> QED
  BY <1>1, <1>2, RootAssumption, Zenon

\* The ancestors of an ancestor are ancestors.
LEMMA PathTransitive ==
  ASSUME NEW b \in Block, NEW x \in Path[b]
  PROVE  x \in Block /\ Path[x] \subseteq Path[b]
  BY PathClosed, PathLeast, Zenon

\* The path of a block is that of its parent and the block.
LEMMA PathStep ==
  ASSUME NEW b \in Block
  PROVE  Path[b] = IF b = Genesis THEN {Genesis} ELSE Path[Parent[b]] \cup {b}
<1>1. CASE b = Genesis
  <2>1. Path[b] \subseteq {Genesis}
    BY <1>1, PathLeast, Zenon
  <2> QED
    BY <1>1, <2>1, PathClosed
<1>2. CASE b # Genesis
  <2>1. Parent[b] \in Block /\ Parent[b] \in Path[b]
    BY <1>2, TreeAssumption, PathClosed, Zenon
  <2>2. Path[Parent[b]] \cup {b} \subseteq Path[b]
    BY <2>1, PathClosed, PathTransitive, Zenon
  <2> DEFINE S == Path[Parent[b]] \cup {b}
  <2>3. S \in SUBSET Block /\ b \in S /\ \A y \in S \ {Genesis} : Parent[y] \in S
    BY <2>1, PathClosed, Zenon
  <2>4. Path[b] \subseteq S
    BY <2>3, PathLeast, ZenonT(60)
  <2> QED
    BY <1>2, <2>2, <2>4, Zenon
<1> QED
  BY <1>1, <1>2, Zenon

\* Two ancestors of a block lie on one line.
LEMMA PathLinear ==
  ASSUME NEW b \in Block, NEW x \in Path[b], NEW y \in Path[b]
  PROVE  x \in Path[y] \/ y \in Path[x]
<1> DEFINE S == {z \in Path[b] : x \in Path[z] \/ z \in Path[x]}
<1>1. x \in Block /\ S \subseteq Block
  BY PathClosed, Zenon
<1>2. b \in S
  BY PathClosed, Zenon
<1>3. ASSUME NEW z \in S \ {Genesis} PROVE Parent[z] \in S
  <2>1. z \in Block /\ Parent[z] \in Block /\ Parent[z] \in Path[b]
    BY <1>1, PathClosed, TreeAssumption, Zenon
  <2>2. Path[z] = Path[Parent[z]] \cup {z}
    BY <2>1, PathStep, Zenon
  <2>3. CASE x \in Path[z] /\ x # z
    BY <2>1, <2>2, <2>3, Zenon
  <2>4. CASE z \in Path[x]
    BY <1>1, <2>1, <2>4, PathClosed, Zenon
  <2>5. x = z => z \in Path[x]
    BY <2>1, PathClosed, Zenon
  <2> QED
    BY <2>3, <2>4, <2>5, Zenon
<1>4. Path[b] \subseteq S
  BY <1>1, <1>2, <1>3, PathLeast, Zenon
<1> QED
  BY <1>4, Zenon

\* nHeight counts from the genesis block.
LEMMA HeightStep ==
  ASSUME NEW b \in Block
  PROVE  /\ Height[b] \in Nat
         /\ Height[Genesis] = 0
         /\ b # Genesis => Parent[b] \in Block /\ Height[b] = Height[Parent[b]] + 1
  BY TreeAssumption, RootAssumption, Zenon

\* A proper ancestor is lower.
LEMMA AncestorLower ==
  ASSUME NEW b \in Block, NEW x \in Path[b]
  PROVE  /\ x \in Block /\ Height[x] \in Nat /\ Height[b] \in Nat
         /\ Height[x] <= Height[b]
         /\ x # b => Height[x] < Height[b]
<1> DEFINE S == {y \in Block : y = b \/ Height[y] < Height[b]}
<1>1. ASSUME NEW y \in S \ {Genesis} PROVE Parent[y] \in S
  <2>1. /\ Parent[y] \in Block /\ Height[y] = Height[Parent[y]] + 1
        /\ Height[Parent[y]] \in Nat /\ Height[y] \in Nat /\ Height[b] \in Nat
    BY HeightStep, Zenon
  <2> QED
    BY <2>1
<1>2. Path[b] \subseteq S
  BY <1>1, PathLeast, Zenon
<1>3. x \in Block /\ Height[x] \in Nat /\ Height[b] \in Nat
  BY PathClosed, HeightStep, Zenon
<1> QED
  BY <1>2, <1>3

\* Two blocks that are ancestors of each other are the same.
LEMMA PathAntisymmetric ==
  ASSUME NEW b \in Block, NEW x \in Path[b], b \in Path[x]
  PROVE  x = b
<1>1. x \in Block
  BY PathClosed, Zenon
<1> QED
  BY <1>1, AncestorLower

\* A block is not below its parent.
LEMMA ParentNotAbove ==
  ASSUME NEW b \in Block, b # Genesis
  PROVE  b \notin Path[Parent[b]]
  BY HeightStep, AncestorLower

\* A path has at most one block at a height.
LEMMA OnePerHeight ==
  ASSUME NEW b \in Block, NEW x \in Path[b], NEW y \in Path[b], Height[x] = Height[y]
  PROVE  x = y
<1>1. x \in Block /\ y \in Block
  BY PathClosed, Zenon
<1>2. x \in Path[y] \/ y \in Path[x]
  BY PathLinear, Zenon
<1> QED
  BY <1>1, <1>2, AncestorLower

\* A path has a block at every height up to its own.
LEMMA EveryHeight ==
  ASSUME NEW b \in Block, NEW h \in Nat, h <= Height[b]
  PROVE  \E x \in Path[b] : Height[x] = h
<1> SUFFICES ASSUME \A x \in Path[b] : Height[x] # h PROVE FALSE
  BY Zenon
<1> DEFINE S == {x \in Path[b] : Height[x] > h}
<1>1. b \in S
  BY PathClosed, HeightStep
<1>2. ASSUME NEW x \in S \ {Genesis} PROVE Parent[x] \in S
  <2>1. x \in Block /\ Parent[x] \in Path[b]
    BY PathClosed, Zenon
  <2>2. Height[x] = Height[Parent[x]] + 1 /\ Parent[x] \in Block
    BY <2>1, HeightStep, Zenon
  <2>3. Height[Parent[x]] \in Nat /\ Height[Parent[x]] # h
    BY <2>1, <2>2, HeightStep, Zenon
  <2> QED
    BY <2>1, <2>2, <2>3
<1>3. Path[b] \subseteq S
  BY <1>1, <1>2, PathLeast, PathClosed, Zenon
<1>4. Height[Genesis] > h
  BY <1>3, PathClosed, Zenon
<1> QED
  BY <1>4, HeightStep

\* GetAncestor finds the block of the path at a height.
LEMMA AncestorAt ==
  ASSUME NEW b \in Block
  PROVE  /\ \A h \in Nat : h <= Height[b] =>
              GetAncestor(b, h) \in Path[b] /\ Height[GetAncestor(b, h)] = h
         /\ \A x \in Path[b] : GetAncestor(b, Height[x]) = x
<1>1. ASSUME NEW h \in Nat, h <= Height[b]
      PROVE  GetAncestor(b, h) \in Path[b] /\ Height[GetAncestor(b, h)] = h
  <2>1. \E x \in Path[b] : Height[x] = h
    BY <1>1, EveryHeight, Zenon
  <2> QED
    BY <2>1, Zenon DEF GetAncestor
<1>2. ASSUME NEW x \in Path[b] PROVE GetAncestor(b, Height[x]) = x
  <2>1. Height[x] \in Nat /\ Height[x] <= Height[b]
    BY AncestorLower, Zenon
  <2>2. GetAncestor(b, Height[x]) \in Path[b] /\ Height[GetAncestor(b, Height[x])] = Height[x]
    BY <1>1, <2>1, Zenon
  <2> QED
    BY <2>2, OnePerHeight, Zenon
<1> QED
  BY <1>1, <1>2, Zenon

\* Some block of a part of a path is the highest.
LEMMA Highest ==
  ASSUME NEW b \in Block, NEW S, S \subseteq Path[b], S # {}
  PROVE  \E x \in S : S \subseteq Path[x] /\ \A y \in S : Height[y] <= Height[x]
<1>1. SUFFICES \E x \in S : S \subseteq Path[x]
  BY AncestorLower, PathClosed, Zenon
<1>2. SUFFICES ASSUME \A x \in S : ~(S \subseteq Path[x]) PROVE FALSE
  BY Zenon
<1> DEFINE T == {z \in Path[b] : S \subseteq Path[z]}
<1>3. b \in T /\ T \subseteq Block
  BY PathClosed, Zenon
<1>4. ASSUME NEW z \in T \ {Genesis} PROVE Parent[z] \in T
  <2>1. z \in Block /\ z \notin S
    BY <1>2, <1>3, Zenon
  <2>2. Path[z] = Path[Parent[z]] \cup {z}
    BY <2>1, PathStep, Zenon
  <2> QED
    BY <1>3, <2>1, <2>2, PathClosed, Zenon
<1>5. Path[b] \subseteq T
  BY <1>3, <1>4, PathLeast, Zenon
<1> QED
  BY <1>2, <1>5, Zenon

\* Heights are natural numbers.
LEMMA HeightIn ==
  /\ Heights \subseteq Nat
  /\ \A b \in Block : Height[b] \in Heights
  BY HeightStep, Zenon DEF Heights

-----------------------------------------------------------------------------
(* The invariant.                                                          *)

\* The parts of TypeOK: the index, the chain, the locks, what was signed and
\* notified, and the threads.
IndexType ==
  /\ known \subseteq Block /\ conflictFlag \subseteq known /\ failed \subseteq known
  /\ arrived \in [Heights -> Seq(Block)] /\ incomplete \subseteq Incomplete
ChainType ==
  /\ tip \in data /\ mostWork \in data \cup {NoBlock} /\ candidates \subseteq data \ failed
  /\ activator \in {"none", "blk", "sched"}
LocksType ==
  /\ best \in CLSig \cup {NoSig} /\ bestIndex \in known \cup {NoBlock} /\ seen \subseteq CLSig
  /\ isEnforced \in BOOLEAN /\ isSporkActive \in BOOLEAN /\ spork \in BOOLEAN
VotesType ==
  /\ lastNotify \in known \cup {NoBlock}
  /\ lastSigned \in [nHeight : Heights, block : data] \cup {NoSig}
  /\ voted \in [Heights -> data \cup {NoBlock}]
ProcType == proc \in [{"net", "sig"} -> [pc : {"idle", "verify", "apply"}, sig : CLSig \cup {NoSig}]]
SchedType ==
  /\ blk \in {"idle", "activate"}
  /\ sched \in [pc : {"idle", "enforce", "invalidate", "activate", "notify", "sign",
                      "signcheck", "signcommit"}, cur : data \cup known \cup {NoBlock}]

\* Blocks are stored once and after their parent.
StoredInOrder ==
  /\ \A h \in Heights : \A i \in DOMAIN arrived[h] :
       /\ arrived[h][i] \in known
       /\ \A j \in DOMAIN arrived[h] : arrived[h][i] = arrived[h][j] => i = j
  /\ \A b \in data \ {Genesis} : Parent[b] \in data

\* cs_activateBestChain is held inside ActivateBestChain only, and so is a
\* cached pindexMostWork.
ActivatorOK ==
  /\ activator = "blk" => blk = "activate"
  /\ activator = "sched" => sched.pc = "activate"
  /\ mostWork # NoBlock => activator # "none"

\* The threads that work on a lock or on a locked block have one.
ThreadsOK ==
  /\ \A t \in {"net", "sig"} : proc[t].pc # "idle" => proc[t].sig \in CLSig
  /\ sched.pc \in {"invalidate", "activate", "notify"} => sched.cur \in known
  /\ sched.pc \in {"signcheck", "signcommit"} => sched.cur \in data

\* The enforced block never conflicts with the best lock, so the header of the
\* locked block is not refused when it comes in.
BestLockAgrees == best # NoSig => ~HasConflictingChainLock(best.nHeight, best.block)

\* What is enforced was locked.
IndexIsLocked == bestIndex # NoBlock => \E c \in CLSig : bestIndex = c.block

IInv ==
  /\ TypeOK /\ StoredInOrder /\ ActivatorOK /\ ThreadsOK
  /\ BestLockIsLinked /\ BestLockAgrees /\ IndexIsLocked

\* At most one block is ever locked.
OneLock == \A c, d \in CLSig : c = d

\* With one lock, EnforceBestChainLock works on the block that is enforced ...
EnforcesBest == sched.pc = "invalidate" => isEnforced /\ bestIndex = sched.cur

\* ... and when it invalidates a block on the way to the cached pindexMostWork of
\* the other thread, then that block or one below it conflicts with the lock, so
\* that ConnectBlock will refuse it.
CachedRefused ==
  mostWork # NoBlock /\ OffChain(mostWork) \cap failed # {} =>
    /\ activator = "blk" /\ sched.pc = "activate"
    /\ \A x \in OffChain(mostWork) \cap failed :
         \E z \in OffChain(mostWork) \cap Path[x] : HasConflictingChainLock(Height[z], z)

OneLockInv == ActiveChainNotFailed /\ EnforcesBest /\ CachedRefused

-----------------------------------------------------------------------------
(* What the helpers of the model compute.                                  *)

\* A block is stored with all its ancestors.
LEMMA StoredPaths ==
  ASSUME TypeOK, StoredInOrder
  PROVE  /\ data \subseteq known /\ data \subseteq Block /\ Genesis \in data
         /\ \A b \in data : Path[b] \subseteq data
<1>1. data \subseteq known /\ data \subseteq Block
  BY Zenon DEF data, TypeOK
<1>2. ASSUME NEW b \in data PROVE Path[b] \subseteq data
  BY <1>1, PathLeast, Zenon DEF StoredInOrder
<1>3. Genesis \in data
  BY <1>1, <1>2, PathClosed, Zenon DEF TypeOK
<1> QED
  BY <1>1, <1>2, <1>3, Zenon

\* FindMostWorkChain returns a stored block, and nothing between it and the
\* active chain is marked failed.
LEMMA MostWorkUsable ==
  ASSUME candidates \subseteq data \ failed, FindMostWorkChain # NoBlock
  PROVE  /\ FindMostWorkChain \in data \ failed
         /\ OffChain(FindMostWorkChain) \cap failed = {}
<1> DEFINE usable == {b \in candidates : ~Unusable(b)}
           last == {b \in usable : \A c \in usable \ {b} : Better(b, c)}
<1>1. FindMostWorkChain = IF last = {} THEN NoBlock ELSE CHOOSE b \in last : TRUE
  BY Zenon DEF FindMostWorkChain
<1>2. last \subseteq usable
  BY Zenon
<1> HIDE DEF last
<1>3. FindMostWorkChain \in usable
  BY <1>1, <1>2, Zenon
<1> QED
  BY <1>3, Zenon DEF Unusable

\* A step of ActivateBestChain ends on the way to mw, not below the fork, and
\* everything it connected passed ConnectBlock.
LEMMA StepEnds ==
  ASSUME NEW mw \in Block, tip \in Block
  PROVE  /\ StepTip(mw) \in Path[mw] /\ StepTip(mw) \in Block
         /\ Path[mw] \cap Path[tip] \subseteq Path[StepTip(mw)]
         /\ \A z \in Path[StepTip(mw)] : z \in Path[tip] \/ ~ConnectFails(z)
<1> DEFINE reached == (Path[mw] \cap Path[tip]) \cup StepConnected(mw)
           new == StepTip(mw)
<1>1. StepConnected(mw) \subseteq StepToConnect(mw) /\ StepToConnect(mw) \subseteq Path[mw]
  BY Zenon DEF StepConnected, StepToConnect
<1>2. reached \subseteq Path[mw] /\ reached # {}
  BY <1>1, PathClosed, Zenon
<1>3. PICK top \in reached : reached \subseteq Path[top] /\ \A y \in reached : Height[y] <= Height[top]
  <2> HIDE DEF reached
  <2> QED
    BY <1>2, Highest
<1>4. new \in reached /\ \A x \in reached : Height[x] <= Height[new]
  BY <1>3, Zenon DEF StepTip
<1>5. new = top
  <2> HIDE DEF reached, new
  <2>1. Height[new] <= Height[top] /\ Height[top] <= Height[new]
    BY <1>3, <1>4, Zenon
  <2>2. Height[new] \in Nat /\ Height[top] \in Nat
    BY <1>2, <1>3, <1>4, AncestorLower, Zenon
  <2> QED
    BY <1>2, <1>3, <1>4, <2>1, <2>2, OnePerHeight
<1>6. new \in Path[mw] /\ new \in Block /\ reached \subseteq Path[new]
  BY <1>2, <1>3, <1>4, <1>5, PathClosed, Zenon
<1>7. ASSUME NEW z \in Path[new], z \notin Path[tip] PROVE ~ConnectFails(z)
  <2>1. new \in StepConnected(mw)
    BY <1>4, <1>7, PathTransitive, Zenon
  <2>2. z \in Path[mw] /\ z \in Block
    BY <1>6, PathTransitive, Zenon
  <2>3. Height[z] <= Height[new] /\ Height[z] \in Nat /\ Height[new] \in Nat
    BY <1>6, AncestorLower, Zenon
  <2>4. Height[new] <= Height[tip] + 1 /\ Height[tip] \in Nat
    BY <1>1, <2>1, HeightStep, Zenon DEF StepToConnect
  <2>5. z \in StepToConnect(mw)
    BY <1>7, <2>2, <2>3, <2>4 DEF StepToConnect
  <2> QED
    BY <1>7, <2>1, <2>5, Zenon DEF StepConnected
<1> QED
  BY <1>6, <1>7, Zenon

\* The fork lies on both chains, above every other common block.
LEMMA ForkEnds ==
  ASSUME NEW b \in Block, tip \in Block
  PROVE  /\ Fork(b) \in Path[b] /\ Fork(b) \in Path[tip] /\ Fork(b) \in Block
         /\ Path[b] \cap Path[tip] \subseteq Path[Fork(b)]
<1> DEFINE common == Path[b] \cap Path[tip]
<1>1. common \subseteq Path[b] /\ common # {}
  BY PathClosed, Zenon
<1>2. PICK top \in common : common \subseteq Path[top] /\ \A y \in common : Height[y] <= Height[top]
  <2> HIDE DEF common
  <2> QED
    BY <1>1, Highest
<1>3. Fork(b) \in common /\ \A x \in common : Height[x] <= Height[Fork(b)]
  BY <1>2, Zenon DEF Fork
<1>4. Fork(b) = top
  <2> HIDE DEF common
  <2>1. Height[Fork(b)] <= Height[top] /\ Height[top] <= Height[Fork(b)]
    BY <1>2, <1>3, Zenon
  <2>2. Height[Fork(b)] \in Nat /\ Height[top] \in Nat
    BY <1>1, <1>2, <1>3, AncestorLower, Zenon
  <2> QED
    BY <1>1, <1>2, <1>3, <2>1, <2>2, OnePerHeight
<1> QED
  BY <1>2, <1>3, <1>4, PathClosed, Zenon

\* A sibling that EnforceBestChainLock invalidates is not an ancestor of the
\* locked block: it takes another block's place next to it.
LEMMA SiblingsConflict ==
  ASSUME NEW b \in Block, tip \in Block, known \subseteq Block, NEW x \in Siblings(b)
  PROVE  /\ x \in Block /\ Height[x] \in Nat /\ Height[x] <= Height[b]
         /\ GetAncestor(b, Height[x]) # x /\ x \notin Path[b]
         /\ b \notin Path[tip]
<1>1. PICK y \in OffChain(b) : x # y /\ Parent[x] = Parent[y]
  BY Zenon DEF Siblings
<1>2. x \in Block \ {Genesis}
  BY Zenon DEF Siblings
<1>3. y \in Path[b] /\ y \notin Path[tip] /\ y \in Block
  BY <1>1, PathClosed, Zenon DEF OffChain
<1>4. Height[x] \in Nat /\ Height[x] = Height[Parent[x]] + 1
  BY <1>2, HeightStep, Zenon
<1>5. y # Genesis /\ Height[y] = Height[Parent[y]] + 1
  BY <1>3, HeightStep, PathClosed, Zenon
<1>6. Height[x] = Height[y] /\ Height[x] <= Height[b]
  BY <1>1, <1>3, <1>4, <1>5, AncestorLower, Zenon
<1>7. GetAncestor(b, Height[x]) = y
  BY <1>3, <1>6, AncestorAt, Zenon
<1>8. x \notin Path[b]
  BY <1>1, <1>3, <1>6, OnePerHeight, Zenon
<1>9. b \notin Path[tip]
  BY <1>3, PathTransitive, Zenon
<1> QED
  BY <1>1, <1>2, <1>4, <1>6, <1>7, <1>8, <1>9, Zenon

-----------------------------------------------------------------------------
(* Every step keeps the invariant.                                         *)

\* TypeOK is its parts.
LEMMA TypeParts ==
  TypeOK <=> IndexType /\ ChainType /\ LocksType /\ VotesType /\ ProcType /\ SchedType
  BY Zenon DEF TypeOK, IndexType, ChainType, LocksType, VotesType, ProcType, SchedType

\* So it is in the next state.
LEMMA TypeWhole ==
  ASSUME IndexType', ChainType', LocksType', VotesType', ProcType', SchedType'
  PROVE  TypeOK'
  BY Zenon DEF TypeOK, IndexType, ChainType, LocksType, VotesType, ProcType, SchedType

\* A part whose variables a step leaves alone stays well formed.
LEMMA TypesKept ==
  ASSUME TypeOK, data' = data, known' = known
  PROVE  /\ UNCHANGED <<conflictFlag, failed, arrived>> /\ incomplete' \subseteq incomplete
              => IndexType'
         /\ UNCHANGED <<failed, tip, candidates, activator, mostWork>> => ChainType'
         /\ UNCHANGED <<best, bestIndex, isEnforced, isSporkActive>>
              /\ seen' \subseteq CLSig /\ spork' \in BOOLEAN => LocksType'
         /\ UNCHANGED <<lastNotify, lastSigned, voted>> => VotesType'
         /\ UNCHANGED proc => ProcType'
         /\ UNCHANGED <<blk, sched>> => SchedType'
<1>0. IndexType /\ ChainType /\ LocksType /\ VotesType /\ ProcType /\ SchedType
  BY TypeParts, Zenon
<1>1. UNCHANGED <<conflictFlag, failed, arrived>> /\ incomplete' \subseteq incomplete => IndexType'
  BY <1>0, Zenon DEF IndexType
<1>2. UNCHANGED <<failed, tip, candidates, activator, mostWork>> => ChainType'
  BY <1>0, Zenon DEF ChainType
<1>3. UNCHANGED <<best, bestIndex, isEnforced, isSporkActive>>
        /\ seen' \subseteq CLSig /\ spork' \in BOOLEAN => LocksType'
  BY <1>0, Zenon DEF LocksType
<1>4. UNCHANGED <<lastNotify, lastSigned, voted>> => VotesType'
  BY <1>0, Zenon DEF VotesType
<1>5. UNCHANGED proc => ProcType'
  BY <1>0, Zenon DEF ProcType
<1>6. UNCHANGED <<blk, sched>> => SchedType'
  BY <1>0, Zenon DEF SchedType
<1> QED
  BY <1>1, <1>2, <1>3, <1>4, <1>5, <1>6, Zenon

\* Steps that store no block.
LEMMA IndexKept ==
  ASSUME IInv, UNCHANGED <<known, arrived>>
  PROVE  data' = data /\ StoredInOrder'
<1>1. data' = data
  BY Zenon DEF data
<1> QED
  BY <1>1, Zenon DEF IInv, StoredInOrder

\* Steps that leave the locks alone.
LEMMA LocksKept ==
  ASSUME IInv, UNCHANGED <<known, best, bestIndex, isEnforced>>
  PROVE  BestLockIsLinked' /\ BestLockAgrees' /\ IndexIsLocked'
  BY Zenon DEF IInv, BestLockIsLinked, BestLockAgrees, IndexIsLocked, HasConflictingChainLock, Covered

\* The best lock is linked to the block of this header.
LEMMA AcceptBlockHeaderIInv ==
  ASSUME IInv, NEW b \in Block \ {Genesis}, AcceptBlockHeader(b)
  PROVE  IInv'
<1>1. /\ b \notin known /\ known' = known \cup {b} /\ conflictFlag' \subseteq conflictFlag \cup {b}
      /\ UNCHANGED <<failed, arrived, incomplete, tip, candidates, activator, mostWork, best,
                     lastNotify, seen, isEnforced, isSporkActive, lastSigned, proc, blk, sched,
                     spork, voted>>
  BY Zenon DEF AcceptBlockHeader, chain, threads
<1>2. /\ HasConflictingChainLock(Height[b], b) => bestIndex' = bestIndex
      /\ ~HasConflictingChainLock(Height[b], b) =>
           bestIndex' = IF best = [nHeight |-> Height[b], block |-> b] THEN b ELSE bestIndex
  BY Zenon DEF AcceptBlockHeader
<1>3. Height[b] \in Heights
  BY HeightIn, Zenon
<1>4. data' = data
  <2>1. \A h \in Heights : \A i \in DOMAIN arrived[h] : arrived[h][i] \in known
    BY Zenon DEF IInv, StoredInOrder
  <2>2. \A i \in DOMAIN arrived[Height[b]] : arrived[Height[b]][i] # b
    BY <1>1, <1>3, <2>1, Zenon
  <2> QED
    BY <1>1, <2>2, Zenon DEF data
<1>5. TypeOK'
  <2>1. bestIndex' \in known' \cup {NoBlock}
    BY <1>1, <1>2, Zenon DEF IInv, TypeOK
  <2> QED
    BY <1>1, <1>4, <2>1 DEF IInv, TypeOK
<1>6. StoredInOrder'
  BY <1>1, <1>4, Zenon DEF IInv, StoredInOrder
<1>7. ActivatorOK' /\ ThreadsOK'
  BY <1>1, <1>4, Zenon DEF IInv, ActivatorOK, ThreadsOK
<1>8. ASSUME best = [nHeight |-> Height[b], block |-> b]
      PROVE  bestIndex' = b
  <2>1. best # NoSig /\ best.nHeight = Height[b] /\ best.block = b
    BY <1>3, <1>8, ChainLocksAssumption
  <2> QED
    BY <1>2, <1>8, <2>1, Zenon DEF IInv, BestLockAgrees
<1>9. ASSUME best # [nHeight |-> Height[b], block |-> b]
      PROVE  bestIndex' = bestIndex
  BY <1>2, <1>9, Zenon
<1>10. best # NoSig => best \in [nHeight : Heights, block : Block]
  BY ChainLocksAssumption, Zenon DEF IInv, TypeOK
<1>11. BestLockIsLinked'
  BY <1>1, <1>8, <1>9, <1>10 DEF IInv, BestLockIsLinked
<1>12. BestLockAgrees'
  <2>1. CASE best = [nHeight |-> Height[b], block |-> b]
    <3>1. GetAncestor(b, Height[b]) = b
      BY AncestorAt, PathClosed, Zenon
    <3>2. bestIndex' = b /\ best'.nHeight = Height[b] /\ best'.block = b
      BY <1>1, <1>8, <2>1, Zenon
    <3> QED
      BY <3>1, <3>2, Zenon DEF BestLockAgrees, HasConflictingChainLock, Covered
  <2>2. CASE best # [nHeight |-> Height[b], block |-> b]
    BY <1>1, <1>9, <2>2, Zenon DEF IInv, BestLockAgrees, HasConflictingChainLock, Covered
  <2> QED
    BY <2>1, <2>2, Zenon
<1>13. IndexIsLocked'
  <2>1. CASE best = [nHeight |-> Height[b], block |-> b]
    <3>1. best \in CLSig /\ best.block = b
      BY <1>3, <2>1, ChainLocksAssumption DEF IInv, TypeOK
    <3> QED
      BY <1>8, <2>1, <3>1, Zenon DEF IndexIsLocked
  <2>2. CASE best # [nHeight |-> Height[b], block |-> b]
    BY <1>9, <2>2, Zenon DEF IInv, IndexIsLocked
  <2> QED
    BY <2>1, <2>2
<1> QED
  BY <1>5, <1>6, <1>7, <1>11, <1>12, <1>13, Zenon DEF IInv

\* A block is stored.
LEMMA AcceptBlockIInv ==
  ASSUME IInv, NEW b \in known, AcceptBlock(b)
  PROVE  IInv' /\ data \subseteq data'
<1>1. /\ b # Genesis /\ Parent[b] \in data
      /\ arrived' = IF b \in data THEN arrived
                    ELSE [arrived EXCEPT ![Height[b]] = Append(@, b)]
      /\ candidates' \subseteq candidates \cup {b} /\ b \notin failed
      /\ blk = "idle" /\ blk' = "activate"
      /\ UNCHANGED <<known, conflictFlag, failed, incomplete, tip, activator, mostWork, best,
                     bestIndex, lastNotify, seen, isEnforced, isSporkActive, lastSigned, proc,
                     sched, spork, voted>>
  BY Zenon DEF AcceptBlock, ReceivedBlockTransactions, chain, locks
<1>2. b \in Block /\ Height[b] \in Heights
  BY HeightIn, Zenon DEF IInv, TypeOK
<1>3. BestLockIsLinked' /\ BestLockAgrees' /\ IndexIsLocked'
  BY <1>1, LocksKept, Zenon
<1>4. ActivatorOK'
  BY <1>1, Zenon DEF IInv, ActivatorOK
<1>5. /\ arrived' \in [Heights -> Seq(Block)]
      /\ data' = data \cup {b}
      /\ StoredInOrder'
  <2>1. CASE b \in data
    <3>1. known' = known /\ arrived' = arrived
      BY <1>1, <2>1, Zenon
    <3>2. data' = data /\ StoredInOrder'
      BY <3>1, IndexKept, Zenon
    <3>3. arrived \in [Heights -> Seq(Block)]
      BY Zenon DEF IInv, TypeOK
    <3> QED
      BY <2>1, <3>1, <3>2, <3>3, Zenon
  <2>2. CASE b \notin data
    <3> DEFINE h == Height[b]
               s == arrived[h]
               r == Append(s, b)
    <3>1. s \in Seq(Block) /\ arrived \in [Heights -> Seq(Block)]
      BY <1>2, Zenon DEF IInv, TypeOK
    <3>2. /\ r \in Seq(Block)
          /\ DOMAIN s = 1..Len(s) /\ DOMAIN r = 1..(Len(s) + 1) /\ Len(s) \in Nat
          /\ r[Len(s) + 1] = b /\ \A i \in DOMAIN s : r[i] = s[i]
      BY <1>2, <3>1
    <3>3. \A i \in DOMAIN s : s[i] # b
      BY <2>2, Zenon DEF data
    <3>4. arrived' = [arrived EXCEPT ![h] = r]
      BY <1>1, <2>2, Zenon
    <3> HIDE DEF h, s, r
    <3>5. /\ arrived' \in [Heights -> Seq(Block)]
          /\ arrived'[h] = r /\ \A k \in Heights \ {h} : arrived'[k] = arrived[k]
      BY <1>2, <3>1, <3>2, <3>4, Zenon DEF h
    <3>6. {x \in known : \E i \in DOMAIN r : r[i] = x}
            = {x \in known : \E i \in DOMAIN s : s[i] = x} \cup {b}
      BY <3>2
    <3>7. \A x \in known : Height[x] \in Heights
      BY HeightIn, Zenon DEF IInv, TypeOK
    <3>8. data' = data \cup {b}
      <4>1. ASSUME NEW x \in known PROVE x \in data' <=> x \in data \cup {b}
        <5>1. CASE Height[x] = h
          <6>1. x \in data <=> \E i \in DOMAIN s : s[i] = x
            BY <5>1, Zenon DEF data, s
          <6>2. x \in data' <=> \E i \in DOMAIN r : r[i] = x
            BY <1>1, <3>5, <5>1, Zenon DEF data
          <6> QED
            BY <3>6, <6>1, <6>2, Zenon
        <5>2. CASE Height[x] # h
          BY <1>1, <3>5, <3>7, <5>2, Zenon DEF data, h
        <5> QED
          BY <5>1, <5>2, Zenon
      <4>2. data \cup {b} \subseteq known /\ data' \subseteq known
        BY <1>1, Zenon DEF data
      <4> QED
        BY <4>1, <4>2, Zenon
    <3>9. ASSUME NEW k \in Heights, NEW i \in DOMAIN arrived'[k]
          PROVE  /\ arrived'[k][i] \in known
                 /\ \A j \in DOMAIN arrived'[k] : arrived'[k][i] = arrived'[k][j] => i = j
      <4>1. CASE k # h
        BY <3>5, <4>1, Zenon DEF IInv, StoredInOrder
      <4>2. CASE k = h
        <5>1. \A l \in DOMAIN s : s[l] \in known /\ \A j \in DOMAIN s : s[l] = s[j] => l = j
          BY <4>2, SMTT(30) DEF IInv, StoredInOrder, s
        <5>2. arrived'[k] = r
          BY <3>5, <4>2, Zenon
        <5>3. \A l \in 1..(Len(s) + 1) : l \in DOMAIN s \/ (l = Len(s) + 1 /\ l \notin DOMAIN s)
          BY <3>2
        <5>4. \A l \in DOMAIN r : r[l] \in known /\ \A j \in DOMAIN r : r[l] = r[j] => l = j
          BY <3>2, <3>3, <5>1, <5>3
        <5> QED
          BY <5>2, <5>4, Zenon
      <4> QED
        BY <4>1, <4>2, Zenon
    <3>10. \A x \in data' \ {Genesis} : Parent[x] \in data'
      <4>1. \A x \in data \ {Genesis} : Parent[x] \in data
        BY Zenon DEF IInv, StoredInOrder
      <4> QED
        BY <1>1, <3>8, <4>1, Zenon
    <3>11. \A k \in Heights : \A i \in DOMAIN arrived'[k] :
             /\ arrived'[k][i] \in known'
             /\ \A j \in DOMAIN arrived'[k] : arrived'[k][i] = arrived'[k][j] => i = j
      <4>1. known' = known
        BY <1>1, Zenon
      <4> QED
        BY <3>9, <4>1, Zenon
    <3>12. StoredInOrder'
      BY <3>10, <3>11, Zenon DEF StoredInOrder
    <3> QED
      BY <3>5, <3>8, <3>12, Zenon
  <2> QED
    BY <2>1, <2>2, Zenon
<1>6. TypeOK' /\ ThreadsOK'
  BY <1>1, <1>5 DEF IInv, TypeOK, ThreadsOK
<1> QED
  BY <1>3, <1>4, <1>5, <1>6, Zenon DEF IInv

\* One turn of ActivateBestChain towards mw, where it leads and what it marks.
Turn(t, mw, marked, bad) ==
  /\ mw \in data \cup {NoBlock}
  /\ mw = IF mostWork = NoBlock THEN FindMostWorkChain ELSE mostWork
  /\ mostWork = NoBlock /\ mw # NoBlock => OffChain(mw) \cap failed = {}
  /\ tip' = IF mw = NoBlock THEN tip ELSE StepTip(mw)
  /\ marked = IF mostWork = NoBlock THEN FailedChildren(mw) ELSE {}
  /\ bad = IF mw = NoBlock THEN {} ELSE StepFailed(mw, tip')
  /\ failed' = failed \cup marked \cup bad
  /\ candidates' \subseteq candidates \ (marked \cup bad)
  /\ \/ /\ activator' = "none" /\ mostWork' = NoBlock
        /\ Return(t)
     \/ /\ activator' = t /\ mostWork' = (IF bad # {} THEN NoBlock ELSE mw)
        /\ Activates(t) /\ UNCHANGED <<blk, sched>>
  /\ tip \in Block /\ tip' \in data /\ bad \subseteq data /\ marked \subseteq data
  /\ UNCHANGED <<known, conflictFlag, arrived, incomplete, best, bestIndex, lastNotify,
                 seen, isEnforced, isSporkActive, lastSigned, proc, spork, voted>>

\* Every step of ActivateBestChain is such a turn.
LEMMA ActivateFacts ==
  ASSUME IInv, NEW t \in {"blk", "sched"}, ActivateBestChain(t)
  PROVE  \E mw, marked, bad : Turn(t, mw, marked, bad)
<1>0. PICK mw \in {IF mostWork = NoBlock THEN FindMostWorkChain ELSE mostWork} :
        \E new \in {IF mw = NoBlock THEN tip ELSE StepTip(mw)} :
        \E bad \in {IF mw = NoBlock THEN {} ELSE StepFailed(mw, new)} :
        LET refused == IF mostWork = NoBlock THEN Refused(mw) ELSE {}
            marked == IF mostWork = NoBlock THEN FailedChildren(mw) ELSE {}
            done == mw \in {NoBlock, tip} \/ (bad = {} /\ new = mw)
        IN  /\ failed' = failed \cup marked \cup bad
            /\ tip' = new
            /\ candidates' = Pruned(candidates \ (refused \cup marked \cup bad), new)
            /\ activator' = IF done THEN "none" ELSE t
            /\ mostWork' = IF done \/ bad # {} THEN NoBlock ELSE mw
            /\ IF done THEN Return(t) ELSE UNCHANGED <<blk, sched>>
  BY Zenon DEF ActivateBestChain
<1>1. PICK new, found :
        LET refused == IF mostWork = NoBlock THEN Refused(mw) ELSE {}
            marked == IF mostWork = NoBlock THEN FailedChildren(mw) ELSE {}
            done == mw \in {NoBlock, tip} \/ (found = {} /\ new = mw)
        IN  /\ new = IF mw = NoBlock THEN tip ELSE StepTip(mw)
            /\ found = IF mw = NoBlock THEN {} ELSE StepFailed(mw, new)
            /\ failed' = failed \cup marked \cup found
            /\ tip' = new
            /\ candidates' = Pruned(candidates \ (refused \cup marked \cup found), new)
            /\ activator' = IF done THEN "none" ELSE t
            /\ mostWork' = IF done \/ found # {} THEN NoBlock ELSE mw
            /\ IF done THEN Return(t) ELSE UNCHANGED <<blk, sched>>
  BY <1>0, Zenon
<1> DEFINE bad == IF mw = NoBlock THEN {} ELSE StepFailed(mw, tip')
           marked == IF mostWork = NoBlock THEN FailedChildren(mw) ELSE {}
           done == mw \in {NoBlock, tip} \/ (bad = {} /\ tip' = mw)
<1>2. /\ failed' = failed \cup marked \cup bad
      /\ \E refused : candidates' = Pruned(candidates \ (refused \cup marked \cup bad), tip')
      /\ tip' = IF mw = NoBlock THEN tip ELSE StepTip(mw)
      /\ activator' = IF done THEN "none" ELSE t
      /\ mostWork' = IF done \/ bad # {} THEN NoBlock ELSE mw
      /\ IF done THEN Return(t) ELSE UNCHANGED <<blk, sched>>
  BY <1>1, Zenon
<1>3. /\ mw \in data \cup {NoBlock} /\ tip \in data /\ candidates \subseteq data
      /\ mostWork = NoBlock /\ mw # NoBlock => OffChain(mw) \cap failed = {}
  BY MostWorkUsable, Zenon DEF IInv, TypeOK
<1>4. data \subseteq Block /\ \A b \in data : Path[b] \subseteq data
  BY StoredPaths, Zenon DEF IInv
<1>5. tip' \in data
  BY <1>2, <1>3, <1>4, StepEnds, Zenon
<1>6. bad \subseteq data
  BY <1>3, <1>4, Zenon DEF StepFailed, StepToConnect
<1>7. marked \subseteq data
  BY <1>3, <1>4, Zenon DEF FailedChildren, Refused, OffChain
<1>8. \/ /\ activator' = "none" /\ mostWork' = NoBlock
         /\ Return(t)
      \/ /\ activator' = t /\ mostWork' = (IF bad # {} THEN NoBlock ELSE mw)
         /\ Activates(t) /\ UNCHANGED <<blk, sched>>
  <2> HIDE DEF bad, done
  <2>1. Activates(t)
    BY Zenon DEF ActivateBestChain
  <2> QED
    BY <1>2, <2>1, Zenon
<1>9. UNCHANGED <<known, conflictFlag, arrived, incomplete, best, bestIndex, lastNotify,
                  seen, isEnforced, isSporkActive, lastSigned, proc, spork, voted>>
  BY Zenon DEF ActivateBestChain, locks
<1>10. mw = IF mostWork = NoBlock THEN FindMostWorkChain ELSE mostWork
  BY Zenon
<1> HIDE DEF bad, done, marked
<1>11. candidates' \subseteq candidates \ (marked \cup bad)
  BY <1>2, Zenon DEF Pruned
<1> QED
  <2> WITNESS mw, marked, bad
  <2> QED
    BY <1>2, <1>3, <1>4, <1>5, <1>6, <1>7, <1>8, <1>9, <1>10, <1>11, Zenon
    DEF bad, marked, Turn

\* A turn of ActivateBestChain keeps the invariant.
LEMMA ActivateIInv ==
  ASSUME IInv, NEW t \in {"blk", "sched"}, ActivateBestChain(t)
  PROVE  IInv'
<1>0. PICK mw, marked, bad : Turn(t, mw, marked, bad)
  BY ActivateFacts, Zenon
<1>1. /\ mw \in data \cup {NoBlock}
      /\ failed' = failed \cup marked \cup bad
      /\ candidates' \subseteq candidates \ (marked \cup bad)
      /\ \/ /\ activator' = "none" /\ mostWork' = NoBlock
            /\ Return(t)
         \/ /\ activator' = t /\ mostWork' = (IF bad # {} THEN NoBlock ELSE mw)
            /\ Activates(t) /\ UNCHANGED <<blk, sched>>
      /\ tip' \in data /\ bad \subseteq data /\ marked \subseteq data
      /\ UNCHANGED <<known, conflictFlag, arrived, incomplete, best, bestIndex, lastNotify,
                     seen, isEnforced, isSporkActive, lastSigned, proc, spork, voted>>
  BY <1>0, Zenon DEF Turn
<1>2. data' = data /\ StoredInOrder' /\ data \subseteq known
  BY <1>1, IndexKept, StoredPaths, Zenon DEF IInv
<1>3. BestLockIsLinked' /\ BestLockAgrees' /\ IndexIsLocked'
  BY <1>1, LocksKept, Zenon
<1>4. /\ activator' \in {"none", t} /\ activator \in {"none", t}
      /\ mostWork' \in data \cup {NoBlock}
      /\ mostWork' # NoBlock => activator' = t
      /\ activator' = t => Activates(t) /\ UNCHANGED <<blk, sched>>
  BY <1>1, Zenon DEF ActivateBestChain
<1>5. \/ UNCHANGED <<blk, sched>>
      \/ t = "blk" /\ blk' = "idle" /\ UNCHANGED sched
      \/ t = "sched" /\ sched' = [sched EXCEPT !.pc = "notify"] /\ UNCHANGED blk /\ sched.pc = "activate"
  BY <1>1, Zenon DEF Return, ActivateBestChain, Activates
<1>6. blk' \in {"idle", "activate"}
      /\ sched' \in [pc : {"idle", "enforce", "invalidate", "activate", "notify", "sign",
                           "signcheck", "signcommit"}, cur : data \cup known \cup {NoBlock}]
  BY <1>5, Zenon DEF IInv, TypeOK
<1>7. TypeOK'
  BY <1>1, <1>2, <1>4, <1>6 DEF IInv, TypeOK
<1>8. ThreadsOK'
  BY <1>1, <1>2, <1>5, Zenon DEF IInv, ThreadsOK, TypeOK
<1>9. ActivatorOK'
  BY <1>4, Zenon DEF ActivatorOK, Activates
<1> QED
  BY <1>2, <1>3, <1>7, <1>8, <1>9, Zenon DEF IInv

\* The active blocks that EnforceBestChainLock disconnects for b: a sibling of a
\* block of b's chain and all above it.
Active(b) == {x \in Path[tip] : Path[x] \cap Siblings(b) # {}}

\* EnforceBestChainLock leaves the tip where it was or cuts the chain at the fork
\* with the locked block, and marks siblings of the locked chain and what was cut.
LEMMA EnforceFacts ==
  ASSUME IInv, EnforceInvalidate
  PROVE  /\ sched.pc = "invalidate" /\ sched.cur \in known /\ sched.cur \in Block
         /\ tip \in Block /\ tip' \in data /\ tip' \in Path[tip]
         /\ tip' = IF Active(sched.cur) = {} THEN tip ELSE Fork(sched.cur)
         /\ failed' \subseteq failed \cup Siblings(sched.cur) \cup Active(sched.cur)
         /\ failed' \subseteq known /\ candidates' \subseteq data \ failed'
         /\ sched' = [sched EXCEPT !.pc = IF sched.cur \in Path[tip'] THEN "notify" ELSE "activate"]
         /\ UNCHANGED <<known, conflictFlag, arrived, incomplete, activator, mostWork, best,
                        bestIndex, lastNotify, seen, isEnforced, isSporkActive, lastSigned, proc,
                        blk, spork, voted>>
<1>1. /\ sched.pc = "invalidate" /\ sched.cur \in known /\ sched.cur \in Block
      /\ tip \in Block /\ tip \in data /\ known \subseteq Block /\ failed \subseteq known
  BY StoredPaths, Zenon DEF IInv, ThreadsOK, TypeOK, EnforceInvalidate
<1>2. tip' = IF Active(sched.cur) = {} THEN tip ELSE Fork(sched.cur)
  BY Zenon DEF EnforceInvalidate, Active, Disconnected
<1>3. failed' \subseteq failed \cup Siblings(sched.cur) \cup Active(sched.cur)
  BY Zenon DEF EnforceInvalidate, Active, Disconnected
<1>4. tip' \in Path[tip]
  BY <1>1, <1>2, ForkEnds, PathClosed, Zenon
<1>5. Path[tip] \subseteq data /\ data \subseteq known
  BY <1>1, StoredPaths, Zenon DEF IInv
<1>6. Siblings(sched.cur) \subseteq known /\ Active(sched.cur) \subseteq known
  BY <1>5, Zenon DEF Siblings, Active
<1>7. sched' = [sched EXCEPT !.pc = IF sched.cur \in Path[tip'] THEN "notify" ELSE "activate"]
  BY Zenon DEF EnforceInvalidate
<1>8. UNCHANGED <<known, conflictFlag, arrived, incomplete, activator, mostWork, best,
                  bestIndex, lastNotify, seen, isEnforced, isSporkActive, lastSigned, proc,
                  blk, spork, voted>>
  BY Zenon DEF EnforceInvalidate, locks
<1>9. candidates' \subseteq data \ failed'
  <2> DEFINE b == sched.cur
             marked == failed \cup Siblings(b) \cup Active(b)
             left == AfterInvalidate(Siblings(b), marked, tip')
  <2>1. \/ failed' = marked /\ candidates' = left
        \/ /\ failed' = marked \ ResetFlags(b)
           /\ candidates' = left \cup ResetCandidates(b, marked, tip')
    BY ZenonT(60) DEF EnforceInvalidate, Active, Disconnected
  <2>2. Siblings(b) = {} => Active(b) = {}
    BY Zenon DEF Active
  <2>3. candidates \subseteq data \ failed
    BY Zenon DEF IInv, TypeOK
  <2>4. left \subseteq data \ marked
    BY <2>2, <2>3, Zenon DEF AfterInvalidate
  <2>5. ResetCandidates(b, marked, tip') \subseteq data \cap ResetFlags(b)
    BY <1>5, Zenon DEF ResetCandidates, ResetFlags
  <2> HIDE DEF left, marked, b
  <2> QED
    BY <2>1, <2>4, <2>5, Zenon
<1> QED
  BY <1>1, <1>2, <1>3, <1>4, <1>5, <1>6, <1>7, <1>8, <1>9, Zenon

\* EnforceBestChainLock's invalidations keep the invariant.
LEMMA EnforceIInv ==
  ASSUME IInv, EnforceInvalidate
  PROVE  IInv'
<1>1. data' = data /\ StoredInOrder' /\ BestLockIsLinked' /\ BestLockAgrees' /\ IndexIsLocked'
  BY EnforceFacts, IndexKept, LocksKept, Zenon
<1>2. /\ sched' \in [pc : {"idle", "enforce", "invalidate", "activate", "notify", "sign",
                           "signcheck", "signcommit"}, cur : data \cup known \cup {NoBlock}]
      /\ sched'.pc \in {"notify", "activate"} /\ sched'.cur = sched.cur
  BY EnforceFacts, Zenon DEF IInv, TypeOK
<1>3. TypeOK'
  BY EnforceFacts, <1>1, <1>2 DEF IInv, TypeOK
<1>4. ActivatorOK' /\ ThreadsOK'
  BY EnforceFacts, <1>1, <1>2, Zenon DEF IInv, ActivatorOK, ThreadsOK
<1> QED
  BY <1>1, <1>3, <1>4, Zenon DEF IInv

\* The first section of ProcessNewChainLock: the lock is seen and waits for the
\* check of its signature.
LEMMA BeginIInv ==
  ASSUME IInv, NEW t \in {"net", "sig"}, NEW c \in CLSig, BeginChainLock(t, c)
  PROVE  IInv'
<1>1. /\ seen' = seen \cup {c}
      /\ proc' \in {proc, [proc EXCEPT ![t] = [pc |-> "verify", sig |-> c]]}
      /\ UNCHANGED <<known, conflictFlag, failed, arrived, incomplete, tip, candidates,
                     activator, mostWork, best, bestIndex, lastNotify, isEnforced,
                     isSporkActive, lastSigned, blk, sched, spork, voted>>
  BY Zenon DEF BeginChainLock, index, chain
<1>2. data' = data /\ StoredInOrder' /\ BestLockIsLinked' /\ BestLockAgrees' /\ IndexIsLocked'
  BY <1>1, IndexKept, LocksKept, Zenon
<1>3. /\ proc' \in [{"net", "sig"} -> [pc : {"idle", "verify", "apply"}, sig : CLSig \cup {NoSig}]]
      /\ \A u \in {"net", "sig"} : proc'[u].pc # "idle" => proc'[u].sig \in CLSig
  <2>1. /\ proc \in [{"net", "sig"} -> [pc : {"idle", "verify", "apply"}, sig : CLSig \cup {NoSig}]]
        /\ \A u \in {"net", "sig"} : proc[u].pc # "idle" => proc[u].sig \in CLSig
    BY Zenon DEF IInv, TypeOK, ThreadsOK
  <2> QED
    BY <1>1, <2>1
<1>4. TypeOK' /\ ActivatorOK' /\ ThreadsOK'
  <2>1. TypeOK'
    <3>1. TypeOK /\ seen \subseteq CLSig /\ spork \in BOOLEAN
      BY TypeParts, Zenon DEF IInv, LocksType
    <3>2. ProcType'
      BY <1>3, Zenon DEF ProcType
    <3>3. seen' \subseteq CLSig /\ spork' \in BOOLEAN
      BY <1>1, <3>1, Zenon
    <3> QED
      BY <1>1, <1>2, <3>1, <3>2, <3>3, TypesKept, TypeWhole, Zenon
  <2>2. ActivatorOK' /\ ThreadsOK'
    BY <1>1, <1>2, <1>3, Zenon DEF IInv, ActivatorOK, ThreadsOK
  <2> QED
    BY <2>1, <2>2, Zenon
<1> QED
  BY <1>2, <1>4, Zenon DEF IInv

\* The check of the signature, with no lock held.
LEMMA VerifyIInv ==
  ASSUME IInv, NEW t \in {"net", "sig"}, VerifyChainLock(t)
  PROVE  IInv'
<1>1. /\ proc[t].pc = "verify"
      /\ proc' \in {[proc EXCEPT ![t] = [pc |-> "idle", sig |-> NoSig]],
                    [proc EXCEPT ![t].pc = "apply"]}
      /\ UNCHANGED <<known, conflictFlag, failed, arrived, incomplete, tip, candidates,
                     activator, mostWork, best, bestIndex, lastNotify, seen, isEnforced,
                     isSporkActive, lastSigned, blk, sched, spork, voted>>
  BY Zenon DEF VerifyChainLock, index, chain, locks
<1>2. data' = data /\ StoredInOrder' /\ BestLockIsLinked' /\ BestLockAgrees' /\ IndexIsLocked'
  BY <1>1, IndexKept, LocksKept, Zenon
<1>3. /\ proc' \in [{"net", "sig"} -> [pc : {"idle", "verify", "apply"}, sig : CLSig \cup {NoSig}]]
      /\ \A u \in {"net", "sig"} : proc'[u].pc # "idle" => proc'[u].sig \in CLSig
  BY <1>1 DEF IInv, TypeOK, ThreadsOK
<1>4. TypeOK' /\ ActivatorOK' /\ ThreadsOK'
  <2>1. TypeOK'
    BY <1>1, <1>2, <1>3 DEF IInv, TypeOK
  <2>2. ActivatorOK' /\ ThreadsOK'
    BY <1>1, <1>2, <1>3, Zenon DEF IInv, ActivatorOK, ThreadsOK
  <2> QED
    BY <2>1, <2>2, Zenon
<1> QED
  BY <1>2, <1>4, Zenon DEF IInv

\* The last section: the lock becomes the best one unless it conflicts with the
\* enforced one.
LEMMA ApplyIInv ==
  ASSUME IInv, NEW t \in {"net", "sig"}, ApplyChainLock(t)
  PROVE  IInv'
<1> DEFINE c == proc[t].sig
<1>1. /\ proc[t].pc = "apply"
      /\ proc' = [proc EXCEPT ![t] = [pc |-> "idle", sig |-> NoSig]]
      /\ UNCHANGED <<known, conflictFlag, failed, arrived, incomplete, tip, candidates,
                     activator, mostWork, lastNotify, seen, isEnforced, isSporkActive,
                     lastSigned, blk, sched, spork, voted>>
  BY Zenon DEF ApplyChainLock, index, chain
<1>2. c \in CLSig /\ c \in [nHeight : Heights, block : Block] /\ c # NoSig
  BY <1>1, ChainLocksAssumption, Zenon DEF IInv, ThreadsOK
<1>3. \/ UNCHANGED <<best, bestIndex>>
      \/ /\ ~HasConflictingChainLock(c.nHeight, c.block)
         /\ best' = c
         /\ bestIndex' = IF c.block \in known /\ Height[c.block] = c.nHeight
                         THEN c.block ELSE bestIndex
  BY Zenon DEF ApplyChainLock
<1> HIDE DEF c
<1>4. data' = data /\ StoredInOrder'
  BY <1>1, IndexKept, Zenon
<1>5. /\ proc' \in [{"net", "sig"} -> [pc : {"idle", "verify", "apply"}, sig : CLSig \cup {NoSig}]]
      /\ \A u \in {"net", "sig"} : proc'[u].pc # "idle" => proc'[u].sig \in CLSig
  BY <1>1, Zenon DEF IInv, TypeOK, ThreadsOK
<1>6. best' \in CLSig \cup {NoSig} /\ bestIndex' \in known \cup {NoBlock}
  BY <1>2, <1>3, SMTT(30) DEF IInv, TypeOK
<1>7. TypeOK' /\ ActivatorOK' /\ ThreadsOK'
  <2>1. TypeOK'
    <3>1. TypeOK
      BY Zenon DEF IInv
    <3>2. ProcType'
      BY <1>5, Zenon DEF ProcType
    <3>3. LocksType'
      BY <1>1, <1>6, <3>1, TypeParts, Zenon DEF LocksType
    <3> QED
      BY <1>1, <1>4, <3>1, <3>2, <3>3, TypesKept, TypeWhole, Zenon
  <2>2. ActivatorOK'
    BY <1>1, Zenon DEF IInv, ActivatorOK
  <2>3. ThreadsOK'
    BY <1>1, <1>4, <1>5, Zenon DEF IInv, ThreadsOK
  <2> QED
    BY <2>1, <2>2, <2>3, Zenon
<1>8. CASE UNCHANGED <<best, bestIndex>>
  BY <1>1, <1>4, <1>7, <1>8, LocksKept, Zenon DEF IInv
<1>9. CASE /\ ~HasConflictingChainLock(c.nHeight, c.block)
           /\ best' = c
           /\ bestIndex' = IF c.block \in known /\ Height[c.block] = c.nHeight
                           THEN c.block ELSE bestIndex
  <2>1. BestLockIsLinked'
    BY <1>1, <1>9, Zenon DEF BestLockIsLinked
  <2>2. IndexIsLocked'
    BY <1>2, <1>9, Zenon DEF IInv, IndexIsLocked
  <2>3. BestLockAgrees'
    <3>1. CASE c.block \in known /\ Height[c.block] = c.nHeight
      <4>1. GetAncestor(c.block, c.nHeight) = c.block
        <5>1. c.block \in Block
          BY <1>2, Zenon
        <5>2. c.block \in Path[c.block]
          BY <5>1, PathClosed, Zenon
        <5> QED
          BY <3>1, <5>1, <5>2, AncestorAt, Zenon
      <4> QED
        BY <1>9, <3>1, <4>1, Zenon DEF BestLockAgrees, HasConflictingChainLock
    <3>2. CASE ~(c.block \in known /\ Height[c.block] = c.nHeight)
      BY <1>1, <1>9, <3>2, Zenon DEF BestLockAgrees, HasConflictingChainLock, Covered
    <3> QED
      BY <3>1, <3>2, Zenon
  <2> QED
    BY <1>4, <1>7, <2>1, <2>2, <2>3, SMTT(30) DEF IInv
<1> QED
  BY <1>3, <1>8, <1>9, Zenon

\* The steps of the scheduler thread that only move it on.
LEMMA SchedulerIInv ==
  ASSUME IInv, EnforceRead \/ EnforceNotify \/ SignReadTip \/ SignCheck \/ SignUnsafe \/ SignCommit
  PROVE  IInv'
<1>1. /\ sched.pc # "activate"
      /\ UNCHANGED <<known, conflictFlag, failed, arrived, incomplete, tip, candidates,
                     activator, mostWork, best, bestIndex, seen, isEnforced, isSporkActive,
                     proc, blk, spork>>
  BY Zenon DEF EnforceRead, EnforceNotify, SignReadTip, SignCheck, SignUnsafe, SignCommit,
         index, chain, locks
<1>2. data' = data /\ StoredInOrder' /\ BestLockIsLinked' /\ BestLockAgrees' /\ IndexIsLocked'
  BY <1>1, IndexKept, LocksKept, Zenon
<1>3. data \subseteq known /\ data \subseteq Block
  BY StoredPaths, Zenon DEF IInv
<1> DEFINE PC == {"idle", "enforce", "invalidate", "activate", "notify", "sign", "signcheck",
                  "signcommit"}
           SchedOK(s) == /\ s \in [pc : PC, cur : data \cup known \cup {NoBlock}]
                         /\ s.pc \in {"invalidate", "activate", "notify"} => s.cur \in known
                         /\ s.pc \in {"signcheck", "signcommit"} => s.cur \in data
<1>4. SchedOK(sched) /\ SchedOK(Idle) /\ \A s \in AfterEnforce : SchedOK(s)
  BY DEF IInv, TypeOK, ThreadsOK, Idle, AfterEnforce
<1>5. SchedOK(sched')
  <2>1. CASE EnforceRead
    <3>1. CASE isEnforced /\ bestIndex # NoBlock
      <4>1. sched' = [pc |-> "invalidate", cur |-> bestIndex]
        BY <2>1, <3>1, Zenon DEF EnforceRead
      <4>2. bestIndex \in known
        BY <3>1, Zenon DEF IInv, TypeOK
      <4> QED
        BY <4>1, <4>2, Zenon
    <3>2. CASE ~(isEnforced /\ bestIndex # NoBlock)
      BY <1>4, <2>1, <3>2, Zenon DEF EnforceRead
    <3> QED
      BY <3>1, <3>2, Zenon
  <2>2. CASE EnforceNotify
    BY <1>4, <2>2, ZenonT(60) DEF EnforceNotify
  <2>3. CASE SignReadTip
    BY <1>3, <1>4, <2>3, Zenon DEF SignReadTip, IInv, TypeOK
  <2>4. CASE SignCheck
    BY <1>4, <2>4, Zenon DEF SignCheck
  <2>5. CASE SignUnsafe \/ SignCommit
    BY <1>4, <2>5, Zenon DEF SignUnsafe, SignCommit
  <2> QED
    BY <2>1, <2>2, <2>3, <2>4, <2>5, Zenon
<1>6. /\ lastNotify' \in known \cup {NoBlock}
      /\ lastSigned' \in [nHeight : Heights, block : data] \cup {NoSig}
      /\ voted' \in [Heights -> data \cup {NoBlock}]
  <2>1. CASE EnforceRead \/ SignReadTip \/ SignCheck \/ SignUnsafe
    <3>1. UNCHANGED <<lastNotify, lastSigned, voted>>
      BY <2>1, Zenon DEF EnforceRead, SignReadTip, SignCheck, SignUnsafe, locks
    <3> QED
      BY <3>1, TypeParts, Zenon DEF IInv, VotesType
  <2>2. CASE EnforceNotify
    <3>1. /\ sched.pc = "notify" /\ lastNotify' \in {lastNotify, sched.cur}
          /\ UNCHANGED <<lastSigned, voted>>
      BY <2>2, Zenon DEF EnforceNotify
    <3>2. sched.cur \in known
      BY <3>1, Zenon DEF IInv, ThreadsOK
    <3> QED
      BY <3>1, <3>2, TypeParts, Zenon DEF IInv, VotesType
  <2>3. CASE SignCommit
    <3>1. sched.cur \in data /\ Height[sched.cur] \in Heights
      <4>1. sched.pc = "signcommit"
        BY <2>3, Zenon DEF SignCommit
      <4>2. sched.cur \in data
        BY <4>1, Zenon DEF IInv, ThreadsOK
      <4> QED
        BY <1>3, <4>2, HeightIn, Zenon
    <3>2. /\ lastNotify' = lastNotify
          /\ \/ UNCHANGED <<lastSigned, voted>>
             \/ /\ lastSigned' = [nHeight |-> Height[sched.cur], block |-> sched.cur]
                /\ voted' = [voted EXCEPT ![Height[sched.cur]] = IF @ = NoBlock THEN sched.cur ELSE @]
      BY <2>3, Zenon DEF SignCommit
    <3>3. /\ lastNotify \in known \cup {NoBlock}
          /\ lastSigned \in [nHeight : Heights, block : data] \cup {NoSig}
          /\ voted \in [Heights -> data \cup {NoBlock}]
      BY TypeParts, Zenon DEF IInv, VotesType
    <3>4. CASE UNCHANGED <<lastSigned, voted>>
      BY <3>2, <3>3, <3>4, Zenon
    <3>5. CASE /\ lastSigned' = [nHeight |-> Height[sched.cur], block |-> sched.cur]
               /\ voted' = [voted EXCEPT ![Height[sched.cur]] = IF @ = NoBlock THEN sched.cur ELSE @]
      <4>1. lastSigned' \in [nHeight : Heights, block : data]
        BY <3>1, <3>5, Zenon
      <4>2. voted' \in [Heights -> data \cup {NoBlock}]
        BY <3>1, <3>3, <3>5, Zenon
      <4> QED
        BY <3>2, <3>3, <4>1, <4>2, Zenon
    <3> QED
      BY <3>2, <3>4, <3>5, Zenon
  <2> QED
    BY <2>1, <2>2, <2>3, Zenon
<1>7. TypeOK'
  <2>1. TypeOK /\ LocksType
    BY TypeParts, Zenon DEF IInv
  <2>2. seen' \subseteq CLSig /\ spork' \in BOOLEAN
    BY <1>1, <2>1, Zenon DEF LocksType
  <2>3. VotesType'
    BY <1>1, <1>2, <1>6, Zenon DEF VotesType
  <2>4. SchedType'
    <3>1. blk \in {"idle", "activate"}
      BY TypeParts, Zenon DEF IInv, SchedType
    <3> QED
      BY <1>1, <1>2, <1>5, <3>1, Zenon DEF SchedType
  <2> QED
    BY <1>1, <1>2, <2>1, <2>2, <2>3, <2>4, TypesKept, TypeWhole, Zenon
<1>8. ActivatorOK' /\ ThreadsOK'
  BY <1>1, <1>2, <1>5, Zenon DEF IInv, ActivatorOK, ThreadsOK
<1> QED
  BY <1>2, <1>7, <1>8, Zenon DEF IInv

\* CheckActiveState forgets the lock when locks become enforced.
LEMMA CheckActiveStateIInv ==
  ASSUME IInv, CheckActiveState
  PROVE  IInv'
<1>1. /\ sched.pc = "idle" /\ sched' = [sched EXCEPT !.pc = "enforce"]
      /\ isSporkActive' = spork /\ isEnforced' = spork
      /\ UNCHANGED <<known, conflictFlag, failed, arrived, incomplete, tip, candidates,
                     activator, mostWork, seen, lastSigned, proc, blk, spork, voted>>
  BY Zenon DEF CheckActiveState, index, chain
<1>2. \/ ~isEnforced /\ spork /\ best' = NoSig /\ bestIndex' = NoBlock /\ lastNotify' = NoBlock
      \/ ~(~isEnforced /\ spork) /\ UNCHANGED <<best, bestIndex, lastNotify>>
  BY Zenon DEF CheckActiveState
<1>3. data' = data /\ StoredInOrder'
  BY <1>1, IndexKept, Zenon
<1>4. TypeOK' /\ ActivatorOK' /\ ThreadsOK'
  BY <1>1, <1>2, <1>3, Zenon DEF IInv, TypeOK, ActivatorOK, ThreadsOK
<1>5. BestLockIsLinked' /\ IndexIsLocked'
  BY <1>1, <1>2, Zenon DEF IInv, BestLockIsLinked, IndexIsLocked
<1>6. BestLockAgrees'
  BY <1>1, <1>2, Zenon DEF IInv, BestLockAgrees, HasConflictingChainLock, Covered, TypeOK
<1> QED
  BY <1>3, <1>4, <1>5, <1>6, Zenon DEF IInv

\* A restart keeps the stored blocks and forgets the lock.
LEMMA RestartIInv ==
  ASSUME IInv, Restart
  PROVE  IInv' /\ data' = data
<1>1. /\ activator' = "none" /\ mostWork' = NoBlock
      /\ best' = NoSig /\ bestIndex' = NoBlock /\ lastNotify' = NoBlock /\ lastSigned' = NoSig
      /\ seen' = {} /\ isEnforced' = FALSE /\ isSporkActive' = FALSE
      /\ proc' = [t \in {"net", "sig"} |-> [pc |-> "idle", sig |-> NoSig]]
      /\ blk' = "activate" /\ sched' = Idle
      /\ UNCHANGED <<known, conflictFlag, incomplete, tip, spork, voted>>
      /\ failed' \subseteq failed /\ candidates' \subseteq data \ failed'
  BY Zenon DEF Restart
<1>2. PICK k \in Heights : \E z \in Reordered(arrived[k]) : arrived' = [arrived EXCEPT ![k] = z]
  BY Zenon DEF Restart
<1>9. arrived \in [Heights -> Seq(Block)]
  BY Zenon DEF IInv, TypeOK
<1>10. /\ DOMAIN arrived' = Heights /\ arrived'[k] \in Reordered(arrived[k])
      /\ \A h \in Heights \ {k} : arrived'[h] = arrived[h]
  BY <1>2, <1>9, Zenon
<1>3. ASSUME NEW h \in Heights
      PROVE  /\ arrived'[h] \in Seq(Block) /\ DOMAIN arrived'[h] = DOMAIN arrived[h]
             /\ \A i, j \in DOMAIN arrived'[h] : arrived'[h][i] = arrived'[h][j] => i = j
             /\ \A x : (\E i \in DOMAIN arrived[h] : arrived[h][i] = x)
                         <=> (\E i \in DOMAIN arrived'[h] : arrived'[h][i] = x)
  <2> DEFINE s == arrived[h]
             r == arrived'[h]
  <2>0. CASE h # k
    BY <1>9, <1>10, <2>0, Zenon DEF IInv, StoredInOrder
  <2>1. CASE h = k
    <3>1. s \in Seq(Block) /\ r \in Bijection(DOMAIN s, Range(s))
      BY <1>9, <1>10, <2>1, Zenon DEF Reordered
    <3> HIDE DEF s, r
    <3>2. /\ r \in [DOMAIN s -> Range(s)]
          /\ \A i, j \in DOMAIN s : r[i] = r[j] => i = j
          /\ \A x \in Range(s) : \E i \in DOMAIN s : r[i] = x
      BY <3>1, Zenon DEF Bijection, Injection, Surjection, IsInjective
    <3>3. \A x : x \in Range(s) <=> \E i \in DOMAIN s : s[i] = x
      BY Zenon DEF Range
    <3>4. Range(s) \subseteq Block /\ DOMAIN s = 1..Len(s) /\ Len(s) \in Nat
      BY <3>1, <3>3
    <3>5. r \in Seq(Block)
      BY <3>2, <3>4
    <3>6. DOMAIN r = DOMAIN s
      BY <3>2, Zenon
    <3>7. \A x : (\E i \in DOMAIN s : s[i] = x) <=> (\E i \in DOMAIN r : r[i] = x)
      BY <3>2, <3>3, <3>6, Zenon
    <3> QED
      BY <3>2, <3>5, <3>6, <3>7, Zenon DEF s, r
  <2> QED
    BY <2>0, <2>1, Zenon
<1>4. arrived' \in [Heights -> Seq(Block)]
  <2>1. arrived' = [h \in Heights |-> arrived'[h]]
    BY <1>2, <1>9, Zenon
  <2> QED
    BY <1>3, <2>1, Zenon
<1>5. data' = data
  <2>1. \A x \in known : Height[x] \in Heights
    BY HeightIn, SMTT(30) DEF IInv, TypeOK
  <2>2. known' = known
    BY <1>1, Zenon
  <2> QED
    BY <1>3, <2>1, <2>2, Zenon DEF data
<1>6. StoredInOrder'
  <2>1. ASSUME NEW h \in Heights, NEW i \in DOMAIN arrived'[h] PROVE arrived'[h][i] \in known
    <3>1. PICK n \in DOMAIN arrived[h] : arrived[h][n] = arrived'[h][i]
      BY <1>3, Zenon
    <3> QED
      BY <3>1, Zenon DEF IInv, StoredInOrder
  <2> QED
    BY <1>1, <1>3, <1>5, <2>1, Zenon DEF IInv, StoredInOrder
<1>7. TypeOK' /\ ActivatorOK' /\ ThreadsOK'
  BY <1>1, <1>4, <1>5, ZenonT(60) DEF IInv, TypeOK, ActivatorOK, ThreadsOK, Idle
<1>8. BestLockIsLinked' /\ BestLockAgrees' /\ IndexIsLocked'
  BY <1>1, Zenon DEF BestLockIsLinked, BestLockAgrees, IndexIsLocked
<1> QED
  BY <1>5, <1>6, <1>7, <1>8, Zenon DEF IInv

\* The rest of the environment.
LEMMA EnvironmentIInv ==
  ASSUME IInv,
         (\E b \in incomplete : TriggerArrives(b)) \/ (\E c \in seen : ForgetSeen(c)) \/ SwitchSpork
  PROVE  IInv'
<1>1. /\ incomplete' \subseteq incomplete /\ seen' \subseteq seen /\ spork' \in {spork, ~spork}
      /\ UNCHANGED <<known, conflictFlag, failed, arrived, tip, candidates, activator, mostWork,
                     best, bestIndex, lastNotify, isEnforced, isSporkActive, lastSigned, proc,
                     blk, sched, voted>>
  BY Zenon DEF TriggerArrives, ForgetSeen, SwitchSpork, index, chain, locks, threads
<1>2. data' = data /\ StoredInOrder' /\ BestLockIsLinked' /\ BestLockAgrees' /\ IndexIsLocked'
  <2>1. UNCHANGED <<known, arrived>> /\ UNCHANGED <<known, best, bestIndex, isEnforced>>
    BY <1>1, Zenon
  <2> QED
    BY <2>1, IndexKept, LocksKept, Zenon
<1>3. spork' \in BOOLEAN /\ seen' \subseteq CLSig
  <2>1. spork \in BOOLEAN /\ seen \subseteq CLSig
    BY TypeParts, Zenon DEF IInv, LocksType
  <2>2. (~spork) \in BOOLEAN
    BY Zenon
  <2>3. spork' \in BOOLEAN
    BY <1>1, <2>1, <2>2, Zenon
  <2> QED
    BY <1>1, <2>1, <2>3, Zenon
<1>4. TypeOK' /\ ActivatorOK' /\ ThreadsOK'
  <2>1. TypeOK'
    BY <1>1, <1>2, <1>3, TypesKept, TypeWhole, Zenon DEF IInv
  <2>2. ActivatorOK' /\ ThreadsOK'
    BY <1>1, <1>2, Zenon DEF IInv, ActivatorOK, ThreadsOK
  <2> QED
    BY <2>1, <2>2, Zenon
<1> QED
  BY <1>2, <1>4, Zenon DEF IInv

\* The node starts with the genesis block and no lock.
LEMMA InitIInv == Init => IInv
<1> SUFFICES ASSUME Init PROVE IInv
  BY Zenon
<1>1. Genesis \in Block /\ Height[Genesis] = 0 /\ 0 \in Heights
  BY TreeAssumption, HeightStep, HeightIn, Zenon
<1>2. arrived \in [Heights -> Seq(Block)]
  BY <1>1 DEF Init
<1>3. data = {Genesis}
  BY <1>1 DEF Init, data
<1>4. TypeOK
  BY <1>1, <1>2, <1>3, Zenon DEF Init, TypeOK, Idle
<1>5. StoredInOrder
  <2>1. /\ known = {Genesis}
        /\ arrived = [h \in Heights |-> IF h = 0 THEN <<Genesis>> ELSE <<>>]
    BY Zenon DEF Init
  <2>2. \A h \in Heights : \A i \in DOMAIN arrived[h] : i = 1 /\ arrived[h][i] = Genesis
    BY <2>1
  <2>3. \A h \in Heights : \A i \in DOMAIN arrived[h] :
          /\ arrived[h][i] \in known
          /\ \A j \in DOMAIN arrived[h] : arrived[h][i] = arrived[h][j] => i = j
    <3>1. Genesis \in known
      BY <2>1, Zenon
    <3> QED
      BY <2>2, <3>1, Zenon
  <2>4. \A b \in data \ {Genesis} : Parent[b] \in data
    BY <1>3, Zenon
  <2> QED
    BY <2>3, <2>4, Zenon DEF StoredInOrder
<1>6. ActivatorOK /\ ThreadsOK /\ BestLockIsLinked /\ BestLockAgrees /\ IndexIsLocked
  BY Zenon DEF Init, ActivatorOK, ThreadsOK, BestLockIsLinked, BestLockAgrees, IndexIsLocked, Idle
<1> QED
  BY <1>4, <1>5, <1>6, Zenon DEF IInv

\* Every step keeps the invariant.
LEMMA NextIInv == IInv /\ [Next]_vars => IInv'
<1> SUFFICES ASSUME IInv, [Next]_vars PROVE IInv'
  BY Zenon
<1>1. CASE UNCHANGED vars
  <2>1. UNCHANGED <<known, conflictFlag, failed, arrived, incomplete, tip, candidates,
                    activator, mostWork, best, bestIndex, lastNotify, seen, isEnforced,
                    isSporkActive, lastSigned, proc, blk, sched, spork, voted>>
    BY <1>1, Zenon DEF vars, index, chain, locks, threads
  <2>2. data' = data /\ StoredInOrder' /\ BestLockIsLinked' /\ BestLockAgrees' /\ IndexIsLocked'
    BY <2>1, IndexKept, LocksKept, Zenon
  <2>3. TypeOK'
    <3>1. TypeOK /\ seen' \subseteq CLSig /\ spork' \in BOOLEAN
      BY <2>1, TypeParts, Zenon DEF IInv, LocksType
    <3> QED
      BY <2>1, <2>2, <3>1, TypesKept, TypeWhole, Zenon
  <2>4. ActivatorOK' /\ ThreadsOK'
    BY <2>1, <2>2, Zenon DEF IInv, ActivatorOK, ThreadsOK
  <2> QED
    BY <2>2, <2>3, <2>4, Zenon DEF IInv
<1>2. CASE \E t \in {"net", "sig"} : ChainLockStep(t)
  BY <1>2, VerifyIInv, ApplyIInv, Zenon DEF ChainLockStep
<1>3. CASE ActivateBestChain("blk")
  BY <1>3, ActivateIInv, Zenon
<1>4. CASE SchedulerStep
  BY <1>4, ActivateIInv, CheckActiveStateIInv, EnforceIInv, SchedulerIInv, Zenon DEF SchedulerStep
<1>5. CASE Arrival
  BY <1>5, AcceptBlockHeaderIInv, AcceptBlockIInv, EnvironmentIInv, BeginIInv, Zenon
  DEF Arrival, ReceiveCLSig, HandleNewRecoveredSig
<1>6. CASE (\E c \in seen : ForgetSeen(c)) \/ SwitchSpork
  BY <1>6, EnvironmentIInv, Zenon
<1>7. CASE Restart
  BY <1>7, RestartIInv, Zenon
<1> QED
  BY <1>1, <1>2, <1>3, <1>4, <1>5, <1>6, <1>7, Zenon DEF Next

\* The state stays well formed, whatever the tree, the locks and the order of
\* events: the tip, the cached pindexMostWork and the votes are stored blocks.
THEOREM TypeCorrect == Spec => []TypeOK
<1>1. Spec => []IInv
  BY InitIInv, NextIInv, PTL DEF Spec
<1>2. IInv => TypeOK
  BY Zenon DEF IInv
<1> QED
  BY <1>1, <1>2, PTL

\* The best lock is enforced from the moment its header is known.
THEOREM LockIsLinked == Spec => []BestLockIsLinked
<1>1. Spec => []IInv
  BY InitIInv, NextIInv, PTL DEF Spec
<1>2. IInv => BestLockIsLinked
  BY Zenon DEF IInv
<1> QED
  BY <1>1, <1>2, PTL

-----------------------------------------------------------------------------
(* A locked block of the active chain is not replaced.                     *)

\* What the property says of one step.
KeepsLocked ==
  \A b \in Path[tip] : HasChainLock(Height[b], b) /\ Height[tip'] >= Height[b] => b \in Path[tip']

\* A chain that is only cut keeps every block up to its new end.
LEMMA CutKeeps ==
  ASSUME tip \in Block, tip' \in Path[tip]
  PROVE  KeepsLocked
<1> SUFFICES ASSUME NEW b \in Path[tip], Height[tip'] >= Height[b] PROVE b \in Path[tip']
  BY Zenon DEF KeepsLocked
<1>1. b \in Block /\ tip' \in Block
  BY PathClosed, Zenon
<1>2. b \in Path[tip'] \/ tip' \in Path[b]
  BY PathLinear, Zenon
<1>3. CASE tip' \in Path[b]
  <2>1. Height[tip'] <= Height[b] /\ Height[tip'] \in Nat /\ Height[b] \in Nat
    BY <1>1, <1>3, AncestorLower, Zenon
  <2>2. Height[tip'] = Height[b]
    BY <2>1
  <2>3. tip' = b
    BY <1>1, <1>3, <2>2, OnePerHeight, PathClosed, Zenon
  <2> QED
    BY <1>1, <2>3, PathClosed, Zenon
<1> QED
  BY <1>2, <1>3, Zenon

\* ConnectBlock refuses the block that would take the place of a locked one.
LEMMA ActivateKeeps ==
  ASSUME IInv, NEW t \in {"blk", "sched"}, ActivateBestChain(t)
  PROVE  KeepsLocked
<1>1. PICK mw, marked, bad : Turn(t, mw, marked, bad)
  BY ActivateFacts, Zenon
<1>2. /\ mw \in data \cup {NoBlock} /\ tip \in Block
      /\ tip' = IF mw = NoBlock THEN tip ELSE StepTip(mw)
  BY <1>1, Zenon DEF Turn
<1>3. CASE mw = NoBlock
  BY <1>2, <1>3, CutKeeps, PathClosed, Zenon
<1>4. CASE mw # NoBlock
  <2>1. mw \in Block /\ tip' = StepTip(mw) /\ tip' \in Block
        /\ \A z \in Path[tip'] : z \in Path[tip] \/ ~ConnectFails(z)
    BY <1>2, <1>4, StoredPaths, StepEnds, Zenon DEF IInv
  <2> SUFFICES ASSUME NEW b \in Path[tip], HasChainLock(Height[b], b), Height[tip'] >= Height[b]
               PROVE  b \in Path[tip']
    BY Zenon DEF KeepsLocked
  <2>2. Height[b] \in Nat /\ Height[tip'] \in Nat
    BY <1>2, <2>1, AncestorLower, HeightStep, Zenon
  <2> DEFINE z == GetAncestor(tip', Height[b])
  <2>3. z \in Path[tip'] /\ Height[z] = Height[b]
    BY <2>1, <2>2, AncestorAt, Zenon
  <2> HIDE DEF z
  <2>4. CASE z \in Path[tip]
    BY <1>2, <2>3, <2>4, OnePerHeight, Zenon
  <2>5. CASE ~ConnectFails(z)
    BY <2>3, <2>5, Zenon DEF ConnectFails, HasConflictingChainLock, HasChainLock
  <2> QED
    BY <2>1, <2>3, <2>4, <2>5, Zenon
<1> QED
  BY <1>3, <1>4, Zenon

\* No step puts another block in the place of an active block that the enforced
\* lock covers, whatever the tree, the locks and the threads' interleaving.
THEOREM LockedStays == Spec => LockedNeverReplaced
<1>1. IInv /\ [Next]_vars => [KeepsLocked]_vars
  <2> SUFFICES ASSUME IInv, Next PROVE KeepsLocked
    BY Zenon
  <2>1. tip \in Block
    BY StoredPaths, Zenon DEF IInv, TypeOK
  <2>2. CASE tip' = tip
    BY <2>1, <2>2, CutKeeps, PathClosed, ZenonT(60)
  <2>3. CASE \E t \in {"blk", "sched"} : ActivateBestChain(t)
    BY <2>3, ActivateKeeps, Zenon
  <2>4. CASE EnforceInvalidate
    BY <2>1, <2>4, EnforceFacts, CutKeeps, SMTT(30)
  <2>5. \/ tip' = tip
        \/ \E t \in {"blk", "sched"} : ActivateBestChain(t)
        \/ EnforceInvalidate
    BY Zenon DEF Next, ChainLockStep, VerifyChainLock, ApplyChainLock, SchedulerStep, CheckActiveState,
           EnforceRead, EnforceNotify, SignReadTip, SignCheck, SignUnsafe, SignCommit, Arrival,
           AcceptBlockHeader, AcceptBlock, ReceivedBlockTransactions, TriggerArrives,
           ReceiveCLSig, HandleNewRecoveredSig, BeginChainLock, ForgetSeen, SwitchSpork, Restart, chain
  <2> QED
    BY <2>2, <2>3, <2>4, <2>5, Zenon
<1>2. Spec => []IInv /\ [][Next]_vars
  BY InitIInv, NextIInv, PTL DEF Spec
<1>3. Spec => [][KeepsLocked]_vars
  BY <1>1, <1>2, PTL
<1> QED
  BY <1>3, Zenon DEF LockedNeverReplaced, KeepsLocked

-----------------------------------------------------------------------------
(* With one lock, the active chain has no failed block.                    *)

\* Steps that neither move the chain nor mark blocks.
LEMMA OneLockKept ==
  ASSUME IInv, OneLockInv, UNCHANGED <<tip, failed, mostWork, activator, isEnforced>>,
         bestIndex # NoBlock => bestIndex' = bestIndex,
         sched.pc = "activate" => sched'.pc = "activate",
         sched'.pc = "invalidate" =>
           sched' = sched \/ (isEnforced /\ bestIndex # NoBlock /\ bestIndex = sched'.cur)
  PROVE  OneLockInv'
<1>1. ActiveChainNotFailed'
  BY Zenon DEF OneLockInv, ActiveChainNotFailed
<1>2. sched.pc = "invalidate" => bestIndex # NoBlock
  BY ChainLocksAssumption, Zenon DEF OneLockInv, EnforcesBest, IInv, ThreadsOK, TypeOK
<1>3. EnforcesBest'
  BY <1>2, Zenon DEF OneLockInv, EnforcesBest
<1>4. CachedRefused'
  <2> SUFFICES ASSUME mostWork # NoBlock, OffChain(mostWork) \cap failed # {}
               PROVE  /\ activator = "blk" /\ sched'.pc = "activate"
                      /\ \A x \in OffChain(mostWork) \cap failed :
                           \E z \in OffChain(mostWork) \cap Path[x] :
                             HasConflictingChainLock(Height[z], z)'
    BY Zenon DEF CachedRefused, OffChain
  <2>1. /\ activator = "blk" /\ sched.pc = "activate"
        /\ \A x \in OffChain(mostWork) \cap failed :
             \E z \in OffChain(mostWork) \cap Path[x] : HasConflictingChainLock(Height[z], z)
    BY Zenon DEF OneLockInv, CachedRefused
  <2>2. bestIndex # NoBlock
    BY <2>1, Zenon DEF HasConflictingChainLock, Covered
  <2>3. \A z : HasConflictingChainLock(Height[z], z)' <=> HasConflictingChainLock(Height[z], z)
    BY <2>2, Zenon DEF HasConflictingChainLock, Covered
  <2> QED
    BY <2>1, <2>3, Zenon
<1> QED
  BY <1>1, <1>3, <1>4, Zenon DEF OneLockInv

\* With one lock the enforced block does not change while it is there.
LEMMA OneIndex ==
  ASSUME OneLock, IInv, IInv', bestIndex # NoBlock, bestIndex' # NoBlock
  PROVE  bestIndex' = bestIndex
  BY Zenon DEF OneLock, IInv, IndexIsLocked

\* Every step but those of ActivateBestChain and the one that invalidates.
LEMMA OneLockOthers ==
  ASSUME OneLock, IInv, IInv', OneLockInv, Next,
         ~EnforceInvalidate, \A t \in {"blk", "sched"} : ~ActivateBestChain(t)
  PROVE  OneLockInv'
<1>1. CASE Restart
  <2>1. tip' = tip /\ failed' \subseteq failed /\ mostWork' = NoBlock /\ sched' = Idle
    BY <1>1, Zenon DEF Restart
  <2> QED
    BY <2>1, Zenon DEF OneLockInv, ActiveChainNotFailed, EnforcesBest, CachedRefused, Idle
<1>2. CASE CheckActiveState
  <2>1. /\ UNCHANGED <<tip, failed, mostWork, activator>>
        /\ sched.pc = "idle" /\ sched' = [sched EXCEPT !.pc = "enforce"]
    BY <1>2, Zenon DEF CheckActiveState, chain, index
  <2>2. sched'.pc = "enforce"
    BY <2>1, Zenon DEF IInv, TypeOK
  <2>3. mostWork # NoBlock => OffChain(mostWork) \cap failed = {}
    BY <2>1, Zenon DEF OneLockInv, CachedRefused
  <2> QED
    BY <2>1, <2>2, <2>3, Zenon DEF OneLockInv, ActiveChainNotFailed, EnforcesBest, CachedRefused, OffChain
<1>3. CASE EnforceRead
  <2>1. /\ UNCHANGED <<tip, failed, mostWork, activator, isEnforced, bestIndex>>
        /\ sched.pc = "enforce"
    BY <1>3, Zenon DEF EnforceRead, chain, index, locks
  <2>2. sched'.pc = "invalidate" => isEnforced /\ bestIndex # NoBlock /\ bestIndex = sched'.cur
    BY <1>3 DEF EnforceRead, AfterEnforce, Idle
  <2> QED
    BY <2>1, <2>2, OneLockKept, Zenon
<1>4. CASE EnforceNotify \/ SignReadTip \/ SignCheck \/ SignUnsafe \/ SignCommit
  <2>1. UNCHANGED <<tip, failed, mostWork, activator, isEnforced, bestIndex>>
    BY <1>4, Zenon DEF EnforceNotify, SignReadTip, SignCheck, SignUnsafe, SignCommit, chain, index, locks
  <2>2. sched.pc # "activate" /\ sched'.pc # "invalidate"
    BY <1>4 DEF EnforceNotify, SignReadTip, SignCheck, SignUnsafe, SignCommit, AfterEnforce, Idle,
                IInv, TypeOK
  <2> QED
    BY <2>1, <2>2, OneLockKept, Zenon
<1>5. CASE \/ \E t \in {"net", "sig"} : ChainLockStep(t)
           \/ Arrival
           \/ \E c \in seen : ForgetSeen(c)
           \/ SwitchSpork
  <2>1. /\ UNCHANGED <<tip, failed, mostWork, activator, isEnforced, sched>>
        /\ \/ bestIndex' = bestIndex
           \/ \E t \in {"net", "sig"} : proc[t].pc = "apply" /\ bestIndex' = proc[t].sig.block
           \/ \E b \in Block : bestIndex' = b
    BY <1>5, Zenon DEF ChainLockStep, VerifyChainLock, ApplyChainLock, Arrival, AcceptBlockHeader,
                AcceptBlock, ReceivedBlockTransactions, TriggerArrives, ReceiveCLSig,
                HandleNewRecoveredSig, BeginChainLock, ForgetSeen, SwitchSpork, chain, index, locks, threads
  <2>2. bestIndex' # NoBlock \/ bestIndex' = bestIndex
    BY <2>1, ChainLocksAssumption, Zenon DEF IInv, ThreadsOK
  <2>3. bestIndex # NoBlock => bestIndex' = bestIndex
    BY <2>2, OneIndex, Zenon
  <2> QED
    BY <2>1, <2>3, OneLockKept, SMTT(30)
<1> QED
  BY <1>1, <1>2, <1>3, <1>4, <1>5, SMTT(30) DEF Next, SchedulerStep

\* EnforceBestChainLock cuts the chain below everything it marks, and what it
\* marks on the way to another thread's pindexMostWork conflicts with the lock.
LEMMA OneLockEnforce ==
  ASSUME IInv, OneLockInv, EnforceInvalidate
  PROVE  OneLockInv'
<1> DEFINE b == sched.cur
<1>1. /\ sched.pc = "invalidate" /\ b \in Block /\ tip \in Block /\ tip' \in Path[tip]
      /\ tip' = IF Active(b) = {} THEN tip ELSE Fork(b)
      /\ failed' \subseteq failed \cup Siblings(b) \cup Active(b)
      /\ sched' = [sched EXCEPT !.pc = IF b \in Path[tip'] THEN "notify" ELSE "activate"]
      /\ UNCHANGED <<activator, mostWork, bestIndex, isEnforced>>
  BY EnforceFacts, Zenon
<1>2. known \subseteq Block /\ isEnforced /\ bestIndex = b /\ b # NoBlock
  BY <1>1, ChainLocksAssumption, Zenon DEF IInv, TypeOK, OneLockInv, EnforcesBest
<1> HIDE DEF b
<1>3. ASSUME NEW x \in Siblings(b)
      PROVE  /\ x \in Block /\ x \notin Path[b] /\ b \notin Path[tip]
             /\ HasConflictingChainLock(Height[x], x)'
  BY <1>1, <1>2, SiblingsConflict, Zenon DEF HasConflictingChainLock, Covered
<1>4. tip' \in Block /\ Path[tip'] \subseteq Path[tip]
  BY <1>1, PathTransitive, Zenon
<1>5. Path[tip'] \cap Siblings(b) = {}
  <2>1. CASE Active(b) = {}
    BY <1>1, <1>3, <2>1, PathClosed, Zenon DEF Active
  <2>2. CASE Active(b) # {}
    <3>1. tip' \in Path[b] /\ Path[tip'] \subseteq Path[b]
      BY <1>1, <2>2, ForkEnds, PathTransitive, Zenon
    <3> QED
      BY <1>3, <3>1, Zenon
  <2> QED
    BY <2>1, <2>2, Zenon
<1>6. Path[tip'] \cap Active(b) = {}
  <2> SUFFICES ASSUME NEW x \in Path[tip'] \cap Active(b) PROVE FALSE
    BY Zenon
  <2>1. Path[x] \subseteq Path[tip']
    BY <1>4, PathTransitive, Zenon
  <2> QED
    BY <1>5, <2>1, Zenon DEF Active
<1>7. ActiveChainNotFailed'
  BY <1>1, <1>4, <1>5, <1>6, Zenon DEF OneLockInv, ActiveChainNotFailed
<1>8. sched'.pc = IF b \in Path[tip'] THEN "notify" ELSE "activate"
  BY <1>1, Zenon DEF IInv, TypeOK
<1>9. EnforcesBest'
  BY <1>8, SMTT(30) DEF EnforcesBest
<1>10. CachedRefused'
  <2> SUFFICES ASSUME mostWork # NoBlock, (OffChain(mostWork) \cap failed)' # {}
               PROVE  /\ activator = "blk" /\ sched'.pc = "activate"
                      /\ \A x \in (OffChain(mostWork) \cap failed)' :
                           \E z \in OffChain(mostWork)' \cap Path[x] :
                             HasConflictingChainLock(Height[z], z)'
    BY <1>1, Zenon DEF CachedRefused
  <2>1. activator = "blk"
    BY <1>1, Zenon DEF IInv, ActivatorOK, TypeOK
  <2>2. OffChain(mostWork) \cap failed = {} /\ Path[tip] \cap failed = {}
    BY <1>1, Zenon DEF OneLockInv, CachedRefused, ActiveChainNotFailed
  <2>3. /\ OffChain(mostWork)' = Path[mostWork] \ Path[tip']
        /\ OffChain(mostWork) = Path[mostWork] \ Path[tip]
    BY <1>1, ZenonT(60) DEF OffChain
  <2>4. mostWork \in Block
    <3>1. mostWork \in data
      BY Zenon DEF IInv, TypeOK
    <3> QED
      BY <3>1, StoredPaths, Zenon DEF IInv
  <2>5. ASSUME NEW x \in (OffChain(mostWork) \cap failed)'
        PROVE  \E z \in OffChain(mostWork)' \cap Path[x] :
                 z \in Siblings(b) /\ HasConflictingChainLock(Height[z], z)'
    <3>1. x \in Path[mostWork] /\ x \in Siblings(b) \cup Active(b) /\ x \in Block
      BY <1>1, <2>2, <2>3, <2>4, PathClosed, Zenon
    <3>2. PICK z \in Path[x] : z \in Siblings(b)
      BY <3>1, PathClosed, Zenon DEF Active
    <3>3. z \in Path[mostWork] /\ z \notin Path[tip']
      BY <1>5, <2>4, <3>1, <3>2, PathTransitive, Zenon
    <3> QED
      BY <1>3, <2>3, <3>2, <3>3, Zenon
  <2>6. b \notin Path[tip]
    BY <1>3, <2>5, Zenon
  <2> QED
    BY <1>4, <1>8, <2>1, <2>5, <2>6, Zenon
<1> QED
  BY <1>7, <1>9, <1>10, Zenon DEF OneLockInv

\* FindMostWorkChain marks descendants of failed blocks: none is in the active
\* chain or on a way on which nothing is marked.
LEMMA MarkedElsewhere ==
  ASSUME TypeOK, StoredInOrder, NEW mw, NEW x \in FailedChildren(mw)
  PROVE  /\ x \notin Path[tip]
         /\ mw \in Block /\ OffChain(mw) \cap failed = {} => x \notin Path[mw]
<1>1. PICK c \in candidates :
        /\ OffChain(c) \cap failed # {} /\ x \in OffChain(c)
        /\ \A y \in OffChain(c) \cap failed : Height[y] < Height[x]
  BY Zenon DEF FailedChildren, Refused, Unusable
<1>2. PICK y \in OffChain(c) \cap failed : Height[y] < Height[x]
  BY <1>1, Zenon
<1>3. c \in Block
  BY StoredPaths, Zenon DEF TypeOK
<1>4. x \in Path[c] /\ y \in Path[c] /\ x \notin Path[tip] /\ y \notin Path[tip] /\ y \in failed
  BY <1>1, Zenon DEF OffChain
<1>5. x \in Block /\ y \in Block
  BY <1>3, <1>4, PathClosed, Zenon
<1>6. y \in Path[x]
  <2>1. x \in Path[y] \/ y \in Path[x]
    BY <1>3, <1>4, PathLinear, Zenon
  <2>2. ASSUME x \in Path[y] PROVE FALSE
    BY <1>2, <1>5, <2>2, AncestorLower
  <2> QED
    BY <2>1, <2>2, Zenon
<1>7. ASSUME mw \in Block, OffChain(mw) \cap failed = {}, x \in Path[mw] PROVE FALSE
  <2>1. y \in Path[mw]
    BY <1>6, <1>7, PathTransitive, Zenon
  <2> QED
    BY <1>4, <1>7, <2>1, Zenon DEF OffChain
<1> QED
  BY <1>4, <1>7, Zenon

\* ActivateBestChain connects no failed block: on a fresh pindexMostWork there
\* is none, on a cached one ConnectBlock stops in front of it.
LEMMA OneLockActivate ==
  ASSUME IInv, OneLockInv, NEW t \in {"blk", "sched"}, ActivateBestChain(t)
  PROVE  OneLockInv'
<1>1. PICK mw, marked, bad : Turn(t, mw, marked, bad)
  BY ActivateFacts, Zenon
<1>2. /\ mw \in data \cup {NoBlock} /\ tip \in Block
      /\ mw = IF mostWork = NoBlock THEN FindMostWorkChain ELSE mostWork
      /\ mostWork = NoBlock /\ mw # NoBlock => OffChain(mw) \cap failed = {}
      /\ tip' = IF mw = NoBlock THEN tip ELSE StepTip(mw)
      /\ marked = IF mostWork = NoBlock THEN FailedChildren(mw) ELSE {}
      /\ bad = IF mw = NoBlock THEN {} ELSE StepFailed(mw, tip')
      /\ failed' = failed \cup marked \cup bad
      /\ UNCHANGED <<bestIndex, isEnforced>>
  BY <1>1, Zenon DEF Turn
<1>3. \/ /\ mostWork' = NoBlock /\ Return(t)
      \/ activator' = t /\ mostWork' = (IF bad # {} THEN NoBlock ELSE mw) /\ UNCHANGED <<blk,
                                                                                         sched>>
  BY <1>1, Zenon DEF Turn
<1>4. activator \in {"none", t} /\ (mostWork # NoBlock => activator = t)
  BY Zenon DEF ActivateBestChain, IInv, ActivatorOK
<1>5. \A x \in marked : x \notin Path[tip] /\ (mw # NoBlock => x \notin Path[mw])
  <2>1. mw # NoBlock => mw \in Block
    BY <1>2, StoredPaths, Zenon DEF IInv
  <2> QED
    BY <1>2, <2>1, MarkedElsewhere, ZenonT(60) DEF IInv
<1>6. EnforcesBest'
  <2>1. sched' = sched \/ sched'.pc # "invalidate"
    BY <1>3, Zenon DEF Return, IInv, TypeOK
  <2> QED
    BY <1>2, <2>1, Zenon DEF OneLockInv, EnforcesBest
<1>7. CASE mw = NoBlock
  <2>1. tip' = tip /\ bad = {} /\ mostWork' = NoBlock /\ failed' = failed \cup marked
    BY <1>2, <1>3, <1>7, Zenon
  <2> QED
    BY <1>5, <1>6, <2>1, Zenon DEF OneLockInv, ActiveChainNotFailed, CachedRefused
<1>8. CASE mw # NoBlock
  <2>1. /\ mw \in Block /\ tip' = StepTip(mw) /\ tip' \in Path[mw] /\ tip' \in Block
        /\ Path[mw] \cap Path[tip] \subseteq Path[tip']
        /\ \A z \in Path[tip'] : z \in Path[tip] \/ ~ConnectFails(z)
    BY <1>2, <1>8, StoredPaths, StepEnds, ZenonT(60) DEF IInv
  <2>2. Path[tip'] \subseteq Path[mw]
    BY <2>1, PathTransitive, Zenon
  <2>3. ASSUME NEW x \in OffChain(mw) \cap failed
        PROVE  /\ mw = mostWork /\ activator = "blk" /\ sched.pc = "activate"
               /\ \E z \in OffChain(mw) \cap Path[x] :
                    HasConflictingChainLock(Height[z], z) /\ z \notin Path[tip']
    <3>1. mw = mostWork /\ mostWork # NoBlock
      BY <1>2, <1>8, SMTT(30)
    <3>2. /\ activator = "blk" /\ sched.pc = "activate"
          /\ \E z \in OffChain(mw) \cap Path[x] : HasConflictingChainLock(Height[z], z)
      BY <3>1, Zenon DEF OneLockInv, CachedRefused
    <3>3. \A z \in OffChain(mw) : HasConflictingChainLock(Height[z], z) => z \notin Path[tip']
      BY <2>1, Zenon DEF OffChain, ConnectFails
    <3> QED
      BY <3>1, <3>2, <3>3, ZenonT(60)
  <2>4. ASSUME NEW x \in Path[tip'], x \in failed PROVE FALSE
    <3>1. x \in OffChain(mw)
      BY <2>2, <2>4, Zenon DEF OneLockInv, ActiveChainNotFailed, OffChain
    <3>2. PICK z \in OffChain(mw) \cap Path[x] : z \notin Path[tip']
      BY <2>3, <2>4, <3>1, Zenon
    <3> QED
      BY <2>1, <3>2, PathTransitive, Zenon
  <2>5. ASSUME NEW x \in Path[tip'], x \in bad PROVE FALSE
    <3>1. x \in Path[mw] /\ x \notin Path[tip] /\ Parent[x] = tip'
      BY <1>2, <1>8, <2>5, Zenon DEF StepFailed, StepToConnect
    <3>2. x \in Block /\ x # Genesis
      BY <1>2, <2>1, <3>1, PathClosed, Zenon
    <3> QED
      BY <2>5, <3>1, <3>2, ParentNotAbove, Zenon
  <2>6. ActiveChainNotFailed'
    BY <1>2, <1>5, <1>8, <2>2, <2>4, <2>5, Zenon DEF ActiveChainNotFailed
  <2>7. CachedRefused'
    <3> SUFFICES ASSUME mostWork' # NoBlock, (OffChain(mostWork) \cap failed)' # {}
                 PROVE  /\ activator' = "blk" /\ sched'.pc = "activate"
                        /\ \A x \in (OffChain(mostWork) \cap failed)' :
                             \E z \in OffChain(mostWork)' \cap Path[x] :
                               HasConflictingChainLock(Height[z], z)'
      BY ZenonT(60) DEF CachedRefused
    <3>1. mostWork' = mw /\ bad = {} /\ activator' = t /\ sched' = sched
      BY <1>3, Zenon
    <3>2. OffChain(mostWork)' = Path[mw] \ Path[tip'] /\ OffChain(mw) = Path[mw] \ Path[tip]
      BY <3>1, ZenonT(60) DEF OffChain
    <3>3. (OffChain(mostWork) \cap failed)' \subseteq OffChain(mw) \cap failed
      BY <1>2, <1>5, <1>8, <2>1, <3>1, <3>2, ZenonT(60)
    <3>4. \A z : HasConflictingChainLock(Height[z], z)' <=> HasConflictingChainLock(Height[z], z)
      BY <1>2, Zenon DEF HasConflictingChainLock, Covered
    <3>5. activator = "blk" /\ sched.pc = "activate" /\ mostWork # NoBlock
      BY <1>8, <2>3, <3>3, Zenon
    <3> QED
      BY <1>4, <2>3, <3>1, <3>2, <3>3, <3>4, <3>5, ZenonT(60)
  <2> QED
    BY <1>6, <2>6, <2>7, Zenon DEF OneLockInv
<1> QED
  BY <1>7, <1>8, Zenon

\* With at most one lock, no block marked failed is part of the active chain,
\* however the scheduler's InvalidateBlock interleaves with the other thread's
\* steps towards its cached pindexMostWork.
THEOREM ActiveChainIsValid == ASSUME OneLock PROVE Spec => []ActiveChainNotFailed
<1>1. Init => OneLockInv
  <2> SUFFICES ASSUME Init PROVE OneLockInv
    BY Zenon
  <2>1. failed = {} /\ mostWork = NoBlock /\ sched.pc # "invalidate"
    BY Zenon DEF Init, Idle
  <2> QED
    BY <2>1, Zenon DEF OneLockInv, ActiveChainNotFailed, EnforcesBest, CachedRefused
<1>2. IInv /\ OneLockInv /\ [Next]_vars => OneLockInv'
  <2> SUFFICES ASSUME IInv, OneLockInv, [Next]_vars PROVE OneLockInv'
    BY Zenon
  <2>1. IInv'
    BY NextIInv, Zenon
  <2>2. CASE UNCHANGED vars
    <3>1. UNCHANGED <<tip, failed, mostWork, activator, isEnforced, bestIndex, sched>>
      BY <2>2, Zenon DEF vars, index, chain, locks, threads
    <3> QED
      BY <3>1, OneLockKept, Zenon
  <2>3. CASE Next
    BY <2>1, <2>3, OneLockOthers, OneLockEnforce, OneLockActivate, Zenon
  <2> QED
    BY <2>2, <2>3, Zenon
<1>3. OneLockInv => ActiveChainNotFailed
  BY Zenon DEF OneLockInv
<1> QED
  BY <1>1, <1>2, <1>3, InitIInv, NextIInv, PTL DEF Spec

=============================================================================
