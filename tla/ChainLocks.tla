----------------------------- MODULE ChainLocks -----------------------------
(***************************************************************************)
(* ChainLocks on one masternode: CChainLocksHandler                        *)
(* (llmq/quorums_chainlocks.cpp) together with the parts of validation.cpp *)
(* it drives and is called from: header acceptance, block storage,         *)
(* FindMostWorkChain / ActivateBestChain, InvalidateBlock and              *)
(* ResetBlockFailureFlags.                                                 *)
(*                                                                         *)
(* Threads: "net" (a CLSIG message) and "sig" (a recovered signature from  *)
(* the signing manager) both run ProcessNewChainLock; "blk" stores a block *)
(* and activates the best chain; "sched" is the scheduler thread that      *)
(* enforces the best lock and signs the tip.  One action is one section    *)
(* under cs_main and/or cs; everything between two actions is unlocked.    *)
(*                                                                         *)
(* A block is an element of a fixed tree, all blocks carry the same work,  *)
(* and the data of a block arrives after that of its parent.               *)
(***************************************************************************)
EXTENDS BlockTree, Functions, Sequences

CONSTANTS
    CLSig,            \* the chain locks some quorum has signed
    Incomplete,       \* blocks that do not validate until a superblock trigger arrives
    SignHeightOffset, \* CSigningManager::SIGN_HEIGHT_OFFSET
    NoBlock, NoSig

ASSUME ChainLocksAssumption ==
    /\ Incomplete \subseteq Block \ {Genesis}
    /\ SignHeightOffset \in Nat
    /\ NoBlock \notin Block
    /\ CLSig \subseteq [nHeight : Heights, block : Block]
    /\ NoSig \notin [nHeight : Heights, block : Block]

VARIABLES
    \* mapBlockIndex
    known,            \* blocks whose header is in the index
    conflictFlag,     \* those with BLOCK_CONFLICT_CHAINLOCK
    failed,           \* those with BLOCK_FAILED_VALID or BLOCK_FAILED_CHILD
    arrived,          \* arrived[h]: blocks of height h with data, in nSequenceId order
    incomplete,       \* blocks that still do not validate
    \* chainActive and ActivateBestChain
    tip,
    candidates,       \* setBlockIndexCandidates
    activator,        \* the thread that holds cs_activateBestChain, or "none"
    mostWork,         \* its cached pindexMostWork
    \* CChainLocksHandler
    best,             \* bestChainLock
    bestIndex,        \* bestChainLockBlockIndex
    lastNotify,       \* lastNotifyChainLockBlockIndex
    seen,             \* seenChainLocks
    isEnforced, isSporkActive,
    lastSigned,       \* lastSignedHeight and lastSignedMsgHash
    \* others
    spork,            \* SPORK_19_CHAINLOCKS_ENABLED
    voted,            \* voted[h]: this node's vote on the request id of height h
    proc,             \* where "net" and "sig" are in ProcessNewChainLock
    blk,              \* "idle" or "activate"
    sched             \* where the scheduler thread is, with its local block pointer

index == <<known, conflictFlag, failed, arrived, incomplete>>
chain == <<tip, candidates, activator, mostWork>>
locks == <<best, bestIndex, lastNotify, seen, isEnforced, isSporkActive, lastSigned>>
threads == <<proc, blk, sched>>
vars == <<index, chain, locks, threads, spork, voted>>

Idle == [pc |-> "idle", cur |-> NoBlock]

Init ==
    /\ known = {Genesis}
    /\ conflictFlag = {}
    /\ failed = {}
    /\ arrived = [h \in Heights |-> IF h = 0 THEN <<Genesis>> ELSE <<>>]
    /\ incomplete = Incomplete
    /\ tip = Genesis /\ candidates = {Genesis}
    /\ activator = "none"
    /\ mostWork = NoBlock
    /\ best = NoSig
    /\ bestIndex = NoBlock
    /\ lastNotify = NoBlock
    /\ seen = {}
    /\ isEnforced = FALSE
    /\ isSporkActive = FALSE
    /\ lastSigned = NoSig
    /\ spork = TRUE
    /\ voted = [h \in Heights |-> NoBlock]
    /\ proc = [t \in {"net", "sig"} |-> [pc |-> "idle", sig |-> NoSig]]
    /\ blk = "idle"
    /\ sched = Idle

-----------------------------------------------------------------------------
(* Locks and blocks.                                                       *)

bestHeight == IF best = NoSig THEN -1 ELSE best.nHeight

\* InternalHasChainLock and InternalHasConflictingChainLock: a height above the
\* locked block neither has a lock nor conflicts with one.
Covered(h) == isEnforced /\ bestIndex # NoBlock /\ h <= Height[bestIndex]

HasChainLock(h, b) == Covered(h) /\ GetAncestor(bestIndex, h) = b

HasConflictingChainLock(h, b) == Covered(h) /\ GetAncestor(bestIndex, h) # b

data == {b \in known : \E i \in DOMAIN arrived[Height[b]] : arrived[Height[b]][i] = b}

\* CBlockIndexWorkComparator: more work, then the lower nSequenceId.
Better(a, b) ==
    \/ Height[a] > Height[b]
    \/ /\ Height[a] = Height[b]
       /\ \E i, j \in DOMAIN arrived[Height[a]] :
             i < j /\ arrived[Height[a]][i] = a /\ arrived[Height[a]][j] = b

OffChain(b) == Path[b] \ Path[tip]

\* A block that sorts no worse than b.
NotWorse(a, b) == a = b \/ Better(a, b)

\* FindMostWorkChain: some block between b and the active chain failed.
Unusable(b) == OffChain(b) \cap failed # {}

\* Mutant: the path to the candidate is not walked.
FindMostWorkChain_NoWalk == CHOOSE b \in candidates : \A c \in candidates \ {b} : Better(b, c)

FindMostWorkChain ==
    LET usable == {b \in candidates : ~Unusable(b)}
        last == {b \in usable : \A c \in usable \ {b} : Better(b, c)}
    IN  IF last = {} THEN NoBlock ELSE CHOOSE b \in last : TRUE

\* The candidates FindMostWorkChain removes before it settles on mw, and the blocks
\* it marks BLOCK_FAILED_CHILD.
Refused(mw) == {b \in candidates : Unusable(b) /\ (mw = NoBlock \/ Better(b, mw))}

FailedChildren(mw) ==
    UNION {{x \in OffChain(c) : \A y \in OffChain(c) \cap failed : Height[y] < Height[x]} :
              c \in Refused(mw)}

-----------------------------------------------------------------------------
(* Headers and blocks.                                                     *)

\* Mutant: the lock handler does not hear of new headers.
AcceptBlockHeader_NoSignal(b) ==
    /\ b \notin known
    /\ Parent[b] \in known \ (failed \cup conflictFlag)
    /\ known' = known \cup {b}
    /\ conflictFlag' = IF HasConflictingChainLock(Height[b], b)
                       THEN conflictFlag \cup {b} ELSE conflictFlag
    /\ UNCHANGED <<failed, arrived, incomplete, chain, locks, threads, spork, voted>>

\* AcceptBlockHeader of a new header.  One that conflicts with the lock is kept
\* in the index under a flag of its own, and no listener hears of it; any other
\* one is announced to CChainLocksHandler::AcceptedBlockHeader.
AcceptBlockHeader(b) ==
    /\ b \notin known
    /\ Parent[b] \in known \ (failed \cup conflictFlag)
    /\ known' = known \cup {b}
    /\ IF HasConflictingChainLock(Height[b], b)
       THEN conflictFlag' = conflictFlag \cup {b} /\ UNCHANGED bestIndex
       ELSE /\ bestIndex' = IF best = [nHeight |-> Height[b], block |-> b]
                            THEN b ELSE bestIndex
            /\ UNCHANGED conflictFlag
    /\ UNCHANGED <<failed, arrived, incomplete, chain, best, lastNotify, seen, isEnforced,
                   isSporkActive, lastSigned, threads, spork, voted>>

\* The block has data now, and is a candidate if it sorts before the tip.
ReceivedBlockTransactions(b) ==
    /\ arrived' = [arrived EXCEPT ![Height[b]] = Append(@, b)]
    /\ candidates' = IF Height[b] > Height[tip] THEN candidates \cup {b} ELSE candidates

\* AcceptBlock of a requested block whose header is in the index; ProcessNewBlock
\* goes on to ActivateBestChain, for a duplicate as well.
AcceptBlock(b) ==
    /\ blk = "idle"
    /\ b \in known \ (failed \cup {Genesis})
    /\ Parent[b] \in data
    /\ IF b \in data THEN UNCHANGED <<arrived, candidates>> ELSE ReceivedBlockTransactions(b)
    /\ blk' = "activate"
    /\ UNCHANGED <<known, conflictFlag, failed, incomplete, tip, activator, mostWork, locks,
                   proc, sched, spork, voted>>

\* The superblock trigger a block was missing arrives.
TriggerArrives(b) ==
    /\ b \in incomplete
    /\ incomplete' = incomplete \ {b}
    /\ UNCHANGED <<known, conflictFlag, failed, arrived, chain, locks, threads, spork, voted>>

-----------------------------------------------------------------------------
(* ActivateBestChain.                                                      *)

\* Mutant: ConnectBlock does not look at chain locks.
ConnectFails_NoLockCheck(b) == b \in incomplete

\* ConnectBlock rejects the block.
ConnectFails(b) == HasConflictingChainLock(Height[b], b) \/ b \in incomplete

\* ActivateBestChainStep towards mw: disconnect to the fork, then connect until a
\* block is better than the old tip, mw is reached, or a block fails.
StepToConnect(mw) == {b \in Path[mw] \ Path[tip] : Height[b] <= Height[tip] + 1}

StepConnected(mw) ==
    {b \in StepToConnect(mw) : \A x \in Path[b] \cap StepToConnect(mw) : ~ConnectFails(x)}

StepTip(mw) ==
    LET reached == (Path[mw] \cap Path[tip]) \cup StepConnected(mw)
    IN  CHOOSE b \in reached : \A x \in reached : Height[x] <= Height[b]

StepFailed(mw, new) == {b \in StepToConnect(mw) \ StepConnected(mw) : Parent[b] = new}

\* The thread is inside ActivateBestChain; and what it does when it returns.
Activates(t) == IF t = "blk" THEN blk = "activate" ELSE sched.pc = "activate"

Return(t) ==
    IF t = "blk" THEN blk' = "idle" /\ UNCHANGED sched
                 ELSE sched' = [sched EXCEPT !.pc = "notify"] /\ UNCHANGED blk

\* PruneBlockIndexCandidates, after a block was connected.
Pruned(left, new) == IF new \in Path[tip] THEN left ELSE {b \in left : NotWorse(b, new)}

\* One turn of the loop of ActivateBestChain, under cs_main.  Between two turns
\* cs_main is free and pindexMostWork is kept, unless an invalid block was found.
ActivateBestChain(t) ==
    /\ Activates(t)
    /\ activator \in {"none", t}
    /\ \E mw \in {IF mostWork = NoBlock THEN FindMostWorkChain ELSE mostWork} :
       \E new \in {IF mw = NoBlock THEN tip ELSE StepTip(mw)} :
       \E bad \in {IF mw = NoBlock THEN {} ELSE StepFailed(mw, new)} :
       LET refused == IF mostWork = NoBlock THEN Refused(mw) ELSE {}
           marked == IF mostWork = NoBlock THEN FailedChildren(mw) ELSE {}
           done == mw \in {NoBlock, tip} \/ (bad = {} /\ new = mw)
       IN  /\ failed' = failed \cup marked \cup bad
           /\ tip' = new
           /\ candidates' = Pruned(candidates \ (refused \cup marked \cup bad), new)
           /\ activator' = IF done THEN "none" ELSE t
           /\ mostWork' = IF done \/ bad # {} THEN NoBlock ELSE mw
           /\ IF done THEN Return(t) ELSE UNCHANGED <<blk, sched>>
    /\ UNCHANGED <<known, conflictFlag, arrived, incomplete, locks, proc, spork, voted>>

-----------------------------------------------------------------------------
(* ProcessNewChainLock, by a message or by a recovered signature.          *)

\* First section: each CLSIG once, and only one that is higher than the best.
BeginChainLock(t, c) ==
    /\ proc[t].pc = "idle"
    /\ c \notin seen
    /\ seen' = seen \cup {c}
    /\ proc' = IF c.nHeight <= bestHeight
               THEN proc ELSE [proc EXCEPT ![t] = [pc |-> "verify", sig |-> c]]
    /\ UNCHANGED <<index, chain, best, bestIndex, lastNotify, isEnforced, isSporkActive,
                   lastSigned, blk, sched, spork, voted>>

\* ProcessMessage
ReceiveCLSig(c) == spork /\ BeginChainLock("net", c)

\* HandleNewRecoveredSig: only the signature of the last thing this node signed.
HandleNewRecoveredSig(c) ==
    /\ isSporkActive
    /\ c = lastSigned
    /\ bestHeight < c.nHeight
    /\ BeginChainLock("sig", c)

\* VerifyRecoveredSig: no quorum can be selected, and the check fails, when the
\* signing height is too far above the tip.
VerifyChainLock(t) ==
    /\ proc[t].pc = "verify"
    /\ proc' = IF proc[t].sig.nHeight - SignHeightOffset > Height[tip]
               THEN [proc EXCEPT ![t] = [pc |-> "idle", sig |-> NoSig]]
               ELSE [proc EXCEPT ![t].pc = "apply"]
    /\ UNCHANGED <<index, chain, locks, blk, sched, spork, voted>>

\* Last section.  The lock's block may be unknown, then bestIndex stays behind.
ApplyChainLock(t) ==
    /\ proc[t].pc = "apply"
    /\ LET c == proc[t].sig
       IN  IF HasConflictingChainLock(c.nHeight, c.block)
           THEN UNCHANGED <<best, bestIndex>>
           ELSE /\ best' = c
                /\ bestIndex' = IF c.block \in known /\ Height[c.block] = c.nHeight
                                THEN c.block ELSE bestIndex
    /\ proc' = [proc EXCEPT ![t] = [pc |-> "idle", sig |-> NoSig]]
    /\ UNCHANGED <<index, chain, lastNotify, seen, isEnforced, isSporkActive, lastSigned,
                   blk, sched, spork, voted>>

-----------------------------------------------------------------------------
(* The scheduler thread: CheckActiveState, EnforceBestChainLock and, when  *)
(* it was not ProcessNewChainLock that scheduled it, TrySignChainTip.      *)

\* DIP0008 is ALWAYS_ACTIVE on the main network, so the spork decides.
CheckActiveState ==
    /\ sched.pc = "idle"
    /\ isSporkActive' = spork
    /\ isEnforced' = spork
    /\ IF ~isEnforced /\ spork
       THEN best' = NoSig /\ bestIndex' = NoBlock /\ lastNotify' = NoBlock
       ELSE UNCHANGED <<best, bestIndex, lastNotify>>
    /\ sched' = [sched EXCEPT !.pc = "enforce"]
    /\ UNCHANGED <<index, chain, seen, lastSigned, proc, blk, spork, voted>>

\* After EnforceBestChainLock.
AfterEnforce == {[pc |-> "sign", cur |-> NoBlock], Idle}

\* EnforceBestChainLock, section under cs: the block to enforce is read.
EnforceRead ==
    /\ sched.pc = "enforce"
    /\ IF isEnforced /\ bestIndex # NoBlock
       THEN sched' = [pc |-> "invalidate", cur |-> bestIndex]
       ELSE sched' \in AfterEnforce
    /\ UNCHANGED <<index, chain, locks, proc, blk, spork, voted>>

\* The siblings of the blocks between the locked block and the active chain.
Siblings(b) ==
    {x \in known \ {Genesis} : \E y \in OffChain(b) : x # y /\ Parent[x] = Parent[y]}

\* InvalidateBlock on every sibling: those that are active, with what is built on
\* them, are disconnected; blocks that sort no worse than the new tip become
\* candidates again.
Disconnected(siblings) == {x \in Path[tip] : Path[x] \cap siblings # {}}

Fork(b) == CHOOSE x \in Path[b] \cap Path[tip] :
              \A y \in Path[b] \cap Path[tip] : Height[y] <= Height[x]

AfterInvalidate(siblings, marked, new) ==
    IF siblings = {} THEN candidates
    ELSE (candidates \cup {x \in data : NotWorse(x, new)}) \ marked

\* ResetBlockFailureFlags clears the flags of b, its descendants and its ancestors;
\* b and its descendants become candidates, the ancestors do not.
ResetFlags(b) == {x \in known : b \in Path[x]} \cup Path[b]

ResetCandidates(b, marked, new) == {x \in data \cap marked : b \in Path[x] /\ Better(x, new)}

\* Mutant: failure flags are never reset.
EnforceInvalidate_NoReset ==
    /\ sched.pc = "invalidate"
    /\ \E siblings \in {Siblings(sched.cur)} :
       \E active \in {Disconnected(siblings)} :
       \E new \in {IF active = {} THEN tip ELSE Fork(sched.cur)} :
       LET b == sched.cur
           marked == failed \cup siblings \cup active
       IN  /\ tip' = new
           /\ failed' = marked
           /\ candidates' = AfterInvalidate(siblings, marked, new)
           /\ sched' = [sched EXCEPT !.pc = IF b \in Path[new] THEN "notify" ELSE "activate"]
    /\ UNCHANGED <<known, conflictFlag, arrived, incomplete, activator, mostWork, locks,
                   proc, blk, spork, voted>>

\* EnforceBestChainLock, section under cs_main: InvalidateBlock on every sibling,
\* which disconnects the active chain down to the fork, then ResetBlockFailureFlags
\* when the locked block is marked failed or has no data yet.
EnforceInvalidate ==
    /\ sched.pc = "invalidate"
    /\ \E siblings \in {Siblings(sched.cur)} :
       \E active \in {Disconnected(siblings)} :
       \E new \in {IF active = {} THEN tip ELSE Fork(sched.cur)} :
       LET b == sched.cur
           marked == failed \cup siblings \cup active
           valid == b \in data \ marked
           left == AfterInvalidate(siblings, marked, new)
       IN  /\ tip' = new
           /\ failed' = IF valid THEN marked ELSE marked \ ResetFlags(b)
           /\ candidates' = IF valid THEN left ELSE left \cup ResetCandidates(b, marked, new)
           /\ sched' = [sched EXCEPT !.pc = IF b \in Path[new] THEN "notify" ELSE "activate"]
    /\ UNCHANGED <<known, conflictFlag, arrived, incomplete, activator, mostWork, locks,
                   proc, blk, spork, voted>>

\* EnforceBestChainLock, last section: listeners hear of a lock once it is active.
EnforceNotify ==
    /\ sched.pc = "notify"
    /\ lastNotify' = IF sched.cur \in Path[tip] THEN sched.cur ELSE lastNotify
    /\ sched' \in AfterEnforce
    /\ UNCHANGED <<index, chain, best, bestIndex, seen, isEnforced, isSporkActive,
                   lastSigned, proc, blk, spork, voted>>

\* TrySignChainTip: the tip is read under cs_main.
SignReadTip ==
    /\ sched.pc = "sign"
    /\ sched' = IF tip = Genesis THEN Idle ELSE [pc |-> "signcheck", cur |-> tip]
    /\ UNCHANGED <<index, chain, locks, proc, blk, spork, voted>>

\* The checks under cs.
SignCheck ==
    /\ sched.pc = "signcheck"
    /\ LET b == sched.cur
       IN  sched' = IF /\ isSporkActive
                       /\ lastSigned = NoSig \/ lastSigned.nHeight # Height[b]
                       /\ bestHeight < Height[b]
                       /\ ~HasConflictingChainLock(Height[b], b)
                    THEN [sched EXCEPT !.pc = "signcommit"] ELSE Idle
    /\ UNCHANGED <<index, chain, locks, proc, blk, spork, voted>>

\* Some transaction of the tip or of the five blocks below it is neither locked
\* nor old enough.
SignUnsafe ==
    /\ sched.pc = "signcommit"
    /\ sched' = Idle
    /\ UNCHANGED <<index, chain, locks, proc, blk, spork, voted>>

\* The last section under cs, and AsyncSignIfMember, which votes once per height.
SignCommit ==
    /\ sched.pc = "signcommit"
    /\ LET b == sched.cur
       IN  IF bestHeight >= Height[b]
           THEN UNCHANGED <<lastSigned, voted>>
           ELSE /\ lastSigned' = [nHeight |-> Height[b], block |-> b]
                /\ voted' = [voted EXCEPT ![Height[b]] = IF @ = NoBlock THEN b ELSE @]
    /\ sched' = Idle
    /\ UNCHANGED <<index, chain, best, bestIndex, lastNotify, seen, isEnforced,
                   isSporkActive, proc, blk, spork>>

\* Cleanup: a CLSIG seen a day ago may be received again.
ForgetSeen(c) ==
    /\ sched.pc = "sign"
    /\ c \in seen
    /\ seen' = seen \ {c}
    /\ UNCHANGED <<index, chain, best, bestIndex, lastNotify, isEnforced, isSporkActive,
                   lastSigned, threads, spork, voted>>

-----------------------------------------------------------------------------
(* Environment.                                                            *)

SwitchSpork ==
    /\ spork' = ~spork
    /\ UNCHANGED <<index, chain, locks, threads, voted>>

\* The orders in which blocks of equal work may come out of the block index
\* database: nSequenceId is not stored, and ties are decided by address.
Reordered(s) == Bijection(DOMAIN s, Range(s))

\* Blocks below which another one failed: FindMostWorkChain does not mark the index
\* entries dirty that it flags BLOCK_FAILED_CHILD, so these flags may not be saved.
FailedBelow == {x \in failed : (Path[x] \ {x}) \cap failed # {}}

\* The process shuts down in order and starts again.  The block index, the tip and
\* the votes are on disk; chain locks are not, and the candidates are rebuilt.  A
\* restart that reorders the blocks of several heights is one for each in a row.
Restart ==
    /\ \E h \in Heights : \E s \in Reordered(arrived[h]) : arrived' = [arrived EXCEPT ![h] = s]
    /\ \E lost \in SUBSET FailedBelow : failed' = failed \ lost
    /\ UNCHANGED <<known, conflictFlag, incomplete, tip, spork, voted>>
    /\ candidates' = {x \in data \ failed' : NotWorse(x, tip)'}
    /\ activator' = "none" /\ mostWork' = NoBlock
    /\ best' = NoSig /\ bestIndex' = NoBlock /\ lastNotify' = NoBlock /\ lastSigned' = NoSig
    /\ seen' = {}
    /\ isEnforced' = FALSE /\ isSporkActive' = FALSE
    /\ proc' = [t \in {"net", "sig"} |-> [pc |-> "idle", sig |-> NoSig]]
    /\ blk' = "activate"
    /\ sched' = Idle

ChainLockStep(t) == VerifyChainLock(t) \/ ApplyChainLock(t)

SchedulerStep ==
    \/ CheckActiveState
    \/ EnforceRead
    \/ EnforceInvalidate
    \/ ActivateBestChain("sched")
    \/ EnforceNotify
    \/ SignReadTip
    \/ SignCheck
    \/ SignUnsafe
    \/ SignCommit

Arrival ==
    \/ \E b \in Block \ {Genesis} : AcceptBlockHeader(b)
    \/ \E b \in known : AcceptBlock(b)
    \/ \E b \in incomplete : TriggerArrives(b)
    \/ \E c \in CLSig : ReceiveCLSig(c)
    \/ \E c \in CLSig : HandleNewRecoveredSig(c)

Next ==
    \/ \E t \in {"net", "sig"} : ChainLockStep(t)
    \/ ActivateBestChain("blk")
    \/ SchedulerStep
    \/ Arrival
    \/ \E c \in seen : ForgetSeen(c)
    \/ SwitchSpork
    \/ Restart

Spec == Init /\ [][Next]_vars

\* The thread that stores blocks keeps running and the scheduler is called every 5
\* seconds.  Restarts and changes of the spork may go on for ever.
LiveSpec ==
    /\ Spec
    /\ WF_vars(ActivateBestChain("blk"))
    /\ WF_vars(SchedulerStep)

\* Besides, peers keep offering the headers the node does not have.
HeaderSpec == LiveSpec /\ WF_vars(\E b \in Block \ {Genesis} : AcceptBlockHeader(b))

-----------------------------------------------------------------------------
(* Properties.                                                             *)

\* The state is well formed: what the threads hold on to, the tip and the votes
\* are blocks whose header or data the node has.
TypeOK ==
    /\ known \subseteq Block
    /\ conflictFlag \subseteq known /\ failed \subseteq known
    /\ arrived \in [Heights -> Seq(Block)]
    /\ incomplete \subseteq Incomplete
    /\ tip \in data /\ mostWork \in data \cup {NoBlock}
    /\ candidates \subseteq data \ failed
    /\ activator \in {"none", "blk", "sched"}
    /\ best \in CLSig \cup {NoSig}
    /\ bestIndex \in known \cup {NoBlock} /\ lastNotify \in known \cup {NoBlock}
    /\ seen \subseteq CLSig
    /\ isEnforced \in BOOLEAN /\ isSporkActive \in BOOLEAN /\ spork \in BOOLEAN
    /\ lastSigned \in [nHeight : Heights, block : data] \cup {NoSig}
    /\ voted \in [Heights -> data \cup {NoBlock}]
    /\ proc \in [{"net", "sig"} -> [pc : {"idle", "verify", "apply"}, sig : CLSig \cup {NoSig}]]
    /\ blk \in {"idle", "activate"}
    /\ sched \in [pc : {"idle", "enforce", "invalidate", "activate", "notify", "sign",
                        "signcheck", "signcommit"}, cur : data \cup known \cup {NoBlock}]

\* A lock whose block is in the block index is the lock that is enforced, whether
\* the CLSIG or the header came first (ProcessNewChainLock bails out when the
\* header is missing, AcceptedBlockHeader catches up).
BestLockIsLinked ==
    best # NoSig /\ best.block \in known /\ Height[best.block] = best.nHeight
        => bestIndex = best.block

\* FindMostWorkChain relies on "all blocks in [the active chain] are valid already":
\* no block marked failed is part of it, although the scheduler invalidates blocks
\* while another thread is between two steps towards its cached pindexMostWork.
ActiveChainNotFailed == Path[tip] \cap failed = {}

\* CheckBlockIndex: "chainActive.Tip() must also be there", in setBlockIndexCandidates,
\* while no thread is activating a chain.
TipIsCandidate == activator = "none" => tip \in candidates

\* No step puts another block in the place of an active block that the enforced
\* lock covers: the chain may be cut below it, but nothing conflicting is connected.
LockedNeverReplaced ==
    [][\A b \in Path[tip] :
          HasChainLock(Height[b], b) /\ Height[tip'] >= Height[b] => b \in Path[tip']]_vars

\* ProcessNewChainLock: "In this case, we don't allow him to reorg older
\* chainlocks".  A block whose lock was announced to the listeners is not replaced
\* while locks are enforced.
OlderLockNotReorged ==
    [][isEnforced /\ lastNotify # NoBlock /\ Height[tip'] >= Height[lastNotify]
          => lastNotify \in Path[tip']]_vars

\* ProcessNewChainLock: "no need to process/relay older CLSIGs".  A best lock is
\* only replaced by a higher one.
BestLockNeverOlder == [][best # NoSig /\ best' # NoSig => best'.nHeight >= best.nHeight]_vars

\* TrySignChainTip: "don't sign if another conflicting CLSIG is already present".
SignedTipFollowsLock ==
    [][\A h \in Heights :
          voted'[h] # voted[h] /\ isEnforced /\ bestIndex # NoBlock
              => voted'[h] \in Path[bestIndex] \/ bestIndex \in Path[voted'[h]]]_vars

\* Once the same locked block stays the enforced one and its chain is complete and
\* valid, the node ends up on it for good, whatever other branches arrive.
LockedChainWins ==
    \A b \in {c.block : c \in CLSig} :
        <>[](isEnforced /\ bestIndex = b /\ b \in data /\ Path[b] \cap incomplete = {})
            => <>[](b \in Path[tip])

\* ProcessNewChainLock: "when the block or the header later comes in, we will
\* enforce the correct chain".
LateHeaderIsEnforced ==
    \A c \in CLSig : []<>(best = c => bestIndex = c.block)

=============================================================================
