---------------------------- MODULE InstantSend -----------------------------
(***************************************************************************)
(* LLMQ based InstantSend on one masternode: CInstantSendManager and       *)
(* CInstantSendDb (llmq/quorums_instantsend.cpp) with the parts of         *)
(* validation.cpp that drive it: AcceptToMemoryPool, ConnectTip,           *)
(* DisconnectTip, ActivateBestChain and the conflict removal tracker.      *)
(*                                                                         *)
(* Threads: whoever holds cs_main ("main": mempool acceptance and chain    *)
(* activation, with the SyncTransaction calls they make), the InstantSend  *)
(* worker ("work") and the signing thread that delivers recovered          *)
(* signatures ("sig").  An action is one section under cs, cs_main or      *)
(* mempool.cs, and the sections of different threads interleave.  ProcessTx *)
(* takes cs several times; it is one step here, as the signing manager's   *)
(* one vote per id is all it needs from its own earlier checks.            *)
(*                                                                         *)
(* Signatures come from the quorum as in QuorumOracle: on each input it    *)
(* signs at most one transaction, Winner, and it signs the lock of a       *)
(* transaction only if that transaction won all its inputs.  This covers   *)
(* the signature a node rebuilds from a received lock.  The archive of     *)
(* removed locks only keeps a node from asking peers for them; a lock that *)
(* is pushed to it is processed again, as here.                            *)
(***************************************************************************)
EXTENDS BlockTree, FiniteSets, Functions, Sequences

CONSTANTS
    Tx,             \* transactions under consideration
    Coin,           \* ids of old, deeply confirmed transactions
    Inputs,         \* Inputs[t]: the outpoints <<txid, n>> spent by t
    Winner,         \* Winner[o]: the transaction the quorum signs for outpoint o
    Contents,       \* Contents[b]: the transactions of block b, in order
    Confirmations,  \* nInstantSendConfirmationsRequired
    KeepLock,       \* nInstantSendKeepLock
    ChainLocksOn,   \* SPORK_19_CHAINLOCKS_ENABLED
    StartSynced,    \* masternodeSync.IsBlockchainSynced() at the start
    Serial,         \* TRUE: a handler starts only when no other is running
    Restarts,       \* bound on restarts of the node
    NoTx, NoBlock

Outpoint == UNION {Inputs[t] : t \in Tx}

ASSUME InstantSendAssumption ==
    /\ Inputs \in [Tx -> (SUBSET ((Tx \cup Coin) \X Nat)) \ {{}}]
    /\ Winner \in [Outpoint -> Tx]
    /\ \A b \in Block : Contents[b] \in Seq(Tx)
    /\ Confirmations \in Nat /\ KeepLock \in Nat /\ Restarts \in Nat
    /\ ChainLocksOn \in BOOLEAN /\ StartSynced \in BOOLEAN /\ Serial \in BOOLEAN
    /\ NoTx \notin Tx /\ NoBlock \notin Block /\ Tx \cap Coin = {}

Descendants(b) == {x \in Block : b \in Path[x]}

\* CInstantSendLock::GetRequestId hashes the inputs, so transactions that
\* spend the same outpoints share it.
InputId(o) == <<"inlock", {o}>>
LockId(t) == <<"islock", Inputs[t]>>
Id == {InputId(o) : o \in Outpoint} \cup {LockId(t) : t \in Tx}

\* Transactions whose lock the quorum may sign.
Lockable == {t \in Tx : \A o \in Inputs[t] : Winner[o] = t}

Conflict(t, u) == t # u /\ Inputs[t] \cap Inputs[u] # {}
Spends(t, x) == \E o \in Inputs[t] : o[1] = x

\* CTxMemPool::CalculateDescendants: S and what descends from it in pool
WithDescendants(S, pool) ==
    LET Closed(D) == S \subseteq D /\ \A t \in pool : (\E x \in D : Spends(t, x)) => t \in D
    IN  {t \in S \cup pool : \A D \in SUBSET (S \cup pool) : Closed(D) => t \in D}

\* The orders in which a set of removed transactions may be signalled
Orders(S) == {s \in UNION {[1..n -> S] : n \in 0..Cardinality(S)} : Range(s) = S}

VARIABLES
    \* validation.cpp
    mempool,
    have,        \* blocks whose data arrived, in order of arrival
    failed,      \* BLOCK_FAILED_MASK
    tip,
    txIndex,     \* the block the transaction index names for a txid
    cl,          \* the block of the best ChainLock (HasChainLock holds below it)
    notified,    \* the last block given to NotifyChainLock
    main,        \* what the holder of cs_main is doing
    \* CSigningManager
    vote, rec,   \* per request id: this node's vote, the recovered signature
    \* CInstantSendDb
    db,          \* is_i, is_tx, is_in, is_m
    \* CInstantSendManager
    nonLocked,   \* nonLockedTxs: txid -> [tx, children, mined]
    byInputs,    \* nonLockedTxsByInputs: <<outpoint, txid>>
    retry,       \* pendingRetryTxs
    creating,    \* creatingInstantSendLocks: the transaction per request id
    toCreating,  \* txToCreatingInstantSendLocks
    inputIds,    \* inputRequestIds, as outpoints
    pending,     \* pendingInstantSendLocks
    proc,        \* where "work" and "sig" are in ProcessInstantSendLock
    work,        \* the worker's local batches
    synced,      \* masternodeSync.IsBlockchainSynced()
    restarts,
    met          \* history: locks whose transaction was tracked when they were stored

chain == <<mempool, have, failed, tip, txIndex, main>>
locksV == <<cl, notified>>
signing == <<vote, rec>>
tracker == <<nonLocked, byInputs, retry>>
making == <<creating, toCreating, inputIds>>
threads == <<proc, work, pending>>
rest == <<synced, restarts, met>>
vars == <<chain, locksV, signing, db, tracker, making, threads, rest>>

Idle == [job |-> "idle", tx |-> NoTx, old |-> NoBlock, target |-> NoBlock,
         evicted |-> <<>>, connected |-> <<>>, calls |-> <<>>, sync |-> "start", skip |-> FALSE]

NoProc == [pc |-> "idle", lock |-> NoTx, mined |-> NoBlock, conflicts |-> {}]

EmptyMap == [x \in {} |-> NoTx]

Init ==
    /\ mempool = {}
    /\ have = <<Genesis>>
    /\ failed = {}
    /\ tip = Genesis
    /\ txIndex = [x \in Tx \cup Coin |-> IF x \in Coin THEN Genesis ELSE NoBlock]
    /\ cl = Genesis
    /\ notified = Genesis
    /\ main = Idle
    /\ vote = [id \in Id |-> NoTx]
    /\ rec = [id \in Id |-> NoTx]
    /\ db = [i |-> {}, tx |-> {}, in |-> [o \in Outpoint |-> NoTx], m |-> {}]
    /\ nonLocked = EmptyMap
    /\ byInputs = {}
    /\ retry = {}
    /\ creating = EmptyMap
    /\ toCreating = {}
    /\ inputIds = {}
    /\ pending = {}
    /\ proc = [th \in {"work", "sig"} |-> NoProc]
    /\ work = [locks |-> {}, txs |-> {}]
    /\ synced = StartSynced
    /\ restarts = 0
    /\ met = {}

-----------------------------------------------------------------------------
(* CInstantSendDb.  A lock is named by its transaction.                    *)

WriteNewInstantSendLock(d, t) ==
    [d EXCEPT !.i = @ \cup {t}, !.tx = @ \cup {t},
              !.in = [o \in Outpoint |-> IF o \in Inputs[t] THEN t ELSE @[o]]]

\* Mutant: the entries by input stay.
RemoveWithoutInputs(d, S) == [d EXCEPT !.i = @ \ S, !.tx = @ \ S]

\* RemoveInstantSendLock for each lock of a set that is stored
RemoveInstantSendLocks(d, S) ==
    LET gone == UNION {Inputs[t] : t \in S \cap d.i}
    IN  [d EXCEPT !.i = @ \ S, !.tx = @ \ (S \cap d.i),
                  !.in = [o \in Outpoint |-> IF o \in gone THEN NoTx ELSE @[o]]]

\* GetInstantSendLocksByParent scans is_in, not is_i.
RemoveChainedInstantSendLocks(d, S) ==
    RemoveInstantSendLocks(d, WithDescendants(S, {d.in[o] : o \in Outpoint} \cap d.i))

\* The locks with an is_m record at or below h
Confirmed(d, h) == {t \in d.i : \E k \in 0..h : <<k, t>> \in d.m}

RemoveConfirmedInstantSendLocks(d, h) ==
    [RemoveInstantSendLocks(d, Confirmed(d, h)) EXCEPT !.m = {r \in @ : r[1] > h}]

IsLocked(x) == x \in db.tx /\ x \in db.i

\* The locks GetConflictingLock may return
ConflictingLocks(d, t) == {d.in[o] : o \in Inputs[t]} \cap (d.i \ {t})

IsConflicted(t) == ConflictingLocks(db, t) # {}

-----------------------------------------------------------------------------
(* nonLockedTxs and its indices, as operators on [nonLocked, byInputs,     *)
(* retry].                                                                 *)

Tracker == [nonLocked |-> nonLocked, byInputs |-> byInputs, retry |-> retry]

SetTracker(T) == nonLocked' = T.nonLocked /\ byInputs' = T.byInputs /\ retry' = T.retry

Placeholder == [tx |-> FALSE, children |-> {}, mined |-> NoBlock]

Parents(t) == {o[1] : o \in Inputs[t]}

\* The index by inputs is filled only when the entry itself is new.
AddNonLockedTx(T, t, mined) ==
    LET N == T.nonLocked
        known == t \in DOMAIN N /\ N[t].tx
        touched == IF known THEN {t} ELSE {t} \cup Parents(t)
        Old(x) == IF x \in DOMAIN N THEN N[x] ELSE Placeholder
    IN  [T EXCEPT
            !.nonLocked = [x \in DOMAIN N \cup touched |->
                [tx |-> Old(x).tx \/ x = t,
                 children |-> IF x \in touched \ {t} THEN Old(x).children \cup {t}
                                                     ELSE Old(x).children,
                 mined |-> IF x = t THEN mined ELSE Old(x).mined]],
            !.byInputs = IF t \in DOMAIN N THEN @ ELSE @ \cup (Inputs[t] \X {t})]

\* Mutant: placeholders without children are left behind.
RemoveKeepingEmpty(T, S, R) ==
    LET N == T.nonLocked
        full == {t \in S \cap DOMAIN N : N[t].tx}
    IN  [nonLocked |-> [x \in DOMAIN N \ S |-> [N[x] EXCEPT !.children = @ \ full]],
         byInputs |-> {e \in T.byInputs : e[1] \notin UNION {Inputs[t] : t \in full}},
         retry |-> T.retry \cup R]

\* RemoveNonLockedTx for each of S, with the children R put up for a retry.  Every
\* entry of the index under a spent outpoint goes, whoever spends it.
RemoveNonLockedTxs(T, S, R) ==
    LET N == T.nonLocked
        removed == S \cap DOMAIN N
        full == {t \in removed : N[t].tx}
        empty == {x \in (UNION {Parents(t) : t \in full}) \cap DOMAIN N :
                     ~N[x].tx /\ N[x].children \subseteq full}
        spent == UNION {Inputs[t] : t \in full}
    IN  [nonLocked |-> [x \in DOMAIN N \ (removed \cup empty) |->
                           [N[x] EXCEPT !.children = @ \ full]],
         byInputs |-> {e \in T.byInputs : e[1] \notin spent},
         retry |-> T.retry \cup R]

Children(T, S) == UNION {T.nonLocked[t].children : t \in S \cap DOMAIN T.nonLocked}

\* Mutant: children are not put up for a retry.
RemoveNoRetry(T, t) == RemoveNonLockedTxs(T, {t}, {})

RemoveNonLockedTx(T, t) == RemoveNonLockedTxs(T, {t}, Children(T, {t}))

\* RemoveConflictedTx puts up no children.  It also erases request ids, but hashes
\* the CTxIn instead of its outpoint, so that no id of inputRequestIds is hit.
RemoveConflictedTxs(T, S) == RemoveNonLockedTxs(T, S, {})

-----------------------------------------------------------------------------
(* Locking a transaction.  The manager's part of the state as a record     *)
(* [vote, creating, toCreating, inputIds], so that a call can be made from *)
(* several actions.                                                        *)

Locking == [vote |-> vote, creating |-> creating, toCreating |-> toCreating,
            inputIds |-> inputIds]

SetLocking(L) ==
    /\ vote' = L.vote
    /\ creating' = L.creating
    /\ toCreating' = L.toCreating
    /\ inputIds' = L.inputIds

HasChainLock(b) == b \in Path[cl]

\* The mined block GetTransaction reports, NoBlock when it finds the transaction in
\* the mempool or not at all.  The index is not cleaned when a block is disconnected.
MinedBlock(x) == IF x \in mempool THEN NoBlock ELSE txIndex[x]

\* CheckCanLock of one outpoint.  Genesis stands for every block deep enough.
CheckCanLockOutpoint(o) ==
    LET b == MinedBlock(o[1])
    IN  \/ IsLocked(o[1])
        \/ /\ b # NoBlock
           /\ \/ b = Genesis
              \/ Height[tip] - Height[b] + 1 >= Confirmations
              \/ HasChainLock(b)

CheckCanLock(t) == \A o \in Inputs[t] : CheckCanLockOutpoint(o)

\* CSigningManager::AsyncSignIfMember: one vote per id, none once it is recovered.
Vote(L, r, ids, t) ==
    [L EXCEPT !.vote = [id \in Id |->
        IF id \in ids /\ @[id] = NoTx /\ r[id] = NoTx THEN t ELSE @[id]]]

\* TrySignInstantSendLock with the recovered signatures r.
TrySignInstantSendLock(L, r, t) ==
    IF /\ \A o \in Inputs[t] : r[InputId(o)] = t
       /\ r[LockId(t)] = NoTx
       /\ LockId(t) \notin DOMAIN L.creating
    THEN Vote([L EXCEPT
                  !.creating = [id \in DOMAIN @ \cup {LockId(t)} |->
                                   IF id = LockId(t) THEN t ELSE @[id]],
                  !.toCreating = @ \cup {t}], r, {LockId(t)}, t)
    ELSE L

ProcessTx(t) ==
    LET ids == {InputId(o) : o \in Inputs[t]}
        free == \A id \in ids : vote[id] \in {NoTx, t} /\ rec[id] \in {NoTx, t}
        all == \A id \in ids : vote[id] = t
    IN  IF IsConflicted(t) \/ ~CheckCanLock(t) \/ ~free \/ all
        THEN Locking
        ELSE TrySignInstantSendLock(
                 Vote([Locking EXCEPT !.inputIds = @ \cup Inputs[t]], rec, ids, t), rec, t)

-----------------------------------------------------------------------------
(* Validation, under cs_main.                                              *)

\* Most work, then first received; the tip keeps its place among equals.
FindMostWorkChain ==
    LET usable == {i \in DOMAIN have : Path[have[i]] \cap failed = {}}
        Better(i, j) == \/ Height[have[i]] > Height[have[j]]
                        \/ Height[have[i]] = Height[have[j]] /\ i <= j
    IN  have[CHOOSE i \in usable : \A j \in usable : Better(i, j)]

Best == LET most == FindMostWorkChain
        IN  IF tip \notin failed /\ Height[most] = Height[tip] THEN tip ELSE most

WorkerFree == work = [locks |-> {}, txs |-> {}] /\ proc["work"] = NoProc

\* No handler is running and the best chain is active.
AtRest ==
    /\ main.job = "idle" /\ WorkerFree /\ proc["sig"] = NoProc
    /\ Best = tip

MayStart == Serial => AtRest

ChainTxs(b) == UNION {Range(Contents[x]) : x \in Path[b]}

\* Mutant: no check against the stored locks.
AcceptUnlessSpent(t, pool, b) ==
    /\ t \notin pool
    /\ \A u \in pool : ~Conflict(t, u)
    /\ \A o \in Inputs[t] :
          /\ o[1] \in Coin \cup pool \cup ChainTxs(b)
          /\ \A u \in ChainTxs(b) : o \notin Inputs[u]

\* AcceptToMemoryPool's checks on a pool on top of block b
Acceptable(t, pool, b) ==
    /\ t \notin pool
    /\ ~IsConflicted(t)
    /\ \A u \in pool : ~Conflict(t, u)
    /\ \A o \in Inputs[t] :
          /\ o[1] \in Coin \cup pool \cup ChainTxs(b)
          /\ \A u \in ChainTxs(b) : o \notin Inputs[u]

Call(t, pindex, inBlock) == [tx |-> t, pindex |-> pindex, inBlock |-> inBlock]

CallAll(seq, pindex, inBlock) == [i \in DOMAIN seq |-> Call(seq[i], pindex, inBlock)]

\* The checks and the insertion are two sections: the lock handler needs only cs.
AcceptToMemoryPool(t) ==
    /\ main.job = "idle"
    /\ Acceptable(t, mempool, tip)
    /\ MayStart
    /\ main' = [main EXCEPT !.job = "accept", !.tx = t]
    /\ UNCHANGED <<mempool, have, failed, tip, txIndex, locksV, signing, db, tracker, making,
                   threads, rest>>

AddToMemoryPool ==
    /\ main.job = "accept"
    /\ mempool' = mempool \cup {main.tx}
    /\ main' = [Idle EXCEPT !.job = "accepted", !.calls = <<Call(main.tx, NoBlock, FALSE)>>]
    /\ UNCHANGED <<have, failed, tip, txIndex, locksV, signing, db, tracker, making, threads,
                   rest>>

CsMainFree == main.job \in {"idle", "tip"}

ReceiveBlock(b) ==
    /\ CsMainFree
    /\ b \notin Range(have)
    /\ Parent[b] \in Range(have)
    /\ MayStart
    /\ have' = Append(have, b)
    /\ UNCHANGED <<mempool, failed, tip, txIndex, main, locksV, signing, db, tracker, making,
                   threads, rest>>

ActivateBestChain ==
    /\ Serial => \A th \in DOMAIN proc : proc[th] = NoProc
    /\ main.job = "idle"
    /\ Best \in Block \ {tip}
    /\ main' = [main EXCEPT !.job = "walk", !.target = Best,
                            !.old = IF tip \in failed THEN Best ELSE tip]
    /\ UNCHANGED <<mempool, have, failed, tip, txIndex, locksV, signing, db, tracker, making,
                   threads, rest>>

\* DisconnectTip: the block's transactions go through AcceptToMemoryPool, which
\* signals the accepted ones; descendants of the others leave the pool.
Resurrect(pool, t) ==
    IF Acceptable(t, pool, Parent[tip]) THEN pool \cup {t}
    ELSE pool \ WithDescendants({t}, pool)

Increasing(I) == {at \in Orders(I) : \A j, k \in DOMAIN at : j < k => at[j] < at[k]}

DisconnectTip ==
    LET block == Contents[tip]
        accepted == {i \in DOMAIN block : block[i] \in mempool'}
    IN  /\ main.job = "walk" /\ main.calls = <<>>
        /\ tip \notin Path[main.target]
        /\ \E pools \in [0..Len(block) -> SUBSET Tx] :
              /\ pools[0] = mempool
              /\ \A i \in 1..Len(block) : pools[i] = Resurrect(pools[i - 1], block[i])
              /\ mempool' = pools[Len(block)]
        /\ \E at \in Increasing(accepted) :
              main' = [main EXCEPT !.job = "disconnect",
                          !.calls = [k \in DOMAIN at |-> Call(block[at[k]], NoBlock, FALSE)]]
        /\ UNCHANGED <<have, failed, tip, txIndex, locksV, signing, db, tracker, making, threads,
                       rest>>

\* ... then the tip moves and all of them are signalled with the previous block.
DisconnectTipDone ==
    /\ main.job = "disconnect" /\ main.calls = <<>>
    /\ tip' = Parent[tip]
    /\ main' = [main EXCEPT !.job = "walk", !.calls = CallAll(Contents[tip], Parent[tip], FALSE)]
    /\ UNCHANGED <<mempool, have, failed, txIndex, locksV, signing, db, tracker, making, threads,
                   rest>>

\* The end of ActivateBestChainStep: evictions are signalled, then the blocks.
Finish(m) ==
    LET calls == m.evicted \o m.connected
    IN  [m EXCEPT !.job = IF calls = <<>> THEN "tip" ELSE "last", !.calls = calls,
                  !.evicted = <<>>, !.connected = <<>>]

NextBlock(b) == b # Genesis /\ b \in Path[main.target] /\ Parent[b] = tip

\* ConnectBlock's InstantSend filter.  In a chain-locked block one conflicting lock
\* per transaction is dropped, with what is chained to it, and the code asserts that
\* the transaction has no other.
ConnectBlock ==
    /\ main.job = "walk" /\ main.calls = <<>>
    /\ \/ /\ tip = main.target
          /\ main' = Finish(main)
          /\ UNCHANGED <<failed, db>>
       \/ \E b \in Block :
          /\ NextBlock(b)
          /\ \E t \in Range(Contents[b]) : IsConflicted(t)
          /\ ~HasChainLock(b)
          /\ failed' = failed \cup Descendants(b)
          /\ main' = Finish(main)
          /\ UNCHANGED db
       \/ \E b \in Block :
          /\ NextBlock(b)
          /\ LET txs == Range(Contents[b])
             IN  /\ (\E t \in txs : IsConflicted(t)) => HasChainLock(b)
                 /\ \E S \in SUBSET UNION {ConflictingLocks(db, t) : t \in txs} :
                       /\ \A t \in txs :
                             IsConflicted(t) => Cardinality(S \cap ConflictingLocks(db, t)) = 1
                       /\ db' = RemoveChainedInstantSendLocks(db, S)
                 /\ main' = [main EXCEPT !.job =
                       IF \A t \in txs : ConflictingLocks(db', t) = {} THEN "connect" ELSE "abort"]
                 /\ UNCHANGED failed
    /\ UNCHANGED <<mempool, have, tip, txIndex, locksV, signing, tracker, making, threads, rest>>

\* The rest of ConnectTip: removeForBlock, the transaction index, UpdateTip.
ConnectTip ==
    /\ main.job = "connect"
    /\ \E b \in Block :
          LET mined == Range(Contents[b])
              evicted == WithDescendants({u \in mempool : \E t \in mined : Conflict(t, u)}, mempool)
          IN  /\ NextBlock(b)
              /\ mempool' = mempool \ (mined \cup evicted)
              /\ txIndex' = [x \in DOMAIN txIndex |-> IF x \in mined THEN b ELSE txIndex[x]]
              /\ tip' = b
              /\ \E s \in Orders(evicted) :
                    LET m == [main EXCEPT !.evicted = @ \o CallAll(s, NoBlock, FALSE),
                                          !.connected = @ \o CallAll(Contents[b], b, TRUE)]
                    IN  main' = IF b = main.target \/ Height[b] > Height[main.old]
                                THEN Finish(m) ELSE [m EXCEPT !.job = "walk"]
    /\ UNCHANGED <<have, failed, locksV, signing, db, tracker, making, threads, rest>>

-----------------------------------------------------------------------------
(* SyncTransaction, called by validation for the first of main.calls.      *)

InCall(pc) == main.calls # <<>> /\ main.sync = pc

\* The call returns; cs_main is released after the last one.
Returned ==
    LET rem == Tail(main.calls)
    IN  [main EXCEPT !.calls = rem, !.sync = "start", !.skip = FALSE,
                     !.job = CASE rem = <<>> /\ @ = "last" -> "tip"
                               [] rem = <<>> /\ @ = "accepted" -> "idle"
                               [] OTHER -> @]

SyncTransaction ==
    LET c == Head(main.calls)
        isDisconnect == c.pindex # NoBlock /\ ~c.inBlock
        locked == c.tx \in db.tx
    IN  /\ InCall("start")
        /\ IF isDisconnect /\ c.tx \notin mempool
           THEN /\ SetTracker(RemoveConflictedTxs(Tracker, {c.tx}))
                /\ main' = Returned
                /\ UNCHANGED db
           ELSE /\ db' = [db EXCEPT !.m =
                     IF ~locked \/ c.pindex = NoBlock THEN @
                     ELSE IF isDisconnect THEN @ \ {<<Height[c.pindex] + 1, c.tx>>}
                     ELSE @ \cup {<<Height[c.pindex], c.tx>>}]
                /\ main' = IF synced THEN [main EXCEPT !.sync = "process", !.skip = locked]
                                     ELSE Returned
                /\ UNCHANGED tracker
        /\ UNCHANGED <<mempool, have, failed, tip, txIndex, locksV, signing, making, threads, rest>>

SyncProcess ==
    LET c == Head(main.calls)
        skip == main.skip \/ (c.pindex # NoBlock /\ HasChainLock(c.pindex))
    IN  /\ InCall("process")
        /\ SetLocking(IF skip THEN Locking ELSE ProcessTx(c.tx))
        /\ main' = [main EXCEPT !.sync = "track", !.skip = skip]
        /\ UNCHANGED <<mempool, have, failed, tip, txIndex, locksV, rec, db, tracker, threads, rest>>

\* Mutant: pindexMined is not set.
SyncTrackUnmined ==
    LET c == Head(main.calls)
    IN  /\ InCall("track")
        /\ SetTracker(IF main.skip THEN RemoveNonLockedTx(Tracker, c.tx)
                      ELSE AddNonLockedTx(Tracker, c.tx, NoBlock))
        /\ main' = Returned
        /\ UNCHANGED <<mempool, have, failed, tip, txIndex, locksV, signing, db, making, threads,
                       rest>>

SyncTrack ==
    LET c == Head(main.calls)
    IN  /\ InCall("track")
        /\ SetTracker(IF main.skip THEN RemoveNonLockedTx(Tracker, c.tx)
                      ELSE AddNonLockedTx(Tracker, c.tx, IF c.inBlock THEN c.pindex ELSE NoBlock))
        /\ main' = Returned
        /\ UNCHANGED <<mempool, have, failed, tip, txIndex, locksV, signing, db, making, threads,
                       rest>>

-----------------------------------------------------------------------------
(* Confirmation.                                                           *)

\* The order of nonLockedTxs decides which of the removed children, extra, are put
\* up for a retry before they are removed themselves.
HandleFullyConfirmedBlock(b) ==
    LET gone == Confirmed(db, Height[b])
        erased == {InputId(o) : o \in UNION {Inputs[t] : t \in gone}} \cup {LockId(t) : t \in gone}
        buried == {x \in DOMAIN nonLocked : nonLocked[x].mined \in Path[b]}
        children == Children(Tracker, buried)
    IN  /\ db' = RemoveConfirmedInstantSendLocks(db, Height[b])
        /\ inputIds' = inputIds \ UNION {Inputs[t] : t \in gone}
        /\ rec' = [id \in Id |-> IF id \in erased THEN NoTx ELSE rec[id]]
        /\ \E extra \in SUBSET (children \cap buried) :
              SetTracker(RemoveNonLockedTxs(Tracker, buried, (children \ buried) \cup extra))

\* CChainLocksHandler (see ChainLocks): a new best ChainLock ...
NewChainLock(b) ==
    /\ ChainLocksOn
    /\ b \in Range(have) /\ cl \in Path[b] \ {b}
    /\ MayStart
    /\ cl' = b
    /\ UNCHANGED <<notified, chain, signing, db, tracker, making, threads, rest>>

\* ... is enforced: its chain is valid again, other chains are not ...
EnforceBestChainLock ==
    LET good == Path[cl] \cup Descendants(cl)
    IN  /\ main.job = "idle"
        /\ failed' = (failed \ good) \cup (Block \ good)
        /\ failed' # failed
        /\ MayStart
        /\ UNCHANGED <<mempool, have, tip, txIndex, main, locksV, signing, db, tracker, making,
                       threads, rest>>

\* ... and announced once it is on the active chain.
NotifyChainLock ==
    /\ cl # notified
    /\ cl \in Path[tip]
    /\ MayStart
    /\ notified' = cl
    /\ HandleFullyConfirmedBlock(cl)
    /\ UNCHANGED <<cl, chain, vote, creating, toCreating, threads, rest>>

UpdatedBlockTip ==
    LET b == CHOOSE x \in Path[tip] : Height[x] = Height[tip] - KeepLock
    IN  /\ main.job = "tip"
        /\ main' = Idle
        /\ IF ChainLocksOn \/ Height[tip] < KeepLock
           THEN UNCHANGED <<db, inputIds, rec, tracker>>
           ELSE HandleFullyConfirmedBlock(b)
        /\ UNCHANGED <<mempool, have, failed, tip, txIndex, locksV, vote, creating, toCreating,
                       threads, rest>>

-----------------------------------------------------------------------------
(* Signatures and locks.                                                   *)

\* The quorum's signature on an input is recovered: HandleNewRecoveredSig and
\* HandleNewInputLockRecoveredSig.
RecoverInput(o) ==
    LET t == Winner[o]
        r == [rec EXCEPT ![InputId(o)] = t]
        found == t \in mempool \/ txIndex[t] # NoBlock
    IN  /\ rec[InputId(o)] = NoTx
        /\ MayStart
        /\ rec' = r
        /\ SetLocking(IF o \in inputIds /\ found THEN TrySignInstantSendLock(Locking, r, t)
                                                 ELSE Locking)
        /\ UNCHANGED <<chain, locksV, db, tracker, threads, rest>>

WithoutLock(id) == [x \in DOMAIN creating \ {id} |-> creating[x]]

StartLock(t) == [NoProc EXCEPT !.pc = "lookup", !.lock = t]

\* ... and on a lock: HandleNewRecoveredSig and HandleNewInstantSendLockRecoveredSig.
RecoverLock(t) ==
    LET id == LockId(t)
        mine == id \in DOMAIN creating
    IN  /\ proc["sig"] = NoProc
        /\ rec[id] = NoTx
        /\ MayStart
        /\ rec' = [rec EXCEPT ![id] = t]
        /\ creating' = WithoutLock(id)
        /\ toCreating' = IF mine THEN toCreating \ {creating[id]} ELSE toCreating
        /\ proc' = IF mine /\ creating[id] = t THEN [proc EXCEPT !["sig"] = StartLock(t)] ELSE proc
        /\ UNCHANGED <<chain, locksV, vote, db, tracker, inputIds, work, pending, rest>>

\* ProcessMessageInstantSendLock
ReceiveISLock(t) ==
    /\ t \notin db.i \cup pending
    /\ MayStart
    /\ pending' = pending \cup {t}
    /\ UNCHANGED <<chain, locksV, signing, db, tracker, making, proc, work, rest>>

\* WorkThreadMain: ProcessPendingInstantSendLocks, then ProcessPendingRetryLockTxs.
TakePendingLocks ==
    /\ WorkerFree
    /\ pending # {}
    /\ MayStart
    /\ work' = [locks |-> pending, txs |-> {}]
    /\ pending' = {}
    /\ UNCHANGED <<chain, locksV, signing, db, tracker, making, proc, rest>>

NextPendingLock ==
    /\ proc["work"] = NoProc /\ work.locks # {}
    /\ Serial => main.job = "idle" /\ Best = tip
    /\ \E t \in work.locks :
          /\ proc' = [proc EXCEPT !["work"] = StartLock(t)]
          /\ work' = [work EXCEPT !.locks = @ \ {t}]
    /\ UNCHANGED <<chain, locksV, signing, db, tracker, making, pending, rest>>

TakePendingRetries ==
    /\ WorkerFree
    /\ retry # {}
    /\ MayStart
    /\ work' = [locks |-> {}, txs |-> retry]
    /\ retry' = {}
    /\ UNCHANGED <<chain, locksV, signing, db, nonLocked, byInputs, making, proc, pending, rest>>

RetryTx ==
    /\ \E t \in work.txs :
          LET skip == \/ t \notin DOMAIN nonLocked
                      \/ ~nonLocked[t].tx
                      \/ t \in toCreating
                      \/ IsLocked(t)
                      \/ IsConflicted(t)
          IN  /\ SetLocking(IF skip \/ ~synced THEN Locking ELSE ProcessTx(t))
              /\ work' = [work EXCEPT !.txs = @ \ {t}]
    /\ UNCHANGED <<chain, locksV, rec, db, tracker, proc, pending, rest>>

-----------------------------------------------------------------------------
(* ProcessInstantSendLock, section by section.                             *)

At(th, pc) == proc[th].pc = pc

Goto(th, pc) == proc' = [proc EXCEPT ![th].pc = pc]

Done(th) == proc' = [proc EXCEPT ![th] = NoProc]

\* Mutant: the lock of any mined transaction is dropped.
LookupUnmined(th) ==
    /\ At(th, "lookup")
    /\ CsMainFree
    /\ IF MinedBlock(proc[th].lock) # NoBlock THEN Done(th) ELSE Goto(th, "store")
    /\ UNCHANGED <<chain, locksV, signing, db, tracker, making, work, pending, rest>>

LookupTx(th) ==
    LET b == MinedBlock(proc[th].lock)
    IN  /\ At(th, "lookup")
        /\ CsMainFree
        /\ IF b # NoBlock /\ HasChainLock(b) THEN Done(th)
           ELSE proc' = [proc EXCEPT ![th].pc = "store", ![th].mined = b]
        /\ UNCHANGED <<chain, locksV, signing, db, tracker, making, work, pending, rest>>

\* Mutant: txToCreatingInstantSendLocks is not cleaned.
StoreLockKeepingCreating(th) ==
    LET t == proc[th].lock
    IN  /\ At(th, "store")
        /\ creating' = WithoutLock(LockId(t))
        /\ db' = WriteNewInstantSendLock(db, t)
        /\ SetTracker(RemoveNonLockedTx(Tracker, t))
        /\ Goto(th, "mempool")
        /\ UNCHANGED <<chain, locksV, signing, toCreating, inputIds, work, pending, rest>>

StoreLock(th) ==
    LET t == proc[th].lock
        b == proc[th].mined
        d == WriteNewInstantSendLock(db, t)
    IN  /\ At(th, "store")
        /\ creating' = WithoutLock(LockId(t))
        /\ toCreating' = toCreating \ {t}
        /\ IF t \in db.i
           THEN Done(th) /\ UNCHANGED <<db, tracker>>
           ELSE /\ db' = IF b = NoBlock THEN d ELSE [d EXCEPT !.m = @ \cup {<<Height[b], t>>}]
                /\ SetTracker(RemoveNonLockedTx(Tracker, t))
                /\ Goto(th, "mempool")
        /\ met' = IF t \notin db.i /\ t \in DOMAIN nonLocked THEN met \cup {t} ELSE met
        /\ UNCHANGED <<chain, locksV, signing, inputIds, work, pending, synced, restarts>>

\* The conflict removal tracker of a running activation hears of the removals.
RemoveMempoolConflictsForLock(th) ==
    LET conflicts == {u \in mempool : Conflict(u, proc[th].lock)}
        removed == WithDescendants(conflicts, mempool)
    IN  /\ At(th, "mempool")
        /\ mempool' = mempool \ removed
        /\ IF main.job \in {"walk", "disconnect", "connect"}
           THEN \E s \in Orders(removed) :
                   main' = [main EXCEPT !.evicted = @ \o CallAll(s, NoBlock, FALSE)]
           ELSE UNCHANGED main
        /\ SetTracker(RemoveConflictedTxs(Tracker, conflicts))
        /\ Goto(th, "conflicts")
        /\ UNCHANGED <<have, failed, tip, txIndex, locksV, signing, db, making, work, pending, rest>>

\* ResolveBlockConflicts: what the index knows of mined conflicts
BlockConflicts(t) ==
    {e[2] : e \in {x \in byInputs :
        /\ x[1] \in Inputs[t] /\ x[2] # t
        /\ x[2] \in DOMAIN nonLocked /\ nonLocked[x[2]].tx /\ nonLocked[x[2]].mined # NoBlock}}

ResolveBlockConflicts(th) ==
    LET conflicts == {<<u, nonLocked[u].mined>> : u \in BlockConflicts(proc[th].lock)}
    IN  /\ At(th, "conflicts")
        /\ proc' = [proc EXCEPT ![th] =
               IF conflicts = {} THEN NoProc
               ELSE [@ EXCEPT !.conflicts = conflicts,
                              !.pc = IF \E c \in conflicts : HasChainLock(c[2])
                                     THEN "prune" ELSE "invalidate"]]
        /\ UNCHANGED <<chain, locksV, signing, db, tracker, making, work, pending, rest>>

RemoveChainLockConflictingLock(th) ==
    /\ At(th, "prune")
    /\ CsMainFree
    /\ db' = RemoveChainedInstantSendLocks(db, {proc[th].lock})
    /\ Done(th)
    /\ UNCHANGED <<chain, locksV, signing, tracker, making, work, pending, rest>>

\* RemoveConflictedTx for the conflicts in one block, and InvalidateBlock, which
\* disconnects down to it: ActivateBestChain carries that out.
InvalidateConflict(th) ==
    /\ At(th, "invalidate")
    /\ main.job = "idle"
    /\ \E c \in proc[th].conflicts :
          LET here == {e \in proc[th].conflicts : e[2] = c[2]}
              left == proc[th].conflicts \ here
          IN  /\ SetTracker(RemoveConflictedTxs(Tracker, {e[1] : e \in here}))
              /\ failed' = failed \cup Descendants(c[2])
              /\ proc' = [proc EXCEPT ![th] = IF left = {} THEN NoProc ELSE [@ EXCEPT !.conflicts = left]]
    /\ UNCHANGED <<mempool, have, tip, txIndex, main, locksV, signing, db, making, work, pending, rest>>

-----------------------------------------------------------------------------
(* The rest of the node.                                                   *)

FinishSync ==
    /\ ~synced
    /\ MayStart
    /\ synced' = TRUE
    /\ UNCHANGED <<chain, locksV, signing, db, tracker, making, threads, restarts, met>>

\* Chain, locks, votes and signatures are on disk; the rest is not.
Restart ==
    /\ restarts < Restarts
    /\ MayStart
    /\ main.job = "idle"
    /\ restarts' = restarts + 1
    /\ mempool' = {}
    /\ SetTracker([nonLocked |-> EmptyMap, byInputs |-> {}, retry |-> {}])
    /\ creating' = EmptyMap
    /\ toCreating' = {}
    /\ inputIds' = {}
    /\ pending' = {}
    /\ proc' = [th \in {"work", "sig"} |-> NoProc]
    /\ work' = [locks |-> {}, txs |-> {}]
    /\ synced' = FALSE
    /\ UNCHANGED <<have, failed, tip, txIndex, main, locksV, signing, db, met>>

Validation ==
    \/ \E t \in Tx : AcceptToMemoryPool(t)
    \/ AddToMemoryPool
    \/ \E b \in Block \ {Genesis} : ReceiveBlock(b)
    \/ ActivateBestChain
    \/ DisconnectTip
    \/ DisconnectTipDone
    \/ ConnectBlock
    \/ ConnectTip
    \/ SyncTransaction
    \/ SyncProcess
    \/ SyncTrack
    \/ UpdatedBlockTip

ChainLockSteps ==
    \/ \E b \in Block : NewChainLock(b)
    \/ EnforceBestChainLock
    \/ NotifyChainLock

Worker ==
    \/ TakePendingLocks
    \/ NextPendingLock
    \/ TakePendingRetries
    \/ RetryTx

LockHandler(th) ==
    \/ LookupTx(th)
    \/ StoreLock(th)
    \/ RemoveMempoolConflictsForLock(th)
    \/ ResolveBlockConflicts(th)
    \/ RemoveChainLockConflictingLock(th)
    \/ InvalidateConflict(th)

Next ==
    \/ Validation
    \/ ChainLockSteps
    \/ \E o \in Outpoint : RecoverInput(o)
    \/ \E t \in Lockable : RecoverLock(t)
    \/ \E t \in Lockable : ReceiveISLock(t)
    \/ Worker
    \/ \E th \in {"work", "sig"} : LockHandler(th)
    \/ FinishSync
    \/ Restart

Spec == Init /\ [][Next]_vars

\* The holder of cs_main finishes its job, both threads of the lock handler run and
\* the worker loop comes round; nothing that arrives from the network is assumed.
LiveSpec ==
    /\ Spec
    /\ WF_vars(ActivateBestChain \/ AddToMemoryPool \/ DisconnectTip \/ DisconnectTipDone
               \/ ConnectBlock \/ ConnectTip \/ SyncTransaction \/ SyncProcess \/ SyncTrack
               \/ UpdatedBlockTip)
    /\ WF_vars(TakePendingLocks \/ NextPendingLock)
    /\ WF_vars(TakePendingRetries \/ RetryTx)
    /\ \A th \in {"work", "sig"} : WF_vars(LockHandler(th))

-----------------------------------------------------------------------------
(* Properties.                                                             *)

\* The variables hold values of their types.
TypeOK ==
    /\ mempool \subseteq Tx
    /\ failed \subseteq Block
    /\ tip \in Block /\ cl \in Block /\ notified \in Block
    /\ txIndex \in [Tx \cup Coin -> Block \cup {NoBlock}]
    /\ vote \in [Id -> Tx \cup {NoTx}] /\ rec \in [Id -> Tx \cup {NoTx}]
    /\ db.i \subseteq Tx /\ db.tx \subseteq Tx
    /\ db.in \in [Outpoint -> Tx \cup {NoTx}]
    /\ db.m \subseteq (Nat \X Tx)
    /\ DOMAIN nonLocked \subseteq Tx \cup Coin
    /\ byInputs \subseteq Outpoint \X Tx
    /\ retry \subseteq Tx
    /\ DOMAIN creating \subseteq Id /\ toCreating \subseteq Tx
    /\ inputIds \subseteq Outpoint
    /\ pending \subseteq Tx

\* The tables of CInstantSendDb tell the same story however locks arrive (message or
\* recovered signature), are confirmed, pruned with their chained locks or survive a
\* restart: a transaction id resolves to a lock iff the lock is stored, and an
\* outpoint names exactly the stored lock that spends it.
DbAgrees ==
    /\ db.tx = db.i
    /\ \A o \in Outpoint, t \in Tx : db.in[o] = t <=> t \in db.i /\ o \in Inputs[t]

\* nonLockedTxs is closed: an entry without a transaction is there for its children,
\* every child is itself tracked and spends the entry, and the index by inputs names
\* only tracked transactions.  AddNonLockedTx and RemoveNonLockedTx each maintain
\* three maps at once; a child left behind would make pendingRetryTxs and
\* ResolveBlockConflicts look up transactions that are gone.
TrackerConsistent ==
    /\ \A x \in DOMAIN nonLocked :
          /\ nonLocked[x].tx \/ nonLocked[x].children # {}
          /\ \A c \in nonLocked[x].children :
                c \in DOMAIN nonLocked /\ nonLocked[c].tx /\ Spends(c, x)
    /\ \A e \in byInputs : e[2] \in DOMAIN nonLocked /\ nonLocked[e[2]].tx /\ e[1] \in Inputs[e[2]]

\* txToCreatingInstantSendLocks holds pointers into creatingInstantSendLocks; none
\* dangles and none is missing, though two threads erase from the two maps.
CreatingAgrees == toCreating = {creating[id] : id \in DOMAIN creating}

\* Under the worker's fairness a received lock is stored, whatever validation does
\* meanwhile; only a restart (which ends the node's sync) loses it.  Stated for
\* transactions that are in no chain-locked block, whose locks are dropped.
LockStored ==
    \A t \in Lockable : t \in pending ~> (t \in db.i \/ ~synced \/ cl # Genesis)

\* A block of the active chain above the last ChainLock holds a conflict of t.
ConflictMined(t) ==
    \E b \in Path[tip] \ Path[cl], u \in Tx : u \in Range(Contents[b]) /\ Conflict(t, u)

\* A stored lock wins over a block that is not chain-locked: once everything is done,
\* no transaction that conflicts with the lock is in the active chain above the
\* ChainLock (ConnectBlock's filter and ResolveBlockConflicts).
LockWins == AtRest => \A t \in db.i : ~ConflictMined(t)

\* LockWins for a lock whose transaction the node was not tracking when it stored it,
\* the case test_islock_overrides_nonchainlock runs.
StrangerLockWins == AtRest => \A t \in db.i \ met : ~ConflictMined(t)

\* At rest the mempool holds no transaction that conflicts with a stored lock: neither
\* one accepted earlier nor one that a disconnected block gave back.
MempoolRespectsLocks == AtRest => \A t \in db.i, u \in mempool : ~Conflict(t, u)

\* A transaction in the mempool whose unconfirmed parents are all locked has been tried:
\* the node voted on an input, or somebody's signature on one exists.  The child is
\* tried when it arrives or when its parent's lock is stored, through pendingRetryTxs.
LockedParentRetried ==
    AtRest /\ retry = {} => \A t \in mempool :
        (~IsLocked(t) /\ \A o \in Inputs[t] : o[1] \in Coin \/ IsLocked(o[1]))
        => \E o \in Inputs[t] : vote[InputId(o)] # NoTx \/ rec[InputId(o)] # NoTx

=============================================================================
