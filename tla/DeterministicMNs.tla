-------------------------- MODULE DeterministicMNs --------------------------
(***************************************************************************)
(* The deterministic masternode list (src/src/evo/deterministicmns.cpp),   *)
(* the provider transactions that change it (evo/providertx.cpp), and how  *)
(* validation.cpp and CEvoDB keep the lists of the active chain: a diff    *)
(* per block, a snapshot now and then, and a cache of lists in memory.     *)
(*                                                                         *)
(* A block is the sequence of the contents of the blocks from the first    *)
(* one DIP3 applies to up to it, so its parent is its Front and its name   *)
(* is as good as its hash.  Contents are sequences of records:             *)
(*   reg    mn, coll, addr, op : ProRegTx     (addr may be None)           *)
(*   serv   mn, addr           : ProUpServTx                               *)
(*   upreg  mn, op             : ProUpRegTx                                *)
(*   revoke mn                 : ProUpRevTx                                *)
(*   commit bad                : a final commitment whose quorum had the   *)
(*                               members bad marked as not valid           *)
(*   spend  coll               : a transaction spending an outpoint        *)
(* A masternode list is a record of its height, the number of masternodes  *)
(* ever registered, and the masternodes: a function on proTxHashes.        *)
(***************************************************************************)
EXTENDS Integers, FiniteSets, Sequences, SequencesExt

CONSTANTS Mn,             \* the proTxHashes that may be registered
          Before(_, _),   \* the order of proTxHashes
          None,           \* no address, no operator key
          FirstHeight,    \* DIP0003Height
          MinConf,        \* nMasternodeMinimumConfirmations
          SnapshotPeriod, \* SNAPSHOT_LIST_PERIOD
          CacheSize,      \* LISTS_CACHE_SIZE
          Scenarios       \* bounds: what the nth block may hold, for as many
                          \* blocks as a chain may have; how often the node
                          \* restarts; how many blocks are disconnected or
                          \* fail to connect

ASSUME DMNAssumption ==
  /\ FirstHeight \in Nat \ {0} /\ MinConf \in Nat
  /\ SnapshotPeriod \in Nat \ {0} /\ CacheSize \in Nat
  /\ \A s \in Scenarios : s.restarts \in Nat /\ s.undos \in Nat

VARIABLES
  chain,     \* the active chain, as its tip
  busy,      \* the block being connected, or chain
  evo,       \* CEvoDB: best block, diffs and snapshots
  cache,     \* mnListsCache
  tipIndex,  \* tipIndex
  disk,      \* CEvoDB and coins as of the last flush
  status,    \* "running", or why the node stopped
  scenario, restarts, undos

vars == <<chain, busy, evo, cache, tipIndex, disk, status, scenario, restarts,
          undos>>

Height(b) == FirstHeight + Len(b) - 1
Ancestors(b) == {SubSeq(b, 1, n) : n \in 0..Len(b)}

(***************************************************************************)
(* The list.                                                               *)
(***************************************************************************)

EmptyList == [height |-> -1, total |-> 0, mns |-> <<>>]

Listed(list) == DOMAIN list.mns
Valid(list) == {m \in Listed(list) : list.mns[m].state.ban = -1}
Without(list, S) ==
  [list EXCEPT !.mns = [m \in Listed(list) \ S |-> list.mns[m]]]
UpdateMN(list, m, state) == [list EXCEPT !.mns[m].state = state]

\* The masternodes of the list that hold the property, other than those of S.
HoldersOfAddr(list, addr) ==
  {m \in Listed(list) : addr # None /\ list.mns[m].state.addr = addr}
HoldersOfKey(list, op) ==
  {m \in Listed(list) : op # None /\ list.mns[m].state.op = op}
ByCollateral(list, coll) == {m \in Listed(list) : list.mns[m].coll = coll}

QueueByRevival(state) ==
  IF state.revived # -1 THEN state.revived
  ELSE IF state.lastPaid = 0 THEN state.registered ELSE state.lastPaid

\* CompareByLastPaid_GetHeight
QueueHeight(state) ==
  IF state.revived # -1 /\ state.revived > state.lastPaid
    THEN state.revived
    ELSE IF state.lastPaid = 0 THEN state.registered ELSE state.lastPaid

\* GetMNPayee, as a set of at most one masternode
Payee(list) ==
  {m \in Valid(list) : \A o \in Valid(list) \ {m} :
     LET hm == QueueHeight(list.mns[m].state)
         ho == QueueHeight(list.mns[o].state)
     IN  hm < ho \/ (hm = ho /\ Before(m, o))}

CalcMaxPoSePenalty(list) ==
  LET n == Cardinality(Listed(list)) IN IF n > 100 THEN n ELSE 100
CalcPenalty(list, percent) == (CalcMaxPoSePenalty(list) * percent) \div 100


PoSePunish(list, S) ==
  LET max == CalcMaxPoSePenalty(list)
      Punished(state) ==
        LET sum == state.penalty + CalcPenalty(list, 66)
            penalty == IF sum > max THEN max ELSE sum
        IN  [state EXCEPT !.penalty = penalty,
                          !.ban = IF penalty >= max /\ @ = -1
                                    THEN list.height ELSE @]
  IN  [list EXCEPT !.mns = [m \in Listed(list) |->
         IF m \in S THEN [list.mns[m] EXCEPT !.state = Punished(@)]
                    ELSE list.mns[m]]]

DecreasePoSePenalties(list) ==
  [list EXCEPT !.mns = [m \in Listed(list) |->
     IF m \in Valid(list) /\ list.mns[m].state.penalty > 0
       THEN [list.mns[m] EXCEPT !.state.penalty = @ - 1]
       ELSE list.mns[m]]]

\* The confirmed hash is that of the parent, which its height identifies.
Confirm(list) ==
  LET prev == list.height - 1
  IN  [list EXCEPT !.mns = [m \in Listed(list) |->
         IF /\ list.mns[m].state.confirmed = 0
            /\ prev - list.mns[m].state.registered >= MinConf
           THEN [list.mns[m] EXCEPT !.state.confirmed = prev]
           ELSE list.mns[m]]]

(***************************************************************************)
(* The provider transactions: what CheckSpecialTx demands of the parent's  *)
(* list, and what BuildNewListFromBlock makes of them.  A result is the    *)
(* list, or a verdict: the block is rejected, or an assert fails.          *)
(***************************************************************************)

CheckSpecialTx(list, tx) ==
  CASE tx.type = "reg" ->
         /\ \A m \in HoldersOfAddr(list, tx.addr) :
              list.mns[m].coll = tx.coll
         /\ HoldersOfKey(list, tx.op) = {}
    [] tx.type = "serv" ->
         /\ tx.mn \in Listed(list)
         /\ HoldersOfAddr(list, tx.addr) \subseteq {tx.mn}
         /\ list.mns[tx.mn].state.op # None
    [] tx.type = "upreg" ->
         /\ tx.mn \in Listed(list)
         /\ HoldersOfKey(list, tx.op) \subseteq {tx.mn}
    [] tx.type = "revoke" ->
         /\ tx.mn \in Listed(list)
         /\ list.mns[tx.mn].state.op # None
    [] OTHER -> TRUE

Rejected == [verdict |-> "rejected"]
Asserted == [verdict |-> "asserted"]
Built(list) == [verdict |-> "ok", list |-> list]


Register(list, tx) ==
  LET kept == Without(list, ByCollateral(list, tx.coll))
      state == [registered |-> list.height, lastPaid |-> 0, penalty |-> 0,
                revived |-> -1, confirmed |-> 0,
                ban |-> IF tx.addr = None THEN list.height ELSE -1,
                op |-> tx.op, addr |-> tx.addr]
      new == [id |-> list.total, coll |-> tx.coll, state |-> state]
  IN  IF \/ HoldersOfAddr(kept, tx.addr) # {}
         \/ HoldersOfKey(kept, tx.op) # {}
        THEN Rejected
        ELSE Built([kept EXCEPT !.total = @ + 1,
                                !.mns = [m \in Listed(kept) \cup {tx.mn} |->
                                           IF m = tx.mn THEN new
                                                        ELSE kept.mns[m]]])

UpdateService(list, tx) ==
  IF \/ ~(HoldersOfAddr(list, tx.addr) \subseteq {tx.mn})
     \/ tx.mn \notin Listed(list)
    THEN Rejected
    ELSE LET moved == [list.mns[tx.mn].state EXCEPT !.addr = tx.addr]
         IN  Built(UpdateMN(list, tx.mn,
                IF moved.ban # -1 /\ moved.op # None
                  THEN [moved EXCEPT !.penalty = 0, !.ban = -1,
                                     !.revived = list.height]
                  ELSE moved))

\* ResetOperatorFields and BanIfNotBanned
ResetAndBan(state, h) ==
  [state EXCEPT !.op = None, !.addr = None,
                !.ban = IF @ = -1 THEN h ELSE @]

\* UpdateMN asserts that the new key is nobody else's.
UpdateRegistrar(list, tx) ==
  IF tx.mn \notin Listed(list) THEN Rejected
  ELSE IF ~(HoldersOfKey(list, tx.op) \subseteq {tx.mn}) THEN Asserted
  ELSE LET old == list.mns[tx.mn].state
           new == IF old.op # tx.op THEN ResetAndBan(old, list.height)
                                    ELSE old
       IN  Built(UpdateMN(list, tx.mn, [new EXCEPT !.op = tx.op]))

Revoke(list, tx) ==
  IF tx.mn \notin Listed(list) THEN Rejected
  ELSE Built(UpdateMN(list, tx.mn,
                      ResetAndBan(list.mns[tx.mn].state, list.height)))

HandleQuorumCommitment(list, bad) == PoSePunish(list, bad \cap Listed(list))

ApplyTx(result, tx) ==
  IF result.verdict # "ok" THEN result
  ELSE CASE tx.type = "reg"    -> Register(result.list, tx)
         [] tx.type = "serv"   -> UpdateService(result.list, tx)
         [] tx.type = "upreg"  -> UpdateRegistrar(result.list, tx)
         [] tx.type = "revoke" -> Revoke(result.list, tx)
         [] tx.type = "commit" ->
              Built(HandleQuorumCommitment(result.list, tx.bad))
         [] OTHER -> result

Spent(content) == {content[i].coll : i \in {j \in DOMAIN content :
                                              content[j].type = "spend"}}

\* The coins the block needs are there: no outpoint is spent twice, a
\* collateral is unspent, and a transaction is on the chain only once.
HasInputs(b, content) ==
  LET spent == UNION {Spent(b[i]) : i \in DOMAIN b}
      registered == {tx.mn : tx \in {t \in UNION {Range(b[i]) : i \in DOMAIN b} :
                                      t.type = "reg"}}
  IN  \A i \in DOMAIN content :
        /\ content[i].type = "reg" => /\ content[i].mn \notin registered
                                      /\ content[i].coll \notin spent
        /\ content[i].type = "spend" => content[i].coll \notin spent

\* The list after a block with this content at height h, on top of old.
BuildNewListFromBlock(old, content, h) ==
  LET start == DecreasePoSePenalties(Confirm([old EXCEPT !.height = h]))
      applied == FoldLeft(ApplyTx, Built(start), content)
      unspent == Without(applied.list,
                   {m \in Listed(applied.list) :
                      applied.list.mns[m].coll \in Spent(content)})
      paid == [unspent EXCEPT !.mns = [m \in Listed(unspent) |->
                 IF m \in Payee(old)
                   THEN [unspent.mns[m] EXCEPT !.state.lastPaid = h]
                   ELSE unspent.mns[m]]]
  IN  IF applied.verdict # "ok" THEN applied ELSE Built(paid)

(***************************************************************************)
(* Diffs.  A state diff holds the fields that changed, and an update is    *)
(* keyed by the masternode's internal id.                                  *)
(***************************************************************************)

StateDiff(a, b) == [f \in {g \in DOMAIN a : a[g] # b[g]} |-> b[f]]
ApplyToState(diff, state) ==
  [f \in DOMAIN state |-> IF f \in DOMAIN diff THEN diff[f] ELSE state[f]]

ById(list, i) == CHOOSE m \in Listed(list) : list.mns[m].id = i
Ids(list, S) == {list.mns[m].id : m \in S}

BuildDiff(from, to) ==
  LET common == Listed(from) \cap Listed(to)
      changed == {m \in common : from.mns[m].state # to.mns[m].state}
  IN  [added |-> [m \in Listed(to) \ common |-> to.mns[m]],
       updated |-> [i \in Ids(to, changed) |->
                      StateDiff(from.mns[ById(to, i)].state,
                                to.mns[ById(to, i)].state)],
       removed |-> Ids(from, Listed(from) \ common)]

HasChanges(diff) ==
  DOMAIN diff.added # {} \/ DOMAIN diff.updated # {} \/ diff.removed # {}

\* No two masternodes of a list share a collateral, an address or a key.
Unique(mns) ==
  \A m, o \in DOMAIN mns : m # o =>
    /\ mns[m].coll # mns[o].coll
    /\ mns[m].state.addr # mns[o].state.addr \/ mns[m].state.addr = None
    /\ mns[m].state.op # mns[o].state.op \/ mns[m].state.op = None

\* Removals, then additions in the order of the ids, which an assert wants
\* to continue the list's count, then updates in the order of the ids.  The
\* asserts of the unique properties see the updates made so far.
ApplyDiff(list, diff, h) ==
  LET kept == Without(list, {m \in Listed(list) :
                               list.mns[m].id \in diff.removed})
      n == Cardinality(DOMAIN diff.added)
      with == [m \in Listed(kept) \cup DOMAIN diff.added |->
                 IF m \in DOMAIN diff.added THEN diff.added[m]
                                            ELSE kept.mns[m]]
      upTo(i) == [m \in DOMAIN with |->
                    IF with[m].id <= i /\ with[m].id \in DOMAIN diff.updated
                      THEN [with[m] EXCEPT !.state =
                              ApplyToState(diff.updated[with[m].id], @)]
                      ELSE with[m]]
      last == list.total + n
      asserts == /\ diff.removed \subseteq Ids(list, Listed(list))
                 /\ {diff.added[m].id : m \in DOMAIN diff.added}
                      = list.total..(list.total + n - 1)
                 /\ DOMAIN diff.updated \subseteq {with[m].id :
                                                     m \in DOMAIN with}
                 /\ \A i \in {-1} \cup DOMAIN diff.updated : Unique(upTo(i))
  IN  IF asserts
        THEN Built([height |-> h, total |-> list.total + n,
                    mns |-> upTo(last)])
        ELSE Asserted

(***************************************************************************)
(* The manager.                                                            *)
(***************************************************************************)

\* GetListForBlock: back to a cached list, a snapshot, or a block that has no
\* diff (an empty list then), and forward again with the diffs.  All lists on
\* the way are cached.
GetListForBlock(db, lists, b) ==
  LET At(n) == SubSeq(b, 1, n)
      stops == {n \in 0..Len(b) : \/ At(n) \in DOMAIN lists
                                  \/ At(n) \in DOMAIN db.snaps
                                  \/ At(n) \notin DOMAIN db.diffs}
      base == CHOOSE n \in stops : \A k \in stops : k <= n
      first == IF At(base) \in DOMAIN lists THEN lists[At(base)]
               ELSE IF At(base) \in DOMAIN db.snaps THEN db.snaps[At(base)]
               ELSE EmptyList
      Step(prev, n) ==
        LET diff == db.diffs[At(n)]
        IN  IF prev.verdict # "ok" THEN prev
            ELSE IF HasChanges(diff)
                   THEN ApplyDiff(prev.list, diff, Height(At(n)))
                   ELSE Built([prev.list EXCEPT !.height = Height(At(n))])
      result[n \in base..Len(b)] ==
        IF n = base THEN Built(first) ELSE Step(result[n - 1], n)
      new == {At(n) : n \in base..Len(b)}
  IN  IF result[Len(b)].verdict # "ok" THEN Asserted
      ELSE [verdict |-> "ok", list |-> result[Len(b)].list,
            cache |-> [a \in DOMAIN lists \cup new |->
                         IF a \in DOMAIN lists THEN lists[a]
                                               ELSE result[Len(a)].list]]

\* A call from a thread that does not hold cs_main: the rest of the node only
\* sees the cache change.
Ask(b) ==
  LET got == GetListForBlock(evo, cache, b)
  IN  /\ cache' = IF got.verdict = "ok" THEN got.cache ELSE cache
      /\ status' = IF got.verdict = "ok" THEN status ELSE "asserted"
      /\ UNCHANGED <<chain, busy, evo, tipIndex, disk, scenario, restarts, undos>>

Running == status = "running"
AtRest == Running /\ busy = chain

GetListAtChainTip == Running /\ Ask(tipIndex)
AskForBlock == Running /\ \E b \in Ancestors(busy) : Ask(b)

CleanupListed(lists, h) ==
  [b \in {a \in DOMAIN lists : \/ lists[a].height = -1
                               \/ lists[a].height + CacheSize >= h}
    |-> lists[b]]

CleanupCache(lists, h) ==
  [b \in {a \in DOMAIN lists : lists[a].height + CacheSize >= h} |-> lists[b]]

Stop(why) ==
  /\ status' = why
  /\ UNCHANGED <<chain, busy, evo, cache, tipIndex, disk, scenario, restarts,
                 undos>>

\* ConnectBlock from VerifyBestBlock to the writes of ProcessBlock: up to the
\* point where ProcessBlock gives up cs to call the signals.
ProcessBlock(content) ==
  /\ AtRest /\ HasInputs(chain, content)
  /\ LET got == GetListForBlock(evo, cache, chain)
         b == Append(chain, content)
         new == BuildNewListFromBlock(got.list, content, Height(b))
         diff == BuildDiff(got.list, new.list)
     IN  IF evo.best # chain THEN Stop("inconsistent")
         ELSE IF got.verdict # "ok" THEN Stop("asserted")
         ELSE IF \E i \in DOMAIN content : ~CheckSpecialTx(got.list, content[i])
           THEN /\ cache' = got.cache
                /\ UNCHANGED <<chain, busy, evo, tipIndex, disk, status,
                               scenario, restarts, undos>>
         ELSE IF new.verdict = "asserted" THEN Stop("asserted")
         ELSE /\ cache' = got.cache
              /\ IF new.verdict = "rejected" THEN UNCHANGED <<busy, evo>>
                 ELSE /\ busy' = b
                      /\ evo' = [evo EXCEPT
                           !.diffs = [a \in DOMAIN @ \cup {b} |->
                                        IF a = b THEN diff ELSE @[a]],
                           !.snaps =
                             IF \/ Height(b) % SnapshotPeriod = 0
                                \/ got.list.height = -1
                               THEN [a \in DOMAIN @ \cup {b} |->
                                       IF a = b THEN new.list ELSE @[a]]
                               ELSE @]
              /\ UNCHANGED <<chain, tipIndex, disk, status, scenario, restarts, undos>>

Erased(db, b) ==
  [db EXCEPT !.diffs = [a \in DOMAIN @ \ {b} |-> @[a]],
             !.snaps = [a \in DOMAIN @ \ {b} |-> @[a]]]

\* CleanupCache, the rest of ConnectBlock and the commit of its transaction.
FinishBlock ==
  /\ Running /\ busy # chain
  /\ cache' = CleanupCache(cache, Height(busy))
  /\ chain' = busy
  /\ evo' = [evo EXCEPT !.best = busy]
  /\ UNCHANGED <<busy, tipIndex, disk, status, scenario, restarts, undos>>

\* CleanupCache, and a later check of ConnectBlock fails: the transaction is
\* rolled back.
FailBlock ==
  /\ Running /\ busy # chain /\ undos < scenario.undos
  /\ cache' = CleanupCache(cache, Height(busy))
  /\ busy' = chain
  /\ evo' = Erased(evo, busy)
  /\ undos' = undos + 1
  /\ UNCHANGED <<chain, tipIndex, disk, status, scenario, restarts>>

UndoBlock(b) ==
  LET cur == IF HasChanges(evo.diffs[b]) THEN GetListForBlock(evo, cache, b)
             ELSE [verdict |-> "ok", cache |-> cache]
      prev == IF HasChanges(evo.diffs[b])
                THEN GetListForBlock(evo, cur.cache, Front(b)) ELSE cur
  IN  IF cur.verdict # "ok" THEN Asserted
      ELSE [verdict |-> "ok", evo |-> Erased(evo, b),
            cache |-> [a \in DOMAIN prev.cache \ {b} |-> prev.cache[a]]]

DisconnectTip ==
  /\ AtRest /\ chain # <<>> /\ undos < scenario.undos
  /\ IF evo.best # chain THEN Stop("inconsistent")
     ELSE LET undone == UndoBlock(chain)
          IN  IF undone.verdict # "ok" THEN Stop("asserted")
              ELSE /\ chain' = Front(chain) /\ busy' = Front(chain)
                   /\ evo' = [undone.evo EXCEPT !.best = Front(chain)]
                   /\ cache' = undone.cache
                   /\ undos' = undos + 1
                   /\ UNCHANGED <<tipIndex, disk, status, scenario, restarts>>

UpdatedBlockTip ==
  /\ AtRest /\ tipIndex # chain
  /\ tipIndex' = chain
  /\ UNCHANGED <<chain, busy, evo, cache, disk, status, scenario, restarts,
                 undos>>

\* FlushStateToDisk: the coins, then CommitRootTransaction.
FlushStateToDisk ==
  /\ AtRest /\ disk # evo /\ restarts < scenario.restarts
  /\ disk' = evo
  /\ UNCHANGED <<chain, busy, evo, cache, tipIndex, status, scenario, restarts,
                 undos>>

\* A crash and the start after it.  The coins name the active chain; a crash
\* between the two writes of a flush leaves coins that are newer than CEvoDB.
\* VerifyDB disconnects the last blocks on a view of its own, and its first
\* VerifyBestBlock asserts that the two agree.
VerifyDB(coins, db) == IF db.best = coins THEN "running" ELSE "inconsistent"

Restart ==
  /\ Running /\ restarts < scenario.restarts
  /\ \E coins \in {disk.best} \cup (IF AtRest THEN {chain} ELSE {}) :
       /\ chain' = coins /\ busy' = coins /\ tipIndex' = coins
       /\ evo' = disk
       /\ status' = VerifyDB(coins, disk)
  /\ cache' = <<>>
  /\ restarts' = restarts + 1
  /\ UNCHANGED <<disk, scenario, undos>>

\* -reindex: CEvoDB is wiped and the blocks are connected again.
Reindex ==
  /\ status = "inconsistent"
  /\ chain' = <<>> /\ busy' = <<>> /\ tipIndex' = <<>>
  /\ evo' = [best |-> <<>>, diffs |-> <<>>, snaps |-> <<>>]
  /\ disk' = evo'
  /\ cache' = <<>> /\ status' = "running"
  /\ UNCHANGED <<scenario, restarts, undos>>

Init ==
  /\ scenario \in Scenarios
  /\ chain = <<>> /\ busy = <<>> /\ tipIndex = <<>>
  /\ evo = [best |-> <<>>, diffs |-> <<>>, snaps |-> <<>>]
  /\ disk = evo
  /\ cache = <<>> /\ status = "running" /\ restarts = 0 /\ undos = 0

Next ==
  \/ GetListAtChainTip
  \/ AskForBlock
  \/ /\ Len(chain) < Len(scenario.contents)
     /\ \E content \in scenario.contents[Len(chain) + 1] : ProcessBlock(content)
  \/ FinishBlock
  \/ FailBlock
  \/ DisconnectTip
  \/ UpdatedBlockTip
  \/ FlushStateToDisk
  \/ Restart
  \/ Reindex

Spec == Init /\ [][Next]_vars

(***************************************************************************)
(* Properties.                                                             *)
(***************************************************************************)

\* The lists of a block and its ancestors as BuildNewListFromBlock makes them
\* from the blocks alone, without diffs, snapshots or caches.
Replay(b) ==
  LET list[n \in 0..Len(b)] ==
        IF n = 0 THEN EmptyList
        ELSE BuildNewListFromBlock(list[n - 1], b[n],
                                   Height(SubSeq(b, 1, n))).list
  IN  list

ListOK(list) ==
  /\ list.height \in Int /\ list.total \in Nat
  /\ Listed(list) \subseteq Mn
  /\ \A m \in Listed(list) :
       /\ list.mns[m].id \in 0..(list.total - 1)
       /\ list.mns[m].state.penalty \in 0..CalcMaxPoSePenalty(list)
       /\ list.mns[m].state.ban \in -1..list.height

\* Types: the lists kept anywhere are lists (ids below the count of
\* registrations, penalties up to the maximum of PoSePunish, ban heights not
\* in the future), and a block is being connected on the tip or not at all.
TypeOK ==
  /\ busy = chain \/ (busy # <<>> /\ Front(busy) = chain)
  /\ DOMAIN evo.snaps \subseteq DOMAIN evo.diffs
  /\ \A b \in DOMAIN evo.snaps : ListOK(evo.snaps[b])
  /\ \A b \in DOMAIN cache : ListOK(cache[b])
  /\ status \in {"running", "inconsistent", "asserted"}
  /\ restarts \in Nat /\ undos \in Nat

\* Whatever was connected, disconnected, flushed, lost in a crash, cached and
\* evicted before, GetListForBlock gives for every block of the active chain
\* the list that its transactions make.  It matters between blocks: the list
\* decides quorums, payees and what the next block may hold.  A list read for
\* a disconnected block is cached as empty, and only CleanupCache removes it
\* before the block is used again.
ListsAgree ==
  AtRest => LET list == Replay(chain)
            IN  \A n \in 1..Len(chain) :
                  LET got == GetListForBlock(evo, cache, SubSeq(chain, 1, n))
                  IN  got.verdict = "ok" /\ got.list = list[n]


\* A masternode is not paid again, in the last block of a chain, while another one,
\* valid all along, waits: GetMNPayee takes the one that was paid, revived or
\* registered first.
PaidInTurn ==
  LET list == Replay(chain)
      last == Len(chain)
      Paid(n) == Payee(list[n - 1])
  IN  \A i \in 1..(last - 1) :
        \A m \in Paid(i) \cap Paid(last), o \in Mn :
          (o # m /\ \A k \in (i - 1)..(last - 1) : o \in Valid(list[k]))
            => \E k \in (i + 1)..(last - 1) : o \in Paid(k)


=============================================================================
