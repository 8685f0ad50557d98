------------------------ MODULE QuorumBlockProcessor ------------------------
(***************************************************************************)
(* Final commitments of one LLMQ type on one node: CQuorumBlockProcessor   *)
(* (llmq/quorums_blockprocessor.cpp), the check that puts commitments into *)
(* blocks, the database record of mined commitments with its cache, the    *)
(* pool of minable commitments, and the lock-free lookups of               *)
(* CQuorumManager (llmq/quorums.cpp).                                      *)
(*                                                                         *)
(* A DKG session is named by the block hash that starts its interval.      *)
(* Connecting and disconnecting run under cs_main inside an evoDb          *)
(* transaction that other threads can see while it is open; a lookup by    *)
(* another thread is three steps (cache, database, cache).  Scans do not   *)
(* stop at maxCount, and scanQuorumsCache is left out.                     *)
(***************************************************************************)
EXTENDS Integers, Sequences

CONSTANTS
    Hash,          \* hashes of blocks that start a DKG interval
    GenesisHash,
    DkgInterval,   \* params.dkgInterval
    WindowStart,   \* params.dkgMiningWindowStart
    WindowEnd,     \* params.dkgMiningWindowEnd
    DIP0003Height, \* commitments are processed from this height on
    DIP0003EnforcementHeight, \* and required from this one
    MaxSigners,    \* a valid commitment has 1..MaxSigners signers
    MaxHeight,     \* bound on the chain
    Reader,        \* threads that look up quorums without cs_main
    NoHash, NoQc, Unset

ASSUME ParamsAssumption ==
    /\ GenesisHash \in Hash /\ NoHash \notin Hash
    /\ DkgInterval \in Nat \ {0} /\ MaxSigners \in Nat /\ MaxHeight \in Nat
    /\ DIP0003Height \in Nat /\ DIP0003EnforcementHeight \in Nat
    /\ DIP0003Height <= DIP0003EnforcementHeight
    /\ WindowStart \in 1..WindowEnd /\ WindowEnd \in 1..(DkgInterval - 1)
    /\ NoQc \notin [q : Hash, signers : 0..MaxSigners] /\ Unset \notin BOOLEAN

\* Commitments that pass Verify. A null commitment has no signers.
Commitment == [q : Hash, signers : 1..MaxSigners]
NullCommitment == [q : Hash, signers : {0}]

VARIABLES
    chain,     \* chain[h + 1]: the active block at height h, its hash and its commitment
    mined,     \* DB_MINED_COMMITMENT as the current evoDb transaction shows it
    byHeight,  \* DB_MINED_COMMITMENT_BY_INVERSED_HEIGHT: mined height -> quorum height
    tx,        \* the open evoDb transaction with the values to roll back to
    cache,     \* hasMinedCommitmentCache
    minable,   \* minableCommitments
    byQuorum,  \* minableCommitmentsByQuorum
    incoming,  \* the QFCOMMITMENT being verified by the message thread
    quorums,   \* quorumsCache of CQuorumManager: the commitment a quorum was built from
    reader     \* where each lookup is

pool == <<minable, byQuorum, incoming>>
lookups == <<quorums, reader>>
vars == <<chain, mined, byHeight, tx, cache, pool, lookups>>

NoTx == [op |-> "none"]
Idle == [pc |-> "idle"]

Init ==
    /\ chain = <<[hash |-> GenesisHash, qc |-> NoQc]>>
    /\ mined = [q \in Hash |-> NoQc]
    /\ byHeight = [h \in 0..MaxHeight |-> -1]
    /\ tx = NoTx
    /\ cache = [q \in Hash |-> Unset]
    /\ minable = {} /\ byQuorum = [q \in Hash |-> NoQc]
    /\ incoming = NoQc
    /\ quorums = [q \in Hash |-> NoQc] /\ reader = [r \in Reader |-> Idle]

Height == Len(chain) - 1

\* No thread has failed an assertion.
Running == \A r \in Reader : reader[r].pc # "aborted"

\* The session started by hash q in chain c (a hash occurs at most once).
StartsSession(c, q) == \E i \in DOMAIN c : c[i].hash = q

-----------------------------------------------------------------------------
(* Phases.                                                                 *)

\* The height of the block that starts the interval of height h.
QuorumHeight(h) == h - (h % DkgInterval)

\* The hash is unknown for the block that starts the interval.
GetQuorumBlockHash(h) ==
    IF QuorumHeight(h) > Height THEN NoHash ELSE chain[QuorumHeight(h) + 1].hash

\* Mutant: the phase index is compared with one end only.
IsMiningPhase_NoEnd(h) == h % DkgInterval >= WindowStart

IsMiningPhase(h) == h % DkgInterval >= WindowStart /\ h % DkgInterval <= WindowEnd

\* HasMinedCommitment under cs_main.
HasMinedCommitment(q) == IF cache[q] # Unset THEN cache[q] ELSE mined[q] # NoQc

IsCommitmentRequired(h) ==
    LET q == GetQuorumBlockHash(h)
    IN  q # NoHash /\ IsMiningPhase(h) /\ ~HasMinedCommitment(q)

\* The cache once IsCommitmentRequired has looked the session up, which ProcessBlock
\* and CreateNewBlock let it do once DIP3 is active.
CacheAfterLookup(h) ==
    LET q == GetQuorumBlockHash(h)
    IN  IF q = NoHash \/ h < DIP0003Height THEN cache
        ELSE [cache EXCEPT ![q] = HasMinedCommitment(q)]

-----------------------------------------------------------------------------
(* The pool of minable commitments.                                        *)

\* Mutant: a commitment is only kept for a quorum that has none.
AddMinableCommitment_FirstOnly(c) ==
    IF byQuorum[c.q] = NoQc
    THEN byQuorum' = [byQuorum EXCEPT ![c.q] = c] /\ minable' = minable \cup {c}
    ELSE UNCHANGED <<byQuorum, minable>>

\* The entry of the quorum is overwritten before the commitment it names is
\* erased: the erased hash is the new one, which is then stored.
AddMinableCommitment(c) ==
    IF byQuorum[c.q] = NoQc \/ c.signers > byQuorum[c.q].signers
    THEN byQuorum' = [byQuorum EXCEPT ![c.q] = c] /\ minable' = minable \cup {c}
    ELSE UNCHANGED <<byQuorum, minable>>

\* The local DKG session of a quorum produced a commitment, even if the block that
\* started it has left the active chain.
FinalizeCommitment(c) ==
    /\ Running
    /\ AddMinableCommitment(c)
    /\ UNCHANGED <<chain, mined, byHeight, tx, cache, incoming, lookups>>

\* ProcessMessage up to the verification: the session is on the active chain
\* and the pool has no commitment with as many or fewer signers.
ReceiveCommitment(c) ==
    /\ Running
    /\ incoming = NoQc
    /\ tx = NoTx
    /\ StartsSession(chain, c.q)
    /\ incoming' = IF byQuorum[c.q] # NoQc /\ byQuorum[c.q].signers <= c.signers
                   THEN NoQc ELSE c
    /\ UNCHANGED <<chain, mined, byHeight, tx, cache, minable, byQuorum, lookups>>

\* The rest of ProcessMessage: verified, and added to the pool.
AddReceived ==
    /\ Running
    /\ incoming # NoQc
    /\ AddMinableCommitment(incoming)
    /\ incoming' = NoQc
    /\ UNCHANGED <<chain, mined, byHeight, tx, cache, lookups>>

\* GetMinableCommitment: a null commitment if none is known.
GetMinableCommitment(h) ==
    LET q == GetQuorumBlockHash(h)
    IN  IF ~IsCommitmentRequired(h) THEN NoQc
        ELSE IF byQuorum[q] # NoQc THEN byQuorum[q] ELSE [q |-> q, signers |-> 0]

-----------------------------------------------------------------------------
(* Blocks, under cs_main.                                                  *)

Enforced(h) == h >= DIP0003EnforcementHeight

\* A block at height h with commitment c (or none) passes ProcessBlock.
BlockAccepted(c, h) ==
    /\ c # NoQc => IsCommitmentRequired(h) /\ c.q = GetQuorumBlockHash(h)
    /\ Enforced(h) /\ IsCommitmentRequired(h) => c # NoQc

\* A null commitment is checked but neither stored nor undone.
Stores(c) == c # NoQc /\ c.signers # 0

\* Mutant: the cache entry survives the write.
CacheAfterStore_Kept(c, h) == CacheAfterLookup(h)

\* ProcessCommitment forgets what the cache says of the quorum it stored.
CacheAfterStore(c, h) ==
    IF Stores(c) THEN [CacheAfterLookup(h) EXCEPT ![c.q] = Unset] ELSE CacheAfterLookup(h)

\* ConnectBlock inside a new evoDb transaction, up to the end of ProcessBlock.
ProcessBlock(b, op) ==
    LET h == Height + 1
    IN  IF BlockAccepted(b.qc, h)
        THEN /\ mined' = IF Stores(b.qc) THEN [mined EXCEPT ![b.qc.q] = b.qc] ELSE mined
             /\ byHeight' = IF Stores(b.qc)
                            THEN [byHeight EXCEPT ![h] = QuorumHeight(h)] ELSE byHeight
             /\ cache' = CacheAfterStore(b.qc, h)
             /\ tx' = [op |-> op, block |-> b, mined |-> mined, byHeight |-> byHeight]
        ELSE /\ cache' = CacheAfterLookup(h)
             /\ UNCHANGED <<mined, byHeight, tx>>

\* ConnectTip of a block whose commitment, if any, passed CheckSpecialTx.
BeginConnect(hash, c) ==
    /\ Running
    /\ tx = NoTx /\ Height < MaxHeight
    /\ IF (Height + 1) % DkgInterval = 0
       THEN hash \in Hash /\ ~StartsSession(chain, hash) ELSE hash = NoHash
    /\ c # NoQc => Height + 1 >= DIP0003Height /\ StartsSession(chain, c.q)
    /\ ProcessBlock([hash |-> hash, qc |-> c], "connect")
    /\ UNCHANGED <<chain, pool, lookups>>

\* CreateNewBlock with the node's own commitment, and its TestBlockValidity.
CreateNewBlock ==
    /\ Running
    /\ tx = NoTx /\ Height < MaxHeight
    /\ LET h == Height + 1
           c == IF h >= DIP0003Height THEN GetMinableCommitment(h) ELSE NoQc
       IN  ProcessBlock([hash |-> NoHash, qc |-> c], "test")
    /\ UNCHANGED <<chain, pool, lookups>>

CommitConnect ==
    /\ Running
    /\ tx.op = "connect"
    /\ chain' = Append(chain, tx.block)
    /\ tx' = NoTx
    /\ UNCHANGED <<mined, byHeight, cache, pool, lookups>>

\* Mutant: the height index of the undone block is kept.
UndoHeight_Kept == byHeight

UndoHeight == [byHeight EXCEPT ![Height] = -1]

\* DisconnectBlock inside a new evoDb transaction, with UndoBlock.
BeginDisconnect ==
    /\ Running
    /\ tx = NoTx /\ Height > 0
    /\ LET c == chain[Height + 1].qc
       IN  IF Stores(c)
           THEN /\ mined' = [mined EXCEPT ![c.q] = NoQc]
                /\ byHeight' = UndoHeight
                /\ cache' = [cache EXCEPT ![c.q] = Unset]
                /\ AddMinableCommitment(c)
           ELSE UNCHANGED <<mined, byHeight, cache, minable, byQuorum>>
    /\ tx' = [op |-> "disconnect", mined |-> mined, byHeight |-> byHeight]
    /\ UNCHANGED <<chain, incoming, lookups>>

CommitDisconnect ==
    /\ Running
    /\ tx.op = "disconnect"
    /\ chain' = SubSeq(chain, 1, Height)
    /\ tx' = NoTx
    /\ UNCHANGED <<mined, byHeight, cache, pool, lookups>>

\* The transaction goes out of scope uncommitted: a later check of the block
\* failed, the block was only tested, or VerifyDB undid it for practice.
Rollback ==
    /\ Running
    /\ tx # NoTx
    /\ mined' = tx.mined /\ byHeight' = tx.byHeight
    /\ tx' = NoTx
    /\ UNCHANGED <<chain, cache, pool, lookups>>

-----------------------------------------------------------------------------
(* Lookups by other threads, which hold no lock from one step to the next. *)

\* HasMinedCommitment answers from the cache, or goes on to the database.
Find(q, todo, scan) ==
    [pc |-> CASE cache[q] = Unset -> "exists"
              [] cache[q] = TRUE  -> "load"
              [] OTHER            -> "null",
     q |-> q, todo |-> todo, scan |-> scan]

\* CQuorumManager::GetQuorum(q) looks the block up under cs_main...
GetQuorum(r, q) ==
    /\ Running
    /\ reader[r] = Idle /\ tx = NoTx
    /\ reader' = [reader EXCEPT ![r] = [pc |-> "find", q |-> q]]
    /\ UNCHANGED <<chain, mined, byHeight, tx, cache, pool, quorums>>

\* ...and the quorum without it.
FindQuorum(r) ==
    /\ Running
    /\ reader[r].pc = "find"
    /\ reader' = [reader EXCEPT ![r] = Find(@.q, <<>>, FALSE)]
    /\ UNCHANGED <<chain, mined, byHeight, tx, cache, pool, quorums>>

\* ScanQuorums takes the tip under cs_main.
ScanQuorums(r) ==
    /\ Running
    /\ reader[r] = Idle /\ tx = NoTx
    /\ reader' = [reader EXCEPT ![r] = [pc |-> "scan", start |-> chain]]
    /\ UNCHANGED <<chain, mined, byHeight, tx, cache, pool, quorums>>

\* The quorums the height index lists below the tip of start, latest first.
GetMinedCommitmentsUntilBlock(start) ==
    LET last == Len(start) - 1
        Indexed(h) == byHeight[h] >= 0
        heights == SelectSeq([i \in 1..last |-> last + 1 - i], Indexed)
    IN  [i \in DOMAIN heights |-> start[byHeight[heights[i]] + 1].hash]

ScanRead(r) ==
    /\ Running
    /\ reader[r].pc = "scan"
    /\ reader' = [reader EXCEPT ![r] =
                    [pc |-> "next", todo |-> GetMinedCommitmentsUntilBlock(@.start)]]
    /\ UNCHANGED <<chain, mined, byHeight, tx, cache, pool, quorums>>

ScanNext(r) ==
    /\ Running
    /\ reader[r].pc = "next"
    /\ reader' = [reader EXCEPT ![r] =
                    IF @.todo = <<>> THEN Idle ELSE Find(Head(@.todo), Tail(@.todo), TRUE)]
    /\ UNCHANGED <<chain, mined, byHeight, tx, cache, pool, quorums>>

\* HasMinedCommitment reads the open transaction's view of the database...
Exists(r) ==
    /\ Running
    /\ reader[r].pc = "exists"
    /\ reader' = [reader EXCEPT ![r] =
                    [pc |-> "emplace", q |-> @.q, todo |-> @.todo, scan |-> @.scan,
                     ret |-> mined[@.q] # NoQc]]
    /\ UNCHANGED <<chain, mined, byHeight, tx, cache, pool, quorums>>

\* ...and puts what it read into the cache, unless an entry is there by now.
Emplace(r) ==
    /\ Running
    /\ reader[r].pc = "emplace"
    /\ LET s == reader[r]
       IN  /\ cache' = [cache EXCEPT ![s.q] = IF @ = Unset THEN s.ret ELSE @]
           /\ reader' = [reader EXCEPT ![r] =
                           [pc |-> IF s.ret THEN "load" ELSE "null",
                            q |-> s.q, todo |-> s.todo, scan |-> s.scan]]
    /\ UNCHANGED <<chain, mined, byHeight, tx, pool, quorums>>

\* What the caller of GetQuorum does: ScanQuorums asserts that it got a quorum.
Answer(s, found) ==
    IF ~s.scan THEN Idle
    ELSE IF found THEN [pc |-> "next", todo |-> s.todo] ELSE [pc |-> "aborted"]

\* GetQuorum takes the quorum from quorumsCache, or builds it from the
\* commitment in the database.
LoadQuorum(r) ==
    /\ Running
    /\ reader[r].pc = "load"
    /\ LET s == reader[r]
           known == IF quorums[s.q] # NoQc THEN quorums[s.q] ELSE mined[s.q]
       IN  /\ quorums' = [quorums EXCEPT ![s.q] = known]
           /\ reader' = [reader EXCEPT ![r] = Answer(s, known # NoQc)]
    /\ UNCHANGED <<chain, mined, byHeight, tx, cache, pool>>

NullQuorum(r) ==
    /\ Running
    /\ reader[r].pc = "null"
    /\ reader' = [reader EXCEPT ![r] = Answer(@, FALSE)]
    /\ UNCHANGED <<chain, mined, byHeight, tx, cache, pool, quorums>>

-----------------------------------------------------------------------------
\* Only the databases survive; an open transaction does not.
Restart ==
    /\ IF tx = NoTx THEN UNCHANGED <<mined, byHeight>>
       ELSE mined' = tx.mined /\ byHeight' = tx.byHeight
    /\ tx' = NoTx
    /\ cache' = [q \in Hash |-> Unset]
    /\ minable' = {} /\ byQuorum' = [q \in Hash |-> NoQc]
    /\ incoming' = NoQc
    /\ quorums' = [q \in Hash |-> NoQc] /\ reader' = [r \in Reader |-> Idle]
    /\ UNCHANGED chain

Blocks ==
    \/ \E hash \in Hash \cup {NoHash}, c \in Commitment \cup NullCommitment \cup {NoQc} :
            BeginConnect(hash, c)
    \/ CreateNewBlock \/ CommitConnect
    \/ BeginDisconnect \/ CommitDisconnect \/ Rollback

Pool == AddReceived \/ \E c \in Commitment : FinalizeCommitment(c) \/ ReceiveCommitment(c)

Read(r) ==
    \/ (\E q \in Hash : GetQuorum(r, q)) \/ FindQuorum(r)
    \/ ScanQuorums(r) \/ ScanRead(r) \/ ScanNext(r)
    \/ Exists(r) \/ Emplace(r) \/ LoadQuorum(r) \/ NullQuorum(r)

Next == Blocks \/ Pool \/ Restart

Spec == Init /\ [][Next]_vars

\* With threads that look quorums up: signing, ChainLocks and InstantSend do, and
\* hold no lock that keeps blocks from being connected.
ReaderSpec == Init /\ [][Next \/ \E r \in Reader : Read(r)]_vars

-----------------------------------------------------------------------------
(* Properties.                                                             *)

\* The state is well formed: the chain alternates session-starting blocks with
\* others, the databases and pools hold commitments of the quorum they are
\* filed under, and the height index never points above the block it is for.
TypeOK ==
    /\ Len(chain) \in 1..(MaxHeight + 1)
    /\ \A i \in DOMAIN chain :
         /\ chain[i].hash \in IF (i - 1) % DkgInterval = 0 THEN Hash ELSE {NoHash}
         /\ chain[i].qc \in Commitment \cup NullCommitment \cup {NoQc}
    /\ \A q \in Hash :
         /\ mined[q] \in {c \in Commitment : c.q = q} \cup {NoQc}
         /\ byQuorum[q] \in {c \in Commitment : c.q = q} \cup {NoQc}
         /\ quorums[q] \in {c \in Commitment : c.q = q} \cup {NoQc}
    /\ \A h \in 0..MaxHeight : byHeight[h] \in -1..h
    /\ cache \in [Hash -> BOOLEAN \cup {Unset}]
    /\ minable \subseteq Commitment
    /\ incoming \in Commitment \cup {NoQc}
    /\ tx.op \in {"none", "connect", "test", "disconnect"}

\* The commitments of the active chain, by the height that mined them.
OnChain(q) == {h \in 0..Height : Stores(chain[h + 1].qc) /\ chain[h + 1].qc.q = q}

\* HasMinedCommitment's cache never contradicts the database it answers for:
\* not while a block's transaction is open, and not after it was committed,
\* rolled back by a failed block or a block template, or undone.
CacheAgrees == \A q \in Hash : cache[q] # Unset => cache[q] = (mined[q] # NoQc)

\* Between blocks both database records are a function of the active chain:
\* the commitment of a quorum and the height index list exactly what the
\* chain's blocks mined, after any sequence of connects, undos and rollbacks.
MinedMatchesChain ==
    tx = NoTx =>
        /\ \A q \in Hash :
             IF OnChain(q) = {} THEN mined[q] = NoQc
             ELSE \E h \in OnChain(q) : mined[q] = chain[h + 1].qc
        /\ \A h \in 0..Height :
             byHeight[h] = IF Stores(chain[h + 1].qc) THEN QuorumHeight(h) ELSE -1
        /\ \A h \in (Height + 1)..MaxHeight : byHeight[h] = -1

\* What ProcessBlock says of its checks: in the mining phase every block has a
\* (possibly null) commitment until the first non-null one, which before DIP3 is
\* enforced it may have; after that one, and outside the phase, none has.
CommitmentUntilFirst ==
    \A h \in 0..Height :
        LET c == chain[h + 1].qc
            start == h - (h % DkgInterval)
            done == \E k \in start..(h - 1) : Stores(chain[k + 1].qc)
            due == h % DkgInterval \in WindowStart..WindowEnd /\ ~done
        IN  /\ c # NoQc => due /\ c.q = chain[start + 1].hash
            /\ due /\ Enforced(h) => c # NoQc

\* A commitment undone by a reorganisation can be mined again: once its block
\* is off the chain the pool holds it or one with more signers.
UndoneIsMinable ==
    [][ Len(chain') < Len(chain) /\ Stores(chain[Len(chain)].qc) =>
          LET c == chain[Len(chain)].qc
          IN  byQuorum'[c.q] # NoQc /\ byQuorum'[c.q].signers >= c.signers ]_vars

\* The pool's index never dangles: GetMinableCommitment and AddMinableCommitment
\* look the indexed hash up with at(), which throws if it is missing.
IndexedIsStored == \A q \in Hash : byQuorum[q] # NoQc => byQuorum[q] \in minable

\* AddMinableCommitment overrides the known commitment of a quorum: the pool
\* holds one commitment per quorum.
OneMinablePerQuorum == \A c, d \in minable : c.q = d.q => c = d

\* ScanQuorums' assertion: every quorum the height index lists can be loaded.
ScanNeverFails == Running

\* GetQuorum checks HasQuorum before it looks into quorumsCache because of
\* reorganisations: at rest, the quorum it returns is the one that is mined.
CachedQuorumIsMined ==
    tx = NoTx /\ (\A r \in Reader : reader[r] = Idle) =>
        \A q \in Hash : quorums[q] # NoQc /\ mined[q] # NoQc => quorums[q] = mined[q]

=============================================================================
