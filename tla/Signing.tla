------------------------------ MODULE Signing ------------------------------
(***************************************************************************)
(* Threshold signing inside long-living masternode quorums (LLMQs):       *)
(* CSigningManager (llmq/quorums_signing.cpp) and the signing half of      *)
(* CSigSharesManager (llmq/quorums_signing_shares.cpp), on all masternodes *)
(* at once, for one LLMQ type.                                             *)
(*                                                                         *)
(* A masternode that is asked to sign msgHash m under request id           *)
(* writes a vote (id -> m) to its database, picks a quorum from its own    *)
(* chain tip, and, if it is a valid member, queues the signing.  The       *)
(* "sigshares" worker thread signs, exchanges shares with the other        *)
(* members, and turns a threshold of shares into a recovered signature.    *)
(*                                                                         *)
(* Signatures are abstracted to who signed what: a share or a recovered    *)
(* signature that exists in netShares/netRecSigs is a valid one, and a     *)
(* recovered signature exists only if a threshold of valid members signed. *)
(* A message is delivered any number of times, in any order, or never.     *)
(***************************************************************************)
EXTENDS FiniteSets, Integers

CONSTANTS
    Node,       \* masternodes (proTxHash)
    Faulty,     \* masternodes that need not run this code
    Quorum,     \* quorum hashes
    Members,    \* Members[q]: every member of quorum q
    Valid,      \* Valid[q]: the members whose bit is set in qc.validMembers
    Vvec,       \* Vvec[q]: the nodes that hold q's verification vector
    SkShare,    \* SkShare[q]: those that also hold their share of q's secret key
    Threshold,  \* params.threshold
    Id,         \* request ids
    Msg,        \* message hashes
    View,       \* chain tips a node can be at
    Mined,      \* Mined[v]: quorums whose commitment is mined at or below tip v
    Active,     \* Active[v]: quorums IsQuorumActive accepts at tip v
    Selected,   \* Selected[v][id]: SelectQuorumForSigning at tip v, or NoQuorum
    NoMsg, NoRec, NoQuorum

Honest == Node \ Faulty

Share == [q : Quorum, id : Id, m : Msg, by : Node]
RecSig == [q : Quorum, id : Id, m : Msg]

ASSUME QuorumAssumption ==
    /\ IsFiniteSet(Node)
    /\ Faulty \subseteq Node
    /\ Threshold \in Nat \ {0}
    /\ Members \in [Quorum -> SUBSET Node]
    /\ Valid \in [Quorum -> SUBSET Node]
    /\ Vvec \in [Quorum -> SUBSET Node]
    /\ SkShare \in [Quorum -> SUBSET Node]
    /\ \A q \in Quorum : Valid[q] \subseteq Members[q] /\ SkShare[q] \subseteq Vvec[q]

ASSUME ViewAssumption ==
    /\ Mined \in [View -> SUBSET Quorum]
    /\ Active \in [View -> SUBSET Quorum]
    /\ Selected \in [View -> [Id -> Quorum \cup {NoQuorum}]]
    /\ \A v \in View : Active[v] \subseteq Mined[v]

ASSUME NullAssumption == NoMsg \notin Msg /\ NoRec \notin RecSig /\ NoQuorum \notin Quorum

VARIABLES
    tip,           \* tip[n]: the chain tip n is at
    voted,         \* voted[n][id]: "rs_v" record in the database of n
    recSig,        \* recSig[n][id]: "rs_r" record in the database of n
    pendingSigns,  \* queued by AsyncSign, taken by the worker thread
    pendingShares, \* pendingIncomingSigShares of all peers of n
    sigShares,     \* verified shares n holds
    pendingRecSigs,\* pendingRecoveredSigs of all peers of n
    netShares,     \* every share ever produced
    netRecSigs,    \* every recovered signature ever produced
    forgotten,     \* history: ids some vote for which was erased from a database
    aborted        \* history: nodes that hit assert(quorum != nullptr)

vars == <<tip, voted, recSig, pendingSigns, pendingShares, sigShares,
          pendingRecSigs, netShares, netRecSigs, forgotten, aborted>>

Init ==
    /\ tip \in [Honest -> View]
    /\ voted = [n \in Honest |-> [id \in Id |-> NoMsg]]
    /\ recSig = [n \in Honest |-> [id \in Id |-> NoRec]]
    /\ pendingSigns = [n \in Honest |-> {}]
    /\ pendingShares = [n \in Honest |-> {}]
    /\ sigShares = [n \in Honest |-> {}]
    /\ pendingRecSigs = [n \in Honest |-> {}]
    /\ netShares = {}
    /\ netRecSigs = {}
    /\ forgotten = {}
    /\ aborted = {}

\* Two sets of valid members that meet the threshold share a member that runs
\* this code.  consensus/params.h asks for a threshold of "at least 50%+1 of the
\* quorum size"; LLMQ_50_60, LLMQ_400_60 and LLMQ_400_85 satisfy this with up to
\* a fifth of the members faulty, LLMQ_20_60 (threshold 3 of 20) does not.
MajorityThreshold ==
    \A q \in Quorum :
        2 * Threshold > Cardinality(Valid[q]) + Cardinality(Valid[q] \cap Faulty)

-----------------------------------------------------------------------------
(* Helpers.                                                                *)

\* Mutant: the vote is looked up under a key nobody writes.
HasVotedOnId_WrongKey(n, id) == FALSE

HasVotedOnId(n, id) == voted[n][id] # NoMsg

HasRecoveredSigForId(n, id) == recSig[n][id] # NoRec

\* BuildSignHash: shares with the same signHash sign the same thing.
SameSession(s, t) == s.q = t.q /\ s.id = t.id /\ s.m = t.m

WithoutSession(shares, s) == {t \in shares : ~SameSession(s, t)}

\* Mutants: the share being processed is counted twice; it is not counted.
CountForSignHash_Twice(shares, s) == Cardinality({t \in shares : SameSession(s, t)}) + 1
CountForSignHash_Before(shares, s) == Cardinality({t \in shares : SameSession(s, t)}) - 1

CountForSignHash(shares, s) == Cardinality({t \in shares : SameSession(s, t)})

\* The quorum's secret can be reconstructed: what BLS verification against the
\* quorum public key establishes.
Recoverable(shares, rs) ==
    \E S \in SUBSET Valid[rs.q] :
        /\ Cardinality(S) >= Threshold
        /\ \A n \in S : [q |-> rs.q, id |-> rs.id, m |-> rs.m, by |-> n] \in shares

\* ProcessRecoveredSig: the first recovered signature of an id is stored and
\* relayed, and the listener drops the session's shares; any later one of the
\* same id, conflicting or not, is ignored.
ProcessRecoveredSig(n, rs, shares, pshares) ==
    IF HasRecoveredSigForId(n, rs.id)
    THEN /\ sigShares' = [sigShares EXCEPT ![n] = shares]
         /\ pendingShares' = [pendingShares EXCEPT ![n] = pshares]
         /\ UNCHANGED <<recSig, netRecSigs>>
    ELSE /\ recSig' = [recSig EXCEPT ![n][rs.id] = rs]
         /\ netRecSigs' = netRecSigs \cup {rs}
         /\ sigShares' = [sigShares EXCEPT ![n] = WithoutSession(shares, rs)]
         /\ pendingShares' = [pendingShares EXCEPT ![n] = WithoutSession(pshares, rs)]

\* ProcessSigShare followed by TryRecoverSig; the share has been verified.
ProcessSigShare(n, s, pshares) ==
    IF HasRecoveredSigForId(n, s.id) \/ s \in sigShares[n]
    THEN /\ pendingShares' = [pendingShares EXCEPT ![n] = pshares]
         /\ UNCHANGED <<recSig, sigShares, netShares, netRecSigs>>
    ELSE /\ netShares' = netShares \cup {s}
         /\ LET shares == sigShares[n] \cup {s}
            IN  IF CountForSignHash(shares, s) >= Threshold
                THEN ProcessRecoveredSig(n, [q |-> s.q, id |-> s.id, m |-> s.m],
                                         shares, pshares)
                ELSE /\ sigShares' = [sigShares EXCEPT ![n] = shares]
                     /\ pendingShares' = [pendingShares EXCEPT ![n] = pshares]
                     /\ UNCHANGED <<recSig, netRecSigs>>

-----------------------------------------------------------------------------
(* Requests to sign.                                                       *)

\* AsyncSignIfMember.  The vote is written before a quorum is selected, so it
\* stays even when no quorum is found or this node is not a valid member.
AsyncSignIfMember(n, id, m) ==
    /\ ~HasVotedOnId(n, id)
    /\ ~HasRecoveredSigForId(n, id)
    /\ voted' = [voted EXCEPT ![n][id] = m]
    /\ LET q == Selected[tip[n]][id]
       IN  IF q # NoQuorum /\ n \in Valid[q]
           THEN pendingSigns' = [pendingSigns EXCEPT ![n] =
                                    @ \cup {[q |-> q, id |-> id, m |-> m]}]
           ELSE UNCHANGED pendingSigns
    /\ UNCHANGED <<tip, recSig, pendingShares, sigShares, pendingRecSigs,
                   netShares, netRecSigs, forgotten, aborted>>

\* One element of SignPendingSigShares: Sign, then ProcessSigShare(-1, ...).
SignPendingSigShare(n, p) ==
    /\ p \in pendingSigns[n]
    /\ pendingSigns' = [pendingSigns EXCEPT ![n] = @ \ {p}]
    /\ IF n \in Valid[p.q] \cap SkShare[p.q]
       THEN ProcessSigShare(n, [q |-> p.q, id |-> p.id, m |-> p.m, by |-> n],
                            pendingShares[n])
       ELSE UNCHANGED <<recSig, sigShares, pendingShares, netShares, netRecSigs>>
    /\ UNCHANGED <<tip, voted, pendingRecSigs, forgotten, aborted>>

-----------------------------------------------------------------------------
(* Shares from other members.                                              *)

\* ProcessMessageBatchedSigShares, with the checks of PreVerifyBatchedSigShares.
ReceiveSigShare(n, s) ==
    /\ s \in netShares
    /\ s.q \in Active[tip[n]]
    /\ n \in Members[s.q] \cap Vvec[s.q]
    /\ s.by \in Valid[s.q]
    /\ s \notin sigShares[n]
    /\ ~HasRecoveredSigForId(n, s.id)
    /\ pendingShares' = [pendingShares EXCEPT ![n] = @ \cup {s}]
    /\ UNCHANGED <<tip, voted, recSig, pendingSigns, sigShares, pendingRecSigs,
                   netShares, netRecSigs, forgotten, aborted>>

\* Everything of n that is not in a database is lost.
LoseMemory(n) ==
    /\ pendingSigns' = [pendingSigns EXCEPT ![n] = {}]
    /\ pendingShares' = [pendingShares EXCEPT ![n] = {}]
    /\ sigShares' = [sigShares EXCEPT ![n] = {}]
    /\ pendingRecSigs' = [pendingRecSigs EXCEPT ![n] = {}]

\* One share of ProcessPendingSigShares.  CollectPendingSigSharesToVerify drops
\* shares already held and asserts that the quorum of any other one is known.
ProcessPendingSigShare(n, s) ==
    /\ s \in pendingShares[n]
    /\ s \in sigShares[n] \/ s.q \in Mined[tip[n]]
    /\ ProcessSigShare(n, s, pendingShares[n] \ {s})
    /\ UNCHANGED <<tip, voted, pendingSigns, pendingRecSigs, forgotten, aborted>>

\* The same, when the assertion fails: the process ends and is restarted.
AbortOnUnknownQuorum(n, s) ==
    /\ s \in pendingShares[n]
    /\ s \notin sigShares[n]
    /\ s.q \notin Mined[tip[n]]
    /\ aborted' = aborted \cup {n}
    /\ LoseMemory(n)
    /\ UNCHANGED <<tip, voted, recSig, netShares, netRecSigs, forgotten>>

-----------------------------------------------------------------------------
(* Recovered signatures from other nodes.                                  *)

\* ProcessMessageRecoveredSig, with PreVerifyRecoveredSig.
ReceiveRecoveredSig(n, rs) ==
    /\ rs \in netRecSigs
    /\ rs.q \in Active[tip[n]]
    /\ recSig[n][rs.id] # rs
    /\ pendingRecSigs' = [pendingRecSigs EXCEPT ![n] = @ \cup {rs}]
    /\ UNCHANGED <<tip, voted, recSig, pendingSigns, pendingShares, sigShares,
                   netShares, netRecSigs, forgotten, aborted>>

\* One signature of ProcessPendingRecoveredSigs: those of a quorum that is no
\* longer active at the tip are dropped.
ProcessPendingRecoveredSig(n, rs) ==
    /\ rs \in pendingRecSigs[n]
    /\ pendingRecSigs' = [pendingRecSigs EXCEPT ![n] = @ \ {rs}]
    /\ IF rs.q \in Active[tip[n]]
       THEN ProcessRecoveredSig(n, rs, sigShares[n], pendingShares[n])
       ELSE UNCHANGED <<recSig, sigShares, pendingShares, netRecSigs>>
    /\ UNCHANGED <<tip, voted, pendingSigns, netShares, forgotten, aborted>>

\* PushReconstructedRecoveredSig and ProcessPendingReconstructedRecoveredSigs: a
\* signature taken out of an InstantSend lock, already verified.
ProcessReconstructedRecoveredSig(n, rs) ==
    /\ rs \in netRecSigs
    /\ ProcessRecoveredSig(n, rs, sigShares[n], pendingShares[n])
    /\ UNCHANGED <<tip, voted, pendingSigns, pendingRecSigs, netShares, forgotten,
                   aborted>>

-----------------------------------------------------------------------------
(* Housekeeping, restarts, tips, faulty members.                           *)

\* RemoveSigSharesForSession, which CSigSharesManager::Cleanup calls for sessions
\* that timed out, were recovered, or belong to an inactive quorum.
CleanupSession(n, s) ==
    /\ s \in sigShares[n]
    /\ sigShares' = [sigShares EXCEPT ![n] = WithoutSession(@, s)]
    /\ pendingShares' = [pendingShares EXCEPT ![n] = WithoutSession(@, s)]
    /\ UNCHANGED <<tip, voted, recSig, pendingSigns, pendingRecSigs, netShares,
                   netRecSigs, forgotten, aborted>>

\* RemoveRecoveredSig (called by InstantSend), and CleanupOldRecoveredSigs.
RemoveRecoveredSig(n, id) ==
    /\ HasRecoveredSigForId(n, id)
    /\ recSig' = [recSig EXCEPT ![n][id] = NoRec]
    /\ UNCHANGED <<tip, voted, pendingSigns, pendingShares, sigShares,
                   pendingRecSigs, netShares, netRecSigs, forgotten, aborted>>

\* CleanupOldVotes: the vote has reached -recsigsmaxage (a week by default).
CleanupOldVote(n, id) ==
    /\ HasVotedOnId(n, id)
    /\ voted' = [voted EXCEPT ![n][id] = NoMsg]
    /\ forgotten' = forgotten \cup {id}
    /\ UNCHANGED <<tip, recSig, pendingSigns, pendingShares, sigShares,
                   pendingRecSigs, netShares, netRecSigs, aborted>>

\* Mutant: votes are kept in memory only.
Restart_VotesInMemory(n) ==
    /\ LoseMemory(n)
    /\ voted' = [voted EXCEPT ![n] = [id \in Id |-> NoMsg]]
    /\ UNCHANGED <<tip, recSig, netShares, netRecSigs, forgotten, aborted>>

\* The process stops and is started again on the same databases.
Restart(n) ==
    /\ LoseMemory(n)
    /\ UNCHANGED <<tip, voted, recSig, netShares, netRecSigs, forgotten, aborted>>

\* Started again with -reindex: InitLLMQSystem wipes the llmq database.
RestartWithReindex(n) ==
    /\ LoseMemory(n)
    /\ voted' = [voted EXCEPT ![n] = [id \in Id |-> NoMsg]]
    /\ recSig' = [recSig EXCEPT ![n] = [id \in Id |-> NoRec]]
    /\ forgotten' = forgotten \cup {id \in Id : HasVotedOnId(n, id)}
    /\ UNCHANGED <<tip, netShares, netRecSigs, aborted>>

\* The tip of n moves, forward or by a reorganisation.
UpdatedBlockTip(n, v) ==
    /\ v # tip[n]
    /\ tip' = [tip EXCEPT ![n] = v]
    /\ UNCHANGED <<voted, recSig, pendingSigns, pendingShares, sigShares,
                   pendingRecSigs, netShares, netRecSigs, forgotten, aborted>>

\* A faulty member signs anything, as often as it likes.
FaultySign(s) ==
    /\ s.by \in Faulty \cap Valid[s.q]
    /\ netShares' = netShares \cup {s}
    /\ UNCHANGED <<tip, voted, recSig, pendingSigns, pendingShares, sigShares,
                   pendingRecSigs, netRecSigs, forgotten, aborted>>

\* A faulty node puts together shares it has seen.
FaultyRecover(rs) ==
    /\ Faulty # {}
    /\ Recoverable(netShares, rs)
    /\ netRecSigs' = netRecSigs \cup {rs}
    /\ UNCHANGED <<tip, voted, recSig, pendingSigns, pendingShares, sigShares,
                   pendingRecSigs, netShares, forgotten, aborted>>

-----------------------------------------------------------------------------
\* What the code does when nothing is lost.
SigningStep(n) ==
    \/ \E id \in Id, m \in Msg : AsyncSignIfMember(n, id, m)
    \/ \E p \in pendingSigns[n] : SignPendingSigShare(n, p)
    \/ \E s \in netShares : ReceiveSigShare(n, s)
    \/ \E s \in pendingShares[n] : ProcessPendingSigShare(n, s)
    \/ \E rs \in netRecSigs : ReceiveRecoveredSig(n, rs)
    \/ \E rs \in pendingRecSigs[n] : ProcessPendingRecoveredSig(n, rs)
    \/ \E rs \in netRecSigs : ProcessReconstructedRecoveredSig(n, rs)

EnvironmentStep(n) ==
    \/ \E s \in pendingShares[n] : AbortOnUnknownQuorum(n, s)
    \/ \E s \in sigShares[n] : CleanupSession(n, s)
    \/ \E id \in Id : RemoveRecoveredSig(n, id)
    \/ \E id \in Id : CleanupOldVote(n, id)
    \/ Restart(n)
    \/ RestartWithReindex(n)
    \/ \E v \in View : UpdatedBlockTip(n, v)

Next ==
    \/ \E n \in Honest : SigningStep(n)
    \/ \E n \in Honest : EnvironmentStep(n)
    \/ \E s \in Share : FaultySign(s)
    \/ \E rs \in RecSig : FaultyRecover(rs)

Spec == Init /\ [][Next]_vars

\* Behaviours in which no tip moves, nothing is erased, and no process stops.
ReliableNext == \E n \in Honest : SigningStep(n)

ReliableSpec == Init /\ [][ReliableNext]_vars

\* The worker thread of every node keeps looping (WorkThreadMain sleeps at most
\* 100 ms), and a message sent over an open connection arrives.
Fairness ==
    \A n \in Honest :
        /\ \A p \in RecSig : WF_vars(SignPendingSigShare(n, p))
        /\ \A s \in Share : WF_vars(ReceiveSigShare(n, s))
        /\ \A s \in Share : WF_vars(ProcessPendingSigShare(n, s))
        /\ \A rs \in RecSig : WF_vars(ReceiveRecoveredSig(n, rs))
        /\ \A rs \in RecSig : WF_vars(ProcessPendingRecoveredSig(n, rs))

LiveSpec == ReliableSpec /\ Fairness

-----------------------------------------------------------------------------
(* Properties.                                                             *)

\* The databases, queues and messages hold votes, shares and signatures.
TypeOK ==
    /\ tip \in [Honest -> View]
    /\ voted \in [Honest -> [Id -> Msg \cup {NoMsg}]]
    /\ recSig \in [Honest -> [Id -> RecSig \cup {NoRec}]]
    /\ pendingSigns \in [Honest -> SUBSET RecSig]
    /\ pendingShares \in [Honest -> SUBSET Share]
    /\ sigShares \in [Honest -> SUBSET Share]
    /\ pendingRecSigs \in [Honest -> SUBSET RecSig]
    /\ netShares \subseteq Share
    /\ netRecSigs \subseteq RecSig
    /\ forgotten \subseteq Id
    /\ aborted \subseteq Honest

\* Within one quorum no two recovered signatures of one request id sign different
\* messages, whatever votes, shares, restarts, cleanups and reorganisations happen
\* in between, as long as no vote on the id was erased (AsyncSignIfMember votes
\* once; ProcessSigShare recovers from a threshold of distinct members).
UniqueRecoveredPerQuorum ==
    \A r1, r2 \in netRecSigs :
        r1.q = r2.q /\ r1.id = r2.id /\ r1.id \notin forgotten => r1.m = r2.m

\* The abstract signer, with the recovered signatures of all nodes as what it signed.
Oracle == INSTANCE QuorumOracle WITH signed <- netRecSigs

\* The steps of all nodes implement QuorumOracle: a quorum's recovered signatures
\* appear as if one signer kept to the first message it signed for an id
\* (the vote AsyncSignIfMember writes before it signs).
ImplementsOracle == Oracle!Spec

\* The comment in ProcessRecoveredSig: "each masternode is participating in only
\* one vote, even if it's a member of multiple quorums. so a majority is only
\* possible on one quorum and one msgHash per id".
OneMajorityPerId ==
    \A r1, r2 \in netRecSigs :
        r1.id = r2.id /\ r1.id \notin forgotten => r1 = r2

\* A node's database never holds a recovered signature that a threshold of the
\* quorum's valid members did not sign, although shares are dropped, re-sent and
\* lost and signatures reach it by four different paths.
StoredIsRecoverable ==
    \A n \in Honest, id \in Id :
        HasRecoveredSigForId(n, id) =>
            recSig[n][id].id = id /\ Recoverable(netShares, recSig[n][id])

\* What an honest member signed is what it voted for, also after a restart
\* between writing the vote and signing, until the vote is erased.
ShareFollowsVote ==
    \A s \in netShares :
        s.by \in Honest /\ s.id \notin forgotten => voted[s.by][s.id] = s.m

\* Once a threshold of the valid members of the selected quorum, with their secret
\* key shares, voted for the same message, every node ends up with a recovered
\* signature of the id, however the shares cross, whatever the remaining members
\* voted for, and also if it came out of the DKG without what it needs to sign
\* or to verify shares.
AgreedIsRecovered ==
    \A id \in Id, m \in Msg, q \in Quorum :
        Cardinality({n \in Honest \cap Valid[q] \cap SkShare[q] :
                        voted[n][id] = m /\ Selected[tip[n]][id] = q}) >= Threshold
            ~> \A n \in Honest : HasRecoveredSigForId(n, id)

\* A share waiting for the worker thread still belongs to a quorum the node can
\* look up: the assertion in CollectPendingSigSharesToVerify never fails.
QuorumLookupNeverFails == aborted = {}

=============================================================================
