---------------------------- MODULE QuorumOracle ----------------------------
(***************************************************************************)
(* What the users of threshold signing (ChainLocks, InstantSend) rely on:  *)
(* a quorum signs at most one message per request id, for as long as no    *)
(* masternode has erased its vote on that id.  Signing implements this.    *)
(***************************************************************************)
CONSTANTS Quorum, Id, Msg

VARIABLES
    signed,    \* recovered signatures in existence
    forgotten  \* ids on which some vote was erased

Init == signed = {} /\ forgotten = {}

SignOnce(rs) ==
    /\ rs.id \notin forgotten => \A r \in signed : ~(r.q = rs.q /\ r.id = rs.id)
    /\ signed' = signed \cup {rs}
    /\ UNCHANGED forgotten

EraseVotes(ids) ==
    /\ forgotten' = forgotten \cup ids
    /\ UNCHANGED signed

Next ==
    \/ \E rs \in [q : Quorum, id : Id, m : Msg] : SignOnce(rs)
    \/ \E ids \in SUBSET Id : EraseVotes(ids)

Spec == Init /\ [][Next]_<<signed, forgotten>>

=============================================================================
