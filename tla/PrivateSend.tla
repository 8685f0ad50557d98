---------------------------- MODULE PrivateSend ----------------------------
(***************************************************************************)
(* Mixing on one masternode: CPrivateSendServer (privatesend-server.cpp)   *)
(* and a CPrivateSendClientSession of each client (privatesend-client.cpp).*)
(*                                                                         *)
(* The server handles messages on the thread "net" and runs DoMaintenance  *)
(* on the thread "sched".  No lock covers its session, so both go through  *)
(* their functions step by step and meet anywhere; in serial scenarios they *)
(* take turns.  A client holds cs_deqsessions in all its handlers, each of *)
(* which is one step.                                                      *)
(*                                                                         *)
(* All coins have one denomination and an entry has one input (a coin of   *)
(* the client) and one output (a key of the client).  A transaction is a   *)
(* set of such pairs.  SIGHASH_ALL | SIGHASH_ANYONECANPAY: a signature     *)
(* covers its own input and all outputs.  The random nSessionID is the     *)
(* number of the session.  Time is a flag that says that the timeout of    *)
(* the current state has passed.                                           *)
(***************************************************************************)
EXTENDS Integers, FiniteSets, Sequences, SequencesExt

CONSTANTS
  Client,
  None,
  Coin,            \* the denominated coins of each client
  MinParticipants, \* CPrivateSend::GetMinPoolParticipants
  MaxParticipants, \* CPrivateSend::GetMaxPoolParticipants
  Scenarios        \* the bounds of a behaviour

(* A scenario has the fields serial: the two threads of the server take    *)
(* turns; tries: how often each client starts to mix here; coins: which    *)
(* coins it may pick; lost: how many connections are lost; fees: how many  *)
(* collaterals are published; patient: the lag that a client gives the     *)
(* server before it resets is long enough for the server to end the        *)
(* session and for its messages to arrive.                                 *)
ASSUME PrivateSendAssumption ==
  /\ MinParticipants \in Nat \ {0}
  /\ MaxParticipants \in Nat /\ MinParticipants <= MaxParticipants
  /\ \A s \in Scenarios :
       /\ s.serial \in BOOLEAN /\ s.patient \in BOOLEAN /\ s.coins \subseteq Coin
       /\ s.lost \in Nat /\ s.fees \in Nat
       /\ DOMAIN s.tries = Client /\ \A c \in Client : s.tries[c] \in Nat

VARIABLES
  srv,         \* the session on the server
  sessions,    \* sessions created so far
  th,          \* th[t]: what thread t of the server has still to do
  cl,          \* cl[c]: the session of client c
  conn,        \* conn[c]: the number of the open connection, 0 if there is none
  opened,      \* opened[c]: connections opened so far
  toServer,    \* toServer[c]: messages on their way on the connection
  toClient,
  charged,     \* collaterals that were published
  committed,   \* transactions that AcceptToMemoryPool took
  scenario,    \* the bounds of this behaviour
  disconnects, \* connections lost so far
  untold       \* participants of the last commit who have not heard of it

vars == <<srv, sessions, th, cl, conn, opened, toServer, toClient, charged,
          committed, scenario, disconnects, untold>>

net == <<conn, opened>>
history == <<scenario, disconnects>>

Thread == {"net", "sched"}
State == {"idle", "queue", "accepting", "signing", "error"}

-----------------------------------------------------------------------------
(* The server's session.  colls: vecSessionCollaterals, as <<client,       *)
(* collateral>>; entries: vecEntries, with the client, its coin and key,   *)
(* its collateral, the connection it came from (entry.addr) and the        *)
(* signature (fHasSig: not None); tx and sigs: finalMutableTransaction.    *)
NoSession ==
  [state |-> "idle", sid |-> 0, max |-> 0, colls |-> <<>>, entries |-> <<>>,
   tx |-> {}, sigs |-> {}, late |-> FALSE]

Outputs(tx) == {<<p.c, p.key>> : p \in tx}
Inputs(tx) == {<<p.c, p.coin>> : p \in tx}
Spent == UNION {Inputs(tx) : tx \in committed}

(* A thread: the functions it still has to go through, and the message it  *)
(* handles with its sender and connection.                                 *)
AtRest == [todo |-> <<>>, c |-> None, conn |-> 0, msg |-> None]
At(t, step) == th[t].todo # <<>> /\ Head(th[t].todo) = step
Go(t, steps) == th' = [th EXCEPT ![t] =
  LET todo == steps \o Tail(@.todo)
  IN  IF todo = <<>> THEN AtRest ELSE [@ EXCEPT !.todo = todo]]
MayStart(t) == th[t] = AtRest /\ (scenario.serial => \A u \in Thread : th[u] = AtRest)

(* A client's session after SetNull, which leaves the wallet alone: the    *)
(* collateral and the number of the key that AddKey reserves next.         *)
Null(s) == [s EXCEPT !.state = "idle", !.sid = 0, !.mn = FALSE,
                     !.pending = FALSE, !.entry = None]
(* UnlockCoins, keyHolderStorage.ReturnAll and SetNull: the next AddKey    *)
(* takes the returned key again.                                           *)
GiveUp(s) == [Null(s) EXCEPT !.locked = FALSE]
Fail(s) == [GiveUp(s) EXCEPT !.state = "error"]

Init ==
  /\ srv = NoSession
  /\ sessions = 0
  /\ th = [t \in Thread |-> AtRest]
  /\ cl = [c \in Client |->
             [state |-> "idle", sid |-> 0, mn |-> FALSE, pending |-> FALSE,
              entry |-> None, locked |-> FALSE, tries |-> 0, coll |-> 1,
              key |-> 1]]
  /\ conn = [c \in Client |-> 0]
  /\ opened = [c \in Client |-> 0]
  /\ toServer = [c \in Client |-> <<>>]
  /\ toClient = [c \in Client |-> <<>>]
  /\ charged = {}
  /\ committed = {}
  /\ scenario \in Scenarios
  /\ disconnects = 0
  /\ untold = {}

-----------------------------------------------------------------------------
(* What the server sends.  A message to a lost connection is dropped.      *)

Times(n, m) == [i \in 1..n |-> m]
Live(e) == conn[e.c] = e.conn
Status(ok) == [type |-> "status", ok |-> ok, state |-> srv.state, sid |-> srv.sid]

(* The number of entries of c among the first n whose connection is open.  *)
LiveEntries(c, n) ==
  Cardinality({i \in 1..n : srv.entries[i].c = c /\ Live(srv.entries[i])})
Gone == {i \in DOMAIN srv.entries : ~Live(srv.entries[i])}

PushStatus(t, ok) ==
  toClient' = [toClient EXCEPT ![th[t].c] =
    IF conn[th[t].c] = th[t].conn THEN Append(@, Status(ok)) ELSE @]

(* RelayStatus: every participant gets the status, and a rejection if one  *)
(* of them has gone; the session is reset when all have gone.              *)
StatusFor(c, ok) ==
  LET n == LiveEntries(c, Len(srv.entries))
  IN  Times(n, Status(ok)) \o (IF Gone = {} THEN <<>> ELSE Times(n, Status(FALSE)))
AllGone == Gone # {} /\ Gone = DOMAIN srv.entries
ResetIfAllGone == IF AllGone THEN <<"null", "clear">> ELSE <<>>
RelayStatus(t, ok) ==
  /\ toClient' = [c \in Client |-> toClient[c] \o StatusFor(c, ok)]
  /\ Go(t, ResetIfAllGone)

(* RelayFinalTransaction and RelayCompletedTransaction: message m goes to  *)
(* the participants in turn; the first that has gone ends the loop with    *)
(* RelayStatus(STATUS_REJECTED).                                           *)
Reached == IF Gone = {} THEN Len(srv.entries)
           ELSE (CHOOSE i \in Gone : \A j \in Gone : i <= j) - 1
RelayFor(c, m) == Times(LiveEntries(c, Reached), m)
                    \o (IF Gone = {} THEN <<>> ELSE StatusFor(c, FALSE))
Relayed == {srv.entries[i].c : i \in 1..Reached}

-----------------------------------------------------------------------------
(* Messages to the server: CPrivateSendServer::ProcessMessage.             *)

IsSessionReady == srv.max # 0 /\ Len(srv.colls) >= srv.max
IsCollateralValid(coll) == coll \notin charged
Collateral(t) == <<th[t].c, th[t].msg.coll>>

(* A thread takes a message and does what follows its first check.         *)
Take(c, steps) ==
  /\ MayStart("net") /\ toServer[c] # <<>>
  /\ toServer' = [toServer EXCEPT ![c] = Tail(@)]
  /\ th' = [th EXCEPT !["net"] =
       IF steps = <<>> THEN AtRest
       ELSE [todo |-> steps, c |-> c, conn |-> conn[c], msg |-> Head(toServer[c])]]

Received(c, type) == toServer[c] # <<>> /\ Head(toServer[c]).type = type
Answer(c, ok) == toClient' = [toClient EXCEPT ![c] = Append(@, Status(ok))]

(* DSACCEPT.  A full session answers STATUS_ACCEPTED with ERR_QUEUE_FULL.  *)
(* A new session is refused while the last dsq is remembered or too        *)
(* recent, and the message is dropped when cs_vecqueue is taken.           *)
Accept(c) ==
  /\ Received(c, "dsa")
  /\ \/ IsSessionReady /\ Take(c, <<>>) /\ Answer(c, TRUE)
     \/ ~IsSessionReady /\ srv.colls = <<>> /\ Take(c, <<>>)
        /\ (Answer(c, FALSE) \/ UNCHANGED toClient)
     \/ ~IsSessionReady /\ Take(c, <<"dsa">>) /\ UNCHANGED toClient
  /\ UNCHANGED <<srv, sessions, cl, net, charged, committed, history, untold>>

CreateNewSession ==
  /\ At("net", "dsa") /\ srv.sid = 0
  /\ IF srv.state = "idle" /\ IsCollateralValid(Collateral("net"))
     THEN /\ sessions' = sessions + 1
          /\ \E n \in MinParticipants..MaxParticipants :
               LET new == [srv EXCEPT !.sid = sessions', !.max = n, !.state = "queue",
                                      !.late = FALSE,
                                      !.colls = Append(@, Collateral("net"))]
               IN  /\ srv' = new
                   /\ toClient' = [toClient EXCEPT ![th["net"].c] =
                        IF conn[th["net"].c] = th["net"].conn
                        THEN Append(@, [Status(TRUE) EXCEPT !.state = new.state,
                                                            !.sid = new.sid])
                        ELSE @]
     ELSE PushStatus("net", FALSE) /\ UNCHANGED <<srv, sessions>>
  /\ Go("net", <<>>)
  /\ UNCHANGED <<cl, net, toServer, charged, committed, history, untold>>

AddUserToExistingSession ==
  /\ At("net", "dsa") /\ srv.sid # 0
  /\ IF ~IsSessionReady /\ IsCollateralValid(Collateral("net")) /\ srv.state = "queue"
     THEN srv' = [srv EXCEPT !.colls = Append(@, Collateral("net"))]
          /\ PushStatus("net", TRUE)
     ELSE PushStatus("net", FALSE) /\ UNCHANGED srv
  /\ Go("net", <<>>)
  /\ UNCHANGED <<sessions, cl, net, toServer, charged, committed, history, untold>>

(* DSVIN, up to AddEntry: the session is full and the input is unspent.    *)
Entry(c) ==
  /\ Received(c, "vin")
  /\ IF IsSessionReady /\ <<c, Head(toServer[c]).coin>> \notin Spent
     THEN Take(c, <<"entry">>) /\ UNCHANGED toClient
     ELSE Take(c, <<>>) /\ Answer(c, FALSE)
  /\ UNCHANGED <<srv, sessions, cl, net, charged, committed, history, untold>>

AddEntry ==
  LET c == th["net"].c
      m == th["net"].msg
      ok == /\ IsCollateralValid(Collateral("net"))
            /\ Len(srv.entries) < srv.max
            /\ \A i \in DOMAIN srv.entries :
                 <<srv.entries[i].c, srv.entries[i].coin>> # <<c, m.coin>>
  IN  /\ At("net", "entry")
      /\ PushStatus("net", ok)
      /\ IF ok
         THEN /\ srv' = [srv EXCEPT !.entries = Append(@,
                   [c |-> c, coin |-> m.coin, key |-> m.key, coll |-> m.coll,
                    conn |-> th["net"].conn, sig |-> None])]
              /\ Go("net", <<"pool", "status">>)
         ELSE UNCHANGED srv /\ Go("net", <<>>)
      /\ UNCHANGED <<sessions, cl, net, toServer, charged, committed, history, untold>>

(* RelayStatus(STATUS_ACCEPTED) at the end of DSVIN.                       *)
RelayAccepted ==
  /\ At("net", "status") /\ RelayStatus("net", TRUE)
  /\ UNCHANGED <<srv, sessions, cl, net, toServer, charged, committed, history, untold>>

(* DSSIGNFINALTX.  The coin must be in the pool; the signature itself is   *)
(* not verified here, since the server has no prevPubKey for the input.    *)
(* The final transaction takes the signature before an entry that is       *)
(* already signed refuses it.                                              *)
EntryOf(sig) == {i \in DOMAIN srv.entries :
                   srv.entries[i].c = sig.c /\ srv.entries[i].coin = sig.coin}
IsNewSig(sig) ==
  /\ \A i \in DOMAIN srv.entries : srv.entries[i].sig # sig
  /\ EntryOf(sig) # {}
AddScriptSig(sig) == IsNewSig(sig) /\ \A i \in EntryOf(sig) : srv.entries[i].sig = None

Signed(sig) ==
  [srv EXCEPT
    !.sigs = IF IsNewSig(sig) /\ <<sig.c, sig.coin>> \in Inputs(srv.tx)
             THEN {s \in @ : <<s.c, s.coin>> # <<sig.c, sig.coin>>} \cup {sig} ELSE @,
    !.entries = [i \in DOMAIN @ |->
       IF AddScriptSig(sig) /\ i \in EntryOf(sig) THEN [@[i] EXCEPT !.sig = sig] ELSE @[i]]]

SignFinal(c) ==
  /\ Received(c, "sig")
  /\ LET sig == Head(toServer[c]).sig
     IN  srv' = Signed(sig)
         /\ Take(c, IF AddScriptSig(sig) THEN <<"pool">> ELSE <<"reject">>)
  /\ UNCHANGED <<sessions, cl, net, toClient, charged, committed, history, untold>>

(* RelayStatus(STATUS_REJECTED) when AddScriptSig failed.                  *)
RelayRejected ==
  /\ At("net", "reject") /\ RelayStatus("net", FALSE)
  /\ UNCHANGED <<srv, sessions, cl, net, toServer, charged, committed, history, untold>>

-----------------------------------------------------------------------------
(* The pool, from either thread.                                           *)

IsSignaturesComplete == \A i \in DOMAIN srv.entries : srv.entries[i].sig # None

CheckPool(t) ==
  /\ At(t, "pool")
  /\ Go(t, CASE srv.state = "accepting" /\ Len(srv.entries) >= srv.max -> <<"create", "final">>
             [] srv.state = "signing" /\ IsSignaturesComplete -> <<"commit">>
             [] OTHER -> <<>>)
  /\ UNCHANGED <<srv, sessions, cl, net, toServer, toClient, charged, committed,
                 history, untold>>

CreateFinalTransaction(t) ==
  /\ At(t, "create")
  /\ srv' = [srv EXCEPT !.tx = {[c |-> e.c, coin |-> e.coin, key |-> e.key] : e \in ToSet(srv.entries)},
                        !.sigs = {}, !.state = "signing", !.late = FALSE]
  /\ Go(t, <<>>)
  /\ UNCHANGED <<sessions, cl, net, toServer, toClient, charged, committed, history, untold>>

RelayFinalTransaction(t) ==
  /\ At(t, "final")
  /\ toClient' = [c \in Client |-> toClient[c] \o
                    RelayFor(c, [type |-> "final", sid |-> srv.sid, tx |-> srv.tx])]
  /\ Go(t, ResetIfAllGone)
  /\ UNCHANGED <<srv, sessions, cl, net, toServer, charged, committed, history, untold>>

(* AcceptToMemoryPool takes a transaction with inputs that are unspent and *)
(* signed over these outputs; CommitFinalTransaction does not even ask     *)
(* when cs_main is taken.                                                  *)
IsValidTx(tx, sigs) ==
  /\ tx # {} /\ Inputs(tx) \cap Spent = {}
  /\ \A p \in tx : [c |-> p.c, coin |-> p.coin, outs |-> Outputs(tx)] \in sigs

(* On failure the session is reset first and its participants are told     *)
(* afterwards.                                                             *)
CommitFinalTransaction(t) ==
  /\ At(t, "commit")
  /\ \/ /\ IsValidTx(srv.tx, srv.sigs)
        /\ committed' = committed \cup {srv.tx}
        /\ Go(t, <<"success", "charge", "null", "clear">>)
     \/ /\ Go(t, <<"null", "clear", "failure">>)
        /\ UNCHANGED committed
  /\ untold' = {e.c : e \in {f \in ToSet(srv.entries) : Live(f)}}
  /\ UNCHANGED <<srv, sessions, cl, net, toServer, toClient, charged, history>>

RelayCompletedTransaction(t, ok) ==
  /\ At(t, IF ok THEN "success" ELSE "failure")
  /\ toClient' = [c \in Client |-> toClient[c] \o
                    RelayFor(c, [type |-> "complete", sid |-> srv.sid, ok |-> ok])]
  /\ untold' = untold \ Relayed
  /\ Go(t, ResetIfAllGone)
  /\ UNCHANGED <<srv, sessions, cl, net, toServer, charged, committed, history>>

(* Collaterals are published.                                              *)
Charge(colls) ==
  /\ Cardinality(charged \cup colls) <= scenario.fees
  /\ charged' = charged \cup colls

(* ChargeRandomFees stops at the first collateral it spares.               *)
ChargeRandomFees(t) ==
  /\ At(t, "charge")
  /\ \E n \in 0..Len(srv.colls) : Charge(ToSet(SubSeq(srv.colls, 1, n)))
  /\ Go(t, <<>>)
  /\ UNCHANGED <<srv, sessions, cl, net, toServer, toClient, committed, history, untold>>

(* SetNull, its own fields first, those of the base classes afterwards.    *)
SetNull(t) ==
  /\ At(t, "null")
  /\ srv' = [srv EXCEPT !.colls = <<>>, !.max = 0]
  /\ Go(t, <<>>)
  /\ UNCHANGED <<sessions, cl, net, toServer, toClient, charged, committed, history, untold>>

BaseSetNull(t) ==
  /\ At(t, "clear")
  /\ srv' = [NoSession EXCEPT !.colls = srv.colls, !.max = srv.max]
  /\ Go(t, <<>>)
  /\ UNCHANGED <<sessions, cl, net, toServer, toClient, charged, committed, history, untold>>

-----------------------------------------------------------------------------
(* DoMaintenance: CheckTimeout, then CheckForCompleteQueue.                *)

(* Those who did not send or did not sign; none or one of them is charged. *)
Offenders ==
  CASE srv.state = "accepting" ->
         SelectSeq(srv.colls, LAMBDA k : \A e \in ToSet(srv.entries) : <<e.c, e.coll>> # k)
    [] srv.state = "signing" ->
         LET lazy == SelectSeq(srv.entries, LAMBDA e : e.sig = None)
         IN  [i \in DOMAIN lazy |-> <<lazy[i].c, lazy[i].coll>>]
    [] OTHER -> <<>>
ChargeFees ==
  /\ At("sched", "fees")
  /\ \/ UNCHANGED charged
     \/ /\ Len(Offenders) < srv.max
        /\ \E k \in ToSet(Offenders) : Charge({k})
  /\ Go("sched", <<>>)
  /\ UNCHANGED <<srv, sessions, cl, net, toServer, toClient, committed, history, untold>>

(* The timeout of the current state passes.                                *)
Tick ==
  /\ srv.state # "idle" /\ ~srv.late
  /\ srv' = [srv EXCEPT !.late = TRUE]
  /\ UNCHANGED <<sessions, th, cl, net, toServer, toClient, charged, committed,
                 history, untold>>

EnoughUsers == srv.state = "queue" /\ Len(srv.colls) >= MinParticipants
EnoughByUsers == srv.state = "accepting" /\ Len(srv.colls) >= MinParticipants
EnoughEntries == srv.state = "accepting" /\ Len(srv.entries) >= MinParticipants

FallBackNowhere == srv
FallBackToUsers == [srv EXCEPT !.max = Len(srv.colls)]

(* A run that finds nothing to do is left out.                             *)
CheckTimeout ==
  LET start(steps) == th' = [th EXCEPT !["sched"].todo = steps]
  IN  /\ MayStart("sched")
      /\ \/ /\ ~srv.late /\ srv.state = "queue" /\ IsSessionReady
            /\ start(<<"complete">>)
            /\ UNCHANGED srv
         \/ /\ srv.late /\ EnoughUsers
            /\ srv' = FallBackToUsers
            /\ start(<<"complete">>)
         \/ /\ srv.late /\ EnoughEntries
            /\ start(<<"fees", "shrink", "pool", "complete">>)
            /\ UNCHANGED srv
         \/ /\ srv.late /\ ~EnoughUsers /\ ~EnoughEntries
            /\ start(<<"fees", "null", "clear", "complete">>)
            /\ UNCHANGED srv
      /\ UNCHANGED <<sessions, cl, net, toServer, toClient, charged, committed, history,
                     untold>>

FallBackToEntries ==
  /\ At("sched", "shrink")
  /\ srv' = [srv EXCEPT !.max = Len(srv.entries)]
  /\ Go("sched", <<>>)
  /\ UNCHANGED <<sessions, cl, net, toServer, toClient, charged, committed, history, untold>>

(* The ready dsq goes to every connected node.                             *)
CheckForCompleteQueue ==
  /\ At("sched", "complete")
  /\ IF srv.state = "queue" /\ IsSessionReady
     THEN /\ srv' = [srv EXCEPT !.state = "accepting", !.late = FALSE]
          /\ toClient' = [c \in Client |->
               IF conn[c] # 0 THEN Append(toClient[c], [type |-> "dsq"]) ELSE toClient[c]]
     ELSE UNCHANGED <<srv, toClient>>
  /\ Go("sched", <<>>)
  /\ UNCHANGED <<sessions, cl, net, toServer, charged, committed, history, untold>>

-----------------------------------------------------------------------------
(* A client.  SendTo drops a message when there is no connection.          *)

SendTo(c, m) == toServer' = [toServer EXCEPT ![c] = IF conn[c] # 0 THEN Append(@, m) ELSE @]

(* DoAutomaticDenominating with JoinExistingQueue or StartNewQueue: a new  *)
(* collateral if the last one was published, and a request that waits for  *)
(* the connection.  The wallet is unlocked and has coins to mix.           *)
DoAutomaticDenominating(c) ==
  /\ cl[c].state = "idle" /\ cl[c].entry = None /\ cl[c].sid = 0
  /\ cl[c].tries < scenario.tries[c]
  /\ cl' = [cl EXCEPT ![c] = [GiveUp(@) EXCEPT
       !.state = "queue", !.mn = TRUE, !.pending = TRUE, !.tries = @ + 1,
       !.coll = IF IsCollateralValid(<<c, @>>) THEN @ ELSE @ + 1]]
  /\ UNCHANGED <<srv, sessions, th, net, toServer, toClient, charged, committed,
                 history, untold>>

(* The connection that AddPendingMasternode asked for.                     *)
Connect(c) ==
  /\ cl[c].pending /\ conn[c] = 0
  /\ opened' = [opened EXCEPT ![c] = @ + 1]
  /\ conn' = [conn EXCEPT ![c] = opened'[c]]
  /\ UNCHANGED <<srv, sessions, th, cl, toServer, toClient, charged, committed,
                 history, untold>>

(* The request is sent, or it expires without a connection.                *)
ProcessPendingDsaRequest(c) ==
  /\ cl[c].pending
  /\ IF conn[c] # 0
     THEN /\ SendTo(c, [type |-> "dsa", coll |-> cl[c].coll])
          /\ cl' = [cl EXCEPT ![c].pending = FALSE]
     ELSE /\ cl' = [cl EXCEPT ![c] = Null(@)]
          /\ UNCHANGED toServer
  /\ UNCHANGED <<srv, sessions, th, net, toClient, charged, committed, history, untold>>

Heard(c, type) ==
  /\ toClient[c] # <<>> /\ Head(toClient[c]).type = type
  /\ toClient' = [toClient EXCEPT ![c] = Tail(@)]

(* DSQUEUE with fReady: SubmitDenominate picks any unspent coin and a key, *)
(* and locks the coin.  Without a session id all is given up.              *)
SubmitDenominate(c) ==
  LET coins == {k \in scenario.coins : <<c, k>> \notin Spent}
  IN  /\ Heard(c, "dsq")
      /\ IF cl[c].mn /\ cl[c].state = "queue" /\ cl[c].entry = None /\ coins # {}
         THEN IF cl[c].sid = 0
              THEN cl' = [cl EXCEPT ![c] = GiveUp(@)] /\ UNCHANGED toServer
              ELSE \E coin \in coins :
                /\ cl' = [cl EXCEPT ![c].state = "accepting", ![c].locked = TRUE,
                                    ![c].entry = [coin |-> coin, key |-> cl[c].key]]
                /\ SendTo(c, [type |-> "vin", coin |-> coin, key |-> cl[c].key,
                              coll |-> cl[c].coll])
         ELSE UNCHANGED <<cl, toServer>>
      /\ UNCHANGED <<srv, sessions, th, net, charged, committed, history, untold>>

(* DSSTATUSUPDATE.  The count of entries only prolongs the timeout.        *)
CheckPoolStateUpdate(c) ==
  LET m == Head(toClient[c])
      s == cl[c]
  IN  /\ Heard(c, "status")
      /\ cl' = [cl EXCEPT ![c] =
           CASE ~s.mn \/ s.state \in {"idle", "error"} -> @
             [] ~m.ok -> Fail(@)
             [] m.state = "queue" /\ s.state = "queue" /\ s.sid = 0 -> [@ EXCEPT !.sid = m.sid]
             [] OTHER -> @]
      /\ UNCHANGED <<srv, sessions, th, net, toServer, charged, committed, history, untold>>

(* DSFINALTX: sign if the own input and the own output are there.          *)
SignFinalTransaction(c) ==
  LET m == Head(toClient[c])
      e == cl[c].entry
  IN  /\ Heard(c, "final")
      /\ IF ~cl[c].mn \/ cl[c].sid # m.sid
         THEN UNCHANGED <<cl, toServer>>
         ELSE IF e # None /\ <<c, e.coin>> \in Inputs(m.tx) /\ <<c, e.key>> \in Outputs(m.tx)
              THEN /\ cl' = [cl EXCEPT ![c].state = "signing"]
                   /\ SendTo(c, [type |-> "sig", sig |->
                        [c |-> c, coin |-> e.coin, outs |-> Outputs(m.tx)]])
              ELSE cl' = [cl EXCEPT ![c] = GiveUp(@)] /\ UNCHANGED toServer
      /\ UNCHANGED <<srv, sessions, th, net, charged, committed, history, untold>>

(* DSCOMPLETE: KeepAll on success, so that the next entry has a new key.   *)
CompletedReturning(c) ==
  LET m == Head(toClient[c])
  IN  /\ Heard(c, "complete")
      /\ cl' = [cl EXCEPT ![c] = IF ~@.mn \/ @.sid # m.sid THEN @ ELSE GiveUp(@)]
      /\ UNCHANGED <<srv, sessions, th, net, toServer, charged, committed, history, untold>>

CompletedTransaction(c) ==
  LET m == Head(toClient[c])
  IN  /\ Heard(c, "complete")
      /\ cl' = [cl EXCEPT ![c] =
           IF ~@.mn \/ @.sid # m.sid THEN @
           ELSE [GiveUp(@) EXCEPT !.key = IF m.ok /\ cl[c].entry # None THEN @ + 1 ELSE @]]
      /\ UNCHANGED <<srv, sessions, th, net, toServer, charged, committed, history, untold>>

(* CheckTimeout: a session that made no progress fails; CheckPool resets   *)
(* the failed one after ten seconds.                                       *)
WaitsInQueue(s) == s.state \in {"queue", "signing"}
Waits(s) == s.state \notin {"idle", "error"}

ClientTimeout(c) ==
  /\ Waits(cl[c])
  /\ scenario.patient =>
       /\ srv.state = "idle" /\ \A t \in Thread : th[t] = AtRest
       /\ toServer[c] = <<>> /\ toClient[c] = <<>>
  /\ cl' = [cl EXCEPT ![c] = Fail(@)]
  /\ UNCHANGED <<srv, sessions, th, net, toServer, toClient, charged, committed, history,
                 untold>>

ClientCheckPool(c) ==
  /\ cl[c].state = "error"
  /\ cl' = [cl EXCEPT ![c] = GiveUp(@)]
  /\ UNCHANGED <<srv, sessions, th, net, toServer, toClient, charged, committed, history, untold>>

(* A connection is lost with all that is on it.                            *)
Disconnect(c) ==
  /\ conn[c] # 0 /\ disconnects < scenario.lost
  /\ conn' = [conn EXCEPT ![c] = 0]
  /\ toServer' = [toServer EXCEPT ![c] = <<>>]
  /\ toClient' = [toClient EXCEPT ![c] = <<>>]
  /\ disconnects' = disconnects + 1
  /\ untold' = untold \ {c}
  /\ UNCHANGED <<srv, sessions, th, cl, opened, charged, committed, scenario>>

-----------------------------------------------------------------------------
ServerStep(t) ==
  \/ CheckPool(t) \/ CreateFinalTransaction(t) \/ RelayFinalTransaction(t)
  \/ CommitFinalTransaction(t) \/ RelayCompletedTransaction(t, TRUE)
  \/ RelayCompletedTransaction(t, FALSE) \/ ChargeRandomFees(t)
  \/ SetNull(t) \/ BaseSetNull(t)

NetStep ==
  \/ \E c \in Client : Accept(c) \/ Entry(c) \/ SignFinal(c)
  \/ CreateNewSession \/ AddUserToExistingSession \/ AddEntry
  \/ RelayAccepted \/ RelayRejected \/ ServerStep("net")

SchedStep ==
  CheckTimeout \/ ChargeFees \/ FallBackToEntries \/ CheckForCompleteQueue \/ ServerStep("sched")

ProcessMessage(c) ==
  \/ SubmitDenominate(c) \/ CheckPoolStateUpdate(c) \/ SignFinalTransaction(c)
  \/ CompletedTransaction(c)

ClientStep(c) ==
  \/ DoAutomaticDenominating(c) \/ Connect(c) \/ ProcessPendingDsaRequest(c)
  \/ ProcessMessage(c) \/ ClientTimeout(c) \/ ClientCheckPool(c)

Next == NetStep \/ SchedStep \/ Tick \/ \E c \in Client : ClientStep(c) \/ Disconnect(c)

Spec == Init /\ [][Next]_vars

(* The threads run, time passes, messages are read, and a client's manager *)
(* checks timeouts: as long as one of these can do something, one does.    *)
Progress ==
  \/ NetStep \/ SchedStep \/ Tick
  \/ \E c \in Client : ProcessMessage(c) \/ ClientTimeout(c) \/ ClientCheckPool(c)

LiveSpec == Spec /\ WF_vars(Progress)

-----------------------------------------------------------------------------
(* Properties.                                                             *)

Steps == {"dsa", "entry", "status", "reject", "pool", "create", "final", "commit",
          "success", "failure", "charge", "null", "clear", "fees", "shrink", "complete"}

(* The variables hold what the fields of CPrivateSendServer and of         *)
(* CPrivateSendClientSession can hold; a client mixes only with a          *)
(* masternode, and has coins locked only from its entry on.                *)
TypeOK ==
  /\ srv.state \in State \ {"error"} /\ srv.sid \in 0..sessions
  /\ srv.max \in 0..(MaxParticipants + 1)
  /\ \A i \in DOMAIN srv.colls : srv.colls[i][1] \in Client
  /\ \A e \in ToSet(srv.entries) :
       e.c \in Client /\ e.coin \in Coin /\ e.conn \in 1..opened[e.c]
  /\ srv.late \in BOOLEAN
  /\ \A t \in Thread : ToSet(th[t].todo) \subseteq Steps
  /\ \A c \in Client :
       /\ cl[c].state \in State /\ cl[c].sid \in 0..sessions
       /\ cl[c].mn <=> cl[c].state \in {"queue", "accepting", "signing"}
       /\ cl[c].locked <=> cl[c].entry # None
       /\ cl[c].locked <=> cl[c].state \in {"accepting", "signing"}
       /\ cl[c].tries <= scenario.tries[c] /\ conn[c] \in {0, opened[c]}
  /\ untold \subseteq Client

(* A transaction that CommitFinalTransaction publishes mixes the coins of  *)
(* at least MinParticipants different clients.                             *)
MixedWithOthers ==
  \A tx \in committed : Cardinality({p.c : p \in tx}) >= MinParticipants

(* While the threads of the server take turns that holds whatever the      *)
(* fallbacks of CheckTimeout, entries left from an earlier session and     *)
(* clients that joined the queue twice do to the session.                  *)
MixedInTurns == scenario.serial => MixedWithOthers

(* Two published transactions never pay to the same key, when clients wait *)
(* for the server, no connection is lost and the threads of the server     *)
(* take turns: keys are returned (ReturnAll) only for what will never be   *)
(* published, and kept (KeepAll) for the rest.                             *)
KeysKept ==
  scenario.serial /\ scenario.patient /\ disconnects = 0 =>
    \A tx, ux \in committed : tx # ux => Outputs(tx) \cap Outputs(ux) = {}

(* Every session of the server ends: full, fallen back or reset.           *)
SessionEnds == []<>(srv.state = "idle")

(* Coins that SubmitDenominate locked are unlocked again, though the       *)
(* masternode may never answer.                                            *)
CoinsUnlocked == \A c \in Client : []<>(~cl[c].locked)

(* "Tell the clients it was successful", and when it was not, "just notify *)
(* clients": after CommitFinalTransaction every participant that is still  *)
(* connected has been sent a DSCOMPLETE.                                   *)
ClientsTold == (\A t \in Thread : th[t] = AtRest) => untold = {}
=============================================================================
