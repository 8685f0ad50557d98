--------------------------- MODULE MCPrivateSend ---------------------------
(* Instances of PrivateSend with two or three clients.                     *)
EXTENDS PrivateSend, TLC

CONSTANTS c1, c2, c3

Bounds(serial, patient, tries, coins, lost, fees) ==
  [serial |-> serial, patient |-> patient,
   tries |-> [c \in Client |-> IF c = c1 THEN tries[1] ELSE tries[2]],
   coins |-> coins, lost |-> lost, fees |-> fees]
TwoCoins == {1, 2}

(* The threads of the server meet.                                         *)
Met == Bounds(FALSE, TRUE, <<1, 1>>, {1}, 0, 0)
(* A connection is lost, a collateral published.                           *)
Lost == Bounds(TRUE, TRUE, <<1, 1>>, {1}, 1, 1)
(* A client gives up at any time and may join the same queue again.        *)
Hasty == Bounds(TRUE, FALSE, <<2, 1>>, {1}, 0, 0)
(* Two rounds, in which each client may pick either of its coins.          *)
Twice == Bounds(TRUE, TRUE, <<2, 2>>, {1, 2}, 0, 0)
(* One round of all clients.                                               *)
Once == Bounds(TRUE, TRUE, <<1, 1>>, {1}, 0, 1)

All == {Met, Lost, Hasty, Twice}
OnlyLost == {Lost}
OnlyMet == {Met}
OnlyOnce == {Once}

(* A STATUS_ACCEPTED of a session that is not in the queue has no effect   *)
(* on any client.  Reading one commutes with every other step, so it is    *)
(* read before anything else happens.                                      *)
IsIdle(m) == m.type = "status" /\ m.ok /\ m.state # "queue"
Unread == {c \in Client : toClient[c] # <<>> /\ IsIdle(Head(toClient[c]))}
ReadIdle == Unread # {} =>
  LET c == CHOOSE c \in Unread : TRUE IN toClient'[c] = Tail(toClient[c])
=============================================================================
