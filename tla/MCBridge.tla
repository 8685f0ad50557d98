------------------------------ MODULE MCBridge ------------------------------
(* Small instances of Bridge.  Amounts are in coins; a fee of 50 basis     *)
(* points takes 1 of 200 and 2 of 400.                                     *)
EXTENDS Bridge, TLC

CONSTANTS b1, b2

UserSymmetry == Permutations(User)

Start == [min |-> 200, max |-> 400, daily |-> 800, user |-> 600]
Lower == [min |-> 200, max |-> 400, daily |-> 400, user |-> 400]
\* Limits that three amounts of one or two coins reach.
Tight == [min |-> 1, max |-> 2, daily |-> 3, user |-> 2]
AllLimits == {Start, Lower, Tight}

ExtStart == [min |-> 190, max |-> 400]
ExtHigher == [min |-> 300, max |-> 400]
AllExtLimits == {ExtStart, ExtHigher}

\* A second deployment of the external bridge takes over.
Handover(events, funds) ==
    [day |-> 1, amounts |-> {200, 400}, start |-> Start, bridges |-> {b1, b2}, fees |-> {50},
     limits |-> {Start}, extLimits |-> {ExtStart}, switches |-> {}, events |-> events,
     funds |-> funds, onlyLocks |-> FALSE]
\* The owner changes fees and limits, pauses contracts and stops supporting the chain.
Changes == [Handover(1, 0) EXCEPT !.bridges = {b1}, !.fees = {0, 50}, !.limits = {Start, Lower},
                                  !.extLimits = AllExtLimits, !.switches = BOOLEAN]
\* Two locks and two burns are under way at once.
Crowded == [Handover(2, 200) EXCEPT !.amounts = {200}, !.fees = {}]
\* Locks only, over several days.
Days == [Handover(5, 0) EXCEPT !.day = 3, !.amounts = {1, 2}, !.start = Tight,
                              !.limits = {Tight}, !.onlyLocks = TRUE]
All == {Handover(1, 200), Changes, Crowded, Days}
ThreeEach == {[Handover(3, 0) EXCEPT !.bridges = {b1}]}

ASSUME LimitsNeverRaised

=============================================================================
