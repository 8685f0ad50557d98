------------------------------- MODULE Bridge -------------------------------
(***************************************************************************)
(* The HTH bridge: contracts/HTHBridge.sol on the HTH chain, which locks   *)
(* and releases HTH, and contracts/HTHBridgeExternal.sol with              *)
(* contracts/WrappedHTH.sol on one external chain, which mint and burn     *)
(* wHTH.  Between them a relayer outside the repository carries events: it *)
(* completes any event on the other side, late, out of order, and more     *)
(* than once, and sends a failed completion again.                         *)
(*                                                                         *)
(* One action is one transaction; a transaction that fails a require       *)
(* reverts and is no step.  completeBridge pays after its assignments, so  *)
(* what a recipient does in that call is the same as doing it next.  An    *)
(* event stands for the one call its transaction makes, named by txHash.   *)
(* There is one external chain, which the owner may stop supporting.       *)
(***************************************************************************)
EXTENDS FiniteSetsExt, Integers, Sequences

CONSTANTS
    User,
    ExtBridge,     \* deployments of HTHBridgeExternal
    FirstBridge,   \* the one WrappedHTH is constructed with
    Fee,           \* values of bridgeFee, in basis points
    Limits,        \* settings of the native bridge: min, max, daily, user
    ExtLimits,     \* settings of the external bridge: min, max
    StartFee, StartExtLimits,
    Scenarios      \* the bounds of a behaviour

(* A scenario has the fields day: 1 days, in ticks of the clock; amounts:  *)
(* the amounts users and the owner send; start: the first limits of the    *)
(* native bridge; bridges, fees, limits, extLimits, switches: what the     *)
(* owner may set afterwards; events: how many transactions lock, and how   *)
(* many burn; funds: how much is deposited as liquidity; onlyLocks: days   *)
(* pass, users lock and nothing else happens.                              *)
ASSUME BridgeAssumption ==
    /\ IsFiniteSet(User)
    /\ Fee \subseteq Nat
    /\ Limits \subseteq [min : Nat, max : Nat, daily : Nat, user : Nat]
    /\ ExtLimits \subseteq [min : Nat, max : Nat]
    /\ StartFee \in Fee /\ StartFee <= 500 /\ StartExtLimits \in ExtLimits
    /\ FirstBridge \in ExtBridge
    /\ \A s \in Scenarios :
          /\ s.day \in Nat \ {0} /\ s.start \in Limits
          /\ s.amounts \subseteq Nat \ {0} /\ Max(s.amounts) \in s.amounts
          /\ s.bridges \subseteq ExtBridge /\ s.fees \subseteq Fee
          /\ s.limits \subseteq Limits /\ s.extLimits \subseteq ExtLimits
          /\ s.switches \subseteq BOOLEAN
          /\ s.events \in Nat /\ s.funds \in Nat /\ s.onlyLocks \in BOOLEAN

VARIABLES
    \* HTHBridge
    balance,      \* address(this).balance
    processed,    \* processedTransactions
    dailyBridged, userDailyBridged,
    sinceReset,   \* block.timestamp - lastResetTime, up to Day
    sinceUserReset,
    native,       \* paused, supportedChains, bridgeFee and the limits
    \* WrappedHTH
    totalSupply, balanceOf,
    allowance,    \* what a user allows each external bridge to burn
    processedMints,
    bridge,       \* the deployment that may mint and burn
    tokenPaused,
    \* HTHBridgeExternal
    extProcessed, \* processedTransactions of each deployment
    ext,          \* paused, bridgeFee and the limits of each
    \* what the chains record
    locks,        \* BridgeInitiated events
    burns,        \* BridgeToHTH and Burned events
    log,          \* history: sender, msg.value and age (up to Day) of each lock
    funded,       \* history: HTH deposited with receive()
    withdrawn,    \* history: HTH taken with emergencyWithdraw()
    scenario      \* the bounds of this behaviour

Day == scenario.day
TxHash == 1..scenario.events
AnyTxHash == 1..Max({s.events : s \in Scenarios})
Event == [txHash : TxHash, to : User, amount : Nat]

hth == <<balance, processed, dailyBridged, userDailyBridged, sinceReset, sinceUserReset, native>>
token == <<totalSupply, balanceOf, allowance, processedMints, bridge, tokenPaused>>
external == <<extProcessed, ext>>
money == <<funded, withdrawn, scenario>>
history == <<log, money>>
vars == <<hth, token, external, locks, burns, history>>

Init ==
    /\ scenario \in Scenarios
    /\ balance = 0 /\ processed = {}
    /\ dailyBridged = 0 /\ userDailyBridged = [u \in User |-> 0]
    /\ sinceReset = 0 /\ sinceUserReset = [u \in User |-> Day]
    /\ native = [paused |-> FALSE, supported |-> TRUE, fee |-> StartFee,
                 limits |-> scenario.start]
    /\ totalSupply = 0 /\ balanceOf = [u \in User |-> 0]
    /\ allowance = [u \in User |-> [b \in ExtBridge |-> 0]]
    /\ processedMints = {} /\ tokenPaused = FALSE /\ bridge = FirstBridge
    /\ extProcessed = [b \in ExtBridge |-> {}]
    /\ ext = [b \in ExtBridge |->
                 [paused |-> FALSE, fee |-> StartFee, limits |-> StartExtLimits]]
    /\ locks = {} /\ burns = {} /\ log = <<>>
    /\ funded = 0 /\ withdrawn = 0

-----------------------------------------------------------------------------
(* HTHBridge.                                                              *)

calculateFee(amount, bp) == (amount * bp) \div 10000

amountAfterFee(amount, bp) == amount - calculateFee(amount, bp)

\* Mutant: the total is cleared, the time of the reset is not moved.
ResetTime_Kept(age) == age

\* _resetDailyLimits and _resetUserDailyLimit: the total, and the time since the
\* reset, that the limits are then checked with.
ResetTotal(total, age) == IF age = Day THEN 0 ELSE total
ResetTime(age) == IF age = Day THEN 0 ELSE age

\* HTHBridge.bridge with msg.value v.
Lock(u, to, v) ==
    LET daily == ResetTotal(dailyBridged, sinceReset) + v
        userDaily == ResetTotal(userDailyBridged[u], sinceUserReset[u]) + v
    IN  /\ ~native.paused /\ native.supported
        /\ v >= native.limits.min /\ v <= native.limits.max
        /\ daily <= native.limits.daily /\ userDaily <= native.limits.user
        /\ Cardinality(locks) < scenario.events
        /\ balance' = balance + v
        /\ dailyBridged' = daily /\ sinceReset' = ResetTime(sinceReset)
        /\ userDailyBridged' = [userDailyBridged EXCEPT ![u] = userDaily]
        /\ sinceUserReset' = [sinceUserReset EXCEPT ![u] = ResetTime(@)]
        /\ locks' = locks \cup {[txHash |-> Cardinality(locks) + 1, to |-> to,
                                 amount |-> amountAfterFee(v, native.fee)]}
        /\ log' = Append(log, [by |-> u, value |-> v, age |-> 0])
        /\ UNCHANGED <<processed, native, token, external, burns, money>>

\* Mutant: the transaction is not marked as processed.
Release_NoMark(e) ==
    /\ ~native.paused
    /\ e.txHash \notin processed
    /\ e.amount > 0 /\ balance >= e.amount
    /\ balance' = balance - e.amount
    /\ UNCHANGED <<processed, dailyBridged, userDailyBridged, sinceReset, sinceUserReset, native,
                   token, external, locks, burns, history>>

\* HTHBridge.completeBridge, sent by the relayer for a burn.
Release(e) ==
    /\ ~native.paused
    /\ e.txHash \notin processed
    /\ e.amount > 0 /\ balance >= e.amount
    /\ processed' = processed \cup {e.txHash}
    /\ balance' = balance - e.amount
    /\ UNCHANGED <<dailyBridged, userDailyBridged, sinceReset, sinceUserReset, native, token,
                   external, locks, burns, history>>

\* receive(): anyone adds liquidity.
Fund(v) ==
    /\ funded + v <= scenario.funds
    /\ balance' = balance + v
    /\ funded' = funded + v
    /\ UNCHANGED <<processed, dailyBridged, userDailyBridged, sinceReset, sinceUserReset, native,
                   token, external, locks, burns, log, withdrawn, scenario>>

emergencyWithdraw(v) ==
    /\ v <= balance
    /\ balance' = balance - v
    /\ withdrawn' = withdrawn + v
    /\ UNCHANGED <<processed, dailyBridged, userDailyBridged, sinceReset, sinceUserReset, native,
                   token, external, locks, burns, log, funded, scenario>>

\* One setting of HTHBridge changes.
Native(settings) ==
    /\ native' = settings
    /\ UNCHANGED <<balance, processed, dailyBridged, userDailyBridged, sinceReset,
                   sinceUserReset, token, external, locks, burns, history>>

setFee(f) == f <= 500 /\ Native([native EXCEPT !.fee = f])

setLimits(l) == l.min < l.max /\ Native([native EXCEPT !.limits = l])

pause(p) == Native([native EXCEPT !.paused = p])

setSupportedChain(p) == Native([native EXCEPT !.supported = p])

\* Time passes on the HTH chain.
Older(age) == IF age = Day THEN Day ELSE age + 1

Tick ==
    /\ sinceReset' = Older(sinceReset)
    /\ sinceUserReset' = [u \in User |-> Older(sinceUserReset[u])]
    /\ log' = [i \in DOMAIN log |-> [log[i] EXCEPT !.age = Older(@)]]
    /\ UNCHANGED <<balance, processed, dailyBridged, userDailyBridged, native, token,
                   external, locks, burns, money>>

-----------------------------------------------------------------------------
(* WrappedHTH and HTHBridgeExternal.                                       *)

\* Mutant: both new balances are computed from the old ones, and a transfer to
\* oneself adds to the balance.
transfer_Self(u, to, v) ==
    /\ balanceOf[u] >= v
    /\ balanceOf' = [balanceOf EXCEPT ![u] = @ - v, ![to] = balanceOf[to] + v]
    /\ UNCHANGED <<totalSupply, allowance, processedMints, bridge, tokenPaused, hth, external,
                   locks, burns, history>>

\* transfer; transferFrom differs in who may call it.
transfer(u, to, v) ==
    /\ balanceOf[u] >= v
    /\ u # to
    /\ balanceOf' = [balanceOf EXCEPT ![u] = @ - v, ![to] = @ + v]
    /\ UNCHANGED <<totalSupply, allowance, processedMints, bridge, tokenPaused, hth, external,
                   locks, burns, history>>

\* approve for an external bridge.
approve(u, b, v) ==
    /\ allowance' = [allowance EXCEPT ![u][b] = v]
    /\ UNCHANGED <<totalSupply, balanceOf, processedMints, bridge, tokenPaused, hth, external,
                   locks, burns, history>>

\* Mutant: WrappedHTH.mint relies on the bridge to refuse replays.
mint_NoReplayCheck(e) ==
    /\ ~tokenPaused /\ e.amount > 0
    /\ processedMints' = processedMints \cup {e.txHash}
    /\ totalSupply' = totalSupply + e.amount
    /\ balanceOf' = [balanceOf EXCEPT ![e.to] = @ + e.amount]
    /\ UNCHANGED <<allowance, bridge, tokenPaused>>

mint(e) ==
    /\ ~tokenPaused /\ e.amount > 0
    /\ e.txHash \notin processedMints
    /\ processedMints' = processedMints \cup {e.txHash}
    /\ totalSupply' = totalSupply + e.amount
    /\ balanceOf' = [balanceOf EXCEPT ![e.to] = @ + e.amount]
    /\ UNCHANGED <<allowance, bridge, tokenPaused>>

\* HTHBridgeExternal.completeBridge, sent by the relayer for a lock.  On a
\* deployment the token no longer accepts, mint reverts.
Mint(b, e) ==
    /\ b = bridge /\ ~ext[b].paused
    /\ e.txHash \notin extProcessed[b]
    /\ extProcessed' = [extProcessed EXCEPT ![b] = @ \cup {e.txHash}]
    /\ mint(e)
    /\ UNCHANGED <<ext, hth, locks, burns, history>>

\* What burn and burnFrom share.
burned(u, v) ==
    /\ balanceOf' = [balanceOf EXCEPT ![u] = @ - v]
    /\ totalSupply' = totalSupply - v
    /\ UNCHANGED <<processedMints, bridge, tokenPaused>>

Emit(to, v) ==
    /\ Cardinality(burns) < scenario.events
    /\ burns' = burns \cup {[txHash |-> Cardinality(burns) + 1, to |-> to, amount |-> v]}

\* HTHBridgeExternal.bridge, with WrappedHTH.burnFrom.  One transaction logs Burned
\* with the amount and BridgeToHTH with the amount after the fee; the relayer reads
\* one of them.
BridgeBack(u, to, b, v) ==
    /\ b = bridge /\ ~ext[b].paused /\ ~tokenPaused
    /\ v >= ext[b].limits.min /\ v <= ext[b].limits.max
    /\ balanceOf[u] >= v /\ allowance[u][b] >= v
    /\ burned(u, v)
    /\ allowance' = [allowance EXCEPT ![u][b] = @ - v]
    /\ \E a \in {amountAfterFee(v, ext[b].fee), v} : Emit(to, a)
    /\ UNCHANGED <<hth, external, locks, history>>

\* WrappedHTH.burn, called by the holder: no fee and no limits.
burn(u, to, v) ==
    /\ ~tokenPaused
    /\ balanceOf[u] >= v /\ v > 0
    /\ burned(u, v)
    /\ Emit(to, v)
    /\ UNCHANGED <<allowance, hth, external, locks, history>>

pauseToken(p) ==
    /\ tokenPaused' = p
    /\ UNCHANGED <<totalSupply, balanceOf, allowance, processedMints, bridge, hth, external, locks,
                   burns, history>>

\* One setting of HTHBridgeExternal changes.
External(b, settings) ==
    /\ ext' = [ext EXCEPT ![b] = settings]
    /\ UNCHANGED <<extProcessed, hth, token, locks, burns, history>>

extSetFee(b, f) == f <= 500 /\ External(b, [ext[b] EXCEPT !.fee = f])

extSetLimits(b, l) == l.min < l.max /\ External(b, [ext[b] EXCEPT !.limits = l])

extPause(b, p) == External(b, [ext[b] EXCEPT !.paused = p])

\* WrappedHTH.setBridge: another deployment takes over.
setBridge(b) ==
    /\ bridge' = b
    /\ UNCHANGED <<totalSupply, balanceOf, allowance, processedMints, tokenPaused, hth,
                   external, locks, burns, history>>

-----------------------------------------------------------------------------
Users ==
    \/ \E u, to \in User, v \in scenario.amounts : transfer(u, to, v)
    \/ \E u, to \in User, b \in scenario.bridges, v \in scenario.amounts : BridgeBack(u, to, b, v)
    \/ \E u, to \in User : \E v \in scenario.amounts \cup {balanceOf[u]} : burn(u, to, v)
    \/ \E u \in User, b \in scenario.bridges :
          approve(u, b, Max(scenario.amounts))

Relay ==
    \/ \E b \in scenario.bridges, e \in locks : Mint(b, e)
    \/ \E e \in burns : Release(e)

NativeSettings == [paused : BOOLEAN, supported : BOOLEAN, fee : Fee, limits : Limits]
ExtSettings == [paused : BOOLEAN, fee : Fee, limits : ExtLimits]

Admin ==
    \/ \E v \in scenario.amounts : Fund(v)
    \/ \E v \in scenario.amounts : emergencyWithdraw(v)
    \/ \E f \in scenario.fees : setFee(f)
    \/ \E l \in scenario.limits : setLimits(l)
    \/ \E p \in scenario.switches : pause(p)
    \/ \E p \in scenario.switches : setSupportedChain(p)
    \/ \E b \in scenario.bridges, f \in scenario.fees : extSetFee(b, f)
    \/ \E b \in scenario.bridges, l \in scenario.extLimits : extSetLimits(b, l)
    \/ \E b \in scenario.bridges, p \in scenario.switches : extPause(b, p)
    \/ \E p \in scenario.switches : pauseToken(p)
    \/ \E b \in scenario.bridges : setBridge(b)

Next ==
    \/ \E u, to \in User, v \in scenario.amounts : Lock(u, to, v)
    \/ scenario.onlyLocks /\ Tick
    \/ ~scenario.onlyLocks /\ (Users \/ Relay \/ Admin)

Spec == Init /\ [][Next]_vars

\* The same without that restriction: days pass at any moment.
Contracts ==
    /\ Init
    /\ [][\/ \E u, to \in User, v \in scenario.amounts : Lock(u, to, v)
          \/ Tick \/ Users \/ Relay \/ Admin]_vars

\* The owner leaves the bridge alone, and the relayer delivers every event.
SteadySpec ==
    /\ Init
    /\ [][\/ Users \/ Relay \/ Tick
          \/ \E u, to \in User, v \in scenario.amounts : Lock(u, to, v)]_vars
    /\ \A id \in AnyTxHash :
          /\ WF_vars(\E e \in locks : e.txHash = id /\ Mint(bridge, e))
          /\ WF_vars(\E e \in burns : e.txHash = id /\ Release(e))

-----------------------------------------------------------------------------
(* Properties.                                                             *)

HthTypeOK ==
    /\ balance \in Nat /\ dailyBridged \in Nat /\ userDailyBridged \in [User -> Nat]
    /\ sinceReset \in 0..Day /\ sinceUserReset \in [User -> 0..Day]
    /\ native \in NativeSettings

TokenTypeOK ==
    /\ totalSupply \in Nat /\ balanceOf \in [User -> Nat]
    /\ allowance \in [User -> [ExtBridge -> Nat]]
    /\ bridge \in ExtBridge /\ tokenPaused \in BOOLEAN

EventTypeOK ==
    /\ locks \subseteq Event /\ burns \subseteq Event
    /\ processed \subseteq {e.txHash : e \in burns}
    /\ processedMints \subseteq {e.txHash : e \in locks}
    /\ extProcessed \in [ExtBridge -> SUBSET processedMints]

MoneyTypeOK == funded \in 0..scenario.funds /\ withdrawn \in Nat

\* The state is well formed; nothing is completed that was not announced.
TypeOK ==
    /\ HthTypeOK /\ TokenTypeOK /\ EventTypeOK /\ MoneyTypeOK
    /\ ext \in [ExtBridge -> ExtSettings]

\* Events whose other half has not happened yet.
Unminted == {e \in locks : e.txHash \notin processedMints}
Unreleased == {e \in burns : e.txHash \notin processed}

\* The sum of f over S, and of the amounts of a set of events.
Sum(f, S) == FoldFunctionOnSet(+, 0, f, S)
Total(events) == Sum([e \in events |-> e.amount], events)

\* wHTH is backed by locked HTH: what the bridge holds, and what the owner took
\* out with emergencyWithdraw, covers the supply, every lock still to be minted and
\* every burn still to be paid out, without the liquidity others deposited, whatever
\* the order of relayed, repeated and failed completions, and through changes of
\* fee and of the external bridge.
Backed ==
    balance + withdrawn >= totalSupply + Total(Unminted) + Total(Unreleased) + funded

\* completeBridge refuses to pay out when the contract holds too little.  As long as
\* the owner has withdrawn no more than was deposited with receive(), it holds enough
\* for all outstanding burns together, in whatever order they are relayed.
BurnsArePayable == withdrawn <= funded => balance >= Total(Unreleased)

\* The token's supply is what its holders have, through mint, transfer, burn and
\* burnFrom.
SupplyIsHeld == totalSupply = Sum(balanceOf, User)

\* The owner sets no limit above the first one.
LimitsNeverRaised ==
    \A s \in Scenarios : \A l \in s.limits :
        l.daily <= s.start.daily /\ l.user <= s.start.user

\* What was locked in the last day, by everyone and by one user.
Recent(u) == {i \in DOMAIN log : log[i].age < Day /\ log[i].by \in u}
RecentValue(u) == Sum([i \in DOMAIN log |-> log[i].value], Recent(u))

\* bridge()'s limits count from the last reset, which is made only by a call of
\* bridge(): over any day that may fall in two counting periods, so at most
\* twice the limit is locked, in all and by each user.
TwiceTheLimit ==
    /\ RecentValue(User) <= 2 * scenario.start.daily
    /\ \A u \in User : RecentValue({u}) <= 2 * scenario.start.user

\* If the owner leaves the bridge alone, every lock is minted and every burn is
\* paid out: the liquidity check of completeBridge holds no burn up for good.
EveryEventCompletes ==
    \A id \in AnyTxHash :
        /\ (\E e \in locks : e.txHash = id) ~> id \in processedMints
        /\ (\E e \in burns : e.txHash = id) ~> id \in processed

=============================================================================
