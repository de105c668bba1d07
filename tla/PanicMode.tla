------------------------------ MODULE PanicMode ------------------------------
(***************************************************************************)
(* The panic mode of StabilityPools (src/stability_pools.rs): when a pool  *)
(* has too little fUSD for a liquidation, and still has after a wait, loans *)
(* can be liquidated with a stablecoin, which backs the fUSD that the loan  *)
(* backed before.                                                          *)
(*                                                                         *)
(* Of Flux only what check_liquidate_cdp reports of a loan is kept, its    *)
(* debt and whether it can be liquidated, and of a pool only its fUSD.     *)
(* Both change freely between calls.  A failed assertion reverts a call,   *)
(* so it is a guard.                                                       *)
(*                                                                         *)
(* An operator marked "Fault" is a variant of the next one with a plausible *)
(* bug.  Nothing uses it; a property tells the two apart.                  *)
(***************************************************************************)
EXTENDS Integers, FiniteSets, Functions

CONSTANTS
  Cdps,              \* ids of loans
  Collaterals,       \* addresses of collaterals, and so of pools
  CollateralOf,      \* the collateral of each loan
  Stablecoins,       \* addresses of centralized stablecoins
  FirstStablecoin,   \* the one given to instantiate
  NoTime,            \* no liquidation time
  InitialWait, InitialCooldown,   \* periods after instantiate
  Periods,           \* <<wait, cooldown>> arguments of set_panic_mode_parameters
  Debts,             \* debts of open loans
  PoolAmounts,       \* what contributions and withdrawals leave in a pool
  Payments,          \* stablecoin payments
  Redemptions,       \* fUSD payments of redemptions
  NoticeFee,         \* liquidation_notice_fee
  MaxTime            \* the last tick of the clock

ASSUME FiniteAssumption ==
  IsFiniteSet(Cdps) /\ IsFiniteSet(Collaterals) /\ IsFiniteSet(Stablecoins)
ASSUME LoansAssumption == CollateralOf \in [Cdps -> Collaterals]
ASSUME StablecoinAssumption == FirstStablecoin \in Stablecoins
ASSUME NoTimeAssumption == NoTime \notin Nat
ASSUME PeriodAssumption ==
  /\ InitialWait \in Nat \ {0} /\ InitialCooldown \in Nat \ {0}
  /\ Periods \subseteq (Nat \ {0}) \X (Nat \ {0})
ASSUME AmountAssumption ==
  /\ Debts \subseteq Nat \ {0} /\ PoolAmounts \subseteq Nat
  /\ Payments \subseteq Nat /\ Redemptions \subseteq Nat
  /\ NoticeFee \in Nat
ASSUME TimeAssumption == MaxTime \in Nat

VARIABLES
  panic,      \* the PanicModeInfo, without its vaults
  vaults,     \* centralized_stablecoin_vaults
  periods,    \* panic_mode_wait_period and panic_mode_cooldown_period
  loans,      \* what Flux knows of the loans
  pools,      \* the fUSD in each stability pool
  held,       \* the fUSD anywhere else
  reported,   \* history: when a loan's entry in pending_cdps was made
  now

vars == <<panic, vaults, periods, loans, pools, held, reported, now>>

\* A loan that check_liquidate_cdp finds liquidatable, one that liquidate_cdp
\* would only mark, one that is neither, and one that ended.
States == {"Liquidatable", "Notice", "Safe", "Ended"}

Loans(debts) == [state : States, debt : debts]

Open(id) == loans[id].state # "Ended"
Pool(id) == pools[CollateralOf[id]]
Short(id) == Pool(id) < loans[id].debt

DebtOf(S) == SumFunction([id \in S |-> loans[id].debt])

Init ==
  /\ panic = [active |-> FALSE, last |-> NoTime, pending |-> <<>>,
              stablecoin |-> FirstStablecoin]
  /\ vaults = [s \in Stablecoins |-> 0]
  /\ periods = [wait |-> InitialWait, cooldown |-> InitialCooldown]
  /\ loans \in [Cdps -> {l \in Loans(Debts) : l.state # "Ended"}]
  /\ pools = [c \in Collaterals |-> 0]
  /\ held = DebtOf(Cdps)
  /\ reported = <<>>
  /\ now = 0

-----------------------------------------------------------------------------
(* check_and_initiate_panic_mode, by what it finds in pending_cdps.        *)

\* Fault: the entry takes effect at once.
EnterWithoutWait(id) ==
  /\ panic' = [panic EXCEPT !.pending =
       [x \in DOMAIN panic.pending \cup {id} |-> IF x = id THEN now ELSE panic.pending[x]]]
  /\ reported' =
       [x \in DOMAIN reported \cup {id} |-> IF x = id THEN now ELSE reported[x]]

Enter(id) ==
  /\ panic' = [panic EXCEPT !.pending =
       [x \in DOMAIN panic.pending \cup {id} |->
          IF x = id THEN now + periods.wait ELSE panic.pending[x]]]
  /\ reported' =
       [x \in DOMAIN reported \cup {id} |-> IF x = id THEN now ELSE reported[x]]

Initiate(id) ==
  /\ id \notin DOMAIN panic.pending
  /\ Enter(id)

\* Fault: panic mode is dated to the end of the window.
ActivateAhead(id) ==
  /\ id \in DOMAIN panic.pending
  /\ now > panic.pending[id]
  /\ now < panic.pending[id] + periods.wait
  /\ panic' = [panic EXCEPT !.active = TRUE, !.last = panic.pending[id] + periods.wait]
  /\ UNCHANGED reported

\* The entry stays where it is.
Activate(id) ==
  /\ id \in DOMAIN panic.pending
  /\ now > panic.pending[id]
  /\ now < panic.pending[id] + periods.wait
  /\ panic' = [panic EXCEPT !.active = TRUE, !.last = now]
  /\ UNCHANGED reported

TooLate(id) ==
  /\ id \in DOMAIN panic.pending
  /\ now > panic.pending[id]
  /\ now >= panic.pending[id] + periods.wait
  /\ Enter(id)

CheckAndInitiatePanicMode(id) ==
  /\ loans[id].state = "Liquidatable"
  /\ Short(id)
  /\ Initiate(id) \/ Activate(id) \/ TooLate(id)
  /\ UNCHANGED <<vaults, periods, loans, pools, held, now>>

-----------------------------------------------------------------------------
(* Panic mode's end, and liquidation in it.                                *)

\* Fault: the cooldown is forgotten.
InPanicModeForever == panic.active /\ panic.last # NoTime

\* What check_panic_mode_status returns.
InPanicMode ==
  panic.active /\ panic.last # NoTime /\ now <= panic.last + periods.cooldown

\* Only a call of its own ends panic mode: a liquidation that finds the
\* cooldown over is reverted as a whole.
CheckPanicModeStatus ==
  /\ panic.active /\ panic.last # NoTime
  /\ now > panic.last + periods.cooldown
  /\ panic' = [panic EXCEPT !.active = FALSE, !.last = NoTime]
  /\ UNCHANGED <<vaults, periods, loans, pools, held, reported, now>>

\* Fault: what is left of the payment stays in the vault.
StoredWhole(payment, debt) == payment

\* What the vault keeps of a payment: all that was minted for it comes back
\* and is burned, but for the loan's debt, which liquidate_cdp has burned.
Stored(payment, debt) ==
  LET leftover == payment - debt IN payment - leftover

PanicModeLiquidate(id, payment) ==
  LET debt == loans[id].debt
      minted == payment
      leftover == minted - debt
  IN  /\ InPanicMode
      /\ payment >= debt
      /\ loans[id].state = "Liquidatable"
      /\ Short(id)
      /\ vaults' = [vaults EXCEPT ![panic.stablecoin] = @ + Stored(payment, debt)]
      /\ loans' = [loans EXCEPT ![id] = [state |-> "Ended", debt |-> 0]]
      /\ held' = held + minted - debt - leftover
      /\ panic' = [panic EXCEPT !.last = now]
      /\ UNCHANGED <<periods, pools, reported, now>>

-----------------------------------------------------------------------------
(* Liquidation from the pool, and redemption.                              *)

\* The pool's fUSD is withdrawn, and what liquidate_cdp does not use, or the
\* notice fee it lends, is deposited.
Liquidate(id) ==
  LET c == CollateralOf[id]
      debt == loans[id].debt
  IN  /\ \/ /\ loans[id].state = "Liquidatable"
            /\ debt <= pools[c]
            /\ pools' = [pools EXCEPT ![c] = @ - debt]
            /\ loans' = [loans EXCEPT ![id] = [state |-> "Ended", debt |-> 0]]
         \/ /\ loans[id].state = "Notice"
            /\ debt + NoticeFee \in Debts
            /\ pools' = [pools EXCEPT ![c] = @ + NoticeFee]
            /\ loans' = [loans EXCEPT ![id] = [state |-> "Safe", debt |-> debt + NoticeFee]]
      /\ UNCHANGED <<panic, vaults, periods, held, reported, now>>

\* What perform_normal_redemptions leaves of the loans: any part of the
\* payment, from collaterals whose debt is not all in their pool.
InDebt(c) == DebtOf({id \in Cdps : CollateralOf[id] = c}) > pools[c]

RedeemedFrom(debts) == SumFunction([id \in Cdps |-> loans[id].debt - debts[id]])

NormallyRedeemed(payment, debts) ==
  /\ \E c \in Collaterals : InDebt(c)
  /\ \A id \in Cdps :
       \/ debts[id] = loans[id].debt
       \/ InDebt(CollateralOf[id]) /\ debts[id] < loans[id].debt
  /\ RedeemedFrom(debts) <= payment

\* Stablecoin first, one for one.
RedemptionsPaid(payment) ==
  LET vault == vaults[panic.stablecoin]
  IN  IF vault <= payment THEN vault ELSE payment

PoolRedemptions(payment) ==
  LET coins == RedemptionsPaid(payment)
  IN  /\ payment <= held
      /\ \E debts \in [Cdps -> Debts \cup {0}] :
           /\ IF coins > 0 /\ coins = payment
              THEN \A id \in Cdps : debts[id] = loans[id].debt
              ELSE NormallyRedeemed(payment - coins, debts)
           /\ loans' = [id \in Cdps |->
                [state |-> IF debts[id] = 0 THEN "Ended" ELSE loans[id].state,
                 debt |-> debts[id]]]
           /\ held' = held - coins - RedeemedFrom(debts)
      /\ vaults' = [vaults EXCEPT ![panic.stablecoin] = @ - coins]
      /\ UNCHANGED <<panic, periods, pools, reported, now>>

-----------------------------------------------------------------------------
(* The owner, Flux, the pools and the clock.                               *)

SetPanicModeParameters(p) ==
  /\ periods' = [wait |-> p[1], cooldown |-> p[2]]
  /\ UNCHANGED <<panic, vaults, loans, pools, held, reported, now>>

SetCentralizedStablecoin(s) ==
  /\ panic' = [panic EXCEPT !.stablecoin = s]
  /\ UNCHANGED <<vaults, periods, loans, pools, held, reported, now>>

\* Prices, parameters and calls on Flux change what is reported of a loan.
LoanChanges(id, after) ==
  /\ Open(id)
  /\ after.debt - loans[id].debt + held >= 0
  /\ after.state = "Ended" <=> after.debt = 0
  /\ loans' = [loans EXCEPT ![id] = after]
  /\ held' = held + after.debt - loans[id].debt
  /\ UNCHANGED <<panic, vaults, periods, pools, reported, now>>

\* Contributions, withdrawals and the like.
PoolChanges(c, amount) ==
  /\ amount <= held + pools[c]
  /\ pools' = [pools EXCEPT ![c] = amount]
  /\ held' = held + pools[c] - amount
  /\ UNCHANGED <<panic, vaults, periods, loans, reported, now>>

Tick ==
  /\ now < MaxTime
  /\ now' = now + 1
  /\ UNCHANGED <<panic, vaults, periods, loans, pools, held, reported>>

Next ==
  \/ \E id \in Cdps :
       \/ CheckAndInitiatePanicMode(id)
       \/ \E payment \in Payments : PanicModeLiquidate(id, payment)
       \/ Liquidate(id)
       \/ \E after \in Loans(Debts \cup {0}) : LoanChanges(id, after)
  \/ CheckPanicModeStatus
  \/ \E payment \in Redemptions : PoolRedemptions(payment)
  \/ \E p \in Periods : SetPanicModeParameters(p)
  \/ \E s \in Stablecoins : SetCentralizedStablecoin(s)
  \/ \E c \in Collaterals, amount \in PoolAmounts : PoolChanges(c, amount)
  \/ Tick

Spec == Init /\ [][Next]_vars

-----------------------------------------------------------------------------
(* Properties.                                                             *)

\* Times and amounts are typed; what entered pending_cdps is on record.
TypeOK ==
  /\ panic.active \in BOOLEAN /\ panic.last \in 0 .. now \cup {NoTime}
  /\ panic.stablecoin \in Stablecoins
  /\ DOMAIN panic.pending \subseteq Cdps /\ DOMAIN reported = DOMAIN panic.pending
  /\ \A id \in DOMAIN reported :
       reported[id] \in 0 .. now /\ panic.pending[id] \in Nat
  /\ periods \in [wait : Nat \ {0}, cooldown : Nat \ {0}]
  /\ loans \in [Cdps -> Loans(Debts \cup {0})]
  /\ now \in 0 .. MaxTime

\* Every fUSD is backed by the debt of a loan or by a stablecoin in a vault:
\* the fUSD whose loan was liquidated for a stablecoin can be redeemed for it.
Backed ==
  held + SumFunction(pools) = DebtOf(Cdps) + SumFunction(vaults)

\* Every wait that may be set at some time.
Waits == {InitialWait} \cup {p[1] : p \in Periods}

\* Panic mode starts only with a loan that can be liquidated and whose pool
\* is short, and that was reported before: longer ago than the wait that was
\* set then, and not longer than that and the wait that is set now.
ActivationWaits ==
  [][~panic.active /\ panic'.active =>
       \E id \in DOMAIN reported : \E wait \in Waits :
         /\ loans[id].state = "Liquidatable" /\ Short(id)
         /\ reported[id] + wait < now
         /\ now < reported[id] + wait + periods.wait]_vars

\* Stablecoin comes in only in panic mode, no later than the cooldown after
\* its start or the last such liquidation, for a loan that its pool cannot
\* pay for, and as much as that loan's debt.
StablecoinNeeded ==
  [][\A s \in Stablecoins : vaults'[s] > vaults[s] =>
       /\ panic.active /\ now <= panic.last + periods.cooldown
       /\ \E id \in Cdps :
            /\ Open(id) /\ loans'[id].state = "Ended"
            /\ Pool(id) < loans[id].debt
            /\ vaults'[s] - vaults[s] = loans[id].debt]_vars

=============================================================================
