-------------------------------- MODULE Flux --------------------------------
(***************************************************************************)
(* The Flux component (src/flux_component.rs): loans against collateral,   *)
(* their interest, redemption and liquidation.                             *)
(*                                                                         *)
(* One action per public method, with the price the proxy passes it.  A    *)
(* failed assertion or panic reverts the whole transaction, so an action   *)
(* has the assertions as its guard.  `flux` is the component's state (with *)
(* the data of the NFTs it manages), `held` the fUSD outside the component *)
(* and `now` the clock; `unbacked` counts the fUSD that free_fusd minted   *)
(* and burn_fusd burned, which the component itself does not record.       *)
(***************************************************************************)
EXTENDS FluxLedger, Functions

CONSTANTS
  MaxCdps,            \* how many loans are ever opened
  InitialParameters,  \* the protocol parameters after instantiate
  Prices,             \* oracle prices
  Mcrs,               \* minimum collateral ratios
  Deposits, Mints,    \* what open_cdp is called with
  TopUps, Withdrawals, Repayments, ExtraMints,   \* what loans are changed by
  Redemptions,        \* payments of a redemption
  TakeShares,         \* percentage_to_take of a redemption: 1 minus its fee
  ChargeRanges,       \* <<start, end>> arguments of charge_interest
  IrredeemableRates,  \* interest_for_irredeemables of charge_interest
  BorrowerTerms,      \* data of new and edited privileged borrowers
  UserLinks,          \* whether users call link and unlink through the proxy
  SameRateMoves,      \* whether change_cdp_interest is called with the rate a loan has
  FreeAmounts,        \* amounts of free_fusd and burn_fusd
  Acceptances,        \* values of `accepted` in edit_collateral
  StopSettings, VectorLengths, MinimumMints, FineSettings,
  InterestSettings,   \* arguments of the five set_ methods
  MaxCollateral,      \* bound: the most collateral that is ever locked at once
  MaxFree             \* bound: the most fUSD that free_fusd leaves unbacked

ASSUME PriceAssumption == Prices \subseteq Nat \ {0} /\ Mcrs \subseteq Nat \ {0}
ASSUME ParameterAssumption == InitialParameters \in ProtocolParameters
ASSUME BoundAssumption == MaxCdps \in Nat /\ MaxCollateral \in Nat /\ MaxFree \in Nat
ASSUME AmountAssumption ==
  /\ Deposits \subseteq Nat /\ Mints \subseteq Nat
  /\ TopUps \subseteq Nat /\ Withdrawals \subseteq Nat
  /\ Repayments \subseteq Nat /\ ExtraMints \subseteq Nat
  /\ Redemptions \subseteq Nat /\ TakeShares \subseteq 0 .. ONE
  /\ FreeAmounts \subseteq Nat /\ Acceptances \subseteq BOOLEAN
  /\ IrredeemableRates \subseteq Rates
ASSUME TermsAssumption ==
  BorrowerTerms \subseteq
    [optOut : BOOLEAN, notice : Nat \cup {NoNotice}, maxCoupled : Nat]
ASSUME SettingAssumption ==
  /\ StopSettings \subseteq [liquidations : BOOLEAN, openings : BOOLEAN,
                              closings : BOOLEAN, redemption : BOOLEAN]
  /\ VectorLengths \subseteq Nat /\ MinimumMints \subseteq Nat
  /\ FineSettings \subseteq [fine : Nat, noticeFee : Nat, tagFee : Nat]
  /\ InterestSettings \subseteq [max : Nat, interval : Nat \ {0},
                                  cooldown : Nat, days : 0 .. MaxTime]

VARIABLES flux, held, unbacked

vars == <<flux, held, unbacked, now>>

-----------------------------------------------------------------------------
Init ==
  /\ flux = [cdps |-> <<>>, cdpCounter |-> 0, borrowers |-> <<>>,
             collaterals |-> <<>>, tiers |-> <<>>,
             ratios |-> [k \in Tiers |-> <<>>], marked |-> <<>>,
             params |-> InitialParameters, circulating |-> 0]
  /\ held = 0
  /\ unbacked = 0
  /\ now = 0

\* What with_price does at the start of a handler: change_collateral_price.
WithPrice(f, c, price) == [f EXCEPT !.collaterals[c].price = price]

\* Fault: earlier fees are overwritten.
PutUnchargedOverwriting(f, c, amount) == [f EXCEPT !.collaterals[c].uncharged = amount]

PutUncharged(f, c, amount) == [f EXCEPT !.collaterals[c].uncharged = @ + amount]

RateAllowed(f, i) ==
  /\ i % f.params.interestInterval = 0
  /\ (0 <= i /\ i < f.params.maxInterest) \/ i = Irredeemable

-----------------------------------------------------------------------------
(* Opening, closing and changing a loan.                                   *)

OpenCdp(c, deposit, mint, i, b, price) ==
  LET id == flux.cdpCounter + 1
      k == <<c, i>>
      f1 == WithPrice([flux EXCEPT !.cdpCounter = id], c, price)
      f2 == IF b = Nobody THEN f1 ELSE Couple(f1, b, id)
      base == RealToPoolDebt(f2, k, mint)
      fee == IF i = Irredeemable THEN 0 ELSE ExtraInterestDaysFee(f2, i, base)
      realFee == PoolToRealDebt(f2, k, fee)
      pool == base + fee
      minted == PoolToRealDebt(f2, k, pool)
      cr == Div(deposit, pool)
      f3 == PutCollateral(AddDebt(MintFusd(f2, k, pool), k, minted), k, deposit)
      f4 == PutUncharged(InsertCr(f3, k, cr, id), c, realFee)
      cdp == [collateral |-> c, amount |-> deposit, interest |-> i,
              pool |-> pool, ratio |-> cr, status |-> "Healthy",
              borrower |-> b, lastChange |-> now]
  IN  /\ id <= MaxCdps
      /\ flux.collaterals[c].amount + deposit <= MaxCollateral
      /\ b # Nobody => CanLink(flux, b)
      /\ RateAllowed(flux, i)
      /\ i = Irredeemable => b # Nobody /\ flux.borrowers[b].optOut
      /\ DebtMultiplier(flux, k) # 0
      /\ minted >= flux.params.minimumMint
      /\ ~flux.params.stopOpenings
      /\ flux.collaterals[c].accepted
      /\ MeetsMcr(f3, k, deposit, pool)
      /\ pool # 0
      /\ HasRoom(f3, k, cr)
      /\ flux' = [f4 EXCEPT !.cdps = With(@, id, cdp)]
      /\ held' = held + minted - realFee
      /\ UNCHANGED <<unbacked, now>>

CloseCdp(id) ==
  LET d == flux.cdps[id]
      k == Tier(d)
      debt == PoolToRealDebt(flux, k, d.pool)
      f1 == RemoveDebt(UnmintFusd(TakeCollateral(flux, k, d.amount), k, debt), k, debt)
      f2 == UnlinkIfLinked(Delist(f1, id, "Closed", 0), id)
  IN  /\ Active(d)
      /\ ~flux.params.stopClosings
      /\ debt <= held
      /\ DebtMultiplier(flux, k) # 0
      /\ flux' = [f2 EXCEPT !.cdps[id].ratio = 0]
      /\ held' = held - debt
      /\ UNCHANGED <<unbacked, now>>

RetrieveLeftoverCollateral(id) ==
  LET d == flux.cdps[id]
  IN  /\ d.status \in {"Liquidated", "Redeemed"}
      /\ d.amount > 0
      /\ ~flux.params.stopClosings
      /\ flux' = TakeFromLeftovers([flux EXCEPT !.cdps[id].amount = 0],
                                   d.collateral, d.amount)
      /\ UNCHANGED <<held, unbacked, now>>

TopUpCdp(id, deposit, price) ==
  LET d == flux.cdps[id]
      f1 == WithPrice(flux, d.collateral, price)
      amount == d.amount + deposit
  IN  /\ flux.collaterals[d.collateral].amount + deposit <= MaxCollateral
      /\ Active(d)
      /\ MeetsMcr(f1, Tier(d), amount, d.pool)
      /\ RoomToRelist(f1, id, d.interest, amount, d.pool)
      /\ flux' = PutCollateral(
                   Relist(UnmarkIfMarked(f1, id), id, d.interest, amount, d.pool),
                   Tier(d), deposit)
      /\ UNCHANGED <<held, unbacked, now>>

\* Fault: the ratio is not checked.
RemoveCollateralUnchecked(id, withdrawal, price) ==
  LET d == flux.cdps[id]
      f1 == WithPrice(flux, d.collateral, price)
      amount == d.amount - withdrawal
  IN  /\ Active(d)
      /\ ~flux.params.stopClosings
      /\ RoomToRelist(f1, id, d.interest, amount, d.pool)
      /\ withdrawal <= flux.collaterals[d.collateral].vault
      /\ flux' = TakeCollateral(
                   Relist(UnmarkIfMarked(f1, id), id, d.interest, amount, d.pool),
                   Tier(d), withdrawal)
      /\ UNCHANGED <<held, unbacked, now>>

RemoveCollateral(id, withdrawal, price) ==
  LET d == flux.cdps[id]
      f1 == WithPrice(flux, d.collateral, price)
      amount == d.amount - withdrawal
  IN  /\ Active(d)
      /\ ~flux.params.stopClosings
      /\ MeetsMcr(f1, Tier(d), amount, d.pool)
      /\ RoomToRelist(f1, id, d.interest, amount, d.pool)
      /\ withdrawal <= flux.collaterals[d.collateral].vault
      /\ flux' = TakeCollateral(
                   Relist(UnmarkIfMarked(f1, id), id, d.interest, amount, d.pool),
                   Tier(d), withdrawal)
      /\ UNCHANGED <<held, unbacked, now>>

\* A repayment of more than the debt closes the loan, and is CloseCdp.
PartialCloseCdp(id, repayment) ==
  LET d == flux.cdps[id]
      k == Tier(d)
      pool == d.pool - RealToPoolDebt(flux, k, repayment)
      f1 == RemoveDebt(UnmintFusd(flux, k, repayment), k, repayment)
  IN  /\ Active(d)
      /\ ~flux.params.stopClosings
      /\ DebtMultiplier(flux, k) # 0
      /\ repayment <= held
      /\ IF pool < 0
         THEN CloseCdp(id)
         ELSE /\ PoolToRealDebt(flux, k, pool) >= flux.params.minimumMint
              /\ RoomToRelist(flux, id, d.interest, d.amount, pool)
              /\ flux' = Relist(f1, id, d.interest, d.amount, pool)
              /\ held' = held - repayment
              /\ UNCHANGED <<unbacked, now>>

\* borrow_more, which tag_irredeemable and liquidate_cdp also call.
BorrowFee(f, id, amount, withInterest) ==
  LET d == f.cdps[id]
  IN  IF d.interest = Irredeemable \/ ~withInterest THEN 0
      ELSE ExtraInterestDaysFee(f, d.interest, RealToPoolDebt(f, Tier(d), amount))

BorrowedPool(f, id, amount, withInterest) ==
  RealToPoolDebt(f, Tier(f.cdps[id]), amount) + BorrowFee(f, id, amount, withInterest)

\* Fault: the ratio is checked without the new debt.
BorrowAllowedOnOldDebt(f, id, amount, withInterest, checkCr) ==
  LET d == f.cdps[id]
  IN  /\ Active(d)
      /\ ~f.params.stopOpenings
      /\ f.collaterals[d.collateral].accepted
      /\ DebtMultiplier(f, Tier(d)) # 0
      /\ checkCr => MeetsMcr(f, Tier(d), d.amount, d.pool)
      /\ RoomToRelist(f, id, d.interest, d.amount,
                      d.pool + BorrowedPool(f, id, amount, withInterest))

BorrowAllowed(f, id, amount, withInterest, checkCr) ==
  LET d == f.cdps[id]
      pool == d.pool + BorrowedPool(f, id, amount, withInterest)
  IN  /\ Active(d)
      /\ ~f.params.stopOpenings
      /\ f.collaterals[d.collateral].accepted
      /\ DebtMultiplier(f, Tier(d)) # 0
      /\ checkCr => MeetsMcr(f, Tier(d), d.amount, pool)
      /\ RoomToRelist(f, id, d.interest, d.amount, pool)

Borrow(f, id, amount, withInterest, checkCr) ==
  LET d == f.cdps[id]
      k == Tier(d)
      more == BorrowedPool(f, id, amount, withInterest)
      f1 == IF checkCr THEN UnmarkIfMarked(f, id) ELSE f
      f2 == MintFusd(Relist(f1, id, d.interest, d.amount, d.pool + more), k, more)
  IN  PutUncharged(AddDebt(f2, k, PoolToRealDebt(f, k, more)), d.collateral,
                   PoolToRealDebt(f, k, BorrowFee(f, id, amount, withInterest)))

\* The fUSD it returns to its caller.
BorrowedFusd(f, id, amount, withInterest) ==
  LET k == Tier(f.cdps[id])
  IN  PoolToRealDebt(f, k, BorrowedPool(f, id, amount, withInterest))
        - PoolToRealDebt(f, k, BorrowFee(f, id, amount, withInterest))

BorrowMore(id, amount, price) ==
  LET f1 == WithPrice(flux, flux.cdps[id].collateral, price)
  IN  /\ BorrowAllowed(f1, id, amount, TRUE, TRUE)
      /\ flux' = Borrow(f1, id, amount, TRUE, TRUE)
      /\ held' = held + BorrowedFusd(f1, id, amount, TRUE)
      /\ UNCHANGED <<unbacked, now>>

-----------------------------------------------------------------------------
(* Changing a loan's interest rate.                                        *)

\* change_cdp_interest up to the move of the debt: the link to borrower b or
\* the end of the loan's link, and the fee of a change within the cooldown.
Relinked(f, id, i, b) ==
  IF i = Irredeemable THEN LinkCdp(f, b, id) ELSE UnlinkIfLinked(f, id)

ChangeFee(f, id, i) ==
  LET d == f.cdps[id]
      debt == PoolToRealDebt(f, Tier(d), d.pool)
  IN  IF now < d.lastChange + f.params.cooldown /\ i # Irredeemable
      THEN ExtraInterestDaysFee(f, i, RealToPoolDebt(f, <<d.collateral, i>>, debt))
      ELSE 0

\* Fault: the pool debt is not converted to the new rate's units.
ChangedPoolUnconverted(f, id, i) == f.cdps[id].pool + ChangeFee(f, id, i)

ChangedPool(f, id, i) ==
  LET d == f.cdps[id]
      debt == PoolToRealDebt(f, Tier(d), d.pool)
  IN  RealToPoolDebt(f, <<d.collateral, i>>, debt) + ChangeFee(f, id, i)

\* The state with link, fee and collateral moved, and then the debt.
CollateralMoved(f, id, i, b) ==
  LET d == f.cdps[id]
      new == <<d.collateral, i>>
      fee == ChangeFee(f, id, i)
      real == PoolToRealDebt(f, new, fee)
      f1 == Relinked(f, id, i, b)
      f2 == IF fee = 0 THEN f1
            ELSE PutUncharged(AddDebt(MintFusd(f1, new, fee), new, real), d.collateral, real)
  IN  PutCollateral(TakeCollateral(f2, Tier(d), d.amount), new, d.amount)

InterestMoved(f, id, i, b) ==
  LET d == f.cdps[id]
  IN  MoveFusdInterest(CollateralMoved(f, id, i, b), Tier(d), <<d.collateral, i>>,
                       PoolToRealDebt(f, Tier(d), d.pool))

ChangeAllowed(f, id, i, b) ==
  LET d == f.cdps[id]
      old == Tier(d)
      new == <<d.collateral, i>>
      pool == ChangedPool(f, id, i)
      f1 == CollateralMoved(f, id, i, b)
      f2 == LeaveTier(f1, old, PoolToRealDebt(f, old, d.pool))
      f3 == InterestMoved(f, id, i, b)
  IN  /\ RateAllowed(f, i)
      /\ i = Irredeemable => b # Nobody /\ CanLink(f, b) /\ f.borrowers[b].optOut
      /\ d.status = "Healthy"
      /\ DebtMultiplier(f, new) # 0
      /\ DebtMultiplier(f1, old) # 0
      /\ DebtMultiplier(f2, new) # 0
      /\ MeetsMcr(f3, new, d.amount, pool)
      /\ RoomToRelist(f3, id, i, d.amount, pool)

ChangeInterest(f, id, i, b) ==
  LET d == f.cdps[id]
      f1 == UnmarkIfMarked(InterestMoved(f, id, i, b), id)
      f2 == Relist(f1, id, i, d.amount, ChangedPool(f, id, i))
  IN  CleanUpInterestInfo([f2 EXCEPT !.cdps[id].lastChange = now], Tier(d))

ChangeCdpInterest(id, i, b, price) ==
  LET f1 == WithPrice(flux, flux.cdps[id].collateral, price)
  IN  /\ SameRateMoves \/ i # flux.cdps[id].interest
      /\ ChangeAllowed(f1, id, i, b)
      /\ flux' = ChangeInterest(f1, id, i, b)
      /\ UNCHANGED <<held, unbacked, now>>

\* The rates of collateral c that have a tier, the standard ones among them,
\* and what get_lowest_interest returns.
RatesInUse(f, c) == {k[2] : k \in {k \in DOMAIN f.tiers : k[1] = c}}
StandardRates(f, c) == {i \in RatesInUse(f, c) : i >= 0}
LowestInterest(f, c, i) ==
  LET charged == {j \in StandardRates(f, c) : f.tiers[<<c, j>>].real >= 0}
  IN  IF charged = {} THEN i = 0 ELSE i \in charged /\ \A j \in charged : i <= j

TagIrredeemable(id, i) ==
  LET d == flux.cdps[id]
      f1 == UnlinkIfLinked(flux, id)
      f2 == ChangeInterest(f1, id, i, Nobody)
      fee == flux.params.tagFee
  IN  /\ d.status = "Healthy"
      /\ d.interest = Irredeemable
      /\ d.borrower # Nobody => ~flux.borrowers[d.borrower].optOut
      /\ LowestInterest(flux, d.collateral, i)
      /\ ChangeAllowed(f1, id, i, Nobody)
      /\ BorrowAllowed(f2, id, fee, FALSE, FALSE)
      /\ flux' = Borrow(f2, id, fee, FALSE, FALSE)
      /\ held' = held + BorrowedFusd(f2, id, fee, FALSE)
      /\ UNCHANGED <<unbacked, now>>

Unmark(id, price) ==
  LET d == flux.cdps[id]
      f1 == WithPrice(flux, d.collateral, price)
  IN  /\ d.status = "Marked"
      /\ MeetsMcr(f1, Tier(d), d.amount, d.pool)
      /\ d.pool # 0
      /\ flux' = UnmarkIfMarked(f1, id)
      /\ UNCHANGED <<held, unbacked, now>>

-----------------------------------------------------------------------------
(* Redemption.                                                             *)

\* A redemption takes the oldest entry at the lowest ratio of the lowest
\* standard rate, or of the irredeemable tier if there is no other.
\* Fault: the irredeemable rate counts as the lowest.
FirstRateIrredeemable(f, c, i) ==
  i \in RatesInUse(f, c) /\ \A j \in RatesInUse(f, c) : i <= j

FirstRate(f, c, i) ==
  /\ i \in RatesInUse(f, c)
  /\ \A j \in StandardRates(f, c) : 0 <= i /\ i <= j

\* Fault: the highest ratio is taken first.
FirstRatioHighest(f, k, cr) ==
  cr \in DOMAIN f.ratios[k] /\ \A other \in DOMAIN f.ratios[k] : other <= cr

FirstRatio(f, k, cr) ==
  /\ cr \in DOMAIN f.ratios[k] /\ 0 <= cr
  /\ \A other \in DOMAIN f.ratios[k] : 0 <= other => cr <= other

\* The collateral ratio in terms of value: mcr * cr / lcr.
CrPercentage(f, id) ==
  LET d == f.cdps[id]
      k == Tier(d)
  IN  Div(Mul(f.collaterals[d.collateral].mcr, Div(d.amount, d.pool)), Lcr(f, k))

\* Faults: the collateral ratio is left out, or multiplied with.
CollateralTakenWithoutRatio(f, id, part, share) == Mul(Mul(f.cdps[id].amount, part), share)
CollateralTakenTimesRatio(f, id, part, share) ==
  Mul(Mul(Mul(f.cdps[id].amount, part), share), CrPercentage(f, id))

\* The collateral a redemption of this part of a loan takes.
CollateralTaken(f, id, part, share) ==
  Div(Mul(Mul(f.cdps[id].amount, part), share), CrPercentage(f, id))

RedeemLoan(f, id, payment, share) ==
  LET d == f.cdps[id]
      k == Tier(d)
      asked == RealToPoolDebt(f, k, payment)
      over == asked > d.pool
      part == IF over THEN ONE ELSE Div(asked, d.pool)
      paid == IF over THEN PoolToRealDebt(f, k, d.pool) ELSE payment
      pool == IF over THEN 0 ELSE d.pool - asked
      taken == CollateralTaken(f, id, part, share)
      amount == IF taken > d.amount THEN 0 ELSE d.amount - taken
      f1 == RemoveDebt(UnmintFusd(f, k, paid), k, paid)
      f2 == TakeCollateral(f1, k, d.amount)
      f3 == PutCollateral(f2, k, amount)
  IN  /\ DebtMultiplier(f, k) # 0 /\ d.pool # 0
      /\ Lcr(f, k) # 0 /\ CrPercentage(f, id) # 0
      /\ CrPercentage(f, id) > ONE \/ part = ONE
      /\ held' = held - paid
      /\ IF part < ONE
         THEN /\ RoomToRelist(f3, id, d.interest, amount, pool)
              /\ flux' = CleanUpInterestInfo(
                           Relist(f3, id, d.interest, amount, pool), k)
         ELSE flux' = UnlinkIfLinked(
                        Delist(PutInLeftovers(f2, d.collateral, amount), id, "Redeemed", amount),
                        id)

Redemption(c, payment, share, price) ==
  LET f == WithPrice(flux, c, price)
  IN  /\ ~flux.params.stopRedemption
      /\ payment <= held
      /\ UNCHANGED <<unbacked, now>>
      /\ \/ RatesInUse(f, c) = {} /\ flux' = f /\ UNCHANGED held
         \/ \E i \in RatesInUse(f, c) : \E cr \in DOMAIN f.ratios[<<c, i>>] :
              /\ FirstRate(f, c, i)
              /\ FirstRatio(f, <<c, i>>, cr)
              /\ RedeemLoan(f, f.ratios[<<c, i>>][cr][1], payment, share)

-----------------------------------------------------------------------------
(* Liquidation.                                                            *)

\* Fault: a marked loan no longer counts as open.
CanLiquidateUnmarked(f, id) ==
  LET d == f.cdps[id]
  IN  /\ ~f.params.stopLiquidations
      /\ d.status = "Healthy"
      /\ d.pool # 0
      /\ Div(d.amount, d.pool) < Lcr(f, Tier(d))

\* Fault: the notice ends a tick early.
CanLiquidateEarly(f, id) ==
  LET d == f.cdps[id]
      k == Tier(d)
  IN  /\ ~f.params.stopLiquidations
      /\ Active(d)
      /\ d.status = "Marked" => now >= f.marked[id]
      /\ d.pool # 0
      /\ Div(d.amount, d.pool) < Lcr(f, k)

CanLiquidate(f, id) ==
  LET d == f.cdps[id]
      k == Tier(d)
  IN  /\ ~f.params.stopLiquidations
      /\ Active(d)
      /\ d.status = "Marked" => now > f.marked[id]
      /\ d.pool # 0
      /\ Div(d.amount, d.pool) < Lcr(f, k)

HasNotice(f, id) ==
  LET d == f.cdps[id]
  IN  /\ d.status = "Healthy"
      /\ d.borrower # Nobody
      /\ f.borrowers[d.borrower].notice # NoNotice

\* liquidate_cdp of a loan whose borrower has a notice: it is only marked,
\* and borrows the fee that goes to the caller.
MarkForLiquidation(id, price) ==
  LET d == flux.cdps[id]
      f1 == WithPrice(flux, d.collateral, price)
      until == now + flux.borrowers[d.borrower].notice
      f2 == [f1 EXCEPT !.cdps[id].status = "Marked", !.marked = With(@, id, until)]
      fee == flux.params.noticeFee
  IN  /\ CanLiquidate(f1, id)
      /\ HasNotice(f1, id)
      /\ BorrowAllowed(f2, id, fee, FALSE, FALSE)
      /\ flux' = Borrow(f2, id, fee, FALSE, FALSE)
      /\ held' = held + BorrowedFusd(f2, id, fee, FALSE)
      /\ UNCHANGED <<unbacked, now>>

Liquidate(id, price) ==
  LET d == flux.cdps[id]
      k == Tier(d)
      f1 == WithPrice(flux, d.collateral, price)
      debt == PoolToRealDebt(f1, k, d.pool)
      worth == Div(d.amount, CrPercentage(f1, id))
      payout == Lesser(d.amount, Mul(f1.params.liquidationFine, worth) + worth)
      f2 == IF d.status = "Marked" THEN UnlinkIfLinked(f1, id) ELSE f1
      f3 == TakeCollateral(RemoveDebt(UnmintFusd(f2, k, debt), k, debt), k, d.amount)
  IN  /\ CanLiquidate(f1, id)
      /\ ~HasNotice(f1, id)
      /\ debt <= held
      /\ DebtMultiplier(f1, k) # 0
      /\ Lcr(f1, k) # 0 /\ CrPercentage(f1, id) # 0
      /\ flux' = Delist(PutInLeftovers(f3, d.collateral, d.amount - payout), id, "Liquidated",
                        d.amount - payout)
      /\ held' = held - debt
      /\ UNCHANGED <<unbacked, now>>

LiquidateCdp(id, price) == MarkForLiquidation(id, price) \/ Liquidate(id, price)

-----------------------------------------------------------------------------
(* Interest.                                                               *)

\* Fault: the tiers of other collaterals are charged too.
ChargedTiersOfAll(f, c, range) ==
  {k \in DOMAIN f.tiers : range[1] <= k[2] /\ k[2] < range[2]}

ChargedTiers(f, c, range) ==
  {k \in DOMAIN f.tiers : k[1] = c /\ range[1] <= k[2] /\ k[2] < range[2]}

ChargeInterest(c, range, irredeemableRate) ==
  LET charged == ChargedTiers(flux, c, range)
      rate(k) == IF k[2] = Irredeemable THEN irredeemableRate ELSE k[2]
      grown(k) == Mul(Growth[rate(k)][now - flux.tiers[k].last], flux.tiers[k].real)
      charge(k) == [flux.tiers[k] EXCEPT !.last = now, !.real = grown(k)]
      tiers == [k \in DOMAIN flux.tiers |->
                  IF k \in charged THEN charge(k) ELSE flux.tiers[k]]
      mint == SumFunction([k \in charged |-> grown(k) - flux.tiers[k].real])
  IN  /\ flux' = [flux EXCEPT !.tiers = tiers, !.circulating = @ + mint,
                              !.collaterals[c].debt = @ + mint,
                              !.collaterals[c].uncharged = 0]
      /\ held' = held + mint + flux.collaterals[c].uncharged
      /\ UNCHANGED <<unbacked, now>>

-----------------------------------------------------------------------------
(* Collaterals, privileged borrowers and parameters.                       *)

ChangeCollateralPrice(c, price) ==
  /\ flux' = WithPrice(flux, c, price)
  /\ UNCHANGED <<held, unbacked, now>>

NewCollateral(c, mcr, price) ==
  /\ c \notin DOMAIN flux.collaterals
  /\ flux' = [flux EXCEPT !.collaterals = With(@, c,
                [mcr |-> mcr, price |-> price, accepted |-> TRUE, debt |-> 0,
                 amount |-> 0, vault |-> 0, leftovers |-> 0, uncharged |-> 0])]
  /\ UNCHANGED <<held, unbacked, now>>

EditCollateral(c, mcr, accepted) ==
  /\ flux' = [flux EXCEPT !.collaterals[c].mcr = mcr,
                          !.collaterals[c].accepted = accepted]
  /\ UNCHANGED <<held, unbacked, now>>

CreatePrivilegedBorrower(b, terms) ==
  /\ b \notin DOMAIN flux.borrowers
  /\ flux' = [flux EXCEPT !.borrowers = With(@, b,
                [optOut |-> terms.optOut, notice |-> terms.notice,
                 maxCoupled |-> terms.maxCoupled, coupled |-> {}])]
  /\ UNCHANGED <<held, unbacked, now>>

EditPrivilegedBorrower(b, terms) ==
  /\ flux' = [flux EXCEPT !.borrowers[b].optOut = terms.optOut,
                          !.borrowers[b].notice = terms.notice,
                          !.borrowers[b].maxCoupled = terms.maxCoupled]
  /\ UNCHANGED <<held, unbacked, now>>

LinkCdpToPrivilegedBorrower(b, id) ==
  /\ UserLinks
  /\ CanLink(flux, b)
  /\ flux' = LinkCdp(flux, b, id)
  /\ UNCHANGED <<held, unbacked, now>>

UnlinkCdpFromPrivilegedBorrower(b, id) ==
  /\ UserLinks
  /\ flux' = UnlinkCdp(flux, b, id)
  /\ UNCHANGED <<held, unbacked, now>>

BurnLoanReceipt(id) ==
  /\ flux.cdps[id].status \in {"Liquidated", "Redeemed", "Closed"}
  /\ flux.cdps[id].amount = 0
  /\ flux' = [flux EXCEPT !.cdps = Without(@, id)]
  /\ UNCHANGED <<held, unbacked, now>>

SetStops(s) ==
  /\ flux' = [flux EXCEPT !.params.stopLiquidations = s.liquidations,
                          !.params.stopOpenings = s.openings,
                          !.params.stopClosings = s.closings,
                          !.params.stopRedemption = s.redemption]
  /\ UNCHANGED <<held, unbacked, now>>

SetMaxVectorLength(length) ==
  /\ flux' = [flux EXCEPT !.params.maxVectorLength = length]
  /\ UNCHANGED <<held, unbacked, now>>

SetMinimumMint(amount) ==
  /\ flux' = [flux EXCEPT !.params.minimumMint = amount]
  /\ UNCHANGED <<held, unbacked, now>>

SetFines(s) ==
  /\ flux' = [flux EXCEPT !.params.liquidationFine = s.fine,
                          !.params.noticeFee = s.noticeFee,
                          !.params.tagFee = s.tagFee]
  /\ UNCHANGED <<held, unbacked, now>>

SetInterestParams(s) ==
  /\ flux' = [flux EXCEPT !.params.maxInterest = s.max,
                          !.params.interestInterval = s.interval,
                          !.params.cooldown = s.cooldown,
                          !.params.extraDays = s.days]
  /\ UNCHANGED <<held, unbacked, now>>

FreeFusd(amount) ==
  /\ unbacked + amount <= MaxFree
  /\ held' = held + amount
  /\ unbacked' = unbacked + amount
  /\ UNCHANGED <<flux, now>>

BurnFusd(amount) ==
  /\ amount <= held
  /\ held' = held - amount
  /\ -MaxFree <= unbacked - amount
  /\ unbacked' = unbacked - amount
  /\ UNCHANGED <<flux, now>>

Tick ==
  /\ now < MaxTime
  /\ now' = now + 1
  /\ UNCHANGED <<flux, held, unbacked>>

-----------------------------------------------------------------------------
(* The calls that can come next.  A price is fetched for every call that   *)
(* takes one; it may be the price the component already has.               *)

Listed == DOMAIN flux.collaterals
Loans == DOMAIN flux.cdps
Registered == DOMAIN flux.borrowers

LoanCall(id) ==
  \/ CloseCdp(id)
  \/ RetrieveLeftoverCollateral(id)
  \/ \E i \in Rates : TagIrredeemable(id, i)
  \/ BurnLoanReceipt(id)
  \/ \E amount \in Repayments : PartialCloseCdp(id, amount)
  \/ \E price \in Prices :
       \/ \E amount \in TopUps : TopUpCdp(id, amount, price)
       \/ \E amount \in Withdrawals : RemoveCollateral(id, amount, price)
       \/ \E amount \in ExtraMints : BorrowMore(id, amount, price)
       \/ \E i \in Interests, b \in Registered \cup {Nobody} :
            ChangeCdpInterest(id, i, b, price)
       \/ Unmark(id, price)
       \/ LiquidateCdp(id, price)

CollateralCall(c) ==
  \/ \E deposit \in Deposits, mint \in Mints, i \in Interests,
        b \in Registered \cup {Nobody}, price \in Prices :
       OpenCdp(c, deposit, mint, i, b, price)
  \/ \E payment \in Redemptions, share \in TakeShares, price \in Prices :
       Redemption(c, payment, share, price)
  \/ \E range \in ChargeRanges, rate \in IrredeemableRates :
       ChargeInterest(c, range, rate)

OwnerCall ==
  \/ \E c \in Collaterals, mcr \in Mcrs, price \in Prices :
       NewCollateral(c, mcr, price)
  \/ \E c \in Listed, price \in Prices : ChangeCollateralPrice(c, price)
  \/ \E c \in Listed, mcr \in Mcrs, accepted \in Acceptances :
       EditCollateral(c, mcr, accepted)
  \/ \E b \in Borrowers, terms \in BorrowerTerms : CreatePrivilegedBorrower(b, terms)
  \/ \E b \in Registered, terms \in BorrowerTerms : EditPrivilegedBorrower(b, terms)
  \/ \E s \in StopSettings : SetStops(s)
  \/ \E length \in VectorLengths : SetMaxVectorLength(length)
  \/ \E amount \in MinimumMints : SetMinimumMint(amount)
  \/ \E s \in FineSettings : SetFines(s)
  \/ \E s \in InterestSettings : SetInterestParams(s)
  \/ \E amount \in FreeAmounts : FreeFusd(amount) \/ BurnFusd(amount)

LinkCall ==
  \E b \in Registered, id \in Loans :
    \/ LinkCdpToPrivilegedBorrower(b, id)
    \/ UnlinkCdpFromPrivilegedBorrower(b, id)

Next ==
  \/ \E id \in Loans : LoanCall(id)
  \/ \E c \in Listed : CollateralCall(c)
  \/ OwnerCall
  \/ LinkCall
  \/ Tick

Spec == Init /\ [][Next]_vars

=============================================================================
