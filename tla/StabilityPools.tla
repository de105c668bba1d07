--------------------------- MODULE StabilityPools ---------------------------
(***************************************************************************)
(* The StabilityPools component (src/stability_pools.rs) but for its panic *)
(* mode and its redemptions: one pool of fUSD and collateral for each      *)
(* collateral, which pays for liquidations and earns a part of interest.   *)
(*                                                                         *)
(* The vaults and units of a pool are those of a TwoResourcePool, a        *)
(* component of the ledger that is modelled from how this code uses it.    *)
(***************************************************************************)
EXTENDS Transactions

CONSTANTS
  InitialPoolParameters,   \* the parameters after instantiate
  Default,                 \* None in an optional setting of a pool
  Contributions,           \* what contribute_to_pool is called with
  WithdrawnShares,         \* the part of all units that withdraw_from_pool redeems
  Purchases,               \* what buy_collateral_from_pool is called with
  PoolSettings,            \* arguments of new_pool and edit_pool
  PoolParameterSettings,   \* arguments of set_parameters
  HistorySettings,         \* history arguments of set_panic_mode_parameters
  Allowances               \* arguments of set_allow_multiple_actions

VARIABLES
  pools,           \* stability_pools
  payoutVault,     \* payout_vault
  poolParameters,  \* parameters
  allowMultiple,   \* allow_multiple_actions
  hashed,          \* whether the running transaction is in `transactions`
  joined           \* the pools that minted units in the running transaction

poolVars == <<pools, payoutVault, poolParameters, allowMultiple, hashed, joined>>

Setting == [payout : Nat \cup {Default}, liquidity : Nat \cup {Default},
            pool : Nat \cup {Default}, allowBuys : BOOLEAN,
            modifier : Nat \cup {Default}]

\* One pool, with the history of the lowest rates.
Pool == [fusd : Nat, coll : Nat, units : Nat, rewards : Nat,
         history : Seq(Rates), created : 0 .. MaxTime, setting : Setting]

PoolParameters ==
  [payout : Nat, liquidity : Nat, pool : Nat, modifier : Nat, flatFee : Nat,
   percentageFee : Nat, liquidatorFlat : Nat, liquidatorShare : Nat,
   historyLength : Nat, interval : Nat]

ASSUME PoolAssumption ==
  /\ Default \notin Nat
  /\ Contributions \subseteq Nat /\ Purchases \subseteq Nat
  /\ WithdrawnShares \subseteq 0 .. ONE
  /\ PoolSettings \subseteq Setting
  /\ InitialPoolParameters \in PoolParameters
  /\ PoolParameterSettings \subseteq
       [payout : Nat, liquidity : Nat, pool : Nat, modifier : Nat,
        flatFee : Nat, percentageFee : Nat]
  /\ HistorySettings \subseteq [length : Nat, interval : Nat]
  /\ Allowances \subseteq BOOLEAN

PoolInit ==
  /\ pools = <<>>
  /\ payoutVault = 0
  /\ poolParameters = InitialPoolParameters
  /\ allowMultiple = FALSE
  /\ hashed = FALSE /\ joined = {}

OrDefault(setting, default) == IF setting = Default THEN default ELSE setting

Modifier(c) == OrDefault(pools[c].setting.modifier, poolParameters.modifier)

-----------------------------------------------------------------------------
(* The TwoResourcePool of a collateral.                                    *)

\* What contribute does with collateral and fUSD.  They join in proportion to
\* the vaults and the rest is returned; who comes first owns the whole pool.
PoolContribute(p, coll, fusd) ==
  IF p.units = 0
  THEN [pool |-> [p EXCEPT !.coll = @ + coll, !.fusd = @ + fusd,
                           !.units = p.fusd + fusd],
        coll |-> 0, fusd |-> 0]
  ELSE LET byColl == p.coll > 0 /\ coll * p.fusd <= fusd * p.coll
           collIn == IF byColl THEN coll ELSE (fusd * p.coll) \div p.fusd
           fusdIn == IF byColl THEN (coll * p.fusd) \div p.coll ELSE fusd
           minted == IF byColl THEN (coll * p.units) \div p.coll
                               ELSE (fusd * p.units) \div p.fusd
       IN  [pool |-> [p EXCEPT !.coll = @ + collIn, !.fusd = @ + fusdIn,
                               !.units = @ + minted],
            coll |-> coll - collIn, fusd |-> fusd - fusdIn]

\* What redeem leaves when it pays these units their part of both vaults.
PoolRedeem(p, units) ==
  [p EXCEPT !.units = @ - units,
            !.coll = @ - ((units * @) \div p.units),
            !.fusd = @ - ((units * @) \div p.units)]

-----------------------------------------------------------------------------
(* Joining and leaving a pool.                                             *)

\* Faults: the discount is given twice; more is sold than there is.
SellDiscountedTwice(p, fusd, price, modifier) ==
  LET canBuy == Div(fusd, Mul(Mul(price, modifier), modifier))
      fraction == Div(p.coll, canBuy)
      paid == IF fraction >= ONE THEN fusd ELSE Mul(fusd, fraction)
      bought == Lesser(canBuy, p.coll)
  IN  [pool |-> [p EXCEPT !.coll = @ - bought, !.fusd = @ + paid],
       bought |-> bought, left |-> fusd - paid]
SellUncapped(p, fusd, price, modifier) ==
  LET canBuy == Div(fusd, Mul(price, modifier))
  IN  [pool |-> [p EXCEPT !.coll = @ - canBuy, !.fusd = @ + fusd],
       bought |-> canBuy, left |-> 0]

\* buy_collateral_from_pool_internal.
Sell(p, fusd, price, modifier) ==
  LET canBuy == Div(fusd, Mul(price, modifier))
      fraction == Div(p.coll, canBuy)
      paid == IF fraction >= ONE THEN fusd ELSE Mul(fusd, fraction)
      bought == Lesser(canBuy, p.coll)
  IN  [pool |-> [p EXCEPT !.coll = @ - bought, !.fusd = @ + paid],
       bought |-> bought, left |-> fusd - paid]

CanSell(fusd, price, modifier) ==
  Mul(price, modifier) # 0 /\ Div(fusd, Mul(price, modifier)) # 0

\* A contribution buys as much of the pool's collateral as it needs to join in
\* the proportion of the pool's vaults, and keeps or returns what is over.
ContributeToPool(c, fusd, depositLeftover, price) ==
  LET p == pools[c]
      fee == Mul(fusd, poolParameters.percentageFee) + poolParameters.flatFee
      value == Mul(p.coll, price)
      modified == Mul(value, Modifier(c))
      toBuy == IF value > 0
               THEN Div(Mul(Mul(fusd, value), Modifier(c)), p.fusd + fusd + modified)
               ELSE 0
      sale == IF value > 0 THEN Sell(p, toBuy, price, Modifier(c))
                           ELSE [pool |-> p, bought |-> 0, left |-> 0]
      in == PoolContribute(sale.pool, sale.bought, fusd - fee - toBuy)
      keep == depositLeftover /\ value > 0
  IN  /\ value > 0 => p.fusd + fusd + modified # 0
      /\ fee + toBuy <= fusd
      /\ value > 0 => CanSell(toBuy, price, Modifier(c))
      /\ p.units > 0 => sale.pool.coll + sale.pool.fusd > 0
      /\ pools' = [pools EXCEPT ![c] =
                     IF keep
                     THEN [in.pool EXCEPT !.coll = @ + in.coll,
                                          !.fusd = @ + in.fusd + sale.left]
                     ELSE in.pool]
      /\ payoutVault' = payoutVault + fee
      /\ Receive((IF keep THEN 0 ELSE in.fusd + sale.left) - fusd)
      /\ hashed' = TRUE
      /\ joined' = joined \cup {c}
      /\ UNCHANGED <<vars, poolParameters, allowMultiple>>

WithdrawFromPool(c, share) ==
  LET units == Mul(pools[c].units, share)
      left == PoolRedeem(pools[c], units)
  IN  /\ units > 0
      /\ pools' = [pools EXCEPT ![c] = left]
      /\ Receive(pools[c].fusd - left.fusd)
      /\ UNCHANGED <<vars, payoutVault, poolParameters, allowMultiple, hashed, joined>>

BuyCollateralFromPool(c, fusd, price) ==
  LET sale == Sell(pools[c], fusd, price, Modifier(c))
  IN  /\ pools[c].setting.allowBuys
      /\ CanSell(fusd, price, Modifier(c))
      /\ sale.bought > 0
      /\ pools' = [pools EXCEPT ![c] = sale.pool]
      /\ Receive(sale.left - fusd)
      /\ UNCHANGED <<vars, payoutVault, poolParameters, allowMultiple, hashed, joined>>

-----------------------------------------------------------------------------
(* Interest.                                                               *)

MaxOf(history) ==
  IF history = <<>> THEN 0
  ELSE CHOOSE i \in {history[n] : n \in 1 .. Len(history)} :
         \A n \in 1 .. Len(history) : history[n] <= i

\* Fault: only a lower rate is recorded.
HistoryIfLower(p, lowest) ==
  IF p.history = <<>> \/ lowest < MaxOf(p.history) THEN Append(p.history, lowest)
                                                   ELSE p.history

\* The history after a charge that found this lowest rate: it is added when it
\* is higher than the last, or once the interval since the pool was created
\* has passed, and then the oldest goes if there are too many.
History(p, lowest) ==
  LET last == IF p.history = <<>> THEN 0 ELSE p.history[Len(p.history)]
      added == Append(p.history, lowest)
  IN  IF ~(now > p.created + poolParameters.interval \/ lowest > last) THEN p.history
      ELSE IF Len(added) > poolParameters.historyLength THEN Tail(added)
      ELSE added

\* The parts of an amount of interest for payouts and for liquidity rewards, by
\* the pool's splits or the defaults.
PayoutSplit(c) == OrDefault(pools[c].setting.payout, poolParameters.payout)
LiquiditySplit(c) == OrDefault(pools[c].setting.liquidity, poolParameters.liquidity)
SplitWeight(c) ==
  PayoutSplit(c) + LiquiditySplit(c) + OrDefault(pools[c].setting.pool, poolParameters.pool)

PayoutPart(c, amount) == Div(Mul(amount, PayoutSplit(c)), SplitWeight(c))
LiquidityPart(c, amount) == Div(Mul(amount, LiquiditySplit(c)), SplitWeight(c))

\* Fault: nobody checks what else the transaction did.
AlwaysAlone == TRUE

\* check_hash.
Alone == allowMultiple \/ ~hashed

\* What a charge collects is a bucket, which holds no negative amount.
ChargePoolInterest(c, range) ==
  /\ Alone
  /\ ChargeInterest(c, range, MaxOf(pools[c].history))
  /\ LET interest == held' - held
         payout == PayoutPart(c, interest)
         rewards == LiquidityPart(c, interest)
     IN  /\ 0 <= interest /\ SplitWeight(c) # 0
         /\ payoutVault' = payoutVault + payout
         /\ \E lowest \in Rates :
              /\ LowestInterest(flux, c, lowest)
              /\ pools' = [pools EXCEPT
                             ![c].history = History(pools[c], lowest),
                             ![c].rewards = @ + rewards,
                             ![c].fusd = @ + (interest - payout - rewards)]
  /\ UNCHANGED <<wallet, poolParameters, allowMultiple, hashed, joined>>

TakeLiquidityRewards(c) ==
  /\ pools[c].rewards > 0
  /\ pools' = [pools EXCEPT ![c].rewards = 0]
  /\ Receive(pools[c].rewards)
  /\ UNCHANGED <<vars, payoutVault, poolParameters, allowMultiple, hashed, joined>>

-----------------------------------------------------------------------------
(* Liquidation.                                                            *)

\* Fault: the liquidator's part of the payout, not of the profit.
LiquidatorFeeOfPayout(payout, worth) == Mul(poolParameters.liquidatorShare, payout)

\* What the caller of liquidate gets of the collateral paid out.
LiquidatorFee(payout, worth) ==
  LET profit == payout - worth
      flat == IF profit > 0 THEN Lesser(profit, poolParameters.liquidatorFlat) ELSE 0
  IN  IF profit > 0
      THEN flat + Lesser(profit - flat, Mul(poolParameters.liquidatorShare, profit - flat))
      ELSE 0

\* Liquidation with all the fUSD of the pool; what it does not take returns.  The
\* fee is taken from the bucket of the payout.
LiquidateWithPool(id, price) ==
  LET d == flux.cdps[id]
      c == d.collateral
      debt == PoolToRealDebt(flux, Tier(d), d.pool)
      worth == Div(d.amount, CrPercentage(WithPrice(flux, c, price), id))
      payout == d.amount - flux'.cdps[id].amount
  IN  /\ c \in DOMAIN pools
      /\ debt <= pools[c].fusd
      /\ Liquidate(id, price)
      /\ LiquidatorFee(payout, worth) \in 0 .. payout
      /\ pools' = [pools EXCEPT
                     ![c].fusd = @ - (held - held'),
                     ![c].coll = @ + payout - LiquidatorFee(payout, worth)]
      /\ UNCHANGED <<wallet, payoutVault, poolParameters, allowMultiple, hashed, joined>>

\* The loan is only marked, and the pool keeps the bucket with the fee.
MarkWithPool(id, price) ==
  LET c == flux.cdps[id].collateral
  IN  /\ c \in DOMAIN pools
      /\ MarkForLiquidation(id, price)
      /\ held <= held'
      /\ pools' = [pools EXCEPT ![c].fusd = @ + (held' - held)]
      /\ UNCHANGED <<wallet, payoutVault, poolParameters, allowMultiple, hashed, joined>>

-----------------------------------------------------------------------------
(* Settings.                                                               *)

\* new_pool, which the proxy calls for a collateral that it adds to Flux.
NewPool(c, setting) ==
  /\ c \notin DOMAIN pools
  /\ pools' = With(pools, c,
       [fusd |-> 0, coll |-> 0, units |-> 0, rewards |-> 0, history |-> <<>>,
        created |-> now, setting |-> setting])
  /\ UNCHANGED <<wallet, payoutVault, poolParameters, allowMultiple, hashed, joined>>

EditPool(c, setting) ==
  /\ pools' = [pools EXCEPT ![c].setting = setting]
  /\ UNCHANGED <<vars, wallet, payoutVault, poolParameters, allowMultiple, hashed, joined>>

SetParameters(s) ==
  /\ poolParameters' = [poolParameters EXCEPT
       !.payout = s.payout, !.liquidity = s.liquidity, !.pool = s.pool,
       !.modifier = s.modifier, !.flatFee = s.flatFee,
       !.percentageFee = s.percentageFee]
  /\ UNCHANGED <<vars, wallet, pools, payoutVault, allowMultiple, hashed, joined>>

\* set_panic_mode_parameters; module PanicMode has its other two arguments.
SetHistoryParameters(s) ==
  /\ poolParameters' = [poolParameters EXCEPT
       !.historyLength = s.length, !.interval = s.interval]
  /\ UNCHANGED <<vars, wallet, pools, payoutVault, allowMultiple, hashed, joined>>

SetAllowMultipleActions(allow) ==
  /\ allowMultiple' = allow
  /\ UNCHANGED <<vars, wallet, pools, payoutVault, poolParameters, hashed, joined>>

-----------------------------------------------------------------------------
PoolCall ==
  \/ \E c \in DOMAIN pools :
       \/ \E fusd \in Contributions, keep \in BOOLEAN, price \in Prices :
            ContributeToPool(c, fusd, keep, price)
       \/ \E share \in WithdrawnShares : WithdrawFromPool(c, share)
       \/ \E fusd \in Purchases, price \in Prices : BuyCollateralFromPool(c, fusd, price)
       \/ \E range \in ChargeRanges : ChargePoolInterest(c, range)
       \/ TakeLiquidityRewards(c)
  \/ \E id \in Loans, price \in Prices :
       LiquidateWithPool(id, price) \/ MarkWithPool(id, price)

PoolOwnerCall ==
  \/ \E c \in DOMAIN pools, setting \in PoolSettings : EditPool(c, setting)
  \/ \E s \in PoolParameterSettings : SetParameters(s)
  \/ \E s \in HistorySettings : SetHistoryParameters(s)
  \/ \E allow \in Allowances : SetAllowMultipleActions(allow)

=============================================================================
