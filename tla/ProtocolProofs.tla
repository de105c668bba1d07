---------------------------- MODULE ProtocolProofs ----------------------------
(***************************************************************************)
(* Flux, the stability pools, flash loans and payouts together: that every *)
(* fUSD in their vaults is owed, and that a charge of interest pays no     *)
(* newcomer, for all constants.                                            *)
(***************************************************************************)
EXTENDS PoolProofs, ProtocolProperties

-----------------------------------------------------------------------------
(* What the calls of a transaction make of Flux.                           *)

\* The calls that the proxy passes on for users.
LEMMA UserCallKept ==
  ASSUME AccountInv, UserCall
  PROVE  FluxKept
<1>1. /\ Ready(flux) /\ held \in Int /\ StateOK(flux) /\ now \in Nat
  BY TimeAssumption DEF AccountInv, Sound, Ready, IInv
<1>2. ASSUME NEW id \in Loans, CloseCdp(id)
      PROVE  FluxKept
  <2>1. StateOK(flux') /\ Step(flux, flux', id, held' - held) /\ held' \in Int
    BY SMTT(30), <1>1, <1>2, CloseOK, CloseStep
  <2>2. unbacked' = unbacked /\ now' = now
    BY <1>2 DEF CloseCdp
  <2> QED
    BY <2>1, <2>2, StepKept
<1>3. ASSUME NEW id \in Loans, RetrieveLeftoverCollateral(id)
      PROVE  FluxKept
  <2>1. StateOK(flux') /\ Step(flux, flux', id, held' - held) /\ held' \in Int
    BY <1>1, <1>3, RetrieveOK, RetrieveStep
  <2>2. unbacked' = unbacked /\ now' = now
    BY <1>3 DEF RetrieveLeftoverCollateral
  <2> QED
    BY <2>1, <2>2, StepKept
<1>4. ASSUME NEW id \in Loans, NEW i \in Interests, NEW b \in Registered \cup {Nobody},
             NEW price \in Prices, ChangeCdpInterest(id, i, b, price)
      PROVE  FluxKept
  <2>0. price \in Nat \ {0}
    BY <1>4, PriceAssumption
  <2>1. StateOK(flux') /\ Step(flux, flux', id, held' - held) /\ held' \in Int
    BY <1>1, <1>4, <2>0, ChangeCdpInterestOK, ChangeCdpInterestStep
  <2>2. unbacked' = unbacked /\ now' = now
    BY <1>4 DEF ChangeCdpInterest
  <2> QED
    BY <2>1, <2>2, StepKept
<1>5. ASSUME NEW c \in Listed, NEW deposit \in Deposits, NEW mint \in Mints, NEW i \in Interests,
             NEW b \in Registered \cup {Nobody}, NEW price \in Prices,
             OpenCdp(c, deposit, mint, i, b, price)
      PROVE  FluxKept
  <2>1. price \in Nat \ {0}
    BY PriceAssumption
  <2> QED
    BY <1>5, <2>1, OpenKept
<1> QED
  BY <1>2, <1>3, <1>4, <1>5 DEF UserCall

\* What a pool calls for its liquidations and charges.
LEMMA LiquidateKept ==
  ASSUME AccountInv, NEW id \in Loans, NEW price \in Prices,
         Liquidate(id, price) \/ MarkForLiquidation(id, price)
  PROVE  FluxKept
<1>1. /\ Ready(flux) /\ held \in Int /\ StateOK(flux) /\ now \in Nat
      /\ price \in Nat \ {0}
  BY TimeAssumption, PriceAssumption DEF AccountInv, Sound, Ready, IInv
<1>2. CASE Liquidate(id, price)
  <2>1. StateOK(flux') /\ Step(flux, flux', id, held' - held) /\ held' \in Int
    BY SMTT(30), <1>1, <1>2, LiquidateOK, LiquidateStep
  <2>2. unbacked' = unbacked /\ now' = now
    BY <1>2 DEF Liquidate
  <2> QED
    BY <2>1, <2>2, StepKept
<1>3. CASE MarkForLiquidation(id, price)
  <2>1. StateOK(flux') /\ Step(flux, flux', id, held' - held) /\ held' \in Int
    BY SMTT(30), <1>1, <1>3, MarkOK, MarkStep
  <2>2. unbacked' = unbacked /\ now' = now
    BY <1>3 DEF MarkForLiquidation
  <2> QED
    BY <2>1, <2>2, StepKept
<1> QED
  BY <1>2, <1>3

\* free_fusd and burn_fusd, whoever calls them: what they mint and burn is unbacked.
LEMMA FreeKept ==
  ASSUME AccountInv, NEW amount \in Nat, FreeFusd(amount) \/ BurnFusd(amount)
  PROVE  /\ AccountInv' /\ now' = now /\ Listed' = Listed
         /\ held' - held = unbacked' - unbacked /\ held' \in Int /\ unbacked' \in Int
         /\ FreeFusd(amount) => held' = held + amount
         /\ BurnFusd(amount) => held' = held - amount
<1>1. held \in Int /\ unbacked \in Int /\ Sound(flux, held - unbacked) /\ IInv
  BY DEF AccountInv
<1>2. /\ flux' = flux /\ now' = now /\ held' \in Int /\ unbacked' \in Int
      /\ held' - unbacked' = held - unbacked
      /\ held' - held = unbacked' - unbacked
  BY <1>1 DEF FreeFusd, BurnFusd
<1>3. now \in 0 .. MaxTime /\ now \in Nat /\ StateOK(flux')
  BY <1>1, <1>2, TimeAssumption DEF IInv
<1>4. StateOK(flux)'
  BY <1>2, <1>3, ClockKeeps
<1>5. IInv'
  BY <1>2, <1>3, <1>4 DEF IInv
<1>6. Sound(flux', held' - unbacked')
  BY <1>1, <1>2
<1>7. Sound(flux, held - unbacked)'
  BY <1>4, <1>6, SoundClock
<1>8. AccountInv'
  BY <1>2, <1>5, <1>7 DEF AccountInv
<1>9. Listed' = Listed
  BY <1>2 DEF Listed
<1> QED
  BY <1>2, <1>8, <1>9 DEF FreeFusd, BurnFusd

\* The owner's calls of the protocol, and the clock, are those of Flux.
LEMMA OwnerKept ==
  ASSUME AccountInv, Licensing
  PROVE  FluxKept /\ held' = held
<1>1. OwnerCall
  BY DEF Licensing, OwnerCall
<1>2. AccountInv'
  BY <1>1, AccountNext DEF Next
<1>3. held' = held /\ unbacked' = unbacked /\ now' = now /\ Listed' = Listed
  <2>1. DOMAIN flux = Fields
    BY DEF AccountInv, IInv, StateOK, WellTyped
  <2> QED
    BY <2>1 DEF Licensing, CreatePrivilegedBorrower, Listed, Fields
<1> QED
  BY <1>2, <1>3 DEF FluxKept, AccountInv

-----------------------------------------------------------------------------
(* The inductive invariant.                                                *)

\* The fUSD of each pool, with the rewards it keeps apart.
PoolFusd(P) == [c \in DOMAIN P |-> P[c].fusd + P[c].rewards]

\* What each outstanding receipt will burn.
Flashed(r) == [n \in DOMAIN r |-> r[n].amount]

\* What the pools do not keep.
OthersTyped ==
  /\ flash \in [interest : Nat, enabled : BOOLEAN, vault : Nat]
  /\ receipts \in Seq([amount : Nat, interest : Nat])
  /\ payout \in [fusd : Nat, payments : 0 .. MaxPayments, required : Nat \ {0},
                 burn : BOOLEAN]

CallTyped == PoolsReady /\ OthersTyped

\* What Flux counts as held outside it is in a vault or with a user, and what it
\* counts as unbacked is what receipts will burn.
FusdPlaced ==
  held = wallet + SumFunction(PoolFusd(pools)) + payoutVault + payout.fusd + flash.vault
FlashBacked == unbacked = SumFunction(Flashed(receipts))

CallInv == AccountInv /\ CallTyped /\ FusdPlaced /\ FlashBacked

ProtocolInv == CallInv /\ edits \in 0 .. MaxEdits

-----------------------------------------------------------------------------
(* One pool changes.                                                       *)

\* There are finitely many pools, and each holds a whole number of units of fUSD.
LEMMA PoolsFinite ==
  ASSUME AccountInv, CallTyped
  PROVE  IntFunction(PoolFusd(pools)) /\ SumFunction(PoolFusd(pools)) \in Int
<1>1. IsFiniteSet(DOMAIN pools)
  BY DEF AccountInv, Sound, Ready, Accounted, Shaped, CallTyped, PoolsReady, PoolsTyped, Listed
<1>2. \A c \in DOMAIN pools : pools[c].fusd \in Nat /\ pools[c].rewards \in Nat
  BY DEF CallTyped, PoolsReady, PoolsTyped, Pool
<1>3. IntFunction(PoolFusd(pools))
  BY <1>1, <1>2 DEF IntFunction, PoolFusd
<1> QED
  BY <1>3, SumFunctionType

\* The sum of all pools moves by what the vaults of the pool move.
LEMMA OnePool ==
  ASSUME AccountInv, CallTyped, NEW c \in DOMAIN pools, NEW q \in Pool, q.created <= now,
         pools' = [pools EXCEPT ![c] = q], now' = now, Listed' = Listed
  PROVE  /\ PoolsTyped' /\ DOMAIN pools' = DOMAIN pools
         /\ SumFunction(PoolFusd(pools')) =
              SumFunction(PoolFusd(pools)) - (pools[c].fusd + pools[c].rewards)
                + (q.fusd + q.rewards)
<1> DEFINE f == PoolFusd(pools)
           g == PoolFusd(pools')
<1>1. /\ \A x \in DOMAIN pools : pools[x] \in Pool /\ pools[x].created <= now
      /\ DOMAIN pools = Listed
  BY DEF CallTyped, PoolsReady, PoolsTyped
<1>2. DOMAIN pools' = DOMAIN pools /\ pools'[c] = q
      /\ \A x \in DOMAIN pools \ {c} : pools'[x] = pools[x]
  OBVIOUS
<1>3. IntFunction(f)
  BY PoolsFinite
<1>4. DOMAIN f = DOMAIN pools /\ DOMAIN g = DOMAIN pools
      /\ (\A x \in DOMAIN pools : f[x] = pools[x].fusd + pools[x].rewards)
      /\ (\A x \in DOMAIN pools : g[x] = pools'[x].fusd + pools'[x].rewards)
  BY <1>2 DEF PoolFusd
<1>5. q.fusd \in Nat /\ q.rewards \in Nat
  BY DEF Pool
<1> HIDE DEF f, g
<1>6. SameBut(f, g, c)
  BY <1>2, <1>4 DEF SameBut
<1>7. IntFunction(g)
  <2>1. \A x \in DOMAIN pools : g[x] \in Int
    BY <1>2, <1>3, <1>4, <1>5 DEF IntFunction
  <2> QED
    BY <1>3, <1>4, <2>1 DEF IntFunction
<1>8. SumFunction(g) = SumFunction(f) - Term(f, c) + Term(g, c)
  BY <1>3, <1>6, <1>7, SumChange
<1>9. Term(f, c) = pools[c].fusd + pools[c].rewards /\ Term(g, c) = q.fusd + q.rewards
  BY <1>2, <1>4 DEF Term
<1>10. PoolsTyped'
  <2>1. \A x \in DOMAIN pools' : pools'[x] \in Pool /\ pools'[x].created <= now
    BY <1>1, <1>2
  <2>2. DOMAIN pools' = Listed'
    BY <1>1, <1>2
  <2>3. now' = now
    OBVIOUS
  <2> HIDE DEF f, g
  <2> QED
    BY <2>1, <2>2, <2>3 DEF PoolsTyped, Pool
<1> QED
  BY <1>2, <1>8, <1>9, <1>10 DEF f, g

\* A call on one pool moves to or from users and the vault for payouts what the
\* pool and Flux lose or gain.
OnePoolCall(c, q) == PoolReplaced(c, q) /\ UNCHANGED <<flash, receipts, payout>>

\* So it keeps the invariant.
LEMMA OnePoolKept ==
  ASSUME CallInv, FluxKept, NEW c \in DOMAIN pools, NEW q \in Pool, OnePoolCall(c, q)
  PROVE  CallInv'
<1>0. /\ q.created <= now /\ pools' = [pools EXCEPT ![c] = q]
      /\ wallet' \in Nat /\ payoutVault' \in Nat
      /\ poolParameters' = poolParameters /\ allowMultiple' = allowMultiple
      /\ flash' = flash /\ receipts' = receipts /\ payout' = payout
      /\ hashed' \in BOOLEAN /\ joined' \subseteq DOMAIN pools /\ (joined' # {} => hashed')
      /\ held' - held = (wallet' - wallet) + (payoutVault' - payoutVault)
                        + ((q.fusd + q.rewards) - (pools[c].fusd + pools[c].rewards))
  BY DEF OnePoolCall, PoolReplaced
<1>1. AccountInv' /\ held' \in Int /\ unbacked' = unbacked /\ now' = now /\ Listed' = Listed
  BY DEF FluxKept
<1>2. AccountInv /\ CallTyped /\ FusdPlaced /\ FlashBacked
  BY DEF CallInv
<1>3. /\ PoolsTyped' /\ DOMAIN pools' = DOMAIN pools
      /\ SumFunction(PoolFusd(pools')) =
              SumFunction(PoolFusd(pools)) - (pools[c].fusd + pools[c].rewards)
                + (q.fusd + q.rewards)
  BY <1>0, <1>1, <1>2, OnePool
<1>4. CallTyped'
  <2>1. OthersTyped'
    BY <1>0, <1>2 DEF CallTyped, PoolsReady, OthersTyped
  <2> QED
    BY <1>0, <1>2, <1>3, <2>1 DEF CallTyped, PoolsReady
<1>5. FusdPlaced'
  <2> DEFINE s == SumFunction(PoolFusd(pools))
             t == SumFunction(PoolFusd(pools'))
             x == pools[c].fusd + pools[c].rewards
             y == q.fusd + q.rewards
  <2>1. s \in Int
    BY <1>2, PoolsFinite
  <2>2. x \in Int /\ y \in Int
    <3>1. pools[c] \in Pool
      BY <1>2 DEF CallTyped, PoolsReady, PoolsTyped
    <3> QED
      BY <3>1 DEF Pool
  <2>3. /\ t = s - x + y /\ held = wallet + s + payoutVault + payout.fusd + flash.vault
        /\ held' - held = (wallet' - wallet) + (payoutVault' - payoutVault) + (y - x)
    BY <1>0, <1>2, <1>3 DEF FusdPlaced
  <2>4. wallet \in Int /\ payoutVault \in Int /\ payout.fusd \in Int /\ flash.vault \in Int
        /\ held \in Int /\ wallet' \in Int /\ payoutVault' \in Int
    BY <1>0, <1>2 DEF CallTyped, PoolsReady, OthersTyped, AccountInv
  <2> HIDE DEF s, t, x, y
  <2>5. held' = wallet' + t + payoutVault' + payout.fusd + flash.vault
    BY <1>1, <2>1, <2>2, <2>3, <2>4
  <2> QED
    BY <1>0, <2>5 DEF FusdPlaced, t
<1>6. FlashBacked'
  BY <1>0, <1>1, <1>2 DEF FlashBacked
<1> QED
  BY <1>1, <1>4, <1>5, <1>6 DEF CallInv

\* What holds of a pool, the users' fUSD and the two vaults before a call.
LEMMA BeforeCall ==
  ASSUME CallInv, NEW c \in DOMAIN pools
  PROVE  /\ pools[c] \in Pool /\ pools[c].created <= now
         /\ pools[c].fusd \in Nat /\ pools[c].coll \in Nat /\ pools[c].units \in Nat
         /\ pools[c].rewards \in Nat /\ wallet \in Nat /\ payoutVault \in Nat
         /\ hashed \in BOOLEAN /\ joined \subseteq DOMAIN pools /\ (joined # {} => hashed)
         /\ poolParameters \in PoolParameters /\ AccountInv /\ CallTyped
<1>1. pools[c] \in Pool /\ pools[c].created <= now
  BY DEF CallInv, CallTyped, PoolsReady, PoolsTyped
<1>2. pools[c].fusd \in Nat /\ pools[c].coll \in Nat /\ pools[c].units \in Nat
      /\ pools[c].rewards \in Nat
  BY <1>1 DEF Pool
<1> QED
  BY <1>1, <1>2 DEF CallInv, CallTyped, PoolsReady

-----------------------------------------------------------------------------
-----------------------------------------------------------------------------
(* Every call of the pools.                                                *)

\* withdraw_from_pool pays out what it takes from the pool.
LEMMA WithdrawKeeps ==
  ASSUME CallInv, NEW c \in DOMAIN pools, NEW share \in WithdrawnShares,
         WithdrawFromPool(c, share), UNCHANGED <<flash, receipts, payout>>
  PROVE  CallInv'
<1> DEFINE p == pools[c]
           units == Mul(p.units, share)
           q == PoolRedeem(p, units)
<1>1. /\ p \in Pool /\ p.created <= now /\ p.fusd \in Nat /\ p.units \in Nat
      /\ p.rewards \in Nat /\ wallet \in Nat
  BY BeforeCall
<1>2. units > 0 /\ pools' = [pools EXCEPT ![c] = q] /\ Receive(p.fusd - q.fusd)
      /\ UNCHANGED <<vars, payoutVault, poolParameters, allowMultiple, hashed, joined>>
  BY DEF WithdrawFromPool
<1>3. units \in 1 .. p.units
  <2>1. units \in Nat /\ units <= p.units
    BY <1>1, MulShare, PoolAssumption
  <2> QED
    BY <1>2, <2>1
<1> HIDE DEF units, p
<1>4. q \in Pool /\ q.fusd \in 0 .. p.fusd /\ q.rewards = p.rewards /\ q.created = p.created
  BY <1>1, <1>3, UnitsRedeemed
<1> HIDE DEF q
<1>5. FluxKept /\ held' = held /\ held \in Int
  BY <1>2, NothingKept DEF CallInv, AccountInv
<1>6. wallet' = wallet + (p.fusd - q.fusd) /\ wallet' \in Nat
  BY <1>1, <1>2, <1>4 DEF Receive
<1>7. payoutVault' = payoutVault /\ payoutVault \in Nat /\ hashed' = hashed /\ joined' = joined
      /\ UNCHANGED <<poolParameters, allowMultiple, flash, receipts, payout>>
      /\ hashed \in BOOLEAN /\ joined \subseteq DOMAIN pools /\ (joined # {} => hashed)
  BY <1>2, BeforeCall
<1>8. held' - held = (wallet' - wallet) + (payoutVault' - payoutVault)
                        + ((q.fusd + q.rewards) - (pools[c].fusd + pools[c].rewards))
  BY <1>1, <1>4, <1>5, <1>6, <1>7 DEF p
<1>9. q.created <= now
  BY <1>1, <1>4
<1>10. OnePoolCall(c, q)
  BY <1>2, <1>4, <1>5, <1>6, <1>7, <1>8, <1>9 DEF OnePoolCall, PoolReplaced
<1> QED
  BY <1>4, <1>5, <1>10, OnePoolKept

\* buy_collateral_from_pool puts into the pool what the buyer pays.
LEMMA BuyKeeps ==
  ASSUME CallInv, NEW c \in DOMAIN pools, NEW fusd \in Purchases, NEW price \in Prices,
         BuyCollateralFromPool(c, fusd, price), UNCHANGED <<flash, receipts, payout>>
  PROVE  CallInv'
<1> DEFINE p == pools[c]
           modifier == Modifier(c)
           sale == Sell(p, fusd, price, modifier)
           q == sale.pool
<1>1. /\ p \in Pool /\ p.created <= now /\ p.fusd \in Nat /\ p.units \in Nat
      /\ p.rewards \in Nat /\ wallet \in Nat /\ CallTyped
  BY BeforeCall
<1>2. /\ CanSell(fusd, price, modifier) /\ pools' = [pools EXCEPT ![c] = q]
      /\ Receive(sale.left - fusd)
      /\ UNCHANGED <<vars, payoutVault, poolParameters, allowMultiple, hashed, joined>>
  BY DEF BuyCollateralFromPool
<1>3. modifier \in Nat /\ fusd \in Nat /\ price \in Nat
  BY <1>1, SettingNat, PoolAssumption, PriceAssumption DEF CallTyped
<1> HIDE DEF modifier, p
<1>4. /\ sale.left \in 0 .. fusd /\ q \in Pool /\ q.rewards = p.rewards
      /\ q.created = p.created /\ q.fusd = p.fusd + (fusd - sale.left)
  BY <1>1, <1>2, <1>3, SellOK
<1> DEFINE left == sale.left
<1> HIDE DEF sale, q
<1>5. FluxKept /\ held' = held /\ held \in Int
  BY <1>2, NothingKept DEF CallInv, AccountInv
<1>6. wallet' = wallet + (left - fusd) /\ wallet' \in Nat /\ left \in Nat
      /\ q.fusd = p.fusd + (fusd - left)
  <2>1. left \in 0 .. fusd
    BY <1>4
  <2> QED
    BY <1>1, <1>2, <1>3, <1>4, <2>1 DEF Receive
<1> HIDE DEF left
<1>7. payoutVault' = payoutVault /\ payoutVault \in Nat /\ hashed' = hashed /\ joined' = joined
      /\ UNCHANGED <<poolParameters, allowMultiple, flash, receipts, payout>>
      /\ hashed \in BOOLEAN /\ joined \subseteq DOMAIN pools /\ (joined # {} => hashed)
  BY <1>2, BeforeCall
<1>8. held' - held = (wallet' - wallet) + (payoutVault' - payoutVault)
                        + ((q.fusd + q.rewards) - (pools[c].fusd + pools[c].rewards))
  BY <1>1, <1>3, <1>4, <1>5, <1>6, <1>7 DEF p
<1>9. q.created <= now
  BY <1>1, <1>4
<1>10. OnePoolCall(c, q)
  BY <1>2, <1>4, <1>5, <1>6, <1>7, <1>8, <1>9 DEF OnePoolCall, PoolReplaced
<1> QED
  BY <1>4, <1>5, <1>10, OnePoolKept

\* take_liquidity_rewards empties the rewards of one pool.
LEMMA RewardsKeep ==
  ASSUME CallInv, NEW c \in DOMAIN pools, TakeLiquidityRewards(c),
         UNCHANGED <<flash, receipts, payout>>
  PROVE  CallInv'
<1> DEFINE p == pools[c]
           q == [p EXCEPT !.rewards = 0]
<1>1. /\ p \in Pool /\ p.created <= now /\ p.fusd \in Nat /\ p.units \in Nat
      /\ p.rewards \in Nat /\ wallet \in Nat
  BY BeforeCall
<1>2. pools' = [pools EXCEPT ![c] = q] /\ Receive(p.rewards)
      /\ UNCHANGED <<vars, payoutVault, poolParameters, allowMultiple, hashed, joined>>
  BY DEF TakeLiquidityRewards
<1> HIDE DEF p
<1>3. q \in Pool /\ q.fusd = p.fusd /\ q.rewards = 0 /\ q.created = p.created
  BY <1>1 DEF Pool
<1> HIDE DEF q
<1>4. FluxKept /\ held' = held /\ held \in Int
  BY <1>2, NothingKept DEF CallInv, AccountInv
<1>5. wallet' = wallet + p.rewards /\ wallet' \in Nat
  BY <1>1, <1>2 DEF Receive
<1>6. payoutVault' = payoutVault /\ payoutVault \in Nat /\ hashed' = hashed /\ joined' = joined
      /\ UNCHANGED <<poolParameters, allowMultiple, flash, receipts, payout>>
      /\ hashed \in BOOLEAN /\ joined \subseteq DOMAIN pools /\ (joined # {} => hashed)
  BY <1>2, BeforeCall
<1>7. held' - held = (wallet' - wallet) + (payoutVault' - payoutVault)
                        + ((q.fusd + q.rewards) - (pools[c].fusd + pools[c].rewards))
  BY <1>1, <1>3, <1>4, <1>5, <1>6 DEF p
<1>8. q.created <= now
  BY <1>1, <1>3
<1>9. OnePoolCall(c, q)
  BY <1>2, <1>3, <1>4, <1>5, <1>6, <1>7, <1>8 DEF OnePoolCall, PoolReplaced
<1> QED
  BY <1>3, <1>4, <1>9, OnePoolKept

\* edit_pool moves no fUSD.
LEMMA EditPoolKeeps ==
  ASSUME CallInv, NEW c \in DOMAIN pools, NEW setting \in PoolSettings, EditPool(c, setting),
         UNCHANGED <<flash, receipts, payout>>
  PROVE  CallInv'
<1> DEFINE p == pools[c]
           q == [p EXCEPT !.setting = setting]
<1>1. /\ p \in Pool /\ p.created <= now /\ p.fusd \in Nat /\ p.units \in Nat
      /\ p.rewards \in Nat /\ wallet \in Nat /\ setting \in Setting
  BY BeforeCall, PoolAssumption
<1>2. pools' = [pools EXCEPT ![c] = q]
      /\ UNCHANGED <<vars, wallet, payoutVault, poolParameters, allowMultiple, hashed, joined>>
  BY DEF EditPool
<1> HIDE DEF p
<1>3. q \in Pool /\ q.fusd = p.fusd /\ q.rewards = p.rewards /\ q.created = p.created
  BY <1>1 DEF Pool
<1> HIDE DEF q
<1>4. FluxKept /\ held' = held /\ held \in Int
  BY <1>2, NothingKept DEF CallInv, AccountInv
<1>5. wallet' = wallet /\ payoutVault' = payoutVault /\ payoutVault \in Nat
      /\ hashed' = hashed /\ joined' = joined
      /\ UNCHANGED <<poolParameters, allowMultiple, flash, receipts, payout>>
      /\ hashed \in BOOLEAN /\ joined \subseteq DOMAIN pools /\ (joined # {} => hashed)
  BY <1>2, BeforeCall
<1>6. held' - held = (wallet' - wallet) + (payoutVault' - payoutVault)
                        + ((q.fusd + q.rewards) - (pools[c].fusd + pools[c].rewards))
  BY <1>1, <1>3, <1>4, <1>5 DEF p
<1>7. q.created <= now
  BY <1>1, <1>3
<1>8. OnePoolCall(c, q)
  BY <1>1, <1>2, <1>3, <1>4, <1>5, <1>6, <1>7 DEF OnePoolCall, PoolReplaced
<1> QED
  BY <1>3, <1>4, <1>8, OnePoolKept

\* contribute_to_pool splits the payment into fee, pool and change.
LEMMA ContributeKeeps ==
  ASSUME CallInv, NEW c \in DOMAIN pools, NEW fusd \in Contributions, NEW leftover \in BOOLEAN,
         NEW price \in Prices, ContributeToPool(c, fusd, leftover, price),
         UNCHANGED <<flash, receipts, payout>>
  PROVE  CallInv'
<1>1. price \in Nat /\ AccountInv /\ PoolsReady
  BY PriceAssumption DEF CallInv, CallTyped, PoolsReady
<1>2. FluxKept /\ \E q \in Pool : PoolReplaced(c, q)
  BY <1>1, ContributeReplaces
<1> QED
  BY <1>2, OnePoolKept DEF OnePoolCall, PoolReplaced

\* charge_interest of the pools splits what Flux minted and leaves nothing over.
LEMMA ChargeKeeps ==
  ASSUME CallInv, NEW c \in DOMAIN pools, NEW range, ChargePoolInterest(c, range),
         UNCHANGED <<flash, receipts, payout>>
  PROVE  CallInv'
<1>1. AccountInv /\ PoolsReady
  BY DEF CallInv, CallTyped, PoolsReady
<1>2. FluxKept /\ \E q \in Pool : PoolReplaced(c, q)
  BY <1>1, ChargeReplaces
<1> QED
  BY <1>2, OnePoolKept DEF OnePoolCall, PoolReplaced

\* The two ways in which a pool moves its own fUSD by a call on Flux.
LEMMA LiquidationKeeps ==
  ASSUME CallInv, NEW id \in Loans, NEW price \in Prices, LiquidateWithPool(id, price),
         UNCHANGED <<flash, receipts, payout>>
  PROVE  CallInv'
<1> DEFINE d == flux.cdps[id]
           c == d.collateral
           p == pools[c]
           debt == PoolToRealDebt(flux, Tier(d), d.pool)
           taken == d.amount - flux'.cdps[id].amount
           worth == Div(d.amount, CrPercentage(WithPrice(flux, c, price), id))
           fee == LiquidatorFee(taken, worth)
           q == [p EXCEPT !.fusd = @ - (held - held'), !.coll = @ + taken - fee]
<1>1. /\ c \in DOMAIN pools /\ debt <= p.fusd /\ Liquidate(id, price) /\ fee \in 0 .. taken
      /\ pools' = [pools EXCEPT ![c].fusd = @ - (held - held'), ![c].coll = @ + taken - fee]
      /\ UNCHANGED <<wallet, payoutVault, poolParameters, allowMultiple, hashed, joined>>
  BY DEF LiquidateWithPool
<1>2. /\ p \in Pool /\ p.created <= now /\ p.fusd \in Nat /\ p.coll \in Nat /\ p.rewards \in Nat
      /\ wallet \in Nat /\ payoutVault \in Nat /\ hashed \in BOOLEAN
      /\ joined \subseteq DOMAIN pools /\ (joined # {} => hashed) /\ CallTyped /\ AccountInv
  BY <1>1, BeforeCall
<1>3. FluxKept /\ held \in Int /\ held' \in Int
  <2>1. FluxKept
    BY <1>1, <1>2, LiquidateKept
  <2> QED
    BY <1>2, <2>1 DEF FluxKept, AccountInv
<1>4. held' = held - debt
  <2>1. WithPrice(flux, c, price).tiers = flux.tiers
    <3>1. DOMAIN flux = Fields
      BY <1>2 DEF AccountInv, IInv, StateOK, WellTyped
    <3> QED
      BY <3>1 DEF WithPrice, Fields
  <2>2. PoolToRealDebt(WithPrice(flux, c, price), Tier(d), d.pool) = debt
    BY SMTT(30), <2>1 DEF PoolToRealDebt, DebtMultiplier
  <2>3. held' = held - PoolToRealDebt(WithPrice(flux, c, price), Tier(d), d.pool)
    BY <1>1 DEF Liquidate
  <2> QED
    BY <2>2, <2>3
<1>5. debt \in Int
  <2>1. WellTyped(flux) /\ d.pool \in Int
    BY <1>2 DEF AccountInv, IInv, StateOK, WellTyped, Cdp, Loans
  <2> QED
    BY <2>1, PoolToRealInt
<1>6. taken \in Int
  <2>1. flux'.cdps[id].amount \in Int
    <3>1. Ready(flux) /\ now \in Nat /\ held \in Int /\ price \in Nat \ {0}
      BY <1>2, TimeAssumption, PriceAssumption DEF AccountInv, Sound, IInv
    <3> QED
      BY <1>1, <3>1, LiquidateStep
  <2>2. d.amount \in Int
    BY <1>2 DEF AccountInv, IInv, StateOK, WellTyped, Cdp, Loans
  <2> QED
    BY <2>1, <2>2
<1>7. pools' = [pools EXCEPT ![c] = q]
  BY <1>1
<1> HIDE DEF debt, taken, fee, p, c
<1>8. /\ q \in Pool /\ q.fusd = p.fusd + (held' - held) /\ q.rewards = p.rewards
      /\ q.created = p.created
  <2>1. /\ p.fusd - (held - held') \in Nat /\ p.coll + taken - fee \in Nat
        /\ p.fusd - (held - held') = p.fusd + (held' - held)
    BY <1>1, <1>2, <1>3, <1>4, <1>5, <1>6
  <2> QED
    BY <1>2, <2>1 DEF Pool
<1> HIDE DEF q
<1>9. held' - held = (wallet' - wallet) + (payoutVault' - payoutVault)
                        + ((q.fusd + q.rewards) - (pools[c].fusd + pools[c].rewards))
  BY <1>1, <1>2, <1>3, <1>8 DEF p
<1>10. q.created <= now
  BY <1>2, <1>8
<1>11. OnePoolCall(c, q)
  BY <1>1, <1>2, <1>7, <1>9, <1>10 DEF OnePoolCall, PoolReplaced
<1> QED
  BY <1>1, <1>3, <1>8, <1>11, OnePoolKept

\* A loan that is only marked leaves its fee to the pool.
LEMMA MarkKeeps ==
  ASSUME CallInv, NEW id \in Loans, NEW price \in Prices, MarkWithPool(id, price),
         UNCHANGED <<flash, receipts, payout>>
  PROVE  CallInv'
<1> DEFINE c == flux.cdps[id].collateral
           p == pools[c]
           fee == held' - held
           q == [p EXCEPT !.fusd = @ + fee]
<1>1. /\ c \in DOMAIN pools /\ MarkForLiquidation(id, price) /\ held <= held'
      /\ pools' = [pools EXCEPT ![c].fusd = @ + (held' - held)]
      /\ UNCHANGED <<wallet, payoutVault, poolParameters, allowMultiple, hashed, joined>>
  BY DEF MarkWithPool
<1>2. /\ p \in Pool /\ p.created <= now /\ p.fusd \in Nat /\ p.coll \in Nat /\ p.rewards \in Nat
      /\ wallet \in Nat /\ payoutVault \in Nat /\ hashed \in BOOLEAN
      /\ joined \subseteq DOMAIN pools /\ (joined # {} => hashed) /\ CallTyped /\ AccountInv
  BY <1>1, BeforeCall
<1>3. FluxKept /\ held \in Int /\ held' \in Int
  <2>1. FluxKept
    BY <1>1, <1>2, LiquidateKept
  <2> QED
    BY <1>2, <2>1 DEF FluxKept, AccountInv
<1>4. fee \in Nat
  <2>1. \A a, b \in Int : b <= a => a - b \in Nat
    OBVIOUS
  <2> QED
    BY <1>1, <1>3, <2>1
<1>5. pools' = [pools EXCEPT ![c] = q]
  BY <1>1
<1>6. fee = held' - held
  OBVIOUS
<1> HIDE DEF fee, p, c
<1>7. q \in Pool /\ q.fusd = p.fusd + fee /\ q.rewards = p.rewards /\ q.created = p.created
  <2>1. p.fusd + fee \in Nat
    BY <1>2, <1>4
  <2> QED
    BY <1>2, <2>1 DEF Pool
<1> HIDE DEF q
<1>8. held' - held = (wallet' - wallet) + (payoutVault' - payoutVault)
                        + ((q.fusd + q.rewards) - (pools[c].fusd + pools[c].rewards))
  BY <1>1, <1>2, <1>4, <1>6, <1>7 DEF p
<1>9. q.created <= now
  BY <1>2, <1>7
<1>10. OnePoolCall(c, q)
  BY <1>1, <1>2, <1>5, <1>8, <1>9 DEF OnePoolCall, PoolReplaced
<1> QED
  BY <1>1, <1>3, <1>7, <1>10, OnePoolKept

\* new_pool, by which the proxy completes a listing: its pool starts empty.
LEMMA ListingKeeps ==
  ASSUME CallInv, Listing, UNCHANGED <<flash, receipts, payout>>
  PROVE  CallInv'
<1>1. PICK c \in Collaterals, mcr \in Mcrs, price \in Prices, setting \in PoolSettings :
        NewCollateral(c, mcr, price) /\ NewPool(c, setting)
  BY Zenon DEF Listing
<1> DEFINE q == [fusd |-> 0, coll |-> 0, units |-> 0, rewards |-> 0, history |-> <<>>,
                 created |-> now, setting |-> setting]
<1>2. AccountInv /\ CallTyped /\ FusdPlaced /\ FlashBacked
  BY DEF CallInv
<1>3. /\ AccountInv' /\ held' = held /\ unbacked' = unbacked /\ now' = now
      /\ Listed' = Listed \cup {c} /\ c \notin Listed
  BY <1>1, <1>2, ListingKept
<1>4. /\ pools' = With(pools, c, q)
      /\ UNCHANGED <<wallet, payoutVault, poolParameters, allowMultiple, hashed, joined>>
  BY <1>1 DEF NewPool
<1>5. q \in Pool /\ q.fusd = 0 /\ q.rewards = 0 /\ q.created = now
  <2>1. now \in 0 .. MaxTime /\ setting \in Setting /\ <<>> \in Seq(Rates)
    BY <1>2, PoolAssumption DEF AccountInv, IInv
  <2> QED
    BY <2>1 DEF Pool
<1> HIDE DEF q
<1>6. /\ DOMAIN pools' = DOMAIN pools \cup {c} /\ pools'[c] = q /\ c \notin DOMAIN pools
      /\ \A x \in DOMAIN pools : pools'[x] = pools[x]
      /\ \A x \in DOMAIN pools : pools[x] \in Pool /\ pools[x].created <= now
      /\ DOMAIN pools = Listed
  BY <1>2, <1>3, <1>4 DEF With, CallTyped, PoolsReady, PoolsTyped
<1>7. PoolsTyped'
  <2>1. DOMAIN pools' = Listed'
    BY <1>3, <1>6
  <2>2. \A x \in DOMAIN pools' : pools'[x] \in Pool /\ pools'[x].created <= now
    <3>1. now <= now
      BY <1>2, TimeAssumption DEF AccountInv, IInv
    <3> QED
      BY <1>5, <1>6, <3>1
  <2> QED
    BY <1>3, <2>1, <2>2 DEF PoolsTyped, Pool
<1>8. SumFunction(PoolFusd(pools')) = SumFunction(PoolFusd(pools))
  <2> DEFINE f == PoolFusd(pools)
             g == PoolFusd(pools')
  <2>1. IntFunction(f) /\ SumFunction(f) \in Int
    BY <1>2, PoolsFinite
  <2>2. /\ DOMAIN f = DOMAIN pools /\ DOMAIN g = DOMAIN pools \cup {c}
        /\ \A x \in DOMAIN pools : g[x] = f[x]
        /\ g[c] = 0
    BY <1>5, <1>6 DEF PoolFusd
  <2> HIDE DEF f, g
  <2>3. IntFunction(g)
    <3>1. IsFiniteSet(DOMAIN g)
      BY <2>1, <2>2, FS_AddElement DEF IntFunction
    <3> QED
      BY <2>1, <2>2, <3>1 DEF IntFunction
  <2>4. SameBut(f, g, c)
    BY <1>6, <2>2 DEF SameBut
  <2>5. SumFunction(g) = SumFunction(f) - Term(f, c) + Term(g, c)
    BY <2>1, <2>3, <2>4, SumChange
  <2>6. Term(f, c) = 0 /\ Term(g, c) = 0
    BY <1>6, <2>2 DEF Term
  <2>7. SumFunction(g) = SumFunction(f)
    BY <2>1, <2>5, <2>6
  <2> QED
    BY <2>7 DEF f, g
<1>9. CallTyped'
  <2>1. OthersTyped'
    BY <1>2 DEF CallTyped, PoolsReady, OthersTyped
  <2> QED
    BY <1>2, <1>4, <1>6, <1>7, <2>1 DEF CallTyped, PoolsReady
<1>10. FusdPlaced'
  BY <1>2, <1>3, <1>4, <1>8 DEF FusdPlaced
<1>11. FlashBacked'
  BY <1>2, <1>3 DEF FlashBacked
<1> QED
  BY <1>3, <1>9, <1>10, <1>11 DEF CallInv

-----------------------------------------------------------------------------
(* Calls that leave every pool alone.                                      *)

\* Users, the other vaults and Flux gain together what they lose together.
Moved ==
  /\ AccountInv' /\ Listed' = Listed /\ now <= now' /\ pools' = pools
  /\ wallet' \in Nat /\ payoutVault' \in Nat
  /\ poolParameters' \in PoolParameters
  /\ allowMultiple' \in BOOLEAN /\ hashed' \in BOOLEAN
  /\ joined' \subseteq DOMAIN pools /\ (joined' # {} => hashed')
  /\ OthersTyped'
  /\ held' - held = (wallet' - wallet) + (payoutVault' - payoutVault)
                    + (payout'.fusd - payout.fusd) + (flash'.vault - flash.vault)
  /\ FlashBacked'

\* fUSD that moves between the other vaults stays placed.
LEMMA MovedKeeps ==
  ASSUME CallInv, Moved
  PROVE  CallInv'
<1>1. AccountInv /\ CallTyped /\ FusdPlaced
  BY DEF CallInv
<1>2. AccountInv' /\ FlashBacked' /\ OthersTyped' /\ Listed' = Listed /\ pools' = pools
      /\ wallet' \in Nat /\ payoutVault' \in Nat
  BY DEF Moved
<1>3. PoolsTyped'
  <2>1. DOMAIN pools' = Listed'
    BY <1>1, <1>2 DEF CallTyped, PoolsReady, PoolsTyped
  <2>2. now \in Nat /\ now' \in Nat /\ now <= now'
    BY <1>1, <1>2, TimeAssumption DEF AccountInv, IInv, Moved
  <2>3. \A x \in DOMAIN pools : pools[x] \in Pool /\ pools[x].created <= now
                                /\ pools[x].created \in Nat
    BY <1>1, TimeAssumption DEF CallTyped, PoolsReady, PoolsTyped, Pool
  <2>4. \A x \in DOMAIN pools : pools[x] \in Pool /\ pools[x].created <= now'
    BY <2>2, <2>3
  <2> QED
    BY <1>2, <2>1, <2>4 DEF PoolsTyped, Pool
<1>4. CallTyped'
  BY <1>2, <1>3 DEF CallTyped, PoolsReady, Moved
<1>5. FusdPlaced'
  <2> DEFINE s == SumFunction(PoolFusd(pools))
             a == payout.fusd
             b == payout'.fusd
             x == flash.vault
             y == flash'.vault
  <2>1. s \in Int
    BY <1>1, PoolsFinite
  <2>2. a \in Int /\ x \in Int /\ wallet \in Int /\ payoutVault \in Int /\ held \in Int
    BY <1>1 DEF CallTyped, PoolsReady, OthersTyped, AccountInv
  <2>3. b \in Int /\ y \in Int /\ held' \in Int /\ wallet' \in Int /\ payoutVault' \in Int
    BY <1>2 DEF OthersTyped, AccountInv
  <2>4. held = wallet + s + payoutVault + a + x
    BY <1>1 DEF FusdPlaced
  <2>5. held' - held = (wallet' - wallet) + (payoutVault' - payoutVault) + (b - a) + (y - x)
    BY DEF Moved
  <2> DEFINE w == wallet
             w1 == wallet'
             v == payoutVault
             v1 == payoutVault'
             h == held
             h1 == held'
  <2>6. /\ w \in Int /\ w1 \in Int /\ v \in Int /\ v1 \in Int /\ h \in Int /\ h1 \in Int
        /\ h = w + s + v + a + x /\ h1 - h = (w1 - w) + (v1 - v) + (b - a) + (y - x)
    BY <2>2, <2>3, <2>4, <2>5
  <2> HIDE DEF s, a, b, x, y, w, w1, v, v1, h, h1
  <2>7. h1 = w1 + s + v1 + b + y
    <3>1. h1 = h + ((w1 - w) + (v1 - v) + (b - a) + (y - x))
      BY <2>1, <2>2, <2>3, <2>6
    <3> QED
      BY <2>1, <2>2, <2>3, <2>6, <3>1
  <2> QED
    BY <1>2, <2>7 DEF FusdPlaced, s, b, y, w1, v1, h1
<1> QED
  BY <1>2, <1>4, <1>5 DEF CallInv

\* Before such a call.
LEMMA VaultsTyped ==
  ASSUME CallInv
  PROVE  /\ AccountInv /\ held \in Int /\ unbacked \in Int /\ now \in Nat
         /\ wallet \in Nat /\ payoutVault \in Nat /\ poolParameters \in PoolParameters
         /\ allowMultiple \in BOOLEAN /\ hashed \in BOOLEAN
         /\ joined \subseteq DOMAIN pools /\ (joined # {} => hashed)
         /\ OthersTyped /\ FlashBacked
         /\ payout.fusd \in Nat /\ payout.payments \in 0 .. MaxPayments
         /\ flash.vault \in Nat /\ flash.interest \in Nat
BY TimeAssumption DEF CallInv, AccountInv, IInv, CallTyped, PoolsReady, OthersTyped

\* What a user calls on Flux.
LEMMA UserKeeps ==
  ASSUME CallInv, UserCall, UNCHANGED <<poolVars, flash, receipts, payout>>
  PROVE  CallInv'
<1>1. FluxKept
  BY UserCallKept DEF CallInv
<1>2. /\ AccountInv' /\ held' \in Int /\ unbacked' = unbacked /\ now' = now
      /\ Listed' = Listed
  BY <1>1 DEF FluxKept
<1>3. wallet' = wallet + (held' - held) /\ wallet' \in Nat
  <2>1. wallet + (held' - held) >= 0 /\ wallet' = wallet + (held' - held)
    BY DEF UserCall, Receive
  <2> QED
    BY <1>2, <2>1, VaultsTyped
<1>4. OthersTyped' /\ FlashBacked'
  BY <1>2, VaultsTyped DEF OthersTyped, FlashBacked
<1>5. Moved
  BY <1>2, <1>3, <1>4, VaultsTyped DEF Moved, poolVars
<1> QED
  BY <1>5, MovedKeeps

\* The owner's licences, and the clock.
LEMMA LicensingKeeps ==
  ASSUME CallInv, Licensing \/ Tick, UNCHANGED <<wallet, poolVars, flash, receipts, payout>>
  PROVE  CallInv'
<1>1. /\ AccountInv' /\ held' = held /\ unbacked' = unbacked /\ now <= now' /\ Listed' = Listed
  <2>1. CASE Licensing
    <3>1. FluxKept /\ held' = held
      BY <2>1, OwnerKept DEF CallInv
    <3> QED
      BY <3>1, VaultsTyped DEF FluxKept
  <2>2. CASE Tick
    BY <2>2, TickKept DEF CallInv
  <2> QED
    BY <2>1, <2>2
<1>2. OthersTyped' /\ FlashBacked'
  BY <1>1, VaultsTyped DEF OthersTyped, FlashBacked
<1>3. Moved
  BY <1>1, <1>2, VaultsTyped DEF Moved, poolVars
<1> QED
  BY <1>3, MovedKeeps

\* The owner's settings of the pools, and the end of a transaction.
LEMMA SettingsKeep ==
  ASSUME CallInv, UNCHANGED <<flash, receipts, payout>>,
         \/ \E s \in PoolParameterSettings : SetParameters(s)
         \/ \E s \in HistorySettings : SetHistoryParameters(s)
         \/ \E allow \in Allowances : SetAllowMultipleActions(allow)
         \/ EndTransaction
  PROVE  CallInv'
<1>1. /\ UNCHANGED <<vars, wallet, pools, payoutVault>>
      /\ poolParameters' \in PoolParameters /\ allowMultiple' \in BOOLEAN
      /\ hashed' \in BOOLEAN /\ joined' \subseteq DOMAIN pools /\ (joined' # {} => hashed')
  <2>1. ASSUME NEW s \in PoolParameterSettings, SetParameters(s)
        PROVE  /\ UNCHANGED <<vars, wallet, pools, payoutVault, allowMultiple, hashed, joined>>
               /\ poolParameters' \in PoolParameters
    <3>1. poolParameters \in PoolParameters /\ s \in [payout : Nat, liquidity : Nat, pool : Nat,
            modifier : Nat, flatFee : Nat, percentageFee : Nat]
      BY PoolAssumption, VaultsTyped
    <3> QED
      BY <2>1, <3>1 DEF SetParameters, PoolParameters
  <2>2. ASSUME NEW s \in HistorySettings, SetHistoryParameters(s)
        PROVE  /\ UNCHANGED <<vars, wallet, pools, payoutVault, allowMultiple, hashed, joined>>
               /\ poolParameters' \in PoolParameters
    <3>1. poolParameters \in PoolParameters /\ s \in [length : Nat, interval : Nat]
      BY PoolAssumption, VaultsTyped
    <3> QED
      BY <2>2, <3>1 DEF SetHistoryParameters, PoolParameters
  <2>3. ASSUME NEW allow \in Allowances, SetAllowMultipleActions(allow)
        PROVE  /\ UNCHANGED <<vars, wallet, pools, payoutVault, poolParameters, hashed, joined>>
               /\ allowMultiple' \in BOOLEAN
    BY <2>3, PoolAssumption DEF SetAllowMultipleActions
  <2>4. CASE EndTransaction
    BY <2>4, VaultsTyped DEF EndTransaction
  <2> QED
    BY <2>1, <2>2, <2>3, <2>4, VaultsTyped
<1>2. FluxKept /\ held' = held
  BY <1>1, NothingKept DEF CallInv
<1>3. OthersTyped' /\ FlashBacked'
  BY <1>2, VaultsTyped DEF OthersTyped, FlashBacked, FluxKept
<1>4. now <= now'
  BY <1>2, VaultsTyped DEF FluxKept
<1>5. Moved
  BY <1>1, <1>2, <1>3, <1>4, VaultsTyped DEF Moved, FluxKept
<1> QED
  BY <1>5, MovedKeeps

\* Every call of the payout component, and of its owner.
LEMMA PayoutKeeps ==
  ASSUME CallInv, PayoutCall \/ PayoutOwnerCall, UNCHANGED <<flash, receipts>>
  PROVE  CallInv'
<1> DEFINE Payouts == [fusd : Nat, payments : 0 .. MaxPayments, required : Nat \ {0},
                       burn : BOOLEAN]
           Rest == UNCHANGED <<vars, pools, poolParameters, allowMultiple, hashed, joined>>
           Balanced == (wallet' - wallet) + (payoutVault' - payoutVault)
                         + (payout'.fusd - payout.fusd) = 0
           Good == Rest /\ payout' \in Payouts /\ wallet' \in Nat /\ payoutVault' \in Nat
                   /\ Balanced
<1>1. /\ payout \in Payouts /\ payout.fusd \in Nat /\ payout.payments \in 0 .. MaxPayments
      /\ wallet \in Nat /\ payoutVault \in Nat /\ payout.required \in Nat
      /\ DOMAIN payout = {"fusd", "payments", "required", "burn"}
  BY VaultsTyped DEF OthersTyped
<1>2. ASSUME NEW fusd \in Nat, payout' = [payout EXCEPT !.fusd = fusd]
      PROVE  payout' \in Payouts /\ payout'.fusd = fusd
  BY <1>1, <1>2
<1>3. ASSUME ClaimRewards PROVE Good
  <2> DEFINE payments == IF payout.burn THEN payout.payments ELSE payout.payments + payout.required
  <2>1. payout' = [payout EXCEPT !.fusd = 0, !.payments = payments]
        /\ payout'.payments <= MaxPayments
    BY <1>3 DEF ClaimRewards
  <2>2. Rest /\ payoutVault' = 0 /\ wallet' = wallet + (payout.fusd + payoutVault)
    BY <1>3 DEF ClaimRewards, ClaimPayoutRewards, Receive
  <2>3. payments \in Nat
    BY <1>1
  <2> HIDE DEF payments
  <2>4. payout'.fusd = 0 /\ payments \in 0 .. MaxPayments
    BY <1>1, <2>1, <2>3, PayoutAssumption
  <2>5. payout' \in Payouts
    BY <1>1, <2>1, <2>4
  <2>6. wallet' \in Nat /\ payoutVault' \in Nat /\ Balanced
    BY <1>1, <2>2, <2>4
  <2> HIDE DEF Payouts, Rest, Balanced
  <2> QED
    BY <2>2, <2>5, <2>6
<1>4. ASSUME FetchRewardsFromStabilityPools PROVE Good
  <2> DEFINE fusd == payout.fusd + payoutVault
  <2>1. fusd \in Nat
    BY <1>1
  <2>2. Rest /\ payoutVault' = 0 /\ wallet' = wallet /\ payout' = [payout EXCEPT !.fusd = fusd]
    BY <1>4 DEF FetchRewardsFromStabilityPools, ClaimPayoutRewards
  <2>3. payout'.fusd = payout.fusd + payoutVault /\ payout' \in Payouts
    <3> HIDE DEF fusd, Payouts
    <3>1. payout'.fusd = fusd /\ payout' \in Payouts
      BY <1>2, <2>1, <2>2
    <3> QED
      BY <3>1 DEF fusd
  <2>4. wallet' \in Nat /\ payoutVault' \in Nat /\ Balanced
    BY <1>1, <2>2, <2>3
  <2> HIDE DEF Payouts, Rest, Balanced
  <2> QED
    BY <2>2, <2>3, <2>4
<1>5. ASSUME NEW amount \in RewardGifts, ReceiveRewards(amount) PROVE Good
  <2> DEFINE fusd == payout.fusd + amount
  <2>1. fusd \in Nat /\ amount \in Nat
    BY <1>1, PayoutAssumption
  <2>2. Rest /\ payoutVault' = payoutVault /\ payout' = [payout EXCEPT !.fusd = fusd]
        /\ wallet + (-amount) >= 0 /\ wallet' = wallet + (-amount)
    BY <1>5 DEF ReceiveRewards, Receive, poolVars
  <2>3. payout'.fusd = payout.fusd + amount /\ payout' \in Payouts
    <3> HIDE DEF fusd, Payouts
    <3>1. payout'.fusd = fusd /\ payout' \in Payouts
      BY <1>2, <2>1, <2>2
    <3> QED
      BY <3>1 DEF fusd
  <2>4. wallet' \in Nat /\ payoutVault' \in Nat /\ Balanced
    BY <1>1, <2>1, <2>2, <2>3
  <2> HIDE DEF Payouts, Rest, Balanced
  <2> QED
    BY <2>2, <2>3, <2>4
<1>6. ASSUME TakePayoutComponentRewards PROVE Good
  <2>1. Rest /\ payoutVault' = payoutVault /\ payout' = [payout EXCEPT !.fusd = 0]
        /\ wallet' = wallet + payout.fusd
    BY <1>6 DEF TakePayoutComponentRewards, Receive, poolVars
  <2>2. payout'.fusd = 0 /\ payout' \in Payouts
    <3> HIDE DEF Payouts
    <3> QED
      BY <1>2, <2>1
  <2>3. wallet' \in Nat /\ payoutVault' \in Nat /\ Balanced
    BY <1>1, <2>1, <2>2
  <2> HIDE DEF Payouts, Rest, Balanced
  <2> QED
    BY <2>1, <2>2, <2>3
<1>7. ASSUME TakePayments \/ (\E s \in PayoutSettings : SetPayout(s)) PROVE Good
  <2>1. Rest /\ payoutVault' = payoutVault /\ wallet' = wallet
    BY <1>7 DEF TakePayments, SetPayout, poolVars
  <2>2. payout' \in Payouts /\ payout'.fusd = payout.fusd
    <3>1. CASE TakePayments
      <4>1. payout' = [payout EXCEPT !.payments = 0] /\ 0 \in 0 .. MaxPayments
        BY <3>1, PayoutAssumption DEF TakePayments
      <4> QED
        BY <1>1, <4>1
    <3>2. ASSUME NEW s \in PayoutSettings, SetPayout(s)
          PROVE  payout' \in Payouts /\ payout'.fusd = payout.fusd
      <4>1. payout' = [payout EXCEPT !.required = s.required, !.burn = s.burn]
            /\ s.required \in Nat \ {0} /\ s.burn \in BOOLEAN
        BY <3>2, PayoutAssumption DEF SetPayout
      <4> QED
        BY <1>1, <4>1
    <3> QED
      BY <1>7, <3>1, <3>2
  <2>3. wallet' \in Nat /\ payoutVault' \in Nat /\ Balanced
    BY <1>1, <2>1, <2>2
  <2> HIDE DEF Payouts, Rest, Balanced
  <2> QED
    BY <2>1, <2>2, <2>3
<1>8. Good
  <2> HIDE DEF Good
  <2> QED
    BY <1>3, <1>4, <1>5, <1>6, <1>7 DEF PayoutCall, PayoutOwnerCall
<1>9. /\ UNCHANGED <<vars, pools, poolParameters, allowMultiple, hashed, joined>>
      /\ payout' \in Payouts /\ wallet' \in Nat /\ payoutVault' \in Nat
  BY <1>8
<1>10. FluxKept /\ held' = held
  BY <1>9, NothingKept DEF CallInv
<1>11. OthersTyped' /\ FlashBacked'
  BY <1>9, <1>10, VaultsTyped DEF OthersTyped, FlashBacked, FluxKept
<1>12. now <= now'
  BY <1>10, VaultsTyped DEF FluxKept
<1>13. held' - held = (wallet' - wallet) + (payoutVault' - payoutVault)
                    + (payout'.fusd - payout.fusd) + (flash'.vault - flash.vault)
  <2>1. Balanced
    BY <1>8
  <2>2. held' - held = 0 /\ flash'.vault - flash.vault = 0
    BY <1>10, VaultsTyped
  <2>3. payout'.fusd \in Int /\ payout.fusd \in Int /\ wallet' \in Int /\ wallet \in Int
        /\ payoutVault' \in Int /\ payoutVault \in Int
    BY <1>1, <1>9
  <2> QED
    BY <2>1, <2>2, <2>3
<1> HIDE DEF Payouts, Good
<1>14. Moved
  BY <1>9, <1>10, <1>11, <1>12, <1>13, VaultsTyped DEF Moved, FluxKept
<1> QED
  BY <1>14, MovedKeeps

-----------------------------------------------------------------------------
(* Flash loans.                                                            *)

Receipt == [amount : Nat, interest : Nat]

\* The receipts' amounts are finitely many integers.
LEMMA FlashedFinite ==
  ASSUME NEW r \in Seq(Receipt)
  PROVE  IntFunction(Flashed(r)) /\ DOMAIN Flashed(r) = 1 .. Len(r) /\ Len(r) \in Nat
<1>1. Len(r) \in Nat /\ DOMAIN r = 1 .. Len(r)
  BY LenProperties
<1>2. \A n \in 1 .. Len(r) : r[n].amount \in Int
  <2>1. \A n \in 1 .. Len(r) : r[n] \in Receipt
    BY ElementOfSeq
  <2> QED
    BY <2>1 DEF Receipt
<1>3. IsFiniteSet(1 .. Len(r))
  BY <1>1, FS_Interval
<1> QED
  BY <1>1, <1>2, <1>3 DEF IntFunction, Flashed

\* A new receipt adds its amount.
LEMMA ReceiptAdded ==
  ASSUME NEW r \in Seq(Receipt), NEW e \in Receipt
  PROVE  /\ Append(r, e) \in Seq(Receipt)
         /\ SumFunction(Flashed(Append(r, e))) = SumFunction(Flashed(r)) + e.amount
<1> DEFINE t == Append(r, e)
           last == Len(r) + 1
           f == Flashed(r)
           g == Flashed(t)
<1>1. /\ t \in Seq(Receipt) /\ Len(r) \in Nat /\ Len(t) = last /\ t[last] = e
      /\ \A n \in 1 .. Len(r) : t[n] = r[n]
  BY AppendProperties, LenProperties
<1> HIDE DEF t
<1>2. /\ IntFunction(f) /\ DOMAIN f = 1 .. Len(r) /\ IntFunction(g) /\ DOMAIN g = 1 .. last
  BY <1>1, FlashedFinite
<1>3. last \notin DOMAIN f /\ last \in DOMAIN g /\ DOMAIN g \ {last} = DOMAIN f
  BY <1>1, <1>2
<1>4. g[last] = e.amount /\ \A n \in DOMAIN f : f[n] = g[n]
  <2>1. DOMAIN r = 1 .. Len(r) /\ DOMAIN t = 1 .. last
    BY <1>1, LenProperties
  <2> QED
    BY <1>1, <1>2, <2>1 DEF Flashed
<1> HIDE DEF f, g, last
<1>5. SameBut(f, g, last)
  BY <1>3, <1>4 DEF SameBut
<1>6. SumFunction(g) = SumFunction(f) - Term(f, last) + Term(g, last)
  BY <1>2, <1>5, SumChange
<1>7. Term(f, last) = 0 /\ Term(g, last) = e.amount /\ e.amount \in Int
  BY <1>3, <1>4 DEF Term, Receipt
<1>8. SumFunction(f) \in Int
  BY <1>2, SumFunctionType
<1>9. SumFunction(g) = SumFunction(f) + e.amount
  BY <1>6, <1>7, <1>8
<1> QED
  BY <1>1, <1>9 DEF f, g, t

\* The receipts without the n-th.
LessReceipt(r, n) == [m \in 1 .. Len(r) - 1 |-> IF m < n THEN r[m] ELSE r[m + 1]]

\* The sum of a function is one of its terms and the sum of the others.
LEMMA FunctionTakeOut ==
  ASSUME NEW f, IntFunction(f), NEW y \in DOMAIN f
  PROVE  /\ SumFunction(f) = f[y] + SumFunctionOnSet(f, DOMAIN f \ {y})
         /\ f[y] \in Int /\ SumFunctionOnSet(f, DOMAIN f \ {y}) \in Int
<1>1. IsFiniteSet(DOMAIN f) /\ IsFiniteSet(DOMAIN f \ {y}) /\ \A x \in DOMAIN f : f[x] \in Int
  BY FS_Subset DEF IntFunction
<1>2. SumFunctionOnSet(f, DOMAIN f) = f[y] + SumFunctionOnSet(f, DOMAIN f \ {y})
  BY <1>1, SumTakeOut
<1>3. SumFunctionOnSet(f, DOMAIN f \ {y}) \in Int
  BY <1>1, SumType
<1> QED
  BY <1>1, <1>2, <1>3 DEF SumFunction

\* Whichever receipt is burned, its amount goes from the sum.
LEMMA ReceiptBurned ==
  ASSUME NEW r \in Seq(Receipt), NEW n \in 1 .. Len(r)
  PROVE  /\ LessReceipt(r, n) \in Seq(Receipt)
         /\ SumFunction(Flashed(LessReceipt(r, n))) = SumFunction(Flashed(r)) - r[n].amount
<1> DEFINE t == LessReceipt(r, n)
           S == 1 .. Len(r) - 1
           R == (1 .. Len(r)) \ {n}
           h == [m \in S |-> IF m < n THEN m ELSE m + 1]
           f == Flashed(r)
           g == Flashed(t)
<1>1. /\ Len(r) \in Nat /\ n \in Nat /\ 1 <= n /\ n <= Len(r) /\ DOMAIN r = 1 .. Len(r)
      /\ \A m \in 1 .. Len(r) : r[m] \in Receipt
  BY LenProperties, ElementOfSeq
<1>2. t = [m \in S |-> r[h[m]]] /\ (\A m \in S : t[m] = r[h[m]] /\ h[m] \in R)
  BY <1>1 DEF LessReceipt
<1> HIDE DEF t
<1>3. t \in Seq(Receipt) /\ DOMAIN t = S
  <2>1. \A m \in S : t[m] \in Receipt
    BY <1>1, <1>2
  <2>2. t \in [S -> Receipt]
    BY <1>2, <2>1
  <2>3. Len(r) - 1 \in Nat
    BY <1>1
  <2> QED
    BY <2>2, <2>3, SeqDef
<1>4. h \in Bijection(S, R)
  <2>1. h \in [S -> R]
    BY <1>2
  <2>2. \A x, y \in S : h[x] = h[y] => x = y
    BY <1>1
  <2>3. ASSUME NEW y \in R
        PROVE  \E x \in S : h[x] = y
    <3>1. CASE y < n
      <4>1. y \in S /\ h[y] = y
        BY <1>1, <3>1
      <4> QED
        BY <4>1
    <3>2. CASE y > n
      <4>1. y - 1 \in S /\ h[y - 1] = y
        BY <1>1, <3>2
      <4> QED
        BY <4>1
    <3> QED
      BY <1>1, <3>1, <3>2
  <2> HIDE DEF h, S, R
  <2> QED
    BY <2>1, <2>2, <2>3 DEF Bijection, Injection, Surjection, IsInjective
<1>5. IntFunction(f) /\ DOMAIN f = 1 .. Len(r) /\ IntFunction(g) /\ DOMAIN g = S
  <2>1. IntFunction(f) /\ DOMAIN f = 1 .. Len(r)
    BY FlashedFinite
  <2>2. IntFunction(g) /\ DOMAIN g = S
    <3>1. IntFunction(g)
      BY <1>3, FlashedFinite
    <3> QED
      BY <1>3, <3>1 DEF Flashed
  <2> QED
    BY <2>1, <2>2
<1>6. /\ \A m \in S : g[m] = f[h[m]]
      /\ \A m \in 1 .. Len(r) : f[m] = r[m].amount
      /\ \A m \in 1 .. Len(r) : f[m] \in Int
  <2>1. \A m \in 1 .. Len(r) : f[m] = r[m].amount
    BY <1>1 DEF Flashed
  <2>2. \A m \in S : g[m] = t[m].amount
    BY <1>3 DEF Flashed
  <2>3. \A m \in S : h[m] \in 1 .. Len(r)
    BY <1>2
  <2>4. \A m \in 1 .. Len(r) : f[m] \in Int
    BY <1>5 DEF IntFunction
  <2> HIDE DEF f, g, h
  <2> QED
    BY ZenonT(40), <1>2, <2>1, <2>2, <2>3, <2>4
<1>7. IsFiniteSet(S) /\ R \subseteq 1 .. Len(r) /\ n \in 1 .. Len(r) /\ IsFiniteSet(1 .. Len(r))
  BY <1>5 DEF IntFunction
<1> DEFINE A == 1 .. Len(r)
<1>8. A \ {n} = R /\ DOMAIN f = A /\ n \in A /\ IsFiniteSet(A) /\ R \subseteq A
      /\ f[n] = r[n].amount /\ \A m \in A : f[m] \in Int
  BY <1>5, <1>6, <1>7
<1> HIDE DEF f, g, h, R, S, A
<1>9. SumFunctionOnSet(g, S) = SumFunctionOnSet(f, R)
  <2>1. \A m \in R : f[m] \in Int
    BY <1>8
  <2>2. \A m \in S : g[m] = f[h[m]]
    BY <1>6
  <2>3. IsFiniteSet(S)
    BY <1>7
  <2> QED
    BY <1>4, <2>1, <2>2, <2>3, SumReindex
<1>10. /\ SumFunction(f) = f[n] + SumFunctionOnSet(f, R)
       /\ f[n] \in Int /\ SumFunctionOnSet(f, R) \in Int
  <2>1. IntFunction(f) /\ n \in DOMAIN f /\ DOMAIN f \ {n} = R
    BY <1>5, <1>8
  <2>2. /\ SumFunction(f) = f[n] + SumFunctionOnSet(f, DOMAIN f \ {n})
        /\ f[n] \in Int /\ SumFunctionOnSet(f, DOMAIN f \ {n}) \in Int
    BY <2>1, FunctionTakeOut
  <2> QED
    BY <2>1, <2>2
<1>11. SumFunction(g) = SumFunctionOnSet(g, S)
  BY <1>5 DEF SumFunction
<1>12. SumFunction(g) = SumFunction(f) - f[n]
  BY <1>9, <1>10, <1>11
<1> QED
  BY <1>3, <1>8, <1>12 DEF f, g, t

\* A flash loan mints what its receipt records.
LEMMA BorrowKeeps ==
  ASSUME CallInv, NEW amount \in FlashAmounts, BorrowFlash(amount),
         UNCHANGED <<poolVars, payout>>
  PROVE  CallInv'
<1> DEFINE e == [amount |-> amount, interest |-> flash.interest]
<1>1. /\ held \in Int /\ unbacked \in Int /\ wallet \in Nat /\ flash.vault \in Nat
      /\ unbacked = SumFunction(Flashed(receipts)) /\ now <= now
  BY VaultsTyped DEF FlashBacked
<1>2. /\ pools' = pools /\ payoutVault' \in Nat /\ poolParameters' \in PoolParameters
      /\ allowMultiple' \in BOOLEAN /\ hashed' \in BOOLEAN
      /\ joined' \subseteq DOMAIN pools /\ (joined' # {} => hashed')
      /\ payoutVault' - payoutVault = 0 /\ payout'.fusd - payout.fusd = 0
  BY VaultsTyped DEF poolVars
<1>3. amount \in Nat /\ receipts \in Seq(Receipt) /\ e \in Receipt /\ e.amount = amount
  BY FlashAssumption, VaultsTyped DEF OthersTyped, Receipt
<1>4. /\ receipts' = Append(receipts, e) /\ FreeFusd(amount) /\ Receive(amount)
      /\ flash' = flash
  BY DEF BorrowFlash
<1> HIDE DEF e
<1>5. receipts' \in Seq(Receipt)
      /\ SumFunction(Flashed(receipts')) = SumFunction(Flashed(receipts)) + amount
  BY <1>3, <1>4, ReceiptAdded
<1>6. /\ AccountInv' /\ now' = now /\ Listed' = Listed
      /\ held' - held = unbacked' - unbacked /\ held' \in Int /\ unbacked' \in Int
      /\ held' = held + amount
  BY <1>3, <1>4, FreeKept DEF CallInv
<1>7. wallet' = wallet + amount /\ wallet' \in Nat
  BY <1>3, <1>4, VaultsTyped DEF Receive
<1>8. OthersTyped'
  BY <1>4, <1>5, VaultsTyped DEF OthersTyped, Receipt
<1>9. FlashBacked'
  <2>1. unbacked' = unbacked + amount
    BY <1>1, <1>3, <1>6
  <2>2. unbacked' = SumFunction(Flashed(receipts'))
    BY <1>1, <1>5, <2>1
  <2> QED
    BY <2>2 DEF FlashBacked
<1>10. held' - held = (wallet' - wallet) + (payoutVault' - payoutVault)
                    + (payout'.fusd - payout.fusd) + (flash'.vault - flash.vault)
  <2>1. payoutVault' - payoutVault = 0 /\ payout'.fusd - payout.fusd = 0
        /\ flash'.vault - flash.vault = 0
    BY <1>1, <1>4, <1>2
  <2>2. held' - held = amount /\ wallet' - wallet = amount
    BY <1>1, <1>3, <1>6, <1>7
  <2> QED
    BY <1>3, <2>1, <2>2
<1>11. Moved
  BY <1>1, <1>2, <1>6, <1>7, <1>8, <1>9, <1>10 DEF Moved
<1> QED
  BY <1>11, MovedKeeps

\* pay_back burns the amount of the receipt and keeps its interest.
LEMMA PayBackKeeps ==
  ASSUME CallInv, NEW n \in 1 .. Len(receipts), PayBack(n), UNCHANGED <<poolVars, payout>>
  PROVE  CallInv'
<1> DEFINE e == receipts[n]
           amount == e.amount
           interest == Mul(e.interest, amount)
           vault == flash.vault + interest
<1>1. /\ held \in Int /\ unbacked \in Int /\ wallet \in Nat /\ flash.vault \in Nat
      /\ unbacked = SumFunction(Flashed(receipts)) /\ now <= now
  BY VaultsTyped DEF FlashBacked
<1>2. /\ pools' = pools /\ payoutVault' \in Nat /\ poolParameters' \in PoolParameters
      /\ allowMultiple' \in BOOLEAN /\ hashed' \in BOOLEAN
      /\ joined' \subseteq DOMAIN pools /\ (joined' # {} => hashed')
      /\ payoutVault' - payoutVault = 0 /\ payout'.fusd - payout.fusd = 0
  BY VaultsTyped DEF poolVars
<1>3. receipts \in Seq(Receipt) /\ e \in Receipt
  <2>1. receipts \in Seq(Receipt)
    BY VaultsTyped DEF OthersTyped, Receipt
  <2> QED
    BY <2>1, ElementOfSeq
<1>4. /\ BurnFusd(amount) /\ Receive(-(amount + interest))
      /\ flash' = [flash EXCEPT !.vault = vault]
      /\ receipts' = LessReceipt(receipts, n)
  BY DEF PayBack, Burned, Interest, LessReceipt
<1>5. amount \in Nat
  BY <1>3 DEF Receipt
<1>6. interest \in Nat
  <2>1. e.interest \in Nat
    BY <1>3 DEF Receipt
  <2> QED
    BY <1>5, <2>1, MulNat
<1>7. receipts' \in Seq(Receipt)
      /\ SumFunction(Flashed(receipts')) = SumFunction(Flashed(receipts)) - amount
  BY <1>3, <1>4, ReceiptBurned
<1> HIDE DEF e, amount, interest
<1>8. /\ AccountInv' /\ now' = now /\ Listed' = Listed
      /\ held' - held = unbacked' - unbacked /\ held' \in Int /\ unbacked' \in Int
      /\ held' = held - amount
  BY <1>4, <1>5, FreeKept DEF CallInv
<1>9. wallet' = wallet - (amount + interest) /\ wallet' \in Nat
  BY SMTT(30), <1>4, <1>5, <1>6, VaultsTyped DEF Receive
<1>10. vault \in Nat
  BY SMTT(30), <1>6, VaultsTyped
<1>11. flash'.vault = flash.vault + interest
  BY <1>4, VaultsTyped DEF OthersTyped
<1> HIDE DEF vault
<1>12. OthersTyped'
  BY <1>4, <1>7, <1>10, VaultsTyped DEF OthersTyped, Receipt
<1>13. FlashBacked'
  <2>1. unbacked' = unbacked - amount
    BY SMTT(30), <1>1, <1>5, <1>8
  <2>2. unbacked' = SumFunction(Flashed(receipts'))
    BY <1>1, <1>7, <2>1
  <2> QED
    BY <2>2 DEF FlashBacked
<1>14. held' - held = (wallet' - wallet) + (payoutVault' - payoutVault)
                    + (payout'.fusd - payout.fusd) + (flash'.vault - flash.vault)
  <2>1. payoutVault' - payoutVault = 0 /\ payout'.fusd - payout.fusd = 0
    BY <1>2
  <2>2. held' - held = -amount /\ wallet' - wallet = -(amount + interest)
        /\ flash'.vault - flash.vault = interest
    BY <1>1, <1>5, <1>6, <1>8, <1>9, <1>11
  <2> QED
    BY <1>5, <1>6, <2>1, <2>2
<1>15. Moved
  BY <1>1, <1>2, <1>8, <1>9, <1>12, <1>13, <1>14 DEF Moved
<1> QED
  BY <1>15, MovedKeeps

\* retrieve_interest and settings.
LEMMA FlashRestKeeps ==
  ASSUME CallInv, RetrieveFlashInterest \/ FlashOwnerCall, UNCHANGED <<poolVars, payout>>
  PROVE  CallInv'
<1>1. /\ UNCHANGED <<vars, receipts>>
      /\ flash' \in [interest : Nat, enabled : BOOLEAN, vault : Nat]
      /\ wallet' \in Nat
      /\ (wallet' - wallet) + (flash'.vault - flash.vault) = 0
  <2>1. flash \in [interest : Nat, enabled : BOOLEAN, vault : Nat] /\ flash.vault \in Nat
        /\ wallet \in Nat
    BY VaultsTyped DEF OthersTyped
  <2>2. CASE RetrieveFlashInterest
    BY <2>1, <2>2 DEF RetrieveFlashInterest, Receive
  <2>3. ASSUME NEW s \in FlashSettings, SetFlash(s)
        PROVE  /\ UNCHANGED <<vars, receipts>>
               /\ flash' \in [interest : Nat, enabled : BOOLEAN, vault : Nat]
               /\ wallet' \in Nat
               /\ (wallet' - wallet) + (flash'.vault - flash.vault) = 0
    <3>1. s.interest \in Nat /\ s.enabled \in BOOLEAN
      BY FlashAssumption
    <3>2. /\ flash' = [flash EXCEPT !.interest = s.interest, !.enabled = s.enabled]
          /\ UNCHANGED <<vars, receipts>> /\ wallet' = wallet
      BY <2>3 DEF SetFlash
    <3>3. flash' \in [interest : Nat, enabled : BOOLEAN, vault : Nat]
          /\ flash'.vault = flash.vault
      BY <2>1, <3>1, <3>2
    <3>4. (wallet' - wallet) + (flash'.vault - flash.vault) = 0
      BY <2>1, <3>2, <3>3
    <3> QED
      BY <2>1, <3>2, <3>3, <3>4
  <2> QED
    BY <2>2, <2>3 DEF FlashOwnerCall
<1>2. FluxKept /\ held' = held
  BY <1>1, NothingKept DEF CallInv
<1>3. OthersTyped' /\ FlashBacked'
  BY <1>1, <1>2, VaultsTyped DEF OthersTyped, FlashBacked, FluxKept
<1>4. now <= now'
  BY <1>2, VaultsTyped DEF FluxKept
<1>5. held' - held = (wallet' - wallet) + (payoutVault' - payoutVault)
                    + (payout'.fusd - payout.fusd) + (flash'.vault - flash.vault)
  <2>1. held' - held = 0 /\ payoutVault' - payoutVault = 0 /\ payout'.fusd - payout.fusd = 0
    BY <1>2, VaultsTyped DEF poolVars
  <2>2. wallet' - wallet \in Int /\ flash'.vault - flash.vault \in Int
    BY <1>1, VaultsTyped
  <2> QED
    BY <1>1, <2>1, <2>2
<1>6. Moved
  BY <1>1, <1>2, <1>3, <1>4, <1>5, VaultsTyped DEF Moved, FluxKept, poolVars
<1> QED
  BY <1>6, MovedKeeps

-----------------------------------------------------------------------------
(* The protocol.                                                           *)

\* At the start nobody holds anything.
LEMMA ProtocolStart == ProtocolInit => ProtocolInv
<1> SUFFICES ASSUME ProtocolInit PROVE ProtocolInv
  OBVIOUS
<1>1. AccountInv /\ Listed = {} /\ held = 0 /\ unbacked = 0
  BY AccountInit DEF ProtocolInit, Init, Listed
<1>2. /\ wallet = 0 /\ pools = <<>> /\ payoutVault = 0 /\ edits = 0
      /\ poolParameters = InitialPoolParameters /\ allowMultiple = FALSE
      /\ hashed = FALSE /\ joined = {} /\ receipts = <<>>
      /\ flash = [interest |-> 0, enabled |-> TRUE, vault |-> 0]
      /\ payout = [fusd |-> 0, payments |-> 0, required |-> InitialPayment, burn |-> TRUE]
  BY DEF ProtocolInit, PoolInit, FlashInit, PayoutInit
<1>3. OthersTyped
  BY <1>2, PayoutAssumption DEF OthersTyped
<1>4. DOMAIN pools = {} /\ PoolsTyped
  BY <1>1, <1>2 DEF PoolsTyped
<1>5. CallTyped
  BY <1>2, <1>3, <1>4, PoolAssumption DEF CallTyped, PoolsReady
<1>6. ASSUME NEW f, DOMAIN f = {} PROVE SumFunction(f) = 0
  BY <1>6, SumEmpty DEF SumFunction
<1>7. SumFunction(PoolFusd(pools)) = 0 /\ SumFunction(Flashed(receipts)) = 0
  <2>1. DOMAIN PoolFusd(pools) = {} /\ DOMAIN Flashed(receipts) = {}
    BY <1>2, <1>4 DEF PoolFusd, Flashed
  <2> QED
    BY <1>6, <2>1
<1>8. FusdPlaced /\ FlashBacked
  <2>1. payout.fusd = 0 /\ flash.vault = 0
    BY <1>2
  <2> QED
    BY <1>1, <1>2, <1>7, <2>1 DEF FusdPlaced, FlashBacked
<1> QED
  BY <1>1, <1>2, <1>5, <1>8, EditAssumption DEF ProtocolInv, CallInv

\* Every call of a user or a pool, and every setting of the owner.
LEMMA CallKeeps ==
  ASSUME CallInv, Call \/ OwnerEdit
  PROVE  CallInv'
<1>1. ASSUME PoolCall \/ PoolOwnerCall, UNCHANGED <<flash, receipts, payout>>
      PROVE  CallInv'
  <2>1. ASSUME NEW c \in DOMAIN pools, NEW fusd \in Contributions, NEW keep \in BOOLEAN,
               NEW price \in Prices, ContributeToPool(c, fusd, keep, price)
        PROVE  CallInv'
    BY <1>1, <2>1, ContributeKeeps
  <2>2. ASSUME NEW c \in DOMAIN pools, NEW share \in WithdrawnShares, WithdrawFromPool(c, share)
        PROVE  CallInv'
    BY <1>1, <2>2, WithdrawKeeps
  <2>3. ASSUME NEW c \in DOMAIN pools, NEW fusd \in Purchases, NEW price \in Prices,
               BuyCollateralFromPool(c, fusd, price)
        PROVE  CallInv'
    BY <1>1, <2>3, BuyKeeps
  <2>4. ASSUME NEW c \in DOMAIN pools, NEW range \in ChargeRanges, ChargePoolInterest(c, range)
        PROVE  CallInv'
    BY <1>1, <2>4, ChargeKeeps
  <2>5. ASSUME NEW c \in DOMAIN pools, TakeLiquidityRewards(c)
        PROVE  CallInv'
    BY <1>1, <2>5, RewardsKeep
  <2>6. ASSUME NEW id \in Loans, NEW price \in Prices,
               LiquidateWithPool(id, price) \/ MarkWithPool(id, price)
        PROVE  CallInv'
    BY <1>1, <2>6, LiquidationKeeps, MarkKeeps
  <2>7. ASSUME NEW c \in DOMAIN pools, NEW setting \in PoolSettings, EditPool(c, setting)
        PROVE  CallInv'
    BY <1>1, <2>7, EditPoolKeeps
  <2>8. CASE PoolCall
    BY <2>1, <2>2, <2>3, <2>4, <2>5, <2>6, <2>8, Zenon DEF PoolCall
  <2>9. CASE PoolOwnerCall
    BY <1>1, <2>7, <2>9, SettingsKeep DEF PoolOwnerCall
  <2> QED
    BY <1>1, <2>8, <2>9
<1>2. ASSUME FlashCall \/ FlashOwnerCall, UNCHANGED <<poolVars, payout>>
      PROVE  CallInv'
  BY <1>2, BorrowKeeps, PayBackKeeps, FlashRestKeeps DEF FlashCall
<1>3. CASE Call
  BY <1>1, <1>2, <1>3, UserKeeps, PayoutKeeps, SettingsKeep, LicensingKeeps, ListingKeeps
     DEF Call, EndTransaction
<1>4. CASE OwnerEdit
  BY <1>1, <1>2, <1>4, PayoutKeeps, LicensingKeeps DEF OwnerEdit
<1> QED
  BY <1>3, <1>4

\* Every step of the protocol preserves the invariant.
LEMMA ProtocolStep == ProtocolInv /\ [ProtocolNext]_protocolVars => ProtocolInv'
<1> SUFFICES ASSUME ProtocolInv, [ProtocolNext]_protocolVars PROVE ProtocolInv'
  OBVIOUS
<1>1. ASSUME Call \/ OwnerEdit, edits' \in 0 .. MaxEdits PROVE ProtocolInv'
  BY <1>1, CallKeeps DEF ProtocolInv
<1>2. CASE ProtocolNext
  <2>1. Call \/ OwnerEdit
    BY <1>2 DEF ProtocolNext
  <2>2. edits' \in 0 .. MaxEdits
    BY <1>2, EditAssumption DEF ProtocolNext, ProtocolInv
  <2> QED
    BY <1>1, <2>1, <2>2
<1>3. CASE UNCHANGED protocolVars
  <2>1. UNCHANGED <<vars, wallet, pools, payoutVault, poolParameters, allowMultiple, hashed,
                    joined, flash, receipts, payout, edits>>
    BY <1>3 DEF protocolVars, poolVars
  <2>2. FluxKept /\ held' = held /\ CallInv
    BY <2>1, NothingKept DEF CallInv, ProtocolInv
  <2>3. OthersTyped' /\ FlashBacked'
    BY <2>1, <2>2, VaultsTyped DEF OthersTyped, FlashBacked, FluxKept
  <2>4. now <= now'
    BY <2>2, VaultsTyped DEF FluxKept
  <2>5. Moved
    BY <2>1, <2>2, <2>3, <2>4, VaultsTyped DEF Moved, FluxKept
  <2>6. CallInv'
    BY <2>2, <2>5, MovedKeeps
  <2> QED
    BY <2>1, <2>6 DEF ProtocolInv
<1> QED
  BY <1>2, <1>3

\* So it always holds.
LEMMA ProtocolInvariant == ProtocolSpec => []ProtocolInv
<1> QED
  BY ProtocolStart, ProtocolStep, PTL DEF ProtocolSpec

\* No vault or share of a pool is ever negative, a pool is of a listed collateral
\* and remembers rates, and only a recorded transaction has minted units: after
\* any calls of users, owner, pools, flash loans and payouts.
THEOREM ProtocolTypeCorrect == ProtocolSpec => []ProtocolTypeOK
<1>1. ProtocolInv => ProtocolTypeOK
  BY DEF ProtocolInv, CallInv, CallTyped, PoolsReady, PoolsTyped, OthersTyped, ProtocolTypeOK
<1> QED
  BY <1>1, ProtocolInvariant, PTL

\* Every fUSD in any vault or account is owed by a loan or burned by a receipt
\* that its transaction cannot end without: whatever the splits, fees, prices and
\* interest, and whatever the order in which flash loans are paid back.
THEOREM FusdIsOwed == ProtocolSpec => []EveryFusdOwed
<1>1. ProtocolInv => EveryFusdOwed
  <2> SUFFICES ASSUME ProtocolInv PROVE EveryFusdOwed
    OBVIOUS
  <2> DEFINE s == SumFunction(PoolFusd(pools))
             u == SumFunction([c \in Listed |-> flux.collaterals[c].uncharged])
             r == SumFunction(Flashed(receipts))
  <2>1. CallInv /\ AccountInv
    BY DEF ProtocolInv, CallInv
  <2>2. SupplyReconciles
    BY <2>1, SoundMeans
  <2>3. held + u = flux.circulating + unbacked
    BY <2>2 DEF SupplyReconciles
  <2>4. held = wallet + s + payoutVault + payout.fusd + flash.vault /\ unbacked = r
    BY <2>1 DEF CallInv, FusdPlaced, FlashBacked
  <2>5. EveryFusdOwed <=> wallet + s + payoutVault + payout.fusd + flash.vault + u
                          = flux.circulating + r
    BY DEF EveryFusdOwed, PoolFusd, Flashed
  <2> HIDE DEF s, u, r
  <2> QED
    BY <2>3, <2>4, <2>5
<1> QED
  BY <1>1, ProtocolInvariant, PTL

\* Whatever the pools, flash loans and payouts do around Flux, its index stays
\* exact, its totals add up and the collateral of every loan is there.
THEOREM FluxStaysSound ==
  ProtocolSpec => [](IndexConsistent /\ CirculationReconciles /\ SupplyReconciles
                     /\ CollateralBacked)
<1>1. ProtocolInv => IndexConsistent /\ CirculationReconciles /\ SupplyReconciles
                     /\ CollateralBacked
  <2> SUFFICES ASSUME AccountInv
      PROVE IndexConsistent /\ CirculationReconciles /\ SupplyReconciles /\ CollateralBacked
    BY DEF ProtocolInv, CallInv
  <2>1. CirculationReconciles /\ SupplyReconciles
    BY SoundMeans
  <2>2. CollateralBacked
    BY BackedMeans
  <2>3. IndexConsistent
    BY DEF AccountInv, IInv, StateOK, IndexConsistent
  <2> QED
    BY <2>1, <2>2, <2>3
<1> QED
  BY <1>1, ProtocolInvariant, PTL

-----------------------------------------------------------------------------
(* What no step may do.                                                    *)

\* The lowest rate is one.
LEMMA LowestIsOne ==
  ASSUME NEW f, NEW c, NEW i \in Nat, NEW j \in Nat, LowestInterest(f, c, i),
         LowestInterest(f, c, j)
  PROVE  i = j
<1> DEFINE S == {x \in StandardRates(f, c) : f.tiers[<<c, x>>].real >= 0}
<1>1. /\ (IF S = {} THEN i = 0 ELSE i \in S /\ \A x \in S : i <= x)
      /\ (IF S = {} THEN j = 0 ELSE j \in S /\ \A x \in S : j <= x)
  BY DEF LowestInterest
<1> HIDE DEF S
<1>2. S # {} => i <= j /\ j <= i
  BY <1>1
<1> QED
  BY <1>1, <1>2

\* After a charge the rate irredeemable loans pay next is not below the lowest
\* that standard loans had then.
THEOREM IrredeemableFollows == ProtocolSpec => IrredeemableRateFollows
<1> DEFINE Follows ==
      \A c \in DOMAIN pools, lowest \in Rates :
        /\ LowestInterest(flux, c, lowest)
        /\ poolParameters.historyLength > 0
        /\ MaxOf(pools'[c].history) < lowest
        => \A range \in ChargeRanges : ~ChargePoolInterest(c, range)
<1>1. ProtocolInv /\ [ProtocolNext]_protocolVars => [Follows]_protocolVars
  <2> SUFFICES ASSUME ProtocolInv, NEW c \in DOMAIN pools, NEW lowest \in Rates,
                      LowestInterest(flux, c, lowest), poolParameters.historyLength > 0,
                      MaxOf(pools'[c].history) < lowest, NEW range \in ChargeRanges,
                      ChargePoolInterest(c, range)
               PROVE  FALSE
    OBVIOUS
  <2> DEFINE interest == held' - held
             paid == PayoutPart(c, interest)
             rewards == LiquidityPart(c, interest)
  <2>1. PICK low \in Rates :
          /\ LowestInterest(flux, c, low)
          /\ pools' = [pools EXCEPT ![c].history = History(pools[c], low),
                                    ![c].rewards = @ + rewards,
                                    ![c].fusd = @ + (interest - paid - rewards)]
    BY Zenon DEF ChargePoolInterest
  <2> HIDE DEF interest, paid, rewards
  <2>2. Rates \subseteq Nat
    BY RatesAssumption
  <2>3. low = lowest
    BY <2>1, <2>2, LowestIsOne
  <2>4. /\ pools[c] \in Pool /\ poolParameters \in PoolParameters /\ now \in Nat
        /\ DOMAIN pools[c] = {"fusd", "coll", "units", "rewards", "history", "created",
                              "setting"}
    BY BeforeCall, VaultsTyped DEF ProtocolInv, Pool
  <2>5. pools'[c].history = History(pools[c], lowest)
    BY <2>1, <2>3, <2>4
  <2>6. History(pools[c], lowest) \in Seq(Rates) /\ lowest <= MaxOf(History(pools[c], lowest))
    BY <2>4, HistoryOK
  <2>7. MaxOf(pools'[c].history) \in Nat /\ lowest <= MaxOf(pools'[c].history)
    BY <2>2, <2>5, <2>6, MaxOfOK
  <2> QED
    BY <2>2, <2>7
<1> HIDE DEF Follows
<1>2. ProtocolSpec => [][Follows]_protocolVars
  BY <1>1, ProtocolInvariant, PTL DEF ProtocolSpec
<1> QED
  BY <1>2 DEF IrredeemableRateFollows, Follows

\* The calls on Flux that the proxy passes on change a tier only with a loan.
LEMMA UserTiers ==
  ASSUME AccountInv, ~SameRateMoves, UserCall, flux'.cdps = flux.cdps
  PROVE  flux'.tiers = flux.tiers
<1>1. /\ Ready(flux) /\ held \in Int /\ StateOK(flux) /\ now \in Nat
  BY TimeAssumption DEF AccountInv, Sound, Ready, IInv
<1>2. ASSUME NEW id \in Loans PROVE ~CloseCdp(id)
  BY <1>1, <1>2, CloseStep
<1>3. ASSUME NEW id \in Loans, RetrieveLeftoverCollateral(id)
      PROVE  flux'.tiers = flux.tiers
  <2>1. "tiers" \in DOMAIN flux
    BY <1>1 DEF Ready, Accounted, Shaped, Fields
  <2> QED
    BY <1>3, <2>1 DEF RetrieveLeftoverCollateral, TakeFromLeftovers
<1>4. ASSUME NEW id \in Loans, NEW i \in Interests, NEW b \in Registered \cup {Nobody},
             NEW price \in Prices
      PROVE  ~ChangeCdpInterest(id, i, b, price)
  <2>1. price \in Nat \ {0}
    BY <1>4, PriceAssumption
  <2> QED
    BY <1>1, <1>4, <2>1, ChangeCdpInterestStep
<1>5. ASSUME NEW c \in Listed, NEW deposit \in Deposits, NEW mint \in Mints, NEW i \in Interests,
             NEW b \in Registered \cup {Nobody}, NEW price \in Prices
      PROVE  ~OpenCdp(c, deposit, mint, i, b, price)
  <2> SUFFICES ASSUME OpenCdp(c, deposit, mint, i, b, price) PROVE FALSE
    OBVIOUS
  <2>0. price \in Nat \ {0}
    BY <1>5, PriceAssumption
  <2>1. StateOK(flux')
    BY <1>1, <1>5, <2>0, OpenOK
  <2> QED
    BY <1>1, <1>5, <2>0, <2>1, OpenCdpStep
<1> QED
  BY <1>2, <1>3, <1>4, <1>5 DEF UserCall

\* A call that changes a tier and no loan is a charge.
LEMMA TiersCharged ==
  ASSUME ProtocolInv, ~SameRateMoves, Call \/ OwnerEdit, flux'.cdps = flux.cdps
  PROVE  \/ flux'.tiers = flux.tiers
         \/ Alone /\ allowMultiple' = allowMultiple
<1>1. /\ AccountInv /\ Ready(flux) /\ held \in Int /\ now \in Nat
      /\ "tiers" \in DOMAIN flux
  BY TimeAssumption
     DEF ProtocolInv, CallInv, AccountInv, Sound, Ready, IInv, Accounted, Shaped, Fields
<1>2. CASE UserCall
  BY <1>1, <1>2, UserTiers
<1>3. CASE PoolCall
  <2>1. ASSUME NEW c \in DOMAIN pools, NEW range \in ChargeRanges, ChargePoolInterest(c, range)
        PROVE  Alone /\ allowMultiple' = allowMultiple
    BY SMTT(30), <2>1 DEF ChargePoolInterest
  <2>2. ASSUME NEW id \in Loans, NEW price \in Prices
        PROVE  ~LiquidateWithPool(id, price) /\ ~MarkWithPool(id, price)
    <3>0. price \in Nat \ {0}
      BY <2>2, PriceAssumption
    <3>1. ~Liquidate(id, price)
      BY <1>1, <2>2, <3>0, LiquidateStep
    <3>2. ~MarkForLiquidation(id, price)
      BY SMTT(30), <1>1, <2>2, <3>0, MarkStep
    <3> QED
      BY <3>1, <3>2 DEF LiquidateWithPool, MarkWithPool
  <2>3. ASSUME NEW c \in DOMAIN pools, NEW fusd \in Contributions, NEW keep \in BOOLEAN,
               NEW price \in Prices, ContributeToPool(c, fusd, keep, price)
        PROVE  flux' = flux
    BY <2>3 DEF ContributeToPool, vars
  <2>4. ASSUME NEW c \in DOMAIN pools, NEW share \in WithdrawnShares, WithdrawFromPool(c, share)
        PROVE  flux' = flux
    BY <2>4 DEF WithdrawFromPool, vars
  <2>5. ASSUME NEW c \in DOMAIN pools, NEW fusd \in Purchases, NEW price \in Prices,
               BuyCollateralFromPool(c, fusd, price)
        PROVE  flux' = flux
    BY <2>5 DEF BuyCollateralFromPool, vars
  <2>6. ASSUME NEW c \in DOMAIN pools, TakeLiquidityRewards(c)
        PROVE  flux' = flux
    BY <2>6 DEF TakeLiquidityRewards, vars
  <2>7. \/ flux' = flux
        \/ Alone /\ allowMultiple' = allowMultiple
    BY <1>3, <2>1, <2>2, <2>3, <2>4, <2>5, <2>6, Zenon DEF PoolCall
  <2> QED
    BY <2>7
<1>4. CASE FlashCall \/ FlashOwnerCall
  BY <1>4 DEF FlashCall, FlashOwnerCall, BorrowFlash, PayBack, RetrieveFlashInterest,
              SetFlash, FreeFusd, BurnFusd, vars
<1>5. CASE PayoutCall \/ PayoutOwnerCall
  BY <1>5 DEF PayoutCall, PayoutOwnerCall, ClaimRewards, FetchRewardsFromStabilityPools,
              ReceiveRewards, TakePayoutComponentRewards, TakePayments, SetPayout, vars
<1>6. CASE EndTransaction \/ Tick \/ PoolOwnerCall
  BY <1>6 DEF EndTransaction, Tick, PoolOwnerCall, EditPool, SetParameters,
              SetHistoryParameters, SetAllowMultipleActions, vars
<1>7. CASE Listing \/ Licensing
  BY <1>1, <1>7 DEF Listing, Licensing, NewCollateral, CreatePrivilegedBorrower
<1> QED
  BY <1>2, <1>3, <1>4, <1>5, <1>6, <1>7, Zenon DEF Call, OwnerEdit

\* While multiple actions are not allowed, a transaction that minted units of a
\* pool charges no interest, in whatever order its calls come.  Tiers also change
\* with a loan; a loan that moves to the rate it has would change its tier and
\* could leave its NFT as it is, which is why these moves are left out.
THEOREM ContributionsWait == ~SameRateMoves => (ProtocolSpec => ContributorsWait)
<1> SUFFICES ASSUME ~SameRateMoves PROVE ProtocolSpec => ContributorsWait
  OBVIOUS
<1> DEFINE Waits ==
      joined # {} /\ flux.tiers # flux'.tiers /\ flux.cdps = flux'.cdps => allowMultiple
<1>1. ProtocolInv /\ [ProtocolNext]_protocolVars => [Waits]_protocolVars
  <2> SUFFICES ASSUME ProtocolInv, ProtocolNext, joined # {}, flux.tiers # flux'.tiers,
                      flux'.cdps = flux.cdps
               PROVE  allowMultiple
    OBVIOUS
  <2>1. Call \/ OwnerEdit
    BY DEF ProtocolNext
  <2>2. Alone
    BY <2>1, TiersCharged
  <2>3. hashed
    BY DEF ProtocolInv, CallInv, CallTyped, PoolsReady
  <2> QED
    BY <2>2, <2>3 DEF Alone
<1> HIDE DEF Waits
<1>2. ProtocolSpec => [][Waits]_protocolVars
  BY <1>1, ProtocolInvariant, PTL DEF ProtocolSpec
<1> QED
  BY <1>2 DEF ContributorsWait, Waits

=============================================================================
