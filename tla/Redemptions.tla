---------------------------- MODULE Redemptions ----------------------------
(***************************************************************************)
(* Redemption by the stability pools (perform_normal_redemptions in        *)
(* src/stability_pools.rs): a payment is spread over the collaterals in    *)
(* proportion to the debt their pools do not hold, Flux plans how many     *)
(* loans of each to redeem, sets a fee that grows with use and decays with *)
(* time, and redeems them.                                                 *)
(*                                                                         *)
(* A call is one transaction and appears here as a run of steps, the       *)
(* iterations of its loops; nothing else happens while `route` has one.    *)
(* Of a call that fails half-way nothing remains; here it just stops.      *)
(***************************************************************************)
EXTENDS StabilityPools, Oracle, FiniteSetsExt

CONSTANTS
  Payments,          \* what redemptions is called with
  MaxRedemptions,    \* its limits on the number of loans
  PriceOrders,       \* for which collaterals, in which order, it has messages
  InitialFee,        \* redemption_base_rate and its parameters after instantiate
  Decay,             \* Decay[t]: redemption_halflife_k to the power of t
  FeeSettings,       \* arguments of set_redemption_parameters
  LastOpening,       \* bound: the last tick of loans opened and pools paid into
  EditedLoans,       \* bound: settings change, after that tick, while at most
                     \* this many loans were opened
  MaxEdits           \* bound: how many calls of owners change a setting

VARIABLES
  fee,      \* redemption_base_rate, last_redemption and the fee's parameters
  route,    \* the running call of redemptions, or NoRoute
  edits     \* how many settings have changed

ASSUME RouteAssumption ==
  /\ Payments \subseteq Nat /\ MaxRedemptions \subseteq Nat
  /\ Decay \in [0 .. MaxTime -> 0 .. ONE]
  /\ InitialFee \in [max : 0 .. ONE, min : 0 .. ONE, spike : Nat]
  /\ FeeSettings \subseteq [max : 0 .. ONE, min : 0 .. ONE, spike : Nat]
  /\ PriceOrders \subseteq Seq(Collaterals \cup {Xrd, LsuLp})

NoRoute == [stage |-> "none"]

routeVars == <<vars, wallet, poolVars, oracle, fee, route, edits>>

-----------------------------------------------------------------------------
(* Planning.                                                               *)

\* Redemption comes to loan a of a collateral before it comes to loan b.
Before(f, a, b) ==
  LET d == f.cdps[a] e == f.cdps[b]
  IN  \/ d.interest >= 0 /\ (e.interest < 0 \/ d.interest < e.interest)
      \/ d.interest = e.interest /\ d.ratio < e.ratio
      \/ /\ d.interest = e.interest /\ d.ratio = e.ratio
         /\ \E m, n \in DOMAIN f.ratios[Tier(d)][d.ratio] :
              /\ m < n
              /\ f.ratios[Tier(d)][d.ratio][m] = a
              /\ f.ratios[Tier(d)][d.ratio][n] = b

\* get_next_redemptions: the real debts of the first loans in that order.
NextRedemptions(f, c, amount) ==
  LET open == {id \in DOMAIN f.cdps : Active(f.cdps[id]) /\ f.cdps[id].collateral = c}
      ids == CHOOSE ids \in [1 .. Cardinality(open) -> open] :
               \A m, n \in DOMAIN ids : m < n => Before(f, ids[m], ids[n])
      debt(id) == LET k == Tier(f.cdps[id])
                  IN  Mul(f.cdps[id].pool, Div(f.tiers[k].real, f.tiers[k].pool))
  IN  [n \in 1 .. Lesser(Cardinality(open), amount) |-> debt(ids[n])]

\* The debt of a collateral that its pool does not hold.
Uncovered(c) == flux.collaterals[c].debt - pools[c].fusd

StartRoute(fusd, inputs, max) ==
  LET checked == CheckPriceInputs(inputs)
      chosen == {c \in DOMAIN pools : Uncovered(c) > 0}
      total == SumFunction([c \in chosen |-> Uncovered(c)])
  IN  /\ chosen # {}
      /\ checked.valid /\ chosen \subseteq DOMAIN checked.prices
      /\ wallet' = wallet - fusd
      /\ oracle' = checked.oracle
      /\ flux' = [flux EXCEPT !.collaterals =
           [c \in DOMAIN @ |-> IF c \in chosen THEN [@[c] EXCEPT !.price = checked.prices[c]]
                                               ELSE @[c]]]
      /\ route' = [stage |-> "planning", payment |-> fusd, max |-> max, left |-> max,
                   plan |-> [c \in chosen |->
                     [target |-> Mul(Div(Uncovered(c), total), fusd),
                      current |-> 0, count |-> 0,
                      debts |-> NextRedemptions(flux, c, max)]]]
      /\ UNCHANGED <<held, unbacked, now, poolVars, fee, edits>>

Fraction(c) == Div(route.plan[c].current, route.plan[c].target)

\* The collaterals with another loan to redeem and a target not yet reached.
Wanting ==
  {c \in DOMAIN route.plan :
     LET s == route.plan[c]
     IN  s.count < Len(s.debts) /\ s.current < s.target /\ Fraction(c) < ONE}

\* Fault: the lowest fraction found is not kept, so any below one will do.
FurthestBelowNotKept(c) == Fraction(c) < ONE

\* Of several the code takes the first listed.
FurthestBelow(c) == \A other \in Wanting : Fraction(c) <= Fraction(other)

PlanRedemption ==
  /\ route.stage = "planning" /\ route.left > 0
  /\ \E c \in Wanting :
       /\ FurthestBelow(c)
       /\ route' = [route EXCEPT
            !.left = @ - 1,
            !.plan[c].current = Lesser(route.plan[c].target,
                                       @ + route.plan[c].debts[route.plan[c].count + 1]),
            !.plan[c].count = @ + 1]
  /\ UNCHANGED <<vars, wallet, poolVars, oracle, fee, edits>>

-----------------------------------------------------------------------------
(* Scaling the plan down, and the fee.                                     *)

Wanted == {c \in DOMAIN route.plan : route.plan[c].target # 0}

MinFraction == IF Wanted = {} THEN ONE ELSE Min({Fraction(c) : c \in Wanted})

\* Fault: the target itself, not the part of it that all collaterals reach.
PlannedWholeTarget(c) == route.plan[c].target

Planned(c) == Lesser(route.plan[c].current, Mul(route.plan[c].target, MinFraction))

\* The base rate a redemption finds.
DecayedRate == Mul(fee.base, Decay[now - fee.last])

\* The payment is enough for all collaterals, whose targets are parts of it.
FinishPlan ==
  LET used == SumFunction([c \in Wanted |-> Planned(c)])
      spike == Mul(fee.spike, Div(used, flux.circulating))
      rate == DecayedRate + spike \div 2
      chosen == {c \in Wanted : route.plan[c].count # 0 /\ Planned(c) # 0}
  IN  /\ route.stage = "planning" /\ (route.left = 0 \/ Wanting = {})
      /\ flux.circulating # 0
      /\ fee' = [fee EXCEPT !.base = DecayedRate + spike]
      /\ route' = [stage |-> "redeeming", max |-> route.max, plan |-> route.plan,
                   fraction |-> MinFraction,
                   payment |-> route.payment - SumFunction([c \in chosen |-> Planned(c)]),
                   share |-> ONE - Lesser(fee.max, rate + fee.min),
                   batch |-> [c \in chosen |-> [payment |-> Planned(c),
                                                count |-> route.plan[c].count]]]
      /\ UNCHANGED <<vars, wallet, poolVars, oracle, edits>>

-----------------------------------------------------------------------------
(* Redeeming.                                                              *)

Pending == {c \in DOMAIN route.batch : route.batch[c].payment # 0 /\ route.batch[c].count # 0}

\* One loan, by one iteration of batch_redemption.  Collaterals have no loan
\* in common, so their order does not matter.
RedeemNext ==
  /\ route.stage = "redeeming" /\ Pending # {}
  /\ LET c == CHOOSE c \in Pending : TRUE
     IN  /\ Redemption(c, route.batch[c].payment, route.share, flux.collaterals[c].price)
         /\ route' = [route EXCEPT !.batch[c].payment = @ - (held - held'),
                                   !.batch[c].count = @ - 1]
         /\ fee' = [fee EXCEPT !.last = IF RatesInUse(flux, c) = {} THEN @ ELSE now]
  /\ UNCHANGED <<wallet, poolVars, oracle, edits>>

\* What was not used returns to the caller.
FinishRoute ==
  /\ route.stage = "redeeming" /\ Pending = {}
  /\ wallet' = wallet + route.payment
                 + SumFunction([c \in DOMAIN route.batch |-> route.batch[c].payment])
  /\ route' = NoRoute
  /\ UNCHANGED <<vars, poolVars, oracle, fee, edits>>

\* The halflife is a constant here.
SetRedemptionParameters(s) ==
  fee' = [fee EXCEPT !.max = s.max, !.min = s.min, !.spike = s.spike]

-----------------------------------------------------------------------------
RouteInit ==
  /\ Init /\ wallet = 0
  /\ PoolInit /\ OracleInit
  /\ fee = [base |-> 0, last |-> 0, max |-> InitialFee.max, min |-> InitialFee.min,
            spike |-> InitialFee.spike]
  /\ route = NoRoute /\ edits = 0

\* Calls at a price that the oracle checked for one collateral.
PricedCall ==
  \E c \in Listed, message \in Messages :
    LET checked == CheckPriceInput(c, message)
    IN  /\ now <= LastOpening
        /\ checked.valid
        /\ oracle' = checked.oracle
        /\ \/ /\ \E deposit \in Deposits, mint \in Mints, i \in Interests :
                   OpenCdp(c, deposit, mint, i, Nobody, checked.prices[c])
              /\ Receive(held' - held)
              /\ UNCHANGED poolVars
           \/ \E fusd \in Contributions :
                ContributeToPool(c, fusd, TRUE, checked.prices[c])

\* A message about another market is refused, or not looked at at all.
RedemptionsCall ==
  \E order \in PriceOrders : \E created \in [DOMAIN order -> 0 .. now] :
    LET inputs == [n \in DOMAIN order |->
                     [collateral |-> order[n],
                      message |-> [market |-> oracle.identifiers[order[n]],
                                   created |-> created[n]]]]
    IN  \E fusd \in Payments, max \in MaxRedemptions :
          fusd <= wallet /\ StartRoute(fusd, inputs, max)

RouteListing ==
  \E c \in Collaterals \cap DOMAIN oracle.identifiers, mcr \in Mcrs, price \in Prices,
     setting \in PoolSettings :
    NewCollateral(c, mcr, price) /\ NewPool(c, setting)

RouteOwnerCall ==
  \/ OracleOwnerCall /\ UNCHANGED fee
  \/ (\E s \in FeeSettings : SetRedemptionParameters(s)) /\ UNCHANGED oracle

RouteNext ==
  \/ PlanRedemption \/ FinishPlan \/ RedeemNext \/ FinishRoute
  \/ /\ route.stage = "none"
     /\ \/ RedemptionsCall
        \/ PricedCall /\ UNCHANGED <<fee, route, edits>>
        \/ \E c \in DOMAIN pools, range \in ChargeRanges :
             ChargePoolInterest(c, range) /\ UNCHANGED <<oracle, fee, route, edits>>
        \/ RouteListing /\ UNCHANGED <<oracle, fee, route, edits>>
        \/ Tick /\ hashed' = FALSE /\ joined' = {}
             /\ UNCHANGED <<wallet, pools, payoutVault, poolParameters, allowMultiple,
                            oracle, fee, route, edits>>
        \/ UpdateLsuMultiplier /\ UNCHANGED <<vars, wallet, poolVars, fee, route, edits>>
        \/ /\ RouteOwnerCall
           /\ now > LastOpening /\ flux.cdpCounter <= EditedLoans
           /\ edits < MaxEdits /\ edits' = edits + 1
           /\ UNCHANGED <<vars, wallet, poolVars, route>>

RouteSpec == RouteInit /\ [][RouteNext]_routeVars

=============================================================================
