-------------------------- MODULE RouteProperties --------------------------
(***************************************************************************)
(* What redemption by the stability pools promises: fresh prices, a plan   *)
(* that treats collaterals alike and goes as far as its limit allows, and  *)
(* a redemption that carries the plan out.                                 *)
(***************************************************************************)
EXTENDS Redemptions

-----------------------------------------------------------------------------
(* Type invariant of what Oracle and Redemptions add to the pools.         *)

PlanEntry == [target : Nat, current : Nat, count : Nat, debts : Seq(Nat)]

RouteOK ==
  \/ route = NoRoute
  \/ /\ route.stage \in {"planning", "redeeming"}
     /\ route.payment \in Nat
     /\ DOMAIN route.plan \subseteq DOMAIN pools
     /\ \A c \in DOMAIN route.plan :
          /\ route.plan[c] \in PlanEntry
          /\ route.plan[c].count <= Len(route.plan[c].debts)
          /\ route.plan[c].current <= route.plan[c].target
     /\ route.stage = "redeeming" =>
          /\ route.fraction \in 0 .. ONE /\ route.share \in 0 .. ONE
          /\ \A c \in DOMAIN route.batch : route.batch[c] \in [payment : Nat, count : Nat]

\* Amounts are never negative, a plan stays within its targets and the loans
\* there are, the redeemer's share is a fraction, and neither the multiplier
\* nor the last redemption is of a later time.
RouteTypeOK ==
  /\ wallet \in Nat
  /\ DOMAIN oracle = {"identifiers", "maxPriceAge", "multiplier", "updated",
                      "maxMultiplierAge"}
  /\ \A c \in DOMAIN oracle.identifiers : oracle.identifiers[c] \in Markets
  /\ oracle.maxPriceAge \in Nat /\ oracle.maxMultiplierAge \in Nat
  /\ oracle.multiplier \in Nat /\ oracle.updated \in 0 .. now
  /\ fee \in [base : Nat, last : 0 .. now, max : 0 .. ONE, min : 0 .. ONE, spike : Nat]
  /\ RouteOK

-----------------------------------------------------------------------------
(* Invariants.                                                             *)

\* The price with which a collateral is redeemed is that of some message about
\* the collateral's own market that is younger than max_price_age, and for the
\* LSU pool's token times a value of that token that is no older than its
\* own limit: reusing XRD's price for it, in whichever order the messages
\* come, makes no old price pass.
PricesFresh ==
  route.stage # "none" =>
    \A c \in DOMAIN route.plan : \E message \in Messages :
      LET quote == Quote[message.market][message.created]
          price == flux.collaterals[c].price
      IN  /\ message.market = oracle.identifiers[c]
          /\ message.created + oracle.maxPriceAge > now
          /\ IF c = LsuLp
             THEN \E t \in 0 .. now : /\ now <= t + oracle.maxMultiplierAge
                                      /\ price = Mul(quote, LsuValue[t])
             ELSE price = quote

\* The part of the target of c that its first n loans reach.
Reach(c, n) ==
  LET s == route.plan[c]
      debt == SumFunction([m \in 1 .. Lesser(n, Len(s.debts)) |-> s.debts[m]])
  IN  Div(Lesser(s.target, debt), s.target)

\* No other choice of as many loans reaches a larger part of the target of
\* every collateral: taking the one furthest below its target each time, one
\* loan more of it, is the best that max_redemptions allows, although loans
\* differ in size and a loan can reach beyond its target.
RouteBalanced ==
  route.stage = "redeeming" /\ Wanted # {} =>
    \A counts \in [Wanted -> 0 .. route.max] :
      SumFunction(counts) <= route.max
        => \E c \in Wanted : Reach(c, counts[c]) <= route.fraction

\* When a route is done, all that was planned has been redeemed: the loans
\* that redemption came to, one by one and each time from the index as the
\* last one left it, are those that were planned with, and they were enough.
RouteCarriedOut ==
  route.stage = "redeeming" /\ Pending = {} =>
    \A c \in DOMAIN route.batch : route.batch[c].payment = 0

=============================================================================
