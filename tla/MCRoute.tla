------------------------------- MODULE MCRoute -------------------------------
(***************************************************************************)
(* A small instance of the redemption routes: XRD, the LSU pool's token    *)
(* that is priced through XRD, and a collateral with a market of its own.  *)
(* The unit of a Decimal is 1/240.                                         *)
(***************************************************************************)
EXTENDS RouteProperties

CONSTANTS
  Token,   \* a collateral with a market of its own
  Other    \* a resource that is no collateral

\* One tick doubles what a rate of ONE charges, and halves the base rate.
MCGrowth == [i \in Rates |-> [t \in 0 .. MaxTime |-> IF i = 0 THEN ONE ELSE (2 ^ t) * ONE]]
MCDecay == [t \in 0 .. MaxTime |-> ONE \div (2 ^ t)]

\* XRD's price and the worth of the LSU pool's token double in the first tick.
XrdMarket == "XRD_USDT"
TokenMarket == "TOKEN_USDT"
MCMarkets == {XrdMarket, TokenMarket}
MCQuote ==
  [market \in MCMarkets |->
     [t \in 0 .. MaxTime |-> IF market = XrdMarket /\ t > 0 THEN 2 * ONE ELSE ONE]]
MCLsuValue == [t \in 0 .. MaxTime |-> IF t > 0 THEN 2 * ONE ELSE ONE]
\* Identifiers as after instantiate_oracle, and one that was added.
MCInitialIdentifiers ==
  [c \in {Xrd, LsuLp, Token} |-> IF c = Token THEN TokenMarket ELSE XrdMarket]
MCIdentifiers == {<<Other, TokenMarket>>}
\* The orders in which the owner may have the collaterals redeemed.
MCOrders == {<<Xrd, LsuLp, Token>>, <<Token, LsuLp>>}

\* Amounts and price limits.
NoAmounts == {}
Ones == {ONE}
Twos == {2 * ONE}
OneOrTwo == {ONE, 2 * ONE}
Threes == {3 * ONE}
Sixes == {6 * ONE}
WholeRange == {<<Irredeemable, 2 * ONE>>}

\* The parameters of the loans and of a pool that takes all the interest.
MCParameters ==
  [minimumMint |-> ONE, maxVectorLength |-> 2, liquidationFine |-> ONE \div 10,
   stopLiquidations |-> FALSE, stopOpenings |-> FALSE,
   stopClosings |-> FALSE, stopRedemption |-> FALSE,
   maxInterest |-> 2 * ONE, interestInterval |-> ONE, cooldown |-> 1,
   extraDays |-> 0, tagFee |-> 2 * ONE, noticeFee |-> 2 * ONE]
MCPoolParameters ==
  [payout |-> 0, liquidity |-> 0, pool |-> ONE, modifier |-> ONE, flatFee |-> 0,
   percentageFee |-> 0, liquidatorFlat |-> 0, liquidatorShare |-> 0,
   historyLength |-> 1, interval |-> 0]
MCSettings ==
  {[payout |-> Default, liquidity |-> Default, pool |-> Default,
    allowBuys |-> TRUE, modifier |-> Default]}

\* A fee of at most 1/2, with 1/4 added for all that circulates; no fee.
MCFee == [max |-> ONE \div 2, min |-> ONE \div 8, spike |-> ONE \div 4]
MCFees == {[max |-> 0, min |-> 0, spike |-> 0]}

=============================================================================
