------------------------------- MODULE MCFlux -------------------------------
(***************************************************************************)
(* Small instances of the Flux component.  The unit of a Decimal is 1/240, *)
(* so that the quotients that occur are exact; a tick stands for a period  *)
(* over which the rate ONE doubles a debt.                                 *)
(***************************************************************************)
EXTENDS FluxProperties

\* (1 + i) ^ t, in steps of one tick.
MCGrowth ==
  [i \in Rates |->
    [t \in 0 .. MaxTime |->
      LET power[n \in Nat] == IF n = 0 THEN ONE ELSE Mul(power[n - 1], ONE + i)
      IN  power[t]]]

\* Amounts, prices and ratios.
Ones == {ONE}
Twos == {2 * ONE}
Fours == {4 * ONE}
NoAmounts == {}

MCParameters ==
  [minimumMint |-> ONE, maxVectorLength |-> 2, liquidationFine |-> ONE \div 10,
   stopLiquidations |-> FALSE, stopOpenings |-> FALSE,
   stopClosings |-> FALSE, stopRedemption |-> FALSE,
   maxInterest |-> 2 * ONE, interestInterval |-> ONE, cooldown |-> 1,
   extraDays |-> 0, tagFee |-> 2 * ONE, noticeFee |-> 2 * ONE]

\* An up-front fee of one tick's interest, and no room for a second loan at
\* a ratio that is taken.
MCFeeParameters == [MCParameters EXCEPT !.extraDays = 1, !.maxVectorLength = 1]

\* Notices and tags that cost nothing.
MCFreeNotice == [MCParameters EXCEPT !.tagFee = 0, !.noticeFee = 0]

\* charge_interest over all rates, and as the stability pools call it, up to
\* a rate and from it.
WholeRange == {<<Irredeemable, 2 * ONE>>}
SplitRanges == {<<Irredeemable, ONE>>, <<ONE, 2 * ONE>>}

\* A borrower with an opt-out and a notice of one tick; one with neither.
MCBorrowerTerms ==
  {[optOut |-> TRUE, notice |-> 1, maxCoupled |-> 1],
   [optOut |-> FALSE, notice |-> NoNotice, maxCoupled |-> 1]}

MCStops ==
  {[liquidations |-> s, openings |-> s, closings |-> s, redemption |-> s] :
     s \in BOOLEAN}
\* Openings alone are stopped, and resumed.
MCOpeningStops ==
  {[liquidations |-> FALSE, openings |-> s, closings |-> FALSE, redemption |-> FALSE] :
     s \in BOOLEAN}
MCFines == {[fine |-> 0, noticeFee |-> 0, tagFee |-> 0]}
MCInterestSettings ==
  {[max |-> ONE, interval |-> ONE, cooldown |-> 0, days |-> 1]}

=============================================================================
