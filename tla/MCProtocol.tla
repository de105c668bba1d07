----------------------------- MODULE MCProtocol -----------------------------
(***************************************************************************)
(* A small instance of the protocol: one collateral and its pool, a flash  *)
(* loan and the payout of rewards.  The unit of a Decimal is 1/240, and a  *)
(* tick is a period over which the rate ONE doubles a debt.                *)
(***************************************************************************)
EXTENDS ProtocolProperties

\* (1 + i) ^ t, in steps of one tick.
MCGrowth ==
  [i \in Rates |->
    [t \in 0 .. MaxTime |->
      LET power[n \in Nat] == IF n = 0 THEN ONE ELSE Mul(power[n - 1], ONE + i)
      IN  power[t]]]

\* Amounts and price limits.
NoAmounts == {}
Ones == {ONE}
Twos == {2 * ONE}
Fours == {4 * ONE}
Sixes == {6 * ONE}
WholeRange == {<<Irredeemable, 2 * ONE>>}

\* The parameters of the loans and of a privileged borrower.
MCParameters ==
  [minimumMint |-> ONE, maxVectorLength |-> 2, liquidationFine |-> ONE \div 10,
   stopLiquidations |-> FALSE, stopOpenings |-> FALSE,
   stopClosings |-> FALSE, stopRedemption |-> FALSE,
   maxInterest |-> 2 * ONE, interestInterval |-> ONE, cooldown |-> 1,
   extraDays |-> 0, tagFee |-> 2 * ONE, noticeFee |-> 2 * ONE]
MCBorrowerTerms == {[optOut |-> TRUE, notice |-> 1, maxCoupled |-> 1]}

\* Shares of the interest, the modifier and the fees a pool starts with.
MCPoolParameters ==
  [payout |-> ONE \div 8, liquidity |-> ONE \div 4, pool |-> (5 * ONE) \div 8,
   modifier |-> ONE \div 2, flatFee |-> 0, percentageFee |-> 0,
   liquidatorFlat |-> 0, liquidatorShare |-> ONE \div 4,
   historyLength |-> 2, interval |-> 0]

\* What the owner may set: a pool that follows the defaults, or one with
\* shares and a modifier of its own that is closed to buyers.
MCSettings ==
  {[payout |-> Default, liquidity |-> Default, pool |-> Default,
    allowBuys |-> TRUE, modifier |-> Default]}
MCTwoSettings == MCSettings \cup
  {[payout |-> 0, liquidity |-> 0, pool |-> ONE, allowBuys |-> FALSE, modifier |-> ONE]}

\* What the owner may set for flash loans, histories, pools and payouts.
MCFlashSettings == {[interest |-> ONE \div 2, enabled |-> TRUE]}
MCHistorySettings == {[length |-> 1, interval |-> 1]}
MCPoolParameterSettings ==
  {[payout |-> 0, liquidity |-> 0, pool |-> ONE, modifier |-> ONE \div 2,
   flatFee |-> ONE \div 2, percentageFee |-> ONE \div 4]}
MCPayoutSettings == {[required |-> 1, burn |-> FALSE]}

=============================================================================
