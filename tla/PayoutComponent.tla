-------------------------- MODULE PayoutComponent --------------------------
(***************************************************************************)
(* The PayoutComponent (src/payout_component.rs): whoever pays the amount  *)
(* required of the payment token receives the fUSD that the stability      *)
(* pools set aside for payouts.                                            *)
(***************************************************************************)
EXTENDS StabilityPools

CONSTANTS
  InitialPayment,      \* the payment required after instantiate
  PayoutSettings,      \* arguments of set_parameters
  RewardGifts,         \* what receive_rewards is called with
  MaxPayments          \* bound: the most of the payment token that is kept

VARIABLE payout

ASSUME PayoutAssumption ==
  /\ InitialPayment \in Nat \ {0} /\ MaxPayments \in Nat
  /\ PayoutSettings \subseteq [required : Nat \ {0}, burn : BOOLEAN]
  /\ RewardGifts \subseteq Nat

PayoutInit ==
  payout = [fusd |-> 0, payments |-> 0, required |-> InitialPayment, burn |-> TRUE]

\* Of the pools' state claim_payout_rewards empties the payout vault only.
ClaimPayoutRewards ==
  /\ payoutVault' = 0
  /\ UNCHANGED <<pools, poolParameters, allowMultiple, hashed, joined>>

\* The caller pays what is required, in a token that no other part knows.
ClaimRewards ==
  /\ ClaimPayoutRewards
  /\ Receive(payout.fusd + payoutVault)
  /\ payout' = [payout EXCEPT
                  !.fusd = 0,
                  !.payments = IF payout.burn THEN @ ELSE @ + payout.required]
  /\ payout'.payments <= MaxPayments
  /\ UNCHANGED vars

FetchRewardsFromStabilityPools ==
  /\ ClaimPayoutRewards
  /\ payout' = [payout EXCEPT !.fusd = @ + payoutVault]
  /\ UNCHANGED <<vars, wallet>>

ReceiveRewards(amount) ==
  /\ Receive(-amount)
  /\ payout' = [payout EXCEPT !.fusd = @ + amount]
  /\ UNCHANGED <<vars, poolVars>>

TakePayoutComponentRewards ==
  /\ Receive(payout.fusd)
  /\ payout' = [payout EXCEPT !.fusd = 0]
  /\ UNCHANGED <<vars, poolVars>>

TakePayments ==
  /\ payout' = [payout EXCEPT !.payments = 0]
  /\ UNCHANGED <<vars, wallet, poolVars>>

\* set_parameters.
SetPayout(s) ==
  /\ payout' = [payout EXCEPT !.required = s.required, !.burn = s.burn]
  /\ UNCHANGED <<vars, wallet, poolVars>>

PayoutCall ==
  \/ ClaimRewards
  \/ FetchRewardsFromStabilityPools
  \/ \E amount \in RewardGifts : ReceiveRewards(amount)
  \/ TakePayoutComponentRewards
  \/ TakePayments

PayoutOwnerCall == \E s \in PayoutSettings : SetPayout(s)

=============================================================================
