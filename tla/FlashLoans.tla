----------------------------- MODULE FlashLoans -----------------------------
(***************************************************************************)
(* The FlashLoans component (src/flash_loans.rs): fUSD that Flux mints for *)
(* the time of one transaction.  A receipt that cannot be deposited makes  *)
(* the transaction fail unless pay_back has burned it.                     *)
(***************************************************************************)
EXTENDS Transactions

CONSTANTS
  FlashAmounts,    \* what borrow is called with
  FlashSettings,   \* arguments of settings
  MaxReceipts      \* bound: how many flash loans are outstanding at once

VARIABLES
  flash,      \* the component's settings and its vault of interest
  receipts    \* the outstanding receipts of the running transaction

ASSUME FlashAssumption ==
  /\ FlashAmounts \subseteq Nat /\ MaxReceipts \in Nat
  /\ FlashSettings \subseteq [interest : Nat, enabled : BOOLEAN]

FlashInit ==
  /\ flash = [interest |-> 0, enabled |-> TRUE, vault |-> 0]
  /\ receipts = <<>>

\* settings.
SetFlash(s) ==
  /\ flash' = [flash EXCEPT !.interest = s.interest, !.enabled = s.enabled]
  /\ UNCHANGED <<vars, wallet, receipts>>

BorrowFlash(amount) ==
  /\ flash.enabled
  /\ Len(receipts) < MaxReceipts
  /\ receipts' = Append(receipts, [amount |-> amount, interest |-> flash.interest])
  /\ FreeFusd(amount)
  /\ Receive(amount)
  /\ UNCHANGED flash

\* Fault: the interest that is set now, not the receipt's, is burned with it.
BurnedWithInterest(receipt) == receipt.amount + Mul(flash.interest, receipt.amount)

\* What pay_back burns, and what it keeps.
Burned(receipt) == receipt.amount
Interest(receipt) == Mul(receipt.interest, receipt.amount)

PayBack(n) ==
  LET receipt == receipts[n]
  IN  /\ wallet >= Mul(receipt.amount, ONE + receipt.interest)
      /\ BurnFusd(Burned(receipt))
      /\ Receive(-(Burned(receipt) + Interest(receipt)))
      /\ flash' = [flash EXCEPT !.vault = @ + Interest(receipt)]
      /\ receipts' = [m \in 1 .. Len(receipts) - 1 |->
                        IF m < n THEN receipts[m] ELSE receipts[m + 1]]

\* retrieve_interest.
RetrieveFlashInterest ==
  /\ flash.vault > 0
  /\ flash' = [flash EXCEPT !.vault = 0]
  /\ Receive(flash.vault)
  /\ UNCHANGED <<vars, receipts>>

FlashCall ==
  \/ \E amount \in FlashAmounts : BorrowFlash(amount)
  \/ \E n \in 1 .. Len(receipts) : PayBack(n)
  \/ RetrieveFlashInterest

FlashOwnerCall == \E s \in FlashSettings : SetFlash(s)

=============================================================================
