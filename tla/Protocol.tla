------------------------------ MODULE Protocol ------------------------------
(***************************************************************************)
(* Flux, the stability pools, the flash loans and the payout component     *)
(* together.  The calls of one transaction follow each other with nothing  *)
(* in between, and time passes only between transactions.                  *)
(***************************************************************************)
EXTENDS PayoutComponent, FlashLoans

CONSTANT MaxEdits   \* bound: how many calls of the owner change a setting

VARIABLE edits      \* how many have

ASSUME EditAssumption == MaxEdits \in Nat

protocolVars == <<vars, wallet, poolVars, flash, receipts, payout, edits>>

ProtocolInit ==
  /\ Init
  /\ wallet = 0
  /\ PoolInit /\ FlashInit /\ PayoutInit
  /\ edits = 0

\* A transaction can end only when no receipt is left on its worktop.
EndTransaction ==
  /\ hashed /\ receipts = <<>>
  /\ hashed' = FALSE /\ joined' = {}
  /\ UNCHANGED <<vars, wallet, pools, payoutVault, poolParameters, allowMultiple,
                 flash, receipts, payout>>

\* Between two transactions.
Idle == ~hashed /\ receipts = <<>>

\* The proxy's new_collateral.
Listing ==
  \E c \in Collaterals, mcr \in Mcrs, price \in Prices, setting \in PoolSettings :
    NewCollateral(c, mcr, price) /\ NewPool(c, setting)
Licensing == \E b \in Borrowers, terms \in BorrowerTerms : CreatePrivilegedBorrower(b, terms)

Call ==
  \/ UserCall /\ UNCHANGED <<poolVars, flash, receipts, payout>>
  \/ PoolCall /\ UNCHANGED <<flash, receipts, payout>>
  \/ FlashCall /\ UNCHANGED <<poolVars, payout>>
  \/ PayoutCall /\ UNCHANGED <<flash, receipts>>
  \/ EndTransaction
  \/ /\ Idle
     /\ (Tick /\ UNCHANGED <<wallet, poolVars>>) \/ Listing
     /\ UNCHANGED <<flash, receipts, payout>>

OwnerEdit ==
  \/ PoolOwnerCall /\ UNCHANGED <<flash, receipts, payout>>
  \/ FlashOwnerCall /\ UNCHANGED <<poolVars, payout>>
  \/ PayoutOwnerCall /\ UNCHANGED <<flash, receipts>>
  \/ Licensing /\ UNCHANGED <<wallet, poolVars, flash, receipts, payout>>

ProtocolNext ==
  \/ Call /\ UNCHANGED edits
  \/ OwnerEdit /\ edits < MaxEdits /\ edits' = edits + 1

ProtocolSpec == ProtocolInit /\ [][ProtocolNext]_protocolVars

=============================================================================
