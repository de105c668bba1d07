------------------------------ MODULE LoanBook ------------------------------
(***************************************************************************)
(* What Flux promises of its loans: a book with the debt and the collateral *)
(* of each, and the fUSD in existence for which they stand.  There are no   *)
(* tiers, units of debt, ratios or marks here.  A loan owes more only by    *)
(* interest, fees and borrowing, and less only by fUSD that is burned for   *)
(* it; each change is of one loan, but for interest, which may fall on all. *)
(***************************************************************************)
EXTENDS Integers, FiniteSetsExt

VARIABLES
  book,     \* per loan its debt, its collateral and whether it is open
  supply    \* fUSD, but for what the owner minted or burned freely

vars == <<book, supply>>

Init == book = <<>> /\ supply = 0

Open(id) == book[id].open
Others(id) == \A other \in DOMAIN book \ {id} : book'[other] = book[other]

OpenLoan(id) ==
  /\ id \notin DOMAIN book
  /\ DOMAIN book' = DOMAIN book \cup {id}
  /\ Others(id)
  /\ Open(id)' /\ book'[id].debt > 0
  /\ supply' = supply + book'[id].debt

\* Interest accrues on any of the open loans.
Accrue ==
  /\ \A id \in DOMAIN book :
       /\ book'[id].debt >= book[id].debt
       /\ book'[id] = [book[id] EXCEPT !.debt = book'[id].debt]
       /\ ~Open(id) => book'[id] = book[id]
  /\ supply' - supply =
       MapThenSumSet(LAMBDA id : book'[id].debt - book[id].debt, DOMAIN book)

\* The owner borrows, or is charged a fee, or repays: no collateral moves.
BorrowOrRepay(id) ==
  /\ Open(id) /\ Open(id)'
  /\ book'[id].collateral = book[id].collateral

\* The owner moves collateral, and the debt stays.
MoveCollateral(id) ==
  /\ Open(id) /\ Open(id)'
  /\ book'[id].debt = book[id].debt

\* A part of the loan is redeemed: collateral leaves for fUSD that is burned.
RedeemPart(id) ==
  /\ Open(id) /\ Open(id)'
  /\ book'[id].debt < book[id].debt
  /\ book'[id].collateral <= book[id].collateral

\* The loan is closed, redeemed or liquidated: all it owes is burned.
EndLoan(id) ==
  /\ Open(id) /\ ~Open(id)'
  /\ book'[id].debt = 0
  /\ book'[id].collateral \in 0 .. book[id].collateral

\* The owner retrieves all that an ended loan left.
Retrieve(id) ==
  /\ ~Open(id) /\ ~Open(id)'
  /\ book'[id].debt = 0 /\ book'[id].collateral = 0

Forget(id) ==
  /\ ~Open(id) /\ book[id].collateral = 0
  /\ book' = [other \in DOMAIN book \ {id} |-> book[other]]
  /\ UNCHANGED supply

\* A call changes one loan, and the supply moves with its debt.
Change(id) ==
  /\ Others(id)
  /\ \/ BorrowOrRepay(id) \/ MoveCollateral(id) \/ RedeemPart(id)
     \/ EndLoan(id) \/ Retrieve(id)
  /\ supply' - supply = book'[id].debt - book[id].debt

Next ==
  \/ \E id \in DOMAIN book' : OpenLoan(id)
  \/ \E id \in DOMAIN book : Forget(id)
  \/ /\ DOMAIN book' = DOMAIN book
     /\ (\E id \in DOMAIN book : Change(id)) \/ Accrue

Spec == Init /\ [][Next]_vars

=============================================================================
