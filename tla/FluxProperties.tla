-------------------------- MODULE FluxProperties ----------------------------
(***************************************************************************)
(* What makes the Flux component correct: the index finds every loan, the  *)
(* accounts add up, and no call takes from a loan what only its owner or   *)
(* the protocol's rules may take.                                          *)
(***************************************************************************)
EXTENDS Flux, FiniteSetsExt

Ids == DOMAIN flux.cdps
ActiveLoans == {id \in Ids : Active(flux.cdps[id])}
LoansIn(k) == {id \in ActiveLoans : Tier(flux.cdps[id]) = k}
RealDebt(f, id) == PoolToRealDebt(f, Tier(f.cdps[id]), f.cdps[id].pool)

-----------------------------------------------------------------------------
(* Type invariant.  The totals (debt, circulating, held and unbacked) are  *)
(* left out: the properties below that reconcile them fix their values.    *)

Fields == {"cdps", "cdpCounter", "borrowers", "collaterals", "tiers", "ratios",
           "marked", "params", "circulating"}

\* Every field of the state has the type of its field in the source, NFTs
\* refer to what exists, and no recorded time lies in the future.
WellTyped(f) ==
  /\ DOMAIN f = Fields
  /\ f.cdpCounter \in Nat
  /\ DOMAIN f.cdps \subseteq 1 .. f.cdpCounter
  /\ \A id \in DOMAIN f.cdps :
       /\ f.cdps[id] \in Cdp
       /\ f.cdps[id].collateral \in DOMAIN f.collaterals
       /\ f.cdps[id].borrower \in DOMAIN f.borrowers \cup {Nobody}
       /\ f.cdps[id].lastChange <= now
  /\ DOMAIN f.borrowers \subseteq Borrowers
  /\ \A b \in DOMAIN f.borrowers : f.borrowers[b] \in Borrower
  /\ DOMAIN f.collaterals \subseteq Collaterals
  /\ \A c \in DOMAIN f.collaterals : IsCollateralInfo(f.collaterals[c])
  /\ \A k \in DOMAIN f.tiers :
       /\ k \in Tiers /\ k[1] \in DOMAIN f.collaterals
       /\ f.tiers[k] \in InterestInfo /\ f.tiers[k].last <= now
  /\ DOMAIN f.ratios = Tiers
  /\ \A id \in DOMAIN f.marked : f.marked[id] \in Nat
  /\ f.params \in ProtocolParameters

TypeOK == now \in 0 .. MaxTime /\ WellTyped(flux)

-----------------------------------------------------------------------------
(* Invariants.                                                             *)

\* The loan id is in the vector that its NFT's interest and ratio name.
InIndex(f, id) ==
  LET d == f.cdps[id] tree == f.ratios[Tier(d)]
  IN  /\ d.ratio \in DOMAIN tree
      /\ \E n \in 1 .. Len(tree[d.ratio]) : tree[d.ratio][n] = id

Distinct(ids) == \A m, n \in 1 .. Len(ids) : ids[m] = ids[n] => m = n

\* The vector at ratio cr of tier k holds open loans with that interest and
\* ratio, each once, and is not empty.
VectorOK(f, k, cr) ==
  LET ids == f.ratios[k][cr]
  IN  /\ ids \in Seq(DOMAIN f.cdps) /\ Len(ids) > 0 /\ Distinct(ids)
      /\ \A n \in 1 .. Len(ids) :
           LET d == f.cdps[ids[n]] IN Active(d) /\ Tier(d) = k /\ d.ratio = cr

LoansIndexed(f) == \A id \in DOMAIN f.cdps : Active(f.cdps[id]) => InIndex(f, id)
VectorsOK(f) == \A k \in Tiers : \A cr \in DOMAIN f.ratios[k] : VectorOK(f, k, cr)

\* The index is exact after every call.  insert_cr and remove_cr are called by
\* ten handlers, each with a copy of the NFT's data it read at its start, and
\* a loan that they lost could be neither redeemed, changed nor closed.
IndexConsistent == LoansIndexed(flux) /\ VectorsOK(flux)

\* number_of_crs counts the keys of the tier's ratio tree, and the tier is
\* there exactly while that tree has a key: redemption, which unwraps the first
\* one of the first tier, finds one, and clean_up_interest_info never drops a
\* tier that still has a loan.
TiersTrackIndex ==
  \A k \in Tiers :
    /\ k \in DOMAIN flux.tiers <=> DOMAIN flux.ratios[k] # {}
    /\ k \in DOMAIN flux.tiers =>
         flux.tiers[k].crs = Cardinality(DOMAIN flux.ratios[k])

\* No loan is listed at a ratio below zero, where redemption, which starts at
\* zero, would miss it: nothing but the check of the minimum ratio keeps an
\* owner from taking out more collateral than the loan has.
RatiosNotNegative ==
  \A k \in Tiers : \A cr \in DOMAIN flux.ratios[k] : cr >= 0

\* The pool debt of a tier is the pool debt of its loans: each loan's share
\* of the tier's real debt, interest included, is what it owes.
PoolDebtMatches ==
  \A k \in DOMAIN flux.tiers :
    flux.tiers[k].pool = SumFunction([id \in LoansIn(k) |-> flux.cdps[id].pool])

\* A collateral's total_debt is the real debt of its tiers: no debt is left
\* behind by a tier that is dropped, and none is counted that nobody owes.
DebtReconciles ==
  \A c \in Listed :
    flux.collaterals[c].debt =
      SumFunction([k \in {k \in DOMAIN flux.tiers : k[1] = c} |-> flux.tiers[k].real])

\* circulating_fusd is the sum of the total debts: no handler mints or burns
\* fUSD without the collateral it is owed against.
CirculationReconciles ==
  flux.circulating = SumFunction([c \in Listed |-> flux.collaterals[c].debt])

\* Every fUSD in existence, held by users or kept as uncharged interest, is
\* owed by some loan, but for what the owner minted or burned freely.
SupplyReconciles ==
  held + SumFunction([c \in Listed |-> flux.collaterals[c].uncharged])
    = flux.circulating + unbacked

\* Every vault holds what its loans may take out: the collateral of the open
\* loans, counted per tier and in total, and in the leftovers what the ended
\* loans have not retrieved.
CollateralBacked ==
  \A c \in Listed :
    LET info == flux.collaterals[c]
        open == {id \in ActiveLoans : flux.cdps[id].collateral = c}
        ended == {id \in Ids \ ActiveLoans : flux.cdps[id].collateral = c}
    IN  /\ info.vault = info.amount
        /\ info.amount = SumFunction([id \in open |-> flux.cdps[id].amount])
        /\ info.leftovers = SumFunction([id \in ended |-> flux.cdps[id].amount])
        /\ \A k \in DOMAIN flux.tiers : k[1] = c =>
             flux.tiers[k].coll =
               SumFunction([id \in LoansIn(k) |-> flux.cdps[id].amount])

\* A marked loan has its liquidation time on record and a healthy one has
\* none, so the unwraps of liquidate_cdp succeed, and no old time of notice
\* can count for a loan that recovered and is marked again.
MarkRecorded ==
  \A id \in ActiveLoans :
    flux.cdps[id].status = "Marked" <=> id \in DOMAIN flux.marked

\* A loan that names a privileged borrower is in that borrower's
\* coupled_loans, and so counts against max_coupled_loans.
LinkRecorded ==
  \A id \in Ids :
    LET b == flux.cdps[id].borrower
    IN  b # Nobody => \E e \in flux.borrowers[b].coupled : e[1] = id

\* coupled_loans lists the loans linked to its borrower and no other, each
\* once: "A list of NonFungibleLocalIds of the CDPs currently linked to this
\* borrower NFT" (src/shared_structs.rs:52).
CoupledAreLinked ==
  \A b \in Registered : \A e \in flux.borrowers[b].coupled :
    e[2] = 1 /\ e[1] \in Ids /\ flux.cdps[e[1]].borrower = b

\* "If `new_pool_debt` is zero or negative, call `close_cdp` and return its
\* result" (src/flux_component.rs:995): while closing is allowed, a repayment
\* of exactly what a loan owes is accepted by partial_close_cdp.
ExactRepaymentCloses ==
  \A id \in ActiveLoans : \A amount \in Repayments :
    amount = RealDebt(flux, id) /\ amount <= held /\ ~flux.params.stopClosings
      => ENABLED PartialCloseCdp(id, amount)

-----------------------------------------------------------------------------
(* Action properties.                                                      *)

\* The loan id is redeemed in this step, wholly or in part: only redemption
\* lowers an open loan's collateral together with its debt.
Redeemed(id) ==
  /\ id \in ActiveLoans /\ id \in Ids'
  /\ \/ flux'.cdps[id].status = "Redeemed"
     \/ /\ Active(flux'.cdps[id])
        /\ flux'.cdps[id].pool < flux.cdps[id].pool
        /\ flux'.cdps[id].amount < flux.cdps[id].amount

\* What `id` pays is before what `other` pays in the order of redemption:
\* standard rates from the lowest, then the irredeemable tier, and at one
\* rate the lowest collateral ratio.
RedeemableBefore(other, id) ==
  LET o == flux.cdps[other] d == flux.cdps[id]
  IN  /\ o.collateral = d.collateral
      /\ \/ o.interest >= 0 /\ d.interest = Irredeemable
         \/ o.interest >= 0 /\ o.interest < d.interest
         \/ o.interest = d.interest
              /\ Div(o.amount, o.pool) < Div(d.amount, d.pool)

\* A redemption takes a loan only when no other open loan of the collateral
\* comes before it; in particular an irredeemable loan is redeemed only when
\* no loan at a standard rate is left.
RedemptionInOrder ==
  [][\A id \in Ids : Redeemed(id) =>
       \A other \in ActiveLoans : ~RedeemableBefore(other, id)]_vars

\* A partial redemption does not lower the collateral ratio of the loan.
RedemptionKeepsRatio ==
  [][\A id \in Ids :
       Redeemed(id) /\ flux'.cdps[id].status # "Redeemed" =>
         flux'.cdps[id].ratio >= flux.cdps[id].ratio]_vars

\* What the loan id owes in the state f: nothing once it has ended.
Owed(f, id) ==
  IF id \in DOMAIN f.cdps /\ Active(f.cdps[id]) THEN RealDebt(f, id) ELSE 0

\* In every step a loan's debt falls by no more than the fUSD that the step
\* burns: nothing others do, no move to another rate and no bookkeeping of
\* its own tier forgives a debt that nobody repaid.
DebtOnlyRepaid ==
  [][\A id \in ActiveLoans :
       LET forgiven == Owed(flux, id) - Owed(flux', id)
       IN  forgiven > 0 => forgiven <= held - held']_vars

\* Collateral that a redemption or a liquidation takes from a loan is worth
\* no more, at the price of the step, than the fUSD burned for it, plus the
\* liquidation fine; what it leaves stays the owner's.
TakersPay ==
  [][\A id \in ActiveLoans \cap Ids' :
       LET d == flux.cdps[id] e == flux'.cdps[id]
           fine == IF e.status = "Liquidated" THEN flux.params.liquidationFine ELSE 0
       IN  Redeemed(id) \/ e.status = "Liquidated" =>
             /\ Mul(flux'.collaterals[d.collateral].price, d.amount - e.amount)
                  <= Mul(held - held', ONE + fine)
             /\ e.amount >= 0]_vars

\* A step after which an open loan has a lower collateral ratio at the same
\* rate, and that is not a redemption, leaves it at the minimum collateral
\* ratio or above, at the price of that step; only the fee of a liquidation
\* notice and of tagging a loan is borrowed without that check.
OwnerKeepsMcr ==
  [][\A id \in ActiveLoans \cap Ids' :
       LET d == flux.cdps[id] e == flux'.cdps[id]
       IN  /\ Active(e)
           /\ e.ratio < d.ratio
           /\ e.interest = d.interest
           /\ e.status = d.status \/ e.status = "Healthy"
           /\ ~Redeemed(id)
           => MeetsMcr(flux', Tier(e), e.amount, e.pool)]_vars

\* A loan whose borrower has a liquidation notice is liquidated only after it
\* was marked and its notice has passed.
NoticeRespected ==
  [][\A id \in ActiveLoans \cap Ids' :
       LET d == flux.cdps[id]
       IN  flux'.cdps[id].status = "Liquidated" =>
             IF d.status = "Marked" THEN now > flux.marked[id]
             ELSE d.borrower = Nobody \/ flux.borrowers[d.borrower].notice = NoNotice
    ]_vars

LinkedTo(b) == {id \in Ids : flux.cdps[id].borrower = b}

\* A step that links a loan to a privileged borrower leaves it with no more
\* linked loans than its max_coupled_loans.
LinksLimited ==
  [][\A b \in Registered :
       ~ LinkedTo(b)' \subseteq LinkedTo(b) =>
         Cardinality(LinkedTo(b)') <= flux.borrowers[b].maxCoupled]_vars

\* "If true, loans linked to this borrower cannot be redeemed"
\* (src/shared_structs.rs:43).
OptOutRespected ==
  [][\A id \in ActiveLoans :
       Redeemed(id) =>
         LET b == flux.cdps[id].borrower
         IN  b # Nobody => ~flux.borrowers[b].optOut]_vars

\* A loan that ended stays ended: its status, its zero debt and its rate
\* never change again, and its collateral can only be paid out, at once.
EndedIsFinal ==
  [][\A id \in (Ids \ ActiveLoans) \cap Ids' :
       LET d == flux.cdps[id] e == flux'.cdps[id]
       IN  /\ e.status = d.status
           /\ e.pool = 0 /\ e.interest = d.interest
           /\ e.amount \in {d.amount, 0}]_vars

-----------------------------------------------------------------------------
(* Liveness.  Whoever liquidates a loan earns part of it, so while a loan    *)
(* can be liquidated somebody calls liquidate; nobody else has to act.     *)

StoredPrice(id) == flux.collaterals[flux.cdps[id].collateral].price

LiquidateAtStoredPrice(id) == id \in Loans /\ LiquidateCdp(id, StoredPrice(id))

\* liquidate_cdp, with the stored price, would now mark or liquidate the loan:
\* what ENABLED LiquidateAtStoredPrice(id) comes to.
Liquidatable(id) ==
  LET k == Tier(flux.cdps[id])
  IN  /\ id \in Loans
      /\ CanLiquidate(flux, id)
      /\ IF HasNotice(flux, id)
         THEN BorrowAllowed([flux EXCEPT !.cdps[id].status = "Marked"],
                            id, flux.params.noticeFee, FALSE, FALSE)
         ELSE /\ RealDebt(flux, id) <= held
              /\ DebtMultiplier(flux, k) # 0
              /\ Lcr(flux, k) # 0 /\ CrPercentage(flux, id) # 0

\* Weak fairness of LiquidateAtStoredPrice(id), its ENABLED replaced by what
\* it comes to (TLC evaluates ENABLED of so deep an action too slowly).
LiquidatorActs(id) ==
  []<>~Liquidatable(id) \/ []<><<LiquidateAtStoredPrice(id)>>_vars

Fairness == WF_vars(Tick) /\ \A id \in 1 .. MaxCdps : LiquidatorActs(id)

FairSpec == Spec /\ Fairness

\* The loan is below the minimum ratio at the stored price, nobody stopped
\* liquidations, and the fUSD to repay it exists.  A loan that has yet to be
\* marked also needs openings allowed and its collateral accepted, for marking
\* borrows a fee.  (A notice that ends with the clock's bound cannot pass.)
Exposed(id) ==
  /\ id \in ActiveLoans
  /\ Div(flux.cdps[id].amount, flux.cdps[id].pool) < Lcr(flux, Tier(flux.cdps[id]))
  /\ RealDebt(flux, id) <= held
  /\ ~flux.params.stopLiquidations
  /\ HasNotice(flux, id) =>
       ~flux.params.stopOpenings /\ flux.collaterals[flux.cdps[id].collateral].accepted
  /\ flux.cdps[id].status = "Marked" => flux.marked[id] < MaxTime

\* No loan stays exposed for ever: marking it, waiting for its notice and
\* liquidating it are each reached, whatever owners, borrowers and prices do
\* in between, so no order of marking, unlinking and editing a borrower keeps
\* a loan out of reach.
LiquidationComes == \A id \in 1 .. MaxCdps : ~<>[]Exposed(id)

-----------------------------------------------------------------------------
(* Refinement.                                                             *)

\* Fees that were added to loans and whose fUSD charge_interest mints later.
UnchargedFees == SumFunction([c \in Listed |-> flux.collaterals[c].uncharged])

Book == INSTANCE LoanBook WITH
  book <- [id \in Ids |->
             [debt |-> Owed(flux, id), collateral |-> flux.cdps[id].amount,
              open |-> Active(flux.cdps[id])]],
  supply <- held + UnchargedFees - unbacked

\* Tiers, units of pool debt, ratios, marks and links implement the book of
\* loans: every call changes the debt and collateral of one loan only, or adds
\* interest to open ones, the fUSD in existence moves with it, and what an
\* ended loan leaves stays until it is retrieved in full.  No conversion, no
\* move to another tier and no unlink shows in the book.
ImplementsLoanBook == Book!Spec

=============================================================================
