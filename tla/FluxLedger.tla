----------------------------- MODULE FluxLedger -----------------------------
(***************************************************************************)
(* The bookkeeping of the Flux component (src/flux_component.rs): its      *)
(* state as one record, and the private helpers through which every        *)
(* handler reads and changes it.  A helper that changes the state takes    *)
(* the state f and returns the state after it; module Flux composes them   *)
(* in the order the handlers call them.                                    *)
(*                                                                         *)
(* An operator marked "Fault" is a variant of the one after it with a bug; *)
(* nothing uses it, and a property is shown to tell the two apart.         *)
(*                                                                         *)
(* A Decimal is an integer number of the smallest unit; ONE of them make   *)
(* 1.  Products and quotients are truncated towards zero, as Decimal's.    *)
(***************************************************************************)
EXTENDS Integers, Sequences, FiniteSets

CONSTANTS
  ONE,           \* the Decimal 1
  Collaterals,   \* resource addresses
  Rates,         \* the standard interest rates that are ever asked for
  Growth,        \* Growth[i][t]: what 1 owed at rate i becomes after t ticks
  MaxTime,       \* the last tick of the clock
  Borrowers,     \* ids of privileged borrower NFTs
  Nobody,        \* no privileged borrower
  NoNotice       \* a borrower without liquidation notice

VARIABLE now     \* the ledger's clock, in ticks

Irredeemable == -420 * ONE
Interests == Rates \cup {Irredeemable}
Tiers == Collaterals \X Interests

ASSUME DecimalAssumption == ONE \in Nat \ {0}
ASSUME RatesAssumption == Rates \subseteq Nat /\ 0 \in Rates
ASSUME TimeAssumption == MaxTime \in Nat
ASSUME GrowthAssumption == Growth \in [Rates -> [0 .. MaxTime -> Int]]
\* (1 + rate)^time: no debt shrinks by the interest on it.
ASSUME InterestAssumption == \A i \in Rates, t \in 0 .. MaxTime : Growth[i][t] >= ONE
ASSUME AbsentAssumption ==
  Nobody \notin Borrowers /\ NoNotice \notin Nat

-----------------------------------------------------------------------------
(* Decimal arithmetic and partial functions.                               *)

Abs(n) == IF n < 0 THEN -n ELSE n
Quot(n, d) == IF (n >= 0) <=> (d > 0) THEN Abs(n) \div Abs(d)
                                      ELSE -(Abs(n) \div Abs(d))
Mul(a, b) == Quot(a * b, ONE)
Div(a, b) == Quot(a * ONE, b)

Lesser(a, b) == IF a <= b THEN a ELSE b

\* A key-value store or tree after an insert, and after a removal.
With(g, x, v) == [y \in DOMAIN g \cup {x} |-> IF y = x THEN v ELSE g[y]]
Without(g, x) == [y \in DOMAIN g \ {x} |-> g[y]]

-----------------------------------------------------------------------------
(* The state.                                                              *)

Statuses == {"Healthy", "Marked", "Liquidated", "Redeemed", "Closed"}

\* The data of a CDP's NFT.
Cdp == [collateral : Collaterals, amount : Int, interest : Interests,
        pool : Int, ratio : Int, status : Statuses,
        borrower : Borrowers \cup {Nobody}, lastChange : Nat]

\* The data of a privileged borrower's NFT.  `coupled` is the vector
\* coupled_loans, whose order nothing reads: the n-th copy of a loan's id in
\* it is the pair <<id, n>>.
Borrower == [optOut : BOOLEAN, notice : Nat \cup {NoNotice},
             maxCoupled : Nat,
             coupled : {S \in SUBSET (Nat \X Nat) : IsFiniteSet(S)}]

InterestInfo == [pool : Int, real : Int, coll : Int, crs : Int, last : Nat]

\* total_debt is a sum, and FluxProperties!DebtReconciles says of what.
IsCollateralInfo(info) ==
  /\ info.mcr \in Nat \ {0} /\ info.price \in Nat \ {0}
  /\ info.accepted \in BOOLEAN
  /\ info.amount \in Int /\ info.vault \in Int
  /\ info.leftovers \in Int /\ info.uncharged \in Int

ProtocolParameters ==
  [minimumMint : Nat, maxVectorLength : Nat, liquidationFine : Nat,
   stopLiquidations : BOOLEAN, stopOpenings : BOOLEAN,
   stopClosings : BOOLEAN, stopRedemption : BOOLEAN,
   maxInterest : Nat, interestInterval : Nat \ {0}, cooldown : Nat,
   extraDays : 0 .. MaxTime, tagFee : Nat, noticeFee : Nat]

Active(d) == d.status \in {"Healthy", "Marked"}
Tier(d) == <<d.collateral, d.interest>>

-----------------------------------------------------------------------------
(* Debt units.                                                             *)

DebtMultiplier(f, k) ==
  IF k \in DOMAIN f.tiers /\ f.tiers[k].pool # 0 /\ f.tiers[k].real # 0
  THEN Div(f.tiers[k].real, f.tiers[k].pool)
  ELSE ONE

RealToPoolDebt(f, k, amount) == Div(amount, DebtMultiplier(f, k))
PoolToRealDebt(f, k, amount) == Mul(amount, DebtMultiplier(f, k))

\* The pool debt of the up-front interest fee.
ExtraInterestDaysFee(f, i, pool) == Mul(Growth[i][f.params.extraDays], pool) - pool

\* The check of get_and_check_cr, and the price ratio below which it fails.
MeetsMcr(f, k, amount, pool) ==
  LET info == f.collaterals[k[1]]
  IN  Mul(info.price, amount) >= Mul(Mul(pool, DebtMultiplier(f, k)), info.mcr)
Lcr(f, k) ==
  LET info == f.collaterals[k[1]]
  IN  Mul(info.mcr, Div(DebtMultiplier(f, k), info.price))

-----------------------------------------------------------------------------
(* Tiers: what is owed and locked at one interest rate of one collateral.  *)

\* Fault: a new tier's interest starts a tick late.
InsertInterestInfoIfAbsentLate(f, k) ==
  IF k \in DOMAIN f.tiers THEN f
  ELSE [f EXCEPT !.tiers = With(@, k,
          [pool |-> 0, real |-> 0, coll |-> 0, crs |-> 0, last |-> now + 1])]

InsertInterestInfoIfAbsent(f, k) ==
  IF k \in DOMAIN f.tiers THEN f
  ELSE [f EXCEPT !.tiers = With(@, k,
          [pool |-> 0, real |-> 0, coll |-> 0, crs |-> 0, last |-> now])]

\* Fault: a tier is dropped with loans in it.
CleanUpInterestInfoAlways(f, k) == [f EXCEPT !.tiers = Without(@, k)]

CleanUpInterestInfo(f, k) ==
  IF f.tiers[k].crs <= 0 THEN [f EXCEPT !.tiers = Without(@, k)] ELSE f

\* Fault: the debt is not counted.
AddDebtForgotten(f, k, real) == f

AddDebt(f, k, real) == [f EXCEPT !.collaterals[k[1]].debt = @ + real]
RemoveDebt(f, k, real) == [f EXCEPT !.collaterals[k[1]].debt = @ - real]

\* Fault: real debt where pool debt belongs.
MintFusdRealInPool(f, k, pool) ==
  LET g == InsertInterestInfoIfAbsent(f, k)
      real == PoolToRealDebt(g, k, pool)
  IN  [g EXCEPT !.tiers[k].pool = @ + real, !.tiers[k].real = @ + real,
                !.circulating = @ + real]

MintFusd(f, k, pool) ==
  LET g == InsertInterestInfoIfAbsent(f, k)
      real == PoolToRealDebt(g, k, pool)
  IN  [g EXCEPT !.tiers[k].pool = @ + pool, !.tiers[k].real = @ + real,
                !.circulating = @ + real]

\* Faults: the same, out of a tier and into it.
LeaveTierRealInPool(f, k, real) ==
  [f EXCEPT !.tiers[k].pool = @ - real, !.tiers[k].real = @ - real]
EnterTierRealInPool(f, k, real) ==
  [f EXCEPT !.tiers[k].pool = @ + real, !.tiers[k].real = @ + real]

\* What unmint_fusd and move_fusd_interest take out of a tier, and what the
\* latter puts into the other.
LeaveTier(f, k, real) ==
  LET pool == RealToPoolDebt(f, k, real)
  IN  [f EXCEPT !.tiers[k].pool = @ - pool, !.tiers[k].real = @ - real]

EnterTier(f, k, real) ==
  LET pool == RealToPoolDebt(f, k, real)
  IN  [f EXCEPT !.tiers[k].pool = @ + pool, !.tiers[k].real = @ + real]

\* Fault: the burned fUSD still circulates.
UnmintFusdCirculating(f, k, real) == LeaveTier(f, k, real)

UnmintFusd(f, k, real) ==
  [LeaveTier(f, k, real) EXCEPT !.circulating = @ - real]

MoveFusdInterest(f, old, new, real) ==
  EnterTier(LeaveTier(f, old, real), new, real)

\* Fault: the collateral's total is not raised.
PutCollateralInTierOnly(f, k, amount) ==
  LET g == InsertInterestInfoIfAbsent(f, k)
  IN  [g EXCEPT !.tiers[k].coll = @ + amount,
                !.collaterals[k[1]].vault = @ + amount]

PutCollateral(f, k, amount) ==
  LET g == InsertInterestInfoIfAbsent(f, k)
  IN  [g EXCEPT !.tiers[k].coll = @ + amount,
                !.collaterals[k[1]].amount = @ + amount,
                !.collaterals[k[1]].vault = @ + amount]

TakeCollateral(f, k, amount) ==
  [f EXCEPT !.tiers[k].coll = @ - amount,
            !.collaterals[k[1]].amount = @ - amount,
            !.collaterals[k[1]].vault = @ - amount]

\* Fault: the leftovers stay where they were.
PutInLeftoversForgotten(f, c, amount) == f

PutInLeftovers(f, c, amount) == [f EXCEPT !.collaterals[c].leftovers = @ + amount]
TakeFromLeftovers(f, c, amount) == [f EXCEPT !.collaterals[c].leftovers = @ - amount]

-----------------------------------------------------------------------------
(* The index: per tier, a tree from collateral ratio to the vector of the  *)
(* CDPs at that ratio, oldest entry first.                                 *)

\* remove_cr retains every other id of the vector.  A vector never holds an
\* id twice (FluxProperties!IndexConsistent), so that is the vector less one
\* entry.
Retain(s, id) ==
  IF \E n \in 1 .. Len(s) : s[n] = id
  THEN LET at == CHOOSE n \in 1 .. Len(s) : s[n] = id
       IN  [n \in 1 .. Len(s) - 1 |-> IF n < at THEN s[n] ELSE s[n + 1]]
  ELSE s

HasRoom(f, k, cr) ==
  cr \in DOMAIN f.ratios[k] => Len(f.ratios[k][cr]) < f.params.maxVectorLength

InsertCr(f, k, cr, id) ==
  LET g == InsertInterestInfoIfAbsent(f, k)
  IN  IF cr \in DOMAIN g.ratios[k]
      THEN [g EXCEPT !.ratios[k] = With(@, cr, Append(@[cr], id))]
      ELSE [g EXCEPT !.ratios[k] = With(@, cr, <<id>>),
                     !.tiers[k].crs = @ + 1]

\* Faults: an emptied ratio is still counted; the whole vector goes.
RemoveCrStillCounted(f, k, cr, id) ==
  LET left == Retain(f.ratios[k][cr], id)
  IN  IF Len(left) = 0 THEN [f EXCEPT !.ratios[k] = Without(@, cr)]
                       ELSE [f EXCEPT !.ratios[k] = With(@, cr, left)]
RemoveCrWholeVector(f, k, cr, id) ==
  [f EXCEPT !.ratios[k] = Without(@, cr), !.tiers[k].crs = @ - 1]

RemoveCr(f, k, cr, id) ==
  LET left == Retain(f.ratios[k][cr], id)
  IN  IF Len(left) = 0
      THEN [f EXCEPT !.ratios[k] = Without(@, cr), !.tiers[k].crs = @ - 1]
      ELSE [f EXCEPT !.ratios[k] = With(@, cr, left)]

\* Fault: the NFT keeps its old ratio.
RelistWithOldRatio(f, id, i, amount, pool) ==
  LET d == f.cdps[id]
      g == InsertCr(RemoveCr(f, Tier(d), d.ratio, id),
                    <<d.collateral, i>>, Div(amount, pool), id)
  IN  [g EXCEPT !.cdps[id] = [d EXCEPT !.interest = i, !.amount = amount, !.pool = pool]]

\* The steps by which every handler lists a CDP anew: out of the index under
\* its old ratio, in under the ratio of the new amounts, and the NFT updated.
Relist(f, id, i, amount, pool) ==
  LET d == f.cdps[id]
      cr == Div(amount, pool)
      g == InsertCr(RemoveCr(f, Tier(d), d.ratio, id),
                    <<d.collateral, i>>, cr, id)
  IN  [g EXCEPT !.cdps[id] = [d EXCEPT !.interest = i, !.ratio = cr,
                                       !.amount = amount, !.pool = pool]]

RoomToRelist(f, id, i, amount, pool) ==
  LET d == f.cdps[id]
  IN  /\ pool # 0
      /\ HasRoom(RemoveCr(f, Tier(d), d.ratio, id),
                 <<d.collateral, i>>, Div(amount, pool))

\* Fault: an ended loan keeps its debt.
DelistWithDebt(f, id, status, amount) ==
  LET d == f.cdps[id]
      g == RemoveCr(f, Tier(d), d.ratio, id)
  IN  CleanUpInterestInfo(
        [g EXCEPT !.cdps[id] = [d EXCEPT !.status = status, !.amount = amount]], Tier(d))

\* The steps by which a CDP ends: out of the index, its NFT left with what
\* its owner can still retrieve, and its tier dropped if it was the last one.
Delist(f, id, status, amount) ==
  LET d == f.cdps[id]
      g == RemoveCr(f, Tier(d), d.ratio, id)
  IN  CleanUpInterestInfo(
        [g EXCEPT !.cdps[id] = [d EXCEPT !.status = status, !.pool = 0,
                                         !.amount = amount]],
        Tier(d))

-----------------------------------------------------------------------------
(* Marks and privileged borrowers.                                         *)

\* Fault: the time of liquidation stays on record.
UnmarkIfMarkedKeepingTime(f, id) == [f EXCEPT !.cdps[id].status = "Healthy"]

UnmarkIfMarked(f, id) ==
  [f EXCEPT !.marked = Without(@, id), !.cdps[id].status = "Healthy"]

\* Fault: the new link is not counted.
CanLinkOneMore(f, b) ==
  Cardinality(f.borrowers[b].coupled) <= f.borrowers[b].maxCoupled

CanLink(f, b) ==
  Cardinality(f.borrowers[b].coupled) + 1 <= f.borrowers[b].maxCoupled

Couple(f, b, id) ==
  LET copies == {e \in f.borrowers[b].coupled : e[1] = id}
  IN  [f EXCEPT !.borrowers[b].coupled =
                   @ \cup {<<id, Cardinality(copies) + 1>>}]

LinkCdp(f, b, id) == [Couple(f, b, id) EXCEPT !.cdps[id].borrower = b]

\* Fault: the loan still names its borrower.
UnlinkCdpStillNamed(f, b, id) ==
  [f EXCEPT !.borrowers[b].coupled = {e \in @ : e[1] # id}]

UnlinkCdp(f, b, id) ==
  [f EXCEPT !.borrowers[b].coupled = {e \in @ : e[1] # id},
            !.cdps[id].borrower = Nobody]

\* What close_cdp, redemption and change_cdp_interest do about a link.
UnlinkIfLinked(f, id) ==
  LET b == f.cdps[id].borrower IN IF b = Nobody THEN f ELSE UnlinkCdp(f, b, id)

=============================================================================
