---------------------------- MODULE AccountProofs ----------------------------
(***************************************************************************)
(* The accounts of the Flux component, for every number of collaterals,    *)
(* rates, borrowers and loans: by how much each helper moves the fUSD in   *)
(* circulation, the collateral in a vault and the collateral of a tier     *)
(* (an entry); what each handler, a chain of entries, does to the accounts *)
(* and to the loan it is about; and from it that the totals add up after   *)
(* every sequence of calls, and what no call may do to a loan.             *)
(***************************************************************************)
EXTENDS FluxProofs, SumProofs

-----------------------------------------------------------------------------
(* The helpers.                                                             *)

InfoFields == {"mcr", "price", "accepted", "debt", "amount", "vault", "leftovers", "uncharged"}
TierFields == {"pool", "real", "coll", "crs", "last"}
CdpFields == {"collateral", "amount", "interest", "pool", "ratio", "status",
              "borrower", "lastChange"}
BorrowerFields == {"optOut", "notice", "maxCoupled", "coupled"}

\* The totals of a collateral, which the type invariant leaves out in part, are
\* Decimals.
InfoTyped(info) ==
  /\ DOMAIN info = InfoFields
  /\ info.debt \in Int /\ info.uncharged \in Int
  /\ info.amount \in Int /\ info.vault \in Int /\ info.leftovers \in Int

\* What the accounts need of a state's shape between the helpers of a handler,
\* where it need not be typed.
Shaped(f) ==
  /\ DOMAIN f = Fields /\ DOMAIN f.ratios = Tiers /\ f.circulating \in Int
  /\ IsFiniteSet(DOMAIN f.collaterals) /\ IsFiniteSet(DOMAIN f.tiers)
  /\ \A c \in DOMAIN f.collaterals : InfoTyped(f.collaterals[c])
  /\ DOMAIN f.tiers \subseteq Tiers
  /\ \A k \in DOMAIN f.tiers :
       DOMAIN f.tiers[k] = TierFields /\ f.tiers[k].coll \in Int /\ f.tiers[k].crs \in Int
  /\ \A id \in DOMAIN f.cdps : DOMAIN f.cdps[id] = CdpFields
  /\ \A b \in DOMAIN f.borrowers : DOMAIN f.borrowers[b] = BorrowerFields

\* A tier with a ratio in its tree is there, and counts the ratios.
Tracked(f) ==
  \A k \in Tiers :
    /\ IsFiniteSet(DOMAIN f.ratios[k])
    /\ DOMAIN f.ratios[k] # {} => k \in DOMAIN f.tiers
    /\ k \in DOMAIN f.tiers => f.tiers[k].crs = Cardinality(DOMAIN f.ratios[k])

Accounted(f) == Shaped(f) /\ Tracked(f)

\* The tiers that clean_up_interest_info would drop.
EmptyTiers(f) == {k \in DOMAIN f.tiers : DOMAIN f.ratios[k] = {}}

\* The collateral, the pool debt and the real debt of a tier, 0 if there is none.
Locked(f, k) == IF k \in DOMAIN f.tiers THEN f.tiers[k].coll ELSE 0
PoolOf(f, k) == IF k \in DOMAIN f.tiers THEN f.tiers[k].pool ELSE 0
RealOf(f, k) == IF k \in DOMAIN f.tiers THEN f.tiers[k].real ELSE 0

Debts(f) == [c \in DOMAIN f.collaterals |-> f.collaterals[c].debt]
Fees(f) == [c \in DOMAIN f.collaterals |-> f.collaterals[c].uncharged]

\* The circulating fUSD that is no collateral's debt (CirculationReconciles says
\* there is none), and the circulating fUSD that has been paid out.
Unowed(f) == f.circulating - SumFunction(Debts(f))
PaidOut(f) == f.circulating - SumFunction(Fees(f))

SameLoans(f, g) ==
  /\ g.cdps = f.cdps /\ g.cdpCounter = f.cdpCounter
  /\ g.marked = f.marked /\ g.borrowers = f.borrowers
SameDebts(f, g) ==
  \A k \in Tiers : PoolOf(g, k) = PoolOf(f, k) /\ RealOf(g, k) = RealOf(f, k)

\* From f to g the component pays out so much fUSD, and none that nobody owes.
Paid(f, g, fusd) == Unowed(g) = Unowed(f) /\ PaidOut(g) = PaidOut(f) + fusd

\* So much collateral goes into the vault of c, and so much into its leftovers.
VaultMoved(f, g, c, coll, left) ==
  /\ DOMAIN g.collaterals = DOMAIN f.collaterals
  /\ \A x \in DOMAIN f.collaterals \ {c} :
       /\ g.collaterals[x].amount = f.collaterals[x].amount
       /\ g.collaterals[x].vault = f.collaterals[x].vault
       /\ g.collaterals[x].leftovers = f.collaterals[x].leftovers
  /\ c \in DOMAIN f.collaterals =>
       /\ g.collaterals[c].amount = f.collaterals[c].amount + coll
       /\ g.collaterals[c].vault = f.collaterals[c].vault + coll
       /\ g.collaterals[c].leftovers = f.collaterals[c].leftovers + left

\* So much collateral goes into tier k.
LockMoved(f, g, k, coll) ==
  /\ \A l \in Tiers \ {k} : Locked(g, l) = Locked(f, l)
  /\ Locked(g, k) = Locked(f, k) + coll

\* An entry in the accounts: what a helper, or a chain of them, pays out, puts
\* into tier k and its vault, and puts into the leftovers.
Entry(f, g, k, fusd, coll, left) ==
  /\ k \in Tiers /\ Accounted(f) /\ Accounted(g)
  /\ Paid(f, g, fusd)
  /\ VaultMoved(f, g, k[1], coll, left) /\ LockMoved(f, g, k, coll)
  /\ EmptyTiers(g) \subseteq EmptyTiers(f) \cup {k}

\* A change of loans, of the index or of borrowers, which leaves the accounts
\* alone.
Still(f, g) ==
  /\ Accounted(f) /\ Accounted(g)
  /\ g.collaterals = f.collaterals /\ g.circulating = f.circulating
  /\ \A k \in Tiers : Locked(g, k) = Locked(f, k)
  /\ SameDebts(f, g) /\ DOMAIN f.tiers \subseteq DOMAIN g.tiers

-----------------------------------------------------------------------------

\* The two differences above are Decimals.
LEMMA PaidTyped ==
  ASSUME NEW f, Shaped(f)
  PROVE  /\ IntFunction(Debts(f)) /\ IntFunction(Fees(f))
         /\ Unowed(f) \in Int /\ PaidOut(f) \in Int
<1>1. IntFunction(Debts(f)) /\ IntFunction(Fees(f))
  BY DEF IntFunction, Debts, Fees, Shaped, InfoTyped
<1>2. SumFunction(Debts(f)) \in Int /\ SumFunction(Fees(f)) \in Int
  BY <1>1, SumFunctionType
<1> QED
  BY <1>1, <1>2 DEF Unowed, PaidOut, Shaped

\* A change of the debt and the fees of one collateral, with the same change of
\* the circulation as of the debt, pays out the one less the other.
LEMMA PaidOfOne ==
  ASSUME NEW f, NEW g, Shaped(f), Shaped(g), NEW c \in DOMAIN f.collaterals,
         DOMAIN g.collaterals = DOMAIN f.collaterals,
         \A x \in DOMAIN f.collaterals \ {c} :
           /\ g.collaterals[x].debt = f.collaterals[x].debt
           /\ g.collaterals[x].uncharged = f.collaterals[x].uncharged,
         NEW debt \in Int, NEW fees \in Int,
         g.circulating = f.circulating + debt,
         g.collaterals[c].debt = f.collaterals[c].debt + debt,
         g.collaterals[c].uncharged = f.collaterals[c].uncharged + fees
  PROVE  Paid(f, g, debt - fees)
<1>1. /\ IntFunction(Debts(f)) /\ IntFunction(Fees(f))
      /\ IntFunction(Debts(g)) /\ IntFunction(Fees(g))
  BY PaidTyped
<1>2. SameBut(Debts(f), Debts(g), c) /\ SameBut(Fees(f), Fees(g), c)
  BY DEF SameBut, Debts, Fees
<1>3. /\ Term(Debts(f), c) = f.collaterals[c].debt
      /\ Term(Debts(g), c) = f.collaterals[c].debt + debt
      /\ Term(Fees(f), c) = f.collaterals[c].uncharged
      /\ Term(Fees(g), c) = f.collaterals[c].uncharged + fees
  BY DEF Term, Debts, Fees
<1>4. SumFunction(Debts(g))
        = SumFunction(Debts(f)) - f.collaterals[c].debt + (f.collaterals[c].debt + debt)
  BY <1>1, <1>2, <1>3, SumChange
<1>5. SumFunction(Fees(g))
        = SumFunction(Fees(f)) - f.collaterals[c].uncharged + (f.collaterals[c].uncharged + fees)
  BY <1>1, <1>2, <1>3, SumChange
<1>6. /\ SumFunction(Debts(f)) \in Int /\ SumFunction(Fees(f)) \in Int
      /\ f.circulating \in Int /\ f.collaterals[c].debt \in Int
      /\ f.collaterals[c].uncharged \in Int
  BY <1>1, SumFunctionType DEF Shaped, InfoTyped
<1> QED
  BY <1>4, <1>5, <1>6 DEF Paid, Unowed, PaidOut

\* The collateral of a tier is a Decimal.
LEMMA LockedTyped ==
  ASSUME NEW f, Shaped(f), NEW k
  PROVE  Locked(f, k) \in Int
BY DEF Locked, Shaped

\* Two entries for one tier make one.
LEMMA EntryEntry ==
  ASSUME NEW f, NEW g, NEW h, NEW k, NEW m \in Int, NEW n \in Int, NEW x \in Int,
         NEW y \in Int, NEW l \in Int, NEW r \in Int,
         Entry(f, g, k, m, x, l), Entry(g, h, k, n, y, r)
  PROVE  Entry(f, h, k, m + n, x + y, l + r)
<1>1. Paid(f, h, m + n)
  <2>1. PaidOut(f) \in Int
    BY PaidTyped DEF Entry, Accounted
  <2> QED
    BY <2>1 DEF Entry, Paid
<1>2. VaultMoved(f, h, k[1], x + y, l + r)
  <2>1. k[1] \in DOMAIN f.collaterals => InfoTyped(f.collaterals[k[1]])
    BY DEF Entry, Accounted, Shaped
  <2> QED
    BY <2>1 DEF Entry, VaultMoved, InfoTyped
<1>3. LockMoved(f, h, k, x + y)
  <2>1. Locked(f, k) \in Int
    BY LockedTyped DEF Entry, Accounted
  <2> QED
    BY <2>1 DEF Entry, LockMoved
<1> QED
  BY <1>1, <1>2, <1>3 DEF Entry

\* A change that leaves the accounts alone is an entry of nothing, if it empties
\* no other tier.
LEMMA StillEntry ==
  ASSUME NEW f, NEW g, Still(f, g), NEW k \in Tiers,
         EmptyTiers(g) \subseteq EmptyTiers(f) \cup {k}
  PROVE  Entry(f, g, k, 0, 0, 0)
<1>1. Paid(f, g, 0)
  <2>1. PaidOut(f) \in Int
    BY PaidTyped DEF Still, Accounted
  <2> QED
    BY <2>1 DEF Still, Paid, Unowed, PaidOut, Debts, Fees
<1>2. VaultMoved(f, g, k[1], 0, 0)
  BY DEF Still, VaultMoved, Accounted, Shaped, InfoTyped
<1>3. LockMoved(f, g, k, 0)
  <2>1. Locked(f, k) \in Int
    BY LockedTyped DEF Still, Accounted
  <2> QED
    BY <2>1 DEF Still, LockMoved
<1> QED
  BY <1>1, <1>2, <1>3 DEF Entry, Still

\* Two such changes make one.
LEMMA StillStill ==
  ASSUME NEW f, NEW g, NEW h, Still(f, g), Still(g, h)
  PROVE  Still(f, h)
BY DEF Still, SameDebts

\* A change of loans, marks and borrowers leaves the accounts alone if it keeps
\* their fields.
LEMMA LoansStill ==
  ASSUME NEW f, NEW g, Accounted(f), DOMAIN g = Fields, g.collaterals = f.collaterals,
         g.circulating = f.circulating, g.tiers = f.tiers, g.ratios = f.ratios,
         \A id \in DOMAIN g.cdps : DOMAIN g.cdps[id] = CdpFields,
         \A b \in DOMAIN g.borrowers : DOMAIN g.borrowers[b] = BorrowerFields
  PROVE  Still(f, g) /\ EmptyTiers(g) = EmptyTiers(f)
<1>1. Accounted(g)
  BY DEF Accounted, Shaped, Tracked
<1>2. EmptyTiers(g) = EmptyTiers(f)
  BY DEF EmptyTiers
<1> QED
  BY <1>1, <1>2 DEF Still, Locked, SameDebts, PoolOf, RealOf

\* The multiplier of a tier depends on its debts only.
LEMMA MultiplierSame ==
  ASSUME NEW f, NEW g, SameDebts(f, g), NEW k \in Tiers
  PROVE  DebtMultiplier(g, k) = DebtMultiplier(f, k)
<1>1. PoolOf(g, k) = PoolOf(f, k) /\ RealOf(g, k) = RealOf(f, k)
  BY DEF SameDebts
<1>2. ASSUME NEW h
      PROVE  DebtMultiplier(h, k) = IF PoolOf(h, k) # 0 /\ RealOf(h, k) # 0
                                    THEN Div(RealOf(h, k), PoolOf(h, k)) ELSE ONE
  BY DEF DebtMultiplier, PoolOf, RealOf
<1> QED
  BY <1>1, <1>2

\* A change of the totals of one collateral and one tier of it, each by the same
\* amount, is an entry: the form of every helper below that moves coins.
LEMMA LedgerEntry ==
  ASSUME NEW f, NEW g, Accounted(f), NEW k \in Tiers, k[1] \in DOMAIN f.collaterals,
         NEW debt \in Int, NEW fees \in Int, NEW coll \in Int, NEW left \in Int,
         DOMAIN g = Fields, SameLoans(f, g), g.ratios = f.ratios,
         g.circulating = f.circulating + debt,
         DOMAIN g.collaterals = DOMAIN f.collaterals,
         \A x \in DOMAIN f.collaterals \ {k[1]} : g.collaterals[x] = f.collaterals[x],
         DOMAIN g.collaterals[k[1]] = InfoFields,
         g.collaterals[k[1]].debt = f.collaterals[k[1]].debt + debt,
         g.collaterals[k[1]].uncharged = f.collaterals[k[1]].uncharged + fees,
         g.collaterals[k[1]].amount = f.collaterals[k[1]].amount + coll,
         g.collaterals[k[1]].vault = f.collaterals[k[1]].vault + coll,
         g.collaterals[k[1]].leftovers = f.collaterals[k[1]].leftovers + left,
         DOMAIN g.tiers = DOMAIN f.tiers,
         \A l \in DOMAIN f.tiers \ {k} : g.tiers[l] = f.tiers[l],
         k \in DOMAIN f.tiers => /\ DOMAIN g.tiers[k] = TierFields
                                 /\ g.tiers[k].coll = f.tiers[k].coll + coll
                                 /\ g.tiers[k].crs = f.tiers[k].crs,
         k \notin DOMAIN f.tiers => coll = 0
  PROVE  Entry(f, g, k, debt - fees, coll, left)
<1>1. InfoTyped(f.collaterals[k[1]]) /\ f.circulating \in Int
  BY DEF Accounted, Shaped
<1>2. InfoTyped(g.collaterals[k[1]]) /\ g.circulating \in Int
  BY <1>1 DEF InfoTyped
<1>3. \A c \in DOMAIN g.collaterals : InfoTyped(g.collaterals[c])
  BY <1>2 DEF Accounted, Shaped
<1>4. \A l \in DOMAIN g.tiers :
        /\ DOMAIN g.tiers[l] = TierFields /\ g.tiers[l].coll \in Int
        /\ g.tiers[l].crs = f.tiers[l].crs /\ f.tiers[l].crs \in Int
  BY DEF Accounted, Shaped
<1>5. Shaped(g)
  BY <1>2, <1>3, <1>4 DEF Accounted, Shaped, SameLoans
<1>6. Tracked(g)
  BY <1>4 DEF Accounted, Tracked
<1>7. Paid(f, g, debt - fees)
  BY <1>5, PaidOfOne DEF Accounted
<1>8. VaultMoved(f, g, k[1], coll, left)
  BY DEF VaultMoved
<1>9. LockMoved(f, g, k, coll)
  BY DEF LockMoved, Locked
<1>10. EmptyTiers(g) = EmptyTiers(f)
  BY DEF EmptyTiers
<1> QED
  BY <1>5, <1>6, <1>7, <1>8, <1>9, <1>10 DEF Entry, Accounted

-----------------------------------------------------------------------------

\* insert_interest_info_if_absent moves nothing; the tier is there after it.
LEMMA InsertInfoEntry ==
  ASSUME NEW f, Accounted(f), NEW k \in Tiers, now \in Nat
  PROVE  LET g == InsertInterestInfoIfAbsent(f, k)
         IN  /\ Still(f, g) /\ Entry(f, g, k, 0, 0, 0) /\ SameLoans(f, g)
             /\ g.ratios = f.ratios /\ DOMAIN g.tiers = DOMAIN f.tiers \cup {k}
<1> DEFINE info == [pool |-> 0, real |-> 0, coll |-> 0, crs |-> 0, last |-> now]
           tiers == With(f.tiers, k, info)
           g == [f EXCEPT !.tiers = tiers]
<1>1. CASE k \in DOMAIN f.tiers
  <2>1. Still(f, f) /\ EmptyTiers(f) \subseteq EmptyTiers(f) \cup {k}
    BY DEF Still, SameDebts
  <2>2. Entry(f, f, k, 0, 0, 0)
    BY <2>1, StillEntry
  <2> QED
    BY <1>1, <2>1, <2>2 DEF InsertInterestInfoIfAbsent, SameLoans
<1>2. CASE k \notin DOMAIN f.tiers
  <2>1. InsertInterestInfoIfAbsent(f, k) = g
    BY <1>2 DEF InsertInterestInfoIfAbsent
  <2>2. /\ g.tiers = tiers /\ g.ratios = f.ratios /\ g.collaterals = f.collaterals
        /\ SameLoans(f, g) /\ g.circulating = f.circulating /\ DOMAIN g = Fields
    BY DEF Accounted, Shaped, Fields, SameLoans
  <2>3. /\ DOMAIN tiers = DOMAIN f.tiers \cup {k} /\ tiers[k] = info
        /\ \A l \in DOMAIN f.tiers : tiers[l] = f.tiers[l]
    BY <1>2 DEF With
  <2>4. /\ DOMAIN info = TierFields /\ info.coll = 0 /\ info.crs = 0
        /\ info.pool = 0 /\ info.real = 0
    BY DEF TierFields
  <2> HIDE DEF g, tiers, info
  <2>5. Shaped(g)
    <3>1. IsFiniteSet(DOMAIN g.tiers)
      BY <2>2, <2>3, FS_AddElement DEF Accounted, Shaped
    <3> QED
      BY <2>2, <2>3, <2>4, <3>1 DEF Accounted, Shaped, SameLoans
  <2>6. DOMAIN f.ratios[k] = {}
    BY <1>2 DEF Accounted, Tracked
  <2>7. Tracked(g)
    BY <2>2, <2>3, <2>4, <2>6, FS_EmptySet DEF Accounted, Tracked
  <2>8. /\ \A l \in Tiers : Locked(g, l) = Locked(f, l)
        /\ SameDebts(f, g)
    BY <1>2, <2>2, <2>3, <2>4 DEF SameDebts, Locked, PoolOf, RealOf
  <2>9. EmptyTiers(g) \subseteq EmptyTiers(f) \cup {k}
    BY <2>2, <2>3 DEF EmptyTiers
  <2>10. Still(f, g)
    BY <2>2, <2>3, <2>5, <2>7, <2>8 DEF Accounted, Still
  <2>11. Entry(f, g, k, 0, 0, 0)
    BY <2>9, <2>10, StillEntry
  <2> QED
    BY <2>1, <2>2, <2>3, <2>10, <2>11
<1> QED
  BY <1>1, <1>2

\* What the four helpers that touch one collateral only do to the accounts.
LEMMA CoinEntries ==
  ASSUME NEW f, Accounted(f), NEW k \in Tiers, k[1] \in DOMAIN f.collaterals, NEW n \in Int
  PROVE  /\ \A price : LET g == WithPrice(f, k[1], price)
                       IN  /\ Entry(f, g, k, 0, 0, 0) /\ SameLoans(f, g)
                           /\ g.ratios = f.ratios /\ g.tiers = f.tiers
         /\ LET g == PutUncharged(f, k[1], n)
            IN  /\ Entry(f, g, k, -n, 0, 0) /\ SameLoans(f, g)
                /\ g.ratios = f.ratios /\ g.tiers = f.tiers
         /\ LET g == PutInLeftovers(f, k[1], n)
            IN  /\ Entry(f, g, k, 0, 0, n) /\ SameLoans(f, g)
                /\ g.ratios = f.ratios /\ g.tiers = f.tiers
         /\ LET g == TakeFromLeftovers(f, k[1], n)
            IN  /\ Entry(f, g, k, 0, 0, -n) /\ SameLoans(f, g)
                /\ g.ratios = f.ratios /\ g.tiers = f.tiers
<1> DEFINE c == k[1]
<1>1. InfoTyped(f.collaterals[c]) /\ f.circulating \in Int
  BY DEF Accounted, Shaped
<1>2. ASSUME NEW g, NEW new, g = [f EXCEPT !.collaterals[c] = new]
      PROVE  /\ DOMAIN g = Fields /\ SameLoans(f, g) /\ g.ratios = f.ratios
             /\ g.tiers = f.tiers /\ g.circulating = f.circulating
             /\ DOMAIN g.collaterals = DOMAIN f.collaterals /\ g.collaterals[c] = new
             /\ \A x \in DOMAIN f.collaterals \ {c} : g.collaterals[x] = f.collaterals[x]
  BY <1>2 DEF Accounted, Shaped, Fields, SameLoans
<1>3. ASSUME NEW g, NEW new, g = [f EXCEPT !.collaterals[c] = new],
             DOMAIN new = InfoFields,
             NEW fees \in Int, NEW left \in Int,
             new.debt = f.collaterals[c].debt,
             new.uncharged = f.collaterals[c].uncharged + fees,
             new.amount = f.collaterals[c].amount, new.vault = f.collaterals[c].vault,
             new.leftovers = f.collaterals[c].leftovers + left
      PROVE  /\ Entry(f, g, k, 0 - fees, 0, left) /\ SameLoans(f, g)
             /\ g.ratios = f.ratios /\ g.tiers = f.tiers
  <2>1. /\ DOMAIN g = Fields /\ SameLoans(f, g) /\ g.ratios = f.ratios
        /\ g.tiers = f.tiers /\ g.circulating = f.circulating
        /\ DOMAIN g.collaterals = DOMAIN f.collaterals /\ g.collaterals[c] = new
        /\ \A x \in DOMAIN f.collaterals \ {c} : g.collaterals[x] = f.collaterals[x]
    BY <1>2, <1>3
  <2>2. /\ g.circulating = f.circulating + 0
        /\ DOMAIN g.collaterals[c] = InfoFields
        /\ g.collaterals[c].debt = f.collaterals[c].debt + 0
        /\ g.collaterals[c].uncharged = f.collaterals[c].uncharged + fees
        /\ g.collaterals[c].amount = f.collaterals[c].amount + 0
        /\ g.collaterals[c].vault = f.collaterals[c].vault + 0
        /\ g.collaterals[c].leftovers = f.collaterals[c].leftovers + left
    BY <1>1, <1>3, <2>1 DEF InfoTyped
  <2>3. k \in DOMAIN f.tiers => /\ DOMAIN g.tiers[k] = TierFields
                                /\ g.tiers[k].coll = f.tiers[k].coll + 0
                                /\ g.tiers[k].crs = f.tiers[k].crs
    BY <2>1 DEF Accounted, Shaped
  <2>4. Entry(f, g, k, 0 - fees, 0, left)
    BY <2>1, <2>2, <2>3, LedgerEntry
  <2> QED
    BY <2>1, <2>4
<1>4. ASSUME NEW price
      PROVE  LET g == WithPrice(f, k[1], price)
             IN  /\ Entry(f, g, k, 0, 0, 0) /\ SameLoans(f, g)
                 /\ g.ratios = f.ratios /\ g.tiers = f.tiers
  <2> DEFINE new == [f.collaterals[c] EXCEPT !.price = price]
             g == WithPrice(f, k[1], price)
  <2>1. /\ DOMAIN new = InfoFields
        /\ new.debt = f.collaterals[c].debt
        /\ new.uncharged = f.collaterals[c].uncharged + 0
        /\ new.amount = f.collaterals[c].amount /\ new.vault = f.collaterals[c].vault
        /\ new.leftovers = f.collaterals[c].leftovers + 0
    BY <1>1 DEF InfoTyped, InfoFields
  <2>2. g = [f EXCEPT !.collaterals[c] = new]
    BY DEF WithPrice
  <2> HIDE DEF g, new
  <2>3. Entry(f, g, k, 0 - 0, 0, 0) /\ SameLoans(f, g) /\ g.ratios = f.ratios /\ g.tiers = f.tiers
    BY <1>3, <2>1, <2>2
  <2> QED
    BY <2>3 DEF g
<1>5. LET g == PutUncharged(f, k[1], n)
      IN  Entry(f, g, k, -n, 0, 0) /\ SameLoans(f, g) /\ g.ratios = f.ratios /\ g.tiers = f.tiers
  <2> DEFINE new == [f.collaterals[c] EXCEPT !.uncharged = @ + n]
             g == PutUncharged(f, k[1], n)
  <2>1. /\ DOMAIN new = InfoFields
        /\ new.debt = f.collaterals[c].debt
        /\ new.uncharged = f.collaterals[c].uncharged + n
        /\ new.amount = f.collaterals[c].amount /\ new.vault = f.collaterals[c].vault
        /\ new.leftovers = f.collaterals[c].leftovers + 0
    BY <1>1 DEF InfoTyped, InfoFields
  <2>2. g = [f EXCEPT !.collaterals[c] = new]
    BY DEF PutUncharged
  <2> HIDE DEF g, new
  <2>3. Entry(f, g, k, 0 - n, 0, 0) /\ SameLoans(f, g) /\ g.ratios = f.ratios /\ g.tiers = f.tiers
    BY <1>3, <2>1, <2>2
  <2> QED
    BY <2>3 DEF g
<1>6. ASSUME NEW m \in Int, NEW g,
             g = [f EXCEPT !.collaterals[c] = [f.collaterals[c] EXCEPT !.leftovers = @ + m]]
      PROVE  Entry(f, g, k, 0, 0, m) /\ SameLoans(f, g) /\ g.ratios = f.ratios /\ g.tiers = f.tiers
  <2> DEFINE new == [f.collaterals[c] EXCEPT !.leftovers = @ + m]
  <2>1. /\ DOMAIN new = InfoFields
        /\ new.debt = f.collaterals[c].debt
        /\ new.uncharged = f.collaterals[c].uncharged + 0
        /\ new.amount = f.collaterals[c].amount /\ new.vault = f.collaterals[c].vault
        /\ new.leftovers = f.collaterals[c].leftovers + m
    BY <1>1 DEF InfoTyped, InfoFields
  <2>2. g = [f EXCEPT !.collaterals[c] = new]
    BY <1>6
  <2> HIDE DEF new
  <2>3. Entry(f, g, k, 0 - 0, 0, m) /\ SameLoans(f, g) /\ g.ratios = f.ratios /\ g.tiers = f.tiers
    BY <1>3, <2>1, <2>2
  <2> QED
    BY <2>3
<1>7. LET g == PutInLeftovers(f, k[1], n)
      IN  Entry(f, g, k, 0, 0, n) /\ SameLoans(f, g) /\ g.ratios = f.ratios /\ g.tiers = f.tiers
  <2>1. PutInLeftovers(f, k[1], n)
          = [f EXCEPT !.collaterals[c] = [f.collaterals[c] EXCEPT !.leftovers = @ + n]]
    BY DEF PutInLeftovers
  <2> QED
    BY <1>6, <2>1
<1>8. LET g == TakeFromLeftovers(f, k[1], n)
      IN  Entry(f, g, k, 0, 0, -n) /\ SameLoans(f, g) /\ g.ratios = f.ratios /\ g.tiers = f.tiers
  <2> DEFINE m == -n
  <2>1. f.collaterals[c].leftovers - n = f.collaterals[c].leftovers + m /\ m \in Int
    BY <1>1 DEF InfoTyped
  <2>2. TakeFromLeftovers(f, k[1], n)
          = [f EXCEPT !.collaterals[c] = [f.collaterals[c] EXCEPT !.leftovers = @ + m]]
    BY <2>1 DEF TakeFromLeftovers
  <2> HIDE DEF m
  <2>3. LET g == TakeFromLeftovers(f, k[1], n)
        IN  Entry(f, g, k, 0, 0, m) /\ SameLoans(f, g) /\ g.ratios = f.ratios /\ g.tiers = f.tiers
    BY <1>6, <2>1, <2>2
  <2> QED
    BY <2>3 DEF m
<1> QED
  BY <1>4, <1>5, <1>7, <1>8

\* mint_fusd with add_debt: what is minted is circulating, and owed.
LEMMA MintEntry ==
  ASSUME NEW f, Accounted(f), NEW k \in Tiers, k[1] \in DOMAIN f.collaterals,
         now \in Nat, NEW pool, NEW real \in Int, real = PoolToRealDebt(f, k, pool)
  PROVE  LET g == AddDebt(MintFusd(f, k, pool), k, real)
         IN  /\ Entry(f, g, k, real, 0, 0) /\ SameLoans(f, g) /\ g.ratios = f.ratios
             /\ k \in DOMAIN g.tiers /\ DOMAIN f.tiers \subseteq DOMAIN g.tiers
<1> DEFINE f1 == InsertInterestInfoIfAbsent(f, k)
           t == [f1.tiers[k] EXCEPT !.pool = @ + pool, !.real = @ + real]
           info == [f1.collaterals[k[1]] EXCEPT !.debt = @ + real]
           g == AddDebt(MintFusd(f, k, pool), k, real)
<1>1. /\ Entry(f, f1, k, 0, 0, 0) /\ SameLoans(f, f1) /\ SameDebts(f, f1)
      /\ f1.collaterals = f.collaterals /\ f1.circulating = f.circulating
      /\ f1.ratios = f.ratios /\ DOMAIN f1.tiers = DOMAIN f.tiers \cup {k}
  BY InsertInfoEntry DEF Still
<1>2. PoolToRealDebt(f1, k, pool) = real
  BY <1>1, MultiplierSame DEF PoolToRealDebt
<1>3. Accounted(f1) /\ k \in DOMAIN f1.tiers
  BY <1>1 DEF Entry
<1>4. g = [[f1 EXCEPT !.tiers[k].pool = @ + pool, !.tiers[k].real = @ + real,
                      !.circulating = @ + real] EXCEPT !.collaterals[k[1]].debt = @ + real]
  BY <1>2 DEF AddDebt, MintFusd
<1> HIDE DEF f1, g
<1>5. /\ DOMAIN g = Fields /\ SameLoans(f1, g) /\ g.ratios = f1.ratios
      /\ g.circulating = f1.circulating + real
      /\ g.collaterals = [f1.collaterals EXCEPT ![k[1]] = info]
      /\ g.tiers = [f1.tiers EXCEPT ![k] = t]
  BY <1>3, <1>4 DEF Accounted, Shaped, Fields, SameLoans, TierFields
<1>6. /\ DOMAIN t = TierFields /\ t.coll = f1.tiers[k].coll + 0 /\ t.crs = f1.tiers[k].crs
  BY <1>3 DEF Accounted, Shaped, TierFields
<1>7. k[1] \in DOMAIN f1.collaterals /\ InfoTyped(f1.collaterals[k[1]])
  BY <1>1, <1>3 DEF Accounted, Shaped
<1>8. /\ DOMAIN info = InfoFields
      /\ info.debt = f1.collaterals[k[1]].debt + real
      /\ info.uncharged = f1.collaterals[k[1]].uncharged + 0
      /\ info.amount = f1.collaterals[k[1]].amount + 0
      /\ info.vault = f1.collaterals[k[1]].vault + 0
      /\ info.leftovers = f1.collaterals[k[1]].leftovers + 0
  BY <1>7 DEF InfoTyped, InfoFields
<1> HIDE DEF t, info
<1>9. Entry(f1, g, k, real - 0, 0, 0)
  BY <1>3, <1>5, <1>6, <1>7, <1>8, LedgerEntry
<1>10. Entry(f, g, k, 0 + real, 0 + 0, 0 + 0)
  <2>1. Entry(f1, g, k, real, 0, 0)
    BY <1>9
  <2> QED
    BY <1>1, <2>1, EntryEntry
<1>11. k \in DOMAIN g.tiers /\ DOMAIN f.tiers \subseteq DOMAIN g.tiers
  BY <1>1, <1>5
<1> QED
  BY <1>1, <1>5, <1>10, <1>11 DEF SameLoans, g

\* unmint_fusd with remove_debt: what is burned neither circulates nor is owed.
LEMMA RepayEntry ==
  ASSUME NEW f, Accounted(f), NEW k \in DOMAIN f.tiers, k[1] \in DOMAIN f.collaterals,
         NEW real \in Int
  PROVE  LET g == RemoveDebt(UnmintFusd(f, k, real), k, real)
         IN  /\ Entry(f, g, k, -real, 0, 0) /\ SameLoans(f, g) /\ g.ratios = f.ratios
             /\ DOMAIN g.tiers = DOMAIN f.tiers
<1> DEFINE pool == RealToPoolDebt(f, k, real)
           t == [f.tiers[k] EXCEPT !.pool = @ - pool, !.real = @ - real]
           info == [f.collaterals[k[1]] EXCEPT !.debt = @ - real]
           g == RemoveDebt(UnmintFusd(f, k, real), k, real)
           n == -real
<1>1. g = [[[f EXCEPT !.tiers[k].pool = @ - pool, !.tiers[k].real = @ - real]
              EXCEPT !.circulating = @ - real] EXCEPT !.collaterals[k[1]].debt = @ - real]
  BY DEF RemoveDebt, UnmintFusd, LeaveTier
<1>2. f.circulating \in Int /\ InfoTyped(f.collaterals[k[1]]) /\ k \in Tiers
  BY DEF Accounted, Shaped
<1> HIDE DEF g, pool
<1>3. /\ DOMAIN g = Fields /\ SameLoans(f, g) /\ g.ratios = f.ratios
      /\ g.circulating = f.circulating - real
      /\ g.collaterals = [f.collaterals EXCEPT ![k[1]] = info]
      /\ g.tiers = [f.tiers EXCEPT ![k] = t]
  BY <1>1 DEF Accounted, Shaped, Fields, SameLoans, TierFields
<1>4. n \in Int /\ g.circulating = f.circulating + n
  BY <1>2, <1>3
<1>5. /\ DOMAIN t = TierFields /\ t.coll = f.tiers[k].coll + 0 /\ t.crs = f.tiers[k].crs
  BY DEF Accounted, Shaped, TierFields
<1>6. /\ DOMAIN info = InfoFields
      /\ info.debt = f.collaterals[k[1]].debt + n
      /\ info.uncharged = f.collaterals[k[1]].uncharged + 0
      /\ info.amount = f.collaterals[k[1]].amount + 0
      /\ info.vault = f.collaterals[k[1]].vault + 0
      /\ info.leftovers = f.collaterals[k[1]].leftovers + 0
  BY <1>2 DEF InfoTyped, InfoFields
<1> HIDE DEF t, info, n
<1>7. Entry(f, g, k, n - 0, 0, 0)
  BY <1>2, <1>3, <1>4, <1>5, <1>6, LedgerEntry
<1>8. Entry(f, g, k, n, 0, 0)
  BY <1>4, <1>7
<1>9. DOMAIN g.tiers = DOMAIN f.tiers
  BY <1>3
<1> QED
  BY <1>3, <1>8, <1>9 DEF g, n

\* What unmint_fusd and move_fusd_interest do to a tier.
WithTierDebt(f, k, pool, real) ==
  [f EXCEPT !.tiers[k].pool = pool, !.tiers[k].real = real]

\* A change of a tier's debt is no entry in these accounts.
LEMMA TierDebtEntry ==
  ASSUME NEW f, Accounted(f), NEW k \in DOMAIN f.tiers, k[1] \in DOMAIN f.collaterals,
         NEW pool, NEW real
  PROVE  LET g == WithTierDebt(f, k, pool, real)
         IN  /\ Entry(f, g, k, 0, 0, 0) /\ SameLoans(f, g) /\ g.ratios = f.ratios
             /\ DOMAIN g.tiers = DOMAIN f.tiers
<1> DEFINE t == [f.tiers[k] EXCEPT !.pool = pool, !.real = real]
           g == WithTierDebt(f, k, pool, real)
<1>1. /\ DOMAIN g = Fields /\ SameLoans(f, g) /\ g.ratios = f.ratios
      /\ g.circulating = f.circulating /\ g.collaterals = f.collaterals
      /\ g.tiers = [f.tiers EXCEPT ![k] = t]
  BY DEF Accounted, Shaped, Fields, SameLoans, TierFields, WithTierDebt
<1> HIDE DEF g
<1>2. /\ DOMAIN t = TierFields /\ t.coll = f.tiers[k].coll + 0 /\ t.crs = f.tiers[k].crs
  BY DEF Accounted, Shaped, TierFields
<1>3. f.circulating \in Int /\ InfoTyped(f.collaterals[k[1]]) /\ k \in Tiers
  BY DEF Accounted, Shaped
<1>4. /\ g.circulating = f.circulating + 0
      /\ DOMAIN g.collaterals[k[1]] = InfoFields
      /\ g.collaterals[k[1]].debt = f.collaterals[k[1]].debt + 0
      /\ g.collaterals[k[1]].uncharged = f.collaterals[k[1]].uncharged + 0
      /\ g.collaterals[k[1]].amount = f.collaterals[k[1]].amount + 0
      /\ g.collaterals[k[1]].vault = f.collaterals[k[1]].vault + 0
      /\ g.collaterals[k[1]].leftovers = f.collaterals[k[1]].leftovers + 0
  BY <1>1, <1>3 DEF InfoTyped
<1> HIDE DEF t
<1>5. /\ DOMAIN g.collaterals = DOMAIN f.collaterals
      /\ \A x \in DOMAIN f.collaterals \ {k[1]} : g.collaterals[x] = f.collaterals[x]
      /\ DOMAIN g.tiers = DOMAIN f.tiers /\ g.tiers[k] = t
      /\ \A l \in DOMAIN f.tiers \ {k} : g.tiers[l] = f.tiers[l]
  BY <1>1
<1>6. Entry(f, g, k, 0 - 0, 0, 0)
  <2>1. DOMAIN g = Fields /\ SameLoans(f, g) /\ g.ratios = f.ratios
    BY <1>1
  <2>2. k \in DOMAIN f.tiers => /\ DOMAIN g.tiers[k] = TierFields
                                /\ g.tiers[k].coll = f.tiers[k].coll + 0
                                /\ g.tiers[k].crs = f.tiers[k].crs
    BY <1>2, <1>5
  <2> QED
    BY <1>3, <1>4, <1>5, <2>1, <2>2, LedgerEntry
<1> QED
  BY <1>1, <1>5, <1>6 DEF g

\* move_fusd_interest: debt goes from one tier to another, and that is all.
LEMMA MoveEntry ==
  ASSUME NEW f, Accounted(f), NEW old \in DOMAIN f.tiers, NEW new \in DOMAIN f.tiers,
         old[1] \in DOMAIN f.collaterals, new[1] \in DOMAIN f.collaterals, NEW real
  PROVE  LET g == MoveFusdInterest(f, old, new, real)
         IN  /\ Accounted(g) /\ Paid(f, g, 0) /\ VaultMoved(f, g, new[1], 0, 0)
             /\ \A l \in Tiers : Locked(g, l) = Locked(f, l)
             /\ EmptyTiers(g) \subseteq EmptyTiers(f) \cup {old, new}
             /\ SameLoans(f, g) /\ g.ratios = f.ratios /\ DOMAIN g.tiers = DOMAIN f.tiers
<1> DEFINE less == f.tiers[old].pool - RealToPoolDebt(f, old, real)
           left == f.tiers[old].real - real
           f1 == LeaveTier(f, old, real)
           more == f1.tiers[new].pool + RealToPoolDebt(f1, new, real)
           owed == f1.tiers[new].real + real
           f2 == EnterTier(f1, new, real)
<1>1. f1 = WithTierDebt(f, old, less, left)
  BY DEF WithTierDebt, LeaveTier, Accounted, Shaped, TierFields
<1> HIDE DEF f1, less, left
<1>2. /\ Entry(f, f1, old, 0, 0, 0) /\ SameLoans(f, f1) /\ f1.ratios = f.ratios
      /\ DOMAIN f1.tiers = DOMAIN f.tiers
  BY <1>1, TierDebtEntry
<1>3. f2 = WithTierDebt(f1, new, more, owed)
  BY <1>2 DEF WithTierDebt, EnterTier, Entry, Accounted, Shaped, TierFields
<1> HIDE DEF f2, more, owed
<1>4. /\ Entry(f1, f2, new, 0, 0, 0) /\ SameLoans(f1, f2) /\ f2.ratios = f1.ratios
      /\ DOMAIN f2.tiers = DOMAIN f1.tiers
  <2>1. new[1] \in DOMAIN f1.collaterals /\ Accounted(f1)
    BY <1>2 DEF Entry, VaultMoved
  <2> QED
    BY <1>2, <1>3, <2>1, TierDebtEntry
<1>5. f2 = MoveFusdInterest(f, old, new, real)
  BY DEF MoveFusdInterest, f1, f2
<1>6. Paid(f, f2, 0)
  <2>1. PaidOut(f) \in Int
    BY PaidTyped DEF Accounted
  <2> QED
    BY <1>2, <1>4, <2>1 DEF Entry, Paid
<1>7. VaultMoved(f, f2, new[1], 0, 0)
  <2>1. \A c \in DOMAIN f.collaterals : InfoTyped(f.collaterals[c])
    BY DEF Accounted, Shaped
  <2>2. ASSUME NEW c \in DOMAIN f.collaterals
        PROVE  /\ f1.collaterals[c].amount = f.collaterals[c].amount
               /\ f1.collaterals[c].vault = f.collaterals[c].vault
               /\ f1.collaterals[c].leftovers = f.collaterals[c].leftovers
    BY <1>2, <2>1 DEF Entry, VaultMoved, InfoTyped
  <2>3. ASSUME NEW c \in DOMAIN f.collaterals
        PROVE  /\ f2.collaterals[c].amount = f1.collaterals[c].amount
               /\ f2.collaterals[c].vault = f1.collaterals[c].vault
               /\ f2.collaterals[c].leftovers = f1.collaterals[c].leftovers
    BY <1>2, <1>4, <2>1, <2>2 DEF Entry, VaultMoved, InfoTyped
  <2> QED
    BY <1>2, <1>4, <2>1, <2>2, <2>3 DEF Entry, VaultMoved, InfoTyped
<1>8. \A l \in Tiers : Locked(f2, l) = Locked(f, l)
  <2>1. \A l \in Tiers : Locked(f, l) \in Int
    BY LockedTyped DEF Accounted
  <2>2. \A l \in Tiers : Locked(f1, l) = Locked(f, l)
    BY <1>2, <2>1 DEF Entry, LockMoved
  <2> QED
    BY <1>4, <2>1, <2>2 DEF Entry, LockMoved
<1> QED
  BY <1>2, <1>4, <1>5, <1>6, <1>7, <1>8 DEF Entry, SameLoans

\* What put_collateral and take_collateral do to a tier that is there and to its
\* vault: collateral goes in, or with a negative amount out.
WithLocked(f, k, n) ==
  [f EXCEPT !.tiers[k].coll = @ + n, !.collaterals[k[1]].amount = @ + n,
            !.collaterals[k[1]].vault = @ + n]

\* A change of what a tier and its vault hold is entered as such.
LEMMA LockEntry ==
  ASSUME NEW f, Accounted(f), NEW k \in DOMAIN f.tiers, k[1] \in DOMAIN f.collaterals,
         NEW n \in Int
  PROVE  LET g == WithLocked(f, k, n)
         IN  /\ Entry(f, g, k, 0, n, 0) /\ SameLoans(f, g) /\ SameDebts(f, g)
             /\ g.ratios = f.ratios /\ DOMAIN g.tiers = DOMAIN f.tiers
<1> DEFINE g == WithLocked(f, k, n)
           t == [f.tiers[k] EXCEPT !.coll = @ + n]
           info == [f.collaterals[k[1]] EXCEPT !.amount = @ + n, !.vault = @ + n]
<1>1. f.circulating \in Int /\ InfoTyped(f.collaterals[k[1]]) /\ k \in Tiers
  BY DEF Accounted, Shaped
<1>2. /\ DOMAIN g = Fields /\ SameLoans(f, g) /\ g.ratios = f.ratios
      /\ g.circulating = f.circulating
      /\ g.collaterals = [f.collaterals EXCEPT ![k[1]] = info]
      /\ g.tiers = [f.tiers EXCEPT ![k] = t]
  BY <1>1 DEF Accounted, Shaped, Fields, SameLoans, InfoTyped, InfoFields, WithLocked
<1> HIDE DEF g
<1>3. /\ DOMAIN t = TierFields /\ t.coll = f.tiers[k].coll + n /\ t.crs = f.tiers[k].crs
      /\ t.pool = f.tiers[k].pool /\ t.real = f.tiers[k].real
  BY DEF Accounted, Shaped, TierFields
<1>4. /\ DOMAIN info = InfoFields
      /\ info.debt = f.collaterals[k[1]].debt + 0
      /\ info.uncharged = f.collaterals[k[1]].uncharged + 0
      /\ info.amount = f.collaterals[k[1]].amount + n
      /\ info.vault = f.collaterals[k[1]].vault + n
      /\ info.leftovers = f.collaterals[k[1]].leftovers + 0
      /\ g.circulating = f.circulating + 0
  BY <1>1, <1>2 DEF InfoTyped, InfoFields
<1> HIDE DEF t, info
<1>5. Entry(f, g, k, 0 - 0, n, 0)
  BY <1>1, <1>2, <1>3, <1>4, LedgerEntry, SMTT(30)
<1>6. SameDebts(f, g)
  BY <1>2, <1>3 DEF SameDebts, PoolOf, RealOf
<1>7. DOMAIN g.tiers = DOMAIN f.tiers
  BY <1>2
<1> QED
  BY <1>2, <1>5, <1>6, <1>7 DEF g

\* put_collateral moves collateral in.
LEMMA PutEntry ==
  ASSUME NEW f, Accounted(f), NEW k \in Tiers, k[1] \in DOMAIN f.collaterals,
         now \in Nat, NEW n \in Int
  PROVE  LET g == PutCollateral(f, k, n)
         IN  /\ Entry(f, g, k, 0, n, 0) /\ SameLoans(f, g) /\ SameDebts(f, g)
             /\ g.ratios = f.ratios /\ DOMAIN g.tiers = DOMAIN f.tiers \cup {k}
<1> DEFINE f1 == InsertInterestInfoIfAbsent(f, k)
           g == PutCollateral(f, k, n)
<1>1. /\ Entry(f, f1, k, 0, 0, 0) /\ SameLoans(f, f1) /\ SameDebts(f, f1)
      /\ f1.collaterals = f.collaterals
      /\ f1.ratios = f.ratios /\ DOMAIN f1.tiers = DOMAIN f.tiers \cup {k}
  BY InsertInfoEntry DEF Still
<1>2. g = WithLocked(f1, k, n)
  BY DEF PutCollateral, WithLocked
<1>3. k[1] \in DOMAIN f1.collaterals /\ k \in DOMAIN f1.tiers /\ Accounted(f1)
  BY <1>1 DEF Entry
<1> HIDE DEF f1, g
<1>4. /\ Entry(f1, g, k, 0, n, 0) /\ SameLoans(f1, g) /\ SameDebts(f1, g)
      /\ g.ratios = f1.ratios /\ DOMAIN g.tiers = DOMAIN f1.tiers
  BY <1>2, <1>3, LockEntry
<1>5. Entry(f, g, k, 0 + 0, 0 + n, 0 + 0)
  BY <1>1, <1>4, EntryEntry
<1> QED
  BY <1>1, <1>4, <1>5 DEF SameLoans, SameDebts, g

\* take_collateral moves collateral out.
LEMMA TakeEntry ==
  ASSUME NEW f, Accounted(f), NEW k \in DOMAIN f.tiers, k[1] \in DOMAIN f.collaterals,
         NEW n \in Int
  PROVE  LET g == TakeCollateral(f, k, n)
         IN  /\ Entry(f, g, k, 0, -n, 0) /\ SameLoans(f, g) /\ SameDebts(f, g)
             /\ g.ratios = f.ratios /\ DOMAIN g.tiers = DOMAIN f.tiers
<1> DEFINE m == -n
           g == TakeCollateral(f, k, n)
<1>1. InfoTyped(f.collaterals[k[1]]) /\ f.tiers[k].coll \in Int
  BY DEF Accounted, Shaped
<1>2. /\ f.tiers[k].coll - n = f.tiers[k].coll + m
      /\ f.collaterals[k[1]].amount - n = f.collaterals[k[1]].amount + m
      /\ f.collaterals[k[1]].vault - n = f.collaterals[k[1]].vault + m
      /\ m \in Int
  BY <1>1 DEF InfoTyped
<1> HIDE DEF m
<1>3. g = WithLocked(f, k, m)
  BY <1>1, <1>2 DEF WithLocked, TakeCollateral, Accounted, Shaped, InfoTyped, InfoFields, TierFields, Fields
<1> HIDE DEF g
<1>4. /\ Entry(f, g, k, 0, m, 0) /\ SameLoans(f, g) /\ SameDebts(f, g)
      /\ g.ratios = f.ratios /\ DOMAIN g.tiers = DOMAIN f.tiers
  BY <1>2, <1>3, LockEntry, Zenon
<1> QED
  BY <1>4 DEF g, m

-----------------------------------------------------------------------------

\* A change of one ratio tree, with the count that goes with it, moves nothing.
LEMMA TreeStill ==
  ASSUME NEW f, Accounted(f), NEW k \in DOMAIN f.tiers, NEW tree,
         IsFiniteSet(DOMAIN tree), NEW g, DOMAIN g = Fields, SameLoans(f, g),
         g.collaterals = f.collaterals, g.circulating = f.circulating,
         g.ratios = [f.ratios EXCEPT ![k] = tree],
         DOMAIN g.tiers = DOMAIN f.tiers,
         \A l \in DOMAIN f.tiers \ {k} : g.tiers[l] = f.tiers[l],
         DOMAIN g.tiers[k] = TierFields, g.tiers[k].crs = Cardinality(DOMAIN tree),
         g.tiers[k].coll = f.tiers[k].coll, g.tiers[k].pool = f.tiers[k].pool,
         g.tiers[k].real = f.tiers[k].real
  PROVE  /\ Still(f, g)
         /\ EmptyTiers(g) \subseteq EmptyTiers(f) \cup {k}
         /\ DOMAIN tree # {} => EmptyTiers(g) \subseteq EmptyTiers(f) \ {k}
<1>1. k \in Tiers /\ DOMAIN f.ratios = Tiers /\ Cardinality(DOMAIN tree) \in Int
  BY FS_CardinalityType DEF Accounted, Shaped
<1>2. /\ DOMAIN g.ratios = Tiers /\ g.ratios[k] = tree
      /\ \A l \in Tiers \ {k} : g.ratios[l] = f.ratios[l]
  BY <1>1
<1>3. Shaped(g)
  <2>1. g.tiers[k].coll \in Int /\ g.tiers[k].crs \in Int
    BY <1>1 DEF Accounted, Shaped
  <2> QED
    BY <1>2, <2>1 DEF Accounted, Shaped, SameLoans
<1>4. Tracked(g)
  BY <1>2 DEF Accounted, Tracked
<1>5. (\A l \in Tiers : Locked(g, l) = Locked(f, l)) /\ SameDebts(f, g)
  BY DEF SameDebts, Locked, PoolOf, RealOf
<1>6. /\ EmptyTiers(g) \subseteq EmptyTiers(f) \cup {k}
      /\ DOMAIN tree # {} => EmptyTiers(g) \subseteq EmptyTiers(f) \ {k}
  <2>1. DOMAIN f.tiers \subseteq Tiers
    BY DEF Accounted, Shaped
  <2> QED
    BY <1>2, <2>1 DEF EmptyTiers
<1> QED
  BY <1>3, <1>4, <1>5, <1>6 DEF Still, Accounted

\* remove_cr moves nothing, and keeps the count of ratios right.
LEMMA RemoveCrStill ==
  ASSUME NEW f, Accounted(f), NEW k \in Tiers, NEW cr \in DOMAIN f.ratios[k], NEW id
  PROVE  LET g == RemoveCr(f, k, cr, id)
         IN  /\ Still(f, g) /\ SameLoans(f, g)
             /\ DOMAIN g.tiers = DOMAIN f.tiers
             /\ EmptyTiers(g) \subseteq EmptyTiers(f) \cup {k}
<1> DEFINE left == Retain(f.ratios[k][cr], id)
           g == RemoveCr(f, k, cr, id)
<1>1. /\ k \in DOMAIN f.tiers /\ IsFiniteSet(DOMAIN f.ratios[k])
      /\ f.tiers[k].crs = Cardinality(DOMAIN f.ratios[k])
  BY DEF Accounted, Tracked
<1>2. CASE Len(left) = 0
  <2> DEFINE tree == Without(f.ratios[k], cr)
  <2>1. g = [f EXCEPT !.ratios[k] = tree, !.tiers[k].crs = @ - 1]
    BY <1>2 DEF RemoveCr
  <2>2. DOMAIN tree = DOMAIN f.ratios[k] \ {cr}
    BY DEF Without
  <2>3. /\ IsFiniteSet(DOMAIN tree)
        /\ Cardinality(DOMAIN tree) = Cardinality(DOMAIN f.ratios[k]) - 1
    BY <1>1, <2>2, FS_RemoveElement
  <2> HIDE DEF g, tree
  <2>4. /\ DOMAIN g = Fields /\ SameLoans(f, g) /\ g.collaterals = f.collaterals
        /\ g.circulating = f.circulating /\ g.ratios = [f.ratios EXCEPT ![k] = tree]
        /\ g.tiers = [f.tiers EXCEPT ![k].crs = @ - 1]
    BY <2>1 DEF Accounted, Shaped, Fields, SameLoans
  <2>5. /\ DOMAIN g.tiers = DOMAIN f.tiers
        /\ \A l \in DOMAIN f.tiers \ {k} : g.tiers[l] = f.tiers[l]
        /\ DOMAIN g.tiers[k] = TierFields /\ g.tiers[k].crs = f.tiers[k].crs - 1
        /\ g.tiers[k].coll = f.tiers[k].coll /\ g.tiers[k].pool = f.tiers[k].pool
        /\ g.tiers[k].real = f.tiers[k].real
    BY <1>1, <2>4 DEF Accounted, Shaped, TierFields
  <2>6. Still(f, g) /\ EmptyTiers(g) \subseteq EmptyTiers(f) \cup {k}
    <3>1. g.tiers[k].crs = Cardinality(DOMAIN tree)
      BY <1>1, <2>3, <2>5
    <3> QED
      BY <1>1, <2>3, <2>4, <2>5, <3>1, TreeStill
  <2> QED
    BY <2>4, <2>5, <2>6 DEF g
<1>3. CASE Len(left) # 0
  <2> DEFINE tree == With(f.ratios[k], cr, left)
  <2>1. g = [f EXCEPT !.ratios[k] = tree]
    BY <1>3 DEF RemoveCr
  <2>2. DOMAIN tree = DOMAIN f.ratios[k]
    BY DEF With
  <2> HIDE DEF g, tree
  <2>4. /\ DOMAIN g = Fields /\ SameLoans(f, g) /\ g.collaterals = f.collaterals
        /\ g.circulating = f.circulating /\ g.ratios = [f.ratios EXCEPT ![k] = tree]
        /\ g.tiers = f.tiers
    BY <2>1 DEF Accounted, Shaped, Fields, SameLoans
  <2>5. DOMAIN f.tiers[k] = TierFields
    BY <1>1 DEF Accounted, Shaped
  <2>6. Still(f, g) /\ EmptyTiers(g) \subseteq EmptyTiers(f) \cup {k}
    BY <1>1, <2>2, <2>4, <2>5, TreeStill
  <2> QED
    BY <2>4, <2>6 DEF g
<1> QED
  BY <1>2, <1>3

\* insert_cr moves nothing, keeps the count of ratios right, and leaves the tier
\* with a ratio in its tree.
LEMMA InsertCrStill ==
  ASSUME NEW f, Accounted(f), NEW k \in Tiers, now \in Nat, NEW cr, NEW id
  PROVE  LET g == InsertCr(f, k, cr, id)
         IN  /\ Still(f, g) /\ SameLoans(f, g)
             /\ DOMAIN g.tiers = DOMAIN f.tiers \cup {k}
             /\ EmptyTiers(g) \subseteq EmptyTiers(f) \ {k}
<1> DEFINE f1 == InsertInterestInfoIfAbsent(f, k)
           g == InsertCr(f, k, cr, id)
<1>1. /\ Still(f, f1) /\ SameLoans(f, f1) /\ Entry(f, f1, k, 0, 0, 0)
      /\ f1.ratios = f.ratios /\ DOMAIN f1.tiers = DOMAIN f.tiers \cup {k}
  BY InsertInfoEntry
<1>2. /\ k \in DOMAIN f1.tiers /\ IsFiniteSet(DOMAIN f1.ratios[k])
      /\ f1.tiers[k].crs = Cardinality(DOMAIN f1.ratios[k])
      /\ Accounted(f1)
  BY <1>1 DEF Still, Accounted, Tracked
<1>3. \/ cr \in DOMAIN f1.ratios[k]
           /\ g = [f1 EXCEPT !.ratios[k] = With(@, cr, Append(@[cr], id))]
      \/ cr \notin DOMAIN f1.ratios[k]
           /\ g = [f1 EXCEPT !.ratios[k] = With(@, cr, <<id>>), !.tiers[k].crs = @ + 1]
  BY DEF InsertCr
<1> HIDE DEF f1, g
<1>4. CASE cr \in DOMAIN f1.ratios[k]
  <2> DEFINE tree == With(f1.ratios[k], cr, Append(f1.ratios[k][cr], id))
  <2>1. g = [f1 EXCEPT !.ratios[k] = tree]
    BY <1>3, <1>4
  <2>2. DOMAIN tree = DOMAIN f1.ratios[k] /\ DOMAIN tree # {}
    BY <1>4 DEF With
  <2> HIDE DEF tree
  <2>4. /\ DOMAIN g = Fields /\ SameLoans(f1, g) /\ g.collaterals = f1.collaterals
        /\ g.circulating = f1.circulating /\ g.ratios = [f1.ratios EXCEPT ![k] = tree]
        /\ g.tiers = f1.tiers
    BY <1>2, <2>1 DEF Accounted, Shaped, Fields, SameLoans
  <2>5. DOMAIN f1.tiers[k] = TierFields
    BY <1>2 DEF Accounted, Shaped
  <2>6. Still(f1, g) /\ EmptyTiers(g) \subseteq EmptyTiers(f1) \ {k}
    BY <1>2, <2>2, <2>4, <2>5, TreeStill
  <2>7. SameLoans(f1, g) /\ DOMAIN g.tiers = DOMAIN f1.tiers
    BY <2>4
  <2> QED
    BY <1>1, <2>6, <2>7, StillStill DEF SameLoans, g, Entry
<1>5. CASE cr \notin DOMAIN f1.ratios[k]
  <2> DEFINE tree == With(f1.ratios[k], cr, <<id>>)
  <2>1. g = [f1 EXCEPT !.ratios[k] = tree, !.tiers[k].crs = @ + 1]
    BY <1>3, <1>5
  <2>2. DOMAIN tree = DOMAIN f1.ratios[k] \cup {cr}
    BY DEF With
  <2>3. /\ IsFiniteSet(DOMAIN tree) /\ DOMAIN tree # {}
        /\ Cardinality(DOMAIN tree) = Cardinality(DOMAIN f1.ratios[k]) + 1
    BY <1>2, <1>5, <2>2, FS_AddElement, SMTT(30)
  <2> HIDE DEF tree
  <2>4. /\ DOMAIN g = Fields /\ SameLoans(f1, g) /\ g.collaterals = f1.collaterals
        /\ g.circulating = f1.circulating /\ g.ratios = [f1.ratios EXCEPT ![k] = tree]
        /\ g.tiers = [f1.tiers EXCEPT ![k].crs = @ + 1]
    BY <1>2, <2>1 DEF Accounted, Shaped, Fields, SameLoans
  <2>5. /\ DOMAIN g.tiers = DOMAIN f1.tiers
        /\ \A l \in DOMAIN f1.tiers \ {k} : g.tiers[l] = f1.tiers[l]
        /\ DOMAIN g.tiers[k] = TierFields /\ g.tiers[k].crs = f1.tiers[k].crs + 1
        /\ g.tiers[k].coll = f1.tiers[k].coll /\ g.tiers[k].pool = f1.tiers[k].pool
        /\ g.tiers[k].real = f1.tiers[k].real
    BY <1>2, <2>4 DEF Accounted, Shaped, TierFields
  <2>6. Still(f1, g) /\ EmptyTiers(g) \subseteq EmptyTiers(f1) \ {k}
    <3>1. g.tiers[k].crs = Cardinality(DOMAIN tree)
      BY <1>2, <2>3, <2>5
    <3> QED
      BY <1>2, <2>3, <2>4, <2>5, <3>1, TreeStill
  <2>7. SameLoans(f1, g) /\ DOMAIN g.tiers = DOMAIN f1.tiers
    BY <2>4, <2>5
  <2> QED
    BY <1>1, <2>6, <2>7, StillStill DEF SameLoans, g, Entry
<1> QED
  BY <1>4, <1>5

-----------------------------------------------------------------------------

\* The loan's NFT names a tier and a ratio that the index has.
ListedIn(f, id) ==
  LET d == f.cdps[id]
  IN  id \in DOMAIN f.cdps /\ Tier(d) \in Tiers /\ d.ratio \in DOMAIN f.ratios[Tier(d)]

\* The NFT after relisting, and after the loan ended.
Relisted(d, i, amount, pool) ==
  [d EXCEPT !.interest = i, !.ratio = Div(amount, pool), !.amount = amount, !.pool = pool]
Ended(d, status, amount) == [d EXCEPT !.status = status, !.pool = 0, !.amount = amount]

\* Every NFT but that of one loan stays.
OthersKept(f, g, id) ==
  /\ DOMAIN g.cdps = DOMAIN f.cdps
  /\ \A x \in DOMAIN f.cdps \ {id} : g.cdps[x] = f.cdps[x]

\* Only the NFT of one loan changes.
OneLoan(f, g, id, e) ==
  /\ OthersKept(f, g, id) /\ g.cdps[id] = e /\ g.cdpCounter = f.cdpCounter
  /\ g.marked = f.marked /\ g.borrowers = f.borrowers

\* An open loan of a good state is listed.
LEMMA OpenListed ==
  ASSUME NEW f, StateOK(f), NEW id \in DOMAIN f.cdps, Active(f.cdps[id])
  PROVE  ListedIn(f, id)
BY LoanTyped DEF ListedIn, StateOK, LoansIndexed, InIndex

\* A new NFT for a loan leaves the accounts alone.
LEMMA CdpStill ==
  ASSUME NEW f, Accounted(f), NEW id \in DOMAIN f.cdps, NEW e, DOMAIN e = CdpFields
  PROVE  LET g == [f EXCEPT !.cdps[id] = e]
         IN  /\ Still(f, g) /\ EmptyTiers(g) = EmptyTiers(f) /\ OneLoan(f, g, id, e)
             /\ DOMAIN g = Fields /\ g.tiers = f.tiers /\ g.ratios = f.ratios
<1> DEFINE g == [f EXCEPT !.cdps[id] = e]
<1>1. /\ DOMAIN g = Fields /\ g.collaterals = f.collaterals /\ g.circulating = f.circulating
      /\ g.tiers = f.tiers /\ g.ratios = f.ratios /\ OneLoan(f, g, id, e)
  BY DEF Accounted, Shaped, Fields, OneLoan, OthersKept
<1> HIDE DEF g
<1>2. /\ \A x \in DOMAIN g.cdps : DOMAIN g.cdps[x] = CdpFields
      /\ \A b \in DOMAIN g.borrowers : DOMAIN g.borrowers[b] = BorrowerFields
  BY <1>1 DEF Accounted, Shaped, OneLoan, OthersKept
<1>3. Still(f, g) /\ EmptyTiers(g) = EmptyTiers(f)
  BY <1>1, <1>2, LoansStill
<1> QED
  BY <1>1, <1>3 DEF g

\* Listing a loan anew, also under another rate, moves nothing: what the new
\* amounts mean for tiers and vaults is entered by the calls around it.
LEMMA RelistStill ==
  ASSUME NEW f, Accounted(f), NEW id, ListedIn(f, id), now \in Nat,
         NEW i, <<f.cdps[id].collateral, i>> \in Tiers, NEW amount, NEW pool
  PROVE  LET g == Relist(f, id, i, amount, pool)
         IN  /\ Still(f, g) /\ OneLoan(f, g, id, Relisted(f.cdps[id], i, amount, pool))
             /\ EmptyTiers(g) \subseteq EmptyTiers(f) \cup {Tier(f.cdps[id])}
             /\ <<f.cdps[id].collateral, i>> \in DOMAIN g.tiers
<1> DEFINE d == f.cdps[id]
           k == Tier(d)
           new == <<d.collateral, i>>
           cr == Div(amount, pool)
           e == Relisted(d, i, amount, pool)
           f1 == RemoveCr(f, k, d.ratio, id)
           f2 == InsertCr(f1, new, cr, id)
           g == [f2 EXCEPT !.cdps[id] = e]
<1>1. Relist(f, id, i, amount, pool) = g
  BY DEF Relist, Relisted
<1>2. id \in DOMAIN f.cdps /\ k \in Tiers /\ d.ratio \in DOMAIN f.ratios[k]
  BY DEF ListedIn
<1>3. DOMAIN e = CdpFields
  BY <1>2 DEF Accounted, Shaped, Relisted
<1> HIDE DEF e, cr, k
<1>4. /\ Still(f, f1) /\ SameLoans(f, f1) /\ EmptyTiers(f1) \subseteq EmptyTiers(f) \cup {k}
  BY <1>2, RemoveCrStill
<1> HIDE DEF f1
<1>5. /\ Still(f1, f2) /\ SameLoans(f1, f2) /\ EmptyTiers(f2) \subseteq EmptyTiers(f1)
      /\ new \in DOMAIN f2.tiers
  <2>1. Accounted(f1)
    BY <1>4 DEF Still
  <2> QED
    BY <2>1, InsertCrStill
<1> HIDE DEF f2
<1>6. /\ Still(f2, g) /\ EmptyTiers(g) = EmptyTiers(f2) /\ OneLoan(f2, g, id, e)
      /\ g.tiers = f2.tiers
  <2>1. Accounted(f2) /\ id \in DOMAIN f2.cdps
    BY <1>2, <1>4, <1>5 DEF Still, SameLoans
  <2> QED
    BY <1>3, <2>1, CdpStill
<1> HIDE DEF g
<1>7. Still(f, g)
  BY <1>4, <1>5, <1>6, StillStill
<1>8. OneLoan(f, g, id, e)
  BY <1>4, <1>5, <1>6 DEF OneLoan, OthersKept, SameLoans
<1> QED
  BY <1>1, <1>4, <1>5, <1>6, <1>7, <1>8 DEF e, k

\* A tier that was dropped with what was in it: nothing, if the accounts of the
\* loans add up.
Dropped(f, k) == Locked(f, k) = 0 /\ DOMAIN f.ratios[k] = {}

\* An entry after which the tier may have been dropped.
Ends(f, g, k, fusd, coll, left) ==
  /\ k \in Tiers /\ Accounted(f) /\ Accounted(g)
  /\ Paid(f, g, fusd)
  /\ VaultMoved(f, g, k[1], coll, left)
  /\ \A l \in Tiers \ {k} : Locked(g, l) = Locked(f, l)
  /\ Locked(g, k) = Locked(f, k) + coll \/ Dropped(g, k)
  /\ EmptyTiers(g) \subseteq EmptyTiers(f) \cup {k}

\* clean_up_interest_info drops a tier only with the last ratio of its tree, and
\* then leaves no empty tier.
LEMMA CleanUpEnds ==
  ASSUME NEW f, Accounted(f), NEW k \in DOMAIN f.tiers
  PROVE  LET g == CleanUpInterestInfo(f, k)
         IN  /\ Ends(f, g, k, 0, 0, 0) /\ SameLoans(f, g) /\ g.ratios = f.ratios
             /\ EmptyTiers(g) \subseteq EmptyTiers(f) \ {k}
             /\ Still(f, g) \/ Dropped(g, k)
             /\ DOMAIN f.ratios[k] # {} => Still(f, g)
<1> DEFINE tiers == Without(f.tiers, k)
           g == [f EXCEPT !.tiers = tiers]
<1>0. /\ f.tiers[k].crs <= 0 <=> DOMAIN f.ratios[k] = {}
      /\ k \in Tiers /\ f.tiers[k].crs \in Int
  <2>1. /\ k \in Tiers
        /\ IsFiniteSet(DOMAIN f.ratios[k]) /\ f.tiers[k].crs = Cardinality(DOMAIN f.ratios[k])
    BY DEF Accounted, Tracked, Shaped
  <2> QED
    BY <2>1, FS_EmptySet, FS_CardinalityType
<1>1. CASE ~(f.tiers[k].crs <= 0)
  <2>1. Still(f, f) /\ EmptyTiers(f) \subseteq EmptyTiers(f) \cup {k}
    BY DEF Still, SameDebts
  <2>2. Entry(f, f, k, 0, 0, 0)
    BY <1>0, <2>1, StillEntry
  <2>3. Ends(f, f, k, 0, 0, 0) /\ EmptyTiers(f) \subseteq EmptyTiers(f) \ {k}
    BY <1>0, <1>1, <2>2 DEF Entry, Ends, LockMoved, EmptyTiers
  <2> QED
    BY <1>1, <2>1, <2>3 DEF CleanUpInterestInfo, SameLoans
<1>2. CASE f.tiers[k].crs <= 0
  <2>1. CleanUpInterestInfo(f, k) = g
    BY <1>2 DEF CleanUpInterestInfo
  <2>2. /\ g.tiers = tiers /\ g.ratios = f.ratios /\ g.collaterals = f.collaterals
        /\ SameLoans(f, g) /\ g.circulating = f.circulating /\ DOMAIN g = Fields
    BY DEF Accounted, Shaped, Fields, SameLoans
  <2>3. /\ DOMAIN tiers = DOMAIN f.tiers \ {k}
        /\ \A l \in DOMAIN tiers : tiers[l] = f.tiers[l]
    BY DEF Without
  <2> HIDE DEF g, tiers
  <2>5. Shaped(g)
    <3>1. IsFiniteSet(DOMAIN g.tiers)
      BY <2>2, <2>3, FS_Subset DEF Accounted, Shaped
    <3> QED
      BY <2>2, <2>3, <3>1 DEF Accounted, Shaped, SameLoans
  <2>7. Tracked(g)
    BY <1>0, <1>2, <2>2, <2>3 DEF Accounted, Tracked
  <2>8. Paid(f, g, 0) /\ VaultMoved(f, g, k[1], 0, 0)
    <3>1. PaidOut(f) \in Int
      BY PaidTyped DEF Accounted
    <3> QED
      BY <2>2, <3>1 DEF Paid, Unowed, PaidOut, Debts, Fees, VaultMoved, Accounted, Shaped, InfoTyped
  <2>9. /\ \A l \in Tiers \ {k} : Locked(g, l) = Locked(f, l)
        /\ Dropped(g, k)
        /\ EmptyTiers(g) \subseteq EmptyTiers(f) \ {k}
    BY <1>0, <1>2, <2>2, <2>3 DEF Locked, EmptyTiers, Dropped
  <2> QED
    BY <1>0, <1>2, <2>1, <2>2, <2>5, <2>7, <2>8, <2>9 DEF Accounted, Ends
<1> QED
  BY <1>1, <1>2

\* An entry followed by one that may drop the tier.
LEMMA EntryEnds ==
  ASSUME NEW f, NEW g, NEW h, NEW k, NEW m \in Int, NEW n \in Int, NEW x \in Int,
         NEW y \in Int, NEW l \in Int, NEW r \in Int,
         Entry(f, g, k, m, x, l), Ends(g, h, k, n, y, r)
  PROVE  Ends(f, h, k, m + n, x + y, l + r)
<1>1. Paid(f, h, m + n)
  <2>1. PaidOut(f) \in Int
    BY PaidTyped DEF Entry, Accounted
  <2> QED
    BY <2>1 DEF Entry, Ends, Paid
<1>2. VaultMoved(f, h, k[1], x + y, l + r)
  <2>1. k[1] \in DOMAIN f.collaterals => InfoTyped(f.collaterals[k[1]])
    BY DEF Entry, Accounted, Shaped
  <2> QED
    BY <2>1 DEF Entry, Ends, VaultMoved, InfoTyped
<1>3. /\ \A t \in Tiers \ {k} : Locked(h, t) = Locked(f, t)
      /\ Locked(h, k) = Locked(f, k) + (x + y) \/ Dropped(h, k)
  <2>1. Locked(f, k) \in Int
    BY LockedTyped DEF Entry, Accounted
  <2> QED
    BY <2>1 DEF Entry, Ends, LockMoved
<1> QED
  BY <1>1, <1>2, <1>3 DEF Entry, Ends

\* An end followed by a change of loans, marks and borrowers alone.
LEMMA EndsLoans ==
  ASSUME NEW f, NEW g, NEW h, NEW k, NEW m, NEW x, NEW l,
         Ends(f, g, k, m, x, l), Accounted(h),
         h.collaterals = g.collaterals, h.circulating = g.circulating,
         h.tiers = g.tiers, h.ratios = g.ratios
  PROVE  Ends(f, h, k, m, x, l) /\ EmptyTiers(h) = EmptyTiers(g)
BY DEF Ends, Paid, Unowed, PaidOut, Debts, Fees, VaultMoved, Locked, Dropped, EmptyTiers

\* Ending a loan moves nothing but what is left in a tier that is dropped.
LEMMA DelistEnds ==
  ASSUME NEW f, Accounted(f), NEW id, ListedIn(f, id), NEW status, NEW amount
  PROVE  LET g == Delist(f, id, status, amount)
             k == Tier(f.cdps[id])
         IN  /\ Ends(f, g, k, 0, 0, 0)
             /\ OneLoan(f, g, id, Ended(f.cdps[id], status, amount))
             /\ EmptyTiers(g) \subseteq EmptyTiers(f) \ {k}
<1> DEFINE d == f.cdps[id]
           k == Tier(d)
           e == Ended(d, status, amount)
           f1 == RemoveCr(f, k, d.ratio, id)
           f2 == [f1 EXCEPT !.cdps[id] = e]
           g == CleanUpInterestInfo(f2, k)
<1>1. Delist(f, id, status, amount) = g
  BY DEF Delist, Ended
<1>2. id \in DOMAIN f.cdps /\ k \in Tiers /\ d.ratio \in DOMAIN f.ratios[k]
  BY DEF ListedIn
<1>3. DOMAIN e = CdpFields
  BY <1>2 DEF Accounted, Shaped, Ended
<1> HIDE DEF e, k
<1>4. /\ Still(f, f1) /\ SameLoans(f, f1) /\ EmptyTiers(f1) \subseteq EmptyTiers(f) \cup {k}
      /\ DOMAIN f1.tiers = DOMAIN f.tiers
  BY <1>2, RemoveCrStill
<1> HIDE DEF f1
<1>5. /\ Still(f1, f2) /\ EmptyTiers(f2) = EmptyTiers(f1) /\ OneLoan(f1, f2, id, e)
      /\ f2.tiers = f1.tiers
  <2>1. Accounted(f1) /\ id \in DOMAIN f1.cdps
    BY <1>2, <1>4 DEF Still, SameLoans
  <2> QED
    BY <1>3, <2>1, CdpStill
<1> HIDE DEF f2
<1>6. /\ Ends(f2, g, k, 0, 0, 0) /\ SameLoans(f2, g)
      /\ EmptyTiers(g) \subseteq EmptyTiers(f2) \ {k}
  <2>1. Accounted(f2) /\ k \in DOMAIN f.tiers
    BY <1>2, <1>5 DEF Still, Accounted, Tracked
  <2> QED
    BY <1>4, <1>5, <2>1, CleanUpEnds
<1> HIDE DEF g
<1>7. Entry(f, f2, k, 0, 0, 0)
  BY <1>2, <1>4, <1>5, StillStill, StillEntry
<1>8. Ends(f, g, k, 0 + 0, 0 + 0, 0 + 0)
  BY <1>6, <1>7, EntryEnds
<1>9. OneLoan(f, g, id, e)
  BY <1>4, <1>5, <1>6 DEF OneLoan, OthersKept, SameLoans
<1> QED
  BY <1>1, <1>4, <1>5, <1>6, <1>8, <1>9 DEF e, k

-----------------------------------------------------------------------------

\* A change of loans, marks and borrowers only.
SameBooks(f, g) ==
  /\ Accounted(f) /\ Accounted(g)
  /\ g.collaterals = f.collaterals /\ g.circulating = f.circulating
  /\ g.tiers = f.tiers /\ g.ratios = f.ratios

\* Borrowers keep their terms, and their links to every loan but id.
LinksKept(f, g, id) ==
  /\ DOMAIN g.borrowers = DOMAIN f.borrowers
  /\ \A b \in DOMAIN f.borrowers :
       /\ g.borrowers[b].optOut = f.borrowers[b].optOut
       /\ g.borrowers[b].notice = f.borrowers[b].notice
       /\ g.borrowers[b].maxCoupled = f.borrowers[b].maxCoupled
       /\ \A e \in f.borrowers[b].coupled : e[1] # id => e \in g.borrowers[b].coupled

\* The NFT of a loan after its link ended.
Unlinked(d, e) ==
  /\ DOMAIN e = CdpFields /\ e.borrower = Nobody
  /\ e.collateral = d.collateral /\ e.amount = d.amount /\ e.interest = d.interest
  /\ e.pool = d.pool /\ e.ratio = d.ratio /\ e.status = d.status
  /\ e.lastChange = d.lastChange

\* Such a change is an entry of nothing.
LEMMA BooksEntry ==
  ASSUME NEW f, NEW g, SameBooks(f, g)
  PROVE  /\ Still(f, g) /\ EmptyTiers(g) = EmptyTiers(f)
         /\ \A k \in Tiers : Entry(f, g, k, 0, 0, 0)
<1>1. Still(f, g) /\ EmptyTiers(g) = EmptyTiers(f)
  BY DEF SameBooks, Still, EmptyTiers, Locked, SameDebts, PoolOf, RealOf
<1> QED
  BY <1>1, StillEntry

\* unmark_if_marked clears the mark, with its time, and touches no account.
LEMMA UnmarkBooks ==
  ASSUME NEW f, Accounted(f), NEW id \in DOMAIN f.cdps
  PROVE  LET g == UnmarkIfMarked(f, id)
         IN  /\ SameBooks(f, g)
             /\ OthersKept(f, g, id)
             /\ g.cdps[id] = [f.cdps[id] EXCEPT !.status = "Healthy"]
             /\ g.cdpCounter = f.cdpCounter /\ g.borrowers = f.borrowers
             /\ g.marked = Without(f.marked, id)
<1> DEFINE e == [f.cdps[id] EXCEPT !.status = "Healthy"]
           g == UnmarkIfMarked(f, id)
<1>1. /\ DOMAIN g = Fields /\ g.collaterals = f.collaterals /\ g.circulating = f.circulating
      /\ g.tiers = f.tiers /\ g.ratios = f.ratios
      /\ OthersKept(f, g, id) /\ g.cdps[id] = e
      /\ g.cdpCounter = f.cdpCounter /\ g.borrowers = f.borrowers
      /\ g.marked = Without(f.marked, id)
  BY DEF UnmarkIfMarked, Accounted, Shaped, Fields, OthersKept
<1>0. DOMAIN e = CdpFields
  BY DEF Accounted, Shaped
<1> HIDE DEF g, e
<1>2. /\ \A x \in DOMAIN g.cdps : DOMAIN g.cdps[x] = CdpFields
      /\ \A b \in DOMAIN g.borrowers : DOMAIN g.borrowers[b] = BorrowerFields
  BY <1>0, <1>1 DEF Accounted, Shaped, OthersKept
<1>3. Accounted(g)
  BY <1>1, <1>2, LoansStill DEF Still
<1> QED
  BY <1>1, <1>3 DEF SameBooks, g, e

\* A borrower's new list of linked loans touches no account.
LEMMA BorrowerBooks ==
  ASSUME NEW f, Accounted(f), NEW b \in DOMAIN f.borrowers, NEW coupled
  PROVE  LET g == [f EXCEPT !.borrowers[b].coupled = coupled]
         IN  /\ SameBooks(f, g) /\ g.cdps = f.cdps /\ g.cdpCounter = f.cdpCounter
             /\ g.marked = f.marked /\ DOMAIN g.borrowers = DOMAIN f.borrowers
             /\ \A x \in DOMAIN f.borrowers \ {b} : g.borrowers[x] = f.borrowers[x]
             /\ g.borrowers[b].optOut = f.borrowers[b].optOut
             /\ g.borrowers[b].notice = f.borrowers[b].notice
             /\ g.borrowers[b].maxCoupled = f.borrowers[b].maxCoupled
             /\ g.borrowers[b].coupled = coupled
<1> DEFINE t == [f.borrowers[b] EXCEPT !.coupled = coupled]
           g == [f EXCEPT !.borrowers[b].coupled = coupled]
<1>1. /\ DOMAIN g = Fields /\ g.collaterals = f.collaterals /\ g.circulating = f.circulating
      /\ g.tiers = f.tiers /\ g.ratios = f.ratios /\ g.cdps = f.cdps
      /\ g.cdpCounter = f.cdpCounter /\ g.borrowers = [f.borrowers EXCEPT ![b] = t]
      /\ g.marked = f.marked
  BY DEF Accounted, Shaped, Fields
<1>2. /\ DOMAIN t = BorrowerFields /\ t.optOut = f.borrowers[b].optOut
      /\ t.notice = f.borrowers[b].notice /\ t.maxCoupled = f.borrowers[b].maxCoupled
      /\ t.coupled = coupled
  BY DEF Accounted, Shaped, BorrowerFields
<1> HIDE DEF g, t
<1>3. /\ \A x \in DOMAIN g.cdps : DOMAIN g.cdps[x] = CdpFields
      /\ \A x \in DOMAIN g.borrowers : DOMAIN g.borrowers[x] = BorrowerFields
  BY <1>1, <1>2 DEF Accounted, Shaped
<1>4. Accounted(g)
  BY <1>1, <1>3, LoansStill DEF Still
<1>5. /\ SameBooks(f, g) /\ DOMAIN g.borrowers = DOMAIN f.borrowers
      /\ \A x \in DOMAIN f.borrowers \ {b} : g.borrowers[x] = f.borrowers[x]
      /\ g.borrowers[b] = t
  BY <1>1, <1>4 DEF SameBooks
<1> QED
  BY <1>1, <1>2, <1>5 DEF g

\* A loan's new borrower touches no account.
LEMMA NamedBooks ==
  ASSUME NEW f, Accounted(f), NEW id \in DOMAIN f.cdps, NEW b
  PROVE  LET g == [f EXCEPT !.cdps[id].borrower = b]
         IN  SameBooks(f, g) /\ OneLoan(f, g, id, [f.cdps[id] EXCEPT !.borrower = b])
<1> DEFINE e == [f.cdps[id] EXCEPT !.borrower = b]
<1>1. DOMAIN e = CdpFields
  BY DEF Accounted, Shaped
<1>2. [f EXCEPT !.cdps[id].borrower = b] = [f EXCEPT !.cdps[id] = e]
  OBVIOUS
<1> HIDE DEF e
<1>3. LET g == [f EXCEPT !.cdps[id] = e]
      IN  SameBooks(f, g) /\ OneLoan(f, g, id, e)
  BY <1>1, CdpStill DEF Still, SameBooks
<1> QED
  BY <1>2, <1>3 DEF e

\* The push onto coupled_loans keeps every link and makes one.
LEMMA CoupleBooks ==
  ASSUME NEW f, Accounted(f), NEW b \in DOMAIN f.borrowers, NEW id
  PROVE  LET g == Couple(f, b, id)
         IN  /\ SameBooks(f, g) /\ g.cdps = f.cdps /\ g.cdpCounter = f.cdpCounter
             /\ g.marked = f.marked /\ LinksKept(f, g, id)
             /\ \E e \in g.borrowers[b].coupled : e[1] = id
<1> DEFINE n == Cardinality({e \in f.borrowers[b].coupled : e[1] = id}) + 1
           coupled == f.borrowers[b].coupled \cup {<<id, n>>}
           g == [f EXCEPT !.borrowers[b].coupled = coupled]
<1>1. Couple(f, b, id) = g
  BY DEF Couple
<1>2. <<id, n>> \in coupled /\ <<id, n>>[1] = id /\ f.borrowers[b].coupled \subseteq coupled
  OBVIOUS
<1> HIDE DEF coupled, n
<1>3. /\ SameBooks(f, g) /\ g.cdps = f.cdps /\ g.cdpCounter = f.cdpCounter
      /\ g.marked = f.marked /\ DOMAIN g.borrowers = DOMAIN f.borrowers
      /\ \A x \in DOMAIN f.borrowers \ {b} : g.borrowers[x] = f.borrowers[x]
      /\ g.borrowers[b].optOut = f.borrowers[b].optOut
      /\ g.borrowers[b].notice = f.borrowers[b].notice
      /\ g.borrowers[b].maxCoupled = f.borrowers[b].maxCoupled
      /\ g.borrowers[b].coupled = coupled
  BY BorrowerBooks
<1> HIDE DEF g
<1>4. LinksKept(f, g, id)
  BY <1>2, <1>3 DEF LinksKept
<1> QED
  BY <1>1, <1>2, <1>3, <1>4

\* link_cdp_to_privileged_borrower: the loan names the borrower, whose list has
\* the loan.
LEMMA LinkBooks ==
  ASSUME NEW f, Accounted(f), NEW b \in DOMAIN f.borrowers, NEW id \in DOMAIN f.cdps
  PROVE  LET g == LinkCdp(f, b, id)
         IN  /\ SameBooks(f, g) /\ g.cdpCounter = f.cdpCounter /\ g.marked = f.marked
             /\ OthersKept(f, g, id)
             /\ g.cdps[id] = [f.cdps[id] EXCEPT !.borrower = b]
             /\ LinksKept(f, g, id)
             /\ \E e \in g.borrowers[b].coupled : e[1] = id
<1> DEFINE f1 == Couple(f, b, id)
           g == LinkCdp(f, b, id)
<1>1. /\ SameBooks(f, f1) /\ f1.cdps = f.cdps /\ f1.cdpCounter = f.cdpCounter
      /\ f1.marked = f.marked /\ LinksKept(f, f1, id)
      /\ \E e \in f1.borrowers[b].coupled : e[1] = id
  BY CoupleBooks
<1>2. g = [f1 EXCEPT !.cdps[id].borrower = b]
  BY DEF LinkCdp
<1> HIDE DEF f1, g
<1>3. SameBooks(f1, g) /\ OneLoan(f1, g, id, [f1.cdps[id] EXCEPT !.borrower = b])
  <2>1. Accounted(f1) /\ id \in DOMAIN f1.cdps
    BY <1>1 DEF SameBooks
  <2> QED
    BY <1>2, <2>1, NamedBooks
<1>4. SameBooks(f, g) /\ LinksKept(f, g, id)
  BY <1>1, <1>3 DEF SameBooks, LinksKept, OneLoan, OthersKept
<1> QED
  BY <1>1, <1>3, <1>4 DEF OneLoan, OthersKept, g

\* unlink_cdp_from_privileged_borrower: the loan names nobody, and no other
\* link is lost.
LEMMA UnlinkBooks ==
  ASSUME NEW f, Accounted(f), NEW b \in DOMAIN f.borrowers, NEW id \in DOMAIN f.cdps
  PROVE  LET g == UnlinkCdp(f, b, id)
         IN  /\ SameBooks(f, g) /\ LinksKept(f, g, id)
             /\ g.cdpCounter = f.cdpCounter /\ g.marked = f.marked
             /\ OthersKept(f, g, id)
             /\ g.cdps[id] = [f.cdps[id] EXCEPT !.borrower = Nobody]
<1> DEFINE coupled == {e \in f.borrowers[b].coupled : e[1] # id}
           f1 == [f EXCEPT !.borrowers[b].coupled = coupled]
           g == [f1 EXCEPT !.cdps[id].borrower = Nobody]
<1>1. UnlinkCdp(f, b, id) = g
  BY DEF UnlinkCdp
<1>2. \A e \in f.borrowers[b].coupled : e[1] # id => e \in coupled
  OBVIOUS
<1> HIDE DEF coupled
<1>3. /\ SameBooks(f, f1) /\ f1.cdps = f.cdps /\ f1.cdpCounter = f.cdpCounter
      /\ f1.marked = f.marked /\ DOMAIN f1.borrowers = DOMAIN f.borrowers
      /\ \A x \in DOMAIN f.borrowers \ {b} : f1.borrowers[x] = f.borrowers[x]
      /\ f1.borrowers[b].optOut = f.borrowers[b].optOut
      /\ f1.borrowers[b].notice = f.borrowers[b].notice
      /\ f1.borrowers[b].maxCoupled = f.borrowers[b].maxCoupled
      /\ f1.borrowers[b].coupled = coupled
  BY BorrowerBooks
<1> HIDE DEF f1
<1>4. SameBooks(f1, g) /\ OneLoan(f1, g, id, [f1.cdps[id] EXCEPT !.borrower = Nobody])
  <2>1. Accounted(f1) /\ id \in DOMAIN f1.cdps
    BY <1>3 DEF SameBooks
  <2> QED
    BY <2>1, NamedBooks
<1> HIDE DEF g
<1>5. LinksKept(f, f1, id)
  BY <1>2, <1>3 DEF LinksKept
<1>6. SameBooks(f, g) /\ LinksKept(f, g, id)
  BY <1>3, <1>4, <1>5 DEF SameBooks, LinksKept, OneLoan
<1> QED
  BY <1>1, <1>3, <1>4, <1>6 DEF OneLoan, OthersKept

\* The end of a link, if the loan has one.
LEMMA UnlinkIfLinkedBooks ==
  ASSUME NEW f, Accounted(f), NEW id \in DOMAIN f.cdps,
         f.cdps[id].borrower \in DOMAIN f.borrowers \cup {Nobody}
  PROVE  LET g == UnlinkIfLinked(f, id)
         IN  /\ SameBooks(f, g) /\ LinksKept(f, g, id)
             /\ g.cdpCounter = f.cdpCounter /\ g.marked = f.marked
             /\ OthersKept(f, g, id) /\ Unlinked(f.cdps[id], g.cdps[id])
<1> DEFINE b == f.cdps[id].borrower
<1>1. DOMAIN f.cdps[id] = CdpFields
  BY DEF Accounted, Shaped
<1>2. CASE b = Nobody
  <2>1. UnlinkIfLinked(f, id) = f
    BY <1>2 DEF UnlinkIfLinked
  <2> QED
    BY <1>1, <1>2, <2>1 DEF SameBooks, LinksKept, OthersKept, Unlinked
<1>3. CASE b # Nobody
  <2>1. UnlinkIfLinked(f, id) = UnlinkCdp(f, b, id) /\ b \in DOMAIN f.borrowers
    BY <1>3 DEF UnlinkIfLinked
  <2>2. Unlinked(f.cdps[id], [f.cdps[id] EXCEPT !.borrower = Nobody])
    BY <1>1 DEF Unlinked, CdpFields
  <2> HIDE DEF b
  <2> QED
    BY <2>1, <2>2, UnlinkBooks
<1> QED
  BY <1>2, <1>3

-----------------------------------------------------------------------------
(* The handlers.                                                            *)

\* The share of one loan in the collateral of the open loans against c, of the
\* ended ones, and of the open loans in tier k.
OpenPart(f, id, c) ==
  IF id \in DOMAIN f.cdps /\ Active(f.cdps[id]) /\ f.cdps[id].collateral = c
  THEN f.cdps[id].amount ELSE 0
EndedPart(f, id, c) ==
  IF id \in DOMAIN f.cdps /\ ~Active(f.cdps[id]) /\ f.cdps[id].collateral = c
  THEN f.cdps[id].amount ELSE 0
TierPart(f, id, k) ==
  IF id \in DOMAIN f.cdps /\ Active(f.cdps[id]) /\ Tier(f.cdps[id]) = k
  THEN f.cdps[id].amount ELSE 0

\* In a step from f to g that changes one loan at most, vaults, leftovers and
\* tiers move by what the loan's shares move, so much fUSD is paid out, and no
\* tier is left empty.
AccountStep(f, g, id, fusd) ==
  /\ Accounted(f) /\ Accounted(g) /\ EmptyTiers(g) = {} /\ Paid(f, g, fusd)
  /\ SameBut(f.cdps, g.cdps, id)
  /\ DOMAIN g.collaterals = DOMAIN f.collaterals
  /\ \A c \in DOMAIN f.collaterals :
       LET coll == OpenPart(g, id, c) - OpenPart(f, id, c)
           left == EndedPart(g, id, c) - EndedPart(f, id, c)
       IN  /\ g.collaterals[c].amount = f.collaterals[c].amount + coll
           /\ g.collaterals[c].vault = f.collaterals[c].vault + coll
           /\ g.collaterals[c].leftovers = f.collaterals[c].leftovers + left
  /\ \A k \in Tiers :
       \/ Locked(g, k) = Locked(f, k) + (TierPart(g, id, k) - TierPart(f, id, k))
       \/ Dropped(g, k)

\* The collateral of the open loans against c, of the ended ones, and of the open
\* loans in tier k.
OpenAmounts(f, c) ==
  [id \in {x \in DOMAIN f.cdps : Active(f.cdps[x]) /\ f.cdps[x].collateral = c}
     |-> f.cdps[id].amount]
EndedAmounts(f, c) ==
  [id \in {x \in DOMAIN f.cdps : ~Active(f.cdps[x]) /\ f.cdps[x].collateral = c}
     |-> f.cdps[id].amount]
TierAmounts(f, k) ==
  [id \in {x \in DOMAIN f.cdps : Active(f.cdps[x]) /\ Tier(f.cdps[x]) = k}
     |-> f.cdps[id].amount]

\* Every vault, every tier and all leftovers hold what their loans may take out
\* (CollateralBacked, for any state, and with a tier that is not there holding
\* nothing).
Backed(f) ==
  /\ \A c \in DOMAIN f.collaterals :
       /\ f.collaterals[c].vault = f.collaterals[c].amount
       /\ f.collaterals[c].amount = SumFunction(OpenAmounts(f, c))
       /\ f.collaterals[c].leftovers = SumFunction(EndedAmounts(f, c))
  /\ \A k \in Tiers : Locked(f, k) = SumFunction(TierAmounts(f, k))

\* There are finitely many loans, each with a Decimal of collateral.
LEMMA AmountsTyped ==
  ASSUME NEW f, StateOK(f)
  PROVE  /\ \A c : IntFunction(OpenAmounts(f, c)) /\ IntFunction(EndedAmounts(f, c))
         /\ \A k : IntFunction(TierAmounts(f, k))
         /\ \A id, c : OpenPart(f, id, c) \in Int /\ EndedPart(f, id, c) \in Int
         /\ \A id, k : TierPart(f, id, k) \in Int
<1>1. IsFiniteSet(DOMAIN f.cdps)
  <2>1. f.cdpCounter \in Int /\ DOMAIN f.cdps \subseteq 1 .. f.cdpCounter
    BY DEF StateOK, WellTyped
  <2> QED
    BY <2>1, FS_Interval, FS_Subset
<1>2. \A id \in DOMAIN f.cdps : f.cdps[id].amount \in Int
  BY LoanTyped
<1>3. \A S : S \subseteq DOMAIN f.cdps => IsFiniteSet(S)
  BY <1>1, FS_Subset
<1> QED
  BY <1>2, <1>3 DEF IntFunction, OpenAmounts, EndedAmounts, TierAmounts,
                     OpenPart, EndedPart, TierPart

\* A step that moves the accounts by the shares of one loan keeps them backed.
LEMMA BackedStep ==
  ASSUME NEW f, NEW g, NEW id, NEW fusd, StateOK(f), StateOK(g), Backed(f),
         AccountStep(f, g, id, fusd)
  PROVE  Backed(g)
<1>1. /\ \A c : /\ IntFunction(OpenAmounts(f, c)) /\ IntFunction(EndedAmounts(f, c))
                /\ IntFunction(OpenAmounts(g, c)) /\ IntFunction(EndedAmounts(g, c))
      /\ \A k : IntFunction(TierAmounts(f, k)) /\ IntFunction(TierAmounts(g, k))
  BY AmountsTyped
<1>2. \A c : /\ OpenPart(f, id, c) \in Int /\ EndedPart(f, id, c) \in Int
             /\ OpenPart(g, id, c) \in Int /\ EndedPart(g, id, c) \in Int
  BY AmountsTyped
<1>3. \A k : TierPart(f, id, k) \in Int /\ TierPart(g, id, k) \in Int
  BY AmountsTyped
<1>4. SameBut(f.cdps, g.cdps, id)
  BY DEF AccountStep
<1>5. ASSUME NEW c
      PROVE  /\ SumFunction(OpenAmounts(g, c))
                  = SumFunction(OpenAmounts(f, c)) - OpenPart(f, id, c) + OpenPart(g, id, c)
             /\ SumFunction(OpenAmounts(f, c)) \in Int
  <2>1. SameBut(OpenAmounts(f, c), OpenAmounts(g, c), id)
    BY <1>4 DEF SameBut, OpenAmounts
  <2>2. /\ Term(OpenAmounts(f, c), id) = OpenPart(f, id, c)
        /\ Term(OpenAmounts(g, c), id) = OpenPart(g, id, c)
    BY DEF Term, OpenAmounts, OpenPart
  <2> QED
    BY <1>1, <2>1, <2>2, SumChange, SumFunctionType
<1>6. ASSUME NEW c
      PROVE  /\ SumFunction(EndedAmounts(g, c))
                  = SumFunction(EndedAmounts(f, c)) - EndedPart(f, id, c) + EndedPart(g, id, c)
             /\ SumFunction(EndedAmounts(f, c)) \in Int
  <2>1. SameBut(EndedAmounts(f, c), EndedAmounts(g, c), id)
    BY <1>4 DEF SameBut, EndedAmounts
  <2>2. /\ Term(EndedAmounts(f, c), id) = EndedPart(f, id, c)
        /\ Term(EndedAmounts(g, c), id) = EndedPart(g, id, c)
    BY DEF Term, EndedAmounts, EndedPart
  <2> QED
    BY <1>1, <2>1, <2>2, SumChange, SumFunctionType
<1>7. ASSUME NEW k
      PROVE  /\ SumFunction(TierAmounts(g, k))
                  = SumFunction(TierAmounts(f, k)) - TierPart(f, id, k) + TierPart(g, id, k)
             /\ SumFunction(TierAmounts(f, k)) \in Int
  <2>1. SameBut(TierAmounts(f, k), TierAmounts(g, k), id)
    BY <1>4 DEF SameBut, TierAmounts
  <2>2. /\ Term(TierAmounts(f, k), id) = TierPart(f, id, k)
        /\ Term(TierAmounts(g, k), id) = TierPart(g, id, k)
    BY DEF Term, TierAmounts, TierPart
  <2> QED
    BY <1>1, <2>1, <2>2, SumChange, SumFunctionType
<1>8. ASSUME NEW c \in DOMAIN g.collaterals
      PROVE  /\ g.collaterals[c].vault = g.collaterals[c].amount
             /\ g.collaterals[c].amount = SumFunction(OpenAmounts(g, c))
             /\ g.collaterals[c].leftovers = SumFunction(EndedAmounts(g, c))
  <2>1. /\ f.collaterals[c].vault = f.collaterals[c].amount
        /\ f.collaterals[c].amount = SumFunction(OpenAmounts(f, c))
        /\ f.collaterals[c].leftovers = SumFunction(EndedAmounts(f, c))
    BY DEF Backed, AccountStep
  <2>2. /\ g.collaterals[c].amount
             = f.collaterals[c].amount + (OpenPart(g, id, c) - OpenPart(f, id, c))
        /\ g.collaterals[c].vault
             = f.collaterals[c].vault + (OpenPart(g, id, c) - OpenPart(f, id, c))
        /\ g.collaterals[c].leftovers
             = f.collaterals[c].leftovers + (EndedPart(g, id, c) - EndedPart(f, id, c))
    BY DEF AccountStep
  <2> QED
    BY <1>2, <1>5, <1>6, <2>1, <2>2
<1>9. ASSUME NEW k \in Tiers
      PROVE  Locked(g, k) = SumFunction(TierAmounts(g, k))
  <2>1. CASE Locked(g, k) = Locked(f, k) + (TierPart(g, id, k) - TierPart(f, id, k))
    BY <1>3, <1>7, <2>1 DEF Backed
  <2>2. CASE Dropped(g, k)
    <3>1. \A x \in DOMAIN g.cdps : ~(Active(g.cdps[x]) /\ Tier(g.cdps[x]) = k)
      BY <2>2 DEF Dropped, StateOK, LoansIndexed, InIndex
    <3>2. DOMAIN TierAmounts(g, k) = {}
      BY <3>1 DEF TierAmounts
    <3>3. SumFunction(TierAmounts(g, k)) = 0
      BY <3>2, SumEmpty DEF SumFunction
    <3> QED
      BY SMTT(30), <2>2, <3>3 DEF Dropped
  <2> QED
    BY <2>1, <2>2 DEF AccountStep
<1> QED
  BY <1>8, <1>9 DEF Backed

-----------------------------------------------------------------------------

\* A tier is not empty if an open loan is in it.
LEMMA OpenFills ==
  ASSUME NEW g, StateOK(g), NEW id \in DOMAIN g.cdps, Active(g.cdps[id]),
         EmptyTiers(g) \subseteq {Tier(g.cdps[id])}
  PROVE  EmptyTiers(g) = {} /\ ~Dropped(g, Tier(g.cdps[id]))
BY DEF StateOK, LoansIndexed, InIndex, EmptyTiers, Dropped

\* The step of a handler after which its loan is open in the tier where it was.
LEMMA OpenStep ==
  ASSUME NEW f, NEW g, StateOK(f), StateOK(g), NEW id \in DOMAIN f.cdps,
         NEW fusd \in Int, NEW coll \in Int, NEW k,
         EmptyTiers(f) = {}, Ends(f, g, k, fusd, coll, 0), SameBut(f.cdps, g.cdps, id),
         Active(f.cdps[id]), Tier(f.cdps[id]) = k,
         id \in DOMAIN g.cdps, Active(g.cdps[id]),
         g.cdps[id].collateral = f.cdps[id].collateral,
         g.cdps[id].interest = f.cdps[id].interest,
         g.cdps[id].amount = f.cdps[id].amount + coll
  PROVE  AccountStep(f, g, id, fusd)
<1> DEFINE d == f.cdps[id]
           e == g.cdps[id]
<1>1. Tier(e) = k /\ k[1] = d.collateral
  BY DEF Tier
<1>2. d.amount \in Int /\ e.amount \in Int
  BY LoanTyped
<1>3. EmptyTiers(g) = {} /\ ~Dropped(g, k)
  BY <1>1, OpenFills DEF Ends
<1>4. /\ \A c : OpenPart(f, id, c) = IF c = k[1] THEN d.amount ELSE 0
      /\ \A c : OpenPart(g, id, c) = IF c = k[1] THEN d.amount + coll ELSE 0
      /\ \A c : EndedPart(f, id, c) = 0 /\ EndedPart(g, id, c) = 0
      /\ \A l : TierPart(f, id, l) = IF l = k THEN d.amount ELSE 0
      /\ \A l : TierPart(g, id, l) = IF l = k THEN d.amount + coll ELSE 0
  BY <1>1 DEF OpenPart, EndedPart, TierPart
<1>5. ASSUME NEW c \in DOMAIN f.collaterals
      PROVE  LET by == OpenPart(g, id, c) - OpenPart(f, id, c)
                 left == EndedPart(g, id, c) - EndedPart(f, id, c)
             IN  /\ g.collaterals[c].amount = f.collaterals[c].amount + by
                 /\ g.collaterals[c].vault = f.collaterals[c].vault + by
                 /\ g.collaterals[c].leftovers = f.collaterals[c].leftovers + left
  <2>1. InfoTyped(f.collaterals[c])
    BY DEF Ends, Accounted, Shaped
  <2>2. CASE c = k[1]
    BY <1>2, <1>4, <2>1, <2>2 DEF Ends, VaultMoved, InfoTyped
  <2>3. CASE c # k[1]
    BY <1>4, <2>1, <2>3 DEF Ends, VaultMoved, InfoTyped
  <2> QED
    BY <2>2, <2>3
<1>6. ASSUME NEW l \in Tiers
      PROVE  Locked(g, l) = Locked(f, l) + (TierPart(g, id, l) - TierPart(f, id, l))
  <2>1. Locked(f, l) \in Int
    BY LockedTyped DEF Ends, Accounted
  <2>2. CASE l = k
    BY <1>2, <1>3, <1>4, <2>1, <2>2 DEF Ends
  <2>3. CASE l # k
    BY <1>4, <2>1, <2>3 DEF Ends
  <2> QED
    BY <2>2, <2>3
<1> QED
  BY <1>3, <1>5, <1>6 DEF AccountStep, Ends, VaultMoved

\* The step of a handler that ends its loan: what the tier had of it goes, and
\* the rest that its NFT records goes to the leftovers.
LEMMA EndStep ==
  ASSUME NEW f, NEW g, StateOK(f), StateOK(g), NEW id \in DOMAIN f.cdps,
         NEW fusd, NEW k, NEW coll \in Int,
         EmptyTiers(f) = {}, k \notin EmptyTiers(g), coll = -f.cdps[id].amount,
         Ends(f, g, k, fusd, coll, g.cdps[id].amount), SameBut(f.cdps, g.cdps, id),
         Active(f.cdps[id]), Tier(f.cdps[id]) = k,
         id \in DOMAIN g.cdps, ~Active(g.cdps[id]),
         g.cdps[id].collateral = f.cdps[id].collateral
  PROVE  AccountStep(f, g, id, fusd)
<1> DEFINE d == f.cdps[id]
           e == g.cdps[id]
<1>1. k[1] = d.collateral
  BY DEF Tier
<1>2. d.amount \in Int /\ e.amount \in Int
  BY LoanTyped
<1>3. EmptyTiers(g) = {}
  BY DEF Ends
<1>4. /\ \A c : OpenPart(f, id, c) = IF c = k[1] THEN d.amount ELSE 0
      /\ \A c : OpenPart(g, id, c) = 0
      /\ \A c : EndedPart(f, id, c) = 0
      /\ \A c : EndedPart(g, id, c) = IF c = k[1] THEN e.amount ELSE 0
      /\ \A l : TierPart(f, id, l) = IF l = k THEN d.amount ELSE 0
      /\ \A l : TierPart(g, id, l) = 0
  BY <1>1 DEF OpenPart, EndedPart, TierPart
<1>5. ASSUME NEW c \in DOMAIN f.collaterals
      PROVE  LET by == OpenPart(g, id, c) - OpenPart(f, id, c)
                 left == EndedPart(g, id, c) - EndedPart(f, id, c)
             IN  /\ g.collaterals[c].amount = f.collaterals[c].amount + by
                 /\ g.collaterals[c].vault = f.collaterals[c].vault + by
                 /\ g.collaterals[c].leftovers = f.collaterals[c].leftovers + left
  <2>1. InfoTyped(f.collaterals[c])
    BY DEF Ends, Accounted, Shaped
  <2>2. CASE c = k[1]
    BY <1>2, <1>4, <2>1, <2>2 DEF Ends, VaultMoved, InfoTyped
  <2>3. CASE c # k[1]
    BY <1>4, <2>1, <2>3 DEF Ends, VaultMoved, InfoTyped
  <2> QED
    BY <2>2, <2>3
<1>6. ASSUME NEW l \in Tiers
      PROVE  \/ Locked(g, l) = Locked(f, l) + (TierPart(g, id, l) - TierPart(f, id, l))
             \/ Dropped(g, l)
  <2>1. Locked(f, l) \in Int
    BY LockedTyped DEF Ends, Accounted
  <2>2. CASE l = k
    BY <1>2, <1>4, <2>1, <2>2 DEF Ends
  <2>3. CASE l # k
    BY <1>4, <2>1, <2>3 DEF Ends
  <2> QED
    BY <2>2, <2>3
<1> QED
  BY <1>3, <1>5, <1>6 DEF AccountStep, Ends, VaultMoved

\* An entry is an end at which nothing was dropped.
LEMMA EntryIsEnds ==
  ASSUME NEW f, NEW g, NEW k, NEW fusd, NEW coll, NEW left, Entry(f, g, k, fusd, coll, left)
  PROVE  Ends(f, g, k, fusd, coll, left)
BY DEF Entry, Ends, LockMoved

\* The step of a call that changes neither loans nor tiers.
LEMMA CoinStep ==
  ASSUME NEW f, NEW g, NEW id, NEW fusd, StateOK(f), Accounted(f), Accounted(g),
         EmptyTiers(f) = {}, Paid(f, g, fusd), g.cdps = f.cdps, g.ratios = f.ratios,
         DOMAIN g.tiers = DOMAIN f.tiers,
         \A k \in DOMAIN f.tiers : g.tiers[k].coll = f.tiers[k].coll,
         DOMAIN g.collaterals = DOMAIN f.collaterals,
         \A c \in DOMAIN f.collaterals :
           /\ g.collaterals[c].amount = f.collaterals[c].amount
           /\ g.collaterals[c].vault = f.collaterals[c].vault
           /\ g.collaterals[c].leftovers = f.collaterals[c].leftovers
  PROVE  AccountStep(f, g, id, fusd)
<1>1. EmptyTiers(g) = {} /\ SameBut(f.cdps, g.cdps, id)
  BY DEF EmptyTiers, SameBut
<1>2. \A c \in DOMAIN f.collaterals : InfoTyped(f.collaterals[c])
  BY DEF Accounted, Shaped
<1>3. /\ \A c : /\ OpenPart(g, id, c) = OpenPart(f, id, c)
                /\ EndedPart(g, id, c) = EndedPart(f, id, c)
      /\ \A k : TierPart(g, id, k) = TierPart(f, id, k)
  BY DEF OpenPart, EndedPart, TierPart
<1>4. /\ \A c : /\ OpenPart(f, id, c) - OpenPart(f, id, c) = 0
                /\ EndedPart(f, id, c) - EndedPart(f, id, c) = 0
      /\ \A k : TierPart(f, id, k) - TierPart(f, id, k) = 0
  BY AmountsTyped
<1>5. ASSUME NEW k \in Tiers
      PROVE  Locked(g, k) = Locked(f, k) /\ Locked(f, k) \in Int
  BY LockedTyped DEF Locked, Accounted
<1> QED
  BY <1>1, <1>2, <1>3, <1>4, <1>5 DEF AccountStep, InfoTyped

-----------------------------------------------------------------------------

\* What MarkRecorded and LinkRecorded say of one loan, and that a loan that ended
\* owes nothing.
LoanRight(f, id) ==
  LET d == f.cdps[id]
  IN  /\ Active(d) => (d.status = "Marked" <=> id \in DOMAIN f.marked)
      /\ d.borrower # Nobody => \E e \in f.borrowers[d.borrower].coupled : e[1] = id
      /\ Active(d) \/ d.pool = 0

\* No time of notice is on record for a loan yet to be opened, which is healthy.
LoansRight(f) ==
  /\ \A id \in DOMAIN f.cdps : LoanRight(f, id)
  /\ DOMAIN f.marked \subseteq 1 .. f.cdpCounter

\* What a call may make of the loan id, d, when it leaves e of it: an ended loan
\* stays ended, and an open one is liquidated only after its notice.
Lawful(f, id, d, e) ==
  /\ ~Active(d) => /\ e.status = d.status /\ e.pool = 0 /\ e.interest = d.interest
                   /\ e.amount \in {d.amount, 0}
  /\ Active(d) /\ e.status = "Liquidated" =>
       IF d.status = "Marked" THEN now > f.marked[id]
       ELSE d.borrower = Nobody \/ f.borrowers[d.borrower].notice = NoNotice

\* The borrower that e names and d did not has room for it.
LinkedWithin(f, d, e) ==
  e.borrower \in {d.borrower, Nobody} \cup {b \in DOMAIN f.borrowers : CanLink(f, b)}

\* From f to g the marks and links of no loan but id change.
OtherLoansKept(f, g, id) ==
  /\ SameBut(f.cdps, g.cdps, id) /\ f.cdpCounter <= g.cdpCounter
  /\ DOMAIN g.marked \ {id} = DOMAIN f.marked \ {id}
  /\ id \in DOMAIN g.marked => id \in DOMAIN f.cdps \cup DOMAIN f.marked
  /\ DOMAIN f.borrowers \subseteq DOMAIN g.borrowers
  /\ \A b \in DOMAIN f.borrowers : \A e \in f.borrowers[b].coupled :
       e[1] # id => e \in g.borrowers[b].coupled

\* In a step from f to g no loan but id changes, and it changes as it may.
LoanStep(f, g, id) ==
  /\ OtherLoansKept(f, g, id)
  /\ id \in DOMAIN g.cdps =>
       /\ LoanRight(g, id)
       /\ id \in DOMAIN f.cdps => /\ Lawful(f, id, f.cdps[id], g.cdps[id])
                                  /\ LinkedWithin(f, f.cdps[id], g.cdps[id])
       /\ id \notin DOMAIN f.cdps =>
            g.cdps[id].borrower \in {Nobody} \cup {b \in DOMAIN f.borrowers : CanLink(f, b)}

\* Such a step keeps every loan right.
LEMMA LoanStepRight ==
  ASSUME NEW f, NEW g, NEW id, StateOK(f), StateOK(g), LoansRight(f), LoanStep(f, g, id)
  PROVE  LoansRight(g)
<1>1. ASSUME NEW x \in DOMAIN g.cdps, x # id
      PROVE  LoanRight(g, x)
  <2>1. x \in DOMAIN f.cdps /\ g.cdps[x] = f.cdps[x] /\ LoanRight(f, x)
    BY <1>1 DEF LoanStep, OtherLoansKept, SameBut, LoansRight
  <2>2. x \in DOMAIN g.marked <=> x \in DOMAIN f.marked
    BY <1>1 DEF LoanStep, OtherLoansKept
  <2>3. f.cdps[x].borrower \in DOMAIN f.borrowers \cup {Nobody}
    BY <2>1 DEF StateOK, WellTyped
  <2>4. ASSUME f.cdps[x].borrower # Nobody
        PROVE  \E e \in g.borrowers[f.cdps[x].borrower].coupled : e[1] = x
    <3>1. PICK e \in f.borrowers[f.cdps[x].borrower].coupled : e[1] = x
      BY <2>1, <2>4 DEF LoanRight
    <3>2. e \in g.borrowers[f.cdps[x].borrower].coupled
      BY <1>1, <2>3, <2>4, <3>1 DEF LoanStep, OtherLoansKept
    <3> QED
      BY <3>1, <3>2
  <2> QED
    BY <2>1, <2>2, <2>4 DEF LoanRight
<1>2. DOMAIN g.marked \subseteq 1 .. g.cdpCounter
  <2>1. /\ f.cdpCounter \in Int /\ g.cdpCounter \in Int /\ f.cdpCounter <= g.cdpCounter
        /\ DOMAIN f.cdps \subseteq 1 .. f.cdpCounter
        /\ DOMAIN f.marked \subseteq 1 .. f.cdpCounter
    BY DEF StateOK, WellTyped, LoansRight, LoanStep, OtherLoansKept
  <2>2. DOMAIN g.marked \subseteq DOMAIN f.cdps \cup DOMAIN f.marked
    BY DEF LoanStep, OtherLoansKept
  <2> QED
    BY <2>1, <2>2
<1>3. id \in DOMAIN g.cdps => LoanRight(g, id)
  BY DEF LoanStep
<1> QED
  BY <1>1, <1>2, <1>3 DEF LoansRight

\* A loan stays open with the borrower it has, and keeps its mark or loses it.
LEMMA OpenLoanStep ==
  ASSUME NEW f, NEW g, NEW id \in DOMAIN f.cdps, StateOK(f), LoansRight(f), OthersKept(f, g, id),
         g.cdpCounter = f.cdpCounter, g.borrowers = f.borrowers, Active(f.cdps[id]),
         g.cdps[id].borrower = f.cdps[id].borrower,
         \/ g.cdps[id].status = f.cdps[id].status /\ g.marked = f.marked
         \/ g.cdps[id].status = "Healthy" /\ g.marked = Without(f.marked, id)
  PROVE  LoanStep(f, g, id)
<1>1. /\ SameBut(f.cdps, g.cdps, id) /\ id \in DOMAIN g.cdps
      /\ f.cdpCounter <= g.cdpCounter
  BY DEF OthersKept, SameBut, StateOK, WellTyped
<1>2. DOMAIN g.marked = DOMAIN f.marked \/ DOMAIN g.marked = DOMAIN f.marked \ {id}
  BY DEF Without
<1>3. LoanRight(f, id)
  BY DEF LoansRight
<1>4. LoanRight(g, id) /\ Active(g.cdps[id])
  <2>1. CASE g.cdps[id].status = f.cdps[id].status /\ g.marked = f.marked
    BY <1>3, <2>1 DEF LoanRight, Active
  <2>2. CASE g.cdps[id].status = "Healthy" /\ g.marked = Without(f.marked, id)
    <3>1. id \notin DOMAIN g.marked
      BY <2>2 DEF Without
    <3> QED
      BY <1>3, <2>2, <3>1 DEF LoanRight, Active
  <2> QED
    BY <2>1, <2>2
<1>5. Lawful(f, id, f.cdps[id], g.cdps[id])
  BY <1>4 DEF Lawful, Active
<1>6. LinkedWithin(f, f.cdps[id], g.cdps[id])
  BY DEF LinkedWithin
<1> QED
  BY <1>1, <1>2, <1>4, <1>5, <1>6 DEF LoanStep, OtherLoansKept

\* A loan ends: it owes nothing any more, keeps its link or loses it, and is
\* liquidated only if it may be.
LEMMA EndedLoanStep ==
  ASSUME NEW f, NEW g, NEW id \in DOMAIN f.cdps, StateOK(f), LoansRight(f), OthersKept(f, g, id),
         g.cdpCounter = f.cdpCounter, g.marked = f.marked,
         Active(f.cdps[id]), ~Active(g.cdps[id]), g.cdps[id].pool = 0,
         \/ LinksKept(f, g, id) /\ g.cdps[id].borrower = Nobody
         \/ g.borrowers = f.borrowers /\ g.cdps[id].borrower = f.cdps[id].borrower,
         g.cdps[id].status = "Liquidated" =>
           IF f.cdps[id].status = "Marked" THEN now > f.marked[id]
           ELSE f.cdps[id].borrower = Nobody
                  \/ f.borrowers[f.cdps[id].borrower].notice = NoNotice
  PROVE  LoanStep(f, g, id)
<1>1. /\ SameBut(f.cdps, g.cdps, id) /\ f.cdpCounter <= g.cdpCounter
  BY DEF OthersKept, SameBut, StateOK, WellTyped
<1>2. OtherLoansKept(f, g, id)
  BY <1>1 DEF OtherLoansKept, LinksKept
<1>3. LoanRight(f, id)
  BY DEF LoansRight
<1>4. LoanRight(g, id)
  BY <1>3 DEF LoanRight
<1>5. LinkedWithin(f, f.cdps[id], g.cdps[id])
  BY DEF LinkedWithin
<1> QED
  BY <1>2, <1>4, <1>5 DEF LoanStep, Lawful

\* A call that changes no loan, mark or link.
LEMMA NoLoanStep ==
  ASSUME NEW f, NEW g, NEW id, StateOK(f), LoansRight(f), g.cdps = f.cdps,
         g.cdpCounter = f.cdpCounter, g.marked = f.marked,
         DOMAIN f.borrowers \subseteq DOMAIN g.borrowers,
         \A b \in DOMAIN f.borrowers : g.borrowers[b].coupled = f.borrowers[b].coupled
  PROVE  LoanStep(f, g, id)
<1>1. OtherLoansKept(f, g, id)
  BY DEF OtherLoansKept, SameBut, StateOK, WellTyped, LoansRight
<1>2. ASSUME id \in DOMAIN g.cdps
      PROVE  LoanRight(f, id) /\ f.cdps[id].borrower \in DOMAIN f.borrowers \cup {Nobody}
  BY <1>2 DEF LoansRight, StateOK, WellTyped
<1>3. ASSUME id \in DOMAIN g.cdps
      PROVE  /\ LoanRight(g, id) /\ Lawful(f, id, f.cdps[id], g.cdps[id])
             /\ LinkedWithin(f, f.cdps[id], g.cdps[id])
  BY <1>2, <1>3 DEF LoanRight, Lawful, LinkedWithin, Active
<1> QED
  BY <1>1, <1>3 DEF LoanStep

-----------------------------------------------------------------------------

\* What a step does to the accounts and to the loan id.
Step(f, g, id, fusd) == AccountStep(f, g, id, fusd) /\ LoanStep(f, g, id)

\* What holds of the state between two calls and what the steps rest on.
Ready(f) == StateOK(f) /\ LoansRight(f) /\ Accounted(f) /\ EmptyTiers(f) = {}

\* Where the index has an open loan, its tier is there.
LEMMA OpenTier ==
  ASSUME NEW f, StateOK(f), Accounted(f), NEW id \in DOMAIN f.cdps, Active(f.cdps[id])
  PROVE  LET d == f.cdps[id] k == Tier(f.cdps[id])
         IN  /\ ListedIn(f, id) /\ k \in DOMAIN f.tiers /\ k \in Tiers
             /\ k[1] = d.collateral /\ k[1] \in DOMAIN f.collaterals
             /\ <<d.collateral, d.interest>> = k
             /\ d.amount \in Int /\ d.pool \in Int
             /\ d.borrower \in DOMAIN f.borrowers \cup {Nobody}
<1>1. ListedIn(f, id)
  BY OpenListed
<1>2. Tier(f.cdps[id]) \in DOMAIN f.tiers
  BY <1>1 DEF ListedIn, Accounted, Tracked
<1> QED
  BY <1>1, <1>2, LoanTyped DEF LoanOK, Tier

\* The price that with_price stores moves nothing.
LEMMA PricedStill ==
  ASSUME NEW f, StateOK(f), Accounted(f), NEW k \in Tiers, k[1] \in DOMAIN f.collaterals,
         NEW c, c = k[1], NEW price \in Nat \ {0}
  PROVE  LET g == WithPrice(f, c, price)
         IN  /\ StateOK(g) /\ Accounted(g) /\ Entry(f, g, k, 0, 0, 0) /\ SameLoans(f, g)
             /\ g.ratios = f.ratios /\ g.tiers = f.tiers /\ g.params = f.params
             /\ DOMAIN g.collaterals = DOMAIN f.collaterals
             /\ EmptyTiers(g) = EmptyTiers(f)
             /\ \A l : DebtMultiplier(g, l) = DebtMultiplier(f, l)
<1> DEFINE g == WithPrice(f, c, price)
<1>1. StateOK(g) /\ Kept(f, g)
  BY PricedOK
<1>2. Entry(f, g, k, 0, 0, 0) /\ SameLoans(f, g) /\ g.ratios = f.ratios /\ g.tiers = f.tiers
  BY CoinEntries
<1> HIDE DEF g
<1>3. EmptyTiers(g) = EmptyTiers(f) /\ \A l : DebtMultiplier(g, l) = DebtMultiplier(f, l)
  BY <1>2 DEF EmptyTiers, DebtMultiplier
<1> QED
  BY <1>1, <1>2, <1>3 DEF Kept, Entry, g

\* The end of a loan and of its link, as close_cdp and redemption make it.
LEMMA DelistUnlinked ==
  ASSUME NEW f, Accounted(f), NEW id \in DOMAIN f.cdps, ListedIn(f, id),
         f.cdps[id].borrower \in DOMAIN f.borrowers \cup {Nobody},
         NEW status, NEW amount
  PROVE  LET g == UnlinkIfLinked(Delist(f, id, status, amount), id)
             d == f.cdps[id]
             k == Tier(f.cdps[id])
         IN  /\ Ends(f, g, k, 0, 0, 0) /\ k \notin EmptyTiers(g)
             /\ OthersKept(f, g, id) /\ LinksKept(f, g, id)
             /\ g.cdpCounter = f.cdpCounter /\ g.marked = f.marked
             /\ DOMAIN g.cdps[id] = CdpFields
             /\ g.cdps[id].borrower = Nobody /\ g.cdps[id].status = status
             /\ g.cdps[id].pool = 0 /\ g.cdps[id].amount = amount
             /\ g.cdps[id].collateral = d.collateral
<1> DEFINE d == f.cdps[id]
           k == Tier(d)
           e == Ended(d, status, amount)
           f1 == Delist(f, id, status, amount)
           g == UnlinkIfLinked(f1, id)
<1>1. Ends(f, f1, k, 0, 0, 0) /\ OneLoan(f, f1, id, e) /\ EmptyTiers(f1) \subseteq EmptyTiers(f) \ {k}
  BY DelistEnds
<1>2. DOMAIN d = CdpFields
  BY DEF Accounted, Shaped
<1>3. /\ e.status = status /\ e.pool = 0 /\ e.amount = amount
      /\ e.collateral = d.collateral /\ e.borrower = d.borrower
  BY <1>2 DEF Ended, CdpFields
<1> HIDE DEF f1, e
<1>4. /\ id \in DOMAIN f1.cdps /\ Accounted(f1) /\ f1.cdps[id] = e
      /\ f1.cdps[id].borrower \in DOMAIN f1.borrowers \cup {Nobody}
  BY <1>1, <1>3 DEF OneLoan, OthersKept, Ends
<1>5. /\ SameBooks(f1, g) /\ LinksKept(f1, g, id)
      /\ g.cdpCounter = f1.cdpCounter /\ g.marked = f1.marked
      /\ OthersKept(f1, g, id) /\ Unlinked(e, g.cdps[id])
  BY <1>4, UnlinkIfLinkedBooks
<1> HIDE DEF g
<1>6. Ends(f, g, k, 0, 0, 0) /\ EmptyTiers(g) = EmptyTiers(f1)
  BY <1>1, <1>5, EndsLoans DEF SameBooks
<1>7. /\ OthersKept(f, g, id) /\ LinksKept(f, g, id)
      /\ g.cdpCounter = f.cdpCounter /\ g.marked = f.marked
  BY <1>1, <1>5 DEF OneLoan, OthersKept, LinksKept
<1> QED
  BY <1>1, <1>3, <1>5, <1>6, <1>7 DEF Unlinked, g, f1

\* close_cdp pays for the debt and gives all collateral back.
LEMMA CloseStep ==
  ASSUME Ready(flux), now \in Nat, held \in Int, NEW id \in Loans, CloseCdp(id)
  PROVE  /\ Step(flux, flux', id, held' - held) /\ held' \in Int
         /\ flux'.cdps # flux.cdps
<1> DEFINE d == flux.cdps[id]
           k == Tier(d)
           debt == PoolToRealDebt(flux, k, d.pool)
           f1 == TakeCollateral(flux, k, d.amount)
           f2 == RemoveDebt(UnmintFusd(f1, k, debt), k, debt)
           f3 == UnlinkIfLinked(Delist(f2, id, "Closed", 0), id)
           e == [f3.cdps[id] EXCEPT !.ratio = 0]
           f4 == [f3 EXCEPT !.cdps[id] = e]
<1>1. /\ Active(d) /\ flux' = [f3 EXCEPT !.cdps[id].ratio = 0] /\ held' = held - debt
  BY SMTT(30) DEF CloseCdp
<1>2. flux' = f4
  BY <1>1
<1>3. StateOK(flux) /\ Accounted(flux) /\ LoansRight(flux) /\ EmptyTiers(flux) = {}
  BY SMTT(30) DEF Ready
<1>4. /\ ListedIn(flux, id) /\ k \in DOMAIN flux.tiers /\ k \in Tiers /\ k[1] \in DOMAIN flux.collaterals
      /\ d.amount \in Int /\ d.pool \in Int
      /\ d.borrower \in DOMAIN flux.borrowers \cup {Nobody}
  BY <1>1, <1>3, OpenTier DEF Loans
<1>5. debt \in Int
  BY <1>3, <1>4, PoolToRealInt DEF StateOK
<1>6. /\ Entry(flux, f1, k, 0, -d.amount, 0) /\ SameLoans(flux, f1)
      /\ f1.ratios = flux.ratios /\ DOMAIN f1.tiers = DOMAIN flux.tiers
  BY <1>3, <1>4, TakeEntry
<1> HIDE DEF debt, f1
<1>7. /\ Accounted(f1) /\ k \in DOMAIN f1.tiers /\ k[1] \in DOMAIN f1.collaterals
  BY <1>4, <1>6 DEF Entry, VaultMoved
<1>8. /\ Entry(f1, f2, k, -debt, 0, 0) /\ SameLoans(f1, f2) /\ f2.ratios = f1.ratios
  BY <1>5, <1>7, RepayEntry
<1> HIDE DEF f2
<1>9. /\ Entry(flux, f2, k, -debt, -d.amount, 0) /\ SameLoans(flux, f2)
      /\ f2.ratios = flux.ratios
  BY <1>4, <1>5, <1>6, <1>8, EntryEntry DEF SameLoans
<1>10. /\ Accounted(f2) /\ id \in DOMAIN f2.cdps /\ ListedIn(f2, id) /\ f2.cdps[id] = d
       /\ f2.cdps[id].borrower \in DOMAIN f2.borrowers \cup {Nobody}
  BY <1>4, <1>9 DEF Entry, SameLoans, ListedIn, Loans
<1>11. /\ Ends(f2, f3, k, 0, 0, 0) /\ k \notin EmptyTiers(f3)
       /\ OthersKept(f2, f3, id) /\ LinksKept(f2, f3, id)
       /\ f3.cdpCounter = f2.cdpCounter /\ f3.marked = f2.marked
       /\ DOMAIN f3.cdps[id] = CdpFields
       /\ f3.cdps[id].borrower = Nobody /\ f3.cdps[id].status = "Closed"
       /\ f3.cdps[id].pool = 0 /\ f3.cdps[id].amount = 0
       /\ f3.cdps[id].collateral = d.collateral
  BY <1>10, DelistUnlinked
<1> HIDE DEF f3
<1>12. Ends(flux, f3, k, -debt, -d.amount, 0)
  <2> DEFINE m == -debt
             x == -d.amount
  <2>1. /\ m \in Int /\ x \in Int /\ 0 \in Int
        /\ Entry(flux, f2, k, m, x, 0) /\ Ends(f2, f3, k, 0, 0, 0)
    BY <1>4, <1>5, <1>9, <1>11
  <2> HIDE DEF m, x
  <2>2. Ends(flux, f3, k, m + 0, x + 0, 0 + 0)
    BY <2>1, EntryEnds
  <2>3. m + 0 = m /\ x + 0 = x /\ 0 + 0 = 0
    BY <2>1
  <2>4. Ends(flux, f3, k, m, x, 0)
    BY <2>2, <2>3
  <2> QED
    BY <2>4 DEF m, x
<1>13. /\ DOMAIN e = CdpFields /\ e.borrower = Nobody /\ e.status = "Closed"
       /\ e.pool = 0 /\ e.amount = 0 /\ e.collateral = d.collateral
  BY <1>11 DEF CdpFields
<1>14. Accounted(f3) /\ id \in DOMAIN f3.cdps
  BY <1>10, <1>11 DEF Ends, OthersKept
<1> HIDE DEF e
<1>15. /\ Still(f3, f4) /\ EmptyTiers(f4) = EmptyTiers(f3) /\ OneLoan(f3, f4, id, e)
       /\ f4.tiers = f3.tiers /\ f4.ratios = f3.ratios
  BY <1>13, <1>14, CdpStill
<1> HIDE DEF f4
<1>16. Ends(flux, f4, k, -debt, -d.amount, 0)
  BY <1>4, <1>5, <1>12, <1>15, EndsLoans DEF Still
<1>17. /\ OthersKept(flux, f4, id) /\ LinksKept(flux, f4, id) /\ f4.cdps[id] = e
       /\ f4.cdpCounter = flux.cdpCounter /\ f4.marked = flux.marked
  BY <1>9, <1>11, <1>15 DEF SameLoans, OneLoan, OthersKept, LinksKept
<1>18. ~Active(e) /\ id \in DOMAIN f4.cdps
  BY <1>13, <1>17 DEF Active, OthersKept, Loans
<1>19. StateOK(f4)
  BY <1>2, <1>3, CloseOK
<1>20. SameBut(flux.cdps, f4.cdps, id)
  BY <1>17 DEF OthersKept, SameBut
<1>21. AccountStep(flux, f4, id, -debt)
  BY <1>1, <1>3, <1>4, <1>11, <1>13, <1>15, <1>16, <1>17, <1>18, <1>19, <1>20, EndStep DEF Loans
<1>22. LoanStep(flux, f4, id)
  BY <1>1, <1>3, <1>13, <1>17, <1>18, EndedLoanStep DEF Loans
<1>23. held' - held = -debt /\ held' \in Int
  BY <1>1, <1>5
<1>24. f4.cdps # flux.cdps
  BY <1>1, <1>17, <1>18
<1> QED
  BY SMTT(30), <1>2, <1>21, <1>22, <1>23, <1>24 DEF Step

\* retrieve_leftover_collateral pays out what an ended loan has left, at once.
LEMMA RetrieveStep ==
  ASSUME Ready(flux), held \in Int, NEW id \in Loans, RetrieveLeftoverCollateral(id)
  PROVE  Step(flux, flux', id, held' - held) /\ held' \in Int
<1> DEFINE d == flux.cdps[id]
           k == Tier(d)
           e == [d EXCEPT !.amount = 0]
           f1 == [flux EXCEPT !.cdps[id] = e]
           f2 == TakeFromLeftovers(f1, k[1], d.amount)
<1>1. /\ ~Active(d) /\ flux' = f2 /\ held' = held
  BY DEF RetrieveLeftoverCollateral, Active, Tier
<1>2. StateOK(flux) /\ Accounted(flux) /\ LoansRight(flux) /\ EmptyTiers(flux) = {}
  BY DEF Ready
<1>3. /\ k \in Tiers /\ k[1] \in DOMAIN flux.collaterals /\ k[1] = d.collateral
      /\ d.amount \in Int /\ d.borrower \in DOMAIN flux.borrowers \cup {Nobody}
      /\ id \in DOMAIN flux.cdps
  BY <1>2, LoanTyped DEF Loans, LoanOK, Tier
<1>4. DOMAIN d = CdpFields
  BY <1>2, <1>3 DEF Accounted, Shaped
<1>5. /\ DOMAIN e = CdpFields /\ e.amount = 0 /\ e.collateral = d.collateral
      /\ e.status = d.status /\ e.pool = d.pool /\ e.interest = d.interest
      /\ e.borrower = d.borrower
  BY <1>4 DEF CdpFields
<1> HIDE DEF e
<1>6. /\ Still(flux, f1) /\ EmptyTiers(f1) = EmptyTiers(flux) /\ OneLoan(flux, f1, id, e)
      /\ f1.tiers = flux.tiers /\ f1.ratios = flux.ratios
  BY <1>2, <1>3, <1>5, CdpStill
<1> HIDE DEF f1
<1>7. Accounted(f1) /\ k[1] \in DOMAIN f1.collaterals /\ f1.collaterals = flux.collaterals
  BY <1>3, <1>6 DEF Still
<1>8. /\ Entry(f1, f2, k, 0, 0, -d.amount) /\ SameLoans(f1, f2)
      /\ f2.ratios = f1.ratios /\ f2.tiers = f1.tiers
  BY <1>3, <1>7, CoinEntries
<1> HIDE DEF f2
<1>9. Entry(flux, f1, k, 0, 0, 0)
  BY <1>3, <1>6, StillEntry
<1>10. Entry(flux, f2, k, 0, 0, -d.amount)
  BY <1>3, <1>8, <1>9, EntryEntry
<1>11. /\ OthersKept(flux, f2, id) /\ f2.cdps[id] = e /\ f2.borrowers = flux.borrowers
       /\ f2.cdpCounter = flux.cdpCounter /\ f2.marked = flux.marked
       /\ id \in DOMAIN f2.cdps /\ SameBut(flux.cdps, f2.cdps, id)
       /\ EmptyTiers(f2) = EmptyTiers(flux)
  BY <1>3, <1>6, <1>8 DEF OneLoan, SameLoans, OthersKept, SameBut, EmptyTiers
<1>12. ~Active(e)
  BY <1>1, <1>5 DEF Active
<1>13. AccountStep(flux, f2, id, 0)
  <2>1. /\ \A c : OpenPart(flux, id, c) = 0 /\ OpenPart(f2, id, c) = 0
        /\ \A c : EndedPart(flux, id, c) = IF c = k[1] THEN d.amount ELSE 0
        /\ \A c : EndedPart(f2, id, c) = 0
        /\ \A l : TierPart(flux, id, l) = 0 /\ TierPart(f2, id, l) = 0
    BY <1>1, <1>3, <1>5, <1>11, <1>12 DEF OpenPart, EndedPart, TierPart
  <2>2. ASSUME NEW c \in DOMAIN flux.collaterals
        PROVE  LET by == OpenPart(f2, id, c) - OpenPart(flux, id, c)
                   left == EndedPart(f2, id, c) - EndedPart(flux, id, c)
               IN  /\ f2.collaterals[c].amount = flux.collaterals[c].amount + by
                   /\ f2.collaterals[c].vault = flux.collaterals[c].vault + by
                   /\ f2.collaterals[c].leftovers = flux.collaterals[c].leftovers + left
    <3>1. InfoTyped(flux.collaterals[c])
      BY SMTT(30), <1>2 DEF Accounted, Shaped
    <3>2. CASE c = k[1]
      BY <1>3, <1>10, <2>1, <3>1, <3>2, SMTT(30) DEF Entry, VaultMoved, InfoTyped
    <3>3. CASE c # k[1]
      BY <1>10, <2>1, <3>1, <3>3 DEF Entry, VaultMoved, InfoTyped
    <3> QED
      BY <3>2, <3>3
  <2>3. ASSUME NEW l \in Tiers
        PROVE  Locked(f2, l) = Locked(flux, l) + (TierPart(f2, id, l) - TierPart(flux, id, l))
    <3>1. Locked(flux, l) \in Int
      BY <1>2, LockedTyped DEF Accounted
    <3> QED
      BY <1>10, <2>1, <3>1 DEF Entry, LockMoved
  <2> QED
    BY <1>2, <1>10, <1>11, <2>2, <2>3 DEF AccountStep, Entry, VaultMoved
<1>14. LoanStep(flux, f2, id)
  <2>1. LoanRight(flux, id)
    BY <1>2, <1>3 DEF LoansRight
  <2>2. /\ LoanRight(f2, id) /\ Lawful(flux, id, d, e) /\ LinkedWithin(flux, d, e)
    BY <1>1, <1>5, <1>11, <1>12, <2>1 DEF LoanRight, Lawful, LinkedWithin
  <2>3. OtherLoansKept(flux, f2, id)
    BY <1>2, <1>3, <1>11 DEF OtherLoansKept, StateOK, WellTyped
  <2> QED
    BY <1>3, <1>11, <2>2, <2>3 DEF LoanStep
<1>15. held' - held = 0
  BY <1>1
<1> QED
  BY <1>1, <1>13, <1>14, <1>15 DEF Step

-----------------------------------------------------------------------------

\* The loan id stays open, in its tier and with its borrower, and keeps its mark
\* or loses it; nothing else of the loans changes.
StillOpen(f, g, id) ==
  LET d == f.cdps[id] e == g.cdps[id]
  IN  /\ id \in DOMAIN f.cdps /\ OthersKept(f, g, id)
      /\ g.cdpCounter = f.cdpCounter /\ g.borrowers = f.borrowers
      /\ e.collateral = d.collateral /\ e.interest = d.interest
      /\ e.borrower = d.borrower
      /\ \/ e.status = d.status /\ g.marked = f.marked
         \/ e.status = "Healthy" /\ g.marked = Without(f.marked, id)

\* Two such changes make one.
LEMMA StillOpenTwice ==
  ASSUME NEW f, NEW g, NEW h, NEW id, StillOpen(f, g, id), StillOpen(g, h, id)
  PROVE  StillOpen(f, h, id)
<1>1. Without(Without(f.marked, id), id) = Without(f.marked, id)
  BY DEF Without
<1>2. OthersKept(f, h, id)
  BY DEF StillOpen, OthersKept
<1> QED
  BY <1>1, <1>2 DEF StillOpen

\* A change of other fields is one.
LEMMA SameLoansOpen ==
  ASSUME NEW f, NEW g, NEW id \in DOMAIN f.cdps, SameLoans(f, g)
  PROVE  StillOpen(f, g, id) /\ g.cdps[id] = f.cdps[id]
BY DEF SameLoans, StillOpen, OthersKept

\* A handler that leaves the loan open, with what it puts into the loan's tier.
LEMMA StillOpenStep ==
  ASSUME NEW f, NEW g, Ready(f), StateOK(g), NEW id \in DOMAIN f.cdps,
         NEW fusd \in Int, NEW coll \in Int, NEW k, k = Tier(f.cdps[id]),
         Active(f.cdps[id]), Ends(f, g, k, fusd, coll, 0), StillOpen(f, g, id),
         g.cdps[id].amount = f.cdps[id].amount + coll
  PROVE  Step(f, g, id, fusd)
<1>1. /\ SameBut(f.cdps, g.cdps, id) /\ id \in DOMAIN g.cdps /\ Active(g.cdps[id])
      /\ g.cdps[id].collateral = f.cdps[id].collateral
      /\ g.cdps[id].interest = f.cdps[id].interest
  BY DEF StillOpen, OthersKept, SameBut, Active
<1>2. AccountStep(f, g, id, fusd)
  BY <1>1, OpenStep DEF Ready
<1>3. LoanStep(f, g, id)
  BY OpenLoanStep DEF Ready, StillOpen
<1> QED
  BY <1>2, <1>3 DEF Step

\* unmark_if_marked leaves the loan open.
LEMMA UnmarkOpen ==
  ASSUME NEW f, Accounted(f), NEW id \in DOMAIN f.cdps
  PROVE  LET g == UnmarkIfMarked(f, id)
         IN  /\ SameBooks(f, g) /\ StillOpen(f, g, id)
             /\ g.cdps[id].amount = f.cdps[id].amount /\ g.cdps[id].pool = f.cdps[id].pool
             /\ g.cdps[id].ratio = f.cdps[id].ratio /\ g.cdps[id].status = "Healthy"
             /\ g.marked = Without(f.marked, id)
             /\ Tier(g.cdps[id]) = Tier(f.cdps[id])
             /\ ListedIn(f, id) => ListedIn(g, id)
<1> DEFINE g == UnmarkIfMarked(f, id)
<1>1. /\ SameBooks(f, g) /\ OthersKept(f, g, id)
      /\ g.cdps[id] = [f.cdps[id] EXCEPT !.status = "Healthy"]
      /\ g.cdpCounter = f.cdpCounter /\ g.borrowers = f.borrowers
      /\ g.marked = Without(f.marked, id)
  BY UnmarkBooks
<1>2. DOMAIN f.cdps[id] = CdpFields
  BY DEF Accounted, Shaped
<1> HIDE DEF g
<1>3. /\ g.cdps[id].amount = f.cdps[id].amount /\ g.cdps[id].pool = f.cdps[id].pool
      /\ g.cdps[id].collateral = f.cdps[id].collateral
      /\ g.cdps[id].interest = f.cdps[id].interest /\ g.cdps[id].ratio = f.cdps[id].ratio
      /\ g.cdps[id].borrower = f.cdps[id].borrower /\ g.cdps[id].status = "Healthy"
  BY <1>1, <1>2 DEF CdpFields
<1>4. Tier(g.cdps[id]) = Tier(f.cdps[id]) /\ StillOpen(f, g, id)
  BY <1>1, <1>3 DEF Tier, StillOpen
<1> QED
  BY <1>1, <1>3, <1>4 DEF ListedIn, SameBooks, OthersKept, g

\* Tier k, with interest i, is the loan's.
InTier(f, id, i, k) == f.cdps[id].interest = i /\ Tier(f.cdps[id]) = k

\* So does its relisting in its tier.
LEMMA RelistOpen ==
  ASSUME NEW f, Accounted(f), NEW id \in DOMAIN f.cdps, ListedIn(f, id), now \in Nat,
         NEW i, NEW amount, NEW pool, NEW k, InTier(f, id, i, k)
  PROVE  LET g == Relist(f, id, i, amount, pool)
         IN  /\ Entry(f, g, k, 0, 0, 0) /\ SameDebts(f, g) /\ StillOpen(f, g, id)
             /\ k \in DOMAIN g.tiers
             /\ g.cdps[id].amount = amount /\ g.cdps[id].status = f.cdps[id].status
             /\ g.marked = f.marked
<1> DEFINE d == f.cdps[id]
           e == Relisted(d, i, amount, pool)
           g == Relist(f, id, i, amount, pool)
<1>1. k = <<d.collateral, i>> /\ k \in Tiers
  BY DEF Tier, ListedIn, InTier
<1>2. /\ Still(f, g) /\ OneLoan(f, g, id, e)
      /\ EmptyTiers(g) \subseteq EmptyTiers(f) \cup {k} /\ k \in DOMAIN g.tiers
  BY <1>1, RelistStill DEF InTier
<1>3. DOMAIN d = CdpFields
  BY DEF Accounted, Shaped
<1>4. /\ e.amount = amount /\ e.status = d.status /\ e.collateral = d.collateral
      /\ e.interest = d.interest /\ e.borrower = d.borrower
  BY <1>3 DEF Relisted, CdpFields, InTier
<1> HIDE DEF e, g
<1>5. StillOpen(f, g, id) /\ g.cdps[id] = e
  BY <1>2, <1>4 DEF StillOpen, OneLoan
<1>6. Entry(f, g, k, 0, 0, 0)
  BY <1>1, <1>2, StillEntry
<1> QED
  BY <1>2, <1>4, <1>5, <1>6 DEF g, OneLoan, Still

\* The two together, as top_up_cdp, remove_collateral and others have them.
LEMMA UnmarkRelistOpen ==
  ASSUME NEW f, Accounted(f), NEW id \in DOMAIN f.cdps, ListedIn(f, id), now \in Nat,
         NEW i, NEW amount, NEW pool, NEW k, InTier(f, id, i, k)
  PROVE  LET g == Relist(UnmarkIfMarked(f, id), id, i, amount, pool)
         IN  /\ Entry(f, g, k, 0, 0, 0) /\ SameDebts(f, g) /\ StillOpen(f, g, id)
             /\ k \in DOMAIN g.tiers /\ g.cdps[id].amount = amount
<1> DEFINE f1 == UnmarkIfMarked(f, id)
           g == Relist(f1, id, i, amount, pool)
<1>1. /\ SameBooks(f, f1) /\ StillOpen(f, f1, id)
      /\ Tier(f1.cdps[id]) = Tier(f.cdps[id]) /\ ListedIn(f1, id)
  BY UnmarkOpen
<1> HIDE DEF f1
<1>2. /\ Accounted(f1) /\ id \in DOMAIN f1.cdps /\ InTier(f1, id, i, k) /\ k \in Tiers
  BY <1>1 DEF SameBooks, StillOpen, OthersKept, InTier, ListedIn
<1>3. /\ Entry(f1, g, k, 0, 0, 0) /\ SameDebts(f1, g) /\ StillOpen(f1, g, id)
      /\ k \in DOMAIN g.tiers /\ g.cdps[id].amount = amount
  BY <1>1, <1>2, RelistOpen
<1> HIDE DEF g
<1>4. Entry(f, f1, k, 0, 0, 0) /\ SameDebts(f, f1)
  BY <1>1, <1>2, BooksEntry DEF Still
<1>5. Entry(f, g, k, 0, 0, 0)
  BY <1>3, <1>4, EntryEntry
<1>6. StillOpen(f, g, id)
  BY <1>1, <1>3, StillOpenTwice
<1>7. SameDebts(f, g)
  BY <1>3, <1>4 DEF SameDebts
<1> QED
  BY <1>3, <1>5, <1>6, <1>7 DEF g, f1

\* top_up_cdp puts the deposit into the loan's vault and tier.
LEMMA TopUpStep ==
  ASSUME Ready(flux), now \in Nat, held \in Int, NEW id \in Loans, NEW deposit \in TopUps,
         NEW price \in Nat \ {0}, TopUpCdp(id, deposit, price)
  PROVE  Step(flux, flux', id, held' - held) /\ held' \in Int
<1> DEFINE d == flux.cdps[id]
           k == Tier(d)
           amount == d.amount + deposit
           f1 == WithPrice(flux, d.collateral, price)
           f2 == Relist(UnmarkIfMarked(f1, id), id, d.interest, amount, d.pool)
           g == PutCollateral(f2, k, deposit)
<1>1. Active(d) /\ flux' = g /\ held' = held
  BY DEF TopUpCdp
<1>2. StateOK(flux) /\ Accounted(flux) /\ id \in DOMAIN flux.cdps
  BY DEF Ready, Loans
<1>3. /\ ListedIn(flux, id) /\ k \in Tiers /\ k[1] \in DOMAIN flux.collaterals
      /\ k[1] = d.collateral /\ d.amount \in Int
  BY <1>1, <1>2, OpenTier
<1>4. deposit \in Int
  BY AmountAssumption
<1>5. Entry(flux, f1, k, 0, 0, 0) /\ SameLoans(flux, f1) /\ Accounted(f1) /\ f1.ratios = flux.ratios
  BY <1>2, <1>3, PricedStill
<1> HIDE DEF f1
<1>6. /\ ListedIn(f1, id) /\ id \in DOMAIN f1.cdps /\ InTier(f1, id, d.interest, k)
      /\ StillOpen(flux, f1, id)
  BY <1>2, <1>3, <1>5, SameLoansOpen DEF ListedIn, SameLoans, InTier
<1>7. /\ Entry(f1, f2, k, 0, 0, 0) /\ StillOpen(f1, f2, id) /\ f2.cdps[id].amount = amount
  BY SMTT(30), <1>5, <1>6, UnmarkRelistOpen
<1> HIDE DEF f2
<1>8. Accounted(f2) /\ k[1] \in DOMAIN f2.collaterals
  BY <1>3, <1>5, <1>7 DEF Entry, VaultMoved
<1>9. Entry(f2, g, k, 0, deposit, 0) /\ SameLoans(f2, g)
  BY <1>3, <1>4, <1>8, PutEntry
<1> HIDE DEF g
<1>10. Entry(flux, f2, k, 0, 0, 0)
  BY <1>5, <1>7, EntryEntry
<1>11. Entry(flux, g, k, 0, deposit, 0)
  BY <1>4, <1>9, <1>10, EntryEntry
<1>12. StillOpen(flux, g, id) /\ g.cdps[id].amount = d.amount + deposit
  <2>1. id \in DOMAIN f2.cdps
    BY <1>7 DEF StillOpen, OthersKept
  <2>2. StillOpen(f2, g, id) /\ g.cdps[id] = f2.cdps[id]
    BY <1>9, <2>1, SameLoansOpen
  <2> QED
    BY <1>6, <1>7, <2>2, StillOpenTwice
<1>13. StateOK(g)
  BY <1>1, <1>2, TopUpOK
<1>14. Step(flux, g, id, 0)
  BY <1>1, <1>2, <1>4, <1>11, <1>12, <1>13, EntryIsEnds, StillOpenStep
<1>15. held' - held = 0
  BY <1>1
<1> QED
  BY <1>1, <1>14, <1>15

\* remove_collateral takes the withdrawal out of them.
LEMMA RemoveCollateralStep ==
  ASSUME Ready(flux), now \in Nat, held \in Int, NEW id \in Loans,
         NEW withdrawal \in Withdrawals, NEW price \in Nat \ {0},
         RemoveCollateral(id, withdrawal, price)
  PROVE  Step(flux, flux', id, held' - held) /\ held' \in Int
<1> DEFINE d == flux.cdps[id]
           k == Tier(d)
           amount == d.amount - withdrawal
           f1 == WithPrice(flux, d.collateral, price)
           f2 == Relist(UnmarkIfMarked(f1, id), id, d.interest, amount, d.pool)
           g == TakeCollateral(f2, k, withdrawal)
<1>1. Active(d) /\ flux' = g /\ held' = held
  BY DEF RemoveCollateral
<1>2. StateOK(flux) /\ Accounted(flux) /\ id \in DOMAIN flux.cdps
  BY DEF Ready, Loans
<1>3. /\ ListedIn(flux, id) /\ k \in Tiers /\ k[1] \in DOMAIN flux.collaterals
      /\ k[1] = d.collateral /\ d.amount \in Int
  BY <1>1, <1>2, OpenTier
<1>4. withdrawal \in Int
  BY AmountAssumption
<1>5. Entry(flux, f1, k, 0, 0, 0) /\ SameLoans(flux, f1) /\ Accounted(f1) /\ f1.ratios = flux.ratios
  BY <1>2, <1>3, PricedStill
<1> HIDE DEF f1
<1>6. /\ ListedIn(f1, id) /\ id \in DOMAIN f1.cdps /\ InTier(f1, id, d.interest, k)
      /\ StillOpen(flux, f1, id)
  BY <1>2, <1>3, <1>5, SameLoansOpen DEF ListedIn, SameLoans, InTier
<1>7. /\ Entry(f1, f2, k, 0, 0, 0) /\ StillOpen(f1, f2, id) /\ f2.cdps[id].amount = amount
      /\ k \in DOMAIN f2.tiers
  BY SMTT(30), <1>5, <1>6, UnmarkRelistOpen
<1> HIDE DEF f2
<1>8. Accounted(f2) /\ k[1] \in DOMAIN f2.collaterals
  BY <1>3, <1>5, <1>7 DEF Entry, VaultMoved
<1>9. Entry(f2, g, k, 0, -withdrawal, 0) /\ SameLoans(f2, g)
  BY <1>4, <1>7, <1>8, TakeEntry
<1> HIDE DEF g
<1>10. Entry(flux, f2, k, 0, 0, 0)
  BY <1>5, <1>7, EntryEntry
<1>11. Entry(flux, g, k, 0, -withdrawal, 0)
  BY <1>4, <1>9, <1>10, EntryEntry
<1>12. StillOpen(flux, g, id) /\ g.cdps[id].amount = d.amount + (-withdrawal)
  <2>1. id \in DOMAIN f2.cdps
    BY <1>7 DEF StillOpen, OthersKept
  <2>2. StillOpen(f2, g, id) /\ g.cdps[id] = f2.cdps[id]
    BY <1>9, <2>1, SameLoansOpen
  <2>3. StillOpen(flux, g, id)
    BY <1>6, <1>7, <2>2, StillOpenTwice
  <2> QED
    BY <1>3, <1>4, <1>7, <2>2, <2>3
<1>13. StateOK(g)
  BY <1>1, <1>2, RemoveCollateralOK
<1>14. Step(flux, g, id, 0)
  BY <1>1, <1>2, <1>4, <1>11, <1>12, <1>13, EntryIsEnds, StillOpenStep
<1>15. held' - held = 0
  BY <1>1
<1> QED
  BY <1>1, <1>14, <1>15

\* partial_close_cdp burns the repayment, or is close_cdp.
LEMMA PartialCloseStep ==
  ASSUME Ready(flux), now \in Nat, held \in Int, NEW id \in Loans,
         NEW repayment \in Repayments, PartialCloseCdp(id, repayment)
  PROVE  Step(flux, flux', id, held' - held) /\ held' \in Int
<1> DEFINE d == flux.cdps[id]
           k == Tier(d)
           pool == d.pool - RealToPoolDebt(flux, k, repayment)
           f1 == RemoveDebt(UnmintFusd(flux, k, repayment), k, repayment)
           g == Relist(f1, id, d.interest, d.amount, pool)
<1>1. Active(d)
  BY DEF PartialCloseCdp
<1>2. CASE pool < 0
  <2>1. CloseCdp(id)
    BY <1>2 DEF PartialCloseCdp
  <2> QED
    BY <2>1, CloseStep
<1>3. CASE ~(pool < 0)
  <2>1. flux' = g /\ held' = held - repayment
    BY <1>3 DEF PartialCloseCdp
  <2>2. StateOK(flux) /\ Accounted(flux) /\ id \in DOMAIN flux.cdps
    BY DEF Ready, Loans
  <2>3. /\ ListedIn(flux, id) /\ k \in DOMAIN flux.tiers /\ k \in Tiers
        /\ k[1] \in DOMAIN flux.collaterals /\ d.amount \in Int
    BY <1>1, <2>2, OpenTier
  <2>4. repayment \in Int
    BY AmountAssumption
  <2>5. Entry(flux, f1, k, -repayment, 0, 0) /\ SameLoans(flux, f1) /\ f1.ratios = flux.ratios
    BY <2>2, <2>3, <2>4, RepayEntry
  <2> HIDE DEF f1, pool
  <2>6. /\ Accounted(f1) /\ ListedIn(f1, id) /\ id \in DOMAIN f1.cdps
        /\ InTier(f1, id, d.interest, k) /\ StillOpen(flux, f1, id)
    BY <2>2, <2>3, <2>5, SameLoansOpen DEF ListedIn, SameLoans, InTier, Entry
  <2>7. Entry(f1, g, k, 0, 0, 0) /\ StillOpen(f1, g, id) /\ g.cdps[id].amount = d.amount
    BY <2>6, RelistOpen
  <2> HIDE DEF g
  <2>8. Entry(flux, g, k, -repayment, 0, 0)
    BY <2>4, <2>5, <2>7, EntryEntry
  <2>9. StillOpen(flux, g, id) /\ g.cdps[id].amount = d.amount + 0
    BY <2>3, <2>6, <2>7, StillOpenTwice
  <2>10. StateOK(g)
    BY <2>1, <2>2, PartialCloseOK
  <2>11. Step(flux, g, id, -repayment)
    BY <1>1, <2>2, <2>4, <2>8, <2>9, <2>10, EntryIsEnds, StillOpenStep
  <2>12. held' - held = -repayment /\ held' \in Int
    BY <2>1, <2>4
  <2> QED
    BY <2>1, <2>11, <2>12
<1> QED
  BY <1>2, <1>3

\* unmark moves nothing.
LEMMA UnmarkStep ==
  ASSUME Ready(flux), held \in Int, NEW id \in Loans, NEW price \in Nat \ {0}, Unmark(id, price)
  PROVE  Step(flux, flux', id, held' - held) /\ held' \in Int
<1> DEFINE d == flux.cdps[id]
           k == Tier(d)
           f1 == WithPrice(flux, d.collateral, price)
           g == UnmarkIfMarked(f1, id)
<1>1. Active(d) /\ flux' = g /\ held' = held
  BY DEF Unmark, Active
<1>2. StateOK(flux) /\ Accounted(flux) /\ id \in DOMAIN flux.cdps
  BY DEF Ready, Loans
<1>3. /\ k \in Tiers /\ k[1] \in DOMAIN flux.collaterals
      /\ k[1] = d.collateral /\ d.amount \in Int
  BY <1>1, <1>2, OpenTier
<1>4. Entry(flux, f1, k, 0, 0, 0) /\ SameLoans(flux, f1) /\ Accounted(f1)
  BY <1>2, <1>3, PricedStill
<1> HIDE DEF f1
<1>5. id \in DOMAIN f1.cdps /\ StillOpen(flux, f1, id) /\ f1.cdps[id] = d
  BY <1>2, <1>4, SameLoansOpen DEF SameLoans
<1>6. SameBooks(f1, g) /\ StillOpen(f1, g, id) /\ g.cdps[id].amount = f1.cdps[id].amount
  BY <1>4, <1>5, UnmarkOpen
<1> HIDE DEF g
<1>7. Entry(f1, g, k, 0, 0, 0)
  BY <1>3, <1>6, BooksEntry
<1>8. Entry(flux, g, k, 0, 0, 0)
  BY <1>4, <1>7, EntryEntry
<1>9. StillOpen(flux, g, id) /\ g.cdps[id].amount = d.amount + 0
  BY <1>3, <1>5, <1>6, StillOpenTwice
<1>10. StateOK(g)
  BY <1>1, <1>2, UnmarkActionOK
<1>11. Step(flux, g, id, 0)
  BY <1>1, <1>2, <1>8, <1>9, <1>10, EntryIsEnds, StillOpenStep
<1>12. held' - held = 0
  BY <1>1
<1> QED
  BY <1>1, <1>11, <1>12

\* What is borrowed is a Decimal.
LEMMA BorrowedInt ==
  ASSUME NEW f, StateOK(f), NEW id \in DOMAIN f.cdps, NEW amount \in Int,
         NEW withInterest \in BOOLEAN, DebtMultiplier(f, Tier(f.cdps[id])) # 0
  PROVE  BorrowedFusd(f, id, amount, withInterest) \in Int
<1> DEFINE k == Tier(f.cdps[id])
<1>1. /\ PoolToRealDebt(f, k, BorrowedPool(f, id, amount, withInterest)) \in Int
      /\ PoolToRealDebt(f, k, BorrowFee(f, id, amount, withInterest)) \in Int
  BY FeeTyped, PoolToRealInt DEF StateOK
<1> QED
  BY <1>1 DEF BorrowedFusd

\* Unless the ratio is checked, the loan keeps its mark.
MarkKept(f, g, id, checkCr) ==
  ~checkCr => g.cdps[id].status = f.cdps[id].status /\ g.marked = f.marked

\* borrow_more pays out the new debt less its fee, and unmarks a loan whose ratio
\* it checks.
LEMMA BorrowEntry ==
  ASSUME NEW f, StateOK(f), Accounted(f), now \in Nat, NEW id \in DOMAIN f.cdps,
         Active(f.cdps[id]), NEW k, Tier(f.cdps[id]) = k, NEW amount \in Int,
         NEW withInterest \in BOOLEAN, NEW checkCr \in BOOLEAN, DebtMultiplier(f, k) # 0
  PROVE  LET g == Borrow(f, id, amount, withInterest, checkCr)
             fusd == BorrowedFusd(f, id, amount, withInterest)
         IN  /\ Entry(f, g, k, fusd, 0, 0) /\ StillOpen(f, g, id)
             /\ g.cdps[id].amount = f.cdps[id].amount /\ MarkKept(f, g, id, checkCr)
<1> DEFINE d == f.cdps[id]
           more == BorrowedPool(f, id, amount, withInterest)
           real == PoolToRealDebt(f, k, more)
           fee == PoolToRealDebt(f, k, BorrowFee(f, id, amount, withInterest))
           f1 == IF checkCr THEN UnmarkIfMarked(f, id) ELSE f
           pool == d.pool + more
           f2 == Relist(f1, id, d.interest, d.amount, pool)
           f3 == AddDebt(MintFusd(f2, k, more), k, real)
           g == PutUncharged(f3, d.collateral, fee)
<1>1. /\ ListedIn(f, id) /\ k \in Tiers /\ k[1] \in DOMAIN f.collaterals
      /\ k[1] = d.collateral
  BY OpenTier
<1>2. more \in Int /\ real \in Int /\ fee \in Int
  BY FeeTyped, PoolToRealInt DEF StateOK
<1>3. /\ Borrow(f, id, amount, withInterest, checkCr) = g
      /\ BorrowedFusd(f, id, amount, withInterest) = real - fee
  BY DEF Borrow, BorrowedFusd
<1> HIDE DEF more, pool
<1>4. /\ Entry(f, f1, k, 0, 0, 0) /\ SameDebts(f, f1) /\ StillOpen(f, f1, id)
      /\ ListedIn(f1, id) /\ InTier(f1, id, d.interest, k)
      /\ f1.cdps[id].amount = d.amount
      /\ ~checkCr => f1.cdps[id].status = d.status /\ f1.marked = f.marked
  <2>1. CASE checkCr
    <3>1. /\ SameBooks(f, f1) /\ StillOpen(f, f1, id) /\ f1.cdps[id].amount = d.amount
          /\ Tier(f1.cdps[id]) = Tier(d) /\ ListedIn(f1, id)
      BY <1>1, <2>1, UnmarkOpen
    <3> HIDE DEF f1
    <3>2. Entry(f, f1, k, 0, 0, 0) /\ SameDebts(f, f1)
      BY <1>1, <3>1, BooksEntry DEF Still
    <3>3. InTier(f1, id, d.interest, k)
      BY <3>1 DEF StillOpen, InTier
    <3> QED
      BY <2>1, <3>1, <3>2, <3>3
  <2>2. CASE ~checkCr
    <3>1. f1 = f
      BY <2>2
    <3> HIDE DEF f1
    <3>2. SameLoans(f, f1) /\ SameBooks(f, f1)
      BY <3>1 DEF SameLoans, SameBooks
    <3>3. Entry(f, f1, k, 0, 0, 0) /\ SameDebts(f, f1) /\ StillOpen(f, f1, id)
      BY <1>1, <3>2, BooksEntry, SameLoansOpen DEF Still
    <3>4. InTier(f1, id, d.interest, k) /\ ListedIn(f1, id)
      BY <1>1, <3>1 DEF InTier
    <3> QED
      BY <3>1, <3>3, <3>4
  <2> QED
    BY <2>1, <2>2
<1> HIDE DEF f1
<1>5. Accounted(f1) /\ id \in DOMAIN f1.cdps /\ DOMAIN f1.collaterals = DOMAIN f.collaterals
  BY <1>4 DEF Entry, VaultMoved, StillOpen, OthersKept
<1>6. /\ Entry(f1, f2, k, 0, 0, 0) /\ SameDebts(f1, f2) /\ StillOpen(f1, f2, id)
      /\ f2.cdps[id].amount = d.amount /\ f2.cdps[id].status = f1.cdps[id].status
      /\ f2.marked = f1.marked
  BY <1>4, <1>5, RelistOpen, SMTT(30)
<1> HIDE DEF f2
<1>7. real = PoolToRealDebt(f2, k, more)
  <2>1. SameDebts(f, f2)
    BY <1>4, <1>6 DEF SameDebts
  <2> QED
    BY <1>1, <2>1, MultiplierSame DEF PoolToRealDebt
<1> HIDE DEF real, fee
<1>8. Accounted(f2) /\ k[1] \in DOMAIN f2.collaterals
  BY <1>1, <1>5, <1>6 DEF Entry, VaultMoved
<1>9. Entry(f2, f3, k, real, 0, 0) /\ SameLoans(f2, f3)
  BY <1>1, <1>2, <1>7, <1>8, MintEntry
<1> HIDE DEF f3
<1>10. Accounted(f3) /\ k[1] \in DOMAIN f3.collaterals
  BY <1>8, <1>9 DEF Entry, VaultMoved
<1>11. Entry(f3, g, k, -fee, 0, 0) /\ SameLoans(f3, g)
  BY <1>1, <1>2, <1>10, CoinEntries
<1> HIDE DEF g
<1>12. Entry(f, f2, k, 0, 0, 0) /\ StillOpen(f, f2, id)
  BY <1>4, <1>6, EntryEntry, StillOpenTwice
<1>13. Entry(f, f3, k, real, 0, 0)
  BY <1>2, <1>9, <1>12, EntryEntry
<1>14. Entry(f, g, k, real - fee, 0, 0)
  BY <1>2, <1>11, <1>13, EntryEntry
<1>15. SameLoans(f2, g) /\ id \in DOMAIN f2.cdps
  BY <1>9, <1>11, <1>12 DEF SameLoans, StillOpen, OthersKept
<1>16. StillOpen(f2, g, id) /\ g.cdps[id] = f2.cdps[id] /\ g.marked = f2.marked
  BY <1>15, SameLoansOpen DEF SameLoans
<1>17. StillOpen(f, g, id)
  BY <1>12, <1>16, StillOpenTwice
<1>18. MarkKept(f, g, id, checkCr)
  <2>1. CASE checkCr
    BY <2>1 DEF MarkKept
  <2>2. CASE ~checkCr
    <3>1. f1.cdps[id].status = f.cdps[id].status /\ f1.marked = f.marked
      BY <1>4, <2>2
    <3> QED
      BY <1>6, <1>16, <3>1 DEF MarkKept
  <2> QED
    BY <2>1, <2>2
<1>19. g.cdps[id].amount = f.cdps[id].amount
  BY <1>6, <1>16
<1>20. Entry(f, g, k, BorrowedFusd(f, id, amount, withInterest), 0, 0)
  BY <1>3, <1>14
<1>21. Borrow(f, id, amount, withInterest, checkCr) = g
  BY <1>3
<1> QED
  BY <1>17, <1>18, <1>19, <1>20, <1>21

\* borrow_more, called by the owner.
LEMMA BorrowMoreStep ==
  ASSUME Ready(flux), now \in Nat, held \in Int, NEW id \in Loans,
         NEW amount \in ExtraMints, NEW price \in Nat \ {0}, BorrowMore(id, amount, price)
  PROVE  Step(flux, flux', id, held' - held) /\ held' \in Int
<1> DEFINE d == flux.cdps[id]
           k == Tier(d)
           f1 == WithPrice(flux, d.collateral, price)
           fusd == BorrowedFusd(f1, id, amount, TRUE)
           g == Borrow(f1, id, amount, TRUE, TRUE)
<1>1. /\ Active(f1.cdps[id]) /\ DebtMultiplier(f1, Tier(f1.cdps[id])) # 0
      /\ flux' = g /\ held' = held + fusd
  BY DEF BorrowMore, BorrowAllowed
<1>2. StateOK(flux) /\ Accounted(flux) /\ id \in DOMAIN flux.cdps
  BY DEF Ready, Loans
<1>3. StateOK(f1) /\ Kept(flux, f1)
  BY <1>2, PricedOK
<1>4. Active(d)
  BY <1>1, <1>3 DEF Kept
<1>5. /\ k \in Tiers /\ k[1] \in DOMAIN flux.collaterals
      /\ k[1] = d.collateral /\ d.amount \in Int
  BY <1>2, <1>4, OpenTier
<1>6. Entry(flux, f1, k, 0, 0, 0) /\ SameLoans(flux, f1) /\ Accounted(f1)
  BY <1>2, <1>5, PricedStill
<1> HIDE DEF f1
<1>7. /\ StillOpen(flux, f1, id) /\ id \in DOMAIN f1.cdps /\ f1.cdps[id] = d
      /\ amount \in Int /\ Active(f1.cdps[id]) /\ Tier(f1.cdps[id]) = k
      /\ DebtMultiplier(f1, k) # 0
  BY <1>1, <1>2, <1>6, SameLoansOpen, AmountAssumption DEF SameLoans
<1>8. /\ Entry(f1, g, k, fusd, 0, 0) /\ StillOpen(f1, g, id)
      /\ g.cdps[id].amount = f1.cdps[id].amount
  BY <1>3, <1>6, <1>7, BorrowEntry, ZenonT(40)
<1> fusd \in Int
  BY <1>3, <1>7, BorrowedInt
<1> HIDE DEF g, fusd
<1>9. Entry(flux, g, k, fusd, 0, 0) /\ StillOpen(flux, g, id)
  BY <1>6, <1>7, <1>8, EntryEntry, StillOpenTwice
<1>10. g.cdps[id].amount = d.amount + 0
  BY <1>5, <1>7, <1>8
<1>11. StateOK(g)
  BY <1>1, <1>2, BorrowMoreOK
<1>12. Step(flux, g, id, fusd)
  BY <1>2, <1>4, <1>8, <1>9, <1>10, <1>11, EntryIsEnds, StillOpenStep
<1>13. held' - held = fusd /\ held' \in Int
  BY <1>1, <1>8
<1> QED
  BY SMTT(30), <1>1, <1>12, <1>13

\* liquidate_cdp of a loan with a notice: it is marked, and the fee paid out.
LEMMA MarkStep ==
  ASSUME Ready(flux), now \in Nat, held \in Int, NEW id \in Loans, NEW price \in Nat \ {0},
         MarkForLiquidation(id, price)
  PROVE  /\ Step(flux, flux', id, held' - held) /\ held' \in Int
         /\ flux'.cdps # flux.cdps
<1> DEFINE d == flux.cdps[id]
           k == Tier(d)
           f1 == WithPrice(flux, d.collateral, price)
           until == now + flux.borrowers[d.borrower].notice
           f2 == WithMark(f1, id, until)
           fee == flux.params.noticeFee
           fusd == BorrowedFusd(f2, id, fee, FALSE)
           g == Borrow(f2, id, fee, FALSE, FALSE)
<1>1. /\ Active(f1.cdps[id]) /\ f1.cdps[id].borrower # Nobody
      /\ f1.borrowers[f1.cdps[id].borrower].notice # NoNotice
      /\ DebtMultiplier(f2, Tier(f2.cdps[id])) # 0
      /\ flux' = g /\ held' = held + fusd
  BY DEF MarkForLiquidation, CanLiquidate, HasNotice, BorrowAllowed, WithMark
<1>2. StateOK(flux) /\ Accounted(flux) /\ LoansRight(flux) /\ id \in DOMAIN flux.cdps
  BY DEF Ready, Loans
<1>3. StateOK(f1) /\ Kept(flux, f1)
  BY SMTT(30), <1>2, PricedOK
<1>4. Active(d) /\ d.borrower # Nobody /\ flux.borrowers[d.borrower].notice # NoNotice
  BY <1>1, <1>3 DEF Kept
<1>5. /\ k \in Tiers /\ k[1] \in DOMAIN flux.collaterals /\ k[1] = d.collateral
      /\ d.amount \in Int /\ d.borrower \in DOMAIN flux.borrowers
  BY <1>2, <1>4, OpenTier
<1>6. Entry(flux, f1, k, 0, 0, 0) /\ SameLoans(flux, f1) /\ Accounted(f1)
  BY <1>2, <1>5, PricedStill
<1> HIDE DEF f1
<1>7. id \in DOMAIN f1.cdps /\ f1.cdps[id] = d
  BY <1>2, <1>6 DEF SameLoans
<1>8. until \in Nat /\ fee \in Int
  <2>1. flux.borrowers[d.borrower].notice \in Nat
    BY <1>2, <1>4, <1>5 DEF StateOK, WellTyped, Borrower
  <2>2. fee \in Int
    BY <1>2 DEF StateOK, WellTyped, ProtocolParameters
  <2> QED
    BY <2>1, <2>2
<1> HIDE DEF until, fee
<1>9. StateOK(f2) /\ DOMAIN f2.cdps = DOMAIN f1.cdps
  BY <1>1, <1>3, <1>7, <1>8, MarkedOK
<1>10. DOMAIN d = CdpFields
  BY <1>2 DEF Accounted, Shaped
<1>11. /\ DOMAIN f2 = Fields /\ f2.collaterals = f1.collaterals
       /\ f2.circulating = f1.circulating /\ f2.tiers = f1.tiers /\ f2.ratios = f1.ratios
       /\ f2.borrowers = f1.borrowers /\ f2.cdpCounter = f1.cdpCounter
       /\ f2.marked = With(f1.marked, id, until)
       /\ OthersKept(f1, f2, id) /\ f2.cdps[id] = [d EXCEPT !.status = "Marked"]
  BY <1>6, <1>7 DEF WithMark, Accounted, Shaped, Fields, OthersKept
<1> HIDE DEF f2
<1>12. /\ f2.cdps[id].status = "Marked" /\ f2.cdps[id].amount = d.amount
       /\ f2.cdps[id].borrower = d.borrower /\ f2.cdps[id].interest = d.interest
       /\ f2.cdps[id].collateral = d.collateral
  BY <1>10, <1>11 DEF CdpFields
<1>13. Entry(f1, f2, k, 0, 0, 0)
  <2>1. Accounted(f2)
    <3>1. \A x \in DOMAIN f2.cdps : DOMAIN f2.cdps[x] = CdpFields
      BY <1>9 DEF StateOK, WellTyped, Cdp, CdpFields
    <3>2. \A b \in DOMAIN f2.borrowers : DOMAIN f2.borrowers[b] = BorrowerFields
      BY <1>6, <1>11 DEF Accounted, Shaped
    <3> QED
      BY <1>6, <1>11, <3>1, <3>2 DEF Accounted, Shaped, Tracked
  <2>2. SameBooks(f1, f2)
    BY <1>6, <1>11, <2>1 DEF SameBooks
  <2> QED
    BY <1>5, <2>2, BooksEntry
<1>14. Active(f2.cdps[id]) /\ Tier(f2.cdps[id]) = k /\ DebtMultiplier(f2, k) # 0
  BY <1>1, <1>12 DEF Active, Tier
<1>15. id \in DOMAIN f2.cdps /\ Accounted(f2)
  BY <1>7, <1>9, <1>13 DEF Entry
<1>16. /\ Entry(f2, g, k, fusd, 0, 0) /\ StillOpen(f2, g, id)
       /\ g.cdps[id].amount = f2.cdps[id].amount /\ MarkKept(f2, g, id, FALSE)
  BY <1>8, <1>9, <1>14, <1>15, BorrowEntry
<1> fusd \in Int
  BY <1>8, <1>9, <1>14, <1>15, BorrowedInt
<1> HIDE DEF g, fusd
<1>17. Entry(flux, f2, k, 0, 0, 0)
  BY <1>6, <1>13, EntryEntry
<1>18. Entry(flux, g, k, fusd, 0, 0)
  BY <1>16, <1>17, EntryEntry
<1>19. StateOK(g)
  BY <1>1, <1>2, MarkOK
<1>20. /\ g.cdps[id].collateral = d.collateral /\ g.cdps[id].interest = d.interest
       /\ g.cdps[id].borrower = d.borrower /\ g.cdps[id].amount = d.amount + 0
       /\ g.cdps[id].status = "Marked"
       /\ g.borrowers = flux.borrowers /\ g.cdpCounter = flux.cdpCounter
       /\ g.marked = With(flux.marked, id, until)
       /\ OthersKept(flux, g, id)
  BY <1>5, <1>6, <1>11, <1>12, <1>16 DEF StillOpen, OthersKept, SameLoans, MarkKept
<1>21. id \in DOMAIN g.cdps /\ SameBut(flux.cdps, g.cdps, id) /\ Active(g.cdps[id])
  BY <1>2, <1>20 DEF OthersKept, SameBut, Active
<1>22. AccountStep(flux, g, id, fusd)
  <2>1. Ends(flux, g, k, fusd, 0, 0)
    BY <1>18, EntryIsEnds
  <2> QED
    BY <1>2, <1>4, <1>16, <1>19, <1>20, <1>21, <2>1, OpenStep DEF Ready
<1>23. LoanStep(flux, g, id)
  <2>1. DOMAIN g.marked = DOMAIN flux.marked \cup {id}
    BY <1>20 DEF With
  <2>2. OtherLoansKept(flux, g, id)
    BY <1>2, <1>20, <1>21, <2>1 DEF OtherLoansKept, StateOK, WellTyped
  <2>3. LoanRight(flux, id)
    BY <1>2 DEF LoansRight
  <2>4. LoanRight(g, id)
    BY <1>20, <1>21, <2>1, <2>3 DEF LoanRight
  <2>5. Lawful(flux, id, d, g.cdps[id]) /\ LinkedWithin(flux, d, g.cdps[id])
    BY <1>4, <1>20 DEF Lawful, LinkedWithin
  <2> QED
    BY <1>2, <2>2, <2>4, <2>5 DEF LoanStep
<1>24. held' - held = fusd /\ held' \in Int
  BY <1>1, <1>16
<1>25. d.status # "Marked"
  <2>1. HasNotice(WithPrice(flux, d.collateral, price), id)
    BY Zenon DEF MarkForLiquidation
  <2>2. WithPrice(flux, d.collateral, price).cdps = flux.cdps
    BY DEF WithPrice
  <2> QED
    BY <2>1, <2>2 DEF HasNotice
<1>26. g.cdps # flux.cdps
  BY <1>20, <1>25
<1> QED
  BY <1>1, <1>22, <1>23, <1>24, <1>26 DEF Step

-----------------------------------------------------------------------------

\* After the price is stored, what held of the state still does.
LEMMA PricedReady ==
  ASSUME NEW f, Ready(f), NEW c \in DOMAIN f.collaterals, NEW price \in Nat \ {0}
  PROVE  LET g == WithPrice(f, c, price)
         IN  /\ Ready(g) /\ SameLoans(f, g) /\ g.ratios = f.ratios /\ g.tiers = f.tiers
             /\ g.params = f.params /\ DOMAIN g.collaterals = DOMAIN f.collaterals
<1> DEFINE g == WithPrice(f, c, price)
           k == <<c, Irredeemable>>
<1>1. k \in Tiers /\ k[1] = c
  BY DEF Ready, StateOK, WellTyped, Tiers, Interests
<1> HIDE DEF k
<1>2. k[1] \in DOMAIN f.collaterals /\ c = k[1] /\ StateOK(f) /\ Accounted(f)
  BY <1>1 DEF Ready
<1>3. /\ StateOK(g) /\ Accounted(g) /\ SameLoans(f, g)
      /\ g.ratios = f.ratios /\ g.tiers = f.tiers /\ g.params = f.params
      /\ DOMAIN g.collaterals = DOMAIN f.collaterals
      /\ EmptyTiers(g) = EmptyTiers(f)
  BY <1>1, <1>2, PricedStill
<1> HIDE DEF g
<1>4. LoansRight(g)
  BY <1>3 DEF Ready, LoansRight, LoanRight, SameLoans
<1> QED
  BY <1>3, <1>4 DEF Ready, g

\* A step after the price is stored is a step from before.
LEMMA StepFromPriced ==
  ASSUME NEW f, Ready(f), NEW c \in DOMAIN f.collaterals, NEW price \in Nat \ {0},
         NEW g, NEW id, NEW fusd \in Int, Step(WithPrice(f, c, price), g, id, fusd)
  PROVE  Step(f, g, id, fusd)
<1> DEFINE h == WithPrice(f, c, price)
           k == <<c, Irredeemable>>
<1>1. k \in Tiers /\ k[1] = c
  BY DEF Ready, StateOK, WellTyped, Tiers, Interests
<1> HIDE DEF k
<1>2. k[1] \in DOMAIN f.collaterals /\ c = k[1] /\ StateOK(f) /\ Accounted(f)
  BY <1>1 DEF Ready
<1>3. Entry(f, h, k, 0, 0, 0) /\ SameLoans(f, h) /\ h.ratios = f.ratios /\ h.tiers = f.tiers
  BY <1>1, <1>2, PricedStill
<1> HIDE DEF h
<1>4. AccountStep(h, g, id, fusd) /\ LoanStep(h, g, id)
  BY DEF Step, h
<1>5. \A x : x \in DOMAIN f.collaterals => InfoTyped(f.collaterals[x])
  BY <1>2 DEF Accounted, Shaped
<1>6. /\ DOMAIN h.collaterals = DOMAIN f.collaterals
      /\ \A x \in DOMAIN f.collaterals :
           /\ h.collaterals[x].amount = f.collaterals[x].amount
           /\ h.collaterals[x].vault = f.collaterals[x].vault
           /\ h.collaterals[x].leftovers = f.collaterals[x].leftovers
  BY <1>3, <1>5 DEF Entry, VaultMoved, InfoTyped
<1>7. Paid(f, g, fusd)
  <2>1. Unowed(f) \in Int /\ PaidOut(f) \in Int
    BY <1>2, PaidTyped DEF Accounted
  <2> QED
    BY <1>3, <1>4, <2>1 DEF Entry, AccountStep, Paid
<1>8. /\ \A x : OpenPart(h, id, x) = OpenPart(f, id, x)
      /\ \A x : EndedPart(h, id, x) = EndedPart(f, id, x)
      /\ \A l : TierPart(h, id, l) = TierPart(f, id, l)
      /\ \A l : Locked(h, l) = Locked(f, l)
  BY <1>3 DEF OpenPart, EndedPart, TierPart, Locked, SameLoans
<1>9. AccountStep(f, g, id, fusd)
  BY SMTT(30), <1>2, <1>3, <1>4, <1>6, <1>7, <1>8 DEF AccountStep, SameLoans
<1>10. LoanStep(f, g, id)
  BY <1>3, <1>4 DEF LoanStep, OtherLoansKept, Lawful, LinkedWithin, CanLink, SameLoans
<1> QED
  BY <1>9, <1>10 DEF Step

\* What liquidation leaves the owner is a Decimal.
LEMMA LiquidationLeftInt ==
  ASSUME NEW f, StateOK(f), NEW id \in DOMAIN f.cdps, f.cdps[id].pool # 0,
         Lcr(f, Tier(f.cdps[id])) # 0, CrPercentage(f, id) # 0
  PROVE  LET amount == f.cdps[id].amount
             worth == Div(amount, CrPercentage(f, id))
         IN  amount - Lesser(amount, Mul(f.params.liquidationFine, worth) + worth) \in Int
<1> DEFINE amount == f.cdps[id].amount
           worth == Div(amount, CrPercentage(f, id))
           fine == Mul(f.params.liquidationFine, worth)
<1>1. CrPercentage(f, id) \in Int /\ amount \in Int
  BY CrPercentageInt, LoanTyped
<1>2. worth \in Int
  BY <1>1, DivInt
<1>3. f.params.liquidationFine \in Int
  BY DEF StateOK, WellTyped, ProtocolParameters
<1> HIDE DEF worth, amount
<1>4. fine \in Int
  BY <1>2, <1>3, MulInt
<1> HIDE DEF fine
<1>5. amount - Lesser(amount, fine + worth) \in Int
  BY <1>1, <1>2, <1>4 DEF Lesser
<1> QED
  BY <1>5 DEF fine, worth, amount

\* liquidate_cdp, after a notice or without one, burns the debt, pays the caller
\* from the collateral and keeps the rest for the owner.
LEMMA LiquidateStep ==
  ASSUME Ready(flux), now \in Nat, held \in Int, NEW id \in Loans, NEW price \in Nat \ {0},
         Liquidate(id, price)
  PROVE  Step(flux, flux', id, held' - held) /\ held' \in Int
         /\ flux'.cdps[id].amount \in Int /\ flux'.cdps # flux.cdps
<1> DEFINE d == flux.cdps[id]
           c == d.collateral
           k == Tier(d)
           f == WithPrice(flux, c, price)
           debt == PoolToRealDebt(f, k, d.pool)
           worth == Div(d.amount, CrPercentage(f, id))
           payout == Lesser(d.amount, Mul(f.params.liquidationFine, worth) + worth)
           left == d.amount - payout
           f2 == IF d.status = "Marked" THEN UnlinkIfLinked(f, id) ELSE f
           f3 == RemoveDebt(UnmintFusd(f2, k, debt), k, debt)
           f4 == TakeCollateral(f3, k, d.amount)
           f5 == PutInLeftovers(f4, k[1], left)
           g == Delist(f5, id, "Liquidated", left)
<1>1. /\ CanLiquidate(f, id) /\ ~HasNotice(f, id)
      /\ Lcr(f, k) # 0 /\ CrPercentage(f, id) # 0
      /\ flux' = g /\ held' = held - debt
  BY DEF Liquidate, Tier
<1>2. /\ Ready(flux) /\ StateOK(flux) /\ Accounted(flux) /\ id \in DOMAIN flux.cdps
      /\ c \in DOMAIN flux.collaterals
  BY DEF Ready, Loans, StateOK, WellTyped
<1>3. Ready(f) /\ SameLoans(flux, f) /\ StateOK(f)
  BY <1>2, PricedReady DEF Ready
<1> HIDE DEF f
<1>4. id \in DOMAIN f.cdps /\ f.cdps[id] = d
  BY <1>2, <1>3 DEF SameLoans
<1>5. /\ Active(d) /\ d.pool # 0
      /\ d.status = "Marked" => now > f.marked[id]
      /\ d.status = "Healthy" =>
           d.borrower = Nobody \/ f.borrowers[d.borrower].notice = NoNotice
  BY <1>1, <1>4 DEF CanLiquidate, HasNotice
<1>6. /\ ListedIn(f, id) /\ k \in DOMAIN f.tiers /\ k \in Tiers
      /\ k[1] = c /\ k[1] \in DOMAIN f.collaterals /\ Accounted(f)
      /\ d.amount \in Int /\ d.pool \in Int
      /\ d.borrower \in DOMAIN f.borrowers \cup {Nobody}
  BY <1>3, <1>4, <1>5, OpenTier DEF Ready
<1>7. debt \in Int
  BY <1>3, <1>6, PoolToRealInt DEF StateOK
<1>8. left \in Int
  BY <1>1, <1>3, <1>4, <1>5, LiquidationLeftInt
<1> HIDE DEF debt, left
<1>9. /\ Entry(f, f2, k, 0, 0, 0) /\ OthersKept(f, f2, id)
      /\ f2.ratios = f.ratios /\ f2.tiers = f.tiers
      /\ f2.cdpCounter = f.cdpCounter /\ f2.marked = f.marked
      /\ f2.cdps[id].collateral = d.collateral /\ f2.cdps[id].interest = d.interest
      /\ f2.cdps[id].ratio = d.ratio
      /\ \/ LinksKept(f, f2, id) /\ f2.cdps[id].borrower = Nobody
         \/ f2.borrowers = f.borrowers /\ f2.cdps[id].borrower = d.borrower
  <2>1. CASE d.status = "Marked"
    <3>1. f2 = UnlinkIfLinked(f, id)
      BY <2>1
    <3>2. /\ SameBooks(f, f2) /\ LinksKept(f, f2, id)
          /\ f2.cdpCounter = f.cdpCounter /\ f2.marked = f.marked
          /\ OthersKept(f, f2, id) /\ Unlinked(f.cdps[id], f2.cdps[id])
      BY <1>4, <1>6, <3>1, UnlinkIfLinkedBooks
    <3> HIDE DEF f2
    <3>3. Entry(f, f2, k, 0, 0, 0)
      BY <1>6, <3>2, BooksEntry
    <3> QED
      BY <1>4, <3>2, <3>3 DEF SameBooks, Unlinked
  <2>2. CASE d.status # "Marked"
    <3>1. f2 = f
      BY <2>2
    <3> HIDE DEF f2
    <3>2. SameBooks(f, f2)
      BY <1>6, <3>1 DEF SameBooks
    <3>3. Entry(f, f2, k, 0, 0, 0)
      BY <1>6, <3>2, BooksEntry
    <3> QED
      BY <1>4, <3>1, <3>3 DEF OthersKept
  <2> QED
    BY <2>1, <2>2
<1> HIDE DEF f2
<1>10. Accounted(f2) /\ k \in DOMAIN f2.tiers /\ k[1] \in DOMAIN f2.collaterals
  BY <1>6, <1>9 DEF Entry, VaultMoved
<1>11. /\ Entry(f2, f3, k, -debt, 0, 0) /\ SameLoans(f2, f3) /\ f3.ratios = f2.ratios
       /\ DOMAIN f3.tiers = DOMAIN f2.tiers
  BY <1>7, <1>10, RepayEntry
<1> HIDE DEF f3
<1>12. Accounted(f3) /\ k \in DOMAIN f3.tiers /\ k[1] \in DOMAIN f3.collaterals
  BY <1>10, <1>11 DEF Entry, VaultMoved
<1>13. Entry(f3, f4, k, 0, -d.amount, 0) /\ SameLoans(f3, f4) /\ f4.ratios = f3.ratios
  BY SMTT(30), <1>6, <1>12, TakeEntry
<1> HIDE DEF f4
<1>14. Accounted(f4) /\ k[1] \in DOMAIN f4.collaterals
  BY <1>12, <1>13 DEF Entry, VaultMoved
<1>15. Entry(f4, f5, k, 0, 0, left) /\ SameLoans(f4, f5) /\ f5.ratios = f4.ratios
  BY <1>6, <1>8, <1>14, CoinEntries
<1> HIDE DEF f5
<1>16. Entry(f, f3, k, -debt, 0, 0)
  BY <1>7, <1>9, <1>11, EntryEntry
<1>17. Entry(f, f4, k, -debt, -d.amount, 0)
  BY <1>6, <1>7, <1>13, <1>16, EntryEntry
<1>18. Entry(f, f5, k, -debt, -d.amount, left)
  BY <1>6, <1>7, <1>8, <1>15, <1>17, EntryEntry
<1>19. /\ SameLoans(f2, f5) /\ f5.ratios = f.ratios /\ Accounted(f5)
  BY <1>9, <1>11, <1>13, <1>15 DEF SameLoans, Entry
<1>20. /\ ListedIn(f5, id) /\ Tier(f5.cdps[id]) = k
  BY <1>4, <1>6, <1>9, <1>19 DEF SameLoans, ListedIn, Tier, OthersKept
<1>21. /\ Ends(f5, g, k, 0, 0, 0)
       /\ OneLoan(f5, g, id, Ended(f5.cdps[id], "Liquidated", left))
       /\ EmptyTiers(g) \subseteq EmptyTiers(f5) \ {k}
  BY <1>19, <1>20, DelistEnds
<1> HIDE DEF g
<1>22. Ends(f, g, k, -debt, -d.amount, left)
  BY <1>6, <1>7, <1>8, <1>18, <1>21, EntryEnds
<1>23. DOMAIN f5.cdps[id] = CdpFields
  BY <1>19, <1>20 DEF Accounted, Shaped, ListedIn
<1>24. /\ g.cdps[id].status = "Liquidated" /\ g.cdps[id].pool = 0
       /\ g.cdps[id].amount = left
       /\ g.cdps[id].collateral = f5.cdps[id].collateral
       /\ g.cdps[id].borrower = f5.cdps[id].borrower
  BY <1>21, <1>23 DEF OneLoan, Ended, CdpFields
<1>25. /\ OthersKept(f, g, id) /\ g.cdpCounter = f.cdpCounter /\ g.marked = f.marked
       /\ g.cdps[id].collateral = d.collateral
       /\ \/ LinksKept(f, g, id) /\ g.cdps[id].borrower = Nobody
          \/ g.borrowers = f.borrowers /\ g.cdps[id].borrower = d.borrower
  BY <1>9, <1>19, <1>21, <1>24 DEF SameLoans, OneLoan, OthersKept, LinksKept
<1>26. /\ SameBut(f.cdps, g.cdps, id) /\ id \in DOMAIN g.cdps /\ ~Active(g.cdps[id])
  BY <1>4, <1>24, <1>25 DEF OthersKept, SameBut, Active
<1>27. StateOK(g)
  BY <1>1, <1>2, LiquidateOK
<1>28. k \notin EmptyTiers(g) /\ Ends(f, g, k, -debt, -d.amount, g.cdps[id].amount)
  BY <1>21, <1>22, <1>24
<1>29. AccountStep(f, g, id, -debt)
  BY <1>3, <1>4, <1>5, <1>6, <1>25, <1>26, <1>27, <1>28, EndStep DEF Ready
<1>30. LoanStep(f, g, id)
  BY <1>3, <1>4, <1>5, <1>24, <1>25, <1>26, EndedLoanStep DEF Ready, Active
<1>31. Step(flux, g, id, -debt)
  BY <1>2, <1>7, <1>29, <1>30, StepFromPriced DEF Step, f
<1>32. held' - held = -debt /\ held' \in Int
  BY <1>1, <1>7
<1>33. g.cdps[id].amount \in Int
  BY <1>8, <1>24
<1>34. f.cdps = flux.cdps
  BY DEF f, WithPrice
<1>35. g.cdps # flux.cdps
  BY <1>5, <1>26, <1>34 DEF Active
<1> QED
  BY SMTT(30), <1>1, <1>31, <1>32, <1>33, <1>35

-----------------------------------------------------------------------------

\* The redemption of one loan burns what is paid, and takes collateral from the
\* loan, which it leaves open or ends.
LEMMA RedeemStep ==
  ASSUME NEW f, Ready(f), now \in Nat, held \in Int, NEW id \in DOMAIN f.cdps,
         Active(f.cdps[id]), NEW payment \in Int, NEW share \in Int,
         RedeemLoan(f, id, payment, share)
  PROVE  Step(f, flux', id, held' - held) /\ held' \in Int
<1> DEFINE d == f.cdps[id]
           k == Tier(d)
           asked == RealToPoolDebt(f, k, payment)
           over == asked > d.pool
           part == IF over THEN ONE ELSE Div(asked, d.pool)
           paid == IF over THEN PoolToRealDebt(f, k, d.pool) ELSE payment
           pool == IF over THEN 0 ELSE d.pool - asked
           taken == CollateralTaken(f, id, part, share)
           amount == IF taken > d.amount THEN 0 ELSE d.amount - taken
           f1 == RemoveDebt(UnmintFusd(f, k, paid), k, paid)
           f2 == TakeCollateral(f1, k, d.amount)
           f3 == PutCollateral(f2, k, amount)
           f4 == Relist(f3, id, d.interest, amount, pool)
           f5 == CleanUpInterestInfo(f4, k)
           h3 == PutInLeftovers(f2, k[1], amount)
           h4 == UnlinkIfLinked(Delist(h3, id, "Redeemed", amount), id)
<1>1. /\ DebtMultiplier(f, k) # 0 /\ d.pool # 0 /\ Lcr(f, k) # 0 /\ CrPercentage(f, id) # 0
      /\ held' = held - paid /\ (flux' = f5 \/ flux' = h4)
  BY DEF RedeemLoan, Tier
<1>2. StateOK(f) /\ Accounted(f) /\ StateOK(flux')
  BY RedeemOK DEF Ready
<1>3. /\ ListedIn(f, id) /\ k \in DOMAIN f.tiers /\ k \in Tiers
      /\ k[1] = d.collateral /\ k[1] \in DOMAIN f.collaterals
      /\ d.amount \in Int /\ d.pool \in Int
      /\ d.borrower \in DOMAIN f.borrowers \cup {Nobody}
  BY <1>2, OpenTier
<1>4. asked \in Int
  BY <1>1, <1>2, RealToPoolInt DEF StateOK
<1> HIDE DEF asked
<1>5. part \in Int
  BY <1>1, <1>3, <1>4, DivInt, DecimalAssumption
<1>6. paid \in Int
  BY <1>2, <1>3, PoolToRealInt DEF StateOK
<1> HIDE DEF part, paid, pool
<1>7. amount \in Int
  <2>1. taken \in Int
    BY <1>1, <1>2, <1>5, TakenInt
  <2> HIDE DEF taken
  <2> QED
    BY <1>3, <2>1
<1> HIDE DEF amount
<1>8. /\ Entry(f, f1, k, -paid, 0, 0) /\ SameLoans(f, f1) /\ f1.ratios = f.ratios
      /\ DOMAIN f1.tiers = DOMAIN f.tiers
  BY SMTT(30), <1>2, <1>3, <1>6, RepayEntry
<1> HIDE DEF f1
<1>9. Accounted(f1) /\ k \in DOMAIN f1.tiers /\ k[1] \in DOMAIN f1.collaterals
  BY <1>3, <1>8 DEF Entry, VaultMoved
<1>10. Entry(f1, f2, k, 0, -d.amount, 0) /\ SameLoans(f1, f2) /\ f2.ratios = f1.ratios
  BY SMTT(30), <1>3, <1>9, TakeEntry
<1> HIDE DEF f2
<1>11. Accounted(f2) /\ k[1] \in DOMAIN f2.collaterals
  BY <1>9, <1>10 DEF Entry, VaultMoved
<1>12. Entry(f, f2, k, -paid, -d.amount, 0)
  BY <1>3, <1>6, <1>8, <1>10, EntryEntry
<1>13. SameLoans(f, f2) /\ f2.ratios = f.ratios
  BY <1>8, <1>10 DEF SameLoans
<1>14. held' - held = -paid /\ held' \in Int
  BY <1>1, <1>6
<1>15. CASE flux' = f5
  <2> DEFINE coll == -d.amount + amount
  <2>1. Entry(f2, f3, k, 0, amount, 0) /\ SameLoans(f2, f3) /\ f3.ratios = f2.ratios
    BY <1>3, <1>7, <1>11, PutEntry
  <2> HIDE DEF f3
  <2>2. Entry(f, f3, k, -paid, coll, 0)
    BY <1>3, <1>6, <1>7, <1>12, <2>1, EntryEntry
  <2>3. d.amount + coll = amount
    BY <1>3, <1>7
  <2> coll \in Int
    BY <1>3, <1>7
  <2> HIDE DEF coll
  <2>4. /\ Accounted(f3) /\ SameLoans(f, f3) /\ ListedIn(f3, id) /\ id \in DOMAIN f3.cdps
        /\ InTier(f3, id, d.interest, k)
    BY <1>3, <1>13, <2>1 DEF Entry, SameLoans, ListedIn, InTier
  <2>5. /\ Entry(f3, f4, k, 0, 0, 0) /\ StillOpen(f3, f4, id)
        /\ k \in DOMAIN f4.tiers /\ f4.cdps[id].amount = amount
    BY <2>4, RelistOpen
  <2> HIDE DEF f4
  <2>6. Entry(f, f4, k, -paid, coll, 0)
    BY <1>6, <2>2, <2>3, <2>5, EntryEntry
  <2>7. Ends(f4, f5, k, 0, 0, 0) /\ SameLoans(f4, f5)
    BY <2>5, CleanUpEnds DEF Entry
  <2> HIDE DEF f5
  <2>8. Ends(f, f5, k, -paid, coll, 0)
    BY <1>6, <2>6, <2>7, EntryEnds
  <2>9. StillOpen(f, f3, id) /\ id \in DOMAIN f4.cdps
    BY <2>4, <2>5, SameLoansOpen DEF StillOpen, OthersKept
  <2>10. StillOpen(f4, f5, id) /\ f5.cdps[id] = f4.cdps[id]
    BY <2>7, <2>9, SameLoansOpen
  <2>11. StillOpen(f, f5, id)
    BY <2>5, <2>9, <2>10, StillOpenTwice
  <2>12. f5.cdps[id].amount = d.amount + coll
    BY <2>3, <2>5, <2>10
  <2>13. Step(f, f5, id, -paid)
    BY <1>2, <1>6, <1>15, <2>3, <2>8, <2>11, <2>12, StillOpenStep
  <2> QED
    BY <1>6, <1>14, <1>15, <2>13
<1>16. CASE flux' = h4
  <2>1. Entry(f2, h3, k, 0, 0, amount) /\ SameLoans(f2, h3) /\ h3.ratios = f2.ratios
    BY <1>3, <1>7, <1>11, CoinEntries
  <2> HIDE DEF h3
  <2>2. Entry(f, h3, k, -paid, -d.amount, amount)
    BY <1>3, <1>6, <1>7, <1>12, <2>1, EntryEntry
  <2>3. /\ Accounted(h3) /\ SameLoans(f, h3) /\ ListedIn(h3, id) /\ id \in DOMAIN h3.cdps
        /\ h3.cdps[id] = d /\ h3.cdps[id].borrower \in DOMAIN h3.borrowers \cup {Nobody}
    BY <1>3, <1>13, <2>1 DEF Entry, SameLoans, ListedIn
  <2>4. /\ Ends(h3, h4, k, 0, 0, 0) /\ k \notin EmptyTiers(h4)
        /\ OthersKept(h3, h4, id) /\ LinksKept(h3, h4, id)
        /\ h4.cdpCounter = h3.cdpCounter /\ h4.marked = h3.marked
        /\ h4.cdps[id].borrower = Nobody /\ h4.cdps[id].status = "Redeemed"
        /\ h4.cdps[id].pool = 0 /\ h4.cdps[id].amount = amount
        /\ h4.cdps[id].collateral = d.collateral
    BY <2>3, DelistUnlinked
  <2> HIDE DEF h4
  <2>5. Ends(f, h4, k, -paid, -d.amount, h4.cdps[id].amount)
    BY <1>3, <1>6, <1>7, <2>2, <2>4, EntryEnds
  <2>6. /\ OthersKept(f, h4, id) /\ LinksKept(f, h4, id)
        /\ h4.cdpCounter = f.cdpCounter /\ h4.marked = f.marked
    BY <2>3, <2>4 DEF SameLoans, OthersKept, LinksKept
  <2>7. /\ SameBut(f.cdps, h4.cdps, id) /\ id \in DOMAIN h4.cdps /\ ~Active(h4.cdps[id])
    BY <2>4, <2>6 DEF OthersKept, SameBut, Active
  <2>8. StateOK(h4)
    BY <1>2, <1>16
  <2>9. AccountStep(f, h4, id, -paid)
    BY <1>2, <1>3, <2>4, <2>5, <2>7, <2>8, EndStep DEF Ready
  <2>10. LoanStep(f, h4, id)
    BY <1>2, <2>4, <2>6, <2>7, EndedLoanStep DEF Ready
  <2> QED
    BY <1>6, <1>14, <1>16, <2>9, <2>10 DEF Step
<1> QED
  BY SMTT(30), <1>1, <1>15, <1>16

\* Storing a price is a step of no loan.
LEMMA PricedStep ==
  ASSUME NEW f, Ready(f), NEW c \in DOMAIN f.collaterals, NEW price \in Nat \ {0}, NEW id
  PROVE  Step(f, WithPrice(f, c, price), id, 0)
<1> DEFINE g == WithPrice(f, c, price)
<1>1. /\ Ready(g) /\ SameLoans(f, g) /\ g.ratios = f.ratios /\ g.tiers = f.tiers
  BY PricedReady
<1> HIDE DEF g
<1>2. StateOK(f) /\ LoansRight(f)
  BY DEF Ready
<1>3. Step(g, g, id, 0)
  <2>1. Paid(g, g, 0)
    BY <1>1, PaidTyped DEF Ready, Accounted, Paid
  <2>2. AccountStep(g, g, id, 0)
    BY <1>1, <2>1, CoinStep DEF Ready
  <2>3. LoanStep(g, g, id)
    BY <1>1, NoLoanStep DEF Ready
  <2> QED
    BY <2>2, <2>3 DEF Step
<1> QED
  BY <1>3, StepFromPriced DEF g

\* redemption is a step of the one loan that it redeems, or of none if there is
\* no tier.
LEMMA RedemptionStep ==
  ASSUME Ready(flux), now \in Nat, held \in Int, NEW c \in Listed, NEW payment \in Nat,
         NEW share \in 0 .. ONE, NEW price \in Nat \ {0}, Redemption(c, payment, share, price)
  PROVE  (\E id : Step(flux, flux', id, held' - held)) /\ held' \in Int
<1> DEFINE f == WithPrice(flux, c, price)
<1>1. c \in DOMAIN flux.collaterals
  BY DEF Listed
<1>2. Ready(f) /\ SameLoans(flux, f)
  BY <1>1, PricedReady
<1>3. CASE flux' = f /\ held' = held
  <2>1. Step(flux, f, 0, 0)
    BY <1>1, PricedStep
  <2>2. held' - held = 0
    BY <1>3
  <2> QED
    BY <1>3, <2>1, <2>2
<1>4. ASSUME NEW i \in RatesInUse(f, c), NEW cr \in DOMAIN f.ratios[<<c, i>>],
             RedeemLoan(f, f.ratios[<<c, i>>][cr][1], payment, share)
      PROVE  (\E id : Step(flux, flux', id, held' - held)) /\ held' \in Int
  <2> DEFINE ids == f.ratios[<<c, i>>][cr]
             id == ids[1]
  <2> HIDE DEF f
  <2>1. <<c, i>> \in Tiers
    BY <1>2, <1>4 DEF Ready, RatesInUse, StateOK, WellTyped, Tiers
  <2>2. VectorOK(f, <<c, i>>, cr)
    BY SMTT(30), <1>2, <1>4, <2>1 DEF Ready, StateOK, VectorsOK
  <2>3. ids \in Seq(DOMAIN f.cdps) /\ 1 \in 1 .. Len(ids) /\ Active(f.cdps[ids[1]])
    BY <2>2, SMTT(30) DEF VectorOK
  <2>4. ids[1] \in DOMAIN f.cdps
    BY <2>3
  <2>5. payment \in Int /\ share \in Int
    BY AmountAssumption
  <2>6. Step(f, flux', id, held' - held) /\ held' \in Int
    BY <1>2, <1>4, <2>3, <2>4, <2>5, RedeemStep
  <2>7. Step(flux, flux', id, held' - held)
    BY <1>1, <2>6, StepFromPriced DEF f
  <2> QED
    BY <2>6, <2>7
<1> QED
  BY <1>3, <1>4 DEF Redemption

-----------------------------------------------------------------------------

\* Two NFTs agree on all that a change of links, marks or time leaves alone.
SameTerms(d, e) ==
  /\ e.collateral = d.collateral /\ e.interest = d.interest /\ e.amount = d.amount
  /\ e.pool = d.pool /\ e.ratio = d.ratio

\* A loan is linked to a borrower with room for it, or to nobody any more, and
\* keeps its mark or loses it.
LEMMA LinkLoanStep ==
  ASSUME NEW f, NEW g, NEW id \in DOMAIN f.cdps, StateOK(f), LoansRight(f), OthersKept(f, g, id),
         g.cdpCounter = f.cdpCounter, LinksKept(f, g, id),
         \/ /\ SameTerms(f.cdps[id], g.cdps[id]) /\ g.cdps[id].status = f.cdps[id].status
            /\ g.marked = f.marked
         \/ /\ Active(f.cdps[id]) /\ g.cdps[id].status = "Healthy"
            /\ g.marked = Without(f.marked, id),
         \/ g.cdps[id].borrower = Nobody
         \/ /\ g.cdps[id].borrower \in DOMAIN f.borrowers /\ CanLink(f, g.cdps[id].borrower)
            /\ \E e \in g.borrowers[g.cdps[id].borrower].coupled : e[1] = id
  PROVE  LoanStep(f, g, id)
<1> DEFINE d == f.cdps[id]
           e == g.cdps[id]
<1>1. /\ SameBut(f.cdps, g.cdps, id) /\ id \in DOMAIN g.cdps
      /\ f.cdpCounter <= g.cdpCounter
  BY DEF OthersKept, SameBut, StateOK, WellTyped
<1>2. DOMAIN g.marked = DOMAIN f.marked \/ DOMAIN g.marked = DOMAIN f.marked \ {id}
  BY DEF Without
<1>3. OtherLoansKept(f, g, id)
  BY <1>1, <1>2 DEF OtherLoansKept, LinksKept
<1>4. LoanRight(f, id)
  BY DEF LoansRight
<1>5. LoanRight(g, id) /\ Lawful(f, id, d, e)
  <2>1. CASE /\ SameTerms(d, e) /\ e.status = d.status /\ g.marked = f.marked
    BY <1>4, <2>1 DEF LoanRight, Lawful, SameTerms, Active
  <2>2. CASE /\ Active(d) /\ e.status = "Healthy" /\ g.marked = Without(f.marked, id)
    <3>1. id \notin DOMAIN g.marked
      BY <2>2 DEF Without
    <3>2. Active(e) /\ e.status # "Marked" /\ e.status # "Liquidated"
      BY <2>2 DEF Active
    <3> QED
      BY <2>2, <3>1, <3>2 DEF LoanRight, Lawful
  <2> QED
    BY SMTT(30), <2>1, <2>2
<1>6. LinkedWithin(f, d, e)
  BY DEF LinkedWithin
<1> QED
  BY <1>1, <1>3, <1>5, <1>6 DEF LoanStep

\* A change of links and marks is a step of no account.
LEMMA BooksStep ==
  ASSUME NEW f, NEW g, NEW id, StateOK(f), EmptyTiers(f) = {}, SameBooks(f, g),
         id \in DOMAIN f.cdps, OthersKept(f, g, id), SameTerms(f.cdps[id], g.cdps[id]),
         Active(f.cdps[id]) <=> Active(g.cdps[id])
  PROVE  AccountStep(f, g, id, 0)
<1>1. EmptyTiers(g) = {} /\ SameBut(f.cdps, g.cdps, id)
  BY DEF EmptyTiers, SameBooks, SameBut, OthersKept
<1>2. \A c \in DOMAIN f.collaterals : InfoTyped(f.collaterals[c])
  BY DEF SameBooks, Accounted, Shaped
<1>3. id \in DOMAIN g.cdps /\ Tier(g.cdps[id]) = Tier(f.cdps[id])
  BY DEF OthersKept, SameTerms, Tier
<1>4. /\ \A c : /\ OpenPart(g, id, c) = OpenPart(f, id, c)
                /\ EndedPart(g, id, c) = EndedPart(f, id, c)
      /\ \A k : TierPart(g, id, k) = TierPart(f, id, k)
  BY <1>3 DEF OpenPart, EndedPart, TierPart, SameTerms
<1>5. /\ \A c : /\ OpenPart(f, id, c) - OpenPart(f, id, c) = 0
                /\ EndedPart(f, id, c) - EndedPart(f, id, c) = 0
      /\ \A k : TierPart(f, id, k) - TierPart(f, id, k) = 0
  BY AmountsTyped
<1>6. ASSUME NEW k \in Tiers
      PROVE  Locked(g, k) = Locked(f, k) /\ Locked(f, k) \in Int
  BY LockedTyped DEF Locked, SameBooks, Accounted
<1>7. Paid(f, g, 0)
  <2>1. Unowed(f) \in Int /\ PaidOut(f) \in Int
    BY PaidTyped DEF SameBooks, Accounted
  <2> QED
    BY <2>1 DEF Paid, Unowed, PaidOut, Debts, Fees, SameBooks
<1> QED
  BY <1>1, <1>2, <1>4, <1>5, <1>6, <1>7 DEF AccountStep, InfoTyped, SameBooks

\* What tier l gains when n goes from tier old to tier new.
Gain(l, old, new, n) == (IF l = new THEN n ELSE 0) - (IF l = old THEN n ELSE 0)

\* From f to g, so much collateral goes from one tier to another of the same
\* vault, and no fUSD is paid out.
Moves(f, g, old, new, n) ==
  /\ Accounted(f) /\ Accounted(g) /\ Paid(f, g, 0)
  /\ VaultMoved(f, g, new[1], 0, 0)
  /\ \A l \in Tiers : Locked(g, l) = Locked(f, l) + Gain(l, old, new, n)
  /\ EmptyTiers(g) \subseteq EmptyTiers(f) \cup {old, new}

\* Out of the old tier and into the new one, after an entry of nothing.
LEMMA EntriesMove ==
  ASSUME NEW f, NEW g, NEW h, NEW m, NEW old, NEW new, old[1] = new[1], NEW n \in Int,
         Entry(f, g, new, 0, 0, 0), Entry(g, h, old, 0, -n, 0), Entry(h, m, new, 0, n, 0)
  PROVE  Moves(f, m, old, new, n)
<1>1. Paid(f, m, 0)
  <2>1. Unowed(f) \in Int /\ PaidOut(f) \in Int
    BY PaidTyped DEF Entry, Accounted
  <2> QED
    BY <2>1 DEF Entry, Paid
<1>2. \A x \in DOMAIN f.collaterals : InfoTyped(f.collaterals[x])
  BY DEF Entry, Accounted, Shaped
<1>3. VaultMoved(f, m, new[1], 0, 0)
  <2>1. VaultMoved(f, g, new[1], 0, 0) /\ VaultMoved(g, h, new[1], -n, 0)
        /\ VaultMoved(h, m, new[1], n, 0)
    BY DEF Entry
  <2> DEFINE c == new[1]
  <2> HIDE DEF c
  <2>2. VaultMoved(f, g, c, 0, 0) /\ VaultMoved(g, h, c, -n, 0) /\ VaultMoved(h, m, c, n, 0)
    BY <2>1 DEF c
  <2>3. VaultMoved(f, m, c, 0, 0)
    BY <1>2, <2>2 DEF VaultMoved, InfoTyped
  <2> QED
    BY <2>3 DEF c
<1>4. ASSUME NEW l \in Tiers
      PROVE  Locked(m, l) = Locked(f, l) + Gain(l, old, new, n)
  <2>1. Locked(f, l) \in Int
    BY LockedTyped DEF Entry, Accounted
  <2>2. Locked(g, l) = Locked(f, l)
    BY <2>1 DEF Entry, LockMoved
  <2>3. Locked(h, l) = IF l = old THEN Locked(f, l) + -n ELSE Locked(f, l)
    BY <2>2 DEF Entry, LockMoved
  <2>4. Locked(m, l) = IF l = new THEN Locked(h, l) + n ELSE Locked(h, l)
    BY DEF Entry, LockMoved
  <2> QED
    BY <2>1, <2>3, <2>4 DEF Gain
<1> QED
  BY <1>1, <1>3, <1>4 DEF Moves, Entry

\* A change that leaves the accounts alone, after a move.
LEMMA MovesStill ==
  ASSUME NEW f, NEW g, NEW h, NEW old, NEW new, NEW n, Moves(f, g, old, new, n), Still(g, h),
         EmptyTiers(h) \subseteq EmptyTiers(g) \cup {old, new}
  PROVE  Moves(f, h, old, new, n)
<1>1. Paid(f, h, 0)
  BY DEF Moves, Still, Paid, Unowed, PaidOut, Debts, Fees
<1>2. VaultMoved(f, h, new[1], 0, 0)
  BY DEF Moves, Still, VaultMoved
<1> QED
  BY <1>1, <1>2 DEF Moves, Still

\* The end or the beginning of the link in change_cdp_interest.
LEMMA RelinkedBooks ==
  ASSUME NEW f, Accounted(f), NEW id \in DOMAIN f.cdps, NEW i, NEW b,
         f.cdps[id].borrower \in DOMAIN f.borrowers \cup {Nobody},
         i = Irredeemable => b \in DOMAIN f.borrowers
  PROVE  LET g == Relinked(f, id, i, b)
         IN  /\ SameBooks(f, g) /\ LinksKept(f, g, id) /\ OthersKept(f, g, id)
             /\ g.cdpCounter = f.cdpCounter /\ g.marked = f.marked
             /\ SameTerms(f.cdps[id], g.cdps[id]) /\ g.cdps[id].status = f.cdps[id].status
             /\ g.cdps[id].borrower = IF i = Irredeemable THEN b ELSE Nobody
             /\ i = Irredeemable => \E e \in g.borrowers[b].coupled : e[1] = id
<1> DEFINE g == Relinked(f, id, i, b)
<1>1. CASE i = Irredeemable
  <2>1. g = LinkCdp(f, b, id)
    BY <1>1 DEF Relinked
  <2>2. DOMAIN f.cdps[id] = CdpFields
    BY DEF Accounted, Shaped
  <2> HIDE DEF g
  <2>3. /\ SameBooks(f, g) /\ g.cdpCounter = f.cdpCounter /\ g.marked = f.marked
        /\ OthersKept(f, g, id)
        /\ g.cdps[id] = [f.cdps[id] EXCEPT !.borrower = b]
        /\ LinksKept(f, g, id)
        /\ \E e \in g.borrowers[b].coupled : e[1] = id
    BY <1>1, <2>1, LinkBooks
  <2>4. SameTerms(f.cdps[id], g.cdps[id]) /\ g.cdps[id].status = f.cdps[id].status
        /\ g.cdps[id].borrower = b
    BY <2>2, <2>3 DEF CdpFields, SameTerms
  <2> QED
    BY <1>1, <2>3, <2>4 DEF g
<1>2. CASE i # Irredeemable
  <2>1. g = UnlinkIfLinked(f, id)
    BY <1>2 DEF Relinked
  <2> HIDE DEF g
  <2>2. /\ SameBooks(f, g) /\ LinksKept(f, g, id)
        /\ g.cdpCounter = f.cdpCounter /\ g.marked = f.marked
        /\ OthersKept(f, g, id) /\ Unlinked(f.cdps[id], g.cdps[id])
    BY <2>1, UnlinkIfLinkedBooks
  <2> QED
    BY <1>2, <2>2 DEF g, Unlinked, SameTerms
<1> QED
  BY <1>1, <1>2

\* The fee and the collateral of change_cdp_interest, entered.
LEMMA CollateralMovedEffect ==
  ASSUME NEW f, StateOK(f), Accounted(f), now \in Nat, NEW id \in DOMAIN f.cdps,
         Active(f.cdps[id]), NEW i \in Interests, NEW b,
         i = Irredeemable => b \in DOMAIN f.borrowers,
         DebtMultiplier(f, <<f.cdps[id].collateral, i>>) # 0
  PROVE  LET d == f.cdps[id]
             new == <<f.cdps[id].collateral, i>>
             g == CollateralMoved(f, id, i, b)
         IN  /\ Moves(f, g, Tier(d), new, d.amount)
             /\ Tier(d) \in DOMAIN g.tiers /\ new \in DOMAIN g.tiers
             /\ SameLoans(Relinked(f, id, i, b), g) /\ g.ratios = f.ratios
             /\ DOMAIN g.collaterals = DOMAIN f.collaterals
<1> DEFINE d == f.cdps[id]
           old == Tier(d)
           new == <<d.collateral, i>>
           fee == ChangeFee(f, id, i)
           real == PoolToRealDebt(f, new, fee)
           f1 == Relinked(f, id, i, b)
           m2 == AddDebt(MintFusd(f1, new, fee), new, real)
           h2 == PutUncharged(m2, new[1], real)
           f2 == IF fee = 0 THEN f1 ELSE h2
           f3 == TakeCollateral(f2, old, d.amount)
           g == PutCollateral(f3, new, d.amount)
<1>1. CollateralMoved(f, id, i, b) = g
  BY DEF CollateralMoved
<1>2. /\ old \in DOMAIN f.tiers /\ old \in Tiers /\ old[1] \in DOMAIN f.collaterals
      /\ old[1] = d.collateral /\ d.amount \in Int
      /\ d.borrower \in DOMAIN f.borrowers \cup {Nobody}
  BY OpenTier
<1>3. new \in Tiers /\ new[1] = old[1] /\ new[1] = d.collateral
  BY <1>2 DEF Tiers
<1>4. fee \in Int
  BY ChangedPoolInt
<1>5. real \in Int
  BY <1>4, PoolToRealInt DEF StateOK
<1>6. SameBooks(f, f1)
  BY <1>2, RelinkedBooks
<1> HIDE DEF f1, fee
<1>7. real = PoolToRealDebt(f1, new, fee)
  BY <1>6 DEF SameBooks, PoolToRealDebt, DebtMultiplier
<1> HIDE DEF real, new, old
<1>8. /\ Entry(f, f1, new, 0, 0, 0) /\ Accounted(f1) /\ new[1] \in DOMAIN f1.collaterals
      /\ f1.ratios = f.ratios /\ f1.tiers = f.tiers
  BY <1>2, <1>3, <1>6, BooksEntry DEF SameBooks
<1>9. /\ Entry(f, f2, new, 0, 0, 0) /\ SameLoans(f1, f2) /\ f2.ratios = f.ratios
      /\ DOMAIN f.tiers \subseteq DOMAIN f2.tiers
  <2>1. CASE fee = 0
    <3>1. f2 = f1
      BY <2>1
    <3> HIDE DEF f2
    <3> QED
      BY <1>8, <3>1 DEF SameLoans
  <2>2. CASE fee # 0
    <3>1. f2 = h2
      BY <2>2
    <3>2. /\ Entry(f1, m2, new, real, 0, 0) /\ SameLoans(f1, m2) /\ m2.ratios = f1.ratios
          /\ DOMAIN f1.tiers \subseteq DOMAIN m2.tiers
      BY <1>3, <1>5, <1>7, <1>8, MintEntry
    <3> HIDE DEF m2
    <3>3. Accounted(m2) /\ new[1] \in DOMAIN m2.collaterals
      BY <1>8, <3>2 DEF Entry, VaultMoved
    <3>4. /\ Entry(m2, h2, new, -real, 0, 0) /\ SameLoans(m2, h2)
          /\ h2.ratios = m2.ratios /\ h2.tiers = m2.tiers
      BY <1>3, <1>5, <3>3, CoinEntries
    <3> HIDE DEF f2, h2
    <3>5. Entry(f, m2, new, real, 0, 0)
      BY <1>5, <1>8, <3>2, EntryEntry
    <3>6. Entry(f, h2, new, real + -real, 0, 0)
      BY <1>5, <3>4, <3>5, EntryEntry
    <3>7. real + -real = 0
      BY <1>5
    <3>8. Entry(f, h2, new, 0, 0, 0)
      BY <3>6, <3>7
    <3> QED
      BY <1>8, <3>1, <3>2, <3>4, <3>8 DEF SameLoans
  <2> QED
    BY <2>1, <2>2
<1> HIDE DEF f2
<1>10. Accounted(f2) /\ old \in DOMAIN f2.tiers /\ old[1] \in DOMAIN f2.collaterals
  BY <1>2, <1>9 DEF Entry, VaultMoved
<1>11. /\ Entry(f2, f3, old, 0, -d.amount, 0) /\ SameLoans(f2, f3) /\ f3.ratios = f2.ratios
       /\ DOMAIN f3.tiers = DOMAIN f2.tiers
  BY SMTT(30), <1>2, <1>10, TakeEntry
<1> HIDE DEF f3
<1>12. Accounted(f3) /\ new[1] \in DOMAIN f3.collaterals
  BY <1>3, <1>10, <1>11 DEF Entry, VaultMoved
<1>13. /\ Entry(f3, g, new, 0, d.amount, 0) /\ SameLoans(f3, g) /\ g.ratios = f3.ratios
       /\ DOMAIN g.tiers = DOMAIN f3.tiers \cup {new}
  BY <1>2, <1>3, <1>12, PutEntry
<1> HIDE DEF g
<1>14. Moves(f, g, old, new, d.amount)
  BY <1>2, <1>3, <1>9, <1>11, <1>13, EntriesMove
<1>15. /\ old \in DOMAIN g.tiers /\ new \in DOMAIN g.tiers
       /\ SameLoans(f1, g) /\ g.ratios = f.ratios
       /\ DOMAIN g.collaterals = DOMAIN f.collaterals
  BY <1>9, <1>10, <1>11, <1>13, <1>14 DEF SameLoans, Moves, VaultMoved
<1> QED
  BY <1>1, <1>14, <1>15 DEF old, new, f1

\* change_cdp_interest: the loan's debt and collateral go to the new tier, and the
\* old one is dropped if it was the last loan there.
LEMMA ChangeStep ==
  ASSUME NEW f, Ready(f), now \in Nat, NEW id \in DOMAIN f.cdps, NEW i \in Interests,
         NEW b \in DOMAIN f.borrowers \cup {Nobody}, ChangeAllowed(f, id, i, b)
  PROVE  LET g == ChangeInterest(f, id, i, b)
         IN  /\ Step(f, g, id, 0) /\ StateOK(g)
             /\ OthersKept(f, g, id) /\ LinksKept(f, g, id)
             /\ g.cdpCounter = f.cdpCounter /\ g.marked = Without(f.marked, id)
             /\ g.cdps[id].status = "Healthy" /\ g.cdps[id].interest = i
             /\ g.cdps[id].borrower = IF i = Irredeemable THEN b ELSE Nobody
<1> DEFINE d == f.cdps[id]
           old == Tier(d)
           new == <<d.collateral, i>>
           pool == ChangedPool(f, id, i)
           debt == PoolToRealDebt(f, old, d.pool)
           f0 == Relinked(f, id, i, b)
           f1 == CollateralMoved(f, id, i, b)
           f2 == MoveFusdInterest(f1, old, new, debt)
           f3 == UnmarkIfMarked(f2, id)
           f4 == Relist(f3, id, i, d.amount, pool)
           e == [f4.cdps[id] EXCEPT !.lastChange = now]
           f5 == [f4 EXCEPT !.cdps[id] = e]
           f6 == CleanUpInterestInfo(f5, old)
<1>1. /\ d.status = "Healthy" /\ DebtMultiplier(f, new) # 0
      /\ i = Irredeemable => b \in DOMAIN f.borrowers /\ CanLink(f, b)
  BY DEF ChangeAllowed
<1>2. f6 = ChangeInterest(f, id, i, b)
  BY DEF ChangeInterest, InterestMoved
<1>3. StateOK(f) /\ Accounted(f) /\ LoansRight(f) /\ EmptyTiers(f) = {} /\ Active(d)
  BY <1>1 DEF Ready, Active
<1>4. /\ ListedIn(f, id) /\ old \in DOMAIN f.tiers /\ old \in Tiers
      /\ old[1] = d.collateral /\ old[1] \in DOMAIN f.collaterals /\ d.amount \in Int
      /\ d.borrower \in DOMAIN f.borrowers \cup {Nobody}
  BY <1>3, OpenTier
<1>5. new \in Tiers /\ new[1] = old[1]
  BY <1>4 DEF Tiers
<1>6. /\ SameBooks(f, f0) /\ LinksKept(f, f0, id) /\ OthersKept(f, f0, id)
      /\ f0.cdpCounter = f.cdpCounter /\ f0.marked = f.marked
      /\ SameTerms(d, f0.cdps[id])
      /\ f0.cdps[id].borrower = IF i = Irredeemable THEN b ELSE Nobody
      /\ i = Irredeemable => \E x \in f0.borrowers[b].coupled : x[1] = id
  BY <1>1, <1>3, <1>4, RelinkedBooks
<1>7. /\ Moves(f, f1, old, new, d.amount) /\ old \in DOMAIN f1.tiers /\ new \in DOMAIN f1.tiers
      /\ SameLoans(f0, f1) /\ f1.ratios = f.ratios
      /\ DOMAIN f1.collaterals = DOMAIN f.collaterals
  BY SMTT(30), <1>1, <1>3, CollateralMovedEffect
<1>8. StateOK(f6)
  BY <1>2, <1>3, ChangeInterestOK
<1> HIDE DEF pool, debt, f0, f1
<1>9. Accounted(f1) /\ old[1] \in DOMAIN f1.collaterals /\ new[1] \in DOMAIN f1.collaterals
  BY <1>4, <1>5, <1>7 DEF Moves
<1>10. /\ Accounted(f2) /\ Paid(f1, f2, 0) /\ VaultMoved(f1, f2, new[1], 0, 0)
       /\ \A l \in Tiers : Locked(f2, l) = Locked(f1, l)
       /\ EmptyTiers(f2) \subseteq EmptyTiers(f1) \cup {old, new}
       /\ SameLoans(f1, f2) /\ f2.ratios = f1.ratios /\ DOMAIN f2.tiers = DOMAIN f1.tiers
  BY <1>7, <1>9, MoveEntry
<1> HIDE DEF f2
<1>11. Moves(f, f2, old, new, d.amount)
  <2> DEFINE c == new[1]
  <2>1. Unowed(f) \in Int /\ PaidOut(f) \in Int /\ \A x \in DOMAIN f.collaterals : InfoTyped(f.collaterals[x])
    BY <1>3, PaidTyped DEF Accounted, Shaped
  <2>2. Paid(f, f2, 0)
    BY <1>7, <1>10, <2>1 DEF Paid, Moves
  <2>3. VaultMoved(f, f1, c, 0, 0) /\ VaultMoved(f1, f2, c, 0, 0)
    BY <1>7, <1>10 DEF Moves
  <2> HIDE DEF c
  <2>4. VaultMoved(f, f2, c, 0, 0)
    BY <2>1, <2>3 DEF VaultMoved, InfoTyped
  <2> QED
    BY <1>7, <1>10, <2>2, <2>4 DEF Moves, c
<1>12. /\ id \in DOMAIN f2.cdps /\ SameTerms(d, f2.cdps[id]) /\ ListedIn(f2, id)
       /\ Tier(f2.cdps[id]) = old /\ f2.cdps[id].collateral = d.collateral
       /\ f2.cdps[id] = f0.cdps[id]
  BY <1>4, <1>6, <1>7, <1>10 DEF SameLoans, OthersKept, SameTerms, ListedIn, Tier
<1>13. /\ SameBooks(f2, f3) /\ StillOpen(f2, f3, id)
       /\ f3.cdps[id].amount = f2.cdps[id].amount /\ f3.cdps[id].status = "Healthy"
       /\ f3.marked = Without(f2.marked, id)
       /\ Tier(f3.cdps[id]) = Tier(f2.cdps[id]) /\ ListedIn(f3, id)
  BY <1>10, <1>12, UnmarkOpen
<1> HIDE DEF f3
<1>14. Moves(f, f3, old, new, d.amount)
  BY <1>11, <1>13, BooksEntry, MovesStill
<1>15. /\ Accounted(f3) /\ id \in DOMAIN f3.cdps /\ f3.cdps[id].collateral = d.collateral
       /\ <<f3.cdps[id].collateral, i>> = new /\ old \in DOMAIN f3.tiers
       /\ DOMAIN f3.cdps[id] = CdpFields
  <2>1. Accounted(f3) /\ f3.tiers = f2.tiers
    BY <1>13 DEF SameBooks
  <2>2. id \in DOMAIN f3.cdps /\ f3.cdps[id].collateral = d.collateral
    BY <1>12, <1>13 DEF StillOpen, OthersKept
  <2> QED
    BY <1>7, <1>10, <2>1, <2>2 DEF Accounted, Shaped
<1>16. /\ Still(f3, f4) /\ OneLoan(f3, f4, id, Relisted(f3.cdps[id], i, d.amount, pool))
       /\ EmptyTiers(f4) \subseteq EmptyTiers(f3) \cup {Tier(f3.cdps[id])}
       /\ new \in DOMAIN f4.tiers
  <2>1. <<f3.cdps[id].collateral, i>> \in Tiers
    BY <1>5, <1>15
  <2> QED
    BY <1>13, <1>15, <2>1, RelistStill
<1>17. Moves(f, f4, old, new, d.amount)
  <2>1. EmptyTiers(f4) \subseteq EmptyTiers(f3) \cup {old, new}
    BY <1>12, <1>13, <1>16
  <2> HIDE DEF f4, new, old
  <2> QED
    BY <1>14, <1>16, <2>1, MovesStill
<1> HIDE DEF f4
<1>18. /\ f4.cdps[id].collateral = d.collateral /\ f4.cdps[id].interest = i
       /\ f4.cdps[id].amount = d.amount /\ f4.cdps[id].status = "Healthy"
       /\ f4.cdps[id].borrower = f3.cdps[id].borrower
       /\ DOMAIN f4.cdps[id] = CdpFields /\ id \in DOMAIN f4.cdps /\ Accounted(f4)
       /\ old \in DOMAIN f4.tiers
  BY <1>13, <1>15, <1>16 DEF OneLoan, OthersKept, Relisted, CdpFields, Still
<1>19. /\ DOMAIN e = CdpFields /\ e.collateral = d.collateral /\ e.interest = i
       /\ e.amount = d.amount /\ e.status = "Healthy" /\ e.borrower = f3.cdps[id].borrower
  BY <1>18 DEF CdpFields
<1> HIDE DEF e
<1>20. /\ Still(f4, f5) /\ EmptyTiers(f5) = EmptyTiers(f4) /\ OneLoan(f4, f5, id, e)
       /\ f5.tiers = f4.tiers
  BY <1>18, <1>19, CdpStill
<1> HIDE DEF f5
<1>21. Moves(f, f5, old, new, d.amount)
  BY <1>17, <1>20, MovesStill
<1>22. Accounted(f5) /\ old \in DOMAIN f5.tiers
  BY <1>18, <1>20 DEF Still
<1>23. /\ Ends(f5, f6, old, 0, 0, 0) /\ SameLoans(f5, f6)
       /\ EmptyTiers(f6) \subseteq EmptyTiers(f5) \ {old}
  BY <1>22, CleanUpEnds
<1> HIDE DEF f6
<1>24. /\ OthersKept(f, f6, id) /\ LinksKept(f, f6, id)
       /\ f6.cdpCounter = f.cdpCounter /\ f6.marked = Without(f.marked, id)
       /\ f6.cdps[id] = e /\ f6.borrowers = f0.borrowers
  BY <1>6, <1>7, <1>10, <1>13, <1>16, <1>20, <1>23, SMTT(30)
     DEF SameLoans, StillOpen, OneLoan, OthersKept, LinksKept
<1>25. /\ e.borrower = IF i = Irredeemable THEN b ELSE Nobody
       /\ Active(e) /\ Tier(e) = new
  BY SMTT(30), <1>6, <1>12, <1>13, <1>19 DEF StillOpen, Active, Tier
<1>26. LoanStep(f, f6, id)
  <2>1. \/ e.borrower = Nobody
        \/ /\ e.borrower \in DOMAIN f.borrowers /\ CanLink(f, e.borrower)
           /\ \E x \in f6.borrowers[e.borrower].coupled : x[1] = id
    BY <1>1, <1>6, <1>24, <1>25
  <2> QED
    BY <1>3, <1>19, <1>24, <2>1, LinkLoanStep
<1>27. AccountStep(f, f6, id, 0)
  <2>1. id \in DOMAIN f6.cdps /\ SameBut(f.cdps, f6.cdps, id)
    BY <1>24 DEF OthersKept, SameBut
  <2>2. EmptyTiers(f6) = {} /\ ~Dropped(f6, new)
    <3>1. EmptyTiers(f6) \subseteq {new}
      BY <1>3, <1>21, <1>23 DEF Moves
    <3> QED
      BY <1>8, <1>24, <1>25, <2>1, <3>1, OpenFills
  <2>3. \A x \in DOMAIN f.collaterals : InfoTyped(f.collaterals[x])
    BY <1>3 DEF Accounted, Shaped
  <2>4. Unowed(f) \in Int /\ PaidOut(f) \in Int
    BY <1>3, PaidTyped DEF Accounted
  <2>5. Paid(f, f6, 0)
    BY <1>21, <1>23, <2>4 DEF Paid, Moves, Ends
  <2>6. /\ \A c : OpenPart(f6, id, c) = OpenPart(f, id, c) /\ OpenPart(f, id, c) \in Int
        /\ \A c : EndedPart(f6, id, c) = 0 /\ EndedPart(f, id, c) = 0
        /\ \A l : TierPart(f, id, l) = IF l = old THEN d.amount ELSE 0
        /\ \A l : TierPart(f6, id, l) = IF l = new THEN d.amount ELSE 0
    BY <1>3, <1>4, <1>19, <1>24, <1>25, <2>1 DEF OpenPart, EndedPart, TierPart
  <2>7. ASSUME NEW x \in DOMAIN f.collaterals
        PROVE  LET by == OpenPart(f6, id, x) - OpenPart(f, id, x)
                   left == EndedPart(f6, id, x) - EndedPart(f, id, x)
               IN  /\ f6.collaterals[x].amount = f.collaterals[x].amount + by
                   /\ f6.collaterals[x].vault = f.collaterals[x].vault + by
                   /\ f6.collaterals[x].leftovers = f.collaterals[x].leftovers + left
    <3>1. OpenPart(f6, id, x) - OpenPart(f, id, x) = 0
          /\ EndedPart(f6, id, x) - EndedPart(f, id, x) = 0
      BY <2>6
    <3> DEFINE c == new[1]
               c5 == old[1]
    <3>2. /\ VaultMoved(f, f5, c, 0, 0) /\ VaultMoved(f5, f6, c5, 0, 0)
      BY <1>21, <1>23 DEF Moves, Ends
    <3> HIDE DEF c, c5
    <3>3. /\ f6.collaterals[x].amount = f.collaterals[x].amount
          /\ f6.collaterals[x].vault = f.collaterals[x].vault
          /\ f6.collaterals[x].leftovers = f.collaterals[x].leftovers
      BY <2>3, <3>2 DEF VaultMoved, InfoTyped
    <3> QED
      BY <2>3, <3>1, <3>3 DEF InfoTyped
  <2>8. ASSUME NEW l \in Tiers
        PROVE  \/ Locked(f6, l) = Locked(f, l) + (TierPart(f6, id, l) - TierPart(f, id, l))
               \/ Dropped(f6, l)
    <3>1. Locked(f, l) \in Int /\ Locked(f5, l) \in Int
      BY <1>3, <1>22, LockedTyped DEF Accounted
    <3>2. Locked(f5, l) = Locked(f, l) + Gain(l, old, new, d.amount)
      BY <1>21 DEF Moves
    <3>3. \/ Locked(f6, l) = Locked(f5, l)
          \/ Dropped(f6, l)
      BY <1>23, <3>1 DEF Ends
    <3>4. Gain(l, old, new, d.amount) = TierPart(f6, id, l) - TierPart(f, id, l)
      BY SMTT(30), <2>6 DEF Gain
    <3> QED
      BY <3>2, <3>3, <3>4
  <2>9. DOMAIN f6.collaterals = DOMAIN f.collaterals /\ Accounted(f6)
    BY <1>21, <1>23 DEF Moves, Ends, VaultMoved
  <2> QED
    BY <1>3, <2>1, <2>2, <2>5, <2>7, <2>8, <2>9 DEF AccountStep
<1> QED
  BY <1>2, <1>8, <1>19, <1>24, <1>25, <1>26, <1>27 DEF Step

\* change_cdp_interest, called by the owner.
LEMMA ChangeCdpInterestStep ==
  ASSUME Ready(flux), now \in Nat, held \in Int, NEW id \in Loans, NEW i \in Interests,
         NEW b \in Registered \cup {Nobody}, NEW price \in Nat \ {0},
         ChangeCdpInterest(id, i, b, price)
  PROVE  /\ Step(flux, flux', id, held' - held) /\ held' \in Int
         /\ flux'.cdps = flux.cdps => SameRateMoves
<1> DEFINE c == flux.cdps[id].collateral
           f == WithPrice(flux, c, price)
<1>1. /\ ChangeAllowed(f, id, i, b) /\ flux' = ChangeInterest(f, id, i, b) /\ held' = held
  BY DEF ChangeCdpInterest
<1>2. id \in DOMAIN flux.cdps /\ c \in DOMAIN flux.collaterals
  BY DEF Ready, Loans, StateOK, WellTyped
<1>3. Ready(f) /\ SameLoans(flux, f)
  BY <1>2, PricedReady
<1> HIDE DEF f
<1>4. id \in DOMAIN f.cdps /\ b \in DOMAIN f.borrowers \cup {Nobody}
  BY <1>2, <1>3 DEF SameLoans, Registered
<1>5. Step(f, flux', id, 0) /\ flux'.cdps[id].interest = i
  BY <1>1, <1>3, <1>4, ChangeStep
<1>6. Step(flux, flux', id, 0)
  BY <1>2, <1>5, StepFromPriced DEF f
<1>7. held' - held = 0 /\ held' \in Int
  BY <1>1
<1>8. SameRateMoves \/ flux.cdps[id].interest # i
  BY DEF ChangeCdpInterest
<1> QED
  BY <1>5, <1>6, <1>7, <1>8

\* Borrowing a fee without a check of the ratio is a step of the loan.
LEMMA BorrowFeeStep ==
  ASSUME NEW f, Ready(f), now \in Nat, NEW id \in DOMAIN f.cdps, NEW amount \in Int,
         BorrowAllowed(f, id, amount, FALSE, FALSE)
  PROVE  LET g == Borrow(f, id, amount, FALSE, FALSE)
             fusd == BorrowedFusd(f, id, amount, FALSE)
         IN  /\ Step(f, g, id, fusd) /\ fusd \in Int /\ StateOK(g)
             /\ StillOpen(f, g, id) /\ MarkKept(f, g, id, FALSE)
<1> DEFINE d == f.cdps[id]
           k == Tier(d)
           g == Borrow(f, id, amount, FALSE, FALSE)
           fusd == BorrowedFusd(f, id, amount, FALSE)
<1>1. Active(f.cdps[id]) /\ Tier(f.cdps[id]) = k /\ DebtMultiplier(f, k) # 0
  BY DEF BorrowAllowed
<1> HIDE DEF k
<1>2. StateOK(f) /\ Accounted(f) /\ StateOK(g)
  BY BorrowOK DEF Ready
<1>3. /\ Entry(f, g, k, fusd, 0, 0) /\ StillOpen(f, g, id)
      /\ g.cdps[id].amount = d.amount /\ MarkKept(f, g, id, FALSE)
  BY <1>1, <1>2, BorrowEntry
<1>4. fusd \in Int /\ d.amount \in Int
  BY <1>1, <1>2, BorrowedInt, LoanTyped
<1> HIDE DEF g, fusd
<1>5. g.cdps[id].amount = d.amount + 0
  BY <1>3, <1>4
<1>6. Step(f, g, id, fusd)
  BY <1>1, <1>2, <1>3, <1>4, <1>5, EntryIsEnds, StillOpenStep
<1> QED
  BY <1>2, <1>3, <1>4, <1>6 DEF g, fusd

\* The accounts add up, and so much of the circulating fUSD has been paid out.
Sound(f, paid) == Ready(f) /\ Unowed(f) = 0 /\ PaidOut(f) = paid /\ Backed(f)

\* Steps keep them so.
LEMMA SoundStep ==
  ASSUME NEW f, NEW g, NEW id, NEW paid, NEW fusd, Sound(f, paid), StateOK(g),
         Step(f, g, id, fusd)
  PROVE  Sound(g, paid + fusd)
<1>1. StateOK(f) /\ LoansRight(f) /\ Backed(f) /\ AccountStep(f, g, id, fusd)
      /\ LoanStep(f, g, id)
  BY DEF Sound, Ready, Step
<1>2. Backed(g) /\ LoansRight(g)
  BY <1>1, BackedStep, LoanStepRight
<1> QED
  BY <1>1, <1>2 DEF Sound, Ready, AccountStep, Paid

\* tag_irredeemable unlinks the loan, moves it to the lowest rate and borrows the
\* fee: three steps of one loan, and in all a lawful one.
LEMMA TagStep ==
  ASSUME NEW paid, Sound(flux, paid), now \in Nat, held \in Int, paid \in Int,
         NEW id \in Loans, NEW i \in Rates, TagIrredeemable(id, i)
  PROVE  /\ Sound(flux', paid + (held' - held)) /\ held' \in Int
         /\ LoanStep(flux, flux', id)
<1> DEFINE d == flux.cdps[id]
           f1 == UnlinkIfLinked(flux, id)
           f2 == ChangeInterest(f1, id, i, Nobody)
           fee == flux.params.tagFee
           fusd == BorrowedFusd(f2, id, fee, FALSE)
           g == Borrow(f2, id, fee, FALSE, FALSE)
<1>1. /\ d.status = "Healthy" /\ ChangeAllowed(f1, id, i, Nobody)
      /\ BorrowAllowed(f2, id, fee, FALSE, FALSE)
      /\ flux' = g /\ held' = held + fusd
  BY DEF TagIrredeemable
<1>2. /\ Ready(flux) /\ StateOK(flux) /\ Accounted(flux) /\ LoansRight(flux)
      /\ EmptyTiers(flux) = {} /\ id \in DOMAIN flux.cdps /\ Active(d)
  BY <1>1 DEF Sound, Ready, Loans, Active
<1>3. d.borrower \in DOMAIN flux.borrowers \cup {Nobody} /\ fee \in Int
  BY <1>2 DEF StateOK, WellTyped, ProtocolParameters
<1>4. i \in Interests /\ i # Irredeemable
  BY RatesAssumption, DecimalAssumption DEF Interests, Irredeemable
<1>5. StateOK(f1)
  BY <1>2, UnlinkIfLinkedOK
<1>6. /\ SameBooks(flux, f1) /\ LinksKept(flux, f1, id)
      /\ f1.cdpCounter = flux.cdpCounter /\ f1.marked = flux.marked
      /\ OthersKept(flux, f1, id) /\ Unlinked(d, f1.cdps[id])
  BY <1>2, <1>3, UnlinkIfLinkedBooks
<1> HIDE DEF f1, fee
<1>7. SameTerms(d, f1.cdps[id]) /\ f1.cdps[id].status = d.status
      /\ f1.cdps[id].borrower = Nobody /\ id \in DOMAIN f1.cdps
      /\ (Active(d) <=> Active(f1.cdps[id]))
  BY <1>2, <1>6 DEF Unlinked, SameTerms, Active, OthersKept
<1>8. Step(flux, f1, id, 0)
  BY <1>2, <1>6, <1>7, BooksStep, LinkLoanStep DEF Step
<1>9. Sound(f1, paid + 0)
  BY <1>5, <1>8, SoundStep
<1>10. /\ Step(f1, f2, id, 0) /\ StateOK(f2)
       /\ OthersKept(f1, f2, id) /\ LinksKept(f1, f2, id)
       /\ f2.cdpCounter = f1.cdpCounter /\ f2.marked = Without(f1.marked, id)
       /\ f2.cdps[id].status = "Healthy" /\ f2.cdps[id].borrower = Nobody
  BY <1>1, <1>4, <1>7, <1>9, ChangeStep DEF Sound
<1> HIDE DEF f2
<1>11. Sound(f2, paid + 0 + 0) /\ id \in DOMAIN f2.cdps
  BY <1>7, <1>9, <1>10, SoundStep DEF OthersKept
<1>12. /\ Step(f2, g, id, fusd) /\ fusd \in Int /\ StateOK(g)
       /\ StillOpen(f2, g, id) /\ MarkKept(f2, g, id, FALSE)
  BY <1>1, <1>3, <1>11, BorrowFeeStep DEF Sound
<1> HIDE DEF g, fusd
<1>13. Sound(g, paid + 0 + 0 + fusd)
  BY <1>11, <1>12, SoundStep
<1>14. paid + 0 + 0 + fusd = paid + (held' - held) /\ held' \in Int
  BY <1>1, <1>12
<1>15. /\ OthersKept(flux, g, id) /\ LinksKept(flux, g, id) /\ g.cdpCounter = flux.cdpCounter
       /\ g.cdps[id].status = "Healthy" /\ g.marked = Without(flux.marked, id)
       /\ g.cdps[id].borrower = Nobody
  BY <1>6, <1>10, <1>12 DEF StillOpen, MarkKept, OthersKept, LinksKept
<1>16. LoanStep(flux, g, id)
  BY <1>2, <1>15, LinkLoanStep
<1> QED
  BY <1>1, <1>13, <1>14, <1>16

-----------------------------------------------------------------------------

\* The step of open_cdp: a loan appears in its tier.
LEMMA OpenedStep ==
  ASSUME NEW f, NEW g, StateOK(f), StateOK(g), NEW id, id \notin DOMAIN f.cdps,
         NEW fusd \in Int, NEW coll \in Int, NEW k,
         EmptyTiers(f) = {}, Entry(f, g, k, fusd, coll, 0), SameBut(f.cdps, g.cdps, id),
         id \in DOMAIN g.cdps, Active(g.cdps[id]), Tier(g.cdps[id]) = k,
         g.cdps[id].amount = coll
  PROVE  AccountStep(f, g, id, fusd)
<1>1. k[1] = g.cdps[id].collateral
  BY DEF Tier
<1>2. EmptyTiers(g) = {}
  BY OpenFills DEF Entry
<1>3. /\ \A c : OpenPart(f, id, c) = 0
      /\ \A c : OpenPart(g, id, c) = IF c = k[1] THEN coll ELSE 0
      /\ \A c : EndedPart(f, id, c) = 0 /\ EndedPart(g, id, c) = 0
      /\ \A l : TierPart(f, id, l) = 0
      /\ \A l : TierPart(g, id, l) = IF l = k THEN coll ELSE 0
  BY <1>1 DEF OpenPart, EndedPart, TierPart
<1>4. ASSUME NEW c \in DOMAIN f.collaterals
      PROVE  LET by == OpenPart(g, id, c) - OpenPart(f, id, c)
                 left == EndedPart(g, id, c) - EndedPart(f, id, c)
             IN  /\ g.collaterals[c].amount = f.collaterals[c].amount + by
                 /\ g.collaterals[c].vault = f.collaterals[c].vault + by
                 /\ g.collaterals[c].leftovers = f.collaterals[c].leftovers + left
  <2>1. InfoTyped(f.collaterals[c])
    BY DEF Entry, Accounted, Shaped
  <2>2. CASE c = k[1]
    BY <1>3, <2>1, <2>2 DEF Entry, VaultMoved, InfoTyped
  <2>3. CASE c # k[1]
    BY <1>3, <2>1, <2>3 DEF Entry, VaultMoved, InfoTyped
  <2> QED
    BY <2>2, <2>3
<1>5. ASSUME NEW l \in Tiers
      PROVE  Locked(g, l) = Locked(f, l) + (TierPart(g, id, l) - TierPart(f, id, l))
  <2>1. Locked(f, l) \in Int
    BY LockedTyped DEF Entry, Accounted
  <2>2. CASE l = k
    BY <1>3, <2>1, <2>2 DEF Entry, LockMoved
  <2>3. CASE l # k
    BY SMTT(30), <1>3, <2>1, <2>3 DEF Entry, LockMoved
  <2> QED
    BY <2>2, <2>3
<1> QED
  BY <1>2, <1>4, <1>5 DEF AccountStep, Entry, VaultMoved

\* The new loan is healthy, has no time of notice on record, and is linked to
\* nobody or to a borrower with room for it.
LEMMA OpenedLoanStep ==
  ASSUME NEW f, NEW g, StateOK(f), LoansRight(f), NEW id, id = f.cdpCounter + 1,
         SameBut(f.cdps, g.cdps, id), g.cdpCounter = id, g.marked = f.marked,
         LinksKept(f, g, id), g.cdps[id].status = "Healthy",
         \/ g.cdps[id].borrower = Nobody
         \/ /\ g.cdps[id].borrower \in DOMAIN f.borrowers /\ CanLink(f, g.cdps[id].borrower)
            /\ \E e \in g.borrowers[g.cdps[id].borrower].coupled : e[1] = id
  PROVE  LoanStep(f, g, id)
<1>1. /\ id \notin DOMAIN f.cdps /\ id \notin DOMAIN f.marked /\ f.cdpCounter <= id
  BY SMTT(30) DEF StateOK, WellTyped, LoansRight
<1>2. OtherLoansKept(f, g, id)
  BY SMTT(30), <1>1 DEF OtherLoansKept, LinksKept
<1>3. LoanRight(g, id)
  BY <1>1 DEF LoanRight, Active
<1> QED
  BY SMTT(30), <1>1, <1>2, <1>3 DEF LoanStep

\* What open_cdp does before any debt: it counts the loan, stores the price and
\* links the loan to the borrower, none of which is an entry.
LEMMA OpeningEntry ==
  ASSUME NEW f, StateOK(f), Accounted(f), NEW k \in Tiers, k[1] \in DOMAIN f.collaterals,
         NEW id \in Nat, NEW b \in DOMAIN f.borrowers \cup {Nobody}, NEW price \in Nat \ {0},
         DOMAIN f.cdps \subseteq 1 .. id
  PROVE  LET f1 == WithPrice([f EXCEPT !.cdpCounter = id], k[1], price)
             g == IF b = Nobody THEN f1 ELSE Couple(f1, b, id)
         IN  /\ StateOK(g) /\ Entry(f, g, k, 0, 0, 0)
             /\ g.cdps = f.cdps /\ g.cdpCounter = id /\ g.marked = f.marked
             /\ g.tiers = f.tiers
             /\ DOMAIN g.collaterals = DOMAIN f.collaterals /\ LinksKept(f, g, id)
             /\ b = Nobody \/ \E e \in g.borrowers[b].coupled : e[1] = id
<1> DEFINE f0 == [f EXCEPT !.cdpCounter = id]
           f1 == WithPrice(f0, k[1], price)
           g == IF b = Nobody THEN f1 ELSE Couple(f1, b, id)
<1>1. /\ DOMAIN f0 = Fields /\ f0.cdps = f.cdps /\ f0.cdpCounter = id
      /\ f0.borrowers = f.borrowers /\ f0.collaterals = f.collaterals /\ f0.tiers = f.tiers
      /\ f0.ratios = f.ratios /\ f0.marked = f.marked /\ f0.params = f.params
      /\ f0.circulating = f.circulating
  BY DEF StateOK, WellTyped, Fields
<1> HIDE DEF f0
<1>2. StateOK(f0)
  <2>1. WellTyped(f0)
    BY <1>1 DEF StateOK, WellTyped
  <2> QED
    BY <1>1, <2>1, SameIndexOK
<1>3. SameBooks(f, f0)
  <2>1. Accounted(f0)
    BY <1>1 DEF Accounted, Shaped, Tracked
  <2> QED
    BY <1>1, <2>1 DEF SameBooks
<1>4. Entry(f, f0, k, 0, 0, 0) /\ Accounted(f0) /\ k[1] \in DOMAIN f0.collaterals
  BY <1>1, <1>3, BooksEntry DEF SameBooks
<1>5. /\ StateOK(f1) /\ Entry(f0, f1, k, 0, 0, 0) /\ SameLoans(f0, f1)
      /\ f1.tiers = f0.tiers
  BY SMTT(30), <1>2, <1>4, PricedStill
<1> HIDE DEF f1
<1>6. /\ Accounted(f1) /\ Entry(f, f1, k, 0, 0, 0) /\ f1.cdps = f.cdps /\ f1.cdpCounter = id
      /\ f1.marked = f.marked /\ f1.borrowers = f.borrowers /\ f1.tiers = f.tiers
      /\ DOMAIN f1.collaterals = DOMAIN f.collaterals
  <2>1. Entry(f, f1, k, 0 + 0, 0 + 0, 0 + 0)
    BY <1>4, <1>5, EntryEntry
  <2>2. 0 + 0 = 0
    OBVIOUS
  <2> QED
    BY <1>1, <1>5, <2>1, <2>2 DEF Entry, SameLoans, VaultMoved
<1> DEFINE Opening ==
             /\ StateOK(g) /\ Entry(f, g, k, 0, 0, 0)
             /\ g.cdps = f.cdps /\ g.cdpCounter = id /\ g.marked = f.marked
             /\ g.tiers = f.tiers
             /\ DOMAIN g.collaterals = DOMAIN f.collaterals /\ LinksKept(f, g, id)
             /\ b = Nobody \/ \E e \in g.borrowers[b].coupled : e[1] = id
<1>7. ASSUME b = Nobody
      PROVE  Opening
  <2>1. g = f1
    BY <1>7
  <2> HIDE DEF g
  <2>2. LinksKept(f, g, id)
    BY <1>6, <2>1 DEF LinksKept
  <2> QED
    BY <1>5, <1>6, <1>7, <2>1, <2>2
<1>8. ASSUME b # Nobody
      PROVE  Opening
  <2>1. b \in DOMAIN f1.borrowers /\ g = Couple(f1, b, id)
    BY <1>6, <1>8
  <2>2. StateOK(g) /\ g.tiers = f1.tiers /\ g.collaterals = f1.collaterals
    <3>1. g.tiers = f1.tiers
      BY <2>1 DEF Couple
    <3> HIDE DEF g
    <3> QED
      BY <1>5, <2>1, <3>1, CoupleOK
  <2> HIDE DEF g
  <2>3. /\ SameBooks(f1, g) /\ g.cdps = f1.cdps /\ g.cdpCounter = f1.cdpCounter
        /\ g.marked = f1.marked /\ LinksKept(f1, g, id)
        /\ \E e \in g.borrowers[b].coupled : e[1] = id
    BY <1>6, <2>1, CoupleBooks
  <2>4. Entry(f1, g, k, 0, 0, 0)
    BY <2>3, BooksEntry
  <2>5. Entry(f, g, k, 0, 0, 0)
    <3>1. Entry(f, g, k, 0 + 0, 0 + 0, 0 + 0)
      BY <1>6, <2>4, EntryEntry
    <3>2. 0 + 0 = 0
      OBVIOUS
    <3> QED
      BY <3>1, <3>2
  <2>6. LinksKept(f, g, id)
    BY <1>6, <2>3 DEF LinksKept
  <2> QED
    BY <1>6, <2>2, <2>3, <2>5, <2>6
<1> QED
  BY <1>7, <1>8 DEF g, f1, f0

\* open_cdp pays out the new debt less its fee, and puts the deposit into the tier
\* in which it opens the loan.
LEMMA OpenCdpStep ==
  ASSUME Ready(flux), now \in Nat, held \in Int, NEW c \in Listed, NEW deposit \in Deposits,
         NEW mint \in Mints, NEW i \in Interests, NEW b \in Registered \cup {Nobody},
         NEW price \in Nat \ {0}, OpenCdp(c, deposit, mint, i, b, price), StateOK(flux')
  PROVE  /\ Step(flux, flux', flux.cdpCounter + 1, held' - held) /\ held' \in Int
         /\ flux'.cdps # flux.cdps
<1> DEFINE id == flux.cdpCounter + 1
           k == <<c, i>>
           f1 == WithPrice([flux EXCEPT !.cdpCounter = id], c, price)
           f2 == IF b = Nobody THEN f1 ELSE Couple(f1, b, id)
           base == RealToPoolDebt(f2, k, mint)
           fee == IF i = Irredeemable THEN 0 ELSE ExtraInterestDaysFee(f2, i, base)
           realFee == PoolToRealDebt(f2, k, fee)
           pool == base + fee
           minted == PoolToRealDebt(f2, k, pool)
           cr == Div(deposit, pool)
           g1 == AddDebt(MintFusd(f2, k, pool), k, minted)
           g2 == PutCollateral(g1, k, deposit)
           g3 == InsertCr(g2, k, cr, id)
           g4 == PutUncharged(g3, c, realFee)
           cdp == [collateral |-> c, amount |-> deposit, interest |-> i,
                   pool |-> pool, ratio |-> cr, status |-> "Healthy",
                   borrower |-> b, lastChange |-> now]
           g == [g4 EXCEPT !.cdps = With(@, id, cdp)]
<1>1. /\ b # Nobody => CanLink(flux, b)
      /\ DebtMultiplier(flux, k) # 0
      /\ flux' = g /\ held' = held + minted - realFee
  BY DEF OpenCdp
<1>2. c \in DOMAIN flux.collaterals /\ c \in Collaterals /\ k \in Tiers /\ k[1] = c
  BY DEF Ready, Listed, StateOK, WellTyped, Tiers
<1>3. deposit \in Int /\ mint \in Int
  BY AmountAssumption
<1>4. /\ StateOK(flux) /\ Accounted(flux) /\ LoansRight(flux) /\ EmptyTiers(flux) = {}
      /\ id \in Nat /\ id \notin DOMAIN flux.cdps /\ DOMAIN flux.cdps \subseteq 1 .. id
      /\ b \in DOMAIN flux.borrowers \cup {Nobody}
  BY DEF Ready, StateOK, WellTyped, Registered
<1>5. /\ StateOK(f2) /\ Entry(flux, f2, k, 0, 0, 0)
      /\ f2.cdps = flux.cdps /\ f2.cdpCounter = id /\ f2.marked = flux.marked
      /\ f2.tiers = flux.tiers
      /\ DOMAIN f2.collaterals = DOMAIN flux.collaterals /\ LinksKept(flux, f2, id)
      /\ b = Nobody \/ \E e \in f2.borrowers[b].coupled : e[1] = id
  <2> HIDE DEF id, k
  <2> QED
    BY <1>2, <1>4, OpeningEntry, SMTT(30)
<1> HIDE DEF k, f2
<1>6. base \in Int
  <2>1. DebtMultiplier(f2, k) # 0
    BY <1>1, <1>5 DEF DebtMultiplier
  <2> QED
    BY <1>3, <1>5, <2>1, RealToPoolInt DEF StateOK
<1> HIDE DEF base
<1>7. fee \in Int
  BY <1>5, <1>6, FeeInt DEF Interests, StateOK
<1> HIDE DEF fee
<1>8. realFee \in Int /\ pool \in Int /\ minted \in Int
  BY <1>5, <1>6, <1>7, PoolToRealInt DEF StateOK
<1>9. minted = PoolToRealDebt(f2, k, pool)
  OBVIOUS
<1> HIDE DEF realFee, pool, minted, cr
<1>10. Accounted(f2) /\ k[1] \in DOMAIN f2.collaterals
  BY <1>2, <1>5 DEF Entry
<1>11. Entry(f2, g1, k, minted, 0, 0) /\ SameLoans(f2, g1)
  BY <1>2, <1>8, <1>9, <1>10, MintEntry
<1> HIDE DEF g1
<1>12. Accounted(g1) /\ k[1] \in DOMAIN g1.collaterals
  BY <1>10, <1>11 DEF Entry, VaultMoved
<1>13. Entry(g1, g2, k, 0, deposit, 0) /\ SameLoans(g1, g2)
  BY <1>2, <1>3, <1>12, PutEntry
<1> HIDE DEF g2
<1>14. Accounted(g2) /\ k[1] \in DOMAIN g2.collaterals
  BY <1>12, <1>13 DEF Entry, VaultMoved
<1>15. /\ Still(g2, g3) /\ SameLoans(g2, g3) /\ EmptyTiers(g3) \subseteq EmptyTiers(g2) \ {k}
  BY <1>2, <1>14, InsertCrStill
<1> HIDE DEF g3
<1>16. Entry(g2, g3, k, 0, 0, 0)
  BY <1>2, <1>15, StillEntry
<1>17. Accounted(g3) /\ k[1] \in DOMAIN g3.collaterals
  BY <1>14, <1>16 DEF Entry, VaultMoved
<1>18. Entry(g3, g4, k, -realFee, 0, 0) /\ SameLoans(g3, g4)
  BY <1>2, <1>8, <1>17, CoinEntries
<1> HIDE DEF g4
<1>19. SameLoans(f2, g4) /\ Accounted(g4)
  BY <1>11, <1>13, <1>15, <1>18 DEF SameLoans, Entry
<1>20. /\ DOMAIN g = Fields /\ g.collaterals = g4.collaterals /\ g.circulating = g4.circulating
       /\ g.tiers = g4.tiers /\ g.ratios = g4.ratios /\ g.borrowers = g4.borrowers
       /\ g.marked = g4.marked /\ g.cdpCounter = g4.cdpCounter
       /\ g.cdps = With(g4.cdps, id, cdp)
  BY <1>19 DEF Accounted, Shaped, Fields
<1>21. /\ g.cdps[id] = cdp /\ id \in DOMAIN g.cdps /\ SameBut(flux.cdps, g.cdps, id)
       /\ DOMAIN g.cdps = DOMAIN g4.cdps \cup {id}
       /\ \A x \in DOMAIN g4.cdps : g.cdps[x] = g4.cdps[x]
  <2>1. g4.cdps = flux.cdps
    BY <1>5, <1>19 DEF SameLoans
  <2> HIDE DEF g, cdp, id
  <2> QED
    BY <1>4, <1>20, <2>1 DEF With, SameBut
<1>22. /\ DOMAIN cdp = CdpFields /\ Active(cdp) /\ Tier(cdp) = k /\ cdp.amount = deposit
       /\ cdp.status = "Healthy" /\ cdp.borrower = b
  BY DEF CdpFields, Active, Tier, k
<1> HIDE DEF g, cdp
<1>23. Still(g4, g) /\ EmptyTiers(g) = EmptyTiers(g4)
  <2>1. \A x \in DOMAIN g.cdps : DOMAIN g.cdps[x] = CdpFields
    BY <1>19, <1>21, <1>22 DEF Accounted, Shaped
  <2>2. \A x \in DOMAIN g.borrowers : DOMAIN g.borrowers[x] = BorrowerFields
    BY <1>19, <1>20 DEF Accounted, Shaped
  <2> QED
    BY <1>19, <1>20, <2>1, <2>2, LoansStill
<1>24. Entry(g4, g, k, 0, 0, 0)
  BY <1>2, <1>23, StillEntry
<1>25. Entry(flux, g, k, minted - realFee, deposit, 0)
  <2>1. Entry(flux, g1, k, 0 + minted, 0 + 0, 0 + 0)
    BY <1>5, <1>8, <1>11, EntryEntry
  <2>2. Entry(flux, g1, k, minted, 0, 0)
    <3>1. 0 + minted = minted /\ 0 + 0 = 0
      BY <1>8
    <3> QED
      BY <2>1, <3>1
  <2>3. Entry(flux, g2, k, minted + 0, 0 + deposit, 0 + 0)
    BY <1>3, <1>8, <1>13, <2>2, EntryEntry
  <2>4. Entry(flux, g2, k, minted, deposit, 0)
    <3>1. minted + 0 = minted /\ 0 + deposit = deposit /\ 0 + 0 = 0
      BY <1>3, <1>8
    <3> QED
      BY <2>3, <3>1
  <2>5. Entry(g2, g4, k, 0 + -realFee, 0 + 0, 0 + 0) /\ -realFee \in Int
    BY <1>8, <1>16, <1>18, EntryEntry
  <2>6. Entry(g2, g, k, 0 + -realFee + 0, 0 + 0 + 0, 0 + 0 + 0)
    BY <1>8, <1>24, <2>5, EntryEntry
  <2> DEFINE n == 0 + -realFee + 0
             z == 0 + 0 + 0
  <2>7. n \in Int /\ z \in Int
    BY <1>8
  <2>8. minted + n = minted - realFee /\ deposit + z = deposit /\ 0 + z = 0
    BY <1>3, <1>8
  <2>9. Entry(g2, g, k, n, z, z)
    BY <2>6
  <2> HIDE DEF n, z
  <2>10. Entry(flux, g, k, minted + n, deposit + z, 0 + z)
    BY <1>3, <1>8, <2>4, <2>7, <2>9, EntryEntry
  <2> QED
    BY <2>8, <2>10
<1>26. g.cdpCounter = id /\ g.marked = flux.marked /\ LinksKept(flux, g, id)
       /\ g.borrowers = f2.borrowers
  <2>1. g.cdpCounter = f2.cdpCounter /\ g.marked = f2.marked /\ g.borrowers = f2.borrowers
    BY <1>19, <1>20 DEF SameLoans
  <2> QED
    BY <1>5, <2>1 DEF LinksKept
<1> DEFINE fusd == minted - realFee
<1>27. fusd \in Int /\ held' - held = fusd /\ held' \in Int
  BY <1>1, <1>8
<1>28. Entry(flux, g, k, fusd, deposit, 0) /\ StateOK(g) /\ flux' = g
  BY <1>1, <1>25 DEF g, cdp
<1>29. id = flux.cdpCounter + 1
  OBVIOUS
<1> HIDE DEF fusd, id
<1>30. AccountStep(flux, g, id, fusd)
  BY <1>3, <1>4, <1>21, <1>22, <1>27, <1>28, OpenedStep
<1>31. \/ g.cdps[id].borrower = Nobody
       \/ /\ g.cdps[id].borrower \in DOMAIN flux.borrowers /\ CanLink(flux, g.cdps[id].borrower)
          /\ \E e \in g.borrowers[g.cdps[id].borrower].coupled : e[1] = id
  BY <1>1, <1>4, <1>5, <1>21, <1>22, <1>26
<1>32. LoanStep(flux, g, id)
  BY <1>4, <1>21, <1>22, <1>26, <1>29, <1>31, OpenedLoanStep
<1>33. g.cdps # flux.cdps
  BY <1>4, <1>21
<1> QED
  BY ZenonT(40), <1>27, <1>28, <1>29, <1>30, <1>32, <1>33 DEF Step

\* The price that change_collateral_price stores is a step of nothing.
LEMMA ChangePriceStep ==
  ASSUME Ready(flux), held \in Int, NEW c \in Listed, NEW price \in Nat \ {0},
         ChangeCollateralPrice(c, price), NEW id
  PROVE  Step(flux, flux', id, held' - held) /\ held' \in Int
<1>1. flux' = WithPrice(flux, c, price) /\ held' - held = 0 /\ held' \in Int /\ c \in DOMAIN flux.collaterals
  BY DEF ChangeCollateralPrice, Listed
<1>2. Step(flux, WithPrice(flux, c, price), id, 0)
  BY <1>1, PricedStep
<1> QED
  BY <1>1, <1>2

-----------------------------------------------------------------------------

\* The interest that charge_interest mints is a Decimal.
LEMMA InterestInt ==
  ASSUME StateOK(flux), Accounted(flux), now \in 0 .. MaxTime, NEW c, NEW range,
         NEW rate0 \in Rates
  PROVE  LET rate(k) == IF k[2] = Irredeemable THEN rate0 ELSE k[2]
             grown(k) == Mul(Growth[rate(k)][now - flux.tiers[k].last], flux.tiers[k].real)
         IN  SumFunction([k \in ChargedTiers(flux, c, range) |-> grown(k) - flux.tiers[k].real])
               \in Int
<1> DEFINE rate(k) == IF k[2] = Irredeemable THEN rate0 ELSE k[2]
           grown(k) == Mul(Growth[rate(k)][now - flux.tiers[k].last], flux.tiers[k].real)
           charged == ChargedTiers(flux, c, range)
           gains == [k \in charged |-> grown(k) - flux.tiers[k].real]
<1>1. ASSUME NEW k \in DOMAIN flux.tiers
      PROVE  grown(k) \in Int /\ flux.tiers[k].real \in Int
  <2>1. /\ flux.tiers[k] \in InterestInfo /\ flux.tiers[k].last <= now
        /\ k[2] \in Interests
    BY DEF StateOK, WellTyped, Tiers
  <2>2. rate(k) \in Rates
    BY <2>1 DEF Interests
  <2>3. now - flux.tiers[k].last \in 0 .. MaxTime /\ flux.tiers[k].real \in Int
    BY <2>1, TimeAssumption DEF InterestInfo
  <2>4. Growth[rate(k)][now - flux.tiers[k].last] \in Int
    BY <2>2, <2>3, GrowthAssumption
  <2> DEFINE growth == Growth[rate(k)][now - flux.tiers[k].last]
  <2>5. growth \in Int
    BY <2>4
  <2> HIDE DEF growth
  <2>6. Mul(growth, flux.tiers[k].real) \in Int
    BY <2>3, <2>5, MulInt
  <2> QED
    BY <2>3, <2>6 DEF growth
<1>2. charged \subseteq DOMAIN flux.tiers /\ IsFiniteSet(DOMAIN flux.tiers)
  BY DEF ChargedTiers, Accounted, Shaped
<1>3. IsFiniteSet(charged)
  BY <1>2, FS_Subset
<1> HIDE DEF grown, charged
<1>4. IntFunction(gains)
  BY <1>1, <1>2, <1>3 DEF IntFunction
<1>5. SumFunction(gains) \in Int
  BY <1>4, SumFunctionType
<1> QED
  BY <1>5 DEF grown, charged

\* charge_interest pays out the interest it mints and the fees it had put off.
LEMMA ChargeStep ==
  ASSUME Ready(flux), now \in 0 .. MaxTime, held \in Int, NEW c \in Listed, NEW range,
         NEW rate0 \in Rates, ChargeInterest(c, range, rate0), NEW id
  PROVE  Step(flux, flux', id, held' - held) /\ held' \in Int
<1> DEFINE rate(k) == IF k[2] = Irredeemable THEN rate0 ELSE k[2]
           grown(k) == Mul(Growth[rate(k)][now - flux.tiers[k].last], flux.tiers[k].real)
           charge(k) == [flux.tiers[k] EXCEPT !.last = now, !.real = grown(k)]
           charged == ChargedTiers(flux, c, range)
           tiers == [k \in DOMAIN flux.tiers |->
                       IF k \in charged THEN charge(k) ELSE flux.tiers[k]]
           mint == SumFunction([k \in charged |-> grown(k) - flux.tiers[k].real])
           fees == flux.collaterals[c].uncharged
           g == [flux EXCEPT !.tiers = tiers, !.circulating = @ + mint,
                             !.collaterals[c].debt = @ + mint,
                             !.collaterals[c].uncharged = 0]
<1>1. flux' = g /\ held' = held + mint + fees
  BY DEF ChargeInterest
<1>2. /\ StateOK(flux) /\ Accounted(flux) /\ LoansRight(flux) /\ EmptyTiers(flux) = {}
      /\ c \in DOMAIN flux.collaterals /\ InfoTyped(flux.collaterals[c])
  BY DEF Ready, Listed, Accounted, Shaped
<1>3. mint \in Int /\ fees \in Int
  BY <1>2, InterestInt DEF InfoTyped
<1>4. /\ DOMAIN tiers = DOMAIN flux.tiers
      /\ \A k \in DOMAIN tiers : /\ DOMAIN tiers[k] = DOMAIN flux.tiers[k]
                                 /\ tiers[k].coll = flux.tiers[k].coll
                                 /\ tiers[k].crs = flux.tiers[k].crs
  <2> HIDE DEF grown, charged
  <2>1. \A k \in DOMAIN flux.tiers : DOMAIN flux.tiers[k] = TierFields
    BY <1>2 DEF Accounted, Shaped
  <2> QED
    BY <2>1 DEF TierFields
<1> HIDE DEF tiers, mint
<1>5. /\ DOMAIN g = Fields /\ g.tiers = tiers /\ g.circulating = flux.circulating + mint
      /\ g.cdps = flux.cdps /\ g.cdpCounter = flux.cdpCounter /\ g.borrowers = flux.borrowers
      /\ g.ratios = flux.ratios /\ g.marked = flux.marked
      /\ DOMAIN g.collaterals = DOMAIN flux.collaterals
      /\ g.collaterals[c] = [flux.collaterals[c] EXCEPT !.debt = @ + mint, !.uncharged = 0]
      /\ \A x \in DOMAIN flux.collaterals \ {c} : g.collaterals[x] = flux.collaterals[x]
  BY <1>2 DEF Accounted, Shaped, Fields
<1> HIDE DEF g
<1>6. /\ DOMAIN g.collaterals[c] = InfoFields
      /\ g.collaterals[c].debt = flux.collaterals[c].debt + mint
      /\ g.collaterals[c].uncharged = 0
      /\ g.collaterals[c].amount = flux.collaterals[c].amount
      /\ g.collaterals[c].vault = flux.collaterals[c].vault
      /\ g.collaterals[c].leftovers = flux.collaterals[c].leftovers
  BY <1>2, <1>5 DEF InfoTyped, InfoFields
<1>7. Accounted(g)
  <2>1. \A x \in DOMAIN g.collaterals : InfoTyped(g.collaterals[x])
    <3>1. InfoTyped(g.collaterals[c])
      BY <1>2, <1>3, <1>6 DEF InfoTyped
    <3>2. \A x \in DOMAIN flux.collaterals \ {c} : InfoTyped(g.collaterals[x])
      BY <1>2, <1>5 DEF Accounted, Shaped
    <3> QED
      BY <1>5, <3>1, <3>2
  <2>2. g.circulating \in Int
    BY <1>2, <1>3, <1>5 DEF Accounted, Shaped
  <2> QED
    BY <1>2, <1>4, <1>5, <2>1, <2>2 DEF Accounted, Shaped, Tracked
<1>8. Paid(flux, g, mint - -fees)
  <2>1. 0 = flux.collaterals[c].uncharged + -fees /\ -fees \in Int
    BY <1>3
  <2>2. Shaped(flux) /\ Shaped(g)
    BY <1>2, <1>7 DEF Accounted
  <2>3. \A x \in DOMAIN flux.collaterals \ {c} :
          /\ g.collaterals[x].debt = flux.collaterals[x].debt
          /\ g.collaterals[x].uncharged = flux.collaterals[x].uncharged
    BY <1>5
  <2> DEFINE n == -fees
  <2>4. n \in Int /\ g.collaterals[c].uncharged = flux.collaterals[c].uncharged + n
    BY <1>6, <2>1
  <2> HIDE DEF n
  <2>5. Paid(flux, g, mint - n)
    BY <1>2, <1>3, <1>5, <1>6, <2>2, <2>3, <2>4, PaidOfOne
  <2> QED
    BY <2>5 DEF n
<1>9. mint - -fees = held' - held /\ held' \in Int
  BY <1>1, <1>3
<1>10. Paid(flux, g, held' - held)
  BY <1>8, <1>9
<1>11. AccountStep(flux, g, id, held' - held)
  <2>1. \A k \in DOMAIN flux.tiers : g.tiers[k].coll = flux.tiers[k].coll
    BY <1>4, <1>5
  <2>2. \A x \in DOMAIN flux.collaterals :
          /\ g.collaterals[x].amount = flux.collaterals[x].amount
          /\ g.collaterals[x].vault = flux.collaterals[x].vault
          /\ g.collaterals[x].leftovers = flux.collaterals[x].leftovers
    BY <1>5, <1>6
  <2>3. DOMAIN g.tiers = DOMAIN flux.tiers
    BY <1>4, <1>5
  <2> QED
    BY <1>2, <1>5, <1>7, <1>10, <2>1, <2>2, <2>3, CoinStep
<1>12. LoanStep(flux, g, id)
  BY SMTT(30), <1>2, <1>5, NoLoanStep
<1>13. flux' = g
  BY <1>1 DEF g, tiers, mint
<1> QED
  BY SMTT(30), <1>9, <1>11, <1>12, <1>13 DEF Step

-----------------------------------------------------------------------------

\* A call that only changes parameters, or terms of collaterals and borrowers, is
\* a step of nothing.
LEMMA QuietStep ==
  ASSUME NEW f, NEW g, NEW id, Ready(f), StateOK(g), g.cdps = f.cdps,
         g.cdpCounter = f.cdpCounter, g.marked = f.marked, g.circulating = f.circulating,
         g.tiers = f.tiers, g.ratios = f.ratios,
         DOMAIN g.collaterals = DOMAIN f.collaterals,
         \A c \in DOMAIN f.collaterals :
           /\ DOMAIN g.collaterals[c] = InfoFields
           /\ g.collaterals[c].debt = f.collaterals[c].debt
           /\ g.collaterals[c].uncharged = f.collaterals[c].uncharged
           /\ g.collaterals[c].amount = f.collaterals[c].amount
           /\ g.collaterals[c].vault = f.collaterals[c].vault
           /\ g.collaterals[c].leftovers = f.collaterals[c].leftovers,
         DOMAIN f.borrowers \subseteq DOMAIN g.borrowers,
         \A b \in DOMAIN f.borrowers : g.borrowers[b].coupled = f.borrowers[b].coupled
  PROVE  Step(f, g, id, 0)
<1>1. /\ StateOK(f) /\ Accounted(f) /\ LoansRight(f) /\ EmptyTiers(f) = {}
  BY DEF Ready
<1>2. Accounted(g)
  <2>1. DOMAIN g = Fields /\ \A b \in DOMAIN g.borrowers : DOMAIN g.borrowers[b] = BorrowerFields
    BY DEF StateOK, WellTyped, Borrower, BorrowerFields
  <2>2. \A c \in DOMAIN g.collaterals : InfoTyped(g.collaterals[c])
    BY <1>1 DEF Accounted, Shaped, InfoTyped
  <2> QED
    BY <1>1, <2>1, <2>2 DEF Accounted, Shaped, Tracked
<1>3. Paid(f, g, 0)
  <2>1. Debts(g) = Debts(f) /\ Fees(g) = Fees(f)
    BY DEF Debts, Fees
  <2>2. PaidOut(f) \in Int
    BY <1>1, PaidTyped DEF Accounted
  <2> QED
    BY <2>1, <2>2 DEF Paid, Unowed, PaidOut
<1>4. AccountStep(f, g, id, 0)
  BY <1>1, <1>2, <1>3, CoinStep
<1>5. LoanStep(f, g, id)
  BY <1>1, NoLoanStep
<1> QED
  BY <1>4, <1>5 DEF Step

\* edit_collateral, the privileged borrower's terms and the five set_ methods.
TermsCall ==
  \/ \E c \in Listed, mcr \in Mcrs, accepted \in Acceptances :
       EditCollateral(c, mcr, accepted)
  \/ \E b \in Borrowers, terms \in BorrowerTerms : CreatePrivilegedBorrower(b, terms)
  \/ \E b \in Registered, terms \in BorrowerTerms : EditPrivilegedBorrower(b, terms)
  \/ \E s \in StopSettings : SetStops(s)
  \/ \E length \in VectorLengths : SetMaxVectorLength(length)
  \/ \E amount \in MinimumMints : SetMinimumMint(amount)
  \/ \E s \in FineSettings : SetFines(s)
  \/ \E s \in InterestSettings : SetInterestParams(s)

\* They are steps of nothing.
LEMMA TermsStep ==
  ASSUME Ready(flux), held \in Int, TermsCall, StateOK(flux'), NEW id
  PROVE  Step(flux, flux', id, held' - held) /\ held' \in Int
<1>1. DOMAIN flux = Fields /\ \A c \in DOMAIN flux.collaterals : DOMAIN flux.collaterals[c] = InfoFields
  BY DEF Ready, Accounted, Shaped, InfoTyped
<1>2. held' = held
  BY Zenon DEF TermsCall, EditCollateral, CreatePrivilegedBorrower, EditPrivilegedBorrower, SetStops,
         SetMaxVectorLength, SetMinimumMint, SetFines, SetInterestParams
<1>3. ASSUME flux'.collaterals = flux.collaterals
      PROVE  \A c \in DOMAIN flux.collaterals :
               /\ DOMAIN flux'.collaterals[c] = InfoFields
               /\ flux'.collaterals[c].debt = flux.collaterals[c].debt
               /\ flux'.collaterals[c].uncharged = flux.collaterals[c].uncharged
               /\ flux'.collaterals[c].amount = flux.collaterals[c].amount
               /\ flux'.collaterals[c].vault = flux.collaterals[c].vault
               /\ flux'.collaterals[c].leftovers = flux.collaterals[c].leftovers
  BY <1>1, <1>3
<1>4. ASSUME NEW c \in Listed, NEW mcr \in Mcrs, NEW accepted \in Acceptances,
             EditCollateral(c, mcr, accepted)
      PROVE  Step(flux, flux', id, 0)
  <2>1. /\ flux'.cdps = flux.cdps /\ flux'.cdpCounter = flux.cdpCounter
        /\ flux'.marked = flux.marked /\ flux'.circulating = flux.circulating
        /\ flux'.tiers = flux.tiers /\ flux'.ratios = flux.ratios
        /\ flux'.borrowers = flux.borrowers
        /\ DOMAIN flux'.collaterals = DOMAIN flux.collaterals
        /\ flux'.collaterals[c] = [flux.collaterals[c] EXCEPT !.mcr = mcr, !.accepted = accepted]
        /\ \A x \in DOMAIN flux.collaterals \ {c} : flux'.collaterals[x] = flux.collaterals[x]
    BY <1>1, <1>4 DEF EditCollateral, Fields, Listed
  <2>2. \A x \in DOMAIN flux.collaterals :
          /\ DOMAIN flux'.collaterals[x] = InfoFields
          /\ flux'.collaterals[x].debt = flux.collaterals[x].debt
          /\ flux'.collaterals[x].uncharged = flux.collaterals[x].uncharged
          /\ flux'.collaterals[x].amount = flux.collaterals[x].amount
          /\ flux'.collaterals[x].vault = flux.collaterals[x].vault
          /\ flux'.collaterals[x].leftovers = flux.collaterals[x].leftovers
    <3>1. c \in DOMAIN flux.collaterals
      BY DEF Listed
    <3>2. DOMAIN flux.collaterals[c] = InfoFields
      BY <1>1, <3>1
    <3>3. /\ DOMAIN flux'.collaterals[c] = InfoFields
          /\ flux'.collaterals[c].debt = flux.collaterals[c].debt
          /\ flux'.collaterals[c].uncharged = flux.collaterals[c].uncharged
          /\ flux'.collaterals[c].amount = flux.collaterals[c].amount
          /\ flux'.collaterals[c].vault = flux.collaterals[c].vault
          /\ flux'.collaterals[c].leftovers = flux.collaterals[c].leftovers
      BY <2>1, <3>2 DEF InfoFields
    <3> QED
      BY <1>1, <2>1, <3>3
  <2> QED
    BY <2>1, <2>2, QuietStep
<1>5. ASSUME NEW b \in Borrowers, NEW terms \in BorrowerTerms, CreatePrivilegedBorrower(b, terms)
      PROVE  Step(flux, flux', id, 0)
  <2>1. /\ flux'.cdps = flux.cdps /\ flux'.cdpCounter = flux.cdpCounter
        /\ flux'.marked = flux.marked /\ flux'.circulating = flux.circulating
        /\ flux'.tiers = flux.tiers /\ flux'.ratios = flux.ratios
        /\ flux'.collaterals = flux.collaterals
        /\ DOMAIN flux'.borrowers = DOMAIN flux.borrowers \cup {b}
        /\ \A x \in DOMAIN flux.borrowers : flux'.borrowers[x] = flux.borrowers[x]
    BY <1>1, <1>5 DEF CreatePrivilegedBorrower, Fields, With
  <2> QED
    BY <1>3, <2>1, QuietStep
<1>6. ASSUME NEW b \in Registered, NEW terms \in BorrowerTerms, EditPrivilegedBorrower(b, terms)
      PROVE  Step(flux, flux', id, 0)
  <2>1. /\ flux'.cdps = flux.cdps /\ flux'.cdpCounter = flux.cdpCounter
        /\ flux'.marked = flux.marked /\ flux'.circulating = flux.circulating
        /\ flux'.tiers = flux.tiers /\ flux'.ratios = flux.ratios
        /\ flux'.collaterals = flux.collaterals
        /\ DOMAIN flux'.borrowers = DOMAIN flux.borrowers
        /\ flux'.borrowers[b] = [flux.borrowers[b] EXCEPT !.optOut = terms.optOut,
                                   !.notice = terms.notice, !.maxCoupled = terms.maxCoupled]
        /\ \A x \in DOMAIN flux.borrowers \ {b} : flux'.borrowers[x] = flux.borrowers[x]
    BY <1>1, <1>6 DEF EditPrivilegedBorrower, Fields, Registered
  <2>2. \A x \in DOMAIN flux.borrowers : DOMAIN flux.borrowers[x] = BorrowerFields
    BY DEF Ready, Accounted, Shaped
  <2>3. \A x \in DOMAIN flux.borrowers : flux'.borrowers[x].coupled = flux.borrowers[x].coupled
    BY <2>1, <2>2, ZenonT(40) DEF BorrowerFields
  <2> QED
    BY <1>3, <2>1, <2>3, QuietStep
<1>7. ASSUME NEW params, flux' = [flux EXCEPT !.params = params]
      PROVE  Step(flux, flux', id, 0)
  <2>1. /\ flux'.cdps = flux.cdps /\ flux'.cdpCounter = flux.cdpCounter
        /\ flux'.marked = flux.marked /\ flux'.circulating = flux.circulating
        /\ flux'.tiers = flux.tiers /\ flux'.ratios = flux.ratios
        /\ flux'.collaterals = flux.collaterals /\ flux'.borrowers = flux.borrowers
    BY <1>1, <1>7 DEF Fields
  <2> QED
    BY <1>3, <2>1, QuietStep
<1>8. (\E c \in Listed, mcr \in Mcrs, accepted \in Acceptances : EditCollateral(c, mcr, accepted))
        => Step(flux, flux', id, 0)
  BY <1>4
<1>9. (\E b \in Borrowers, terms \in BorrowerTerms : CreatePrivilegedBorrower(b, terms))
        => Step(flux, flux', id, 0)
  BY <1>5
<1>10. (\E b \in Registered, terms \in BorrowerTerms : EditPrivilegedBorrower(b, terms))
        => Step(flux, flux', id, 0)
  BY <1>6
<1>11. (\E s \in StopSettings : SetStops(s)) => Step(flux, flux', id, 0)
  BY <1>7 DEF SetStops
<1>12. (\E length \in VectorLengths : SetMaxVectorLength(length)) => Step(flux, flux', id, 0)
  BY <1>7 DEF SetMaxVectorLength
<1>13. (\E amount \in MinimumMints : SetMinimumMint(amount)) => Step(flux, flux', id, 0)
  BY <1>7 DEF SetMinimumMint
<1>14. (\E s \in FineSettings : SetFines(s)) => Step(flux, flux', id, 0)
  BY <1>7 DEF SetFines
<1>15. (\E s \in InterestSettings : SetInterestParams(s)) => Step(flux, flux', id, 0)
  BY <1>7 DEF SetInterestParams
<1>16. Step(flux, flux', id, 0)
  BY <1>8, <1>9, <1>10, <1>11, <1>12, <1>13, <1>14, <1>15 DEF TermsCall
<1>17. held' - held = 0 /\ held' \in Int
  BY <1>2
<1> QED
  BY <1>16, <1>17

\* The proxy's link and unlink are steps of no account, and the borrower has room.
LEMMA LinkCallStep ==
  ASSUME Ready(flux), held \in Int, LinkCall
  PROVE  (\E id : Step(flux, flux', id, held' - held)) /\ held' \in Int
<1>1. PICK b \in Registered, id \in Loans :
        LinkCdpToPrivilegedBorrower(b, id) \/ UnlinkCdpFromPrivilegedBorrower(b, id)
  BY DEF LinkCall
<1>2. /\ b \in DOMAIN flux.borrowers /\ id \in DOMAIN flux.cdps
      /\ StateOK(flux) /\ Accounted(flux) /\ LoansRight(flux) /\ EmptyTiers(flux) = {}
      /\ DOMAIN flux.cdps[id] = CdpFields
  BY DEF Registered, Loans, Ready, Accounted, Shaped
<1>3. held' - held = 0 /\ held' \in Int
  BY <1>1 DEF LinkCdpToPrivilegedBorrower, UnlinkCdpFromPrivilegedBorrower
<1>4. ASSUME NEW x, SameBooks(flux, flux'), LinksKept(flux, flux', id),
             flux'.cdpCounter = flux.cdpCounter, flux'.marked = flux.marked,
             OthersKept(flux, flux', id),
             flux'.cdps[id] = [flux.cdps[id] EXCEPT !.borrower = x],
             \/ x = Nobody
             \/ /\ x \in DOMAIN flux.borrowers /\ CanLink(flux, x)
                /\ \E e \in flux'.borrowers[x].coupled : e[1] = id
      PROVE  Step(flux, flux', id, 0)
  <2>1. /\ SameTerms(flux.cdps[id], flux'.cdps[id])
        /\ flux'.cdps[id].status = flux.cdps[id].status /\ flux'.cdps[id].borrower = x
    BY <1>2, <1>4 DEF CdpFields, SameTerms
  <2>2. Active(flux.cdps[id]) <=> Active(flux'.cdps[id])
    BY <2>1 DEF Active
  <2>3. AccountStep(flux, flux', id, 0)
    BY <1>2, <1>4, <2>1, <2>2, BooksStep
  <2>4. \/ flux'.cdps[id].borrower = Nobody
        \/ /\ flux'.cdps[id].borrower \in DOMAIN flux.borrowers
           /\ CanLink(flux, flux'.cdps[id].borrower)
           /\ \E e \in flux'.borrowers[flux'.cdps[id].borrower].coupled : e[1] = id
    BY <1>4, <2>1
  <2>5. LoanStep(flux, flux', id)
    BY <1>2, <1>4, <2>1, <2>4, LinkLoanStep
  <2> QED
    BY <2>3, <2>5 DEF Step
<1>5. CASE LinkCdpToPrivilegedBorrower(b, id)
  <2>1. flux' = LinkCdp(flux, b, id) /\ CanLink(flux, b)
    BY <1>5 DEF LinkCdpToPrivilegedBorrower
  <2>2. /\ SameBooks(flux, flux') /\ LinksKept(flux, flux', id)
        /\ flux'.cdpCounter = flux.cdpCounter /\ flux'.marked = flux.marked
        /\ OthersKept(flux, flux', id)
        /\ flux'.cdps[id] = [flux.cdps[id] EXCEPT !.borrower = b]
        /\ \E e \in flux'.borrowers[b].coupled : e[1] = id
    BY <1>2, <2>1, LinkBooks
  <2> QED
    BY <1>2, <1>3, <1>4, <2>1, <2>2
<1>6. CASE UnlinkCdpFromPrivilegedBorrower(b, id)
  <2>1. flux' = UnlinkCdp(flux, b, id)
    BY <1>6 DEF UnlinkCdpFromPrivilegedBorrower
  <2>2. /\ SameBooks(flux, flux') /\ LinksKept(flux, flux', id)
        /\ flux'.cdpCounter = flux.cdpCounter /\ flux'.marked = flux.marked
        /\ OthersKept(flux, flux', id)
        /\ flux'.cdps[id] = [flux.cdps[id] EXCEPT !.borrower = Nobody]
    BY <1>2, <2>1, UnlinkBooks
  <2> QED
    BY <1>2, <1>3, <1>4, <2>2
<1> QED
  BY <1>1, <1>5, <1>6

\* burn_loan_receipt burns the NFT of an ended loan of which nothing is left.
LEMMA BurnReceiptStep ==
  ASSUME Ready(flux), held \in Int, NEW id \in Loans, BurnLoanReceipt(id), StateOK(flux')
  PROVE  Step(flux, flux', id, held' - held) /\ held' \in Int
<1>1. /\ ~Active(flux.cdps[id]) /\ flux.cdps[id].amount = 0
      /\ flux' = [flux EXCEPT !.cdps = Without(@, id)] /\ held' - held = 0 /\ held' \in Int
  BY DEF BurnLoanReceipt, Active
<1>2. /\ StateOK(flux) /\ Accounted(flux) /\ LoansRight(flux) /\ EmptyTiers(flux) = {}
      /\ DOMAIN flux = Fields
  BY DEF Ready, Accounted, Shaped
<1>3. /\ flux'.cdps = Without(flux.cdps, id) /\ flux'.cdpCounter = flux.cdpCounter
      /\ flux'.marked = flux.marked /\ flux'.circulating = flux.circulating
      /\ flux'.tiers = flux.tiers /\ flux'.ratios = flux.ratios
      /\ flux'.collaterals = flux.collaterals /\ flux'.borrowers = flux.borrowers
  BY <1>1, <1>2 DEF Fields
<1>4. /\ id \notin DOMAIN flux'.cdps /\ DOMAIN flux'.cdps = DOMAIN flux.cdps \ {id}
      /\ \A x \in DOMAIN flux'.cdps : flux'.cdps[x] = flux.cdps[x]
  BY <1>3 DEF Without
<1>5. SameBut(flux.cdps, flux'.cdps, id)
  BY <1>4 DEF SameBut
<1>6. Accounted(flux')
  <2>1. DOMAIN flux' = Fields
    BY DEF StateOK, WellTyped
  <2> QED
    BY <1>2, <1>3, <1>4, <2>1 DEF Accounted, Shaped, Tracked
<1>7. Paid(flux, flux', 0)
  <2>1. PaidOut(flux) \in Int
    BY <1>2, PaidTyped DEF Accounted
  <2> QED
    BY <1>3, <2>1 DEF Paid, Unowed, PaidOut, Debts, Fees
<1>8. /\ \A c : OpenPart(flux, id, c) = 0 /\ OpenPart(flux', id, c) = 0
      /\ \A c : EndedPart(flux, id, c) = 0 /\ EndedPart(flux', id, c) = 0
      /\ \A k : TierPart(flux, id, k) = 0 /\ TierPart(flux', id, k) = 0
  BY <1>1, <1>4 DEF OpenPart, EndedPart, TierPart
<1>9. /\ \A c \in DOMAIN flux.collaterals : InfoTyped(flux.collaterals[c])
      /\ \A k \in Tiers : Locked(flux, k) \in Int /\ Locked(flux', k) = Locked(flux, k)
  BY <1>2, <1>3, LockedTyped DEF Accounted, Shaped, Locked
<1>10. EmptyTiers(flux') = {}
  BY <1>2, <1>3 DEF EmptyTiers
<1>11. AccountStep(flux, flux', id, 0)
  BY <1>2, <1>3, <1>5, <1>6, <1>7, <1>8, <1>9, <1>10 DEF AccountStep, InfoTyped
<1>12. flux.cdpCounter <= flux'.cdpCounter
  BY <1>2, <1>3 DEF StateOK, WellTyped
<1>13. id \in DOMAIN flux'.marked => id \in DOMAIN flux.cdps \cup DOMAIN flux.marked
  BY <1>3
<1>14. LoanStep(flux, flux', id)
  BY <1>3, <1>4, <1>5, <1>12, <1>13 DEF LoanStep, OtherLoansKept
<1> QED
  BY <1>1, <1>11, <1>14 DEF Step

\* new_collateral opens an empty vault: nothing is owed, locked or left in it.
LEMMA NewCollateralSound ==
  ASSUME NEW paid, Sound(flux, paid), NEW c \in Collaterals, NEW mcr, NEW price,
         NewCollateral(c, mcr, price), StateOK(flux'), NEW id
  PROVE  /\ Sound(flux', paid) /\ LoanStep(flux, flux', id) /\ held' = held
<1> DEFINE info == [mcr |-> mcr, price |-> price, accepted |-> TRUE, debt |-> 0,
                    amount |-> 0, vault |-> 0, leftovers |-> 0, uncharged |-> 0]
<1>1. /\ StateOK(flux) /\ Accounted(flux) /\ LoansRight(flux) /\ EmptyTiers(flux) = {}
      /\ DOMAIN flux = Fields
  BY DEF Sound, Ready, Accounted, Shaped
<1>2. /\ c \notin DOMAIN flux.collaterals /\ held' = held
      /\ flux' = [flux EXCEPT !.collaterals = With(@, c, info)]
  BY DEF NewCollateral
<1>3. InfoTyped(info) /\ info.debt = 0 /\ info.uncharged = 0 /\ info.vault = 0
      /\ info.amount = 0 /\ info.leftovers = 0
  BY DEF InfoTyped, InfoFields
<1> HIDE DEF info
<1>4. /\ flux'.cdps = flux.cdps /\ flux'.cdpCounter = flux.cdpCounter
      /\ flux'.marked = flux.marked /\ flux'.circulating = flux.circulating
      /\ flux'.tiers = flux.tiers /\ flux'.ratios = flux.ratios
      /\ flux'.borrowers = flux.borrowers
      /\ DOMAIN flux'.collaterals = DOMAIN flux.collaterals \cup {c}
      /\ flux'.collaterals[c] = info
      /\ \A x \in DOMAIN flux.collaterals : flux'.collaterals[x] = flux.collaterals[x]
  BY <1>1, <1>2 DEF Fields, With
<1>5. Accounted(flux')
  <2>1. DOMAIN flux' = Fields
    BY DEF StateOK, WellTyped
  <2>2. IsFiniteSet(DOMAIN flux'.collaterals)
    BY <1>1, <1>4, FS_AddElement DEF Accounted, Shaped
  <2> QED
    BY <1>1, <1>3, <1>4, <2>1, <2>2 DEF Accounted, Shaped, Tracked
<1>6. /\ IntFunction(Debts(flux)) /\ IntFunction(Debts(flux'))
      /\ IntFunction(Fees(flux)) /\ IntFunction(Fees(flux'))
  BY <1>1, <1>5, PaidTyped DEF Accounted
<1>7. /\ SumFunction(Debts(flux')) = SumFunction(Debts(flux))
      /\ SumFunction(Fees(flux')) = SumFunction(Fees(flux))
  <2>1. SameBut(Debts(flux), Debts(flux'), c) /\ SameBut(Fees(flux), Fees(flux'), c)
    BY <1>4 DEF SameBut, Debts, Fees
  <2>2. /\ Term(Debts(flux), c) = 0 /\ Term(Debts(flux'), c) = 0
        /\ Term(Fees(flux), c) = 0 /\ Term(Fees(flux'), c) = 0
    BY <1>2, <1>3, <1>4 DEF Term, Debts, Fees
  <2>3. SumFunction(Debts(flux)) \in Int /\ SumFunction(Fees(flux)) \in Int
    BY <1>6, SumFunctionType
  <2>4. SumFunction(Debts(flux')) = SumFunction(Debts(flux)) - 0 + 0
    BY <1>6, <2>1, <2>2, SumChange
  <2>5. SumFunction(Fees(flux')) = SumFunction(Fees(flux)) - 0 + 0
    BY <1>6, <2>1, <2>2, SumChange
  <2> QED
    BY <2>3, <2>4, <2>5
<1>8. Unowed(flux') = 0 /\ PaidOut(flux') = paid
  BY <1>4, <1>7 DEF Sound, Unowed, PaidOut
<1>9. Backed(flux')
  <2>1. /\ \A x : OpenAmounts(flux', x) = OpenAmounts(flux, x)
        /\ \A x : EndedAmounts(flux', x) = EndedAmounts(flux, x)
        /\ \A k : TierAmounts(flux', k) = TierAmounts(flux, k)
        /\ \A k : Locked(flux', k) = Locked(flux, k)
    BY <1>4 DEF OpenAmounts, EndedAmounts, TierAmounts, Locked
  <2>2. \A x \in DOMAIN flux.cdps : flux.cdps[x].collateral # c
    BY <1>1, <1>2 DEF StateOK, WellTyped
  <2>3. DOMAIN OpenAmounts(flux, c) = {} /\ DOMAIN EndedAmounts(flux, c) = {}
    BY <2>2 DEF OpenAmounts, EndedAmounts
  <2>4. SumFunction(OpenAmounts(flux, c)) = 0 /\ SumFunction(EndedAmounts(flux, c)) = 0
    BY <2>3, SumEmpty DEF SumFunction
  <2>5. ASSUME NEW x \in DOMAIN flux'.collaterals
        PROVE  /\ flux'.collaterals[x].vault = flux'.collaterals[x].amount
               /\ flux'.collaterals[x].amount = SumFunction(OpenAmounts(flux', x))
               /\ flux'.collaterals[x].leftovers = SumFunction(EndedAmounts(flux', x))
    <3>1. CASE x = c
      BY <1>3, <1>4, <2>1, <2>4, <3>1
    <3>2. CASE x # c
      BY <1>4, <2>1, <3>2 DEF Sound, Backed
    <3> QED
      BY <3>1, <3>2
  <2>6. \A k \in Tiers : Locked(flux', k) = SumFunction(TierAmounts(flux', k))
    BY <2>1 DEF Sound, Backed
  <2> QED
    BY <2>5, <2>6 DEF Backed
<1>10. LoanStep(flux, flux', id)
  BY <1>1, <1>4, NoLoanStep
<1>11. LoansRight(flux')
  BY <1>1, <1>10, LoanStepRight
<1>12. EmptyTiers(flux') = {}
  BY <1>1, <1>4 DEF EmptyTiers
<1> QED
  BY <1>2, <1>5, <1>8, <1>9, <1>10, <1>11, <1>12 DEF Sound, Ready

-----------------------------------------------------------------------------
(* The invariants of the accounts, and what no call may do to a loan.       *)

\* The inductive invariant of the accounts: the circulating fUSD that has been
\* paid out is what is held outside the component, but for what the owner minted
\* or burned freely.
AccountInv ==
  /\ IInv
  /\ held \in Int /\ unbacked \in Int
  /\ Sound(flux, held - unbacked)

\* What a call makes of the state: the accounts add up, and one loan changes.
CallRight ==
  /\ Sound(flux', held' - unbacked') /\ held' \in Int /\ unbacked' \in Int
  /\ \E id : LoanStep(flux, flux', id)

\* A step of one loan is such a call if it leaves the owner's fUSD alone.
LEMMA StepRight ==
  ASSUME AccountInv, unbacked' = unbacked, held' \in Int, StateOK(flux'),
         \E id : Step(flux, flux', id, held' - held)
  PROVE  CallRight
<1>1. PICK id : Step(flux, flux', id, held' - held)
  OBVIOUS
<1> DEFINE paid == held - unbacked
           fusd == held' - held
<1>2. paid + fusd = held' - unbacked' /\ unbacked' \in Int
  BY DEF AccountInv
<1>3. Sound(flux, paid) /\ Step(flux, flux', id, fusd)
  BY <1>1 DEF AccountInv
<1> HIDE DEF paid, fusd
<1>4. Sound(flux', paid + fusd)
  BY <1>3, SoundStep
<1>5. Sound(flux', held' - unbacked')
  BY <1>2, <1>4
<1>6. LoanStep(flux, flux', id)
  BY <1>1 DEF Step
<1> QED
  BY <1>2, <1>5, <1>6 DEF CallRight

\* Every call about a loan.
LEMMA LoanCallRight ==
  ASSUME AccountInv, now \in Nat, NEW id \in Loans, LoanCall(id)
  PROVE  CallRight
<1>1. /\ Ready(flux) /\ held \in Int /\ unbacked \in Int /\ StateOK(flux)
      /\ Sound(flux, held - unbacked)
  BY DEF AccountInv, Sound, Ready
<1>2. StateOK(flux')
  BY <1>1, LoanCallOK
<1>3. ASSUME NEW i \in Rates, TagIrredeemable(id, i)
      PROVE  CallRight
  <2> DEFINE paid == held - unbacked
  <2>1. paid \in Int /\ Sound(flux, paid)
    BY <1>1
  <2> HIDE DEF paid
  <2>2. /\ Sound(flux', paid + (held' - held)) /\ held' \in Int
        /\ LoanStep(flux, flux', id)
    BY <1>1, <1>3, <2>1, TagStep
  <2>3. unbacked' = unbacked
    BY <1>3 DEF TagIrredeemable
  <2>4. paid + (held' - held) = held' - unbacked'
    BY <1>1, <2>2, <2>3 DEF paid
  <2> QED
    BY <1>1, <2>2, <2>3, <2>4 DEF CallRight
<1>4. ASSUME CloseCdp(id) PROVE CallRight
  <2>1. unbacked' = unbacked
    BY <1>4 DEF CloseCdp
  <2> QED
    BY SMTT(30), <1>1, <1>2, <1>4, <2>1, CloseStep, StepRight
<1>5. ASSUME RetrieveLeftoverCollateral(id) PROVE CallRight
  <2>1. unbacked' = unbacked
    BY <1>5 DEF RetrieveLeftoverCollateral
  <2> QED
    BY <1>1, <1>2, <1>5, <2>1, RetrieveStep, StepRight
<1>6. ASSUME BurnLoanReceipt(id) PROVE CallRight
  <2>1. unbacked' = unbacked
    BY <1>6 DEF BurnLoanReceipt
  <2> QED
    BY <1>1, <1>2, <1>6, <2>1, BurnReceiptStep, StepRight
<1>7. ASSUME NEW amount \in Repayments, PartialCloseCdp(id, amount) PROVE CallRight
  <2>1. unbacked' = unbacked
    BY <1>7 DEF PartialCloseCdp, CloseCdp
  <2> QED
    BY SMTT(30), <1>1, <1>2, <1>7, <2>1, PartialCloseStep, StepRight
<1>8. ASSUME NEW price \in Nat \ {0}, NEW amount \in TopUps, TopUpCdp(id, amount, price)
      PROVE CallRight
  <2>1. unbacked' = unbacked
    BY <1>8 DEF TopUpCdp
  <2> QED
    BY <1>1, <1>2, <1>8, <2>1, TopUpStep, StepRight
<1>9. ASSUME NEW price \in Nat \ {0}, NEW amount \in Withdrawals, RemoveCollateral(id, amount, price)
      PROVE CallRight
  <2>1. unbacked' = unbacked
    BY <1>9 DEF RemoveCollateral
  <2> QED
    BY <1>1, <1>2, <1>9, <2>1, RemoveCollateralStep, StepRight
<1>10. ASSUME NEW price \in Nat \ {0}, NEW amount \in ExtraMints, BorrowMore(id, amount, price)
       PROVE CallRight
  <2>1. unbacked' = unbacked
    BY <1>10 DEF BorrowMore
  <2> QED
    BY <1>1, <1>2, <1>10, <2>1, BorrowMoreStep, StepRight
<1>11. ASSUME NEW price \in Nat \ {0}, NEW i \in Interests, NEW b \in Registered \cup {Nobody},
              ChangeCdpInterest(id, i, b, price)
       PROVE CallRight
  <2>1. unbacked' = unbacked
    BY <1>11 DEF ChangeCdpInterest
  <2> QED
    BY <1>1, <1>2, <1>11, <2>1, ChangeCdpInterestStep, StepRight
<1>12. ASSUME NEW price \in Nat \ {0}, Unmark(id, price) PROVE CallRight
  <2>1. unbacked' = unbacked
    BY <1>12 DEF Unmark
  <2> QED
    BY <1>1, <1>2, <1>12, <2>1, UnmarkStep, StepRight
<1>13. ASSUME NEW price \in Nat \ {0}, LiquidateCdp(id, price) PROVE CallRight
  <2>1. unbacked' = unbacked
    BY <1>13 DEF LiquidateCdp, MarkForLiquidation, Liquidate
  <2>2. CASE MarkForLiquidation(id, price)
    BY <1>1, <1>2, <2>1, <2>2, MarkStep, StepRight
  <2>3. CASE Liquidate(id, price)
    BY <1>1, <1>2, <2>1, <2>3, LiquidateStep, StepRight
  <2> QED
    BY <1>13, <2>2, <2>3 DEF LiquidateCdp
<1>14. ASSUME NEW price \in Prices,
              \/ \E amount \in TopUps : TopUpCdp(id, amount, price)
              \/ \E amount \in Withdrawals : RemoveCollateral(id, amount, price)
              \/ \E amount \in ExtraMints : BorrowMore(id, amount, price)
              \/ \E i \in Interests, b \in Registered \cup {Nobody} :
                   ChangeCdpInterest(id, i, b, price)
              \/ Unmark(id, price)
              \/ LiquidateCdp(id, price)
       PROVE  CallRight
  <2>1. price \in Nat \ {0}
    BY PriceAssumption
  <2> QED
    BY <1>8, <1>9, <1>10, <1>11, <1>12, <1>13, <1>14, <2>1
<1> QED
  BY <1>3, <1>4, <1>5, <1>6, <1>7, <1>14 DEF LoanCall

\* Every call about a collateral.
LEMMA CollateralCallRight ==
  ASSUME AccountInv, now \in 0 .. MaxTime, NEW c \in Listed, CollateralCall(c)
  PROVE  CallRight
<1>1. Ready(flux) /\ held \in Int /\ StateOK(flux) /\ now \in Nat
  BY TimeAssumption DEF AccountInv, Sound, Ready
<1>2. StateOK(flux')
  BY <1>1, CollateralCallOK
<1>3. ASSUME NEW deposit \in Deposits, NEW mint \in Mints, NEW i \in Interests,
             NEW b \in Registered \cup {Nobody}, NEW price \in Nat \ {0},
             OpenCdp(c, deposit, mint, i, b, price)
      PROVE  CallRight
  <2>1. unbacked' = unbacked
    BY <1>3 DEF OpenCdp
  <2> QED
    BY SMTT(30), <1>1, <1>2, <1>3, <2>1, OpenCdpStep, StepRight
<1>4. ASSUME NEW payment \in Nat, NEW share \in 0 .. ONE, NEW price \in Nat \ {0},
             Redemption(c, payment, share, price)
      PROVE  CallRight
  <2>1. unbacked' = unbacked
    BY <1>4 DEF Redemption
  <2> QED
    BY <1>1, <1>2, <1>4, <2>1, RedemptionStep, StepRight
<1>5. ASSUME NEW range \in ChargeRanges, NEW rate \in IrredeemableRates,
             ChargeInterest(c, range, rate)
      PROVE  CallRight
  <2>1. unbacked' = unbacked
    BY <1>5 DEF ChargeInterest
  <2> QED
    BY SMTT(30), <1>1, <1>2, <1>5, <2>1, ChargeStep, StepRight, AmountAssumption
<1> QED
  BY <1>3, <1>4, <1>5, PriceAssumption, AmountAssumption DEF CollateralCall

\* Every call of the owner.
LEMMA OwnerCallRight ==
  ASSUME AccountInv, OwnerCall
  PROVE  CallRight
<1>1. /\ Ready(flux) /\ held \in Int /\ unbacked \in Int /\ StateOK(flux) /\ LoansRight(flux)
      /\ Sound(flux, held - unbacked)
  BY DEF AccountInv, Sound, Ready
<1>2. StateOK(flux')
  BY <1>1, OwnerCallOK
<1>3. ASSUME NEW c \in Collaterals, NEW mcr \in Mcrs, NEW price \in Prices,
             NewCollateral(c, mcr, price)
      PROVE  CallRight
  <2> DEFINE paid == held - unbacked
  <2>1. Sound(flux, paid)
    BY <1>1
  <2>2. unbacked' = unbacked
    BY <1>3 DEF NewCollateral
  <2> HIDE DEF paid
  <2>3. Sound(flux', paid) /\ LoanStep(flux, flux', 0) /\ held' = held
    BY <1>2, <1>3, <2>1, NewCollateralSound
  <2> QED
    BY <1>1, <2>2, <2>3 DEF CallRight, paid
<1>4. ASSUME NEW c \in Listed, NEW price \in Prices, ChangeCollateralPrice(c, price)
      PROVE  CallRight
  <2>1. unbacked' = unbacked
    BY <1>4 DEF ChangeCollateralPrice
  <2>2. Step(flux, flux', 0, held' - held) /\ held' \in Int
    BY <1>1, <1>4, ChangePriceStep, PriceAssumption
  <2> QED
    BY <1>2, <2>1, <2>2, StepRight
<1>5. ASSUME TermsCall
      PROVE  CallRight
  <2>1. unbacked' = unbacked
    BY <1>5, Zenon DEF TermsCall, EditCollateral, CreatePrivilegedBorrower, EditPrivilegedBorrower,
                SetStops, SetMaxVectorLength, SetMinimumMint, SetFines, SetInterestParams
  <2>2. Step(flux, flux', 0, held' - held) /\ held' \in Int
    BY <1>1, <1>2, <1>5, TermsStep
  <2> QED
    BY <1>2, <2>1, <2>2, StepRight
<1>6. ASSUME NEW amount \in FreeAmounts, FreeFusd(amount) \/ BurnFusd(amount)
      PROVE  CallRight
  <2>1. amount \in Int
    BY AmountAssumption
  <2>2. /\ flux' = flux /\ held' \in Int /\ unbacked' \in Int
        /\ held' - unbacked' = held - unbacked
    BY <1>1, <1>6, <2>1 DEF FreeFusd, BurnFusd
  <2>3. LoanStep(flux, flux', 0)
    BY <1>1, <2>2, NoLoanStep
  <2> QED
    BY <1>1, <2>2, <2>3 DEF CallRight
<1>7. ASSUME ~(\E c \in Collaterals, mcr \in Mcrs, price \in Prices : NewCollateral(c, mcr, price)),
             ~(\E c \in Listed, price \in Prices : ChangeCollateralPrice(c, price)),
             ~(\E amount \in FreeAmounts : FreeFusd(amount) \/ BurnFusd(amount))
      PROVE  TermsCall
  BY <1>7 DEF OwnerCall, TermsCall
<1> QED
  BY <1>3, <1>4, <1>5, <1>6, <1>7

\* Every call, and every tick of the clock.
LEMMA NextRight ==
  ASSUME AccountInv, Next
  PROVE  CallRight
<1>1. /\ Ready(flux) /\ held \in Int /\ unbacked \in Int /\ StateOK(flux) /\ LoansRight(flux)
      /\ Sound(flux, held - unbacked) /\ now \in 0 .. MaxTime /\ now \in Nat
  BY TimeAssumption DEF AccountInv, Sound, Ready, IInv
<1>2. CASE LinkCall
  <2>1. unbacked' = unbacked
    BY <1>2 DEF LinkCall, LinkCdpToPrivilegedBorrower, UnlinkCdpFromPrivilegedBorrower
  <2>2. StateOK(flux')
    BY <1>1, <1>2, LinkCallOK
  <2> QED
    BY <1>1, <1>2, <2>1, <2>2, LinkCallStep, StepRight
<1>3. CASE Tick
  <2>1. flux' = flux /\ held' = held /\ unbacked' = unbacked
    BY <1>3 DEF Tick
  <2>2. LoanStep(flux, flux', 0)
    BY <1>1, <2>1, NoLoanStep
  <2> QED
    BY <1>1, <2>1, <2>2 DEF CallRight
<1>4. CASE \E id \in Loans : LoanCall(id)
  BY <1>1, <1>4, LoanCallRight
<1>5. CASE \E c \in Listed : CollateralCall(c)
  BY <1>1, <1>5, CollateralCallRight
<1>6. CASE OwnerCall
  BY <1>6, OwnerCallRight
<1> QED
  BY <1>2, <1>3, <1>4, <1>5, <1>6 DEF Next

-----------------------------------------------------------------------------

\* Before the first call there is nothing to account for.
LEMMA AccountInit == Init => AccountInv
<1> SUFFICES ASSUME Init PROVE AccountInv
  OBVIOUS
<1>1. IInv
  BY InitOK
<1>2. /\ DOMAIN flux = Fields /\ flux.cdps = <<>> /\ flux.cdpCounter = 0 /\ flux.borrowers = <<>>
      /\ flux.collaterals = <<>> /\ flux.tiers = <<>> /\ flux.ratios = [k \in Tiers |-> <<>>]
      /\ flux.marked = <<>> /\ flux.circulating = 0 /\ held = 0 /\ unbacked = 0
  BY DEF Init, Fields
<1>3. DOMAIN <<>> = {}
  OBVIOUS
<1>4. IsFiniteSet({}) /\ Cardinality({}) = 0
  BY FS_EmptySet
<1>5. Accounted(flux)
  BY <1>2, <1>3, <1>4 DEF Accounted, Shaped, Tracked
<1>6. LoansRight(flux) /\ EmptyTiers(flux) = {}
  BY <1>2, <1>3 DEF LoansRight, EmptyTiers
<1>7. /\ DOMAIN Debts(flux) = {} /\ DOMAIN Fees(flux) = {}
      /\ \A k : DOMAIN TierAmounts(flux, k) = {}
  BY <1>2, <1>3 DEF Debts, Fees, TierAmounts
<1>8. /\ SumFunction(Debts(flux)) = 0 /\ SumFunction(Fees(flux)) = 0
      /\ \A k : SumFunction(TierAmounts(flux, k)) = 0
  BY <1>7, SumEmpty DEF SumFunction
<1>9. Unowed(flux) = 0 /\ PaidOut(flux) = 0
  BY <1>2, <1>8 DEF Unowed, PaidOut
<1>10. Backed(flux)
  BY <1>2, <1>3, <1>8 DEF Backed, Locked
<1>11. held - unbacked = 0 /\ held \in Int /\ unbacked \in Int
  BY <1>2
<1> QED
  BY <1>1, <1>5, <1>6, <1>9, <1>10, <1>11 DEF AccountInv, IInv, Sound, Ready

\* The passing of time leaves the accounts alone.
LEMMA SoundClock ==
  ASSUME Sound(flux', held' - unbacked'), StateOK(flux)'
  PROVE  Sound(flux, held - unbacked)'
<1>1. /\ LoansRight(flux') /\ Accounted(flux') /\ EmptyTiers(flux') = {} /\ Unowed(flux') = 0
      /\ PaidOut(flux') = held' - unbacked' /\ Backed(flux')
  BY DEF Sound, Ready
<1>2. LoansRight(flux)' /\ Accounted(flux)' /\ (EmptyTiers(flux) = {})' /\ (Unowed(flux) = 0)'
      /\ (PaidOut(flux) = held - unbacked)' /\ Backed(flux)'
  BY <1>1
<1> QED
  BY <1>2 DEF Sound, Ready

\* The accounts add up after every call.
LEMMA AccountNext == AccountInv /\ [Next]_vars => AccountInv'
<1> SUFFICES ASSUME AccountInv, [Next]_vars PROVE AccountInv'
  OBVIOUS
<1>1. IInv'
  BY NextOK DEF AccountInv
<1>2. CASE Next
  <2>1. CallRight
    BY <1>2, NextRight
  <2>2. StateOK(flux)'
    BY <1>1 DEF IInv
  <2>3. Sound(flux, held - unbacked)'
    BY <2>1, <2>2, SoundClock DEF CallRight
  <2> QED
    BY <1>1, <2>1, <2>3 DEF AccountInv, CallRight
<1>3. CASE UNCHANGED vars
  BY <1>1, <1>3 DEF AccountInv, vars, Sound, Ready, IInv
<1> QED
  BY <1>2, <1>3

-----------------------------------------------------------------------------
(* The invariants that the runs check.                                     *)

\* What a sound state means in the words of the properties.
LEMMA SoundMeans ==
  ASSUME AccountInv
  PROVE  MarkRecorded /\ LinkRecorded /\ TiersTrackIndex /\ CirculationReconciles
         /\ SupplyReconciles
<1>1. /\ StateOK(flux) /\ LoansRight(flux) /\ Shaped(flux) /\ Tracked(flux)
      /\ EmptyTiers(flux) = {} /\ Unowed(flux) = 0 /\ PaidOut(flux) = held - unbacked
      /\ held \in Int /\ unbacked \in Int
  BY DEF AccountInv, Sound, Ready, Accounted
<1>2. MarkRecorded /\ LinkRecorded
  BY <1>1 DEF MarkRecorded, LinkRecorded, Ids, ActiveLoans, LoansRight, LoanRight
<1>3. TiersTrackIndex
  BY <1>1 DEF TiersTrackIndex, Tracked, EmptyTiers, Shaped
<1>4. /\ SumFunction(Debts(flux)) \in Int /\ SumFunction(Fees(flux)) \in Int
      /\ flux.circulating \in Int
  BY <1>1, PaidTyped, SumFunctionType DEF Shaped
<1>5. CirculationReconciles
  BY <1>1, <1>4 DEF CirculationReconciles, Unowed, Debts, Listed
<1>6. SupplyReconciles
  <2>1. Fees(flux) = [c \in Listed |-> flux.collaterals[c].uncharged]
    BY DEF Fees, Listed
  <2>2. held + SumFunction(Fees(flux)) = flux.circulating + unbacked
    BY <1>1, <1>4 DEF PaidOut
  <2> QED
    BY <2>1, <2>2 DEF SupplyReconciles
<1> QED
  BY <1>2, <1>3, <1>5, <1>6

\* What the invariant says of the collateral in the vaults.
LEMMA BackedMeans ==
  ASSUME AccountInv
  PROVE  CollateralBacked
<1>1. Backed(flux) /\ Shaped(flux)
  BY DEF AccountInv, Sound, Ready, Accounted
<1>2. ASSUME NEW c \in Listed
      PROVE  LET open == {id \in ActiveLoans : flux.cdps[id].collateral = c}
                 ended == {id \in Ids \ ActiveLoans : flux.cdps[id].collateral = c}
             IN  /\ OpenAmounts(flux, c) = [id \in open |-> flux.cdps[id].amount]
                 /\ EndedAmounts(flux, c) = [id \in ended |-> flux.cdps[id].amount]
  <2>1. {x \in DOMAIN flux.cdps : Active(flux.cdps[x]) /\ flux.cdps[x].collateral = c}
          = {id \in ActiveLoans : flux.cdps[id].collateral = c}
    BY DEF ActiveLoans, Ids
  <2>2. {x \in DOMAIN flux.cdps : ~Active(flux.cdps[x]) /\ flux.cdps[x].collateral = c}
          = {id \in Ids \ ActiveLoans : flux.cdps[id].collateral = c}
    BY DEF ActiveLoans, Ids
  <2> QED
    BY <2>1, <2>2 DEF OpenAmounts, EndedAmounts
<1>3. ASSUME NEW k \in DOMAIN flux.tiers
      PROVE  flux.tiers[k].coll = SumFunction([id \in LoansIn(k) |-> flux.cdps[id].amount])
  <2>1. {x \in DOMAIN flux.cdps : Active(flux.cdps[x]) /\ Tier(flux.cdps[x]) = k} = LoansIn(k)
    BY DEF LoansIn, ActiveLoans, Ids
  <2>2. TierAmounts(flux, k) = [id \in LoansIn(k) |-> flux.cdps[id].amount]
    BY <2>1 DEF TierAmounts
  <2> QED
    BY <1>1, <2>2 DEF Backed, Locked, Shaped
<1>4. ASSUME NEW c \in Listed
      PROVE  /\ flux.collaterals[c].vault = flux.collaterals[c].amount
             /\ flux.collaterals[c].amount = SumFunction(OpenAmounts(flux, c))
             /\ flux.collaterals[c].leftovers = SumFunction(EndedAmounts(flux, c))
  BY <1>1 DEF Backed, Listed
<1> QED
  BY <1>2, <1>3, <1>4 DEF CollateralBacked

\* For all constants, a marked loan has its liquidation time on record and a
\* healthy one has none.
THEOREM MarksAreRecorded == Spec => []MarkRecorded
<1>1. AccountInv => MarkRecorded
  BY SoundMeans
<1> QED
  BY <1>1, AccountInit, AccountNext, PTL DEF Spec

\* For all constants, a loan that names a privileged borrower is on that
\* borrower's list of coupled loans.
THEOREM LinksAreRecorded == Spec => []LinkRecorded
<1>1. AccountInv => LinkRecorded
  BY SoundMeans
<1> QED
  BY <1>1, AccountInit, AccountNext, PTL DEF Spec

\* For all constants, number_of_crs counts the keys of its tier's ratio tree, and
\* a tier exists exactly while its tree has a key: redemption finds a first loan in
\* every tier it finds, and clean_up_interest_info drops no tier with a loan.
THEOREM TiersAreTracked == Spec => []TiersTrackIndex
<1>1. AccountInv => TiersTrackIndex
  BY SoundMeans
<1> QED
  BY <1>1, AccountInit, AccountNext, PTL DEF Spec

\* For all constants, circulating_fusd is the sum of the total debts of the
\* collaterals, whichever handlers ran.
THEOREM CirculationIsReconciled == Spec => []CirculationReconciles
<1>1. AccountInv => CirculationReconciles
  BY SoundMeans
<1> QED
  BY <1>1, AccountInit, AccountNext, PTL DEF Spec

\* For all constants, every fUSD outside the component or kept as uncharged
\* interest is circulating, but for what the owner minted or burned freely.
THEOREM SupplyIsReconciled == Spec => []SupplyReconciles
<1>1. AccountInv => SupplyReconciles
  BY SoundMeans
<1> QED
  BY <1>1, AccountInit, AccountNext, PTL DEF Spec

\* For all constants, every vault holds exactly the collateral of the open loans
\* against it, every tier records that of its own, and the leftovers hold what
\* the ended loans have not retrieved.
THEOREM CollateralIsBacked == Spec => []CollateralBacked
<1>1. AccountInv => CollateralBacked
  BY BackedMeans
<1> QED
  BY <1>1, AccountInit, AccountNext, PTL DEF Spec

-----------------------------------------------------------------------------
(* What no call may do to a loan.                                          *)

\* A call changes one loan, and that one lawfully.
LEMMA ChangesOfLoans ==
  ASSUME AccountInv, [Next]_vars, NEW id \in Ids, id \in Ids'
  PROVE  \/ flux'.cdps[id] = flux.cdps[id] /\ (Active(flux.cdps[id]) \/ flux.cdps[id].pool = 0)
         \/ Lawful(flux, id, flux.cdps[id], flux'.cdps[id])
<1>1. LoanRight(flux, id)
  BY DEF AccountInv, Sound, Ready, LoansRight, Ids
<1>2. CASE UNCHANGED vars
  BY <1>1, <1>2 DEF vars, LoanRight
<1>3. CASE Next
  <2>1. PICK x : LoanStep(flux, flux', x)
    BY <1>3, NextRight DEF CallRight
  <2>2. CASE x = id
    BY <2>1, <2>2 DEF LoanStep, Ids
  <2>3. CASE x # id
    BY <1>1, <2>1, <2>3 DEF LoanStep, OtherLoansKept, SameBut, Ids, LoanRight
  <2> QED
    BY <2>2, <2>3
<1> QED
  BY <1>2, <1>3

\* For all constants, no step changes the status, the zero debt or the rate of a
\* loan that has ended, and its collateral is only paid out, in full.
THEOREM EndsAreFinal == Spec => EndedIsFinal
<1> DEFINE Act == \A id \in (Ids \ ActiveLoans) \cap Ids' :
              LET d == flux.cdps[id] e == flux'.cdps[id]
              IN  /\ e.status = d.status
                  /\ e.pool = 0 /\ e.interest = d.interest
                  /\ e.amount \in {d.amount, 0}
<1>1. AccountInv /\ [Next]_vars => Act
  <2> SUFFICES ASSUME AccountInv, [Next]_vars, NEW id \in (Ids \ ActiveLoans) \cap Ids'
               PROVE  LET d == flux.cdps[id] e == flux'.cdps[id]
                      IN  /\ e.status = d.status
                          /\ e.pool = 0 /\ e.interest = d.interest
                          /\ e.amount \in {d.amount, 0}
    OBVIOUS
  <2>1. ~Active(flux.cdps[id])
    BY DEF ActiveLoans
  <2> QED
    BY <2>1, ChangesOfLoans DEF Lawful
<1>2. AccountInv /\ [Next]_vars => [Act]_vars
  BY <1>1
<1> HIDE DEF Act
<1>3. Spec => [][Act]_vars
  BY <1>2, AccountInit, AccountNext, PTL DEF Spec
<1> QED
  BY <1>3 DEF EndedIsFinal, Act

\* For all constants, a loan whose borrower has a liquidation notice is
\* liquidated only after it was marked and its notice has passed.
THEOREM NoticesAreRespected == Spec => NoticeRespected
<1> DEFINE Act == \A id \in ActiveLoans \cap Ids' :
              LET d == flux.cdps[id]
              IN  flux'.cdps[id].status = "Liquidated" =>
                    IF d.status = "Marked" THEN now > flux.marked[id]
                    ELSE d.borrower = Nobody \/ flux.borrowers[d.borrower].notice = NoNotice
<1>1. AccountInv /\ [Next]_vars => Act
  <2> SUFFICES ASSUME AccountInv, [Next]_vars, NEW id \in ActiveLoans \cap Ids',
                      flux'.cdps[id].status = "Liquidated"
               PROVE  LET d == flux.cdps[id]
                      IN  IF d.status = "Marked" THEN now > flux.marked[id]
                          ELSE d.borrower = Nobody \/ flux.borrowers[d.borrower].notice = NoNotice
    OBVIOUS
  <2>1. id \in Ids /\ Active(flux.cdps[id])
    BY DEF ActiveLoans
  <2>2. flux'.cdps[id] # flux.cdps[id]
    BY <2>1 DEF Active
  <2> QED
    BY <2>1, <2>2, ChangesOfLoans DEF Lawful
<1>2. AccountInv /\ [Next]_vars => [Act]_vars
  BY <1>1
<1> HIDE DEF Act
<1>3. Spec => [][Act]_vars
  BY <1>2, AccountInit, AccountNext, PTL DEF Spec
<1> QED
  BY <1>3 DEF NoticeRespected, Act

\* The loans of a borrower are no more than its coupled_loans lists.
LEMMA LinkedCount ==
  ASSUME AccountInv, NEW b \in Registered
  PROVE  /\ IsFiniteSet(LinkedTo(b)) /\ Cardinality(LinkedTo(b)) \in Nat
         /\ Cardinality(LinkedTo(b)) <= Cardinality(flux.borrowers[b].coupled)
         /\ Cardinality(flux.borrowers[b].coupled) \in Nat
         /\ flux.borrowers[b].maxCoupled \in Nat
<1> DEFINE coupled == flux.borrowers[b].coupled
           L == LinkedTo(b)
           linked == {e \in coupled : e[1] \in L}
           f == [e \in linked |-> e[1]]
<1>1. flux.borrowers[b] \in Borrower /\ b \in Borrowers /\ StateOK(flux)
  BY DEF Registered, AccountInv, IInv, StateOK, WellTyped
<1>2. IsFiniteSet(coupled) /\ flux.borrowers[b].maxCoupled \in Nat
  BY <1>1 DEF Borrower
<1>3. IsFiniteSet(linked) /\ Cardinality(linked) <= Cardinality(coupled)
  BY <1>2, FS_Subset
<1>4. ASSUME NEW id \in L PROVE \E e \in linked : f[e] = id
  <2>1. id \in DOMAIN flux.cdps /\ flux.cdps[id].borrower = b /\ b # Nobody
    BY <1>1, AbsentAssumption DEF LinkedTo, Ids
  <2>2. \E e \in coupled : e[1] = id
    BY <2>1, SoundMeans DEF LinkRecorded, Ids
  <2> QED
    BY <2>2
<1>5. f \in Surjection(linked, L)
  BY <1>4 DEF Surjection
<1>6. IsFiniteSet(L) /\ Cardinality(L) <= Cardinality(linked)
  BY <1>3, <1>5, FS_Surjection
<1>7. Cardinality(L) \in Nat /\ Cardinality(linked) \in Nat /\ Cardinality(coupled) \in Nat
  BY <1>2, <1>3, <1>6, FS_CardinalityType
<1> QED
  BY <1>2, <1>3, <1>6, <1>7

\* For all constants, a step that links a loan to a privileged borrower leaves it
\* within its max_coupled_loans.
THEOREM LinksAreLimited == Spec => LinksLimited
<1> DEFINE Act == \A b \in Registered :
       ~ LinkedTo(b)' \subseteq LinkedTo(b) =>
         Cardinality(LinkedTo(b)') <= flux.borrowers[b].maxCoupled
<1>1. ASSUME AccountInv, [Next]_vars, NEW b \in Registered,
             ~ LinkedTo(b)' \subseteq LinkedTo(b)
      PROVE  Cardinality(LinkedTo(b)') <= flux.borrowers[b].maxCoupled
  <2>1. PICK x : LoanStep(flux, flux', x)
    BY <1>1, NextRight DEF CallRight, vars, LinkedTo, Ids
  <2>2. b # Nobody
    BY <1>1, AbsentAssumption DEF Registered, AccountInv, IInv, StateOK, WellTyped
  <2>3. \A y \in DOMAIN flux'.cdps \ {x} : y \in DOMAIN flux.cdps /\ flux'.cdps[y] = flux.cdps[y]
    BY <2>1 DEF LoanStep, OtherLoansKept, SameBut
  <2>4. LinkedTo(b)' \subseteq LinkedTo(b) \cup {x}
    BY <2>3 DEF LinkedTo, Ids
  <2>5. x \in DOMAIN flux'.cdps /\ flux'.cdps[x].borrower = b /\ x \notin LinkedTo(b)
    BY <1>1, <2>4 DEF LinkedTo, Ids
  <2>6. CanLink(flux, b)
    BY <2>1, <2>2, <2>5 DEF LoanStep, LinkedWithin, LinkedTo, Ids
  <2>7. /\ IsFiniteSet(LinkedTo(b) \cup {x})
        /\ Cardinality(LinkedTo(b) \cup {x}) = Cardinality(LinkedTo(b)) + 1
    BY <1>1, <2>5, LinkedCount, FS_AddElement
  <2>8. /\ Cardinality(LinkedTo(b)') <= Cardinality(LinkedTo(b)) + 1
        /\ IsFiniteSet(LinkedTo(b)')
    BY <2>4, <2>7, FS_Subset
  <2>9. Cardinality(LinkedTo(b)') \in Nat
    BY <2>8, FS_CardinalityType
  <2> QED
    BY <1>1, <2>6, <2>8, <2>9, LinkedCount DEF CanLink
<1>2. AccountInv /\ [Next]_vars => [Act]_vars
  BY <1>1
<1> HIDE DEF Act
<1>3. Spec => [][Act]_vars
  BY <1>2, AccountInit, AccountNext, PTL DEF Spec
<1> QED
  BY <1>3 DEF LinksLimited, Act

=============================================================================
