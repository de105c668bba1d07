----------------------------- MODULE FluxProofs ------------------------------
(***************************************************************************)
(* Types and index of the Flux component, for all constants: each helper   *)
(* of FluxLedger keeps a typed state with an exact index typed and its     *)
(* index exact, for every loan, tier and amount, and so does each handler, *)
(* which is a composition of helpers.  A state is good in the comments     *)
(* when it satisfies StateOK.                                              *)
(***************************************************************************)
EXTENDS FluxProperties, FiniteSetTheorems, TLAPS

-----------------------------------------------------------------------------
(* The helpers.                                                             *)

\* A truncated quotient of integers is an integer (Decimal division).
LEMMA QuotInt ==
  ASSUME NEW n \in Int, NEW d \in Int, d # 0
  PROVE  Quot(n, d) \in Int
<1>1. Abs(n) \in Int /\ Abs(d) \in Int /\ Abs(d) > 0
  BY DEF Abs
<1>2. Abs(n) \div Abs(d) \in Int
  BY <1>1
<1> QED
  BY <1>2 DEF Quot

\* A product of two Decimals is a Decimal.
LEMMA MulInt ==
  ASSUME NEW a \in Int, NEW b \in Int
  PROVE  Mul(a, b) \in Int
<1>1. ONE \in Int /\ ONE # 0
  BY DecimalAssumption
<1>2. a * b \in Int
  OBVIOUS
<1> QED
  BY <1>1, <1>2, QuotInt DEF Mul

\* A quotient of two Decimals is a Decimal, if the divisor is not zero.
LEMMA DivInt ==
  ASSUME NEW a \in Int, NEW b \in Int, b # 0
  PROVE  Div(a, b) \in Int
<1>1. a * ONE \in Int
  BY DecimalAssumption
<1> QED
  BY <1>1, QuotInt DEF Div

\* get_debt_multiplier returns a Decimal: it divides by the pool debt of a
\* tier only when that is not zero.
LEMMA MultiplierInt ==
  ASSUME NEW f, NEW k, WellTyped(f)
  PROVE  DebtMultiplier(f, k) \in Int
<1>1. CASE k \in DOMAIN f.tiers /\ f.tiers[k].pool # 0
  <2>1. f.tiers[k].real \in Int /\ f.tiers[k].pool \in Int
    BY <1>1 DEF WellTyped, InterestInfo
  <2> QED
    BY <1>1, <2>1, DivInt, DecimalAssumption DEF DebtMultiplier
<1>2. CASE ~(k \in DOMAIN f.tiers /\ f.tiers[k].pool # 0)
  BY <1>2, DecimalAssumption DEF DebtMultiplier
<1> QED
  BY <1>1, <1>2

\* pool_to_real returns a Decimal in every typed state.
LEMMA PoolToRealInt ==
  ASSUME NEW f, NEW k, WellTyped(f), NEW amount \in Int
  PROVE  PoolToRealDebt(f, k, amount) \in Int
BY MultiplierInt, MulInt DEF PoolToRealDebt

\* real_to_pool returns a Decimal where the multiplier it divides by is not zero,
\* which is a guard of the actions that call it.
LEMMA RealToPoolInt ==
  ASSUME NEW f, NEW k, WellTyped(f), NEW amount \in Int, DebtMultiplier(f, k) # 0
  PROVE  RealToPoolDebt(f, k, amount) \in Int
BY MultiplierInt, DivInt DEF RealToPoolDebt

\* extra_interest_days_fee is defined for every standard rate.
LEMMA FeeInt ==
  ASSUME NEW f, NEW i \in Rates, WellTyped(f), NEW pool \in Int
  PROVE  ExtraInterestDaysFee(f, i, pool) \in Int
<1>1. f.params.extraDays \in 0 .. MaxTime
  BY DEF WellTyped, ProtocolParameters
<1>2. Growth[i][f.params.extraDays] \in Int
  BY <1>1, GrowthAssumption
<1>3. Mul(Growth[i][f.params.extraDays], pool) \in Int
  BY <1>2, MulInt
<1> QED
  BY <1>3 DEF ExtraInterestDaysFee

\* The part of the inductive invariant that is about the component's state: it
\* is typed, every open loan is in the index and the index holds nothing else.
\* Neither half is inductive alone. The handlers update the index with the tier
\* and ratio that an NFT records, so the types of a tree's new vector need the
\* index, and the index needs the types.
StateOK(f) == WellTyped(f) /\ LoansIndexed(f) /\ VectorsOK(f)

\* A helper that only keeps accounts: g has the loans, the index, the borrowers,
\* the marks and the parameters of f.
Kept(f, g) ==
  /\ g.cdps = f.cdps /\ g.cdpCounter = f.cdpCounter /\ g.ratios = f.ratios
  /\ g.borrowers = f.borrowers /\ g.params = f.params /\ g.marked = f.marked
  /\ DOMAIN g.collaterals = DOMAIN f.collaterals

\* A state with the loans and the index of a good one is good if it is typed.
LEMMA SameIndexOK ==
  ASSUME NEW f, NEW g, StateOK(f), WellTyped(g), g.cdps = f.cdps, g.ratios = f.ratios
  PROVE  StateOK(g)
BY SMTT(30) DEF StateOK, LoansIndexed, VectorsOK, InIndex, VectorOK

\* A helper that only keeps accounts keeps a good state good, if what it writes
\* is typed.
LEMMA KeptOK ==
  ASSUME NEW f, NEW g, StateOK(f), WellTyped(g), Kept(f, g)
  PROVE  StateOK(g)
BY SameIndexOK DEF Kept

\* A good state stays good with other tiers, as long as they are typed.
LEMMA TiersOK ==
  ASSUME NEW f, StateOK(f), NEW tiers,
         \A k \in DOMAIN tiers : /\ k \in Tiers /\ k[1] \in DOMAIN f.collaterals
                                 /\ tiers[k] \in InterestInfo /\ tiers[k].last <= now
  PROVE  StateOK([f EXCEPT !.tiers = tiers])
<1> DEFINE g == [f EXCEPT !.tiers = tiers]
<1>1. WellTyped(g)
  BY DEF WellTyped, StateOK
<1>2. Kept(f, g)
  BY DEF Kept
<1> QED
  BY <1>1, <1>2, KeptOK

\* insert_interest_info_if_absent keeps a good state good, and leaves the tier
\* it was asked for.
LEMMA InsertInfoOK ==
  ASSUME NEW f, NEW k \in Tiers, k[1] \in DOMAIN f.collaterals, StateOK(f), now \in Nat
  PROVE  /\ StateOK(InsertInterestInfoIfAbsent(f, k))
         /\ Kept(f, InsertInterestInfoIfAbsent(f, k))
         /\ k \in DOMAIN InsertInterestInfoIfAbsent(f, k).tiers
<1>1. CASE k \notin DOMAIN f.tiers
  <2> DEFINE info == [pool |-> 0, real |-> 0, coll |-> 0, crs |-> 0, last |-> now]
             g == [f EXCEPT !.tiers = With(@, k, info)]
  <2>1. info \in InterestInfo /\ info.last <= now
    BY DEF InterestInfo
  <2>2. \A l \in DOMAIN With(f.tiers, k, info) :
          /\ l \in Tiers /\ l[1] \in DOMAIN f.collaterals
          /\ With(f.tiers, k, info)[l] \in InterestInfo
          /\ With(f.tiers, k, info)[l].last <= now
    BY <2>1 DEF With, WellTyped, StateOK
  <2>3. StateOK(g)
    BY <2>2, TiersOK
  <2> QED
    BY <1>1, <2>3 DEF InsertInterestInfoIfAbsent, Kept, With
<1>2. CASE k \in DOMAIN f.tiers
  BY <1>2 DEF InsertInterestInfoIfAbsent, Kept
<1> QED
  BY <1>1, <1>2

\* add_debt keeps a good state good.
LEMMA AddDebtOK ==
  ASSUME NEW f, StateOK(f), NEW k, NEW real
  PROVE  StateOK(AddDebt(f, k, real)) /\ Kept(f, AddDebt(f, k, real))
<1> DEFINE g == AddDebt(f, k, real)
<1>1. WellTyped(g)
  BY DEF WellTyped, StateOK, AddDebt, IsCollateralInfo
<1>2. Kept(f, g)
  BY DEF Kept, AddDebt
<1> QED
  BY <1>1, <1>2, KeptOK

\* mint_fusd keeps a good state good, for any amount of pool debt.
LEMMA MintOK ==
  ASSUME NEW f, StateOK(f), now \in Nat, NEW k \in Tiers, k[1] \in DOMAIN f.collaterals, NEW pool \in Int
  PROVE  StateOK(MintFusd(f, k, pool)) /\ Kept(f, MintFusd(f, k, pool))
<1> DEFINE g == InsertInterestInfoIfAbsent(f, k)
           real == PoolToRealDebt(g, k, pool)
           h == MintFusd(f, k, pool)
<1>1. StateOK(g) /\ Kept(f, g) /\ k \in DOMAIN g.tiers
  BY InsertInfoOK
<1>2. real \in Int
  BY <1>1, PoolToRealInt DEF StateOK
<1> HIDE DEF g, real
<1>3. h = [g EXCEPT !.tiers[k].pool = @ + pool, !.tiers[k].real = @ + real,
                !.circulating = @ + real]
  BY DEF MintFusd, g, real
<1>4. WellTyped(h)
  BY <1>1, <1>2, <1>3 DEF WellTyped, StateOK, InterestInfo
<1>5. Kept(g, h)
  BY <1>3 DEF Kept
<1>6. StateOK(h)
  BY <1>1, <1>4, <1>5, KeptOK
<1> QED
  BY <1>1, <1>5, <1>6 DEF Kept

\* A sequence whose entries are all in T is a sequence over T.
LEMMA SeqOf ==
  ASSUME NEW S, NEW T, NEW s \in Seq(S), \A n \in 1 .. Len(s) : s[n] \in T
  PROVE  s \in Seq(T)
OBVIOUS

\* The retain of remove_cr, on a vector that holds the id once: the id is gone,
\* every other entry is still there, once, and the vector is one shorter.
LEMMA RetainOK ==
  ASSUME NEW S, NEW s \in Seq(S), NEW id, Distinct(s),
         NEW at \in 1 .. Len(s), s[at] = id
  PROVE  /\ Retain(s, id) \in Seq(S)
         /\ Len(Retain(s, id)) = Len(s) - 1
         /\ \A n \in 1 .. Len(Retain(s, id)) :
              /\ Retain(s, id)[n] # id
              /\ \E m \in 1 .. Len(s) : Retain(s, id)[n] = s[m]
         /\ \A m \in 1 .. Len(s) : s[m] # id =>
              \E n \in 1 .. Len(Retain(s, id)) : Retain(s, id)[n] = s[m]
         /\ Distinct(Retain(s, id))
<1> DEFINE r == [n \in 1 .. Len(s) - 1 |-> IF n < at THEN s[n] ELSE s[n + 1]]
<1>1. at = CHOOSE n \in 1 .. Len(s) : s[n] = id
  BY DEF Distinct
<1>2. Retain(s, id) = r
  BY <1>1 DEF Retain
<1>3. Len(s) \in Nat /\ Len(s) - 1 \in Nat
  OBVIOUS
<1>4. \A n \in 1 .. Len(s) - 1 : r[n] \in S
  OBVIOUS
<1>5. r \in Seq(S) /\ Len(r) = Len(s) - 1
  BY <1>3, <1>4
<1>6. \A n \in 1 .. Len(r) : r[n] # id /\ \E m \in 1 .. Len(s) : r[n] = s[m]
  BY <1>3, <1>5 DEF Distinct
<1>7. \A m \in 1 .. Len(s) : s[m] # id => \E n \in 1 .. Len(r) : r[n] = s[m]
  <2> SUFFICES ASSUME NEW m \in 1 .. Len(s), s[m] # id
               PROVE  \E n \in 1 .. Len(r) : r[n] = s[m]
    OBVIOUS
  <2>1. CASE m < at
    <3>1. m \in 1 .. Len(r) /\ r[m] = s[m]
      BY <2>1, <1>3, <1>5
    <3> QED
      BY <3>1
  <2>2. CASE at < m
    <3>1. m - 1 \in 1 .. Len(r) /\ r[m - 1] = s[m]
      BY <2>2, <1>3, <1>5
    <3> QED
      BY <3>1
  <2> QED
    BY <2>1, <2>2, <1>3
<1>8. Distinct(r)
  BY <1>3, <1>5 DEF Distinct
<1> HIDE DEF r
<1> QED
  BY <1>2, <1>5, <1>6, <1>7, <1>8

\* The push of insert_cr, on a vector that does not hold the id.
LEMMA AppendOK ==
  ASSUME NEW S, NEW s \in Seq(S), NEW id \in S, Distinct(s), \A n \in 1 .. Len(s) : s[n] # id
  PROVE  /\ Append(s, id) \in Seq(S)
         /\ Len(Append(s, id)) = Len(s) + 1
         /\ \A n \in 1 .. Len(s) : Append(s, id)[n] = s[n]
         /\ Append(s, id)[Len(s) + 1] = id
         /\ Distinct(Append(s, id))
BY DEF Distinct

\* Between remove_cr and insert_cr: the index is exact for every loan but id,
\* which is in no vector.
IndexedBut(f, id) ==
  /\ \A x \in DOMAIN f.cdps \ {id} : Active(f.cdps[x]) => InIndex(f, x)
  /\ \A k \in Tiers : \A cr \in DOMAIN f.ratios[k] :
       /\ VectorOK(f, k, cr)
       /\ \A n \in 1 .. Len(f.ratios[k][cr]) : f.ratios[k][cr][n] # id

\* A typed state stays typed when a ratio tree and its number_of_crs change.
LEMMA CrsOK ==
  ASSUME NEW f, WellTyped(f), NEW k, NEW n, k \in DOMAIN f.tiers => n \in Int,
         NEW ratios, DOMAIN ratios = Tiers
  PROVE  WellTyped([f EXCEPT !.ratios = ratios, !.tiers[k].crs = n])
<1> DEFINE g == [f EXCEPT !.ratios = ratios, !.tiers[k].crs = n]
<1>1. DOMAIN g.tiers = DOMAIN f.tiers
  OBVIOUS
<1>2. ASSUME NEW l \in DOMAIN f.tiers
      PROVE  g.tiers[l] \in InterestInfo /\ g.tiers[l].last <= now
  <2>1. f.tiers[l] \in InterestInfo /\ f.tiers[l].last <= now
    BY DEF WellTyped
  <2>2. g.tiers[l] = IF l = k THEN [f.tiers[l] EXCEPT !.crs = n] ELSE f.tiers[l]
    OBVIOUS
  <2> QED
    BY <2>1, <2>2 DEF InterestInfo
<1>3. g.cdps = f.cdps /\ g.cdpCounter = f.cdpCounter /\ g.borrowers = f.borrowers
       /\ g.collaterals = f.collaterals /\ g.marked = f.marked /\ g.params = f.params
       /\ g.ratios = ratios /\ DOMAIN g = DOMAIN f
  OBVIOUS
<1> HIDE DEF g
<1>4. WellTyped(g)
  BY <1>1, <1>2, <1>3 DEF WellTyped
<1> QED
  BY <1>4 DEF g

\* remove_cr takes an open loan out of the index it is in, and no other loan; a
\* vector it leaves empty goes, with its ratio.
LEMMA RemoveCrOK ==
  ASSUME NEW f, StateOK(f), NEW id \in DOMAIN f.cdps, Active(f.cdps[id]),
         NEW k, k = Tier(f.cdps[id]), NEW cr, cr = f.cdps[id].ratio
  PROVE  /\ WellTyped(RemoveCr(f, k, cr, id))
         /\ IndexedBut(RemoveCr(f, k, cr, id), id)
         /\ RemoveCr(f, k, cr, id).cdps = f.cdps
<1> DEFINE ids == f.ratios[k][cr]
           left == Retain(ids, id)
           g == RemoveCr(f, k, cr, id)
<1>1. k \in Tiers /\ cr \in DOMAIN f.ratios[k] /\ DOMAIN f.ratios = Tiers
  BY DEF StateOK, WellTyped, LoansIndexed, InIndex, Cdp, Tier, Tiers
<1>2. PICK at \in 1 .. Len(ids) : ids[at] = id
  BY DEF StateOK, LoansIndexed, InIndex
<1>3. ids \in Seq(DOMAIN f.cdps) /\ Distinct(ids)
  BY <1>1 DEF StateOK, VectorsOK, VectorOK
<1>4. /\ left \in Seq(DOMAIN f.cdps)
      /\ \A n \in 1 .. Len(left) : left[n] # id /\ \E m \in 1 .. Len(ids) : left[n] = ids[m]
      /\ \A m \in 1 .. Len(ids) : ids[m] # id => \E n \in 1 .. Len(left) : left[n] = ids[m]
      /\ Distinct(left)
  <2> HIDE DEF ids
  <2> QED
    BY <1>2, <1>3, RetainOK
<1> HIDE DEF left
<1> DEFINE tree == IF Len(left) = 0 THEN Without(f.ratios[k], cr)
                                  ELSE With(f.ratios[k], cr, left)
<1>5. WellTyped(g) /\ g.cdps = f.cdps /\ g.ratios = [f.ratios EXCEPT ![k] = tree]
  <2>1. CASE Len(left) = 0
    <3> DEFINE ratios == [f.ratios EXCEPT ![k] = Without(@, cr)]
               n == f.tiers[k].crs - 1
    <3>1. g = [f EXCEPT !.ratios = ratios, !.tiers[k].crs = n]
      BY <2>1 DEF RemoveCr, left
    <3>2. k \in DOMAIN f.tiers => n \in Int
      BY DEF StateOK, WellTyped, InterestInfo
    <3>3. DOMAIN ratios = Tiers /\ ratios = [f.ratios EXCEPT ![k] = tree]
      BY <1>1, <2>1
    <3> HIDE DEF ratios, n, tree
    <3>4. WellTyped([f EXCEPT !.ratios = ratios, !.tiers[k].crs = n])
      BY <3>2, <3>3, CrsOK DEF StateOK
    <3> QED
      BY <3>1, <3>3, <3>4
  <2>2. CASE Len(left) # 0
    <3>1. g = [f EXCEPT !.ratios[k] = With(@, cr, left)]
      BY <2>2 DEF RemoveCr, left
    <3>2. WellTyped(g)
      BY <3>1 DEF StateOK, WellTyped
    <3> QED
      BY <2>2, <3>1, <3>2
  <2> QED
    BY <2>1, <2>2
<1>6. \A l \in Tiers : l # k => g.ratios[l] = f.ratios[l]
  BY <1>1, <1>5
<1>7. g.ratios[k] = tree
  BY <1>1, <1>5
<1>8. ASSUME NEW x \in DOMAIN f.cdps \ {id}, Active(f.cdps[x])
      PROVE  InIndex(g, x)
  <2> DEFINE l == Tier(f.cdps[x])
             r == f.cdps[x].ratio
  <2>1. x # id /\ g.cdps[x] = f.cdps[x]
    BY SMTT(30), <1>5, <1>8
  <2>2. /\ l \in Tiers /\ r \in DOMAIN f.ratios[l]
        /\ \E n \in 1 .. Len(f.ratios[l][r]) : f.ratios[l][r][n] = x
    BY ZenonT(40), <1>8 DEF StateOK, WellTyped, LoansIndexed, InIndex, Cdp, Tier, Tiers
  <2>3. SUFFICES /\ r \in DOMAIN g.ratios[l]
                 /\ \E n \in 1 .. Len(g.ratios[l][r]) : g.ratios[l][r][n] = x
    BY <2>1 DEF InIndex
  <2> HIDE DEF l, r, g
  <2>4. CASE l # k
    BY <1>6, <2>2, <2>4
  <2>5. CASE l = k /\ r # cr
    BY <1>7, <2>2, <2>5, SMTT(30) DEF With, Without
  <2>6. CASE l = k /\ r = cr
    <3>1. PICK m \in 1 .. Len(ids) : ids[m] = x
      BY SMTT(30), <2>2, <2>6
    <3>2. PICK n \in 1 .. Len(left) : left[n] = x
      BY <1>4, <2>1, <3>1
    <3>3. Len(left) # 0
      BY <1>4, <3>2, SMTT(30)
    <3>4. r \in DOMAIN g.ratios[l] /\ g.ratios[l][r] = left
      BY SMTT(30), <1>7, <2>6, <3>3 DEF With
    <3> QED
      BY SMTT(30), <3>2, <3>4
  <2> QED
    BY <2>4, <2>5, <2>6
<1>9. ASSUME NEW l \in Tiers, NEW r \in DOMAIN g.ratios[l]
      PROVE  /\ VectorOK(g, l, r)
             /\ \A n \in 1 .. Len(g.ratios[l][r]) : g.ratios[l][r][n] # id
  <2>1. CASE l = k /\ r = cr
    <3>1. Len(left) # 0 /\ g.ratios[l][r] = left
      BY <1>7, <1>9, <2>1 DEF With, Without
    <3>2. VectorOK(f, k, cr)
      BY SMTT(30), <1>1 DEF StateOK, VectorsOK
    <3>3. \A n \in 1 .. Len(left) :
            LET d == f.cdps[left[n]] IN Active(d) /\ Tier(d) = k /\ d.ratio = cr
      <4> TAKE n \in 1 .. Len(left)
      <4>1. PICK m \in 1 .. Len(ids) : left[n] = ids[m]
        BY SMTT(30), <1>4
      <4>2. LET d == f.cdps[ids[m]] IN Active(d) /\ Tier(d) = k /\ d.ratio = cr
        BY <3>2 DEF VectorOK
      <4> QED
        BY <4>1, <4>2
    <3>4. Len(left) > 0
      BY <1>4, <3>1, SMTT(30)
    <3>5. /\ g.ratios[l][r] \in Seq(DOMAIN g.cdps) /\ Len(g.ratios[l][r]) > 0
          /\ Distinct(g.ratios[l][r])
      <4> HIDE DEF g
      <4> QED
        BY <1>4, <1>5, <3>1, <3>4
    <3>6. \A n \in 1 .. Len(left) :
            LET d == g.cdps[left[n]] IN Active(d) /\ Tier(d) = l /\ d.ratio = r
      <4> HIDE DEF g
      <4> QED
        BY <1>5, <2>1, <3>3
    <3> HIDE DEF g
    <3>7. VectorOK(g, l, r)
      BY <3>1, <3>5, <3>6 DEF VectorOK
    <3> QED
      BY SMTT(30), <1>4, <3>1, <3>7
  <2>2. CASE ~ (l = k /\ r = cr)
    <3>1. r \in DOMAIN f.ratios[l] /\ g.ratios[l][r] = f.ratios[l][r]
      BY <1>6, <1>7, <1>9, <2>2 DEF With, Without
    <3>2. VectorOK(f, l, r)
      BY SMTT(30), <3>1 DEF StateOK, VectorsOK
    <3> HIDE DEF g
    <3>3. VectorOK(g, l, r)
      BY <1>5, <3>1, <3>2 DEF VectorOK
    <3>4. \A n \in 1 .. Len(g.ratios[l][r]) : g.ratios[l][r][n] # id
      BY SMTT(30), <2>2, <3>1, <3>2 DEF VectorOK
    <3> QED
      BY SMTT(30), <3>3, <3>4
  <2> QED
    BY SMTT(30), <2>1, <2>2
<1> HIDE DEF g
<1>10. IndexedBut(g, id)
  BY <1>5, <1>8, <1>9 DEF IndexedBut
<1> QED
  BY SMTT(30), <1>5, <1>10 DEF g

\* A helper that changes only the data of tiers and collaterals keeps a good
\* state good, if what it writes is typed.
LEMMA LedgerOK ==
  ASSUME NEW f, NEW g, StateOK(f), Kept(f, g), DOMAIN g = DOMAIN f,
         \A c \in DOMAIN f.collaterals : IsCollateralInfo(g.collaterals[c]),
         \A k \in DOMAIN g.tiers : /\ k \in Tiers /\ k[1] \in DOMAIN f.collaterals
                                   /\ g.tiers[k] \in InterestInfo /\ g.tiers[k].last <= now
  PROVE  StateOK(g)
<1>1. WellTyped(g)
  BY DEF WellTyped, StateOK, Kept
<1> QED
  BY <1>1, KeptOK

\* remove_debt keeps a good state good.
LEMMA RemoveDebtOK ==
  ASSUME NEW f, StateOK(f), NEW k, NEW real
  PROVE  StateOK(RemoveDebt(f, k, real)) /\ Kept(f, RemoveDebt(f, k, real))
<1> DEFINE g == RemoveDebt(f, k, real)
<1>1. WellTyped(g)
  BY DEF WellTyped, StateOK, RemoveDebt, IsCollateralInfo
<1>2. Kept(f, g)
  BY DEF Kept, RemoveDebt
<1> QED
  BY <1>1, <1>2, KeptOK

\* Taking real debt out of a tier keeps a good state good.
LEMMA LeaveTierOK ==
  ASSUME NEW f, StateOK(f), NEW k, NEW real \in Int, DebtMultiplier(f, k) # 0
  PROVE  StateOK(LeaveTier(f, k, real)) /\ Kept(f, LeaveTier(f, k, real))
<1> DEFINE pool == RealToPoolDebt(f, k, real)
           g == LeaveTier(f, k, real)
<1>1. pool \in Int
  BY RealToPoolInt DEF StateOK
<1> HIDE DEF pool
<1>2. g = [f EXCEPT !.tiers[k].pool = @ - pool, !.tiers[k].real = @ - real]
  BY DEF LeaveTier, pool
<1>3. WellTyped(g)
  BY <1>1, <1>2 DEF WellTyped, StateOK, InterestInfo
<1>4. Kept(f, g)
  BY <1>2 DEF Kept
<1> QED
  BY <1>3, <1>4, KeptOK

\* Putting real debt into a tier keeps a good state good.
LEMMA EnterTierOK ==
  ASSUME NEW f, StateOK(f), NEW k, NEW real \in Int, DebtMultiplier(f, k) # 0
  PROVE  StateOK(EnterTier(f, k, real)) /\ Kept(f, EnterTier(f, k, real))
<1> DEFINE pool == RealToPoolDebt(f, k, real)
           g == EnterTier(f, k, real)
<1>1. pool \in Int
  BY RealToPoolInt DEF StateOK
<1> HIDE DEF pool
<1>2. g = [f EXCEPT !.tiers[k].pool = @ + pool, !.tiers[k].real = @ + real]
  BY DEF EnterTier, pool
<1>3. WellTyped(g)
  BY <1>1, <1>2 DEF WellTyped, StateOK, InterestInfo
<1>4. Kept(f, g)
  BY <1>2 DEF Kept
<1> QED
  BY <1>3, <1>4, KeptOK

\* unmint_fusd keeps a good state good where it does not divide by zero.
LEMMA UnmintOK ==
  ASSUME NEW f, StateOK(f), NEW k, NEW real \in Int, DebtMultiplier(f, k) # 0
  PROVE  StateOK(UnmintFusd(f, k, real)) /\ Kept(f, UnmintFusd(f, k, real))
<1> DEFINE h == LeaveTier(f, k, real)
           g == [h EXCEPT !.circulating = @ - real]
<1>1. StateOK(h) /\ Kept(f, h)
  BY LeaveTierOK
<1> HIDE DEF h
<1>2. WellTyped(g)
  BY <1>1 DEF WellTyped, StateOK
<1>3. Kept(h, g)
  BY DEF Kept
<1>4. StateOK(g)
  BY <1>1, <1>2, <1>3, KeptOK
<1> QED
  BY <1>1, <1>3, <1>4 DEF UnmintFusd, Kept, h

\* take_collateral keeps a good state good.
LEMMA TakeCollateralOK ==
  ASSUME NEW f, StateOK(f), NEW k, NEW amount \in Int
  PROVE  StateOK(TakeCollateral(f, k, amount)) /\ Kept(f, TakeCollateral(f, k, amount))
<1> DEFINE g == TakeCollateral(f, k, amount)
<1>1. DOMAIN g = DOMAIN f /\ Kept(f, g)
  BY SMTT(30) DEF Kept, TakeCollateral
<1>2. \A c \in DOMAIN f.collaterals : IsCollateralInfo(g.collaterals[c])
  BY DEF StateOK, WellTyped, IsCollateralInfo, TakeCollateral
<1>3. \A l \in DOMAIN g.tiers : /\ l \in Tiers /\ l[1] \in DOMAIN f.collaterals
                                /\ g.tiers[l] \in InterestInfo /\ g.tiers[l].last <= now
  BY DEF StateOK, WellTyped, InterestInfo, TakeCollateral
<1> HIDE DEF g
<1>4. StateOK(g)
  BY <1>1, <1>2, <1>3, LedgerOK
<1> QED
  BY <1>1, <1>4 DEF g

\* put_collateral keeps a good state good, and so does the tier it may create.
LEMMA PutCollateralOK ==
  ASSUME NEW f, StateOK(f), now \in Nat, NEW k \in Tiers, k[1] \in DOMAIN f.collaterals,
         NEW amount \in Int
  PROVE  StateOK(PutCollateral(f, k, amount)) /\ Kept(f, PutCollateral(f, k, amount))
<1> DEFINE h == InsertInterestInfoIfAbsent(f, k)
           g == [h EXCEPT !.tiers[k].coll = @ + amount,
                !.collaterals[k[1]].amount = @ + amount,
                !.collaterals[k[1]].vault = @ + amount]
<1>1. StateOK(h) /\ Kept(f, h)
  BY InsertInfoOK
<1> HIDE DEF h
<1>2. DOMAIN g = DOMAIN h /\ Kept(h, g)
  BY SMTT(30) DEF Kept
<1>3. \A c \in DOMAIN h.collaterals : IsCollateralInfo(g.collaterals[c])
  BY <1>1 DEF StateOK, WellTyped, IsCollateralInfo
<1>4. \A l \in DOMAIN g.tiers : /\ l \in Tiers /\ l[1] \in DOMAIN h.collaterals
                                /\ g.tiers[l] \in InterestInfo /\ g.tiers[l].last <= now
  BY <1>1 DEF StateOK, WellTyped, InterestInfo
<1>5. g = PutCollateral(f, k, amount)
  BY DEF PutCollateral, h
<1> HIDE DEF g
<1>6. StateOK(g)
  BY <1>1, <1>2, <1>3, <1>4, LedgerOK
<1> QED
  BY <1>1, <1>2, <1>5, <1>6 DEF Kept

\* The leftovers, the uncharged interest and the price can change in any good
\* state.
LEMMA CoinsOK ==
  ASSUME NEW f, StateOK(f), NEW c, NEW amount \in Int, NEW price \in Nat \ {0}
  PROVE  /\ StateOK(PutInLeftovers(f, c, amount)) /\ Kept(f, PutInLeftovers(f, c, amount))
         /\ StateOK(TakeFromLeftovers(f, c, amount)) /\ Kept(f, TakeFromLeftovers(f, c, amount))
         /\ StateOK(PutUncharged(f, c, amount)) /\ Kept(f, PutUncharged(f, c, amount))
         /\ StateOK(WithPrice(f, c, price)) /\ Kept(f, WithPrice(f, c, price))
<1>1. /\ Kept(f, PutInLeftovers(f, c, amount)) /\ Kept(f, TakeFromLeftovers(f, c, amount))
      /\ Kept(f, PutUncharged(f, c, amount)) /\ Kept(f, WithPrice(f, c, price))
  BY DEF Kept, PutInLeftovers, TakeFromLeftovers, PutUncharged, WithPrice
<1>2. WellTyped(PutInLeftovers(f, c, amount))
  BY DEF PutInLeftovers, StateOK, WellTyped, IsCollateralInfo
<1>3. WellTyped(TakeFromLeftovers(f, c, amount))
  BY DEF TakeFromLeftovers, StateOK, WellTyped, IsCollateralInfo
<1>4. WellTyped(PutUncharged(f, c, amount))
  BY DEF PutUncharged, StateOK, WellTyped, IsCollateralInfo
<1>5. WellTyped(WithPrice(f, c, price))
  BY DEF WithPrice, StateOK, WellTyped, IsCollateralInfo
<1> QED
  BY <1>1, <1>2, <1>3, <1>4, <1>5, KeptOK

\* clean_up_interest_info drops a tier or does nothing; the index stays as it is.
LEMMA CleanUpOK ==
  ASSUME NEW f, StateOK(f), NEW k
  PROVE  StateOK(CleanUpInterestInfo(f, k)) /\ Kept(f, CleanUpInterestInfo(f, k))
<1> DEFINE g == [f EXCEPT !.tiers = Without(@, k)]
<1>1. WellTyped(g) /\ Kept(f, g)
  BY DEF StateOK, WellTyped, Kept, Without
<1>2. StateOK(g)
  BY <1>1, KeptOK
<1>3. Kept(f, f)
  BY DEF Kept
<1> HIDE DEF g
<1>4. CleanUpInterestInfo(f, k) = g \/ CleanUpInterestInfo(f, k) = f
  BY DEF CleanUpInterestInfo, g
<1> QED
  BY <1>1, <1>2, <1>3, <1>4

\* e can be the data of a loan in the state f.
LoanOK(f, e) ==
  /\ e \in Cdp /\ e.collateral \in DOMAIN f.collaterals
  /\ e.borrower \in DOMAIN f.borrowers \cup {Nobody} /\ e.lastChange <= now

\* g has the same loans, collaterals and borrowers registered as f, and the same
\* parameters; the data of loans and borrowers may differ.
Frame(f, g) ==
  /\ DOMAIN g.cdps = DOMAIN f.cdps /\ DOMAIN g.collaterals = DOMAIN f.collaterals
  /\ DOMAIN g.borrowers = DOMAIN f.borrowers /\ g.params = f.params

\* What typing says of one loan, for the leaves that read its NFT.
LEMMA LoanTyped ==
  ASSUME NEW f, StateOK(f), NEW id \in DOMAIN f.cdps
  PROVE  /\ LoanOK(f, f.cdps[id]) /\ f.cdps[id] \in Cdp
         /\ Tier(f.cdps[id]) \in Tiers /\ Tier(f.cdps[id])[1] \in DOMAIN f.collaterals
         /\ f.cdps[id].amount \in Int /\ f.cdps[id].pool \in Int
         /\ f.cdps[id].interest \in Interests
BY DEF StateOK, WellTyped, LoanOK, Cdp, Tier, Tiers

\* An NFT can change in a good state as long as what the index was built from,
\* whether it is open, its tier and its ratio, stays.
LEMMA CdpOK ==
  ASSUME NEW f, StateOK(f), NEW id \in DOMAIN f.cdps, NEW e, LoanOK(f, e),
         Active(e) <=> Active(f.cdps[id]),
         Active(e) => Tier(e) = Tier(f.cdps[id]) /\ e.ratio = f.cdps[id].ratio
  PROVE  StateOK([f EXCEPT !.cdps[id] = e])
<1> DEFINE g == [f EXCEPT !.cdps[id] = e]
<1>1. /\ g.cdps = [f.cdps EXCEPT ![id] = e]
      /\ g.ratios = f.ratios /\ g.cdpCounter = f.cdpCounter /\ g.borrowers = f.borrowers
      /\ g.collaterals = f.collaterals /\ g.tiers = f.tiers /\ g.marked = f.marked
      /\ g.params = f.params /\ DOMAIN g = DOMAIN f
  BY DEF StateOK, WellTyped, Fields
<1> HIDE DEF g
<1>2. DOMAIN g.cdps = DOMAIN f.cdps /\ g.cdps[id] = e
       /\ \A x \in DOMAIN f.cdps \ {id} : g.cdps[x] = f.cdps[x]
  BY <1>1
<1>3. WellTyped(g)
  BY <1>1, <1>2 DEF StateOK, WellTyped, LoanOK
<1>4. \A x \in DOMAIN g.cdps :
        /\ Active(g.cdps[x]) <=> Active(f.cdps[x])
        /\ Active(g.cdps[x]) => Tier(g.cdps[x]) = Tier(f.cdps[x]) /\ g.cdps[x].ratio = f.cdps[x].ratio
  BY SMTT(30), <1>2
<1>5. LoansIndexed(g)
  BY <1>1, <1>2, <1>4, SMTT(30) DEF StateOK, LoansIndexed, InIndex
<1>6. VectorsOK(g)
  <2> SUFFICES ASSUME NEW k \in Tiers, NEW cr \in DOMAIN f.ratios[k]
               PROVE  VectorOK(g, k, cr)
    BY <1>1 DEF VectorsOK
  <2> DEFINE ids == f.ratios[k][cr]
  <2>1. VectorOK(f, k, cr)
    BY DEF StateOK, VectorsOK
  <2>2. \A n \in 1 .. Len(ids) : ids[n] \in DOMAIN f.cdps
    BY <2>1 DEF VectorOK
  <2>3. \A n \in 1 .. Len(ids) :
          LET d == g.cdps[ids[n]] IN Active(d) /\ Tier(d) = k /\ d.ratio = cr
    BY <1>2, <1>4, <2>1, <2>2 DEF VectorOK
  <2> QED
    BY <1>1, <1>2, <2>1, <2>3 DEF VectorOK
<1>7. StateOK(g)
  BY <1>3, <1>5, <1>6 DEF StateOK
<1> QED
  BY <1>7 DEF g

\* A loan that is out of the index can end.
LEMMA EndedOK ==
  ASSUME NEW f, WellTyped(f), NEW id \in DOMAIN f.cdps, IndexedBut(f, id),
         NEW e, LoanOK(f, e), ~Active(e)
  PROVE  StateOK([f EXCEPT !.cdps[id] = e])
<1> DEFINE g == [f EXCEPT !.cdps[id] = e]
<1>1. /\ g.cdps = [f.cdps EXCEPT ![id] = e]
      /\ g.ratios = f.ratios /\ g.cdpCounter = f.cdpCounter /\ g.borrowers = f.borrowers
      /\ g.collaterals = f.collaterals /\ g.tiers = f.tiers /\ g.marked = f.marked
      /\ g.params = f.params /\ DOMAIN g = DOMAIN f
  BY DEF WellTyped, Fields
<1> HIDE DEF g
<1>2. DOMAIN g.cdps = DOMAIN f.cdps /\ g.cdps[id] = e
       /\ \A x \in DOMAIN f.cdps \ {id} : g.cdps[x] = f.cdps[x]
  BY <1>1
<1>3. WellTyped(g)
  BY SMTT(30), <1>1, <1>2 DEF WellTyped, LoanOK
<1>5. LoansIndexed(g)
  BY <1>1, <1>2, SMTT(30) DEF LoansIndexed, InIndex, IndexedBut
<1>6. VectorsOK(g)
  <2> SUFFICES ASSUME NEW k \in Tiers, NEW cr \in DOMAIN f.ratios[k]
               PROVE  VectorOK(g, k, cr)
    BY <1>1 DEF VectorsOK
  <2> DEFINE ids == f.ratios[k][cr]
  <2>1. VectorOK(f, k, cr) /\ \A n \in 1 .. Len(ids) : ids[n] # id
    BY DEF IndexedBut
  <2>2. \A n \in 1 .. Len(ids) : ids[n] \in DOMAIN f.cdps
    BY <2>1 DEF VectorOK
  <2>3. \A n \in 1 .. Len(ids) :
          LET d == g.cdps[ids[n]] IN Active(d) /\ Tier(d) = k /\ d.ratio = cr
    BY <1>2, <2>1, <2>2 DEF VectorOK
  <2> QED
    BY <1>1, <1>2, <2>1, <2>3 DEF VectorOK
<1>7. StateOK(g)
  BY <1>3, <1>5, <1>6 DEF StateOK
<1> QED
  BY <1>7 DEF g

\* insert_interest_info_if_absent keeps a state typed while a loan is out of
\* the index.
LEMMA InsertInfoTyped ==
  ASSUME NEW f, NEW k \in Tiers, k[1] \in DOMAIN f.collaterals, WellTyped(f), now \in Nat
  PROVE  /\ WellTyped(InsertInterestInfoIfAbsent(f, k))
         /\ Kept(f, InsertInterestInfoIfAbsent(f, k))
<1> DEFINE info == [pool |-> 0, real |-> 0, coll |-> 0, crs |-> 0, last |-> now]
           g == [f EXCEPT !.tiers = With(@, k, info)]
<1>1. info \in InterestInfo /\ info.last <= now
  BY DEF InterestInfo
<1> HIDE DEF info
<1>2. \A l \in DOMAIN With(f.tiers, k, info) :
        /\ l \in Tiers /\ l[1] \in DOMAIN f.collaterals
        /\ With(f.tiers, k, info)[l] \in InterestInfo
        /\ With(f.tiers, k, info)[l].last <= now
  BY <1>1 DEF With, WellTyped
<1>3. WellTyped(g) /\ Kept(f, g)
  BY <1>2 DEF WellTyped, Kept
<1>4. Kept(f, f)
  BY DEF Kept
<1>5. InsertInterestInfoIfAbsent(f, k) = f \/ InsertInterestInfoIfAbsent(f, k) = g
  BY DEF InsertInterestInfoIfAbsent, info
<1> QED
  BY <1>3, <1>4, <1>5

\* insert_cr makes the index exact again for a loan that is in no vector, new
\* or taken out before, whose NFT then records the tier and the ratio it was
\* inserted with.
LEMMA InsertCrOK ==
  ASSUME NEW f, WellTyped(f), now \in Nat, NEW id \in 1 .. f.cdpCounter, IndexedBut(f, id),
         NEW cdps, DOMAIN cdps = DOMAIN f.cdps \cup {id},
         \A x \in DOMAIN f.cdps \ {id} : cdps[x] = f.cdps[x],
         LoanOK(f, cdps[id]), Active(cdps[id]),
         NEW k \in Tiers, k[1] \in DOMAIN f.collaterals, Tier(cdps[id]) = k,
         NEW cr, cr = cdps[id].ratio
  PROVE  StateOK([InsertCr(f, k, cr, id) EXCEPT !.cdps = cdps])
<1> DEFINE f1 == InsertInterestInfoIfAbsent(f, k)
           vector == IF cr \in DOMAIN f.ratios[k] THEN Append(f.ratios[k][cr], id) ELSE <<id>>
           tree == With(f.ratios[k], cr, vector)
           ratios == [f.ratios EXCEPT ![k] = tree]
           n == IF cr \in DOMAIN f.ratios[k] THEN f1.tiers[k].crs ELSE f1.tiers[k].crs + 1
           f2 == [f1 EXCEPT !.ratios = ratios, !.tiers[k].crs = n]
           g == [InsertCr(f, k, cr, id) EXCEPT !.cdps = cdps]
<1>1. WellTyped(f1) /\ Kept(f, f1)
  BY InsertInfoTyped
<1> HIDE DEF f1
<1>2. DOMAIN f.ratios = Tiers
  BY DEF WellTyped
<1>3. k \in DOMAIN f1.tiers => n \in Int
  BY <1>1 DEF WellTyped, InterestInfo
<1>4. /\ InsertCr(f, k, cr, id).ratios = ratios
      /\ DOMAIN InsertCr(f, k, cr, id) = DOMAIN f1
      /\ DOMAIN InsertCr(f, k, cr, id).tiers = DOMAIN f1.tiers
      /\ \A l \in DOMAIN f1.tiers : InsertCr(f, k, cr, id).tiers[l] = f2.tiers[l]
      /\ InsertCr(f, k, cr, id).cdpCounter = f1.cdpCounter
      /\ InsertCr(f, k, cr, id).borrowers = f1.borrowers
      /\ InsertCr(f, k, cr, id).collaterals = f1.collaterals
      /\ InsertCr(f, k, cr, id).marked = f1.marked
      /\ InsertCr(f, k, cr, id).params = f1.params
  <2>1. CASE cr \in DOMAIN f.ratios[k]
    <3>1. InsertCr(f, k, cr, id) = [f1 EXCEPT !.ratios[k] = With(@, cr, Append(@[cr], id))]
      BY <1>1, <2>1 DEF InsertCr, f1, Kept
    <3>2. \A l \in DOMAIN f1.tiers : f1.tiers[l] = f2.tiers[l]
      BY <2>1, <1>1 DEF WellTyped, InterestInfo, Fields
    <3> QED
      BY <1>1, <2>1, <3>1, <3>2 DEF Kept, WellTyped, Fields
  <2>2. CASE cr \notin DOMAIN f.ratios[k]
    <3>1. InsertCr(f, k, cr, id) = [f1 EXCEPT !.ratios[k] = With(@, cr, <<id>>),
                     !.tiers[k].crs = @ + 1]
      BY <1>1, <2>2 DEF InsertCr, f1, Kept
    <3> QED
      BY <1>1, <2>2, <3>1 DEF Kept, WellTyped, Fields
  <2> QED
    BY <2>1, <2>2
<1>5. WellTyped(f2)
  <2> HIDE DEF n
  <2>1. DOMAIN ratios = Tiers
    BY <1>2
  <2> HIDE DEF ratios
  <2> QED
    BY <1>1, <1>3, <2>1, CrsOK
<1>6. /\ g.cdps = cdps /\ g.ratios = ratios /\ g.borrowers = f.borrowers
      /\ DOMAIN g.collaterals = DOMAIN f.collaterals
  BY <1>1, <1>4 DEF Kept, WellTyped, Fields
<1>7. WellTyped(g)
  <2>1. /\ DOMAIN f2.tiers = DOMAIN g.tiers
        /\ \A l \in DOMAIN g.tiers : g.tiers[l] = f2.tiers[l]
        /\ f2.collaterals = g.collaterals /\ f2.params = g.params
        /\ f2.cdpCounter = g.cdpCounter /\ f2.borrowers = g.borrowers /\ f2.marked = g.marked
        /\ f2.ratios = g.ratios
        /\ DOMAIN g = DOMAIN f2
    BY <1>1, <1>4 DEF Kept, WellTyped, Fields
  <2>2. f.cdpCounter = g.cdpCounter /\ DOMAIN f.cdps \subseteq 1 .. f.cdpCounter
    BY <1>1, <1>4 DEF Kept, WellTyped, Fields
  <2>3. \A x \in DOMAIN cdps : LoanOK(f, cdps[x])
    BY DEF WellTyped, LoanOK
  <2> HIDE DEF g, f2, n, ratios
  <2> QED
    BY <1>5, <1>6, <2>1, <2>2, <2>3 DEF WellTyped, LoanOK
<1> HIDE DEF g, f2, n
<1>8. g.ratios[k] = tree /\ \A l \in Tiers : l # k => g.ratios[l] = f.ratios[l]
  BY <1>2, <1>6
<1>9. /\ tree[cr] = vector /\ cr \in DOMAIN tree
      /\ \A ratio \in DOMAIN tree : ratio # cr =>
           ratio \in DOMAIN f.ratios[k] /\ tree[ratio] = f.ratios[k][ratio]
      /\ DOMAIN f.ratios[k] \subseteq DOMAIN tree
  BY SMTT(30) DEF With
<1> DEFINE s == f.ratios[k][cr]
           Holds(x) == \E m \in 1 .. Len(vector) : vector[m] = x
<1>10. /\ vector \in Seq(DOMAIN cdps) /\ Len(vector) > 0 /\ Distinct(vector)
       /\ Holds(id)
       /\ cr \in DOMAIN f.ratios[k] => \A m \in 1 .. Len(s) : Holds(s[m])
       /\ \A m \in 1 .. Len(vector) : vector[m] = id \/
            (cr \in DOMAIN f.ratios[k] /\ \E o \in 1 .. Len(s) : vector[m] = s[o])
  <2>1. CASE cr \in DOMAIN f.ratios[k]
    <3>1. /\ s \in Seq(DOMAIN f.cdps) /\ Distinct(s)
          /\ \A m \in 1 .. Len(s) : s[m] # id
      BY <2>1 DEF IndexedBut, VectorOK
    <3>2. vector = Append(s, id) /\ DOMAIN f.cdps \subseteq DOMAIN cdps /\ id \in DOMAIN cdps
      BY <2>1
    <3> HIDE DEF s, vector
    <3>3. s \in Seq(DOMAIN cdps)
      BY <3>1, <3>2
    <3>4. /\ vector \in Seq(DOMAIN cdps) /\ Len(vector) = Len(s) + 1
          /\ \A m \in 1 .. Len(s) : vector[m] = s[m]
          /\ vector[Len(s) + 1] = id /\ Distinct(vector)
      BY <3>1, <3>2, <3>3, AppendOK
    <3>5. Len(s) \in Nat
      BY <3>3
    <3>6. \A m \in 1 .. Len(vector) : m \in 1 .. Len(s) \/ m = Len(s) + 1
      BY <3>4, <3>5
    <3>7. Len(s) + 1 \in 1 .. Len(vector) /\ \A m \in 1 .. Len(s) : m \in 1 .. Len(vector)
      BY <3>4, <3>5
    <3>8. \A m \in 1 .. Len(vector) : vector[m] = id \/ \E o \in 1 .. Len(s) : vector[m] = s[o]
      BY <3>4, <3>6
    <3>9. Holds(id)
      BY <3>4, <3>7
    <3>10. \A m \in 1 .. Len(s) : Holds(s[m])
      BY <3>4, <3>7
    <3>11. Len(vector) > 0
      BY <3>4, <3>5
    <3> HIDE DEF Holds
    <3> QED
      BY <2>1, <3>4, <3>8, <3>9, <3>10, <3>11
  <2>2. CASE cr \notin DOMAIN f.ratios[k]
    <3>1. vector = <<id>> /\ id \in DOMAIN cdps
      BY <2>2
    <3> HIDE DEF vector
    <3>2. vector \in Seq(DOMAIN cdps) /\ Len(vector) = 1 /\ vector[1] = id
      BY <3>1
    <3>3. Holds(id) /\ \A m \in 1 .. Len(vector) : vector[m] = id
      BY <3>2
    <3>4. Distinct(vector)
      BY <3>2 DEF Distinct
    <3> HIDE DEF Holds
    <3> QED
      BY <2>2, <3>2, <3>3, <3>4
  <2> QED
    BY <2>1, <2>2
<1> HIDE DEF vector, tree, s
<1>11. ASSUME NEW x \in DOMAIN cdps, Active(cdps[x])
       PROVE  InIndex(g, x)
  <2>1. CASE x = id
    BY <1>6, <1>8, <1>9, <1>10, <2>1 DEF InIndex
  <2>2. CASE x # id
    <3> DEFINE l == Tier(cdps[x])
               r == cdps[x].ratio
    <3>1. cdps[x] = f.cdps[x] /\ InIndex(f, x) /\ x \in DOMAIN f.cdps
      BY SMTT(30), <1>11, <2>2 DEF IndexedBut
    <3>2. /\ l \in Tiers /\ r \in DOMAIN f.ratios[l]
          /\ \E m \in 1 .. Len(f.ratios[l][r]) : f.ratios[l][r][m] = x
      BY <3>1 DEF WellTyped, InIndex, Cdp, Tier, Tiers
    <3>3. SUFFICES /\ r \in DOMAIN g.ratios[l]
                   /\ \E m \in 1 .. Len(g.ratios[l][r]) : g.ratios[l][r][m] = x
      BY <1>6 DEF InIndex
    <3> HIDE DEF l, r
    <3>4. CASE l # k
      BY <1>8, <3>2, <3>4
    <3>5. CASE l = k /\ r # cr
      <4>1. g.ratios[l] = tree /\ r \in DOMAIN f.ratios[k] /\ l = k
        BY <1>8, <3>2, <3>5
      <4>2. r \in DOMAIN tree
        BY <1>9, <4>1
      <4>3. tree[r] = f.ratios[k][r]
        BY <1>9, <3>5, <4>2
      <4> QED
        BY <3>2, <4>1, <4>2, <4>3
    <3>6. CASE l = k /\ r = cr
      <4>1. cr \in DOMAIN f.ratios[k] /\ \E m \in 1 .. Len(s) : s[m] = x
        BY <3>2, <3>6 DEF s
      <4>2. Holds(x)
        BY SMTT(30), <1>10, <4>1
      <4> QED
        BY <1>8, <1>9, <3>6, <4>2
    <3> QED
      BY <3>4, <3>5, <3>6
  <2> QED
    BY <2>1, <2>2
<1>12. ASSUME NEW l \in Tiers, NEW r \in DOMAIN g.ratios[l]
       PROVE  VectorOK(g, l, r)
  <2>1. CASE l = k /\ r = cr
    <3>1. \A m \in 1 .. Len(vector) :
            LET d == cdps[vector[m]] IN Active(d) /\ Tier(d) = k /\ d.ratio = cr
      <4> TAKE m \in 1 .. Len(vector)
      <4>1. CASE vector[m] = id
        BY <4>1
      <4>2. CASE cr \in DOMAIN f.ratios[k] /\ \E o \in 1 .. Len(s) : vector[m] = s[o]
        <5>1. PICK o \in 1 .. Len(s) : vector[m] = s[o]
          BY <4>2
        <5>2. VectorOK(f, k, cr) /\ s[o] # id
          BY SMTT(30), <4>2 DEF IndexedBut, s
        <5>3. s \in Seq(DOMAIN f.cdps)
               /\ LET d == f.cdps[s[o]] IN Active(d) /\ Tier(d) = k /\ d.ratio = cr
          BY <5>2 DEF VectorOK, s
        <5>4. cdps[s[o]] = f.cdps[s[o]]
          BY <5>2, <5>3
        <5> QED
          BY <5>1, <5>3, <5>4
      <4> QED
        BY <4>1, <4>2, <1>10
    <3> QED
      BY <1>6, <1>8, <1>9, <1>10, <2>1, <3>1 DEF VectorOK
  <2>2. CASE ~ (l = k /\ r = cr)
    <3> DEFINE v == f.ratios[l][r]
    <3>1. r \in DOMAIN f.ratios[l] /\ g.ratios[l][r] = v
      BY <1>8, <1>9, <1>12, <2>2
    <3>2. VectorOK(f, l, r) /\ \A m \in 1 .. Len(v) : v[m] # id
      BY SMTT(30), <3>1 DEF IndexedBut
    <3>3. v \in Seq(DOMAIN f.cdps) /\ Len(v) > 0 /\ Distinct(v)
          /\ \A m \in 1 .. Len(v) : LET d == f.cdps[v[m]] IN Active(d) /\ Tier(d) = l /\ d.ratio = r
      BY <3>2 DEF VectorOK
    <3> HIDE DEF v
    <3>4. \A m \in 1 .. Len(v) : v[m] \in DOMAIN f.cdps /\ cdps[v[m]] = f.cdps[v[m]]
      BY <3>2, <3>3
    <3>5. v \in Seq(DOMAIN cdps)
      BY <3>3
    <3> QED
      BY <1>6, <3>1, <3>3, <3>4, <3>5 DEF VectorOK
  <2> QED
    BY <2>1, <2>2
<1>13. LoansIndexed(g) /\ VectorsOK(g)
  BY <1>6, <1>11, <1>12 DEF LoansIndexed, VectorsOK
<1>14. StateOK(g)
  BY <1>7, <1>13 DEF StateOK
<1> QED
  BY <1>14 DEF g

\* remove_cr and insert_cr change the index and number_of_crs only.
LEMMA IndexKeeps ==
  ASSUME NEW f, WellTyped(f), NEW k, NEW cr, NEW id
  PROVE  /\ Frame(f, RemoveCr(f, k, cr, id)) /\ Frame(f, InsertCr(f, k, cr, id))
         /\ RemoveCr(f, k, cr, id).cdps = f.cdps /\ InsertCr(f, k, cr, id).cdps = f.cdps
         /\ RemoveCr(f, k, cr, id).cdpCounter = f.cdpCounter
<1>1. Kept(f, InsertInterestInfoIfAbsent(f, k))
  BY DEF InsertInterestInfoIfAbsent, Kept
<1>2. Frame(f, RemoveCr(f, k, cr, id)) /\ RemoveCr(f, k, cr, id).cdps = f.cdps
       /\ RemoveCr(f, k, cr, id).cdpCounter = f.cdpCounter
  BY DEF RemoveCr, Frame
<1> QED
  BY <1>1, <1>2 DEF InsertCr, Frame, Kept

\* The way every handler changes a loan, out of the index and in again with its
\* NFT updated, keeps a good state good, for every rate, amount and debt; only a
\* zero debt, by which it would divide, is excluded.
LEMMA RelistOK ==
  ASSUME NEW f, StateOK(f), now \in Nat, NEW id \in DOMAIN f.cdps, Active(f.cdps[id]),
         NEW i \in Interests, NEW amount \in Int, NEW pool \in Int, pool # 0
  PROVE  /\ StateOK(Relist(f, id, i, amount, pool))
         /\ Frame(f, Relist(f, id, i, amount, pool))
         /\ Relist(f, id, i, amount, pool).cdps[id].status = f.cdps[id].status
<1> DEFINE d == f.cdps[id]
           cr == Div(amount, pool)
           e == [d EXCEPT !.interest = i, !.ratio = cr, !.amount = amount, !.pool = pool]
           g == RemoveCr(f, Tier(d), d.ratio, id)
           k == <<d.collateral, i>>
           cdps == [f.cdps EXCEPT ![id] = e]
           h == InsertCr(g, k, cr, id)
<1>1. cr \in Int
  BY DivInt
<1>2. d \in Cdp /\ LoanOK(f, d) /\ id \in 1 .. f.cdpCounter
  BY LoanTyped DEF StateOK, WellTyped
<1> HIDE DEF cr
<1>3. LoanOK(f, e) /\ Active(e) /\ Tier(e) = k /\ e.ratio = cr
       /\ e.status = d.status
  BY <1>1, <1>2 DEF LoanOK, Cdp, Active, Tier
<1>4. WellTyped(g) /\ IndexedBut(g, id) /\ Frame(f, g) /\ g.cdps = f.cdps
       /\ g.cdpCounter = f.cdpCounter
  BY RemoveCrOK, IndexKeeps DEF StateOK
<1>5. k \in Tiers /\ k[1] \in DOMAIN f.collaterals
  BY <1>2 DEF LoanOK, Cdp, Tiers
<1> HIDE DEF d, e, g, k
<1>6. /\ DOMAIN cdps = DOMAIN f.cdps \cup {id} /\ cdps[id] = e
      /\ \A x \in DOMAIN f.cdps \ {id} : cdps[x] = f.cdps[x]
      /\ DOMAIN cdps = DOMAIN f.cdps
  OBVIOUS
<1> HIDE DEF cdps
<1>7. LoanOK(g, e)
  BY <1>3, <1>4 DEF LoanOK, Frame
<1>8. k[1] \in DOMAIN g.collaterals
  BY <1>4, <1>5 DEF Frame
<1>9. StateOK([h EXCEPT !.cdps = cdps])
  <2> HIDE DEF h
  <2>1. h = InsertCr(g, k, cr, id)
    BY DEF h
  <2> QED
    BY <1>2, <1>3, <1>4, <1>5, <1>6, <1>7, <1>8, <2>1, InsertCrOK
<1>10. Frame(g, h) /\ h.cdps = f.cdps
  BY <1>4, IndexKeeps
<1>11. Relist(f, id, i, amount, pool) = [h EXCEPT !.cdps = cdps]
  BY <1>10 DEF Relist, h, g, k, d, cr, e, cdps
<1>12. DOMAIN h = Fields
  <2>1. DOMAIN [h EXCEPT !.cdps = cdps] = DOMAIN h
    OBVIOUS
  <2> QED
    BY <1>9, <2>1 DEF StateOK, WellTyped
<1> HIDE DEF h
<1>13. [h EXCEPT !.cdps = cdps].cdps = cdps /\ Frame(h, [h EXCEPT !.cdps = cdps])
  BY <1>6, <1>10, <1>12 DEF Frame, Fields
<1>14. Frame(f, [h EXCEPT !.cdps = cdps])
  BY <1>4, <1>10, <1>13 DEF Frame
<1> QED
  BY <1>3, <1>6, <1>9, <1>11, <1>13, <1>14 DEF d

\* The way a loan ends, out of the index and its tier cleaned up, keeps a good
\* state good.
LEMMA DelistOK ==
  ASSUME NEW f, StateOK(f), NEW id \in DOMAIN f.cdps, Active(f.cdps[id]),
         NEW status \in Statuses \ {"Healthy", "Marked"}, NEW amount \in Int
  PROVE  /\ StateOK(Delist(f, id, status, amount))
         /\ Frame(f, Delist(f, id, status, amount))
         /\ Delist(f, id, status, amount).cdps[id].status = status
<1> DEFINE d == f.cdps[id]
           zero == 0
           e == [d EXCEPT !.status = status, !.pool = zero, !.amount = amount]
           g == RemoveCr(f, Tier(d), d.ratio, id)
           h == [g EXCEPT !.cdps[id] = e]
<1>1. d \in Cdp /\ LoanOK(f, d)
  BY LoanTyped
<1>2. LoanOK(f, e) /\ ~Active(e) /\ e.status = status
  <2>0. status \in Statuses /\ status # "Healthy" /\ status # "Marked"
    OBVIOUS
  <2>1. e \in Cdp /\ e.status = status
    <3>1. zero \in Int
      OBVIOUS
    <3> HIDE DEF zero
    <3> QED
      BY <1>1, <2>0, <3>1 DEF Cdp
  <2>2. /\ e.collateral = d.collateral /\ e.borrower = d.borrower
        /\ e.lastChange = d.lastChange
    BY <1>1 DEF Cdp
  <2> HIDE DEF d, e
  <2> QED
    BY <1>1, <2>0, <2>1, <2>2 DEF LoanOK, Active
<1>3. WellTyped(g) /\ IndexedBut(g, id) /\ Frame(f, g) /\ g.cdps = f.cdps
  BY RemoveCrOK, IndexKeeps DEF StateOK
<1>4. Delist(f, id, status, amount) = CleanUpInterestInfo(h, Tier(d))
  BY DEF Delist
<1> HIDE DEF e, g
<1>5. LoanOK(g, e) /\ id \in DOMAIN g.cdps
  BY <1>2, <1>3 DEF LoanOK, Frame
<1>6. StateOK(h)
  BY <1>2, <1>3, <1>5, EndedOK
<1>7. Frame(g, h) /\ h.cdps[id] = e
  BY <1>3, <1>5 DEF Frame, WellTyped, Fields
<1> HIDE DEF h, d
<1>8. StateOK(CleanUpInterestInfo(h, Tier(d))) /\ Kept(h, CleanUpInterestInfo(h, Tier(d)))
  BY <1>6, CleanUpOK
<1> QED
  BY <1>2, <1>3, <1>4, <1>7, <1>8 DEF Frame, Kept

\* unmark_if_marked keeps a good state good and changes one loan's status and
\* mark only.
LEMMA UnmarkOK ==
  ASSUME NEW f, StateOK(f), NEW id \in DOMAIN f.cdps, Active(f.cdps[id])
  PROVE  /\ StateOK(UnmarkIfMarked(f, id)) /\ Frame(f, UnmarkIfMarked(f, id))
         /\ UnmarkIfMarked(f, id).cdps[id] = [f.cdps[id] EXCEPT !.status = "Healthy"]
         /\ UnmarkIfMarked(f, id).tiers = f.tiers
         /\ UnmarkIfMarked(f, id).collaterals = f.collaterals
<1> DEFINE e == [f.cdps[id] EXCEPT !.status = "Healthy"]
           g == [f EXCEPT !.cdps[id] = e]
           h == [g EXCEPT !.marked = Without(@, id)]
<1>1. f.cdps[id] \in Cdp /\ LoanOK(f, f.cdps[id])
  BY LoanTyped
<1>2. LoanOK(f, e) /\ Active(e) /\ Tier(e) = Tier(f.cdps[id]) /\ e.ratio = f.cdps[id].ratio
  BY <1>1 DEF LoanOK, Cdp, Active, Tier, Statuses
<1>3. StateOK(g)
  <2> HIDE DEF e
  <2> QED
    BY <1>2, CdpOK
<1>4. Frame(f, g) /\ g.cdps[id] = e /\ g.tiers = f.tiers /\ g.collaterals = f.collaterals
  BY DEF Frame, StateOK, WellTyped, Fields
<1>5. h = UnmarkIfMarked(f, id)
  BY DEF UnmarkIfMarked
<1> HIDE DEF g
<1>6. WellTyped(h)
  BY <1>3 DEF StateOK, WellTyped, Without
<1>7. StateOK(h)
  <2>1. h.cdps = g.cdps /\ h.ratios = g.ratios
    OBVIOUS
  <2> HIDE DEF h
  <2> QED
    BY <1>3, <1>6, <2>1, SameIndexOK
<1>8. Frame(g, h) /\ h.cdps = g.cdps /\ h.tiers = g.tiers /\ h.collaterals = g.collaterals
  BY DEF Frame
<1> HIDE DEF h
<1> QED
  BY <1>4, <1>5, <1>7, <1>8 DEF Frame

\* Parameters can change in a good state.
LEMMA ParamsOK ==
  ASSUME NEW f, StateOK(f), NEW p \in ProtocolParameters
  PROVE  StateOK([f EXCEPT !.params = p])
<1> DEFINE g == [f EXCEPT !.params = p]
<1>1. WellTyped(g)
  BY DEF StateOK, WellTyped
<1>2. g.cdps = f.cdps /\ g.ratios = f.ratios
  OBVIOUS
<1> QED
  BY <1>1, <1>2, SameIndexOK

\* The data of borrowers can change in a good state, as long as none goes.
LEMMA BorrowersOK ==
  ASSUME NEW f, StateOK(f), NEW borrowers, DOMAIN borrowers \subseteq Borrowers,
         DOMAIN f.borrowers \subseteq DOMAIN borrowers,
         \A b \in DOMAIN borrowers : borrowers[b] \in Borrower
  PROVE  LET g == [f EXCEPT !.borrowers = borrowers]
         IN  /\ StateOK(g) /\ g.cdps = f.cdps /\ g.borrowers = borrowers
             /\ g.collaterals = f.collaterals /\ g.params = f.params
             /\ g.cdpCounter = f.cdpCounter
<1> DEFINE g == [f EXCEPT !.borrowers = borrowers]
<1>1. /\ g.borrowers = borrowers /\ g.cdpCounter = f.cdpCounter /\ g.cdps = f.cdps
      /\ g.collaterals = f.collaterals /\ g.tiers = f.tiers /\ g.ratios = f.ratios
      /\ g.marked = f.marked /\ g.params = f.params /\ DOMAIN g = DOMAIN f
  BY DEF StateOK, WellTyped, Fields
<1> HIDE DEF g
<1>2. WellTyped(g)
  BY <1>1 DEF StateOK, WellTyped
<1>3. StateOK(g)
  BY <1>1, <1>2, SameIndexOK
<1> QED
  BY <1>1, <1>3 DEF g

\* Adding a loan to coupled_loans keeps a good state good.
LEMMA CoupleOK ==
  ASSUME NEW f, StateOK(f), NEW b \in DOMAIN f.borrowers, NEW id \in Nat
  PROVE  LET g == Couple(f, b, id)
         IN  /\ StateOK(g) /\ g.cdps = f.cdps /\ DOMAIN g.borrowers = DOMAIN f.borrowers
             /\ g.collaterals = f.collaterals /\ g.params = f.params
             /\ g.cdpCounter = f.cdpCounter
<1> DEFINE coupled == f.borrowers[b].coupled
           copies == {e \in coupled : e[1] = id}
           new == coupled \cup {<<id, Cardinality(copies) + 1>>}
           borrowers == [f.borrowers EXCEPT ![b].coupled = new]
           g == [f EXCEPT !.borrowers = borrowers]
<1>1. coupled \subseteq Nat \X Nat /\ IsFiniteSet(coupled)
  BY DEF StateOK, WellTyped, Borrower
<1>2. IsFiniteSet(copies)
  BY <1>1, FS_Subset
<1>3. Cardinality(copies) \in Nat
  BY <1>2, FS_CardinalityType
<1> HIDE DEF copies
<1>4. IsFiniteSet(new)
  BY <1>1, FS_AddElement
<1>5. new \subseteq Nat \X Nat
  BY <1>1, <1>3
<1>6. Couple(f, b, id) = g
  BY DEF Couple, copies
<1> HIDE DEF new
<1>7. /\ DOMAIN borrowers = DOMAIN f.borrowers
      /\ \A c \in DOMAIN borrowers : borrowers[c] \in Borrower
  BY <1>4, <1>5 DEF StateOK, WellTyped, Borrower
<1>8. DOMAIN borrowers \subseteq Borrowers
  BY <1>7 DEF StateOK, WellTyped
<1> HIDE DEF borrowers, g
<1> QED
  BY <1>6, <1>7, <1>8, BorrowersOK DEF g

\* Naming another borrower, or none, in an NFT keeps a good state good.
LEMMA BorrowerChangeOK ==
  ASSUME NEW f, StateOK(f), NEW id \in DOMAIN f.cdps, NEW b \in DOMAIN f.borrowers \cup {Nobody}
  PROVE  LET g == [f EXCEPT !.cdps[id].borrower = b]
         IN  /\ StateOK(g) /\ Frame(f, g) /\ g.cdps[id].status = f.cdps[id].status
             /\ g.collaterals = f.collaterals
<1> DEFINE e == [f.cdps[id] EXCEPT !.borrower = b]
           g == [f EXCEPT !.cdps[id] = e]
<1>1. f.cdps[id] \in Cdp /\ LoanOK(f, f.cdps[id])
  BY LoanTyped
<1>2. b \in Borrowers \cup {Nobody}
  BY DEF StateOK, WellTyped
<1>3. /\ LoanOK(f, e) /\ e.status = f.cdps[id].status /\ Tier(e) = Tier(f.cdps[id])
      /\ e.ratio = f.cdps[id].ratio
  BY <1>1, <1>2 DEF LoanOK, Cdp, Tier
<1>4. g = [f EXCEPT !.cdps[id].borrower = b]
  OBVIOUS
<1> HIDE DEF e
<1>5. StateOK(g)
  BY <1>3, CdpOK DEF Active
<1>6. Frame(f, g) /\ g.cdps[id] = e /\ g.collaterals = f.collaterals
  BY DEF Frame, StateOK, WellTyped, Fields
<1> HIDE DEF g
<1> QED
  BY <1>3, <1>4, <1>5, <1>6

\* link_cdp_to_privileged_borrower keeps a good state good.
LEMMA LinkOK ==
  ASSUME NEW f, StateOK(f), NEW id \in DOMAIN f.cdps, NEW b \in DOMAIN f.borrowers
  PROVE  LET g == LinkCdp(f, b, id)
         IN  /\ StateOK(g) /\ Frame(f, g) /\ g.cdps[id].status = f.cdps[id].status
             /\ g.collaterals = f.collaterals
<1> DEFINE h == Couple(f, b, id)
           g == [h EXCEPT !.cdps[id].borrower = b]
<1>1. id \in Nat
  BY DEF StateOK, WellTyped
<1>2. /\ StateOK(h) /\ h.cdps = f.cdps /\ DOMAIN h.borrowers = DOMAIN f.borrowers
      /\ h.collaterals = f.collaterals /\ h.params = f.params
  BY <1>1, CoupleOK
<1> HIDE DEF h
<1>3. /\ StateOK(g) /\ Frame(h, g) /\ g.cdps[id].status = h.cdps[id].status
      /\ g.collaterals = h.collaterals
  BY <1>2, BorrowerChangeOK
<1>4. g = LinkCdp(f, b, id)
  BY DEF LinkCdp, h
<1> HIDE DEF g
<1> QED
  BY <1>2, <1>3, <1>4 DEF Frame

\* unlink_cdp_from_privileged_borrower keeps a good state good.
LEMMA UnlinkOK ==
  ASSUME NEW f, StateOK(f), NEW id \in DOMAIN f.cdps, NEW b \in DOMAIN f.borrowers
  PROVE  LET g == UnlinkCdp(f, b, id)
         IN  /\ StateOK(g) /\ Frame(f, g) /\ g.cdps[id].status = f.cdps[id].status
             /\ g.collaterals = f.collaterals
<1> DEFINE new == {e \in f.borrowers[b].coupled : e[1] # id}
           borrowers == [f.borrowers EXCEPT ![b].coupled = new]
           h == [f EXCEPT !.borrowers = borrowers]
           g == [h EXCEPT !.cdps[id].borrower = Nobody]
<1>1. f.borrowers[b].coupled \subseteq Nat \X Nat /\ IsFiniteSet(f.borrowers[b].coupled)
  BY DEF StateOK, WellTyped, Borrower
<1>2. new \subseteq Nat \X Nat /\ IsFiniteSet(new)
  BY <1>1, FS_Subset
<1>3. g = UnlinkCdp(f, b, id)
  BY DEF UnlinkCdp
<1> HIDE DEF new
<1>4. /\ DOMAIN borrowers = DOMAIN f.borrowers
      /\ \A c \in DOMAIN borrowers : borrowers[c] \in Borrower
  BY <1>2 DEF StateOK, WellTyped, Borrower
<1>5. DOMAIN borrowers \subseteq Borrowers
  BY <1>4 DEF StateOK, WellTyped
<1> HIDE DEF borrowers
<1>6. /\ StateOK(h) /\ h.cdps = f.cdps /\ DOMAIN h.borrowers = DOMAIN f.borrowers
      /\ h.collaterals = f.collaterals /\ h.params = f.params
  BY <1>4, <1>5, BorrowersOK
<1> HIDE DEF h
<1>7. /\ StateOK(g) /\ Frame(h, g) /\ g.cdps[id].status = h.cdps[id].status
      /\ g.collaterals = h.collaterals
  BY <1>6, BorrowerChangeOK
<1> HIDE DEF g
<1> QED
  BY <1>3, <1>6, <1>7 DEF Frame

\* Unlinking a loan that may not be linked keeps a good state good.
LEMMA UnlinkIfLinkedOK ==
  ASSUME NEW f, StateOK(f), NEW id \in DOMAIN f.cdps
  PROVE  LET g == UnlinkIfLinked(f, id)
         IN  /\ StateOK(g) /\ Frame(f, g) /\ g.cdps[id].status = f.cdps[id].status
             /\ g.collaterals = f.collaterals
<1>1. f.cdps[id].borrower \in DOMAIN f.borrowers \cup {Nobody}
  BY DEF StateOK, WellTyped
<1>2. CASE f.cdps[id].borrower = Nobody
  BY <1>2 DEF UnlinkIfLinked, Frame
<1>3. CASE f.cdps[id].borrower # Nobody
  <2> DEFINE b == f.cdps[id].borrower
  <2>1. b \in DOMAIN f.borrowers /\ UnlinkIfLinked(f, id) = UnlinkCdp(f, b, id)
    BY <1>1, <1>3 DEF UnlinkIfLinked
  <2> HIDE DEF b
  <2> QED
    BY <2>1, UnlinkOK
<1> QED
  BY <1>2, <1>3

\* take_collateral changes no debt multiplier: the guard on it before the call
\* holds after it.
LEMMA TakeKeepsMultiplier ==
  ASSUME NEW f, StateOK(f), NEW k, NEW l, NEW amount
  PROVE  DebtMultiplier(TakeCollateral(f, l, amount), k) = DebtMultiplier(f, k)
<1> DEFINE g == TakeCollateral(f, l, amount)
<1>1. DOMAIN g.tiers = DOMAIN f.tiers
  BY DEF TakeCollateral, StateOK, WellTyped, Fields
<1>2. ASSUME NEW m \in DOMAIN f.tiers
      PROVE  g.tiers[m].pool = f.tiers[m].pool /\ g.tiers[m].real = f.tiers[m].real
  <2>1. f.tiers[m] \in InterestInfo
    BY DEF StateOK, WellTyped
  <2> QED
    BY <2>1 DEF TakeCollateral, InterestInfo, StateOK, WellTyped, Fields
<1> HIDE DEF g
<1>3. DebtMultiplier(g, k) = DebtMultiplier(f, k)
  BY <1>1, <1>2 DEF DebtMultiplier
<1> QED
  BY <1>3 DEF g

\* A state that agrees with a good one on everything typed is good.
LEMMA SameFieldsOK ==
  ASSUME NEW f, NEW g, StateOK(f), DOMAIN g = DOMAIN f,
         g.cdps = f.cdps, g.cdpCounter = f.cdpCounter, g.ratios = f.ratios,
         g.borrowers = f.borrowers, g.params = f.params, g.marked = f.marked,
         g.tiers = f.tiers, g.collaterals = f.collaterals
  PROVE  StateOK(g)
<1>1. WellTyped(g)
  BY DEF StateOK, WellTyped
<1> QED
  BY <1>1, SameIndexOK

-----------------------------------------------------------------------------
(* The handlers.                                                            *)

\* The pool debt and the fee that borrow_more adds are Decimals.
LEMMA FeeTyped ==
  ASSUME NEW f, StateOK(f), NEW id \in DOMAIN f.cdps, NEW amount \in Int,
         NEW withInterest \in BOOLEAN, DebtMultiplier(f, Tier(f.cdps[id])) # 0
  PROVE  /\ BorrowFee(f, id, amount, withInterest) \in Int
         /\ BorrowedPool(f, id, amount, withInterest) \in Int
<1> DEFINE d == f.cdps[id]
           base == RealToPoolDebt(f, Tier(d), amount)
<1>1. d.interest \in Interests
  BY LoanTyped
<1>2. base \in Int
  BY RealToPoolInt DEF StateOK
<1>3. BorrowFee(f, id, amount, withInterest) \in Int
  <2>1. CASE d.interest = Irredeemable \/ ~withInterest
    BY <2>1 DEF BorrowFee
  <2>2. CASE ~(d.interest = Irredeemable \/ ~withInterest)
    <3>1. d.interest \in Rates
      BY <1>1, <2>2 DEF Interests
    <3> HIDE DEF d, base
    <3>2. ExtraInterestDaysFee(f, d.interest, base) \in Int
      BY <1>2, <3>1, FeeInt DEF StateOK
    <3>3. BorrowFee(f, id, amount, withInterest) = ExtraInterestDaysFee(f, d.interest, base)
      BY <2>2 DEF BorrowFee, d, base
    <3> QED
      BY <3>2, <3>3
  <2> QED
    BY <2>1, <2>2
<1> QED
  BY <1>2, <1>3 DEF BorrowedPool

\* The common part of borrow_more, of tagging and of marking for liquidation
\* keeps a good state good.
LEMMA BorrowOK ==
  ASSUME NEW f, StateOK(f), now \in Nat, NEW id \in DOMAIN f.cdps, NEW amount \in Int,
         NEW withInterest \in BOOLEAN, NEW checkCr \in BOOLEAN,
         BorrowAllowed(f, id, amount, withInterest, checkCr)
  PROVE  StateOK(Borrow(f, id, amount, withInterest, checkCr))
<1> DEFINE d == f.cdps[id]
           k == Tier(d)
           more == BorrowedPool(f, id, amount, withInterest)
           fee == PoolToRealDebt(f, k, BorrowFee(f, id, amount, withInterest))
           f1 == IF checkCr THEN UnmarkIfMarked(f, id) ELSE f
           f2 == Relist(f1, id, d.interest, d.amount, d.pool + more)
           f3 == MintFusd(f2, k, more)
           real == PoolToRealDebt(f, k, more)
           f4 == AddDebt(f3, k, real)
<1>1. /\ Active(d) /\ DebtMultiplier(f, k) # 0 /\ d.pool + more # 0
  BY DEF BorrowAllowed, RoomToRelist
<1>2. /\ d.amount \in Int /\ d.pool \in Int /\ d.interest \in Interests
      /\ k \in Tiers /\ k[1] \in DOMAIN f.collaterals
  BY LoanTyped
<1>3. more \in Int /\ fee \in Int
  BY <1>1, FeeTyped, PoolToRealInt DEF StateOK
<1>4. Borrow(f, id, amount, withInterest, checkCr) = PutUncharged(f4, d.collateral, fee)
  BY DEF Borrow
<1>5. /\ StateOK(f1) /\ Frame(f, f1) /\ Active(f1.cdps[id]) /\ id \in DOMAIN f1.cdps
  <2>1. /\ StateOK(UnmarkIfMarked(f, id)) /\ Frame(f, UnmarkIfMarked(f, id))
        /\ UnmarkIfMarked(f, id).cdps[id] = [d EXCEPT !.status = "Healthy"]
    BY <1>1, UnmarkOK
  <2>2. d \in Cdp
    BY LoanTyped
  <2>3. [d EXCEPT !.status = "Healthy"].status = "Healthy"
    BY <2>2 DEF Cdp
  <2> HIDE DEF d
  <2> QED
    BY <1>1, <2>1, <2>3 DEF Frame, Active, d
<1> HIDE DEF d, k, more, fee, f1
<1>6. StateOK(f2) /\ Frame(f1, f2)
  <2>1. d.pool + more \in Int
    BY <1>2, <1>3
  <2> QED
    BY <1>1, <1>2, <1>5, <2>1, RelistOK
<1> HIDE DEF f2
<1>7. k[1] \in DOMAIN f2.collaterals
  BY <1>2, <1>5, <1>6 DEF Frame
<1>8. StateOK(f3)
  BY <1>2, <1>3, <1>6, <1>7, MintOK
<1> HIDE DEF f3
<1>9. StateOK(f4)
  BY <1>8, AddDebtOK
<1> HIDE DEF f4
<1> QED
  BY <1>3, <1>4, <1>9, CoinsOK

-----------------------------------------------------------------------------

\* Storing the price that a call with a price message brings keeps a good state
\* good.
LEMMA PricedOK ==
  ASSUME NEW f, StateOK(f), NEW c, NEW price \in Nat \ {0}
  PROVE  StateOK(WithPrice(f, c, price)) /\ Kept(f, WithPrice(f, c, price))
<1>1. price \in Nat \ {0} /\ 0 \in Int
  BY PriceAssumption
<1> QED
  BY <1>1, CoinsOK

\* borrow_more keeps a good state good.
LEMMA BorrowMoreOK ==
  ASSUME StateOK(flux), now \in Nat, NEW id \in Loans, NEW amount \in ExtraMints,
         NEW price \in Nat \ {0}, BorrowMore(id, amount, price)
  PROVE  StateOK(flux')
<1> DEFINE f1 == WithPrice(flux, flux.cdps[id].collateral, price)
<1>1. StateOK(f1) /\ Kept(flux, f1)
  BY PricedOK
<1>2. BorrowAllowed(f1, id, amount, TRUE, TRUE) /\ flux' = Borrow(f1, id, amount, TRUE, TRUE)
  BY DEF BorrowMore
<1>3. amount \in Int
  BY AmountAssumption
<1> HIDE DEF f1
<1>4. id \in DOMAIN f1.cdps
  BY <1>1 DEF Kept, Loans
<1> QED
  BY <1>1, <1>2, <1>3, <1>4, BorrowOK

\* close_cdp keeps a good state good.
LEMMA CloseOK ==
  ASSUME StateOK(flux), now \in Nat, NEW id \in Loans, CloseCdp(id)
  PROVE  StateOK(flux')
<1> DEFINE d == flux.cdps[id]
           k == Tier(d)
           debt == PoolToRealDebt(flux, k, d.pool)
           f1 == TakeCollateral(flux, k, d.amount)
           f2 == UnmintFusd(f1, k, debt)
           f3 == RemoveDebt(f2, k, debt)
           none == 0
           f4 == Delist(f3, id, "Closed", none)
           f5 == UnlinkIfLinked(f4, id)
<1>1. Active(d) /\ DebtMultiplier(flux, k) # 0 /\ flux' = [f5 EXCEPT !.cdps[id].ratio = 0]
  BY DEF CloseCdp
<1>2. d.amount \in Int /\ d.pool \in Int /\ id \in DOMAIN flux.cdps
  BY LoanTyped DEF Loans
<1>3. debt \in Int
  BY <1>2, PoolToRealInt DEF StateOK
<1> HIDE DEF d, debt
<1>4. StateOK(f1) /\ Kept(flux, f1)
  BY <1>2, TakeCollateralOK
<1>5. DebtMultiplier(f1, k) # 0
  BY <1>1, TakeKeepsMultiplier
<1> HIDE DEF f1, k
<1>6. StateOK(f2) /\ Kept(f1, f2)
  BY <1>3, <1>4, <1>5, UnmintOK
<1> HIDE DEF f2
<1>7. StateOK(f3) /\ Kept(f2, f3)
  BY <1>6, RemoveDebtOK
<1> HIDE DEF f3
<1>8. f3.cdps = flux.cdps /\ id \in DOMAIN f3.cdps /\ Active(f3.cdps[id])
  BY <1>1, <1>2, <1>4, <1>6, <1>7 DEF Kept, d
<1>9. "Closed" \in Statuses \ {"Healthy", "Marked"} /\ none \in Int
  BY DEF Statuses
<1> HIDE DEF none
<1>10. /\ StateOK(f4) /\ Frame(f3, f4)
       /\ f4.cdps[id].status = "Closed"
  BY <1>7, <1>8, <1>9, DelistOK
<1> HIDE DEF f4
<1>11. f4.cdps[id].status = "Closed" /\ id \in DOMAIN f4.cdps
  BY <1>8, <1>10 DEF Frame
<1>12. StateOK(f5) /\ f5.cdps[id].status = "Closed" /\ id \in DOMAIN f5.cdps
  BY <1>10, <1>11, UnlinkIfLinkedOK DEF Frame
<1> HIDE DEF f5
<1> DEFINE e == [f5.cdps[id] EXCEPT !.ratio = 0]
<1>13. f5.cdps[id] \in Cdp /\ LoanOK(f5, f5.cdps[id])
  BY <1>12, LoanTyped
<1>14. LoanOK(f5, e) /\ e.status = "Closed"
  BY <1>12, <1>13 DEF LoanOK, Cdp
<1>15. flux' = [f5 EXCEPT !.cdps[id] = e]
  BY <1>1
<1> HIDE DEF e
<1> QED
  BY SMTT(30), <1>12, <1>14, <1>15, CdpOK DEF Active

\* retrieve_leftover_collateral keeps a good state good.
LEMMA RetrieveOK ==
  ASSUME StateOK(flux), NEW id \in Loans, RetrieveLeftoverCollateral(id)
  PROVE  StateOK(flux')
<1> DEFINE d == flux.cdps[id]
           e == [d EXCEPT !.amount = 0]
           f1 == [flux EXCEPT !.cdps[id] = e]
<1>1. /\ d.status \in {"Liquidated", "Redeemed"}
      /\ flux' = TakeFromLeftovers(f1, d.collateral, d.amount)
  BY DEF RetrieveLeftoverCollateral
<1>2. d \in Cdp /\ LoanOK(flux, d) /\ d.amount \in Int /\ id \in DOMAIN flux.cdps
  BY LoanTyped DEF Loans
<1>3. LoanOK(flux, e) /\ e.status = d.status
  BY <1>2 DEF LoanOK, Cdp
<1> HIDE DEF e
<1>4. StateOK(f1)
  BY <1>1, <1>2, <1>3, CdpOK DEF Active
<1> HIDE DEF f1, d
<1>5. 1 \in Nat \ {0}
  OBVIOUS
<1> QED
  BY <1>1, <1>2, <1>4, <1>5, CoinsOK

\* unmark_if_marked and then listing the loan anew, as top_up_cdp and
\* remove_collateral do, keeps a good state good.
LEMMA UnmarkRelistOK ==
  ASSUME NEW f, StateOK(f), now \in Nat, NEW id \in DOMAIN f.cdps, Active(f.cdps[id]),
         NEW i \in Interests, NEW amount \in Int, NEW pool \in Int, pool # 0
  PROVE  LET g == Relist(UnmarkIfMarked(f, id), id, i, amount, pool)
         IN  StateOK(g) /\ Frame(f, g)
<1> DEFINE h == UnmarkIfMarked(f, id)
           g == Relist(h, id, i, amount, pool)
<1>1. /\ StateOK(h) /\ Frame(f, h) /\ h.cdps[id] = [f.cdps[id] EXCEPT !.status = "Healthy"]
  BY UnmarkOK
<1>2. f.cdps[id] \in Cdp
  BY LoanTyped
<1>3. Active(h.cdps[id]) /\ id \in DOMAIN h.cdps
  BY <1>1, <1>2 DEF Active, Cdp, Frame
<1> HIDE DEF h
<1>4. StateOK(g) /\ Frame(h, g)
  BY <1>1, <1>3, RelistOK
<1> HIDE DEF g
<1>5. Frame(f, g)
  BY <1>1, <1>4 DEF Frame
<1> QED
  BY <1>4, <1>5 DEF g, h

\* top_up_cdp keeps a good state good.
LEMMA TopUpOK ==
  ASSUME StateOK(flux), now \in Nat, NEW id \in Loans, NEW deposit \in TopUps,
         NEW price \in Nat \ {0}, TopUpCdp(id, deposit, price)
  PROVE  StateOK(flux')
<1> DEFINE d == flux.cdps[id]
           amount == d.amount + deposit
           f1 == WithPrice(flux, d.collateral, price)
           f2 == Relist(UnmarkIfMarked(f1, id), id, d.interest, amount, d.pool)
<1>1. /\ Active(d) /\ d.pool # 0 /\ flux' = PutCollateral(f2, Tier(d), deposit)
  BY DEF TopUpCdp, RoomToRelist, WithPrice
<1>2. /\ d.amount \in Int /\ d.pool \in Int /\ d.interest \in Interests
      /\ Tier(d) \in Tiers /\ Tier(d)[1] \in DOMAIN flux.collaterals /\ id \in DOMAIN flux.cdps
  BY LoanTyped DEF Loans
<1>3. deposit \in Int /\ amount \in Int
  BY <1>2, AmountAssumption
<1> HIDE DEF amount
<1>4. StateOK(f1) /\ Kept(flux, f1)
  BY PricedOK
<1>5. id \in DOMAIN f1.cdps /\ Active(f1.cdps[id]) /\ DOMAIN f1.collaterals = DOMAIN flux.collaterals
  BY <1>1, <1>2, <1>4 DEF Kept
<1> HIDE DEF f1, d
<1>6. StateOK(f2) /\ Frame(f1, f2)
  BY <1>1, <1>2, <1>3, <1>4, <1>5, UnmarkRelistOK
<1> HIDE DEF f2
<1>7. Tier(d)[1] \in DOMAIN f2.collaterals
  BY <1>2, <1>5, <1>6 DEF Frame
<1> QED
  BY SMTT(30), <1>1, <1>2, <1>3, <1>6, <1>7, PutCollateralOK

\* remove_collateral keeps a good state good.
LEMMA RemoveCollateralOK ==
  ASSUME StateOK(flux), now \in Nat, NEW id \in Loans, NEW withdrawal \in Withdrawals,
         NEW price \in Nat \ {0}, RemoveCollateral(id, withdrawal, price)
  PROVE  StateOK(flux')
<1> DEFINE d == flux.cdps[id]
           amount == d.amount - withdrawal
           f1 == WithPrice(flux, d.collateral, price)
           f2 == Relist(UnmarkIfMarked(f1, id), id, d.interest, amount, d.pool)
<1>1. /\ Active(d) /\ d.pool # 0 /\ flux' = TakeCollateral(f2, Tier(d), withdrawal)
  BY DEF RemoveCollateral, RoomToRelist, WithPrice
<1>2. /\ d.amount \in Int /\ d.pool \in Int /\ d.interest \in Interests
      /\ id \in DOMAIN flux.cdps
  BY LoanTyped DEF Loans
<1>3. withdrawal \in Int /\ amount \in Int
  BY <1>2, AmountAssumption
<1> HIDE DEF amount
<1>4. StateOK(f1) /\ Kept(flux, f1)
  BY PricedOK
<1>5. id \in DOMAIN f1.cdps /\ Active(f1.cdps[id])
  BY <1>1, <1>2, <1>4 DEF Kept
<1> HIDE DEF f1, d
<1>6. StateOK(f2)
  BY <1>1, <1>2, <1>3, <1>4, <1>5, UnmarkRelistOK
<1> HIDE DEF f2
<1> QED
  BY SMTT(30), <1>1, <1>3, <1>6, TakeCollateralOK

\* partial_close_cdp, which may be close_cdp, keeps a good state good.
LEMMA PartialCloseOK ==
  ASSUME StateOK(flux), now \in Nat, NEW id \in Loans, NEW repayment \in Repayments,
         PartialCloseCdp(id, repayment)
  PROVE  StateOK(flux')
<1> DEFINE d == flux.cdps[id]
           k == Tier(d)
           pool == d.pool - RealToPoolDebt(flux, k, repayment)
           f1 == UnmintFusd(flux, k, repayment)
           f2 == RemoveDebt(f1, k, repayment)
<1>1. Active(d) /\ DebtMultiplier(flux, k) # 0
  BY DEF PartialCloseCdp
<1>2. \/ CloseCdp(id)
      \/ /\ pool # 0
         /\ flux' = Relist(f2, id, d.interest, d.amount, pool)
  BY DEF PartialCloseCdp, RoomToRelist
<1>3. CASE CloseCdp(id)
  BY <1>3, CloseOK
<1>4. CASE pool # 0 /\ flux' = Relist(f2, id, d.interest, d.amount, pool)
  <2>1. /\ d.amount \in Int /\ d.pool \in Int /\ d.interest \in Interests
        /\ id \in DOMAIN flux.cdps
    BY LoanTyped DEF Loans
  <2>2. repayment \in Int
    BY AmountAssumption
  <2>3. RealToPoolDebt(flux, k, repayment) \in Int
    BY <1>1, <2>2, RealToPoolInt DEF StateOK
  <2>4. pool \in Int
    BY <2>1, <2>3
  <2> HIDE DEF pool
  <2>5. StateOK(f1) /\ Kept(flux, f1)
    BY <1>1, <2>2, UnmintOK
  <2> HIDE DEF f1
  <2>6. StateOK(f2) /\ Kept(f1, f2)
    BY <2>5, RemoveDebtOK
  <2> HIDE DEF f2
  <2>7. id \in DOMAIN f2.cdps /\ Active(f2.cdps[id])
    BY <1>1, <2>1, <2>5, <2>6 DEF Kept
  <2> HIDE DEF d
  <2> QED
    BY <1>4, <2>1, <2>4, <2>6, <2>7, RelistOK
<1> QED
  BY <1>2, <1>3, <1>4

\* unmark keeps a good state good.
LEMMA UnmarkActionOK ==
  ASSUME StateOK(flux), NEW id \in Loans, NEW price \in Nat \ {0}, Unmark(id, price)
  PROVE  StateOK(flux')
<1> DEFINE f1 == WithPrice(flux, flux.cdps[id].collateral, price)
<1>1. flux.cdps[id].status = "Marked" /\ flux' = UnmarkIfMarked(f1, id)
  BY DEF Unmark
<1>2. StateOK(f1) /\ Kept(flux, f1)
  BY PricedOK
<1> HIDE DEF f1
<1>3. id \in DOMAIN f1.cdps /\ Active(f1.cdps[id])
  BY <1>1, <1>2 DEF Kept, Loans, Active
<1> QED
  BY <1>1, <1>2, <1>3, UnmarkOK

\* The mark of a loan, with the time of its liquidation.
WithMark(f, id, until) ==
  [f EXCEPT !.cdps[id].status = "Marked", !.marked = With(@, id, until)]

\* It keeps a good state good.
LEMMA MarkedOK ==
  ASSUME NEW f, StateOK(f), NEW id \in DOMAIN f.cdps, Active(f.cdps[id]), NEW until \in Nat
  PROVE  LET g == WithMark(f, id, until)
         IN  StateOK(g) /\ DOMAIN g.cdps = DOMAIN f.cdps
<1> DEFINE d == f.cdps[id]
           e == [d EXCEPT !.status = "Marked"]
           f2 == [f EXCEPT !.cdps[id] = e]
           f3 == [f2 EXCEPT !.marked = With(@, id, until)]
<1>1. d \in Cdp /\ LoanOK(f, d)
  BY LoanTyped
<1>2. /\ LoanOK(f, e) /\ Active(e) /\ Tier(e) = Tier(d) /\ e.ratio = d.ratio
  BY <1>1 DEF LoanOK, Cdp, Active, Tier, Statuses
<1>3. f3 = WithMark(f, id, until)
  BY DEF WithMark
<1> HIDE DEF e
<1>4. StateOK(f2) /\ DOMAIN f2.cdps = DOMAIN f.cdps
  <2>1. StateOK(f2)
    BY <1>2, CdpOK
  <2> QED
    BY <2>1 DEF StateOK, WellTyped, Fields
<1> HIDE DEF f2
<1>5. StateOK(f3) /\ f3.cdps = f2.cdps
  <2>1. WellTyped(f3)
    BY <1>4 DEF StateOK, WellTyped, With
  <2>2. f3.cdps = f2.cdps /\ f3.ratios = f2.ratios
    BY <1>4 DEF StateOK, WellTyped, Fields
  <2> HIDE DEF f3
  <2> QED
    BY <1>4, <2>1, <2>2, SameIndexOK
<1> HIDE DEF f3
<1> QED
  BY <1>3, <1>4, <1>5

\* liquidate_cdp of a loan with a notice, which is marked and borrows the fee,
\* keeps a good state good.
LEMMA MarkOK ==
  ASSUME StateOK(flux), now \in Nat, NEW id \in Loans, NEW price \in Nat \ {0},
         MarkForLiquidation(id, price)
  PROVE  StateOK(flux')
<1> DEFINE d == flux.cdps[id]
           f1 == WithPrice(flux, d.collateral, price)
           until == now + flux.borrowers[d.borrower].notice
           f2 == WithMark(f1, id, until)
           fee == flux.params.noticeFee
<1>1. /\ Active(f1.cdps[id])
      /\ f1.cdps[id].borrower # Nobody
      /\ f1.borrowers[f1.cdps[id].borrower].notice # NoNotice
      /\ BorrowAllowed(f2, id, fee, FALSE, FALSE)
      /\ flux' = Borrow(f2, id, fee, FALSE, FALSE)
  BY DEF MarkForLiquidation, CanLiquidate, HasNotice, WithMark
<1>2. StateOK(f1) /\ Kept(flux, f1)
  BY PricedOK
<1> HIDE DEF f1
<1>3. id \in DOMAIN f1.cdps /\ f1.cdps[id] = d /\ f1.borrowers = flux.borrowers
  BY <1>2 DEF Kept, Loans
<1>4. LoanOK(f1, d)
  BY <1>2, <1>3, LoanTyped
<1>5. until \in Nat
  <2>1. d.borrower \in DOMAIN flux.borrowers
    BY SMTT(30), <1>1, <1>3, <1>4 DEF LoanOK
  <2>2. flux.borrowers[d.borrower].notice \in Nat
    BY <1>1, <1>3, <2>1 DEF StateOK, WellTyped, Borrower
  <2> QED
    BY <2>2
<1> HIDE DEF until
<1>6. StateOK(f2) /\ DOMAIN f2.cdps = DOMAIN f1.cdps
  BY <1>1, <1>2, <1>3, <1>5, MarkedOK
<1> HIDE DEF f2
<1>7. fee \in Int
  BY DEF StateOK, WellTyped, ProtocolParameters
<1> HIDE DEF fee
<1> QED
  BY <1>1, <1>3, <1>6, <1>7, BorrowOK

\* The liquidation ratio is a Decimal.
LEMMA LcrInt ==
  ASSUME NEW f, StateOK(f), NEW k, k[1] \in DOMAIN f.collaterals
  PROVE  Lcr(f, k) \in Int
<1> DEFINE info == f.collaterals[k[1]]
<1>1. info.mcr \in Int /\ info.price \in Int /\ info.price # 0
  BY DEF StateOK, WellTyped, IsCollateralInfo
<1>2. DebtMultiplier(f, k) \in Int
  BY MultiplierInt DEF StateOK
<1> HIDE DEF info
<1>3. Div(DebtMultiplier(f, k), info.price) \in Int
  BY <1>1, <1>2, DivInt
<1> QED
  BY <1>1, <1>3, MulInt DEF Lcr, info

\* The collateral ratio in terms of value is a Decimal.
LEMMA CrPercentageInt ==
  ASSUME NEW f, StateOK(f), NEW id \in DOMAIN f.cdps, f.cdps[id].pool # 0,
         Lcr(f, Tier(f.cdps[id])) # 0
  PROVE  CrPercentage(f, id) \in Int
<1> DEFINE d == f.cdps[id]
           mcr == f.collaterals[d.collateral].mcr
<1>1. /\ d.amount \in Int /\ d.pool \in Int /\ Tier(d)[1] \in DOMAIN f.collaterals
      /\ LoanOK(f, d)
  BY LoanTyped
<1>2. mcr \in Int
  BY <1>1 DEF LoanOK, StateOK, WellTyped, IsCollateralInfo
<1>3. Div(d.amount, d.pool) \in Int
  BY <1>1, DivInt
<1>4. Lcr(f, Tier(d)) \in Int
  BY <1>1, LcrInt
<1> HIDE DEF mcr
<1>5. Mul(mcr, Div(d.amount, d.pool)) \in Int
  BY <1>2, <1>3, MulInt
<1>6. Div(Mul(mcr, Div(d.amount, d.pool)), Lcr(f, Tier(d))) \in Int
  BY <1>4, <1>5, DivInt
<1> QED
  BY <1>6 DEF CrPercentage, mcr

\* A loan that ends and is unlinked leaves a good state good.
LEMMA EndLoanOK ==
  ASSUME NEW f, StateOK(f), NEW id \in DOMAIN f.cdps, Active(f.cdps[id]),
         NEW status \in Statuses \ {"Healthy", "Marked"}, NEW amount \in Int
  PROVE  StateOK(UnlinkIfLinked(Delist(f, id, status, amount), id))
<1> DEFINE g == Delist(f, id, status, amount)
<1>1. StateOK(g) /\ Frame(f, g)
  BY DelistOK
<1> HIDE DEF g
<1>2. id \in DOMAIN g.cdps
  BY <1>1 DEF Frame
<1>3. StateOK(UnlinkIfLinked(g, id))
  BY <1>1, <1>2, UnlinkIfLinkedOK
<1> QED
  BY <1>3 DEF g

\* Burning what is repaid keeps a good state good.
LEMMA RepaidOK ==
  ASSUME NEW f, StateOK(f), NEW k, NEW real \in Int, DebtMultiplier(f, k) # 0
  PROVE  LET g == RemoveDebt(UnmintFusd(f, k, real), k, real) IN StateOK(g) /\ Kept(f, g)
<1> DEFINE h == UnmintFusd(f, k, real)
           g == RemoveDebt(h, k, real)
<1>1. StateOK(h) /\ Kept(f, h)
  BY UnmintOK
<1> HIDE DEF h
<1>2. StateOK(g) /\ Kept(h, g)
  BY <1>1, RemoveDebtOK
<1> HIDE DEF g
<1>3. Kept(f, g)
  BY <1>1, <1>2 DEF Kept
<1> QED
  BY <1>2, <1>3 DEF g, h

\* liquidate_cdp of a loan without a notice, or after it, keeps a good state good.
LEMMA LiquidateOK ==
  ASSUME StateOK(flux), now \in Nat, NEW id \in Loans, NEW price \in Nat \ {0},
         Liquidate(id, price)
  PROVE  StateOK(flux')
<1> DEFINE d == flux.cdps[id]
           k == Tier(d)
           f1 == WithPrice(flux, d.collateral, price)
           debt == PoolToRealDebt(f1, k, d.pool)
           worth == Div(d.amount, CrPercentage(f1, id))
           payout == Lesser(d.amount, Mul(f1.params.liquidationFine, worth) + worth)
           left == d.amount - payout
           f2 == IF d.status = "Marked" THEN UnlinkIfLinked(f1, id) ELSE f1
           f3 == RemoveDebt(UnmintFusd(f2, k, debt), k, debt)
           f4 == TakeCollateral(f3, k, d.amount)
           f5 == PutInLeftovers(f4, d.collateral, left)
<1>1. /\ Active(f1.cdps[id]) /\ f1.cdps[id].pool # 0 /\ DebtMultiplier(f1, k) # 0
      /\ Lcr(f1, k) # 0 /\ CrPercentage(f1, id) # 0
      /\ flux' = Delist(f5, id, "Liquidated", left)
  BY DEF Liquidate, CanLiquidate
<1>2. StateOK(f1) /\ Kept(flux, f1)
  BY PricedOK
<1> HIDE DEF f1
<1>3. id \in DOMAIN f1.cdps /\ f1.cdps[id] = d
  BY <1>2 DEF Kept, Loans
<1>4. d.amount \in Int /\ d.pool \in Int
  BY <1>2, <1>3, LoanTyped
<1>5. debt \in Int
  BY <1>2, <1>4, PoolToRealInt DEF StateOK
<1>6. left \in Int
  <2>1. CrPercentage(f1, id) \in Int
    BY <1>1, <1>2, <1>3, CrPercentageInt
  <2>2. worth \in Int
    BY <1>1, <1>4, <2>1, DivInt
  <2>3. f1.params.liquidationFine \in Int
    BY <1>2 DEF StateOK, WellTyped, ProtocolParameters
  <2> HIDE DEF worth
  <2>4. Mul(f1.params.liquidationFine, worth) \in Int
    BY <2>2, <2>3, MulInt
  <2>5. payout \in Int
    BY <1>4, <2>2, <2>4 DEF Lesser
  <2> QED
    BY <1>4, <2>5
<1> HIDE DEF debt, left
<1>7. /\ StateOK(f2) /\ id \in DOMAIN f2.cdps /\ Active(f2.cdps[id])
      /\ DebtMultiplier(f2, k) # 0
  <2>1. /\ StateOK(UnlinkIfLinked(f1, id)) /\ Frame(f1, UnlinkIfLinked(f1, id))
        /\ UnlinkIfLinked(f1, id).cdps[id].status = f1.cdps[id].status
    BY <1>2, <1>3, UnlinkIfLinkedOK
  <2>2. UnlinkIfLinked(f1, id).tiers = f1.tiers
    BY DEF UnlinkIfLinked, UnlinkCdp
  <2>3. DebtMultiplier(UnlinkIfLinked(f1, id), k) # 0
    BY <1>1, <2>2 DEF DebtMultiplier
  <2> HIDE DEF d, k
  <2> QED
    BY <1>1, <1>2, <1>3, <2>1, <2>3 DEF Frame, Active
<1> HIDE DEF f2, k
<1>8. StateOK(f3) /\ Kept(f2, f3)
  BY <1>5, <1>7, RepaidOK
<1> HIDE DEF f3
<1>9. StateOK(f4) /\ Kept(f3, f4)
  BY <1>4, <1>8, TakeCollateralOK
<1> HIDE DEF f4
<1>10. StateOK(f5) /\ Kept(f4, f5)
  <2>1. 1 \in Nat \ {0}
    OBVIOUS
  <2> QED
    BY <1>6, <1>9, <2>1, CoinsOK
<1> HIDE DEF f5
<1>11. id \in DOMAIN f5.cdps /\ Active(f5.cdps[id])
  BY <1>7, <1>8, <1>9, <1>10 DEF Kept
<1>12. "Liquidated" \in Statuses \ {"Healthy", "Marked"}
  BY DEF Statuses
<1> HIDE DEF d
<1> QED
  BY SMTT(30), <1>1, <1>6, <1>10, <1>11, <1>12, DelistOK

\* The collateral that a redemption takes is a Decimal.
LEMMA TakenInt ==
  ASSUME NEW f, StateOK(f), NEW id \in DOMAIN f.cdps, f.cdps[id].pool # 0,
         Lcr(f, Tier(f.cdps[id])) # 0, CrPercentage(f, id) # 0,
         NEW part \in Int, NEW share \in Int
  PROVE  CollateralTaken(f, id, part, share) \in Int
<1>1. f.cdps[id].amount \in Int
  BY LoanTyped
<1>2. CrPercentage(f, id) \in Int
  BY CrPercentageInt
<1>3. Mul(Mul(f.cdps[id].amount, part), share) \in Int
  BY <1>1, MulInt
<1> QED
  BY <1>2, <1>3, DivInt DEF CollateralTaken

\* The redemption of one loan, in part or whole, keeps a good state good.
LEMMA RedeemOK ==
  ASSUME NEW f, StateOK(f), now \in Nat, NEW id \in DOMAIN f.cdps, Active(f.cdps[id]),
         NEW payment \in Int, NEW share \in Int, RedeemLoan(f, id, payment, share)
  PROVE  StateOK(flux')
<1> DEFINE d == f.cdps[id]
           k == Tier(d)
           asked == RealToPoolDebt(f, k, payment)
           over == asked > d.pool
           part == IF over THEN ONE ELSE Div(asked, d.pool)
           paid == IF over THEN PoolToRealDebt(f, k, d.pool) ELSE payment
           pool == IF over THEN 0 ELSE d.pool - asked
           taken == CollateralTaken(f, id, part, share)
           amount == IF taken > d.amount THEN 0 ELSE d.amount - taken
           f1 == RemoveDebt(UnmintFusd(f, k, paid), k, paid)
           f2 == TakeCollateral(f1, k, d.amount)
           f3 == PutCollateral(f2, k, amount)
           f4 == Relist(f3, id, d.interest, amount, pool)
           f5 == PutInLeftovers(f2, d.collateral, amount)
<1>1. /\ DebtMultiplier(f, k) # 0 /\ d.pool # 0 /\ Lcr(f, k) # 0 /\ CrPercentage(f, id) # 0
      /\ \/ pool # 0 /\ flux' = CleanUpInterestInfo(f4, k)
         \/ flux' = UnlinkIfLinked(Delist(f5, id, "Redeemed", amount), id)
  BY DEF RedeemLoan, RoomToRelist
<1>2. /\ d.amount \in Int /\ d.pool \in Int /\ d.interest \in Interests
      /\ k \in Tiers /\ k[1] \in DOMAIN f.collaterals
  BY LoanTyped
<1>3. asked \in Int
  BY <1>1, RealToPoolInt DEF StateOK
<1> HIDE DEF asked
<1>4. part \in Int
  BY <1>1, <1>2, <1>3, DivInt, DecimalAssumption
<1>5. paid \in Int
  BY <1>2, PoolToRealInt DEF StateOK
<1>6. pool \in Int
  BY <1>2, <1>3
<1> HIDE DEF part, paid, pool
<1>7. amount \in Int
  <2>1. taken \in Int
    BY <1>1, <1>4, TakenInt
  <2> HIDE DEF taken
  <2> QED
    BY <1>2, <2>1
<1> HIDE DEF amount
<1>8. StateOK(f1) /\ Kept(f, f1)
  BY <1>1, <1>5, RepaidOK
<1> HIDE DEF f1
<1>9. StateOK(f2) /\ Kept(f1, f2)
  BY <1>2, <1>8, TakeCollateralOK
<1> HIDE DEF f2
<1>10. f2.cdps = f.cdps /\ DOMAIN f2.collaterals = DOMAIN f.collaterals
  BY <1>8, <1>9 DEF Kept
<1>11. CASE pool # 0 /\ flux' = CleanUpInterestInfo(f4, k)
  <2>1. k[1] \in DOMAIN f2.collaterals
    BY <1>2, <1>10
  <2> HIDE DEF k, d
  <2>2. StateOK(f3) /\ Kept(f2, f3)
    BY <1>2, <1>7, <1>9, <2>1, PutCollateralOK
  <2> HIDE DEF f3
  <2>3. id \in DOMAIN f3.cdps /\ Active(f3.cdps[id])
    BY <1>10, <2>2 DEF Kept
  <2>4. StateOK(f4)
    BY <1>2, <1>6, <1>7, <1>11, <2>2, <2>3, RelistOK
  <2> HIDE DEF f4
  <2> QED
    BY <1>11, <2>4, CleanUpOK
<1>12. CASE flux' = UnlinkIfLinked(Delist(f5, id, "Redeemed", amount), id)
  <2>1. 1 \in Nat \ {0}
    OBVIOUS
  <2>2. StateOK(f5) /\ Kept(f2, f5)
    BY <1>7, <1>9, <2>1, CoinsOK
  <2> HIDE DEF f5
  <2>3. id \in DOMAIN f5.cdps /\ Active(f5.cdps[id])
    BY <1>10, <2>2 DEF Kept
  <2>4. "Redeemed" \in Statuses \ {"Healthy", "Marked"}
    BY DEF Statuses
  <2> QED
    BY <1>7, <1>12, <2>2, <2>3, <2>4, EndLoanOK
<1> QED
  BY <1>1, <1>11, <1>12

\* redemption keeps a good state good: by the index invariant, what it finds
\* first is an open loan.
LEMMA RedemptionOK ==
  ASSUME StateOK(flux), now \in Nat, NEW c \in Listed, NEW payment \in Nat,
         NEW share \in 0 .. ONE, NEW price \in Nat \ {0}, Redemption(c, payment, share, price)
  PROVE  StateOK(flux')
<1> DEFINE f == WithPrice(flux, c, price)
<1>1. StateOK(f)
  BY PricedOK
<1>2. CASE flux' = f
  BY <1>1, <1>2
<1>3. ASSUME NEW i \in RatesInUse(f, c), NEW cr \in DOMAIN f.ratios[<<c, i>>],
             RedeemLoan(f, f.ratios[<<c, i>>][cr][1], payment, share)
      PROVE  StateOK(flux')
  <2> DEFINE ids == f.ratios[<<c, i>>][cr]
  <2> HIDE DEF f
  <2>1. <<c, i>> \in Tiers
    BY <1>1, <1>3 DEF RatesInUse, StateOK, WellTyped, Tiers
  <2>2. VectorOK(f, <<c, i>>, cr)
    BY SMTT(30), <1>1, <2>1 DEF StateOK, VectorsOK
  <2>3. ids \in Seq(DOMAIN f.cdps) /\ 1 \in 1 .. Len(ids) /\ Active(f.cdps[ids[1]])
    BY <2>2, SMTT(30) DEF VectorOK
  <2>4. ids[1] \in DOMAIN f.cdps
    BY <2>3
  <2>5. payment \in Int /\ share \in Int
    BY AmountAssumption
  <2> QED
    BY <1>1, <1>3, <2>3, <2>4, <2>5, RedeemOK
<1> QED
  BY <1>2, <1>3 DEF Redemption

\* The pool debt at the new rate and the fee of the change are Decimals.
LEMMA ChangedPoolInt ==
  ASSUME NEW f, StateOK(f), NEW id \in DOMAIN f.cdps, NEW i \in Interests,
         DebtMultiplier(f, <<f.cdps[id].collateral, i>>) # 0
  PROVE  ChangeFee(f, id, i) \in Int /\ ChangedPool(f, id, i) \in Int
<1> DEFINE d == f.cdps[id]
           debt == PoolToRealDebt(f, Tier(d), d.pool)
           base == RealToPoolDebt(f, <<d.collateral, i>>, debt)
<1>1. debt \in Int
  BY LoanTyped, PoolToRealInt DEF StateOK
<1> HIDE DEF debt
<1>2. base \in Int
  BY <1>1, RealToPoolInt DEF StateOK
<1> HIDE DEF base
<1>3. ChangeFee(f, id, i) \in Int
  <2>1. CASE now < d.lastChange + f.params.cooldown /\ i # Irredeemable
    <3>1. i \in Rates
      BY <2>1 DEF Interests
    <3>2. ExtraInterestDaysFee(f, i, base) \in Int
      BY <1>2, <3>1, FeeInt DEF StateOK
    <3>3. ChangeFee(f, id, i) = ExtraInterestDaysFee(f, i, base)
      BY <2>1 DEF ChangeFee, base, debt
    <3> QED
      BY <3>2, <3>3
  <2>2. CASE ~(now < d.lastChange + f.params.cooldown /\ i # Irredeemable)
    BY <2>2 DEF ChangeFee
  <2> QED
    BY <2>1, <2>2
<1>4. ChangedPool(f, id, i) = base + ChangeFee(f, id, i)
  BY DEF ChangedPool, base, debt
<1> QED
  BY <1>2, <1>3, <1>4

\* The first part of change_cdp_interest, the link, keeps a good state good.
LEMMA RelinkedOK ==
  ASSUME NEW f, StateOK(f), NEW id \in DOMAIN f.cdps, NEW i, NEW b,
         i = Irredeemable => b \in DOMAIN f.borrowers
  PROVE  LET g == Relinked(f, id, i, b)
         IN  /\ StateOK(g) /\ Frame(f, g) /\ g.cdps[id].status = f.cdps[id].status
<1>1. CASE i = Irredeemable
  BY <1>1, LinkOK DEF Relinked
<1>2. CASE i # Irredeemable
  BY <1>2, UnlinkIfLinkedOK DEF Relinked
<1> QED
  BY <1>1, <1>2

\* Its second part, the fee and the collateral, keeps a good state good.
LEMMA CollateralMovedOK ==
  ASSUME NEW f, StateOK(f), now \in Nat, NEW id \in DOMAIN f.cdps, NEW i \in Interests, NEW b,
         i = Irredeemable => b \in DOMAIN f.borrowers,
         DebtMultiplier(f, <<f.cdps[id].collateral, i>>) # 0
  PROVE  LET g == CollateralMoved(f, id, i, b)
         IN  /\ StateOK(g) /\ Frame(f, g) /\ g.cdps[id].status = f.cdps[id].status
<1> DEFINE d == f.cdps[id]
           new == <<d.collateral, i>>
           fee == ChangeFee(f, id, i)
           real == PoolToRealDebt(f, new, fee)
           f1 == Relinked(f, id, i, b)
           g1 == MintFusd(f1, new, fee)
           g2 == AddDebt(g1, new, real)
           g3 == PutUncharged(g2, d.collateral, real)
           f2 == IF fee = 0 THEN f1 ELSE g3
           f3 == TakeCollateral(f2, Tier(d), d.amount)
           f4 == PutCollateral(f3, new, d.amount)
<1>1. d.amount \in Int /\ new \in Tiers /\ new[1] \in DOMAIN f.collaterals
  BY LoanTyped DEF LoanOK, Cdp, Tiers
<1>2. fee \in Int /\ real \in Int
  BY ChangedPoolInt, PoolToRealInt DEF StateOK
<1>3. f4 = CollateralMoved(f, id, i, b)
  BY DEF CollateralMoved
<1>4. StateOK(f1) /\ Frame(f, f1) /\ f1.cdps[id].status = d.status
  BY RelinkedOK
<1> HIDE DEF d, new, fee, real, f1
<1>5. new[1] \in DOMAIN f1.collaterals
  BY <1>1, <1>4 DEF Frame
<1>6. StateOK(g1) /\ Kept(f1, g1)
  BY <1>1, <1>2, <1>4, <1>5, MintOK
<1> HIDE DEF g1
<1>7. StateOK(g2) /\ Kept(g1, g2)
  BY <1>6, AddDebtOK
<1> HIDE DEF g2
<1>8. StateOK(g3) /\ Kept(g2, g3)
  <2>1. 1 \in Nat \ {0}
    OBVIOUS
  <2> QED
    BY <1>2, <1>7, <2>1, CoinsOK
<1> HIDE DEF g3
<1>9. StateOK(f2) /\ Kept(f1, f2)
  BY <1>4, <1>6, <1>7, <1>8 DEF Kept
<1> HIDE DEF f2
<1>10. StateOK(f3) /\ Kept(f2, f3)
  BY <1>1, <1>9, TakeCollateralOK
<1> HIDE DEF f3
<1>11. new[1] \in DOMAIN f3.collaterals
  BY <1>5, <1>9, <1>10 DEF Kept
<1>12. StateOK(f4) /\ Kept(f3, f4)
  BY <1>1, <1>10, <1>11, PutCollateralOK
<1> HIDE DEF f4
<1>13. Frame(f, f4) /\ f4.cdps[id].status = d.status
  BY <1>4, <1>9, <1>10, <1>12 DEF Frame, Kept
<1> QED
  BY <1>3, <1>12, <1>13 DEF d

\* The whole of change_cdp_interest after its checks keeps a good state good.
LEMMA ChangeInterestOK ==
  ASSUME NEW f, StateOK(f), now \in Nat, NEW id \in DOMAIN f.cdps, NEW i \in Interests,
         NEW b \in DOMAIN f.borrowers \cup {Nobody}, ChangeAllowed(f, id, i, b)
  PROVE  LET g == ChangeInterest(f, id, i, b) IN StateOK(g) /\ id \in DOMAIN g.cdps
<1> DEFINE d == f.cdps[id]
           old == Tier(d)
           new == <<d.collateral, i>>
           pool == ChangedPool(f, id, i)
           debt == PoolToRealDebt(f, old, d.pool)
           f1 == CollateralMoved(f, id, i, b)
           f2 == LeaveTier(f1, old, debt)
           f3 == EnterTier(f2, new, debt)
           f4 == Relist(UnmarkIfMarked(f3, id), id, i, d.amount, pool)
           e == [f4.cdps[id] EXCEPT !.lastChange = now]
           f5 == [f4 EXCEPT !.cdps[id] = e]
           f6 == CleanUpInterestInfo(f5, old)
<1>1. /\ d.status = "Healthy" /\ DebtMultiplier(f, new) # 0
      /\ DebtMultiplier(f1, old) # 0 /\ DebtMultiplier(f2, new) # 0 /\ pool # 0
      /\ i = Irredeemable => b # Nobody
  BY DEF ChangeAllowed, RoomToRelist
<1>2. f6 = ChangeInterest(f, id, i, b)
  BY DEF ChangeInterest, InterestMoved, MoveFusdInterest
<1>3. d.amount \in Int /\ d.pool \in Int
  BY LoanTyped
<1>4. debt \in Int /\ pool \in Int
  BY <1>1, <1>3, PoolToRealInt, ChangedPoolInt DEF StateOK
<1>5. StateOK(f1) /\ Frame(f, f1) /\ f1.cdps[id].status = d.status
  BY <1>1, CollateralMovedOK
<1> HIDE DEF pool, debt, f1
<1>6. StateOK(f2) /\ Kept(f1, f2)
  BY <1>1, <1>4, <1>5, LeaveTierOK
<1> HIDE DEF f2, old
<1>7. StateOK(f3) /\ Kept(f2, f3)
  BY <1>1, <1>4, <1>6, EnterTierOK
<1> HIDE DEF f3, new
<1>8. id \in DOMAIN f3.cdps /\ Active(f3.cdps[id])
  BY <1>1, <1>5, <1>6, <1>7 DEF Frame, Kept, Active
<1> HIDE DEF d
<1>9. StateOK(f4) /\ Frame(f3, f4) /\ Active(f4.cdps[id])
  <2> DEFINE h == UnmarkIfMarked(f3, id)
  <2>1. /\ StateOK(h) /\ Frame(f3, h) /\ h.cdps[id] = [f3.cdps[id] EXCEPT !.status = "Healthy"]
    BY <1>7, <1>8, UnmarkOK
  <2>2. f3.cdps[id] \in Cdp
    BY <1>7, <1>8, LoanTyped
  <2>3. id \in DOMAIN h.cdps /\ h.cdps[id].status = "Healthy" /\ h.cdps[id] \in Cdp
    BY <1>8, <2>1, <2>2, LoanTyped DEF Frame, Cdp
  <2>4. Active(h.cdps[id])
    BY <2>3 DEF Active
  <2>5. f4 = Relist(h, id, i, d.amount, pool)
    OBVIOUS
  <2> HIDE DEF h, f4
  <2>6. /\ StateOK(f4) /\ Frame(h, f4)
        /\ f4.cdps[id].status = h.cdps[id].status
    <3>1. StateOK(h) /\ id \in DOMAIN h.cdps /\ Active(h.cdps[id])
      BY <2>1, <2>3, <2>4
    <3>2. d.amount \in Int /\ pool \in Int /\ pool # 0
      BY <1>1, <1>3, <1>4
    <3> QED
      BY <2>5, <3>1, <3>2, RelistOK
  <2>7. f4.cdps[id].status = "Healthy"
    BY <2>3, <2>6
  <2> QED
    BY <2>1, <2>6, <2>7 DEF Frame, Active
<1> HIDE DEF f4
<1>10. id \in DOMAIN f4.cdps
  BY <1>8, <1>9 DEF Frame
<1>11. f4.cdps[id] \in Cdp /\ LoanOK(f4, f4.cdps[id])
  BY <1>9, <1>10, LoanTyped
<1>12. /\ LoanOK(f4, e) /\ Active(e) /\ Tier(e) = Tier(f4.cdps[id]) /\ e.ratio = f4.cdps[id].ratio
  BY <1>9, <1>11 DEF LoanOK, Cdp, Active, Tier
<1> HIDE DEF e
<1>13. StateOK(f5)
  BY <1>9, <1>10, <1>12, CdpOK
<1>14. id \in DOMAIN f5.cdps
  BY <1>9, <1>10 DEF StateOK, WellTyped, Fields
<1> HIDE DEF f5
<1>15. StateOK(f6) /\ Kept(f5, f6)
  BY <1>13, CleanUpOK
<1> HIDE DEF f6
<1> QED
  BY <1>2, <1>14, <1>15 DEF Kept

\* change_cdp_interest keeps a good state good.
LEMMA ChangeCdpInterestOK ==
  ASSUME StateOK(flux), now \in Nat, NEW id \in Loans, NEW i \in Interests,
         NEW b \in Registered \cup {Nobody}, NEW price \in Nat \ {0},
         ChangeCdpInterest(id, i, b, price)
  PROVE  StateOK(flux')
<1> DEFINE f1 == WithPrice(flux, flux.cdps[id].collateral, price)
<1>1. ChangeAllowed(f1, id, i, b) /\ flux' = ChangeInterest(f1, id, i, b)
  BY DEF ChangeCdpInterest
<1>2. StateOK(f1) /\ Kept(flux, f1)
  BY PricedOK
<1> HIDE DEF f1
<1>3. id \in DOMAIN f1.cdps /\ b \in DOMAIN f1.borrowers \cup {Nobody}
  BY <1>2 DEF Kept, Loans, Registered
<1> QED
  BY <1>1, <1>2, <1>3, ChangeInterestOK

\* tag_irredeemable, which unlinks, changes the rate and borrows the fee, keeps a
\* good state good.
LEMMA TagOK ==
  ASSUME StateOK(flux), now \in Nat, NEW id \in Loans, NEW i \in Rates, TagIrredeemable(id, i)
  PROVE  StateOK(flux')
<1> DEFINE f1 == UnlinkIfLinked(flux, id)
           f2 == ChangeInterest(f1, id, i, Nobody)
           fee == flux.params.tagFee
<1>1. /\ ChangeAllowed(f1, id, i, Nobody)
      /\ BorrowAllowed(f2, id, fee, FALSE, FALSE)
      /\ flux' = Borrow(f2, id, fee, FALSE, FALSE)
  BY DEF TagIrredeemable
<1>2. StateOK(f1) /\ id \in DOMAIN f1.cdps
  BY UnlinkIfLinkedOK DEF Loans, Frame
<1> HIDE DEF f1
<1>3. StateOK(f2) /\ id \in DOMAIN f2.cdps
  BY <1>1, <1>2, ChangeInterestOK DEF Interests
<1> HIDE DEF f2
<1>4. fee \in Int
  BY DEF StateOK, WellTyped, ProtocolParameters
<1> HIDE DEF fee
<1> QED
  BY <1>1, <1>3, <1>4, BorrowOK

\* open_cdp keeps a good state good: the next cdp_counter is the id of no loan,
\* so the new one is in no vector yet.
LEMMA OpenOK ==
  ASSUME StateOK(flux), now \in Nat, NEW c \in Listed, NEW deposit \in Deposits,
         NEW mint \in Mints, NEW i \in Interests, NEW b \in Registered \cup {Nobody},
         NEW price \in Nat \ {0}, OpenCdp(c, deposit, mint, i, b, price)
  PROVE  StateOK(flux')
<1> DEFINE id == flux.cdpCounter + 1
           k == <<c, i>>
           f0 == [flux EXCEPT !.cdpCounter = id]
           f1 == WithPrice(f0, c, price)
           f2 == IF b = Nobody THEN f1 ELSE Couple(f1, b, id)
           base == RealToPoolDebt(f2, k, mint)
           fee == IF i = Irredeemable THEN 0 ELSE ExtraInterestDaysFee(f2, i, base)
           realFee == PoolToRealDebt(f2, k, fee)
           pool == base + fee
           minted == PoolToRealDebt(f2, k, pool)
           cr == Div(deposit, pool)
           g1 == MintFusd(f2, k, pool)
           g2 == AddDebt(g1, k, minted)
           f3 == PutCollateral(g2, k, deposit)
           g3 == InsertCr(f3, k, cr, id)
           f4 == PutUncharged(g3, c, realFee)
           cdp == [collateral |-> c, amount |-> deposit, interest |-> i,
                   pool |-> pool, ratio |-> cr, status |-> "Healthy",
                   borrower |-> b, lastChange |-> now]
           loans == With(f3.cdps, id, cdp)
<1>1. /\ DebtMultiplier(flux, k) # 0 /\ pool # 0
      /\ flux' = [f4 EXCEPT !.cdps = With(@, id, cdp)]
  BY DEF OpenCdp
<1>2. c \in DOMAIN flux.collaterals /\ c \in Collaterals /\ k \in Tiers /\ k[1] = c
  BY DEF Listed, StateOK, WellTyped, Tiers
<1>3. deposit \in Int /\ mint \in Int
  BY AmountAssumption
<1>4. id \in Nat /\ id \notin DOMAIN flux.cdps /\ id \in 1 .. id
  BY DEF StateOK, WellTyped
<1>5. /\ StateOK(f0) /\ f0.cdps = flux.cdps /\ f0.tiers = flux.tiers /\ f0.cdpCounter = id
      /\ f0.borrowers = flux.borrowers /\ f0.collaterals = flux.collaterals
  <2>1. WellTyped(f0) /\ f0.cdps = flux.cdps /\ f0.ratios = flux.ratios
    BY <1>4 DEF StateOK, WellTyped
  <2>2. /\ f0.tiers = flux.tiers /\ f0.borrowers = flux.borrowers
        /\ f0.collaterals = flux.collaterals /\ f0.cdpCounter = id
    BY DEF StateOK, WellTyped, Fields
  <2> HIDE DEF f0
  <2> QED
    BY <2>1, <2>2, SameIndexOK
<1> HIDE DEF id, f0, k
<1>6. StateOK(f1) /\ Kept(f0, f1) /\ f1.tiers = f0.tiers
  <2>1. f1.tiers = f0.tiers
    BY DEF WithPrice
  <2> QED
    BY <1>5, <2>1, PricedOK
<1> HIDE DEF f1
<1>7. /\ StateOK(f2) /\ f2.cdps = flux.cdps /\ f2.tiers = flux.tiers /\ f2.cdpCounter = id
      /\ DOMAIN f2.borrowers = DOMAIN flux.borrowers
      /\ DOMAIN f2.collaterals = DOMAIN flux.collaterals
  <2>1. CASE b = Nobody
    BY <1>5, <1>6, <2>1 DEF Kept
  <2>2. CASE b # Nobody
    <3>1. b \in DOMAIN f1.borrowers
      BY <1>5, <1>6, <2>2 DEF Registered, Kept
    <3>2. f2 = Couple(f1, b, id) /\ f2.tiers = f1.tiers
      BY <2>2 DEF Couple
    <3> HIDE DEF f2
    <3>3. /\ StateOK(f2) /\ f2.cdps = f1.cdps /\ DOMAIN f2.borrowers = DOMAIN f1.borrowers
          /\ f2.collaterals = f1.collaterals /\ f2.cdpCounter = f1.cdpCounter
      BY <1>4, <1>6, <3>1, <3>2, CoupleOK
    <3> QED
      BY <1>5, <1>6, <3>2, <3>3 DEF Kept
  <2> QED
    BY <2>1, <2>2
<1> HIDE DEF f2
<1>8. base \in Int
  <2>1. DebtMultiplier(f2, k) # 0
    BY <1>1, <1>7 DEF DebtMultiplier
  <2> QED
    BY <1>3, <1>7, <2>1, RealToPoolInt DEF StateOK
<1> HIDE DEF base
<1>9. fee \in Int
  BY <1>7, <1>8, FeeInt DEF Interests, StateOK
<1> HIDE DEF fee
<1>10. realFee \in Int /\ pool \in Int
  BY <1>7, <1>8, <1>9, PoolToRealInt DEF StateOK
<1> HIDE DEF realFee, pool, minted
<1>11. cr \in Int
  BY <1>1, <1>3, <1>10, DivInt
<1> HIDE DEF cr
<1>12. StateOK(g1) /\ Kept(f2, g1)
  BY <1>2, <1>7, <1>10, MintOK
<1> HIDE DEF g1
<1>13. StateOK(g2) /\ Kept(g1, g2)
  BY <1>12, AddDebtOK
<1> HIDE DEF g2
<1>14. k[1] \in DOMAIN g2.collaterals
  BY <1>2, <1>7, <1>12, <1>13 DEF Kept
<1>15. StateOK(f3) /\ Kept(g2, f3)
  BY <1>2, <1>3, <1>13, <1>14, PutCollateralOK
<1> HIDE DEF f3
<1>16. /\ f3.cdps = flux.cdps /\ f3.cdpCounter = id
       /\ DOMAIN f3.borrowers = DOMAIN flux.borrowers
       /\ DOMAIN f3.collaterals = DOMAIN flux.collaterals
  BY <1>7, <1>12, <1>13, <1>15 DEF Kept
<1>17. LoanOK(f3, cdp) /\ Active(cdp) /\ Tier(cdp) = k /\ cdp.ratio = cr
  <2>1. b \in DOMAIN f3.borrowers \cup {Nobody} /\ b \in Borrowers \cup {Nobody}
    BY <1>16 DEF Registered, StateOK, WellTyped
  <2>2. cdp \in Cdp
    BY <1>2, <1>3, <1>10, <1>11, <2>1 DEF Cdp, Statuses
  <2> QED
    BY <1>2, <1>16, <2>1, <2>2 DEF LoanOK, Active, Tier, k
<1>18. IndexedBut(f3, id)
  <2>1. \A x \in DOMAIN f3.cdps \ {id} : Active(f3.cdps[x]) => InIndex(f3, x)
    BY SMTT(30), <1>15 DEF StateOK, LoansIndexed
  <2>2. ASSUME NEW l \in Tiers, NEW r \in DOMAIN f3.ratios[l]
        PROVE  VectorOK(f3, l, r) /\ \A n \in 1 .. Len(f3.ratios[l][r]) : f3.ratios[l][r][n] # id
    <3>1. VectorOK(f3, l, r)
      BY <1>15 DEF StateOK, VectorsOK
    <3> QED
      BY <1>4, <1>16, <3>1, SMTT(30) DEF VectorOK
  <2> QED
    BY <2>1, <2>2 DEF IndexedBut
<1> HIDE DEF cdp
<1>19. /\ DOMAIN loans = DOMAIN f3.cdps \cup {id} /\ loans[id] = cdp
       /\ \A x \in DOMAIN f3.cdps \ {id} : loans[x] = f3.cdps[x]
  BY DEF With
<1>20. g3.cdps = f3.cdps /\ DOMAIN g3 = Fields
  <2>1. g3.cdps = f3.cdps
    BY <1>15, IndexKeeps DEF StateOK
  <2>2. DOMAIN g3 = DOMAIN f3
    BY DEF InsertCr, InsertInterestInfoIfAbsent
  <2> QED
    BY <1>15, <2>1, <2>2 DEF StateOK, WellTyped
<1> HIDE DEF loans
<1> DEFINE h == [g3 EXCEPT !.cdps = loans]
           g4 == PutUncharged(h, c, realFee)
<1>21. StateOK(h)
  <2>1. id \in 1 .. f3.cdpCounter /\ k[1] \in DOMAIN f3.collaterals
    BY <1>2, <1>4, <1>16
  <2>2. WellTyped(f3)
    BY <1>15 DEF StateOK
  <2> QED
    BY <1>2, <1>17, <1>18, <1>19, <2>1, <2>2, InsertCrOK
<1> HIDE DEF g3
<1>22. StateOK(g4)
  <2>1. 1 \in Nat \ {0}
    OBVIOUS
  <2> HIDE DEF h
  <2> QED
    BY <1>10, <1>21, <2>1, CoinsOK
<1>23. /\ DOMAIN flux' = DOMAIN g4 /\ flux'.cdps = g4.cdps /\ flux'.cdpCounter = g4.cdpCounter
       /\ flux'.ratios = g4.ratios /\ flux'.borrowers = g4.borrowers
       /\ flux'.params = g4.params /\ flux'.marked = g4.marked /\ flux'.tiers = g4.tiers
       /\ flux'.collaterals = g4.collaterals
  BY <1>1, <1>20 DEF PutUncharged, Fields, loans
<1> HIDE DEF g4
<1> QED
  BY SMTT(30), <1>22, <1>23, SameFieldsOK

\* charge_interest over any range of rates keeps a good state good.
LEMMA ChargeOK ==
  ASSUME StateOK(flux), now \in 0 .. MaxTime, NEW c, NEW range,
         NEW rate0 \in Rates, ChargeInterest(c, range, rate0)
  PROVE  StateOK(flux')
<1> DEFINE rate(k) == IF k[2] = Irredeemable THEN rate0 ELSE k[2]
           grown(k) == Mul(Growth[rate(k)][now - flux.tiers[k].last], flux.tiers[k].real)
           charge(k) == [flux.tiers[k] EXCEPT !.last = now, !.real = grown(k)]
<1>1. PICK charged, mint :
        flux' = [flux EXCEPT !.tiers = [k \in DOMAIN flux.tiers |->
                                IF k \in charged THEN charge(k) ELSE flux.tiers[k]],
                              !.circulating = @ + mint, !.collaterals[c].debt = @ + mint,
                              !.collaterals[c].uncharged = 0]
  BY DEF ChargeInterest
<1>2. ASSUME NEW k \in DOMAIN flux.tiers
      PROVE  charge(k) \in InterestInfo /\ charge(k).last <= now
  <2>1. /\ flux.tiers[k] \in InterestInfo /\ flux.tiers[k].last <= now
        /\ k[2] \in Interests
    BY DEF StateOK, WellTyped, Tiers
  <2>2. rate(k) \in Rates
    BY <2>1 DEF Interests
  <2>3. now - flux.tiers[k].last \in 0 .. MaxTime /\ flux.tiers[k].real \in Int
    BY <2>1, TimeAssumption DEF InterestInfo
  <2> DEFINE growth == Growth[rate(k)][now - flux.tiers[k].last]
             real == Mul(growth, flux.tiers[k].real)
             info == [flux.tiers[k] EXCEPT !.last = now, !.real = real]
  <2>4. growth \in Int
    BY <2>2, <2>3, GrowthAssumption
  <2> HIDE DEF growth
  <2>5. real \in Int /\ now \in Nat
    <3>1. now \in Nat
      BY TimeAssumption
    <3>2. flux.tiers[k].real \in Int
      BY <2>3
    <3>3. real \in Int
      BY <2>4, <3>2, MulInt
    <3> QED
      BY <3>1, <3>3
  <2>6. charge(k) = info
    BY DEF growth
  <2> HIDE DEF real, charge
  <2>7. info \in InterestInfo /\ info.last = now
    BY <2>1, <2>5 DEF InterestInfo
  <2> HIDE DEF info
  <2> QED
    BY <2>5, <2>6, <2>7
<1> HIDE DEF charge
<1>3. DOMAIN flux' = DOMAIN flux /\ Kept(flux, flux')
  BY <1>1 DEF Kept, StateOK, WellTyped, Fields
<1>4. \A d \in DOMAIN flux.collaterals : IsCollateralInfo(flux'.collaterals[d])
  BY <1>1 DEF StateOK, WellTyped, Fields, IsCollateralInfo
<1>5. \A k \in DOMAIN flux'.tiers :
        /\ k \in Tiers /\ k[1] \in DOMAIN flux.collaterals
        /\ flux'.tiers[k] \in InterestInfo /\ flux'.tiers[k].last <= now
  <2>1. /\ DOMAIN flux'.tiers = DOMAIN flux.tiers
        /\ \A k \in DOMAIN flux.tiers : flux'.tiers[k] = charge(k) \/ flux'.tiers[k] = flux.tiers[k]
    BY <1>1 DEF StateOK, WellTyped, Fields
  <2> QED
    BY <1>2, <2>1 DEF StateOK, WellTyped
<1> QED
  BY SMTT(30), <1>3, <1>4, <1>5, LedgerOK

\* burn_loan_receipt keeps a good state good: it burns only the receipt of an
\* ended loan, which is in no vector.
LEMMA BurnReceiptOK ==
  ASSUME StateOK(flux), NEW id \in Loans, BurnLoanReceipt(id)
  PROVE  StateOK(flux')
<1> DEFINE g == [flux EXCEPT !.cdps = Without(@, id)]
<1>1. ~Active(flux.cdps[id]) /\ flux' = g
  BY DEF BurnLoanReceipt, Active
<1>2. WellTyped(g) /\ g.ratios = flux.ratios /\ DOMAIN g.cdps = DOMAIN flux.cdps \ {id}
       /\ \A x \in DOMAIN g.cdps : g.cdps[x] = flux.cdps[x]
  BY DEF StateOK, WellTyped, Without
<1> HIDE DEF g
<1>3. LoansIndexed(g)
  BY <1>2 DEF StateOK, LoansIndexed, InIndex
<1>4. ASSUME NEW k \in Tiers, NEW cr \in DOMAIN g.ratios[k]
      PROVE  VectorOK(g, k, cr)
  <2> DEFINE v == flux.ratios[k][cr]
  <2>1. VectorOK(flux, k, cr)
    BY <1>2, <1>4 DEF StateOK, VectorsOK
  <2>2. /\ v \in Seq(DOMAIN flux.cdps) /\ Len(v) > 0 /\ Distinct(v)
        /\ \A m \in 1 .. Len(v) : LET d == flux.cdps[v[m]] IN Active(d) /\ Tier(d) = k /\ d.ratio = cr
    BY <2>1 DEF VectorOK
  <2> HIDE DEF v
  <2>3. \A m \in 1 .. Len(v) : v[m] \in DOMAIN g.cdps
    BY <1>1, <1>2, <2>2
  <2>4. v \in Seq(DOMAIN g.cdps)
    BY <2>2, <2>3, SeqOf
  <2>5. g.ratios[k][cr] = v
    BY <1>2 DEF v
  <2> QED
    BY <1>2, <2>2, <2>3, <2>4, <2>5 DEF VectorOK
<1> QED
  BY <1>1, <1>2, <1>3, <1>4 DEF StateOK, VectorsOK

\* new_collateral keeps a good state good.
LEMMA NewCollateralOK ==
  ASSUME StateOK(flux), NEW c \in Collaterals, NEW mcr \in Mcrs, NEW price \in Prices,
         NewCollateral(c, mcr, price)
  PROVE  StateOK(flux')
<1> DEFINE info == [mcr |-> mcr, price |-> price, accepted |-> TRUE, debt |-> 0,
                    amount |-> 0, vault |-> 0, leftovers |-> 0, uncharged |-> 0]
           g == [flux EXCEPT !.collaterals = With(@, c, info)]
<1>1. flux' = g
  BY DEF NewCollateral
<1>2. IsCollateralInfo(info)
  BY PriceAssumption DEF IsCollateralInfo
<1> HIDE DEF info
<1>3. WellTyped(g)
  BY <1>2 DEF StateOK, WellTyped, With
<1>4. g.cdps = flux.cdps /\ g.ratios = flux.ratios
  OBVIOUS
<1> HIDE DEF g
<1> QED
  BY <1>1, <1>3, <1>4, SameIndexOK

\* edit_collateral keeps a good state good.
LEMMA EditCollateralOK ==
  ASSUME StateOK(flux), NEW c, NEW mcr \in Mcrs, NEW accepted \in Acceptances,
         EditCollateral(c, mcr, accepted)
  PROVE  StateOK(flux')
<1> DEFINE g == [flux EXCEPT !.collaterals[c].mcr = mcr, !.collaterals[c].accepted = accepted]
<1>1. flux' = g
  BY DEF EditCollateral
<1>2. mcr \in Nat \ {0} /\ accepted \in BOOLEAN
  BY PriceAssumption, AmountAssumption
<1>3. WellTyped(g)
  BY <1>2 DEF StateOK, WellTyped, IsCollateralInfo
<1>4. g.cdps = flux.cdps /\ g.ratios = flux.ratios
  OBVIOUS
<1> HIDE DEF g
<1> QED
  BY <1>1, <1>3, <1>4, SameIndexOK

\* create_privileged_borrower keeps a good state good.
LEMMA CreateBorrowerOK ==
  ASSUME StateOK(flux), NEW b \in Borrowers, NEW terms \in BorrowerTerms,
         CreatePrivilegedBorrower(b, terms)
  PROVE  StateOK(flux')
<1> DEFINE new == [optOut |-> terms.optOut, notice |-> terms.notice,
                   maxCoupled |-> terms.maxCoupled, coupled |-> {}]
           borrowers == With(flux.borrowers, b, new)
<1>1. flux' = [flux EXCEPT !.borrowers = borrowers]
  BY DEF CreatePrivilegedBorrower
<1>2. /\ terms.optOut \in BOOLEAN /\ terms.notice \in Nat \cup {NoNotice}
      /\ terms.maxCoupled \in Nat
  BY TermsAssumption
<1>3. IsFiniteSet({}) /\ {} \subseteq Nat \X Nat
  BY FS_EmptySet
<1>4. new \in Borrower
  BY <1>2, <1>3 DEF Borrower
<1> HIDE DEF new
<1>5. /\ DOMAIN borrowers \subseteq Borrowers /\ DOMAIN flux.borrowers \subseteq DOMAIN borrowers
      /\ \A x \in DOMAIN borrowers : borrowers[x] \in Borrower
  BY <1>4 DEF With, StateOK, WellTyped
<1> HIDE DEF borrowers
<1> QED
  BY <1>1, <1>5, BorrowersOK

\* edit_privileged_borrower keeps a good state good.
LEMMA EditBorrowerOK ==
  ASSUME StateOK(flux), NEW b \in Registered, NEW terms \in BorrowerTerms,
         EditPrivilegedBorrower(b, terms)
  PROVE  StateOK(flux')
<1> DEFINE new == [flux.borrowers[b] EXCEPT !.optOut = terms.optOut, !.notice = terms.notice,
                                            !.maxCoupled = terms.maxCoupled]
           borrowers == [flux.borrowers EXCEPT ![b] = new]
<1>1. flux' = [flux EXCEPT !.borrowers = borrowers]
  BY DEF EditPrivilegedBorrower
<1>2. /\ terms.optOut \in BOOLEAN /\ terms.notice \in Nat \cup {NoNotice}
      /\ terms.maxCoupled \in Nat
  BY TermsAssumption
<1>3. flux.borrowers[b] \in Borrower
  BY DEF Registered, StateOK, WellTyped
<1>4. new \in Borrower
  BY <1>2, <1>3 DEF Borrower
<1> HIDE DEF new
<1>5. /\ DOMAIN borrowers \subseteq Borrowers /\ DOMAIN flux.borrowers \subseteq DOMAIN borrowers
      /\ \A x \in DOMAIN borrowers : borrowers[x] \in Borrower
  BY <1>4 DEF StateOK, WellTyped
<1> HIDE DEF borrowers
<1> QED
  BY <1>1, <1>5, BorrowersOK

\* The five setters of parameters keep a good state good.
LEMMA SettingOK ==
  ASSUME StateOK(flux),
         \/ \E s \in StopSettings : SetStops(s)
         \/ \E length \in VectorLengths : SetMaxVectorLength(length)
         \/ \E amount \in MinimumMints : SetMinimumMint(amount)
         \/ \E s \in FineSettings : SetFines(s)
         \/ \E s \in InterestSettings : SetInterestParams(s)
  PROVE  StateOK(flux')
<1>1. flux.params \in ProtocolParameters
  BY DEF StateOK, WellTyped
<1>2. ASSUME NEW p \in ProtocolParameters, flux' = [flux EXCEPT !.params = p]
      PROVE  StateOK(flux')
  BY <1>2, ParamsOK
<1>3. ASSUME NEW s \in StopSettings, SetStops(s)
      PROVE  StateOK(flux')
  <2> DEFINE p == [flux.params EXCEPT !.stopLiquidations = s.liquidations,
                     !.stopOpenings = s.openings, !.stopClosings = s.closings,
                     !.stopRedemption = s.redemption]
  <2>1. flux' = [flux EXCEPT !.params = p]
    BY <1>3 DEF SetStops
  <2>2. /\ s.liquidations \in BOOLEAN /\ s.openings \in BOOLEAN
        /\ s.closings \in BOOLEAN /\ s.redemption \in BOOLEAN
    BY SettingAssumption
  <2>3. p \in ProtocolParameters
    BY <1>1, <2>2 DEF ProtocolParameters
  <2> QED
    BY <1>2, <2>1, <2>3
<1>4. ASSUME NEW length \in VectorLengths, SetMaxVectorLength(length)
      PROVE  StateOK(flux')
  <2> DEFINE p == [flux.params EXCEPT !.maxVectorLength = length]
  <2>1. flux' = [flux EXCEPT !.params = p]
    BY <1>4 DEF SetMaxVectorLength
  <2>2. p \in ProtocolParameters
    BY <1>1, SettingAssumption DEF ProtocolParameters
  <2> QED
    BY <1>2, <2>1, <2>2
<1>5. ASSUME NEW amount \in MinimumMints, SetMinimumMint(amount)
      PROVE  StateOK(flux')
  <2> DEFINE p == [flux.params EXCEPT !.minimumMint = amount]
  <2>1. flux' = [flux EXCEPT !.params = p]
    BY <1>5 DEF SetMinimumMint
  <2>2. p \in ProtocolParameters
    BY <1>1, SettingAssumption DEF ProtocolParameters
  <2> QED
    BY <1>2, <2>1, <2>2
<1>6. ASSUME NEW s \in FineSettings, SetFines(s)
      PROVE  StateOK(flux')
  <2> DEFINE p == [flux.params EXCEPT !.liquidationFine = s.fine,
                     !.noticeFee = s.noticeFee, !.tagFee = s.tagFee]
  <2>1. flux' = [flux EXCEPT !.params = p]
    BY <1>6 DEF SetFines
  <2>2. s.fine \in Nat /\ s.noticeFee \in Nat /\ s.tagFee \in Nat
    BY SettingAssumption
  <2>3. p \in ProtocolParameters
    BY <1>1, <2>2 DEF ProtocolParameters
  <2> QED
    BY <1>2, <2>1, <2>3
<1>7. ASSUME NEW s \in InterestSettings, SetInterestParams(s)
      PROVE  StateOK(flux')
  <2> DEFINE p == [flux.params EXCEPT !.maxInterest = s.max,
                     !.interestInterval = s.interval, !.cooldown = s.cooldown,
                     !.extraDays = s.days]
  <2>1. flux' = [flux EXCEPT !.params = p]
    BY <1>7 DEF SetInterestParams
  <2>2. /\ s.max \in Nat /\ s.interval \in Nat \ {0} /\ s.cooldown \in Nat
        /\ s.days \in 0 .. MaxTime
    BY SettingAssumption
  <2>3. p \in ProtocolParameters
    BY <1>1, <2>2 DEF ProtocolParameters
  <2> QED
    BY <1>2, <2>1, <2>3
<1> QED
  BY <1>3, <1>4, <1>5, <1>6, <1>7

\* Every call about a loan keeps a good state good.
LEMMA LoanCallOK ==
  ASSUME StateOK(flux), now \in Nat, NEW id \in Loans, LoanCall(id)
  PROVE  StateOK(flux')
<1>1. ASSUME NEW price \in Nat \ {0}, LiquidateCdp(id, price)
      PROVE  StateOK(flux')
  BY <1>1, MarkOK, LiquidateOK DEF LiquidateCdp
<1>2. ASSUME NEW price \in Nat \ {0},
             \/ \E amount \in TopUps : TopUpCdp(id, amount, price)
             \/ \E amount \in Withdrawals : RemoveCollateral(id, amount, price)
             \/ \E amount \in ExtraMints : BorrowMore(id, amount, price)
             \/ \E i \in Interests, b \in Registered \cup {Nobody} :
                  ChangeCdpInterest(id, i, b, price)
             \/ Unmark(id, price)
             \/ LiquidateCdp(id, price)
      PROVE  StateOK(flux')
  BY <1>1, <1>2, TopUpOK, RemoveCollateralOK, BorrowMoreOK, ChangeCdpInterestOK, UnmarkActionOK
<1> QED
  BY <1>2, PriceAssumption, CloseOK, RetrieveOK, TagOK, BurnReceiptOK, PartialCloseOK
  DEF LoanCall

\* Every call about a collateral keeps a good state good.
LEMMA CollateralCallOK ==
  ASSUME StateOK(flux), now \in 0 .. MaxTime, NEW c \in Listed, CollateralCall(c)
  PROVE  StateOK(flux')
<1>1. now \in Nat
  BY TimeAssumption
<1>2. ASSUME NEW price \in Prices,
             \/ \E deposit \in Deposits, mint \in Mints, i \in Interests,
                  b \in Registered \cup {Nobody} : OpenCdp(c, deposit, mint, i, b, price)
             \/ \E payment \in Redemptions, share \in TakeShares :
                  Redemption(c, payment, share, price)
      PROVE  StateOK(flux')
  <2>1. price \in Nat \ {0} /\ Redemptions \subseteq Nat /\ TakeShares \subseteq 0 .. ONE
    BY PriceAssumption, AmountAssumption
  <2> QED
    BY <1>1, <1>2, <2>1, OpenOK, RedemptionOK
<1> QED
  BY <1>1, <1>2, ChargeOK, AmountAssumption DEF CollateralCall

\* Every call of the owner keeps a good state good.
LEMMA OwnerCallOK ==
  ASSUME StateOK(flux), OwnerCall
  PROVE  StateOK(flux')
<1>1. ASSUME NEW c \in Listed, NEW price \in Prices, ChangeCollateralPrice(c, price)
      PROVE  StateOK(flux')
  BY <1>1, PricedOK, PriceAssumption DEF ChangeCollateralPrice
<1>2. ASSUME NEW amount \in FreeAmounts, FreeFusd(amount) \/ BurnFusd(amount)
      PROVE  StateOK(flux')
  BY <1>2 DEF FreeFusd, BurnFusd
<1> QED
  BY <1>1, <1>2, NewCollateralOK, EditCollateralOK, CreateBorrowerOK, EditBorrowerOK,
     SettingOK DEF OwnerCall

\* Every call of the proxy that links or unlinks keeps a good state good.
LEMMA LinkCallOK ==
  ASSUME StateOK(flux), LinkCall
  PROVE  StateOK(flux')
<1>1. PICK b \in Registered, id \in Loans :
        LinkCdpToPrivilegedBorrower(b, id) \/ UnlinkCdpFromPrivilegedBorrower(b, id)
  BY DEF LinkCall
<1>2. b \in DOMAIN flux.borrowers /\ id \in DOMAIN flux.cdps
  BY DEF Registered, Loans
<1> QED
  BY <1>1, <1>2, LinkOK, UnlinkOK
  DEF LinkCdpToPrivilegedBorrower, UnlinkCdpFromPrivilegedBorrower

-----------------------------------------------------------------------------

\* The inductive invariant of the component.
IInv == now \in 0 .. MaxTime /\ StateOK(flux)

\* A good state stays good as the clock advances: recorded times are not in the
\* future.
LEMMA ClockKeeps ==
  ASSUME StateOK(flux'), now \in Nat, now' \in Nat, now <= now'
  PROVE  StateOK(flux)'
<1>1. WellTyped(flux)'
  BY DEF StateOK, WellTyped, Cdp, InterestInfo
<1>2. LoansIndexed(flux)'
  BY DEF StateOK, LoansIndexed, InIndex
<1>3. VectorsOK(flux)'
  BY DEF StateOK, VectorsOK, VectorOK
<1> QED
  BY <1>1, <1>2, <1>3 DEF StateOK

\* The state after instantiate satisfies the inductive invariant.
LEMMA InitOK == Init => IInv
<1> SUFFICES ASSUME Init PROVE IInv
  OBVIOUS
<1>1. now \in 0 .. MaxTime
  BY TimeAssumption DEF Init
<1>2. /\ DOMAIN flux = Fields /\ flux.cdps = <<>> /\ flux.cdpCounter = 0 /\ flux.borrowers = <<>>
      /\ flux.collaterals = <<>> /\ flux.tiers = <<>> /\ flux.ratios = [k \in Tiers |-> <<>>]
      /\ flux.marked = <<>> /\ flux.params = InitialParameters
  BY DEF Init, Fields
<1>3. DOMAIN <<>> = {}
  OBVIOUS
<1>4. WellTyped(flux)
  BY <1>2, <1>3, ParameterAssumption DEF WellTyped
<1>5. LoansIndexed(flux) /\ VectorsOK(flux)
  BY <1>2, <1>3 DEF LoansIndexed, VectorsOK
<1> QED
  BY <1>1, <1>4, <1>5 DEF IInv, StateOK

\* No call about a loan advances the clock.
LEMMA LoanCallClock ==
  ASSUME NEW id, LoanCall(id) PROVE now' = now
<1>1. ASSUME NEW repayment, PartialCloseCdp(id, repayment) PROVE now' = now
  BY <1>1 DEF PartialCloseCdp, CloseCdp
<1>2. ASSUME NEW price, LiquidateCdp(id, price) PROVE now' = now
  BY <1>2 DEF LiquidateCdp, MarkForLiquidation, Liquidate
<1>3. ASSUME NEW price, NEW amount, TopUpCdp(id, amount, price) PROVE now' = now
  BY <1>3 DEF TopUpCdp
<1>4. ASSUME NEW price, NEW amount, RemoveCollateral(id, amount, price) PROVE now' = now
  BY <1>4 DEF RemoveCollateral
<1>5. ASSUME NEW price, NEW amount, BorrowMore(id, amount, price) PROVE now' = now
  BY <1>5 DEF BorrowMore
<1>6. ASSUME NEW price, NEW i, NEW b, ChangeCdpInterest(id, i, b, price) PROVE now' = now
  BY <1>6 DEF ChangeCdpInterest
<1>7. ASSUME NEW price, Unmark(id, price) PROVE now' = now
  BY <1>7 DEF Unmark
<1>8. ASSUME NEW i, TagIrredeemable(id, i) PROVE now' = now
  BY SMTT(30), <1>8 DEF TagIrredeemable
<1>9. CASE CloseCdp(id) \/ RetrieveLeftoverCollateral(id) \/ BurnLoanReceipt(id)
  BY <1>9 DEF CloseCdp, RetrieveLeftoverCollateral, BurnLoanReceipt
<1> QED
  BY SMTT(30), <1>1, <1>2, <1>3, <1>4, <1>5, <1>6, <1>7, <1>8, <1>9 DEF LoanCall

\* No call about a collateral advances the clock.
LEMMA CollateralCallClock ==
  ASSUME NEW c, CollateralCall(c) PROVE now' = now
<1>1. ASSUME NEW deposit, NEW mint, NEW i, NEW b, NEW price,
             OpenCdp(c, deposit, mint, i, b, price)
      PROVE  now' = now
  BY <1>1 DEF OpenCdp
<1>2. ASSUME NEW payment, NEW share, NEW price, Redemption(c, payment, share, price)
      PROVE  now' = now
  BY SMTT(30), <1>2 DEF Redemption
<1>3. ASSUME NEW range, NEW rate, ChargeInterest(c, range, rate)
      PROVE  now' = now
  BY ZenonT(40), <1>3 DEF ChargeInterest
<1> QED
  BY SMTT(30), <1>1, <1>2, <1>3 DEF CollateralCall

\* No call of the owner advances the clock.
LEMMA OwnerCallClock ==
  ASSUME OwnerCall PROVE now' = now
BY DEF OwnerCall, NewCollateral, ChangeCollateralPrice, EditCollateral,
   CreatePrivilegedBorrower, EditPrivilegedBorrower, SetStops, SetMaxVectorLength,
   SetMinimumMint, SetFines, SetInterestParams, FreeFusd, BurnFusd

\* Every step preserves the inductive invariant.
LEMMA NextOK == IInv /\ [Next]_vars => IInv'
<1> SUFFICES ASSUME IInv, [Next]_vars PROVE IInv'
  OBVIOUS
<1>1. now \in 0 .. MaxTime /\ now \in Nat /\ StateOK(flux)
  BY TimeAssumption DEF IInv
<1>2. StateOK(flux')
  <2>1. CASE UNCHANGED vars \/ Tick
    BY <1>1, <2>1 DEF vars, Tick
  <2>2. CASE Next /\ ~Tick
    BY <1>1, <2>2, LoanCallOK, CollateralCallOK, OwnerCallOK, LinkCallOK DEF Next
  <2> QED
    BY <2>1, <2>2
<1>3. now' \in 0 .. MaxTime /\ now <= now'
  <2>1. CASE Tick
    BY <1>1, <2>1, TimeAssumption DEF Tick
  <2>2. CASE ~Tick
    <3>1. now' = now
      <4>1. CASE UNCHANGED vars
        BY <4>1 DEF vars
      <4>2. CASE Next
        BY <2>2, <4>2, LoanCallClock, CollateralCallClock, OwnerCallClock DEF Next, LinkCall,
           LinkCdpToPrivilegedBorrower, UnlinkCdpFromPrivilegedBorrower
      <4> QED
        BY <4>1, <4>2
    <3> QED
      BY <1>1, <3>1, TimeAssumption
  <2> QED
    BY <2>1, <2>2
<1>4. now' \in Nat
  BY <1>3, TimeAssumption
<1> QED
  BY <1>1, <1>2, <1>3, <1>4, ClockKeeps DEF IInv

\* For all constants, every reachable state of the Flux component is typed: no
\* handler writes a value of another type, links an NFT to what does not exist
\* or records a time in the future.
THEOREM TypeCorrect == Spec => []TypeOK
<1>1. IInv => TypeOK
  BY DEF IInv, StateOK, TypeOK
<1> QED
  BY <1>1, InitOK, NextOK, PTL DEF Spec

\* For all constants, the index of collateral ratios is exact in every reachable
\* state: an open loan is in the vector of the tier and ratio its NFT records, and
\* a vector holds open loans of its own tier and ratio, each once, and is not
\* empty. All ten handlers that call insert_cr and remove_cr are covered.
THEOREM IndexIsConsistent == Spec => []IndexConsistent
<1>1. IInv => IndexConsistent
  BY DEF IInv, StateOK, IndexConsistent
<1> QED
  BY <1>1, InitOK, NextOK, PTL DEF Spec

=============================================================================
