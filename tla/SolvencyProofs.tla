--------------------------- MODULE SolvencyProofs ---------------------------
(***************************************************************************)
(* Truncation leaves too much debt with a tier, never too little: what     *)
(* ever is borrowed, repaid, moved, redeemed or charged, a tier keeps      *)
(* at least the pool debt of its loans, and no less real debt than pool    *)
(* debt.  So no multiplier is below one, no call leaves an open loan       *)
(* without debt or with a negative ratio, and redemption finds the loans   *)
(* in their order.                                                         *)
(***************************************************************************)
EXTENDS AccountProofs

-----------------------------------------------------------------------------
(* Truncated products and quotients of Decimals that are not negative.     *)

\* The quotient is the largest number whose product with the divisor fits.
LEMMA QuotBounds ==
  ASSUME NEW n \in Nat, NEW d \in Nat \ {0}
  PROVE  Quot(n, d) \in Nat /\ Quot(n, d) * d <= n /\ n < (Quot(n, d) + 1) * d
BY DEF Quot, Abs

\* A product of a Decimal that is not negative.
LEMMA MulBounds ==
  ASSUME NEW a \in Nat, NEW b \in Nat
  PROVE  /\ Mul(a, b) \in Nat /\ Mul(a, b) * ONE <= a * b
         /\ a * b < (Mul(a, b) + 1) * ONE
<1>1. a * b \in Nat
  OBVIOUS
<1> QED
  BY <1>1, QuotBounds, DecimalAssumption DEF Mul

\* A quotient of two.
LEMMA QuotientBounds ==
  ASSUME NEW a \in Nat, NEW b \in Nat \ {0}
  PROVE  /\ Div(a, b) \in Nat /\ Div(a, b) * b <= a * ONE
         /\ a * ONE < (Div(a, b) + 1) * b
<1>1. a * ONE \in Nat
  BY DecimalAssumption
<1> QED
  BY <1>1, QuotBounds DEF Div

\* Factors cancel.
LEMMA Cancel ==
  ASSUME NEW a \in Nat, NEW b \in Nat, NEW c \in Nat \ {0}
  PROVE  /\ a * c <= b * c => a <= b
         /\ a * c < b * c => a < b
         /\ a <= b => a * c <= b * c
OBVIOUS

\* The largest number whose product with the divisor fits is no smaller than any.
LEMMA LargestFit ==
  ASSUME NEW p \in Nat, NEW q \in Nat, NEW n \in Nat, NEW d \in Nat \ {0},
         p * d <= n, n < (q + 1) * d
  PROVE  p <= q
<1>1. p * d < (q + 1) * d
  OBVIOUS
<1>2. p < q + 1
  BY <1>1, Cancel
<1> QED
  BY <1>2

\* With a multiplier of one or more, real debt is no less than the pool debt it
\* comes from, and the way back returns no more pool debt.
LEMMA RealFromPool ==
  ASSUME NEW m \in Nat, m >= ONE, NEW pool \in Nat
  PROVE  /\ Mul(pool, m) \in Nat /\ pool <= Mul(pool, m)
         /\ Div(Mul(pool, m), m) \in Nat /\ Div(Mul(pool, m), m) <= pool
<1>1. ONE \in Nat \ {0} /\ m \in Nat \ {0}
  BY DecimalAssumption
<1>2. Mul(pool, m) \in Nat /\ Mul(pool, m) * ONE <= pool * m
      /\ pool * m < (Mul(pool, m) + 1) * ONE
  BY MulBounds
<1>3. pool * ONE <= pool * m /\ pool * m \in Nat
  BY <1>1
<1>4. pool <= Mul(pool, m)
  BY <1>1, <1>2, <1>3, LargestFit
<1> DEFINE real == Mul(pool, m)
           back == Div(real, m)
<1>5. real \in Nat /\ back \in Nat /\ back * m <= real * ONE
  BY <1>1, <1>2, QuotientBounds
<1>6. real * ONE <= pool * m
  BY <1>2
<1> HIDE DEF real, back
<1>7. back * m <= pool * m
  BY <1>1, <1>3, <1>5, <1>6
<1>8. back <= pool
  BY <1>1, <1>5, <1>7, Cancel
<1> QED
  BY <1>2, <1>4, <1>5, <1>8 DEF real, back

\* Pool debt is no more than the real debt it comes from.
LEMMA PoolFromReal ==
  ASSUME NEW m \in Nat, m >= ONE, NEW real \in Nat
  PROVE  Div(real, m) \in Nat /\ Div(real, m) <= real
         /\ real * ONE < (Div(real, m) + 1) * m
<1>1. ONE \in Nat \ {0} /\ m \in Nat \ {0}
  BY DecimalAssumption
<1> DEFINE pool == Div(real, m)
<1>2. pool \in Nat /\ pool * m <= real * ONE /\ real * ONE < (pool + 1) * m
  BY <1>1, QuotientBounds
<1> HIDE DEF pool
<1>3. pool * ONE <= pool * m
  BY <1>1, <1>2
<1>4. pool * ONE <= real * ONE
  BY <1>1, <1>2, <1>3
<1>5. pool <= real
  BY <1>1, <1>2, <1>4, Cancel
<1> QED
  BY <1>2, <1>5 DEF pool

\* What leaves a tier with some of its loans takes no more real debt than the tier
\* can spare: the heart of every repayment.
LEMMA Spared ==
  ASSUME NEW r \in Nat, NEW a \in Nat, NEW m \in Nat, m >= ONE, NEW real \in Nat,
         NEW pool \in Nat, r * ONE < (a + 1) * m, m * pool <= real * ONE,
         a + 1 <= pool, pool <= real
  PROVE  real - r >= pool - a
<1>1. ONE \in Nat \ {0}
  BY DecimalAssumption
<1> DEFINE x == pool - (a + 1)
<1>2. x \in Nat /\ pool = a + 1 + x
  OBVIOUS
<1> HIDE DEF x
<1>3. m * pool = (a + 1) * m + x * m
  BY <1>2
<1>4. x * ONE <= x * m
  BY <1>1, <1>2
<1>5. r * ONE + x * ONE < real * ONE
  <2> DEFINE rO == r * ONE
             xO == x * ONE
             xm == x * m
             am == (a + 1) * m
             mp == m * pool
             RO == real * ONE
  <2>1. rO \in Nat /\ xO \in Nat /\ xm \in Nat /\ am \in Nat /\ mp \in Nat /\ RO \in Nat
    BY <1>1, <1>2
  <2>2. rO < am /\ mp <= RO /\ mp = am + xm /\ xO <= xm
    BY <1>3, <1>4
  <2> HIDE DEF rO, xO, xm, am, mp, RO
  <2>3. rO + xO < RO
    BY <2>1, <2>2
  <2> QED
    BY <2>3 DEF rO, xO, RO
<1>6. (r + x) * ONE < real * ONE
  BY <1>1, <1>2, <1>5
<1>7. r + x < real
  BY <1>1, <1>2, <1>6, Cancel
<1> QED
  BY <1>2, <1>7

\* Real debt that comes from pool debt at a tier's multiplier does not raise it.
LEMMA MultiplierFalls ==
  ASSUME NEW real \in Nat, NEW pool \in Nat \ {0}, pool <= real, NEW more \in Nat
  PROVE  LET m == Div(real, pool)
             r == real + Mul(more, m)
             p == pool + more
         IN  /\ m \in Nat /\ ONE <= m /\ m * pool <= real * ONE
             /\ r \in Nat /\ p <= r /\ Div(r, p) \in Nat /\ Div(r, p) <= m
<1> DEFINE m == Div(real, pool)
           x == Mul(more, m)
           r == real + x
           p == pool + more
           q == Div(r, p)
<1>1. ONE \in Nat \ {0}
  BY DecimalAssumption
<1>2. m \in Nat /\ m * pool <= real * ONE /\ real * ONE < (m + 1) * pool
  BY QuotientBounds
<1>3. ONE <= m
  <2>1. ONE * pool <= real * ONE
    BY <1>1
  <2> HIDE DEF m
  <2>2. real * ONE \in Nat
    BY <1>1
  <2> QED
    BY <1>1, <1>2, <2>1, <2>2, LargestFit
<1> HIDE DEF m
<1>4. x \in Nat /\ more <= x
  BY <1>2, <1>3, RealFromPool
<1>5. x * ONE <= more * m
  BY <1>2, MulBounds
<1> HIDE DEF x
<1>6. r \in Nat /\ p <= r /\ p \in Nat \ {0}
  BY <1>4
<1>7. q \in Nat /\ q * p <= r * ONE
  BY <1>6, QuotientBounds
<1>8. r * ONE < (m + 1) * p
  <2> DEFINE rO == real * ONE
             xO == x * ONE
             mp == (m + 1) * pool
             mm == more * m
  <2>1. rO \in Nat /\ xO \in Nat /\ mp \in Nat /\ mm \in Nat
    BY <1>1, <1>2, <1>4
  <2>2. rO < mp /\ xO <= mm
    BY <1>2, <1>5
  <2>3. r * ONE = rO + xO
    BY <1>1, <1>4
  <2>4. (m + 1) * p = mp + mm + more
    BY <1>2
  <2> HIDE DEF rO, xO, mp, mm, r, p
  <2> QED
    BY <2>1, <2>2, <2>3, <2>4
<1> HIDE DEF q, r, p
<1>9. r * ONE \in Nat
  BY <1>1, <1>6
<1>10. q <= m
  BY <1>2, <1>6, <1>7, <1>8, <1>9, LargestFit
<1> QED
  BY <1>2, <1>3, <1>6, <1>7, <1>10 DEF m, x, r, p, q

\* At a lower multiplier, real debt is no less pool debt.
LEMMA PoolRises ==
  ASSUME NEW m \in Nat \ {0}, NEW n \in Nat \ {0}, n <= m, NEW real \in Nat
  PROVE  /\ Div(real, m) \in Nat /\ Div(real, n) \in Nat
         /\ Div(real, m) <= Div(real, n)
<1> DEFINE p == Div(real, m)
           q == Div(real, n)
<1>1. /\ p \in Nat /\ p * m <= real * ONE
      /\ q \in Nat /\ real * ONE < (q + 1) * n
  BY QuotientBounds
<1> HIDE DEF p, q
<1>2. p * n <= p * m /\ real * ONE \in Nat
  BY <1>1, DecimalAssumption
<1>3. p * n <= real * ONE
  BY <1>1, <1>2
<1>4. p <= q
  BY <1>1, <1>2, <1>3, LargestFit
<1> QED
  BY <1>1, <1>4 DEF p, q

\* The up-front interest fee is not negative.
LEMMA FeeNatural ==
  ASSUME NEW f, WellTyped(f), NEW i \in Rates, NEW pool \in Nat
  PROVE  ExtraInterestDaysFee(f, i, pool) \in Nat
<1>1. f.params.extraDays \in 0 .. MaxTime
  BY DEF WellTyped, ProtocolParameters
<1>2. Growth[i][f.params.extraDays] \in Int /\ Growth[i][f.params.extraDays] >= ONE
  BY <1>1, GrowthAssumption, InterestAssumption
<1> DEFINE g == Growth[i][f.params.extraDays]
<1>3. g \in Nat /\ g >= ONE
  BY <1>2, DecimalAssumption
<1> HIDE DEF g
<1>4. Mul(pool, g) = Mul(g, pool)
  BY <1>3 DEF Mul
<1>5. Mul(g, pool) \in Nat /\ pool <= Mul(g, pool)
  BY <1>3, <1>4, RealFromPool
<1> QED
  BY <1>5 DEF ExtraInterestDaysFee, g

-----------------------------------------------------------------------------
(* Solvent states.                                                         *)

\* The share of one loan in the pool debt of tier k, and the shares of all its
\* open loans.
PoolPart(f, id, k) ==
  IF id \in DOMAIN f.cdps /\ Active(f.cdps[id]) /\ Tier(f.cdps[id]) = k
  THEN f.cdps[id].pool ELSE 0
TierPools(f, k) ==
  [id \in {x \in DOMAIN f.cdps : Active(f.cdps[x]) /\ Tier(f.cdps[x]) = k}
     |-> f.cdps[id].pool]

\* The owner asks for no minimum ratio below one: every open loan has more than
\* nothing to withdraw from only then.
McrsAboveOne == \A mcr \in Mcrs : mcr >= ONE

\* An open loan owes something, and is listed at the ratio that it has.
LoanSolvent(d) ==
  Active(d) => /\ d.pool >= 1 /\ d.ratio = Div(d.amount, d.pool)
               /\ McrsAboveOne => d.amount >= 0

\* Every tier has at least the pool debt of its loans, and no less real debt.
Solvent(f) ==
  /\ \A c \in DOMAIN f.collaterals : f.collaterals[c].mcr \in Mcrs
  /\ \A id \in DOMAIN f.cdps : LoanSolvent(f.cdps[id])
  /\ \A k \in DOMAIN f.tiers : f.tiers[k].real >= f.tiers[k].pool
  /\ \A k \in Tiers : PoolOf(f, k) >= SumFunction(TierPools(f, k))

\* A step from f to g changes one loan at most, and the tiers that are left lose
\* no more pool debt than it does.
CoverStep(f, g, id) ==
  /\ SameBut(f.cdps, g.cdps, id)
  /\ \A c \in DOMAIN g.collaterals : g.collaterals[c].mcr \in Mcrs
  /\ id \in DOMAIN g.cdps => LoanSolvent(g.cdps[id])
  /\ \A k \in DOMAIN g.tiers :
       /\ RealOf(g, k) >= PoolOf(g, k)
       /\ PoolOf(g, k) - PoolPart(g, id, k) >= PoolOf(f, k) - PoolPart(f, id, k)

\* There are finitely many loans, each with a Decimal of debt.
LEMMA PartsTyped ==
  ASSUME NEW f, StateOK(f)
  PROVE  /\ \A k : IntFunction(TierPools(f, k)) /\ SumFunction(TierPools(f, k)) \in Int
         /\ \A id, k : PoolPart(f, id, k) \in Int
         /\ \A k : PoolOf(f, k) \in Int /\ RealOf(f, k) \in Int
<1>1. \A id \in DOMAIN f.cdps : f.cdps[id].pool \in Int
  BY LoanTyped
<1>2. IsFiniteSet(DOMAIN f.cdps)
  <2>1. f.cdpCounter \in Int /\ DOMAIN f.cdps \subseteq 1 .. f.cdpCounter
    BY DEF StateOK, WellTyped
  <2> QED
    BY <2>1, FS_Interval, FS_Subset
<1>3. ASSUME NEW k
      PROVE  IntFunction(TierPools(f, k))
  <2>1. DOMAIN TierPools(f, k) \subseteq DOMAIN f.cdps
    BY DEF TierPools
  <2>2. IsFiniteSet(DOMAIN TierPools(f, k))
    BY <1>2, <2>1, FS_Subset
  <2>3. \A x \in DOMAIN TierPools(f, k) : TierPools(f, k)[x] \in Int
    BY <1>1 DEF TierPools
  <2> QED
    BY <2>2, <2>3 DEF IntFunction
<1>4. \A k : SumFunction(TierPools(f, k)) \in Int
  BY <1>3, SumFunctionType
<1>5. \A id, k : PoolPart(f, id, k) \in Int
  BY <1>1 DEF PoolPart
<1>6. \A k \in DOMAIN f.tiers : f.tiers[k].pool \in Int /\ f.tiers[k].real \in Int
  BY DEF StateOK, WellTyped, InterestInfo
<1>7. \A k : PoolOf(f, k) \in Int /\ RealOf(f, k) \in Int
  BY <1>6 DEF PoolOf, RealOf
<1> QED
  BY <1>3, <1>4, <1>5, <1>7

\* Such a step keeps a solvent state solvent.
LEMMA CoverKept ==
  ASSUME NEW f, NEW g, NEW id, StateOK(f), StateOK(g), Accounted(g), Solvent(f),
         CoverStep(f, g, id)
  PROVE  Solvent(g)
<1>1. \A c \in DOMAIN g.collaterals : g.collaterals[c].mcr \in Mcrs
  BY DEF CoverStep
<1>2. ASSUME NEW x \in DOMAIN g.cdps
      PROVE  LoanSolvent(g.cdps[x])
  BY <1>2 DEF CoverStep, SameBut, Solvent
<1>3. \A k \in DOMAIN g.tiers : g.tiers[k].real >= g.tiers[k].pool
  BY DEF CoverStep, RealOf, PoolOf
<1>4. ASSUME NEW k \in Tiers
      PROVE  PoolOf(g, k) >= SumFunction(TierPools(g, k))
  <2>1. CASE k \in DOMAIN g.tiers
    <3>1. SameBut(TierPools(f, k), TierPools(g, k), id)
      BY DEF CoverStep, SameBut, TierPools
    <3>2. /\ Term(TierPools(f, k), id) = PoolPart(f, id, k)
          /\ Term(TierPools(g, k), id) = PoolPart(g, id, k)
      BY DEF Term, TierPools, PoolPart
    <3>3. SumFunction(TierPools(g, k))
            = SumFunction(TierPools(f, k)) - PoolPart(f, id, k) + PoolPart(g, id, k)
      BY <3>1, <3>2, PartsTyped, SumChange
    <3>4. /\ PoolOf(g, k) - PoolPart(g, id, k) >= PoolOf(f, k) - PoolPart(f, id, k)
          /\ PoolOf(f, k) >= SumFunction(TierPools(f, k))
      BY <2>1 DEF CoverStep, Solvent
    <3>5. /\ PoolOf(g, k) \in Int /\ PoolPart(g, id, k) \in Int /\ PoolOf(f, k) \in Int
          /\ PoolPart(f, id, k) \in Int /\ SumFunction(TierPools(f, k)) \in Int
      BY PartsTyped
    <3> QED
      BY <3>3, <3>4, <3>5
  <2>2. CASE k \notin DOMAIN g.tiers
    <3>1. DOMAIN g.ratios[k] = {}
      BY SMTT(30), <2>2 DEF Accounted, Tracked
    <3>2. \A x \in DOMAIN g.cdps : ~(Active(g.cdps[x]) /\ Tier(g.cdps[x]) = k)
      BY <3>1 DEF StateOK, LoansIndexed, InIndex
    <3>3. DOMAIN TierPools(g, k) = {}
      BY <3>2 DEF TierPools
    <3>4. SumFunction(TierPools(g, k)) = 0
      BY <3>3, SumEmpty DEF SumFunction
    <3> QED
      BY <2>2, <3>4 DEF PoolOf
  <2> QED
    BY <2>1, <2>2
<1> QED
  BY <1>1, <1>2, <1>3, <1>4 DEF Solvent

\* The pool debt of a tier covers that of two of its loans, as it does of all.
LEMMA LoanCovered ==
  ASSUME NEW f, StateOK(f), Solvent(f), NEW k \in Tiers,
         NEW x \in DOMAIN f.cdps, Active(f.cdps[x]), Tier(f.cdps[x]) = k
  PROVE  /\ PoolOf(f, k) >= f.cdps[x].pool /\ f.cdps[x].pool >= 1
         /\ \A y \in DOMAIN f.cdps \ {x} :
              Active(f.cdps[y]) /\ Tier(f.cdps[y]) = k =>
                PoolOf(f, k) >= f.cdps[x].pool + f.cdps[y].pool
<1> DEFINE t == TierPools(f, k)
           S == DOMAIN t
<1>1. /\ IntFunction(t) /\ SumFunction(t) \in Int /\ PoolOf(f, k) \in Int
      /\ PoolOf(f, k) >= SumFunction(t)
  BY PartsTyped DEF Solvent
<1>2. \A y \in S : t[y] = f.cdps[y].pool /\ t[y] \in Nat /\ t[y] >= 1
  <2>1. \A y \in S : /\ y \in DOMAIN f.cdps /\ Active(f.cdps[y]) /\ t[y] = f.cdps[y].pool
                     /\ t[y] \in Int
    BY LoanTyped DEF TierPools
  <2>2. \A y \in S : f.cdps[y].pool >= 1
    BY <2>1 DEF Solvent, LoanSolvent
  <2> QED
    BY <2>1, <2>2
<1>3. x \in S /\ IsFiniteSet(S)
  BY <1>1 DEF TierPools, IntFunction
<1> HIDE DEF t
<1>4. ASSUME NEW T \in SUBSET S
      PROVE  SumFunctionOnSet(t, T) \in Nat
  <2>1. IsFiniteSet(T) /\ \A y \in T : t[y] \in Nat
    BY <1>2, <1>3, <1>4, FS_Subset
  <2> QED
    BY <2>1, SumNatural
<1>5. SumFunction(t) = SumFunctionOnSet(t, S)
  BY DEF SumFunction
<1>6. SumFunctionOnSet(t, S) = t[x] + SumFunctionOnSet(t, S \ {x})
  BY <1>2, <1>3, SumTakeOut
<1>7. PoolOf(f, k) >= f.cdps[x].pool /\ f.cdps[x].pool >= 1
  <2>1. SumFunctionOnSet(t, S \ {x}) \in Nat /\ t[x] = f.cdps[x].pool /\ t[x] \in Nat /\ t[x] >= 1
    BY <1>2, <1>3, <1>4
  <2> QED
    BY <1>1, <1>5, <1>6, <2>1
<1>8. ASSUME NEW y \in DOMAIN f.cdps \ {x}, Active(f.cdps[y]), Tier(f.cdps[y]) = k
      PROVE  PoolOf(f, k) >= f.cdps[x].pool + f.cdps[y].pool
  <2>1. y \in S \ {x} /\ IsFiniteSet(S \ {x})
    BY <1>3, <1>8, FS_Subset DEF t, TierPools
  <2>2. SumFunctionOnSet(t, S \ {x}) = t[y] + SumFunctionOnSet(t, (S \ {x}) \ {y})
    BY <1>2, <2>1, SumTakeOut
  <2>3. /\ SumFunctionOnSet(t, (S \ {x}) \ {y}) \in Nat
        /\ t[x] = f.cdps[x].pool /\ t[x] \in Nat /\ t[y] = f.cdps[y].pool /\ t[y] \in Nat
    BY <1>2, <1>3, <1>4, <2>1
  <2> QED
    BY <1>1, <1>5, <1>6, <2>2, <2>3
<1> QED
  BY <1>7, <1>8

\* A tier has a loan, and so one or more of each debt; its multiplier is not below
\* one, and no more real debt comes from the tier's pool debt than it has.
LEMMA SomeLoan ==
  ASSUME NEW g, StateOK(g), EmptyTiers(g) = {}, NEW k \in DOMAIN g.tiers
  PROVE  /\ k \in Tiers
         /\ \E x \in DOMAIN g.cdps : Active(g.cdps[x]) /\ Tier(g.cdps[x]) = k
<1>1. k \in Tiers
  BY DEF StateOK, WellTyped
<1>2. PICK cr \in DOMAIN g.ratios[k] : TRUE
  BY DEF EmptyTiers
<1>3. VectorOK(g, k, cr)
  BY <1>1, <1>2 DEF StateOK, VectorsOK
<1> DEFINE ids == g.ratios[k][cr]
           x == ids[1]
<1>4. ids \in Seq(DOMAIN g.cdps) /\ Len(ids) > 0
  BY <1>3 DEF VectorOK
<1>5. 1 \in 1 .. Len(ids)
  BY <1>4
<1>6. x \in DOMAIN g.cdps /\ Active(g.cdps[x]) /\ Tier(g.cdps[x]) = k
  BY <1>3, <1>4, <1>5 DEF VectorOK
<1> QED
  BY <1>1, <1>6

\* What holds of a tier, in use or not, when each tier covers its loans.
LEMMA TierFacts ==
  ASSUME NEW f, StateOK(f), EmptyTiers(f) = {}, Solvent(f), NEW k \in Tiers
  PROVE  LET m == DebtMultiplier(f, k)
         IN  /\ m \in Nat /\ ONE <= m /\ m # 0
             /\ PoolOf(f, k) \in Nat /\ RealOf(f, k) \in Nat /\ PoolOf(f, k) <= RealOf(f, k)
             /\ m * PoolOf(f, k) <= RealOf(f, k) * ONE
             /\ IF k \in DOMAIN f.tiers
                THEN PoolOf(f, k) # 0 /\ m = Div(RealOf(f, k), PoolOf(f, k))
                ELSE PoolOf(f, k) = 0 /\ RealOf(f, k) = 0 /\ m = ONE
<1>1. CASE k \in DOMAIN f.tiers
  <2>1. PICK x \in DOMAIN f.cdps : Active(f.cdps[x]) /\ Tier(f.cdps[x]) = k
    BY <1>1, SomeLoan
  <2>2. PoolOf(f, k) >= f.cdps[x].pool /\ f.cdps[x].pool >= 1 /\ f.cdps[x].pool \in Int
    BY <2>1, LoanCovered, LoanTyped
  <2>3. PoolOf(f, k) \in Int /\ RealOf(f, k) \in Int /\ RealOf(f, k) >= PoolOf(f, k)
    BY <1>1, PartsTyped DEF Solvent, PoolOf, RealOf
  <2> DEFINE p == PoolOf(f, k)
             r == RealOf(f, k)
             m == DebtMultiplier(f, k)
  <2>4. p \in Nat \ {0} /\ r \in Nat /\ p <= r /\ r # 0
    BY <2>2, <2>3
  <2>5. m = Div(r, p)
    BY <1>1, <2>4 DEF PoolOf, RealOf, DebtMultiplier
  <2> HIDE DEF p, r, m
  <2>6. m \in Nat /\ ONE <= m /\ m * p <= r * ONE
    BY <2>4, <2>5, MultiplierFalls
  <2>7. m # 0
    BY <2>6, DecimalAssumption
  <2> QED
    BY <1>1, <2>4, <2>5, <2>6, <2>7 DEF p, r, m
<1>2. CASE k \notin DOMAIN f.tiers
  BY <1>2, DecimalAssumption DEF PoolOf, RealOf, DebtMultiplier
<1> QED
  BY <1>1, <1>2

\* The tier that a loan left is still there only for another loan, which the tier
\* covers on top of the one that left.
LEMMA OtherLoan ==
  ASSUME NEW f, NEW g, StateOK(f), Solvent(f), StateOK(g), EmptyTiers(g) = {}, NEW id,
         SameBut(f.cdps, g.cdps, id), id \in DOMAIN f.cdps, Active(f.cdps[id]),
         NEW k, k = Tier(f.cdps[id]), k \in DOMAIN g.tiers,
         id \in DOMAIN g.cdps => ~(Active(g.cdps[id]) /\ Tier(g.cdps[id]) = k)
  PROVE  PoolOf(f, k) >= f.cdps[id].pool + 1
<1>1. PICK x \in DOMAIN g.cdps : Active(g.cdps[x]) /\ Tier(g.cdps[x]) = k
  BY SomeLoan
<1>2. k \in Tiers
  BY LoanTyped
<1>3. /\ x \in DOMAIN f.cdps \ {id} /\ Active(f.cdps[x]) /\ Tier(f.cdps[x]) = k
  BY <1>1 DEF SameBut
<1>4. /\ f.cdps[x].pool >= 1 /\ f.cdps[x].pool \in Int /\ f.cdps[id].pool \in Int
      /\ PoolOf(f, k) \in Int
  BY <1>2, <1>3, LoanCovered, LoanTyped, PartsTyped
<1>5. PoolOf(f, k) >= f.cdps[id].pool + f.cdps[x].pool
  BY <1>2, <1>3, LoanCovered
<1> QED
  BY <1>4, <1>5

-----------------------------------------------------------------------------
(* What the helpers do to debts.                                           *)

\* No minimum ratio and no price changes.
SamePrices(f, g) ==
  /\ DOMAIN g.collaterals = DOMAIN f.collaterals
  /\ \A c \in DOMAIN f.collaterals : /\ g.collaterals[c].mcr = f.collaterals[c].mcr
                                     /\ g.collaterals[c].price = f.collaterals[c].price

\* From f to g only the debts of tier k change, and to these.
Owes(f, g, k, pool, real) ==
  /\ SamePrices(f, g) /\ PoolOf(g, k) = pool /\ RealOf(g, k) = real
  /\ \A l \in Tiers \ {k} : PoolOf(g, l) = PoolOf(f, l) /\ RealOf(g, l) = RealOf(f, l)

\* No debt of a tier changes, unless the tier is dropped.
Trims(f, g) ==
  /\ SamePrices(f, g) /\ DOMAIN g.tiers \subseteq Tiers
  /\ \A l \in DOMAIN g.tiers : PoolOf(g, l) = PoolOf(f, l) /\ RealOf(g, l) = RealOf(f, l)

\* Both: the debts of tier k change to these, or a tier is dropped.
Leaves(f, g, k, pool, real) ==
  /\ SamePrices(f, g)
  /\ k \in DOMAIN g.tiers => PoolOf(g, k) = pool /\ RealOf(g, k) = real
  /\ \A l \in DOMAIN g.tiers \ {k} :
       PoolOf(g, l) = PoolOf(f, l) /\ RealOf(g, l) = RealOf(f, l)

\* How they follow each other.
LEMMA OwesThen ==
  ASSUME NEW f, NEW g, NEW h, NEW k \in Tiers, NEW pool, NEW real
  PROVE  /\ SamePrices(f, f) /\ SameDebts(f, f)
         /\ SamePrices(f, g) /\ SamePrices(g, h) => SamePrices(f, h)
         /\ SameDebts(f, g) /\ SameDebts(g, h) => SameDebts(f, h)
         /\ Owes(f, g, k, pool, real) /\ SamePrices(g, h) /\ SameDebts(g, h)
              => Owes(f, h, k, pool, real)
         /\ SamePrices(f, g) /\ SameDebts(f, g) /\ Owes(g, h, k, pool, real)
              => Owes(f, h, k, pool, real)
         /\ Owes(f, g, k, pool, real) /\ Trims(g, h) => Leaves(f, h, k, pool, real)
         /\ Trims(f, g) /\ SamePrices(g, h) /\ h.tiers = g.tiers => Trims(f, h)
         /\ SamePrices(f, g) /\ SameDebts(f, g) /\ Trims(g, h) => Trims(f, h)
<1>1. SamePrices(f, f) /\ SameDebts(f, f)
  BY DEF SamePrices, SameDebts
<1>2. SamePrices(f, g) /\ SamePrices(g, h) => SamePrices(f, h)
  BY DEF SamePrices
<1>3. SameDebts(f, g) /\ SameDebts(g, h) => SameDebts(f, h)
  BY DEF SameDebts
<1>4. Owes(f, g, k, pool, real) /\ SamePrices(g, h) /\ SameDebts(g, h)
        => Owes(f, h, k, pool, real)
  BY <1>2 DEF Owes, SameDebts
<1>5. SamePrices(f, g) /\ SameDebts(f, g) /\ Owes(g, h, k, pool, real)
        => Owes(f, h, k, pool, real)
  BY <1>2 DEF Owes, SameDebts
<1>6. Owes(f, g, k, pool, real) /\ Trims(g, h) => Leaves(f, h, k, pool, real)
  BY <1>2 DEF Owes, Trims, Leaves
<1>7. Trims(f, g) /\ SamePrices(g, h) /\ h.tiers = g.tiers => Trims(f, h)
  BY <1>2 DEF Trims, PoolOf, RealOf
<1>8. SamePrices(f, g) /\ SameDebts(f, g) /\ Trims(g, h) => Trims(f, h)
  BY <1>2 DEF SameDebts, Trims
<1> QED
  BY <1>1, <1>2, <1>3, <1>4, <1>5, <1>6, <1>7, <1>8

\* Debts recorded stay recorded as long as no debt moves.
LEMMA OwesSame ==
  ASSUME NEW f, NEW g, NEW h, NEW k \in Tiers, NEW pool, NEW real,
         Owes(f, g, k, pool, real), SamePrices(g, h), SameDebts(g, h)
  PROVE  Owes(f, h, k, pool, real)
BY OwesThen

\* When loans are taken off a tier whose debts were recorded, they are left to it, if
\* it stays at all.
LEMMA OwesTrims ==
  ASSUME NEW f, NEW g, NEW h, NEW k \in Tiers, NEW pool, NEW real,
         Owes(f, g, k, pool, real), Trims(g, h)
  PROVE  Leaves(f, h, k, pool, real)
BY OwesThen

\* And debts recorded after such a step are recorded from before it.
LEMMA SameOwes ==
  ASSUME NEW f, NEW g, NEW h, NEW k \in Tiers, NEW pool, NEW real,
         SamePrices(f, g), SameDebts(f, g), Owes(g, h, k, pool, real)
  PROVE  Owes(f, h, k, pool, real)
BY OwesThen

\* Helpers that leave debts and prices alone, with the tiers as they are.
LEMMA CoinDebts ==
  ASSUME NEW f, Accounted(f), NEW c \in DOMAIN f.collaterals, NEW n
  PROVE  /\ LET g == PutUncharged(f, c, n)
            IN  SamePrices(f, g) /\ SameDebts(f, g)
         /\ LET g == PutInLeftovers(f, c, n)
            IN  SamePrices(f, g) /\ SameDebts(f, g)
         /\ LET g == TakeFromLeftovers(f, c, n)
            IN  SamePrices(f, g) /\ SameDebts(f, g)
<1>1. DOMAIN f = Fields /\ DOMAIN f.collaterals[c] = InfoFields
  BY DEF Accounted, Shaped, InfoTyped
<1>2. \A g : g.tiers = f.tiers => SameDebts(f, g)
  BY DEF SameDebts, PoolOf, RealOf
<1>3. LET g == PutUncharged(f, c, n) IN SamePrices(f, g) /\ g.tiers = f.tiers
  BY <1>1 DEF Fields, InfoFields, PutUncharged, SamePrices
<1>4. LET g == PutInLeftovers(f, c, n) IN SamePrices(f, g) /\ g.tiers = f.tiers
  BY <1>1 DEF Fields, InfoFields, PutInLeftovers, SamePrices
<1>5. LET g == TakeFromLeftovers(f, c, n) IN SamePrices(f, g) /\ g.tiers = f.tiers
  BY <1>1 DEF Fields, InfoFields, TakeFromLeftovers, SamePrices
<1> QED
  BY <1>2, <1>3, <1>4, <1>5

\* A change that leaves the accounts alone leaves debts and prices alone.
LEMMA StillDebts ==
  ASSUME NEW f, NEW g, Still(f, g)
  PROVE  SamePrices(f, g) /\ SameDebts(f, g)
BY DEF Still, SamePrices

\* take_collateral and put_collateral move no debt.
LEMMA TakeDebts ==
  ASSUME NEW f, Accounted(f), NEW k \in DOMAIN f.tiers, k[1] \in DOMAIN f.collaterals,
         NEW n \in Int
  PROVE  LET g == TakeCollateral(f, k, n) IN SamePrices(f, g) /\ SameDebts(f, g)
<1>1. DOMAIN f = Fields /\ DOMAIN f.collaterals[k[1]] = InfoFields
  BY DEF Accounted, Shaped, InfoTyped
<1>2. SamePrices(f, TakeCollateral(f, k, n))
  BY <1>1 DEF Fields, InfoFields, TakeCollateral, SamePrices
<1> QED
  BY <1>2, TakeEntry

\* put_collateral moves no debt either.
LEMMA PutDebts ==
  ASSUME NEW f, Accounted(f), NEW k \in Tiers, k[1] \in DOMAIN f.collaterals,
         now \in Nat, NEW n \in Int
  PROVE  LET g == PutCollateral(f, k, n) IN SamePrices(f, g) /\ SameDebts(f, g)
<1> DEFINE f1 == InsertInterestInfoIfAbsent(f, k)
<1>1. f1.collaterals = f.collaterals /\ Accounted(f1)
  BY InsertInfoEntry DEF Still
<1>2. DOMAIN f1 = Fields /\ DOMAIN f1.collaterals[k[1]] = InfoFields
  BY <1>1 DEF Accounted, Shaped, InfoTyped
<1>3. PutCollateral(f, k, n) = [f1 EXCEPT !.tiers[k].coll = @ + n,
                !.collaterals[k[1]].amount = @ + n,
                !.collaterals[k[1]].vault = @ + n]
  BY SMTT(30) DEF PutCollateral
<1> HIDE DEF f1
<1>4. SamePrices(f, PutCollateral(f, k, n))
  BY <1>1, <1>2, <1>3 DEF Fields, InfoFields, SamePrices
<1> QED
  BY <1>4, PutEntry

\* mint_fusd with add_debt adds to the tier the pool debt and its real debt.
LEMMA MintDebts ==
  ASSUME NEW f, Accounted(f), NEW k \in Tiers, k[1] \in DOMAIN f.collaterals,
         now \in Nat, NEW pool \in Int, NEW real, real = PoolToRealDebt(f, k, pool),
         PoolOf(f, k) \in Int, RealOf(f, k) \in Int
  PROVE  LET g == AddDebt(MintFusd(f, k, pool), k, real)
         IN  Owes(f, g, k, PoolOf(f, k) + pool, RealOf(f, k) + real)
<1> DEFINE f1 == InsertInterestInfoIfAbsent(f, k)
           t == [f1.tiers[k] EXCEPT !.pool = @ + pool, !.real = @ + real]
           g == AddDebt(MintFusd(f, k, pool), k, real)
<1>1. /\ SameDebts(f, f1) /\ Accounted(f1) /\ f1.collaterals = f.collaterals
      /\ DOMAIN f1.tiers = DOMAIN f.tiers \cup {k}
  BY InsertInfoEntry DEF Still
<1>2. PoolToRealDebt(f1, k, pool) = real
  BY <1>1, MultiplierSame DEF PoolToRealDebt
<1>3. g = [[f1 EXCEPT !.tiers[k].pool = @ + pool, !.tiers[k].real = @ + real,
                      !.circulating = @ + real] EXCEPT !.collaterals[k[1]].debt = @ + real]
  BY <1>2 DEF AddDebt, MintFusd
<1> HIDE DEF f1, g
<1>4. /\ DOMAIN f1 = Fields /\ DOMAIN f1.tiers[k] = TierFields /\ k \in DOMAIN f1.tiers
      /\ DOMAIN f1.collaterals[k[1]] = InfoFields
  BY <1>1 DEF Accounted, Shaped, InfoTyped
<1>5. g.tiers = [f1.tiers EXCEPT ![k] = t]
  BY <1>3, <1>4 DEF Fields, TierFields
<1>6. SamePrices(f, g)
  BY <1>1, <1>3, <1>4 DEF Fields, InfoFields, SamePrices
<1>7. /\ t.pool = f1.tiers[k].pool + pool /\ t.real = f1.tiers[k].real + real
  BY <1>4 DEF TierFields
<1>8. f1.tiers[k].pool = PoolOf(f, k) /\ f1.tiers[k].real = RealOf(f, k)
  BY <1>1, <1>4 DEF SameDebts, PoolOf, RealOf
<1> HIDE DEF t
<1>9. PoolOf(g, k) = PoolOf(f, k) + pool /\ RealOf(g, k) = RealOf(f, k) + real
  BY <1>4, <1>5, <1>7, <1>8 DEF PoolOf, RealOf
<1>10. \A l \in Tiers \ {k} : PoolOf(g, l) = PoolOf(f1, l) /\ RealOf(g, l) = RealOf(f1, l)
  BY <1>5 DEF PoolOf, RealOf
<1> QED
  BY <1>1, <1>6, <1>9, <1>10 DEF Owes, SameDebts, g

\* What leaves a tier, and what enters it.
LEMMA TierDebts ==
  ASSUME NEW f, Accounted(f), NEW k \in DOMAIN f.tiers, NEW real
  PROVE  LET pool == RealToPoolDebt(f, k, real)
         IN  /\ Owes(f, LeaveTier(f, k, real), k, PoolOf(f, k) - pool, RealOf(f, k) - real)
             /\ Owes(f, EnterTier(f, k, real), k, PoolOf(f, k) + pool, RealOf(f, k) + real)
<1> DEFINE pool == RealToPoolDebt(f, k, real)
           t == [f.tiers[k] EXCEPT !.pool = @ - pool, !.real = @ - real]
           u == [f.tiers[k] EXCEPT !.pool = @ + pool, !.real = @ + real]
           g == LeaveTier(f, k, real)
           h == EnterTier(f, k, real)
<1>1. /\ g = [f EXCEPT !.tiers[k].pool = @ - pool, !.tiers[k].real = @ - real]
      /\ h = [f EXCEPT !.tiers[k].pool = @ + pool, !.tiers[k].real = @ + real]
  BY DEF LeaveTier, EnterTier
<1> HIDE DEF pool, g, h
<1>2. DOMAIN f = Fields /\ DOMAIN f.tiers[k] = TierFields
  BY DEF Accounted, Shaped
<1>3. /\ g.tiers = [f.tiers EXCEPT ![k] = t] /\ h.tiers = [f.tiers EXCEPT ![k] = u]
      /\ g.collaterals = f.collaterals /\ h.collaterals = f.collaterals
  BY <1>1, <1>2 DEF Fields, TierFields
<1>4. /\ t.pool = PoolOf(f, k) - pool /\ t.real = RealOf(f, k) - real
      /\ u.pool = PoolOf(f, k) + pool /\ u.real = RealOf(f, k) + real
  BY <1>2 DEF TierFields, PoolOf, RealOf
<1> HIDE DEF t, u
<1>5. Owes(f, g, k, PoolOf(f, k) - pool, RealOf(f, k) - real)
  BY <1>3, <1>4 DEF Owes, SamePrices, PoolOf, RealOf
<1>6. Owes(f, h, k, PoolOf(f, k) + pool, RealOf(f, k) + real)
  BY <1>3, <1>4 DEF Owes, SamePrices, PoolOf, RealOf
<1> QED
  BY <1>5, <1>6 DEF pool, g, h

\* unmint_fusd with remove_debt takes the repaid debt out of the tier.
LEMMA RepayDebts ==
  ASSUME NEW f, Accounted(f), NEW k \in DOMAIN f.tiers, k[1] \in DOMAIN f.collaterals,
         NEW real
  PROVE  LET g == RemoveDebt(UnmintFusd(f, k, real), k, real)
             pool == RealToPoolDebt(f, k, real)
         IN  Owes(f, g, k, PoolOf(f, k) - pool, RealOf(f, k) - real)
<1> DEFINE f1 == LeaveTier(f, k, real)
           f2 == [f1 EXCEPT !.circulating = @ - real]
           g == [f2 EXCEPT !.collaterals[k[1]].debt = @ - real]
           pool == RealToPoolDebt(f, k, real)
<1>1. RemoveDebt(UnmintFusd(f, k, real), k, real) = g
  BY DEF RemoveDebt, UnmintFusd
<1>2. /\ Owes(f, f1, k, PoolOf(f, k) - pool, RealOf(f, k) - real)
  BY TierDebts
<1>3. /\ DOMAIN f1 = Fields /\ f1.collaterals = f.collaterals
      /\ DOMAIN f.collaterals[k[1]] = InfoFields
  BY DEF Accounted, Shaped, InfoTyped, LeaveTier, Fields
<1> HIDE DEF f1, pool
<1>4. g.tiers = f1.tiers /\ SamePrices(f1, g)
  BY <1>3 DEF Fields, InfoFields, SamePrices
<1> HIDE DEF g
<1>5. k \in Tiers
  BY DEF Accounted, Shaped
<1>6. SameDebts(f1, g)
  BY <1>4 DEF SameDebts, PoolOf, RealOf
<1> QED
  BY <1>1, <1>2, <1>4, <1>5, <1>6, OwesThen DEF pool

\* clean_up_interest_info may drop the tier, and so may ending a loan, with its link
\* or without.
LEMMA CleanUpTrims ==
  ASSUME NEW f, Accounted(f), NEW k \in DOMAIN f.tiers
  PROVE  Trims(f, CleanUpInterestInfo(f, k))
<1>1. DOMAIN f = Fields /\ DOMAIN f.tiers \subseteq Tiers
  BY DEF Accounted, Shaped
<1> QED
  BY <1>1 DEF CleanUpInterestInfo, Trims, SamePrices, PoolOf, RealOf, Fields, Without

\* Taking an ended loan out of the index drops its tier at most.
LEMMA DelistTrims ==
  ASSUME NEW f, Accounted(f), NEW id, ListedIn(f, id), NEW status, NEW amount
  PROVE  Trims(f, Delist(f, id, status, amount))
<1> DEFINE d == f.cdps[id]
           k == Tier(d)
           e == Ended(d, status, amount)
           f1 == RemoveCr(f, k, d.ratio, id)
           f2 == [f1 EXCEPT !.cdps[id] = e]
<1>1. Delist(f, id, status, amount) = CleanUpInterestInfo(f2, k)
  BY DEF Delist, Ended
<1>2. id \in DOMAIN f.cdps /\ k \in Tiers /\ d.ratio \in DOMAIN f.ratios[k]
  BY DEF ListedIn
<1>3. DOMAIN e = CdpFields
  BY <1>2 DEF Accounted, Shaped, Ended
<1> HIDE DEF e, k
<1>4. Still(f, f1) /\ SameLoans(f, f1) /\ DOMAIN f1.tiers = DOMAIN f.tiers
  BY <1>2, RemoveCrStill
<1> HIDE DEF f1
<1>5. Still(f1, f2) /\ f2.tiers = f1.tiers
  <2>1. Accounted(f1) /\ id \in DOMAIN f1.cdps
    BY <1>2, <1>4 DEF Still, SameLoans
  <2> QED
    BY <1>3, <2>1, CdpStill
<1> HIDE DEF f2
<1>6. Accounted(f2) /\ k \in DOMAIN f2.tiers
  BY <1>2, <1>4, <1>5 DEF Still, Accounted, Tracked
<1>7. Trims(f2, CleanUpInterestInfo(f2, k))
  BY <1>6, CleanUpTrims
<1>8. SamePrices(f, f2) /\ SameDebts(f, f2)
  BY <1>4, <1>5, StillStill, StillDebts
<1> QED
  BY <1>1, <1>2, <1>7, <1>8, OwesThen

\* So does taking it off the list of its borrower as well.
LEMMA DelistUnlinkTrims ==
  ASSUME NEW f, Accounted(f), NEW id \in DOMAIN f.cdps, ListedIn(f, id),
         f.cdps[id].borrower \in DOMAIN f.borrowers \cup {Nobody},
         NEW status, NEW amount
  PROVE  Trims(f, UnlinkIfLinked(Delist(f, id, status, amount), id))
<1> DEFINE f1 == Delist(f, id, status, amount)
<1>1. Trims(f, f1) /\ OneLoan(f, f1, id, Ended(f.cdps[id], status, amount)) /\ Accounted(f1)
  BY DelistTrims, DelistEnds DEF Ends
<1> HIDE DEF f1
<1>2. id \in DOMAIN f1.cdps /\ f1.borrowers = f.borrowers
      /\ f1.cdps[id] = Ended(f.cdps[id], status, amount)
  BY <1>1 DEF OneLoan, OthersKept
<1>3. f1.cdps[id].borrower = f.cdps[id].borrower
  <2>1. DOMAIN f.cdps[id] = CdpFields
    BY DEF Accounted, Shaped
  <2> QED
    BY <1>2, <2>1 DEF Ended, CdpFields
<1>4. SameBooks(f1, UnlinkIfLinked(f1, id))
  BY <1>1, <1>2, <1>3, UnlinkIfLinkedBooks
<1>5. PICK k \in Tiers : TRUE
  BY DEF ListedIn
<1> DEFINE g == UnlinkIfLinked(f1, id)
<1>6. g.tiers = f1.tiers /\ SamePrices(f1, g)
  BY <1>4 DEF SameBooks, SamePrices
<1> HIDE DEF g
<1>7. Trims(f, g)
  BY <1>1, <1>5, <1>6, OwesThen
<1> QED
  BY <1>7 DEF f1, g

-----------------------------------------------------------------------------
(* Steps that keep every tier's debts covered.                             *)

\* The loan pays no real debt beyond its pool debt, a, and keeps the rest or ends.
LEMMA LeaveCover ==
  ASSUME NEW f, NEW g, StateOK(f), EmptyTiers(f) = {}, Solvent(f), StateOK(g),
         EmptyTiers(g) = {}, NEW id, SameBut(f.cdps, g.cdps, id),
         id \in DOMAIN f.cdps, Active(f.cdps[id]), NEW k, k = Tier(f.cdps[id]),
         NEW r \in Nat, NEW a, a = RealToPoolDebt(f, k, r),
         Leaves(f, g, k, PoolOf(f, k) - a, RealOf(f, k) - r), a <= f.cdps[id].pool,
         id \in DOMAIN g.cdps => LoanSolvent(g.cdps[id]),
         id \in DOMAIN g.cdps /\ Active(g.cdps[id]) =>
           Tier(g.cdps[id]) = k /\ g.cdps[id].pool = f.cdps[id].pool - a
  PROVE  CoverStep(f, g, id)
<1> DEFINE d == f.cdps[id]
           m == DebtMultiplier(f, k)
           P == PoolOf(f, k)
           R == RealOf(f, k)
           rest == PoolPart(g, id, k)
<1>1. k \in Tiers /\ d.pool \in Int
  BY LoanTyped
<1>2. m \in Nat /\ m # 0 /\ ONE <= m /\ P \in Nat /\ R \in Nat /\ P <= R /\ m * P <= R * ONE
  BY <1>1, TierFacts
<1>3. a = Div(r, m)
  BY DEF RealToPoolDebt
<1>4. P >= d.pool /\ d.pool >= 1
  BY <1>1, LoanCovered
<1> HIDE DEF m, P, R, d
<1>5. a \in Nat /\ r * ONE < (a + 1) * m
  BY <1>2, <1>3, PoolFromReal
<1>6. \A c \in DOMAIN g.collaterals : g.collaterals[c].mcr \in Mcrs
  BY DEF Leaves, SamePrices, Solvent
<1>7. PoolPart(f, id, k) = d.pool
  BY DEF PoolPart, d
<1>8. ASSUME k \in DOMAIN g.tiers
      PROVE  RealOf(g, k) >= PoolOf(g, k) /\ PoolOf(g, k) - rest >= P - d.pool
  <2>1. PoolOf(g, k) = P - a /\ RealOf(g, k) = R - r
    BY <1>8 DEF Leaves, P, R
  <2>2. a + 1 <= P /\ rest \in Int /\ rest <= d.pool - a
    <3>1. CASE id \in DOMAIN g.cdps /\ Active(g.cdps[id])
      <4>1. rest = d.pool - a /\ rest >= 1
        BY <3>1 DEF PoolPart, LoanSolvent, d
      <4> QED
        BY <1>1, <1>4, <1>5, <1>2, <4>1
    <3>2. CASE ~(id \in DOMAIN g.cdps /\ Active(g.cdps[id]))
      <4>1. rest = 0
        BY <3>2 DEF PoolPart
      <4>2. P >= d.pool + 1
        BY <1>8, <3>2, OtherLoan DEF P, d
      <4>3. a <= d.pool
        BY DEF d
      <4> QED
        BY <1>1, <1>2, <1>5, <4>1, <4>2, <4>3
    <3> QED
      BY <3>1, <3>2
  <2> HIDE DEF rest
  <2>3. R - r >= P - a
    BY <1>2, <1>5, <2>2, Spared
  <2> QED
    BY <1>1, <1>2, <1>5, <2>1, <2>2, <2>3
<1>9. ASSUME NEW l \in DOMAIN g.tiers, l # k
      PROVE  /\ RealOf(g, l) >= PoolOf(g, l)
             /\ PoolOf(g, l) - PoolPart(g, id, l) >= PoolOf(f, l) - PoolPart(f, id, l)
  <2>1. l \in Tiers
    BY DEF StateOK, WellTyped
  <2>2. PoolOf(g, l) = PoolOf(f, l) /\ RealOf(g, l) = RealOf(f, l)
    BY <1>9 DEF Leaves
  <2>3. PoolPart(g, id, l) = 0 /\ PoolPart(f, id, l) = 0
    BY <1>9 DEF PoolPart
  <2>4. PoolOf(f, l) \in Nat /\ RealOf(f, l) \in Nat /\ PoolOf(f, l) <= RealOf(f, l)
    BY <2>1, TierFacts
  <2> QED
    BY <2>2, <2>3, <2>4
<1> QED
  BY <1>6, <1>7, <1>8, <1>9 DEF CoverStep, P, d

\* The loan, new or open in the tier, owes more pool debt, and the tier the real debt
\* it comes to.
LEMMA EnterCover ==
  ASSUME NEW f, NEW g, StateOK(f), EmptyTiers(f) = {}, Solvent(f), NEW id,
         SameBut(f.cdps, g.cdps, id), NEW k \in Tiers, DOMAIN g.tiers \subseteq Tiers,
         id \in DOMAIN f.cdps => Active(f.cdps[id]) /\ Tier(f.cdps[id]) = k,
         NEW p \in Nat, NEW r, r = PoolToRealDebt(f, k, p),
         Owes(f, g, k, PoolOf(f, k) + p, RealOf(f, k) + r),
         id \in DOMAIN g.cdps, Active(g.cdps[id]), LoanSolvent(g.cdps[id]),
         Tier(g.cdps[id]) = k, g.cdps[id].pool = PoolPart(f, id, k) + p
  PROVE  CoverStep(f, g, id) /\ DebtMultiplier(g, k) \in Nat
         /\ (k \in DOMAIN g.tiers => DebtMultiplier(g, k) <= DebtMultiplier(f, k))
<1> DEFINE m == DebtMultiplier(f, k)
           P == PoolOf(f, k)
           R == RealOf(f, k)
<1>1. /\ m \in Nat /\ ONE <= m /\ P \in Nat /\ R \in Nat /\ P <= R
      /\ IF k \in DOMAIN f.tiers THEN P # 0 /\ m = Div(R, P) ELSE P = 0 /\ R = 0 /\ m = ONE
  BY TierFacts
<1>2. r = Mul(p, m)
  BY DEF PoolToRealDebt
<1>3. PoolOf(g, k) = P + p /\ RealOf(g, k) = R + r
  BY DEF Owes
<1>4. PoolPart(f, id, k) \in Int
  BY PartsTyped
<1> HIDE DEF m, P, R
<1>5. r \in Nat /\ p <= r
  BY <1>1, <1>2, RealFromPool
<1>6. \A c \in DOMAIN g.collaterals : g.collaterals[c].mcr \in Mcrs
  BY DEF Owes, SamePrices, Solvent
<1>7. PoolPart(g, id, k) = PoolPart(f, id, k) + p
  BY DEF PoolPart
<1>8. RealOf(g, k) >= PoolOf(g, k)
  BY <1>1, <1>3, <1>5
<1>9. PoolOf(g, k) - PoolPart(g, id, k) >= P - PoolPart(f, id, k)
  BY <1>1, <1>3, <1>4, <1>7
<1>10. ASSUME NEW l \in DOMAIN g.tiers, l # k
       PROVE  /\ RealOf(g, l) >= PoolOf(g, l)
              /\ PoolOf(g, l) - PoolPart(g, id, l) >= PoolOf(f, l) - PoolPart(f, id, l)
  <2>1. PoolOf(g, l) = PoolOf(f, l) /\ RealOf(g, l) = RealOf(f, l)
    BY <1>10 DEF Owes
  <2>2. PoolPart(g, id, l) = 0 /\ PoolPart(f, id, l) = 0
    BY <1>10 DEF PoolPart
  <2>3. PoolOf(f, l) \in Nat /\ RealOf(f, l) \in Nat /\ PoolOf(f, l) <= RealOf(f, l)
    BY <1>10, TierFacts
  <2> QED
    BY <2>1, <2>2, <2>3
<1>11. CoverStep(f, g, id)
  BY <1>6, <1>8, <1>9, <1>10 DEF CoverStep, P
<1>12. /\ DebtMultiplier(g, k) \in Nat
       /\ k \in DOMAIN g.tiers => DebtMultiplier(g, k) <= m
  <2>1. DebtMultiplier(g, k) = IF k \in DOMAIN g.tiers /\ P + p # 0 /\ R + r # 0
                               THEN Div(R + r, P + p) ELSE ONE
    BY <1>3 DEF DebtMultiplier, PoolOf, RealOf
  <2>2. CASE P # 0
    <3>1. Div(R + r, P + p) \in Nat /\ Div(R + r, P + p) <= m
      BY <1>1, <1>2, <2>2, MultiplierFalls
    <3> QED
      BY <1>1, <2>1, <3>1, DecimalAssumption
  <2>3. CASE P = 0
    <3>1. m = ONE /\ R = 0
      BY <1>1, <2>3
    <3>2. r = p
      BY <1>2, <3>1, DecimalAssumption DEF Mul, Quot, Abs
    <3>3. CASE p = 0
      BY <1>1, <2>1, <2>3, <3>1, <3>3, DecimalAssumption
    <3>4. CASE p # 0
      <4>1. Div(p, p) = ONE
        BY <3>4, DecimalAssumption DEF Div, Quot, Abs
      <4> QED
        BY <2>1, <2>3, <3>1, <3>2, <4>1, DecimalAssumption
    <3> QED
      BY <3>3, <3>4
  <2> QED
    BY <2>2, <2>3
<1> QED
  BY <1>11, <1>12 DEF m

\* No debt moves, and the loan's share of none falls.
LEMMA QuietCover ==
  ASSUME NEW f, NEW g, StateOK(f), EmptyTiers(f) = {}, Solvent(f), NEW id,
         SameBut(f.cdps, g.cdps, id), DOMAIN g.tiers \subseteq Tiers, SameDebts(f, g),
         \A c \in DOMAIN g.collaterals : g.collaterals[c].mcr \in Mcrs,
         id \in DOMAIN g.cdps => LoanSolvent(g.cdps[id]),
         \A l \in Tiers : PoolPart(g, id, l) = PoolPart(f, id, l)
  PROVE  CoverStep(f, g, id)
<1>1. ASSUME NEW l \in DOMAIN g.tiers
      PROVE  /\ RealOf(g, l) >= PoolOf(g, l)
             /\ PoolOf(g, l) - PoolPart(g, id, l) >= PoolOf(f, l) - PoolPart(f, id, l)
  <2>1. PoolOf(g, l) = PoolOf(f, l) /\ RealOf(g, l) = RealOf(f, l)
        /\ PoolPart(g, id, l) = PoolPart(f, id, l)
    BY <1>1 DEF SameDebts
  <2>2. PoolOf(f, l) \in Nat /\ RealOf(f, l) \in Nat /\ PoolOf(f, l) <= RealOf(f, l)
    BY <1>1, TierFacts
  <2>3. PoolPart(f, id, l) \in Int
    BY PartsTyped
  <2> QED
    BY <2>1, <2>2, <2>3
<1> QED
  BY <1>1 DEF CoverStep

-----------------------------------------------------------------------------
(* What a call does to its loan.                                           *)

\* The order of redemption (RedeemableBefore, in any state), and that no open loan
\* comes before id in it.
ComesBefore(f, other, id) ==
  LET o == f.cdps[other] d == f.cdps[id]
  IN  /\ o.collateral = d.collateral
      /\ \/ o.interest >= 0 /\ d.interest = Irredeemable
         \/ o.interest >= 0 /\ o.interest < d.interest
         \/ o.interest = d.interest
              /\ Div(o.amount, o.pool) < Div(d.amount, d.pool)
FirstLoan(f, id) ==
  \A other \in DOMAIN f.cdps : Active(f.cdps[other]) => ~ComesBefore(f, other, id)

\* The debt and the collateral of the loan fall.
Lowered(d, e) == e.pool < d.pool /\ e.amount < d.amount

\* If the loan's ratio falls at the same rate, by no notice, it is still enough.
RatioKept(g, d, e) ==
  /\ e.ratio < d.ratio
  /\ e.interest = d.interest
  /\ e.status = d.status \/ e.status = "Healthy"
  => MeetsMcr(g, Tier(e), e.amount, e.pool)

\* An open loan is closed or liquidated, or is the first to be redeemed and keeps its
\* ratio, or is not redeemed and keeps the ratio it must have.
Fair(f, g, id) ==
  LET d == f.cdps[id] e == g.cdps[id]
  IN  id \in DOMAIN f.cdps /\ id \in DOMAIN g.cdps /\ Active(d) =>
        \/ e.status \in {"Liquidated", "Closed"}
        \/ FirstLoan(f, id) /\ (Active(e) => e.ratio >= d.ratio)
        \/ Active(e) /\ ~Lowered(d, e) /\ RatioKept(g, d, e)

\* What every call does, and the states between calls that it does it in.
Served(f, g, id) == CoverStep(f, g, id) /\ (McrsAboveOne => Fair(f, g, id))
Fit(f) == Ready(f) /\ Solvent(f)

\* The price matters to neither.
LEMMA PricedFit ==
  ASSUME NEW f, Fit(f), NEW c \in DOMAIN f.collaterals, NEW price \in Nat \ {0}
  PROVE  LET g == WithPrice(f, c, price)
         IN  /\ Fit(g) /\ g.cdps = f.cdps /\ g.tiers = f.tiers /\ g.ratios = f.ratios
             /\ g.borrowers = f.borrowers /\ g.marked = f.marked
             /\ g.cdpCounter = f.cdpCounter /\ g.params = f.params
             /\ DOMAIN g.collaterals = DOMAIN f.collaterals
             /\ \A id, h : Served(g, h, id) => Served(f, h, id)
<1> DEFINE g == WithPrice(f, c, price)
<1>1. Ready(f) /\ Solvent(f) /\ StateOK(f)
  BY DEF Fit, Ready
<1>2. /\ Ready(g) /\ SameLoans(f, g) /\ g.ratios = f.ratios /\ g.tiers = f.tiers
      /\ g.params = f.params /\ DOMAIN g.collaterals = DOMAIN f.collaterals
  BY <1>1, PricedReady
<1>3. \A x \in DOMAIN f.collaterals : g.collaterals[x].mcr = f.collaterals[x].mcr
  <2>1. DOMAIN f = Fields /\ \A x \in DOMAIN f.collaterals : DOMAIN f.collaterals[x] = InfoFields
    BY <1>1 DEF Ready, Accounted, Shaped, InfoTyped
  <2> QED
    BY <2>1 DEF WithPrice, Fields, InfoFields
<1> HIDE DEF g
<1>4. g.cdps = f.cdps
  BY <1>2 DEF SameLoans
<1>5. Solvent(g)
  <2>1. \A k : PoolOf(g, k) = PoolOf(f, k) /\ TierPools(g, k) = TierPools(f, k)
    BY <1>2, <1>4 DEF PoolOf, TierPools
  <2> QED
    BY <1>1, <1>2, <1>3, <1>4, <2>1 DEF Solvent
<1>6. ASSUME NEW id, NEW h, Served(g, h, id)
      PROVE  Served(f, h, id)
  <2>1. \A k : PoolOf(g, k) = PoolOf(f, k) /\ PoolPart(g, id, k) = PoolPart(f, id, k)
    BY <1>2, <1>4 DEF PoolOf, PoolPart
  <2>2. CoverStep(f, h, id)
    BY <1>4, <1>6, <2>1 DEF Served, CoverStep
  <2>3. Fair(g, h, id) => Fair(f, h, id)
    BY <1>4 DEF Fair, FirstLoan, ComesBefore
  <2> QED
    BY <1>6, <2>2, <2>3 DEF Served
<1> QED
  BY <1>2, <1>4, <1>5, <1>6 DEF Fit, SameLoans, g

\* What an open loan of a fit state has.
LEMMA OpenFacts ==
  ASSUME NEW f, Fit(f), NEW id \in DOMAIN f.cdps, Active(f.cdps[id])
  PROVE  LET d == f.cdps[id]
             k == Tier(f.cdps[id])
             m == DebtMultiplier(f, Tier(f.cdps[id]))
         IN  /\ k \in Tiers /\ k \in DOMAIN f.tiers /\ k = <<d.collateral, d.interest>>
             /\ k[1] = d.collateral /\ k[1] \in DOMAIN f.collaterals
             /\ d.interest \in Interests
             /\ d.amount \in Int /\ d.pool \in Nat /\ d.pool >= 1
             /\ d.ratio = Div(d.amount, d.pool) /\ (McrsAboveOne => d.amount >= 0)
             /\ m \in Nat /\ ONE <= m /\ m # 0
             /\ PoolOf(f, k) \in Int /\ RealOf(f, k) \in Int
             /\ ListedIn(f, id) /\ d.borrower \in DOMAIN f.borrowers \cup {Nobody}
<1> DEFINE d == f.cdps[id]
           k == Tier(d)
<1>1. StateOK(f) /\ Accounted(f) /\ EmptyTiers(f) = {} /\ Solvent(f)
  BY DEF Fit, Ready
<1>2. /\ ListedIn(f, id) /\ k \in DOMAIN f.tiers /\ k \in Tiers
      /\ k[1] = d.collateral /\ k[1] \in DOMAIN f.collaterals
      /\ <<d.collateral, d.interest>> = k
      /\ d.amount \in Int /\ d.pool \in Int
      /\ d.borrower \in DOMAIN f.borrowers \cup {Nobody}
  BY <1>1, OpenTier
<1>3. LoanSolvent(d)
  BY <1>1 DEF Solvent
<1>4. /\ d.pool >= 1 /\ d.ratio = Div(d.amount, d.pool) /\ (McrsAboveOne => d.amount >= 0)
  BY <1>3 DEF LoanSolvent
<1>5. d.interest \in Interests
  BY <1>1, LoanTyped
<1>6. LET m == DebtMultiplier(f, k)
      IN  /\ m \in Nat /\ ONE <= m /\ m # 0 /\ PoolOf(f, k) \in Nat /\ RealOf(f, k) \in Nat
  BY <1>1, <1>2, TierFacts
<1>7. d.pool \in Nat
  BY <1>2, <1>4
<1> QED
  BY <1>2, <1>4, <1>5, <1>6, <1>7

\* The state that a call leaves is as it must be between calls.
LEMMA StepSettles ==
  ASSUME NEW f, NEW g, NEW id, NEW fusd, Step(f, g, id, fusd)
  PROVE  Accounted(g) /\ EmptyTiers(g) = {} /\ SameBut(f.cdps, g.cdps, id)
BY DEF Step, AccountStep

\* A loan listed anew with such terms.
Revised(d, e, i, amount, pool, status) ==
  /\ e.collateral = d.collateral /\ e.interest = i /\ e.amount = amount /\ e.pool = pool
  /\ e.ratio = Div(amount, pool) /\ e.status = status

\* Listing a loan anew, with the mark it has or without one, moves no debt.
LEMMA RelistDebts ==
  ASSUME NEW f, Accounted(f), NEW id \in DOMAIN f.cdps, ListedIn(f, id), now \in Nat,
         NEW i, <<f.cdps[id].collateral, i>> \in Tiers, NEW amount, NEW pool
  PROVE  LET g == Relist(f, id, i, amount, pool)
         IN  /\ SamePrices(f, g) /\ SameDebts(f, g) /\ OthersKept(f, g, id) /\ Accounted(g)
             /\ <<f.cdps[id].collateral, i>> \in DOMAIN g.tiers /\ DOMAIN f.tiers \subseteq DOMAIN g.tiers
             /\ Revised(f.cdps[id], g.cdps[id], i, amount, pool, f.cdps[id].status)
<1> DEFINE g == Relist(f, id, i, amount, pool)
           d == f.cdps[id]
<1>1. /\ Still(f, g) /\ OneLoan(f, g, id, Relisted(d, i, amount, pool))
      /\ <<d.collateral, i>> \in DOMAIN g.tiers
  BY RelistStill
<1> HIDE DEF g
<1>2. DOMAIN d = CdpFields
  BY DEF Accounted, Shaped
<1>3. Revised(d, Relisted(d, i, amount, pool), i, amount, pool, d.status)
  BY <1>2 DEF Relisted, Revised, CdpFields
<1>4. SamePrices(f, g) /\ SameDebts(f, g) /\ Accounted(g)
  BY <1>1, StillDebts DEF Still
<1> QED
  BY <1>1, <1>3, <1>4 DEF OneLoan, Still, g

\* The same when the mark of the loan is taken away with it.
LEMMA UnmarkRelistDebts ==
  ASSUME NEW f, Accounted(f), NEW id \in DOMAIN f.cdps, ListedIn(f, id), now \in Nat,
         NEW i, <<f.cdps[id].collateral, i>> \in Tiers, NEW amount, NEW pool
  PROVE  LET g == Relist(UnmarkIfMarked(f, id), id, i, amount, pool)
         IN  /\ SamePrices(f, g) /\ SameDebts(f, g) /\ OthersKept(f, g, id) /\ Accounted(g)
             /\ <<f.cdps[id].collateral, i>> \in DOMAIN g.tiers /\ DOMAIN f.tiers \subseteq DOMAIN g.tiers
             /\ Revised(f.cdps[id], g.cdps[id], i, amount, pool, "Healthy")
<1> DEFINE f1 == UnmarkIfMarked(f, id)
           g == Relist(f1, id, i, amount, pool)
<1>1. /\ SameBooks(f, f1) /\ StillOpen(f, f1, id) /\ f1.cdps[id].status = "Healthy"
      /\ ListedIn(f1, id)
  BY UnmarkOpen
<1> HIDE DEF f1
<1>2. /\ Accounted(f1) /\ id \in DOMAIN f1.cdps /\ f1.tiers = f.tiers /\ OthersKept(f, f1, id)
      /\ f1.cdps[id].collateral = f.cdps[id].collateral
  BY <1>1 DEF SameBooks, StillOpen, OthersKept
<1>3. /\ SamePrices(f1, g) /\ SameDebts(f1, g) /\ OthersKept(f1, g, id) /\ Accounted(g)
      /\ <<f1.cdps[id].collateral, i>> \in DOMAIN g.tiers /\ DOMAIN f1.tiers \subseteq DOMAIN g.tiers
      /\ Revised(f1.cdps[id], g.cdps[id], i, amount, pool, "Healthy")
  BY <1>1, <1>2, RelistDebts
<1> HIDE DEF g
<1>4. SamePrices(f, f1) /\ SameDebts(f, f1)
  BY <1>1, BooksEntry, StillDebts
<1>5. SamePrices(f, g) /\ SameDebts(f, g)
  <2>1. PICK k \in Tiers : TRUE
    OBVIOUS
  <2> QED
    BY <1>3, <1>4, <2>1, OwesThen
<1>6. OthersKept(f, g, id)
  BY <1>2, <1>3 DEF OthersKept
<1> QED
  BY <1>2, <1>3, <1>5, <1>6 DEF Revised, g, f1

\* A loan with terms like these is solvent if it owes something and has something.
LEMMA RevisedSolvent ==
  ASSUME NEW d, NEW e, NEW i, NEW amount \in Int, NEW pool \in Int, NEW status,
         Revised(d, e, i, amount, pool, status), pool >= 1, McrsAboveOne => amount >= 0
  PROVE  LoanSolvent(e)
BY DEF Revised, LoanSolvent

-----------------------------------------------------------------------------
(* Closing, liquidating and repaying.                                      *)

\* What a call leaves, apart from debts.
Settled(f, g, id) == StateOK(g) /\ EmptyTiers(g) = {} /\ SameBut(f.cdps, g.cdps, id)

\* A loan ends with all that it owes repaid.
LEMMA EndCover ==
  ASSUME NEW f, NEW g, NEW id \in DOMAIN f.cdps, Fit(f), Settled(f, g, id), Active(f.cdps[id]),
         NEW k, k = Tier(f.cdps[id]), NEW debt, debt = PoolToRealDebt(f, k, f.cdps[id].pool),
         Leaves(f, g, k, PoolOf(f, k) - RealToPoolDebt(f, k, debt), RealOf(f, k) - debt),
         id \in DOMAIN g.cdps => ~Active(g.cdps[id])
  PROVE  CoverStep(f, g, id)
<1> DEFINE d == f.cdps[id]
           m == DebtMultiplier(f, k)
           a == RealToPoolDebt(f, k, debt)
<1>1. d.pool \in Nat /\ m \in Nat /\ ONE <= m
  BY OpenFacts
<1>2. debt = Mul(d.pool, m) /\ a = Div(debt, m)
  BY DEF PoolToRealDebt, RealToPoolDebt
<1> HIDE DEF m
<1>3. debt \in Nat /\ a <= d.pool
  BY <1>1, <1>2, RealFromPool
<1>4. id \in DOMAIN g.cdps => LoanSolvent(g.cdps[id])
  BY DEF LoanSolvent
<1>5. StateOK(f) /\ EmptyTiers(f) = {} /\ Solvent(f)
  BY DEF Fit, Ready
<1> HIDE DEF a
<1>6. Leaves(f, g, k, PoolOf(f, k) - a, RealOf(f, k) - debt)
  BY DEF a
<1> QED
  BY <1>3, <1>4, <1>5, <1>6, LeaveCover DEF Settled, a

\* close_cdp.
LEMMA CloseServes ==
  ASSUME Fit(flux), now \in Nat, held \in Int, NEW id \in Loans, CloseCdp(id)
  PROVE  Served(flux, flux', id)
<1> DEFINE d == flux.cdps[id]
           k == Tier(d)
           debt == PoolToRealDebt(flux, k, d.pool)
           a == RealToPoolDebt(flux, k, debt)
           P == PoolOf(flux, k) - a
           R == RealOf(flux, k) - debt
           f1 == TakeCollateral(flux, k, d.amount)
           f2 == RemoveDebt(UnmintFusd(f1, k, debt), k, debt)
           f3 == UnlinkIfLinked(Delist(f2, id, "Closed", 0), id)
           e == [f3.cdps[id] EXCEPT !.ratio = 0]
           f4 == [f3 EXCEPT !.cdps[id] = e]
<1>1. /\ Active(d) /\ flux' = [f3 EXCEPT !.cdps[id].ratio = 0] /\ held' = held - debt
  BY SMTT(30) DEF CloseCdp
<1>2. flux' = f4
  BY <1>1
<1>3. Ready(flux) /\ StateOK(flux) /\ Accounted(flux) /\ id \in DOMAIN flux.cdps
  BY SMTT(30) DEF Fit, Ready, Loans
<1>4. /\ ListedIn(flux, id) /\ k \in DOMAIN flux.tiers /\ k \in Tiers /\ k[1] \in DOMAIN flux.collaterals
      /\ d.amount \in Int /\ d.borrower \in DOMAIN flux.borrowers \cup {Nobody}
  BY <1>1, <1>3, OpenFacts
<1>5. /\ Step(flux, flux', id, held' - held) /\ StateOK(flux')
  BY <1>3, CloseStep, CloseOK
<1>6. Settled(flux, flux', id)
  BY <1>5, StepSettles DEF Settled
<1>7. /\ SamePrices(flux, f1) /\ SameDebts(flux, f1) /\ SameLoans(flux, f1)
      /\ f1.ratios = flux.ratios /\ DOMAIN f1.tiers = DOMAIN flux.tiers /\ Accounted(f1)
  BY <1>3, <1>4, TakeDebts, TakeEntry DEF Entry
<1>8. /\ RealToPoolDebt(f1, k, debt) = a /\ PoolOf(f1, k) = PoolOf(flux, k)
      /\ RealOf(f1, k) = RealOf(flux, k)
  BY <1>4, <1>7, MultiplierSame DEF RealToPoolDebt, SameDebts
<1> HIDE DEF f1
<1>9. k \in DOMAIN f1.tiers /\ k[1] \in DOMAIN f1.collaterals
  BY <1>4, <1>7 DEF SamePrices
<1>10. Owes(f1, f2, k, P, R)
  BY SMTT(30), <1>7, <1>8, <1>9, RepayDebts
<1>11. debt \in Int
  BY <1>3, <1>4, PoolToRealInt, OpenFacts, <1>1 DEF StateOK
<1>12. /\ SameLoans(f1, f2) /\ f2.ratios = f1.ratios /\ Accounted(f2)
  BY <1>7, <1>9, <1>11, RepayEntry DEF Entry
<1> HIDE DEF f2, debt, a, P, R
<1>13. Owes(flux, f2, k, P, R)
  BY <1>4, <1>7, <1>10, OwesThen
<1>14. /\ id \in DOMAIN f2.cdps /\ ListedIn(f2, id) /\ f2.cdps[id] = d
       /\ f2.cdps[id].borrower \in DOMAIN f2.borrowers \cup {Nobody}
  BY <1>3, <1>4, <1>7, <1>12 DEF SameLoans, ListedIn
<1>15. /\ Trims(f2, f3) /\ OthersKept(f2, f3, id) /\ DOMAIN f3.cdps[id] = CdpFields
       /\ f3.cdps[id].status = "Closed" /\ Accounted(f3)
  BY <1>12, <1>14, DelistUnlinkTrims, DelistUnlinked DEF Ends
<1> HIDE DEF f3
<1>16. /\ DOMAIN e = CdpFields /\ e.status = "Closed"
  BY <1>15 DEF CdpFields
<1>17. id \in DOMAIN f3.cdps
  BY <1>14, <1>15 DEF OthersKept
<1> HIDE DEF e
<1>18. Still(f3, f4) /\ f4.tiers = f3.tiers /\ f4.cdps[id] = e
  BY <1>15, <1>16, <1>17, CdpStill DEF OneLoan
<1> HIDE DEF f4
<1>19. Trims(f2, f4)
  BY <1>4, <1>15, <1>18, StillDebts, OwesThen
<1>20. Leaves(flux, f4, k, P, R)
  BY <1>4, <1>13, <1>19, OwesTrims
<1>21. flux'.cdps[id].status = "Closed" /\ ~Active(flux'.cdps[id])
  BY <1>2, <1>16, <1>18 DEF Active
<1>22. CoverStep(flux, flux', id)
  BY <1>1, <1>2, <1>3, <1>6, <1>20, <1>21, EndCover DEF debt, a, P, R
<1>23. Fair(flux, flux', id)
  BY <1>21 DEF Fair
<1> QED
  BY SMTT(30), <1>22, <1>23 DEF Served

\* The repayment of some pool debt lowers no ratio.
LEMMA RatioRises ==
  ASSUME NEW amount \in Nat, NEW pool \in Nat \ {0}, NEW left \in Nat \ {0}, left <= pool
  PROVE  Div(amount, left) >= Div(amount, pool)
BY PoolRises

\* partial_close_cdp.
LEMMA PartialCloseServes ==
  ASSUME Fit(flux), now \in Nat, held \in Int, NEW id \in Loans,
         NEW repayment \in Repayments, PartialCloseCdp(id, repayment)
  PROVE  Served(flux, flux', id)
<1> DEFINE d == flux.cdps[id]
           k == Tier(d)
           a == RealToPoolDebt(flux, k, repayment)
           pool == d.pool - a
           P == PoolOf(flux, k) - a
           R == RealOf(flux, k) - repayment
           f1 == RemoveDebt(UnmintFusd(flux, k, repayment), k, repayment)
           g == Relist(f1, id, d.interest, d.amount, pool)
<1>1. Active(d)
  BY DEF PartialCloseCdp
<1>2. CASE pool < 0
  <2>1. CloseCdp(id)
    BY <1>2 DEF PartialCloseCdp
  <2> QED
    BY <2>1, CloseServes
<1>3. CASE ~(pool < 0)
  <2>1. flux' = g /\ held' = held - repayment /\ pool # 0
    BY <1>3 DEF PartialCloseCdp, RoomToRelist
  <2>2. Ready(flux) /\ StateOK(flux) /\ Accounted(flux) /\ id \in DOMAIN flux.cdps
        /\ EmptyTiers(flux) = {} /\ Solvent(flux)
    BY DEF Fit, Ready, Loans
  <2>3. /\ ListedIn(flux, id) /\ k \in DOMAIN flux.tiers /\ k \in Tiers
        /\ k[1] \in DOMAIN flux.collaterals /\ d.amount \in Int
        /\ d.pool \in Nat /\ d.pool >= 1 /\ k = <<d.collateral, d.interest>>
        /\ d.ratio = Div(d.amount, d.pool) /\ (McrsAboveOne => d.amount >= 0)
        /\ DebtMultiplier(flux, k) \in Nat /\ ONE <= DebtMultiplier(flux, k)
    BY <1>1, <2>2, OpenFacts
  <2>4. repayment \in Nat
    BY AmountAssumption
  <2>5. Settled(flux, flux', id)
    BY <2>2, PartialCloseStep, PartialCloseOK, StepSettles DEF Settled
  <2>6. a \in Nat
    BY <2>3, <2>4, PoolFromReal DEF RealToPoolDebt
  <2>7. /\ Owes(flux, f1, k, P, R)
        /\ SameLoans(flux, f1) /\ f1.ratios = flux.ratios /\ Accounted(f1)
    BY <2>2, <2>3, <2>4, RepayDebts, RepayEntry DEF Entry
  <2> HIDE DEF f1, a, P, R
  <2>8. /\ id \in DOMAIN f1.cdps /\ ListedIn(f1, id) /\ f1.cdps[id] = d
    BY <2>2, <2>3, <2>7 DEF SameLoans, ListedIn
  <2>9. <<f1.cdps[id].collateral, d.interest>> \in Tiers
    BY <2>3, <2>8
  <2>10. /\ SamePrices(f1, g) /\ SameDebts(f1, g)
         /\ Revised(d, g.cdps[id], d.interest, d.amount, pool, d.status)
    BY <2>7, <2>8, <2>9, RelistDebts
  <2> HIDE DEF g
  <2>11. Owes(flux, g, k, P, R)
    BY <2>3, <2>7, <2>10, OwesSame
  <2>12. Leaves(flux, g, k, P, R)
    <3>1. DOMAIN g.tiers \subseteq Tiers
      BY <2>1, <2>5 DEF Settled, StateOK, WellTyped
    <3> QED
      BY <2>11, <3>1 DEF Owes, Leaves
  <2>13. pool \in Nat \ {0} /\ pool >= 1 /\ pool <= d.pool /\ a <= d.pool
    BY <1>3, <2>1, <2>3, <2>6
  <2>14. LoanSolvent(g.cdps[id])
    BY <2>3, <2>10, <2>13, RevisedSolvent
  <2>15. g.cdps[id].pool = d.pool - a /\ Tier(g.cdps[id]) = k
    BY <2>3, <2>10 DEF Revised, Tier
  <2> HIDE DEF pool
  <2>16. CoverStep(flux, flux', id)
    BY <1>1, <2>1, <2>2, <2>4, <2>5, <2>12, <2>13, <2>14, <2>15, LeaveCover DEF Settled, a, P, R
  <2>17. ASSUME McrsAboveOne
         PROVE  Fair(flux, g, id)
    <3>1. d.amount \in Nat /\ d.pool \in Nat \ {0}
      BY <2>3, <2>17
    <3>2. Div(d.amount, pool) >= Div(d.amount, d.pool)
      BY <2>13, <3>1, RatioRises
    <3>3. Div(d.amount, pool) \in Nat /\ Div(d.amount, d.pool) \in Nat
      BY <2>13, <3>1, QuotientBounds
    <3>4. ~(g.cdps[id].ratio < d.ratio)
      BY <2>3, <2>10, <3>2, <3>3 DEF Revised
    <3>5. RatioKept(flux', d, g.cdps[id]) /\ RatioKept(g, d, g.cdps[id])
      BY <3>4 DEF RatioKept
    <3>6. ~Lowered(d, g.cdps[id]) /\ Active(g.cdps[id])
      BY <1>1, <2>3, <2>10 DEF Lowered, Revised, Active
    <3> QED
      BY <3>5, <3>6 DEF Fair
  <2> QED
    BY <2>1, <2>16, <2>17 DEF Served
<1> QED
  BY <1>2, <1>3

\* liquidate_cdp, of a loan without notice or after it.
LEMMA LiquidateServes ==
  ASSUME Fit(flux), now \in Nat, held \in Int, NEW id \in Loans, NEW price \in Nat \ {0},
         Liquidate(id, price)
  PROVE  Served(flux, flux', id)
<1> DEFINE d == flux.cdps[id]
           c == d.collateral
           k == Tier(d)
           f == WithPrice(flux, c, price)
           debt == PoolToRealDebt(f, k, d.pool)
           a == RealToPoolDebt(f, k, debt)
           P == PoolOf(f, k) - a
           R == RealOf(f, k) - debt
           worth == Div(d.amount, CrPercentage(f, id))
           payout == Lesser(d.amount, Mul(f.params.liquidationFine, worth) + worth)
           left == d.amount - payout
           f2 == IF d.status = "Marked" THEN UnlinkIfLinked(f, id) ELSE f
           f3 == RemoveDebt(UnmintFusd(f2, k, debt), k, debt)
           f4 == TakeCollateral(f3, k, d.amount)
           f5 == PutInLeftovers(f4, k[1], left)
           g == Delist(f5, id, "Liquidated", left)
<1>1. /\ CanLiquidate(f, id) /\ flux' = g /\ Lcr(f, k) # 0 /\ CrPercentage(f, id) # 0
  BY DEF Liquidate, Tier
<1>2. /\ Ready(flux) /\ StateOK(flux) /\ id \in DOMAIN flux.cdps /\ c \in DOMAIN flux.collaterals
  BY DEF Fit, Ready, Loans, StateOK, WellTyped
<1>3. Settled(flux, flux', id)
  BY <1>2, LiquidateStep, LiquidateOK, StepSettles DEF Settled
<1>4. /\ Fit(f) /\ f.cdps = flux.cdps /\ f.borrowers = flux.borrowers
      /\ \A h : Served(f, h, id) => Served(flux, h, id)
  BY <1>2, PricedFit
<1> HIDE DEF f
<1>5. Active(d) /\ d.pool # 0 /\ StateOK(f) /\ Accounted(f) /\ id \in DOMAIN f.cdps /\ f.cdps[id] = d
  BY <1>1, <1>2, <1>4 DEF CanLiquidate, Fit, Ready
<1>6. /\ ListedIn(f, id) /\ k \in DOMAIN f.tiers /\ k \in Tiers
      /\ k[1] \in DOMAIN f.collaterals /\ d.amount \in Int /\ d.pool \in Nat
      /\ d.borrower \in DOMAIN f.borrowers \cup {Nobody}
  BY <1>4, <1>5, OpenFacts
<1>7. debt \in Int
  BY <1>5, <1>6, PoolToRealInt DEF StateOK
<1>8. left \in Int
  BY <1>1, <1>5, LiquidationLeftInt
<1> HIDE DEF left
<1>9. SameBooks(f, f2) /\ OthersKept(f, f2, id)
      /\ f2.cdps[id].collateral = d.collateral /\ f2.cdps[id].interest = d.interest
      /\ f2.cdps[id].ratio = d.ratio
  <2>1. CASE d.status = "Marked"
    <3>1. f2 = UnlinkIfLinked(f, id)
      BY <2>1
    <3>2. /\ SameBooks(f, f2) /\ OthersKept(f, f2, id) /\ Unlinked(f.cdps[id], f2.cdps[id])
      BY <1>5, <1>6, <3>1, UnlinkIfLinkedBooks
    <3> HIDE DEF f2
    <3> QED
      BY <1>5, <3>2 DEF Unlinked
  <2>2. CASE d.status # "Marked"
    <3>1. f2 = f
      BY <2>2
    <3> HIDE DEF f2
    <3> QED
      BY <1>5, <3>1 DEF SameBooks, OthersKept
  <2> QED
    BY <2>1, <2>2
<1> HIDE DEF f2
<1>10. /\ Accounted(f2) /\ f2.tiers = f.tiers /\ f2.ratios = f.ratios /\ SamePrices(f, f2)
       /\ f2.collaterals = f.collaterals
  BY <1>9 DEF SameBooks, SamePrices
<1>11. SameDebts(f, f2) /\ RealToPoolDebt(f2, k, debt) = a
       /\ PoolOf(f2, k) = PoolOf(f, k) /\ RealOf(f2, k) = RealOf(f, k)
  BY <1>10 DEF SameDebts, PoolOf, RealOf, RealToPoolDebt, DebtMultiplier
<1> HIDE DEF debt, a
<1>12. /\ Owes(f2, f3, k, P, R)
       /\ SameLoans(f2, f3) /\ f3.ratios = f2.ratios /\ Accounted(f3)
       /\ DOMAIN f3.tiers = DOMAIN f2.tiers
  BY <1>6, <1>7, <1>10, <1>11, RepayDebts, RepayEntry DEF Entry
<1> HIDE DEF f3, P, R
<1>13. k \in DOMAIN f3.tiers /\ k[1] \in DOMAIN f3.collaterals
  BY <1>6, <1>10, <1>12 DEF Owes, SamePrices
<1>14. /\ SamePrices(f3, f4) /\ SameDebts(f3, f4) /\ SameLoans(f3, f4) /\ f4.ratios = f3.ratios
       /\ Accounted(f4)
  BY <1>6, <1>12, <1>13, TakeDebts, TakeEntry DEF Entry
<1> HIDE DEF f4
<1>15. k[1] \in DOMAIN f4.collaterals
  BY <1>13, <1>14 DEF SamePrices
<1>16. /\ SamePrices(f4, f5) /\ SameDebts(f4, f5) /\ SameLoans(f4, f5) /\ f5.ratios = f4.ratios
       /\ Accounted(f5)
  BY <1>6, <1>8, <1>14, <1>15, CoinDebts, CoinEntries DEF Entry
<1> HIDE DEF f5
<1>17. Owes(f, f5, k, P, R)
  <2>1. Owes(f, f3, k, P, R)
    BY ZenonT(40), <1>6, <1>10, <1>11, <1>12, OwesThen
  <2>2. Owes(f, f4, k, P, R)
    BY <1>6, <1>14, <2>1, OwesSame
  <2> QED
    BY <1>6, <1>16, <2>2, OwesSame
<1>18. SameLoans(f2, f5) /\ f5.ratios = f.ratios
  BY <1>10, <1>12, <1>14, <1>16 DEF SameLoans
<1>19. ListedIn(f5, id) /\ Tier(f5.cdps[id]) = k
  BY <1>5, <1>6, <1>9, <1>18 DEF SameLoans, ListedIn, Tier, OthersKept
<1>20. /\ Trims(f5, g) /\ OneLoan(f5, g, id, Ended(f5.cdps[id], "Liquidated", left))
  BY <1>16, <1>19, DelistTrims, DelistEnds
<1> HIDE DEF g
<1>21. g.cdps[id].status = "Liquidated"
  <2>1. DOMAIN f5.cdps[id] = CdpFields
    BY <1>16, <1>19 DEF Accounted, Shaped, ListedIn
  <2> QED
    BY <1>20, <2>1 DEF OneLoan, Ended, CdpFields
<1>22. Leaves(f, g, k, P, R)
  BY <1>6, <1>17, <1>20, OwesTrims
<1>23. Settled(f, g, id)
  BY <1>1, <1>3, <1>4 DEF Settled
<1>24. CoverStep(f, g, id)
  BY <1>4, <1>5, <1>21, <1>22, <1>23, EndCover DEF debt, a, P, R, Active
<1>25. Fair(f, g, id)
  BY <1>21 DEF Fair
<1> QED
  BY SMTT(30), <1>1, <1>4, <1>24, <1>25 DEF Served

-----------------------------------------------------------------------------
(* Calls that move no debt.                                                *)

\* The check of the ratio depends on debts and prices only, and lets no loan have
\* less than nothing.
LEMMA MeetsSame ==
  ASSUME NEW f, NEW g, SamePrices(f, g), SameDebts(f, g), NEW k \in Tiers,
         k[1] \in DOMAIN f.collaterals, NEW amount, NEW pool
  PROVE  MeetsMcr(g, k, amount, pool) = MeetsMcr(f, k, amount, pool)
<1>1. DebtMultiplier(g, k) = DebtMultiplier(f, k)
  BY MultiplierSame
<1> QED
  BY <1>1 DEF SamePrices, MeetsMcr

\* A loan that has debt and passes the check of the ratio has no negative collateral.
LEMMA MeetsPositive ==
  ASSUME NEW f, StateOK(f), Solvent(f), NEW k, k[1] \in DOMAIN f.collaterals,
         NEW amount \in Int, NEW pool \in Nat, pool >= 1,
         DebtMultiplier(f, k) \in Nat, ONE <= DebtMultiplier(f, k),
         MeetsMcr(f, k, amount, pool), McrsAboveOne
  PROVE  amount >= 0
<1> DEFINE price == f.collaterals[k[1]].price
           mcr == f.collaterals[k[1]].mcr
           m == DebtMultiplier(f, k)
           need == Mul(Mul(pool, m), mcr)
<1>1. price \in Nat \ {0} /\ mcr \in Nat /\ mcr >= ONE
  BY DEF StateOK, WellTyped, IsCollateralInfo, Solvent, McrsAboveOne
<1>2. Mul(price, amount) >= need
  BY DEF MeetsMcr
<1> HIDE DEF price, mcr, m
<1>3. Mul(pool, m) \in Nat /\ pool <= Mul(pool, m)
  BY RealFromPool DEF m
<1> HIDE DEF need
<1>4. need \in Nat /\ Mul(pool, m) <= need
  BY <1>1, <1>3, RealFromPool DEF need
<1>5. ASSUME amount < 0
      PROVE  FALSE
  <2>1. price * amount \in Int /\ price * amount < 0
    BY <1>1, <1>5
  <2> DEFINE x == price * amount
  <2>2. Mul(price, amount) = Quot(x, ONE) /\ x \in Int /\ x < 0
    BY <2>1 DEF Mul
  <2> HIDE DEF x
  <2>3. Quot(x, ONE) <= 0 /\ Quot(x, ONE) \in Int
    BY <2>2, DecimalAssumption DEF Quot, Abs
  <2> QED
    BY <1>2, <1>3, <1>4, <2>2, <2>3
<1> QED
  BY <1>5

\* A loan that stays open with the debt it has, in the tier where it was, and with
\* enough collateral.
LEMMA QuietServes ==
  ASSUME NEW f, NEW g, NEW id \in DOMAIN f.cdps, Fit(f), Settled(f, g, id), Active(f.cdps[id]),
         id \in DOMAIN g.cdps, SamePrices(f, g), SameDebts(f, g), NEW amount \in Int,
         NEW status \in {"Healthy", "Marked"},
         Revised(f.cdps[id], g.cdps[id], f.cdps[id].interest, amount, f.cdps[id].pool, status),
         MeetsMcr(f, Tier(f.cdps[id]), amount, f.cdps[id].pool)
  PROVE  Served(f, g, id)
<1> DEFINE d == f.cdps[id]
           e == g.cdps[id]
           k == Tier(d)
<1>1. /\ k \in Tiers /\ k[1] \in DOMAIN f.collaterals /\ d.pool \in Nat /\ d.pool >= 1
      /\ DebtMultiplier(f, k) \in Nat /\ ONE <= DebtMultiplier(f, k)
  BY OpenFacts
<1>2. StateOK(f) /\ EmptyTiers(f) = {} /\ Solvent(f)
  BY DEF Fit, Ready
<1>3. McrsAboveOne => amount >= 0
  BY <1>1, <1>2, MeetsPositive
<1>4. LoanSolvent(e)
  BY <1>1, <1>3, RevisedSolvent
<1>5. Active(e) /\ Tier(e) = k /\ e.pool = d.pool /\ e.amount = amount
  BY DEF Revised, Active, Tier
<1>6. \A l \in Tiers : PoolPart(g, id, l) = PoolPart(f, id, l)
  BY <1>5 DEF PoolPart
<1>7. \A c \in DOMAIN g.collaterals : g.collaterals[c].mcr \in Mcrs
  BY <1>2 DEF SamePrices, Solvent
<1>8. DOMAIN g.tiers \subseteq Tiers
  BY DEF Settled, StateOK, WellTyped
<1>9. CoverStep(f, g, id)
  BY <1>2, <1>4, <1>6, <1>7, <1>8, QuietCover DEF Settled
<1>10. MeetsMcr(g, k, amount, d.pool)
  BY <1>1, MeetsSame
<1>11. RatioKept(g, d, e)
  BY <1>5, <1>10 DEF RatioKept
<1>12. ~Lowered(d, e)
  BY <1>1, <1>5 DEF Lowered
<1>13. Fair(f, g, id)
  BY <1>5, <1>11, <1>12 DEF Fair
<1> QED
  BY <1>9, <1>13 DEF Served

\* top_up_cdp.
LEMMA TopUpServes ==
  ASSUME Fit(flux), now \in Nat, held \in Int, NEW id \in Loans, NEW deposit \in TopUps,
         NEW price \in Nat \ {0}, TopUpCdp(id, deposit, price)
  PROVE  Served(flux, flux', id)
<1> DEFINE d == flux.cdps[id]
           k == Tier(d)
           amount == d.amount + deposit
           f == WithPrice(flux, d.collateral, price)
           f2 == Relist(UnmarkIfMarked(f, id), id, d.interest, amount, d.pool)
           g == PutCollateral(f2, k, deposit)
<1>1. Active(d) /\ flux' = g /\ MeetsMcr(f, k, amount, d.pool)
  BY DEF TopUpCdp
<1>2. /\ Ready(flux) /\ StateOK(flux) /\ id \in DOMAIN flux.cdps
      /\ d.collateral \in DOMAIN flux.collaterals
  BY DEF Fit, Ready, Loans, StateOK, WellTyped
<1>3. Settled(flux, flux', id)
  BY <1>2, TopUpStep, TopUpOK, StepSettles DEF Settled
<1>4. /\ Fit(f) /\ f.cdps = flux.cdps /\ \A h : Served(f, h, id) => Served(flux, h, id)
  BY <1>2, PricedFit
<1> HIDE DEF f
<1>5. /\ ListedIn(f, id) /\ k \in Tiers /\ k[1] \in DOMAIN f.collaterals
      /\ k = <<d.collateral, d.interest>> /\ d.amount \in Int /\ Accounted(f)
      /\ id \in DOMAIN f.cdps /\ f.cdps[id] = d
  BY <1>1, <1>2, <1>4, OpenFacts DEF Fit, Ready
<1>6. deposit \in Int /\ amount \in Int
  BY <1>5, AmountAssumption
<1> HIDE DEF amount
<1>7. /\ SamePrices(f, f2) /\ SameDebts(f, f2) /\ OthersKept(f, f2, id) /\ Accounted(f2)
      /\ Revised(d, f2.cdps[id], d.interest, amount, d.pool, "Healthy")
  BY <1>5, UnmarkRelistDebts
<1> HIDE DEF f2
<1>8. Accounted(f2) /\ k[1] \in DOMAIN f2.collaterals
  BY <1>5, <1>7 DEF SamePrices
<1>9. /\ SamePrices(f2, g) /\ SameDebts(f2, g) /\ SameLoans(f2, g)
  BY <1>5, <1>6, <1>8, PutDebts, PutEntry
<1> HIDE DEF g
<1>10. SamePrices(f, g) /\ SameDebts(f, g)
  BY <1>5, <1>7, <1>9, OwesThen
<1>11. /\ id \in DOMAIN g.cdps
       /\ Revised(d, g.cdps[id], d.interest, amount, d.pool, "Healthy")
  BY <1>5, <1>7, <1>9 DEF SameLoans, OthersKept
<1>12. Settled(f, g, id)
  BY <1>1, <1>3, <1>4 DEF Settled
<1>13. Served(f, g, id)
  BY <1>1, <1>4, <1>5, <1>6, <1>10, <1>11, <1>12, QuietServes
<1> QED
  BY <1>1, <1>4, <1>13

\* remove_collateral.
LEMMA RemoveCollateralServes ==
  ASSUME Fit(flux), now \in Nat, held \in Int, NEW id \in Loans,
         NEW withdrawal \in Withdrawals, NEW price \in Nat \ {0},
         RemoveCollateral(id, withdrawal, price)
  PROVE  Served(flux, flux', id)
<1> DEFINE d == flux.cdps[id]
           k == Tier(d)
           amount == d.amount - withdrawal
           f == WithPrice(flux, d.collateral, price)
           f2 == Relist(UnmarkIfMarked(f, id), id, d.interest, amount, d.pool)
           g == TakeCollateral(f2, k, withdrawal)
<1>1. Active(d) /\ flux' = g /\ MeetsMcr(f, k, amount, d.pool)
  BY DEF RemoveCollateral
<1>2. /\ Ready(flux) /\ StateOK(flux) /\ id \in DOMAIN flux.cdps
      /\ d.collateral \in DOMAIN flux.collaterals
  BY DEF Fit, Ready, Loans, StateOK, WellTyped
<1>3. Settled(flux, flux', id)
  BY <1>2, RemoveCollateralStep, RemoveCollateralOK, StepSettles DEF Settled
<1>4. /\ Fit(f) /\ f.cdps = flux.cdps /\ \A h : Served(f, h, id) => Served(flux, h, id)
  BY <1>2, PricedFit
<1> HIDE DEF f
<1>5. /\ ListedIn(f, id) /\ k \in Tiers /\ k[1] \in DOMAIN f.collaterals
      /\ k = <<d.collateral, d.interest>> /\ d.amount \in Int /\ Accounted(f)
      /\ id \in DOMAIN f.cdps /\ f.cdps[id] = d
  BY <1>1, <1>2, <1>4, OpenFacts DEF Fit, Ready
<1>6. withdrawal \in Int /\ amount \in Int
  BY <1>5, AmountAssumption
<1> HIDE DEF amount
<1>7. /\ SamePrices(f, f2) /\ SameDebts(f, f2) /\ OthersKept(f, f2, id) /\ Accounted(f2)
      /\ k \in DOMAIN f2.tiers
      /\ Revised(d, f2.cdps[id], d.interest, amount, d.pool, "Healthy")
  BY <1>5, UnmarkRelistDebts
<1> HIDE DEF f2
<1>8. Accounted(f2) /\ k[1] \in DOMAIN f2.collaterals
  BY <1>5, <1>7 DEF SamePrices
<1>9. /\ SamePrices(f2, g) /\ SameDebts(f2, g) /\ SameLoans(f2, g)
  BY <1>6, <1>7, <1>8, TakeDebts, TakeEntry
<1> HIDE DEF g
<1>10. SamePrices(f, g) /\ SameDebts(f, g)
  BY SMTT(30), <1>5, <1>7, <1>9, OwesThen
<1>11. /\ id \in DOMAIN g.cdps
       /\ Revised(d, g.cdps[id], d.interest, amount, d.pool, "Healthy")
  BY <1>5, <1>7, <1>9 DEF SameLoans, OthersKept
<1>12. Settled(f, g, id)
  BY <1>1, <1>3, <1>4 DEF Settled
<1>13. Served(f, g, id)
  BY <1>1, <1>4, <1>5, <1>6, <1>10, <1>11, <1>12, QuietServes
<1> QED
  BY <1>1, <1>4, <1>13

\* unmark.
LEMMA UnmarkServes ==
  ASSUME Fit(flux), held \in Int, NEW id \in Loans, NEW price \in Nat \ {0}, Unmark(id, price)
  PROVE  Served(flux, flux', id)
<1> DEFINE d == flux.cdps[id]
           k == Tier(d)
           f == WithPrice(flux, d.collateral, price)
           g == UnmarkIfMarked(f, id)
<1>1. Active(d) /\ flux' = g /\ MeetsMcr(f, k, d.amount, d.pool)
  BY DEF Unmark, Active
<1>2. /\ Ready(flux) /\ StateOK(flux) /\ id \in DOMAIN flux.cdps
      /\ d.collateral \in DOMAIN flux.collaterals
  BY DEF Fit, Ready, Loans, StateOK, WellTyped
<1>3. Settled(flux, flux', id)
  BY <1>2, UnmarkStep, UnmarkActionOK, StepSettles DEF Settled
<1>4. /\ Fit(f) /\ f.cdps = flux.cdps /\ \A h : Served(f, h, id) => Served(flux, h, id)
  BY <1>2, PricedFit
<1> HIDE DEF f
<1>5. /\ d.amount \in Int /\ d.ratio = Div(d.amount, d.pool) /\ Accounted(f)
      /\ id \in DOMAIN f.cdps /\ f.cdps[id] = d
  BY <1>1, <1>2, <1>4, OpenFacts DEF Fit, Ready
<1>6. /\ SameBooks(f, g) /\ StillOpen(f, g, id)
      /\ g.cdps[id].amount = d.amount /\ g.cdps[id].pool = d.pool
      /\ g.cdps[id].ratio = d.ratio /\ g.cdps[id].status = "Healthy"
  BY <1>5, UnmarkOpen
<1> HIDE DEF g
<1>7. SamePrices(f, g) /\ SameDebts(f, g) /\ id \in DOMAIN g.cdps
  BY <1>6, BooksEntry, StillDebts DEF StillOpen, OthersKept
<1>8. Revised(d, g.cdps[id], d.interest, d.amount, d.pool, "Healthy")
  BY <1>5, <1>6 DEF Revised, StillOpen
<1>9. Settled(f, g, id)
  BY <1>1, <1>3, <1>4 DEF Settled
<1>10. Served(f, g, id)
  BY <1>1, <1>4, <1>5, <1>7, <1>8, <1>9, QuietServes
<1> QED
  BY <1>1, <1>4, <1>10

-----------------------------------------------------------------------------
(* Borrowing.                                                              *)

\* Products grow with their factors.
LEMMA MulGrows ==
  ASSUME NEW a \in Nat, NEW b \in Nat, NEW c \in Nat, b <= c
  PROVE  Mul(a, b) <= Mul(a, c) /\ Mul(b, a) <= Mul(c, a)
<1> DEFINE x == Mul(a, b)
           y == Mul(a, c)
<1>1. ONE \in Nat \ {0} /\ a * b <= a * c /\ a * b \in Nat
  BY DecimalAssumption
<1>2. x \in Nat /\ y \in Nat /\ x * ONE <= a * b /\ a * c < (y + 1) * ONE
  BY MulBounds
<1> HIDE DEF x, y
<1>3. a * b < (y + 1) * ONE
  BY <1>1, <1>2
<1>4. x <= y
  BY <1>1, <1>2, <1>3, LargestFit
<1>5. Mul(b, a) = Mul(a, b) /\ Mul(c, a) = Mul(a, c)
  BY DEF Mul
<1> QED
  BY <1>4, <1>5 DEF x, y

\* With a lower multiplier and the same price, a ratio that was enough still is.
LEMMA MeetsLower ==
  ASSUME NEW f, NEW g, StateOK(f), SamePrices(f, g), NEW k, k[1] \in DOMAIN f.collaterals,
         NEW amount \in Int, NEW pool \in Nat, DebtMultiplier(f, k) \in Nat,
         DebtMultiplier(g, k) \in Nat, DebtMultiplier(g, k) <= DebtMultiplier(f, k),
         MeetsMcr(f, k, amount, pool)
  PROVE  MeetsMcr(g, k, amount, pool)
<1> DEFINE price == f.collaterals[k[1]].price
           mcr == f.collaterals[k[1]].mcr
           m == DebtMultiplier(f, k)
           n == DebtMultiplier(g, k)
           x == Mul(pool, m)
           y == Mul(pool, n)
<1>1. price \in Nat /\ mcr \in Nat
  BY DEF StateOK, WellTyped, IsCollateralInfo
<1>2. g.collaterals[k[1]].price = price /\ g.collaterals[k[1]].mcr = mcr
  BY DEF SamePrices
<1>3. x \in Nat /\ y \in Nat /\ y <= x
  BY MulGrows, MulBounds
<1>4. Mul(price, amount) >= Mul(x, mcr)
  BY DEF MeetsMcr
<1>5. MeetsMcr(g, k, amount, pool) <=> Mul(price, amount) >= Mul(y, mcr)
  BY <1>2 DEF MeetsMcr
<1> HIDE DEF price, mcr, x, y
<1>6. Mul(y, mcr) <= Mul(x, mcr) /\ Mul(y, mcr) \in Nat /\ Mul(x, mcr) \in Nat
  BY <1>1, <1>3, MulGrows, MulBounds
<1>7. Mul(price, amount) \in Int
  BY <1>1, MulInt
<1> QED
  BY <1>4, <1>5, <1>6, <1>7

\* borrow_more: the loan owes the pool debt of the amount and its fee on top, and its
\* tier the real debt that this comes to.
Borrowed(f, g, id, checkCr) ==
  LET d == f.cdps[id]
      e == g.cdps[id]
  IN  /\ CoverStep(f, g, id) /\ id \in DOMAIN g.cdps
      /\ e.status = (IF checkCr THEN "Healthy" ELSE d.status)
      /\ e.collateral = d.collateral /\ e.interest = d.interest /\ e.amount = d.amount
      /\ e.pool \in Nat /\ e.pool >= d.pool /\ d.pool \in Nat /\ Active(d)
      /\ checkCr => MeetsMcr(g, Tier(e), e.amount, e.pool)

\* Borrowing more: by borrow_more, and as the fee of another handler.
LEMMA BorrowCover ==
  ASSUME NEW f, Fit(f), now \in Nat, NEW id \in DOMAIN f.cdps, NEW amount \in Nat,
         NEW withInterest \in BOOLEAN, NEW checkCr \in BOOLEAN,
         BorrowAllowed(f, id, amount, withInterest, checkCr),
         NEW g, g = Borrow(f, id, amount, withInterest, checkCr), Settled(f, g, id)
  PROVE  Borrowed(f, g, id, checkCr)
<1> DEFINE d == f.cdps[id]
           e == g.cdps[id]
           k == Tier(d)
           base == RealToPoolDebt(f, k, amount)
           fees == BorrowFee(f, id, amount, withInterest)
           more == BorrowedPool(f, id, amount, withInterest)
           real == PoolToRealDebt(f, k, more)
           fee == PoolToRealDebt(f, k, fees)
           P == PoolOf(f, k) + more
           R == RealOf(f, k) + real
           f1 == IF checkCr THEN UnmarkIfMarked(f, id) ELSE f
           pool == d.pool + more
           status == IF checkCr THEN "Healthy" ELSE d.status
           f2 == Relist(f1, id, d.interest, d.amount, pool)
           f3 == AddDebt(MintFusd(f2, k, more), k, real)
<1>1. Active(d) /\ (checkCr => MeetsMcr(f, k, d.amount, pool))
  BY DEF BorrowAllowed
<1>2. /\ ListedIn(f, id) /\ k \in Tiers /\ k[1] \in DOMAIN f.collaterals /\ k[1] = d.collateral
      /\ k = <<d.collateral, d.interest>> /\ d.interest \in Interests
      /\ d.amount \in Int /\ d.pool \in Nat /\ d.pool >= 1 /\ (McrsAboveOne => d.amount >= 0)
      /\ DebtMultiplier(f, k) \in Nat /\ ONE <= DebtMultiplier(f, k)
      /\ PoolOf(f, k) \in Int /\ RealOf(f, k) \in Int
  BY <1>1, OpenFacts
<1>3. StateOK(f) /\ Accounted(f) /\ EmptyTiers(f) = {} /\ Solvent(f)
  BY DEF Fit, Ready
<1>4. base \in Nat
  BY <1>2, PoolFromReal DEF RealToPoolDebt
<1>5. fees \in Nat
  <2>1. CASE d.interest = Irredeemable \/ ~withInterest
    BY <2>1 DEF BorrowFee
  <2>2. CASE ~(d.interest = Irredeemable \/ ~withInterest)
    <3>1. fees = ExtraInterestDaysFee(f, d.interest, base) /\ d.interest \in Rates
      BY <1>2, <2>2 DEF BorrowFee, Interests
    <3> HIDE DEF base
    <3> QED
      BY <1>3, <1>4, <3>1, FeeNatural DEF StateOK
  <2> QED
    BY <2>1, <2>2
<1>6. more = base + fees
  BY DEF BorrowedPool
<1> HIDE DEF base, fees, more
<1>7. more \in Nat /\ pool \in Nat /\ pool >= 1 /\ pool >= d.pool
  BY <1>2, <1>4, <1>5, <1>6
<1>8. real \in Nat
  BY <1>2, <1>7, RealFromPool DEF PoolToRealDebt
<1>9. g = PutUncharged(f3, k[1], fee)
  BY <1>2 DEF Borrow, more, fees
<1>10. status \in {"Healthy", "Marked"}
  BY <1>1 DEF Active
<1> HIDE DEF pool, fee
<1>11. /\ SamePrices(f, f2) /\ SameDebts(f, f2) /\ OthersKept(f, f2, id) /\ Accounted(f2)
       /\ Revised(d, f2.cdps[id], d.interest, d.amount, pool, status)
  <2>1. CASE checkCr
    <3>1. f2 = Relist(UnmarkIfMarked(f, id), id, d.interest, d.amount, pool) /\ status = "Healthy"
      BY <2>1
    <3> HIDE DEF f2, status
    <3> QED
      BY <1>2, <1>3, <3>1, UnmarkRelistDebts
  <2>2. CASE ~checkCr
    <3>1. f2 = Relist(f, id, d.interest, d.amount, pool) /\ status = d.status
      BY <2>2
    <3> HIDE DEF f2, status
    <3> QED
      BY <1>2, <1>3, <3>1, RelistDebts
  <2> QED
    BY <2>1, <2>2
<1> HIDE DEF f1, f2, status
<1>12. /\ k[1] \in DOMAIN f2.collaterals /\ real = PoolToRealDebt(f2, k, more)
       /\ PoolOf(f2, k) = PoolOf(f, k) /\ RealOf(f2, k) = RealOf(f, k)
  <2>1. DebtMultiplier(f2, k) = DebtMultiplier(f, k)
    BY <1>2, <1>11, MultiplierSame
  <2> QED
    BY <1>2, <1>11, <2>1 DEF SamePrices, PoolToRealDebt, SameDebts
<1> HIDE DEF real
<1>13. /\ Owes(f2, f3, k, P, R) /\ Accounted(f3) /\ SameLoans(f2, f3) /\ k \in DOMAIN f3.tiers
  BY <1>2, <1>7, <1>8, <1>11, <1>12, MintDebts, MintEntry DEF Entry
<1> HIDE DEF f3, P, R
<1>14. k[1] \in DOMAIN f3.collaterals
  BY <1>12, <1>13 DEF Owes, SamePrices
<1>15. /\ SamePrices(f3, g) /\ SameDebts(f3, g) /\ g.cdps = f3.cdps /\ g.tiers = f3.tiers
  <2>1. g.cdps = f3.cdps /\ g.tiers = f3.tiers
    <3>1. DOMAIN f3 = Fields
      BY <1>13 DEF Accounted, Shaped
    <3> QED
      BY <1>9, <3>1 DEF PutUncharged, Fields
  <2> QED
    BY SMTT(30), <1>9, <1>13, <1>14, <2>1, CoinDebts
<1>16. Owes(f, f3, k, P, R)
  BY <1>2, <1>11, <1>13, SameOwes
<1>17. Owes(f, g, k, P, R)
  BY <1>2, <1>15, <1>16, OwesSame
<1>18. /\ id \in DOMAIN g.cdps /\ Revised(d, e, d.interest, d.amount, pool, status)
  BY <1>11, <1>13, <1>15 DEF SameLoans, OthersKept
<1>19. LoanSolvent(e)
  BY <1>2, <1>7, <1>18, RevisedSolvent
<1>20. Active(e) /\ Tier(e) = k /\ e.pool = pool
  BY <1>2, <1>10, <1>18 DEF Revised, Active, Tier
<1>21. e.pool = PoolPart(f, id, k) + more
  BY <1>1, <1>20 DEF PoolPart, pool
<1>22. DOMAIN g.tiers \subseteq Tiers
  BY DEF Settled, StateOK, WellTyped
<1>23. /\ CoverStep(f, g, id) /\ DebtMultiplier(g, k) \in Nat
       /\ DebtMultiplier(g, k) <= DebtMultiplier(f, k)
  BY <1>1, <1>2, <1>3, <1>7, <1>13, <1>15, <1>17, <1>18, <1>19, <1>20, <1>21, <1>22, EnterCover
  DEF Settled, P, R, real
<1>24. ASSUME checkCr
       PROVE  MeetsMcr(g, k, d.amount, pool)
  <2>1. SamePrices(f, g)
    BY <1>17 DEF Owes
  <2> QED
    BY <1>1, <1>2, <1>3, <1>7, <1>23, <1>24, <2>1, MeetsLower
<1> QED
  BY <1>1, <1>2, <1>7, <1>18, <1>20, <1>23, <1>24 DEF Borrowed, Revised, status

\* borrow_more, called by the owner.
LEMMA BorrowMoreServes ==
  ASSUME Fit(flux), now \in Nat, held \in Int, NEW id \in Loans,
         NEW amount \in ExtraMints, NEW price \in Nat \ {0}, BorrowMore(id, amount, price)
  PROVE  Served(flux, flux', id)
<1> DEFINE d == flux.cdps[id]
           f == WithPrice(flux, d.collateral, price)
           yes == TRUE
           g == Borrow(f, id, amount, yes, yes)
<1>1. BorrowAllowed(f, id, amount, yes, yes) /\ flux' = g /\ yes \in BOOLEAN /\ yes
  BY DEF BorrowMore
<1>2. /\ Ready(flux) /\ StateOK(flux) /\ id \in DOMAIN flux.cdps
      /\ d.collateral \in DOMAIN flux.collaterals
  BY DEF Fit, Ready, Loans, StateOK, WellTyped
<1>3. Settled(flux, flux', id)
  BY <1>2, BorrowMoreStep, BorrowMoreOK, StepSettles DEF Settled
<1>4. /\ Fit(f) /\ f.cdps = flux.cdps /\ \A h : Served(f, h, id) => Served(flux, h, id)
  BY <1>2, PricedFit
<1> HIDE DEF f
<1>5. Settled(f, g, id) /\ id \in DOMAIN f.cdps /\ f.cdps[id] = d /\ amount \in Nat
  BY <1>1, <1>2, <1>3, <1>4, AmountAssumption DEF Settled
<1>6. g = Borrow(f, id, amount, yes, yes)
  OBVIOUS
<1> HIDE DEF g, yes
<1>7. Borrowed(f, g, id, yes)
  BY <1>1, <1>4, <1>5, <1>6, BorrowCover
<1>8. Fair(f, g, id)
  BY <1>1, <1>5, <1>7 DEF Borrowed, Fair, RatioKept, Lowered, Active
<1> QED
  BY <1>1, <1>4, <1>7, <1>8 DEF Borrowed, Served

\* A mark leaves debts and collateral alone.
LEMMA MarkedFit ==
  ASSUME NEW f, Fit(f), NEW id \in DOMAIN f.cdps, Active(f.cdps[id]), NEW until \in Nat
  PROVE  LET g == WithMark(f, id, until)
         IN  /\ Fit(g) /\ OthersKept(f, g, id) /\ g.tiers = f.tiers
             /\ g.collaterals = f.collaterals /\ g.params = f.params
             /\ g.cdps[id] = [f.cdps[id] EXCEPT !.status = "Marked"]
             /\ \A h, x : PoolOf(g, h) = PoolOf(f, h) /\ PoolPart(g, x, h) = PoolPart(f, x, h)
<1> DEFINE g == WithMark(f, id, until)
           d == f.cdps[id]
<1>1. Ready(f) /\ Solvent(f) /\ StateOK(f) /\ Accounted(f) /\ LoansRight(f) /\ EmptyTiers(f) = {}
  BY DEF Fit, Ready
<1>2. StateOK(g) /\ DOMAIN g.cdps = DOMAIN f.cdps
  BY <1>1, MarkedOK
<1>3. /\ DOMAIN g = Fields /\ g.collaterals = f.collaterals
      /\ g.circulating = f.circulating /\ g.tiers = f.tiers /\ g.ratios = f.ratios
      /\ g.borrowers = f.borrowers /\ g.cdpCounter = f.cdpCounter /\ g.params = f.params
      /\ g.marked = With(f.marked, id, until)
      /\ OthersKept(f, g, id) /\ g.cdps[id] = [d EXCEPT !.status = "Marked"]
  BY <1>1 DEF WithMark, Accounted, Shaped, Fields, OthersKept
<1> HIDE DEF g
<1>4. DOMAIN d = CdpFields
  BY <1>1 DEF Accounted, Shaped
<1>5. /\ g.cdps[id].status = "Marked" /\ g.cdps[id].amount = d.amount
      /\ g.cdps[id].borrower = d.borrower /\ g.cdps[id].interest = d.interest
      /\ g.cdps[id].collateral = d.collateral /\ g.cdps[id].pool = d.pool
      /\ g.cdps[id].ratio = d.ratio
  BY <1>3, <1>4 DEF CdpFields
<1>6. Accounted(g)
  <2>1. \A x \in DOMAIN g.cdps : DOMAIN g.cdps[x] = CdpFields
    BY <1>2 DEF StateOK, WellTyped, Cdp, CdpFields
  <2>2. \A b \in DOMAIN g.borrowers : DOMAIN g.borrowers[b] = BorrowerFields
    BY <1>1, <1>3 DEF Accounted, Shaped
  <2> QED
    BY <1>1, <1>3, <2>1, <2>2 DEF Accounted, Shaped, Tracked
<1>7. DOMAIN g.marked = DOMAIN f.marked \cup {id}
  BY <1>3 DEF With
<1>8. LoansRight(g)
  <2>1. ASSUME NEW x \in DOMAIN g.cdps
        PROVE  LoanRight(g, x)
    <3>1. LoanRight(f, x)
      BY <1>1, <1>2, <2>1 DEF LoansRight
    <3>2. CASE x = id
      BY <1>3, <1>5, <1>7, <3>1, <3>2 DEF LoanRight, Active
    <3>3. CASE x # id
      BY <1>3, <1>7, <2>1, <3>1, <3>3 DEF LoanRight, OthersKept
    <3> QED
      BY <3>2, <3>3
  <2>2. id \in 1 .. f.cdpCounter
    BY <1>1 DEF StateOK, WellTyped
  <2> QED
    BY <1>1, <1>3, <1>7, <2>1, <2>2 DEF LoansRight
<1>9. EmptyTiers(g) = {}
  BY <1>1, <1>3 DEF EmptyTiers
<1>10. \A x \in DOMAIN g.cdps : /\ Active(g.cdps[x]) <=> Active(f.cdps[x])
                                /\ g.cdps[x].pool = f.cdps[x].pool
                                /\ g.cdps[x].amount = f.cdps[x].amount
                                /\ g.cdps[x].ratio = f.cdps[x].ratio
                                /\ Tier(g.cdps[x]) = Tier(f.cdps[x])
  BY <1>3, <1>5 DEF OthersKept, Active, Tier
<1>11. \A h, x : PoolOf(g, h) = PoolOf(f, h) /\ PoolPart(g, x, h) = PoolPart(f, x, h)
  BY <1>2, <1>3, <1>10 DEF PoolOf, PoolPart
<1>12. ASSUME NEW h
       PROVE  TierPools(g, h) = TierPools(f, h)
  <2>1. {x \in DOMAIN g.cdps : Active(g.cdps[x]) /\ Tier(g.cdps[x]) = h}
          = {x \in DOMAIN f.cdps : Active(f.cdps[x]) /\ Tier(f.cdps[x]) = h}
    BY <1>2, <1>10
  <2> QED
    BY <1>2, <1>10, <2>1 DEF TierPools
<1>13. Solvent(g)
  <2>1. \A x \in DOMAIN g.cdps : LoanSolvent(g.cdps[x])
    BY <1>1, <1>2, <1>10 DEF Solvent, LoanSolvent
  <2> QED
    BY <1>1, <1>3, <1>11, <1>12, <2>1 DEF Solvent
<1> QED
  BY <1>2, <1>3, <1>6, <1>8, <1>9, <1>11, <1>13 DEF Fit, Ready, g

\* liquidate_cdp of a loan with a notice.
LEMMA MarkServes ==
  ASSUME Fit(flux), now \in Nat, held \in Int, NEW id \in Loans, NEW price \in Nat \ {0},
         MarkForLiquidation(id, price)
  PROVE  Served(flux, flux', id)
<1> DEFINE d == flux.cdps[id]
           f == WithPrice(flux, d.collateral, price)
           until == now + flux.borrowers[d.borrower].notice
           f2 == WithMark(f, id, until)
           fee == flux.params.noticeFee
           no == FALSE
           g == Borrow(f2, id, fee, no, no)
<1>1. /\ CanLiquidate(f, id) /\ HasNotice(f, id) /\ BorrowAllowed(f2, id, fee, no, no)
      /\ flux' = g /\ no \in BOOLEAN /\ ~no
  BY DEF MarkForLiquidation, WithMark
<1>2. /\ Ready(flux) /\ StateOK(flux) /\ id \in DOMAIN flux.cdps
      /\ d.collateral \in DOMAIN flux.collaterals
  BY DEF Fit, Ready, Loans, StateOK, WellTyped
<1>3. Settled(flux, flux', id)
  BY <1>2, MarkStep, MarkOK, StepSettles DEF Settled
<1>4. /\ Fit(f) /\ f.cdps = flux.cdps /\ f.borrowers = flux.borrowers
      /\ \A h : Served(f, h, id) => Served(flux, h, id)
  BY SMTT(30), <1>2, PricedFit
<1> HIDE DEF f
<1>5. d.status = "Healthy" /\ d.borrower # Nobody /\ flux.borrowers[d.borrower].notice # NoNotice
  BY <1>1, <1>4 DEF HasNotice
<1>6. until \in Nat /\ fee \in Nat
  <2>1. d.borrower \in DOMAIN flux.borrowers
    BY <1>2, <1>5 DEF StateOK, WellTyped
  <2>2. flux.borrowers[d.borrower].notice \in Nat
    BY <1>2, <1>5, <2>1 DEF StateOK, WellTyped, Borrower
  <2>3. fee \in Nat
    BY <1>2 DEF StateOK, WellTyped, ProtocolParameters
  <2> QED
    BY <2>2, <2>3
<1> HIDE DEF until, fee
<1>7. Active(f.cdps[id]) /\ id \in DOMAIN f.cdps
  BY <1>2, <1>4, <1>5 DEF Active
<1>8. /\ Fit(f2) /\ OthersKept(f, f2, id) /\ f2.cdps[id] = [d EXCEPT !.status = "Marked"]
      /\ \A h, x : PoolOf(f2, h) = PoolOf(f, h) /\ PoolPart(f2, x, h) = PoolPart(f, x, h)
  BY <1>4, <1>6, <1>7, MarkedFit
<1>9. g = Borrow(f2, id, fee, no, no)
  OBVIOUS
<1> HIDE DEF f2, g, no
<1>10. id \in DOMAIN f2.cdps /\ Settled(f2, g, id)
  BY <1>1, <1>3, <1>4, <1>7, <1>8 DEF Settled, SameBut, OthersKept
<1>11. Borrowed(f2, g, id, no)
  BY <1>1, <1>6, <1>8, <1>9, <1>10, BorrowCover
<1>12. CoverStep(f, g, id)
  BY <1>1, <1>3, <1>4, <1>8, <1>11 DEF Borrowed, CoverStep, Settled
<1>13. DOMAIN d = CdpFields
  BY <1>2 DEF Ready, Accounted, Shaped
<1>14. f2.cdps[id].status = "Marked" /\ f2.cdps[id].pool = d.pool
  BY <1>8, <1>13 DEF CdpFields
<1>15. LET e == g.cdps[id]
       IN  e.status = "Marked" /\ e.pool \in Nat /\ e.pool >= d.pool /\ d.pool \in Nat
  BY <1>1, <1>11, <1>14 DEF Borrowed
<1>16. Fair(f, g, id)
  BY <1>4, <1>5, <1>15 DEF Fair, RatioKept, Lowered, Active
<1> QED
  BY SMTT(30), <1>1, <1>4, <1>12, <1>16 DEF Served

-----------------------------------------------------------------------------
(* Redemption.                                                             *)

\* Products in another order, and in the order of their factors.
LEMMA Regroup ==
  ASSUME NEW a \in Nat, NEW b \in Nat, NEW c \in Nat
  PROVE  /\ a * b \in Nat /\ (a * b) * c = (a * c) * b /\ (a * b) * c = a * (b * c)
         /\ \A n \in Nat : a <= n => a * c <= n * c
OBVIOUS

\* The collateral that is taken for part of the debt is no more than that part.
LEMMA SmallTake ==
  ASSUME NEW amount \in Nat, NEW asked \in Nat, NEW pool \in Nat \ {0}, asked < pool,
         NEW share \in 0 .. ONE, NEW cr \in Int, cr > ONE
  PROVE  LET taken == Div(Mul(Mul(amount, Div(asked, pool)), share), cr)
         IN  taken \in Nat /\ taken * pool <= amount * asked /\ taken <= amount
<1> DEFINE part == Div(asked, pool)
           x == Mul(amount, part)
           y == Mul(x, share)
           taken == Div(y, cr)
<1>1. ONE \in Nat \ {0} /\ share \in Nat /\ share <= ONE /\ cr \in Nat \ {0} /\ ONE <= cr
  BY DecimalAssumption
<1>2. part \in Nat /\ part * pool <= asked * ONE
  BY QuotientBounds
<1> HIDE DEF part
<1>3. x \in Nat /\ x * ONE <= amount * part
  BY <1>2, MulBounds
<1> HIDE DEF x
<1>4. y \in Nat /\ y * ONE <= x * share
  BY <1>1, <1>3, MulBounds
<1> HIDE DEF y
<1>5. taken \in Nat /\ taken * cr <= y * ONE
  BY <1>1, <1>4, QuotientBounds
<1> HIDE DEF taken
<1>6. y <= x
  <2>1. x * share <= x * ONE
    BY <1>1, <1>3
  <2>2. x * share \in Nat /\ x * ONE \in Nat /\ y * ONE \in Nat
    BY <1>1, <1>3, <1>4
  <2>3. y * ONE <= x * ONE
    BY <1>4, <2>1, <2>2
  <2> QED
    BY <1>1, <1>3, <1>4, <2>3, Cancel
<1>7. taken <= y
  <2>1. taken * ONE <= taken * cr
    BY <1>1, <1>5
  <2>2. taken * ONE \in Nat /\ taken * cr \in Nat /\ y * ONE \in Nat
    BY <1>1, <1>4, <1>5
  <2>3. taken * ONE <= y * ONE
    BY <1>5, <2>1, <2>2
  <2> QED
    BY <1>1, <1>4, <1>5, <2>3, Cancel
<1>8. x * pool <= amount * asked
  <2>1. (x * ONE) * pool <= (amount * part) * pool
    BY <1>1, <1>2, <1>3, Regroup
  <2>2. (amount * part) * pool = amount * (part * pool) /\ (x * ONE) * pool = (x * pool) * ONE
    BY <1>1, <1>2, <1>3, Regroup
  <2>3. (part * pool) * amount <= (asked * ONE) * amount
    BY <1>1, <1>2, Regroup
  <2>4. (asked * ONE) * amount = (amount * asked) * ONE
        /\ (part * pool) * amount = amount * (part * pool)
    BY <1>1, <1>2
  <2>5. /\ (x * pool) * ONE \in Nat /\ (amount * part) * pool \in Nat
        /\ (amount * asked) * ONE \in Nat /\ x * pool \in Nat /\ amount * asked \in Nat
    BY <1>1, <1>2, <1>3
  <2>6. (x * pool) * ONE <= (amount * asked) * ONE
    BY <2>1, <2>2, <2>3, <2>4, <2>5
  <2> QED
    BY <1>1, <2>5, <2>6, Cancel
<1>9. taken * pool <= amount * asked
  <2>1. taken <= x
    BY <1>3, <1>4, <1>5, <1>6, <1>7
  <2>2. taken * pool <= x * pool
    BY <1>3, <1>5, <2>1, Regroup
  <2>3. taken * pool \in Nat /\ x * pool \in Nat /\ amount * asked \in Nat
    BY <1>3, <1>5
  <2> QED
    BY <1>8, <2>2, <2>3
<1>10. taken <= amount
  <2>1. asked * amount <= pool * amount
    BY Regroup
  <2>2. asked * amount = amount * asked /\ pool * amount = amount * pool
    OBVIOUS
  <2>3. taken * pool \in Nat /\ amount * asked \in Nat /\ amount * pool \in Nat
    BY <1>5
  <2>4. taken * pool <= amount * pool
    BY <1>9, <2>1, <2>2, <2>3
  <2> QED
    BY <1>5, <2>4, Cancel
<1> QED
  BY <1>5, <1>9, <1>10 DEF taken, y, x, part

\* So the loan keeps its ratio.
LEMMA RatioHeld ==
  ASSUME NEW amount \in Nat, NEW pool \in Nat \ {0}, NEW asked \in Nat, asked < pool,
         NEW taken \in Nat, taken * pool <= amount * asked, taken <= amount
  PROVE  /\ Div(amount, pool) \in Nat /\ Div(amount - taken, pool - asked) \in Nat
         /\ Div(amount - taken, pool - asked) >= Div(amount, pool)
<1> DEFINE b == amount - taken
           l == pool - asked
           q == Div(amount, pool)
           n == Div(b, l)
<1>1. b \in Nat /\ l \in Nat \ {0} /\ ONE \in Nat \ {0}
  BY DecimalAssumption
<1>2. q \in Nat /\ q * pool <= amount * ONE
  BY QuotientBounds
<1> HIDE DEF q
<1>3. amount * l <= b * pool
  <2>1. amount * l = amount * pool - amount * asked /\ b * pool = amount * pool - taken * pool
    OBVIOUS
  <2>2. amount * pool \in Nat /\ amount * asked \in Nat /\ taken * pool \in Nat
    OBVIOUS
  <2> HIDE DEF b, l
  <2> QED
    BY <2>1, <2>2
<1> HIDE DEF b, l
<1>4. n \in Nat /\ b * ONE < (n + 1) * l
  BY <1>1, QuotientBounds
<1> HIDE DEF n
<1>5. q * l <= b * ONE
  <2>1. (q * pool) * l <= (amount * ONE) * l
    BY <1>1, <1>2, Regroup
  <2>2. (q * pool) * l = (q * l) * pool /\ (amount * ONE) * l = (amount * l) * ONE
    BY <1>1, <1>2, Regroup
  <2>3. (amount * l) * ONE <= (b * pool) * ONE
    BY <1>1, <1>3, Regroup
  <2>4. (b * pool) * ONE = (b * ONE) * pool
    BY <1>1, Regroup
  <2>5. /\ (q * l) * pool \in Nat /\ (amount * l) * ONE \in Nat /\ (b * pool) * ONE \in Nat
        /\ q * l \in Nat /\ b * ONE \in Nat
    BY <1>1, <1>2
  <2>6. (q * l) * pool <= (b * ONE) * pool
    BY <2>1, <2>2, <2>3, <2>4, <2>5
  <2> QED
    BY <2>5, <2>6, Cancel
<1>6. b * ONE \in Nat
  BY <1>1
<1>7. q <= n
  BY <1>1, <1>2, <1>4, <1>5, <1>6, LargestFit
<1> QED
  BY <1>2, <1>4, <1>7 DEF q, n, b, l

\* redemption takes the first loan there is.
LEMMA FirstTaken ==
  ASSUME NEW f, Fit(f), NEW c, NEW i \in RatesInUse(f, c), NEW cr \in DOMAIN f.ratios[<<c, i>>],
         FirstRate(f, c, i), FirstRatio(f, <<c, i>>, cr), McrsAboveOne
  PROVE  FirstLoan(f, f.ratios[<<c, i>>][cr][1])
<1> DEFINE id == f.ratios[<<c, i>>][cr][1]
           d == f.cdps[id]
<1>1. StateOK(f)
  BY DEF Fit, Ready
<1>2. <<c, i>> \in Tiers
  BY <1>1 DEF RatesInUse, StateOK, WellTyped, Tiers
<1>3. VectorOK(f, <<c, i>>, cr)
  BY SMTT(30), <1>1, <1>2 DEF StateOK, VectorsOK
<1>4. id \in DOMAIN f.cdps /\ Active(d) /\ Tier(d) = <<c, i>> /\ d.ratio = cr
  <2> DEFINE ids == f.ratios[<<c, i>>][cr]
  <2>1. ids \in Seq(DOMAIN f.cdps) /\ 1 \in 1 .. Len(ids)
        /\ Active(f.cdps[ids[1]]) /\ Tier(f.cdps[ids[1]]) = <<c, i>> /\ f.cdps[ids[1]].ratio = cr
    BY <1>3, SMTT(30) DEF VectorOK
  <2> HIDE DEF ids
  <2>2. ids[1] \in DOMAIN f.cdps
    BY <2>1
  <2> QED
    BY SMTT(30), <2>1, <2>2 DEF ids
<1> HIDE DEF id
<1>5. d.collateral = c /\ d.interest = i /\ d.ratio = Div(d.amount, d.pool)
  BY <1>4, OpenFacts DEF Tier
<1>6. ASSUME NEW other \in DOMAIN f.cdps, Active(f.cdps[other]), ComesBefore(f, other, id)
      PROVE  FALSE
  <2> DEFINE o == f.cdps[other]
             l == Tier(o)
  <2>1. /\ l \in DOMAIN f.tiers /\ l = <<o.collateral, o.interest>> /\ ListedIn(f, other)
        /\ o.ratio = Div(o.amount, o.pool) /\ o.amount \in Nat /\ o.pool \in Nat \ {0}
    <3>1. o.amount \in Int /\ o.amount >= 0 /\ o.pool \in Nat /\ o.pool >= 1
      BY <1>6, OpenFacts
    <3> QED
      BY <1>6, <3>1, OpenFacts
  <2>2. o.collateral = c
    BY <1>5, <1>6 DEF ComesBefore
  <2>3. o.interest \in RatesInUse(f, c)
    <3>1. l \in DOMAIN f.tiers /\ l[1] = c /\ l[2] = o.interest
      BY <2>1, <2>2
    <3> HIDE DEF l
    <3> QED
      BY <3>1 DEF RatesInUse
  <2>4. o.interest >= 0 => 0 <= i /\ i <= o.interest
    BY <2>3 DEF FirstRate, StandardRates
  <2>5. o.interest \in Int /\ i \in Int /\ Irredeemable < 0
    <3>1. o.interest \in Interests /\ i \in Interests
      BY <1>2, <1>6, OpenFacts DEF Tiers
    <3>2. Irredeemable \in Int /\ Irredeemable < 0
      BY DecimalAssumption DEF Irredeemable
    <3>3. Interests \subseteq Int
      <4>1. \A x \in Rates : x \in Int
        BY RatesAssumption
      <4> QED
        BY <3>2, <4>1 DEF Interests
    <3> QED
      BY <3>1, <3>2, <3>3
  <2>6. o.interest = i /\ o.ratio < d.ratio
    BY <1>5, <1>6, <2>1, <2>4, <2>5 DEF ComesBefore
  <2>7. o.ratio \in DOMAIN f.ratios[<<c, i>>] /\ o.ratio >= 0 /\ o.ratio \in Nat
    <3>1. o.ratio \in Nat
      BY <2>1, QuotientBounds
    <3> QED
      BY <2>1, <2>2, <2>6, <3>1 DEF ListedIn
  <2>8. cr <= o.ratio
    BY <2>7 DEF FirstRatio
  <2>9. cr \in Int
    BY <1>1, <1>4, LoanTyped DEF Cdp
  <2> QED
    BY <1>4, <2>6, <2>7, <2>8, <2>9
<1> QED
  BY <1>6 DEF FirstLoan, id

\* A redemption of less than the loan's debt redeems less than one part of it.
LEMMA PartBelowOne ==
  ASSUME NEW asked \in Nat, NEW pool \in Nat, pool >= 1
  PROVE  LET over == asked > pool
             part == IF over THEN ONE ELSE Div(asked, pool)
         IN  /\ part \in Int /\ (part < ONE <=> asked < pool)
             /\ asked < pool => ~over /\ part = Div(asked, pool)
<1> DEFINE q == Div(asked, pool)
<1>1. ONE \in Nat \ {0} /\ pool \in Nat \ {0}
  BY DecimalAssumption
<1>2. q \in Nat /\ q * pool <= asked * ONE /\ asked * ONE < (q + 1) * pool
  BY <1>1, QuotientBounds
<1> HIDE DEF q
<1>3. asked < pool => q < ONE
  <2> SUFFICES ASSUME asked < pool PROVE q < ONE
    OBVIOUS
  <2>1. asked * ONE < pool * ONE
    BY <1>1
  <2>2. pool * ONE = ONE * pool /\ q * pool \in Nat /\ asked * ONE \in Nat /\ pool * ONE \in Nat
    BY <1>1, <1>2
  <2>3. q * pool < ONE * pool
    BY <1>2, <2>1, <2>2
  <2> QED
    BY <1>1, <1>2, <2>3, Cancel
<1>4. asked = pool => ONE <= q
  <2> SUFFICES ASSUME asked = pool PROVE ONE <= q
    OBVIOUS
  <2>1. ONE * pool <= asked * ONE /\ asked * ONE \in Nat
    BY <1>1
  <2> QED
    BY <1>1, <1>2, <2>1, LargestFit
<1>5. (IF asked > pool THEN ONE ELSE q) < ONE <=> asked < pool
  BY <1>1, <1>2, <1>3, <1>4
<1> QED
  BY <1>1, <1>2, <1>5 DEF q

\* redemption of one loan, the first if any must be, wholly or in part.
LEMMA RedeemServes ==
  ASSUME NEW f, Fit(f), now \in Nat, held \in Int, NEW id \in DOMAIN f.cdps,
         Active(f.cdps[id]), NEW payment \in Nat, NEW share \in 0 .. ONE,
         RedeemLoan(f, id, payment, share), McrsAboveOne => FirstLoan(f, id)
  PROVE  Served(f, flux', id)
<1> DEFINE d == f.cdps[id]
           k == Tier(d)
           asked == RealToPoolDebt(f, k, payment)
           over == asked > d.pool
           part == IF over THEN ONE ELSE Div(asked, d.pool)
           paid == IF over THEN PoolToRealDebt(f, k, d.pool) ELSE payment
           pool == IF over THEN 0 ELSE d.pool - asked
           taken == CollateralTaken(f, id, part, share)
           amount == IF taken > d.amount THEN 0 ELSE d.amount - taken
           a == RealToPoolDebt(f, k, paid)
           P == PoolOf(f, k) - a
           R == RealOf(f, k) - paid
           f1 == RemoveDebt(UnmintFusd(f, k, paid), k, paid)
           f2 == TakeCollateral(f1, k, d.amount)
           f3 == PutCollateral(f2, k, amount)
           f4 == Relist(f3, id, d.interest, amount, pool)
           f5 == CleanUpInterestInfo(f4, k)
           h3 == PutInLeftovers(f2, k[1], amount)
           h4 == UnlinkIfLinked(Delist(h3, id, "Redeemed", amount), id)
<1>1. /\ DebtMultiplier(f, k) # 0 /\ d.pool # 0 /\ Lcr(f, k) # 0 /\ CrPercentage(f, id) # 0
      /\ CrPercentage(f, id) > ONE \/ part = ONE
      /\ IF part < ONE THEN flux' = f5 ELSE flux' = h4
  BY DEF RedeemLoan, Tier
<1>2. /\ Ready(f) /\ StateOK(f) /\ Accounted(f) /\ EmptyTiers(f) = {} /\ Solvent(f)
      /\ payment \in Int /\ share \in Int
  BY DecimalAssumption DEF Fit, Ready
<1>3. Settled(f, flux', id)
  BY <1>2, RedeemStep, RedeemOK, StepSettles DEF Settled
<1>4. /\ ListedIn(f, id) /\ k \in DOMAIN f.tiers /\ k \in Tiers
      /\ k[1] = d.collateral /\ k[1] \in DOMAIN f.collaterals /\ k = <<d.collateral, d.interest>>
      /\ d.amount \in Int /\ d.pool \in Nat /\ d.pool >= 1
      /\ d.ratio = Div(d.amount, d.pool) /\ (McrsAboveOne => d.amount >= 0)
      /\ DebtMultiplier(f, k) \in Nat /\ ONE <= DebtMultiplier(f, k)
      /\ d.borrower \in DOMAIN f.borrowers \cup {Nobody}
  BY <1>2, OpenFacts
<1>5. asked \in Nat /\ ONE \in Nat \ {0}
  BY <1>4, PoolFromReal, DecimalAssumption DEF RealToPoolDebt
<1>6. /\ part \in Int /\ (part < ONE <=> asked < d.pool)
      /\ asked < d.pool => ~over /\ part = Div(asked, d.pool)
  BY <1>4, <1>5, PartBelowOne
<1>7. paid \in Int
  <2>1. over \in BOOLEAN /\ PoolToRealDebt(f, k, d.pool) \in Int
    BY <1>2, <1>4, PoolToRealInt DEF StateOK
  <2> QED
    BY <2>1
<1>8. taken \in Int /\ amount \in Int
  <2>1. taken \in Int
    BY <1>1, <1>2, <1>6, TakenInt
  <2> HIDE DEF taken
  <2> QED
    BY <1>4, <2>1
<1>9. McrsAboveOne => amount >= 0
  BY <1>4, <1>8
<1> HIDE DEF part, pool, amount
<1>10. /\ Owes(f, f1, k, P, R)
       /\ SameLoans(f, f1) /\ f1.ratios = f.ratios /\ Accounted(f1)
       /\ DOMAIN f1.tiers = DOMAIN f.tiers
  BY <1>2, <1>4, <1>7, RepayDebts, RepayEntry DEF Entry
<1> HIDE DEF f1, a, P, R
<1>11. k \in DOMAIN f1.tiers /\ k[1] \in DOMAIN f1.collaterals
  BY <1>4, <1>10 DEF Owes, SamePrices
<1>12. /\ SamePrices(f1, f2) /\ SameDebts(f1, f2) /\ SameLoans(f1, f2) /\ f2.ratios = f1.ratios
       /\ Accounted(f2)
  BY <1>4, <1>10, <1>11, TakeDebts, TakeEntry DEF Entry
<1> HIDE DEF f2
<1>13. k[1] \in DOMAIN f2.collaterals
  BY <1>11, <1>12 DEF SamePrices
<1>14. Owes(f, f2, k, P, R) /\ SameLoans(f, f2) /\ f2.ratios = f.ratios
  <2>1. Owes(f, f2, k, P, R)
    BY <1>4, <1>10, <1>12, OwesSame
  <2> QED
    BY <1>10, <1>12, <2>1 DEF SameLoans
<1>15. CASE asked < d.pool
  <2>1. flux' = f5 /\ ~over /\ part = Div(asked, d.pool)
    BY <1>1, <1>6, <1>15
  <2>2. paid = payment /\ a = asked /\ pool = d.pool - asked
    BY <2>1 DEF a, pool
  <2> HIDE DEF over
  <2>3. pool \in Nat \ {0} /\ pool >= 1 /\ a <= d.pool /\ paid \in Nat /\ pool = d.pool - a
    BY <1>4, <1>5, <1>15, <2>2
  <2> HIDE DEF asked, paid
  <2>4. /\ SamePrices(f2, f3) /\ SameDebts(f2, f3) /\ SameLoans(f2, f3) /\ f3.ratios = f2.ratios
        /\ Accounted(f3)
    BY <1>4, <1>8, <1>12, <1>13, PutDebts, PutEntry DEF Entry
  <2> HIDE DEF f3
  <2>5. Owes(f, f3, k, P, R)
    BY <1>4, <1>14, <2>4, OwesSame
  <2>6. id \in DOMAIN f3.cdps /\ ListedIn(f3, id) /\ f3.cdps[id] = d
    BY <1>4, <1>14, <2>4 DEF SameLoans, ListedIn
  <2>7. <<f3.cdps[id].collateral, d.interest>> \in Tiers
    BY <1>4, <2>6
  <2>8. /\ SamePrices(f3, f4) /\ SameDebts(f3, f4) /\ Accounted(f4) /\ k \in DOMAIN f4.tiers
        /\ Revised(d, f4.cdps[id], d.interest, amount, pool, d.status)
    BY <1>4, <2>4, <2>6, <2>7, RelistDebts
  <2> HIDE DEF f4
  <2>9. Owes(f, f4, k, P, R)
    BY <1>4, <2>5, <2>8, OwesSame
  <2>10. Trims(f4, f5) /\ f5.cdps = f4.cdps
    <3>1. f5.cdps = f4.cdps
      BY <2>8, CleanUpEnds DEF SameLoans
    <3> QED
      BY <2>8, <3>1, CleanUpTrims
  <2> HIDE DEF f5
  <2>11. Leaves(f, f5, k, P, R)
    BY <1>4, <2>9, <2>10, OwesTrims
  <2>12. Revised(d, f5.cdps[id], d.interest, amount, pool, d.status)
    BY <2>8, <2>10
  <2>13. LoanSolvent(f5.cdps[id])
    BY <1>8, <1>9, <2>3, <2>12, RevisedSolvent
  <2>14. f5.cdps[id].pool = d.pool - a /\ Tier(f5.cdps[id]) = k
    BY <1>4, <2>3, <2>12 DEF Revised, Tier
  <2>15. CoverStep(f, flux', id)
    BY <1>2, <1>3, <2>1, <2>3, <2>11, <2>13, <2>14, LeaveCover DEF Settled, a, P, R
  <2>16. ASSUME McrsAboveOne
         PROVE  f5.cdps[id].ratio >= d.ratio
    <3> DEFINE cr == CrPercentage(f, id)
    <3>1. d.amount \in Nat /\ d.pool \in Nat \ {0}
      BY <1>4, <2>16
    <3>2. cr \in Int /\ cr > ONE
      BY <1>1, <1>2, <1>6, <1>15, CrPercentageInt, DecimalAssumption
    <3>3. taken = Div(Mul(Mul(d.amount, Div(asked, d.pool)), share), cr)
      BY <2>1 DEF CollateralTaken
    <3> HIDE DEF cr, taken
    <3>4. taken \in Nat /\ taken * d.pool <= d.amount * asked /\ taken <= d.amount
      BY <1>5, <1>15, <3>1, <3>2, <3>3, SmallTake
    <3>5. amount = d.amount - taken
      BY <1>4, <3>4 DEF amount
    <3>6. Div(d.amount - taken, d.pool - asked) >= Div(d.amount, d.pool)
      BY <1>5, <1>15, <3>1, <3>4, RatioHeld
    <3> QED
      BY <1>4, <2>2, <2>12, <3>5, <3>6 DEF Revised
  <2>17. McrsAboveOne => Fair(f, flux', id)
    BY <2>1, <2>16 DEF Fair
  <2> QED
    BY <2>15, <2>17 DEF Served
<1>16. CASE ~(asked < d.pool)
  <2>1. flux' = h4 /\ (over \/ asked = d.pool)
    BY <1>1, <1>4, <1>5, <1>6, <1>16
  <2>2. /\ SamePrices(f2, h3) /\ SameDebts(f2, h3) /\ SameLoans(f2, h3) /\ h3.ratios = f2.ratios
        /\ Accounted(h3)
    BY <1>4, <1>8, <1>12, <1>13, CoinDebts, CoinEntries DEF Entry
  <2> HIDE DEF h3
  <2>3. Owes(f, h3, k, P, R)
    BY <1>4, <1>14, <2>2, OwesSame
  <2>4. /\ id \in DOMAIN h3.cdps /\ ListedIn(h3, id) /\ h3.cdps[id] = d
        /\ h3.cdps[id].borrower \in DOMAIN h3.borrowers \cup {Nobody}
    BY <1>4, <1>14, <2>2 DEF SameLoans, ListedIn
  <2>5. Trims(h3, h4) /\ h4.cdps[id].status = "Redeemed"
    BY <2>2, <2>4, DelistUnlinkTrims, DelistUnlinked
  <2> HIDE DEF h4
  <2>6. Leaves(f, h4, k, P, R)
    BY <1>4, <2>3, <2>5, OwesTrims
  <2>7. ~Active(h4.cdps[id])
    BY <2>5 DEF Active
  <2>8. CoverStep(f, flux', id)
    <3>1. CASE over
      <4>1. paid = PoolToRealDebt(f, k, d.pool)
        BY <3>1
      <4> HIDE DEF paid
      <4> QED
        BY <1>3, <2>1, <2>6, <2>7, <4>1, EndCover DEF a, P, R
    <3>2. CASE ~over /\ asked = d.pool
      <4>1. paid = payment /\ a = asked
        BY <3>2 DEF a
      <4> HIDE DEF paid, asked
      <4>2. paid \in Nat /\ a <= d.pool
        BY <1>4, <3>2, <4>1
      <4>3. LoanSolvent(flux'.cdps[id])
        BY <2>1, <2>7 DEF LoanSolvent
      <4> QED
        BY <1>2, <1>3, <2>1, <2>6, <2>7, <4>2, <4>3, LeaveCover DEF Settled, a, P, R
    <3> QED
      BY <2>1, <3>1, <3>2
  <2>9. McrsAboveOne => Fair(f, flux', id)
    BY <2>1, <2>7 DEF Fair
  <2> QED
    BY <2>8, <2>9 DEF Served
<1> QED
  BY SMTT(30), <1>15, <1>16

-----------------------------------------------------------------------------
(* Calls about no open loan, or about nothing that it owes.                *)

\* No debt moves, and the loan, if it is open, keeps its terms.
LEMMA IdleServes ==
  ASSUME NEW f, NEW g, NEW id, Fit(f), Settled(f, g, id), SameDebts(f, g),
         \A c \in DOMAIN g.collaterals : g.collaterals[c].mcr \in Mcrs,
         \/ id \notin DOMAIN f.cdps /\ id \notin DOMAIN g.cdps
         \/ /\ id \in DOMAIN f.cdps /\ ~Active(f.cdps[id])
            /\ id \in DOMAIN g.cdps => ~Active(g.cdps[id])
         \/ /\ id \in DOMAIN f.cdps /\ id \in DOMAIN g.cdps
            /\ SameTerms(f.cdps[id], g.cdps[id])
            /\ Active(f.cdps[id]) <=> Active(g.cdps[id])
  PROVE  Served(f, g, id)
<1>1. StateOK(f) /\ EmptyTiers(f) = {} /\ Solvent(f)
  BY DEF Fit, Ready
<1>2. DOMAIN g.tiers \subseteq Tiers /\ SameBut(f.cdps, g.cdps, id)
  BY DEF Settled, StateOK, WellTyped
<1>3. \A l \in Tiers : PoolPart(g, id, l) = PoolPart(f, id, l)
  BY DEF PoolPart, SameTerms, Tier
<1>4. id \in DOMAIN g.cdps => LoanSolvent(g.cdps[id])
  <2> SUFFICES ASSUME id \in DOMAIN g.cdps, Active(g.cdps[id])
               PROVE  LoanSolvent(g.cdps[id])
    BY DEF LoanSolvent
  <2>1. id \in DOMAIN f.cdps /\ SameTerms(f.cdps[id], g.cdps[id]) /\ Active(f.cdps[id])
    OBVIOUS
  <2>2. LoanSolvent(f.cdps[id])
    BY <1>1, <2>1 DEF Solvent
  <2> QED
    BY <2>1, <2>2 DEF LoanSolvent, SameTerms
<1>5. CoverStep(f, g, id)
  BY <1>1, <1>2, <1>3, <1>4, QuietCover
<1>6. Fair(f, g, id)
  <2> SUFFICES ASSUME id \in DOMAIN f.cdps, id \in DOMAIN g.cdps, Active(f.cdps[id])
               PROVE  Active(g.cdps[id]) /\ ~Lowered(f.cdps[id], g.cdps[id])
                      /\ RatioKept(g, f.cdps[id], g.cdps[id])
    BY DEF Fair
  <2>1. SameTerms(f.cdps[id], g.cdps[id]) /\ Active(g.cdps[id])
    OBVIOUS
  <2>2. f.cdps[id].pool \in Nat /\ f.cdps[id].ratio = Div(f.cdps[id].amount, f.cdps[id].pool)
        /\ f.cdps[id].amount \in Int /\ f.cdps[id].pool \in Int \ {0}
    <3>1. f.cdps[id].pool >= 1 /\ f.cdps[id].pool \in Nat /\ f.cdps[id].amount \in Int
          /\ f.cdps[id].ratio = Div(f.cdps[id].amount, f.cdps[id].pool)
      BY OpenFacts
    <3> QED
      BY <3>1
  <2>3. f.cdps[id].ratio \in Int
    BY <2>2, DivInt, DecimalAssumption
  <2> QED
    BY <2>1, <2>2, <2>3 DEF SameTerms, Lowered, RatioKept
<1> QED
  BY <1>5, <1>6 DEF Served

\* retrieve_leftover_collateral and burn_loan_receipt, of an ended loan.
LEMMA RetrieveServes ==
  ASSUME Fit(flux), held \in Int, NEW id \in Loans, RetrieveLeftoverCollateral(id), StateOK(flux')
  PROVE  Served(flux, flux', id)
<1> DEFINE d == flux.cdps[id]
           f1 == [flux EXCEPT !.cdps[id].amount = 0]
<1>1. /\ Ready(flux) /\ StateOK(flux) /\ Solvent(flux) /\ id \in DOMAIN flux.cdps
      /\ d.collateral \in DOMAIN flux.collaterals /\ Accounted(flux)
  BY DEF Fit, Ready, Loans, StateOK, WellTyped
<1>2. d.status \in {"Liquidated", "Redeemed"}
      /\ flux' = TakeFromLeftovers(f1, d.collateral, d.amount)
  BY DEF RetrieveLeftoverCollateral
<1>3. Settled(flux, flux', id)
  BY <1>1, RetrieveStep, StepSettles DEF Settled
<1>4. /\ DOMAIN flux = Fields /\ DOMAIN d = CdpFields
      /\ \A c \in DOMAIN flux.collaterals : DOMAIN flux.collaterals[c] = InfoFields
  BY <1>1 DEF Accounted, Shaped, InfoTyped
<1>5. /\ f1.tiers = flux.tiers /\ f1.collaterals = flux.collaterals /\ DOMAIN f1 = Fields
      /\ f1.cdps = [flux.cdps EXCEPT ![id].amount = 0]
  BY <1>4 DEF Fields
<1>6. f1.cdps[id].status = d.status
  BY SMTT(30), <1>1, <1>4, <1>5 DEF CdpFields
<1> HIDE DEF f1
<1>7. /\ flux'.tiers = f1.tiers /\ flux'.cdps = f1.cdps
      /\ DOMAIN flux'.collaterals = DOMAIN flux.collaterals
      /\ \A c \in DOMAIN flux.collaterals : flux'.collaterals[c].mcr = flux.collaterals[c].mcr
  BY <1>1, <1>2, <1>4, <1>5 DEF TakeFromLeftovers, Fields, InfoFields
<1>8. SameDebts(flux, flux')
  BY <1>5, <1>7 DEF SameDebts, PoolOf, RealOf
<1>9. \A c \in DOMAIN flux'.collaterals : flux'.collaterals[c].mcr \in Mcrs
  BY <1>1, <1>7 DEF Solvent
<1>10. ~Active(d) /\ ~Active(flux'.cdps[id])
  BY <1>2, <1>6, <1>7 DEF Active
<1> QED
  BY <1>1, <1>3, <1>8, <1>9, <1>10, IdleServes

\* burn_loan_receipt.
LEMMA BurnReceiptServes ==
  ASSUME Fit(flux), held \in Int, NEW id \in Loans, BurnLoanReceipt(id), StateOK(flux')
  PROVE  Served(flux, flux', id)
<1>1. /\ Ready(flux) /\ StateOK(flux) /\ Solvent(flux) /\ id \in DOMAIN flux.cdps
      /\ DOMAIN flux = Fields
  BY DEF Fit, Ready, Loans, Accounted, Shaped
<1>2. flux.cdps[id].status \in {"Liquidated", "Redeemed", "Closed"}
      /\ flux' = [flux EXCEPT !.cdps = Without(@, id)]
  BY DEF BurnLoanReceipt
<1>3. Settled(flux, flux', id)
  BY <1>1, BurnReceiptStep, StepSettles DEF Settled
<1>4. /\ flux'.tiers = flux.tiers /\ flux'.collaterals = flux.collaterals
      /\ id \notin DOMAIN flux'.cdps
  BY <1>1, <1>2 DEF Fields, Without
<1>5. SameDebts(flux, flux')
  BY <1>4 DEF SameDebts, PoolOf, RealOf
<1>6. \A c \in DOMAIN flux'.collaterals : flux'.collaterals[c].mcr \in Mcrs
  BY <1>1, <1>4 DEF Solvent
<1>7. ~Active(flux.cdps[id])
  BY <1>2 DEF Active
<1> QED
  BY <1>1, <1>3, <1>4, <1>5, <1>6, <1>7, IdleServes

\* A call that leaves loans and tiers as they are, and sets no minimum ratio that the
\* owner would not.
LEMMA NoLoanServes ==
  ASSUME NEW f, NEW g, Fit(f), StateOK(g), EmptyTiers(g) = {}, g.cdps = f.cdps, g.tiers = f.tiers,
         \A c \in DOMAIN g.collaterals : g.collaterals[c].mcr \in Mcrs
  PROVE  Served(f, g, 0)
<1>1. 0 \notin DOMAIN f.cdps
  BY DEF Fit, Ready, StateOK, WellTyped
<1>2. SameDebts(f, g)
  BY DEF SameDebts, PoolOf, RealOf
<1>3. Settled(f, g, 0)
  BY DEF Settled, SameBut
<1> QED
  BY <1>1, <1>2, <1>3, IdleServes

\* The calls of the owner are such calls.
LEMMA OwnerServes ==
  ASSUME Fit(flux), held \in Int, OwnerCall, StateOK(flux'), EmptyTiers(flux') = {}
  PROVE  Served(flux, flux', 0)
<1>1. /\ \A c \in DOMAIN flux.collaterals : flux.collaterals[c].mcr \in Mcrs
      /\ DOMAIN flux = Fields
      /\ \A c \in DOMAIN flux.collaterals : DOMAIN flux.collaterals[c] = InfoFields
  BY DEF Fit, Ready, Solvent, Accounted, Shaped, InfoTyped
<1> DEFINE Quiet == /\ flux'.cdps = flux.cdps /\ flux'.tiers = flux.tiers
                    /\ \A c \in DOMAIN flux'.collaterals : flux'.collaterals[c].mcr \in Mcrs
<1>2. ASSUME NEW c \in Collaterals, NEW mcr \in Mcrs, NEW price \in Prices,
             NewCollateral(c, mcr, price)
      PROVE  Quiet
  BY <1>1, <1>2 DEF NewCollateral, Fields, With
<1>3. ASSUME NEW c \in Listed, NEW price \in Prices, ChangeCollateralPrice(c, price)
      PROVE  Quiet
  BY <1>1, <1>3 DEF ChangeCollateralPrice, WithPrice, Fields, InfoFields
<1>4. ASSUME NEW c \in Listed, NEW mcr \in Mcrs, NEW accepted \in Acceptances,
             EditCollateral(c, mcr, accepted)
      PROVE  Quiet
  BY <1>1, <1>4 DEF EditCollateral, Fields, InfoFields
<1>5. ASSUME \/ \E b \in Borrowers, terms \in BorrowerTerms : CreatePrivilegedBorrower(b, terms)
             \/ \E b \in Registered, terms \in BorrowerTerms : EditPrivilegedBorrower(b, terms)
      PROVE  Quiet
  BY ZenonT(40), <1>1, <1>5 DEF CreatePrivilegedBorrower, EditPrivilegedBorrower, Fields
<1>6. ASSUME \/ \E s \in StopSettings : SetStops(s)
             \/ \E length \in VectorLengths : SetMaxVectorLength(length)
             \/ \E amount \in MinimumMints : SetMinimumMint(amount)
             \/ \E s \in FineSettings : SetFines(s)
             \/ \E s \in InterestSettings : SetInterestParams(s)
      PROVE  Quiet
  BY ZenonT(40), <1>1, <1>6 DEF SetStops, SetMaxVectorLength, SetMinimumMint, SetFines, SetInterestParams,
                    Fields
<1>7. ASSUME NEW amount \in FreeAmounts, FreeFusd(amount) \/ BurnFusd(amount)
      PROVE  Quiet
  BY <1>1, <1>7 DEF FreeFusd, BurnFusd
<1>8. Quiet
  <2> HIDE DEF Quiet
  <2> QED
    BY <1>2, <1>3, <1>4, <1>5, <1>6, <1>7, Zenon DEF OwnerCall
<1> QED
  BY <1>8, NoLoanServes

\* The links of an open loan.
LEMMA LinkServes ==
  ASSUME Fit(flux), held \in Int, LinkCall, StateOK(flux'), EmptyTiers(flux') = {}
  PROVE  \E id : Served(flux, flux', id)
<1>1. PICK b \in Registered, id \in Loans :
        LinkCdpToPrivilegedBorrower(b, id) \/ UnlinkCdpFromPrivilegedBorrower(b, id)
  BY DEF LinkCall
<1>2. /\ b \in DOMAIN flux.borrowers /\ id \in DOMAIN flux.cdps
      /\ StateOK(flux) /\ Accounted(flux) /\ Solvent(flux)
      /\ DOMAIN flux.cdps[id] = CdpFields
  BY DEF Fit, Registered, Loans, Ready, Accounted, Shaped
<1>3. ASSUME NEW x, SameBooks(flux, flux'), OthersKept(flux, flux', id),
             flux'.cdps[id] = [flux.cdps[id] EXCEPT !.borrower = x]
      PROVE  Served(flux, flux', id)
  <2>1. /\ SameTerms(flux.cdps[id], flux'.cdps[id])
        /\ flux'.cdps[id].status = flux.cdps[id].status
    BY <1>2, <1>3 DEF CdpFields, SameTerms
  <2>2. Active(flux.cdps[id]) <=> Active(flux'.cdps[id])
    BY <2>1 DEF Active
  <2>3. /\ Settled(flux, flux', id) /\ id \in DOMAIN flux'.cdps
    BY <1>2, <1>3 DEF Settled, SameBut, OthersKept
  <2>4. flux'.tiers = flux.tiers /\ flux'.collaterals = flux.collaterals
    BY <1>3 DEF SameBooks
  <2>5. SameDebts(flux, flux')
    BY <2>4 DEF SameDebts, PoolOf, RealOf
  <2>6. \A c \in DOMAIN flux'.collaterals : flux'.collaterals[c].mcr \in Mcrs
    BY <1>2, <2>4 DEF Solvent
  <2> QED
    BY <1>2, <2>1, <2>2, <2>3, <2>5, <2>6, IdleServes
<1>4. CASE LinkCdpToPrivilegedBorrower(b, id)
  <2>1. flux' = LinkCdp(flux, b, id)
    BY <1>4 DEF LinkCdpToPrivilegedBorrower
  <2>2. /\ SameBooks(flux, flux') /\ OthersKept(flux, flux', id)
        /\ flux'.cdps[id] = [flux.cdps[id] EXCEPT !.borrower = b]
    BY <1>2, <2>1, LinkBooks
  <2> QED
    BY <1>3, <2>2
<1>5. CASE UnlinkCdpFromPrivilegedBorrower(b, id)
  <2>1. flux' = UnlinkCdp(flux, b, id)
    BY <1>5 DEF UnlinkCdpFromPrivilegedBorrower
  <2>2. /\ SameBooks(flux, flux') /\ OthersKept(flux, flux', id)
        /\ flux'.cdps[id] = [flux.cdps[id] EXCEPT !.borrower = Nobody]
    BY <1>2, <2>1, UnlinkBooks
  <2> QED
    BY <1>3, <2>2
<1> QED
  BY <1>1, <1>4, <1>5

\* redemption, of the first loan or of none.
LEMMA RedemptionServes ==
  ASSUME Fit(flux), now \in Nat, held \in Int, NEW c \in Listed, NEW payment \in Nat,
         NEW share \in 0 .. ONE, NEW price \in Nat \ {0}, Redemption(c, payment, share, price)
  PROVE  \E id : Served(flux, flux', id)
<1> DEFINE f == WithPrice(flux, c, price)
<1>1. c \in DOMAIN flux.collaterals
  BY DEF Listed
<1>2. Fit(f) /\ \A id, h : Served(f, h, id) => Served(flux, h, id)
  BY <1>1, PricedFit
<1>3. CASE flux' = f
  <2> HIDE DEF f
  <2>1. StateOK(f) /\ EmptyTiers(f) = {} /\ \A x \in DOMAIN f.collaterals : f.collaterals[x].mcr \in Mcrs
    BY <1>2 DEF Fit, Ready, Solvent
  <2>2. Served(f, f, 0)
    BY <1>2, <2>1, NoLoanServes
  <2> QED
    BY <1>2, <1>3, <2>2
<1>4. ASSUME NEW i \in RatesInUse(f, c), NEW cr \in DOMAIN f.ratios[<<c, i>>],
             FirstRate(f, c, i), FirstRatio(f, <<c, i>>, cr),
             RedeemLoan(f, f.ratios[<<c, i>>][cr][1], payment, share)
      PROVE  \E id : Served(flux, flux', id)
  <2> DEFINE ids == f.ratios[<<c, i>>][cr]
             id == ids[1]
  <2> HIDE DEF f
  <2>1. <<c, i>> \in Tiers
    BY <1>2, <1>4 DEF Fit, Ready, RatesInUse, StateOK, WellTyped, Tiers
  <2>2. VectorOK(f, <<c, i>>, cr)
    BY SMTT(30), <1>2, <1>4, <2>1 DEF Fit, Ready, StateOK, VectorsOK
  <2>3. ids \in Seq(DOMAIN f.cdps) /\ 1 \in 1 .. Len(ids) /\ Active(f.cdps[ids[1]])
    BY <2>2, SMTT(30) DEF VectorOK
  <2>4. ids[1] \in DOMAIN f.cdps
    BY <2>3
  <2>5. payment \in Nat /\ share \in 0 .. ONE
    BY AmountAssumption
  <2>6. McrsAboveOne => FirstLoan(f, ids[1])
    BY <1>2, <1>4, FirstTaken
  <2>7. Served(f, flux', ids[1])
    BY <1>2, <1>4, <2>3, <2>4, <2>5, <2>6, RedeemServes
  <2> QED
    BY <1>2, <2>7
<1> QED
  BY <1>3, <1>4 DEF Redemption

\* charge_interest raises the real debt of tiers, and nothing else.
LEMMA ChargeServes ==
  ASSUME Fit(flux), now \in 0 .. MaxTime, held \in Int, NEW c \in Listed, NEW range,
         NEW rate0 \in Rates, ChargeInterest(c, range, rate0), StateOK(flux')
  PROVE  Served(flux, flux', 0)
<1> DEFINE rate(k) == IF k[2] = Irredeemable THEN rate0 ELSE k[2]
           grown(k) == Mul(Growth[rate(k)][now - flux.tiers[k].last], flux.tiers[k].real)
           charge(k) == [flux.tiers[k] EXCEPT !.last = now, !.real = grown(k)]
           charged == ChargedTiers(flux, c, range)
           tiers == [k \in DOMAIN flux.tiers |->
                       IF k \in charged THEN charge(k) ELSE flux.tiers[k]]
           mint == SumFunction([k \in charged |-> grown(k) - flux.tiers[k].real])
           g == [flux EXCEPT !.tiers = tiers, !.circulating = @ + mint,
                             !.collaterals[c].debt = @ + mint,
                             !.collaterals[c].uncharged = 0]
<1>1. flux' = g
  BY DEF ChargeInterest
<1>2. /\ Ready(flux) /\ StateOK(flux) /\ Accounted(flux) /\ EmptyTiers(flux) = {} /\ Solvent(flux)
      /\ c \in DOMAIN flux.collaterals /\ DOMAIN flux = Fields
      /\ \A x \in DOMAIN flux.collaterals : DOMAIN flux.collaterals[x] = InfoFields
  BY DEF Fit, Ready, Listed, Accounted, Shaped, InfoTyped
<1>3. ASSUME NEW k \in DOMAIN flux.tiers
      PROVE  /\ flux.tiers[k].real \in Nat /\ flux.tiers[k].pool \in Nat
             /\ flux.tiers[k].pool <= flux.tiers[k].real
             /\ grown(k) \in Nat /\ grown(k) >= flux.tiers[k].real
  <2>1. k \in Tiers
    BY <1>2, <1>3 DEF StateOK, WellTyped
  <2>2. PoolOf(flux, k) \in Nat /\ RealOf(flux, k) \in Nat /\ PoolOf(flux, k) <= RealOf(flux, k)
    BY <1>2, <2>1, TierFacts
  <2>3. flux.tiers[k].last \in Nat /\ flux.tiers[k].last <= now
    BY <1>2, <1>3 DEF StateOK, WellTyped, InterestInfo
  <2>4. now - flux.tiers[k].last \in 0 .. MaxTime /\ rate(k) \in Rates
    BY <2>1, <2>3, TimeAssumption DEF Tiers, Interests
  <2> DEFINE n == Growth[rate(k)][now - flux.tiers[k].last]
             r == flux.tiers[k].real
  <2>5. n \in Int /\ n >= ONE /\ ONE \in Nat \ {0} /\ r \in Nat
    BY <1>3, <2>2, <2>4, GrowthAssumption, InterestAssumption, DecimalAssumption DEF RealOf
  <2>6. grown(k) = Mul(n, r)
    OBVIOUS
  <2> HIDE DEF n, r, grown
  <2>7. n \in Nat
    BY <2>5
  <2>8. Mul(n, r) \in Nat /\ n * r < (Mul(n, r) + 1) * ONE
    BY <2>5, <2>7, MulBounds
  <2>9. r * ONE <= n * r /\ n * r \in Nat
    BY <2>5, <2>7
  <2>10. r <= Mul(n, r)
    BY <2>5, <2>8, <2>9, LargestFit
  <2> QED
    BY <1>3, <2>2, <2>6, <2>8, <2>10 DEF PoolOf, RealOf, r
<1>4. /\ DOMAIN tiers = DOMAIN flux.tiers
      /\ \A k \in DOMAIN tiers : /\ tiers[k].pool = flux.tiers[k].pool
                                 /\ tiers[k].real >= flux.tiers[k].pool
                                 /\ tiers[k].pool \in Nat
  <2> HIDE DEF grown, charged
  <2>1. \A k \in DOMAIN flux.tiers : DOMAIN flux.tiers[k] = TierFields
    BY <1>2 DEF Accounted, Shaped
  <2>2. ASSUME NEW k \in DOMAIN flux.tiers
        PROVE  /\ tiers[k].pool = flux.tiers[k].pool /\ tiers[k].pool \in Nat
               /\ tiers[k].real >= flux.tiers[k].pool
    <3>1. /\ tiers[k].pool = flux.tiers[k].pool
          /\ tiers[k].real = grown(k) \/ tiers[k].real = flux.tiers[k].real
      BY <2>1, <2>2 DEF TierFields
    <3>2. /\ flux.tiers[k].real \in Nat /\ flux.tiers[k].pool \in Nat
          /\ flux.tiers[k].pool <= flux.tiers[k].real
          /\ grown(k) \in Nat /\ grown(k) >= flux.tiers[k].real
      BY <1>3, <2>2
    <3> HIDE DEF tiers
    <3> QED
      BY <3>1, <3>2
  <2>3. DOMAIN tiers = DOMAIN flux.tiers
    OBVIOUS
  <2> HIDE DEF tiers
  <2> QED
    BY <2>2, <2>3
<1> HIDE DEF tiers, mint
<1>5. /\ g.tiers = tiers /\ g.cdps = flux.cdps /\ g.ratios = flux.ratios
      /\ DOMAIN g.collaterals = DOMAIN flux.collaterals
      /\ \A x \in DOMAIN flux.collaterals : g.collaterals[x].mcr = flux.collaterals[x].mcr
  BY SMTT(30), <1>2 DEF Fields, InfoFields
<1>6. flux' = g
  BY <1>1 DEF g, tiers, mint
<1> HIDE DEF g
<1>7. 0 \notin DOMAIN flux.cdps
  BY <1>2 DEF StateOK, WellTyped
<1>8. CoverStep(flux, g, 0)
  <2>1. SameBut(flux.cdps, g.cdps, 0)
    BY <1>5 DEF SameBut
  <2>2. \A x \in DOMAIN g.collaterals : g.collaterals[x].mcr \in Mcrs
    BY <1>2, <1>5 DEF Solvent
  <2>3. \A k \in DOMAIN g.tiers :
          /\ RealOf(g, k) >= PoolOf(g, k) /\ PoolOf(g, k) = PoolOf(flux, k)
          /\ PoolOf(g, k) \in Nat
    BY <1>4, <1>5 DEF RealOf, PoolOf
  <2>4. \A k : PoolPart(g, 0, k) = 0 /\ PoolPart(flux, 0, k) = 0
    BY <1>5, <1>7 DEF PoolPart
  <2> QED
    BY <1>5, <1>7, <2>1, <2>2, <2>3, <2>4 DEF CoverStep
<1>9. Fair(flux, g, 0)
  BY <1>7 DEF Fair
<1> QED
  BY SMTT(30), <1>6, <1>8, <1>9 DEF Served

-----------------------------------------------------------------------------
(* Opening.                                                                *)

\* Before it opens the loan, open_cdp changes nothing that is owed and no minimum ratio.
LEMMA OpeningFit ==
  ASSUME NEW f, Fit(f), NEW k \in Tiers, k[1] \in DOMAIN f.collaterals,
         NEW id \in Nat, NEW b \in DOMAIN f.borrowers \cup {Nobody}, NEW price \in Nat \ {0},
         DOMAIN f.cdps \subseteq 1 .. id, NEW f1,
         f1 = WithPrice([f EXCEPT !.cdpCounter = id], k[1], price),
         NEW g, b = Nobody => g = f1, b # Nobody => g = Couple(f1, b, id)
  PROVE  /\ StateOK(g) /\ Accounted(g) /\ EmptyTiers(g) = {} /\ Solvent(g)
         /\ g.cdps = f.cdps /\ g.tiers = f.tiers /\ k[1] \in DOMAIN g.collaterals
<1> DEFINE f0 == [f EXCEPT !.cdpCounter = id]
<1>1. StateOK(f) /\ Accounted(f) /\ EmptyTiers(f) = {} /\ Solvent(f)
  BY DEF Fit, Ready
<1>2. /\ StateOK(g) /\ Entry(f, g, k, 0, 0, 0) /\ g.cdps = f.cdps /\ g.tiers = f.tiers
      /\ DOMAIN g.collaterals = DOMAIN f.collaterals
  <2>1. g = IF b = Nobody THEN f1 ELSE Couple(f1, b, id)
    OBVIOUS
  <2> QED
    BY <1>1, <2>1, OpeningEntry
<1>3. f1 = WithPrice(f0, k[1], price)
      /\ f0.collaterals = f.collaterals /\ f0.ratios = f.ratios /\ DOMAIN f0 = Fields
  BY <1>1 DEF Accounted, Shaped, Fields
<1> HIDE DEF f0
<1>4. /\ DOMAIN f1.collaterals = DOMAIN f.collaterals
      /\ \A c \in DOMAIN f.collaterals : f1.collaterals[c].mcr = f.collaterals[c].mcr
  <2>1. \A c \in DOMAIN f.collaterals : "mcr" \in DOMAIN f.collaterals[c]
    BY <1>1 DEF Accounted, Shaped, InfoTyped, InfoFields
  <2> QED
    BY <1>3, <2>1 DEF WithPrice, Fields, InfoFields
<1>5. g.collaterals = f1.collaterals /\ g.ratios = f.ratios
  <2>1. DOMAIN f1 = Fields /\ f1.ratios = f.ratios
    BY <1>3 DEF WithPrice, Fields
  <2> QED
    BY <2>1 DEF Couple, Fields
<1>6. Solvent(g)
  <2>1. \A c \in DOMAIN g.collaterals : g.collaterals[c].mcr \in Mcrs
    BY <1>1, <1>2, <1>4, <1>5 DEF Solvent
  <2>2. \A l \in Tiers : PoolOf(g, l) = PoolOf(f, l) /\ TierPools(g, l) = TierPools(f, l)
    BY <1>2 DEF PoolOf, TierPools
  <2> QED
    BY <1>1, <1>2, <2>1, <2>2 DEF Solvent
<1>7. EmptyTiers(g) = {}
  BY <1>1, <1>2, <1>5 DEF EmptyTiers
<1> QED
  BY <1>2, <1>6, <1>7 DEF Entry

\* open_cdp.
LEMMA OpenServes ==
  ASSUME Fit(flux), now \in Nat, held \in Int, NEW c \in Listed, NEW deposit \in Deposits,
         NEW mint \in Mints, NEW i \in Interests, NEW b \in Registered \cup {Nobody},
         NEW price \in Nat \ {0}, OpenCdp(c, deposit, mint, i, b, price)
  PROVE  Served(flux, flux', flux.cdpCounter + 1)
<1> DEFINE id == flux.cdpCounter + 1
           k == <<c, i>>
           f1 == WithPrice([flux EXCEPT !.cdpCounter = id], k[1], price)
           f == IF b = Nobody THEN f1 ELSE Couple(f1, b, id)
           base == RealToPoolDebt(f, k, mint)
           fee == IF i = Irredeemable THEN 0 ELSE ExtraInterestDaysFee(f, i, base)
           realFee == PoolToRealDebt(f, k, fee)
           pool == base + fee
           minted == PoolToRealDebt(f, k, pool)
           cr == Div(deposit, pool)
           g1 == AddDebt(MintFusd(f, k, pool), k, minted)
           g2 == PutCollateral(g1, k, deposit)
           g3 == InsertCr(g2, k, cr, id)
           g4 == PutUncharged(g3, c, realFee)
           cdp == [collateral |-> c, amount |-> deposit, interest |-> i,
                   pool |-> pool, ratio |-> cr, status |-> "Healthy",
                   borrower |-> b, lastChange |-> now]
           g == [g4 EXCEPT !.cdps = With(@, id, cdp)]
           P == PoolOf(f, k) + pool
           R == RealOf(f, k) + minted
<1>1. pool # 0 /\ flux' = g
  BY DEF OpenCdp
<1>2. /\ c \in DOMAIN flux.collaterals /\ c \in Collaterals /\ k \in Tiers /\ k[1] = c
      /\ deposit \in Nat /\ mint \in Nat
  BY AmountAssumption DEF Fit, Ready, Listed, StateOK, WellTyped, Tiers
<1>3. /\ StateOK(flux) /\ id \in Nat /\ id \notin DOMAIN flux.cdps
      /\ DOMAIN flux.cdps \subseteq 1 .. id /\ b \in DOMAIN flux.borrowers \cup {Nobody}
  BY DEF Fit, Ready, StateOK, WellTyped, Registered
<1>4. Settled(flux, flux', id)
  <2>1. StateOK(flux') /\ Ready(flux)
    BY <1>3, OpenOK DEF Fit
  <2>2. Step(flux, flux', id, held' - held)
    BY <2>1, OpenCdpStep
  <2> HIDE DEF id
  <2> QED
    BY <2>1, <2>2, StepSettles DEF Settled
<1>5. /\ StateOK(f) /\ Accounted(f) /\ EmptyTiers(f) = {} /\ Solvent(f)
      /\ f.cdps = flux.cdps /\ f.tiers = flux.tiers /\ c \in DOMAIN f.collaterals
  <2>1. (b = Nobody => f = f1) /\ (b # Nobody => f = Couple(f1, b, id))
    OBVIOUS
  <2> HIDE DEF f
  <2>2. f1 = WithPrice([flux EXCEPT !.cdpCounter = id], k[1], price)
    OBVIOUS
  <2> HIDE DEF f1, id, k
  <2>3. /\ StateOK(f) /\ Accounted(f) /\ EmptyTiers(f) = {} /\ Solvent(f)
        /\ f.cdps = flux.cdps /\ f.tiers = flux.tiers /\ k[1] \in DOMAIN f.collaterals
    <3>1. /\ Fit(flux) /\ k \in Tiers /\ k[1] \in DOMAIN flux.collaterals /\ id \in Nat
          /\ b \in DOMAIN flux.borrowers \cup {Nobody} /\ price \in Nat \ {0}
          /\ DOMAIN flux.cdps \subseteq 1 .. id
      BY <1>2, <1>3
    <3> QED
      BY ONLY <2>1, <2>2, <3>1, OpeningFit
  <2> QED
    BY <1>2, <2>3
<1> HIDE DEF f, id
<1>6. /\ DebtMultiplier(f, k) \in Nat /\ ONE <= DebtMultiplier(f, k)
      /\ PoolOf(f, k) \in Int /\ RealOf(f, k) \in Int
  BY <1>2, <1>5, TierFacts
<1>7. base \in Nat
  BY <1>2, <1>6, PoolFromReal DEF RealToPoolDebt
<1> HIDE DEF base
<1>8. fee \in Nat
  <2>1. CASE i = Irredeemable
    BY <2>1
  <2>2. CASE i # Irredeemable
    <3>1. i \in Rates /\ fee = ExtraInterestDaysFee(f, i, base)
      BY <2>2 DEF Interests
    <3> QED
      BY <1>5, <1>7, <3>1, FeeNatural DEF StateOK
  <2> QED
    BY <2>1, <2>2
<1> HIDE DEF fee
<1>9. pool \in Nat /\ pool >= 1
  BY <1>1, <1>7, <1>8
<1>10. minted = PoolToRealDebt(f, k, pool)
  OBVIOUS
<1> HIDE DEF realFee, pool, minted, k
<1>11. minted \in Int
  BY <1>5, <1>9, <1>10, PoolToRealInt DEF StateOK
<1>12. Owes(f, g1, k, P, R) /\ Accounted(g1) /\ SameLoans(f, g1)
  <2>1. k[1] \in DOMAIN f.collaterals
    BY <1>2, <1>5
  <2>2. Entry(f, g1, k, minted, 0, 0) /\ SameLoans(f, g1)
    BY <1>2, <1>5, <1>10, <1>11, <2>1, MintEntry
  <2>3. Owes(f, g1, k, P, R)
    BY <1>2, <1>5, <1>6, <1>9, <1>10, <2>1, MintDebts
  <2> QED
    BY <2>2, <2>3 DEF Entry
<1> HIDE DEF g1, P, R
<1>13. c \in DOMAIN g1.collaterals
  BY <1>5, <1>12 DEF Owes, SamePrices
<1>14. SamePrices(g1, g2) /\ SameDebts(g1, g2) /\ Accounted(g2) /\ SameLoans(g1, g2)
  BY <1>2, <1>12, <1>13, PutDebts, PutEntry DEF Entry
<1> HIDE DEF g2
<1>15. c \in DOMAIN g2.collaterals
  BY <1>13, <1>14 DEF SamePrices
<1>16. Still(g2, g3) /\ SameLoans(g2, g3)
  BY <1>2, <1>14, <1>15, InsertCrStill
<1>17. SamePrices(g2, g3) /\ SameDebts(g2, g3) /\ Accounted(g3)
  BY <1>16, StillDebts DEF Still
<1> HIDE DEF g3
<1>18. c \in DOMAIN g3.collaterals
  BY <1>15, <1>17 DEF SamePrices
<1>19. SamePrices(g3, g4) /\ SameDebts(g3, g4) /\ SameLoans(g3, g4) /\ DOMAIN g4 = Fields
  <2>1. g4.cdps = g3.cdps /\ DOMAIN g4 = Fields /\ SameLoans(g3, g4)
    <3>1. DOMAIN g3 = Fields
      BY <1>17 DEF Accounted, Shaped
    <3> QED
      BY <3>1 DEF PutUncharged, Fields, SameLoans
  <2> QED
    BY <1>17, <1>18, <2>1, CoinDebts
<1> HIDE DEF g4, cdp
<1>20. /\ SamePrices(g4, g) /\ SameDebts(g4, g)
       /\ id \in DOMAIN g.cdps /\ g.cdps[id] = cdp
  BY <1>19 DEF SamePrices, SameDebts, PoolOf, RealOf, Fields, With
<1> HIDE DEF g
<1>21. Owes(f, g, k, P, R)
  <2>1. Owes(f, g2, k, P, R)
    BY <1>2, <1>12, <1>14, OwesSame
  <2>2. Owes(f, g3, k, P, R)
    BY <1>2, <1>17, <2>1, OwesSame
  <2>3. Owes(f, g4, k, P, R)
    BY <1>2, <1>19, <2>2, OwesSame
  <2> QED
    BY <1>2, <1>20, <2>3, OwesSame
<1>22. /\ Active(g.cdps[id]) /\ Tier(g.cdps[id]) = k /\ g.cdps[id].pool = pool
       /\ LoanSolvent(g.cdps[id])
  BY <1>2, <1>9, <1>20 DEF cdp, cr, k, Active, Tier, LoanSolvent
<1>23. /\ SameBut(f.cdps, g.cdps, id) /\ DOMAIN g.tiers \subseteq Tiers
       /\ id \notin DOMAIN f.cdps /\ PoolPart(f, id, k) = 0
  BY <1>1, <1>3, <1>4, <1>5 DEF Settled, StateOK, WellTyped, PoolPart
<1>24. CoverStep(f, g, id)
  <2>1. g.cdps[id].pool = PoolPart(f, id, k) + pool
    BY <1>9, <1>22, <1>23
  <2> QED
    BY <1>2, <1>5, <1>9, <1>10, <1>20, <1>21, <1>22, <1>23, <2>1, EnterCover DEF P, R
<1>25. CoverStep(flux, flux', id) /\ Fair(flux, flux', id)
  BY <1>1, <1>3, <1>5, <1>24 DEF CoverStep, PoolOf, RealOf, PoolPart, Fair
<1> QED
  BY SMTT(30), <1>25 DEF Served, id

-----------------------------------------------------------------------------
(* Moving a loan to another rate.                                          *)

\* New debt at a tier's multiplier leaves the tier with no higher one.
LEMMA TierGrows ==
  ASSUME NEW f, StateOK(f), EmptyTiers(f) = {}, Solvent(f), NEW g, NEW k \in Tiers,
         NEW p \in Nat, NEW r, r = PoolToRealDebt(f, k, p),
         PoolOf(g, k) = PoolOf(f, k) + p, RealOf(g, k) = RealOf(f, k) + r
  PROVE  /\ r \in Nat /\ p <= r
         /\ DebtMultiplier(g, k) \in Nat /\ ONE <= DebtMultiplier(g, k)
         /\ DebtMultiplier(g, k) <= DebtMultiplier(f, k)
<1> DEFINE m == DebtMultiplier(f, k)
           P == PoolOf(f, k)
           R == RealOf(f, k)
           n == DebtMultiplier(g, k)
<1>1. /\ m \in Nat /\ ONE <= m /\ P \in Nat /\ R \in Nat /\ P <= R
      /\ IF k \in DOMAIN f.tiers THEN P # 0 /\ m = Div(R, P) ELSE P = 0 /\ R = 0 /\ m = ONE
  BY TierFacts
<1>2. r = Mul(p, m)
  BY DEF PoolToRealDebt
<1>3. PoolOf(g, k) = P + p /\ RealOf(g, k) = R + r
  OBVIOUS
<1> HIDE DEF m, P, R
<1>4. r \in Nat /\ p <= r
  BY <1>1, <1>2, RealFromPool
<1>5. n = IF k \in DOMAIN g.tiers /\ P + p # 0 /\ R + r # 0 THEN Div(R + r, P + p) ELSE ONE
  BY <1>3 DEF DebtMultiplier, PoolOf, RealOf
<1>6. k \notin DOMAIN g.tiers => P + p = 0
  BY <1>3 DEF PoolOf
<1> HIDE DEF n
<1>7. CASE P # 0
  <2>1. Div(R + r, P + p) \in Nat /\ Div(R + r, P + p) <= m
    BY <1>1, <1>2, <1>4, <1>7, MultiplierFalls
  <2>2. R + r \in Nat /\ P + p \in Nat \ {0} /\ P + p <= R + r
    BY <1>1, <1>4, <1>7
  <2>3. ONE <= Div(R + r, P + p)
    BY <2>2, MultiplierFalls
  <2>4. n = Div(R + r, P + p)
    BY <1>5, <1>6, <2>2
  <2> QED
    BY <1>4, <2>1, <2>3, <2>4 DEF m, n
<1>8. CASE P = 0
  <2>1. m = ONE /\ R = 0
    BY <1>1, <1>8
  <2>2. r = p
    BY <1>2, <2>1, DecimalAssumption DEF Mul, Quot, Abs
  <2>3. n = ONE
    <3>1. CASE p = 0
      BY <1>5, <1>8, <3>1
    <3>2. CASE p # 0
      <4>1. Div(p, p) = ONE
        BY <3>2, DecimalAssumption DEF Div, Quot, Abs
      <4> QED
        BY <1>5, <1>8, <2>1, <2>2, <4>1
    <3> QED
      BY <3>1, <3>2
  <2> QED
    BY <1>4, <2>1, <2>3, DecimalAssumption DEF m, n
<1> QED
  BY <1>7, <1>8

\* The loan takes its debt to another tier, where the fee, if it pays one, came first:
\* f, then h with the fee, then g with the debt moved and the old tier dropped or not.
LEMMA MoveCover ==
  ASSUME NEW f, NEW g, NEW h, StateOK(f), EmptyTiers(f) = {}, Solvent(f), StateOK(g),
         EmptyTiers(g) = {}, NEW id, SameBut(f.cdps, g.cdps, id),
         id \in DOMAIN f.cdps, Active(f.cdps[id]), NEW old, old = Tier(f.cdps[id]),
         NEW new \in Tiers, new # old,
         NEW fee \in Nat, NEW real, real = PoolToRealDebt(f, new, fee),
         Owes(f, h, new, PoolOf(f, new) + fee, RealOf(f, new) + real),
         NEW debt, debt = PoolToRealDebt(f, old, f.cdps[id].pool),
         NEW a, a = RealToPoolDebt(f, old, debt), NEW b, b = RealToPoolDebt(h, new, debt),
         SamePrices(f, g),
         old \in DOMAIN g.tiers => /\ PoolOf(g, old) = PoolOf(f, old) - a
                                   /\ RealOf(g, old) = RealOf(f, old) - debt,
         new \in DOMAIN g.tiers => /\ PoolOf(g, new) = PoolOf(f, new) + fee + b
                                   /\ RealOf(g, new) = RealOf(f, new) + real + debt,
         \A l \in DOMAIN g.tiers \ {old, new} :
           PoolOf(g, l) = PoolOf(f, l) /\ RealOf(g, l) = RealOf(f, l),
         id \in DOMAIN g.cdps, Active(g.cdps[id]), LoanSolvent(g.cdps[id]),
         Tier(g.cdps[id]) = new, g.cdps[id].pool = RealToPoolDebt(f, new, debt) + fee
  PROVE  CoverStep(f, g, id)
<1> DEFINE d == f.cdps[id]
           mo == DebtMultiplier(f, old)
           mn == DebtMultiplier(f, new)
           mh == DebtMultiplier(h, new)
           PO == PoolOf(f, old)
           RO == RealOf(f, old)
           PN == PoolOf(f, new)
           RN == RealOf(f, new)
           moved == RealToPoolDebt(f, new, debt)
<1>1. old \in Tiers /\ d.pool \in Int
  BY LoanTyped
<1>2. /\ mo \in Nat /\ ONE <= mo /\ PO \in Nat /\ RO \in Nat /\ PO <= RO
      /\ mo * PO <= RO * ONE
      /\ mn \in Nat /\ ONE <= mn /\ PN \in Nat /\ RN \in Nat /\ PN <= RN
  BY <1>1, TierFacts
<1>3. PO >= d.pool /\ d.pool >= 1
  BY <1>1, LoanCovered
<1>4. real \in Nat /\ fee <= real /\ mh \in Nat /\ ONE <= mh /\ mh <= mn
  BY TierGrows DEF Owes
<1>5. debt = Mul(d.pool, mo) /\ a = Div(debt, mo) /\ b = Div(debt, mh) /\ moved = Div(debt, mn)
  BY DEF PoolToRealDebt, RealToPoolDebt
<1>6. PoolPart(f, id, old) = d.pool /\ PoolPart(f, id, new) = 0
  BY DEF PoolPart
<1>7. PoolPart(g, id, new) = moved + fee /\ PoolPart(g, id, old) = 0
  BY DEF PoolPart
<1> HIDE DEF mo, mn, mh, PO, RO, PN, RN, d, moved
<1>8. debt \in Nat /\ a \in Nat /\ a <= d.pool
  BY <1>1, <1>2, <1>3, <1>5, RealFromPool
<1>9. debt * ONE < (a + 1) * mo
  BY <1>2, <1>5, <1>8, PoolFromReal
<1>10. moved \in Nat /\ b \in Nat /\ moved <= b /\ b <= debt
  <2>1. ONE >= 1
    BY DecimalAssumption
  <2>2. mn \in Nat \ {0} /\ mh \in Nat \ {0}
    BY <1>2, <1>4, <2>1, DecimalAssumption
  <2>3. Div(debt, mn) \in Nat /\ Div(debt, mh) \in Nat /\ Div(debt, mn) <= Div(debt, mh)
    BY <1>4, <1>8, <2>2, PoolRises
  <2>4. Div(debt, mh) <= debt
    BY <1>4, <1>8, PoolFromReal
  <2> QED
    BY <1>5, <2>3, <2>4
<1>11. \A c \in DOMAIN g.collaterals : g.collaterals[c].mcr \in Mcrs
  BY DEF SamePrices, Solvent
<1>12. ASSUME old \in DOMAIN g.tiers
       PROVE  /\ RealOf(g, old) >= PoolOf(g, old)
              /\ PoolOf(g, old) - 0 >= PO - d.pool
  <2>1. PoolOf(g, old) = PO - a /\ RealOf(g, old) = RO - debt
    BY <1>12 DEF PO, RO
  <2>2. PO >= d.pool + 1
    BY <1>12, OtherLoan DEF PO, d
  <2>3. a + 1 <= PO
    BY <1>1, <1>2, <1>8, <2>2
  <2>4. RO - debt >= PO - a
    BY <1>2, <1>8, <1>9, <2>3, Spared
  <2> QED
    BY <1>1, <1>2, <1>8, <2>1, <2>4
<1>13. ASSUME new \in DOMAIN g.tiers
       PROVE  /\ RealOf(g, new) >= PoolOf(g, new)
              /\ PoolOf(g, new) - (moved + fee) >= PN - 0
  <2>1. PoolOf(g, new) = PN + fee + b /\ RealOf(g, new) = RN + real + debt
    BY <1>13 DEF PN, RN
  <2> QED
    BY <1>2, <1>4, <1>8, <1>10, <2>1
<1>14. ASSUME NEW l \in DOMAIN g.tiers, l # old, l # new
       PROVE  /\ RealOf(g, l) >= PoolOf(g, l)
              /\ PoolOf(g, l) - PoolPart(g, id, l) >= PoolOf(f, l) - PoolPart(f, id, l)
  <2>1. l \in Tiers
    BY DEF StateOK, WellTyped
  <2>2. PoolOf(g, l) = PoolOf(f, l) /\ RealOf(g, l) = RealOf(f, l)
    BY <1>14
  <2>3. PoolPart(g, id, l) = 0 /\ PoolPart(f, id, l) = 0
    BY <1>14 DEF PoolPart
  <2>4. PoolOf(f, l) \in Nat /\ RealOf(f, l) \in Nat /\ PoolOf(f, l) <= RealOf(f, l)
    BY <2>1, TierFacts
  <2> QED
    BY <2>2, <2>3, <2>4
<1>15. \A l \in DOMAIN g.tiers :
         /\ RealOf(g, l) >= PoolOf(g, l)
         /\ PoolOf(g, l) - PoolPart(g, id, l) >= PoolOf(f, l) - PoolPart(f, id, l)
  <2> TAKE l \in DOMAIN g.tiers
  <2>1. CASE l = old
    BY <1>6, <1>7, <1>12, <2>1 DEF PO
  <2>2. CASE l = new
    BY <1>6, <1>7, <1>13, <2>2 DEF PN
  <2>3. CASE l # old /\ l # new
    BY <1>14, <2>3
  <2> QED
    BY <2>1, <2>2, <2>3
<1> QED
  BY <1>11, <1>15 DEF CoverStep

\* What change_cdp_interest owes before it moves the debt: the fee in the new tier.
LEMMA MovedDebts ==
  ASSUME NEW f, Fit(f), now \in Nat, NEW id \in DOMAIN f.cdps,
         Active(f.cdps[id]), NEW i \in Interests, NEW b,
         i = Irredeemable => b \in DOMAIN f.borrowers, NEW new,
         new = <<f.cdps[id].collateral, i>>, new \in Tiers
  PROVE  LET fee == ChangeFee(f, id, i)
             real == PoolToRealDebt(f, new, fee)
             g == CollateralMoved(f, id, i, b)
         IN  /\ fee \in Nat
             /\ Owes(f, g, new, PoolOf(f, new) + fee, RealOf(f, new) + real)
<1> DEFINE d == f.cdps[id]
           old == Tier(d)
           debt == PoolToRealDebt(f, old, d.pool)
           base == RealToPoolDebt(f, new, debt)
           fee == ChangeFee(f, id, i)
           real == PoolToRealDebt(f, new, fee)
           f1 == Relinked(f, id, i, b)
           m2 == AddDebt(MintFusd(f1, new, fee), new, real)
           h2 == PutUncharged(m2, new[1], real)
           f2 == IF fee = 0 THEN f1 ELSE h2
           f3 == TakeCollateral(f2, old, d.amount)
           g == PutCollateral(f3, new, d.amount)
           P == PoolOf(f, new) + fee
           R == RealOf(f, new) + real
<1>1. CollateralMoved(f, id, i, b) = g
  BY DEF CollateralMoved
<1>2. /\ old \in DOMAIN f.tiers /\ old \in Tiers /\ old[1] \in DOMAIN f.collaterals
      /\ old[1] = d.collateral /\ d.amount \in Int /\ d.pool \in Nat
      /\ d.borrower \in DOMAIN f.borrowers \cup {Nobody}
      /\ DebtMultiplier(f, old) \in Nat /\ ONE <= DebtMultiplier(f, old)
  BY OpenFacts
<1>3. new[1] = old[1] /\ new[1] = d.collateral
  BY <1>2
<1>4. StateOK(f) /\ Accounted(f) /\ EmptyTiers(f) = {} /\ Solvent(f)
  BY DEF Fit, Ready
<1>5. /\ DebtMultiplier(f, new) \in Nat /\ ONE <= DebtMultiplier(f, new)
      /\ PoolOf(f, new) \in Int /\ RealOf(f, new) \in Int
  BY <1>4, TierFacts
<1>6. base \in Nat
  <2>1. debt \in Nat
    BY <1>2, RealFromPool DEF PoolToRealDebt
  <2> HIDE DEF debt
  <2> QED
    BY <1>5, <2>1, PoolFromReal DEF RealToPoolDebt
<1>7. fee \in Nat
  <2>1. fee = 0 \/ (fee = ExtraInterestDaysFee(f, i, base) /\ i # Irredeemable)
    BY DEF ChangeFee
  <2>2. i # Irredeemable => i \in Rates
    BY DEF Interests
  <2> HIDE DEF base, fee
  <2> QED
    BY <1>4, <1>6, <2>1, <2>2, FeeNatural DEF StateOK
<1> HIDE DEF base, debt
<1>8. SameBooks(f, f1)
  BY <1>2, <1>4, RelinkedBooks
<1>9. SamePrices(f, f1) /\ SameDebts(f, f1)
  BY <1>8 DEF SameBooks, SamePrices, SameDebts, PoolOf, RealOf
<1> HIDE DEF f1, fee
<1>10. /\ real = PoolToRealDebt(f1, new, fee) /\ Accounted(f1)
       /\ f1.tiers = f.tiers /\ f1.collaterals = f.collaterals
       /\ PoolOf(f1, new) = PoolOf(f, new) /\ RealOf(f1, new) = RealOf(f, new)
  BY <1>8 DEF SameBooks, PoolToRealDebt, DebtMultiplier, PoolOf, RealOf
<1>11. real \in Nat /\ (fee = 0 => real = 0)
  <2>1. real = Mul(fee, DebtMultiplier(f, new))
    BY DEF PoolToRealDebt
  <2>2. real \in Nat
    BY <1>5, <1>7, <2>1, RealFromPool
  <2>3. fee = 0 => real = 0
    BY <1>5, <2>1, DecimalAssumption DEF Mul, Quot, Abs
  <2> QED
    BY <2>2, <2>3
<1> HIDE DEF real, old
<1>12. /\ Owes(f, f2, new, P, R) /\ Accounted(f2) /\ old \in DOMAIN f2.tiers
  <2>1. CASE fee = 0
    <3>1. f2 = f1
      BY <2>1
    <3> HIDE DEF f2
    <3> QED
      BY <1>2, <1>5, <1>9, <1>10, <1>11, <2>1, <3>1 DEF Owes, SameDebts
  <2>2. CASE fee # 0
    <3>1. f2 = h2
      BY <2>2
    <3>2. new[1] \in DOMAIN f1.collaterals
      BY <1>2, <1>3, <1>10
    <3>3. /\ Entry(f1, m2, new, real, 0, 0) /\ DOMAIN f1.tiers \subseteq DOMAIN m2.tiers
      BY <1>10, <1>11, <3>2, MintEntry
    <3>4. Owes(f1, m2, new, PoolOf(f1, new) + fee, RealOf(f1, new) + real)
      BY <1>5, <1>7, <1>10, <3>2, MintDebts
    <3> HIDE DEF m2
    <3>5. Owes(f, m2, new, P, R)
      BY SMTT(30), <1>9, <1>10, <3>4, SameOwes
    <3>6. Accounted(m2) /\ new[1] \in DOMAIN m2.collaterals
      BY <3>2, <3>3 DEF Entry, VaultMoved
    <3>7. /\ Entry(m2, h2, new, -real, 0, 0) /\ h2.tiers = m2.tiers
      BY <1>11, <3>6, CoinEntries
    <3>8. SamePrices(m2, h2) /\ SameDebts(m2, h2)
      BY <3>6, CoinDebts
    <3> HIDE DEF f2, h2, P, R
    <3>9. Owes(f, h2, new, P, R)
      BY <3>5, <3>8, OwesSame
    <3> QED
      BY <1>2, <1>10, <3>1, <3>3, <3>7, <3>9 DEF Entry
  <2> QED
    BY <2>1, <2>2
<1> HIDE DEF f2, P, R
<1>13. old[1] \in DOMAIN f2.collaterals
  BY <1>2, <1>12 DEF Owes, SamePrices
<1>14. SamePrices(f2, f3) /\ SameDebts(f2, f3) /\ Accounted(f3)
  <2>1. -d.amount \in Int
    BY <1>2
  <2>2. SamePrices(f2, f3) /\ SameDebts(f2, f3)
    BY <1>2, <1>12, <1>13, TakeDebts
  <2>3. Accounted(f3)
    BY SMTT(30), <1>2, <1>12, <1>13, TakeEntry DEF Entry
  <2> QED
    BY <2>2, <2>3
<1> HIDE DEF f3
<1>15. new[1] \in DOMAIN f3.collaterals
  BY <1>3, <1>13, <1>14 DEF SamePrices
<1>16. SamePrices(f3, g) /\ SameDebts(f3, g)
  BY <1>2, <1>14, <1>15, PutDebts
<1> HIDE DEF g
<1>17. Owes(f, g, new, P, R)
  <2>1. Owes(f, f3, new, P, R)
    BY <1>12, <1>14, OwesSame
  <2> QED
    BY <1>16, <2>1, OwesSame
<1> QED
  BY <1>1, <1>7, <1>17 DEF P, R, real, fee, g

\* The loan has a new rate, and all the collateral that it had.
RateMoved(f, g, id, i) ==
  LET d == f.cdps[id]
      e == g.cdps[id]
  IN  /\ CoverStep(f, g, id) /\ id \in DOMAIN g.cdps /\ Active(e)
      /\ e.status = "Healthy" /\ e.collateral = d.collateral
      /\ e.interest = i /\ e.interest # d.interest /\ e.amount = d.amount

\* change_cdp_interest, to another rate.
LEMMA ChangeCover ==
  ASSUME NEW f, Fit(f), now \in Nat, NEW id \in DOMAIN f.cdps, NEW i \in Interests,
         NEW b \in DOMAIN f.borrowers \cup {Nobody}, ChangeAllowed(f, id, i, b),
         i # f.cdps[id].interest, NEW g, g = ChangeInterest(f, id, i, b), Settled(f, g, id)
  PROVE  RateMoved(f, g, id, i)
<1> DEFINE d == f.cdps[id]
           old == Tier(d)
           new == <<d.collateral, i>>
           fee == ChangeFee(f, id, i)
           real == PoolToRealDebt(f, new, fee)
           pool == ChangedPool(f, id, i)
           debt == PoolToRealDebt(f, old, d.pool)
           a == RealToPoolDebt(f, old, debt)
           f0 == Relinked(f, id, i, b)
           h == CollateralMoved(f, id, i, b)
           less == RealToPoolDebt(h, old, debt)
           u == LeaveTier(h, old, debt)
           n == RealToPoolDebt(h, new, debt)
           more == RealToPoolDebt(u, new, debt)
           f2 == EnterTier(u, new, debt)
           f3 == Relist(UnmarkIfMarked(f2, id), id, i, d.amount, pool)
           c == [f3.cdps[id] EXCEPT !.lastChange = now]
           f4 == [f3 EXCEPT !.cdps[id] = c]
           e == g.cdps[id]
<1>1. /\ d.status = "Healthy" /\ DebtMultiplier(f, new) # 0 /\ pool # 0
      /\ i = Irredeemable => b \in DOMAIN f.borrowers /\ CanLink(f, b)
  BY SMTT(30) DEF ChangeAllowed, RoomToRelist
<1>2. g = CleanUpInterestInfo(f4, old)
  BY DEF ChangeInterest, InterestMoved, MoveFusdInterest
<1>3. StateOK(f) /\ Accounted(f) /\ EmptyTiers(f) = {} /\ Solvent(f) /\ Active(d)
  BY <1>1 DEF Fit, Ready, Active
<1>4. /\ old \in DOMAIN f.tiers /\ old \in Tiers /\ old[1] \in DOMAIN f.collaterals
      /\ old[1] = d.collateral /\ old = <<d.collateral, d.interest>> /\ d.amount \in Int
      /\ d.pool \in Nat /\ ListedIn(f, id)
      /\ d.borrower \in DOMAIN f.borrowers \cup {Nobody} /\ (McrsAboveOne => d.amount >= 0)
  BY <1>3, OpenFacts
<1>5. new \in Tiers /\ new[1] = old[1] /\ new # old
  BY <1>4 DEF Tiers
<1>6. /\ fee \in Nat /\ Owes(f, h, new, PoolOf(f, new) + fee, RealOf(f, new) + real)
  BY <1>1, <1>3, <1>5, MovedDebts
<1>7. /\ Accounted(h) /\ old \in DOMAIN h.tiers /\ new \in DOMAIN h.tiers /\ SameLoans(f0, h)
      /\ h.ratios = f.ratios /\ DOMAIN h.collaterals = DOMAIN f.collaterals
  BY SMTT(30), <1>1, <1>3, CollateralMovedEffect DEF Moves
<1>8. /\ OthersKept(f, f0, id) /\ SameTerms(d, f0.cdps[id])
  BY <1>1, <1>3, <1>4, RelinkedBooks
<1>9. pool = RealToPoolDebt(f, new, debt) + fee
  BY DEF ChangedPool
<1> HIDE DEF h, f0, pool, fee, real, debt
<1>10. /\ Owes(h, u, old, PoolOf(h, old) - less, RealOf(h, old) - debt)
       /\ Accounted(f2) /\ SameLoans(h, f2) /\ f2.ratios = h.ratios
       /\ DOMAIN f2.tiers = DOMAIN h.tiers
  <2>1. f2 = MoveFusdInterest(h, old, new, debt)
    BY DEF MoveFusdInterest
  <2> HIDE DEF f2
  <2> QED
    BY <1>4, <1>5, <1>7, <2>1, MoveEntry, TierDebts
<1>11. Accounted(u) /\ new \in DOMAIN u.tiers
  <2> DEFINE l == h.tiers[old].pool - RealToPoolDebt(h, old, debt)
             r == h.tiers[old].real - debt
  <2>1. u = WithTierDebt(h, old, l, r)
    BY <1>7 DEF WithTierDebt, LeaveTier, Accounted, Shaped, TierFields
  <2> HIDE DEF u, l, r
  <2> QED
    BY <1>4, <1>7, <2>1, TierDebtEntry DEF Entry
<1>12. Owes(u, f2, new, PoolOf(u, new) + more, RealOf(u, new) + debt)
  BY <1>11, TierDebts
<1>13. less = a /\ more = n
  <2>1. DebtMultiplier(h, old) = DebtMultiplier(f, old)
    BY SMTT(30), <1>4, <1>5, <1>6 DEF Owes, DebtMultiplier, PoolOf, RealOf
  <2>2. DebtMultiplier(u, new) = DebtMultiplier(h, new)
    BY <1>4, <1>5, <1>10 DEF Owes, DebtMultiplier, PoolOf, RealOf
  <2> QED
    BY SMTT(30), <2>1, <2>2 DEF RealToPoolDebt
<1> HIDE DEF u, f2, less, more, n, a
<1>14. /\ SamePrices(f, f2)
       /\ PoolOf(f2, old) = PoolOf(f, old) - a /\ RealOf(f2, old) = RealOf(f, old) - debt
       /\ PoolOf(f2, new) = PoolOf(f, new) + fee + n
       /\ RealOf(f2, new) = RealOf(f, new) + real + debt
       /\ \A l \in Tiers \ {old, new} : PoolOf(f2, l) = PoolOf(f, l) /\ RealOf(f2, l) = RealOf(f, l)
  BY <1>4, <1>5, <1>6, <1>10, <1>12, <1>13 DEF Owes, SamePrices
<1>15. /\ id \in DOMAIN f2.cdps /\ SameTerms(d, f2.cdps[id]) /\ ListedIn(f2, id)
       /\ f2.cdps[id].collateral = d.collateral
  BY SMTT(30), <1>4, <1>7, <1>8, <1>10 DEF SameLoans, OthersKept, SameTerms, ListedIn, Tier
<1>16. /\ SamePrices(f2, f3) /\ SameDebts(f2, f3) /\ OthersKept(f2, f3, id) /\ Accounted(f3)
       /\ DOMAIN f2.tiers \subseteq DOMAIN f3.tiers
       /\ new \in DOMAIN f3.tiers /\ Revised(d, f3.cdps[id], i, d.amount, pool, "Healthy")
  <2>1. <<f2.cdps[id].collateral, i>> = new
    BY <1>15
  <2> HIDE DEF new
  <2>2. /\ SamePrices(f2, f3) /\ SameDebts(f2, f3) /\ OthersKept(f2, f3, id) /\ Accounted(f3)
        /\ new \in DOMAIN f3.tiers /\ DOMAIN f2.tiers \subseteq DOMAIN f3.tiers
        /\ Revised(f2.cdps[id], f3.cdps[id], i, d.amount, pool, "Healthy")
    BY <1>5, <1>10, <1>15, <2>1, UnmarkRelistDebts
  <2> QED
    BY <1>15, <2>2 DEF Revised
<1> HIDE DEF f3
<1>17. /\ f3.cdps[id].collateral = d.collateral /\ f3.cdps[id].interest = i
       /\ f3.cdps[id].amount = d.amount /\ f3.cdps[id].pool = pool
       /\ f3.cdps[id].ratio = Div(d.amount, pool) /\ f3.cdps[id].status = "Healthy"
       /\ DOMAIN f3.cdps[id] = CdpFields /\ id \in DOMAIN f3.cdps
  BY <1>15, <1>16 DEF Revised, OthersKept, Accounted, Shaped
<1>18. /\ DOMAIN c = CdpFields /\ Revised(d, c, i, d.amount, pool, "Healthy")
  BY <1>17 DEF CdpFields, Revised
<1> HIDE DEF c
<1>19. /\ Still(f3, f4) /\ OneLoan(f3, f4, id, c) /\ f4.tiers = f3.tiers
  BY <1>16, <1>17, <1>18, CdpStill
<1> HIDE DEF f4
<1>20. old \in DOMAIN f4.tiers /\ Accounted(f4) /\ SamePrices(f3, f4) /\ SameDebts(f3, f4)
  <2>1. old \in DOMAIN f4.tiers
    BY <1>7, <1>10, <1>16, <1>19
  <2> QED
    BY <1>19, <2>1, StillDebts DEF Still
<1>21. Trims(f4, g) /\ SameLoans(f4, g)
  BY <1>2, <1>20, CleanUpTrims, CleanUpEnds
<1>22. /\ SamePrices(f, g) /\ DOMAIN g.tiers \subseteq Tiers
       /\ \A l \in DOMAIN g.tiers : PoolOf(g, l) = PoolOf(f2, l) /\ RealOf(g, l) = RealOf(f2, l)
  <2>1. \A l \in Tiers : PoolOf(f4, l) = PoolOf(f2, l) /\ RealOf(f4, l) = RealOf(f2, l)
    BY <1>16, <1>20 DEF SameDebts
  <2>2. SamePrices(f, g)
    BY <1>14, <1>16, <1>20, <1>21 DEF SamePrices, Trims
  <2> QED
    BY <1>21, <2>1, <2>2 DEF Trims
<1>23. id \in DOMAIN g.cdps /\ e = c
  BY <1>17, <1>19, <1>21 DEF OneLoan, OthersKept, SameLoans
<1>24. pool \in Int /\ pool >= 1
  <2>1. debt \in Nat
    <3>1. DebtMultiplier(f, old) \in Nat /\ ONE <= DebtMultiplier(f, old)
      BY <1>3, <1>4, TierFacts
    <3> QED
      BY <1>4, <3>1, RealFromPool DEF PoolToRealDebt, debt
  <2>2. DebtMultiplier(f, new) \in Nat /\ ONE <= DebtMultiplier(f, new)
    BY <1>3, <1>5, TierFacts
  <2>3. RealToPoolDebt(f, new, debt) \in Nat
    BY <2>1, <2>2, PoolFromReal DEF RealToPoolDebt
  <2> QED
    BY <1>1, <1>6, <1>9, <2>3
<1>25. LoanSolvent(e) /\ Active(e) /\ Tier(e) = new /\ e.pool = pool
  <2>1. LoanSolvent(c)
    BY <1>4, <1>18, <1>24, RevisedSolvent
  <2> QED
    BY <1>18, <1>23, <2>1 DEF Revised, Active, Tier
<1>26. CoverStep(f, g, id)
  <2>1. old \in DOMAIN g.tiers => /\ PoolOf(g, old) = PoolOf(f, old) - a
                                  /\ RealOf(g, old) = RealOf(f, old) - debt
    BY <1>14, <1>22
  <2>2. new \in DOMAIN g.tiers => /\ PoolOf(g, new) = PoolOf(f, new) + fee + n
                                  /\ RealOf(g, new) = RealOf(f, new) + real + debt
    BY <1>14, <1>22
  <2>3. \A l \in DOMAIN g.tiers \ {old, new} :
          PoolOf(g, l) = PoolOf(f, l) /\ RealOf(g, l) = RealOf(f, l)
    BY <1>14, <1>22
  <2>4. /\ debt = PoolToRealDebt(f, old, d.pool) /\ a = RealToPoolDebt(f, old, debt)
        /\ n = RealToPoolDebt(h, new, debt) /\ real = PoolToRealDebt(f, new, fee)
    BY DEF debt, a, n, real
  <2>5. e.pool = RealToPoolDebt(f, new, debt) + fee
    BY <1>9, <1>25
  <2>6. StateOK(g) /\ EmptyTiers(g) = {} /\ SameBut(f.cdps, g.cdps, id)
    BY DEF Settled
  <2> HIDE DEF new, old
  <2> QED
    BY <1>3, <1>5, <1>6, <1>22, <1>23, <1>25, <2>1, <2>2, <2>3, <2>4, <2>5, <2>6, MoveCover
       DEF old
<1> QED
  BY <1>18, <1>23, <1>25, <1>26 DEF RateMoved, Revised

\* change_cdp_interest, called by the owner with a rate that the loan does not have.
LEMMA ChangeServes ==
  ASSUME Fit(flux), now \in Nat, held \in Int, ~SameRateMoves, NEW id \in Loans,
         NEW i \in Interests, NEW b \in Registered \cup {Nobody}, NEW price \in Nat \ {0},
         ChangeCdpInterest(id, i, b, price)
  PROVE  Served(flux, flux', id)
<1> DEFINE c == flux.cdps[id].collateral
           f == WithPrice(flux, c, price)
<1>1. /\ ChangeAllowed(f, id, i, b) /\ flux' = ChangeInterest(f, id, i, b)
      /\ i # flux.cdps[id].interest
  BY DEF ChangeCdpInterest
<1>2. id \in DOMAIN flux.cdps /\ c \in DOMAIN flux.collaterals
  BY DEF Fit, Ready, Loans, StateOK, WellTyped
<1>3. /\ Fit(f) /\ f.cdps = flux.cdps /\ f.borrowers = flux.borrowers
      /\ \A x, h : Served(f, h, x) => Served(flux, h, x)
  BY <1>2, PricedFit
<1>4. Step(flux, flux', id, held' - held)
  BY ChangeCdpInterestStep DEF Fit
<1> HIDE DEF f
<1>5. id \in DOMAIN f.cdps /\ b \in DOMAIN f.borrowers \cup {Nobody}
  BY <1>2, <1>3 DEF Registered
<1>6. Step(f, flux', id, 0) /\ StateOK(flux')
  BY <1>1, <1>3, <1>5, ChangeStep DEF Fit
<1>7. Settled(f, flux', id)
  BY <1>6, StepSettles DEF Settled
<1>8. RateMoved(f, flux', id, i)
  BY <1>1, <1>3, <1>5, <1>7, ChangeCover
<1>9. Served(f, flux', id)
  <2>1. f.cdps[id].amount \in Int
    BY <1>3, <1>5, LoanTyped DEF Fit, Ready
  <2> QED
    BY <1>8, <2>1 DEF RateMoved, Served, Fair, Lowered, RatioKept
<1> QED
  BY <1>3, <1>9

-----------------------------------------------------------------------------
(* Every call.                                                             *)

\* What a call makes of the state: it is solvent, and one loan changes, by no more
\* than it may.
CallSolvent ==
  /\ Solvent(flux')
  /\ \E id : SameBut(flux.cdps, flux'.cdps, id) /\ (McrsAboveOne => Fair(flux, flux', id))

\* A call that serves its loan is such a call.
LEMMA ServedSolvent ==
  ASSUME Fit(flux), StateOK(flux'), Accounted(flux'), NEW id, Served(flux, flux', id)
  PROVE  CallSolvent
<1>1. Solvent(flux')
  BY CoverKept DEF Served, Fit, Ready
<1> QED
  BY <1>1 DEF CallSolvent, Served, CoverStep

\* tag_irredeemable: the loan is unlinked, moved to a standard rate and pays the fee.
LEMMA TagSolvent ==
  ASSUME NEW paid, Sound(flux, paid), Solvent(flux), now \in Nat, held \in Int, paid \in Int,
         NEW id \in Loans, NEW i \in Rates, TagIrredeemable(id, i)
  PROVE  CallSolvent
<1> DEFINE d == flux.cdps[id]
           f1 == UnlinkIfLinked(flux, id)
           f2 == ChangeInterest(f1, id, i, Nobody)
           fee == flux.params.tagFee
           fusd == BorrowedFusd(f2, id, fee, FALSE)
           g == Borrow(f2, id, fee, FALSE, FALSE)
<1>1. /\ d.status = "Healthy" /\ ChangeAllowed(f1, id, i, Nobody)
      /\ BorrowAllowed(f2, id, fee, FALSE, FALSE)
      /\ flux' = g /\ d.interest = Irredeemable
  BY DEF TagIrredeemable
<1>2. /\ Ready(flux) /\ StateOK(flux) /\ Accounted(flux) /\ LoansRight(flux)
      /\ EmptyTiers(flux) = {} /\ id \in DOMAIN flux.cdps /\ Active(d) /\ Fit(flux)
  BY <1>1 DEF Sound, Ready, Loans, Active, Fit
<1>3. d.borrower \in DOMAIN flux.borrowers \cup {Nobody} /\ fee \in Nat /\ fee \in Int
  BY <1>2 DEF StateOK, WellTyped, ProtocolParameters
<1>4. i \in Interests /\ i # Irredeemable
  BY RatesAssumption, DecimalAssumption DEF Interests, Irredeemable
<1>5. StateOK(f1)
  BY <1>2, UnlinkIfLinkedOK
<1>6. /\ SameBooks(flux, f1) /\ LinksKept(flux, f1, id)
      /\ f1.cdpCounter = flux.cdpCounter /\ f1.marked = flux.marked
      /\ OthersKept(flux, f1, id) /\ Unlinked(d, f1.cdps[id])
  BY <1>2, <1>3, UnlinkIfLinkedBooks
<1> HIDE DEF f1, fee
<1>7. /\ SameTerms(d, f1.cdps[id]) /\ f1.cdps[id].status = d.status
      /\ f1.cdps[id].borrower = Nobody /\ id \in DOMAIN f1.cdps
      /\ (Active(d) <=> Active(f1.cdps[id]))
  BY <1>2, <1>6 DEF Unlinked, SameTerms, Active, OthersKept
<1>8. Step(flux, f1, id, 0)
  BY <1>2, <1>6, <1>7, BooksStep, LinkLoanStep DEF Step
<1>9. Sound(f1, paid + 0)
  BY <1>5, <1>8, SoundStep
<1>10. Fit(f1)
  <2>1. Settled(flux, f1, id)
    BY <1>5, <1>8, StepSettles DEF Settled
  <2>2. SameDebts(flux, f1) /\ \A c \in DOMAIN f1.collaterals : f1.collaterals[c].mcr \in Mcrs
    BY <1>2, <1>6 DEF SameBooks, SameDebts, PoolOf, RealOf, Fit, Solvent
  <2>3. Served(flux, f1, id)
    BY <1>2, <1>7, <2>1, <2>2, IdleServes
  <2>4. Solvent(f1)
    BY <1>2, <1>5, <1>6, <2>3, CoverKept DEF Served, Fit, SameBooks
  <2> QED
    BY <1>9, <2>4 DEF Fit, Sound
<1>11. /\ Step(f1, f2, id, 0) /\ StateOK(f2)
       /\ OthersKept(f1, f2, id)
  BY <1>1, <1>4, <1>7, <1>9, ChangeStep DEF Sound
<1>12. RateMoved(f1, f2, id, i)
  <2>1. Settled(f1, f2, id)
    BY <1>11, StepSettles DEF Settled
  <2>2. i # f1.cdps[id].interest
    BY <1>1, <1>4, <1>7 DEF SameTerms
  <2> QED
    BY <1>1, <1>4, <1>7, <1>10, <2>1, <2>2, ChangeCover
<1> HIDE DEF f2
<1>13. Sound(f2, paid + 0 + 0) /\ id \in DOMAIN f2.cdps
  BY <1>7, <1>9, <1>11, SoundStep DEF OthersKept
<1>14. Fit(f2)
  <2>1. Solvent(f2)
    BY <1>5, <1>10, <1>11, <1>12, <1>13, CoverKept DEF RateMoved, Fit, Sound, Ready
  <2> QED
    BY <1>13, <2>1 DEF Fit, Sound
<1>15. /\ Step(f2, g, id, fusd) /\ StateOK(g) /\ StillOpen(f2, g, id)
  BY <1>1, <1>3, <1>13, BorrowFeeStep DEF Sound
<1>16. Borrowed(f2, g, id, FALSE)
  <2> DEFINE no == FALSE
  <2>1. no \in BOOLEAN /\ BorrowAllowed(f2, id, fee, no, no) /\ g = Borrow(f2, id, fee, no, no)
    BY <1>1
  <2>2. Settled(f2, g, id)
    BY <1>15, StepSettles DEF Settled
  <2>3. no = FALSE
    OBVIOUS
  <2> HIDE DEF no, g
  <2>4. Borrowed(f2, g, id, no)
    BY <1>3, <1>13, <1>14, <2>1, <2>2, BorrowCover
  <2> QED
    BY <2>3, <2>4
<1> HIDE DEF g, fusd
<1>17. Solvent(g)
  <2>1. CoverStep(f2, g, id)
    BY <1>16 DEF Borrowed
  <2>2. Accounted(g)
    BY <1>15, StepSettles
  <2> QED
    BY <1>11, <1>14, <1>15, <2>1, <2>2, CoverKept DEF Fit
<1>18. SameBut(flux.cdps, g.cdps, id)
  BY <1>6, <1>11, <1>15 DEF OthersKept, StillOpen, SameBut
<1>19. Fair(flux, g, id)
  <2>1. /\ g.cdps[id].amount = d.amount /\ g.cdps[id].interest # d.interest
        /\ Active(g.cdps[id])
    <3>1. g.cdps[id].status = f2.cdps[id].status
      BY <1>16 DEF Borrowed
    <3> QED
      BY <1>1, <1>4, <1>7, <1>12, <1>16, <3>1 DEF RateMoved, Borrowed, SameTerms, Active
  <2>2. d.amount \in Int
    BY <1>2, LoanTyped
  <2> QED
    BY <2>1, <2>2 DEF Fair, Lowered, RatioKept
<1> QED
  BY <1>1, <1>17, <1>18, <1>19 DEF CallSolvent

\* Every call about a loan.
LEMMA LoanCallSolvent ==
  ASSUME AccountInv, Solvent(flux), ~SameRateMoves, now \in Nat, NEW id \in Loans, LoanCall(id),
         StateOK(flux'), Accounted(flux')
  PROVE  CallSolvent
<1>1. /\ Fit(flux) /\ held \in Int /\ unbacked \in Int /\ Sound(flux, held - unbacked)
  BY DEF AccountInv, Sound, Fit
<1>2. ASSUME NEW i \in Rates, TagIrredeemable(id, i)
      PROVE  CallSolvent
  <2> DEFINE paid == held - unbacked
  <2>1. paid \in Int /\ Sound(flux, paid)
    BY <1>1
  <2> HIDE DEF paid
  <2> QED
    BY <1>1, <1>2, <2>1, TagSolvent
<1>3. ASSUME CloseCdp(id) PROVE Served(flux, flux', id)
  BY <1>1, <1>3, CloseServes
<1>4. ASSUME RetrieveLeftoverCollateral(id) PROVE Served(flux, flux', id)
  BY <1>1, <1>4, RetrieveServes
<1>5. ASSUME BurnLoanReceipt(id) PROVE Served(flux, flux', id)
  BY <1>1, <1>5, BurnReceiptServes
<1>6. ASSUME NEW amount \in Repayments, PartialCloseCdp(id, amount)
      PROVE  Served(flux, flux', id)
  BY <1>1, <1>6, PartialCloseServes
<1>7. ASSUME NEW price \in Nat \ {0}, NEW amount \in TopUps, TopUpCdp(id, amount, price)
      PROVE  Served(flux, flux', id)
  BY <1>1, <1>7, TopUpServes
<1>8. ASSUME NEW price \in Nat \ {0}, NEW amount \in Withdrawals, RemoveCollateral(id, amount, price)
      PROVE  Served(flux, flux', id)
  BY <1>1, <1>8, RemoveCollateralServes
<1>9. ASSUME NEW price \in Nat \ {0}, NEW amount \in ExtraMints, BorrowMore(id, amount, price)
      PROVE  Served(flux, flux', id)
  BY <1>1, <1>9, BorrowMoreServes
<1>10. ASSUME NEW price \in Nat \ {0}, NEW i \in Interests, NEW b \in Registered \cup {Nobody},
              ChangeCdpInterest(id, i, b, price)
       PROVE  Served(flux, flux', id)
  BY <1>1, <1>10, ChangeServes
<1>11. ASSUME NEW price \in Nat \ {0}, Unmark(id, price) PROVE Served(flux, flux', id)
  BY <1>1, <1>11, UnmarkServes
<1>12. ASSUME NEW price \in Nat \ {0}, LiquidateCdp(id, price) PROVE Served(flux, flux', id)
  <2>1. CASE MarkForLiquidation(id, price)
    BY <1>1, <2>1, MarkServes
  <2>2. CASE Liquidate(id, price)
    BY <1>1, <2>2, LiquidateServes
  <2> QED
    BY <1>12, <2>1, <2>2 DEF LiquidateCdp
<1>13. ASSUME NEW price \in Prices,
              \/ \E amount \in TopUps : TopUpCdp(id, amount, price)
              \/ \E amount \in Withdrawals : RemoveCollateral(id, amount, price)
              \/ \E amount \in ExtraMints : BorrowMore(id, amount, price)
              \/ \E i \in Interests, b \in Registered \cup {Nobody} :
                   ChangeCdpInterest(id, i, b, price)
              \/ Unmark(id, price)
              \/ LiquidateCdp(id, price)
       PROVE  Served(flux, flux', id)
  <2>1. price \in Nat \ {0}
    BY PriceAssumption
  <2> QED
    BY <1>7, <1>8, <1>9, <1>10, <1>11, <1>12, <1>13, <2>1
<1>14. Served(flux, flux', id) => CallSolvent
  BY <1>1, ServedSolvent
<1> QED
  BY <1>2, <1>3, <1>4, <1>5, <1>6, <1>13, <1>14 DEF LoanCall

\* Every call about a collateral.
LEMMA CollateralCallSolvent ==
  ASSUME AccountInv, Solvent(flux), now \in 0 .. MaxTime, NEW c \in Listed, CollateralCall(c),
         StateOK(flux'), Accounted(flux')
  PROVE  CallSolvent
<1>1. Fit(flux) /\ held \in Int /\ now \in Nat
  BY TimeAssumption DEF AccountInv, Sound, Fit
<1>2. ASSUME NEW deposit \in Deposits, NEW mint \in Mints, NEW i \in Interests,
             NEW b \in Registered \cup {Nobody}, NEW price \in Nat \ {0},
             OpenCdp(c, deposit, mint, i, b, price)
      PROVE  \E id : Served(flux, flux', id)
  BY <1>1, <1>2, OpenServes
<1>3. ASSUME NEW payment \in Nat, NEW share \in 0 .. ONE, NEW price \in Nat \ {0},
             Redemption(c, payment, share, price)
      PROVE  \E id : Served(flux, flux', id)
  BY <1>1, <1>3, RedemptionServes
<1>4. ASSUME NEW range \in ChargeRanges, NEW rate \in IrredeemableRates,
             ChargeInterest(c, range, rate)
      PROVE  \E id : Served(flux, flux', id)
  BY <1>1, <1>4, ChargeServes, AmountAssumption
<1>5. ASSUME NEW id, Served(flux, flux', id)
      PROVE  CallSolvent
  BY <1>1, <1>5, ServedSolvent
<1> QED
  BY <1>2, <1>3, <1>4, <1>5, PriceAssumption, AmountAssumption DEF CollateralCall

\* Every call, and every tick of the clock.
LEMMA NextSolvent ==
  ASSUME AccountInv, Solvent(flux), ~SameRateMoves, Next
  PROVE  CallSolvent
<1>1. /\ Fit(flux) /\ held \in Int /\ now \in 0 .. MaxTime /\ now \in Nat
  BY TimeAssumption DEF AccountInv, Sound, IInv, Fit
<1>2. StateOK(flux') /\ Accounted(flux') /\ EmptyTiers(flux') = {}
  BY NextRight DEF CallRight, Sound, Ready
<1>3. ASSUME NEW id, Served(flux, flux', id)
      PROVE  CallSolvent
  BY <1>1, <1>2, <1>3, ServedSolvent
<1>4. CASE LinkCall
  BY <1>1, <1>2, <1>3, <1>4, LinkServes
<1>5. CASE Tick
  <2>1. flux' = flux
    BY <1>5 DEF Tick
  <2>2. \A c \in DOMAIN flux.collaterals : flux.collaterals[c].mcr \in Mcrs
    BY DEF Solvent
  <2> QED
    BY <1>1, <1>2, <1>3, <2>1, <2>2, NoLoanServes
<1>6. CASE \E id \in Loans : LoanCall(id)
  BY <1>1, <1>2, <1>6, LoanCallSolvent
<1>7. CASE \E c \in Listed : CollateralCall(c)
  BY <1>1, <1>2, <1>7, CollateralCallSolvent
<1>8. CASE OwnerCall
  BY <1>1, <1>2, <1>3, <1>8, OwnerServes
<1> QED
  BY <1>4, <1>5, <1>6, <1>7, <1>8 DEF Next

-----------------------------------------------------------------------------
(* Solvency, and what it keeps.                                            *)

\* The accounts add up, and every tier owes at least what its loans do.
SolvencyInv == AccountInv /\ Solvent(flux)

\* Before the first call nobody owes anything.
LEMMA SolvencyInit == Init => SolvencyInv
<1> SUFFICES ASSUME Init PROVE SolvencyInv
  OBVIOUS
<1>1. AccountInv
  BY AccountInit
<1>2. flux.cdps = <<>> /\ flux.collaterals = <<>> /\ flux.tiers = <<>>
  BY DEF Init
<1>3. DOMAIN <<>> = {}
  OBVIOUS
<1>4. \A k : PoolOf(flux, k) = 0 /\ DOMAIN TierPools(flux, k) = {}
  BY <1>2, <1>3 DEF PoolOf, TierPools
<1>5. \A k : SumFunction(TierPools(flux, k)) = 0
  BY <1>4, SumEmpty DEF SumFunction
<1>6. Solvent(flux)
  BY <1>2, <1>3, <1>4, <1>5 DEF Solvent
<1> QED
  BY <1>1, <1>6 DEF SolvencyInv

\* The passing of time moves no debt.
LEMMA SolventClock ==
  ASSUME Solvent(flux')
  PROVE  Solvent(flux)'
OBVIOUS

\* Every tier owes at least what its loans do after every call.
LEMMA SolvencyNext ==
  ASSUME ~SameRateMoves
  PROVE  SolvencyInv /\ [Next]_vars => SolvencyInv'
<1> SUFFICES ASSUME SolvencyInv, [Next]_vars PROVE SolvencyInv'
  OBVIOUS
<1>1. AccountInv'
  BY AccountNext DEF SolvencyInv
<1>2. CASE Next
  <2>1. Solvent(flux')
    BY <1>2, NextSolvent DEF SolvencyInv, CallSolvent
  <2> QED
    BY <1>1, <2>1, SolventClock DEF SolvencyInv
<1>3. CASE UNCHANGED vars
  BY <1>1, <1>3 DEF SolvencyInv, vars, Solvent
<1> QED
  BY <1>2, <1>3

\* For all constants, if no loan is moved to the rate that it has, every tier keeps at
\* least the pool debt of its open loans, and no less real debt than pool debt: what
\* truncation loses stays on the tier's books, and is never missing there.
THEOREM TiersCoverTheirLoans == ~SameRateMoves => (Spec => []Solvent(flux))
<1> SUFFICES ASSUME ~SameRateMoves PROVE Spec => []Solvent(flux)
  OBVIOUS
<1>1. SolvencyInv => Solvent(flux)
  BY DEF SolvencyInv
<1>2. SolvencyInv /\ [Next]_vars => SolvencyInv'
  BY SolvencyNext
<1> QED
  BY <1>1, <1>2, SolvencyInit, PTL DEF Spec

\* The ratio of every entry of a tier's tree is that of an open loan.
LEMMA RatiosOfLoans ==
  ASSUME SolvencyInv, McrsAboveOne, NEW k \in Tiers, NEW cr \in DOMAIN flux.ratios[k]
  PROVE  cr >= 0
<1> DEFINE ids == flux.ratios[k][cr]
           id == ids[1]
           d == flux.cdps[id]
<1>1. Fit(flux) /\ StateOK(flux)
  BY DEF SolvencyInv, AccountInv, Sound, Fit, Ready
<1>2. VectorOK(flux, k, cr)
  BY SMTT(30), <1>1 DEF StateOK, VectorsOK
<1>3. id \in DOMAIN flux.cdps /\ Active(d) /\ d.ratio = cr
  <2>1. ids \in Seq(DOMAIN flux.cdps) /\ 1 \in 1 .. Len(ids)
        /\ Active(flux.cdps[ids[1]]) /\ flux.cdps[ids[1]].ratio = cr
    BY <1>2, SMTT(30) DEF VectorOK
  <2> HIDE DEF ids
  <2>2. ids[1] \in DOMAIN flux.cdps
    BY <2>1
  <2> QED
    BY <2>1, <2>2 DEF ids
<1> HIDE DEF id
<1>4. /\ d.ratio = Div(d.amount, d.pool) /\ d.amount \in Nat /\ d.pool \in Nat \ {0}
  <2>1. /\ d.amount \in Int /\ d.pool \in Nat /\ d.pool >= 1
        /\ d.ratio = Div(d.amount, d.pool) /\ d.amount >= 0
    BY <1>1, <1>3, OpenFacts
  <2> QED
    BY <2>1
<1>5. Div(d.amount, d.pool) \in Nat
  BY <1>4, QuotientBounds
<1> QED
  BY <1>3, <1>4, <1>5

\* For all constants, if the owner asks for no minimum ratio below one and no loan is
\* moved to the rate that it has, no loan is ever listed at a negative ratio.
THEOREM RatiosAreNotNegative ==
  ~SameRateMoves /\ McrsAboveOne => (Spec => []RatiosNotNegative)
<1> SUFFICES ASSUME ~SameRateMoves, McrsAboveOne PROVE Spec => []RatiosNotNegative
  OBVIOUS
<1>1. SolvencyInv => RatiosNotNegative
  BY RatiosOfLoans DEF RatiosNotNegative
<1>2. SolvencyInv /\ [Next]_vars => SolvencyInv'
  BY SolvencyNext
<1> QED
  BY <1>1, <1>2, SolvencyInit, PTL DEF Spec

-----------------------------------------------------------------------------
(* What no call may do to an open loan.                                    *)

\* The one loan that a step changes may change so.
LEMMA FairToLoans ==
  ASSUME SolvencyInv, [Next]_vars, ~SameRateMoves, McrsAboveOne,
         NEW id \in ActiveLoans, id \in Ids'
  PROVE  LET d == flux.cdps[id] e == flux'.cdps[id]
         IN  /\ d.pool \in Int /\ d.amount \in Int /\ d.ratio \in Int
             /\ Active(d) /\ e.ratio \in Int
             /\ \/ e = d
                \/ e.status \in {"Liquidated", "Closed"}
                \/ FirstLoan(flux, id) /\ (Active(e) => e.ratio >= d.ratio)
                \/ Active(e) /\ ~Lowered(d, e) /\ RatioKept(flux', d, e)
<1> DEFINE d == flux.cdps[id]
           e == flux'.cdps[id]
<1>1. id \in DOMAIN flux.cdps /\ Active(d) /\ id \in DOMAIN flux'.cdps
  BY DEF ActiveLoans, Ids
<1>2. d.pool \in Int /\ d.amount \in Int /\ d.ratio \in Int
  <2>1. StateOK(flux)
    BY DEF SolvencyInv, AccountInv, IInv
  <2> QED
    BY <1>1, <2>1, LoanTyped DEF Cdp
<1>3. CASE UNCHANGED vars
  BY <1>1, <1>2, <1>3 DEF vars
<1>4. CASE Next
  <2> e.ratio \in Int
    <3>1. StateOK(flux')
      BY <1>4, NextRight DEF SolvencyInv, CallRight, Sound, Ready
    <3> QED
      BY <1>1, <3>1, LoanTyped DEF Cdp
  <2>1. PICK x : SameBut(flux.cdps, flux'.cdps, x) /\ Fair(flux, flux', x)
    BY <1>4, NextSolvent DEF SolvencyInv, CallSolvent
  <2>2. CASE x = id
    BY <1>1, <1>2, <2>1, <2>2 DEF Fair
  <2>3. CASE x # id
    <3>1. e = d
      BY <1>1, <2>1, <2>3 DEF SameBut
    <3> QED
      BY <1>1, <1>2, <3>1
  <2> QED
    BY <2>2, <2>3
<1> QED
  BY <1>3, <1>4

\* A loan is redeemed only as the first, and not so that its ratio falls.
LEMMA RedeemedFirst ==
  ASSUME SolvencyInv, [Next]_vars, ~SameRateMoves, McrsAboveOne, NEW id \in Ids, Redeemed(id)
  PROVE  /\ FirstLoan(flux, id)
         /\ Active(flux'.cdps[id]) => flux'.cdps[id].ratio >= flux.cdps[id].ratio
<1> DEFINE d == flux.cdps[id]
           e == flux'.cdps[id]
<1>1. /\ id \in ActiveLoans /\ id \in Ids'
      /\ \/ e.status = "Redeemed"
         \/ Active(e) /\ e.pool < d.pool /\ e.amount < d.amount
  BY DEF Redeemed
<1>2. /\ d.pool \in Int /\ d.amount \in Int /\ d.ratio \in Int /\ Active(d)
      /\ \/ e = d
         \/ e.status \in {"Liquidated", "Closed"}
         \/ FirstLoan(flux, id) /\ (Active(e) => e.ratio >= d.ratio)
         \/ Active(e) /\ ~Lowered(d, e) /\ RatioKept(flux', d, e)
  BY <1>1, FairToLoans
<1>3. e # d
  BY <1>1, <1>2 DEF Active
<1> QED
  BY <1>1, <1>2, <1>3 DEF Active, Lowered

\* For all constants, under the same conditions, redemption takes a loan only when no
\* open loan of the collateral comes before it.
THEOREM RedemptionKeepsOrder ==
  ~SameRateMoves /\ McrsAboveOne => (Spec => RedemptionInOrder)
<1> SUFFICES ASSUME ~SameRateMoves, McrsAboveOne PROVE Spec => RedemptionInOrder
  OBVIOUS
<1> DEFINE Act == \A id \in Ids : Redeemed(id) =>
                    \A other \in ActiveLoans : ~RedeemableBefore(other, id)
<1>1. SolvencyInv /\ [Next]_vars => Act
  <2> SUFFICES ASSUME SolvencyInv, [Next]_vars, NEW id \in Ids, Redeemed(id),
                      NEW other \in ActiveLoans
               PROVE  ~RedeemableBefore(other, id)
    OBVIOUS
  <2>1. FirstLoan(flux, id)
    BY RedeemedFirst
  <2>2. other \in DOMAIN flux.cdps /\ Active(flux.cdps[other])
    BY DEF ActiveLoans, Ids
  <2> QED
    BY <2>1, <2>2 DEF FirstLoan, ComesBefore, RedeemableBefore
<1>2. SolvencyInv /\ [Next]_vars => [Act]_vars
  BY <1>1
<1>3. SolvencyInv /\ [Next]_vars => SolvencyInv'
  BY SolvencyNext
<1> HIDE DEF Act
<1>4. Spec => [][Act]_vars
  BY <1>2, <1>3, SolvencyInit, PTL DEF Spec
<1> QED
  BY <1>4 DEF RedemptionInOrder, Act

\* For all constants, under the same conditions, a partial redemption does not lower
\* the collateral ratio of its loan.
THEOREM RedemptionLowersNoRatio ==
  ~SameRateMoves /\ McrsAboveOne => (Spec => RedemptionKeepsRatio)
<1> SUFFICES ASSUME ~SameRateMoves, McrsAboveOne PROVE Spec => RedemptionKeepsRatio
  OBVIOUS
<1> DEFINE Act == \A id \in Ids :
                    Redeemed(id) /\ flux'.cdps[id].status # "Redeemed" =>
                      flux'.cdps[id].ratio >= flux.cdps[id].ratio
<1>1. SolvencyInv /\ [Next]_vars => Act
  <2> SUFFICES ASSUME SolvencyInv, [Next]_vars, NEW id \in Ids, Redeemed(id),
                      flux'.cdps[id].status # "Redeemed"
               PROVE  flux'.cdps[id].ratio >= flux.cdps[id].ratio
    OBVIOUS
  <2>1. Active(flux'.cdps[id])
    BY DEF Redeemed
  <2> QED
    BY <2>1, RedeemedFirst
<1>2. SolvencyInv /\ [Next]_vars => [Act]_vars
  BY <1>1
<1>3. SolvencyInv /\ [Next]_vars => SolvencyInv'
  BY SolvencyNext
<1> HIDE DEF Act
<1>4. Spec => [][Act]_vars
  BY <1>2, <1>3, SolvencyInit, PTL DEF Spec
<1> QED
  BY <1>4 DEF RedemptionKeepsRatio, Act

\* For all constants, under the same conditions, an open loan whose ratio falls at the
\* rate that it has, by neither redemption nor notice, has the minimum ratio or more.
THEOREM OwnersKeepMcr ==
  ~SameRateMoves /\ McrsAboveOne => (Spec => OwnerKeepsMcr)
<1> SUFFICES ASSUME ~SameRateMoves, McrsAboveOne PROVE Spec => OwnerKeepsMcr
  OBVIOUS
<1> DEFINE Act == \A id \in ActiveLoans \cap Ids' :
                    LET d == flux.cdps[id] e == flux'.cdps[id]
                    IN  /\ Active(e)
                        /\ e.ratio < d.ratio
                        /\ e.interest = d.interest
                        /\ e.status = d.status \/ e.status = "Healthy"
                        /\ ~Redeemed(id)
                        => MeetsMcr(flux', Tier(e), e.amount, e.pool)
<1>1. SolvencyInv /\ [Next]_vars => Act
  <2> SUFFICES ASSUME SolvencyInv, [Next]_vars, NEW id \in ActiveLoans, id \in Ids'
               PROVE  LET d == flux.cdps[id] e == flux'.cdps[id]
                      IN  /\ Active(e)
                          /\ e.ratio < d.ratio
                          /\ e.interest = d.interest
                          /\ e.status = d.status \/ e.status = "Healthy"
                          => MeetsMcr(flux', Tier(e), e.amount, e.pool)
    OBVIOUS
  <2> DEFINE d == flux.cdps[id]
             e == flux'.cdps[id]
  <2>1. /\ d.ratio \in Int /\ e.ratio \in Int
        /\ \/ e = d
           \/ e.status \in {"Liquidated", "Closed"}
           \/ FirstLoan(flux, id) /\ (Active(e) => e.ratio >= d.ratio)
           \/ Active(e) /\ ~Lowered(d, e) /\ RatioKept(flux', d, e)
    BY FairToLoans
  <2>2. ASSUME Active(e), e.ratio < d.ratio, e.interest = d.interest,
               e.status = d.status \/ e.status = "Healthy"
        PROVE  MeetsMcr(flux', Tier(e), e.amount, e.pool)
    <3>1. e # d
      BY <2>1, <2>2
    <3>2. RatioKept(flux', d, e) \/ e.ratio >= d.ratio
      BY <2>1, <2>2, <3>1 DEF Active
    <3>3. CASE RatioKept(flux', d, e)
      BY <2>2, <3>3 DEF RatioKept
    <3>4. CASE e.ratio >= d.ratio
      <4>1. d.ratio \in Int /\ e.ratio \in Int
        BY <2>1
      <4> QED
        BY <2>2, <3>4, <4>1
    <3> QED
      BY <3>2, <3>3, <3>4
  <2> QED
    BY <2>2
<1>2. SolvencyInv /\ [Next]_vars => [Act]_vars
  BY <1>1
<1>3. SolvencyInv /\ [Next]_vars => SolvencyInv'
  BY SolvencyNext
<1> HIDE DEF Act
<1>4. Spec => [][Act]_vars
  BY <1>2, <1>3, SolvencyInit, PTL DEF Spec
<1> QED
  BY <1>4 DEF OwnerKeepsMcr, Act

=============================================================================
