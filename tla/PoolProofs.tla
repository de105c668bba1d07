----------------------------- MODULE PoolProofs -----------------------------
(***************************************************************************)
(* One call on a stability pool: what it does to the vaults of the pool,   *)
(* to the fUSD of its users and to Flux, whoever makes it and at whatever  *)
(* price, for all constants.                                               *)
(***************************************************************************)
EXTENDS AccountProofs, StabilityPools, SequenceTheorems

-----------------------------------------------------------------------------
(* Truncated products and quotients of amounts.                            *)

\* A quotient of natural numbers, by its two bounds.
LEMMA DivBounds ==
  ASSUME NEW n \in Nat, NEW d \in Nat \ {0}
  PROVE  n \div d \in Nat /\ (n \div d) * d <= n /\ n < (n \div d) * d + d
OBVIOUS

\* It is at most b when n is at most b times d.
LEMMA DivAtMost ==
  ASSUME NEW n \in Nat, NEW d \in Nat \ {0}, NEW b \in Nat, n <= b * d
  PROVE  n \div d <= b
<1> DEFINE q == n \div d
<1>1. q \in Nat /\ q * d <= n
  BY DivBounds
<1> HIDE DEF q
<1>2. q * d <= b * d
  BY <1>1
<1>3. q <= b
  BY <1>1, <1>2
<1> QED
  BY <1>3 DEF q

\* On natural numbers Quot is the whole quotient.
LEMMA QuotNat ==
  ASSUME NEW n \in Nat, NEW d \in Nat \ {0}
  PROVE  Quot(n, d) = n \div d
BY DEF Quot, Abs

\* A truncated product of natural numbers is one, and at most the exact product.
LEMMA MulNat ==
  ASSUME NEW a \in Nat, NEW b \in Nat
  PROVE  Mul(a, b) \in Nat /\ Mul(a, b) * ONE <= a * b
<1> DEFINE n == a * b
<1>1. n \in Nat
  OBVIOUS
<1> HIDE DEF n
<1>2. Quot(n, ONE) = n \div ONE
  BY <1>1, QuotNat, DecimalAssumption
<1>3. Quot(n, ONE) \in Nat /\ Quot(n, ONE) * ONE <= n
  BY <1>1, <1>2, DivBounds, DecimalAssumption
<1> QED
  BY <1>3 DEF Mul, n

\* A share of at most 1 takes no more than there is.
LEMMA MulShare ==
  ASSUME NEW a \in Nat, NEW b \in 0 .. ONE
  PROVE  Mul(a, b) \in Nat /\ Mul(a, b) <= a
<1> DEFINE m == Mul(a, b)
<1>1. m \in Nat /\ m * ONE <= a * b
  BY MulNat, DecimalAssumption
<1> HIDE DEF m
<1>2. a * b <= a * ONE
  BY DecimalAssumption
<1>3. m <= a
  BY <1>1, <1>2, DecimalAssumption
<1> QED
  BY <1>1, <1>3 DEF m

\* So is a truncated quotient, with the bound turned round.
LEMMA DivNat ==
  ASSUME NEW a \in Nat, NEW b \in Nat \ {0}
  PROVE  Div(a, b) \in Nat /\ Div(a, b) * b <= a * ONE
<1> DEFINE n == a * ONE
<1>1. n \in Nat
  BY DecimalAssumption
<1> HIDE DEF n
<1>2. Quot(n, b) \in Nat /\ Quot(n, b) * b <= n
  BY <1>1, QuotNat, DivBounds
<1> QED
  BY <1>2 DEF Div, n

\* Two parts of an amount, by weights within the whole, are within the amount.
LEMMA PartsWithin ==
  ASSUME NEW a \in Nat, NEW x \in Nat, NEW y \in Nat, NEW w \in Nat \ {0}, x + y <= w
  PROVE  /\ Div(Mul(a, x), w) \in Nat /\ Div(Mul(a, y), w) \in Nat
         /\ Div(Mul(a, x), w) + Div(Mul(a, y), w) <= a
<1>1. ASSUME NEW z \in Nat
      PROVE  Div(Mul(a, z), w) \in Nat /\ Div(Mul(a, z), w) * w <= a * z
  <2> DEFINE m == Mul(a, z)
  <2>1. m \in Nat /\ m * ONE <= a * z
    BY MulNat
  <2> HIDE DEF m
  <2> DEFINE q == Div(m, w)
  <2>2. q \in Nat /\ q * w <= m * ONE
    BY <2>1, DivNat
  <2> HIDE DEF q
  <2>3. q * w <= a * z
    BY <2>1, <2>2, DecimalAssumption
  <2> QED
    BY <2>2, <2>3 DEF q, m
<1> DEFINE p == Div(Mul(a, x), w)
           q == Div(Mul(a, y), w)
<1>2. p \in Nat /\ q \in Nat /\ p * w <= a * x /\ q * w <= a * y
  BY <1>1
<1> HIDE DEF p, q
<1>3. (p + q) * w <= a * (x + y) /\ a * (x + y) <= a * w
  BY <1>2
<1>4. (p + q) * w <= a * w
  BY <1>2, <1>3
<1>5. p + q <= a
  BY <1>2, <1>4
<1> QED
  BY <1>2, <1>5 DEF p, q

-----------------------------------------------------------------------------
(* The vaults of a pool.                                                   *)

\* A sale takes no more collateral than the pool has and returns no more fUSD
\* than was paid.
LEMMA SellOK ==
  ASSUME NEW p \in Pool, NEW fusd \in Nat, NEW price \in Nat, NEW modifier \in Nat,
         CanSell(fusd, price, modifier)
  PROVE  LET s == Sell(p, fusd, price, modifier)
         IN  /\ s.bought \in 0 .. p.coll /\ s.left \in 0 .. fusd
             /\ s.pool \in Pool /\ s.pool.rewards = p.rewards /\ s.pool.units = p.units
             /\ s.pool.setting = p.setting /\ s.pool.created = p.created
             /\ s.pool.history = p.history
             /\ s.pool.coll = p.coll - s.bought /\ s.pool.fusd = p.fusd + (fusd - s.left)
<1> DEFINE unit == Mul(price, modifier)
           canBuy == Div(fusd, unit)
           fraction == Div(p.coll, canBuy)
           paid == IF fraction >= ONE THEN fusd ELSE Mul(fusd, fraction)
           bought == Lesser(canBuy, p.coll)
           q == [p EXCEPT !.coll = @ - bought, !.fusd = @ + paid]
<1>1. p.coll \in Nat /\ p.fusd \in Nat
  BY DEF Pool
<1>2. unit \in Nat \ {0}
  BY MulNat DEF CanSell
<1> HIDE DEF unit
<1>3. canBuy \in Nat \ {0}
  BY <1>2, DivNat DEF CanSell, unit
<1> HIDE DEF canBuy
<1>4. fraction \in Nat
  BY <1>1, <1>3, DivNat
<1> HIDE DEF fraction
<1>5. paid \in 0 .. fusd
  <2>1. CASE fraction >= ONE
    BY <2>1
  <2>2. CASE fraction < ONE
    <3>1. fraction \in 0 .. ONE /\ ~(fraction >= ONE)
      BY <1>4, <2>2, DecimalAssumption
    <3>2. Mul(fusd, fraction) \in Nat /\ Mul(fusd, fraction) <= fusd
      BY <3>1, MulShare
    <3> QED
      BY <3>1, <3>2
  <2> QED
    BY <1>4, <2>1, <2>2, DecimalAssumption
<1>6. bought \in 0 .. p.coll
  BY <1>1, <1>3 DEF Lesser
<1>7. Sell(p, fusd, price, modifier) = [pool |-> q, bought |-> bought, left |-> fusd - paid]
  BY DEF Sell, unit, canBuy, fraction
<1> HIDE DEF paid, bought
<1>8. p.coll - bought \in Nat /\ p.fusd + paid \in Nat /\ fusd - paid \in 0 .. fusd
      /\ p.fusd + paid = p.fusd + (fusd - (fusd - paid))
  BY <1>1, <1>5, <1>6
<1>9. /\ q \in Pool /\ q.rewards = p.rewards /\ q.units = p.units /\ q.setting = p.setting
      /\ q.created = p.created /\ q.history = p.history
      /\ q.coll = p.coll - bought /\ q.fusd = p.fusd + paid
  BY <1>8 DEF Pool
<1> HIDE DEF q
<1> QED
  BY <1>6, <1>7, <1>8, <1>9

\* A contribution to a pool that is not empty, or whose units are, loses nothing:
\* what does not join is returned.
LEMMA ContributeOK ==
  ASSUME NEW p \in Pool, NEW coll \in Nat, NEW fusd \in Nat,
         p.units > 0 => p.coll + p.fusd > 0
  PROVE  LET in == PoolContribute(p, coll, fusd)
         IN  /\ in.coll \in 0 .. coll /\ in.fusd \in 0 .. fusd
             /\ in.pool \in Pool /\ in.pool.rewards = p.rewards
             /\ in.pool.setting = p.setting /\ in.pool.created = p.created
             /\ in.pool.history = p.history
             /\ in.pool.coll = p.coll + (coll - in.coll)
             /\ in.pool.fusd = p.fusd + (fusd - in.fusd)
<1>1. p.coll \in Nat /\ p.fusd \in Nat /\ p.units \in Nat
  BY DEF Pool
<1>2. ASSUME NEW collIn \in 0 .. coll, NEW fusdIn \in 0 .. fusd, NEW units \in Nat,
             PoolContribute(p, coll, fusd) =
               [pool |-> [p EXCEPT !.coll = @ + collIn, !.fusd = @ + fusdIn, !.units = units],
                coll |-> coll - collIn, fusd |-> fusd - fusdIn]
      PROVE  LET in == PoolContribute(p, coll, fusd)
             IN  /\ in.coll \in 0 .. coll /\ in.fusd \in 0 .. fusd
                 /\ in.pool \in Pool /\ in.pool.rewards = p.rewards
                 /\ in.pool.setting = p.setting /\ in.pool.created = p.created
                 /\ in.pool.history = p.history
                 /\ in.pool.coll = p.coll + (coll - in.coll)
                 /\ in.pool.fusd = p.fusd + (fusd - in.fusd)
  <2> DEFINE q == [p EXCEPT !.coll = @ + collIn, !.fusd = @ + fusdIn, !.units = units]
  <2>1. p.coll + collIn \in Nat /\ p.fusd + fusdIn \in Nat
        /\ collIn = coll - (coll - collIn) /\ fusdIn = fusd - (fusd - fusdIn)
        /\ coll - collIn \in 0 .. coll /\ fusd - fusdIn \in 0 .. fusd
    BY <1>1, <1>2
  <2>2. /\ q \in Pool /\ q.rewards = p.rewards /\ q.setting = p.setting
        /\ q.created = p.created /\ q.history = p.history
        /\ q.coll = p.coll + collIn /\ q.fusd = p.fusd + fusdIn
    BY <1>2, <2>1 DEF Pool
  <2> HIDE DEF q
  <2>3. PoolContribute(p, coll, fusd) = [pool |-> q, coll |-> coll - collIn, fusd |-> fusd - fusdIn]
    BY <1>2 DEF q
  <2> QED
    BY <2>1, <2>2, <2>3
<1>3. CASE p.units = 0
  <2> DEFINE units == p.fusd + fusd
  <2>1. PoolContribute(p, coll, fusd) =
               [pool |-> [p EXCEPT !.coll = @ + coll, !.fusd = @ + fusd, !.units = units],
                coll |-> 0, fusd |-> 0]
    BY <1>3 DEF PoolContribute
  <2>2. units \in Nat /\ coll \in 0 .. coll /\ fusd \in 0 .. fusd
        /\ coll - coll = 0 /\ fusd - fusd = 0
    BY <1>1
  <2> HIDE DEF units
  <2> QED
    BY <1>2, <2>1, <2>2
<1>4. CASE p.units # 0 /\ p.coll > 0 /\ coll * p.fusd <= fusd * p.coll
  <2> DEFINE joins == coll * p.fusd
             shares == coll * p.units
             minted == shares \div p.coll
             fusdIn == joins \div p.coll
             units == p.units + minted
  <2>1. PoolContribute(p, coll, fusd) =
               [pool |-> [p EXCEPT !.coll = @ + coll, !.fusd = @ + fusdIn, !.units = units],
                coll |-> coll - coll, fusd |-> fusd - fusdIn]
    BY <1>4 DEF PoolContribute
  <2>2. joins \in Nat /\ shares \in Nat /\ joins <= fusd * p.coll /\ p.coll \in Nat \ {0}
    BY <1>1, <1>4
  <2> HIDE DEF joins, shares
  <2>3. fusdIn \in Nat /\ fusdIn <= fusd /\ minted \in Nat
    BY <2>2, DivAtMost, DivBounds
  <2> HIDE DEF fusdIn, minted
  <2>4. fusdIn \in 0 .. fusd /\ units \in Nat /\ coll \in 0 .. coll
    BY <1>1, <2>3
  <2> HIDE DEF units
  <2> QED
    BY <1>2, <2>1, <2>4
<1>5. CASE p.units # 0 /\ ~(p.coll > 0 /\ coll * p.fusd <= fusd * p.coll)
  <2> DEFINE joins == fusd * p.coll
             shares == fusd * p.units
             minted == shares \div p.fusd
             collIn == joins \div p.fusd
             units == p.units + minted
  <2>1. PoolContribute(p, coll, fusd) =
               [pool |-> [p EXCEPT !.coll = @ + collIn, !.fusd = @ + fusd, !.units = units],
                coll |-> coll - collIn, fusd |-> fusd - fusd]
    BY <1>5 DEF PoolContribute
  <2>2. p.fusd # 0
    <3>1. CASE p.coll = 0
      BY <1>1, <1>5, <3>1
    <3>2. CASE p.coll > 0 /\ p.fusd = 0
      BY <1>1, <1>5, <3>2
    <3> QED
      BY <1>1, <3>1, <3>2
  <2>3. joins \in Nat /\ shares \in Nat /\ joins <= coll * p.fusd /\ p.fusd \in Nat \ {0}
    <3>1. CASE p.coll = 0
      BY <1>1, <2>2, <3>1
    <3>2. CASE p.coll > 0
      BY <1>1, <1>5, <2>2, <3>2
    <3> QED
      BY <1>1, <3>1, <3>2
  <2> HIDE DEF joins, shares
  <2>4. collIn \in Nat /\ collIn <= coll /\ minted \in Nat
    BY <2>3, DivAtMost, DivBounds
  <2> HIDE DEF collIn, minted
  <2>5. collIn \in 0 .. coll /\ units \in Nat /\ fusd \in 0 .. fusd
    BY <1>1, <2>4
  <2> HIDE DEF units
  <2> QED
    BY <1>2, <2>1, <2>5
<1> QED
  BY <1>3, <1>4, <1>5

\* A redemption of units pays at most what the pool has.
LEMMA UnitsRedeemed ==
  ASSUME NEW p \in Pool, NEW units \in 1 .. p.units
  PROVE  LET q == PoolRedeem(p, units)
         IN  /\ q \in Pool /\ q.fusd \in 0 .. p.fusd /\ q.rewards = p.rewards
             /\ q.created = p.created
<1>1. p.coll \in Nat /\ p.fusd \in Nat /\ p.units \in Nat \ {0} /\ units \in Nat
  BY DEF Pool
<1>2. ASSUME NEW v \in Nat
      PROVE  (units * v) \div p.units \in 0 .. v
  <2> DEFINE n == units * v
  <2>1. n \in Nat /\ n <= v * p.units
    BY <1>1
  <2> HIDE DEF n
  <2>2. n \div p.units \in Nat /\ n \div p.units <= v
    BY <1>1, <2>1, DivAtMost, DivBounds
  <2> QED
    BY <2>2 DEF n
<1> DEFINE part(v) == (units * v) \div p.units
           coll == p.coll - part(p.coll)
           fusd == p.fusd - part(p.fusd)
           rest == p.units - units
           q == [p EXCEPT !.units = rest, !.coll = coll, !.fusd = fusd]
<1>3. PoolRedeem(p, units) = q
  BY DEF PoolRedeem, Pool
<1>4. part(p.coll) \in 0 .. p.coll /\ part(p.fusd) \in 0 .. p.fusd
  BY <1>1, <1>2
<1> HIDE DEF part
<1>5. coll \in 0 .. p.coll /\ fusd \in 0 .. p.fusd /\ rest \in Nat
  BY <1>1, <1>4
<1> HIDE DEF coll, fusd, rest
<1>6. /\ q \in Pool /\ q.fusd = fusd /\ q.rewards = p.rewards /\ q.created = p.created
  <2>1. coll \in Nat /\ fusd \in Nat /\ rest \in Nat
    BY <1>1, <1>5
  <2> QED
    BY <2>1 DEF Pool
<1> HIDE DEF q
<1> QED
  BY <1>3, <1>5, <1>6

-----------------------------------------------------------------------------
(* The history of lowest rates.                                            *)

\* A finite set of natural numbers has a greatest one.
LEMMA GreatestExists ==
  ASSUME NEW S, IsFiniteSet(S), S # {}
  PROVE  S \subseteq Nat => \E m \in S : \A n \in S : n <= m
<1> DEFINE Above(m) == {n \in S : m <= n}
           C == {Above(m) : m \in S}
<1>1. C \in SUBSET (SUBSET S)
  OBVIOUS
<1>2. PICK T \in C : \A U \in C : U \subseteq T => U = T
  <2>1. C # {}
    OBVIOUS
  <2> HIDE DEF C
  <2> QED
    BY <1>1, <2>1, MinimalSubset
<1> HAVE S \subseteq Nat
<1>3. PICK m \in S : T = Above(m)
  OBVIOUS
<1>4. ASSUME NEW n \in S, ~(n <= m)
      PROVE  FALSE
  <2>1. Above(n) \subseteq T /\ Above(n) \in C
    <3>1. Above(n) \in C
      OBVIOUS
    <3>2. ASSUME NEW x \in S, n <= x PROVE m <= x
      BY <1>4, <3>2
    <3> QED
      BY <1>3, <3>1, <3>2
  <2>2. m \in T /\ m \notin Above(n)
    BY <1>3, <1>4
  <2> QED
    BY <1>2, <2>1, <2>2
<1> QED
  BY <1>4

\* The rate that irredeemable loans pay is a rate, and none of the history's is
\* higher.
LEMMA MaxOfOK ==
  ASSUME NEW h \in Seq(Rates)
  PROVE  MaxOf(h) \in Rates /\ \A n \in 1 .. Len(h) : h[n] <= MaxOf(h)
<1>1. CASE h = <<>>
  BY <1>1, RatesAssumption DEF MaxOf
<1>2. CASE h # <<>>
  <2> DEFINE S == {h[n] : n \in 1 .. Len(h)}
             g == [n \in 1 .. Len(h) |-> h[n]]
  <2>1. Len(h) \in Nat \ {0} /\ S \subseteq Rates
    BY <1>2, EmptySeq, ElementOfSeq
  <2>2. IsFiniteSet(S)
    <3>1. IsFiniteSet(1 .. Len(h))
      BY <2>1, FS_Interval
    <3>2. g \in Surjection(1 .. Len(h), S)
      BY DEF Surjection
    <3> HIDE DEF g, S
    <3> QED
      BY <3>1, <3>2, FS_Surjection
  <2>3. S # {}
    BY <2>1
  <2>4. \E m \in S : \A n \in S : n <= m
    <3> HIDE DEF S
    <3> QED
      BY <2>1, <2>2, <2>3, GreatestExists, RatesAssumption
  <2>5. \E i \in S : \A n \in 1 .. Len(h) : h[n] <= i
    BY <2>4
  <2>6. MaxOf(h) = CHOOSE i \in S : \A n \in 1 .. Len(h) : h[n] <= i
    BY <1>2 DEF MaxOf
  <2>7. MaxOf(h) \in S /\ \A n \in 1 .. Len(h) : h[n] <= MaxOf(h)
    <3> HIDE DEF S
    <3> QED
      BY <2>5, <2>6
  <2> QED
    BY <2>1, <2>7
<1> QED
  BY <1>1, <1>2

\* A charge leaves a history of rates and, if histories have a length at all, the
\* highest of it is at least the lowest rate that the charge found.
LEMMA HistoryOK ==
  ASSUME NEW p \in Pool, NEW lowest \in Rates, poolParameters \in PoolParameters, now \in Nat
  PROVE  /\ History(p, lowest) \in Seq(Rates)
         /\ poolParameters.historyLength > 0 => lowest <= MaxOf(History(p, lowest))
<1> DEFINE h == p.history
           added == Append(h, lowest)
           last == IF h = <<>> THEN 0 ELSE h[Len(h)]
           new == History(p, lowest)
<1>1. /\ h \in Seq(Rates) /\ Rates \subseteq Nat /\ poolParameters.historyLength \in Nat
      /\ poolParameters.interval \in Nat /\ p.created \in Nat
  BY RatesAssumption, TimeAssumption DEF Pool, PoolParameters
<1>2. /\ added \in Seq(Rates) /\ added # <<>> /\ Len(added) = Len(h) + 1
      /\ added[Len(h) + 1] = lowest /\ Len(h) \in Nat
  BY <1>1, AppendProperties, LenProperties
<1>3. \/ new = h /\ ~(lowest > last)
      \/ new = Tail(added) /\ Len(added) > poolParameters.historyLength
      \/ new = added
  BY DEF History
<1> HIDE DEF added, new
<1>4. CASE new = h /\ ~(lowest > last)
  <2>1. CASE h = <<>>
    <3>1. lowest = 0 /\ MaxOf(h) = 0
      BY <1>1, <1>4, <2>1 DEF MaxOf
    <3> QED
      BY <1>1, <1>4, <3>1 DEF new
  <2>2. CASE h # <<>>
    <3>1. Len(h) \in 1 .. Len(h)
      BY <1>1, <2>2, EmptySeq
    <3>2. h[Len(h)] <= MaxOf(h) /\ MaxOf(h) \in Nat /\ h[Len(h)] \in Nat
      BY <1>1, <3>1, MaxOfOK, ElementOfSeq
    <3>3. lowest <= h[Len(h)]
      BY <1>1, <1>4, <2>2, <3>2
    <3>4. lowest <= MaxOf(h)
      BY <1>1, <3>2, <3>3
    <3> QED
      BY <1>1, <1>4, <3>4 DEF new
  <2> QED
    BY <2>1, <2>2
<1>5. ASSUME new \in Seq(Rates), NEW n \in 1 .. Len(new), new[n] = lowest
      PROVE  lowest <= MaxOf(new)
  BY <1>5, MaxOfOK
<1>6. CASE new = added
  <2>1. Len(h) + 1 \in 1 .. Len(new)
    BY <1>2, <1>6
  <2> QED
    BY <1>2, <1>5, <1>6, <2>1 DEF new
<1>7. CASE new = Tail(added) /\ Len(added) > poolParameters.historyLength
  <2>1. /\ new \in Seq(Rates) /\ Len(new) = Len(h)
        /\ \A n \in 1 .. Len(new) : new[n] = added[n + 1]
    BY <1>2, <1>7, HeadTailProperties
  <2>2. ASSUME poolParameters.historyLength > 0
        PROVE  lowest <= MaxOf(new)
    <3>1. Len(h) \in 1 .. Len(new)
      BY <1>1, <1>2, <1>7, <2>1, <2>2
    <3>2. new[Len(h)] = lowest
      BY <1>2, <2>1, <3>1
    <3> QED
      BY <1>5, <2>1, <3>1, <3>2
  <2> QED
    BY <2>1, <2>2 DEF new
<1> QED
  BY <1>3, <1>4, <1>6, <1>7

-----------------------------------------------------------------------------
(* What the calls of a transaction make of Flux.                           *)

\* A call on Flux, by the proxy or by a pool, that adds no collateral.
FluxKept ==
  /\ AccountInv' /\ held' \in Int /\ unbacked' = unbacked
  /\ now' = now /\ Listed' = Listed

\* A step that Flux may take leaves its accounts sound.
LEMMA StepKept ==
  ASSUME AccountInv, NEW id, Step(flux, flux', id, held' - held), held' \in Int,
         StateOK(flux'), unbacked' = unbacked, now' = now
  PROVE  FluxKept
<1>1. CallRight
  BY StepRight
<1>2. now \in 0 .. MaxTime /\ now \in Nat
  BY TimeAssumption DEF AccountInv, IInv
<1>3. StateOK(flux)'
  BY <1>2, ClockKeeps
<1>4. IInv'
  BY <1>2, <1>3 DEF IInv
<1>5. Sound(flux, held - unbacked)'
  BY <1>1, <1>3, SoundClock DEF CallRight
<1>6. AccountInv'
  BY <1>1, <1>4, <1>5 DEF AccountInv, CallRight
<1>7. Listed' = Listed
  BY DEF Step, AccountStep, Listed
<1> QED
  BY <1>6, <1>7 DEF FluxKept

\* A call that leaves Flux alone.
LEMMA NothingKept ==
  ASSUME AccountInv, UNCHANGED vars
  PROVE  FluxKept /\ held' = held
<1>1. AccountInv'
  BY AccountNext
<1> QED
  BY <1>1 DEF FluxKept, AccountInv, vars, Listed

\* open_cdp, which borrows from Flux alone, leaves its accounts sound too.
LEMMA OpenKept ==
  ASSUME AccountInv, NEW c \in Listed, NEW deposit \in Deposits, NEW mint \in Mints,
         NEW i \in Interests, NEW b \in Registered \cup {Nobody}, NEW price \in Nat \ {0},
         OpenCdp(c, deposit, mint, i, b, price)
  PROVE  FluxKept
<1>1. /\ Ready(flux) /\ held \in Int /\ StateOK(flux) /\ now \in Nat
  BY TimeAssumption DEF AccountInv, Sound, Ready, IInv
<1>2. StateOK(flux')
  BY <1>1, OpenOK
<1>3. Step(flux, flux', flux.cdpCounter + 1, held' - held) /\ held' \in Int
  BY SMTT(30), <1>1, <1>2, OpenCdpStep
<1>4. unbacked' = unbacked /\ now' = now
  BY DEF OpenCdp
<1> QED
  BY <1>2, <1>3, <1>4, StepKept

\* So does a charge of interest.
LEMMA ChargeKept ==
  ASSUME AccountInv, NEW c \in Listed, NEW range, NEW rate \in Rates, ChargeInterest(c, range, rate)
  PROVE  FluxKept
<1>1. /\ Ready(flux) /\ held \in Int /\ StateOK(flux) /\ now \in 0 .. MaxTime
  BY DEF AccountInv, Sound, Ready, IInv
<1>2. StateOK(flux')
  BY <1>1, ChargeOK
<1>3. Step(flux, flux', 0, held' - held) /\ held' \in Int
  BY SMTT(30), <1>1, ChargeStep
<1>4. unbacked' = unbacked /\ now' = now
  BY DEF ChargeInterest
<1> QED
  BY <1>2, <1>3, <1>4, StepKept

\* So does the listing of a collateral.
LEMMA ListingKept ==
  ASSUME AccountInv, NEW c \in Collaterals, NEW mcr \in Mcrs, NEW price \in Prices,
         NewCollateral(c, mcr, price)
  PROVE  /\ AccountInv' /\ held' = held /\ unbacked' = unbacked /\ now' = now
         /\ Listed' = Listed \cup {c} /\ c \notin Listed
<1>1. OwnerCall
  BY DEF OwnerCall
<1>2. AccountInv'
  BY <1>1, AccountNext DEF Next
<1>3. DOMAIN flux = Fields
  BY DEF AccountInv, IInv, StateOK, WellTyped
<1> QED
  BY <1>2, <1>3 DEF NewCollateral, Listed, Fields, With

\* So does the time that passes.
LEMMA TickKept ==
  ASSUME AccountInv, Tick
  PROVE  /\ AccountInv' /\ held' = held /\ unbacked' = unbacked /\ now' = now + 1
         /\ Listed' = Listed /\ now \in Nat
<1>1. AccountInv'
  BY AccountNext DEF Next
<1>2. now \in Nat
  BY TimeAssumption DEF AccountInv, IInv
<1> QED
  BY <1>1, <1>2 DEF Tick, Listed

-----------------------------------------------------------------------------
(* The pools' state between calls.                                         *)

\* There is a pool for every collateral, created in the past.
PoolsTyped ==
  /\ DOMAIN pools = Listed
  /\ \A c \in DOMAIN pools : pools[c] \in Pool /\ pools[c].created <= now

\* With what the pools keep besides, and the fUSD of the users.
PoolsReady ==
  /\ wallet \in Nat /\ payoutVault \in Nat
  /\ PoolsTyped
  /\ poolParameters \in PoolParameters
  /\ allowMultiple \in BOOLEAN /\ hashed \in BOOLEAN
  /\ joined \subseteq DOMAIN pools /\ (joined # {} => hashed)

\* A call on one pool moves to or from users and the vault for payouts what the
\* pool and Flux lose or gain.
PoolReplaced(c, q) ==
  /\ q.created <= now
  /\ pools' = [pools EXCEPT ![c] = q]
  /\ wallet' \in Nat /\ payoutVault' \in Nat
  /\ UNCHANGED <<poolParameters, allowMultiple>>
  /\ hashed' \in BOOLEAN /\ joined' \subseteq DOMAIN pools /\ (joined' # {} => hashed')
  /\ held' - held = (wallet' - wallet) + (payoutVault' - payoutVault)
                    + ((q.fusd + q.rewards) - (pools[c].fusd + pools[c].rewards))

\* So the pools' state is as before a call.
LEMMA ReplacedReady ==
  ASSUME PoolsReady, NEW c \in DOMAIN pools, NEW q \in Pool, PoolReplaced(c, q),
         now' = now, Listed' = Listed
  PROVE  PoolsReady'
<1>1. PoolsTyped'
  BY DEF PoolsReady, PoolsTyped, PoolReplaced
<1>2. DOMAIN pools' = DOMAIN pools
  BY DEF PoolReplaced
<1> QED
  BY <1>1, <1>2 DEF PoolsReady, PoolReplaced

\* The settings of a pool, or the defaults, are amounts.
LEMMA SettingNat ==
  ASSUME PoolsReady, NEW c \in DOMAIN pools
  PROVE  /\ Modifier(c) \in Nat /\ PayoutSplit(c) \in Nat /\ LiquiditySplit(c) \in Nat
         /\ SplitWeight(c) \in Nat /\ PayoutSplit(c) + LiquiditySplit(c) <= SplitWeight(c)
<1>1. pools[c].setting \in Setting /\ poolParameters \in PoolParameters
  BY DEF PoolsReady, PoolsTyped, Pool
<1>2. ASSUME NEW s \in Nat \cup {Default}, NEW d \in Nat
      PROVE  OrDefault(s, d) \in Nat
  BY <1>2 DEF OrDefault
<1>3. /\ Modifier(c) \in Nat /\ PayoutSplit(c) \in Nat /\ LiquiditySplit(c) \in Nat
      /\ OrDefault(pools[c].setting.pool, poolParameters.pool) \in Nat
  BY <1>1, <1>2 DEF Setting, PoolParameters, Modifier, PayoutSplit, LiquiditySplit
<1> QED
  BY <1>3 DEF SplitWeight

\* What holds of a pool, the users' fUSD and the two vaults before a call.
LEMMA PoolFacts ==
  ASSUME PoolsReady, NEW c \in DOMAIN pools
  PROVE  /\ pools[c] \in Pool /\ pools[c].created <= now
         /\ pools[c].fusd \in Nat /\ pools[c].coll \in Nat /\ pools[c].units \in Nat
         /\ pools[c].rewards \in Nat /\ wallet \in Nat /\ payoutVault \in Nat
         /\ hashed \in BOOLEAN /\ joined \subseteq DOMAIN pools /\ (joined # {} => hashed)
         /\ poolParameters \in PoolParameters
<1>1. pools[c] \in Pool /\ pools[c].created <= now
  BY DEF PoolsReady, PoolsTyped
<1>2. pools[c].fusd \in Nat /\ pools[c].coll \in Nat /\ pools[c].units \in Nat
      /\ pools[c].rewards \in Nat
  BY <1>1 DEF Pool
<1> QED
  BY <1>1, <1>2 DEF PoolsReady

-----------------------------------------------------------------------------
(* The two calls that the routes make as well.                             *)

\* contribute_to_pool splits the payment into fee, pool and change.
LEMMA ContributeReplaces ==
  ASSUME AccountInv, PoolsReady, NEW c \in DOMAIN pools, NEW fusd \in Contributions,
         NEW leftover \in BOOLEAN, NEW price \in Nat, ContributeToPool(c, fusd, leftover, price)
  PROVE  FluxKept /\ UNCHANGED vars /\ \E q \in Pool : PoolReplaced(c, q)
<1> DEFINE p == pools[c]
           modifier == Modifier(c)
           fee == Mul(fusd, poolParameters.percentageFee) + poolParameters.flatFee
           value == Mul(p.coll, price)
           weight == p.fusd + fusd + Mul(value, modifier)
           toBuy == IF value > 0 THEN Div(Mul(Mul(fusd, value), modifier), weight) ELSE 0
           sale == IF value > 0 THEN Sell(p, toBuy, price, modifier)
                                ELSE [pool |-> p, bought |-> 0, left |-> 0]
           rest == fusd - fee - toBuy
           in == PoolContribute(sale.pool, sale.bought, rest)
           keep == leftover /\ value > 0
           q == IF keep THEN [in.pool EXCEPT !.coll = @ + in.coll,
                                             !.fusd = @ + in.fusd + sale.left]
                ELSE in.pool
           back == IF keep THEN 0 ELSE in.fusd + sale.left
<1>1. /\ p \in Pool /\ p.created <= now /\ p.fusd \in Nat /\ p.coll \in Nat /\ p.units \in Nat
      /\ p.rewards \in Nat /\ wallet \in Nat /\ payoutVault \in Nat
      /\ joined \subseteq DOMAIN pools /\ poolParameters \in PoolParameters
  BY SMTT(30), PoolFacts
<1>2. /\ (value > 0 => weight # 0) /\ fee + toBuy <= fusd
      /\ (value > 0 => CanSell(toBuy, price, modifier))
      /\ (p.units > 0 => sale.pool.coll + sale.pool.fusd > 0)
      /\ pools' = [pools EXCEPT ![c] = q]
      /\ payoutVault' = payoutVault + fee
      /\ Receive(back - fusd)
      /\ hashed' = TRUE /\ joined' = joined \cup {c}
      /\ UNCHANGED <<vars, poolParameters, allowMultiple>>
  BY DEF ContributeToPool
<1>3. modifier \in Nat /\ fusd \in Nat /\ price \in Nat
  BY SettingNat, PoolAssumption
<1> HIDE DEF p, modifier
<1>4. fee \in Nat
  <2>1. poolParameters.percentageFee \in Nat /\ poolParameters.flatFee \in Nat
    BY <1>1 DEF PoolParameters
  <2>2. Mul(fusd, poolParameters.percentageFee) \in Nat
    BY <1>3, <2>1, MulNat
  <2> QED
    BY <2>1, <2>2
<1>5. value \in Nat
  BY <1>1, <1>3, MulNat
<1> HIDE DEF fee, value
<1>6. weight \in Nat
  <2>1. Mul(value, modifier) \in Nat
    BY <1>3, <1>5, MulNat
  <2> QED
    BY <1>1, <1>3, <2>1
<1> HIDE DEF weight
<1>7. toBuy \in Nat
  <2>1. CASE value > 0
    <3> DEFINE a == Mul(fusd, value)
               b == Mul(a, modifier)
    <3>1. a \in Nat
      BY <1>3, <1>5, MulNat
    <3> HIDE DEF a
    <3>2. b \in Nat
      BY <1>3, <3>1, MulNat
    <3> HIDE DEF b
    <3>3. weight \in Nat \ {0}
      BY <1>2, <1>6, <2>1
    <3>4. Div(b, weight) \in Nat
      BY <3>2, <3>3, DivNat
    <3> QED
      BY <2>1, <3>4 DEF a, b
  <2> QED
    BY <2>1
<1> HIDE DEF toBuy
<1>8. /\ sale.bought \in Nat /\ sale.left \in 0 .. toBuy /\ sale.pool \in Pool
      /\ sale.pool.rewards = p.rewards /\ sale.pool.units = p.units
      /\ sale.pool.created = p.created
      /\ sale.pool.fusd = p.fusd + (toBuy - sale.left)
  <2>1. CASE value > 0
    <3>1. CanSell(toBuy, price, modifier) /\ sale = Sell(p, toBuy, price, modifier)
      BY <1>2, <2>1
    <3> DEFINE s == Sell(p, toBuy, price, modifier)
    <3>2. /\ s.bought \in 0 .. p.coll /\ s.left \in 0 .. toBuy
          /\ s.pool \in Pool /\ s.pool.rewards = p.rewards /\ s.pool.units = p.units
          /\ s.pool.created = p.created /\ s.pool.fusd = p.fusd + (toBuy - s.left)
      BY <1>1, <1>3, <1>7, <3>1, SellOK
    <3>3. sale = s
      BY <3>1
    <3> HIDE DEF s, sale
    <3> QED
      BY <1>1, <3>2, <3>3
  <2>2. CASE ~(value > 0)
    <3>1. sale = [pool |-> p, bought |-> 0, left |-> 0] /\ toBuy = 0
      BY <2>2 DEF toBuy
    <3> HIDE DEF sale
    <3> QED
      BY <1>1, <3>1
  <2> QED
    BY <2>1, <2>2
<1> DEFINE sold == sale.pool
           bought == sale.bought
           left == sale.left
<1>9. sold \in Pool /\ bought \in Nat /\ left \in 0 .. toBuy /\ left \in Nat
      /\ (sold.units > 0 => sold.coll + sold.fusd > 0)
      /\ sold.fusd = p.fusd + (toBuy - left) /\ sold.rewards = p.rewards
      /\ sold.created = p.created /\ in = PoolContribute(sold, bought, rest)
  BY <1>2, <1>7, <1>8
<1>10. rest \in Nat /\ rest = fusd - fee - toBuy
  BY <1>2, <1>3, <1>4, <1>7
<1>11. /\ pools' = [pools EXCEPT ![c] = q] /\ Receive(back - fusd)
       /\ q = IF keep THEN [in.pool EXCEPT !.coll = @ + in.coll, !.fusd = @ + in.fusd + left]
                      ELSE in.pool
       /\ back = IF keep THEN 0 ELSE in.fusd + left
  BY <1>2
<1> HIDE DEF rest, in, keep, q, back, sale, sold, bought, left
<1>12. /\ in.coll \in Nat /\ in.fusd \in 0 .. rest /\ in.pool \in Pool
       /\ in.pool.rewards = sold.rewards /\ in.pool.created = sold.created
       /\ in.pool.fusd = sold.fusd + (rest - in.fusd)
  <2> DEFINE s == PoolContribute(sold, bought, rest)
  <2>1. /\ s.coll \in 0 .. bought /\ s.fusd \in 0 .. rest /\ s.pool \in Pool
        /\ s.pool.rewards = sold.rewards /\ s.pool.created = sold.created
        /\ s.pool.fusd = sold.fusd + (rest - s.fusd)
    BY ONLY <1>9, <1>10, ContributeOK
  <2>2. in = s
    BY <1>9
  <2> HIDE DEF s
  <2>3. s.coll \in Nat
    BY <1>9, <2>1
  <2> QED
    BY <2>1, <2>2, <2>3
<1> DEFINE joins == in.pool
           overColl == in.coll
           over == in.fusd
<1>13. /\ overColl \in Nat /\ over \in Nat /\ joins \in Pool /\ joins.rewards = p.rewards
       /\ joins.created = p.created /\ joins.fusd \in Nat /\ joins.coll \in Nat
       /\ joins.fusd = p.fusd + (toBuy - left) + (rest - over) /\ over <= rest
  BY SMTT(30), <1>9, <1>10, <1>12 DEF Pool
<1>14. /\ q = IF keep THEN [joins EXCEPT !.coll = @ + overColl, !.fusd = @ + over + left]
                      ELSE joins
       /\ back = IF keep THEN 0 ELSE over + left
  BY <1>11
<1> HIDE DEF joins, overColl, over
<1>15. /\ q \in Pool /\ q.rewards = p.rewards /\ q.created = p.created
       /\ back \in Nat /\ q.fusd + back = joins.fusd + over + left
  <2>1. CASE keep
    <3>1. joins.coll + overColl \in Nat /\ joins.fusd + over + left \in Nat
      BY <1>9, <1>13
    <3>2. q = [joins EXCEPT !.coll = joins.coll + overColl, !.fusd = joins.fusd + over + left]
          /\ back = 0
      BY <1>14, <2>1
    <3>3. q \in Pool /\ q.rewards = p.rewards /\ q.created = p.created
          /\ q.fusd = joins.fusd + over + left
      BY <1>13, <3>1, <3>2 DEF Pool
    <3> QED
      BY <3>1, <3>2, <3>3
  <2>2. CASE ~keep
    BY <1>9, <1>13, <1>14, <2>2
  <2> QED
    BY <2>1, <2>2
<1>16. FluxKept /\ held' = held /\ held \in Int
  BY <1>2, NothingKept DEF AccountInv
<1>17. q.fusd \in Nat /\ q.fusd + back = p.fusd + fusd - fee
  <2>1. q.fusd \in Nat
    BY <1>15 DEF Pool
  <2> QED
    BY <1>1, <1>3, <1>4, <1>7, <1>9, <1>10, <1>13, <1>15, <2>1
<1>18. wallet' = wallet + (back - fusd) /\ wallet' \in Nat
  BY <1>1, <1>3, <1>11, <1>15 DEF Receive
<1>19. payoutVault' = payoutVault + fee /\ payoutVault' \in Nat /\ hashed' = TRUE
       /\ joined' \subseteq DOMAIN pools
       /\ UNCHANGED <<poolParameters, allowMultiple>>
  BY <1>1, <1>2, <1>4
<1>20. held' - held = (wallet' - wallet) + (payoutVault' - payoutVault)
                        + ((q.fusd + q.rewards) - (pools[c].fusd + pools[c].rewards))
  <2> DEFINE after == q.fusd
             before == p.fusd
             kept == p.rewards
  <2>1. after \in Nat /\ before \in Nat /\ kept \in Nat /\ q.rewards = kept
        /\ after + back = before + fusd - fee
    BY <1>1, <1>15, <1>17
  <2>2. pools[c].fusd = before /\ pools[c].rewards = kept
    BY DEF p
  <2> HIDE DEF after, before, kept
  <2>3. held' - held = 0 /\ wallet' - wallet = back - fusd /\ payoutVault' - payoutVault = fee
    BY <1>1, <1>3, <1>4, <1>15, <1>16, <1>18, <1>19
  <2>4. 0 = (back - fusd) + fee + ((after + kept) - (before + kept))
    BY <1>3, <1>4, <1>15, <2>1
  <2>5. (after + kept) - (before + kept)
          = (q.fusd + q.rewards) - (pools[c].fusd + pools[c].rewards)
    BY <2>1, <2>2 DEF after
  <2> QED
    BY <2>3, <2>4, <2>5
<1>21. q.created <= now
  BY <1>1, <1>15
<1>22. PoolReplaced(c, q)
  BY <1>11, <1>18, <1>19, <1>20, <1>21 DEF PoolReplaced
<1> QED
  BY <1>2, <1>15, <1>16, <1>22

\* charge_interest of the pools splits what Flux minted and leaves nothing over.
LEMMA ChargeReplaces ==
  ASSUME AccountInv, PoolsReady, NEW c \in DOMAIN pools, NEW range, ChargePoolInterest(c, range)
  PROVE  FluxKept /\ \E q \in Pool : PoolReplaced(c, q)
<1> DEFINE p == pools[c]
           interest == held' - held
           paid == PayoutPart(c, interest)
           rewards == LiquidityPart(c, interest)
<1>1. /\ p \in Pool /\ p.created <= now /\ p.fusd \in Nat /\ p.rewards \in Nat
      /\ wallet \in Nat /\ payoutVault \in Nat /\ hashed \in BOOLEAN
      /\ joined \subseteq DOMAIN pools /\ (joined # {} => hashed)
      /\ poolParameters \in PoolParameters 
      /\ p.history \in Seq(Rates)
  BY PoolFacts DEF Pool
<1>2. /\ ChargeInterest(c, range, MaxOf(p.history))
      /\ 0 <= interest /\ SplitWeight(c) # 0 /\ payoutVault' = payoutVault + paid
      /\ UNCHANGED <<wallet, poolParameters, allowMultiple, hashed, joined>>
  BY DEF ChargePoolInterest
<1>3. PICK lowest \in Rates :
        pools' = [pools EXCEPT ![c].history = History(p, lowest),
                               ![c].rewards = @ + rewards,
                               ![c].fusd = @ + (interest - paid - rewards)]
  BY Zenon DEF ChargePoolInterest
<1> DEFINE h == History(p, lowest)
           q == [p EXCEPT !.history = h, !.rewards = @ + rewards,
                          !.fusd = @ + (interest - paid - rewards)]
<1>4. pools' = [pools EXCEPT ![c] = q]
  BY <1>3
<1>5. FluxKept /\ held' \in Int /\ held \in Int
  <2>1. c \in Listed /\ MaxOf(p.history) \in Rates
    BY <1>1, MaxOfOK DEF PoolsReady, PoolsTyped
  <2>2. FluxKept
    BY <1>1, <1>2, <2>1, ChargeKept
  <2> QED
    BY <1>1, <2>2 DEF FluxKept, AccountInv
<1>6. interest \in Nat
  <2>1. 0 <= held' - held
    BY <1>2
  <2>2. \A a, b \in Int : 0 <= a - b => a - b \in Nat
    OBVIOUS
  <2>3. held' \in Int /\ held \in Int
    BY <1>5
  <2> QED
    BY <2>1, <2>2, <2>3
<1>7. h \in Seq(Rates)
  <2>1. now \in Nat
    BY <1>1, TimeAssumption DEF AccountInv, IInv
  <2> QED
    BY <1>1, <2>1, HistoryOK
<1> HIDE DEF h, p
<1> HIDE DEF interest
<1>8. paid \in Nat /\ rewards \in Nat /\ paid + rewards <= interest
  <2> DEFINE x == PayoutSplit(c)
             y == LiquiditySplit(c)
             w == SplitWeight(c)
  <2>1. x \in Nat /\ y \in Nat /\ w \in Nat \ {0} /\ x + y <= w
    BY <1>1, <1>2, SettingNat
  <2>2. paid = Div(Mul(interest, x), w) /\ rewards = Div(Mul(interest, y), w)
    BY DEF PayoutPart, LiquidityPart
  <2> HIDE DEF x, y, w, paid, rewards
  <2>3. /\ Div(Mul(interest, x), w) \in Nat /\ Div(Mul(interest, y), w) \in Nat
        /\ Div(Mul(interest, x), w) + Div(Mul(interest, y), w) <= interest
    BY <1>6, <2>1, PartsWithin
  <2> QED
    BY <2>2, <2>3
<1> HIDE DEF paid, rewards
<1>9. q \in Pool /\ q.rewards = p.rewards + rewards /\ q.created = p.created
      /\ q.fusd = p.fusd + (interest - paid - rewards)
  <2>1. p.rewards + rewards \in Nat /\ p.fusd + (interest - paid - rewards) \in Nat
    BY <1>1, <1>6, <1>8
  <2> QED
    BY <1>1, <1>7, <2>1 DEF Pool
<1> HIDE DEF q
<1>10. payoutVault' \in Nat /\ wallet' = wallet /\ wallet' \in Nat /\ hashed' = hashed
       /\ joined' = joined
       /\ UNCHANGED <<poolParameters, allowMultiple>>
  BY <1>1, <1>2, <1>8
<1>11. held' - held = (wallet' - wallet) + (payoutVault' - payoutVault)
                        + ((q.fusd + q.rewards) - (pools[c].fusd + pools[c].rewards))
  <2>1. held' - held = interest
    BY DEF interest
  <2> QED
    BY SMTT(30), <1>1, <1>2, <1>6, <1>8, <1>9, <1>10, <2>1 DEF p
<1>12. q.created <= now
  BY <1>1, <1>9
<1>13. PoolReplaced(c, q)
  BY <1>1, <1>4, <1>10, <1>11, <1>12 DEF PoolReplaced
<1> QED
  BY <1>5, <1>9, <1>13

=============================================================================
