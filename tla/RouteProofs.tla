---------------------------- MODULE RouteProofs ----------------------------
(***************************************************************************)
(* The routes by which the stability pools redeem loans, for every number  *)
(* of collaterals, loans and messages: what the oracle makes of a batch of *)
(* messages, that there is one order in which redemption comes to loans,   *)
(* what the calls of a route make of Flux, and from it the types of a      *)
(* route, the freshness of its prices and the balance of its plan.         *)
(***************************************************************************)
EXTENDS SolvencyProofs, PoolProofs, RouteProperties

-----------------------------------------------------------------------------
(* Sums, and the least of some numbers.                                    *)

\* A finite set of natural numbers has a least one.
LEMMA LeastExists ==
  ASSUME NEW S, IsFiniteSet(S), S # {}
  PROVE  S \subseteq Nat => \E m \in S : \A n \in S : m <= n
<1> DEFINE Below(m) == {n \in S : n <= m}
           C == {Below(m) : m \in S}
<1>1. C \in SUBSET (SUBSET S)
  OBVIOUS
<1>2. PICK T \in C : \A U \in C : U \subseteq T => U = T
  <2>1. C # {}
    OBVIOUS
  <2> HIDE DEF C
  <2> QED
    BY <1>1, <2>1, MinimalSubset
<1> HAVE S \subseteq Nat
<1>3. PICK m \in S : T = Below(m)
  OBVIOUS
<1>4. ASSUME NEW n \in S, ~(m <= n)
      PROVE  FALSE
  <2>1. Below(n) \subseteq T /\ Below(n) \in C
    <3>1. Below(n) \in C
      OBVIOUS
    <3>2. ASSUME NEW x \in S, x <= n PROVE x <= m
      BY <1>4, <3>2
    <3> QED
      BY <1>3, <3>1, <3>2
  <2>2. m \in T /\ m \notin Below(n)
    BY <1>3, <1>4
  <2> QED
    BY <1>2, <2>1, <2>2
<1> QED
  BY <1>4

\* Larger terms have a larger sum.
LEMMA SumGrows ==
  ASSUME NEW f, NEW g, NEW S, IsFiniteSet(S),
         \A x \in S : f[x] \in Int /\ g[x] \in Int /\ f[x] <= g[x]
  PROVE  SumFunctionOnSet(f, S) <= SumFunctionOnSet(g, S)
<1> DEFINE h == [x \in S |-> g[x] - f[x]]
<1>1. \A x \in S : h[x] \in Nat /\ h[x] = g[x] - f[x]
  OBVIOUS
<1> HIDE DEF h
<1>2. SumFunctionOnSet(h, S) \in Nat
  BY <1>1, SumNatural
<1>3. SumFunctionOnSet(h, S) = SumFunctionOnSet(g, S) - SumFunctionOnSet(f, S)
  BY <1>1, SumDifference
<1>4. SumFunctionOnSet(f, S) \in Int /\ SumFunctionOnSet(g, S) \in Int
  BY SumType
<1> QED
  BY <1>2, <1>3, <1>4

\* And if one of them is larger indeed, so is the sum.
LEMMA SumRises ==
  ASSUME NEW f, NEW g, NEW S, IsFiniteSet(S),
         \A x \in S : f[x] \in Int /\ g[x] \in Int /\ f[x] <= g[x],
         NEW y \in S, f[y] < g[y]
  PROVE  SumFunctionOnSet(f, S) < SumFunctionOnSet(g, S)
<1>1. /\ SumFunctionOnSet(f, S) = f[y] + SumFunctionOnSet(f, S \ {y})
      /\ SumFunctionOnSet(g, S) = g[y] + SumFunctionOnSet(g, S \ {y})
  BY SumTakeOut
<1>2. IsFiniteSet(S \ {y})
  BY FS_Subset
<1>3. SumFunctionOnSet(f, S \ {y}) <= SumFunctionOnSet(g, S \ {y})
  BY <1>2, SumGrows
<1>4. /\ SumFunctionOnSet(f, S \ {y}) \in Int /\ SumFunctionOnSet(g, S \ {y}) \in Int
      /\ f[y] \in Int /\ g[y] \in Int
  BY <1>2, SumType
<1> QED
  BY <1>1, <1>3, <1>4

\* More terms have a larger sum.
LEMMA SumOfMore ==
  ASSUME NEW f, NEW S, IsFiniteSet(S), \A x \in S : f[x] \in Nat, NEW T \in SUBSET S
  PROVE  SumFunctionOnSet(f, T) <= SumFunctionOnSet(f, S)
<1> DEFINE C == {U \in SUBSET S : T \subseteq U /\ ~(SumFunctionOnSet(f, T) <= SumFunctionOnSet(f, U))}
<1>1. SUFFICES ASSUME C # {} PROVE FALSE
  OBVIOUS
<1>2. PICK U \in C : \A V \in C : V \subseteq U => V = U
  <2>1. C \in SUBSET (SUBSET S)
    OBVIOUS
  <2> HIDE DEF C
  <2> QED
    BY <1>1, <2>1, MinimalSubset
<1>3. U \subseteq S /\ T \subseteq U /\ ~(SumFunctionOnSet(f, T) <= SumFunctionOnSet(f, U))
  OBVIOUS
<1>4. IsFiniteSet(U) /\ IsFiniteSet(T)
  BY <1>3, FS_Subset
<1>5. SumFunctionOnSet(f, T) \in Nat /\ SumFunctionOnSet(f, U) \in Nat
  BY <1>3, <1>4, SumNatural
<1>6. PICK y \in U : y \notin T
  <2>1. U # T
    BY <1>3, <1>5
  <2> QED
    BY <1>3, <2>1
<1>7. SumFunctionOnSet(f, U) = f[y] + SumFunctionOnSet(f, U \ {y})
  BY <1>3, <1>4, SumTakeOut
<1>8. SumFunctionOnSet(f, U \ {y}) \in Nat /\ f[y] \in Nat
  <2>1. IsFiniteSet(U \ {y})
    BY <1>4, FS_Subset
  <2> QED
    BY <1>3, <2>1, SumNatural
<1>9. U \ {y} \in C
  BY <1>3, <1>5, <1>6, <1>7, <1>8
<1> QED
  BY <1>2, <1>9

\* The shares of a whole in proportion to the parts of another, truncated, are no more
\* than the whole.
LEMMA SharesWithin ==
  ASSUME NEW part, NEW share, NEW S, IsFiniteSet(S), NEW n \in Nat, NEW total \in Nat \ {0},
         \A x \in S : part[x] \in Nat, total = SumFunctionOnSet(part, S),
         \A x \in S : share[x] = Mul(Div(part[x], total), n)
  PROVE  /\ \A x \in S : share[x] \in Nat
         /\ SumFunctionOnSet(share, S) \in Nat /\ SumFunctionOnSet(share, S) <= n
<1>1. ONE \in Nat \ {0}
  BY DecimalAssumption
<1>2. ASSUME NEW x \in S
      PROVE  share[x] \in Nat /\ share[x] * total <= part[x] * n
  <2> DEFINE q == Div(part[x], total)
             r == Mul(q, n)
  <2>1. q \in Nat /\ q * total <= part[x] * ONE
    BY DivNat
  <2> HIDE DEF q
  <2>2. r \in Nat /\ r * ONE <= q * n
    BY <2>1, MulNat
  <2> HIDE DEF r
  <2>3. part[x] \in Nat
    OBVIOUS
  <2>4. (r * ONE) * total <= (q * n) * total
    BY <2>1, <2>2, <1>1
  <2>5. (q * total) * n <= (part[x] * ONE) * n
    BY <2>1, <2>3, <1>1
  <2>6. (q * n) * total = (q * total) * n
    BY <2>1
  <2>7. (r * total) * ONE <= (part[x] * n) * ONE
    BY <2>1, <2>2, <2>3, <2>4, <2>5, <2>6, <1>1
  <2>8. r * total \in Nat /\ part[x] * n \in Nat
    BY <2>2, <2>3
  <2>9. r * total <= part[x] * n
    BY <1>1, <2>7, <2>8, Cancel
  <2>10. share[x] = r
    BY DEF q, r
  <2> QED
    BY <2>2, <2>9, <2>10
<1> DEFINE A(U) == SumFunctionOnSet(share, U)
           B(U) == SumFunctionOnSet(part, U)
           C == {U \in SUBSET S : ~(A(U) * total <= B(U) * n)}
<1>3. ASSUME NEW U \in SUBSET S
      PROVE  A(U) \in Nat /\ B(U) \in Nat /\ IsFiniteSet(U)
  <2>1. IsFiniteSet(U) /\ \A x \in U : share[x] \in Nat /\ part[x] \in Nat
    BY <1>2, FS_Subset
  <2> QED
    BY <2>1, SumNatural
<1>4. ASSUME NEW U \in SUBSET S, NEW y \in U, A(U \ {y}) * total <= B(U \ {y}) * n
      PROVE  A(U) * total <= B(U) * n
  <2>1. A(U) = share[y] + A(U \ {y}) /\ B(U) = part[y] + B(U \ {y})
    BY <1>2, <1>3, SumTakeOut
  <2>2. U \ {y} \in SUBSET S /\ y \in S
    OBVIOUS
  <2>3. A(U \ {y}) \in Nat /\ B(U \ {y}) \in Nat /\ share[y] \in Nat /\ part[y] \in Nat
        /\ share[y] * total <= part[y] * n
    BY <1>2, <1>3, <2>2
  <2> HIDE DEF A, B
  <2>4. A(U) * total = share[y] * total + A(U \ {y}) * total
    BY <2>1, <2>3
  <2>5. B(U) * n = part[y] * n + B(U \ {y}) * n
    BY <2>1, <2>3
  <2>6. /\ share[y] * total \in Nat /\ A(U \ {y}) * total \in Nat
        /\ part[y] * n \in Nat /\ B(U \ {y}) * n \in Nat
    BY <2>3
  <2> QED
    BY <1>4, <2>3, <2>4, <2>5, <2>6
<1>5. A({}) * total <= B({}) * n
  BY SumEmpty
<1>6. A(S) * total <= B(S) * n
  <2>1. SUFFICES ASSUME C # {} PROVE FALSE
    OBVIOUS
  <2> HIDE DEF A, B
  <2>2. PICK U \in C : \A V \in C : V \subseteq U => V = U
    <3>1. C \in SUBSET (SUBSET S)
      OBVIOUS
    <3> HIDE DEF C
    <3> QED
      BY <2>1, <3>1, MinimalSubset
  <2>3. U # {} /\ U \in SUBSET S /\ ~(A(U) * total <= B(U) * n)
    BY <1>5
  <2>4. PICK y \in U : TRUE
    BY <2>3
  <2>5. U \ {y} \notin C /\ U \ {y} \in SUBSET S
    BY <2>2, <2>3, <2>4
  <2> QED
    BY <1>4, <2>3, <2>4, <2>5
<1>7. A(S) \in Nat /\ B(S) = total
  BY <1>3
<1> HIDE DEF A, B
<1>8. A(S) * total <= n * total
  BY <1>6, <1>7
<1>9. A(S) <= n
  BY <1>7, <1>8, Cancel
<1> QED
  BY <1>2, <1>7, <1>9 DEF A

-----------------------------------------------------------------------------
(* The oracle.                                                             *)

\* The owner gives XRD and the LSU pool's token no other market than at first.
InitialKept == \A id \in NewIdentifiers : id[1] \notin {Xrd, LsuLp}

\* No quote is so low that the value of the LSU pool's token is truncated to nothing.
QuotesPositive ==
  \A market \in Markets : \A t \in 0 .. MaxTime, u \in 0 .. MaxTime :
    Mul(Quote[market][t], LsuValue[u]) # 0

\* The multiplier is that of the time it was updated, and as long as InitialKept the two
\* resources that are priced with XRD have one market.
OracleGood(o) ==
  /\ DOMAIN o = {"identifiers", "maxPriceAge", "multiplier", "updated", "maxMultiplierAge"}
  /\ \A c \in DOMAIN o.identifiers : o.identifiers[c] \in Markets
  /\ {Xrd, LsuLp} \subseteq DOMAIN o.identifiers
  /\ InitialKept => o.identifiers[LsuLp] = o.identifiers[Xrd]
  /\ o.maxPriceAge \in Nat /\ o.maxMultiplierAge \in Nat
  /\ o.updated \in 0 .. now /\ o.multiplier = LsuValue[o.updated]

\* The price of some message for c that is young enough.
QuoteFor(o, c, price) ==
  \E market \in Markets : \E created \in 0 .. now :
    /\ InitialKept => market = o.identifiers[c]
    /\ created + o.maxPriceAge > now
    /\ price = Quote[market][created]

\* The price of c, by such a message and, for the LSU pool's token, a multiplier that is
\* young enough.
FreshPrice(o, c, price) ==
  IF c = LsuLp
  THEN \E base \in Nat \ {0} : \E t \in 0 .. now :
         /\ QuoteFor(o, c, base) /\ now <= t + o.maxMultiplierAge
         /\ price = Mul(base, LsuValue[t])
  ELSE QuoteFor(o, c, price)

\* The oracle's state between the messages of a batch, none of which it refused.
Checked(s) ==
  /\ DOMAIN s = {"valid", "oracle", "xrd", "prices"}
  /\ OracleGood(s.oracle)
  /\ s.oracle.identifiers = oracle.identifiers
  /\ s.oracle.maxPriceAge = oracle.maxPriceAge
  /\ s.oracle.maxMultiplierAge = oracle.maxMultiplierAge
  /\ s.xrd # NoPrice => QuoteFor(oracle, Xrd, s.xrd)
  /\ \A c \in DOMAIN s.prices : FreshPrice(oracle, c, s.prices[c])

\* A quote is a price.
LEMMA QuotePrice ==
  ASSUME NEW market \in Markets, now \in 0 .. MaxTime, NEW t \in 0 .. now
  PROVE  Quote[market][t] \in Nat \ {0} /\ LsuValue[t] \in Nat \ {0}
<1>1. t \in 0 .. MaxTime
  BY TimeAssumption
<1> QED
  BY <1>1, OracleAssumption

\* So is a fresh price.
LEMMA FreshPositive ==
  ASSUME now \in 0 .. MaxTime, QuotesPositive, NEW o, NEW c, NEW price, FreshPrice(o, c, price)
  PROVE  price \in Nat \ {0}
<1>1. ASSUME NEW base, QuoteFor(o, c, base)
      PROVE  /\ base \in Nat \ {0}
             /\ \A t \in 0 .. now : Mul(base, LsuValue[t]) \in Nat \ {0}
  <2>1. PICK market \in Markets : \E created \in 0 .. now : base = Quote[market][created]
    BY <1>1 DEF QuoteFor
  <2>2. PICK created \in 0 .. now : base = Quote[market][created]
    BY <2>1
  <2>3. base \in Nat \ {0}
    BY <2>2, QuotePrice
  <2>4. ASSUME NEW t \in 0 .. now
        PROVE  Mul(base, LsuValue[t]) \in Nat \ {0}
    <3>1. LsuValue[t] \in Nat \ {0} /\ t \in 0 .. MaxTime /\ created \in 0 .. MaxTime
      BY <2>1, QuotePrice, TimeAssumption
    <3>2. Mul(base, LsuValue[t]) \in Nat
      BY <2>3, <3>1, MulNat
    <3>3. Mul(base, LsuValue[t]) # 0
      BY <2>2, <3>1 DEF QuotesPositive
    <3> QED
      BY <3>2, <3>3
  <2> QED
    BY <2>3, <2>4
<1> QED
  BY <1>1 DEF FreshPrice

\* check_for_lsu_multiplier_update leaves a multiplier that is young enough.
LEMMA MultiplierUpdated ==
  ASSUME now \in 0 .. MaxTime, NEW o, OracleGood(o)
  PROVE  LET p == CheckForLsuMultiplierUpdate(o)
         IN  /\ OracleGood(p) /\ p.identifiers = o.identifiers
             /\ p.maxPriceAge = o.maxPriceAge /\ p.maxMultiplierAge = o.maxMultiplierAge
             /\ now <= p.updated + p.maxMultiplierAge
BY DEF OracleGood, CheckForLsuMultiplierUpdate, UpdatedMultiplier

\* A batch that was refused stays refused.
LEMMA StepValid ==
  ASSUME NEW s, NEW input, PriceStep(s, input).valid
  PROVE  s.valid
<1> DEFINE rest == LET c == input.collateral
                       derived == c \in {Xrd, LsuLp}
                       known == derived /\ s.xrd # NoPrice
                       o == IF c = LsuLp THEN CheckForLsuMultiplierUpdate(s.oracle) ELSE s.oracle
                   IN  known \/ CheckMessageValidity(o, c, input.message)
<1>1. PriceStep(s, input).valid = (s.valid /\ rest)
  BY DEF PriceStep
<1> HIDE DEF rest
<1> QED
  BY <1>1

\* One message of a batch.
LEMMA PriceStepChecked ==
  ASSUME now \in 0 .. MaxTime, OracleGood(oracle), NEW s, Checked(s), NEW c, NEW message,
         message.created \in 0 .. now,
         NEW t, t = PriceStep(s, [collateral |-> c, message |-> message]), t.valid
  PROVE  Checked(t) /\ s.valid
<1> DEFINE derived == c \in {Xrd, LsuLp}
           known == derived /\ s.xrd # NoPrice
           o == IF c = LsuLp THEN CheckForLsuMultiplierUpdate(s.oracle) ELSE s.oracle
           base == IF known THEN s.xrd ELSE Quote[message.market][message.created]
           price == IF c = LsuLp THEN Mul(base, o.multiplier) ELSE base
<1>1. /\ t = [valid |-> s.valid /\ (known \/ CheckMessageValidity(o, c, message)),
              oracle |-> o, xrd |-> IF derived THEN base ELSE s.xrd,
              prices |-> IF c \in DOMAIN s.prices THEN s.prices ELSE With(s.prices, c, price)]
  BY DEF PriceStep
<1>2. s.valid /\ (known \/ CheckMessageValidity(o, c, message))
  <2>1. t.valid = (s.valid /\ (known \/ CheckMessageValidity(o, c, message)))
    BY <1>1
  <2> HIDE DEF known
  <2> QED
    BY <2>1
<1>3. /\ OracleGood(o) /\ o.identifiers = oracle.identifiers
      /\ o.maxPriceAge = oracle.maxPriceAge /\ o.maxMultiplierAge = oracle.maxMultiplierAge
      /\ c = LsuLp => now <= o.updated + oracle.maxMultiplierAge
  BY MultiplierUpdated DEF Checked
<1> HIDE DEF o
<1>4. QuoteFor(oracle, c, base) /\ (derived => QuoteFor(oracle, Xrd, base))
  <2>1. derived /\ InitialKept => oracle.identifiers[c] = oracle.identifiers[Xrd]
    BY DEF OracleGood
  <2>2. CASE known
    BY <2>1, <2>2 DEF Checked, QuoteFor
  <2>3. CASE ~known
    <3>1. /\ c \in DOMAIN oracle.identifiers /\ oracle.identifiers[c] = message.market
          /\ message.created + oracle.maxPriceAge > now
      BY <1>2, <1>3, <2>3 DEF CheckMessageValidity
    <3>2. message.market \in Markets
      BY <3>1 DEF OracleGood
    <3>3. base = Quote[message.market][message.created]
      BY <2>3
    <3> HIDE DEF base, known, derived
    <3> QED
      BY <2>1, <3>1, <3>2, <3>3 DEF QuoteFor
  <2> QED
    BY <2>2, <2>3
<1>5. base \in Nat \ {0}
  BY <1>4, QuotePrice DEF QuoteFor
<1> HIDE DEF base, known
<1>6. FreshPrice(oracle, c, price)
  <2>1. CASE c = LsuLp
    <3>1. o.updated \in 0 .. now /\ o.multiplier = LsuValue[o.updated]
      BY <1>3 DEF OracleGood
    <3> QED
      BY <1>3, <1>4, <1>5, <2>1, <3>1 DEF FreshPrice
  <2>2. CASE c # LsuLp
    BY <1>4, <2>2 DEF FreshPrice
  <2> QED
    BY <2>1, <2>2
<1> HIDE DEF price
<1>7. \A x \in DOMAIN t.prices : FreshPrice(oracle, x, t.prices[x])
  <2>1. \A x \in DOMAIN s.prices : FreshPrice(oracle, x, s.prices[x])
    BY DEF Checked
  <2>2. CASE c \in DOMAIN s.prices
    BY <1>1, <2>1, <2>2
  <2>3. CASE c \notin DOMAIN s.prices
    <3>1. t.prices = With(s.prices, c, price)
      BY <1>1, <2>3
    <3> QED
      BY <1>6, <2>1, <2>3, <3>1 DEF With
  <2> QED
    BY <2>2, <2>3
<1>8. t.xrd # NoPrice => QuoteFor(oracle, Xrd, t.xrd)
  BY <1>1, <1>4 DEF Checked
<1>9. DOMAIN t = {"valid", "oracle", "xrd", "prices"} /\ t.oracle = o
  BY <1>1
<1> QED
  BY <1>2, <1>3, <1>7, <1>8, <1>9 DEF Checked

\* The recursion of check_price_inputs over the first n messages.
ChecksTo(inputs, n, r) ==
  r = [m \in 0 .. n |->
         IF m = 0 THEN [valid |-> TRUE, oracle |-> oracle, xrd |-> NoPrice, prices |-> <<>>]
                  ELSE PriceStep(r[m - 1], inputs[m])]

\* check_price_inputs is that recursion, unfolded.
LEMMA CheckedDef ==
  ASSUME NEW inputs
  PROVE  CheckPriceInputs(inputs)
           = (CHOOSE r : ChecksTo(inputs, Len(inputs), r))[Len(inputs)]
BY DEF CheckPriceInputs, ChecksTo

\* The recursion has a solution.
LEMMA ChecksExist ==
  ASSUME NEW inputs, NEW N \in Nat
  PROVE  \E r : ChecksTo(inputs, N, r)
<1> DEFINE C == {n \in 0 .. N : ~\E r : ChecksTo(inputs, n, r)}
<1>1. SUFFICES ASSUME C # {} PROVE FALSE
  OBVIOUS
<1>2. PICK n \in C : \A m \in C : n <= m
  <2>1. IsFiniteSet(0 .. N)
    BY FS_Interval
  <2>2. C \subseteq 0 .. N
    OBVIOUS
  <2>3. C \subseteq Nat
    BY <2>2
  <2> HIDE DEF C
  <2>4. IsFiniteSet(C)
    BY <2>1, <2>2, FS_Subset
  <2> QED
    BY <1>1, <2>3, <2>4, LeastExists
<1>3. n \in 0 .. N /\ ~\E r : ChecksTo(inputs, n, r)
  OBVIOUS
<1>4. n # 0
  <2> DEFINE start == [valid |-> TRUE, oracle |-> oracle, xrd |-> NoPrice, prices |-> <<>>]
             r == [m \in 0 .. 0 |-> start]
  <2>1. DOMAIN r = 0 .. 0 /\ \A m \in 0 .. 0 : m = 0 /\ r[m] = start
    OBVIOUS
  <2> HIDE DEF start
  <2>2. r = [m \in 0 .. 0 |-> IF m = 0 THEN start ELSE PriceStep(r[m - 1], inputs[m])]
    OBVIOUS
  <2>3. ChecksTo(inputs, 0, r)
    BY <2>2 DEF ChecksTo, start
  <2> QED
    BY <1>3, <2>3
<1>5. PICK q : ChecksTo(inputs, n - 1, q)
  <2>1. n - 1 \in 0 .. N /\ ~(n <= n - 1)
    BY <1>3, <1>4
  <2>2. n - 1 \notin C
    BY <1>2, <2>1
  <2> QED
    BY <2>1, <2>2
<1> DEFINE start == [valid |-> TRUE, oracle |-> oracle, xrd |-> NoPrice, prices |-> <<>>]
           next(p, m) == IF m = 0 THEN start ELSE PriceStep(p[m - 1], inputs[m])
           r == [m \in 0 .. n |-> IF m = n THEN PriceStep(q[n - 1], inputs[n]) ELSE q[m]]
<1>6. q = [m \in 0 .. n - 1 |-> next(q, m)]
  BY <1>5 DEF ChecksTo
<1>7. ASSUME NEW m \in 0 .. n PROVE r[m] = next(r, m)
  <2>1. CASE m = n
    <3>1. m - 1 \in 0 .. n /\ m - 1 # n /\ m # 0
      BY <1>3, <1>4, <2>1
    <3>2. r[m - 1] = q[n - 1]
      BY <2>1, <3>1
    <3> QED
      BY <2>1, <3>1, <3>2
  <2>2. CASE m # n
    <3>1. m \in 0 .. n - 1 /\ (m # 0 => m - 1 \in 0 .. n /\ m - 1 # n)
      BY <1>3, <2>2
    <3>2. r[m] = q[m] /\ q[m] = next(q, m)
      BY <1>6, <2>2, <3>1
    <3>3. m # 0 => r[m - 1] = q[m - 1]
      BY <3>1
    <3> QED
      BY <3>2, <3>3
  <2> QED
    BY <2>1, <2>2
<1>8. ChecksTo(inputs, n, r)
  <2>1. r = [m \in 0 .. n |-> r[m]]
    OBVIOUS
  <2> HIDE DEF r
  <2>2. r = [m \in 0 .. n |-> next(r, m)]
    BY <1>7, <2>1
  <2> QED
    BY <2>2 DEF ChecksTo
<1> QED
  BY <1>3, <1>8

\* The messages of a batch.
IsBatch(inputs) ==
  /\ Len(inputs) \in Nat
  /\ \A n \in 1 .. Len(inputs) : \E c, message :
       inputs[n] = [collateral |-> c, message |-> message] /\ message.created \in 0 .. now

\* A batch that is accepted leaves fresh prices, and of the oracle only its multiplier
\* changes.
LEMMA BatchChecked ==
  ASSUME now \in 0 .. MaxTime, OracleGood(oracle), NEW inputs, IsBatch(inputs),
         CheckPriceInputs(inputs).valid
  PROVE  Checked(CheckPriceInputs(inputs))
<1> DEFINE N == Len(inputs)
           start == [valid |-> TRUE, oracle |-> oracle, xrd |-> NoPrice, prices |-> <<>>]
<1>1. N \in Nat
  BY DEF IsBatch
<1>2. PICK r : ChecksTo(inputs, N, r) /\ CheckPriceInputs(inputs) = r[N]
  BY <1>1, CheckedDef, ChecksExist
<1> DEFINE C == {n \in 0 .. N : ~(r[n].valid => Checked(r[n]))}
<1>3. \A n \in 0 .. N : r[n] = IF n = 0 THEN start ELSE PriceStep(r[n - 1], inputs[n])
  BY <1>2 DEF ChecksTo
<1> HIDE DEF N
<1>4. SUFFICES ASSUME C # {} PROVE FALSE
  <2>1. N \in 0 .. N
    BY <1>1
  <2> QED
    BY <1>2, <1>4, <2>1
<1>5. PICK n \in C : \A m \in C : n <= m
  <2>1. IsFiniteSet(0 .. N)
    BY <1>1, FS_Interval
  <2>2. C \subseteq 0 .. N
    OBVIOUS
  <2>3. C \subseteq Nat
    BY <2>2
  <2> HIDE DEF C
  <2>4. IsFiniteSet(C)
    BY <2>1, <2>2, FS_Subset
  <2> QED
    BY <1>4, <2>3, <2>4, LeastExists
<1>6. n \in 0 .. N /\ r[n].valid /\ ~Checked(r[n])
  OBVIOUS
<1>7. n # 0
  <2>1. DOMAIN start.prices = {} /\ start.oracle = oracle /\ start.xrd = NoPrice
        /\ DOMAIN start = {"valid", "oracle", "xrd", "prices"}
    OBVIOUS
  <2> HIDE DEF start
  <2>2. Checked(start)
    BY <2>1 DEF Checked
  <2> QED
    BY <1>3, <1>6, <2>2
<1>8. n - 1 \in 0 .. N /\ ~(n <= n - 1) /\ n \in 1 .. N
  BY <1>1, <1>6, <1>7
<1>9. r[n - 1].valid => Checked(r[n - 1])
  <2>1. n - 1 \notin C
    BY <1>5, <1>8
  <2> QED
    BY <1>8, <2>1
<1>10. PICK c, message : inputs[n] = [collateral |-> c, message |-> message]
                         /\ message.created \in 0 .. now
  BY <1>8 DEF IsBatch, N
<1>11. r[n] = PriceStep(r[n - 1], [collateral |-> c, message |-> message])
  BY <1>3, <1>6, <1>7, <1>10
<1>12. r[n - 1].valid
  BY <1>6, <1>11, StepValid
<1> QED
  BY <1>6, <1>9, <1>10, <1>11, <1>12, PriceStepChecked

\* The price that a call about one collateral brings.
LEMMA PriceChecked ==
  ASSUME now \in 0 .. MaxTime, OracleGood(oracle), NEW c, NEW message,
         message.created \in 0 .. now, CheckPriceInput(c, message).valid
  PROVE  Checked(CheckPriceInput(c, message)) /\ c \in DOMAIN CheckPriceInput(c, message).prices
<1> DEFINE inputs == <<[collateral |-> c, message |-> message]>>
           start == [valid |-> TRUE, oracle |-> oracle, xrd |-> NoPrice, prices |-> <<>>]
<1>1. Len(inputs) = 1 /\ inputs[1] = [collateral |-> c, message |-> message]
  OBVIOUS
<1> HIDE DEF inputs
<1>2. IsBatch(inputs)
  BY <1>1 DEF IsBatch
<1>3. CheckPriceInput(c, message) = CheckPriceInputs(inputs)
  BY DEF CheckPriceInput, inputs
<1>4. PICK r : ChecksTo(inputs, 1, r) /\ CheckPriceInputs(inputs) = r[1]
  BY <1>1, CheckedDef, ChecksExist
<1>5. r[1] = PriceStep(r[0], inputs[1])
  <2>1. \A m \in 0 .. 1 : r[m] = IF m = 0 THEN start ELSE PriceStep(r[m - 1], inputs[m])
    BY <1>4 DEF ChecksTo
  <2>2. 1 \in 0 .. 1 /\ 1 # 0 /\ 1 - 1 = 0
    OBVIOUS
  <2> HIDE DEF start
  <2> QED
    BY <2>1, <2>2
<1>6. c \in DOMAIN PriceStep(r[0], inputs[1]).prices
  BY <1>1 DEF PriceStep, With
<1> QED
  BY <1>2, <1>3, <1>4, <1>5, <1>6, BatchChecked

-----------------------------------------------------------------------------
(* The order of redemption.                                                *)

\* A finite set with a strict order that leaves no two of it unordered has a last element.
LEMMA LastExists ==
  ASSUME NEW S, IsFiniteSet(S), S # {}, NEW R,
         \A a, b \in S : a # b => <<a, b>> \in R \/ <<b, a>> \in R,
         \A a, b, c \in S : <<a, b>> \in R /\ <<b, c>> \in R => <<a, c>> \in R
  PROVE  \E last \in S : \A a \in S \ {last} : <<a, last>> \in R
<1> DEFINE Last(U, g) == \A a \in U \ {g} : <<a, g>> \in R
           C == {U \in SUBSET S : U # {} /\ ~\E g \in U : Last(U, g)}
<1>1. SUFFICES ASSUME C # {} PROVE FALSE
  OBVIOUS
<1>2. PICK U \in C : \A V \in C : V \subseteq U => V = U
  <2>1. C \in SUBSET (SUBSET S)
    OBVIOUS
  <2> HIDE DEF C
  <2> QED
    BY <1>1, <2>1, MinimalSubset
<1>3. U \subseteq S /\ U # {} /\ ~\E g \in U : Last(U, g)
  OBVIOUS
<1>4. PICK y \in U : TRUE
  BY <1>3
<1>5. U \ {y} # {}
  BY <1>3, <1>4
<1>6. PICK g \in U \ {y} : Last(U \ {y}, g)
  <2>1. U \ {y} \notin C
    <3>1. U \ {y} # U /\ U \ {y} \subseteq U
      BY <1>4
    <3> HIDE DEF C
    <3> QED
      BY <1>2, <3>1
  <2> QED
    BY <1>3, <1>5, <2>1
<1>7. CASE <<y, g>> \in R
  <2>1. Last(U, g)
    BY <1>6, <1>7
  <2> QED
    BY <1>3, <1>6, <2>1
<1>8. CASE <<g, y>> \in R
  <2>1. ASSUME NEW a \in U \ {y} PROVE <<a, y>> \in R
    <3>1. a = g \/ <<a, g>> \in R
      BY <1>6, <2>1
    <3> QED
      BY <1>3, <1>4, <1>6, <1>8, <2>1, <3>1
  <2>2. Last(U, y)
    BY <2>1
  <2> QED
    BY <1>3, <1>4, <2>2
<1> QED
  BY <1>3, <1>4, <1>6, <1>7, <1>8

\* So all of it can be put in that order.
LEMMA OrderExists ==
  ASSUME NEW S, IsFiniteSet(S), NEW R,
         \A a, b \in S : a # b => <<a, b>> \in R \/ <<b, a>> \in R,
         \A a, b, c \in S : <<a, b>> \in R /\ <<b, c>> \in R => <<a, c>> \in R
  PROVE  \E ids \in [1 .. Cardinality(S) -> S] :
           \A m, n \in 1 .. Cardinality(S) : m < n => <<ids[m], ids[n]>> \in R
<1> DEFINE Sorted(U, n, ids) == /\ ids \in [1 .. n -> U]
                                /\ \A l, m \in 1 .. n : l < m => <<ids[l], ids[m]>> \in R
           C == {U \in SUBSET S : ~\E ids : Sorted(U, Cardinality(U), ids)}
<1>1. SUFFICES ASSUME C # {} PROVE FALSE
  <2>1. S \notin C
    BY <1>1
  <2> QED
    BY <2>1
<1>2. PICK U \in C : \A V \in C : V \subseteq U => V = U
  <2>1. C \in SUBSET (SUBSET S)
    OBVIOUS
  <2> HIDE DEF C
  <2> QED
    BY <1>1, <2>1, MinimalSubset
<1>3. U \subseteq S /\ ~\E ids : Sorted(U, Cardinality(U), ids)
  OBVIOUS
<1>4. IsFiniteSet(U)
  BY <1>3, FS_Subset
<1>5. U # {}
  <2>1. SUFFICES ASSUME U = {} PROVE FALSE
    OBVIOUS
  <2>2. Cardinality(U) = 0
    BY <2>1, FS_EmptySet
  <2> DEFINE ids == [n \in 1 .. 0 |-> n]
  <2>3. Sorted(U, 0, ids)
    OBVIOUS
  <2> HIDE DEF ids
  <2> QED
    BY <1>3, <2>2, <2>3
<1>6. PICK g \in U : \A a \in U \ {g} : <<a, g>> \in R
  BY <1>3, <1>4, <1>5, LastExists
<1> DEFINE n == Cardinality(U \ {g})
<1>7. n \in Nat /\ Cardinality(U) = n + 1
  <2>1. Cardinality(U) = Cardinality(U \ {g}) + 1 /\ IsFiniteSet(U \ {g})
    <3>1. IsFiniteSet(U \ {g}) /\ Cardinality(U \ {g}) = Cardinality(U) - 1 /\ Cardinality(U) \in Nat
      BY <1>4, FS_RemoveElement, FS_CardinalityType
    <3> QED
      BY <3>1
  <2> QED
    BY <2>1, FS_CardinalityType
<1>8. PICK q : Sorted(U \ {g}, n, q)
  <2>1. U \ {g} \notin C /\ U \ {g} \in SUBSET S
    BY <1>2, <1>3, <1>6
  <2> QED
    BY <2>1
<1> HIDE DEF n
<1> DEFINE ids == [m \in 1 .. n + 1 |-> IF m = n + 1 THEN g ELSE q[m]]
<1>9. ASSUME NEW m \in 1 .. n
      PROVE  m \in 1 .. n + 1 /\ ids[m] = q[m] /\ q[m] \in U \ {g}
  BY <1>7, <1>8
<1>10. n + 1 \in 1 .. n + 1 /\ ids[n + 1] = g
  BY <1>7
<1>11. ids \in [1 .. n + 1 -> U]
  <2>1. ASSUME NEW m \in 1 .. n + 1 PROVE (IF m = n + 1 THEN g ELSE q[m]) \in U
    <3>1. m # n + 1 => m \in 1 .. n
      BY <1>7
    <3> QED
      BY <1>9, <3>1
  <2> QED
    BY <2>1
<1> HIDE DEF ids
<1>12. ASSUME NEW l \in 1 .. n + 1, NEW m \in 1 .. n + 1, l < m
       PROVE  <<ids[l], ids[m]>> \in R
  <2>1. l \in 1 .. n
    BY <1>7, <1>12
  <2>2. CASE m = n + 1
    BY <1>6, <1>9, <1>10, <2>1, <2>2
  <2>3. CASE m # n + 1
    <3>1. m \in 1 .. n
      BY <1>7, <2>3
    <3> QED
      BY <1>8, <1>9, <1>12, <2>1, <3>1
  <2> QED
    BY <2>2, <2>3
<1>13. Sorted(U, n + 1, ids)
  BY <1>11, <1>12
<1> QED
  BY <1>3, <1>7, <1>13

\* The loans of a collateral that redemption may come to, and its order on them.
OpenOf(f, c) == {id \in DOMAIN f.cdps : Active(f.cdps[id]) /\ f.cdps[id].collateral = c}
Order(f, c) == {p \in OpenOf(f, c) \X OpenOf(f, c) : Before(f, p[1], p[2])}

\* What Before compares: interest, ratio and place in the vector.
Place(f, id, n) ==
  LET d == f.cdps[id]
      vector == f.ratios[Tier(d)][d.ratio]
  IN  n \in DOMAIN vector /\ vector[n] = id
PlacedBefore(d, e, m, n) ==
  \/ d.interest >= 0 /\ (e.interest < 0 \/ d.interest < e.interest)
  \/ d.interest = e.interest /\ d.ratio < e.ratio
  \/ d.interest = e.interest /\ d.ratio = e.ratio /\ m < n

\* Every open loan has one place in its vector.
LEMMA PlaceExists ==
  ASSUME NEW f, StateOK(f), NEW id \in DOMAIN f.cdps, Active(f.cdps[id])
  PROVE  /\ \E n \in Nat : Place(f, id, n)
         /\ \A m, n : Place(f, id, m) /\ Place(f, id, n) => m = n /\ m \in Nat
<1> DEFINE d == f.cdps[id]
           vector == f.ratios[Tier(d)][d.ratio]
<1>1. InIndex(f, id) /\ Tier(d) \in Tiers
  BY SMTT(30), LoanTyped DEF StateOK, LoansIndexed
<1>2. d.ratio \in DOMAIN f.ratios[Tier(d)] /\ \E n \in 1 .. Len(vector) : vector[n] = id
  BY <1>1 DEF InIndex
<1>3. VectorOK(f, Tier(d), d.ratio)
  BY SMTT(30), <1>1, <1>2 DEF StateOK, VectorsOK
<1>4. vector \in Seq(DOMAIN f.cdps) /\ Distinct(vector)
  BY <1>3 DEF VectorOK
<1> HIDE DEF d
<1>5. \A n : Place(f, id, n) <=> n \in 1 .. Len(vector) /\ vector[n] = id
  <2>1. DOMAIN vector = 1 .. Len(vector)
    BY <1>4
  <2> HIDE DEF vector
  <2>2. \A n : Place(f, id, n) <=> n \in DOMAIN vector /\ vector[n] = id
    BY DEF Place, vector, d
  <2> QED
    BY <2>1, <2>2
<1> HIDE DEF vector
<1> QED
  BY <1>2, <1>4, <1>5 DEF Distinct

\* Between loans of one collateral, whose places are these, Before compares just that.
LEMMA BeforeMeans ==
  ASSUME NEW f, StateOK(f), NEW c, NEW a \in OpenOf(f, c), NEW b \in OpenOf(f, c),
         NEW m, NEW n, Place(f, a, m), Place(f, b, n)
  PROVE  Before(f, a, b) <=> PlacedBefore(f.cdps[a], f.cdps[b], m, n)
<1> DEFINE d == f.cdps[a]
           e == f.cdps[b]
           vector == f.ratios[Tier(d)][d.ratio]
<1>1. /\ a \in DOMAIN f.cdps /\ Active(d) /\ d.collateral = c
      /\ b \in DOMAIN f.cdps /\ Active(e) /\ e.collateral = c
  BY DEF OpenOf
<1>2. ASSUME d.interest = e.interest, d.ratio = e.ratio
      PROVE  (\E x, y \in DOMAIN vector : x < y /\ vector[x] = a /\ vector[y] = b) <=> m < n
  <2>1. vector = f.ratios[Tier(e)][e.ratio]
    BY <1>1, <1>2 DEF Tier
  <2>2. \A x : Place(f, a, x) <=> x \in DOMAIN vector /\ vector[x] = a
    BY DEF Place
  <2>3. \A x : Place(f, b, x) <=> x \in DOMAIN vector /\ vector[x] = b
    BY <2>1 DEF Place
  <2>4. \A x : (Place(f, a, x) => x = m) /\ (Place(f, b, x) => x = n)
    BY <1>1, PlaceExists
  <2> HIDE DEF vector, d, e
  <2> QED
    BY <2>2, <2>3, <2>4
<1>3. Before(f, a, b) <=>
        \/ d.interest >= 0 /\ (e.interest < 0 \/ d.interest < e.interest)
        \/ d.interest = e.interest /\ d.ratio < e.ratio
        \/ /\ d.interest = e.interest /\ d.ratio = e.ratio
           /\ \E x, y \in DOMAIN vector : x < y /\ vector[x] = a /\ vector[y] = b
  BY DEF Before
<1> HIDE DEF vector, d, e
<1>4. PlacedBefore(d, e, m, n) <=>
        \/ d.interest >= 0 /\ (e.interest < 0 \/ d.interest < e.interest)
        \/ d.interest = e.interest /\ d.ratio < e.ratio
        \/ d.interest = e.interest /\ d.ratio = e.ratio /\ m < n
  BY DEF PlacedBefore
<1>5. Before(f, a, b) <=> PlacedBefore(d, e, m, n)
  BY <1>2, <1>3, <1>4
<1> QED
  BY <1>5 DEF d, e

\* The numbers it compares.
LEMMA PlacedTyped ==
  ASSUME NEW f, StateOK(f), NEW c, NEW id \in OpenOf(f, c)
  PROVE  /\ f.cdps[id].interest \in Int /\ f.cdps[id].ratio \in Int
         /\ f.cdps[id].interest < 0 => f.cdps[id].interest = Irredeemable
         /\ \E n \in Nat : Place(f, id, n)
<1>1. id \in DOMAIN f.cdps /\ Active(f.cdps[id])
  BY DEF OpenOf
<1>2. f.cdps[id].interest \in Interests /\ f.cdps[id].ratio \in Int
  BY <1>1, LoanTyped DEF Cdp
<1>3. Irredeemable \in Int /\ \A x \in Rates : x \in Nat
  BY DecimalAssumption, RatesAssumption DEF Irredeemable
<1> QED
  BY <1>1, <1>2, <1>3, PlaceExists DEF Interests

\* There is one order in which redemption comes to the loans of a collateral.
LEMMA OrderOfLoans ==
  ASSUME NEW f, StateOK(f), NEW c
  PROVE  LET open == OpenOf(f, c)
         IN  /\ IsFiniteSet(open) /\ Cardinality(open) \in Nat
             /\ \E ids \in [1 .. Cardinality(open) -> open] :
                  \A m, n \in DOMAIN ids : m < n => Before(f, ids[m], ids[n])
<1> DEFINE open == OpenOf(f, c)
           R == Order(f, c)
<1>1. IsFiniteSet(open)
  <2>1. f.cdpCounter \in Int /\ DOMAIN f.cdps \subseteq 1 .. f.cdpCounter
    BY DEF StateOK, WellTyped
  <2>2. open \subseteq 1 .. f.cdpCounter
    BY <2>1 DEF OpenOf
  <2>3. IsFiniteSet(1 .. f.cdpCounter)
    BY <2>1, FS_Interval
  <2> HIDE DEF open
  <2> QED
    BY <2>2, <2>3, FS_Subset
<1>2. \A a, b \in open : <<a, b>> \in R <=> Before(f, a, b)
  BY DEF Order
<1> HIDE DEF R
<1>3. ASSUME NEW a \in open, NEW b \in open, a # b
      PROVE  <<a, b>> \in R \/ <<b, a>> \in R
  <2> DEFINE d == f.cdps[a]
             e == f.cdps[b]
  <2>1. PICK m \in Nat : Place(f, a, m)
    BY PlacedTyped
  <2>2. PICK n \in Nat : Place(f, b, n)
    BY SMTT(30), PlacedTyped
  <2>3. d.interest = e.interest /\ d.ratio = e.ratio => m # n
    <3>1. a \in DOMAIN f.cdps /\ b \in DOMAIN f.cdps /\ d.collateral = c /\ e.collateral = c
      BY DEF OpenOf
    <3> QED
      BY <1>3, <2>1, <2>2, <3>1 DEF Place, Tier
  <2>4. /\ d.interest \in Int /\ d.ratio \in Int /\ e.interest \in Int /\ e.ratio \in Int
        /\ d.interest < 0 /\ e.interest < 0 => d.interest = e.interest
    BY PlacedTyped
  <2> HIDE DEF d, e
  <2>5. PlacedBefore(d, e, m, n) \/ PlacedBefore(e, d, n, m)
    BY <2>3, <2>4 DEF PlacedBefore
  <2> QED
    BY <1>2, <2>1, <2>2, <2>5, BeforeMeans DEF d, e
<1>4. ASSUME NEW a \in open, NEW b \in open, NEW x \in open, <<a, b>> \in R, <<b, x>> \in R
      PROVE  <<a, x>> \in R
  <2> DEFINE d == f.cdps[a]
             e == f.cdps[b]
             g == f.cdps[x]
  <2>1. PICK m \in Nat : Place(f, a, m)
    BY PlacedTyped
  <2>2. PICK n \in Nat : Place(f, b, n)
    BY PlacedTyped
  <2>3. PICK l \in Nat : Place(f, x, l)
    BY PlacedTyped
  <2>4. PlacedBefore(d, e, m, n) /\ PlacedBefore(e, g, n, l)
    BY <1>2, <1>4, <2>1, <2>2, <2>3, BeforeMeans
  <2>5. /\ d.interest \in Int /\ d.ratio \in Int /\ e.interest \in Int /\ e.ratio \in Int
        /\ g.interest \in Int /\ g.ratio \in Int
    BY PlacedTyped
  <2> HIDE DEF d, e, g
  <2>6. PlacedBefore(d, g, m, l)
    BY <2>4, <2>5 DEF PlacedBefore
  <2> QED
    BY <1>2, <2>1, <2>3, <2>6, BeforeMeans DEF d, g
<1> HIDE DEF open
<1>5. PICK ids \in [1 .. Cardinality(open) -> open] :
        \A m, n \in 1 .. Cardinality(open) : m < n => <<ids[m], ids[n]>> \in R
  BY <1>1, <1>3, <1>4, OrderExists
<1>6. \A m, n \in DOMAIN ids : m < n => Before(f, ids[m], ids[n])
  BY <1>2, <1>5
<1>7. Cardinality(open) \in Nat
  BY <1>1, FS_CardinalityType
<1> QED
  BY <1>1, <1>6, <1>7 DEF open

\* get_next_redemptions returns debts, which are not negative.
LEMMA NextRedemptionsTyped ==
  ASSUME NEW f, Fit(f), NEW c, NEW amount \in Nat
  PROVE  NextRedemptions(f, c, amount) \in Seq(Nat)
<1> DEFINE open == OpenOf(f, c)
           InOrder(ids) == \A m, n \in DOMAIN ids : m < n => Before(f, ids[m], ids[n])
           ids == CHOOSE ids \in [1 .. Cardinality(open) -> open] : InOrder(ids)
           debt(id) == LET k == Tier(f.cdps[id])
                       IN  Mul(f.cdps[id].pool, Div(f.tiers[k].real, f.tiers[k].pool))
           length == Lesser(Cardinality(open), amount)
<1>1. StateOK(f)
  BY DEF Fit, Ready
<1>2. Cardinality(open) \in Nat /\ ids \in [1 .. Cardinality(open) -> open]
  <2>1. Cardinality(open) \in Nat /\ \E p \in [1 .. Cardinality(open) -> open] : InOrder(p)
    BY <1>1, OrderOfLoans
  <2> HIDE DEF open, InOrder
  <2> QED
    BY <2>1
<1>3. NextRedemptions(f, c, amount) = [n \in 1 .. length |-> debt(ids[n])]
  BY DEF NextRedemptions, OpenOf
<1>4. length \in Nat /\ length <= Cardinality(open)
  BY <1>2 DEF Lesser
<1>5. ASSUME NEW id \in open PROVE debt(id) \in Nat
  <2> DEFINE k == Tier(f.cdps[id])
  <2>1. id \in DOMAIN f.cdps /\ Active(f.cdps[id])
    BY DEF OpenOf
  <2>2. k \in Tiers /\ k \in DOMAIN f.tiers /\ f.cdps[id].pool \in Nat
    BY <2>1, OpenFacts
  <2>3. /\ PoolOf(f, k) \in Nat \ {0} /\ RealOf(f, k) \in Nat
    BY <1>1, <2>2, TierFacts DEF Fit, Ready
  <2>4. f.tiers[k].pool \in Nat \ {0} /\ f.tiers[k].real \in Nat
    BY <2>2, <2>3 DEF PoolOf, RealOf
  <2> HIDE DEF k
  <2>5. Div(f.tiers[k].real, f.tiers[k].pool) \in Nat
    BY <2>4, DivNat
  <2> QED
    BY <2>2, <2>5, MulNat DEF k
<1> HIDE DEF open, ids, debt, length
<1>6. ASSUME NEW n \in 1 .. length PROVE debt(ids[n]) \in Nat
  <2>1. n \in 1 .. Cardinality(open)
    BY <1>2, <1>4
  <2> QED
    BY <1>2, <1>5, <2>1
<1> QED
  BY <1>3, <1>4, <1>6

-----------------------------------------------------------------------------
(* What the calls of a route make of Flux.                                 *)

\* The same prices and fees.
Kin(f, g) ==
  /\ DOMAIN g = Fields /\ DOMAIN g.collaterals = DOMAIN f.collaterals
  /\ \A c \in DOMAIN f.collaterals :
       /\ DOMAIN g.collaterals[c] = InfoFields
       /\ g.collaterals[c].price = f.collaterals[c].price
       /\ g.collaterals[c].uncharged = f.collaterals[c].uncharged

\* A helper that leaves collaterals alone.
LEMMA KinSame ==
  ASSUME NEW f, NEW g, NEW h, Kin(f, g), DOMAIN h = Fields, h.collaterals = g.collaterals
  PROVE  Kin(f, h)
BY DEF Kin

\* The helpers of a redemption that leave collaterals alone.
LEMMA KinTiers ==
  ASSUME NEW f, NEW g, Kin(f, g), NEW k, NEW amount
  PROVE  /\ Kin(f, InsertInterestInfoIfAbsent(g, k)) /\ Kin(f, LeaveTier(g, k, amount))
         /\ Kin(f, UnmintFusd(g, k, amount)) /\ Kin(f, CleanUpInterestInfo(g, k))
<1>1. DOMAIN g = Fields
  BY DEF Kin
<1>2. Kin(f, InsertInterestInfoIfAbsent(g, k))
  <2>1. DOMAIN InsertInterestInfoIfAbsent(g, k) = Fields
        /\ InsertInterestInfoIfAbsent(g, k).collaterals = g.collaterals
    BY <1>1 DEF InsertInterestInfoIfAbsent, Fields
  <2> QED
    BY <2>1, KinSame
<1>3. Kin(f, LeaveTier(g, k, amount))
  <2>1. /\ DOMAIN LeaveTier(g, k, amount) = Fields
        /\ LeaveTier(g, k, amount).collaterals = g.collaterals
    BY <1>1 DEF LeaveTier, Fields
  <2> QED
    BY <2>1, KinSame
<1>4. Kin(f, UnmintFusd(g, k, amount))
  <2> DEFINE h == LeaveTier(g, k, amount)
  <2>1. DOMAIN h = Fields
    BY <1>3 DEF Kin
  <2>2. UnmintFusd(g, k, amount) = [h EXCEPT !.circulating = @ - amount]
    BY DEF UnmintFusd
  <2> HIDE DEF h
  <2>3. /\ DOMAIN UnmintFusd(g, k, amount) = Fields
        /\ UnmintFusd(g, k, amount).collaterals = h.collaterals
    BY <2>1, <2>2 DEF Fields
  <2> QED
    BY <1>3, <2>3, KinSame DEF h
<1>5. Kin(f, CleanUpInterestInfo(g, k))
  <2>1. /\ DOMAIN CleanUpInterestInfo(g, k) = Fields
        /\ CleanUpInterestInfo(g, k).collaterals = g.collaterals
    BY <1>1 DEF CleanUpInterestInfo, Fields
  <2> QED
    BY <2>1, KinSame
<1> QED
  BY <1>2, <1>3, <1>4, <1>5

\* Those that move debt or collateral of one collateral.
LEMMA KinCoins ==
  ASSUME NEW f, NEW g, Kin(f, g), NEW k, NEW amount
  PROVE  /\ Kin(f, RemoveDebt(g, k, amount)) /\ Kin(f, TakeCollateral(g, k, amount))
         /\ Kin(f, PutCollateral(g, k, amount)) /\ Kin(f, PutInLeftovers(g, k, amount))
<1>1. /\ DOMAIN g = Fields /\ DOMAIN g.collaterals = DOMAIN f.collaterals
      /\ \A c \in DOMAIN g.collaterals : DOMAIN g.collaterals[c] = InfoFields
  BY DEF Kin
<1>2. Kin(f, RemoveDebt(g, k, amount))
  BY <1>1 DEF RemoveDebt, Kin, Fields, InfoFields
<1>3. Kin(f, TakeCollateral(g, k, amount))
  BY <1>1 DEF TakeCollateral, Kin, Fields, InfoFields
<1>4. Kin(f, PutCollateral(g, k, amount))
  <2> DEFINE h == InsertInterestInfoIfAbsent(g, k)
             p == [h EXCEPT !.tiers[k].coll = @ + amount,
                            !.collaterals[k[1]].amount = @ + amount,
                            !.collaterals[k[1]].vault = @ + amount]
  <2>1. Kin(f, h)
    BY KinTiers
  <2>2. PutCollateral(g, k, amount) = p
    BY DEF PutCollateral
  <2> HIDE DEF h
  <2>3. Kin(f, p)
    BY <2>1 DEF Kin, Fields, InfoFields
  <2> QED
    BY <2>2, <2>3
<1>5. Kin(f, PutInLeftovers(g, k, amount))
  BY <1>1 DEF PutInLeftovers, Kin, Fields, InfoFields
<1> QED
  BY <1>2, <1>3, <1>4, <1>5

\* Those that open a loan.
LEMMA KinOpening ==
  ASSUME NEW f, NEW g, Kin(f, g), NEW k, NEW cr, NEW id, NEW amount
  PROVE  /\ Kin(f, AddDebt(g, k, amount)) /\ Kin(f, MintFusd(g, k, amount))
         /\ Kin(f, InsertCr(g, k, cr, id))
<1> DEFINE p == InsertInterestInfoIfAbsent(g, k)
<1>1. Kin(f, p)
  BY KinTiers
<1>2. DOMAIN p = Fields
  BY <1>1 DEF Kin
<1>3. InsertCr(g, k, cr, id) = [p EXCEPT !.ratios[k] = With(@, cr, Append(@[cr], id))]
      \/ InsertCr(g, k, cr, id) = [p EXCEPT !.ratios[k] = With(@, cr, <<id>>),
                                            !.tiers[k].crs = @ + 1]
  BY DEF InsertCr
<1>4. \E n : MintFusd(g, k, amount)
               = [p EXCEPT !.tiers[k].pool = @ + amount, !.tiers[k].real = @ + n,
                           !.circulating = @ + n]
  BY DEF MintFusd
<1> HIDE DEF p
<1>5. Kin(f, InsertCr(g, k, cr, id))
  <2>1. DOMAIN InsertCr(g, k, cr, id) = Fields /\ InsertCr(g, k, cr, id).collaterals = p.collaterals
    BY <1>2, <1>3 DEF Fields
  <2> QED
    BY <1>1, <2>1, KinSame
<1>6. Kin(f, MintFusd(g, k, amount))
  <2>1. DOMAIN MintFusd(g, k, amount) = Fields /\ MintFusd(g, k, amount).collaterals = p.collaterals
    BY <1>2, <1>4 DEF Fields
  <2> QED
    BY <1>1, <2>1, KinSame
<1>7. Kin(f, AddDebt(g, k, amount))
  BY DEF AddDebt, Kin, Fields, InfoFields
<1> QED
  BY <1>5, <1>6, <1>7

\* Those that change the index, a loan or its link.
LEMMA KinLoans ==
  ASSUME NEW f, NEW g, Kin(f, g), NEW id, NEW i, NEW amount, NEW pool, NEW status
  PROVE  /\ Kin(f, Relist(g, id, i, amount, pool)) /\ Kin(f, Delist(g, id, status, amount))
         /\ Kin(f, UnlinkIfLinked(g, id))
<1>1. ASSUME NEW h, Kin(f, h), NEW k, NEW cr PROVE Kin(f, RemoveCr(h, k, cr, id))
  <2>1. DOMAIN h = Fields
    BY <1>1 DEF Kin
  <2>2. /\ DOMAIN RemoveCr(h, k, cr, id) = Fields
        /\ RemoveCr(h, k, cr, id).collaterals = h.collaterals
    BY <2>1 DEF RemoveCr, Fields
  <2> QED
    BY <1>1, <2>2, KinSame
<1>2. ASSUME NEW h, Kin(f, h), NEW k, NEW cr PROVE Kin(f, InsertCr(h, k, cr, id))
  BY <1>2, KinOpening
<1>3. ASSUME NEW h, Kin(f, h), NEW e PROVE Kin(f, [h EXCEPT !.cdps[id] = e])
  BY <1>3, KinSame DEF Kin, Fields
<1>4. Kin(f, Relist(g, id, i, amount, pool))
  <2> DEFINE d == g.cdps[id]
             cr == Div(amount, pool)
             h == InsertCr(RemoveCr(g, Tier(d), d.ratio, id), <<d.collateral, i>>, cr, id)
             e == [d EXCEPT !.interest = i, !.ratio = cr, !.amount = amount, !.pool = pool]
  <2>1. Relist(g, id, i, amount, pool) = [h EXCEPT !.cdps[id] = e]
    BY DEF Relist
  <2>2. Kin(f, h)
    BY <1>1, <1>2
  <2> HIDE DEF h, e
  <2> QED
    BY <1>3, <2>1, <2>2
<1>5. Kin(f, Delist(g, id, status, amount))
  <2> DEFINE d == g.cdps[id]
             h == RemoveCr(g, Tier(d), d.ratio, id)
             e == [d EXCEPT !.status = status, !.pool = 0, !.amount = amount]
             p == [h EXCEPT !.cdps[id] = e]
  <2>1. Delist(g, id, status, amount) = CleanUpInterestInfo(p, Tier(d))
    BY DEF Delist
  <2>2. Kin(f, h)
    BY <1>1
  <2> HIDE DEF h, e
  <2>3. Kin(f, p)
    BY <1>3, <2>2
  <2> HIDE DEF p
  <2> QED
    BY <2>1, <2>3, KinTiers
<1>6. Kin(f, UnlinkIfLinked(g, id))
  <2>1. DOMAIN g = Fields
    BY DEF Kin
  <2>2. /\ DOMAIN UnlinkIfLinked(g, id) = Fields
        /\ UnlinkIfLinked(g, id).collaterals = g.collaterals
    BY <2>1 DEF UnlinkIfLinked, UnlinkCdp, Fields
  <2> QED
    BY <2>2, KinSame
<1> QED
  BY <1>4, <1>5, <1>6

\* The redemption of one loan keeps prices and fees.
LEMMA RedeemKin ==
  ASSUME NEW f, Kin(f, f), NEW id, NEW payment, NEW share, RedeemLoan(f, id, payment, share)
  PROVE  Kin(f, flux')
<1> DEFINE d == f.cdps[id]
           k == Tier(d)
           asked == RealToPoolDebt(f, k, payment)
           over == asked > d.pool
           part == IF over THEN ONE ELSE Div(asked, d.pool)
           paid == IF over THEN PoolToRealDebt(f, k, d.pool) ELSE payment
           pool == IF over THEN 0 ELSE d.pool - asked
           taken == CollateralTaken(f, id, part, share)
           amount == IF taken > d.amount THEN 0 ELSE d.amount - taken
           f1 == RemoveDebt(UnmintFusd(f, k, paid), k, paid)
           f2 == TakeCollateral(f1, k, d.amount)
           f3 == PutCollateral(f2, k, amount)
           whole == UnlinkIfLinked(
                      Delist(PutInLeftovers(f2, d.collateral, amount), id, "Redeemed", amount), id)
           less == CleanUpInterestInfo(Relist(f3, id, d.interest, amount, pool), k)
<1>1. flux' = less \/ flux' = whole
  BY Zenon DEF RedeemLoan
<1> HIDE DEF d, k, paid, pool, amount
<1>2. Kin(f, f1)
  <2>1. Kin(f, UnmintFusd(f, k, paid))
    BY KinTiers
  <2> HIDE DEF f1
  <2> QED
    BY <2>1, KinCoins DEF f1
<1> HIDE DEF f1
<1>3. Kin(f, f2)
  BY <1>2, KinCoins
<1> HIDE DEF f2
<1>4. Kin(f, f3) /\ Kin(f, PutInLeftovers(f2, d.collateral, amount))
  BY <1>3, KinCoins
<1> HIDE DEF f3
<1>5. Kin(f, less)
  <2>1. Kin(f, Relist(f3, id, d.interest, amount, pool))
    BY <1>4, KinLoans
  <2> QED
    BY <2>1, KinTiers
<1>6. Kin(f, whole)
  <2>1. Kin(f, Delist(PutInLeftovers(f2, d.collateral, amount), id, "Redeemed", amount))
    BY <1>4, KinLoans
  <2> QED
    BY <2>1, KinLoans
<1> QED
  BY <1>1, <1>5, <1>6

\* It burns no more than the payment.
LEMMA RedeemPaid ==
  ASSUME NEW f, Fit(f), held \in Nat, NEW id \in DOMAIN f.cdps, Active(f.cdps[id]),
         NEW payment \in Nat, NEW share, RedeemLoan(f, id, payment, share)
  PROVE  held - held' \in 0 .. payment /\ held' \in Int
<1> DEFINE d == f.cdps[id]
           m == DebtMultiplier(f, Tier(d))
           asked == Div(payment, m)
           whole == Mul(d.pool, m)
           paid == IF asked > d.pool THEN whole ELSE payment
<1>1. m \in Nat /\ m # 0 /\ d.pool \in Nat
  BY SMTT(30), OpenFacts
<1>2. held' = held - paid
  BY DEF RedeemLoan, RealToPoolDebt, PoolToRealDebt
<1>3. ONE \in Nat \ {0}
  BY DecimalAssumption
<1> HIDE DEF m
<1>4. asked \in Nat /\ asked * m <= payment * ONE
  BY <1>1, DivNat
<1>5. whole \in Nat /\ whole * ONE <= d.pool * m
  BY <1>1, MulNat
<1> HIDE DEF d
<1>6. ASSUME asked > d.pool PROVE whole <= payment
  <2> HIDE DEF asked, whole
  <2>1. d.pool <= asked
    BY <1>1, <1>4, <1>6
  <2>2. d.pool * m <= asked * m
    BY <1>1, <1>4, <2>1, Cancel
  <2>3. d.pool * m \in Nat /\ asked * m \in Nat /\ payment * ONE \in Nat /\ whole * ONE \in Nat
    BY <1>1, <1>3, <1>4, <1>5
  <2>4. whole * ONE <= payment * ONE
    BY <1>4, <1>5, <2>2, <2>3
  <2> QED
    BY <1>3, <1>5, <2>4, Cancel
<1> HIDE DEF asked, whole
<1>7. paid \in Nat /\ paid <= payment
  BY <1>5, <1>6
<1> QED
  BY <1>2, <1>7

\* What the calls of a route keep of Flux: its accounts add up, every tier covers its
\* loans, and the fUSD that is held and the fees put off are no less than nothing.
FluxGood ==
  /\ SolvencyInv
  /\ held \in Nat /\ unbacked = 0
  /\ \A c \in DOMAIN flux.collaterals : flux.collaterals[c].uncharged \in Nat

\* So there is no less fUSD than nothing.
LEMMA GoodMeans ==
  ASSUME FluxGood
  PROVE  /\ AccountInv /\ Solvent(flux) /\ Fit(flux) /\ Ready(flux) /\ StateOK(flux)
         /\ flux.circulating \in Nat /\ now \in 0 .. MaxTime /\ now \in Nat
<1>1. AccountInv /\ Solvent(flux)
  BY DEF FluxGood, SolvencyInv
<1>2. Ready(flux) /\ PaidOut(flux) = held - unbacked /\ StateOK(flux) /\ now \in 0 .. MaxTime
  BY <1>1 DEF AccountInv, IInv, Sound, Ready
<1>3. now \in Nat
  BY <1>2, TimeAssumption
<1>4. SumFunction(Fees(flux)) \in Nat
  <2>1. IsFiniteSet(DOMAIN Fees(flux))
    BY <1>2, PaidTyped DEF Ready, Accounted, IntFunction
  <2>2. \A c \in DOMAIN Fees(flux) : Fees(flux)[c] \in Nat
    BY DEF Fees, FluxGood
  <2> QED
    BY <2>1, <2>2, SumNatural DEF SumFunction
<1>5. flux.circulating \in Int
  BY <1>2 DEF Ready, Accounted, Shaped
<1>6. flux.circulating \in Nat
  BY <1>2, <1>4, <1>5 DEF PaidOut, FluxGood
<1> QED
  BY <1>1, <1>2, <1>3, <1>6 DEF Fit

\* What a call leaves when it serves its loan.
LEMMA GoodAfter ==
  ASSUME FluxGood, FluxKept, StateOK(flux'), NEW id, Served(flux, flux', id), held' \in Nat,
         \A c \in DOMAIN flux'.collaterals : flux'.collaterals[c].uncharged \in Nat
  PROVE  FluxGood'
<1>1. AccountInv' /\ unbacked' = unbacked
  BY DEF FluxKept
<1>2. Accounted(flux)'
  BY <1>1 DEF AccountInv, Sound, Ready
<1>3. Accounted(flux')
  BY <1>2
<1>4. Solvent(flux')
  BY <1>3, GoodMeans, ServedSolvent DEF CallSolvent
<1>5. Solvent(flux)'
  BY <1>4, SolventClock
<1> QED
  BY <1>1, <1>5 DEF FluxGood, SolvencyInv

\* The state of Flux between calls has the shape that they keep.
LEMMA KinSelf ==
  ASSUME NEW f, Shaped(f)
  PROVE  Kin(f, f)
BY DEF Shaped, InfoTyped, Kin

\* A redemption of a route, at the price that was stored when it began.
LEMMA RedemptionGood ==
  ASSUME FluxGood, NEW c \in Listed, NEW payment \in Nat, NEW share \in 0 .. ONE,
         Redemption(c, payment, share, flux.collaterals[c].price)
  PROVE  /\ FluxGood' /\ FluxKept /\ Kin(flux, flux')
         /\ held - held' \in 0 .. payment
<1> DEFINE price == flux.collaterals[c].price
           f == WithPrice(flux, c, price)
<1>1. /\ AccountInv /\ Fit(flux) /\ Ready(flux) /\ StateOK(flux) /\ now \in Nat /\ held \in Nat
      /\ held \in Int /\ Shaped(flux)
  BY GoodMeans DEF FluxGood, Ready, Accounted
<1>2. c \in DOMAIN flux.collaterals /\ price \in Nat \ {0}
  BY SMTT(30), <1>1 DEF Listed, StateOK, WellTyped, IsCollateralInfo
<1>3. /\ payment <= held /\ unbacked' = unbacked /\ now' = now
      /\ \/ RatesInUse(f, c) = {} /\ flux' = f /\ held' = held
         \/ \E i \in RatesInUse(f, c) : \E cr \in DOMAIN f.ratios[<<c, i>>] :
              RedeemLoan(f, f.ratios[<<c, i>>][cr][1], payment, share)
  BY DEF Redemption
<1>4. /\ Fit(f) /\ StateOK(f)
  BY <1>1, <1>2, PricedFit DEF Fit, Ready
<1>5. Kin(flux, f) /\ Kin(f, f) /\ \A g : Kin(f, g) => Kin(flux, g)
  <2>1. DOMAIN flux = Fields /\ \A x \in DOMAIN flux.collaterals : DOMAIN flux.collaterals[x] = InfoFields
    BY <1>1 DEF Shaped, InfoTyped
  <2>2. Kin(flux, f)
    BY <2>1 DEF WithPrice, Kin, Fields, InfoFields
  <2> HIDE DEF f
  <2>3. \A g : Kin(f, g) => Kin(flux, g)
    BY <2>2 DEF Kin
  <2>4. Kin(f, f)
    BY <2>2 DEF Kin
  <2> QED
    BY <2>2, <2>3, <2>4
<1>6. PICK id : Served(flux, flux', id)
  <2> HIDE DEF f
  <2> QED
    BY <1>1, <1>2, RedemptionServes
<1>8. StateOK(flux')
  BY SMTT(30), <1>1, <1>2, RedemptionOK
<1>9. FluxKept
  <2>1. PICK x : Step(flux, flux', x, held' - held)
    BY SMTT(30), <1>1, <1>2, RedemptionStep
  <2>2. held' \in Int
    BY SMTT(30), <1>1, <1>2, RedemptionStep
  <2> QED
    BY <1>1, <1>3, <1>8, <2>1, <2>2, StepKept
<1> HIDE DEF f, price
<1>10. Kin(flux, flux') /\ held - held' \in 0 .. payment /\ held' \in Int
  <2>1. CASE flux' = f /\ held' = held
    BY <1>1, <1>5, <2>1
  <2>2. ASSUME NEW i \in RatesInUse(f, c), NEW cr \in DOMAIN f.ratios[<<c, i>>],
               RedeemLoan(f, f.ratios[<<c, i>>][cr][1], payment, share)
        PROVE  Kin(flux, flux') /\ held - held' \in 0 .. payment /\ held' \in Int
    <3> DEFINE ids == f.ratios[<<c, i>>][cr]
    <3>1. <<c, i>> \in Tiers
      BY <1>4, <2>2 DEF RatesInUse, StateOK, WellTyped, Tiers
    <3>2. VectorOK(f, <<c, i>>, cr)
      BY SMTT(30), <1>4, <2>2, <3>1 DEF StateOK, VectorsOK
    <3>3. ids \in Seq(DOMAIN f.cdps) /\ 1 \in 1 .. Len(ids) /\ Active(f.cdps[ids[1]])
      BY <3>2, SMTT(30) DEF VectorOK
    <3>4. ids[1] \in DOMAIN f.cdps
      BY <3>3
    <3>5. Kin(flux, flux')
      BY <1>5, <2>2, RedeemKin
    <3>6. held - held' \in 0 .. payment /\ held' \in Int
      BY <1>1, <1>4, <2>2, <3>3, <3>4, RedeemPaid
    <3> QED
      BY <3>5, <3>6
  <2> QED
    BY <1>3, <2>1, <2>2
<1>11. held' \in Nat
  BY <1>1, <1>3, <1>10
<1>12. \A x \in DOMAIN flux'.collaterals : flux'.collaterals[x].uncharged \in Nat
  BY <1>10 DEF Kin, FluxGood
<1>13. FluxGood'
  BY <1>6, <1>8, <1>9, <1>11, <1>12, GoodAfter
<1> QED
  BY <1>9, <1>10, <1>13

\* open_cdp of a loan without a privileged borrower puts a fee off and pays out the rest.
LEMMA OpenGood ==
  ASSUME FluxGood, NEW c \in Listed, NEW deposit \in Deposits, NEW mint \in Mints,
         NEW i \in Interests, NEW price \in Nat \ {0},
         OpenCdp(c, deposit, mint, i, Nobody, price)
  PROVE  FluxGood' /\ FluxKept
<1> DEFINE id == flux.cdpCounter + 1
           k == <<c, i>>
           f == WithPrice([flux EXCEPT !.cdpCounter = id], c, price)
           base == RealToPoolDebt(f, k, mint)
           extra == IF i = Irredeemable THEN 0 ELSE ExtraInterestDaysFee(f, i, base)
           realFee == PoolToRealDebt(f, k, extra)
           pool == base + extra
           minted == PoolToRealDebt(f, k, pool)
           cr == Div(deposit, pool)
           g1 == MintFusd(f, k, pool)
           g2 == AddDebt(g1, k, minted)
           g3 == PutCollateral(g2, k, deposit)
           g4 == InsertCr(g3, k, cr, id)
           g5 == PutUncharged(g4, c, realFee)
           cdp == [collateral |-> c, amount |-> deposit, interest |-> i,
                   pool |-> pool, ratio |-> cr, status |-> "Healthy",
                   borrower |-> Nobody, lastChange |-> now]
           g == [g5 EXCEPT !.cdps = With(@, id, cdp)]
<1>1. /\ AccountInv /\ Fit(flux) /\ Ready(flux) /\ StateOK(flux) /\ now \in Nat /\ held \in Nat
      /\ held \in Int /\ Shaped(flux)
  BY SMTT(30), GoodMeans DEF FluxGood, Ready, Accounted
<1>2. flux' = g /\ held' = held + minted - realFee
  BY DEF OpenCdp
<1>3. /\ c \in DOMAIN flux.collaterals /\ k \in Tiers /\ k[1] = c
      /\ deposit \in Nat /\ mint \in Nat /\ id \in Nat
      /\ Nobody \in Registered \cup {Nobody}
      /\ DOMAIN flux.cdps \subseteq 1 .. id
  BY <1>1, AmountAssumption DEF Listed, StateOK, WellTyped, Tiers
<1>4. FluxKept /\ Served(flux, flux', flux.cdpCounter + 1) /\ StateOK(flux')
  <2>1. FluxKept
    BY <1>1, <1>3, OpenKept
  <2>2. Served(flux, flux', flux.cdpCounter + 1)
    BY <1>1, <1>3, OpenServes
  <2>3. StateOK(flux')
    BY <1>1, <1>3, OpenOK
  <2> QED
    BY <2>1, <2>2, <2>3
<1>5. /\ StateOK(f) /\ Accounted(f) /\ EmptyTiers(f) = {} /\ Solvent(f)
  <2>1. f = WithPrice([flux EXCEPT !.cdpCounter = id], k[1], price)
    BY <1>3
  <2> HIDE DEF f, id, k
  <2>2. Nobody \in DOMAIN flux.borrowers \cup {Nobody}
    OBVIOUS
  <2>3. k[1] \in DOMAIN flux.collaterals
    BY <1>3
  <2> QED
    BY ONLY <1>1, <1>3, <2>1, <2>2, <2>3, price \in Nat \ {0}, OpeningFit
<1>6. Kin(f, f) /\ DOMAIN f.collaterals = DOMAIN flux.collaterals
      /\ \A x \in DOMAIN f.collaterals : f.collaterals[x].uncharged \in Nat
  <2>1. Kin(f, f)
    BY <1>5, KinSelf DEF Accounted
  <2>2. /\ DOMAIN flux = Fields
        /\ \A x \in DOMAIN flux.collaterals : DOMAIN flux.collaterals[x] = InfoFields
    BY <1>1 DEF Shaped, InfoTyped
  <2>3. /\ DOMAIN f.collaterals = DOMAIN flux.collaterals
        /\ \A x \in DOMAIN flux.collaterals :
             f.collaterals[x].uncharged = flux.collaterals[x].uncharged
    BY <2>2 DEF WithPrice, Fields, InfoFields
  <2> QED
    BY <2>1, <2>3 DEF FluxGood
<1> HIDE DEF f
<1>7. DebtMultiplier(f, k) \in Nat /\ ONE <= DebtMultiplier(f, k)
  BY <1>3, <1>5, TierFacts
<1>8. base \in Nat
  BY <1>3, <1>7, PoolFromReal DEF RealToPoolDebt
<1> HIDE DEF base
<1>9. extra \in Nat
  <2>1. CASE i = Irredeemable
    BY <2>1
  <2>2. CASE i # Irredeemable
    <3>1. i \in Rates /\ extra = ExtraInterestDaysFee(f, i, base)
      BY <2>2 DEF Interests
    <3> QED
      BY <1>5, <1>8, <3>1, FeeNatural DEF StateOK
  <2> QED
    BY <2>1, <2>2
<1> HIDE DEF extra
<1>10. realFee \in Nat /\ minted \in Nat /\ realFee <= minted
  <2>1. pool \in Nat /\ extra <= pool
    BY <1>8, <1>9
  <2> HIDE DEF pool
  <2> QED
    BY <1>7, <1>9, <2>1, MulNat, MulGrows DEF PoolToRealDebt
<1> HIDE DEF realFee, minted, pool, cr
<1>11. held' \in Nat
  BY <1>1, <1>2, <1>10
<1>12. Kin(f, g4)
  <2>1. Kin(f, g1)
    BY <1>6, KinOpening
  <2> HIDE DEF g1
  <2>2. Kin(f, g2)
    BY <2>1, KinOpening
  <2> HIDE DEF g2
  <2>3. Kin(f, g3)
    BY <2>2, KinCoins
  <2> HIDE DEF g3
  <2> QED
    BY <2>3, KinOpening
<1> HIDE DEF g4, cdp
<1>13. \A x \in DOMAIN g.collaterals : g.collaterals[x].uncharged \in Nat
  <2>1. DOMAIN g4 = Fields /\ DOMAIN g4.collaterals = DOMAIN f.collaterals
        /\ \A x \in DOMAIN g4.collaterals : DOMAIN g4.collaterals[x] = InfoFields
                                            /\ g4.collaterals[x].uncharged \in Nat
    BY <1>6, <1>12 DEF Kin
  <2>2. DOMAIN g5 = Fields /\ \A x \in DOMAIN g5.collaterals : g5.collaterals[x].uncharged \in Nat
    BY <1>10, <2>1 DEF PutUncharged, Fields, InfoFields
  <2> HIDE DEF g5
  <2>3. g.collaterals = g5.collaterals
    BY <2>2 DEF Fields
  <2> QED
    BY <2>2, <2>3
<1> HIDE DEF g
<1> QED
  BY <1>2, <1>4, <1>11, <1>13, GoodAfter

\* charge_interest of a pool.
LEMMA PoolChargeGood ==
  ASSUME FluxGood, PoolsReady, NEW c \in DOMAIN pools, NEW range, ChargePoolInterest(c, range)
  PROVE  FluxGood' /\ FluxKept
<1> DEFINE rate == MaxOf(pools[c].history)
<1>1. /\ AccountInv /\ Fit(flux) /\ StateOK(flux) /\ now \in Nat /\ held \in Nat
      /\ held \in Int /\ Shaped(flux) /\ now \in 0 .. MaxTime
  BY GoodMeans DEF FluxGood, Ready, Accounted
<1>2. ChargeInterest(c, range, rate) /\ 0 <= held' - held
  BY DEF ChargePoolInterest
<1>3. rate \in Rates /\ c \in Listed
  BY PoolFacts, MaxOfOK DEF Pool, PoolsReady, PoolsTyped
<1> HIDE DEF rate
<1>4. FluxKept
  BY <1>1, <1>2, <1>3, ChargeKept
<1>5. Served(flux, flux', 0) /\ StateOK(flux')
  <2>1. StateOK(flux')
    BY <1>1, <1>2, <1>3, ChargeOK
  <2>2. Served(flux, flux', 0)
    BY <1>1, <1>2, <1>3, <2>1, ChargeServes
  <2> QED
    BY <2>1, <2>2
<1>6. held' \in Nat
  <2>1. held' \in Int
    BY <1>4 DEF FluxKept
  <2>2. held \in Nat /\ 0 <= held' - held
    BY <1>1, <1>2
  <2>3. \A m \in Nat, n \in Int : 0 <= n - m => n \in Nat
    OBVIOUS
  <2> QED
    BY <2>1, <2>2, <2>3, Zenon
<1>7. \A x \in DOMAIN flux'.collaterals : flux'.collaterals[x].uncharged \in Nat
  <2>1. \E tiers, n : flux' = [flux EXCEPT !.tiers = tiers, !.circulating = @ + n,
                                          !.collaterals[c].debt = @ + n,
                                          !.collaterals[c].uncharged = 0]
    BY <1>2 DEF ChargeInterest
  <2>2. /\ DOMAIN flux = Fields
        /\ \A x \in DOMAIN flux.collaterals :
             DOMAIN flux.collaterals[x] = InfoFields /\ flux.collaterals[x].uncharged \in Nat
    BY <1>1 DEF Shaped, InfoTyped, FluxGood
  <2> QED
    BY SMTT(30), <2>1, <2>2 DEF Fields, InfoFields
<1> QED
  BY <1>4, <1>5, <1>6, <1>7, GoodAfter

\* A new collateral, with its pool.
LEMMA ListingGood ==
  ASSUME FluxGood, NEW c \in Collaterals, NEW mcr \in Mcrs, NEW price \in Prices,
         NewCollateral(c, mcr, price)
  PROVE  FluxGood'
<1>1. AccountInv /\ Fit(flux) /\ Ready(flux) /\ StateOK(flux) /\ Shaped(flux)
  BY GoodMeans DEF Ready, Accounted
<1>2. AccountInv' /\ held' = held /\ unbacked' = unbacked
  BY <1>1, ListingKept
<1>3. StateOK(flux')
  BY <1>1, NewCollateralOK
<1>4. DOMAIN flux = Fields
  BY <1>1 DEF Shaped
<1>5. /\ flux'.cdps = flux.cdps /\ flux'.tiers = flux.tiers /\ flux'.ratios = flux.ratios
      /\ DOMAIN flux'.collaterals = DOMAIN flux.collaterals \cup {c}
      /\ \A x \in DOMAIN flux.collaterals : x # c /\ flux'.collaterals[x] = flux.collaterals[x]
      /\ flux'.collaterals[c].mcr = mcr /\ flux'.collaterals[c].uncharged = 0
  BY <1>4 DEF NewCollateral, With, Fields
<1>6. EmptyTiers(flux') = {}
  BY <1>1, <1>5 DEF Ready, EmptyTiers
<1>7. \A x \in DOMAIN flux'.collaterals : flux'.collaterals[x].mcr \in Mcrs
  BY <1>1, <1>5 DEF Fit, Solvent
<1>8. Served(flux, flux', 0)
  BY <1>1, <1>3, <1>5, <1>6, <1>7, NoLoanServes
<1>9. Accounted(flux')
  <2>1. Accounted(flux)'
    BY <1>2 DEF AccountInv, Sound, Ready
  <2> QED
    BY <2>1
<1>10. Solvent(flux)'
  <2>1. Solvent(flux')
    BY <1>1, <1>3, <1>8, <1>9, ServedSolvent DEF CallSolvent
  <2> QED
    BY <2>1, SolventClock
<1>11. \A x \in DOMAIN flux'.collaterals : flux'.collaterals[x].uncharged \in Nat
  BY <1>5 DEF FluxGood
<1> QED
  BY <1>2, <1>10, <1>11 DEF FluxGood, SolvencyInv

\* A step that leaves Flux alone, whatever becomes of the clock.
LEMMA NoCallGood ==
  ASSUME FluxGood, AccountInv', flux' = flux, held' = held, unbacked' = unbacked
  PROVE  FluxGood'
<1>1. Solvent(flux')
  BY GoodMeans
<1>2. Solvent(flux)'
  BY <1>1, SolventClock
<1> QED
  BY <1>2 DEF FluxGood, SolvencyInv

\* The prices that redemptions stores when a route begins.
LEMMA PricesGood ==
  ASSUME FluxGood, NEW chosen \in SUBSET DOMAIN flux.collaterals, NEW price,
         \A c \in chosen : price[c] \in Nat \ {0},
         flux' = [flux EXCEPT !.collaterals =
                    [c \in DOMAIN @ |-> IF c \in chosen THEN [@[c] EXCEPT !.price = price[c]]
                                                        ELSE @[c]]],
         held' = held, unbacked' = unbacked, now' = now
  PROVE  /\ FluxGood' /\ FluxKept
         /\ \A c \in chosen : flux'.collaterals[c].price = price[c]
<1>1. /\ AccountInv /\ Fit(flux) /\ Ready(flux) /\ StateOK(flux) /\ Shaped(flux)
      /\ held \in Int /\ Solvent(flux)
  BY GoodMeans DEF FluxGood, Ready, Accounted
<1>2. /\ DOMAIN flux = Fields
      /\ \A x \in DOMAIN flux.collaterals : DOMAIN flux.collaterals[x] = InfoFields
  BY <1>1 DEF Shaped, InfoTyped
<1>3. /\ DOMAIN flux' = Fields /\ flux'.cdps = flux.cdps /\ flux'.cdpCounter = flux.cdpCounter
      /\ flux'.marked = flux.marked /\ flux'.circulating = flux.circulating
      /\ flux'.tiers = flux.tiers /\ flux'.ratios = flux.ratios
      /\ flux'.borrowers = flux.borrowers /\ flux'.params = flux.params
      /\ flux'.collaterals = [c \in DOMAIN flux.collaterals |->
                                IF c \in chosen THEN [flux.collaterals[c] EXCEPT !.price = price[c]]
                                                ELSE flux.collaterals[c]]
  BY <1>2 DEF Fields
<1>4. DOMAIN flux'.collaterals = DOMAIN flux.collaterals
  BY <1>3
<1>5. \A x \in DOMAIN flux.collaterals :
        LET p == flux.collaterals[x] q == flux'.collaterals[x]
        IN  /\ DOMAIN q = InfoFields
            /\ q.mcr = p.mcr /\ q.accepted = p.accepted /\ q.debt = p.debt
            /\ q.amount = p.amount /\ q.vault = p.vault /\ q.leftovers = p.leftovers
            /\ q.uncharged = p.uncharged
            /\ q.price = IF x \in chosen THEN price[x] ELSE p.price
  <2> SUFFICES ASSUME NEW x \in DOMAIN flux.collaterals
               PROVE  LET p == flux.collaterals[x] q == flux'.collaterals[x]
                      IN  /\ DOMAIN q = InfoFields
                          /\ q.mcr = p.mcr /\ q.accepted = p.accepted /\ q.debt = p.debt
                          /\ q.amount = p.amount /\ q.vault = p.vault /\ q.leftovers = p.leftovers
                          /\ q.uncharged = p.uncharged
                          /\ q.price = IF x \in chosen THEN price[x] ELSE p.price
    OBVIOUS
  <2>1. DOMAIN flux.collaterals[x] = InfoFields
    BY <1>2
  <2>2. flux'.collaterals[x] = IF x \in chosen THEN [flux.collaterals[x] EXCEPT !.price = price[x]]
                                              ELSE flux.collaterals[x]
    BY <1>3
  <2> QED
    BY <2>1, <2>2 DEF InfoFields
<1>6. WellTyped(flux')
  <2>1. WellTyped(flux)
    BY <1>1 DEF StateOK
  <2>2. \A x \in DOMAIN flux.collaterals : IsCollateralInfo(flux'.collaterals[x])
    BY <1>5, <2>1 DEF WellTyped, IsCollateralInfo
  <2> QED
    BY <1>3, <1>4, <2>1, <2>2 DEF WellTyped
<1>7. StateOK(flux')
  BY <1>1, <1>3, <1>6, SameIndexOK
<1>8. Step(flux, flux', 0, 0)
  BY <1>1, <1>3, <1>4, <1>5, <1>7, QuietStep
<1>9. FluxKept
  <2>1. held' - held = 0 /\ held' \in Int
    BY <1>1
  <2> QED
    BY <1>1, <1>7, <1>8, <2>1, StepKept
<1>10. Served(flux, flux', 0)
  <2>1. EmptyTiers(flux') = {}
    BY <1>1, <1>3 DEF Ready, EmptyTiers
  <2>2. \A x \in DOMAIN flux'.collaterals : flux'.collaterals[x].mcr \in Mcrs
    BY <1>1, <1>4, <1>5 DEF Solvent
  <2> QED
    BY <1>1, <1>3, <1>7, <2>1, <2>2, NoLoanServes
<1>11. held' \in Nat /\ \A x \in DOMAIN flux'.collaterals : flux'.collaterals[x].uncharged \in Nat
  BY <1>4, <1>5 DEF FluxGood
<1>12. FluxGood'
  BY <1>7, <1>9, <1>10, <1>11, GoodAfter
<1>13. \A c \in chosen : flux'.collaterals[c].price = price[c]
  BY <1>5
<1> QED
  BY <1>9, <1>12, <1>13

-----------------------------------------------------------------------------
(* What the first loans of a plan reach.                                   *)

\* The sum of the first n debts.
FirstOwed(debts, n) == SumFunction([m \in 1 .. n |-> debts[m]])

\* It is a sum over their places.
LEMMA OwedIs ==
  ASSUME NEW debts \in Seq(Nat), NEW n \in 0 .. Len(debts)
  PROVE  /\ FirstOwed(debts, n) = SumFunctionOnSet(debts, 1 .. n)
         /\ \A m \in 1 .. n : debts[m] \in Nat
         /\ IsFiniteSet(1 .. n) /\ FirstOwed(debts, n) \in Nat
<1> DEFINE f == [m \in 1 .. n |-> debts[m]]
<1>1. IsFiniteSet(1 .. n)
  BY FS_Interval
<1>2. \A m \in 1 .. n : debts[m] \in Nat
  <2> SUFFICES ASSUME NEW m \in 1 .. n PROVE debts[m] \in Nat
    OBVIOUS
  <2>1. m \in 1 .. Len(debts)
    OBVIOUS
  <2> QED
    BY <2>1
<1>3. DOMAIN f = 1 .. n /\ \A m \in 1 .. n : f[m] = debts[m]
  OBVIOUS
<1> HIDE DEF f
<1>4. SumFunctionOnSet(f, 1 .. n) = SumFunctionOnSet(debts, 1 .. n)
  BY <1>1, <1>3, SumEqual
<1>5. SumFunctionOnSet(debts, 1 .. n) \in Nat
  BY <1>1, <1>2, SumNatural
<1> QED
  BY <1>1, <1>2, <1>3, <1>4, <1>5 DEF FirstOwed, f, SumFunction

\* One loan more owes what it owes more.
LEMMA OwedNext ==
  ASSUME NEW debts \in Seq(Nat), NEW n \in 0 .. Len(debts), n < Len(debts)
  PROVE  /\ FirstOwed(debts, n + 1) = FirstOwed(debts, n) + debts[n + 1]
         /\ debts[n + 1] \in Nat
<1>1. n + 1 \in 0 .. Len(debts) /\ n + 1 \in 1 .. (n + 1)
  OBVIOUS
<1>2. /\ FirstOwed(debts, n + 1) = SumFunctionOnSet(debts, 1 .. (n + 1))
      /\ IsFiniteSet(1 .. (n + 1)) /\ \A m \in 1 .. (n + 1) : debts[m] \in Nat
  BY <1>1, OwedIs
<1>3. FirstOwed(debts, n) = SumFunctionOnSet(debts, 1 .. n) /\ FirstOwed(debts, n) \in Nat
  BY OwedIs
<1>4. SumFunctionOnSet(debts, 1 .. (n + 1))
        = debts[n + 1] + SumFunctionOnSet(debts, (1 .. (n + 1)) \ {n + 1})
  BY <1>1, <1>2, SumTakeOut
<1>5. (1 .. (n + 1)) \ {n + 1} = 1 .. n
  OBVIOUS
<1>6. debts[n + 1] \in Nat
  BY <1>1, <1>2
<1>7. FirstOwed(debts, n + 1) = debts[n + 1] + FirstOwed(debts, n)
  BY <1>2, <1>3, <1>4, <1>5, Zenon
<1> QED
  BY <1>3, <1>6, <1>7

\* No loan owes less than nothing.
LEMMA OwedGrows ==
  ASSUME NEW debts \in Seq(Nat), NEW n \in 0 .. Len(debts), NEW m \in 0 .. n
  PROVE  FirstOwed(debts, m) <= FirstOwed(debts, n)
<1>1. m \in 0 .. Len(debts) /\ 1 .. m \in SUBSET (1 .. n)
  OBVIOUS
<1>2. FirstOwed(debts, m) = SumFunctionOnSet(debts, 1 .. m)
  BY <1>1, OwedIs
<1>3. /\ FirstOwed(debts, n) = SumFunctionOnSet(debts, 1 .. n)
      /\ IsFiniteSet(1 .. n) /\ \A x \in 1 .. n : debts[x] \in Nat
  BY OwedIs
<1> QED
  BY <1>1, <1>2, <1>3, SumOfMore

\* No loans owe nothing.
LEMMA OwedNothing ==
  ASSUME NEW debts \in Seq(Nat)
  PROVE  FirstOwed(debts, 0) = 0
<1>1. 0 \in 0 .. Len(debts) /\ 1 .. 0 = {}
  OBVIOUS
<1> QED
  BY <1>1, OwedIs, SumEmpty

\* The part of its target that an entry of a plan reaches with n loans, and that it has
\* reached.
ReachOf(s, n) == Div(Lesser(s.target, FirstOwed(s.debts, Lesser(n, Len(s.debts)))), s.target)
Reached(s) == Div(s.current, s.target)

\* An entry of a plan: what its loans so far come to, up to the target.
EntryGood(s) ==
  /\ s \in PlanEntry /\ s.count <= Len(s.debts)
  /\ s.current = Lesser(s.target, FirstOwed(s.debts, s.count))
  /\ s.count # 0 => s.target # 0

\* Its fields.
LEMMA EntryFacts ==
  ASSUME NEW s, EntryGood(s)
  PROVE  /\ s.target \in Nat /\ s.current \in Nat /\ s.count \in Nat /\ s.debts \in Seq(Nat)
         /\ s.count \in 0 .. Len(s.debts) /\ Len(s.debts) \in Nat /\ s.current <= s.target
         /\ s.target # 0 => Reached(s) = ReachOf(s, s.count)
<1>1. /\ s.target \in Nat /\ s.current \in Nat /\ s.count \in Nat /\ s.debts \in Seq(Nat)
      /\ s.count <= Len(s.debts) /\ s.current = Lesser(s.target, FirstOwed(s.debts, s.count))
  BY DEF EntryGood, PlanEntry
<1>2. Len(s.debts) \in Nat /\ s.count \in 0 .. Len(s.debts)
  BY <1>1
<1>3. FirstOwed(s.debts, s.count) \in Nat
  BY <1>1, <1>2, OwedIs
<1>4. s.current <= s.target
  BY <1>1, <1>3 DEF Lesser
<1>5. Lesser(s.count, Len(s.debts)) = s.count
  BY <1>1 DEF Lesser
<1> QED
  BY <1>1, <1>2, <1>4, <1>5 DEF Reached, ReachOf

\* A larger amount is a larger part, and all is one.
LEMMA PartGrows ==
  ASSUME NEW a \in Nat, NEW b \in Nat, a <= b, NEW t \in Nat \ {0}
  PROVE  /\ Div(a, t) \in Nat /\ Div(b, t) \in Nat /\ Div(a, t) <= Div(b, t)
         /\ Div(t, t) = ONE
<1>1. ONE \in Nat \ {0}
  BY DecimalAssumption
<1> DEFINE x == Div(a, t)
           y == Div(b, t)
           z == Div(t, t)
<1>2. x \in Nat /\ x * t <= a * ONE
  BY QuotientBounds
<1>3. y \in Nat /\ b * ONE < (y + 1) * t
  BY QuotientBounds
<1>4. z \in Nat /\ z * t <= t * ONE /\ t * ONE < (z + 1) * t
  BY QuotientBounds
<1> HIDE DEF x, y, z
<1>5. a * ONE <= b * ONE
  BY <1>1, Cancel
<1>6. x * t <= b * ONE /\ b * ONE \in Nat
  <2>1. x * t \in Nat /\ a * ONE \in Nat /\ b * ONE \in Nat
    BY <1>1, <1>2
  <2> QED
    BY <1>2, <1>5, <2>1
<1>7. x <= y
  BY <1>2, <1>3, <1>6, LargestFit
<1>8. z = ONE
  <2>1. t * ONE = ONE * t /\ ONE * t \in Nat /\ z * t \in Nat /\ (z + 1) * t \in Nat
    BY <1>1, <1>4
  <2>2. z <= ONE
    BY <1>1, <1>4, <2>1, Cancel
  <2>3. ONE < z + 1
    <3>1. ONE * t < (z + 1) * t /\ z + 1 \in Nat
      BY <1>4, <2>1
    <3> QED
      BY <1>1, <3>1, Cancel
  <2> QED
    BY <1>1, <1>4, <2>2, <2>3
<1> QED
  BY <1>2, <1>3, <1>7, <1>8 DEF x, y, z

\* More loans reach more, up to all of the target or all the loans there are.
LEMMA ReachGrows ==
  ASSUME NEW s, EntryGood(s), s.target # 0, NEW n \in Nat, NEW m \in 0 .. n
  PROVE  /\ ReachOf(s, m) \in Nat /\ ReachOf(s, n) \in Nat
         /\ ReachOf(s, m) <= ReachOf(s, n) /\ ReachOf(s, n) <= ONE
         /\ m >= Len(s.debts) => ReachOf(s, n) = ReachOf(s, m)
<1> DEFINE L == Len(s.debts)
           p == Lesser(m, L)
           q == Lesser(n, L)
           a == Lesser(s.target, FirstOwed(s.debts, p))
           b == Lesser(s.target, FirstOwed(s.debts, q))
<1>1. s.target \in Nat \ {0} /\ s.debts \in Seq(Nat) /\ L \in Nat
  BY EntryFacts
<1>2. q \in 0 .. L /\ p \in 0 .. q /\ p \in 0 .. L /\ (m >= L => p = q)
  BY <1>1 DEF Lesser
<1> HIDE DEF p, q
<1>3. /\ FirstOwed(s.debts, p) \in Nat /\ FirstOwed(s.debts, q) \in Nat
      /\ FirstOwed(s.debts, p) <= FirstOwed(s.debts, q)
  BY <1>1, <1>2, OwedIs, OwedGrows
<1>4. a \in Nat /\ b \in Nat /\ a <= b /\ b <= s.target
  BY <1>1, <1>3 DEF Lesser
<1>5. ReachOf(s, m) = Div(a, s.target) /\ ReachOf(s, n) = Div(b, s.target)
  BY DEF ReachOf, p, q
<1>6. m >= L => a = b
  BY <1>2
<1> HIDE DEF a, b
<1>7. /\ Div(a, s.target) \in Nat /\ Div(b, s.target) \in Nat
      /\ Div(a, s.target) <= Div(b, s.target)
  BY <1>1, <1>4, PartGrows
<1>8. Div(b, s.target) <= ONE
  <2>1. s.target \in Nat /\ Div(b, s.target) <= Div(s.target, s.target)
        /\ Div(s.target, s.target) = ONE
    BY <1>1, <1>4, PartGrows
  <2> QED
    BY <2>1
<1> QED
  BY <1>5, <1>6, <1>7, <1>8

\* One loan more for an entry that wants one.
OneMore(s) ==
  [s EXCEPT !.current = Lesser(s.target, @ + s.debts[s.count + 1]), !.count = @ + 1]

\* It is an entry again, which has reached no less, and what it had reached before is
\* what it reaches without its last loan.
LEMMA OneMoreGood ==
  ASSUME NEW s, EntryGood(s), s.count < Len(s.debts), s.current < s.target, NEW t, t = OneMore(s)
  PROVE  /\ EntryGood(t) /\ t.target = s.target /\ t.count = s.count + 1
         /\ t.count # 0 /\ t.target # 0
         /\ Reached(s) <= Reached(t) /\ ReachOf(t, t.count - 1) = Reached(s)
<1> DEFINE n == s.count
           debt == s.debts[n + 1]
           now0 == FirstOwed(s.debts, n)
<1>1. /\ s.target \in Nat \ {0} /\ s.current \in Nat /\ n \in Nat /\ s.debts \in Seq(Nat)
      /\ n \in 0 .. Len(s.debts) /\ Len(s.debts) \in Nat /\ Reached(s) = ReachOf(s, n)
  BY EntryFacts
<1>2. /\ FirstOwed(s.debts, n + 1) = now0 + debt /\ debt \in Nat /\ now0 \in Nat
      /\ s.current = Lesser(s.target, now0)
  BY <1>1, OwedNext, OwedIs DEF EntryGood
<1>3. /\ DOMAIN s = {"target", "current", "count", "debts"}
  BY DEF EntryGood, PlanEntry
<1>4. /\ DOMAIN t = {"target", "current", "count", "debts"}
      /\ t.target = s.target /\ t.debts = s.debts /\ t.count = n + 1
      /\ t.current = Lesser(s.target, s.current + debt)
      /\ t = [x \in DOMAIN t |-> t[x]]
  BY <1>3 DEF OneMore
<1> HIDE DEF n, debt, now0
<1>5. t.current = Lesser(s.target, now0 + debt) /\ t.current \in Nat
  BY <1>1, <1>2, <1>4 DEF Lesser
<1>6. t \in PlanEntry
  BY <1>1, <1>4, <1>5 DEF PlanEntry
<1>7. n < Len(s.debts)
  BY DEF n
<1>8. EntryGood(t)
  BY <1>1, <1>2, <1>4, <1>5, <1>6, <1>7 DEF EntryGood
<1>9. Reached(t) = ReachOf(t, n + 1)
  BY <1>1, <1>4, <1>8, EntryFacts
<1>10. ReachOf(t, n) = ReachOf(s, n)
  BY <1>4 DEF ReachOf
<1>11. ReachOf(t, n) <= ReachOf(t, n + 1)
  <2>1. n + 1 \in Nat /\ n \in 0 .. (n + 1) /\ t.target # 0
    BY <1>1, <1>4
  <2> QED
    BY <1>8, <2>1, ReachGrows
<1>12. t.count - 1 = n /\ t.count # 0
  BY <1>1, <1>4
<1> QED
  BY <1>1, <1>4, <1>8, <1>9, <1>10, <1>11, <1>12 DEF n

\* The collaterals of a plan that want some, and another, loan to be redeemed (Wanted and
\* Wanting, of any plan).
WantedIn(plan) == {c \in DOMAIN plan : plan[c].target # 0}
WantingIn(plan) ==
  {c \in DOMAIN plan : /\ plan[c].count < Len(plan[c].debts)
                       /\ plan[c].current < plan[c].target /\ Reached(plan[c]) < ONE}
Targets(plan) == SumFunction([c \in DOMAIN plan |-> plan[c].target])
Counted(plan) == SumFunction([c \in WantedIn(plan) |-> plan[c].count])

\* The last loan of each came when it had reached no more than any that still wants one.
Even(plan) ==
  \A c \in WantedIn(plan), m \in WantingIn(plan) :
    plan[c].count # 0 => ReachOf(plan[c], plan[c].count - 1) <= Reached(plan[m])

\* A plan: it asks for no more than the payment, and its loans are no more than max.
PlanGood(plan) == IsFiniteSet(DOMAIN plan) /\ \A c \in DOMAIN plan : EntryGood(plan[c])
PlanningGood(r) ==
  /\ DOMAIN r = {"stage", "payment", "max", "left", "plan"} /\ r.stage = "planning"
  /\ r.payment \in Nat /\ r.max \in Nat /\ r.left \in Nat
  /\ PlanGood(r.plan) /\ Even(r.plan)
  /\ Targets(r.plan) <= r.payment /\ r.left + Counted(r.plan) = r.max

\* The sums of a plan, over the set of its collaterals.
LEMMA PlanSums ==
  ASSUME NEW plan, PlanGood(plan)
  PROVE  /\ Targets(plan) = SumFunctionOnSet([c \in DOMAIN plan |-> plan[c].target], DOMAIN plan)
         /\ Targets(plan) \in Nat
         /\ IsFiniteSet(WantedIn(plan)) /\ Counted(plan) \in Nat
         /\ IntFunction([c \in WantedIn(plan) |-> plan[c].count])
<1>1. \A c \in DOMAIN plan : plan[c].target \in Nat /\ plan[c].count \in Nat
  BY EntryFacts DEF PlanGood
<1>2. IsFiniteSet(DOMAIN plan) /\ WantedIn(plan) \subseteq DOMAIN plan
  BY DEF PlanGood, WantedIn
<1>3. IsFiniteSet(WantedIn(plan))
  BY <1>2, FS_Subset
<1> DEFINE f == [c \in DOMAIN plan |-> plan[c].target]
           g == [c \in WantedIn(plan) |-> plan[c].count]
<1>4. DOMAIN f = DOMAIN plan /\ \A c \in DOMAIN plan : f[c] \in Nat
  BY <1>1
<1>5. DOMAIN g = WantedIn(plan) /\ \A c \in WantedIn(plan) : g[c] \in Nat
  BY <1>1, <1>2
<1>6. Targets(plan) = SumFunction(f) /\ Counted(plan) = SumFunction(g)
  BY DEF Targets, Counted
<1> HIDE DEF f, g
<1>7. SumFunctionOnSet(f, DOMAIN plan) \in Nat
  BY <1>2, <1>4, SumNatural
<1>8. SumFunctionOnSet(g, WantedIn(plan)) \in Nat
  BY <1>3, <1>5, SumNatural
<1>9. IntFunction(g)
  BY <1>3, <1>5 DEF IntFunction
<1> QED
  BY <1>3, <1>4, <1>5, <1>6, <1>7, <1>8, <1>9 DEF SumFunction, f, g

\* One loan more for the collateral that is furthest below its target leaves a plan.
LEMMA PlanGrows ==
  ASSUME NEW r, PlanningGood(r), r.left # 0, NEW c \in WantingIn(r.plan),
         \A other \in WantingIn(r.plan) : Reached(r.plan[c]) <= Reached(r.plan[other]),
         NEW q, DOMAIN q = DOMAIN r, q.stage = r.stage, q.payment = r.payment, q.max = r.max,
         q.left = r.left - 1, DOMAIN q.plan = DOMAIN r.plan, q.plan[c] = OneMore(r.plan[c]),
         \A x \in DOMAIN r.plan \ {c} : q.plan[x] = r.plan[x]
  PROVE  PlanningGood(q)
<1> DEFINE P == r.plan
           Q == q.plan
           s == P[c]
           t == Q[c]
<1>1. /\ c \in DOMAIN P /\ s.count < Len(s.debts) /\ s.current < s.target /\ EntryGood(s)
      /\ PlanGood(P)
  BY DEF WantingIn, PlanningGood, PlanGood
<1>2. /\ EntryGood(t) /\ t.target = s.target /\ t.count = s.count + 1
      /\ t.count # 0 /\ t.target # 0
      /\ Reached(s) <= Reached(t) /\ ReachOf(t, t.count - 1) = Reached(s)
  BY <1>1, OneMoreGood
<1>3. PlanGood(Q)
  BY <1>1, <1>2 DEF PlanGood
<1>4. \A x \in DOMAIN P : Q[x].target = P[x].target
  BY <1>2
<1>5. WantedIn(Q) = WantedIn(P) /\ c \in WantedIn(P)
  BY <1>1, <1>2, <1>4 DEF WantedIn
<1>6. Targets(Q) = Targets(P)
  BY <1>4 DEF Targets
<1>7. \A x \in DOMAIN P : P[x].target # 0 => Reached(P[x]) \in Int /\ Reached(Q[x]) \in Int
  <2> SUFFICES ASSUME NEW x \in DOMAIN P, P[x].target # 0
               PROVE  Reached(P[x]) \in Int /\ Reached(Q[x]) \in Int
    OBVIOUS
  <2>1. ASSUME NEW e, EntryGood(e), e.target # 0 PROVE Reached(e) \in Int
    <3>1. /\ e.count \in Nat /\ Reached(e) = ReachOf(e, e.count)
      BY <2>1, EntryFacts
    <3> QED
      BY <2>1, <3>1, ReachGrows
  <2>2. EntryGood(P[x]) /\ EntryGood(Q[x]) /\ Q[x].target # 0
    BY <1>1, <1>3, <1>4 DEF PlanGood
  <2> QED
    BY <2>1, <2>2
<1>8. Even(Q)
  <2> SUFFICES ASSUME NEW x \in WantedIn(Q), NEW m \in WantingIn(Q), Q[x].count # 0
               PROVE  ReachOf(Q[x], Q[x].count - 1) <= Reached(Q[m])
    BY DEF Even
  <2>1. x \in WantedIn(P) /\ x \in DOMAIN P /\ m \in DOMAIN P
    BY <1>5 DEF WantedIn, WantingIn
  <2>2. m # c => m \in WantingIn(P) /\ Q[m] = P[m]
    BY <2>1 DEF WantingIn
  <2>3. Reached(s) <= Reached(Q[m])
    <3>1. CASE m = c
      BY <1>2, <3>1
    <3>2. CASE m # c
      BY <2>2, <3>2
    <3> QED
      BY <3>1, <3>2
  <2>4. CASE x = c
    BY <1>2, <2>3, <2>4
  <2>5. CASE x # c
    <3>1. Q[x] = P[x] /\ P[x].count # 0
      BY <2>1, <2>5
    <3>2. ReachOf(P[x], P[x].count - 1) <= Reached(s)
      BY <2>1, <3>1 DEF PlanningGood, Even
    <3>3. CASE m # c
      BY <2>1, <2>2, <3>1, <3>3 DEF PlanningGood, Even
    <3>4. CASE m = c
      <4>1. ReachOf(P[x], P[x].count - 1) \in Int
        <5>1. EntryGood(P[x]) /\ P[x].target # 0
          BY <1>1, <2>1 DEF PlanGood, WantedIn
        <5>2. P[x].count - 1 \in Nat /\ P[x].count - 1 \in 0 .. (P[x].count - 1)
          BY <3>1, <5>1, EntryFacts
        <5> QED
          BY <5>1, <5>2, ReachGrows
      <4>2. Reached(s) \in Int /\ Reached(t) \in Int
        BY <1>1, <1>2, <1>7
      <4> QED
        BY <1>2, <3>1, <3>2, <3>4, <4>1, <4>2
    <3> QED
      BY <3>3, <3>4
  <2> QED
    BY <2>4, <2>5
<1>9. Counted(Q) = Counted(P) + 1
  <2> DEFINE f == [x \in WantedIn(P) |-> P[x].count]
             g == [x \in WantedIn(P) |-> Q[x].count]
  <2>1. Counted(P) = SumFunction(f) /\ Counted(Q) = SumFunction(g)
    BY <1>5 DEF Counted
  <2>2. IntFunction(f) /\ IntFunction(g)
    <3>1. IntFunction(f)
      BY <1>1, PlanSums
    <3>2. IntFunction([x \in WantedIn(Q) |-> Q[x].count])
      BY <1>3, PlanSums
    <3> QED
      BY <1>5, <3>1, <3>2
  <2>3. SameBut(f, g, c)
    BY DEF SameBut, WantedIn
  <2>4. Term(f, c) = s.count /\ Term(g, c) = s.count + 1
    BY <1>2, <1>5 DEF Term
  <2> HIDE DEF f, g
  <2>5. SumFunction(g) = SumFunction(f) - Term(f, c) + Term(g, c)
    BY <2>2, <2>3, SumChange
  <2>6. s.count \in Int /\ SumFunction(f) \in Int
    BY <1>1, <2>2, EntryFacts, SumFunctionType
  <2> HIDE DEF s
  <2> QED
    BY <2>1, <2>4, <2>5, <2>6
<1>10. Counted(P) \in Nat
  BY <1>1, PlanSums
<1> HIDE DEF P, Q
<1>11. q.left \in Nat /\ q.left + Counted(Q) = q.max
  <2>1. r.left \in Nat /\ r.left + Counted(P) = r.max
    BY DEF PlanningGood, P
  <2> QED
    BY <1>9, <1>10, <2>1
<1> QED
  BY <1>3, <1>6, <1>8, <1>11 DEF PlanningGood, P, Q

-----------------------------------------------------------------------------
(* The end of planning.                                                    *)

\* A plan to which nothing can be added is balanced: were there one of as many loans that
\* reaches more everywhere, the collateral that is furthest below its target would have
\* more loans in it, and no other collateral fewer.
LEMMA PlanBalanced ==
  ASSUME NEW r, PlanningGood(r), r.left = 0 \/ WantingIn(r.plan) = {},
         NEW m \in WantedIn(r.plan),
         \A x \in WantedIn(r.plan) : Reached(r.plan[m]) <= Reached(r.plan[x]),
         NEW counts \in [WantedIn(r.plan) -> 0 .. r.max], SumFunction(counts) <= r.max
  PROVE  \E c \in WantedIn(r.plan) : ReachOf(r.plan[c], counts[c]) <= Reached(r.plan[m])
<1> DEFINE P == r.plan
           W == WantedIn(P)
           F == Reached(P[m])
<1>1. /\ PlanGood(P) /\ Even(P) /\ r.left + Counted(P) = r.max /\ r.left \in Nat
      /\ r.max \in Nat
  BY DEF PlanningGood
<1>2. ASSUME NEW x \in W
      PROVE  /\ EntryGood(P[x]) /\ P[x].target # 0 /\ x \in DOMAIN P
             /\ P[x].count \in Nat /\ counts[x] \in Nat /\ counts[x] \in Int
             /\ Reached(P[x]) = ReachOf(P[x], P[x].count)
             /\ \A n \in Nat : ReachOf(P[x], n) \in Nat
  <2>1. EntryGood(P[x]) /\ P[x].target # 0 /\ x \in DOMAIN P
    BY <1>1 DEF PlanGood, WantedIn
  <2>2. P[x].count \in Nat /\ Reached(P[x]) = ReachOf(P[x], P[x].count)
    BY <2>1, EntryFacts
  <2>3. counts[x] \in 0 .. r.max
    OBVIOUS
  <2>4. ASSUME NEW n \in Nat PROVE ReachOf(P[x], n) \in Nat
    <3>1. n \in 0 .. n
      OBVIOUS
    <3> QED
      BY <2>1, <3>1, ReachGrows
  <2> QED
    BY <1>1, <2>1, <2>2, <2>3, <2>4
<1>3. SUFFICES ASSUME \A c \in W : ~(ReachOf(P[c], counts[c]) <= F) PROVE FALSE
  OBVIOUS
<1>4. F \in Nat /\ \A c \in W : F < ReachOf(P[c], counts[c])
  <2>1. F \in Nat
    BY <1>2
  <2>2. ASSUME NEW c \in W PROVE F < ReachOf(P[c], counts[c])
    <3>1. ReachOf(P[c], counts[c]) \in Nat /\ ~(ReachOf(P[c], counts[c]) <= F)
      BY <1>2, <1>3
    <3> QED
      BY <2>1, <3>1
  <2> QED
    BY <2>1, <2>2
<1> DEFINE s == P[m]
           n == s.count
           k == counts[m]
<1>5. /\ EntryGood(s) /\ s.target # 0 /\ n \in Nat /\ k \in Nat /\ F = ReachOf(s, n)
      /\ F < ReachOf(s, k) /\ ReachOf(s, k) \in Nat /\ m \in DOMAIN P
  BY <1>2, <1>4
<1>6. Len(s.debts) \in Nat /\ s.current \in Nat /\ s.target \in Nat /\ s.current <= s.target
  BY <1>5, EntryFacts
<1> HIDE DEF F, n, k
<1>7. n < k
  <2>1. SUFFICES ASSUME ~(n < k) PROVE FALSE
    OBVIOUS
  <2>2. k \in 0 .. n
    BY <1>5, <2>1
  <2>3. ReachOf(s, k) <= ReachOf(s, n)
    BY <1>5, <2>2, ReachGrows
  <2> QED
    BY <1>4, <1>5, <2>3
<1>8. n < Len(s.debts)
  <2>1. SUFFICES ASSUME ~(n < Len(s.debts)) PROVE FALSE
    OBVIOUS
  <2>2. n >= Len(s.debts) /\ n \in 0 .. k
    BY <1>5, <1>6, <1>7, <2>1
  <2>3. ReachOf(s, k) = ReachOf(s, n)
    BY <1>5, <2>2, ReachGrows
  <2> QED
    BY <1>4, <1>5, <2>3
<1>9. F < ONE
  <2>1. k \in 0 .. k /\ ONE \in Nat
    BY <1>5, DecimalAssumption
  <2>2. ReachOf(s, k) <= ONE
    BY <1>5, <2>1, ReachGrows
  <2> QED
    BY <1>4, <1>5, <2>1, <2>2
<1>10. s.current < s.target
  <2>1. SUFFICES ASSUME ~(s.current < s.target) PROVE FALSE
    OBVIOUS
  <2>2. s.current = s.target
    BY <1>6, <2>1
  <2>3. Reached(s) = Div(s.target, s.target)
    BY <2>2 DEF Reached
  <2>4. s.target \in Nat \ {0} /\ s.target <= s.target
    BY <1>5, <1>6
  <2>5. Div(s.target, s.target) = ONE
    BY <2>4, PartGrows
  <2> QED
    BY <1>4, <1>9, <2>3, <2>5 DEF F
<1>11. m \in WantingIn(P)
  <2>1. P[m].count < Len(P[m].debts)
    BY <1>8 DEF n
  <2> QED
    BY <1>5, <1>9, <1>10, <2>1 DEF WantingIn, F
<1>12. r.left = 0 /\ Counted(P) = r.max
  <2>1. r.left = 0
    BY <1>11
  <2>2. Counted(P) \in Nat
    BY <1>1, PlanSums
  <2> QED
    BY <1>1, <2>1, <2>2
<1>13. ASSUME NEW c \in W PROVE P[c].count <= counts[c]
  <2>1. SUFFICES ASSUME ~(P[c].count <= counts[c]) PROVE FALSE
    OBVIOUS
  <2>2. P[c].count \in Nat /\ counts[c] \in Nat /\ EntryGood(P[c]) /\ P[c].target # 0
        /\ ReachOf(P[c], counts[c]) \in Nat
    BY <1>2
  <2>3. P[c].count # 0 /\ P[c].count - 1 \in Nat /\ counts[c] \in 0 .. (P[c].count - 1)
    BY <2>1, <2>2
  <2>4. ReachOf(P[c], P[c].count - 1) <= F
    BY <1>1, <1>11, <2>3 DEF Even, F
  <2>5. ReachOf(P[c], counts[c]) <= ReachOf(P[c], P[c].count - 1)
        /\ ReachOf(P[c], P[c].count - 1) \in Nat
    BY <2>2, <2>3, ReachGrows
  <2>6. F < ReachOf(P[c], counts[c])
    BY <1>4
  <2> QED
    BY <1>4, <2>2, <2>4, <2>5, <2>6
<1> DEFINE f == [x \in W |-> P[x].count]
<1>14. /\ IsFiniteSet(W) /\ Counted(P) = SumFunctionOnSet(f, W) /\ Counted(P) \in Nat
       /\ DOMAIN counts = W
  <2>1. IsFiniteSet(W) /\ Counted(P) \in Nat
    BY <1>1, PlanSums
  <2>2. DOMAIN f = W /\ DOMAIN counts = W
    OBVIOUS
  <2> QED
    BY <2>1, <2>2 DEF Counted, SumFunction
<1>15. \A x \in W : f[x] \in Int /\ counts[x] \in Int /\ f[x] <= counts[x]
  BY <1>2, <1>13
<1>16. f[m] < counts[m]
  BY <1>7 DEF n, k
<1> HIDE DEF f
<1>17. SumFunctionOnSet(f, W) < SumFunctionOnSet(counts, W)
  BY <1>14, <1>15, <1>16, SumRises
<1>18. SumFunctionOnSet(counts, W) = SumFunction(counts)
  BY <1>14 DEF SumFunction
<1>19. SumFunctionOnSet(counts, W) \in Int
  BY <1>14, <1>15, SumType
<1> QED
  BY <1>1, <1>12, <1>14, <1>17, <1>18, <1>19

\* No other choice of as many loans reaches more than r.fraction everywhere (RouteBalanced,
\* of any route).
Balanced(r) ==
  WantedIn(r.plan) # {} =>
    \A counts \in [WantedIn(r.plan) -> 0 .. r.max] :
      SumFunction(counts) <= r.max
        => \E c \in WantedIn(r.plan) : ReachOf(r.plan[c], counts[c]) <= r.fraction

\* A route that redeems.
RedeemingGood(r) ==
  /\ DOMAIN r = {"stage", "max", "plan", "fraction", "payment", "share", "batch"}
  /\ r.stage = "redeeming"
  /\ r.max \in Nat /\ r.payment \in Nat
  /\ PlanGood(r.plan) /\ Balanced(r)
  /\ r.fraction \in 0 .. ONE /\ r.share \in 0 .. ONE
  /\ DOMAIN r.batch \subseteq DOMAIN r.plan
  /\ \A c \in DOMAIN r.batch : r.batch[c] \in [payment : Nat, count : Nat]

\* The names of the running route's plan are those of any.
LEMMA PlanNames ==
  /\ Wanted = WantedIn(route.plan) /\ Wanting = WantingIn(route.plan)
  /\ \A c : Fraction(c) = Reached(route.plan[c])
  /\ \A c, n : Reach(c, n) = ReachOf(route.plan[c], n)
BY DEF Wanted, WantedIn, Wanting, WantingIn, Fraction, Reached, Reach, ReachOf, FirstOwed

\* What a collateral that wants redemptions has reached is a part of its target.
LEMMA ReachedPart ==
  ASSUME NEW s, EntryGood(s), s.target # 0
  PROVE  Reached(s) \in 0 .. ONE
<1>1. s.count \in Nat /\ s.count \in 0 .. s.count /\ Reached(s) = ReachOf(s, s.count)
      /\ ONE \in Nat
  BY EntryFacts, DecimalAssumption
<1>2. ReachOf(s, s.count) \in Nat /\ ReachOf(s, s.count) <= ONE
  BY <1>1, ReachGrows
<1> QED
  BY <1>1, <1>2

\* The part of their targets that all collaterals reach is that of the furthest below.
LEMMA LeastReached ==
  ASSUME PlanGood(route.plan)
  PROVE  /\ MinFraction \in 0 .. ONE
         /\ Wanted # {} =>
              \E m \in Wanted : /\ MinFraction = Reached(route.plan[m])
                                /\ \A x \in Wanted : Reached(route.plan[m]) <= Reached(route.plan[x])
<1> DEFINE P == route.plan
           S == {Fraction(c) : c \in Wanted}
<1>1. IsFiniteSet(Wanted)
  BY PlanNames, PlanSums
<1>2. \A c \in Wanted : Reached(P[c]) \in 0 .. ONE /\ Fraction(c) = Reached(P[c])
  <2> SUFFICES ASSUME NEW c \in Wanted
               PROVE  Reached(P[c]) \in 0 .. ONE /\ Fraction(c) = Reached(P[c])
    OBVIOUS
  <2>1. EntryGood(P[c]) /\ P[c].target # 0
    BY DEF PlanGood, Wanted
  <2> QED
    BY <2>1, ReachedPart, PlanNames
<1>3. ONE \in Nat
  BY DecimalAssumption
<1>4. CASE Wanted = {}
  BY <1>3, <1>4 DEF MinFraction
<1>5. CASE Wanted # {}
  <2>1. MinFraction = Min(S)
    BY <1>5 DEF MinFraction
  <2>2. IsFiniteSet(S)
    <3> DEFINE img(c) == Fraction(c)
    <3>1. S = {img(c) : c \in Wanted}
      OBVIOUS
    <3> HIDE DEF img
    <3>2. \E h : h \in Surjection(Wanted, {img(c) : c \in Wanted})
      <4> DEFINE h == [c \in Wanted |-> img(c)]
      <4>1. h \in Surjection(Wanted, {img(c) : c \in Wanted})
        BY DEF Surjection
      <4> QED
        BY <4>1
    <3>3. IsFiniteSet({img(c) : c \in Wanted})
      BY <1>1, <3>2, FS_Surjection
    <3> QED
      BY <3>1, <3>3
  <2>3. S # {} /\ S \subseteq 0 .. ONE /\ S \subseteq Nat
    BY <1>2, <1>3, <1>5
  <2>4. \E x \in S : \A y \in S : x <= y
    BY <2>2, <2>3, LeastExists
  <2>5. Min(S) \in S /\ \A y \in S : Min(S) <= y
    <3> HIDE DEF S
    <3> QED
      BY <2>4 DEF Min
  <2>6. PICK m \in Wanted : Min(S) = Fraction(m)
    BY <2>5
  <2>7. \A x \in Wanted : Fraction(m) <= Fraction(x)
    BY <2>5, <2>6
  <2> QED
    BY <1>2, <2>1, <2>3, <2>5, <2>6, <2>7
<1> QED
  BY <1>4, <1>5

\* Part of a target, and no more than its loans.
LEMMA PlannedWithin ==
  ASSUME PlanGood(route.plan), NEW c \in Wanted
  PROVE  /\ Planned(c) \in Nat /\ Planned(c) <= route.plan[c].target
         /\ route.plan[c].target \in Nat /\ route.plan[c].count \in Nat /\ c \in DOMAIN route.plan
<1> DEFINE s == route.plan[c]
<1>1. EntryGood(s) /\ c \in DOMAIN route.plan
  BY DEF PlanGood, Wanted
<1>2. s.target \in Nat /\ s.current \in Nat /\ s.count \in Nat /\ s.current <= s.target
  BY <1>1, EntryFacts
<1>3. MinFraction \in 0 .. ONE
  BY LeastReached
<1>4. Mul(s.target, MinFraction) \in Nat
  BY <1>2, <1>3, MulShare
<1>5. Planned(c) = Lesser(s.current, Mul(s.target, MinFraction))
  BY DEF Planned
<1> HIDE DEF s
<1>6. Planned(c) \in Nat /\ Planned(c) <= s.current
  BY <1>2, <1>4, <1>5 DEF Lesser
<1>7. Planned(c) <= s.target
  BY <1>2, <1>6
<1> QED
  BY <1>1, <1>2, <1>6, <1>7 DEF s

\* What is planned for some of the collaterals is no more than the payment.
LEMMA PlannedSum ==
  ASSUME PlanningGood(route), NEW S \in SUBSET Wanted
  PROVE  /\ SumFunction([c \in S |-> Planned(c)]) \in Nat
         /\ SumFunction([c \in S |-> Planned(c)]) <= route.payment
<1> DEFINE P == route.plan
           f == [c \in S |-> Planned(c)]
           g == [c \in DOMAIN P |-> P[c].target]
<1>1. PlanGood(P) /\ Targets(P) <= route.payment /\ route.payment \in Nat
  BY DEF PlanningGood
<1>2. /\ IsFiniteSet(DOMAIN P) /\ Targets(P) = SumFunctionOnSet(g, DOMAIN P)
      /\ Targets(P) \in Nat
  BY <1>1, PlanSums DEF PlanGood
<1>3. S \subseteq DOMAIN P
  BY DEF Wanted
<1>4. IsFiniteSet(S)
  BY <1>2, <1>3, FS_Subset
<1>5. \A c \in S : f[c] \in Nat /\ f[c] <= g[c] /\ g[c] \in Nat
  BY <1>1, <1>3, PlannedWithin
<1>6. \A c \in DOMAIN P : g[c] \in Nat
  BY <1>1, EntryFacts DEF PlanGood
<1>7. DOMAIN f = S
  OBVIOUS
<1> HIDE DEF f, g, P
<1>8. SumFunctionOnSet(f, S) \in Nat
  BY <1>4, <1>5, SumNatural
<1>9. SumFunctionOnSet(f, S) <= SumFunctionOnSet(g, S)
  <2>1. \A c \in S : f[c] \in Int /\ g[c] \in Int /\ f[c] <= g[c]
    BY <1>5
  <2> QED
    BY <1>4, <2>1, SumGrows
<1>10. SumFunctionOnSet(g, S) <= SumFunctionOnSet(g, DOMAIN P)
  BY <1>2, <1>3, <1>6, SumOfMore
<1>11. SumFunctionOnSet(g, S) \in Int
  BY <1>4, <1>5, SumType
<1>12. SumFunction(f) = SumFunctionOnSet(f, S)
  BY <1>7 DEF SumFunction
<1>13. SumFunctionOnSet(f, S) <= route.payment
  BY <1>1, <1>2, <1>8, <1>9, <1>10, <1>11
<1> QED
  BY <1>8, <1>12, <1>13 DEF f

\* The fee's base rate and parameters, of no later time than now.
FeeGood ==
  fee \in [base : Nat, last : 0 .. now, max : 0 .. ONE, min : 0 .. ONE, spike : Nat]

\* The end of planning leaves a route that redeems.
LEMMA FinishGood ==
  ASSUME PlanningGood(route), FluxGood, FeeGood, FinishPlan
  PROVE  RedeemingGood(route') /\ route'.plan = route.plan /\ FeeGood'
<1> DEFINE used == SumFunction([c \in Wanted |-> Planned(c)])
           spike == Mul(fee.spike, Div(used, flux.circulating))
           rate == DecayedRate + spike \div 2
           chosen == {c \in Wanted : route.plan[c].count # 0 /\ Planned(c) # 0}
           paid == SumFunction([c \in chosen |-> Planned(c)])
           share == ONE - Lesser(fee.max, rate + fee.min)
           batch == [c \in chosen |-> [payment |-> Planned(c), count |-> route.plan[c].count]]
<1>1. /\ route.left = 0 \/ Wanting = {}
      /\ flux.circulating # 0 /\ now' = now
      /\ fee' = [fee EXCEPT !.base = DecayedRate + spike]
      /\ route' = [stage |-> "redeeming", max |-> route.max, plan |-> route.plan,
                   fraction |-> MinFraction, payment |-> route.payment - paid,
                   share |-> share, batch |-> batch]
  BY DEF FinishPlan, vars
<1>2. /\ PlanGood(route.plan) /\ route.max \in Nat /\ route.payment \in Nat
  BY DEF PlanningGood
<1>3. used \in Nat /\ paid \in Nat /\ paid <= route.payment
  BY PlannedSum
<1>4. \A c \in chosen : /\ c \in DOMAIN route.plan /\ Planned(c) \in Nat
                        /\ route.plan[c].count \in Nat
  BY <1>2, PlannedWithin
<1> HIDE DEF used, paid
<1>5. /\ fee.base \in Nat /\ fee.last \in 0 .. now /\ fee.max \in 0 .. ONE
      /\ fee.min \in 0 .. ONE /\ fee.spike \in Nat
      /\ DOMAIN fee = {"base", "last", "max", "min", "spike"}
  BY DEF FeeGood
<1>6. ONE \in Nat /\ now \in Nat /\ now \in 0 .. MaxTime /\ flux.circulating \in Nat \ {0}
  BY <1>1, GoodMeans, DecimalAssumption
<1>7. spike \in Nat
  <2>1. Div(used, flux.circulating) \in Nat
    BY <1>3, <1>6, DivNat
  <2> QED
    BY <1>5, <2>1, MulNat
<1>8. DecayedRate \in Nat
  <2>1. now - fee.last \in 0 .. MaxTime
    BY <1>5, <1>6, TimeAssumption
  <2>2. Decay[now - fee.last] \in 0 .. ONE
    BY <2>1, RouteAssumption
  <2> QED
    BY <1>5, <2>2, MulShare DEF DecayedRate
<1> HIDE DEF spike
<1>9. rate \in Nat
  BY <1>7, <1>8
<1> HIDE DEF rate
<1>10. share \in 0 .. ONE
  BY <1>5, <1>6, <1>9 DEF Lesser
<1> HIDE DEF share
<1>11. MinFraction \in 0 .. ONE
  BY <1>2, LeastReached
<1>12. FeeGood'
  <2>1. DecayedRate + spike \in Nat
    BY <1>7, <1>8
  <2>2. fee' \in [base : Nat, last : 0 .. now, max : 0 .. ONE, min : 0 .. ONE, spike : Nat]
    BY <1>1, <2>1 DEF FeeGood
  <2> QED
    BY <1>1, <2>2 DEF FeeGood
<1>13. /\ DOMAIN batch \subseteq DOMAIN route.plan
       /\ \A c \in DOMAIN batch : batch[c] \in [payment : Nat, count : Nat]
  BY <1>4
<1> HIDE DEF batch, chosen
<1>14. /\ DOMAIN route' = {"stage", "max", "plan", "fraction", "payment", "share", "batch"}
       /\ route'.stage = "redeeming" /\ route'.max = route.max /\ route'.plan = route.plan
       /\ route'.fraction = MinFraction /\ route'.payment = route.payment - paid
       /\ route'.share = share /\ route'.batch = batch
  BY <1>1
<1>15. route'.payment \in Nat
  BY <1>2, <1>3, <1>14
<1>16. Balanced(route')
  <2>1. SUFFICES ASSUME Wanted # {}, NEW counts \in [Wanted -> 0 .. route.max],
                        SumFunction(counts) <= route.max
                 PROVE  \E c \in Wanted : ReachOf(route.plan[c], counts[c]) <= MinFraction
    BY <1>14, PlanNames DEF Balanced
  <2>2. PICK m \in Wanted : /\ MinFraction = Reached(route.plan[m])
                            /\ \A x \in Wanted : Reached(route.plan[m]) <= Reached(route.plan[x])
    BY <1>2, <2>1, LeastReached
  <2>3. Wanted = WantedIn(route.plan) /\ Wanting = WantingIn(route.plan)
    BY PlanNames
  <2>4. route.left = 0 \/ WantingIn(route.plan) = {}
    BY <1>1, <2>3
  <2>5. /\ m \in WantedIn(route.plan)
        /\ \A x \in WantedIn(route.plan) : Reached(route.plan[m]) <= Reached(route.plan[x])
        /\ counts \in [WantedIn(route.plan) -> 0 .. route.max]
    BY <2>2, <2>3
  <2>6. \E c \in WantedIn(route.plan) : ReachOf(route.plan[c], counts[c]) <= Reached(route.plan[m])
    BY <2>1, <2>4, <2>5, PlanBalanced
  <2> QED
    BY <2>2, <2>3, <2>6
<1> QED
  BY <1>2, <1>10, <1>11, <1>12, <1>13, <1>14, <1>15, <1>16 DEF RedeemingGood

-----------------------------------------------------------------------------
(* The inductive invariant of the routes.                                  *)

\* The prices of a running route are fresh.
RouteFresh ==
  route # NoRoute =>
    /\ DOMAIN route.plan \subseteq DOMAIN pools
    /\ \A c \in DOMAIN route.plan : FreshPrice(oracle, c, flux.collaterals[c].price)

\* Flux and the pools are as between the calls of a transaction, the oracle keeps what it
\* promises, and the running route, if there is one, is planned or redeems at fresh prices.
RouteInv ==
  /\ FluxGood /\ PoolsReady /\ OracleGood(oracle) /\ FeeGood
  /\ route = NoRoute \/ PlanningGood(route) \/ RedeemingGood(route)
  /\ RouteFresh

\* The three kinds of routes differ in their stage.
LEMMA Stages ==
  /\ NoRoute.stage = "none"
  /\ \A r : PlanningGood(r) => r.stage = "planning" /\ r # NoRoute
  /\ \A r : RedeemingGood(r) => r.stage = "redeeming" /\ r # NoRoute
<1>1. NoRoute.stage = "none"
  BY DEF NoRoute
<1>2. \A r : PlanningGood(r) => r.stage = "planning"
  BY DEF PlanningGood
<1>3. \A r : RedeemingGood(r) => r.stage = "redeeming"
  BY DEF RedeemingGood
<1> QED
  BY <1>1, <1>2, <1>3

\* The stage tells them apart.
LEMMA StageMeans ==
  ASSUME RouteInv
  PROVE  /\ route.stage = "none" => route = NoRoute
         /\ route.stage = "planning" => PlanningGood(route) /\ route # NoRoute
         /\ route.stage = "redeeming" => RedeemingGood(route) /\ route # NoRoute
<1>1. route = NoRoute \/ PlanningGood(route) \/ RedeemingGood(route)
  BY DEF RouteInv
<1> QED
  BY <1>1, Stages

\* As long as the clock stands still, a state of the oracle is as good as it was.
LEMMA OracleStill ==
  ASSUME now' = now, NEW o
  PROVE  /\ oracle' = o /\ OracleGood(o) => OracleGood(oracle)'
         /\ fee' = fee /\ FeeGood => FeeGood'
BY DEF OracleGood, FeeGood

\* And the prices it let pass are as fresh, as long as the markets and ages are the same.
LEMMA FreshStill ==
  ASSUME now' = now, oracle'.identifiers = oracle.identifiers,
         oracle'.maxPriceAge = oracle.maxPriceAge,
         oracle'.maxMultiplierAge = oracle.maxMultiplierAge,
         route' # NoRoute, DOMAIN route'.plan \subseteq DOMAIN pools',
         \A c \in DOMAIN route'.plan : FreshPrice(oracle, c, flux'.collaterals[c].price)
  PROVE  RouteFresh'
<1>1. ASSUME NEW c, NEW base
      PROVE  QuoteFor(oracle, c, base) <=> QuoteFor(oracle', c, base)
  BY DEF QuoteFor
<1>2. ASSUME NEW c, NEW base
      PROVE  QuoteFor(oracle', c, base) <=> (QuoteFor(oracle, c, base))'
  BY DEF QuoteFor
<1>3. ASSUME NEW c \in DOMAIN route'.plan
      PROVE  (FreshPrice(oracle, c, flux.collaterals[c].price))'
  <2> DEFINE price == flux'.collaterals[c].price
  <2>1. FreshPrice(oracle, c, price)
    OBVIOUS
  <2>2. CASE c = LsuLp
    <3>1. PICK base \in Nat \ {0}, t \in 0 .. now :
            /\ QuoteFor(oracle, c, base) /\ now <= t + oracle.maxMultiplierAge
            /\ price = Mul(base, LsuValue[t])
      BY <2>1, <2>2 DEF FreshPrice
    <3>2. (QuoteFor(oracle, c, base))'
      BY <1>1, <1>2, <3>1
    <3>3. t \in 0 .. now' /\ now' <= t + oracle'.maxMultiplierAge
      BY <3>1
    <3> QED
      BY <2>2, <3>1, <3>2, <3>3 DEF FreshPrice
  <2>3. CASE c # LsuLp
    <3>1. QuoteFor(oracle, c, price)
      BY <2>1, <2>3 DEF FreshPrice
    <3>2. (QuoteFor(oracle, c, flux.collaterals[c].price))'
      BY <1>1, <1>2, <3>1
    <3> QED
      BY <2>3, <3>2 DEF FreshPrice
  <2> QED
    BY <2>2, <2>3
<1> QED
  BY <1>3 DEF RouteFresh

\* A call that leaves the pools alone leaves them ready.
LEMMA PoolsStill ==
  ASSUME PoolsReady, now' = now, Listed' = Listed, wallet' \in Nat, UNCHANGED poolVars
  PROVE  PoolsReady'
BY DEF PoolsReady, PoolsTyped, poolVars

\* A step of planning touches neither Flux nor the pools nor the oracle.
LEMMA NothingTouched ==
  ASSUME RouteInv, UNCHANGED <<vars, poolVars, oracle>>, wallet' \in Nat
  PROVE  /\ FluxGood' /\ PoolsReady' /\ OracleGood(oracle)' /\ now' = now
         /\ (route' # NoRoute /\ route # NoRoute /\ route'.plan = route.plan) => RouteFresh'
         /\ route' = NoRoute => RouteFresh'
<1>1. /\ flux' = flux /\ held' = held /\ unbacked' = unbacked /\ now' = now
      /\ Listed' = Listed /\ oracle' = oracle
      /\ UNCHANGED vars /\ UNCHANGED poolVars /\ pools' = pools
  BY DEF vars, Listed, poolVars
<1>2. FluxGood'
  <2>1. AccountInv'
    BY <1>1, GoodMeans, NothingKept DEF RouteInv, FluxKept
  <2> QED
    BY <1>1, <2>1, NoCallGood DEF RouteInv
<1>3. PoolsReady'
  BY <1>1, PoolsStill DEF RouteInv
<1>4. OracleGood(oracle)'
  BY <1>1, OracleStill DEF RouteInv
<1>5. ASSUME route' # NoRoute, route # NoRoute, route'.plan = route.plan PROVE RouteFresh'
  <2>1. /\ DOMAIN route'.plan \subseteq DOMAIN pools'
        /\ \A x \in DOMAIN route'.plan : FreshPrice(oracle, x, flux'.collaterals[x].price)
    BY <1>1, <1>5 DEF RouteInv, RouteFresh
  <2> QED
    BY <1>1, <1>5, <2>1, FreshStill
<1>6. route' = NoRoute => RouteFresh'
  BY DEF RouteFresh
<1> QED
  BY <1>1, <1>2, <1>3, <1>4, <1>5, <1>6

\* get_optimal_redemption_route adds a loan to the plan.
LEMMA PlanRedemptionStep ==
  ASSUME RouteInv, PlanRedemption
  PROVE  RouteInv'
<1>1. PlanningGood(route) /\ route # NoRoute /\ route.left > 0
  BY SMTT(30), StageMeans DEF PlanRedemption
<1>2. PICK c \in Wanting :
        /\ FurthestBelow(c)
        /\ route' = [route EXCEPT
             !.left = @ - 1,
             !.plan[c].current = Lesser(route.plan[c].target,
                                        @ + route.plan[c].debts[route.plan[c].count + 1]),
             !.plan[c].count = @ + 1]
  BY DEF PlanRedemption
<1>3. UNCHANGED <<vars, wallet, poolVars, oracle, fee, edits>>
  BY DEF PlanRedemption
<1>4. c \in WantingIn(route.plan) /\ c \in DOMAIN route.plan
  BY PlanNames DEF WantingIn
<1>5. \A other \in WantingIn(route.plan) : Reached(route.plan[c]) <= Reached(route.plan[other])
  BY <1>2, PlanNames DEF FurthestBelow
<1>6. DOMAIN route = {"stage", "payment", "max", "left", "plan"} /\ EntryGood(route.plan[c])
  BY <1>1, <1>4 DEF PlanningGood, PlanGood
<1>7. DOMAIN route.plan[c] = {"target", "current", "count", "debts"}
  BY SMTT(30), <1>6 DEF EntryGood, PlanEntry
<1>8. /\ DOMAIN route' = DOMAIN route /\ route'.stage = route.stage
      /\ route'.payment = route.payment /\ route'.max = route.max
      /\ route'.left = route.left - 1 /\ DOMAIN route'.plan = DOMAIN route.plan
      /\ \A x \in DOMAIN route.plan \ {c} : route'.plan[x] = route.plan[x]
  BY <1>2, <1>6
<1>9. route'.plan[c] = OneMore(route.plan[c])
  BY <1>2, <1>4, <1>6, <1>7 DEF OneMore
<1>10. PlanningGood(route')
  BY <1>1, <1>4, <1>5, <1>8, <1>9, PlanGrows
<1>11. /\ UNCHANGED <<vars, poolVars, oracle>> /\ flux' = flux /\ now' = now
       /\ oracle' = oracle /\ fee' = fee /\ pools' = pools
  BY <1>3 DEF vars, poolVars
<1>12. wallet' \in Nat
  BY <1>3 DEF RouteInv, PoolsReady
<1>13. FluxGood' /\ PoolsReady' /\ OracleGood(oracle)'
  BY <1>11, <1>12, NothingTouched
<1>14. FeeGood'
  BY <1>11, OracleStill DEF RouteInv
<1>15. RouteFresh'
  <2>1. route' # NoRoute
    BY <1>10, Stages
  <2>2. /\ DOMAIN route'.plan \subseteq DOMAIN pools'
        /\ \A x \in DOMAIN route'.plan : FreshPrice(oracle, x, flux'.collaterals[x].price)
    BY <1>1, <1>8, <1>11 DEF RouteInv, RouteFresh
  <2> QED
    BY <1>11, <2>1, <2>2, FreshStill
<1> QED
  BY <1>10, <1>13, <1>14, <1>15 DEF RouteInv

\* The end of planning.
LEMMA FinishPlanStep ==
  ASSUME RouteInv, FinishPlan
  PROVE  RouteInv'
<1>1. PlanningGood(route) /\ route # NoRoute
  BY StageMeans DEF FinishPlan
<1>2. UNCHANGED <<vars, wallet, poolVars, oracle, edits>>
  BY DEF FinishPlan
<1>3. RedeemingGood(route') /\ route'.plan = route.plan /\ FeeGood'
  BY <1>1, FinishGood DEF RouteInv
<1>4. route' # NoRoute
  BY <1>3, Stages
<1>5. UNCHANGED <<vars, poolVars, oracle>> /\ wallet' \in Nat
  BY <1>2 DEF RouteInv, PoolsReady
<1>6. FluxGood' /\ PoolsReady' /\ OracleGood(oracle)' /\ RouteFresh'
  BY <1>1, <1>3, <1>4, <1>5, NothingTouched
<1> QED
  BY <1>3, <1>6 DEF RouteInv

\* What is left of a route's payment returns to the caller.
LEMMA FinishRouteStep ==
  ASSUME RouteInv, FinishRoute
  PROVE  RouteInv'
<1> DEFINE left == [c \in DOMAIN route.batch |-> route.batch[c].payment]
<1>1. RedeemingGood(route)
  BY StageMeans DEF FinishRoute
<1>2. /\ UNCHANGED <<vars, poolVars, oracle, fee, edits>> /\ route' = NoRoute
      /\ wallet' = wallet + route.payment + SumFunction(left)
  BY DEF FinishRoute
<1>3. /\ route.payment \in Nat /\ wallet \in Nat
      /\ IsFiniteSet(DOMAIN route.plan) /\ DOMAIN route.batch \subseteq DOMAIN route.plan
      /\ \A c \in DOMAIN route.batch : route.batch[c].payment \in Nat
  BY <1>1 DEF RedeemingGood, PlanGood, RouteInv, PoolsReady
<1>4. IsFiniteSet(DOMAIN route.batch)
  BY <1>3, FS_Subset
<1>5. DOMAIN left = DOMAIN route.batch /\ \A c \in DOMAIN route.batch : left[c] \in Nat
  BY <1>3
<1> HIDE DEF left
<1>6. SumFunction(left) \in Nat
  BY <1>4, <1>5, SumNatural DEF SumFunction
<1>7. wallet' \in Nat /\ UNCHANGED <<vars, poolVars, oracle>> /\ fee' = fee
  BY <1>2, <1>3, <1>6
<1>8. /\ FluxGood' /\ PoolsReady' /\ OracleGood(oracle)' /\ RouteFresh' /\ now' = now
  BY <1>2, <1>7, NothingTouched
<1>9. FeeGood'
  BY <1>7, <1>8, OracleStill DEF RouteInv
<1> QED
  BY <1>2, <1>8, <1>9 DEF RouteInv

\* One loan of the batch: what it burns comes off the batch, and every price stays.
LEMMA RedeemNextStep ==
  ASSUME RouteInv, RedeemNext
  PROVE  RouteInv'
<1> DEFINE c == CHOOSE c \in Pending : TRUE
           b == route.batch[c]
<1>1. RedeemingGood(route) /\ route # NoRoute
  BY StageMeans DEF RedeemNext
<1>2. c \in Pending
  BY DEF RedeemNext
<1>3. /\ Redemption(c, b.payment, route.share, flux.collaterals[c].price)
      /\ route' = [route EXCEPT !.batch[c].payment = @ - (held - held'),
                                !.batch[c].count = @ - 1]
      /\ fee' = [fee EXCEPT !.last = IF RatesInUse(flux, c) = {} THEN @ ELSE now]
      /\ UNCHANGED <<wallet, poolVars, oracle, edits>>
  BY DEF RedeemNext
<1>4. /\ c \in DOMAIN route.batch /\ b.count # 0
  BY <1>2 DEF Pending
<1>5. /\ DOMAIN route = {"stage", "max", "plan", "fraction", "payment", "share", "batch"}
      /\ b \in [payment : Nat, count : Nat] /\ c \in DOMAIN route.plan
      /\ route.share \in 0 .. ONE
  BY <1>1, <1>4 DEF RedeemingGood
<1>6. c \in Listed
  <2>1. c \in DOMAIN pools
    BY <1>1, <1>5 DEF RouteInv, RouteFresh
  <2> QED
    BY <2>1 DEF RouteInv, PoolsReady, PoolsTyped
<1> HIDE DEF c
<1>7. b.payment \in Nat /\ b.count \in Nat /\ DOMAIN b = {"payment", "count"}
  BY <1>5
<1>8. FluxGood' /\ FluxKept /\ Kin(flux, flux') /\ held - held' \in 0 .. b.payment
  BY <1>3, <1>5, <1>6, <1>7, RedemptionGood DEF RouteInv
<1>9. now' = now /\ Listed' = Listed
  BY <1>8 DEF FluxKept
<1> DEFINE burnt == held - held'
<1>10. burnt \in 0 .. b.payment
  BY <1>8
<1> HIDE DEF burnt
<1>11. /\ DOMAIN route' = DOMAIN route /\ route'.stage = route.stage /\ route'.max = route.max
       /\ route'.plan = route.plan /\ route'.fraction = route.fraction
       /\ route'.payment = route.payment /\ route'.share = route.share
       /\ DOMAIN route'.batch = DOMAIN route.batch
       /\ \A x \in DOMAIN route.batch \ {c} : route'.batch[x] = route.batch[x]
  BY <1>3, <1>5
<1>12. route'.batch[c] = [b EXCEPT !.payment = @ - burnt, !.count = @ - 1]
  BY <1>3, <1>4, <1>5 DEF burnt
<1>13. route'.batch[c] \in [payment : Nat, count : Nat]
  <2>1. b.payment - burnt \in Nat /\ b.count - 1 \in Nat
    BY <1>4, <1>7, <1>10
  <2>2. route'.batch[c] = [payment |-> b.payment - burnt, count |-> b.count - 1]
    BY <1>7, <1>12
  <2> QED
    BY <2>1, <2>2
<1>14. RedeemingGood(route')
  <2>1. \A x \in DOMAIN route'.batch : route'.batch[x] \in [payment : Nat, count : Nat]
    BY <1>1, <1>11, <1>13 DEF RedeemingGood
  <2>2. Balanced(route')
    BY <1>1, <1>11 DEF RedeemingGood, Balanced
  <2> QED
    BY <1>1, <1>11, <2>1, <2>2 DEF RedeemingGood
<1>15. route' # NoRoute
  BY <1>14, Stages
<1>16. UNCHANGED poolVars /\ pools' = pools /\ wallet' \in Nat /\ oracle' = oracle
  BY <1>3 DEF poolVars, RouteInv, PoolsReady
<1>17. PoolsReady'
  BY <1>9, <1>16, PoolsStill DEF RouteInv
<1>18. OracleGood(oracle)'
  BY <1>9, <1>16, OracleStill DEF RouteInv
<1>19. FeeGood'
  <2>1. fee.last \in 0 .. now /\ now \in 0 .. now
    BY GoodMeans DEF RouteInv, FeeGood
  <2> QED
    BY <1>3, <1>9, <2>1 DEF RouteInv, FeeGood
<1>20. RouteFresh'
  <2>1. ASSUME NEW x \in DOMAIN route'.plan
        PROVE  FreshPrice(oracle, x, flux'.collaterals[x].price)
    <3>1. x \in DOMAIN route.plan /\ x \in DOMAIN pools
      BY <1>1, <1>11, <2>1 DEF RouteInv, RouteFresh
    <3>2. x \in DOMAIN flux.collaterals
      BY <3>1 DEF RouteInv, PoolsReady, PoolsTyped, Listed
    <3>3. flux'.collaterals[x].price = flux.collaterals[x].price
      BY <1>8, <3>2 DEF Kin
    <3> QED
      BY <1>1, <3>1, <3>3 DEF RouteInv, RouteFresh
  <2>2. DOMAIN route'.plan \subseteq DOMAIN pools'
    BY <1>1, <1>11, <1>16 DEF RouteInv, RouteFresh
  <2> QED
    BY <1>9, <1>15, <1>16, <2>1, <2>2, FreshStill
<1> QED
  BY <1>8, <1>14, <1>17, <1>18, <1>19, <1>20 DEF RouteInv

-----------------------------------------------------------------------------
(* The calls between routes.                                               *)

\* What is left to show of a call that begins no route.
LEMMA NoRouteKept ==
  ASSUME FluxGood', PoolsReady', OracleGood(oracle)', FeeGood', route' = NoRoute
  PROVE  RouteInv'
BY DEF RouteInv, RouteFresh

\* A call at a price that the oracle checked for one collateral.
LEMMA PricedCallStep ==
  ASSUME RouteInv, QuotesPositive, PricedCall, fee' = fee, route' = NoRoute
  PROVE  RouteInv'
<1> DEFINE Opened(c, checked) ==
             /\ \E deposit \in Deposits, mint \in Mints, i \in Interests :
                  OpenCdp(c, deposit, mint, i, Nobody, checked.prices[c])
             /\ Receive(held' - held)
             /\ UNCHANGED poolVars
           Gave(c, checked) ==
             \E fusd \in Contributions : ContributeToPool(c, fusd, TRUE, checked.prices[c])
<1>0. \E c \in Listed, message \in Messages :
        /\ CheckPriceInput(c, message).valid
        /\ oracle' = CheckPriceInput(c, message).oracle
        /\ \/ Opened(c, CheckPriceInput(c, message))
           \/ Gave(c, CheckPriceInput(c, message))
  BY DEF PricedCall
<1>1. PICK c \in Listed, message \in Messages :
        /\ CheckPriceInput(c, message).valid
        /\ oracle' = CheckPriceInput(c, message).oracle
        /\ \/ Opened(c, CheckPriceInput(c, message))
           \/ Gave(c, CheckPriceInput(c, message))
  <2> HIDE DEF Opened, Gave
  <2> QED
    BY <1>0
<1> DEFINE checked == CheckPriceInput(c, message)
           price == checked.prices[c]
<1>2. /\ FluxGood /\ PoolsReady /\ OracleGood(oracle) /\ FeeGood /\ AccountInv
      /\ now \in 0 .. MaxTime /\ c \in DOMAIN pools
  BY GoodMeans DEF RouteInv, PoolsReady, PoolsTyped
<1>3. message.created \in 0 .. now
  BY DEF Messages
<1>4. Checked(checked) /\ c \in DOMAIN checked.prices
  BY <1>1, <1>2, <1>3, PriceChecked
<1>5. FreshPrice(oracle, c, price) /\ OracleGood(checked.oracle)
  BY <1>4 DEF Checked
<1>6. price \in Nat \ {0} /\ price \in Nat
  BY <1>2, <1>5, FreshPositive
<1>7. /\ oracle' = checked.oracle
      /\ \/ /\ \E deposit \in Deposits, mint \in Mints, i \in Interests :
                 OpenCdp(c, deposit, mint, i, Nobody, price)
            /\ Receive(held' - held)
            /\ UNCHANGED poolVars
         \/ \E fusd \in Contributions : ContributeToPool(c, fusd, TRUE, price)
  BY <1>1
<1> HIDE DEF price
<1>8. FluxGood' /\ FluxKept /\ PoolsReady'
  <2>1. ASSUME NEW deposit \in Deposits, NEW mint \in Mints, NEW i \in Interests,
               OpenCdp(c, deposit, mint, i, Nobody, price), Receive(held' - held),
               UNCHANGED poolVars
        PROVE  FluxGood' /\ FluxKept /\ PoolsReady'
    <3>1. FluxGood' /\ FluxKept
      BY <1>2, <1>6, <2>1, OpenGood
    <3>2. now' = now /\ Listed' = Listed
      BY <3>1 DEF FluxKept
    <3>3. wallet' \in Nat
      <4>1. wallet + (held' - held) >= 0 /\ wallet' = wallet + (held' - held)
        BY <2>1 DEF Receive
      <4>2. wallet \in Nat /\ held \in Nat /\ held' \in Nat
        BY <1>2, <3>1 DEF FluxGood, PoolsReady
      <4> DEFINE gain == held' - held
      <4>3. gain \in Int
        BY <4>2
      <4> HIDE DEF gain
      <4>4. wallet + gain >= 0 /\ wallet' = wallet + gain
        BY <4>1 DEF gain
      <4>5. wallet + gain \in Nat
        BY <4>2, <4>3, <4>4
      <4> QED
        BY <4>4, <4>5, Zenon
    <3> QED
      BY <1>2, <2>1, <3>1, <3>2, <3>3, PoolsStill
  <2>2. ASSUME NEW fusd \in Contributions, ContributeToPool(c, fusd, TRUE, price)
        PROVE  FluxGood' /\ FluxKept /\ PoolsReady'
    <3>1. FluxKept /\ UNCHANGED vars /\ \E q \in Pool : PoolReplaced(c, q)
      BY <1>2, <1>6, <2>2, ContributeReplaces
    <3>2. now' = now /\ Listed' = Listed /\ AccountInv'
      BY <3>1 DEF FluxKept
    <3>3. PoolsReady'
      BY <1>2, <3>1, <3>2, ReplacedReady
    <3>4. FluxGood'
      BY <1>2, <3>1, <3>2, NoCallGood DEF vars
    <3> QED
      BY <3>1, <3>3, <3>4
  <2> QED
    BY <1>7, <2>1, <2>2
<1>9. now' = now
  BY <1>8 DEF FluxKept
<1>10. OracleGood(oracle)' /\ FeeGood'
  BY <1>2, <1>5, <1>7, <1>9, OracleStill
<1> QED
  BY <1>8, <1>10, NoRouteKept

\* charge_interest of a pool.
LEMMA PoolChargeStep ==
  ASSUME RouteInv, NEW c \in DOMAIN pools, NEW range, ChargePoolInterest(c, range),
         UNCHANGED <<oracle, fee>>, route' = NoRoute
  PROVE  RouteInv'
<1>1. FluxGood /\ PoolsReady /\ AccountInv
  BY GoodMeans DEF RouteInv
<1>2. FluxGood' /\ FluxKept
  BY <1>1, PoolChargeGood
<1>3. \E q \in Pool : PoolReplaced(c, q)
  BY <1>1, ChargeReplaces
<1>4. now' = now /\ Listed' = Listed
  BY <1>2 DEF FluxKept
<1>5. PoolsReady'
  BY <1>1, <1>3, <1>4, ReplacedReady
<1>6. OracleGood(oracle)' /\ FeeGood'
  BY <1>4, OracleStill DEF RouteInv
<1> QED
  BY <1>2, <1>5, <1>6, NoRouteKept

\* new_pool, by which the proxy completes a listing.
LEMMA RouteListingStep ==
  ASSUME RouteInv, RouteListing, UNCHANGED <<oracle, fee>>, route' = NoRoute
  PROVE  RouteInv'
<1>1. PICK c \in Collaterals, mcr \in Mcrs, price \in Prices, setting \in PoolSettings :
        NewCollateral(c, mcr, price) /\ NewPool(c, setting)
  BY Zenon DEF RouteListing
<1> DEFINE q == [fusd |-> 0, coll |-> 0, units |-> 0, rewards |-> 0, history |-> <<>>,
                 created |-> now, setting |-> setting]
<1>2. FluxGood /\ PoolsReady /\ AccountInv /\ now \in 0 .. MaxTime /\ now \in Nat
  BY GoodMeans DEF RouteInv
<1>3. FluxGood' /\ now' = now /\ Listed' = Listed \cup {c}
  BY <1>1, <1>2, ListingGood, ListingKept
<1>4. /\ pools' = With(pools, c, q) /\ DOMAIN pools = Listed
      /\ UNCHANGED <<wallet, payoutVault, poolParameters, allowMultiple, hashed, joined>>
      /\ \A x \in DOMAIN pools : pools[x] \in Pool /\ pools[x].created <= now
  BY <1>1, <1>2 DEF NewPool, PoolsReady, PoolsTyped
<1>5. q \in Pool /\ q.created <= now
  <2>1. setting \in Setting /\ <<>> \in Seq(Rates)
    BY PoolAssumption
  <2> QED
    BY <1>2, <2>1 DEF Pool
<1> HIDE DEF q
<1>6. /\ DOMAIN pools' = Listed'
      /\ \A x \in DOMAIN pools' : pools'[x] \in Pool /\ pools'[x].created <= now
  BY <1>3, <1>4, <1>5 DEF With
<1>7. PoolsTyped'
  BY <1>3, <1>6 DEF PoolsTyped, Pool
<1>8. DOMAIN pools \subseteq DOMAIN pools'
  BY <1>3, <1>4, <1>6
<1>9. PoolsReady'
  BY <1>2, <1>4, <1>7, <1>8 DEF PoolsReady
<1>10. OracleGood(oracle)' /\ FeeGood'
  BY <1>3, OracleStill DEF RouteInv
<1> QED
  BY <1>3, <1>9, <1>10, NoRouteKept

\* The clock advances, and with it a transaction ends.
LEMMA RouteTickStep ==
  ASSUME RouteInv, Tick, hashed' = FALSE, joined' = {},
         UNCHANGED <<wallet, pools, payoutVault, poolParameters, allowMultiple>>,
         UNCHANGED <<oracle, fee>>, route' = NoRoute
  PROVE  RouteInv'
<1>1. FluxGood /\ PoolsReady /\ OracleGood(oracle) /\ FeeGood /\ AccountInv
  BY GoodMeans DEF RouteInv
<1>2. /\ AccountInv' /\ held' = held /\ unbacked' = unbacked /\ now' = now + 1
      /\ Listed' = Listed /\ now \in Nat
  BY <1>1, TickKept
<1>3. FluxGood'
  BY <1>1, <1>2, NoCallGood DEF Tick
<1>4. PoolsTyped'
  <2>1. \A x \in DOMAIN pools : pools[x] \in Pool /\ pools[x].created <= now
    BY <1>1 DEF PoolsReady, PoolsTyped
  <2>2. \A x \in DOMAIN pools : pools[x].created <= now'
    <3> SUFFICES ASSUME NEW x \in DOMAIN pools PROVE pools[x].created <= now'
      OBVIOUS
    <3>1. pools[x].created \in 0 .. MaxTime /\ pools[x].created <= now
      BY <2>1 DEF Pool
    <3>2. pools[x].created \in Int
      BY <3>1, TimeAssumption
    <3> QED
      BY <1>2, <3>1, <3>2
  <2> QED
    BY <1>1, <1>2, <2>1, <2>2 DEF PoolsReady, PoolsTyped, Pool
<1>5. PoolsReady'
  BY <1>1, <1>4 DEF PoolsReady
<1>6. oracle.updated \in 0 .. now' /\ fee.last \in 0 .. now'
  BY <1>1, <1>2 DEF OracleGood, FeeGood
<1>7. OracleGood(oracle)'
  BY <1>1, <1>6 DEF OracleGood
<1>8. FeeGood'
  <2>1. fee \in [base : Nat, last : 0 .. now', max : 0 .. ONE, min : 0 .. ONE, spike : Nat]
    BY <1>1, <1>6 DEF FeeGood
  <2> QED
    BY <2>1 DEF FeeGood
<1> QED
  BY <1>3, <1>5, <1>7, <1>8, NoRouteKept

\* Nothing but the oracle and the fee's settings changes.
LEMMA SettingStep ==
  ASSUME RouteInv, UNCHANGED <<vars, wallet, poolVars>>, route' = NoRoute,
         OracleGood(oracle'), FeeGood'
  PROVE  RouteInv'
<1>1. /\ flux' = flux /\ held' = held /\ unbacked' = unbacked /\ now' = now
      /\ Listed' = Listed /\ UNCHANGED vars /\ UNCHANGED poolVars
  BY DEF vars, Listed, poolVars
<1>2. FluxGood'
  <2>1. AccountInv'
    BY <1>1, GoodMeans, NothingKept DEF RouteInv, FluxKept
  <2> QED
    BY <1>1, <2>1, NoCallGood DEF RouteInv
<1>3. PoolsReady'
  <2>1. wallet' \in Nat
    BY DEF RouteInv, PoolsReady
  <2> QED
    BY <1>1, <2>1, PoolsStill DEF RouteInv
<1>4. OracleGood(oracle)'
  BY <1>1 DEF OracleGood
<1> QED
  BY <1>2, <1>3, <1>4, NoRouteKept

\* update_lsu_multiplier.
LEMMA UpdateStep ==
  ASSUME RouteInv, UpdateLsuMultiplier, UNCHANGED <<vars, wallet, poolVars, fee>>,
         route' = NoRoute
  PROVE  RouteInv'
<1>1. now \in 0 .. now /\ now' = now
  BY GoodMeans DEF RouteInv, vars
<1>2. OracleGood(oracle')
  BY <1>1 DEF RouteInv, OracleGood, UpdateLsuMultiplier, UpdatedMultiplier
<1>3. FeeGood'
  BY <1>1, OracleStill DEF RouteInv
<1> QED
  BY <1>2, <1>3, SettingStep

\* What owners set.
LEMMA OwnerStep ==
  ASSUME RouteInv, RouteOwnerCall, UNCHANGED <<vars, wallet, poolVars>>, route' = NoRoute
  PROVE  RouteInv'
<1>1. OracleGood(oracle) /\ FeeGood /\ now' = now
  BY DEF RouteInv, vars
<1>2. CASE OracleOwnerCall /\ UNCHANGED fee
  <2>1. FeeGood'
    BY <1>1, <1>2, OracleStill
  <2>2. OracleGood(oracle')
    <3>1. ASSUME NEW id \in NewIdentifiers, AddMorpherIdentifier(id[1], id[2])
          PROVE  OracleGood(oracle')
      <4> DEFINE ids == With(oracle.identifiers, id[1], id[2])
      <4>1. /\ oracle' = [oracle EXCEPT !.identifiers = ids]
            /\ id[2] \in Markets
        BY <3>1, IdentifierAssumption DEF AddMorpherIdentifier
      <4>2. /\ \A c \in DOMAIN ids : ids[c] \in Markets
            /\ {Xrd, LsuLp} \subseteq DOMAIN ids
            /\ InitialKept => ids[LsuLp] = oracle.identifiers[LsuLp]
                              /\ ids[Xrd] = oracle.identifiers[Xrd]
        BY <1>1, <4>1 DEF OracleGood, With, InitialKept
      <4> HIDE DEF ids
      <4> QED
        BY <1>1, <4>1, <4>2 DEF OracleGood
    <3>2. ASSUME NEW age \in PriceAges, SetMaxPriceAge(age) PROVE OracleGood(oracle')
      <4>1. age \in Nat
        BY OracleAssumption
      <4> QED
        BY <1>1, <3>2, <4>1 DEF OracleGood, SetMaxPriceAge
    <3>3. ASSUME NEW age \in MultiplierAges, SetMaxLsuMultiplierAge(age)
          PROVE  OracleGood(oracle')
      <4>1. age \in Nat
        BY OracleAssumption
      <4> QED
        BY <1>1, <3>3, <4>1 DEF OracleGood, SetMaxLsuMultiplierAge
    <3> QED
      BY <1>2, <3>1, <3>2, <3>3 DEF OracleOwnerCall
  <2> QED
    BY <2>1, <2>2, SettingStep
<1>3. ASSUME NEW s \in FeeSettings, SetRedemptionParameters(s), UNCHANGED oracle
      PROVE  RouteInv'
  <2>1. s \in [max : 0 .. ONE, min : 0 .. ONE, spike : Nat]
    BY RouteAssumption
  <2>2. FeeGood'
    BY <1>1, <1>3, <2>1 DEF FeeGood, SetRedemptionParameters
  <2>3. OracleGood(oracle')
    BY <1>1, <1>3
  <2> QED
    BY <2>2, <2>3, SettingStep
<1> QED
  BY <1>2, <1>3 DEF RouteOwnerCall

-----------------------------------------------------------------------------
(* The beginning of a route.                                               *)

\* What the pools do not hold of the debts is owed to somebody else.
LEMMA UncoveredTyped ==
  ASSUME FluxGood, PoolsReady
  PROVE  /\ IsFiniteSet(DOMAIN pools) /\ DOMAIN pools = DOMAIN flux.collaterals
         /\ \A c \in DOMAIN pools : Uncovered(c) \in Int
<1>1. Shaped(flux) /\ StateOK(flux)
  BY GoodMeans DEF Ready, Accounted
<1>2. DOMAIN pools = DOMAIN flux.collaterals
  BY DEF PoolsReady, PoolsTyped, Listed
<1>3. IsFiniteSet(DOMAIN flux.collaterals)
  BY GoodMeans, PaidTyped DEF Ready, Accounted, IntFunction, Fees
<1>4. ASSUME NEW c \in DOMAIN pools PROVE Uncovered(c) \in Int
  <2>1. flux.collaterals[c].debt \in Int
    BY <1>1, <1>2 DEF Shaped, InfoTyped
  <2>2. pools[c].fusd \in Nat
    BY PoolFacts
  <2> QED
    BY <2>1, <2>2 DEF Uncovered
<1> QED
  BY <1>2, <1>3, <1>4

\* A route, of a payment for the debts of the chosen collaterals, with no loan planned.
Begun(chosen, debt, debts, payment, max) ==
  [stage |-> "planning", payment |-> payment, max |-> max, left |-> max,
   plan |-> [c \in chosen |->
     [target |-> Mul(Div(debt[c], SumFunctionOnSet(debt, chosen)), payment),
      current |-> 0, count |-> 0, debts |-> debts[c]]]]

\* Its targets are shares of the payment.
LEMMA PlanBegins ==
  ASSUME NEW chosen, IsFiniteSet(chosen), chosen # {}, NEW debt,
         \A c \in chosen : debt[c] \in Nat \ {0},
         NEW payment \in Nat, NEW max \in Nat, NEW debts,
         \A c \in chosen : debts[c] \in Seq(Nat)
  PROVE  PlanningGood(Begun(chosen, debt, debts, payment, max))
<1> DEFINE r == Begun(chosen, debt, debts, payment, max)
           total == SumFunctionOnSet(debt, chosen)
           plan == r.plan
           share == [c \in chosen |-> Mul(Div(debt[c], total), payment)]
<1>0. /\ DOMAIN plan = chosen
      /\ \A c \in chosen : plan[c] = [target |-> Mul(Div(debt[c], total), payment),
                                      current |-> 0, count |-> 0, debts |-> debts[c]]
  BY DEF Begun
<1>1. total \in Nat \ {0}
  <2>1. PICK y \in chosen : TRUE
    OBVIOUS
  <2>2. total = debt[y] + SumFunctionOnSet(debt, chosen \ {y})
    <3>1. \A c \in chosen : debt[c] \in Int
      OBVIOUS
    <3> QED
      BY ZenonT(60), <3>1, SumTakeOut
  <2>3. IsFiniteSet(chosen \ {y})
    BY FS_Subset
  <2>4. SumFunctionOnSet(debt, chosen \ {y}) \in Nat
    BY <2>3, SumNatural
  <2> QED
    BY <2>1, <2>2, <2>4
<1>2. /\ \A c \in chosen : share[c] = Mul(Div(debt[c], total), payment)
      /\ DOMAIN share = chosen /\ total = SumFunctionOnSet(debt, chosen)
  OBVIOUS
<1>9. /\ DOMAIN r = {"stage", "payment", "max", "left", "plan"} /\ r.stage = "planning"
      /\ r.payment = payment /\ r.max = max /\ r.left = max /\ r.plan = plan
  BY DEF Begun
<1> HIDE DEF share, total, plan
<1>3. /\ \A c \in chosen : share[c] \in Nat
      /\ SumFunctionOnSet(share, chosen) \in Nat /\ SumFunctionOnSet(share, chosen) <= payment
  BY <1>1, <1>2, SharesWithin
<1>4. ASSUME NEW c \in chosen
      PROVE  EntryGood(plan[c]) /\ plan[c].target = share[c] /\ plan[c].count = 0
  <2>1. plan[c] = [target |-> share[c], current |-> 0, count |-> 0, debts |-> debts[c]]
    BY <1>0, <1>2
  <2>2. /\ plan[c].target = share[c] /\ plan[c].current = 0 /\ plan[c].count = 0
        /\ plan[c].debts = debts[c]
    BY <2>1
  <2>3. debts[c] \in Seq(Nat) /\ Len(debts[c]) \in Nat
    OBVIOUS
  <2>4. plan[c] \in PlanEntry
    BY <1>3, <2>1, <2>3 DEF PlanEntry
  <2>5. FirstOwed(plan[c].debts, plan[c].count) = 0
    BY <2>2, <2>3, OwedNothing
  <2>6. plan[c].current = Lesser(plan[c].target, FirstOwed(plan[c].debts, plan[c].count))
    BY <1>3, <2>2, <2>5 DEF Lesser
  <2> QED
    BY <2>2, <2>3, <2>4, <2>6 DEF EntryGood
<1>5. PlanGood(plan) /\ WantedIn(plan) \subseteq chosen
  BY <1>0, <1>4 DEF PlanGood, WantedIn
<1>6. Targets(plan) <= payment
  <2> DEFINE f == [c \in DOMAIN plan |-> plan[c].target]
  <2>1. \A c \in chosen : f[c] = share[c]
    BY <1>0, <1>4
  <2>2. Targets(plan) = SumFunctionOnSet(f, chosen)
    BY <1>0, <1>5, PlanSums
  <2> HIDE DEF f
  <2>3. SumFunctionOnSet(f, chosen) = SumFunctionOnSet(share, chosen)
    BY <2>1, SumEqual
  <2> QED
    BY <1>3, <2>2, <2>3
<1>7. Counted(plan) = 0
  <2> DEFINE f == [c \in WantedIn(plan) |-> plan[c].count]
             zero == [c \in WantedIn(plan) |-> 0]
  <2>1. IsFiniteSet(WantedIn(plan)) /\ Counted(plan) \in Nat
    BY <1>5, PlanSums
  <2>2. DOMAIN f = WantedIn(plan) /\ \A c \in WantedIn(plan) : f[c] = 0
    BY <1>4, <1>5
  <2>3. Counted(plan) = SumFunctionOnSet(f, WantedIn(plan))
    BY <2>2 DEF Counted, SumFunction
  <2> HIDE DEF f
  <2>4. SumFunctionOnSet(f, WantedIn(plan)) = 0
    <3> DEFINE W == WantedIn(plan)
               C == {S \in SUBSET W : SumFunctionOnSet(f, S) # 0}
    <3>1. SUFFICES ASSUME C # {} PROVE FALSE
      OBVIOUS
    <3>2. C \in SUBSET (SUBSET W)
      OBVIOUS
    <3>3. PICK T \in C : \A U \in C : U \subseteq T => U = T
      <4> HIDE DEF C
      <4> QED
        BY <2>1, <3>1, <3>2, MinimalSubset
    <3>4. T \subseteq W /\ SumFunctionOnSet(f, T) # 0
      OBVIOUS
    <3>5. IsFiniteSet(T)
      BY <2>1, <3>4, FS_Subset
    <3>6. T # {}
      BY <3>4, SumEmpty
    <3>7. PICK y \in T : TRUE
      BY <3>6
    <3>8. \A x \in T : f[x] \in Int
      BY <2>2, <3>4
    <3>9. SumFunctionOnSet(f, T) = f[y] + SumFunctionOnSet(f, T \ {y})
      BY <3>5, <3>7, <3>8, SumTakeOut
    <3>10. SumFunctionOnSet(f, T \ {y}) = 0
      BY <3>3, <3>4, <3>7
    <3> QED
      BY <2>2, <3>4, <3>7, <3>9, <3>10
  <2> QED
    BY <2>3, <2>4
<1>8. Even(plan)
  BY <1>4, <1>5 DEF Even
<1> HIDE DEF r
<1>10. PlanningGood(r)
  BY <1>5, <1>6, <1>7, <1>8, <1>9 DEF PlanningGood
<1> QED
  BY <1>10 DEF r

\* redemptions, up to its first loan.
LEMMA StartRouteStep ==
  ASSUME RouteInv, QuotesPositive, NEW fusd \in Payments, NEW max \in MaxRedemptions,
         NEW inputs, IsBatch(inputs), fusd <= wallet, StartRoute(fusd, inputs, max)
  PROVE  RouteInv'
<1> DEFINE checked == CheckPriceInputs(inputs)
           chosen == {c \in DOMAIN pools : Uncovered(c) > 0}
           debt == [c \in chosen |-> Uncovered(c)]
           total == SumFunction(debt)
           debts == [c \in chosen |-> NextRedemptions(flux, c, max)]
           plan == [c \in chosen |-> [target |-> Mul(Div(Uncovered(c), total), fusd),
                                      current |-> 0, count |-> 0,
                                      debts |-> NextRedemptions(flux, c, max)]]
<1>1. /\ FluxGood /\ PoolsReady /\ OracleGood(oracle) /\ FeeGood
      /\ now \in 0 .. MaxTime /\ Fit(flux) /\ fusd \in Nat /\ max \in Nat
  BY GoodMeans, RouteAssumption DEF RouteInv
<1>2. /\ chosen # {} /\ checked.valid /\ chosen \subseteq DOMAIN checked.prices
      /\ wallet' = wallet - fusd /\ oracle' = checked.oracle
      /\ flux' = [flux EXCEPT !.collaterals =
           [c \in DOMAIN @ |-> IF c \in chosen THEN [@[c] EXCEPT !.price = checked.prices[c]]
                                               ELSE @[c]]]
      /\ route' = [stage |-> "planning", payment |-> fusd, max |-> max, left |-> max,
                   plan |-> plan]
      /\ UNCHANGED <<held, unbacked, now, poolVars, fee, edits>>
  BY DEF StartRoute
<1>3. /\ IsFiniteSet(DOMAIN pools) /\ DOMAIN pools = DOMAIN flux.collaterals
      /\ \A c \in DOMAIN pools : Uncovered(c) \in Int
  BY <1>1, UncoveredTyped
<1>4. chosen \subseteq DOMAIN pools /\ \A c \in chosen : debt[c] \in Nat \ {0}
  BY <1>3
<1>5. IsFiniteSet(chosen)
  BY <1>3, <1>4, FS_Subset
<1>6. \A c \in chosen : debts[c] \in Seq(Nat)
  BY <1>1, NextRedemptionsTyped
<1>7. route' = Begun(chosen, debt, debts, fusd, max) /\ DOMAIN plan = chosen
  <2>1. total = SumFunctionOnSet(debt, chosen)
    BY DEF SumFunction
  <2>2. plan = [c \in chosen |->
                  [target |-> Mul(Div(debt[c], SumFunctionOnSet(debt, chosen)), fusd),
                   current |-> 0, count |-> 0, debts |-> debts[c]]]
    BY <2>1
  <2> HIDE DEF plan, chosen, debt, debts
  <2> QED
    BY <1>2, <2>2 DEF Begun
<1> HIDE DEF chosen, debt, total, debts, plan
<1>8. PlanningGood(route')
  BY <1>1, <1>2, <1>4, <1>5, <1>6, <1>7, PlanBegins
<1>9. Checked(checked)
  BY <1>1, <1>2, BatchChecked
<1> HIDE DEF checked
<1>10. /\ OracleGood(checked.oracle)
       /\ \A c \in chosen : FreshPrice(oracle, c, checked.prices[c])
       /\ checked.oracle.identifiers = oracle.identifiers
       /\ checked.oracle.maxPriceAge = oracle.maxPriceAge
       /\ checked.oracle.maxMultiplierAge = oracle.maxMultiplierAge
  BY <1>2, <1>9 DEF Checked
<1>11. \A c \in chosen : checked.prices[c] \in Nat \ {0}
  BY <1>1, <1>10, FreshPositive
<1>12. /\ FluxGood' /\ FluxKept
       /\ \A c \in chosen : flux'.collaterals[c].price = checked.prices[c]
  <2>1. chosen \in SUBSET DOMAIN flux.collaterals
    BY <1>3, <1>4
  <2> QED
    BY <1>1, <1>2, <1>11, <2>1, PricesGood
<1>13. now' = now /\ Listed' = Listed
  BY <1>12 DEF FluxKept
<1>14. UNCHANGED poolVars /\ pools' = pools /\ fee' = fee
  BY <1>2 DEF poolVars
<1>15. PoolsReady'
  <2>1. wallet' \in Nat
    BY <1>1, <1>2 DEF PoolsReady
  <2> QED
    BY <1>1, <1>13, <1>14, <2>1, PoolsStill
<1>16. OracleGood(oracle)' /\ FeeGood'
  BY <1>1, <1>2, <1>10, <1>13, <1>14, OracleStill
<1>17. RouteFresh'
  <2>1. route' # NoRoute /\ route'.plan = plan
    BY <1>2, <1>8, Stages
  <2>2. /\ DOMAIN route'.plan \subseteq DOMAIN pools'
        /\ \A c \in DOMAIN route'.plan : FreshPrice(oracle, c, flux'.collaterals[c].price)
    BY <1>4, <1>7, <1>10, <1>12, <1>14, <2>1
  <2> QED
    BY <1>2, <1>10, <1>13, <2>1, <2>2, FreshStill
<1> QED
  BY <1>8, <1>12, <1>15, <1>16, <1>17 DEF RouteInv

\* A call of redemptions, with messages of any order and age.
LEMMA RedemptionsCallStep ==
  ASSUME RouteInv, QuotesPositive, RedemptionsCall
  PROVE  RouteInv'
<1> DEFINE Inputs(order, created) ==
             [n \in DOMAIN order |->
                [collateral |-> order[n],
                 message |-> [market |-> oracle.identifiers[order[n]],
                              created |-> created[n]]]]
<1>1. PICK order \in PriceOrders :
        \E created \in [DOMAIN order -> 0 .. now] :
          \E fusd \in Payments, max \in MaxRedemptions :
            fusd <= wallet /\ StartRoute(fusd, Inputs(order, created), max)
  BY DEF RedemptionsCall
<1> HIDE DEF Inputs
<1>2. PICK created \in [DOMAIN order -> 0 .. now], fusd \in Payments, max \in MaxRedemptions :
        fusd <= wallet /\ StartRoute(fusd, Inputs(order, created), max)
  BY <1>1
<1>3. IsBatch(Inputs(order, created))
  <2> DEFINE S == {Inputs(order, created)[n] : n \in DOMAIN order}
  <2>1. order \in Seq(Collaterals \cup {Xrd, LsuLp})
    BY RouteAssumption
  <2>2. Len(order) \in Nat /\ DOMAIN order = 1 .. Len(order)
    BY <2>1
  <2>3. /\ DOMAIN Inputs(order, created) = DOMAIN order
        /\ \A n \in DOMAIN order :
             Inputs(order, created)[n]
               = [collateral |-> order[n],
                  message |-> [market |-> oracle.identifiers[order[n]],
                               created |-> created[n]]]
    BY DEF Inputs
  <2>4. Inputs(order, created) = [n \in 1 .. Len(order) |-> Inputs(order, created)[n]]
    BY <2>2 DEF Inputs
  <2>5. \A n \in 1 .. Len(order) : Inputs(order, created)[n] \in S
    BY <2>2
  <2> HIDE DEF S
  <2>6. Inputs(order, created) \in Seq(S)
    BY <2>2, <2>4, <2>5
  <2>7. Len(Inputs(order, created)) = Len(order)
    BY <2>2, <2>3, <2>6
  <2>8. ASSUME NEW n \in 1 .. Len(order)
        PROVE  \E c, message : /\ Inputs(order, created)[n]
                                    = [collateral |-> c, message |-> message]
                               /\ message.created \in 0 .. now
    <3> DEFINE m == [market |-> oracle.identifiers[order[n]], created |-> created[n]]
    <3>1. m.created \in 0 .. now
      BY <2>2
    <3>2. Inputs(order, created)[n] = [collateral |-> order[n], message |-> m]
      BY <2>2, <2>3
    <3> HIDE DEF m
    <3> QED
      BY <3>1, <3>2
  <2> QED
    BY <2>2, <2>7, <2>8 DEF IsBatch
<1> QED
  BY <1>2, <1>3, StartRouteStep

-----------------------------------------------------------------------------
(* What holds of every route.                                              *)

\* Every step keeps the invariant, as long as no price is truncated to nothing.
LEMMA RouteInvKept ==
  ASSUME QuotesPositive, RouteInv, [RouteNext]_routeVars
  PROVE  RouteInv'
<1>1. CASE PlanRedemption
  BY <1>1, PlanRedemptionStep
<1>2. CASE FinishPlan
  BY <1>2, FinishPlanStep
<1>3. CASE RedeemNext
  BY <1>3, RedeemNextStep
<1>4. CASE FinishRoute
  BY <1>4, FinishRouteStep
<1>5. CASE RedemptionsCall
  BY <1>5, RedemptionsCallStep
<1>6. route.stage = "none" /\ route' = route => route' = NoRoute
  BY StageMeans
<1>7. CASE route.stage = "none" /\ PricedCall /\ UNCHANGED <<fee, route, edits>>
  BY <1>6, <1>7, PricedCallStep
<1>8. ASSUME NEW c \in DOMAIN pools, NEW range \in ChargeRanges, route.stage = "none",
             ChargePoolInterest(c, range), UNCHANGED <<oracle, fee, route, edits>>
      PROVE  RouteInv'
  BY <1>6, <1>8, PoolChargeStep
<1>9. CASE route.stage = "none" /\ RouteListing /\ UNCHANGED <<oracle, fee, route, edits>>
  BY <1>6, <1>9, RouteListingStep
<1>10. CASE /\ route.stage = "none" /\ Tick /\ hashed' = FALSE /\ joined' = {}
            /\ UNCHANGED <<wallet, pools, payoutVault, poolParameters, allowMultiple,
                           oracle, fee, route, edits>>
  BY <1>6, <1>10, RouteTickStep
<1>11. CASE /\ route.stage = "none" /\ UpdateLsuMultiplier
            /\ UNCHANGED <<vars, wallet, poolVars, fee, route, edits>>
  BY <1>6, <1>11, UpdateStep
<1>12. CASE /\ route.stage = "none" /\ RouteOwnerCall
            /\ UNCHANGED <<vars, wallet, poolVars, route>>
  BY <1>6, <1>12, OwnerStep
<1>13. CASE UNCHANGED routeVars
  <2>1. UNCHANGED <<vars, poolVars, oracle>> /\ wallet' = wallet /\ route' = route /\ fee' = fee
    BY <1>13 DEF routeVars
  <2>2. wallet' \in Nat
    BY <2>1 DEF RouteInv, PoolsReady
  <2>3. FluxGood' /\ PoolsReady' /\ OracleGood(oracle)' /\ now' = now
    BY <2>1, <2>2, NothingTouched
  <2>4. RouteFresh'
    BY <2>1, <2>2, NothingTouched
  <2>5. FeeGood'
    BY <2>1, <2>3, OracleStill DEF RouteInv
  <2> QED
    BY <2>1, <2>3, <2>4, <2>5 DEF RouteInv
<1> QED
  BY <1>1, <1>2, <1>3, <1>4, <1>5, <1>7, <1>8, <1>9, <1>10, <1>11, <1>12, <1>13 DEF RouteNext

\* It holds at first.
LEMMA RouteInvInit == RouteInit => RouteInv
<1> SUFFICES ASSUME RouteInit PROVE RouteInv
  OBVIOUS
<1>1. /\ Init /\ wallet = 0 /\ PoolInit /\ OracleInit /\ route = NoRoute
      /\ fee = [base |-> 0, last |-> 0, max |-> InitialFee.max, min |-> InitialFee.min,
                spike |-> InitialFee.spike]
  BY DEF RouteInit
<1>2. flux.collaterals = <<>> /\ held = 0 /\ unbacked = 0 /\ now = 0 /\ DOMAIN <<>> = {}
  BY <1>1 DEF Init
<1>3. FluxGood
  BY <1>1, <1>2, SolvencyInit DEF FluxGood
<1>4. PoolsReady
  BY <1>1, <1>2, PoolAssumption DEF PoolInit, PoolsReady, PoolsTyped, Listed
<1>5. OracleGood(oracle)
  <2>1. LsuValue[0] = LsuValue[oracle.updated] /\ oracle.updated \in 0 .. now
    BY <1>1, <1>2 DEF OracleInit
  <2> QED
    BY <1>1, <2>1, OracleAssumption, IdentifierAssumption DEF OracleInit, OracleGood
<1>6. FeeGood
  BY <1>1, <1>2, RouteAssumption DEF FeeGood
<1> QED
  BY <1>1, <1>3, <1>4, <1>5, <1>6 DEF RouteInv, RouteFresh

\* What an entry of a plan may be.
LEMMA EntryTyped ==
  ASSUME NEW plan, PlanGood(plan), NEW c \in DOMAIN plan
  PROVE  /\ plan[c] \in PlanEntry /\ plan[c].count <= Len(plan[c].debts)
         /\ plan[c].current <= plan[c].target
<1>1. EntryGood(plan[c])
  BY DEF PlanGood
<1> QED
  BY <1>1, EntryFacts DEF EntryGood

\* The invariant has every route of the right type.
LEMMA InvTyped == RouteInv => RouteTypeOK
<1> SUFFICES ASSUME RouteInv PROVE RouteTypeOK
  OBVIOUS
<1>1. RouteOK
  <2>1. CASE route = NoRoute
    BY <2>1 DEF RouteOK
  <2>2. CASE PlanningGood(route)
    <3>1. DOMAIN route.plan \subseteq DOMAIN pools
      BY <2>2, Stages DEF RouteInv, RouteFresh
    <3>2. route.stage = "planning" /\ route.payment \in Nat /\ PlanGood(route.plan)
      BY <2>2 DEF PlanningGood
    <3> QED
      BY <3>1, <3>2, EntryTyped DEF RouteOK
  <2>3. CASE RedeemingGood(route)
    <3>1. DOMAIN route.plan \subseteq DOMAIN pools
      BY <2>3, Stages DEF RouteInv, RouteFresh
    <3>2. /\ route.stage = "redeeming" /\ route.payment \in Nat /\ PlanGood(route.plan)
          /\ route.fraction \in 0 .. ONE /\ route.share \in 0 .. ONE
          /\ \A c \in DOMAIN route.batch : route.batch[c] \in [payment : Nat, count : Nat]
      BY <2>3 DEF RedeemingGood
    <3> QED
      BY <3>1, <3>2, EntryTyped DEF RouteOK
  <2> QED
    BY <2>1, <2>2, <2>3 DEF RouteInv
<1>2. oracle.multiplier \in Nat
  <2>1. now \in 0 .. MaxTime
    BY GoodMeans DEF RouteInv
  <2>2. oracle.updated \in 0 .. MaxTime /\ oracle.multiplier = LsuValue[oracle.updated]
    BY <2>1, TimeAssumption DEF RouteInv, OracleGood
  <2> QED
    BY <2>2, OracleAssumption
<1> QED
  BY <1>1, <1>2 DEF RouteTypeOK, RouteInv, OracleGood, FeeGood, PoolsReady

\* It has its prices fresh, if the owner leaves XRD its market.
LEMMA InvFresh == RouteInv /\ InitialKept => PricesFresh
<1> SUFFICES ASSUME RouteInv, InitialKept, route.stage # "none", NEW c \in DOMAIN route.plan
             PROVE  \E message \in Messages :
                      LET quote == Quote[message.market][message.created]
                          price == flux.collaterals[c].price
                      IN  /\ message.market = oracle.identifiers[c]
                          /\ message.created + oracle.maxPriceAge > now
                          /\ IF c = LsuLp
                             THEN \E t \in 0 .. now :
                                    /\ now <= t + oracle.maxMultiplierAge
                                    /\ price = Mul(quote, LsuValue[t])
                             ELSE price = quote
  BY DEF PricesFresh
<1> DEFINE price == flux.collaterals[c].price
<1>1. FreshPrice(oracle, c, price)
  BY Stages DEF RouteInv, RouteFresh
<1> HIDE DEF price
<1>2. ASSUME NEW base, QuoteFor(oracle, c, base)
      PROVE  \E message \in Messages :
               /\ message.market = oracle.identifiers[c]
               /\ message.created + oracle.maxPriceAge > now
               /\ base = Quote[message.market][message.created]
  <2>1. PICK market \in Markets, created \in 0 .. now :
          /\ market = oracle.identifiers[c] /\ created + oracle.maxPriceAge > now
          /\ base = Quote[market][created]
    BY <1>2 DEF QuoteFor
  <2>2. [market |-> market, created |-> created] \in Messages
    BY DEF Messages
  <2> QED
    BY <2>1, <2>2
<1>3. CASE c = LsuLp
  <2>1. PICK base \in Nat \ {0}, t \in 0 .. now :
          /\ QuoteFor(oracle, c, base) /\ now <= t + oracle.maxMultiplierAge
          /\ price = Mul(base, LsuValue[t])
    BY <1>1, <1>3 DEF FreshPrice
  <2>2. PICK message \in Messages :
          /\ message.market = oracle.identifiers[c]
          /\ message.created + oracle.maxPriceAge > now
          /\ base = Quote[message.market][message.created]
    BY <1>2, <2>1
  <2>3. price = Mul(Quote[message.market][message.created], LsuValue[t])
    BY <2>1, <2>2
  <2> QED
    BY <1>3, <2>1, <2>2, <2>3 DEF price
<1>4. CASE c # LsuLp
  <2>1. QuoteFor(oracle, c, price)
    BY <1>1, <1>4 DEF FreshPrice
  <2>2. PICK message \in Messages :
          /\ message.market = oracle.identifiers[c]
          /\ message.created + oracle.maxPriceAge > now
          /\ price = Quote[message.market][message.created]
    BY <1>2, <2>1
  <2> QED
    BY <1>4, <2>2 DEF price
<1> QED
  BY <1>3, <1>4

\* It has its plan balanced.
LEMMA InvBalanced == RouteInv => RouteBalanced
<1> SUFFICES ASSUME RouteInv, route.stage = "redeeming", Wanted # {},
                    NEW counts \in [Wanted -> 0 .. route.max], SumFunction(counts) <= route.max
             PROVE  \E c \in Wanted : Reach(c, counts[c]) <= route.fraction
  BY DEF RouteBalanced
<1>1. Balanced(route)
  BY StageMeans DEF RedeemingGood
<1>2. Wanted = WantedIn(route.plan)
  BY PlanNames
<1>3. \E c \in WantedIn(route.plan) : ReachOf(route.plan[c], counts[c]) <= route.fraction
  BY <1>1, <1>2 DEF Balanced
<1> QED
  BY <1>2, <1>3, PlanNames

\* The types of the oracle, the fee and the route, whatever was called before: no amount
\* of a route is negative, and no plan goes beyond its targets or the loans there are.
THEOREM RoutesTyped == QuotesPositive => (RouteSpec => []RouteTypeOK)
<1> SUFFICES ASSUME QuotesPositive PROVE RouteSpec => []RouteTypeOK
  OBVIOUS
<1>1. RouteInv /\ [RouteNext]_routeVars => RouteInv'
  BY RouteInvKept
<1> QED
  BY <1>1, RouteInvInit, InvTyped, PTL DEF RouteSpec

\* A route redeems every collateral at the price of a message about the collateral's own
\* market that was young enough, in whichever order the messages came.
THEOREM RoutesRedeemAtFreshPrices ==
  QuotesPositive /\ InitialKept => (RouteSpec => []PricesFresh)
<1> SUFFICES ASSUME QuotesPositive, InitialKept PROVE RouteSpec => []PricesFresh
  OBVIOUS
<1>1. RouteInv /\ [RouteNext]_routeVars => RouteInv'
  BY RouteInvKept
<1>2. RouteInv => PricesFresh
  BY InvFresh
<1> QED
  BY <1>1, <1>2, RouteInvInit, PTL DEF RouteSpec

\* The plan that get_optimal_redemption_route makes, one loan at a time, is the best for the
\* collateral that gets the least, whatever the loans and targets.
THEOREM RoutesAreBalanced == QuotesPositive => (RouteSpec => []RouteBalanced)
<1> SUFFICES ASSUME QuotesPositive PROVE RouteSpec => []RouteBalanced
  OBVIOUS
<1>1. RouteInv /\ [RouteNext]_routeVars => RouteInv'
  BY RouteInvKept
<1> QED
  BY <1>1, RouteInvInit, InvBalanced, PTL DEF RouteSpec

=============================================================================
