------------------------------ MODULE SumProofs ------------------------------
(***************************************************************************)
(* Sums over finite sets: what SumFunction of the community modules, by    *)
(* which the accounts of the ledger are stated, returns for every function *)
(* with finitely many integer terms.                                       *)
(*                                                                         *)
(* SumFunction is defined by recursion over subsets.  Each fact about it   *)
(* is proved by taking a smallest subset for which it fails                *)
(* (MinimalSubset, from the well-founded order of finite subsets), which   *)
(* needs no induction theorem with an operator for parameter.              *)
(***************************************************************************)
EXTENDS FiniteSetTheorems, TLAPS

\* Of a non-empty collection of subsets of a finite set, one has no other below
\* it: the principle behind every induction of this module.
LEMMA MinimalSubset ==
  ASSUME NEW S, IsFiniteSet(S), NEW C \in SUBSET (SUBSET S), C # {}
  PROVE  \E T \in C : \A U \in C : U \subseteq T => U = T
<1>1. IsWellFoundedOn(StrictSubsetOrdering(S), SUBSET S)
  BY FS_FiniteSubsetsOfFinite, FS_StrictSubsetOrderingWellFounded
<1>2. PICK T \in C : \A U \in C : ~ (<<U, T>> \in StrictSubsetOrdering(S))
  BY <1>1, WFMin, Zenon
<1>3. \A U \in C : U \subseteq T => U = T
  BY <1>2 DEF StrictSubsetOrdering
<1> QED
  BY <1>3

\* The term that SumFunction takes first.
Chosen(S) == CHOOSE x \in S : TRUE

\* r holds the sum of f over every subset of S, by the recursion of SumFunction.
SumsTo(f, S, r) ==
  r = [U \in SUBSET S |-> IF U = {} THEN 0 ELSE f[Chosen(U)] + r[U \ {Chosen(U)}]]

\* SumFunctionOnSet is the recursion SumsTo, unfolded.
LEMMA SumDef ==
  ASSUME NEW f, NEW S
  PROVE  SumFunctionOnSet(f, S) = (CHOOSE r : SumsTo(f, S, r))[S]
BY DEF SumFunctionOnSet, FoldFunctionOnSet, MapThenFoldSet, SumsTo, Chosen

\* A non-empty set has a first term.
LEMMA ChosenIn ==
  ASSUME NEW S, S # {}
  PROVE  Chosen(S) \in S
BY DEF Chosen

\* One step of the recursion.
LEMMA SumsEq ==
  ASSUME NEW f, NEW S, NEW r, SumsTo(f, S, r), NEW U \in SUBSET S
  PROVE  r[U] = IF U = {} THEN 0 ELSE f[Chosen(U)] + r[U \ {Chosen(U)}]
BY Zenon DEF SumsTo

\* The recursion has one solution: two of them agree wherever both are defined.
LEMMA SumsAgree ==
  ASSUME NEW f, NEW S, IsFiniteSet(S), NEW T \in SUBSET S, NEW r, NEW q,
         SumsTo(f, S, r), SumsTo(f, T, q)
  PROVE  \A U \in SUBSET T : r[U] = q[U]
<1> DEFINE C == {U \in SUBSET T : r[U] # q[U]}
<1>1. SUFFICES ASSUME C # {} PROVE FALSE
  OBVIOUS
<1>2. IsFiniteSet(T)
  BY FS_Subset
<1>3. PICK U \in C : \A V \in C : V \subseteq U => V = U
  <2>1. C \in SUBSET (SUBSET T)
    OBVIOUS
  <2> HIDE DEF C
  <2> QED
    BY <1>1, <1>2, <2>1, MinimalSubset
<1>4. U # {}
  BY SumsEq
<1>5. U \ {Chosen(U)} \in SUBSET T /\ U \ {Chosen(U)} # U
  BY <1>4, ChosenIn
<1>6. r[U \ {Chosen(U)}] = q[U \ {Chosen(U)}]
  BY <1>3, <1>5
<1> QED
  BY <1>4, <1>6, SumsEq

\* The recursion has a solution on every finite set.
LEMMA SumsExist ==
  ASSUME NEW f, NEW S, IsFiniteSet(S)
  PROVE  \E r : SumsTo(f, S, r)
<1> DEFINE C == {T \in SUBSET S : ~ \E r : SumsTo(f, T, r)}
<1>1. SUFFICES ASSUME C # {} PROVE FALSE
  OBVIOUS
<1>2. PICK T \in C : \A U \in C : U \subseteq T => U = T
  <2>1. C \in SUBSET (SUBSET S)
    OBVIOUS
  <2> HIDE DEF C
  <2> QED
    BY <1>1, <2>1, MinimalSubset
<1> DEFINE Rest(U) == U \ {Chosen(U)}
           s(U) == CHOOSE r : SumsTo(f, U, r)
           v == [U \in SUBSET T |->
                   IF U = {} THEN 0 ELSE f[Chosen(U)] + s(Rest(U))[Rest(U)]]
<1>3. ASSUME NEW U \in SUBSET T, U # T PROVE SumsTo(f, U, s(U))
  BY <1>2, <1>3
<1>4. ASSUME NEW U \in SUBSET T, U # {}
      PROVE Rest(U) \in SUBSET T /\ Rest(U) # T
  BY <1>4, ChosenIn
<1>5. ASSUME NEW U \in SUBSET T, U # {} PROVE v[Rest(U)] = s(Rest(U))[Rest(U)]
  <2> DEFINE W == Rest(U)
  <2>1. W \in SUBSET T /\ W # T
    BY <1>4, <1>5
  <2>2. SumsTo(f, W, s(W))
    BY <1>3, <2>1
  <2>3. CASE W = {}
    <3>1. s(W)[W] = 0
      <4> HIDE DEF s, W
      <4> QED
        BY <2>2, <2>3, SumsEq
    <3> QED
      BY <2>1, <2>3, <3>1
  <2>4. CASE W # {}
    <3>1. Rest(W) \in SUBSET T /\ Rest(W) # T /\ Rest(W) \in SUBSET W
      BY <1>4, <2>1, <2>4
    <3>2. SumsTo(f, Rest(W), s(Rest(W)))
      BY <1>3, <3>1
    <3>3. IsFiniteSet(W)
      BY <2>1, FS_Subset
    <3>4. s(W)[Rest(W)] = s(Rest(W))[Rest(W)]
      <4>1. Rest(W) \in SUBSET Rest(W)
        OBVIOUS
      <4> HIDE DEF s, W, Rest, v
      <4> QED
        BY <2>2, <3>1, <3>2, <3>3, <4>1, SumsAgree
    <3>5. s(W)[W] = f[Chosen(W)] + s(W)[Rest(W)]
      <4> HIDE DEF s, W
      <4> QED
        BY <2>2, <2>4, SumsEq
    <3>6. v[W] = f[Chosen(W)] + s(Rest(W))[Rest(W)]
      <4> HIDE DEF s, W
      <4> QED
        BY <2>1, <2>4
    <3> QED
      BY <3>4, <3>5, <3>6
  <2> QED
    BY <2>3, <2>4
<1>6. v = [U \in SUBSET T |-> IF U = {} THEN 0 ELSE f[Chosen(U)] + v[Rest(U)]]
  <2>1. \A U \in SUBSET T :
          v[U] = IF U = {} THEN 0 ELSE f[Chosen(U)] + v[Rest(U)]
    <3> HIDE DEF s, Rest
    <3> QED
      BY <1>5
  <2> DEFINE e(U) == IF U = {} THEN 0 ELSE f[Chosen(U)] + v[Rest(U)]
             e0(U) == IF U = {} THEN 0 ELSE f[Chosen(U)] + s(Rest(U))[Rest(U)]
  <2>2. v = [U \in SUBSET T |-> e0(U)]
    OBVIOUS
  <2>3. \A U \in SUBSET T : e0(U) = e(U)
    <3>1. \A U \in SUBSET T : v[U] = e0(U)
      OBVIOUS
    <3>2. \A U \in SUBSET T : v[U] = e(U)
      BY <2>1, Zenon
    <3> HIDE DEF e, e0, v
    <3> QED
      BY <3>1, <3>2
  <2>4. v = [U \in SUBSET T |-> e(U)]
    <3> HIDE DEF v, e, e0
    <3> QED
      BY <2>2, <2>3
  <2> QED
    BY <2>4, Zenon
<1>7. SumsTo(f, T, v)
  BY <1>6 DEF SumsTo
<1> HIDE DEF v
<1> QED
  BY <1>2, <1>7

-----------------------------------------------------------------------------

\* A solution on a set gives the sums over its subsets too.
LEMMA SumValue ==
  ASSUME NEW f, NEW S, IsFiniteSet(S), NEW T \in SUBSET S, NEW r, SumsTo(f, S, r)
  PROVE  SumFunctionOnSet(f, T) = r[T]
<1> DEFINE q == CHOOSE q : SumsTo(f, T, q)
<1>1. IsFiniteSet(T)
  BY FS_Subset
<1>2. SumsTo(f, T, q)
  BY <1>1, SumsExist
<1>3. SumFunctionOnSet(f, T) = q[T]
  BY SumDef
<1> HIDE DEF q
<1> QED
  BY <1>2, <1>3, SumsAgree

\* The equation that defines a sum: nothing is 0, and otherwise the first term
\* comes on top of the rest.
LEMMA SumFacts ==
  ASSUME NEW f, NEW S, IsFiniteSet(S)
  PROVE  SumFunctionOnSet(f, S) =
           IF S = {} THEN 0 ELSE f[Chosen(S)] + SumFunctionOnSet(f, S \ {Chosen(S)})
<1>1. PICK r : SumsTo(f, S, r)
  BY SumsExist
<1>2. S \in SUBSET S /\ S \ {Chosen(S)} \in SUBSET S
  OBVIOUS
<1>3. SumFunctionOnSet(f, S) = r[S]
  BY <1>1, <1>2, SumValue
<1>4. SumFunctionOnSet(f, S \ {Chosen(S)}) = r[S \ {Chosen(S)}]
  BY <1>1, <1>2, SumValue
<1> QED
  BY <1>1, <1>2, <1>3, <1>4, SumsEq

\* The sum of no terms.
LEMMA SumEmpty ==
  ASSUME NEW f
  PROVE  SumFunctionOnSet(f, {}) = 0
BY SumFacts, FS_EmptySet

\* A sum of integers is an integer.
LEMMA SumType ==
  ASSUME NEW f, NEW S, IsFiniteSet(S), \A x \in S : f[x] \in Int
  PROVE  SumFunctionOnSet(f, S) \in Int
<1> DEFINE C == {T \in SUBSET S : SumFunctionOnSet(f, T) \notin Int}
<1>1. SUFFICES ASSUME C # {} PROVE FALSE
  OBVIOUS
<1>2. PICK T \in C : \A U \in C : U \subseteq T => U = T
  <2>1. C \in SUBSET (SUBSET S)
    OBVIOUS
  <2> HIDE DEF C
  <2> QED
    BY <1>1, <2>1, MinimalSubset
<1>3. IsFiniteSet(T) /\ T # {}
  <2>1. SumFunctionOnSet(f, T) \notin Int /\ T \in SUBSET S
    OBVIOUS
  <2>2. 0 \in Int
    OBVIOUS
  <2> QED
    BY <2>1, <2>2, FS_Subset, SumEmpty
<1>4. Chosen(T) \in T
  BY <1>3, ChosenIn
<1>5. SumFunctionOnSet(f, T \ {Chosen(T)}) \in Int
  BY <1>2, <1>4
<1>6. f[Chosen(T)] \in Int
  BY <1>4
<1>7. SumFunctionOnSet(f, T) = f[Chosen(T)] + SumFunctionOnSet(f, T \ {Chosen(T)})
  BY <1>3, SumFacts
<1> HIDE DEF C
<1>8. SumFunctionOnSet(f, T) \in Int
  BY <1>5, <1>6, <1>7
<1> QED
  BY <1>8 DEF C

\* A sum of terms that are not negative is not negative.
LEMMA SumNatural ==
  ASSUME NEW f, NEW S, IsFiniteSet(S), \A x \in S : f[x] \in Nat
  PROVE  SumFunctionOnSet(f, S) \in Nat
<1> DEFINE C == {T \in SUBSET S : SumFunctionOnSet(f, T) \notin Nat}
<1>1. SUFFICES ASSUME C # {} PROVE FALSE
  OBVIOUS
<1>2. PICK T \in C : \A U \in C : U \subseteq T => U = T
  <2>1. C \in SUBSET (SUBSET S)
    OBVIOUS
  <2> HIDE DEF C
  <2> QED
    BY <1>1, <2>1, MinimalSubset
<1>3. IsFiniteSet(T) /\ T # {}
  <2>1. SumFunctionOnSet(f, T) \notin Nat /\ T \in SUBSET S
    OBVIOUS
  <2>2. 0 \in Nat
    OBVIOUS
  <2> QED
    BY <2>1, <2>2, FS_Subset, SumEmpty
<1>4. Chosen(T) \in T
  BY <1>3, ChosenIn
<1>5. SumFunctionOnSet(f, T \ {Chosen(T)}) \in Nat
  BY <1>2, <1>4
<1>6. f[Chosen(T)] \in Nat
  BY <1>4
<1>7. SumFunctionOnSet(f, T) = f[Chosen(T)] + SumFunctionOnSet(f, T \ {Chosen(T)})
  BY <1>3, SumFacts
<1> HIDE DEF C
<1>8. SumFunctionOnSet(f, T) \in Nat
  BY <1>5, <1>6, <1>7
<1> QED
  BY <1>8 DEF C

\* The order in which the terms are taken does not matter.
LEMMA SumTakeOut ==
  ASSUME NEW f, NEW S, IsFiniteSet(S), \A x \in S : f[x] \in Int, NEW y \in S
  PROVE  SumFunctionOnSet(f, S) = f[y] + SumFunctionOnSet(f, S \ {y})
<1> DEFINE sum(T) == SumFunctionOnSet(f, T)
           Out(T) == \A x \in T : sum(T) = f[x] + sum(T \ {x})
           C == {T \in SUBSET S : ~ Out(T)}
<1>1. SUFFICES ASSUME C # {} PROVE FALSE
  <2>1. S \in C \/ Out(S)
    <3> HIDE DEF Out
    <3> QED
      OBVIOUS
  <2> QED
    BY <2>1
<1>2. PICK T \in C : \A U \in C : U \subseteq T => U = T
  <2>1. C \in SUBSET (SUBSET S)
    OBVIOUS
  <2> HIDE DEF C
  <2> QED
    BY <1>1, <2>1, MinimalSubset
<1>3. T \in SUBSET S /\ ~ Out(T)
  <2> HIDE DEF Out
  <2> QED OBVIOUS
<1>4. PICK x \in T : sum(T) # f[x] + sum(T \ {x})
  BY <1>3
<1> DEFINE c == Chosen(T)
<1>5. c \in T
  BY ChosenIn
<1>6. \A U \in SUBSET S : sum(U) \in Int
  BY SumType, FS_Subset
<1>7. sum(T) = f[c] + sum(T \ {c})
  BY <1>3, SumFacts, FS_Subset
<1>8. x # c
  BY <1>4, <1>7
<1>9. Out(T \ {c}) /\ Out(T \ {x})
  <2>1. T \ {c} \in SUBSET S /\ T \ {c} # T /\ T \ {x} \in SUBSET S /\ T \ {x} # T
    BY <1>3, <1>5
  <2> HIDE DEF Out, c
  <2> QED
    BY <1>2, <2>1
<1>10. (T \ {c}) \ {x} = (T \ {x}) \ {c}
  OBVIOUS
<1>11. sum(T \ {c}) = f[x] + sum((T \ {c}) \ {x})
  <2>1. x \in T \ {c}
    BY <1>8
  <2> HIDE DEF sum, c
  <2> QED
    BY <1>9, <2>1
<1>12. sum(T \ {x}) = f[c] + sum((T \ {c}) \ {x})
  <2>1. c \in T \ {x}
    BY <1>8, <1>5
  <2> HIDE DEF sum, c
  <2> QED
    BY <1>9, <2>1, <1>10
<1>13. f[x] \in Int /\ f[c] \in Int /\ sum((T \ {c}) \ {x}) \in Int
  BY <1>3, <1>5, <1>6
<1> HIDE DEF sum, c
<1> QED
  BY <1>4, <1>7, <1>11, <1>12, <1>13

\* Sums of equal terms are equal.
LEMMA SumEqual ==
  ASSUME NEW f, NEW g, NEW S, IsFiniteSet(S), \A x \in S : f[x] = g[x]
  PROVE  SumFunctionOnSet(f, S) = SumFunctionOnSet(g, S)
<1> DEFINE C == {T \in SUBSET S : SumFunctionOnSet(f, T) # SumFunctionOnSet(g, T)}
<1>1. SUFFICES ASSUME C # {} PROVE FALSE
  OBVIOUS
<1>2. PICK T \in C : \A U \in C : U \subseteq T => U = T
  <2>1. C \in SUBSET (SUBSET S)
    OBVIOUS
  <2> HIDE DEF C
  <2> QED
    BY <1>1, <2>1, MinimalSubset
<1>3. IsFiniteSet(T) /\ T # {}
  BY FS_Subset, SumEmpty
<1>4. Chosen(T) \in T
  BY <1>3, ChosenIn
<1>5. SumFunctionOnSet(f, T \ {Chosen(T)}) = SumFunctionOnSet(g, T \ {Chosen(T)})
  BY <1>2, <1>4
<1>6. f[Chosen(T)] = g[Chosen(T)]
  BY <1>4
<1>7. SumFunctionOnSet(f, T) = SumFunctionOnSet(g, T)
  BY <1>3, <1>5, <1>6, SumFacts
<1> QED
  BY <1>7

\* A term of a function, 0 where it has none.
Term(f, x) == IF x \in DOMAIN f THEN f[x] ELSE 0

\* A function with finitely many terms, all integers.
IntFunction(f) == IsFiniteSet(DOMAIN f) /\ \A x \in DOMAIN f : f[x] \in Int

\* The sum of an integer function is an integer.
LEMMA SumFunctionType ==
  ASSUME NEW f, IntFunction(f)
  PROVE  SumFunction(f) \in Int
BY SumType DEF SumFunction, IntFunction

\* Functions that differ in one term only.
SameBut(f, g, x) ==
  /\ DOMAIN f \ {x} = DOMAIN g \ {x}
  /\ \A y \in DOMAIN f \ {x} : f[y] = g[y]

\* The sum moves by what one term moves, whether the term changes, appears or
\* goes: the lemma behind every account that a handler updates in one place.
LEMMA SumChange ==
  ASSUME NEW f, NEW g, IntFunction(f), IntFunction(g), NEW x, SameBut(f, g, x)
  PROVE  SumFunction(g) = SumFunction(f) - Term(f, x) + Term(g, x)
<1> DEFINE D == DOMAIN f \ {x}
<1>1. IsFiniteSet(D) /\ D = DOMAIN g \ {x}
  BY FS_Subset DEF IntFunction, SameBut
<1>2. SumFunctionOnSet(f, D) = SumFunctionOnSet(g, D)
  BY <1>1, SumEqual DEF SameBut
<1>3. ASSUME NEW h, IntFunction(h), D = DOMAIN h \ {x}
      PROVE  SumFunction(h) = Term(h, x) + SumFunctionOnSet(h, D)
  <2>0. SumFunctionOnSet(h, D) \in Int
    BY <1>1, <1>3, SumType DEF IntFunction
  <2>1. CASE x \in DOMAIN h
    BY <1>3, <2>1, SumTakeOut DEF IntFunction, SumFunction, Term
  <2>2. CASE x \notin DOMAIN h
    <3>1. D = DOMAIN h
      BY <1>3, <2>2
    <3> QED
      BY <2>0, <2>2, <3>1 DEF SumFunction, Term
  <2> QED
    BY <2>1, <2>2
<1>4. SumFunctionOnSet(f, D) \in Int /\ Term(f, x) \in Int /\ Term(g, x) \in Int
  BY <1>1, SumType DEF IntFunction, Term
<1>5. SumFunction(f) = Term(f, x) + SumFunctionOnSet(f, D)
  BY <1>3
<1>6. SumFunction(g) = Term(g, x) + SumFunctionOnSet(g, D)
  BY <1>1, <1>3
<1> HIDE DEF D
<1> QED
  BY <1>2, <1>4, <1>5, <1>6

\* The sum of differences is the difference of the sums.
LEMMA SumDifference ==
  ASSUME NEW f, NEW g, NEW h, NEW S, IsFiniteSet(S),
         \A x \in S : f[x] \in Int /\ g[x] \in Int /\ h[x] = f[x] - g[x]
  PROVE  SumFunctionOnSet(h, S) = SumFunctionOnSet(f, S) - SumFunctionOnSet(g, S)
<1> DEFINE Off(T) == SumFunctionOnSet(h, T) # SumFunctionOnSet(f, T) - SumFunctionOnSet(g, T)
           C == {T \in SUBSET S : Off(T)}
<1>1. SUFFICES ASSUME C # {} PROVE FALSE
  OBVIOUS
<1>2. PICK T \in C : \A U \in C : U \subseteq T => U = T
  <2>1. C \in SUBSET (SUBSET S)
    OBVIOUS
  <2> HIDE DEF C
  <2> QED
    BY <1>1, <2>1, MinimalSubset
<1>3. IsFiniteSet(T) /\ T # {} /\ T \subseteq S
  <2>1. ~Off({})
    BY SumEmpty
  <2> QED
    BY <2>1, FS_Subset
<1> DEFINE c == Chosen(T)
           U == T \ {c}
<1>4. c \in T
  BY <1>3, ChosenIn
<1>5. ~Off(U)
  BY <1>2, <1>4
<1>6. f[c] \in Int /\ g[c] \in Int /\ h[c] = f[c] - g[c]
  BY <1>3, <1>4
<1>7. SumFunctionOnSet(f, U) \in Int /\ SumFunctionOnSet(g, U) \in Int
  <2>1. IsFiniteSet(U) /\ U \subseteq S
    BY <1>3, FS_Subset
  <2> QED
    BY <2>1, SumType
<1>8. /\ SumFunctionOnSet(f, T) = f[c] + SumFunctionOnSet(f, U)
      /\ SumFunctionOnSet(g, T) = g[c] + SumFunctionOnSet(g, U)
      /\ SumFunctionOnSet(h, T) = h[c] + SumFunctionOnSet(h, U)
  BY <1>3, SumFacts
<1>9. SumFunctionOnSet(h, T) = SumFunctionOnSet(f, T) - SumFunctionOnSet(g, T)
  <2>1. SumFunctionOnSet(h, U) = SumFunctionOnSet(f, U) - SumFunctionOnSet(g, U)
    BY <1>5
  <2> HIDE DEF c, U
  <2> QED
    BY <1>6, <1>7, <1>8, <2>1
<1> QED
  BY <1>9

\* The same terms under other indices have the same sum.
LEMMA SumReindex ==
  ASSUME NEW f, NEW g, NEW S, NEW R, IsFiniteSet(S), NEW h \in Bijection(S, R),
         \A x \in R : f[x] \in Int, \A x \in S : g[x] = f[h[x]]
  PROVE  SumFunctionOnSet(g, S) = SumFunctionOnSet(f, R)
<1> DEFINE Im(T) == {h[x] : x \in T}
           Off(T) == SumFunctionOnSet(g, T) # SumFunctionOnSet(f, Im(T))
           C == {T \in SUBSET S : Off(T)}
<1>0. /\ h \in [S -> R] /\ Im(S) = R
      /\ \A x, y \in S : h[x] = h[y] => x = y
  <2>1. h \in [S -> R] /\ \A t \in R : \E x \in S : h[x] = t
    BY DEF Bijection, Surjection
  <2>2. \A x, y \in S : h[x] = h[y] => x = y
    BY DEF Bijection, Injection, IsInjective
  <2> QED
    BY <2>1, <2>2
<1>1. SUFFICES ASSUME C # {} PROVE FALSE
  <2>1. S \in C \/ ~Off(S)
    <3> HIDE DEF Off
    <3> QED
      OBVIOUS
  <2> QED
    BY <1>0, <2>1
<1>2. PICK T \in C : \A U \in C : U \subseteq T => U = T
  <2>1. C \in SUBSET (SUBSET S)
    OBVIOUS
  <2> HIDE DEF C
  <2> QED
    BY <1>1, <2>1, MinimalSubset
<1>3. IsFiniteSet(T) /\ T # {} /\ T \subseteq S /\ Off(T)
  <2>1. Im({}) = {}
    OBVIOUS
  <2>2. ~Off({})
    BY <2>1, SumEmpty
  <2> HIDE DEF Off
  <2> QED
    BY <2>2, FS_Subset
<1> DEFINE c == Chosen(T)
           U == T \ {c}
<1>4. c \in T
  BY <1>3, ChosenIn
<1>5. ~Off(U)
  <2> HIDE DEF Off
  <2> QED
    BY <1>2, <1>4
<1> HIDE DEF c
<1>6. Im(T) \ {h[c]} = Im(U) /\ h[c] \in Im(T) /\ Im(T) \subseteq R
  BY <1>0, <1>3, <1>4
<1>7. IsFiniteSet(Im(T))
  <2> DEFINE p == [x \in T |-> h[x]]
  <2>1. p \in Surjection(T, Im(T))
    BY DEF Surjection
  <2> HIDE DEF p
  <2> QED
    BY <1>3, <2>1, FS_Surjection
<1>8. SumFunctionOnSet(f, Im(T)) = f[h[c]] + SumFunctionOnSet(f, Im(U))
  <2> DEFINE V == Im(T)
  <2>1. IsFiniteSet(V) /\ (\A x \in V : f[x] \in Int) /\ h[c] \in V /\ V \ {h[c]} = Im(U)
    BY <1>6, <1>7
  <2> HIDE DEF V, Im
  <2>2. SumFunctionOnSet(f, V) = f[h[c]] + SumFunctionOnSet(f, V \ {h[c]})
    BY <2>1, SumTakeOut
  <2> QED
    BY <2>1, <2>2 DEF V
<1>9. SumFunctionOnSet(g, T) = g[c] + SumFunctionOnSet(g, U)
  BY <1>3, SumFacts DEF c
<1>10. g[c] = f[h[c]]
  BY <1>3, <1>4
<1>11. SumFunctionOnSet(g, U) = SumFunctionOnSet(f, Im(U))
  BY <1>5
<1>12. SumFunctionOnSet(g, T) = SumFunctionOnSet(f, Im(T))
  <2> HIDE DEF Im, U
  <2> QED
    BY <1>8, <1>9, <1>10, <1>11
<1> QED
  BY <1>3, <1>12

=============================================================================
