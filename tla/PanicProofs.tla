----------------------------- MODULE PanicProofs -----------------------------
(***************************************************************************)
(* Panic mode for any number of loans, periods and stablecoins: it never   *)
(* starts without its wait, and takes stablecoin only while it lasts.      *)
(***************************************************************************)
EXTENDS PanicMode, SumProofs

\* The time recorded for an entry is that of its report plus the wait then.
Recorded ==
  /\ periods.wait \in Waits
  /\ \A id \in DOMAIN reported : \E wait \in Waits :
       panic.pending[id] = reported[id] + wait

\* The fields of panic mode, and what the vaults hold.
PanicTyped ==
  /\ panic = [active |-> panic.active, last |-> panic.last,
              pending |-> panic.pending, stablecoin |-> panic.stablecoin]
  /\ vaults \in [Stablecoins -> Nat]

\* The inductive invariant.
IInv == TypeOK /\ PanicTyped /\ Recorded

\* Waits are positive: set_panic_mode_parameters asserts it.
LEMMA WaitsPositive == Waits \subseteq Nat \ {0}
BY PeriodAssumption DEF Waits

\* The state that instantiate leaves.
LEMMA InitOK == Init => IInv
<1> SUFFICES ASSUME Init PROVE IInv
  OBVIOUS
<1>1. loans \in [Cdps -> Loans(Debts \cup {0})]
  BY DEF Init, Loans
<1>a. DOMAIN <<>> = {}
  OBVIOUS
<1>b. /\ panic.active = FALSE /\ panic.last = NoTime
      /\ panic.pending = <<>> /\ panic.stablecoin = FirstStablecoin
  BY DEF Init
<1>c. periods \in [wait : Nat \ {0}, cooldown : Nat \ {0}]
  BY PeriodAssumption DEF Init
<1>d. now \in 0 .. MaxTime /\ reported = <<>>
  BY TimeAssumption DEF Init
<1>2. TypeOK
  BY <1>1, <1>a, <1>b, <1>c, <1>d, StablecoinAssumption DEF TypeOK
<1>3. PanicTyped
  BY DEF Init, PanicTyped
<1>4. Recorded
  BY DEF Init, Recorded, Waits
<1> QED BY <1>2, <1>3, <1>4 DEF IInv

\* A new entry, or a renewed one, is recorded with the wait of the moment.
LEMMA EnterOK ==
  ASSUME IInv, NEW id \in Cdps, Enter(id),
         UNCHANGED <<vaults, periods, loans, pools, held, now>>
  PROVE  IInv'
<1>1. panic'.pending = [x \in DOMAIN panic.pending \cup {id} |->
                          IF x = id THEN now + periods.wait ELSE panic.pending[x]]
  BY DEF Enter, IInv, PanicTyped
<1>2. /\ panic'.active = panic.active /\ panic'.last = panic.last
      /\ panic'.stablecoin = panic.stablecoin
  BY DEF Enter, IInv, PanicTyped
<1>3. reported' = [x \in DOMAIN reported \cup {id} |->
                     IF x = id THEN now ELSE reported[x]]
  BY DEF Enter
<1>4. now \in Nat /\ periods.wait \in Nat
  BY DEF IInv, TypeOK
<1>a. /\ DOMAIN panic'.pending = DOMAIN panic.pending \cup {id}
      /\ DOMAIN reported' = DOMAIN panic.pending \cup {id}
  BY <1>1, <1>3 DEF IInv, TypeOK
<1>b. \A x \in DOMAIN reported' : reported'[x] \in 0 .. now /\ panic'.pending[x] \in Nat
  <2> TAKE x \in DOMAIN reported'
  <2>1. CASE x = id
    BY <1>1, <1>3, <1>4, <2>1
  <2>2. CASE x # id
    BY <1>1, <1>3, <2>2 DEF IInv, TypeOK
  <2> QED BY <2>1, <2>2
<1>5. TypeOK'
  BY <1>2, <1>a, <1>b DEF IInv, TypeOK
<1>6. PanicTyped'
  BY DEF Enter, IInv, PanicTyped
<1>7. Recorded'
  BY <1>1, <1>3 DEF IInv, Recorded, TypeOK
<1> QED BY <1>5, <1>6, <1>7 DEF IInv

\* check_and_initiate_panic_mode, whatever it finds pending.
LEMMA CheckOK ==
  ASSUME IInv, NEW id \in Cdps, CheckAndInitiatePanicMode(id)
  PROVE  IInv'
<1>1. CASE Enter(id)
  BY <1>1, EnterOK DEF CheckAndInitiatePanicMode
<1>2. CASE Activate(id)
  <2>1. /\ panic'.active = TRUE /\ panic'.last = now
        /\ panic'.pending = panic.pending /\ panic'.stablecoin = panic.stablecoin
    BY <1>2 DEF Activate, IInv, PanicTyped
  <2>2. TypeOK'
    BY <1>2, <2>1 DEF Activate, CheckAndInitiatePanicMode, IInv, TypeOK
  <2>3. PanicTyped'
    BY <1>2 DEF Activate, CheckAndInitiatePanicMode, IInv, PanicTyped
  <2>4. Recorded'
    BY <1>2, <2>1 DEF Activate, CheckAndInitiatePanicMode, IInv, Recorded
  <2> QED BY <2>2, <2>3, <2>4 DEF IInv
<1> QED BY <1>1, <1>2 DEF CheckAndInitiatePanicMode, Initiate, TooLate

\* The end of panic mode.
LEMMA StatusOK ==
  ASSUME IInv, CheckPanicModeStatus
  PROVE  IInv'
<1>1. /\ panic'.active = FALSE /\ panic'.last = NoTime
      /\ panic'.pending = panic.pending /\ panic'.stablecoin = panic.stablecoin
  BY DEF CheckPanicModeStatus, IInv, PanicTyped
<1>2. TypeOK'
  BY <1>1 DEF CheckPanicModeStatus, IInv, TypeOK
<1>3. PanicTyped'
  BY DEF CheckPanicModeStatus, IInv, PanicTyped
<1>4. Recorded'
  BY <1>1 DEF CheckPanicModeStatus, IInv, Recorded
<1> QED BY <1>2, <1>3, <1>4 DEF IInv

\* The debt of a loan.
LEMMA DebtNat ==
  ASSUME IInv, NEW id \in Cdps
  PROVE  loans[id].debt \in Nat
<1>1. loans[id] \in Loans(Debts \cup {0})
  BY DEF IInv, TypeOK
<1>2. loans[id].debt \in Debts \cup {0}
  BY <1>1 DEF Loans
<1>3. Debts \cup {0} \subseteq Nat
  BY AmountAssumption
<1> QED BY <1>2, <1>3

\* A vault keeps as much stablecoin as the loan's debt.
LEMMA StoredIsDebt ==
  ASSUME NEW payment \in Nat, NEW debt \in Nat
  PROVE  Stored(payment, debt) = debt
BY DEF Stored

\* A panic liquidation leaves time and vaults typed.
LEMMA PanicLiquidateOK ==
  ASSUME IInv, NEW id \in Cdps, NEW payment \in Payments,
         PanicModeLiquidate(id, payment)
  PROVE  IInv'
<1>1. /\ panic'.active = panic.active /\ panic'.last = now
      /\ panic'.pending = panic.pending /\ panic'.stablecoin = panic.stablecoin
  BY DEF PanicModeLiquidate, IInv, PanicTyped
<1>2. loans' \in [Cdps -> Loans(Debts \cup {0})]
  BY DEF PanicModeLiquidate, IInv, TypeOK, Loans, States
<1>3. TypeOK'
  BY <1>1, <1>2, SMTT(30) DEF PanicModeLiquidate, IInv, TypeOK
<1>4. Stored(payment, loans[id].debt) \in Nat
  BY DebtNat, StoredIsDebt, AmountAssumption
<1>5. vaults' \in [Stablecoins -> Nat]
  BY <1>4 DEF PanicModeLiquidate, IInv, TypeOK, PanicTyped
<1>6. PanicTyped'
  BY <1>5 DEF PanicModeLiquidate, IInv, PanicTyped
<1>7. Recorded'
  BY <1>1 DEF PanicModeLiquidate, IInv, Recorded
<1> QED BY <1>3, <1>6, <1>7 DEF IInv

\* A step that leaves panic mode alone keeps the invariant if it keeps the
\* loans typed.
LEMMA LoansOnlyOK ==
  ASSUME IInv, UNCHANGED <<panic, vaults, periods, reported, now>>,
         loans' \in [Cdps -> Loans(Debts \cup {0})]
  PROVE  IInv'
BY DEF IInv, TypeOK, PanicTyped, Recorded

\* A liquidation from the pool, whether the loan ends or is only marked.
LEMMA LiquidateOK ==
  ASSUME IInv, NEW id \in Cdps, Liquidate(id)
  PROVE  IInv'
<1>1. loans' \in [Cdps -> Loans(Debts \cup {0})]
  BY DEF Liquidate, IInv, TypeOK, Loans, States
<1> QED BY <1>1, LoansOnlyOK DEF Liquidate

\* Anything Flux does to a loan.
LEMMA LoanChangesOK ==
  ASSUME IInv, NEW id \in Cdps, NEW after \in Loans(Debts \cup {0}),
         LoanChanges(id, after)
  PROVE  IInv'
<1>1. loans' \in [Cdps -> Loans(Debts \cup {0})]
  BY DEF LoanChanges, IInv, TypeOK
<1> QED BY <1>1, LoansOnlyOK DEF LoanChanges

\* A redemption takes no more stablecoin than the vault has.
LEMMA PaidOK ==
  ASSUME IInv, NEW payment \in Redemptions
  PROVE  /\ RedemptionsPaid(payment) \in Nat
         /\ vaults[panic.stablecoin] \in Nat
         /\ RedemptionsPaid(payment) <= vaults[panic.stablecoin]
<1>1. payment \in Nat /\ vaults[panic.stablecoin] \in Nat
  BY AmountAssumption DEF IInv, TypeOK, PanicTyped
<1> QED BY <1>1 DEF RedemptionsPaid

\* Redemption, for stablecoin or from loans.
LEMMA PoolRedemptionsOK ==
  ASSUME IInv, NEW payment \in Redemptions, PoolRedemptions(payment)
  PROVE  IInv'
<1>1. loans' \in [Cdps -> Loans(Debts \cup {0})]
  <2>1. PICK debts \in [Cdps -> Debts \cup {0}] :
          loans' = [id \in Cdps |->
            [state |-> IF debts[id] = 0 THEN "Ended" ELSE loans[id].state,
             debt |-> debts[id]]]
    BY DEF PoolRedemptions
  <2> QED BY <2>1 DEF IInv, TypeOK, Loans, States
<1>2. TypeOK'
  BY <1>1 DEF PoolRedemptions, IInv, TypeOK
<1>3. vaults' \in [Stablecoins -> Nat]
  <2>1. vaults' = [vaults EXCEPT ![panic.stablecoin] = @ - RedemptionsPaid(payment)]
    BY DEF PoolRedemptions
  <2>2. vaults \in [Stablecoins -> Nat]
    BY DEF IInv, PanicTyped
  <2>3. vaults[panic.stablecoin] - RedemptionsPaid(payment) \in Nat
    BY PaidOK
  <2> QED BY <2>1, <2>2, <2>3
<1>4. PanicTyped'
  BY <1>3 DEF PoolRedemptions, IInv, PanicTyped
<1>5. Recorded'
  BY DEF PoolRedemptions, IInv, Recorded
<1> QED BY <1>2, <1>4, <1>5 DEF IInv

\* A change of the periods does not touch the entries made before.
LEMMA SetPeriodsOK ==
  ASSUME IInv, NEW p \in Periods, SetPanicModeParameters(p)
  PROVE  IInv'
<1>1. p[1] \in Nat \ {0} /\ p[2] \in Nat \ {0} /\ p[1] \in Waits
  BY PeriodAssumption DEF Waits
<1>2. TypeOK'
  BY <1>1 DEF SetPanicModeParameters, IInv, TypeOK
<1>3. PanicTyped'
  BY DEF SetPanicModeParameters, IInv, PanicTyped
<1>4. Recorded'
  BY <1>1 DEF SetPanicModeParameters, IInv, Recorded
<1> QED BY <1>2, <1>3, <1>4 DEF IInv

\* Another stablecoin.
LEMMA SetStablecoinOK ==
  ASSUME IInv, NEW s \in Stablecoins, SetCentralizedStablecoin(s)
  PROVE  IInv'
<1>1. /\ panic'.active = panic.active /\ panic'.last = panic.last
      /\ panic'.pending = panic.pending /\ panic'.stablecoin = s
  BY DEF SetCentralizedStablecoin, IInv, PanicTyped
<1>2. TypeOK'
  BY <1>1 DEF SetCentralizedStablecoin, IInv, TypeOK
<1>3. PanicTyped'
  BY DEF SetCentralizedStablecoin, IInv, PanicTyped
<1>4. Recorded'
  BY <1>1 DEF SetCentralizedStablecoin, IInv, Recorded
<1> QED BY <1>2, <1>3, <1>4 DEF IInv

\* The clock only moves on.
LEMMA TickOK ==
  ASSUME IInv, Tick
  PROVE  IInv'
<1>1. TypeOK'
  BY TimeAssumption, SMTT(30) DEF Tick, IInv, TypeOK
<1>2. PanicTyped' /\ Recorded'
  BY DEF Tick, IInv, PanicTyped, Recorded
<1> QED BY <1>1, <1>2 DEF IInv

\* Every step preserves the invariant.
LEMMA NextOK == IInv /\ [Next]_vars => IInv'
<1> SUFFICES ASSUME IInv, [Next]_vars PROVE IInv'
  OBVIOUS
<1>1. ASSUME NEW id \in Cdps, CheckAndInitiatePanicMode(id) PROVE IInv'
  BY <1>1, CheckOK
<1>2. ASSUME NEW id \in Cdps, NEW payment \in Payments, PanicModeLiquidate(id, payment)
      PROVE IInv'
  BY <1>2, PanicLiquidateOK
<1>3. ASSUME NEW id \in Cdps, Liquidate(id) PROVE IInv'
  BY <1>3, LiquidateOK
<1>4. ASSUME NEW id \in Cdps, NEW after \in Loans(Debts \cup {0}), LoanChanges(id, after)
      PROVE IInv'
  BY <1>4, LoanChangesOK
<1>5. CASE CheckPanicModeStatus
  BY <1>5, StatusOK
<1>6. ASSUME NEW payment \in Redemptions, PoolRedemptions(payment) PROVE IInv'
  BY <1>6, PoolRedemptionsOK
<1>7. ASSUME NEW p \in Periods, SetPanicModeParameters(p) PROVE IInv'
  BY <1>7, SetPeriodsOK
<1>8. ASSUME NEW s \in Stablecoins, SetCentralizedStablecoin(s) PROVE IInv'
  BY <1>8, SetStablecoinOK
<1>9. ASSUME NEW c \in Collaterals, NEW amount \in PoolAmounts, PoolChanges(c, amount)
      PROVE IInv'
  BY <1>9, LoansOnlyOK DEF PoolChanges, IInv, TypeOK
<1>10. CASE Tick
  BY <1>10, TickOK
<1>11. CASE UNCHANGED vars
  BY <1>11, LoansOnlyOK DEF vars, IInv, TypeOK
<1> QED BY <1>1, <1>2, <1>3, <1>4, <1>5, <1>6, <1>7, <1>8, <1>9, <1>10, <1>11 DEF Next

\* No step but an activation turns panic mode on.
LEMMA OnlyActivate ==
  ASSUME IInv, [Next]_vars, ~panic.active, panic'.active
  PROVE  \E id \in Cdps :
           loans[id].state = "Liquidatable" /\ Short(id) /\ Activate(id)
<1>1. ASSUME NEW id \in Cdps, CheckAndInitiatePanicMode(id), ~Activate(id) PROVE FALSE
  BY <1>1 DEF CheckAndInitiatePanicMode, Initiate, TooLate, Enter, IInv, PanicTyped
<1>2. ASSUME NEW id \in Cdps, CheckAndInitiatePanicMode(id)
      PROVE  loans[id].state = "Liquidatable" /\ Short(id) /\ Activate(id)
  BY <1>1, <1>2 DEF CheckAndInitiatePanicMode
<1>3. ASSUME NEW id \in Cdps, NEW payment \in Payments, PanicModeLiquidate(id, payment)
      PROVE FALSE
  BY <1>3 DEF PanicModeLiquidate, InPanicMode
<1>4. CASE CheckPanicModeStatus
  BY <1>4 DEF CheckPanicModeStatus
<1>5. ASSUME NEW s \in Stablecoins, SetCentralizedStablecoin(s) PROVE FALSE
  BY <1>5 DEF SetCentralizedStablecoin, IInv, PanicTyped
<1>6. ASSUME panic' = panic PROVE FALSE
  BY <1>6
<1> QED
  BY <1>2, <1>3, <1>4, <1>5, <1>6
     DEF Next, Liquidate, LoanChanges, PoolRedemptions, SetPanicModeParameters,
         PoolChanges, Tick, vars

\* An activation lies in the window of an entry.
LEMMA ActivateWaits ==
  ASSUME IInv, NEW id \in Cdps, Activate(id)
  PROVE  \E wait \in Waits : /\ reported[id] + wait < now
                             /\ now < reported[id] + wait + periods.wait
<1>1. id \in DOMAIN reported
  BY DEF Activate, IInv, TypeOK
<1>2. PICK wait \in Waits : panic.pending[id] = reported[id] + wait
  BY <1>1 DEF IInv, Recorded
<1>3. reported[id] \in Nat /\ wait \in Nat /\ now \in Nat /\ periods.wait \in Nat
  BY <1>1, WaitsPositive DEF IInv, TypeOK
<1>4. reported[id] + wait < now /\ now < reported[id] + wait + periods.wait
  BY <1>2, <1>3 DEF Activate
<1> QED BY <1>4

\* No step but a panic liquidation brings stablecoin in, and it brings in the
\* debt of the loan that it ends.
LEMMA OnlyPanicLiquidates ==
  ASSUME IInv, [Next]_vars, NEW s \in Stablecoins, vaults'[s] > vaults[s]
  PROVE  /\ InPanicMode
         /\ \E id \in Cdps :
              /\ Open(id) /\ loans'[id].state = "Ended"
              /\ Short(id)
              /\ vaults'[s] - vaults[s] = loans[id].debt
<1> USE DEF IInv, PanicTyped
<1>1. vaults[s] \in Nat
  OBVIOUS
<1>2. ASSUME NEW id \in Cdps, NEW payment \in Payments, PanicModeLiquidate(id, payment)
      PROVE  /\ InPanicMode
             /\ Open(id) /\ loans'[id].state = "Ended" /\ Short(id)
             /\ vaults'[s] - vaults[s] = loans[id].debt
  <2>1. payment \in Nat /\ loans[id].debt \in Nat
    BY DebtNat, AmountAssumption
  <2>2. Stored(payment, loans[id].debt) = loans[id].debt
    BY <2>1, StoredIsDebt
  <2>3. vaults' = [vaults EXCEPT ![panic.stablecoin] = @ + loans[id].debt]
    BY <1>2, <2>2 DEF PanicModeLiquidate
  <2>4. s = panic.stablecoin
    BY <2>3, <1>1
  <2>5. vaults'[s] - vaults[s] = loans[id].debt
    BY <2>3, <2>4, <2>1, <1>1
  <2>6. loans'[id].state = "Ended"
    BY <1>2 DEF PanicModeLiquidate, TypeOK
  <2> QED BY <1>2, <2>5, <2>6 DEF PanicModeLiquidate, Open
<1>3. ASSUME NEW payment \in Redemptions, PoolRedemptions(payment) PROVE FALSE
  <2>1. vaults'[s] <= vaults[s]
    BY <1>1, <1>3, PaidOK DEF PoolRedemptions
  <2>2. vaults'[s] \in Int
    BY <1>1, <1>3, PaidOK DEF PoolRedemptions
  <2> QED BY <1>1, <2>1, <2>2
<1>4. ASSUME vaults' = vaults PROVE FALSE
  BY <1>1, <1>4
<1> QED
  BY <1>2, <1>3, <1>4
     DEF Next, CheckAndInitiatePanicMode, CheckPanicModeStatus, Liquidate, LoanChanges,
         SetPanicModeParameters, SetCentralizedStablecoin, PoolChanges, Tick, vars

-----------------------------------------------------------------------------
(* What backs the fUSD.                                                    *)

\* The inductive invariant of the backing.
BackedInv ==
  /\ IInv /\ held \in Int /\ pools \in [Collaterals -> Int] /\ Backed

\* The debts of the loans, as a function.
DebtsNow == [id \in Cdps |-> loans[id].debt]

\* Debts, pools and vaults can be added up.
LEMMA SumsTyped ==
  ASSUME BackedInv
  PROVE  /\ IntFunction(DebtsNow) /\ IntFunction(pools) /\ IntFunction(vaults)
         /\ SumFunction(DebtsNow) \in Int /\ SumFunction(pools) \in Int
         /\ SumFunction(vaults) \in Int
<1>1. IntFunction(DebtsNow)
  BY DebtNat, FiniteAssumption DEF BackedInv, IntFunction, DebtsNow
<1>2. IntFunction(pools) /\ IntFunction(vaults)
  BY FiniteAssumption DEF BackedInv, IInv, PanicTyped, IntFunction
<1> QED
  BY <1>1, <1>2, SumFunctionType

\* The sum moves with one entry.
LEMMA SumUpdate ==
  ASSUME NEW f, IntFunction(f), NEW x \in DOMAIN f, NEW v \in Int
  PROVE  /\ IntFunction([f EXCEPT ![x] = v])
         /\ SumFunction([f EXCEPT ![x] = v]) = SumFunction(f) - f[x] + v
<1> DEFINE g == [f EXCEPT ![x] = v]
<1>1. IntFunction(g)
  BY DEF IntFunction
<1>2. SameBut(f, g, x) /\ Term(f, x) = f[x] /\ Term(g, x) = v
  BY DEF SameBut, Term
<1> HIDE DEF g
<1>3. SumFunction(g) = SumFunction(f) - f[x] + v
  BY <1>1, <1>2, SumChange
<1> QED
  BY <1>1, <1>3 DEF g

\* A loan changes, and nothing else about the debts.
LEMMA DebtChange ==
  ASSUME BackedInv, NEW id \in Cdps, NEW after, after.debt \in Int,
         loans' = [loans EXCEPT ![id] = after]
  PROVE  DebtOf(Cdps)' = DebtOf(Cdps) - loans[id].debt + after.debt
<1> DEFINE g == [DebtsNow EXCEPT ![id] = after.debt]
<1>1. loans \in [Cdps -> Loans(Debts \cup {0})] /\ DebtsNow[id] = loans[id].debt
      /\ DOMAIN DebtsNow = Cdps
  BY DEF BackedInv, IInv, TypeOK, DebtsNow
<1>2. g = [x \in Cdps |-> loans'[x].debt]
  BY <1>1 DEF DebtsNow
<1>3. SumFunction(g) = SumFunction(DebtsNow) - loans[id].debt + after.debt
  <2>1. IntFunction(DebtsNow) /\ id \in DOMAIN DebtsNow
    BY <1>1, SumsTyped
  <2> DEFINE v == after.debt
  <2>2. v \in Int
    OBVIOUS
  <2> HIDE DEF v
  <2>3. SumFunction([DebtsNow EXCEPT ![id] = v]) = SumFunction(DebtsNow) - DebtsNow[id] + v
    BY <2>1, <2>2, SumUpdate
  <2> QED
    BY <1>1, <2>3 DEF v
<1> HIDE DEF g
<1> QED
  BY <1>2, <1>3 DEF DebtOf, DebtsNow

\* At first all fUSD is held, and none in a pool.
LEMMA BackedInit == Init => BackedInv
<1> SUFFICES ASSUME Init PROVE BackedInv
  OBVIOUS
<1>1. IInv
  BY InitOK
<1>2. /\ pools = [c \in Collaterals |-> 0] /\ vaults = [s \in Stablecoins |-> 0]
      /\ held = DebtOf(Cdps)
  BY DEF Init
<1>3. IntFunction(DebtsNow)
  BY <1>1, DebtNat, FiniteAssumption DEF IntFunction, DebtsNow
<1>4. held \in Int
  BY <1>2, <1>3, SumFunctionType DEF DebtOf, DebtsNow
<1>5. ASSUME NEW S, IsFiniteSet(S)
      PROVE  SumFunction([x \in S |-> 0]) = 0
  <2> DEFINE z == [x \in S |-> 0]
  <2>1. \A x \in S : z[x] \in Int /\ z[x] = z[x] - z[x]
    OBVIOUS
  <2>2. DOMAIN z = S
    OBVIOUS
  <2> HIDE DEF z
  <2>3. SumFunctionOnSet(z, S) = SumFunctionOnSet(z, S) - SumFunctionOnSet(z, S)
    BY <1>5, <2>1, SumDifference
  <2>4. SumFunctionOnSet(z, S) \in Int
    BY <1>5, <2>1, SumType
  <2>5. SumFunctionOnSet(z, S) = 0
    BY <2>3, <2>4
  <2> QED
    BY <2>2, <2>5 DEF z, SumFunction
<1>6. SumFunction(pools) = 0 /\ SumFunction(vaults) = 0
  BY <1>2, <1>5, FiniteAssumption
<1>7. Backed
  BY <1>2, <1>4, <1>6 DEF Backed
<1> QED
  BY <1>1, <1>2, <1>4, <1>7 DEF BackedInv

\* A liquidation in panic mode: the stablecoin replaces the debt.
LEMMA PanicLiquidateBacked ==
  ASSUME BackedInv, NEW id \in Cdps, NEW payment \in Payments,
         PanicModeLiquidate(id, payment)
  PROVE  held' \in Int /\ pools' \in [Collaterals -> Int] /\ Backed'
<1> DEFINE debt == loans[id].debt
           s == panic.stablecoin
           after == [state |-> "Ended", debt |-> 0]
<1>1. debt \in Int /\ payment \in Int /\ payment \in Nat /\ debt \in Nat /\ held \in Int
  BY DebtNat, AmountAssumption DEF BackedInv
<1>2. /\ vaults' = [vaults EXCEPT ![s] = vaults[s] + Stored(payment, debt)]
      /\ loans' = [loans EXCEPT ![id] = after]
      /\ held' = held + payment - debt - (payment - debt) /\ pools' = pools
  BY DEF PanicModeLiquidate, after
<1>3. Stored(payment, debt) = debt
  BY <1>1, StoredIsDebt
<1>4. s \in DOMAIN vaults /\ vaults[s] \in Int
  BY DEF BackedInv, IInv, TypeOK, PanicTyped
<1>5. SumFunction(vaults') = SumFunction(vaults) + debt
  <2>1. IntFunction(vaults) /\ SumFunction(vaults) \in Int
    BY SumsTyped
  <2>2. vaults[s] + debt \in Int
    BY <1>1, <1>4
  <2>3. SumFunction([vaults EXCEPT ![s] = vaults[s] + debt])
          = SumFunction(vaults) - vaults[s] + (vaults[s] + debt)
    BY <1>4, <2>1, <2>2, SumUpdate
  <2>4. vaults' = [vaults EXCEPT ![s] = vaults[s] + debt]
    BY <1>2, <1>3
  <2> QED
    BY <1>1, <1>4, <2>1, <2>3, <2>4
<1>6. DebtOf(Cdps)' = DebtOf(Cdps) - debt + 0
  <2>1. after.debt = 0 /\ after.debt \in Int
    OBVIOUS
  <2> HIDE DEF after
  <2> QED
    BY <1>2, <2>1, DebtChange
<1>7. /\ DebtOf(Cdps) \in Int /\ SumFunction(pools) \in Int /\ SumFunction(vaults) \in Int
      /\ held + SumFunction(pools) = DebtOf(Cdps) + SumFunction(vaults)
  BY SumsTyped DEF BackedInv, Backed, DebtOf, DebtsNow
<1>8. held' = held
  BY <1>1, <1>2
<1>9. held' + SumFunction(pools') = DebtOf(Cdps)' + SumFunction(vaults')
  <2> HIDE DEF debt
  <2> QED
    BY <1>1, <1>2, <1>5, <1>6, <1>7, <1>8
<1> QED
  BY <1>1, <1>2, <1>8, <1>9 DEF Backed, BackedInv

\* A liquidation from the pool, or the fee of a notice.
LEMMA LiquidateBacked ==
  ASSUME BackedInv, NEW id \in Cdps, Liquidate(id)
  PROVE  held' \in Int /\ pools' \in [Collaterals -> Int] /\ Backed'
<1> DEFINE c == CollateralOf[id]
           debt == loans[id].debt
<1>1. debt \in Int /\ held \in Int /\ NoticeFee \in Int /\ c \in Collaterals /\ held' = held
      /\ vaults' = vaults
  BY DebtNat, AmountAssumption, LoansAssumption DEF BackedInv, Liquidate
<1>2. /\ c \in DOMAIN pools /\ pools[c] \in Int /\ IntFunction(pools)
      /\ pools \in [Collaterals -> Int]
  BY <1>1, SumsTyped DEF BackedInv
<1>3. /\ DebtOf(Cdps) \in Int /\ SumFunction(pools) \in Int /\ SumFunction(vaults) \in Int
      /\ held + SumFunction(pools) = DebtOf(Cdps) + SumFunction(vaults)
  BY SumsTyped DEF BackedInv, Backed, DebtOf, DebtsNow
<1>4. ASSUME NEW by \in Int, NEW after, after.debt = debt + by,
             pools' = [pools EXCEPT ![c] = pools[c] + by],
             loans' = [loans EXCEPT ![id] = after]
      PROVE  pools' \in [Collaterals -> Int] /\ Backed'
  <2>1. pools' \in [Collaterals -> Int]
    BY <1>2, <1>4
  <2>2. pools[c] + by \in Int /\ after.debt \in Int
    BY <1>1, <1>2, <1>4
  <2>3. SumFunction(pools') = SumFunction(pools) - pools[c] + (pools[c] + by)
    BY <1>2, <1>4, <2>2, SumUpdate
  <2>4. DebtOf(Cdps)' = DebtOf(Cdps) - debt + after.debt
    BY <1>4, <2>2, DebtChange
  <2>5. held' + SumFunction(pools') = DebtOf(Cdps)' + SumFunction(vaults')
    <3> HIDE DEF debt, c
    <3> QED
      BY <1>1, <1>2, <1>3, <1>4, <2>3, <2>4
  <2> QED
    BY <2>1, <2>5 DEF Backed
<1>5. CASE /\ pools' = [pools EXCEPT ![c] = @ - debt]
           /\ loans' = [loans EXCEPT ![id] = [state |-> "Ended", debt |-> 0]]
  <2> DEFINE by == -debt
             after == [state |-> "Ended", debt |-> 0]
  <2>1. /\ by \in Int /\ after.debt = debt + by
        /\ pools' = [pools EXCEPT ![c] = pools[c] + by]
        /\ loans' = [loans EXCEPT ![id] = after]
    <3>1. by \in Int /\ debt + by = 0 /\ pools[c] - debt = pools[c] + by
      <4> HIDE DEF debt, c
      <4> QED
        BY <1>1, <1>2 DEF by
    <3>2. after.debt = 0
      OBVIOUS
    <3>3. pools' = [pools EXCEPT ![c] = pools[c] - debt] /\ loans' = [loans EXCEPT ![id] = after]
      BY <1>5
    <3> HIDE DEF by, after
    <3> QED
      BY <3>1, <3>2, <3>3
  <2> HIDE DEF by, after
  <2> QED
    BY <1>1, <1>4, <2>1
<1>6. CASE /\ pools' = [pools EXCEPT ![c] = @ + NoticeFee]
           /\ loans' = [loans EXCEPT ![id] = [state |-> "Safe", debt |-> debt + NoticeFee]]
  <2> DEFINE after == [state |-> "Safe", debt |-> debt + NoticeFee]
  <2>1. /\ after.debt = debt + NoticeFee
        /\ pools' = [pools EXCEPT ![c] = pools[c] + NoticeFee]
        /\ loans' = [loans EXCEPT ![id] = after]
    BY <1>1, <1>2, <1>6
  <2> HIDE DEF after
  <2> QED
    BY <1>1, <1>4, <2>1
<1> QED
  BY <1>5, <1>6 DEF Liquidate

\* Anything Flux does to a loan: the fUSD moves with the debt.
LEMMA LoanChangesBacked ==
  ASSUME BackedInv, NEW id \in Cdps, NEW after \in Loans(Debts \cup {0}),
         LoanChanges(id, after)
  PROVE  held' \in Int /\ pools' \in [Collaterals -> Int] /\ Backed'
<1>1. /\ loans[id].debt \in Int /\ after.debt \in Int /\ held \in Int
      /\ pools' = pools /\ vaults' = vaults
      /\ held' = held + after.debt - loans[id].debt
      /\ loans' = [loans EXCEPT ![id] = after]
  <2>1. loans[id].debt \in Int /\ held \in Int
    BY DebtNat DEF BackedInv
  <2>2. after.debt \in Int
    <3>1. after.debt \in Debts \cup {0}
      BY DEF Loans
    <3>2. Debts \cup {0} \subseteq Nat
      BY AmountAssumption
    <3> QED
      BY <3>1, <3>2
  <2> QED
    BY <2>1, <2>2 DEF LoanChanges
<1>2. DebtOf(Cdps)' = DebtOf(Cdps) - loans[id].debt + after.debt
  BY <1>1, DebtChange
<1>3. /\ DebtOf(Cdps) \in Int /\ SumFunction(pools) \in Int /\ SumFunction(vaults) \in Int
      /\ held + SumFunction(pools) = DebtOf(Cdps) + SumFunction(vaults)
  BY SumsTyped DEF BackedInv, Backed, DebtOf, DebtsNow
<1>4. held' + SumFunction(pools') = DebtOf(Cdps)' + SumFunction(vaults')
  BY <1>1, <1>2, <1>3
<1> QED
  BY <1>1, <1>4 DEF Backed, BackedInv

\* A redemption: stablecoin out of the vault and debt off the loans, as much as
\* the fUSD that is burned.
LEMMA PoolRedemptionsBacked ==
  ASSUME BackedInv, NEW payment \in Redemptions, PoolRedemptions(payment)
  PROVE  held' \in Int /\ pools' \in [Collaterals -> Int] /\ Backed'
<1> DEFINE coins == RedemptionsPaid(payment)
           s == panic.stablecoin
<1>1. PICK debts \in [Cdps -> Debts \cup {0}] :
        /\ loans' = [id \in Cdps |->
             [state |-> IF debts[id] = 0 THEN "Ended" ELSE loans[id].state,
              debt |-> debts[id]]]
        /\ held' = held - coins - RedeemedFrom(debts)
  BY DEF PoolRedemptions
<1>2. /\ coins \in Int /\ s \in DOMAIN vaults /\ vaults[s] \in Int /\ held \in Int
      /\ pools' = pools /\ vaults' = [vaults EXCEPT ![s] = vaults[s] - coins]
  <2>1. IInv /\ held \in Int
    BY DEF BackedInv
  <2>2. coins \in Int /\ vaults[s] \in Int
    BY <2>1, PaidOK
  <2>3. s \in DOMAIN vaults
    BY <2>1 DEF IInv, TypeOK, PanicTyped
  <2>4. pools' = pools /\ vaults' = [vaults EXCEPT ![s] = vaults[s] - coins]
    BY DEF PoolRedemptions
  <2> QED
    BY <2>1, <2>2, <2>3, <2>4
<1>3. SumFunction(vaults') = SumFunction(vaults) - coins
  <2>1. vaults[s] - coins \in Int /\ IntFunction(vaults) /\ SumFunction(vaults) \in Int
    BY <1>2, SumsTyped
  <2>2. SumFunction([vaults EXCEPT ![s] = vaults[s] - coins])
          = SumFunction(vaults) - vaults[s] + (vaults[s] - coins)
    BY <1>2, <2>1, SumUpdate
  <2> HIDE DEF coins
  <2> QED
    BY <1>2, <2>1, <2>2
<1>4. /\ IntFunction(debts) /\ DOMAIN debts = Cdps /\ SumFunction(debts) \in Int
  <2>1. IntFunction(debts) /\ DOMAIN debts = Cdps
    <3>1. Debts \cup {0} \subseteq Nat
      BY AmountAssumption
    <3>2. DOMAIN debts = Cdps /\ \A id \in Cdps : debts[id] \in Debts \cup {0}
      BY <1>1
    <3> QED
      BY <3>1, <3>2, FiniteAssumption DEF IntFunction
  <2> QED
    BY <2>1, SumFunctionType
<1>5. RedeemedFrom(debts) = DebtOf(Cdps) - SumFunction(debts)
  <2> DEFINE h == [id \in Cdps |-> loans[id].debt - debts[id]]
  <2>1. IntFunction(DebtsNow) /\ DOMAIN DebtsNow = Cdps
    BY SumsTyped DEF DebtsNow
  <2>2. \A id \in Cdps : /\ DebtsNow[id] \in Int /\ debts[id] \in Int
                         /\ h[id] = DebtsNow[id] - debts[id]
    BY <1>4, <2>1 DEF IntFunction, DebtsNow
  <2>3. DOMAIN h = Cdps
    OBVIOUS
  <2> HIDE DEF h
  <2>4. SumFunctionOnSet(h, Cdps) = SumFunctionOnSet(DebtsNow, Cdps) - SumFunctionOnSet(debts, Cdps)
    BY <2>2, FiniteAssumption, SumDifference
  <2> QED
    BY <1>4, <2>1, <2>3, <2>4 DEF h, RedeemedFrom, DebtOf, DebtsNow, SumFunction
<1>6. DebtOf(Cdps)' = SumFunction(debts)
  <2>1. debts = [id \in Cdps |-> loans'[id].debt]
    BY <1>1
  <2> QED
    BY <2>1 DEF DebtOf
<1>7. /\ DebtOf(Cdps) \in Int /\ SumFunction(pools) \in Int /\ SumFunction(vaults) \in Int
      /\ held + SumFunction(pools) = DebtOf(Cdps) + SumFunction(vaults)
  BY SumsTyped DEF BackedInv, Backed, DebtOf, DebtsNow
<1>8. held' \in Int /\ held' + SumFunction(pools') = DebtOf(Cdps)' + SumFunction(vaults')
  <2> HIDE DEF coins
  <2> QED
    BY <1>1, <1>2, <1>3, <1>4, <1>5, <1>6, <1>7
<1> QED
  BY <1>2, <1>8 DEF Backed, BackedInv

\* Contributions and withdrawals.
LEMMA PoolChangesBacked ==
  ASSUME BackedInv, NEW c \in Collaterals, NEW amount \in PoolAmounts, PoolChanges(c, amount)
  PROVE  held' \in Int /\ pools' \in [Collaterals -> Int] /\ Backed'
<1>1. /\ amount \in Int /\ held \in Int /\ pools[c] \in Int /\ c \in DOMAIN pools
      /\ pools \in [Collaterals -> Int] /\ IntFunction(pools)
      /\ pools' = [pools EXCEPT ![c] = amount] /\ loans' = loans /\ vaults' = vaults
      /\ held' = held + pools[c] - amount
  BY AmountAssumption, SumsTyped DEF BackedInv, PoolChanges
<1>2. SumFunction(pools') = SumFunction(pools) - pools[c] + amount
  BY <1>1, SumUpdate
<1>3. /\ DebtOf(Cdps) \in Int /\ SumFunction(pools) \in Int /\ SumFunction(vaults) \in Int
      /\ held + SumFunction(pools) = DebtOf(Cdps) + SumFunction(vaults)
  BY SumsTyped DEF BackedInv, Backed, DebtOf, DebtsNow
<1>4. DebtOf(Cdps)' = DebtOf(Cdps)
  BY <1>1 DEF DebtOf
<1>5. held' + SumFunction(pools') = DebtOf(Cdps)' + SumFunction(vaults')
  BY <1>1, <1>2, <1>3, <1>4
<1> QED
  BY <1>1, <1>5 DEF Backed

\* The fUSD is backed after every step.
LEMMA BackedNext == BackedInv /\ [Next]_vars => BackedInv'
<1> SUFFICES ASSUME BackedInv, [Next]_vars PROVE BackedInv'
  OBVIOUS
<1>1. IInv'
  BY NextOK DEF BackedInv
<1>2. SUFFICES held' \in Int /\ pools' \in [Collaterals -> Int] /\ Backed'
  BY <1>1 DEF BackedInv
<1>3. ASSUME UNCHANGED <<held, pools, loans, vaults>>
      PROVE  held' \in Int /\ pools' \in [Collaterals -> Int] /\ Backed'
  BY <1>3 DEF BackedInv, Backed, DebtOf
<1>4. ASSUME NEW id \in Cdps,
             \/ CheckAndInitiatePanicMode(id)
             \/ \E payment \in Payments : PanicModeLiquidate(id, payment)
             \/ Liquidate(id)
             \/ \E after \in Loans(Debts \cup {0}) : LoanChanges(id, after)
      PROVE  held' \in Int /\ pools' \in [Collaterals -> Int] /\ Backed'
  <2>1. CASE CheckAndInitiatePanicMode(id)
    BY <1>3, <2>1 DEF CheckAndInitiatePanicMode
  <2> QED
    BY <1>4, <2>1, PanicLiquidateBacked, LiquidateBacked, LoanChangesBacked
<1>5. CASE CheckPanicModeStatus \/ Tick \/ UNCHANGED vars
  BY <1>3, <1>5 DEF CheckPanicModeStatus, Tick, vars
<1>6. CASE \E payment \in Redemptions : PoolRedemptions(payment)
  BY <1>6, PoolRedemptionsBacked
<1>7. CASE \/ \E p \in Periods : SetPanicModeParameters(p)
           \/ \E s \in Stablecoins : SetCentralizedStablecoin(s)
  BY <1>3, <1>7 DEF SetPanicModeParameters, SetCentralizedStablecoin
<1>8. CASE \E c \in Collaterals, amount \in PoolAmounts : PoolChanges(c, amount)
  BY <1>8, PoolChangesBacked
<1> QED
  BY <1>4, <1>5, <1>6, <1>7, <1>8 DEF Next

-----------------------------------------------------------------------------
(* The theorems.                                                           *)

\* Panic mode's state is typed in every reachable state, and no entry and no
\* liquidation lies in the future.
THEOREM TypeCorrect == Spec => []TypeOK
<1>1. IInv => TypeOK
  BY DEF IInv
<1> QED BY <1>1, InitOK, NextOK, PTL DEF Spec

\* check_and_initiate_panic_mode activates panic mode only within the window
\* after the wait of a loan that is still short of fUSD.
THEOREM ActivationIsLate == Spec => ActivationWaits
<1>1. ASSUME IInv, [Next]_vars
      PROVE [~panic.active /\ panic'.active =>
               \E id \in DOMAIN reported : \E wait \in Waits :
                 /\ loans[id].state = "Liquidatable" /\ Short(id)
                 /\ reported[id] + wait < now
                 /\ now < reported[id] + wait + periods.wait]_vars
  <2> SUFFICES ASSUME ~panic.active, panic'.active
               PROVE  \E id \in DOMAIN reported : \E wait \in Waits :
                        /\ loans[id].state = "Liquidatable" /\ Short(id)
                        /\ reported[id] + wait < now
                        /\ now < reported[id] + wait + periods.wait
    OBVIOUS
  <2>1. PICK id \in Cdps :
          loans[id].state = "Liquidatable" /\ Short(id) /\ Activate(id)
    BY <1>1, OnlyActivate
  <2>2. id \in DOMAIN reported
    BY <1>1, <2>1 DEF Activate, IInv, TypeOK
  <2> QED BY <1>1, <2>1, <2>2, ActivateWaits
<1> QED BY <1>1, InitOK, NextOK, PTL DEF Spec, ActivationWaits

\* panic_mode_liquidate is the only way in for stablecoin, and works only
\* while panic mode lasts and the pool is short.
THEOREM StablecoinIsNeeded == Spec => StablecoinNeeded
<1>1. ASSUME IInv, [Next]_vars
      PROVE [\A s \in Stablecoins : vaults'[s] > vaults[s] =>
               /\ panic.active /\ now <= panic.last + periods.cooldown
               /\ \E id \in Cdps :
                    /\ Open(id) /\ loans'[id].state = "Ended"
                    /\ Pool(id) < loans[id].debt
                    /\ vaults'[s] - vaults[s] = loans[id].debt]_vars
  BY <1>1, OnlyPanicLiquidates DEF InPanicMode, Short
<1> QED BY <1>1, InitOK, NextOK, PTL DEF Spec, StablecoinNeeded

\* For any number of loans, pools and stablecoins, every fUSD is backed by the
\* debt of a loan or by a stablecoin in a vault, also after a vault was filled
\* by panic liquidations, drained by redemptions and replaced by another.
THEOREM FusdIsBacked == Spec => []Backed
<1>1. BackedInv => Backed
  BY DEF BackedInv
<1> QED BY <1>1, BackedInit, BackedNext, PTL DEF Spec

=============================================================================
