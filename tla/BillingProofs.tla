---------------------------- MODULE BillingProofs ----------------------------
(* Theorems of Billing, for any accounts, prices, period and number of      *)
(* requests.                                                                *)
EXTENDS Billing, FiniteSetTheorems, TLAPS

LEMMA UnitsType ==
  ASSUME NEW rows \in SUBSET Accounts
  PROVE  Units(rows) \in [Kinds -> Nat]
<1> SUFFICES ASSUME NEW k \in Kinds
             PROVE  Cardinality({a \in rows : KindOf[a] = k}) \in Nat
  BY DEF Units
<1>1. {a \in rows : KindOf[a] = k} \subseteq Accounts
  OBVIOUS
<1> QED
  BY <1>1, AccountsAssumption, FS_Subset, FS_CardinalityType

LEMMA FeeType ==
  ASSUME NEW units \in [Kinds -> Nat]
  PROVE  MonthlyFee(units) \in Nat
<1>1. ASSUME NEW k \in Kinds, NEW n \in Nat PROVE Price(k, n) \in Nat
  <2>1. First[k] \in Nat /\ Extra[k] \in Nat
    BY PricesAssumption
  <2>2. CASE n = 0
    BY <2>2 DEF Price
  <2>3. CASE n > 0
    <3>1. n - 1 \in Nat
      BY <2>3
    <3>2. Extra[k] * (n - 1) \in Nat
      BY <2>1, <3>1
    <3> QED
      BY <2>1, <2>3, <3>2 DEF Price
  <2> QED
    BY <2>2, <2>3
<1>2. \A k \in Kinds : Price(k, units[k]) \in Nat
  BY <1>1
<1>3. "payment" \in Kinds /\ "sms" \in Kinds /\ "docs" \in Kinds
  BY DEF Kinds
<1>4. /\ Price("payment", units["payment"]) \in Nat
      /\ Price("sms", units["sms"]) \in Nat
      /\ Price("docs", units["docs"]) \in Nat
  BY <1>2, <1>3
<1> QED
  BY <1>4 DEF MonthlyFee

LEMMA RoundedType ==
  ASSUME NEW n \in Int, NEW d \in Nat \ {0}
  PROVE  RoundedRatio(n, d) \in Int
<1>1. n \div d \in Int
  BY SMT
<1> QED
  BY <1>1 DEF RoundedRatio

\* What ensure_paid charges is a number, and a running period has not ended.
LEMMA CostType ==
  ASSUME TypeOK, NEW units \in [Kinds -> Nat]
  PROVE  UpgradeCost(units) \in Int
<1>1. MonthlyFee(units) \in Nat /\ MonthlyFee(paid) \in Nat
  BY FeeType DEF TypeOK
<1>2. left \in Int /\ Period \in Nat \ {0}
  BY TimeAssumption DEF TypeOK
<1> DEFINE more == MonthlyFee(units) - MonthlyFee(paid)
<1>3. more \in Int
  BY <1>1
<1>4. more * left \in Int
  BY <1>2, <1>3
<1>5. RoundedRatio(more * left, Period) \in Int
  BY <1>2, <1>4, RoundedType
<1> QED
  BY <1>1, <1>5 DEF UpgradeCost

-----------------------------------------------------------------------------
LEMMA FeeOfActive == TypeOK => Fee \in Nat /\ ActiveUnits \in [Kinds -> Nat]
<1> SUFFICES ASSUME TypeOK PROVE Fee \in Nat /\ ActiveUnits \in [Kinds -> Nat]
  OBVIOUS
<1>1. on \cap live \in SUBSET Accounts
  BY DEF TypeOK
<1>2. ActiveUnits \in [Kinds -> Nat]
  BY <1>1, UnitsType DEF ActiveUnits
<1> QED
  BY <1>2, FeeType DEF Fee

LEMMA SwitchJob ==
  ASSUME TypeOK, NEW w \in Workers, job[w].op = "switch"
  PROVE  job[w].acc \in Accounts /\ job[w].to \in BOOLEAN /\ job[w].units \in [Kinds -> Nat]
<1>1. job[w] \in Jobs
  BY DEF TypeOK
<1> QED
  BY <1>1 DEF Jobs, Idle

LEMMA SwitchedType ==
  ASSUME TypeOK, NEW a \in Accounts, NEW to
  PROVE  Switched(a, to) \subseteq Accounts
BY DEF TypeOK, Switched

LEMMA Ranges ==
  /\ Never \in Int /\ Never < 0 /\ Never \in Never .. Grace
  /\ 0 \in Never .. Grace /\ 0 \in -MaxLate .. Period /\ Period \in -MaxLate .. Period
BY TimeAssumption DEF Never

IInv == TypeOK /\ PausedOnlyUnpaid

LEMMA InitIInv == Init => IInv
<1> SUFFICES ASSUME Init PROVE IInv
  OBVIOUS
<1>1. TypeOK
  <2>1. NoUnits \in [Kinds -> Nat] /\ Idle \in Jobs
    BY DEF NoUnits, Jobs
  <2>2. left \in -MaxLate .. Period /\ overdue \in Never .. Grace /\ balance \in Int
    BY Ranges DEF Init
  <2> QED
    BY <2>1, <2>2 DEF Init, TypeOK
<1>2. PausedOnlyUnpaid
  BY DEF Init, PausedOnlyUnpaid
<1> QED
  BY <1>1, <1>2 DEF IInv

\* renew keeps the invariant of the company row.
CompanyOK ==
  /\ balance \in Int
  /\ open \in BOOLEAN
  /\ left \in -MaxLate .. Period
  /\ paid \in [Kinds -> Nat]
  /\ overdue \in Never .. Grace
  /\ paused \in BOOLEAN
  /\ PausedOnlyUnpaid

LEMMA RenewStep == IInv /\ Renew => CompanyOK'
<1> SUFFICES ASSUME IInv, Renew PROVE CompanyOK'
  OBVIOUS
<1> USE TimeAssumption DEF IInv, TypeOK, CompanyOK, PausedOnlyUnpaid
<1>1. Fee \in Nat /\ ActiveUnits \in [Kinds -> Nat]
  BY FeeOfActive
<1>2. CASE Due /\ Lapse
  BY <1>2, Ranges DEF Lapse, NoUnits
<1>3. CASE Due /\ NextPeriod
  <2>1. left \in Int /\ left <= 0 /\ left \in -MaxLate .. Period /\ open
    BY <1>3 DEF Due
  <2>2. left' \in -MaxLate .. Period
    BY <1>3, <2>1 DEF NextPeriod
  <2>3. balance' \in Int
    BY <1>1, <1>3 DEF NextPeriod
  <2>4. open' \in BOOLEAN /\ overdue' \in Never .. Grace /\ paid' \in [Kinds -> Nat]
    BY <1>1, <1>3, Ranges DEF NextPeriod
  <2>5. paused' = FALSE
    BY <1>3 DEF NextPeriod
  <2> QED
    BY <2>2, <2>3, <2>4, <2>5
<1>4. CASE Due /\ Unpaid
  <2>1. overdue' \in Never .. Grace
    BY <1>4, Ranges DEF Unpaid, Largest
  <2>2. paused => overdue' = Grace
    BY <1>4, Ranges DEF Unpaid, Largest
  <2>3. overdue' >= Grace => overdue' = Grace
    BY <2>1, Ranges
  <2>4. open /\ left <= 0
    BY <1>4 DEF Due
  <2>5. UNCHANGED <<balance, open, left, paid>> /\ paused' = (paused \/ overdue' >= Grace)
    BY <1>4 DEF Unpaid
  <2> QED
    BY <2>1, <2>2, <2>3, <2>4, <2>5
<1>5. CASE ~Due /\ UNCHANGED company
  BY <1>5 DEF company
<1> QED
  BY <1>2, <1>3, <1>4, <1>5 DEF Renew

LEMMA IInvStep == IInv /\ [Next]_vars => IInv'
<1> SUFFICES ASSUME IInv, [Next]_vars PROVE IInv'
  OBVIOUS
<1> USE DEF IInv, TypeOK
<1>1. ASSUME NEW w \in Workers, NEW a \in Accounts, NEW to \in BOOLEAN, SaveRow(w, a, to)
      PROVE  IInv'
  <2>1. Switched(a, to) \cap live \in SUBSET Accounts
    BY SwitchedType
  <2> DEFINE j == [op |-> "switch", acc |-> a, to |-> to, units |-> Units(Switched(a, to) \cap live)]
  <2>2. j \in Jobs
    BY <2>1, UnitsType DEF Jobs
  <2>3. job' = [job EXCEPT ![w] = j] /\ UNCHANGED <<on, live, company, exempt>>
    BY <1>1 DEF SaveRow
  <2> HIDE DEF j
  <2> QED
    BY <2>2, <2>3 DEF company, PausedOnlyUnpaid
<1>2. ASSUME NEW w \in Workers, EnsurePaid(w) PROVE IInv'
  <2>1. /\ job[w].acc \in Accounts /\ job[w].to \in BOOLEAN
        /\ job[w].units \in [Kinds -> Nat]
    BY <1>2, SwitchJob DEF EnsurePaid
  <2>2. UpgradeCost(job[w].units) \in Int
    BY <2>1, CostType
  <2>3. Switched(job[w].acc, job[w].to) \subseteq Accounts
    BY <2>1, SwitchedType
  <2>4. paid' \in [Kinds -> Nat]
    BY <1>2, <2>1 DEF EnsurePaid, Largest
  <2>5. left' \in -MaxLate .. Period
    BY <1>2, TimeAssumption DEF EnsurePaid
  <2>6. balance' \in Int /\ open' = TRUE /\ paused' = FALSE /\ overdue' = Never
    BY <1>2, <2>2 DEF EnsurePaid
  <2>7. /\ on' \subseteq Accounts /\ job' \in [Workers -> Jobs]
        /\ UNCHANGED <<live, exempt>>
    BY <1>2, <2>3 DEF EnsurePaid, Jobs
  <2> QED
    BY <2>4, <2>5, <2>6, <2>7, Ranges DEF PausedOnlyUnpaid
<1>3. ASSUME NEW w \in Workers, SwitchFree(w) PROVE IInv'
  <2>1. Switched(job[w].acc, job[w].to) \subseteq Accounts
    BY <1>3, SwitchJob, SwitchedType DEF SwitchFree
  <2> QED
    BY <1>3, <2>1 DEF SwitchFree, company, Jobs, PausedOnlyUnpaid
<1>4. ASSUME NEW w \in Workers, Rollback(w) PROVE IInv'
  BY <1>4 DEF Rollback, company, Jobs, PausedOnlyUnpaid
<1>5. ASSUME NEW w \in Workers, NEW amount \in Amounts, Credit(w, amount) PROVE IInv'
  BY <1>5, AmountsAssumption DEF Credit, Jobs, PausedOnlyUnpaid
<1>6. ASSUME NEW w \in Workers, RenewAfterCredit(w) PROVE IInv'
  <2>1. CompanyOK'
    BY <1>6, RenewStep DEF RenewAfterCredit
  <2>2. UNCHANGED <<on, live, exempt>> /\ job' \in [Workers -> Jobs]
    BY <1>6 DEF RenewAfterCredit, Jobs
  <2> QED
    BY <2>1, <2>2 DEF CompanyOK
<1>7. ASSUME RenewDue PROVE IInv'
  <2>1. CompanyOK' /\ UNCHANGED <<on, live, exempt, job>>
    BY <1>7, RenewStep DEF RenewDue
  <2> QED
    BY <2>1 DEF CompanyOK
<1>8. ASSUME NEW a \in Accounts, SwitchDocsOff(a) \/ DeleteAccount(a) \/ Connection(a)
      PROVE  IInv'
  BY <1>8 DEF SwitchDocsOff, DeleteAccount, Connection, company, PausedOnlyUnpaid
<1>9. ASSUME SetExempt \/ Resume PROVE IInv'
  <2>1. CASE SetExempt
    <3>1. exempt' \in BOOLEAN
      BY <2>1 DEF SetExempt
    <3> QED
      BY <2>1, <3>1 DEF SetExempt, company, PausedOnlyUnpaid
  <2>2. CASE Resume
    BY <2>2, Ranges DEF Resume, PausedOnlyUnpaid
  <2> QED
    BY <1>9, <2>1, <2>2
<1>10. ASSUME Tick PROVE IInv'
  <2>1. left' \in -MaxLate .. Period
    BY <1>10, TimeAssumption DEF Tick
  <2>2. overdue' \in Never .. Grace
    BY <1>10, TimeAssumption DEF Tick, Never
  <2>3. PausedOnlyUnpaid'
    BY <1>10, TimeAssumption DEF Tick, Never, PausedOnlyUnpaid
  <2> QED
    BY <1>10, <2>1, <2>2, <2>3 DEF Tick
<1>11. CASE UNCHANGED vars
  BY <1>11 DEF vars, company, PausedOnlyUnpaid
<1> QED
  BY <1>1, <1>2, <1>3, <1>4, <1>5, <1>6, <1>7, <1>8, <1>9, <1>10, <1>11
     DEF Next, Requests, Rows, SaveAccount, SwitchDocsOn

\* Every variable of the tariff keeps its type.
THEOREM TypeCorrect == Spec => []TypeOK
<1>1. IInv => TypeOK
  BY DEF IInv
<1> QED
  BY <1>1, InitIInv, IInvStep, PTL DEF Spec

\* A company is paused only for a period that ended and stayed unpaid for the
\* days of grace.
THEOREM PausedUnpaid == Spec => []PausedOnlyUnpaid
<1>1. IInv => PausedOnlyUnpaid
  BY DEF IInv
<1> QED
  BY <1>1, InitIInv, IInvStep, PTL DEF Spec

-----------------------------------------------------------------------------
LEMMA ChargeStep ==
  ASSUME TypeOK, [Next]_vars, balance' < balance,
         ~(\E w \in Workers, amount \in Amounts : Credit(w, amount))
  PROVE  balance' >= 0
<1>1. balance \in Int
  BY DEF TypeOK
<1>2. ASSUME NEW w \in Workers, EnsurePaid(w) PROVE balance' >= 0
  <2>1. UpgradeCost(job[w].units) \in Int
    BY <1>2, SwitchJob, CostType DEF EnsurePaid
  <2>2. /\ UpgradeCost(job[w].units) <= balance
        /\ balance' = balance - UpgradeCost(job[w].units)
    BY <1>2 DEF EnsurePaid
  <2> QED
    BY <1>1, <2>1, <2>2
<1>3. ASSUME Renew PROVE balance' >= 0
  <2>1. Fee \in Nat
    BY FeeOfActive
  <2> QED
    BY <1>1, <1>3, <2>1 DEF Renew, Lapse, NextPeriod, Unpaid, company
\* No other action changes the balance.
<1>4. CASE UNCHANGED balance
  BY <1>1, <1>4
<1> QED
  BY <1>2, <1>3, <1>4
     DEF Next, Requests, Rows, SaveAccount, SwitchDocsOn, SaveRow, SwitchFree, Rollback,
         RenewAfterCredit, RenewDue, SwitchDocsOff, DeleteAccount, Connection,
         SetExempt, Resume, Tick, vars, company

\* ensure_paid and renew spend only what the balance holds when they commit.
THEOREM ChargesAreCovered == Spec => ChargesCovered
<1>1. TypeOK /\ [Next]_vars =>
        [balance' < balance /\ ~(\E w \in Workers, amount \in Amounts : Credit(w, amount))
           => balance' >= 0]_vars
  BY ChargeStep
<1> QED
  BY <1>1, TypeCorrect, PTL DEF Spec, ChargesCovered
=============================================================================
