------------------------------ MODULE Billing ------------------------------
(***************************************************************************)
(* The tariff of one company that is not the platform itself: its balance, *)
(* its 30-day period, and the accounts it is charged for.                  *)
(*                                                                         *)
(* A request that switches an account is one database transaction, but it  *)
(* counts the accounts before it locks the company row: other requests run *)
(* in between, and none of them sees its uncommitted account.  So it is    *)
(* two actions, and job[w] holds what request w has counted.               *)
(*                                                                         *)
(* Time is counted in ticks.  left and overdue are period_end - now and    *)
(* now - overdue_since.  A request that is refused for another reason than *)
(* the balance (the Kabinet profile, missing keys) changes nothing and has *)
(* no action.                                                              *)
(***************************************************************************)
EXTENDS Integers, FiniteSets

CONSTANTS
  Accounts,    \* merchant and SMS accounts, amoCRM connections
  KindOf,      \* what each is charged as
  Workers,     \* requests that can be half-way at a time
  First,       \* TariffPrice.first_tiyin per kind
  Extra,       \* TariffPrice.extra_tiyin per kind
  Period,      \* PERIOD, in ticks
  Grace,       \* GRACE, in ticks
  Amounts,     \* what an operator or a top-up credits; negative: taken off
  MinBalance,  \* bounds of the model: no credit leaves them,
  MaxBalance,
  MaxLate      \* and a period that ended earlier counts as ended MaxLate ago

Kinds == {"payment", "sms", "docs"}

ASSUME AccountsAssumption == IsFiniteSet(Accounts) /\ KindOf \in [Accounts -> Kinds]
ASSUME PricesAssumption == First \in [Kinds -> Nat] /\ Extra \in [Kinds -> Nat]
ASSUME TimeAssumption == Period \in Nat \ {0} /\ Grace \in Nat /\ MaxLate \in Nat
ASSUME AmountsAssumption == Amounts \subseteq Int /\ MinBalance \in Int /\ MaxBalance \in Int

VARIABLES
  on,        \* is_enabled, or docs_enabled of an amoCRM connection
  live,      \* has its keys; the amoCRM connection is ACTIVE
  balance,   \* Company.balance_tiyin
  open,      \* Company.period_end is set
  left,      \* ticks to period_end, 0 while there is none
  paid,      \* paid_payment_units, paid_sms_units, paid_docs_units
  overdue,   \* ticks since overdue_since, up to Grace
  paused,    \* paused_at is set
  exempt,    \* billing_exempt
  job        \* what each request goes on with

company == <<balance, open, left, paid, overdue, paused>>
vars == <<on, live, company, exempt, job>>

Never == -1   \* overdue_since is not set

Idle == [op |-> "idle"]
Jobs == {Idle, [op |-> "renew"]}
        \cup [op : {"switch"}, acc : Accounts, to : BOOLEAN, units : [Kinds -> Nat]]

NoUnits == [k \in Kinds |-> 0]

\* active_units, of the rows a transaction sees.
Units(rows) == [k \in Kinds |-> Cardinality({a \in rows : KindOf[a] = k})]

ActiveUnits == Units(on \cap live)

Price(k, n) == IF n <= 0 THEN 0 ELSE First[k] + Extra[k] * (n - 1)

MonthlyFee(units) ==
  Price("payment", units["payment"]) + Price("sms", units["sms"]) + Price("docs", units["docs"])

\* round(n / d): halves go to the even neighbour.
RoundedRatio(n, d) ==
  LET q == n \div d
      r == 2 * (n % d)
  IN  IF r < d \/ (r = d /\ q % 2 = 0) THEN q ELSE q + 1

\* Charging now would open a new period.
Opening == ~open \/ left <= 0

\* upgrade_cost, for a billable company.
UpgradeCost(units) ==
  LET more == MonthlyFee(units) - MonthlyFee(paid) IN
  IF Opening THEN MonthlyFee(units)
  ELSE IF more <= 0 THEN 0
  ELSE RoundedRatio(more * left, Period)

Switched(a, to) == IF to THEN on \cup {a} ELSE on \ {a}

\* A row that an unfinished request has written.
RowLocked(a) == \E w \in Workers : job[w].op = "switch" /\ job[w].acc = a

Init ==
  /\ on = {}
  /\ live = Accounts
  /\ balance = 0
  /\ open = FALSE
  /\ left = 0
  /\ paid = NoUnits
  /\ overdue = Never
  /\ paused = FALSE
  /\ exempt = FALSE
  /\ job = [w \in Workers |-> Idle]

-----------------------------------------------------------------------------
(* Switching accounts                                                      *)

\* The first half of a request: the row is saved and apply_change counts.
SaveRow(w, a, to) ==
  /\ job[w] = Idle
  /\ ~RowLocked(a)
  /\ job' = [job EXCEPT ![w] =
               [op |-> "switch", acc |-> a, to |-> to, units |-> Units(Switched(a, to) \cap live)]]
  /\ UNCHANGED <<on, live, company, exempt>>

\* add_provider, save_provider, add_account, save_account: any edit of the row.
SaveAccount(w, a, to) ==
  /\ KindOf[a] \in {"payment", "sms"}
  /\ SaveRow(w, a, to)

\* put_settings of the widget: documents are charged when they switch on.
SwitchDocsOn(w, a) ==
  /\ KindOf[a] = "docs"
  /\ a \in live \ on
  /\ SaveRow(w, a, TRUE)

SwitchDocsOff(a) ==
  /\ KindOf[a] = "docs"
  /\ a \in live \cap on
  /\ ~RowLocked(a)
  /\ on' = on \ {a}
  /\ UNCHANGED <<live, company, exempt, job>>

\* delete_provider, delete_account
DeleteAccount(a) ==
  /\ KindOf[a] \in {"payment", "sms"}
  /\ a \in on
  /\ ~RowLocked(a)
  /\ on' = on \ {a}
  /\ UNCHANGED <<live, company, exempt, job>>

\* disconnect, uninstall_hook, a dead token; and connect again.
Connection(a) ==
  /\ KindOf[a] = "docs"
  /\ ~RowLocked(a)
  /\ live' = IF a \in live THEN live \ {a} ELSE live \cup {a}
  /\ UNCHANGED <<on, company, exempt, job>>

Largest(m, n) == IF m >= n THEN m ELSE n

\* Variant: the pause is not cleared.
EnsurePaidStaysPaused(w) ==
  /\ job[w].op = "switch"
  /\ ~exempt
  /\ UpgradeCost(job[w].units) <= balance
  /\ balance' = balance - UpgradeCost(job[w].units)
  /\ open' = TRUE
  /\ left' = IF Opening THEN Period ELSE left
  /\ paid' = [k \in Kinds |-> Largest(IF Opening THEN 0 ELSE paid[k], job[w].units[k])]
  /\ on' = Switched(job[w].acc, job[w].to)
  /\ job' = [job EXCEPT ![w] = Idle]
  /\ UNCHANGED <<live, overdue, paused, exempt>>

\* ensure_paid, with the company locked; then the transaction commits.
EnsurePaid(w) ==
  LET units == job[w].units
      cost  == UpgradeCost(units)
  IN
  /\ job[w].op = "switch"
  /\ ~exempt
  /\ cost <= balance
  /\ balance' = balance - cost
  /\ open' = TRUE
  /\ left' = IF Opening THEN Period ELSE left
  /\ paid' = [k \in Kinds |-> Largest(IF Opening THEN 0 ELSE paid[k], units[k])]
  /\ overdue' = Never
  /\ paused' = FALSE
  /\ on' = Switched(job[w].acc, job[w].to)
  /\ job' = [job EXCEPT ![w] = Idle]
  /\ UNCHANGED <<live, exempt>>

\* ensure_paid of a company that is not billable.
SwitchFree(w) ==
  /\ job[w].op = "switch"
  /\ exempt
  /\ on' = Switched(job[w].acc, job[w].to)
  /\ job' = [job EXCEPT ![w] = Idle]
  /\ UNCHANGED <<live, company, exempt>>

\* InsufficientBalance, or the request dies: the row is rolled back.
Rollback(w) ==
  /\ job[w] # Idle
  /\ job' = [job EXCEPT ![w] = Idle]
  /\ UNCHANGED <<on, live, company, exempt>>

-----------------------------------------------------------------------------
(* renew, with the company locked                                          *)

\* Variant: the end of the period is not checked under the lock.
DueAnyTime == ~exempt /\ open

Due == ~exempt /\ open /\ left <= 0

Fee == MonthlyFee(ActiveUnits)

Lapse ==
  /\ Fee = 0
  /\ open' = FALSE
  /\ left' = 0
  /\ paid' = NoUnits
  /\ overdue' = Never
  /\ paused' = FALSE
  /\ UNCHANGED balance

\* Variant: a balance that is not empty is enough.
NextPeriodOnCredit ==
  /\ Fee > 0
  /\ balance > 0
  /\ balance' = balance - Fee
  /\ left' = IF paused THEN Period ELSE left + Period
  /\ paid' = ActiveUnits
  /\ overdue' = Never
  /\ paused' = FALSE
  /\ UNCHANGED open

\* The new period starts where the old one ended, unless service was paused.
NextPeriod ==
  /\ Fee > 0
  /\ balance >= Fee
  /\ balance' = balance - Fee
  /\ left' = IF paused THEN Period ELSE left + Period
  /\ paid' = ActiveUnits
  /\ overdue' = Never
  /\ paused' = FALSE
  /\ UNCHANGED open

Unpaid ==
  /\ Fee > 0
  /\ balance < Fee
  /\ overdue' = Largest(overdue, 0)
  /\ paused' = (paused \/ overdue' >= Grace)
  /\ UNCHANGED <<balance, open, left, paid>>

Renew ==
  \/ Due /\ (Lapse \/ NextPeriod \/ Unpaid)
  \/ ~Due /\ UNCHANGED company

\* Variant: paused companies are not looked at.
RenewDueUnpaused ==
  /\ Due /\ ~paused
  /\ Renew
  /\ UNCHANGED <<on, live, exempt, job>>

\* renew_due, every 15 minutes
RenewDue ==
  /\ Due
  /\ Renew
  /\ UNCHANGED <<on, live, exempt, job>>

\* credit: an online top-up, a bank transfer, or an amount taken off.
Credit(w, amount) ==
  /\ job[w] = Idle
  /\ balance + amount \in MinBalance .. MaxBalance
  /\ balance' = balance + amount
  /\ job' = [job EXCEPT ![w] = [op |-> "renew"]]
  /\ UNCHANGED <<on, live, open, left, paid, overdue, paused, exempt>>

\* The on_commit hook of credit.
RenewAfterCredit(w) ==
  /\ job[w].op = "renew"
  /\ Renew
  /\ job' = [job EXCEPT ![w] = Idle]
  /\ UNCHANGED <<on, live, exempt>>

-----------------------------------------------------------------------------
(* The platform's operators, and time                                      *)

\* make_exempt, make_billable
SetExempt ==
  /\ exempt' = ~exempt
  /\ UNCHANGED <<on, live, company, job>>

\* resume
Resume ==
  /\ paused \/ overdue # Never
  /\ paused' = FALSE
  /\ overdue' = Never
  /\ UNCHANGED <<on, live, balance, open, left, paid, exempt, job>>

Tick ==
  /\ left' = IF open /\ left > -MaxLate THEN left - 1 ELSE left
  /\ overdue' = IF overdue \in 0 .. Grace - 1 THEN overdue + 1 ELSE overdue
  /\ UNCHANGED <<on, live, balance, open, paid, paused, exempt, job>>

Requests ==
  \E w \in Workers :
    \/ \E a \in Accounts, to \in BOOLEAN : SaveAccount(w, a, to)
    \/ \E a \in Accounts : SwitchDocsOn(w, a)
    \/ EnsurePaid(w)
    \/ SwitchFree(w)
    \/ Rollback(w)
    \/ \E amount \in Amounts : Credit(w, amount)
    \/ RenewAfterCredit(w)

Rows ==
  \E a \in Accounts : SwitchDocsOff(a) \/ DeleteAccount(a) \/ Connection(a)

Next == Requests \/ Rows \/ RenewDue \/ SetExempt \/ Resume \/ Tick

Spec == Init /\ [][Next]_vars

-----------------------------------------------------------------------------
(* Properties                                                              *)

TypeOK ==
  /\ on \subseteq Accounts
  /\ live \subseteq Accounts
  /\ balance \in Int
  /\ open \in BOOLEAN
  /\ left \in -MaxLate .. Period
  /\ paid \in [Kinds -> Nat]
  /\ overdue \in Never .. Grace
  /\ paused \in BOOLEAN
  /\ exempt \in BOOLEAN
  /\ job \in [Workers -> Jobs]

\* Service stops only for a period that has ended and has not been paid for all
\* the days of grace: whatever switches, top-ups and operators do in between, no
\* company is paused inside a period it has paid.
PausedOnlyUnpaid == paused => open /\ left <= 0 /\ overdue = Grace

\* Only an operator makes the balance negative: ensure_paid and renew, however
\* they interleave with other charges, spend what is there.
ChargesCovered ==
  [][balance' < balance /\ ~(\E w \in Workers, amount \in Amounts : Credit(w, amount))
       => balance' >= 0]_vars

\* A company that can pay its overdue period gets it, also when the process that
\* credited it died before its on_commit renew.
TopUpRenews == (Due /\ balance >= Fee) ~> ~(Due /\ balance >= Fee)

\* renew_due is a scheduled task; a request that has counted goes on.
Fairness ==
  /\ WF_vars(RenewDue)
  /\ \A w \in Workers : WF_vars(EnsurePaid(w) \/ SwitchFree(w) \/ RenewAfterCredit(w) \/ Rollback(w))

FairSpec == Spec /\ Fairness
=============================================================================
