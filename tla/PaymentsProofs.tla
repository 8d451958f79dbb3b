--------------------------- MODULE PaymentsProofs ---------------------------
(* Theorems of Payments, for any number of invoices, transactions, workers. *)
EXTENDS Payments, Routing, Receipts, TLAPS

\* Before it is settled an invoice names nobody; afterwards it names, for good,
\* the transaction given to mark_paid.
SettledRecord ==
  \A i \in Invoices :
    \/ /\ status[i] \in {"pending", "cancelled"}
       /\ settledBy[i] = NoTxn
    \/ /\ status[i] \in {"paid", "refunded"}
       /\ settledBy[i] \in Txns
       /\ InvoiceOf[settledBy[i]] = i
       /\ paidVia[i] = Provider(settledBy[i])

PaidStands ==
  \A i \in Invoices : status[i] = "paid" => state[settledBy[i]] = "performed"

\* A performed Click transaction is one Click debited.
ClickDebited ==
  \A t \in ClickTxns :
    state[t] \in {"performed", "cancelled_after"} => remote[t] \in {"taken", "returned"}

\* A worker that is refunding a Click payment works on the settling transaction,
\* and by the time it books the refund the money is back.  This is what makes
\* it safe that refund_invoice checks nothing again.
ClickRefunds ==
  \A w \in Workers :
    /\ job[w].op \in {"reverse", "book"} =>
         /\ settledBy[InvoiceOf[job[w].txn]] = job[w].txn
         /\ state[job[w].txn] \in {"performed", "cancelled_after"}
    /\ job[w].op = "book" => remote[job[w].txn] = "returned"

IInv ==
  /\ TypeOK
  /\ SettledRecord
  /\ PaidStands
  /\ OneSettlement
  /\ OneOpenPayme
  /\ ClickDebited
  /\ ClickRefunds
  /\ RefundReturnsMoney

-----------------------------------------------------------------------------
\* What a worker that is half-way through an operation remembers.
LEMMA JobFacts ==
  ASSUME NEW j \in Jobs
  PROVE  /\ j.op = "insert" => j.txn \in PaymeTxns
         /\ j.op = "register" => j.inv \in Invoices
         /\ j.op \in {"reverse", "book"} => j.txn \in ClickTxns
         /\ j.op \in {"refund", "duplicate", "verify"} => j.txn \in UzumTxns
         /\ j.op = "apply" => j.txn \in UzumTxns /\ j.seen \in Remotes
BY DEF Jobs, Idle

\* And what it may go on to remember.
LEMMA JobKinds ==
  /\ Idle \in Jobs
  /\ \A t \in PaymeTxns : [op |-> "insert", txn |-> t] \in Jobs
  /\ \A i \in Invoices : [op |-> "register", inv |-> i] \in Jobs
  /\ \A t \in ClickTxns : /\ [op |-> "reverse", txn |-> t] \in Jobs
                           /\ [op |-> "book", txn |-> t] \in Jobs
  /\ \A t \in UzumTxns : /\ [op |-> "refund", txn |-> t] \in Jobs
                          /\ [op |-> "duplicate", txn |-> t] \in Jobs
                          /\ [op |-> "verify", txn |-> t] \in Jobs
                          /\ \A r \in Remotes :
                               [op |-> "apply", txn |-> t, seen |-> r] \in Jobs
BY DEF Jobs, Idle

LEMMA ProviderFacts ==
  \A t : /\ Provider(t) \in Providers
         /\ t \in PaymeTxns => Provider(t) = "payme"
         /\ t \in ClickTxns => Provider(t) = "click"
         /\ t \in UzumTxns => Provider(t) = "uzum"
BY TxnsAssumption DEF Provider, Providers

LEMMA InitIInv == Init => IInv
<1> SUFFICES ASSUME Init PROVE IInv
  OBVIOUS
<1> USE InvoiceOfAssumption, TxnsAssumption DEF Init, Txns, Idle
<1>1. TypeOK
  BY JobKinds DEF TypeOK, Statuses, States, Remotes
<1>2. SettledRecord /\ PaidStands /\ RefundReturnsMoney
  BY DEF SettledRecord, PaidStands, RefundReturnsMoney
<1>3. OneSettlement /\ OneOpenPayme /\ ClickDebited
  BY DEF OneSettlement, OneOpenPayme, ClickDebited
<1>4. ClickRefunds
  BY DEF ClickRefunds
<1> QED
  BY <1>1, <1>2, <1>3, <1>4 DEF IInv

-----------------------------------------------------------------------------
\* The first conjunct of the invariant is inductive by itself.
LEMMA TypeStep == TypeOK /\ [Next]_vars => TypeOK'
<1> SUFFICES ASSUME TypeOK, [Next]_vars PROVE TypeOK'
  OBVIOUS
<1> USE InvoiceOfAssumption
    DEF TypeOK, Txns, Statuses, States, Remotes, invoiceVars, SetState, SetRemote,
        Start, Continue, Finish, MarkPaid, MarkRefunded
<1>0. \A t \in Txns : InvoiceOf[t] \in Invoices /\ Provider(t) \in Providers
  BY ProviderFacts
<1>1. ASSUME NEW w \in Workers, NEW t \in PaymeTxns, CreateTransaction(w, t)
      PROVE  TypeOK'
  BY <1>1, JobKinds DEF CreateTransaction
<1>2. ASSUME NEW t \in PaymeTxns, PerformTransaction(t) PROVE TypeOK'
  <2>1. CASE t \in aged
    BY <1>2, <2>1 DEF PerformTransaction
  <2>2. CASE t \notin aged
    <3>1. InvoiceOf[t] \in Invoices /\ Provider(t) \in Providers
      BY <1>0
    <3>2. /\ state' = [state EXCEPT ![t] = "performed"]
          /\ remote' = [remote EXCEPT ![t] = "taken"]
          /\ MarkPaid(t)
          /\ UNCHANGED <<aged, job>>
      BY <1>2, <2>2 DEF PerformTransaction
    <3> QED
      BY <3>1, <3>2
  <2> QED
    BY <2>1, <2>2
<1>3. ASSUME NEW t \in PaymeTxns, CancelTransaction(t) PROVE TypeOK'
  BY <1>3, <1>0 DEF CancelTransaction
<1>4. ASSUME NEW t \in ClickTxns, Prepare(t) \/ Complete(t) \/ CompleteFailed(t)
      PROVE  TypeOK'
  <2>1. CASE Prepare(t)
    BY <2>1 DEF Prepare
  <2>2. CASE Complete(t)
    <3>1. InvoiceOf[t] \in Invoices /\ Provider(t) \in Providers
      BY <1>0
    <3> QED
      BY <2>2, <3>1 DEF Complete, vars
  <2>3. CASE CompleteFailed(t)
    BY <2>3 DEF CompleteFailed
  <2> QED
    BY <1>4, <2>1, <2>2, <2>3
<1>5. ASSUME NEW w \in Workers, NEW i \in Invoices, RedirectToUzum(w, i)
      PROVE  TypeOK'
  BY <1>5, JobKinds DEF RedirectToUzum
<1>6. ASSUME NEW w \in Workers, NEW t \in UzumTxns, FetchStatus(w, t)
      PROVE  TypeOK'
  BY <1>6, JobKinds DEF FetchStatus
<1>7. ASSUME NEW w \in Workers, NEW t \in Txns, RefundInvoice(w, t)
      PROVE  TypeOK'
  BY <1>7, JobKinds DEF RefundInvoice
<1>8. ASSUME NEW w \in Workers, Step(w) PROVE TypeOK'
  <2>1. job[w] \in Jobs /\ Idle \in Jobs
    BY JobKinds
  <2> HIDE DEF Jobs
  <2>2. CASE InsertTransaction(w)
    BY <2>1, <2>2, JobFacts DEF InsertTransaction
  <2>3. CASE RegisterOrder(w)
    BY <2>1, <2>3 DEF RegisterOrder
  <2>4. CASE ApplyStatus(w)
    <3> DEFINE t == job[w].txn
    <3>1. t \in UzumTxns /\ UNCHANGED <<aged, remote>>
      BY <2>1, <2>4, JobFacts DEF ApplyStatus
    <3> HIDE DEF t
    <3>2. CASE ApplyPayment(w, t)
      BY <2>1, <3>1, <3>2, <1>0 DEF ApplyPayment
    <3>3. CASE ApplyDuplicate(w, t)
      BY <2>1, <3>1, <3>3, JobKinds DEF ApplyDuplicate
    <3>4. CASE ApplyDeclined(w, t)
      BY <2>1, <3>1, <3>4 DEF ApplyDeclined
    <3>5. CASE ApplyRefunded(w, t)
      BY <2>1, <3>1, <3>5, <1>0 DEF ApplyRefunded
    <3>6. CASE ApplyNothing(w, t)
      BY <2>1, <3>1, <3>6 DEF ApplyNothing
    <3> QED
      BY <2>4, <3>2, <3>3, <3>4, <3>5, <3>6 DEF ApplyStatus, t
  <2>5. CASE RefundDuplicate(w)
    BY <2>1, <2>5, JobFacts DEF RefundDuplicate
  <2>6. CASE ReverseAtClick(w)
    <3>1. job[w].txn \in ClickTxns /\ [op |-> "book", txn |-> job[w].txn] \in Jobs
      BY <2>1, <2>6, JobFacts, JobKinds DEF ReverseAtClick
    <3> QED
      BY <2>1, <2>6, <3>1 DEF ReverseAtClick
  <2>7. CASE BookRefund(w)
    BY <2>1, <2>7, JobFacts, <1>0 DEF BookRefund
  <2>8. CASE RefundAtUzum(w)
    <3>1. job[w].txn \in UzumTxns /\ [op |-> "verify", txn |-> job[w].txn] \in Jobs
      BY <2>1, <2>8, JobFacts, JobKinds DEF RefundAtUzum
    <3> QED
      BY <2>1, <2>8, <3>1 DEF RefundAtUzum
  <2> QED
    BY <1>8, <2>2, <2>3, <2>4, <2>5, <2>6, <2>7, <2>8 DEF Step
<1>9. ASSUME NEW i \in Invoices, CancelInvoice(i) PROVE TypeOK'
  BY <1>9 DEF CancelInvoice
<1>10. ASSUME Environment PROVE TypeOK'
  BY <1>10, JobKinds DEF Environment, Age, CustomerPays, Abort
<1>11. ASSUME UNCHANGED vars PROVE TypeOK'
  BY <1>11 DEF vars
<1> QED
  BY <1>1, <1>2, <1>3, <1>4, <1>5, <1>6, <1>7, <1>8, <1>9, <1>10, <1>11
     DEF Next, Payme, Click, Requests

\* Every variable of the payment core keeps its type.
THEOREM TypeCorrect == Spec => []TypeOK
<1>1. Init => TypeOK
  BY InitIInv DEF IInv
<1> QED
  BY <1>1, TypeStep, PTL DEF Spec
-----------------------------------------------------------------------------
(* The step of the other conjuncts.  Actions are grouped by what they do to *)
(* the invoice: nothing, settle it, take the payment back, cancel it.       *)

Done == {"performed", "cancelled_after"}

\* What the books say of invoices and transactions, whoever is at work.
Books ==
  SettledRecord /\ PaidStands /\ OneSettlement /\ ClickDebited /\ RefundReturnsMoney

\* What a worker that is refunding a Click payment counts on meanwhile.
Stable ==
  /\ \A i \in Invoices : settledBy[i] \in Txns => settledBy'[i] = settledBy[i]
  /\ \A t \in ClickTxns : state[t] \in Done =>
       state'[t] \in Done /\ (remote[t] = "returned" => remote'[t] = "returned")

\* No worker begins to refund a Click payment, or gets further with it.
NoNewRefund ==
  \A w \in Workers : job'[w] = job[w] \/ job'[w].op \notin {"reverse", "book"}

LEMMA Ids ==
  /\ \A t \in Txns : InvoiceOf[t] \in Invoices
  /\ \A t \in PaymeTxns : t \in Txns /\ t \notin ClickTxns /\ t \notin UzumTxns
  /\ \A t \in ClickTxns : t \in Txns /\ t \notin PaymeTxns /\ t \notin UzumTxns
  /\ \A t \in UzumTxns : t \in Txns /\ t \notin PaymeTxns /\ t \notin ClickTxns
  /\ \A t \in Txns : t \in PaymeTxns \/ t \in ClickTxns \/ t \in UzumTxns
  /\ NoTxn \notin Txns
BY InvoiceOfAssumption, TxnsAssumption DEF Txns

LEMMA RefundsStep == TypeOK /\ ClickRefunds /\ Stable /\ NoNewRefund => ClickRefunds'
<1> SUFFICES ASSUME TypeOK, ClickRefunds, Stable, NoNewRefund,
                    NEW w \in Workers, job'[w].op \in {"reverse", "book"}
             PROVE  /\ settledBy'[InvoiceOf[job'[w].txn]] = job'[w].txn
                    /\ state'[job'[w].txn] \in Done
                    /\ job'[w].op = "book" => remote'[job'[w].txn] = "returned"
  BY DEF ClickRefunds, Done
<1>1. job'[w] = job[w] /\ job[w] \in Jobs
  BY DEF NoNewRefund, TypeOK
<1> DEFINE t == job[w].txn
<1>2. t \in ClickTxns /\ job'[w].txn = t
  BY <1>1, JobFacts
<1>3. t \in Txns /\ InvoiceOf[t] \in Invoices
  BY <1>2, Ids
<1>4. /\ settledBy[InvoiceOf[t]] = t
      /\ state[t] \in Done
      /\ job[w].op = "book" => remote[t] = "returned"
  BY <1>1 DEF ClickRefunds, Done
<1> HIDE DEF t
<1> QED
  BY <1>1, <1>2, <1>3, <1>4 DEF Stable

\* An action that leaves the invoices alone and settles nothing.
QuietTxns ==
  /\ UNCHANGED <<status, paidVia, settledBy>>
  /\ \A t \in Txns :
       /\ \/ state'[t] = state[t]
          \/ state[t] \in {"none", "created"} /\ state'[t] \in {"created", "cancelled"}
       /\ t \notin UzumTxns /\ state[t] \in Done =>
            remote'[t] = remote[t] \/ remote'[t] = "returned"

LEMMA QuietStep == Books /\ QuietTxns => Books' /\ Stable
<1> SUFFICES ASSUME Books, QuietTxns PROVE Books' /\ Stable
  OBVIOUS
<1>1. SettledRecord'
  BY DEF Books, QuietTxns, SettledRecord
<1>2. PaidStands'
  BY Ids DEF Books, QuietTxns, PaidStands, SettledRecord
<1>3. OneSettlement'
  BY DEF Books, QuietTxns, OneSettlement
<1>4. ClickDebited'
  BY Ids DEF Books, QuietTxns, ClickDebited, Done
<1>5. RefundReturnsMoney'
  <2> SUFFICES ASSUME NEW i \in Invoices, status[i] = "refunded", paidVia[i] # "uzum"
               PROVE  /\ remote'[settledBy[i]] = "returned"
                      /\ state'[settledBy[i]] = "cancelled_after"
    BY DEF RefundReturnsMoney, QuietTxns
  <2>1. settledBy[i] \in Txns /\ settledBy[i] \notin UzumTxns
    BY ProviderFacts DEF Books, SettledRecord
  <2>2. remote[settledBy[i]] = "returned" /\ state[settledBy[i]] = "cancelled_after"
    BY DEF Books, RefundReturnsMoney
  <2> QED
    BY <2>1, <2>2 DEF QuietTxns, Done
<1>6. Stable
  BY Ids DEF QuietTxns, Stable, Done
<1> QED
  BY <1>1, <1>2, <1>3, <1>4, <1>5, <1>6 DEF Books

\* mark_paid, on an invoice that was pending.
SettleTxn ==
  \E t \in Txns :
    /\ status[InvoiceOf[t]] = "pending"
    /\ MarkPaid(t)
    /\ state' = [state EXCEPT ![t] = "performed"]
    /\ remote' = remote \/ remote' = [remote EXCEPT ![t] = "taken"]
    /\ t \in ClickTxns => remote[t] = "taken"

LEMMA SettleStep == TypeOK /\ Books /\ SettleTxn => Books' /\ Stable
<1> SUFFICES ASSUME TypeOK, Books, SettleTxn PROVE Books' /\ Stable
  OBVIOUS
<1>1. PICK t \in Txns :
        /\ status[InvoiceOf[t]] = "pending"
        /\ MarkPaid(t)
        /\ state' = [state EXCEPT ![t] = "performed"]
        /\ remote' = remote \/ remote' = [remote EXCEPT ![t] = "taken"]
        /\ t \in ClickTxns => remote[t] = "taken"
  BY DEF SettleTxn
<1>2. PICK i \in Invoices : i = InvoiceOf[t]
  BY Ids
<1>3. /\ status'[i] = "paid" /\ settledBy'[i] = t /\ paidVia'[i] = Provider(t)
      /\ \A k \in Invoices : k # i =>
           status'[k] = status[k] /\ settledBy'[k] = settledBy[k] /\ paidVia'[k] = paidVia[k]
  BY <1>1, <1>2 DEF MarkPaid, TypeOK
<1>4. /\ state'[t] = "performed"
      /\ \A u \in Txns : u # t => state'[u] = state[u] /\ remote'[u] = remote[u]
  BY <1>1 DEF TypeOK
<1>5. status[i] = "pending" /\ settledBy[i] = NoTxn
  BY <1>1, <1>2 DEF Books, SettledRecord
\* Nothing else on the invoice is performed.
<1>6. \A u \in Txns : InvoiceOf[u] = i => state[u] # "performed"
  BY <1>2, <1>5 DEF Books, OneSettlement
\* The settling transactions of other invoices are others.
<1>7. \A k \in Invoices : k # i /\ status[k] \in {"paid", "refunded"} =>
        settledBy[k] \in Txns /\ settledBy[k] # t
  BY <1>2 DEF Books, SettledRecord
<1>8. SettledRecord'
  BY <1>2, <1>3 DEF Books, SettledRecord
<1>9. PaidStands'
  BY <1>3, <1>4, <1>7 DEF Books, PaidStands
<1>10. OneSettlement'
  <2> SUFFICES ASSUME NEW u \in Txns, state'[u] = "performed"
               PROVE  /\ status'[InvoiceOf[u]] # "pending"
                      /\ settledBy'[InvoiceOf[u]] = u \/ u \in UzumTxns
    BY DEF OneSettlement
  <2>1. CASE u = t
    BY <1>2, <1>3, <2>1
  <2>2. CASE u # t
    <3>1. state[u] = "performed" /\ InvoiceOf[u] # i /\ InvoiceOf[u] \in Invoices
      BY <1>4, <1>6, <2>2, Ids
    <3> QED
      BY <1>3, <3>1 DEF Books, OneSettlement
  <2> QED
    BY <2>1, <2>2
<1>11. ClickDebited'
  <2>1. t \in ClickTxns => remote'[t] = "taken"
    BY <1>1 DEF TypeOK
  <2> QED
    BY <1>4, <2>1, Ids DEF Books, ClickDebited
<1>12. RefundReturnsMoney'
  BY <1>3, <1>4, <1>7 DEF Books, RefundReturnsMoney
<1>13. Stable
  <2>1. \A k \in Invoices : settledBy[k] \in Txns => settledBy'[k] = settledBy[k]
    BY <1>3, <1>5, Ids
  <2>2. \A u \in ClickTxns : state[u] \in Done => state'[u] \in Done
    BY <1>4, Ids DEF Done
  <2>3. ASSUME NEW u \in ClickTxns, state[u] \in Done, remote[u] = "returned", u = t
        PROVE  remote'[u] = "returned"
    BY <1>1, <2>3
  <2> QED
    BY <1>4, <2>1, <2>2, <2>3, Ids DEF Stable
<1> QED
  BY <1>8, <1>9, <1>10, <1>11, <1>12, <1>13 DEF Books

\* The payment of t is taken back; the invoice follows if t settled it.
RefundTxn ==
  \E t \in Txns :
    /\ state[t] \in Done
    /\ state' = [state EXCEPT ![t] = "cancelled_after"]
    /\ remote' = remote \/ remote' = [remote EXCEPT ![t] = "returned"]
    /\ UNCHANGED <<paidVia, settledBy>>
    /\ \/ /\ status' = [status EXCEPT ![InvoiceOf[t]] = "refunded"]
          /\ status[InvoiceOf[t]] \in {"paid", "refunded"}
          /\ \/ paidVia[InvoiceOf[t]] = "uzum"
             \/ settledBy[InvoiceOf[t]] = t /\ remote'[t] = "returned"
       \/ /\ UNCHANGED status
          /\ ~(status[InvoiceOf[t]] = "paid" /\ settledBy[InvoiceOf[t]] = t)

LEMMA RefundStep == TypeOK /\ Books /\ RefundTxn => Books' /\ Stable
<1> SUFFICES ASSUME TypeOK, Books, RefundTxn PROVE Books' /\ Stable
  OBVIOUS
<1>1. PICK t \in Txns :
        /\ state[t] \in Done
        /\ state' = [state EXCEPT ![t] = "cancelled_after"]
        /\ remote' = remote \/ remote' = [remote EXCEPT ![t] = "returned"]
        /\ UNCHANGED <<paidVia, settledBy>>
        /\ \/ /\ status' = [status EXCEPT ![InvoiceOf[t]] = "refunded"]
              /\ status[InvoiceOf[t]] \in {"paid", "refunded"}
              /\ \/ paidVia[InvoiceOf[t]] = "uzum"
                 \/ settledBy[InvoiceOf[t]] = t /\ remote'[t] = "returned"
           \/ /\ UNCHANGED status
              /\ ~(status[InvoiceOf[t]] = "paid" /\ settledBy[InvoiceOf[t]] = t)
  BY DEF RefundTxn
<1>2. PICK i \in Invoices : i = InvoiceOf[t]
  BY Ids
<1>3. /\ state'[t] = "cancelled_after"
      /\ \A u \in Txns : u # t => state'[u] = state[u] /\ remote'[u] = remote[u]
      /\ remote'[t] = remote[t] \/ remote'[t] = "returned"
  BY <1>1 DEF TypeOK
<1>4. \A k \in Invoices : k # i => status'[k] = status[k]
  BY <1>1, <1>2 DEF TypeOK
<1>5. \/ /\ status'[i] = "refunded"
         /\ status[i] \in {"paid", "refunded"}
         /\ paidVia[i] = "uzum" \/ (settledBy[i] = t /\ remote'[t] = "returned")
      \/ /\ status'[i] = status[i]
         /\ ~(status[i] = "paid" /\ settledBy[i] = t)
  BY <1>1, <1>2 DEF TypeOK
<1>6. \A k \in Invoices : settledBy'[k] = settledBy[k] /\ paidVia'[k] = paidVia[k]
  BY <1>1
<1>7. \A k \in Invoices : status[k] \in {"paid", "refunded"} =>
        settledBy[k] \in Txns /\ InvoiceOf[settledBy[k]] = k /\ paidVia[k] = Provider(settledBy[k])
  BY DEF Books, SettledRecord
<1>8. SettledRecord'
  <2> SUFFICES ASSUME NEW k \in Invoices
               PROVE  \/ /\ status'[k] \in {"pending", "cancelled"}
                         /\ settledBy'[k] = NoTxn
                      \/ /\ status'[k] \in {"paid", "refunded"}
                         /\ settledBy'[k] \in Txns
                         /\ InvoiceOf[settledBy'[k]] = k
                         /\ paidVia'[k] = Provider(settledBy'[k])
    BY DEF SettledRecord
  <2>1. CASE k # i
    BY <1>4, <1>6, <2>1 DEF Books, SettledRecord
  <2>2. CASE k = i
    BY <1>5, <1>6, <1>7, <2>2 DEF Books, SettledRecord
  <2> QED
    BY <2>1, <2>2
<1>9. PaidStands'
  <2> SUFFICES ASSUME NEW k \in Invoices, status'[k] = "paid"
               PROVE  state'[settledBy[k]] = "performed"
    BY <1>6 DEF PaidStands
  <2>1. status[k] = "paid"
    BY <1>4, <1>5
  <2>2. settledBy[k] \in Txns /\ InvoiceOf[settledBy[k]] = k /\ state[settledBy[k]] = "performed"
    BY <1>7, <2>1 DEF Books, PaidStands
  <2>3. settledBy[k] # t
    BY <1>2, <1>5, <2>1, <2>2
  <2> QED
    BY <1>3, <2>2, <2>3
<1>10. OneSettlement'
  <2> SUFFICES ASSUME NEW u \in Txns, state'[u] = "performed"
               PROVE  /\ status'[InvoiceOf[u]] # "pending"
                      /\ settledBy'[InvoiceOf[u]] = u \/ u \in UzumTxns
    BY DEF OneSettlement
  <2>1. state[u] = "performed" /\ InvoiceOf[u] \in Invoices
    BY <1>3, Ids
  <2> QED
    BY <1>4, <1>5, <1>6, <2>1 DEF Books, OneSettlement
<1>11. ClickDebited'
  <2> SUFFICES ASSUME NEW u \in ClickTxns, state'[u] \in Done
               PROVE  remote'[u] \in {"taken", "returned"}
    BY DEF ClickDebited, Done
  <2>1. state[u] \in Done /\ u \in Txns
    BY <1>1, <1>3, Ids
  <2>2. remote[u] \in {"taken", "returned"}
    BY <2>1 DEF Books, ClickDebited, Done
  <2> QED
    BY <1>3, <2>1, <2>2
<1>12. RefundReturnsMoney'
  <2> SUFFICES ASSUME NEW k \in Invoices, status'[k] = "refunded", paidVia[k] # "uzum"
               PROVE  /\ remote'[settledBy[k]] = "returned"
                      /\ state'[settledBy[k]] = "cancelled_after"
    BY <1>6 DEF RefundReturnsMoney
  <2>1. CASE status[k] = "refunded"
    <3>1. /\ remote[settledBy[k]] = "returned"
          /\ state[settledBy[k]] = "cancelled_after"
          /\ settledBy[k] \in Txns
      BY <1>7, <2>1 DEF Books, RefundReturnsMoney
    <3> QED
      BY <1>3, <3>1
  <2>2. CASE status[k] # "refunded"
    <3>1. settledBy[k] = t /\ remote'[t] = "returned"
      BY <1>4, <1>5, <2>2
    <3> QED
      BY <1>3, <3>1
  <2> QED
    BY <2>1, <2>2
<1>13. Stable
  BY <1>3, <1>6, Ids DEF Stable, Done
<1> QED
  BY <1>8, <1>9, <1>10, <1>11, <1>12, <1>13 DEF Books

\* verify learns of a second payment.
DuplicateTxn ==
  \E t \in UzumTxns :
    /\ status[InvoiceOf[t]] # "pending"
    /\ state' = [state EXCEPT ![t] = "performed"]
    /\ state[t] = "created"
    /\ UNCHANGED <<status, paidVia, settledBy, remote>>

LEMMA DuplicateStep == TypeOK /\ Books /\ DuplicateTxn => Books' /\ Stable
<1> SUFFICES ASSUME TypeOK, Books, DuplicateTxn PROVE Books' /\ Stable
  OBVIOUS
<1>1. PICK t \in UzumTxns :
        /\ status[InvoiceOf[t]] # "pending"
        /\ state' = [state EXCEPT ![t] = "performed"]
        /\ state[t] = "created"
        /\ UNCHANGED <<status, paidVia, settledBy, remote>>
  BY DEF DuplicateTxn
<1>2. state'[t] = "performed" /\ \A u \in Txns : u # t => state'[u] = state[u]
  BY <1>1, Ids DEF TypeOK
<1>3. SettledRecord'
  BY <1>1 DEF Books, SettledRecord
<1>4. PaidStands'
  BY <1>1, <1>2 DEF Books, PaidStands, SettledRecord
<1>5. OneSettlement'
  BY <1>1, <1>2 DEF Books, OneSettlement
<1>6. ClickDebited'
  BY <1>1, <1>2, Ids DEF Books, ClickDebited
<1>7. RefundReturnsMoney'
  BY <1>1, <1>2 DEF Books, RefundReturnsMoney, SettledRecord
<1>8. Stable
  BY <1>1, <1>2, Ids DEF Stable
<1> QED
  BY <1>3, <1>4, <1>5, <1>6, <1>7, <1>8 DEF Books

\* cancel_invoice.
CancelStays == \E i \in Invoices : CancelInvoice(i)

LEMMA CancelStep == TypeOK /\ Books /\ CancelStays => Books' /\ Stable
<1> SUFFICES ASSUME TypeOK, Books, NEW i \in Invoices, CancelInvoice(i)
             PROVE  Books' /\ Stable
  BY DEF CancelStays
<1>1. /\ status'[i] = "cancelled" /\ status[i] = "pending"
      /\ \A k \in Invoices : k # i => status'[k] = status[k]
      /\ UNCHANGED <<paidVia, settledBy, state, remote>>
  BY DEF CancelInvoice, TypeOK
<1>2. SettledRecord'
  BY <1>1 DEF Books, SettledRecord
<1>3. PaidStands' /\ ClickDebited' /\ RefundReturnsMoney'
  BY <1>1 DEF Books, PaidStands, ClickDebited, RefundReturnsMoney
<1>4. OneSettlement'
  BY <1>1, Ids DEF Books, OneSettlement
<1> QED
  BY <1>1, <1>2, <1>3, <1>4 DEF Books, Stable

-----------------------------------------------------------------------------
\* What each action does to the invoices and their transactions.
Effect == QuietTxns \/ SettleTxn \/ RefundTxn \/ DuplicateTxn \/ CancelStays

LEMMA Effects == TypeOK /\ Books /\ ClickRefunds /\ [Next]_vars => Effect
<1> SUFFICES ASSUME TypeOK, Books, ClickRefunds, [Next]_vars PROVE Effect
  OBVIOUS
<1> USE DEF invoiceVars, SetState, SetRemote
<1>a. state \in [Txns -> States] /\ remote \in [Txns -> Remotes]
  BY DEF TypeOK
<1>1. ASSUME NEW w \in Workers, NEW t \in PaymeTxns, CreateTransaction(w, t)
      PROVE  QuietTxns
  BY <1>1, <1>a, Ids DEF CreateTransaction, QuietTxns
<1>2. ASSUME NEW t \in PaymeTxns, PerformTransaction(t)
      PROVE  QuietTxns \/ SettleTxn
  <2>1. CASE t \in aged
    BY <1>2, <1>a, <2>1, Ids DEF PerformTransaction, QuietTxns
  <2>2. CASE t \notin aged
    BY <1>2, <2>2, Ids DEF PerformTransaction, SettleTxn
  <2> QED
    BY <2>1, <2>2
<1>3. ASSUME NEW t \in PaymeTxns, CancelTransaction(t)
      PROVE  QuietTxns \/ RefundTxn
  <2>1. CASE state[t] = "created"
    BY <1>3, <1>a, <2>1, Ids DEF CancelTransaction, QuietTxns, Done
  <2>2. CASE state[t] = "performed"
    <3>1. t \in Txns /\ t \notin UzumTxns /\ Provider(t) = "payme"
      BY Ids, ProviderFacts
    <3>2. PICK i \in Invoices : i = InvoiceOf[t]
      BY <3>1, Ids
    <3>3. settledBy[i] = t /\ status[i] # "pending"
      BY <2>2, <3>1, <3>2 DEF Books, OneSettlement
    <3>4. status[i] \in {"paid", "refunded"} /\ paidVia[i] = "payme"
      BY <3>1, <3>3, Ids DEF Books, SettledRecord
    <3>5. status[i] = "paid"
      BY <2>2, <3>3, <3>4 DEF Books, RefundReturnsMoney
    <3>6. /\ state' = [state EXCEPT ![t] = "cancelled_after"]
          /\ remote' = [remote EXCEPT ![t] = "returned"]
          /\ MarkRefunded(i)
      BY <1>3, <2>2, <3>2, <3>4, <3>5 DEF CancelTransaction
    <3>7. remote'[t] = "returned"
      BY <1>a, <3>1, <3>6
    <3> QED
      BY <2>2, <3>1, <3>2, <3>3, <3>5, <3>6, <3>7 DEF RefundTxn, MarkRefunded, Done
  <2> QED
    BY <1>3, <2>1, <2>2 DEF CancelTransaction
<1>4. ASSUME NEW t \in ClickTxns, Prepare(t) PROVE QuietTxns
  BY <1>4, <1>a, Ids DEF Prepare, QuietTxns, Done
<1>5. ASSUME NEW t \in ClickTxns, Complete(t) PROVE QuietTxns \/ SettleTxn
  <2>1. CASE state[t] \notin {"performed", "cancelled"} /\ status[InvoiceOf[t]] = "pending"
    BY <1>5, <2>1, Ids DEF Complete, SettleTxn
  <2>2. CASE state[t] # "performed" /\ ~(state[t] # "cancelled" /\ status[InvoiceOf[t]] = "pending")
    BY <1>5, <1>a, <2>2, Ids DEF Complete, QuietTxns
  \* A repeat of what was performed changes nothing.
  <2>3. CASE state[t] = "performed"
    BY <1>5, <2>3 DEF Complete, QuietTxns, vars
  <2> QED
    BY <2>1, <2>2, <2>3
<1>6. ASSUME NEW t \in ClickTxns, CompleteFailed(t) PROVE QuietTxns
  <2>1. state[t] = "created"
    BY <1>6, <1>a, Ids DEF CompleteFailed, Books, ClickDebited, States
  <2> QED
    BY <1>6, <1>a, <2>1, Ids DEF CompleteFailed, QuietTxns
<1>7. ASSUME NEW w \in Workers, NEW i \in Invoices, RedirectToUzum(w, i) PROVE QuietTxns
  BY <1>7 DEF RedirectToUzum, QuietTxns
<1>8. ASSUME NEW w \in Workers, NEW t \in UzumTxns, FetchStatus(w, t) PROVE QuietTxns
  BY <1>8 DEF FetchStatus, QuietTxns
<1>9. ASSUME NEW w \in Workers, NEW t \in Txns, RefundInvoice(w, t) PROVE QuietTxns
  BY <1>9 DEF RefundInvoice, QuietTxns
<1>10. ASSUME NEW w \in Workers, Step(w)
       PROVE  QuietTxns \/ SettleTxn \/ RefundTxn \/ DuplicateTxn
  <2>1. CASE InsertTransaction(w)
    <3> DEFINE t == job[w].txn
    <3>1. t \in Txns
      BY <2>1, JobFacts, Ids DEF InsertTransaction, TypeOK
    <3>2. UNCHANGED <<status, paidVia, settledBy>>
      BY <2>1 DEF InsertTransaction
    <3>3. \/ UNCHANGED <<state, remote>>
          \/ /\ state[t] = "none"
             /\ state' = [state EXCEPT ![t] = "created"]
             /\ remote' = [remote EXCEPT ![t] = "open"]
      BY <2>1 DEF InsertTransaction
    <3> HIDE DEF t
    <3> QED
      BY <1>a, <3>1, <3>2, <3>3 DEF QuietTxns, Done
  <2>2. CASE RegisterOrder(w)
    BY <1>a, <2>2, Ids DEF RegisterOrder, QuietTxns
  <2>3. CASE ApplyStatus(w)
    <3> DEFINE t == job[w].txn
    <3>1. t \in UzumTxns /\ UNCHANGED remote
      BY <2>3, JobFacts DEF ApplyStatus, TypeOK
    <3>2. ApplyPayment(w, t) \/ ApplyDuplicate(w, t) \/ ApplyDeclined(w, t)
            \/ ApplyRefunded(w, t) \/ ApplyNothing(w, t)
      BY <2>3 DEF ApplyStatus
    <3> HIDE DEF t
    <3>3. t \in Txns /\ t \notin ClickTxns /\ Provider(t) = "uzum"
      BY <3>1, Ids, ProviderFacts
    <3>4. CASE ApplyPayment(w, t)
      BY <3>1, <3>3, <3>4 DEF ApplyPayment, SettleTxn
    <3>5. CASE ApplyDuplicate(w, t)
      BY <3>1, <3>5 DEF ApplyDuplicate, DuplicateTxn
    <3>6. CASE ApplyDeclined(w, t)
      BY <1>a, <3>1, <3>3, <3>6 DEF ApplyDeclined, QuietTxns
    <3>7. CASE ApplyRefunded(w, t)
      <4>1. CASE status[InvoiceOf[t]] = "paid" /\ paidVia[InvoiceOf[t]] = "uzum"
        BY <3>1, <3>3, <3>7, <4>1 DEF ApplyRefunded, RefundTxn, MarkRefunded, Done
      <4>2. CASE ~(status[InvoiceOf[t]] = "paid" /\ paidVia[InvoiceOf[t]] = "uzum")
        <5>1. ~(status[InvoiceOf[t]] = "paid" /\ settledBy[InvoiceOf[t]] = t)
          BY <3>3, <4>2, Ids DEF Books, SettledRecord
        <5> QED
          BY <3>1, <3>3, <3>7, <4>2, <5>1 DEF ApplyRefunded, RefundTxn, Done
      <4> QED
        BY <4>1, <4>2
    <3>8. CASE ApplyNothing(w, t)
      BY <3>1, <3>8 DEF ApplyNothing, QuietTxns
    <3> QED
      BY <3>2, <3>4, <3>5, <3>6, <3>7, <3>8
  <2>4. CASE RefundDuplicate(w)
    <3>1. job[w].txn \in UzumTxns
      BY <2>4, JobFacts DEF RefundDuplicate, TypeOK
    <3> QED
      BY <1>a, <2>4, <3>1, Ids DEF RefundDuplicate, QuietTxns
  <2>5. CASE ReverseAtClick(w)
    BY <1>a, <2>5 DEF ReverseAtClick, QuietTxns
  <2>6. CASE BookRefund(w)
    <3> DEFINE t == job[w].txn
    <3>1. t \in ClickTxns /\ t \in Txns
      BY <2>6, JobFacts, Ids DEF BookRefund, TypeOK
    <3>2. settledBy[InvoiceOf[t]] = t /\ state[t] \in Done /\ remote[t] = "returned"
      BY <2>6 DEF BookRefund, ClickRefunds, Done
    <3>3. /\ state' = [state EXCEPT ![t] = "cancelled_after"]
          /\ MarkRefunded(InvoiceOf[t])
          /\ UNCHANGED remote
      BY <2>6 DEF BookRefund
    <3> HIDE DEF t
    <3>4. status[InvoiceOf[t]] \in {"paid", "refunded"}
      BY <3>1, <3>2, Ids DEF Books, SettledRecord
    <3> QED
      BY <3>1, <3>2, <3>3, <3>4 DEF RefundTxn, MarkRefunded
  <2>7. CASE RefundAtUzum(w)
    <3>1. job[w].txn \in UzumTxns
      BY <2>7, JobFacts DEF RefundAtUzum, TypeOK
    <3> QED
      BY <1>a, <2>7, <3>1, Ids DEF RefundAtUzum, QuietTxns
  <2> QED
    BY <1>10, <2>1, <2>2, <2>3, <2>4, <2>5, <2>6, <2>7 DEF Step
<1>11. ASSUME NEW i \in Invoices, CancelInvoice(i) PROVE CancelStays
  BY <1>11 DEF CancelStays
<1>12. ASSUME Environment PROVE QuietTxns
  <2>1. ASSUME NEW t \in Txns, Age(t) PROVE QuietTxns
    BY <2>1 DEF Age, QuietTxns
  <2>2. ASSUME NEW t \in Txns, NEW r \in Remotes, CustomerPays(t, r) PROVE QuietTxns
    <3>1. UNCHANGED <<status, paidVia, settledBy, state>>
      BY <2>2 DEF CustomerPays
    <3>2. remote[t] = "open" /\ \A u \in Txns : u # t => remote'[u] = remote[u]
      BY <1>a, <2>2 DEF CustomerPays
    <3>3. t \in UzumTxns \/ state[t] \notin Done
      BY <2>2, <3>2 DEF CustomerPays, Books, ClickDebited, Done
    <3> QED
      BY <3>1, <3>2, <3>3 DEF QuietTxns
  <2>3. ASSUME NEW w \in Workers, Abort(w) PROVE QuietTxns
    BY <2>3 DEF Abort, QuietTxns
  <2> QED
    BY <1>12, <2>1, <2>2, <2>3 DEF Environment
<1>13. CASE UNCHANGED vars
  BY <1>13 DEF vars, QuietTxns, Effect
<1> QED
  BY <1>1, <1>2, <1>3, <1>4, <1>5, <1>6, <1>7, <1>8, <1>9, <1>10, <1>11, <1>12, <1>13
     DEF Next, Payme, Click, Requests, Effect

\* Every step keeps the books, and what refunding workers count on.
LEMMA BooksStep ==
  TypeOK /\ Books /\ ClickRefunds /\ [Next]_vars => Books' /\ Stable
BY Effects, QuietStep, SettleStep, RefundStep, DuplicateStep, CancelStep DEF Effect

-----------------------------------------------------------------------------
\* Only a Click refund that begins, or is reversed at Click, gives a worker more to
\* remember.
LEMMA ClickRefundsStep ==
  TypeOK /\ Books /\ ClickRefunds /\ Stable /\ [Next]_vars => ClickRefunds'
<1> SUFFICES ASSUME TypeOK, Books, ClickRefunds, Stable, [Next]_vars PROVE ClickRefunds'
  OBVIOUS
<1> USE DEF Start, Continue, Finish
<1>a. job \in [Workers -> Jobs]
  BY DEF TypeOK
<1>1. ASSUME NEW w \in Workers, NEW t \in PaymeTxns, CreateTransaction(w, t)
      PROVE  NoNewRefund
  BY <1>1, <1>a DEF CreateTransaction, NoNewRefund
<1>2. ASSUME NEW t \in PaymeTxns, PerformTransaction(t) \/ CancelTransaction(t)
      PROVE  NoNewRefund
  BY <1>2 DEF PerformTransaction, CancelTransaction, NoNewRefund
<1>3. ASSUME Click PROVE NoNewRefund
  BY <1>3 DEF Click, Prepare, Complete, CompleteFailed, NoNewRefund, vars
<1>4. ASSUME NEW w \in Workers, NEW i \in Invoices, RedirectToUzum(w, i)
      PROVE  NoNewRefund
  BY <1>4, <1>a DEF RedirectToUzum, NoNewRefund
<1>5. ASSUME NEW w \in Workers, NEW t \in UzumTxns, FetchStatus(w, t)
      PROVE  NoNewRefund
  BY <1>5, <1>a DEF FetchStatus, NoNewRefund
\* The handler that begins saw the invoice paid and its transaction performed.
<1>6. ASSUME NEW w \in Workers, NEW t \in Txns, RefundInvoice(w, t)
      PROVE  ClickRefunds'
  <2>1. CASE t \in UzumTxns
    <3>1. NoNewRefund
      BY <1>6, <1>a, <2>1, Ids DEF RefundInvoice, NoNewRefund
    <3> QED
      BY <3>1, RefundsStep
  <2>2. CASE t \in ClickTxns
    <3>1. /\ job'[w] = [op |-> "reverse", txn |-> t]
          /\ \A v \in Workers : v # w => job'[v] = job[v]
          /\ UNCHANGED <<status, paidVia, settledBy, state, remote>>
      BY <1>6, <1>a, <2>2, Ids DEF RefundInvoice, invoiceVars
    <3>2. state[t] = "performed" /\ settledBy[InvoiceOf[t]] = t
      BY <1>6, <2>2, Ids DEF RefundInvoice, Books, OneSettlement
    <3> QED
      BY <3>1, <3>2 DEF ClickRefunds
  <2> QED
    BY <1>6, <2>1, <2>2 DEF RefundInvoice
<1>7. ASSUME NEW w \in Workers, ReverseAtClick(w) PROVE ClickRefunds'
  <2> DEFINE t == job[w].txn
  <2>1. job[w].op = "reverse" /\ t \in ClickTxns /\ t \in Txns
    BY <1>7, <1>a, JobFacts, Ids DEF ReverseAtClick
  <2>2. settledBy[InvoiceOf[t]] = t /\ state[t] \in Done
    BY <2>1 DEF ClickRefunds, Done
  <2>3. \/ NoNewRefund
        \/ /\ job' = [job EXCEPT ![w] = [op |-> "book", txn |-> t]]
           /\ remote' = [remote EXCEPT ![t] = "returned"]
    BY <1>7, <1>a DEF ReverseAtClick, SetRemote, NoNewRefund, Idle
  <2>4. UNCHANGED <<settledBy, state>>
    BY <1>7 DEF ReverseAtClick, invoiceVars
  <2> HIDE DEF t
  <2>5. CASE NoNewRefund
    BY <2>5, RefundsStep
  <2>6. CASE /\ job' = [job EXCEPT ![w] = [op |-> "book", txn |-> t]]
             /\ remote' = [remote EXCEPT ![t] = "returned"]
    <3>1. /\ job'[w] = [op |-> "book", txn |-> t]
          /\ \A v \in Workers : v # w => job'[v] = job[v]
      BY <1>a, <2>6
    <3>2. remote'[t] = "returned" /\ \A u \in Txns : u # t => remote'[u] = remote[u]
      BY <2>1, <2>6 DEF TypeOK
    <3> SUFFICES ASSUME NEW v \in Workers, job'[v].op \in {"reverse", "book"}
                 PROVE  /\ settledBy'[InvoiceOf[job'[v].txn]] = job'[v].txn
                        /\ state'[job'[v].txn] \in Done
                        /\ job'[v].op = "book" => remote'[job'[v].txn] = "returned"
      BY DEF ClickRefunds, Done
    <3>3. CASE v = w
      BY <2>2, <2>4, <3>1, <3>2, <3>3
    <3>4. CASE v # w
      <4>1. job'[v] = job[v] /\ job[v].txn \in Txns
        BY <1>a, <3>1, <3>4, JobFacts, Ids
      <4> QED
        BY <2>4, <3>2, <4>1 DEF ClickRefunds, Done
    <3> QED
      BY <3>3, <3>4
  <2> QED
    BY <2>3, <2>5, <2>6
<1>8. ASSUME NEW w \in Workers, Step(w) PROVE ReverseAtClick(w) \/ NoNewRefund
  <2>1. ASSUME InsertTransaction(w) \/ RegisterOrder(w) \/ RefundDuplicate(w) \/ BookRefund(w)
        PROVE  NoNewRefund
    BY <1>a, <2>1
       DEF InsertTransaction, RegisterOrder, RefundDuplicate, BookRefund, NoNewRefund, Idle
  <2>2. ASSUME ApplyStatus(w) PROVE NoNewRefund
    BY <1>a, <2>2
       DEF ApplyStatus, ApplyPayment, ApplyDuplicate, ApplyDeclined, ApplyRefunded,
           ApplyNothing, NoNewRefund, Idle
  <2>3. ASSUME RefundAtUzum(w) PROVE NoNewRefund
    BY <1>a, <2>3 DEF RefundAtUzum, NoNewRefund, Idle
  <2> QED
    BY <1>8, <2>1, <2>2, <2>3 DEF Step
<1>9. ASSUME NEW i \in Invoices, CancelInvoice(i) PROVE NoNewRefund
  BY <1>9 DEF CancelInvoice, NoNewRefund
<1>10. ASSUME Environment PROVE NoNewRefund
  BY <1>10, <1>a DEF Environment, Age, CustomerPays, Abort, NoNewRefund, Idle
<1>11. CASE UNCHANGED vars
  BY <1>11, RefundsStep DEF vars, NoNewRefund
<1> QED
  BY <1>1, <1>2, <1>3, <1>4, <1>5, <1>6, <1>7, <1>8, <1>9, <1>10, <1>11, RefundsStep
     DEF Next, Payme, Requests

-----------------------------------------------------------------------------
\* Only the second half of create_transaction opens a Payme transaction.
NoNewOpen == \A t \in PaymeTxns : state'[t] = "created" => state[t] = "created"

LEMMA OpenStep == TypeOK /\ OneOpenPayme /\ [Next]_vars => OneOpenPayme'
<1> SUFFICES ASSUME TypeOK, OneOpenPayme, [Next]_vars PROVE OneOpenPayme'
  OBVIOUS
<1> USE DEF SetState
<1>a. state \in [Txns -> States]
  BY DEF TypeOK
<1>1. ASSUME NEW w \in Workers, NEW t \in PaymeTxns, CreateTransaction(w, t)
      PROVE  NoNewOpen
  BY <1>1, <1>a, Ids DEF CreateTransaction, NoNewOpen
<1>2. ASSUME NEW t \in PaymeTxns, PerformTransaction(t) \/ CancelTransaction(t)
      PROVE  NoNewOpen
  BY <1>2, <1>a, Ids DEF PerformTransaction, CancelTransaction, NoNewOpen
<1>3. ASSUME Click PROVE NoNewOpen
  BY <1>3, <1>a, Ids DEF Click, Prepare, Complete, CompleteFailed, NoNewOpen, vars
<1>4. ASSUME Requests \/ Environment PROVE NoNewOpen
  BY <1>4 DEF Requests, RedirectToUzum, FetchStatus, RefundInvoice, Environment, Age,
              CustomerPays, Abort, NoNewOpen
<1>5. ASSUME NEW i \in Invoices, CancelInvoice(i) PROVE NoNewOpen
  BY <1>5 DEF CancelInvoice, NoNewOpen
<1>6. ASSUME NEW w \in Workers, Step(w), ~InsertTransaction(w) PROVE NoNewOpen
  <2>1. CASE RegisterOrder(w)
    BY <1>a, <2>1, Ids DEF RegisterOrder, NoNewOpen
  <2>2. CASE ApplyStatus(w)
    BY <1>a, <2>2, Ids
       DEF ApplyStatus, ApplyPayment, ApplyDuplicate, ApplyDeclined, ApplyRefunded,
           ApplyNothing, NoNewOpen
  <2>3. CASE RefundDuplicate(w) \/ ReverseAtClick(w) \/ RefundAtUzum(w)
    BY <2>3 DEF RefundDuplicate, ReverseAtClick, RefundAtUzum, NoNewOpen
  <2>4. CASE BookRefund(w)
    BY <1>a, <2>4 DEF BookRefund, NoNewOpen
  <2> QED
    BY <1>6, <2>1, <2>2, <2>3, <2>4 DEF Step
\* The check and the insert see the same rows, with the invoice locked.
<1>7. ASSUME NEW w \in Workers, InsertTransaction(w) PROVE OneOpenPayme'
  <2> DEFINE t == job[w].txn
  <2>1. \/ UNCHANGED state
        \/ ~Busy(t) /\ state' = [state EXCEPT ![t] = "created"]
    BY <1>7 DEF InsertTransaction
  <2> HIDE DEF t
  <2> QED
    BY <1>a, <2>1, Ids DEF OneOpenPayme, Busy
<1>8. ASSUME NoNewOpen PROVE OneOpenPayme'
  BY <1>8 DEF NoNewOpen, OneOpenPayme
<1>9. CASE UNCHANGED vars
  BY <1>9 DEF vars, OneOpenPayme
<1> QED
  BY <1>1, <1>2, <1>3, <1>4, <1>5, <1>6, <1>7, <1>8, <1>9 DEF Next, Payme

-----------------------------------------------------------------------------
LEMMA IInvStep == IInv /\ [Next]_vars => IInv'
BY TypeStep, BooksStep, ClickRefundsStep, OpenStep DEF IInv, Books

\* The whole invariant holds in every reachable state.
THEOREM Invariance == Spec => []IInv
BY InitIInv, IInvStep, PTL DEF Spec

\* mark_paid, cancel_transaction, verify and refund_invoice never leave an
\* invoice "paid" without the performed transaction it names.
THEOREM PaidBacked == Spec => []PaidIsBacked
<1>1. IInv => PaidIsBacked
  BY DEF IInv, SettledRecord, PaidStands, PaidIsBacked, TxnsOf
<1> QED
  BY <1>1, Invariance, PTL

\* Of the payments racing for an invoice one settles it; only Uzum orders can be
\* performed besides.
THEOREM SettledOnce == Spec => []OneSettlement
<1>1. IInv => OneSettlement
  BY DEF IInv
<1> QED
  BY <1>1, Invariance, PTL

\* create_transaction keeps at most one Payme transaction open on an invoice.
THEOREM PaymeOneOpen == Spec => []OneOpenPayme
<1>1. IInv => OneOpenPayme
  BY DEF IInv
<1> QED
  BY <1>1, Invariance, PTL

\* A Payme or Click payment behind a refunded invoice went back to the customer.
THEOREM RefundsReturnMoney == Spec => []RefundReturnsMoney
<1>1. IInv => RefundReturnsMoney
  BY DEF IInv
<1> QED
  BY <1>1, Invariance, PTL

-----------------------------------------------------------------------------
\* Every step of the payment core is a step of the invoice's life, or leaves the
\* invoice alone.
LEMMA LifecycleStep ==
  IInv /\ [Next]_vars => [Lifecycle!Next]_<<status, paidVia>>
<1> SUFFICES ASSUME IInv, [Next]_vars PROVE [Lifecycle!Next]_<<status, paidVia>>
  OBVIOUS
<1>1. TypeOK /\ Effect
  BY Effects DEF IInv, Books
<1>2. CASE QuietTxns
  BY <1>2 DEF QuietTxns
<1>3. CASE SettleTxn
  <2>1. PICK t \in Txns : status[InvoiceOf[t]] = "pending" /\ MarkPaid(t)
    BY <1>3 DEF SettleTxn
  <2>2. InvoiceOf[t] \in Invoices /\ Provider(t) \in Providers
    BY Ids, ProviderFacts
  <2>3. Lifecycle!Pay(InvoiceOf[t])
    BY <2>1, <2>2 DEF MarkPaid, Lifecycle!Pay
  <2> QED
    BY <2>2, <2>3 DEF Lifecycle!Next
<1>4. CASE RefundTxn
  <2>1. PICK t \in Txns :
          /\ UNCHANGED paidVia
          /\ \/ /\ status' = [status EXCEPT ![InvoiceOf[t]] = "refunded"]
                /\ status[InvoiceOf[t]] \in {"paid", "refunded"}
             \/ UNCHANGED status
    BY <1>4 DEF RefundTxn
  <2>2. PICK i \in Invoices : i = InvoiceOf[t]
    BY Ids
  <2>3. CASE status' = [status EXCEPT ![i] = "refunded"] /\ status[i] = "paid"
    BY <2>1, <2>3 DEF Lifecycle!Next, Lifecycle!Refund
  \* A refund booked twice leaves the invoice as it was.
  <2>4. CASE status' = [status EXCEPT ![i] = "refunded"] /\ status[i] = "refunded"
    BY <1>1, <2>1, <2>4 DEF TypeOK
  <2> QED
    BY <2>1, <2>2, <2>3, <2>4
<1>5. CASE DuplicateTxn
  BY <1>5 DEF DuplicateTxn
<1>6. CASE CancelStays
  BY <1>6 DEF CancelStays, CancelInvoice, Lifecycle!Next, Lifecycle!Cancel
<1> QED
  BY <1>1, <1>2, <1>3, <1>4, <1>5, <1>6 DEF Effect

\* The payment core implements InvoiceLifecycle: whatever providers, retries and
\* half-way handlers do, an invoice is paid at most once, by one provider, never
\* after it was cancelled, and refunded only after it was paid.
THEOREM Refinement == Spec => RefinesLifecycle
<1>1. Init => Lifecycle!Init
  BY DEF Init, Lifecycle!Init
<1> QED
  BY <1>1, Invariance, LifecycleStep, PTL DEF Spec, RefinesLifecycle, Lifecycle!Spec

(***************************************************************************)
(* Routing: which cash desk an invoice is paid at                          *)
(***************************************************************************)

\* The accounts of a company, in the order they were made.
Accounts(accounts, company) ==
  /\ DOMAIN accounts \subseteq Nat
  /\ \A i \in DOMAIN accounts : accounts[i].company = company
  /\ \A i, j \in DOMAIN accounts : accounts[i].id = accounts[j].id => i = j

\* What an account has become of one of them, or one that was made later.
Became(a, accounts) == \A i \in DOMAIN accounts : a.id = accounts[i].id => a.provider = accounts[i].provider

LEMMA OneOfEach ==
  ASSUME NEW accounts, NEW places \in SUBSET Nat,
         NEW i \in FirstOfEach(accounts, places), NEW j \in FirstOfEach(accounts, places),
         accounts[i].provider = accounts[j].provider
  PROVE  i = j
BY DEF FirstOfEach

\* Of the accounts of one provider at most one takes payments of an invoice whose
\* connection made a choice: money never reaches the wrong cash desk, whatever was
\* ticked, and however the accounts are saved, and others made, after the choice.
THEOREM OneDeskTakes ==
  ASSUME NEW company, NEW accounts, Accounts(accounts, company), NEW ticked,
         NEW invoice, ChosenFor(invoice) = KeyAccounts(accounts, ticked),
         NEW a, NEW b, Became(a, accounts), Became(b, accounts),
         MayTake(a, invoice), MayTake(b, invoice), a.provider = b.provider
  PROVE  a.id = b.id
<1> DEFINE places == {i \in DOMAIN accounts : accounts[i].id \in ticked}
           first  == FirstOfEach(accounts, places)
<1>1. a.id \in IdsOf(accounts, first) /\ b.id \in IdsOf(accounts, first)
  <2>1. KeyAccounts(accounts, ticked) = <<IdsOf(accounts, first)>>
    BY DEF KeyAccounts
  <2> HIDE DEF first
  <2> QED
    BY <2>1 DEF MayTake, InChoice, NotChosen
<1>2. first \subseteq DOMAIN accounts /\ places \in SUBSET Nat
  BY DEF FirstOfEach, Accounts
<1>3. PICK i \in first, j \in first : a.id = accounts[i].id /\ b.id = accounts[j].id
  BY <1>1 DEF IdsOf
<1>4. accounts[i].provider = accounts[j].provider
  BY <1>2, <1>3 DEF Became
<1>5. i = j
  BY <1>2, <1>4, OneOfEach
<1> QED
  BY <1>3, <1>5

\* A customer is offered one account of a provider at most, and each will take the
\* payment: its callback, with the key the provider was given, is allowed.
THEOREM OfferedTake ==
  ASSUME NEW invoice, NEW invoices, invoice \in invoices, invoice.status = "pending",
         \A other \in invoices : other.company = invoice.company /\ other.number = invoice.number => other = invoice,
         NEW accounts, Accounts(accounts, invoice.company), NEW paused \in BOOLEAN,
         NEW a \in AccountsFor(accounts, paused, invoice)
  PROVE  /\ Handle(a, <<a.id, ActiveSecret(a)>>, invoices, invoice.number, invoice.amount) = "allow"
         /\ \A b \in AccountsFor(accounts, paused, invoice) : b.provider = a.provider => b = a
<1> DEFINE open == {i \in EnabledAccounts(accounts, paused) : InChoice(accounts[i], ChosenFor(invoice))}
           first == FirstOfEach(accounts, open)
<1>1. AccountsFor(accounts, paused, invoice) = {accounts[i] : i \in first}
  BY DEF AccountsFor, RouteAccounts
<1>2. first \subseteq open /\ open \subseteq DOMAIN accounts /\ open \in SUBSET Nat
  BY DEF FirstOfEach, EnabledAccounts, Accounts
<1>3. PICK i \in first : a = accounts[i]
  BY <1>1
<1>4. \A b \in AccountsFor(accounts, paused, invoice) : b.provider = a.provider => b = a
  <2> SUFFICES ASSUME NEW j \in first, accounts[j].provider = accounts[i].provider
               PROVE  accounts[j] = accounts[i]
    BY <1>1, <1>3
  <2> HIDE DEF open
  <2> QED
    BY <1>2, OneOfEach
<1>5. IsConfigured(a) /\ MayTake(a, invoice)
  BY <1>2, <1>3 DEF EnabledAccounts, MayTake, Accounts
<1>6. CheckAuth(a, <<a.id, ActiveSecret(a)>>)
  BY <1>5 DEF CheckAuth, IsConfigured
<1>7. InvoiceFor(a, invoices, invoice.number) = {invoice}
  BY <1>5 DEF InvoiceFor, MayTake
<1> QED
  BY <1>4, <1>6, <1>7 DEF Handle, CheckPayable

(***************************************************************************)
(* Receipts                                                                *)
(***************************************************************************)

\* An amount that is shown in soum, typed again, is the same amount.
THEOREM ShownReadsBack ==
  ASSUME NEW tiyin \in Nat \ {0}
  PROVE  ToTiyin(Money(tiyin)) = tiyin
<1> DEFINE whole == tiyin \div 100
           part  == tiyin % 100
<1>1. whole \in Nat /\ part \in 0 .. 99 /\ tiyin = 100 * whole + part
  OBVIOUS
<1>2. part \div 10 \in 0 .. 9 /\ part % 10 \in 0 .. 9 /\ part = 10 * (part \div 10) + (part % 10)
  BY <1>1
<1>3. tiyin % 10 = part % 10
  OBVIOUS
<1> HIDE DEF whole, part
<1>4. CASE part = 0
  BY <1>1, <1>4 DEF Money, ToTiyin, whole, part
<1>5. CASE part # 0
  BY <1>1, <1>2, <1>3, <1>5 DEF Money, ToTiyin, whole, part
<1> QED
  BY <1>4, <1>5
=============================================================================
