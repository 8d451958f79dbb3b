------------------------------ MODULE Payments ------------------------------
(***************************************************************************)
(* The payment core: the invoices of a company and the provider            *)
(* transactions that try to settle them, as driven by the callbacks of     *)
(* Payme, Click and Uzum, by the dashboard and by the Celery worker.       *)
(*                                                                         *)
(* A database transaction that locks the rows it reads is one action.  A   *)
(* handler that commits or calls a provider over the network half-way is   *)
(* cut there: the rest of it waits in job[w], for the web or Celery worker *)
(* w that runs it, and any other request can run in between.  Such a       *)
(* worker can also die, or give up on a network error, see Abort.          *)
(*                                                                         *)
(* A request that fails authentication, names an unknown order or carries  *)
(* another amount is answered with an error and changes nothing, so it has *)
(* no action.                                                              *)
(***************************************************************************)
EXTENDS Naturals, FiniteSets

CONSTANTS
  Invoices,
  PaymeTxns,   \* Payme transaction ids
  ClickTxns,   \* click_trans_id values
  UzumTxns,    \* Uzum order ids
  InvoiceOf,   \* the invoice a provider-side id is about
  Workers,     \* requests and tasks that can be half-way at a time
  NoTxn

Txns == PaymeTxns \cup ClickTxns \cup UzumTxns

ASSUME TxnsAssumption ==
  /\ PaymeTxns \cap ClickTxns = {}
  /\ PaymeTxns \cap UzumTxns = {}
  /\ ClickTxns \cap UzumTxns = {}
  /\ NoTxn \notin Txns

ASSUME InvoiceOfAssumption == InvoiceOf \in [Txns -> Invoices]

Providers == {"payme", "click", "uzum"}

Provider(t) ==
  IF t \in PaymeTxns THEN "payme" ELSE IF t \in ClickTxns THEN "click" ELSE "uzum"

VARIABLES
  status,     \* Invoice.status
  paidVia,    \* Invoice.paid_via
  settledBy,  \* history: the transaction given to mark_paid
  state,      \* ProviderTransaction.state; "none" while there is no row
  aged,       \* rows older than their limit: Payme 12 h, Uzum 28 min
  remote,     \* where the customer's money is, at the provider
  job         \* the rest of the handler each worker is running

vars == <<status, paidVia, settledBy, state, aged, remote, job>>

Statuses == {"pending", "paid", "cancelled", "refunded"}
States   == {"none", "created", "performed", "cancelled", "cancelled_after"}

\* none: unknown to the provider; open: waiting for the customer; taken: the
\* customer has paid; other: paid, but not the amount of the invoice; failed:
\* declined; returned: given back.
Remotes == {"none", "open", "taken", "other", "failed", "returned"}

Idle == [op |-> "idle"]
Jobs == {Idle}
        \cup [op : {"insert"}, txn : PaymeTxns]
        \cup [op : {"register"}, inv : Invoices]
        \cup [op : {"reverse", "book"}, txn : ClickTxns]
        \cup [op : {"refund", "duplicate", "verify"}, txn : UzumTxns]
        \cup [op : {"apply"}, txn : UzumTxns, seen : Remotes]

TxnsOf(i) == {t \in Txns : InvoiceOf[t] = i}

Init ==
  /\ status    = [i \in Invoices |-> "pending"]
  /\ paidVia   = [i \in Invoices |-> ""]
  /\ settledBy = [i \in Invoices |-> NoTxn]
  /\ state     = [t \in Txns |-> "none"]
  /\ aged      = {}
  /\ remote    = [t \in Txns |-> "none"]
  /\ job       = [w \in Workers |-> Idle]

-----------------------------------------------------------------------------
(* services.py: the two ways an invoice changes under a provider callback. *)

\* mark_paid(invoice, txn)
MarkPaid(t) ==
  LET i == InvoiceOf[t] IN
  /\ status'    = [status EXCEPT ![i] = "paid"]
  /\ paidVia'   = [paidVia EXCEPT ![i] = Provider(t)]
  /\ settledBy' = [settledBy EXCEPT ![i] = t]

\* Variant: the state of the transaction is written to the invoice.
MarkRefundedAsTxn(i) ==
  /\ status' = [status EXCEPT ![i] = "cancelled_after"]
  /\ UNCHANGED <<paidVia, settledBy>>

\* mark_refunded(invoice)
MarkRefunded(i) ==
  /\ status' = [status EXCEPT ![i] = "refunded"]
  /\ UNCHANGED <<paidVia, settledBy>>

invoiceVars == <<status, paidVia, settledBy>>

SetState(t, s) == state' = [state EXCEPT ![t] = s]
SetRemote(t, r) == remote' = [remote EXCEPT ![t] = r]

Start(w, j) == job[w] = Idle /\ job' = [job EXCEPT ![w] = j]
Continue(w, j) == job' = [job EXCEPT ![w] = j]
Finish(w) == job' = [job EXCEPT ![w] = Idle]

-----------------------------------------------------------------------------
(* Payme                                                                   *)

\* create_transaction, first transaction: answer a repeat from the row, expire
\* a timed-out row; without a row the handler commits and goes on.
CreateTransaction(w, t) ==
  \/ /\ state[t] = "created" /\ t \in aged
     /\ SetState(t, "cancelled")
     /\ UNCHANGED <<invoiceVars, aged, remote, job>>
  \/ /\ state[t] = "none"
     /\ Start(w, [op |-> "insert", txn |-> t])
     /\ UNCHANGED <<invoiceVars, state, aged, remote>>

\* Variant: a timed-out transaction does not keep the invoice busy.
BusyWhileFresh(t) ==
  \E u \in PaymeTxns : InvoiceOf[u] = InvoiceOf[t] /\ state[u] = "created" /\ u \notin aged

\* Another Payme transaction is open on the invoice ("One-time account").
Busy(t) == \E u \in PaymeTxns : InvoiceOf[u] = InvoiceOf[t] /\ state[u] = "created"

\* create_transaction, second transaction, with the invoice locked.  A row
\* inserted meanwhile under the same id makes the insert fail and roll back.
InsertTransaction(w) ==
  /\ job[w].op = "insert"
  /\ LET t == job[w].txn IN
     IF status[InvoiceOf[t]] = "pending" /\ ~Busy(t) /\ state[t] = "none"
     THEN SetState(t, "created") /\ SetRemote(t, "open")
     ELSE UNCHANGED <<state, remote>>
  /\ Finish(w)
  /\ UNCHANGED <<invoiceVars, aged>>

\* Variant: the invoice's status is not looked at again.
PerformUnchecked(t) ==
  /\ state[t] = "created"
  /\ t \notin aged
  /\ SetState(t, "performed")
  /\ SetRemote(t, "taken")
  /\ MarkPaid(t)
  /\ UNCHANGED <<aged, job>>

\* perform_transaction.  Payme debits the customer when this succeeds.
PerformTransaction(t) ==
  /\ state[t] = "created"
  /\ \/ /\ t \in aged
        /\ SetState(t, "cancelled")
        /\ UNCHANGED <<invoiceVars, remote>>
     \/ /\ t \notin aged
        /\ status[InvoiceOf[t]] = "pending"
        /\ SetState(t, "performed")
        /\ SetRemote(t, "taken")
        /\ MarkPaid(t)
  /\ UNCHANGED <<aged, job>>

\* Variant: cancelling after the payment leaves the invoice alone.
CancelTransactionOnly(t) ==
  /\ \/ state[t] = "created" /\ SetState(t, "cancelled") /\ SetRemote(t, "failed")
     \/ state[t] = "performed" /\ SetState(t, "cancelled_after") /\ SetRemote(t, "returned")
  /\ UNCHANGED <<status, paidVia, settledBy, aged, job>>

\* cancel_transaction: Payme gives the money back, or never took it.
CancelTransaction(t) ==
  LET i == InvoiceOf[t] IN
  /\ \/ /\ state[t] = "created"
        /\ SetState(t, "cancelled")
        /\ SetRemote(t, "failed")
        /\ UNCHANGED invoiceVars
     \/ /\ state[t] = "performed"
        /\ SetState(t, "cancelled_after")
        /\ SetRemote(t, "returned")
        /\ IF status[i] = "paid" /\ paidVia[i] = "payme"
           THEN MarkRefunded(i)
           ELSE UNCHANGED invoiceVars
  /\ UNCHANGED <<aged, job>>

-----------------------------------------------------------------------------
(* Click                                                                   *)

\* prepare: the row is created once per click_trans_id.
Prepare(t) ==
  /\ status[InvoiceOf[t]] = "pending"
  /\ state[t] = "none"
  /\ SetState(t, "created")
  /\ SetRemote(t, "open")
  /\ UNCHANGED <<invoiceVars, aged, job>>

\* Variant: an invoice somebody else settled is not answered.
CompleteSilently(t) ==
  /\ remote[t] = "taken"
  /\ state[t] \notin {"none", "performed", "cancelled"}
  /\ status[InvoiceOf[t]] = "pending"
  /\ SetState(t, "performed")
  /\ MarkPaid(t)
  /\ UNCHANGED <<aged, remote, job>>

\* complete with error >= 0: Click has debited the customer and repeats this
\* until it is answered.  Refused, it gives the money back.  A repeat of what was
\* performed is answered -4 too, with the merchant_confirm_id it was given before:
\* assumed to tell Click "confirmed already", not "give it back".
Complete(t) ==
  /\ remote[t] = "taken"
  /\ \/ state[t] = "performed" /\ UNCHANGED vars
     \/ /\ state[t] \notin {"none", "performed"}
        /\ IF state[t] # "cancelled" /\ status[InvoiceOf[t]] = "pending"
           THEN SetState(t, "performed") /\ MarkPaid(t) /\ UNCHANGED remote
           ELSE SetRemote(t, "returned") /\ UNCHANGED <<invoiceVars, state>>
        /\ UNCHANGED <<aged, job>>

\* complete with error < 0: Click could not debit the customer.
CompleteFailed(t) ==
  /\ remote[t] = "failed"
  /\ state[t] \notin {"none", "performed", "cancelled"}
  /\ SetState(t, "cancelled")
  /\ UNCHANGED <<invoiceVars, aged, remote, job>>

-----------------------------------------------------------------------------
(* Uzum                                                                    *)

\* pay_go and the first half of redirect_url: the page saw a pending invoice
\* and no fresh order to reuse.
RedirectToUzum(w, i) ==
  /\ status[i] = "pending"
  /\ ~\E t \in UzumTxns : InvoiceOf[t] = i /\ state[t] = "created" /\ t \notin aged
  /\ Start(w, [op |-> "register", inv |-> i])
  /\ UNCHANGED <<invoiceVars, state, aged, remote>>

\* The rest of redirect_url.  An order registered by a worker that dies before
\* it saves the row is never shown to the customer.
RegisterOrder(w) ==
  /\ job[w].op = "register"
  /\ \E t \in UzumTxns :
       /\ InvoiceOf[t] = job[w].inv
       /\ state[t] = "none"
       /\ SetState(t, "created")
       /\ SetRemote(t, "open")
  /\ Finish(w)
  /\ UNCHANGED <<invoiceVars, aged>>

\* verify, before the row locks: ask Uzum for the status of the order.  A task
\* does it after a callback, and refund_invoice after a refund.
FetchStatus(w, t) ==
  /\ state[t] # "none"
  /\ job[w] \in {Idle, [op |-> "verify", txn |-> t]}
  /\ Continue(w, [op |-> "apply", txn |-> t, seen |-> remote[t]])
  /\ UNCHANGED <<invoiceVars, state, aged, remote>>

\* verify, with the rows locked, has one case for each status Uzum reported.
\* Completed in time:
ApplyPayment(w, t) ==
  /\ state[t] = "created"
  /\ status[InvoiceOf[t]] = "pending"
  /\ SetState(t, "performed")
  /\ MarkPaid(t)
  /\ Finish(w)

\* Completed too late: performed, and refunded once this commits ("Paid twice").
ApplyDuplicate(w, t) ==
  /\ state[t] = "created"
  /\ status[InvoiceOf[t]] # "pending"
  /\ SetState(t, "performed")
  /\ Continue(w, [op |-> "duplicate", txn |-> t])
  /\ UNCHANGED invoiceVars

ApplyDeclined(w, t) ==
  /\ state[t] = "created"
  /\ SetState(t, "cancelled")
  /\ Finish(w)
  /\ UNCHANGED invoiceVars

ApplyRefunded(w, t) ==
  LET i == InvoiceOf[t] IN
  /\ state[t] = "performed"
  /\ SetState(t, "cancelled_after")
  /\ IF status[i] = "paid" /\ paidVia[i] = "uzum"
     THEN MarkRefunded(i)
     ELSE UNCHANGED invoiceVars
  /\ Finish(w)

\* Still open, another amount, or nothing left to do.
ApplyNothing(w, t) ==
  /\ \/ job[w].seen \in {"none", "open", "other"}
     \/ job[w].seen \in {"taken", "failed"} /\ state[t] # "created"
     \/ job[w].seen = "returned" /\ state[t] # "performed"
  /\ Finish(w)
  /\ UNCHANGED <<invoiceVars, state>>

ApplyStatus(w) ==
  /\ job[w].op = "apply"
  /\ LET t == job[w].txn IN
     \/ job[w].seen = "taken" /\ (ApplyPayment(w, t) \/ ApplyDuplicate(w, t))
     \/ job[w].seen = "failed" /\ ApplyDeclined(w, t)
     \/ job[w].seen = "returned" /\ ApplyRefunded(w, t)
     \/ ApplyNothing(w, t)
  /\ UNCHANGED <<aged, remote>>

\* The on_commit hook of a duplicate payment: refund(txn_id).
RefundDuplicate(w) ==
  /\ job[w].op = "duplicate"
  /\ SetRemote(job[w].txn, "returned")
  /\ Finish(w)
  /\ UNCHANGED <<invoiceVars, state, aged>>

-----------------------------------------------------------------------------
(* The dashboard and the public API                                        *)

\* Variant: the status is checked before the row is locked.
CancelUnchecked(i) ==
  /\ status' = [status EXCEPT ![i] = "cancelled"]
  /\ UNCHANGED <<paidVia, settledBy, state, aged, remote, job>>

\* cancel_invoice
CancelInvoice(i) ==
  /\ status[i] = "pending"
  /\ status' = [status EXCEPT ![i] = "cancelled"]
  /\ UNCHANGED <<paidVia, settledBy, state, aged, remote, job>>

\* refund_invoice, up to the provider call: nothing is locked.  Payme payments
\* are refused here; of several performed ones the last created is taken, which
\* can be any of them.
RefundInvoice(w, t) ==
  LET i == InvoiceOf[t] IN
  /\ status[i] = "paid"
  /\ state[t] = "performed"
  /\ Provider(t) = paidVia[i]
  /\ \/ t \in ClickTxns /\ Start(w, [op |-> "reverse", txn |-> t])
     \/ t \in UzumTxns /\ Start(w, [op |-> "refund", txn |-> t])
  /\ UNCHANGED <<invoiceVars, state, aged, remote>>

\* Variant: a refusal by Click is swallowed.
ReverseUnchecked(w) ==
  /\ job[w].op = "reverse"
  /\ Continue(w, [op |-> "book", txn |-> job[w].txn])
  /\ SetRemote(job[w].txn, "returned") \/ UNCHANGED remote
  /\ UNCHANGED <<invoiceVars, state, aged>>

\* click.reverse: refused for a payment that is no longer there.
ReverseAtClick(w) ==
  /\ job[w].op = "reverse"
  /\ LET t == job[w].txn IN
     IF remote[t] = "taken"
     THEN SetRemote(t, "returned") /\ Continue(w, [op |-> "book", txn |-> t])
     ELSE Finish(w) /\ UNCHANGED remote
  /\ UNCHANGED <<invoiceVars, state, aged>>

\* refund_invoice, after click.reverse: nothing is checked again.
BookRefund(w) ==
  /\ job[w].op = "book"
  /\ SetState(job[w].txn, "cancelled_after")
  /\ MarkRefunded(InvoiceOf[job[w].txn])
  /\ Finish(w)
  /\ UNCHANGED <<aged, remote>>

\* uzum.refund, then uzum.verify
RefundAtUzum(w) ==
  /\ job[w].op = "refund"
  /\ LET t == job[w].txn IN
     IF remote[t] = "taken"
     THEN SetRemote(t, "returned") /\ Continue(w, [op |-> "verify", txn |-> t])
     ELSE Finish(w) /\ UNCHANGED remote
  /\ UNCHANGED <<invoiceVars, state, aged>>

-----------------------------------------------------------------------------
(* What happens around the code                                            *)

\* The customer answers an open Click or Uzum payment.
CustomerPays(t, r) ==
  /\ t \in ClickTxns \cup UzumTxns
  /\ remote[t] = "open"
  /\ r \in {"taken", "failed"} \/ (r = "other" /\ t \in UzumTxns)
  /\ SetRemote(t, r)
  /\ UNCHANGED <<invoiceVars, state, aged, job>>

\* Payme's 12 hours, or the part of Uzum's session in which an order is reused.
Age(t) ==
  /\ t \in PaymeTxns \cup UzumTxns
  /\ state[t] = "created"
  /\ t \notin aged
  /\ aged' = aged \cup {t}
  /\ UNCHANGED <<invoiceVars, state, remote, job>>

\* The worker dies, or the network call it was about to make fails.
Abort(w) ==
  /\ job[w] # Idle
  /\ Finish(w)
  /\ UNCHANGED <<invoiceVars, state, aged, remote>>

-----------------------------------------------------------------------------
Payme ==
  \E t \in PaymeTxns :
    \/ \E w \in Workers : CreateTransaction(w, t)
    \/ PerformTransaction(t)
    \/ CancelTransaction(t)

Click == \E t \in ClickTxns : Prepare(t) \/ Complete(t) \/ CompleteFailed(t)

Step(w) ==
  \/ InsertTransaction(w)
  \/ RegisterOrder(w)
  \/ ApplyStatus(w)
  \/ RefundDuplicate(w)
  \/ ReverseAtClick(w)
  \/ BookRefund(w)
  \/ RefundAtUzum(w)

Requests ==
  \E w \in Workers :
    \/ \E i \in Invoices : RedirectToUzum(w, i)
    \/ \E t \in UzumTxns : FetchStatus(w, t)
    \/ \E t \in Txns : RefundInvoice(w, t)

Environment ==
  \/ \E t \in Txns : Age(t)
  \/ \E t \in Txns, r \in Remotes : CustomerPays(t, r)
  \/ \E w \in Workers : Abort(w)

Next ==
  \/ Payme
  \/ Click
  \/ Requests
  \/ \E w \in Workers : Step(w)
  \/ \E i \in Invoices : CancelInvoice(i)
  \/ Environment

Spec == Init /\ [][Next]_vars

-----------------------------------------------------------------------------
(* Properties                                                              *)

TypeOK ==
  /\ status \in [Invoices -> Statuses]
  /\ paidVia \in [Invoices -> Providers \cup {""}]
  /\ settledBy \in [Invoices -> Txns \cup {NoTxn}]
  /\ state \in [Txns -> States]
  /\ aged \subseteq Txns
  /\ remote \in [Txns -> Remotes]
  /\ job \in [Workers -> Jobs]

\* A paid invoice stands on a performed transaction of the provider it names:
\* whatever the order of cancellations, verifications and refunds, no provider
\* withdraws the payment behind an invoice that still says "paid".
PaidIsBacked ==
  \A i \in Invoices : status[i] = "paid" =>
    /\ settledBy[i] \in TxnsOf(i)
    /\ state[settledBy[i]] = "performed"
    /\ paidVia[i] = Provider(settledBy[i])

\* Two providers racing for one invoice: a transaction that is performed
\* without settling its invoice is an Uzum order (verify learns of a payment
\* only after the fact), and never on an invoice that still waits for money.
OneSettlement ==
  \A t \in Txns : state[t] = "performed" =>
    /\ status[InvoiceOf[t]] # "pending"
    /\ settledBy[InvoiceOf[t]] = t \/ t \in UzumTxns

\* create_transaction never opens a second Payme transaction on an invoice
\* while one is open, although the check of the id and the insert are two
\* database transactions.
OneOpenPayme ==
  \A t, u \in PaymeTxns :
    InvoiceOf[t] = InvoiceOf[u] /\ state[t] = "created" /\ state[u] = "created" => t = u

\* An invoice that was paid through Payme or Click says "refunded" only when the
\* payment that settled it went back to the customer: refund_invoice books what
\* it did at Click without looking again, and other handlers run meanwhile.
RefundReturnsMoney ==
  \A i \in Invoices : status[i] = "refunded" /\ paidVia[i] # "uzum" =>
    /\ remote[settledBy[i]] = "returned"
    /\ state[settledBy[i]] = "cancelled_after"

\* The same for every provider: "Give the money back through the provider that
\* took it" (refund_invoice).
RefundedMeansReturned ==
  \A i \in Invoices : status[i] = "refunded" => remote[settledBy[i]] = "returned"

\* The invoice's life is the one InvoiceLifecycle promises: settled once, not
\* after a cancellation, refunded only when paid, its provider never changed.
Lifecycle ==
  INSTANCE InvoiceLifecycle WITH Invoices <- Invoices, Providers <- Providers,
                                 status <- status, paidVia <- paidVia
RefinesLifecycle == Lifecycle!Spec

-----------------------------------------------------------------------------
(* Liveness.  Providers repeat an unanswered callback, Celery redelivers a *)
(* task whose worker died (acks_late), and a started handler goes on unless*)
(* it is aborted.  Customers, Payme's choices and the dashboard owe nothing. *)
Fairness ==
  /\ \A t \in ClickTxns : WF_vars(Complete(t)) /\ WF_vars(CompleteFailed(t))
  /\ \A w \in Workers : WF_vars(Step(w))
  /\ \A t \in UzumTxns : SF_vars(\E w \in Workers : FetchStatus(w, t) /\ remote[t] = "taken")

FairSpec == Spec /\ Fairness

\* A customer Click has debited ends with a paid transaction or with the money
\* back, however many other payments raced for the invoice.
ClickDebitAnswered ==
  \A t \in ClickTxns :
    remote[t] = "taken" ~> (state[t] = "performed" \/ remote[t] = "returned")
=============================================================================
