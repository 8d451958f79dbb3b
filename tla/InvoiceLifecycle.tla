-------------------------- MODULE InvoiceLifecycle --------------------------
(***************************************************************************)
(* What the payment core promises about an invoice, without providers,     *)
(* transactions or requests: it is settled at most once, by one provider,  *)
(* it can be cancelled only while nobody has paid, and a refund can only   *)
(* follow a payment.  Payments.tla is shown to implement it.               *)
(***************************************************************************)

CONSTANTS
  Invoices,   \* invoices of one company
  Providers   \* "payme", "click", "uzum"

VARIABLES
  status,     \* Invoice.status
  paidVia     \* Invoice.paid_via, "" before the payment

Init ==
  /\ status  = [i \in Invoices |-> "pending"]
  /\ paidVia = [i \in Invoices |-> ""]

Pay(i) ==
  /\ status[i] = "pending"
  /\ status' = [status EXCEPT ![i] = "paid"]
  /\ \E p \in Providers : paidVia' = [paidVia EXCEPT ![i] = p]

Cancel(i) ==
  /\ status[i] = "pending"
  /\ status' = [status EXCEPT ![i] = "cancelled"]
  /\ UNCHANGED paidVia

Refund(i) ==
  /\ status[i] = "paid"
  /\ status' = [status EXCEPT ![i] = "refunded"]
  /\ UNCHANGED paidVia

Next == \E i \in Invoices : Pay(i) \/ Cancel(i) \/ Refund(i)

Spec == Init /\ [][Next]_<<status, paidVia>>
=============================================================================
