\* Two Uzum orders of one invoice are both paid, and refunds are verified.
CONSTANTS
  Invoices = {i1}
  PaymeTxns = {p1}
  ClickTxns = {c1}
  UzumTxns = {u1, u2}
  Workers = {w1}
  NoTxn = NoTxn
  InvoiceOf <- MCInvoiceOf
SPECIFICATION Spec
CHECK_DEADLOCK FALSE
INVARIANTS
  RefundedMeansReturned
