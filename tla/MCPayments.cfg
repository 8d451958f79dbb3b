\* Two payments of every provider race for one invoice, two handlers half-way.
CONSTANTS
  Invoices = {i1}
  PaymeTxns = {p1, p2}
  ClickTxns = {c1}
  UzumTxns = {u1, u2}
  Workers = {w1, w2}
  NoTxn = NoTxn
  InvoiceOf <- MCInvoiceOf
SPECIFICATION Spec
SYMMETRY MCSymmetry
CHECK_DEADLOCK FALSE
INVARIANTS
  TypeOK
  PaidIsBacked
  OneSettlement
  OneOpenPayme
  RefundReturnsMoney
PROPERTIES
  RefinesLifecycle
