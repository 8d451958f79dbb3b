\* A Click payment against one of Payme and one of Uzum, with handlers that die.
CONSTANTS
  Invoices = {i1}
  PaymeTxns = {p1}
  ClickTxns = {c1, c2}
  UzumTxns = {u1}
  Workers = {w1}
  NoTxn = NoTxn
  InvoiceOf <- MCInvoiceOf
SPECIFICATION FairSpec
CHECK_DEADLOCK FALSE
PROPERTIES
  ClickDebitAnswered
