\* One transaction, two requests that may make two invoices for it.
CONSTANTS
  Txs = {t1}
  Invoices = {i1, i2}
  Callers = {c1, c2}
  Amounts = {1, 2}
  NoInvoice = NoInvoice
  NoTx = NoTx
  NoCaller = NoCaller
  MaxSecrets = 1
SPECIFICATION Spec
SYMMETRY MCSymmetry
CHECK_DEADLOCK FALSE
INVARIANTS
  TypeOK
  AnswerFits
  RepeatIsSame
  OdooIsRight
  TakenIsBooked
