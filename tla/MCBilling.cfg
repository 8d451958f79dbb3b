\* A merchant account and a connection with documents, one request half-way
\* besides renew_due.
CONSTANTS
  Payments = {p1}
  Gateways = {}
  Connections = {d1}
  Accounts <- MCAccounts
  KindOf <- MCKindOf
  First <- MCFirst
  Extra <- MCExtra
  Workers = {w1, w2}
  Period = 3
  Grace = 2
  Amounts <- MCAmounts
  MinBalance <- MCMinBalance
  MaxBalance = 8
  MaxLate = 2
SPECIFICATION FairSpec
INVARIANTS
  TypeOK
  PausedOnlyUnpaid
PROPERTIES
  ChargesCovered
  TopUpRenews
