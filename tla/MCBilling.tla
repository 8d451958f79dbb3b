----------------------------- MODULE MCBilling -----------------------------
(* Small companies.  Prices are in units of 100 000 so'm, as in PRICES.     *)
EXTENDS Billing

CONSTANTS Payments, Gateways, Connections   \* the accounts of each kind

MCAccounts == Payments \cup Gateways \cup Connections

MCKindOf ==
  [a \in MCAccounts |->
     IF a \in Payments THEN "payment" ELSE IF a \in Gateways THEN "sms" ELSE "docs"]

MCAmounts == {-2, 5}
MCMinBalance == -2

MCFirst == [payment |-> 5, sms |-> 3, docs |-> 2]
MCExtra == [payment |-> 2, sms |-> 1, docs |-> 1]
=============================================================================
