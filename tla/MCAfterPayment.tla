---------------------------- MODULE MCAfterPayment ----------------------------
\* Instances of AfterPayment for TLC: an amoCRM invoice without and with bills, a
\* top-up, and an invoice of the API whose company has an endpoint.
EXTENDS AfterPayment

MCSetups ==
  { [source |-> "amocrm", fiscal |-> FALSE, endpoint |-> FALSE, bills |-> FALSE, retries |-> 1],
    [source |-> "amocrm", fiscal |-> FALSE, endpoint |-> FALSE, bills |-> TRUE,  retries |-> 0],
    [source |-> "topup",  fiscal |-> TRUE,  endpoint |-> FALSE, bills |-> FALSE, retries |-> 1],
    [source |-> "api",    fiscal |-> FALSE, endpoint |-> TRUE,  bills |-> FALSE, retries |-> 1] }
===============================================================================
