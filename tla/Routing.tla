-------------------------------- MODULE Routing --------------------------------
(***************************************************************************)
(* Which merchant account may take the payment of an invoice: how accounts *)
(* are set up (payments/api.py), chosen for a connection (developer/api.py *)
(* and the two amoCRM pages, alike), offered to a customer and accepted in *)
(* a callback (payments/services.py, payments/providers/payme.py).         *)
(*                                                                         *)
(* A company's accounts are a sequence, in the order they were made, of    *)
(* records [id, company, provider, filled, test, enabled]; `filled` are    *)
(* the fields that have a value.  A choice is <<>> before one is made, and *)
(* then <<ids>>.                                                           *)
(***************************************************************************)
EXTENDS Naturals, Sequences

ActiveSecret(a) == IF a.provider = "payme" /\ a.test THEN "test_secret" ELSE "secret"

IsConfigured(a) ==
  {"merchant_id", ActiveSecret(a)} \cup (IF a.provider = "click" THEN {"service_id"} ELSE {})
    \subseteq a.filled

(***************************************************************************)
(* Set up: `data` is what the form holds, of the secrets only those typed. *)
(***************************************************************************)
Secrets == {"secret", "test_secret"}

Apply(a, data) ==
  LET kept == {s \in Secrets : s \in a.filled /\ s \notin data.typed}
  IN  [a EXCEPT !.filled = kept \cup data.filled, !.test = data.test, !.enabled = data.enabled]

\* Switched on only with its keys, and only when the tariff item is paid for.
SaveProvider(a, data, pays) ==
  LET new == Apply(a, data)
  IN  IF (new.enabled => IsConfigured(new)) /\ pays THEN new ELSE a

(***************************************************************************)
(* Chosen and offered: one account of each provider.                       *)
(***************************************************************************)
NotChosen == <<>>

FirstOfEach(accounts, places) ==
  {i \in places : \A j \in places : accounts[j].provider = accounts[i].provider => i <= j}

IdsOf(accounts, places) == {accounts[i].id : i \in places}

\* KeyAccounts, save_accounts and put_settings: of what was ticked, the company's own.
KeyAccounts(accounts, ticked) ==
  <<IdsOf(accounts, FirstOfEach(accounts, {i \in DOMAIN accounts : accounts[i].id \in ticked}))>>

InChoice(a, choice) == choice = NotChosen \/ a.id \in choice[1]

\* The order they are shown in, Payme, Click, Uzum, is left out.
EnabledAccounts(accounts, paused) ==
  {i \in DOMAIN accounts : ~paused /\ accounts[i].enabled /\ IsConfigured(accounts[i])}

RouteAccounts(accounts, paused, choice) ==
  LET open == {i \in EnabledAccounts(accounts, paused) : InChoice(accounts[i], choice)}
  IN  {accounts[i] : i \in FirstOfEach(accounts, open)}

\* The choice of what made the invoice: an amoCRM account or an API key, or none.
ChosenFor(invoice) ==
  IF invoice.amo # <<>> THEN invoice.amo[1]
  ELSE IF invoice.key # <<>> THEN invoice.key[1] ELSE NotChosen

AccountsFor(accounts, paused, invoice) == RouteAccounts(accounts, paused, ChosenFor(invoice))

(***************************************************************************)
(* Accepted in a callback, whether the account is still on offer or not.   *)
(***************************************************************************)
MayTake(a, invoice) == a.company = invoice.company /\ InChoice(a, ChosenFor(invoice))

\* The key of the cash desk, of the mode it is in; an empty one opens nothing.
CheckAuth(a, secret) == secret = <<a.id, ActiveSecret(a)>> /\ ActiveSecret(a) \in a.filled

InvoiceFor(a, invoices, number) ==
  {i \in invoices : i.company = a.company /\ i.number = number /\ MayTake(a, i)}

CheckPayable(invoice, amount) == amount = invoice.amount /\ invoice.status = "pending"

\* CheckPerformTransaction, which every payment begins with.
Handle(a, secret, invoices, number, amount) ==
  IF ~CheckAuth(a, secret) THEN "not authorized"
  ELSE IF InvoiceFor(a, invoices, number) = {} THEN "order not found"
  ELSE IF \A i \in InvoiceFor(a, invoices, number) : CheckPayable(i, amount) THEN "allow"
  ELSE "not payable"
================================================================================
