----------------------------- MODULE MCPayments -----------------------------
(* One invoice, raced for by several payments of every provider.  Which account
   may take a payment, and what the receipt says, is checked on small inputs. *)
EXTENDS Payments, Routing, Receipts, TLC

MCInvoiceOf == [t \in Txns |-> CHOOSE i \in Invoices : TRUE]

\* Ids of one provider, and workers, are interchangeable: with one invoice
\* InvoiceOf is constant.  Not for liveness.
MCSymmetry ==
  Permutations(PaymeTxns) \cup Permutations(ClickTxns)
    \cup Permutations(UzumTxns) \cup Permutations(Workers)

(***************************************************************************)
(* Routing                                                                 *)
(***************************************************************************)

MCFilled    == {{"merchant_id", "secret"}, {"merchant_id", "test_secret"}, {"merchant_id", "service_id", "secret"}}
MCAccount   == [company: {"ours"}, provider: {"payme", "click"}, filled: MCFilled, test: BOOLEAN, enabled: BOOLEAN]
MCAccounts  == {[i \in DOMAIN s |-> [id |-> i] @@ s[i]] : s \in BoundedSeq(MCAccount, 2)}
MCTicked    == SUBSET (1 .. 3)
MCInvoice(choice) ==
  [company |-> "ours", number |-> 7, amount |-> 5, status |-> "pending", amo |-> <<>>, key |-> <<choice>>]

\* Of the accounts that share a connection's choice, at most one of a provider can
\* take its payments: money never reaches the wrong cash desk, in a callback to
\* any account, also one that was switched off or to another mode since.
ASSUME OneCashDesk ==
  \A accounts \in MCAccounts : \A ticked \in MCTicked :
    LET invoice == MCInvoice(KeyAccounts(accounts, ticked))
        takers  == {a \in ToSet(accounts) : InvoiceFor(a, {invoice}, 7) # {}}
    IN  /\ \A a, b \in takers : a.provider = b.provider => a = b
        /\ \A a \in takers : ~MayTake([a EXCEPT !.company = "theirs"], invoice)

\* Whatever was ticked, or before anything was, a customer is offered at most one
\* account of each provider, and one that will take the payment: its callback
\* finds the invoice, and its key, which the provider must show, is set.
ASSUME OfferedWillTake ==
  \A accounts \in MCAccounts : \A ticked \in MCTicked : \A choice \in {NotChosen, KeyAccounts(accounts, ticked)} :
    LET invoice == MCInvoice(choice)
        offered == AccountsFor(accounts, FALSE, invoice)
    IN  /\ \A a, b \in offered : a.provider = b.provider => a = b
        /\ \A a \in offered : Handle(a, <<a.id, ActiveSecret(a)>>, {invoice}, 7, 5) = "allow"

\* However the form is filled in, an account that is on has its keys, or had them
\* before it was saved; and nothing changes when the tariff item is not paid for.
ASSUME OnHasKeys ==
  \A accounts \in MCAccounts : \A a \in ToSet(accounts) : \A pays \in BOOLEAN :
    \A data \in [typed: SUBSET Secrets, filled: {{}} \cup MCFilled, test: BOOLEAN, enabled: BOOLEAN] :
      LET new == SaveProvider(a, data, pays)
      IN  (new # a => pays) /\ (new.enabled => IsConfigured(new) \/ new = a)

(***************************************************************************)
(* Receipts                                                                *)
(***************************************************************************)

\* The amount shown for an invoice, typed again, is the same amount; and whatever
\* is typed is taken to the last tiyin or refused, never rounded.
ASSUME MoneyReadsBack ==
  /\ \A tiyin \in 1 .. 2000 : ToTiyin(Money(tiyin)) = tiyin
  /\ \A whole \in 0 .. 3, digits \in BoundedSeq(0 .. 9, 3) :
       LET ten   == 1000 * whole + SumOf([i \in DOMAIN digits |-> digits[i] * <<100, 10, 1>>[i]])
           tiyin == ToTiyin(<<whole, digits>>)
       IN  IF ten % 10 = 0 /\ ten > 0 THEN 10 * tiyin = ten ELSE tiyin = Refused

MCLines == BoundedSeq([total: {-2, 0, 3, 4}, qty: {-2, 1, 2, 4, 6}, vat: {0, 12}], 2)

\* Whatever lines Odoo has, discounts and parts of units among them, uzbridge takes
\* what Odoo makes of them, none left out when they are for what is paid, and every
\* provider's receipt is for what is paid.
ASSUME ReceiptIsForPaid ==
  \A lines \in MCLines, amount \in 1 .. 8 :
    LET sent  == OdooItems(lines, amount)
        items == ReceiptItems(sent, amount, 12)
        payme == PaymeDetail(items)
        click == ClickItems(items)
        uzum  == UzumCart(items, amount)
    IN  /\ Accepted(sent, amount)
        /\ SumOf([i \in DOMAIN lines |-> lines[i].total]) = amount =>
             Len(sent) = Len(SelectSeq(lines, LAMBDA l : l.total # 0))
        /\ SumOf([i \in DOMAIN payme |-> payme[i].price * payme[i].count]) = amount
        /\ SumOf([i \in DOMAIN click |-> click[i].Price]) = amount
        /\ SumOf([i \in DOMAIN uzum.items |-> uzum.items[i].total]) = uzum.total
=============================================================================
