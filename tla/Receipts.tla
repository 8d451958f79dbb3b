------------------------------- MODULE Receipts -------------------------------
(***************************************************************************)
(* What the money of an invoice is said to be for: the amount a manager    *)
(* types, the lines Odoo sends, and the receipts Payme, Click and Uzum are *)
(* given (amocrm/widget_api.py, payments/services.py, payments/providers,  *)
(* odoo_addons/uzbridge/models/payment_transaction.py).                    *)
(*                                                                         *)
(* An amount in soum is a pair: its whole part and its decimal digits.     *)
(***************************************************************************)
EXTENDS Integers, Sequences, SequencesExt

SumOf(s) == FoldLeft(LAMBDA a, b : a + b, 0, s)

(***************************************************************************)
(* _to_tiyin and money: from what is typed to tiyin, and back.             *)
(***************************************************************************)
Refused == -1

ToTiyin(soum) ==
  LET digit(i) == IF i \in DOMAIN soum[2] THEN soum[2][i] ELSE 0
      tiyin == 100 * soum[1] + 10 * digit(1) + digit(2)
  IN  IF tiyin > 0 /\ \A i \in DOMAIN soum[2] : i > 2 => soum[2][i] = 0 THEN tiyin ELSE Refused

Money(tiyin) ==
  <<tiyin \div 100,
    IF tiyin % 100 = 0 THEN <<>> ELSE <<(tiyin % 100) \div 10, tiyin % 10>>>>

(***************************************************************************)
(* Odoo's lines: [total, qty, vat], a quantity in halves.  A line is split *)
(* into units only when it divides, and they go only when they add up.     *)
(***************************************************************************)
OdooItem(line) ==
  LET qty   == line.qty \div 2
      whole == line.qty % 2 = 0 /\ qty > 0 /\ line.total % qty = 0
      count == IF whole THEN qty ELSE 1
  IN  [price |-> line.total \div count, count |-> count, vat |-> line.vat]

Total(items) == SumOf([i \in DOMAIN items |-> items[i].price * items[i].count])

\* A line that costs nothing is left out.
OdooItems(lines, amount) ==
  LET paid  == SelectSeq(lines, LAMBDA l : l.total # 0)
      items == [i \in DOMAIN paid |-> OdooItem(paid[i])]
  IN  IF Total(items) = amount THEN items ELSE <<>>

\* POST /invoices refuses items that do not add up; none is always right.
Accepted(items, amount) == amount > 0 /\ (items = <<>> \/ Total(items) = amount)

(***************************************************************************)
(* receipt_items, and the receipt in the form of each provider.            *)
(***************************************************************************)
ReceiptItems(items, amount, defaultVat) ==
  IF items # <<>> THEN items ELSE <<[price |-> amount, count |-> 1, vat |-> defaultVat]>>

\* The tax is in the price; rounded to the nearest tiyin, a half to the even one.
VatTiyin(total, percent) ==
  LET n == total * percent
      d == 100 + percent
      q == n \div d
      half == 2 * (n % d)
  IN  IF half > d \/ (half = d /\ q % 2 = 1) THEN q + 1 ELSE q

\* Payme multiplies itself; it is sent before the payment is allowed.
PaymeDetail(items) == [i \in DOMAIN items |-> [price |-> items[i].price, count |-> items[i].count]]

\* Click is given the total of a line as its Price, and its tax in tiyin.
ClickItems(items) ==
  [i \in DOMAIN items |->
     LET total == items[i].price * items[i].count
     IN  [Price |-> total, Amount |-> items[i].count, VAT |-> VatTiyin(total, items[i].vat)]]

\* Uzum is given both prices and the total of the cart.
UzumCart(items, amount) ==
  [items |-> [i \in DOMAIN items |->
     [unitPrice |-> items[i].price, quantity |-> items[i].count,
      total |-> items[i].price * items[i].count]],
   total |-> amount]
===============================================================================
