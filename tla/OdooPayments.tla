---------------------------- MODULE OdooPayments ----------------------------
(***************************************************************************)
(* The public API (developer/api_v1.py) and its main client, the Odoo      *)
(* add-on: an Odoo transaction asks for an invoice by its reference, the   *)
(* customer pays it, and Odoo learns of it by a signed webhook or by       *)
(* asking when the customer comes back.  A call can be answered, or its    *)
(* answer lost; an event is delivered any number of times and in any       *)
(* order, as AfterPayment shows.  Invoices move as InvoiceLifecycle says.  *)
(***************************************************************************)
EXTENDS Naturals, FiniteSets

CONSTANTS
  Txs,          \* Odoo payment.transaction rows; a transaction is its reference
  Invoices,     \* the invoices uzbridge can still create (bound)
  Callers,      \* requests that ask for an invoice at the same time
  Amounts,      \* amounts a caller may ask for
  NoInvoice, NoTx, NoCaller,
  MaxSecrets    \* how often Connect is pressed (bound)

ASSUME NoneAssumption == NoInvoice \notin Invoices /\ NoTx \notin Txs /\ NoCaller \notin Callers
ASSUME SecretAssumption == MaxSecrets \in Nat \ {0}

VARIABLES
  \* uzbridge
  status,       \* Invoice.status, "none" before it is created
  reference,    \* Invoice.external_id
  amount,       \* Invoice.amount_tiyin
  creator,      \* the caller an invoice was created for
  secret,       \* WebhookEndpoint.secret, as a version; 0: not registered
  enabled,      \* WebhookEndpoint.is_enabled
  hooks,        \* on_commit hooks that will emit an event: [inv, kind]
  events,       \* deliveries not yet answered with 2xx: [inv, kind, status]
  taken,        \* deliveries Odoo has answered with 2xx
  call,         \* a POST /invoices half-way, and the last answer of each caller
  \* Odoo
  txState,      \* payment.transaction.state
  txRef,        \* provider_reference
  booked,       \* is_post_processed: the payment is in the books
  known,        \* uzbridge_webhook_secret
  fetched,      \* what the return page has read and not yet applied
  refund        \* the refund transaction of each transaction

invoice == <<status, reference, amount, creator>>
channel == <<secret, enabled, hooks, events, taken>>
server  == <<invoice, channel, call>>
odoo    == <<txState, txRef, booked, known, fetched, refund>>
vars    == <<server, odoo>>

Statuses == {"none", "pending", "paid", "refunded", "cancelled"}
Kinds    == {"paid", "refunded", "cancelled"}
Idle     == [step |-> "idle"]
EventSet == [inv: Invoices, kind: Kinds, status: Kinds]
Calls    == [step: {"looked"}, tx: Txs, amount: Amounts, found: Invoices \cup {NoInvoice}]
              \cup [step: {"answered"}, tx: Txs, amount: Amounts, found: Invoices]

TypeOK ==
  /\ status \in [Invoices -> Statuses]
  /\ reference \in [Invoices -> Txs \cup {NoTx}]
  /\ amount \in [Invoices -> Amounts \cup {0}]
  /\ creator \in [Invoices -> Callers \cup {NoCaller}]
  /\ secret \in 0 .. MaxSecrets /\ enabled \in BOOLEAN
  /\ hooks \subseteq [inv: Invoices, kind: Kinds]
  /\ events \subseteq EventSet /\ taken \subseteq EventSet
  /\ call \in [Callers -> {Idle} \cup Calls]
  /\ txState \in [Txs -> {"draft", "pending", "done", "cancel", "error"}]
  /\ txRef \in [Txs -> Invoices \cup {NoInvoice}]
  /\ booked \in [Txs -> BOOLEAN]
  /\ known \in 0 .. MaxSecrets
  /\ fetched \in [Txs -> Statuses]
  /\ refund \in [Txs -> {"none", "asked", "told", "waiting", "draft", "done"}]

Init ==
  /\ status = [i \in Invoices |-> "none"]
  /\ reference = [i \in Invoices |-> NoTx]
  /\ amount = [i \in Invoices |-> 0]
  /\ creator = [i \in Invoices |-> NoCaller]
  /\ secret = 0 /\ enabled = TRUE
  /\ hooks = {} /\ events = {} /\ taken = {}
  /\ call = [c \in Callers |-> Idle]
  /\ txState = [t \in Txs |-> "draft"]
  /\ txRef = [t \in Txs |-> NoInvoice]
  /\ booked = [t \in Txs |-> FALSE]
  /\ known = 0
  /\ fetched = [t \in Txs |-> "none"]
  /\ refund = [t \in Txs |-> "none"]

(***************************************************************************)
(* POST /invoices.  The reference is looked up and the invoice created in  *)
(* two database transactions.                                              *)
(***************************************************************************)

\* Variant: only an invoice that waits for its payment is found.
LivePending(i, t) == reference[i] = t /\ status[i] = "pending"

Live(i, t) == reference[i] = t /\ status[i] \notin {"none", "cancelled"}

Answer(c, t, a, i) ==
  call' = [call EXCEPT ![c] = [step |-> "answered", tx |-> t, amount |-> a, found |-> i]]

\* The answer reaches Odoo, which keeps the id; or it does not, and Odoo marks
\* its transaction as failed.
SetError(t) ==
  txState' = [txState EXCEPT ![t] = IF @ \in {"draft", "pending"} THEN "error" ELSE @]

Receive(t, i) ==
  \/ /\ txRef' = [txRef EXCEPT ![t] = i]
     /\ UNCHANGED txState
  \/ /\ SetError(t)
     /\ UNCHANGED txRef

\* Refused: no key, no such tariff, items that do not add up, another amount.
Refuse(c, t) ==
  /\ call' = [call EXCEPT ![c] = Idle]
  /\ SetError(t)
  /\ UNCHANGED txRef

\* Variant: an invoice of the reference is returned whatever it is for.
AnyAmount(i, a) == TRUE

SameAmount(i, a) == amount[i] = a

\* Odoo renders a transaction it has just made.
LookUp(c) ==
  /\ call[c].step # "looked"
  /\ \E t \in Txs, a \in Amounts :
       /\ txState[t] = "draft"
       /\ \/ Refuse(c, t)
          \/ /\ ~\E i \in Invoices : Live(i, t)
             /\ call' = [call EXCEPT ![c] =
                  [step |-> "looked", tx |-> t, amount |-> a, found |-> NoInvoice]]
             /\ UNCHANGED <<txRef, txState>>
          \/ \E i \in Invoices :
               /\ Live(i, t) /\ SameAmount(i, a)
               /\ Answer(c, t, a, i)
               /\ Receive(t, i)
  /\ UNCHANGED <<invoice, channel, booked, known, fetched, refund>>

CreateInvoice(c) ==
  /\ call[c].step = "looked"
  /\ \E i \in Invoices :
       /\ status[i] = "none"
       /\ status' = [status EXCEPT ![i] = "pending"]
       /\ reference' = [reference EXCEPT ![i] = call[c].tx]
       /\ amount' = [amount EXCEPT ![i] = call[c].amount]
       /\ creator' = [creator EXCEPT ![i] = c]
       /\ Answer(c, call[c].tx, call[c].amount, i)
       /\ Receive(call[c].tx, i)
  /\ UNCHANGED <<channel, booked, known, fetched, refund>>

(***************************************************************************)
(* The invoice is paid, cancelled or refunded; the event is emitted after  *)
(* the commit, when an endpoint wants it, and carries the status of then.  *)
(***************************************************************************)

\* Variant: the hook does not wait for a commit that may not come.
MoveOrNot(i, from, to) ==
  /\ status[i] = from
  /\ status' \in {status, [status EXCEPT ![i] = to]}
  /\ hooks' = hooks \cup {[inv |-> i, kind |-> to]}
  /\ UNCHANGED <<reference, amount, creator, secret, enabled, events, taken, call>>

Move(i, from, to) ==
  /\ status[i] = from
  /\ status' = [status EXCEPT ![i] = to]
  /\ hooks' = hooks \cup {[inv |-> i, kind |-> to]}
  /\ UNCHANGED <<reference, amount, creator, secret, enabled, events, taken, call>>

Pay(i)    == Move(i, "pending", "paid")      /\ UNCHANGED odoo
Cancel(i) == Move(i, "pending", "cancelled") /\ UNCHANGED odoo
Refund(i) == Move(i, "paid", "refunded")     /\ UNCHANGED odoo

\* The hook emits, or dies with its process.
Emit(h) ==
  /\ hooks' = hooks \ {h}
  /\ \/ /\ enabled /\ secret # 0
        /\ events' = events \cup {[inv |-> h.inv, kind |-> h.kind, status |-> status[h.inv]]}
     \/ UNCHANGED events
  /\ UNCHANGED <<invoice, secret, enabled, taken, call, odoo>>

(***************************************************************************)
(* The endpoint.                                                           *)
(***************************************************************************)

\* Connect registers the URL, which makes a new secret; Odoo may not get it.
RegisterWebhook ==
  /\ secret < MaxSecrets
  /\ secret' = secret + 1
  /\ enabled' = TRUE
  /\ known' \in {known, secret'}
  /\ UNCHANGED <<invoice, hooks, events, taken, call, txState, txRef, booked, fetched, refund>>

ToggleWebhook ==
  /\ secret # 0
  /\ enabled' = ~enabled
  /\ UNCHANGED <<invoice, secret, hooks, events, taken, call, odoo>>

(***************************************************************************)
(* Odoo's transaction.  Which states a transaction may leave is Odoo's.    *)
(***************************************************************************)

\* Variant: a refunded invoice closes the transaction as cancelled.
STATUS_MAPPING_REFUND ==
  [pending |-> "pending", paid |-> "done", refunded |-> "cancel", cancelled |-> "cancel"]

STATUS_MAPPING == [pending |-> "pending", paid |-> "done", refunded |-> "done", cancelled |-> "cancel"]

MayBecome(state) ==
  CASE state = "pending" -> {"draft"}
    [] state = "done"    -> {"draft", "pending", "error"}
    [] state = "cancel"  -> {"draft", "pending"}

\* _process and _apply_updates; `post` books the payment at once.
ApplyUpdates(t, i, s, post) ==
  LET state == STATUS_MAPPING[s]
      next  == IF txState[t] \in MayBecome(state) THEN state ELSE txState[t]
  IN  /\ txState' = [txState EXCEPT ![t] = next]
      /\ txRef' = [txRef EXCEPT ![t] = i]
      /\ booked' = [booked EXCEPT ![t] = @ \/ (post /\ next = "done")]

InvoiceEvent(e) ==
  LET t == reference[e.inv]
  IN  IF e.kind = "refunded"
      THEN /\ refund' = [refund EXCEPT ![t] = IF @ = "draft" THEN "done" ELSE @]
           /\ UNCHANGED <<txState, txRef, booked>>
      ELSE /\ ApplyUpdates(t, e.inv, e.status, TRUE)
           /\ UNCHANGED refund

\* The delivery is signed with the secret of now; Odoo refuses any other.  What
\* Odoo has taken is delivered again when its answer is lost.
Deliver(e) ==
  /\ secret = known
  /\ InvoiceEvent(e)
  /\ taken' = taken \cup {e}
  /\ events' \in {events, events \ {e}}
  /\ UNCHANGED <<invoice, secret, enabled, hooks, call, known, fetched>>

\* After its last retry.
GiveUpDelivery(e) ==
  /\ events' = events \ {e}
  /\ UNCHANGED <<invoice, secret, enabled, hooks, taken, call, odoo>>

\* The return page asks uzbridge, then applies what it was told.
Fetch(t) ==
  /\ txRef[t] # NoInvoice
  /\ txState[t] \in {"draft", "pending"}
  /\ fetched' = [fetched EXCEPT ![t] = status[txRef[t]]]
  /\ UNCHANGED <<server, txState, txRef, booked, known, refund>>

ApplyFetched(t) ==
  /\ fetched[t] # "none"
  /\ ApplyUpdates(t, txRef[t], fetched[t], FALSE)
  /\ fetched' = [fetched EXCEPT ![t] = "none"]
  /\ UNCHANGED <<server, known, refund>>

PostProcess(t) ==      \* Odoo's cron
  /\ txState[t] = "done"
  /\ booked' = [booked EXCEPT ![t] = TRUE]
  /\ UNCHANGED <<server, txState, txRef, known, fetched, refund>>

(***************************************************************************)
(* A refund asked for in Odoo: its transaction is invisible to the webhook *)
(* until the call returned, and rolled back when the call failed.          *)
(***************************************************************************)

AskRefund(t) ==
  /\ txState[t] = "done"
  /\ refund[t] = "none"
  /\ refund' = [refund EXCEPT ![t] = "asked"]
  /\ UNCHANGED <<server, txState, txRef, booked, known, fetched>>

\* refund_invoice: the money is back, or the provider will say so later, or no.
RefundCall(t) ==
  /\ refund[t] = "asked"
  /\ \/ /\ Move(txRef[t], "paid", "refunded")
        /\ refund' = [refund EXCEPT ![t] = "told"]
     \/ /\ status[txRef[t]] = "paid"
        /\ refund' = [refund EXCEPT ![t] = "waiting"]
        /\ UNCHANGED server
     \/ /\ refund' = [refund EXCEPT ![t] = "none"]
        /\ UNCHANGED server
  /\ UNCHANGED <<txState, txRef, booked, known, fetched>>

\* Variant: an accepted refund is taken for one that was made.
RefundAnsweredDone(t) ==
  /\ refund[t] \in {"told", "waiting"}
  /\ \E s \in {"done", "none"} : refund' = [refund EXCEPT ![t] = s]
  /\ UNCHANGED <<server, txState, txRef, booked, known, fetched>>

RefundAnswered(t) ==
  /\ refund[t] \in {"told", "waiting"}
  /\ \E s \in {IF refund[t] = "told" THEN "done" ELSE "draft", "none"} :
       refund' = [refund EXCEPT ![t] = s]
  /\ UNCHANGED <<server, txState, txRef, booked, known, fetched>>

Next ==
  \/ \E c \in Callers : LookUp(c) \/ CreateInvoice(c)
  \/ \E i \in Invoices : Pay(i) \/ Cancel(i) \/ Refund(i)
  \/ \E h \in hooks : Emit(h)
  \/ RegisterWebhook \/ ToggleWebhook
  \/ \E e \in events : Deliver(e) \/ GiveUpDelivery(e)
  \/ \E t \in Txs : Fetch(t) \/ ApplyFetched(t) \/ PostProcess(t) \/ AskRefund(t) \/ RefundCall(t) \/ RefundAnswered(t)

Spec == Init /\ [][Next]_vars

(***************************************************************************)
(* Properties                                                              *)
(***************************************************************************)

\* What a caller was answered is for the reference and the amount it asked for.
AnswerFits ==
  \A c \in Callers : call[c].step = "answered" =>
    reference[call[c].found] = call[c].tx /\ amount[call[c].found] = call[c].amount

\* A client that repeats its call, without overlapping another one, gets the
\* invoice it already has: two live ones were never created for the same caller.
RepeatIsSame ==
  \A t \in Txs, i, j \in Invoices :
    /\ reference[i] = t /\ reference[j] = t /\ creator[i] = creator[j]
    /\ {status[i], status[j]} \cap {"none", "cancelled"} = {}
    => i = j

\* Odoo takes a transaction for paid only when an invoice of its reference was
\* paid, and a refund for made only when one was refunded.
OdooIsRight ==
  \A t \in Txs :
    /\ txState[t] = "done" \/ booked[t] =>
         \E i \in Invoices : reference[i] = t /\ status[i] \in {"paid", "refunded"}
    /\ refund[t] = "done" =>
         \E i \in Invoices : reference[i] = t /\ status[i] = "refunded"

\* A payment Odoo was told of, and answered, is in its books, unless another
\* invoice of the reference had cancelled the transaction before.
TakenIsBooked ==
  \A e \in taken : e.kind = "paid" =>
    booked[reference[e.inv]] \/ txState[reference[e.inv]] = "cancel"
=============================================================================
