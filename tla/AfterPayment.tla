---------------------------- MODULE AfterPayment ----------------------------
(***************************************************************************)
(* What follows a payment, a refund or a cancellation of one invoice: the  *)
(* on_commit hooks of payments/services.py, and the Celery tasks they      *)
(* start, which tell Click, amoCRM and the company's own endpoint.         *)
(*                                                                         *)
(* The hooks run in the process that committed, once, and are lost with    *)
(* it.  settings.CELERY_TASK_ACKS_LATE keeps a message in the queue until  *)
(* its task ends, so a message whose worker stopped, or is slow, is run    *)
(* again, also while the first run goes on; but the message of a pool      *)
(* process that is killed alone is acknowledged and gone.  A call over the *)
(* network can fail before or after it took effect.  The invoice itself    *)
(* moves as InvoiceLifecycle promises.                                     *)
(***************************************************************************)
EXTENDS Naturals, FiniteSets

CONSTANTS
  Setups,       \* the cases of one run: records in Setup
  Workers,      \* Celery pool processes
  MaxRetries,   \* max_retries of the tasks (bound: 4 to 10 in the code)
  MaxDeaths     \* how many processes die (bound)

ASSUME RetryAssumption == MaxRetries \in Nat
ASSUME DeathAssumption == MaxDeaths \in Nat

\* source: Invoice.source; fiscal: Click took it and has the ids for a fiscal
\* receipt; endpoint: the company registered a webhook; bills: bills_enabled;
\* retries: how often a task is retried.
Setup == [source: {"amocrm", "topup", "api"}, fiscal: BOOLEAN,
          endpoint: BOOLEAN, bills: BOOLEAN, retries: 0 .. MaxRetries]

ASSUME SetupAssumption == Setups \subseteq Setup

VARIABLES
  setup,
  status,       \* Invoice.status
  hooks,        \* on_commit hooks still to run
  queue,        \* Celery messages not yet acknowledged
  worker,       \* what each pool process is doing
  receipt,      \* Click: it has been sent the fiscal receipt
  submitted,    \* ProviderTransaction.fiscal["submitted"]
  credits,      \* LedgerEntry rows of a top-up for this invoice
  lead,         \* amoCRM: the status text on the lead
  moved,        \* amoCRM: the lead was put into the paid stage
  noted,        \* amoCRM: a note on the lead says the invoice is paid
  synced,       \* Invoice.crm_synced_at
  elements,     \* amoCRM: how many catalog elements were made, numbered from 1
  bill,         \* Invoice.amo_bill_id, 0 when there is none
  linked,       \* amoCRM: elements linked to the lead
  billPaid,     \* amoCRM: elements that say paid
  rows,         \* WebhookDelivery of each event: "none", "open", "delivered"
  payload,      \* the invoice status inside each event
  received,     \* events the endpoint has received
  deaths

outside == <<receipt, lead, moved, noted, elements, linked, billPaid, received>>
ours    == <<submitted, credits, synced, bill, rows, payload>>
vars    == <<setup, status, hooks, queue, worker, outside, ours, deaths>>

Events   == {"paid", "refunded", "cancelled"}
Statuses == {"pending", "paid", "refunded", "cancelled"}
Plain    == {"receipt", "post_link", "make_bill", "bill_paid", "sync_paid", "sync_refunded"}
Messages == [task: Plain, event: {""}, tries: 0 .. MaxRetries]
              \cup [task: {"deliver"}, event: Events, tries: 0 .. MaxRetries]
Hooks    == [event: Events, step: {"receipt", "credit", "emit", "sync"}]
Idle     == [step |-> "idle"]
Running  == [step: {"call", "call2", "save", "link"}, msg: Messages,
             seen: Nat]   \* the bill id it has, or 1 for a delivery that was answered

Message(task, event) == [task |-> task, event |-> event, tries |-> 0]

TypeOK ==
  /\ setup \in Setups /\ status \in Statuses
  /\ hooks \subseteq Hooks /\ queue \subseteq Messages
  /\ worker \in [Workers -> {Idle} \cup Running]
  /\ credits \in Nat /\ elements \in Nat
  /\ lead \in {"", "awaiting", "paid", "refunded"}
  /\ {receipt, submitted, moved, noted, synced} \subseteq BOOLEAN
  /\ bill \in Nat /\ linked \subseteq Nat /\ billPaid \subseteq Nat
  /\ rows \in [Events -> {"none", "open", "delivered"}]
  /\ payload \in [Events -> Statuses \cup {""}]
  /\ received \subseteq Events /\ deaths \in 0 .. MaxDeaths

\* The invoice was just created; from amoCRM with its link note on the way.
Init ==
  /\ setup \in Setups
  /\ status = "pending"
  /\ hooks = {}
  /\ queue = IF setup.source = "amocrm" THEN {Message("post_link", "")} ELSE {}
  /\ worker = [w \in Workers |-> Idle]
  /\ credits = 0 /\ elements = 0
  /\ lead = ""
  /\ receipt = FALSE /\ submitted = FALSE
  /\ moved = FALSE /\ noted = FALSE /\ synced = FALSE
  /\ bill = 0 /\ linked = {} /\ billPaid = {}
  /\ rows = [e \in Events |-> "none"]
  /\ payload = [e \in Events |-> ""]
  /\ received = {} /\ deaths = 0

(***************************************************************************)
(* The commits, and the hooks they leave to the process.                   *)
(***************************************************************************)

\* Variant: the hook does not wait for a commit that may not come.
CommitOrNot(from, to, step) ==
  /\ status = from
  /\ status' \in {from, to}
  /\ hooks' = hooks \cup {[event |-> to, step |-> step]}
  /\ UNCHANGED <<setup, queue, worker, outside, ours, deaths>>

Commit(from, to, step) ==
  /\ status = from
  /\ status' = to
  /\ hooks' = hooks \cup {[event |-> to, step |-> step]}
  /\ UNCHANGED <<setup, queue, worker, outside, ours, deaths>>

MarkPaid      == Commit("pending", "paid", "receipt")
MarkRefunded  == Commit("paid", "refunded", "emit")
CancelInvoice == Commit("pending", "cancelled", "emit")

\* .delay() reaches the broker, or raises when it is down.
Advance(h, next) ==
  hooks' = (hooks \ {h}) \cup {[h EXCEPT !.step = s] : s \in next}

\* _after_paid begins with submit_fiscal_receipt.delay, which is not _safe.
HookReceipt(h) ==
  /\ h.step = "receipt"
  /\ \/ /\ queue' = queue \cup {Message("receipt", "")}
        /\ Advance(h, {IF setup.source = "topup" THEN "credit" ELSE "emit"})
     \/ Advance(h, {}) /\ UNCHANGED queue
  /\ UNCHANGED ours

\* _credit_topup looks for a ledger entry of the invoice before it credits.
HookCredit(h) ==
  /\ h.step = "credit"
  /\ credits' = IF credits = 0 THEN 1 ELSE credits
  /\ Advance(h, {})
  /\ UNCHANGED <<queue, submitted, synced, bill, rows, payload>>

\* _emit is _safe: a broker that is down leaves the row without its task.  The
\* hook reads the invoice again, so the event carries its status of now.
HookEmit(h) ==
  /\ h.step = "emit"
  /\ Advance(h, IF setup.source = "amocrm" /\ h.event # "cancelled" THEN {"sync"} ELSE {})
  /\ IF setup.endpoint
     THEN /\ rows' = [rows EXCEPT ![h.event] = "open"]
          /\ payload' = [payload EXCEPT ![h.event] = status]
          /\ queue' \in {queue, queue \cup {Message("deliver", h.event)}}
     ELSE UNCHANGED <<rows, payload, queue>>
  /\ UNCHANGED <<submitted, credits, synced, bill>>

HookSync(h) ==
  /\ h.step = "sync"
  /\ Advance(h, {})
  /\ queue' \in {queue, queue \cup
       {Message(IF h.event = "paid" THEN "sync_paid" ELSE "sync_refunded", "")}}
  /\ UNCHANGED ours

Hook ==
  \E h \in hooks :
    /\ HookReceipt(h) \/ HookCredit(h) \/ HookEmit(h) \/ HookSync(h)
    /\ UNCHANGED <<setup, status, worker, outside, deaths>>

(***************************************************************************)
(* Celery.  A task acknowledges its message when it ends; self.retry puts  *)
(* a new one into the queue, max_retries times.                            *)
(***************************************************************************)

Run(w, step, seen) == worker' = [worker EXCEPT ![w].step = step, ![w].seen = seen]

Ack(w, more) ==
  /\ worker' = [worker EXCEPT ![w] = Idle]
  /\ queue' = (queue \ {worker[w].msg}) \cup more

\* Variant: the last allowed retry is counted once too often.
RetryOnceMore(w) ==
  LET m == worker[w].msg
  IN  Ack(w, IF m.tries <= setup.retries THEN {[m EXCEPT !.tries = @ + 1]} ELSE {})

\* Variant: the task is put back as it was.
RetryForever(w) == Ack(w, {worker[w].msg})

Retry(w) ==
  LET m == worker[w].msg
  IN  Ack(w, IF m.tries < setup.retries THEN {[m EXCEPT !.tries = @ + 1]} ELSE {})

\* Variant: sync_invoice_paid trusts that its invoice is still paid.
LeadKnowsUnread == synced

\* sync_invoice_paid reads the invoice again, at every try.
LeadKnows == synced \/ status # "paid"

\* What a task looks at before its first call, and may end on.
NothingToDo(m) ==
  CASE m.task = "receipt"   -> ~setup.fiscal \/ submitted
    [] m.task = "sync_paid" -> LeadKnows
    [] m.task = "make_bill" -> bill # 0
    [] m.task = "bill_paid" -> bill = 0
    [] m.task = "deliver"   -> rows[m.event] = "delivered"
    [] OTHER                -> FALSE

\* The message may be running in another worker already.  The amoCRM tasks also
\* end when no connection is active or the lead is gone.
Start(w) ==
  /\ worker[w] = Idle
  /\ \E m \in queue :
       \/ /\ NothingToDo(m) \/ m.task \notin {"receipt", "deliver"}
          /\ queue' = queue \ {m}
          /\ UNCHANGED worker
       \/ /\ ~NothingToDo(m)
          /\ worker' = [worker EXCEPT ![w] = [step |-> "call", msg |-> m, seen |-> bill]]
          /\ UNCHANGED queue
  /\ UNCHANGED <<setup, status, hooks, outside, ours, deaths>>

\* A call has its effect and is answered, has it and is not answered, or has not.
Answers == {"ok", "lost", "failed"}

At(w, task, step) ==
  /\ worker[w] # Idle
  /\ worker[w].msg.task = task
  /\ worker[w].step = step

\* After a call that was answered go on with `step`, otherwise retry the task.
Then(w, a, step) ==
  IF a = "ok" THEN Run(w, step, worker[w].seen) /\ UNCHANGED queue ELSE Retry(w)

\* Variant: submit_fiscal_receipt marks the receipt before it sends it.
SubmitReceiptMarked(w, a) ==
  /\ At(w, "receipt", "call")
  /\ submitted' = TRUE
  /\ receipt' = (receipt \/ a # "failed")
  /\ Ack(w, {})
  /\ UNCHANGED <<lead, moved, noted, elements, linked, billPaid, received,
                 credits, synced, bill, rows, payload>>

SubmitReceipt(w, a) ==
  \/ /\ At(w, "receipt", "call")
     /\ receipt' = (receipt \/ a # "failed")
     /\ Then(w, a, "save")
     /\ UNCHANGED <<lead, moved, noted, elements, linked, billPaid, received, ours>>
  \/ /\ At(w, "receipt", "save")
     /\ submitted' = TRUE
     /\ Ack(w, {})
     /\ UNCHANGED <<outside, credits, synced, bill, rows, payload>>

PostLinkNote(w, a) ==
  /\ At(w, "post_link", "call")
  /\ lead' = IF a = "failed" THEN lead ELSE "awaiting"
  /\ IF a = "ok"
     THEN Ack(w, IF setup.bills THEN {Message("make_bill", "")} ELSE {})
     ELSE Retry(w)
  /\ UNCHANGED <<receipt, moved, noted, elements, linked, billPaid, received, ours>>

\* create_bill: the element, its id, then the link to the lead.
CreateBill(w, a) ==
  \/ /\ At(w, "make_bill", "call")
     /\ elements' = IF a = "failed" THEN elements ELSE elements + 1
     /\ IF a = "ok" THEN Run(w, "save", elements + 1) /\ UNCHANGED queue ELSE Retry(w)
     /\ UNCHANGED <<receipt, lead, moved, noted, linked, billPaid, received, ours>>
  \/ /\ At(w, "make_bill", "save")
     /\ bill' = worker[w].seen
     /\ Run(w, "link", worker[w].seen)
     /\ UNCHANGED <<queue, outside, submitted, credits, synced, rows, payload>>
  \/ /\ At(w, "make_bill", "link")
     /\ linked' = IF a = "failed" THEN linked ELSE linked \cup {worker[w].seen}
     /\ IF a = "ok" THEN Ack(w, {}) ELSE Retry(w)
     /\ UNCHANGED <<receipt, lead, moved, noted, elements, billPaid, received, ours>>

MarkBillPaid(w, a) ==
  /\ At(w, "bill_paid", "call")
  /\ billPaid' = IF a = "failed" THEN billPaid ELSE billPaid \cup {worker[w].seen}
  /\ IF a = "ok" THEN Ack(w, {}) ELSE Retry(w)
  /\ UNCHANGED <<receipt, lead, moved, noted, elements, linked, received, ours>>

\* update_lead, the note, then crm_synced_at and the bill it read at the start.
SyncInvoicePaid(w, a) ==
  \/ /\ At(w, "sync_paid", "call")
     /\ lead' = IF a = "failed" THEN lead ELSE "paid"
     /\ moved' = (moved \/ a # "failed")
     /\ Then(w, a, "call2")
     /\ UNCHANGED <<receipt, noted, elements, linked, billPaid, received, ours>>
  \/ /\ At(w, "sync_paid", "call2")
     /\ noted' = (noted \/ a # "failed")
     /\ Then(w, a, "save")
     /\ UNCHANGED <<receipt, lead, moved, elements, linked, billPaid, received, ours>>
  \/ /\ At(w, "sync_paid", "save")
     /\ synced' = TRUE
     /\ Ack(w, IF worker[w].seen # 0 THEN {Message("bill_paid", "")} ELSE {})
     /\ UNCHANGED <<outside, submitted, credits, bill, rows, payload>>

SyncInvoiceRefunded(w, a) ==
  /\ At(w, "sync_refunded", "call")
  /\ lead' = IF a = "failed" THEN lead ELSE "refunded"
  /\ IF a = "ok" THEN Ack(w, {}) ELSE Retry(w)
  /\ UNCHANGED <<receipt, moved, noted, elements, linked, billPaid, received, ours>>

\* webhooks.mark saves the row it read: a failed run that overlaps a successful
\* one takes delivered_at back.
DeliverWebhook(w, a) ==
  LET e == worker[w].msg.event
  IN  \/ /\ At(w, "deliver", "call")
         /\ received' = IF a = "failed" THEN received ELSE received \cup {e}
         /\ Run(w, "save", IF a = "ok" THEN 1 ELSE 0)
         /\ UNCHANGED <<queue, receipt, lead, moved, noted, elements, linked, billPaid, ours>>
      \/ /\ At(w, "deliver", "save")
         /\ rows' = [rows EXCEPT ![e] = IF worker[w].seen = 1 THEN "delivered" ELSE "open"]
         /\ IF worker[w].seen = 1 THEN Ack(w, {}) ELSE Retry(w)
         /\ UNCHANGED <<outside, submitted, credits, synced, bill, payload>>

Task(w) ==
  /\ \E a \in Answers :
       \/ SubmitReceipt(w, a) \/ PostLinkNote(w, a) \/ CreateBill(w, a)
       \/ MarkBillPaid(w, a) \/ SyncInvoicePaid(w, a)
       \/ SyncInvoiceRefunded(w, a) \/ DeliverWebhook(w, a)
  /\ UNCHANGED <<setup, status, hooks, deaths>>

Celery == \E w \in Workers : Start(w) \/ Task(w)

(***************************************************************************)
(* A process dies.  A web process takes its hook along; the message of a   *)
(* task stays in the queue when the whole worker stopped, and is gone when *)
(* only the pool process was killed.                                       *)
(***************************************************************************)

Die ==
  /\ deaths < MaxDeaths
  /\ deaths' = deaths + 1
  /\ \/ \E h \in hooks : hooks' = hooks \ {h} /\ UNCHANGED <<queue, worker>>
     \/ \E w \in Workers : /\ worker[w] # Idle
                           /\ worker' = [worker EXCEPT ![w] = Idle]
                           /\ queue' \in {queue, queue \ {worker[w].msg}}
                           /\ UNCHANGED hooks
  /\ UNCHANGED <<setup, status, outside, ours>>

Next == MarkPaid \/ MarkRefunded \/ CancelInvoice \/ Hook \/ Celery \/ Die

Spec == Init /\ [][Next]_vars

\* Processes and workers go on; payments, refunds and deaths need not happen.
FairSpec == Spec /\ WF_vars(Hook) /\ WF_vars(Celery)

(***************************************************************************)
(* Properties                                                              *)
(***************************************************************************)

\* What our rows say was done outside was done, however the tasks failed,
\* died or overlapped: the receipt is at Click, the lead was moved and noted,
\* the bill is in amoCRM, the endpoint has the event.  Nothing looks again
\* at what a row says is done.
RecordedMeansDone ==
  /\ submitted => receipt
  /\ synced => moved /\ noted
  /\ bill <= elements
  /\ \A e \in Events : rows[e] = "delivered" => e \in received

\* Nobody outside hears of something that has not happened, and an event
\* never carries a status from before it.
Happened(e) == e = status \/ (e = "paid" /\ status = "refunded")

NotAhead ==
  /\ lead \in {"paid", "refunded"} => Happened(lead)
  /\ moved \/ noted \/ billPaid # {} \/ receipt \/ credits > 0 => Happened("paid")
  /\ \A e \in received : Happened(e) /\ payload[e] \in {e, status}

\* Once the invoice is refunded and its lead does not say paid, only a sync that
\* read the invoice while it was paid, and is still running, can make it say so.
Overtaken == \E w \in Workers : worker[w] # Idle /\ worker[w].msg.task = "sync_paid"

RefundNotUndone ==
  [](status = "refunded" /\ lead # "paid" /\ ~Overtaken => [](lead # "paid"))

\* Whatever fails or dies, the queue empties: no task is retried for ever.
Drains == <>[](queue = {} /\ hooks = {})
=============================================================================
