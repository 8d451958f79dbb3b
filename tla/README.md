# uzbridge in TLA+

uzbridge connects Uzbek companies' amoCRM accounts and Odoo databases to the
payment providers Payme, Click and Uzum, to SMS gateways and to Google Sheets.
This directory holds a formal model of its backend (`src/backend`: Django, Celery,
PostgreSQL) and of the Odoo add-on (`src/odoo_addons`), the TLC runs that check it,
and TLAPS proofs of the main properties of its core.

## The system

The backend is a set of web workers (gunicorn) and Celery workers over one
PostgreSQL database at READ COMMITTED. There are no transactions around whole
requests (`ATOMIC_REQUESTS` is off): each handler opens its own
`transaction.atomic()` and locks rows with `select_for_update`. A Celery message
stays in the queue until its task ends (`CELERY_TASK_ACKS_LATE`), so that a task may run
twice; when only the pool process that runs it is killed, the message is acknowledged and
gone, since `CELERY_TASK_REJECT_ON_WORKER_LOST` is not set. A scheduler starts `renew_due` every
15 minutes, `pull_all_sheets` and `expire_bookings` every 5 minutes,
`run_due_automations` every minute and the amoCRM token refresh every hour.

| Component | State | Operations | Talks to | What is hard | Correct when |
|---|---|---|---|---|---|
| `payments/services.py`, `models.py` | `Invoice.status`, `paid_via`; `ProviderTransaction.state` | create, `mark_paid`, `mark_refunded`, `cancel_invoice`, `refund_invoice` | providers; after a commit: fiscal receipts, SMS, webhooks, amoCRM, billing top-up | several providers race for one invoice; refunds leave the database half-way; hooks are lost with their process | an invoice is settled once, by one transaction, and refunded only when the money went back; what a row says was done was done |
| `payments/providers/payme.py` | Payme rows | Create, Perform, Cancel, Check | called by Payme | a 12-hour limit; two transactions per Create; late Cancel | one open transaction per invoice; a Cancel touches only its own payment |
| `payments/providers/click.py` | Click rows | Prepare, Complete, `reverse`, `submit_fiscal` | called by Click, calls its Merchant API | Complete comes after the debit and is repeated | a debited customer is answered or gets the money back |
| `payments/providers/uzum.py`, `tasks.py` | Uzum rows | `redirect_url`, `verify`, `refund` | unsigned callbacks, status calls | the status is read before the locks; duplicates are refunded after the commit | a stale status does not undo a later step |
| `billing/` | balance, period, paid units, grace, pause | `ensure_paid`, `renew`, `credit`, switches, operator actions | payments (top-up), SMS and amoCRM (what is switched on) | counting before locking; scheduled and on-commit renewals; operators | never charged beyond the balance; paused only for an unpaid period |
| `amocrm/oauth.py`, `client.py` | tokens, connection status | connect, refresh, 401 retry, disconnect | amoCRM | the refresh token works once; calls that took effect and were not answered | a working connection is not lost, one given up does not come back |
| `amocrm/tasks.py`, `views.py`, `widget_api.py` | automation jobs, lead links, sync marks | jobs, lead webhooks, paid and refunded sync | payments, SMS | at-least-once tasks, claims, check-then-create | a job runs once; an open link is not doubled |
| `realty/` | a unit's status, deal, booking limit, `sheet_status` | attach, detach, deal stages, site edits, sheet pull, booking timer | amoCRM, Google Sheets | the sheet is read and written without a lock | no booking is lost or given twice |
| `sms/` | messages, delivery status, templates, keywords | five ways to queue, the task, delivery reports | gateways, Odoo | redelivery, early and late reports | a message says only what happened to it, and is not sent again once settled |
| `developer/` | API keys, endpoints, deliveries | public invoice and SMS API, webhooks | Odoo and the company's own systems | check-then-create, lost answers, unordered delivery | a repeated call gets the same invoice |
| `odoo_addons/uzbridge` | payment transactions, refunds, SMS trackers | render, return page, webhooks, refunds, Connect | `developer/` | the same fact comes by two ways, late or never | Odoo believes what happened and books it |
| `accounts/`, `core/` | companies, members, sessions, hand-off tokens | sign-in, switch company, ending sessions | all | one-time tokens; one browser session for several companies | a token signs in once; who is let in proved it; an ended session stays ended |
| `documents/`, `amocrm/files.py` | templates, counters, documents, files | make, re-make, attach, edit, delete | amoCRM, LibreOffice | the text is made outside the lock, files between commits | a document says its own number and stays |
| `audit/`, `core/crypto.py`, `core/masking.py`, `frontend/`, `widget/`, `deploy/` | log rows; none | append; clients and scripts | - | nothing concurrent that another part reads | - |

## Modules

| Module | What it is |
|---|---|
| `InvoiceLifecycle` | What the payment core promises about an invoice: pending, then paid by one provider or cancelled; refunded only after it was paid. |
| `Payments` | The payment core: invoices and the transactions of the three providers. |
| `PaymentsProofs` | TLAPS: its inductive invariant, its safety properties, and that it implements `InvoiceLifecycle`; for `Routing`, that money reaches the right cash desk. |
| `Routing`, `Receipts` | Operators: which account may take a payment, and the lines of an invoice on their way to each provider's receipt. |
| `AfterPayment`, `AfterPaymentProofs` | The hooks and tasks after a payment, refund or cancellation of one invoice. TLAPS: all of its invariants, that a refund is not undone, and that it implements `InvoiceLifecycle`. |
| `Billing`, `BillingProofs` | The tariff of one company: balance, period, grace and pause, and the accounts it is charged for. TLAPS: typing, the pause invariant, and that charges are covered. |
| `Realty`, `RealtyProofs` | The units of a project with a Google Sheet: the deal, the site, the sheet and the booking timer move them. TLAPS: its inductive invariant, and that a unit is neither handed over nor taken from a running booking. |
| `Sheet` | Operators: the sheet as a whole table, and the numbers in it. |
| `Celery` | The queue and the workers; `Sms` and `Automation` extend it. |
| `Sms` | Messages, their gateways and reports, and Odoo's trackers. |
| `Keywords`, `LeadFields` | Operators: the keywords of a text, and our custom fields in an amoCRM account. |
| `Automation` | What one lead sets off: Digital Pipeline jobs and the link stage. |
| `AmoTokens`, `AmoTokensProofs` | The connection to one amoCRM account and its single-use token. TLAPS: that the stored pair works, and who brings a connection back; for `Throttle`, its limits. |
| `Throttle` | Operators: the throttle before every request to amoCRM. |
| `OdooPayments`, `OdooPaymentsProofs` | The public API with its main client, the Odoo add-on. TLAPS: all of its invariants, and that it implements `InvoiceLifecycle`; for `Connection`, who hears of whose payments. |
| `Connection` | Operators: keys and endpoints on the site, and what each Odoo company keeps. |
| `Sessions`, `SessionsProofs` | Signing in to companies and ending sessions. TLAPS: all of its invariants. |
| `Rendering`, `DocumentValues` | Operators: filling the keywords of a document, amounts in words, bindings. |
| `Documents` | Numbering, making, attaching and deleting. |
| `LeadProofs` | TLAPS, for `Automation`, `Sms` and `Documents`, which share no variable but Celery's: all the safety properties of their runs. |
| `MC*` | Instances for TLC. Each also holds the `ASSUME`s that check the operators of its component on bounded inputs. |

How the modules join: `Payments`, `AfterPayment` and `OdooPayments` are each proved to
implement `InvoiceLifecycle`, so that they agree on what an invoice may do; a webhook that
`OdooPayments` may get at any time, repeated and out of order, is what `AfterPayment`
does to an endpoint; a message that `Automation` queues is one of `Sms`; `Billing`
is told of a top-up by the credit hook of `AfterPayment`. No module depends on
another one's bounds.

In every module a database transaction that locks what it reads is one action. A
handler that commits, calls another service or reads before it locks is cut there, and
what it remembers waits in a variable of the process (`job`, `worker`, `proc`,
`call`). Operations whose guard fails answer with an error and change nothing, so
they have no action. A call over the network has its effect and is answered, has it
and is not answered, or does not have it.

### Payments

`status`, `paidVia` are columns of `Invoice`; `state` of `ProviderTransaction`
(`"none"` while there is no row); `aged` says that a row is older than its limit
(12 h at Payme, the part of the session in which an Uzum order is reused).
`remote` is the other side: whether the provider holds the customer's money.
`settledBy` is a history variable, the transaction handed to `mark_paid`.

The cuts are in Payme's CreateTransaction (lookup, then insert), Uzum's redirect
(read, register, insert), `verify` (status call, then locked apply, then the
on-commit refund), and `refund_invoice` (unlocked checks, provider call, booking).
`Abort` drops the rest of a half-way handler, for a process that dies or a call
that fails.

Three facts about the providers are assumed, and come from how the code uses them:
Click sends Complete with a non-negative error only after it debited the
customer, and returns the money when that Complete is refused; a repeat of a Complete that was
performed is answered with the same -4 but with a `merchant_confirm_id` (`click.py:156-157`), and
Click takes that for confirmed; Click's `reverse` and Uzum's `refund` succeed only for money
that is still there. If the second is wrong, a customer whose
Complete was answered and is repeated gets the money back for an invoice that stays paid.

`Routing` has `may_take`, `invoice_for`, the accounts a customer is offered, the
authorisation and CheckPerform of Payme, and saving an account. `Receipts` has
amounts as they are typed and shown, Odoo's lines, the checks of the API, and the
lines each provider gets.

### AfterPayment

`hooks` are the `on_commit` callbacks that a process has still to run, one after the
other (`HookReceipt`, `HookCredit`, `HookEmit`, `HookSync`, in the order of
`_after_paid`); `Die` takes one along. `queue` holds Celery messages until their task ends,
so that two workers may run one message at once; a worker's `Die` leaves its message there or
takes it along. `receipt`, `lead`, `moved`,
`noted`, `elements`, `linked`, `billPaid` and `received` are facts outside; `submitted`,
`credits`, `synced`, `bill` and `rows` are our columns about them. The tasks are
`submit_fiscal_receipt`, `post_link_note`, `create_bill`, `mark_bill_paid`,
`sync_invoice_paid`, `sync_invoice_refunded` and `deliver_webhook`, each cut at its calls
and its save. `setup` chooses the case: where the invoice comes from, whether there
is a receipt, an endpoint, bills, and how often tasks are retried.

### Billing

`on` and `live` are the rows (`is_enabled` or `docs_enabled`, and having keys or an
active connection); the rest are billing columns of `Company`. `left` is
`period_end - now` and `overdue` is `now - overdue_since`, in ticks. A request
that switches an account is two actions: `SaveRow` saves the row and counts the
accounts (`apply_change`), which no lock protects and no other request sees;
`EnsurePaid` charges with the company locked and commits. `Units`, `Price`,
`MonthlyFee`, `UpgradeCost` and `RoundedRatio` are the arithmetic of the source,
banker's rounding included. `RenewDue` is the scheduled task and
`RenewAfterCredit` the on-commit hook of `credit`.

A company that is the platform itself is never billed and is left out, and so are
`is_active` (no billing state depends on it), price edits, the grandfather command and
the admin change form.

### Realty and Sheet

`status`, `deal` (the connection and lead, which the code always sets and clears together),
`until`, `sent` and `archived` are columns of `Unit`; `timed` says that the
project's `booking_hours` is not 0. `stage` is amoCRM's and `cell` the sheet's.
The operations under a row lock are one action: `Attach`, `Detach` (the
showroom), `SaveUnit` (the site), `OnStage`, `Expire` and `Sync`. What a task read
before it took the lock waits in `job[w]`: the stage that `lead_moved` was told
(`LeadMoved`, then `OnStage`), the list of due bookings (`ListDue`, then `Expire` for
each unit, which looks again), and the values of the sheet (`ReadSheet`, `Sync`,
then `WriteBack` of the words that differ). Two pulls may overlap: the cache key
that separates those of the backend expires, and the sheet's own script does not take it.
`Abort` is a worker that dies or a service that does not answer.

In `Realty` a unit is one that a first sync has created, only the status cell of its
row is modelled, and rows do not change places. `Sheet` has what that leaves
out, without the interleaving: `_num`, new units, rows without an id, a second row
of an id, unknown words, cells Google leaves out at the end of a row, columns that are
not there, the column letters of the write-back, and a sheet made from the units.

### Sms

A message is a row `[status, account, id]`; `taken` are the sms the gateway took, each
with an id of its own, and the report it will always repeat. The five ways to queue one
differ in the account they prefer (`SendTest`, `SendFromCard`, `SendSmsTemplate`,
`Auto`, `SendSms`). `dropped` (of `Celery`) is a history variable: the messages that went with a killed
process. `Start` looks at the row before the call, `CallGateway` is the call
in all its outcomes, `SaveSent` and `SaveFailed` what is recorded after it. `Report` moves every
message of that id, whoever holds it. `tracker` and `events` are Odoo's side. Accounts,
the default and the templates change at any time.

### Automation

`job` is `AmoAutomationJob`: `"waiting"` for its delay, `"due"`, then `"claimed"` (the
UPDATE of `done_at` that one worker wins) and `"done"`. `DpHook` is the Digital
Pipeline call, `RunDueAutomations` the beat, `LeadHook` the hook of the link stage,
`WidgetCreate` a manager's link. Between looking for an open link and making one a
worker calls amoCRM, so the two are two actions.

### AmoTokens

A pair of tokens is a number; `live` are those amoCRM takes, `row` is the
`AmoConnection` with its company, pair, status and age, `locker` the process that
holds it while it asks amoCRM. `RefreshBegin` to `RefreshFail` are `oauth.refresh`
with every way its call can end; `RefreshExpiringTokens` is the hourly task (which forces)
and `Request` a request that finds its tokens due or meets a 401; the `Connect`
actions are `services.connect`. `Disconnect` ends it in the dashboard; `Revoke` is the integration
switched off in amoCRM, after which `UninstallRead` and `UninstallSave` are the hook, which reads the
row without a lock and saves the status whatever became of the row since. `gone`
is a history variable: pairs that were revoked or whose answer was lost, for which nothing is
promised; so is `givenUp`: the company disconnected and nobody connected since.

### OdooPayments

The server's side is `status`, `reference`, `amount`, the endpoint's `secret` and the
`events` on their way; `call` is a POST that has looked for the reference and has not yet
created (`LookUp`, `CreateInvoice`). Odoo's side is `txState`, `txRef`, `booked`,
`fetched` (what the return page has read and not yet applied) and `refund`. A
refund is cut as Odoo cuts it: its transaction is not visible to the webhook until the call has
returned (`AskRefund`, `RefundCall`, `RefundAnswered`). `MayBecome` says which states
Odoo lets a transaction leave; that is Odoo's own code, modelled from how the add-on uses it.

### Sessions

`session` are Django's sessions by key with the companies they were granted, `rows` the
`UserSession` rows, `cookie` what each browser holds for each host. A sign-in is cut into
`Login` (loads or flushes the session), `Grant` (saves it), with one device at a time
`ListOthers`, `EndOthers` and `ClearOthers` (the keys of the user's other devices are listed, their sessions
deleted, then the rows by a second query), `PutRow` and `Answer` (the middleware's second save),
with the redemption of a hand-off token before. Those who end sessions run between any two of
these, and are cut where their queries are: `EndSession`, `EndKey` for one device of the list,
`EndSessions` for the platform's admin, `Block`, `EndBlocked` for a blocked company, and `ClearRows`, which
looks for the rows again, for all of them; `sweep` is what is left to delete. `DeleteSelected`
is the admin's bulk delete, which leaves the session. `proved` and `ended` are history
variables; `ended` are keys whose session somebody deleted.

### Documents

The template has a counter, a prefix, a kind (Word or made on the site), and what it binds to
`{number}`, if anything; a document its number, values, text and file. There are two
keywords, `{number}` and one that is read from the lead (`Filling`). `GenerateStart` renders with the
number shown first, `GenerateNew` takes the real number under the lock and, when it is not what
`{number}` has, puts it in place of every value that is equal to that (`Refilled`) and fills again;
`GenerateAgain` re-makes; `Upload`, `Attach` and `Record` put the file into amoCRM. `EditSave`
saves every column it read before, `Delete` meets `on_delete=PROTECT`. `Rendering` is
the filling itself: the run-by-run replacement in a Word paragraph and
the replacement in one text.

## Runs

| Run | Result | What it shows | Bounds |
|---|---|---|---|
| `payments` | passes | `PaidIsBacked`, `OneSettlement`, `OneOpenPayme`, `RefundReturnsMoney` and the refinement `RefinesLifecycle`; operators of `Routing` and `Receipts` | one invoice, two Payme, one Click, two Uzum payments, two half-way handlers; symmetry over ids of one provider and over workers |
| `click_debits` | passes | `ClickDebitAnswered`, under fairness | one Payme, two Click, one Uzum payment, one handler |
| `billing` | passes | `PausedOnlyUnpaid`, `ChargesCovered` and, under fairness, `TopUpRenews` | a merchant account and a connection, two requests, period 3, grace 2, balances -2..8 |
| `realty` | passes | `LooseUnits`, `NoTakeOver`, `BookingHeld` (what may end a running booking: a detach from its deal, a stage read for its deal, the site closing the unit, a cell that differs from what was exchanged); operators of `Sheet` | one unit, two deals, two half-way tasks; a stage that books, one that frees, one that sets nothing; people type free, reserved or delete the row |
| `after_payment` | passes | `RecordedMeansDone`, `NotAhead`, `RefundNotUndone` and, under fairness, `Drains` | one invoice in the setups of `MCAfterPayment`, two workers, one retry, one death |
| `odoo` | passes | `AnswerFits`, `RepeatIsSame`, `OdooIsRight`, `TakenIsBooked`; operators of `Connection` | one transaction, two callers, two invoices, two amounts, one secret; symmetry over callers and invoices |
| `sms` | passes | `SentWasTaken`, `SettledIsLeft` and, under fairness, `QueuedIsDelivered` (but for tasks whose process was killed); operators of `Keywords` and `LeadFields` | one account, one message, two workers, one retry, one death, two sms taken |
| `automation` | passes | `JobRunsOnce`, `LinkStands` and, under fairness, `DueIsClaimed` | one job, two links, two messages, two stages, two workers, one death |
| `tokens` | passes | `PairWorks`, `BackOnlyByConnect` and, under fairness, `KeptFresh`; operators of `Throttle` | two companies, two processes, three pairs, one death |
| `sessions` | passes | `HandoffOnce`, `OnlyProven`, `EndedIsOut` | two users, two companies on one host, two browsers, one token, two processes that sign in and one that ends sessions, three sign-ins (two of them when a token was issued: `MCBound`), one change of members, blocks, settings or sessions; symmetry over users, browsers, processes and companies |
| `documents` | passes | `TextIsFilled`, `FilesTab`, `DocumentsKept`; operators of `Rendering` and `DocumentValues` | two leads, two processes, numbers to 2, two documents, two files, one text; a binding of `{number}` that is there at first or not, that forms take away and one text at a time has (`MCBound`); a lead named like the first number; symmetry over leads and processes |
| `refunds` | violation | `RefundedMeansReturned`: `verify` of a refunded duplicate, or `refund_invoice` taking the last performed order, turns the invoice to refunded while the payment that settled it stays | one Payme, one Click, two Uzum |

Why these bounds are enough:

- `payments`: no operation reads or writes two invoices, `InvoiceOf` keeps their
  transactions apart, and the proofs cover any number. Two transactions of a provider are
  needed for every race between equals (a repeated Create, two Uzum orders), one of
  each other kind for every race between providers. Two handlers half-way let any two
  overlap, with one-step requests between them.
- `billing`: a period of 3 ticks is longer than the grace of 2, as 30 days are longer than
  3, and every fraction of a period occurs. `MaxLate` is the longest time a period can
  have been over; 2, less than a period, says that the scheduler is never out for a
  whole period. With a longer outage `renew` leaves the new period in the past and the next
  scheduled run charges again, as the code does, so `TopUpRenews` would need several charges.
  Balances outside `MinBalance .. MaxBalance` are cut by a guard on `Credit` alone.
- `realty`: no operation decides about a unit from another one, and the proofs
  cover any number; two deals are needed to hand a unit over, two tasks for what
  one read to become old while the other commits. `"unknown"` and the other words add
  states, not cases: the first is ignored like a word already exchanged, and a typed
  sold or interest differs from reserved in no branch of `sync`.
- `after_payment`, `sms`, `automation`: two workers run one message twice at once, one
  death loses a step, one retry (none in `automation`, whose job is not retried, so that
  the claim is what is tested) makes a later run of the same message. More of each
  repeats the same.
- `tokens`: two companies and two processes give every overlap of a refresh, a
  connect and an end; three pairs are the first, the one that replaces it, and one that
  a late process may store over it.
- `odoo`: the second caller and the second invoice are what check-then-create can get
  wrong; `MaxSecrets` 1 says that Connect is pressed once (a second press is in the
  assumptions about `Connection`).
- `sessions`: two of each kind are needed for one to enter with the other's; three
  sign-ins let a second begin in the session of a first while a third takes its device away, and an
  operator works between their queries. `MCBound` leaves out the third sign-in when there is a
  token, whose race needs two; the proofs have no such bound.
- `documents`: two processes share one template and one lead, or two; two numbers are
  what they compete for. `MCBound` leaves out two texts with a binding at once: a binding is a
  value like any other, and what two processes compete for is the number. The proofs have no such
  bound either.

Deadlock is checked in `billing` and `realty`. The other runs use up ids, and the system then
rests, so there it is off.

### What the assumptions check

Pure parts are operators, and each `MC` module asks them of every input up to a bound
(`ASSUME`, evaluated when its run starts):

- `MCPayments`: `OneCashDesk` (of the accounts that share a choice at most one of a provider
  takes a payment), `OfferedWillTake` (what a customer is offered will take the payment and can
  prove itself), `OnHasKeys`, `MoneyReadsBack`, `ReceiptIsForPaid` (every provider's
  receipt adds up to what is paid, whatever lines Odoo has).
- `MCSms`: `SaveIsWhole`, `OdooFillsAlike` (Odoo's keyword-by-keyword filling makes the text of
  the site's one pass, as long as no value holds a keyword), `OdooOffersApproved`,
  `FieldsMadeOnce` (our fields are never made twice in an amoCRM account), `ValuesDiffer`.
- `MCDocuments`: `EverySplit` (however Word splits a text into three runs, it is filled as
  one text), `WordsSayAmount`, `BindingsStand`.
- `MCAmoTokens`: `WindowsKeepLimit`, `LocalKeepsLimit`, `LonePasses`.
- `MCOdooPayments`: `ConnectedHears`, `HearsOwn` (after any three connects, disconnects, lost
  answers and revoked keys).
- `MCRealty`: `NumbersRead`, `SyncSettles` (once a sync has written back, sheet and units agree,
  and later changes of ours stay), the column letters, `MadeReadsBack`.

### Fairness

`Payments`: Click repeats Complete until it is answered (weak fairness of
`Complete` and `CompleteFailed`); a handler that is half-way goes on unless it is
aborted (weak fairness of `Step(w)`); Uzum's callback and the redelivered task
ask for the status of a paid order again (strong fairness of `FetchStatus` for a
taken payment, since the worker may be busy in between). Customers, Payme's
choices, the dashboard and `Age` owe nothing.

`Billing`: the beat schedule runs `renew_due` (weak fairness of `RenewDue`), and a
half-way request ends. Operators, switches, credits and the clock owe nothing.

`AfterPayment`: processes run their hooks and workers their tasks (weak fairness of
`Hook` and `Celery`); payments, refunds and deaths need not happen, and calls may fail
every time.

`Sms`: a worker takes what is queued and goes on (weak fairness of `Start(w)` and
`Deliver(w)`). Nothing makes the gateway take a message or report it.

`Automation`: a worker goes on with what it began; the queue is taken in its order, so that a
job's message is not passed over for ever by new link messages (strong fairness of
`StartsJob`, because the workers are busy now and then); the beat runs every minute.

`AmoTokens`: a process goes on with its refresh; those that wait for the row get it in
turn, as PostgreSQL queues them; amoCRM does not refuse a good token for ever; the beat runs
every hour. These are strong: each may be disabled for a while by others that hold
the row.

`Realty`, `OdooPayments`, `Sessions` and `Documents` state safety only and assume no fairness.

## Proofs

`PaymentsProofs` proves `TypeCorrect`, `PaidBacked`, `SettledOnce`,
`PaymeOneOpen`, `RefundsReturnMoney` and `Refinement` for all invoices,
transactions and workers. They assume `TxnsAssumption` (ids of the providers are
disjoint and `NoTxn` is none of them) and `InvoiceOfAssumption`. It also has what
`MCPayments` asks of `Routing` for every company: `OneDeskTakes`, for any accounts whose ids
differ, any choice, and whatever became of the accounts since (`Became`: an account keeps its
provider); `OfferedTake`, for any invoices of which company and number name one; and
`ShownReadsBack` for every amount.

The properties are not inductive alone. `IInv` adds `SettledRecord` (what
`settledBy` says about `status`), `PaidStands` (a paid invoice's transaction is
performed and of its provider), `ClickDebited` (a performed Click transaction
holds, or has given back, the customer's money) and `ClickRefunds` (a refund that
has been reversed at Click and not yet booked still concerns the transaction
that settled its invoice). The last is what makes the unlocked booking of
`refund_invoice` safe: between the reverse and the booking no other handler can
settle the invoice again. The step proof classifies the actions by what they do to
the books - nothing, open or close a row, settle, refund, perform a duplicate, cancel -
and shows each class preserves every conjunct, so an action only has to be shown to
be of its class.

`BillingProofs` proves `TypeCorrect`, `PausedUnpaid` and `ChargesAreCovered` for
any accounts, prices, periods and bounds. They assume that accounts are finitely
many and have a kind, that prices are naturals and that a period is positive.
`PausedOnlyUnpaid` is inductive together with the type.

`RealtyProofs` proves `TypeCorrect`, `Loose`, `Exclusive` and `Held` for any units,
deals, stages, words and tasks, assuming that `NoDeal` is no deal and that a stage is
configured to set a status or nothing. `LooseUnits` is inductive together with the type;
the argument goes through `set_status`, which every operation but `sync` calls,
in one lemma that says what it needs of the deals it is handed: `attach`
passes them already changed, and stays loose because a closed unit has no deal
that could equal the caller's. `Held` and `Exclusive` are facts about
single steps: an expiry looks at the unit again under the lock, and `on_stage` looks
up the units of the deal under the lock. `Held` names all that ends a running booking; it does not say that a
person wanted it: the site may close a reserved unit (`realty/api.py:212-214` refuses only to free
it), a stage may be older than the deal's, and a cell may be older than our last word.

`SessionsProofs` proves `RedeemedOnce`, `EnteredProven` and `EndedStaysOut` for any
users, companies, browsers, hosts, tokens and processes, from `HostAssumption`,
`NoneAssumption` and `BoundAssumption`. `IInv` adds that a process that redeems a token holds its
row, open (`TokensHeld`); that keys above the last one issued stand for nothing
(`KeysIssued`), so that a new session is nobody's yet; that a key is held by one browser, in its
cookies or in a sign-in under way (`OneBrowser`); and that neither a session nor a sign-in
that will be saved holds a company that was not proved in that browser (`SessionsProven`,
`SignInsProven`). `EndedIsOut` is inductive only with `KeysIssued`: a save is an UPDATE of a
row that is there, and a new row has a new key. The steps that end sessions or rows - of a sign-in
or of an operator, in whatever order their queries come - are of one kind, which one lemma
(`SignOutLemma`) shows to keep `IInv`. It says nothing of sessions whose row alone was
deleted; see the disagreements below.

`OdooPaymentsProofs` proves every invariant of its run - `TypeCorrect`, `AnsweredRight`,
`RepeatedSame`, `OdooNeverAhead`, `AcknowledgedBooked` - for any transactions, invoices,
callers, amounts and secrets, from `NoneAssumption` and `SecretAssumption`. The argument is that invoices
only go forward (`Forward`), so that what a hook, an event, an answer or a page that was fetched
says of an invoice stays true until it is used (`HooksTrue`, `EventsTrue`, `AnswersFit`,
`FetchedTrue`), however late. `RepeatIsSame` needs `LookedRight`: a caller that found no live
invoice still has none when it creates one, because only it makes invoices for itself.
`Refinement` maps an invoice that is not made yet to one that waits, and every payment to one
provider; a refund asked for in Odoo is a step of an invoice because Odoo asks only for what it
knows the invoice of (`OdooTrue`).

Its second part is about `Connection`: `HeardByOwn` follows one Odoo database with any number of
companies through any `ConnectionStep`s - keys made and revoked, endpoints registered by
anybody at any URL, connects whose answer arrives or is lost, disconnects. `SoundWorld` is the
inductive invariant: secrets are never used twice, and a company of Odoo that keeps the secret
of an endpoint keeps a key of the company the endpoint is of, or one revoked since.
`LastConnectedHears` holds in every such state; that a second company with a key of
the same company takes its events over is among what it says.

`AmoTokensProofs` proves `StoredPairWorks` and `BackByConnectOnly` for any companies, processes,
pairs and deaths, from `NoneAssumption` and `BoundAssumption`. `IInv` says that whoever asks
amoCRM holds the row and the row still has the pair it read (`RowHeld`); that pairs on their way
to the row are distinct and not in it (`PairsApart`), so that a refresh spends none of them; and
that the pair of a connection that was given up does not work (`GoneIsDead`), which is why no
refresh that was on its way can bring it back. The invariant asks nothing of the uninstall hook, which may
save at any time. `WindowLimit` and `LocalLimit` are the limits of
`Throttle` for any requests, limit and resolution of time (`SecondAssumption`): the last request let
through in a window has been counted after all the others.

`AfterPaymentProofs` proves `TypeCorrect`, `RecordsAreTrue`, `NobodyHearsTooEarly`,
`RefundStays` and `Refinement` for any setups, workers, retries and deaths, from the three assumptions of
`AfterPayment`. `IInv` adds to the properties what a run of a task relies on when it goes on
after a call (`Relies`: the receipt was sent before `submitted` is saved, the stage moved before
the note, the element made before the row links it), which is what an acknowledgement lost by a
death does not take back, because the row is saved last; and that every hook, message and worker is
about an event that has happened (`AllTold`), with the payload of a delivery as it was when the event
happened or later. `RefundNotUndone` is a fact about single steps (`RefundedStep`): when the invoice is
refunded, its lead does not say paid and no run of `sync_invoice_paid` is half-way, every later
run reads `refunded` and leaves the lead alone.

`LeadProofs` has the theorems of three components, each with its own invariant.

- `Automation`: `TypeCorrect`, `JobsRunOnce` and `OpenLinkStands`, for any jobs, links, rows and
  workers, any number of retries and of deaths, from the assumptions of `Celery` and
  `Automation`. `IInv` adds that a job some worker is on is claimed and has that worker only
  (`Claims`), and that it has not yet made what it has not come to (`Unmade`). `LinkStands` is kept
  by `Guarded`: while the first link is open, no worker is between looking for an open link and
  making one (`Looked`), and whoever begins finds it.
- `Sms`: `SmsTypeCorrect`, `SentRowsAreTrue` and `SettledStays`, for any accounts, messages, workers
  and bounds. `SentWasTaken` is inductive with: the gateway's ids are its count and so distinct
  (`TakenOK`); a worker with an answer has the id of an sms taken for its own message (`HandTrue`),
  although the sms of an earlier run may have been taken too; events and the tracker say
  delivered of reported messages only (`OdooTrue`); and only a message that was queued has a task
  (`Begun`). A report goes by the id, so that it reaches the row of its own message or none
  (`RowTrue`): a failed row without an id can have no report.
- `Documents`: `DocumentsTyped`, `FilesAreTrue`, `DocumentsStay` and `TextsAreFilled`, for any leads,
  processes, prefixes, templates, bindings and bounds. `DocInv` says that a process that makes a
  document has the document's lead and number (`Owns`) and holds a file that is this document
  alone in one format, not yet in the tab while it attaches it. The argument is that rows keep
  their lead and number and that files never change once made (`DocsStay`, `FilesStay`): a new
  version of a file is the version it has, since it is of the same document and format. A
  template is there while it has a document (`TemplateStands`), because `PROTECT` looks again.
  `TextsAreFilled` assumes `ParagraphsFill`: filling the runs of a Word paragraph gives what filling
  its whole text gives. That is a fact about one fold over data, out of the prover's reach;
  `EverySplit` evaluates it for every way to split a text with two keywords and a stray brace into
  three runs, and all values of the run. The theorem adds what concurrency could break: that a
  text filled outside the lock is saved with the values and the number it was filled with, or
  filled again (`RefilledTyped`: filling the number that is there already changes nothing).
  `BindingsStay` is about `clean_bindings`, for any bindings: saving what was read changes nothing.

Only model-checked: all liveness properties (`ClickDebitAnswered`, `TopUpRenews`, `Drains`,
`QueuedIsDelivered`, `DueIsClaimed`, `KeptFresh`), the operators checked by assumptions
(`ParagraphsFill` among them; the theorems above cover `OneCashDesk`, `OfferedWillTake`,
`WindowsKeepLimit`, `LocalKeepsLimit`, `ConnectedHears`, `HearsOwn` and half of `MoneyReadsBack`
and `BindingsStand`), and the counterexample. Every other property a run checks is a
theorem. Liveness under fairness and ENABLED are outside what the prover does, and so is
what a fold or `SelectSeq` makes of a sequence: their definitions are not open to it, and the
library's induction theorems need an operator as a parameter. Where a least counterexample
among numbers is enough (`LeastOf`), induction was done without them.

## Findings

`refunds` (`payments/providers/uzum.py:145`, `payments/services.py:192-196`): two Uzum orders of one
invoice are paid; the first settles it, the second is a duplicate. When the duplicate is
refunded at Uzum, by us or from Uzum's cabinet, the next `verify` of it sees REFUNDED on a paid
invoice and marks the invoice refunded. `refund_invoice` does the same by refunding the
last performed order. Nobody returns the first payment, although `refund_invoice`
promises to "Give the money back through the provider that took it".

### Disagreements without a run of their own

The models contradict eight more sentences of the source. Each formula below is violated when TLC
checks it as a property of the named module's MC module; the traces are short, and the
formulas are not definitions of the modules, which hold what is true of the code.

- A duplicate that is never refunded (`payments/providers/uzum.py:139`). Uzum's order is verified as
  paid when the invoice was already settled or cancelled; it settles nothing, and `refund` is
  called once, after the commit. When the process dies there (`Abort`), or Uzum does not
  answer, the task's retry finds the order performed and does nothing. The comment says "Paid
  twice (another provider won the race): refund this one." `MCPayments`, `FairSpec`, one Payme and
  one Uzum payment:

      \A t \in UzumTxns : state[t] = "performed" /\ settledBy[InvoiceOf[t]] # t
                            ~> remote[t] = "returned"

- Kinds netted against each other (`billing/services.py:117`). One merchant account is removed and
  one SMS account added in the same period. The prices are netted, so the SMS account costs
  nothing, but the paid units are kept per kind, so the removed account also comes back free.
  The module's head says "A provider added mid-period is charged for the days left."
  `MCBilling`, one merchant and one SMS account:

      [][\A k \in Kinds : open /\ left > 0 /\ left' = left /\ paid'[k] > paid[k]
           => balance' < balance]_vars

- Two switches counted as one (`billing/services.py:210`). Two requests each save their row and
  count, and neither sees the other's uncommitted row. Both compute the same number of
  units; the first charges it and the second finds it already paid. The same sentence is
  broken. `MCBilling`, two merchant accounts and two requests:

      [][/\ open /\ left > 0 /\ \E w \in Workers : EnsurePaid(w)
         /\ \A k \in Kinds : ActiveUnits[k] <= paid[k]
         => \A k \in Kinds : ActiveUnits'[k] <= paid'[k]]_vars

- Made billable without a period (`accounts/admin.py:318`). An exempt company has accounts on and
  no `period_end`. The admin says "company(ies) are billed again", but `renew_due` looks for
  periods that have ended, so the company is charged only when it next switches something on.
  `MCBilling`, `FairSpec`, one merchant account:

      (~exempt /\ Fee > 0) ~> (exempt \/ Fee = 0 \/ open)

- Our status lost to the sheet (`realty/google.py:461`, `:478`). A deal takes a unit; a pull commits
  `sheet_status` and then fails to write the word into the sheet. The next pull reads the old
  word, finds it different from what was exchanged, takes it for a person's change and frees the
  unit. The same happens when a second pull has read the sheet before the first wrote, and in
  a new sheet, whose units have no `sheet_status` until the first pull. `realty/sheet.py:8` says
  "Otherwise our status (e.g. set from amoCRM) is kept and written back to the sheet."
  `MCRealty`, one worker and `Words = {}`, that is, nobody types:

      [][\A w \in Workers : job[w].op = "sync" /\ job'[w] # job[w] => status' = status]_vars

- Two devices at a time (`accounts/services.py:111-115`). Two sign-ins of one user list the other
  devices before either has put its row. The first puts its row and is answered; the second then
  deletes the sessions of its list, which is empty, and all the other rows, the first's among
  them. Both browsers stay in, and the first is in no list of devices, so that a later sign-in does
  not end it either. `accounts/models.py:79` says "One device at a time: a new sign-in to this company
  ends the user's other sessions." The pages that block a company and end a user's sessions
  (`accounts/admin.py:261-263`, `:354-357`) look twice as well. `MCSessions`, with
  `Used(k) == session[k].there /\ \E b \in Browsers, h \in Hosts : cookie[b][h] = k`:

      \A k, l \in Keys, c \in Companies :
        /\ changes = 0 /\ (\A p \in Procs : proc[p] = Idle)
        /\ Used(k) /\ Used(l) /\ session[k].user = session[l].user
        /\ c \in session[k].companies \cap session[l].companies
        => k = l

- Rows deleted in bulk (`accounts/admin.py:391`). `delete_model` ends the session of a row that is
  deleted on its own page; the list's "delete selected" does not call it. The class says
  "Signed-in devices; deleting a row signs that device out." `MCSessions`:

      [][\A k \in Keys : DeleteSelected(k) => ~session'[k].there]_vars

- A binding of `{number}` (`documents/services.py:225`). The number is compared with what `{number}`
  was bound to, differs, and replaces it, together with every other value that is the same; so the
  binding is lost when a document is first made, and kept when it is made again. The comment
  at `documents/services.py:176` says "This template's own bindings win over everything: they were set
  for this document." `MCDocuments`:

      [][\A p \in Procs : GenerateNew(p) /\ docs' # docs /\ proc[p].values["number"] \in BoundTexts
           => docs'[Len(docs')].values = proc[p].values]_documentsVars

### Where no true property can be stated

These the models reach as well. Nothing in the source promises the opposite in a sentence a
run could be held against:

- The hook of a payment that dies (`payments/services.py:125`), or whose broker is down at its
  first line: receipt, SMS, webhook, amoCRM and the credit of a top-up never happen. The
  models take the step; nothing in the code looks for it afterwards.
- A message whose process was killed (`config/settings.py:141`, `deploy/uzbridge-worker.service`): the
  kernel kills one of the two pool processes for its memory, the worker acknowledges the task, and the
  row says queued for ever. `QueuedIsDelivered` excepts the messages in `dropped`.
- A connection brought back by a late hook (`amocrm/views.py:93-98`): the hook of an integration that
  was switched off reaches a row that has been connected again and disconnects it; a refresh on its
  way makes it active. `BackOnlyByConnect` is about connections whose pair is dead or which the
  company gave up.
- The widget's choice of accounts (`amocrm/widget_api.py:145`). The settings page ticks the accounts
  that can take payments now. Saved for any reason while the subscription is paused, it stores an
  empty choice, and `may_take` refuses the callbacks of every open invoice, also after the pause.

### Smaller things the operators show

- `realty/sheet.py:94-100`: `54,125` is read as fifty-four thousand, `850.000` as 850; a person who
  means the other gets another price. `NumbersRead` says exactly which ways of writing are clear.
- `realty/sheet.py`: without a column for the price of a square metre the old one stays when the
  price changes; whole sums in a made sheet (`#,##0`) lose their tiyin when they are read back.
- `realty/google.py:264`: ids such as `1-05` are entered as a person would type them, and Google makes
  dates of them; the next pull archives the unit and makes a new one.
- `amocrm/client.py:46`: a window of a second of the clock lets up to twice the limit through in a
  second that begins in between (`WindowsKeepLimit`, `WindowLimit`: never more).
- `odoo_addons/.../uzbridge_sms_template.py:76`: Odoo fills keyword by keyword, so that a value that
  holds a keyword is filled again; the site fills in one pass (`OdooFillsAlike`).
- `developer/api_v1.py:232`: two Odoo companies of one database that use keys of one uzbridge company
  share its endpoint; the one that connected last hears of the payments (`ConnectedHears`).
- `documents/services.py:226`: a value of any other keyword that equals the number shown first, such as
  the name of a lead, is replaced by the new number (`Refilled`).
- `documents/services.py:133`: an amount of 10^12 or more has no words and raises.
- `sms/tasks.py:25`: a message that failed because the gateway was never reached is not reported to
  Odoo, whose tracker waits (`SaveFailed`).

## Not modelled, and the plan

Of the modelled components:

- payments: statistics and lists, which only read. The lock order (`payme.py:237`): invoice first in
  some handlers, transaction first in others; PostgreSQL breaks the deadlock and the provider
  repeats the call, which the models have as a call that fails.
- billing: ledger rows, price edits, the grandfather command, and the admin form, which saves the
  whole company row it loaded (`accounts/admin.py:133`) over a charge made meanwhile. A connection
  that comes back with documents on (`amocrm/oauth.py:118`) raises the active units without a charge.
- accounts: `sign_up`, host provisioning, the profile. With one device at a time, a browser that is
  signed in to two companies has one row, that of the last (`accounts/services.py:111-115`), so
  that the other company does not find it; no property says more. Blocking the platform's own
  company leaves it open but ends the sessions in it (`accounts/admin.py:258-263`).
- amoCRM: the admin form of a connection (`amocrm/admin.py:10`), which saves the whole row it loaded, with
  a status that may be old and the tokens it read, over a pair refreshed meanwhile; the list of
  pipelines, the install links, the retry loop of `client.request` after 429 and
  5xx, `send_sms_from_lead` (its hazard says why), what the settings page shows. `sync_sms_field`
  keeps one column of enum ids for all the connections of a company (`amocrm/services.py:125`).
- SMS: the gateways' logins and moderation at the gateway. Two people who save keywords at the same
  time (`sms/services.py:198`): the last one wins.
- public API: two requests at once that overlap create two invoices for one reference; `RepeatIsSame`
  is about calls that do not overlap. A receipt line may be negative (`api_v1.py:100`).
- Odoo: the point-of-sale page that scans a customer's code (scanned twice at once it makes two
  invoices), MXIK fields, views.
- realty: rows that change places between a pull and its write-back (`google.py:475`), a booking limit
  that is taken away from the project (units keep the limit they have, `services.py:59`), plan
  images, the public showroom, the Google sign-in, notes written to amoCRM.
- documents: replacing the Word file, previews, the conversion to PDF, bindings of other keywords than
  `{number}` (`DocumentValues` has their rules), documents a superuser deletes in the admin
  (`documents/admin.py:22`), after which a template may be deleted too. Two people who make the
  first document of one lead at once get two; a template form saved over the counter makes the next
  document fail on its unique number, and is repaired by saving a number above.

Not modelled at all: the audit log (appends; its rate limit counts by address, so that
callbacks of all companies from one provider share a bucket), encryption and masking, the
dashboard, the widget's script, deployment and settings beyond the schedule and `acks_late`. They
keep no shared state that a model would say something about.

What remains of the plan:

1. More of the operators for all inputs: the receipts and the whole sheet, whose sums and
   searches would have to be written without folds.
2. `TopUp`: `AfterPayment` and `Billing` composed, the ledger against the balance.
3. The admin forms as actions of `Billing` and `AmoTokens`.
