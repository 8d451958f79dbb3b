---------------------------------- MODULE Sms ----------------------------------
(***************************************************************************)
(* The messages of one company: queued with a gateway account, handed to   *)
(* the gateway by a Celery task, moved on by the gateway's reports         *)
(* (sms/services.py, sms/tasks.py, sms/gateways.py, sms/views.py).  The    *)
(* gateway gives every sms it takes an id of its own.  Odoo, when it sent  *)
(* the message, is told of its fate by signed webhooks and keeps a tracker *)
(* of it (odoo_addons/uzbridge).                                           *)
(***************************************************************************)
EXTENDS Celery

CONSTANTS
  Accounts,     \* gateway accounts of the company
  NoAccount,
  Messages,     \* SmsMessage rows that can still be made (bound)
  MaxTaken      \* how many sms the gateway takes (bound)

ASSUME NoneAssumption == NoAccount \notin Accounts
ASSUME TakenAssumption == MaxTaken \in Nat

VARIABLES
  usable,       \* accounts that are configured and switched on
  default,      \* SmsSettings.account
  approved,     \* templates by the account they belong to, that may be used
  msg,          \* SmsMessage rows
  taken,        \* sms the gateway took: its id, the message, and its report
  tracker,      \* Odoo's sms.tracker of a message it sent, "none" of any other
  events        \* sms.status events that say how a message of Odoo's ended

settings == <<usable, default, approved>>
odoo     == <<tracker, events>>
smsVars  == <<settings, msg, taken, odoo, celery>>

Statuses == {"none", "queued", "sent", "delivered", "failed"}
Final    == {"delivered", "failed"}
Row      == [status: Statuses, account: Accounts \cup {NoAccount}, id: Nat]
NoRow    == [status |-> "none", account |-> NoAccount, id |-> 0]

SmsTypeOK ==
  /\ usable \subseteq Accounts /\ approved \subseteq Accounts
  /\ default \in Accounts \cup {NoAccount}
  /\ msg \in [Messages -> Row]
  /\ \A m \in Messages : msg[m].status = "none" <=> msg[m].account = NoAccount
  /\ \A m \in Messages : msg[m].status = "queued" => msg[m].id = 0
  /\ taken \subseteq [id: Nat, msg: Messages, report: Final \cup {""}]
  /\ tracker \in [Messages -> {"none", "process", "sent", "bounce", "error"}]
  /\ events \subseteq [msg: Messages, status: Final]

SmsInit ==
  /\ CeleryInit
  /\ usable = {} /\ default = NoAccount /\ approved = {}
  /\ msg = [m \in Messages |-> NoRow]
  /\ taken = {}
  /\ tracker = [m \in Messages |-> "none"] /\ events = {}

(***************************************************************************)
(* The site: accounts, the default one, templates.                         *)
(***************************************************************************)

\* Switched on only with its login.
SaveAccount(a) ==
  /\ usable' = IF a \in usable THEN usable \ {a} ELSE usable \cup {a}
  /\ UNCHANGED <<default, approved>>

\* Its templates and the settings that name it go with it.
DeleteAccount(a) ==
  /\ \A m \in Messages : msg[m].account # a
  /\ usable' = usable \ {a}
  /\ approved' = approved \ {a}
  /\ default' = IF default = a THEN NoAccount ELSE default

SaveSettings(a) ==
  /\ default' = a
  /\ UNCHANGED <<usable, approved>>

\* The gateway moderates its texts and sync_templates copies what it decided; a
\* template of our own is approved from the start, until it is deleted.
SyncTemplates(a) ==
  /\ approved' = IF a \in approved THEN approved \ {a} ELSE approved \cup {a}
  /\ UNCHANGED <<usable, default>>

Site ==
  /\ \/ \E a \in Accounts : SaveAccount(a) \/ DeleteAccount(a) \/ SyncTemplates(a)
     \/ \E a \in Accounts \cup {NoAccount} : SaveSettings(a)
  /\ UNCHANGED <<msg, taken, odoo, celery>>

(***************************************************************************)
(* queue(): the account, the row, and the task.                            *)
(***************************************************************************)

\* The integration's pick, else the company's default, else the first.
ActiveAccount(preferred) ==
  IF preferred \in usable THEN {preferred}
  ELSE IF default \in usable THEN {default}
  ELSE usable

\* The task may not reach the broker: nobody delivers the message then.
Queue(m, preferred) ==
  /\ msg[m].status = "none"
  /\ \E a \in ActiveAccount(preferred) :
       msg' = [msg EXCEPT ![m] = [status |-> "queued", account |-> a, id |-> 0]]
  /\ queue' \in {queue, queue \cup {Message("deliver", m)}}
  /\ UNCHANGED <<settings, taken, worker, deaths, dropped>>

\* What the connection to amoCRM or the key prefers, set to any account or to none.
Preferred == Accounts \cup {NoAccount}

\* A text typed on the site, which may name the account.
SendTest(m) ==
  /\ \E account \in Preferred : Queue(m, account)
  /\ UNCHANGED odoo

\* A text typed in the lead's card, by the account of its amoCRM.
SendFromCard(m) ==
  /\ \E preferred \in Preferred : Queue(m, preferred)
  /\ UNCHANGED odoo

\* The templates a card or Odoo is offered are those of the account it would use.
ApprovedTemplates(preferred) == ActiveAccount(preferred) \cap approved

\* A template picked in the lead's card goes by the account that has it.
SendSmsTemplate(m) ==
  /\ \E preferred \in Preferred : \E t \in ApprovedTemplates(preferred) : Queue(m, t)
  /\ UNCHANGED odoo

\* The link of a new invoice and the thanks for a paid one: whatever template the
\* settings name, also of an account that has been switched off since.
SendAuto(m) ==
  /\ \E t \in approved : Queue(m, t)
  /\ UNCHANGED odoo

\* Odoo is answered, or the answer is lost and Odoo takes the message for not sent.
SendBatch(m, queued) ==
  tracker' \in {[tracker EXCEPT ![m] = state] :
                  state \in (IF queued THEN {"process"} ELSE {}) \cup {"error"}}

SendSms(m) ==
  /\ tracker[m] = "none"
  /\ \/ /\ \E preferred \in Preferred : Queue(m, preferred)
        /\ SendBatch(m, TRUE)
     \/ /\ msg[m].status = "none" /\ usable = {}
        /\ SendBatch(m, FALSE)
        /\ UNCHANGED <<settings, msg, taken, celery>>
  /\ UNCHANGED events

(***************************************************************************)
(* deliver                                                                 *)
(***************************************************************************)

\* Variant: what has become of the message is not looked at.
StartAnyway(w) ==
  /\ worker[w] = Idle
  /\ \E m \in queue : Take(w, m)
  /\ UNCHANGED <<settings, msg, taken, odoo, deaths, dropped>>

StartDelivery(w) ==
  /\ worker[w] = Idle
  /\ \E m \in queue : IF msg[m.what].status = "queued" THEN Take(w, m) ELSE Skip(m)
  /\ UNCHANGED <<settings, msg, taken, odoo, deaths, dropped>>

Took(m) == taken \cup {[id |-> Cardinality(taken) + 1, msg |-> m, report |-> ""]}

\* The gateway takes the sms and its answer arrives, or is lost; it refuses; or
\* it is not reached.
CallGateway(w) ==
  LET m == worker[w].what
  IN  /\ Busy(w, "deliver", "call")
      /\ \/ /\ Cardinality(taken) < MaxTaken
            /\ taken' = Took(m)
            /\ worker' = [worker EXCEPT ![w].step = "sent", ![w].id = Cardinality(taken) + 1]
            /\ UNCHANGED queue
         \/ /\ Run(w, "refused")
            /\ UNCHANGED <<taken, queue>>
         \/ /\ taken' \in {taken} \cup (IF Cardinality(taken) < MaxTaken THEN {Took(m)} ELSE {})
            /\ IF worker[w].tries < MaxRetries
               THEN Retry(w)
               ELSE Run(w, "network") /\ UNCHANGED queue
      /\ UNCHANGED <<settings, msg, odoo, deaths, dropped>>

\* Variant: the id is not among the fields that are saved.
SaveSentWithoutId(w) ==
  /\ Busy(w, "deliver", "sent")
  /\ msg' = [msg EXCEPT ![worker[w].what].status = "sent"]
  /\ Ack(w, {})
  /\ UNCHANGED <<settings, taken, odoo, deaths, dropped>>

\* Odoo is told of it too, but the event changes nothing there.
SaveSent(w) ==
  /\ Busy(w, "deliver", "sent")
  /\ msg' = [msg EXCEPT ![worker[w].what].status = "sent", ![worker[w].what].id = worker[w].id]
  /\ Ack(w, {})
  /\ UNCHANGED <<settings, taken, odoo, deaths, dropped>>

\* _emit_status and _apply: the event of a message that has a reference.
Emit(ms, status) ==
  events' = events \cup [msg: {m \in ms : tracker[m] # "none"}, status: {status}]

\* Odoo learns of a refusal, but not of a gateway that was never reached.
SaveFailed(w) ==
  /\ \/ Busy(w, "deliver", "refused") /\ Emit({worker[w].what}, "failed")
     \/ Busy(w, "deliver", "network") /\ UNCHANGED events
  /\ msg' = [msg EXCEPT ![worker[w].what].status = "failed"]
  /\ Ack(w, {})
  /\ UNCHANGED <<settings, taken, tracker, deaths, dropped>>

Deliver(w) == CallGateway(w) \/ SaveSent(w) \/ SaveFailed(w)

(***************************************************************************)
(* Delivery reports, by account and id: any number of times.               *)
(***************************************************************************)

Report(t, status) ==
  LET ms == {m \in Messages : msg[m].status \notin {"none", "queued"} /\ msg[m].id = t.id}
  IN  /\ t.report \in {"", status}
      /\ taken' = (taken \ {t}) \cup {[t EXCEPT !.report = status]}
      /\ msg' = [m \in Messages |-> IF m \in ms THEN [msg[m] EXCEPT !.status = status] ELSE msg[m]]
      /\ Emit(ms, status)
      /\ UNCHANGED <<settings, tracker, celery>>

\* What Odoo makes of a state it is told: a message that was sent does not bounce.
TrackerMayBecome(state) ==
  IF state = "sent" THEN {"process", "bounce", "error"} ELSE {"process", "error"}

\* An event arrives, at any time and any number of times, or never.
SmsEvent(e) ==
  LET state == IF e.status = "delivered" THEN "sent" ELSE "bounce"
  IN  /\ tracker[e.msg] \in TrackerMayBecome(state)
      /\ tracker' = [tracker EXCEPT ![e.msg] = state]
      /\ UNCHANGED <<settings, msg, taken, events, celery>>

SmsNext ==
  \/ Site
  \/ \E m \in Messages : SendTest(m) \/ SendFromCard(m) \/ SendSmsTemplate(m) \/ SendAuto(m) \/ SendSms(m)
  \/ \E w \in Workers : StartDelivery(w) \/ Deliver(w)
  \/ \E t \in taken, status \in Final : Report(t, status)
  \/ \E e \in events : SmsEvent(e)
  \/ Die /\ UNCHANGED <<settings, msg, taken, odoo>>

SmsSpec == SmsInit /\ [][SmsNext]_smsVars

\* Workers go on; nothing else need happen.
SmsFairSpec == SmsSpec /\ \A w \in Workers : WF_smsVars(StartDelivery(w)) /\ WF_smsVars(Deliver(w))

(***************************************************************************)
(* Properties                                                              *)
(***************************************************************************)

\* A message says sent or delivered only of an sms the gateway did take for it,
\* and delivered only when the gateway reported that very sms, however the runs
\* of its task and the reports overlap; and Odoo says sent only of a message the
\* gateway reported, however late and in whatever order the events arrive.
SentWasTaken ==
  \A m \in Messages :
    /\ msg[m].status \in {"sent", "delivered"} =>
         \E t \in taken : /\ t.id = msg[m].id /\ t.msg = m
                          /\ msg[m].status = "delivered" => t.report = "delivered"
    /\ tracker[m] = "sent" => \E t \in taken : t.msg = m /\ t.report = "delivered"

\* A message that has left "queued" and is in no worker's hands is never handed
\* to the gateway again, although its task may still be in the queue.
Settled(m) ==
  /\ msg[m].status \notin {"none", "queued"}
  /\ ~\E w \in Workers : worker[w] # Idle /\ worker[w].what = m

SettledIsLeft == \A m \in Messages : [](Settled(m) => []Settled(m))

\* A message whose task is in the queue leaves "queued", also when the worker stops
\* on the way, unless the process that ran its task was killed: such a task is not
\* run again, nothing looks for its message, and it says queued for ever.
QueuedIsDelivered ==
  \A m \in Messages :
    (\E t \in queue : t.what = m) ~> msg[m].status # "queued" \/ \E t \in dropped : t.what = m
================================================================================
