--------------------------- MODULE AfterPaymentProofs ---------------------------
(* Theorems of AfterPayment, for any setups, workers, and number of retries and *)
(* of deaths.                                                                   *)
EXTENDS AfterPayment, TLAPS

(***************************************************************************)
(* The inductive invariant                                                 *)
(***************************************************************************)

\* What a half-way run of a task relies on: its earlier calls took effect.
Relies(w) ==
  worker[w] # Idle =>
    LET m    == worker[w].msg
        step == worker[w].step
    IN  /\ m.task = "receipt" /\ step = "save" => receipt
        /\ m.task = "sync_paid" /\ step \in {"call2", "save"} => moved
        /\ m.task = "sync_paid" /\ step = "save" => noted
        /\ m.task = "make_bill" /\ step \in {"save", "link"} => worker[w].seen <= elements
        /\ m.task = "deliver" /\ step = "save" /\ worker[w].seen = 1 => m.event \in received

Recorded == RecordedMeansDone /\ \A w \in Workers : Relies(w)

\* The payload of an event is from when it had happened.
PayloadOK(e) == payload[e] \in {e, status}

\* A message is about something that has happened.
Told(m) ==
  /\ m.task \in {"receipt", "sync_paid", "bill_paid"} => Happened("paid")
  /\ m.task = "sync_refunded" => Happened("refunded")
  /\ m.task = "deliver" => Happened(m.event) /\ PayloadOK(m.event)

HookTold(h) ==
  /\ Happened(h.event)
  /\ h.step \in {"receipt", "credit"} => h.event = "paid"
  /\ h.step = "sync" => h.event # "cancelled"

AllTold ==
  /\ \A h \in hooks : HookTold(h)
  /\ \A m \in queue : Told(m)
  /\ \A w \in Workers : worker[w] # Idle => Told(worker[w].msg)

IInv == TypeOK /\ Recorded /\ NotAhead /\ AllTold

\* The three parts of TypeOK.
CeleryType == queue \subseteq Messages /\ worker \in [Workers -> {Idle} \cup Running]

ProcessType ==
  /\ setup \in Setups /\ status \in Statuses /\ hooks \subseteq Hooks
  /\ deaths \in 0 .. MaxDeaths

RowsType ==
  /\ credits \in Nat /\ elements \in Nat
  /\ lead \in {"", "awaiting", "paid", "refunded"}
  /\ receipt \in BOOLEAN /\ submitted \in BOOLEAN /\ moved \in BOOLEAN
  /\ noted \in BOOLEAN /\ synced \in BOOLEAN
  /\ bill \in Nat /\ linked \subseteq Nat /\ billPaid \subseteq Nat
  /\ rows \in [Events -> {"none", "open", "delivered"}]
  /\ payload \in [Events -> Statuses \cup {""}]
  /\ received \subseteq Events

LEMMA Parts == TypeOK <=> CeleryType /\ ProcessType /\ RowsType
BY DEF TypeOK, CeleryType, ProcessType, RowsType

LEMMA PartsNext == CeleryType' /\ ProcessType' /\ RowsType' => TypeOK'
BY DEF TypeOK, CeleryType, ProcessType, RowsType

LEMMA SetupType ==
  ASSUME setup \in Setups
  PROVE  /\ setup.source \in {"amocrm", "topup", "api"}
         /\ setup.retries \in 0 .. MaxRetries
BY SetupAssumption DEF Setup

LEMMA NewMessage ==
  /\ \A task \in Plain : Message(task, "") \in Messages
  /\ \A e \in Events : Message("deliver", e) \in Messages
<1>1. 0 \in 0 .. MaxRetries
  BY RetryAssumption
<1> QED
  BY <1>1 DEF Message, Messages

LEMMA MessageType ==
  ASSUME NEW m \in Messages
  PROVE  /\ m.task \in Plain \cup {"deliver"} /\ m.event \in Events \cup {""}
         /\ m.tries \in 0 .. MaxRetries
         /\ m.task = "deliver" => m.event \in Events
BY DEF Messages, Plain

\* Another try of a message differs in its count only.
LEMMA NextTry ==
  ASSUME NEW m \in Messages, NEW n \in 0 .. MaxRetries
  PROVE  /\ [m EXCEPT !.tries = n] \in Messages
         /\ [m EXCEPT !.tries = n].task = m.task
         /\ [m EXCEPT !.tries = n].event = m.event
BY DEF Messages

(***************************************************************************)
(* What workers do to the queue                                            *)
(***************************************************************************)
LEMMA Works ==
  ASSUME CeleryType, NEW w \in Workers, worker[w] # Idle
  PROVE  worker[w] \in Running /\ worker[w].msg \in Messages /\ worker[w].seen \in Nat
<1>1. worker[w] \in Running
  BY DEF CeleryType
<1> QED
  BY <1>1 DEF Running

\* Only w moves, to r.
Becomes(w, r) ==
  /\ worker'[w] = r
  /\ \A v \in Workers : v # w => worker'[v] = worker[v]

LEMMA BecomesLemma ==
  ASSUME CeleryType, NEW w \in Workers, NEW r \in {Idle} \cup Running,
         worker' = [worker EXCEPT ![w] = r]
  PROVE  worker' \in [Workers -> {Idle} \cup Running] /\ Becomes(w, r)
BY DEF CeleryType, Becomes

LEMMA RunFields ==
  ASSUME NEW p \in Running, NEW step, NEW seen
  PROVE  [p EXCEPT !.step = step, !.seen = seen] = [step |-> step, msg |-> p.msg, seen |-> seen]
<1> DEFINE q == [p EXCEPT !.step = step]
<1>1. q = [step |-> step, msg |-> p.msg, seen |-> p.seen]
  BY DEF Running
<1>2. [q EXCEPT !.seen = seen] = [step |-> step, msg |-> p.msg, seen |-> seen]
  <2> HIDE DEF q
  <2> QED
    BY <1>1
<1> QED
  BY <1>2

LEMMA RunLemma ==
  ASSUME CeleryType, NEW w \in Workers, worker[w] # Idle,
         NEW step \in {"call", "call2", "save", "link"}, NEW seen \in Nat, Run(w, step, seen)
  PROVE  /\ worker' \in [Workers -> {Idle} \cup Running]
         /\ Becomes(w, [step |-> step, msg |-> worker[w].msg, seen |-> seen])
<1> DEFINE r == [step |-> step, msg |-> worker[w].msg, seen |-> seen]
<1>1. worker[w] \in Running /\ r \in Running
  BY Works DEF Running
<1>2. [worker[w] EXCEPT !.step = step, !.seen = seen] = r
  BY <1>1, RunFields
<1>3. DOMAIN worker = Workers
  BY DEF CeleryType
<1>4. worker' = [worker EXCEPT ![w] = r]
  BY <1>1, <1>2, <1>3 DEF Run
<1> QED
  BY <1>1, <1>4, BecomesLemma

LEMMA AckLemma ==
  ASSUME CeleryType, NEW w \in Workers, NEW more \in SUBSET Messages, Ack(w, more)
  PROVE  /\ CeleryType' /\ Becomes(w, Idle)
         /\ queue' \subseteq queue \cup more
<1>1. worker' \in [Workers -> {Idle} \cup Running] /\ Becomes(w, Idle)
  BY BecomesLemma DEF Ack
<1> QED
  BY <1>1 DEF Ack, CeleryType

\* The messages a step of w may add: its own once more, the bill, or that the
\* bill is paid.
Adds(w, m) ==
  \/ m.task = worker[w].msg.task /\ m.event = worker[w].msg.event
  \/ m.task = "make_bill"
  \/ m.task = "bill_paid" /\ worker[w].msg.task = "sync_paid"

Moves(w) ==
  /\ \A m \in queue' : m \in queue \/ Adds(w, m)
  /\ \/ Becomes(w, Idle)
     \/ worker'[w].msg = worker[w].msg /\ Becomes(w, worker'[w])

LEMMA RetryLemma ==
  ASSUME CeleryType, setup \in Setups, NEW w \in Workers, worker[w] # Idle, Retry(w)
  PROVE  CeleryType' /\ Becomes(w, Idle) /\ Moves(w)
<1> DEFINE m    == worker[w].msg
           more == IF m.tries < setup.retries THEN {[m EXCEPT !.tries = @ + 1]} ELSE {}
<1>1. m \in Messages
  BY Works
<1>2. more \in SUBSET Messages /\ \A n \in more : n.task = m.task /\ n.event = m.event
  <2>1. CASE m.tries < setup.retries
    <3>1. m.tries + 1 \in 0 .. MaxRetries
      <4>1. m.tries \in 0 .. MaxRetries /\ setup.retries \in 0 .. MaxRetries
        BY <1>1, MessageType, SetupType
      <4> HIDE DEF m
      <4> QED
        BY <2>1, <4>1, RetryAssumption
    <3>2. more = {[m EXCEPT !.tries = m.tries + 1]}
      BY <2>1
    <3> QED
      BY <1>1, <3>1, <3>2, NextTry
  <2>2. CASE ~(m.tries < setup.retries)
    BY <2>2
  <2> QED
    BY <2>1, <2>2
<1>3. Ack(w, more)
  BY DEF Retry
<1> HIDE DEF more
<1> QED
  BY <1>2, <1>3, AckLemma DEF Moves, Adds


(***************************************************************************)
(* The tasks                                                               *)
(***************************************************************************)

\* Nothing outside is undone.
Grows ==
  /\ receipt => receipt'
  /\ moved => moved'
  /\ noted => noted'
  /\ elements \in Nat /\ elements' \in Nat /\ elements <= elements'
  /\ received \subseteq received'

LEMMA GrowsLemma ==
  ASSUME RowsType, elements' \in {elements, elements + 1}, receipt => receipt',
         moved => moved', noted => noted', received \subseteq received'
  PROVE  Grows
<1>1. elements \in Nat
  BY DEF RowsType
<1>2. elements' \in Nat /\ elements <= elements'
  BY <1>1
<1> QED
  BY <1>1, <1>2 DEF Grows

LEMMA ReliesOn ==
  ASSUME CeleryType, NEW w \in Workers, Relies(w), worker'[w] = worker[w], Grows
  PROVE  Relies(w)'
<1>1. CASE worker[w] = Idle
  BY <1>1 DEF Relies
<1>2. CASE worker[w] # Idle
  <2>1. worker[w].seen \in Nat
    BY <1>2, Works
  <2> QED
    BY <1>2, <2>1 DEF Relies, Grows
<1> QED
  BY <1>1, <1>2

\* The invoice and the events stay as they are: so does what was told.
LEMMA ToldOn ==
  ASSUME NEW m, NEW n, Told(m), n.task = m.task, n.event = m.event, UNCHANGED <<status, payload>>
  PROVE  Told(n)'
BY DEF Told, Happened, PayloadOK

Other(w) == UNCHANGED <<setup, status, hooks, deaths>> /\ payload' = payload /\ worker[w] # Idle

\* What is left to show of a step of a task.
LEMMA TaskStep ==
  ASSUME IInv, NEW w \in Workers, Other(w), Moves(w), CeleryType', RowsType',
         Grows, Relies(w)', RecordedMeansDone', NotAhead'
  PROVE  IInv'
<1>1. CeleryType /\ ProcessType /\ RowsType
  BY Parts DEF IInv
<1>2. ProcessType' /\ TypeOK'
  BY <1>1, PartsNext DEF Other, ProcessType
<1>3. \A v \in Workers : v # w => worker'[v] = worker[v]
  BY DEF Moves, Becomes
<1>4. Recorded'
  <2>1. \A v \in Workers : Relies(v)
    BY DEF IInv, Recorded
  <2>2. \A v \in Workers : Relies(v)'
    BY <1>1, <1>3, <2>1, ReliesOn
  <2> QED
    BY <2>2 DEF Recorded
<1>5. AllTold'
  <2>1. AllTold
    BY DEF IInv
  <2>2. \A h \in hooks' : HookTold(h)'
    BY <2>1 DEF AllTold, HookTold, Other, Happened
  <2>3. ASSUME NEW m \in queue' PROVE Told(m)'
    <3>1. CASE m \in queue
      BY <2>1, <3>1, ToldOn DEF AllTold, Other
    <3>2. CASE Adds(w, m)
      <4>1. Told(worker[w].msg)
        BY <2>1 DEF AllTold, Other
      <4>2. CASE m.task = worker[w].msg.task /\ m.event = worker[w].msg.event
        BY <4>1, <4>2, ToldOn DEF Other
      <4>3. CASE m.task = "make_bill"
        BY <4>3 DEF Told
      <4>4. CASE m.task = "bill_paid" /\ worker[w].msg.task = "sync_paid"
        BY <4>1, <4>4 DEF Told, Happened, Other
      <4> QED
        BY <3>2, <4>2, <4>3, <4>4 DEF Adds
    <3> QED
      BY <3>1, <3>2 DEF Moves
  <2>4. ASSUME NEW v \in Workers, worker'[v] # Idle PROVE Told(worker[v].msg)'
    <3>1. worker[v] # Idle /\ worker'[v].msg = worker[v].msg
      <4>1. CASE v # w
        BY <1>3, <2>4, <4>1
      <4>2. CASE v = w
        <5>1. worker'[w] = Idle \/ worker'[w].msg = worker[w].msg
          BY DEF Moves, Becomes
        <5>2. worker'[w].msg = worker[w].msg /\ worker[w] # Idle
          BY <2>4, <4>2, <5>1 DEF Other
        <5> QED
          BY <4>2, <5>2
      <4> QED
        BY <4>1, <4>2
    <3>2. Told(worker[v].msg)
      BY <2>1, <3>1 DEF AllTold
    <3>3. ASSUME NEW n, n = worker'[v].msg PROVE Told(n)'
      BY <3>1, <3>2, <3>3, ToldOn DEF Other
    <3> QED
      BY <3>3 DEF Told, Happened, PayloadOK
  <2> QED
    BY <2>2, <2>3, <2>4 DEF AllTold
<1> QED
  BY <1>2, <1>4, <1>5 DEF IInv

\* A step that ends in Idle, by Ack or Retry.
LEMMA EndsWell ==
  ASSUME NEW w \in Workers, Becomes(w, Idle)
  PROVE  Relies(w)'
BY DEF Becomes, Relies

\* One that goes on does it with the message it has.
LEMMA GoesOn ==
  ASSUME CeleryType, NEW w \in Workers, worker[w] # Idle,
         NEW step \in {"call", "call2", "save", "link"}, NEW seen \in Nat,
         Run(w, step, seen), UNCHANGED queue
  PROVE  /\ CeleryType' /\ Moves(w)
         /\ worker'[w].step = step /\ worker'[w].msg = worker[w].msg /\ worker'[w].seen = seen
<1>1. /\ worker' \in [Workers -> {Idle} \cup Running]
      /\ Becomes(w, [step |-> step, msg |-> worker[w].msg, seen |-> seen])
  BY RunLemma
<1>2. CeleryType'
  BY <1>1 DEF CeleryType
<1> QED
  BY <1>1, <1>2 DEF Becomes, Moves

LEMMA Acks ==
  ASSUME CeleryType, NEW w \in Workers, NEW more \in SUBSET Messages, Ack(w, more),
         \A m \in more : Adds(w, m)
  PROVE  CeleryType' /\ Moves(w) /\ Relies(w)'
<1>1. CeleryType' /\ Becomes(w, Idle) /\ queue' \subseteq queue \cup more
  BY AckLemma
<1> QED
  BY <1>1, EndsWell DEF Moves

LEMMA Retries ==
  ASSUME CeleryType, setup \in Setups, NEW w \in Workers, worker[w] # Idle, Retry(w)
  PROVE  CeleryType' /\ Moves(w) /\ Relies(w)'
BY RetryLemma, EndsWell

\* After a call: one that was not answered ends here.
LEMMA Continues ==
  ASSUME CeleryType, setup \in Setups, NEW w \in Workers, worker[w] # Idle,
         NEW step \in {"call", "call2", "save", "link"}, NEW a, Then(w, a, step)
  PROVE  /\ CeleryType' /\ Moves(w)
         /\ \/ Relies(w)'
            \/ /\ a = "ok" /\ worker'[w].step = step
               /\ worker'[w].msg = worker[w].msg /\ worker'[w].seen = worker[w].seen
<1>1. CASE a = "ok"
  BY <1>1, Works, GoesOn DEF Then
<1>2. CASE a # "ok"
  BY <1>2, Retries DEF Then
<1> QED
  BY <1>1, <1>2

\* What a running task knows.
LEMMA Knows ==
  ASSUME IInv, NEW w \in Workers, worker[w] # Idle
  PROVE  /\ CeleryType /\ RowsType /\ setup \in Setups /\ status \in Statuses
         /\ worker[w].seen \in Nat /\ worker[w].msg \in Messages
         /\ Told(worker[w].msg) /\ Relies(w) /\ RecordedMeansDone /\ NotAhead
<1>1. CeleryType /\ ProcessType /\ RowsType
  BY Parts DEF IInv
<1> QED
  BY <1>1, Works DEF ProcessType, IInv, Recorded, AllTold

\* What a step of a task does to the outside and to the rows.
Kept == RowsType' /\ Grows /\ RecordedMeansDone' /\ NotAhead'

LEMMA SubmitReceiptLemma ==
  ASSUME IInv, NEW w \in Workers, NEW a, SubmitReceipt(w, a),
         UNCHANGED <<setup, status, hooks, deaths>>
  PROVE  IInv' /\ Moves(w)
<1>1. worker[w] # Idle /\ worker[w].msg.task = "receipt"
  BY DEF SubmitReceipt, At
<1>2. /\ CeleryType /\ RowsType /\ setup \in Setups
      /\ Told(worker[w].msg) /\ Relies(w) /\ RecordedMeansDone /\ NotAhead
  BY <1>1, Knows
<1>3. Happened("paid")
  BY <1>1, <1>2 DEF Told
<1>4. Other(w)
  BY <1>1 DEF SubmitReceipt, Other, ours
<1>5. CASE worker[w].step = "call"
  <2>1. receipt' = (receipt \/ a # "failed") /\ Then(w, a, "save")
    BY <1>5 DEF SubmitReceipt, At
  <2>2. UNCHANGED <<lead, moved, noted, elements, linked, billPaid, received, ours>>
    BY <1>5 DEF SubmitReceipt, At
  <2>3. Kept
    <3>1. /\ receipt' \in BOOLEAN /\ (receipt => receipt')
          /\ UNCHANGED <<lead, moved, noted, elements, linked, billPaid, received,
                         submitted, credits, synced, bill, rows, payload, status>>
      BY <1>2, <1>4, <2>1, <2>2 DEF RowsType, ours, Other
    <3>2. RowsType'
      BY <1>2, <3>1 DEF RowsType
    <3>3. Grows
      BY <1>2, <3>1, GrowsLemma
    <3>4. RecordedMeansDone'
      BY <1>2, <1>3, <3>1 DEF RecordedMeansDone
    <3>5. NotAhead'
      BY <1>2, <1>3, <3>1 DEF NotAhead, Happened
    <3> QED
      BY <3>2, <3>3, <3>4, <3>5 DEF Kept
  <2>4. CeleryType' /\ Moves(w)
    BY <1>1, <1>2, <2>1, Continues
  <2>5. Relies(w)'
    BY <1>1, <1>2, <2>1, Continues DEF Relies
  <2> QED
    BY <1>4, <2>3, <2>4, <2>5, TaskStep DEF Kept
<1>6. CASE worker[w].step = "save"
  <2>1. submitted' = TRUE /\ Ack(w, {}) /\ UNCHANGED <<outside, credits, synced, bill, rows, payload>>
    BY <1>6 DEF SubmitReceipt, At
  <2>2. receipt
    BY <1>1, <1>2, <1>6 DEF Relies
  <2>3. Kept
    <3>1. /\ submitted' = TRUE
          /\ UNCHANGED <<lead, moved, noted, elements, linked, billPaid, received, receipt,
                         credits, synced, bill, rows, payload, status>>
      BY <1>2, <1>4, <2>1 DEF outside, Other
    <3>2. RowsType'
      BY <1>2, <3>1 DEF RowsType
    <3>3. Grows
      BY <1>2, <3>1, GrowsLemma
    <3>4. RecordedMeansDone'
      BY <1>2, <2>2, <3>1 DEF RecordedMeansDone
    <3>5. NotAhead'
      BY <1>2, <2>2, <3>1 DEF NotAhead, Happened
    <3> QED
      BY <3>2, <3>3, <3>4, <3>5 DEF Kept
  <2>4. CeleryType' /\ Moves(w) /\ Relies(w)'
    BY <1>1, <1>2, <2>1, Acks
  <2> QED
    BY <1>4, <2>3, <2>4, TaskStep DEF Kept
<1> QED
  BY <1>5, <1>6 DEF SubmitReceipt, At

LEMMA PostLinkNoteLemma ==
  ASSUME IInv, NEW w \in Workers, NEW a, PostLinkNote(w, a),
         UNCHANGED <<setup, status, hooks, deaths>>
  PROVE  IInv' /\ Moves(w)
<1>1. worker[w] # Idle /\ worker[w].msg.task = "post_link"
  BY DEF PostLinkNote, At
<1>2. /\ CeleryType /\ RowsType /\ setup \in Setups /\ worker[w].seen \in Nat
      /\ worker[w].msg \in Messages
      /\ Told(worker[w].msg) /\ Relies(w) /\ RecordedMeansDone /\ NotAhead
  BY <1>1, Knows
<1>4. Other(w)
  BY <1>1 DEF PostLinkNote, Other, ours
<1>5. CASE worker[w].step = "call"
  <2>1. /\ lead' = IF a = "failed" THEN lead ELSE "awaiting"
        /\ IF a = "ok"
           THEN Ack(w, IF setup.bills THEN {Message("make_bill", "")} ELSE {})
           ELSE Retry(w)
        /\ UNCHANGED <<receipt, moved, noted, elements, linked, billPaid, received, ours>>
    BY <1>5 DEF PostLinkNote, At
  <2>3. Kept
    <3>1. /\ lead' \in {lead, "awaiting"}
          /\ UNCHANGED <<receipt, moved, noted, elements, linked, billPaid, received,
                          submitted, credits, synced, bill, rows, payload, status>>
      BY <1>4, <2>1 DEF ours, Other
    <3>2. RowsType'
      BY <1>2, <3>1 DEF RowsType
    <3>3. Grows
      BY <1>2, <3>1, GrowsLemma
    <3>4. RecordedMeansDone'
      BY <1>2, <3>1 DEF RecordedMeansDone
    <3>5. NotAhead'
      BY <1>2, <3>1 DEF NotAhead, Happened
    <3> QED
      BY <3>2, <3>3, <3>4, <3>5 DEF Kept
  <2>4. CeleryType' /\ Moves(w) /\ Relies(w)'
    <3>1. CASE a = "ok"
      <4> DEFINE more == IF setup.bills THEN {Message("make_bill", "")} ELSE {}
      <4>1. more \in SUBSET Messages /\ \A m \in more : Adds(w, m)
        <5>1. Message("make_bill", "") \in Messages
          BY NewMessage DEF Plain
        <5>2. Message("make_bill", "").task = "make_bill"
          BY DEF Message
        <5> QED
          BY <1>1, <5>1, <5>2 DEF Adds
      <4>2. Ack(w, more)
        BY <2>1, <3>1
      <4> HIDE DEF more
      <4> QED
        BY <1>2, <4>1, <4>2, Acks
    <3>2. CASE a # "ok"
      BY <1>1, <1>2, <2>1, <3>2, Retries
    <3> QED
      BY <3>1, <3>2
  <2> QED
    BY <1>4, <2>3, <2>4, TaskStep DEF Kept
<1> QED
  BY <1>5 DEF PostLinkNote, At

LEMMA CreateBillLemma ==
  ASSUME IInv, NEW w \in Workers, NEW a, CreateBill(w, a),
         UNCHANGED <<setup, status, hooks, deaths>>
  PROVE  IInv' /\ Moves(w)
<1>1. worker[w] # Idle /\ worker[w].msg.task = "make_bill"
  BY DEF CreateBill, At
<1>2. /\ CeleryType /\ RowsType /\ setup \in Setups /\ worker[w].seen \in Nat
      /\ worker[w].msg \in Messages
      /\ Told(worker[w].msg) /\ Relies(w) /\ RecordedMeansDone /\ NotAhead
  BY <1>1, Knows
<1>4. Other(w)
  BY <1>1 DEF CreateBill, Other, ours
<1>5. CASE worker[w].step = "call"
  <2>1. /\ elements' = IF a = "failed" THEN elements ELSE elements + 1
        /\ IF a = "ok" THEN Run(w, "save", elements + 1) /\ UNCHANGED queue ELSE Retry(w)
        /\ UNCHANGED <<receipt, lead, moved, noted, linked, billPaid, received, ours>>
    BY <1>5 DEF CreateBill, At
  <2>3. Kept
    <3>1. /\ elements' \in {elements, elements + 1}
          /\ UNCHANGED <<receipt, lead, moved, noted, linked, billPaid, received,
                          submitted, credits, synced, bill, rows, payload, status>>
      BY <1>4, <2>1 DEF ours, Other
    <3>2. RowsType'
      <4>0. elements \in Nat
        BY <1>2 DEF RowsType
      <4>1. elements' \in Nat
        BY <3>1, <4>0
      <4> QED
        BY <1>2, <3>1, <4>1 DEF RowsType
    <3>3. Grows
      BY <1>2, <3>1, GrowsLemma
    <3>4. RecordedMeansDone'
      <4>1. bill \in Nat /\ elements \in Nat /\ bill <= elements
        BY <1>2 DEF RowsType, RecordedMeansDone
      <4>2. bill' <= elements'
        BY <3>1, <4>1
      <4> QED
        BY <1>2, <3>1, <4>2 DEF RecordedMeansDone
    <3>5. NotAhead'
      BY <1>2, <3>1 DEF NotAhead, Happened
    <3> QED
      BY <3>2, <3>3, <3>4, <3>5 DEF Kept
  <2>4. CeleryType' /\ Moves(w) /\ Relies(w)'
    <3>1. CASE a = "ok"
      <4>1. elements \in Nat
        BY <1>2 DEF RowsType
      <4>2. elements' = elements + 1 /\ elements + 1 \in Nat /\ elements + 1 <= elements'
        BY <2>1, <3>1, <4>1
      <4>3. /\ CeleryType' /\ Moves(w)
            /\ worker'[w].step = "save" /\ worker'[w].msg = worker[w].msg
            /\ worker'[w].seen = elements + 1
        BY <1>1, <1>2, <2>1, <3>1, <4>2, GoesOn
      <4> QED
        BY <1>1, <4>2, <4>3 DEF Relies
    <3>2. CASE a # "ok"
      BY <1>1, <1>2, <2>1, <3>2, Retries
    <3> QED
      BY <3>1, <3>2
  <2> QED
    BY <1>4, <2>3, <2>4, TaskStep DEF Kept
<1>6. CASE worker[w].step = "save"
  <2>1. /\ bill' = worker[w].seen /\ Run(w, "link", worker[w].seen)
        /\ UNCHANGED <<queue, outside, submitted, credits, synced, rows, payload>>
    BY <1>6 DEF CreateBill, At
  <2>2. worker[w].seen <= elements
    BY <1>1, <1>2, <1>6 DEF Relies
  <2>3. Kept
    <3>1. /\ bill' \in Nat /\ bill' <= elements'
          /\ UNCHANGED <<receipt, lead, moved, noted, elements, linked, billPaid,
                          received, submitted, credits, synced, rows, payload, status>>
      BY <1>2, <1>4, <2>1, <2>2 DEF outside, Other
    <3>2. RowsType'
      BY <1>2, <3>1 DEF RowsType
    <3>3. Grows
      BY <1>2, <3>1, GrowsLemma
    <3>4. RecordedMeansDone'
      BY <1>2, <3>1 DEF RecordedMeansDone
    <3>5. NotAhead'
      BY <1>2, <3>1 DEF NotAhead, Happened
    <3> QED
      BY <3>2, <3>3, <3>4, <3>5 DEF Kept
  <2>4. CeleryType' /\ Moves(w) /\ Relies(w)'
    <3>1. /\ CeleryType' /\ Moves(w) /\ worker'[w].step = "link"
          /\ worker'[w].msg = worker[w].msg /\ worker'[w].seen = worker[w].seen
      BY <1>1, <1>2, <2>1, GoesOn
    <3>2. worker'[w].seen <= elements'
      BY <2>1, <2>2, <3>1 DEF outside
    <3> QED
      BY <1>1, <3>1, <3>2 DEF Relies
  <2> QED
    BY <1>4, <2>3, <2>4, TaskStep DEF Kept
<1>7. CASE worker[w].step = "link"
  <2>1. /\ linked' = IF a = "failed" THEN linked ELSE linked \cup {worker[w].seen}
        /\ IF a = "ok" THEN Ack(w, {}) ELSE Retry(w)
        /\ UNCHANGED <<receipt, lead, moved, noted, elements, billPaid, received, ours>>
    BY <1>7 DEF CreateBill, At
  <2>3. Kept
    <3>1. /\ linked' \subseteq linked \cup {worker[w].seen}
          /\ UNCHANGED <<receipt, lead, moved, noted, elements, billPaid, received,
                          submitted, credits, synced, bill, rows, payload, status>>
      BY <1>4, <2>1 DEF ours, Other
    <3>2. RowsType'
      BY <1>2, <3>1 DEF RowsType
    <3>3. Grows
      BY <1>2, <3>1, GrowsLemma
    <3>4. RecordedMeansDone'
      BY <1>2, <3>1 DEF RecordedMeansDone
    <3>5. NotAhead'
      BY <1>2, <3>1 DEF NotAhead, Happened
    <3> QED
      BY <3>2, <3>3, <3>4, <3>5 DEF Kept
  <2>4. CeleryType' /\ Moves(w) /\ Relies(w)'
    <3>1. CASE a = "ok"
      BY <1>1, <1>2, <2>1, <3>1, Acks
    <3>2. CASE a # "ok"
      BY <1>1, <1>2, <2>1, <3>2, Retries
    <3> QED
      BY <3>1, <3>2
  <2> QED
    BY <1>4, <2>3, <2>4, TaskStep DEF Kept
<1> QED
  BY <1>5, <1>6, <1>7 DEF CreateBill, At

LEMMA MarkBillPaidLemma ==
  ASSUME IInv, NEW w \in Workers, NEW a, MarkBillPaid(w, a),
         UNCHANGED <<setup, status, hooks, deaths>>
  PROVE  IInv' /\ Moves(w)
<1>1. worker[w] # Idle /\ worker[w].msg.task = "bill_paid"
  BY DEF MarkBillPaid, At
<1>2. /\ CeleryType /\ RowsType /\ setup \in Setups /\ worker[w].seen \in Nat
      /\ worker[w].msg \in Messages
      /\ Told(worker[w].msg) /\ Relies(w) /\ RecordedMeansDone /\ NotAhead
  BY <1>1, Knows
<1>3. Happened("paid")
  BY <1>1, <1>2 DEF Told
<1>4. Other(w)
  BY <1>1 DEF MarkBillPaid, Other, ours
<1>5. CASE worker[w].step = "call"
  <2>1. /\ billPaid' = IF a = "failed" THEN billPaid ELSE billPaid \cup {worker[w].seen}
        /\ IF a = "ok" THEN Ack(w, {}) ELSE Retry(w)
        /\ UNCHANGED <<receipt, lead, moved, noted, elements, linked, received, ours>>
    BY <1>5 DEF MarkBillPaid, At
  <2>3. Kept
    <3>1. /\ billPaid' \subseteq billPaid \cup {worker[w].seen}
          /\ UNCHANGED <<receipt, lead, moved, noted, elements, linked, received,
                          submitted, credits, synced, bill, rows, payload, status>>
      BY <1>4, <2>1 DEF ours, Other
    <3>2. RowsType'
      BY <1>2, <3>1 DEF RowsType
    <3>3. Grows
      BY <1>2, <3>1, GrowsLemma
    <3>4. RecordedMeansDone'
      BY <1>2, <3>1 DEF RecordedMeansDone
    <3>5. NotAhead'
      BY <1>2, <1>3, <3>1 DEF NotAhead, Happened
    <3> QED
      BY <3>2, <3>3, <3>4, <3>5 DEF Kept
  <2>4. CeleryType' /\ Moves(w) /\ Relies(w)'
    <3>1. CASE a = "ok"
      BY <1>1, <1>2, <2>1, <3>1, Acks
    <3>2. CASE a # "ok"
      BY <1>1, <1>2, <2>1, <3>2, Retries
    <3> QED
      BY <3>1, <3>2
  <2> QED
    BY <1>4, <2>3, <2>4, TaskStep DEF Kept
<1> QED
  BY <1>5 DEF MarkBillPaid, At

LEMMA SyncInvoicePaidLemma ==
  ASSUME IInv, NEW w \in Workers, NEW a, SyncInvoicePaid(w, a),
         UNCHANGED <<setup, status, hooks, deaths>>
  PROVE  IInv' /\ Moves(w)
<1>1. worker[w] # Idle /\ worker[w].msg.task = "sync_paid"
  BY DEF SyncInvoicePaid, At
<1>2. /\ CeleryType /\ RowsType /\ setup \in Setups /\ worker[w].seen \in Nat
      /\ worker[w].msg \in Messages
      /\ Told(worker[w].msg) /\ Relies(w) /\ RecordedMeansDone /\ NotAhead
  BY <1>1, Knows
<1>3. Happened("paid")
  BY <1>1, <1>2 DEF Told
<1>4. Other(w)
  BY <1>1 DEF SyncInvoicePaid, Other, ours
<1>5. CASE worker[w].step = "call"
  <2>1. /\ lead' = IF a = "failed" THEN lead ELSE "paid"
        /\ moved' = (moved \/ a # "failed") /\ Then(w, a, "call2")
        /\ UNCHANGED <<receipt, noted, elements, linked, billPaid, received, ours>>
    BY <1>5 DEF SyncInvoicePaid, At
  <2>3. Kept
    <3>1. /\ lead' \in {lead, "paid"}
          /\ moved' \in BOOLEAN /\ (moved => moved')
          /\ UNCHANGED <<receipt, noted, elements, linked, billPaid, received,
                          submitted, credits, synced, bill, rows, payload, status>>
      BY <1>2, <1>4, <2>1 DEF RowsType, ours, Other
    <3>2. RowsType'
      BY <1>2, <3>1 DEF RowsType
    <3>3. Grows
      BY <1>2, <3>1, GrowsLemma
    <3>4. RecordedMeansDone'
      BY <1>2, <3>1 DEF RecordedMeansDone
    <3>5. NotAhead'
      BY <1>2, <1>3, <3>1 DEF NotAhead, Happened
    <3> QED
      BY <3>2, <3>3, <3>4, <3>5 DEF Kept
  <2>4. CeleryType' /\ Moves(w) /\ Relies(w)'
    <3>1. /\ CeleryType' /\ Moves(w)
          /\ \/ Relies(w)'
             \/ /\ a = "ok" /\ worker'[w].step = "call2" /\ worker'[w].msg = worker[w].msg
      BY <1>1, <1>2, <2>1, Continues
    <3> QED
      BY <1>1, <2>1, <3>1 DEF Relies
  <2> QED
    BY <1>4, <2>3, <2>4, TaskStep DEF Kept
<1>6. CASE worker[w].step = "call2"
  <2>1. /\ noted' = (noted \/ a # "failed") /\ Then(w, a, "save")
        /\ UNCHANGED <<receipt, lead, moved, elements, linked, billPaid, received, ours>>
    BY <1>6 DEF SyncInvoicePaid, At
  <2>2. moved
    BY <1>1, <1>2, <1>6 DEF Relies
  <2>3. Kept
    <3>1. /\ noted' \in BOOLEAN /\ (noted => noted')
          /\ UNCHANGED <<receipt, lead, moved, elements, linked, billPaid, received,
                          submitted, credits, synced, bill, rows, payload, status>>
      BY <1>2, <1>4, <2>1 DEF RowsType, ours, Other
    <3>2. RowsType'
      BY <1>2, <3>1 DEF RowsType
    <3>3. Grows
      BY <1>2, <3>1, GrowsLemma
    <3>4. RecordedMeansDone'
      BY <1>2, <3>1 DEF RecordedMeansDone
    <3>5. NotAhead'
      BY <1>2, <1>3, <3>1 DEF NotAhead, Happened
    <3> QED
      BY <3>2, <3>3, <3>4, <3>5 DEF Kept
  <2>4. CeleryType' /\ Moves(w) /\ Relies(w)'
    <3>1. /\ CeleryType' /\ Moves(w)
          /\ \/ Relies(w)'
             \/ /\ a = "ok" /\ worker'[w].step = "save" /\ worker'[w].msg = worker[w].msg
      BY <1>1, <1>2, <2>1, Continues
    <3> QED
      BY <1>1, <2>2, <2>1, <3>1 DEF Relies
  <2> QED
    BY <1>4, <2>3, <2>4, TaskStep DEF Kept
<1>7. CASE worker[w].step = "save"
  <2>1. /\ synced' = TRUE
        /\ Ack(w, IF worker[w].seen # 0 THEN {Message("bill_paid", "")} ELSE {})
        /\ UNCHANGED <<outside, submitted, credits, bill, rows, payload>>
    BY <1>7 DEF SyncInvoicePaid, At
  <2>2. moved /\ noted
    BY <1>1, <1>2, <1>7 DEF Relies
  <2>3. Kept
    <3>1. /\ synced' = TRUE
          /\ UNCHANGED <<receipt, lead, moved, noted, elements, linked, billPaid,
                          received, submitted, credits, bill, rows, payload, status>>
      BY <1>4, <2>1 DEF outside, Other
    <3>2. RowsType'
      BY <1>2, <3>1 DEF RowsType
    <3>3. Grows
      BY <1>2, <3>1, GrowsLemma
    <3>4. RecordedMeansDone'
      BY <1>2, <2>2, <3>1 DEF RecordedMeansDone
    <3>5. NotAhead'
      BY <1>2, <3>1 DEF NotAhead, Happened
    <3> QED
      BY <3>2, <3>3, <3>4, <3>5 DEF Kept
  <2>4. CeleryType' /\ Moves(w) /\ Relies(w)'
    <3> DEFINE more == IF worker[w].seen # 0 THEN {Message("bill_paid", "")} ELSE {}
    <3>1. more \in SUBSET Messages /\ \A m \in more : Adds(w, m)
      <4>1. Message("bill_paid", "") \in Messages
        BY NewMessage DEF Plain
      <4>2. Message("bill_paid", "").task = "bill_paid"
        BY DEF Message
      <4> QED
        BY <1>1, <4>1, <4>2 DEF Adds
    <3>2. Ack(w, more)
      BY <2>1
    <3> HIDE DEF more
    <3> QED
      BY <1>2, <3>1, <3>2, Acks
  <2> QED
    BY <1>4, <2>3, <2>4, TaskStep DEF Kept
<1> QED
  BY <1>5, <1>6, <1>7 DEF SyncInvoicePaid, At

LEMMA SyncInvoiceRefundedLemma ==
  ASSUME IInv, NEW w \in Workers, NEW a, SyncInvoiceRefunded(w, a),
         UNCHANGED <<setup, status, hooks, deaths>>
  PROVE  IInv' /\ Moves(w)
<1>1. worker[w] # Idle /\ worker[w].msg.task = "sync_refunded"
  BY DEF SyncInvoiceRefunded, At
<1>2. /\ CeleryType /\ RowsType /\ setup \in Setups /\ worker[w].seen \in Nat
      /\ worker[w].msg \in Messages
      /\ Told(worker[w].msg) /\ Relies(w) /\ RecordedMeansDone /\ NotAhead
  BY <1>1, Knows
<1>3. Happened("refunded")
  BY <1>1, <1>2 DEF Told
<1>4. Other(w)
  BY <1>1 DEF SyncInvoiceRefunded, Other, ours
<1>5. CASE worker[w].step = "call"
  <2>1. /\ lead' = IF a = "failed" THEN lead ELSE "refunded"
        /\ IF a = "ok" THEN Ack(w, {}) ELSE Retry(w)
        /\ UNCHANGED <<receipt, moved, noted, elements, linked, billPaid, received, ours>>
    BY <1>5 DEF SyncInvoiceRefunded, At
  <2>3. Kept
    <3>1. /\ lead' \in {lead, "refunded"}
          /\ UNCHANGED <<receipt, moved, noted, elements, linked, billPaid, received,
                          submitted, credits, synced, bill, rows, payload, status>>
      BY <1>4, <2>1 DEF ours, Other
    <3>2. RowsType'
      BY <1>2, <3>1 DEF RowsType
    <3>3. Grows
      BY <1>2, <3>1, GrowsLemma
    <3>4. RecordedMeansDone'
      BY <1>2, <3>1 DEF RecordedMeansDone
    <3>5. NotAhead'
      BY <1>2, <1>3, <3>1 DEF NotAhead, Happened
    <3> QED
      BY <3>2, <3>3, <3>4, <3>5 DEF Kept
  <2>4. CeleryType' /\ Moves(w) /\ Relies(w)'
    <3>1. CASE a = "ok"
      BY <1>1, <1>2, <2>1, <3>1, Acks
    <3>2. CASE a # "ok"
      BY <1>1, <1>2, <2>1, <3>2, Retries
    <3> QED
      BY <3>1, <3>2
  <2> QED
    BY <1>4, <2>3, <2>4, TaskStep DEF Kept
<1> QED
  BY <1>5 DEF SyncInvoiceRefunded, At

LEMMA DeliverWebhookLemma ==
  ASSUME IInv, NEW w \in Workers, NEW a, DeliverWebhook(w, a),
         UNCHANGED <<setup, status, hooks, deaths>>
  PROVE  IInv' /\ Moves(w)
<1>1. worker[w] # Idle /\ worker[w].msg.task = "deliver"
  BY DEF DeliverWebhook, At
<1>2. /\ CeleryType /\ RowsType /\ setup \in Setups /\ worker[w].seen \in Nat
      /\ worker[w].msg \in Messages
      /\ Told(worker[w].msg) /\ Relies(w) /\ RecordedMeansDone /\ NotAhead
  BY <1>1, Knows
<1>3. Happened(worker[w].msg.event) /\ PayloadOK(worker[w].msg.event)
  BY <1>1, <1>2 DEF Told
<1>0. worker[w].msg.event \in Events
  BY <1>1, <1>2, MessageType
<1>4. Other(w)
  BY <1>1 DEF DeliverWebhook, Other, ours
<1>5. CASE worker[w].step = "call"
  <2>1. /\ received' = IF a = "failed" THEN received ELSE received \cup {worker[w].msg.event}
        /\ Run(w, "save", IF a = "ok" THEN 1 ELSE 0)
        /\ UNCHANGED <<queue, receipt, lead, moved, noted, elements, linked, billPaid, ours>>
    BY <1>5 DEF DeliverWebhook, At
  <2>3. Kept
    <3>1. /\ received \subseteq received' /\ received' \subseteq received \cup {worker[w].msg.event}
          /\ UNCHANGED <<receipt, lead, moved, noted, elements, linked, billPaid,
                          submitted, credits, synced, bill, rows, payload, status>>
      BY <1>4, <2>1 DEF ours, Other
    <3>2. RowsType'
      BY <1>0, <1>2, <3>1 DEF RowsType
    <3>3. Grows
      BY <1>2, <3>1, GrowsLemma
    <3>4. RecordedMeansDone'
      BY <1>2, <3>1 DEF RecordedMeansDone
    <3>5. NotAhead'
      BY <1>2, <1>3, <3>1 DEF NotAhead, Happened, PayloadOK
    <3> QED
      BY <3>2, <3>3, <3>4, <3>5 DEF Kept
  <2>4. CeleryType' /\ Moves(w) /\ Relies(w)'
    <3> DEFINE seen == IF a = "ok" THEN 1 ELSE 0
    <3>1. seen \in Nat /\ (seen = 1 => a = "ok")
      OBVIOUS
    <3>2. Run(w, "save", seen) /\ UNCHANGED queue
      BY <2>1
    <3>3. a = "ok" => worker[w].msg.event \in received'
      BY <2>1
    <3> HIDE DEF seen
    <3>4. /\ CeleryType' /\ Moves(w) /\ worker'[w].step = "save"
          /\ worker'[w].msg = worker[w].msg /\ worker'[w].seen = seen
      BY <1>1, <1>2, <3>1, <3>2, GoesOn
    <3> QED
      BY <1>1, <3>1, <3>3, <3>4 DEF Relies
  <2> QED
    BY <1>4, <2>3, <2>4, TaskStep DEF Kept
<1>6. CASE worker[w].step = "save"
  <2>1. /\ rows' = [rows EXCEPT ![worker[w].msg.event] = IF worker[w].seen = 1 THEN "delivered" ELSE "open"]
        /\ IF worker[w].seen = 1 THEN Ack(w, {}) ELSE Retry(w)
        /\ UNCHANGED <<outside, submitted, credits, synced, bill, payload>>
    BY <1>6 DEF DeliverWebhook, At
  <2>2. worker[w].seen = 1 => worker[w].msg.event \in received
    BY <1>1, <1>2, <1>6 DEF Relies
  <2>3. Kept
    <3>1. /\ rows' \in [Events -> {"none", "open", "delivered"}]
          /\ \A e \in Events : rows'[e] = "delivered" => rows[e] = "delivered" \/ e \in received
          /\ UNCHANGED <<receipt, lead, moved, noted, elements, linked, billPaid,
                          received, submitted, credits, synced, bill, payload, status>>
      BY <1>0, <1>2, <1>4, <2>1, <2>2 DEF outside, Other, RowsType
    <3>2. RowsType'
      BY <1>2, <3>1 DEF RowsType
    <3>3. Grows
      BY <1>2, <3>1, GrowsLemma
    <3>4. RecordedMeansDone'
      BY <1>2, <3>1 DEF RecordedMeansDone
    <3>5. NotAhead'
      BY <1>2, <3>1 DEF NotAhead, Happened
    <3> QED
      BY <3>2, <3>3, <3>4, <3>5 DEF Kept
  <2>4. CeleryType' /\ Moves(w) /\ Relies(w)'
    BY <1>1, <1>2, <2>1, Acks, Retries
  <2> QED
    BY <1>4, <2>3, <2>4, TaskStep DEF Kept
<1> QED
  BY <1>5, <1>6 DEF DeliverWebhook, At

(***************************************************************************)
(* The commits, the hooks, and what becomes of the processes               *)
(***************************************************************************)

\* What has happened stays so, and so does what its event says of it.
LEMMA StaysSo ==
  ASSUME NEW e \in Events, Happened(e), UNCHANGED payload,
         status = "pending" \/ (status = "paid" /\ status' = "refunded")
  PROVE  Happened(e)' /\ (PayloadOK(e) => PayloadOK(e)')
BY DEF Happened, PayloadOK, Events

LEMMA CommitLemma ==
  ASSUME IInv, NEW from, NEW to \in Events, NEW step \in {"receipt", "emit"},
         Commit(from, to, step), from = "pending" \/ (from = "paid" /\ to = "refunded"),
         step = "receipt" => to = "paid"
  PROVE  IInv'
<1>1. /\ status = from /\ status' = to
      /\ hooks' = hooks \cup {[event |-> to, step |-> step]}
      /\ UNCHANGED <<setup, queue, worker, outside, ours, deaths>>
  BY DEF Commit
<1>2. CeleryType /\ ProcessType /\ RowsType
  BY Parts DEF IInv
<1>3. \A e \in Events : Happened(e) => Happened(e)' /\ (PayloadOK(e) => PayloadOK(e)')
  BY <1>1, StaysSo DEF ours
<1>4. TypeOK'
  <2>1. CeleryType'
    BY <1>1, <1>2 DEF CeleryType
  <2>2. ProcessType'
    BY <1>1, <1>2 DEF ProcessType, Hooks, Events, Statuses
  <2>3. RowsType'
    BY <1>1, <1>2 DEF RowsType, outside, ours
  <2> QED
    BY <2>1, <2>2, <2>3, PartsNext
<1>5. Recorded'
  BY <1>1 DEF IInv, Recorded, RecordedMeansDone, Relies, outside, ours
<1>6. NotAhead'
  <2>1. NotAhead /\ "paid" \in Events /\ "refunded" \in Events /\ received \subseteq Events
    BY <1>2 DEF IInv, Events, RowsType
  <2>2. UNCHANGED <<lead, moved, noted, billPaid, receipt, credits, received, payload>>
    BY <1>1 DEF outside, ours
  <2>3. lead \in {"paid", "refunded"} => Happened(lead)'
    <3>1. ASSUME NEW e \in Events, lead = e, Happened(lead) PROVE Happened(e)'
      BY <1>3, <3>1
    <3> QED
      BY <1>1, <2>1, <2>2, <3>1 DEF NotAhead, Happened, Events
  <2>4. moved \/ noted \/ billPaid # {} \/ receipt \/ credits > 0 => Happened("paid")'
    BY <1>3, <2>1 DEF NotAhead
  <2>5. \A e \in received : Happened(e)' /\ PayloadOK(e)'
    BY <1>3, <2>1 DEF NotAhead, PayloadOK
  <2> QED
    BY <2>2, <2>3, <2>4, <2>5 DEF NotAhead, Happened, PayloadOK
<1>7. AllTold'
  <2>1. AllTold
    BY DEF IInv
  <2>2. \A h \in hooks' : HookTold(h)'
    <3>1. ASSUME NEW h \in hooks PROVE HookTold(h)'
      <4>1. h.event \in Events /\ HookTold(h)
        BY <1>2, <2>1 DEF ProcessType, Hooks, AllTold
      <4> QED
        BY <1>3, <4>1 DEF HookTold
    <3>2. HookTold([event |-> to, step |-> step])'
      BY <1>1 DEF HookTold, Happened
    <3> QED
      BY <1>1, <3>1, <3>2
  <2>3. ASSUME NEW m \in Messages, Told(m) PROVE Told(m)'
    <3>1. "paid" \in Events /\ "refunded" \in Events /\ (m.task = "deliver" => m.event \in Events)
      BY MessageType DEF Events
    <3> QED
      BY <1>3, <2>3, <3>1 DEF Told
  <2>4. \A m \in queue' : Told(m)'
    BY <1>1, <1>2, <2>1, <2>3 DEF AllTold, CeleryType
  <2>5. ASSUME NEW v \in Workers, worker'[v] # Idle PROVE Told(worker[v].msg)'
    <3>1. worker'[v] = worker[v]
      BY <1>1
    <3>2. worker[v].msg \in Messages /\ Told(worker[v].msg)
      BY <1>2, <2>1, <2>5, <3>1, Works DEF AllTold
    <3>3. ASSUME NEW n, n = worker[v].msg PROVE Told(n)'
      BY <2>3, <3>2, <3>3
    <3> QED
      BY <3>1, <3>3 DEF Told, Happened, PayloadOK
  <2> QED
    BY <2>2, <2>4, <2>5 DEF AllTold
<1> QED
  BY <1>4, <1>5, <1>6, <1>7 DEF IInv

\* What a hook leaves to be run.
LEMMA AdvanceLemma ==
  ASSUME NEW h \in Hooks, NEW next \in SUBSET {"receipt", "credit", "emit", "sync"},
         hooks \subseteq Hooks, Advance(h, next), NEW k \in hooks'
  PROVE  /\ k \in Hooks
         /\ k \in hooks \/ (k.event = h.event /\ k.step \in next)
<1>1. k \in hooks \/ \E s \in next : k = [h EXCEPT !.step = s]
  BY DEF Advance
<1>2. ASSUME NEW s \in next, k = [h EXCEPT !.step = s]
      PROVE  k = [event |-> h.event, step |-> s] /\ h.event \in Events
  BY <1>2 DEF Hooks
<1> QED
  BY <1>1, <1>2 DEF Hooks

\* What is left to show of a step of a hook.
LEMMA HookStep ==
  ASSUME IInv, UNCHANGED <<setup, status, worker, outside, deaths, submitted, synced, bill>>,
         \A k \in hooks' : k \in Hooks /\ HookTold(k),
         queue' \subseteq Messages, \A m \in queue' : m \in queue \/ Told(m)',
         \A e \in Events : PayloadOK(e) => PayloadOK(e)',
         payload' \in [Events -> Statuses \cup {""}],
         rows' \in [Events -> {"none", "open", "delivered"}],
         \A e \in Events : rows'[e] = "delivered" => rows[e] = "delivered",
         credits' \in Nat, credits' = credits \/ Happened("paid")
  PROVE  IInv'
<1>2. CeleryType /\ ProcessType /\ RowsType
  BY Parts DEF IInv
<1>4. TypeOK'
  <2>1. CeleryType'
    BY <1>2 DEF CeleryType
  <2>2. ProcessType'
    BY <1>2 DEF ProcessType
  <2>3. RowsType'
    BY <1>2 DEF RowsType, outside
  <2> QED
    BY <2>1, <2>2, <2>3, PartsNext
<1>5. Recorded'
  <2>1. RecordedMeansDone'
    BY DEF IInv, Recorded, RecordedMeansDone, outside
  <2> QED
    BY <2>1 DEF IInv, Recorded, Relies, outside
<1>6. NotAhead'
  <2>1. NotAhead /\ received \subseteq Events
    BY <1>2 DEF IInv, RowsType
  <2>2. UNCHANGED <<lead, moved, noted, billPaid, receipt, received, status>>
    BY DEF outside
  <2>3. \A e \in received : Happened(e) /\ PayloadOK(e)'
    BY <2>1 DEF NotAhead, PayloadOK
  <2> QED
    BY <2>1, <2>2, <2>3 DEF NotAhead, Happened, PayloadOK
<1>7. AllTold'
  <2>1. AllTold
    BY DEF IInv
  <2>2. \A h \in hooks' : HookTold(h)'
    BY DEF HookTold, Happened
  <2>3. ASSUME NEW m \in Messages, Told(m) PROVE Told(m)'
    <3>1. m.task = "deliver" => m.event \in Events
      BY MessageType
    <3> QED
      BY <2>3, <3>1 DEF Told, Happened
  <2>4. \A m \in queue' : Told(m)'
    BY <1>2, <2>1, <2>3 DEF AllTold, CeleryType
  <2>5. ASSUME NEW v \in Workers, worker'[v] # Idle PROVE Told(worker[v].msg)'
    <3>1. worker'[v] = worker[v]
      OBVIOUS
    <3>2. worker[v].msg \in Messages /\ Told(worker[v].msg)
      BY <1>2, <2>1, <2>5, <3>1, Works DEF AllTold
    <3>3. ASSUME NEW n, n = worker[v].msg PROVE Told(n)'
      BY <2>3, <3>2, <3>3
    <3> QED
      BY <3>1, <3>3 DEF Told, Happened, PayloadOK
  <2> QED
    BY <2>2, <2>4, <2>5 DEF AllTold
<1> QED
  BY <1>4, <1>5, <1>6, <1>7 DEF IInv

LEMMA HookLemma ==
  ASSUME IInv, Hook
  PROVE  IInv'
<1>1. PICK h \in hooks : /\ HookReceipt(h) \/ HookCredit(h) \/ HookEmit(h) \/ HookSync(h)
                        /\ UNCHANGED <<setup, status, worker, outside, deaths>>
  BY DEF Hook
<1>2. CeleryType /\ ProcessType /\ RowsType
  BY Parts DEF IInv
<1>3. /\ h \in Hooks /\ hooks \subseteq Hooks /\ queue \subseteq Messages
      /\ HookTold(h) /\ \A k \in hooks : HookTold(k)
      /\ h.event \in Events
  BY <1>2 DEF CeleryType, ProcessType, IInv, AllTold, Hooks
<1>4. \A task \in Plain : Message(task, "").task = task /\ Message(task, "") \in Messages
  BY NewMessage DEF Message
\* The hook goes on to the steps of `next`, if that is right for its event.
<1>5. ASSUME NEW next \in SUBSET {"receipt", "credit", "emit", "sync"}, Advance(h, next),
             next \cap {"receipt", "credit"} # {} => h.event = "paid",
             "sync" \in next => h.event # "cancelled"
      PROVE  \A k \in hooks' : k \in Hooks /\ HookTold(k)
  <2>1. ASSUME NEW k \in hooks' PROVE k \in Hooks /\ HookTold(k)
    <3>1. k \in Hooks /\ (k \in hooks \/ (k.event = h.event /\ k.step \in next))
      BY <1>3, <1>5, AdvanceLemma
    <3>2. CASE k \in hooks
      BY <1>3, <3>1, <3>2
    <3>3. CASE k.event = h.event /\ k.step \in next
      BY <1>3, <1>5, <3>1, <3>3 DEF HookTold
    <3> QED
      BY <3>1, <3>2, <3>3
  <2> QED
    BY <2>1
<1>6. CASE HookReceipt(h)
  <2>1. h.event = "paid" /\ Happened("paid")
    BY <1>3, <1>6 DEF HookReceipt, HookTold
  <2>2. \A k \in hooks' : k \in Hooks /\ HookTold(k)
    <3>1. CASE Advance(h, {})
      BY <1>5, <3>1
    <3>2. CASE Advance(h, {IF setup.source = "topup" THEN "credit" ELSE "emit"})
      BY <1>5, <2>1, <3>2
    <3> QED
      BY <1>6, <3>1, <3>2 DEF HookReceipt
  <2>3. queue' \subseteq queue \cup {Message("receipt", "")} /\ UNCHANGED ours
    BY <1>6 DEF HookReceipt
  <2>4. Message("receipt", "") \in Messages /\ Told(Message("receipt", ""))'
    <3>1. Message("receipt", "").task = "receipt" /\ Message("receipt", "") \in Messages
      BY <1>4 DEF Plain
    <3> QED
      BY <1>1, <2>1, <3>1 DEF Told, Happened
  <2> QED
    BY <1>1, <1>2, <1>3, <2>2, <2>3, <2>4, HookStep DEF ours, PayloadOK, RowsType
<1>7. CASE HookCredit(h)
  <2>1. h.event = "paid" /\ Happened("paid")
    BY <1>3, <1>7 DEF HookCredit, HookTold
  <2>2. \A k \in hooks' : k \in Hooks /\ HookTold(k)
    BY <1>5, <1>7 DEF HookCredit
  <2>3. /\ credits' \in {credits, 1}
        /\ UNCHANGED <<queue, submitted, synced, bill, rows, payload>>
    BY <1>7 DEF HookCredit
  <2>4. credits' \in Nat
    <3>1. credits \in Nat
      BY <1>2 DEF RowsType
    <3> QED
      BY <2>3, <3>1
  <2> QED
    BY <1>1, <1>2, <1>3, <2>1, <2>2, <2>3, <2>4, HookStep DEF PayloadOK, RowsType
<1>8. CASE HookEmit(h)
  <2>1. \A k \in hooks' : k \in Hooks /\ HookTold(k)
    <3> DEFINE next == IF setup.source = "amocrm" /\ h.event # "cancelled" THEN {"sync"} ELSE {}
    <3>1. /\ next \in SUBSET {"sync"} /\ ("sync" \in next => h.event # "cancelled")
          /\ Advance(h, next)
      BY <1>8 DEF HookEmit
    <3> HIDE DEF next
    <3> QED
      BY <1>5, <3>1
  <2>2. UNCHANGED <<submitted, credits, synced, bill>>
    BY <1>8 DEF HookEmit
  <2>3. CASE setup.endpoint
    <3>1. /\ rows' = [rows EXCEPT ![h.event] = "open"]
          /\ payload' = [payload EXCEPT ![h.event] = status]
          /\ queue' \subseteq queue \cup {Message("deliver", h.event)}
      BY <1>8, <2>3 DEF HookEmit
    <3>2. /\ payload' \in [Events -> Statuses \cup {""}]
          /\ \A e \in Events : PayloadOK(e) => PayloadOK(e)'
          /\ PayloadOK(h.event)'
      BY <1>1, <1>2, <1>3, <3>1 DEF RowsType, ProcessType, PayloadOK
    <3>3. /\ rows' \in [Events -> {"none", "open", "delivered"}]
          /\ \A e \in Events : rows'[e] = "delivered" => rows[e] = "delivered"
      BY <1>2, <1>3, <3>1 DEF RowsType
    <3>4. Message("deliver", h.event) \in Messages /\ Told(Message("deliver", h.event))'
      <4>1. /\ Message("deliver", h.event).task = "deliver"
            /\ Message("deliver", h.event).event = h.event
        BY DEF Message
      <4>2. Happened(h.event)'
        BY <1>1, <1>3 DEF HookTold, Happened
      <4>3. ASSUME NEW m, m.task = "deliver", m.event = h.event PROVE Told(m)'
        BY <3>2, <4>2, <4>3 DEF Told
      <4> QED
        BY <1>3, <4>1, <4>3, NewMessage
    <3> QED
      BY <1>1, <1>2, <1>3, <2>1, <2>2, <3>1, <3>2, <3>3, <3>4, HookStep DEF RowsType
  <2>4. CASE ~setup.endpoint
    <3>1. UNCHANGED <<rows, payload, queue>>
      BY <1>8, <2>4 DEF HookEmit
    <3> QED
      BY <1>1, <1>2, <1>3, <2>1, <2>2, <3>1, HookStep DEF PayloadOK, RowsType
  <2> QED
    BY <2>3, <2>4
<1>9. CASE HookSync(h)
  <2>1. \A k \in hooks' : k \in Hooks /\ HookTold(k)
    BY <1>5, <1>9 DEF HookSync
  <2>2. /\ UNCHANGED ours
        /\ queue' \subseteq queue \cup
             {Message(IF h.event = "paid" THEN "sync_paid" ELSE "sync_refunded", "")}
    BY <1>9 DEF HookSync
  <2>3. ASSUME NEW m, m = Message(IF h.event = "paid" THEN "sync_paid" ELSE "sync_refunded", "")
        PROVE  m \in Messages /\ Told(m)'
    <3>1. Happened(h.event)' /\ h.event \in {"paid", "refunded"}
      BY <1>1, <1>3, <1>9 DEF HookSync, HookTold, Happened, Events
    <3>2. CASE h.event = "paid"
      <4>1. m \in Messages /\ m.task = "sync_paid"
        BY <1>4, <2>3, <3>2 DEF Plain
      <4> QED
        BY <3>1, <3>2, <4>1 DEF Told
    <3>3. CASE h.event = "refunded"
      <4>1. m \in Messages /\ m.task = "sync_refunded"
        BY <1>4, <2>3, <3>3 DEF Plain
      <4> QED
        BY <3>1, <3>3, <4>1 DEF Told
    <3> QED
      BY <3>1, <3>2, <3>3
  <2>4. queue' \subseteq Messages /\ \A m \in queue' : m \in queue \/ Told(m)'
    BY <1>3, <2>2, <2>3
  <2> QED
    BY <1>1, <1>2, <2>1, <2>2, <2>4, HookStep DEF ours, PayloadOK, RowsType
<1> QED
  BY <1>1, <1>6, <1>7, <1>8, <1>9

\* Start and Die change queue, worker and hooks only, and put nothing new there.
LEMMA WorkerStep ==
  ASSUME IInv, UNCHANGED <<setup, status, outside, ours>>, queue' \subseteq queue,
         hooks' \subseteq hooks, deaths' \in 0 .. MaxDeaths,
         worker' \in [Workers -> {Idle} \cup Running],
         \A v \in Workers : \/ worker'[v] \in {worker[v], Idle}
                            \/ worker'[v].step = "call" /\ worker'[v].msg \in queue
  PROVE  IInv'
<1>2. CeleryType /\ ProcessType /\ RowsType
  BY Parts DEF IInv
<1>4. TypeOK'
  <2>1. CeleryType'
    BY <1>2 DEF CeleryType
  <2>2. ProcessType'
    BY <1>2 DEF ProcessType
  <2>3. RowsType'
    BY <1>2 DEF RowsType, outside, ours
  <2> QED
    BY <2>1, <2>2, <2>3, PartsNext
<1>5. Recorded'
  <2>1. RecordedMeansDone'
    BY DEF IInv, Recorded, RecordedMeansDone, outside, ours
  <2>2. ASSUME NEW v \in Workers PROVE Relies(v)'
    <3>1. Relies(v)
      BY DEF IInv, Recorded
    <3>2. CASE worker'[v] = worker[v]
      BY <3>1, <3>2 DEF Relies, outside
    <3>3. CASE worker'[v] = Idle
      BY <3>3 DEF Relies
    <3>4. CASE worker'[v].step = "call"
      BY <3>4 DEF Relies
    <3> QED
      BY <3>2, <3>3, <3>4
  <2> QED
    BY <2>1, <2>2 DEF Recorded
<1>6. NotAhead'
  BY DEF IInv, NotAhead, Happened, outside, ours
<1>7. AllTold'
  <2>1. AllTold
    BY DEF IInv
  <2>2. \A h \in hooks' : HookTold(h)'
    BY <2>1 DEF AllTold, HookTold, Happened
  <2>3. ASSUME NEW m, Told(m) PROVE Told(m)'
    BY <2>3, ToldOn DEF ours
  <2>4. \A m \in queue' : Told(m)'
    BY <2>1, <2>3 DEF AllTold
  <2>5. ASSUME NEW v \in Workers, worker'[v] # Idle PROVE Told(worker[v].msg)'
    <3>1. Told(worker'[v].msg)
      BY <2>1, <2>5 DEF AllTold
    <3>2. ASSUME NEW n, n = worker'[v].msg PROVE Told(n)'
      BY <2>3, <3>1, <3>2
    <3> QED
      BY <3>2 DEF Told, Happened, PayloadOK
  <2> QED
    BY <2>2, <2>4, <2>5 DEF AllTold
<1> QED
  BY <1>4, <1>5, <1>6, <1>7 DEF IInv

LEMMA StartLemma ==
  ASSUME IInv, NEW w \in Workers, Start(w)
  PROVE  IInv'
<1>1. CeleryType /\ ProcessType /\ RowsType
  BY Parts DEF IInv
<1>2. PICK m \in queue :
        \/ queue' = queue \ {m} /\ UNCHANGED worker
        \/ /\ worker' = [worker EXCEPT ![w] = [step |-> "call", msg |-> m, seen |-> bill]]
           /\ UNCHANGED queue
  BY DEF Start
<1>3. /\ queue' \subseteq queue /\ worker' \in [Workers -> {Idle} \cup Running]
      /\ \A v \in Workers : \/ worker'[v] \in {worker[v], Idle}
                            \/ worker'[v].step = "call" /\ worker'[v].msg \in queue
  <2>0. queue' \subseteq queue
    BY <1>2
  <2>1. CASE UNCHANGED worker
    BY <1>1, <2>0, <2>1 DEF CeleryType
  <2>2. CASE worker' = [worker EXCEPT ![w] = [step |-> "call", msg |-> m, seen |-> bill]]
    <3> DEFINE r == [step |-> "call", msg |-> m, seen |-> bill]
    <3>1. r \in Running /\ r.step = "call" /\ r.msg = m
      BY <1>1 DEF CeleryType, RowsType, Running
    <3> HIDE DEF r
    <3>2. worker' \in [Workers -> {Idle} \cup Running] /\ Becomes(w, r)
      BY <1>1, <2>2, <3>1, BecomesLemma DEF r
    <3>3. ASSUME NEW v \in Workers
          PROVE  \/ worker'[v] \in {worker[v], Idle}
                 \/ worker'[v].step = "call" /\ worker'[v].msg \in queue
      BY <3>1, <3>2 DEF Becomes
    <3> QED
      BY <2>0, <3>2, <3>3
  <2> QED
    BY <1>2, <2>1, <2>2
<1>4. UNCHANGED <<setup, status, hooks, outside, ours, deaths>>
  BY DEF Start
<1> QED
  BY <1>1, <1>3, <1>4, WorkerStep DEF ProcessType

LEMMA DieLemma ==
  ASSUME IInv, Die
  PROVE  IInv'
<1>1. CeleryType /\ ProcessType
  BY Parts DEF IInv
<1>2. deaths' \in 0 .. MaxDeaths
  BY <1>1, DeathAssumption DEF ProcessType, Die
<1>3. /\ UNCHANGED <<setup, status, outside, ours>> /\ hooks' \subseteq hooks
      /\ queue' \subseteq queue
      /\ UNCHANGED worker \/ \E w \in Workers : worker' = [worker EXCEPT ![w] = Idle]
  BY DEF Die
<1>4. /\ worker' \in [Workers -> {Idle} \cup Running]
      /\ \A v \in Workers : worker'[v] \in {worker[v], Idle}
  BY <1>1, <1>3 DEF CeleryType
<1> QED
  BY <1>2, <1>3, <1>4, WorkerStep

LEMMA TaskLemma ==
  ASSUME IInv, NEW w \in Workers, Task(w)
  PROVE  IInv' /\ Moves(w)
BY SubmitReceiptLemma, PostLinkNoteLemma, CreateBillLemma, MarkBillPaidLemma,
   SyncInvoicePaidLemma, SyncInvoiceRefundedLemma, DeliverWebhookLemma DEF Task

LEMMA IInvInit == Init => IInv
<1> SUFFICES ASSUME Init PROVE IInv
  OBVIOUS
<1>1. setup \in Setups /\ status = "pending" /\ hooks = {} /\ deaths = 0
  BY DEF Init
<1>2. CeleryType
  <2>1. Message("post_link", "") \in Messages
    BY NewMessage DEF Plain
  <2> QED
    BY <2>1 DEF CeleryType, Init
<1>3. ProcessType
  BY <1>1, DeathAssumption DEF ProcessType, Statuses
<1>4. RowsType
  BY DEF RowsType, Init
<1>5. TypeOK
  BY <1>2, <1>3, <1>4, Parts
<1>6. Recorded
  <2>1. bill <= elements
    <3>1. bill = 0 /\ elements = 0
      BY DEF Init
    <3> QED
      BY <3>1
  <2>2. RecordedMeansDone
    BY <2>1 DEF Init, RecordedMeansDone
  <2>3. \A w \in Workers : worker[w] = Idle
    BY DEF Init
  <2> QED
    BY <2>2, <2>3 DEF Recorded, Relies
<1>7. NotAhead
  <2>1. credits = 0
    BY DEF Init
  <2>2. ~(credits > 0)
    BY <2>1
  <2> QED
    BY <2>2 DEF NotAhead, Init
<1>8. AllTold
  <2>1. \A m \in queue : m.task = "post_link"
    <3>1. Message("post_link", "").task = "post_link"
      BY DEF Message
    <3> QED
      BY <3>1 DEF Init
  <2>2. \A w \in Workers : worker[w] = Idle
    BY DEF Init
  <2> QED
    BY <1>1, <2>1, <2>2 DEF AllTold, Told
<1> QED
  BY <1>5, <1>6, <1>7, <1>8 DEF IInv

LEMMA IInvStep == IInv /\ [Next]_vars => IInv'
<1> SUFFICES ASSUME IInv, [Next]_vars PROVE IInv'
  OBVIOUS
<1>1. CASE MarkPaid
  BY <1>1, CommitLemma DEF MarkPaid, Events
<1>2. CASE MarkRefunded
  BY <1>2, CommitLemma DEF MarkRefunded, Events
<1>3. CASE CancelInvoice
  BY <1>3, CommitLemma DEF CancelInvoice, Events
<1>4. CASE Hook
  BY <1>4, HookLemma
<1>5. CASE Celery
  BY <1>5, StartLemma, TaskLemma DEF Celery
<1>6. CASE Die
  BY <1>6, DieLemma
<1>7. CASE UNCHANGED vars
  <2>1. deaths' \in 0 .. MaxDeaths /\ worker' \in [Workers -> {Idle} \cup Running]
    BY <1>7, Parts DEF vars, IInv, CeleryType, ProcessType
  <2> QED
    BY <1>7, <2>1, WorkerStep DEF vars
<1> QED
  BY <1>1, <1>2, <1>3, <1>4, <1>5, <1>6, <1>7 DEF Next

(***************************************************************************)
(* A refund that is on its lead                                            *)
(***************************************************************************)

\* The invoice is refunded, its lead does not say paid, and no sync runs that
\* read the invoice while it was paid.
Refunded == status = "refunded" /\ lead # "paid" /\ ~Overtaken

LEMMA NoSync == ~Overtaken <=>
  \A w \in Workers : worker[w] # Idle => worker[w].msg.task # "sync_paid"
BY DEF Overtaken

LEMMA RefundedStep == IInv /\ Refunded /\ [Next]_vars => Refunded'
<1> SUFFICES ASSUME IInv, Refunded, [Next]_vars PROVE Refunded'
  OBVIOUS
<1>1. /\ status = "refunded" /\ lead # "paid" /\ CeleryType
      /\ \A w \in Workers : worker[w] # Idle => worker[w].msg.task # "sync_paid"
  BY Parts, NoSync DEF Refunded, IInv
\* Who moves keeps its message or ends.
<1>2. ASSUME UNCHANGED status, lead' # "paid",
             \A v \in Workers : worker'[v] # Idle =>
               worker'[v].msg.task # "sync_paid"
      PROVE  Refunded'
  BY <1>1, <1>2 DEF Refunded, Overtaken
<1>3. CASE MarkPaid \/ MarkRefunded \/ CancelInvoice
  BY <1>1, <1>3 DEF MarkPaid, MarkRefunded, CancelInvoice, Commit
<1>4. CASE Hook \/ UNCHANGED vars
  BY <1>1, <1>2, <1>4 DEF Hook, vars, outside
<1>5. ASSUME NEW w \in Workers, Start(w) PROVE Refunded'
  <2>1. UNCHANGED status /\ lead' # "paid"
    BY <1>1, <1>5 DEF Start, outside
  <2>2. CASE UNCHANGED worker
    BY <1>1, <1>2, <2>1, <2>2
  <2>3. ASSUME NEW m \in queue, ~NothingToDo(m),
               worker' = [worker EXCEPT ![w] = [step |-> "call", msg |-> m, seen |-> bill]]
        PROVE  Refunded'
    <3>1. m.task # "sync_paid"
      BY <1>1, <2>3 DEF NothingToDo, LeadKnows
    <3>2. worker'[w].msg = m /\ \A v \in Workers : v # w => worker'[v] = worker[v]
      BY <1>1, <2>3 DEF CeleryType
    <3> QED
      BY <1>1, <1>2, <2>1, <3>1, <3>2
  <2> QED
    BY <1>5, <2>2, <2>3 DEF Start
<1>6. ASSUME NEW w \in Workers, Task(w) PROVE Refunded'
  <2>1. Moves(w)
    BY <1>6, TaskLemma
  <2>2. PICK a \in Answers : \/ SubmitReceipt(w, a) \/ PostLinkNote(w, a) \/ CreateBill(w, a)
                             \/ MarkBillPaid(w, a) \/ SyncInvoicePaid(w, a)
                             \/ SyncInvoiceRefunded(w, a) \/ DeliverWebhook(w, a)
    BY <1>6 DEF Task
  <2>3. worker[w] # Idle
    BY <2>2 DEF SubmitReceipt, PostLinkNote, CreateBill, MarkBillPaid, SyncInvoicePaid,
                SyncInvoiceRefunded, DeliverWebhook, At
  <2>4. worker[w].msg.task # "sync_paid"
    BY <1>1, <2>3
  <2>5. lead' # "paid"
    BY <1>1, <2>2, <2>4
    DEF SubmitReceipt, PostLinkNote, CreateBill, MarkBillPaid, SyncInvoicePaid,
        SyncInvoiceRefunded, DeliverWebhook, At, outside
  <2>6. UNCHANGED status
    BY <1>6 DEF Task
  <2>7. worker'[w] = Idle \/ worker'[w].msg = worker[w].msg
    BY <2>1 DEF Moves, Becomes
  <2>8. \A v \in Workers : v # w => worker'[v] = worker[v]
    BY <2>1 DEF Moves, Becomes
  <2>9. \A v \in Workers : worker'[v] # Idle => worker'[v].msg.task # "sync_paid"
    BY <1>1, <2>4, <2>7, <2>8
  <2> QED
    BY <1>2, <2>5, <2>6, <2>9
<1>7. CASE Die
  <2>1. \A v \in Workers : worker'[v] \in {worker[v], Idle}
    BY <1>1, <1>7 DEF Die, CeleryType
  <2>2. UNCHANGED status /\ lead' # "paid"
    BY <1>1, <1>7 DEF Die, outside
  <2> QED
    BY <1>1, <1>2, <2>1, <2>2
<1> QED
  BY <1>3, <1>4, <1>5, <1>6, <1>7 DEF Next, Celery

(***************************************************************************)
(* The theorems                                                            *)
(***************************************************************************)

\* The inductive invariant holds.
THEOREM Invariance == Spec => []IInv
<1> QED
  BY IInvInit, IInvStep, PTL DEF Spec

\* Every variable keeps its type, whatever fails, dies or is run twice.
THEOREM TypeCorrect == Spec => []TypeOK
<1>1. IInv => TypeOK
  BY DEF IInv
<1> QED
  BY <1>1, Invariance, PTL

\* What a row says was done outside was done: of the receipt at Click, the lead
\* in amoCRM, the catalog element of the bill and the event at the endpoint.
THEOREM RecordsAreTrue == Spec => []RecordedMeansDone
<1>1. IInv => RecordedMeansDone
  BY DEF IInv, Recorded
<1> QED
  BY <1>1, Invariance, PTL

\* Click, amoCRM, the ledger and the endpoint never hear of a payment, a refund
\* or a cancellation that has not happened, however late or often a task runs.
THEOREM NobodyHearsTooEarly == Spec => []NotAhead
<1>1. IInv => NotAhead
  BY DEF IInv
<1> QED
  BY <1>1, Invariance, PTL

\* A refund that has reached the lead, or has found it not yet paid, stays: a
\* retry of sync_invoice_paid looks at the invoice before it writes.
THEOREM RefundStays == Spec => RefundNotUndone
<1>1. status = "refunded" /\ lead # "paid" /\ ~Overtaken => Refunded
  BY DEF Refunded
<1>2. Refunded => lead # "paid"
  BY DEF Refunded
<1> QED
  BY <1>1, <1>2, RefundedStep, Invariance, PTL DEF Spec, RefundNotUndone

(***************************************************************************)
(* The invoice itself is one of InvoiceLifecycle, whoever it was paid by.  *)
(***************************************************************************)
Via == IF status \in {"paid", "refunded"} THEN "provider" ELSE ""

Lifecycle ==
  INSTANCE InvoiceLifecycle WITH Invoices <- {"invoice"}, Providers <- {"provider"},
                                 status <- [i \in {"invoice"} |-> status],
                                 paidVia <- [i \in {"invoice"} |-> Via]

LEMMA LifecycleStep ==
  [Next]_vars => [Lifecycle!Next]_<<[i \in {"invoice"} |-> status], [i \in {"invoice"} |-> Via]>>
<1> DEFINE s == [i \in {"invoice"} |-> status]
           v == [i \in {"invoice"} |-> Via]
<1> SUFFICES ASSUME [Next]_vars PROVE [Lifecycle!Next]_<<s, v>>
  OBVIOUS
<1>1. ASSUME UNCHANGED status PROVE UNCHANGED <<s, v>>
  BY <1>1 DEF Via
<1>2. CASE MarkPaid
  <2>1. Lifecycle!Pay("invoice")
    BY <1>2 DEF MarkPaid, Commit, Via, Lifecycle!Pay
  <2> QED
    BY <2>1 DEF Lifecycle!Next
<1>3. CASE MarkRefunded
  <2>1. Lifecycle!Refund("invoice")
    BY <1>3 DEF MarkRefunded, Commit, Via, Lifecycle!Refund
  <2> QED
    BY <2>1 DEF Lifecycle!Next
<1>4. CASE CancelInvoice
  <2>1. Lifecycle!Cancel("invoice")
    BY <1>4 DEF CancelInvoice, Commit, Via, Lifecycle!Cancel
  <2> QED
    BY <2>1 DEF Lifecycle!Next
<1>5. CASE Hook \/ Celery \/ Die \/ UNCHANGED vars
  <2>1. UNCHANGED status
    BY <1>5 DEF Hook, Celery, Start, Task, Die, vars
  <2> QED
    BY <1>1, <2>1
<1> QED
  BY <1>2, <1>3, <1>4, <1>5 DEF Next

\* Whatever its hooks and tasks do, the invoice is settled at most once, is cancelled
\* only before that, and is refunded only after.
THEOREM Refinement == Spec => Lifecycle!Spec
<1>1. Init => Lifecycle!Init
  BY DEF Init, Via, Lifecycle!Init
<1> QED
  BY <1>1, LifecycleStep, PTL DEF Spec, Lifecycle!Spec
=================================================================================
