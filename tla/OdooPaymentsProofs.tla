-------------------------- MODULE OdooPaymentsProofs --------------------------
(* Theorems of OdooPayments, for any transactions, invoices, callers and       *)
(* amounts, and any number of secrets; and of Connection, for any companies    *)
(* of uzbridge and of the Odoo database, after any number of connects.         *)
EXTENDS OdooPayments, Connection, SequenceTheorems, WellFoundedInduction, TLAPS

(***************************************************************************)
(* The inductive invariant                                                 *)
(***************************************************************************)
Made(i)    == status[i] # "none"
WasPaid(t) == \E i \in Invoices : reference[i] = t /\ status[i] \in {"paid", "refunded"}
Refunded(t) == \E i \in Invoices : reference[i] = t /\ status[i] = "refunded"

\* An invoice has its reference from the start.
MadeFor == \A i \in Invoices : Made(i) => reference[i] \in Txs

\* What Odoo keeps, and what callers were answered, is an invoice of that reference.
Fits(t, i) == Made(i) /\ reference[i] = t

RefsFit == \A t \in Txs : txRef[t] # NoInvoice => Fits(t, txRef[t])

AnswersFit ==
  \A c \in Callers : call[c].step = "answered" =>
    Fits(call[c].tx, call[c].found) /\ amount[call[c].found] = call[c].amount

\* A caller that found nothing has nothing live, and no one else makes it any.
LookedRight ==
  \A c \in Callers, i \in Invoices :
    call[c].step = "looked" /\ reference[i] = call[c].tx /\ creator[i] = c =>
      status[i] \in {"none", "cancelled"}

\* What is said of an invoice stays true of it: nothing leaves "refunded" or
\* "cancelled", and "paid" is left for "refunded" only.
True(i, s) ==
  /\ Made(i) /\ reference[i] \in Txs
  /\ s \in {"paid", "refunded"} => status[i] \in {"paid", "refunded"}
  /\ s = "refunded" => status[i] = "refunded"

HooksTrue ==
  \A h \in hooks : status[h.inv] \in Kinds /\ True(h.inv, h.kind)

EventsTrue ==
  \A e \in events \cup taken :
    /\ True(e.inv, e.kind) /\ True(e.inv, e.status)
    /\ e.kind = "paid" => e.status \in {"paid", "refunded"}

FetchedTrue ==
  \A t \in Txs : fetched[t] # "none" =>
    /\ txRef[t] # NoInvoice
    /\ fetched[t] \in {"paid", "refunded"} => WasPaid(t)

\* A refund is asked for what Odoo knows the invoice of.
OdooTrue ==
  \A t \in Txs :
    /\ txState[t] = "done" => txRef[t] # NoInvoice /\ WasPaid(t)
    /\ booked[t] => WasPaid(t)
    /\ refund[t] # "none" => txRef[t] # NoInvoice
    /\ refund[t] \in {"told", "done"} => Refunded(t)

IInv ==
  /\ TypeOK /\ MadeFor /\ RefsFit /\ AnswersFit /\ LookedRight /\ RepeatIsSame
  /\ HooksTrue /\ EventsTrue /\ FetchedTrue /\ OdooTrue /\ TakenIsBooked

-----------------------------------------------------------------------------
(***************************************************************************)
(* What stays true while invoices go forward                               *)
(***************************************************************************)
Forward ==
  \A i \in Invoices : status[i] # "none" =>
    /\ status'[i] # "none"
    /\ reference'[i] = reference[i] /\ amount'[i] = amount[i] /\ creator'[i] = creator[i]
    /\ status[i] \in {"paid", "refunded"} => status'[i] \in {"paid", "refunded"}
    /\ status[i] = "refunded" => status'[i] = "refunded"
    /\ status[i] = "cancelled" => status'[i] = "cancelled"

LEMMA SaidStays ==
  ASSUME Forward
  PROVE  /\ \A t \in Txs : WasPaid(t) => WasPaid(t)'
         /\ \A t \in Txs : Refunded(t) => Refunded(t)'
         /\ \A t \in Txs, i \in Invoices : Fits(t, i) => Fits(t, i)'
         /\ \A i \in Invoices, s \in Kinds : True(i, s) => True(i, s)'
<1>1. ASSUME NEW t \in Txs, WasPaid(t) PROVE WasPaid(t)'
  BY <1>1 DEF Forward, WasPaid
<1>2. ASSUME NEW t \in Txs, Refunded(t) PROVE Refunded(t)'
  BY <1>2 DEF Forward, Refunded
<1>3. ASSUME NEW t \in Txs, NEW i \in Invoices, Fits(t, i) PROVE Fits(t, i)'
  BY <1>3 DEF Forward, Fits, Made
<1>4. ASSUME NEW i \in Invoices, NEW s \in Kinds, True(i, s) PROVE True(i, s)'
  BY <1>4 DEF Forward, True, Made
<1> QED
  BY <1>1, <1>2, <1>3, <1>4

LEMMA InvoicesStay ==
  ASSUME IInv, UNCHANGED invoice
  PROVE  Forward /\ MadeFor' /\ RepeatIsSame'
BY DEF IInv, invoice, Forward, MadeFor, Made, RepeatIsSame

LEMMA CallsStay ==
  ASSUME IInv, Forward, UNCHANGED call,
         \A i \in Invoices : status[i] = "none" => status'[i] = "none"
  PROVE  AnswersFit' /\ LookedRight'
<1>1. TypeOK /\ AnswersFit /\ LookedRight
  BY DEF IInv
<1>2. ASSUME NEW c \in Callers, call[c].step = "answered"
      PROVE  /\ Fits(call[c].tx, call[c].found)'
             /\ amount'[call[c].found] = call[c].amount
  <2>1. call[c] \in Calls
    BY <1>1, <1>2 DEF TypeOK, Idle
  <2>2. call[c].found \in Invoices
    BY <1>2, <2>1 DEF Calls
  <2> QED
    BY <1>1, <1>2, <2>2 DEF AnswersFit, Forward, Fits, Made
<1>3. AnswersFit'
  BY <1>2 DEF AnswersFit
<1>4. LookedRight'
  BY <1>1 DEF LookedRight, Forward
<1> QED
  BY <1>3, <1>4

LEMMA HooksStay ==
  ASSUME IInv, Forward, hooks' \subseteq hooks
  PROVE  HooksTrue'
<1> SUFFICES ASSUME NEW h \in hooks'
             PROVE  status'[h.inv] \in Kinds /\ True(h.inv, h.kind)'
  BY DEF HooksTrue
<1>1. h.inv \in Invoices /\ h.kind \in Kinds
  BY DEF IInv, TypeOK
<1>2. status[h.inv] \in Kinds /\ True(h.inv, h.kind)
  BY DEF IInv, HooksTrue
<1>3. status'[h.inv] \in Kinds
  BY <1>1, <1>2 DEF Forward, Kinds
<1> QED
  BY <1>1, <1>2, <1>3, SaidStays

LEMMA EventsStay ==
  ASSUME IInv, Forward, events' \subseteq events, taken' \subseteq events \cup taken
  PROVE  EventsTrue'
<1> SUFFICES ASSUME NEW e \in events' \cup taken'
             PROVE  /\ True(e.inv, e.kind)' /\ True(e.inv, e.status)'
                    /\ e.kind = "paid" => e.status \in {"paid", "refunded"}
  BY DEF EventsTrue
<1>1. e.inv \in Invoices /\ e.kind \in Kinds /\ e.status \in Kinds
  BY DEF IInv, TypeOK, EventSet
<1>2. /\ True(e.inv, e.kind) /\ True(e.inv, e.status)
      /\ e.kind = "paid" => e.status \in {"paid", "refunded"}
  BY DEF IInv, EventsTrue
<1> QED
  BY <1>1, <1>2, SaidStays

\* What Odoo writes down is true when it does.
LEMMA OdooStays ==
  ASSUME IInv, Forward,
         \A t \in Txs : \/ txRef'[t] = txRef[t]
                        \/ txRef'[t] \in Invoices /\ Fits(t, txRef[t])',
         \A t \in Txs : txState'[t] = "done" /\ txState[t] # "done" =>
                          txRef'[t] # NoInvoice /\ WasPaid(t)',
         \A t \in Txs : booked'[t] /\ ~booked[t] => WasPaid(t)',
         \A t \in Txs : refund'[t] # "none" /\ refund[t] = "none" => txRef'[t] # NoInvoice,
         \A t \in Txs : refund'[t] \in {"told", "done"} /\ refund[t] \notin {"told", "done"}
                          => Refunded(t)',
         \A t \in Txs : fetched'[t] # "none" /\ fetched'[t] # fetched[t] =>
                          /\ txRef'[t] # NoInvoice
                          /\ fetched'[t] \in {"paid", "refunded"} => WasPaid(t)'
  PROVE  RefsFit' /\ FetchedTrue' /\ OdooTrue'
<1>1. /\ TypeOK /\ RefsFit /\ FetchedTrue /\ OdooTrue
      /\ NoInvoice \notin Invoices
  BY NoneAssumption DEF IInv
<1>2. /\ \A t \in Txs : WasPaid(t) => WasPaid(t)'
      /\ \A t \in Txs : Refunded(t) => Refunded(t)'
      /\ \A t \in Txs, i \in Invoices : Fits(t, i) => Fits(t, i)'
  BY SaidStays
<1>3. RefsFit'
  <2> SUFFICES ASSUME NEW t \in Txs, txRef'[t] # NoInvoice PROVE Fits(t, txRef[t])'
    BY DEF RefsFit
  <2>1. CASE txRef'[t] = txRef[t]
    <3>1. txRef[t] \in Invoices /\ Fits(t, txRef[t])
      BY <1>1, <2>1 DEF TypeOK, RefsFit
    <3> QED
      BY <1>2, <2>1, <3>1 DEF Fits, Made
  <2> QED
    BY <2>1
<1>4. \A t \in Txs : txRef[t] # NoInvoice => txRef'[t] # NoInvoice
  BY <1>1
<1>5. FetchedTrue'
  BY <1>1, <1>2, <1>4 DEF FetchedTrue
<1>6. OdooTrue'
  <2> SUFFICES ASSUME NEW t \in Txs
               PROVE  /\ txState'[t] = "done" => txRef'[t] # NoInvoice /\ WasPaid(t)'
                      /\ booked'[t] => WasPaid(t)'
                      /\ refund'[t] # "none" => txRef'[t] # NoInvoice
                      /\ refund'[t] \in {"told", "done"} => Refunded(t)'
    BY DEF OdooTrue
  <2> QED
    BY <1>1, <1>2, <1>4 DEF OdooTrue
<1> QED
  BY <1>3, <1>5, <1>6

LEMMA BooksStay ==
  ASSUME IInv, Forward, UNCHANGED taken,
         \A t \in Txs : booked[t] => booked'[t],
         \A t \in Txs : txState[t] = "cancel" => txState'[t] = "cancel"
  PROVE  TakenIsBooked'
<1> SUFFICES ASSUME NEW e \in taken, e.kind = "paid"
             PROVE  booked'[reference'[e.inv]] \/ txState'[reference'[e.inv]] = "cancel"
  BY DEF TakenIsBooked
<1>1. e.inv \in Invoices /\ e \in events \cup taken
  BY DEF IInv, TypeOK, EventSet
<1>2. Made(e.inv) /\ reference[e.inv] \in Txs
  BY <1>1 DEF IInv, EventsTrue, True
<1>3. reference'[e.inv] = reference[e.inv]
  BY <1>1, <1>2 DEF Forward, Made
<1> QED
  BY <1>2, <1>3 DEF IInv, TakenIsBooked

(***************************************************************************)
(* The actions of uzbridge                                                 *)
(***************************************************************************)
LEMMA InitIInv == Init => IInv
<1> SUFFICES ASSUME Init PROVE IInv
  OBVIOUS
<1>1. TypeOK
  BY SecretAssumption DEF Init, TypeOK, Statuses
<1>2. MadeFor /\ RefsFit /\ AnswersFit /\ LookedRight
  BY DEF Init, MadeFor, Made, RefsFit, AnswersFit, LookedRight, Idle
<1>3. RepeatIsSame
  BY DEF Init, RepeatIsSame
<1>4. HooksTrue /\ EventsTrue /\ FetchedTrue /\ OdooTrue /\ TakenIsBooked
  BY DEF Init, HooksTrue, EventsTrue, FetchedTrue, OdooTrue, TakenIsBooked
<1> QED
  BY <1>1, <1>2, <1>3, <1>4 DEF IInv

\* A failed call marks a transaction that was open.
LEMMA ErrorStep ==
  ASSUME NEW t \in Txs, SetError(t),
         txState \in [Txs -> {"draft", "pending", "done", "cancel", "error"}]
  PROVE  /\ txState' \in [Txs -> {"draft", "pending", "done", "cancel", "error"}]
         /\ \A u \in Txs : txState'[u] = txState[u] \/ (txState'[u] = "error" /\ txState[u] \in {"draft", "pending"})
BY DEF SetError

\* An answer, and what Odoo makes of it.
LEMMA AnswerStep ==
  ASSUME IInv, Forward, NEW c \in Callers, NEW t \in Txs, NEW a \in Amounts, NEW i \in Invoices,
         Answer(c, t, a, i), Receive(t, i), Fits(t, i)', amount'[i] = a,
         UNCHANGED <<channel, booked, known, fetched, refund>>
  PROVE  /\ AnswersFit' /\ RefsFit' /\ FetchedTrue' /\ OdooTrue'
         /\ HooksTrue' /\ EventsTrue' /\ TakenIsBooked'
         /\ call' \in [Callers -> {Idle} \cup Calls]
         /\ txRef' \in [Txs -> Invoices \cup {NoInvoice}]
         /\ txState' \in [Txs -> {"draft", "pending", "done", "cancel", "error"}]
<1> DEFINE new == [step |-> "answered", tx |-> t, amount |-> a, found |-> i]
<1>1. /\ TypeOK
      /\ txRef \in [Txs -> Invoices \cup {NoInvoice}]
      /\ txState \in [Txs -> {"draft", "pending", "done", "cancel", "error"}]
      /\ call \in [Callers -> {Idle} \cup Calls]
      /\ NoInvoice \notin Invoices
  BY NoneAssumption DEF IInv, TypeOK
<1>2. new \in Calls
  BY DEF Calls
<1>3. /\ call' \in [Callers -> {Idle} \cup Calls]
      /\ \A d \in Callers : call'[d] = IF d = c THEN new ELSE call[d]
  BY <1>1, <1>2 DEF Answer
<1>4. /\ txState' \in [Txs -> {"draft", "pending", "done", "cancel", "error"}]
      /\ \A u \in Txs : txState'[u] = txState[u] \/ (txState'[u] = "error" /\ txState[u] \in {"draft", "pending"})
  <2>1. SetError(t) \/ txState' = txState
    BY DEF Receive
  <2> QED
    BY <1>1, <2>1, ErrorStep
<1>5. /\ txRef' \in [Txs -> Invoices \cup {NoInvoice}]
      /\ \A u \in Txs : txRef'[u] = txRef[u] \/ (u = t /\ txRef'[u] = i)
  <2>1. txRef' = [txRef EXCEPT ![t] = i] \/ txRef' = txRef
    BY DEF Receive
  <2>2. CASE txRef' = [txRef EXCEPT ![t] = i]
    BY <1>1, <2>2
  <2>3. CASE txRef' = txRef
    BY <1>1, <2>3
  <2> QED
    BY <2>1, <2>2, <2>3
<1>6. AnswersFit'
  <2> SUFFICES ASSUME NEW d \in Callers, call'[d].step = "answered"
               PROVE  /\ Fits(call[d].tx, call[d].found)'
                      /\ amount'[call'[d].found] = call'[d].amount
    BY DEF AnswersFit
  <2>1. CASE d = c
    BY <1>3, <2>1 DEF Fits, Made
  <2>2. CASE d # c
    <3>1. call'[d] = call[d] /\ call[d] \in Calls
      BY <1>1, <1>3, <2>2 DEF Idle
    <3>2. call[d].found \in Invoices
      BY <3>1 DEF Calls
    <3> QED
      BY <3>1, <3>2 DEF IInv, AnswersFit, Forward, Fits, Made
  <2> QED
    BY <2>1, <2>2
<1>7. \A u \in Txs : txRef'[u] = txRef[u] \/ (txRef'[u] \in Invoices /\ Fits(u, txRef[u])')
  <2> SUFFICES ASSUME NEW u \in Txs, txRef'[u] # txRef[u]
               PROVE  txRef'[u] \in Invoices /\ Fits(u, txRef[u])'
    OBVIOUS
  <2>1. u = t /\ txRef'[u] = i
    BY <1>5
  <2>2. status'[i] # "none" /\ reference'[i] = t
    BY DEF Fits, Made
  <2> QED
    BY <2>1, <2>2 DEF Fits, Made
<1>8. RefsFit' /\ FetchedTrue' /\ OdooTrue'
  BY <1>4, <1>7, OdooStays
<1>9. HooksTrue' /\ EventsTrue'
  BY HooksStay, EventsStay DEF channel
<1>10. TakenIsBooked'
  BY <1>4, BooksStay DEF channel
<1> QED
  BY <1>3, <1>4, <1>5, <1>6, <1>8, <1>9, <1>10

\* The two other ends of a look-up.
NotFound(c, t, a) ==
  /\ ~\E i \in Invoices : Live(i, t)
  /\ call' = [call EXCEPT ![c] = [step |-> "looked", tx |-> t, amount |-> a, found |-> NoInvoice]]
  /\ UNCHANGED <<txRef, txState>>

Found(c, t, a) ==
  \E i \in Invoices : Live(i, t) /\ SameAmount(i, a) /\ Answer(c, t, a, i) /\ Receive(t, i)

LEMMA LookUpStep ==
  ASSUME IInv, NEW c \in Callers, LookUp(c)
  PROVE  IInv'
<1>1. PICK t \in Txs, a \in Amounts :
        Refuse(c, t) \/ NotFound(c, t, a) \/ Found(c, t, a)
  BY DEF LookUp, NotFound, Found
<1>2. UNCHANGED <<invoice, channel, booked, known, fetched, refund>>
  BY DEF LookUp
<1>3. /\ Forward /\ MadeFor' /\ RepeatIsSame'
      /\ \A i \in Invoices : status'[i] = status[i] /\ reference'[i] = reference[i]
                             /\ creator'[i] = creator[i] /\ amount'[i] = amount[i]
  BY <1>2, InvoicesStay DEF invoice
<1>4. HooksTrue' /\ EventsTrue'
  BY <1>2, <1>3, HooksStay, EventsStay DEF channel
<1>5. /\ TypeOK /\ AnswersFit /\ LookedRight
      /\ call \in [Callers -> {Idle} \cup Calls]
      /\ txState \in [Txs -> {"draft", "pending", "done", "cancel", "error"}]
  BY DEF IInv, TypeOK
<1>6. ASSUME call' \in [Callers -> {Idle} \cup Calls],
             txRef' \in [Txs -> Invoices \cup {NoInvoice}],
             txState' \in [Txs -> {"draft", "pending", "done", "cancel", "error"}]
      PROVE  TypeOK'
  BY <1>2, <1>5, <1>6 DEF TypeOK, invoice, channel
<1>7. CASE Found(c, t, a)
  <2>1. PICK i \in Invoices : Live(i, t) /\ SameAmount(i, a) /\ Answer(c, t, a, i) /\ Receive(t, i)
    BY <1>7 DEF Found
  <2>2. Fits(t, i)' /\ amount'[i] = a
    BY <1>3, <2>1 DEF Live, SameAmount, Fits, Made
  <2>3. \A d \in Callers : call'[d] = IF d = c THEN [step |-> "answered", tx |-> t, amount |-> a, found |-> i] ELSE call[d]
    BY <1>5, <2>1 DEF Answer
  <2>4. LookedRight'
    BY <1>3, <1>5, <2>3 DEF LookedRight
  <2> QED
    BY <1>2, <1>3, <1>6, <2>1, <2>2, <2>4, AnswerStep DEF IInv
<1>8. CASE Refuse(c, t) \/ NotFound(c, t, a)
  <2> DEFINE new == [step |-> "looked", tx |-> t, amount |-> a, found |-> NoInvoice]
  <2>1. new \in Calls
    BY DEF Calls
  <2>2. /\ call' \in [Callers -> {Idle} \cup Calls]
        /\ \A d \in Callers : d # c => call'[d] = call[d]
        /\ call'[c] = Idle \/ (call'[c] = new /\ ~\E i \in Invoices : Live(i, t))
    <3>1. CASE Refuse(c, t)
      BY <1>5, <3>1 DEF Refuse
    <3>2. CASE NotFound(c, t, a)
      BY <1>5, <2>1, <3>2 DEF NotFound
    <3> QED
      BY <1>8, <3>1, <3>2
  <2>3. /\ txState' \in [Txs -> {"draft", "pending", "done", "cancel", "error"}]
        /\ \A u \in Txs : txState'[u] = txState[u] \/ (txState'[u] = "error" /\ txState[u] \in {"draft", "pending"})
        /\ txRef' = txRef
    <3>1. CASE Refuse(c, t)
      <4>1. SetError(t) /\ txRef' = txRef
        BY <3>1 DEF Refuse
      <4> QED
        BY <1>5, <4>1, ErrorStep
    <3>2. CASE NotFound(c, t, a)
      BY <1>5, <3>2 DEF NotFound
    <3> QED
      BY <1>8, <3>1, <3>2
  <2>4. TypeOK'
    BY <1>5, <1>6, <2>2, <2>3 DEF TypeOK
  <2>5. AnswersFit'
    <3> SUFFICES ASSUME NEW d \in Callers, call'[d].step = "answered"
                 PROVE  /\ Fits(call[d].tx, call[d].found)'
                        /\ amount'[call'[d].found] = call'[d].amount
      BY DEF AnswersFit
    <3>1. call'[d] = call[d]
      BY <2>2 DEF Idle
    <3>2. call[d] \in Calls
      BY <1>5, <3>1 DEF Idle
    <3>3. call[d].found \in Invoices
      BY <3>1, <3>2 DEF Calls
    <3> QED
      BY <1>3, <1>5, <3>1, <3>3 DEF AnswersFit, Fits, Made
  <2>6. LookedRight'
    <3> SUFFICES ASSUME NEW d \in Callers, NEW i \in Invoices, call'[d].step = "looked",
                        reference'[i] = call'[d].tx, creator'[i] = d
                 PROVE  status'[i] \in {"none", "cancelled"}
      BY DEF LookedRight
    <3>1. CASE d # c
      BY <1>3, <1>5, <2>2, <3>1 DEF LookedRight
    <3>2. CASE d = c
      BY <1>3, <2>2, <3>2 DEF Idle, Live
    <3> QED
      BY <3>1, <3>2
  <2>7. RefsFit' /\ FetchedTrue' /\ OdooTrue' /\ TakenIsBooked'
    BY <1>2, <1>3, <2>3, OdooStays, BooksStay DEF channel
  <2> QED
    BY <1>3, <1>4, <2>4, <2>5, <2>6, <2>7 DEF IInv
<1> QED
  BY <1>1, <1>7, <1>8

LEMMA CreateInvoiceStep ==
  ASSUME IInv, NEW c \in Callers, CreateInvoice(c)
  PROVE  IInv'
<1>2. call[c].step = "looked" /\ UNCHANGED <<channel, booked, known, fetched, refund>>
  BY DEF CreateInvoice
<1>3. TypeOK /\ call[c] \in Calls
  BY <1>2 DEF IInv, TypeOK, Idle
<1>4. PICK t \in Txs, a \in Amounts : t = call[c].tx /\ a = call[c].amount
  BY <1>3 DEF Calls
<1>1. PICK i \in Invoices :
        /\ status[i] = "none"
        /\ status' = [status EXCEPT ![i] = "pending"]
        /\ reference' = [reference EXCEPT ![i] = t]
        /\ amount' = [amount EXCEPT ![i] = a]
        /\ creator' = [creator EXCEPT ![i] = c]
        /\ Answer(c, t, a, i) /\ Receive(t, i)
  BY <1>4 DEF CreateInvoice
<1>5. /\ status' \in [Invoices -> Statuses]
      /\ \A j \in Invoices : status'[j] = IF j = i THEN "pending" ELSE status[j]
  BY <1>1, <1>3 DEF TypeOK, Statuses
<1>6. /\ reference' \in [Invoices -> Txs \cup {NoTx}]
      /\ \A j \in Invoices : reference'[j] = IF j = i THEN t ELSE reference[j]
  BY <1>1, <1>3, <1>4 DEF TypeOK
<1>7. /\ amount' \in [Invoices -> Amounts \cup {0}]
      /\ \A j \in Invoices : amount'[j] = IF j = i THEN a ELSE amount[j]
  BY <1>1, <1>3, <1>4 DEF TypeOK
<1>8. /\ creator' \in [Invoices -> Callers \cup {NoCaller}]
      /\ \A j \in Invoices : creator'[j] = IF j = i THEN c ELSE creator[j]
  BY <1>1, <1>3 DEF TypeOK
<1>9. Forward
  BY <1>1, <1>5, <1>6, <1>7, <1>8 DEF Forward
<1>10. Fits(t, i)' /\ amount'[i] = a
  BY <1>5, <1>6, <1>7 DEF Fits, Made
<1>11. /\ AnswersFit' /\ RefsFit' /\ FetchedTrue' /\ OdooTrue'
       /\ HooksTrue' /\ EventsTrue' /\ TakenIsBooked'
       /\ call' \in [Callers -> {Idle} \cup Calls]
       /\ txRef' \in [Txs -> Invoices \cup {NoInvoice}]
       /\ txState' \in [Txs -> {"draft", "pending", "done", "cancel", "error"}]
  BY <1>1, <1>2, <1>4, <1>9, <1>10, AnswerStep
<1>12. TypeOK'
  BY <1>2, <1>3, <1>5, <1>6, <1>7, <1>8, <1>11 DEF TypeOK, channel
<1>13. MadeFor'
  BY <1>4, <1>5, <1>6 DEF IInv, MadeFor, Made
<1>14. \A d \in Callers : d # c => call'[d] = call[d]
  BY <1>1, <1>3 DEF Answer, TypeOK
<1>15. call'[c].step = "answered"
  BY <1>1, <1>3 DEF Answer, TypeOK
<1>16. LookedRight'
  BY <1>5, <1>6, <1>8, <1>14, <1>15 DEF IInv, LookedRight
<1>17. \A j \in Invoices : reference[j] = t /\ creator[j] = c => status[j] \in {"none", "cancelled"}
  BY <1>2, <1>4 DEF IInv, LookedRight
<1>18. RepeatIsSame'
  <2> SUFFICES ASSUME NEW u \in Txs, NEW j \in Invoices, NEW k \in Invoices,
                      reference'[j] = u, reference'[k] = u, creator'[j] = creator'[k],
                      status'[j] \notin {"none", "cancelled"}, status'[k] \notin {"none", "cancelled"}
               PROVE  j = k
    BY DEF RepeatIsSame
  <2>1. CASE j # i /\ k # i
    <3>1. {status[j], status[k]} \cap {"none", "cancelled"} = {}
      BY <1>5, <2>1
    <3> QED
      BY <1>6, <1>8, <2>1, <3>1 DEF IInv, RepeatIsSame
  <2>2. CASE j = i /\ k # i
    BY <1>5, <1>6, <1>8, <1>17, <2>2
  <2>3. CASE k = i /\ j # i
    BY <1>5, <1>6, <1>8, <1>17, <2>3
  <2> QED
    BY <2>1, <2>2, <2>3
<1> QED
  BY <1>11, <1>12, <1>13, <1>16, <1>18 DEF IInv

\* An invoice is paid, cancelled or refunded.
LEMMA MoveStep ==
  ASSUME IInv, NEW i \in Invoices, NEW from \in {"pending", "paid"}, NEW to \in Kinds,
         from = "paid" => to = "refunded", from = "pending" => to # "refunded", Move(i, from, to)
  PROVE  /\ Forward /\ MadeFor' /\ RepeatIsSame' /\ AnswersFit' /\ LookedRight'
         /\ HooksTrue' /\ EventsTrue'
         /\ status' \in [Invoices -> Statuses] /\ status'[i] = to
         /\ hooks' \in SUBSET [inv: Invoices, kind: Kinds]
<1>1. TypeOK /\ MadeFor /\ RepeatIsSame
  BY DEF IInv
<1>2. /\ status' \in [Invoices -> Statuses]
      /\ \A j \in Invoices : status'[j] = IF j = i THEN to ELSE status[j]
  BY <1>1 DEF Move, TypeOK, Statuses, Kinds
<1>3. status[i] = from /\ UNCHANGED <<reference, amount, creator, secret, enabled, events, taken, call>>
  BY DEF Move
<1>4. Forward
  BY <1>2, <1>3 DEF Forward, Kinds
<1>5. MadeFor' /\ RepeatIsSame'
  <2>1. MadeFor'
    BY <1>1, <1>2, <1>3 DEF MadeFor, Made
  <2>2. \A j \in Invoices : status[j] \in {"none", "cancelled"} => status'[j] \in {"none", "cancelled"}
    BY <1>2, <1>3
  <2>3. RepeatIsSame'
    BY <1>1, <1>3, <2>2 DEF RepeatIsSame
  <2> QED
    BY <2>1, <2>3
<1>6. AnswersFit' /\ LookedRight'
  <2>1. \A j \in Invoices : status[j] = "none" => status'[j] = "none"
    BY <1>2, <1>3
  <2> QED
    BY <1>3, <1>4, <2>1, CallsStay
<1>7. hooks' = hooks \cup {[inv |-> i, kind |-> to]}
  BY DEF Move
<1>8. HooksTrue'
  <2> SUFFICES ASSUME NEW h \in hooks'
               PROVE  status'[h.inv] \in Kinds /\ True(h.inv, h.kind)'
    BY DEF HooksTrue
  <2>1. CASE h \in hooks
    <3>1. h.inv \in Invoices /\ h.kind \in Kinds /\ status[h.inv] \in Kinds /\ True(h.inv, h.kind)
      BY <1>1, <2>1 DEF IInv, TypeOK, HooksTrue
    <3>2. status'[h.inv] \in Kinds
      BY <1>2, <3>1
    <3> QED
      BY <1>4, <3>1, <3>2, SaidStays
  <2>2. CASE h.inv = i /\ h.kind = to
    <3>1. reference[i] \in Txs
      BY <1>1, <1>3 DEF MadeFor, Made
    <3> QED
      BY <1>2, <1>3, <2>2, <3>1 DEF True, Made, Kinds
  <2> QED
    BY <1>7, <2>1, <2>2
<1>9. EventsTrue'
  BY <1>3, <1>4, EventsStay
<1>10. hooks' \in SUBSET [inv: Invoices, kind: Kinds]
  BY <1>1, <1>7 DEF TypeOK
<1> QED
  BY <1>2, <1>4, <1>5, <1>6, <1>8, <1>9, <1>10

\* Pay, Cancel, Refund.
LEMMA MovedStep ==
  ASSUME IInv, NEW i \in Invoices, Pay(i) \/ Cancel(i) \/ Refund(i)
  PROVE  IInv'
<1>1. UNCHANGED odoo /\ UNCHANGED <<reference, amount, creator, secret, enabled, events, taken, call>>
  BY DEF Pay, Cancel, Refund, Move
<1>2. /\ Forward /\ MadeFor' /\ RepeatIsSame' /\ AnswersFit' /\ LookedRight'
      /\ HooksTrue' /\ EventsTrue'
      /\ status' \in [Invoices -> Statuses]
      /\ hooks' \in SUBSET [inv: Invoices, kind: Kinds]
  <2>1. CASE Pay(i)
    BY <2>1, MoveStep DEF Pay, Kinds
  <2>2. CASE Cancel(i)
    BY <2>2, MoveStep DEF Cancel, Kinds
  <2>3. CASE Refund(i)
    BY <2>3, MoveStep DEF Refund, Kinds
  <2> QED
    BY <2>1, <2>2, <2>3
<1>3. RefsFit' /\ FetchedTrue' /\ OdooTrue' /\ TakenIsBooked'
  BY <1>1, <1>2, OdooStays, BooksStay DEF odoo
<1>4. TypeOK'
  BY <1>1, <1>2 DEF IInv, TypeOK, odoo
<1> QED
  BY <1>2, <1>3, <1>4 DEF IInv

LEMMA EmitStep ==
  ASSUME IInv, NEW h \in hooks, Emit(h)
  PROVE  IInv'
<1> DEFINE e == [inv |-> h.inv, kind |-> h.kind, status |-> status[h.inv]]
<1>1. TypeOK /\ h.inv \in Invoices /\ h.kind \in Kinds
  BY DEF IInv, TypeOK
<1>2. status[h.inv] \in Kinds /\ True(h.inv, h.kind)
  BY DEF IInv, HooksTrue
<1>3. /\ UNCHANGED <<invoice, secret, enabled, taken, call, odoo>>
      /\ hooks' \subseteq hooks /\ events' \subseteq events \cup {e}
  BY DEF Emit
<1>4. e \in EventSet
  BY <1>1, <1>2 DEF EventSet
<1>5. TypeOK'
  BY <1>1, <1>3, <1>4 DEF TypeOK, invoice, odoo
<1>6. Forward /\ MadeFor' /\ RepeatIsSame'
  BY <1>3, InvoicesStay
<1>7. AnswersFit' /\ LookedRight'
  BY <1>3, <1>6, CallsStay DEF invoice
<1>8. HooksTrue'
  BY <1>3, <1>6, HooksStay
<1>9. RefsFit' /\ FetchedTrue' /\ OdooTrue' /\ TakenIsBooked'
  BY <1>3, <1>6, OdooStays, BooksStay DEF odoo
<1>10. EventsTrue'
  <2> SUFFICES ASSUME NEW d \in events' \cup taken'
               PROVE  /\ True(d.inv, d.kind)' /\ True(d.inv, d.status)'
                      /\ d.kind = "paid" => d.status \in {"paid", "refunded"}
    BY DEF EventsTrue
  <2>1. CASE d \in events \cup taken
    <3>1. d.inv \in Invoices /\ d.kind \in Kinds /\ d.status \in Kinds
      BY <1>1, <2>1 DEF TypeOK, EventSet
    <3>2. /\ True(d.inv, d.kind) /\ True(d.inv, d.status)
          /\ d.kind = "paid" => d.status \in {"paid", "refunded"}
      BY <2>1 DEF IInv, EventsTrue
    <3> QED
      BY <1>6, <3>1, <3>2, SaidStays
  <2>2. CASE d = e
    <3>1. True(h.inv, status[h.inv])
      BY <1>2 DEF True
    <3>2. d.inv = h.inv /\ d.kind = h.kind /\ d.status = status[h.inv]
      BY <2>2
    <3>3. d.kind = "paid" => d.status \in {"paid", "refunded"}
      BY <1>2, <3>2 DEF True
    <3>4. True(d.inv, d.kind) /\ True(d.inv, d.status)
      BY <1>2, <3>1, <3>2
    <3>5. d.inv \in Invoices /\ d.kind \in Kinds /\ d.status \in Kinds
      BY <1>1, <1>2, <3>2
    <3> QED
      BY <1>6, <3>3, <3>4, <3>5, SaidStays
  <2> QED
    BY <1>3, <2>1, <2>2
<1> QED
  BY <1>5, <1>6, <1>7, <1>8, <1>9, <1>10 DEF IInv

\* The endpoint is registered or switched, or a delivery is given up.
LEMMA EndpointStep ==
  ASSUME IInv, UNCHANGED <<invoice, hooks, taken, call, txState, txRef, booked, fetched, refund>>,
         events' \subseteq events, secret' \in 0 .. MaxSecrets, enabled' \in BOOLEAN,
         known' \in 0 .. MaxSecrets
  PROVE  IInv'
<1>1. TypeOK'
  BY DEF IInv, TypeOK, invoice
<1>2. Forward /\ MadeFor' /\ RepeatIsSame'
  BY InvoicesStay
<1>3. AnswersFit' /\ LookedRight'
  BY <1>2, CallsStay DEF invoice
<1>4. HooksTrue' /\ EventsTrue'
  BY <1>2, HooksStay, EventsStay
<1>5. RefsFit' /\ FetchedTrue' /\ OdooTrue' /\ TakenIsBooked'
  BY <1>2, OdooStays, BooksStay
<1> QED
  BY <1>1, <1>2, <1>3, <1>4, <1>5 DEF IInv

(***************************************************************************)
(* The actions of Odoo                                                     *)
(***************************************************************************)

\* Odoo writes down what it was told; uzbridge stays as it is.
LEMMA OdooStep ==
  ASSUME IInv, UNCHANGED <<server, known>>,
         txState' \in [Txs -> {"draft", "pending", "done", "cancel", "error"}],
         txRef' \in [Txs -> Invoices \cup {NoInvoice}],
         booked' \in [Txs -> BOOLEAN], fetched' \in [Txs -> Statuses],
         refund' \in [Txs -> {"none", "asked", "told", "waiting", "draft", "done"}],
         RefsFit', FetchedTrue', OdooTrue', TakenIsBooked'
  PROVE  IInv'
<1>1. TypeOK'
  BY DEF IInv, TypeOK, server, invoice, channel
<1>2. Forward /\ MadeFor' /\ RepeatIsSame'
  BY InvoicesStay DEF server
<1>3. AnswersFit' /\ LookedRight'
  BY <1>2, CallsStay DEF server, invoice
<1>4. HooksTrue' /\ EventsTrue'
  BY <1>2, HooksStay, EventsStay DEF server, channel
<1> QED
  BY <1>1, <1>2, <1>3, <1>4 DEF IInv

\* What becomes of a transaction that is told the status s of the invoice i.
LEMMA AppliedLemma ==
  ASSUME TypeOK, NEW t \in Txs, NEW i \in Invoices, NEW s \in Statuses \ {"none"},
         NEW post \in BOOLEAN, ApplyUpdates(t, i, s, post)
  PROVE  /\ txState' \in [Txs -> {"draft", "pending", "done", "cancel", "error"}]
         /\ txRef' \in [Txs -> Invoices \cup {NoInvoice}]
         /\ booked' \in [Txs -> BOOLEAN]
         /\ \A u \in Txs : u # t => /\ txState'[u] = txState[u] /\ txRef'[u] = txRef[u]
                                    /\ booked'[u] = booked[u]
         /\ txRef'[t] = i
         /\ txState'[t] = txState[t] \/ txState'[t] = STATUS_MAPPING[s]
         /\ txState[t] = "cancel" => txState'[t] = "cancel"
         /\ booked'[t] = (booked[t] \/ (post /\ txState'[t] = "done"))
         /\ STATUS_MAPPING[s] = "done" => txState'[t] \in {"done", "cancel"}
         /\ STATUS_MAPPING[s] = "done" <=> s \in {"paid", "refunded"}
<1> DEFINE state == STATUS_MAPPING[s]
           next  == IF txState[t] \in MayBecome(state) THEN state ELSE txState[t]
<1>1. /\ state \in {"pending", "done", "cancel"}
      /\ state = "done" <=> s \in {"paid", "refunded"}
  BY DEF STATUS_MAPPING, Statuses
<1>2. MayBecome(state) = IF state = "pending" THEN {"draft"}
                         ELSE IF state = "done" THEN {"draft", "pending", "error"}
                         ELSE {"draft", "pending"}
  BY <1>1 DEF MayBecome
<1>3. /\ txState \in [Txs -> {"draft", "pending", "done", "cancel", "error"}]
      /\ txRef \in [Txs -> Invoices \cup {NoInvoice}] /\ booked \in [Txs -> BOOLEAN]
  BY DEF TypeOK
<1>4. /\ next \in {"draft", "pending", "done", "cancel", "error"}
      /\ next = txState[t] \/ next = state
      /\ txState[t] = "cancel" => next = "cancel"
      /\ state = "done" => next \in {"done", "cancel"}
  BY <1>1, <1>2, <1>3
<1>5. /\ txState' = [txState EXCEPT ![t] = next]
      /\ txRef' = [txRef EXCEPT ![t] = i]
      /\ booked' = [booked EXCEPT ![t] = booked[t] \/ (post /\ next = "done")]
  BY DEF ApplyUpdates
<1> HIDE DEF state, next
<1>6. /\ txState' \in [Txs -> {"draft", "pending", "done", "cancel", "error"}]
      /\ txState'[t] = next /\ \A u \in Txs : u # t => txState'[u] = txState[u]
  BY <1>3, <1>4, <1>5
<1>7. /\ txRef' \in [Txs -> Invoices \cup {NoInvoice}]
      /\ txRef'[t] = i /\ \A u \in Txs : u # t => txRef'[u] = txRef[u]
  BY <1>3, <1>5
<1>8. /\ booked' \in [Txs -> BOOLEAN]
      /\ booked'[t] = (booked[t] \/ (post /\ next = "done"))
      /\ \A u \in Txs : u # t => booked'[u] = booked[u]
  BY <1>3, <1>5, Zenon
<1> QED
  BY <1>1, <1>4, <1>6, <1>7, <1>8 DEF state

\* Odoo is told what is true of an invoice of the transaction.
LEMMA ToldStep ==
  ASSUME IInv, UNCHANGED invoice, NEW t \in Txs, NEW i \in Invoices,
         NEW s \in Statuses \ {"none"}, NEW post \in BOOLEAN, ApplyUpdates(t, i, s, post),
         Fits(t, i), s \in {"paid", "refunded"} => WasPaid(t),
         fetched' \in [Txs -> Statuses], \A u \in Txs : fetched'[u] \in {fetched[u], "none"},
         UNCHANGED refund
  PROVE  /\ RefsFit' /\ FetchedTrue' /\ OdooTrue'
         /\ \A u \in Txs : booked[u] => booked'[u]
         /\ \A u \in Txs : txState[u] = "cancel" => txState'[u] = "cancel"
<1>1. Forward /\ TypeOK /\ RefsFit /\ FetchedTrue /\ OdooTrue
  BY InvoicesStay DEF IInv
<1>2. NoInvoice \notin Invoices
  BY NoneAssumption
<1>3. /\ \A u \in Txs : u # t => /\ txState'[u] = txState[u] /\ txRef'[u] = txRef[u]
                                 /\ booked'[u] = booked[u]
      /\ txRef'[t] = i
      /\ txState'[t] = txState[t] \/ txState'[t] = STATUS_MAPPING[s]
      /\ txState[t] = "cancel" => txState'[t] = "cancel"
      /\ booked'[t] = (booked[t] \/ (post /\ txState'[t] = "done"))
      /\ STATUS_MAPPING[s] = "done" <=> s \in {"paid", "refunded"}
  BY <1>1, AppliedLemma
<1>4. /\ \A u \in Txs : WasPaid(u) => WasPaid(u)'
      /\ \A u \in Txs, j \in Invoices : Fits(u, j) => Fits(u, j)'
  BY <1>1, SaidStays
<1>5. txState'[t] = "done" => WasPaid(t)'
  BY <1>1, <1>3, <1>4 DEF OdooTrue
<1>6. \A u \in Txs : \/ txRef'[u] = txRef[u]
                     \/ txRef'[u] \in Invoices /\ Fits(u, txRef[u])'
  <2>1. txRef'[t] \in Invoices /\ Fits(t, txRef[t])'
    BY <1>3, <1>4 DEF Fits, Made
  <2> QED
    BY <1>3, <2>1
<1>7. \A u \in Txs : txState'[u] = "done" /\ txState[u] # "done" => txRef'[u] # NoInvoice /\ WasPaid(u)'
  BY <1>2, <1>3, <1>5
<1>8. \A u \in Txs : booked'[u] /\ ~booked[u] => WasPaid(u)'
  BY <1>3, <1>5
<1>9. RefsFit' /\ FetchedTrue' /\ OdooTrue'
  BY <1>1, <1>6, <1>7, <1>8, OdooStays
<1>10. \A u \in Txs : booked[u] => booked'[u]
  BY <1>3
<1>11. \A u \in Txs : txState[u] = "cancel" => txState'[u] = "cancel"
  BY <1>3
<1> QED
  BY <1>9, <1>10, <1>11

LEMMA DeliverStep ==
  ASSUME IInv, NEW e \in events, Deliver(e)
  PROVE  IInv'
<1> DEFINE t == reference[e.inv]
<1>1. /\ TypeOK /\ e \in EventSet /\ e \in events \cup taken
      /\ e.inv \in Invoices /\ e.kind \in Kinds /\ e.status \in Kinds
  BY DEF IInv, TypeOK, EventSet
<1>2. /\ True(e.inv, e.kind) /\ True(e.inv, e.status)
      /\ e.kind = "paid" => e.status \in {"paid", "refunded"}
  BY <1>1 DEF IInv, EventsTrue
<1>3. t \in Txs /\ Fits(t, e.inv)
  BY <1>2 DEF True, Fits
<1>4. /\ UNCHANGED <<invoice, secret, enabled, hooks, call, known, fetched>>
      /\ taken' = taken \cup {e} /\ events' \subseteq events
  BY DEF Deliver
<1>5. Forward /\ MadeFor' /\ RepeatIsSame' /\ reference' = reference
  BY <1>4, InvoicesStay DEF invoice
<1>6. AnswersFit' /\ LookedRight' /\ HooksTrue' /\ EventsTrue'
  <2>1. AnswersFit' /\ LookedRight'
    BY <1>4, <1>5, CallsStay DEF invoice
  <2>2. HooksTrue'
    BY <1>4, <1>5, HooksStay
  <2>3. EventsTrue'
    BY <1>1, <1>4, <1>5, EventsStay
  <2> QED
    BY <2>1, <2>2, <2>3
<1>7. events' \in SUBSET EventSet /\ taken' \in SUBSET EventSet
  BY <1>1, <1>4 DEF TypeOK
<1>8. CASE e.kind = "refunded"
  <2>1. /\ refund' = [refund EXCEPT ![t] = IF refund[t] = "draft" THEN "done" ELSE refund[t]]
        /\ UNCHANGED <<txState, txRef, booked>>
    BY <1>8 DEF Deliver, InvoiceEvent
  <2> HIDE DEF t
  <2>2. refund \in [Txs -> {"none", "asked", "told", "waiting", "draft", "done"}]
    BY <1>1 DEF TypeOK
  <2>3. /\ refund' \in [Txs -> {"none", "asked", "told", "waiting", "draft", "done"}]
        /\ \A u \in Txs : refund'[u] = refund[u] \/ (u = t /\ refund[u] = "draft" /\ refund'[u] = "done")
    BY <2>1, <2>2
  <2>4. Refunded(t)
    BY <1>1, <1>2, <1>8 DEF True, Refunded, t
  <2>5. \A u \in Txs : Refunded(u) => Refunded(u)'
    BY <1>5, SaidStays
  <2>6. \A u \in Txs : refund'[u] \in {"told", "done"} /\ refund[u] \notin {"told", "done"} => Refunded(u)'
    BY <2>3, <2>4, <2>5
  <2>7. RefsFit' /\ FetchedTrue' /\ OdooTrue'
    BY <1>4, <1>5, <2>1, <2>3, <2>6, OdooStays
  <2>8. TakenIsBooked'
    BY <1>4, <1>5, <1>8, <2>1 DEF IInv, TakenIsBooked
  <2>9. TypeOK'
    BY <1>1, <1>4, <1>7, <2>1, <2>3 DEF TypeOK, invoice
  <2> QED
    BY <1>5, <1>6, <2>7, <2>8, <2>9 DEF IInv
<1>9. CASE e.kind # "refunded"
  <2>1. ApplyUpdates(t, e.inv, e.status, TRUE) /\ refund' = refund
    BY <1>9 DEF Deliver, InvoiceEvent
  <2>2. PICK u \in Txs, s \in Statuses \ {"none"} : u = t /\ s = e.status
    BY <1>1, <1>3 DEF Statuses, Kinds
  <2> HIDE DEF t
  <2>3. ApplyUpdates(u, e.inv, s, TRUE) /\ Fits(u, e.inv)
    BY <1>3, <2>1, <2>2
  <2>4. s \in {"paid", "refunded"} => WasPaid(u)
    BY <1>1, <1>2, <2>2 DEF True, WasPaid, t
  <2>5. fetched' \in [Txs -> Statuses] /\ \A v \in Txs : fetched'[v] \in {fetched[v], "none"}
    BY <1>1, <1>4 DEF TypeOK
  <2>6. /\ RefsFit' /\ FetchedTrue' /\ OdooTrue'
        /\ \A v \in Txs : booked[v] => booked'[v]
        /\ \A v \in Txs : txState[v] = "cancel" => txState'[v] = "cancel"
    BY <1>1, <1>4, <2>1, <2>3, <2>4, <2>5, ToldStep
  <2>7. /\ txState' \in [Txs -> {"draft", "pending", "done", "cancel", "error"}]
        /\ txRef' \in [Txs -> Invoices \cup {NoInvoice}]
        /\ booked' \in [Txs -> BOOLEAN]
        /\ booked'[u] = (booked[u] \/ (TRUE /\ txState'[u] = "done"))
        /\ STATUS_MAPPING[s] = "done" => txState'[u] \in {"done", "cancel"}
        /\ STATUS_MAPPING[s] = "done" <=> s \in {"paid", "refunded"}
    BY <1>1, <2>3, AppliedLemma
  <2>8. e.kind = "paid" => booked'[u] \/ txState'[u] = "cancel"
    BY <1>2, <2>2, <2>7
  <2>9. TakenIsBooked'
    <3> SUFFICES ASSUME NEW d \in taken', d.kind = "paid"
                 PROVE  booked'[reference[d.inv]] \/ txState'[reference[d.inv]] = "cancel"
      BY <1>5 DEF TakenIsBooked
    <3>1. CASE d = e
      BY <2>2, <2>8, <3>1 DEF t
    <3>2. CASE d \in taken
      <4>1. reference[d.inv] \in Txs
        BY <3>2 DEF IInv, EventsTrue, True
      <4>2. booked[reference[d.inv]] \/ txState[reference[d.inv]] = "cancel"
        BY <3>2 DEF IInv, TakenIsBooked
      <4> QED
        BY <2>6, <4>1, <4>2
    <3> QED
      BY <1>4, <3>1, <3>2
  <2>10. TypeOK'
    BY <1>1, <1>4, <1>7, <2>1, <2>7 DEF TypeOK, invoice
  <2> QED
    BY <1>5, <1>6, <2>6, <2>9, <2>10 DEF IInv
<1> QED
  BY <1>8, <1>9

LEMMA FetchStep ==
  ASSUME IInv, NEW t \in Txs, Fetch(t)
  PROVE  IInv'
<1>1. /\ TypeOK /\ txRef[t] # NoInvoice /\ txRef[t] \in Invoices
      /\ fetched' = [fetched EXCEPT ![t] = status[txRef[t]]]
      /\ UNCHANGED <<server, txState, txRef, booked, known, refund>>
  BY DEF Fetch, IInv, TypeOK
<1>2. status[txRef[t]] \in Statuses /\ Fits(t, txRef[t])
  BY <1>1 DEF TypeOK, IInv, RefsFit
<1>3. /\ fetched' \in [Txs -> Statuses]
      /\ fetched'[t] = status[txRef[t]] /\ \A u \in Txs : u # t => fetched'[u] = fetched[u]
  BY <1>1, <1>2 DEF TypeOK
<1>4. Forward
  BY <1>1, InvoicesStay DEF server
<1>5. status[txRef[t]] \in {"paid", "refunded"} => WasPaid(t)'
  <2>1. status[txRef[t]] \in {"paid", "refunded"} => WasPaid(t)
    BY <1>1, <1>2 DEF Fits, WasPaid
  <2> QED
    BY <1>4, <2>1, SaidStays
<1>6. \A u \in Txs : fetched'[u] # "none" /\ fetched'[u] # fetched[u] =>
                          /\ txRef'[u] # NoInvoice
                          /\ fetched'[u] \in {"paid", "refunded"} => WasPaid(u)'
  BY <1>1, <1>3, <1>5
<1>7. RefsFit' /\ FetchedTrue' /\ OdooTrue'
  BY <1>1, <1>4, <1>6, OdooStays
<1>8. TakenIsBooked'
  BY <1>1, <1>4, BooksStay DEF server, channel
<1> QED
  BY <1>1, <1>3, <1>7, <1>8, OdooStep DEF TypeOK

LEMMA ApplyFetchedStep ==
  ASSUME IInv, NEW t \in Txs, ApplyFetched(t)
  PROVE  IInv'
<1>1. /\ TypeOK /\ fetched[t] # "none" /\ fetched[t] \in Statuses
      /\ ApplyUpdates(t, txRef[t], fetched[t], FALSE)
      /\ fetched' = [fetched EXCEPT ![t] = "none"]
      /\ UNCHANGED <<server, known, refund>>
  BY DEF ApplyFetched, IInv, TypeOK
<1>2. /\ txRef[t] # NoInvoice
      /\ fetched[t] \in {"paid", "refunded"} => WasPaid(t)
  BY <1>1 DEF IInv, FetchedTrue
<1>3. txRef[t] \in Invoices /\ Fits(t, txRef[t])
  BY <1>1, <1>2 DEF IInv, TypeOK, RefsFit
<1>4. PICK i \in Invoices, s \in Statuses \ {"none"} : i = txRef[t] /\ s = fetched[t]
  BY <1>1, <1>3
<1>5. ApplyUpdates(t, i, s, FALSE) /\ Fits(t, i) /\ (s \in {"paid", "refunded"} => WasPaid(t))
  BY <1>1, <1>2, <1>3, <1>4
<1>6. fetched' \in [Txs -> Statuses] /\ \A u \in Txs : fetched'[u] \in {fetched[u], "none"}
  BY <1>1 DEF TypeOK, Statuses
<1>7. /\ RefsFit' /\ FetchedTrue' /\ OdooTrue'
      /\ \A u \in Txs : booked[u] => booked'[u]
      /\ \A u \in Txs : txState[u] = "cancel" => txState'[u] = "cancel"
  BY <1>1, <1>5, <1>6, ToldStep DEF server
<1>8. /\ txState' \in [Txs -> {"draft", "pending", "done", "cancel", "error"}]
      /\ txRef' \in [Txs -> Invoices \cup {NoInvoice}]
      /\ booked' \in [Txs -> BOOLEAN]
  BY <1>1, <1>5, AppliedLemma
<1>9. TakenIsBooked'
  BY <1>1, <1>7, InvoicesStay, BooksStay DEF server, channel
<1> QED
  BY <1>1, <1>6, <1>7, <1>8, <1>9, OdooStep DEF TypeOK

LEMMA PostProcessStep ==
  ASSUME IInv, NEW t \in Txs, PostProcess(t)
  PROVE  IInv'
<1>1. /\ TypeOK /\ txState[t] = "done"
      /\ booked' = [booked EXCEPT ![t] = TRUE]
      /\ UNCHANGED <<server, txState, txRef, known, fetched, refund>>
  BY DEF PostProcess, IInv
<1>2. /\ booked' \in [Txs -> BOOLEAN]
      /\ booked'[t] = TRUE /\ \A u \in Txs : u # t => booked'[u] = booked[u]
  BY <1>1 DEF TypeOK
<1>3. Forward
  BY <1>1, InvoicesStay DEF server
<1>4. WasPaid(t)'
  BY <1>1, <1>3, SaidStays DEF IInv, OdooTrue
<1>5. \A u \in Txs : booked'[u] /\ ~booked[u] => WasPaid(u)'
  BY <1>2, <1>4
<1>6. RefsFit' /\ FetchedTrue' /\ OdooTrue'
  BY <1>1, <1>3, <1>5, OdooStays
<1>7. \A u \in Txs : booked[u] => booked'[u]
  BY <1>2
<1>8. TakenIsBooked'
  BY <1>1, <1>3, <1>7, BooksStay DEF server, channel
<1> QED
  BY <1>1, <1>2, <1>6, <1>8, OdooStep DEF TypeOK

\* A refund goes on, with uzbridge as it is.
LEMMA RefundGoesOn ==
  ASSUME IInv, NEW t \in Txs, NEW s \in {"none", "asked", "told", "waiting", "draft", "done"},
         refund' = [refund EXCEPT ![t] = s],
         UNCHANGED <<server, txState, txRef, booked, known, fetched>>,
         s \in {"told", "done"} => refund[t] \in {"told", "done"},
         s # "none" => refund[t] # "none" \/ txState[t] = "done"
  PROVE  IInv'
<1>1. TypeOK /\ refund \in [Txs -> {"none", "asked", "told", "waiting", "draft", "done"}]
  BY DEF IInv, TypeOK
<1>2. /\ refund' \in [Txs -> {"none", "asked", "told", "waiting", "draft", "done"}]
      /\ refund'[t] = s /\ \A u \in Txs : u # t => refund'[u] = refund[u]
  BY <1>1
<1>3. Forward
  BY InvoicesStay DEF server
<1>4. txState[t] = "done" => txRef'[t] # NoInvoice
  BY DEF IInv, OdooTrue
<1>5. \A u \in Txs : refund'[u] # "none" /\ refund[u] = "none" => txRef'[u] # NoInvoice
  BY <1>2, <1>4
<1>6. \A u \in Txs : refund'[u] \in {"told", "done"} /\ refund[u] \notin {"told", "done"} => Refunded(u)'
  BY <1>2
<1>7. RefsFit' /\ FetchedTrue' /\ OdooTrue'
  BY <1>3, <1>5, <1>6, OdooStays
<1>8. TakenIsBooked'
  BY <1>3, BooksStay DEF server, channel
<1> QED
  BY <1>1, <1>2, <1>7, <1>8, OdooStep DEF TypeOK

LEMMA RefundCallStep ==
  ASSUME IInv, NEW t \in Txs, RefundCall(t)
  PROVE  IInv'
<1>1. /\ TypeOK /\ refund[t] = "asked"
      /\ UNCHANGED <<txState, txRef, booked, known, fetched>>
  BY DEF RefundCall, IInv
<1>2. CASE refund' = [refund EXCEPT ![t] = "waiting"] /\ UNCHANGED server
  BY <1>1, <1>2, RefundGoesOn
<1>3. CASE refund' = [refund EXCEPT ![t] = "none"] /\ UNCHANGED server
  BY <1>1, <1>3, RefundGoesOn
<1>4. CASE Move(txRef[t], "paid", "refunded") /\ refund' = [refund EXCEPT ![t] = "told"]
  <2>1. txRef[t] \in Invoices /\ Fits(t, txRef[t])
    BY <1>1 DEF IInv, TypeOK, OdooTrue, RefsFit
  <2>2. PICK i \in Invoices : i = txRef[t]
    BY <2>1
  <2>3. Move(i, "paid", "refunded") /\ Fits(t, i)
    BY <1>4, <2>1, <2>2
  <2>4. /\ Forward /\ MadeFor' /\ RepeatIsSame' /\ AnswersFit' /\ LookedRight'
        /\ HooksTrue' /\ EventsTrue'
        /\ status' \in [Invoices -> Statuses] /\ status'[i] = "refunded"
        /\ hooks' \in SUBSET [inv: Invoices, kind: Kinds]
    BY <2>3, MoveStep DEF Kinds
  <2>5. /\ refund' \in [Txs -> {"none", "asked", "told", "waiting", "draft", "done"}]
        /\ refund'[t] = "told" /\ \A u \in Txs : u # t => refund'[u] = refund[u]
    BY <1>1, <1>4 DEF TypeOK
  <2>6. Refunded(t)'
    <3>1. Fits(t, i)'
      BY <2>3, <2>4, SaidStays
    <3> QED
      BY <2>4, <3>1 DEF Fits, Refunded
  <2>7. txRef'[t] # NoInvoice
    BY <1>1, <2>1, NoneAssumption
  <2>8. \A u \in Txs : refund'[u] \in {"told", "done"} /\ refund[u] \notin {"told", "done"} => Refunded(u)'
    BY <2>5, <2>6
  <2>9. \A u \in Txs : refund'[u] # "none" /\ refund[u] = "none" => txRef'[u] # NoInvoice
    BY <2>5, <2>7
  <2>10. RefsFit' /\ FetchedTrue' /\ OdooTrue'
    BY <1>1, <2>4, <2>8, <2>9, OdooStays
  <2>11. UNCHANGED <<reference, amount, creator, secret, enabled, events, taken, call>>
    BY <2>3 DEF Move
  <2>12. TakenIsBooked'
    BY <1>1, <2>4, <2>11, BooksStay
  <2>13. TypeOK'
    BY <1>1, <2>4, <2>5, <2>11 DEF TypeOK
  <2> QED
    BY <2>4, <2>10, <2>12, <2>13 DEF IInv
<1> QED
  BY <1>2, <1>3, <1>4 DEF RefundCall

(***************************************************************************)
(* The theorems                                                            *)
(***************************************************************************)
LEMMA Step == IInv /\ [Next]_vars => IInv'
<1> SUFFICES ASSUME IInv, [Next]_vars PROVE IInv'
  OBVIOUS
<1>0. /\ events \subseteq events /\ secret \in 0 .. MaxSecrets /\ enabled \in BOOLEAN
      /\ known \in 0 .. MaxSecrets
  BY DEF IInv, TypeOK
<1>1. ASSUME NEW c \in Callers, LookUp(c) \/ CreateInvoice(c) PROVE IInv'
  BY <1>1, LookUpStep, CreateInvoiceStep
<1>2. ASSUME NEW i \in Invoices, Pay(i) \/ Cancel(i) \/ Refund(i) PROVE IInv'
  BY <1>2, MovedStep
<1>3. ASSUME NEW h \in hooks, Emit(h) PROVE IInv'
  BY <1>3, EmitStep
<1>4. CASE RegisterWebhook
  <2>1. secret' \in 0 .. MaxSecrets /\ known' \in 0 .. MaxSecrets /\ enabled' \in BOOLEAN
    BY <1>0, <1>4, SecretAssumption DEF RegisterWebhook
  <2> QED
    BY <1>4, <2>1, EndpointStep DEF RegisterWebhook
<1>5. CASE ToggleWebhook
  BY <1>0, <1>5, EndpointStep DEF ToggleWebhook, odoo
<1>6. ASSUME NEW e \in events, Deliver(e) PROVE IInv'
  BY <1>6, DeliverStep
<1>7. ASSUME NEW e \in events, GiveUpDelivery(e) PROVE IInv'
  <2>1. events' \subseteq events
    BY <1>7 DEF GiveUpDelivery
  <2> QED
    BY <1>0, <1>7, <2>1, EndpointStep DEF GiveUpDelivery, odoo
<1>8. ASSUME NEW t \in Txs, Fetch(t) \/ ApplyFetched(t) \/ PostProcess(t) \/ RefundCall(t)
      PROVE  IInv'
  BY <1>8, FetchStep, ApplyFetchedStep, PostProcessStep, RefundCallStep
<1>9. ASSUME NEW t \in Txs, AskRefund(t) PROVE IInv'
  BY <1>9, RefundGoesOn DEF AskRefund
<1>10. ASSUME NEW t \in Txs, RefundAnswered(t) PROVE IInv'
  <2>1. /\ refund[t] \in {"told", "waiting"}
        /\ UNCHANGED <<server, txState, txRef, booked, known, fetched>>
    BY <1>10 DEF RefundAnswered
  <2>2. PICK s \in {IF refund[t] = "told" THEN "done" ELSE "draft", "none"} :
          refund' = [refund EXCEPT ![t] = s]
    BY <1>10 DEF RefundAnswered
  <2> QED
    BY <2>1, <2>2, RefundGoesOn
<1>11. CASE UNCHANGED vars
  BY <1>0, <1>11, EndpointStep DEF vars, server, channel, odoo
<1> QED
  BY <1>1, <1>2, <1>3, <1>4, <1>5, <1>6, <1>7, <1>8, <1>9, <1>10, <1>11 DEF Next

\* The invariant holds in every state uzbridge and Odoo reach together.
THEOREM Invariance == Spec => []IInv
BY InitIInv, Step, PTL DEF Spec

\* Invoices, calls, deliveries and transactions stay what their tables can hold.
THEOREM TypeCorrect == Spec => []TypeOK
<1>1. IInv => TypeOK
  BY DEF IInv
<1> QED
  BY <1>1, Invariance, PTL

\* POST /invoices answers with an invoice of the reference and the amount it was asked for,
\* also when it was made by another call.
THEOREM AnsweredRight == Spec => []AnswerFits
<1>1. IInv => AnswerFits
  BY DEF IInv, AnswersFit, AnswerFits, Fits
<1> QED
  BY <1>1, Invariance, PTL

\* A client whose calls do not overlap has one live invoice for a reference.
THEOREM RepeatedSame == Spec => []RepeatIsSame
<1>1. IInv => RepeatIsSame
  BY DEF IInv
<1> QED
  BY <1>1, Invariance, PTL

\* Odoo never takes for paid, or refunded, what uzbridge did not: whatever webhooks and
\* return pages it hears of it by, late, twice or out of order.
THEOREM OdooNeverAhead == Spec => []OdooIsRight
<1>1. IInv => OdooIsRight
  BY DEF IInv, OdooTrue, OdooIsRight, WasPaid, Refunded
<1> QED
  BY <1>1, Invariance, PTL

\* A payment Odoo acknowledged is in its books, or its transaction was cancelled before.
THEOREM AcknowledgedBooked == Spec => []TakenIsBooked
<1>1. IInv => TakenIsBooked
  BY DEF IInv
<1> QED
  BY <1>1, Invariance, PTL

(***************************************************************************)
(* The invoices of the API are those of InvoiceLifecycle: one that is not  *)
(* made yet is one that waits.                                             *)
(***************************************************************************)
StatusOf == [i \in Invoices |-> IF status[i] = "none" THEN "pending" ELSE status[i]]
ViaOf    == [i \in Invoices |-> IF status[i] \in {"paid", "refunded"} THEN "provider" ELSE ""]

Lifecycle ==
  INSTANCE InvoiceLifecycle WITH Providers <- {"provider"}, status <- StatusOf, paidVia <- ViaOf

LEMMA MoveIsStep ==
  ASSUME IInv, NEW i \in Invoices,
         \/ Move(i, "pending", "paid")
         \/ Move(i, "pending", "cancelled")
         \/ Move(i, "paid", "refunded")
  PROVE  Lifecycle!Next
<1>1. status \in [Invoices -> Statuses]
  BY DEF IInv, TypeOK
<1>2. CASE Move(i, "pending", "paid")
  <2>1. Lifecycle!Pay(i)
    BY <1>1, <1>2 DEF Move, StatusOf, ViaOf, Lifecycle!Pay
  <2> QED
    BY <2>1 DEF Lifecycle!Next
<1>3. CASE Move(i, "pending", "cancelled")
  <2>1. Lifecycle!Cancel(i)
    BY <1>1, <1>3 DEF Move, StatusOf, ViaOf, Lifecycle!Cancel
  <2> QED
    BY <2>1 DEF Lifecycle!Next
<1>4. CASE Move(i, "paid", "refunded")
  <2>1. Lifecycle!Refund(i)
    BY <1>1, <1>4 DEF Move, StatusOf, ViaOf, Lifecycle!Refund
  <2> QED
    BY <2>1 DEF Lifecycle!Next
<1> QED
  BY <1>2, <1>3, <1>4

LEMMA LifecycleStep == IInv /\ [Next]_vars => [Lifecycle!Next]_<<StatusOf, ViaOf>>
<1> SUFFICES ASSUME IInv, [Next]_vars PROVE [Lifecycle!Next]_<<StatusOf, ViaOf>>
  OBVIOUS
<1>1. ASSUME UNCHANGED status PROVE UNCHANGED <<StatusOf, ViaOf>>
  BY <1>1 DEF StatusOf, ViaOf
<1>2. ASSUME NEW c \in Callers, CreateInvoice(c) PROVE UNCHANGED <<StatusOf, ViaOf>>
  <2>1. status \in [Invoices -> Statuses]
    BY DEF IInv, TypeOK
  <2>2. PICK i \in Invoices : status[i] = "none" /\ status' = [status EXCEPT ![i] = "pending"]
    BY <1>2 DEF CreateInvoice
  <2> QED
    BY <2>1, <2>2 DEF StatusOf, ViaOf
<1>3. ASSUME NEW i \in Invoices, Pay(i) \/ Cancel(i) \/ Refund(i) PROVE Lifecycle!Next
  BY <1>3, MoveIsStep DEF Pay, Cancel, Refund
<1>4. ASSUME NEW t \in Txs, RefundCall(t) PROVE Lifecycle!Next \/ UNCHANGED status
  <2>1. txRef[t] \in Invoices
    BY <1>4 DEF RefundCall, IInv, TypeOK, OdooTrue, RefsFit
  <2> QED
    BY <1>4, <2>1, MoveIsStep DEF RefundCall, server, invoice
<1>5. ASSUME NEW c \in Callers, LookUp(c) PROVE UNCHANGED status
  BY <1>5 DEF LookUp, invoice
<1>6. ASSUME NEW h \in hooks, Emit(h) PROVE UNCHANGED status
  BY <1>6 DEF Emit, invoice
<1>7. ASSUME NEW e \in events, Deliver(e) \/ GiveUpDelivery(e) PROVE UNCHANGED status
  BY <1>7 DEF Deliver, GiveUpDelivery, invoice
<1>8. ASSUME NEW t \in Txs, \/ Fetch(t) \/ ApplyFetched(t) \/ PostProcess(t)
                            \/ AskRefund(t) \/ RefundAnswered(t)
      PROVE  UNCHANGED status
  BY <1>8 DEF Fetch, ApplyFetched, PostProcess, AskRefund, RefundAnswered, server, invoice
<1>9. CASE RegisterWebhook \/ ToggleWebhook \/ UNCHANGED vars
  <2>1. UNCHANGED status
    BY <1>9 DEF RegisterWebhook, ToggleWebhook, vars, server, invoice
  <2> QED
    BY <1>1, <2>1
<1> QED
  BY <1>1, <1>2, <1>3, <1>4, <1>5, <1>6, <1>7, <1>8, <1>9 DEF Next

\* Whatever the API's clients and Odoo do, lost, late or twice, an invoice is settled at
\* most once, is cancelled only before that, and is refunded only after.
THEOREM Refinement == Spec => Lifecycle!Spec
<1>1. Init => Lifecycle!Init
  BY DEF Init, StatusOf, ViaOf, Lifecycle!Init
<1> QED
  BY <1>1, Invariance, LifecycleStep, PTL DEF Spec, Lifecycle!Spec

(***************************************************************************)
(* Connection: which Odoo company hears of which company's payments        *)
(***************************************************************************)

\* What the site and the Odoo companies of one database may come to.
Sound(keys, endpoints, secrets, companies, customers) ==
  /\ keys \in Seq(customers \cup {"revoked"}) /\ secrets \in Nat
  /\ companies \in Seq([key: Nat, secret: Nat])
  /\ \A h \in DOMAIN endpoints : endpoints[h] \in 1 .. secrets
  /\ \A g, h \in DOMAIN endpoints : endpoints[g] = endpoints[h] => g = h
  /\ \A c \in DOMAIN companies : /\ companies[c].secret <= secrets
                                 /\ companies[c].secret # 0 => companies[c].key \in DOMAIN keys
  /\ \A c \in DOMAIN companies, h \in DOMAIN endpoints :
       companies[c].secret = endpoints[h] => keys[companies[c].key] \in {h[1], "revoked"}

\* The endpoints after one more is registered.
With(e, company, url, new) ==
  [h \in DOMAIN e \cup {<<company, url>>} |-> IF h = <<company, url>> THEN new ELSE e[h]]

LEMMA RegisterSound ==
  ASSUME NEW keys, NEW e, NEW n, NEW o, NEW customers, Sound(keys, e, n, o, customers),
         NEW company \in customers, NEW url
  PROVE  Sound(keys, With(e, company, url, n + 1), n + 1, o, customers)
<1> DEFINE h == <<company, url>>
           f == With(e, company, url, n + 1)
<1>1. DOMAIN f = DOMAIN e \cup {h} /\ f[h] = n + 1 /\ \A g \in DOMAIN e : g # h => f[g] = e[g]
  BY DEF With
<1> HIDE DEF f, h
<1>2. n \in Nat /\ \A g \in DOMAIN e : e[g] \in 1 .. n
  BY DEF Sound
<1>3. \A g \in DOMAIN f : g = h \/ (g \in DOMAIN e /\ f[g] = e[g])
  BY <1>1
<1>4. \A g \in DOMAIN f : f[g] \in 1 .. n + 1
  BY <1>1, <1>2, <1>3
<1>5. \A g, k \in DOMAIN f : f[g] = f[k] => g = k
  BY <1>1, <1>2, <1>3 DEF Sound
<1>6. \A c \in DOMAIN o : o[c].secret \in Nat /\ o[c].secret <= n
  <2>1. o \in Seq([key: Nat, secret: Nat])
    BY DEF Sound
  <2>2. \A c \in DOMAIN o : o[c] \in [key: Nat, secret: Nat]
    BY <2>1, LenProperties, ElementOfSeq
  <2> QED
    BY <2>2 DEF Sound
<1>7. \A c \in DOMAIN o, g \in DOMAIN f : o[c].secret = f[g] => keys[o[c].key] \in {g[1], "revoked"}
  BY <1>1, <1>2, <1>3, <1>6 DEF Sound
<1>8. Sound(keys, f, n + 1, o, customers)
  BY <1>2, <1>4, <1>5, <1>6, <1>7 DEF Sound
<1> QED
  BY <1>8 DEF f, h

LEMMA KeptSound ==
  ASSUME NEW keys, NEW e, NEW n, NEW o, NEW customers, Sound(keys, e, n, o, customers),
         NEW c \in DOMAIN o, NEW key \in Nat, NEW own \in Nat,
         own <= n, own # 0 => key \in DOMAIN keys,
         \A h \in DOMAIN e : own = e[h] => keys[key] \in {h[1], "revoked"}
  PROVE  Sound(keys, e, n, [o EXCEPT ![c] = [key |-> key, secret |-> own]], customers)
<1> DEFINE row == [key |-> key, secret |-> own]
           p   == [o EXCEPT ![c] = row]
<1>1. o \in Seq([key: Nat, secret: Nat]) /\ row \in [key: Nat, secret: Nat]
  BY DEF Sound
<1>2. DOMAIN o = 1 .. Len(o)
  BY <1>1, LenProperties
<1>3. p \in Seq([key: Nat, secret: Nat])
  BY <1>1, <1>2, ExceptSeq
<1>4. DOMAIN p = DOMAIN o /\ \A d \in DOMAIN o : p[d] = IF d = c THEN row ELSE o[d]
  BY <1>1
<1> HIDE DEF p
<1>5. row.key = key /\ row.secret = own
  OBVIOUS
<1> HIDE DEF row
<1>6. Sound(keys, e, n, p, customers)
  BY <1>3, <1>4, <1>5 DEF Sound
<1> QED
  BY <1>6 DEF p, row

LEMMA CreateKeySound ==
  ASSUME NEW keys, NEW e, NEW n, NEW o, NEW customers, Sound(keys, e, n, o, customers),
         NEW company \in customers
  PROVE  Sound(Append(keys, company), e, n, o, customers)
<1>1. keys \in Seq(customers \cup {"revoked"})
  BY DEF Sound
<1>2. DOMAIN keys = 1 .. Len(keys) /\ Len(keys) \in Nat
  BY <1>1, LenProperties
<1> DEFINE k == Append(keys, company)
<1>3. /\ k \in Seq(customers \cup {"revoked"}) /\ Len(k) = Len(keys) + 1
      /\ \A i \in 1 .. Len(keys) : k[i] = keys[i]
  BY <1>1, AppendProperties
<1>4. DOMAIN k = 1 .. Len(keys) + 1
  BY <1>3, LenProperties
<1> HIDE DEF k
<1>5. \A i \in DOMAIN keys : i \in DOMAIN k /\ k[i] = keys[i]
  BY <1>2, <1>3, <1>4
<1>6. \A c \in DOMAIN o, h \in DOMAIN e : o[c].secret = e[h] => o[c].key \in DOMAIN keys
  BY DEF Sound
<1>7. Sound(k, e, n, o, customers)
  BY <1>3, <1>5, <1>6 DEF Sound
<1> QED
  BY <1>7 DEF k

LEMMA RevokeKeySound ==
  ASSUME NEW keys, NEW e, NEW n, NEW o, NEW customers, Sound(keys, e, n, o, customers),
         NEW key \in DOMAIN keys
  PROVE  Sound([keys EXCEPT ![key] = "revoked"], e, n, o, customers)
<1>1. keys \in Seq(customers \cup {"revoked"})
  BY DEF Sound
<1>2. DOMAIN keys = 1 .. Len(keys)
  BY <1>1, LenProperties
<1> DEFINE k == [keys EXCEPT ![key] = "revoked"]
<1>3. k \in Seq(customers \cup {"revoked"})
  BY <1>1, <1>2, ExceptSeq
<1>4. DOMAIN k = DOMAIN keys /\ \A i \in DOMAIN keys : k[i] \in {keys[i], "revoked"}
  BY <1>1
<1> HIDE DEF k
<1>5. \A c \in DOMAIN o, h \in DOMAIN e : o[c].secret = e[h] => o[c].key \in DOMAIN keys
  BY DEF Sound
<1>6. Sound(k, e, n, o, customers)
  BY <1>3, <1>4, <1>5 DEF Sound
<1> QED
  BY <1>6 DEF k

\* Induction on numbers: a set of them that is not empty has a least one.
LEMMA LeastOf ==
  ASSUME NEW T \in SUBSET Nat, T # {}
  PROVE  \E n \in T : \A m \in T : n <= m
<1>1. IsWellFoundedOn(OpToRel(<, Nat), Nat)
  BY NatLessThanWellFounded
<1>2. PICK n \in T : \A m \in T : ~(<<m, n>> \in OpToRel(<, Nat))
  BY <1>1, WFMin
<1>3. \A m \in T : ~(m < n)
  BY <1>2 DEF OpToRel
<1> QED
  BY <1>3

\* The first company with a secret, or 0.
LEMMA FirstWith ==
  ASSUME NEW o, o \in Seq([key: Nat, secret: Nat]), NEW s \in Nat \ {0}
  PROVE  LET first == ReceivedBy(o, Sign(s, 0), 0)
         IN  /\ first # 0 => first \in DOMAIN o /\ o[first].secret = s
             /\ \A c \in DOMAIN o : o[c].secret = s => first # 0 /\ first <= c
<1> DEFINE I == {i \in 1 .. Len(o) : o[i].secret = s}
           first == ReceivedBy(o, Sign(s, 0), 0)
<1>1. \A i \in 1 .. Len(o) : VerifySignature(o[i].secret, Sign(s, 0), 0) <=> o[i].secret = s
  BY DEF VerifySignature, Sign, Tolerance
<1>2. first = IF I # {} THEN Min(I) ELSE 0
  BY <1>1 DEF ReceivedBy, SelectInSeq
<1>3. DOMAIN o = 1 .. Len(o) /\ Len(o) \in Nat
  BY LenProperties
<1>4. I \in SUBSET Nat /\ I \subseteq DOMAIN o /\ 0 \notin I /\ \A i \in DOMAIN o : i \in I <=> o[i].secret = s
  BY <1>3
<1> HIDE DEF I, first
<1>5. ASSUME I # {} PROVE Min(I) \in I /\ \A i \in I : Min(I) <= i
  BY <1>4, <1>5, LeastOf DEF Min
<1>6. first # 0 => first \in DOMAIN o /\ o[first].secret = s
  BY <1>2, <1>4, <1>5
<1>7. \A c \in DOMAIN o : o[c].secret = s => first # 0 /\ first <= c
  BY <1>2, <1>4, <1>5
<1> QED
  BY <1>6, <1>7 DEF first

World(keys, endpoints, secrets, companies) ==
  [site |-> [keys |-> keys, hooks |-> endpoints, secrets |-> secrets], odoo |-> companies]

SoundWorld(world, customers) ==
  \E keys, endpoints, secrets, companies :
    /\ world = World(keys, endpoints, secrets, companies)
    /\ Sound(keys, endpoints, secrets, companies, customers)

\* What the people of the site and of Odoo do, and any other program that registers.
ConnectionStep(world, next, customers, url) ==
  \/ next = world
  \/ \E company \in customers : next = [world EXCEPT !.site = CreateKey(world.site, company)]
  \/ \E key \in DOMAIN world.site.keys : next = [world EXCEPT !.site = RevokeKey(world.site, key)]
  \/ \E company \in customers : \E other : next = [world EXCEPT !.site = Register(world.site, company, other)]
  \/ \E c \in DOMAIN world.odoo, key \in Nat :
       next = Connect(world, c, key, url) \/ next = ConnectLost(world, c, key, url)
  \/ \E c \in DOMAIN world.odoo : next = Disconnect(world, c)

LEMMA RegisterIs ==
  ASSUME NEW world, NEW keys, NEW e, NEW n, NEW o, world = World(keys, e, n, o), NEW company, NEW url
  PROVE  Register(world.site, company, url) =
           [keys |-> keys, hooks |-> With(e, company, url, n + 1), secrets |-> n + 1]
<1> DEFINE s == [keys |-> keys, hooks |-> e, secrets |-> n]
           m == n + 1
           f == With(e, company, url, m)
<1>1. world.site = s /\ s.keys = keys /\ s.hooks = e /\ s.secrets = n
  BY DEF World
<1>2. Register(world.site, company, url) = [s EXCEPT !.secrets = m, !.hooks = f]
  BY <1>1 DEF Register, With
<1> HIDE DEF f, m
<1>3. Register(world.site, company, url) = [keys |-> keys, hooks |-> f, secrets |-> m]
  BY <1>2
<1> QED
  BY <1>3 DEF f, m

LEMMA StepSound ==
  ASSUME NEW world, NEW next, NEW customers, NEW url, "revoked" \notin customers,
         SoundWorld(world, customers), ConnectionStep(world, next, customers, url)
  PROVE  SoundWorld(next, customers)
<1>1. PICK keys, e, n, o : world = World(keys, e, n, o) /\ Sound(keys, e, n, o, customers)
  BY DEF SoundWorld
<1>2. /\ world.site = [keys |-> keys, hooks |-> e, secrets |-> n] /\ world.odoo = o
      /\ world.site.keys = keys /\ world.site.hooks = e /\ world.site.secrets = n
  BY <1>1 DEF World
<1>3. \A company, u : Register(world.site, company, u)
                        = [keys |-> keys, hooks |-> With(e, company, u, n + 1), secrets |-> n + 1]
  BY <1>1, RegisterIs
<1>4. CASE next = world
  BY <1>1, <1>4 DEF SoundWorld
<1>5. ASSUME NEW company \in customers, next = [world EXCEPT !.site = CreateKey(world.site, company)]
      PROVE  SoundWorld(next, customers)
  <2>1. next = World(Append(keys, company), e, n, o)
    BY <1>1, <1>2, <1>5 DEF World, CreateKey
  <2> QED
    BY <1>1, <2>1, CreateKeySound DEF SoundWorld
<1>6. ASSUME NEW key \in DOMAIN keys, next = [world EXCEPT !.site = RevokeKey(world.site, key)]
      PROVE  SoundWorld(next, customers)
  <2>1. next = World([keys EXCEPT ![key] = "revoked"], e, n, o)
    BY <1>1, <1>2, <1>6 DEF World, RevokeKey
  <2> QED
    BY <1>1, <2>1, RevokeKeySound DEF SoundWorld
<1>7. ASSUME NEW company \in customers, NEW other, next = [world EXCEPT !.site = Register(world.site, company, other)]
      PROVE  SoundWorld(next, customers)
  <2>1. next = World(keys, With(e, company, other, n + 1), n + 1, o)
    BY <1>1, <1>3, <1>7 DEF World
  <2> QED
    BY <1>1, <2>1, RegisterSound DEF SoundWorld
<1>8. ASSUME NEW c \in DOMAIN o, NEW key \in Nat, KeyAuth(world.site, key) # "revoked"
      PROVE  /\ SoundWorld(Connect(world, c, key, url), customers)
             /\ SoundWorld(ConnectLost(world, c, key, url), customers)
  <2> DEFINE company == KeyAuth(world.site, key)
             f       == With(e, company, url, n + 1)
             p       == [o EXCEPT ![c] = [key |-> key, secret |-> n + 1]]
  <2>1. key \in DOMAIN keys /\ company = keys[key] /\ company \in customers
    <3>1. key \in DOMAIN keys /\ company = keys[key]
      BY <1>2, <1>8 DEF KeyAuth
    <3>2. keys \in Seq(customers \cup {"revoked"})
      BY <1>1 DEF Sound
    <3>3. keys[key] \in customers \cup {"revoked"}
      BY <3>1, <3>2, LenProperties, ElementOfSeq
    <3> QED
      BY <1>8, <3>1, <3>3
  <2> HIDE DEF company
  <2>2. Sound(keys, f, n + 1, o, customers)
    BY <1>1, <2>1, RegisterSound
  <2>3. f[<<company, url>>] = n + 1 /\ <<company, url>> \in DOMAIN f
    BY DEF With
  <2>4. \A h \in DOMAIN f : n + 1 = f[h] => h = <<company, url>>
    BY <2>2, <2>3 DEF Sound
  <2>5. n \in Nat
    BY <1>1 DEF Sound
  <2> HIDE DEF f
  <2>6. Sound(keys, f, n + 1, p, customers)
    BY <1>8, <2>1, <2>2, <2>4, <2>5, KeptSound
  <2>7. Connect(world, c, key, url) = World(keys, f, n + 1, p)
    <3> DEFINE site == Register(world.site, company, url)
    <3>1. site = [keys |-> keys, hooks |-> f, secrets |-> n + 1]
      BY <1>3 DEF f
    <3> HIDE DEF site
    <3>2. Connect(world, c, key, url) = [world EXCEPT !.site = site, !.odoo[c] = [key |-> key, secret |-> site.secrets]]
      BY <1>8 DEF Connect, site, company
    <3> QED
      BY <1>1, <3>1, <3>2 DEF World
  <2>8. ConnectLost(world, c, key, url) = World(keys, f, n + 1, o)
    BY <1>2, <2>7 DEF ConnectLost, World
  <2> QED
    BY <2>2, <2>6, <2>7, <2>8 DEF SoundWorld
<1>9. ASSUME NEW c \in DOMAIN o, NEW key \in Nat, KeyAuth(world.site, key) = "revoked"
      PROVE  Connect(world, c, key, url) = world /\ ConnectLost(world, c, key, url) = world
  BY <1>1, <1>2, <1>9 DEF Connect, ConnectLost, World
<1>10. ASSUME NEW c \in DOMAIN o, next = Disconnect(world, c)
       PROVE  SoundWorld(next, customers)
  <2>1. next = World(keys, e, n, [o EXCEPT ![c] = [key |-> 0, secret |-> 0]])
    BY <1>1, <1>2, <1>10 DEF Disconnect, World, NotConnected
  <2>2. n \in Nat /\ \A h \in DOMAIN e : e[h] # 0
    BY <1>1 DEF Sound
  <2>3. Sound(keys, e, n, [o EXCEPT ![c] = [key |-> 0, secret |-> 0]], customers)
    BY <1>1, <2>2, KeptSound
  <2> QED
    BY <2>1, <2>3 DEF SoundWorld
<1> QED
  BY <1>2, <1>4, <1>5, <1>6, <1>7, <1>8, <1>9, <1>10, <1>1 DEF ConnectionStep

\* Whoever takes a delivery for its own used a key of the company it is about, which
\* may have been revoked since.
OwnHeard(world, customers, url) ==
  \A company \in customers :
    LET c == Hears(world, company, url)
    IN  c # 0 => KeyAuth(world.site, world.odoo[c].key) \in {company, "revoked"}

LEMMA SoundHears ==
  ASSUME NEW world, NEW customers, NEW url, SoundWorld(world, customers)
  PROVE  OwnHeard(world, customers, url)
<1>1. PICK keys, e, n, o : world = World(keys, e, n, o) /\ Sound(keys, e, n, o, customers)
  BY DEF SoundWorld
<1>2. world.odoo = o /\ world.site.hooks = e /\ world.site.keys = keys
  BY <1>1 DEF World
<1>3. SUFFICES ASSUME NEW company \in customers, Hears(world, company, url) # 0
               PROVE  KeyAuth(world.site, o[Hears(world, company, url)].key) \in {company, "revoked"}
  BY <1>2 DEF OwnHeard
<1> DEFINE h == <<company, url>>
           c == Hears(world, company, url)
<1>4. h \in DOMAIN e /\ c = ReceivedBy(o, Sign(e[h], 0), 0)
  BY <1>2, <1>3 DEF Hears
<1>5. o \in Seq([key: Nat, secret: Nat]) /\ e[h] \in Nat \ {0}
  BY <1>1, <1>4 DEF Sound
<1>6. c \in DOMAIN o /\ o[c].secret = e[h]
  BY <1>3, <1>4, <1>5, FirstWith
<1>7. h[1] = company
  OBVIOUS
<1> HIDE DEF c, h
<1>8. o[c].key \in DOMAIN keys /\ keys[o[c].key] \in {company, "revoked"}
  BY <1>1, <1>4, <1>5, <1>6, <1>7 DEF Sound
<1> QED
  BY <1>2, <1>8 DEF KeyAuth, c

\* A database whose companies, any number of them, never connected.
FreshWorld(world) == \E size \in Nat : world = [site |-> NewSite, odoo |-> [c \in 1 .. size |-> NotConnected]]

LEMMA FreshSound ==
  ASSUME NEW world, NEW customers, FreshWorld(world)
  PROVE  SoundWorld(world, customers)
<1>1. PICK size \in Nat : world = [site |-> NewSite, odoo |-> [c \in 1 .. size |-> NotConnected]]
  BY DEF FreshWorld
<1> DEFINE e == [h \in {} |-> 0]
           o == [c \in 1 .. size |-> NotConnected]
<1>2. world = World(<<>>, e, 0, o)
  BY <1>1 DEF World, NewSite
<1>3. <<>> \in Seq(customers \cup {"revoked"}) /\ DOMAIN e = {}
  BY EmptySeq
<1>4. o \in Seq([key: Nat, secret: Nat]) /\ DOMAIN o = 1 .. size /\ \A c \in DOMAIN o : o[c].secret = 0
  <2>1. NotConnected \in [key: Nat, secret: Nat] /\ NotConnected.secret = 0
    BY DEF NotConnected
  <2>2. o \in [1 .. size -> [key: Nat, secret: Nat]]
    BY <2>1
  <2>3. o \in Seq([key: Nat, secret: Nat])
    BY <2>2, SeqDef
  <2> QED
    BY <2>1, <2>3
<1> HIDE DEF e, o
<1>5. Sound(<<>>, e, 0, o, customers)
  BY <1>3, <1>4 DEF Sound
<1> QED
  BY <1>2, <1>5 DEF SoundWorld

\* Nobody hears of payments of a company whose key it did not use, however often the
\* companies of a database connect and disconnect, whatever answers are lost, and
\* whoever else registers endpoints or makes and revokes keys.
THEOREM HeardByOwn ==
  ASSUME NEW VARIABLE world, NEW CONSTANT customers, NEW CONSTANT url, "revoked" \notin customers
  PROVE  FreshWorld(world) /\ [][ConnectionStep(world, world', customers, url)]_world
           => []OwnHeard(world, customers, url)
<1>1. SoundWorld(world, customers) => OwnHeard(world, customers, url)
  BY SoundHears
<1>2. SoundWorld(world, customers) /\ [ConnectionStep(world, world', customers, url)]_world
        => SoundWorld(world, customers)'
  <2>1. SoundWorld(world, customers) /\ ConnectionStep(world, world', customers, url)
          => SoundWorld(world', customers)
    BY StepSound
  <2>2. SoundWorld(world', customers) <=> SoundWorld(world, customers)'
    BY DEF SoundWorld, World, Sound
  <2>3. UNCHANGED world => ConnectionStep(world, world', customers, url)
    BY DEF ConnectionStep
  <2> QED
    BY <2>1, <2>2, <2>3
<1>3. FreshWorld(world) => SoundWorld(world, customers)
  BY FreshSound
<1> QED
  BY <1>1, <1>2, <1>3, PTL

\* Of two companies of a database the one that connects last is the one that hears of
\* a company of uzbridge; what the others hear of other companies stays as it was,
\* unless the one that connects heard of it before.
THEOREM LastConnectedHears ==
  ASSUME NEW world, NEW customers, NEW url, "revoked" \notin customers, SoundWorld(world, customers),
         NEW c \in DOMAIN world.odoo, NEW key \in Nat, KeyAuth(world.site, key) # "revoked"
  PROVE  LET now == Connect(world, c, key, url)
             own == KeyAuth(world.site, key)
         IN  /\ Hears(now, own, url) = c
             /\ \A other \in customers \ {own} :
                  Hears(world, other, url) # c => Hears(now, other, url) = Hears(world, other, url)
<1>1. PICK keys, e, n, o : world = World(keys, e, n, o) /\ Sound(keys, e, n, o, customers)
  BY DEF SoundWorld
<1>2. /\ world.site = [keys |-> keys, hooks |-> e, secrets |-> n] /\ world.odoo = o
      /\ world.site.hooks = e
  BY <1>1 DEF World
<1> DEFINE own == KeyAuth(world.site, key)
           h   == <<own, url>>
           f   == With(e, own, url, n + 1)
           row == [key |-> key, secret |-> n + 1]
           p   == [o EXCEPT ![c] = row]
<1>3. n \in Nat /\ o \in Seq([key: Nat, secret: Nat]) /\ c \in DOMAIN o
  BY <1>1, <1>2 DEF Sound
<1>4. /\ p \in Seq([key: Nat, secret: Nat]) /\ DOMAIN p = DOMAIN o /\ p[c].secret = n + 1
      /\ \A d \in DOMAIN o : d # c => p[d] = o[d]
  <2>1. row \in [key: Nat, secret: Nat] /\ row.secret = n + 1
    BY <1>3
  <2>2. DOMAIN o = 1 .. Len(o)
    BY <1>3, LenProperties
  <2> HIDE DEF row
  <2>3. p \in Seq([key: Nat, secret: Nat])
    BY <1>3, <2>1, <2>2, ExceptSeq
  <2> QED
    BY <1>3, <2>1, <2>3
<1>5. \A d \in DOMAIN o : o[d].secret \in 0 .. n /\ (d # c => p[d].secret = o[d].secret)
  <2>1. \A d \in DOMAIN o : o[d] \in [key: Nat, secret: Nat]
    BY <1>3, LenProperties, ElementOfSeq
  <2> QED
    BY <1>1, <1>4, <2>1 DEF Sound
<1>6. DOMAIN f = DOMAIN e \cup {h} /\ f[h] = n + 1 /\ \A g \in DOMAIN e : g # h => f[g] = e[g]
  BY DEF With
<1>7. Connect(world, c, key, url).site.hooks = f /\ Connect(world, c, key, url).odoo = p
  <2>1. own # "revoked"
    OBVIOUS
  <2> DEFINE site == Register(world.site, own, url)
  <2>2. site = [keys |-> keys, hooks |-> f, secrets |-> n + 1]
    BY <1>1, <1>2, RegisterIs
  <2> HIDE DEF site, f, own, h
  <2>3. Connect(world, c, key, url) = [world EXCEPT !.site = site, !.odoo[c] = [key |-> key, secret |-> site.secrets]]
    BY <2>1 DEF Connect, site, own
  <2>4. site.secrets = n + 1 /\ site.hooks = f
    BY <2>2
  <2>5. world.odoo = o /\ Connect(world, c, key, url) = [world EXCEPT !.site = site, !.odoo[c] = row]
    BY <1>2, <2>3, <2>4
  <2> HIDE DEF row
  <2> QED
    BY <1>1, <2>4, <2>5 DEF World
<1> HIDE DEF f, p, row
<1> DEFINE now == Connect(world, c, key, url)
<1>8. Hears(now, own, url) = c
  <2>1. Hears(now, own, url) = ReceivedBy(p, Sign(n + 1, 0), 0)
    BY <1>6, <1>7 DEF Hears
  <2>2. n + 1 \in Nat \ {0}
    BY <1>3
  <2>3. \A d \in DOMAIN p : p[d].secret = n + 1 <=> d = c
    BY <1>3, <1>4, <1>5
  <2> QED
    BY <1>3, <1>4, <2>1, <2>2, <2>3, FirstWith
<1>9. ASSUME NEW other \in customers \ {own}, Hears(world, other, url) # c
      PROVE  Hears(now, other, url) = Hears(world, other, url)
  <2> DEFINE g == <<other, url>>
  <2>1. g # h
    BY <1>9
  <2>2. CASE g \notin DOMAIN e
    BY <1>2, <1>6, <1>7, <2>1, <2>2 DEF Hears
  <2>3. CASE g \in DOMAIN e
    <3>1. f[g] = e[g] /\ e[g] \in 1 .. n /\ g \in DOMAIN f
      BY <1>1, <1>6, <2>1, <2>3 DEF Sound
    <3> DEFINE before == ReceivedBy(o, Sign(e[g], 0), 0)
               after  == ReceivedBy(p, Sign(e[g], 0), 0)
    <3>2. Hears(world, other, url) = before /\ Hears(now, other, url) = after
      BY <1>2, <1>7, <2>3, <3>1 DEF Hears
    <3>3. e[g] \in Nat \ {0} /\ e[g] # n + 1
      BY <1>3, <3>1
    <3>4. /\ before # 0 => before \in DOMAIN o /\ o[before].secret = e[g]
          /\ \A d \in DOMAIN o : o[d].secret = e[g] => before # 0 /\ before <= d
      BY <1>3, <3>3, FirstWith
    <3>5. /\ after # 0 => after \in DOMAIN p /\ p[after].secret = e[g]
          /\ \A d \in DOMAIN p : p[d].secret = e[g] => after # 0 /\ after <= d
      BY <1>4, <3>3, FirstWith
    <3>6. before # c
      BY <1>9, <3>2
    <3>7. DOMAIN o \subseteq Nat
      BY <1>3, LenProperties
    <3> HIDE DEF before, after, g
    <3>8. after # 0 => after # c /\ before # 0 /\ before <= after
      BY <1>4, <1>5, <3>3, <3>4, <3>5
    <3>9. before # 0 => after # 0 /\ after <= before
      BY <1>4, <1>5, <3>4, <3>5, <3>6
    <3>10. before = after
      BY <1>4, <3>4, <3>5, <3>7, <3>8, <3>9
    <3> QED
      BY <3>2, <3>10
  <2> QED
    BY <2>2, <2>3
<1> QED
  BY <1>8, <1>9
=============================================================================
