------------------------------ MODULE Automation ------------------------------
(***************************************************************************)
(* What one amoCRM lead sets off: Digital Pipeline jobs (amocrm/views.py   *)
(* dp_hook, amocrm/tasks.py run_automation) and the link stage (lead_hook, *)
(* create_link_for_lead).  They make payment links, and messages, which    *)
(* are Sms's from there.                                                   *)
(*                                                                         *)
(* amoCRM may call a hook again or not at all, and calls to amoCRM can     *)
(* fail.  The lead moves, and links are paid or cancelled, at any time.    *)
(***************************************************************************)
EXTENDS Celery

CONSTANTS
  Jobs,         \* AmoAutomationJob rows that can still be made (bound)
  Links,        \* invoices of the lead that can still be made (bound)
  SmsRows,      \* SmsMessage rows that can still be made (bound)
  Stages,       \* stages of the pipeline
  LinkStage,    \* conn.link_stages of the pipeline
  Actions       \* what the triggers of this instance do

ASSUME StageAssumption == LinkStage \in Stages
ASSUME ActionAssumption == Actions \subseteq {"link", "sms", "link_sms"}
ASSUME JobAssumption == Jobs \cap {"hook", "manager", ""} = {}

VARIABLES
  stage,        \* amoCRM: the stage of the lead
  link,         \* Invoice rows of the lead: status, and what made it
  job,          \* AmoAutomationJob rows
  sms           \* SmsMessage rows of the lead: what made it

rows == <<link, job, sms>>
vars == <<stage, rows, celery>>

Makers == Jobs \cup {"hook", "manager", ""}     \* "": no row yet
NoLink == [status |-> "none", by |-> ""]
NoJob  == [state |-> "none", action |-> "", delayed |-> FALSE, stage |-> LinkStage]
JobRow == [state: {"waiting", "due", "claimed", "done"}, action: Actions,
           delayed: BOOLEAN, stage: Stages]

TypeOK ==
  /\ stage \in Stages
  /\ link \in [Links -> [status: {"none", "pending", "closed"}, by: Makers]]
  /\ job \in [Jobs -> JobRow \cup {NoJob}]
  /\ sms \in [SmsRows -> Makers]
  \* only a job that was claimed has made anything, and only what it is for
  /\ \A j \in Jobs :
       /\ (\E l \in Links : link[l].by = j) =>
            job[j].state \in {"claimed", "done"} /\ job[j].action # "sms"
       /\ (\E m \in SmsRows : sms[m] = j) =>
            job[j].state \in {"claimed", "done"} /\ job[j].action # "link"

Init ==
  /\ CeleryInit
  /\ stage \in Stages
  /\ link = [l \in Links |-> NoLink]
  /\ job = [j \in Jobs |-> NoJob]
  /\ sms = [m \in SmsRows |-> ""]

(***************************************************************************)
(* The lead in amoCRM, and the hooks it fires.                             *)
(***************************************************************************)

MoveLead(s) ==
  /\ stage # s
  /\ stage' = s
  /\ UNCHANGED <<rows, celery>>

\* status_lead, for the link stage.
LeadHook ==
  /\ queue' = queue \cup {Message("link", LinkStage)}
  /\ UNCHANGED <<stage, rows, worker, deaths, dropped>>

\* The job is committed first: when its task does not reach the broker, the next
\* run_due_automations starts it.
DpHook(j, a, delayed) ==
  /\ job[j] = NoJob
  /\ job' = [job EXCEPT ![j] = [state |-> IF delayed THEN "waiting" ELSE "due",
                                action |-> a, delayed |-> delayed, stage |-> stage]]
  /\ queue' \in {queue} \cup (IF delayed THEN {} ELSE {queue \cup {Message("job", j)}})
  /\ UNCHANGED <<stage, link, sms, worker, deaths, dropped>>

DelayEnds(j) ==
  /\ job[j].state = "waiting"
  /\ job' = [job EXCEPT ![j].state = "due"]
  /\ UNCHANGED <<stage, link, sms, celery>>

\* Variant: only the delayed jobs are looked for.
DelayedJobs == {j \in Jobs : job[j].state = "due" /\ job[j].delayed}

DueJobs == {j \in Jobs : job[j].state = "due"}

RunDueAutomations ==
  /\ queue' = queue \cup {Message("job", j) : j \in DueJobs}
  /\ queue' # queue
  /\ UNCHANGED <<stage, rows, worker, deaths, dropped>>

(***************************************************************************)
(* A link is made for the budget of the lead; it is closed when it is paid *)
(* or cancelled.                                                           *)
(***************************************************************************)

Open(l) == link[l].status = "pending"
NoneOpen == \A l \in Links : ~Open(l)

NewLink(by) ==
  \E l \in Links :
    /\ link[l] = NoLink
    /\ link' = [link EXCEPT ![l] = [status |-> "pending", by |-> by]]

\* A manager makes one in the lead's card, whatever is open.
WidgetCreate ==
  /\ NewLink("manager")
  /\ UNCHANGED <<stage, job, sms, celery>>

CloseLink(l) ==
  /\ Open(l)
  /\ link' = [link EXCEPT ![l].status = "closed"]
  /\ UNCHANGED <<stage, job, sms, celery>>

NewSms(by) ==
  \E m \in SmsRows :
    /\ sms[m] = ""
    /\ sms' = [sms EXCEPT ![m] = by]

(***************************************************************************)
(* run_automation_job: claimed, then the lead is read, the link made, the  *)
(* message queued.  An error on the way ends it.                           *)
(***************************************************************************)

\* Variant: the job is marked as done at its end only.
StartJobUnclaimed(w, m) ==
  /\ m.task = "job"
  /\ IF job[m.what].state \in {"waiting", "due"} THEN Take(w, m) ELSE Skip(m)
  /\ UNCHANGED job

StartJob(w, m) ==
  /\ m.task = "job"
  /\ IF job[m.what].state \in {"waiting", "due"}
     THEN Take(w, m) /\ job' = [job EXCEPT ![m.what].state = "claimed"]
     ELSE Skip(m) /\ UNCHANGED job

Finish(w) ==
  /\ job' = [job EXCEPT ![worker[w].what].state = "done"]
  /\ Ack(w, {})

MovedOn(j) == job[j].delayed /\ stage # job[j].stage

\* The lead is read, then an open link is looked for, before invoice_lead calls
\* amoCRM once more.
ReadLead(w) ==
  LET j == worker[w].what
  IN  /\ Busy(w, "job", "call")
      /\ \/ Finish(w)
         \/ /\ ~MovedOn(j)
            /\ Run(w, IF job[j].action # "sms" /\ NoneOpen THEN "invoice"
                      ELSE IF job[j].action = "link" THEN "done" ELSE "sms")
            /\ UNCHANGED <<queue, job>>
      /\ UNCHANGED <<link, sms>>

\* No link, and no SMS then, when the budget is empty.
InvoiceLead(w) ==
  LET j == worker[w].what
  IN  /\ Busy(w, "job", "invoice")
      /\ \/ /\ NewLink(j)
            /\ Run(w, IF job[j].action = "link" THEN "done" ELSE "sms")
            /\ UNCHANGED <<queue, job>>
         \/ /\ Finish(w)
            /\ UNCHANGED link
      /\ UNCHANGED sms

\* The template is off, or an SmsError: noted in the lead.
SendTemplate(w) ==
  /\ Busy(w, "job", "sms")
  /\ NewSms(worker[w].what) \/ UNCHANGED sms
  /\ Run(w, "done")
  /\ UNCHANGED <<queue, link, job>>

JobDone(w) ==
  /\ Busy(w, "job", "done")
  /\ Finish(w)
  /\ UNCHANGED <<link, sms>>

RunAutomation(w) ==
  /\ ReadLead(w) \/ InvoiceLead(w) \/ SendTemplate(w) \/ JobDone(w)
  /\ UNCHANGED stage

(***************************************************************************)
(* create_link_for_lead                                                    *)
(***************************************************************************)

\* Variant: an open link is not looked for.
StartLinkAnyway(w, m) == m.task = "link" /\ Take(w, m)

StartLink(w, m) ==
  /\ m.task = "link"
  /\ IF NoneOpen THEN Take(w, m) ELSE Skip(m)

CreateLinkForLead(w) ==
  /\ \/ /\ Busy(w, "link", "call")
        /\ \/ stage = LinkStage /\ Run(w, "invoice") /\ UNCHANGED queue
           \/ stage # LinkStage /\ Ack(w, {})      \* already moved on
           \/ Retry(w)
        /\ UNCHANGED link
     \/ /\ Busy(w, "link", "invoice")
        /\ \/ NewLink("hook") /\ Ack(w, {})
           \/ UNCHANGED link /\ Ack(w, {})         \* no budget, no account
           \/ UNCHANGED link /\ Retry(w)
  /\ UNCHANGED <<stage, job, sms>>

Start(w) ==
  /\ worker[w] = Idle
  /\ \E m \in queue :
       \/ StartJob(w, m)
       \/ StartLink(w, m) /\ UNCHANGED job
  /\ UNCHANGED <<stage, link, sms, deaths, dropped>>

Work(w) ==
  /\ RunAutomation(w) \/ CreateLinkForLead(w)
  /\ UNCHANGED <<deaths, dropped>>

Next ==
  \/ \E s \in Stages : MoveLead(s)
  \/ LeadHook
  \/ \E j \in Jobs, a \in Actions, delayed \in BOOLEAN : DpHook(j, a, delayed)
  \/ \E j \in Jobs : DelayEnds(j)
  \/ RunDueAutomations
  \/ WidgetCreate
  \/ \E l \in Links : CloseLink(l)
  \/ \E w \in Workers : Start(w) \/ Work(w)
  \/ Die /\ UNCHANGED <<stage, rows>>

Spec == Init /\ [][Next]_vars

\* The workers go on with what they began, and take from the queue in its order,
\* so that a job is not passed over for ever; the beat runs.
StartsJob == \E w \in Workers, m \in queue :
  /\ worker[w] = Idle /\ StartJob(w, m)
  /\ UNCHANGED <<stage, link, sms, deaths, dropped>>

FairSpec ==
  /\ Spec
  /\ \A w \in Workers : WF_vars(Work(w))
  /\ SF_vars(StartsJob)
  /\ WF_vars(RunDueAutomations)

(***************************************************************************)
(* Properties                                                              *)
(***************************************************************************)

\* A Digital Pipeline job makes at most one link and queues at most one message,
\* although the hook, the beat and a redelivery may all start it: it "is never
\* run twice".
JobRunsOnce ==
  /\ \A l1, l2 \in Links : link[l1].by \in Jobs /\ link[l1].by = link[l2].by => l1 = l2
  /\ \A m1, m2 \in SmsRows : sms[m1] \in Jobs /\ sms[m1] = sms[m2] => m1 = m2

\* While a link is open no task makes another one, unless it was half-way when
\* the first was opened.
MakesLinks(w) == worker[w] # Idle /\ worker[w].task \in {"job", "link"}

LinkStands ==
  \A l1, l2 \in Links :
    [](Open(l1) /\ link[l2] = NoLink /\ ~(\E w \in Workers : MakesLinks(w))
       => [](Open(l1) => link[l2].by \in {"", "manager"}))

\* A job that is due is claimed, also when its task did not reach the broker.
DueIsClaimed ==
  \A j \in Jobs : job[j].state = "due" ~> job[j].state \in {"claimed", "done"}
===============================================================================
