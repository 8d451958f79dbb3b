------------------------------- MODULE LeadProofs -------------------------------
(***************************************************************************)
(* Theorems of what is done for a lead: its automation (Automation), its   *)
(* messages (Sms) and its documents (Documents), for any jobs, links,      *)
(* messages, accounts, leads, processes and templates, and any number of   *)
(* retries and of deaths.                                                  *)
(***************************************************************************)
EXTENDS Automation, Sms, Documents, TLAPS, FiniteSetTheorems, SequenceTheorems

(***************************************************************************)
(* Automation: the inductive invariant                                     *)
(***************************************************************************)
JobTasks  == [task: {"job"}, what: Jobs, tries: Nat]
LinkTasks == [task: {"link"}, what: {LinkStage}, tries: Nat]
JobWork   == [task: {"job"}, what: Jobs, tries: Nat,
              step: {"call", "invoice", "sms", "done"}, id: {0}]
LinkWork  == [task: {"link"}, what: {LinkStage}, tries: Nat, step: {"call", "invoice"}, id: {0}]

TasksOK ==
  /\ queue \in SUBSET (JobTasks \cup LinkTasks)
  /\ worker \in [Workers -> {Idle} \cup JobWork \cup LinkWork]
  /\ deaths \in 0 .. MaxDeaths

\* The worker that is on a job: it claimed it, and it is the only one.
Runs(w, j) == worker[w].task = "job" /\ worker[w].what = j

Claims ==
  \A w \in Workers, j \in Jobs : Runs(w, j) =>
    /\ job[j].state = "claimed"
    /\ \A v \in Workers : Runs(v, j) => v = w

\* What a job has not come to, it has not made.
Unmade ==
  \A w \in Workers, j \in Jobs : Runs(w, j) =>
    /\ worker[w].step \in {"call", "invoice"} => \A l \in Links : link[l].by # j
    /\ worker[w].step \in {"call", "invoice", "sms"} => \A m \in SmsRows : sms[m] # j
    /\ worker[w].step = "invoice" => job[j].action # "sms"
    /\ worker[w].step = "sms" => job[j].action # "link"

IInv == TypeOK /\ TasksOK /\ Claims /\ Unmade /\ JobRunsOnce

\* The two parts of TypeOK: what the rows are, and what the rows of a job say of it.
Shape ==
  /\ stage \in Stages
  /\ link \in [Links -> [status: {"none", "pending", "closed"}, by: Makers]]
  /\ job \in [Jobs -> JobRow \cup {NoJob}]
  /\ sms \in [SmsRows -> Makers]

MadeLink(j) == \E l \in Links : link[l].by = j
MadeSms(j)  == \E m \in SmsRows : sms[m] = j

MadeRight ==
  \A j \in Jobs :
    /\ MadeLink(j) => job[j].state \in {"claimed", "done"} /\ job[j].action # "sms"
    /\ MadeSms(j) => job[j].state \in {"claimed", "done"} /\ job[j].action # "link"

LEMMA Parts == TypeOK => Shape /\ MadeRight
BY DEF TypeOK, Shape, MadeRight, MadeLink, MadeSms

LEMMA PartsInit == Shape /\ MadeRight => TypeOK
BY DEF TypeOK, Shape, MadeRight, MadeLink, MadeSms

LEMMA PartsNext == Shape' /\ MadeRight' => TypeOK'
BY DEF TypeOK, Shape, MadeRight, MadeLink, MadeSms

LEMMA JobKind ==
  ASSUME Shape, NEW j \in Jobs
  PROVE  job[j] = NoJob \/ (job[j] # NoJob /\ job[j] \in JobRow)
BY DEF Shape

LEMMA NoJobState == NoJob.state = "none"
BY DEF NoJob

\* It holds of none but jobs.
LEMMA MakersApart == "hook" \notin Jobs /\ "manager" \notin Jobs /\ "" \notin Jobs
BY JobAssumption

LEMMA InitIInv == Init => IInv
<1> SUFFICES ASSUME Init PROVE IInv
  OBVIOUS
<1>1. Shape
  BY DEF Init, Shape, NoLink, NoJob, Makers
<1>2. /\ \A j \in Jobs : ~MadeLink(j) /\ ~MadeSms(j)
      /\ \A w \in Workers, j \in Jobs : ~Runs(w, j)
  BY MakersApart DEF Init, CeleryInit, MadeLink, MadeSms, NoLink, Runs, Idle
<1>3. TasksOK
  <2>1. deaths = 0 /\ queue = {} /\ worker = [w \in Workers |-> Idle]
    BY DEF Init, CeleryInit
  <2> QED
    BY <2>1, BoundAssumption DEF TasksOK
<1>4. JobRunsOnce
  BY MakersApart DEF Init, JobRunsOnce, NoLink
<1> QED
  BY <1>1, <1>2, <1>3, <1>4, PartsInit DEF IInv, MadeRight, Claims, Unmade

\* Who is on a job has it as its work.
LEMMA Working ==
  ASSUME TasksOK, NEW w \in Workers, worker[w].task = "job"
  PROVE  worker[w] \in JobWork /\ worker[w].what \in Jobs
<1>1. worker[w] \in JobWork
  BY DEF TasksOK, Idle, LinkWork
<1> QED
  BY <1>1 DEF JobWork

\* No job is claimed, none makes anything, and none is begun.
LEMMA OthersStep ==
  ASSUME IInv, Shape', TasksOK',
         \A j \in Jobs : \/ job'[j] = job[j]
                         \/ job[j].state \in {"none", "waiting", "due"},
         \A w \in Workers, j \in Jobs : Runs(w, j)' =>
           Runs(w, j) /\ worker'[w].step = worker[w].step,
         \A l \in Links : link'[l].by = link[l].by \/ link'[l].by \notin Jobs,
         UNCHANGED sms
  PROVE  IInv'
<1>1. Shape /\ MadeRight /\ TasksOK /\ Claims /\ Unmade /\ JobRunsOnce
  BY Parts DEF IInv
<1>2. \A j \in Jobs : (MadeLink(j)' => MadeLink(j)) /\ (MadeSms(j)' <=> MadeSms(j))
  BY DEF MadeLink, MadeSms
<1>3. MadeRight'
  BY <1>1, <1>2 DEF MadeRight
<1>4. Claims'
  BY <1>1 DEF Claims
<1>5. Unmade'
  BY <1>1 DEF Unmade, Claims
<1>6. JobRunsOnce'
  BY <1>1 DEF JobRunsOnce
<1>7. TypeOK'
  BY <1>3, PartsNext
<1> QED
  BY <1>3, <1>4, <1>5, <1>6, <1>7 DEF IInv

\* A row is made by the one that makes it, and no other row by anybody.
LEMMA NewLinkLemma ==
  ASSUME Shape, NEW by \in Makers, NewLink(by)
  PROVE  /\ link' \in [Links -> [status: {"none", "pending", "closed"}, by: Makers]]
         /\ \E l \in Links :
              \A k \in Links : link'[k].by = IF k = l THEN by ELSE link[k].by
<1>1. PICK l \in Links : /\ link[l] = NoLink
                         /\ link' = [link EXCEPT ![l] = [status |-> "pending", by |-> by]]
  BY DEF NewLink
<1>2. [status |-> "pending", by |-> by] \in [status: {"none", "pending", "closed"}, by: Makers]
  OBVIOUS
<1> QED
  BY <1>1, <1>2 DEF Shape

LEMMA NewSmsLemma ==
  ASSUME Shape, NEW by \in Makers, NewSms(by)
  PROVE  /\ sms' \in [SmsRows -> Makers]
         /\ \E m \in SmsRows : \A k \in SmsRows : sms'[k] = IF k = m THEN by ELSE sms[k]
BY DEF Shape, NewSms

(***************************************************************************)
(* The hooks, the beat, the managers                                       *)
(***************************************************************************)
LEMMA HookSteps ==
  ASSUME IInv,
         \/ \E s \in Stages : MoveLead(s)
         \/ LeadHook
         \/ \E j \in Jobs, a \in Actions, delayed \in BOOLEAN : DpHook(j, a, delayed)
         \/ \E j \in Jobs : DelayEnds(j)
         \/ RunDueAutomations
         \/ UNCHANGED vars
  PROVE  IInv'
<1>1. Shape /\ TasksOK
  BY Parts DEF IInv
<1>2. UNCHANGED <<link, sms, worker, deaths>>
  BY DEF MoveLead, LeadHook, DpHook, DelayEnds, RunDueAutomations, rows, celery, vars
<1>3. ASSUME NEW j \in Jobs PROVE Message("job", j) \in JobTasks
  BY DEF Message, JobTasks
<1>4. Message("link", LinkStage) \in LinkTasks
  BY DEF Message, LinkTasks
<1>5. stage' \in Stages /\ queue' \in SUBSET (JobTasks \cup LinkTasks)
  <2>1. stage \in Stages /\ queue \in SUBSET (JobTasks \cup LinkTasks)
    BY <1>1 DEF Shape, TasksOK
  <2>2. CASE \E s \in Stages : MoveLead(s)
    BY <2>1, <2>2 DEF MoveLead, celery
  <2>3. CASE LeadHook
    BY <1>4, <2>1, <2>3 DEF LeadHook
  <2>4. CASE \E j \in Jobs, a \in Actions, delayed \in BOOLEAN : DpHook(j, a, delayed)
    BY <1>3, <2>1, <2>4 DEF DpHook
  <2>5. CASE \E j \in Jobs : DelayEnds(j)
    BY <2>1, <2>5 DEF DelayEnds, celery
  <2>6. CASE RunDueAutomations
    BY <1>3, <2>1, <2>6 DEF RunDueAutomations, DueJobs
  <2>7. CASE UNCHANGED vars
    BY <2>1, <2>7 DEF vars, celery
  <2> QED
    BY <2>2, <2>3, <2>4, <2>5, <2>6, <2>7
<1>6. /\ job' \in [Jobs -> JobRow \cup {NoJob}]
      /\ \A j \in Jobs : job'[j] = job[j] \/ job[j].state \in {"none", "waiting", "due"}
  <2>1. job \in [Jobs -> JobRow \cup {NoJob}]
    BY <1>1 DEF Shape
  <2>2. ASSUME NEW j \in Jobs, NEW a \in Actions, NEW delayed \in BOOLEAN, DpHook(j, a, delayed)
        PROVE  /\ job' \in [Jobs -> JobRow \cup {NoJob}]
               /\ \A i \in Jobs : job'[i] = job[i] \/ job[i].state \in {"none", "waiting", "due"}
    <3> DEFINE r == [state |-> IF delayed THEN "waiting" ELSE "due",
                     action |-> a, delayed |-> delayed, stage |-> stage]
    <3>1. r \in JobRow
      BY <1>1 DEF Shape, JobRow
    <3>2. job[j] = NoJob /\ job' = [job EXCEPT ![j] = r]
      BY <2>2 DEF DpHook
    <3> HIDE DEF r
    <3> QED
      BY <2>1, <3>1, <3>2, NoJobState
  <2>3. ASSUME NEW j \in Jobs, DelayEnds(j)
        PROVE  /\ job' \in [Jobs -> JobRow \cup {NoJob}]
               /\ \A i \in Jobs : job'[i] = job[i] \/ job[i].state \in {"none", "waiting", "due"}
    <3> DEFINE r == [job[j] EXCEPT !.state = "due"]
    <3>1. job[j].state = "waiting" /\ job' = [job EXCEPT ![j] = r]
      BY <2>3 DEF DelayEnds
    <3>2. job[j] \in JobRow
      BY <1>1, <3>1, JobKind, NoJobState
    <3>3. r \in JobRow
      BY <3>2 DEF JobRow
    <3> HIDE DEF r
    <3> QED
      BY <2>1, <3>1, <3>3
  <2>4. CASE job' = job
    BY <2>1, <2>4
  <2> QED
    BY <2>2, <2>3, <2>4 DEF MoveLead, LeadHook, RunDueAutomations, rows, vars
<1>7. Shape' /\ TasksOK'
  BY <1>1, <1>2, <1>5, <1>6 DEF Shape, TasksOK
<1> QED
  BY <1>2, <1>6, <1>7, OthersStep DEF Runs

LEMMA WidgetSteps ==
  ASSUME IInv, WidgetCreate \/ \E l \in Links : CloseLink(l)
  PROVE  IInv'
<1>1. Shape /\ TasksOK /\ UNCHANGED <<stage, job, sms, celery>>
  BY Parts DEF IInv, WidgetCreate, CloseLink
<1>2. /\ link' \in [Links -> [status: {"none", "pending", "closed"}, by: Makers]]
      /\ \A l \in Links : link'[l].by = link[l].by \/ link'[l].by \notin Jobs
  <2>1. CASE WidgetCreate
    <3>1. "manager" \in Makers /\ NewLink("manager")
      BY <2>1 DEF WidgetCreate, Makers
    <3> QED
      BY <1>1, <3>1, NewLinkLemma, MakersApart
  <2>2. CASE \E l \in Links : CloseLink(l)
    <3>1. PICK l \in Links : link' = [link EXCEPT ![l].status = "closed"]
      BY <2>2 DEF CloseLink
    <3>2. link' = [link EXCEPT ![l] = [link[l] EXCEPT !.status = "closed"]]
      BY <3>1
    <3>3. /\ [link[l] EXCEPT !.status = "closed"] \in [status: {"none", "pending", "closed"}, by: Makers]
          /\ [link[l] EXCEPT !.status = "closed"].by = link[l].by
      BY <1>1 DEF Shape
    <3> QED
      BY <1>1, <3>2, <3>3 DEF Shape
  <2> QED
    BY <2>1, <2>2
<1>3. Shape' /\ TasksOK'
  BY <1>1, <1>2 DEF Shape, TasksOK, celery
<1> QED
  BY <1>1, <1>2, <1>3, OthersStep DEF Runs, celery

(***************************************************************************)
(* The workers                                                             *)
(***************************************************************************)

\* What a worker becomes.
LEMMA Becomes ==
  ASSUME TasksOK, NEW w \in Workers, NEW r \in {Idle} \cup JobWork \cup LinkWork,
         worker' = [worker EXCEPT ![w] = r],
         queue' \in SUBSET (JobTasks \cup LinkTasks), deaths' \in 0 .. MaxDeaths
  PROVE  TasksOK' /\ \A v \in Workers : worker'[v] = IF v = w THEN r ELSE worker[v]
BY DEF TasksOK

\* A message is skipped, or taken for the link stage.
LEMMA StartOther ==
  ASSUME IInv, NEW w \in Workers, NEW m \in queue, UNCHANGED <<stage, link, job, sms, deaths>>,
         Skip(m) \/ (m.task = "link" /\ Take(w, m))
  PROVE  IInv'
<1>1. Shape /\ TasksOK
  BY Parts DEF IInv
<1>2. Shape'
  BY <1>1 DEF Shape
<1>3. CASE Skip(m)
  <2>1. TasksOK' /\ worker' = worker
    BY <1>1, <1>3 DEF TasksOK, Skip
  <2> QED
    BY <1>2, <2>1, OthersStep DEF Runs
<1>4. CASE m.task = "link" /\ Take(w, m)
  <2> DEFINE r == [task |-> m.task, what |-> m.what, tries |-> m.tries, step |-> "call", id |-> 0]
  <2>1. m \in LinkTasks
    BY <1>1, <1>4 DEF TasksOK, JobTasks
  <2>2. r \in LinkWork /\ r.task = "link"
    BY <1>4, <2>1 DEF LinkTasks, LinkWork
  <2>3. worker' = [worker EXCEPT ![w] = r] /\ queue' = queue
    BY <1>4 DEF Take
  <2> HIDE DEF r
  <2>4. TasksOK' /\ \A v \in Workers : worker'[v] = IF v = w THEN r ELSE worker[v]
    BY <1>1, <2>2, <2>3, Becomes DEF TasksOK
  <2>5. \A v \in Workers, j \in Jobs : Runs(v, j)' => Runs(v, j) /\ worker'[v].step = worker[v].step
    BY <2>2, <2>4 DEF Runs
  <2> QED
    BY <1>2, <2>4, <2>5, OthersStep
<1> QED
  BY <1>3, <1>4

\* The claim: nobody is on the job yet, and it has made nothing.
LEMMA ClaimStep ==
  ASSUME IInv, NEW w \in Workers, NEW m \in queue, UNCHANGED <<stage, link, sms, deaths>>,
         m.task = "job", job[m.what].state \in {"waiting", "due"}, Take(w, m),
         job' = [job EXCEPT ![m.what].state = "claimed"]
  PROVE  IInv'
<1> DEFINE r == [task |-> m.task, what |-> m.what, tries |-> m.tries, step |-> "call", id |-> 0]
<1>1. Shape /\ MadeRight /\ TasksOK /\ Claims /\ Unmade /\ JobRunsOnce
  BY Parts DEF IInv
<1>2. m \in JobTasks
  BY <1>1 DEF TasksOK, LinkTasks
<1>3. PICK j \in Jobs : j = m.what
  BY <1>2 DEF JobTasks
<1>4. r \in JobWork /\ r.task = "job" /\ r.what = j /\ r.step = "call"
  BY <1>2, <1>3 DEF JobTasks, JobWork
<1>5. worker' = [worker EXCEPT ![w] = r] /\ queue' = queue
  BY DEF Take
<1> HIDE DEF r
<1>6. TasksOK' /\ \A v \in Workers : worker'[v] = IF v = w THEN r ELSE worker[v]
  BY <1>1, <1>4, <1>5, Becomes DEF TasksOK
<1>7. job[j] \in JobRow
  BY <1>1, <1>3, JobKind, NoJobState
<1>8. job' = [job EXCEPT ![j] = [job[j] EXCEPT !.state = "claimed"]]
  BY <1>3
<1>9. /\ job' \in [Jobs -> JobRow \cup {NoJob}]
      /\ job'[j].state = "claimed" /\ job'[j].action = job[j].action
      /\ \A i \in Jobs : i # j => job'[i] = job[i]
  <2>1. [job[j] EXCEPT !.state = "claimed"] \in JobRow
    BY <1>7 DEF JobRow
  <2>2. /\ [job[j] EXCEPT !.state = "claimed"].state = "claimed"
        /\ [job[j] EXCEPT !.state = "claimed"].action = job[j].action
    BY <1>7 DEF JobRow
  <2> QED
    BY <1>1, <1>8, <2>1, <2>2 DEF Shape
<1>10. ~MadeLink(j) /\ ~MadeSms(j) /\ \A v \in Workers : ~Runs(v, j)
  BY <1>1, <1>3 DEF MadeRight, Claims
<1>11. Shape'
  BY <1>1, <1>9 DEF Shape
<1>12. MadeRight'
  BY <1>1, <1>9 DEF MadeRight, MadeLink, MadeSms
<1>13. \A v \in Workers, i \in Jobs : Runs(v, i)' =>
         \/ v = w /\ i = j
         \/ v # w /\ i # j /\ Runs(v, i) /\ worker'[v] = worker[v]
  BY <1>4, <1>6, <1>10 DEF Runs
<1>14. Claims'
  BY <1>1, <1>9, <1>13 DEF Claims
<1>15. Unmade'
  BY <1>1, <1>4, <1>6, <1>9, <1>10, <1>13 DEF Unmade, MadeLink, MadeSms
<1>16. JobRunsOnce'
  BY <1>1 DEF JobRunsOnce
<1>17. TypeOK'
  BY <1>11, <1>12, PartsNext
<1> QED
  BY <1>6, <1>14, <1>15, <1>16, <1>17 DEF IInv

LEMMA StartStep ==
  ASSUME IInv, NEW w \in Workers, Start(w)
  PROVE  IInv'
<1>1. UNCHANGED <<stage, link, sms, deaths>>
  BY DEF Start
<1>2. PICK m \in queue : StartJob(w, m) \/ (StartLink(w, m) /\ UNCHANGED job)
  BY DEF Start
<1>3. CASE StartJob(w, m)
  BY <1>1, <1>3, ClaimStep, StartOther DEF StartJob
<1>4. CASE StartLink(w, m) /\ UNCHANGED job
  BY <1>1, <1>4, StartOther DEF StartLink
<1> QED
  BY <1>2, <1>3, <1>4

\* The end of a task.
LEMMA AckLemma ==
  ASSUME TasksOK, NEW w \in Workers, NEW more \in SUBSET (JobTasks \cup LinkTasks), Ack(w, more),
         UNCHANGED deaths
  PROVE  TasksOK' /\ \A v \in Workers : worker'[v] = IF v = w THEN Idle ELSE worker[v]
<1>1. worker' = [worker EXCEPT ![w] = Idle]
  BY DEF Ack
<1>2. queue' \in SUBSET (JobTasks \cup LinkTasks)
  BY DEF Ack, TasksOK
<1>3. deaths' \in 0 .. MaxDeaths
  BY DEF TasksOK
<1> QED
  BY <1>1, <1>2, <1>3, Becomes

\* create_link_for_lead goes on, ends, or is tried again.
LEMMA LinkTaskStep ==
  ASSUME IInv, NEW w \in Workers, CreateLinkForLead(w), UNCHANGED deaths
  PROVE  IInv'
<1>1. /\ Shape /\ TasksOK /\ UNCHANGED <<stage, job, sms>>
      /\ worker[w] # Idle /\ worker[w].task = "link"
  BY Parts DEF IInv, CreateLinkForLead, Busy
<1>2. worker[w] \in LinkWork
  BY <1>1 DEF TasksOK, JobWork
<1>3. \/ Ack(w, {}) \/ Retry(w)
      \/ Run(w, "invoice") /\ UNCHANGED queue
  BY DEF CreateLinkForLead
<1>4. TasksOK' /\ \E r \in {Idle} \cup LinkWork : \A v \in Workers :
                    worker'[v] = IF v = w THEN r ELSE worker[v]
  <2>1. CASE Ack(w, {})
    BY <1>1, <2>1, AckLemma
  <2>2. CASE Retry(w)
    <3>1. Held(w) \in LinkTasks
      BY <1>2 DEF Held, LinkTasks, LinkWork
    <3>2. [Held(w) EXCEPT !.tries = @ + 1] \in LinkTasks
      BY <3>1 DEF LinkTasks
    <3>3. PICK more \in SUBSET (JobTasks \cup LinkTasks) : Ack(w, more)
      BY <2>2, <3>2 DEF Retry
    <3> QED
      BY <1>1, <3>3, AckLemma
  <2>3. CASE Run(w, "invoice") /\ UNCHANGED queue
    <3> DEFINE r == [worker[w] EXCEPT !.step = "invoice"]
    <3>1. r \in LinkWork
      BY <1>2 DEF LinkWork
    <3>2. worker' = [worker EXCEPT ![w] = r]
      BY <2>3 DEF Run
    <3> HIDE DEF r
    <3>3. TasksOK' /\ \A v \in Workers : worker'[v] = IF v = w THEN r ELSE worker[v]
      BY <1>1, <2>3, <3>1, <3>2, Becomes DEF TasksOK
    <3> QED
      BY <3>1, <3>3
  <2> QED
    BY <1>3, <2>1, <2>2, <2>3
<1>5. PICK r \in {Idle} \cup LinkWork : \A v \in Workers :
        worker'[v] = IF v = w THEN r ELSE worker[v]
  BY <1>4
<1>6. r.task # "job"
  BY DEF Idle, LinkWork
<1>7. \A v \in Workers, j \in Jobs : Runs(v, j)' => Runs(v, j) /\ worker'[v].step = worker[v].step
  BY <1>5, <1>6 DEF Runs
<1>8. /\ link' \in [Links -> [status: {"none", "pending", "closed"}, by: Makers]]
      /\ \A l \in Links : link'[l].by = link[l].by \/ link'[l].by \notin Jobs
  <2>1. NewLink("hook") \/ link' = link
    BY DEF CreateLinkForLead
  <2>2. "hook" \in Makers
    BY DEF Makers
  <2>3. CASE NewLink("hook")
    BY <1>1, <2>2, <2>3, NewLinkLemma, MakersApart
  <2>4. CASE link' = link
    BY <1>1, <2>4 DEF Shape
  <2> QED
    BY <2>1, <2>3, <2>4
<1>9. Shape'
  BY <1>1, <1>8 DEF Shape
<1> QED
  BY <1>1, <1>4, <1>7, <1>8, <1>9, OthersStep

\* A job makes what it came to, once, and goes on to a later step or ends.
LEMMA JobGoes ==
  ASSUME IInv, TasksOK', NEW w \in Workers, NEW j \in Jobs, Runs(w, j), UNCHANGED stage,
         NEW r \in {Idle} \cup JobWork, NEW next \in {"invoice", "sms", "done", "end"},
         \A v \in Workers : worker'[v] = IF v = w THEN r ELSE worker[v],
         next # "end" => r \in JobWork /\ r.what = j /\ r.step = next /\ UNCHANGED job,
         next = "end" => r = Idle /\ job' = [job EXCEPT ![j].state = "done"],
         UNCHANGED link \/ (worker[w].step = "invoice" /\ NewLink(j) /\ next # "invoice"),
         UNCHANGED sms \/ (worker[w].step = "sms" /\ NewSms(j) /\ next = "done"),
         next = "invoice" => worker[w].step = "call" /\ job[j].action # "sms",
         next = "sms" => worker[w].step \in {"call", "invoice"} /\ job[j].action # "link"
  PROVE  IInv'
<1>1. /\ Shape /\ MadeRight /\ TasksOK /\ Claims /\ Unmade /\ JobRunsOnce
      /\ j \in Makers
  BY Parts DEF IInv, Makers
<1>2. /\ job[j].state = "claimed"
      /\ \A v \in Workers : Runs(v, j) => v = w
      /\ worker[w].step = "invoice" => (\A l \in Links : link[l].by # j) /\ job[j].action # "sms"
      /\ worker[w].step \in {"call", "invoice", "sms"} => \A m \in SmsRows : sms[m] # j
      /\ worker[w].step \in {"call", "invoice"} => \A l \in Links : link[l].by # j
      /\ worker[w].step = "sms" => job[j].action # "link"
  BY <1>1 DEF Claims, Unmade
<1>3. /\ job' \in [Jobs -> JobRow \cup {NoJob}]
      /\ \A i \in Jobs : i # j => job'[i] = job[i]
      /\ job'[j].action = job[j].action
      /\ job'[j].state \in {"claimed", "done"} /\ (next # "end" => job'[j].state = "claimed")
  <2>1. CASE next # "end"
    BY <1>1, <1>2, <2>1 DEF Shape
  <2>2. CASE next = "end"
    <3>1. job' = [job EXCEPT ![j] = [job[j] EXCEPT !.state = "done"]]
      BY <2>2
    <3>2. job[j] \in JobRow
      BY <1>1, <1>2, JobKind, NoJobState
    <3>3. /\ [job[j] EXCEPT !.state = "done"] \in JobRow
          /\ [job[j] EXCEPT !.state = "done"].state = "done"
          /\ [job[j] EXCEPT !.state = "done"].action = job[j].action
      BY <3>2 DEF JobRow
    <3> QED
      BY <1>1, <2>2, <3>1, <3>3 DEF Shape
  <2> QED
    BY <2>1, <2>2
<1>4. /\ link' \in [Links -> [status: {"none", "pending", "closed"}, by: Makers]]
      /\ \A l \in Links : link'[l].by = link[l].by \/ (link'[l].by = j /\ worker[w].step = "invoice")
      /\ \A l1, l2 \in Links : link'[l1].by = j /\ link'[l2].by = j => l1 = l2
      /\ next = "invoice" => link' = link
  <2>1. CASE UNCHANGED link
    BY <1>1, <2>1 DEF Shape, JobRunsOnce
  <2>2. CASE worker[w].step = "invoice" /\ NewLink(j) /\ next # "invoice"
    <3>1. /\ link' \in [Links -> [status: {"none", "pending", "closed"}, by: Makers]]
          /\ \E l \in Links : \A k \in Links : link'[k].by = IF k = l THEN j ELSE link[k].by
      BY <1>1, <2>2, NewLinkLemma
    <3> QED
      BY <1>2, <2>2, <3>1
  <2> QED
    BY <2>1, <2>2
<1>5. /\ sms' \in [SmsRows -> Makers]
      /\ \A m \in SmsRows : sms'[m] = sms[m] \/ (sms'[m] = j /\ worker[w].step = "sms")
      /\ \A m1, m2 \in SmsRows : sms'[m1] = j /\ sms'[m2] = j => m1 = m2
      /\ next \in {"invoice", "sms"} => sms' = sms
  <2>1. CASE UNCHANGED sms
    BY <1>1, <2>1 DEF Shape, JobRunsOnce
  <2>2. CASE worker[w].step = "sms" /\ NewSms(j) /\ next = "done"
    <3>1. /\ sms' \in [SmsRows -> Makers]
          /\ \E m \in SmsRows : \A k \in SmsRows : sms'[k] = IF k = m THEN j ELSE sms[k]
      BY <1>1, <2>2, NewSmsLemma
    <3> QED
      BY <1>2, <2>2, <3>1
  <2> QED
    BY <2>1, <2>2
<1>6. Shape'
  BY <1>1, <1>3, <1>4, <1>5 DEF Shape
<1>7. MadeRight'
  <2> SUFFICES ASSUME NEW i \in Jobs
               PROVE  /\ MadeLink(i)' => job'[i].state \in {"claimed", "done"} /\ job'[i].action # "sms"
                      /\ MadeSms(i)' => job'[i].state \in {"claimed", "done"} /\ job'[i].action # "link"
    BY DEF MadeRight
  <2>1. MadeLink(i)' => MadeLink(i) \/ (i = j /\ worker[w].step = "invoice")
    BY <1>4 DEF MadeLink
  <2>2. MadeSms(i)' => MadeSms(i) \/ (i = j /\ worker[w].step = "sms")
    BY <1>5 DEF MadeSms
  <2> QED
    BY <1>1, <1>2, <1>3, <2>1, <2>2 DEF MadeRight
<1>8. \A v \in Workers, i \in Jobs : Runs(v, i)' =>
         \/ v = w /\ i = j /\ next # "end"
         \/ v # w /\ i # j /\ Runs(v, i) /\ worker'[v] = worker[v]
  <2>1. Idle.task # "job"
    BY DEF Idle
  <2> QED
    BY <1>2, <2>1 DEF Runs
<1>9. Claims'
  BY <1>1, <1>3, <1>8 DEF Claims
<1>10. Unmade'
  <2> SUFFICES ASSUME NEW v \in Workers, NEW i \in Jobs, Runs(v, i)'
               PROVE  /\ worker'[v].step \in {"call", "invoice"} => \A l \in Links : link'[l].by # i
                      /\ worker'[v].step \in {"call", "invoice", "sms"} => \A m \in SmsRows : sms'[m] # i
                      /\ worker'[v].step = "invoice" => job'[i].action # "sms"
                      /\ worker'[v].step = "sms" => job'[i].action # "link"
    BY DEF Unmade
  <2>1. CASE v = w /\ i = j /\ next # "end"
    <3>1. worker'[v].step = next
      BY <2>1
    <3> QED
      BY <1>2, <1>3, <1>4, <1>5, <2>1, <3>1
  <2>2. CASE v # w /\ i # j /\ Runs(v, i) /\ worker'[v] = worker[v]
    BY <1>1, <1>3, <1>4, <1>5, <2>2 DEF Unmade
  <2> QED
    BY <1>8, <2>1, <2>2
<1>11. JobRunsOnce'
  BY <1>1, <1>4, <1>5 DEF JobRunsOnce
<1>12. TypeOK'
  BY <1>6, <1>7, PartsNext
<1> QED
  BY <1>9, <1>10, <1>11, <1>12 DEF IInv

\* run_automation_job, from its claim to its end.
LEMMA JobTaskStep ==
  ASSUME IInv, NEW w \in Workers, RunAutomation(w), UNCHANGED deaths
  PROVE  IInv'
<1>1. /\ TasksOK /\ UNCHANGED stage /\ worker[w].task = "job"
  BY DEF IInv, RunAutomation, ReadLead, InvoiceLead, SendTemplate, JobDone, Busy
<1>2. worker[w] \in JobWork /\ worker[w].what \in Jobs
  BY <1>1, Working
<1>3. PICK j \in Jobs : j = worker[w].what
  BY <1>2
<1>4. Runs(w, j)
  BY <1>1, <1>3 DEF Runs
<1>5. ASSUME NEW step \in {"invoice", "sms", "done"}, Run(w, step), UNCHANGED queue
      PROVE  /\ TasksOK'
             /\ [worker[w] EXCEPT !.step = step] \in JobWork
             /\ [worker[w] EXCEPT !.step = step].what = j
             /\ [worker[w] EXCEPT !.step = step].step = step
             /\ \A v \in Workers : worker'[v] = IF v = w THEN [worker[w] EXCEPT !.step = step] ELSE worker[v]
  <2> DEFINE r == [worker[w] EXCEPT !.step = step]
  <2>1. r \in JobWork /\ r.what = j /\ r.step = step
    BY <1>2, <1>3 DEF JobWork
  <2>2. worker' = [worker EXCEPT ![w] = r]
    BY <1>5 DEF Run
  <2> HIDE DEF r
  <2>3. TasksOK' /\ \A v \in Workers : worker'[v] = IF v = w THEN r ELSE worker[v]
    BY <1>1, <1>5, <2>1, <2>2, Becomes DEF TasksOK
  <2> QED
    BY <2>1, <2>3 DEF r
<1>6. ASSUME Finish(w), UNCHANGED <<link, sms>>
      PROVE  IInv'
  <2>1. Ack(w, {}) /\ job' = [job EXCEPT ![j].state = "done"]
    BY <1>3, <1>6 DEF Finish
  <2>2. TasksOK' /\ \A v \in Workers : worker'[v] = IF v = w THEN Idle ELSE worker[v]
    BY <1>1, <2>1, AckLemma
  <2> DEFINE r == Idle
             next == "end"
  <2>3. r \in {Idle} \cup JobWork /\ next \in {"invoice", "sms", "done", "end"}
    OBVIOUS
  <2> QED
    BY <1>1, <1>4, <1>6, <2>1, <2>2, <2>3, JobGoes
<1>7. ASSUME NEW step \in {"invoice", "sms", "done"}, Run(w, step), UNCHANGED <<queue, job>>,
             UNCHANGED link \/ (worker[w].step = "invoice" /\ NewLink(j) /\ step # "invoice"),
             UNCHANGED sms \/ (worker[w].step = "sms" /\ NewSms(j) /\ step = "done"),
             step = "invoice" => worker[w].step = "call" /\ job[j].action # "sms",
             step = "sms" => worker[w].step \in {"call", "invoice"} /\ job[j].action # "link"
      PROVE  IInv'
  <2> DEFINE r == [worker[w] EXCEPT !.step = step]
  <2>1. /\ TasksOK' /\ r \in JobWork /\ r.what = j /\ r.step = step
        /\ \A v \in Workers : worker'[v] = IF v = w THEN r ELSE worker[v]
    BY <1>5, <1>7
  <2> HIDE DEF r
  <2>2. r \in {Idle} \cup JobWork /\ step \in {"invoice", "sms", "done", "end"} /\ step # "end"
    BY <2>1
  <2> QED
    BY <1>1, <1>4, <1>7, <2>1, <2>2, JobGoes
<1>8. CASE ReadLead(w)
  <2>1. worker[w].step = "call" /\ UNCHANGED <<link, sms>>
    BY <1>8 DEF ReadLead, Busy
  <2>2. CASE Finish(w)
    BY <1>6, <2>1, <2>2
  <2>3. CASE /\ Run(w, IF job[j].action # "sms" /\ NoneOpen THEN "invoice"
                       ELSE IF job[j].action = "link" THEN "done" ELSE "sms")
             /\ UNCHANGED <<queue, job>>
    <3>1. CASE job[j].action # "sms" /\ NoneOpen
      BY <1>7, <2>1, <2>3, <3>1
    <3>2. CASE ~(job[j].action # "sms" /\ NoneOpen) /\ job[j].action = "link"
      BY <1>7, <2>1, <2>3, <3>2
    <3>3. CASE ~(job[j].action # "sms" /\ NoneOpen) /\ job[j].action # "link"
      BY <1>7, <2>1, <2>3, <3>3
    <3> QED
      BY <3>1, <3>2, <3>3
  <2> QED
    BY <1>3, <1>8, <2>2, <2>3 DEF ReadLead
<1>9. CASE InvoiceLead(w)
  <2>1. worker[w].step = "invoice" /\ UNCHANGED sms
    BY <1>9 DEF InvoiceLead, Busy
  <2>2. CASE Finish(w) /\ UNCHANGED link
    BY <1>6, <2>1, <2>2
  <2>3. CASE /\ NewLink(j) /\ Run(w, IF job[j].action = "link" THEN "done" ELSE "sms")
             /\ UNCHANGED <<queue, job>>
    <3>1. CASE job[j].action = "link"
      BY <1>7, <2>1, <2>3, <3>1
    <3>2. CASE job[j].action # "link"
      BY <1>7, <2>1, <2>3, <3>2
    <3> QED
      BY <3>1, <3>2
  <2> QED
    BY <1>3, <1>9, <2>2, <2>3 DEF InvoiceLead
<1>10. CASE SendTemplate(w)
  <2>1. worker[w].step = "sms" /\ Run(w, "done") /\ UNCHANGED <<queue, link, job>>
    BY <1>10 DEF SendTemplate, Busy
  <2>2. NewSms(j) \/ UNCHANGED sms
    BY <1>3, <1>10 DEF SendTemplate
  <2> QED
    BY <1>7, <2>1, <2>2
<1>11. CASE JobDone(w)
  BY <1>6, <1>11 DEF JobDone
<1> QED
  BY <1>8, <1>9, <1>10, <1>11 DEF RunAutomation

\* A job whose worker died stays claimed, and is not run again.
LEMMA DieStep ==
  ASSUME IInv, Die, UNCHANGED <<stage, rows>>
  PROVE  IInv'
<1>1. Shape /\ TasksOK /\ queue' \subseteq queue
  BY Parts DEF IInv, Die
<1>2. PICK w \in Workers : worker' = [worker EXCEPT ![w] = Idle]
  BY DEF Die
<1>3. deaths' \in 0 .. MaxDeaths /\ queue' \in SUBSET (JobTasks \cup LinkTasks)
  BY <1>1, BoundAssumption DEF Die, TasksOK
<1>4. TasksOK' /\ \A v \in Workers : worker'[v] = IF v = w THEN Idle ELSE worker[v]
  BY <1>1, <1>2, <1>3, Becomes
<1>5. \A v \in Workers, j \in Jobs : Runs(v, j)' => Runs(v, j) /\ worker'[v].step = worker[v].step
  BY <1>4 DEF Runs, Idle
<1>6. Shape'
  BY <1>1 DEF Shape, rows
<1> QED
  BY <1>4, <1>5, <1>6, OthersStep DEF rows

(***************************************************************************)
(* The theorems                                                            *)
(***************************************************************************)
LEMMA Step == IInv /\ [Next]_vars => IInv'
<1> SUFFICES ASSUME IInv, [Next]_vars PROVE IInv'
  OBVIOUS
<1>1. ASSUME NEW w \in Workers, Start(w) PROVE IInv'
  BY <1>1, StartStep
<1>2. ASSUME NEW w \in Workers, Work(w) PROVE IInv'
  BY <1>2, JobTaskStep, LinkTaskStep DEF Work
<1>3. CASE Die /\ UNCHANGED <<stage, rows>>
  BY <1>3, DieStep
<1>4. CASE WidgetCreate \/ \E l \in Links : CloseLink(l)
  BY <1>4, WidgetSteps
<1>5. CASE \/ \E s \in Stages : MoveLead(s)
           \/ LeadHook
           \/ \E j \in Jobs, a \in Actions, delayed \in BOOLEAN : DpHook(j, a, delayed)
           \/ \E j \in Jobs : DelayEnds(j)
           \/ RunDueAutomations
           \/ UNCHANGED vars
  BY <1>5, HookSteps
<1> QED
  BY <1>1, <1>2, <1>3, <1>4, <1>5 DEF Next

\* The invariant holds in every state the hooks, the beat and the workers reach.
THEOREM Invariance == Spec => []IInv
BY InitIInv, Step, PTL DEF Spec

\* The rows stay what their tables can hold, and a job that was not claimed, or is for
\* something else, has made nothing.
THEOREM TypeCorrect == Spec => []TypeOK
<1>1. IInv => TypeOK
  BY DEF IInv
<1> QED
  BY <1>1, Invariance, PTL

\* run_automation_job makes one link and one message for a job at most, with any number of
\* workers, deaths and redeliveries: the claim is enough.
THEOREM JobsRunOnce == Spec => []JobRunsOnce
<1>1. IInv => JobRunsOnce
  BY DEF IInv
<1> QED
  BY <1>1, Invariance, PTL

(***************************************************************************)
(* While a link is open                                                    *)
(***************************************************************************)

\* No task is between looking for an open link and making one.
Looked == \A w \in Workers :
  worker[w] # Idle => worker[w].task = "job" /\ worker[w].step # "invoice"

\* The first link was closed, or it is open and no task is about to make the second.
Guarded(l1, l2) ==
  \/ link[l1].status = "closed"
  \/ Open(l1) /\ link[l2].by \in {"", "manager"} /\ Looked

LEMMA LinkType ==
  ASSUME Shape, NEW l \in Links
  PROVE  link[l] \in [status: {"none", "pending", "closed"}, by: Makers]
BY DEF Shape

\* A new row is made by its maker; every other row stays.
LEMMA NewRow ==
  ASSUME Shape, NEW by, NewLink(by), NEW l \in Links
  PROVE  \/ link'[l] = link[l]
         \/ link[l] = NoLink /\ link'[l] = [status |-> "pending", by |-> by]
<1>1. PICK k \in Links : /\ link[k] = NoLink
                         /\ link' = [link EXCEPT ![k] = [status |-> "pending", by |-> by]]
  BY DEF NewLink
<1> QED
  BY <1>1 DEF Shape

\* While the workers have looked, and an open link is there, no task makes a link.
LEMMA LookedStep ==
  ASSUME IInv, Looked, ~NoneOpen, NEW w \in Workers, Start(w) \/ Work(w)
  PROVE  Looked' /\ UNCHANGED link
<1>1. Shape /\ TasksOK
  BY Parts DEF IInv
<1>2. DOMAIN worker = Workers
  BY <1>1 DEF TasksOK
<1>3. ASSUME NEW r, r = Idle \/ (r.task = "job" /\ r.step # "invoice"),
             worker' = [worker EXCEPT ![w] = r]
      PROVE  Looked'
  <2>1. \A v \in Workers : worker'[v] = IF v = w THEN r ELSE worker[v]
    BY <1>2, <1>3
  <2> QED
    BY <1>3, <2>1 DEF Looked
<1>4. CASE Start(w)
  <2>1. UNCHANGED link
    BY <1>4 DEF Start
  <2>2. PICK m \in queue : StartJob(w, m) \/ StartLink(w, m)
    BY <1>4 DEF Start
  <2>3. CASE UNCHANGED worker
    BY <2>1, <2>3 DEF Looked
  <2>4. CASE Take(w, m) /\ m.task = "job"
    <3> DEFINE r == [task |-> m.task, what |-> m.what, tries |-> m.tries, step |-> "call", id |-> 0]
    <3>1. r.task = "job" /\ r.step # "invoice" /\ worker' = [worker EXCEPT ![w] = r]
      BY <2>4 DEF Take
    <3> HIDE DEF r
    <3> QED
      BY <1>3, <2>1, <3>1
  <2> QED
    BY <2>2, <2>3, <2>4 DEF StartJob, StartLink, Skip
<1>5. CASE RunAutomation(w)
  <2>1. worker[w] # Idle /\ worker[w].task = "job" /\ worker[w].step # "invoice"
    BY <1>5 DEF Looked, RunAutomation, ReadLead, InvoiceLead, SendTemplate, JobDone, Busy
  <2>2. worker[w] \in JobWork
    BY <1>1, <2>1, Working
  <2>3. UNCHANGED link
    BY <1>5, <2>1 DEF RunAutomation, ReadLead, InvoiceLead, SendTemplate, JobDone, Busy
  <2>4. \/ worker' = [worker EXCEPT ![w] = Idle]
        \/ \E step \in {"sms", "done"} : Run(w, step)
    BY <1>5, <2>1
    DEF RunAutomation, ReadLead, InvoiceLead, SendTemplate, JobDone, Busy, Finish, Ack
  <2>5. CASE worker' = [worker EXCEPT ![w] = Idle]
    BY <1>3, <2>3, <2>5
  <2>6. ASSUME NEW step \in {"sms", "done"}, Run(w, step)
        PROVE  Looked'
    <3> DEFINE r == [worker[w] EXCEPT !.step = step]
    <3>1. r.task = "job" /\ r.step # "invoice"
      BY <2>2 DEF JobWork
    <3>2. worker' = [worker EXCEPT ![w] = r]
      BY <2>6 DEF Run
    <3> HIDE DEF r
    <3> QED
      BY <1>3, <3>1, <3>2
  <2> QED
    BY <2>3, <2>4, <2>5, <2>6
<1>6. CASE CreateLinkForLead(w)
  <2>1. worker[w] # Idle /\ worker[w].task = "link"
    BY <1>6 DEF CreateLinkForLead, Busy
  <2> QED
    BY <2>1 DEF Looked
<1> QED
  BY <1>4, <1>5, <1>6 DEF Work

LEMMA GuardedStep ==
  ASSUME NEW l1 \in Links, NEW l2 \in Links
  PROVE  IInv /\ Guarded(l1, l2) /\ [Next]_vars => Guarded(l1, l2)'
<1> SUFFICES ASSUME IInv, Guarded(l1, l2), [Next]_vars PROVE Guarded(l1, l2)'
  OBVIOUS
<1>1. Shape /\ TasksOK
  BY Parts DEF IInv
<1>2. CASE UNCHANGED link /\ (Looked => Looked')
  BY <1>2 DEF Guarded, Open
\* Who makes a row makes it of none.
<1>3. ASSUME NEW by, NewLink(by), by = "manager" \/ link[l1].status = "closed", Looked => Looked'
      PROVE  Guarded(l1, l2)'
  <2>0. ASSUME NEW l \in Links
        PROVE  \/ link'[l] = link[l]
               \/ link[l] = NoLink /\ link'[l] = [status |-> "pending", by |-> by]
    BY <1>1, <1>3, NewRow
  <2>1. link'[l1] = link[l1]
    <3>1. NoLink.status = "none" /\ link[l1].status \in {"pending", "closed"}
      BY DEF Guarded, Open, NoLink
    <3> QED
      BY <2>0, <3>1
  <2>2. link'[l2].by \in {link[l2].by, by}
    BY <2>0
  <2> QED
    BY <1>3, <2>1, <2>2 DEF Guarded, Open
<1>4. CASE WidgetCreate
  BY <1>3, <1>4 DEF WidgetCreate, celery, Looked
<1>5. ASSUME NEW l \in Links, CloseLink(l) PROVE Guarded(l1, l2)'
  <2>1. link' = [link EXCEPT ![l] = [link[l] EXCEPT !.status = "closed"]] /\ Open(l)
    BY <1>5 DEF CloseLink
  <2>2. /\ [link[l] EXCEPT !.status = "closed"].status = "closed"
        /\ [link[l] EXCEPT !.status = "closed"].by = link[l].by
    BY <1>1, LinkType
  <2>3. \A k \in Links : IF k = l THEN link'[k].status = "closed" /\ link'[k].by = link[k].by
                         ELSE link'[k] = link[k]
    BY <1>1, <2>1, <2>2 DEF Shape
  <2>4. Looked => Looked'
    BY <1>5 DEF CloseLink, celery, Looked
  <2> QED
    BY <2>3, <2>4 DEF Guarded, Open
<1>6. ASSUME NEW w \in Workers, Start(w) \/ Work(w) PROVE Guarded(l1, l2)'
  <2>1. CASE Open(l1) /\ Looked
    <3>1. Looked' /\ UNCHANGED link
      BY <1>6, <2>1, LookedStep DEF NoneOpen
    <3> QED
      BY <2>1, <3>1 DEF Guarded, Open
  <2>2. CASE link[l1].status = "closed"
    <3>1. UNCHANGED link \/ \E by : NewLink(by)
      BY <1>6 DEF Start, Work, RunAutomation, ReadLead, InvoiceLead, SendTemplate, JobDone,
                  CreateLinkForLead
    <3>2. link'[l1] = link[l1]
      <4>1. NoLink.status # "closed"
        BY DEF NoLink
      <4>2. ASSUME NEW by, NewLink(by) PROVE link'[l1] = link[l1]
        BY <1>1, <2>2, <4>1, <4>2, NewRow
      <4> QED
        BY <3>1, <4>2
    <3> QED
      BY <2>2, <3>2 DEF Guarded
  <2> QED
    BY <2>1, <2>2 DEF Guarded
<1>7. CASE Die /\ UNCHANGED <<stage, rows>>
  <2>1. \A v \in Workers : worker'[v] \in {worker[v], Idle}
    BY <1>1, <1>7 DEF Die, TasksOK
  <2> QED
    BY <1>2, <1>7, <2>1 DEF Looked, rows
<1>8. CASE \/ \E s \in Stages : MoveLead(s)
           \/ LeadHook
           \/ \E j \in Jobs, a \in Actions, delayed \in BOOLEAN : DpHook(j, a, delayed)
           \/ \E j \in Jobs : DelayEnds(j)
           \/ RunDueAutomations
           \/ UNCHANGED vars
  <2>1. UNCHANGED <<link, worker>>
    BY <1>8 DEF MoveLead, LeadHook, DpHook, DelayEnds, RunDueAutomations, rows, celery, vars
  <2> QED
    BY <1>2, <2>1 DEF Looked
<1> QED
  BY <1>4, <1>5, <1>6, <1>7, <1>8 DEF Next

\* While a link is open, no task makes another one, unless a task had begun before: a
\* retried or redelivered hook, a job and the beat all look for the open one first.
THEOREM OpenLinkStands == Spec => LinkStands
<1>1. ASSUME NEW l1 \in Links, NEW l2 \in Links
      PROVE  Spec => [](Open(l1) /\ link[l2] = NoLink /\ ~(\E w \in Workers : MakesLinks(w))
                        => [](Open(l1) => link[l2].by \in {"", "manager"}))
  <2>1. IInv /\ Open(l1) /\ link[l2] = NoLink /\ ~(\E w \in Workers : MakesLinks(w)) => Guarded(l1, l2)
    <3>1. IInv => \A w \in Workers : worker[w] # Idle => MakesLinks(w)
      BY DEF IInv, TasksOK, MakesLinks, JobWork, LinkWork
    <3>2. NoLink.by = ""
      BY DEF NoLink
    <3> QED
      BY <3>1, <3>2 DEF Guarded, Looked
  <2>2. Guarded(l1, l2) => (Open(l1) => link[l2].by \in {"", "manager"})
    BY DEF Guarded, Open
  <2> QED
    BY <2>1, <2>2, GuardedStep, Invariance, PTL DEF Spec
<1> QED
  BY <1>1 DEF LinkStands

(***************************************************************************)
(* Messages: the inductive invariant                                       *)
(***************************************************************************)
Deliveries == [task: {"deliver"}, what: Messages, tries: Nat]
Delivering == [task: {"deliver"}, what: Messages, tries: Nat,
               step: {"call", "sent", "refused", "network"}, id: Nat]
Taken      == [id: Nat, msg: Messages, report: Final \cup {""}]

SettingsOK ==
  /\ usable \subseteq Accounts /\ approved \subseteq Accounts
  /\ default \in Accounts \cup {NoAccount}

RowOK(m) ==
  /\ msg[m].status = "none" <=> msg[m].account = NoAccount
  /\ msg[m].status = "queued" => msg[m].id = 0

RowsOK == msg \in [Messages -> Row] /\ \A m \in Messages : RowOK(m)

OdooOK ==
  /\ tracker \in [Messages -> {"none", "process", "sent", "bounce", "error"}]
  /\ events \subseteq [msg: Messages, status: Final]

DeliveriesOK ==
  /\ queue \in SUBSET Deliveries
  /\ worker \in [Workers -> {Idle} \cup Delivering]
  /\ deaths \in 0 .. MaxDeaths

\* The gateway numbers what it takes.
TakenOK ==
  /\ taken \subseteq Taken /\ IsFiniteSet(taken)
  /\ \A t \in taken : t.id \in 1 .. Cardinality(taken)
  /\ \A t, u \in taken : t.id = u.id => t = u

\* A row with an id has the id of an sms that was taken for it, and a row without one
\* says no more than that it is queued or failed.
RowTrue(m) ==
  \/ msg[m].status \in {"none", "queued"}
  \/ msg[m].status = "failed" /\ msg[m].id = 0
  \/ \E t \in taken : /\ t.id = msg[m].id /\ t.msg = m
                      /\ msg[m].status = "delivered" => t.report = "delivered"

\* A worker that was answered has the id of its own message.
HandTrue(w) ==
  worker[w] # Idle /\ worker[w].step = "sent" =>
    \E t \in taken : t.id = worker[w].id /\ t.msg = worker[w].what

\* Odoo is told of a delivery that the gateway reported.
Reported(m) == \E t \in taken : t.msg = m /\ t.report = "delivered"
OdooTrue ==
  /\ \A e \in events : e.status = "delivered" => Reported(e.msg)
  /\ \A m \in Messages : tracker[m] = "sent" => Reported(m)

\* Only a message that was queued has a task.
Holds(m) ==
  \/ \E t \in queue : t.what = m
  \/ \E w \in Workers : worker[w] # Idle /\ worker[w].what = m

Begun == \A m \in Messages : Holds(m) => msg[m].status # "none"

Types == SettingsOK /\ RowsOK /\ OdooOK /\ DeliveriesOK /\ TakenOK
Truth == (\A m \in Messages : RowTrue(m)) /\ (\A w \in Workers : HandTrue(w)) /\ OdooTrue /\ Begun

LEMMA SmsTypes == Types => SmsTypeOK
BY DEF Types, SettingsOK, RowsOK, RowOK, OdooOK, TakenOK, Taken, SmsTypeOK

LEMMA TruthEnough == Types /\ Truth => SentWasTaken
BY DEF Types, Truth, RowsOK, RowTrue, OdooTrue, Reported, SentWasTaken

LEMMA SmsInitInvariant == SmsInit => Types /\ Truth
<1> SUFFICES ASSUME SmsInit PROVE Types /\ Truth
  OBVIOUS
<1>1. deaths = 0 /\ queue = {} /\ worker = [w \in Workers |-> Idle]
  BY DEF SmsInit, CeleryInit
<1>2. DeliveriesOK
  BY <1>1, BoundAssumption DEF DeliveriesOK
<1>3. RowsOK
  <2>1. NoRow \in Row
    BY DEF NoRow, Row, Statuses
  <2> QED
    BY <2>1 DEF SmsInit, RowsOK, RowOK, NoRow
<1>4. TakenOK
  BY FS_EmptySet DEF SmsInit, TakenOK
<1> QED
  BY <1>1, <1>2, <1>3, <1>4
  DEF SmsInit, Types, SettingsOK, OdooOK, Truth, RowTrue, NoRow, HandTrue, OdooTrue, Begun, Holds

(***************************************************************************)
(* Messages: what every step keeps                                         *)
(***************************************************************************)

\* An sms the gateway took stays taken, and a delivery stays reported.
TakenStays ==
  \A t \in taken : \E u \in taken' :
    u.id = t.id /\ u.msg = t.msg /\ (t.report = "delivered" => u.report = "delivered")

LEMMA RowStays ==
  ASSUME TakenStays, NEW m \in Messages, RowTrue(m), msg'[m] = msg[m]
  PROVE  RowTrue(m)'
BY DEF TakenStays, RowTrue

LEMMA HandStays ==
  ASSUME TakenStays, NEW w \in Workers, HandTrue(w), worker'[w] = worker[w]
  PROVE  HandTrue(w)'
BY DEF TakenStays, HandTrue

LEMMA ReportedStays ==
  ASSUME TakenStays, NEW m, Reported(m)
  PROVE  Reported(m)'
BY DEF TakenStays, Reported

LEMMA OdooStays ==
  ASSUME TakenStays, OdooTrue, events' = events, tracker' = tracker
  PROVE  OdooTrue'
BY ReportedStays DEF OdooTrue

LEMMA TakenSame ==
  ASSUME TakenOK, UNCHANGED taken
  PROVE  TakenOK' /\ TakenStays
BY DEF TakenOK, TakenStays

\* What the gateway takes next has an id of its own.
LEMMA TookLemma ==
  ASSUME TakenOK, NEW m \in Messages, taken' = Took(m)
  PROVE  /\ TakenOK' /\ TakenStays /\ Cardinality(taken) + 1 \in Nat
         /\ \E t \in taken' : t.id = Cardinality(taken) + 1 /\ t.msg = m
<1> DEFINE n == Cardinality(taken)
           t == [id |-> n + 1, msg |-> m, report |-> ""]
<1>1. n \in Nat /\ IsFiniteSet(taken)
  BY FS_CardinalityType DEF TakenOK
<1>2. \A u \in taken : u.id \in 1 .. n
  BY DEF TakenOK
<1>3. t.id = n + 1 /\ t.msg = m /\ taken' = taken \cup {t}
  BY DEF Took
<1>4. t \in Taken
  BY <1>1 DEF Taken
<1> HIDE DEF t
<1>5. t \notin taken
  <2> HIDE DEF n
  <2> QED
    BY <1>1, <1>2, <1>3
<1>6. IsFiniteSet(taken') /\ Cardinality(taken') = n + 1
  BY <1>1, <1>3, <1>5, FS_AddElement
<1> HIDE DEF n
<1>7. \A u \in taken' : u.id \in 1 .. Cardinality(taken')
  BY <1>1, <1>2, <1>3, <1>6
<1>8. \A u, v \in taken' : u.id = v.id => u = v
  <2>1. \A u \in taken : u.id # n + 1
    BY <1>1, <1>2
  <2> QED
    BY <1>3, <2>1 DEF TakenOK
<1>9. TakenOK'
  BY <1>3, <1>4, <1>6, <1>7, <1>8 DEF TakenOK
<1> QED
  BY <1>1, <1>3, <1>9 DEF TakenStays, n

\* A report changes the report of one sms.
LEMMA ReportLemma ==
  ASSUME TakenOK, NEW t \in taken, NEW status \in Final, t.report \in {"", status},
         taken' = (taken \ {t}) \cup {[t EXCEPT !.report = status]}
  PROVE  /\ TakenOK' /\ TakenStays
         /\ \E u \in taken' : u.id = t.id /\ u.msg = t.msg /\ u.report = status
<1> DEFINE u == [t EXCEPT !.report = status]
<1>1. t \in Taken /\ IsFiniteSet(taken)
  BY DEF TakenOK
<1>2. u \in Taken /\ u.id = t.id /\ u.msg = t.msg /\ u.report = status
  BY <1>1 DEF Taken
<1>3. taken' = (taken \ {t}) \cup {u}
  OBVIOUS
<1> HIDE DEF u
<1>4. u \notin taken \ {t}
  BY <1>2 DEF TakenOK
<1>5. IsFiniteSet(taken') /\ Cardinality(taken') = Cardinality(taken)
  <2> DEFINE rest == taken \ {t}
  <2>1. taken' = rest \cup {u} /\ u \notin rest /\ taken = rest \cup {t} /\ t \notin rest
    BY <1>3, <1>4
  <2>2. IsFiniteSet(rest)
    BY <1>1, FS_Subset
  <2> HIDE DEF rest
  <2>3. IsFiniteSet(rest \cup {u}) /\ Cardinality(rest \cup {u}) = Cardinality(rest) + 1
    BY <2>1, <2>2, FS_AddElement
  <2>4. Cardinality(rest \cup {t}) = Cardinality(rest) + 1
    BY <2>1, <2>2, FS_AddElement
  <2> QED
    BY <2>1, <2>3, <2>4
<1>6. \A v \in taken' : v.id \in 1 .. Cardinality(taken')
  BY <1>2, <1>3, <1>5 DEF TakenOK
<1>7. \A v, x \in taken' : v.id = x.id => v = x
  BY <1>2, <1>3 DEF TakenOK
<1>8. TakenOK'
  BY <1>2, <1>3, <1>5, <1>6, <1>7 DEF TakenOK
<1>9. TakenStays
  BY <1>2, <1>3 DEF TakenStays, Final
<1> QED
  BY <1>2, <1>3, <1>8, <1>9

\* What is left to show of a step.
LEMMA SmsStays ==
  ASSUME Truth, SettingsOK', RowsOK', OdooOK', DeliveriesOK', TakenOK', TakenStays,
         \A m \in Messages : msg'[m] = msg[m] \/ RowTrue(m)',
         \A w \in Workers : worker'[w] = worker[w] \/ HandTrue(w)',
         OdooTrue',
         \A m \in Messages : msg[m].status # "none" => msg'[m].status # "none",
         \A m \in Messages : Holds(m)' => Holds(m) \/ msg'[m].status # "none"
  PROVE  Types' /\ Truth'
<1>1. \A m \in Messages : RowTrue(m)'
  BY RowStays DEF Truth
<1>2. \A w \in Workers : HandTrue(w)'
  BY HandStays DEF Truth
<1>3. Begun'
  BY DEF Truth, Begun
<1> QED
  BY <1>1, <1>2, <1>3 DEF Types, Truth

\* What a worker becomes.
LEMMA DeliveryBecomes ==
  ASSUME DeliveriesOK, NEW w \in Workers, NEW r \in {Idle} \cup Delivering,
         worker' = [worker EXCEPT ![w] = r],
         queue' \in SUBSET Deliveries, deaths' \in 0 .. MaxDeaths
  PROVE  DeliveriesOK' /\ \A v \in Workers : worker'[v] = IF v = w THEN r ELSE worker[v]
BY DEF DeliveriesOK

LEMMA DeliveryEnds ==
  ASSUME DeliveriesOK, NEW w \in Workers, NEW more \in SUBSET Deliveries, Ack(w, more),
         UNCHANGED deaths
  PROVE  /\ DeliveriesOK'
         /\ \A v \in Workers : worker'[v] = worker[v] \/ HandTrue(v)'
         /\ (\A t \in more : t.what = worker[w].what) /\ worker[w] # Idle =>
              \A m : Holds(m)' => Holds(m)
<1>1. worker' = [worker EXCEPT ![w] = Idle] /\ queue' \in SUBSET Deliveries /\ deaths' \in 0 .. MaxDeaths
  BY DEF Ack, DeliveriesOK
<1>2. DeliveriesOK' /\ \A v \in Workers : worker'[v] = IF v = w THEN Idle ELSE worker[v]
  BY <1>1, DeliveryBecomes
<1>3. queue' \subseteq queue \cup more
  BY DEF Ack
<1> QED
  BY <1>2, <1>3 DEF HandTrue, Holds

LEMMA HandType ==
  ASSUME DeliveriesOK, NEW w \in Workers, worker[w] # Idle
  PROVE  worker[w] \in Delivering /\ worker[w].what \in Messages /\ worker[w].id \in Nat
<1>1. worker[w] \in Delivering
  BY DEF DeliveriesOK
<1> QED
  BY <1>1 DEF Delivering

\* The task goes on, without an answer of the gateway.
LEMMA DeliveryRuns ==
  ASSUME DeliveriesOK, NEW w \in Workers, worker[w] # Idle, NEW step \in {"refused", "network"},
         Run(w, step), UNCHANGED <<queue, deaths>>
  PROVE  /\ DeliveriesOK'
         /\ \A v \in Workers : worker'[v] = worker[v] \/ HandTrue(v)'
         /\ \A m : Holds(m)' => Holds(m)
<1> DEFINE r == [worker[w] EXCEPT !.step = step]
<1>1. r \in Delivering /\ r.step = step /\ r.what = worker[w].what
  BY HandType DEF Delivering
<1>2. worker' = [worker EXCEPT ![w] = r]
  BY DEF Run
<1> HIDE DEF r
<1>3. DeliveriesOK' /\ \A v \in Workers : worker'[v] = IF v = w THEN r ELSE worker[v]
  BY <1>1, <1>2, DeliveryBecomes DEF DeliveriesOK
<1> QED
  BY <1>1, <1>3 DEF HandTrue, Holds

LEMMA DeliveryRetried ==
  ASSUME DeliveriesOK, NEW w \in Workers, worker[w] # Idle, Retry(w), UNCHANGED deaths
  PROVE  /\ DeliveriesOK'
         /\ \A v \in Workers : worker'[v] = worker[v] \/ HandTrue(v)'
         /\ \A m : Holds(m)' => Holds(m)
<1>1. Held(w) \in Deliveries
  BY HandType DEF Held, Deliveries, Delivering
<1>2. /\ [Held(w) EXCEPT !.tries = @ + 1] \in Deliveries
      /\ [Held(w) EXCEPT !.tries = @ + 1].what = worker[w].what
  BY <1>1 DEF Deliveries, Held
<1> DEFINE more == IF worker[w].tries < MaxRetries THEN {[Held(w) EXCEPT !.tries = @ + 1]} ELSE {}
<1>3. Ack(w, more)
  BY DEF Retry
<1>4. more \in SUBSET Deliveries /\ \A t \in more : t.what = worker[w].what
  BY <1>2
<1> HIDE DEF more
<1> QED
  BY <1>3, <1>4, DeliveryEnds

(***************************************************************************)
(* Messages: every step                                                    *)
(***************************************************************************)
LEMMA SiteStep ==
  ASSUME Types, Truth, Site
  PROVE  Types' /\ Truth'
<1>1. UNCHANGED <<msg, taken, tracker, events, queue, worker, deaths>>
  BY DEF Site, odoo, celery
<1>2. SettingsOK'
  BY DEF Types, SettingsOK, Site, SaveAccount, DeleteAccount, SaveSettings, SyncTemplates
<1>3. RowsOK' /\ OdooOK' /\ DeliveriesOK'
  BY <1>1 DEF Types, RowsOK, RowOK, OdooOK, DeliveriesOK
<1>4. TakenOK' /\ TakenStays
  BY <1>1, TakenSame DEF Types
<1>5. OdooTrue'
  BY <1>1, <1>4, OdooStays DEF Truth
<1>6. \A m : Holds(m)' <=> Holds(m)
  BY <1>1 DEF Holds
<1> QED
  BY <1>1, <1>2, <1>3, <1>4, <1>5, <1>6, SmsStays

LEMMA QueueStep ==
  ASSUME Types, Truth, NEW m \in Messages, NEW preferred, Queue(m, preferred),
         UNCHANGED events, tracker' = tracker \/
           \E state \in {"process", "error"} : tracker' = [tracker EXCEPT ![m] = state]
  PROVE  Types' /\ Truth'
<1>1. UNCHANGED <<usable, default, approved, taken, worker, deaths, events>>
  BY DEF Queue, settings
<1>2. PICK a \in Accounts : msg' = [msg EXCEPT ![m] = [status |-> "queued", account |-> a, id |-> 0]]
  BY DEF Queue, ActiveAccount, Types, SettingsOK
<1>3. RowsOK'
  <2>1. [status |-> "queued", account |-> a, id |-> 0] \in Row /\ a # NoAccount
    BY NoneAssumption DEF Row, Statuses
  <2> QED
    BY <1>2, <2>1 DEF Types, RowsOK, RowOK
<1>4. \A k \in Messages : msg'[k] = msg[k] \/ RowTrue(k)'
  BY <1>2 DEF Types, RowsOK, RowTrue
<1>5. DeliveriesOK'
  <2>1. Message("deliver", m) \in Deliveries
    BY DEF Message, Deliveries
  <2>2. queue' \in SUBSET Deliveries
    BY <2>1 DEF Queue, Types, DeliveriesOK
  <2> QED
    BY <1>1, <2>2 DEF Types, DeliveriesOK
<1>6. TakenOK' /\ TakenStays
  BY <1>1, TakenSame DEF Types
<1>7. OdooOK' /\ \A k \in Messages : tracker'[k] = "sent" => tracker[k] = "sent"
  BY <1>1 DEF Types, OdooOK
<1>8. OdooTrue'
  BY <1>1, <1>6, <1>7, ReportedStays DEF Truth, OdooTrue
<1>9. SettingsOK'
  BY <1>1 DEF Types, SettingsOK
<1>10. \A k \in Messages : msg[k].status # "none" => msg'[k].status # "none"
  BY <1>2 DEF Types, RowsOK
<1>11. \A k \in Messages : Holds(k)' => Holds(k) \/ msg'[k].status # "none"
  <2>1. Message("deliver", m).what = m
    BY DEF Message
  <2>2. msg'[m].status = "queued"
    BY <1>2 DEF Types, RowsOK
  <2>3. queue' \subseteq queue \cup {Message("deliver", m)}
    BY DEF Queue
  <2> QED
    BY <1>1, <2>1, <2>2, <2>3 DEF Holds
<1> QED
  BY <1>1, <1>3, <1>4, <1>5, <1>6, <1>7, <1>8, <1>9, <1>10, <1>11, SmsStays

\* From the site, from a card, and by itself.
LEMMA SendStep ==
  ASSUME Types, Truth, NEW m \in Messages,
         SendTest(m) \/ SendFromCard(m) \/ SendSmsTemplate(m) \/ SendAuto(m)
  PROVE  Types' /\ Truth'
<1>1. PICK preferred : Queue(m, preferred) /\ UNCHANGED odoo
  BY DEF SendTest, SendFromCard, SendSmsTemplate, SendAuto
<1> QED
  BY <1>1, QueueStep DEF odoo

\* From Odoo.
LEMMA SendSmsStep ==
  ASSUME Types, Truth, NEW m \in Messages, SendSms(m)
  PROVE  Types' /\ Truth'
<1>1. /\ \E state \in {"process", "error"} : tracker' = [tracker EXCEPT ![m] = state]
      /\ UNCHANGED events
  BY DEF SendSms, SendBatch
<1>2. (\E preferred : Queue(m, preferred)) \/ UNCHANGED <<settings, msg, taken, celery>>
  BY DEF SendSms
<1>3. CASE \E preferred : Queue(m, preferred)
  BY <1>1, <1>3, QueueStep
<1>4. CASE UNCHANGED <<settings, msg, taken, celery>>
  <2>1. SettingsOK' /\ RowsOK' /\ DeliveriesOK'
    BY <1>4 DEF Types, SettingsOK, RowsOK, RowOK, DeliveriesOK, settings, celery
  <2>2. TakenOK' /\ TakenStays
    BY <1>4, TakenSame DEF Types
  <2>3. OdooOK' /\ \A k \in Messages : tracker'[k] = "sent" => tracker[k] = "sent"
    BY <1>1 DEF Types, OdooOK
  <2>4. OdooTrue'
    BY <1>1, <2>2, <2>3, ReportedStays DEF Truth, OdooTrue
  <2>5. \A k : Holds(k)' <=> Holds(k)
    BY <1>4 DEF Holds, celery
  <2> QED
    BY <1>4, <2>1, <2>2, <2>3, <2>4, <2>5, SmsStays DEF celery
<1> QED
  BY <1>2, <1>3, <1>4

LEMMA StartDeliveryStep ==
  ASSUME Types, Truth, NEW w \in Workers, StartDelivery(w)
  PROVE  Types' /\ Truth'
<1>1. UNCHANGED <<usable, default, approved, msg, taken, tracker, events, deaths>>
  BY DEF StartDelivery, settings, odoo
<1>2. PICK m \in queue : Take(w, m) \/ Skip(m)
  BY DEF StartDelivery
<1>3. /\ DeliveriesOK' /\ \A v \in Workers : worker'[v] = worker[v] \/ HandTrue(v)'
      /\ \A k : Holds(k)' => Holds(k)
  <2>1. CASE Take(w, m)
    <3> DEFINE r == [task |-> m.task, what |-> m.what, tries |-> m.tries, step |-> "call", id |-> 0]
    <3>1. r \in Delivering /\ r.step = "call" /\ r.what = m.what
      BY DEF Types, DeliveriesOK, Deliveries, Delivering
    <3>2. worker' = [worker EXCEPT ![w] = r] /\ queue' = queue
      BY <2>1 DEF Take
    <3> HIDE DEF r
    <3>3. DeliveriesOK' /\ \A v \in Workers : worker'[v] = IF v = w THEN r ELSE worker[v]
      BY <1>1, <3>1, <3>2, DeliveryBecomes DEF Types, DeliveriesOK
    <3> QED
      BY <3>1, <3>2, <3>3 DEF HandTrue, Holds
  <2>2. CASE Skip(m)
    BY <1>1, <2>2 DEF Skip, Types, DeliveriesOK, Holds
  <2> QED
    BY <1>2, <2>1, <2>2
<1>4. TakenOK' /\ TakenStays
  BY <1>1, TakenSame DEF Types
<1>5. SettingsOK' /\ RowsOK' /\ OdooOK'
  BY <1>1 DEF Types, SettingsOK, RowsOK, RowOK, OdooOK
<1>6. OdooTrue'
  BY <1>1, <1>4, OdooStays DEF Truth
<1> QED
  BY <1>1, <1>3, <1>4, <1>5, <1>6, SmsStays

LEMMA CallGatewayStep ==
  ASSUME Types, Truth, NEW w \in Workers, CallGateway(w)
  PROVE  Types' /\ Truth'
<1>1. /\ UNCHANGED <<usable, default, approved, msg, tracker, events, deaths>>
      /\ worker[w] # Idle
  BY DEF CallGateway, settings, odoo, Busy
<1>2. /\ TakenOK /\ DeliveriesOK
      /\ worker[w] \in Delivering /\ worker[w].what \in Messages
  BY <1>1, HandType DEF Types
<1>3. SettingsOK' /\ RowsOK' /\ OdooOK'
  BY <1>1 DEF Types, SettingsOK, RowsOK, RowOK, OdooOK
<1>4. ASSUME DeliveriesOK', TakenOK', TakenStays,
             \A v \in Workers : worker'[v] = worker[v] \/ HandTrue(v)',
             \A m : Holds(m)' => Holds(m)
      PROVE  Types' /\ Truth'
  <2>1. OdooTrue'
    BY <1>1, <1>4, OdooStays DEF Truth
  <2> QED
    BY <1>1, <1>3, <1>4, <2>1, SmsStays
<1>5. CASE /\ taken' = Took(worker[w].what)
           /\ worker' = [worker EXCEPT ![w].step = "sent", ![w].id = Cardinality(taken) + 1]
           /\ UNCHANGED queue
  <2> DEFINE n == Cardinality(taken) + 1
             p == [worker[w] EXCEPT !.step = "sent"]
             r == [p EXCEPT !.id = n]
  <2>1. /\ TakenOK' /\ TakenStays /\ n \in Nat
        /\ \E t \in taken' : t.id = n /\ t.msg = worker[w].what
    BY <1>2, <1>5, TookLemma
  <2>2. worker' = [worker EXCEPT ![w] = r]
    BY <1>2, <1>5 DEF DeliveriesOK
  <2> HIDE DEF n
  <2>3. p \in Delivering /\ p.what = worker[w].what
    BY <1>2 DEF Delivering
  <2> HIDE DEF p
  <2>4. r \in Delivering /\ r.what = worker[w].what /\ r.id = n
    BY <2>1, <2>3 DEF Delivering
  <2> HIDE DEF r
  <2>5. DeliveriesOK' /\ \A v \in Workers : worker'[v] = IF v = w THEN r ELSE worker[v]
    BY <1>1, <1>2, <1>5, <2>2, <2>4, DeliveryBecomes DEF DeliveriesOK
  <2>6. HandTrue(w)'
    BY <2>1, <2>4, <2>5 DEF HandTrue
  <2>7. \A m : Holds(m)' => Holds(m)
    BY <1>1, <1>5, <2>4, <2>5 DEF Holds
  <2> QED
    BY <1>4, <2>1, <2>5, <2>6, <2>7
<1>6. CASE Run(w, "refused") /\ UNCHANGED <<taken, queue>>
  <2>1. /\ DeliveriesOK' /\ \A v \in Workers : worker'[v] = worker[v] \/ HandTrue(v)'
        /\ \A m : Holds(m)' => Holds(m)
    BY <1>1, <1>2, <1>6, DeliveryRuns
  <2> QED
    BY <1>2, <1>4, <1>6, <2>1, TakenSame
<1>7. CASE /\ taken' \in {taken, Took(worker[w].what)}
           /\ Retry(w) \/ (Run(w, "network") /\ UNCHANGED queue)
  <2>1. /\ DeliveriesOK' /\ \A v \in Workers : worker'[v] = worker[v] \/ HandTrue(v)'
        /\ \A m : Holds(m)' => Holds(m)
    BY <1>1, <1>2, <1>7, DeliveryRuns, DeliveryRetried
  <2>2. TakenOK' /\ TakenStays
    BY <1>2, <1>7, TookLemma, TakenSame
  <2> QED
    BY <1>4, <2>1, <2>2
<1>8. \/ /\ taken' = Took(worker[w].what)
         /\ worker' = [worker EXCEPT ![w].step = "sent", ![w].id = Cardinality(taken) + 1]
         /\ UNCHANGED queue
      \/ Run(w, "refused") /\ UNCHANGED <<taken, queue>>
      \/ /\ taken' \in {taken, Took(worker[w].what)}
         /\ Retry(w) \/ (Run(w, "network") /\ UNCHANGED queue)
  BY DEF CallGateway
<1> QED
  BY <1>5, <1>6, <1>7, <1>8

\* The row of a message becomes r, which the worker that holds it knows.
LEMMA RowBecomes ==
  ASSUME Types, Truth, NEW m \in Messages, NEW r \in Row, msg' = [msg EXCEPT ![m] = r],
         r.status \in {"sent", "failed"}, r.account = msg[m].account, msg[m].status # "none",
         \/ r.status = "failed" /\ r.id = 0
         \/ \E t \in taken : t.id = r.id /\ t.msg = m,
         UNCHANGED taken
  PROVE  RowsOK' /\ \A k \in Messages : msg'[k] = msg[k] \/ RowTrue(k)'
<1>1. msg'[m] = r /\ \A k \in Messages : k # m => msg'[k] = msg[k]
  BY DEF Types, RowsOK
<1>2. RowTrue(m)'
  BY <1>1 DEF RowTrue
<1>3. r.account # NoAccount
  BY DEF Types, RowsOK, RowOK
<1> QED
  BY <1>1, <1>2, <1>3 DEF Types, RowsOK, RowOK

LEMMA SaveStep ==
  ASSUME Types, Truth, NEW w \in Workers, SaveSent(w) \/ SaveFailed(w)
  PROVE  Types' /\ Truth'
<1>1. /\ UNCHANGED <<usable, default, approved, taken, tracker, deaths>> /\ Ack(w, {})
      /\ worker[w] # Idle
  BY DEF SaveSent, SaveFailed, settings, odoo, Busy
<1>2. PICK m \in Messages : m = worker[w].what
  BY <1>1, HandType DEF Types
<1>3. /\ DeliveriesOK' /\ \A v \in Workers : worker'[v] = worker[v] \/ HandTrue(v)'
      /\ \A k : Holds(k)' => Holds(k)
  BY <1>1, DeliveryEnds DEF Types
<1>4. TakenOK' /\ TakenStays /\ SettingsOK'
  BY <1>1, TakenSame DEF Types, SettingsOK
<1>5. msg[m] \in Row /\ RowTrue(m) /\ worker[w].id \in Nat /\ HandTrue(w)
  BY <1>1, HandType DEF Types, Truth, RowsOK
<1>6. msg[m].status # "none"
  BY <1>1, <1>2 DEF Truth, Begun, Holds
<1>7. /\ RowsOK' /\ \A k \in Messages : msg'[k] = msg[k] \/ RowTrue(k)'
      /\ \A k \in Messages : msg[k].status # "none" => msg'[k].status # "none"
      /\ OdooOK' /\ OdooTrue'
  <2>1. CASE SaveSent(w)
    <3> DEFINE r == [[msg[m] EXCEPT !.status = "sent"] EXCEPT !.id = worker[w].id]
    <3>1. /\ r \in Row /\ r.status = "sent" /\ r.account = msg[m].account
          /\ r.id = worker[w].id
      BY <1>5 DEF Row, Statuses
    <3>2. msg' = [msg EXCEPT ![m] = r]
      BY <1>2, <2>1 DEF SaveSent, Types, RowsOK
    <3>3. \E t \in taken : t.id = r.id /\ t.msg = m
      BY <1>1, <1>2, <1>5, <2>1, <3>1 DEF SaveSent, Busy, HandTrue
    <3> HIDE DEF r
    <3>4. RowsOK' /\ \A k \in Messages : msg'[k] = msg[k] \/ RowTrue(k)'
      BY <1>1, <1>6, <3>1, <3>2, <3>3, RowBecomes
    <3>5. \A k \in Messages : msg[k].status # "none" => msg'[k].status # "none"
      BY <3>1, <3>2 DEF Types, RowsOK
    <3>6. UNCHANGED <<tracker, events>>
      BY <2>1 DEF SaveSent, odoo
    <3>7. OdooOK' /\ OdooTrue'
      BY <1>4, <3>6, OdooStays DEF Types, Truth, OdooOK
    <3> QED
      BY <3>4, <3>5, <3>7
  <2>2. CASE SaveFailed(w)
    <3> DEFINE r == [msg[m] EXCEPT !.status = "failed"]
    <3>1. /\ r \in Row /\ r.status = "failed" /\ r.account = msg[m].account
          /\ r.id = msg[m].id
      BY <1>5 DEF Row, Statuses
    <3>2. msg' = [msg EXCEPT ![m] = r]
      BY <1>2, <2>2 DEF SaveFailed
    <3>3. r.id = 0 \/ \E t \in taken : t.id = r.id /\ t.msg = m
      BY <1>5, <1>6, <3>1 DEF RowTrue, Types, RowsOK, RowOK
    <3> HIDE DEF r
    <3>4. RowsOK' /\ \A k \in Messages : msg'[k] = msg[k] \/ RowTrue(k)'
      BY <1>1, <1>6, <3>1, <3>2, <3>3, RowBecomes
    <3>5. \A k \in Messages : msg[k].status # "none" => msg'[k].status # "none"
      BY <3>1, <3>2 DEF Types, RowsOK
    <3>6. /\ events' \subseteq events \cup [msg: Messages, status: {"failed"}]
          /\ UNCHANGED tracker
      BY <1>1, <1>2, <2>2 DEF SaveFailed, Emit
    <3>7. OdooOK'
      BY <3>6 DEF Types, OdooOK, Final
    <3>8. OdooTrue'
      <4>1. ASSUME NEW e \in events', e.status = "delivered" PROVE e \in events
        BY <3>6, <4>1
      <4> QED
        BY <1>4, <3>6, <4>1, ReportedStays DEF Truth, OdooTrue
    <3> QED
      BY <3>4, <3>5, <3>7, <3>8
  <2> QED
    BY <2>1, <2>2
<1> QED
  BY <1>3, <1>4, <1>7, SmsStays

LEMMA ReportStep ==
  ASSUME Types, Truth, NEW t \in taken, NEW status \in Final, Report(t, status)
  PROVE  Types' /\ Truth'
<1> DEFINE ms == {m \in Messages : msg[m].status \notin {"none", "queued"} /\ msg[m].id = t.id}
<1>1. /\ t.report \in {"", status}
      /\ taken' = (taken \ {t}) \cup {[t EXCEPT !.report = status]}
      /\ msg' = [m \in Messages |-> IF m \in ms THEN [msg[m] EXCEPT !.status = status] ELSE msg[m]]
      /\ Emit(ms, status)
      /\ UNCHANGED <<usable, default, approved, tracker, queue, worker, deaths>>
  BY DEF Report, settings, celery
<1>2. /\ TakenOK' /\ TakenStays
      /\ \E u \in taken' : u.id = t.id /\ u.msg = t.msg /\ u.report = status
  BY <1>1, ReportLemma DEF Types
\* The rows that are found are those of the message the sms was taken for.
<1>3. ASSUME NEW m \in ms PROVE m = t.msg
  <2>1. RowTrue(m) /\ t.id # 0
    BY DEF Truth, Types, TakenOK
  <2>2. PICK u \in taken : u.id = msg[m].id /\ u.msg = m
    BY <2>1 DEF RowTrue
  <2> QED
    BY <2>2 DEF Types, TakenOK
<1>4. \A m \in ms : /\ [msg[m] EXCEPT !.status = status] \in Row
                    /\ [msg[m] EXCEPT !.status = status].status = status
                    /\ [msg[m] EXCEPT !.status = status].id = t.id
                    /\ [msg[m] EXCEPT !.status = status].account = msg[m].account
  BY DEF Types, RowsOK, Row, Final, Statuses
<1>5. \A m \in Messages : IF m \in ms
        THEN /\ msg'[m] \in Row /\ msg'[m].status = status /\ msg'[m].id = t.id
             /\ msg'[m].account = msg[m].account /\ msg[m].status \notin {"none", "queued"}
        ELSE msg'[m] = msg[m]
  BY <1>1, <1>4
<1> HIDE DEF ms
<1>6. RowsOK'
  <2>1. msg' \in [Messages -> Row]
    BY <1>1, <1>5 DEF Types, RowsOK
  <2> QED
    BY <1>5, <2>1 DEF Types, RowsOK, RowOK, Final
<1>7. \A m \in Messages : msg'[m] = msg[m] \/ RowTrue(m)'
  BY <1>2, <1>3, <1>5 DEF RowTrue, Final
<1>8. /\ events' \subseteq events \cup [msg: ms, status: {status}]
      /\ ms \subseteq Messages
  BY <1>1 DEF Emit, ms
<1>9. OdooOK'
  BY <1>1, <1>8 DEF Types, OdooOK
<1>10. OdooTrue'
  <2>1. ASSUME NEW e \in events', e.status = "delivered" PROVE Reported(e.msg)'
    <3>1. CASE e \in events
      BY <1>2, <2>1, <3>1, ReportedStays DEF Truth, OdooTrue
    <3>2. CASE e.msg \in ms /\ e.status = status
      <4>1. e.msg = t.msg /\ status = "delivered"
        BY <1>3, <2>1, <3>2
      <4>2. \E u \in taken' : u.msg = e.msg /\ u.report = "delivered"
        BY <1>2, <4>1
      <4> QED
        BY <4>2 DEF Reported
    <3> QED
      BY <1>8, <3>1, <3>2
  <2>2. ASSUME NEW m \in Messages, tracker'[m] = "sent" PROVE Reported(m)'
    BY <1>1, <1>2, <2>2, ReportedStays DEF Truth, OdooTrue
  <2> QED
    BY <2>1, <2>2 DEF OdooTrue
<1>11. SettingsOK' /\ DeliveriesOK' /\ \A m : Holds(m)' <=> Holds(m)
  BY <1>1 DEF Types, SettingsOK, DeliveriesOK, Holds
<1>12. \A m \in Messages : msg[m].status # "none" => msg'[m].status # "none"
  BY <1>5 DEF Final
<1> QED
  BY <1>1, <1>2, <1>6, <1>7, <1>9, <1>10, <1>11, <1>12, SmsStays

LEMMA SmsEventStep ==
  ASSUME Types, Truth, NEW e \in events, SmsEvent(e)
  PROVE  Types' /\ Truth'
<1>1. UNCHANGED <<usable, default, approved, msg, taken, events, queue, worker, deaths>>
  BY DEF SmsEvent, settings, celery
<1>2. /\ SettingsOK' /\ RowsOK' /\ DeliveriesOK' /\ TakenOK' /\ TakenStays
      /\ \A m : Holds(m)' <=> Holds(m)
  BY <1>1, TakenSame DEF Types, SettingsOK, RowsOK, RowOK, DeliveriesOK, Holds
<1>3. PICK state \in {"sent", "bounce"} :
        /\ tracker' = [tracker EXCEPT ![e.msg] = state]
        /\ state = "sent" => e.status = "delivered"
  BY DEF SmsEvent
<1>4. e.msg \in Messages /\ tracker \in [Messages -> {"none", "process", "sent", "bounce", "error"}]
  BY DEF Types, OdooOK
<1>5. \A m \in Messages : tracker'[m] = IF m = e.msg THEN state ELSE tracker[m]
  BY <1>3, <1>4
<1>8. tracker' \in [Messages -> {"none", "process", "sent", "bounce", "error"}]
  <2>1. state \in {"none", "process", "sent", "bounce", "error"}
    BY <1>3
  <2> QED
    BY <1>3, <1>4, <2>1
<1>6. OdooOK'
  BY <1>1, <1>8 DEF Types, OdooOK
<1>7. OdooTrue'
  <2>1. ASSUME NEW m \in Messages, tracker'[m] = "sent" PROVE Reported(m)
    <3>1. CASE m = e.msg
      <4>1. state = "sent"
        BY <1>4, <1>5, <2>1, <3>1
      <4>2. e.status = "delivered"
        BY <1>3, <4>1
      <4> QED
        BY <3>1, <4>2 DEF Truth, OdooTrue
    <3>2. CASE m # e.msg
      BY <1>5, <2>1, <3>2 DEF Truth, OdooTrue
    <3> QED
      BY <3>1, <3>2
  <2> QED
    BY <1>1, <1>2, <2>1, ReportedStays DEF Truth, OdooTrue
<1> QED
  BY <1>1, <1>2, <1>6, <1>7, SmsStays

LEMMA DeathStep ==
  ASSUME Types, Truth, Die, UNCHANGED <<settings, msg, taken, odoo>>
  PROVE  Types' /\ Truth'
<1>1. PICK w \in Workers : worker' = [worker EXCEPT ![w] = Idle]
  BY DEF Die
<1>2. /\ queue' \subseteq queue /\ queue' \in SUBSET Deliveries
      /\ deaths' \in 0 .. MaxDeaths
  BY BoundAssumption DEF Die, Types, DeliveriesOK
<1>3. DeliveriesOK' /\ \A v \in Workers : worker'[v] = IF v = w THEN Idle ELSE worker[v]
  BY <1>1, <1>2, DeliveryBecomes DEF Types, DeliveriesOK
<1>4. \A v \in Workers : worker'[v] = worker[v] \/ HandTrue(v)'
  BY <1>3 DEF HandTrue
<1>5. \A m : Holds(m)' => Holds(m)
  BY <1>2, <1>3 DEF Holds
<1>6. SettingsOK' /\ RowsOK' /\ OdooOK' /\ TakenOK' /\ TakenStays
  BY TakenSame DEF Types, SettingsOK, RowsOK, RowOK, OdooOK, settings, odoo
<1>7. OdooTrue'
  BY <1>6, OdooStays DEF Truth, odoo
<1> QED
  BY <1>3, <1>4, <1>5, <1>6, <1>7, SmsStays

LEMMA SmsStutter ==
  ASSUME Types, Truth, UNCHANGED smsVars
  PROVE  Types' /\ Truth'
<1>1. /\ SettingsOK' /\ RowsOK' /\ OdooOK' /\ DeliveriesOK' /\ TakenOK' /\ TakenStays
      /\ \A m : Holds(m)' <=> Holds(m)
  BY TakenSame DEF Types, SettingsOK, RowsOK, RowOK, OdooOK, DeliveriesOK, Holds,
                   smsVars, settings, odoo, celery
<1>2. OdooTrue'
  BY <1>1, OdooStays DEF Truth, smsVars, odoo
<1> QED
  BY <1>1, <1>2, SmsStays DEF smsVars, celery

LEMMA SmsStep == Types /\ Truth /\ [SmsNext]_smsVars => Types' /\ Truth'
BY SiteStep, SendStep, SendSmsStep, StartDeliveryStep, CallGatewayStep, SaveStep, ReportStep,
   SmsEventStep, DeathStep, SmsStutter DEF SmsNext, Deliver

(***************************************************************************)
(* Messages: the theorems                                                  *)
(***************************************************************************)

\* The invariant holds in every state the site, the workers and the gateway reach.
THEOREM SmsInvariance == SmsSpec => [](Types /\ Truth)
BY SmsInitInvariant, SmsStep, PTL DEF SmsSpec

\* A row that says sent or delivered has the id of an sms the gateway took for this very
\* message, and was reported, whatever was lost, run twice or reported out of order; and
\* Odoo's tracker says sent of reported messages only.
THEOREM SentRowsAreTrue == SmsSpec => []SentWasTaken
BY SmsInvariance, TruthEnough, PTL

\* The rows stay what their tables can hold, and one that was never queued has no account.
THEOREM SmsTypeCorrect == SmsSpec => []SmsTypeOK
BY SmsInvariance, SmsTypes, PTL

LEMMA SettledStep ==
  ASSUME NEW m \in Messages
  PROVE  Types /\ Settled(m) /\ [SmsNext]_smsVars => Settled(m)'
<1> SUFFICES ASSUME Types, Settled(m), [SmsNext]_smsVars PROVE Settled(m)'
  OBVIOUS
<1>1. /\ msg[m].status \notin {"none", "queued"}
      /\ \A w \in Workers : worker[w] # Idle => worker[w].what # m
  BY DEF Settled
<1>2. ASSUME msg'[m].status \notin {"none", "queued"},
             \A w \in Workers : worker'[w] # Idle => worker'[w].what # m
      PROVE  Settled(m)'
  BY <1>2 DEF Settled
<1>3. CASE Site \/ (\E e \in events : SmsEvent(e)) \/ UNCHANGED smsVars
  BY <1>1, <1>2, <1>3 DEF Site, SmsEvent, smsVars, celery
\* Another message is queued.
<1>4. ASSUME NEW k \in Messages,
             SendTest(k) \/ SendFromCard(k) \/ SendSmsTemplate(k) \/ SendAuto(k) \/ SendSms(k)
      PROVE  Settled(m)'
  <2>1. UNCHANGED <<msg, worker>> \/ \E preferred : Queue(k, preferred)
    BY <1>4 DEF SendTest, SendFromCard, SendSmsTemplate, SendAuto, SendSms, celery
  <2>2. CASE UNCHANGED <<msg, worker>>
    BY <1>1, <1>2, <2>2
  <2>3. ASSUME NEW preferred, Queue(k, preferred) PROVE Settled(m)'
    <3>1. msg[k].status = "none" /\ UNCHANGED worker
      BY <2>3 DEF Queue
    <3>2. msg'[m] = msg[m]
      BY <1>1, <2>3, <3>1 DEF Queue, Types, RowsOK
    <3> QED
      BY <1>1, <1>2, <3>1, <3>2
  <2> QED
    BY <2>1, <2>2, <2>3
\* The task finds that the message was not left to it.
<1>5. ASSUME NEW w \in Workers, StartDelivery(w) PROVE Settled(m)'
  <2>1. UNCHANGED msg
    BY <1>5 DEF StartDelivery
  <2>2. PICK t \in queue : IF msg[t.what].status = "queued" THEN Take(w, t) ELSE Skip(t)
    BY <1>5 DEF StartDelivery
  <2>3. CASE t.what = m
    BY <1>1, <1>2, <2>1, <2>2, <2>3 DEF Skip
  <2>4. CASE t.what # m
    <3>1. \A v \in Workers : worker'[v] = worker[v] \/ worker'[v].what = t.what
      BY <2>2 DEF Take, Skip, Types, DeliveriesOK
    <3> QED
      BY <1>1, <1>2, <2>1, <2>4, <3>1
  <2> QED
    BY <2>3, <2>4
\* Another message is in the worker's hands.
<1>6. ASSUME NEW w \in Workers, Deliver(w) PROVE Settled(m)'
  <2>1. worker[w] # Idle
    BY <1>6 DEF Deliver, CallGateway, SaveSent, SaveFailed, Busy
  <2>2. worker[w] \in Delivering /\ worker[w].what \in Messages /\ worker[w].what # m
    BY <1>1, <2>1, HandType DEF Types
  <2>3. msg'[m] = msg[m]
    BY <1>6, <2>2 DEF Deliver, CallGateway, SaveSent, SaveFailed, Types, RowsOK
  <2>4. \A v \in Workers : v # w => worker'[v] = worker[v]
    BY <1>6 DEF Deliver, CallGateway, SaveSent, SaveFailed, Run, Retry, Ack, Types, DeliveriesOK
  <2>5. worker'[w] = Idle \/ worker'[w].what = worker[w].what
    <3>1. \A step : [worker[w] EXCEPT !.step = step].what = worker[w].what
      BY <2>2 DEF Delivering
    <3>2. \A n : [worker[w] EXCEPT !.step = "sent", !.id = n].what = worker[w].what
      BY <2>2 DEF Delivering
    <3> QED
      BY <1>6, <3>1, <3>2
      DEF Deliver, CallGateway, SaveSent, SaveFailed, Run, Retry, Ack, Types, DeliveriesOK
  <2> QED
    BY <1>1, <1>2, <2>2, <2>3, <2>4, <2>5
<1>7. ASSUME NEW t \in taken, NEW status \in Final, Report(t, status) PROVE Settled(m)'
  <2>1. UNCHANGED worker /\ msg'[m] \in {msg[m], [msg[m] EXCEPT !.status = status]}
    BY <1>7 DEF Report, celery
  <2>2. [msg[m] EXCEPT !.status = status].status = status
    BY DEF Types, RowsOK, Row
  <2> QED
    BY <1>1, <1>2, <2>1, <2>2 DEF Final
<1>8. CASE Die /\ UNCHANGED <<settings, msg, taken, odoo>>
  <2>1. \A w \in Workers : worker'[w] \in {worker[w], Idle}
    BY <1>8 DEF Die, Types, DeliveriesOK
  <2> QED
    BY <1>1, <1>2, <1>8, <2>1
<1> QED
  BY <1>3, <1>4, <1>5, <1>6, <1>7, <1>8 DEF SmsNext

\* A message that has left the queue and is in no worker's hands stays so: a redelivered
\* task reads the row before it calls the gateway.
THEOREM SettledStays == SmsSpec => SettledIsLeft
<1>1. ASSUME NEW m \in Messages PROVE SmsSpec => [](Settled(m) => []Settled(m))
  BY SettledStep, SmsInvariance, PTL DEF SmsSpec
<1> QED
  BY <1>1 DEF SettledIsLeft

(***************************************************************************)
(* Documents: the inductive invariant                                      *)
(***************************************************************************)
AllTexts == Numbers \cup BoundTexts \cup LeadTexts
Fillings == [Names -> AllTexts]
Contents == {FlattenSeq(FillParagraph(t, v)) : t \in Texts, v \in Fillings}
              \cup {FillHtml(FlattenSeq(t), v) : t \in Texts, v \in Fillings}
Bounds   == BoundTexts \cup {NoText}
FileRefs   == [uuid: Nat, format: Formats \cup {""}]
DocRow     == [lead: Leads, seq: 1 .. MaxNumber, number: Numbers, format: Formats,
               values: Fillings, content: Contents, file: FileRefs]
Generating == [step: {"save", "upload", "attach", "record"}, lead: Leads, format: Formats,
               doc: Nat, number: Numbers, values: Fillings, content: Contents, file: FileRefs]
Editing    == [step: {"edit"}, next: 1 .. MaxNumber, prefix: NumberPrefixes, kind: Kinds, bound: Bounds]
Deleting   == [step |-> "delete"]
ProcStates == {AtRest, Deleting} \cup Generating \cup Editing
FileVersion == [format: Formats, number: Numbers]

TemplateOK ==
  /\ docx \in Texts
  /\ template \in [there: BOOLEAN, next: 1 .. MaxNumber + 1, prefix: NumberPrefixes, kind: Kinds, bound: Bounds]

DocsOK ==
  /\ docs \in Seq(DocRow) /\ Len(docs) <= MaxDocs
  /\ latest \in [Leads -> Nat]
  /\ \A l \in Leads : latest[l] # 0 => latest[l] \in DOMAIN docs /\ docs[latest[l]].lead = l

FilesOK ==
  /\ files \in Seq(SUBSET FileVersion) /\ Len(files) <= MaxFiles
  /\ attached \subseteq Leads \X (1 .. MaxFiles)

ProcsOK == proc \in [Procs -> ProcStates]

\* A file that is one document, and nothing else, in one format.
IsFile(file, number) ==
  /\ file.uuid \in DOMAIN files
  /\ files[file.uuid] = {[format |-> file.format, number |-> number]}

InTab(file, lead, number) ==
  file # NoFile => <<lead, file.uuid>> \in attached /\ IsFile(file, number)

FiledAt(d) == InTab(docs[d].file, docs[d].lead, docs[d].number)
Filed      == \A d \in DOMAIN docs : FiledAt(d)

\* A process that makes a document has its lead and its number, and a file of its
\* own or of the document.
Owns(p) ==
  proc[p] \in Generating =>
    /\ proc[p].doc # 0 => /\ proc[p].doc \in DOMAIN docs
                          /\ docs[proc[p].doc].lead = proc[p].lead
                          /\ docs[proc[p].doc].number = proc[p].number
    /\ proc[p].doc = 0 => proc[p].step = "save" /\ proc[p].file = NoFile
    /\ proc[p].step # "attach" => InTab(proc[p].file, proc[p].lead, proc[p].number)
    /\ proc[p].step = "attach" => IsFile(proc[p].file, proc[p].number)

TemplateStands == docs # <<>> => template.there

DocInv ==
  /\ TemplateOK /\ DocsOK /\ FilesOK /\ ProcsOK
  /\ Filed /\ (\A p \in Procs : Owns(p)) /\ TemplateStands

\* A process has the text of the document it is about to save.
HasText(p) ==
  proc[p].step = "save" =>
    /\ proc[p].content = FillHtml(FlattenSeq(docx), proc[p].values)
    /\ proc[p].values["number"] \in {proc[p].number} \cup BoundTexts

TextInv == TextIsFilled /\ \A p \in Procs : HasText(p)

(***************************************************************************)
(* What no step takes away                                                 *)
(***************************************************************************)
DocsStay ==
  \A d \in DOMAIN docs : /\ d \in DOMAIN docs'
                         /\ docs'[d].lead = docs[d].lead
                         /\ docs'[d].number = docs[d].number

FilesStay ==
  /\ attached \subseteq attached'
  /\ \A i \in DOMAIN files : i \in DOMAIN files' /\ files'[i] = files[i]

\* There is a document only if there are documents.
LEMMA NoDocs ==
  ASSUME NEW s
  PROVE  s = <<>> => DOMAIN s = {}
<1>1. Len(<<>>) = 0 /\ <<>> \in Seq({})
  OBVIOUS
<1>2. DOMAIN <<>> = 1 .. 0
  BY <1>1
<1> QED
  BY <1>2

LEMMA DocsTyped ==
  ASSUME DocsOK
  PROVE  /\ Len(docs) \in Nat /\ DOMAIN docs = 1 .. Len(docs)
         /\ \A d \in DOMAIN docs : docs[d] \in DocRow
<1>1. docs \in Seq(DocRow)
  BY DEF DocsOK
<1> QED
  BY <1>1, LenProperties, ElementOfSeq

LEMMA FilesTyped ==
  ASSUME FilesOK
  PROVE  /\ Len(files) \in Nat /\ DOMAIN files = 1 .. Len(files)
         /\ \A i \in DOMAIN files : files[i] \in SUBSET FileVersion
<1>1. files \in Seq(SUBSET FileVersion)
  BY DEF FilesOK
<1> QED
  BY <1>1, LenProperties, ElementOfSeq

\* format_number gives one of the numbers.
LEMMA NextNumber ==
  ASSUME NEW prefix \in NumberPrefixes, NEW seq \in 1 .. MaxNumber + 1
  PROVE  FormatNumber(prefix, seq) \in Numbers
BY DEF Numbers

\* lead_values gives every keyword a text, and {number} its number or the binding.
LEMMA FillingTyped ==
  ASSUME NEW number \in Numbers, NEW bound \in Bounds, NEW name \in LeadTexts
  PROVE  /\ Filling(number, bound, name) \in Fillings
         /\ Filling(number, bound, name)["number"] \in {number} \cup BoundTexts
BY DEF Filling, Fillings, AllTexts, Names, Bounds

\* Filling the real number keeps the keywords, and the values when it was there already.
LEMMA RefilledTyped ==
  ASSUME NEW values \in Fillings, NEW number \in Numbers
  PROVE  /\ Refilled(values, number) \in Fillings
         /\ Refilled(values, number)["number"] = number
         /\ values["number"] = number => Refilled(values, number) = values
<1>1. values \in [Names -> AllTexts] /\ DOMAIN values = Names /\ "number" \in Names
  BY DEF Fillings, Names
<1>2. number \in AllTexts
  BY DEF AllTexts
<1>3. Refilled(values, number) = [k \in Names |-> IF values[k] = values["number"] THEN number ELSE values[k]]
  BY <1>1 DEF Refilled
<1>4. ASSUME values["number"] = number PROVE Refilled(values, number) = values
  <2>1. \A k \in Names : Refilled(values, number)[k] = values[k]
    BY <1>3, <1>4
  <2> QED
    BY <1>1, <1>3, <2>1
<1> QED
  BY <1>1, <1>2, <1>3, <1>4 DEF Fillings

LEMMA RenderTyped ==
  ASSUME TemplateOK, NEW kind, NEW values \in Fillings
  PROVE  Render(kind, values) \in Contents
<1>1. docx \in Texts
  BY DEF TemplateOK
<1>2. FlattenSeq(FillParagraph(docx, values)) \in Contents
  BY <1>1 DEF Contents
<1>3. FillHtml(FlattenSeq(docx), values) \in Contents
  BY <1>1 DEF Contents
<1> QED
  BY <1>2, <1>3 DEF Render

\* No step of another process takes away what a process relies on.
LEMMA OwnsStays ==
  ASSUME DocsStay, FilesStay, NEW p \in Procs, Owns(p), proc'[p] = proc[p]
  PROVE  Owns(p)'
<1> SUFFICES ASSUME proc[p] \in Generating
             PROVE  Owns(p)'
  BY DEF Owns
<1>1. proc[p].doc # 0 => /\ proc[p].doc \in DOMAIN docs'
                         /\ docs'[proc[p].doc].lead = proc[p].lead
                         /\ docs'[proc[p].doc].number = proc[p].number
  BY DEF Owns, DocsStay
<1>2. proc[p].step # "attach" =>
        (proc[p].file # NoFile => /\ <<proc[p].lead, proc[p].file.uuid>> \in attached'
                                  /\ proc[p].file.uuid \in DOMAIN files'
                                  /\ files'[proc[p].file.uuid] =
                                       {[format |-> proc[p].file.format, number |-> proc[p].number]})
  BY DEF Owns, FilesStay, InTab, IsFile
<1>3. proc[p].step = "attach" =>
        /\ proc[p].file.uuid \in DOMAIN files'
        /\ files'[proc[p].file.uuid] =
             {[format |-> proc[p].file.format, number |-> proc[p].number]}
  BY DEF Owns, FilesStay, IsFile
<1>4. proc[p].doc = 0 => proc[p].step = "save" /\ proc[p].file = NoFile
  BY DEF Owns
<1> QED
  BY <1>1, <1>2, <1>3, <1>4 DEF Owns, InTab, IsFile

\* Everyone but p stays as they are, so it is enough to look at p.
LEMMA EveryoneOwns ==
  ASSUME DocInv, DocsStay, FilesStay, NEW p \in Procs, NEW r \in ProcStates,
         proc' = [proc EXCEPT ![p] = r], proc'[p] = r => Owns(p)'
  PROVE  ProcsOK' /\ \A q \in Procs : Owns(q)'
<1>1. proc \in [Procs -> ProcStates]
  BY DEF DocInv, ProcsOK
<1>2. ProcsOK'
  BY <1>1 DEF ProcsOK
<1>3. \A q \in Procs : proc'[q] = IF q = p THEN r ELSE proc[q]
  BY <1>1
<1>4. ASSUME NEW q \in Procs, q # p PROVE Owns(q)'
  <2>1. Owns(q) /\ proc'[q] = proc[q]
    BY <1>3, <1>4 DEF DocInv
  <2> QED
    BY <2>1, OwnsStays
<1> QED
  BY <1>2, <1>3, <1>4

LEMMA FiledAtStays ==
  ASSUME FilesStay, DocsStay, NEW d \in DOMAIN docs, FiledAt(d), docs'[d].file = docs[d].file
  PROVE  FiledAt(d)'
BY DEF FilesStay, DocsStay, FiledAt, InTab, IsFile

LEMMA FiledStays ==
  ASSUME Filed, FilesStay, DocsStay, DOMAIN docs' = DOMAIN docs,
         \A d \in DOMAIN docs : docs'[d].file = docs[d].file
  PROVE  Filed'
<1>1. ASSUME NEW d \in DOMAIN docs' PROVE FiledAt(d)'
  <2>1. d \in DOMAIN docs /\ FiledAt(d) /\ docs'[d].file = docs[d].file
    BY <1>1 DEF Filed
  <2> QED
    BY <2>1, FiledAtStays
<1> QED
  BY <1>1 DEF Filed

\* A step that leaves the rows and the files alone.
LEMMA NothingFiled ==
  ASSUME DocInv, UNCHANGED <<docx, docs, latest, files, attached>>
  PROVE  DocsStay /\ FilesStay /\ Filed' /\ DocsOK' /\ FilesOK'
<1>1. DocsStay /\ FilesStay
  BY DEF DocsStay, FilesStay
<1>2. DocsOK' /\ FilesOK'
  BY DEF DocInv, DocsOK, FilesOK
<1>3. Filed'
  BY <1>1, FiledStays DEF DocInv
<1> QED
  BY <1>1, <1>2, <1>3

\* A step of the form, which makes no document.
LEMMA FormGoes ==
  ASSUME DocInv, UNCHANGED <<docx, docs, latest, files, attached>>,
         TemplateOK', TemplateStands',
         NEW p \in Procs, NEW r \in {AtRest, Deleting} \cup Editing, proc' = [proc EXCEPT ![p] = r]
  PROVE  DocInv' /\ DocsStay
<1>1. DocsStay /\ FilesStay /\ Filed' /\ DocsOK' /\ FilesOK'
  BY NothingFiled
<1>2. r \in ProcStates /\ r \notin Generating
  BY DEF ProcStates, AtRest, Deleting, Editing, Generating
<1>3. proc'[p] = r => Owns(p)'
  BY <1>2 DEF Owns
<1>4. ProcsOK' /\ \A q \in Procs : Owns(q)'
  BY <1>1, <1>2, <1>3, EveryoneOwns
<1> QED
  BY <1>1, <1>4 DEF DocInv

\* What a process holds, by its step.
LEMMA ProcKind ==
  ASSUME ProcsOK, NEW p \in Procs
  PROVE  /\ proc[p].step = "idle" => proc[p] = AtRest
         /\ proc[p].step = "delete" => proc[p] = Deleting
         /\ proc[p].step = "edit" => proc[p] \in Editing
         /\ proc[p].step \in {"save", "upload", "attach", "record"} => proc[p] \in Generating
<1>1. proc[p] \in ProcStates
  BY DEF ProcsOK
<1> QED
  BY <1>1 DEF ProcStates, AtRest, Deleting, Editing, Generating

(***************************************************************************)
(* The form                                                                *)
(***************************************************************************)
LEMMA EditStartStep ==
  ASSUME DocInv, NEW p \in Procs, EditStart(p)
  PROVE  DocInv' /\ DocsStay
<1>1. PICK prefix \in NumberPrefixes, kind \in Kinds, next \in 1 .. MaxNumber, bound \in Bounds :
        Go(p, [step |-> "edit", next |-> next, prefix |-> prefix, kind |-> kind, bound |-> bound])
  BY DEF EditStart, Bounds
<1> DEFINE r == [step |-> "edit", next |-> next, prefix |-> prefix, kind |-> kind, bound |-> bound]
<1>2. r \in Editing /\ proc' = [proc EXCEPT ![p] = r]
  BY <1>1 DEF Editing, Go
<1>3. TemplateOK' /\ TemplateStands'
  BY DEF EditStart, DocInv, TemplateOK, TemplateStands
<1> HIDE DEF r
<1> QED
  BY <1>2, <1>3, FormGoes DEF EditStart

LEMMA EditSaveStep ==
  ASSUME DocInv, NEW p \in Procs, EditSave(p)
  PROVE  DocInv' /\ DocsStay
<1>1. proc[p] \in Editing
  BY ProcKind DEF DocInv, EditSave, At
<1>2. TemplateOK' /\ TemplateStands'
  <2>1. MaxNumber \in Nat
    BY LimitAssumption
  <2>2. /\ proc[p].next \in 1 .. MaxNumber + 1 /\ proc[p].prefix \in NumberPrefixes
        /\ proc[p].kind \in Kinds /\ proc[p].bound \in Bounds
    BY <1>1, <2>1 DEF Editing
  <2> QED
    BY <2>2 DEF EditSave, DocInv, TemplateOK, TemplateStands
<1> QED
  BY <1>2, FormGoes DEF EditSave, Done, Go

LEMMA DeleteStartStep ==
  ASSUME DocInv, NEW p \in Procs, DeleteStart(p)
  PROVE  DocInv' /\ DocsStay
<1>1. TemplateOK' /\ TemplateStands'
  BY DEF DeleteStart, DocInv, TemplateOK, TemplateStands
<1> QED
  BY <1>1, FormGoes DEF DeleteStart, Go, Deleting

LEMMA DeleteStep ==
  ASSUME DocInv, NEW p \in Procs, Delete(p)
  PROVE  DocInv' /\ DocsStay
<1>1. TemplateOK' /\ TemplateStands'
  BY DEF Delete, DocInv, TemplateOK, TemplateStands
<1> QED
  BY <1>1, FormGoes DEF Delete, Done, Go

LEMMA GiveUpStep ==
  ASSUME DocInv, NEW p \in Procs, GiveUp(p)
  PROVE  DocInv' /\ DocsStay
<1>1. TemplateOK' /\ TemplateStands'
  BY DEF GiveUp, DocInv, TemplateOK, TemplateStands
<1> QED
  BY <1>1, FormGoes DEF GiveUp, Done, Go

LEMMA KindStep ==
  ASSUME DocInv, EditOnSite \/ UseWord
  PROVE  DocInv' /\ DocsStay
<1>1. UNCHANGED <<docx, docs, latest, files, attached, proc>>
  BY DEF EditOnSite, UseWord
<1>2. DocsStay /\ FilesStay /\ Filed' /\ DocsOK' /\ FilesOK'
  BY <1>1, NothingFiled
<1>3. TemplateOK' /\ TemplateStands'
  BY <1>1 DEF EditOnSite, UseWord, DocInv, TemplateOK, TemplateStands, Kinds
<1>4. ProcsOK' /\ \A p \in Procs : Owns(p)'
  BY <1>1, <1>2, OwnsStays DEF DocInv, ProcsOK
<1> QED
  BY <1>2, <1>3, <1>4 DEF DocInv

(***************************************************************************)
(* Making a document                                                       *)
(***************************************************************************)
LEMMA GenerateStartStep ==
  ASSUME DocInv, NEW p \in Procs, NEW lead \in Leads, NEW format \in Formats,
         GenerateStart(p, lead, format)
  PROVE  DocInv' /\ DocsStay
<1> DEFINE doc     == latest[lead]
           number  == IF doc # 0 THEN docs[doc].number ELSE FormatNumber(template.prefix, template.next)
           file    == IF doc # 0 THEN docs[doc].file ELSE NoFile
           filling(name) == Filling(number, template.bound, name)
           made(values) == [step |-> "save", lead |-> lead, format |-> format, doc |-> doc, number |-> number,
                            values |-> values, content |-> Render(template.kind, values), file |-> file]
<1>0. PICK name \in LeadTexts : Go(p, made(filling(name)))
  BY DEF GenerateStart
<1> DEFINE values  == filling(name)
           content == Render(template.kind, values)
           r       == made(values)
<1>1. Go(p, r) /\ UNCHANGED <<docx, template, docs, latest, files, attached>>
  BY <1>0 DEF GenerateStart
<1>2. DocsStay /\ FilesStay /\ Filed' /\ DocsOK' /\ FilesOK'
  BY <1>1, NothingFiled
<1>3. doc \in Nat /\ (doc # 0 => doc \in DOMAIN docs /\ docs[doc].lead = lead /\ docs[doc] \in DocRow)
  BY DocsTyped DEF DocInv, DocsOK
<1>4. number \in Numbers /\ (doc # 0 => number = docs[doc].number)
  <2>1. template.prefix \in NumberPrefixes /\ template.next \in 1 .. MaxNumber + 1
    BY DEF DocInv, TemplateOK
  <2> QED
    BY <1>3, <2>1, NextNumber DEF DocRow
<1>5. file \in FileRefs
  BY <1>3 DEF DocRow, FileRefs, NoFile, Formats
<1>6. values \in Fillings /\ content \in Contents
  <2>1. template.bound \in Bounds
    BY DEF DocInv, TemplateOK
  <2>2. values \in Fillings
    BY <1>4, <2>1, FillingTyped
  <2> QED
    BY <2>2, RenderTyped DEF DocInv
<1>7. InTab(file, lead, number)
  <2>1. CASE doc = 0
    BY <2>1 DEF InTab
  <2>2. CASE doc # 0
    BY <1>3, <1>4, <2>2 DEF DocInv, Filed, FiledAt
  <2> QED
    BY <2>1, <2>2
<1>8. doc = 0 => file = NoFile
  OBVIOUS
<1> DEFINE t == [step |-> "save", lead |-> lead, format |-> format, doc |-> doc, number |-> number,
                 values |-> values, content |-> content, file |-> file]
<1>13. r = t
  OBVIOUS
<1> HIDE DEF doc, number, values, content, file, r
<1>9. r \in ProcStates
  BY <1>3, <1>4, <1>5, <1>6, <1>13 DEF Generating, ProcStates
<1>10. proc'[p] = r => Owns(p)'
  BY <1>1, <1>3, <1>4, <1>7, <1>8, <1>13 DEF Owns, InTab, IsFile
<1>11. ProcsOK' /\ \A q \in Procs : Owns(q)'
  BY <1>1, <1>2, <1>9, <1>10, EveryoneOwns DEF Go
<1>12. TemplateOK' /\ TemplateStands'
  BY <1>1 DEF DocInv, TemplateOK, TemplateStands
<1> QED
  BY <1>2, <1>11, <1>12 DEF DocInv

\* A row more, which is the newest of its lead and has no file yet.
LEMMA DocsAppended ==
  ASSUME DocInv, NEW row \in DocRow, docs' = Append(docs, row), row.file = NoFile,
         Len(docs) + 1 <= MaxDocs, latest' = [latest EXCEPT ![row.lead] = Len(docs) + 1],
         FilesStay
  PROVE  /\ DocsStay /\ DocsOK' /\ Filed' /\ docs' # <<>>
         /\ Len(docs) + 1 \in DOMAIN docs' /\ docs'[Len(docs) + 1] = row
         /\ DOMAIN docs' = DOMAIN docs \cup {Len(docs) + 1}
         /\ \A d \in DOMAIN docs : docs'[d] = docs[d]
<1>1. docs \in Seq(DocRow) /\ Len(docs) \in Nat /\ DOMAIN docs = 1 .. Len(docs)
  BY DocsTyped DEF DocInv, DocsOK
<1>2. /\ docs' \in Seq(DocRow) /\ docs' # <<>> /\ Len(docs') = Len(docs) + 1
      /\ \A d \in 1 .. Len(docs) : docs'[d] = docs[d]
      /\ docs'[Len(docs) + 1] = row
  BY <1>1, AppendProperties
<1>3. DOMAIN docs' = 1 .. Len(docs) + 1
  BY <1>1, <1>2, LenProperties
<1>4. DocsStay
  BY <1>1, <1>2, <1>3 DEF DocsStay
<1>5. row.lead \in Leads
  BY DEF DocRow
<1>6. latest \in [Leads -> Nat]
  BY DEF DocInv, DocsOK
<1>7. \A l \in Leads : latest'[l] = IF l = row.lead THEN Len(docs) + 1 ELSE latest[l]
  BY <1>5, <1>6
<1>8. latest' \in [Leads -> Nat]
  BY <1>1, <1>5, <1>6
<1>9. ASSUME NEW l \in Leads, latest'[l] # 0
      PROVE  latest'[l] \in DOMAIN docs' /\ docs'[latest'[l]].lead = l
  <2>1. CASE l = row.lead
    BY <1>1, <1>2, <1>3, <1>7, <2>1
  <2>2. CASE l # row.lead
    <3>1. latest'[l] = latest[l] /\ latest[l] \in DOMAIN docs /\ docs[latest[l]].lead = l
      BY <1>7, <1>9, <2>2 DEF DocInv, DocsOK
    <3> QED
      BY <1>4, <3>1 DEF DocsStay
  <2> QED
    BY <2>1, <2>2
<1>10. DocsOK'
  BY <1>2, <1>8, <1>9 DEF DocsOK
<1>11. ASSUME NEW d \in DOMAIN docs' PROVE FiledAt(d)'
  <2>1. CASE d \in DOMAIN docs
    BY <1>1, <1>2, <1>4, <2>1, FiledAtStays DEF DocInv, Filed
  <2>2. CASE d = Len(docs) + 1
    BY <1>2, <2>2 DEF FiledAt, InTab
  <2> QED
    BY <1>1, <1>3, <1>11, <2>1, <2>2
<1> QED
  BY <1>1, <1>2, <1>3, <1>4, <1>10, <1>11 DEF Filed

LEMMA GenerateNewStep ==
  ASSUME DocInv, NEW p \in Procs, GenerateNew(p)
  PROVE  DocInv' /\ DocsStay
<1> DEFINE r      == proc[p]
           seq    == template.next
           number == FormatNumber(template.prefix, seq)
           values == Refilled(r.values, number)
           text   == IF number = r.values["number"] THEN r.content ELSE Render(template.kind, values)
           pk     == Len(docs) + 1
           row    == [lead |-> r.lead, seq |-> seq, number |-> number, format |-> r.format,
                      values |-> values, file |-> NoFile, content |-> text]
           next   == [r EXCEPT !.step = "upload", !.doc = pk, !.number = number]
<1>1. r \in Generating /\ r.doc = 0 /\ r.step = "save"
  BY ProcKind DEF DocInv, GenerateNew, At
<1>2. UNCHANGED <<docx, files, attached>>
  BY DEF GenerateNew
<1>3. FilesStay /\ FilesOK'
  BY <1>2 DEF FilesStay, DocInv, FilesOK
<1>4. CASE template.there /\ seq \notin UsedSeqs
  <2>1. /\ pk <= MaxDocs /\ seq <= MaxNumber
        /\ template' = [template EXCEPT !.next = seq + 1]
        /\ docs' = Append(docs, row)
        /\ latest' = [latest EXCEPT ![r.lead] = pk]
        /\ Go(p, next)
    BY <1>4 DEF GenerateNew
  <2>2. seq \in 1 .. MaxNumber + 1 /\ template.prefix \in NumberPrefixes /\ MaxNumber \in Nat
    BY LimitAssumption DEF DocInv, TemplateOK
  <2>3. number \in Numbers
    BY <2>2, NextNumber
  <2>4. values \in Fillings /\ text \in Contents
    <3>1. r.values \in Fillings /\ r.content \in Contents
      BY <1>1 DEF Generating
    <3>2. values \in Fillings
      BY <2>3, <3>1, RefilledTyped
    <3> HIDE DEF values, number
    <3> QED
      BY <3>1, <3>2, RenderTyped DEF DocInv
  <2>5. row \in DocRow
    <3>1. seq \in 1 .. MaxNumber
      BY <2>1, <2>2
    <3>2. NoFile \in FileRefs
      BY DEF NoFile, FileRefs
    <3> HIDE DEF seq, number, values, text
    <3> QED
      BY <1>1, <2>3, <2>4, <3>1, <3>2 DEF DocRow, Generating
  <2>6. /\ template' \in [there: BOOLEAN, next: 1 .. MaxNumber + 1, prefix: NumberPrefixes, kind: Kinds, bound: Bounds]
        /\ template'.there = template.there
    <3>1. seq + 1 \in 1 .. MaxNumber + 1
      BY <2>1, <2>2
    <3> QED
      BY <2>1, <3>1 DEF DocInv, TemplateOK
  <2>7. row.file = NoFile /\ row.lead = r.lead /\ row.number = number
    OBVIOUS
  <2> HIDE DEF row, number, values, text
  <2>8. /\ DocsStay /\ DocsOK' /\ Filed' /\ docs' # <<>>
        /\ pk \in DOMAIN docs' /\ docs'[pk] = row
    BY <1>3, <2>1, <2>5, <2>7, DocsAppended
  <2>9. pk \in Nat /\ pk # 0
    BY DocsTyped DEF DocInv
  <2> HIDE DEF pk
  <2>10. next \in Generating
    BY <1>1, <2>3, <2>9 DEF Generating
  <2>11. /\ next.doc = pk /\ next.lead = r.lead /\ next.number = number /\ next.step = "upload"
         /\ next.file = NoFile
    BY <1>1 DEF Generating, DocInv, Owns
  <2> HIDE DEF next, r
  <2>12. proc'[p] = next => Owns(p)'
    BY <2>7, <2>8, <2>9, <2>11 DEF Owns, InTab
  <2>13. ProcsOK' /\ \A q \in Procs : Owns(q)'
    BY <1>3, <2>1, <2>8, <2>10, <2>12, EveryoneOwns DEF Go, ProcStates
  <2>14. TemplateOK' /\ TemplateStands'
    BY <1>2, <1>4, <2>6 DEF DocInv, TemplateOK, TemplateStands
  <2> QED
    BY <1>3, <2>8, <2>13, <2>14 DEF DocInv
<1>5. CASE ~(template.there /\ seq \notin UsedSeqs)
  <2>1. Done(p) /\ UNCHANGED <<template, docs, latest>>
    BY <1>5 DEF GenerateNew
  <2>2. TemplateOK' /\ TemplateStands'
    BY <1>2, <2>1 DEF DocInv, TemplateOK, TemplateStands
  <2> QED
    BY <1>2, <2>1, <2>2, FormGoes DEF Done, Go
<1> QED
  BY <1>4, <1>5

\* One row is saved again, with its lead and its number.
LEMMA DocsSaved ==
  ASSUME DocInv, NEW doc \in DOMAIN docs, NEW row \in DocRow, docs' = [docs EXCEPT ![doc] = row],
         row.lead = docs[doc].lead, row.number = docs[doc].number
  PROVE  /\ DocsStay /\ DOMAIN docs' = DOMAIN docs /\ docs' # <<>>
         /\ docs' \in Seq(DocRow) /\ Len(docs') = Len(docs)
         /\ \A d \in DOMAIN docs : docs'[d] = IF d = doc THEN row ELSE docs[d]
<1>1. docs \in Seq(DocRow) /\ Len(docs) \in Nat /\ DOMAIN docs = 1 .. Len(docs)
  BY DocsTyped DEF DocInv, DocsOK
<1>2. /\ docs' \in Seq(DocRow) /\ Len(docs') = Len(docs)
      /\ \A d \in 1 .. Len(docs) : docs'[d] = IF d = doc THEN row ELSE docs[d]
  BY <1>1, ExceptSeq
<1>3. DOMAIN docs' = DOMAIN docs
  BY <1>1, <1>2, LenProperties
<1>4. DocsStay
  BY <1>1, <1>2, <1>3 DEF DocsStay
<1>5. docs' # <<>>
  BY <1>3, NoDocs
<1> QED
  BY <1>1, <1>2, <1>3, <1>4, <1>5

LEMMA GenerateAgainStep ==
  ASSUME DocInv, NEW p \in Procs, GenerateAgain(p)
  PROVE  DocInv' /\ DocsStay
<1> DEFINE r    == proc[p]
           doc  == r.doc
           row  == [docs[doc] EXCEPT !.format = r.format, !.content = r.content, !.values = r.values]
           next == [r EXCEPT !.step = "upload"]
<1>1. /\ r \in Generating /\ doc \in DOMAIN docs /\ docs[doc] \in DocRow /\ r.step = "save"
      /\ docs[doc].lead = r.lead /\ docs[doc].number = r.number
      /\ InTab(r.file, r.lead, r.number) /\ doc # 0
  BY ProcKind, DocsTyped DEF DocInv, GenerateAgain, At, Owns
<1>2. docs' = [docs EXCEPT ![doc] = row]
  BY DEF GenerateAgain
<1>3. /\ latest' = [latest EXCEPT ![r.lead] = doc] /\ Go(p, next)
      /\ UNCHANGED <<docx, template, files, attached>>
  BY DEF GenerateAgain
<1>4. /\ row \in DocRow /\ row.lead = docs[doc].lead /\ row.number = docs[doc].number
      /\ row.file = docs[doc].file
  BY <1>1 DEF DocRow, Generating
<1> HIDE DEF row
<1>5. /\ DocsStay /\ DOMAIN docs' = DOMAIN docs /\ docs' # <<>>
      /\ docs' \in Seq(DocRow) /\ Len(docs') = Len(docs)
      /\ \A d \in DOMAIN docs : docs'[d] = IF d = doc THEN row ELSE docs[d]
  BY <1>1, <1>2, <1>4, DocsSaved
<1>6. FilesStay /\ FilesOK'
  BY <1>3 DEF FilesStay, DocInv, FilesOK
<1>7. Filed'
  BY <1>4, <1>5, <1>6, FiledStays DEF DocInv
<1>8. DocsOK'
  <2>1. latest \in [Leads -> Nat] /\ r.lead \in Leads /\ doc \in Nat
    BY <1>1 DEF DocInv, DocsOK, Generating
  <2>2. \A l \in Leads : latest'[l] = IF l = r.lead THEN doc ELSE latest[l]
    BY <1>3, <2>1
  <2>3. latest' \in [Leads -> Nat]
    BY <1>3, <2>1
  <2>4. ASSUME NEW l \in Leads, latest'[l] # 0
        PROVE  latest'[l] \in DOMAIN docs' /\ docs'[latest'[l]].lead = l
    <3>1. CASE l = r.lead
      BY <1>1, <1>5, <2>2, <3>1 DEF DocsStay
    <3>2. CASE l # r.lead
      BY <1>5, <2>2, <2>4, <3>2 DEF DocsStay, DocInv, DocsOK
    <3> QED
      BY <3>1, <3>2
  <2>5. Len(docs') <= MaxDocs
    BY <1>5 DEF DocInv, DocsOK
  <2> QED
    BY <1>5, <2>3, <2>4, <2>5 DEF DocsOK
<1>9. next \in Generating
  BY <1>1 DEF Generating
<1>10. /\ next.doc = doc /\ next.lead = r.lead /\ next.number = r.number /\ next.step = "upload"
       /\ next.file = r.file
  BY <1>1 DEF Generating
<1> HIDE DEF next
<1>11. proc'[p] = next => Owns(p)'
  BY <1>1, <1>3, <1>5, <1>10 DEF Owns, InTab, IsFile, DocsStay
<1>12. ProcsOK' /\ \A q \in Procs : Owns(q)'
  BY <1>3, <1>5, <1>6, <1>9, <1>11, EveryoneOwns DEF Go, ProcStates
<1>13. TemplateOK' /\ TemplateStands'
  <2>1. docs # <<>>
    BY <1>1, NoDocs
  <2> QED
    BY <1>3, <2>1 DEF DocInv, TemplateOK, TemplateStands
<1> QED
  BY <1>5, <1>6, <1>7, <1>8, <1>12, <1>13 DEF DocInv

\* A file grows by the same version it holds, or there is one file more.
LEMMA UploadStep ==
  ASSUME DocInv, NEW p \in Procs, Upload(p)
  PROVE  DocInv' /\ DocsStay
<1> DEFINE r    == proc[p]
           same == Same(r)
           uuid == IF same # 0 THEN same ELSE Len(files) + 1
           step == IF uuid # r.file.uuid THEN "attach" ELSE "record"
           file == [uuid |-> uuid, format |-> r.format]
           next == [r EXCEPT !.step = step, !.file = file]
<1>1. /\ r \in Generating /\ r.step = "upload" /\ r.doc # 0
      /\ InTab(r.file, r.lead, r.number)
  BY ProcKind DEF DocInv, Upload, At, Owns
<1>2. /\ uuid <= MaxFiles
      /\ files' = IF same # 0 THEN [files EXCEPT ![uuid] = @ \cup {Version(r)}] ELSE Append(files, {Version(r)})
      /\ Go(p, next)
      /\ UNCHANGED <<docx, template, docs, latest, attached>>
  BY DEF Upload
<1>3. Version(r) = [format |-> r.format, number |-> r.number] /\ Version(r) \in FileVersion
  BY <1>1 DEF Version, FileVersion, Generating
<1>4. /\ files \in Seq(SUBSET FileVersion) /\ Len(files) \in Nat /\ DOMAIN files = 1 .. Len(files)
      /\ Len(files) <= MaxFiles /\ MaxFiles \in Nat
  BY FilesTyped, LimitAssumption DEF DocInv, FilesOK
<1>18. same = IF r.file.format = r.format THEN r.file.uuid ELSE 0
  BY DEF Same
<1>19. /\ r.file \in FileRefs /\ r.file.uuid \in Nat
       /\ r.file.uuid # 0 => r.file # NoFile
       /\ r.file.uuid # 0 => r.file.uuid \in DOMAIN files
  <2>1. r.file \in FileRefs
    BY <1>1 DEF Generating
  <2>2. r.file.uuid \in Nat
    BY <2>1 DEF FileRefs
  <2>3. NoFile.uuid = 0
    BY DEF NoFile
  <2>4. r.file.uuid # 0 => r.file # NoFile
    BY <2>3
  <2> QED
    BY <1>1, <2>1, <2>2, <2>4 DEF InTab, IsFile
<1> HIDE DEF same
<1>5. /\ files' \in Seq(SUBSET FileVersion) /\ Len(files') <= MaxFiles
      /\ \A i \in DOMAIN files : i \in DOMAIN files' /\ files'[i] = files[i]
      /\ uuid \in DOMAIN files' /\ files'[uuid] = {Version(r)}
      /\ step = "record" => same # 0
  <2>1. CASE same # 0
    <3>1. r.file.format = r.format /\ uuid = r.file.uuid /\ r.file # NoFile
      BY <1>18, <1>19, <2>1
    <3>2. uuid \in DOMAIN files /\ files[uuid] = {Version(r)}
      BY <1>1, <1>3, <3>1 DEF InTab, IsFile
    <3> HIDE DEF uuid
    <3>3. files' = [files EXCEPT ![uuid] = {Version(r)}]
      BY <1>2, <2>1, <3>2
    <3>4. /\ files' \in Seq(SUBSET FileVersion) /\ Len(files') = Len(files)
          /\ \A i \in 1 .. Len(files) : files'[i] = IF i = uuid THEN {Version(r)} ELSE files[i]
      BY <1>3, <1>4, <3>2, <3>3, ExceptSeq
    <3>5. DOMAIN files' = DOMAIN files
      BY <1>4, <3>4, LenProperties
    <3> QED
      BY <1>4, <2>1, <3>2, <3>4, <3>5
  <2>2. CASE same = 0
    <3>1. uuid = Len(files) + 1 /\ files' = Append(files, {Version(r)})
      BY <1>2, <2>2
    <3>2. r.file.uuid = 0 \/ r.file.uuid \in DOMAIN files
      BY <1>19
    <3>3. step = "attach"
      BY <1>4, <3>1, <3>2
    <3>4. /\ files' \in Seq(SUBSET FileVersion) /\ Len(files') = Len(files) + 1
          /\ \A i \in 1 .. Len(files) : files'[i] = files[i]
          /\ files'[Len(files) + 1] = {Version(r)}
      BY <1>3, <1>4, <3>1, AppendProperties
    <3>5. DOMAIN files' = 1 .. Len(files) + 1
      BY <1>4, <3>4, LenProperties
    <3> HIDE DEF step, uuid
    <3>6. \A i \in DOMAIN files : i \in DOMAIN files' /\ files'[i] = files[i]
      BY <1>4, <3>4, <3>5
    <3>7. uuid \in DOMAIN files' /\ files'[uuid] = {Version(r)}
      BY <1>4, <3>1, <3>4, <3>5
    <3>8. Len(files') <= MaxFiles
      <4>1. uuid <= MaxFiles
        BY <1>2
      <4> QED
        BY <3>1, <3>4, <4>1
    <3> QED
      BY <3>3, <3>4, <3>6, <3>7, <3>8
  <2> QED
    BY <2>1, <2>2
<1>6. uuid \in Nat
  BY <1>4, <1>18, <1>19
<1>7. step = "record" => <<r.lead, uuid>> \in attached
  <2>1. SUFFICES ASSUME step = "record" PROVE <<r.lead, uuid>> \in attached
    OBVIOUS
  <2>2. same # 0
    BY <1>5, <2>1
  <2>3. uuid = r.file.uuid /\ r.file # NoFile
    BY <1>18, <1>19, <2>2
  <2> QED
    BY <1>1, <2>3 DEF InTab
<1>8. step \in {"attach", "record"}
  OBVIOUS
<1> HIDE DEF step, uuid
<1>9. file \in FileRefs /\ file.uuid = uuid /\ file.format = r.format
  BY <1>1, <1>6 DEF FileRefs, Generating
<1> HIDE DEF file
<1>10. next \in Generating
  BY <1>1, <1>8, <1>9 DEF Generating
<1>11. /\ next.doc = r.doc /\ next.lead = r.lead /\ next.number = r.number /\ next.step = step
       /\ next.file = file
  BY <1>1 DEF Generating
<1> HIDE DEF next
<1>12. DocsStay /\ FilesStay /\ FilesOK' /\ DocsOK'
  BY <1>2, <1>5 DEF DocsStay, FilesStay, DocInv, FilesOK, DocsOK
<1>13. Filed'
  BY <1>2, <1>12, FiledStays DEF DocInv
<1>15. proc'[p] = next => Owns(p)'
  <2>1. SUFFICES ASSUME proc'[p] = next PROVE Owns(p)'
    OBVIOUS
  <2>2. /\ next.doc \in DOMAIN docs' /\ docs'[next.doc].lead = next.lead
        /\ docs'[next.doc].number = next.number /\ next.doc # 0
    BY <1>1, <1>2, <1>11 DEF DocInv, Owns
  <2>3. /\ uuid \in DOMAIN files' /\ files'[uuid] = {[format |-> r.format, number |-> r.number]}
        /\ step = "record" => <<r.lead, uuid>> \in attached'
    BY <1>2, <1>3, <1>5, <1>7
  <2> QED
    BY <1>8, <1>9, <1>11, <2>1, <2>2, <2>3 DEF Owns, InTab, IsFile
<1>16. ProcsOK' /\ \A q \in Procs : Owns(q)'
  BY <1>2, <1>10, <1>12, <1>15, EveryoneOwns DEF Go, ProcStates
<1>17. TemplateOK' /\ TemplateStands'
  BY <1>2 DEF DocInv, TemplateOK, TemplateStands
<1> QED
  BY <1>12, <1>13, <1>16, <1>17 DEF DocInv

LEMMA AttachStep ==
  ASSUME DocInv, NEW p \in Procs, Attach(p)
  PROVE  DocInv' /\ DocsStay
<1> DEFINE r    == proc[p]
           next == [r EXCEPT !.step = "record"]
<1>1. r \in Generating /\ r.step = "attach" /\ IsFile(r.file, r.number) /\ r.doc # 0
  BY ProcKind DEF DocInv, Attach, At, Owns
<1>2. /\ attached' = attached \cup {<<r.lead, r.file.uuid>>} /\ Go(p, next)
      /\ UNCHANGED <<docx, template, docs, latest, files>>
  BY DEF Attach
<1>3. r.lead \in Leads /\ r.file.uuid \in 1 .. MaxFiles
  BY <1>1, FilesTyped, LimitAssumption DEF DocInv, FilesOK, IsFile, Generating
<1>4. DocsStay /\ FilesStay /\ FilesOK' /\ DocsOK'
  BY <1>2, <1>3 DEF DocsStay, FilesStay, DocInv, FilesOK, DocsOK
<1>5. Filed'
  BY <1>2, <1>4, FiledStays DEF DocInv
<1>6. next \in Generating
  BY <1>1 DEF Generating
<1>7. /\ next.doc = r.doc /\ next.lead = r.lead /\ next.number = r.number /\ next.step = "record"
      /\ next.file = r.file
  BY <1>1 DEF Generating
<1> HIDE DEF next
<1>8. proc'[p] = next => Owns(p)'
  BY <1>1, <1>2, <1>7 DEF DocInv, Owns, InTab, IsFile
<1>9. ProcsOK' /\ \A q \in Procs : Owns(q)'
  BY <1>2, <1>4, <1>6, <1>8, EveryoneOwns DEF Go, ProcStates
<1>10. TemplateOK' /\ TemplateStands'
  BY <1>2 DEF DocInv, TemplateOK, TemplateStands
<1> QED
  BY <1>4, <1>5, <1>9, <1>10 DEF DocInv

LEMMA RecordStep ==
  ASSUME DocInv, NEW p \in Procs, Record(p)
  PROVE  DocInv' /\ DocsStay
<1> DEFINE r   == proc[p]
           doc == r.doc
           row == [docs[doc] EXCEPT !.file = r.file]
<1>1. /\ r \in Generating /\ doc \in DOMAIN docs /\ docs[doc] \in DocRow
      /\ docs[doc].lead = r.lead /\ docs[doc].number = r.number /\ InTab(r.file, r.lead, r.number)
  BY ProcKind, DocsTyped DEF DocInv, Record, At, Owns
<1>2. docs' = [docs EXCEPT ![doc] = row]
  BY DEF Record
<1>3. Done(p) /\ UNCHANGED <<docx, template, latest, files, attached>>
  BY DEF Record
<1>4. row \in DocRow /\ row.lead = r.lead /\ row.number = r.number /\ row.file = r.file
  BY <1>1 DEF DocRow, Generating
<1> HIDE DEF row
<1>5. /\ DocsStay /\ DOMAIN docs' = DOMAIN docs
      /\ docs' \in Seq(DocRow) /\ Len(docs') = Len(docs)
      /\ \A d \in DOMAIN docs : docs'[d] = IF d = doc THEN row ELSE docs[d]
  BY <1>1, <1>2, <1>4, DocsSaved
<1>6. FilesStay /\ FilesOK'
  BY <1>3 DEF FilesStay, DocInv, FilesOK
<1>7. Filed'
  <2>1. ASSUME NEW d \in DOMAIN docs' PROVE FiledAt(d)'
    <3>1. CASE d = doc
      BY <1>1, <1>3, <1>4, <1>5, <3>1 DEF FiledAt, InTab, IsFile
    <3>2. CASE d # doc
      BY <1>5, <1>6, <2>1, <3>2, FiledAtStays DEF DocInv, Filed
    <3> QED
      BY <3>1, <3>2
  <2> QED
    BY <2>1 DEF Filed
<1>8. DocsOK'
  BY <1>3, <1>5 DEF DocInv, DocsOK, DocsStay
<1>9. AtRest \in ProcStates /\ AtRest \notin Generating
  BY DEF ProcStates, AtRest, Generating
<1>10. proc'[p] = AtRest => Owns(p)'
  BY <1>9 DEF Owns
<1>11. ProcsOK' /\ \A q \in Procs : Owns(q)'
  BY <1>3, <1>5, <1>6, <1>9, <1>10, EveryoneOwns DEF Done, Go
<1>12. TemplateOK' /\ TemplateStands'
  <2>1. docs # <<>>
    BY <1>1, NoDocs
  <2> QED
    BY <1>3, <2>1 DEF DocInv, TemplateOK, TemplateStands
<1> QED
  BY <1>5, <1>6, <1>7, <1>8, <1>11, <1>12 DEF DocInv

(***************************************************************************)
(* The invariant, and what it gives                                        *)
(***************************************************************************)
LEMMA DocInitInv == DocumentsInit => DocInv
<1> SUFFICES ASSUME DocumentsInit PROVE DocInv
  OBVIOUS
<1>1. MaxNumber \in Nat /\ MaxDocs \in Nat /\ MaxFiles \in Nat
  BY LimitAssumption
<1>2. TemplateOK /\ TemplateStands
  <2>1. 1 \in 1 .. MaxNumber + 1
    BY <1>1
  <2>2. template \in [there: BOOLEAN, next: 1 .. MaxNumber + 1, prefix: NumberPrefixes, kind: Kinds, bound: Bounds]
    BY <2>1 DEF DocumentsInit, Bounds
  <2> QED
    BY <2>2 DEF DocumentsInit, TemplateOK, TemplateStands
<1>3. docs \in Seq(DocRow) /\ Len(docs) = 0 /\ DOMAIN docs = {}
  BY EmptySeq, NoDocs DEF DocumentsInit
<1>4. files \in Seq(SUBSET FileVersion) /\ Len(files) = 0
  BY EmptySeq DEF DocumentsInit
<1>5. DocsOK /\ FilesOK /\ Filed
  BY <1>1, <1>3, <1>4 DEF DocumentsInit, DocsOK, FilesOK, Filed
<1>6. ProcsOK /\ \A p \in Procs : Owns(p)
  BY DEF DocumentsInit, ProcsOK, ProcStates, Owns, AtRest, Generating
<1> QED
  BY <1>2, <1>5, <1>6 DEF DocInv

LEMMA DocStep ==
  ASSUME DocInv, [DocumentsNext]_documentsVars
  PROVE  DocInv' /\ DocsStay
<1>1. CASE DocumentsNext
  <2>1. CASE EditOnSite \/ UseWord
    BY <2>1, KindStep
  <2>2. ASSUME NEW p \in Procs,
               Generate(p) \/ EditStart(p) \/ EditSave(p) \/ DeleteStart(p) \/ Delete(p) \/ GiveUp(p)
        PROVE  DocInv' /\ DocsStay
    <3>1. CASE Generate(p)
      BY <3>1, GenerateStartStep, GenerateNewStep, GenerateAgainStep, UploadStep, AttachStep, RecordStep
         DEF Generate
    <3> QED
      BY <2>2, <3>1, EditStartStep, EditSaveStep, DeleteStartStep, DeleteStep, GiveUpStep
  <2> QED
    BY <1>1, <2>1, <2>2 DEF DocumentsNext
<1>2. CASE UNCHANGED documentsVars
  <2>1. DocsStay /\ FilesStay /\ Filed' /\ DocsOK' /\ FilesOK'
    BY <1>2, NothingFiled DEF documentsVars
  <2>2. TemplateOK' /\ TemplateStands' /\ ProcsOK'
    BY <1>2 DEF documentsVars, DocInv, TemplateOK, TemplateStands, ProcsOK
  <2>3. \A p \in Procs : Owns(p)'
    BY <1>2, <2>1, OwnsStays DEF documentsVars, DocInv
  <2> QED
    BY <2>1, <2>2, <2>3 DEF DocInv
<1> QED
  BY <1>1, <1>2

LEMMA DocTypes == DocInv => DocumentsTypeOK
<1> SUFFICES ASSUME DocInv PROVE DocumentsTypeOK
  OBVIOUS
<1>1. \A d \in DOMAIN docs : docs[d].seq \in 1 .. MaxNumber /\ docs[d].number \in Numbers
  BY DocsTyped DEF DocInv, DocRow
<1>2. latest \in [Leads -> 0 .. Len(docs)]
  <2>1. latest \in [Leads -> Nat] /\ Len(docs) \in Nat /\ DOMAIN docs = 1 .. Len(docs)
    BY DocsTyped DEF DocInv, DocsOK
  <2>2. \A l \in Leads : latest[l] \in 0 .. Len(docs)
    BY <2>1 DEF DocInv, DocsOK
  <2> QED
    BY <2>1, <2>2
<1>3. DOMAIN files \subseteq 1 .. MaxFiles
  BY FilesTyped, LimitAssumption DEF DocInv, FilesOK
<1> QED
  BY <1>1, <1>2, <1>3 DEF DocInv, TemplateOK, DocsOK, FilesOK, ProcsOK, DocumentsTypeOK, Bounds

LEMMA DocFiles == DocInv => FilesTab
BY DEF DocInv, Filed, FiledAt, InTab, IsFile, FilesTab

\* The invariant holds in every state the web processes reach.
THEOREM DocumentsInvariance == DocumentsSpec => []DocInv
<1>1. DocInv /\ [DocumentsNext]_documentsVars => DocInv'
  BY DocStep
<1> QED
  BY <1>1, DocInitInv, PTL DEF DocumentsSpec

\* The rows stay what their tables can hold: every document has a number of its template,
\* and the newest document of a lead is a row.
THEOREM DocumentsTyped == DocumentsSpec => []DocumentsTypeOK
BY DocumentsInvariance, DocTypes, PTL

\* However many processes make the same document at once, and wherever one of them dies:
\* the file the row points to is in the tab of its lead, and holds this document alone.
THEOREM FilesAreTrue == DocumentsSpec => []FilesTab
BY DocumentsInvariance, DocFiles, PTL

\* No step of generate, of the form or of the delete takes a document or its number away,
\* or deletes the template under it, however stale the check before it.
THEOREM DocumentsStay == DocumentsSpec => DocumentsKept
<1> DEFINE Kept == \A d \in DOMAIN docs :
                     d \in DOMAIN docs' /\ docs'[d].number = docs[d].number /\ template'.there
<1>1. DocInv /\ [DocumentsNext]_documentsVars => [Kept]_documentsVars
  <2> SUFFICES ASSUME DocInv, [DocumentsNext]_documentsVars PROVE Kept
    OBVIOUS
  <2>1. DocInv' /\ DocsStay
    BY DocStep
  <2>2. ASSUME NEW d \in DOMAIN docs PROVE docs' # <<>>
    BY <2>1, <2>2, NoDocs DEF DocsStay
  <2> QED
    BY <2>1, <2>2 DEF DocsStay, DocInv, TemplateStands
<1> HIDE DEF Kept
<1>2. DocumentsSpec => [][Kept]_documentsVars
  BY <1>1, DocumentsInvariance, PTL DEF DocumentsSpec
<1> QED
  BY <1>2 DEF Kept, DocumentsKept

(***************************************************************************)
(* The text of a document                                                  *)
(***************************************************************************)

\* Filling the runs of a paragraph gives what filling its whole text gives.
ParagraphsFill ==
  \A t \in Texts, v \in Fillings : FlattenSeq(FillParagraph(t, v)) = FillHtml(FlattenSeq(t), v)

\* With that, either kind of template is filled alike.
LEMMA RenderFills ==
  ASSUME ParagraphsFill, TemplateOK, NEW kind, NEW values \in Fillings
  PROVE  Render(kind, values) = FillHtml(FlattenSeq(docx), values)
BY DEF ParagraphsFill, TemplateOK, Render

\* A step that leaves the texts of the rows alone, and gives nobody a text to save.
LEMMA TextStays ==
  ASSUME TextInv, docx' = docx, DocsStay, DOMAIN docs' = DOMAIN docs,
         \A d \in DOMAIN docs : docs'[d].content = docs[d].content /\ docs'[d].values = docs[d].values,
         \A p \in Procs : proc'[p] = proc[p] \/ proc'[p].step # "save"
  PROVE  TextInv'
<1>1. TextIsFilled'
  BY DEF TextInv, TextIsFilled, DocsStay
<1>2. \A p \in Procs : HasText(p)'
  BY DEF TextInv, HasText
<1> QED
  BY <1>1, <1>2 DEF TextInv

LEMMA ProcGoes ==
  ASSUME ProcsOK, NEW p \in Procs, NEW r, proc' = [proc EXCEPT ![p] = r]
  PROVE  \A q \in Procs : proc'[q] = IF q = p THEN r ELSE proc[q]
BY DEF ProcsOK

LEMMA GenerateStartText ==
  ASSUME ParagraphsFill, DocInv, TextInv, NEW p \in Procs, NEW lead \in Leads, NEW format \in Formats,
         GenerateStart(p, lead, format)
  PROVE  TextInv'
<1> DEFINE doc    == latest[lead]
           number == IF doc # 0 THEN docs[doc].number ELSE FormatNumber(template.prefix, template.next)
           filling(name) == Filling(number, template.bound, name)
           made(values) == [step |-> "save", lead |-> lead, format |-> format, doc |-> doc, number |-> number,
                            values |-> values, content |-> Render(template.kind, values),
                            file |-> IF doc # 0 THEN docs[doc].file ELSE NoFile]
<1>1. PICK name \in LeadTexts : proc' = [proc EXCEPT ![p] = made(filling(name))]
  BY DEF GenerateStart, Go
<1> DEFINE values == filling(name)
           r      == made(values)
<1>2. number \in Numbers
  <2>1. doc # 0 => docs[doc] \in DocRow
    BY DocsTyped DEF DocInv, DocsOK
  <2>2. template.prefix \in NumberPrefixes /\ template.next \in 1 .. MaxNumber + 1
    BY DEF DocInv, TemplateOK
  <2> QED
    BY <2>1, <2>2, NextNumber DEF DocRow
<1>3. values \in Fillings /\ values["number"] \in {number} \cup BoundTexts
  <2>1. template.bound \in Bounds
    BY DEF DocInv, TemplateOK
  <2> QED
    BY <1>2, <2>1, FillingTyped
<1>4. r.content = Render(template.kind, values) /\ r.number = number /\ r.values = values
  OBVIOUS
<1>5. proc' = [proc EXCEPT ![p] = r]
  BY <1>1
<1> HIDE DEF number, values, r
<1>6. r.content = FillHtml(FlattenSeq(docx), r.values)
  BY <1>3, <1>4, RenderFills DEF DocInv
<1>7. \A q \in Procs : proc'[q] = IF q = p THEN r ELSE proc[q]
  BY <1>5, ProcGoes DEF DocInv
<1>8. UNCHANGED <<docx, docs>>
  BY DEF GenerateStart
<1>9. \A q \in Procs : HasText(q)'
  BY <1>3, <1>4, <1>6, <1>7, <1>8 DEF TextInv, HasText
<1> QED
  BY <1>8, <1>9 DEF TextInv, TextIsFilled

LEMMA GenerateNewText ==
  ASSUME ParagraphsFill, DocInv, TextInv, NEW p \in Procs, GenerateNew(p)
  PROVE  TextInv'
<1> DEFINE r      == proc[p]
           seq    == template.next
           number == FormatNumber(template.prefix, seq)
           values == Refilled(r.values, number)
           text   == IF number = r.values["number"] THEN r.content ELSE Render(template.kind, values)
           pk     == Len(docs) + 1
           row    == [lead |-> r.lead, seq |-> seq, number |-> number, format |-> r.format,
                      values |-> values, file |-> NoFile, content |-> text]
           next   == [r EXCEPT !.step = "upload", !.doc = pk, !.number = number]
<1>1. docx' = docx /\ r.step = "save" /\ r \in Generating
  BY ProcKind DEF GenerateNew, At, DocInv
<1>2. CASE template.there /\ seq \notin UsedSeqs
  <2>1. docs' = Append(docs, row) /\ Go(p, next)
    BY <1>2 DEF GenerateNew
  <2>2. number \in Numbers
    BY NextNumber DEF DocInv, TemplateOK
  <2>4. row.content = text /\ row.number = number /\ row.values = values
    OBVIOUS
  <2> HIDE DEF number
  <2>6. /\ values \in Fillings /\ values["number"] = number
        /\ number = r.values["number"] => values = r.values
    BY <1>1, <2>2, RefilledTyped DEF Generating
  <2> HIDE DEF values
  <2>3. text = FillHtml(FlattenSeq(docx), values)
    <3>1. r.content = FillHtml(FlattenSeq(docx), r.values)
      BY <1>1 DEF TextInv, HasText
    <3>2. Render(template.kind, values) = FillHtml(FlattenSeq(docx), values)
      BY <2>6, RenderFills DEF DocInv
    <3> QED
      BY <2>6, <3>1, <3>2
  <2>5. next.step # "save"
    BY <1>1 DEF Generating
  <2> HIDE DEF row, next, text
  <2>7. ASSUME NEW d \in DOMAIN docs' PROVE  docs'[d] = row \/ (d \in DOMAIN docs /\ docs'[d] = docs[d])
    <3>1. docs \in Seq(DocRow \cup {row}) /\ DOMAIN docs = 1 .. Len(docs) /\ Len(docs) \in Nat
      BY DocsTyped, SeqMonotonic DEF DocInv, DocsOK
    <3>2. /\ docs' \in Seq(DocRow \cup {row}) /\ Len(docs') = Len(docs) + 1
          /\ \A i \in 1 .. Len(docs) : docs'[i] = docs[i]
          /\ docs'[Len(docs) + 1] = row
      BY <2>1, <3>1, AppendProperties
    <3>3. DOMAIN docs' = 1 .. Len(docs) + 1
      BY <3>1, <3>2, LenProperties
    <3> QED
      BY <2>7, <3>1, <3>2, <3>3
  <2>8. TextIsFilled'
    BY <1>1, <2>3, <2>4, <2>6, <2>7 DEF TextInv, TextIsFilled
  <2>9. \A q \in Procs : proc'[q] = IF q = p THEN next ELSE proc[q]
    BY <2>1, ProcGoes DEF DocInv, Go
  <2>10. \A q \in Procs : HasText(q)'
    BY <1>1, <2>5, <2>9 DEF TextInv, HasText
  <2> QED
    BY <2>8, <2>10 DEF TextInv
<1>3. CASE ~(template.there /\ seq \notin UsedSeqs)
  <2>1. Done(p) /\ docs' = docs
    BY <1>3 DEF GenerateNew
  <2>2. \A q \in Procs : proc'[q] = IF q = p THEN AtRest ELSE proc[q]
    BY <2>1, ProcGoes DEF DocInv, Done, Go
  <2> QED
    BY <1>1, <2>1, <2>2, TextStays DEF AtRest, DocsStay
<1> QED
  BY <1>2, <1>3

LEMMA GenerateAgainText ==
  ASSUME DocInv, TextInv, NEW p \in Procs, GenerateAgain(p)
  PROVE  TextInv'
<1> DEFINE r    == proc[p]
           row  == [docs[r.doc] EXCEPT !.format = r.format, !.content = r.content, !.values = r.values]
           next == [r EXCEPT !.step = "upload"]
<1>1. /\ r \in Generating /\ r.step = "save" /\ r.doc \in DOMAIN docs /\ docs[r.doc] \in DocRow
      /\ docs[r.doc].lead = r.lead /\ docs[r.doc].number = r.number
  BY ProcKind, DocsTyped DEF DocInv, GenerateAgain, At, Owns
<1>2. docs' = [docs EXCEPT ![r.doc] = row] /\ Go(p, next) /\ docx' = docx
  BY DEF GenerateAgain
<1>3. /\ row \in DocRow /\ row.number = r.number /\ row.content = r.content
      /\ row.values = r.values /\ row.lead = docs[r.doc].lead
  BY <1>1 DEF DocRow, Generating
<1>4. next.step # "save"
  BY <1>1 DEF Generating
<1>5. r.content = FillHtml(FlattenSeq(docx), r.values) /\ r.values["number"] \in {r.number} \cup BoundTexts
  BY <1>1 DEF TextInv, HasText
<1> HIDE DEF row, next
<1>6. DOMAIN docs' = DOMAIN docs /\ \A d \in DOMAIN docs : docs'[d] = IF d = r.doc THEN row ELSE docs[d]
  BY <1>1, <1>2, <1>3, DocsSaved
<1>7. TextIsFilled'
  BY <1>2, <1>3, <1>5, <1>6 DEF TextInv, TextIsFilled
<1>8. \A q \in Procs : proc'[q] = IF q = p THEN next ELSE proc[q]
  BY <1>2, ProcGoes DEF DocInv, Go
<1>9. \A q \in Procs : HasText(q)'
  BY <1>2, <1>4, <1>8 DEF TextInv, HasText
<1> QED
  BY <1>7, <1>9 DEF TextInv

LEMMA FileText ==
  ASSUME DocInv, TextInv, NEW p \in Procs, Upload(p) \/ Attach(p) \/ Record(p)
  PROVE  TextInv'
<1>1. proc[p] \in Generating /\ docx' = docx
  BY ProcKind DEF DocInv, Upload, Attach, Record, At
<1>2. \E r : Go(p, r) /\ r.step # "save"
  <2>1. CASE Upload(p)
    <3> DEFINE step(uuid) == IF uuid # proc[p].file.uuid THEN "attach" ELSE "record"
               next(uuid) == [proc[p] EXCEPT !.step = step(uuid),
                                             !.file = [uuid |-> uuid, format |-> proc[p].format]]
    <3>1. \A uuid : next(uuid).step = step(uuid) /\ step(uuid) # "save"
      BY <1>1 DEF Generating
    <3>2. \E uuid : Go(p, next(uuid))
      BY <2>1 DEF Upload
    <3> QED
      BY <3>1, <3>2
  <2>2. CASE Attach(p)
    <3>1. [proc[p] EXCEPT !.step = "record"].step = "record"
      BY <1>1 DEF Generating
    <3> QED
      BY <2>2, <3>1 DEF Attach
  <2>3. CASE Record(p)
    BY <2>3 DEF Record, Done, AtRest
  <2> QED
    BY <2>1, <2>2, <2>3
<1>3. \A q \in Procs : proc'[q] = proc[q] \/ proc'[q].step # "save"
  BY <1>2, ProcGoes DEF DocInv, Go
<1>4. /\ DocsStay /\ DOMAIN docs' = DOMAIN docs
      /\ \A d \in DOMAIN docs : docs'[d].content = docs[d].content /\ docs'[d].values = docs[d].values
  <2>1. CASE Upload(p) \/ Attach(p)
    BY <2>1 DEF Upload, Attach, DocsStay
  <2>2. CASE Record(p)
    <3> DEFINE doc == proc[p].doc
               row == [docs[doc] EXCEPT !.file = proc[p].file]
    <3>1. doc \in DOMAIN docs /\ docs[doc] \in DocRow
      BY <1>1, <2>2, ProcKind, DocsTyped DEF DocInv, Record, At, Owns
    <3>2. docs' = [docs EXCEPT ![doc] = row]
      BY <2>2 DEF Record
    <3>3. /\ row \in DocRow /\ row.lead = docs[doc].lead /\ row.number = docs[doc].number
          /\ row.content = docs[doc].content /\ row.values = docs[doc].values
      BY <1>1, <3>1 DEF DocRow, Generating
    <3> HIDE DEF row, doc
    <3> QED
      BY <3>1, <3>2, <3>3, DocsSaved
  <2> QED
    BY <2>1, <2>2
<1> QED
  BY <1>1, <1>3, <1>4, TextStays

LEMMA FormText ==
  ASSUME DocInv, TextInv, NEW p \in Procs,
         EditStart(p) \/ EditSave(p) \/ DeleteStart(p) \/ Delete(p) \/ GiveUp(p)
  PROVE  TextInv'
<1>1. UNCHANGED <<docx, docs>>
  BY DEF EditStart, EditSave, DeleteStart, Delete, GiveUp
<1>2. \E r : Go(p, r) /\ r.step # "save"
  <2>1. CASE EditStart(p)
    <3>1. PICK prefix, kind, next, bound :
            Go(p, [step |-> "edit", next |-> next, prefix |-> prefix, kind |-> kind, bound |-> bound])
      BY <2>1 DEF EditStart
    <3> QED
      BY <3>1
  <2>2. CASE DeleteStart(p)
    <3>1. Go(p, Deleting) /\ Deleting.step # "save"
      BY <2>2 DEF DeleteStart, Deleting
    <3> QED
      BY <3>1
  <2>3. CASE EditSave(p) \/ Delete(p) \/ GiveUp(p)
    <3>1. Go(p, AtRest) /\ AtRest.step # "save"
      BY <2>3 DEF EditSave, Delete, GiveUp, Done, AtRest
    <3> QED
      BY <3>1
  <2> QED
    BY <2>1, <2>2, <2>3
<1>3. \A q \in Procs : proc'[q] = proc[q] \/ proc'[q].step # "save"
  BY <1>2, ProcGoes DEF DocInv, Go
<1> QED
  BY <1>1, <1>3, TextStays DEF DocsStay

LEMMA TextStep ==
  ASSUME ParagraphsFill, DocInv, TextInv, [DocumentsNext]_documentsVars
  PROVE  TextInv'
<1>1. CASE EditOnSite \/ UseWord \/ UNCHANGED documentsVars
  BY <1>1, TextStays DEF EditOnSite, UseWord, documentsVars, DocsStay
<1>2. ASSUME NEW p \in Procs,
             Generate(p) \/ EditStart(p) \/ EditSave(p) \/ DeleteStart(p) \/ Delete(p) \/ GiveUp(p)
      PROVE  TextInv'
  <2>1. CASE Generate(p)
    BY <2>1, GenerateStartText, GenerateNewText, GenerateAgainText, FileText DEF Generate
  <2> QED
    BY <1>2, <2>1, FormText
<1> QED
  BY <1>1, <1>2 DEF DocumentsNext

\* The text of a document is its template with the values of its row, and its own number
\* or what the template binds to it, also when the number was taken by another one between
\* the rendering and the lock.  What filling the runs of one paragraph does is a fold over
\* data and the hypothesis; the model checker evaluates it.
THEOREM TextsAreFilled ==
  ASSUME ParagraphsFill
  PROVE  DocumentsSpec => []TextIsFilled
<1>1. DocumentsInit => TextInv
  BY NoDocs DEF DocumentsInit, TextInv, TextIsFilled, HasText, AtRest
<1>2. DocInv /\ TextInv /\ [DocumentsNext]_documentsVars => TextInv'
  BY TextStep
<1>3. TextInv => TextIsFilled
  BY DEF TextInv
<1> QED
  BY <1>1, <1>2, <1>3, DocumentsInvariance, PTL DEF DocumentsSpec

(***************************************************************************)
(* Documents: the bindings of a template                                   *)
(***************************************************************************)
Values == INSTANCE DocumentValues

LEMMA CleanIsClean ==
  ASSUME NEW b, NEW has, Values!GoodBinding(b, has)
  PROVE  LET clean == Values!CleanBinding(b)
         IN  Values!GoodBinding(clean, has) /\ Values!CleanBinding(clean) = clean
<1>1. b.type \in {"amo", "builtin", "date", "text", "number"}
  BY DEF Values!GoodBinding
<1>2. CASE b.type = "amo"
  BY <1>2 DEF Values!GoodBinding, Values!CleanBinding
<1>3. CASE b.type = "builtin"
  BY <1>3 DEF Values!GoodBinding, Values!CleanBinding
<1>4. CASE b.type = "date"
  <2> DEFINE style == IF b.style \in Values!DateStyles THEN b.style ELSE "short"
  <2>1. style \in Values!DateStyles
    BY DEF Values!DateStyles
  <2> HIDE DEF style
  <2>2. Values!CleanBinding(b) = [type |-> "date", offset_days |-> b.offset_days, style |-> style]
    BY <1>4 DEF Values!CleanBinding, style
  <2>3. b.offset_days \in -3650 .. 3650
    BY <1>4 DEF Values!GoodBinding
  <2> DEFINE c == [type |-> "date", offset_days |-> b.offset_days, style |-> style]
  <2>4. c.type = "date" /\ c.offset_days = b.offset_days /\ c.style = style
    OBVIOUS
  <2> HIDE DEF c
  <2>5. Values!GoodBinding(c, has)
    BY <2>3, <2>4 DEF Values!GoodBinding
  <2>6. Values!CleanBinding(c) = [type |-> "date", offset_days |-> b.offset_days, style |-> style]
    BY <2>1, <2>4 DEF Values!CleanBinding
  <2> QED
    BY <2>2, <2>5, <2>6 DEF c
<1>5. CASE b.type = "text"
  BY <1>5 DEF Values!GoodBinding, Values!CleanBinding
<1>6. CASE b.type = "number"
  BY <1>6 DEF Values!GoodBinding, Values!CleanBinding
<1> QED
  BY <1>1, <1>2, <1>3, <1>4, <1>5, <1>6

\* Bindings that were accepted name only what there is, and are accepted again as they
\* are: a template can be saved as it was read.
THEOREM BindingsStay ==
  ASSUME NEW raw, NEW has, Values!CleanBindings(raw, has) # Values!Refused
  PROVE  LET clean == Values!CleanBindings(raw, has)
         IN  /\ DOMAIN clean = DOMAIN raw /\ DOMAIN raw \subseteq has.keys
             /\ \A k \in DOMAIN raw : Values!GoodBinding(clean[k], has)
             /\ Values!CleanBindings(clean, has) = clean
<1> DEFINE clean == [k \in DOMAIN raw |-> Values!CleanBinding(raw[k])]
<1>1. /\ \A k \in DOMAIN raw : k \in has.keys /\ Values!GoodBinding(raw[k], has)
      /\ Values!CleanBindings(raw, has) = clean
  BY DEF Values!CleanBindings
<1>2. \A k \in DOMAIN raw : Values!GoodBinding(clean[k], has) /\ Values!CleanBinding(clean[k]) = clean[k]
  BY <1>1, CleanIsClean
<1>3. Values!CleanBindings(clean, has) = [k \in DOMAIN clean |-> Values!CleanBinding(clean[k])]
  BY <1>1, <1>2 DEF Values!CleanBindings
<1> QED
  BY <1>1, <1>2, <1>3
=================================================================================
