-------------------------------- MODULE Celery --------------------------------
(***************************************************************************)
(* The Celery workers and their queue, as config/settings.py and           *)
(* deploy/uzbridge-worker.service set them up: a worker with a pool of     *)
(* child processes, and CELERY_TASK_ACKS_LATE, which keeps a message in    *)
(* the queue until its task ends.  It is run again when the whole worker   *)
(* stopped or is slow, also while the first run goes on.  When only the    *)
(* child that runs it is killed, the worker acknowledges the message: with *)
(* no CELERY_TASK_REJECT_ON_WORKER_LOST it is not run again.  self.retry   *)
(* puts a new message into the queue.                                      *)
(***************************************************************************)
EXTENDS Naturals, FiniteSets

CONSTANTS
  Workers,      \* pool processes
  MaxRetries,   \* max_retries of the tasks (bound: 3 and 5 in the code)
  MaxDeaths     \* how many of them die (bound)

ASSUME BoundAssumption == MaxRetries \in Nat /\ MaxDeaths \in Nat

VARIABLES
  queue,        \* messages not yet acknowledged
  worker,       \* what each pool process is doing
  deaths,
  dropped       \* history: messages acknowledged because their process was killed

celery == <<queue, worker, deaths, dropped>>

Idle == [task |-> "idle"]

CeleryInit ==
  /\ queue = {}
  /\ worker = [w \in Workers |-> Idle]
  /\ deaths = 0
  /\ dropped = {}

Message(task, what) == [task |-> task, what |-> what, tries |-> 0]

Busy(w, task, step) == worker[w] # Idle /\ worker[w].task = task /\ worker[w].step = step

Run(w, step) == worker' = [worker EXCEPT ![w].step = step]

\* Variant: a message is acknowledged when its task begins.
TakeEarly(w, m) ==
  /\ worker' = [worker EXCEPT ![w] =
       [task |-> m.task, what |-> m.what, tries |-> m.tries, step |-> "call", id |-> 0]]
  /\ queue' = queue \ {m}

Take(w, m) ==
  /\ worker' = [worker EXCEPT ![w] =
       [task |-> m.task, what |-> m.what, tries |-> m.tries, step |-> "call", id |-> 0]]
  /\ UNCHANGED queue

Skip(m) ==
  /\ queue' = queue \ {m}
  /\ UNCHANGED worker

Held(w) == [task |-> worker[w].task, what |-> worker[w].what, tries |-> worker[w].tries]

Ack(w, more) ==
  /\ worker' = [worker EXCEPT ![w] = Idle]
  /\ queue' = (queue \ {Held(w)}) \cup more

Retry(w) ==
  Ack(w, IF worker[w].tries < MaxRetries THEN {[Held(w) EXCEPT !.tries = @ + 1]} ELSE {})

Die ==
  /\ deaths < MaxDeaths
  /\ deaths' = deaths + 1
  /\ \E w \in Workers :
       /\ worker[w] # Idle
       /\ worker' = [worker EXCEPT ![w] = Idle]
       /\ \/ UNCHANGED <<queue, dropped>>            \* with the whole worker
          \/ /\ queue' = queue \ {Held(w)}          \* killed, the worker goes on
             /\ dropped' = dropped \cup {Held(w)}
===============================================================================
