---------------------------- MODULE RealtyProofs ----------------------------
(* Theorems of Realty, for any number of units, deals and tasks.            *)
EXTENDS Realty, TLAPS

UnitTypes ==
  /\ status \in [Units -> Statuses]
  /\ deal \in [Units -> Deals \cup {NoDeal}]
  /\ until \in [Units -> {"none", "later", "past"}]

IInv == TypeOK /\ LooseUnits

\* set_status keeps units loose, given the deals that hold them when it starts.
LEMMA SetStatusLemma ==
  ASSUME UnitTypes, LooseUnits, NEW us \in SUBSET Units, NEW s \in Statuses,
         NEW held \in [Units -> Deals \cup {NoDeal}],
         \A u \in Units : u \notin us \/ status[u] = s =>
            (status[u] \in {"free", "closed"} => held[u] = NoDeal),
         SetStatus(us, s, held)
  PROVE  UnitTypes' /\ LooseUnits'
<1> DEFINE moved == {u \in us : status[u] # s}
<1>1. status' = [u \in Units |-> IF u \in moved THEN s ELSE status[u]]
  BY DEF SetStatus
<1>2. deal' = [u \in Units |-> IF u \in moved /\ s \in {"free", "closed"} THEN NoDeal ELSE held[u]]
  BY DEF SetStatus
<1>3. until' = [u \in Units |->
                  IF u \notin moved THEN until[u]
                  ELSE IF s \in {"free", "closed", "sold"} THEN "none"
                  ELSE IF s = "reserved" /\ timed THEN "later"
                  ELSE until[u]]
  BY DEF SetStatus
<1>4. \A u \in Units : u \notin moved => u \notin us \/ status[u] = s
  OBVIOUS
<1> HIDE DEF moved
<1>5. UnitTypes'
  BY <1>1, <1>2, <1>3 DEF UnitTypes
<1>6. ASSUME NEW u \in Units, status'[u] \in {"free", "closed"}
      PROVE  deal'[u] = NoDeal /\ until'[u] = "none"
  <2>1. CASE u \in moved
    BY <1>1, <1>2, <1>3, <1>6, <2>1
  <2>2. CASE u \notin moved
    BY <1>1, <1>2, <1>3, <1>4, <1>6, <2>2 DEF LooseUnits
  <2> QED
    BY <2>1, <2>2
<1> QED
  BY <1>5, <1>6 DEF LooseUnits

\* One unit that nobody holds more than before.
LEMMA SetOneLemma ==
  ASSUME UnitTypes, LooseUnits, NEW u \in Units, NEW s \in Statuses, SetStatus({u}, s, deal)
  PROVE  UnitTypes' /\ LooseUnits'
<1>1. {u} \in SUBSET Units /\ deal \in [Units -> Deals \cup {NoDeal}]
  BY DEF UnitTypes
<1>2. \A v \in Units : status[v] \in {"free", "closed"} => deal[v] = NoDeal
  BY DEF LooseUnits
<1> QED
  BY <1>1, <1>2, SetStatusLemma

\* A step that leaves the units alone.
LEMMA SameUnits ==
  ASSUME UnitTypes, LooseUnits, UNCHANGED <<status, deal, until>>
  PROVE  UnitTypes' /\ LooseUnits'
BY DEF UnitTypes, LooseUnits

\* The name of a job says which one it is.
LEMMA JobKinds ==
  ASSUME NEW j \in Jobs
  PROVE  /\ j.op = "moved" => j \in [op : {"moved"}, deal : Deals, seen : Stages]
         /\ j.op = "expire" => j \in [op : {"expire"}, units : SUBSET Units]
         /\ j.op = "sync" => j \in [op : {"sync"}, seen : [Units -> Cells]]
         /\ j.op = "write" => j \in [op : {"write"}, words : [Units -> Statuses \cup {""}]]
<1>1. CASE j = Idle
  BY <1>1 DEF Idle
<1>2. CASE j \in [op : {"moved"}, deal : Deals, seen : Stages]
  BY <1>2
<1>3. CASE j \in [op : {"expire"}, units : SUBSET Units]
  BY <1>3
<1>4. CASE j \in [op : {"sync"}, seen : [Units -> Cells]]
  BY <1>4
<1>5. CASE j \in [op : {"write"}, words : [Units -> Statuses \cup {""}]]
  BY <1>5
<1> QED
  BY <1>1, <1>2, <1>3, <1>4, <1>5 DEF Jobs

-----------------------------------------------------------------------------
LEMMA AttachStep ==
  ASSUME UnitTypes, LooseUnits, NEW u \in Units, NEW d \in Deals, Attach(u, d)
  PROVE  UnitTypes' /\ LooseUnits'
<1> DEFINE held == [deal EXCEPT ![u] = d]
<1>1. held \in [Units -> Deals \cup {NoDeal}]
  BY DEF UnitTypes
<1>2. \A v \in Units : v # u => held[v] = deal[v]
  BY DEF UnitTypes
<1>3. CASE status[u] = "free"
  <2>1. SetStatus({u}, "interest", held)
    BY <1>3 DEF Attach
  <2>2. \A v \in Units : v \notin {u} \/ status[v] = "interest" =>
          (status[v] \in {"free", "closed"} => held[v] = NoDeal)
    BY <1>2, <1>3 DEF LooseUnits
  <2>3. {u} \in SUBSET Units /\ "interest" \in Statuses
    BY DEF Statuses
  <2> HIDE DEF held
  <2> QED
    BY <1>1, <2>1, <2>2, <2>3, SetStatusLemma
<1>4. CASE status[u] # "free"
  <2>1. deal' = held /\ UNCHANGED <<status, until>>
    BY <1>4 DEF Attach
  <2>2. status[u] \notin {"free", "closed"}
    <3>1. status[u] = "closed" => deal[u] = NoDeal /\ deal[u] = d
      BY DEF Attach, LooseUnits
    <3> QED
      BY <1>4, <3>1, DealsAssumption
  <2> HIDE DEF held
  <2> QED
    BY <1>1, <1>2, <2>1, <2>2 DEF UnitTypes, LooseUnits
<1> QED
  BY <1>3, <1>4

LEMMA OnStageStep ==
  ASSUME TypeOK, LooseUnits, NEW w \in Workers, OnStage(w)
  PROVE  UnitTypes' /\ LooseUnits'
<1> DEFINE target == TargetOf[job[w].seen]
           held   == {u \in Units : deal[u] = job[w].deal}
<1>1. UnitTypes
  BY DEF TypeOK, UnitTypes
<1>2. job[w] \in [op : {"moved"}, deal : Deals, seen : Stages]
  BY JobKinds DEF TypeOK, OnStage
<1>3. target \in Statuses \cup {""}
  BY <1>2, StagesAssumption
<1>4. CASE target = ""
  BY <1>1, <1>4, SameUnits DEF OnStage
<1>5. CASE target # ""
  <2>1. SetStatus(held, target, deal)
    BY <1>5 DEF OnStage
  <2>2. held \in SUBSET Units /\ target \in Statuses
    BY <1>3, <1>5
  <2>3. deal \in [Units -> Deals \cup {NoDeal}]
    BY <1>1 DEF UnitTypes
  <2>4. \A u \in Units : status[u] \in {"free", "closed"} => deal[u] = NoDeal
    BY DEF LooseUnits
  <2> HIDE DEF held, target
  <2> QED
    BY <1>1, <2>1, <2>2, <2>3, <2>4, SetStatusLemma
<1> QED
  BY <1>4, <1>5

LEMMA SyncStep ==
  ASSUME TypeOK, LooseUnits, NEW w \in Workers, Sync(w)
  PROVE  TypeOK' /\ LooseUnits'
<1> DEFINE seen  == job[w].seen
           typed == {u \in Units : TypedIn(u, seen)}
           ours  == [u \in Units |-> IF u \in typed THEN seen[u] ELSE status[u]]
           freed == {u \in typed : seen[u] \in {"free", "closed"}}
           words == [u \in Units |-> IF seen[u] \in {"norow", ours[u]} THEN "" ELSE ours[u]]
<1>1. job[w] \in [op : {"sync"}, seen : [Units -> Cells]]
  BY JobKinds DEF TypeOK, Sync
<1>2. \A u \in typed : seen[u] \in Statuses
  BY DEF TypedIn
<1>3. ours \in [Units -> Statuses]
  BY <1>2 DEF TypeOK
<1>4. words \in [Units -> Statuses \cup {""}]
  BY <1>3
<1>5. /\ status' = ours
      /\ deal' = [u \in Units |-> IF u \in freed THEN NoDeal ELSE deal[u]]
      /\ until' = [u \in Units |-> IF u \in freed THEN "none" ELSE until[u]]
      /\ sent' = [u \in Units |-> IF seen[u] = "norow" THEN sent[u] ELSE ours[u]]
      /\ archived' = [u \in Units |-> seen[u] = "norow"]
  BY DEF Sync
<1>6. job' \in [Workers -> Jobs]
  <2>1. job' = [job EXCEPT ![w] = Idle] \/ job' = [job EXCEPT ![w] = [op |-> "write", words |-> words]]
    BY DEF Sync, Finish, Continue
  <2>2. Idle \in Jobs /\ [op |-> "write", words |-> words] \in Jobs
    BY <1>4 DEF Jobs
  <2> HIDE DEF words
  <2> QED
    BY <2>1, <2>2 DEF TypeOK
<1>7. TypeOK'
  <2>1. status' \in [Units -> Statuses] /\ sent' \in [Units -> Statuses]
    BY <1>3, <1>5 DEF TypeOK
  <2>2. /\ deal' \in [Units -> Deals \cup {NoDeal}]
        /\ until' \in [Units -> {"none", "later", "past"}]
        /\ archived' \in [Units -> BOOLEAN]
    BY <1>5 DEF TypeOK
  <2>3. UNCHANGED <<timed, stage, cell>>
    BY DEF Sync
  <2> QED
    BY <1>6, <2>1, <2>2, <2>3 DEF TypeOK
<1>8. ASSUME NEW u \in Units, status'[u] \in {"free", "closed"}
      PROVE  deal'[u] = NoDeal /\ until'[u] = "none"
  <2>1. CASE u \in typed
    BY <1>5, <1>8, <2>1
  <2>2. CASE u \notin typed
    <3>1. status'[u] = status[u] /\ u \notin freed
      BY <1>5, <2>2
    <3> QED
      BY <1>5, <1>8, <3>1 DEF LooseUnits
  <2> QED
    BY <2>1, <2>2
<1> QED
  BY <1>7, <1>8 DEF LooseUnits

-----------------------------------------------------------------------------
LEMMA InitIInv == Init => IInv
<1> SUFFICES ASSUME Init PROVE IInv
  OBVIOUS
<1>1. "free" \in Statuses /\ "free" \in Cells /\ Idle \in Jobs
  BY DEF Statuses, Cells, Jobs
<1>2. TypeOK
  BY <1>1 DEF Init, TypeOK
<1>3. LooseUnits
  BY DEF Init, LooseUnits
<1> QED
  BY <1>2, <1>3 DEF IInv

\* What a job that starts, goes on or ends leaves in job.
LEMMA JobTypes ==
  ASSUME TypeOK
  PROVE  /\ \A w \in Workers : Finish(w) => job' \in [Workers -> Jobs]
         /\ \A w \in Workers : \A j \in Jobs : Start(w, j) => job' \in [Workers -> Jobs]
         /\ \A w \in Workers : \A j \in Jobs : Continue(w, j) => job' \in [Workers -> Jobs]
<1>1. Idle \in Jobs
  BY DEF Jobs
<1> QED
  BY <1>1 DEF TypeOK, Finish, Start, Continue

LEMMA Step == IInv /\ [Next]_vars => IInv'
<1> SUFFICES ASSUME IInv, [Next]_vars PROVE IInv'
  OBVIOUS
<1>1. TypeOK /\ LooseUnits /\ UnitTypes
  BY DEF IInv, TypeOK, UnitTypes
<1>2. ASSUME UnitTypes', LooseUnits', UNCHANGED <<sent, archived, timed, stage, cell, job>>
      PROVE  IInv'
  BY <1>1, <1>2 DEF IInv, TypeOK, UnitTypes
<1>3. ASSUME UnitTypes', LooseUnits', job' \in [Workers -> Jobs],
             UNCHANGED <<sent, archived, timed, stage, cell>>
      PROVE  IInv'
  BY <1>1, <1>3 DEF IInv, TypeOK, UnitTypes
<1>4. ASSUME job' \in [Workers -> Jobs], UNCHANGED <<unitVars, timed, stage, cell>>
      PROVE  IInv'
  BY <1>1, <1>4 DEF IInv, TypeOK, LooseUnits, unitVars
<1>5. ASSUME NEW u \in Units, NEW d \in Deals, Attach(u, d)
      PROVE  IInv'
  <2>1. UNCHANGED <<sent, archived, timed, stage, cell, job>>
    BY <1>5 DEF Attach
  <2> QED
    BY <1>1, <1>2, <1>5, <2>1, AttachStep
<1>6. ASSUME NEW u \in Units, NEW d \in Deals, Detach(u, d)
      PROVE  IInv'
  <2>1. SetStatus({u}, "free", deal) /\ UNCHANGED <<sent, archived, timed, stage, cell, job>>
    BY <1>6 DEF Detach
  <2>2. "free" \in Statuses
    BY DEF Statuses
  <2> QED
    BY <1>1, <1>2, <2>1, <2>2, SetOneLemma
<1>7. ASSUME NEW u \in Units, NEW s \in Statuses, SaveUnit(u, s)
      PROVE  IInv'
  <2>1. SetStatus({u}, s, deal) /\ UNCHANGED <<sent, archived, timed, stage, cell, job>>
    BY <1>7 DEF SaveUnit
  <2> QED
    BY <1>1, <1>2, <2>1, SetOneLemma
<1>8. CASE SaveProject
  BY <1>1, <1>8 DEF SaveProject, IInv, TypeOK, LooseUnits, unitVars
<1>9. ASSUME NEW w \in Workers, NEW d \in Deals, LeadMoved(w, d)
      PROVE  IInv'
  <2>1. [op |-> "moved", deal |-> d, seen |-> stage[d]] \in Jobs
    BY <1>1 DEF TypeOK, Jobs
  <2> QED
    BY <1>1, <1>4, <1>9, <2>1, JobTypes DEF LeadMoved
<1>10. ASSUME NEW w \in Workers, OnStage(w)
       PROVE  IInv'
  <2>1. Finish(w) /\ UNCHANGED <<sent, archived, timed, stage, cell>>
    BY <1>10 DEF OnStage
  <2> QED
    BY <1>1, <1>3, <1>10, <2>1, OnStageStep, JobTypes
<1>11. ASSUME NEW w \in Workers, ListDue(w)
       PROVE  IInv'
  <2>1. [op |-> "expire", units |-> {u \in Units : DueNow(u)}] \in Jobs
    BY DEF Jobs
  <2> QED
    BY <1>1, <1>4, <1>11, <2>1, JobTypes DEF ListDue
<1>12. ASSUME NEW w \in Workers, NEW u \in Units, Expire(w, u)
       PROVE  IInv'
  <2>1. job[w] \in [op : {"expire"}, units : SUBSET Units]
    BY <1>1, <1>12, JobKinds DEF TypeOK, Expire
  <2>2. [job[w] EXCEPT !.units = @ \ {u}] \in Jobs
    BY <2>1 DEF Jobs
  <2>3. job' \in [Workers -> Jobs] /\ UNCHANGED <<sent, archived, timed, stage, cell>>
    BY <1>1, <1>12, <2>2, JobTypes DEF Expire
  <2>4. SetStatus({u}, "free", deal) \/ UNCHANGED <<status, deal, until>>
    BY <1>12 DEF Expire
  <2>5. "free" \in Statuses
    BY DEF Statuses
  <2> QED
    BY <1>1, <1>3, <2>3, <2>4, <2>5, SetOneLemma, SameUnits
<1>13. ASSUME NEW w \in Workers, ExpireDone(w) \/ Abort(w)
       PROVE  IInv'
  BY <1>1, <1>4, <1>13, JobTypes DEF ExpireDone, Abort
<1>14. ASSUME NEW w \in Workers, ReadSheet(w)
       PROVE  IInv'
  <2>1. [op |-> "sync", seen |-> cell] \in Jobs
    BY <1>1 DEF TypeOK, Jobs
  <2> QED
    BY <1>1, <1>4, <1>14, <2>1, JobTypes DEF ReadSheet
<1>15. ASSUME NEW w \in Workers, Sync(w)
       PROVE  IInv'
  BY <1>1, <1>15, SyncStep DEF IInv
<1>16. ASSUME NEW w \in Workers, WriteBack(w)
       PROVE  IInv'
  <2>1. job[w] \in [op : {"write"}, words : [Units -> Statuses \cup {""}]]
    BY <1>1, <1>16, JobKinds DEF TypeOK, WriteBack
  <2>2. cell' \in [Units -> Cells]
    BY <1>1, <1>16, <2>1 DEF TypeOK, WriteBack, Cells
  <2>3. job' \in [Workers -> Jobs]
    BY <1>1, <1>16, JobTypes DEF WriteBack
  <2> QED
    BY <1>1, <1>16, <2>2, <2>3 DEF WriteBack, IInv, TypeOK, LooseUnits, unitVars
<1>17. ASSUME NEW u \in Units, NEW s \in Words, EditCell(u, s)
       PROVE  IInv'
  BY <1>1, <1>17, WordsAssumption DEF EditCell, IInv, TypeOK, LooseUnits, unitVars
<1>18. ASSUME NEW d \in Deals, NEW s \in Stages, MoveDeal(d, s)
       PROVE  IInv'
  BY <1>1, <1>18 DEF MoveDeal, IInv, TypeOK, LooseUnits, unitVars
<1>19. ASSUME NEW u \in Units, Pass(u)
       PROVE  IInv'
  <2>1. /\ until[u] = "later" /\ until' = [until EXCEPT ![u] = "past"]
        /\ UNCHANGED <<status, deal, sent, archived, timed, stage, cell, job>>
    BY <1>19 DEF Pass
  <2>2. UnitTypes'
    BY <1>1, <2>1 DEF UnitTypes
  <2>3. LooseUnits'
    BY <1>1, <2>1 DEF UnitTypes, LooseUnits
  <2> QED
    BY <1>2, <2>1, <2>2, <2>3
<1>20. CASE UNCHANGED vars
  BY <1>1, <1>20 DEF IInv, TypeOK, LooseUnits, vars, unitVars
<1>21. CASE Next
  <2>1. CASE Requests
    BY <2>1, <1>5, <1>6, <1>7, <1>8 DEF Requests
  <2>2. CASE Tasks
    BY <2>2, <1>9, <1>10, <1>11, <1>12, <1>13 DEF Tasks
  <2>3. CASE Pulls
    BY <2>3, <1>14, <1>15, <1>16 DEF Pulls
  <2>4. CASE Environment
    BY <2>4, <1>13, <1>17, <1>18, <1>19 DEF Environment
  <2> QED
    BY <1>21, <2>1, <2>2, <2>3, <2>4 DEF Next
<1> QED
  BY <1>20, <1>21

\* The inductive invariant holds in every reachable state.
THEOREM Invariance == Spec => []IInv
<1> QED
  BY InitIInv, Step, PTL DEF Spec

\* Every state is well typed.
THEOREM TypeCorrect == Spec => []TypeOK
<1>1. IInv => TypeOK
  BY DEF IInv
<1> QED
  BY <1>1, Invariance, PTL

\* A free unit or one that is not for sale belongs to no deal and has no booking
\* left to expire, whatever tasks were half-way when it was let go.
THEOREM Loose == Spec => []LooseUnits
<1>1. IInv => LooseUnits
  BY DEF IInv
<1> QED
  BY <1>1, Invariance, PTL

-----------------------------------------------------------------------------
\* set_status gives no unit to another deal than it is told.
LEMMA SetStatusHolds ==
  ASSUME NEW us, NEW s, NEW held, SetStatus(us, s, held), NEW u \in Units
  PROVE  deal'[u] \in {held[u], NoDeal}
BY DEF SetStatus

LEMMA HeldStep ==
  ASSUME TypeOK, Next, NEW u \in Units, deal[u] # NoDeal
  PROVE  deal'[u] \in {deal[u], NoDeal}
<1>1. ASSUME NEW v \in Units, NEW d \in Deals, Attach(v, d)
      PROVE  deal'[u] \in {deal[u], NoDeal}
  <2> DEFINE held == [deal EXCEPT ![v] = d]
  <2>1. held[u] = deal[u]
    BY <1>1 DEF Attach, TypeOK
  <2>2. SetStatus({v}, "interest", held) \/ deal' = held
    BY <1>1 DEF Attach
  <2> HIDE DEF held
  <2> QED
    BY <2>1, <2>2, SetStatusHolds
<1>2. ASSUME NEW v \in Units, NEW d \in Deals, Detach(v, d)
      PROVE  deal'[u] \in {deal[u], NoDeal}
  BY <1>2, SetStatusHolds DEF Detach
<1>3. ASSUME NEW v \in Units, NEW s \in Statuses, SaveUnit(v, s)
      PROVE  deal'[u] \in {deal[u], NoDeal}
  BY <1>3, SetStatusHolds DEF SaveUnit
<1>4. ASSUME NEW w \in Workers, OnStage(w)
      PROVE  deal'[u] \in {deal[u], NoDeal}
  <2>1. UNCHANGED deal \/ \E us, s : SetStatus(us, s, deal)
    BY <1>4 DEF OnStage
  <2> QED
    BY <2>1, SetStatusHolds
<1>5. ASSUME NEW w \in Workers, NEW v \in Units, Expire(w, v)
      PROVE  deal'[u] \in {deal[u], NoDeal}
  <2>1. UNCHANGED deal \/ SetStatus({v}, "free", deal)
    BY <1>5 DEF Expire
  <2> QED
    BY <2>1, SetStatusHolds
<1>6. ASSUME NEW w \in Workers, Sync(w)
      PROVE  deal'[u] \in {deal[u], NoDeal}
  BY <1>6 DEF Sync
<1>7. CASE SaveProject
  BY <1>7 DEF SaveProject, unitVars
<1>8. ASSUME NEW w \in Workers, ListDue(w) \/ ExpireDone(w) \/ ReadSheet(w) \/ WriteBack(w) \/ Abort(w)
      PROVE  deal'[u] \in {deal[u], NoDeal}
  BY <1>8 DEF ListDue, ExpireDone, ReadSheet, WriteBack, Abort, unitVars
<1>9. ASSUME NEW w \in Workers, NEW d \in Deals, LeadMoved(w, d)
      PROVE  deal'[u] \in {deal[u], NoDeal}
  BY <1>9 DEF LeadMoved, unitVars
<1>10. CASE Environment
  BY <1>8, <1>10 DEF Environment, EditCell, MoveDeal, Pass, unitVars
<1>11. CASE Requests
  BY <1>1, <1>2, <1>3, <1>7, <1>11 DEF Requests
<1>12. CASE Tasks
  BY <1>4, <1>5, <1>8, <1>9, <1>12 DEF Tasks
<1>13. CASE Pulls
  BY <1>6, <1>8, <1>13 DEF Pulls
<1> QED
  BY <1>10, <1>11, <1>12, <1>13 DEF Next

\* No step takes a unit from one deal and gives it to another.
THEOREM Exclusive == Spec => NoTakeOver
<1>1. TypeOK /\ [Next]_vars
        => [\A u \in Units : deal[u] # NoDeal => deal'[u] \in {deal[u], NoDeal}]_vars
  BY HeldStep
<1> QED
  BY <1>1, TypeCorrect, PTL DEF Spec, NoTakeOver

-----------------------------------------------------------------------------
\* What BookingHeld says of a step.
LetGo(u) ==
  \/ Detach(u, deal[u])
  \/ SaveUnit(u, "closed")
  \/ \E w \in Workers :
       /\ job'[w] # job[w]
       /\ \/ /\ job[w].op = "moved" /\ job[w].deal = deal[u]
             /\ TargetOf[job[w].seen] = status'[u]
          \/ /\ job[w].op = "sync" /\ TypedIn(u, job[w].seen)
             /\ job[w].seen[u] = status'[u]

\* set_status takes a deal only from units it is given, and only when told to free
\* them or to take them off sale.
LEMMA SetStatusFrees ==
  ASSUME NEW us, NEW s, NEW held, SetStatus(us, s, held), NEW u \in Units,
         held[u] # NoDeal, deal'[u] = NoDeal
  PROVE  u \in us /\ s \in {"free", "closed"} /\ status'[u] = s
BY DEF SetStatus

LEMMA FreedStep ==
  ASSUME TypeOK, Next, NEW u \in Units,
         status[u] = "reserved", deal[u] # NoDeal, until[u] # "past", deal'[u] = NoDeal
  PROVE  LetGo(u)
<1>1. ASSUME NEW v \in Units, NEW d \in Deals, Attach(v, d)
      PROVE  FALSE
  <2> DEFINE held == [deal EXCEPT ![v] = d]
  <2>1. held[u] # NoDeal
    BY DealsAssumption DEF TypeOK
  <2>2. deal' = held \/ SetStatus({v}, "interest", held)
    BY <1>1 DEF Attach
  <2> HIDE DEF held
  <2> QED
    BY <2>1, <2>2, SetStatusFrees
<1>2. ASSUME NEW v \in Units, NEW d \in Deals, Detach(v, d)
      PROVE  LetGo(u)
  <2>1. u = v
    BY <1>2, SetStatusFrees DEF Detach
  <2>2. d = deal[u]
    BY <1>2, <2>1 DEF Detach
  <2> QED
    BY <1>2, <2>1, <2>2 DEF LetGo
\* The site does not free a unit that has a deal.
<1>3. ASSUME NEW v \in Units, NEW s \in Statuses, SaveUnit(v, s)
      PROVE  LetGo(u)
  <2>1. u = v /\ s \in {"free", "closed"}
    BY <1>3, SetStatusFrees DEF SaveUnit
  <2>2. s = "closed"
    BY <1>3, <2>1 DEF SaveUnit
  <2> QED
    BY <1>3, <2>1, <2>2 DEF LetGo
<1>4. ASSUME NEW w \in Workers, OnStage(w)
      PROVE  LetGo(u)
  <2>1. SetStatus({v \in Units : deal[v] = job[w].deal}, TargetOf[job[w].seen], deal)
    BY <1>4 DEF OnStage
  <2>2. job[w].deal = deal[u] /\ TargetOf[job[w].seen] = status'[u]
    BY <2>1, SetStatusFrees
  <2>3. job'[w] = Idle
    BY <1>4 DEF OnStage, Finish, TypeOK
  <2>4. job'[w].op = "idle" /\ job[w].op = "moved"
    <3>1. job'[w].op = "idle"
      BY <2>3 DEF Idle
    <3>2. job[w].op = "moved"
      BY <1>4 DEF OnStage
    <3> QED
      BY <3>1, <3>2
  <2> QED
    BY <2>2, <2>4 DEF LetGo
<1>5. ASSUME NEW w \in Workers, NEW v \in Units, Expire(w, v)
      PROVE  FALSE
  <2>1. UNCHANGED deal \/ (DueNow(v) /\ SetStatus({v}, "free", deal))
    BY <1>5 DEF Expire
  <2>2. DueNow(v) /\ u = v
    BY <2>1, SetStatusFrees
  <2> QED
    BY <2>2 DEF DueNow
<1>6. ASSUME NEW w \in Workers, Sync(w)
      PROVE  LetGo(u)
  <2>1. TypedIn(u, job[w].seen) /\ job[w].seen[u] = status'[u]
    BY <1>6 DEF Sync
  <2>2. job' = [job EXCEPT ![w] = Idle]
         \/ \E words : job' = [job EXCEPT ![w] = [op |-> "write", words |-> words]]
    BY <1>6 DEF Sync, Finish, Continue
  <2>3. job'[w].op # "sync"
    <3>1. CASE job' = [job EXCEPT ![w] = Idle]
      BY <3>1 DEF Idle, TypeOK
    <3>2. ASSUME NEW words, job' = [job EXCEPT ![w] = [op |-> "write", words |-> words]]
          PROVE  job'[w].op # "sync"
      BY <3>2 DEF TypeOK
    <3> QED
      BY <2>2, <3>1, <3>2
  <2>4. job[w].op = "sync"
    BY <1>6 DEF Sync
  <2>5. job'[w] # job[w]
    BY <2>3, <2>4
  <2> QED
    BY <2>1, <2>4, <2>5 DEF LetGo
<1>7. CASE SaveProject
  BY <1>7 DEF SaveProject, unitVars
<1>8. ASSUME NEW w \in Workers, ListDue(w) \/ ExpireDone(w) \/ ReadSheet(w) \/ WriteBack(w) \/ Abort(w)
      PROVE  FALSE
  BY <1>8 DEF ListDue, ExpireDone, ReadSheet, WriteBack, Abort, unitVars
<1>9. ASSUME NEW w \in Workers, NEW d \in Deals, LeadMoved(w, d)
      PROVE  FALSE
  BY <1>9 DEF LeadMoved, unitVars
<1>10. CASE Environment
  BY <1>8, <1>10 DEF Environment, EditCell, MoveDeal, Pass, unitVars
<1>11. CASE Requests
  BY <1>1, <1>2, <1>3, <1>7, <1>11 DEF Requests
<1>12. CASE Tasks
  BY <1>4, <1>5, <1>8, <1>9, <1>12 DEF Tasks
<1>13. CASE Pulls
  BY <1>6, <1>8, <1>13 DEF Pulls
<1> QED
  BY <1>10, <1>11, <1>12, <1>13 DEF Next

\* A deal whose booking still runs loses the unit only to a detach, to the site that
\* takes it off sale, to a stage of its own, or to a cell that differs from both the
\* word last exchanged and the status: for every number of units, deals and tasks.
THEOREM Held == Spec => BookingHeld
<1>1. TypeOK /\ [Next]_vars
        => [\A u \in Units :
              /\ status[u] = "reserved" /\ deal[u] # NoDeal /\ until[u] # "past"
              /\ deal'[u] = NoDeal
              => LetGo(u)]_vars
  BY FreedStep
<1> QED
  BY <1>1, TypeCorrect, PTL DEF Spec, BookingHeld, LetGo
=============================================================================
