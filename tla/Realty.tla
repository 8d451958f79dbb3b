------------------------------- MODULE Realty -------------------------------
(***************************************************************************)
(* The units of a project that has a Google Sheet.  A unit is moved by the *)
(* deal that holds it in amoCRM, by the site, by the people who type in    *)
(* the sheet, and by the booking timer.                                    *)
(*                                                                         *)
(* A database transaction with the units locked is one action.  The rest   *)
(* of a task that has read amoCRM, the sheet or the list of due bookings   *)
(* waits in job[w], with what it has read.  It dies in Abort.              *)
(*                                                                         *)
(* A unit is one that a first sync has created.  Of a row the model keeps  *)
(* the status cell only, and rows do not change places.                    *)
(***************************************************************************)
EXTENDS Naturals

CONSTANTS
  Units,
  Deals,      \* (connection, lead) pairs
  NoDeal,
  Workers,    \* tasks that can be half-way at a time
  Stages,     \* stages of a deal
  TargetOf,   \* what each is configured to set, "" for nothing
  Words       \* what people type into a status cell

Statuses == {"free", "interest", "reserved", "sold", "closed"}

\* A status cell: a word for a status, another word, or the row is deleted.
Cells == Statuses \cup {"unknown", "norow"}

ASSUME DealsAssumption == NoDeal \notin Deals
ASSUME StagesAssumption == Stages # {} /\ TargetOf \in [Stages -> Statuses \cup {""}]
ASSUME WordsAssumption == Words \subseteq Cells

VARIABLES
  status,    \* Unit.status
  deal,      \* Unit.amo_connection and lead_id
  until,     \* Unit.reserved_until: "none", "later" or "past"
  sent,      \* Unit.sheet_status, last exchanged with the sheet
  archived,  \* Unit.archived
  timed,     \* Project.booking_hours is not 0
  stage,     \* the stage of each deal, in amoCRM
  cell,      \* the status cell of each unit, in the sheet
  job        \* the rest of the task each worker is running

unitVars == <<status, deal, until, sent, archived>>
vars == <<unitVars, timed, stage, cell, job>>

Idle == [op |-> "idle"]
Jobs == {Idle}
        \cup [op : {"moved"}, deal : Deals, seen : Stages]
        \cup [op : {"expire"}, units : SUBSET Units]
        \cup [op : {"sync"}, seen : [Units -> Cells]]
        \cup [op : {"write"}, words : [Units -> Statuses \cup {""}]]

Init ==
  /\ status   = [u \in Units |-> "free"]
  /\ deal     = [u \in Units |-> NoDeal]
  /\ until    = [u \in Units |-> "none"]
  /\ sent     = [u \in Units |-> "free"]
  /\ archived = [u \in Units |-> FALSE]
  /\ timed \in BOOLEAN
  /\ stage \in [Deals -> Stages]
  /\ cell     = [u \in Units |-> "free"]
  /\ job      = [w \in Workers |-> Idle]

Start(w, j) == job[w] = Idle /\ job' = [job EXCEPT ![w] = j]
Continue(w, j) == job' = [job EXCEPT ![w] = j]
Finish(w) == job' = [job EXCEPT ![w] = Idle]

\* Variant: a unit that is taken off sale keeps its deal.
SetStatusKeepsClosed(us, s, held) ==
  LET moved == {u \in us : status[u] # s} IN
  /\ status' = [u \in Units |-> IF u \in moved THEN s ELSE status[u]]
  /\ deal'   = [u \in Units |-> IF u \in moved /\ s = "free" THEN NoDeal ELSE held[u]]
  /\ until'  = [u \in Units |->
                  IF u \notin moved THEN until[u]
                  ELSE IF s \in {"free", "closed", "sold"} THEN "none"
                  ELSE IF s = "reserved" /\ timed THEN "later"
                  ELSE until[u]]

\* set_status of each unit of us, whose deals are held.
SetStatus(us, s, held) ==
  LET moved == {u \in us : status[u] # s} IN
  /\ status' = [u \in Units |-> IF u \in moved THEN s ELSE status[u]]
  /\ deal'   = [u \in Units |-> IF u \in moved /\ s \in {"free", "closed"} THEN NoDeal ELSE held[u]]
  /\ until'  = [u \in Units |->
                  IF u \notin moved THEN until[u]
                  ELSE IF s \in {"free", "closed", "sold"} THEN "none"
                  ELSE IF s = "reserved" /\ timed THEN "later"
                  ELSE until[u]]

-----------------------------------------------------------------------------
(* From the deal and from the site                                         *)

\* Variant: only the status is looked at.
AttachIfUnsold(u, d) ==
  /\ status[u] \notin {"sold", "closed"}
  /\ LET held == [deal EXCEPT ![u] = d] IN
     IF status[u] = "free"
     THEN SetStatus({u}, "interest", held)
     ELSE deal' = held /\ UNCHANGED <<status, until>>
  /\ UNCHANGED <<sent, archived, timed, stage, cell, job>>

\* attach
Attach(u, d) ==
  /\ deal[u] \in {NoDeal, d}
  /\ status[u] \in {"sold", "closed"} => deal[u] = d
  /\ LET held == [deal EXCEPT ![u] = d] IN
     IF status[u] = "free"
     THEN SetStatus({u}, "interest", held)
     ELSE deal' = held /\ UNCHANGED <<status, until>>
  /\ UNCHANGED <<sent, archived, timed, stage, cell, job>>

\* detach
Detach(u, d) ==
  /\ deal[u] = d
  /\ status[u] # "sold"
  /\ SetStatus({u}, "free", deal)
  /\ UNCHANGED <<sent, archived, timed, stage, cell, job>>

\* save_unit with a status
SaveUnit(u, s) ==
  /\ s # status[u]
  /\ s = "free" => deal[u] = NoDeal
  /\ SetStatus({u}, s, deal)
  /\ UNCHANGED <<sent, archived, timed, stage, cell, job>>

\* save_project, as far as booking_hours is concerned
SaveProject ==
  /\ timed' = ~timed
  /\ UNCHANGED <<unitVars, stage, cell, job>>

-----------------------------------------------------------------------------
(* The deal moves                                                          *)

\* lead_moved, up to the answer of amoCRM
LeadMoved(w, d) ==
  /\ \E u \in Units : deal[u] = d
  /\ Start(w, [op |-> "moved", deal |-> d, seen |-> stage[d]])
  /\ UNCHANGED <<unitVars, timed, stage, cell>>

\* Variant: a stage that sets nothing is not left out.
OnAnyStage(w) ==
  /\ job[w].op = "moved"
  /\ SetStatus({u \in Units : deal[u] = job[w].deal}, TargetOf[job[w].seen], deal)
  /\ Finish(w)
  /\ UNCHANGED <<sent, archived, timed, stage, cell>>

\* on_stage: the units the deal holds now follow the stage that was read.
OnStage(w) ==
  /\ job[w].op = "moved"
  /\ LET target == TargetOf[job[w].seen] IN
     IF target = ""
     THEN UNCHANGED <<status, deal, until>>
     ELSE SetStatus({u \in Units : deal[u] = job[w].deal}, target, deal)
  /\ Finish(w)
  /\ UNCHANGED <<sent, archived, timed, stage, cell>>

-----------------------------------------------------------------------------
(* The booking timer                                                       *)

DueNow(u) == status[u] = "reserved" /\ until[u] = "past"

\* expire_bookings, the list of what is due
ListDue(w) ==
  /\ \E u \in Units : DueNow(u)
  /\ Start(w, [op |-> "expire", units |-> {u \in Units : DueNow(u)}])
  /\ UNCHANGED <<unitVars, timed, stage, cell>>

\* Variant: what was listed is freed.
ExpireListed(w, u) ==
  /\ job[w].op = "expire"
  /\ u \in job[w].units
  /\ SetStatus({u}, "free", deal)
  /\ Continue(w, [job[w] EXCEPT !.units = @ \ {u}])
  /\ UNCHANGED <<sent, archived, timed, stage, cell>>

\* expire_bookings, one unit of the list, locked and looked at again
Expire(w, u) ==
  /\ job[w].op = "expire"
  /\ u \in job[w].units
  /\ IF DueNow(u) THEN SetStatus({u}, "free", deal) ELSE UNCHANGED <<status, deal, until>>
  /\ Continue(w, [job[w] EXCEPT !.units = @ \ {u}])
  /\ UNCHANGED <<sent, archived, timed, stage, cell>>

ExpireDone(w) ==
  /\ job[w] = [op |-> "expire", units |-> {}]
  /\ Finish(w)
  /\ UNCHANGED <<unitVars, timed, stage, cell>>

-----------------------------------------------------------------------------
(* The sheet                                                               *)

\* pull, or the script in the sheet: the values are read.
ReadSheet(w) ==
  /\ Start(w, [op |-> "sync", seen |-> cell])
  /\ UNCHANGED <<unitVars, timed, stage, cell>>

\* A status typed in the sheet: not the one last exchanged, nor ours.
TypedIn(u, seen) == seen[u] \in Statuses \ {sent[u], status[u]}

\* sync: all rows in one transaction; a unit without a row is archived.
Sync(w) ==
  /\ job[w].op = "sync"
  /\ LET seen  == job[w].seen
         typed == {u \in Units : TypedIn(u, seen)}
         ours  == [u \in Units |-> IF u \in typed THEN seen[u] ELSE status[u]]
         freed == {u \in typed : seen[u] \in {"free", "closed"}}
         words == [u \in Units |-> IF seen[u] \in {"norow", ours[u]} THEN "" ELSE ours[u]]
     IN  /\ status' = ours
         /\ deal'   = [u \in Units |-> IF u \in freed THEN NoDeal ELSE deal[u]]
         /\ until'  = [u \in Units |-> IF u \in freed THEN "none" ELSE until[u]]
         /\ sent'   = [u \in Units |-> IF seen[u] = "norow" THEN sent[u] ELSE ours[u]]
         /\ archived' = [u \in Units |-> seen[u] = "norow"]
         /\ IF \A u \in Units : words[u] = ""
            THEN Finish(w)
            ELSE Continue(w, [op |-> "write", words |-> words])
  /\ UNCHANGED <<timed, stage, cell>>

\* pull, or the script: the statuses that differ are written back.
WriteBack(w) ==
  /\ job[w].op = "write"
  /\ cell' = [u \in Units |->
                IF job[w].words[u] = "" \/ cell[u] = "norow" THEN cell[u] ELSE job[w].words[u]]
  /\ Finish(w)
  /\ UNCHANGED <<unitVars, timed, stage>>

-----------------------------------------------------------------------------
(* What happens around the code                                            *)

EditCell(u, s) ==
  /\ s # cell[u]
  /\ cell' = [cell EXCEPT ![u] = s]
  /\ UNCHANGED <<unitVars, timed, stage, job>>

MoveDeal(d, s) ==
  /\ s # stage[d]
  /\ stage' = [stage EXCEPT ![d] = s]
  /\ UNCHANGED <<unitVars, timed, cell, job>>

\* booking_hours pass.
Pass(u) ==
  /\ until[u] = "later"
  /\ until' = [until EXCEPT ![u] = "past"]
  /\ UNCHANGED <<status, deal, sent, archived, timed, stage, cell, job>>

\* The worker dies, or amoCRM or Google does not answer.
Abort(w) ==
  /\ job[w] # Idle
  /\ Finish(w)
  /\ UNCHANGED <<unitVars, timed, stage, cell>>

-----------------------------------------------------------------------------
Requests ==
  \/ \E u \in Units, d \in Deals : Attach(u, d) \/ Detach(u, d)
  \/ \E u \in Units, s \in Statuses : SaveUnit(u, s)
  \/ SaveProject

Tasks ==
  \E w \in Workers :
    \/ \E d \in Deals : LeadMoved(w, d)
    \/ OnStage(w)
    \/ ListDue(w)
    \/ \E u \in Units : Expire(w, u)
    \/ ExpireDone(w)

Pulls == \E w \in Workers : ReadSheet(w) \/ Sync(w) \/ WriteBack(w)

Environment ==
  \/ \E u \in Units, s \in Words : EditCell(u, s)
  \/ \E d \in Deals, s \in Stages : MoveDeal(d, s)
  \/ \E u \in Units : Pass(u)
  \/ \E w \in Workers : Abort(w)

Next == Requests \/ Tasks \/ Pulls \/ Environment

Spec == Init /\ [][Next]_vars

-----------------------------------------------------------------------------
(* Properties                                                              *)

TypeOK ==
  /\ status \in [Units -> Statuses]
  /\ deal \in [Units -> Deals \cup {NoDeal}]
  /\ until \in [Units -> {"none", "later", "past"}]
  /\ sent \in [Units -> Statuses]
  /\ archived \in [Units -> BOOLEAN]
  /\ timed \in BOOLEAN
  /\ stage \in [Deals -> Stages]
  /\ cell \in [Units -> Cells]
  /\ job \in [Workers -> Jobs]

\* A unit that nobody may buy or that everybody may buy belongs to no deal and
\* has no booking to expire, whoever of the four made it so.
LooseUnits ==
  \A u \in Units : status[u] \in {"free", "closed"} => deal[u] = NoDeal /\ until[u] = "none"

\* A unit never passes from one deal to another in a step: it has to be let go
\* by its deal, the site or the sheet first.
NoTakeOver ==
  [][\A u \in Units : deal[u] # NoDeal => deal'[u] \in {deal[u], NoDeal}]_vars

\* A deal that booked a unit and still has time keeps it until one of four lets go:
\* whoever detaches it from this deal; a stage of this deal, as a task has read it;
\* the site, which takes the unit off sale but does not free it; a sheet cell, as a
\* pull has read it, that says neither what was last exchanged nor what the unit is.
\* Never a list of due bookings, and never a stage read for another deal.  The stage
\* may have changed since it was read, and the cell may be older than our last word.
BookingHeld ==
  [][\A u \in Units :
       /\ status[u] = "reserved" /\ deal[u] # NoDeal /\ until[u] # "past"
       /\ deal'[u] = NoDeal
       => \/ Detach(u, deal[u])
          \/ SaveUnit(u, "closed")
          \/ \E w \in Workers :
               /\ job'[w] # job[w]
               /\ \/ /\ job[w].op = "moved" /\ job[w].deal = deal[u]
                     /\ TargetOf[job[w].seen] = status'[u]
                  \/ /\ job[w].op = "sync" /\ TypedIn(u, job[w].seen)
                     /\ job[w].seen[u] = status'[u]]_vars
=============================================================================
