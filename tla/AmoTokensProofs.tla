---------------------------- MODULE AmoTokensProofs ----------------------------
(* Theorems of AmoTokens, for any companies and processes, and any number of   *)
(* pairs and of deaths.                                                        *)
EXTENDS AmoTokens, Throttle, FiniteSetTheorems, SequenceTheorems, WellFoundedInduction, TLAPS

(***************************************************************************)
(* The inductive invariant                                                 *)
(***************************************************************************)
Asking(p)  == proc[p].step \in {"http", "store"}
Holding(p) == proc[p].step \in {"check", "put", "store"}     \* a pair of its own

\* Who asks amoCRM holds the row, and the row stays as it was read.
RowHeld ==
  \A p \in Procs :
    /\ locker = p <=> Asking(p)
    /\ Asking(p) => row.there /\ row.pair = proc[p].old

\* Pairs are known by numbers that amoCRM gave out.
PairsIssued ==
  /\ \A n \in live : n <= issued
  /\ row.there => row.pair <= issued
  /\ \A p \in Procs : Holding(p) => proc[p].new \in 1 .. issued

\* A pair that is on its way to the row is nobody else's, and not in the row.
PairsApart ==
  \A p \in Procs : Holding(p) =>
    /\ row.there => row.pair # proc[p].new
    /\ \A q \in Procs : Holding(q) /\ proc[q].new = proc[p].new => p = q

\* It works, unless amoCRM revoked it.
NewWorks == \A p \in Procs : Holding(p) => proc[p].new \in live \cup gone

\* So does the one in the row, until the process that spent it stores the next one.
OldWorks ==
  row.there /\ (\A p \in Procs : proc[p].step # "store") => row.pair \in live \cup gone \cup {0}

\* A connection that was given up has no pair, and what a refresh is about to store
\* was given for a pair.
GivenUpIsEmpty ==
  /\ givenUp /\ row.there => row.pair = 0
  /\ \A p \in Procs : proc[p].step = "store" => proc[p].old # 0

IInv ==
  /\ TypeOK /\ RowHeld /\ PairsIssued /\ PairsApart
  /\ NewWorks /\ OldWorks /\ GivenUpIsEmpty

-----------------------------------------------------------------------------
LEMMA InitIInv == Init => IInv
<1> SUFFICES ASSUME Init PROVE IInv
  OBVIOUS
<1>1. TypeOK
  <2>1. issued = 0 /\ deaths = 0 /\ issued \in Pairs /\ deaths \in 0 .. MaxDeaths
    BY BoundAssumption DEF Init, Pairs
  <2>2. off \in BOOLEAN /\ hook \in BOOLEAN /\ givenUp \in BOOLEAN
    BY DEF Init
  <2>3. proc \in [Procs -> {Idle} \cup Refreshing \cup Connecting]
    BY DEF Init
  <2> QED
    BY <2>1, <2>2, <2>3 DEF Init, TypeOK
<1>2. \A p \in Procs : ~Asking(p) /\ ~Holding(p) /\ proc[p].step # "store" /\ locker # p
  BY NoneAssumption DEF Init, Asking, Holding, Idle
<1>3. ~row.there
  BY DEF Init, NoRow
<1> QED
  BY <1>1, <1>2, <1>3 DEF Init, IInv, RowHeld, PairsIssued, PairsApart, NewWorks, OldWorks, GivenUpIsEmpty

\* A process goes on.
LEMMA Goes ==
  ASSUME TypeOK, NEW p \in Procs, NEW r \in {Idle} \cup Refreshing \cup Connecting, Go(p, r)
  PROVE  /\ proc' \in [Procs -> {Idle} \cup Refreshing \cup Connecting]
         /\ \A q \in Procs : proc'[q] = IF q = p THEN r ELSE proc[q]
BY DEF TypeOK, Go

\* What the records of a process are.
LEMMA Kinds ==
  ASSUME TypeOK, NEW p \in Procs
  PROVE  /\ proc[p].step \in {"lock", "http", "store", "fail"} => proc[p] \in Refreshing
         /\ proc[p].step \in {"check", "put"} => proc[p] \in Connecting
BY DEF TypeOK, Idle, Refreshing, Connecting

LEMMA RowKind ==
  ASSUME TypeOK, row.there
  PROVE  /\ row \in Row /\ row.pair \in Pairs /\ row.company \in Companies
         /\ row.status \in {"active", "error", "disconnected"} /\ row.age \in Ages
<1>1. row # NoRow
  BY DEF NoRow
<1>2. row \in Row
  BY <1>1 DEF TypeOK
<1> QED
  BY <1>2 DEF Row

\* A process lets go of the row, or never had it, and of its pair; the row is as it was,
\* but for its status.
LEMMA LetsGo ==
  ASSUME IInv, NEW p \in Procs, NEW r \in {Idle} \cup Refreshing \cup Connecting, Go(p, r),
         r.step \in {"idle", "lock", "fail"}, Unlock(p),
         UNCHANGED <<live, issued, ends>>,
         gone \subseteq gone', gone' \in SUBSET Pairs,
         proc[p].step = "store" => proc[p].old \in gone',
         deaths' \in 0 .. MaxDeaths,
         row' = row \/ (row.there /\ row' = [row EXCEPT !.status = "error"])
  PROVE  IInv'
<1>1. /\ TypeOK /\ RowHeld /\ PairsIssued /\ PairsApart /\ NewWorks /\ OldWorks /\ GivenUpIsEmpty
  BY DEF IInv
<1>2. /\ proc' \in [Procs -> {Idle} \cup Refreshing \cup Connecting]
      /\ \A q \in Procs : proc'[q] = IF q = p THEN r ELSE proc[q]
  BY <1>1, Goes
<1>3. /\ row'.there = row.there
      /\ row.there => row'.pair = row.pair /\ row'.status \in {row.status, "error"}
      /\ row' \in {NoRow} \cup Row
  BY <1>1, RowKind DEF TypeOK, Row
<1>4. /\ locker' \in Procs \cup {NoProc}
      /\ \A q \in Procs : locker' = q <=> locker = q /\ q # p
  BY <1>1, NoneAssumption DEF Unlock, TypeOK
<1>5. TypeOK'
  BY <1>1, <1>2, <1>3, <1>4 DEF TypeOK, ends
<1>6. ~Asking(p)' /\ ~Holding(p)' /\ proc'[p].step # "store"
  BY <1>2 DEF Asking, Holding
<1>7. RowHeld'
  BY <1>1, <1>2, <1>3, <1>4, <1>6 DEF RowHeld, Asking
<1>8. PairsIssued' /\ PairsApart' /\ NewWorks'
  BY <1>1, <1>2, <1>3, <1>6 DEF PairsIssued, PairsApart, NewWorks, Holding
<1>9. OldWorks'
  <2> SUFFICES ASSUME row'.there, \A q \in Procs : proc'[q].step # "store"
               PROVE  row'.pair \in live \cup gone' \cup {0}
    BY DEF OldWorks
  <2>1. CASE proc[p].step = "store"
    BY <1>1, <1>3, <2>1 DEF RowHeld, Asking
  <2>2. CASE proc[p].step # "store"
    BY <1>1, <1>2, <1>3, <2>2 DEF OldWorks
  <2> QED
    BY <2>1, <2>2
<1>10. GivenUpIsEmpty'
  BY <1>1, <1>2, <1>3, <1>6 DEF GivenUpIsEmpty, ends
<1> QED
  BY <1>5, <1>7, <1>8, <1>9, <1>10 DEF IInv

\* The row is changed, with no process holding it, or only in its age.
LEMMA RowStep ==
  ASSUME IInv, UNCHANGED <<live, issued, locker, proc, gone, deaths>>, row.there,
         off' \in BOOLEAN, hook' \in BOOLEAN, givenUp' \in BOOLEAN,
         row' \in Row, row'.pair = row.pair \/ (row'.pair = 0 /\ locker = NoProc),
         givenUp' => givenUp \/ row'.pair = 0
  PROVE  IInv'
<1>1. /\ TypeOK /\ RowHeld /\ PairsIssued /\ PairsApart /\ NewWorks /\ OldWorks /\ GivenUpIsEmpty
  BY DEF IInv
<1>2. row'.there
  BY DEF Row
<1>3. TypeOK' /\ NewWorks'
  BY <1>1 DEF TypeOK, NewWorks, Holding
<1>4. locker = NoProc => \A p \in Procs : ~Asking(p)
  BY <1>1, NoneAssumption DEF RowHeld
<1>5. RowHeld'
  BY <1>1, <1>2, <1>4 DEF RowHeld, Asking
<1>6. PairsIssued'
  BY <1>1, <1>2 DEF PairsIssued, Holding, TypeOK, Pairs
<1>7. PairsApart'
  BY <1>1, <1>2 DEF PairsApart, PairsIssued, Holding
<1>8. OldWorks' /\ GivenUpIsEmpty'
  BY <1>1, <1>2 DEF OldWorks, GivenUpIsEmpty
<1> QED
  BY <1>3, <1>5, <1>6, <1>7, <1>8 DEF IInv

(***************************************************************************)
(* The refresh                                                             *)
(***************************************************************************)
LEMMA RefreshBeginStep ==
  ASSUME IInv, NEW p \in Procs, RefreshBegin(p)
  PROVE  IInv'
<1>1. /\ TypeOK /\ RowHeld /\ PairsIssued /\ PairsApart /\ NewWorks /\ OldWorks /\ GivenUpIsEmpty
      /\ proc[p].step = "lock" /\ UNCHANGED <<live, issued, row, gone, ends, deaths>>
  BY DEF IInv, RefreshBegin, At
<1>2. proc[p] \in Refreshing /\ ~Asking(p) /\ ~Holding(p) /\ locker # p
  BY <1>1, Kinds DEF RowHeld, Asking, Holding
<1>3. CASE Go(p, Idle) /\ UNCHANGED locker
  <2>1. Unlock(p)
    BY <1>2, <1>3 DEF Unlock
  <2>2. Idle.step = "idle"
    BY DEF Idle
  <2> QED
    BY <1>1, <1>3, <2>1, <2>2, LetsGo DEF TypeOK
<1>4. CASE Lock(p) /\ Go(p, [proc[p] EXCEPT !.step = "http", !.old = row.pair]) /\ row.there
  <2> DEFINE r == [proc[p] EXCEPT !.step = "http", !.old = row.pair]
  <2>1. row.pair \in Pairs
    BY <1>1, <1>4, RowKind
  <2>2. r \in Refreshing /\ r.step = "http" /\ r.old = row.pair
    BY <1>2, <2>1 DEF Refreshing
  <2> HIDE DEF r
  <2>3. /\ proc' \in [Procs -> {Idle} \cup Refreshing \cup Connecting]
        /\ \A q \in Procs : proc'[q] = IF q = p THEN r ELSE proc[q]
    BY <1>1, <1>4, <2>2, Goes DEF r
  <2>4. locker = NoProc /\ locker' = p /\ \A q \in Procs : ~Asking(q)
    BY <1>1, <1>4, NoneAssumption DEF Lock, RowHeld
  <2>5. TypeOK'
    BY <1>1, <2>3, <2>4 DEF TypeOK, ends
  <2>6. RowHeld'
    BY <1>1, <1>4, <2>2, <2>3, <2>4 DEF RowHeld, Asking
  <2>7. PairsIssued' /\ PairsApart' /\ NewWorks'
    BY <1>1, <2>2, <2>3 DEF PairsIssued, PairsApart, NewWorks, Holding
  <2>8. OldWorks' /\ GivenUpIsEmpty'
    BY <1>1, <2>2, <2>3, <2>4 DEF OldWorks, GivenUpIsEmpty, Asking, ends
  <2> QED
    BY <2>5, <2>6, <2>7, <2>8 DEF IInv
<1> QED
  BY <1>3, <1>4 DEF RefreshBegin

\* amoCRM gives the pair after the last, and the old one is dead.
LEMMA RefreshGrantedStep ==
  ASSUME IInv, NEW p \in Procs, RefreshGranted(p)
  PROVE  IInv'
<1> DEFINE r == [proc[p] EXCEPT !.step = "store", !.new = issued']
<1>1. /\ TypeOK /\ RowHeld /\ PairsIssued /\ PairsApart /\ NewWorks /\ OldWorks /\ GivenUpIsEmpty
      /\ proc[p].step = "http" /\ proc[p].old \in live
      /\ issued < MaxPairs /\ issued' = issued + 1
      /\ live' = (live \ {proc[p].old}) \cup {issued'}
      /\ Go(p, r) /\ UNCHANGED <<row, locker, gone, ends, deaths>>
  BY DEF IInv, RefreshGranted, At
<1>2. proc[p] \in Refreshing
  BY <1>1, Kinds
<1>3. issued \in Nat /\ issued' \in Pairs /\ issued' \in 1 .. MaxPairs
  BY <1>1, BoundAssumption DEF TypeOK, Pairs
<1>4. r \in Refreshing /\ r.step = "store" /\ r.new = issued' /\ r.old = proc[p].old
  BY <1>2, <1>3 DEF Refreshing
<1> HIDE DEF r
<1>5. /\ proc' \in [Procs -> {Idle} \cup Refreshing \cup Connecting]
      /\ \A q \in Procs : proc'[q] = IF q = p THEN r ELSE proc[q]
  BY <1>1, <1>4, Goes
<1>6. row.there /\ row.pair = proc[p].old /\ locker = p
  BY <1>1 DEF RowHeld, Asking
<1>7. row.pair \in Pairs
  BY <1>1, <1>6, RowKind
<1>8. \A q \in Procs : Holding(q) => proc[q].new \in 1 .. issued /\ proc[q].new # row.pair
  BY <1>1, <1>6 DEF PairsIssued, PairsApart
<1>9. \A q \in Procs : Holding(q)' => q = p \/ (Holding(q) /\ proc'[q] = proc[q])
  BY <1>5 DEF Holding
<1>10. TypeOK'
  BY <1>1, <1>3, <1>5 DEF TypeOK, ends
<1>11. RowHeld'
  BY <1>1, <1>4, <1>5, <1>6 DEF RowHeld, Asking
<1>12. PairsIssued'
  <2>1. \A n \in live' : n <= issued'
    BY <1>1, <1>3 DEF TypeOK, PairsIssued, Pairs
  <2>2. row'.there => row'.pair <= issued'
    BY <1>1, <1>3, <1>7, BoundAssumption DEF PairsIssued, Pairs
  <2>3. \A q \in Procs : Holding(q)' => proc'[q].new \in 1 .. issued'
    BY <1>1, <1>3, <1>4, <1>5, <1>8, <1>9
  <2> QED
    BY <2>1, <2>2, <2>3 DEF PairsIssued
<1>13. issued' # row.pair /\ \A n \in 1 .. issued : n # issued'
  BY <1>1, <1>3, <1>6, <1>7, BoundAssumption DEF PairsIssued, Pairs
<1>14. PairsApart'
  <2> SUFFICES ASSUME NEW q \in Procs, Holding(q)'
               PROVE  /\ row'.there => row'.pair # proc'[q].new
                      /\ \A o \in Procs : Holding(o)' /\ proc'[o].new = proc'[q].new => q = o
    BY DEF PairsApart
  <2>1. row'.pair # proc'[q].new
    BY <1>1, <1>4, <1>5, <1>8, <1>9, <1>13
  <2>2. ASSUME NEW o \in Procs, Holding(o)', proc'[o].new = proc'[q].new PROVE q = o
    <3>1. CASE q = p \/ o = p
      BY <1>4, <1>5, <1>8, <1>9, <1>13, <2>2, <3>1
    <3>2. CASE q # p /\ o # p
      BY <1>1, <1>9, <2>2, <3>2 DEF PairsApart
    <3> QED
      BY <3>1, <3>2
  <2> QED
    BY <2>1, <2>2
<1>15. NewWorks'
  <2> SUFFICES ASSUME NEW q \in Procs, Holding(q)' PROVE proc'[q].new \in live' \cup gone'
    BY DEF NewWorks
  <2>1. CASE q = p
    BY <1>1, <1>4, <1>5, <2>1
  <2>2. CASE q # p
    BY <1>1, <1>6, <1>8, <1>9, <2>2 DEF NewWorks
  <2> QED
    BY <2>1, <2>2
<1>16. OldWorks'
  BY <1>4, <1>5 DEF OldWorks
<1>17. GivenUpIsEmpty'
  <2>1. proc[p].old # 0
    BY <1>1 DEF TypeOK
  <2> QED
    BY <1>1, <1>4, <1>5, <2>1 DEF GivenUpIsEmpty, ends
<1> QED
  BY <1>10, <1>11, <1>12, <1>14, <1>15, <1>16, <1>17 DEF IInv

\* The old one is dead, and nobody learns of the new one.
LEMMA RefreshAnswerLostStep ==
  ASSUME IInv, NEW p \in Procs, RefreshAnswerLost(p)
  PROVE  IInv'
<1>1. /\ TypeOK /\ RowHeld /\ PairsIssued /\ PairsApart /\ NewWorks /\ OldWorks /\ GivenUpIsEmpty
      /\ proc[p].step = "http" /\ proc[p].old \in live
      /\ issued < MaxPairs /\ issued' = issued + 1
      /\ live' = (live \ {proc[p].old}) \cup {issued'}
      /\ gone' = gone \cup {proc[p].old}
      /\ Go(p, Idle) /\ Unlock(p) /\ UNCHANGED <<row, ends, deaths>>
  BY DEF IInv, RefreshAnswerLost, At
<1>2. proc[p] \in Refreshing /\ proc[p].old \in Pairs
  BY <1>1, Kinds DEF Refreshing
<1>3. issued \in Nat /\ issued' \in Pairs /\ issued' \in 1 .. MaxPairs
  BY <1>1, BoundAssumption DEF TypeOK, Pairs
<1>4. /\ proc' \in [Procs -> {Idle} \cup Refreshing \cup Connecting]
      /\ \A q \in Procs : proc'[q] = IF q = p THEN Idle ELSE proc[q]
  BY <1>1, Goes
<1>5. row.there /\ row.pair = proc[p].old /\ locker = p
  BY <1>1 DEF RowHeld, Asking
<1>6. locker' = NoProc /\ \A q \in Procs : q # p => ~Asking(q)
  BY <1>1, <1>5 DEF Unlock, RowHeld
<1>7. \A q \in Procs : (Holding(q)' => Holding(q) /\ proc'[q] = proc[q]) /\ ~Asking(q)'
  BY <1>4, <1>6 DEF Holding, Asking, Idle
<1>8. TypeOK'
  BY <1>1, <1>2, <1>3, <1>4, <1>6 DEF TypeOK, ends
<1>9. RowHeld'
  BY <1>6, <1>7, NoneAssumption DEF RowHeld
<1>10. PairsIssued'
  <2>1. \A n \in live' : n <= issued'
    BY <1>1, <1>3 DEF TypeOK, PairsIssued, Pairs
  <2>2. row'.there => row'.pair <= issued'
    BY <1>1, <1>2, <1>3, <1>5, BoundAssumption DEF PairsIssued, Pairs
  <2>3. \A q \in Procs : Holding(q)' => proc'[q].new \in 1 .. issued'
    BY <1>1, <1>3, <1>7 DEF PairsIssued
  <2> QED
    BY <2>1, <2>2, <2>3 DEF PairsIssued
<1>11. PairsApart'
  BY <1>1, <1>7 DEF PairsApart
<1>12. NewWorks'
  BY <1>1, <1>7 DEF NewWorks
<1>13. OldWorks'
  BY <1>1, <1>5 DEF OldWorks
<1>14. GivenUpIsEmpty'
  BY <1>1, <1>7 DEF GivenUpIsEmpty, Asking, ends
<1> QED
  BY <1>8, <1>9, <1>10, <1>11, <1>12, <1>13, <1>14 DEF IInv

LEMMA RefreshRefusedStep ==
  ASSUME IInv, NEW p \in Procs, RefreshRefused(p)
  PROVE  IInv'
<1>1. /\ TypeOK /\ proc[p].step = "http" /\ Unlock(p)
      /\ UNCHANGED <<live, issued, row, gone, ends, deaths>>
  BY DEF IInv, RefreshRefused, At
<1>2. proc[p] \in Refreshing
  BY <1>1, Kinds
<1> DEFINE r == [proc[p] EXCEPT !.step = "fail"]
<1>3. r \in Refreshing /\ r.step = "fail" /\ Idle.step = "idle"
  BY <1>2 DEF Refreshing, Idle
<1>4. Step(p, "fail") => Go(p, r)
  BY DEF Step, Go
<1> HIDE DEF r
<1> QED
  BY <1>1, <1>3, <1>4, LetsGo DEF RefreshRefused, TypeOK

\* A process that brings its pair to the row: a refresh, or a connect.
LEMMA PutStep ==
  ASSUME IInv, NEW p \in Procs, Holding(p), Go(p, Idle), UNCHANGED <<live, issued, gone, deaths>>,
         off' \in BOOLEAN, hook' \in BOOLEAN, givenUp' = FALSE,
         locker \in {p, NoProc}, locker' = NoProc,
         row' \in Row, row'.pair = proc[p].new, row'.status = "active"
  PROVE  IInv'
<1>1. /\ TypeOK /\ RowHeld /\ PairsIssued /\ PairsApart /\ NewWorks /\ OldWorks /\ GivenUpIsEmpty
  BY DEF IInv
<1>2. /\ proc' \in [Procs -> {Idle} \cup Refreshing \cup Connecting]
      /\ \A q \in Procs : proc'[q] = IF q = p THEN Idle ELSE proc[q]
  BY <1>1, Goes
<1>3. \A q \in Procs : q # p => ~Asking(q)
  BY <1>1, NoneAssumption DEF RowHeld
<1>4. \A q \in Procs : (Holding(q)' => q # p /\ Holding(q) /\ proc'[q] = proc[q]) /\ ~Asking(q)'
  BY <1>2, <1>3 DEF Holding, Asking, Idle
<1>5. TypeOK'
  BY <1>1, <1>2 DEF TypeOK
<1>6. RowHeld'
  BY <1>4, NoneAssumption DEF RowHeld
<1>7. proc[p].new \in 1 .. issued /\ proc[p].new \in live \cup gone
  BY <1>1 DEF PairsIssued, NewWorks
<1>8. issued \in Nat
  BY <1>1, BoundAssumption DEF TypeOK, Pairs
<1>9. PairsIssued'
  BY <1>1, <1>4, <1>7, <1>8 DEF PairsIssued
<1>10. PairsApart'
  BY <1>1, <1>4 DEF PairsApart
<1>11. NewWorks' /\ OldWorks'
  BY <1>1, <1>4, <1>7 DEF NewWorks, OldWorks
<1>12. GivenUpIsEmpty'
  BY <1>4 DEF GivenUpIsEmpty, Asking
<1> QED
  BY <1>5, <1>6, <1>9, <1>10, <1>11, <1>12 DEF IInv

LEMMA RefreshStoreStep ==
  ASSUME IInv, NEW p \in Procs, RefreshStore(p)
  PROVE  IInv'
<1>1. /\ TypeOK /\ proc[p].step = "store" /\ Go(p, Idle) /\ Unlock(p)
      /\ UNCHANGED <<live, issued, gone, ends, deaths>>
  BY DEF IInv, RefreshStore, At
<1>2. row.there /\ locker = p /\ Holding(p)
  BY <1>1 DEF IInv, RowHeld, Asking, Holding
<1>3. proc[p].new \in Pairs
  BY <1>1, Kinds DEF Refreshing
<1>4. row' = [row EXCEPT !.pair = proc[p].new, !.status = "active", !.age = "fresh"]
  BY <1>2 DEF RefreshStore
<1>5. row' \in Row /\ row'.pair = proc[p].new /\ row'.status = "active"
  BY <1>1, <1>2, <1>3, <1>4, RowKind DEF Row, Ages
<1>6. locker' = NoProc
  BY <1>1, <1>2 DEF Unlock
<1>7. off' \in BOOLEAN /\ hook' \in BOOLEAN /\ givenUp' = FALSE
  <2>1. row.pair # 0 /\ row.there
    BY <1>1 DEF IInv, RowHeld, GivenUpIsEmpty, Asking
  <2> QED
    BY <1>1, <2>1 DEF IInv, GivenUpIsEmpty, TypeOK, ends
<1> QED
  BY <1>1, <1>2, <1>5, <1>6, <1>7, PutStep

LEMMA RefreshFailStep ==
  ASSUME IInv, NEW p \in Procs, RefreshFail(p)
  PROVE  IInv'
<1>1. /\ TypeOK /\ proc[p].step = "fail" /\ locker = NoProc /\ Go(p, Idle)
      /\ UNCHANGED <<live, issued, locker, gone, ends, deaths>>
      /\ row' = row \/ (row.there /\ row' = [row EXCEPT !.status = "error"])
  BY DEF IInv, RefreshFail, At
<1>2. Unlock(p) /\ Idle.step = "idle"
  BY <1>1, NoneAssumption DEF Unlock, Idle
<1> QED
  BY <1>1, <1>2, LetsGo DEF TypeOK

\* The hourly task, or a request, begins one.
LEMMA RefreshAskedStep ==
  ASSUME IInv, NEW p \in Procs, RefreshExpiringTokens(p) \/ Request(p)
  PROVE  IInv'
<1>1. /\ TypeOK /\ RowHeld /\ proc[p].step = "idle"
      /\ UNCHANGED <<live, issued, row, locker, gone, ends, deaths>>
  BY DEF IInv, RefreshExpiringTokens, Request, At
<1>2. PICK force \in BOOLEAN : Go(p, Refresh(force))
  BY DEF RefreshExpiringTokens, Request
<1>3. Refresh(force) \in Refreshing /\ Refresh(force).step = "lock"
  BY BoundAssumption DEF Refresh, Refreshing, Pairs
<1>4. locker # p
  BY <1>1 DEF RowHeld, Asking
<1>5. Unlock(p)
  BY <1>1, <1>4 DEF Unlock
<1> QED
  BY <1>1, <1>2, <1>3, <1>5, LetsGo DEF TypeOK

(***************************************************************************)
(* Connecting                                                              *)
(***************************************************************************)
LEMMA ConnectExchangeStep ==
  ASSUME IInv, NEW p \in Procs, NEW c \in Companies, ConnectExchange(p, c)
  PROVE  IInv'
<1> DEFINE r == [step |-> "check", company |-> c, new |-> issued']
<1>1. /\ TypeOK /\ RowHeld /\ PairsIssued /\ PairsApart /\ NewWorks /\ OldWorks /\ GivenUpIsEmpty
      /\ proc[p].step = "idle" /\ issued < MaxPairs /\ issued' = issued + 1
      /\ live' = live \cup {issued'} /\ Go(p, r)
      /\ UNCHANGED <<row, locker, gone, ends, deaths>>
  BY DEF IInv, ConnectExchange, At
<1>2. issued \in Nat /\ issued' \in Pairs /\ issued' \in 1 .. MaxPairs
  BY <1>1, BoundAssumption DEF TypeOK, Pairs
<1>3. r \in Connecting /\ r.step = "check" /\ r.new = issued'
  BY <1>2 DEF Connecting
<1> HIDE DEF r
<1>4. /\ proc' \in [Procs -> {Idle} \cup Refreshing \cup Connecting]
      /\ \A q \in Procs : proc'[q] = IF q = p THEN r ELSE proc[q]
  BY <1>1, <1>3, Goes
<1>5. row.there => row.pair \in 0 .. issued
  BY <1>1, <1>2, RowKind, BoundAssumption DEF PairsIssued, Pairs
<1>6. \A q \in Procs : Holding(q)' => q = p \/ (Holding(q) /\ proc'[q] = proc[q])
  BY <1>4 DEF Holding
<1>7. \A q \in Procs : Holding(q) => proc[q].new \in 1 .. issued
  BY <1>1 DEF PairsIssued
<1>8. \A n \in 0 .. issued : n # issued'
  BY <1>1, <1>2
<1>9. TypeOK'
  BY <1>1, <1>2, <1>4 DEF TypeOK, ends
<1>10. RowHeld'
  BY <1>1, <1>3, <1>4 DEF RowHeld, Asking
<1>11. PairsIssued'
  <2>1. \A n \in live' : n <= issued'
    BY <1>1, <1>2 DEF TypeOK, PairsIssued, Pairs
  <2>2. row'.there => row'.pair <= issued'
    BY <1>1, <1>2, <1>5
  <2>3. \A q \in Procs : Holding(q)' => proc'[q].new \in 1 .. issued'
    BY <1>1, <1>2, <1>3, <1>4, <1>6, <1>7
  <2> QED
    BY <2>1, <2>2, <2>3 DEF PairsIssued
<1>12. PairsApart'
  <2> SUFFICES ASSUME NEW q \in Procs, Holding(q)'
               PROVE  /\ row'.there => row'.pair # proc'[q].new
                      /\ \A o \in Procs : Holding(o)' /\ proc'[o].new = proc'[q].new => q = o
    BY DEF PairsApart
  <2>1. row'.there => row'.pair # proc'[q].new
    BY <1>1, <1>3, <1>4, <1>5, <1>6, <1>8 DEF PairsApart
  <2>2. ASSUME NEW o \in Procs, Holding(o)', proc'[o].new = proc'[q].new PROVE q = o
    <3>1. CASE q = p \/ o = p
      BY <1>2, <1>3, <1>4, <1>6, <1>7, <1>8, <2>2, <3>1
    <3>2. CASE q # p /\ o # p
      BY <1>1, <1>6, <2>2, <3>2 DEF PairsApart
    <3> QED
      BY <3>1, <3>2
  <2> QED
    BY <2>1, <2>2
<1>13. NewWorks'
  BY <1>1, <1>3, <1>4, <1>6 DEF NewWorks
<1>14. OldWorks'
  BY <1>1, <1>4 DEF OldWorks, Idle
<1>15. GivenUpIsEmpty'
  BY <1>1, <1>3, <1>4 DEF GivenUpIsEmpty, ends
<1> QED
  BY <1>9, <1>10, <1>11, <1>12, <1>13, <1>14, <1>15 DEF IInv

\* It gives up, and its pair with it; or it goes on, with the row as it was or deleted.
LEMMA ConnectCheckStep ==
  ASSUME IInv, NEW p \in Procs, ConnectCheck(p)
  PROVE  IInv'
<1>1. /\ TypeOK /\ RowHeld /\ PairsIssued /\ PairsApart /\ NewWorks /\ OldWorks /\ GivenUpIsEmpty
      /\ proc[p].step = "check" /\ UNCHANGED <<live, issued, locker, gone, off, givenUp, deaths>>
      /\ hook' \in {hook, FALSE}
  BY DEF IInv, ConnectCheck, At
<1>2. proc[p] \in Connecting /\ locker # p
  BY <1>1, Kinds DEF RowHeld, Asking
<1>3. CASE Go(p, Idle) /\ UNCHANGED <<row, hook>>
  <2>1. Unlock(p) /\ Idle.step = "idle"
    BY <1>1, <1>2 DEF Unlock, Idle
  <2> QED
    BY <1>1, <1>3, <2>1, LetsGo DEF TypeOK, ends
<1>4. CASE Step(p, "put") /\ (row' = row \/ (locker = NoProc /\ row' = NoRow))
  <2> DEFINE r == [proc[p] EXCEPT !.step = "put"]
  <2>1. r \in Connecting /\ r.step = "put" /\ r.new = proc[p].new
    BY <1>2 DEF Connecting
  <2>2. Go(p, r)
    BY <1>4 DEF Step, Go
  <2> HIDE DEF r
  <2>3. /\ proc' \in [Procs -> {Idle} \cup Refreshing \cup Connecting]
        /\ \A q \in Procs : proc'[q] = IF q = p THEN r ELSE proc[q]
    BY <1>1, <2>1, <2>2, Goes
  <2>4. \A q \in Procs : /\ Holding(q)' <=> Holding(q)
                         /\ Holding(q) => proc'[q].new = proc[q].new
                         /\ Asking(q)' <=> Asking(q)
                         /\ Asking(q) => proc'[q] = proc[q]
                         /\ proc'[q].step = "store" <=> proc[q].step = "store"
    BY <1>1, <2>1, <2>3 DEF Holding, Asking
  <2>5. row' = row \/ ((\A q \in Procs : ~Asking(q)) /\ ~row'.there)
    BY <1>1, <1>4, NoneAssumption DEF RowHeld, NoRow
  <2>6. TypeOK'
    BY <1>1, <1>4, <2>3 DEF TypeOK
  <2>7. RowHeld'
    BY <1>1, <2>4, <2>5 DEF RowHeld
  <2>8. PairsIssued' /\ PairsApart' /\ NewWorks'
    BY <1>1, <2>4, <2>5 DEF PairsIssued, PairsApart, NewWorks
  <2>9. OldWorks' /\ GivenUpIsEmpty'
    <3>1. \A q \in Procs : proc'[q].step = "store" => proc[q].step = "store" /\ proc'[q].old = proc[q].old
      BY <2>4 DEF Asking
    <3>2. row' = row \/ ~row'.there
      BY <2>5
    <3> QED
      BY <1>1, <2>4, <3>1, <3>2 DEF OldWorks, GivenUpIsEmpty
  <2> QED
    BY <2>6, <2>7, <2>8, <2>9 DEF IInv
<1> QED
  BY <1>3, <1>4 DEF ConnectCheck

LEMMA ConnectPutStep ==
  ASSUME IInv, NEW p \in Procs, ConnectPut(p)
  PROVE  IInv'
<1>1. /\ TypeOK /\ proc[p].step = "put" /\ locker = NoProc /\ locker' = NoProc
      /\ row' = [there |-> TRUE, company |-> proc[p].company, pair |-> proc[p].new,
                 status |-> "active", age |-> "fresh"]
      /\ Go(p, Idle) /\ givenUp' = FALSE
      /\ UNCHANGED <<live, issued, gone, off, hook, deaths>>
  BY DEF IInv, ConnectPut, At
<1>2. proc[p].company \in Companies /\ proc[p].new \in Pairs /\ Holding(p)
  BY <1>1, Kinds DEF Connecting, Holding
<1>3. row' \in Row /\ row'.pair = proc[p].new /\ row'.status = "active"
  BY <1>1, <1>2 DEF Row, Ages
<1> QED
  BY <1>1, <1>2, <1>3, PutStep DEF TypeOK

(***************************************************************************)
(* The end of a connection, and of a process                               *)
(***************************************************************************)
LEMMA RowSteps ==
  ASSUME IInv, MarkError \/ Expire \/ Disconnect \/ UninstallRead \/ UninstallSave
  PROVE  IInv'
<1>1. TypeOK /\ row.there /\ UNCHANGED <<live, issued, locker, proc, gone, off, deaths>>
  BY DEF IInv, MarkError, Expire, Disconnect, UninstallRead, UninstallSave, ends
<1>2. row \in Row /\ 0 \in Pairs
  BY <1>1, RowKind, BoundAssumption DEF Pairs
<1>3. CASE MarkError
  <2>1. row' = [row EXCEPT !.status = "error"] /\ UNCHANGED <<hook, givenUp>>
    BY <1>3 DEF MarkError, ends
  <2>2. row' \in Row /\ row'.pair = row.pair
    BY <1>2, <2>1 DEF Row
  <2> QED
    BY <1>1, <2>1, <2>2, RowStep DEF TypeOK
<1>4. CASE Expire
  <2>1. PICK age \in Ages : row' = [row EXCEPT !.age = age]
    BY <1>4 DEF Expire, Ages
  <2>2. row' \in Row /\ row'.pair = row.pair
    BY <1>2, <2>1 DEF Row
  <2>3. UNCHANGED <<hook, givenUp>>
    BY <1>4 DEF Expire, ends
  <2> QED
    BY <1>1, <2>2, <2>3, RowStep DEF TypeOK
<1>5. CASE Disconnect
  <2>1. row' = [row EXCEPT !.status = "disconnected", !.pair = 0] /\ locker = NoProc
    BY <1>5 DEF Disconnect
  <2>2. row' \in Row /\ row'.pair = 0
    BY <1>2, <2>1 DEF Row
  <2>3. givenUp' = TRUE /\ UNCHANGED hook
    BY <1>5 DEF Disconnect
  <2> QED
    BY <1>1, <2>1, <2>2, <2>3, RowStep DEF TypeOK
<1>6. CASE UninstallRead
  <2>1. UNCHANGED <<row, givenUp>> /\ hook' = TRUE
    BY <1>6 DEF UninstallRead
  <2> QED
    BY <1>1, <1>2, <2>1, RowStep DEF TypeOK
<1>7. CASE UninstallSave
  <2>1. row' = [row EXCEPT !.status = "disconnected"] /\ UNCHANGED givenUp /\ hook' = FALSE
    BY <1>7 DEF UninstallSave
  <2>2. row' \in Row /\ row'.pair = row.pair
    BY <1>2, <2>1 DEF Row
  <2> QED
    BY <1>1, <2>1, <2>2, RowStep DEF TypeOK
<1> QED
  BY <1>3, <1>4, <1>5, <1>6, <1>7

\* What dies was working.
LEMMA RevokeStep ==
  ASSUME IInv, Revoke
  PROVE  IInv'
<1>1. /\ TypeOK /\ RowHeld /\ PairsIssued /\ PairsApart /\ NewWorks /\ OldWorks /\ GivenUpIsEmpty
      /\ live' = {} /\ gone' = gone \cup live /\ off' = TRUE
      /\ UNCHANGED <<issued, row, locker, proc, hook, givenUp, deaths>>
  BY DEF IInv, Revoke
<1>2. TypeOK'
  BY <1>1, BoundAssumption DEF TypeOK, Pairs
<1>3. RowHeld' /\ PairsIssued' /\ PairsApart'
  BY <1>1 DEF RowHeld, PairsIssued, PairsApart, Asking, Holding
<1>4. NewWorks' /\ OldWorks' /\ GivenUpIsEmpty'
  BY <1>1 DEF NewWorks, OldWorks, GivenUpIsEmpty, Holding
<1> QED
  BY <1>2, <1>3, <1>4 DEF IInv

LEMMA DieStep ==
  ASSUME IInv, NEW p \in Procs, Die(p)
  PROVE  IInv'
<1>1. /\ TypeOK /\ deaths < MaxDeaths /\ deaths' = deaths + 1
      /\ gone' = IF proc[p].step = "store" THEN gone \cup {proc[p].old} ELSE gone
      /\ Go(p, Idle) /\ Unlock(p) /\ UNCHANGED <<live, issued, row, ends>>
  BY DEF IInv, Die, At
<1>2. proc[p].step = "store" => proc[p].old \in Pairs
  BY <1>1, Kinds DEF Refreshing
<1>3. /\ gone \subseteq gone' /\ gone' \in SUBSET Pairs
      /\ proc[p].step = "store" => proc[p].old \in gone'
  BY <1>1, <1>2 DEF TypeOK
<1>4. deaths' \in 0 .. MaxDeaths /\ Idle.step = "idle"
  BY <1>1, BoundAssumption DEF TypeOK, Idle
<1> QED
  BY <1>1, <1>3, <1>4, LetsGo

(***************************************************************************)
(* The theorems                                                            *)
(***************************************************************************)
LEMMA NextStep == IInv /\ [Next]_vars => IInv'
<1> SUFFICES ASSUME IInv, [Next]_vars PROVE IInv'
  OBVIOUS
<1>1. ASSUME NEW p \in Procs, RefreshSteps(p) PROVE IInv'
  BY <1>1, RefreshBeginStep, RefreshGrantedStep, RefreshAnswerLostStep, RefreshRefusedStep,
     RefreshStoreStep, RefreshFailStep DEF RefreshSteps
<1>2. ASSUME NEW p \in Procs, RefreshExpiringTokens(p) \/ Request(p) PROVE IInv'
  BY <1>2, RefreshAskedStep
<1>3. ASSUME NEW p \in Procs, Connect(p) PROVE IInv'
  BY <1>3, ConnectExchangeStep, ConnectCheckStep, ConnectPutStep DEF Connect
<1>4. ASSUME NEW p \in Procs, Die(p) PROVE IInv'
  BY <1>4, DieStep
<1>5. CASE MarkError \/ Expire \/ Disconnect \/ UninstallRead \/ UninstallSave
  BY <1>5, RowSteps
<1>6. CASE Revoke
  BY <1>6, RevokeStep
<1>7. CASE UNCHANGED vars
  BY <1>7 DEF vars, IInv, TypeOK, RowHeld, PairsIssued, PairsApart, NewWorks, OldWorks,
              GivenUpIsEmpty, Asking, Holding, ends
<1> QED
  BY <1>1, <1>2, <1>3, <1>4, <1>5, <1>6, <1>7 DEF Next

\* The invariant holds in every state the processes and amoCRM reach.
THEOREM Invariance == Spec => []IInv
BY InitIInv, NextStep, PTL DEF Spec

\* The row, the pairs and the processes stay what they can be.
THEOREM TypeCorrect == Spec => []TypeOK
<1>1. IInv => TypeOK
  BY DEF IInv
<1> QED
  BY <1>1, Invariance, PTL

\* oauth.refresh leaves a pair in the row that works, unless it was revoked or lost: the
\* lock on the row is enough, with any number of processes.
THEOREM StoredPairWorks == Spec => []PairWorks
<1>1. IInv => PairWorks
  <2> SUFFICES ASSUME IInv, row.there, locker = NoProc PROVE row.pair \in live \cup gone \cup {0}
    BY DEF PairWorks
  <2>1. \A p \in Procs : proc[p].step # "store"
    BY NoneAssumption DEF IInv, RowHeld, Asking
  <2> QED
    BY <2>1 DEF IInv, OldWorks
<1> QED
  BY <1>1, Invariance, PTL

\* A refresh that stores a pair holds the row and was given the pair for the one in
\* the row: nothing is lost then, and what was given up has no pair to give.
LEMMA BackStep ==
  ASSUME IInv, [Next]_vars, Lost, ~Active(row), Active(row')
  PROVE  \E p \in Procs : ConnectPut(p)
<1>1. row' # row
  OBVIOUS
<1>2. row'.there /\ row'.status = "active"
  BY DEF Active
<1>3. row.there => row \in Row /\ row.status # "active"
  BY RowKind DEF IInv, Active
<1>4. ASSUME NEW p \in Procs, RefreshSteps(p) PROVE FALSE
  <2>1. CASE RefreshStore(p)
    <3>1. locker = p /\ row.there /\ row.pair # 0
      BY <2>1 DEF RefreshStore, At, IInv, RowHeld, GivenUpIsEmpty, Asking
    <3> QED
      BY <3>1, NoneAssumption DEF Lost, IInv, GivenUpIsEmpty
  <2>2. CASE RefreshFail(p)
    <3>1. row' = [row EXCEPT !.status = "error"] /\ row.there
      BY <1>1, <2>2 DEF RefreshFail
    <3> QED
      BY <1>2, <1>3, <3>1 DEF Row
  <2> QED
    BY <1>1, <1>4, <2>1, <2>2 DEF RefreshSteps, RefreshBegin, RefreshGranted, RefreshAnswerLost, RefreshRefused
<1>5. ASSUME NEW p \in Procs, Connect(p) PROVE ConnectPut(p)
  <2>1. CASE ConnectCheck(p)
    <3>1. row' = row \/ row' = NoRow
      BY <2>1 DEF ConnectCheck
    <3> QED
      BY <1>1, <1>2, <3>1 DEF NoRow
  <2>2. CASE \E c \in Companies : ConnectExchange(p, c)
    BY <1>1, <2>2 DEF ConnectExchange
  <2> QED
    BY <1>5, <2>1, <2>2 DEF Connect
<1>6. ASSUME MarkError \/ Expire \/ Disconnect \/ UninstallRead \/ UninstallSave PROVE FALSE
  BY <1>1, <1>2, <1>3, <1>6 DEF MarkError, Expire, Disconnect, UninstallRead, UninstallSave, Row
<1> QED
  BY <1>1, <1>4, <1>5, <1>6 DEF Next, RefreshExpiringTokens, Request, Die, Revoke, vars

\* A connection that the company gave up, or whose pair works no more while no refresh
\* holds the row, is made active by services.connect only: no request and no hourly task
\* that waited for the row brings it back, with any number of processes and companies.
THEOREM BackByConnectOnly == Spec => BackOnlyByConnect
<1>1. IInv /\ [Next]_vars =>
        [Lost /\ ~Active(row) /\ Active(row') => \E p \in Procs : ConnectPut(p)]_vars
  BY BackStep
<1> QED
  BY <1>1, Invariance, PTL DEF Spec, BackOnlyByConnect

(***************************************************************************)
(* Throttle: how many requests a second sees                               *)
(***************************************************************************)

\* Induction on numbers: a set of them that is not empty has a least one.
LEMMA LeastOf ==
  ASSUME NEW T \in SUBSET Nat, T # {}
  PROVE  \E n \in T : \A m \in T : n <= m
<1>1. IsWellFoundedOn(OpToRel(<, Nat), Nat)
  BY NatLessThanWellFounded
<1>2. PICK n \in T : \A m \in T : ~(<<m, n>> \in OpToRel(<, Nat))
  BY <1>1, WFMin
<1>3. \A m \in T : ~(m < n)
  BY <1>2 DEF OpToRel
<1> QED
  BY <1>3

LEMMA GreatestOf ==
  ASSUME NEW n \in Nat, NEW G \in SUBSET (1 .. n), G # {}
  PROVE  \E i \in G : \A j \in G : j <= i
<1> DEFINE T == {k \in Nat : \A j \in G : j <= k}
<1>1. n \in T
  OBVIOUS
<1>2. PICK i \in T : \A k \in T : i <= k
  BY <1>1, LeastOf
<1>3. i \in G
  <2>1. SUFFICES ASSUME i \notin G PROVE FALSE
    OBVIOUS
  <2>2. \A j \in G : j < i /\ j >= 1
    BY <1>2, <2>1
  <2>3. PICK k \in G : TRUE
    OBVIOUS
  <2>4. i - 1 \in Nat /\ \A j \in G : j <= i - 1
    BY <1>2, <2>2, <2>3
  <2>5. i - 1 \in T
    BY <2>4
  <2> QED
    BY <1>2, <2>4, <2>5
<1> QED
  BY <1>2, <1>3

LEMMA UpTo ==
  ASSUME NEW n \in Nat, NEW S \in SUBSET (1 .. n)
  PROVE  IsFiniteSet(S) /\ Cardinality(S) \in Nat
<1>1. IsFiniteSet(1 .. n)
  BY FS_Interval
<1>2. IsFiniteSet(S)
  BY <1>1, FS_Subset
<1> QED
  BY <1>2, FS_CardinalityType

\* Division by a second.
LEMMA SecondOf ==
  ASSUME NEW t \in Nat
  PROVE  /\ t \div Second \in Nat /\ t % Second \in 0 .. Second - 1
         /\ t = Second * (t \div Second) + (t % Second)
BY SecondAssumption

LEMMA Further ==
  ASSUME NEW q \in Nat, NEW p \in Nat, q < p
  PROVE  Second * q + Second <= Second * p
<1>1. PICK d \in Nat : p = q + 1 + d
  <2>1. p - q - 1 \in Nat /\ p = q + 1 + (p - q - 1)
    OBVIOUS
  <2> QED
    BY <2>1
<1>2. Second * p = Second * q + Second + Second * d /\ Second * d \in Nat /\ Second * q \in Nat
  BY <1>1, SecondAssumption
<1> QED
  BY <1>2, SecondAssumption

\* A second that begins at a tick falls into one second of the clock, or two.
LEMMA Seconds ==
  ASSUME NEW tick \in Nat, NEW t \in tick .. tick + Second - 1
  PROVE  /\ t \div Second \in {tick \div Second, tick \div Second + 1}
         /\ tick % Second = 0 => t \div Second = tick \div Second
<1> DEFINE q == tick \div Second
           p == t \div Second
<1>1. /\ q \in Nat /\ Second * q \in Nat /\ tick % Second \in 0 .. Second - 1
      /\ tick = Second * q + (tick % Second)
  BY SecondOf, SecondAssumption
<1>2. /\ t \in Nat /\ t >= tick /\ t < tick + Second
  BY SecondAssumption
<1>3. /\ p \in Nat /\ Second * p \in Nat /\ t % Second \in 0 .. Second - 1
      /\ t = Second * p + (t % Second)
  BY <1>2, SecondOf, SecondAssumption
<1> HIDE DEF p, q
<1>4. ~(p < q)
  BY <1>1, <1>2, <1>3, Further, SecondAssumption
<1>5. ~(q + 1 < p)
  <2>1. SUFFICES ASSUME q + 1 < p PROVE FALSE
    OBVIOUS
  <2>2. Second * (q + 1) + Second <= Second * p
    BY <1>1, <1>3, <2>1, Further
  <2>3. Second * (q + 1) = Second * q + Second
    BY <1>1, SecondAssumption
  <2> QED
    BY <1>1, <1>2, <1>3, <2>2, <2>3, SecondAssumption
<1>6. ASSUME tick % Second = 0 PROVE p = q
  <2>1. ~(q < p)
    BY <1>1, <1>2, <1>3, <1>6, Further, SecondAssumption
  <2> QED
    BY <1>1, <1>3, <1>4, <2>1
<1> QED
  BY <1>1, <1>3, <1>4, <1>5, <1>6 DEF p, q

LEMMA OneWindow ==
  ASSUME NEW attempts \in Seq(Nat), NEW limit \in Nat, NEW q,
         NEW G \in SUBSET GrantedByWindow(attempts, limit), \A i \in G : attempts[i] \div Second = q
  PROVE  IsFiniteSet(G) /\ Cardinality(G) \in Nat /\ Cardinality(G) <= limit
<1>1. Len(attempts) \in Nat /\ G \subseteq 1 .. Len(attempts)
  BY LenProperties DEF GrantedByWindow
<1>2. IsFiniteSet(G) /\ Cardinality(G) \in Nat
  BY <1>1, UpTo
<1>3. CASE G = {}
  BY <1>2, <1>3, FS_EmptySet
<1>4. CASE G # {}
  <2>1. PICK i \in G : \A j \in G : j <= i
    BY <1>1, <1>4, GreatestOf
  <2> DEFINE W == {j \in 1 .. i : SameWindow(attempts, i, j)}
  <2>2. i \in Nat /\ G \subseteq W
    BY <1>1, <2>1 DEF SameWindow
  <2>3. Cardinality(W) <= limit
    BY DEF GrantedByWindow, PassesWindow
  <2>4. IsFiniteSet(W) /\ Cardinality(W) \in Nat
    BY <2>2, UpTo
  <2> HIDE DEF W
  <2>5. Cardinality(G) <= Cardinality(W)
    BY <2>2, <2>4, FS_Subset
  <2> QED
    BY <1>2, <2>3, <2>4, <2>5
<1> QED
  BY <1>3, <1>4

\* Through Redis no second of the clock sees more requests of an amoCRM account than the
\* limit, and no second that begins in between more than twice as many, however many
\* requests and processes there are.
THEOREM WindowLimit ==
  ASSUME NEW attempts \in Seq(Nat), NEW limit \in Nat, NEW tick \in Nat
  PROVE  LET n == InSecond(attempts, GrantedByWindow(attempts, limit), tick)
         IN  n <= 2 * limit /\ (tick % Second = 0 => n <= limit)
<1> DEFINE granted == GrantedByWindow(attempts, limit)
           q  == tick \div Second
           G  == {i \in granted : attempts[i] \in tick .. tick + Second - 1}
           G0 == {i \in G : attempts[i] \div Second = q}
           G1 == {i \in G : attempts[i] \div Second = q + 1}
<1>1. G \subseteq granted /\ InSecond(attempts, granted, tick) = Cardinality(G)
  BY DEF InSecond
<1>2. \A i \in G : /\ attempts[i] \div Second \in {q, q + 1}
                   /\ tick % Second = 0 => attempts[i] \div Second = q
  BY Seconds
<1> HIDE DEF G, q, granted
<1>3. /\ IsFiniteSet(G0) /\ Cardinality(G0) \in Nat /\ Cardinality(G0) <= limit
      /\ IsFiniteSet(G1) /\ Cardinality(G1) \in Nat /\ Cardinality(G1) <= limit
  <2>1. G0 \in SUBSET granted /\ \A i \in G0 : attempts[i] \div Second = q
    BY <1>1
  <2>2. G1 \in SUBSET granted /\ \A i \in G1 : attempts[i] \div Second = q + 1
    BY <1>1
  <2> HIDE DEF G0, G1
  <2> QED
    BY <2>1, <2>2, OneWindow DEF granted
<1>4. Cardinality(G) <= 2 * limit
  <2>1. G = G0 \cup G1
    BY <1>2
  <2>2. IsFiniteSet(G0 \cap G1) /\ Cardinality(G0 \cap G1) \in Nat
    BY <1>3, FS_Intersection, FS_CardinalityType, FS_Subset
  <2> HIDE DEF G0, G1
  <2>3. Cardinality(G) = Cardinality(G0) + Cardinality(G1) - Cardinality(G0 \cap G1)
    BY <1>3, <2>1, FS_Union
  <2> QED
    BY <1>3, <2>2, <2>3
<1>5. tick % Second = 0 => Cardinality(G) <= limit
  <2>1. tick % Second = 0 => G = G0
    BY <1>2
  <2> QED
    BY <1>3, <2>1
<1> QED
  BY <1>1, <1>4, <1>5 DEF granted

\* Which requests are let through locally, of the first n.
Lets(attempts, limit, n, granted) ==
  /\ granted \in SUBSET (1 .. n)
  /\ \A i \in 1 .. n : i \in granted <=> Cardinality(Hits(attempts, granted, i)) < limit

LEMMA SomeLet ==
  ASSUME NEW attempts, NEW limit, NEW n \in Nat
  PROVE  \E granted : Lets(attempts, limit, n, granted)
<1> DEFINE T == {k \in Nat : ~\E granted : Lets(attempts, limit, k, granted)}
<1>1. SUFFICES ASSUME T # {} PROVE FALSE
  OBVIOUS
<1>2. PICK k \in T : \A m \in T : k <= m
  BY <1>1, LeastOf
<1>3. CASE k = 0
  <2>1. Lets(attempts, limit, 0, {})
    BY DEF Lets
  <2> QED
    BY <1>2, <1>3, <2>1
<1>4. CASE k # 0
  <2>1. k - 1 \in Nat /\ k - 1 \notin T
    BY <1>2, <1>4
  <2>2. PICK before : Lets(attempts, limit, k - 1, before)
    BY <2>1
  <2> DEFINE now == IF Cardinality(Hits(attempts, before, k)) < limit THEN before \cup {k} ELSE before
  <2>3. before \subseteq 1 .. k - 1 /\ now \subseteq 1 .. k /\ \A i \in 1 .. k - 1 : i \in now <=> i \in before
    BY <2>1, <2>2 DEF Lets
  <2>4. \A i \in 1 .. k : Hits(attempts, now, i) = Hits(attempts, before, i)
    BY <2>1, <2>3 DEF Hits
  <2>5. k \in now <=> Cardinality(Hits(attempts, before, k)) < limit
    BY <2>1, <2>3
  <2> HIDE DEF now
  <2>6. \A i \in 1 .. k : i \in 1 .. k - 1 \/ i = k
    BY <2>1
  <2>7. k \in 1 .. k
    BY <2>1
  <2>8. Lets(attempts, limit, k, now)
    BY <2>2, <2>3, <2>4, <2>5, <2>6, <2>7 DEF Lets
  <2> QED
    BY <1>2, <2>8
<1> QED
  BY <1>3, <1>4

\* Without Redis no second at all, whenever it begins, sees more requests of one process
\* than the limit.
THEOREM LocalLimit ==
  ASSUME NEW attempts \in Seq(Nat), NEW limit \in Nat, NEW tick \in Nat
  PROVE  InSecond(attempts, GrantedLocally(attempts, limit), tick) <= limit
<1> DEFINE n       == Len(attempts)
           granted == GrantedLocally(attempts, limit)
           G       == {i \in granted : attempts[i] \in tick .. tick + Second - 1}
<1>1. n \in Nat /\ DOMAIN attempts = 1 .. n
  BY LenProperties
<1>2. \A i \in 1 .. n : attempts[i] \in Nat
  BY <1>1, ElementOfSeq
<1>3. /\ granted \in SUBSET (1 .. n)
      /\ \A i \in 1 .. n : i \in granted <=> Cardinality(Hits(attempts, granted, i)) < limit
  <2>1. \E g \in SUBSET (1 .. n) : \A i \in 1 .. n : i \in g <=> Cardinality(Hits(attempts, g, i)) < limit
    BY <1>1, SomeLet DEF Lets
  <2> QED
    BY <1>1, <2>1 DEF GrantedLocally
<1> HIDE DEF granted
<1>4. InSecond(attempts, granted, tick) = Cardinality(G) /\ G \in SUBSET (1 .. n)
  BY <1>3 DEF InSecond
<1> SUFFICES Cardinality(G) <= limit
  BY <1>4 DEF granted
<1>5. CASE G = {}
  <2>1. Cardinality(G) = 0
    BY <1>5, FS_EmptySet
  <2> QED
    BY <2>1
<1>6. CASE G # {}
  <2>1. PICK i \in G : \A j \in G : j <= i
    BY <1>1, <1>4, <1>6, GreatestOf
  <2> DEFINE H == Hits(attempts, granted, i)
  <2>2. i \in 1 .. n /\ i \in granted
    BY <1>4
  <2>3. Cardinality(H) < limit
    BY <1>3, <2>2
  <2>4. G \ {i} \subseteq H
    BY <1>2, <1>4, <2>1, <2>2, SecondAssumption DEF Hits
  <2>5. H \in SUBSET (1 .. n)
    BY <1>3 DEF Hits
  <2>6. IsFiniteSet(H) /\ Cardinality(H) \in Nat /\ IsFiniteSet(G)
    BY <1>1, <1>4, <2>5, UpTo
  <2> HIDE DEF H, G
  <2>7. Cardinality(G \ {i}) <= Cardinality(H)
    BY <2>4, <2>6, FS_Subset
  <2>8. Cardinality(G \ {i}) = Cardinality(G) - 1 /\ Cardinality(G) \in Nat
    BY <2>1, <2>6, FS_RemoveElement, FS_CardinalityType
  <2> QED
    BY <2>3, <2>6, <2>7, <2>8
<1> QED
  BY <1>5, <1>6
=============================================================================
