------------------------------- MODULE AmoTokens -------------------------------
(***************************************************************************)
(* The connection to one amoCRM account (amocrm/oauth.py, client.py,       *)
(* services.connect, views.py): the token pair, who may refresh it, and    *)
(* how the connection is made, lost and given up.                          *)
(*                                                                         *)
(* amoCRM takes a refresh token once and answers with a new pair.  A       *)
(* process holds the row of the connection while it asks, and calls can    *)
(* fail before or after they took effect.                                  *)
(***************************************************************************)
EXTENDS Naturals

CONSTANTS
  Companies,    \* companies that connect this amoCRM account
  Procs,        \* web and Celery processes
  NoProc,
  MaxPairs,     \* how many pairs amoCRM issues (bound)
  MaxDeaths     \* how many processes die (bound)

ASSUME NoneAssumption == NoProc \notin Procs
ASSUME BoundAssumption == MaxPairs \in Nat /\ MaxDeaths \in Nat

VARIABLES
  live,         \* amoCRM: pairs whose refresh token works, by their number
  issued,       \* amoCRM: how many pairs it has issued
  row,          \* the AmoConnection row of the account
  locker,       \* the process that holds the row
  proc,         \* what each process is doing
  gone,         \* pairs of the row that were lost: revoked, or used in vain
  off,          \* amoCRM: the integration was switched off at least once
  hook,         \* an uninstall hook has read the row and not saved it yet
  givenUp,      \* history: the company disconnected it and nobody connected it since
  deaths

ends == <<off, hook, givenUp>>
vars == <<live, issued, row, locker, proc, gone, ends, deaths>>

Idle  == [step |-> "idle"]
NoRow == [there |-> FALSE]
Ages  == {"fresh", "soon", "due"}     \* expires_at: "soon" in 6 hours, "due" in 2
Pairs == 0 .. MaxPairs                \* 0: empty tokens
Row   == [there: {TRUE}, company: Companies, pair: Pairs,
          status: {"active", "error", "disconnected"}, age: Ages]
Refreshing == [step: {"lock", "http", "store", "fail"}, force: BOOLEAN, old: Pairs, new: Pairs]
Connecting == [step: {"check", "put"}, company: Companies, new: Pairs]

TypeOK ==
  /\ live \subseteq 1 .. MaxPairs /\ gone \subseteq Pairs
  /\ issued \in Pairs
  /\ row \in {NoRow} \cup Row
  /\ locker \in Procs \cup {NoProc}
  /\ proc \in [Procs -> {Idle} \cup Refreshing \cup Connecting]
  /\ off \in BOOLEAN /\ hook \in BOOLEAN /\ givenUp \in BOOLEAN
  /\ deaths \in 0 .. MaxDeaths

Init ==
  /\ live = {} /\ issued = 0
  /\ row = NoRow
  /\ locker = NoProc
  /\ proc = [p \in Procs |-> Idle]
  /\ gone = {} /\ deaths = 0
  /\ off = FALSE /\ hook = FALSE /\ givenUp = FALSE

At(p, step) == proc[p].step = step
Go(p, r)    == proc' = [proc EXCEPT ![p] = r]
Step(p, s)  == proc' = [proc EXCEPT ![p].step = s]

Refresh(force) == [step |-> "lock", force |-> force, old |-> 0, new |-> 0]

(***************************************************************************)
(* oauth.refresh                                                           *)
(***************************************************************************)

\* Variant: the row is read without a lock.
LockNothing(p) == UNCHANGED locker

Lock(p) ==
  /\ locker = NoProc
  /\ locker' = p

Unlock(p) == locker' = IF locker = p THEN NoProc ELSE locker

\* The row may be gone when its turn comes; somebody may have refreshed meanwhile.
RefreshBegin(p) ==
  /\ At(p, "lock")
  /\ IF ~row.there
     THEN Go(p, Idle) /\ UNCHANGED locker
     ELSE IF ~proc[p].force /\ row.age # "due"
     THEN locker = NoProc /\ Go(p, Idle) /\ UNCHANGED locker
     ELSE Lock(p) /\ Go(p, [proc[p] EXCEPT !.step = "http", !.old = row.pair])
  /\ UNCHANGED <<live, issued, row, gone, ends, deaths>>

\* amoCRM takes the token and answers with the next pair.
RefreshGranted(p) ==
  LET old == proc[p].old
  IN  /\ At(p, "http")
      /\ old \in live /\ issued < MaxPairs
      /\ issued' = issued + 1
      /\ live' = (live \ {old}) \cup {issued'}
      /\ Go(p, [proc[p] EXCEPT !.step = "store", !.new = issued'])
      /\ UNCHANGED <<row, locker, gone, ends, deaths>>

\* The same with the answer lost: the exception is not an OAuthError and rolls
\* the transaction back, and the pair in the row is spent.
RefreshAnswerLost(p) ==
  LET old == proc[p].old
  IN  /\ At(p, "http")
      /\ old \in live /\ issued < MaxPairs
      /\ issued' = issued + 1
      /\ live' = (live \ {old}) \cup {issued'}
      /\ gone' = gone \cup {old}
      /\ Go(p, Idle) /\ Unlock(p)
      /\ UNCHANGED <<row, ends, deaths>>

\* The request does not arrive, or is answered with another status than 200.
RefreshRefused(p) ==
  /\ At(p, "http")
  /\ Go(p, Idle) \/ Step(p, "fail")
  /\ Unlock(p)
  /\ UNCHANGED <<live, issued, row, gone, ends, deaths>>

RefreshStore(p) ==
  /\ At(p, "store")
  /\ row' = IF row.there
            THEN [row EXCEPT !.pair = proc[p].new, !.status = "active", !.age = "fresh"] ELSE row
  /\ Go(p, Idle) /\ Unlock(p)
  /\ UNCHANGED <<live, issued, gone, ends, deaths>>

\* Outside the transaction, so that raising does not roll it back.
RefreshFail(p) ==
  /\ At(p, "fail")
  /\ locker = NoProc
  /\ row' = IF row.there THEN [row EXCEPT !.status = "error"] ELSE row
  /\ Go(p, Idle)
  /\ UNCHANGED <<live, issued, locker, gone, ends, deaths>>

RefreshSteps(p) ==
  \/ RefreshBegin(p) \/ RefreshGranted(p) \/ RefreshAnswerLost(p) \/ RefreshRefused(p)
  \/ RefreshStore(p) \/ RefreshFail(p)

(***************************************************************************)
(* Who refreshes: the hourly task, and a request to amoCRM.                *)
(***************************************************************************)

\* Variant: the hourly task refreshes only what a request would.
RefreshExpiringUnforced(p) ==
  /\ At(p, "idle")
  /\ row.there /\ row.status = "active" /\ row.age # "fresh"
  /\ Go(p, Refresh(FALSE))
  /\ UNCHANGED <<live, issued, row, locker, gone, ends, deaths>>

RefreshExpiringTokens(p) ==
  /\ At(p, "idle")
  /\ row.there /\ row.status = "active" /\ row.age # "fresh"
  /\ Go(p, Refresh(TRUE))
  /\ UNCHANGED <<live, issued, row, locker, gone, ends, deaths>>

\* Before the call when the tokens are due, and after it met a 401; the dashboard
\* also asks on behalf of a row that is disconnected.
Request(p) ==
  /\ At(p, "idle")
  /\ row.there
  /\ \E force \in BOOLEAN :
       /\ force \/ row.age = "due"
       /\ Go(p, Refresh(force))
  /\ UNCHANGED <<live, issued, row, locker, gone, ends, deaths>>

\* 402 and 403: the connection needs attention, whoever still used it.
MarkError ==
  /\ row.there /\ locker = NoProc
  /\ row.status # "error"
  /\ row' = [row EXCEPT !.status = "error"]
  /\ UNCHANGED <<live, issued, locker, proc, gone, ends, deaths>>

Expire ==
  /\ row.there
  /\ \/ row.age = "fresh" /\ row' = [row EXCEPT !.age = "soon"]
     \/ row.age = "soon" /\ row' = [row EXCEPT !.age = "due"]
  /\ UNCHANGED <<live, issued, locker, proc, gone, ends, deaths>>

(***************************************************************************)
(* services.connect: the code for a pair, then the row.                    *)
(***************************************************************************)

ConnectExchange(p, c) ==
  /\ At(p, "idle")
  /\ issued < MaxPairs
  /\ issued' = issued + 1
  /\ live' = live \cup {issued'}
  /\ Go(p, [step |-> "check", company |-> c, new |-> issued'])
  /\ UNCHANGED <<row, locker, gone, ends, deaths>>

\* Another company's row is deleted when it is disconnected, and refused otherwise;
\* a hook that had read it has no row to save then.
ConnectCheck(p) ==
  /\ At(p, "check")
  /\ IF row.there /\ row.company # proc[p].company
     THEN IF row.status = "disconnected"
          THEN locker = NoProc /\ row' = NoRow /\ hook' = FALSE /\ Step(p, "put")
          ELSE Go(p, Idle) /\ UNCHANGED <<row, hook>>
     ELSE Step(p, "put") /\ UNCHANGED <<row, hook>>
  /\ UNCHANGED <<live, issued, locker, gone, off, givenUp, deaths>>

\* update_or_create by the account: whosever row is there by then.
ConnectPut(p) ==
  /\ At(p, "put")
  /\ locker = NoProc
  /\ row' = [there |-> TRUE, company |-> proc[p].company, pair |-> proc[p].new,
             status |-> "active", age |-> "fresh"]
  /\ givenUp' = FALSE
  /\ Go(p, Idle)
  /\ UNCHANGED <<live, issued, locker, gone, off, hook, deaths>>

Connect(p) == (\E c \in Companies : ConnectExchange(p, c)) \/ ConnectCheck(p) \/ ConnectPut(p)

(***************************************************************************)
(* The end of a connection.                                                *)
(***************************************************************************)

\* Variant: the tokens stay in the row.
DisconnectOnly ==
  /\ row.there /\ locker = NoProc
  /\ row' = [row EXCEPT !.status = "disconnected"]
  /\ givenUp' = TRUE
  /\ UNCHANGED <<live, issued, locker, proc, gone, off, hook, deaths>>

\* The company disconnects; its tokens go, its settings stay.
Disconnect ==
  /\ row.there /\ locker = NoProc
  /\ row' = [row EXCEPT !.status = "disconnected", !.pair = 0]
  /\ givenUp' = TRUE
  /\ UNCHANGED <<live, issued, locker, proc, gone, off, hook, deaths>>

\* The integration is switched off in amoCRM: its tokens are dead, and amoCRM
\* calls the hook, now, later or never.
Revoke ==
  /\ live # {}
  /\ live' = {}
  /\ gone' = gone \cup live
  /\ off' = TRUE
  /\ UNCHANGED <<issued, row, locker, proc, hook, givenUp, deaths>>

\* The hook reads the row without a lock.  Its signature is made with the keys in
\* the row, which a company that connects the same integration again has kept.
UninstallRead ==
  /\ off
  /\ row.there
  /\ hook' = TRUE
  /\ UNCHANGED <<live, issued, row, locker, proc, gone, off, givenUp, deaths>>

\* It saves the status, whatever became of the row in between.
UninstallSave ==
  /\ hook
  /\ row.there /\ locker = NoProc
  /\ row' = [row EXCEPT !.status = "disconnected"]
  /\ hook' = FALSE
  /\ UNCHANGED <<live, issued, locker, proc, gone, off, givenUp, deaths>>

\* The database rolls back and lets go of the row.
Die(p) ==
  /\ deaths < MaxDeaths
  /\ deaths' = deaths + 1
  /\ ~At(p, "idle")
  /\ gone' = IF At(p, "store") THEN gone \cup {proc[p].old} ELSE gone
  /\ Go(p, Idle) /\ Unlock(p)
  /\ UNCHANGED <<live, issued, row, ends>>

Next ==
  \/ \E p \in Procs : RefreshSteps(p) \/ RefreshExpiringTokens(p) \/ Request(p) \/ Connect(p) \/ Die(p)
  \/ MarkError \/ Expire \/ Disconnect \/ Revoke \/ UninstallRead \/ UninstallSave

Spec == Init /\ [][Next]_vars

\* A process goes on with its refresh, a free row is taken by those that wait
\* for it in turn, amoCRM does not refuse a good token for ever, and the beat
\* runs every hour.
FairSpec ==
  /\ Spec
  /\ \A p \in Procs : SF_vars(RefreshSteps(p)) /\ SF_vars(RefreshGranted(p))
  /\ SF_vars(\E p \in Procs : RefreshExpiringTokens(p))

(***************************************************************************)
(* Properties                                                              *)
(***************************************************************************)

\* The pair in the row works, unless amoCRM revoked it or an answer or a process
\* was lost on the way: no two refreshes spend the same token, and none stores a
\* pair over a newer one.
PairWorks ==
  row.there /\ locker = NoProc /\ row.status # "disconnected" => row.pair \in live \cup gone \cup {0}

\* A connection that the company gave up, or whose pair works no more while no
\* refresh holds the row, is made active by the step that connects it and by no
\* other: not by a refresh that waited for the row.  (A late hook may disconnect a
\* row that was connected again; a refresh may make that one active.)
Active(r) == r.there /\ r.status = "active"
Lost      == givenUp \/ (row.there /\ locker = NoProc /\ row.pair \notin live)

BackOnlyByConnect ==
  [][Lost /\ ~Active(row) /\ Active(row') => \E p \in Procs : ConnectPut(p)]_vars

\* An active connection does not stay near the end of its tokens: it is refreshed,
\* or found not to work any more (MaxPairs bounds what amoCRM grants).
KeptFresh ==
  row.there /\ row.status = "active" /\ row.age # "fresh"
    ~> ~row.there \/ row.age = "fresh" \/ row.status # "active" \/ row.pair \in gone \/ issued = MaxPairs
================================================================================
