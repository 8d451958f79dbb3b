-------------------------------- MODULE Sessions -------------------------------
(***************************************************************************)
(* Signing in to a company and being signed out (accounts/services.py,     *)
(* api.py, admin.py, core/api.py).  Django keeps a session per browser and *)
(* host; a browser signs in to every company apart, with its password or   *)
(* with a handoff token that works once.                                   *)
(*                                                                         *)
(* A request loads its session, works, and saves it; requests of the same  *)
(* browser, and of those who end its session, run at the same time.        *)
(***************************************************************************)
EXTENDS Naturals

CONSTANTS
  Users, Companies, Browsers,
  Managers,     \* users who are owner or admin where they are a member
  Hosts,        \* one for the site (path tenancy), or one per company
  HostOf,       \* the host a company is on
  Tokens,       \* handoff tokens
  Procs,        \* web processes that sign somebody in
  Operators,    \* web processes that end sessions
  None,
  MaxSignIns,   \* sign-ins begun (bound)
  MaxChanges    \* blocks, members removed, settings saved, sessions ended (bound)

ASSUME HostAssumption == HostOf \in [Companies -> Hosts]
ASSUME NoneAssumption == None \notin Users \cup Procs \cup Tokens
ASSUME BoundAssumption == MaxSignIns \in Nat /\ MaxChanges \in Nat
ASSUME ManagerAssumption == Managers \subseteq Users

VARIABLES
  session,      \* django_session: what each key stands for
  issued,       \* how many keys were issued
  cookie,       \* the session key each browser has for each host, 0 if none
  rows,         \* UserSession: the company each key signed in to last
  members,      \* Membership rows
  active,       \* companies that are not blocked
  single,       \* companies with one device at a time
  changes,      \* what members and the platform did to all that
  token,        \* HandoffToken rows
  holder,       \* the process that holds the row of a token
  proc,         \* what each process is doing
  sweep,        \* which rows each operator is about to delete
  begun,        \* sign-ins begun
  proved,       \* who gave a password or a token, in which browser, for which company
  redeemed,     \* how many sign-ins a token was good for
  ended         \* keys somebody signed out

store  == <<session, issued, cookie, rows, ended>>
tables == <<members, active, single, changes>>
seen   == <<proved, redeemed>>
vars   == <<store, tables, token, holder, proc, sweep, begun, seen>>

Keys    == 1 .. MaxSignIns         \* each makes one at most
Nothing == [there |-> FALSE]          \* no session, no row
Idle    == [step |-> "idle"]
NoToken == [state |-> "none"]

Session == [there: {TRUE}, user: Users, companies: SUBSET Companies]
Row     == [there: {TRUE}, user: Users, company: Companies]
Handoff == [state: {"open", "spent"}, user: Users, company: Companies]
SignIn  == [step: {"lock", "redeem", "login", "grant", "others", "end", "clear", "row", "answer"},
            browser: Browsers, user: Users \cup {None}, company: Companies, alone: BOOLEAN,
            token: Tokens \cup {None}, key: Keys \cup {0}, companies: SUBSET Companies,
            others: SUBSET Keys]
Query   == [keys: SUBSET Keys, users: SUBSET Users, companies: SUBSET Companies]
Sweep   == [step: {"keys", "found", "rows"}, query: Query]

TypeOK ==
  /\ session \in [Keys -> {Nothing} \cup Session]
  /\ issued \in 0 .. MaxSignIns /\ begun \in 0 .. MaxSignIns
  /\ cookie \in [Browsers -> [Hosts -> Keys \cup {0}]]
  /\ rows \in [Keys -> {Nothing} \cup Row]
  /\ members \subseteq Users \X Companies
  /\ active \subseteq Companies /\ single \subseteq Companies /\ changes \in 0 .. MaxChanges
  /\ token \in [Tokens -> {NoToken} \cup Handoff]
  /\ holder \in [Tokens -> Procs \cup {None}]
  /\ proc \in [Procs -> {Idle} \cup SignIn]
  /\ sweep \in [Operators -> {Idle} \cup Sweep]
  /\ proved \subseteq Browsers \X Users \X Companies
  /\ redeemed \in [Tokens -> Nat]
  /\ ended \subseteq Keys

Init ==
  /\ session = [k \in Keys |-> Nothing] /\ issued = 0 /\ begun = 0
  /\ cookie = [b \in Browsers |-> [h \in Hosts |-> 0]]
  /\ rows = [k \in Keys |-> Nothing]
  /\ members = Users \X Companies
  /\ active = Companies /\ single = Companies /\ changes = 0
  /\ token = [t \in Tokens |-> NoToken]
  /\ holder = [t \in Tokens |-> None]
  /\ proc = [p \in Procs |-> Idle] /\ sweep = [o \in Operators |-> Idle]
  /\ proved = {} /\ redeemed = [t \in Tokens |-> 0] /\ ended = {}

At(p, step) == proc[p].step = step
Go(p, r)    == proc' = [proc EXCEPT ![p] = r]
Done(p)     == Go(p, Idle)

(***************************************************************************)
(* Who is let in: CompanyMember.authenticate and TenantMiddleware          *)
(***************************************************************************)

\* The session a browser has with a host, if it is still there.
KeyOf(b, h) == LET k == cookie[b][h] IN IF k # 0 /\ session[k].there THEN k ELSE 0

IsMember(u, c) == <<u, c>> \in members

\* Variant: a member is let in, whatever its browser signed in to.
HasAny(k, c) == TRUE

\* has_company
HasCompany(k, c) == c \in session[k].companies

MayEnter(b, c) ==
  LET k == KeyOf(b, HostOf[c])
  IN  /\ c \in active
      /\ k # 0
      /\ IsMember(session[k].user, c)
      /\ HasCompany(k, c)

(***************************************************************************)
(* Signing in                                                              *)
(***************************************************************************)

\* The request has loaded the company, with its security settings.
Begin(p, step, b, u, c, t) ==
  /\ begun < MaxSignIns
  /\ begun' = begun + 1
  /\ Go(p, [step |-> step, browser |-> b, user |-> u, company |-> c, alone |-> c \in single,
            token |-> t, key |-> 0, companies |-> {}, others |-> {}])

\* login_view on a company's host.
PasswordLogin(p, b, u, c) ==
  /\ At(p, "idle")
  /\ c \in active /\ IsMember(u, c)
  /\ Begin(p, "login", b, u, c, None)
  /\ proved' = proved \cup {<<b, u, c>>}
  /\ UNCHANGED <<store, tables, token, holder, redeemed, sweep>>

\* login_view on the main site, and signup: a token for the browser to carry.
IssueHandoff(t, u, c) ==
  /\ token[t] = NoToken
  /\ c \in active /\ IsMember(u, c)
  /\ token' = [token EXCEPT ![t] = [state |-> "open", user |-> u, company |-> c]]
  /\ UNCHANGED <<store, tables, holder, proc, begun, seen, sweep>>

\* The link that carries it may be opened twice.
HandoffStart(p, b, t) ==
  /\ At(p, "idle")
  /\ token[t] # NoToken
  /\ token[t].company \in active
  /\ Begin(p, "lock", b, None, token[t].company, t)
  /\ UNCHANGED <<store, tables, token, holder, seen, sweep>>

\* Variant: the row is read without a lock.
LockNothing(p, t) == UNCHANGED holder

LockToken(p, t) == holder[t] = None /\ holder' = [holder EXCEPT ![t] = p]

\* redeem_handoff: those that waited for the row look at it again.
RedeemRead(p) ==
  LET t == proc[p].token
  IN  /\ At(p, "lock")
      /\ token[t].state = "open"
      /\ LockToken(p, t)
      /\ Go(p, [proc[p] EXCEPT !.step = "redeem", !.user = token[t].user])
      /\ UNCHANGED <<store, tables, token, begun, seen, sweep>>

\* Used, or too old.
RedeemRefused(p) ==
  /\ At(p, "lock")
  /\ holder[proc[p].token] = None
  /\ Done(p)
  /\ UNCHANGED <<store, tables, token, holder, begun, seen, sweep>>

RedeemSave(p) ==
  LET r == proc[p]
  IN  /\ At(p, "redeem")
      /\ token' = [token EXCEPT ![r.token].state = "spent"]
      /\ holder' = [holder EXCEPT ![r.token] = IF @ = p THEN None ELSE @]
      /\ redeemed' = [redeemed EXCEPT ![r.token] = @ + 1]
      /\ proved' = proved \cup {<<r.browser, r.user, r.company>>}
      /\ Go(p, [r EXCEPT !.step = "login"])
      /\ UNCHANGED <<store, tables, begun, sweep>>

\* Django's login(): the session of the same user is kept, another user's is
\* flushed; without one a new key is made.
Login(p) ==
  LET r    == proc[p]
      k    == KeyOf(r.browser, HostOf[r.company])
      mine == k # 0 /\ session[k].user = r.user
  IN  /\ At(p, "login")
      /\ session' = IF k # 0 /\ ~mine THEN [session EXCEPT ![k] = Nothing] ELSE session
      /\ Go(p, [r EXCEPT !.step = "grant", !.key = IF mine THEN k ELSE 0,
                         !.companies = IF mine THEN session[k].companies ELSE {}])
      /\ UNCHANGED <<issued, cookie, rows, ended, tables, token, holder, begun, seen, sweep>>

Data(r) == [there |-> TRUE, user |-> r.user, companies |-> r.companies \cup {r.company}]

\* Saving a session that was deleted meanwhile fails: it is an UPDATE of its row.
CanSave(k) == session[k].there

\* grant_company, up to its save.
Grant(p) ==
  LET r == proc[p]
      k == IF r.key # 0 THEN r.key ELSE issued + 1
  IN  /\ At(p, "grant")
      /\ k \in Keys      \* always: a sign-in makes one key at most
      /\ IF r.key # 0 /\ ~CanSave(r.key)
         THEN Done(p) /\ UNCHANGED <<session, issued>>
         ELSE /\ issued' = IF r.key # 0 THEN issued ELSE k
              /\ session' = [session EXCEPT ![k] = Data(r)]
              /\ Go(p, [r EXCEPT !.step = IF r.alone THEN "others" ELSE "row", !.key = k])
      /\ UNCHANGED <<cookie, rows, ended, tables, token, holder, begun, seen, sweep>>

\* The rows that a query finds now.
Found(q) ==
  {k \in q.keys : rows[k].there /\ rows[k].user \in q.users /\ rows[k].company \in q.companies}

Without(f, ks) == [k \in Keys |-> IF k \in ks THEN Nothing ELSE f[k]]

\* The other devices of the user in the company.
OtherRows(r) == [keys |-> Keys \ {r.key}, users |-> {r.user}, companies |-> {r.company}]

\* With one device at a time: their keys are listed,
ListOthers(p) ==
  LET r == proc[p]
  IN  /\ At(p, "others")
      /\ Go(p, [r EXCEPT !.step = "end", !.others = Found(OtherRows(r))])
      /\ UNCHANGED <<store, tables, token, holder, sweep, begun, seen>>

\* Variant: the sessions stay, the rows go from the list.
EndNoOthers(p) ==
  /\ At(p, "end")
  /\ ended' = ended \cup proc[p].others
  /\ Go(p, [proc[p] EXCEPT !.step = "clear", !.others = {}])
  /\ UNCHANGED <<session, issued, cookie, rows, tables, token, holder, sweep, begun, seen>>

\* the sessions of the listed keys are deleted,
EndOthers(p) ==
  /\ At(p, "end")
  /\ session' = Without(session, proc[p].others)
  /\ ended' = ended \cup proc[p].others
  /\ Go(p, [proc[p] EXCEPT !.step = "clear", !.others = {}])
  /\ UNCHANGED <<issued, cookie, rows, tables, token, holder, sweep, begun, seen>>

\* and the rows by a query of their own: a row that was put in between goes too,
\* and its session stays.
ClearOthers(p) ==
  /\ At(p, "clear")
  /\ rows' = Without(rows, Found(OtherRows(proc[p])))
  /\ Go(p, [proc[p] EXCEPT !.step = "row"])
  /\ UNCHANGED <<session, issued, cookie, ended, tables, token, holder, sweep, begun, seen>>

\* update_or_create by the key, so that a key has the row of the company it signed
\* in to last.
PutRow(p) ==
  LET r == proc[p]
  IN  /\ At(p, "row")
      /\ rows' = [rows EXCEPT ![r.key] = [there |-> TRUE, user |-> r.user, company |-> r.company]]
      /\ Go(p, [r EXCEPT !.step = "answer"])
      /\ UNCHANGED <<session, issued, cookie, ended, tables, token, holder, sweep, begun, seen>>

\* The middleware saves the session again and sets the cookie, or the request fails.
Answer(p) ==
  LET r == proc[p]
  IN  /\ At(p, "answer")
      /\ IF CanSave(r.key)
         THEN /\ session' = [session EXCEPT ![r.key] = Data(r)]
              /\ cookie' = [cookie EXCEPT ![r.browser][HostOf[r.company]] = r.key]
         ELSE UNCHANGED <<session, cookie>>
      /\ Done(p)
      /\ UNCHANGED <<issued, rows, ended, tables, token, holder, begun, seen, sweep>>

\* A crash; the database lets go of the token.
Die(p) ==
  /\ ~At(p, "idle")
  /\ Done(p)
  /\ holder' = [t \in Tokens |-> IF holder[t] = p THEN None ELSE holder[t]]
  /\ UNCHANGED <<store, tables, token, begun, seen, sweep>>

(***************************************************************************)
(* Signing out                                                             *)
(***************************************************************************)

\* logout_view: the session is flushed, its UserSession row stays.
Logout(b, c) ==
  /\ MayEnter(b, c)
  /\ session' = [session EXCEPT ![KeyOf(b, HostOf[c])] = Nothing]
  /\ cookie' = [cookie EXCEPT ![b][HostOf[c]] = 0]
  /\ ended' = ended \cup {KeyOf(b, HostOf[c])}
  /\ UNCHANGED <<issued, rows, tables, token, holder, proc, begun, seen, sweep>>

Change == changes < MaxChanges /\ changes' = changes + 1

Sweeping(o, step) == sweep[o].step = step
Sweeps(o, r)      == sweep' = [sweep EXCEPT ![o] = r]

EndKeys(ks) ==
  /\ session' = Without(session, ks)
  /\ ended' = ended \cup ks

\* A user ends a session of its own, a manager any of the company: the row is read
\* for its key.
EndSession(o, b, c, k) ==
  /\ Sweeping(o, "idle")
  /\ Change
  /\ MayEnter(b, c)
  /\ rows[k].there /\ rows[k].company = c
  /\ LET u == session[KeyOf(b, HostOf[c])].user IN rows[k].user = u \/ u \in Managers
  /\ Sweeps(o, [step |-> "keys", query |-> [keys |-> {k}, users |-> Users, companies |-> Companies]])
  /\ UNCHANGED <<store, members, active, single, token, holder, proc, begun, seen>>

\* end_session deletes the session of the key.
EndKey(o) ==
  LET q == sweep[o].query
  IN  /\ Sweeping(o, "keys")
      /\ EndKeys(q.keys)
      /\ Sweeps(o, [step |-> "rows", query |-> q])
      /\ UNCHANGED <<issued, cookie, rows, tables, token, holder, proc, begun, seen>>

\* The platform's admin deletes the sessions of the rows a query finds.
EndFound(o, q) ==
  /\ EndKeys(Found(q))
  /\ Sweeps(o, [step |-> "rows", query |-> q])

\* A user everywhere, or one device of the list.
EndSessions(o) ==
  /\ Sweeping(o, "idle")
  /\ Change
  /\ \/ \E u \in Users : EndFound(o, [keys |-> Keys, users |-> {u}, companies |-> Companies])
     \/ \E k \in Keys : EndFound(o, [keys |-> {k}, users |-> Users, companies |-> Companies])
  /\ UNCHANGED <<issued, cookie, rows, members, active, single, token, holder, proc, begun, seen>>

\* A blocked company is closed first, then come the devices signed in to it.
Block(o, c) ==
  /\ Sweeping(o, "idle")
  /\ c \in active
  /\ Change
  /\ active' = active \ {c}
  /\ Sweeps(o, [step |-> "found", query |-> [keys |-> Keys, users |-> Users, companies |-> {c}]])
  /\ UNCHANGED <<store, members, single, token, holder, proc, begun, seen>>

EndBlocked(o) ==
  /\ Sweeping(o, "found")
  /\ EndFound(o, sweep[o].query)
  /\ UNCHANGED <<issued, cookie, rows, tables, token, holder, proc, begun, seen>>

\* The rows go last, by a query of their own.
ClearRows(o) ==
  /\ Sweeping(o, "rows")
  /\ rows' = Without(rows, Found(sweep[o].query))
  /\ Sweeps(o, Idle)
  /\ UNCHANGED <<session, issued, cookie, ended, tables, token, holder, proc, begun, seen>>

\* Deleting rows in bulk from the admin's list leaves their sessions.
DeleteSelected(k) ==
  /\ Change
  /\ rows[k].there
  /\ rows' = Without(rows, {k})
  /\ UNCHANGED <<session, issued, cookie, ended, members, active, single, token, holder, proc, sweep, begun, seen>>

\* An operator that dies deletes nothing more.
Abandon(o) ==
  /\ ~Sweeping(o, "idle")
  /\ Sweeps(o, Idle)
  /\ UNCHANGED <<store, tables, token, holder, proc, begun, seen>>

OperatorSteps(o) ==
  \/ \E b \in Browsers, c \in Companies, k \in Keys : EndSession(o, b, c, k)
  \/ EndKey(o) \/ EndSessions(o) \/ EndBlocked(o) \/ ClearRows(o) \/ Abandon(o)
  \/ \E c \in Companies : Block(o, c)

Unblock(c) ==
  /\ c \notin active
  /\ active' = active \cup {c}
  /\ UNCHANGED <<store, members, single, changes, token, holder, proc, begun, seen, sweep>>

RemoveMember(u, c) ==
  /\ IsMember(u, c)
  /\ Change
  /\ members' = members \ {<<u, c>>}
  /\ UNCHANGED <<store, active, single, token, holder, proc, begun, seen, sweep>>

\* save_security
SaveSecurity(b, c) ==
  /\ MayEnter(b, c)
  /\ session[KeyOf(b, HostOf[c])].user \in Managers
  /\ Change
  /\ single' = IF c \in single THEN single \ {c} ELSE single \cup {c}
  /\ UNCHANGED <<store, members, active, token, holder, proc, begun, seen, sweep>>

SignInSteps(p) ==
  \/ \E b \in Browsers, u \in Users, c \in Companies : PasswordLogin(p, b, u, c)
  \/ \E b \in Browsers, t \in Tokens : HandoffStart(p, b, t)
  \/ RedeemRead(p) \/ RedeemRefused(p) \/ RedeemSave(p)
  \/ Login(p) \/ Grant(p) \/ ListOthers(p) \/ EndOthers(p) \/ ClearOthers(p) \/ PutRow(p) \/ Answer(p)
  \/ Die(p)

Next ==
  \/ \E p \in Procs : SignInSteps(p)
  \/ \E o \in Operators : OperatorSteps(o)
  \/ \E t \in Tokens, u \in Users, c \in Companies : IssueHandoff(t, u, c)
  \/ \E b \in Browsers, c \in Companies : Logout(b, c) \/ SaveSecurity(b, c)
  \/ \E k \in Keys : DeleteSelected(k)
  \/ \E u \in Users, c \in Companies : RemoveMember(u, c)
  \/ \E c \in Companies : Unblock(c)

Spec == Init /\ [][Next]_vars

(***************************************************************************)
(* Properties                                                              *)
(***************************************************************************)

\* A handoff token signs in one browser, as the user it was made for, also when
\* its link is opened twice at the same time.
HandoffOnce == \A t \in Tokens : redeemed[t] <= 1

\* Whoever is let in to a company gave its password, or a token, for that company
\* in that browser: being a member and signed in to another company of the same
\* site is not enough.
OnlyProven ==
  \A b \in Browsers, c \in Companies :
    MayEnter(b, c) => <<b, session[KeyOf(b, HostOf[c])].user, c>> \in proved

\* A session somebody ended is not there: no sign-in that was on its way in the
\* same session, in whatever company, brings it back.  (Ended is what a sign-out
\* deleted as a session: a row that goes alone, by a later query or in bulk, is not.)
EndedIsOut == \A k \in ended : ~session[k].there
================================================================================
