---------------------------- MODULE SessionsProofs ----------------------------
(* Theorems of Sessions, for any users, companies, browsers, hosts, tokens and *)
(* processes, and any number of sign-ins.                                      *)
EXTENDS Sessions, TLAPS

(***************************************************************************)
(* The inductive invariant                                                 *)
(***************************************************************************)

\* Where a sign-in has its key.
Late == {"others", "end", "clear", "row", "answer"}

\* What a sign-in knows of itself at each of its steps.
Knows(r) ==
  /\ r.step \in {"lock", "redeem"} => r.token \in Tokens
  /\ r.step \in {"redeem", "login", "grant"} \cup Late => r.user \in Users
  /\ r.step \in {"lock", "redeem", "login"} => r.key = 0 /\ r.companies = {}
  /\ r.step \in Late => r.key # 0

SignInsKnow == \A p \in Procs : Knows(proc[p])

\* A token that is being redeemed is open and held; one that was, is spent.
TokensHeld ==
  /\ \A t \in Tokens : redeemed[t] # 0 => token[t].state = "spent"
  /\ \A p \in Procs : proc[p].step = "redeem" =>
       token[proc[p].token].state = "open" /\ holder[proc[p].token] = p

\* Keys that were not issued stand for nothing.
KeysIssued ==
  /\ \A k \in Keys : session[k].there \/ rows[k].there => k <= issued
  /\ \A k \in ended : k <= issued
  /\ \A b \in Browsers, h \in Hosts : cookie[b][h] <= issued
  /\ \A p \in Procs : proc[p].step # "idle" => proc[p].key <= issued
  /\ \A p \in Procs : proc[p].step = "end" => \A k \in proc[p].others : k <= issued
  /\ \A o \in Operators : sweep[o].step = "keys" => \A k \in sweep[o].query.keys : k <= issued

\* The key is one of the browser's, or will be.
Has(b, k) ==
  \/ \E h \in Hosts : cookie[b][h] = k
  \/ \E p \in Procs : proc[p].step # "idle" /\ proc[p].browser = b /\ proc[p].key = k

OneBrowser == \A k \in Keys : \A a, b \in Browsers : Has(a, k) /\ Has(b, k) => a = b

\* A session lets in to nothing but what was proved in its browser.
SessionsProven ==
  \A k \in Keys : \A b \in Browsers :
    Has(b, k) /\ session[k].there =>
      \A c \in session[k].companies : <<b, session[k].user, c>> \in proved

\* Nor does one that is about to be saved.
Proven(r, s, known) ==
  /\ r.step \in {"login", "grant"} \cup Late =>
       \A c \in r.companies \cup {r.company} : <<r.browser, r.user, c>> \in known
  /\ r.step # "idle" /\ r.key \in Keys => (s[r.key].there => s[r.key].user = r.user)

SignInsProven == \A p \in Procs : Proven(proc[p], session, proved)

IInv ==
  /\ TypeOK /\ SignInsKnow /\ KeysIssued
  /\ TokensHeld /\ HandoffOnce
  /\ OneBrowser /\ SessionsProven /\ SignInsProven
  /\ EndedIsOut

-----------------------------------------------------------------------------
\* A process that is not idle is signing somebody in.
LEMMA SigningIn ==
  ASSUME TypeOK, NEW p \in Procs, proc[p].step # "idle"
  PROVE  proc[p] \in SignIn
BY DEF TypeOK, Idle

LEMMA KeysAreNumbers == Keys \subseteq Nat /\ 0 \notin Keys
BY BoundAssumption DEF Keys

\* What the middleware finds is a key of the browser, or none.
LEMMA KeyFound ==
  ASSUME TypeOK, NEW b \in Browsers, NEW h \in Hosts
  PROVE  /\ KeyOf(b, h) \in Keys \cup {0}
         /\ KeyOf(b, h) # 0 => /\ KeyOf(b, h) = cookie[b][h]
                               /\ session[KeyOf(b, h)].there
BY DEF TypeOK, KeyOf

\* Deleting rows leaves rows, and takes only from what is there.
LEMMA WithoutLemma ==
  ASSUME NEW S, NEW f \in [Keys -> {Nothing} \cup S], NEW ks
  PROVE  /\ Without(f, ks) \in [Keys -> {Nothing} \cup S]
         /\ \A k \in Keys : Without(f, ks)[k] = IF k \in ks THEN Nothing ELSE f[k]
BY DEF Without

\* What is saved is a session of the user.
LEMMA DataLemma ==
  ASSUME NEW r \in SignIn, r.user \in Users
  PROVE  /\ Data(r) \in Session
         /\ Data(r).there /\ Data(r).user = r.user
         /\ Data(r).companies = r.companies \cup {r.company}
BY DEF Data, SignIn, Session

\* A process goes on with a sign-in.
LEMMA Moves ==
  ASSUME TypeOK, SignInsKnow, NEW p \in Procs, NEW r \in {Idle} \cup SignIn, Go(p, r), Knows(r)
  PROVE  /\ proc' \in [Procs -> {Idle} \cup SignIn]
         /\ \A q \in Procs : proc'[q] = IF q = p THEN r ELSE proc[q]
         /\ SignInsKnow'
<1>1. \A q \in Procs : proc'[q] = IF q = p THEN r ELSE proc[q]
  BY DEF TypeOK, Go
<1>2. proc' \in [Procs -> {Idle} \cup SignIn]
  BY DEF TypeOK, Go
<1>3. ASSUME NEW q \in Procs PROVE Knows(proc'[q])
  <2>1. CASE q = p
    BY <1>1, <2>1
  <2>2. CASE q # p
    BY <1>1, <2>2 DEF SignInsKnow
  <2> QED
    BY <2>1, <2>2
<1> QED
  BY <1>1, <1>2, <1>3 DEF SignInsKnow

\* A process ends.
LEMMA Ends ==
  ASSUME TypeOK, SignInsKnow, NEW p \in Procs, Done(p)
  PROVE  /\ proc' \in [Procs -> {Idle} \cup SignIn]
         /\ \A q \in Procs : proc'[q] = IF q = p THEN Idle ELSE proc[q]
         /\ SignInsKnow'
BY Moves DEF Done, Knows, Late, Idle

-----------------------------------------------------------------------------
\* Nobody gets a key, and no session lets in to more.
LEMMA NothingGained ==
  ASSUME IInv, \A k \in Keys, b \in Browsers : Has(b, k)' => Has(b, k),
         \A k \in Keys : session'[k] = session[k] \/ ~session'[k].there,
         proved \subseteq proved'
  PROVE  OneBrowser' /\ SessionsProven'
<1>1. OneBrowser'
  BY DEF IInv, OneBrowser
<1>2. ASSUME NEW k \in Keys, NEW b \in Browsers, Has(b, k)', session'[k].there,
             NEW c \in session'[k].companies
      PROVE  <<b, session'[k].user, c>> \in proved'
  <2>1. session'[k] = session[k] /\ Has(b, k)
    BY <1>2
  <2> QED
    BY <1>2, <2>1 DEF IInv, SessionsProven
<1> QED
  BY <1>1, <1>2 DEF SessionsProven

\* The same for what the sign-ins are about to save.
LEMMA SignInsStay ==
  ASSUME SignInsProven, proved \subseteq proved',
         \A k \in Keys : session'[k] = session[k] \/ ~session'[k].there,
         NEW p \in Procs, NEW r, \A q \in Procs : proc'[q] = IF q = p THEN r ELSE proc[q],
         Proven(r, session', proved')
  PROVE  SignInsProven'
<1>1. ASSUME NEW q \in Procs PROVE Proven(proc'[q], session', proved')
  <2>1. CASE q = p
    BY <2>1
  <2>2. CASE q # p
    BY <2>2 DEF SignInsProven, Proven, Late
  <2> QED
    BY <2>1, <2>2
<1> QED
  BY <1>1 DEF SignInsProven

\* Who has which key after a step of one sign-in.
LEMMA HasMoves ==
  ASSUME NEW p \in Procs, NEW r, \A q \in Procs : proc'[q] = IF q = p THEN r ELSE proc[q],
         \A b \in Browsers, h \in Hosts : cookie'[b][h] \in Keys => Has(b, cookie'[b][h]),
         r.step # "idle" /\ r.key \in Keys => Has(r.browser, r.key)
  PROVE  \A k \in Keys, b \in Browsers : Has(b, k)' => Has(b, k)
<1> SUFFICES ASSUME NEW k \in Keys, NEW b \in Browsers, Has(b, k)'
             PROVE  Has(b, k)
  OBVIOUS
<1>1. CASE \E h \in Hosts : cookie'[b][h] = k
  BY <1>1
<1>2. ASSUME NEW q \in Procs, proc'[q].step # "idle", proc'[q].browser = b, proc'[q].key = k
      PROVE  Has(b, k)
  <2>1. CASE q = p
    BY <1>2, <2>1
  <2>2. CASE q # p
    BY <1>2, <2>2 DEF Has
  <2> QED
    BY <2>1, <2>2
<1> QED
  BY <1>1, <1>2 DEF Has

\* A step of one sign-in that leaves sessions and cookies alone, and in which the
\* sign-in keeps its key or has none.
LEMMA OwnSteps ==
  ASSUME IInv, UNCHANGED <<session, cookie>>, proved \subseteq proved',
         NEW p \in Procs, NEW r, \A q \in Procs : proc'[q] = IF q = p THEN r ELSE proc[q],
         r.step # "idle" /\ r.key \in Keys => Has(r.browser, r.key),
         Proven(r, session, proved')
  PROVE  OneBrowser' /\ SessionsProven' /\ SignInsProven'
<1>1. \A b \in Browsers, h \in Hosts : cookie'[b][h] \in Keys => Has(b, cookie'[b][h])
  BY DEF Has
<1>2. \A k \in Keys, b \in Browsers : Has(b, k)' => Has(b, k)
  BY <1>1, HasMoves
<1>3. OneBrowser' /\ SessionsProven'
  BY <1>2, NothingGained
<1>4. SignInsProven'
  BY SignInsStay DEF IInv
<1> QED
  BY <1>3, <1>4

\* Tokens are left alone by a sign-in that is not redeeming one.
LEMMA TokensStay ==
  ASSUME TokensHeld, HandoffOnce, UNCHANGED <<token, holder, redeemed>>,
         NEW p \in Procs, NEW r, \A q \in Procs : proc'[q] = IF q = p THEN r ELSE proc[q],
         r.step # "redeem"
  PROVE  TokensHeld' /\ HandoffOnce'
BY DEF TokensHeld, HandoffOnce

\* Keys that are issued stay so.
LEMMA KeysStay ==
  ASSUME KeysIssued, UNCHANGED <<session, rows, ended, cookie, issued, sweep>>,
         NEW p \in Procs, NEW r, \A q \in Procs : proc'[q] = IF q = p THEN r ELSE proc[q],
         r.step # "idle" => r.key <= issued, r.step # "end"
  PROVE  KeysIssued'
BY DEF KeysIssued

\* The three together, for a sign-in that touches neither sessions nor tokens.
LEMMA Alone ==
  ASSUME IInv, UNCHANGED <<store, token, holder, redeemed, sweep>>, TypeOK', SignInsKnow',
         proved \subseteq proved',
         NEW p \in Procs, NEW r, \A q \in Procs : proc'[q] = IF q = p THEN r ELSE proc[q],
         r.step \notin {"redeem", "end"}, r.step # "idle" => r.key = 0,
         Proven(r, session, proved')
  PROVE  IInv'
<1>1. UNCHANGED <<session, rows, ended, cookie, issued>>
  BY DEF store
<1>2. issued \in Nat
  BY BoundAssumption DEF IInv, TypeOK
<1>3. TokensHeld' /\ HandoffOnce'
  BY TokensStay DEF IInv
<1>4. KeysIssued'
  BY <1>1, <1>2, KeysStay DEF IInv
<1>5. OneBrowser' /\ SessionsProven' /\ SignInsProven'
  BY <1>1, OwnSteps, KeysAreNumbers
<1>6. EndedIsOut'
  BY <1>1 DEF IInv, EndedIsOut
<1> QED
  BY <1>3, <1>4, <1>5, <1>6 DEF IInv

-----------------------------------------------------------------------------
LEMMA InitIInv == Init => IInv
<1> SUFFICES ASSUME Init PROVE IInv
  OBVIOUS
<1>1. TypeOK
  BY BoundAssumption, HostAssumption DEF Init, TypeOK, Keys
<1>2. SignInsKnow /\ SignInsProven
  BY DEF Init, SignInsKnow, SignInsProven, Knows, Late, Proven, Late, Idle
<1>3. KeysIssued /\ TokensHeld /\ HandoffOnce /\ EndedIsOut
  BY BoundAssumption DEF Init, KeysIssued, TokensHeld, HandoffOnce, EndedIsOut, Idle, Nothing
<1>4. OneBrowser /\ SessionsProven
  BY KeysAreNumbers DEF Init, OneBrowser, SessionsProven, Has, Idle
<1> QED
  BY <1>1, <1>2, <1>3, <1>4 DEF IInv

\* A sign-in begins.
LEMMA BeginStep ==
  ASSUME IInv, NEW p \in Procs, NEW step \in {"lock", "login"}, NEW b \in Browsers,
         NEW u \in Users \cup {None}, NEW c \in Companies, NEW t \in Tokens \cup {None},
         step = "lock" => t \in Tokens,
         step = "login" => u \in Users /\ <<b, u, c>> \in proved',
         Begin(p, step, b, u, c, t),
         proved \subseteq proved', proved' \subseteq Browsers \X Users \X Companies,
         UNCHANGED <<store, tables, token, holder, redeemed, sweep>>
  PROVE  IInv'
<1> DEFINE r == [step |-> step, browser |-> b, user |-> u, company |-> c, alone |-> c \in single,
                 token |-> t, key |-> 0, companies |-> {}, others |-> {}]
<1>1. r \in SignIn
  BY DEF SignIn
<1>2. Go(p, r) /\ begun' \in 0 .. MaxSignIns
  BY BoundAssumption DEF Begin, IInv, TypeOK
<1>3. Knows(r)
  BY DEF Knows, Late
<1>4. r.step \notin {"redeem", "end"} /\ r.key = 0
  OBVIOUS
<1>5. Proven(r, session, proved')
  BY KeysAreNumbers DEF Proven, Late
<1> HIDE DEF r
<1>6. /\ proc' \in [Procs -> {Idle} \cup SignIn]
      /\ \A q \in Procs : proc'[q] = IF q = p THEN r ELSE proc[q]
      /\ SignInsKnow'
  BY <1>1, <1>2, <1>3, Moves DEF IInv
<1>7. TypeOK'
  BY <1>2, <1>6 DEF IInv, TypeOK, store, tables
<1> QED
  BY <1>4, <1>5, <1>6, <1>7, Alone

LEMMA PasswordLoginStep ==
  ASSUME IInv, NEW p \in Procs, NEW b \in Browsers, NEW u \in Users, NEW c \in Companies,
         PasswordLogin(p, b, u, c)
  PROVE  IInv'
<1>1. proved' = proved \cup {<<b, u, c>>}
  BY DEF PasswordLogin
<1>2. /\ proved \subseteq proved' /\ <<b, u, c>> \in proved'
      /\ proved' \subseteq Browsers \X Users \X Companies
  BY <1>1 DEF IInv, TypeOK
<1>3. /\ Begin(p, "login", b, u, c, None)
      /\ UNCHANGED <<store, tables, token, holder, redeemed, sweep>>
  BY DEF PasswordLogin
<1> QED
  BY <1>2, <1>3, BeginStep

LEMMA HandoffStartStep ==
  ASSUME IInv, NEW p \in Procs, NEW b \in Browsers, NEW t \in Tokens, HandoffStart(p, b, t)
  PROVE  IInv'
<1>1. token[t].company \in Companies
  BY DEF HandoffStart, IInv, TypeOK, Handoff
<1>2. /\ Begin(p, "lock", b, None, token[t].company, t)
      /\ UNCHANGED <<store, tables, token, holder, redeemed, sweep>> /\ proved' = proved
  BY DEF HandoffStart, seen
<1>3. proved \subseteq proved' /\ proved' \subseteq Browsers \X Users \X Companies
  BY <1>2 DEF IInv, TypeOK
<1> QED
  BY <1>1, <1>2, <1>3, BeginStep

\* A step that ends a sign-in, and does nothing else.
LEMMA EndsStep ==
  ASSUME IInv, NEW p \in Procs, Done(p), UNCHANGED <<store, tables, token, holder, begun, seen, sweep>>
  PROVE  IInv'
<1>1. /\ proc' \in [Procs -> {Idle} \cup SignIn]
      /\ \A q \in Procs : proc'[q] = IF q = p THEN Idle ELSE proc[q]
      /\ SignInsKnow'
  BY Ends DEF IInv
<1>2. TypeOK'
  BY <1>1 DEF IInv, TypeOK, store, tables, seen
<1>3. Proven(Idle, session, proved') /\ Idle.step = "idle"
  BY DEF Proven, Late, Idle
<1> QED
  BY <1>1, <1>2, <1>3, Alone DEF seen

LEMMA DieStep ==
  ASSUME IInv, NEW p \in Procs, Die(p)
  PROVE  IInv'
<1>1. /\ proc' \in [Procs -> {Idle} \cup SignIn]
      /\ \A q \in Procs : proc'[q] = IF q = p THEN Idle ELSE proc[q]
      /\ SignInsKnow'
  BY Ends DEF Die, IInv
<1>2. TypeOK'
  BY <1>1 DEF Die, IInv, TypeOK, store, tables, seen
<1>3. Proven(Idle, session, proved') /\ Idle.step = "idle"
  BY DEF Proven, Late, Idle
<1>4. OneBrowser' /\ SessionsProven' /\ SignInsProven'
  BY <1>1, <1>3, OwnSteps DEF Die, store, seen
<1>5. TokensHeld'
  <2>1. \A t \in Tokens : holder'[t] = IF holder[t] = p THEN None ELSE holder[t]
    BY DEF Die
  <2>2. ASSUME NEW q \in Procs, proc'[q].step = "redeem"
        PROVE  token'[proc'[q].token].state = "open" /\ holder'[proc'[q].token] = q
    <3>1. q # p /\ proc'[q] = proc[q]
      BY <1>1, <1>3, <2>2
    <3>2. proc[q].token \in Tokens
      BY <2>2, <3>1 DEF IInv, SignInsKnow, Knows, Late
    <3> QED
      BY <2>1, <2>2, <3>1, <3>2 DEF IInv, TokensHeld, Die
  <2> QED
    BY <2>2 DEF TokensHeld, IInv, Die, seen
<1>6. KeysIssued'
  BY <1>1, <1>3, KeysStay DEF IInv, Die, store
<1>7. HandoffOnce' /\ EndedIsOut'
  BY DEF IInv, HandoffOnce, EndedIsOut, Die, store, seen
<1> QED
  BY <1>1, <1>2, <1>4, <1>5, <1>6, <1>7 DEF IInv

LEMMA RedeemReadStep ==
  ASSUME IInv, NEW p \in Procs, RedeemRead(p)
  PROVE  IInv'
<1> DEFINE t == proc[p].token
           r == [proc[p] EXCEPT !.step = "redeem", !.user = token[t].user]
<1>0. proc[p] \in SignIn /\ t \in Tokens /\ proc[p].key = 0 /\ proc[p].companies = {}
  BY SigningIn DEF RedeemRead, At, IInv, SignInsKnow, Knows, Late
<1>1. token[t].state = "open" /\ token[t] \in Handoff
  BY <1>0 DEF RedeemRead, IInv, TypeOK, NoToken
<1>2. /\ r \in SignIn /\ r.step = "redeem" /\ r.key = 0 /\ r.token = t
      /\ r.companies = {} /\ r.user \in Users
  BY <1>0, <1>1 DEF SignIn, Handoff
<1>3. Knows(r) /\ Proven(r, session, proved')
  BY <1>0, <1>2, KeysAreNumbers DEF Knows, Late, Proven, Late
<1>4. Go(p, r)
  BY DEF RedeemRead
<1> HIDE DEF r
<1>5. /\ proc' \in [Procs -> {Idle} \cup SignIn]
      /\ \A q \in Procs : proc'[q] = IF q = p THEN r ELSE proc[q]
      /\ SignInsKnow'
  BY <1>2, <1>3, <1>4, Moves DEF IInv
<1>6. holder[t] = None /\ holder' = [holder EXCEPT ![t] = p]
  BY DEF RedeemRead, LockToken
<1>7. TypeOK'
  BY <1>0, <1>5, <1>6 DEF RedeemRead, IInv, TypeOK, store, tables, seen
<1>8. OneBrowser' /\ SessionsProven' /\ SignInsProven'
  BY <1>2, <1>3, <1>5, OwnSteps, KeysAreNumbers DEF RedeemRead, store, seen
<1>9. TokensHeld'
  <2>1. ASSUME NEW q \in Procs, proc'[q].step = "redeem"
        PROVE  token'[proc'[q].token].state = "open" /\ holder'[proc'[q].token] = q
    <3>1. CASE q = p
      BY <1>0, <1>1, <1>2, <1>5, <1>6, <3>1 DEF RedeemRead, IInv, TypeOK
    <3>2. CASE q # p
      <4>1. proc'[q] = proc[q]
        BY <1>5, <3>2
      <4>2. proc[q].token \in Tokens /\ holder[proc[q].token] = q
        BY <2>1, <4>1 DEF IInv, SignInsKnow, Knows, Late, TokensHeld
      <4>3. proc[q].token # t
        BY <1>6, <4>2, NoneAssumption
      <4> QED
        BY <1>6, <2>1, <4>1, <4>2, <4>3 DEF RedeemRead, IInv, TokensHeld, TypeOK
    <3> QED
      BY <3>1, <3>2
  <2> QED
    BY <2>1 DEF TokensHeld, IInv, RedeemRead, seen
<1>10. KeysIssued'
  <2>1. issued \in Nat
    BY BoundAssumption DEF IInv, TypeOK
  <2> QED
    BY <1>2, <1>5, <2>1, KeysStay DEF IInv, RedeemRead, store
<1>11. HandoffOnce' /\ EndedIsOut'
  BY DEF IInv, HandoffOnce, EndedIsOut, RedeemRead, store, seen
<1> QED
  BY <1>5, <1>7, <1>8, <1>9, <1>10, <1>11 DEF IInv

LEMMA RedeemRefusedStep ==
  ASSUME IInv, NEW p \in Procs, RedeemRefused(p)
  PROVE  IInv'
BY EndsStep DEF RedeemRefused

LEMMA RedeemSaveStep ==
  ASSUME IInv, NEW p \in Procs, RedeemSave(p)
  PROVE  IInv'
<1> DEFINE t == proc[p].token
           r == [proc[p] EXCEPT !.step = "login"]
           mark == <<proc[p].browser, proc[p].user, proc[p].company>>
<1>0. /\ proc[p] \in SignIn /\ t \in Tokens /\ proc[p].key = 0 /\ proc[p].step = "redeem"
      /\ token[t].state = "open" /\ holder[t] = p
  BY SigningIn DEF RedeemSave, At, IInv, SignInsKnow, Knows, Late, TokensHeld
<1>1. redeemed[t] = 0
  BY <1>0 DEF IInv, TokensHeld
<1>2. proc[p].user \in Users /\ proc[p].companies = {}
  BY <1>0 DEF IInv, SignInsKnow, Knows, Late
<1>3. /\ r \in SignIn /\ r.step = "login" /\ r.key = 0 /\ r.companies = proc[p].companies
      /\ r.user = proc[p].user /\ r.company = proc[p].company /\ r.browser = proc[p].browser
  BY <1>0 DEF SignIn
<1>4. /\ proved' = proved \cup {mark} /\ Go(p, r)
      /\ redeemed' = [redeemed EXCEPT ![t] = @ + 1]
      /\ token' = [token EXCEPT ![t].state = "spent"]
      /\ holder' = [holder EXCEPT ![t] = IF @ = p THEN None ELSE @]
      /\ UNCHANGED <<store, tables, begun, sweep>>
  BY DEF RedeemSave
<1>5. mark \in Browsers \X Users \X Companies
  BY <1>0, <1>2 DEF SignIn
<1>6. Knows(r) /\ Proven(r, session, proved')
  BY <1>2, <1>3, <1>4, KeysAreNumbers DEF Knows, Late, Proven, Late
<1> HIDE DEF r
<1>7. /\ proc' \in [Procs -> {Idle} \cup SignIn]
      /\ \A q \in Procs : proc'[q] = IF q = p THEN r ELSE proc[q]
      /\ SignInsKnow'
  BY <1>3, <1>4, <1>6, Moves DEF IInv
<1>8. TypeOK'
  <2>1. token[t] \in Handoff
    BY <1>0 DEF IInv, TypeOK, NoToken
  <2>2. token' \in [Tokens -> {NoToken} \cup Handoff]
    <3>1. [token[t] EXCEPT !.state = "spent"] \in Handoff
      BY <2>1 DEF Handoff
    <3>2. token' = [token EXCEPT ![t] = [token[t] EXCEPT !.state = "spent"]]
      BY <1>4
    <3> QED
      BY <3>1, <3>2 DEF IInv, TypeOK
  <2>3. holder' \in [Tokens -> Procs \cup {None}]
    BY <1>4 DEF IInv, TypeOK
  <2>4. redeemed' \in [Tokens -> Nat]
    <3>1. redeemed' = [redeemed EXCEPT ![t] = 1]
      BY <1>0, <1>1, <1>4
    <3> QED
      BY <3>1 DEF IInv, TypeOK
  <2>5. proved' \subseteq Browsers \X Users \X Companies
    BY <1>4, <1>5 DEF IInv, TypeOK
  <2> QED
    BY <1>4, <1>7, <2>2, <2>3, <2>4, <2>5 DEF IInv, TypeOK, store, tables
<1>9. OneBrowser' /\ SessionsProven' /\ SignInsProven'
  BY <1>3, <1>4, <1>6, <1>7, OwnSteps, KeysAreNumbers DEF store
<1>10. TokensHeld' /\ HandoffOnce'
  <2>1. ASSUME NEW q \in Procs, proc'[q].step = "redeem"
        PROVE  token'[proc'[q].token].state = "open" /\ holder'[proc'[q].token] = q
    <3>1. q # p /\ proc'[q] = proc[q]
      BY <1>3, <1>7, <2>1
    <3>2. proc[q].token \in Tokens /\ holder[proc[q].token] = q
      BY <2>1, <3>1 DEF IInv, SignInsKnow, Knows, Late, TokensHeld
    <3>3. proc[q].token # t
      BY <1>0, <3>1, <3>2
    <3> QED
      BY <1>4, <2>1, <3>1, <3>2, <3>3 DEF IInv, TokensHeld, TypeOK
  <2>2. ASSUME NEW s \in Tokens
        PROVE  redeemed'[s] <= 1 /\ (redeemed'[s] # 0 => token'[s].state = "spent")
    <3>1. CASE s = t
      <4>1. token'[t].state = "spent"
        BY <1>0, <1>4 DEF IInv, TypeOK, NoToken, Handoff
      <4> QED
        BY <1>0, <1>1, <1>4, <3>1, <4>1 DEF IInv, TypeOK
    <3>2. CASE s # t
      BY <1>4, <3>2 DEF IInv, TypeOK, TokensHeld, HandoffOnce
    <3> QED
      BY <3>1, <3>2
  <2> QED
    BY <2>1, <2>2 DEF TokensHeld, HandoffOnce
<1>11. KeysIssued'
  <2>1. issued \in Nat
    BY BoundAssumption DEF IInv, TypeOK
  <2> QED
    BY <1>3, <1>4, <1>7, <2>1, KeysStay DEF IInv, store
<1>12. EndedIsOut'
  BY <1>4 DEF IInv, EndedIsOut, store
<1> QED
  BY <1>7, <1>8, <1>9, <1>10, <1>11, <1>12 DEF IInv

LEMMA LoginStep ==
  ASSUME IInv, NEW p \in Procs, Login(p)
  PROVE  IInv'
<1> DEFINE k    == KeyOf(proc[p].browser, HostOf[proc[p].company])
           mine == k # 0 /\ session[k].user = proc[p].user
           r    == [proc[p] EXCEPT !.step = "grant", !.key = IF mine THEN k ELSE 0,
                                   !.companies = IF mine THEN session[k].companies ELSE {}]
<1>0. /\ proc[p] \in SignIn /\ proc[p].user \in Users /\ proc[p].step = "login"
      /\ <<proc[p].browser, proc[p].user, proc[p].company>> \in proved
  BY SigningIn DEF Login, At, IInv, SignInsKnow, Knows, Late, SignInsProven, Proven, Late
<1>1. /\ session' = IF k # 0 /\ ~mine THEN [session EXCEPT ![k] = Nothing] ELSE session
      /\ Go(p, r)
      /\ UNCHANGED <<issued, cookie, rows, ended, tables, token, holder, begun, seen, sweep>>
  BY DEF Login
<1>2. proc[p].browser \in Browsers /\ proc[p].company \in Companies
  BY <1>0 DEF SignIn
<1>3. HostOf[proc[p].company] \in Hosts
  BY <1>2, HostAssumption
<1>4. /\ k \in Keys \cup {0}
      /\ k # 0 => k = cookie[proc[p].browser][HostOf[proc[p].company]] /\ session[k].there
  BY <1>2, <1>3, KeyFound DEF IInv
<1>5. k # 0 => Has(proc[p].browser, k) /\ k \in Keys /\ k <= issued
  BY <1>2, <1>3, <1>4 DEF Has, IInv, KeysIssued
<1>6. k # 0 => session[k] \in Session
  BY <1>4 DEF IInv, TypeOK, Nothing
<1>7. mine => \A c \in session[k].companies :
                <<proc[p].browser, proc[p].user, c>> \in proved
  BY <1>2, <1>4, <1>5 DEF IInv, SessionsProven
<1> HIDE DEF k
<1>8. /\ r \in SignIn /\ r.step = "grant" /\ r.user = proc[p].user /\ r.company = proc[p].company
      /\ r.browser = proc[p].browser /\ r.key = IF mine THEN k ELSE 0
      /\ r.companies = IF mine THEN session[k].companies ELSE {}
  <2>1. CASE mine
    BY <1>0, <1>5, <1>6, <2>1 DEF SignIn, Session
  <2>2. CASE ~mine
    BY <1>0, <2>2 DEF SignIn
  <2> QED
    BY <2>1, <2>2
<1>9. \A j \in Keys : session'[j] = session[j] \/ session'[j] = Nothing
  BY <1>1, <1>5 DEF IInv, TypeOK
<1>10. ~Nothing.there
  BY DEF Nothing
<1>11. Knows(r)
  BY <1>0, <1>8 DEF Knows, Late
<1>12. Proven(r, session', proved')
  <2>1. proved' = proved
    BY <1>1 DEF seen
  <2>2. \A c \in r.companies \cup {r.company} : <<r.browser, r.user, c>> \in proved
    BY <1>0, <1>7, <1>8
  <2>3. r.key \in Keys => mine /\ r.key = k
    BY <1>8, KeysAreNumbers
  <2>4. r.key \in Keys => session'[r.key].user = r.user
    BY <1>1, <1>8, <2>3
  <2> QED
    BY <2>1, <2>2, <2>4 DEF Proven, Late
<1> HIDE DEF r, mine
<1>13. /\ proc' \in [Procs -> {Idle} \cup SignIn]
       /\ \A q \in Procs : proc'[q] = IF q = p THEN r ELSE proc[q]
       /\ SignInsKnow'
  BY <1>1, <1>8, <1>11, Moves DEF IInv
<1>14. TypeOK'
  <2>1. session' \in [Keys -> {Nothing} \cup Session]
    BY <1>1, <1>5 DEF IInv, TypeOK
  <2> QED
    BY <1>1, <1>13, <2>1 DEF IInv, TypeOK, tables, seen
<1>15. issued \in Nat
  BY BoundAssumption DEF IInv, TypeOK
<1>16. r.key \in Keys => Has(r.browser, r.key)
  BY <1>5, <1>8, KeysAreNumbers
<1>17. OneBrowser' /\ SessionsProven' /\ SignInsProven'
  <2>1. \A b \in Browsers, h \in Hosts : cookie'[b][h] \in Keys => Has(b, cookie'[b][h])
    BY <1>1 DEF Has
  <2>2. \A j \in Keys, b \in Browsers : Has(b, j)' => Has(b, j)
    BY <1>13, <1>16, <2>1, HasMoves
  <2>3. proved \subseteq proved'
    BY <1>1 DEF seen
  <2>4. \A j \in Keys : session'[j] = session[j] \/ ~session'[j].there
    BY <1>9, <1>10
  <2>5. OneBrowser' /\ SessionsProven'
    BY <2>2, <2>3, <2>4, NothingGained
  <2>6. SignInsProven'
    BY <1>12, <1>13, <2>3, <2>4, SignInsStay DEF IInv
  <2> QED
    BY <2>5, <2>6
<1>18. TokensHeld' /\ HandoffOnce'
  BY <1>1, <1>8, <1>13, TokensStay DEF IInv, seen
<1>19. KeysIssued'
  <2>1. r.key <= issued
    BY <1>5, <1>8, <1>15 DEF mine
  <2>2. r.step # "end"
    BY <1>8
  <2>3. \A j \in Keys : session'[j].there \/ rows'[j].there => j <= issued'
    BY <1>1, <1>9, <1>10 DEF IInv, KeysIssued
  <2>4. ASSUME NEW q \in Procs
        PROVE  /\ proc'[q].step # "idle" => proc'[q].key <= issued
               /\ proc'[q].step = "end" => \A j \in proc'[q].others : j <= issued
    BY <1>13, <2>1, <2>2 DEF IInv, KeysIssued
  <2> QED
    BY <1>1, <2>3, <2>4 DEF IInv, KeysIssued
<1>20. EndedIsOut'
  BY <1>1, <1>9, <1>10 DEF IInv, EndedIsOut, TypeOK
<1> QED
  BY <1>13, <1>14, <1>17, <1>18, <1>19, <1>20 DEF IInv

LEMMA KnownKeys ==
  ASSUME TypeOK, KeysIssued
  PROVE  /\ issued \in Nat
         /\ \A b \in Browsers, h \in Hosts : cookie[b][h] \in Nat /\ cookie[b][h] <= issued
         /\ \A q \in Procs : proc[q].step # "idle" => proc[q].key \in Nat /\ proc[q].key <= issued
<1>1. issued \in Nat
  BY BoundAssumption DEF TypeOK
<1>2. ASSUME NEW b \in Browsers, NEW h \in Hosts
      PROVE  cookie[b][h] \in Nat /\ cookie[b][h] <= issued
  <2>1. cookie[b][h] \in Keys \cup {0}
    BY DEF TypeOK
  <2>2. cookie[b][h] <= issued
    BY DEF KeysIssued
  <2> QED
    BY <2>1, <2>2, BoundAssumption DEF Keys
<1>3. ASSUME NEW q \in Procs, proc[q].step # "idle"
      PROVE  proc[q].key \in Nat /\ proc[q].key <= issued
  <2>1. proc[q].key \in Keys \cup {0}
    BY <1>3, SigningIn DEF SignIn
  <2>2. proc[q].key <= issued
    BY <1>3 DEF KeysIssued
  <2> QED
    BY <2>1, <2>2, BoundAssumption DEF Keys
<1> QED
  BY <1>1, <1>2, <1>3

\* A sign-in writes the session of its key: one that was not issued before, or one
\* that is there.
LEMMA SaveStep ==
  ASSUME IInv, TypeOK', SignInsKnow', NEW p \in Procs, NEW r \in SignIn, NEW k \in Keys,
         NEW n \in {r, Idle}, \A q \in Procs : proc'[q] = IF q = p THEN n ELSE proc[q],
         r.step \in {"others", "row", "answer"}, r.user \in Users, r.key = k, r.browser = proc[p].browser,
         UNCHANGED <<rows, ended, token, holder, seen, sweep>>,
         \A b \in Browsers, h \in Hosts :
           cookie'[b][h] = cookie[b][h] \/ (cookie'[b][h] = k /\ b = r.browser),
         session' = [session EXCEPT ![k] = Data(r)],
         \A c \in r.companies \cup {r.company} : <<r.browser, r.user, c>> \in proved,
         \/ k = issued + 1 /\ issued' = k
         \/ /\ session[k].there /\ session[k].user = r.user /\ issued' = issued
            /\ proc[p].step # "idle" /\ proc[p].key = k
  PROVE  IInv'
<1>0. /\ Data(r).there /\ Data(r).user = r.user
      /\ Data(r).companies = r.companies \cup {r.company}
  BY DataLemma
<1>1. \A j \in Keys : session'[j] = IF j = k THEN Data(r) ELSE session[j]
  BY DEF IInv, TypeOK
<1>2. issued \in Nat /\ k \in Nat /\ issued' \in Nat /\ issued <= issued' /\ k <= issued'
  BY BoundAssumption, KeysAreNumbers DEF IInv, TypeOK, KeysIssued
<1>3. proved' = proved
  BY DEF seen
<1>4. r.browser \in Browsers
  BY DEF SignIn
<1>5. ASSUME NEW j \in Keys, NEW b \in Browsers, Has(b, j)', j # k \/ b # r.browser
      PROVE  Has(b, j)
  <2>1. CASE \E h \in Hosts : cookie'[b][h] = j
    BY <1>5, <2>1 DEF Has
  <2>2. ASSUME NEW q \in Procs, proc'[q].step # "idle", proc'[q].browser = b, proc'[q].key = j
        PROVE  Has(b, j)
    <3>1. q # p
      BY <1>5, <2>2 DEF Idle
    <3> QED
      BY <2>2, <3>1 DEF Has
  <2> QED
    BY <1>5, <2>1, <2>2 DEF Has
<1>6. ASSUME NEW b \in Browsers, Has(b, k)
      PROVE  b = r.browser
  <2>1. CASE k = issued + 1
    <3>1. ASSUME NEW h \in Hosts PROVE cookie[b][h] # k
      <4>1. cookie[b][h] <= issued /\ cookie[b][h] \in Nat
        BY KnownKeys DEF IInv
      <4> QED
        BY <1>2, <2>1, <4>1
    <3>2. ASSUME NEW q \in Procs, proc[q].step # "idle" PROVE proc[q].key # k
      <4>1. proc[q].key <= issued /\ proc[q].key \in Nat
        BY <3>2, KnownKeys DEF IInv
      <4> QED
        BY <1>2, <2>1, <4>1
    <3> QED
      BY <1>6, <3>1, <3>2 DEF Has
  <2>2. CASE proc[p].step # "idle" /\ proc[p].key = k
    <3>1. Has(r.browser, k)
      BY <2>2 DEF Has
    <3> QED
      BY <1>4, <1>6, <3>1 DEF IInv, OneBrowser
  <2> QED
    BY <2>1, <2>2
<1>7. OneBrowser'
  <2>1. ASSUME NEW j \in Keys, NEW b \in Browsers, Has(b, j)'
        PROVE  IF j = k THEN b = r.browser ELSE Has(b, j)
    BY <1>5, <1>6, <2>1
  <2> QED
    BY <2>1 DEF IInv, OneBrowser
<1>8. SessionsProven'
  <2>1. ASSUME NEW j \in Keys, NEW b \in Browsers, Has(b, j)', session'[j].there,
               NEW c \in session'[j].companies
        PROVE  <<b, session'[j].user, c>> \in proved
    <3>1. CASE j = k
      <4>1. b = r.browser
        BY <1>5, <1>6, <2>1, <3>1
      <4> QED
        BY <1>0, <1>1, <2>1, <3>1, <4>1
    <3>2. CASE j # k
      <4>1. Has(b, j) /\ session'[j] = session[j]
        BY <1>1, <1>5, <2>1, <3>2
      <4> QED
        BY <2>1, <4>1 DEF IInv, SessionsProven
    <3> QED
      BY <3>1, <3>2
  <2> QED
    BY <1>3, <2>1 DEF SessionsProven
<1>9. SignInsProven'
  <2>1. ASSUME NEW q \in Procs PROVE Proven(proc'[q], session', proved)
    <3>1. CASE q = p
      BY <1>0, <1>1, <3>1 DEF Proven, Late, Idle
    <3>2. CASE q # p
      <4>1. proc'[q] = proc[q] /\ Proven(proc[q], session, proved)
        BY <3>2 DEF IInv, SignInsProven
      <4>2. ASSUME proc[q].step # "idle", proc[q].key \in Keys, session'[proc[q].key].there
            PROVE  session'[proc[q].key].user = proc[q].user
        <5>1. CASE proc[q].key # k
          BY <1>1, <4>1, <4>2, <5>1 DEF Proven, Late
        <5>2. CASE proc[q].key = k
          <6>1. k <= issued
            BY <4>2, <5>2 DEF IInv, KeysIssued
          <6>2. session[k].there /\ session[k].user = r.user
            BY <1>2, <6>1
          <6> QED
            BY <1>0, <1>1, <4>1, <4>2, <5>2, <6>2 DEF Proven, Late
        <5> QED
          BY <5>1, <5>2
      <4> QED
        BY <4>1, <4>2 DEF Proven, Late
    <3> QED
      BY <3>1, <3>2
  <2> QED
    BY <1>3, <2>1 DEF SignInsProven
<1>10. TokensHeld' /\ HandoffOnce'
  <2>1. n.step # "redeem"
    BY DEF Idle
  <2> QED
    BY <2>1, TokensStay DEF IInv, seen
<1>11. KeysIssued'
  <2>1. ASSUME NEW j \in Keys, session'[j].there \/ rows'[j].there PROVE j <= issued'
    <3>1. CASE j = k
      BY <1>2, <3>1
    <3>2. CASE j # k
      <4>1. j <= issued /\ j \in Nat
        BY <1>1, <2>1, <3>2, KeysAreNumbers DEF IInv, KeysIssued
      <4> QED
        BY <1>2, <4>1
    <3> QED
      BY <3>1, <3>2
  <2>2. ASSUME NEW j \in ended' PROVE j <= issued'
    <3>1. j <= issued /\ j \in Nat
      BY <2>2, KeysAreNumbers DEF IInv, KeysIssued, TypeOK
    <3> QED
      BY <1>2, <3>1
  <2>3. ASSUME NEW b \in Browsers, NEW h \in Hosts PROVE cookie'[b][h] <= issued'
    <3>1. cookie[b][h] <= issued /\ cookie[b][h] \in Nat
      BY KnownKeys DEF IInv
    <3> QED
      BY <1>2, <3>1
  <2>4. ASSUME NEW q \in Procs, proc'[q].step # "idle" PROVE proc'[q].key <= issued'
    <3>1. CASE q = p
      BY <1>2, <2>4, <3>1 DEF Idle
    <3>2. CASE q # p
      <4>1. proc'[q] = proc[q] /\ proc[q].key <= issued /\ proc[q].key \in Nat
        BY <2>4, <3>2, KnownKeys DEF IInv
      <4> QED
        BY <1>2, <4>1
    <3> QED
      BY <3>1, <3>2
  <2>5. ASSUME NEW q \in Procs, proc'[q].step = "end", NEW j \in proc'[q].others PROVE j <= issued'
    <3>1. q # p /\ proc'[q] = proc[q]
      BY <2>5 DEF Idle
    <3>2. j \in Keys /\ j <= issued
      BY <2>5, <3>1, SigningIn DEF IInv, KeysIssued, SignIn
    <3> QED
      BY <1>2, <3>2, KeysAreNumbers
  <2>6. ASSUME NEW o \in Operators, sweep'[o].step = "keys", NEW j \in sweep'[o].query.keys
        PROVE  j <= issued'
    <3>1. sweep[o] \in Sweep /\ j \in sweep[o].query.keys
      BY <2>6 DEF IInv, TypeOK, Idle
    <3>2. j \in Keys /\ j <= issued
      BY <2>6, <3>1 DEF IInv, KeysIssued, Sweep, Query
    <3> QED
      BY <1>2, <3>2, KeysAreNumbers
  <2> QED
    BY <2>1, <2>2, <2>3, <2>4, <2>5, <2>6 DEF KeysIssued
<1>12. EndedIsOut'
  <2>1. k \notin ended
    <3>1. k \in ended => k <= issued /\ ~session[k].there
      BY DEF IInv, KeysIssued, EndedIsOut
    <3> QED
      BY <1>2, <3>1
  <2> QED
    BY <1>1, <2>1 DEF IInv, EndedIsOut, TypeOK
<1> QED
  BY <1>7, <1>8, <1>9, <1>10, <1>11, <1>12 DEF IInv

LEMMA GrantStep ==
  ASSUME IInv, NEW p \in Procs, Grant(p)
  PROVE  IInv'
<1> DEFINE k == IF proc[p].key # 0 THEN proc[p].key ELSE issued + 1
           r == [proc[p] EXCEPT !.step = IF proc[p].alone THEN "others" ELSE "row", !.key = k]
<1>0. /\ proc[p] \in SignIn /\ proc[p].user \in Users /\ proc[p].step = "grant"
      /\ \A c \in proc[p].companies \cup {proc[p].company} :
           <<proc[p].browser, proc[p].user, c>> \in proved
  BY SigningIn DEF Grant, At, IInv, SignInsKnow, Knows, Late, SignInsProven, Proven, Late
<1>1. /\ k \in Keys
      /\ UNCHANGED <<cookie, rows, ended, tables, token, holder, begun, seen, sweep>>
      /\ \/ Done(p) /\ UNCHANGED <<session, issued>>
         \/ /\ proc[p].key # 0 => session[proc[p].key].there
            /\ issued' = IF proc[p].key # 0 THEN issued ELSE k
            /\ session' = [session EXCEPT ![k] = Data(proc[p])]
            /\ Go(p, r)
  BY DEF Grant, CanSave
<1>2. CASE Done(p) /\ UNCHANGED <<session, issued>>
  BY <1>1, <1>2, EndsStep DEF store
<1>3. CASE /\ proc[p].key # 0 => session[proc[p].key].there
           /\ issued' = IF proc[p].key # 0 THEN issued ELSE k
           /\ session' = [session EXCEPT ![k] = Data(proc[p])]
           /\ Go(p, r)
  <2>1. \/ k = issued + 1 /\ issued' = k
        \/ /\ session[k].there /\ session[k].user = proc[p].user /\ issued' = issued
           /\ proc[p].step # "idle" /\ proc[p].key = k
    BY <1>0, <1>1, <1>3 DEF IInv, SignInsProven, Proven, Late
  <2>2. k # 0
    BY <1>1, KeysAreNumbers
  <2> HIDE DEF k
  <2>3. /\ r \in SignIn /\ r.step \in {"others", "row"} /\ r.user = proc[p].user /\ r.key = k
        /\ r.browser = proc[p].browser /\ r.companies = proc[p].companies
        /\ r.company = proc[p].company
    BY <1>0, <1>1 DEF SignIn
  <2>4. Knows(r)
    BY <1>0, <2>2, <2>3 DEF Knows, Late
  <2>5. Data(proc[p]) = Data(r)
    BY <2>3 DEF Data
  <2> HIDE DEF r
  <2>6. /\ proc' \in [Procs -> {Idle} \cup SignIn]
        /\ \A q \in Procs : proc'[q] = IF q = p THEN r ELSE proc[q]
        /\ SignInsKnow'
    BY <1>3, <2>3, <2>4, Moves DEF IInv
  <2>7. TypeOK'
    <3>1. session' \in [Keys -> {Nothing} \cup Session]
      BY <1>0, <1>3, DataLemma DEF IInv, TypeOK
    <3>2. issued' \in 0 .. MaxSignIns
      BY <1>1, <1>3 DEF IInv, TypeOK, Keys
    <3> QED
      BY <1>1, <2>6, <3>1, <3>2 DEF IInv, TypeOK, tables, seen
  <2>8. \A b \in Browsers, h \in Hosts : cookie'[b][h] = cookie[b][h]
    BY <1>1
  <2>9. UNCHANGED <<rows, ended, token, holder, seen, sweep>>
    BY <1>1
  <2>10. session' = [session EXCEPT ![k] = Data(r)]
    BY <1>3, <2>5
  <2>11. \A c \in r.companies \cup {r.company} : <<r.browser, r.user, c>> \in proved
    BY <1>0, <2>3
  <2>12. r.user \in Users /\ k \in Keys
    BY <1>0, <1>1, <2>3
  <2>13. \/ k = issued + 1 /\ issued' = k
         \/ /\ session[k].there /\ session[k].user = r.user /\ issued' = issued
            /\ proc[p].step # "idle" /\ proc[p].key = k
    BY <2>1, <2>3
  <2> QED
    BY <2>3, <2>6, <2>7, <2>8, <2>9, <2>10, <2>11, <2>12, <2>13, SaveStep
<1> QED
  BY <1>1, <1>2, <1>3

LEMMA AnswerStep ==
  ASSUME IInv, NEW p \in Procs, Answer(p)
  PROVE  IInv'
<1> DEFINE r == proc[p]
           h == HostOf[r.company]
<1>0. /\ r \in SignIn /\ r.user \in Users /\ r.step = "answer" /\ r.key # 0
      /\ \A c \in r.companies \cup {r.company} : <<r.browser, r.user, c>> \in proved
  BY SigningIn DEF Answer, At, IInv, SignInsKnow, Knows, Late, SignInsProven, Proven, Late
<1>1. Done(p) /\ UNCHANGED <<issued, rows, ended, tables, token, holder, begun, seen, sweep>>
  BY DEF Answer
<1>2. CASE ~session[r.key].there
  BY <1>1, <1>2, EndsStep DEF Answer, CanSave, store
<1>3. CASE session[r.key].there
  <2>1. /\ session' = [session EXCEPT ![r.key] = Data(r)]
        /\ cookie' = [cookie EXCEPT ![r.browser][h] = r.key]
    BY <1>3 DEF Answer, CanSave
  <2>2. r.key \in Keys /\ r.browser \in Browsers /\ r.company \in Companies
    BY <1>0 DEF SignIn
  <2>3. h \in Hosts
    BY <2>2, HostAssumption
  <2>4. /\ proc' \in [Procs -> {Idle} \cup SignIn]
        /\ \A q \in Procs : proc'[q] = IF q = p THEN Idle ELSE proc[q]
        /\ SignInsKnow'
    BY <1>1, Ends DEF IInv
  <2>5. TypeOK'
    <3>1. session' \in [Keys -> {Nothing} \cup Session]
      BY <1>0, <2>1, DataLemma DEF IInv, TypeOK
    <3>2. cookie' \in [Browsers -> [Hosts -> Keys \cup {0}]]
      BY <2>1, <2>2 DEF IInv, TypeOK
    <3> QED
      BY <1>1, <2>4, <3>1, <3>2 DEF IInv, TypeOK, tables, seen
  <2>6. \A b \in Browsers, g \in Hosts :
          cookie'[b][g] = cookie[b][g] \/ (cookie'[b][g] = r.key /\ b = r.browser)
    BY <2>1 DEF IInv, TypeOK
  <2>7. session[r.key].user = r.user
    BY <1>0, <1>3, <2>2 DEF IInv, SignInsProven, Proven, Late
  <2> QED
    BY <1>0, <1>1, <1>3, <2>1, <2>2, <2>4, <2>5, <2>6, <2>7, SaveStep
<1> QED
  BY <1>2, <1>3

-----------------------------------------------------------------------------
\* Sessions end: some keys stand for nothing any more, and nobody gets one.
LEMMA SignOutLemma ==
  ASSUME IInv, NEW ks \in SUBSET Keys, \A k \in ks : k <= issued,
         \A k \in Keys : session'[k] = IF k \in ks THEN Nothing ELSE session[k],
         \A k \in Keys : rows'[k].there => rows[k].there \/ k <= issued,
         ended' = ended \cup ks,
         UNCHANGED issued
  PROVE  /\ \A k \in Keys : session'[k].there \/ rows'[k].there => k <= issued
         /\ \A k \in ended' : k <= issued
         /\ \A k \in Keys : session'[k] = session[k] \/ ~session'[k].there
         /\ EndedIsOut'
<1>1. ~Nothing.there
  BY DEF Nothing
<1>2. \A k \in Keys : session'[k] = session[k] \/ ~session'[k].there
  BY <1>1
<1>3. \A k \in Keys : session'[k].there \/ rows'[k].there => k <= issued
  BY <1>2 DEF IInv, KeysIssued
<1>4. \A k \in ended' : k <= issued
  BY DEF IInv, KeysIssued
<1>5. EndedIsOut'
  BY <1>1 DEF IInv, EndedIsOut, TypeOK
<1> QED
  BY <1>2, <1>3, <1>4, <1>5

\* What a query finds has a key.
LEMMA FoundLemma ==
  ASSUME IInv, NEW q, q.keys \subseteq Keys
  PROVE  Found(q) \in SUBSET Keys /\ \A k \in Found(q) : rows[k].there /\ k <= issued
BY DEF Found, IInv, KeysIssued

\* Deleting sessions, and deleting rows.
LEMMA Deleted ==
  ASSUME IInv, NEW ks
  PROVE  /\ Without(session, ks) \in [Keys -> {Nothing} \cup Session]
         /\ \A k \in Keys : Without(session, ks)[k] = IF k \in ks THEN Nothing ELSE session[k]
         /\ Without(rows, ks) \in [Keys -> {Nothing} \cup Row]
         /\ \A k \in Keys : Without(rows, ks)[k].there => rows[k].there
<1>1. session \in [Keys -> {Nothing} \cup Session] /\ rows \in [Keys -> {Nothing} \cup Row]
  BY DEF IInv, TypeOK
<1>2. ASSUME NEW S, NEW f \in [Keys -> {Nothing} \cup S]
      PROVE  /\ Without(f, ks) \in [Keys -> {Nothing} \cup S]
             /\ \A k \in Keys : Without(f, ks)[k] = IF k \in ks THEN Nothing ELSE f[k]
  BY WithoutLemma
<1>3. /\ Without(session, ks) \in [Keys -> {Nothing} \cup Session]
      /\ \A k \in Keys : Without(session, ks)[k] = IF k \in ks THEN Nothing ELSE session[k]
  BY <1>1, <1>2
<1>4. /\ Without(rows, ks) \in [Keys -> {Nothing} \cup Row]
      /\ \A k \in Keys : Without(rows, ks)[k] = IF k \in ks THEN Nothing ELSE rows[k]
  BY <1>1, <1>2
<1>5. \A k \in Keys : Without(rows, ks)[k].there => rows[k].there
  BY <1>4 DEF Nothing
<1> QED
  BY <1>3, <1>4, <1>5

\* A sign-in that has its key deals with the other devices and puts its row: the
\* sessions of some keys end, and rows come for keys that are issued.
LEMMA LateStep ==
  ASSUME IInv, NEW p \in Procs, NEW n \in SignIn, Go(p, n),
         proc[p].step \in Late, n.step \in Late,
         n.user = proc[p].user, n.key = proc[p].key, n.browser = proc[p].browser,
         n.companies = proc[p].companies, n.company = proc[p].company,
         n.step = "end" => \A k \in n.others : k <= issued,
         NEW ks \in SUBSET Keys, \A k \in ks : k <= issued,
         session' \in [Keys -> {Nothing} \cup Session], rows' \in [Keys -> {Nothing} \cup Row],
         \A k \in Keys : session'[k] = IF k \in ks THEN Nothing ELSE session[k],
         \A k \in Keys : rows'[k].there => rows[k].there \/ k <= issued,
         ended' = ended \cup ks,
         UNCHANGED <<issued, cookie, tables, token, holder, sweep, begun, seen>>
  PROVE  IInv'
<1>1. /\ proc[p] \in SignIn /\ proc[p].user \in Users /\ proc[p].key # 0 /\ proc[p].key \in Keys
      /\ Proven(proc[p], session, proved) /\ proc[p].step # "idle"
  BY SigningIn DEF Late, IInv, SignInsKnow, Knows, SignInsProven, SignIn
<1>2. Knows(n)
  BY <1>1 DEF Knows, Late
<1>3. /\ proc' \in [Procs -> {Idle} \cup SignIn]
      /\ \A q \in Procs : proc'[q] = IF q = p THEN n ELSE proc[q]
      /\ SignInsKnow'
  BY <1>2, Moves DEF IInv
<1>4. proc[p].key <= issued
  BY <1>1, KnownKeys DEF IInv
<1>5. /\ \A k \in Keys : session'[k].there \/ rows'[k].there => k <= issued
      /\ \A k \in ended' : k <= issued
      /\ \A k \in Keys : session'[k] = session[k] \/ ~session'[k].there
      /\ EndedIsOut'
  BY SignOutLemma
<1>6. TypeOK'
  BY <1>3 DEF IInv, TypeOK, tables, seen
<1>7. Proven(n, session', proved') /\ proved \subseteq proved'
  BY <1>1, <1>5 DEF Proven, Late, seen
<1>8. Has(n.browser, n.key)
  BY <1>1 DEF Has
<1>9. \A b \in Browsers, h \in Hosts : cookie'[b][h] \in Keys => Has(b, cookie'[b][h])
  BY DEF Has
<1>10. \A k \in Keys, b \in Browsers : Has(b, k)' => Has(b, k)
  BY <1>3, <1>8, <1>9, HasMoves
<1>11. OneBrowser' /\ SessionsProven'
  BY <1>5, <1>7, <1>10, NothingGained
<1>12. SignInsProven'
  BY <1>3, <1>5, <1>7, SignInsStay DEF IInv
<1>13. TokensHeld' /\ HandoffOnce'
  <2>1. n.step # "redeem"
    BY DEF Late
  <2> QED
    BY <1>3, <2>1, TokensStay DEF IInv, seen
<1>14. KeysIssued'
  <2>1. ASSUME NEW q \in Procs, proc'[q].step # "idle" PROVE proc'[q].key <= issued
    BY <1>3, <1>4, <2>1 DEF IInv, KeysIssued
  <2>2. ASSUME NEW q \in Procs, proc'[q].step = "end", NEW k \in proc'[q].others PROVE k <= issued
    BY <1>3, <2>2 DEF IInv, KeysIssued
  <2> QED
    BY <1>5, <2>1, <2>2 DEF IInv, KeysIssued
<1> QED
  BY <1>3, <1>5, <1>6, <1>11, <1>12, <1>13, <1>14 DEF IInv

LEMMA ListOthersStep ==
  ASSUME IInv, NEW p \in Procs, ListOthers(p)
  PROVE  IInv'
<1> DEFINE q == OtherRows(proc[p])
           n == [proc[p] EXCEPT !.step = "end", !.others = Found(q)]
<1>1. /\ Go(p, n) /\ proc[p].step = "others"
      /\ UNCHANGED <<store, tables, token, holder, sweep, begun, seen>>
  BY DEF ListOthers, At
<1>2. Found(q) \in SUBSET Keys /\ \A k \in Found(q) : k <= issued
  BY FoundLemma DEF OtherRows
<1> HIDE DEF q
<1>3. proc[p] \in SignIn
  BY <1>1, SigningIn DEF IInv
<1>4. /\ n \in SignIn /\ n.step = "end" /\ n.others = Found(q)
      /\ n.user = proc[p].user /\ n.key = proc[p].key /\ n.browser = proc[p].browser
      /\ n.companies = proc[p].companies /\ n.company = proc[p].company
  BY <1>2, <1>3 DEF SignIn
<1>5. /\ session' \in [Keys -> {Nothing} \cup Session] /\ rows' \in [Keys -> {Nothing} \cup Row]
      /\ session' = session /\ rows' = rows /\ ended' = ended
      /\ UNCHANGED <<issued, cookie>>
  BY <1>1 DEF IInv, TypeOK, store
<1> HIDE DEF n
<1>6. "others" \in Late /\ "end" \in Late
  BY DEF Late
<1>7. PICK ks \in SUBSET Keys :
         /\ \A k \in Keys : session'[k] = IF k \in ks THEN Nothing ELSE session[k]
         /\ ended' = ended \cup ks
         /\ \A k \in ks : k <= issued
  <2>1. {} \in SUBSET Keys
    OBVIOUS
  <2> QED
    BY <1>5, <2>1
<1> QED
  BY <1>1, <1>2, <1>4, <1>5, <1>6, <1>7, LateStep

LEMMA EndOthersStep ==
  ASSUME IInv, NEW p \in Procs, EndOthers(p)
  PROVE  IInv'
<1> DEFINE ks == proc[p].others
           n  == [proc[p] EXCEPT !.step = "clear", !.others = {}]
<1>1. /\ Go(p, n) /\ proc[p].step = "end"
      /\ session' = Without(session, ks) /\ ended' = ended \cup ks
      /\ UNCHANGED <<issued, cookie, rows, tables, token, holder, sweep, begun, seen>>
  BY DEF EndOthers, At
<1>2. proc[p] \in SignIn /\ ks \in SUBSET Keys /\ \A k \in ks : k <= issued
  BY <1>1, SigningIn DEF IInv, KeysIssued, SignIn
<1>3. /\ n \in SignIn /\ n.step = "clear"
      /\ n.user = proc[p].user /\ n.key = proc[p].key /\ n.browser = proc[p].browser
      /\ n.companies = proc[p].companies /\ n.company = proc[p].company
  BY <1>2 DEF SignIn
<1> HIDE DEF n, ks
<1>4. /\ session' \in [Keys -> {Nothing} \cup Session]
      /\ \A k \in Keys : session'[k] = IF k \in ks THEN Nothing ELSE session[k]
  BY <1>1, Deleted
<1>5. rows' \in [Keys -> {Nothing} \cup Row] /\ rows' = rows
  BY <1>1 DEF IInv, TypeOK
<1>6. "end" \in Late /\ "clear" \in Late
  BY DEF Late
<1> QED
  BY <1>1, <1>2, <1>3, <1>4, <1>5, <1>6, LateStep

\* Rows change, sessions stay.
LEMMA RowStep ==
  ASSUME IInv, NEW p \in Procs, NEW step \in {"row", "answer"},
         proc[p].step \in {"clear", "row"}, Go(p, [proc[p] EXCEPT !.step = step]),
         rows' \in [Keys -> {Nothing} \cup Row],
         \A k \in Keys : rows'[k].there => rows[k].there \/ k <= issued,
         UNCHANGED <<session, issued, cookie, ended, tables, token, holder, sweep, begun, seen>>
  PROVE  IInv'
<1> DEFINE n == [proc[p] EXCEPT !.step = step]
<1>1. proc[p] \in SignIn
  BY SigningIn DEF IInv
<1>2. /\ n \in SignIn /\ n.step = step
      /\ n.user = proc[p].user /\ n.key = proc[p].key /\ n.browser = proc[p].browser
      /\ n.companies = proc[p].companies /\ n.company = proc[p].company
  BY <1>1 DEF SignIn
<1>3. Go(p, n)
  OBVIOUS
<1> HIDE DEF n
<1>4. session' \in [Keys -> {Nothing} \cup Session]
  BY DEF IInv, TypeOK
<1>5. proc[p].step \in Late /\ n.step \in Late /\ n.step # "end"
  BY <1>2 DEF Late
<1>6. PICK ks \in SUBSET Keys :
         /\ \A k \in Keys : session'[k] = IF k \in ks THEN Nothing ELSE session[k]
         /\ ended' = ended \cup ks
         /\ \A k \in ks : k <= issued
  <2>1. {} \in SUBSET Keys
    OBVIOUS
  <2> QED
    BY <2>1
<1> QED
  BY <1>2, <1>3, <1>4, <1>5, <1>6, LateStep

LEMMA ClearOthersStep ==
  ASSUME IInv, NEW p \in Procs, ClearOthers(p)
  PROVE  IInv'
<1> DEFINE ks == Found(OtherRows(proc[p]))
<1>1. /\ rows' = Without(rows, ks)
      /\ proc[p].step = "clear" /\ Go(p, [proc[p] EXCEPT !.step = "row"])
      /\ UNCHANGED <<session, issued, cookie, ended, tables, token, holder, sweep, begun, seen>>
  BY DEF ClearOthers, At
<1> HIDE DEF ks
<1>2. rows' \in [Keys -> {Nothing} \cup Row] /\ \A k \in Keys : rows'[k].there => rows[k].there
  BY <1>1, Deleted
<1> QED
  BY <1>1, <1>2, RowStep

LEMMA PutRowStep ==
  ASSUME IInv, NEW p \in Procs, PutRow(p)
  PROVE  IInv'
<1> DEFINE r   == proc[p]
           row == [there |-> TRUE, user |-> r.user, company |-> r.company]
<1>1. /\ rows' = [rows EXCEPT ![r.key] = row]
      /\ r.step = "row" /\ Go(p, [proc[p] EXCEPT !.step = "answer"])
      /\ UNCHANGED <<session, issued, cookie, ended, tables, token, holder, sweep, begun, seen>>
  BY DEF PutRow, At
<1>2. r \in SignIn /\ r.user \in Users /\ r.key \in Keys
  BY <1>1, SigningIn DEF IInv, SignInsKnow, Knows, Late, SignIn
<1>3. r.key <= issued
  BY <1>1, KnownKeys DEF IInv
<1>4. row \in Row
  BY <1>2 DEF Row, SignIn
<1> HIDE DEF row
<1>5. /\ rows' \in [Keys -> {Nothing} \cup Row]
      /\ \A k \in Keys : rows'[k] = IF k = r.key THEN row ELSE rows[k]
  BY <1>1, <1>2, <1>4 DEF IInv, TypeOK
<1>6. \A k \in Keys : rows'[k].there => rows[k].there \/ k <= issued
  BY <1>3, <1>5
<1> QED
  BY <1>1, <1>5, <1>6, RowStep

-----------------------------------------------------------------------------
\* Somebody signs somebody out.
LEMMA SignedOut ==
  ASSUME IInv, NEW ks \in SUBSET Keys, \A k \in ks : k <= issued,
         session' \in [Keys -> {Nothing} \cup Session], rows' \in [Keys -> {Nothing} \cup Row],
         \A k \in Keys : session'[k] = IF k \in ks THEN Nothing ELSE session[k],
         \A k \in Keys : rows'[k].there => rows[k].there,
         ended' = ended \cup ks,
         cookie' \in [Browsers -> [Hosts -> Keys \cup {0}]],
         \A b \in Browsers, h \in Hosts : cookie'[b][h] \in {cookie[b][h], 0},
         members' = members, single' = single, active' \in SUBSET Companies,
         changes' \in 0 .. MaxChanges,
         sweep' \in [Operators -> {Idle} \cup Sweep],
         \A o \in Operators : sweep'[o].step = "keys" => \A k \in sweep'[o].query.keys : k <= issued,
         UNCHANGED <<issued, token, holder, proc, begun, seen>>
  PROVE  IInv'
<1>1. /\ \A k \in Keys : session'[k].there \/ rows'[k].there => k <= issued
      /\ \A k \in ended' : k <= issued
      /\ \A k \in Keys : session'[k] = session[k] \/ ~session'[k].there
      /\ EndedIsOut'
  BY SignOutLemma
<1>2. TypeOK'
  BY DEF IInv, TypeOK, seen
<1>3. \A k \in Keys, b \in Browsers : Has(b, k)' => Has(b, k)
  BY KeysAreNumbers DEF Has
<1>4. OneBrowser' /\ SessionsProven'
  BY <1>1, <1>3, NothingGained DEF seen
<1>5. SignInsProven'
  BY <1>1 DEF IInv, SignInsProven, Proven, seen
<1>6. KeysIssued'
  <2>1. issued \in Nat
    BY KnownKeys DEF IInv
  <2>2. \A b \in Browsers, h \in Hosts : cookie'[b][h] <= issued
    BY <2>1 DEF IInv, KeysIssued
  <2> QED
    BY <1>1, <2>2 DEF IInv, KeysIssued
<1>7. TokensHeld' /\ HandoffOnce' /\ SignInsKnow'
  BY DEF IInv, TokensHeld, HandoffOnce, SignInsKnow, seen
<1> QED
  BY <1>1, <1>2, <1>4, <1>5, <1>6, <1>7 DEF IInv

LEMMA LogoutStep ==
  ASSUME IInv, NEW b \in Browsers, NEW c \in Companies, Logout(b, c)
  PROVE  IInv'
<1> DEFINE k == KeyOf(b, HostOf[c])
<1>1. HostOf[c] \in Hosts
  BY HostAssumption
<1>2. k \in Keys /\ session[k].there
  BY <1>1, KeyFound DEF Logout, MayEnter, IInv
<1>3. /\ session' = [session EXCEPT ![k] = Nothing]
      /\ cookie' = [cookie EXCEPT ![b][HostOf[c]] = 0]
      /\ ended' = ended \cup {k}
      /\ UNCHANGED <<issued, rows, tables, token, holder, proc, begun, seen, sweep>>
  BY DEF Logout
<1> HIDE DEF k
<1>4. /\ session' \in [Keys -> {Nothing} \cup Session] /\ rows' \in [Keys -> {Nothing} \cup Row]
      /\ \A j \in Keys : session'[j] = IF j \in {k} THEN Nothing ELSE session[j]
  BY <1>2, <1>3 DEF IInv, TypeOK
<1>5. /\ cookie' \in [Browsers -> [Hosts -> Keys \cup {0}]]
      /\ \A a \in Browsers, h \in Hosts : cookie'[a][h] \in {cookie[a][h], 0}
  BY <1>1, <1>3 DEF IInv, TypeOK
<1>6. active' \in SUBSET Companies /\ changes' \in 0 .. MaxChanges /\ members' = members /\ single' = single
  BY <1>3 DEF IInv, TypeOK, tables
<1>7. {k} \in SUBSET Keys /\ \A j \in {k} : j <= issued
  BY <1>2 DEF IInv, KeysIssued
<1>8. \A j \in Keys : rows'[j].there => rows[j].there
  BY <1>3
<1>9. UNCHANGED <<issued, token, holder, proc, begun, seen>>
  BY <1>3
<1>10. /\ sweep' \in [Operators -> {Idle} \cup Sweep]
       /\ \A o \in Operators : sweep'[o].step = "keys" => \A j \in sweep'[o].query.keys : j <= issued
  BY <1>3 DEF IInv, TypeOK, KeysIssued
<1> QED
  BY <1>3, <1>4, <1>5, <1>6, <1>7, <1>8, <1>9, <1>10, SignedOut

\* An operator goes on.
LEMMA SweepsOn ==
  ASSUME IInv, NEW o \in Operators, NEW r \in {Idle} \cup Sweep, Sweeps(o, r),
         r.step = "keys" => \A k \in r.query.keys : k <= issued
  PROVE  /\ sweep' \in [Operators -> {Idle} \cup Sweep]
         /\ \A i \in Operators : sweep'[i].step = "keys" => \A k \in sweep'[i].query.keys : k <= issued
<1>1. \A i \in Operators : sweep'[i] = IF i = o THEN r ELSE sweep[i]
  BY DEF Sweeps, IInv, TypeOK
<1>2. sweep' \in [Operators -> {Idle} \cup Sweep]
  BY DEF Sweeps, IInv, TypeOK
<1> QED
  BY <1>1, <1>2 DEF IInv, KeysIssued

\* It ends sessions or deletes rows, in the list of devices or in the admin.
LEMMA OperatorLemma ==
  ASSUME IInv, NEW ks \in SUBSET Keys, \A k \in ks : k <= issued, NEW gone,
         EndKeys(ks) \/ (ks = {} /\ UNCHANGED <<session, ended>>),
         rows' \in {rows, Without(rows, gone)},
         sweep' \in [Operators -> {Idle} \cup Sweep],
         \A o \in Operators : sweep'[o].step = "keys" => \A k \in sweep'[o].query.keys : k <= issued,
         members' = members, single' = single, active' \in SUBSET Companies,
         changes' \in 0 .. MaxChanges,
         UNCHANGED <<issued, cookie, token, holder, proc, begun, seen>>
  PROVE  IInv'
<1>1. /\ session' \in [Keys -> {Nothing} \cup Session]
      /\ \A k \in Keys : session'[k] = IF k \in ks THEN Nothing ELSE session[k]
      /\ ended' = ended \cup ks
  <2>1. CASE EndKeys(ks)
    BY <2>1, Deleted DEF EndKeys
  <2>2. CASE ks = {} /\ UNCHANGED <<session, ended>>
    BY <2>2 DEF IInv, TypeOK
  <2> QED
    BY <2>1, <2>2
<1>2. /\ rows' \in [Keys -> {Nothing} \cup Row]
      /\ \A k \in Keys : rows'[k].there => rows[k].there
  <2>1. CASE rows' = rows
    BY <2>1 DEF IInv, TypeOK
  <2>2. CASE rows' = Without(rows, gone)
    BY <2>2, Deleted
  <2> QED
    BY <2>1, <2>2
<1>3. /\ cookie' \in [Browsers -> [Hosts -> Keys \cup {0}]]
      /\ \A b \in Browsers, h \in Hosts : cookie'[b][h] \in {cookie[b][h], 0}
  BY DEF IInv, TypeOK
<1> QED
  BY <1>1, <1>2, <1>3, SignedOut

\* The queries.
LEMMA QueryLemma ==
  ASSUME NEW ks \in SUBSET Keys, NEW us \in SUBSET Users, NEW cs \in SUBSET Companies,
         NEW step \in {"keys", "found", "rows"}
  PROVE  LET q == [keys |-> ks, users |-> us, companies |-> cs]
         IN  q \in Query /\ q.keys = ks /\ [step |-> step, query |-> q] \in Sweep
BY DEF Query, Sweep

\* What an operator is at.
LEMMA Sweeper ==
  ASSUME IInv, NEW o \in Operators, sweep[o].step # "idle"
  PROVE  sweep[o] \in Sweep /\ sweep[o].query \in Query /\ sweep[o].query.keys \subseteq Keys
BY DEF IInv, TypeOK, Idle, Sweep, Query

LEMMA EndSessionStep ==
  ASSUME IInv, NEW o \in Operators, NEW b \in Browsers, NEW c \in Companies, NEW k \in Keys,
         EndSession(o, b, c, k)
  PROVE  IInv'
<1> DEFINE q == [keys |-> {k}, users |-> Users, companies |-> Companies]
           r == [step |-> "keys", query |-> q]
<1>1. r \in Sweep /\ r.step = "keys" /\ r.query.keys = {k}
  BY QueryLemma
<1>2. k <= issued
  BY DEF EndSession, IInv, KeysIssued
<1>3. Sweeps(o, r)
  BY DEF EndSession
<1> HIDE DEF r
<1>4. /\ sweep' \in [Operators -> {Idle} \cup Sweep]
      /\ \A i \in Operators : sweep'[i].step = "keys" => \A j \in sweep'[i].query.keys : j <= issued
  BY <1>1, <1>2, <1>3, SweepsOn
<1>5. /\ UNCHANGED <<session, ended, rows, issued, cookie, token, holder, proc, begun, seen>>
      /\ members' = members /\ single' = single /\ active' = active
      /\ changes' = changes + 1 /\ changes < MaxChanges
  BY DEF EndSession, Change, store
<1>6. active' \in SUBSET Companies /\ changes' \in 0 .. MaxChanges
  BY <1>5, BoundAssumption DEF IInv, TypeOK
<1> QED
  BY <1>4, <1>5, <1>6, OperatorLemma

LEMMA EndKeyStep ==
  ASSUME IInv, NEW o \in Operators, EndKey(o)
  PROVE  IInv'
<1> DEFINE q == sweep[o].query
           r == [step |-> "rows", query |-> q]
<1>1. q \in Query /\ q.keys \subseteq Keys /\ \A k \in q.keys : k <= issued
  BY Sweeper DEF EndKey, Sweeping, IInv, KeysIssued
<1>2. r \in Sweep /\ r.step = "rows"
  BY <1>1 DEF Sweep
<1>3. Sweeps(o, r) /\ EndKeys(q.keys)
      /\ UNCHANGED <<issued, cookie, rows, tables, token, holder, proc, begun, seen>>
  BY DEF EndKey
<1> HIDE DEF r, q
<1>4. /\ sweep' \in [Operators -> {Idle} \cup Sweep]
      /\ \A i \in Operators : sweep'[i].step = "keys" => \A j \in sweep'[i].query.keys : j <= issued
  BY <1>2, <1>3, SweepsOn
<1>5. /\ members' = members /\ single' = single
      /\ active' \in SUBSET Companies /\ changes' \in 0 .. MaxChanges
  BY <1>3 DEF IInv, TypeOK, tables
<1> QED
  BY <1>1, <1>3, <1>4, <1>5, OperatorLemma

LEMMA EndFoundStep ==
  ASSUME IInv, NEW o \in Operators, NEW q \in Query, EndFound(o, q),
         members' = members, single' = single, active' \in SUBSET Companies,
         changes' \in 0 .. MaxChanges,
         UNCHANGED <<issued, cookie, rows, token, holder, proc, begun, seen>>
  PROVE  IInv'
<1> DEFINE r == [step |-> "rows", query |-> q]
           ks == Found(q)
<1>1. ks \in SUBSET Keys /\ \A k \in ks : k <= issued
  BY FoundLemma DEF Query
<1>2. r \in Sweep /\ r.step = "rows"
  BY DEF Sweep
<1>3. Sweeps(o, r) /\ EndKeys(ks)
  BY DEF EndFound
<1> HIDE DEF r, ks
<1>4. /\ sweep' \in [Operators -> {Idle} \cup Sweep]
      /\ \A i \in Operators : sweep'[i].step = "keys" => \A j \in sweep'[i].query.keys : j <= issued
  BY <1>2, <1>3, SweepsOn
<1> QED
  BY <1>1, <1>3, <1>4, OperatorLemma

LEMMA EndSessionsStep ==
  ASSUME IInv, NEW o \in Operators, EndSessions(o)
  PROVE  IInv'
<1>1. /\ UNCHANGED <<issued, cookie, rows, token, holder, proc, begun, seen>>
      /\ members' = members /\ single' = single /\ active' = active
      /\ changes' = changes + 1 /\ changes < MaxChanges
  BY DEF EndSessions, Change
<1>2. active' \in SUBSET Companies /\ changes' \in 0 .. MaxChanges
  BY <1>1, BoundAssumption DEF IInv, TypeOK
<1>3. \E q \in Query : EndFound(o, q)
  <2>1. ASSUME NEW u \in Users PROVE [keys |-> Keys, users |-> {u}, companies |-> Companies] \in Query
    BY DEF Query
  <2>2. ASSUME NEW k \in Keys PROVE [keys |-> {k}, users |-> Users, companies |-> Companies] \in Query
    BY DEF Query
  <2> QED
    BY <2>1, <2>2 DEF EndSessions
<1> QED
  BY <1>1, <1>2, <1>3, EndFoundStep

LEMMA BlockStep ==
  ASSUME IInv, NEW o \in Operators, NEW c \in Companies, Block(o, c)
  PROVE  IInv'
<1> DEFINE q == [keys |-> Keys, users |-> Users, companies |-> {c}]
           r == [step |-> "found", query |-> q]
<1>1. r \in Sweep /\ r.step = "found"
  BY QueryLemma
<1>2. Sweeps(o, r)
  BY DEF Block
<1> HIDE DEF r
<1>3. /\ sweep' \in [Operators -> {Idle} \cup Sweep]
      /\ \A i \in Operators : sweep'[i].step = "keys" => \A j \in sweep'[i].query.keys : j <= issued
  BY <1>1, <1>2, SweepsOn
<1>4. /\ UNCHANGED <<session, ended, rows, issued, cookie, token, holder, proc, begun, seen>>
      /\ members' = members /\ single' = single /\ active' = active \ {c}
      /\ changes' = changes + 1 /\ changes < MaxChanges
  BY DEF Block, Change, store
<1>5. active' \in SUBSET Companies /\ changes' \in 0 .. MaxChanges
  BY <1>4, BoundAssumption DEF IInv, TypeOK
<1> QED
  BY <1>3, <1>4, <1>5, OperatorLemma

LEMMA EndBlockedStep ==
  ASSUME IInv, NEW o \in Operators, EndBlocked(o)
  PROVE  IInv'
<1>1. sweep[o].query \in Query
  BY Sweeper DEF EndBlocked, Sweeping
<1>2. /\ members' = members /\ single' = single
      /\ active' \in SUBSET Companies /\ changes' \in 0 .. MaxChanges
  BY DEF EndBlocked, IInv, TypeOK, tables
<1> QED
  BY <1>1, <1>2, EndFoundStep DEF EndBlocked

\* The rows go, or the operator is no more; or rows are deleted in bulk.
LEMMA RowsGoStep ==
  ASSUME IInv,
         \/ \E o \in Operators : ClearRows(o) \/ Abandon(o)
         \/ \E k \in Keys : DeleteSelected(k)
  PROVE  IInv'
<1>1. ASSUME NEW o \in Operators, ClearRows(o) \/ Abandon(o)
      PROVE  IInv'
  <2>1. /\ sweep' \in [Operators -> {Idle} \cup Sweep]
        /\ \A i \in Operators : sweep'[i].step = "keys" => \A j \in sweep'[i].query.keys : j <= issued
    <3>1. Sweeps(o, Idle) /\ Idle.step # "keys"
      BY <1>1 DEF ClearRows, Abandon, Idle
    <3> QED
      BY <3>1, SweepsOn
  <2>2. /\ UNCHANGED <<session, ended, issued, cookie, tables, token, holder, proc, begun, seen>>
        /\ rows' \in {rows, Without(rows, Found(sweep[o].query))}
    BY <1>1 DEF ClearRows, Abandon, store
  <2>3. /\ members' = members /\ single' = single
        /\ active' \in SUBSET Companies /\ changes' \in 0 .. MaxChanges
    BY <2>2 DEF IInv, TypeOK, tables
  <2> QED
    BY <2>1, <2>2, <2>3, OperatorLemma
<1>2. ASSUME NEW k \in Keys, DeleteSelected(k)
      PROVE  IInv'
  <2>1. /\ UNCHANGED <<session, ended, issued, cookie, token, holder, proc, begun, seen>>
        /\ rows' = Without(rows, {k}) /\ sweep' = sweep
        /\ members' = members /\ single' = single /\ active' = active
        /\ changes' = changes + 1 /\ changes < MaxChanges
    BY <1>2 DEF DeleteSelected, Change
  <2>2. /\ sweep' \in [Operators -> {Idle} \cup Sweep]
        /\ \A i \in Operators : sweep'[i].step = "keys" => \A j \in sweep'[i].query.keys : j <= issued
    BY <2>1 DEF IInv, TypeOK, KeysIssued
  <2>3. active' \in SUBSET Companies /\ changes' \in 0 .. MaxChanges
    BY <2>1, BoundAssumption DEF IInv, TypeOK
  <2> QED
    BY <2>1, <2>2, <2>3, OperatorLemma
<1> QED
  BY <1>1, <1>2

\* What touches neither sessions nor sign-ins.
LEMMA TablesStep ==
  ASSUME IInv, UNCHANGED <<store, holder, proc, begun, seen, sweep>>,
         members' \subseteq members, active' \in SUBSET Companies, single' \in SUBSET Companies,
         changes' \in 0 .. MaxChanges,
         token' \in [Tokens -> {NoToken} \cup Handoff],
         \A t \in Tokens : token'[t] = token[t] \/ token[t] = NoToken
  PROVE  IInv'
<1>1. TypeOK'
  BY DEF IInv, TypeOK, store, seen
<1>2. TokensHeld'
  <2>1. NoToken.state \notin {"open", "spent"}
    BY DEF NoToken
  <2>2. ASSUME NEW t \in Tokens, redeemed'[t] # 0 PROVE token'[t].state = "spent"
    BY <2>1, <2>2 DEF IInv, TokensHeld, seen
  <2>3. ASSUME NEW p \in Procs, proc'[p].step = "redeem"
        PROVE  token'[proc'[p].token].state = "open" /\ holder'[proc'[p].token] = p
    <3>1. proc[p].token \in Tokens
      BY <2>3 DEF IInv, SignInsKnow, Knows, Late
    <3> QED
      BY <2>1, <2>3, <3>1 DEF IInv, TokensHeld
  <2> QED
    BY <2>2, <2>3 DEF TokensHeld
<1>3. SignInsKnow' /\ KeysIssued' /\ HandoffOnce' /\ EndedIsOut'
  BY DEF IInv, SignInsKnow, KeysIssued, HandoffOnce, EndedIsOut, store, seen
<1>4. OneBrowser' /\ SessionsProven' /\ SignInsProven'
  BY DEF IInv, OneBrowser, SessionsProven, SignInsProven, Has, store, seen
<1> QED
  BY <1>1, <1>2, <1>3, <1>4 DEF IInv

(***************************************************************************)
(* The theorems                                                            *)
(***************************************************************************)
LEMMA Step == IInv /\ [Next]_vars => IInv'
<1> SUFFICES ASSUME IInv, [Next]_vars PROVE IInv'
  OBVIOUS
<1>0. /\ members \subseteq members /\ active \in SUBSET Companies /\ single \in SUBSET Companies
      /\ changes \in 0 .. MaxChanges /\ token \in [Tokens -> {NoToken} \cup Handoff]
  BY DEF IInv, TypeOK
<1>1. ASSUME NEW p \in Procs, SignInSteps(p) PROVE IInv'
  <2>1. CASE \E b \in Browsers, u \in Users, c \in Companies : PasswordLogin(p, b, u, c)
    BY <2>1, PasswordLoginStep
  <2>2. CASE \E b \in Browsers, t \in Tokens : HandoffStart(p, b, t)
    BY <2>2, HandoffStartStep
  <2>3. CASE RedeemRead(p)
    BY <2>3, RedeemReadStep
  <2>4. CASE RedeemRefused(p)
    BY <2>4, RedeemRefusedStep
  <2>5. CASE RedeemSave(p)
    BY <2>5, RedeemSaveStep
  <2>6. CASE Login(p)
    BY <2>6, LoginStep
  <2>7. CASE Grant(p)
    BY <2>7, GrantStep
  <2>8. CASE PutRow(p)
    BY <2>8, PutRowStep
  <2>9. CASE Answer(p)
    BY <2>9, AnswerStep
  <2>10. CASE Die(p)
    BY <2>10, DieStep
  <2>11. CASE ListOthers(p)
    BY <2>11, ListOthersStep
  <2>12. CASE EndOthers(p)
    BY <2>12, EndOthersStep
  <2>13. CASE ClearOthers(p)
    BY <2>13, ClearOthersStep
  <2> QED
    BY <1>1, <2>1, <2>2, <2>3, <2>4, <2>5, <2>6, <2>7, <2>8, <2>9, <2>10, <2>11, <2>12, <2>13
    DEF SignInSteps
<1>2. ASSUME NEW t \in Tokens, NEW u \in Users, NEW c \in Companies, IssueHandoff(t, u, c)
      PROVE  IInv'
  <2>1. [state |-> "open", user |-> u, company |-> c] \in Handoff
    BY DEF Handoff
  <2>2. /\ token' \in [Tokens -> {NoToken} \cup Handoff]
        /\ \A s \in Tokens : token'[s] = token[s] \/ token[s] = NoToken
    BY <1>0, <1>2, <2>1 DEF IssueHandoff
  <2> QED
    BY <1>0, <1>2, <2>2, TablesStep DEF IssueHandoff, tables
<1>3. ASSUME NEW b \in Browsers, NEW c \in Companies, Logout(b, c)
      PROVE  IInv'
  BY <1>3, LogoutStep
<1>4. ASSUME NEW b \in Browsers, NEW c \in Companies, SaveSecurity(b, c)
      PROVE  IInv'
  <2>1. single' \in SUBSET Companies /\ changes' \in 0 .. MaxChanges
    BY <1>0, <1>4, BoundAssumption DEF SaveSecurity, Change
  <2> QED
    BY <1>0, <1>4, <2>1, TablesStep DEF SaveSecurity
<1>5. ASSUME NEW o \in Operators, OperatorSteps(o)
      PROVE  IInv'
  BY <1>5, EndSessionStep, EndKeyStep, EndSessionsStep, EndBlockedStep, BlockStep, RowsGoStep
  DEF OperatorSteps
<1>6. ASSUME NEW k \in Keys, DeleteSelected(k)
      PROVE  IInv'
  BY <1>6, RowsGoStep
<1>7. ASSUME NEW u \in Users, NEW c \in Companies, RemoveMember(u, c)
      PROVE  IInv'
  <2>1. members' \subseteq members /\ changes' \in 0 .. MaxChanges
    BY <1>0, <1>7, BoundAssumption DEF RemoveMember, Change
  <2> QED
    BY <1>0, <1>7, <2>1, TablesStep DEF RemoveMember
<1>8. ASSUME NEW c \in Companies, Unblock(c)
      PROVE  IInv'
  <2>1. active' \in SUBSET Companies
    BY <1>0, <1>8 DEF Unblock
  <2> QED
    BY <1>0, <1>8, <2>1, TablesStep DEF Unblock
<1>9. CASE UNCHANGED vars
  BY <1>0, <1>9, TablesStep DEF vars, tables
<1> QED
  BY <1>1, <1>2, <1>3, <1>4, <1>5, <1>6, <1>7, <1>8, <1>9 DEF Next

\* The invariant holds in every state a sign-in, a sign-out or an administrator reaches.
THEOREM Invariance == Spec => []IInv
BY InitIInv, Step, PTL DEF Spec

\* Sessions, rows, tokens and sign-ins stay what the tables can hold.
THEOREM TypeCorrect == Spec => []TypeOK
<1>1. IInv => TypeOK
  BY DEF IInv
<1> QED
  BY <1>1, Invariance, PTL

\* redeem_handoff: a token is good for one sign-in, however many processes have its
\* link and wherever they die.
THEOREM RedeemedOnce == Spec => []HandoffOnce
<1>1. IInv => HandoffOnce
  BY DEF IInv
<1> QED
  BY <1>1, Invariance, PTL

\* What OnlyProven follows from: a browser has the keys of its cookies, and what their
\* sessions let in to was proved there.
LEMMA EnteredWasProven == IInv => OnlyProven
<1> SUFFICES ASSUME IInv, NEW b \in Browsers, NEW c \in Companies, MayEnter(b, c)
             PROVE  <<b, session[KeyOf(b, HostOf[c])].user, c>> \in proved
  BY DEF OnlyProven
<1> DEFINE k == KeyOf(b, HostOf[c])
<1>1. HostOf[c] \in Hosts /\ TypeOK
  BY HostAssumption DEF IInv
<1>2. k # 0 /\ c \in session[k].companies
  BY DEF MayEnter, HasCompany
<1>3. k \in Keys /\ k = cookie[b][HostOf[c]] /\ session[k].there
  BY <1>1, <1>2, KeyFound
<1>4. Has(b, k)
  BY <1>1, <1>3 DEF Has
<1> QED
  BY <1>2, <1>3, <1>4 DEF IInv, SessionsProven

\* CompanyMember and TenantMiddleware let nobody in to a company that was not proved in
\* that browser, whatever else the user is a member of and whoever else used the browser.
THEOREM EnteredProven == Spec => []OnlyProven
BY EnteredWasProven, Invariance, PTL

\* A session that was ended stays out: no request that loaded it before saves it back.
THEOREM EndedStaysOut == Spec => []EndedIsOut
<1>1. IInv => EndedIsOut
  BY DEF IInv
<1> QED
  BY <1>1, Invariance, PTL
=============================================================================
