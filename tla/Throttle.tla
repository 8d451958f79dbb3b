-------------------------------- MODULE Throttle --------------------------------
(***************************************************************************)
(* The throttle before every request to amoCRM (amocrm/client.py,          *)
(* _Throttle): fixed one-second windows counted in Redis, or, without it,  *)
(* the last second's requests of the process.                              *)
(*                                                                         *)
(* Time is in ticks, Second of them to a second.  `attempts` are the times *)
(* at which a request asked, in order, whoever it was of: one that is told *)
(* to sleep asks again at the next whole second, or later.                 *)
(***************************************************************************)
EXTENDS Naturals, Sequences, FiniteSets

CONSTANT Second   \* ticks to a second

ASSUME SecondAssumption == Second \in Nat \ {0}

SameWindow(attempts, i, j) == attempts[i] \div Second = attempts[j] \div Second

\* Redis: the count of the window goes up by a refused request too, and is kept
\* for the two seconds of its expiry.
PassesWindow(attempts, i, limit) == Cardinality({j \in 1 .. i : SameWindow(attempts, i, j)}) <= limit

GrantedByWindow(attempts, limit) == {i \in DOMAIN attempts : PassesWindow(attempts, i, limit)}

\* Without Redis: a list of the requests that were let through, of the last second.
Hits(attempts, granted, i) == {j \in granted : j < i /\ attempts[i] - attempts[j] < Second}

GrantedLocally(attempts, limit) ==
  CHOOSE granted \in SUBSET DOMAIN attempts :
    \A i \in DOMAIN attempts : i \in granted <=> Cardinality(Hits(attempts, granted, i)) < limit

\* How many were let through in the second that begins at a tick.
InSecond(attempts, granted, tick) ==
  Cardinality({i \in granted : attempts[i] \in tick .. tick + Second - 1})
=================================================================================
