------------------------------ MODULE MCAmoTokens ------------------------------
(* Instance of AmoTokens for TLC.  The throttle before each of its requests is
   checked on every small sequence of requests first. *)
EXTENDS AmoTokens, Throttle, SequencesExt

MCAttempts == {s \in BoundedSeq(0 .. 7, 5) : \A i \in 2 .. Len(s) : s[i - 1] <= s[i]}
MCLimit    == 2

\* Through Redis no second of the clock sees more requests than the limit, and no
\* second that begins in between more than twice as many: amoCRM, if it counts
\* such a second, can see more than its limit.
ASSUME WindowsKeepLimit ==
  \A attempts \in MCAttempts :
    LET n(tick) == InSecond(attempts, GrantedByWindow(attempts, MCLimit), tick)
    IN  \A tick \in 0 .. 7 :
          /\ tick % Second = 0 => n(tick) <= MCLimit
          /\ n(tick) <= 2 * MCLimit

\* Without Redis no second at all sees more, of one process.
ASSUME LocalKeepsLimit ==
  \A attempts \in MCAttempts :
    \A tick \in 0 .. 7 : InSecond(attempts, GrantedLocally(attempts, MCLimit), tick) <= MCLimit

\* Neither keeps a request waiting that comes alone, a second after any other.
ASSUME LonePasses ==
  \A attempts \in MCAttempts : \A i \in DOMAIN attempts :
    (\A j \in DOMAIN attempts \ {i} : attempts[j] \div Second # attempts[i] \div Second
                                       /\ attempts[j] + Second <= attempts[i])
    => i \in GrantedByWindow(attempts, MCLimit) \cap GrantedLocally(attempts, MCLimit)
================================================================================
