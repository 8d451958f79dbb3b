------------------------------ MODULE MCSessions -------------------------------
\* Instance of Sessions for TLC: path tenancy, so that all companies share a host.
EXTENDS Sessions, TLC

MCHostOf == [c \in Companies |-> CHOOSE h \in Hosts : TRUE]

MCSymmetry == Permutations(Users) \cup Permutations(Browsers) \cup Permutations(Procs) \cup Permutations(Companies)

\* Three sign-ins with passwords, two when there is a token.
MCBound == begun = MaxSignIns => \A t \in Tokens : token[t] = NoToken
================================================================================
