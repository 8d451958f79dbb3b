\* Two companies and two processes, one of which dies; amoCRM issues three pairs.
CONSTANTS
  Companies = {ca, cb}
  Procs = {p1, p2}
  NoProc = NoProc
  MaxPairs = 3
  MaxDeaths = 1
  Second = 2
SPECIFICATION FairSpec
CHECK_DEADLOCK FALSE
INVARIANTS
  PairWorks
PROPERTIES
  BackOnlyByConnect
  KeptFresh
