\* One lead, one job, two links, two messages and two workers, of which one dies.
CONSTANTS
  Workers = {w1, w2}
  MaxRetries = 0
  MaxDeaths = 1
  Jobs = {j1}
  Links = {l1, l2}
  SmsRows = {m1, m2}
  Stages = {s1, s2}
  LinkStage = s1
  Actions = {"link", "link_sms"}
SPECIFICATION FairSpec
CHECK_DEADLOCK FALSE
INVARIANTS
  JobRunsOnce
PROPERTIES
  LinkStands
  DueIsClaimed
