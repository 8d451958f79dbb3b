\* One message, two workers that may run its task at once and die.
CONSTANTS
  Accounts = {a1}
  NoAccount = NoAccount
  Messages = {m1}
  Workers = {w1, w2}
  MaxRetries = 1
  MaxDeaths = 1
  MaxTaken = 2
SPECIFICATION SmsFairSpec
CHECK_DEADLOCK FALSE
INVARIANTS
  SentWasTaken
PROPERTIES
  SettledIsLeft
  QueuedIsDelivered
