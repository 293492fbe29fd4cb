CONSTANTS
  secret = secret
  other = other
  Words <- MCWords
  Ascii <- MCWords
  Rpcs = {r1, r2, r3}
  Connections = {c1, c2}
  ConcurrencyLimit = 1
  Rps = 2
  Token = secret
  Presented <- MCPresented
  MaxTime = 2
SPECIFICATION FairGateSpec
INVARIANTS
  AcceptedAreCapped
  OnlyAcceptedCallsSpend
PROPERTIES
  QueuedCallIsServed
CHECK_DEADLOCK FALSE
