CONSTANTS
  x = x
  y = y
  w1 = w1
  w2 = w2
  w3 = w3
  a = a
  b = b
  QuoteIds = {qa}
  CommandIds = {k1, k2}
  Payloads = {x, y}
  EventLists <- MCEventLists
  MaxSeq = 3
  Writers = {w1, w2, w3}
  Connections = {a}
  ConnectionOf <- OneConnection
  Hazards = {"sqlite", "crash", "power"}
SPECIFICATION TxnSpec
INVARIANTS
  TxnTypeOK
  DecisionIsCurrent
  KeysPartitionTheLog
CHECK_DEADLOCK FALSE
