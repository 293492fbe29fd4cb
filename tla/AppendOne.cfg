CONSTANTS
  us = us
  elsewhere = elsewhere
  l1 = l1
  l2 = l2
  blank = blank
  NoString = NoString
  Strings <- MCStrings
  Blanks = {blank}
  Empty = blank
  USJurisdictions = {us}
  MaxI64 = 100
  Commands <- MCCommands
  QuoteIds = {q}
  CommandIds = {k1, k2, k3, k4}
  Payloads <- MCPayloads
  EventLists <- MCEventLists
  Requests <- MCRequests
  MaxSeq = 4
SPECIFICATION AppendSpec
INVARIANTS
  EveryPrefixHasAView
  RetryReturnsTheCommit
  ReusedIdIsRefused
PROPERTIES
  FinalizedIsFrozen
