CONSTANTS
  us = us
  l1 = l1
  blank = blank
  qa = qa
  qb = qb
  k1 = k1
  k2 = k2
  k3 = k3
  NoString = NoString
  Strings <- MCStrings
  Blanks = {blank}
  Empty = blank
  USJurisdictions = {us}
  MaxI64 = 100
  Commands <- MCCommands
  Payloads <- MCPayloads
  EventLists <- MCEventLists
  QuoteIds = {qa}
  CommandIds = {k1, k2, k3}
  Calls = {c1, c2, c3}
  Subscriptions = {}
  ChannelCap = 1
  AppendMaxCommands = 2
  MaxSeq = 2
  Faults = {"cancel", "sqlite", "crash"}
  ReadFaults = FALSE
  Requests <- Reuse
  AfterSeqs = {0, 1}
  MaxAttempts = 2
SPECIFICATION Spec
INVARIANTS
  AcknowledgedIsStored
PROPERTIES
  ImplementsQuoteLog
CHECK_DEADLOCK FALSE
