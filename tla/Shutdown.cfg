CONSTANTS
  us = us
  l1 = l1
  blank = blank
  qa = qa
  qb = qb
  k1 = k1
  k2 = k2
  k3 = k3
  NoString = NoString
  Strings <- MCStrings
  Blanks = {blank}
  Empty = blank
  USJurisdictions = {us}
  MaxI64 = 100
  Commands <- MCCommands
  Payloads <- MCPayloads
  EventLists <- MCEventLists
  QuoteIds = {qa}
  CommandIds = {k1, k2, k3}
  Calls = {c1, c2}
  Subscriptions = {s1}
  ChannelCap = 1
  AppendMaxCommands = 2
  MaxSeq = 1
  Faults = {"cancel", "sqlite", "signal"}
  ReadFaults = FALSE
  Requests <- OneOrNone
  AfterSeqs = {0}
  MaxAttempts = 2
SPECIFICATION ShutdownSpec
INVARIANTS
  ShutdownTypeOK
  DrainAwaitsAppends
  InFlightCountsAppends
PROPERTIES
  DrainIsBounded
  
CHECK_DEADLOCK FALSE
