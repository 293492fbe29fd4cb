CONSTANTS
  us = us
  l1 = l1
  blank = blank
  qa = qa
  qb = qb
  k1 = k1
  k2 = k2
  k3 = k3
  NoString = NoString
  Strings <- MCStrings
  Blanks = {blank}
  Empty = blank
  USJurisdictions = {us}
  MaxI64 = 100
  Commands <- MCCommands
  Payloads <- MCPayloads
  EventLists <- MCEventLists
  QuoteIds = {qa}
  CommandIds = {k1, k2, k3}
  Calls = {c1, c2}
  Subscriptions = {s1}
  ChannelCap = 2
  AppendMaxCommands = 2
  MaxSeq = 3
  Faults = {"cancel", "sqlite", "crash"}
  ReadFaults = TRUE
  Requests <- Three
  AfterSeqs = {0, 2}
  MaxAttempts = 2
SPECIFICATION Spec
INVARIANTS
  TypeOK
  AnnouncedIsStored
  DeliveryIsGapless
  SnapshotIsTheFold
CHECK_DEADLOCK FALSE
