CONSTANTS
  us = us
  l1 = l1
  blank = blank
  qa = qa
  qb = qb
  k1 = k1
  k2 = k2
  k3 = k3
  NoString = NoString
  Strings <- MCStrings
  Blanks = {blank}
  Empty = blank
  USJurisdictions = {us}
  MaxI64 = 100
  Commands <- MCCommands
  Payloads <- MCPayloads
  EventLists <- MCEventLists
  QuoteIds = {qa}
  CommandIds = {k1, k2, k3}
  Calls = {c1}
  Subscriptions = {s1}
  ChannelCap = 1
  AppendMaxCommands = 1
  MaxSeq = 1
  Faults = {}
  ReadFaults = FALSE
  Requests <- One
  AfterSeqs = {0}
  MaxAttempts = 2
SPECIFICATION FairSpec
PROPERTY LiveCommitsAreDelivered
CHECK_DEADLOCK FALSE
