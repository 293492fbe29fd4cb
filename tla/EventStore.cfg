CONSTANTS
  QuoteIds = {qa, qb}
  CommandIds = {k1, k2}
  Payloads = {x, y}
  EventLists <- MCEventLists
  MaxSeq = 3
SPECIFICATION StoreSpec
INVARIANTS
  StoreTypeOK
  SeqsAreContiguous
  KeysPartitionTheLog
PROPERTIES
  TablesOnlyGrow
  ImplementsQuoteLog
