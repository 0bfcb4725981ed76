CONSTANTS
  own = own
  sent = sent
  heard = heard
  zeros = zeros
  words = words
  none = none
  Job = {own, sent, heard}
  Here = {own}
  Sent = {sent}
  Text = {zeros, words}
  Empty = none
  Raw <- MCRaw
  Json <- MCJson
  Printed <- MCPrinted
  RowBytes = 3
  EntryBytes = 3
  OpenBytes = 1
  EndBytes = 2
  IdBytes = 2
  Radix = 4
  Width = 3
  MaxJobs = 2
  MaxHistory = 3
  StateBytes = 75
  OutputLimit = 5
  CompletionReserve = 4
  Blowup = 4
  Weights = {0, 7, 45, 58}
SPECIFICATION StorageSpec
CHECK_DEADLOCK FALSE
INVARIANTS CompletionFits PruneAccepted StoredOnce
PROPERTIES PrunedStaysGone OldestFirst
