SPECIFICATION SyncSpec
CONSTANTS
  Topic = {usage, status, network}
  Subscribable = {usage, status}
INVARIANTS ToldMatches ChangesArePending
PROPERTIES UpdatesOnlyWhileTold PendingIsSent
CHECK_DEADLOCK FALSE
