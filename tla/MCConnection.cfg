CONSTANTS
  MaxBytes = 5
  MaxReads = 4
SPECIFICATION FairSpec
INVARIANTS
  SingleWriter
  SingleReader
  NeverDeaf
  KickFlushed
  KickedLeavesNothing
PROPERTIES
  KickIsLast
  SessionSpec
  QueuedIsWritten
CHECK_DEADLOCK FALSE
