CONSTANTS
  Layout <- MCLayout
  Data = Data
  None = None
  MaxPackets = 3
  MaxReads = 4
  MaxBytes = 3
SPECIFICATION FairSpec
INVARIANTS
  InStepUntilCut
  NothingSkipped
PROPERTIES
  AsksWithinPacket
  Answered
\* the client sends a bounded number of packets
CHECK_DEADLOCK FALSE
