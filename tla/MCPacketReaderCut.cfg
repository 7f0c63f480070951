CONSTANTS
  Layout <- MCLayout
  Data = Data
  None = None
  MaxPackets = 1
  MaxReads = 4
  MaxBytes = 3
SPECIFICATION Spec
INVARIANTS
  InStep
\* the client sends a bounded number of packets
CHECK_DEADLOCK FALSE
