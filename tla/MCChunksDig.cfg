CONSTANTS
  Player = {p1, p2}
  ChunkRange = 1
  Place <- MCLine
  DigAt <- MCHere
SPECIFICATION Spec
INVARIANTS
  ServerHolds
PROPERTIES
  StaysDestroyed
  UpdatesFindChunk
CHECK_DEADLOCK FALSE
