CONSTANTS
  Player = {p1}
  ChunkRange = 2
  Place <- MCField
  DigAt <- MCNowhere
SPECIFICATION Spec
INVARIANTS
  ChunksAround
  Compact
  PlacedOnce
  LoopsGiveUpdated
CHECK_DEADLOCK FALSE
