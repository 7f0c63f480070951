CONSTANTS
  Player = {p1, p2}
  ChunkRange = 1
  Place <- MCHere
  DigAt <- MCHere
SPECIFICATION Spec
INVARIANTS
  DestroyedIsShown
CHECK_DEADLOCK FALSE
