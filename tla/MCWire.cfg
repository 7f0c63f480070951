CONSTANTS
  Client = {c1, c2}
  MaxPlayers = 2
SPECIFICATION WireSpec
INVARIANTS
  StreamTellsSpawned
  NeverConfused
PROPERTIES
  GamesConverge
