\* Three clients, room for two: the third login finds the server full until one leaves.
CONSTANTS
  Client = {c1, c2, c3}
  MaxPlayers = 2
SPECIFICATION FairSpec
INVARIANTS
  MutualVisibility
  NoGhosts
  NoStrayUpdate
  StrayDestroyExplained
  Capacity
PROPERTIES
  Departure
  EachSession
\* after the process has ended nothing happens
CHECK_DEADLOCK FALSE
