CONSTANTS
  SizeX = 4
  SizeY = 8
  SizeZ = 4
  Ground = 2
  Coord <- MCCoord
  Height <- MCHeight
  Base = 16
  ShortWidth = 1
  IntWidth = 2
  Ids <- MCIds
  Times <- MCTimes
  Doubles <- MCDoubles
  Texts <- MCTexts
  Digits <- MCDigits
  Name <- MCName
  MaxDigs = 2
SPECIFICATION RelaySpec
INVARIANTS
  NumbersArrive
  TextParses
  DrawnAsDug
  DugIsStored
  InsideArray
