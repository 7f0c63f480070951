CONSTANTS
  Axis <- MCAxis
  Position <- MCPosition
  Look <- MCLook
  Start <- MCStart
  StartLast <- MCStartLast
  Limit = 2
SPECIFICATION Spec
INVARIANTS
  NoDrift
  LookShown
