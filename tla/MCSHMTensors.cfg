CONSTANTS
  x = x
  y = y
  u = u
  v = v
  Names <- MCNames
  Values <- MCValues
  NoValue = NoValue
  NoId = 0
  Ids <- MCIds
  MaxObjs = 4
  MaxUser = 2
  MaxCalls = 2
  MaxInline = 1
SYMMETRY Symmetry
SPECIFICATION Spec
INVARIANT TypeOK
INVARIANT TransitIsLoadable
INVARIANT EchoIsExact
CHECK_DEADLOCK FALSE
