SPECIFICATION Spec
CONSTANTS
  AmountBound = 16
  LastSeq = 99
  SizeLimit = 2
  MaxOutputs = 2
  K0 = K0
  K1 = K1
  K2 = K2
  K3 = K3
  C0 = C0
  C1 = C1
  Anchor = K0
  NoKey = NoKey
  Config = C0
  MaxNodes = 3
  W = 4
  NoBlock = NoBlock
  Key <- KeyDef
  Universe <- UniverseDef
INVARIANTS FloorReadHarmless
CHECK_DEADLOCK FALSE
