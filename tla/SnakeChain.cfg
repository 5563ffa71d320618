SPECIFICATION BoundedSpec
CONSTANTS
  Block = {1, 2, 3, 4, 5, 6, 7, 8, 9, 10}
  PrevHash <- LinePrev
  Kind <- LineKind
  Duty <- LineDuty
  Segments <- LineSegments
  W = 3
  MaxEpoch = 3
CHECK_DEADLOCK FALSE
INVARIANTS ChainOK
PROPERTIES ConfigStays
