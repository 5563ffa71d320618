SPECIFICATION AnsweredSpec
CONSTANTS
  Block = {1, 2, 3, 4, 5, 6, 7}
  BlockSeq <- JoinSeq
  PrevHash <- JoinPrev
  Kind <- JoinKind
  Duty <- JoinDuty
  Votes <- JoinVotes
  Size <- JoinSize
  Content <- JoinContent
  SizeLimit <- TwoLimits
  MaxBlocks = 7
  MaxBranches = 5
  W = 3
  BadBlock = {6}
  BadContext = {}
  BadVotes = {}
  Founding <- None
  Flaky = {}
  LockFaults = {FALSE}
  Crashing = FALSE
  MaxRestarts = 0
CHECK_DEADLOCK FALSE
INVARIANTS NodeSound Acquired
PROPERTIES CatchesUp
