SPECIFICATION FoundedSpec
CONSTANTS
  Block = {1, 2, 3, 4, 5, 6, 7, 8, 9, 10}
  BlockSeq <- LongSeq
  PrevHash <- LongPrev
  Kind <- LongKind
  Duty <- LongDuty
  Votes <- LongVotes
  Size <- LongSize
  Content <- LongContent
  SizeLimit <- OneLimit
  MaxBlocks = 6
  MaxBranches = 5
  W = 3
  BadBlock = {}
  BadContext = {}
  BadVotes = {}
  Founding <- ForkFounding
  Flaky = {}
  LockFaults = {FALSE}
  Crashing = FALSE
  MaxRestarts = 1
CHECK_DEADLOCK FALSE
INVARIANTS NodeSound WindowExact
PROPERTIES StaleReclaimed ConfigStays RestartResumes ImplementsSnakeChain
