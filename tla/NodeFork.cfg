SPECIFICATION FoundedSpec
CONSTANTS
  Block = {1, 2, 3, 4, 5, 6, 7, 8, 9}
  BlockSeq <- ForkSeq
  PrevHash <- ForkPrev
  Kind <- ForkKind
  Duty <- ForkDuty
  Votes <- ForkVotes
  Size <- ForkSize
  Content <- ForkContent
  SizeLimit <- OneLimit
  MaxBlocks = 7
  MaxBranches = 3
  W = 3
  BadBlock = {}
  BadContext = {}
  BadVotes = {}
  Founding <- ForkFounding
  Flaky = {}
  LockFaults = {FALSE}
  Crashing = FALSE
  MaxRestarts = 0
CHECK_DEADLOCK FALSE
INVARIANTS LinksExact RefsExact TipsTracked RecoveryExact StatusClosed BranchValueExact NoPendingWork
PROPERTIES SwitchComplete
