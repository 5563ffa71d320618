SPECIFICATION ServingSpec
CONSTANTS
  Block = {1, 2, 3, 4, 5, 6, 7, 8, 9}
  BlockSeq <- StaleSeq
  PrevHash <- StalePrev
  Kind <- StaleKind
  Duty <- StaleDuty
  Votes <- StaleVotes
  Size <- StaleSize
  Content <- StaleContent
  SizeLimit <- OneLimit
  MaxBlocks = 10
  MaxBranches = 5
  W = 5
  BadBlock = {}
  BadContext = {}
  BadVotes = {}
  Founding <- ForkFounding
  Flaky = {}
  LockFaults = {FALSE}
  Crashing = FALSE
  MaxRestarts = 0
CHECK_DEADLOCK FALSE
INVARIANTS WindowHeld
