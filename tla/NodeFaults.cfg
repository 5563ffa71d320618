SPECIFICATION FoundedSpec
CONSTANTS
  Block = {1, 2, 3, 4, 5, 6, 7, 8, 9}
  BlockSeq <- ForkSeq
  PrevHash <- ForkPrev
  Kind <- ForkKind
  Duty <- ForkDuty
  Votes <- ForkVotes
  Size <- ForkSize
  Content <- ForkContent
  SizeLimit <- OneLimit
  MaxBlocks = 6
  MaxBranches = 4
  W = 3
  BadBlock = {6, 9}
  BadContext = {6}
  BadVotes = {7}
  Founding <- ForkFounding
  Flaky = {3}
  LockFaults = {FALSE}
  Crashing = FALSE
  MaxRestarts = 1
CHECK_DEADLOCK FALSE
INVARIANTS NodeSound EvidenceExcluded
PROPERTIES ForwardOnly
