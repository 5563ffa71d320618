SPECIFICATION StartSpec
CONSTANTS
  Block = {1, 2, 3, 4, 5}
  BlockSeq <- RivalSeq
  PrevHash <- RivalPrev
  Kind <- RivalKind
  Duty <- RivalDuty
  Votes <- RivalVotes
  Size <- RivalSize
  Content <- RivalContent
  SizeLimit <- RivalLimit
  MaxBlocks = 5
  MaxBranches = 5
  W = 2
  BadBlock = {}
  BadContext = {}
  BadVotes = {}
  Founding <- ForkFounding
  Flaky = {2}
  LockFaults = {TRUE, FALSE}
  Crashing = TRUE
  MaxRestarts = 1
CHECK_DEADLOCK FALSE
INVARIANTS NodeSound 
 
