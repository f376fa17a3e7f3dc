SPECIFICATION Spec
CONSTANTS
  MinSize = 3
  MaxSize = 12
  Limits = {2, 3, 4, 5, 6, 7, 8, 9, 10, 11, 12, 13}
  Pings = 2
  Window = 1
  MaxTurns = 3
  MaxExtra = 2
  Times <- MCTimes
  MaxPorts = 10
CHECK_DEADLOCK FALSE
INVARIANT
  WorstIsZero
