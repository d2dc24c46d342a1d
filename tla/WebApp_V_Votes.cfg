SPECIFICATION WebSpec
CONSTANTS
  MaxSalts = 2
  MaxPrompts = 2
  MaxPending = 2
  MaxTasks = 2
  MaxReloads = 1
INVARIANT VotesCast
CHECK_DEADLOCK FALSE
