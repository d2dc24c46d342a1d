SPECIFICATION MCSpec
CONSTANTS
  Tasks = {0, 1}
  RightType = {1}
  Bounty <- MCBounty
  MinBounty = 100
  MaxBid = 5000
  MaxStakePercent = 20
  BidDeadline = 1
  RevealDeadline = 3
  Deadline = 4
  Lead = 2
  ScanWindow = 20
  Programs = {"audit", "risk"}
  Tolerances = {"medium"}
  Balance = 1000
  Slots = {1, 2}
  Restarts = 2
  PruneFrom = 5
  MaxTime = 5
  Types = {"TaskCreated", "AgentSlashed"}
  Callbacks = {c1, c2}
  Emitters <- MCEmitters
  MaxEvents = 2
  BidTasks = {t1}
  Stakes <- MCStakes
  Calls = {c1, c2, c3}
  Ticks = {k1}
  MaxFaults = 1
  Scripts = {"deploy", "deploy-sepolia", "deploy-direct", "deploy-clean", "deploy-hardhat-auto", "deploy-remaining", "deploy-local", "setup-testnet", "seed-testnet", "verify-deployment"}
  MaxRuns = 2
  MaxSalts = 2
  MaxPrompts = 2
  MaxPending = 2
  MaxTasks = 2
  MaxReloads = 1
  t1 = t1
  c1 = c1
  c2 = c2
  c3 = c3
  k1 = k1
INVARIANTS SaltsMatch StakesTracked SavedBidIsRevealed BidsTracked DeliveredOnce SavedIsLinked SaltStored
CHECK_DEADLOCK FALSE
