SPECIFICATION MCSpec
CONSTANTS
  a1 = a1
  a2 = a2
  p1 = p1
  v1 = v1
  v2 = v2
  c1 = c1
  NoAgent = NoAgent
  MinBounty = 50
  MaxPosterActiveTasks = 2
  MaxBidders = 2
  MaxActiveBids = 2
  VerifierTimeout = 1
  AbandonTimeout = 2
  SlashCooldown = 2
  VerifierCooldown = 2
  PauseThreshold = 2
  ScoreScale = 1000
INVARIANTS LimitsExact StakesExact
CHECK_DEADLOCK FALSE
