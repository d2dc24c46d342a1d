SPECIFICATION Spec
CONSTANTS
  a1 = a1
  p1 = p1
  v1 = v1
  v2 = v2
  v3 = v3
  NoAgent = NoAgent
  MaxTasks = 1
  MaxTime = 9
  Horizon = 9
  Posters = {p1}
  Agents = {a1}
  Verifiers = {v1, v2, v3, a1}
  Terms <- MCTerms
  Offers <- MCOneOffer
  VerifierStakes = {20}
  Severities = {"Minor", "Critical"}
  Pausable = TRUE
  MinBounty = 50
  MaxPosterActiveTasks = 2
  MaxBidders = 2
  MaxActiveBids = 1
  VerifierTimeout = 1
  AbandonTimeout = 2
  SlashCooldown = 2
  VerifierCooldown = 2
  PauseThreshold = 2
  ScoreScale = 1000
INVARIANTS TypeOK MainSolvent StakesExact TimestampsOrdered PanelSound
PROPERTIES PaidByMajority ImplementsLifecycle
CHECK_DEADLOCK FALSE
