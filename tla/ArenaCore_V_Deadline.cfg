SPECIFICATION Spec
CONSTANTS
  a1 = a1
  p1 = p1
  v1 = v1
  NoAgent = NoAgent
  MaxTasks = 1
  MaxTime = 7
  Horizon = 9
  Posters = {p1}
  Agents = {a1}
  Verifiers = {v1}
  Terms <- MCTerms
  Offers <- MCOneOffer
  VerifierStakes = {20}
  Severities = {}
  Pausable = FALSE
  MinBounty = 50
  MaxPosterActiveTasks = 2
  MaxBidders = 2
  MaxActiveBids = 1
  VerifierTimeout = 1
  AbandonTimeout = 2
  SlashCooldown = 2
  VerifierCooldown = 2
  PauseThreshold = 2
  ScoreScale = 1000
INVARIANTS MissedDeadlineEnforceable
CHECK_DEADLOCK FALSE
