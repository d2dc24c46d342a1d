SPECIFICATION MCSpec
CONSTANTS
  Delay = 2
  GracePeriod = 2
  PauseThreshold = 2
  MaxTxs = 2
  MaxTime = 10
  NoAgent = NoAgent
  a1 = a1
  a2 = a2
  a3 = a3
  r1 = r1
  h1 = h1
  h2 = h2
  v1 = v1
  v2 = v2
  poster = poster
  Null = Null
  j1 = j1
  j2 = j2
  Jobs = {j1, j2}
  Bounties = {1, 2}
  WalletFunds = 4
  MinBalance = 2
  MaxActive = 2
  MaxFailures = 2
  MaxKeys = 1
  MaxHooks = 1
  MaxTerms = 2
  MaxOthers = 1
  MaxFaults = 1
  ScoreScale = 1000
  OutcomeTasks = {0}
  OutcomeAgents = {a1}
  Stakes = {5, 1000}
  Windows = {2, 4}
  Reporters = {r1, a1}
  RiskTerms <- MCRiskTerms
  RiskOutcomes <- MCRiskOutcomes
  CreditTerms <- MCCreditTerms
  CreditOutcomes = {0, 5000, 6000}
  ChallengePeriod = 1
  OutcomeMaxTime = 6
  MaxTasks = 1
  ConsensusAgents = {a1, a2, a3}
  ConsensusTerms <- MCConsensusTerms
  ConsensusOffers <- MCConsensusOffers
  Outputs = {h1, h2}
  ConsensusReputations = {0, 1}
  MaxActiveBids = 1
  ConsensusMaxTime = 4
  ContractIds = {1}
  ContinuousAgents = {a1, a2}
  ContinuousVerifiers = {v1, a2}
  ContinuousTerms <- MCContinuousTerms
  ContinuousOffers <- MCContinuousOffers
  ContinuousReputations = {0}
  VerifierStakes = {25}
  Reserve = 1000
  MaxIndex = 2
  MaxDisputes = 1
  MinContinuousBounty = 100
  MaxPosterActive = 2
  MaxActiveContinuous = 1
  CheckpointGrace = 1
  VerifierCooldown = 1
  SlashCooldown = 2
  ContinuousMaxTime = 7
  Posters = {poster}
  TemplateTerms <- MCTemplateTerms
  MaxActives = {1, 2}
  MinBounties = {100, 1000}
  MaxOccurrences = 2
  MinOffset = 1
  TemplateVerifiers = 5
  CoreMinBounty = 100
  CoreMaxActive = 2
  Returned = {995}
  MaxTemplates = 2
  TemplateMaxTime = 3
  SyndicateMembers = {a1, a2, a3}
  SyndicateAmounts = {1, 4}
  MaxMembers = 2
  MaxSyndicates = 2
  MaxBanned = 1
  DelegationAgents = {a1, a2}
  PoolDelegators = {a2, a3, poster}
  DelegationAmounts = {1, 2}
  Shares = {400, 500}
  MaxDelegators = 2
  MaxStake = 4
INVARIANTS SlashedAfterWindow AccountsExact TotalsAgree ShownAsOnChain ReadsConsistent RecordsOwn
PROPERTY NoticeGiven
CHECK_DEADLOCK FALSE
