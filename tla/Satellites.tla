------------------------------ MODULE Satellites ------------------------------
(***************************************************************************)
(* The contracts beside the core that keep money of their own: the outcome *)
(* reports, the tasks of several agents, the contracts paid by checkpoint, *)
(* the templates, the syndicates and the delegated stakes.  Each is        *)
(* deployed or not; they share nothing, so a step is a step of one of them.*)
(***************************************************************************)
EXTENDS Integers, FiniteSets

CONSTANTS
  NoAgent, ScoreScale,
  OutcomeTasks, OutcomeAgents, Stakes, Windows, Reporters, RiskTerms, RiskOutcomes,
  CreditTerms, CreditOutcomes, ChallengePeriod, OutcomeMaxTime,
  MaxTasks, ConsensusAgents, ConsensusTerms, ConsensusOffers, Outputs, ConsensusReputations,
  MaxActiveBids, ConsensusMaxTime,
  ContractIds, ContinuousAgents, ContinuousVerifiers, ContinuousTerms, ContinuousOffers,
  ContinuousReputations, VerifierStakes, Reserve, MaxIndex, MaxDisputes, MinContinuousBounty,
  MaxPosterActive, MaxActiveContinuous, CheckpointGrace, VerifierCooldown, SlashCooldown,
  ContinuousMaxTime,
  Posters, TemplateTerms, MaxActives, MinBounties, MaxOccurrences, MinOffset, TemplateVerifiers,
  CoreMinBounty, CoreMaxActive, Returned, MaxTemplates, TemplateMaxTime,
  SyndicateMembers, SyndicateAmounts, MaxMembers, MaxSyndicates, MaxBanned,
  DelegationAgents, PoolDelegators, DelegationAmounts, Shares, MaxDelegators, MaxStake

VARIABLES
  present,   \* the contracts that are deployed
  outcomeNow, life, riskCriteria, creditCriteria, reports, outcomeBalance,
  consensusNow, agentReputation, consensusTasks, taskBidders, bids, submissions,
  agentActiveBids, consensusTreasury, consensusBalance,
  continuousNow, contracts, continuousBids, best, checkpoints, panels, lastVerified,
  posterActiveContracts, agentActiveContinuous, agentActiveStake, agentSlashCooldownEnd,
  continuousTreasury, continuousBalance, checkpointDispute, credited,
  templateNow, templates, posterActiveTemplates, maxActiveTemplates, minBountyPerOccurrence,
  templatesPaused, coreTasks, returned, templateBalance,
  syndicates, contributions, syndicateMemberList, agentSyndicateId, dissolutionVotes,
  dissolutionVoteWeight, bannedMembers, syndicateBalance,
  delegationPools, delegatorContributions, agentDelegatorList, bannedAgents, delegationBalance

outcomesAll == <<outcomeNow, life, riskCriteria, creditCriteria, reports, outcomeBalance>>
consensusAll == <<consensusNow, agentReputation, consensusTasks, taskBidders, bids,
                  submissions, agentActiveBids, consensusTreasury, consensusBalance>>
continuousAll == <<continuousNow, contracts, continuousBids, best, checkpoints, panels,
                   lastVerified, posterActiveContracts, agentActiveContinuous, agentActiveStake,
                   agentSlashCooldownEnd, continuousTreasury, continuousBalance, checkpointDispute,
                   credited>>
recurringAll == <<templateNow, templates, posterActiveTemplates, maxActiveTemplates,
                  minBountyPerOccurrence, templatesPaused, coreTasks, returned, templateBalance>>
syndicatesAll == <<syndicates, contributions, syndicateMemberList, agentSyndicateId,
                   dissolutionVotes, dissolutionVoteWeight, bannedMembers, syndicateBalance>>
delegationAll == <<delegationPools, delegatorContributions, agentDelegatorList, bannedAgents,
                   delegationBalance>>
satelliteVars == <<present, outcomesAll, consensusAll, continuousAll, recurringAll, syndicatesAll,
                   delegationAll>>

ASSUME SatelliteAssumption ==
  /\ IsFiniteSet(OutcomeTasks) /\ NoAgent \notin OutcomeAgents
  /\ Stakes \subseteq Nat /\ Windows \subseteq Nat
  /\ OutcomeMaxTime \in Nat \ {0} /\ ChallengePeriod \in Nat
  /\ IsFiniteSet(ConsensusAgents) /\ NoAgent \notin ConsensusAgents
  /\ ConsensusTerms \subseteq [totalBounty : Nat, agentCount : Nat, deadline : Nat,
                               bidDuration : Nat, revealDuration : Nat]
  /\ ConsensusOffers \subseteq [stake : Nat, price : Nat]
  /\ IsFiniteSet(ContractIds) /\ IsFiniteSet(ContinuousAgents) /\ IsFiniteSet(ContinuousVerifiers)
  /\ NoAgent \notin ContinuousAgents \cup ContinuousVerifiers
  /\ ContinuousTerms \subseteq [bounty : Nat, interval : Nat, required : Nat, total : Nat,
                                maxFailures : Nat]
  /\ ContinuousOffers \subseteq [stake : Nat, price : Nat] /\ VerifierStakes \subseteq Nat
  /\ Reserve \in Nat /\ MaxIndex \in Nat
  /\ IsFiniteSet(DelegationAgents) /\ IsFiniteSet(PoolDelegators)
  /\ DelegationAmounts \subseteq Nat /\ Shares \subseteq Nat
  /\ \A terms \in TemplateTerms : terms.bounty \in Nat /\ terms.occurrences \in Nat
  /\ Returned \subseteq Nat
  /\ IsFiniteSet(SyndicateMembers) /\ SyndicateAmounts \subseteq Nat

\* The owner of the core slashes no bond itself: only a report does.
Outcomes == INSTANCE ArenaOutcomes WITH
  Tasks <- OutcomeTasks, Agents <- OutcomeAgents, Severities <- {}, MaxTime <- OutcomeMaxTime,
  now <- outcomeNow, balance <- outcomeBalance

Consensus == INSTANCE ArenaConsensus WITH
  Agents <- ConsensusAgents, Terms <- ConsensusTerms, Offers <- ConsensusOffers,
  Reputations <- ConsensusReputations, MaxTime <- ConsensusMaxTime,
  now <- consensusNow, protocolTreasury <- consensusTreasury, balance <- consensusBalance

Continuous == INSTANCE ArenaContinuous WITH
  Contracts <- ContractIds, Agents <- ContinuousAgents, Verifiers <- ContinuousVerifiers,
  Terms <- ContinuousTerms, Offers <- ContinuousOffers, Reputations <- ContinuousReputations,
  MaxTime <- ContinuousMaxTime, GracePeriod <- CheckpointGrace,
  now <- continuousNow, bids <- continuousBids, protocolTreasury <- continuousTreasury,
  balance <- continuousBalance

Recurring == INSTANCE ArenaRecurring WITH
  Terms <- TemplateTerms, MaxVerifiers <- TemplateVerifiers, MaxTime <- TemplateMaxTime,
  now <- templateNow, paused <- templatesPaused, balance <- templateBalance

Syndicates == INSTANCE ArenaSyndicates WITH
  Members <- SyndicateMembers, Amounts <- SyndicateAmounts, banned <- bannedMembers,
  balance <- syndicateBalance

Delegations == INSTANCE ArenaDelegation WITH
  Agents <- DelegationAgents, Delegators <- PoolDelegators, Amounts <- DelegationAmounts,
  banned <- bannedAgents, balance <- delegationBalance

-----------------------------------------------------------------------------
SatelliteContracts ==
  {"outcomes", "consensus", "continuous", "recurring", "syndicates", "delegation"}

\* What is not deployed keeps nothing.
OutcomesOff ==
  /\ outcomeNow = "off" /\ life = "off" /\ riskCriteria = "off" /\ creditCriteria = "off"
  /\ reports = "off" /\ outcomeBalance = "off"
ConsensusOff ==
  /\ consensusNow = "off" /\ agentReputation = "off" /\ consensusTasks = "off"
  /\ taskBidders = "off" /\ bids = "off" /\ submissions = "off" /\ agentActiveBids = "off"
  /\ consensusTreasury = "off" /\ consensusBalance = "off"
ContinuousOff ==
  /\ continuousNow = "off" /\ contracts = "off" /\ continuousBids = "off" /\ best = "off"
  /\ checkpoints = "off" /\ panels = "off" /\ lastVerified = "off"
  /\ posterActiveContracts = "off" /\ agentActiveContinuous = "off" /\ agentActiveStake = "off"
  /\ agentSlashCooldownEnd = "off" /\ continuousTreasury = "off" /\ continuousBalance = "off"
  /\ checkpointDispute = "off" /\ credited = "off"
RecurringOff ==
  /\ templateNow = "off" /\ templates = "off" /\ posterActiveTemplates = "off"
  /\ maxActiveTemplates = "off" /\ minBountyPerOccurrence = "off" /\ templatesPaused = "off"
  /\ coreTasks = "off" /\ returned = "off" /\ templateBalance = "off"
SyndicatesOff ==
  /\ syndicates = "off" /\ contributions = "off" /\ syndicateMemberList = "off"
  /\ agentSyndicateId = "off" /\ dissolutionVotes = "off" /\ dissolutionVoteWeight = "off"
  /\ bannedMembers = "off" /\ syndicateBalance = "off"
DelegationOff ==
  /\ delegationPools = "off" /\ delegatorContributions = "off" /\ agentDelegatorList = "off"
  /\ bannedAgents = "off" /\ delegationBalance = "off"

SatellitesInit ==
  /\ present \in SUBSET SatelliteContracts
  /\ IF "outcomes" \in present THEN Outcomes!Init ELSE OutcomesOff
  /\ IF "consensus" \in present THEN Consensus!Init ELSE ConsensusOff
  /\ IF "continuous" \in present THEN Continuous!Init ELSE ContinuousOff
  /\ IF "recurring" \in present THEN Recurring!RecurringInit ELSE RecurringOff
  /\ IF "syndicates" \in present THEN Syndicates!SyndicatesInit ELSE SyndicatesOff
  /\ IF "delegation" \in present THEN Delegations!DelegationInit ELSE DelegationOff

OutcomesStep ==
  /\ "outcomes" \in present /\ Outcomes!Next
  /\ UNCHANGED <<present, consensusAll, continuousAll, recurringAll, syndicatesAll, delegationAll>>
ConsensusStep ==
  /\ "consensus" \in present /\ Consensus!Next
  /\ UNCHANGED <<present, outcomesAll, continuousAll, recurringAll, syndicatesAll, delegationAll>>
ContinuousStep ==
  /\ "continuous" \in present /\ Continuous!Next
  /\ UNCHANGED <<present, outcomesAll, consensusAll, recurringAll, syndicatesAll, delegationAll>>
RecurringStep ==
  /\ "recurring" \in present /\ Recurring!RecurringNext
  /\ UNCHANGED <<present, outcomesAll, consensusAll, continuousAll, syndicatesAll, delegationAll>>
SyndicatesStep ==
  /\ "syndicates" \in present /\ Syndicates!SyndicatesNext
  /\ UNCHANGED <<present, outcomesAll, consensusAll, continuousAll, recurringAll, delegationAll>>
DelegationStep ==
  /\ "delegation" \in present /\ Delegations!DelegationNext
  /\ UNCHANGED <<present, outcomesAll, consensusAll, continuousAll, recurringAll, syndicatesAll>>

SatellitesNext ==
  \/ OutcomesStep \/ ConsensusStep \/ ContinuousStep
  \/ RecurringStep \/ SyndicatesStep \/ DelegationStep

SatellitesSpec == SatellitesInit /\ [][SatellitesNext]_satelliteVars

-----------------------------------------------------------------------------
\* ArenaOutcomes: no slash before the window is over.
SlashedAfterWindow == "outcomes" \in present => Outcomes!SlashedAfterWindow
\* What a contract holds is what it still owes, to the last unit: the pending bonds
\* (ArenaOutcomes), the money of tasks of several agents (ArenaConsensus), escrow,
\* bonds, stakes and fees of contracts paid by checkpoint (ArenaContinuous), the escrow
\* of templates (ArenaRecurring), the stakes of syndicates (ArenaSyndicates) and of
\* delegators (ArenaDelegation); and the counters kept beside the money agree with it.
AccountsExact ==
  /\ "outcomes" \in present => Outcomes!HoldsPendingBonds
  /\ "consensus" \in present => Consensus!FundsExact
  /\ "continuous" \in present => Continuous!CheckpointFundsExact
  /\ "recurring" \in present => /\ Recurring!TemplateFundsExact /\ Recurring!SlotsExact
                                /\ Recurring!OccurrencesOnce
  /\ "syndicates" \in present => /\ Syndicates!PoolsExact /\ Syndicates!VotesWeighed
                                 /\ Syndicates!ManagerKeepsItsShare
  /\ "delegation" \in present => Delegations!DelegationsExact
=============================================================================
