------------------------------ MODULE Subgraph ------------------------------
(***************************************************************************)
(* The subgraph's mapping (subgraph/src/mapping.ts): one handler for each  *)
(* event, a function from the store of entities and the event to the       *)
(* store.  An entity is a record under its id; loading an id that was      *)
(* never saved finds nothing, and a handler that finds nothing skips its   *)
(* change.  Hashes, names and times are left out, amounts and statuses are *)
(* kept; e.day is the day of the block.                                    *)
(***************************************************************************)
EXTENDS Integers, FiniteSets, TLC

CONSTANT Null           \* a field that was never set

-----------------------------------------------------------------------------
(* The store.                                                              *)

Has(s, kind, id) == id \in DOMAIN s[kind]
Save(s, kind, id, entity) == [s EXCEPT ![kind] = (id :> entity) @@ @]

\* load the entity and, if it is there, save it with some fields changed
Set(s, kind, id, fields) ==
  IF Has(s, kind, id) THEN Save(s, kind, id, fields @@ s[kind][id]) ELSE s

\* the same, adding to the fields
Add(s, kind, id, amounts) ==
  Set(s, kind, id, [f \in DOMAIN amounts |-> s[kind][id][f] + amounts[f]])

NoStats ==
  [totalTasks |-> 0, totalContinuousContracts |-> 0, totalBountyVolume |-> 0,
   totalProtocolRevenue |-> 0, totalSlashVolume |-> 0, totalInsurancePremiums |-> 0,
   totalInsuranceClaims |-> 0, totalAgents |-> 0, totalVerifiers |-> 0, totalSyndicates |-> 0,
   totalDelegated |-> 0, totalDisputes |-> 0, activeTasks |-> 0, tasksCompleted |-> 0,
   tasksFailed |-> 0, tasksCancelled |-> 0]

\* load or create the statistics, add, save
CountStats(s, amounts) ==
  [s EXCEPT !.stats = [f \in DOMAIN amounts |-> @[f] + amounts[f]] @@ @]

NoDailyStats ==
  [tasksCreated |-> 0, tasksCompleted |-> 0, tasksFailed |-> 0, bountyVolume |-> 0,
   protocolRevenue |-> 0, slashVolume |-> 0, insurancePremiums |-> 0, insuranceClaims |-> 0,
   newAgents |-> 0, disputesRaised |-> 0, delegationVolume |-> 0]

CountDaily(s, e, amounts) ==
  LET daily == IF Has(s, "daily", e.day) THEN s.daily[e.day] ELSE NoDailyStats
  IN  Save(s, "daily", e.day, [f \in DOMAIN amounts |-> daily[f] + amounts[f]] @@ daily)

NewAgent ==
  [reputation |-> 0, tasksCompleted |-> 0, tasksFailed |-> 0, activeStake |-> 0, banned |-> FALSE,
   totalEarnings |-> 0, totalSlashed |-> 0, honeypotFlags |-> 0, delegationPoolOpen |-> FALSE,
   delegationTotalDelegated |-> 0, delegatorCount |-> 0, tokenId |-> Null]

\* getOrCreateAgent: the agent it returns, and what it saves on the way.  The
\* caller saves the agent, or does not.
AgentOf(s, a) == IF Has(s, "agents", a) THEN s.agents[a] ELSE NewAgent
GetOrCreateAgent(s, e, a) ==
  IF Has(s, "agents", a) THEN s
  ELSE CountDaily(CountStats(s, [totalAgents |-> 1]), e, [newAgents |-> 1])

SaveAgent(s, e, a, fields) ==
  Save(GetOrCreateAgent(s, e, a), "agents", a, fields @@ AgentOf(s, a))
AddToAgent(s, e, a, amounts) ==
  SaveAgent(s, e, a, [f \in DOMAIN amounts |-> AgentOf(s, a)[f] + amounts[f]])

\* one slash of a task per kind of event
CreateSlashEvent(s, e, reason) ==
  Save(s, "slashEvents", <<e.task, reason>>,
       [agent |-> e.agent, task |-> e.task, amount |-> e.amount, severity |-> e.severity])

EmptyStore ==
  [stats |-> NoStats] @@
  [kind \in {"tasks", "bids", "agents", "daily", "verifications", "slashEvents", "honeypots",
             "registrations", "continuous", "checkpoints", "disputes", "arbitrators", "offers",
             "policies", "syndicates", "members", "delegations"} |-> << >>]

-----------------------------------------------------------------------------
(* Tasks.                                                                  *)

HandleTaskCreated(s, e) ==
  LET saved == Save(s, "tasks", e.task,
        [poster |-> e.poster, bounty |-> e.bounty, status |-> "Open", isHoneypot |-> FALSE,
         honeypotPassed |-> Null, slashBond |-> 0, slashAmount |-> Null, slashSeverity |-> Null,
         agent |-> Null, agentStake |-> Null, agentPrice |-> Null, payout |-> Null,
         protocolFee |-> Null, syndicateId |-> Null, delegatedPoolStake |-> Null,
         preferredChain |-> Null])
      counted == CountStats(saved, [totalTasks |-> 1, totalBountyVolume |-> e.bounty, activeTasks |-> 1])
  IN  CountDaily(counted, e, [tasksCreated |-> 1, bountyVolume |-> e.bounty])

NewBid(bidder) ==
  [bidder |-> bidder, stake |-> Null, price |-> Null, revealed |-> FALSE, won |-> FALSE,
   isSyndicateBid |-> FALSE, isDelegatedBid |-> FALSE, delegatedStake |-> Null]

HandleBidCommitted(s, e) ==
  LET saved == Save(GetOrCreateAgent(s, e, e.agent), "bids", <<"task", e.task, e.agent>>, NewBid(e.agent))
  IN  SaveAgent(saved, e, e.agent, << >>)

\* Bug: any reveal puts the task into the reveal phase
BugHandleBidRevealed(s, e) ==
  LET shown == Set(s, "bids", <<"task", e.task, e.agent>>,
                   [stake |-> e.stake, price |-> e.price, revealed |-> TRUE])
  IN  AddToAgent(Set(shown, "tasks", e.task, [status |-> "BidReveal"]), e, e.agent,
                 [activeStake |-> e.stake])

HandleBidRevealed(s, e) ==
  LET shown == Set(s, "bids", <<"task", e.task, e.agent>>,
                   [stake |-> e.stake, price |-> e.price, revealed |-> TRUE])
      opened == IF Has(s, "tasks", e.task) /\ s.tasks[e.task].status = "Open"
                THEN Set(shown, "tasks", e.task, [status |-> "BidReveal"])
                ELSE shown
  IN  AddToAgent(opened, e, e.agent, [activeStake |-> e.stake])

\* the agent is read, and not saved
HandleAgentAssigned(s, e) ==
  LET read == IF Has(s, "tasks", e.task) THEN GetOrCreateAgent(s, e, e.agent) ELSE s
      assigned == Set(read, "tasks", e.task,
                      [agent |-> e.agent, agentStake |-> e.stake, agentPrice |-> e.price,
                       status |-> "Assigned"])
  IN  Set(assigned, "bids", <<"task", e.task, e.agent>>, [won |-> TRUE])

HandleTaskDelivered(s, e) == Set(s, "tasks", e.task, [status |-> "Delivered"])

NewVerification(verifier, stake) ==
  [verifier |-> verifier, stake |-> stake, vote |-> Null, timedOut |-> FALSE, slashed |-> FALSE,
   slashAmount |-> Null]

HandleVerifierAssigned(s, e) ==
  Set(Save(s, "verifications", <<e.task, e.verifier>>, NewVerification(e.verifier, e.stake)),
      "tasks", e.task, [status |-> "Verifying"])

HandleVerificationSubmitted(s, e) ==
  Set(s, "verifications", <<e.task, e.verifier>>, [vote |-> e.vote])

HandleTaskCompleted(s, e) ==
  LET done == Set(s, "tasks", e.task, [status |-> "Completed", payout |-> e.payout])
      credited == AddToAgent(done, e, e.agent,
                             [tasksCompleted |-> 1, reputation |-> 10, totalEarnings |-> e.payout])
      counted == CountStats(credited, [tasksCompleted |-> 1, activeTasks |-> -1])
  IN  CountDaily(counted, e, [tasksCompleted |-> 1])

HandleAgentSlashed(s, e) ==
  LET failed == Set(s, "tasks", e.task,
                    [status |-> "Failed", slashAmount |-> e.amount, slashSeverity |-> e.severity])
      agent == AgentOf(s, e.agent)
      slashed == SaveAgent(failed, e, e.agent,
                   [tasksFailed |-> agent.tasksFailed + 1,
                    totalSlashed |-> agent.totalSlashed + e.amount,
                    reputation |-> IF agent.reputation > 5 THEN agent.reputation - 5 ELSE 0,
                    banned |-> agent.banned \/ e.severity = "Critical"])
      counted == CountStats(CreateSlashEvent(slashed, e, "AgentSlashed"),
                            [tasksFailed |-> 1, activeTasks |-> -1, totalSlashVolume |-> e.amount])
  IN  CountDaily(counted, e, [tasksFailed |-> 1, slashVolume |-> e.amount])

HandleVerifierSlashed(s, e) ==
  CountStats(Set(s, "verifications", <<e.task, e.verifier>>,
                 [slashed |-> TRUE, slashAmount |-> e.amount]),
             [totalSlashVolume |-> e.amount])

HandleTaskDisputed(s, e) == Set(s, "tasks", e.task, [status |-> "Disputed"])

HandleTaskCancelled(s, e) ==
  CountStats(Set(s, "tasks", e.task, [status |-> "Cancelled"]),
             [tasksCancelled |-> 1, activeTasks |-> -1])

HandleProtocolFeeCollected(s, e) ==
  CountDaily(CountStats(Set(s, "tasks", e.task, [protocolFee |-> e.amount]),
                        [totalProtocolRevenue |-> e.amount]),
             e, [protocolRevenue |-> e.amount])

HandleSlashBondClaimed(s, e) == Set(s, "tasks", e.task, [slashBond |-> 0])

HandleSlashBondForfeited(s, e) ==
  LET forfeited == Set(s, "tasks", e.task,
                       [slashBond |-> 0, slashAmount |-> e.amount, slashSeverity |-> e.severity])
  IN  CreateSlashEvent(GetOrCreateAgent(forfeited, e, e.agent), e, "SlashBondForfeited")

HandleHoneypotCreated(s, e) ==
  Save(Set(s, "tasks", e.task, [isHoneypot |-> TRUE]), "honeypots", e.task,
       [settled |-> FALSE, agentCaught |-> Null])

HandleHoneypotSettled(s, e) ==
  LET settled == Set(s, "honeypots", e.task, [settled |-> TRUE, agentCaught |-> ~e.passed])
      agent == AgentOf(s, e.agent)
      flags == agent.honeypotFlags + (IF e.passed THEN 0 ELSE 1)
  IN  SaveAgent(Set(settled, "tasks", e.task, [honeypotPassed |-> e.passed]), e, e.agent,
                [honeypotFlags |-> flags,
                 banned |-> agent.banned \/ (~e.passed /\ flags >= 2)])

-----------------------------------------------------------------------------
(* The pool of verifiers.                                                  *)

HandleVerifierRegistered(s, e) ==
  CountStats(Save(s, "registrations", e.verifier,
                  [stake |-> e.stake, active |-> TRUE, anomalyCount |-> 0, flagged |-> FALSE,
                   banned |-> FALSE]),
             [totalVerifiers |-> 1])

HandleVerifierDeregistered(s, e) ==
  CountStats(Set(s, "registrations", e.verifier, [active |-> FALSE]),
             [totalVerifiers |-> IF s.stats.totalVerifiers > 0 THEN -1 ELSE 0])

HandleVRFVerifiersAssigned(s, e) == s

HandleVerifierTimedOut(s, e) ==
  Set(s, "verifications", <<e.task, e.verifier>>,
      [timedOut |-> TRUE, slashed |-> TRUE, slashAmount |-> e.amount])

HandleAnomalyDetected(s, e) == Add(s, "registrations", e.verifier, [anomalyCount |-> 1])

HandleVerifierAutoFlagged(s, e) ==
  Set(s, "registrations", e.verifier, [flagged |-> TRUE, anomalyCount |-> e.anomalyCount])

HandleVerifierAutoBanned(s, e) ==
  Set(s, "registrations", e.verifier, [banned |-> TRUE, active |-> FALSE])

HandleAgentSlashCooldownApplied(s, e) == SaveAgent(s, e, e.agent, << >>)

-----------------------------------------------------------------------------
(* Continuous contracts.                                                   *)

HandleContinuousContractCreated(s, e) ==
  CountStats(Save(s, "continuous", e.contract,
                  [poster |-> e.poster, agent |-> Null, status |-> "Open", completedCheckpoints |-> 0,
                   passedCheckpoints |-> 0, failedCheckpoints |-> 0, totalPaid |-> 0,
                   totalSlashed |-> 0, stakeReturned |-> Null]),
             [totalContinuousContracts |-> 1, totalBountyVolume |-> e.bounty])

HandleContinuousBidCommitted(s, e) ==
  Save(GetOrCreateAgent(s, e, e.agent), "bids", <<"cc", e.contract, e.agent>>, NewBid(e.agent))

HandleContinuousBidRevealed(s, e) ==
  Set(s, "bids", <<"cc", e.contract, e.agent>>,
      [stake |-> e.stake, price |-> e.price, revealed |-> TRUE])

HandleContinuousAgentAssigned(s, e) ==
  LET read == IF Has(s, "continuous", e.contract) THEN GetOrCreateAgent(s, e, e.agent) ELSE s
  IN  Set(Set(read, "continuous", e.contract, [agent |-> e.agent, status |-> "Active"]),
          "bids", <<"cc", e.contract, e.agent>>, [won |-> TRUE])

NewCheckpoint(status) == [status |-> status, payoutAmount |-> Null, slashAmount |-> Null]

HandleCheckpointSubmitted(s, e) ==
  Save(s, "checkpoints", <<e.contract, e.index>>, NewCheckpoint("Submitted"))

HandleCheckpointVerifierAssigned(s, e) ==
  Set(Save(s, "verifications", <<e.contract, e.index, e.verifier>>, NewVerification(e.verifier, e.stake)),
      "checkpoints", <<e.contract, e.index>>, [status |-> "Verifying"])

HandleCheckpointEvaluated(s, e) ==
  LET evaluated == Set(s, "checkpoints", <<e.contract, e.index>>,
        [status |-> e.status, payoutAmount |-> e.payout, slashAmount |-> e.amount])
      counted == Add(evaluated, "continuous", e.contract,
        [completedCheckpoints |-> 1] @@
        (CASE e.status = "Passed" -> [passedCheckpoints |-> 1, totalPaid |-> e.payout]
           [] e.status = "Failed" -> [failedCheckpoints |-> 1, totalSlashed |-> e.amount]
           [] OTHER -> << >>))
  IN  IF e.amount > 0
      THEN CountDaily(CountStats(counted, [totalSlashVolume |-> e.amount]), e, [slashVolume |-> e.amount])
      ELSE counted

\* a checkpoint that was never submitted has no entity yet
HandleCheckpointMissed(s, e) ==
  LET id == <<e.contract, e.index>>
      loaded == IF Has(s, "checkpoints", id) THEN s.checkpoints[id] ELSE NewCheckpoint(Null)
  IN  Add(Save(s, "checkpoints", id, [status |-> "Missed"] @@ loaded),
          "continuous", e.contract, [completedCheckpoints |-> 1, failedCheckpoints |-> 1])

HandleContinuousContractTerminated(s, e) ==
  Set(s, "continuous", e.contract, [status |-> "Terminated"])

HandleContinuousContractCompleted(s, e) ==
  Set(s, "continuous", e.contract,
      [status |-> "Completed", totalPaid |-> e.payout, totalSlashed |-> e.amount,
       stakeReturned |-> e.stake])

-----------------------------------------------------------------------------
(* Disputes.                                                               *)

HandleDisputeRaised(s, e) ==
  CountDaily(CountStats(Save(s, "disputes", e.dispute,
                             [task |-> e.task, disputeType |-> e.type, status |-> "Selecting",
                              resolvedInFavorOfAgent |-> Null, feeToProtocol |-> Null]),
                        [totalDisputes |-> 1]),
             e, [disputesRaised |-> 1])

HandleArbitratorsSelected(s, e) ==
  LET entities == [id \in {e.dispute} \X e.arbitrators |->
        [stake |-> 0, vote |-> "Pending", staked |-> FALSE, slashed |-> FALSE, timedOut |-> FALSE,
         slashAmount |-> Null]]
  IN  [Set(s, "disputes", e.dispute, [status |-> "Staking"])
         EXCEPT !.arbitrators = entities @@ @]

\* the dispute is shown as voting from the first stake on
HandleArbitratorStaked(s, e) ==
  Set(Set(s, "arbitrators", <<e.dispute, e.arbitrator>>, [stake |-> e.stake, staked |-> TRUE]),
      "disputes", e.dispute, [status |-> "Voting"])

HandleArbitratorVoteSubmitted(s, e) == Set(s, "arbitrators", <<e.dispute, e.arbitrator>>, [vote |-> e.vote])

HandleArbitratorSlashed(s, e) ==
  Set(s, "arbitrators", <<e.dispute, e.arbitrator>>, [slashed |-> TRUE, slashAmount |-> e.amount])

HandleArbitratorTimedOut(s, e) ==
  Set(s, "arbitrators", <<e.dispute, e.arbitrator>>,
      [timedOut |-> TRUE, slashed |-> TRUE, slashAmount |-> e.amount])

HandleDisputeResolved(s, e) ==
  Set(s, "disputes", e.dispute, [status |-> "Resolved", resolvedInFavorOfAgent |-> e.inFavorOfAgent])

HandleDisputeExpired(s, e) == Set(s, "disputes", e.dispute, [status |-> "Expired"])

HandleDisputeFeeDistributed(s, e) ==
  CountStats(Set(s, "disputes", e.dispute, [feeToProtocol |-> e.amount]),
             [totalProtocolRevenue |-> e.amount])

-----------------------------------------------------------------------------
(* Insurance.                                                              *)

HandleInsuranceOffered(s, e) ==
  Save(s, "offers", e.offer,
       [insurer |-> e.insurer, task |-> e.task, premium |-> e.premium, status |-> "Open"])

HandleInsurancePurchased(s, e) ==
  LET bought == Save(s, "policies", e.offer,
        [insurer |-> e.insurer, task |-> e.task, premiumPaid |-> e.premium, status |-> "Active",
         claimedAmount |-> Null])
      shown == Set(bought, "offers", e.offer, [status |-> "Active"])
  IN  CountDaily(CountStats(shown, [totalInsurancePremiums |-> e.premium]),
                 e, [insurancePremiums |-> e.premium])

HandleInsuranceClaimed(s, e) ==
  LET claimed == Set(s, "policies", e.offer, [status |-> "Claimed", claimedAmount |-> e.amount])
      shown == Set(claimed, "offers", e.offer, [status |-> "Claimed"])
  IN  CountDaily(CountStats(shown, [totalInsuranceClaims |-> e.amount]),
                 e, [insuranceClaims |-> e.amount])

HandleInsuranceSettled(s, e) ==
  Set(Set(s, "policies", e.offer, [status |-> "Settled"]), "offers", e.offer, [status |-> "Settled"])

HandleInsuranceOfferCancelled(s, e) == Set(s, "offers", e.offer, [status |-> "Cancelled"])

-----------------------------------------------------------------------------
(* Syndicates.                                                             *)

HandleSyndicateCreated(s, e) ==
  CountStats(Save(s, "syndicates", e.syndicate,
                  [manager |-> e.agent, totalStake |-> 0, memberCount |-> 0, status |-> "Active",
                   tasksWon |-> 0, tasksCompleted |-> 0, tasksFailed |-> 0, totalEarnings |-> 0,
                   totalLosses |-> 0]),
             [totalSyndicates |-> 1])

HandleSyndicateJoined(s, e) ==
  Add(Save(GetOrCreateAgent(s, e, e.agent), "members", <<e.syndicate, e.agent>>,
           [contribution |-> e.amount, active |-> TRUE]),
      "syndicates", e.syndicate, [memberCount |-> 1, totalStake |-> e.amount])

HandleSyndicateLeft(s, e) ==
  Add(Set(s, "members", <<e.syndicate, e.agent>>, [active |-> FALSE]),
      "syndicates", e.syndicate, [memberCount |-> -1, totalStake |-> -e.amount])

HandleSyndicateDissolved(s, e) == Set(s, "syndicates", e.syndicate, [status |-> "Dissolved"])

HandleSyndicateBidCommitted(s, e) ==
  LET bid == IF Has(s, "syndicates", e.syndicate)
             THEN Save(s, "bids", <<"syn", e.syndicate, e.task>>,
                       [NewBid(s.syndicates[e.syndicate].manager) EXCEPT !.isSyndicateBid = TRUE])
             ELSE s
  IN  Set(bid, "tasks", e.task, [syndicateId |-> e.syndicate])

\* a revealed bid counts as a task won
HandleSyndicateBidRevealed(s, e) ==
  Add(Set(s, "bids", <<"syn", e.syndicate, e.task>>,
          [stake |-> e.stake, price |-> e.price, revealed |-> TRUE]),
      "syndicates", e.syndicate, [tasksWon |-> 1])

HandleSyndicateRewardsDistributed(s, e) ==
  Add(s, "syndicates", e.syndicate, [tasksCompleted |-> 1, totalEarnings |-> e.amount])

HandleSyndicateLossesDistributed(s, e) ==
  Add(s, "syndicates", e.syndicate, [tasksFailed |-> 1, totalLosses |-> e.amount])

-----------------------------------------------------------------------------
(* Delegation.                                                             *)

HandleDelegationPoolOpened(s, e) == SaveAgent(s, e, e.agent, [delegationPoolOpen |-> TRUE])

\* Bug: a new delegation starts with the amount that is then added
BugHandleStakeDelegated(s, e) ==
  LET id == <<e.agent, e.delegator>>
      known == IF Has(s, "delegations", id) THEN s.delegations[id].amount ELSE e.amount
      saved == Save(s, "delegations", id,
                    [amount |-> known + e.amount, active |-> TRUE, totalRewardsClaimed |-> 0,
                     totalLossesClaimed |-> 0])
      agent == AddToAgent(saved, e, e.agent, [delegationTotalDelegated |-> e.amount])
  IN  CountDaily(CountStats(agent, [totalDelegated |-> e.amount]), e, [delegationVolume |-> e.amount])

\* The first delegation of a pair loads the agent once more and counts the
\* delegator; the delegator itself is created and not saved.
HandleStakeDelegated(s, e) ==
  LET id == <<e.agent, e.delegator>>
      met == IF Has(s, "delegations", id) THEN s
             ELSE LET read == GetOrCreateAgent(GetOrCreateAgent(s, e, e.agent), e, e.delegator)
                  IN  AddToAgent(Save(read, "delegations", id,
                                      [amount |-> 0, active |-> TRUE, totalRewardsClaimed |-> 0,
                                       totalLossesClaimed |-> 0]),
                                 e, e.agent, [delegatorCount |-> 1])
      saved == Save(met, "delegations", id,
                    [amount |-> met.delegations[id].amount + e.amount, active |-> TRUE]
                      @@ met.delegations[id])
      agent == AddToAgent(saved, e, e.agent, [delegationTotalDelegated |-> e.amount])
  IN  CountDaily(CountStats(agent, [totalDelegated |-> e.amount]), e, [delegationVolume |-> e.amount])

HandleDelegationWithdrawn(s, e) ==
  LET id == <<e.agent, e.delegator>>
      left == s.delegations[id].amount - e.amount
      lowered == IF ~Has(s, "delegations", id) THEN s
                 ELSE IF left = 0
                 THEN Set(AddToAgent(s, e, e.agent, [delegatorCount |-> -1]),
                          "delegations", id, [amount |-> left, active |-> FALSE])
                 ELSE Set(s, "delegations", id, [amount |-> left])
      agent == AddToAgent(lowered, e, e.agent, [delegationTotalDelegated |-> -e.amount])
      total == s.stats.totalDelegated
  IN  CountStats(agent, [totalDelegated |-> IF total > e.amount THEN -e.amount ELSE -total])

HandleDelegatorRevenueShareUpdated(s, e) == SaveAgent(s, e, e.agent, << >>)

HandleDelegatedBidRevealed(s, e) ==
  Set(Set(s, "bids", <<"task", e.task, e.agent>>,
          [isDelegatedBid |-> TRUE, delegatedStake |-> e.amount]),
      "tasks", e.task, [delegatedPoolStake |-> e.amount])

\* the delegation is found through the agent the task is shown with
Delegation(s, e) ==
  IF Has(s, "tasks", e.task) THEN <<s.tasks[e.task].agent, e.delegator>> ELSE <<Null, e.delegator>>

HandleDelegatorRewardsClaimed(s, e) ==
  Add(s, "delegations", Delegation(s, e), [totalRewardsClaimed |-> e.amount])

HandleDelegatorLossesClaimed(s, e) ==
  Add(s, "delegations", Delegation(s, e), [totalLossesClaimed |-> e.amount])

-----------------------------------------------------------------------------
(* Reputation tokens, chain preferences.                                   *)

HandleReputationNFTMinted(s, e) == SaveAgent(s, e, e.agent, [tokenId |-> e.token])
HandleReputationNFTBurned(s, e) == SaveAgent(s, e, e.agent, [tokenId |-> Null])
HandleChainPreferenceSet(s, e) == Set(s, "tasks", e.task, [preferredChain |-> e.chain])

-----------------------------------------------------------------------------
\* the manifest's table of handlers; an event that is not in it changes nothing
Handle(s, e) ==
  CASE e.name = "TaskCreated" -> HandleTaskCreated(s, e)
    [] e.name = "BidCommitted" -> HandleBidCommitted(s, e)
    [] e.name = "BidRevealed" -> HandleBidRevealed(s, e)
    [] e.name = "AgentAssigned" -> HandleAgentAssigned(s, e)
    [] e.name = "TaskDelivered" -> HandleTaskDelivered(s, e)
    [] e.name = "VerifierAssigned" -> HandleVerifierAssigned(s, e)
    [] e.name = "VerificationSubmitted" -> HandleVerificationSubmitted(s, e)
    [] e.name = "TaskCompleted" -> HandleTaskCompleted(s, e)
    [] e.name = "AgentSlashed" -> HandleAgentSlashed(s, e)
    [] e.name = "VerifierSlashed" -> HandleVerifierSlashed(s, e)
    [] e.name = "TaskDisputed" -> HandleTaskDisputed(s, e)
    [] e.name = "TaskCancelled" -> HandleTaskCancelled(s, e)
    [] e.name = "ProtocolFeeCollected" -> HandleProtocolFeeCollected(s, e)
    [] e.name = "SlashBondClaimed" -> HandleSlashBondClaimed(s, e)
    [] e.name = "SlashBondForfeited" -> HandleSlashBondForfeited(s, e)
    [] e.name = "HoneypotCreated" -> HandleHoneypotCreated(s, e)
    [] e.name = "HoneypotSettled" -> HandleHoneypotSettled(s, e)
    [] e.name = "VerifierRegistered" -> HandleVerifierRegistered(s, e)
    [] e.name = "VerifierDeregistered" -> HandleVerifierDeregistered(s, e)
    [] e.name = "VRFVerifiersAssigned" -> HandleVRFVerifiersAssigned(s, e)
    [] e.name = "VerifierTimedOut" -> HandleVerifierTimedOut(s, e)
    [] e.name = "AnomalyDetected" -> HandleAnomalyDetected(s, e)
    [] e.name = "VerifierAutoFlagged" -> HandleVerifierAutoFlagged(s, e)
    [] e.name = "VerifierAutoBanned" -> HandleVerifierAutoBanned(s, e)
    [] e.name = "AgentSlashCooldownApplied" -> HandleAgentSlashCooldownApplied(s, e)
    [] e.name = "ContinuousContractCreated" -> HandleContinuousContractCreated(s, e)
    [] e.name = "ContinuousBidCommitted" -> HandleContinuousBidCommitted(s, e)
    [] e.name = "ContinuousBidRevealed" -> HandleContinuousBidRevealed(s, e)
    [] e.name = "ContinuousAgentAssigned" -> HandleContinuousAgentAssigned(s, e)
    [] e.name = "CheckpointSubmitted" -> HandleCheckpointSubmitted(s, e)
    [] e.name = "CheckpointVerifierAssigned" -> HandleCheckpointVerifierAssigned(s, e)
    [] e.name = "CheckpointEvaluated" -> HandleCheckpointEvaluated(s, e)
    [] e.name = "CheckpointMissed" -> HandleCheckpointMissed(s, e)
    [] e.name = "ContinuousContractTerminated" -> HandleContinuousContractTerminated(s, e)
    [] e.name = "ContinuousContractCompleted" -> HandleContinuousContractCompleted(s, e)
    [] e.name = "DisputeRaised" -> HandleDisputeRaised(s, e)
    [] e.name = "ArbitratorsSelected" -> HandleArbitratorsSelected(s, e)
    [] e.name = "ArbitratorStaked" -> HandleArbitratorStaked(s, e)
    [] e.name = "ArbitratorVoteSubmitted" -> HandleArbitratorVoteSubmitted(s, e)
    [] e.name = "ArbitratorSlashed" -> HandleArbitratorSlashed(s, e)
    [] e.name = "ArbitratorTimedOut" -> HandleArbitratorTimedOut(s, e)
    [] e.name = "DisputeResolved" -> HandleDisputeResolved(s, e)
    [] e.name = "DisputeExpired" -> HandleDisputeExpired(s, e)
    [] e.name = "DisputeFeeDistributed" -> HandleDisputeFeeDistributed(s, e)
    [] e.name = "InsuranceOffered" -> HandleInsuranceOffered(s, e)
    [] e.name = "InsurancePurchased" -> HandleInsurancePurchased(s, e)
    [] e.name = "InsuranceClaimed" -> HandleInsuranceClaimed(s, e)
    [] e.name = "InsuranceSettled" -> HandleInsuranceSettled(s, e)
    [] e.name = "InsuranceOfferCancelled" -> HandleInsuranceOfferCancelled(s, e)
    [] e.name = "SyndicateCreated" -> HandleSyndicateCreated(s, e)
    [] e.name = "SyndicateJoined" -> HandleSyndicateJoined(s, e)
    [] e.name = "SyndicateLeft" -> HandleSyndicateLeft(s, e)
    [] e.name = "SyndicateDissolved" -> HandleSyndicateDissolved(s, e)
    [] e.name = "SyndicateBidCommitted" -> HandleSyndicateBidCommitted(s, e)
    [] e.name = "SyndicateBidRevealed" -> HandleSyndicateBidRevealed(s, e)
    [] e.name = "SyndicateRewardsDistributed" -> HandleSyndicateRewardsDistributed(s, e)
    [] e.name = "SyndicateLossesDistributed" -> HandleSyndicateLossesDistributed(s, e)
    [] e.name = "DelegationPoolOpened" -> HandleDelegationPoolOpened(s, e)
    [] e.name = "StakeDelegated" -> HandleStakeDelegated(s, e)
    [] e.name = "DelegationWithdrawn" -> HandleDelegationWithdrawn(s, e)
    [] e.name = "DelegatorRevenueShareUpdated" -> HandleDelegatorRevenueShareUpdated(s, e)
    [] e.name = "DelegatedBidRevealed" -> HandleDelegatedBidRevealed(s, e)
    [] e.name = "DelegatorRewardsClaimed" -> HandleDelegatorRewardsClaimed(s, e)
    [] e.name = "DelegatorLossesClaimed" -> HandleDelegatorLossesClaimed(s, e)
    [] e.name = "ReputationNFTMinted" -> HandleReputationNFTMinted(s, e)
    [] e.name = "ReputationNFTBurned" -> HandleReputationNFTBurned(s, e)
    [] e.name = "ChainPreferenceSet" -> HandleChainPreferenceSet(s, e)
    [] OTHER -> s
=============================================================================
