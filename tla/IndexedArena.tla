---------------------------- MODULE IndexedArena ----------------------------
(***************************************************************************)
(* The contracts and the index built of their events.  A transaction       *)
(* changes a contract and emits events; the handlers of module Subgraph    *)
(* fold them into the store in the order they were emitted.  A behaviour   *)
(* follows one part of the system: one task, one dispute, one continuous   *)
(* contract, one task's insurance, one syndicate, one pool, or the events  *)
(* the ABI declares and no contract emits.                                 *)
(*                                                                         *)
(* The manifest names one contract with one ABI.  The events of all        *)
(* contracts are taken as that contract's; four of them carry other        *)
(* parameters today than the manifest says and then reach no handler.      *)
(***************************************************************************)
EXTENDS Subgraph, Sequences, SequencesExt

CONSTANTS
  Poster, Agents, Verifiers, Amounts,
  Checkpoints,           \* of the continuous contract
  MaxFailures, BanThreshold,
  MaxDelegations,        \* bound: calls that delegate
  MaxDay                 \* bound: days

VARIABLES
  part,                  \* the part of the system the behaviour follows
  signatures,            \* "manifest" or "present"
  day,
  chain,                 \* the contracts' state of that part
  silent,                \* ids whose status changed in a call that emits no indexed event
  store                  \* the entities

vars == <<part, signatures, day, chain, silent, store>>

-----------------------------------------------------------------------------
\* Events whose parameters in the contracts differ from the manifest's.
Mismatched ==
  {"BidCommitted", "ContinuousContractCreated", "DelegatorRewardsClaimed", "DelegatorLossesClaimed"}

Event(name, fields) == [name |-> name, day |-> day] @@ fields

Index(s, e) == IF signatures = "present" /\ e.name \in Mismatched THEN s ELSE Handle(s, e)

\* a transaction: the contract's next state and the events in order
Mine(next, events) ==
  /\ chain' = next
  /\ store' = FoldLeft(Index, store, events)
  /\ UNCHANGED <<part, signatures, day>>

\* the same with no event that says so: what is shown for id may be old from now on
MineSilently(next, id, events) ==
  /\ Mine(next, events)
  /\ silent' = silent \cup {id}

Announce(next, events) == Mine(next, events) /\ UNCHANGED silent

EventsFor(set, E(_)) == [i \in 1..Cardinality(set) |-> E(SetToSeq(set)[i])]

-----------------------------------------------------------------------------
(* One task, with the slash bond of its completion.                        *)

TaskChain ==
  [status |-> "None", required |-> 0, agent |-> Null, bids |-> [a \in Agents |-> "None"],
   votes |-> << >>, bond |-> FALSE]

CreateTask ==
  /\ chain.status = "None"
  /\ \E n \in 1..Cardinality(Verifiers), bounty \in Amounts :
       Announce([chain EXCEPT !.status = "Open", !.required = n],
                <<Event("TaskCreated", [task |-> 0, poster |-> Poster, bounty |-> bounty])>>)

CommitBid(a) ==
  /\ chain.status = "Open" /\ chain.bids[a] = "None"
  /\ Announce([chain EXCEPT !.bids[a] = "Committed"],
              <<Event("BidCommitted", [task |-> 0, agent |-> a])>>)

\* whatever the status is: a task that was cancelled keeps accepting reveals
RevealBid(a) ==
  /\ chain.bids[a] = "Committed"
  /\ \E stake \in Amounts :
       Announce([chain EXCEPT !.bids[a] = "Revealed",
                              !.status = IF @ = "Open" THEN "BidReveal" ELSE @],
                <<Event("BidRevealed", [task |-> 0, agent |-> a, stake |-> stake, price |-> 1])>>)

ResolveAuction(a) ==
  /\ chain.status = "BidReveal" /\ chain.bids[a] = "Revealed"
  /\ Announce([chain EXCEPT !.status = "Assigned", !.agent = a],
              <<Event("AgentAssigned", [task |-> 0, agent |-> a, stake |-> 1, price |-> 1])>>)

DeliverTask ==
  /\ chain.status = "Assigned"
  /\ Announce([chain EXCEPT !.status = "Delivered"], <<Event("TaskDelivered", [task |-> 0])>>)

RegisterVerifier(v) ==
  /\ chain.status \in {"Delivered", "Verifying"}
  /\ v \notin DOMAIN chain.votes /\ Cardinality(DOMAIN chain.votes) < chain.required
  /\ Announce([chain EXCEPT !.status = "Verifying", !.votes = (v :> "Pending") @@ @],
              <<Event("VerifierAssigned", [task |-> 0, verifier |-> v, stake |-> 1])>>)

CooldownEvents(severity) ==
  IF severity \in {"Late", "Minor"} THEN << >>
  ELSE <<Event("AgentSlashCooldownApplied", [agent |-> chain.agent])>>

SlashEvents(severity) ==
  CooldownEvents(severity) \o
  <<Event("AgentSlashed", [task |-> 0, agent |-> chain.agent, amount |-> 1, severity |-> severity])>>

Voters(votes, vote) == {v \in DOMAIN votes : votes[v] = vote}
VerifiersSlashed(set) ==
  EventsFor(set, LAMBDA v : Event("VerifierSlashed", [task |-> 0, verifier |-> v, amount |-> 1]))

\* the task once every verifier of the panel has voted, and the events of it
Settled(votes) ==
  LET approvals == Voters(votes, "Approved")
      rejections == Voters(votes, "Rejected")
      yes == Cardinality(approvals)
      no == Cardinality(rejections)
  IN  CASE yes > no ->
             [next |-> [chain EXCEPT !.votes = votes, !.status = "Completed", !.bond = TRUE],
              events |-> VerifiersSlashed(rejections) \o
                <<Event("TaskCompleted", [task |-> 0, agent |-> chain.agent, payout |-> 1]),
                  Event("ProtocolFeeCollected", [task |-> 0, amount |-> 1])>>]
        [] no > yes ->
             [next |-> [chain EXCEPT !.votes = votes, !.status = "Failed"],
              events |-> VerifiersSlashed(approvals) \o SlashEvents("Material")]
        [] OTHER ->
             [next |-> [chain EXCEPT !.votes = votes, !.status = "Disputed"],
              events |-> <<Event("TaskDisputed", [task |-> 0])>>]

SubmitVerification(v, vote) ==
  /\ chain.status = "Verifying" /\ v \in Voters(chain.votes, "Pending")
  /\ LET votes == [chain.votes EXCEPT ![v] = vote]
         submitted == <<Event("VerificationSubmitted", [task |-> 0, verifier |-> v, vote |-> vote])>>
     IN  IF Voters(votes, "Pending") # {}
         THEN Announce([chain EXCEPT !.votes = votes], submitted)
         ELSE /\ Cardinality(DOMAIN votes) = chain.required
              /\ Announce(Settled(votes).next, submitted \o Settled(votes).events)

\* silence is a rejection; when all were silent the task is disputed
EnforceVerifierTimeout ==
  LET silence == Voters(chain.votes, "Pending")
      votes == [v \in DOMAIN chain.votes |-> IF v \in silence THEN "Rejected" ELSE chain.votes[v]]
      slashes == FlattenSeq(EventsFor(silence, LAMBDA v :
                   <<Event("VerifierTimedOut", [task |-> 0, verifier |-> v, amount |-> 1]),
                     Event("VerifierSlashed", [task |-> 0, verifier |-> v, amount |-> 1])>>))
  IN  /\ chain.status = "Verifying" /\ silence # {}
      /\ IF silence = DOMAIN votes
         THEN Announce([chain EXCEPT !.votes = votes, !.status = "Disputed"],
                       Append(slashes, Event("TaskDisputed", [task |-> 0])))
         ELSE /\ Cardinality(DOMAIN votes) = chain.required
              /\ Announce(Settled(votes).next, slashes \o Settled(votes).events)

EnforceDeadline(severity) ==
  /\ chain.status = "Assigned"
  /\ Announce([chain EXCEPT !.status = "Failed"], SlashEvents(severity))

CancelTask ==
  /\ chain.status = "Open"
  /\ Announce([chain EXCEPT !.status = "Cancelled"], <<Event("TaskCancelled", [task |-> 0])>>)

\* VerificationAbandoned, DeliveredTimeoutEnforced and EmergencyWithdrawn have no handler
EndUnannounced ==
  /\ chain.status \in {"Open", "BidReveal", "Assigned", "Delivered", "Verifying"}
  /\ MineSilently([chain EXCEPT !.status = "Cancelled"], <<"task", 0>>, << >>)

PostCompletionSlash(severity) ==
  /\ chain.status = "Completed" /\ chain.bond
  /\ Announce([chain EXCEPT !.status = "Failed", !.bond = FALSE],
              SlashEvents(severity) \o
              <<Event("SlashBondForfeited", [task |-> 0, agent |-> chain.agent, amount |-> 1,
                                             severity |-> severity])>>)

ClaimSlashBond ==
  /\ chain.status = "Completed" /\ chain.bond
  /\ Announce([chain EXCEPT !.bond = FALSE], <<Event("SlashBondClaimed", [task |-> 0])>>)

NextOfTask ==
  /\ part = "task"
  /\ \/ CreateTask \/ DeliverTask \/ EnforceVerifierTimeout \/ CancelTask
     \/ EndUnannounced \/ ClaimSlashBond
     \/ \E a \in Agents : CommitBid(a) \/ RevealBid(a) \/ ResolveAuction(a)
     \/ \E v \in Verifiers : \/ RegisterVerifier(v)
                             \/ \E vote \in {"Approved", "Rejected"} : SubmitVerification(v, vote)
     \/ \E severity \in {"Late", "Material"} : EnforceDeadline(severity)
     \/ \E severity \in {"Minor", "Critical"} : PostCompletionSlash(severity)

-----------------------------------------------------------------------------
(* The dispute of a completed task.                                        *)

DisputeChain == [status |-> "None", stakes |-> << >>, votes |-> << >>]

RaiseDispute ==
  /\ chain.status = "None"
  /\ Announce([chain EXCEPT !.status = "Selecting"],
              <<Event("DisputeRaised", [dispute |-> 1, task |-> 0, type |-> "Task"])>>)

FulfillRandomWords ==
  /\ chain.status = "Selecting"
  /\ Announce([status |-> "Staking", stakes |-> [v \in Verifiers |-> FALSE],
               votes |-> [v \in Verifiers |-> "Pending"]],
              <<Event("ArbitratorsSelected", [dispute |-> 1, arbitrators |-> Verifiers])>>)

StakeAsArbitrator(v) ==
  /\ chain.status = "Staking" /\ ~chain.stakes[v]
  /\ LET stakes == [chain.stakes EXCEPT ![v] = TRUE]
     IN  Announce([chain EXCEPT !.stakes = stakes,
                                !.status = IF \A w \in Verifiers : stakes[w] THEN "Voting" ELSE @],
                  <<Event("ArbitratorStaked", [dispute |-> 1, arbitrator |-> v, stake |-> 1])>>)

Verdict(votes) ==
  LET forAgent == Cardinality(Voters(votes, "InFavorOfAgent")) > Cardinality(Voters(votes, "InFavorOfPoster"))
      losers == Voters(votes, IF forAgent THEN "InFavorOfPoster" ELSE "InFavorOfAgent")
  IN  EventsFor(losers, LAMBDA v :
        Event("ArbitratorSlashed", [dispute |-> 1, arbitrator |-> v, amount |-> 1]))
      \o <<Event("DisputeFeeDistributed", [dispute |-> 1, amount |-> 1]),
           Event("DisputeResolved", [dispute |-> 1, inFavorOfAgent |-> forAgent])>>

SubmitArbitrationVote(v, vote) ==
  /\ chain.status = "Voting" /\ chain.votes[v] = "Pending"
  /\ LET votes == [chain.votes EXCEPT ![v] = vote]
         submitted == <<Event("ArbitratorVoteSubmitted", [dispute |-> 1, arbitrator |-> v, vote |-> vote])>>
     IN  IF Voters(votes, "Pending") # {}
         THEN Announce([chain EXCEPT !.votes = votes], submitted)
         ELSE Announce([chain EXCEPT !.votes = votes, !.status = "Resolved"], submitted \o Verdict(votes))

EnforceArbitrationStakingTimeout ==
  /\ chain.status = "Staking"
  /\ Announce([chain EXCEPT !.status = "Expired"], <<Event("DisputeExpired", [dispute |-> 1])>>)

EnforceArbitrationVotingTimeout ==
  LET silence == Voters(chain.votes, "Pending")
      slashes == EventsFor(silence, LAMBDA v :
                   Event("ArbitratorTimedOut", [dispute |-> 1, arbitrator |-> v, amount |-> 1]))
  IN  /\ chain.status = "Voting"
      /\ IF silence = Verifiers
         THEN Announce([chain EXCEPT !.status = "Expired"],
                       Append(slashes, Event("DisputeExpired", [dispute |-> 1])))
         ELSE Announce([chain EXCEPT !.status = "Resolved"], slashes \o Verdict(chain.votes))

NextOfDispute ==
  /\ part = "dispute"
  /\ \/ RaiseDispute \/ FulfillRandomWords
     \/ EnforceArbitrationStakingTimeout \/ EnforceArbitrationVotingTimeout
     \/ \E v \in Verifiers : \/ StakeAsArbitrator(v)
                             \/ \E vote \in {"InFavorOfAgent", "InFavorOfPoster"} :
                                  SubmitArbitrationVote(v, vote)

-----------------------------------------------------------------------------
(* A continuous contract and the anomalies of its verifiers.               *)

ContinuousChain ==
  [status |-> "None", agent |-> Null, bids |-> [a \in Agents |-> "None"], completed |-> 0,
   failed |-> 0, checkpoints |-> [i \in 0..(Checkpoints - 1) |-> "Pending"],
   voter |-> Null, pool |-> [v \in Verifiers |-> "None"], anomalies |-> [v \in Verifiers |-> 0]]

CreateContinuousContract ==
  /\ chain.status = "None"
  /\ Announce([chain EXCEPT !.status = "Open"],
              <<Event("ContinuousContractCreated", [contract |-> 1, poster |-> Poster, bounty |-> 2])>>)

CancelContinuousContract ==
  /\ chain.status \in {"Open", "BidReveal"}
  /\ Announce([chain EXCEPT !.status = "Terminated"],
              <<Event("ContinuousContractTerminated", [contract |-> 1])>>)

CommitContinuousBid(a) ==
  /\ chain.status = "Open" /\ chain.bids[a] = "None"
  /\ Announce([chain EXCEPT !.bids[a] = "Committed"],
              <<Event("ContinuousBidCommitted", [contract |-> 1, agent |-> a])>>)

\* also after a cancellation, until the window closes, which is when the auction is resolved
RevealContinuousBid(a) ==
  /\ chain.bids[a] = "Committed" /\ chain.agent = Null
  /\ Announce([chain EXCEPT !.bids[a] = "Revealed",
                            !.status = IF @ = "Open" THEN "BidReveal" ELSE @],
              <<Event("ContinuousBidRevealed", [contract |-> 1, agent |-> a, stake |-> 1, price |-> 1])>>)

ResolveContinuousAuction(a) ==
  /\ chain.status \in {"Open", "BidReveal"} /\ chain.bids[a] = "Revealed"
  /\ Announce([chain EXCEPT !.status = "Active", !.agent = a],
              <<Event("ContinuousAgentAssigned", [contract |-> 1, agent |-> a])>>)

Current == chain.completed
ContinuousEvent(name, fields) == Event(name, [contract |-> 1, index |-> Current] @@ fields)

SubmitCheckpoint ==
  /\ chain.status = "Active" /\ chain.checkpoints[Current] = "Pending"
  /\ Announce([chain EXCEPT !.checkpoints[Current] = "Submitted"],
              <<ContinuousEvent("CheckpointSubmitted", << >>)>>)

\* one verifier per checkpoint
RegisterCheckpointVerifier(v) ==
  /\ chain.status = "Active" /\ chain.checkpoints[Current] = "Submitted"
  /\ Announce([chain EXCEPT !.checkpoints[Current] = "Verifying", !.voter = v],
              <<ContinuousEvent("CheckpointVerifierAssigned", [verifier |-> v, stake |-> 1])>>)

Ended(next) == next.completed = Checkpoints
Terminates(next) == next.failed >= MaxFailures

TerminationEvents(next) ==
  (IF next.failed >= 2 THEN <<Event("AgentSlashCooldownApplied", [agent |-> chain.agent])>> ELSE << >>)
  \o <<Event("ContinuousContractTerminated", [contract |-> 1])>>

\* A missed checkpoint may terminate the contract; it never settles it, also when
\* it was the last one.
MarkCheckpointMissed ==
  /\ chain.status = "Active" /\ Current < Checkpoints /\ chain.checkpoints[Current] = "Pending"
  /\ LET next == [chain EXCEPT !.checkpoints[Current] = "Missed", !.failed = @ + 1,
                               !.completed = @ + 1]
         missed == <<ContinuousEvent("CheckpointMissed", << >>)>>
     IN  IF Terminates(next)
         THEN Announce([next EXCEPT !.status = "Terminated"], missed \o TerminationEvents(next))
         ELSE Announce(next, missed)

\* what the anomaly checks of a vote find: nothing, one pattern or both
AnomalyEvents(v, n) ==
  IF n = 0 THEN << >>
  ELSE [i \in 1..n |-> Event("AnomalyDetected", [verifier |-> v])]
       \o <<Event("VerifierAutoFlagged", [verifier |-> v, anomalyCount |-> chain.anomalies[v] + 1])>>
       \o (IF chain.anomalies[v] + 1 >= BanThreshold
           THEN <<Event("VerifierAutoBanned", [verifier |-> v])>> ELSE << >>)

SubmitCheckpointVerification(passed, n) ==
  /\ chain.status = "Active" /\ Current < Checkpoints /\ chain.checkpoints[Current] = "Verifying"
  /\ LET v == chain.voter
         next == [chain EXCEPT !.checkpoints[Current] = IF passed THEN "Passed" ELSE "Failed",
                               !.failed = @ + (IF passed THEN 0 ELSE 1), !.completed = @ + 1,
                               !.anomalies[v] = @ + (IF n > 0 THEN 1 ELSE 0)]
         evaluated == Append(AnomalyEvents(v, n),
           ContinuousEvent("CheckpointEvaluated",
             [status |-> next.checkpoints[Current], payout |-> IF passed THEN 1 ELSE 0,
              amount |-> IF passed THEN 0 ELSE 1]))
     IN  CASE Ended(next) ->
                Announce([next EXCEPT !.status = "Completed"],
                         Append(evaluated, Event("ContinuousContractCompleted",
                           [contract |-> 1, payout |-> next.completed - next.failed,
                            amount |-> next.failed, stake |-> 1])))
           [] ~passed /\ ~Ended(next) /\ Terminates(next) ->
                Announce([next EXCEPT !.status = "Terminated"], evaluated \o TerminationEvents(next))
           [] OTHER -> Announce(next, evaluated)

\* the verdict of a dispute changes a checkpoint and the counters, and the event
\* that says so has no handler
ResolveCheckpointDispute(i) ==
  /\ chain.status \in {"Active", "Terminated"} /\ chain.checkpoints[i] \in {"Passed", "Failed"}
  /\ <<"checkpoint", 1, i>> \notin silent
  /\ LET won == chain.checkpoints[i] = "Failed"
         next == [chain EXCEPT !.checkpoints[i] = IF won THEN "Passed" ELSE "Failed",
                               !.failed = @ + (IF won THEN -1 ELSE 1)]
     IN  IF ~won /\ chain.status = "Active" /\ Terminates(next)
         THEN MineSilently([next EXCEPT !.status = "Terminated"], <<"checkpoint", 1, i>>,
                           TerminationEvents(next))
         ELSE MineSilently(next, <<"checkpoint", 1, i>>, << >>)

\* ArenaCoreVRF's pool, which the anomalies are shown on
RegisterInPool(v) ==
  /\ chain.pool[v] = "None"
  /\ Announce([chain EXCEPT !.pool[v] = "In"],
              <<Event("VerifierRegistered", [verifier |-> v, stake |-> 1])>>)

DeregisterFromPool(v) ==
  /\ chain.pool[v] = "In"
  /\ Announce([chain EXCEPT !.pool[v] = "Out"], <<Event("VerifierDeregistered", [verifier |-> v])>>)

NextOfContinuous ==
  /\ part = "continuous"
  /\ \/ CreateContinuousContract \/ CancelContinuousContract
     \/ (Current < Checkpoints /\ SubmitCheckpoint) \/ MarkCheckpointMissed
     \/ \E a \in Agents :
          CommitContinuousBid(a) \/ RevealContinuousBid(a) \/ ResolveContinuousAuction(a)
     \/ \E v \in Verifiers :
          \/ Current < Checkpoints /\ RegisterCheckpointVerifier(v)
          \/ RegisterInPool(v) \/ DeregisterFromPool(v)
     \/ \E passed \in BOOLEAN, n \in 0..2 : SubmitCheckpointVerification(passed, n)
     \/ \E i \in 0..(Checkpoints - 1) : ResolveCheckpointDispute(i)

-----------------------------------------------------------------------------
(* Two insurance offers for one task.                                      *)

OfferIds == {1, 2}
InsuranceChain == [o \in OfferIds |-> "None"]
OfferEvent(name, o, fields) == Event(name, [offer |-> o, task |-> 0, insurer |-> Poster] @@ fields)

OfferInsurance(o) ==
  /\ chain[o] = "None" /\ \A p \in OfferIds : p < o => chain[p] # "None"
  /\ \A p \in OfferIds : chain[p] \in {"None", "Open", "Cancelled"}
  /\ \E premium \in Amounts :
       Announce([chain EXCEPT ![o] = "Open"], <<OfferEvent("InsuranceOffered", o, [premium |-> premium])>>)

CancelInsuranceOffer(o) ==
  /\ chain[o] = "Open"
  /\ Announce([chain EXCEPT ![o] = "Cancelled"], <<OfferEvent("InsuranceOfferCancelled", o, << >>)>>)

\* the purchase cancels the other open offers and emits nothing about them
BuyInsurance(o) ==
  /\ chain[o] = "Open"
  /\ LET others == {p \in OfferIds \ {o} : chain[p] = "Open"}
     IN  /\ Mine([p \in OfferIds |-> IF p = o THEN "Active" ELSE IF p \in others THEN "Cancelled"
                                     ELSE chain[p]],
                 <<OfferEvent("InsurancePurchased", o, [premium |-> store.offers[o].premium])>>)
         /\ silent' = silent \cup {<<"offer", p>> : p \in others}

ClaimInsurance(o) ==
  /\ chain[o] = "Active"
  /\ \E payout \in Amounts :
       Announce([chain EXCEPT ![o] = "Claimed"], <<OfferEvent("InsuranceClaimed", o, [amount |-> payout])>>)

SettleInsurance(o) ==
  /\ chain[o] = "Active"
  /\ Announce([chain EXCEPT ![o] = "Settled"], <<OfferEvent("InsuranceSettled", o, << >>)>>)

NextOfInsurance ==
  /\ part = "insurance"
  /\ \E o \in OfferIds : \/ OfferInsurance(o) \/ CancelInsuranceOffer(o) \/ BuyInsurance(o)
                         \/ ClaimInsurance(o) \/ SettleInsurance(o)

-----------------------------------------------------------------------------
(* A syndicate.                                                            *)

Manager == CHOOSE a \in Agents : TRUE
SyndicateChain ==
  [status |-> "None", members |-> [a \in Agents |-> 0], was |-> {}, distributed |-> FALSE]
Members == {a \in Agents : chain.members[a] > 0}
SyndicateEvent(name, fields) == Event(name, [syndicate |-> 1] @@ fields)

CreateSyndicate ==
  /\ chain.status = "None"
  /\ \E amount \in Amounts :
       Announce([chain EXCEPT !.status = "Active", !.members[Manager] = amount],
                <<SyndicateEvent("SyndicateCreated", [agent |-> Manager])>>)

JoinSyndicate(a) ==
  /\ chain.status = "Active" /\ a \notin Members \cup chain.was
  /\ \E amount \in Amounts :
       Announce([chain EXCEPT !.members[a] = amount],
                <<SyndicateEvent("SyndicateJoined", [agent |-> a, amount |-> amount])>>)

\* the manager leaves last; the last to leave dissolves the syndicate
LeaveSyndicate(a) ==
  /\ a \in Members /\ (a = Manager => Members = {a})
  /\ chain.status = "Active"
  /\ LET last == Members = {a}
     IN  Announce([chain EXCEPT !.members[a] = 0, !.was = @ \cup {a},
                                !.status = IF last THEN "Dissolved" ELSE @],
                  (IF last THEN <<SyndicateEvent("SyndicateDissolved", << >>)>> ELSE << >>) \o
                  <<SyndicateEvent("SyndicateLeft", [agent |-> a, amount |-> chain.members[a]])>>)

DissolveSyndicate ==
  /\ chain.status = "Active"
  /\ Announce([chain EXCEPT !.status = "Dissolved", !.members = [a \in Agents |-> 0]],
              <<SyndicateEvent("SyndicateDissolved", << >>)>>)

\* the proceeds of its one task
Distribute(name) ==
  /\ Members # {} /\ ~chain.distributed
  /\ Announce([chain EXCEPT !.distributed = TRUE], <<SyndicateEvent(name, [task |-> 0, amount |-> 1])>>)

NextOfSyndicate ==
  /\ part = "syndicate"
  /\ \/ CreateSyndicate \/ DissolveSyndicate
     \/ Distribute("SyndicateRewardsDistributed") \/ Distribute("SyndicateLossesDistributed")
     \/ \E a \in Agents : JoinSyndicate(a) \/ LeaveSyndicate(a)

-----------------------------------------------------------------------------
(* A pool of delegated stake.  Losses lower a contribution without an      *)
(* event about the delegation.                                             *)

Pooler == Manager
Delegators == Verifiers
PoolChain == [open |-> FALSE, contributions |-> [d \in Delegators |-> 0], claimed |-> {},
              calls |-> 0]
PoolEvent(name, fields) == Event(name, [agent |-> Pooler, task |-> 0] @@ fields)

SetDelegatorRevenueShare ==
  /\ Announce([chain EXCEPT !.open = TRUE],
              <<PoolEvent(IF chain.open THEN "DelegatorRevenueShareUpdated" ELSE "DelegationPoolOpened",
                          << >>)>>)

DelegateStake(d, amount) ==
  /\ chain.open /\ chain.calls < MaxDelegations
  /\ Announce([chain EXCEPT !.contributions[d] = @ + amount, !.calls = @ + 1],
              <<PoolEvent("StakeDelegated", [delegator |-> d, amount |-> amount])>>)

WithdrawDelegation(d, amount) ==
  /\ chain.contributions[d] >= amount
  /\ Announce([chain EXCEPT !.contributions[d] = @ - amount],
              <<PoolEvent("DelegationWithdrawn", [delegator |-> d, amount |-> amount])>>)

ClaimDelegatorRewards(d) ==
  /\ chain.contributions[d] > 0 /\ d \notin chain.claimed
  /\ \/ Announce([chain EXCEPT !.claimed = @ \cup {d}],
                 <<PoolEvent("DelegatorRewardsClaimed", [delegator |-> d, amount |-> 1])>>)
     \/ Announce([chain EXCEPT !.claimed = @ \cup {d}, !.contributions[d] = @ - 1],
                 <<PoolEvent("DelegatorLossesClaimed", [delegator |-> d, amount |-> 1])>>)

NextOfPool ==
  /\ part = "pool"
  /\ \/ SetDelegatorRevenueShare
     \/ \E d \in Delegators, amount \in Amounts :
          DelegateStake(d, amount) \/ WithdrawDelegation(d, amount)
     \/ \E d \in Delegators : ClaimDelegatorRewards(d)

-----------------------------------------------------------------------------
(* Events of the ABI: the tokens of ArenaReputation, and those that no     *)
(* contract of the repository emits.  Each comes once, in any order.       *)

DeclaredChain ==
  {[name |-> "ReputationNFTMinted", agent |-> Manager, token |-> 1],
   [name |-> "ReputationNFTBurned", agent |-> Manager],
   [name |-> "HoneypotCreated", task |-> 0],
   [name |-> "HoneypotSettled", task |-> 0, agent |-> Manager, passed |-> FALSE],
   [name |-> "VRFVerifiersAssigned", task |-> 0],
   [name |-> "SyndicateCreated", syndicate |-> 1, agent |-> Manager],
   [name |-> "SyndicateBidCommitted", syndicate |-> 1, task |-> 0],
   [name |-> "SyndicateBidRevealed", syndicate |-> 1, task |-> 0, stake |-> 1, price |-> 1],
   [name |-> "DelegatedBidRevealed", task |-> 0, agent |-> Manager, amount |-> 1],
   [name |-> "ChainPreferenceSet", task |-> 0, chain |-> "Base"]}

EmitDeclared ==
  /\ part = "declared"
  /\ \E e \in chain : Announce(chain \ {e}, <<[day |-> day] @@ e>>)

-----------------------------------------------------------------------------
Parts == {"task", "dispute", "continuous", "insurance", "syndicate", "pool", "declared"}

ChainOf(p) ==
  CASE p = "task" -> TaskChain
    [] p = "dispute" -> DisputeChain
    [] p = "continuous" -> ContinuousChain
    [] p = "insurance" -> InsuranceChain
    [] p = "syndicate" -> SyndicateChain
    [] p = "pool" -> PoolChain
    [] p = "declared" -> DeclaredChain

\* what was indexed before: the task that is insured, disputed or delegated to
Before(p) ==
  IF p \in {"task", "continuous", "syndicate"} THEN << >>
  ELSE <<Event("TaskCreated", [task |-> 0, poster |-> Poster, bounty |-> 1]),
         Event("BidRevealed", [task |-> 0, agent |-> Manager, stake |-> 1, price |-> 1]),
         Event("AgentAssigned", [task |-> 0, agent |-> Manager, stake |-> 1, price |-> 1])>>

Init ==
  /\ part \in Parts
  /\ signatures \in {"manifest", "present"}
  /\ day = 0
  /\ chain = ChainOf(part)
  /\ silent = {}
  /\ store = FoldLeft(Index, EmptyStore, Before(part))

NextDay ==
  /\ day < MaxDay
  /\ day' = day + 1
  /\ UNCHANGED <<part, signatures, chain, silent, store>>

Next ==
  \/ NextOfTask \/ NextOfDispute \/ NextOfContinuous \/ NextOfInsurance
  \/ NextOfSyndicate \/ NextOfPool \/ EmitDeclared \/ NextDay

Spec == Init /\ [][Next]_vars

-----------------------------------------------------------------------------
(* Properties.                                                             *)

Total(f, ids) == FoldSet(LAMBDA id, sum : f[id] + sum, 0, ids)
Sum(kind, field) == Total([id \in DOMAIN store[kind] |-> store[kind][id][field]], DOMAIN store[kind])

\* The days' figures add up to the totals they are published beside; an agent that
\* is met several times in one handler must be counted by both alike.
DaysAddUp ==
  \A figure \in
     {<<"tasksCreated", "totalTasks">>, <<"tasksCompleted", "tasksCompleted">>,
      <<"tasksFailed", "tasksFailed">>, <<"newAgents", "totalAgents">>,
      <<"insurancePremiums", "totalInsurancePremiums">>,
      <<"insuranceClaims", "totalInsuranceClaims">>, <<"disputesRaised", "totalDisputes">>} :
    Sum("daily", figure[1]) = store.stats[figure[2]]

\* A delegation appears in three places: its own amount, the agent's total and the
\* protocol's.  The handlers load and save the agent up to three times per event.
DelegationsAddUp ==
  /\ \A a \in DOMAIN store.agents :
       store.agents[a].delegationTotalDelegated
         = Total([id \in DOMAIN store.delegations |-> store.delegations[id].amount],
                 {id \in DOMAIN store.delegations : id[1] = a})
  /\ store.stats.totalDelegated = Sum("delegations", "amount")

\* Every checkpoint counts once, as passed or failed, whether it was evaluated or
\* missed, submitted or not.
CheckpointsCounted ==
  \A c \in DOMAIN store.continuous :
    LET shown(statuses) == Cardinality({i \in DOMAIN store.checkpoints :
                                          i[1] = c /\ store.checkpoints[i].status \in statuses})
    IN  /\ store.continuous[c].passedCheckpoints = shown({"Passed"})
        /\ store.continuous[c].failedCheckpoints = shown({"Failed", "Missed"})
        /\ store.continuous[c].completedCheckpoints = shown({"Passed", "Failed", "Missed"})

\* The published totals of premiums and claims are those of the policies.
PremiumsAddUp ==
  /\ store.stats.totalInsurancePremiums = Sum("policies", "premiumPaid")
  /\ store.stats.totalInsuranceClaims =
       Total([id \in DOMAIN store.policies |-> store.policies[id].claimedAmount],
             {id \in DOMAIN store.policies : store.policies[id].claimedAmount # Null})

TotalsAgree == DaysAddUp /\ DelegationsAddUp /\ CheckpointsCounted /\ PremiumsAddUp

\* What the index shows is what the contract holds, after every transaction, except
\* for what a call without an indexed event changed (silent), for a dispute, which is
\* shown as voting from the first stake on, and for a continuous contract whose bids
\* are being revealed, which is shown as open until it is assigned or cancelled.
Shows(kind, id, status) == Has(store, kind, id) => store[kind][id].status = status
ShownAsOnChain ==
  CASE part = "task" -> <<"task", 0>> \notin silent => Shows("tasks", 0, chain.status)
    [] part = "dispute" ->
         \/ Shows("disputes", 1, chain.status)
         \/ chain.status = "Staking" /\ Shows("disputes", 1, "Voting")
    [] part = "continuous" ->
         /\ \/ Shows("continuous", 1, chain.status)
            \/ chain.status = "BidReveal" /\ Shows("continuous", 1, "Open")
         /\ \A i \in DOMAIN chain.checkpoints :
              <<"checkpoint", 1, i>> \notin silent =>
                Shows("checkpoints", <<1, i>>, chain.checkpoints[i])
    [] part = "insurance" ->
         \A o \in OfferIds : <<"offer", o>> \notin silent =>
           Shows("offers", o, chain[o]) /\ Shows("policies", o, chain[o])
    [] part = "syndicate" -> Shows("syndicates", 1, chain.status)
    [] OTHER -> TRUE
=============================================================================
