--------------------------- MODULE ArenaArbitration ---------------------------
(***************************************************************************)
(* Task disputes (ArenaArbitration): a party disputes, the VRF draws a     *)
(* council, the council stakes and votes, and the verdict overwrites the   *)
(* task's status in ArenaCoreMain.  The core takes the steps of            *)
(* TaskLifecycle in between; setTaskStatusFromArbitration checks nothing   *)
(* but its caller, so a dispute moves the phase where the core never would. *)
(*                                                                         *)
(* A task has one dispute, so disputes are named by their task. Any        *)
(* council of eligible pool members may be drawn: the randomness, the      *)
(* reputation threshold and the bans are abstracted to that choice. What a *)
(* verdict does to the core is in ArenaDisputes, disputes of continuous    *)
(* contracts are in ArenaContinuous.                                       *)
(***************************************************************************)
EXTENDS TaskLifecycle, FiniteSets, Functions

CONSTANTS
  Poster,              \* posts every task of the instance
  Pool,                \* the verifier pool; may hold agents and the poster
  CouncilSize,         \* 5
  Bounty,
  ArbitrationTimeout,  \* 48 hours
  Pausable,            \* does the owner ever pause in this instance?
  Horizon              \* bound: no dispute and no council after this time

ASSUME ArbitrationAssumption ==
  /\ IsFiniteSet(Tasks) /\ IsFiniteSet(Pool)
  /\ CouncilSize \in Nat \ {0} /\ Bounty \in Nat \ {0} /\ ArbitrationTimeout \in Nat

VARIABLES
  arbitrations,
  arbitrators,         \* arbitrators[t][v]; vote "None": v was not drawn
  protocolTreasury,
  balance,
  paused

arbitrationVars == <<arbitrations, arbitrators, protocolTreasury, balance, paused>>
allVars == <<lifecycleVars, arbitrationVars>>

BPS == 10000
StakeMultiplier == 2
LoserSlashBps == 2500
TimeoutSlashBps == 1500
DisputeFeeBps == 500

DisputeFee == Share(Bounty, DisputeFeeBps)
CouncilStake == Bounty * StakeMultiplier
NoDispute == [status |-> "None", disputant |-> NoAgent, fee |-> 0, stakingDeadline |-> 0,
              votingDeadline |-> 0, stakedArbitrators |-> 0, votesSubmitted |-> 0,
              votesForAgent |-> 0, votesForPoster |-> 0]
NotDrawn == [stake |-> 0, vote |-> "None", staked |-> FALSE]

Council(t) == {v \in Pool : arbitrators[t][v].vote # "None"}
Voters(members, side) == {v \in Pool : members[v].vote = side}
Votes(members, side) == Cardinality(Voters(members, side))

-----------------------------------------------------------------------------
\* By a party, while the slash window is open; an undelivered task has none.
RaiseDispute(t, party) ==
  /\ ~paused /\ now <= Horizon
  /\ life[t].phase \in {"Completed", "Failed", "Verifying", "Disputed"}
  /\ party \in {Poster, life[t].agent}
  /\ life[t].deliveredAt > 0 => ~WindowOver(t)
  /\ arbitrations[t].status = "None"
  /\ Cardinality(Pool) >= CouncilSize
  /\ arbitrations' = [arbitrations EXCEPT ![t] =
       [NoDispute EXCEPT !.status = "Selecting", !.disputant = party, !.fee = DisputeFee]]
  /\ balance' = balance + DisputeFee
  /\ Becomes(t, [life[t] EXCEPT !.phase = "Disputed"])
  /\ UNCHANGED <<arbitrators, protocolTreasury, paused>>

Selecting(t) == arbitrations[t].status = "Selecting"

\* The coordinator's callback, any time after the request, at most effective once.
FulfillRandomWords(t, council) ==
  /\ Selecting(t) /\ now <= Horizon
  /\ Cardinality(council) = CouncilSize
  /\ council \cap {Poster, life[t].agent} = {}
  /\ arbitrators' = [arbitrators EXCEPT ![t] =
       [v \in Pool |-> IF v \in council THEN [NotDrawn EXCEPT !.vote = "Pending"] ELSE NotDrawn]]
  /\ arbitrations' = [arbitrations EXCEPT ![t].status = "Staking",
                                          ![t].stakingDeadline = now + ArbitrationTimeout]
  /\ UNCHANGED <<protocolTreasury, balance, paused, lifecycleVars>>

StakeAsArbitrator(t, v) ==
  LET staked == arbitrations[t].stakedArbitrators + 1
  IN /\ ~paused
     /\ arbitrations[t].status = "Staking" /\ now <= arbitrations[t].stakingDeadline
     /\ v \in Council(t) /\ ~arbitrators[t][v].staked
     /\ arbitrators' = [arbitrators EXCEPT ![t][v].stake = CouncilStake, ![t][v].staked = TRUE]
     /\ arbitrations' = [arbitrations EXCEPT ![t] =
          IF staked = Cardinality(Council(t))
          THEN [@ EXCEPT !.stakedArbitrators = staked, !.status = "Voting",
                         !.votingDeadline = now + ArbitrationTimeout]
          ELSE [@ EXCEPT !.stakedArbitrators = staked]]
     /\ balance' = balance + CouncilStake
     /\ UNCHANGED <<protocolTreasury, paused, lifecycleVars>>

-----------------------------------------------------------------------------
\* The settlement of t with the dispute record arb and the members info, after
\* silent members have been dealt with (their stake is 0): extraTreasury and
\* extraPaid are what the caller took and paid for them.
BugFavoursAgent(arb) == arb.votesForAgent >= arb.votesForPoster
FavoursAgent(arb) == arb.votesForAgent > arb.votesForPoster

BugPaidBack(stake) == stake
PaidBack(stake) == stake - Share(stake, LoserSlashBps)

Settle(t, arb, info, extraTreasury, extraPaid) ==
  LET winning == IF FavoursAgent(arb) THEN "InFavorOfAgent" ELSE "InFavorOfPoster"
      atStake == {v \in Pool : info[v].staked /\ info[v].stake # 0}
      winners == {v \in atStake : info[v].vote = winning}
      losers == {v \in atStake : info[v].vote \notin {winning, "Pending"}}
      slashed == Cardinality(losers) * Share(CouncilStake, LoserSlashBps)
      feeToProtocol == arb.fee \div 2
      bonus == (arb.fee - feeToProtocol + slashed - slashed \div 2) \div Cardinality(winners)
  IN /\ arbitrations' = [arbitrations EXCEPT ![t] = [arb EXCEPT !.status = "Resolved"]]
     /\ arbitrators' = [arbitrators EXCEPT ![t] =
          [v \in Pool |-> IF v \in winners \cup losers THEN [info[v] EXCEPT !.stake = 0] ELSE info[v]]]
     /\ protocolTreasury' = protocolTreasury + extraTreasury + feeToProtocol + slashed \div 2
     /\ balance' = balance - extraPaid - Cardinality(losers) * PaidBack(CouncilStake)
                           - Cardinality(winners) * (CouncilStake + bonus)
     /\ Becomes(t, [life[t] EXCEPT !.phase = IF FavoursAgent(arb) THEN "Completed" ELSE "Failed"])
     /\ UNCHANGED paused

Tally(arb, side) ==
  [arb EXCEPT !.votesSubmitted = @ + 1,
              !.votesForAgent = IF side = "InFavorOfAgent" THEN @ + 1 ELSE @,
              !.votesForPoster = IF side = "InFavorOfPoster" THEN @ + 1 ELSE @]

SubmitArbitrationVote(t, v, side) ==
  LET arb == Tally(arbitrations[t], side)
      info == [arbitrators[t] EXCEPT ![v].vote = side]
  IN /\ ~paused
     /\ arb.status = "Voting" /\ now <= arb.votingDeadline
     /\ v \in Council(t) /\ arbitrators[t][v].staked /\ arbitrators[t][v].vote = "Pending"
     /\ IF arb.votesSubmitted = arb.stakedArbitrators
        THEN Settle(t, arb, info, 0, 0)
        ELSE /\ arbitrations' = [arbitrations EXCEPT ![t] = arb]
             /\ arbitrators' = [arbitrators EXCEPT ![t] = info]
             /\ UNCHANGED <<protocolTreasury, balance, paused, lifecycleVars>>

-----------------------------------------------------------------------------
\* The timeouts are open to everybody, also while the contract is paused.
BugStakingOver(t) ==
  now > arbitrations[t].stakingDeadline /\ arbitrations[t].stakedArbitrators = 0
StakingOver(t) == now > arbitrations[t].stakingDeadline

Unstaked(t) == [v \in Pool |-> [arbitrators[t][v] EXCEPT !.stake = 0]]

EnforceArbitrationStakingTimeout(t) ==
  /\ arbitrations[t].status = "Staking"
  /\ StakingOver(t)
  /\ arbitrators' = [arbitrators EXCEPT ![t] = Unstaked(t)]
  /\ arbitrations' = [arbitrations EXCEPT ![t].status = "Expired"]
  /\ balance' = balance - arbitrations[t].fee
                        - Cardinality({v \in Council(t) : arbitrators[t][v].staked}) * CouncilStake
  /\ UNCHANGED <<protocolTreasury, paused, lifecycleVars>>

\* Silent members lose a part of their stake to the treasury; the votes there
\* are decide, and without any the disputant gets the fee back.
Silenced(t, v) == [arbitrators[t][v] EXCEPT !.stake = 0]

EnforceArbitrationVotingTimeout(t) ==
  LET arb == arbitrations[t]
      silent == Voters(arbitrators[t], "Pending")
      info == [v \in Pool |-> IF v \in silent THEN Silenced(t, v) ELSE arbitrators[t][v]]
      slashed == Cardinality(silent) * Share(CouncilStake, TimeoutSlashBps)
      returned == Cardinality(silent) * CouncilStake - slashed
  IN /\ arb.status = "Voting" /\ now > arb.votingDeadline
     /\ IF arb.votesSubmitted > 0
        THEN Settle(t, arb, info, slashed, returned)
        ELSE /\ arbitrations' = [arbitrations EXCEPT ![t].status = "Expired"]
             /\ arbitrators' = [arbitrators EXCEPT ![t] = info]
             /\ protocolTreasury' = protocolTreasury + slashed
             /\ balance' = balance - returned - arb.fee
             /\ UNCHANGED <<paused, lifecycleVars>>

\* The owner; any amount up to the treasury, here all of it.
WithdrawTreasury ==
  /\ protocolTreasury > 0
  /\ balance' = balance - protocolTreasury
  /\ protocolTreasury' = 0
  /\ UNCHANGED <<arbitrations, arbitrators, paused, lifecycleVars>>

Pause ==
  /\ Pausable
  /\ paused' = ~paused
  /\ UNCHANGED <<arbitrations, arbitrators, protocolTreasury, balance, lifecycleVars>>

-----------------------------------------------------------------------------
Init ==
  /\ LifecycleInit
  /\ arbitrations = [t \in Tasks |-> NoDispute]
  /\ arbitrators = [t \in Tasks |-> [v \in Pool |-> NotDrawn]]
  /\ protocolTreasury = 0
  /\ balance = 0
  /\ paused = FALSE

DisputeStep(t) ==
  \/ \E party \in Agents \cup {Poster} : RaiseDispute(t, party)
  \/ \E council \in SUBSET Pool : FulfillRandomWords(t, council)
  \/ \E v \in Pool : StakeAsArbitrator(t, v)
  \/ \E v \in Pool, side \in {"InFavorOfAgent", "InFavorOfPoster"} : SubmitArbitrationVote(t, v, side)
  \/ EnforceArbitrationStakingTimeout(t)
  \/ EnforceArbitrationVotingTimeout(t)

Next ==
  \/ LifecycleNext /\ UNCHANGED arbitrationVars
  \/ \E t \in Tasks : DisputeStep(t)
  \/ WithdrawTreasury
  \/ Pause

Spec == Init /\ [][Next]_allVars

Blocks == Advance /\ UNCHANGED arbitrationVars

\* Time passes, and whoever gains by it sends the permissionless timeouts.
Fairness ==
  /\ WF_allVars(Blocks)
  /\ \A t \in Tasks : WF_allVars(EnforceArbitrationStakingTimeout(t))
                   /\ WF_allVars(EnforceArbitrationVotingTimeout(t))

-----------------------------------------------------------------------------
DisputeStatus == {"None", "Selecting", "Staking", "Voting", "Resolved", "Expired"}
Sides == {"InFavorOfAgent", "InFavorOfPoster"}

\* balance \in Nat: no payout finds the contract short.
TypeOK ==
  /\ LifecycleTypeOK
  /\ arbitrations \in [Tasks -> [status : DisputeStatus, disputant : Agents \cup {NoAgent, Poster},
       fee : Nat, stakingDeadline : Nat, votingDeadline : Nat, stakedArbitrators : Nat,
       votesSubmitted : Nat, votesForAgent : Nat, votesForPoster : Nat]]
  /\ arbitrators \in [Tasks -> [Pool -> [stake : Nat, vote : Sides \cup {"None", "Pending"},
                                         staked : BOOLEAN]]]
  /\ protocolTreasury \in Nat /\ balance \in Nat /\ paused \in BOOLEAN

InProgress == {"Selecting", "Staking", "Voting"}
Disputing == {t \in Tasks : arbitrations[t].status \in InProgress}
Resolved == {t \in Tasks : arbitrations[t].status = "Resolved"}
Owed(t) ==
  (IF t \in Disputing THEN arbitrations[t].fee ELSE 0)
  + (IF arbitrations[t].status \in {"Staking", "Voting"}
     THEN Cardinality({v \in Council(t) : arbitrators[t][v].staked}) * CouncilStake ELSE 0)

\* What the contract holds is the fees of the disputes in progress, the stakes
\* of the councils that are staking or voting, and the treasury: a dispute that is
\* over owes nothing.  Only the rounding of the winners' bonus stays, less than one
\* unit per winner (hazard: two pay-out paths that share a settlement, one of them
\* after silent members were already paid).
HoldsOwed ==
  LET dust == balance - protocolTreasury - SumFunction([t \in Tasks |-> Owed(t)])
  IN 0 <= dust /\ dust <= Cardinality(Resolved) * (CouncilSize - 1)

\* The verdict is for the agent exactly when more members voted for it than for
\* the poster: silence and a tie leave it to the poster.
VerdictFollowsVotes ==
  [][\A t \in Tasks : t \notin Resolved /\ t \in Resolved' =>
       (life'[t].phase = "Completed" <=>
          Votes(arbitrators'[t], "InFavorOfAgent") > Votes(arbitrators'[t], "InFavorOfPoster"))
     ]_allVars

\* Once a council is drawn the dispute ends: by its votes or by a timeout.
CouncilEnds ==
  \A t \in Tasks : arbitrations[t].status \in {"Staking", "Voting"}
                     ~> arbitrations[t].status \in {"Resolved", "Expired"}
=============================================================================
