------------------------------ MODULE MCAuctions ------------------------------
(***************************************************************************)
(* Three small instances of the core contracts: two tasks that compete for *)
(* the same bidders, one task whose panel is drawn from a pool, and one    *)
(* task that is disputed.  A behaviour is one of them.                     *)
(***************************************************************************)
EXTENDS Naturals

CONSTANTS
  a1, a2, p1, v1, v2, c1, NoAgent,
  MinBounty, MaxPosterActiveTasks, MaxBidders, MaxActiveBids, VerifierTimeout, AbandonTimeout,
  SlashCooldown, VerifierCooldown, PauseThreshold, ScoreScale

VARIABLES
  part,
  now, pausedAt, taskCount, task, status, assignment, slashBonds, taskSlashAmount,
  taskBondSlashAmount, posterActiveTasks, agentActiveBids, agentActiveStake, agentReputation,
  agentTasksCompleted, agentTasksFailed, agentBanned, agentSlashCooldownEnd, protocolTreasury,
  mainBal, taskBidders, bids, verifications, verifierAssignedAt, localLastVerified, auctionBal,
  vrfEnabled, registry, verifierPool, verifierPoolIndex, lastVerified, requested,
  comparisonMode, compared, vrfBal,
  arbitrations, arbitrators, councilTreasury, councilBal, councilPaused, coreStatus

coreAll == <<now, pausedAt, taskCount, task, status, assignment, slashBonds, taskSlashAmount,
             taskBondSlashAmount, posterActiveTasks, agentActiveBids, agentActiveStake,
             agentReputation, agentTasksCompleted, agentTasksFailed, agentBanned,
             agentSlashCooldownEnd, protocolTreasury, mainBal, taskBidders, bids, verifications,
             verifierAssignedAt, localLastVerified, auctionBal>>
vrfAll == <<vrfEnabled, registry, verifierPool, verifierPoolIndex, lastVerified, requested,
            comparisonMode, compared, vrfBal>>
disputeAll == <<arbitrations, arbitrators, councilTreasury, councilBal, councilPaused, coreStatus>>

Term(window, required) ==
  [bounty |-> 1000, deadline |-> 3, slashWindow |-> window, bidDuration |-> 1,
   revealDuration |-> 1, requiredVerifiers |-> required]
Offer(stake, price) == [stake |-> stake, price |-> price]

\* The last offer makes the resolution divide by zero.
Auction == INSTANCE ArenaCoreProperties WITH
  MaxTasks <- 2, MaxTime <- 4, Horizon <- 1, Posters <- {p1}, Agents <- {a1, a2},
  Verifiers <- {}, Terms <- {Term(1, 1)},
  Offers <- {Offer(100, 800), Offer(200, 990), Offer(100, 0)},
  VerifierStakes <- {20}, Severities <- {"Minor"}, Pausable <- TRUE

\* The agent is in the pool as well; one of the stakes is less than a fifth of the
\* agent's.
Drawn == INSTANCE ArenaCoreVRF WITH
  MaxTasks <- 1, MaxTime <- 6, Horizon <- 4, Posters <- {p1}, Agents <- {a1},
  Verifiers <- {v1, v2, a1}, Terms <- {Term(1, 2)}, Offers <- {Offer(100, 800)},
  VerifierStakes <- {20}, Severities <- {}, Pausable <- FALSE,
  PoolStake <- [v \in {v1, v2, a1} |-> IF v = v1 THEN 10 ELSE 30], MinVerifierStake <- 10,
  JoinHorizon <- 1

\* A council of one, drawn from a pool that holds a verifier of the panel.
Disputed == INSTANCE ArenaDisputes WITH
  MaxTasks <- 1, MaxTime <- 7, Horizon <- 4, Posters <- {p1}, Agents <- {a1},
  Verifiers <- {v1, v2}, Terms <- {Term(2, 1), Term(2, 2)}, Offers <- {Offer(100, 800)},
  VerifierStakes <- {20}, Severities <- {"Minor"}, Pausable <- FALSE,
  Poster <- p1, Pool <- {c1, v1}, CouncilSize <- 1, Bounty <- 1000, ArbitrationTimeout <- 1,
  DisputeHorizon <- 5

PoolOff ==
  /\ vrfEnabled = "off" /\ registry = "off" /\ verifierPool = "off" /\ verifierPoolIndex = "off"
  /\ lastVerified = "off" /\ requested = "off" /\ comparisonMode = "off" /\ compared = "off"
  /\ vrfBal = "off"
CouncilOff ==
  /\ arbitrations = "off" /\ arbitrators = "off" /\ councilTreasury = "off"
  /\ councilBal = "off" /\ councilPaused = "off" /\ coreStatus = "off"

MCInit ==
  \/ part = "auctions" /\ Auction!Init /\ PoolOff /\ CouncilOff
  \/ part = "drawn" /\ Drawn!VRFInit /\ CouncilOff
  \/ part = "disputed" /\ Disputed!DisputesInit /\ PoolOff

MCNext ==
  \/ part = "auctions" /\ Auction!Next /\ UNCHANGED <<part, vrfAll, disputeAll>>
  \/ part = "drawn" /\ Drawn!VRFNext /\ UNCHANGED <<part, disputeAll>>
  \/ part = "disputed" /\ Disputed!DisputesNext /\ UNCHANGED <<part, vrfAll>>

MCSpec == MCInit /\ [][MCNext]_<<part, coreAll, vrfAll, disputeAll>>

-----------------------------------------------------------------------------
\* The counters of bids and of posted tasks count what they should.
LimitsExact == part = "auctions" => Auction!LimitsExact

\* The auction, and beside it the pool, hold exactly the stakes they still owe,
\* whoever was refunded, drawn, slashed or left (hazard: the pass over the bidders
\* refunds as it goes; an answer meets another pool than its request).  A drawn
\* panel is impartial and full.  On a disputed task the money is what it was when
\* the dispute caught it.
StakesExact ==
  /\ part = "auctions" => Auction!StakesExact
  /\ part = "drawn" => Drawn!StakesExact /\ Drawn!RegistryExact /\ Drawn!PanelSound
  /\ part = "disputed" => Disputed!MoneyLeftAsDisputed
=============================================================================
