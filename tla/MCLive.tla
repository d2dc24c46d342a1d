-------------------------------- MODULE MCLive --------------------------------
(***************************************************************************)
(* What must eventually happen: one task of the core, one dispute and the  *)
(* orchestrator's queue of transactions, small enough for liveness.  They  *)
(* share nothing: a behaviour is one of them, the others stay as they were *)
(* deployed.                                                               *)
(***************************************************************************)
EXTENDS ArenaArbitration, NonceManager

CONSTANTS
  a1, p1,
  v1, v2, v3              \* the verifier pool

VARIABLES
  part,
  coreNow, pausedAt, taskCount, task, status, assignment, slashBonds, taskSlashAmount,
  taskBondSlashAmount, posterActiveTasks, agentActiveBids, agentActiveStake, agentReputation,
  agentTasksCompleted, agentTasksFailed, agentBanned, agentSlashCooldownEnd, coreTreasury,
  mainBal, taskBidders, bids, verifications, verifierAssignedAt, localLastVerified, auctionBal

coreAll == <<coreNow, pausedAt, taskCount, task, status, assignment, slashBonds, taskSlashAmount,
             taskBondSlashAmount, posterActiveTasks, agentActiveBids, agentActiveStake,
             agentReputation, agentTasksCompleted, agentTasksFailed, agentBanned,
             agentSlashCooldownEnd, coreTreasury, mainBal, taskBidders, bids, verifications,
             verifierAssignedAt, localLastVerified, auctionBal>>

-----------------------------------------------------------------------------
\* Panels of either parity, with the timeouts in the order the contracts have them.
CoreTerm(required) ==
  [bounty |-> 1000, deadline |-> 3, slashWindow |-> 1, bidDuration |-> 1, revealDuration |-> 1,
   requiredVerifiers |-> required]

Core == INSTANCE ArenaCoreProperties WITH
  MaxTasks <- 1, MaxTime <- 11, Horizon <- 5, Posters <- {p1}, Agents <- {a1},
  Verifiers <- {v1, v2}, Terms <- {CoreTerm(2), CoreTerm(3)},
  Offers <- {[stake |-> 100, price |-> 800]}, VerifierStakes <- {20}, Severities <- {},
  Pausable <- FALSE, MinBounty <- 50, MaxPosterActiveTasks <- 2, MaxBidders <- 2,
  MaxActiveBids <- 1, VerifierTimeout <- 1, AbandonTimeout <- 2, SlashCooldown <- 2,
  VerifierCooldown <- 2, ScoreScale <- 1000,
  PauseThreshold <- 2, now <- coreNow, protocolTreasury <- coreTreasury

-----------------------------------------------------------------------------
MCInit ==
  /\ part \in {"core", "dispute", "queue"}
  /\ QueueInit
  /\ Init
  /\ Core!Init

InCore(step)    == part = "core" /\ step /\ UNCHANGED <<part, queueVars, allVars>>
InDispute(step) == part = "dispute" /\ step /\ UNCHANGED <<part, queueVars, coreAll>>
InQueue(step)   == part = "queue" /\ step /\ UNCHANGED <<part, allVars, coreAll>>

MCNext ==
  \/ InCore(Core!Next)
  \/ InDispute(Next)
  \/ InQueue(QueueNext)

MCAll == <<part, queueVars, allVars, coreAll>>

\* The fairness of each part in its own behaviours: part never changes, so fairness
\* of a union of steps of different parts is fairness of each.
MCFairness ==
  /\ WF_MCAll(InCore(Core!Tick) \/ InDispute(Blocks) \/ InQueue(Synced))
  /\ WF_MCAll(InCore(Core!Settler(0)) \/ InDispute(EnforceArbitrationStakingTimeout(0))
              \/ InQueue(Resynced))
  /\ WF_MCAll(InDispute(EnforceArbitrationVotingTimeout(0)) \/ InQueue(Confirmed))
  /\ WF_MCAll(InQueue(Sent \/ NonceRefused))

MCSpec == MCInit /\ [][MCNext]_MCAll /\ MCFairness

-----------------------------------------------------------------------------
\* ArenaCoreProperties: a task in work ends, whatever its agent and its verifiers
\* fail to do.
TasksEnd == Core!TasksEnd
=============================================================================
