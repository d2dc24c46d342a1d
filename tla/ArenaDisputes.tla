----------------------------- MODULE ArenaDisputes -----------------------------
(***************************************************************************)
(* Disputes over the escrow: the core contracts of ArenaCore together with *)
(* ArenaArbitration, which sees a task through the getters and overwrites  *)
(* its status and the agent's reputation, and nothing else of the core.    *)
(* The core goes on working on the task whose status it finds.             *)
(*                                                                         *)
(* Members of the council have no reputation as agents here.               *)
(***************************************************************************)
EXTENDS ArenaCoreProperties

CONSTANTS
  Poster, Pool, CouncilSize, Bounty, ArbitrationTimeout,
  DisputeHorizon         \* bound: no dispute and no council after this time

VARIABLES
  arbitrations, arbitrators, councilTreasury, councilBal, councilPaused,
  coreStatus             \* history: the status a task had when it was disputed

councilVars == <<arbitrations, arbitrators, councilTreasury, councilBal, councilPaused>>

Arbitration == INSTANCE ArenaArbitration WITH
  Tasks <- TaskIds, Stakes <- BidStakes, Windows <- SlashWindows, Horizon <- DisputeHorizon,
  life <- [t \in TaskIds |-> Life(t)],
  protocolTreasury <- councilTreasury, balance <- councilBal, paused <- councilPaused

-----------------------------------------------------------------------------
DisputeStatuses(t) == {status[t], "Disputed", "Completed", "Failed"}

\* adjustReputationFromSatellite, for the agent, with the verdict.
AfterVerdict(t) ==
  [agentReputation EXCEPT ![assignment[t].agent] =
     IF status'[t] = "Completed" THEN @ + 5 ELSE FloorSub(@, 5)]

\* A call of ArenaArbitration: of the core it changes what the two setters change.
CouncilStep(t) ==
  /\ \E s \in DisputeStatuses(t) : status' = [status EXCEPT ![t] = s]
  /\ UNCHANGED <<clock, taskCount, task, assignment, slashRecord, posterActiveTasks,
                 agentTasksCompleted, agentTasksFailed, agentBanned, agentSlashCooldownEnd,
                 agentActiveStake, auctionRecord, panelRecord, balances>>
  /\ Arbitration!DisputeStep(t)
  /\ agentReputation' = IF arbitrations'[t].status = "Resolved" THEN AfterVerdict(t)
                        ELSE agentReputation
  /\ coreStatus' = IF arbitrations[t].status = "None" THEN [coreStatus EXCEPT ![t] = status[t]]
                   ELSE coreStatus

DisputesInit ==
  /\ Init
  /\ Arbitration!Init
  /\ coreStatus = [t \in TaskIds |-> "Open"]

DisputesNext ==
  \/ Next /\ UNCHANGED <<councilVars, coreStatus>>
  \/ \E t \in TaskIds : CouncilStep(t)
  \/ UNCHANGED <<vars, coreStatus>> /\ Arbitration!WithdrawTreasury

-----------------------------------------------------------------------------
Undisputed(t) == arbitrations[t].status = "None"
Own == INSTANCE ArenaCoreProperties WITH
  status <- [t \in TaskIds |-> IF Undisputed(t) THEN status[t] ELSE coreStatus[t]]

\* A verdict moves no money of the core, and the core, which goes on with the status
\* it finds, pays nothing a second time for it: bounties, stakes and counters stay
\* what the status the task was disputed in makes them, and a bond stays until the
\* core releases or slashes it.  So whoever wins gets nothing by winning, and what
\* an open panel had staked stays in the contracts (hazard: a dispute catches a
\* task halfway through its settlement, and the verdict makes it Completed or
\* Failed without the rest of it).
MoneyLeftAsDisputed == Own!StakesExact /\ Own!LimitsExact /\ Own!MainSolvent
=============================================================================
