-------------------------- MODULE ArenaCoreProperties --------------------------
(***************************************************************************)
(* What the two core contracts must guarantee to posters, agents and       *)
(* verifiers, stated over the state of ArenaCore.                          *)
(***************************************************************************)
EXTENDS ArenaCore

SumOver(S, f(_)) == SumFunctionOnSet([x \in S |-> f(x)], S)

AllCreated == {t \in TaskIds : Created(t)}
Assigned(t) == assignment[t].agent # NoAgent
Live == {"Open", "BidReveal", "Assigned", "Delivered", "Verifying"}
\* A tie leaves the money where it is; a panel that never voted does not.
Tied(t) == status[t] = "Disputed" /\ VotesFor(verifications[t], "Approved") # {}
EmergencyCancelled(t) == status[t] = "Cancelled" /\ task[t].bounty = 0

\* Main still owes the bounty of t to somebody.
Escrowed(t) == status[t] \in Live \/ Tied(t)

\* The stake of x that task t keeps on the auction contract.  A bid revealed on
\* a cancelled task, and every stake of a task whose poster took the bounty out
\* in an emergency, has no way out and stays.
BidHeld(t, x) ==
  IF /\ x \in Agents /\ ~Assigned(t) /\ status[t] \in {"Open", "BidReveal", "Cancelled"}
     /\ bids[t][x].revealed
  THEN bids[t][x].stake ELSE 0
Working(t) == status[t] \in {"Assigned", "Delivered", "Verifying"} \/ Tied(t) \/ EmergencyCancelled(t)
AgentHeld(t, x) == IF x = assignment[t].agent /\ Working(t) THEN assignment[t].stake ELSE 0
VerifierHeld(t, x) == IF x \in Verifiers /\ Working(t) THEN verifications[t][x].stake ELSE 0
Held(t, x) == BidHeld(t, x) + AgentHeld(t, x) + VerifierHeld(t, x)

-----------------------------------------------------------------------------
(* Safety: money *)

\* Main can always pay every escrowed bounty, every slash bond and the treasury
\* (hazard: fees, bonds and slash revenue cross between the two contracts and
\* are booked in a different statement from the one that moves them).
MainSolvent ==
  /\ protocolTreasury \in Nat
  /\ mainBal >= protocolTreasury + SumOver(AllCreated, LAMBDA t :
               slashBonds[t] + (IF Escrowed(t) THEN task[t].bounty ELSE 0))

\* The auction holds exactly the stakes it has not yet returned or slashed: none
\* is paid out twice, none is kept after its task is over.  agentActiveStake, on
\* the other contract, is what each address has at stake over all tasks and
\* roles, through refunds, slashes, timeouts and emergencies.  So no balance runs
\* short and no checked subtraction reverts half-way through a handler.
StakesExact ==
  /\ auctionBal = SumOver(AllCreated \X Address, LAMBDA tx : Held(tx[1], tx[2]))
  /\ \A x \in Address : agentActiveStake[x] = SumOver(AllCreated, LAMBDA t : Held(t, x))

\* The rate limits count what they should: agentActiveBids the auctions an agent
\* is waiting on, so that the MAX_ACTIVE_BIDS limit is neither evaded nor eaten up
\* by finished auctions, and posterActiveTasks the poster's unsettled tasks, tied
\* ones included, up to the limit createTask checks.
LimitsExact ==
  /\ \A a \in Agents : agentActiveBids[a] = Cardinality({t \in AllCreated :
    /\ bids[t][a].committed
    /\ \/ status[t] \in {"Open", "BidReveal"}
       \/ EmergencyCancelled(t) /\ ~Assigned(t)})
  /\ \A p \in Posters :
    /\ posterActiveTasks[p] = Cardinality({t \in AllCreated : task[t].poster = p /\ Escrowed(t)})
    /\ posterActiveTasks[p] <= MaxPosterActiveTasks

-----------------------------------------------------------------------------
(* Safety: the life cycle, task by task *)

\* Every task's timestamps are in the order the phases promise: nobody is
\* assigned before the reveal phase is over, delivery is in time, the panel is
\* formed only after it, and its clock runs exactly when there is one.
OrderedTimes(t) ==
  LET a == assignment[t] IN
  /\ Created(t) => task[t].bidDeadline < task[t].revealDeadline
  /\ Created(t) => task[t].revealDeadline < task[t].deadline
  /\ Assigned(t) => task[t].revealDeadline <= a.assignedAt /\ a.assignedAt <= now
  /\ a.deliveredAt # 0 => /\ Assigned(t)
                          /\ a.assignedAt <= a.deliveredAt
                          /\ a.deliveredAt <= task[t].deadline
                          /\ a.deliveredAt <= now
  /\ Panel(verifications[t]) # {} <=> verifierAssignedAt[t] # 0
  /\ verifierAssignedAt[t] # 0 => /\ a.deliveredAt # 0
                                  /\ a.deliveredAt <= verifierAssignedAt[t]
                                  /\ verifierAssignedAt[t] <= now
TimestampsOrdered == \A t \in TaskIds : OrderedTimes(t)

\* The status tells how far a task really got: nobody is assigned while the
\* auction runs, what was delivered has a delivery time, and a task has a panel
\* from the first registration on, never before delivery.
InPhase(t) ==
  LET a == assignment[t]
      panel == Panel(verifications[t]) IN
  /\ ~Created(t) => status[t] = "Open"
  /\ status[t] \in {"Open", "BidReveal"} => a = NoAssignment
  /\ status[t] \in {"Assigned", "Delivered", "Verifying", "Completed", "Failed", "Disputed"}
       => Assigned(t)
  /\ status[t] = "Assigned" => a.deliveredAt = 0
  /\ status[t] \in {"Delivered", "Verifying", "Completed", "Disputed"} => a.deliveredAt # 0
  /\ status[t] \in {"Open", "BidReveal", "Assigned", "Delivered"} => panel = {}
  /\ status[t] \in {"Verifying", "Completed", "Disputed"} => panel # {}
PhaseSound == \A t \in TaskIds : InPhase(t)

\* A slash bond exists only while the task stays completed (whoever takes it, or
\* takes the task out of Completed, has it cleared) and is part of the stake.
BondCovered(t) ==
  slashBonds[t] # 0 => status[t] = "Completed" /\ slashBonds[t] <= assignment[t].stake
BondSound == \A t \in TaskIds : BondCovered(t)

\* The panel that judges a task is impartial and no larger than asked for:
\* neither the poster nor the assigned agent sits on it, a verdict with an
\* approval is reached only by a full panel, and no vote is left open after one.
FairPanel(t) ==
  LET vs == verifications[t]
      panel == Panel(vs) IN
  /\ Cardinality(panel) <= task[t].requiredVerifiers
  /\ task[t].poster \notin panel /\ assignment[t].agent \notin panel
  /\ status[t] \in {"Completed", "Disputed"} /\ VotesFor(vs, "Approved") # {}
       => Cardinality(panel) = task[t].requiredVerifiers
  /\ VotesFor(vs, "Pending") # {} => status[t] \in {"Verifying", "Cancelled"}
PanelSound == \A t \in TaskIds : FairPanel(t)

-----------------------------------------------------------------------------
(* Action properties *)

Terminal == {"Completed", "Failed", "Disputed", "Cancelled"}

\* A settled task is settled for good: the only way out of a terminal status is
\* the post-completion slash of a bond inside the slash window.
SettledOnce ==
  [][\A t \in AllCreated : status[t] \in Terminal /\ status'[t] # status[t] =>
       /\ status[t] = "Completed" /\ status'[t] = "Failed"
       /\ slashBonds[t] # 0 /\ slashBonds'[t] = 0
       /\ now <= assignment[t].deliveredAt + task[t].slashWindow]_vars

\* The bond leaves once, either to the poster's side inside the slash window or
\* to the agent after it; the two windows do not overlap.
BondLeavesOnce ==
  [][\A t \in TaskIds : slashBonds[t] # 0 /\ slashBonds'[t] # slashBonds[t] =>
       /\ slashBonds'[t] = 0
       /\ (status'[t] = "Completed") = (now > assignment[t].deliveredAt + task[t].slashWindow)]_vars

\* An agent is paid only on the word of a strict majority of the whole panel:
\* verifiers who were silent count against it, and nobody's vote is rewritten.
PaidByMajority ==
  [][\A t \in AllCreated :
       /\ status[t] # "Completed" /\ status'[t] = "Completed" =>
            2 * Cardinality(VotesFor(verifications'[t], "Approved")) > task[t].requiredVerifiers
       /\ \A v \in Verifiers : verifications[t][v].vote \in {"Approved", "Rejected"} =>
            verifications'[t][v].vote = verifications[t][v].vote]_vars

-----------------------------------------------------------------------------
(* Refinement: what the satellite contracts see of a task *)

Life(t) ==
  [phase |-> IF status[t] = "BidReveal" THEN "Open" ELSE status[t],
   agent |-> assignment[t].agent,
   stake |-> assignment[t].stake,
   slashWindow |-> IF Assigned(t) THEN task[t].slashWindow ELSE 0,
   deliveredAt |-> assignment[t].deliveredAt,
   bond |-> slashBonds[t],
   slashed |-> taskSlashAmount[t],
   bondSlashed |-> taskBondSlashAmount[t]]

Lifecycle == INSTANCE TaskLifecycle WITH
  Tasks <- TaskIds, Stakes <- BidStakes, Windows <- SlashWindows,
  life <- [t \in TaskIds |-> Life(t)]

\* Seen through the getters, the two contracts together make no step but those
\* of TaskLifecycle: an agent is slashed once, by the share its severity has, a
\* bond is a fifth of the stake, and no phase is left but for one the satellite
\* contracts expect next.
ImplementsLifecycle == Lifecycle!LifecycleSpec

-----------------------------------------------------------------------------
(* Liveness, under Fairness in an instance that is never paused *)

\* A task whose agent was assigned before the deadline ends, and so does one that
\* was delivered (audit H-04) or is under verification, whatever the agent and the
\* verifiers fail to do.
TasksEnd ==
  \A t \in TaskIds :
    \/ status[t] \in {"Delivered", "Verifying"}
    \/ status[t] = "Assigned" /\ assignment[t].assignedAt <= task[t].deadline
    ~> status[t] \in TaskStatus \ Unsettled

-----------------------------------------------------------------------------
(* What the documents say and the code does not do *)

\* README.md: "Late | 15% | Missed deadline"; enforceDeadline: "Enforces a missed
\* delivery deadline by slashing the assigned agent".  Past the deadline, an
\* agent that has not delivered can be slashed.
MissedDeadlineEnforceable ==
  \A t \in AllCreated : status[t] = "Assigned" /\ now > task[t].deadline =>
    ENABLED EnforceDeadline(t)

\* refundBidsOnCancel: "Refunds all bid stakes to bidders when a task is
\* cancelled": a task its poster cancelled holds no bid stake.
CancelReturnsBids ==
  \A t \in AllCreated : status[t] = "Cancelled" /\ task[t].bounty # 0 =>
    \A a \in Agents : BidHeld(t, a) = 0

=============================================================================
