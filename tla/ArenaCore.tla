------------------------------ MODULE ArenaCore ------------------------------
(***************************************************************************)
(* The task life cycle of Arena Protocol: the escrow contract              *)
(* ArenaCoreMain and the auction / verification / settlement contract      *)
(* ArenaCoreAuction, as they run together.  A transaction is atomic (every *)
(* entry point that moves tokens is nonReentrant), so one external call is *)
(* one action; a revert is an action that is not enabled.  Checked         *)
(* arithmetic reverts on underflow: where that can happen it is a guard,   *)
(* elsewhere StakesExact of ArenaCoreProperties shows that it cannot.      *)
(*                                                                         *)
(* One payment token. The configuration is that of the deployment script   *)
(* with no dispute raised (a council overwrites statuses, see              *)
(* ArenaArbitration): ArenaCoreVRF is linked and not enabled, so that its  *)
(* cooldown repeats the auction's own (the module ArenaCoreVRF enables     *)
(* it), and no task type asks for approval or an output schema. Whom the   *)
(* compliance contract refuses is an address that does not act. A bid's    *)
(* eta and the hashes carry no behaviour. A commitment is the offer        *)
(* itself: hashing with a salt is modelled as perfectly binding, and       *)
(* nobody reads it before the reveal.                                      *)
(*                                                                         *)
(* Definitions whose names begin with Bug are not part of the model: each  *)
(* is a plausible defect of the definition that follows it, and is used    *)
(* only to show that the properties would notice it.                       *)
(***************************************************************************)
EXTENDS Integers, Sequences, FiniteSets, Functions

CONSTANTS
  MaxTasks,            \* bound: how many tasks are ever created
  MaxTime,             \* bound: the last block timestamp
  Horizon,             \* bound: no task and no panel is started after this time
  Posters,             \* addresses that create tasks
  Agents,              \* addresses that bid
  Verifiers,           \* addresses that verify; the three sets may overlap
  NoAgent,             \* address(0)
  Terms,               \* the argument records createTask may be called with
  Offers,              \* the [stake, price] records an agent may commit to
  VerifierStakes,      \* the stakes registerVerifier may be called with
  Severities,          \* the severities postCompletionSlash may be called with
  Pausable,            \* does the owner ever pause in this instance?
  MinBounty,
  MaxPosterActiveTasks,
  MaxBidders,
  MaxActiveBids,
  VerifierTimeout,     \* 24 hours
  AbandonTimeout,      \* 7 days
  SlashCooldown,       \* 72 hours
  VerifierCooldown,    \* 7 days
  PauseThreshold,      \* 7 days
  ScoreScale           \* 1e18

MaxVerifiers == 5
BPS == 10000
ProtocolFeeBps == 250
VerifierFeeBps == 300
SlashRevenueBps == 1000
SlashBondBps == 2000
TimeoutSlashBps == 1000
MinStakeRatio == 10

SlashBps == [Late |-> 1500, Minor |-> 2500, Material |-> 5000,
             Execution |-> 7500, Critical |-> 10000]
Severe == {"Material", "Execution", "Critical"}

TaskIds == 0 .. MaxTasks - 1
Address == Posters \cup Agents \cup Verifiers
Time == 0 .. MaxTime

ASSUME ConstantsAssumption ==
  /\ MaxTasks \in Nat /\ MaxTime \in Nat \ {0} /\ Horizon \in Nat
  /\ IsFiniteSet(Address)
  /\ NoAgent \notin Address
  /\ Terms \subseteq [bounty : Nat, deadline : Nat, slashWindow : Nat, bidDuration : Nat,
                      revealDuration : Nat, requiredVerifiers : Nat]
  /\ Offers \subseteq [stake : Nat, price : Nat]
  /\ VerifierStakes \subseteq Nat
  /\ Severities \subseteq DOMAIN SlashBps
  /\ Pausable \in BOOLEAN
  /\ MinBounty \in Nat \ {0}
  /\ {MaxPosterActiveTasks, MaxBidders, MaxActiveBids, VerifierTimeout, AbandonTimeout,
      SlashCooldown, VerifierCooldown, PauseThreshold} \subseteq Nat
  /\ ScoreScale \in Nat \ {0}

VARIABLES
  now,                   \* block.timestamp
  pausedAt,              \* 0 when the protocol is not paused
  taskCount,
  task,                  \* task[t]: the immutable terms and the bounty
  status,                \* status[t]: Task.status, split off for readability
  assignment,
  slashBonds,
  taskSlashAmount,       \* what was slashed, for the insurance contract
  taskBondSlashAmount,
  posterActiveTasks,
  agentActiveBids,
  agentActiveStake,
  agentReputation,
  agentTasksCompleted,
  agentTasksFailed,
  agentBanned,
  agentSlashCooldownEnd,
  protocolTreasury,
  mainBal,               \* tokens held by ArenaCoreMain
  taskBidders,
  bids,
  verifications,         \* verifications[t][v]; vote "None": v is not registered
  verifierAssignedAt,
  localLastVerified,
  auctionBal             \* tokens held by ArenaCoreAuction

agentRecord == <<agentReputation, agentTasksCompleted, agentTasksFailed, agentBanned,
                 agentSlashCooldownEnd>>
slashRecord == <<slashBonds, taskSlashAmount, taskBondSlashAmount>>
auctionRecord == <<taskBidders, bids, agentActiveBids>>
panelRecord == <<verifications, verifierAssignedAt, localLastVerified>>
clock == <<now, pausedAt>>
balances == <<mainBal, auctionBal, protocolTreasury>>
vars == <<clock, taskCount, task, status, assignment, slashRecord, posterActiveTasks,
          agentActiveStake, agentRecord, auctionRecord, panelRecord, balances>>

-----------------------------------------------------------------------------
(* Values *)

TaskStatus == {"Open", "BidReveal", "Assigned", "Delivered", "Verifying", "Completed",
               "Failed", "Disputed", "Cancelled"}
\* The statuses below Completed in the enum's order.
Unsettled == {"Open", "BidReveal", "Assigned", "Delivered", "Verifying"}

NoTask == [poster |-> NoAgent, bounty |-> 0, deadline |-> 0, slashWindow |-> 0,
           bidDeadline |-> 0, revealDeadline |-> 0, requiredVerifiers |-> 0]
NoAssignment == [agent |-> NoAgent, stake |-> 0, price |-> 0, assignedAt |-> 0,
                 deliveredAt |-> 0]
NoBid == [committed |-> FALSE, revealed |-> FALSE, stake |-> 0, price |-> 0]
NoVerification == [stake |-> 0, vote |-> "None"]

Created(t) == t < taskCount
Paused == pausedAt # 0
Emergency == Paused /\ now >= pausedAt + PauseThreshold

Panel(vs) == {v \in Verifiers : vs[v].vote # "None"}
VotesFor(vs, vote) == {v \in Verifiers : vs[v].vote = vote}
StakeSum(vs, S) == SumFunctionOnSet([v \in S |-> vs[v].stake], S)

SlashWindowOver(t) == now > assignment[t].deliveredAt + task[t].slashWindow

\* Share of an amount in basis points, rounded down as Solidity's / does.
Bps(amount, bps) == (amount * bps) \div BPS
MinOf(x, y) == IF x < y THEN x ELSE y
\* Subtraction that stops at zero, as the reputation setters do.
BugFloorSub(x, y) == x - y
FloorSub(x, y) == IF x >= y THEN x - y ELSE 0

\* Statuses up to which the poster may still pull the bounty (the enum's < Completed).
BugBeforeCompletion(s) == s \in Unsettled \cup {"Completed"}
BeforeCompletion(s) == s \in Unsettled

Bidders(t) == {taskBidders[t][i] : i \in DOMAIN taskBidders[t]}
Revealed(t) == {a \in Bidders(t) : bids[t][a].revealed}
Score(t, a) == (bids[t][a].stake * (agentReputation[a] + 1) * ScoreScale) \div bids[t][a].price
\* The bidder the loop of resolveAuction ends with: the best score, and of
\* equal scores the one that committed first.
Wins(t, i) ==
  LET a == taskBidders[t][i] IN
  /\ a \in Revealed(t)
  /\ Score(t, a) > 0
  /\ \A j \in DOMAIN taskBidders[t] : taskBidders[t][j] \in Revealed(t) =>
       LET b == taskBidders[t][j] IN
       \/ Score(t, a) > Score(t, b)
       \/ Score(t, a) = Score(t, b) /\ i <= j

-----------------------------------------------------------------------------
Init ==
  /\ now = 1
  /\ pausedAt = 0
  /\ taskCount = 0
  /\ task = [t \in TaskIds |-> NoTask]
  /\ status = [t \in TaskIds |-> "Open"]
  /\ assignment = [t \in TaskIds |-> NoAssignment]
  /\ slashBonds = [t \in TaskIds |-> 0]
  /\ taskSlashAmount = [t \in TaskIds |-> 0]
  /\ taskBondSlashAmount = [t \in TaskIds |-> 0]
  /\ posterActiveTasks = [p \in Posters |-> 0]
  /\ agentActiveBids = [a \in Agents |-> 0]
  /\ agentActiveStake = [x \in Address |-> 0]
  /\ agentReputation = [a \in Agents |-> 0]
  /\ agentTasksCompleted = [a \in Agents |-> 0]
  /\ agentTasksFailed = [a \in Agents |-> 0]
  /\ agentBanned = [x \in Address |-> FALSE]
  /\ agentSlashCooldownEnd = [a \in Agents |-> 0]
  /\ protocolTreasury = 0
  /\ mainBal = 0
  /\ taskBidders = [t \in TaskIds |-> <<>>]
  /\ bids = [t \in TaskIds |-> [a \in Agents |-> NoBid]]
  /\ verifications = [t \in TaskIds |-> [v \in Verifiers |-> NoVerification]]
  /\ verifierAssignedAt = [t \in TaskIds |-> 0]
  /\ localLastVerified = [v \in Verifiers |-> [a \in Agents |-> 0]]
  /\ auctionBal = 0

Tick ==
  /\ now < MaxTime
  /\ now' = now + 1
  /\ UNCHANGED <<pausedAt, taskCount, task, status, assignment, slashRecord,
                 posterActiveTasks, agentActiveStake, agentRecord, auctionRecord,
                 panelRecord, balances>>

-----------------------------------------------------------------------------
(* Updates that several handlers share *)

ReleasePoster(t) == posterActiveTasks' = [posterActiveTasks EXCEPT ![task[t].poster] = @ - 1]

\* The bidders whose agentActiveBids a finished auction takes down: all of them,
\* revealed or not.
BugReleasedBidders(t) == Revealed(t)
ReleasedBidders(t) == Bidders(t)
ReleaseBids(t) ==
  agentActiveBids' = [a \in Agents |->
    IF a \in ReleasedBidders(t) THEN agentActiveBids[a] - 1 ELSE agentActiveBids[a]]

\* agentActiveStake once the bidders in S have their stakes back
StakesReturned(t, S) ==
  [x \in Address |->
     IF x \in S THEN agentActiveStake[x] - bids[t][x].stake ELSE agentActiveStake[x]]

BugTakeBond(t) == UNCHANGED slashBonds
TakeBond(t) == slashBonds' = [slashBonds EXCEPT ![t] = 0]

-----------------------------------------------------------------------------
(* Task creation and cancellation (ArenaCoreMain) *)

\* The deadline must lie after the two auction phases (audit M-01).
BugDeadlineAfterAuction(terms) == terms.deadline > 0
DeadlineAfterAuction(terms) == terms.deadline > terms.bidDuration + terms.revealDuration

CreateTask(p, terms) ==
  LET t == taskCount IN
  /\ ~Paused
  /\ t \in TaskIds /\ now <= Horizon
  /\ terms.bounty >= MinBounty
  /\ posterActiveTasks[p] < MaxPosterActiveTasks
  /\ DeadlineAfterAuction(terms)
  /\ terms.requiredVerifiers \in 1 .. MaxVerifiers
  /\ terms.bidDuration > 0 /\ terms.revealDuration > 0
  /\ taskCount' = taskCount + 1
  /\ posterActiveTasks' = [posterActiveTasks EXCEPT ![p] = @ + 1]
  /\ task' = [task EXCEPT ![t] =
       [poster |-> p, bounty |-> terms.bounty, deadline |-> now + terms.deadline,
        slashWindow |-> terms.slashWindow, bidDeadline |-> now + terms.bidDuration,
        revealDeadline |-> now + terms.bidDuration + terms.revealDuration,
        requiredVerifiers |-> terms.requiredVerifiers]]
  /\ status' = [status EXCEPT ![t] = "Open"]
  /\ mainBal' = mainBal + terms.bounty
  /\ UNCHANGED <<clock, assignment, slashRecord, agentActiveStake, agentRecord, auctionRecord,
                 panelRecord, auctionBal, protocolTreasury>>

MayCancel(t) == status[t] = "Open"

\* cancelTask, and the refundBidsOnCancel it calls on the auction.
CancelTask(t) ==
  /\ Created(t)
  /\ MayCancel(t)
  /\ status' = [status EXCEPT ![t] = "Cancelled"]
  /\ ReleasePoster(t)
  /\ mainBal' = mainBal - task[t].bounty
  /\ ReleaseBids(t)
  /\ agentActiveStake' = StakesReturned(t, Revealed(t))
  /\ auctionBal' = auctionBal - StakeSum(bids[t], Revealed(t))
  /\ UNCHANGED <<clock, taskCount, task, assignment, slashRecord, agentRecord, taskBidders,
                 bids, panelRecord, protocolTreasury>>

-----------------------------------------------------------------------------
(* Sealed-bid auction (ArenaCoreAuction) *)

CommitBid(t, a, offer) ==
  /\ Created(t)
  /\ ~Paused
  /\ ~agentBanned[a]
  /\ status[t] = "Open"
  /\ a # task[t].poster
  /\ now < task[t].bidDeadline
  /\ ~bids[t][a].committed
  /\ Len(taskBidders[t]) < MaxBidders
  /\ agentActiveBids[a] < MaxActiveBids
  /\ now >= agentSlashCooldownEnd[a]
  /\ agentActiveBids' = [agentActiveBids EXCEPT ![a] = @ + 1]
  /\ bids' = [bids EXCEPT ![t][a] = [committed |-> TRUE, revealed |-> FALSE,
                                     stake |-> offer.stake, price |-> offer.price]]
  /\ taskBidders' = [taskBidders EXCEPT ![t] = Append(@, a)]
  /\ UNCHANGED <<clock, taskCount, task, status, assignment, slashRecord, posterActiveTasks,
                 agentActiveStake, agentRecord, panelRecord, balances>>

RevealOpen(t) == ~Paused /\ task[t].bidDeadline <= now /\ now < task[t].revealDeadline

StatusAfterReveal(s) == IF s = "Open" THEN "BidReveal" ELSE s

\* The offer must be the committed one, so it is read from the commitment.
\* The code does not look at the status, except to leave Open.
RevealBid(t, a) ==
  LET bid == bids[t][a] IN
  /\ Created(t)
  /\ RevealOpen(t)
  /\ bid.committed
  /\ ~bid.revealed
  /\ bid.stake >= task[t].bounty \div MinStakeRatio
  /\ bid.price <= task[t].bounty
  /\ status' = [status EXCEPT ![t] = StatusAfterReveal(@)]
  /\ bids' = [bids EXCEPT ![t][a] = [bid EXCEPT !.revealed = TRUE]]
  /\ agentActiveStake' = [agentActiveStake EXCEPT ![a] = @ + bid.stake]
  /\ auctionBal' = auctionBal + bid.stake
  /\ UNCHANGED <<clock, taskCount, task, assignment, slashRecord, posterActiveTasks,
                 agentRecord, taskBidders, agentActiveBids, panelRecord, mainBal,
                 protocolTreasury>>

BugLosers(t, winner) ==
  {a \in Revealed(t) \ {winner} : \E i, j \in DOMAIN taskBidders[t] :
     i < j /\ taskBidders[t][i] = winner /\ taskBidders[t][j] = a}
Losers(t, winner) == Revealed(t) \ {winner}

\* The division by a zero price panics and reverts the whole call.
ResolveAuction(t) ==
  /\ Created(t)
  /\ ~Paused
  /\ status[t] \in {"BidReveal", "Open"}
  /\ now >= task[t].revealDeadline
  /\ \A a \in Revealed(t) : bids[t][a].price # 0
  /\ \E i \in DOMAIN taskBidders[t] :
       LET winner == taskBidders[t][i]
           losers == Losers(t, winner) IN
       /\ Wins(t, i)
       /\ assignment' = [assignment EXCEPT ![t] =
            [agent |-> winner, stake |-> bids[t][winner].stake,
             price |-> bids[t][winner].price, assignedAt |-> now, deliveredAt |-> 0]]
       /\ agentActiveStake' = StakesReturned(t, losers)
       /\ auctionBal' = auctionBal - StakeSum(bids[t], losers)
  /\ ReleaseBids(t)
  /\ status' = [status EXCEPT ![t] = "Assigned"]
  /\ UNCHANGED <<clock, taskCount, task, slashRecord, posterActiveTasks, agentRecord,
                 taskBidders, bids, panelRecord, mainBal, protocolTreasury>>

DeliverTask(t) ==
  /\ Created(t)
  /\ status[t] = "Assigned"
  /\ now <= task[t].deadline
  /\ assignment' = [assignment EXCEPT ![t].deliveredAt = now]
  /\ status' = [status EXCEPT ![t] = "Delivered"]
  /\ UNCHANGED <<clock, taskCount, task, slashRecord, posterActiveTasks, agentActiveStake,
                 agentRecord, auctionRecord, panelRecord, balances>>

-----------------------------------------------------------------------------
(* Settlement.  The operators below are the internal functions of the      *)
(* auction; vs is the panel's record with the votes just cast, and pre the *)
(* ledger at the call (what enforceVerifierTimeout has already moved).     *)

Ledger == [main |-> mainBal, auction |-> auctionBal, treasury |-> protocolTreasury,
           stake |-> agentActiveStake]

BugReleased(t, vs, stake) ==
  [x \in Address |->
     stake[x] - (IF x = assignment[t].agent THEN assignment[t].stake ELSE 0)]

\* agentActiveStake once the assigned agent's and the panel's stakes are released
Released(t, vs, stake) ==
  [x \in Address |->
     stake[x] - (IF x = assignment[t].agent THEN assignment[t].stake ELSE 0)
              - (IF x \in Panel(vs) THEN vs[x].stake ELSE 0)]

SettleSuccess(t, vs, pre) ==
  LET a == assignment[t]
      agent == a.agent
      protocolFee == Bps(a.price, ProtocolFeeBps)
      slashBond == Bps(a.stake, SlashBondBps)
      remaining == task[t].bounty - a.price
      verifierFeeTotal == MinOf(Bps(task[t].bounty, VerifierFeeBps), remaining)
      size == Cardinality(Panel(vs))
      feePerVerifier == IF size > 0 THEN verifierFeeTotal \div size ELSE 0
      posterReturn == remaining - feePerVerifier * size
      approvers == VotesFor(vs, "Approved")
      others == Panel(vs) \ approvers
      slashRevenue == SumFunctionOnSet(
        [v \in others |-> (vs[v].stake * SlashRevenueBps) \div (BPS * 2)], others)
  IN
  /\ status' = [status EXCEPT ![t] = "Completed"]
  /\ ReleasePoster(t)
  /\ agentActiveStake' = Released(t, vs, pre.stake)
  /\ agentReputation' = [agentReputation EXCEPT ![agent] = @ + 10]
  /\ agentTasksCompleted' = [agentTasksCompleted EXCEPT ![agent] = @ + 1]
  /\ slashBonds' = IF slashBond > 0 THEN [slashBonds EXCEPT ![t] = slashBond] ELSE slashBonds
  /\ protocolTreasury' = pre.treasury + protocolFee + slashRevenue
  /\ mainBal' = pre.main - (a.price - protocolFee) - posterReturn
                  - feePerVerifier * Cardinality(approvers) + slashRevenue + slashBond
  /\ auctionBal' = pre.auction - a.stake - StakeSum(vs, Panel(vs))
  /\ UNCHANGED <<agentTasksFailed, agentBanned, agentSlashCooldownEnd, taskSlashAmount,
                 taskBondSlashAmount>>

SettleFailure(t, vs, severity, pre) ==
  LET a == assignment[t]
      agent == a.agent
      toProtocol == (a.stake * SlashBps[severity] * SlashRevenueBps) \div (BPS * BPS)
      others == Panel(vs) \ VotesFor(vs, "Rejected")
      slashRevenue == SumFunctionOnSet([v \in others |-> Bps(vs[v].stake, SlashRevenueBps)], others)
  IN
  /\ status' = [status EXCEPT ![t] = "Failed"]
  /\ ReleasePoster(t)
  /\ agentActiveStake' = Released(t, vs, pre.stake)
  /\ agentReputation' = [agentReputation EXCEPT ![agent] = FloorSub(@, 5)]
  /\ agentTasksFailed' = [agentTasksFailed EXCEPT ![agent] = @ + 1]
  /\ agentBanned' = IF severity = "Critical" THEN [agentBanned EXCEPT ![agent] = TRUE]
                    ELSE agentBanned
  /\ agentSlashCooldownEnd' =
       IF severity \in Severe THEN [agentSlashCooldownEnd EXCEPT ![agent] = now + SlashCooldown]
       ELSE agentSlashCooldownEnd
  /\ protocolTreasury' = pre.treasury + toProtocol + slashRevenue
  /\ mainBal' = pre.main + toProtocol + slashRevenue - task[t].bounty
  /\ auctionBal' = pre.auction - a.stake - StakeSum(vs, Panel(vs))
  /\ taskSlashAmount' = [taskSlashAmount EXCEPT ![t] = Bps(a.stake, SlashBps[severity])]
  /\ UNCHANGED <<slashBonds, taskBondSlashAmount, agentTasksCompleted>>

BugPassed(vs) == Cardinality(VotesFor(vs, "Approved")) >= Cardinality(VotesFor(vs, "Rejected"))
Passed(vs) == Cardinality(VotesFor(vs, "Approved")) > Cardinality(VotesFor(vs, "Rejected"))

\* Nothing happens while a vote is pending; a full vote of too small a panel reverts.
TrySettlement(t, vs, pre) ==
  LET approvals == Cardinality(VotesFor(vs, "Approved"))
      rejections == Cardinality(VotesFor(vs, "Rejected"))
      ledgerOnly == /\ agentActiveStake' = pre.stake
                    /\ mainBal' = pre.main
                    /\ auctionBal' = pre.auction
                    /\ protocolTreasury' = pre.treasury
                    /\ UNCHANGED <<posterActiveTasks, agentRecord, slashRecord>>
  IN
  \/ /\ VotesFor(vs, "Pending") # {}
     /\ ledgerOnly
     /\ UNCHANGED status
  \/ /\ VotesFor(vs, "Pending") = {}
     /\ Cardinality(Panel(vs)) = task[t].requiredVerifiers
     /\ \/ /\ Passed(vs)
           /\ SettleSuccess(t, vs, pre)
        \/ /\ rejections > approvals
           /\ SettleFailure(t, vs, "Material", pre)
        \/ /\ approvals = rejections
           /\ status' = [status EXCEPT ![t] = "Disputed"]
           /\ ledgerOnly

-----------------------------------------------------------------------------
(* Verification (ArenaCoreAuction) *)

BugImpartial(t, v) == v # task[t].poster
Impartial(t, v) == v # task[t].poster /\ v # assignment[t].agent

Reviewable(t) == status[t] \in {"Delivered", "Verifying"}

RegisterVerifier(t, v, stake) ==
  LET agent == assignment[t].agent IN
  /\ Created(t)
  /\ ~Paused
  /\ ~agentBanned[v]
  /\ Reviewable(t)
  /\ Impartial(t, v)
  /\ now <= Horizon
  /\ Cardinality(Panel(verifications[t])) < task[t].requiredVerifiers
  /\ v \notin Panel(verifications[t])
  /\ \/ localLastVerified[v][agent] = 0
     \/ now >= localLastVerified[v][agent] + VerifierCooldown
  /\ stake >= assignment[t].stake \div 5
  /\ agentActiveStake' = [agentActiveStake EXCEPT ![v] = @ + stake]
  /\ auctionBal' = auctionBal + stake
  /\ localLastVerified' = [localLastVerified EXCEPT ![v][agent] = now]
  /\ verifications' = [verifications EXCEPT ![t][v] = [stake |-> stake, vote |-> "Pending"]]
  /\ status' = [status EXCEPT ![t] = "Verifying"]
  /\ verifierAssignedAt' = IF status[t] = "Delivered"
                           THEN [verifierAssignedAt EXCEPT ![t] = now] ELSE verifierAssignedAt
  /\ UNCHANGED <<clock, taskCount, task, assignment, slashRecord, posterActiveTasks, agentRecord,
                 auctionRecord, mainBal, protocolTreasury>>

SubmitVerification(t, v, vote) ==
  LET vs == [verifications[t] EXCEPT ![v].vote = vote] IN
  /\ Created(t)
  /\ status[t] = "Verifying"
  /\ verifications[t][v].vote = "Pending"
  /\ verifications' = [verifications EXCEPT ![t] = vs]
  /\ TrySettlement(t, vs, Ledger)
  /\ UNCHANGED <<clock, taskCount, task, assignment, auctionRecord, verifierAssignedAt,
                 localLastVerified>>

\* Slash what the silent verifiers have staked, count them as rejections, and
\* settle; if nobody voted at all, send everybody home and dispute the task.
EnforceVerifierTimeout(t) ==
  LET panel == Panel(verifications[t])
      silent == VotesFor(verifications[t], "Pending")
      slashed == [v \in silent |-> Bps(verifications[t][v].stake, TimeoutSlashBps)]
      toProto == [v \in silent |->
        (verifications[t][v].stake * TimeoutSlashBps * SlashRevenueBps) \div (BPS * BPS)]
      revenue == SumFunctionOnSet(toProto, silent)
      vs == [v \in Verifiers |-> IF v \in silent THEN [stake |-> 0, vote |-> "Rejected"]
                                 ELSE verifications[t][v]]
      mid == [main |-> mainBal + revenue,
              auction |-> auctionBal - StakeSum(verifications[t], silent),
              treasury |-> protocolTreasury + revenue,
              stake |-> [x \in Address |-> IF x \in silent
                           THEN agentActiveStake[x] - verifications[t][x].stake
                           ELSE agentActiveStake[x]]]
      a == assignment[t]
      toProtoP == Bps(Bps(a.stake, TimeoutSlashBps), SlashRevenueBps)
  IN
  /\ Created(t)
  /\ status[t] = "Verifying"
  /\ verifierAssignedAt[t] # 0
  /\ now > verifierAssignedAt[t] + VerifierTimeout
  /\ silent # {}
  /\ verifications' = [verifications EXCEPT ![t] = vs]
  /\ \/ /\ silent = panel
        /\ status' = [status EXCEPT ![t] = "Disputed"]
        /\ ReleasePoster(t)
        /\ agentActiveStake' = [mid.stake EXCEPT ![a.agent] = @ - a.stake]
        /\ mainBal' = mid.main - task[t].bounty + toProtoP
        /\ auctionBal' = mid.auction - a.stake
        /\ protocolTreasury' = mid.treasury + toProtoP
        /\ UNCHANGED <<slashRecord, agentRecord>>
     \/ /\ silent # panel
        /\ TrySettlement(t, vs, mid)
  /\ UNCHANGED <<clock, taskCount, task, assignment, auctionRecord, verifierAssignedAt,
                 localLastVerified>>

Abandonable(t) ==
  /\ verifierAssignedAt[t] # 0
  /\ now > verifierAssignedAt[t] + AbandonTimeout

AbandonVerification(t) ==
  LET a == assignment[t]
      vs == verifications[t] IN
  /\ Created(t)
  /\ status[t] = "Verifying"
  /\ Abandonable(t)
  /\ status' = [status EXCEPT ![t] = "Cancelled"]
  /\ ReleasePoster(t)
  /\ mainBal' = mainBal - task[t].bounty
  /\ agentActiveStake' = Released(t, vs, agentActiveStake)
  /\ auctionBal' = auctionBal - a.stake - StakeSum(vs, Panel(vs))
  /\ verifications' = [verifications EXCEPT ![t] =
       [v \in Verifiers |-> [vs[v] EXCEPT !.stake = 0]]]
  /\ UNCHANGED <<clock, taskCount, task, assignment, slashRecord, agentRecord, auctionRecord,
                 verifierAssignedAt, localLastVerified, protocolTreasury>>

BugDeliveryStale(t) ==
  verifierAssignedAt[t] # 0 /\ now > verifierAssignedAt[t] + AbandonTimeout
DeliveryStale(t) ==
  assignment[t].deliveredAt # 0 /\ now > assignment[t].deliveredAt + AbandonTimeout

EnforceDeliveredTimeout(t) ==
  LET a == assignment[t] IN
  /\ Created(t)
  /\ status[t] = "Delivered"
  /\ DeliveryStale(t)
  /\ status' = [status EXCEPT ![t] = "Cancelled"]
  /\ ReleasePoster(t)
  /\ mainBal' = mainBal - task[t].bounty
  /\ agentActiveStake' = [agentActiveStake EXCEPT ![a.agent] = @ - a.stake]
  /\ auctionBal' = auctionBal - a.stake
  /\ UNCHANGED <<clock, taskCount, task, assignment, slashRecord, agentRecord, auctionRecord,
                 panelRecord, protocolTreasury>>

\* (the defect: the second, Material branch is unreachable)
DeadlineMissed(t) == now > task[t].deadline

\* deadline - assignedAt reverts when the auction was resolved after the deadline.
EnforceDeadline(t) ==
  LET deadline == task[t].deadline
      taskDuration == deadline - assignment[t].assignedAt IN
  /\ Created(t)
  /\ status[t] = "Assigned"
  /\ DeadlineMissed(t)
  /\ taskDuration >= 0
  /\ SettleFailure(t, verifications[t],
                   IF now > deadline + taskDuration THEN "Material" ELSE "Late", Ledger)
  /\ UNCHANGED <<clock, taskCount, task, assignment, auctionRecord, panelRecord>>

-----------------------------------------------------------------------------
(* After completion (ArenaCoreMain) *)

\* Called by the owner, or by ArenaOutcomes on an owner's or reporter's behalf.
PostCompletionSlash(t, severity) ==
  LET agent == assignment[t].agent
      bond == slashBonds[t]
      sBps == SlashBps[severity]
      slashAmount == Bps(bond, sBps)
      toProtocol == (bond * sBps * SlashRevenueBps) \div (BPS * BPS)
      agentReturn == bond - slashAmount
      toPoster == slashAmount - toProtocol
  IN
  /\ Created(t)
  /\ status[t] = "Completed"
  /\ now <= assignment[t].deliveredAt + task[t].slashWindow
  /\ bond # 0
  /\ taskBondSlashAmount' = [taskBondSlashAmount EXCEPT ![t] = slashAmount]
  /\ TakeBond(t)
  /\ status' = [status EXCEPT ![t] = "Failed"]
  /\ agentReputation' = [agentReputation EXCEPT ![agent] = FloorSub(@, IF sBps >= 2000 THEN 20 ELSE 5)]
  /\ agentTasksFailed' = [agentTasksFailed EXCEPT ![agent] = @ + 1]
  /\ agentTasksCompleted' = IF severity \in Severe
                            THEN [agentTasksCompleted EXCEPT ![agent] = FloorSub(@, 1)]
                            ELSE agentTasksCompleted
  /\ agentBanned' = IF severity = "Critical" THEN [agentBanned EXCEPT ![agent] = TRUE]
                    ELSE agentBanned
  /\ agentSlashCooldownEnd' =
       IF severity \in Severe THEN [agentSlashCooldownEnd EXCEPT ![agent] = now + SlashCooldown]
       ELSE agentSlashCooldownEnd
  /\ protocolTreasury' = protocolTreasury + toProtocol
  /\ mainBal' = mainBal - toPoster - agentReturn
  /\ UNCHANGED <<clock, taskCount, task, assignment, taskSlashAmount, posterActiveTasks,
                 agentActiveStake, auctionRecord, panelRecord, auctionBal>>

ClaimSlashBond(t) ==
  /\ Created(t)
  /\ status[t] = "Completed"
  /\ SlashWindowOver(t)
  /\ slashBonds[t] # 0
  /\ TakeBond(t)
  /\ mainBal' = mainBal - slashBonds[t]
  /\ UNCHANGED <<clock, taskCount, task, status, assignment, taskSlashAmount,
                 taskBondSlashAmount, posterActiveTasks, agentActiveStake, agentRecord,
                 auctionRecord, panelRecord, auctionBal, protocolTreasury>>

-----------------------------------------------------------------------------
(* Administration and emergency withdrawal (ArenaCoreMain) *)

WithdrawProtocolFees ==
  /\ protocolTreasury # 0
  /\ protocolTreasury' = 0
  /\ mainBal' = mainBal - protocolTreasury
  /\ UNCHANGED <<clock, taskCount, task, status, assignment, slashRecord, posterActiveTasks,
                 agentActiveStake, agentRecord, auctionRecord, panelRecord, auctionBal>>

Pause ==
  /\ Pausable
  /\ ~Paused
  /\ pausedAt' = now
  /\ UNCHANGED <<now, taskCount, task, status, assignment, slashRecord, posterActiveTasks,
                 agentActiveStake, agentRecord, auctionRecord, panelRecord, balances>>

Unpause ==
  /\ Paused
  /\ pausedAt' = 0
  /\ UNCHANGED <<now, taskCount, task, status, assignment, slashRecord, posterActiveTasks,
                 agentActiveStake, agentRecord, auctionRecord, panelRecord, balances>>

UnbanAgent(x) ==
  /\ agentBanned[x]
  /\ agentBanned' = [agentBanned EXCEPT ![x] = FALSE]
  /\ UNCHANGED <<clock, taskCount, task, status, assignment, slashRecord, posterActiveTasks,
                 agentActiveStake, agentReputation, agentTasksCompleted, agentTasksFailed,
                 agentSlashCooldownEnd, auctionRecord, panelRecord, balances>>

EmergencyWithdrawBounty(t) ==
  /\ Created(t)
  /\ Emergency
  /\ BeforeCompletion(status[t])
  /\ task[t].bounty # 0
  /\ task' = [task EXCEPT ![t].bounty = 0]
  /\ status' = [status EXCEPT ![t] = "Cancelled"]
  /\ ReleasePoster(t)
  /\ mainBal' = mainBal - task[t].bounty
  /\ UNCHANGED <<clock, taskCount, assignment, slashRecord, agentActiveStake, agentRecord,
                 auctionRecord, panelRecord, auctionBal, protocolTreasury>>

\* The stake is pulled from the auction to Main and paid out in one call.
EmergencyWithdrawStake(t) ==
  LET a == assignment[t] IN
  /\ Created(t)
  /\ Emergency
  /\ status[t] \in Unsettled \ {"Open", "BidReveal"}
  /\ a.stake # 0
  /\ assignment' = [assignment EXCEPT ![t].stake = 0]
  /\ agentActiveStake' = [agentActiveStake EXCEPT ![a.agent] = @ - a.stake]
  /\ auctionBal' = auctionBal - a.stake
  /\ UNCHANGED <<clock, taskCount, task, status, slashRecord, posterActiveTasks, agentRecord,
                 auctionRecord, panelRecord, mainBal, protocolTreasury>>

-----------------------------------------------------------------------------
\* The steps anybody may send once their time has come.
Settler(t) ==
  \/ ResolveAuction(t)
  \/ EnforceDeadline(t)
  \/ EnforceDeliveredTimeout(t)
  \/ EnforceVerifierTimeout(t)
  \/ AbandonVerification(t)

Next ==
  \/ Tick
  \/ \E p \in Posters, terms \in Terms : CreateTask(p, terms)
  \/ \E t \in TaskIds :
       \/ CancelTask(t)
       \/ \E a \in Agents : RevealBid(t, a) \/ \E offer \in Offers : CommitBid(t, a, offer)
       \/ ResolveAuction(t)
       \/ DeliverTask(t)
       \/ \E v \in Verifiers :
            \/ \E stake \in VerifierStakes : RegisterVerifier(t, v, stake)
            \/ \E vote \in {"Approved", "Rejected"} : SubmitVerification(t, v, vote)
       \/ EnforceVerifierTimeout(t)
       \/ AbandonVerification(t)
       \/ EnforceDeliveredTimeout(t)
       \/ EnforceDeadline(t)
       \/ \E severity \in Severities : PostCompletionSlash(t, severity)
       \/ ClaimSlashBond(t)
       \/ EmergencyWithdrawBounty(t)
       \/ EmergencyWithdrawStake(t)
  \/ WithdrawProtocolFees
  \/ Pause
  \/ Unpause
  \/ \E x \in Address : UnbanAgent(x)

Spec == Init /\ [][Next]_vars

\* Blocks keep coming, and whoever is owed a permissionless step sends it.
Fairness == WF_vars(Tick) /\ \A t \in TaskIds : WF_vars(Settler(t))

-----------------------------------------------------------------------------
(* Type correctness *)

\* 0 is the value of an unwritten mapping.
BidStakes == {0} \cup {offer.stake : offer \in Offers}
SlashWindows == {0} \cup {terms.slashWindow : terms \in Terms}

TaskType == [poster : Posters \cup {NoAgent}, bounty : Nat, deadline : Nat, slashWindow : SlashWindows,
             bidDeadline : Nat, revealDeadline : Nat, requiredVerifiers : 0 .. MaxVerifiers]
AssignmentType == [agent : Agents \cup {NoAgent}, stake : Nat, price : Nat,
                   assignedAt : Time, deliveredAt : Time]
BidType == [committed : BOOLEAN, revealed : BOOLEAN, stake : BidStakes, price : Nat]
VerificationType == [stake : Nat, vote : {"None", "Pending", "Approved", "Rejected"}]

\* Every mapping holds values of its type, and no reputation or task count, which
\* the setters floor, goes below zero.  What is subtracted unfloored (balances
\* and counters) is only an integer here: StakesExact says more.
TypeOK ==
  /\ now \in Time \ {0} /\ pausedAt \in Time
  /\ taskCount \in 0 .. MaxTasks
  /\ task \in [TaskIds -> TaskType]
  /\ status \in [TaskIds -> TaskStatus]
  /\ assignment \in [TaskIds -> AssignmentType]
  /\ slashBonds \in [TaskIds -> Nat]
  /\ taskSlashAmount \in [TaskIds -> Nat]
  /\ taskBondSlashAmount \in [TaskIds -> Nat]
  /\ posterActiveTasks \in [Posters -> Int]
  /\ agentActiveBids \in [Agents -> Int]
  /\ agentActiveStake \in [Address -> Int]
  /\ agentReputation \in [Agents -> Nat]
  /\ agentTasksCompleted \in [Agents -> Nat]
  /\ agentTasksFailed \in [Agents -> Nat]
  /\ agentBanned \in [Address -> BOOLEAN]
  /\ agentSlashCooldownEnd \in [Agents -> Nat]
  /\ taskBidders \in [TaskIds -> Seq(Agents)]
  /\ bids \in [TaskIds -> [Agents -> BidType]]
  /\ verifications \in [TaskIds -> [Verifiers -> VerificationType]]
  /\ verifierAssignedAt \in [TaskIds -> Time]
  /\ localLastVerified \in [Verifiers -> [Agents -> Time]]

=============================================================================
