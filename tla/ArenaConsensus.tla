---------------------------- MODULE ArenaConsensus ----------------------------
(***************************************************************************)
(* Tasks done by several agents (ArenaConsensus): a sealed-bid auction     *)
(* with agentCount winners, independent deliveries, and payment of the     *)
(* agents whose outputs agree.  The contract keeps its own escrow and only *)
(* reads reputation and bans from the core.                                *)
(*                                                                         *)
(* A transaction is atomic.  One poster and one token; a commitment is the *)
(* offer itself, which nobody reads before the reveal; a banned agent is   *)
(* one that does not bid.  The slash window and the number of verifiers    *)
(* are stored and never read by the code, so they are left out.            *)
(***************************************************************************)
EXTENDS Integers, SequencesExt, Functions

CONSTANTS
  MaxTasks,        \* bound: tasks ever created
  MaxTime,         \* bound: the last block timestamp
  Agents,
  NoAgent,         \* address(0)
  Terms,           \* what createConsensusTask may be called with
  Offers,          \* the [stake, price] pairs an agent may commit to
  Outputs,         \* output hashes
  Reputations,
  MaxActiveBids,   \* 5
  ScoreScale       \* 1e18

VARIABLES
  now,               \* block.timestamp
  agentReputation,   \* of the core; read once, when the auction is resolved
  consensusTasks,    \* the tasks created so far, by id from 1
  taskBidders,       \* taskBidders[t]: in the order of their commitments
  bids,              \* bids[t][a]
  submissions,       \* submissions[t]: the selected agents, best score first
  agentActiveBids,
  protocolTreasury,
  balance

vars == <<now, agentReputation, consensusTasks, taskBidders, bids, submissions,
          agentActiveBids, protocolTreasury, balance>>

BPS == 10000
ProtocolFeeBps == 250
SlashMinorBps == 1500
SlashRevenueBps == 1000
MinStakeRatio == 10
AgentCounts == 2 .. 5

Share(amount, bps) == (amount * bps) \div BPS
Tasks == DOMAIN consensusTasks
PerAgentBounty(t) == consensusTasks[t].totalBounty \div consensusTasks[t].agentCount
NoBid == [committed |-> FALSE, revealed |-> FALSE, offer |-> [stake |-> 0, price |-> 0]]
Sum(S, f(_)) == SumFunctionOnSet([x \in S |-> f(x)], S)

SetStatus(t, status) == consensusTasks' = [consensusTasks EXCEPT ![t].status = status]
Revealed(t) == {a \in Agents : bids[t][a].revealed}
\* resolving and cancelling count every bidder's bid as over
ReleaseBidders(t) ==
  agentActiveBids' = [a \in Agents |->
    IF bids[t][a].committed THEN agentActiveBids[a] - 1 ELSE agentActiveBids[a]]

-----------------------------------------------------------------------------
CreateConsensusTask(terms) ==
  /\ Len(consensusTasks) < MaxTasks
  /\ terms.agentCount \in AgentCounts
  /\ terms.totalBounty # 0 /\ terms.bidDuration # 0 /\ terms.revealDuration # 0
  /\ terms.deadline > now
  /\ consensusTasks' = Append(consensusTasks,
       [totalBounty |-> terms.totalBounty, agentCount |-> terms.agentCount,
        deadline |-> terms.deadline, bidDeadline |-> now + terms.bidDuration,
        revealDeadline |-> now + terms.bidDuration + terms.revealDuration, status |-> "Open"])
  /\ taskBidders' = Append(taskBidders, <<>>)
  /\ bids' = Append(bids, [a \in Agents |-> NoBid])
  /\ submissions' = Append(submissions, <<>>)
  /\ balance' = balance + terms.totalBounty
  /\ UNCHANGED <<now, agentReputation, agentActiveBids, protocolTreasury>>

Cancellable(t) == consensusTasks[t].status \in {"Open", "BidReveal"}

CancelConsensusTask(t) ==
  /\ Cancellable(t)
  /\ SetStatus(t, "Cancelled")
  /\ ReleaseBidders(t)
  /\ balance' = balance - consensusTasks[t].totalBounty
                        - Sum(Revealed(t), LAMBDA a : bids[t][a].offer.stake)
  /\ UNCHANGED <<now, agentReputation, taskBidders, bids, submissions, protocolTreasury>>

\* A bid in the very last second of the bid phase closes it for the others.
SubmitBid(t, a, offer) ==
  /\ consensusTasks[t].status = "Open" /\ now <= consensusTasks[t].bidDeadline
  /\ ~bids[t][a].committed
  /\ agentActiveBids[a] < MaxActiveBids
  /\ bids' = [bids EXCEPT ![t][a] = [NoBid EXCEPT !.committed = TRUE, !.offer = offer]]
  /\ taskBidders' = [taskBidders EXCEPT ![t] = Append(@, a)]
  /\ agentActiveBids' = [agentActiveBids EXCEPT ![a] = @ + 1]
  /\ SetStatus(t, IF now = consensusTasks[t].bidDeadline THEN "BidReveal" ELSE "Open")
  /\ UNCHANGED <<now, agentReputation, submissions, protocolTreasury, balance>>

InReveal(t) ==
  \/ consensusTasks[t].status = "BidReveal"
  \/ consensusTasks[t].status = "Open" /\ now >= consensusTasks[t].bidDeadline

RevealBid(t, a) ==
  /\ InReveal(t) /\ now <= consensusTasks[t].revealDeadline
  /\ bids[t][a].committed /\ ~bids[t][a].revealed
  /\ bids[t][a].offer.stake >= PerAgentBounty(t) \div MinStakeRatio
  /\ bids' = [bids EXCEPT ![t][a].revealed = TRUE]
  /\ SetStatus(t, "BidReveal")
  /\ balance' = balance + bids[t][a].offer.stake
  /\ UNCHANGED <<now, agentReputation, taskBidders, submissions, agentActiveBids,
                 protocolTreasury>>

-----------------------------------------------------------------------------
(* The selection: one pass over the bidders keeps a ranking of agentCount   *)
(* places, empty at first; a bid that enters it pushes the last one out,    *)
(* whose stake goes back at once.                                           *)

Score(t, a) ==
  (bids[t][a].offer.stake * (agentReputation[a] + 1) * ScoreScale) \div bids[t][a].offer.price

EmptyPlace == [agent |-> NoAgent, score |-> 0]
StakeOf(t, a) == IF a = NoAgent THEN 0 ELSE bids[t][a].offer.stake

BugPushedOut(ranking, place) == ranking[place].agent
PushedOut(ranking, place) == Last(ranking).agent

\* picked.ranking so far and picked.repaid, the stakes already sent back
Beats(score, other) == score > other
Consider(t, picked, a) ==
  LET score == Score(t, a)
      places == {i \in DOMAIN picked.ranking : Beats(score, picked.ranking[i].score)}
      place == CHOOSE i \in places : \A j \in places : i <= j
  IN IF places = {}
     THEN [picked EXCEPT !.repaid = @ + StakeOf(t, a)]
     ELSE [ranking |-> Front(InsertAt(picked.ranking, place, [agent |-> a, score |-> score])),
           repaid |-> picked.repaid + StakeOf(t, PushedOut(picked.ranking, place))]

Selection(t) ==
  LET bidders == taskBidders[t]
      picked[k \in 0 .. Len(bidders)] ==
        IF k = 0
        THEN [ranking |-> [i \in 1 .. consensusTasks[t].agentCount |-> EmptyPlace], repaid |-> 0]
        ELSE IF bids[t][bidders[k]].revealed THEN Consider(t, picked[k - 1], bidders[k])
        ELSE picked[k - 1]
  IN picked[Len(bidders)]

\* A place nobody took becomes a submission of address(0).  A price of zero
\* makes every call divide by zero.
ResolveAuction(t) ==
  LET selection == Selection(t)
  IN /\ consensusTasks[t].status \in {"Open", "BidReveal"}
     /\ now >= consensusTasks[t].revealDeadline
     /\ Cardinality(Revealed(t)) >= consensusTasks[t].agentCount
     /\ \A a \in Revealed(t) : bids[t][a].offer.price # 0
     /\ submissions' = [submissions EXCEPT ![t] =
          [i \in 1 .. consensusTasks[t].agentCount |->
             LET a == selection.ranking[i].agent
             IN [agent |-> a, offer |-> IF a = NoAgent THEN NoBid.offer ELSE bids[t][a].offer,
                 outputHash |-> {}, paid |-> FALSE]]]
     /\ balance' = balance - selection.repaid
     /\ ReleaseBidders(t)
     /\ SetStatus(t, "Executing")
     /\ UNCHANGED <<now, agentReputation, taskBidders, bids, protocolTreasury>>

-----------------------------------------------------------------------------
Delivered(t) == {i \in DOMAIN submissions[t] : submissions[t][i].outputHash # {}}

DeliverOutput(t, i, hash) ==
  /\ consensusTasks[t].status = "Executing" /\ now <= consensusTasks[t].deadline
  /\ i \in DOMAIN submissions[t] \ Delivered(t) /\ submissions[t][i].agent # NoAgent
  /\ submissions' = [submissions EXCEPT ![t][i].outputHash = {hash}]
  /\ SetStatus(t, IF Cardinality(Delivered(t)) + 1 = consensusTasks[t].agentCount
                  THEN "Delivered" ELSE "Executing")
  /\ UNCHANGED <<now, agentReputation, taskBidders, bids, agentActiveBids, protocolTreasury,
                 balance>>

Matching(t, hash) == {i \in DOMAIN submissions[t] : submissions[t][i].outputHash = {hash}}
Majorities(t) == {h \in Outputs : 2 * Cardinality(Matching(t, h)) > consensusTasks[t].agentCount}

\* Paying the agents that agree more than the bounty makes the call revert.
SettleWithConsensus(t, hash) ==
  LET price(i) == submissions[t][i].offer.price
      stake(i) == submissions[t][i].offer.stake
      matching == Matching(t, hash)
      dissenting == DOMAIN submissions[t] \ matching
      fees == Sum(matching, LAMBDA i : Share(price(i), ProtocolFeeBps))
      slashed(i) == Share(stake(i), SlashMinorBps)
      toProtocol(i) == Share(slashed(i), SlashRevenueBps)
      totalPaid == Sum(matching, price)
      posterReturn == consensusTasks[t].totalBounty - totalPaid
                        + Sum(dissenting, LAMBDA i : slashed(i) - toProtocol(i))
  IN /\ totalPaid <= consensusTasks[t].totalBounty
     /\ protocolTreasury' = protocolTreasury + fees + Sum(dissenting, toProtocol)
     /\ balance' = balance - posterReturn - (totalPaid - fees) - Sum(matching, stake)
                           - Sum(dissenting, LAMBDA i : stake(i) - slashed(i))
     /\ submissions' = [submissions EXCEPT ![t] =
          [i \in DOMAIN submissions[t] |-> [submissions[t][i] EXCEPT !.paid = TRUE]]]
     /\ SetStatus(t, "Consensus")
     /\ UNCHANGED <<now, agentReputation, taskBidders, bids, agentActiveBids>>

\* Without a majority all funds stay: nothing leaves NoConsensus.
FinalizeConsensus(t) ==
  /\ consensusTasks[t].status = "Delivered"
  /\ \/ \E hash \in Majorities(t) : SettleWithConsensus(t, hash)
     \/ /\ Majorities(t) = {}
        /\ SetStatus(t, "NoConsensus")
        /\ UNCHANGED <<now, agentReputation, taskBidders, bids, submissions, agentActiveBids,
                       protocolTreasury, balance>>

WithdrawProtocolFees ==
  /\ protocolTreasury > 0
  /\ balance' = balance - protocolTreasury
  /\ protocolTreasury' = 0
  /\ UNCHANGED <<now, agentReputation, consensusTasks, taskBidders, bids, submissions,
                 agentActiveBids>>

Tick ==
  /\ now < MaxTime
  /\ now' = now + 1
  /\ UNCHANGED <<agentReputation, consensusTasks, taskBidders, bids, submissions,
                 agentActiveBids, protocolTreasury, balance>>

-----------------------------------------------------------------------------
Init ==
  /\ now = 1
  /\ agentReputation \in [Agents -> Reputations]
  /\ consensusTasks = <<>> /\ taskBidders = <<>> /\ bids = <<>> /\ submissions = <<>>
  /\ agentActiveBids = [a \in Agents |-> 0]
  /\ protocolTreasury = 0
  /\ balance = 0

TaskStep(t) ==
  \/ CancelConsensusTask(t)
  \/ \E a \in Agents, offer \in Offers : SubmitBid(t, a, offer)
  \/ \E a \in Agents : RevealBid(t, a)
  \/ ResolveAuction(t)
  \/ \E i \in DOMAIN submissions[t], hash \in Outputs : DeliverOutput(t, i, hash)
  \/ FinalizeConsensus(t)

Next ==
  \/ Tick
  \/ \E terms \in Terms : CreateConsensusTask(terms)
  \/ \E t \in Tasks : TaskStep(t)
  \/ WithdrawProtocolFees

Spec == Init /\ [][Next]_vars

-----------------------------------------------------------------------------
Status == {"Open", "BidReveal", "Executing", "Delivered", "Consensus", "NoConsensus", "Cancelled"}

TypeOK ==
  /\ now \in 1 .. MaxTime
  /\ agentReputation \in [Agents -> Reputations]
  /\ consensusTasks \in Seq([totalBounty : Nat, agentCount : AgentCounts, deadline : Nat,
       bidDeadline : Nat, revealDeadline : Nat, status : Status])
  /\ taskBidders \in Seq(Seq(Agents))
  /\ bids \in Seq([Agents -> [committed : BOOLEAN, revealed : BOOLEAN,
                              offer : [stake : Nat, price : Nat]]])
  /\ submissions \in Seq(Seq([agent : Agents \cup {NoAgent}, offer : [stake : Nat, price : Nat],
                              outputHash : SUBSET Outputs, paid : BOOLEAN]))
  /\ agentActiveBids \in [Agents -> Nat]
  /\ protocolTreasury \in Nat /\ balance \in Nat

\* What the contract still owes for t: the bounty and the stakes it took in and
\* has not returned, slashed or paid out.
Owed(t) ==
  CASE consensusTasks[t].status \in {"Open", "BidReveal"} ->
         consensusTasks[t].totalBounty + Sum(Revealed(t), LAMBDA a : bids[t][a].offer.stake)
    [] consensusTasks[t].status \in {"Executing", "Delivered", "NoConsensus"} ->
         consensusTasks[t].totalBounty
           + Sum(DOMAIN submissions[t], LAMBDA i : submissions[t][i].offer.stake)
    [] OTHER -> 0

\* The contract holds the treasury and what it owes for each task, to the last
\* unit: no loser of an auction is refunded twice or not at all, and no task is
\* paid out of another one's money (hazard: the pass over the bidders refunds as
\* it goes, before it knows who wins).
FundsExact == balance = protocolTreasury + Sum(Tasks, Owed)
=============================================================================
