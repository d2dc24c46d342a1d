---------------------------- MODULE ArenaContinuous ----------------------------
(***************************************************************************)
(* Contracts paid by checkpoint (ArenaContinuous): a sealed-bid auction,   *)
(* then one checkpoint after the other, each with a panel of its own, and  *)
(* the checkpoint disputes of ArenaArbitration, which correct a checkpoint *)
(* afterwards.  The contract keeps its own escrow and only reads           *)
(* reputation and bans from the core.                                      *)
(*                                                                         *)
(* A transaction is atomic.  One poster and one token; a commitment is the *)
(* offer itself.  Pausing only refuses calls, so that every state is       *)
(* reached without it.  What is left out: counters nobody reads, and the   *)
(* statistics that ban a verifier, at its seventh vote at the earliest.    *)
(***************************************************************************)
EXTENDS Integers, FiniteSetsExt, Functions

CONSTANTS
  Contracts,             \* contract ids
  Agents, NoAgent, Verifiers,
  Terms,                 \* what createContinuousContract may be called with
  Offers,                \* the [stake, price] pairs an agent may commit to
  Reputations,
  VerifierStakes,
  Reserve,               \* tokens of other contracts in the same account
  MaxIndex,              \* bound: the last checkpoint index in use
  MaxTime,               \* bound: the last block timestamp
  MaxDisputes,           \* bound: checkpoint disputes per contract
  MinContinuousBounty, MaxPosterActive, MaxActiveContinuous,
  GracePeriod, VerifierCooldown, SlashCooldown, ScoreScale

VARIABLES
  now,
  contracts,               \* contracts[c]: contract, assignment, escrow and bond
  bids,                    \* bids[c][a]
  best,                    \* best[c]: the leading bid so far
  checkpoints,             \* checkpoints[c][i]
  panels,                  \* panels[c][i][v]: the verifications of a checkpoint
  lastVerified,            \* lastVerified[v][a]
  posterActiveContracts, agentActiveContinuous, agentActiveStake, agentSlashCooldownEnd,
  protocolTreasury,
  balance,
  checkpointDispute,       \* checkpointDispute[c][i] of ArenaArbitration
  credited                 \* history: what corrections credited without tokens

vars == <<now, contracts, bids, best, checkpoints, panels, lastVerified, posterActiveContracts,
          agentActiveContinuous, agentActiveStake, agentSlashCooldownEnd, protocolTreasury,
          balance, checkpointDispute, credited>>
auctionVars == <<bids, best>>
workVars == <<checkpoints, panels, lastVerified>>
disputeVars == <<checkpointDispute, credited>>

BPS == 10000
ProtocolFeeBps == 250
VerifierFeeBps == 300
SlashRevenueBps == 1000
PassBonusBps == 500
FailSlashBps == 1500
MissSlashBps == 2500
StakeThresholdBps == 5000
CompletionBondBps == 1500
MinStakeRatio == 10
MaxVerifiers == 5
MaxBidders == 20

Share(amount, bps) == (amount * bps) \div BPS
\* Protocol revenue of a slash, computed from what was slashed off.
RevenueOf(stake, bps) == (stake * bps * SlashRevenueBps) \div (BPS * BPS)

Indices == 0 .. MaxIndex
Members == Agents \cup Verifiers
NoBid == [committed |-> FALSE, revealed |-> FALSE, late |-> FALSE, stake |-> 0, price |-> 0]
NoVote == [stake |-> 0, vote |-> "None"]
NoContract ==
  [status |-> "None", bounty |-> 0, interval |-> 0, required |-> 0, maxFailures |-> 0,
   total |-> 0, bidDeadline |-> 0, revealDeadline |-> 0, completed |-> 0, failed |-> 0,
   streak |-> 0, agent |-> NoAgent, stake |-> 0, currentStake |-> 0, startedAt |-> 0,
   escrow |-> 0, bond |-> 0]

PaymentPerCheckpoint(k) == k.bounty \div k.total
Revealed(c) == {a \in Agents : bids[c][a].revealed}
Panel(c, i) == {v \in Members : panels[c][i][v].vote # "None"}
Votes(panel, vote) == {v \in DOMAIN panel : panel[v].vote = vote}
SumOver(S, f(_)) == SumFunctionOnSet([x \in S |-> f(x)], S)

-----------------------------------------------------------------------------
(* The auction.                                                            *)

CreateContinuousContract(c, terms) ==
  /\ contracts[c].status = "None"
  /\ terms.bounty > 0 /\ terms.bounty >= MinContinuousBounty
  /\ posterActiveContracts < MaxPosterActive
  /\ terms.required \in 1 .. MaxVerifiers
  /\ terms.total >= 2 /\ terms.maxFailures \in 1 .. terms.total
  /\ contracts' = [contracts EXCEPT ![c] =
       [NoContract EXCEPT !.status = "Open", !.bounty = terms.bounty, !.escrow = terms.bounty,
          !.interval = terms.interval, !.required = terms.required, !.total = terms.total,
          !.maxFailures = terms.maxFailures, !.bidDeadline = now + 1,
          !.revealDeadline = now + 2]]
  /\ posterActiveContracts' = posterActiveContracts + 1
  /\ balance' = balance + terms.bounty
  /\ UNCHANGED <<now, auctionVars, workVars, agentActiveContinuous, agentActiveStake,
                 agentSlashCooldownEnd, protocolTreasury, disputeVars>>

Refund(c, losers) ==
  /\ agentActiveStake' = [m \in Members |->
       agentActiveStake[m] - IF m \in losers THEN bids[c][m].stake ELSE 0]
  /\ \A a \in losers : agentActiveStake[a] >= bids[c][a].stake

InAuction(c) == contracts[c].status \in {"Open", "BidReveal"}

CancelContinuousContract(c) ==
  /\ InAuction(c)
  /\ contracts' = [contracts EXCEPT ![c].status = "Terminated", ![c].escrow = 0]
  /\ posterActiveContracts' = posterActiveContracts - 1
  /\ Refund(c, Revealed(c))
  /\ balance' = balance - contracts[c].escrow - SumOver(Revealed(c), LAMBDA a : bids[c][a].stake)
  /\ UNCHANGED <<now, auctionVars, workVars, agentActiveContinuous, agentSlashCooldownEnd,
                 protocolTreasury, disputeVars>>

CommitContinuousBid(c, a, offer) ==
  /\ contracts[c].status = "Open" /\ now < contracts[c].bidDeadline
  /\ ~bids[c][a].committed
  /\ Cardinality({b \in Agents : bids[c][b].committed}) < MaxBidders
  /\ agentActiveContinuous[a] < MaxActiveContinuous
  /\ now >= agentSlashCooldownEnd[a]
  /\ bids' = [bids EXCEPT ![c][a] =
       [NoBid EXCEPT !.committed = TRUE, !.stake = offer.stake, !.price = offer.price]]
  /\ UNCHANGED <<now, contracts, best, workVars, posterActiveContracts, agentActiveContinuous,
                 agentActiveStake, agentSlashCooldownEnd, protocolTreasury, balance, disputeVars>>

\* The status is not looked at but to leave Open: a bid may be revealed on a
\* contract that was cancelled in between.
RevealContinuousBid(c, a, reputation) ==
  LET bid == bids[c][a]
      score == (bid.stake * (reputation + 1) * ScoreScale) \div bid.price
  IN /\ contracts[c].status # "None"
     /\ now >= contracts[c].bidDeadline /\ now < contracts[c].revealDeadline
     /\ bid.committed /\ ~bid.revealed
     /\ bid.stake >= contracts[c].bounty \div MinStakeRatio
     /\ bid.price \in 1 .. contracts[c].bounty
     /\ contracts' = [contracts EXCEPT ![c].status = IF @ = "Open" THEN "BidReveal" ELSE @]
     /\ bids' = [bids EXCEPT ![c][a].revealed = TRUE, ![c][a].late = ~InAuction(c)]
     /\ best' = IF score > best[c].score
                THEN [best EXCEPT ![c] = [agent |-> a, score |-> score]] ELSE best
     /\ agentActiveStake' = [agentActiveStake EXCEPT ![a] = @ + bid.stake]
     /\ balance' = balance + bid.stake
     /\ UNCHANGED <<now, workVars, posterActiveContracts, agentActiveContinuous,
                    agentSlashCooldownEnd, protocolTreasury, disputeVars>>

ResolveContinuousAuction(c) ==
  LET winner == best[c].agent
      losers == Revealed(c) \ {winner}
  IN /\ InAuction(c) /\ now >= contracts[c].revealDeadline
     /\ winner # NoAgent
     /\ contracts' = [contracts EXCEPT ![c].status = "Active", ![c].agent = winner,
          ![c].stake = bids[c][winner].stake, ![c].currentStake = bids[c][winner].stake,
          ![c].startedAt = now]
     /\ agentActiveContinuous' = [agentActiveContinuous EXCEPT ![winner] = @ + 1]
     /\ Refund(c, losers)
     /\ balance' = balance - SumOver(losers, LAMBDA a : bids[c][a].stake)
     /\ UNCHANGED <<now, auctionVars, workVars, posterActiveContracts, agentSlashCooldownEnd,
                    protocolTreasury, disputeVars>>

-----------------------------------------------------------------------------
(* A call that judges a checkpoint keeps books: the contract k, the tokens *)
(* that leave, the fees that stay, the agent's stake that goes home.       *)

Books(k) == [k |-> k, out |-> 0, fees |-> 0, home |-> 0]

\* _terminateContinuousContract and _settleContinuousContract pay the same sums;
\* the bond is the agent's when the last checkpoint passed, else the poster's.
BugClose(b, status) ==
  [b EXCEPT !.out = @ + b.k.escrow + b.k.bond + b.k.currentStake, !.home = b.k.currentStake,
            !.k.status = status, !.k.escrow = 0, !.k.currentStake = 0]
Close(b, status) ==
  [b EXCEPT !.out = @ + b.k.escrow + b.k.bond + b.k.currentStake, !.home = b.k.currentStake,
            !.k.status = status, !.k.escrow = 0, !.k.bond = 0, !.k.currentStake = 0]

CheckTermination(b) ==
  IF \/ b.k.failed >= b.k.maxFailures
     \/ b.k.currentStake < Share(b.k.stake, StakeThresholdBps)
  THEN Close(b, "Terminated") ELSE b

\* The slash leaves to the poster but for the revenue.
Slash(b, bps) ==
  LET slash == Share(b.k.currentStake, bps)
      revenue == RevenueOf(b.k.currentStake, bps)
  IN [b EXCEPT !.k.currentStake = @ - slash, !.out = @ + slash - revenue, !.fees = @ + revenue]

\* A minority verifier's stake: all of it goes to the poster, or half.
SlashVerifiers(b, panel, losers, half) ==
  LET lost(v) == IF half THEN panel[v].stake \div 2 ELSE panel[v].stake
      revenue(v) == IF half THEN (panel[v].stake * SlashRevenueBps) \div (2 * BPS)
                    ELSE Share(panel[v].stake, SlashRevenueBps)
      all == SumOver(DOMAIN panel, LAMBDA v : panel[v].stake)
      kept == SumOver(losers, revenue)
  IN [b EXCEPT !.out = @ + all - kept, !.fees = @ + kept]

FeePerVerifier(k) == Share(PaymentPerCheckpoint(k), VerifierFeeBps) \div k.required

Bonus(k) == IF k.streak >= 1 THEN Share(PaymentPerCheckpoint(k), PassBonusBps) ELSE 0

\* What the agent is paid, when escrow cannot carry the bonus: what escrow has
\* left after the fees.  A negative payment makes the call revert.
FromEscrow(k) == Min({PaymentPerCheckpoint(k) + Bonus(k), k.escrow})
AgentPayout(k) ==
  FromEscrow(k) - Share(PaymentPerCheckpoint(k), ProtocolFeeBps) - FeePerVerifier(k) * k.required

EvaluatePass(k, panel) ==
  LET approving == Votes(panel, "Approved")
      withheld == Share(AgentPayout(k), CompletionBondBps)
      paid == [Books(k) EXCEPT
        !.k.escrow = @ - FromEscrow(k), !.k.bond = @ + withheld,
        !.k.completed = @ + 1, !.k.streak = @ + 1,
        !.out = AgentPayout(k) - withheld + Cardinality(approving) * FeePerVerifier(k),
        !.fees = Share(PaymentPerCheckpoint(k), ProtocolFeeBps)]
      judged == SlashVerifiers(paid, panel, Votes(panel, "Rejected"), TRUE)
  IN IF judged.k.completed = k.total THEN Close(judged, "Completed") ELSE judged

Failed(b) == [b EXCEPT !.k.failed = @ + 1, !.k.completed = @ + 1, !.k.streak = 0]

EvaluateFail(k, panel) ==
  LET judged == Failed(SlashVerifiers(Slash(Books(k), FailSlashBps), panel,
                                      Votes(panel, "Approved"), FALSE))
  IN IF judged.k.completed = k.total THEN Close(judged, "Completed") ELSE CheckTermination(judged)

\* Unlike a failure, a missed last checkpoint does not complete the contract.
Miss(k) == CheckTermination(Failed(Slash(Books(k), MissSlashBps)))

\* The tokens have to be there; posters and agents count contracts and stakes.
\* A slashed stake stays in agentActiveStake.
Enter(c, b, stakeOf) ==
  LET k == contracts[c]
      ended == k.status = "Active" /\ b.k.status # "Active"
  IN /\ balance >= b.out
     /\ contracts' = [contracts EXCEPT ![c] = b.k]
     /\ balance' = balance - b.out
     /\ protocolTreasury' = protocolTreasury + b.fees
     /\ agentActiveStake' = [m \in Members |->
          agentActiveStake[m] - stakeOf[m] - IF m = k.agent THEN b.home ELSE 0]
     /\ \A m \in Members : agentActiveStake'[m] >= 0
     /\ posterActiveContracts' = posterActiveContracts - IF ended THEN 1 ELSE 0
     /\ agentActiveContinuous' = IF ended THEN [agentActiveContinuous EXCEPT ![k.agent] = @ - 1]
                                 ELSE agentActiveContinuous
     /\ agentSlashCooldownEnd' =
          IF ended /\ b.k.status = "Terminated" /\ b.k.failed >= 2
          THEN [agentSlashCooldownEnd EXCEPT ![k.agent] = now + SlashCooldown]
          ELSE agentSlashCooldownEnd

-----------------------------------------------------------------------------
(* The checkpoints: the next one is the number completed so far, and may   *)
(* be one beyond the last.                                                 *)

DueBy(c) == contracts[c].startedAt + (contracts[c].completed + 1) * contracts[c].interval
Current(c) == contracts[c].completed
Pending(c) == /\ contracts[c].status = "Active"
              /\ Current(c) \in Indices /\ checkpoints[c][Current(c)].status = "Pending"

SubmitCheckpoint(c) ==
  /\ Pending(c) /\ now <= DueBy(c) + GracePeriod
  /\ checkpoints' = [checkpoints EXCEPT ![c][Current(c)].status = "Submitted"]
  /\ UNCHANGED <<now, contracts, auctionVars, panels, lastVerified, posterActiveContracts,
                 agentActiveContinuous, agentActiveStake, agentSlashCooldownEnd,
                 protocolTreasury, balance, disputeVars>>

MarkCheckpointMissed(c) ==
  /\ Pending(c) /\ now > DueBy(c) + GracePeriod
  /\ checkpoints' = [checkpoints EXCEPT ![c][Current(c)] =
       [status |-> "Missed", slash |-> Share(contracts[c].currentStake, MissSlashBps)]]
  /\ Enter(c, Miss(contracts[c]), [m \in Members |-> 0])
  /\ UNCHANGED <<now, auctionVars, panels, lastVerified, disputeVars>>

RegisterCheckpointVerifier(c, i, v, stake) ==
  LET k == contracts[c]
      last == lastVerified[v][k.agent]
  IN /\ k.status = "Active" /\ checkpoints[c][i].status \in {"Submitted", "Verifying"}
     /\ v # k.agent /\ v \notin Panel(c, i)
     /\ Cardinality(Panel(c, i)) < k.required
     /\ last > 0 => now >= last + VerifierCooldown
     /\ stake >= Max({k.currentStake \div 5, 1})
     /\ panels' = [panels EXCEPT ![c][i][v] = [stake |-> stake, vote |-> "Pending"]]
     /\ checkpoints' = [checkpoints EXCEPT ![c][i].status = "Verifying"]
     /\ lastVerified' = [lastVerified EXCEPT ![v][k.agent] = now]
     /\ agentActiveStake' = [agentActiveStake EXCEPT ![v] = @ + stake]
     /\ balance' = balance + stake
     /\ UNCHANGED <<now, contracts, auctionVars, posterActiveContracts, agentActiveContinuous,
                    agentSlashCooldownEnd, protocolTreasury, disputeVars>>

Open(panel) == Votes(panel, "Pending") # {}
Approves(panel) == Cardinality(Votes(panel, "Approved")) > Cardinality(Votes(panel, "Rejected"))

\* The last vote of a panel that is not full reverts.
SubmitCheckpointVerification(c, i, v, vote) ==
  LET k == contracts[c]
      panel == [panels[c][i] EXCEPT ![v].vote = vote]
      stakeOf == [m \in Members |-> panel[m].stake]
  IN /\ k.status = "Active" /\ checkpoints[c][i].status = "Verifying"
     /\ panels[c][i][v].vote = "Pending"
     /\ panels' = [panels EXCEPT ![c][i] = panel]
     /\ \/ /\ Open(panel)
           /\ UNCHANGED <<contracts, checkpoints, posterActiveContracts, agentActiveContinuous,
                          agentActiveStake, agentSlashCooldownEnd, protocolTreasury, balance>>
        \/ /\ ~Open(panel) /\ Cardinality(Panel(c, i)) = k.required
           /\ Approves(panel) /\ AgentPayout(k) >= 0
           /\ checkpoints' = [checkpoints EXCEPT ![c][i].status = "Passed"]
           /\ Enter(c, EvaluatePass(k, panel), stakeOf)
        \/ /\ ~Open(panel) /\ Cardinality(Panel(c, i)) = k.required
           /\ ~Approves(panel)
           /\ checkpoints' = [checkpoints EXCEPT ![c][i] =
                [status |-> "Failed", slash |-> Share(k.currentStake, FailSlashBps)]]
           /\ Enter(c, EvaluateFail(k, panel), stakeOf)
     /\ UNCHANGED <<now, auctionVars, lastVerified, disputeVars>>

-----------------------------------------------------------------------------
(* Checkpoint disputes.                                                    *)

\* ArenaArbitration decodes the contract with an interface of fewer fields: the
\* word it takes for the status is maxFailures, whatever the status.
StatusWord(c) == contracts[c].maxFailures
ActiveWord == 2

RaiseCheckpointDispute(c, i) ==
  /\ StatusWord(c) = ActiveWord
  /\ checkpointDispute[c][i] = "None"
  /\ Cardinality({j \in Indices : checkpointDispute[c][j] # "None"}) < MaxDisputes
  /\ checkpointDispute' = [checkpointDispute EXCEPT ![c][i] = "Raised"]
  /\ UNCHANGED <<now, contracts, auctionVars, workVars, posterActiveContracts,
                 agentActiveContinuous, agentActiveStake, agentSlashCooldownEnd,
                 protocolTreasury, balance, credited>>

\* The agent was right: the slash is credited, and the checkpoint is paid from
\* what escrow is left.
CorrectToPassed(c, i) ==
  LET k == contracts[c]
      fee == Share(PaymentPerCheckpoint(k), ProtocolFeeBps)
      payout == Min({PaymentPerCheckpoint(k) - fee, k.escrow})
      taken == Min({payout + fee, k.escrow})
      withheld == Share(payout, CompletionBondBps)
      slash == checkpoints[c][i].slash
      b == [Books(k) EXCEPT
              !.k.currentStake = @ + slash, !.k.escrow = @ - taken, !.k.bond = @ + withheld,
              !.k.failed = @ - 1, !.out = payout - withheld, !.fees = fee]
  IN /\ checkpoints[c][i].status = "Failed"
     /\ checkpoints' = [checkpoints EXCEPT ![c][i] = [status |-> "Passed", slash |-> 0]]
     /\ credited' = credited + slash + payout + fee - taken
     /\ Enter(c, b, [m \in Members |-> 0])

\* The poster was right: the agent is slashed and keeps its payment.
CorrectToFailed(c, i) ==
  LET k == contracts[c]
      slash == Share(k.currentStake, FailSlashBps)
      revenue == Share(slash, SlashRevenueBps)
      b == [Books(k) EXCEPT !.k.currentStake = @ - slash, !.k.failed = @ + 1, !.k.streak = 0,
                            !.out = slash - revenue, !.fees = revenue]
  IN /\ checkpoints[c][i].status = "Passed"
     /\ checkpoints' = [checkpoints EXCEPT ![c][i] = [status |-> "Failed", slash |-> slash]]
     /\ Enter(c, IF k.status = "Active" THEN CheckTermination(b) ELSE b, [m \in Members |-> 0])
     /\ UNCHANGED credited

\* When the contract completed meanwhile, arbitration can never settle.
ResolveCheckpointDispute(c, i, inFavorOfAgent) ==
  /\ checkpointDispute[c][i] = "Raised"
  /\ contracts[c].status \in {"Active", "Terminated"}
  /\ checkpoints[c][i].status \in {"Passed", "Failed"}
  /\ \/ inFavorOfAgent /\ CorrectToPassed(c, i)
     \/ ~inFavorOfAgent /\ CorrectToFailed(c, i)
     \/ /\ inFavorOfAgent <=> checkpoints[c][i].status = "Passed"
        /\ UNCHANGED <<contracts, checkpoints, posterActiveContracts, agentActiveContinuous,
                       agentActiveStake, agentSlashCooldownEnd, protocolTreasury, balance,
                       credited>>
  /\ checkpointDispute' = [checkpointDispute EXCEPT ![c][i] = "Resolved"]
  /\ UNCHANGED <<now, auctionVars, panels, lastVerified>>

WithdrawProtocolFees ==
  /\ protocolTreasury > 0 /\ balance >= protocolTreasury
  /\ balance' = balance - protocolTreasury
  /\ protocolTreasury' = 0
  /\ UNCHANGED <<now, contracts, auctionVars, workVars, posterActiveContracts,
                 agentActiveContinuous, agentActiveStake, agentSlashCooldownEnd, disputeVars>>

Tick ==
  /\ now < MaxTime
  /\ now' = now + 1
  /\ UNCHANGED <<contracts, auctionVars, workVars, posterActiveContracts, agentActiveContinuous,
                 agentActiveStake, agentSlashCooldownEnd, protocolTreasury, balance, disputeVars>>

-----------------------------------------------------------------------------
Init ==
  /\ now = 1
  /\ contracts = [c \in Contracts |-> NoContract]
  /\ bids = [c \in Contracts |-> [a \in Agents |-> NoBid]]
  /\ best = [c \in Contracts |-> [agent |-> NoAgent, score |-> 0]]
  /\ checkpoints = [c \in Contracts |-> [i \in Indices |-> [status |-> "Pending", slash |-> 0]]]
  /\ panels = [c \in Contracts |-> [i \in Indices |-> [m \in Members |-> NoVote]]]
  /\ lastVerified = [v \in Verifiers |-> [a \in Agents |-> 0]]
  /\ posterActiveContracts = 0
  /\ agentActiveContinuous = [a \in Agents |-> 0]
  /\ agentActiveStake = [m \in Members |-> 0]
  /\ agentSlashCooldownEnd = [a \in Agents |-> 0]
  /\ protocolTreasury = 0
  /\ balance = Reserve
  /\ checkpointDispute = [c \in Contracts |-> [i \in Indices |-> "None"]]
  /\ credited = 0

CheckpointStep(c, i) ==
  \/ \E v \in Verifiers, stake \in VerifierStakes : RegisterCheckpointVerifier(c, i, v, stake)
  \/ \E v \in Verifiers, vote \in {"Approved", "Rejected"} :
       SubmitCheckpointVerification(c, i, v, vote)
  \/ RaiseCheckpointDispute(c, i)
  \/ \E inFavor \in BOOLEAN : ResolveCheckpointDispute(c, i, inFavor)

ContractStep(c) ==
  \/ \E terms \in Terms : CreateContinuousContract(c, terms)
  \/ CancelContinuousContract(c)
  \/ \E a \in Agents, offer \in Offers : CommitContinuousBid(c, a, offer)
  \/ \E a \in Agents, reputation \in Reputations : RevealContinuousBid(c, a, reputation)
  \/ ResolveContinuousAuction(c)
  \/ SubmitCheckpoint(c) \/ MarkCheckpointMissed(c)
  \/ \E i \in Indices : CheckpointStep(c, i)

Next == Tick \/ WithdrawProtocolFees \/ \E c \in Contracts : ContractStep(c)

Spec == Init /\ [][Next]_vars

-----------------------------------------------------------------------------
\* What the contract holds for m: revealed stakes of an open auction or a
\* cancelled one, the stake it worked under, the stakes of open panels.
Held(c, m) ==
  LET bid == IF m \in Agents THEN bids[c][m] ELSE NoBid
  IN (IF bid.revealed /\ (InAuction(c) \/ bid.late) THEN bid.stake ELSE 0)
   + (IF contracts[c].agent = m THEN contracts[c].currentStake ELSE 0)
   + SumOver({i \in Indices : checkpoints[c][i].status = "Verifying"},
             LAMBDA i : panels[c][i][m].stake)

\* Fee shares of verifiers that rejected what the panel passed: nobody gets them.
Unpaid(c) ==
  LET passed == {i \in Indices : Panel(c, i) # {} /\ ~Open(panels[c][i]) /\ Approves(panels[c][i])}
  IN SumOver(passed, LAMBDA i :
       Cardinality(Votes(panels[c][i], "Rejected")) * FeePerVerifier(contracts[c]))

Owed(c) == contracts[c].escrow + contracts[c].bond + Unpaid(c)
             + SumOver(Members, LAMBDA m : Held(c, m))

\* Beside the tokens of other contracts the account holds what it owes, to the
\* last unit, through bonuses, bonds, slashes, early ends and checkpoints beyond
\* the last; only a correction of a failed checkpoint owes what was sent away
\* (hazard: it credits the slashed stake again and charges its fee to an escrow
\* that may be empty).  The counter of stakes covers them: no call reverts
\* half-way.
CheckpointFundsExact ==
  /\ balance + credited = Reserve + protocolTreasury + SumOver(Contracts, Owed)
  /\ \A m \in Members : agentActiveStake[m] >= SumOver(Contracts, LAMBDA c : Held(c, m))
=============================================================================
