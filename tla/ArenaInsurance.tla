---------------------------- MODULE ArenaInsurance ----------------------------
(***************************************************************************)
(* The insurance market: offers with locked capital, policies, claims and  *)
(* settlements (ArenaInsurance), running beside the core.  The core takes  *)
(* the steps of TaskLifecycle; the insurance only reads it.  The agent's   *)
(* counters, which tasks outside the instance move too, are an input of    *)
(* the offer.                                                              *)
(***************************************************************************)
EXTENDS TaskLifecycle, Sequences, Functions

CONSTANTS
  Poster,            \* posts every task of the instance
  Insurers,          \* addresses that offer cover; may hold agents and the poster
  Tokens,
  TokenOf,           \* TokenOf[t]: the token t was posted in
  DefaultToken,
  Coverages,         \* the coverage rates offered, in basis points
  Premiums,          \* the premium rates offered
  Histories,         \* <<completed, failed>> counters an agent may have
  MaxOffers          \* bound: offers ever made

ASSUME InsuranceAssumption ==
  /\ NoAgent \notin Insurers
  /\ Tasks \subseteq Nat
  /\ TokenOf \in [Tasks -> Tokens] /\ DefaultToken \in Tokens
  /\ Coverages \subseteq Nat /\ Premiums \subseteq Nat
  /\ Histories \subseteq Nat \X Nat
  /\ MaxOffers \in Nat

VARIABLES
  insuranceOffers,        \* by offer id, from 1
  insurancePolicies,      \* the policy of each task, "None" when there is none
  insurerLockedCapital,
  insurerActivePolicies,
  protocolTreasury,
  balance                 \* balance[token]: what the contract holds

insuranceVars == <<insuranceOffers, insurancePolicies, insurerLockedCapital,
                   insurerActivePolicies, protocolTreasury, balance>>
allVars == <<lifecycleVars, insuranceVars>>

BPS == 10000
MaxCoverageBps == 9000
MinPremiumBps == 50
DefaultSlashRate == 500
MinHistory == 5
ProtocolFeeBps == 100

NoPolicy == [insurer |-> NoAgent, insured |-> NoAgent, coverageBps |-> 0, maxCoverage |-> 0,
             claimedAmount |-> 0, status |-> "None"]

Accounts == Insurers \cup {NoAgent}

HigherOf(a, b) == IF a >= b THEN a ELSE b
LowerOf(a, b) == IF a <= b THEN a ELSE b

CalculatePremium(completed, failed) ==
  LET total == completed + failed
  IN HigherOf(IF total < MinHistory THEN DefaultSlashRate ELSE (failed * BPS) \div total,
              MinPremiumBps)

\* stake * coverageBps * premiumBps / BPS^2 without leaving 32 bits
PremiumOf(stake, coverageBps, premiumBps) ==
  LET cover == stake * coverageBps
  IN ((cover \div BPS) * premiumBps + ((cover % BPS) * premiumBps) \div BPS) \div BPS

OfferIds == DOMAIN insuranceOffers
\* Ids start at 1.  The mapping answers an id that was never written with the
\* zero record, whose status 0 is Open and whose task is task 0.
UnwrittenOffer == [insurer |-> NoAgent, taskId |-> 0, coverageBps |-> 0, maxCoverage |-> 0,
                   premium |-> 0, status |-> "Open"]
Offer(id) == IF id \in OfferIds THEN insuranceOffers[id] ELSE UnwrittenOffer
OpenOffers(t) == {id \in OfferIds : insuranceOffers[id].taskId = t /\ insuranceOffers[id].status = "Open"}

Receive(token, amount) == balance' = [balance EXCEPT ![token] = @ + amount]
Pay(token, amount) ==
  /\ balance[token] >= amount
  /\ balance' = [balance EXCEPT ![token] = @ - amount]

-----------------------------------------------------------------------------
BugHasNoPolicy(t) == TRUE
HasNoPolicy(t) == insurancePolicies[t].status = "None"

OfferInsurance(insurer, t, coverageBps, premiumBps, history) ==
  LET maxCoverage == Share(life[t].stake, coverageBps)
      premium == PremiumOf(life[t].stake, coverageBps, premiumBps)
  IN /\ Len(insuranceOffers) < MaxOffers
     /\ life[t].phase = "Assigned"
     /\ insurer \notin {Poster, life[t].agent}
     /\ coverageBps > 0 /\ coverageBps <= MaxCoverageBps
     /\ HasNoPolicy(t)
     /\ premiumBps >= CalculatePremium(history[1], history[2])
     /\ maxCoverage > 0 /\ premium > 0
     /\ insuranceOffers' = Append(insuranceOffers,
          [insurer |-> insurer, taskId |-> t, coverageBps |-> coverageBps,
           maxCoverage |-> maxCoverage, premium |-> premium, status |-> "Open"])
     /\ insurerLockedCapital' = [insurerLockedCapital EXCEPT ![insurer] = @ + maxCoverage]
     /\ Receive(TokenOf[t], maxCoverage)
     /\ UNCHANGED <<insurancePolicies, insurerActivePolicies, protocolTreasury>>

\* Any time while the offer is open, whatever became of the task.
CancelInsuranceOffer(id) ==
  LET offer == insuranceOffers[id]
  IN /\ offer.status = "Open"
     /\ insuranceOffers' = [insuranceOffers EXCEPT ![id].status = "Cancelled"]
     /\ insurerLockedCapital' = [insurerLockedCapital EXCEPT ![offer.insurer] = @ - offer.maxCoverage]
     /\ Pay(TokenOf[offer.taskId], offer.maxCoverage)
     /\ UNCHANGED <<insurancePolicies, insurerActivePolicies, protocolTreasury>>

\* The open offers a purchase cancels: all but the one bought.
OtherOffers(t, id) == OpenOffers(t) \ {id}
BugLocked(ids, insurer) == 0
Locked(ids, insurer) ==
  SumFunctionOnSet([id \in OfferIds |-> insuranceOffers[id].maxCoverage],
                    {id \in ids : insuranceOffers[id].insurer = insurer})

BuyInsurance(t, id) ==
  LET offer == Offer(id)
      others == OtherOffers(t, id)
      refund == SumFunctionOnSet([o \in OfferIds |-> insuranceOffers[o].maxCoverage], others)
      protocolCut == Share(offer.premium, ProtocolFeeBps)
  IN /\ life[t].phase = "Assigned"
     /\ offer.status = "Open" /\ offer.taskId = t
     /\ HasNoPolicy(t)
     /\ protocolTreasury' = protocolTreasury + protocolCut
     /\ insurancePolicies' = [insurancePolicies EXCEPT ![t] =
          [insurer |-> offer.insurer, insured |-> life[t].agent,
           coverageBps |-> offer.coverageBps, maxCoverage |-> offer.maxCoverage,
           claimedAmount |-> 0, status |-> "Active"]]
     /\ insurerActivePolicies' = [insurerActivePolicies EXCEPT ![offer.insurer] = @ + 1]
     /\ insuranceOffers' = [o \in OfferIds |->
          [insuranceOffers[o] EXCEPT !.status =
             IF o = id THEN "Active" ELSE IF o \in others THEN "Cancelled" ELSE @]]
     /\ insurerLockedCapital' =
          [i \in Accounts |-> insurerLockedCapital[i] - Locked(others, i)]
     \* the refunds leave before the premium comes in; the insurer gets its part of it
     /\ balance[TokenOf[t]] >= refund
     /\ balance' = [balance EXCEPT ![TokenOf[t]] = @ - refund + protocolCut]

-----------------------------------------------------------------------------
\* A policy ends: the capital is unlocked, payout goes to the insured agent and
\* the rest back to the insurer.
Close(t, end, payout) ==
  LET policy == insurancePolicies[t]
  IN /\ policy.status = "Active"
     /\ insurancePolicies' = [insurancePolicies EXCEPT ![t].status = end,
                                                       ![t].claimedAmount = payout]
     /\ insurerLockedCapital' =
          [insurerLockedCapital EXCEPT ![policy.insurer] = @ - policy.maxCoverage]
     /\ insurerActivePolicies' = [insurerActivePolicies EXCEPT ![policy.insurer] = @ - 1]
     /\ Pay(TokenOf[t], policy.maxCoverage)
     /\ UNCHANGED <<insuranceOffers, protocolTreasury>>

BugPayout(t, slash) == insurancePolicies[t].maxCoverage
Payout(t, slash) ==
  LowerOf(Share(slash, insurancePolicies[t].coverageBps), insurancePolicies[t].maxCoverage)

Claimable(t) == life[t].phase = "Failed" /\ life[t].slashed > 0
ClaimInsurance(t) ==
  /\ Claimable(t)
  /\ Close(t, "Claimed", Payout(t, life[t].slashed))

ClaimableAfterPostSlash(t) ==
  life[t].phase = "Failed" /\ life[t].bond = 0 /\ life[t].bondSlashed > 0
ClaimInsuranceAfterPostSlash(t) ==
  /\ ClaimableAfterPostSlash(t)
  /\ Close(t, "Claimed", Payout(t, life[t].bondSlashed))

BugSettleable(t) == life[t].phase = "Completed"
Settleable(t) == life[t].phase = "Completed" /\ WindowOver(t)
SettleInsurance(t) ==
  /\ Settleable(t)
  /\ insurancePolicies[t].insurer # NoAgent     \* the token refuses address(0)
  /\ Close(t, "Settled", 0)

\* Whatever token the fees were taken in, they are paid in the default token.
WithdrawProtocolFees ==
  /\ protocolTreasury > 0
  /\ Pay(DefaultToken, protocolTreasury)
  /\ protocolTreasury' = 0
  /\ UNCHANGED <<insuranceOffers, insurancePolicies, insurerLockedCapital, insurerActivePolicies>>

-----------------------------------------------------------------------------
Init ==
  /\ LifecycleInit
  /\ insuranceOffers = <<>>
  /\ insurancePolicies = [t \in Tasks |-> NoPolicy]
  /\ insurerLockedCapital = [i \in Accounts |-> 0]
  /\ insurerActivePolicies = [i \in Accounts |-> 0]
  /\ protocolTreasury = 0
  /\ balance = [token \in Tokens |-> 0]

InsuranceNext ==
  \/ \E insurer \in Insurers, t \in Tasks, c \in Coverages, p \in Premiums, h \in Histories :
       OfferInsurance(insurer, t, c, p, h)
  \/ \E id \in OfferIds : CancelInsuranceOffer(id)
  \/ \E t \in Tasks, id \in OfferIds \cup {0} : BuyInsurance(t, id)
  \/ \E t \in Tasks : ClaimInsurance(t)
  \/ \E t \in Tasks : ClaimInsuranceAfterPostSlash(t)
  \/ \E t \in Tasks : SettleInsurance(t)
  \/ WithdrawProtocolFees

Next ==
  \/ LifecycleNext /\ UNCHANGED insuranceVars
  \/ InsuranceNext /\ UNCHANGED lifecycleVars

Spec == Init /\ [][Next]_allVars

-----------------------------------------------------------------------------
OfferType == [insurer : Insurers, taskId : Tasks, coverageBps : Nat, maxCoverage : Nat,
              premium : Nat, status : {"Open", "Active", "Cancelled"}]
PolicyType == [insurer : Insurers \cup {NoAgent}, insured : Agents \cup {NoAgent},
               coverageBps : Nat, maxCoverage : Nat, claimedAmount : Nat,
               status : {"None", "Active", "Claimed", "Settled"}]

\* No checked subtraction of the contract underflows.
TypeOK ==
  /\ LifecycleTypeOK
  /\ insuranceOffers \in Seq(OfferType)
  /\ insurancePolicies \in [Tasks -> PolicyType]
  /\ insurerLockedCapital \in [Accounts -> Nat]
  /\ insurerActivePolicies \in [Accounts -> Nat]
  /\ protocolTreasury \in Nat
  /\ balance \in [Tokens -> Nat]

Active == {t \in Tasks : insurancePolicies[t].status = "Active"}
Open == {id \in OfferIds : insuranceOffers[id].status = "Open"}
CapitalOf(t) == insurancePolicies[t].maxCoverage
Capital(offers, tasks) ==
    SumFunctionOnSet([id \in OfferIds |-> insuranceOffers[id].maxCoverage], offers)
  + SumFunctionOnSet([t \in Tasks |-> CapitalOf(t)], tasks)

\* An insurer's locked capital is exactly its open offers and active policies,
\* though offers are also closed by somebody else's purchase (hazard: the
\* refund loop of buyInsurance over the offers of other insurers), and with one
\* token the contract holds exactly that capital and the fees.
BooksExact ==
  /\ balance[DefaultToken] = Capital(Open, Active) + protocolTreasury
  /\ \A i \in Insurers :
       LET mine == {t \in Active : insurancePolicies[t].insurer = i}
       IN /\ insurerLockedCapital[i] =
               Capital({id \in Open : insuranceOffers[id].insurer = i}, mine)
          /\ insurerActivePolicies[i] = SumFunctionOnSet([t \in Tasks |-> 1], mine)

\* A task has at most one policy and, once it has one, no offer that could still
\* be bought; the policy is the one offer of the task that is Active, or the
\* empty policy of task 0 (hazard: an id never written reads as an open offer).
OnePolicy ==
  \A t \in Tasks :
    LET bought == {id \in OfferIds : insuranceOffers[id].taskId = t
                                     /\ insuranceOffers[id].status = "Active"}
    IN IF insurancePolicies[t].status = "None" THEN bought = {}
       ELSE /\ OpenOffers(t) = {}
            /\ \/ bought = {} /\ t = 0 /\ insurancePolicies[t].insurer = NoAgent
                  /\ insurancePolicies[t].maxCoverage = 0
               \/ \E id \in bought :
                    /\ bought = {id}
                    /\ insuranceOffers[id].insurer = insurancePolicies[t].insurer
                    /\ insuranceOffers[id].maxCoverage = insurancePolicies[t].maxCoverage

\* Insurance never makes a failure profitable: the agent is paid less than what
\* the core took from it, and only for a task that failed.
NoProfit ==
  \A t \in Tasks :
    LET policy == insurancePolicies[t]
        loss == life[t].slashed + life[t].bondSlashed
    IN policy.status = "Claimed" =>
         /\ life[t].phase = "Failed"
         /\ policy.claimedAmount <= loss
         /\ policy.maxCoverage > 0 => policy.claimedAmount < loss
         /\ policy.claimedAmount <= policy.maxCoverage

\* The insurer gets its capital back in full only when the core can slash the
\* agent no more: a settled policy's task is never slashed later (hazard: the
\* bond is slashed after the capital that insured it has left).
SettledNeverSlashed ==
  \A t \in Tasks : insurancePolicies[t].status = "Settled" =>
    /\ life[t].phase = "Completed"
    /\ life[t].slashed = 0 /\ life[t].bondSlashed = 0

\* contracts/src/ArenaInsurance.sol:188 says "Capital stays locked": in every
\* token the contract holds at least the capital locked in it.
CapitalBacked ==
  \A token \in Tokens :
    balance[token] >= Capital({id \in Open : TokenOf[insuranceOffers[id].taskId] = token},
                              {t \in Active : TokenOf[t] = token})
=============================================================================
