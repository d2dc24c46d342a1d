------------------------- MODULE ArenaInsuranceProofs -------------------------
(***************************************************************************)
(* The insurance market over the life cycle of the core.  First what the   *)
(* life cycle alone bounds: what an agent can lose.  Then the market: its  *)
(* types (no checked subtraction underflows), one policy to a task, no     *)
(* profit from a failure, no slash after a settlement, and the books.      *)
(* The sums of the books are over finite sets of offers and policies       *)
(* though the tasks may be infinitely many; FiniteSums says how they       *)
(* change.                                                                 *)
(***************************************************************************)
EXTENDS ArenaInsurance, FiniteSums

-----------------------------------------------------------------------------
(* The life cycle                                                          *)

\* LossBounded is not inductive: what is slashed or bonded must also be tied to
\* the phase, so that no second slash can find the first one's money.
LossInvAt(t) ==
  /\ life[t].phase # "Failed" => life[t].slashed = 0 /\ life[t].bondSlashed = 0
  /\ life[t].bond # 0 => life[t].phase = "Completed"
  /\ life[t].slashed # 0 => life[t].bondSlashed = 0
  /\ life[t].slashed <= life[t].stake
  /\ life[t].bond <= life[t].stake
  /\ life[t].bondSlashed <= life[t].stake
LossInv == LifecycleTypeOK /\ \A t \in Tasks : LossInvAt(t)

LEMMA ShareBounds ==
  ASSUME NEW amount \in Nat, NEW bps \in Nat, bps <= 10000
  PROVE  Share(amount, bps) \in Nat /\ Share(amount, bps) <= amount
<1>. DEFINE x == amount * bps
<1>1. x \in Nat /\ x <= amount * 10000
  OBVIOUS
<1>. HIDE DEF x
<1>2. x \div 10000 \in Nat /\ x \div 10000 <= amount
  BY <1>1
<1>. QED BY <1>2 DEF Share, x

LEMMA SlashBpsBounds ==
  ASSUME NEW severity \in DOMAIN SlashBps
  PROVE  SlashBps[severity] \in Nat /\ SlashBps[severity] <= 10000
<1>1. severity \in {"Late", "Minor", "Material", "Execution", "Critical"}
  BY DEF SlashBps
<1>2. /\ SlashBps["Late"] = 1500 /\ SlashBps["Minor"] = 2500 /\ SlashBps["Material"] = 5000
      /\ SlashBps["Execution"] = 7500 /\ SlashBps["Critical"] = 10000
  BY DEF SlashBps
<1>. QED BY <1>1, <1>2

LEMMA FineBounds ==
  ASSUME NEW amount \in Nat, NEW severity \in DOMAIN SlashBps
  PROVE  Share(amount, SlashBps[severity]) \in Nat /\ Share(amount, SlashBps[severity]) <= amount
<1>. DEFINE bps == SlashBps[severity]
<1>1. bps \in Nat /\ bps <= 10000
  BY SlashBpsBounds
<1>. HIDE DEF bps
<1>2. Share(amount, bps) \in Nat /\ Share(amount, bps) <= amount
  BY <1>1, ShareBounds
<1>. QED BY <1>2 DEF bps

LEMMA BondBounds ==
  ASSUME NEW amount \in Nat
  PROVE  Share(amount, BondBps) \in Nat /\ Share(amount, BondBps) <= amount
<1>1. BondBps \in Nat /\ BondBps <= 10000
  BY DEF BondBps
<1>. QED BY <1>1, ShareBounds

\* The update of one task keeps the invariant if the new record does.
LEMMA BecomesKeeps ==
  ASSUME LossInv, NEW t \in Tasks, NEW after \in LifeType, Becomes(t, after),
         /\ after.phase # "Failed" => after.slashed = 0 /\ after.bondSlashed = 0
         /\ after.bond # 0 => after.phase = "Completed"
         /\ after.slashed # 0 => after.bondSlashed = 0
         /\ after.slashed <= after.stake
         /\ after.bond <= after.stake
         /\ after.bondSlashed <= after.stake
  PROVE  LossInv'
<1>1. life \in [Tasks -> LifeType] /\ now \in 1 .. MaxTime
  BY DEF LossInv, LifecycleTypeOK
<1>2. life' = [life EXCEPT ![t] = after] /\ now' = now
  BY DEF Becomes
<1>3. life' \in [Tasks -> LifeType] /\ life'[t] = after
      /\ \A q \in Tasks \ {t} : life'[q] = life[q]
  BY <1>1, <1>2
<1>4. LifecycleTypeOK'
  BY <1>1, <1>2, <1>3 DEF LifecycleTypeOK
<1>5. ASSUME NEW q \in Tasks PROVE LossInvAt(q)'
  BY <1>3 DEF LossInv, LossInvAt
<1>. QED BY <1>4, <1>5 DEF LossInv

LEMMA LossInit == LifecycleInit => LossInv
<1>. SUFFICES ASSUME LifecycleInit PROVE LossInv
  OBVIOUS
<1>1. NewTask \in LifeType
  BY LifecycleAssumption DEF NewTask, LifeType, Phases, LifecycleAssumption
<1>2. life \in [Tasks -> LifeType] /\ \A t \in Tasks : life[t] = NewTask
  BY <1>1 DEF LifecycleInit
<1>3. now \in 1 .. MaxTime
  BY LifecycleAssumption DEF LifecycleInit, LifecycleAssumption
<1>. QED BY <1>2, <1>3 DEF LossInv, LossInvAt, LifecycleTypeOK, NewTask

LEMMA LossStep ==
  ASSUME LossInv, NEW t \in Tasks, NEW severity \in DOMAIN SlashBps,
         TaskStep(t) \/ SlashBond(t, severity)
  PROVE  LossInv'
<1>. DEFINE l == life[t]
<1>1. /\ l \in LifeType /\ now \in 0 .. MaxTime
      /\ LossInvAt(t)
  BY LifecycleAssumption DEF LossInv, LifecycleTypeOK, LifecycleAssumption
<1>2. /\ l.phase \in Phases /\ l.stake \in Nat /\ l.bond \in Nat /\ l.slashed \in Nat
      /\ l.bondSlashed \in Nat
  BY <1>1 DEF LifeType
<1>. USE <1>1, <1>2
<1>3. ASSUME NEW agent \in Agents, NEW stake \in Stakes, NEW window \in Windows,
             Assign(t, agent, stake, window)
      PROVE  LossInv'
  <2>. DEFINE after == [l EXCEPT !.phase = "Assigned", !.agent = agent, !.stake = stake,
                                 !.slashWindow = window]
  <2>1. stake \in Nat /\ window \in Nat /\ "Assigned" \in Phases
    BY LifecycleAssumption DEF LifecycleAssumption, Phases
  <2>2. after \in LifeType /\ after.phase = "Assigned" /\ after.stake = stake
        /\ after.bond = l.bond /\ after.slashed = l.slashed /\ after.bondSlashed = l.bondSlashed
    BY <2>1 DEF LifeType
  <2>3. l.bond = 0 /\ l.slashed = 0 /\ l.bondSlashed = 0
    BY <1>3 DEF LossInvAt, Assign
  <2>4. Becomes(t, after)
    BY <1>3 DEF Assign
  <2>. HIDE DEF after
  <2>. QED BY <2>1, <2>2, <2>3, <2>4, BecomesKeeps
<1>4. CASE WithdrawStake(t)
  <2>. DEFINE after == [l EXCEPT !.stake = 0]
  <2>1. after \in LifeType /\ after.phase = l.phase /\ after.stake = 0
        /\ after.bond = l.bond /\ after.slashed = l.slashed /\ after.bondSlashed = l.bondSlashed
    BY DEF LifeType
  <2>2. l.bond = 0 /\ l.slashed = 0 /\ l.bondSlashed = 0
    BY <1>4 DEF LossInvAt, WithdrawStake
  <2>3. Becomes(t, after)
    BY <1>4 DEF WithdrawStake
  <2>. HIDE DEF after
  <2>. QED BY <2>1, <2>2, <2>3, BecomesKeeps
<1>5. CASE Deliver(t)
  <2>. DEFINE after == [l EXCEPT !.phase = "Delivered", !.deliveredAt = now]
  <2>1. after \in LifeType /\ after.phase = "Delivered" /\ after.stake = l.stake
        /\ after.bond = l.bond /\ after.slashed = l.slashed /\ after.bondSlashed = l.bondSlashed
    BY DEF LifeType, Phases
  <2>2. l.bond = 0 /\ l.slashed = 0 /\ l.bondSlashed = 0 /\ Becomes(t, after)
    BY <1>5 DEF LossInvAt, Deliver
  <2>. HIDE DEF after
  <2>. QED BY <2>1, <2>2, BecomesKeeps
<1>6. ASSUME NEW p \in {"Verifying", "Disputed", "Cancelled"},
             Becomes(t, [l EXCEPT !.phase = p]),
             l.phase \in {"Open", "Assigned", "Delivered", "Verifying"}
      PROVE  LossInv'
  <2>. DEFINE after == [l EXCEPT !.phase = p]
  <2>1. after \in LifeType /\ after.phase = p /\ after.stake = l.stake
        /\ after.bond = l.bond /\ after.slashed = l.slashed /\ after.bondSlashed = l.bondSlashed
    BY DEF LifeType, Phases
  <2>2. l.bond = 0 /\ l.slashed = 0 /\ l.bondSlashed = 0 /\ Becomes(t, after)
    BY <1>6 DEF LossInvAt
  <2>. HIDE DEF after
  <2>. QED BY <2>1, <2>2, BecomesKeeps
<1>7. CASE Verify(t) \/ Dispute(t) \/ Cancel(t)
  BY <1>6, <1>7 DEF Verify, Dispute, Cancel
<1>8. CASE Complete(t)
  <2>1. PICK bond \in Nat : bond = Share(l.stake, BondBps) /\ bond <= l.stake
    BY BondBounds
  <2>. DEFINE after == [l EXCEPT !.phase = "Completed", !.bond = bond]
  <2>2. after \in LifeType /\ after.phase = "Completed" /\ after.stake = l.stake
        /\ after.bond = bond /\ after.slashed = l.slashed /\ after.bondSlashed = l.bondSlashed
    BY <2>1 DEF LifeType, Phases
  <2>3. l.slashed = 0 /\ l.bondSlashed = 0 /\ Becomes(t, after)
    BY <1>8, <2>1 DEF LossInvAt, Complete
  <2>. HIDE DEF after
  <2>. QED BY <2>1, <2>2, <2>3, BecomesKeeps
<1>9. ASSUME NEW s \in {"Late", "Material"}, Fail(t, s)
      PROVE  LossInv'
  <2>0. s \in DOMAIN SlashBps
    BY DEF SlashBps
  <2>1. PICK amount \in Nat : amount = Share(l.stake, SlashBps[s]) /\ amount <= l.stake
    BY <2>0, FineBounds
  <2>. DEFINE after == [l EXCEPT !.phase = "Failed", !.slashed = amount]
  <2>2. after \in LifeType /\ after.phase = "Failed" /\ after.stake = l.stake
        /\ after.bond = l.bond /\ after.slashed = amount /\ after.bondSlashed = l.bondSlashed
    BY <2>1 DEF LifeType, Phases
  <2>3. l.bond = 0 /\ l.bondSlashed = 0 /\ Becomes(t, after)
    BY <1>9, <2>1 DEF LossInvAt, Fail, FailurePhases
  <2>. HIDE DEF after
  <2>. QED BY <2>1, <2>2, <2>3, BecomesKeeps
<1>10. CASE SlashBond(t, severity)
  <2>1. PICK amount \in Nat : amount = Share(l.bond, SlashBps[severity]) /\ amount <= l.bond
    BY FineBounds
  <2>. DEFINE after == [l EXCEPT !.phase = "Failed", !.bond = 0, !.bondSlashed = amount]
  <2>2. after \in LifeType /\ after.phase = "Failed" /\ after.stake = l.stake
        /\ after.bond = 0 /\ after.slashed = l.slashed /\ after.bondSlashed = amount
    BY <2>1 DEF LifeType, Phases
  <2>3. l.slashed = 0 /\ l.bond <= l.stake /\ Becomes(t, after)
    BY <1>10, <2>1 DEF LossInvAt, SlashBond
  <2>. HIDE DEF after
  <2>. QED BY <2>1, <2>2, <2>3, BecomesKeeps
<1>11. CASE ClaimBond(t)
  <2>. DEFINE after == [l EXCEPT !.bond = 0]
  <2>1. after \in LifeType /\ after.phase = l.phase /\ after.stake = l.stake
        /\ after.bond = 0 /\ after.slashed = l.slashed /\ after.bondSlashed = l.bondSlashed
    BY DEF LifeType
  <2>2. l.slashed = 0 /\ l.bondSlashed = 0 /\ Becomes(t, after)
    BY <1>11 DEF LossInvAt, ClaimBond
  <2>. HIDE DEF after
  <2>. QED BY <2>1, <2>2, BecomesKeeps
<1>. QED BY <1>3, <1>4, <1>5, <1>7, <1>8, <1>9, <1>10, <1>11 DEF TaskStep

LEMMA LossNext ==
  ASSUME LossInv, [LifecycleNext]_lifecycleVars
  PROVE  LossInv'
<1>1. CASE Advance
  <2>1. now \in 1 .. MaxTime /\ now < MaxTime /\ MaxTime \in Nat /\ now' = now + 1 /\ life' = life
    BY <1>1, LifecycleAssumption DEF LossInv, LifecycleTypeOK, Advance, LifecycleAssumption
  <2>. QED BY <2>1 DEF LossInv, LossInvAt, LifecycleTypeOK
<1>2. ASSUME NEW t \in Tasks, TaskStep(t) \/ \E severity \in Severities : SlashBond(t, severity)
      PROVE  LossInv'
  <2>1. "Late" \in DOMAIN SlashBps /\ Severities \subseteq DOMAIN SlashBps
    BY LifecycleAssumption DEF LifecycleAssumption, SlashBps
  <2>. QED BY <1>2, <2>1, LossStep
<1>3. CASE UNCHANGED lifecycleVars
  BY <1>3 DEF LossInv, LossInvAt, LifecycleTypeOK, lifecycleVars
<1>. QED BY <1>1, <1>2, <1>3 DEF LifecycleNext

\* What the bounds of LossInvAt say of the sum.
LEMMA LossInvBounds ==
  ASSUME LossInv
  PROVE  LossBounded
<1>. SUFFICES ASSUME NEW t \in Tasks
              PROVE  /\ life[t].slashed + life[t].bond + life[t].bondSlashed <= life[t].stake
                     /\ life[t].slashed # 0 => life[t].bond + life[t].bondSlashed = 0
  BY DEF LossBounded
<1>1. life[t] \in LifeType /\ LossInvAt(t)
  BY DEF LossInv, LifecycleTypeOK
<1>2. /\ life[t].stake \in Nat /\ life[t].bond \in Nat /\ life[t].slashed \in Nat
      /\ life[t].bondSlashed \in Nat
  BY <1>1 DEF LifeType
<1>3. \/ life[t].phase = "Completed" /\ life[t].slashed = 0 /\ life[t].bondSlashed = 0
      \/ life[t].bond = 0 /\ (life[t].slashed = 0 \/ life[t].bondSlashed = 0)
  BY <1>1, <1>2 DEF LossInvAt
<1>. QED BY <1>1, <1>2, <1>3 DEF LossInvAt

\* Whatever the core does to a task, it never takes more from the agent than its
\* stake, by slash and bond together, and never slashes it on both paths.
THEOREM LossAlwaysBounded == LifecycleSpec => []LossBounded
BY LossInit, LossNext, LossInvBounds, PTL DEF LifecycleSpec

\* A failed task keeps what was slashed; a completed one stays completed once its
\* window is over, so the insurance may close a policy for good.
LEMMA EndsStay ==
  ASSUME LossInv, [LifecycleNext]_lifecycleVars, NEW t \in Tasks
  PROVE  /\ life[t].phase = "Failed" => life'[t] = life[t]
         /\ life[t].phase = "Completed" /\ WindowOver(t) =>
              life'[t].phase = "Completed" /\ WindowOver(t)'
<1>0. /\ now \in Nat /\ life \in [Tasks -> LifeType]
  BY LifecycleAssumption DEF LossInv, LifecycleTypeOK, LifecycleAssumption
<1>1. CASE Advance \/ UNCHANGED lifecycleVars
  <2>1. life' = life /\ now' \in Nat /\ now' >= now
    BY <1>0, <1>1 DEF Advance, lifecycleVars
  <2>2. life[t].deliveredAt \in Nat /\ life[t].slashWindow \in Nat
    BY <1>0, LifecycleAssumption DEF LifeType, LifecycleAssumption
  <2>. QED BY <1>0, <2>1, <2>2 DEF WindowOver
<1>2. ASSUME NEW q \in Tasks, TaskStep(q) \/ \E severity \in Severities : SlashBond(q, severity)
      PROVE  /\ life[t].phase = "Failed" => life'[t] = life[t]
             /\ life[t].phase = "Completed" /\ WindowOver(t) =>
                  life'[t].phase = "Completed" /\ WindowOver(t)'
  <2>1. now' = now /\ \E after : life' = [life EXCEPT ![q] = after]
    BY <1>2 DEF TaskStep, SlashBond, Becomes, Assign, WithdrawStake, Deliver, Verify, Complete, Fail,
                Dispute, Cancel, ClaimBond
  <2>2. CASE q # t
    BY <1>0, <2>1, <2>2 DEF WindowOver
  <2>3. CASE q = t
    <3>1. life[t].phase # "Failed"
      BY <1>2, <2>3 DEF TaskStep, SlashBond, Assign, WithdrawStake, Deliver, Verify, Complete, Fail,
                        Dispute, Cancel, ClaimBond, FailurePhases
    <3>2. ASSUME life[t].phase = "Completed", WindowOver(t) PROVE ClaimBond(t)
      BY <1>2, <2>3, <3>2 DEF TaskStep, SlashBond, Assign, WithdrawStake, Deliver, Verify, Complete,
                              Fail, Dispute, Cancel, FailurePhases
    <3>3. ASSUME ClaimBond(t)
          PROVE  /\ life'[t].phase = life[t].phase
                 /\ life'[t].deliveredAt = life[t].deliveredAt
                 /\ life'[t].slashWindow = life[t].slashWindow
      BY <1>0, <3>3 DEF ClaimBond, Becomes, LifeType
    <3>. QED BY <2>1, <3>1, <3>2, <3>3 DEF WindowOver
  <2>. QED BY <2>2, <2>3
<1>. QED BY <1>1, <1>2 DEF LifecycleNext

-----------------------------------------------------------------------------
(* The types of the books                                                  *)

\* TypeOK with the counters of an insurer as integers: that they never fall below
\* zero follows from the books.  Only finitely many policies are in force.
BookTypes ==
  /\ insuranceOffers \in Seq(OfferType)
  /\ insurancePolicies \in [Tasks -> PolicyType]
  /\ insurerLockedCapital \in [Accounts -> Int]
  /\ insurerActivePolicies \in [Accounts -> Int]
  /\ protocolTreasury \in Nat
  /\ balance \in [Tokens -> Nat]
  /\ IsFiniteSet(Active)

LEMMA ShareNat ==
  ASSUME NEW amount \in Nat, NEW bps \in Nat
  PROVE  Share(amount, bps) \in Nat
<1>. DEFINE x == amount * bps
<1>1. x \in Nat
  OBVIOUS
<1>. HIDE DEF x
<1>2. x \div 10000 \in Nat
  BY <1>1
<1>. QED BY <1>2 DEF Share, x

LEMMA PremiumNat ==
  ASSUME NEW stake \in Nat, NEW coverageBps \in Nat, NEW premiumBps \in Nat
  PROVE  PremiumOf(stake, coverageBps, premiumBps) \in Nat
<1>. DEFINE cover == stake * coverageBps
            whole == (cover \div BPS) * premiumBps
            part == (cover % BPS) * premiumBps
<1>1. cover \in Nat
  OBVIOUS
<1>2. cover \div BPS \in Nat /\ cover % BPS \in Nat
  <2>. HIDE DEF cover
  <2>. QED BY <1>1 DEF BPS
<1>3. whole \in Nat /\ part \in Nat
  <2>. DEFINE d == cover \div BPS
              r == cover % BPS
  <2>1. d \in Nat /\ r \in Nat
    BY <1>2
  <2>. HIDE DEF d, r
  <2>2. d * premiumBps \in Nat /\ r * premiumBps \in Nat
    BY <2>1
  <2>. QED BY <2>2 DEF d, r
<1>4. (whole + part \div BPS) \div BPS \in Nat
  <2>. HIDE DEF whole, part
  <2>. QED BY <1>3 DEF BPS
<1>. QED BY <1>4 DEF PremiumOf

\* The offers are numbered from 1; an offer and a policy have the fields of their types.
LEMMA OfferFields ==
  ASSUME BookTypes
  PROVE  /\ Len(insuranceOffers) \in Nat /\ OfferIds = 1 .. Len(insuranceOffers)
         /\ IsFiniteSet(OfferIds) /\ 0 \notin OfferIds
         /\ \A o \in OfferIds :
              /\ insuranceOffers[o] \in OfferType
              /\ insuranceOffers[o].insurer \in Insurers /\ insuranceOffers[o].insurer \in Accounts
              /\ insuranceOffers[o].taskId \in Tasks
              /\ insuranceOffers[o].maxCoverage \in Nat
<1>1. /\ Len(insuranceOffers) \in Nat /\ OfferIds = 1 .. Len(insuranceOffers)
      /\ \A o \in OfferIds : insuranceOffers[o] \in OfferType
  BY DEF BookTypes, OfferIds
<1>2. IsFiniteSet(OfferIds)
  BY <1>1, FS_Interval
<1>. QED BY <1>1, <1>2 DEF OfferType, Accounts

LEMMA PolicyFields ==
  ASSUME BookTypes, NEW t \in Tasks
  PROVE  /\ insurancePolicies[t] \in PolicyType
         /\ insurancePolicies[t].insurer \in Accounts
         /\ CapitalOf(t) \in Nat /\ insurancePolicies[t].maxCoverage \in Nat
         /\ insurancePolicies[t].claimedAmount \in Nat
         /\ insurancePolicies[t].coverageBps \in Nat
BY DEF BookTypes, PolicyType, Accounts, CapitalOf

-----------------------------------------------------------------------------
(* What each operation does to the offers and the policies                 *)

\* The offers keep everything but their status.
SameOffers ==
  /\ insuranceOffers' \in Seq(OfferType)
  /\ OfferIds' = OfferIds
  /\ \A o \in OfferIds :
       /\ insuranceOffers'[o].insurer = insuranceOffers[o].insurer
       /\ insuranceOffers'[o].taskId = insuranceOffers[o].taskId
       /\ insuranceOffers'[o].coverageBps = insuranceOffers[o].coverageBps
       /\ insuranceOffers'[o].maxCoverage = insuranceOffers[o].maxCoverage

LEMMA Offered ==
  ASSUME BookTypes, LossInv, NEW insurer \in Insurers, NEW t \in Tasks, NEW c \in Coverages,
         NEW p \in Premiums, NEW h, OfferInsurance(insurer, t, c, p, h)
  PROVE  \E n, cover \in Nat :
           /\ n \notin OfferIds /\ OfferIds' = OfferIds \cup {n}
           /\ insuranceOffers' \in Seq(OfferType)
           /\ \A o \in OfferIds : insuranceOffers'[o] = insuranceOffers[o]
           /\ insuranceOffers'[n].insurer = insurer /\ insuranceOffers'[n].taskId = t
           /\ insuranceOffers'[n].maxCoverage = cover /\ insuranceOffers'[n].status = "Open"
           /\ insuranceOffers'[n].coverageBps <= MaxCoverageBps
           /\ insurerLockedCapital' = [insurerLockedCapital EXCEPT ![insurer] = @ + cover]
           /\ balance' = [balance EXCEPT ![TokenOf[t]] = @ + cover]
<1>. DEFINE cover == Share(life[t].stake, c)
            premium == PremiumOf(life[t].stake, c, p)
            n == Len(insuranceOffers) + 1
            offer == [insurer |-> insurer, taskId |-> t, coverageBps |-> c,
                      maxCoverage |-> cover, premium |-> premium, status |-> "Open"]
<1>1. c \in Nat /\ p \in Nat /\ life[t].stake \in Nat
  BY InsuranceAssumption DEF InsuranceAssumption, LossInv, LifecycleTypeOK, LifeType
<1>2. cover \in Nat /\ premium \in Nat
  BY <1>1, ShareNat, PremiumNat
<1>3. /\ c <= MaxCoverageBps
      /\ insuranceOffers' = Append(insuranceOffers, offer)
      /\ insurerLockedCapital' = [insurerLockedCapital EXCEPT ![insurer] = @ + cover]
      /\ balance' = [balance EXCEPT ![TokenOf[t]] = @ + cover]
  BY DEF OfferInsurance, Receive
<1>4. offer \in OfferType
  <2>. HIDE DEF cover, premium
  <2>. QED BY <1>1, <1>2 DEF OfferType
<1>5. offer.insurer = insurer /\ offer.taskId = t /\ offer.maxCoverage = cover
      /\ offer.status = "Open" /\ offer.coverageBps = c
  OBVIOUS
<1>. HIDE DEF cover, premium, offer
<1>6. /\ insuranceOffers' \in Seq(OfferType) /\ Len(insuranceOffers') = n
      /\ insuranceOffers'[n] = offer
      /\ \A o \in 1 .. Len(insuranceOffers) : insuranceOffers'[o] = insuranceOffers[o]
  BY <1>3, <1>4 DEF BookTypes
<1>7. n \notin OfferIds /\ OfferIds' = OfferIds \cup {n}
  <2>1. OfferIds' = 1 .. n
    BY <1>6 DEF OfferIds
  <2>. QED BY <2>1, OfferFields
<1>8. n \in Nat
  BY OfferFields
<1>. HIDE DEF n
<1>. QED BY <1>2, <1>3, <1>5, <1>6, <1>7, <1>8, OfferFields

LEMMA OfferCancelled ==
  ASSUME BookTypes, NEW id \in OfferIds, CancelInsuranceOffer(id)
  PROVE  /\ SameOffers
         /\ insuranceOffers[id].status = "Open" /\ insuranceOffers'[id].status = "Cancelled"
         /\ \A o \in OfferIds \ {id} : insuranceOffers'[o].status = insuranceOffers[o].status
<1>1. /\ insuranceOffers[id].status = "Open"
      /\ insuranceOffers' = [insuranceOffers EXCEPT ![id].status = "Cancelled"]
  BY DEF CancelInsuranceOffer
<1>2. insuranceOffers \in [OfferIds -> OfferType] /\ OfferIds = 1 .. Len(insuranceOffers)
      /\ Len(insuranceOffers) \in Nat
  BY OfferFields DEF OfferIds, BookTypes
<1>3. insuranceOffers' \in [OfferIds -> OfferType]
  BY <1>1, <1>2 DEF OfferType
<1>4. insuranceOffers' \in Seq(OfferType) /\ OfferIds' = OfferIds
  BY <1>2, <1>3 DEF OfferIds
<1>5. /\ \A o \in OfferIds \ {id} : insuranceOffers'[o] = insuranceOffers[o]
      /\ insuranceOffers'[id] = [insuranceOffers[id] EXCEPT !.status = "Cancelled"]
  BY <1>1, <1>2
<1>6. insuranceOffers[id] \in OfferType
  BY <1>2
<1>7. /\ insuranceOffers'[id].insurer = insuranceOffers[id].insurer
      /\ insuranceOffers'[id].taskId = insuranceOffers[id].taskId
      /\ insuranceOffers'[id].coverageBps = insuranceOffers[id].coverageBps
      /\ insuranceOffers'[id].maxCoverage = insuranceOffers[id].maxCoverage
      /\ insuranceOffers'[id].status = "Cancelled"
  BY <1>5, <1>6 DEF OfferType
<1>. QED BY <1>1, <1>4, <1>5, <1>7 DEF SameOffers

\* The offer bought, with the fields the purchase reads of it.
LEMMA OfferRead ==
  ASSUME BookTypes, NEW id \in OfferIds \cup {0}
  PROVE  /\ id \in OfferIds => Offer(id) = insuranceOffers[id]
         /\ id \notin OfferIds => Offer(id) = UnwrittenOffer
         /\ Offer(id).insurer \in Accounts /\ Offer(id).maxCoverage \in Nat
         /\ Offer(id).coverageBps \in Nat /\ Offer(id).premium \in Nat
<1>1. CASE id \in OfferIds
  BY <1>1, OfferFields DEF Offer, OfferType
<1>2. CASE id \notin OfferIds
  BY <1>2 DEF Offer, UnwrittenOffer, Accounts
<1>. QED BY <1>1, <1>2

LEMMA Bought ==
  ASSUME BookTypes, LossInv, NEW t \in Tasks, NEW id \in OfferIds \cup {0}, BuyInsurance(t, id)
  PROVE  /\ SameOffers
         /\ Offer(id).status = "Open" /\ Offer(id).taskId = t
         /\ \A o \in OfferIds : insuranceOffers'[o].status =
              IF o = id THEN "Active" ELSE IF o \in OtherOffers(t, id) THEN "Cancelled"
              ELSE insuranceOffers[o].status
         /\ insurancePolicies[t].status = "None"
         /\ insurancePolicies' \in [Tasks -> PolicyType]
         /\ \A q \in Tasks \ {t} : insurancePolicies'[q] = insurancePolicies[q]
         /\ insurancePolicies'[t].status = "Active"
         /\ insurancePolicies'[t].insurer = Offer(id).insurer
         /\ insurancePolicies'[t].maxCoverage = Offer(id).maxCoverage
         /\ insurancePolicies'[t].coverageBps = Offer(id).coverageBps
<1>. DEFINE offer == Offer(id)
            others == OtherOffers(t, id)
            policy == [insurer |-> offer.insurer, insured |-> life[t].agent,
                       coverageBps |-> offer.coverageBps, maxCoverage |-> offer.maxCoverage,
                       claimedAmount |-> 0, status |-> "Active"]
            now1(o) == [insuranceOffers[o] EXCEPT !.status =
                         IF o = id THEN "Active" ELSE IF o \in others THEN "Cancelled" ELSE @]
<1>1. /\ offer.status = "Open" /\ offer.taskId = t /\ insurancePolicies[t].status = "None"
      /\ insurancePolicies' = [insurancePolicies EXCEPT ![t] = policy]
      /\ insuranceOffers' = [o \in OfferIds |-> now1(o)]
  BY DEF BuyInsurance, HasNoPolicy
<1>2. /\ policy \in PolicyType /\ policy.insurer = offer.insurer /\ policy.status = "Active"
      /\ policy.maxCoverage = offer.maxCoverage /\ policy.coverageBps = offer.coverageBps
  <2>1. life[t].agent \in Agents \cup {NoAgent}
    BY DEF LossInv, LifecycleTypeOK, LifeType
  <2>2. offer.insurer \in Insurers \cup {NoAgent} /\ offer.maxCoverage \in Nat
        /\ offer.coverageBps \in Nat
    BY OfferRead DEF Accounts
  <2>. HIDE DEF offer
  <2>. QED BY <2>1, <2>2 DEF PolicyType
<1>3. ASSUME NEW o \in OfferIds
      PROVE  /\ now1(o) \in OfferType
             /\ now1(o).insurer = insuranceOffers[o].insurer
             /\ now1(o).taskId = insuranceOffers[o].taskId
             /\ now1(o).coverageBps = insuranceOffers[o].coverageBps
             /\ now1(o).maxCoverage = insuranceOffers[o].maxCoverage
             /\ now1(o).status = IF o = id THEN "Active" ELSE IF o \in others THEN "Cancelled"
                                 ELSE insuranceOffers[o].status
  <2>1. insuranceOffers[o] \in OfferType
    BY OfferFields
  <2>. HIDE DEF others
  <2>. QED BY <2>1 DEF OfferType
<1>. HIDE DEF now1, policy, offer, others
<1>4. \A o \in OfferIds : insuranceOffers'[o] = now1(o)
  BY <1>1
<1>5. insuranceOffers' \in [OfferIds -> OfferType]
  BY <1>1, <1>3
<1>6. insuranceOffers' \in Seq(OfferType) /\ OfferIds' = OfferIds
  BY <1>5, OfferFields DEF OfferIds
<1>7. SameOffers
  BY <1>3, <1>4, <1>6 DEF SameOffers
<1>8. /\ insurancePolicies' \in [Tasks -> PolicyType] /\ insurancePolicies'[t] = policy
      /\ \A q \in Tasks \ {t} : insurancePolicies'[q] = insurancePolicies[q]
  BY <1>1, <1>2 DEF BookTypes
<1>9. \A o \in OfferIds : insuranceOffers'[o].status =
        IF o = id THEN "Active" ELSE IF o \in others THEN "Cancelled" ELSE insuranceOffers[o].status
  BY <1>3, <1>4
<1>. QED BY <1>1, <1>2, <1>7, <1>8, <1>9 DEF offer, others

LEMMA Closed ==
  ASSUME BookTypes, NEW t \in Tasks, NEW end \in {"Claimed", "Settled"}, NEW payout \in Nat,
         Close(t, end, payout)
  PROVE  /\ UNCHANGED insuranceOffers
         /\ insurancePolicies[t].status = "Active"
         /\ insurancePolicies' \in [Tasks -> PolicyType]
         /\ \A q \in Tasks \ {t} : insurancePolicies'[q] = insurancePolicies[q]
         /\ insurancePolicies'[t].status = end
         /\ insurancePolicies'[t].claimedAmount = payout
         /\ insurancePolicies'[t].insurer = insurancePolicies[t].insurer
         /\ insurancePolicies'[t].maxCoverage = insurancePolicies[t].maxCoverage
         /\ insurancePolicies'[t].coverageBps = insurancePolicies[t].coverageBps
<1>1. /\ UNCHANGED insuranceOffers /\ insurancePolicies[t].status = "Active"
      /\ insurancePolicies' = [insurancePolicies EXCEPT ![t].status = end,
                                                        ![t].claimedAmount = payout]
  BY DEF Close
<1>. DEFINE policy == [insurancePolicies[t] EXCEPT !.status = end, !.claimedAmount = payout]
<1>2. insurancePolicies[t] \in PolicyType
  BY PolicyFields
<1>3. /\ policy \in PolicyType /\ policy.status = end /\ policy.claimedAmount = payout
      /\ policy.insurer = insurancePolicies[t].insurer
      /\ policy.maxCoverage = insurancePolicies[t].maxCoverage
      /\ policy.coverageBps = insurancePolicies[t].coverageBps
  BY <1>2 DEF PolicyType
<1>4. /\ insurancePolicies'[t] = policy
      /\ \A q \in Tasks \ {t} : insurancePolicies'[q] = insurancePolicies[q]
      /\ insurancePolicies' \in [Tasks -> PolicyType]
  BY <1>1, <1>3 DEF BookTypes
<1>. QED BY <1>1, <1>3, <1>4

-----------------------------------------------------------------------------
(* The types are kept                                                      *)

LEMMA SumsOfOffers ==
  ASSUME BookTypes, NEW S \in SUBSET OfferIds
  PROVE  /\ IsFiniteSet(S)
         /\ SumFunctionOnSet([o \in OfferIds |-> insuranceOffers[o].maxCoverage], S) \in Nat
<1>. DEFINE covers == [o \in OfferIds |-> insuranceOffers[o].maxCoverage]
<1>1. IsFiniteSet(S) /\ \A o \in S : covers[o] \in Nat
  BY OfferFields, FS_Subset
<1>. HIDE DEF covers
<1>2. SumFunctionOnSet(covers, S) \in Nat
  BY <1>1, SumNat
<1>. QED BY <1>1, <1>2 DEF covers

LEMMA ClosedTypes ==
  ASSUME BookTypes, NEW t \in Tasks, NEW end \in {"Claimed", "Settled"}, NEW payout \in Nat,
         Close(t, end, payout)
  PROVE  BookTypes'
<1>. DEFINE n == insurancePolicies[t].maxCoverage
            i == insurancePolicies[t].insurer
<1>1. n \in Nat /\ i \in Accounts
  BY PolicyFields
<1>2. /\ insurerLockedCapital' = [insurerLockedCapital EXCEPT ![i] = @ - n]
      /\ insurerActivePolicies' = [insurerActivePolicies EXCEPT ![i] = @ - 1]
      /\ balance[TokenOf[t]] >= n /\ balance' = [balance EXCEPT ![TokenOf[t]] = @ - n]
      /\ UNCHANGED protocolTreasury
  BY DEF Close, Pay
<1>3. Active' = Active \ {t}
  BY Closed DEF Active
<1>. HIDE DEF n, i
<1>4. balance' \in [Tokens -> Nat]
  BY <1>1, <1>2, InsuranceAssumption DEF BookTypes, InsuranceAssumption
<1>5. /\ insurerLockedCapital' \in [Accounts -> Int] /\ insurerActivePolicies' \in [Accounts -> Int]
      /\ protocolTreasury' \in Nat /\ insuranceOffers' \in Seq(OfferType)
  BY <1>1, <1>2, Closed DEF BookTypes
<1>6. IsFiniteSet(Active')
  BY <1>3, FS_RemoveElement DEF BookTypes
<1>. QED BY <1>4, <1>5, <1>6, Closed DEF BookTypes

LEMMA BoughtTypes ==
  ASSUME BookTypes, LossInv, NEW t \in Tasks, NEW id \in OfferIds \cup {0}, BuyInsurance(t, id)
  PROVE  BookTypes'
<1>. DEFINE others == OtherOffers(t, id)
            refund == SumFunctionOnSet([o \in OfferIds |-> insuranceOffers[o].maxCoverage], others)
            cut == Share(Offer(id).premium, ProtocolFeeBps)
            i == Offer(id).insurer
<1>1. others \in SUBSET OfferIds
  BY DEF OtherOffers, OpenOffers
<1>2. refund \in Nat /\ \A a \in Accounts : Locked(others, a) \in Int
  <2>1. ASSUME NEW a \in Accounts PROVE Locked(others, a) \in Int
    <3>. HIDE DEF others
    <3>1. {o \in others : insuranceOffers[o].insurer = a} \in SUBSET OfferIds
      BY <1>1
    <3>. QED BY <3>1, SumsOfOffers DEF Locked
  <2>. QED BY <1>1, <2>1, SumsOfOffers
<1>3. cut \in Nat /\ i \in Accounts
  BY OfferRead, ShareNat DEF ProtocolFeeBps
<1>4. /\ protocolTreasury' = protocolTreasury + cut
      /\ insurerActivePolicies' = [insurerActivePolicies EXCEPT ![i] = @ + 1]
      /\ insurerLockedCapital' = [a \in Accounts |-> insurerLockedCapital[a] - Locked(others, a)]
      /\ balance[TokenOf[t]] >= refund
      /\ balance' = [balance EXCEPT ![TokenOf[t]] = @ - refund + cut]
  BY DEF BuyInsurance
<1>5. Active' = Active \cup {t}
  BY Bought DEF Active
<1>. HIDE DEF others, refund, cut, i
<1>6. balance' \in [Tokens -> Nat]
  BY <1>2, <1>3, <1>4, InsuranceAssumption DEF BookTypes, InsuranceAssumption
<1>7. /\ insurerLockedCapital' \in [Accounts -> Int] /\ insurerActivePolicies' \in [Accounts -> Int]
      /\ protocolTreasury' \in Nat
  BY <1>2, <1>3, <1>4 DEF BookTypes
<1>8. IsFiniteSet(Active')
  BY <1>5, FS_AddElement DEF BookTypes
<1>. QED BY <1>6, <1>7, <1>8, Bought DEF BookTypes, SameOffers

LEMMA OfferedTypes ==
  ASSUME BookTypes, LossInv, NEW insurer \in Insurers, NEW t \in Tasks, NEW c \in Coverages,
         NEW p \in Premiums, NEW h, OfferInsurance(insurer, t, c, p, h)
  PROVE  BookTypes'
<1>1. PICK cover \in Nat :
        /\ insuranceOffers' \in Seq(OfferType)
        /\ insurerLockedCapital' = [insurerLockedCapital EXCEPT ![insurer] = @ + cover]
        /\ balance' = [balance EXCEPT ![TokenOf[t]] = @ + cover]
  BY Offered
<1>2. UNCHANGED <<insurancePolicies, insurerActivePolicies, protocolTreasury>>
  BY DEF OfferInsurance
<1>3. balance' \in [Tokens -> Nat] /\ insurerLockedCapital' \in [Accounts -> Int]
  BY <1>1, InsuranceAssumption DEF BookTypes, InsuranceAssumption, Accounts
<1>. QED BY <1>1, <1>2, <1>3 DEF BookTypes, Active

LEMMA CancelledTypes ==
  ASSUME BookTypes, NEW id \in OfferIds, CancelInsuranceOffer(id)
  PROVE  BookTypes'
<1>. DEFINE n == insuranceOffers[id].maxCoverage
            i == insuranceOffers[id].insurer
            token == TokenOf[insuranceOffers[id].taskId]
<1>1. n \in Nat /\ i \in Accounts /\ token \in Tokens
  BY OfferFields, InsuranceAssumption DEF InsuranceAssumption
<1>2. /\ insurerLockedCapital' = [insurerLockedCapital EXCEPT ![i] = @ - n]
      /\ balance[token] >= n /\ balance' = [balance EXCEPT ![token] = @ - n]
      /\ UNCHANGED <<insurancePolicies, insurerActivePolicies, protocolTreasury>>
  BY DEF CancelInsuranceOffer, Pay
<1>. HIDE DEF n, i, token
<1>3. balance' \in [Tokens -> Nat] /\ insurerLockedCapital' \in [Accounts -> Int]
  BY <1>1, <1>2 DEF BookTypes
<1>. QED BY <1>2, <1>3, OfferCancelled DEF BookTypes, Active, SameOffers

-----------------------------------------------------------------------------
(* Policies                                                                *)

\* What a policy covers is capped, a claim paid less than the loss of a task that has
\* failed for good, and a settlement came when nothing could be slashed any more.
PolicySound(t) ==
  LET policy == insurancePolicies[t]
      loss == life[t].slashed + life[t].bondSlashed
  IN /\ policy.coverageBps <= MaxCoverageBps
     /\ policy.status = "Claimed" =>
          /\ life[t].phase = "Failed"
          /\ policy.claimedAmount < loss
          /\ policy.claimedAmount <= policy.maxCoverage
     /\ policy.status = "Settled" => life[t].phase = "Completed" /\ WindowOver(t)

OffersCapped == \A o \in OfferIds : insuranceOffers[o].coverageBps <= MaxCoverageBps

\* OnePolicy, of one task.
BoughtOffers(t) == {o \in OfferIds : insuranceOffers[o].taskId = t
                                     /\ insuranceOffers[o].status = "Active"}
OneAt(t) ==
  IF insurancePolicies[t].status = "None" THEN BoughtOffers(t) = {}
  ELSE /\ OpenOffers(t) = {}
       /\ \/ BoughtOffers(t) = {} /\ t = 0 /\ insurancePolicies[t].insurer = NoAgent
             /\ insurancePolicies[t].maxCoverage = 0
          \/ \E o \in BoughtOffers(t) :
               /\ BoughtOffers(t) = {o}
               /\ insuranceOffers[o].insurer = insurancePolicies[t].insurer
               /\ insuranceOffers[o].maxCoverage = insurancePolicies[t].maxCoverage

MarketInv ==
  /\ LossInv /\ BookTypes /\ OffersCapped
  /\ \A t \in Tasks : PolicySound(t) /\ OneAt(t)

LEMMA PayoutBelowSlash ==
  ASSUME BookTypes, NEW t \in Tasks, PolicySound(t), NEW slash \in Nat, slash > 0
  PROVE  /\ Payout(t, slash) \in Nat /\ Payout(t, slash) < slash
         /\ Payout(t, slash) <= insurancePolicies[t].maxCoverage
<1>. DEFINE bps == insurancePolicies[t].coverageBps
            n == insurancePolicies[t].maxCoverage
            part == Share(slash, bps)
<1>1. bps \in Nat /\ bps <= 9000 /\ n \in Nat
  BY PolicyFields DEF PolicySound, MaxCoverageBps
<1>2. part \in Nat /\ part < slash
  <2>. DEFINE x == slash * bps
  <2>. HIDE DEF bps
  <2>1. x \in Nat /\ x <= slash * 9000
    BY <1>1
  <2>. HIDE DEF x
  <2>2. x \div 10000 \in Nat /\ x \div 10000 < slash
    BY <2>1
  <2>. QED BY <2>2 DEF Share, x
<1>3. Payout(t, slash) = LowerOf(part, n)
  BY DEF Payout
<1>. HIDE DEF part, n
<1>. QED BY <1>1, <1>2, <1>3 DEF LowerOf, n

\* A policy that ends as it should leaves the others alone.
LEMMA ClosedSound ==
  ASSUME MarketInv, UNCHANGED lifecycleVars, NEW t \in Tasks, NEW end \in {"Claimed", "Settled"},
         NEW payout \in Nat, Close(t, end, payout),
         end = "Claimed" => /\ life[t].phase = "Failed"
                            /\ payout < life[t].slashed + life[t].bondSlashed
                            /\ payout <= insurancePolicies[t].maxCoverage,
         end = "Settled" => life[t].phase = "Completed" /\ WindowOver(t)
  PROVE  OffersCapped' /\ \A q \in Tasks : PolicySound(q)' /\ OneAt(q)'
<1>0. BookTypes /\ life' = life /\ now' = now
  BY DEF MarketInv, lifecycleVars
<1>1. /\ UNCHANGED insuranceOffers /\ insurancePolicies[t].status = "Active"
      /\ \A q \in Tasks \ {t} : insurancePolicies'[q] = insurancePolicies[q]
      /\ insurancePolicies'[t].status = end /\ insurancePolicies'[t].claimedAmount = payout
      /\ insurancePolicies'[t].insurer = insurancePolicies[t].insurer
      /\ insurancePolicies'[t].maxCoverage = insurancePolicies[t].maxCoverage
      /\ insurancePolicies'[t].coverageBps = insurancePolicies[t].coverageBps
  BY <1>0, Closed
<1>2. OffersCapped'
  BY <1>1 DEF MarketInv, OffersCapped, OfferIds
<1>3. ASSUME NEW q \in Tasks PROVE PolicySound(q)'
  <2>1. PolicySound(q)
    BY DEF MarketInv
  <2>2. CASE q = t
    BY <1>0, <1>1, <2>1, <2>2 DEF PolicySound, WindowOver
  <2>3. CASE q # t
    BY <1>0, <1>1, <2>1, <2>3 DEF PolicySound, WindowOver
  <2>. QED BY <2>2, <2>3
<1>4. ASSUME NEW q \in Tasks PROVE OneAt(q)'
  <2>1. OneAt(q) /\ BoughtOffers(q)' = BoughtOffers(q) /\ OpenOffers(q)' = OpenOffers(q)
    BY <1>1 DEF MarketInv, BoughtOffers, OpenOffers, OfferIds
  <2>2. insuranceOffers' = insuranceOffers
    BY <1>1
  <2>3. CASE q = t
    BY <1>1, <2>1, <2>2, <2>3 DEF OneAt
  <2>4. CASE q # t
    BY <1>1, <2>1, <2>2, <2>4 DEF OneAt
  <2>. QED BY <2>3, <2>4
<1>. QED BY <1>2, <1>3, <1>4

\* The offer is of a task without a policy, which has no bought offer.
LEMMA OfferedSound ==
  ASSUME MarketInv, UNCHANGED lifecycleVars, NEW insurer \in Insurers, NEW t \in Tasks,
         NEW c \in Coverages, NEW p \in Premiums, NEW h, OfferInsurance(insurer, t, c, p, h)
  PROVE  OffersCapped' /\ \A q \in Tasks : PolicySound(q)' /\ OneAt(q)'
<1>0. BookTypes /\ LossInv /\ life' = life /\ now' = now
  BY DEF MarketInv, lifecycleVars
<1>1. PICK n \in Nat :
        /\ n \notin OfferIds /\ OfferIds' = OfferIds \cup {n}
        /\ \A o \in OfferIds : insuranceOffers'[o] = insuranceOffers[o]
        /\ insuranceOffers'[n].taskId = t /\ insuranceOffers'[n].status = "Open"
        /\ insuranceOffers'[n].coverageBps <= MaxCoverageBps
  BY <1>0, Offered
<1>2. UNCHANGED insurancePolicies /\ insurancePolicies[t].status = "None"
  BY DEF OfferInsurance, HasNoPolicy
<1>3. OffersCapped'
  BY <1>1 DEF MarketInv, OffersCapped
<1>4. ASSUME NEW q \in Tasks PROVE PolicySound(q)'
  BY <1>0, <1>2 DEF MarketInv, PolicySound, WindowOver
<1>5. ASSUME NEW q \in Tasks PROVE OneAt(q)'
  <2>1. BoughtOffers(q)' = BoughtOffers(q)
    BY <1>1 DEF BoughtOffers
  <2>2. OneAt(q)
    BY DEF MarketInv
  <2>3. CASE q = t
    BY <1>2, <2>1, <2>2, <2>3 DEF OneAt
  <2>4. CASE q # t
    <3>1. OpenOffers(q)' = OpenOffers(q)
      BY <1>1, <2>4 DEF OpenOffers
    <3>2. \A o \in BoughtOffers(q) : insuranceOffers'[o] = insuranceOffers[o]
      BY <1>1 DEF BoughtOffers
    <3>. QED BY <1>2, <2>1, <2>2, <3>1, <3>2 DEF OneAt
  <2>. QED BY <2>3, <2>4
<1>. QED BY <1>3, <1>4, <1>5

LEMMA CancelledSound ==
  ASSUME MarketInv, UNCHANGED lifecycleVars, NEW id \in OfferIds, CancelInsuranceOffer(id)
  PROVE  OffersCapped' /\ \A q \in Tasks : PolicySound(q)' /\ OneAt(q)'
<1>0. BookTypes /\ life' = life /\ now' = now
  BY DEF MarketInv, lifecycleVars
<1>1. SameOffers /\ insuranceOffers[id].status = "Open" /\ insuranceOffers'[id].status = "Cancelled"
      /\ \A o \in OfferIds \ {id} : insuranceOffers'[o].status = insuranceOffers[o].status
  BY <1>0, OfferCancelled
<1>2. UNCHANGED insurancePolicies
  BY DEF CancelInsuranceOffer
<1>3. OffersCapped'
  BY <1>1 DEF MarketInv, OffersCapped, SameOffers
<1>4. ASSUME NEW q \in Tasks PROVE PolicySound(q)'
  BY <1>0, <1>2 DEF MarketInv, PolicySound, WindowOver
<1>5. ASSUME NEW q \in Tasks PROVE OneAt(q)'
  <2>1. BoughtOffers(q)' = BoughtOffers(q)
    BY <1>1 DEF BoughtOffers, SameOffers
  <2>2. OpenOffers(q) = {} => OpenOffers(q)' = {}
    BY <1>1 DEF OpenOffers, SameOffers
  <2>3. \A o \in BoughtOffers(q) : insuranceOffers'[o].insurer = insuranceOffers[o].insurer
                                 /\ insuranceOffers'[o].maxCoverage = insuranceOffers[o].maxCoverage
    BY <1>1 DEF BoughtOffers, SameOffers
  <2>4. OneAt(q)
    BY DEF MarketInv
  <2>. QED BY <1>2, <2>1, <2>2, <2>3, <2>4 DEF OneAt
<1>. QED BY <1>3, <1>4, <1>5

\* The purchase closes every other open offer of the task; an id never written makes
\* the empty policy of task 0.
LEMMA BoughtSound ==
  ASSUME MarketInv, UNCHANGED lifecycleVars, NEW t \in Tasks, NEW id \in OfferIds \cup {0},
         BuyInsurance(t, id)
  PROVE  OffersCapped' /\ \A q \in Tasks : PolicySound(q)' /\ OneAt(q)'
<1>0. BookTypes /\ LossInv /\ life' = life /\ now' = now
  BY DEF MarketInv, lifecycleVars
<1>1. /\ SameOffers
      /\ Offer(id).status = "Open" /\ Offer(id).taskId = t
      /\ \A o \in OfferIds : insuranceOffers'[o].status =
           IF o = id THEN "Active" ELSE IF o \in OtherOffers(t, id) THEN "Cancelled"
           ELSE insuranceOffers[o].status
      /\ insurancePolicies[t].status = "None"
      /\ \A q \in Tasks \ {t} : insurancePolicies'[q] = insurancePolicies[q]
      /\ insurancePolicies'[t].status = "Active"
      /\ insurancePolicies'[t].insurer = Offer(id).insurer
      /\ insurancePolicies'[t].maxCoverage = Offer(id).maxCoverage
      /\ insurancePolicies'[t].coverageBps = Offer(id).coverageBps
  BY <1>0, Bought
<1>2. OffersCapped'
  BY <1>1 DEF MarketInv, OffersCapped, SameOffers
<1>3. ASSUME NEW q \in Tasks PROVE PolicySound(q)'
  <2>1. PolicySound(q)
    BY DEF MarketInv
  <2>2. CASE q = t
    <3>1. Offer(id).coverageBps <= MaxCoverageBps
      BY <1>0 DEF MarketInv, OffersCapped, Offer, UnwrittenOffer, MaxCoverageBps
    <3>. QED BY <1>1, <2>2, <3>1 DEF PolicySound
  <2>3. CASE q # t
    BY <1>0, <1>1, <2>1, <2>3 DEF PolicySound, WindowOver
  <2>. QED BY <2>2, <2>3
<1>4. \A o \in OfferIds : /\ insuranceOffers'[o].insurer = insuranceOffers[o].insurer
                          /\ insuranceOffers'[o].taskId = insuranceOffers[o].taskId
                          /\ insuranceOffers'[o].maxCoverage = insuranceOffers[o].maxCoverage
  BY <1>1 DEF SameOffers
<1>5. OfferIds' = OfferIds
  BY <1>1 DEF SameOffers
<1>6. ASSUME NEW q \in Tasks \ {t} PROVE OneAt(q)'
  <2>1. OneAt(q)
    BY DEF MarketInv
  <2>2. \A o \in OfferIds : insuranceOffers[o].taskId = q =>
          insuranceOffers'[o].status = insuranceOffers[o].status
    BY <1>1 DEF OtherOffers, OpenOffers, Offer
  <2>3. BoughtOffers(q)' = BoughtOffers(q) /\ OpenOffers(q)' = OpenOffers(q)
    BY <1>4, <1>5, <2>2 DEF BoughtOffers, OpenOffers
  <2>4. \A o \in BoughtOffers(q) : o \in OfferIds
    BY DEF BoughtOffers
  <2>. QED BY <1>1, <1>4, <2>1, <2>3, <2>4 DEF OneAt
<1>7. OneAt(t)'
  <2>1. BoughtOffers(t) = {}
    BY <1>1 DEF MarketInv, OneAt
  <2>2. \A o \in OfferIds : insuranceOffers[o].taskId = t =>
          /\ insuranceOffers'[o].status # "Open"
          /\ insuranceOffers'[o].status = "Active" <=> o = id
    BY <1>1, <2>1 DEF OtherOffers, OpenOffers, BoughtOffers
  <2>3. OpenOffers(t)' = {}
    BY <1>4, <1>5, <2>2 DEF OpenOffers
  <2>4. CASE id \in OfferIds
    <3>1. BoughtOffers(t)' = {id}
      BY <1>1, <1>4, <1>5, <2>2, <2>4 DEF BoughtOffers, Offer
    <3>2. /\ insuranceOffers'[id].insurer = insurancePolicies'[t].insurer
          /\ insuranceOffers'[id].maxCoverage = insurancePolicies'[t].maxCoverage
      BY <1>1, <1>4, <2>4 DEF Offer
    <3>. QED BY <1>1, <2>3, <3>1, <3>2 DEF OneAt
  <2>5. CASE id \notin OfferIds
    <3>1. BoughtOffers(t)' = {}
      BY <1>4, <1>5, <2>2, <2>5 DEF BoughtOffers
    <3>2. t = 0 /\ insurancePolicies'[t].insurer = NoAgent /\ insurancePolicies'[t].maxCoverage = 0
      BY <1>1, <2>5 DEF Offer, UnwrittenOffer
    <3>. QED BY <1>1, <2>3, <3>1, <3>2 DEF OneAt
  <2>. QED BY <2>4, <2>5
<1>. QED BY <1>2, <1>3, <1>6, <1>7

-----------------------------------------------------------------------------
(* The capital of some of the insurers                                     *)

OpenOf(I) == {o \in Open : insuranceOffers[o].insurer \in I}
ActiveOf(I) == {t \in Active : insurancePolicies[t].insurer \in I}

\* What the insurers in I have locked in open offers and in policies in force, and
\* how many of these there are.
OfferCapital(I) ==
  SumFunctionOnSet([o \in OfferIds |-> insuranceOffers[o].maxCoverage], OpenOf(I))
PolicyCapital(I) == SumFunctionOnSet([t \in Tasks |-> CapitalOf(t)], ActiveOf(I))
PolicyCount(I) == SumFunctionOnSet([t \in Tasks |-> 1], ActiveOf(I))

LEMMA CapitalTypes ==
  ASSUME BookTypes, NEW I
  PROVE  /\ OpenOf(I) \in SUBSET OfferIds /\ IsFiniteSet(OpenOf(I))
         /\ ActiveOf(I) \in SUBSET Tasks /\ IsFiniteSet(ActiveOf(I))
         /\ OfferCapital(I) \in Nat /\ PolicyCapital(I) \in Nat /\ PolicyCount(I) \in Nat
<1>1. OpenOf(I) \in SUBSET OfferIds
  BY DEF OpenOf, Open
<1>2. IsFiniteSet(OpenOf(I)) /\ OfferCapital(I) \in Nat
  BY <1>1, SumsOfOffers DEF OfferCapital
<1>3. ActiveOf(I) \in SUBSET Tasks /\ ActiveOf(I) \subseteq Active
  BY DEF ActiveOf, Active
<1>4. IsFiniteSet(ActiveOf(I))
  BY <1>3, FS_Subset DEF BookTypes
<1>5. PolicyCapital(I) \in Nat
  <2>. DEFINE capitals == [t \in Tasks |-> CapitalOf(t)]
  <2>1. \A t \in ActiveOf(I) : capitals[t] \in Nat
    BY <1>3, PolicyFields
  <2>. HIDE DEF capitals
  <2>2. SumFunctionOnSet(capitals, ActiveOf(I)) \in Nat
    BY <1>4, <2>1, SumNat
  <2>. QED BY <2>2 DEF PolicyCapital, capitals
<1>6. PolicyCount(I) \in Nat
  <2>. DEFINE ones == [t \in Tasks |-> 1]
  <2>1. \A t \in ActiveOf(I) : ones[t] \in Nat
    BY <1>3
  <2>. HIDE DEF ones
  <2>2. SumFunctionOnSet(ones, ActiveOf(I)) \in Nat
    BY <1>4, <2>1, SumNat
  <2>. QED BY <2>2 DEF PolicyCount, ones
<1>. QED BY <1>1, <1>2, <1>3, <1>4, <1>5, <1>6

\* A sum over one element.
LEMMA SumOne ==
  ASSUME NEW fun, NEW e, fun[e] \in Int
  PROVE  SumFunctionOnSet(fun, {e}) = fun[e]
<1>1. IsFiniteSet({}) /\ {} \cup {e} = {e}
  BY FS_EmptySet
<1>2. SumFunctionOnSet(fun, {} \cup {e}) = fun[e] + SumFunctionOnSet(fun, {})
  <2>1. e \notin {} /\ \A x \in {} \cup {e} : fun[x] \in Int
    OBVIOUS
  <2>. QED BY <1>1, <2>1, SumAdd
<1>. QED BY <1>1, <1>2, SumEmpty

LEMMA OfferOpens ==
  ASSUME BookTypes, NEW n, n \notin OfferIds, OfferIds' = OfferIds \cup {n},
         \A o \in OfferIds : insuranceOffers'[o] = insuranceOffers[o],
         insuranceOffers'[n].status = "Open",
         NEW cover \in Nat, insuranceOffers'[n].maxCoverage = cover, NEW I
  PROVE  OfferCapital(I)' =
           OfferCapital(I) + (IF insuranceOffers'[n].insurer \in I THEN cover ELSE 0)
<1>. DEFINE covers == [o \in OfferIds |-> insuranceOffers[o].maxCoverage]
            after == [o \in OfferIds' |-> insuranceOffers'[o].maxCoverage]
            S == OpenOf(I)
<1>1. /\ \A o \in S : covers[o] \in Int /\ after[o] = covers[o]
      /\ after[n] = cover
      /\ n \notin S /\ IsFiniteSet(S) /\ OfferCapital(I) \in Nat
  BY OfferFields, CapitalTypes
<1>2. OpenOf(I)' = IF insuranceOffers'[n].insurer \in I THEN S \cup {n} ELSE S
  BY DEF OpenOf, Open
<1>3. OfferCapital(I)' = SumFunctionOnSet(after, OpenOf(I)')
      /\ OfferCapital(I) = SumFunctionOnSet(covers, S)
  BY DEF OfferCapital
<1>. HIDE DEF covers, after, S
<1>4. SumFunctionOnSet(after, S) = SumFunctionOnSet(covers, S)
  BY <1>1, SumSame
<1>5. SumFunctionOnSet(after, S \cup {n}) = cover + SumFunctionOnSet(after, S)
  <2>1. \A o \in S \cup {n} : after[o] \in Int
    BY <1>1
  <2>. QED BY <1>1, <2>1, SumAdd
<1>. QED BY <1>1, <1>2, <1>3, <1>4, <1>5

LEMMA OffersClose ==
  ASSUME BookTypes, SameOffers, NEW gone \in SUBSET Open,
         \A o \in OfferIds : insuranceOffers'[o].status = "Open" <=> o \in Open \ gone,
         NEW I
  PROVE  /\ OfferCapital(I)' =
              OfferCapital(I)
              - SumFunctionOnSet([o \in OfferIds |-> insuranceOffers[o].maxCoverage],
                                 {o \in gone : insuranceOffers[o].insurer \in I})
         /\ SumFunctionOnSet([o \in OfferIds |-> insuranceOffers[o].maxCoverage],
                             {o \in gone : insuranceOffers[o].insurer \in I}) \in Nat
<1>. DEFINE covers == [o \in OfferIds |-> insuranceOffers[o].maxCoverage]
            after == [o \in OfferIds' |-> insuranceOffers'[o].maxCoverage]
            S == OpenOf(I)
            T == {o \in gone : insuranceOffers[o].insurer \in I}
<1>1. /\ \A o \in S : covers[o] \in Int /\ after[o] = covers[o]
      /\ IsFiniteSet(S)
  BY OfferFields, CapitalTypes DEF SameOffers
<1>2. T \in SUBSET S /\ T \in SUBSET OfferIds
  BY DEF OpenOf, Open
<1>3. OpenOf(I)' = S \ T
  BY DEF OpenOf, Open, SameOffers
<1>4. OfferCapital(I)' = SumFunctionOnSet(after, S \ T)
      /\ OfferCapital(I) = SumFunctionOnSet(covers, S) /\ OfferCapital(I) \in Nat
  BY <1>3, CapitalTypes DEF OfferCapital
<1>5. SumFunctionOnSet(covers, T) \in Nat
  BY <1>2, SumsOfOffers
<1>. HIDE DEF covers, after, S, T
<1>6. SumFunctionOnSet(covers, S) = SumFunctionOnSet(covers, T) + SumFunctionOnSet(covers, S \ T)
  BY <1>1, <1>2, SumSplit
<1>7. IsFiniteSet(S \ T) /\ \A o \in S \ T : covers[o] \in Int /\ covers[o] = after[o]
  BY <1>1, FS_Subset
<1>8. SumFunctionOnSet(covers, S \ T) = SumFunctionOnSet(after, S \ T)
      /\ SumFunctionOnSet(covers, S \ T) \in Int
  BY <1>7, SumSame, SumInt
<1>9. OfferCapital(I)' = OfferCapital(I) - SumFunctionOnSet(covers, T)
  BY <1>4, <1>5, <1>6, <1>8
<1>. QED BY <1>5, <1>9 DEF covers, T

LEMMA PolicyBegins ==
  ASSUME BookTypes, NEW t \in Tasks, t \notin Active, Active' = Active \cup {t},
         \A q \in Tasks \ {t} : insurancePolicies'[q] = insurancePolicies[q],
         NEW n \in Nat, insurancePolicies'[t].maxCoverage = n, NEW I
  PROVE  /\ PolicyCapital(I)' =
              PolicyCapital(I) + (IF insurancePolicies'[t].insurer \in I THEN n ELSE 0)
         /\ PolicyCount(I)' =
              PolicyCount(I) + (IF insurancePolicies'[t].insurer \in I THEN 1 ELSE 0)
<1>. DEFINE capitals == [q \in Tasks |-> CapitalOf(q)]
            after == [q \in Tasks |-> insurancePolicies'[q].maxCoverage]
            ones == [q \in Tasks |-> 1]
            S == ActiveOf(I)
<1>1. /\ \A q \in S : /\ capitals[q] \in Int /\ after[q] = capitals[q] /\ ones[q] \in Int
                      /\ q \in Tasks \ {t}
      /\ after[t] = n /\ ones[t] = 1
      /\ t \notin S /\ IsFiniteSet(S) /\ PolicyCapital(I) \in Nat /\ PolicyCount(I) \in Nat
  <2>1. S \in SUBSET Tasks /\ S \in SUBSET Active
    BY DEF ActiveOf, Active
  <2>. HIDE DEF S
  <2>2. IsFiniteSet(S) /\ PolicyCapital(I) \in Nat /\ PolicyCount(I) \in Nat
    BY CapitalTypes DEF S
  <2>. QED BY <2>1, <2>2, PolicyFields DEF CapitalOf
<1>2. ActiveOf(I)' = IF insurancePolicies'[t].insurer \in I THEN S \cup {t} ELSE S
  <2>1. \A q \in Active : q # t /\ insurancePolicies'[q] = insurancePolicies[q]
    BY DEF Active
  <2>. QED BY <2>1 DEF ActiveOf
<1>3. /\ PolicyCapital(I)' = SumFunctionOnSet(after, ActiveOf(I)')
      /\ PolicyCapital(I) = SumFunctionOnSet(capitals, S)
      /\ PolicyCount(I)' = SumFunctionOnSet(ones, ActiveOf(I)')
      /\ PolicyCount(I) = SumFunctionOnSet(ones, S)
  BY DEF PolicyCapital, PolicyCount, CapitalOf
<1>. HIDE DEF capitals, after, ones, S
<1>4. SumFunctionOnSet(after, S) = SumFunctionOnSet(capitals, S)
  BY <1>1, SumSame
<1>5. /\ SumFunctionOnSet(after, S \cup {t}) = n + SumFunctionOnSet(after, S)
      /\ SumFunctionOnSet(ones, S \cup {t}) = 1 + SumFunctionOnSet(ones, S)
  <2>1. \A q \in S \cup {t} : after[q] \in Int /\ ones[q] \in Int
    BY <1>1
  <2>. QED BY <1>1, <2>1, SumAdd
<1>6. CASE insurancePolicies'[t].insurer \in I
  BY <1>1, <1>2, <1>3, <1>4, <1>5, <1>6
<1>7. CASE insurancePolicies'[t].insurer \notin I
  BY <1>1, <1>2, <1>3, <1>4, <1>7
<1>. QED BY <1>6, <1>7

LEMMA PolicyEnds ==
  ASSUME BookTypes, NEW t \in Tasks, t \in Active, Active' = Active \ {t},
         \A q \in Tasks \ {t} : insurancePolicies'[q] = insurancePolicies[q], NEW I
  PROVE  /\ PolicyCapital(I)' = PolicyCapital(I)
              - (IF insurancePolicies[t].insurer \in I THEN CapitalOf(t) ELSE 0)
         /\ PolicyCount(I)' = PolicyCount(I)
              - (IF insurancePolicies[t].insurer \in I THEN 1 ELSE 0)
<1>. DEFINE capitals == [q \in Tasks |-> CapitalOf(q)]
            after == [q \in Tasks |-> insurancePolicies'[q].maxCoverage]
            ones == [q \in Tasks |-> 1]
            S == ActiveOf(I)
<1>1. /\ \A q \in S : capitals[q] \in Int /\ ones[q] \in Int /\ (q # t => after[q] = capitals[q])
      /\ capitals[t] = CapitalOf(t) /\ ones[t] = 1 /\ CapitalOf(t) \in Nat
      /\ IsFiniteSet(S) /\ PolicyCapital(I) \in Nat /\ PolicyCount(I) \in Nat
  <2>1. S \in SUBSET Tasks
    BY DEF ActiveOf, Active
  <2>. HIDE DEF S
  <2>2. IsFiniteSet(S) /\ PolicyCapital(I) \in Nat /\ PolicyCount(I) \in Nat
    BY CapitalTypes DEF S
  <2>. QED BY <2>1, <2>2, PolicyFields DEF CapitalOf
<1>2. ActiveOf(I)' = S \ {t} /\ (t \in S <=> insurancePolicies[t].insurer \in I)
  <2>1. \A q \in Active \ {t} : insurancePolicies'[q] = insurancePolicies[q]
    BY DEF Active
  <2>. QED BY <2>1 DEF ActiveOf
<1>3. /\ PolicyCapital(I)' = SumFunctionOnSet(after, S \ {t})
      /\ PolicyCapital(I) = SumFunctionOnSet(capitals, S)
      /\ PolicyCount(I)' = SumFunctionOnSet(ones, S \ {t})
      /\ PolicyCount(I) = SumFunctionOnSet(ones, S)
  BY <1>2 DEF PolicyCapital, PolicyCount, CapitalOf
<1>. HIDE DEF capitals, after, ones, S
<1>4. SumFunctionOnSet(capitals, S \ {t}) = SumFunctionOnSet(after, S \ {t})
  <2>1. IsFiniteSet(S \ {t}) /\ \A q \in S \ {t} : capitals[q] \in Int /\ capitals[q] = after[q]
    BY <1>1, FS_RemoveElement
  <2>. QED BY <2>1, SumSame
<1>5. CASE t \in S
  <2>1. /\ SumFunctionOnSet(capitals, S) = capitals[t] + SumFunctionOnSet(capitals, S \ {t})
        /\ SumFunctionOnSet(capitals, S \ {t}) \in Int
        /\ SumFunctionOnSet(ones, S) = ones[t] + SumFunctionOnSet(ones, S \ {t})
        /\ SumFunctionOnSet(ones, S \ {t}) \in Int
    BY <1>1, <1>5, SumRemove
  <2>. QED BY <1>1, <1>2, <1>3, <1>4, <1>5, <2>1
<1>6. CASE t \notin S
  <2>1. S \ {t} = S
    BY <1>6
  <2>2. PolicyCapital(I)' = PolicyCapital(I) /\ PolicyCount(I)' = PolicyCount(I)
    BY <1>3, <1>4, <2>1
  <2>3. insurancePolicies[t].insurer \notin I
    BY <1>2, <1>6
  <2>4. PolicyCapital(I) \in Nat /\ PolicyCount(I) \in Nat
    BY <1>1
  <2>. QED BY <2>2, <2>3, <2>4
<1>. QED BY <1>5, <1>6

-----------------------------------------------------------------------------
(* The books                                                               *)

OneToken == \A t \in Tasks : TokenOf[t] = DefaultToken

\* The ledger of each account, of address(0) too, is its open offers and its policies
\* in force.  With one token the contract holds the sum of all and the fees.
BooksInv ==
  /\ \A i \in Accounts :
       /\ insurerLockedCapital[i] = OfferCapital({i}) + PolicyCapital({i})
       /\ insurerActivePolicies[i] = PolicyCount({i})
  /\ OneToken => balance[DefaultToken] =
                   OfferCapital(Accounts) + PolicyCapital(Accounts) + protocolTreasury

\* Steps that touch no policy, or no offer, leave those sums as they were.
LEMMA SamePolicies ==
  ASSUME UNCHANGED insurancePolicies, NEW I
  PROVE  PolicyCapital(I)' = PolicyCapital(I) /\ PolicyCount(I)' = PolicyCount(I)
BY DEF PolicyCapital, PolicyCount, CapitalOf, ActiveOf, Active

LEMMA SameOpenOffers ==
  ASSUME UNCHANGED insuranceOffers, NEW I
  PROVE  OfferCapital(I)' = OfferCapital(I)
BY DEF OfferCapital, OpenOf, Open, OfferIds

LEMMA OfferedBooks ==
  ASSUME BookTypes, LossInv, BooksInv, NEW insurer \in Insurers, NEW t \in Tasks,
         NEW c \in Coverages, NEW p \in Premiums, NEW h, OfferInsurance(insurer, t, c, p, h)
  PROVE  BooksInv'
<1>1. PICK n, cover \in Nat :
        /\ n \notin OfferIds /\ OfferIds' = OfferIds \cup {n}
        /\ \A o \in OfferIds : insuranceOffers'[o] = insuranceOffers[o]
        /\ insuranceOffers'[n].insurer = insurer
        /\ insuranceOffers'[n].maxCoverage = cover /\ insuranceOffers'[n].status = "Open"
        /\ insurerLockedCapital' = [insurerLockedCapital EXCEPT ![insurer] = @ + cover]
        /\ balance' = [balance EXCEPT ![TokenOf[t]] = @ + cover]
  BY Offered
<1>2. UNCHANGED <<insurancePolicies, insurerActivePolicies, protocolTreasury>>
  BY DEF OfferInsurance
<1>3. ASSUME NEW I
      PROVE  /\ OfferCapital(I)' = OfferCapital(I) + (IF insurer \in I THEN cover ELSE 0)
             /\ PolicyCapital(I)' = PolicyCapital(I) /\ PolicyCount(I)' = PolicyCount(I)
             /\ OfferCapital(I) \in Nat /\ PolicyCapital(I) \in Nat
  BY <1>1, <1>2, OfferOpens, SamePolicies, CapitalTypes
<1>4. ASSUME NEW i \in Accounts
      PROVE  /\ insurerLockedCapital'[i] = OfferCapital({i})' + PolicyCapital({i})'
             /\ insurerActivePolicies'[i] = PolicyCount({i})'
  <2>1. insurerLockedCapital'[i] = insurerLockedCapital[i] + (IF i = insurer THEN cover ELSE 0)
        /\ insurerLockedCapital[i] \in Int
    BY <1>1 DEF BookTypes
  <2>2. /\ insurerLockedCapital[i] = OfferCapital({i}) + PolicyCapital({i})
        /\ insurerActivePolicies[i] = PolicyCount({i})
    BY DEF BooksInv
  <2>3. OfferCapital({i})' = OfferCapital({i}) + (IF i = insurer THEN cover ELSE 0)
    BY <1>3
  <2>. QED BY <1>2, <1>3, <2>1, <2>2, <2>3
<1>5. ASSUME OneToken
      PROVE  balance'[DefaultToken] =
               OfferCapital(Accounts)' + PolicyCapital(Accounts)' + protocolTreasury'
  <2>1. balance'[DefaultToken] = balance[DefaultToken] + cover
    BY <1>1, <1>5, InsuranceAssumption DEF OneToken, BookTypes, InsuranceAssumption
  <2>2. balance[DefaultToken] = OfferCapital(Accounts) + PolicyCapital(Accounts) + protocolTreasury
    BY <1>5 DEF BooksInv
  <2>3. insurer \in Accounts /\ protocolTreasury \in Nat
    BY DEF Accounts, BookTypes
  <2>. QED BY <1>2, <1>3, <2>1, <2>2, <2>3
<1>. QED BY <1>4, <1>5 DEF BooksInv

LEMMA CancelledBooks ==
  ASSUME BookTypes, BooksInv, NEW id \in OfferIds, CancelInsuranceOffer(id)
  PROVE  BooksInv'
<1>. DEFINE n == insuranceOffers[id].maxCoverage
            insurer == insuranceOffers[id].insurer
            token == TokenOf[insuranceOffers[id].taskId]
            covers == [o \in OfferIds |-> insuranceOffers[o].maxCoverage]
            Gone(I) == {o \in {id} : insuranceOffers[o].insurer \in I}
<1>1. /\ n \in Nat /\ insurer \in Accounts /\ covers[id] = n
      /\ insuranceOffers[id].taskId \in Tasks
  BY OfferFields
<1>2. /\ insurerLockedCapital' = [insurerLockedCapital EXCEPT ![insurer] = @ - n]
      /\ balance' = [balance EXCEPT ![token] = @ - n]
      /\ UNCHANGED <<insurancePolicies, insurerActivePolicies, protocolTreasury>>
  BY DEF CancelInsuranceOffer, Pay
<1>3. ASSUME NEW I
      PROVE  /\ OfferCapital(I)' = OfferCapital(I) - (IF insurer \in I THEN n ELSE 0)
             /\ PolicyCapital(I)' = PolicyCapital(I) /\ PolicyCount(I)' = PolicyCount(I)
             /\ OfferCapital(I) \in Nat /\ PolicyCapital(I) \in Nat
  <2>1. {id} \in SUBSET Open /\ \A o \in OfferIds :
          insuranceOffers'[o].status = "Open" <=> o \in Open \ {id}
    BY OfferCancelled DEF Open
  <2>2. OfferCapital(I)' = OfferCapital(I) - SumFunctionOnSet(covers, Gone(I))
    <3>. DEFINE one == {id}
    <3>. HIDE DEF one
    <3>1. OfferCapital(I)' = OfferCapital(I)
            - SumFunctionOnSet([o \in OfferIds |-> insuranceOffers[o].maxCoverage],
                               {o \in one : insuranceOffers[o].insurer \in I})
      BY <2>1, OfferCancelled, OffersClose DEF one
    <3>. QED BY <3>1 DEF one
  <2>3. SumFunctionOnSet(covers, Gone(I)) = IF insurer \in I THEN n ELSE 0
    <3>1. CASE insurer \in I
      <4>1. Gone(I) = {id}
        BY <3>1
      <4>2. SumFunctionOnSet(covers, {id}) = n
        <5>. HIDE DEF covers, n
        <5>. QED BY <1>1, SumOne
      <4>. QED BY <3>1, <4>1, <4>2
    <3>2. CASE insurer \notin I
      <4>1. Gone(I) = {}
        BY <3>2
      <4>. QED BY <3>2, <4>1, SumEmpty
    <3>. QED BY <3>1, <3>2
  <2>. HIDE DEF n, insurer, covers, Gone
  <2>. QED BY <1>2, <2>2, <2>3, SamePolicies, CapitalTypes
<1>. HIDE DEF n, insurer, covers, Gone
<1>4. ASSUME NEW i \in Accounts
      PROVE  /\ insurerLockedCapital'[i] = OfferCapital({i})' + PolicyCapital({i})'
             /\ insurerActivePolicies'[i] = PolicyCount({i})'
  <2>1. insurerLockedCapital'[i] = insurerLockedCapital[i] - (IF i = insurer THEN n ELSE 0)
        /\ insurerLockedCapital[i] \in Int
    BY <1>1, <1>2 DEF BookTypes
  <2>2. /\ insurerLockedCapital[i] = OfferCapital({i}) + PolicyCapital({i})
        /\ insurerActivePolicies[i] = PolicyCount({i})
    BY DEF BooksInv
  <2>3. OfferCapital({i})' = OfferCapital({i}) - (IF i = insurer THEN n ELSE 0)
    BY <1>3
  <2>. QED BY <1>1, <1>2, <1>3, <2>1, <2>2, <2>3
<1>5. ASSUME OneToken
      PROVE  balance'[DefaultToken] =
               OfferCapital(Accounts)' + PolicyCapital(Accounts)' + protocolTreasury'
  <2>1. balance'[DefaultToken] = balance[DefaultToken] - n
    BY <1>1, <1>2, <1>5, InsuranceAssumption DEF OneToken, BookTypes, InsuranceAssumption
  <2>2. balance[DefaultToken] = OfferCapital(Accounts) + PolicyCapital(Accounts) + protocolTreasury
    BY <1>5 DEF BooksInv
  <2>3. protocolTreasury \in Nat
    BY DEF BookTypes
  <2>. QED BY <1>1, <1>2, <1>3, <2>1, <2>2, <2>3
<1>. QED BY <1>4, <1>5 DEF BooksInv

LEMMA ClosedBooks ==
  ASSUME BookTypes, BooksInv, NEW t \in Tasks, NEW end \in {"Claimed", "Settled"},
         NEW payout \in Nat, Close(t, end, payout)
  PROVE  BooksInv'
<1>. DEFINE n == CapitalOf(t)
            insurer == insurancePolicies[t].insurer
<1>1. n \in Nat /\ insurer \in Accounts
  BY PolicyFields
<1>2. /\ insurerLockedCapital' = [insurerLockedCapital EXCEPT ![insurer] = @ - n]
      /\ insurerActivePolicies' = [insurerActivePolicies EXCEPT ![insurer] = @ - 1]
      /\ balance' = [balance EXCEPT ![TokenOf[t]] = @ - n]
      /\ UNCHANGED <<insuranceOffers, protocolTreasury>>
  BY DEF Close, Pay, CapitalOf
<1>3. t \in Active /\ Active' = Active \ {t}
  BY Closed DEF Active
<1>4. ASSUME NEW I
      PROVE  /\ OfferCapital(I)' = OfferCapital(I)
             /\ PolicyCapital(I)' = PolicyCapital(I) - (IF insurer \in I THEN n ELSE 0)
             /\ PolicyCount(I)' = PolicyCount(I) - (IF insurer \in I THEN 1 ELSE 0)
             /\ OfferCapital(I) \in Nat /\ PolicyCapital(I) \in Nat /\ PolicyCount(I) \in Nat
  BY <1>2, <1>3, Closed, PolicyEnds, SameOpenOffers, CapitalTypes
<1>. HIDE DEF n, insurer
<1>5. ASSUME NEW i \in Accounts
      PROVE  /\ insurerLockedCapital'[i] = OfferCapital({i})' + PolicyCapital({i})'
             /\ insurerActivePolicies'[i] = PolicyCount({i})'
  <2>1. /\ insurerLockedCapital'[i] = insurerLockedCapital[i] - (IF i = insurer THEN n ELSE 0)
        /\ insurerActivePolicies'[i] = insurerActivePolicies[i] - (IF i = insurer THEN 1 ELSE 0)
    BY <1>1, <1>2 DEF BookTypes
  <2>2. /\ insurerLockedCapital[i] = OfferCapital({i}) + PolicyCapital({i})
        /\ insurerActivePolicies[i] = PolicyCount({i})
    BY DEF BooksInv
  <2>3. /\ PolicyCapital({i})' = PolicyCapital({i}) - (IF i = insurer THEN n ELSE 0)
        /\ PolicyCount({i})' = PolicyCount({i}) - (IF i = insurer THEN 1 ELSE 0)
    BY <1>4
  <2>. QED BY <1>1, <1>4, <2>1, <2>2, <2>3
<1>6. ASSUME OneToken
      PROVE  balance'[DefaultToken] =
               OfferCapital(Accounts)' + PolicyCapital(Accounts)' + protocolTreasury'
  <2>1. balance'[DefaultToken] = balance[DefaultToken] - n
    BY <1>1, <1>2, <1>6, InsuranceAssumption DEF OneToken, BookTypes, InsuranceAssumption
  <2>2. balance[DefaultToken] = OfferCapital(Accounts) + PolicyCapital(Accounts) + protocolTreasury
    BY <1>6 DEF BooksInv
  <2>3. protocolTreasury \in Nat
    BY DEF BookTypes
  <2>. QED BY <1>1, <1>2, <1>4, <2>1, <2>2, <2>3
<1>. QED BY <1>5, <1>6 DEF BooksInv

\* What the purchase of offer id unlocks for the insurers in I.
Unlocked(t, id, I) ==
  SumFunctionOnSet([o \in OfferIds |-> insuranceOffers[o].maxCoverage],
                   {o \in OtherOffers(t, id) : insuranceOffers[o].insurer \in I})

\* A purchase moves the capital of the offer bought to the policy, and unlocks that of
\* the other open offers of the task.
LEMMA BoughtCapital ==
  ASSUME BookTypes, LossInv, NEW t \in Tasks, NEW id \in OfferIds \cup {0}, BuyInsurance(t, id),
         NEW I
  PROVE  /\ Unlocked(t, id, I) \in Nat
         /\ OfferCapital(I)' + PolicyCapital(I)'
              = (OfferCapital(I) + PolicyCapital(I)) - Unlocked(t, id, I)
         /\ PolicyCount(I)' = PolicyCount(I) + (IF Offer(id).insurer \in I THEN 1 ELSE 0)
<1>. DEFINE covers == [o \in OfferIds |-> insuranceOffers[o].maxCoverage]
            others == OtherOffers(t, id)
            Of(S) == {o \in S : insuranceOffers[o].insurer \in I}
            n == Offer(id).maxCoverage
            insurer == Offer(id).insurer
            part == IF insurer \in I THEN n ELSE 0
            refund == Unlocked(t, id, I)
<1>1. n \in Nat
  BY OfferRead
<1>2. /\ SameOffers /\ Offer(id).status = "Open"
      /\ \A o \in OfferIds : insuranceOffers'[o].status =
           IF o = id THEN "Active" ELSE IF o \in others THEN "Cancelled"
           ELSE insuranceOffers[o].status
      /\ insurancePolicies[t].status = "None" /\ insurancePolicies'[t].status = "Active"
      /\ \A q \in Tasks \ {t} : insurancePolicies'[q] = insurancePolicies[q]
      /\ insurancePolicies'[t].insurer = insurer /\ insurancePolicies'[t].maxCoverage = n
  BY Bought
<1>3. others \in SUBSET Open /\ others \in SUBSET OfferIds /\ id \notin others
  BY DEF OtherOffers, OpenOffers, Open
<1>4. refund = SumFunctionOnSet(covers, Of(others))
  BY DEF Unlocked
<1>5. t \notin Active /\ Active' = Active \cup {t}
  BY <1>2 DEF Active
<1>6. /\ PolicyCapital(I)' = PolicyCapital(I) + part
      /\ PolicyCount(I)' = PolicyCount(I) + (IF insurer \in I THEN 1 ELSE 0)
      /\ PolicyCapital(I) \in Nat /\ OfferCapital(I) \in Nat
  <2>. HIDE DEF n, insurer
  <2>. QED BY <1>1, <1>2, <1>5, PolicyBegins, CapitalTypes
<1>. HIDE DEF others, refund
<1>7. Of(others) \in SUBSET OfferIds /\ id \notin Of(others)
  BY <1>3
<1>8. refund \in Nat /\ IsFiniteSet(Of(others))
  <2>. HIDE DEF Of
  <2>. QED BY <1>4, <1>7, SumsOfOffers
<1>9. ASSUME id \in OfferIds
      PROVE  OfferCapital(I)' + PolicyCapital(I)' = (OfferCapital(I) + PolicyCapital(I)) - refund
  <2>. DEFINE gone == others \cup {id}
  <2>1. Offer(id) = insuranceOffers[id]
    BY <1>9, OfferRead
  <2>2. gone \in SUBSET Open
    BY <1>2, <1>3, <1>9, <2>1 DEF Open
  <2>3. \A o \in OfferIds : insuranceOffers'[o].status = "Open" <=> o \in Open \ gone
    BY <1>2 DEF Open
  <2>4. OfferCapital(I)' = OfferCapital(I) - SumFunctionOnSet(covers, Of(gone))
    <3>. HIDE DEF gone
    <3>. QED BY <1>2, <2>2, <2>3, OffersClose
  <2>5. Of(gone) = IF insurer \in I THEN Of(others) \cup {id} ELSE Of(others)
    BY <2>1
  <2>6. covers[id] = n /\ \A o \in Of(others) \cup {id} : covers[o] \in Int
    BY <1>7, <1>9, <2>1, OfferFields
  <2>. HIDE DEF covers, Of, n, insurer, gone
  <2>7. SumFunctionOnSet(covers, Of(others) \cup {id}) = n + refund
    <3>. DEFINE T == Of(others)
    <3>1. IsFiniteSet(T) /\ id \notin T /\ (\A o \in T \cup {id} : covers[o] \in Int)
          /\ refund = SumFunctionOnSet(covers, T)
      BY <1>4, <1>7, <1>8, <2>6
    <3>. HIDE DEF T
    <3>2. SumFunctionOnSet(covers, T \cup {id}) = covers[id] + SumFunctionOnSet(covers, T)
      BY <3>1, SumAdd
    <3>. QED BY <2>6, <3>1, <3>2 DEF T
  <2>8. SumFunctionOnSet(covers, Of(gone)) = refund + part
    BY <1>1, <1>4, <1>8, <2>5, <2>7
  <2>9. part \in Nat
    BY <1>1
  <2>. HIDE DEF part
  <2>. QED BY <1>6, <1>8, <2>4, <2>8, <2>9
<1>10. ASSUME id \notin OfferIds
       PROVE  OfferCapital(I)' + PolicyCapital(I)' = (OfferCapital(I) + PolicyCapital(I)) - refund
  <2>1. n = 0 /\ part = 0
    BY <1>10, OfferRead DEF UnwrittenOffer
  <2>2. \A o \in OfferIds : insuranceOffers'[o].status = "Open" <=> o \in Open \ others
    BY <1>2, <1>10 DEF Open
  <2>3. OfferCapital(I)' = OfferCapital(I) - SumFunctionOnSet(covers, Of(others))
    BY <1>2, <1>3, <2>2, OffersClose
  <2>. HIDE DEF covers, Of, n, part
  <2>. QED BY <1>4, <1>6, <1>8, <2>1, <2>3
<1>. QED BY <1>6, <1>8, <1>9, <1>10 DEF refund

LEMMA BoughtBooks ==
  ASSUME BookTypes, LossInv, BooksInv, NEW t \in Tasks, NEW id \in OfferIds \cup {0},
         BuyInsurance(t, id)
  PROVE  BooksInv'
<1>. DEFINE others == OtherOffers(t, id)
            covers == [o \in OfferIds |-> insuranceOffers[o].maxCoverage]
            refund == SumFunctionOnSet(covers, others)
            cut == Share(Offer(id).premium, ProtocolFeeBps)
            insurer == Offer(id).insurer
<1>1. cut \in Nat /\ insurer \in Accounts
  BY OfferRead, ShareNat DEF ProtocolFeeBps
<1>2. /\ protocolTreasury' = protocolTreasury + cut
      /\ insurerActivePolicies' = [insurerActivePolicies EXCEPT ![insurer] = @ + 1]
      /\ insurerLockedCapital' = [a \in Accounts |-> insurerLockedCapital[a] - Locked(others, a)]
      /\ balance' = [balance EXCEPT ![TokenOf[t]] = @ - refund + cut]
  BY DEF BuyInsurance
<1>3. ASSUME NEW i \in Accounts
      PROVE  /\ insurerLockedCapital'[i] = OfferCapital({i})' + PolicyCapital({i})'
             /\ insurerActivePolicies'[i] = PolicyCount({i})'
  <2>. DEFINE one == {i}
              before == OfferCapital(one) + PolicyCapital(one)
              after == OfferCapital(one)' + PolicyCapital(one)'
              mine == Unlocked(t, id, one)
  <2>1. Locked(others, i) = mine
    <3>1. {o \in others : insuranceOffers[o].insurer = i}
            = {o \in others : insuranceOffers[o].insurer \in one}
      OBVIOUS
    <3>. QED BY <3>1 DEF Locked, Unlocked
  <2>. HIDE DEF others
  <2>2. /\ mine \in Nat
        /\ after = before - mine
        /\ PolicyCount(one)' = PolicyCount(one) + (IF insurer \in one THEN 1 ELSE 0)
    BY BoughtCapital
  <2>3. insurer \in one <=> insurer = i
    OBVIOUS
  <2>4. insurerLockedCapital[i] = before /\ insurerActivePolicies[i] = PolicyCount(one)
    BY DEF BooksInv
  <2>. HIDE DEF insurer, before, after, mine, one
  <2>5. insurerLockedCapital'[i] = insurerLockedCapital[i] - mine
    BY <1>2, <2>1 DEF mine
  <2>6. insurerActivePolicies'[i] = insurerActivePolicies[i] + (IF insurer = i THEN 1 ELSE 0)
    BY <1>1, <1>2 DEF BookTypes
  <2>7. insurerLockedCapital'[i] = after
    BY <2>2, <2>4, <2>5
  <2>8. insurerActivePolicies'[i] = PolicyCount(one)'
    BY <2>2, <2>3, <2>4, <2>6
  <2>. QED BY <2>7, <2>8 DEF after, one
<1>4. ASSUME OneToken
      PROVE  balance'[DefaultToken] =
               OfferCapital(Accounts)' + PolicyCapital(Accounts)' + protocolTreasury'
  <2>1. others = {o \in others : insuranceOffers[o].insurer \in Accounts}
    BY OfferFields DEF OtherOffers, OpenOffers
  <2>2. /\ refund \in Nat
        /\ OfferCapital(Accounts)' + PolicyCapital(Accounts)'
             = (OfferCapital(Accounts) + PolicyCapital(Accounts)) - refund
    <3>1. refund = Unlocked(t, id, Accounts)
      BY <2>1 DEF Unlocked
    <3>. HIDE DEF refund
    <3>. QED BY <3>1, BoughtCapital
  <2>3. balance[DefaultToken] = OfferCapital(Accounts) + PolicyCapital(Accounts) + protocolTreasury
    BY <1>4 DEF BooksInv
  <2>4. balance[DefaultToken] \in Nat /\ DefaultToken \in Tokens /\ TokenOf[t] = DefaultToken
        /\ balance \in [Tokens -> Nat] /\ protocolTreasury \in Nat
    BY <1>4, InsuranceAssumption DEF OneToken, BookTypes, InsuranceAssumption
  <2>5. OfferCapital(Accounts) \in Nat /\ PolicyCapital(Accounts) \in Nat
    BY CapitalTypes
  <2>. HIDE DEF others, covers, refund, cut
  <2>6. balance'[DefaultToken] = balance[DefaultToken] - refund + cut
    BY <1>2, <2>4
  <2>. QED BY <1>1, <1>2, <2>2, <2>3, <2>4, <2>5, <2>6
<1>. QED BY <1>3, <1>4 DEF BooksInv

LEMMA WithdrawnKeeps ==
  ASSUME BookTypes, BooksInv, WithdrawProtocolFees
  PROVE  BookTypes' /\ BooksInv'
<1>1. /\ balance[DefaultToken] >= protocolTreasury
      /\ balance' = [balance EXCEPT ![DefaultToken] = @ - protocolTreasury]
      /\ protocolTreasury' = 0
      /\ UNCHANGED <<insuranceOffers, insurancePolicies, insurerLockedCapital, insurerActivePolicies>>
  BY DEF WithdrawProtocolFees, Pay
<1>2. \A I : /\ OfferCapital(I)' = OfferCapital(I) /\ PolicyCapital(I)' = PolicyCapital(I)
             /\ PolicyCount(I)' = PolicyCount(I)
             /\ OfferCapital(I) \in Nat /\ PolicyCapital(I) \in Nat
  BY <1>1, SamePolicies, SameOpenOffers, CapitalTypes
<1>3. BookTypes'
  BY <1>1, InsuranceAssumption DEF BookTypes, Active, InsuranceAssumption
<1>4. balance'[DefaultToken] = balance[DefaultToken] - protocolTreasury
      /\ balance[DefaultToken] \in Nat /\ protocolTreasury \in Nat
  BY <1>1, InsuranceAssumption DEF BookTypes, InsuranceAssumption
<1>5. ASSUME NEW i \in Accounts
      PROVE  /\ insurerLockedCapital'[i] = OfferCapital({i})' + PolicyCapital({i})'
             /\ insurerActivePolicies'[i] = PolicyCount({i})'
  BY <1>1, <1>2 DEF BooksInv
<1>6. ASSUME OneToken
      PROVE  balance'[DefaultToken] =
               OfferCapital(Accounts)' + PolicyCapital(Accounts)' + protocolTreasury'
  BY <1>1, <1>2, <1>4, <1>6 DEF BooksInv
<1>. QED BY <1>3, <1>5, <1>6 DEF BooksInv

-----------------------------------------------------------------------------
(* The invariants                                                          *)

Inv == MarketInv /\ BooksInv

LEMMA InvInit == Init => Inv
<1>. SUFFICES ASSUME Init PROVE Inv
  OBVIOUS
<1>1. LossInv
  BY LossInit DEF Init
<1>2. OfferIds = {} /\ Active = {} /\ insuranceOffers \in Seq(OfferType)
  BY DEF Init, OfferIds, Active, NoPolicy
<1>3. NoPolicy \in PolicyType
  BY DEF NoPolicy, PolicyType
<1>4. BookTypes
  BY <1>2, <1>3, FS_EmptySet DEF Init, BookTypes
<1>5. ASSUME NEW t \in Tasks PROVE PolicySound(t) /\ OneAt(t)
  <2>1. insurancePolicies[t].status = "None" /\ insurancePolicies[t].coverageBps = 0
    BY DEF Init, NoPolicy
  <2>2. BoughtOffers(t) = {}
    BY <1>2 DEF BoughtOffers
  <2>. QED BY <2>1, <2>2 DEF PolicySound, OneAt, MaxCoverageBps
<1>6. \A I : OfferCapital(I) = 0 /\ PolicyCapital(I) = 0 /\ PolicyCount(I) = 0
  <2>. TAKE I
  <2>1. OpenOf(I) = {} /\ ActiveOf(I) = {}
    BY <1>2 DEF OpenOf, Open, ActiveOf
  <2>. QED BY <2>1, SumEmpty DEF OfferCapital, PolicyCapital, PolicyCount
<1>7. BooksInv
  BY <1>6, InsuranceAssumption DEF Init, BooksInv, InsuranceAssumption
<1>. QED BY <1>1, <1>2, <1>4, <1>5, <1>7 DEF Inv, MarketInv, OffersCapped

\* A step of the core changes no book, and no closed policy's ground.
LEMMA CoreStep ==
  ASSUME Inv, [LifecycleNext]_lifecycleVars, UNCHANGED insuranceVars
  PROVE  Inv'
<1>1. LossInv /\ LossInv'
  BY LossNext DEF Inv, MarketInv
<1>2. UNCHANGED <<insuranceOffers, insurancePolicies, insurerLockedCapital, insurerActivePolicies,
                  protocolTreasury, balance>>
  BY DEF insuranceVars
<1>3. BookTypes' /\ OffersCapped' /\ \A t \in Tasks : OneAt(t)'
  <2>1. BookTypes' /\ OffersCapped'
    BY <1>2 DEF Inv, MarketInv, BookTypes, Active, OffersCapped, OfferIds
  <2>2. ASSUME NEW t \in Tasks PROVE OneAt(t)'
    <3>1. BoughtOffers(t)' = BoughtOffers(t) /\ OpenOffers(t)' = OpenOffers(t) /\ OneAt(t)
      BY <1>2 DEF BoughtOffers, OpenOffers, OfferIds, Inv, MarketInv
    <3>. QED BY <1>2, <3>1 DEF OneAt
  <2>. QED BY <2>1, <2>2
<1>4. ASSUME NEW t \in Tasks PROVE PolicySound(t)'
  <2>1. PolicySound(t)
    BY DEF Inv, MarketInv
  <2>2. /\ life[t].phase = "Failed" => life'[t] = life[t]
        /\ life[t].phase = "Completed" /\ WindowOver(t) =>
             life'[t].phase = "Completed" /\ WindowOver(t)'
    BY <1>1, EndsStay
  <2>3. /\ insurancePolicies[t].status = "Claimed" =>
             /\ life'[t].phase = "Failed"
             /\ insurancePolicies[t].claimedAmount < life'[t].slashed + life'[t].bondSlashed
        /\ insurancePolicies[t].status = "Settled" =>
             life'[t].phase = "Completed" /\ WindowOver(t)'
    BY <2>1, <2>2 DEF PolicySound
  <2>. QED BY <1>2, <2>1, <2>3 DEF PolicySound
<1>5. BooksInv'
  <2>1. ASSUME NEW I
        PROVE  /\ OfferCapital(I)' = OfferCapital(I)
               /\ PolicyCapital(I)' = PolicyCapital(I) /\ PolicyCount(I)' = PolicyCount(I)
    BY <1>2, SamePolicies, SameOpenOffers
  <2>2. ASSUME NEW i \in Accounts
        PROVE  /\ insurerLockedCapital'[i] = OfferCapital({i})' + PolicyCapital({i})'
               /\ insurerActivePolicies'[i] = PolicyCount({i})'
    BY <1>2, <2>1 DEF Inv, BooksInv
  <2>3. ASSUME OneToken
        PROVE  balance'[DefaultToken] =
                 OfferCapital(Accounts)' + PolicyCapital(Accounts)' + protocolTreasury'
    BY <1>2, <2>1, <2>3 DEF Inv, BooksInv
  <2>. QED BY <2>2, <2>3 DEF BooksInv
<1>. QED BY <1>1, <1>3, <1>4, <1>5 DEF Inv, MarketInv

\* The three ways a policy ends.
LEMMA Ends ==
  ASSUME Inv, UNCHANGED lifecycleVars, NEW t \in Tasks,
         ClaimInsurance(t) \/ ClaimInsuranceAfterPostSlash(t) \/ SettleInsurance(t)
  PROVE  /\ BookTypes' /\ BooksInv' /\ OffersCapped'
         /\ \A q \in Tasks : PolicySound(q)' /\ OneAt(q)'
<1>0. /\ MarketInv /\ BookTypes /\ BooksInv /\ PolicySound(t)
      /\ life[t].slashed \in Nat /\ life[t].bondSlashed \in Nat
  BY DEF Inv, MarketInv, LossInv, LifecycleTypeOK, LifeType
<1>1. ASSUME NEW slash \in Nat, slash > 0, slash <= life[t].slashed + life[t].bondSlashed,
             life[t].phase = "Failed", Close(t, "Claimed", Payout(t, slash))
      PROVE  /\ BookTypes' /\ BooksInv' /\ OffersCapped'
             /\ \A q \in Tasks : PolicySound(q)' /\ OneAt(q)'
  <2>1. PICK payout \in Nat : payout = Payout(t, slash) /\ payout < slash
                              /\ payout <= insurancePolicies[t].maxCoverage
    BY <1>0, <1>1, PayoutBelowSlash
  <2>2. payout < life[t].slashed + life[t].bondSlashed
    BY <1>0, <1>1, <2>1
  <2>3. Close(t, "Claimed", payout)
    BY <1>1, <2>1
  <2>. QED BY <1>0, <1>1, <2>1, <2>2, <2>3, ClosedTypes, ClosedBooks, ClosedSound
<1>2. CASE ClaimInsurance(t)
  BY <1>0, <1>1, <1>2 DEF ClaimInsurance, Claimable
<1>3. CASE ClaimInsuranceAfterPostSlash(t)
  BY <1>0, <1>1, <1>3 DEF ClaimInsuranceAfterPostSlash, ClaimableAfterPostSlash
<1>4. CASE SettleInsurance(t)
  <2>1. Close(t, "Settled", 0) /\ life[t].phase = "Completed" /\ WindowOver(t) /\ 0 \in Nat
    BY <1>4 DEF SettleInsurance, Settleable
  <2>. QED BY <1>0, <2>1, ClosedTypes, ClosedBooks, ClosedSound
<1>. QED BY <1>2, <1>3, <1>4

LEMMA MarketStep ==
  ASSUME Inv, InsuranceNext, UNCHANGED lifecycleVars
  PROVE  Inv'
<1>0. MarketInv /\ BookTypes /\ BooksInv /\ LossInv
  BY DEF Inv, MarketInv
<1>1. LossInv'
  BY <1>0, LossNext
<1>2. SUFFICES /\ BookTypes' /\ BooksInv' /\ OffersCapped'
               /\ \A q \in Tasks : PolicySound(q)' /\ OneAt(q)'
  BY <1>1 DEF Inv, MarketInv
<1>3. CASE \E insurer \in Insurers, t \in Tasks, c \in Coverages, p \in Premiums, h \in Histories :
             OfferInsurance(insurer, t, c, p, h)
  BY <1>0, <1>3, OfferedTypes, OfferedBooks, OfferedSound
<1>4. CASE \E id \in OfferIds : CancelInsuranceOffer(id)
  BY <1>0, <1>4, CancelledTypes, CancelledBooks, CancelledSound
<1>5. CASE \E t \in Tasks, id \in OfferIds \cup {0} : BuyInsurance(t, id)
  BY <1>0, <1>5, BoughtTypes, BoughtBooks, BoughtSound
<1>6. CASE \E t \in Tasks : ClaimInsurance(t) \/ ClaimInsuranceAfterPostSlash(t) \/ SettleInsurance(t)
  BY <1>6, Ends
<1>7. CASE WithdrawProtocolFees
  <2>1. UNCHANGED <<insuranceOffers, insurancePolicies>> /\ life' = life /\ now' = now
    BY <1>7 DEF WithdrawProtocolFees, lifecycleVars
  <2>2. OffersCapped' /\ \A q \in Tasks : PolicySound(q)'
    BY <1>0, <2>1 DEF MarketInv, OffersCapped, OfferIds, PolicySound, WindowOver
  <2>3. ASSUME NEW q \in Tasks PROVE OneAt(q)'
    <3>1. BoughtOffers(q)' = BoughtOffers(q) /\ OpenOffers(q)' = OpenOffers(q) /\ OneAt(q)
      BY <1>0, <2>1 DEF BoughtOffers, OpenOffers, OfferIds, MarketInv
    <3>. QED BY <2>1, <3>1 DEF OneAt
  <2>. QED BY <1>0, <1>7, <2>2, <2>3, WithdrawnKeeps
<1>. QED BY <1>3, <1>4, <1>5, <1>6, <1>7 DEF InsuranceNext

LEMMA InvStep ==
  ASSUME Inv, [Next]_allVars
  PROVE  Inv'
<1>1. CASE LifecycleNext /\ UNCHANGED insuranceVars
  BY <1>1, CoreStep
<1>2. CASE InsuranceNext /\ UNCHANGED lifecycleVars
  BY <1>2, MarketStep
<1>3. CASE UNCHANGED allVars
  BY <1>3, CoreStep DEF allVars
<1>. QED BY <1>1, <1>2, <1>3 DEF Next

\* The strengthening that the theorems below read: every operation keeps it.
THEOREM InvAlways == Spec => []Inv
BY InvInit, InvStep, PTL DEF Spec

\* The checked subtractions of the contract never underflow, whatever the order of
\* offers, purchases, cancellations and claims: what is subtracted was added before.
THEOREM TypeCorrect == Spec => []TypeOK
<1>1. Inv => TypeOK
  <2>. SUFFICES ASSUME Inv PROVE TypeOK
    OBVIOUS
  <2>1. BookTypes /\ BooksInv /\ LifecycleTypeOK
    BY DEF Inv, MarketInv, LossInv
  <2>2. ASSUME NEW i \in Accounts
        PROVE  insurerLockedCapital[i] \in Nat /\ insurerActivePolicies[i] \in Nat
    <3>1. OfferCapital({i}) \in Nat /\ PolicyCapital({i}) \in Nat /\ PolicyCount({i}) \in Nat
      BY <2>1, CapitalTypes
    <3>. QED BY <2>1, <3>1 DEF BooksInv
  <2>. QED BY <2>1, <2>2 DEF TypeOK, BookTypes
<1>. QED BY <1>1, InvAlways, PTL

\* A task has one policy at most, and it is the one offer of the task that was bought;
\* no offer of a task with a policy can still be bought.
THEOREM OnePolicyAlways == Spec => []OnePolicy
<1>1. Inv => OnePolicy
  BY DEF Inv, MarketInv, OnePolicy, OneAt, BoughtOffers
<1>. QED BY <1>1, InvAlways, PTL

\* An agent never gains by failing: the claim pays less than the core took from it.
THEOREM NeverProfit == Spec => []NoProfit
<1>1. Inv => NoProfit
  <2>. SUFFICES ASSUME Inv, NEW t \in Tasks, insurancePolicies[t].status = "Claimed"
                PROVE  LET policy == insurancePolicies[t]
                           loss == life[t].slashed + life[t].bondSlashed
                       IN /\ life[t].phase = "Failed"
                          /\ policy.claimedAmount <= loss
                          /\ policy.maxCoverage > 0 => policy.claimedAmount < loss
                          /\ policy.claimedAmount <= policy.maxCoverage
    BY DEF NoProfit
  <2>1. PolicySound(t) /\ insurancePolicies[t].claimedAmount \in Nat
        /\ life[t].slashed \in Nat /\ life[t].bondSlashed \in Nat
    BY PolicyFields DEF Inv, MarketInv, LossInv, LifecycleTypeOK, LifeType
  <2>. QED BY <2>1 DEF PolicySound
<1>. QED BY <1>1, InvAlways, PTL

\* A settled policy's task was not slashed and never will be.
THEOREM NeverSlashedOnceSettled == Spec => []SettledNeverSlashed
<1>1. Inv => SettledNeverSlashed
  BY DEF Inv, MarketInv, LossInv, LossInvAt, PolicySound, SettledNeverSlashed
<1>. QED BY <1>1, InvAlways, PTL

\* The second half of BooksExact: it needs no hypothesis on the tokens.
LedgersExact ==
  \A i \in Insurers :
    LET mine == {t \in Active : insurancePolicies[t].insurer = i}
    IN /\ insurerLockedCapital[i] =
            Capital({id \in Open : insuranceOffers[id].insurer = i}, mine)
       /\ insurerActivePolicies[i] = SumFunctionOnSet([t \in Tasks |-> 1], mine)

LEMMA BooksInvExact ==
  ASSUME Inv
  PROVE  LedgersExact /\ (OneToken => BooksExact)
<1>0. BookTypes /\ BooksInv
  BY DEF Inv, MarketInv
<1>1. ASSUME NEW i \in Insurers
      PROVE  LET mine == {t \in Active : insurancePolicies[t].insurer = i}
             IN /\ insurerLockedCapital[i] =
                     Capital({id \in Open : insuranceOffers[id].insurer = i}, mine)
                /\ insurerActivePolicies[i] = SumFunctionOnSet([t \in Tasks |-> 1], mine)
  <2>1. /\ {id \in Open : insuranceOffers[id].insurer = i} = OpenOf({i})
        /\ {t \in Active : insurancePolicies[t].insurer = i} = ActiveOf({i})
    BY DEF OpenOf, ActiveOf
  <2>2. /\ insurerLockedCapital[i] = OfferCapital({i}) + PolicyCapital({i})
        /\ insurerActivePolicies[i] = PolicyCount({i})
    BY <1>0 DEF BooksInv, Accounts
  <2>. QED BY <2>1, <2>2 DEF Capital, OfferCapital, PolicyCapital, PolicyCount
<1>2. LedgersExact
  BY <1>1 DEF LedgersExact
<1>3. OpenOf(Accounts) = Open /\ ActiveOf(Accounts) = Active
  BY <1>0, OfferFields, PolicyFields DEF OpenOf, Open, ActiveOf, Active
<1>4. Capital(Open, Active) = OfferCapital(Accounts) + PolicyCapital(Accounts)
  BY <1>3 DEF Capital, OfferCapital, PolicyCapital
<1>5. ASSUME OneToken PROVE BooksExact
  <2>1. balance[DefaultToken] = Capital(Open, Active) + protocolTreasury
    BY <1>0, <1>4, <1>5 DEF BooksInv
  <2>. QED BY <1>2, <2>1 DEF LedgersExact, BooksExact
<1>. QED BY <1>2, <1>5

\* The ledger of every insurer is its open offers and its policies in force, whatever the
\* tokens, though a purchase closes the offers of other insurers.
THEOREM LedgersAlwaysExact == Spec => []LedgersExact
BY InvAlways, BooksInvExact, PTL

\* Where every task is paid in one token the contract also holds exactly the capital that
\* is locked and its fees.  With several it does not: CapitalBacked is violated.
THEOREM BooksAlwaysExact ==
  ASSUME OneToken
  PROVE  Spec => []BooksExact
<1>1. Inv => BooksExact
  BY BooksInvExact
<1>. QED BY <1>1, InvAlways, PTL
=============================================================================
