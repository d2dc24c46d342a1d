----------------------- MODULE ArenaArbitrationProofs -----------------------
(***************************************************************************)
(* Theorems about disputes, for any number of tasks and any council: the   *)
(* contract holds what it owes but for the dust of rounded bonuses, no     *)
(* payout finds it short, and a verdict follows the votes.                 *)
(***************************************************************************)
EXTENDS ArenaArbitration, FiniteSums

-----------------------------------------------------------------------------
(* The inductive invariant                                                 *)

MemberType == [stake : Nat, vote : Sides \cup {"None", "Pending"}, staked : BOOLEAN]
DisputeType == [status : DisputeStatus, disputant : Agents \cup {NoAgent, Poster},
                fee : Nat, stakingDeadline : Nat, votingDeadline : Nat, stakedArbitrators : Nat,
                votesSubmitted : Nat, votesForAgent : Nat, votesForPoster : Nat]

\* TypeOK but for the balance, of which the money says that it is not negative.
Types ==
  /\ LifecycleTypeOK
  /\ arbitrations \in [Tasks -> DisputeType]
  /\ arbitrators \in [Tasks -> [Pool -> MemberType]]
  /\ protocolTreasury \in Nat /\ balance \in Int /\ paused \in BOOLEAN

Staked(t) == {v \in Council(t) : arbitrators[t][v].staked}

\* Until a council is drawn there is none and nobody voted.
Undrawn(t) ==
  /\ Council(t) = {} /\ arbitrations[t].votesSubmitted = 0
  /\ arbitrations[t].votesForAgent = 0 /\ arbitrations[t].votesForPoster = 0
  /\ arbitrations[t].stakedArbitrators = 0

\* A council of the right size, whose members alone have stakes.
Seated(t) ==
  /\ Cardinality(Council(t)) = CouncilSize
  /\ \A v \in Pool :
       /\ arbitrators[t][v].staked => v \in Council(t) /\ arbitrators[t][v].stake = CouncilStake
       /\ ~arbitrators[t][v].staked => arbitrators[t][v].stake = 0
  /\ arbitrations[t].stakedArbitrators = Cardinality(Staked(t))

\* Members stake before anybody votes.
Assembling(t) ==
  /\ Seated(t) /\ arbitrations[t].stakedArbitrators < CouncilSize
  /\ \A v \in Council(t) : arbitrators[t][v].vote = "Pending"
  /\ arbitrations[t].votesSubmitted = 0
  /\ arbitrations[t].votesForAgent = 0 /\ arbitrations[t].votesForPoster = 0

\* Everybody has staked, somebody has not voted, and the counters count the votes.
InSession(t) ==
  /\ Seated(t) /\ Staked(t) = Council(t)
  /\ arbitrations[t].votesForAgent = Votes(arbitrators[t], "InFavorOfAgent")
  /\ arbitrations[t].votesForPoster = Votes(arbitrators[t], "InFavorOfPoster")
  /\ arbitrations[t].votesSubmitted
       = arbitrations[t].votesForAgent + arbitrations[t].votesForPoster
  /\ arbitrations[t].votesSubmitted < CouncilSize

CouncilSound(t) ==
  /\ arbitrations[t].status \in {"None", "Selecting"} => Undrawn(t)
  /\ arbitrations[t].status = "Staking" => Assembling(t)
  /\ arbitrations[t].status = "Voting" => InSession(t)

ArbitrationInv ==
  /\ Types
  /\ \A t \in Tasks : CouncilSound(t)
  /\ HoldsOwed

-----------------------------------------------------------------------------
(* The life cycle under it                                                 *)

LEMMA ShareNat == \A amount, bps \in Nat : Share(amount, bps) \in Nat
BY DEF Share

LEMMA LifeBecomes ==
  ASSUME LifecycleTypeOK, NEW t \in Tasks, NEW after \in LifeType, Becomes(t, after)
  PROVE  LifecycleTypeOK'
BY DEF LifecycleTypeOK, Becomes

LEMMA LifeStep == ASSUME LifecycleTypeOK, [LifecycleNext]_lifecycleVars PROVE LifecycleTypeOK'
<1>1. CASE Advance
  BY <1>1, LifecycleAssumption DEF Advance, LifecycleTypeOK, LifecycleAssumption
<1>2. CASE UNCHANGED lifecycleVars
  BY <1>2 DEF LifecycleTypeOK, lifecycleVars
<1>3. ASSUME NEW t \in Tasks,
             TaskStep(t) \/ \E severity \in Severities : SlashBond(t, severity)
      PROVE  LifecycleTypeOK'
  <2>0. /\ life[t] \in LifeType /\ now \in 0 .. MaxTime
        /\ \A s \in DOMAIN SlashBps : SlashBps[s] \in Nat
        /\ BondBps \in Nat
    BY LifecycleAssumption DEF LifecycleTypeOK, LifecycleAssumption, SlashBps, BondBps
  <2>1. ASSUME NEW agent \in Agents, NEW stake \in Stakes, NEW window \in Windows,
               Assign(t, agent, stake, window)
        PROVE  LifecycleTypeOK'
    <3>1. [life[t] EXCEPT !.phase = "Assigned", !.agent = agent, !.stake = stake,
                          !.slashWindow = window] \in LifeType
      BY <2>0, LifecycleAssumption DEF LifeType, Phases, LifecycleAssumption
    <3>. QED BY <2>1, <3>1, LifeBecomes DEF Assign
  <2>2. CASE WithdrawStake(t)
    <3>1. [life[t] EXCEPT !.stake = 0] \in LifeType
      BY <2>0 DEF LifeType
    <3>. QED BY <2>2, <3>1, LifeBecomes DEF WithdrawStake
  <2>3. CASE Deliver(t)
    <3>1. [life[t] EXCEPT !.phase = "Delivered", !.deliveredAt = now] \in LifeType
      BY <2>0 DEF LifeType, Phases
    <3>. QED BY <2>3, <3>1, LifeBecomes DEF Deliver
  <2>4. CASE Verify(t) \/ Dispute(t) \/ Cancel(t)
    <3>1. \A phase \in Phases : [life[t] EXCEPT !.phase = phase] \in LifeType
      BY <2>0 DEF LifeType
    <3>. QED BY <2>4, <3>1, LifeBecomes DEF Verify, Dispute, Cancel, Phases
  <2>5. CASE Complete(t)
    <3>1. Share(life[t].stake, BondBps) \in Nat
      BY <2>0, ShareNat DEF LifeType
    <3>2. [life[t] EXCEPT !.phase = "Completed", !.bond = Share(life[t].stake, BondBps)]
            \in LifeType
      BY <2>0, <3>1 DEF LifeType, Phases
    <3>. QED BY <2>5, <3>2, LifeBecomes DEF Complete
  <2>6. ASSUME NEW severity \in {"Late", "Material"}, Fail(t, severity) PROVE LifecycleTypeOK'
    <3>0. SlashBps[severity] \in Nat
      BY DEF SlashBps
    <3>1. Share(life[t].stake, SlashBps[severity]) \in Nat
      BY <2>0, <3>0, ShareNat DEF LifeType
    <3>2. [life[t] EXCEPT !.phase = "Failed",
                          !.slashed = Share(life[t].stake, SlashBps[severity])] \in LifeType
      BY <2>0, <3>1 DEF LifeType, Phases
    <3>. QED BY <2>6, <3>2, LifeBecomes DEF Fail
  <2>7. CASE ClaimBond(t)
    <3>1. [life[t] EXCEPT !.bond = 0] \in LifeType
      BY <2>0 DEF LifeType
    <3>. QED BY <2>7, <3>1, LifeBecomes DEF ClaimBond
  <2>8. ASSUME NEW severity \in Severities, SlashBond(t, severity) PROVE LifecycleTypeOK'
    <3>1. SlashBps[severity] \in Nat
      BY <2>0, LifecycleAssumption DEF LifecycleAssumption, SlashBps
    <3>2. Share(life[t].bond, SlashBps[severity]) \in Nat
      BY <2>0, <3>1, ShareNat DEF LifeType
    <3>3. [life[t] EXCEPT !.phase = "Failed", !.bond = 0,
                          !.bondSlashed = Share(life[t].bond, SlashBps[severity])] \in LifeType
      BY <2>0, <3>2 DEF LifeType, Phases
    <3>. QED BY <2>8, <3>3, LifeBecomes DEF SlashBond
  <2>. QED BY <1>3, <2>1, <2>2, <2>3, <2>4, <2>5, <2>6, <2>7, <2>8 DEF TaskStep
<1>. QED BY <1>1, <1>2, <1>3 DEF LifecycleNext

-----------------------------------------------------------------------------
(* The money                                                               *)

LEMMA Constants ==
  /\ IsFiniteSet(Tasks) /\ IsFiniteSet(Pool) /\ CouncilSize \in Nat /\ CouncilSize > 0
  /\ CouncilStake \in Nat /\ CouncilStake > 0 /\ DisputeFee \in Nat /\ ArbitrationTimeout \in Nat
<1>1. Bounty * StakeMultiplier \in Nat /\ Bounty * StakeMultiplier > 0
  BY ArbitrationAssumption DEF ArbitrationAssumption, StakeMultiplier
<1>2. DisputeFee \in Nat
  BY ArbitrationAssumption, ShareNat DEF ArbitrationAssumption, DisputeFee, DisputeFeeBps
<1>. QED BY <1>1, <1>2, ArbitrationAssumption DEF ArbitrationAssumption, CouncilStake

LEMMA CouncilsFinite ==
  ASSUME NEW t \in Tasks
  PROVE  /\ IsFiniteSet(Council(t)) /\ IsFiniteSet(Staked(t))
         /\ Cardinality(Council(t)) \in Nat /\ Cardinality(Staked(t)) \in Nat
         /\ \A members, side : /\ IsFiniteSet(Voters(members, side))
                               /\ Votes(members, side) \in Nat
<1>1. /\ Council(t) \subseteq Pool /\ Staked(t) \subseteq Pool
      /\ \A members, side : Voters(members, side) \subseteq Pool
  BY DEF Council, Staked, Voters
<1>. QED BY <1>1, Constants, FS_Subset, FS_CardinalityType DEF Votes

LEMMA OwedNat == Types => \A t \in Tasks : Owed(t) \in Nat
<1>. SUFFICES ASSUME Types, NEW t \in Tasks PROVE Owed(t) \in Nat
  OBVIOUS
<1>. DEFINE stakes == Cardinality(Staked(t)) * CouncilStake
<1>1. arbitrations[t].fee \in Nat
  BY DEF Types, DisputeType
<1>2. stakes \in Nat
  BY CouncilsFinite, Constants
<1>3. Owed(t) = (IF t \in Disputing THEN arbitrations[t].fee ELSE 0)
                + (IF arbitrations[t].status \in {"Staking", "Voting"} THEN stakes ELSE 0)
  BY DEF Owed, Staked
<1>. HIDE DEF stakes
<1>. QED BY <1>1, <1>2, <1>3

LEMMA OwedNatNext == Types' => (\A t \in Tasks : Owed(t) \in Nat)'
BY OwedNat, PTL

\* A step on one task leaves the disputes of the others and what they are owed.
Alone(t) ==
  \A u \in Tasks \ {t} : arbitrations'[u] = arbitrations[u] /\ arbitrators'[u] = arbitrators[u]

LEMMA OthersKept ==
  ASSUME NEW t \in Tasks, Alone(t), NEW u \in Tasks \ {t}
  PROVE  /\ Owed(u)' = Owed(u)
         /\ u \in Resolved' <=> u \in Resolved
         /\ CouncilSound(u)' = CouncilSound(u)
<1>1. arbitrations'[u] = arbitrations[u] /\ arbitrators'[u] = arbitrators[u]
  BY DEF Alone
<1>2. Council(u)' = Council(u) /\ Staked(u)' = Staked(u)
  BY <1>1 DEF Council, Staked
<1>3. Owed(u)' = Owed(u)
  BY <1>1, <1>2 DEF Owed, Disputing
<1>4. u \in Resolved' <=> u \in Resolved
  BY <1>1 DEF Resolved
<1>5. CouncilSound(u)' = CouncilSound(u)
  BY <1>1, <1>2 DEF CouncilSound, Undrawn, Assembling, InSession, Seated
<1>. QED BY <1>3, <1>4, <1>5

LEMMA OneMoreBonus ==
  ASSUME NEW n \in Nat PROVE n * (CouncilSize - 1) \in Nat
                             /\ (n + 1) * (CouncilSize - 1) = n * (CouncilSize - 1) + CouncilSize - 1
BY Constants

\* A step on one task keeps the money if the dust it adds is none, or the rounding of a
\* bonus when it resolves the dispute.
Gains(t) ==
  (balance' - protocolTreasury' - Owed(t)') - (balance - protocolTreasury - Owed(t))

LEMMA MoneyMoves ==
  ASSUME ArbitrationInv, Types', NEW t \in Tasks, Alone(t),
         \/ Gains(t) = 0 /\ (t \in Resolved' <=> t \in Resolved)
         \/ Gains(t) \in 0 .. CouncilSize - 1 /\ t \in Resolved' /\ t \notin Resolved
  PROVE  HoldsOwed'
<1>. DEFINE f == [u \in Tasks |-> Owed(u)]
            g == [u \in Tasks |-> Owed(u)']
            total == SumFunctionOnSet(f, Tasks)
            after == SumFunctionOnSet(g, Tasks)
            dust == balance - protocolTreasury - total
            left == balance' - protocolTreasury' - after
            n == Cardinality(Resolved)
<1>1. /\ \A u \in Tasks : Owed(u) \in Nat /\ Owed(u)' \in Nat
      /\ balance \in Int /\ balance' \in Int /\ protocolTreasury \in Nat /\ protocolTreasury' \in Nat
  <2>1. Types
    BY DEF ArbitrationInv
  <2>2. \A u \in Tasks : Owed(u) \in Nat
    BY <2>1, OwedNat
  <2>3. \A u \in Tasks : Owed(u)' \in Nat
    BY OwedNatNext
  <2>. QED BY <2>1, <2>2, <2>3 DEF Types
<1>2. after = total - Owed(t) + Owed(t)' /\ total \in Int /\ after \in Int
  <2>1. after = total - f[t] + g[t]
    BY <1>1, OthersKept, Constants, SumUpdate
  <2>2. total \in Int /\ after \in Int
    BY <1>1, Constants, SumInt
  <2>. QED BY <2>1, <2>2
<1>3. 0 <= dust /\ dust <= n * (CouncilSize - 1)
  BY DEF ArbitrationInv, HoldsOwed, SumFunction
<1>4. left = dust + Gains(t) /\ dust \in Int
  <2>. HIDE DEF total, after
  <2>. QED BY <1>1, <1>2 DEF Gains
<1>5. /\ IsFiniteSet(Resolved) /\ n \in Nat
      /\ Resolved' \ {t} = Resolved \ {t} /\ Resolved \subseteq Tasks /\ Resolved' \subseteq Tasks
  <2>1. Resolved \subseteq Tasks /\ Resolved' \subseteq Tasks
    BY DEF Resolved
  <2>2. Resolved' \ {t} = Resolved \ {t}
    BY <2>1, OthersKept
  <2>. QED BY <2>1, <2>2, Constants, FS_Subset, FS_CardinalityType
<1>6. 0 <= left /\ left <= Cardinality(Resolved') * (CouncilSize - 1)
  <2>1. CASE Gains(t) = 0 /\ (t \in Resolved' <=> t \in Resolved)
    <3>1. Resolved' = Resolved
      <4>1. \A u \in Tasks : u \in Resolved' <=> u \in Resolved
        BY <2>1, OthersKept
      <4>. QED BY <1>5, <4>1
    <3>. QED BY <1>3, <1>4, <2>1, <3>1
  <2>2. CASE Gains(t) \in 0 .. CouncilSize - 1 /\ t \in Resolved' /\ t \notin Resolved
    <3>1. Resolved' = Resolved \cup {t}
      BY <1>5, <2>2
    <3>2. Cardinality(Resolved') = n + 1
      BY <1>5, <2>2, <3>1, FS_AddElement
    <3>3. /\ n * (CouncilSize - 1) \in Nat
          /\ (n + 1) * (CouncilSize - 1) = n * (CouncilSize - 1) + CouncilSize - 1
      BY <1>5, OneMoreBonus
    <3>. HIDE DEF dust, left, n
    <3>. QED BY <1>3, <1>4, <2>2, <3>2, <3>3, Constants
  <2>. QED BY <2>1, <2>2
<1>. QED BY <1>6 DEF HoldsOwed, SumFunction

LEMMA RoundedDown ==
  ASSUME NEW x \in Nat, NEW w \in Nat, w > 0
  PROVE  x \div w \in Nat /\ x - w * (x \div w) \in 0 .. w - 1
OBVIOUS

-----------------------------------------------------------------------------
(* Settlement                                                              *)

LEMMA DisjointUnion ==
  ASSUME NEW S, IsFiniteSet(S), NEW T, IsFiniteSet(T), S \cap T = {}
  PROVE  IsFiniteSet(S \cup T) /\ Cardinality(S \cup T) = Cardinality(S) + Cardinality(T)
<1>1. /\ IsFiniteSet(S \cup T)
      /\ Cardinality(S \cup T) = Cardinality(S) + Cardinality(T) - Cardinality(S \cap T)
  BY FS_Union
<1>2. Cardinality(S \cap T) = 0
  BY FS_EmptySet
<1>3. Cardinality(S) \in Nat /\ Cardinality(T) \in Nat
  BY FS_CardinalityType
<1>4. \A s, u, k \in Int : k = s + u - 0 => k = s + u
  OBVIOUS
<1>5. Cardinality(S \cup T) \in Nat
  BY <1>1, FS_CardinalityType
<1>. QED BY <1>1, <1>2, <1>3, <1>4, <1>5

LEMMA ClassesOfVotes ==
  ASSUME NEW info \in [Pool -> MemberType]
  PROVE  Cardinality({v \in Pool : info[v].vote # "None"})
           = Votes(info, "InFavorOfAgent") + Votes(info, "InFavorOfPoster") + Votes(info, "Pending")
<1>. DEFINE A == Voters(info, "InFavorOfAgent")
            B == Voters(info, "InFavorOfPoster")
            M == Voters(info, "Pending")
            C == {v \in Pool : info[v].vote # "None"}
<1>1. IsFiniteSet(A) /\ IsFiniteSet(B) /\ IsFiniteSet(M)
  <2>1. A \subseteq Pool /\ B \subseteq Pool /\ M \subseteq Pool
    BY DEF Voters
  <2>. QED BY <2>1, Constants, FS_Subset
<1>2. C = (A \cup B) \cup M
  BY DEF MemberType, Sides, Voters
<1>3. A \cap B = {} /\ (A \cup B) \cap M = {}
  BY DEF Voters
<1>4. IsFiniteSet(A \cup B) /\ Cardinality(A \cup B) = Cardinality(A) + Cardinality(B)
  BY <1>1, <1>3, DisjointUnion
<1>5. Cardinality(C) = Cardinality(A \cup B) + Cardinality(M)
  BY <1>1, <1>2, <1>3, <1>4, DisjointUnion
<1>. QED BY <1>4, <1>5 DEF Votes

\* Of a settlement with w winners, l losers and m silent members: what leaves the contract
\* and what the treasury takes are the fee and the stakes of all, but for the rounding.
LEMMA SettlementAddsUp ==
  ASSUME NEW w \in Nat, w > 0, NEW l \in Nat, NEW m \in Nat, NEW stake \in Nat,
         NEW loss \in Nat, NEW silent \in Nat, NEW fee \in Nat,
         NEW taken \in Nat, taken = l * loss,
         NEW kept \in Nat, kept = m * silent,
         NEW shared \in Nat, shared = (fee - fee \div 2) + (taken - taken \div 2)
  PROVE  fee + (w + l + m) * stake
           = (m * stake - kept) + l * (stake - loss) + w * (stake + shared \div w)
             + kept + fee \div 2 + taken \div 2
             + (shared - w * (shared \div w))
<1>. DEFINE bonus == shared \div w
<1>1. bonus \in Nat
  BY RoundedDown
<1>. HIDE DEF bonus
<1>2. /\ (w + l + m) * stake = w * stake + l * stake + m * stake
      /\ l * (stake - loss) = l * stake - l * loss
      /\ w * (stake + bonus) = w * stake + w * bonus
  BY <1>1
<1>3. /\ w * stake \in Int /\ l * stake \in Int /\ m * stake \in Int /\ w * bonus \in Int
      /\ fee \div 2 \in Int /\ taken \div 2 \in Int
  BY <1>1
<1>4. fee + (w + l + m) * stake
           = (m * stake - kept) + l * (stake - loss) + w * (stake + bonus)
             + kept + fee \div 2 + taken \div 2
             + (shared - w * bonus)
  <2>. DEFINE p == w * stake
              q == l * stake
              r == m * stake
              b == w * bonus
              f == fee \div 2
              h == taken \div 2
  <2>1. p \in Int /\ q \in Int /\ r \in Int /\ b \in Int /\ f \in Int /\ h \in Int
    BY <1>3
  <2>2. shared = (fee - f) + (taken - h)
    OBVIOUS
  <2>3. /\ (w + l + m) * stake = p + q + r
        /\ l * (stake - loss) = q - taken
        /\ w * (stake + bonus) = p + b
    BY <1>2
  <2>. HIDE DEF p, q, r, b, f, h
  <2>4. fee + (p + q + r) = (r - kept) + (q - taken) + (p + b) + kept + f + h + (shared - b)
    BY <2>1, <2>2
  <2>. QED BY <2>3, <2>4 DEF r, b, f, h
<1>. QED BY <1>4 DEF bonus

\* What a settlement starts from: the votes are counted, who voted has a stake, and
\* whoever of the council is silent, m members, has none any more.
Ready(t, arb, info, m) ==
  /\ arb \in DisputeType /\ arb.fee = arbitrations[t].fee
  /\ info \in [Pool -> MemberType]
  /\ arb.votesForAgent = Votes(info, "InFavorOfAgent")
  /\ arb.votesForPoster = Votes(info, "InFavorOfPoster")
  /\ arb.votesForAgent + arb.votesForPoster > 0
  /\ m \in Nat /\ arb.votesForAgent + arb.votesForPoster + m = CouncilSize
  /\ \A v \in Pool : info[v].vote \in Sides => info[v].staked /\ info[v].stake = CouncilStake
  /\ \A v \in Pool : info[v].staked /\ info[v].stake # 0 => info[v].vote \in Sides

SilentLoss == Share(CouncilStake, TimeoutSlashBps)

\* The money of a settlement, and what it leaves of the dispute.
SettledAs(t, arb, info, w, l, m, dust) ==
  /\ arbitrations' = [arbitrations EXCEPT ![t] = [arb EXCEPT !.status = "Resolved"]]
  /\ arbitrators'[t] \in [Pool -> MemberType]
  /\ arbitrators' = [arbitrators EXCEPT ![t] = arbitrators'[t]]
  /\ \A v \in Pool : arbitrators'[t][v].vote = info[v].vote
  /\ w \in Nat /\ w > 0 /\ l \in Nat /\ w + l + m = CouncilSize
  /\ dust \in 0 .. w - 1
  /\ protocolTreasury' \in Nat /\ balance' \in Int
  /\ balance' - protocolTreasury'
       = balance - protocolTreasury - (arb.fee + CouncilSize * CouncilStake) + dust
  /\ Becomes(t, [life[t] EXCEPT !.phase = IF FavoursAgent(arb) THEN "Completed" ELSE "Failed"])
  /\ UNCHANGED paused

LEMMA SettleComputes ==
  ASSUME Types, NEW t \in Tasks, NEW arb, NEW info, NEW m, Ready(t, arb, info, m),
         Settle(t, arb, info, m * SilentLoss, m * CouncilStake - m * SilentLoss)
  PROVE  \E w, l, dust : SettledAs(t, arb, info, w, l, m, dust)
<1>. DEFINE winning == IF FavoursAgent(arb) THEN "InFavorOfAgent" ELSE "InFavorOfPoster"
            losing == IF FavoursAgent(arb) THEN "InFavorOfPoster" ELSE "InFavorOfAgent"
            atStake == {v \in Pool : info[v].staked /\ info[v].stake # 0}
            winners == {v \in atStake : info[v].vote = winning}
            losers == {v \in atStake : info[v].vote \notin {winning, "Pending"}}
            w == Cardinality(winners)
            l == Cardinality(losers)
            loss == Share(CouncilStake, LoserSlashBps)
            kept == m * SilentLoss
            taken == l * loss
            shared == (arb.fee - arb.fee \div 2) + (taken - taken \div 2)
            bonus == shared \div w
            dust == shared - w * bonus
<1>1. winners = Voters(info, winning) /\ losers = Voters(info, losing)
  BY Constants DEF Ready, Voters, Sides
<1>2. /\ w = Votes(info, winning) /\ l = Votes(info, losing)
      /\ w \in Nat /\ l \in Nat /\ w > 0 /\ w + l + m = CouncilSize
  <2>1. w = Votes(info, winning) /\ l = Votes(info, losing)
    BY <1>1 DEF Votes
  <2>2. w \in Nat /\ l \in Nat
    BY <2>1, CouncilsFinite
  <2>3. arb.votesForAgent \in Nat /\ arb.votesForPoster \in Nat
    BY DEF Ready, DisputeType
  <2>. HIDE DEF w, l
  <2>. QED BY <2>1, <2>2, <2>3, Constants DEF Ready, FavoursAgent
<1>3. /\ loss \in Nat /\ SilentLoss \in Nat /\ arb.fee \in Nat /\ CouncilStake \in Nat
      /\ m \in Nat
  <2>1. LoserSlashBps \in Nat /\ TimeoutSlashBps \in Nat
    BY DEF LoserSlashBps, TimeoutSlashBps
  <2>. QED BY <2>1, Constants, ShareNat DEF Ready, DisputeType, SilentLoss
<1>4. taken \in Nat /\ kept \in Nat
  <2>. HIDE DEF loss, l
  <2>. QED BY <1>2, <1>3
<1>5. shared \in Nat /\ arb.fee \div 2 \in Nat /\ taken \div 2 \in Nat
  <2>1. \A n \in Nat : n \div 2 \in Nat /\ n - n \div 2 \in Nat
    OBVIOUS
  <2>. HIDE DEF taken
  <2>. QED BY <1>3, <1>4, <2>1
<1>6. bonus \in Nat /\ dust \in 0 .. w - 1
  <2>. HIDE DEF shared, w
  <2>. QED BY <1>2, <1>5, RoundedDown
<1>7. arb.fee + CouncilSize * CouncilStake
        = (m * CouncilStake - kept) + l * (CouncilStake - loss) + w * (CouncilStake + bonus)
          + kept + arb.fee \div 2 + taken \div 2 + dust
  <2>. HIDE DEF w, l, loss
  <2>. QED BY <1>2, <1>3, <1>4, <1>5, SettlementAddsUp
<1>8. /\ arbitrations' = [arbitrations EXCEPT ![t] = [arb EXCEPT !.status = "Resolved"]]
      /\ arbitrators' = [arbitrators EXCEPT ![t] =
           [v \in Pool |-> IF v \in winners \cup losers THEN [info[v] EXCEPT !.stake = 0]
                           ELSE info[v]]]
      /\ protocolTreasury' = protocolTreasury + kept + arb.fee \div 2 + taken \div 2
      /\ balance' = balance - (m * CouncilStake - kept) - l * PaidBack(CouncilStake)
                            - w * (CouncilStake + bonus)
      /\ Becomes(t, [life[t] EXCEPT !.phase = IF FavoursAgent(arb) THEN "Completed" ELSE "Failed"])
      /\ UNCHANGED paused
  BY DEF Settle
<1>9. PaidBack(CouncilStake) = CouncilStake - loss
  BY DEF PaidBack
<1>10. /\ arbitrators'[t] \in [Pool -> MemberType]
       /\ arbitrators' = [arbitrators EXCEPT ![t] = arbitrators'[t]]
       /\ \A v \in Pool : arbitrators'[t][v].vote = info[v].vote
  <2>1. /\ arbitrators'[t] = [v \in Pool |-> IF v \in winners \cup losers
                                            THEN [info[v] EXCEPT !.stake = 0] ELSE info[v]]
        /\ arbitrators' = [arbitrators EXCEPT ![t] = arbitrators'[t]]
    BY <1>8 DEF Types
  <2>2. ASSUME NEW v \in Pool
        PROVE  /\ info[v] \in MemberType
               /\ [info[v] EXCEPT !.stake = 0] \in MemberType
               /\ [info[v] EXCEPT !.stake = 0].vote = info[v].vote
    BY DEF Ready, MemberType
  <2>. HIDE DEF winners, losers
  <2>. QED BY <2>1, <2>2
<1>11. /\ protocolTreasury' \in Nat /\ balance' \in Int
       /\ balance' - protocolTreasury'
            = balance - protocolTreasury - (arb.fee + CouncilSize * CouncilStake) + dust
  <2>. DEFINE p == m * CouncilStake - kept
              q == l * (CouncilStake - loss)
              r == w * (CouncilStake + bonus)
              f == arb.fee \div 2
              h == taken \div 2
  <2>1. p \in Int /\ q \in Int /\ r \in Int /\ f \in Nat /\ h \in Nat
    <3>. HIDE DEF l, w, loss, bonus, taken, kept
    <3>. QED BY <1>2, <1>3, <1>4, <1>5, <1>6
  <2>2. /\ protocolTreasury' = protocolTreasury + kept + f + h
        /\ balance' = balance - p - q - r
        /\ arb.fee + CouncilSize * CouncilStake = p + q + r + kept + f + h + dust
    BY <1>7, <1>8, <1>9
  <2>3. protocolTreasury \in Nat /\ balance \in Int
    BY DEF Types
  <2>4. dust \in Int
    <3>. HIDE DEF dust, w
    <3>. QED BY <1>2, <1>6
  <2>. HIDE DEF p, q, r, f, h, kept, dust
  <2>. QED BY <1>4, <2>1, <2>2, <2>3, <2>4
<1>. HIDE DEF w, l, dust
<1>. QED BY <1>2, <1>6, <1>8, <1>10, <1>11 DEF SettledAs

\* The verdict on t, once its dispute is resolved, is what the votes say.
Verdict(t) ==
  life'[t].phase = "Completed" <=>
    Votes(arbitrators'[t], "InFavorOfAgent") > Votes(arbitrators'[t], "InFavorOfPoster")

LEMMA GainsAre ==
  ASSUME NEW t, NEW d \in Int, NEW owed \in Nat, owed = Owed(t), Owed(t)' = 0,
         balance \in Int, balance' \in Int, protocolTreasury \in Int, protocolTreasury' \in Int,
         balance' - protocolTreasury' = balance - protocolTreasury - owed + d
  PROVE  Gains(t) = d
<1>1. Gains(t) = (balance' - protocolTreasury' - 0) - (balance - protocolTreasury - owed)
  BY DEF Gains
<1>2. (balance' - protocolTreasury' - 0) - (balance - protocolTreasury - owed) = d
  OBVIOUS
<1>. QED BY <1>1, <1>2

LEMMA SettleKeeps ==
  ASSUME ArbitrationInv, NEW t \in Tasks, arbitrations[t].status = "Voting",
         NEW arb, NEW info, NEW m, Ready(t, arb, info, m),
         Settle(t, arb, info, m * SilentLoss, m * CouncilStake - m * SilentLoss)
  PROVE  ArbitrationInv' /\ Verdict(t) /\ Alone(t)
<1>1. PICK w, l, dust : SettledAs(t, arb, info, w, l, m, dust)
  BY SettleComputes DEF ArbitrationInv
<1>2. /\ arbitrations'[t].status = "Resolved" /\ Alone(t)
      /\ arbitrations' \in [Tasks -> DisputeType]
      /\ arbitrators' \in [Tasks -> [Pool -> MemberType]]
  <2>1. [arb EXCEPT !.status = "Resolved"] \in DisputeType
        /\ [arb EXCEPT !.status = "Resolved"].status = "Resolved"
    BY DEF Ready, DisputeType, DisputeStatus
  <2>2. arbitrations \in [Tasks -> DisputeType] /\ arbitrators \in [Tasks -> [Pool -> MemberType]]
    BY DEF ArbitrationInv, Types
  <2>3. Alone(t)
    BY <1>1, <2>2 DEF SettledAs, Alone
  <2>. QED BY <1>1, <2>1, <2>2, <2>3 DEF SettledAs
<1>3. LifecycleTypeOK'
  <2>1. LifecycleTypeOK /\ life[t] \in LifeType
    BY DEF ArbitrationInv, Types, LifecycleTypeOK
  <2>2. [life[t] EXCEPT !.phase = IF FavoursAgent(arb) THEN "Completed" ELSE "Failed"] \in LifeType
    BY <2>1 DEF LifeType, Phases
  <2>. QED BY <1>1, <2>1, <2>2, LifeBecomes DEF SettledAs
<1>4. Types'
  BY <1>1, <1>2, <1>3 DEF SettledAs, ArbitrationInv, Types
<1>5. ASSUME NEW u \in Tasks PROVE CouncilSound(u)'
  <2>1. CASE u = t
    BY <1>2, <2>1 DEF CouncilSound
  <2>2. CASE u # t
    BY <1>2, <2>2, OthersKept DEF ArbitrationInv
  <2>. QED BY <2>1, <2>2
<1>6. HoldsOwed'
  <2>1. Owed(t)' = 0
    <3>1. t \notin Disputing' /\ arbitrations'[t].status \notin {"Staking", "Voting"}
      BY <1>2 DEF Disputing, InProgress
    <3>. QED BY <3>1 DEF Owed
  <2>2. Owed(t) = arb.fee + CouncilSize * CouncilStake
    <3>1. InSession(t)
      BY DEF ArbitrationInv, CouncilSound
    <3>2. Cardinality(Staked(t)) = CouncilSize
      BY <3>1 DEF InSession, Seated
    <3>3. t \in Disputing
      BY DEF Disputing, InProgress
    <3>. QED BY <3>2, <3>3 DEF Owed, Staked, Ready
  <2>3. Gains(t) = dust
    <3>0. PICK owed \in Nat : owed = Owed(t)
      BY OwedNat DEF ArbitrationInv
    <3>1. /\ balance \in Int /\ balance' \in Int /\ protocolTreasury \in Int
          /\ protocolTreasury' \in Int /\ dust \in Int
      BY <1>1, Constants DEF SettledAs, ArbitrationInv, Types
    <3>2. balance' - protocolTreasury' = balance - protocolTreasury - owed + dust
      BY <1>1, <2>2, <3>0 DEF SettledAs
    <3>. QED BY <2>1, <3>0, <3>1, <3>2, GainsAre
  <2>4. dust \in 0 .. CouncilSize - 1
    <3>1. w \in Nat /\ l \in Nat /\ m \in Nat /\ w + l + m = CouncilSize /\ dust \in 0 .. w - 1
      BY <1>1 DEF SettledAs, Ready
    <3>. QED BY <3>1, Constants
  <2>5. t \in Resolved' /\ t \notin Resolved
    BY <1>2 DEF Resolved
  <2>. QED BY <1>2, <1>4, <2>3, <2>4, <2>5, MoneyMoves
<1>7. Verdict(t)
  <2>1. life'[t].phase = IF FavoursAgent(arb) THEN "Completed" ELSE "Failed"
    <3>1. life \in [Tasks -> LifeType]
      BY DEF ArbitrationInv, Types, LifecycleTypeOK
    <3>. QED BY <1>1, <3>1 DEF SettledAs, Becomes, LifeType
  <2>2. \A side : Votes(arbitrators'[t], side) = Votes(info, side)
    BY <1>1 DEF SettledAs, Votes, Voters
  <2>. QED BY <2>1, <2>2 DEF Ready, FavoursAgent, Verdict
<1>. QED BY <1>2, <1>4, <1>5, <1>6, <1>7 DEF ArbitrationInv


-----------------------------------------------------------------------------
(* The other steps of a dispute                                            *)

\* A step on one task that neither resolves its dispute nor leaves dust.
LEMMA StepKeeps ==
  ASSUME ArbitrationInv, NEW t \in Tasks, Types', Alone(t), CouncilSound(t)',
         Gains(t) = 0, t \in Resolved' <=> t \in Resolved
  PROVE  ArbitrationInv'
<1>1. ASSUME NEW u \in Tasks PROVE CouncilSound(u)'
  BY <1>1, OthersKept DEF ArbitrationInv
<1>2. HoldsOwed'
  BY MoneyMoves
<1>. QED BY <1>1, <1>2 DEF ArbitrationInv

\* What is paid in is owed from then on, what is paid out no more, and what is kept goes
\* to the treasury.
LEMMA NoGain ==
  ASSUME Types, Types', NEW t \in Tasks, NEW before \in Nat, NEW after \in Nat,
         NEW kept \in Nat, Owed(t) = before, Owed(t)' = after,
         protocolTreasury' = protocolTreasury + kept,
         balance' = ((balance + kept) + after) - before
  PROVE  Gains(t) = 0
<1>1. balance \in Int /\ protocolTreasury \in Int
  BY DEF Types
<1>2. Gains(t) = ((((balance + kept) + after) - before) - (protocolTreasury + kept) - after)
                   - (balance - protocolTreasury - before)
  BY DEF Gains
<1>. QED BY <1>1, <1>2

LEMMA CouncilChosen ==
  ASSUME NEW t, NEW council \in SUBSET Pool,
         arbitrators'[t] = [v \in Pool |-> IF v \in council THEN [NotDrawn EXCEPT !.vote = "Pending"]
                                           ELSE NotDrawn]
  PROVE  Council(t)' = council
<1>. SUFFICES ASSUME NEW v \in Pool
              PROVE  arbitrators'[t][v].vote # "None" <=> v \in council
  BY DEF Council
<1>. QED BY DEF NotDrawn

LEMMA RaiseKeeps ==
  ASSUME ArbitrationInv, NEW t \in Tasks, NEW party \in Agents \cup {Poster},
         RaiseDispute(t, party)
  PROVE  ArbitrationInv' /\ Alone(t) /\ t \notin Resolved'
<1>. DEFINE arb == [NoDispute EXCEPT !.status = "Selecting", !.disputant = party, !.fee = DisputeFee]
<1>0. Types /\ CouncilSound(t)
  BY DEF ArbitrationInv
<1>1. /\ arbitrations'[t] = arb /\ arb.status = "Selecting" /\ arb.fee = DisputeFee
      /\ arb.votesSubmitted = 0 /\ arb.votesForAgent = 0 /\ arb.votesForPoster = 0
      /\ arb.stakedArbitrators = 0 /\ arb \in DisputeType
      /\ arbitrators' = arbitrators /\ Alone(t)
  BY <1>0, Constants DEF RaiseDispute, NoDispute, Types, DisputeType, DisputeStatus, Alone
<1>2. Types'
  <2>1. LifecycleTypeOK'
    <3>1. LifecycleTypeOK /\ life[t] \in LifeType
      BY <1>0 DEF Types, LifecycleTypeOK
    <3>2. [life[t] EXCEPT !.phase = "Disputed"] \in LifeType
      BY <3>1 DEF LifeType, Phases
    <3>. QED BY <3>1, <3>2, LifeBecomes DEF RaiseDispute
  <2>2. arbitrations' \in [Tasks -> DisputeType]
    BY <1>0, <1>1 DEF RaiseDispute, Types
  <2>. QED BY <1>0, <1>1, <2>1, <2>2, Constants DEF RaiseDispute, Types
<1>3. CouncilSound(t)'
  <2>1. Council(t) = {}
    BY <1>0 DEF RaiseDispute, CouncilSound, Undrawn
  <2>2. Council(t)' = {}
    BY <1>1, <2>1 DEF Council
  <2>. QED BY <1>1, <2>2 DEF CouncilSound, Undrawn
<1>4. Owed(t) = 0 /\ Owed(t)' = DisputeFee
  <2>1. t \notin Disputing /\ arbitrations[t].status = "None"
    BY DEF Disputing, InProgress, RaiseDispute
  <2>2. t \in Disputing' /\ arbitrations'[t].status = "Selecting" /\ arbitrations'[t].fee = DisputeFee
    BY <1>1 DEF Disputing, InProgress
  <2>. QED BY <2>1, <2>2, Constants DEF Owed
<1>5. Gains(t) = 0
  <2>1. balance' = ((balance + 0) + DisputeFee) - 0 /\ protocolTreasury' = protocolTreasury + 0
    BY <1>0, Constants DEF RaiseDispute, Types
  <2>. QED BY <1>0, <1>2, <1>4, <2>1, Constants, NoGain
<1>6. t \notin Resolved /\ t \notin Resolved'
  BY <1>1 DEF Resolved, RaiseDispute
<1>. QED BY <1>1, <1>2, <1>3, <1>5, <1>6, StepKeeps

LEMMA DrawKeeps ==
  ASSUME ArbitrationInv, NEW t \in Tasks, NEW council \in SUBSET Pool,
         FulfillRandomWords(t, council)
  PROVE  ArbitrationInv' /\ Alone(t) /\ t \notin Resolved'
<1>. DEFINE info == [v \in Pool |-> IF v \in council THEN [NotDrawn EXCEPT !.vote = "Pending"]
                                    ELSE NotDrawn]
<1>0. /\ Types /\ Undrawn(t)
      /\ arbitrations[t] \in DisputeType
      /\ now + ArbitrationTimeout \in Nat
  <2>1. now \in 0 .. MaxTime /\ MaxTime \in Nat
    BY LifecycleAssumption DEF LifecycleAssumption, ArbitrationInv, Types, LifecycleTypeOK
  <2>2. now + ArbitrationTimeout \in Nat
    BY <2>1, Constants
  <2>. QED BY <2>2 DEF ArbitrationInv, CouncilSound, FulfillRandomWords, Selecting, Types
<1>1. /\ arbitrations'[t] = [arbitrations[t] EXCEPT !.status = "Staking",
                                                    !.stakingDeadline = now + ArbitrationTimeout]
      /\ arbitrators'[t] = info /\ Alone(t)
  BY <1>0 DEF FulfillRandomWords, Types, Alone
<1>2. /\ arbitrations'[t].status = "Staking" /\ arbitrations'[t].fee = arbitrations[t].fee
      /\ arbitrations'[t].votesSubmitted = 0 /\ arbitrations'[t].votesForAgent = 0
      /\ arbitrations'[t].votesForPoster = 0 /\ arbitrations'[t].stakedArbitrators = 0
      /\ arbitrations'[t] \in DisputeType
  BY <1>0, <1>1 DEF Undrawn, DisputeType, DisputeStatus
<1>3. ASSUME NEW v \in Pool
      PROVE  /\ info[v] \in MemberType /\ info[v].stake = 0 /\ ~info[v].staked
             /\ v \in council => info[v].vote = "Pending"
  BY DEF NotDrawn, MemberType
<1>4. Council(t)' = council /\ Staked(t)' = {}
  BY <1>1, <1>3, CouncilChosen DEF Staked
<1>5. Types'
  <2>1. arbitrations' \in [Tasks -> DisputeType]
    BY <1>0, <1>1, <1>2 DEF FulfillRandomWords, Types
  <2>2. arbitrators' \in [Tasks -> [Pool -> MemberType]]
    <3>1. info \in [Pool -> MemberType]
      BY <1>3
    <3>. QED BY <1>0, <3>1 DEF FulfillRandomWords, Types
  <2>. QED BY <1>0, <2>1, <2>2 DEF FulfillRandomWords, Types, LifecycleTypeOK, lifecycleVars
<1>6. CouncilSound(t)'
  <2>1. Seated(t)'
    BY <1>1, <1>2, <1>3, <1>4, FS_EmptySet DEF Seated, FulfillRandomWords
  <2>2. Assembling(t)'
    BY <1>1, <1>2, <1>3, <1>4, <2>1, Constants DEF Assembling
  <2>. QED BY <1>2, <2>2 DEF CouncilSound
<1>7. Owed(t) = arbitrations[t].fee /\ Owed(t)' = arbitrations[t].fee
  <2>1. t \in Disputing /\ arbitrations[t].status = "Selecting"
    BY DEF Disputing, InProgress, FulfillRandomWords, Selecting
  <2>2. t \in Disputing' /\ arbitrations'[t].status = "Staking"
    BY <1>2 DEF Disputing, InProgress
  <2>3. Cardinality(Staked(t)') = 0
    BY <1>4, FS_EmptySet
  <2>4. Cardinality({v \in Council(t)' : arbitrators'[t][v].staked}) * CouncilStake = 0
    <3>1. 0 * CouncilStake = 0
      BY Constants
    <3>. QED BY <2>3, <3>1 DEF Staked
  <2>5. arbitrations[t].fee \in Nat
    BY <1>0 DEF DisputeType
  <2>. QED BY <1>2, <2>1, <2>2, <2>4, <2>5 DEF Owed
<1>8. Gains(t) = 0
  <2>0. PICK fee \in Nat : fee = arbitrations[t].fee
    BY <1>0 DEF DisputeType
  <2>1. balance' = ((balance + 0) + fee) - fee /\ protocolTreasury' = protocolTreasury + 0
    BY <1>0 DEF FulfillRandomWords, Types
  <2>. QED BY <1>0, <1>5, <1>7, <2>0, <2>1, NoGain
<1>9. t \notin Resolved /\ t \notin Resolved'
  BY <1>2 DEF Resolved, FulfillRandomWords, Selecting
<1>. QED BY <1>1, <1>5, <1>6, <1>8, <1>9, StepKeeps

\* What a dispute whose council is staking or voting is owed.
LEMMA OwedSeated ==
  ASSUME Types, NEW t \in Tasks, arbitrations[t].status \in {"Staking", "Voting"}
  PROVE  Owed(t) = arbitrations[t].fee + Cardinality(Staked(t)) * CouncilStake
<1>1. t \in Disputing
  BY DEF Disputing, InProgress
<1>. QED BY <1>1 DEF Owed, Staked

LEMMA OwedSeatedNext ==
  ASSUME Types', NEW t \in Tasks, arbitrations'[t].status \in {"Staking", "Voting"}
  PROVE  Owed(t)' = arbitrations'[t].fee + Cardinality(Staked(t)') * CouncilStake
<1>1. t \in Disputing'
  BY DEF Disputing, InProgress
<1>. QED BY <1>1 DEF Owed, Staked

LEMMA OwedOver ==
  ASSUME NEW t \in Tasks, arbitrations'[t].status \in {"Resolved", "Expired"}
  PROVE  Owed(t)' = 0
<1>1. t \notin Disputing' /\ arbitrations'[t].status \notin {"Staking", "Voting"}
  BY DEF Disputing, InProgress
<1>. QED BY <1>1 DEF Owed

LEMMA OneMoreStake ==
  ASSUME NEW n \in Nat PROVE (n + 1) * CouncilStake = n * CouncilStake + CouncilStake
                             /\ n * CouncilStake \in Nat
BY Constants

LEMMA TimeoutSet == now \in 0 .. MaxTime => now + ArbitrationTimeout \in Nat
<1>1. MaxTime \in Nat
  BY LifecycleAssumption DEF LifecycleAssumption
<1>. QED BY <1>1, Constants

\* While a council assembles nobody has voted.
LEMMA NoVotesYet ==
  ASSUME NEW members, \A v \in Pool : members[v].vote \notin Sides
  PROVE  Votes(members, "InFavorOfAgent") = 0 /\ Votes(members, "InFavorOfPoster") = 0
<1>1. Voters(members, "InFavorOfAgent") = {} /\ Voters(members, "InFavorOfPoster") = {}
  BY DEF Voters, Sides
<1>. QED BY <1>1, FS_EmptySet DEF Votes

LEMMA StakeKeeps ==
  ASSUME ArbitrationInv, NEW t \in Tasks, NEW v \in Pool, StakeAsArbitrator(t, v)
  PROVE  ArbitrationInv' /\ Alone(t) /\ t \notin Resolved'
<1>. DEFINE staked == arbitrations[t].stakedArbitrators + 1
            before == arbitrations[t]
            after == arbitrations'[t]
            member == [arbitrators[t][v] EXCEPT !.stake = CouncilStake, !.staked = TRUE]
            members == [arbitrators[t] EXCEPT ![v] = member]
<1>0. /\ Types /\ Assembling(t) /\ Seated(t) /\ before \in DisputeType
      /\ LifecycleTypeOK /\ now + ArbitrationTimeout \in Nat /\ staked \in Nat
  <2>1. LifecycleTypeOK /\ now + ArbitrationTimeout \in Nat
    BY TimeoutSet DEF ArbitrationInv, Types, LifecycleTypeOK
  <2>2. Types /\ Assembling(t) /\ before \in DisputeType
    BY DEF ArbitrationInv, CouncilSound, StakeAsArbitrator, Types
  <2>. QED BY <2>1, <2>2 DEF Assembling, DisputeType
<1>. /\ arbitrators \in [Tasks -> [Pool -> MemberType]] /\ arbitrators[t] \in [Pool -> MemberType]
     /\ arbitrators[t][v] \in MemberType
  BY <1>0 DEF Types
<1>a. arbitrators' = [arbitrators EXCEPT ![t] = members]
  <2>1. arbitrators' = [arbitrators EXCEPT ![t][v].stake = CouncilStake, ![t][v].staked = TRUE]
    BY DEF StakeAsArbitrator
  <2>. QED BY <2>1
<1>1. /\ arbitrations' = [arbitrations EXCEPT ![t] = after]
      /\ after = IF staked = Cardinality(Council(t))
                 THEN [before EXCEPT !.stakedArbitrators = staked, !.status = "Voting",
                                     !.votingDeadline = now + ArbitrationTimeout]
                 ELSE [before EXCEPT !.stakedArbitrators = staked]
      /\ v \in Council(t) /\ ~arbitrators[t][v].staked /\ before.status = "Staking"
      /\ UNCHANGED <<protocolTreasury, paused, lifecycleVars>>
  BY <1>0 DEF StakeAsArbitrator, Types
<1>2. /\ after.status = IF staked = CouncilSize THEN "Voting" ELSE "Staking"
      /\ after.fee = before.fee /\ after.stakedArbitrators = staked
      /\ after.votesSubmitted = 0 /\ after.votesForAgent = 0 /\ after.votesForPoster = 0
      /\ after \in DisputeType
  BY <1>0, <1>1 DEF Assembling, Seated, DisputeType, DisputeStatus
<1>3. ASSUME NEW u \in Pool
      PROVE  /\ arbitrators'[t][u] \in MemberType
             /\ arbitrators'[t][u].vote = arbitrators[t][u].vote
             /\ u = v => arbitrators'[t][u].staked /\ arbitrators'[t][u].stake = CouncilStake
             /\ u # v => arbitrators'[t][u] = arbitrators[t][u]
  <2>1. arbitrators'[t][u] = IF u = v THEN member ELSE arbitrators[t][u]
    BY <1>a
  <2>2. member \in MemberType /\ member.vote = arbitrators[t][v].vote
    BY Constants DEF MemberType
  <2>. QED BY <2>1, <2>2
<1>4. Alone(t)
  BY <1>0, <1>1, <1>a DEF Alone, Types
<1>5. Types'
  <2>1. arbitrations' \in [Tasks -> DisputeType]
    BY <1>0, <1>1, <1>2 DEF Types
  <2>2. arbitrators' \in [Tasks -> [Pool -> MemberType]]
    <3>1. member \in MemberType
      BY Constants DEF MemberType
    <3>. HIDE DEF member
    <3>. QED BY <1>a, <3>1
  <2>3. balance' \in Int
    BY <1>0, Constants DEF StakeAsArbitrator, Types
  <2>. QED BY <1>0, <1>1, <2>1, <2>2, <2>3 DEF Types, LifecycleTypeOK, lifecycleVars
<1>6. /\ Council(t)' = Council(t) /\ Staked(t)' = Staked(t) \cup {v}
      /\ Cardinality(Staked(t)') = staked /\ v \notin Staked(t)
  <2>1. Council(t)' = Council(t)
    BY <1>3 DEF Council
  <2>2. Staked(t)' = Staked(t) \cup {v} /\ v \notin Staked(t)
    <3>1. ASSUME NEW u \in Council(t)
          PROVE  arbitrators'[t][u].staked <=> arbitrators[t][u].staked \/ u = v
      <4>1. u \in Pool
        BY DEF Council
      <4>. QED BY <1>3, <4>1
    <3>. QED BY <1>1, <2>1, <3>1 DEF Staked
  <2>3. Cardinality(Staked(t)') = Cardinality(Staked(t)) + 1
    BY <2>2, CouncilsFinite, FS_AddElement
  <2>. QED BY <1>0, <2>1, <2>2, <2>3 DEF Seated
<1>7. Seated(t)'
  <2>1. ASSUME NEW u \in Pool
        PROVE  /\ arbitrators'[t][u].staked
                    => u \in Council(t)' /\ arbitrators'[t][u].stake = CouncilStake
               /\ ~arbitrators'[t][u].staked => arbitrators'[t][u].stake = 0
    <3>1. CASE u = v
      BY <1>1, <1>3, <1>6, <3>1
    <3>2. CASE u # v
      BY <1>0, <1>3, <1>6, <3>2 DEF Seated
    <3>. QED BY <3>1, <3>2
  <2>. QED BY <1>0, <1>2, <1>6, <2>1 DEF Seated
<1>8. CouncilSound(t)'
  <2>1. CASE staked = CouncilSize
    <3>1. Staked(t)' = Council(t)'
      <4>1. Staked(t)' \subseteq Council(t)' /\ IsFiniteSet(Council(t)')
        BY <1>6, CouncilsFinite DEF Staked
      <4>2. Cardinality(Staked(t)') = Cardinality(Council(t)')
        BY <1>0, <1>6, <2>1 DEF Seated
      <4>. QED BY <4>1, <4>2, FS_Subset
    <3>2. ASSUME NEW u \in Pool PROVE arbitrators'[t][u].vote \notin Sides
      BY <1>0, <1>3 DEF Assembling, Council, Sides
    <3>3. Votes(arbitrators'[t], "InFavorOfAgent") = 0 /\ Votes(arbitrators'[t], "InFavorOfPoster") = 0
      BY <3>2, NoVotesYet
    <3>4. InSession(t)'
      BY <1>2, <1>7, <3>1, <3>3, Constants DEF InSession
    <3>. QED BY <1>2, <2>1, <3>4 DEF CouncilSound
  <2>2. CASE staked # CouncilSize
    <3>1. \A u \in Council(t)' : arbitrators'[t][u].vote = "Pending"
      BY <1>0, <1>3, <1>6 DEF Assembling, Council
    <3>2. staked < CouncilSize
      <4>1. before.stakedArbitrators < CouncilSize /\ before.stakedArbitrators \in Nat
        BY <1>0 DEF Assembling, DisputeType
      <4>. QED BY <2>2, <4>1, Constants
    <3>3. Assembling(t)'
      BY <1>2, <1>7, <3>1, <3>2 DEF Assembling
    <3>. QED BY <1>2, <2>2, <3>3 DEF CouncilSound
  <2>. QED BY <2>1, <2>2
<1>9. Gains(t) = 0
  <2>. DEFINE n == Cardinality(Staked(t))
  <2>1. Owed(t) = before.fee + n * CouncilStake
    BY <1>0, <1>1, OwedSeated
  <2>2. Owed(t)' = before.fee + (n + 1) * CouncilStake
    <3>1. after.status \in {"Staking", "Voting"} /\ Cardinality(Staked(t)') = n + 1
      BY <1>0, <1>2, <1>6 DEF Seated
    <3>. QED BY <1>2, <1>5, <3>1, OwedSeatedNext
  <2>3. n \in Nat /\ before.fee \in Nat
    BY <1>0, CouncilsFinite DEF DisputeType
  <2>. HIDE DEF n
  <2>4. PICK b \in Nat, a \in Nat : Owed(t) = b /\ Owed(t)' = a /\ a = b + CouncilStake
    <3>. DEFINE k == n * CouncilStake
    <3>1. k \in Nat /\ (n + 1) * CouncilStake = k + CouncilStake
      BY <2>3, OneMoreStake
    <3>. HIDE DEF k
    <3>2. /\ before.fee + k \in Nat /\ before.fee + (k + CouncilStake) \in Nat
          /\ before.fee + (k + CouncilStake) = (before.fee + k) + CouncilStake
      BY <2>3, <3>1, Constants
    <3>. QED BY <2>1, <2>2, <3>1, <3>2 DEF k
  <2>5. balance' = ((balance + 0) + a) - b
    BY <1>0, <2>4, Constants DEF StakeAsArbitrator, Types
  <2>6. protocolTreasury' = protocolTreasury + 0
    BY <1>0, <1>1 DEF Types
  <2>. QED BY <1>0, <1>5, <2>4, <2>5, <2>6, NoGain
<1>10. t \notin Resolved /\ t \notin Resolved'
  BY <1>1, <1>2 DEF Resolved
<1>. QED BY <1>4, <1>5, <1>8, <1>9, <1>10, StepKeeps

\* A vote is counted once, for its side.
LEMMA VoteCounted ==
  ASSUME NEW members \in [Pool -> MemberType], NEW v \in Pool, members[v].vote = "Pending",
         NEW side \in Sides, NEW info, info = [members EXCEPT ![v].vote = side]
  PROVE  /\ info \in [Pool -> MemberType]
         /\ \A u \in Pool : /\ info[u].vote = IF u = v THEN side ELSE members[u].vote
                            /\ info[u].staked = members[u].staked /\ info[u].stake = members[u].stake
         /\ Votes(info, side) = Votes(members, side) + 1
         /\ \A other \in Sides \ {side} : Votes(info, other) = Votes(members, other)
<1>1. /\ info \in [Pool -> MemberType]
      /\ \A u \in Pool : /\ info[u].vote = IF u = v THEN side ELSE members[u].vote
                         /\ info[u].staked = members[u].staked /\ info[u].stake = members[u].stake
  BY DEF MemberType
<1>2. Voters(info, side) = Voters(members, side) \cup {v} /\ v \notin Voters(members, side)
  BY <1>1 DEF Voters, Sides
<1>3. IsFiniteSet(Voters(members, side))
  <2>1. Voters(members, side) \subseteq Pool
    BY DEF Voters
  <2>. QED BY <2>1, Constants, FS_Subset
<1>4. Votes(info, side) = Votes(members, side) + 1
  BY <1>2, <1>3, FS_AddElement DEF Votes
<1>5. ASSUME NEW other \in Sides \ {side} PROVE Votes(info, other) = Votes(members, other)
  <2>1. Voters(info, other) = Voters(members, other)
    BY <1>1 DEF Voters, Sides
  <2>. QED BY <2>1 DEF Votes
<1>. QED BY <1>1, <1>4, <1>5

LEMMA TallyCounts ==
  ASSUME NEW arb \in DisputeType, NEW side \in Sides
  PROVE  /\ Tally(arb, side) \in DisputeType
         /\ Tally(arb, side).fee = arb.fee /\ Tally(arb, side).status = arb.status
         /\ Tally(arb, side).votingDeadline = arb.votingDeadline
         /\ Tally(arb, side).stakedArbitrators = arb.stakedArbitrators
         /\ Tally(arb, side).votesSubmitted = arb.votesSubmitted + 1
         /\ Tally(arb, side).votesForAgent
              = IF side = "InFavorOfAgent" THEN arb.votesForAgent + 1 ELSE arb.votesForAgent
         /\ Tally(arb, side).votesForPoster
              = IF side = "InFavorOfPoster" THEN arb.votesForPoster + 1 ELSE arb.votesForPoster
<1>1. PICK all \in Nat, agent \in Nat, poster \in Nat :
        /\ all = arb.votesSubmitted + 1
        /\ agent = IF side = "InFavorOfAgent" THEN arb.votesForAgent + 1 ELSE arb.votesForAgent
        /\ poster = IF side = "InFavorOfPoster" THEN arb.votesForPoster + 1 ELSE arb.votesForPoster
  <2>1. arb.votesSubmitted \in Nat /\ arb.votesForAgent \in Nat /\ arb.votesForPoster \in Nat
    BY DEF DisputeType
  <2>. QED BY <2>1
<1>2. Tally(arb, side) = [arb EXCEPT !.votesSubmitted = all, !.votesForAgent = agent,
                                     !.votesForPoster = poster]
  BY <1>1 DEF Tally
<1>3. Tally(arb, side) \in DisputeType
  BY <1>2 DEF DisputeType
<1>4. /\ Tally(arb, side).fee = arb.fee /\ Tally(arb, side).status = arb.status
      /\ Tally(arb, side).votingDeadline = arb.votingDeadline
      /\ Tally(arb, side).stakedArbitrators = arb.stakedArbitrators
      /\ Tally(arb, side).votesSubmitted = all /\ Tally(arb, side).votesForAgent = agent
      /\ Tally(arb, side).votesForPoster = poster
  BY <1>2 DEF DisputeType
<1>. QED BY <1>1, <1>3, <1>4

LEMMA NoSilence == 0 * SilentLoss = 0 /\ 0 * CouncilStake - 0 * SilentLoss = 0
<1>1. SilentLoss \in Nat /\ CouncilStake \in Nat
  <2>1. TimeoutSlashBps \in Nat
    BY DEF TimeoutSlashBps
  <2>. QED BY <2>1, Constants, ShareNat DEF SilentLoss
<1>. QED BY <1>1

LEMMA VoteKeeps ==
  ASSUME ArbitrationInv, NEW t \in Tasks, NEW v \in Pool, NEW side \in Sides,
         SubmitArbitrationVote(t, v, side)
  PROVE  ArbitrationInv' /\ Alone(t) /\ (t \in Resolved' => Verdict(t))
<1>. DEFINE before == arbitrations[t]
            arb == Tally(before, side)
            members == arbitrators[t]
            info == [members EXCEPT ![v].vote = side]
<1>0. /\ Types /\ before \in DisputeType /\ members \in [Pool -> MemberType]
      /\ before.status = "Voting" /\ members[v].vote = "Pending" /\ members[v].staked
      /\ InSession(t) /\ Seated(t) /\ Cardinality(Council(t)) = CouncilSize
  <2>1. Types /\ before \in DisputeType /\ members \in [Pool -> MemberType]
    BY DEF ArbitrationInv, Types
  <2>2. before.status = "Voting" /\ members[v].vote = "Pending" /\ members[v].staked
    BY <2>1, TallyCounts DEF SubmitArbitrationVote
  <2>3. InSession(t)
    BY <2>2 DEF ArbitrationInv, CouncilSound
  <2>. QED BY <2>1, <2>2, <2>3 DEF InSession, Seated
<1>1. /\ info \in [Pool -> MemberType]
      /\ \A u \in Pool : /\ info[u].vote = IF u = v THEN side ELSE members[u].vote
                         /\ info[u].staked = members[u].staked /\ info[u].stake = members[u].stake
      /\ Votes(info, side) = Votes(members, side) + 1
      /\ \A other \in Sides \ {side} : Votes(info, other) = Votes(members, other)
  BY <1>0, VoteCounted
<1>2. /\ arb \in DisputeType /\ arb.fee = before.fee /\ arb.status = "Voting"
      /\ arb.stakedArbitrators = before.stakedArbitrators
      /\ arb.votesSubmitted = before.votesSubmitted + 1
      /\ arb.votesForAgent
           = IF side = "InFavorOfAgent" THEN before.votesForAgent + 1 ELSE before.votesForAgent
      /\ arb.votesForPoster
           = IF side = "InFavorOfPoster" THEN before.votesForPoster + 1 ELSE before.votesForPoster
  BY <1>0, TallyCounts
<1>3. /\ before.stakedArbitrators = CouncilSize
      /\ before.votesForAgent = Votes(members, "InFavorOfAgent")
      /\ before.votesForPoster = Votes(members, "InFavorOfPoster")
      /\ before.votesSubmitted = before.votesForAgent + before.votesForPoster
      /\ before.votesSubmitted < CouncilSize
      /\ before.votesForAgent \in Nat /\ before.votesForPoster \in Nat
      /\ before.votesSubmitted \in Nat
  BY <1>0 DEF InSession, Seated, DisputeType
<1>4. /\ arb.votesForAgent = Votes(info, "InFavorOfAgent")
      /\ arb.votesForPoster = Votes(info, "InFavorOfPoster")
      /\ arb.votesSubmitted = arb.votesForAgent + arb.votesForPoster
  <2>1. CASE side = "InFavorOfAgent"
    BY <1>1, <1>2, <1>3, <2>1 DEF Sides
  <2>2. CASE side = "InFavorOfPoster"
    BY <1>1, <1>2, <1>3, <2>2 DEF Sides
  <2>. QED BY <2>1, <2>2 DEF Sides
<1>5. {u \in Pool : info[u].vote # "None"} = Council(t)
  BY <1>0, <1>1 DEF Council, Sides
<1>6. CASE arb.votesSubmitted = arb.stakedArbitrators
  <2>1. Voters(info, "Pending") = {}
    <3>1. CouncilSize = Votes(info, "InFavorOfAgent") + Votes(info, "InFavorOfPoster")
                          + Votes(info, "Pending")
      BY <1>0, <1>1, <1>5, ClassesOfVotes
    <3>2. /\ arb.votesForAgent \in Nat /\ arb.votesForPoster \in Nat
          /\ Votes(info, "Pending") \in Nat /\ IsFiniteSet(Voters(info, "Pending"))
      BY <1>2, CouncilsFinite DEF DisputeType
    <3>3. Votes(info, "Pending") = 0
      BY <1>2, <1>3, <1>4, <1>6, <3>1, <3>2, Constants
    <3>. QED BY <3>2, <3>3, FS_EmptySet DEF Votes
  <2>2. ASSUME NEW u \in Pool
        PROVE  /\ info[u].vote \in Sides => info[u].staked /\ info[u].stake = CouncilStake
               /\ info[u].staked => info[u].vote \in Sides
    <3>1. members[u].vote # "None" <=> members[u].staked
      BY <1>0 DEF InSession, Seated, Staked, Council
    <3>2. members[u].staked => members[u].stake = CouncilStake
      BY <1>0 DEF Seated
    <3>3. info[u].vote # "Pending" /\ info[u].vote \in Sides \cup {"None", "Pending"}
      BY <1>1, <2>1 DEF Voters, MemberType
    <3>4. info[u].vote # "None" <=> info[u].staked
      BY <1>0, <1>1, <3>1 DEF Sides
    <3>. QED BY <1>1, <3>2, <3>3, <3>4 DEF Sides
  <2>3. Ready(t, arb, info, 0)
    <3>1. /\ arb.votesForAgent + arb.votesForPoster > 0
          /\ arb.votesForAgent + arb.votesForPoster + 0 = CouncilSize
      BY <1>2, <1>3, <1>4, <1>6, Constants DEF DisputeType
    <3>. QED BY <1>1, <1>2, <1>4, <2>2, <3>1 DEF Ready
  <2>4. Settle(t, arb, info, 0 * SilentLoss, 0 * CouncilStake - 0 * SilentLoss)
    BY <1>6, NoSilence DEF SubmitArbitrationVote
  <2>. QED BY <1>0, <2>3, <2>4, SettleKeeps
<1>7. CASE arb.votesSubmitted # arb.stakedArbitrators
  <2>1. /\ arbitrations' = [arbitrations EXCEPT ![t] = arb]
        /\ arbitrators' = [arbitrators EXCEPT ![t] = info]
        /\ UNCHANGED <<protocolTreasury, balance, paused, lifecycleVars>>
    BY <1>7 DEF SubmitArbitrationVote
  <2>2. /\ arbitrations'[t] = arb /\ arbitrators'[t] = info /\ Alone(t) /\ Types'
    BY <1>0, <1>1, <1>2, <2>1 DEF Types, Alone, LifecycleTypeOK, lifecycleVars
  <2>3. Council(t)' = Council(t) /\ Staked(t)' = Staked(t)
    <3>1. Council(t)' = Council(t)
      BY <1>5, <2>2 DEF Council
    <3>2. \A u \in Council(t) : arbitrators'[t][u].staked = arbitrators[t][u].staked
      BY <1>1, <2>2 DEF Council
    <3>. QED BY <3>1, <3>2 DEF Staked
  <2>4. InSession(t)'
    <3>1. Seated(t)'
      BY <1>0, <1>1, <1>2, <2>2, <2>3 DEF Seated
    <3>2. arb.votesSubmitted < CouncilSize
      BY <1>2, <1>3, <1>7, Constants
    <3>. QED BY <1>0, <1>4, <2>2, <2>3, <3>1, <3>2 DEF InSession
  <2>5. Gains(t) = 0
    <3>1. PICK owed \in Nat : owed = Owed(t)
      BY <1>0, OwedNat
    <3>2. Owed(t)' = Owed(t)
      BY <1>0, <1>2, <2>2, <2>3, OwedSeated, OwedSeatedNext
    <3>3. balance' = ((balance + 0) + owed) - owed /\ protocolTreasury' = protocolTreasury + 0
      BY <1>0, <2>1 DEF Types
    <3>. QED BY <1>0, <2>2, <3>1, <3>2, <3>3, NoGain
  <2>6. t \notin Resolved /\ t \notin Resolved'
    BY <1>0, <1>2, <2>2 DEF Resolved
  <2>7. CouncilSound(t)'
    BY <1>2, <2>2, <2>4 DEF CouncilSound
  <2>. QED BY <2>2, <2>5, <2>6, <2>7, StepKeeps
<1>. QED BY <1>6, <1>7

\* A dispute that expires pays out what it owed but for what the treasury keeps.
LEMMA NoGainOver ==
  ASSUME Types, Types', NEW t \in Tasks, NEW before \in Nat, NEW kept \in Nat,
         before = Owed(t), Owed(t)' = 0,
         protocolTreasury' = protocolTreasury + kept,
         balance' = ((balance + kept) + 0) - before
  PROVE  Gains(t) = 0
<1>1. PICK after \in Nat : after = 0
  OBVIOUS
<1>. QED BY <1>1, NoGain

LEMMA StakingTimeoutKeeps ==
  ASSUME ArbitrationInv, NEW t \in Tasks, EnforceArbitrationStakingTimeout(t)
  PROVE  ArbitrationInv' /\ Alone(t) /\ t \notin Resolved'
<1>0. /\ Types /\ arbitrations[t] \in DisputeType /\ arbitrations[t].status = "Staking"
  BY DEF ArbitrationInv, Types, EnforceArbitrationStakingTimeout
<1>1. /\ arbitrations'[t].status = "Expired" /\ arbitrations'[t] \in DisputeType /\ Alone(t)
      /\ arbitrations' \in [Tasks -> DisputeType]
  <2>1. [arbitrations[t] EXCEPT !.status = "Expired"] \in DisputeType
    BY <1>0 DEF DisputeType, DisputeStatus
  <2>2. [arbitrations[t] EXCEPT !.status = "Expired"].status = "Expired"
    BY <1>0 DEF DisputeType
  <2>. QED BY <1>0, <2>1, <2>2 DEF Types, Alone, EnforceArbitrationStakingTimeout
<1>2. arbitrators' \in [Tasks -> [Pool -> MemberType]]
  <2>1. Unstaked(t) \in [Pool -> MemberType]
    <3>1. ASSUME NEW v \in Pool PROVE [arbitrators[t][v] EXCEPT !.stake = 0] \in MemberType
      <4>1. arbitrators[t][v] \in MemberType
        BY <1>0 DEF Types
      <4>. QED BY <4>1 DEF MemberType
    <3>. QED BY <3>1 DEF Unstaked
  <2>. QED BY <1>0, <2>1 DEF Types, EnforceArbitrationStakingTimeout
<1>3. PICK owed \in Nat : owed = Owed(t)
  BY <1>0, OwedNat
<1>4. balance' = ((balance + 0) + 0) - owed /\ balance' \in Int
  <2>. DEFINE k == Cardinality(Staked(t)) * CouncilStake
  <2>1. k \in Nat /\ arbitrations[t].fee \in Nat /\ balance \in Int
    BY <1>0, CouncilsFinite, OneMoreStake DEF DisputeType, Types
  <2>2. balance' = (balance - arbitrations[t].fee) - k /\ owed = arbitrations[t].fee + k
    BY <1>0, <1>3, OwedSeated DEF EnforceArbitrationStakingTimeout, Staked
  <2>. HIDE DEF k
  <2>. QED BY <2>1, <2>2
<1>5. Types'
  BY <1>0, <1>1, <1>2, <1>4
  DEF Types, EnforceArbitrationStakingTimeout, LifecycleTypeOK, lifecycleVars
<1>6. Gains(t) = 0
  <2>1. Owed(t)' = 0
    BY <1>1, OwedOver
  <2>2. protocolTreasury' = protocolTreasury + 0
    BY <1>0 DEF Types, EnforceArbitrationStakingTimeout
  <2>. QED BY <1>0, <1>3, <1>4, <1>5, <2>1, <2>2, NoGainOver
<1>7. t \notin Resolved /\ t \notin Resolved' /\ CouncilSound(t)'
  BY <1>0, <1>1 DEF Resolved, CouncilSound
<1>. QED BY <1>1, <1>5, <1>6, <1>7, StepKeeps

\* Silence takes the stake of who has not voted and changes no vote.
LEMMA Silencing ==
  ASSUME NEW t \in Tasks, arbitrators[t] \in [Pool -> MemberType], NEW info,
         info = [v \in Pool |-> IF v \in Voters(arbitrators[t], "Pending") THEN Silenced(t, v)
                                ELSE arbitrators[t][v]]
  PROVE  /\ info \in [Pool -> MemberType]
         /\ \A v \in Pool : /\ info[v].vote = arbitrators[t][v].vote
                            /\ info[v].staked = arbitrators[t][v].staked
                            /\ info[v].stake = IF arbitrators[t][v].vote = "Pending" THEN 0
                                               ELSE arbitrators[t][v].stake
         /\ \A side : Votes(info, side) = Votes(arbitrators[t], side)
<1>1. ASSUME NEW v \in Pool
      PROVE  /\ Silenced(t, v) \in MemberType /\ Silenced(t, v).stake = 0
             /\ Silenced(t, v).vote = arbitrators[t][v].vote
             /\ Silenced(t, v).staked = arbitrators[t][v].staked
  <2>1. arbitrators[t][v] \in MemberType
    OBVIOUS
  <2>. QED BY <2>1 DEF Silenced, MemberType
<1>2. /\ info \in [Pool -> MemberType]
      /\ \A v \in Pool : /\ info[v].vote = arbitrators[t][v].vote
                         /\ info[v].staked = arbitrators[t][v].staked
                         /\ info[v].stake = IF arbitrators[t][v].vote = "Pending" THEN 0
                                            ELSE arbitrators[t][v].stake
  BY <1>1 DEF Voters
<1>3. \A side : Voters(info, side) = Voters(arbitrators[t], side)
  BY <1>2 DEF Voters
<1>. QED BY <1>2, <1>3 DEF Votes

LEMMA VotingTimeoutKeeps ==
  ASSUME ArbitrationInv, NEW t \in Tasks, EnforceArbitrationVotingTimeout(t)
  PROVE  ArbitrationInv' /\ Alone(t) /\ (t \in Resolved' => Verdict(t))
<1>. DEFINE arb == arbitrations[t]
            members == arbitrators[t]
            silent == Voters(members, "Pending")
            m == Cardinality(silent)
            info == [v \in Pool |-> IF v \in silent THEN Silenced(t, v) ELSE members[v]]
<1>0. /\ Types /\ arb \in DisputeType /\ members \in [Pool -> MemberType]
      /\ arb.status = "Voting" /\ InSession(t) /\ Seated(t)
      /\ Cardinality(Council(t)) = CouncilSize /\ Staked(t) = Council(t)
  <2>1. Types /\ arb \in DisputeType /\ members \in [Pool -> MemberType]
    BY DEF ArbitrationInv, Types
  <2>2. arb.status = "Voting"
    BY DEF EnforceArbitrationVotingTimeout
  <2>3. InSession(t)
    BY <2>2 DEF ArbitrationInv, CouncilSound
  <2>. QED BY <2>1, <2>2, <2>3 DEF InSession, Seated
<1>1. /\ info \in [Pool -> MemberType]
      /\ \A v \in Pool : /\ info[v].vote = members[v].vote
                         /\ info[v].staked = members[v].staked
                         /\ info[v].stake = IF members[v].vote = "Pending" THEN 0 ELSE members[v].stake
      /\ \A side : Votes(info, side) = Votes(members, side)
  BY <1>0, Silencing
<1>2. /\ arb.votesForAgent = Votes(members, "InFavorOfAgent")
      /\ arb.votesForPoster = Votes(members, "InFavorOfPoster")
      /\ arb.votesSubmitted = arb.votesForAgent + arb.votesForPoster
      /\ arb.votesForAgent \in Nat /\ arb.votesForPoster \in Nat /\ m \in Nat
  BY <1>0, CouncilsFinite DEF InSession, DisputeType, Votes
<1>3. arb.votesForAgent + arb.votesForPoster + m = CouncilSize
  <2>1. Council(t) = {v \in Pool : members[v].vote # "None"}
    BY DEF Council
  <2>2. CouncilSize = Votes(members, "InFavorOfAgent") + Votes(members, "InFavorOfPoster")
                        + Votes(members, "Pending")
    BY <1>0, <2>1, ClassesOfVotes
  <2>3. Votes(members, "Pending") = m
    BY DEF Votes
  <2>. QED BY <1>2, <2>2, <2>3
<1>4. SilentLoss \in Nat /\ CouncilStake \in Nat /\ m * SilentLoss \in Nat
  <2>1. TimeoutSlashBps \in Nat
    BY DEF TimeoutSlashBps
  <2>2. SilentLoss \in Nat /\ CouncilStake \in Nat
    BY <2>1, Constants, ShareNat DEF SilentLoss
  <2>. HIDE DEF m
  <2>. QED BY <1>2, <2>2
<1>5. CASE arb.votesSubmitted > 0
  <2>1. ASSUME NEW v \in Pool
        PROVE  /\ info[v].vote \in Sides => info[v].staked /\ info[v].stake = CouncilStake
               /\ info[v].staked /\ info[v].stake # 0 => info[v].vote \in Sides
    <3>1. members[v].vote # "None" <=> members[v].staked
      BY <1>0 DEF InSession, Seated, Staked, Council
    <3>2. members[v].staked => members[v].stake = CouncilStake
      BY <1>0 DEF Seated
    <3>3. members[v].vote \in Sides \cup {"None", "Pending"}
      BY <1>0 DEF MemberType
    <3>. QED BY <1>1, <3>1, <3>2, <3>3 DEF Sides
  <2>2. Ready(t, arb, info, m)
    <3>1. arb.votesForAgent + arb.votesForPoster > 0
      BY <1>2, <1>5
    <3>. HIDE DEF m, info
    <3>. QED BY <1>0, <1>1, <1>2, <1>3, <2>1, <3>1 DEF Ready
  <2>3. Settle(t, arb, info, m * SilentLoss, m * CouncilStake - m * SilentLoss)
    BY <1>5 DEF EnforceArbitrationVotingTimeout, SilentLoss
  <2>. QED BY <1>0, <2>2, <2>3, SettleKeeps
<1>6. CASE ~(arb.votesSubmitted > 0)
  <2>1. /\ arbitrations' = [arbitrations EXCEPT ![t].status = "Expired"]
        /\ arbitrators' = [arbitrators EXCEPT ![t] = info]
        /\ protocolTreasury' = protocolTreasury + m * SilentLoss
        /\ balance' = balance - (m * CouncilStake - m * SilentLoss) - arb.fee
        /\ UNCHANGED <<paused, lifecycleVars>>
    BY <1>6 DEF EnforceArbitrationVotingTimeout, SilentLoss
  <2>2. m = CouncilSize
    BY <1>2, <1>3, <1>6, Constants
  <2>3. /\ arbitrations'[t].status = "Expired" /\ Alone(t)
        /\ arbitrations' \in [Tasks -> DisputeType]
        /\ arbitrators' \in [Tasks -> [Pool -> MemberType]]
    <3>1. [arb EXCEPT !.status = "Expired"] \in DisputeType
      BY <1>0 DEF DisputeType, DisputeStatus
    <3>2. [arb EXCEPT !.status = "Expired"].status = "Expired"
      BY <1>0 DEF DisputeType
    <3>. HIDE DEF info
    <3>. QED BY <1>0, <1>1, <2>1, <3>1, <3>2 DEF Types, Alone
  <2>4. PICK owed \in Nat : owed = Owed(t)
    BY <1>0, OwedNat
  <2>5. PICK kept \in Nat : kept = m * SilentLoss
    BY <1>4
  <2>6. /\ protocolTreasury' = protocolTreasury + kept
        /\ balance' = ((balance + kept) + 0) - owed
        /\ protocolTreasury' \in Nat /\ balance' \in Int
    <3>. DEFINE k == m * CouncilStake
    <3>1. owed = arb.fee + k
      BY <1>0, <2>2, <2>4, OwedSeated
    <3>2. k \in Nat
      <4>. HIDE DEF m
      <4>. QED BY <1>2, <1>4
    <3>3. protocolTreasury' = protocolTreasury + kept /\ balance' = (balance - (k - kept)) - arb.fee
      BY <2>1, <2>5
    <3>4. arb.fee \in Nat /\ balance \in Int /\ protocolTreasury \in Nat
      BY <1>0 DEF Types, DisputeType
    <3>. HIDE DEF k, m, arb
    <3>. QED BY <3>1, <3>2, <3>3, <3>4
  <2>7. Types'
    BY <1>0, <2>1, <2>3, <2>6 DEF Types, LifecycleTypeOK, lifecycleVars
  <2>8. Gains(t) = 0
    <3>1. Owed(t)' = 0
      BY <2>3, OwedOver
    <3>2. /\ protocolTreasury' = protocolTreasury + kept
          /\ balance' = ((balance + kept) + 0) - owed
      BY <2>6
    <3>. QED BY <1>0, <2>4, <2>7, <3>1, <3>2, NoGainOver
  <2>9. t \notin Resolved /\ t \notin Resolved' /\ CouncilSound(t)'
    BY <1>0, <2>3 DEF Resolved, CouncilSound
  <2>. QED BY <2>3, <2>7, <2>8, <2>9, StepKeeps
<1>. QED BY <1>5, <1>6

-----------------------------------------------------------------------------
(* Every step                                                              *)

\* A step that leaves the disputes alone, and what the contract holds beyond its treasury.
LEMMA QuietKeeps ==
  ASSUME ArbitrationInv, Types', UNCHANGED <<arbitrations, arbitrators>>,
         balance' - protocolTreasury' = balance - protocolTreasury
  PROVE  ArbitrationInv'
<1>1. ASSUME NEW t \in Tasks PROVE Owed(t)' = Owed(t) /\ CouncilSound(t)' = CouncilSound(t)
  <2>1. Council(t)' = Council(t) /\ Staked(t)' = Staked(t)
    BY DEF Council, Staked
  <2>2. Owed(t)' = Owed(t)
    BY <2>1 DEF Owed, Disputing
  <2>3. CouncilSound(t)' = CouncilSound(t)
    BY <2>1 DEF CouncilSound, Undrawn, Assembling, InSession, Seated
  <2>. QED BY <2>2, <2>3
<1>2. Resolved' = Resolved
  BY DEF Resolved
<1>3. SumFunction([t \in Tasks |-> Owed(t)])' = SumFunction([t \in Tasks |-> Owed(t)])
  <2>1. [t \in Tasks |-> Owed(t)]' = [t \in Tasks |-> Owed(t)]
    BY <1>1
  <2>. QED BY <2>1
<1>4. HoldsOwed'
  BY <1>2, <1>3 DEF ArbitrationInv, HoldsOwed
<1>. QED BY <1>1, <1>4 DEF ArbitrationInv

LEMMA DisputeKeeps ==
  ASSUME ArbitrationInv, NEW t \in Tasks, DisputeStep(t)
  PROVE  ArbitrationInv' /\ Alone(t) /\ (t \in Resolved' => Verdict(t))
<1>1. CASE \E party \in Agents \cup {Poster} : RaiseDispute(t, party)
  BY <1>1, RaiseKeeps
<1>2. CASE \E council \in SUBSET Pool : FulfillRandomWords(t, council)
  BY <1>2, DrawKeeps
<1>3. CASE \E v \in Pool : StakeAsArbitrator(t, v)
  BY <1>3, StakeKeeps
<1>4. CASE \E v \in Pool, side \in {"InFavorOfAgent", "InFavorOfPoster"} :
             SubmitArbitrationVote(t, v, side)
  BY <1>4, VoteKeeps DEF Sides
<1>5. CASE EnforceArbitrationStakingTimeout(t)
  BY <1>5, StakingTimeoutKeeps
<1>6. CASE EnforceArbitrationVotingTimeout(t)
  BY <1>6, VotingTimeoutKeeps
<1>. QED BY <1>1, <1>2, <1>3, <1>4, <1>5, <1>6 DEF DisputeStep

LEMMA InvStep == ArbitrationInv /\ [Next]_allVars => ArbitrationInv'
<1>. SUFFICES ASSUME ArbitrationInv, [Next]_allVars PROVE ArbitrationInv'
  OBVIOUS
<1>0. Types
  BY DEF ArbitrationInv
<1>1. CASE LifecycleNext /\ UNCHANGED arbitrationVars
  <2>1. LifecycleTypeOK'
    BY <1>0, <1>1, LifeStep DEF Types
  <2>2. UNCHANGED <<arbitrations, arbitrators, protocolTreasury, balance, paused>>
    BY <1>1 DEF arbitrationVars
  <2>. QED BY <1>0, <2>1, <2>2, QuietKeeps DEF Types
<1>2. CASE \E t \in Tasks : DisputeStep(t)
  BY <1>2, DisputeKeeps
<1>3. CASE WithdrawTreasury
  <2>1. Types'
    BY <1>0, <1>3 DEF Types, WithdrawTreasury, LifecycleTypeOK, lifecycleVars
  <2>2. balance' - protocolTreasury' = balance - protocolTreasury
    BY <1>0, <1>3 DEF Types, WithdrawTreasury
  <2>. QED BY <1>3, <2>1, <2>2, QuietKeeps DEF WithdrawTreasury
<1>4. CASE Pause
  <2>1. Types'
    BY <1>0, <1>4 DEF Types, Pause, LifecycleTypeOK, lifecycleVars
  <2>. QED BY <1>4, <2>1, QuietKeeps DEF Pause
<1>5. CASE UNCHANGED allVars
  <2>1. Types' /\ UNCHANGED <<arbitrations, arbitrators, protocolTreasury, balance>>
    BY <1>0, <1>5 DEF Types, allVars, arbitrationVars, LifecycleTypeOK, lifecycleVars
  <2>. QED BY <2>1, QuietKeeps
<1>. QED BY <1>1, <1>2, <1>3, <1>4, <1>5 DEF Next

LEMMA InvInit == Init => ArbitrationInv
<1>. SUFFICES ASSUME Init PROVE ArbitrationInv
  OBVIOUS
<1>1. Types
  <2>1. LifecycleTypeOK
    <3>1. NewTask \in LifeType
      BY LifecycleAssumption DEF NewTask, LifeType, Phases, LifecycleAssumption
    <3>. QED BY <3>1, LifecycleAssumption
         DEF Init, LifecycleInit, LifecycleTypeOK, LifecycleAssumption
  <2>2. NoDispute \in DisputeType
    BY DEF NoDispute, DisputeType, DisputeStatus
  <2>3. NotDrawn \in MemberType
    BY DEF NotDrawn, MemberType
  <2>4. arbitrations \in [Tasks -> DisputeType]
    <3>1. arbitrations = [t \in Tasks |-> NoDispute]
      BY DEF Init
    <3>. QED BY <2>2, <3>1
  <2>5. arbitrators \in [Tasks -> [Pool -> MemberType]]
    <3>1. arbitrators = [t \in Tasks |-> [v \in Pool |-> NotDrawn]]
      BY DEF Init
    <3>. QED BY <2>3, <3>1
  <2>6. protocolTreasury \in Nat /\ balance \in Int
    BY DEF Init
  <2>7. paused \in BOOLEAN
    BY DEF Init
  <2>. QED BY <2>1, <2>4, <2>5, <2>6, <2>7 DEF Types
<1>2. ASSUME NEW t \in Tasks PROVE CouncilSound(t) /\ Owed(t) = 0 /\ t \notin Resolved
  <2>1. arbitrations[t] = NoDispute /\ \A v \in Pool : arbitrators[t][v] = NotDrawn
    BY DEF Init
  <2>2. Council(t) = {}
    BY <2>1 DEF Council, NotDrawn
  <2>3. CouncilSound(t)
    BY <2>1, <2>2 DEF CouncilSound, Undrawn, NoDispute
  <2>4. t \notin Disputing /\ arbitrations[t].status = "None" /\ t \notin Resolved
    BY <2>1 DEF Disputing, InProgress, NoDispute, Resolved
  <2>. QED BY <2>3, <2>4 DEF Owed
<1>3. HoldsOwed
  <2>1. SumFunction([t \in Tasks |-> Owed(t)]) = 0
    BY <1>2, Constants, SumZero DEF SumFunction
  <2>2. Resolved = {} /\ Cardinality(Resolved) = 0
    <3>1. Resolved = {}
      BY <1>2 DEF Resolved
    <3>. QED BY <3>1, FS_EmptySet
  <2>3. balance = 0 /\ protocolTreasury = 0 /\ 0 * (CouncilSize - 1) = 0
    BY Constants DEF Init
  <2>. QED BY <2>1, <2>2, <2>3 DEF HoldsOwed
<1>. QED BY <1>1, <1>2, <1>3 DEF ArbitrationInv

LEMMA Invariant == Spec => []ArbitrationInv
<1>1. Init => ArbitrationInv
  BY InvInit
<1>2. ArbitrationInv /\ [Next]_allVars => ArbitrationInv'
  BY InvStep
<1>. QED BY <1>1, <1>2, PTL DEF Spec

-----------------------------------------------------------------------------
(* The theorems                                                            *)

\* At any time the contract holds the fees of the disputes in progress, the stakes of the
\* councils that are staking or voting and its treasury, and beyond them no more than the
\* rounding of the bonuses it paid: a settlement after silent members were paid pays nobody
\* twice and strands nobody's stake.
THEOREM AlwaysHoldsOwed == Spec => []HoldsOwed
<1>1. ArbitrationInv => HoldsOwed
  BY DEF ArbitrationInv
<1>. QED BY <1>1, Invariant, PTL

\* Every record has its type, and the balance never goes below zero: no payout of a dispute
\* finds the contract short.
THEOREM AlwaysTyped == Spec => []TypeOK
<1>1. ArbitrationInv => TypeOK
  <2>. SUFFICES ASSUME ArbitrationInv PROVE TypeOK
    OBVIOUS
  <2>. DEFINE owed == SumFunction([t \in Tasks |-> Owed(t)])
  <2>1. owed \in Nat
    BY OwedNat, Constants, SumNat DEF ArbitrationInv, SumFunction
  <2>2. 0 <= balance - protocolTreasury - owed
    BY DEF ArbitrationInv, HoldsOwed
  <2>3. Types
    BY DEF ArbitrationInv
  <2>4. balance \in Nat
    <3>. HIDE DEF owed
    <3>1. protocolTreasury \in Nat /\ balance \in Int
      BY <2>3 DEF Types
    <3>. QED BY <2>1, <2>2, <3>1
  <2>. QED BY <2>3, <2>4 DEF Types, TypeOK, DisputeType, MemberType
<1>. QED BY <1>1, Invariant, PTL

\* Whenever a dispute is resolved, by the last vote or by the voting timeout, the core's task
\* is completed exactly when more members voted for the agent than for the poster.
THEOREM VerdictAlwaysFollowsVotes == Spec => VerdictFollowsVotes
<1>. DEFINE Follows ==
       \A t \in Tasks : t \notin Resolved /\ t \in Resolved' =>
         (life'[t].phase = "Completed" <=>
            Votes(arbitrators'[t], "InFavorOfAgent") > Votes(arbitrators'[t], "InFavorOfPoster"))
<1>1. ArbitrationInv /\ [Next]_allVars => [Follows]_allVars
  <2>. SUFFICES ASSUME ArbitrationInv, [Next]_allVars, NEW t \in Tasks,
                       t \notin Resolved, t \in Resolved'
                PROVE  Verdict(t)
    BY DEF Verdict
  <2>1. arbitrations' # arbitrations
    BY DEF Resolved
  <2>2. PICK u \in Tasks : DisputeStep(u)
    BY <2>1 DEF Next, WithdrawTreasury, Pause, allVars, arbitrationVars
  <2>3. Alone(u) /\ (u \in Resolved' => Verdict(u))
    BY <2>2, DisputeKeeps
  <2>4. u = t
    BY <2>3, OthersKept
  <2>. QED BY <2>3, <2>4
<1>. QED BY <1>1, Invariant, PTL DEF Spec, VerdictFollowsVotes
=============================================================================
