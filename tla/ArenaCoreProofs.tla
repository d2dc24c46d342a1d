--------------------------- MODULE ArenaCoreProofs ---------------------------
(***************************************************************************)
(* Theorems about ArenaCore for every number of tasks, posters, agents and *)
(* verifiers, every set of terms, offers and stakes, and every timeout.    *)
(* First the types; then the life cycle of a task and its panel, by the    *)
(* inductive invariants LifecycleInv and PanelInv, and what an agent is    *)
(* paid on.  Last, ArenaCore implements TaskLifecycle: a step of the two   *)
(* contracts is a step of the life cycle of one task, or one the satellite *)
(* contracts cannot see.  Then the money: Main can always pay what it      *)
(* owes, the auction holds exactly the stakes that its open tasks and the  *)
(* ledger of Main count, and the limits' counters count what is there.     *)
(***************************************************************************)
EXTENDS ArenaCoreProperties, FiniteSums

-----------------------------------------------------------------------------
(* Helpers *)

LEMMA ConstantTypes ==
  /\ MaxTasks \in Nat /\ MaxTime \in Nat \ {0}
  /\ Time \subseteq Nat /\ 0 \in Time
  /\ TaskIds \subseteq Nat
BY ConstantsAssumption DEF ConstantsAssumption, Time, TaskIds

LEMMA UpdateType ==
  ASSUME NEW S, NEW T, NEW f \in [S -> T], NEW x, NEW e, x \in S => e \in T
  PROVE  [f EXCEPT ![x] = e] \in [S -> T]
OBVIOUS

\* A share of an amount is a natural number no larger than the amount.
LEMMA BpsType ==
  ASSUME NEW amount \in Nat, NEW bps \in 0 .. BPS
  PROVE  /\ Bps(amount, bps) \in Nat
         /\ Bps(amount, bps) <= amount
<1>1. amount * bps \in Nat /\ amount * bps <= amount * 10000
  BY DEF BPS
<1>. DEFINE x == amount * bps
<1>2. x \in Nat /\ x <= amount * 10000 => x \div 10000 \in Nat /\ x \div 10000 <= amount
  <2>. HIDE DEF x
  <2>. QED OBVIOUS
<1>. QED BY <1>1, <1>2 DEF Bps, BPS

LEMMA FloorSubType ==
  ASSUME NEW x \in Nat, NEW y \in Nat
  PROVE  FloorSub(x, y) \in Nat
BY DEF FloorSub

LEMMA MenuTypes ==
  BidStakes \subseteq Nat /\ SlashWindows \subseteq Nat
BY ConstantsAssumption DEF ConstantsAssumption, BidStakes, SlashWindows

LEMMA InitType == Init => TypeOK
BY ConstantsAssumption DEF Init, TypeOK, TaskIds, NoTask, NoAssignment, NoBid, NoVerification,
   TaskStatus, MaxVerifiers, Time, ConstantsAssumption, TaskType, AssignmentType, BidType,
   BidStakes, SlashWindows, VerificationType

LEMMA TaskFields ==
  ASSUME TypeOK, NEW t \in TaskIds
  PROVE  /\ task[t] \in TaskType
         /\ task[t].bounty \in Nat /\ task[t].deadline \in Nat /\ task[t].slashWindow \in Nat
         /\ task[t].bidDeadline \in Nat /\ task[t].revealDeadline \in Nat
         /\ task[t].requiredVerifiers \in Nat
<1>1. task[t] \in TaskType
  BY DEF TypeOK
<1>2. task[t].slashWindow \in SlashWindows /\ task[t].requiredVerifiers \in 0 .. 5
      /\ task[t].bounty \in Nat /\ task[t].deadline \in Nat
      /\ task[t].bidDeadline \in Nat /\ task[t].revealDeadline \in Nat
  BY <1>1 DEF TaskType, MaxVerifiers
<1>3. task[t].slashWindow \in Nat
  BY <1>2, MenuTypes
<1>4. task[t].requiredVerifiers \in Nat
  BY <1>2
<1>. QED BY <1>1, <1>2, <1>3, <1>4

LEMMA AssignmentFields ==
  ASSUME TypeOK, NEW t \in TaskIds
  PROVE  /\ assignment[t] \in AssignmentType
         /\ assignment[t].agent \in Agents \cup {NoAgent}
         /\ assignment[t].stake \in Nat /\ assignment[t].price \in Nat
         /\ assignment[t].deliveredAt \in Time /\ assignment[t].assignedAt \in Time
<1>1. assignment[t] \in AssignmentType
  BY DEF TypeOK
<1>. QED BY <1>1 DEF AssignmentType

LEMMA BidFields ==
  ASSUME TypeOK, NEW t \in TaskIds, NEW a \in Agents
  PROVE  bids[t][a] \in BidType /\ bids[t][a].stake \in Nat /\ bids[t][a].price \in Nat
<1>1. bids[t][a] \in BidType
  BY DEF TypeOK
<1>. QED BY <1>1, MenuTypes DEF BidType

LEMMA VerificationFields ==
  ASSUME NEW vs \in [Verifiers -> VerificationType], NEW v \in Verifiers
  PROVE  /\ vs[v] \in VerificationType
         /\ vs[v].stake \in Nat
         /\ vs[v].vote \in {"None", "Pending", "Approved", "Rejected"}
BY DEF VerificationType

LEMMA PanelType ==
  ASSUME TypeOK, NEW t \in TaskIds
  PROVE  verifications[t] \in [Verifiers -> VerificationType]
BY DEF TypeOK

LEMMA BiddersType ==
  ASSUME TypeOK, NEW t \in TaskIds
  PROVE  Bidders(t) \subseteq Agents /\ Revealed(t) \subseteq Agents
<1>1. taskBidders[t] \in Seq(Agents)
  BY DEF TypeOK
<1>. QED BY <1>1 DEF Bidders, Revealed

LEMMA ReleasePosterType ==
  ASSUME TypeOK, NEW t \in TaskIds, ReleasePoster(t)
  PROVE  posterActiveTasks' \in [Posters -> Int]
<1>. DEFINE p == task[t].poster
<1>1. posterActiveTasks \in [Posters -> Int]
  BY DEF TypeOK
<1>2. p \in Posters => posterActiveTasks[p] - 1 \in Int
  BY <1>1
<1>3. posterActiveTasks' = [posterActiveTasks EXCEPT ![p] = posterActiveTasks[p] - 1]
  BY DEF ReleasePoster
<1>. HIDE DEF p
<1>. QED BY <1>1, <1>2, <1>3, UpdateType

LEMMA ReleaseBidsType ==
  ASSUME TypeOK, NEW t \in TaskIds, ReleaseBids(t)
  PROVE  agentActiveBids' \in [Agents -> Int]
BY DEF TypeOK, ReleaseBids

LEMMA StakesReturnedType ==
  ASSUME TypeOK, NEW t \in TaskIds, NEW S \in SUBSET Agents
  PROVE  StakesReturned(t, S) \in [Address -> Int]
<1>1. \A x \in Address : agentActiveStake[x] \in Int
  BY DEF TypeOK
<1>2. \A x \in S : bids[t][x].stake \in Nat
  BY BidFields
<1>. QED BY <1>1, <1>2 DEF StakesReturned

LEMMA AgentStakeReturned ==
  ASSUME TypeOK, NEW t \in TaskIds
  PROVE  [agentActiveStake EXCEPT ![assignment[t].agent] = @ - assignment[t].stake]
           \in [Address -> Int]
<1>. DEFINE a == assignment[t].agent
            n == assignment[t].stake
<1>1. agentActiveStake \in [Address -> Int]
  BY DEF TypeOK
<1>2. n \in Nat
  BY AssignmentFields
<1>. HIDE DEF a, n
<1>3. a \in Address => agentActiveStake[a] - n \in Int
  BY <1>1, <1>2
<1>4. [agentActiveStake EXCEPT ![a] = agentActiveStake[a] - n] \in [Address -> Int]
  BY <1>1, <1>3, UpdateType
<1>. QED BY <1>4 DEF a, n

LEMMA ReleasedType ==
  ASSUME TypeOK, NEW t \in TaskIds, NEW vs \in [Verifiers -> VerificationType],
         NEW stake \in [Address -> Int]
  PROVE  Released(t, vs, stake) \in [Address -> Int]
<1>1. assignment[t].stake \in Nat
  BY AssignmentFields
<1>2. \A v \in Panel(vs) : vs[v].stake \in Nat
  BY VerificationFields DEF Panel
<1>. QED BY <1>1, <1>2 DEF Released

\* An update of one agent's entry in a record of the agents.
LEMMA CountUp ==
  ASSUME NEW f \in [Agents -> Nat], NEW x, NEW n \in Nat
  PROVE  [f EXCEPT ![x] = @ + n] \in [Agents -> Nat]
<1>1. x \in Agents => f[x] + n \in Nat
  OBVIOUS
<1>2. [f EXCEPT ![x] = f[x] + n] \in [Agents -> Nat]
  BY <1>1, UpdateType
<1>. QED BY <1>2

LEMMA CountDown ==
  ASSUME NEW f \in [Agents -> Nat], NEW x, NEW n \in Nat
  PROVE  [f EXCEPT ![x] = FloorSub(@, n)] \in [Agents -> Nat]
<1>1. x \in Agents => FloorSub(f[x], n) \in Nat
  BY FloorSubType
<1>2. [f EXCEPT ![x] = FloorSub(f[x], n)] \in [Agents -> Nat]
  BY <1>1, UpdateType
<1>. QED BY <1>2

LEMMA SeverityShare ==
  ASSUME NEW severity \in DOMAIN SlashBps
  PROVE  SlashBps[severity] \in 0 .. BPS
<1>1. DOMAIN SlashBps = {"Late", "Minor", "Material", "Execution", "Critical"}
  BY DEF SlashBps
<1>2. /\ SlashBps["Late"] = 1500 /\ SlashBps["Minor"] = 2500 /\ SlashBps["Material"] = 5000
      /\ SlashBps["Execution"] = 7500 /\ SlashBps["Critical"] = 10000
  BY DEF SlashBps
<1>3. BPS = 10000
  BY DEF BPS
<1>4. SlashBps[severity] \in {1500, 2500, 5000, 7500, 10000}
  BY <1>1, <1>2
<1>5. \A n \in {1500, 2500, 5000, 7500, 10000} : n \in 0 .. 10000
  OBVIOUS
<1>. QED BY <1>3, <1>4, <1>5

-----------------------------------------------------------------------------
(* Settlement *)

AgentTypes ==
  /\ agentReputation \in [Agents -> Nat]
  /\ agentTasksCompleted \in [Agents -> Nat]
  /\ agentTasksFailed \in [Agents -> Nat]
  /\ agentBanned \in [Address -> BOOLEAN]
  /\ agentSlashCooldownEnd \in [Agents -> Nat]
SlashTypes ==
  /\ slashBonds \in [TaskIds -> Nat]
  /\ taskSlashAmount \in [TaskIds -> Nat]
  /\ taskBondSlashAmount \in [TaskIds -> Nat]
\* The variables a settlement writes.
SettledTypes ==
  /\ status \in [TaskIds -> TaskStatus]
  /\ posterActiveTasks \in [Posters -> Int]
  /\ agentActiveStake \in [Address -> Int]
  /\ AgentTypes
  /\ SlashTypes

LEMMA StatusUpdate ==
  ASSUME TypeOK, NEW t, NEW s \in TaskStatus
  PROVE  [status EXCEPT ![t] = s] \in [TaskIds -> TaskStatus]
BY UpdateType DEF TypeOK

LEMMA CooldownType ==
  ASSUME TypeOK, NEW x
  PROVE  [agentSlashCooldownEnd EXCEPT ![x] = now + SlashCooldown] \in [Agents -> Nat]
<1>1. now + SlashCooldown \in Nat
  BY ConstantsAssumption, ConstantTypes DEF TypeOK, ConstantsAssumption
<1>. QED BY <1>1, UpdateType DEF TypeOK

LEMMA SettleSuccessType ==
  ASSUME TypeOK, NEW t \in TaskIds, NEW vs \in [Verifiers -> VerificationType], NEW pre,
         pre.stake \in [Address -> Int], SettleSuccess(t, vs, pre)
  PROVE  SettledTypes'
<1>. DEFINE bond == Bps(assignment[t].stake, SlashBondBps)
<1>1. status' \in [TaskIds -> TaskStatus]
  BY StatusUpdate DEF SettleSuccess, TaskStatus
<1>2. posterActiveTasks' \in [Posters -> Int]
  BY ReleasePosterType DEF SettleSuccess
<1>3. agentActiveStake' \in [Address -> Int]
  BY ReleasedType DEF SettleSuccess
<1>4. agentReputation' \in [Agents -> Nat]
  BY CountUp DEF SettleSuccess, TypeOK
<1>5. agentTasksCompleted' \in [Agents -> Nat]
  BY CountUp DEF SettleSuccess, TypeOK
<1>6. slashBonds' \in [TaskIds -> Nat]
  <2>1. bond \in Nat
    <3>1. SlashBondBps \in 0 .. BPS
      BY DEF BPS, SlashBondBps
    <3>. QED BY <3>1, AssignmentFields, BpsType
  <2>2. slashBonds \in [TaskIds -> Nat]
    BY DEF TypeOK
  <2>3. slashBonds' = IF bond > 0 THEN [slashBonds EXCEPT ![t] = bond] ELSE slashBonds
    BY DEF SettleSuccess
  <2>. HIDE DEF bond
  <2>. QED BY <2>1, <2>2, <2>3
<1>7. /\ agentTasksFailed' \in [Agents -> Nat]
      /\ agentBanned' \in [Address -> BOOLEAN]
      /\ agentSlashCooldownEnd' \in [Agents -> Nat]
      /\ taskSlashAmount' \in [TaskIds -> Nat]
      /\ taskBondSlashAmount' \in [TaskIds -> Nat]
  BY DEF SettleSuccess, TypeOK
<1>. QED BY <1>1, <1>2, <1>3, <1>4, <1>5, <1>6, <1>7 DEF SettledTypes, AgentTypes, SlashTypes

LEMMA SettleFailureType ==
  ASSUME TypeOK, NEW t \in TaskIds, NEW vs \in [Verifiers -> VerificationType], NEW pre,
         pre.stake \in [Address -> Int], NEW severity \in DOMAIN SlashBps,
         SettleFailure(t, vs, severity, pre)
  PROVE  SettledTypes'
<1>. DEFINE slashed == Bps(assignment[t].stake, SlashBps[severity])
<1>1. status' \in [TaskIds -> TaskStatus]
  BY StatusUpdate DEF SettleFailure, TaskStatus
<1>2. posterActiveTasks' \in [Posters -> Int]
  BY ReleasePosterType DEF SettleFailure
<1>3. agentActiveStake' \in [Address -> Int]
  BY ReleasedType DEF SettleFailure
<1>4. agentReputation' \in [Agents -> Nat]
  BY CountDown DEF SettleFailure, TypeOK
<1>5. agentTasksFailed' \in [Agents -> Nat]
  BY CountUp DEF SettleFailure, TypeOK
<1>6. agentBanned' \in [Address -> BOOLEAN]
  BY UpdateType DEF SettleFailure, TypeOK
<1>7. agentSlashCooldownEnd' \in [Agents -> Nat]
  BY CooldownType DEF SettleFailure, TypeOK
<1>8. taskSlashAmount' \in [TaskIds -> Nat]
  <2>1. slashed \in Nat
    BY AssignmentFields, BpsType, SeverityShare
  <2>2. taskSlashAmount \in [TaskIds -> Nat]
    BY DEF TypeOK
  <2>3. taskSlashAmount' = [taskSlashAmount EXCEPT ![t] = slashed]
    BY DEF SettleFailure
  <2>. HIDE DEF slashed
  <2>. QED BY <2>1, <2>2, <2>3
<1>9. /\ slashBonds' \in [TaskIds -> Nat]
      /\ taskBondSlashAmount' \in [TaskIds -> Nat]
      /\ agentTasksCompleted' \in [Agents -> Nat]
  BY DEF SettleFailure, TypeOK
<1>. QED BY <1>1, <1>2, <1>3, <1>4, <1>5, <1>6, <1>7, <1>8, <1>9
         DEF SettledTypes, AgentTypes, SlashTypes

LEMMA TrySettlementType ==
  ASSUME TypeOK, NEW t \in TaskIds, NEW vs \in [Verifiers -> VerificationType], NEW pre,
         pre.stake \in [Address -> Int], TrySettlement(t, vs, pre)
  PROVE  SettledTypes'
<1>. DEFINE ledgerOnly == /\ agentActiveStake' = pre.stake
                          /\ UNCHANGED <<posterActiveTasks, agentRecord, slashRecord>>
<1>1. CASE ledgerOnly /\ status' \in {status, [status EXCEPT ![t] = "Disputed"]}
  <2>1. status' \in [TaskIds -> TaskStatus]
    <3>1. status \in [TaskIds -> TaskStatus]
      BY DEF TypeOK
    <3>2. [status EXCEPT ![t] = "Disputed"] \in [TaskIds -> TaskStatus]
      BY StatusUpdate DEF TaskStatus
    <3>. QED BY <1>1, <3>1, <3>2
  <2>. QED BY <1>1, <2>1 DEF SettledTypes, AgentTypes, SlashTypes, TypeOK, agentRecord, slashRecord
<1>2. CASE SettleSuccess(t, vs, pre)
  BY <1>2, SettleSuccessType
<1>3. CASE SettleFailure(t, vs, "Material", pre)
  BY <1>3, SettleFailureType DEF SlashBps
<1>. QED BY <1>1, <1>2, <1>3 DEF TrySettlement

-----------------------------------------------------------------------------
(* Every action keeps TypeOK *)

LEMMA CreateTaskType ==
  ASSUME TypeOK, NEW p \in Posters, NEW terms \in Terms, CreateTask(p, terms)
  PROVE  TypeOK'
<1>. DEFINE new == [poster |-> p, bounty |-> terms.bounty, deadline |-> now + terms.deadline,
                    slashWindow |-> terms.slashWindow, bidDeadline |-> now + terms.bidDuration,
                    revealDeadline |-> now + terms.bidDuration + terms.revealDuration,
                    requiredVerifiers |-> terms.requiredVerifiers]
<1>1. terms \in [bounty : Nat, deadline : Nat, slashWindow : Nat, bidDuration : Nat,
                 revealDuration : Nat, requiredVerifiers : Nat]
  BY ConstantsAssumption DEF ConstantsAssumption
<1>2. now \in Nat /\ taskCount \in 0 .. MaxTasks /\ taskCount \in TaskIds
  BY ConstantTypes DEF TypeOK, CreateTask
<1>3. task' \in [TaskIds -> TaskType]
  <2>1. new \in TaskType
    BY <1>1, <1>2 DEF TaskType, CreateTask, MaxVerifiers, SlashWindows
  <2>2. task \in [TaskIds -> TaskType] /\ task' = [task EXCEPT ![taskCount] = new]
    BY DEF TypeOK, CreateTask
  <2>. HIDE DEF new
  <2>. QED BY <2>1, <2>2
<1>4. taskCount' \in 0 .. MaxTasks
  BY <1>2, ConstantTypes DEF CreateTask, TaskIds
<1>5. posterActiveTasks' \in [Posters -> Int]
  BY DEF TypeOK, CreateTask
<1>6. status' \in [TaskIds -> TaskStatus]
  BY StatusUpdate DEF CreateTask, TaskStatus
<1>. QED BY <1>3, <1>4, <1>5, <1>6 DEF TypeOK, CreateTask, clock, slashRecord, agentRecord, auctionRecord, panelRecord, balances

LEMMA CancelTaskType ==
  ASSUME TypeOK, NEW t \in TaskIds, CancelTask(t)
  PROVE  TypeOK'
<1>1. status' \in [TaskIds -> TaskStatus]
  BY StatusUpdate DEF CancelTask, TaskStatus
<1>2. posterActiveTasks' \in [Posters -> Int]
  BY ReleasePosterType DEF CancelTask
<1>3. agentActiveBids' \in [Agents -> Int]
  BY ReleaseBidsType DEF CancelTask
<1>4. agentActiveStake' \in [Address -> Int]
  BY StakesReturnedType, BiddersType DEF CancelTask
<1>. QED BY <1>1, <1>2, <1>3, <1>4 DEF TypeOK, CancelTask, clock, slashRecord, agentRecord, auctionRecord, panelRecord, balances

LEMMA CommitBidType ==
  ASSUME TypeOK, NEW t \in TaskIds, NEW a \in Agents, NEW offer \in Offers, CommitBid(t, a, offer)
  PROVE  TypeOK'
<1>. DEFINE bid == [committed |-> TRUE, revealed |-> FALSE,
                    stake |-> offer.stake, price |-> offer.price]
<1>1. agentActiveBids' \in [Agents -> Int]
  BY DEF TypeOK, CommitBid
<1>2. bids' \in [TaskIds -> [Agents -> BidType]]
  <2>1. bid \in BidType
    BY ConstantsAssumption DEF ConstantsAssumption, BidType, BidStakes
  <2>2. bids' = [bids EXCEPT ![t][a] = bid]
    BY DEF CommitBid
  <2>. HIDE DEF bid
  <2>. QED BY <2>1, <2>2 DEF TypeOK
<1>3. taskBidders' \in [TaskIds -> Seq(Agents)]
  <2>1. taskBidders \in [TaskIds -> Seq(Agents)]
    BY DEF TypeOK
  <2>2. Append(taskBidders[t], a) \in Seq(Agents)
    BY <2>1
  <2>3. taskBidders' = [taskBidders EXCEPT ![t] = Append(taskBidders[t], a)]
    BY DEF CommitBid
  <2>. QED BY <2>1, <2>2, <2>3
<1>. QED BY <1>1, <1>2, <1>3 DEF TypeOK, CommitBid, clock, slashRecord, agentRecord, auctionRecord, panelRecord, balances

LEMMA RevealBidType ==
  ASSUME TypeOK, NEW t \in TaskIds, NEW a \in Agents, RevealBid(t, a)
  PROVE  TypeOK'
<1>1. status' \in [TaskIds -> TaskStatus]
  BY DEF TypeOK, RevealBid, TaskStatus, StatusAfterReveal
<1>2. bids' \in [TaskIds -> [Agents -> BidType]]
  <2>1. [bids[t][a] EXCEPT !.revealed = TRUE] \in BidType
    BY BidFields DEF BidType
  <2>. QED BY <2>1 DEF TypeOK, RevealBid
<1>3. agentActiveStake' \in [Address -> Int]
  <2>1. agentActiveStake \in [Address -> Int]
    BY DEF TypeOK
  <2>2. a \in Address /\ bids[t][a].stake \in Nat
    BY BidFields DEF Address
  <2>3. agentActiveStake' = [agentActiveStake EXCEPT ![a] = agentActiveStake[a] + bids[t][a].stake]
    BY DEF RevealBid
  <2>. QED BY <2>1, <2>2, <2>3
<1>. QED BY <1>1, <1>2, <1>3 DEF TypeOK, RevealBid, clock, slashRecord, agentRecord, auctionRecord, panelRecord, balances

LEMMA ResolveAuctionType ==
  ASSUME TypeOK, NEW t \in TaskIds, ResolveAuction(t)
  PROVE  TypeOK'
<1>1. PICK i \in DOMAIN taskBidders[t] :
        LET winner == taskBidders[t][i]
            losers == Losers(t, winner) IN
        /\ Wins(t, i)
        /\ assignment' = [assignment EXCEPT ![t] =
             [agent |-> winner, stake |-> bids[t][winner].stake,
              price |-> bids[t][winner].price, assignedAt |-> now, deliveredAt |-> 0]]
        /\ agentActiveStake' = StakesReturned(t, losers)
  BY DEF ResolveAuction
<1>. DEFINE winner == taskBidders[t][i]
            new == [agent |-> winner, stake |-> bids[t][winner].stake,
                    price |-> bids[t][winner].price, assignedAt |-> now, deliveredAt |-> 0]
<1>2. winner \in Agents
  BY <1>1, BiddersType DEF Bidders
<1>3. assignment' \in [TaskIds -> AssignmentType]
  <2>1. new \in AssignmentType
    BY <1>2, BidFields, ConstantTypes DEF AssignmentType, TypeOK
  <2>2. assignment' = [assignment EXCEPT ![t] = new]
    BY <1>1
  <2>. HIDE DEF new
  <2>. QED BY <2>1, <2>2 DEF TypeOK
<1>4. agentActiveStake' \in [Address -> Int]
  <2>1. Losers(t, winner) \in SUBSET Agents
    BY BiddersType DEF Losers
  <2>. QED BY <2>1, <1>1, StakesReturnedType
<1>5. agentActiveBids' \in [Agents -> Int]
  BY ReleaseBidsType DEF ResolveAuction
<1>6. status' \in [TaskIds -> TaskStatus]
  BY StatusUpdate DEF ResolveAuction, TaskStatus
<1>. QED BY <1>3, <1>4, <1>5, <1>6 DEF TypeOK, ResolveAuction, clock, slashRecord, agentRecord, auctionRecord, panelRecord, balances

LEMMA DeliverTaskType ==
  ASSUME TypeOK, NEW t \in TaskIds, DeliverTask(t)
  PROVE  TypeOK'
<1>1. status' \in [TaskIds -> TaskStatus]
  BY StatusUpdate DEF DeliverTask, TaskStatus
<1>2. assignment' \in [TaskIds -> AssignmentType]
  <2>. DEFINE new == [assignment[t] EXCEPT !.deliveredAt = now]
  <2>1. assignment \in [TaskIds -> AssignmentType] /\ assignment[t] \in AssignmentType /\ now \in Time
    BY AssignmentFields DEF TypeOK
  <2>2. new \in AssignmentType
    BY <2>1 DEF AssignmentType
  <2>3. assignment' = [assignment EXCEPT ![t] = new]
    BY DEF DeliverTask
  <2>. HIDE DEF new
  <2>. QED BY <2>1, <2>2, <2>3
<1>. QED BY <1>1, <1>2 DEF TypeOK, DeliverTask, clock, slashRecord, agentRecord, auctionRecord, panelRecord, balances

LEMMA RegisterVerifierType ==
  ASSUME TypeOK, NEW t \in TaskIds, NEW v \in Verifiers, NEW stake \in VerifierStakes,
         RegisterVerifier(t, v, stake)
  PROVE  TypeOK'
<1>. DEFINE new == [stake |-> stake, vote |-> "Pending"]
<1>1. stake \in Nat /\ v \in Address
  BY ConstantsAssumption DEF ConstantsAssumption, Address
<1>2. agentActiveStake' \in [Address -> Int]
  BY <1>1 DEF TypeOK, RegisterVerifier
<1>3. localLastVerified' \in [Verifiers -> [Agents -> Time]]
  BY DEF TypeOK, RegisterVerifier
<1>4. verifications' \in [TaskIds -> [Verifiers -> VerificationType]]
  <2>1. new \in VerificationType
    BY <1>1 DEF VerificationType
  <2>2. verifications' = [verifications EXCEPT ![t][v] = new]
    BY DEF RegisterVerifier, Reviewable
  <2>. HIDE DEF new
  <2>. QED BY <2>1, <2>2 DEF TypeOK
<1>5. status' \in [TaskIds -> TaskStatus]
  BY StatusUpdate DEF RegisterVerifier, Reviewable, TaskStatus
<1>6. verifierAssignedAt' \in [TaskIds -> Time]
  BY DEF TypeOK, RegisterVerifier
<1>. QED BY <1>2, <1>3, <1>4, <1>5, <1>6 DEF TypeOK, RegisterVerifier, clock, slashRecord, agentRecord, auctionRecord, panelRecord, balances

LEMMA SubmitVerificationType ==
  ASSUME TypeOK, NEW t \in TaskIds, NEW v \in Verifiers, NEW vote \in {"Approved", "Rejected"},
         SubmitVerification(t, v, vote)
  PROVE  TypeOK'
<1>. DEFINE vs == [verifications[t] EXCEPT ![v].vote = vote]
<1>1. vs \in [Verifiers -> VerificationType]
  BY PanelType DEF VerificationType
<1>2. verifications' \in [TaskIds -> [Verifiers -> VerificationType]]
  <2>1. verifications' = [verifications EXCEPT ![t] = vs]
    BY DEF SubmitVerification
  <2>. HIDE DEF vs
  <2>. QED BY <1>1, <2>1 DEF TypeOK
<1>3. SettledTypes'
  <2>1. Ledger.stake \in [Address -> Int]
    BY DEF Ledger, TypeOK
  <2>2. TrySettlement(t, vs, Ledger)
    BY DEF SubmitVerification
  <2>. HIDE DEF vs
  <2>. QED BY <1>1, <2>1, <2>2, TrySettlementType
<1>. QED BY <1>2, <1>3 DEF TypeOK, SettledTypes, AgentTypes, SlashTypes, SubmitVerification, clock, slashRecord, agentRecord, auctionRecord, panelRecord, balances

LEMMA EnforceVerifierTimeoutType ==
  ASSUME TypeOK, NEW t \in TaskIds, EnforceVerifierTimeout(t)
  PROVE  TypeOK'
<1>. DEFINE silent == VotesFor(verifications[t], "Pending")
            vs == [v \in Verifiers |-> IF v \in silent THEN [stake |-> 0, vote |-> "Rejected"]
                                       ELSE verifications[t][v]]
            stakes == [x \in Address |-> IF x \in silent
                         THEN agentActiveStake[x] - verifications[t][x].stake
                         ELSE agentActiveStake[x]]
<1>1. vs \in [Verifiers -> VerificationType]
  <2>1. [stake |-> 0, vote |-> "Rejected"] \in VerificationType
    BY DEF VerificationType
  <2>. QED BY <2>1, PanelType
<1>2. stakes \in [Address -> Int]
  <2>1. \A v \in silent : verifications[t][v].stake \in Nat
    BY VerificationFields, PanelType DEF VotesFor
  <2>2. \A x \in Address : agentActiveStake[x] \in Int
    BY DEF TypeOK
  <2>. HIDE DEF silent
  <2>. QED BY <2>1, <2>2
<1>3. verifications' \in [TaskIds -> [Verifiers -> VerificationType]]
  <2>1. verifications' = [verifications EXCEPT ![t] = vs]
    BY DEF EnforceVerifierTimeout
  <2>. HIDE DEF vs
  <2>. QED BY <1>1, <2>1 DEF TypeOK
<1>4. SettledTypes'
  <2>1. CASE /\ status' = [status EXCEPT ![t] = "Disputed"]
             /\ ReleasePoster(t)
             /\ agentActiveStake' = [stakes EXCEPT ![assignment[t].agent] = @ - assignment[t].stake]
             /\ UNCHANGED <<slashRecord, agentRecord>>
    <3>1. status' \in [TaskIds -> TaskStatus]
      BY <2>1, StatusUpdate DEF TaskStatus
    <3>2. posterActiveTasks' \in [Posters -> Int]
      BY <2>1, ReleasePosterType
    <3>3. agentActiveStake' \in [Address -> Int]
      <4>. DEFINE a == assignment[t].agent
                  n == assignment[t].stake
      <4>1. n \in Nat
        BY AssignmentFields
      <4>2. agentActiveStake' = [stakes EXCEPT ![a] = stakes[a] - n]
        BY <2>1
      <4>. HIDE DEF a, n, stakes
      <4>3. a \in Address => stakes[a] - n \in Int
        BY <1>2, <4>1
      <4>. QED BY <1>2, <4>2, <4>3, UpdateType
    <3>. QED BY <2>1, <3>1, <3>2, <3>3
             DEF SettledTypes, AgentTypes, SlashTypes, TypeOK, agentRecord, slashRecord
  <2>2. CASE \E pre : pre.stake = stakes /\ TrySettlement(t, vs, pre)
    <3>1. PICK pre : pre.stake = stakes /\ TrySettlement(t, vs, pre)
      BY <2>2
    <3>. HIDE DEF vs, stakes
    <3>. QED BY <1>1, <1>2, <3>1, TrySettlementType
  <2>. QED BY <2>1, <2>2 DEF EnforceVerifierTimeout
<1>. QED BY <1>3, <1>4 DEF TypeOK, SettledTypes, AgentTypes, SlashTypes, EnforceVerifierTimeout, clock, slashRecord, agentRecord, auctionRecord, panelRecord, balances

LEMMA AbandonVerificationType ==
  ASSUME TypeOK, NEW t \in TaskIds, AbandonVerification(t)
  PROVE  TypeOK'
<1>1. status' \in [TaskIds -> TaskStatus]
  BY StatusUpdate DEF AbandonVerification, TaskStatus
<1>2. posterActiveTasks' \in [Posters -> Int]
  BY ReleasePosterType DEF AbandonVerification
<1>3. agentActiveStake' \in [Address -> Int]
  <2>1. agentActiveStake \in [Address -> Int]
    BY DEF TypeOK
  <2>. QED BY <2>1, ReleasedType, PanelType DEF AbandonVerification
<1>4. verifications' \in [TaskIds -> [Verifiers -> VerificationType]]
  <2>1. \A v \in Verifiers : [verifications[t][v] EXCEPT !.stake = 0] \in VerificationType
    BY VerificationFields, PanelType DEF VerificationType
  <2>. QED BY <2>1 DEF TypeOK, AbandonVerification
<1>. QED BY <1>1, <1>2, <1>3, <1>4 DEF TypeOK, AbandonVerification, clock, slashRecord, agentRecord, auctionRecord, panelRecord, balances

LEMMA EnforceDeliveredTimeoutType ==
  ASSUME TypeOK, NEW t \in TaskIds, EnforceDeliveredTimeout(t)
  PROVE  TypeOK'
<1>1. status' \in [TaskIds -> TaskStatus]
  BY StatusUpdate DEF EnforceDeliveredTimeout, TaskStatus
<1>2. posterActiveTasks' \in [Posters -> Int]
  BY ReleasePosterType DEF EnforceDeliveredTimeout
<1>3. agentActiveStake' \in [Address -> Int]
  BY AgentStakeReturned DEF EnforceDeliveredTimeout
<1>. QED BY <1>1, <1>2, <1>3 DEF TypeOK, EnforceDeliveredTimeout, clock, slashRecord, agentRecord, auctionRecord, panelRecord, balances

LEMMA EnforceDeadlineType ==
  ASSUME TypeOK, NEW t \in TaskIds, EnforceDeadline(t)
  PROVE  TypeOK'
<1>1. PICK severity \in {"Late", "Material"} :
        SettleFailure(t, verifications[t], severity, Ledger)
  BY DEF EnforceDeadline
<1>2. SettledTypes'
  <2>1. Ledger.stake \in [Address -> Int]
    BY DEF Ledger, TypeOK
  <2>2. severity \in DOMAIN SlashBps
    BY DEF SlashBps
  <2>. QED BY <1>1, <2>1, <2>2, PanelType, SettleFailureType
<1>. QED BY <1>2 DEF TypeOK, SettledTypes, AgentTypes, SlashTypes, EnforceDeadline, clock, slashRecord, agentRecord, auctionRecord, panelRecord, balances

LEMMA PostCompletionSlashType ==
  ASSUME TypeOK, NEW t \in TaskIds, NEW severity \in Severities, PostCompletionSlash(t, severity)
  PROVE  TypeOK'
<1>. DEFINE slashed == Bps(slashBonds[t], SlashBps[severity])
<1>1. severity \in DOMAIN SlashBps
  BY ConstantsAssumption DEF ConstantsAssumption
<1>2. taskBondSlashAmount' \in [TaskIds -> Nat]
  <2>1. slashed \in Nat
    BY <1>1, SeverityShare, BpsType DEF TypeOK
  <2>2. taskBondSlashAmount' = [taskBondSlashAmount EXCEPT ![t] = slashed]
    BY DEF PostCompletionSlash
  <2>. HIDE DEF slashed
  <2>. QED BY <2>1, <2>2 DEF TypeOK
<1>3. slashBonds' \in [TaskIds -> Nat]
  BY DEF TypeOK, PostCompletionSlash, TakeBond
<1>4. status' \in [TaskIds -> TaskStatus]
  BY StatusUpdate DEF PostCompletionSlash, TaskStatus
<1>5. agentReputation' \in [Agents -> Nat]
  <2>. DEFINE n == IF SlashBps[severity] >= 2000 THEN 20 ELSE 5
  <2>1. agentReputation' = [agentReputation EXCEPT ![assignment[t].agent] = FloorSub(@, n)]
    BY DEF PostCompletionSlash
  <2>2. n \in Nat
    OBVIOUS
  <2>. HIDE DEF n
  <2>. QED BY <2>1, <2>2, CountDown DEF TypeOK
<1>6. agentTasksFailed' \in [Agents -> Nat]
  BY CountUp DEF PostCompletionSlash, TypeOK
<1>7. agentTasksCompleted' \in [Agents -> Nat]
  BY CountDown DEF PostCompletionSlash, TypeOK
<1>8. agentBanned' \in [Address -> BOOLEAN]
  BY UpdateType DEF PostCompletionSlash, TypeOK
<1>9. agentSlashCooldownEnd' \in [Agents -> Nat]
  BY CooldownType DEF PostCompletionSlash, TypeOK
<1>. QED BY <1>2, <1>3, <1>4, <1>5, <1>6, <1>7, <1>8, <1>9 DEF TypeOK, PostCompletionSlash, clock, slashRecord, agentRecord, auctionRecord, panelRecord, balances

LEMMA ClaimSlashBondType ==
  ASSUME TypeOK, NEW t \in TaskIds, ClaimSlashBond(t)
  PROVE  TypeOK'
<1>1. slashBonds' \in [TaskIds -> Nat]
  BY DEF TypeOK, ClaimSlashBond, TakeBond
<1>. QED BY <1>1 DEF TypeOK, ClaimSlashBond, clock, slashRecord, agentRecord, auctionRecord, panelRecord, balances

LEMMA EmergencyWithdrawBountyType ==
  ASSUME TypeOK, NEW t \in TaskIds, EmergencyWithdrawBounty(t)
  PROVE  TypeOK'
<1>1. task' \in [TaskIds -> TaskType]
  <2>. DEFINE new == [task[t] EXCEPT !.bounty = 0]
  <2>1. task \in [TaskIds -> TaskType] /\ task[t] \in TaskType /\ 0 \in Nat
    BY TaskFields DEF TypeOK
  <2>2. new \in TaskType
    BY <2>1 DEF TaskType
  <2>3. task' = [task EXCEPT ![t] = new]
    BY DEF EmergencyWithdrawBounty
  <2>. HIDE DEF new
  <2>. QED BY <2>1, <2>2, <2>3
<1>2. status' \in [TaskIds -> TaskStatus]
  BY StatusUpdate DEF EmergencyWithdrawBounty, TaskStatus
<1>3. posterActiveTasks' \in [Posters -> Int]
  BY ReleasePosterType DEF EmergencyWithdrawBounty
<1>. QED BY <1>1, <1>2, <1>3 DEF TypeOK, EmergencyWithdrawBounty, clock, slashRecord, agentRecord, auctionRecord, panelRecord, balances

LEMMA EmergencyWithdrawStakeType ==
  ASSUME TypeOK, NEW t \in TaskIds, EmergencyWithdrawStake(t)
  PROVE  TypeOK'
<1>1. assignment' \in [TaskIds -> AssignmentType]
  <2>. DEFINE new == [assignment[t] EXCEPT !.stake = 0]
  <2>1. assignment \in [TaskIds -> AssignmentType] /\ assignment[t] \in AssignmentType /\ 0 \in Nat
    BY AssignmentFields DEF TypeOK
  <2>2. new \in AssignmentType
    BY <2>1 DEF AssignmentType
  <2>3. assignment' = [assignment EXCEPT ![t] = new]
    BY DEF EmergencyWithdrawStake
  <2>. HIDE DEF new
  <2>. QED BY <2>1, <2>2, <2>3
<1>2. agentActiveStake' \in [Address -> Int]
  BY AgentStakeReturned DEF EmergencyWithdrawStake
<1>. QED BY <1>1, <1>2 DEF TypeOK, EmergencyWithdrawStake, clock, slashRecord, agentRecord, auctionRecord, panelRecord, balances

\* The steps that touch no task's money: time, treasury, pause and ban.
LEMMA OtherTypes ==
  ASSUME TypeOK,
         Tick \/ WithdrawProtocolFees \/ Pause \/ Unpause \/ \E x \in Address : UnbanAgent(x)
  PROVE  TypeOK'
<1>1. CASE Tick
  <2>1. now' \in Time \ {0}
    BY <1>1, ConstantTypes DEF TypeOK, Tick, Time
  <2>. QED BY <1>1, <2>1 DEF TypeOK, Tick, clock, slashRecord, agentRecord, auctionRecord, panelRecord, balances
<1>2. CASE WithdrawProtocolFees
  BY <1>2 DEF TypeOK, WithdrawProtocolFees, clock, slashRecord, agentRecord, auctionRecord, panelRecord, balances
<1>3. CASE Pause
  BY <1>3 DEF TypeOK, Pause, clock, slashRecord, agentRecord, auctionRecord, panelRecord, balances
<1>4. CASE Unpause
  BY <1>4, ConstantTypes DEF TypeOK, Unpause, clock, slashRecord, agentRecord, auctionRecord, panelRecord, balances
<1>5. CASE \E x \in Address : UnbanAgent(x)
  <2>1. agentBanned' \in [Address -> BOOLEAN]
    BY <1>5 DEF TypeOK, UnbanAgent
  <2>. QED BY <1>5, <2>1 DEF TypeOK, UnbanAgent, clock, slashRecord, agentRecord, auctionRecord, panelRecord, balances
<1>. QED BY <1>1, <1>2, <1>3, <1>4, <1>5

LEMMA TypeStep ==
  ASSUME TypeOK, [Next]_vars
  PROVE  TypeOK'
<1>1. CASE Next
  BY <1>1, CreateTaskType, CancelTaskType, CommitBidType, RevealBidType, ResolveAuctionType,
     DeliverTaskType, RegisterVerifierType, SubmitVerificationType, EnforceVerifierTimeoutType,
     AbandonVerificationType, EnforceDeliveredTimeoutType, EnforceDeadlineType,
     PostCompletionSlashType, ClaimSlashBondType, EmergencyWithdrawBountyType,
     EmergencyWithdrawStakeType, OtherTypes DEF Next
<1>2. CASE UNCHANGED vars
  BY <1>2 DEF TypeOK, vars, clock, slashRecord, agentRecord, auctionRecord, panelRecord, balances
<1>. QED BY <1>1, <1>2

\* The type invariant: no step of any handler stores a value of another type.
THEOREM TypeCorrect == Spec => []TypeOK
BY InitType, TypeStep, PTL DEF Spec

-----------------------------------------------------------------------------
(* The life cycle                                                          *)

\* What the life cycle knows of task t.
Sound(t) == OrderedTimes(t) /\ InPhase(t) /\ BondCovered(t)
LifecycleInv == TypeOK /\ \A t \in TaskIds : Sound(t)

\* Nothing that Sound(q) reads changes.
Same(q) ==
  /\ Created(q)' = Created(q)
  /\ task'[q] = task[q] /\ status'[q] = status[q] /\ assignment'[q] = assignment[q]
  /\ slashBonds'[q] = slashBonds[q] /\ verifications'[q] = verifications[q]
  /\ verifierAssignedAt'[q] = verifierAssignedAt[q]

LEMMA NatTime ==
  ASSUME TypeOK, NEW t \in TaskIds
  PROVE  /\ now \in Nat \ {0} /\ t \in Nat /\ taskCount \in Nat
         /\ assignment[t].assignedAt \in Nat /\ assignment[t].deliveredAt \in Nat
         /\ assignment[t].stake \in Nat
         /\ task[t].bidDeadline \in Nat /\ task[t].revealDeadline \in Nat
         /\ task[t].deadline \in Nat
         /\ verifierAssignedAt[t] \in Nat /\ slashBonds[t] \in Nat
         /\ status[t] \in TaskStatus
<1>1. verifierAssignedAt[t] \in Time /\ slashBonds[t] \in Nat /\ now \in Time \ {0}
      /\ taskCount \in 0 .. MaxTasks /\ status[t] \in TaskStatus
  BY DEF TypeOK
<1>2. Time \subseteq Nat /\ TaskIds \subseteq Nat /\ MaxTasks \in Nat
  BY ConstantTypes
<1>3. /\ now \in Nat \ {0} /\ t \in Nat
      /\ verifierAssignedAt[t] \in Nat /\ slashBonds[t] \in Nat
  BY <1>1, <1>2
<1>5. taskCount \in Nat
  BY <1>1, <1>2
<1>4. assignment[t].assignedAt \in Nat /\ assignment[t].deliveredAt \in Nat
  BY <1>2, AssignmentFields
<1>. QED BY <1>1, <1>3, <1>4, <1>5, TaskFields, AssignmentFields

LEMMA SameSound ==
  ASSUME TypeOK, NEW q \in TaskIds, Sound(q), Same(q), now' = now
  PROVE  Sound(q)'
BY DEF Sound, Same, OrderedTimes, InPhase, BondCovered, Assigned, Panel

LEMMA LifecycleInit == Init => LifecycleInv
<1>. SUFFICES ASSUME Init, NEW t \in TaskIds PROVE Sound(t)
  BY InitType DEF LifecycleInv
<1>1. /\ status[t] = "Open" /\ assignment[t] = NoAssignment /\ slashBonds[t] = 0
      /\ verifierAssignedAt[t] = 0 /\ taskCount = 0 /\ t \in Nat
      /\ Panel(verifications[t]) = {}
  BY ConstantTypes DEF Init, Panel, NoVerification
<1>. QED BY <1>1 DEF Sound, OrderedTimes, InPhase, BondCovered, Created, Assigned, NoAssignment

LEMMA TickSound ==
  ASSUME LifecycleInv, Tick, NEW q \in TaskIds
  PROVE  Sound(q)'
<1>1. Same(q) /\ now' = now + 1
  BY DEF Same, Tick, Created, clock, slashRecord, agentRecord, auctionRecord, panelRecord, balances
<1>2. now \in Nat /\ assignment[q].assignedAt \in Nat /\ assignment[q].deliveredAt \in Nat
      /\ verifierAssignedAt[q] \in Nat
  BY NatTime DEF LifecycleInv
<1>. QED BY <1>1, <1>2 DEF LifecycleInv, Sound, Same, OrderedTimes, InPhase, BondCovered, Assigned, Panel

LEMMA CreateTaskSound ==
  ASSUME LifecycleInv, NEW p \in Posters, NEW terms \in Terms, CreateTask(p, terms), NEW q \in TaskIds
  PROVE  Sound(q)'
<1>0. TypeOK /\ Sound(q) /\ taskCount \in Nat /\ q \in Nat /\ now \in Nat
  BY NatTime DEF LifecycleInv
<1>1. CASE q # taskCount
  <2>1. Same(q) /\ now' = now
    BY <1>0, <1>1 DEF TypeOK, Same, CreateTask, Created, clock, slashRecord, agentRecord, auctionRecord, panelRecord, balances
  <2>. QED BY <1>0, <2>1, SameSound
<1>2. CASE q = taskCount
  <2>1. terms \in [bounty : Nat, deadline : Nat, slashWindow : Nat, bidDuration : Nat,
                   revealDuration : Nat, requiredVerifiers : Nat]
    BY ConstantsAssumption DEF ConstantsAssumption
  <2>2. /\ task'[q].bidDeadline = now + terms.bidDuration
        /\ task'[q].revealDeadline = now + terms.bidDuration + terms.revealDuration
        /\ task'[q].deadline = now + terms.deadline
        /\ status'[q] = "Open"
    BY <1>2 DEF TypeOK, CreateTask, LifecycleInv
  <2>3. UNCHANGED <<now, assignment, slashBonds, verifications, verifierAssignedAt>>
    BY DEF CreateTask, clock, slashRecord, agentRecord, auctionRecord, panelRecord, balances
  <2>4. Created(q)' /\ status[q] = "Open" /\ ~Created(q)
    BY <1>0, <1>2 DEF CreateTask, Created, Sound, InPhase
  <2>5. terms.revealDuration > 0 /\ terms.deadline > terms.bidDuration + terms.revealDuration
    BY DEF CreateTask, DeadlineAfterAuction
  <2>6. assignment[q] = NoAssignment /\ Panel(verifications[q]) = {} /\ slashBonds[q] = 0
        /\ verifierAssignedAt[q] = 0
    BY <1>0, <2>4 DEF Sound, InPhase, BondCovered, OrderedTimes
  <2>7. /\ task'[q].bidDeadline < task'[q].revealDeadline
        /\ task'[q].revealDeadline < task'[q].deadline
    BY <1>0, <2>1, <2>2, <2>5
  <2>8. assignment'[q] = NoAssignment /\ Panel(verifications'[q]) = {} /\ slashBonds'[q] = 0
        /\ verifierAssignedAt'[q] = 0
    BY <2>3, <2>6
  <2>. QED BY <2>2, <2>4, <2>7, <2>8
           DEF Sound, OrderedTimes, InPhase, BondCovered, Assigned, NoAssignment, Panel
<1>. QED BY <1>1, <1>2

LEMMA CancelTaskSound ==
  ASSUME LifecycleInv, NEW t \in TaskIds, CancelTask(t), NEW q \in TaskIds
  PROVE  Sound(q)'
<1>0. TypeOK /\ Sound(q) /\ now' = now
  BY DEF LifecycleInv, CancelTask, MayCancel, clock, slashRecord, agentRecord, auctionRecord, panelRecord, balances
<1>1. CASE q # t
  <2>1. Same(q)
    BY <1>0, <1>1 DEF TypeOK, Same, Created, CancelTask, MayCancel, clock, slashRecord, agentRecord, auctionRecord, panelRecord, balances
  <2>. QED BY <1>0, <2>1, SameSound
<1>2. CASE q = t
  <2>1. Created(t) /\ Created(t)' /\ status[t] \in {"Open"} /\ status'[t] = "Cancelled"
    BY <1>0 DEF TypeOK, Created, CancelTask, MayCancel, clock, slashRecord, agentRecord, auctionRecord, panelRecord, balances
  <2>2. UNCHANGED <<now, task, assignment, slashBonds, verifications, verifierAssignedAt>>
    BY DEF CancelTask, MayCancel, clock, slashRecord, agentRecord, auctionRecord, panelRecord, balances
  <2>. QED BY <1>0, <1>2, <2>1, <2>2 DEF Sound, OrderedTimes, InPhase, BondCovered, Assigned, Panel
<1>. QED BY <1>1, <1>2

LEMMA EnforceDeliveredTimeoutSound ==
  ASSUME LifecycleInv, NEW t \in TaskIds, EnforceDeliveredTimeout(t), NEW q \in TaskIds
  PROVE  Sound(q)'
<1>0. TypeOK /\ Sound(q) /\ now' = now
  BY DEF LifecycleInv, EnforceDeliveredTimeout, clock, slashRecord, agentRecord, auctionRecord, panelRecord, balances
<1>1. CASE q # t
  <2>1. Same(q)
    BY <1>0, <1>1 DEF TypeOK, Same, Created, EnforceDeliveredTimeout, clock, slashRecord, agentRecord, auctionRecord, panelRecord, balances
  <2>. QED BY <1>0, <2>1, SameSound
<1>2. CASE q = t
  <2>1. Created(t) /\ Created(t)' /\ status[t] \in {"Delivered"} /\ status'[t] = "Cancelled"
    BY <1>0 DEF TypeOK, Created, EnforceDeliveredTimeout, clock, slashRecord, agentRecord, auctionRecord, panelRecord, balances
  <2>2. UNCHANGED <<now, task, assignment, slashBonds, verifications, verifierAssignedAt>>
    BY DEF EnforceDeliveredTimeout, clock, slashRecord, agentRecord, auctionRecord, panelRecord, balances
  <2>. QED BY <1>0, <1>2, <2>1, <2>2 DEF Sound, OrderedTimes, InPhase, BondCovered, Assigned, Panel
<1>. QED BY <1>1, <1>2

LEMMA CommitBidSound ==
  ASSUME LifecycleInv, NEW t \in TaskIds, NEW a \in Agents, NEW offer \in Offers, CommitBid(t, a, offer), NEW q \in TaskIds
  PROVE  Sound(q)'
<1>0. TypeOK /\ Sound(q) /\ now' = now
  BY DEF LifecycleInv, CommitBid, clock, slashRecord, agentRecord, auctionRecord, panelRecord, balances
<1>1. CASE q # t
  <2>1. Same(q)
    BY <1>0, <1>1 DEF TypeOK, Same, Created, CommitBid, clock, slashRecord, agentRecord, auctionRecord, panelRecord, balances
  <2>. QED BY <1>0, <2>1, SameSound
<1>2. CASE q = t
  <2>1. Same(t)
    BY DEF Same, Created, CommitBid, clock, slashRecord, agentRecord, auctionRecord, panelRecord, balances
  <2>. QED BY <1>0, <1>2, <2>1, SameSound
<1>. QED BY <1>1, <1>2

LEMMA RevealBidSound ==
  ASSUME LifecycleInv, NEW t \in TaskIds, NEW a \in Agents, RevealBid(t, a), NEW q \in TaskIds
  PROVE  Sound(q)'
<1>0. TypeOK /\ Sound(q) /\ now' = now
  BY DEF LifecycleInv, RevealBid, clock, slashRecord, agentRecord, auctionRecord, panelRecord, balances
<1>1. CASE q # t
  <2>1. Same(q)
    BY <1>0, <1>1 DEF TypeOK, Same, Created, RevealBid, clock, slashRecord, agentRecord, auctionRecord, panelRecord, balances
  <2>. QED BY <1>0, <2>1, SameSound
<1>2. CASE q = t
  <2>1. /\ Created(t)' /\ Created(t)
        /\ status'[t] = IF status[t] = "Open" THEN "BidReveal" ELSE status[t]
    BY <1>0 DEF TypeOK, Created, RevealBid, StatusAfterReveal, clock, slashRecord, agentRecord, auctionRecord, panelRecord, balances
  <2>2. UNCHANGED <<now, task, assignment, slashBonds, verifications, verifierAssignedAt>>
    BY DEF RevealBid, clock, slashRecord, agentRecord, auctionRecord, panelRecord, balances
  <2>. QED BY <1>0, <1>2, <2>1, <2>2 DEF Sound, OrderedTimes, InPhase, BondCovered, Assigned, Panel
<1>. QED BY <1>1, <1>2

LEMMA ResolveAuctionSound ==
  ASSUME LifecycleInv, NEW t \in TaskIds, ResolveAuction(t), NEW q \in TaskIds
  PROVE  Sound(q)'
<1>0. TypeOK /\ Sound(q) /\ now' = now
  BY DEF LifecycleInv, ResolveAuction, clock, slashRecord, agentRecord, auctionRecord, panelRecord, balances
<1>1. CASE q # t
  <2>1. Same(q)
    BY <1>0, <1>1 DEF TypeOK, Same, Created, ResolveAuction, clock, slashRecord, agentRecord, auctionRecord, panelRecord, balances
  <2>. QED BY <1>0, <2>1, SameSound
<1>2. CASE q = t
  <2>1. PICK a \in Agents, n \in Nat, m \in Nat : assignment' = [assignment EXCEPT ![t] =
          [agent |-> a, stake |-> n, price |-> m, assignedAt |-> now, deliveredAt |-> 0]]
    <3>1. PICK i \in DOMAIN taskBidders[t] :
            LET winner == taskBidders[t][i] IN
            assignment' = [assignment EXCEPT ![t] =
              [agent |-> winner, stake |-> bids[t][winner].stake,
               price |-> bids[t][winner].price, assignedAt |-> now, deliveredAt |-> 0]]
      BY DEF ResolveAuction
    <3>2. taskBidders[t][i] \in Agents
      BY <1>0, BiddersType DEF Bidders
    <3>3. bids[t][taskBidders[t][i]].stake \in Nat /\ bids[t][taskBidders[t][i]].price \in Nat
      BY <1>0, <3>2, BidFields
    <3>. QED BY <3>1, <3>2, <3>3
  <2>2. /\ Created(t)' /\ status[t] \in {"Open", "BidReveal"} /\ status'[t] = "Assigned"
        /\ task[t].revealDeadline <= now
    BY <1>0, NatTime DEF TypeOK, Created, ResolveAuction, clock, slashRecord, agentRecord, auctionRecord, panelRecord, balances
  <2>3. UNCHANGED <<now, task, slashBonds, verifications, verifierAssignedAt>>
    BY DEF ResolveAuction, clock, slashRecord, agentRecord, auctionRecord, panelRecord, balances
  <2>4. assignment'[t].agent \in Agents /\ assignment'[t].assignedAt = now
        /\ assignment'[t].deliveredAt = 0
    BY <1>0, <2>1 DEF TypeOK
  <2>5. assignment'[t].agent # NoAgent
    BY <2>4, ConstantsAssumption DEF ConstantsAssumption, Address
  <2>6. now \in Nat
    BY <1>0, NatTime
  <2>7. Panel(verifications[t]) = {} /\ verifierAssignedAt[t] = 0 /\ slashBonds[t] = 0
    BY <1>0, <1>2, <2>2 DEF Sound, InPhase, OrderedTimes, BondCovered, NoAssignment
  <2>8. Panel(verifications'[t]) = {}
    BY <2>3, <2>7
  <2>9. Created(t)
    BY DEF ResolveAuction
  <2>. QED BY <1>0, <1>2, <2>2, <2>3, <2>4, <2>5, <2>6, <2>7, <2>8, <2>9 DEF Sound, OrderedTimes, InPhase, BondCovered, Assigned, Panel
<1>. QED BY <1>1, <1>2

LEMMA DeliverTaskSound ==
  ASSUME LifecycleInv, NEW t \in TaskIds, DeliverTask(t), NEW q \in TaskIds
  PROVE  Sound(q)'
<1>0. TypeOK /\ Sound(q) /\ now' = now
  BY DEF LifecycleInv, DeliverTask, clock, slashRecord, agentRecord, auctionRecord, panelRecord, balances
<1>1. CASE q # t
  <2>1. Same(q)
    BY <1>0, <1>1 DEF TypeOK, Same, Created, DeliverTask, clock, slashRecord, agentRecord, auctionRecord, panelRecord, balances
  <2>. QED BY <1>0, <2>1, SameSound
<1>2. CASE q = t
  <2>1. /\ Created(t) /\ Created(t)' /\ status[t] = "Assigned" /\ status'[t] = "Delivered"
        /\ now <= task[t].deadline
    BY <1>0 DEF TypeOK, Created, DeliverTask, clock, slashRecord, agentRecord, auctionRecord, panelRecord, balances
  <2>2. UNCHANGED <<now, task, slashBonds, verifications, verifierAssignedAt>>
    BY DEF DeliverTask, clock, slashRecord, agentRecord, auctionRecord, panelRecord, balances
  <2>3. /\ assignment'[t].agent = assignment[t].agent
        /\ assignment'[t].assignedAt = assignment[t].assignedAt
        /\ assignment'[t].deliveredAt = now
    BY <1>0, AssignmentFields DEF TypeOK, DeliverTask, AssignmentType
  <2>4. now \in Nat \ {0} /\ assignment[t].assignedAt \in Nat
    BY <1>0, NatTime
  <2>5. Panel(verifications[t]) = {} /\ verifierAssignedAt[t] = 0 /\ slashBonds[t] = 0
    BY <1>0, <1>2, <2>1 DEF Sound, InPhase, OrderedTimes, BondCovered
  <2>. QED BY <1>0, <1>2, <2>1, <2>2, <2>3, <2>4, <2>5 DEF Sound, OrderedTimes, InPhase, BondCovered, Assigned, Panel
<1>. QED BY <1>1, <1>2

LEMMA RegisterVerifierSound ==
  ASSUME LifecycleInv, NEW t \in TaskIds, NEW v \in Verifiers, NEW stake \in VerifierStakes, RegisterVerifier(t, v, stake), NEW q \in TaskIds
  PROVE  Sound(q)'
<1>0. TypeOK /\ Sound(q) /\ now' = now
  BY DEF LifecycleInv, RegisterVerifier, Reviewable, clock, slashRecord, agentRecord, auctionRecord, panelRecord, balances
<1>1. CASE q # t
  <2>1. Same(q)
    BY <1>0, <1>1 DEF TypeOK, Same, Created, RegisterVerifier, Reviewable, clock, slashRecord, agentRecord, auctionRecord, panelRecord, balances
  <2>. QED BY <1>0, <2>1, SameSound
<1>2. CASE q = t
  <2>1. /\ Created(t) /\ Created(t)'
        /\ status[t] \in {"Delivered", "Verifying"} /\ status'[t] = "Verifying"
        /\ verifierAssignedAt'[t] = IF status[t] = "Delivered" THEN now ELSE verifierAssignedAt[t]
    BY <1>0 DEF TypeOK, Created, RegisterVerifier, Reviewable, clock, slashRecord, agentRecord, auctionRecord, panelRecord, balances
  <2>2. UNCHANGED <<now, task, slashBonds, assignment>>
    BY DEF RegisterVerifier, Reviewable, clock, slashRecord, agentRecord, auctionRecord, panelRecord, balances
  <2>3. v \in Panel(verifications'[t])
    BY <1>0 DEF TypeOK, RegisterVerifier, Panel
  <2>4. now \in Nat \ {0} /\ assignment[t].deliveredAt \in Nat /\ verifierAssignedAt[t] \in Nat
    BY <1>0, NatTime
  <2>. QED BY <1>0, <1>2, <2>1, <2>2, <2>3, <2>4 DEF Sound, OrderedTimes, InPhase, BondCovered, Assigned
<1>. QED BY <1>1, <1>2

-----------------------------------------------------------------------------
(* Settlement *)

\* What a settlement leaves of task t: its panel's members stay, its status moves
\* from Verifying or Assigned to what the votes say, its bond is set only with
\* the task's completion.
Settled(t) ==
  /\ UNCHANGED <<now, taskCount, task, assignment, verifierAssignedAt>>
  /\ \/ status'[t] \in {status[t], "Failed", "Disputed"} /\ slashBonds'[t] = slashBonds[t]
     \/ /\ status'[t] = "Completed"
        /\ \/ slashBonds'[t] = slashBonds[t]
           \/ slashBonds'[t] = Bps(assignment[t].stake, SlashBondBps)
OthersKept(t) ==
  \A q \in TaskIds \ {t} :
    /\ status'[q] = status[q]
    /\ slashBonds'[q] = slashBonds[q]

LEMMA SettleSuccessEffect ==
  ASSUME TypeOK, NEW t \in TaskIds, NEW vs, NEW pre, SettleSuccess(t, vs, pre)
  PROVE  /\ OthersKept(t) /\ status'[t] = "Completed"
         /\ \/ slashBonds'[t] = slashBonds[t]
            \/ slashBonds'[t] = Bps(assignment[t].stake, SlashBondBps)
<1>. DEFINE bond == Bps(assignment[t].stake, SlashBondBps)
<1>1. /\ status' = [status EXCEPT ![t] = "Completed"]
      /\ slashBonds' = IF bond > 0 THEN [slashBonds EXCEPT ![t] = bond] ELSE slashBonds
  BY DEF SettleSuccess
<1>. HIDE DEF bond
<1>2. \/ slashBonds'[t] = slashBonds[t] 
      \/ slashBonds'[t] = bond
  BY <1>1 DEF TypeOK
<1>3. OthersKept(t) /\ status'[t] = "Completed"
  BY <1>1 DEF TypeOK, OthersKept
<1>. QED BY <1>2, <1>3 DEF bond

LEMMA SettleFailureEffect ==
  ASSUME TypeOK, NEW t \in TaskIds, NEW vs, NEW severity, NEW pre, SettleFailure(t, vs, severity, pre)
  PROVE  OthersKept(t) /\ status'[t] = "Failed" /\ slashBonds' = slashBonds
BY DEF SettleFailure, TypeOK, OthersKept

LEMMA TrySettlementEffect ==
  ASSUME TypeOK, NEW t \in TaskIds, NEW vs, NEW pre, TrySettlement(t, vs, pre)
  PROVE  /\ OthersKept(t)
         /\ \/ status'[t] \in {status[t], "Failed", "Disputed"} /\ slashBonds'[t] = slashBonds[t]
            \/ /\ status'[t] = "Completed"
               /\ \/ slashBonds'[t] = slashBonds[t]
                  \/ slashBonds'[t] = Bps(assignment[t].stake, SlashBondBps)
<1>1. CASE UNCHANGED slashRecord /\ status' \in {status, [status EXCEPT ![t] = "Disputed"]}
  BY <1>1 DEF TypeOK, OthersKept, slashRecord
<1>2. CASE SettleSuccess(t, vs, pre)
  BY <1>2, SettleSuccessEffect
<1>3. CASE SettleFailure(t, vs, "Material", pre)
  BY <1>3, SettleFailureEffect
<1>. QED BY <1>1, <1>2, <1>3 DEF TrySettlement

\* A settlement of an assigned or verifying task that keeps the panel's members
\* keeps Sound.
LEMMA SettledSound ==
  ASSUME TypeOK, NEW t \in TaskIds, Sound(t), Created(t), Settled(t),
         status[t] = "Verifying" \/ (status[t] = "Assigned" /\ status'[t] = "Failed"),
         Panel(verifications'[t]) = Panel(verifications[t])
  PROVE  Sound(t)'
<1>1. Assigned(t) /\ slashBonds[t] = 0
  BY DEF Sound, InPhase, BondCovered
<1>2. Bps(assignment[t].stake, SlashBondBps) <= assignment[t].stake
  <2>1. SlashBondBps \in 0 .. BPS
    BY DEF SlashBondBps, BPS
  <2>. QED BY <2>1, AssignmentFields, BpsType
<1>3. OrderedTimes(t)'
  BY DEF Settled, Sound, OrderedTimes, Created, Assigned
<1>4. InPhase(t)'
  BY <1>1 DEF Settled, Sound, InPhase, Created, Assigned
<1>5. BondCovered(t)'
  BY <1>1, <1>2, AssignmentFields DEF Settled, BondCovered
<1>. QED BY <1>3, <1>4, <1>5 DEF Sound

LEMMA SubmitVerificationSound ==
  ASSUME LifecycleInv, NEW t \in TaskIds, NEW v \in Verifiers, NEW vote \in {"Approved", "Rejected"},
         SubmitVerification(t, v, vote), NEW q \in TaskIds
  PROVE  Sound(q)'
<1>. DEFINE vs == [verifications[t] EXCEPT ![v].vote = vote]
<1>0. TypeOK /\ Sound(q) /\ now' = now
  BY DEF LifecycleInv, SubmitVerification, clock
<1>1. /\ Created(t) /\ status[t] = "Verifying" /\ verifications[t][v].vote = "Pending"
      /\ verifications' = [verifications EXCEPT ![t] = vs]
      /\ TrySettlement(t, vs, Ledger)
      /\ UNCHANGED <<now, taskCount, task, assignment, verifierAssignedAt>>
  BY DEF SubmitVerification, clock
<1>2. Panel(vs) = Panel(verifications[t])
  BY <1>0, <1>1, PanelType, VerificationFields DEF Panel, VerificationType
<1>. HIDE DEF vs
<1>3. OthersKept(t) /\ Settled(t)
  BY <1>0, <1>1, TrySettlementEffect DEF Settled
<1>4. CASE q # t
  <2>1. Same(q)
    BY <1>0, <1>1, <1>3, <1>4 DEF TypeOK, Same, Created, OthersKept
  <2>. QED BY <1>0, <2>1, SameSound
<1>5. CASE q = t
  <2>1. Panel(verifications'[t]) = Panel(verifications[t])
    BY <1>0, <1>1, <1>2 DEF TypeOK
  <2>2. Sound(t)
    BY <1>0, <1>5
  <2>4. TypeOK /\ Created(t) /\ status[t] = "Verifying"
    BY <1>0, <1>1
  <2>5. status[t] = "Verifying" \/ (status[t] = "Assigned" /\ status'[t] = "Failed")
    BY <2>4
  <2>3. Sound(t)'
    BY <1>0, <1>3, <2>1, <2>2, <2>4, <2>5, SettledSound
  <2>. QED BY <1>5, <2>3
<1>. QED BY <1>4, <1>5

LEMMA EnforceVerifierTimeoutSound ==
  ASSUME LifecycleInv, NEW t \in TaskIds, EnforceVerifierTimeout(t), NEW q \in TaskIds
  PROVE  Sound(q)'
<1>. DEFINE silent == VotesFor(verifications[t], "Pending")
            vs == [v \in Verifiers |-> IF v \in silent THEN [stake |-> 0, vote |-> "Rejected"]
                                       ELSE verifications[t][v]]
<1>0. TypeOK /\ Sound(q) /\ now' = now
  BY DEF LifecycleInv, EnforceVerifierTimeout, clock
<1>1. /\ Created(t) /\ status[t] = "Verifying"
      /\ verifications' = [verifications EXCEPT ![t] = vs]
      /\ UNCHANGED <<now, taskCount, task, assignment, verifierAssignedAt>>
  BY DEF EnforceVerifierTimeout, clock
<1>2. Panel(vs) = Panel(verifications[t])
  BY DEF Panel, VotesFor
<1>3. \/ status' = [status EXCEPT ![t] = "Disputed"] /\ UNCHANGED slashBonds
      \/ \E pre : TrySettlement(t, vs, pre)
  BY DEF EnforceVerifierTimeout, slashRecord
<1>. HIDE DEF vs
<1>4. OthersKept(t) /\ Settled(t)
  <2>1. CASE status' = [status EXCEPT ![t] = "Disputed"] /\ UNCHANGED slashBonds
    BY <1>0, <1>1, <2>1 DEF TypeOK, Settled, OthersKept
  <2>2. CASE \E pre : TrySettlement(t, vs, pre)
    BY <1>0, <1>1, <2>2, TrySettlementEffect DEF Settled
  <2>. QED BY <1>3, <2>1, <2>2
<1>5. CASE q # t
  <2>1. Same(q)
    BY <1>0, <1>1, <1>4, <1>5 DEF TypeOK, Same, Created, OthersKept
  <2>. QED BY <1>0, <2>1, SameSound
<1>6. CASE q = t
  <2>1. Panel(verifications'[t]) = Panel(verifications[t])
    BY <1>0, <1>1, <1>2 DEF TypeOK
  <2>2. Sound(t)
    BY <1>0, <1>6
  <2>4. TypeOK /\ Created(t) /\ status[t] = "Verifying"
    BY <1>0, <1>1
  <2>5. status[t] = "Verifying" \/ (status[t] = "Assigned" /\ status'[t] = "Failed")
    BY <2>4
  <2>3. Sound(t)'
    BY <1>0, <1>4, <2>1, <2>2, <2>4, <2>5, SettledSound
  <2>. QED BY <1>6, <2>3
<1>. QED BY <1>5, <1>6

LEMMA EnforceDeadlineSound ==
  ASSUME LifecycleInv, NEW t \in TaskIds, EnforceDeadline(t), NEW q \in TaskIds
  PROVE  Sound(q)'
<1>0. TypeOK /\ Sound(q) /\ now' = now
  BY DEF LifecycleInv, EnforceDeadline, clock
<1>1. /\ Created(t) /\ status[t] = "Assigned"
      /\ UNCHANGED <<now, taskCount, task, assignment, verifications, verifierAssignedAt>>
      /\ \E severity : SettleFailure(t, verifications[t], severity, Ledger)
  BY DEF EnforceDeadline, clock, panelRecord
<1>2. OthersKept(t) /\ status'[t] = "Failed" /\ slashBonds' = slashBonds
  BY <1>0, <1>1, SettleFailureEffect
<1>3. CASE q # t
  <2>1. Same(q)
    BY <1>0, <1>1, <1>2, <1>3 DEF TypeOK, Same, Created, OthersKept
  <2>. QED BY <1>0, <2>1, SameSound
<1>4. CASE q = t
  <2>1. Settled(t) /\ Panel(verifications'[t]) = Panel(verifications[t])
    BY <1>1, <1>2 DEF Settled
  <2>. QED BY <1>0, <1>1, <1>2, <1>4, <2>1, SettledSound
<1>. QED BY <1>3, <1>4

LEMMA AbandonVerificationSound ==
  ASSUME LifecycleInv, NEW t \in TaskIds, AbandonVerification(t), NEW q \in TaskIds
  PROVE  Sound(q)'
<1>0. TypeOK /\ Sound(q) /\ now' = now
  BY DEF LifecycleInv, AbandonVerification, clock
<1>1. /\ Created(t) /\ status[t] = "Verifying"
      /\ status' = [status EXCEPT ![t] = "Cancelled"]
      /\ UNCHANGED <<now, taskCount, task, assignment, verifierAssignedAt, slashBonds>>
  BY DEF AbandonVerification, clock, slashRecord
<1>2. verifications' = [verifications EXCEPT ![t] =
        [v \in Verifiers |-> [verifications[t][v] EXCEPT !.stake = 0]]]
  BY DEF AbandonVerification
<1>3. CASE q # t
  <2>1. Same(q)
    BY <1>0, <1>1, <1>2, <1>3 DEF TypeOK, Same, Created
  <2>. QED BY <1>0, <2>1, SameSound
<1>4. CASE q = t
  <2>1. \A v \in Verifiers : verifications'[t][v].vote = verifications[t][v].vote
    <3>1. verifications'[t] = [v \in Verifiers |-> [verifications[t][v] EXCEPT !.stake = 0]]
      BY <1>0, <1>2 DEF TypeOK
    <3>. QED BY <1>0, <3>1, PanelType DEF VerificationType
  <2>2. Panel(verifications'[t]) = Panel(verifications[t])
    BY <2>1 DEF Panel
  <2>3. status'[t] = "Cancelled"
    BY <1>0, <1>1 DEF TypeOK
  <2>. QED BY <1>0, <1>1, <1>4, <2>2, <2>3 DEF Sound, OrderedTimes, InPhase, BondCovered, Assigned, Created
<1>. QED BY <1>3, <1>4

-----------------------------------------------------------------------------
(* The bond and the emergency exits *)

LEMMA PostCompletionSlashSound ==
  ASSUME LifecycleInv, NEW t \in TaskIds, NEW severity \in Severities, PostCompletionSlash(t, severity), NEW q \in TaskIds
  PROVE  Sound(q)'
<1>0. TypeOK /\ Sound(q) /\ now' = now
  BY DEF LifecycleInv, PostCompletionSlash, TakeBond, clock, slashRecord, agentRecord, auctionRecord, panelRecord, balances
<1>1. CASE q # t
  <2>1. Same(q)
    BY <1>0, <1>1 DEF TypeOK, Same, Created, PostCompletionSlash, TakeBond, clock, slashRecord, agentRecord, auctionRecord, panelRecord, balances
  <2>. QED BY <1>0, <2>1, SameSound
<1>2. CASE q = t
  <2>1. /\ Created(t) /\ status[t] = "Completed" /\ status'[t] = "Failed" /\ slashBonds'[t] = 0
    BY <1>0 DEF TypeOK, PostCompletionSlash, TakeBond
  <2>2. UNCHANGED <<now, taskCount, task, assignment, verifications, verifierAssignedAt>>
    BY DEF PostCompletionSlash, clock, slashRecord, agentRecord, auctionRecord, panelRecord, balances
  <2>. QED BY <1>0, <1>2, <2>1, <2>2 DEF Sound, OrderedTimes, InPhase, BondCovered, Assigned, Created, Panel
<1>. QED BY <1>1, <1>2

LEMMA ClaimSlashBondSound ==
  ASSUME LifecycleInv, NEW t \in TaskIds, ClaimSlashBond(t), NEW q \in TaskIds
  PROVE  Sound(q)'
<1>0. TypeOK /\ Sound(q) /\ now' = now
  BY DEF LifecycleInv, ClaimSlashBond, TakeBond, clock, slashRecord, agentRecord, auctionRecord, panelRecord, balances
<1>1. CASE q # t
  <2>1. Same(q)
    BY <1>0, <1>1 DEF TypeOK, Same, Created, ClaimSlashBond, TakeBond, clock, slashRecord, agentRecord, auctionRecord, panelRecord, balances
  <2>. QED BY <1>0, <2>1, SameSound
<1>2. CASE q = t
  <2>1. slashBonds'[t] = 0
    BY <1>0 DEF TypeOK, ClaimSlashBond, TakeBond
  <2>2. UNCHANGED <<now, taskCount, task, status, assignment, verifications, verifierAssignedAt>>
    BY DEF ClaimSlashBond, clock, slashRecord, agentRecord, auctionRecord, panelRecord, balances
  <2>. QED BY <1>0, <1>2, <2>1, <2>2 DEF Sound, OrderedTimes, InPhase, BondCovered, Assigned, Created, Panel
<1>. QED BY <1>1, <1>2

LEMMA EmergencyWithdrawBountySound ==
  ASSUME LifecycleInv, NEW t \in TaskIds, EmergencyWithdrawBounty(t), NEW q \in TaskIds
  PROVE  Sound(q)'
<1>0. TypeOK /\ Sound(q) /\ now' = now
  BY DEF LifecycleInv, EmergencyWithdrawBounty, clock, slashRecord, agentRecord, auctionRecord, panelRecord, balances
<1>1. CASE q # t
  <2>1. Same(q)
    BY <1>0, <1>1 DEF TypeOK, Same, Created, EmergencyWithdrawBounty, clock, slashRecord, agentRecord, auctionRecord, panelRecord, balances
  <2>. QED BY <1>0, <2>1, SameSound
<1>2. CASE q = t
  <2>1. /\ Created(t) /\ status[t] \in Unsettled /\ status'[t] = "Cancelled"
    BY <1>0 DEF TypeOK, EmergencyWithdrawBounty, BeforeCompletion
  <2>2. UNCHANGED <<now, taskCount, assignment, slashBonds, verifications, verifierAssignedAt>>
    BY DEF EmergencyWithdrawBounty, clock, slashRecord, agentRecord, auctionRecord, panelRecord, balances
  <2>3. /\ task'[t].bidDeadline = task[t].bidDeadline
        /\ task'[t].revealDeadline = task[t].revealDeadline
        /\ task'[t].deadline = task[t].deadline
    BY <1>0, TaskFields DEF TypeOK, TaskType, EmergencyWithdrawBounty
  <2>. QED BY <1>0, <1>2, <2>1, <2>2, <2>3 DEF Sound, OrderedTimes, InPhase, BondCovered, Assigned, Created, Panel, Unsettled
<1>. QED BY <1>1, <1>2

LEMMA EmergencyWithdrawStakeSound ==
  ASSUME LifecycleInv, NEW t \in TaskIds, EmergencyWithdrawStake(t), NEW q \in TaskIds
  PROVE  Sound(q)'
<1>0. TypeOK /\ Sound(q) /\ now' = now
  BY DEF LifecycleInv, EmergencyWithdrawStake, clock, slashRecord, agentRecord, auctionRecord, panelRecord, balances
<1>1. CASE q # t
  <2>1. Same(q)
    BY <1>0, <1>1 DEF TypeOK, Same, Created, EmergencyWithdrawStake, clock, slashRecord, agentRecord, auctionRecord, panelRecord, balances
  <2>. QED BY <1>0, <2>1, SameSound
<1>2. CASE q = t
  <2>1. Created(t) /\ status[t] \in {"Assigned", "Delivered", "Verifying"}
    BY DEF EmergencyWithdrawStake, Unsettled
  <2>2. UNCHANGED <<now, taskCount, task, status, slashBonds, verifications, verifierAssignedAt>>
    BY DEF EmergencyWithdrawStake, clock, slashRecord, agentRecord, auctionRecord, panelRecord, balances
  <2>3. /\ assignment'[t].agent = assignment[t].agent
        /\ assignment'[t].assignedAt = assignment[t].assignedAt
        /\ assignment'[t].deliveredAt = assignment[t].deliveredAt
    BY <1>0, AssignmentFields DEF TypeOK, AssignmentType, EmergencyWithdrawStake
  <2>. QED BY <1>0, <1>2, <2>1, <2>2, <2>3 DEF Sound, OrderedTimes, InPhase, BondCovered, Assigned, Created, Panel
<1>. QED BY <1>1, <1>2

LEMMA OtherSound ==
  ASSUME LifecycleInv, NEW q \in TaskIds,
         \/ WithdrawProtocolFees \/ Pause \/ Unpause \/ UNCHANGED vars
         \/ \E x \in Address : UnbanAgent(x)
  PROVE  Sound(q)'
<1>1. Same(q) /\ now' = now
  BY DEF Same, Created, WithdrawProtocolFees, Pause, Unpause, UnbanAgent, vars, clock, slashRecord, agentRecord, auctionRecord, panelRecord, balances
<1>. QED BY <1>1, SameSound DEF LifecycleInv

LEMMA LifecycleStep ==
  ASSUME LifecycleInv, [Next]_vars
  PROVE  LifecycleInv'
<1>1. TypeOK'
  BY TypeStep DEF LifecycleInv
<1>2. ASSUME NEW q \in TaskIds PROVE Sound(q)'
  <2>1. CASE Next
    BY <2>1, TickSound, CreateTaskSound, CancelTaskSound, CommitBidSound, RevealBidSound,
       ResolveAuctionSound, DeliverTaskSound, RegisterVerifierSound, SubmitVerificationSound,
       EnforceVerifierTimeoutSound, AbandonVerificationSound, EnforceDeliveredTimeoutSound,
       EnforceDeadlineSound, PostCompletionSlashSound, ClaimSlashBondSound,
       EmergencyWithdrawBountySound, EmergencyWithdrawStakeSound, OtherSound DEF Next
  <2>2. CASE UNCHANGED vars
    BY <2>2, OtherSound
  <2>. QED BY <2>1, <2>2
<1>. QED BY <1>1, <1>2 DEF LifecycleInv

\* What the life cycle knows of a task is an invariant.
THEOREM LifecycleInvariant == Spec => []LifecycleInv
BY LifecycleInit, LifecycleStep, PTL DEF Spec

\* The phases of every task happen in the order of its timestamps.
THEOREM TimestampsAlwaysOrdered == Spec => []TimestampsOrdered
<1>1. LifecycleInv => TimestampsOrdered
  BY DEF LifecycleInv, Sound, TimestampsOrdered
<1>. QED BY <1>1, LifecycleInvariant, PTL

\* The status of every task is what its assignment and panel say.
THEOREM PhaseAlwaysSound == Spec => []PhaseSound
<1>1. LifecycleInv => PhaseSound
  BY DEF LifecycleInv, Sound, PhaseSound
<1>. QED BY <1>1, LifecycleInvariant, PTL

\* A slash bond is kept only for a completed task, out of the agent's stake.
THEOREM BondAlwaysSound == Spec => []BondSound
<1>1. LifecycleInv => BondSound
  BY DEF LifecycleInv, Sound, BondSound
<1>. QED BY <1>1, LifecycleInvariant, PTL

-----------------------------------------------------------------------------
(* What a step leaves alone *)

\* The step is about task t.
TaskStep(t) ==
  \/ CancelTask(t)
  \/ \E a \in Agents : RevealBid(t, a) \/ \E offer \in Offers : CommitBid(t, a, offer)
  \/ ResolveAuction(t)
  \/ DeliverTask(t)
  \/ \E v \in Verifiers :
       \/ \E stake \in VerifierStakes : RegisterVerifier(t, v, stake)
       \/ \E vote \in {"Approved", "Rejected"} : SubmitVerification(t, v, vote)
  \/ EnforceVerifierTimeout(t)
  \/ AbandonVerification(t)
  \/ EnforceDeliveredTimeout(t)
  \/ EnforceDeadline(t)
  \/ \E severity \in Severities : PostCompletionSlash(t, severity)
  \/ ClaimSlashBond(t)
  \/ EmergencyWithdrawBounty(t)
  \/ EmergencyWithdrawStake(t)

\* The step is about no task.
OtherStep ==
  \/ Tick \/ WithdrawProtocolFees \/ Pause \/ Unpause \/ UNCHANGED vars
  \/ \E x \in Address : UnbanAgent(x)

\* Nothing on record about task q changes.
Kept(q) ==
  /\ Created(q)' = Created(q)
  /\ task'[q] = task[q] /\ status'[q] = status[q] /\ assignment'[q] = assignment[q]
  /\ slashBonds'[q] = slashBonds[q] /\ verifications'[q] = verifications[q]
  /\ bids'[q] = bids[q] /\ taskBidders'[q] = taskBidders[q]

\* Every step creates a task, is about one task, or is about none.
LEMMA StepCases ==
  ASSUME [Next]_vars
  PROVE  \/ OtherStep
         \/ \E p \in Posters, terms \in Terms : CreateTask(p, terms)
         \/ \E t \in TaskIds : TaskStep(t)
BY DEF Next, OtherStep, TaskStep

\* A step that is about no task keeps all of them.
LEMMA OtherStepKeeps ==
  ASSUME OtherStep, NEW q \in TaskIds
  PROVE  Kept(q)
BY DEF OtherStep, Kept, Created, Tick, WithdrawProtocolFees, Pause, Unpause, UnbanAgent, vars,
   clock, slashRecord, agentRecord, auctionRecord, panelRecord, balances

\* The creation of a task keeps the others.
LEMMA CreateTaskKeeps ==
  ASSUME TypeOK, NEW p \in Posters, NEW terms \in Terms, CreateTask(p, terms),
         NEW q \in TaskIds, q # taskCount
  PROVE  Kept(q)
<1>1. taskCount \in Nat /\ q \in Nat
  BY NatTime
<1>. QED BY <1>1 DEF TypeOK, Kept, CreateTask, Created, clock, slashRecord, agentRecord,
            auctionRecord, panelRecord, balances

\* The entries of other tasks in a record of the tasks.
LEMMA OtherEntries ==
  ASSUME NEW S, NEW T, NEW f \in [S -> T], NEW x, NEW e, NEW y \in S, y # x
  PROVE  [f EXCEPT ![x] = e][y] = f[y]
OBVIOUS

\* A vote, the slash of silent verifiers and a missed deadline keep the other tasks.
LEMMA SubmitVerificationKeeps ==
  ASSUME TypeOK, NEW t \in TaskIds, NEW v \in Verifiers, NEW vote \in {"Approved", "Rejected"},
         SubmitVerification(t, v, vote), NEW q \in TaskIds, q # t
  PROVE  Kept(q)
<1>. DEFINE vs == [verifications[t] EXCEPT ![v].vote = vote]
<1>1. /\ verifications' = [verifications EXCEPT ![t] = vs]
      /\ TrySettlement(t, vs, Ledger)
      /\ UNCHANGED <<taskCount, task, assignment, taskBidders, bids>>
  BY DEF SubmitVerification, auctionRecord
<1>. HIDE DEF vs
<1>2. OthersKept(t)
  BY <1>1, TrySettlementEffect
<1>. QED BY <1>1, <1>2 DEF TypeOK, Kept, Created, OthersKept

LEMMA EnforceVerifierTimeoutKeeps ==
  ASSUME TypeOK, NEW t \in TaskIds, EnforceVerifierTimeout(t), NEW q \in TaskIds, q # t
  PROVE  Kept(q)
<1>. DEFINE silent == VotesFor(verifications[t], "Pending")
            vs == [v \in Verifiers |-> IF v \in silent THEN [stake |-> 0, vote |-> "Rejected"]
                                       ELSE verifications[t][v]]
<1>1. /\ verifications' = [verifications EXCEPT ![t] = vs]
      /\ UNCHANGED <<taskCount, task, assignment, taskBidders, bids>>
  BY DEF EnforceVerifierTimeout, auctionRecord
<1>2. \/ status' = [status EXCEPT ![t] = "Disputed"] /\ UNCHANGED slashBonds
      \/ \E pre : TrySettlement(t, vs, pre)
  BY DEF EnforceVerifierTimeout, slashRecord
<1>. HIDE DEF vs
<1>3. OthersKept(t)
  <2>1. CASE status' = [status EXCEPT ![t] = "Disputed"] /\ UNCHANGED slashBonds
    BY <2>1 DEF TypeOK, OthersKept
  <2>2. CASE \E pre : TrySettlement(t, vs, pre)
    BY <2>2, TrySettlementEffect
  <2>. QED BY <1>2, <2>1, <2>2
<1>. QED BY <1>1, <1>3 DEF TypeOK, Kept, Created, OthersKept

LEMMA EnforceDeadlineKeeps ==
  ASSUME TypeOK, NEW t \in TaskIds, EnforceDeadline(t), NEW q \in TaskIds, q # t
  PROVE  Kept(q)
<1>1. /\ UNCHANGED <<taskCount, task, assignment, verifications, taskBidders, bids>>
      /\ \E severity : SettleFailure(t, verifications[t], severity, Ledger)
  BY DEF EnforceDeadline, auctionRecord, panelRecord
<1>2. OthersKept(t) /\ slashBonds' = slashBonds
  BY <1>1, SettleFailureEffect
<1>. QED BY <1>1, <1>2 DEF Kept, Created, OthersKept

\* The steps of the auction and a delivery keep the other tasks.
LEMMA AuctionKeeps ==
  ASSUME TypeOK, NEW t \in TaskIds, NEW q \in TaskIds, q # t,
         \/ CancelTask(t)
         \/ \E a \in Agents : RevealBid(t, a) \/ \E offer \in Offers : CommitBid(t, a, offer)
         \/ ResolveAuction(t)
         \/ DeliverTask(t)
  PROVE  Kept(q)
<1>1. CASE CancelTask(t)
  BY <1>1 DEF TypeOK, Kept, Created, CancelTask, slashRecord, panelRecord
<1>2. ASSUME NEW a \in Agents, RevealBid(t, a) PROVE Kept(q)
  BY <1>2 DEF TypeOK, Kept, Created, RevealBid, slashRecord, panelRecord
<1>3. ASSUME NEW a \in Agents, NEW offer \in Offers, CommitBid(t, a, offer) PROVE Kept(q)
  BY <1>3 DEF TypeOK, Kept, Created, CommitBid, slashRecord, panelRecord
<1>4. CASE ResolveAuction(t)
  BY <1>4 DEF TypeOK, Kept, Created, ResolveAuction, slashRecord, panelRecord
<1>5. CASE DeliverTask(t)
  BY <1>5 DEF TypeOK, Kept, Created, DeliverTask, slashRecord, panelRecord, auctionRecord
<1>. QED BY <1>1, <1>2, <1>3, <1>4, <1>5

\* A registration and the two ways to abandon a task keep the other tasks.
LEMMA PanelKeeps ==
  ASSUME TypeOK, NEW t \in TaskIds, NEW q \in TaskIds, q # t,
         \/ \E v \in Verifiers, stake \in VerifierStakes : RegisterVerifier(t, v, stake)
         \/ AbandonVerification(t)
         \/ EnforceDeliveredTimeout(t)
  PROVE  Kept(q)
<1>1. ASSUME NEW v \in Verifiers, NEW stake \in VerifierStakes, RegisterVerifier(t, v, stake)
      PROVE  Kept(q)
  BY <1>1 DEF TypeOK, Kept, Created, RegisterVerifier, slashRecord, auctionRecord
<1>2. CASE AbandonVerification(t)
  BY <1>2 DEF TypeOK, Kept, Created, AbandonVerification, slashRecord, auctionRecord
<1>3. CASE EnforceDeliveredTimeout(t)
  BY <1>3 DEF TypeOK, Kept, Created, EnforceDeliveredTimeout, slashRecord, auctionRecord, panelRecord
<1>. QED BY <1>1, <1>2, <1>3

\* The steps after completion and in an emergency keep the other tasks.
LEMMA ExitKeeps ==
  ASSUME TypeOK, NEW t \in TaskIds, NEW q \in TaskIds, q # t,
         \/ \E severity \in Severities : PostCompletionSlash(t, severity)
         \/ ClaimSlashBond(t)
         \/ EmergencyWithdrawBounty(t)
         \/ EmergencyWithdrawStake(t)
  PROVE  Kept(q)
<1>1. ASSUME NEW severity \in Severities, PostCompletionSlash(t, severity)
      PROVE  Kept(q)
  BY <1>1 DEF TypeOK, Kept, Created, PostCompletionSlash, TakeBond, auctionRecord, panelRecord
<1>2. CASE ClaimSlashBond(t)
  BY <1>2 DEF TypeOK, Kept, Created, ClaimSlashBond, TakeBond, auctionRecord, panelRecord
<1>3. CASE EmergencyWithdrawBounty(t)
  BY <1>3 DEF TypeOK, Kept, Created, EmergencyWithdrawBounty, slashRecord, auctionRecord, panelRecord
<1>4. CASE EmergencyWithdrawStake(t)
  BY <1>4 DEF TypeOK, Kept, Created, EmergencyWithdrawStake, slashRecord, auctionRecord, panelRecord
<1>. QED BY <1>1, <1>2, <1>3, <1>4

\* A step about task t keeps the others.
LEMMA TaskStepKeeps ==
  ASSUME TypeOK, NEW t \in TaskIds, TaskStep(t), NEW q \in TaskIds, q # t
  PROVE  Kept(q)
BY AuctionKeeps, PanelKeeps, ExitKeeps, SubmitVerificationKeeps, EnforceVerifierTimeoutKeeps,
   EnforceDeadlineKeeps DEF TaskStep

-----------------------------------------------------------------------------
(* The panel *)

PanelInv == LifecycleInv /\ \A t \in TaskIds : FairPanel(t)

\* Panels and the votes of one kind are finite, and votes are members' votes.
LEMMA PanelFinite ==
  ASSUME NEW vs
  PROVE  /\ IsFiniteSet(Panel(vs)) /\ Cardinality(Panel(vs)) \in Nat
         /\ \A vote : /\ IsFiniteSet(VotesFor(vs, vote)) /\ Cardinality(VotesFor(vs, vote)) \in Nat
                      /\ vote # "None" => VotesFor(vs, vote) \subseteq Panel(vs)
<1>1. IsFiniteSet(Verifiers)
  <2>1. Verifiers \subseteq Address
    BY DEF Address
  <2>. QED BY <2>1, ConstantsAssumption, FS_Subset DEF ConstantsAssumption
<1>2. Panel(vs) \subseteq Verifiers /\ \A vote : VotesFor(vs, vote) \subseteq Verifiers
  BY DEF Panel, VotesFor
<1>3. IsFiniteSet(Panel(vs)) /\ \A vote : IsFiniteSet(VotesFor(vs, vote))
  BY <1>1, <1>2, FS_Subset
<1>4. \A vote : vote # "None" => VotesFor(vs, vote) \subseteq Panel(vs)
  BY DEF Panel, VotesFor
<1>. QED BY <1>3, <1>4, FS_CardinalityType

\* When no vote is open, the panel is those who approved and those who rejected.
LEMMA FullVote ==
  ASSUME NEW vs \in [Verifiers -> VerificationType], VotesFor(vs, "Pending") = {}
  PROVE  Cardinality(Panel(vs)) =
           Cardinality(VotesFor(vs, "Approved")) + Cardinality(VotesFor(vs, "Rejected"))
<1>. DEFINE A == VotesFor(vs, "Approved")
            R == VotesFor(vs, "Rejected")
<1>1. Panel(vs) = A \cup R
  BY VerificationFields DEF Panel, VotesFor
<1>2. A \cap R = {}
  BY DEF VotesFor
<1>3. IsFiniteSet(A) /\ IsFiniteSet(R)
  BY PanelFinite
<1>. HIDE DEF A, R
<1>4. Cardinality(A \cup R) = Cardinality(A) + Cardinality(R) - Cardinality(A \cap R)
  BY <1>3, FS_Union
<1>5. Cardinality(A \cap R) = 0
  BY <1>2, FS_EmptySet
<1>6. Cardinality(A) \in Nat /\ Cardinality(R) \in Nat
  BY <1>3, FS_CardinalityType
<1>7. Cardinality(Panel(vs)) = Cardinality(A) + Cardinality(R)
  BY <1>1, <1>4, <1>5, <1>6
<1>. QED BY <1>7 DEF A, R

\* What a settlement decides: nothing while a vote is open, completion by more
\* approvals than rejections.
LEMMA TrySettlementVerdict ==
  ASSUME TypeOK, NEW t \in TaskIds, NEW vs, NEW pre, TrySettlement(t, vs, pre)
  PROVE  \/ status'[t] = status[t] /\ VotesFor(vs, "Pending") # {}
         \/ /\ VotesFor(vs, "Pending") = {}
            /\ Cardinality(Panel(vs)) = task[t].requiredVerifiers
            /\ \/ status'[t] \in {"Failed", "Disputed"}
               \/ status'[t] = "Completed" /\ Passed(vs)
<1>1. CASE VotesFor(vs, "Pending") # {} /\ UNCHANGED status
  BY <1>1
<1>2. CASE /\ VotesFor(vs, "Pending") = {}
           /\ Cardinality(Panel(vs)) = task[t].requiredVerifiers
           /\ Passed(vs) /\ SettleSuccess(t, vs, pre)
  BY <1>2, SettleSuccessEffect
<1>3. CASE /\ VotesFor(vs, "Pending") = {}
           /\ Cardinality(Panel(vs)) = task[t].requiredVerifiers
           /\ SettleFailure(t, vs, "Material", pre)
  BY <1>3, SettleFailureEffect
<1>4. CASE /\ VotesFor(vs, "Pending") = {}
           /\ Cardinality(Panel(vs)) = task[t].requiredVerifiers
           /\ status' = [status EXCEPT ![t] = "Disputed"]
  BY <1>4 DEF TypeOK
<1>. QED BY <1>1, <1>2, <1>3, <1>4 DEF TrySettlement

\* What a step that is no vote and no registration leaves of the panel of t.
Quiet(t) ==
  /\ verifications'[t] = verifications[t]
  /\ task'[t].poster = task[t].poster
  /\ task'[t].requiredVerifiers = task[t].requiredVerifiers
  /\ assignment'[t].agent = assignment[t].agent
  /\ \/ status'[t] = status[t]
     \/ status'[t] \in {"BidReveal", "Delivered", "Failed"} /\ VotesFor(verifications[t], "Pending") = {}
     \/ status'[t] = "Cancelled"

\* What a step keeps has a quiet panel.
LEMMA KeptIsQuiet ==
  ASSUME NEW q \in TaskIds, Kept(q)
  PROVE  Quiet(q)
BY DEF Kept, Quiet

\* A fair panel that is quiet stays fair.
LEMMA QuietFair ==
  ASSUME NEW t \in TaskIds, FairPanel(t), Quiet(t)
  PROVE  FairPanel(t)'
<1>1. /\ Cardinality(Panel(verifications'[t])) <= task'[t].requiredVerifiers
      /\ task'[t].poster \notin Panel(verifications'[t])
      /\ assignment'[t].agent \notin Panel(verifications'[t])
  BY DEF FairPanel, Quiet
<1>2. status'[t] \in {"Completed", "Disputed"} => status'[t] = status[t]
  BY DEF Quiet
<1>3. status'[t] \in {"Completed", "Disputed"} /\ VotesFor(verifications'[t], "Approved") # {}
        => Cardinality(Panel(verifications'[t])) = task'[t].requiredVerifiers
  BY <1>2 DEF FairPanel, Quiet
<1>4. VotesFor(verifications'[t], "Pending") # {} => status'[t] \in {"Verifying", "Cancelled"}
  BY DEF FairPanel, Quiet
<1>. QED BY <1>1, <1>3, <1>4 DEF FairPanel

\* Who has no panel has no votes.
LEMMA NoPanelNoVotes ==
  ASSUME NEW vs, Panel(vs) = {}
  PROVE  Cardinality(Panel(vs)) = 0 /\ \A vote : vote # "None" => VotesFor(vs, vote) = {}
BY PanelFinite, FS_EmptySet

\* No step of the auction and no delivery touches a panel.
LEMMA AuctionQuiet ==
  ASSUME PanelInv, NEW t \in TaskIds,
         \/ CancelTask(t)
         \/ \E a \in Agents : RevealBid(t, a) \/ \E offer \in Offers : CommitBid(t, a, offer)
         \/ DeliverTask(t)
  PROVE  Quiet(t)
<1>0. TypeOK /\ InPhase(t)
  BY DEF PanelInv, LifecycleInv, Sound
<1>1. status[t] \in {"Open", "BidReveal", "Assigned"} => VotesFor(verifications[t], "Pending") = {}
  BY <1>0, NoPanelNoVotes DEF InPhase
<1>2. CASE CancelTask(t)
  BY <1>0, <1>2 DEF TypeOK, Quiet, CancelTask, panelRecord
<1>3. ASSUME NEW a \in Agents, RevealBid(t, a) PROVE Quiet(t)
  BY <1>0, <1>1, <1>3 DEF TypeOK, Quiet, RevealBid, StatusAfterReveal, panelRecord
<1>4. ASSUME NEW a \in Agents, NEW offer \in Offers, CommitBid(t, a, offer) PROVE Quiet(t)
  BY <1>4 DEF Quiet, CommitBid, panelRecord
<1>5. CASE DeliverTask(t)
  <2>1. assignment'[t].agent = assignment[t].agent
    BY <1>0, <1>5, AssignmentFields DEF TypeOK, DeliverTask, AssignmentType
  <2>. QED BY <1>0, <1>1, <1>5, <2>1 DEF TypeOK, Quiet, DeliverTask, panelRecord
<1>. QED BY <1>2, <1>3, <1>4, <1>5

\* No exit touches a panel, and none but a cancellation leaves a vote open.
LEMMA ExitQuiet ==
  ASSUME PanelInv, NEW t \in TaskIds,
         \/ EnforceDeliveredTimeout(t)
         \/ EnforceDeadline(t)
         \/ \E severity \in Severities : PostCompletionSlash(t, severity)
         \/ ClaimSlashBond(t)
         \/ EmergencyWithdrawBounty(t)
         \/ EmergencyWithdrawStake(t)
  PROVE  Quiet(t)
<1>0. TypeOK /\ InPhase(t) /\ FairPanel(t)
  BY DEF PanelInv, LifecycleInv, Sound
<1>1. CASE EnforceDeliveredTimeout(t)
  BY <1>0, <1>1 DEF TypeOK, Quiet, EnforceDeliveredTimeout, panelRecord
<1>2. CASE EnforceDeadline(t)
  <2>1. /\ status[t] = "Assigned"
        /\ UNCHANGED <<task, assignment, verifications>>
        /\ \E severity : SettleFailure(t, verifications[t], severity, Ledger)
    BY <1>2 DEF EnforceDeadline, panelRecord
  <2>2. status'[t] = "Failed"
    BY <1>0, <2>1, SettleFailureEffect
  <2>3. VotesFor(verifications[t], "Pending") = {}
    BY <1>0, <2>1, NoPanelNoVotes DEF InPhase
  <2>. QED BY <2>1, <2>2, <2>3 DEF Quiet
<1>3. ASSUME NEW severity \in Severities, PostCompletionSlash(t, severity) PROVE Quiet(t)
  <2>1. status[t] = "Completed" /\ status'[t] = "Failed"
    BY <1>0, <1>3 DEF TypeOK, PostCompletionSlash
  <2>2. VotesFor(verifications[t], "Pending") = {}
    BY <1>0, <2>1 DEF FairPanel
  <2>. QED BY <1>3, <2>1, <2>2 DEF Quiet, PostCompletionSlash, panelRecord
<1>4. CASE ClaimSlashBond(t)
  BY <1>4 DEF Quiet, ClaimSlashBond, panelRecord
<1>5. CASE EmergencyWithdrawBounty(t)
  <2>1. task'[t].poster = task[t].poster /\ task'[t].requiredVerifiers = task[t].requiredVerifiers
    BY <1>0, <1>5, TaskFields DEF TypeOK, TaskType, EmergencyWithdrawBounty
  <2>. QED BY <1>0, <1>5, <2>1 DEF TypeOK, Quiet, EmergencyWithdrawBounty, panelRecord
<1>6. CASE EmergencyWithdrawStake(t)
  <2>1. assignment'[t].agent = assignment[t].agent
    BY <1>0, <1>6, AssignmentFields DEF TypeOK, EmergencyWithdrawStake, AssignmentType
  <2>. QED BY <1>6, <2>1 DEF Quiet, EmergencyWithdrawStake, panelRecord
<1>. QED BY <1>1, <1>2, <1>3, <1>4, <1>5, <1>6

\* A task whose panel is empty after the step is fair.
LEMMA EmptyFair ==
  ASSUME TypeOK', NEW t \in TaskIds, Panel(verifications'[t]) = {}
  PROVE  FairPanel(t)'
<1>1. task'[t].requiredVerifiers \in 0 .. MaxVerifiers
  BY DEF TypeOK, TaskType
<1>2. Cardinality(Panel(verifications'[t])) = 0
      /\ VotesFor(verifications'[t], "Approved") = {} /\ VotesFor(verifications'[t], "Pending") = {}
  BY NoPanelNoVotes
<1>. QED BY <1>1, <1>2 DEF FairPanel, MaxVerifiers

\* A new task has no panel.
LEMMA CreateTaskFair ==
  ASSUME PanelInv, NEW p \in Posters, NEW terms \in Terms, CreateTask(p, terms), TypeOK',
         NEW q \in TaskIds
  PROVE  FairPanel(q)'
<1>0. TypeOK /\ InPhase(q) /\ FairPanel(q) /\ taskCount \in Nat
  BY NatTime DEF PanelInv, LifecycleInv, Sound
<1>1. CASE q # taskCount
  BY <1>0, <1>1, CreateTaskKeeps, KeptIsQuiet, QuietFair
<1>2. CASE q = taskCount
  <2>1. Panel(verifications[q]) = {} /\ verifications' = verifications
    BY <1>0, <1>2 DEF InPhase, Created, CreateTask, panelRecord
  <2>. QED BY <2>1, EmptyFair
<1>. QED BY <1>1, <1>2

\* A task that is assigned has no panel yet.
LEMMA ResolveAuctionFair ==
  ASSUME PanelInv, NEW t \in TaskIds, ResolveAuction(t), TypeOK'
  PROVE  FairPanel(t)'
<1>1. Panel(verifications[t]) = {} /\ verifications' = verifications
  BY DEF PanelInv, LifecycleInv, Sound, InPhase, ResolveAuction, panelRecord
<1>. QED BY <1>1, EmptyFair

\* Who registers is impartial and fits into the panel.
LEMMA RegisterVerifierFair ==
  ASSUME PanelInv, NEW t \in TaskIds, NEW v \in Verifiers, NEW stake \in VerifierStakes,
         RegisterVerifier(t, v, stake)
  PROVE  FairPanel(t)'
<1>. DEFINE vs == verifications[t]
            ws == verifications'[t]
<1>0. TypeOK /\ FairPanel(t)
  BY DEF PanelInv, LifecycleInv
<1>1. /\ Impartial(t, v) /\ Cardinality(Panel(vs)) < task[t].requiredVerifiers
      /\ v \notin Panel(vs)
      /\ UNCHANGED <<task, assignment>>
  BY DEF RegisterVerifier
<1>2. ws = [vs EXCEPT ![v] = [stake |-> stake, vote |-> "Pending"]] /\ status'[t] = "Verifying"
  BY <1>0 DEF TypeOK, RegisterVerifier
<1>3. Panel(ws) = Panel(vs) \cup {v}
  BY <1>0, <1>2, PanelType DEF Panel
<1>. HIDE DEF vs, ws
<1>4. Cardinality(Panel(ws)) = Cardinality(Panel(vs)) + 1
  BY <1>1, <1>3, PanelFinite, FS_AddElement
<1>5. Cardinality(Panel(ws)) <= task[t].requiredVerifiers
  <2>1. task[t].requiredVerifiers \in Nat /\ Cardinality(Panel(vs)) \in Nat
    BY <1>0, TaskFields, PanelFinite
  <2>. QED BY <1>1, <1>4, <2>1
<1>6. task[t].poster \notin Panel(ws) /\ assignment[t].agent \notin Panel(ws)
  <2>1. task[t].poster \notin Panel(vs) /\ assignment[t].agent \notin Panel(vs)
    BY <1>0 DEF FairPanel, vs
  <2>. QED BY <1>1, <1>3, <2>1 DEF Impartial
<1>. QED BY <1>1, <1>2, <1>5, <1>6 DEF FairPanel, ws

\* Votes that change without the panel's members, and the verdict they bring.
Voted(t) ==
  /\ Panel(verifications'[t]) = Panel(verifications[t])
  /\ UNCHANGED <<task, assignment>>
  /\ \/ status'[t] = "Verifying"
     \/ status'[t] = "Disputed" /\ VotesFor(verifications'[t], "Approved") = {}
                                /\ VotesFor(verifications'[t], "Pending") = {}
     \/ /\ VotesFor(verifications'[t], "Pending") = {}
        /\ Cardinality(Panel(verifications'[t])) = task[t].requiredVerifiers
        /\ \/ status'[t] \in {"Failed", "Disputed"}
           \/ status'[t] = "Completed" /\ Passed(verifications'[t])

\* A fair panel that has voted is fair.
LEMMA VotedFair ==
  ASSUME NEW t \in TaskIds, FairPanel(t), Voted(t)
  PROVE  FairPanel(t)'
<1>1. Cardinality(Panel(verifications'[t])) <= task'[t].requiredVerifiers
      /\ task'[t].poster \notin Panel(verifications'[t])
      /\ assignment'[t].agent \notin Panel(verifications'[t])
  BY DEF Voted, FairPanel
<1>2. status'[t] \in {"Completed", "Disputed"} /\ VotesFor(verifications'[t], "Approved") # {}
        => Cardinality(Panel(verifications'[t])) = task'[t].requiredVerifiers
  BY DEF Voted
<1>3. VotesFor(verifications'[t], "Pending") # {} => status'[t] \in {"Verifying", "Cancelled"}
  BY DEF Voted
<1>. QED BY <1>1, <1>2, <1>3 DEF FairPanel

LEMMA SubmitVerificationVoted ==
  ASSUME PanelInv, NEW t \in TaskIds, NEW v \in Verifiers, NEW vote \in {"Approved", "Rejected"},
         SubmitVerification(t, v, vote)
  PROVE  /\ Voted(t) /\ verifications'[t] \in [Verifiers -> VerificationType]
         /\ \A w \in Verifiers : verifications[t][w].vote \in {"Approved", "Rejected"} =>
              verifications'[t][w].vote = verifications[t][w].vote
<1>. DEFINE vs == [verifications[t] EXCEPT ![v].vote = vote]
<1>0. TypeOK
  BY DEF PanelInv, LifecycleInv
<1>1. /\ status[t] = "Verifying" /\ verifications[t][v].vote = "Pending"
      /\ verifications' = [verifications EXCEPT ![t] = vs]
      /\ TrySettlement(t, vs, Ledger)
      /\ UNCHANGED <<task, assignment>>
  BY DEF SubmitVerification
<1>2. Panel(vs) = Panel(verifications[t]) /\ vs \in [Verifiers -> VerificationType]
  BY <1>0, <1>1, PanelType, VerificationFields DEF Panel, VerificationType
<1>3. \A w \in Verifiers : verifications[t][w].vote \in {"Approved", "Rejected"} =>
        vs[w].vote = verifications[t][w].vote
  BY <1>0, <1>1, PanelType DEF VerificationType
<1>. HIDE DEF vs
<1>4. verifications'[t] = vs
  BY <1>0, <1>1 DEF TypeOK
<1>. QED BY <1>0, <1>1, <1>2, <1>3, <1>4, TrySettlementVerdict DEF Voted

LEMMA EnforceVerifierTimeoutVoted ==
  ASSUME PanelInv, NEW t \in TaskIds, EnforceVerifierTimeout(t)
  PROVE  /\ Voted(t) /\ verifications'[t] \in [Verifiers -> VerificationType]
         /\ \A w \in Verifiers : verifications[t][w].vote \in {"Approved", "Rejected"} =>
              verifications'[t][w].vote = verifications[t][w].vote
<1>. DEFINE silent == VotesFor(verifications[t], "Pending")
            vs == [v \in Verifiers |-> IF v \in silent THEN [stake |-> 0, vote |-> "Rejected"]
                                       ELSE verifications[t][v]]
<1>0. TypeOK
  BY DEF PanelInv, LifecycleInv
<1>1. /\ status[t] = "Verifying"
      /\ verifications' = [verifications EXCEPT ![t] = vs]
      /\ UNCHANGED <<task, assignment>>
  BY DEF EnforceVerifierTimeout
<1>2. \/ silent = Panel(verifications[t]) /\ status' = [status EXCEPT ![t] = "Disputed"]
      \/ \E pre : TrySettlement(t, vs, pre)
  BY DEF EnforceVerifierTimeout
<1>3. Panel(vs) = Panel(verifications[t]) /\ VotesFor(vs, "Pending") = {}
  BY DEF Panel, VotesFor
<1>4. silent = Panel(verifications[t]) => VotesFor(vs, "Approved") = {}
  BY DEF Panel, VotesFor
<1>5. vs \in [Verifiers -> VerificationType]
  BY <1>0, PanelType DEF VerificationType
<1>6. \A w \in Verifiers : verifications[t][w].vote \in {"Approved", "Rejected"} =>
        vs[w].vote = verifications[t][w].vote
  BY DEF VotesFor
<1>. HIDE DEF vs
<1>7. verifications'[t] = vs
  BY <1>0, <1>1 DEF TypeOK
<1>8. Voted(t)
  <2>1. CASE silent = Panel(verifications[t]) /\ status' = [status EXCEPT ![t] = "Disputed"]
    BY <1>0, <1>1, <1>3, <1>4, <1>7, <2>1 DEF TypeOK, Voted
  <2>2. CASE \E pre : TrySettlement(t, vs, pre)
    <3>. HIDE DEF silent
    <3>. QED BY <1>0, <1>1, <1>3, <1>7, <2>2, TrySettlementVerdict DEF Voted
  <2>. QED BY <1>2, <2>1, <2>2
<1>. QED BY <1>5, <1>6, <1>7, <1>8

LEMMA AbandonVerificationFair ==
  ASSUME PanelInv, NEW t \in TaskIds, AbandonVerification(t)
  PROVE  FairPanel(t)' /\ status'[t] = "Cancelled"
         /\ \A v \in Verifiers : verifications'[t][v].vote = verifications[t][v].vote
<1>0. TypeOK /\ FairPanel(t)
  BY DEF PanelInv, LifecycleInv
<1>1. verifications'[t] = [v \in Verifiers |-> [verifications[t][v] EXCEPT !.stake = 0]]
  BY <1>0 DEF TypeOK, AbandonVerification
<1>2. \A v \in Verifiers : verifications'[t][v].vote = verifications[t][v].vote
  BY <1>0, <1>1, PanelType DEF VerificationType
<1>3. Panel(verifications'[t]) = Panel(verifications[t])
  BY <1>2 DEF Panel
<1>4. status'[t] = "Cancelled" /\ UNCHANGED <<task, assignment>>
  BY <1>0 DEF TypeOK, AbandonVerification
<1>. QED BY <1>0, <1>2, <1>3, <1>4 DEF FairPanel

LEMMA PanelInit == Init => PanelInv
<1>. SUFFICES ASSUME Init, NEW t \in TaskIds PROVE FairPanel(t)
  BY LifecycleInit DEF PanelInv
<1>1. Panel(verifications[t]) = {} /\ task[t].requiredVerifiers = 0
  BY DEF Init, Panel, NoVerification, NoTask
<1>. QED BY <1>1, NoPanelNoVotes DEF FairPanel

LEMMA TaskStepFair ==
  ASSUME PanelInv, NEW t \in TaskIds, TaskStep(t), TypeOK'
  PROVE  FairPanel(t)'
<1>1. FairPanel(t)
  BY DEF PanelInv
<1>. QED BY <1>1, AuctionQuiet, ExitQuiet, QuietFair, ResolveAuctionFair, RegisterVerifierFair,
            SubmitVerificationVoted, EnforceVerifierTimeoutVoted, VotedFair,
            AbandonVerificationFair DEF TaskStep

LEMMA PanelStep ==
  ASSUME PanelInv, [Next]_vars
  PROVE  PanelInv'
<1>1. LifecycleInv' /\ TypeOK'
  BY LifecycleStep DEF PanelInv, LifecycleInv
<1>2. ASSUME NEW q \in TaskIds PROVE FairPanel(q)'
  <2>0. TypeOK /\ FairPanel(q)
    BY DEF PanelInv, LifecycleInv
  <2>1. CASE OtherStep
    BY <2>0, <2>1, OtherStepKeeps, KeptIsQuiet, QuietFair
  <2>2. CASE \E p \in Posters, terms \in Terms : CreateTask(p, terms)
    BY <1>1, <2>2, CreateTaskFair
  <2>3. ASSUME NEW t \in TaskIds, TaskStep(t) PROVE FairPanel(q)'
    <3>1. CASE q = t
      BY <1>1, <2>3, <3>1, TaskStepFair
    <3>2. CASE q # t
      BY <2>0, <2>3, <3>2, TaskStepKeeps, KeptIsQuiet, QuietFair
    <3>. QED BY <3>1, <3>2
  <2>. QED BY <2>1, <2>2, <2>3, StepCases
<1>. QED BY <1>1, <1>2 DEF PanelInv

\* So is the fairness of its panel.
THEOREM PanelInvariant == Spec => []PanelInv
BY PanelInit, PanelStep, PTL DEF Spec

\* The panel that judges a task is impartial, no larger than asked for, and
\* complete when an approval counts, whoever registers, votes or stays silent.
THEOREM PanelAlwaysSound == Spec => []PanelSound
<1>1. PanelInv => PanelSound
  BY DEF PanelInv, PanelSound
<1>. QED BY <1>1, PanelInvariant, PTL

\* What PaidByMajority says of one task.
PaidFairly(q) ==
  /\ status[q] # "Completed" /\ status'[q] = "Completed" =>
       2 * Cardinality(VotesFor(verifications'[q], "Approved")) > task[q].requiredVerifiers
  /\ \A v \in Verifiers : verifications[q][v].vote \in {"Approved", "Rejected"} =>
       verifications'[q][v].vote = verifications[q][v].vote

\* Where no vote is cast, nobody is paid.
LEMMA QuietPays ==
  ASSUME NEW q \in TaskIds, Quiet(q)
  PROVE  PaidFairly(q)
BY DEF Quiet, PaidFairly

\* More approvals than rejections among a full panel are more than half of it.
LEMMA VotedPays ==
  ASSUME NEW t \in TaskIds, Voted(t), verifications'[t] \in [Verifiers -> VerificationType],
         status'[t] = "Completed"
  PROVE  2 * Cardinality(VotesFor(verifications'[t], "Approved")) > task[t].requiredVerifiers
<1>. DEFINE vs == verifications'[t]
            A == Cardinality(VotesFor(vs, "Approved"))
            R == Cardinality(VotesFor(vs, "Rejected"))
<1>1. VotesFor(vs, "Pending") = {} /\ Passed(vs) /\ Cardinality(Panel(vs)) = task[t].requiredVerifiers
  BY DEF Voted
<1>2. Cardinality(Panel(vs)) = A + R
  BY <1>1, FullVote
<1>3. A > R
  BY <1>1 DEF Passed
<1>4. A \in Nat /\ R \in Nat
  BY PanelFinite
<1>. HIDE DEF A, R
<1>5. 2 * A > task[t].requiredVerifiers
  BY <1>1, <1>2, <1>3, <1>4
<1>. QED BY <1>5 DEF A

\* Every step pays fairly.
LEMMA StepPays ==
  ASSUME PanelInv, [Next]_vars, NEW q \in TaskIds, Created(q)
  PROVE  PaidFairly(q)
<1>0. TypeOK /\ InPhase(q) /\ q \in Nat /\ taskCount \in Nat
  BY NatTime DEF PanelInv, LifecycleInv, Sound
<1>1. CASE OtherStep
  BY <1>1, OtherStepKeeps, KeptIsQuiet, QuietPays
<1>2. CASE \E p \in Posters, terms \in Terms : CreateTask(p, terms)
  <2>1. q # taskCount
    BY <1>0 DEF Created
  <2>. QED BY <1>0, <1>2, <2>1, CreateTaskKeeps, KeptIsQuiet, QuietPays
<1>3. ASSUME NEW t \in TaskIds, TaskStep(t) PROVE PaidFairly(q)
  <2>1. CASE q # t
    BY <1>0, <1>3, <2>1, TaskStepKeeps, KeptIsQuiet, QuietPays
  <2>2. CASE q = t /\ ResolveAuction(t)
    <3>1. status'[t] = "Assigned" /\ verifications' = verifications
      BY <1>0, <2>2 DEF TypeOK, ResolveAuction, panelRecord
    <3>. QED BY <2>2, <3>1 DEF PaidFairly
  <2>3. ASSUME q = t, NEW v \in Verifiers, NEW stake \in VerifierStakes,
               RegisterVerifier(t, v, stake)
        PROVE  PaidFairly(q)
    <3>1. status'[t] = "Verifying" /\ verifications[t][v].vote = "None"
      BY <1>0, <2>3 DEF TypeOK, RegisterVerifier, Panel
    <3>2. \A w \in Verifiers \ {v} : verifications'[t][w] = verifications[t][w]
      BY <1>0, <2>3, PanelType DEF TypeOK, RegisterVerifier
    <3>. QED BY <2>3, <3>1, <3>2 DEF PaidFairly
  <2>4. ASSUME q = t, Voted(t), verifications'[t] \in [Verifiers -> VerificationType],
               \A w \in Verifiers : verifications[t][w].vote \in {"Approved", "Rejected"} =>
                 verifications'[t][w].vote = verifications[t][w].vote
        PROVE  PaidFairly(q)
    BY <2>4, VotedPays DEF PaidFairly
  <2>5. CASE q = t /\ AbandonVerification(t)
    <3>1. status'[t] = "Cancelled"
          /\ \A v \in Verifiers : verifications'[t][v].vote = verifications[t][v].vote
      BY <2>5, AbandonVerificationFair
    <3>. QED BY <2>5, <3>1 DEF PaidFairly
  <2>. QED BY <1>3, <2>1, <2>2, <2>3, <2>4, <2>5, AuctionQuiet, ExitQuiet, QuietPays,
              SubmitVerificationVoted, EnforceVerifierTimeoutVoted DEF TaskStep
<1>. QED BY <1>1, <1>2, <1>3, StepCases

\* An agent is paid only on the word of more than half of the panel asked for, and
\* no vote is rewritten, in any order of votes, timeouts and registrations.
THEOREM AlwaysPaidByMajority == Spec => PaidByMajority
<1>1. PanelInv /\ [Next]_vars =>
        [\A t \in AllCreated :
           /\ status[t] # "Completed" /\ status'[t] = "Completed" =>
                2 * Cardinality(VotesFor(verifications'[t], "Approved")) > task[t].requiredVerifiers
           /\ \A v \in Verifiers : verifications[t][v].vote \in {"Approved", "Rejected"} =>
                verifications'[t][v].vote = verifications[t][v].vote]_vars
  BY StepPays DEF PaidFairly, AllCreated
<1>. QED BY <1>1, PanelInvariant, PTL DEF Spec, PaidByMajority

-----------------------------------------------------------------------------
(* The core contracts implement the life cycle of a task                   *)

\* The getters' view of every task, the value the refinement gives to life.
View == [t \in TaskIds |-> Life(t)]
LifeType == Lifecycle!LifeType

\* Nothing that Life(q) reads changes.
Unseen(q) ==
  /\ status'[q] = status[q] /\ assignment'[q] = assignment[q]
  /\ slashBonds'[q] = slashBonds[q] /\ taskSlashAmount'[q] = taskSlashAmount[q]
  /\ taskBondSlashAmount'[q] = taskBondSlashAmount[q]
  /\ Assigned(q) => task'[q].slashWindow = task[q].slashWindow

LEMMA UnseenLife ==
  ASSUME NEW q \in TaskIds, Unseen(q)
  PROVE  Life(q)' = Life(q)
BY DEF Unseen, Life, Assigned

LEMMA Stutter ==
  ASSUME \A q \in TaskIds : Unseen(q), now' = now
  PROVE  UNCHANGED <<now, View>>
<1>1. \A q \in TaskIds : Life(q)' = Life(q)
  BY UnseenLife
<1>. QED BY <1>1 DEF View

\* The abstract update of one task, from its value after the step.
LEMMA BecomesRule ==
  ASSUME NEW t \in TaskIds, NEW after, Life(t)' = after,
         \A q \in TaskIds \ {t} : Unseen(q), now' = now
  PROVE  Lifecycle!Becomes(t, after)
<1>1. \A q \in TaskIds \ {t} : Life(q)' = Life(q)
  BY UnseenLife
<1>2. [q \in TaskIds |-> Life(q)]' = [[q \in TaskIds |-> Life(q)] EXCEPT ![t] = after]
  BY <1>1
<1>. QED BY <1>2 DEF Lifecycle!Becomes

LEMMA LifeTyped == TypeOK => \A t \in TaskIds : Life(t) \in LifeType
<1>. SUFFICES ASSUME TypeOK, NEW t \in TaskIds PROVE Life(t) \in LifeType
  OBVIOUS
<1>1. status[t] \in TaskStatus /\ slashBonds[t] \in Nat /\ taskSlashAmount[t] \in Nat
      /\ taskBondSlashAmount[t] \in Nat
  BY DEF TypeOK
<1>2. (IF status[t] = "BidReveal" THEN "Open" ELSE status[t]) \in Lifecycle!Phases
  BY <1>1 DEF TaskStatus, Lifecycle!Phases
<1>3. (IF Assigned(t) THEN task[t].slashWindow ELSE 0) \in Nat
  BY TaskFields
<1>4. assignment[t].agent \in Agents \cup {NoAgent} /\ assignment[t].stake \in Nat
      /\ assignment[t].deliveredAt \in 0 .. MaxTime
  BY AssignmentFields DEF Time
<1>. QED BY <1>1, <1>2, <1>3, <1>4 DEF Life, LifeType, Lifecycle!LifeType

LifeTypeOK == \A t \in TaskIds : Life(t) \in LifeType

LEMMA LifeTypedNext == TypeOK' => \A t \in TaskIds : Life(t)' \in LifeType
<1>1. TypeOK => LifeTypeOK
  BY LifeTyped DEF LifeTypeOK
<1>2. TypeOK' => LifeTypeOK'
  BY <1>1, PTL
<1>. QED BY <1>2 DEF LifeTypeOK

LEMMA SameLife ==
  ASSUME NEW r \in LifeType, NEW q \in LifeType,
         r.phase = q.phase, r.agent = q.agent, r.stake = q.stake, r.slashWindow = q.slashWindow,
         r.deliveredAt = q.deliveredAt, r.bond = q.bond, r.slashed = q.slashed,
         r.bondSlashed = q.bondSlashed
  PROVE  r = q
BY DEF LifeType, Lifecycle!LifeType

LEMMA LifeFields ==
  ASSUME NEW t \in TaskIds
  PROVE  /\ Life(t).phase = IF status[t] = "BidReveal" THEN "Open" ELSE status[t]
         /\ Life(t).agent = assignment[t].agent /\ Life(t).stake = assignment[t].stake
         /\ Life(t).slashWindow = IF Assigned(t) THEN task[t].slashWindow ELSE 0
         /\ Life(t).deliveredAt = assignment[t].deliveredAt
         /\ Life(t).bond = slashBonds[t] /\ Life(t).slashed = taskSlashAmount[t]
         /\ Life(t).bondSlashed = taskBondSlashAmount[t]
BY DEF Life

\* A record is the value of t after the step if it has the right fields.
LEMMA FieldsRule ==
  ASSUME TypeOK', NEW t \in TaskIds, NEW after \in LifeType,
         after.phase = status'[t], status'[t] # "BidReveal",
         after.agent = assignment'[t].agent, after.stake = assignment'[t].stake,
         after.slashWindow = IF Assigned(t)' THEN task'[t].slashWindow ELSE 0,
         after.deliveredAt = assignment'[t].deliveredAt, after.bond = slashBonds'[t],
         after.slashed = taskSlashAmount'[t], after.bondSlashed = taskBondSlashAmount'[t]
  PROVE  Life(t)' = after
<1>1. /\ Life(t)'.phase = status'[t]
      /\ Life(t)'.agent = assignment'[t].agent /\ Life(t)'.stake = assignment'[t].stake
      /\ Life(t)'.slashWindow = IF Assigned(t)' THEN task'[t].slashWindow ELSE 0
      /\ Life(t)'.deliveredAt = assignment'[t].deliveredAt
      /\ Life(t)'.bond = slashBonds'[t] /\ Life(t)'.slashed = taskSlashAmount'[t]
      /\ Life(t)'.bondSlashed = taskBondSlashAmount'[t]
  BY DEF Life
<1>2. Life(t)' \in LifeType
  BY LifeTypedNext
<1>. QED BY <1>1, <1>2, SameLife

\* Only the status of t changes.
OnlyPhase(t) ==
  /\ assignment'[t] = assignment[t] /\ task'[t].slashWindow = task[t].slashWindow
  /\ slashBonds'[t] = slashBonds[t] /\ taskSlashAmount'[t] = taskSlashAmount[t]
  /\ taskBondSlashAmount'[t] = taskBondSlashAmount[t]

LEMMA PhaseChange ==
  ASSUME TypeOK, TypeOK', NEW t \in TaskIds, NEW p \in Lifecycle!Phases, status'[t] = p,
         OnlyPhase(t), \A q \in TaskIds \ {t} : Unseen(q), now' = now
  PROVE  Lifecycle!Becomes(t, [[q \in TaskIds |-> Life(q)][t] EXCEPT !.phase = p])
<1>. DEFINE after == [Life(t) EXCEPT !.phase = p]
<1>1. Life(t) \in LifeType
  BY LifeTyped
<1>2. after \in LifeType
  BY <1>1 DEF LifeType, Lifecycle!LifeType
<1>3. /\ after.phase = p /\ after.agent = Life(t).agent /\ after.stake = Life(t).stake
      /\ after.slashWindow = Life(t).slashWindow /\ after.deliveredAt = Life(t).deliveredAt
      /\ after.bond = Life(t).bond /\ after.slashed = Life(t).slashed
      /\ after.bondSlashed = Life(t).bondSlashed
  BY <1>1 DEF LifeType, Lifecycle!LifeType
<1>4. p # "BidReveal"
  BY DEF Lifecycle!Phases
<1>. HIDE DEF after
<1>5. Life(t)' = after
  BY <1>2, <1>3, <1>4, LifeFields, FieldsRule DEF OnlyPhase, Assigned
<1>6. Lifecycle!Becomes(t, after)
  BY <1>5, BecomesRule
<1>. QED BY <1>6 DEF after

-----------------------------------------------------------------------------
(* The initial states *)

LEMMA InitRefines == Init => Lifecycle!LifecycleInit
<1>. SUFFICES ASSUME Init PROVE Lifecycle!LifecycleInit
  OBVIOUS
<1>1. \A t \in TaskIds : Life(t) = Lifecycle!NewTask
  BY DEF Init, Life, Assigned, NoAssignment, Lifecycle!NewTask
<1>. QED BY <1>1 DEF Init, Lifecycle!LifecycleInit

-----------------------------------------------------------------------------
(* The steps *)

LEMMA CommitBidRefines ==
  ASSUME TypeOK, NEW t \in TaskIds, NEW a \in Agents, NEW offer \in Offers, CommitBid(t, a, offer)
  PROVE  UNCHANGED <<now, View>>
<1>1. now' = now /\ \A q \in TaskIds : Unseen(q)
  BY DEF TypeOK, Unseen, CommitBid, clock, slashRecord, agentRecord, auctionRecord, panelRecord, balances
<1>. QED BY <1>1, Stutter

LEMMA CreateTaskRefines ==
  ASSUME LifecycleInv, NEW p \in Posters, NEW terms \in Terms, CreateTask(p, terms)
  PROVE  UNCHANGED <<now, View>>
<1>1. /\ taskCount \in TaskIds /\ status[taskCount] = "Open" /\ ~Assigned(taskCount)
  <2>1. taskCount \in TaskIds
    BY DEF CreateTask
  <2>2. Sound(taskCount) /\ ~Created(taskCount)
    BY <2>1, ConstantTypes DEF LifecycleInv, Created
  <2>. QED BY <2>1, <2>2 DEF Sound, InPhase, Assigned, NoAssignment
<1>2. now' = now /\ UNCHANGED <<assignment, slashRecord>>
  BY DEF CreateTask, clock
<1>3. \A q \in TaskIds : status'[q] = status[q]
  BY <1>1 DEF LifecycleInv, TypeOK, CreateTask
<1>4. \A q \in TaskIds : Assigned(q) => task'[q].slashWindow = task[q].slashWindow
  BY <1>1 DEF LifecycleInv, TypeOK, CreateTask
<1>. QED BY <1>2, <1>3, <1>4, Stutter DEF Unseen, slashRecord

LEMMA RevealBidRefines ==
  ASSUME TypeOK, NEW t \in TaskIds, NEW a \in Agents, RevealBid(t, a)
  PROVE  UNCHANGED <<now, View>>
<1>1. now' = now /\ UNCHANGED <<assignment, task, slashRecord>>
  BY DEF RevealBid, clock
<1>2. \A q \in TaskIds : (IF status'[q] = "BidReveal" THEN "Open" ELSE status'[q])
                         = (IF status[q] = "BidReveal" THEN "Open" ELSE status[q])
  BY DEF TypeOK, RevealBid, StatusAfterReveal
<1>3. \A q \in TaskIds : Life(q)' = Life(q)
  BY <1>1, <1>2 DEF Life, Assigned, slashRecord
<1>. QED BY <1>1, <1>3 DEF View

LEMMA TickRefines ==
  ASSUME TypeOK, Tick
  PROVE  Lifecycle!Advance
<1>1. now < MaxTime /\ now' = now + 1 /\ UNCHANGED <<assignment, task, status, slashRecord>>
  BY DEF Tick
<1>2. \A q \in TaskIds : Life(q)' = Life(q)
  BY <1>1 DEF Life, Assigned, slashRecord
<1>. QED BY <1>1, <1>2 DEF Lifecycle!Advance

LEMMA CancelTaskRefines ==
  ASSUME TypeOK, TypeOK', NEW t \in TaskIds, CancelTask(t)
  PROVE  Lifecycle!Cancel(t)
<1>1. /\ now' = now /\ status'[t] = "Cancelled" /\ OnlyPhase(t)
      /\ \A q \in TaskIds \ {t} : Unseen(q)
  BY DEF TypeOK, OnlyPhase, Unseen, CancelTask, clock, slashRecord, agentRecord, auctionRecord, panelRecord, balances
<1>2. status[t] \in {"Open", "BidReveal", "Assigned", "Delivered", "Verifying"}
  BY DEF CancelTask, MayCancel, BeforeCompletion, Unsettled
<1>3. "Cancelled" \in Lifecycle!Phases
  BY DEF Lifecycle!Phases
<1>. QED BY <1>1, <1>2, <1>3, PhaseChange, LifeFields DEF Lifecycle!Cancel

LEMMA AbandonVerificationRefines ==
  ASSUME TypeOK, TypeOK', NEW t \in TaskIds, AbandonVerification(t)
  PROVE  Lifecycle!Cancel(t)
<1>1. /\ now' = now /\ status'[t] = "Cancelled" /\ OnlyPhase(t)
      /\ \A q \in TaskIds \ {t} : Unseen(q)
  BY DEF TypeOK, OnlyPhase, Unseen, AbandonVerification, clock, slashRecord, agentRecord, auctionRecord, panelRecord, balances
<1>2. status[t] \in {"Open", "BidReveal", "Assigned", "Delivered", "Verifying"}
  BY DEF AbandonVerification, MayCancel, BeforeCompletion, Unsettled
<1>3. "Cancelled" \in Lifecycle!Phases
  BY DEF Lifecycle!Phases
<1>. QED BY <1>1, <1>2, <1>3, PhaseChange, LifeFields DEF Lifecycle!Cancel

LEMMA EnforceDeliveredTimeoutRefines ==
  ASSUME TypeOK, TypeOK', NEW t \in TaskIds, EnforceDeliveredTimeout(t)
  PROVE  Lifecycle!Cancel(t)
<1>1. /\ now' = now /\ status'[t] = "Cancelled" /\ OnlyPhase(t)
      /\ \A q \in TaskIds \ {t} : Unseen(q)
  BY DEF TypeOK, OnlyPhase, Unseen, EnforceDeliveredTimeout, clock, slashRecord, agentRecord, auctionRecord, panelRecord, balances
<1>2. status[t] \in {"Open", "BidReveal", "Assigned", "Delivered", "Verifying"}
  BY DEF EnforceDeliveredTimeout, MayCancel, BeforeCompletion, Unsettled
<1>3. "Cancelled" \in Lifecycle!Phases
  BY DEF Lifecycle!Phases
<1>. QED BY <1>1, <1>2, <1>3, PhaseChange, LifeFields DEF Lifecycle!Cancel

LEMMA EmergencyWithdrawBountyRefines ==
  ASSUME TypeOK, TypeOK', NEW t \in TaskIds, EmergencyWithdrawBounty(t)
  PROVE  Lifecycle!Cancel(t)
<1>1. /\ now' = now /\ status' = [status EXCEPT ![t] = "Cancelled"]
      /\ task' = [task EXCEPT ![t].bounty = 0] /\ UNCHANGED <<assignment, slashRecord>>
  BY DEF EmergencyWithdrawBounty, clock
<1>2. \A q \in TaskIds : task'[q].slashWindow = task[q].slashWindow
  <2>1. task \in [TaskIds -> TaskType]
    BY DEF TypeOK
  <2>2. task'[t] = [task[t] EXCEPT !.bounty = 0] /\ \A q \in TaskIds \ {t} : task'[q] = task[q]
    BY <1>1, <2>1
  <2>. QED BY <2>1, <2>2 DEF TaskType
<1>3. status'[t] = "Cancelled" /\ OnlyPhase(t) /\ \A q \in TaskIds \ {t} : Unseen(q)
  BY <1>1, <1>2 DEF TypeOK, OnlyPhase, Unseen, slashRecord
<1>4. status[t] \in {"Open", "BidReveal", "Assigned", "Delivered", "Verifying"}
  BY DEF EmergencyWithdrawBounty, BeforeCompletion, Unsettled
<1>5. "Cancelled" \in Lifecycle!Phases
  BY DEF Lifecycle!Phases
<1>. QED BY <1>1, <1>3, <1>4, <1>5, PhaseChange, LifeFields DEF Lifecycle!Cancel

LEMMA DeliverTaskRefines ==
  ASSUME TypeOK, TypeOK', NEW t \in TaskIds, DeliverTask(t)
  PROVE  Lifecycle!Deliver(t)
<1>0. now \in 0 .. MaxTime /\ "Delivered" \in Lifecycle!Phases
  BY ConstantTypes DEF TypeOK, Time, Lifecycle!Phases
<1>. DEFINE after == [Life(t) EXCEPT !.phase = "Delivered", !.deliveredAt = now]
<1>1. Life(t) \in LifeType
  BY LifeTyped
<1>2. after \in LifeType
  BY <1>1, <1>0 DEF LifeType, Lifecycle!LifeType
<1>3. /\ after.phase = "Delivered"
      /\ after.agent = Life(t).agent
      /\ after.stake = Life(t).stake
      /\ after.slashWindow = Life(t).slashWindow
      /\ after.deliveredAt = now
      /\ after.bond = Life(t).bond
      /\ after.slashed = Life(t).slashed
      /\ after.bondSlashed = Life(t).bondSlashed
  BY <1>1 DEF LifeType, Lifecycle!LifeType
<1>4. /\ now' = now /\ status'[t] = "Delivered" /\ assignment'[t] = [assignment[t] EXCEPT !.deliveredAt = now]
      /\ task'[t] = task[t] /\ slashBonds'[t] = slashBonds[t]
      /\ taskSlashAmount'[t] = taskSlashAmount[t] /\ taskBondSlashAmount'[t] = taskBondSlashAmount[t]
      /\ assignment'[t].agent = assignment[t].agent /\ assignment'[t].stake = assignment[t].stake
      /\ assignment'[t].deliveredAt = now
      /\ \A q \in TaskIds \ {t} : Unseen(q)
  <2>1. /\ now' = now /\ status' = [status EXCEPT ![t] = "Delivered"]
        /\ UNCHANGED <<task, slashRecord>>
    BY DEF DeliverTask, clock
  <2>2. assignment'[t] = [assignment[t] EXCEPT !.deliveredAt = now]
        /\ \A q \in TaskIds \ {t} : assignment'[q] = assignment[q]
    BY DEF DeliverTask, TypeOK
  <2>3. assignment[t] \in AssignmentType
    BY AssignmentFields
  <2>4. assignment'[t].agent = assignment[t].agent /\ assignment'[t].stake = assignment[t].stake
        /\ assignment'[t].deliveredAt = now
    BY <2>2, <2>3 DEF AssignmentType
  <2>5. status'[t] = "Delivered" /\ \A q \in TaskIds \ {t} : status'[q] = status[q]
    BY <2>1 DEF TypeOK
  <2>. QED BY <2>1, <2>2, <2>4, <2>5 DEF Unseen, slashRecord
<1>. HIDE DEF after
<1>5. Life(t)' = after
  <2>1. after.slashWindow = IF Assigned(t)' THEN task'[t].slashWindow ELSE 0
    BY <1>3, <1>4, LifeFields DEF Assigned
  <2>2. /\ after.phase = status'[t] /\ status'[t] # "BidReveal"
        /\ after.agent = assignment'[t].agent /\ after.stake = assignment'[t].stake
        /\ after.deliveredAt = assignment'[t].deliveredAt /\ after.bond = slashBonds'[t]
        /\ after.slashed = taskSlashAmount'[t] /\ after.bondSlashed = taskBondSlashAmount'[t]
    BY <1>3, <1>4, LifeFields
  <2>. QED BY <1>2, <2>1, <2>2, FieldsRule
<1>6. Lifecycle!Becomes(t, after)
  BY <1>4, <1>5, BecomesRule
<1>7. Life(t).phase = "Assigned"
  BY LifeFields DEF DeliverTask
<1>. QED BY <1>6, <1>7 DEF Lifecycle!Deliver, after

LEMMA EmergencyWithdrawStakeRefines ==
  ASSUME TypeOK, TypeOK', NEW t \in TaskIds, EmergencyWithdrawStake(t)
  PROVE  Lifecycle!WithdrawStake(t)
<1>0. 0 \in Nat
  OBVIOUS
<1>. DEFINE after == [Life(t) EXCEPT !.stake = 0]
<1>1. Life(t) \in LifeType
  BY LifeTyped
<1>2. after \in LifeType
  BY <1>1, <1>0 DEF LifeType, Lifecycle!LifeType
<1>3. /\ after.phase = Life(t).phase
      /\ after.agent = Life(t).agent
      /\ after.stake = 0
      /\ after.slashWindow = Life(t).slashWindow
      /\ after.deliveredAt = Life(t).deliveredAt
      /\ after.bond = Life(t).bond
      /\ after.slashed = Life(t).slashed
      /\ after.bondSlashed = Life(t).bondSlashed
  BY <1>1 DEF LifeType, Lifecycle!LifeType
<1>4. /\ now' = now /\ status'[t] = status[t] /\ status[t] # "BidReveal" /\ task'[t] = task[t]
      /\ slashBonds'[t] = slashBonds[t]
      /\ taskSlashAmount'[t] = taskSlashAmount[t] /\ taskBondSlashAmount'[t] = taskBondSlashAmount[t]
      /\ assignment'[t].agent = assignment[t].agent /\ assignment'[t].stake = 0
      /\ assignment'[t].deliveredAt = assignment[t].deliveredAt
      /\ \A q \in TaskIds \ {t} : Unseen(q)
  <2>1. /\ now' = now /\ status[t] # "BidReveal" /\ UNCHANGED <<status, task, slashRecord>>
    BY DEF EmergencyWithdrawStake, clock, Unsettled
  <2>2. assignment'[t] = [assignment[t] EXCEPT !.stake = 0]
        /\ \A q \in TaskIds \ {t} : assignment'[q] = assignment[q]
    BY DEF EmergencyWithdrawStake, TypeOK
  <2>3. assignment[t] \in AssignmentType
    BY AssignmentFields
  <2>4. /\ assignment'[t].agent = assignment[t].agent /\ assignment'[t].stake = 0
        /\ assignment'[t].deliveredAt = assignment[t].deliveredAt
    BY <2>2, <2>3 DEF AssignmentType
  <2>. QED BY <2>1, <2>2, <2>4 DEF Unseen, slashRecord
<1>. HIDE DEF after
<1>5. Life(t)' = after
  <2>1. after.slashWindow = IF Assigned(t)' THEN task'[t].slashWindow ELSE 0
    BY <1>3, <1>4, LifeFields DEF Assigned
  <2>2. /\ after.phase = status'[t] /\ status'[t] # "BidReveal"
        /\ after.agent = assignment'[t].agent /\ after.stake = assignment'[t].stake
        /\ after.deliveredAt = assignment'[t].deliveredAt /\ after.bond = slashBonds'[t]
        /\ after.slashed = taskSlashAmount'[t] /\ after.bondSlashed = taskBondSlashAmount'[t]
    BY <1>3, <1>4, LifeFields
  <2>. QED BY <1>2, <2>1, <2>2, FieldsRule
<1>6. Lifecycle!Becomes(t, after)
  BY <1>4, <1>5, BecomesRule
<1>7. Life(t).phase \in {"Assigned", "Delivered", "Verifying"} /\ Life(t).stake # 0
  BY LifeFields DEF EmergencyWithdrawStake, Unsettled
<1>. QED BY <1>6, <1>7 DEF Lifecycle!WithdrawStake, after

LEMMA ClaimSlashBondRefines ==
  ASSUME LifecycleInv, TypeOK', NEW t \in TaskIds, ClaimSlashBond(t)
  PROVE  Lifecycle!ClaimBond(t)
<1>0. 0 \in Nat
  OBVIOUS
<1>. DEFINE after == [Life(t) EXCEPT !.bond = 0]
<1>1. Life(t) \in LifeType
  BY LifeTyped DEF LifecycleInv
<1>2. after \in LifeType
  BY <1>1, <1>0 DEF LifeType, Lifecycle!LifeType
<1>3. /\ after.phase = Life(t).phase
      /\ after.agent = Life(t).agent
      /\ after.stake = Life(t).stake
      /\ after.slashWindow = Life(t).slashWindow
      /\ after.deliveredAt = Life(t).deliveredAt
      /\ after.bond = 0
      /\ after.slashed = Life(t).slashed
      /\ after.bondSlashed = Life(t).bondSlashed
  BY <1>1 DEF LifeType, Lifecycle!LifeType
<1>4. /\ now' = now /\ status'[t] = status[t] /\ status[t] = "Completed" /\ task'[t] = task[t]
      /\ slashBonds'[t] = 0 /\ assignment'[t] = assignment[t]
      /\ taskSlashAmount'[t] = taskSlashAmount[t] /\ taskBondSlashAmount'[t] = taskBondSlashAmount[t]
      /\ \A q \in TaskIds \ {t} : Unseen(q)
  BY DEF ClaimSlashBond, TakeBond, TypeOK, Unseen, clock
<1>. HIDE DEF after
<1>5. Life(t)' = after
  <2>1. after.slashWindow = IF Assigned(t)' THEN task'[t].slashWindow ELSE 0
    BY <1>3, <1>4, LifeFields DEF Assigned
  <2>2. /\ after.phase = status'[t] /\ status'[t] # "BidReveal"
        /\ after.agent = assignment'[t].agent /\ after.stake = assignment'[t].stake
        /\ after.deliveredAt = assignment'[t].deliveredAt /\ after.bond = slashBonds'[t]
        /\ after.slashed = taskSlashAmount'[t] /\ after.bondSlashed = taskBondSlashAmount'[t]
    BY <1>3, <1>4, LifeFields
  <2>. QED BY <1>2, <2>1, <2>2, FieldsRule
<1>6. Lifecycle!Becomes(t, after)
  BY <1>4, <1>5, BecomesRule
<1>7. Life(t).phase = "Completed" /\ Life(t).bond # 0 /\ Lifecycle!WindowOver(t)
  <2>1. Assigned(t)
    BY DEF LifecycleInv, Sound, InPhase, ClaimSlashBond
  <2>. QED BY <2>1, LifeFields DEF ClaimSlashBond, SlashWindowOver, Lifecycle!WindowOver
<1>. QED BY <1>6, <1>7 DEF Lifecycle!ClaimBond, after

LEMMA PostCompletionSlashRefines ==
  ASSUME LifecycleInv, TypeOK', NEW t \in TaskIds, NEW severity \in Severities, PostCompletionSlash(t, severity)
  PROVE  Lifecycle!SlashBond(t, severity)
<1>. DEFINE amount == Bps(slashBonds[t], SlashBps[severity])
<1>0. "Failed" \in Lifecycle!Phases /\ amount \in Nat /\ 0 \in Nat
  <2>1. SlashBps[severity] \in 0 .. BPS /\ slashBonds[t] \in Nat
    BY SeverityShare, ConstantsAssumption DEF ConstantsAssumption, LifecycleInv, TypeOK
  <2>2. amount \in Nat
    BY <2>1, BpsType
  <2>. QED BY <2>2 DEF Lifecycle!Phases
<1>. DEFINE after == [Life(t) EXCEPT !.phase = "Failed", !.bond = 0, !.bondSlashed = amount]
<1>1. Life(t) \in LifeType
  BY LifeTyped DEF LifecycleInv
<1>2. after \in LifeType
  BY <1>1, <1>0 DEF LifeType, Lifecycle!LifeType
<1>3. /\ after.phase = "Failed"
      /\ after.agent = Life(t).agent
      /\ after.stake = Life(t).stake
      /\ after.slashWindow = Life(t).slashWindow
      /\ after.deliveredAt = Life(t).deliveredAt
      /\ after.bond = 0
      /\ after.slashed = Life(t).slashed
      /\ after.bondSlashed = amount
  BY <1>1 DEF LifeType, Lifecycle!LifeType
<1>4. /\ now' = now /\ status'[t] = "Failed" /\ task'[t] = task[t]
      /\ slashBonds'[t] = 0 /\ assignment'[t] = assignment[t]
      /\ taskSlashAmount'[t] = taskSlashAmount[t] /\ taskBondSlashAmount'[t] = amount
      /\ \A q \in TaskIds \ {t} : Unseen(q)
  BY DEF PostCompletionSlash, TakeBond, LifecycleInv, TypeOK, Unseen, clock
<1>. HIDE DEF after
<1>5. Life(t)' = after
  <2>1. after.slashWindow = IF Assigned(t)' THEN task'[t].slashWindow ELSE 0
    BY <1>3, <1>4, LifeFields DEF Assigned
  <2>2. /\ after.phase = status'[t] /\ status'[t] # "BidReveal"
        /\ after.agent = assignment'[t].agent /\ after.stake = assignment'[t].stake
        /\ after.deliveredAt = assignment'[t].deliveredAt /\ after.bond = slashBonds'[t]
        /\ after.slashed = taskSlashAmount'[t] /\ after.bondSlashed = taskBondSlashAmount'[t]
    BY <1>3, <1>4, LifeFields
  <2>. QED BY <1>2, <2>1, <2>2, FieldsRule
<1>6. Lifecycle!Becomes(t, after)
  BY <1>4, <1>5, BecomesRule
<1>7. /\ Life(t).phase = "Completed" /\ Life(t).bond # 0 /\ ~Lifecycle!WindowOver(t)
      /\ amount = Lifecycle!Share(Life(t).bond, Lifecycle!SlashBps[severity])
  <2>1. Assigned(t)
    BY DEF LifecycleInv, Sound, InPhase, PostCompletionSlash
  <2>2. Lifecycle!SlashBps = SlashBps
    BY DEF Lifecycle!SlashBps, SlashBps
  <2>3. amount = Lifecycle!Share(slashBonds[t], Lifecycle!SlashBps[severity])
    BY <2>2 DEF Bps, BPS, Lifecycle!Share
  <2>4. now <= assignment[t].deliveredAt + task[t].slashWindow => ~(now > assignment[t].deliveredAt + task[t].slashWindow)
    BY NatTime, TaskFields DEF LifecycleInv
  <2>. QED BY <2>1, <2>3, <2>4, LifeFields DEF PostCompletionSlash, Lifecycle!WindowOver
<1>. QED BY <1>6, <1>7 DEF Lifecycle!SlashBond, after

-----------------------------------------------------------------------------
(* Settlement *)

LEMMA SettleSuccessRefines ==
  ASSUME LifecycleInv, TypeOK', NEW t \in TaskIds, NEW vs, NEW pre, SettleSuccess(t, vs, pre),
         status[t] = "Verifying", UNCHANGED <<now, task, assignment>>
  PROVE  Lifecycle!Complete(t)
<1>. DEFINE bond == Bps(assignment[t].stake, SlashBondBps)
<1>0. "Completed" \in Lifecycle!Phases /\ bond \in Nat
  <2>1. SlashBondBps \in 0 .. BPS
    BY DEF SlashBondBps, BPS
  <2>2. bond \in Nat
    BY <2>1, AssignmentFields, BpsType DEF LifecycleInv
  <2>. QED BY <2>2 DEF Lifecycle!Phases
<1>. DEFINE after == [Life(t) EXCEPT !.phase = "Completed", !.bond = bond]
<1>1. Life(t) \in LifeType
  BY LifeTyped DEF LifecycleInv
<1>2. after \in LifeType
  BY <1>1, <1>0 DEF LifeType, Lifecycle!LifeType
<1>3. /\ after.phase = "Completed"
      /\ after.agent = Life(t).agent
      /\ after.stake = Life(t).stake
      /\ after.slashWindow = Life(t).slashWindow
      /\ after.deliveredAt = Life(t).deliveredAt
      /\ after.bond = bond
      /\ after.slashed = Life(t).slashed
      /\ after.bondSlashed = Life(t).bondSlashed
  BY <1>1 DEF LifeType, Lifecycle!LifeType
<1>4. /\ now' = now /\ status'[t] = "Completed" /\ task'[t] = task[t]
      /\ slashBonds'[t] = bond /\ assignment'[t] = assignment[t]
      /\ taskSlashAmount'[t] = taskSlashAmount[t] /\ taskBondSlashAmount'[t] = taskBondSlashAmount[t]
      /\ \A q \in TaskIds \ {t} : Unseen(q)
  <2>1. /\ status' = [status EXCEPT ![t] = "Completed"]
        /\ slashBonds' = IF bond > 0 THEN [slashBonds EXCEPT ![t] = bond] ELSE slashBonds
        /\ UNCHANGED <<taskSlashAmount, taskBondSlashAmount>>
    BY DEF SettleSuccess
  <2>2. slashBonds[t] = 0
    BY DEF LifecycleInv, Sound, BondCovered
  <2>. HIDE DEF bond
  <2>3. slashBonds'[t] = bond /\ \A q \in TaskIds \ {t} : slashBonds'[q] = slashBonds[q]
    BY <1>0, <2>1, <2>2 DEF LifecycleInv, TypeOK
  <2>4. status'[t] = "Completed" /\ \A q \in TaskIds \ {t} : status'[q] = status[q]
    BY <2>1 DEF LifecycleInv, TypeOK
  <2>. QED BY <2>1, <2>3, <2>4 DEF Unseen
<1>. HIDE DEF after
<1>5. Life(t)' = after
  <2>1. after.slashWindow = IF Assigned(t)' THEN task'[t].slashWindow ELSE 0
    BY <1>3, <1>4, LifeFields DEF Assigned
  <2>2. /\ after.phase = status'[t] /\ status'[t] # "BidReveal"
        /\ after.agent = assignment'[t].agent /\ after.stake = assignment'[t].stake
        /\ after.deliveredAt = assignment'[t].deliveredAt /\ after.bond = slashBonds'[t]
        /\ after.slashed = taskSlashAmount'[t] /\ after.bondSlashed = taskBondSlashAmount'[t]
    BY <1>3, <1>4, LifeFields
  <2>. QED BY <1>2, <2>1, <2>2, FieldsRule
<1>6. Lifecycle!Becomes(t, after)
  BY <1>4, <1>5, BecomesRule
<1>7. Life(t).phase = "Verifying" /\ bond = Lifecycle!Share(Life(t).stake, Lifecycle!BondBps)
  BY LifeFields DEF Bps, BPS, SlashBondBps, Lifecycle!Share, Lifecycle!BondBps
<1>. QED BY <1>6, <1>7 DEF Lifecycle!Complete, after

LEMMA SettleFailureRefines ==
  ASSUME TypeOK, TypeOK', NEW t \in TaskIds, NEW vs, NEW pre, NEW severity \in {"Late", "Material"}, SettleFailure(t, vs, severity, pre),
         status[t] = "Assigned" \/ (status[t] = "Verifying" /\ severity = "Material"),
         UNCHANGED <<now, task, assignment>>
  PROVE  Lifecycle!Fail(t, severity)
<1>. DEFINE amount == Bps(assignment[t].stake, SlashBps[severity])
<1>0. "Failed" \in Lifecycle!Phases /\ amount \in Nat
  <2>1. SlashBps[severity] \in 0 .. BPS
    BY SeverityShare DEF SlashBps
  <2>2. amount \in Nat
    BY <2>1, AssignmentFields, BpsType
  <2>. QED BY <2>2 DEF Lifecycle!Phases
<1>. DEFINE after == [Life(t) EXCEPT !.phase = "Failed", !.slashed = amount]
<1>1. Life(t) \in LifeType
  BY LifeTyped
<1>2. after \in LifeType
  BY <1>1, <1>0 DEF LifeType, Lifecycle!LifeType
<1>3. /\ after.phase = "Failed"
      /\ after.agent = Life(t).agent
      /\ after.stake = Life(t).stake
      /\ after.slashWindow = Life(t).slashWindow
      /\ after.deliveredAt = Life(t).deliveredAt
      /\ after.bond = Life(t).bond
      /\ after.slashed = amount
      /\ after.bondSlashed = Life(t).bondSlashed
  BY <1>1 DEF LifeType, Lifecycle!LifeType
<1>4. /\ now' = now /\ status'[t] = "Failed" /\ task'[t] = task[t]
      /\ slashBonds'[t] = slashBonds[t] /\ assignment'[t] = assignment[t]
      /\ taskSlashAmount'[t] = amount /\ taskBondSlashAmount'[t] = taskBondSlashAmount[t]
      /\ \A q \in TaskIds \ {t} : Unseen(q)
  BY DEF SettleFailure, TypeOK, Unseen
<1>. HIDE DEF after
<1>5. Life(t)' = after
  <2>1. after.slashWindow = IF Assigned(t)' THEN task'[t].slashWindow ELSE 0
    BY <1>3, <1>4, LifeFields DEF Assigned
  <2>2. /\ after.phase = status'[t] /\ status'[t] # "BidReveal"
        /\ after.agent = assignment'[t].agent /\ after.stake = assignment'[t].stake
        /\ after.deliveredAt = assignment'[t].deliveredAt /\ after.bond = slashBonds'[t]
        /\ after.slashed = taskSlashAmount'[t] /\ after.bondSlashed = taskBondSlashAmount'[t]
    BY <1>3, <1>4, LifeFields
  <2>. QED BY <1>2, <2>1, <2>2, FieldsRule
<1>6. Lifecycle!Becomes(t, after)
  BY <1>4, <1>5, BecomesRule
<1>7. /\ Life(t).phase \in Lifecycle!FailurePhases
      /\ Life(t).phase = "Verifying" => severity = "Material"
      /\ amount = Lifecycle!Share(Life(t).stake, Lifecycle!SlashBps[severity])
  <2>1. Lifecycle!SlashBps = SlashBps
    BY DEF Lifecycle!SlashBps, SlashBps
  <2>2. amount = Lifecycle!Share(assignment[t].stake, Lifecycle!SlashBps[severity])
    BY <2>1 DEF Bps, BPS, Lifecycle!Share
  <2>. QED BY <2>2, LifeFields DEF Lifecycle!FailurePhases
<1>. QED BY <1>6, <1>7 DEF Lifecycle!Fail, after

LEMMA DisputeRefines ==
  ASSUME TypeOK, TypeOK', NEW t \in TaskIds, status[t] = "Verifying",
         status' = [status EXCEPT ![t] = "Disputed"],
         UNCHANGED <<now, task, assignment, slashRecord>>
  PROVE  Lifecycle!Dispute(t)
<1>1. /\ status'[t] = "Disputed" /\ OnlyPhase(t)
      /\ \A q \in TaskIds \ {t} : Unseen(q)
  BY DEF TypeOK, OnlyPhase, Unseen, slashRecord
<1>2. "Disputed" \in Lifecycle!Phases
  BY DEF Lifecycle!Phases
<1>. QED BY <1>1, <1>2, PhaseChange, LifeFields DEF Lifecycle!Dispute

LEMMA TrySettlementRefines ==
  ASSUME LifecycleInv, TypeOK', NEW t \in TaskIds, NEW vs, NEW pre, TrySettlement(t, vs, pre),
         status[t] = "Verifying", UNCHANGED <<now, task, assignment>>
  PROVE  Lifecycle!TaskStep(t) \/ UNCHANGED <<now, View>>
<1>1. CASE UNCHANGED <<status, slashRecord>>
  <2>1. \A q \in TaskIds : Unseen(q)
    BY <1>1 DEF Unseen, slashRecord
  <2>. QED BY <2>1, Stutter
<1>2. CASE status' = [status EXCEPT ![t] = "Disputed"] /\ UNCHANGED slashRecord
  BY <1>2, DisputeRefines DEF LifecycleInv, Lifecycle!TaskStep
<1>3. CASE SettleSuccess(t, vs, pre)
  BY <1>3, SettleSuccessRefines DEF Lifecycle!TaskStep
<1>4. CASE SettleFailure(t, vs, "Material", pre)
  BY <1>4, SettleFailureRefines DEF LifecycleInv, Lifecycle!TaskStep
<1>. QED BY <1>1, <1>2, <1>3, <1>4 DEF TrySettlement

LEMMA SubmitVerificationRefines ==
  ASSUME LifecycleInv, TypeOK', NEW t \in TaskIds, NEW v \in Verifiers,
         NEW vote \in {"Approved", "Rejected"}, SubmitVerification(t, v, vote)
  PROVE  Lifecycle!TaskStep(t) \/ UNCHANGED <<now, View>>
<1>. DEFINE vs == [verifications[t] EXCEPT ![v].vote = vote]
<1>1. status[t] = "Verifying" /\ TrySettlement(t, vs, Ledger) /\ UNCHANGED <<now, task, assignment>>
  BY DEF SubmitVerification, clock
<1>. HIDE DEF vs
<1>. QED BY <1>1, TrySettlementRefines

LEMMA EnforceVerifierTimeoutRefines ==
  ASSUME LifecycleInv, TypeOK', NEW t \in TaskIds, EnforceVerifierTimeout(t)
  PROVE  Lifecycle!TaskStep(t) \/ UNCHANGED <<now, View>>
<1>1. status[t] = "Verifying" /\ UNCHANGED <<now, task, assignment>>
  BY DEF EnforceVerifierTimeout, clock
<1>2. \/ status' = [status EXCEPT ![t] = "Disputed"] /\ UNCHANGED slashRecord
      \/ \E vs, pre : TrySettlement(t, vs, pre)
  BY DEF EnforceVerifierTimeout
<1>3. CASE status' = [status EXCEPT ![t] = "Disputed"] /\ UNCHANGED slashRecord
  BY <1>1, <1>3, DisputeRefines DEF LifecycleInv, Lifecycle!TaskStep
<1>4. CASE \E vs, pre : TrySettlement(t, vs, pre)
  BY <1>1, <1>4, TrySettlementRefines
<1>. QED BY <1>2, <1>3, <1>4

LEMMA EnforceDeadlineRefines ==
  ASSUME LifecycleInv, TypeOK', NEW t \in TaskIds, EnforceDeadline(t)
  PROVE  Lifecycle!TaskStep(t)
<1>1. /\ status[t] = "Assigned" /\ UNCHANGED <<now, task, assignment>>
      /\ \E severity \in {"Late", "Material"} : SettleFailure(t, verifications[t], severity, Ledger)
  BY DEF EnforceDeadline, clock
<1>. QED BY <1>1, SettleFailureRefines DEF LifecycleInv, Lifecycle!TaskStep

LEMMA RegisterVerifierRefines ==
  ASSUME TypeOK, TypeOK', NEW t \in TaskIds, NEW v \in Verifiers, NEW stake \in VerifierStakes,
         RegisterVerifier(t, v, stake)
  PROVE  Lifecycle!Verify(t) \/ UNCHANGED <<now, View>>
<1>1. /\ UNCHANGED <<now, task, assignment, slashRecord>> /\ status' = [status EXCEPT ![t] = "Verifying"]
      /\ status[t] \in {"Delivered", "Verifying"}
  BY DEF RegisterVerifier, Reviewable, clock
<1>2. status'[t] = "Verifying" /\ OnlyPhase(t) /\ \A q \in TaskIds \ {t} : Unseen(q)
  BY <1>1 DEF TypeOK, OnlyPhase, Unseen, slashRecord
<1>3. "Verifying" \in Lifecycle!Phases
  BY DEF Lifecycle!Phases
<1>4. CASE status[t] = "Delivered"
  BY <1>1, <1>2, <1>3, <1>4, PhaseChange, LifeFields DEF Lifecycle!Verify
<1>5. CASE status[t] = "Verifying"
  <2>1. Unseen(t)
    BY <1>2, <1>5 DEF Unseen, OnlyPhase
  <2>. QED BY <1>1, <1>2, <2>1, Stutter
<1>. QED BY <1>1, <1>4, <1>5

LEMMA ResolveAuctionRefines ==
  ASSUME LifecycleInv, TypeOK', NEW t \in TaskIds, ResolveAuction(t)
  PROVE  Lifecycle!TaskStep(t)
<1>1. PICK i \in DOMAIN taskBidders[t] :
        LET winner == taskBidders[t][i] IN
        assignment' = [assignment EXCEPT ![t] =
          [agent |-> winner, stake |-> bids[t][winner].stake,
           price |-> bids[t][winner].price, assignedAt |-> now, deliveredAt |-> 0]]
  BY DEF ResolveAuction
<1>. DEFINE winner == taskBidders[t][i]
            stake == bids[t][winner].stake
            window == task[t].slashWindow
            after == [Life(t) EXCEPT !.phase = "Assigned", !.agent = winner, !.stake = stake,
                                     !.slashWindow = window]
<1>2. winner \in Agents
  BY BiddersType DEF Bidders, LifecycleInv
<1>3. stake \in BidStakes /\ stake \in Nat
  BY <1>2, BidFields DEF LifecycleInv, BidType
<1>4. window \in SlashWindows /\ window \in Nat
  BY TaskFields DEF LifecycleInv, TaskType
<1>5. /\ assignment'[t].agent = winner /\ assignment'[t].stake = stake
      /\ assignment'[t].deliveredAt = 0
      /\ \A q \in TaskIds \ {t} : assignment'[q] = assignment[q]
  BY <1>1 DEF LifecycleInv, TypeOK
<1>6. /\ now' = now /\ UNCHANGED <<task, slashRecord>>
      /\ status[t] \in {"BidReveal", "Open"} /\ status' = [status EXCEPT ![t] = "Assigned"]
  BY DEF ResolveAuction, clock
<1>7. assignment[t].deliveredAt = 0
  BY <1>6 DEF LifecycleInv, Sound, InPhase, NoAssignment
<1>8. status'[t] = "Assigned" /\ \A q \in TaskIds \ {t} : Unseen(q)
  BY <1>5, <1>6 DEF LifecycleInv, TypeOK, Unseen, slashRecord
<1>9. Assigned(t)'
  BY <1>2, <1>5, ConstantsAssumption DEF Assigned, ConstantsAssumption, Address
<1>. HIDE DEF winner, stake, window
<1>10. Life(t) \in LifeType
  BY LifeTyped DEF LifecycleInv
<1>11. after \in LifeType
  <2>1. "Assigned" \in Lifecycle!Phases
    BY DEF Lifecycle!Phases
  <2>. QED BY <1>2, <1>3, <1>4, <1>10, <2>1 DEF LifeType, Lifecycle!LifeType
<1>12. /\ after.phase = "Assigned" /\ after.agent = winner /\ after.stake = stake
       /\ after.slashWindow = window /\ after.deliveredAt = Life(t).deliveredAt
       /\ after.bond = Life(t).bond /\ after.slashed = Life(t).slashed
       /\ after.bondSlashed = Life(t).bondSlashed
  BY <1>10 DEF LifeType, Lifecycle!LifeType
<1>. HIDE DEF after
<1>13. Life(t)' = after
  <2>1. /\ after.phase = status'[t] /\ status'[t] # "BidReveal" /\ after.agent = assignment'[t].agent
        /\ after.stake = assignment'[t].stake /\ after.deliveredAt = assignment'[t].deliveredAt
        /\ after.bond = slashBonds'[t] /\ after.slashed = taskSlashAmount'[t]
        /\ after.bondSlashed = taskBondSlashAmount'[t]
    BY <1>5, <1>6, <1>7, <1>8, <1>12, LifeFields DEF slashRecord
  <2>2. after.slashWindow = IF Assigned(t)' THEN task'[t].slashWindow ELSE 0
    BY <1>6, <1>9, <1>12 DEF window
  <2>. QED BY <1>11, <2>1, <2>2, FieldsRule
<1>14. Lifecycle!Becomes(t, after)
  BY <1>6, <1>8, <1>13, BecomesRule
<1>15. Life(t).phase = "Open"
  BY <1>6, LifeFields
<1>16. Lifecycle!Assign(t, winner, stake, window)
  BY <1>14, <1>15 DEF Lifecycle!Assign, after
<1>. QED BY <1>2, <1>3, <1>4, <1>16 DEF Lifecycle!TaskStep

LEMMA OtherRefines ==
  ASSUME WithdrawProtocolFees \/ Pause \/ Unpause \/ \E x \in Address : UnbanAgent(x)
  PROVE  UNCHANGED <<now, View>>
<1>1. UNCHANGED <<now, task, status, assignment, slashRecord>>
  BY DEF WithdrawProtocolFees, Pause, Unpause, UnbanAgent, clock
<1>2. \A q \in TaskIds : Unseen(q)
  BY <1>1 DEF Unseen, slashRecord
<1>. QED BY <1>1, <1>2, Stutter

-----------------------------------------------------------------------------
(* The refinement *)

LEMMA StepRefines ==
  ASSUME LifecycleInv, TypeOK', Next
  PROVE  Lifecycle!LifecycleNext \/ UNCHANGED <<now, View>>
<1>0. TypeOK
  BY DEF LifecycleInv
<1>1. ASSUME NEW t \in TaskIds,
             \/ CancelTask(t) \/ AbandonVerification(t) \/ EnforceDeliveredTimeout(t)
             \/ EmergencyWithdrawBounty(t) \/ EmergencyWithdrawStake(t) \/ DeliverTask(t)
             \/ ClaimSlashBond(t) \/ ResolveAuction(t) \/ EnforceDeadline(t)
             \/ \E v \in Verifiers, stake \in VerifierStakes : RegisterVerifier(t, v, stake)
             \/ \E v \in Verifiers, vote \in {"Approved", "Rejected"} : SubmitVerification(t, v, vote)
             \/ EnforceVerifierTimeout(t)
      PROVE  Lifecycle!LifecycleNext \/ UNCHANGED <<now, View>>
  <2>1. Lifecycle!TaskStep(t) \/ UNCHANGED <<now, View>>
    BY <1>0, <1>1, CancelTaskRefines, AbandonVerificationRefines, EnforceDeliveredTimeoutRefines,
       EmergencyWithdrawBountyRefines, EmergencyWithdrawStakeRefines, DeliverTaskRefines,
       ClaimSlashBondRefines, ResolveAuctionRefines, EnforceDeadlineRefines,
       RegisterVerifierRefines, SubmitVerificationRefines, EnforceVerifierTimeoutRefines
       DEF Lifecycle!TaskStep
  <2>. QED BY <2>1 DEF Lifecycle!LifecycleNext
<1>2. ASSUME NEW t \in TaskIds, NEW severity \in Severities, PostCompletionSlash(t, severity)
      PROVE  Lifecycle!LifecycleNext
  BY <1>2, PostCompletionSlashRefines DEF Lifecycle!LifecycleNext
<1>3. ASSUME \/ \E p \in Posters, terms \in Terms : CreateTask(p, terms)
             \/ \E t \in TaskIds, a \in Agents : RevealBid(t, a) \/ \E offer \in Offers : CommitBid(t, a, offer)
             \/ WithdrawProtocolFees \/ Pause \/ Unpause \/ \E x \in Address : UnbanAgent(x)
      PROVE  UNCHANGED <<now, View>>
  BY <1>0, <1>3, CreateTaskRefines, RevealBidRefines, CommitBidRefines, OtherRefines
<1>4. ASSUME Tick PROVE Lifecycle!LifecycleNext
  BY <1>0, <1>4, TickRefines DEF Lifecycle!LifecycleNext
<1>. QED BY <1>1, <1>2, <1>3, <1>4 DEF Next

\* The two core contracts implement the life cycle the satellite contracts rely
\* on, whatever the constants: the property the run ArenaCore_Panel checks.
THEOREM Refinement == Spec => ImplementsLifecycle
<1>1. LifecycleInv /\ LifecycleInv' /\ [Next]_vars => [Lifecycle!LifecycleNext]_Lifecycle!lifecycleVars
  <2>. SUFFICES ASSUME LifecycleInv, LifecycleInv', [Next]_vars
                PROVE  Lifecycle!LifecycleNext \/ UNCHANGED Lifecycle!lifecycleVars
    OBVIOUS
  <2>1. CASE Next
    BY <2>1, StepRefines DEF LifecycleInv, View, Lifecycle!lifecycleVars
  <2>2. CASE UNCHANGED vars
    <3>1. now' = now /\ \A q \in TaskIds : Unseen(q)
      BY <2>2 DEF vars, clock, slashRecord, agentRecord, auctionRecord, panelRecord, balances, Unseen
    <3>. QED BY <3>1, Stutter DEF View, Lifecycle!lifecycleVars
  <2>. QED BY <2>1, <2>2
<1>. QED BY <1>1, InitRefines, LifecycleInvariant, PTL
        DEF Spec, ImplementsLifecycle, Lifecycle!LifecycleSpec

-----------------------------------------------------------------------------
(* What follows from it *)

LEMMA BecomesAt ==
  ASSUME NEW s \in TaskIds, NEW after, Lifecycle!Becomes(s, after)
  PROVE  now' = now /\ Life(s)' = after /\ \A q \in TaskIds \ {s} : Life(q)' = Life(q)
<1>1. now' = now /\ [q \in TaskIds |-> Life(q)'] = [[q \in TaskIds |-> Life(q)] EXCEPT ![s] = after]
  BY DEF Lifecycle!Becomes
<1>. DEFINE new == [q \in TaskIds |-> Life(q)']
<1>2. /\ new[s] = after /\ \A q \in TaskIds \ {s} : new[q] = Life(q)
  BY <1>1
<1>3. \A q \in TaskIds : new[q] = Life(q)'
  OBVIOUS
<1>. HIDE DEF new
<1>. QED BY <1>1, <1>2, <1>3

\* A step takes a settled task, or its bond, only the ways the life cycle has.
LEMMA SettledStep ==
  ASSUME TypeOK, NEW s \in TaskIds, NEW t \in TaskIds,
         Lifecycle!TaskStep(s) \/ \E severity \in Severities : Lifecycle!SlashBond(s, severity),
         Life(t).phase \in Terminal
  PROVE  \/ Life(t)' = Life(t)
         \/ /\ Life(t).phase = "Completed" /\ Life(t)'.phase = "Failed"
            /\ Life(t).bond # 0 /\ Life(t)'.bond = 0 /\ ~Lifecycle!WindowOver(t)
         \/ /\ Life(t)'.phase = "Completed" /\ Life(t).phase = "Completed"
            /\ Life(t)'.bond = 0 /\ Lifecycle!WindowOver(t)
<1>1. CASE s # t
  <2>1. \E after : Lifecycle!Becomes(s, after)
    BY DEF Lifecycle!TaskStep, Lifecycle!Assign, Lifecycle!WithdrawStake, Lifecycle!Deliver,
           Lifecycle!Verify, Lifecycle!Complete, Lifecycle!Fail, Lifecycle!Dispute,
           Lifecycle!Cancel, Lifecycle!ClaimBond, Lifecycle!SlashBond
  <2>. QED BY <1>1, <2>1, BecomesAt
<1>2. CASE s = t
  <2>1. Life(t) \in LifeType
    BY LifeTyped
  <2>2. Life(t).phase \notin {"Open", "Assigned", "Delivered", "Verifying"}
    BY DEF Terminal
  <2>3. CASE Lifecycle!TaskStep(s)
    <3>1. Lifecycle!ClaimBond(t)
      BY <1>2, <2>2, <2>3
         DEF Lifecycle!TaskStep, Lifecycle!Assign, Lifecycle!WithdrawStake, Lifecycle!Deliver,
             Lifecycle!Verify, Lifecycle!Complete, Lifecycle!Fail, Lifecycle!FailurePhases,
             Lifecycle!Dispute, Lifecycle!Cancel
    <3>2. Life(t)' = [Life(t) EXCEPT !.bond = 0]
      BY <3>1, BecomesAt DEF Lifecycle!ClaimBond
    <3>. QED BY <2>1, <3>1, <3>2 DEF Lifecycle!ClaimBond, LifeType, Lifecycle!LifeType
  <2>4. CASE \E severity \in Severities : Lifecycle!SlashBond(s, severity)
    <3>1. PICK severity \in Severities : Lifecycle!SlashBond(t, severity)
      BY <1>2, <2>4
    <3>. DEFINE amount == Lifecycle!Share(Life(t).bond, Lifecycle!SlashBps[severity])
    <3>2. Life(t)' = [Life(t) EXCEPT !.phase = "Failed", !.bond = 0, !.bondSlashed = amount]
      BY <3>1, BecomesAt DEF Lifecycle!SlashBond
    <3>. HIDE DEF amount
    <3>. QED BY <2>1, <3>1, <3>2 DEF Lifecycle!SlashBond, LifeType, Lifecycle!LifeType
  <2>. QED BY <2>3, <2>4
<1>. QED BY <1>1, <1>2

\* What a step of the contracts may do to a settled task and to a bond.
LEMMA SettledEffect ==
  ASSUME LifecycleInv, LifecycleInv', [Next]_vars, NEW t \in TaskIds
  PROVE  /\ status[t] \in Terminal /\ status'[t] # status[t] =>
              /\ status[t] = "Completed" /\ status'[t] = "Failed"
              /\ slashBonds[t] # 0 /\ slashBonds'[t] = 0
              /\ now <= assignment[t].deliveredAt + task[t].slashWindow
         /\ slashBonds[t] # 0 /\ slashBonds'[t] # slashBonds[t] =>
              /\ slashBonds'[t] = 0
              /\ (status'[t] = "Completed") = (now > assignment[t].deliveredAt + task[t].slashWindow)
<1>. SUFFICES ASSUME status[t] \in Terminal
              PROVE  \/ status'[t] = status[t] /\ slashBonds'[t] = slashBonds[t]
                     \/ /\ status[t] = "Completed" /\ status'[t] = "Failed"
                        /\ slashBonds[t] # 0 /\ slashBonds'[t] = 0
                        /\ now <= assignment[t].deliveredAt + task[t].slashWindow
                     \/ /\ status[t] = "Completed" /\ status'[t] = "Completed" /\ slashBonds'[t] = 0
                        /\ now > assignment[t].deliveredAt + task[t].slashWindow
  <2>1. slashBonds[t] # 0 => status[t] = "Completed"
    BY DEF LifecycleInv, Sound, BondCovered
  <2>2. now \in Nat /\ assignment[t].deliveredAt + task[t].slashWindow \in Nat
    BY NatTime, TaskFields DEF LifecycleInv
  <2>. QED BY <2>1, <2>2 DEF Terminal
<1>1. Life(t).phase = status[t] /\ Life(t).phase \in Terminal
  BY LifeFields DEF Terminal
<1>2. Life(t)'.phase \in {"Completed", "Failed", "Disputed", "Cancelled"} => Life(t)'.phase = status'[t]
  BY DEF Life
<1>3. Life(t)'.bond = slashBonds'[t] /\ Life(t).bond = slashBonds[t]
  BY DEF Life
<1>4. Lifecycle!WindowOver(t) = (now > Life(t).deliveredAt + Life(t).slashWindow)
  BY DEF Lifecycle!WindowOver
<1>5. status[t] = "Completed" => /\ Life(t).deliveredAt = assignment[t].deliveredAt
                                 /\ Life(t).slashWindow = task[t].slashWindow
  BY LifeFields DEF LifecycleInv, Sound, InPhase
<1>6. now \in Nat /\ assignment[t].deliveredAt + task[t].slashWindow \in Nat
  BY NatTime, TaskFields DEF LifecycleInv
<1>7. \/ Life(t)' = Life(t)
      \/ \E s \in TaskIds : Lifecycle!TaskStep(s) \/ \E severity \in Severities : Lifecycle!SlashBond(s, severity)
  <2>1. CASE Next
    <3>1. CASE UNCHANGED <<now, View>>
      <4>1. [q \in TaskIds |-> Life(q)'] = [q \in TaskIds |-> Life(q)]
        BY <3>1 DEF View
      <4>. QED BY <4>1
    <3>2. CASE Lifecycle!Advance
      <4>1. [q \in TaskIds |-> Life(q)'] = [q \in TaskIds |-> Life(q)]
        BY <3>2 DEF Lifecycle!Advance
      <4>. QED BY <4>1
    <3>. QED BY <2>1, <3>1, <3>2, StepRefines DEF LifecycleInv, Lifecycle!LifecycleNext
  <2>2. CASE UNCHANGED vars
    <3>1. Unseen(t)
      BY <2>2 DEF vars, Unseen, clock, slashRecord
    <3>. QED BY <3>1, UnseenLife
  <2>. QED BY <2>1, <2>2
<1>8. CASE Life(t)' = Life(t)
  BY <1>1, <1>2, <1>3, <1>8 DEF Terminal
<1>9. CASE \E s \in TaskIds : Lifecycle!TaskStep(s) \/ \E severity \in Severities : Lifecycle!SlashBond(s, severity)
  <2>1. \/ Life(t)' = Life(t)
        \/ /\ Life(t).phase = "Completed" /\ Life(t)'.phase = "Failed"
           /\ Life(t).bond # 0 /\ Life(t)'.bond = 0 /\ ~Lifecycle!WindowOver(t)
        \/ /\ Life(t)'.phase = "Completed" /\ Life(t).phase = "Completed"
           /\ Life(t)'.bond = 0 /\ Lifecycle!WindowOver(t)
    BY <1>1, <1>9, SettledStep DEF LifecycleInv
  <2>2. CASE Life(t)' = Life(t)
    BY <1>8, <2>2
  <2>. DEFINE end == assignment[t].deliveredAt + task[t].slashWindow
  <2>3. status[t] = "Completed" => /\ Lifecycle!WindowOver(t) => now > end
                                   /\ ~Lifecycle!WindowOver(t) => ~(now > end)
    BY <1>4, <1>5
  <2>4. now \in Nat /\ end \in Nat
    BY <1>6
  <2>. HIDE DEF end
  <2>5. CASE /\ Life(t).phase = "Completed" /\ Life(t)'.phase = "Failed"
             /\ Life(t).bond # 0 /\ Life(t)'.bond = 0 /\ ~Lifecycle!WindowOver(t)
    <3>2. ~(now > end)
      BY <1>1, <2>3, <2>5
    <3>1. now <= end
      BY <3>2, <2>4
    <3>. QED BY <1>1, <1>2, <1>3, <2>5, <3>1 DEF end
  <2>6. CASE /\ Life(t)'.phase = "Completed" /\ Life(t).phase = "Completed"
             /\ Life(t)'.bond = 0 /\ Lifecycle!WindowOver(t)
    BY <1>1, <1>2, <1>3, <2>3, <2>6 DEF end
  <2>. QED BY <2>1, <2>2, <2>5, <2>6
<1>. QED BY <1>7, <1>8, <1>9

\* A settled task is settled for good: SettledOnce holds in every instance.
THEOREM SettledForGood == Spec => SettledOnce
<1>1. LifecycleInv /\ LifecycleInv' /\ [Next]_vars =>
        [\A t \in AllCreated : status[t] \in Terminal /\ status'[t] # status[t] =>
           /\ status[t] = "Completed" /\ status'[t] = "Failed"
           /\ slashBonds[t] # 0 /\ slashBonds'[t] = 0
           /\ now <= assignment[t].deliveredAt + task[t].slashWindow]_vars
  BY SettledEffect DEF AllCreated
<1>. QED BY <1>1, LifecycleInvariant, PTL DEF Spec, SettledOnce

\* A bond leaves once and in one direction: BondLeavesOnce holds in every instance.
THEOREM BondLeavesForGood == Spec => BondLeavesOnce
<1>1. LifecycleInv /\ LifecycleInv' /\ [Next]_vars =>
        [\A t \in TaskIds : slashBonds[t] # 0 /\ slashBonds'[t] # slashBonds[t] =>
           /\ slashBonds'[t] = 0
           /\ (status'[t] = "Completed") = (now > assignment[t].deliveredAt + task[t].slashWindow)]_vars
  BY SettledEffect
<1>. QED BY <1>1, LifecycleInvariant, PTL DEF Spec, BondLeavesOnce

-----------------------------------------------------------------------------
(* No money is lost, made or owed twice by the two core contracts.  The    *)
(* totals are sums over all tasks, addresses and members of a panel;       *)
(* FiniteSums says how a sum changes with one of its summands.             *)


-----------------------------------------------------------------------------
(* What the sums read is in order *)

\* A task that does not exist owes nothing; one that was not cancelled has its
\* bounty; only bidders have committed and only who committed has revealed, after
\* which the auction is not Open any more; who is not on the panel has no stake in
\* it, and an agent at work is not promised more than the bounty.
Orderly(t) ==
  /\ ~Created(t) => task[t].bounty = 0
  /\ Created(t) /\ status[t] # "Cancelled" => task[t].bounty # 0
  /\ \A a \in Agents : bids[t][a].committed => Created(t) /\ a \in Bidders(t)
  /\ \A a \in Agents : bids[t][a].revealed =>
       /\ bids[t][a].committed
       /\ status[t] # "Open"
       /\ status[t] = "Cancelled" \/ bids[t][a].price <= task[t].bounty
  /\ \A v \in Verifiers : verifications[t][v].vote = "None" => verifications[t][v].stake = 0
  /\ status[t] \in {"Assigned", "Delivered", "Verifying"} => assignment[t].price <= task[t].bounty

OrderlyInv == PanelInv /\ \A t \in TaskIds : Orderly(t)

\* Nothing is staked by who has not voted and is not asked to.
NoIdleStake(vs) == \A v \in Verifiers : vs[v].vote = "None" => vs[v].stake = 0

\* The bids, terms and price stay, and the status does not go back.
Calm(t) ==
  /\ Created(t)' = Created(t)
  /\ bids'[t] = bids[t] /\ taskBidders'[t] = taskBidders[t] /\ task'[t] = task[t]
  /\ assignment'[t].price = assignment[t].price
  /\ status[t] = "Cancelled" => status'[t] = "Cancelled"
  /\ status'[t] = "Open" => status[t] = "Open"
  /\ status'[t] \in {"Assigned", "Delivered", "Verifying"} =>
       status[t] \in {"Assigned", "Delivered", "Verifying"}
  /\ NoIdleStake(verifications'[t])

\* A calm step keeps a task in order.
LEMMA CalmOrderly ==
  ASSUME NEW t \in TaskIds, Orderly(t), Calm(t)
  PROVE  Orderly(t)'
<1>1. Bidders(t)' = Bidders(t)
  BY DEF Calm, Bidders
<1>2. \A a \in Agents : bids'[t][a].committed => Created(t)' /\ a \in Bidders(t)'
  BY <1>1 DEF Calm, Orderly
<1>3. \A a \in Agents : bids'[t][a].revealed =>
        /\ bids'[t][a].committed
        /\ status'[t] # "Open"
        /\ status'[t] = "Cancelled" \/ bids'[t][a].price <= task'[t].bounty
  BY DEF Calm, Orderly
<1>4. /\ ~Created(t)' => task'[t].bounty = 0
      /\ Created(t)' /\ status'[t] # "Cancelled" => task'[t].bounty # 0
  BY DEF Calm, Orderly
<1>5. status'[t] \in {"Assigned", "Delivered", "Verifying"} =>
        assignment'[t].price <= task'[t].bounty
  BY DEF Calm, Orderly
<1>6. \A v \in Verifiers : verifications'[t][v].vote = "None" => verifications'[t][v].stake = 0
  BY DEF Calm, NoIdleStake
<1>. QED BY <1>2, <1>3, <1>4, <1>5, <1>6 DEF Orderly

\* A task that a step keeps stays in order.
LEMMA KeptOrderly ==
  ASSUME NEW t \in TaskIds, Orderly(t), Kept(t)
  PROVE  Orderly(t)'
<1>1. NoIdleStake(verifications'[t])
  BY DEF Kept, Orderly, NoIdleStake
<1>. QED BY <1>1, CalmOrderly DEF Kept, Calm

LEMMA OrderlyInit == Init => OrderlyInv
<1>. SUFFICES ASSUME Init PROVE \A t \in TaskIds : Orderly(t)
  BY PanelInit DEF OrderlyInv
<1>. TAKE t \in TaskIds
<1>1. taskCount = 0 /\ t \in Nat
  BY ConstantTypes DEF Init
<1>2. /\ task[t].bounty = 0 /\ status[t] = "Open" /\ ~Created(t)
      /\ \A a \in Agents : ~bids[t][a].committed /\ ~bids[t][a].revealed
      /\ \A v \in Verifiers : verifications[t][v].stake = 0
  BY <1>1 DEF Init, Created, NoTask, NoBid, NoVerification
<1>. QED BY <1>2 DEF Orderly

-----------------------------------------------------------------------------
\* A vote and the count of the silent leave the stake of nobody idle.
LEMMA SettlementCalm ==
  ASSUME TypeOK, NEW t \in TaskIds, status[t] = "Verifying", NEW vs, NEW pre,
         verifications' = [verifications EXCEPT ![t] = vs], NoIdleStake(vs),
         UNCHANGED <<taskCount, task, assignment, bids, taskBidders>>,
         \/ TrySettlement(t, vs, pre)
         \/ status' = [status EXCEPT ![t] = "Disputed"]
  PROVE  Calm(t)
<1>1. status'[t] \in {"Verifying", "Failed", "Disputed", "Completed"}
  BY TrySettlementEffect DEF TypeOK
<1>2. verifications'[t] = vs
  BY DEF TypeOK
<1>. QED BY <1>1, <1>2 DEF Calm, Created

\* The steps that keep the bids, the terms and the price are calm.
LEMMA PanelCalm ==
  ASSUME OrderlyInv, NEW t \in TaskIds,
         \/ \E v \in Verifiers :
              \/ \E stake \in VerifierStakes : RegisterVerifier(t, v, stake)
              \/ \E vote \in {"Approved", "Rejected"} : SubmitVerification(t, v, vote)
         \/ EnforceVerifierTimeout(t)
         \/ AbandonVerification(t)
         \/ EnforceDeliveredTimeout(t)
         \/ EnforceDeadline(t)
  PROVE  Calm(t)
<1>. DEFINE vs == verifications[t]
<1>0. TypeOK /\ NoIdleStake(vs) /\ vs \in [Verifiers -> VerificationType]
  BY PanelType DEF OrderlyInv, PanelInv, LifecycleInv, Orderly, NoIdleStake
<1>1. ASSUME NEW v \in Verifiers, NEW stake \in VerifierStakes, RegisterVerifier(t, v, stake)
      PROVE  Calm(t)
  <2>1. /\ status[t] \in {"Delivered", "Verifying"} /\ status'[t] = "Verifying"
        /\ UNCHANGED <<taskCount, task, assignment, taskBidders, bids>>
    BY <1>0, <1>1 DEF TypeOK, RegisterVerifier, Reviewable, auctionRecord
  <2>2. verifications'[t] = [vs EXCEPT ![v] = [stake |-> stake, vote |-> "Pending"]]
    BY <1>0, <1>1 DEF TypeOK, RegisterVerifier
  <2>3. NoIdleStake(verifications'[t])
    BY <1>0, <2>2 DEF NoIdleStake
  <2>. QED BY <2>1, <2>3 DEF Calm, Created
<1>2. ASSUME NEW v \in Verifiers, NEW vote \in {"Approved", "Rejected"},
             SubmitVerification(t, v, vote)
      PROVE  Calm(t)
  <2>. DEFINE ws == [vs EXCEPT ![v].vote = vote]
  <2>1. /\ status[t] = "Verifying" /\ verifications' = [verifications EXCEPT ![t] = ws]
        /\ TrySettlement(t, ws, Ledger)
        /\ UNCHANGED <<taskCount, task, assignment, taskBidders, bids>>
    BY <1>2 DEF SubmitVerification, auctionRecord
  <2>2. NoIdleStake(ws)
    <3>. SUFFICES ASSUME NEW w \in Verifiers, ws[w].vote = "None" PROVE ws[w].stake = 0
      BY DEF NoIdleStake
    <3>1. w # v
      BY <1>0, VerificationFields DEF VerificationType
    <3>. QED BY <1>0, <3>1 DEF NoIdleStake
  <2>. HIDE DEF ws
  <2>. QED BY <1>0, <2>1, <2>2, SettlementCalm
<1>3. CASE EnforceVerifierTimeout(t)
  <2>. DEFINE silent == VotesFor(vs, "Pending")
              ws == [v \in Verifiers |-> IF v \in silent THEN [stake |-> 0, vote |-> "Rejected"]
                                         ELSE vs[v]]
  <2>1. /\ status[t] = "Verifying" /\ verifications' = [verifications EXCEPT ![t] = ws]
        /\ UNCHANGED <<taskCount, task, assignment, taskBidders, bids>>
        /\ \/ status' = [status EXCEPT ![t] = "Disputed"]
           \/ \E pre : TrySettlement(t, ws, pre)
    BY <1>3 DEF EnforceVerifierTimeout, auctionRecord
  <2>2. NoIdleStake(ws)
    BY <1>0 DEF NoIdleStake
  <2>. HIDE DEF ws
  <2>. QED BY <1>0, <2>1, <2>2, SettlementCalm
<1>4. CASE AbandonVerification(t)
  <2>1. /\ status[t] = "Verifying" /\ status'[t] = "Cancelled"
        /\ UNCHANGED <<taskCount, task, assignment, taskBidders, bids>>
        /\ verifications'[t] = [v \in Verifiers |-> [vs[v] EXCEPT !.stake = 0]]
    BY <1>0, <1>4 DEF TypeOK, AbandonVerification, auctionRecord
  <2>2. NoIdleStake(verifications'[t])
    BY <1>0, <2>1, VerificationFields DEF NoIdleStake, VerificationType
  <2>. QED BY <2>1, <2>2 DEF Calm, Created
<1>5. CASE EnforceDeliveredTimeout(t)
  BY <1>0, <1>5 DEF TypeOK, Calm, Created, EnforceDeliveredTimeout, auctionRecord, panelRecord
<1>6. CASE EnforceDeadline(t)
  <2>1. /\ status[t] = "Assigned"
        /\ UNCHANGED <<taskCount, task, assignment, verifications, taskBidders, bids>>
        /\ \E severity : SettleFailure(t, vs, severity, Ledger)
    BY <1>6 DEF EnforceDeadline, auctionRecord, panelRecord
  <2>2. status'[t] = "Failed"
    BY <1>0, <2>1, SettleFailureEffect
  <2>. QED BY <1>0, <2>1, <2>2 DEF Calm, Created
<1>. QED BY <1>1, <1>2, <1>3, <1>4, <1>5, <1>6

\* So are a cancellation, a delivery and the steps after completion.
LEMMA ExitCalm ==
  ASSUME OrderlyInv, NEW t \in TaskIds,
         \/ CancelTask(t)
         \/ DeliverTask(t)
         \/ \E severity \in Severities : PostCompletionSlash(t, severity)
         \/ ClaimSlashBond(t)
         \/ EmergencyWithdrawStake(t)
  PROVE  Calm(t)
<1>0. TypeOK /\ NoIdleStake(verifications[t])
  BY DEF OrderlyInv, PanelInv, LifecycleInv, Orderly, NoIdleStake
<1>1. CASE CancelTask(t)
  BY <1>0, <1>1 DEF TypeOK, Calm, Created, CancelTask, panelRecord
<1>2. CASE DeliverTask(t)
  <2>1. assignment'[t].price = assignment[t].price
    BY <1>0, <1>2, AssignmentFields DEF TypeOK, DeliverTask, AssignmentType
  <2>. QED BY <1>0, <1>2, <2>1 DEF TypeOK, Calm, Created, DeliverTask, panelRecord, auctionRecord
<1>3. ASSUME NEW severity \in Severities, PostCompletionSlash(t, severity) PROVE Calm(t)
  <2>1. status[t] = "Completed" /\ status'[t] = "Failed"
    BY <1>0, <1>3 DEF TypeOK, PostCompletionSlash
  <2>. QED BY <1>0, <1>3, <2>1 DEF Calm, Created, PostCompletionSlash, auctionRecord, panelRecord
<1>4. CASE ClaimSlashBond(t)
  BY <1>0, <1>4 DEF Calm, Created, ClaimSlashBond, auctionRecord, panelRecord
<1>5. CASE EmergencyWithdrawStake(t)
  <2>1. assignment'[t].price = assignment[t].price
    BY <1>0, <1>5, AssignmentFields DEF TypeOK, EmergencyWithdrawStake, AssignmentType
  <2>. QED BY <1>0, <1>5, <2>1 DEF Calm, Created, EmergencyWithdrawStake, auctionRecord, panelRecord
<1>. QED BY <1>1, <1>2, <1>3, <1>4, <1>5

\* A commitment makes the agent a bidder who has revealed nothing.
LEMMA CommitBidOrderly ==
  ASSUME OrderlyInv, NEW t \in TaskIds, NEW a \in Agents, NEW offer \in Offers, CommitBid(t, a, offer)
  PROVE  Orderly(t)'
<1>0. TypeOK /\ Orderly(t)
  BY DEF OrderlyInv, PanelInv, LifecycleInv
<1>1. /\ Created(t) /\ Created(t)'
      /\ UNCHANGED <<task, status, assignment, verifications>>
  BY DEF CommitBid, Created, panelRecord
<1>2. taskBidders'[t] = Append(taskBidders[t], a) /\ taskBidders[t] \in Seq(Agents)
  BY <1>0 DEF TypeOK, CommitBid
<1>3. bids'[t] = [bids[t] EXCEPT ![a] = [committed |-> TRUE, revealed |-> FALSE,
                                         stake |-> offer.stake, price |-> offer.price]]
  BY <1>0 DEF TypeOK, CommitBid
<1>4. a \in Bidders(t)' /\ Bidders(t) \subseteq Bidders(t)'
  <2>. DEFINE s == taskBidders[t]
  <2>1. s \in Seq(Agents) /\ taskBidders'[t] = Append(s, a)
    BY <1>2
  <2>. HIDE DEF s
  <2>2. /\ DOMAIN Append(s, a) = 1 .. Len(s) + 1 /\ Len(s) \in Nat /\ DOMAIN s = 1 .. Len(s)
        /\ Append(s, a)[Len(s) + 1] = a
        /\ \A i \in 1 .. Len(s) : Append(s, a)[i] = s[i]
    BY <2>1
  <2>3. Bidders(t) = {s[i] : i \in DOMAIN s}
    BY DEF Bidders, s
  <2>4. Bidders(t)' = {Append(s, a)[i] : i \in DOMAIN Append(s, a)}
    BY <2>1 DEF Bidders
  <2>5. Len(s) + 1 \in DOMAIN Append(s, a) /\ DOMAIN s \subseteq DOMAIN Append(s, a)
    BY <2>2
  <2>. QED BY <2>2, <2>3, <2>4, <2>5
<1>5. \A b \in Agents : bids'[t][b].committed => Created(t)' /\ b \in Bidders(t)'
  <2>. TAKE b \in Agents
  <2>1. CASE b = a
    BY <1>1, <1>4, <2>1
  <2>2. CASE b # a
    <3>1. bids'[t][b] = bids[t][b]
      BY <1>0, <1>3, <2>2 DEF TypeOK
    <3>. QED BY <1>0, <1>1, <1>4, <3>1 DEF Orderly
  <2>. QED BY <2>1, <2>2
<1>6. \A b \in Agents : bids'[t][b].revealed => bids'[t][b] = bids[t][b]
  <2>. TAKE b \in Agents
  <2>1. CASE b = a
    <3>1. bids'[t][a].revealed = FALSE
      BY <1>0, <1>3 DEF TypeOK
    <3>. QED BY <2>1, <3>1
  <2>2. CASE b # a
    BY <1>0, <1>3, <2>2 DEF TypeOK
  <2>. QED BY <2>1, <2>2
<1>. QED BY <1>0, <1>1, <1>5, <1>6 DEF Orderly

\* Who reveals has committed, and offers no more than the bounty.
LEMMA RevealBidOrderly ==
  ASSUME OrderlyInv, NEW t \in TaskIds, NEW a \in Agents, RevealBid(t, a)
  PROVE  Orderly(t)'
<1>0. TypeOK /\ Orderly(t)
  BY DEF OrderlyInv, PanelInv, LifecycleInv
<1>1. /\ Created(t)' = Created(t)
      /\ UNCHANGED <<task, assignment, verifications, taskBidders>>
      /\ bids[t][a].committed /\ bids[t][a].price <= task[t].bounty
  BY DEF RevealBid, Created, panelRecord
<1>2. bids'[t] = [bids[t] EXCEPT ![a] = [bids[t][a] EXCEPT !.revealed = TRUE]]
  BY <1>0 DEF TypeOK, RevealBid
<1>3. status'[t] = (IF status[t] = "Open" THEN "BidReveal" ELSE status[t])
  BY <1>0 DEF TypeOK, RevealBid, StatusAfterReveal
<1>4. Bidders(t)' = Bidders(t)
  BY <1>1 DEF Bidders
<1>5. \A b \in Agents : /\ bids'[t][b].committed = bids[t][b].committed
                        /\ bids'[t][b].price = bids[t][b].price
                        /\ b # a => bids'[t][b].revealed = bids[t][b].revealed
  <2>. TAKE b \in Agents
  <2>. DEFINE bid == bids[t][a]
  <2>1. bids[t] \in [Agents -> BidType] /\ bid \in BidType
    BY <1>0 DEF TypeOK
  <2>2. CASE b = a
    <3>1. bids'[t][a] = [bid EXCEPT !.revealed = TRUE]
      BY <1>2, <2>1
    <3>2. [bid EXCEPT !.revealed = TRUE].committed = bid.committed
          /\ [bid EXCEPT !.revealed = TRUE].price = bid.price
      BY <2>1 DEF BidType
    <3>. QED BY <2>2, <3>1, <3>2
  <2>3. CASE b # a
    BY <1>2, <2>1, <2>3
  <2>. QED BY <2>2, <2>3
<1>. QED BY <1>0, <1>1, <1>3, <1>4, <1>5 DEF Orderly

\* The price of the assigned agent is that of a bid that was revealed.
LEMMA ResolveAuctionOrderly ==
  ASSUME OrderlyInv, NEW t \in TaskIds, ResolveAuction(t)
  PROVE  Orderly(t)'
<1>0. TypeOK /\ Orderly(t)
  BY DEF OrderlyInv, PanelInv, LifecycleInv
<1>1. /\ Created(t)' = Created(t) /\ status[t] \in {"Open", "BidReveal"}
      /\ UNCHANGED <<task, bids, taskBidders, verifications>>
      /\ status'[t] = "Assigned"
  BY <1>0 DEF TypeOK, ResolveAuction, Created, panelRecord
<1>2. PICK i \in DOMAIN taskBidders[t] :
        /\ Wins(t, i)
        /\ assignment'[t].price = bids[t][taskBidders[t][i]].price
  BY <1>0 DEF TypeOK, ResolveAuction
<1>3. taskBidders[t][i] \in Agents /\ bids[t][taskBidders[t][i]].revealed
  <2>1. taskBidders[t][i] \in Revealed(t)
    BY <1>2 DEF Wins
  <2>. QED BY <1>0, <2>1, BiddersType DEF Revealed
<1>4. assignment'[t].price <= task[t].bounty
  BY <1>0, <1>1, <1>2, <1>3 DEF Orderly
<1>5. Bidders(t)' = Bidders(t)
  BY <1>1 DEF Bidders
<1>. QED BY <1>0, <1>1, <1>4, <1>5 DEF Orderly

\* A bounty taken in an emergency leaves a cancelled task.
LEMMA EmergencyWithdrawBountyOrderly ==
  ASSUME OrderlyInv, NEW t \in TaskIds, EmergencyWithdrawBounty(t)
  PROVE  Orderly(t)'
<1>0. TypeOK /\ Orderly(t)
  BY DEF OrderlyInv, PanelInv, LifecycleInv
<1>1. /\ Created(t) /\ Created(t)' /\ status'[t] = "Cancelled"
      /\ UNCHANGED <<bids, taskBidders, verifications>>
  BY <1>0 DEF TypeOK, EmergencyWithdrawBounty, Created, panelRecord, auctionRecord
<1>2. Bidders(t)' = Bidders(t)
  BY <1>1 DEF Bidders
<1>. QED BY <1>0, <1>1, <1>2 DEF Orderly

\* A new task has its bounty and no bids.
LEMMA CreateTaskOrderly ==
  ASSUME OrderlyInv, NEW p \in Posters, NEW terms \in Terms, CreateTask(p, terms), NEW q \in TaskIds
  PROVE  Orderly(q)'
<1>0. TypeOK /\ Orderly(q) /\ taskCount \in Nat
  BY NatTime DEF OrderlyInv, PanelInv, LifecycleInv
<1>1. CASE q # taskCount
  BY <1>0, <1>1, CreateTaskKeeps, KeptOrderly
<1>2. CASE q = taskCount
  <2>1. ~Created(q) /\ Created(q)'
    BY <1>0, <1>2 DEF Created, CreateTask
  <2>2. UNCHANGED <<bids, verifications>> /\ status'[q] = "Open"
    BY <1>0, <1>2 DEF TypeOK, CreateTask, auctionRecord, panelRecord
  <2>3. task'[q].bounty = terms.bounty /\ terms.bounty >= MinBounty
    BY <1>0, <1>2 DEF TypeOK, CreateTask
  <2>4. terms.bounty \in Nat /\ MinBounty \in Nat \ {0}
    BY ConstantsAssumption DEF ConstantsAssumption
  <2>5. task'[q].bounty # 0
    BY <2>3, <2>4
  <2>. QED BY <1>0, <2>1, <2>2, <2>5 DEF Orderly
<1>. QED BY <1>1, <1>2

LEMMA TaskStepOrderly ==
  ASSUME OrderlyInv, NEW t \in TaskIds, TaskStep(t)
  PROVE  Orderly(t)'
<1>0. Orderly(t)
  BY DEF OrderlyInv
<1>. QED BY <1>0, CalmOrderly, PanelCalm, ExitCalm, CommitBidOrderly, RevealBidOrderly,
            ResolveAuctionOrderly, EmergencyWithdrawBountyOrderly DEF TaskStep

LEMMA OrderlyStep ==
  ASSUME OrderlyInv, [Next]_vars
  PROVE  OrderlyInv'
<1>0. PanelInv /\ TypeOK /\ \A q \in TaskIds : Orderly(q)
  BY DEF OrderlyInv, PanelInv, LifecycleInv
<1>1. PanelInv'
  BY <1>0, PanelStep
<1>2. ASSUME NEW q \in TaskIds PROVE Orderly(q)'
  <2>1. CASE OtherStep
    BY <1>0, <2>1, OtherStepKeeps, KeptOrderly
  <2>2. ASSUME NEW p \in Posters, NEW terms \in Terms, CreateTask(p, terms) PROVE Orderly(q)'
    BY <2>2, CreateTaskOrderly
  <2>3. ASSUME NEW t \in TaskIds, TaskStep(t) PROVE Orderly(q)'
    BY <1>0, <2>3, TaskStepOrderly, TaskStepKeeps, KeptOrderly
  <2>. QED BY <2>1, <2>2, <2>3, StepCases
<1>. QED BY <1>1, <1>2 DEF OrderlyInv

-----------------------------------------------------------------------------
(* Main can pay what it owes *)

\* What Main owes for task t, and that it can pay it.
Owed(t) == slashBonds[t] + (IF Escrowed(t) THEN task[t].bounty ELSE 0)
MainInv ==
  /\ protocolTreasury \in Nat /\ mainBal \in Int
  /\ mainBal >= protocolTreasury + SumFunctionOnSet([t \in TaskIds |-> Owed(t)], TaskIds)

\* What Main has to spare does not shrink but by what it owes less for t.
Covered(t) ==
  /\ protocolTreasury' \in Nat /\ mainBal' \in Int
  /\ mainBal' - protocolTreasury' - Owed(t)' >= mainBal - protocolTreasury - Owed(t)

LEMMA FiniteTasks == IsFiniteSet(TaskIds) /\ IsFiniteSet(Address)
<1>1. MaxTasks - 1 \in Int
  BY ConstantTypes
<1>. QED BY <1>1, FS_Interval, ConstantsAssumption DEF TaskIds, ConstantsAssumption

LEMMA OwedType ==
  ASSUME TypeOK, NEW t \in TaskIds
  PROVE  Owed(t) \in Nat
BY TaskFields, NatTime DEF Owed

LEMMA KeptIsOwed ==
  ASSUME NEW t \in TaskIds, Kept(t)
  PROVE  Owed(t)' = Owed(t)
BY DEF Kept, Owed, Escrowed, Tied

\* What is owed may move with one task only.
LEMMA CoveredMain ==
  ASSUME TypeOK, TypeOK', MainInv, NEW t \in TaskIds, Covered(t),
         \A q \in TaskIds \ {t} : Owed(q)' = Owed(q)
  PROVE  MainInv'
<1>. DEFINE owed == [q \in TaskIds |-> Owed(q)]
            then == [q \in TaskIds |-> Owed(q)']
            total == SumFunctionOnSet(owed, TaskIds)
            after == SumFunctionOnSet(then, TaskIds)
<1>1. /\ \A q \in TaskIds : Owed(q) \in Nat /\ owed[q] \in Int
      /\ then[t] = Owed(t)' /\ owed[t] = Owed(t)
      /\ \A q \in TaskIds \ {t} : then[q] = owed[q]
  BY OwedType
<1>2. Owed(t)' \in Nat
  <2>1. slashBonds'[t] \in Nat /\ task'[t] \in TaskType
    BY DEF TypeOK
  <2>. QED BY <2>1 DEF Owed, TaskType
<1>3. total \in Int
  <2>. HIDE DEF owed
  <2>. QED BY <1>1, FiniteTasks, SumInt
<1>4. after = total - owed[t] + then[t]
  <2>. HIDE DEF owed, then
  <2>. QED BY <1>1, <1>2, FiniteTasks, SumUpdate
<1>5. mainBal >= protocolTreasury + total /\ protocolTreasury \in Nat /\ mainBal \in Int
  BY DEF MainInv
<1>6. mainBal' >= protocolTreasury' + after
  <2>. HIDE DEF total, after, owed, then
  <2>. QED BY <1>1, <1>2, <1>3, <1>4, <1>5 DEF Covered
<1>. QED BY <1>6 DEF Covered, MainInv

\* A step that neither moves Main's money nor changes what it owes for a task.
Unmoved == UNCHANGED <<mainBal, protocolTreasury>>

LEMMA UnmovedMain ==
  ASSUME TypeOK, TypeOK', MainInv, NEW t \in TaskIds, Unmoved, Owed(t)' = Owed(t)
  PROVE  Covered(t)
BY OwedType DEF Unmoved, Covered, MainInv

-----------------------------------------------------------------------------
\* What a verifier against the majority forfeits to the protocol is a natural number.
LEMMA ForfeitType ==
  ASSUME NEW vs \in [Verifiers -> VerificationType], NEW V \in SUBSET Verifiers, NEW share,
         \A v \in V : share[v] \in Nat
  PROVE  SumFunctionOnSet(share, V) \in Nat
<1>1. IsFiniteSet(V)
  BY FiniteTasks, FS_Subset DEF Address
<1>. QED BY <1>1, SumNat

\* When the agent is paid, the fees of the verifiers who disapproved stay in Main;
\* everything else that was the bounty leaves, or is booked as treasury or bond.
LEMMA SuccessCovered ==
  ASSUME TypeOK, NEW t \in TaskIds, NEW vs \in [Verifiers -> VerificationType],
         NEW pre, pre.main \in Int, pre.treasury \in Nat, SettleSuccess(t, vs, pre),
         slashBonds[t] = 0, assignment[t].price <= task[t].bounty
  PROVE  /\ protocolTreasury' \in Nat /\ mainBal' \in Int
         /\ mainBal' - protocolTreasury' - slashBonds'[t]
              >= pre.main - pre.treasury - task[t].bounty
<1>. DEFINE price == assignment[t].price
            bounty == task[t].bounty
            fee == Bps(price, ProtocolFeeBps)
            bond == Bps(assignment[t].stake, SlashBondBps)
            remaining == bounty - price
            feeTotal == MinOf(Bps(bounty, VerifierFeeBps), remaining)
            size == Cardinality(Panel(vs))
            each == IF size > 0 THEN feeTotal \div size ELSE 0
            approvers == VotesFor(vs, "Approved")
            count == Cardinality(approvers)
            others == Panel(vs) \ approvers
            share == [v \in others |-> (vs[v].stake * SlashRevenueBps) \div (BPS * 2)]
            revenue == SumFunctionOnSet(share, others)
<1>1. /\ protocolTreasury' = pre.treasury + fee + revenue
      /\ mainBal' = pre.main - (price - fee) - (remaining - each * size) - each * count
                      + revenue + bond
      /\ slashBonds' = IF bond > 0 THEN [slashBonds EXCEPT ![t] = bond] ELSE slashBonds
  BY DEF SettleSuccess
<1>2. price \in Nat /\ bounty \in Nat /\ assignment[t].stake \in Nat
  BY AssignmentFields, TaskFields
<1>3. fee \in Nat /\ bond \in Nat /\ Bps(bounty, VerifierFeeBps) \in Nat
  <2>1. ProtocolFeeBps \in 0 .. BPS /\ SlashBondBps \in 0 .. BPS /\ VerifierFeeBps \in 0 .. BPS
    BY DEF ProtocolFeeBps, SlashBondBps, VerifierFeeBps, BPS
  <2>. QED BY <1>2, <2>1, BpsType
<1>4. feeTotal \in Nat
  BY <1>2, <1>3 DEF MinOf
<1>5. size \in Nat /\ count \in Nat /\ count <= size
  <2>1. approvers \subseteq Panel(vs) /\ IsFiniteSet(Panel(vs))
    BY PanelFinite
  <2>2. count <= size
    BY <2>1, FS_Subset
  <2>. QED BY <2>2, PanelFinite
<1>6. each \in Nat
  <2>. HIDE DEF feeTotal, size
  <2>. QED BY <1>4, <1>5
<1>7. revenue \in Nat
  <2>1. \A v \in others : share[v] \in Nat
    <3>1. \A v \in others : vs[v].stake \in Nat
      BY VerificationFields DEF Panel
    <3>. QED BY <3>1 DEF SlashRevenueBps, BPS
  <2>2. others \in SUBSET Verifiers
    BY DEF Panel
  <2>. HIDE DEF share, others
  <2>. QED BY <2>1, <2>2, ForfeitType
<1>8. slashBonds'[t] = bond
  <2>. HIDE DEF bond
  <2>. QED BY <1>1, <1>3 DEF TypeOK
<1>9. each * count <= each * size /\ each * count \in Nat /\ each * size \in Nat
  <2>. HIDE DEF each, count, size
  <2>. QED BY <1>5, <1>6
<1>. DEFINE paid == each * count
            most == each * size
<1>10. /\ mainBal' = pre.main - (price - fee) - (remaining - most) - paid + revenue + bond
       /\ paid <= most /\ paid \in Nat /\ most \in Nat
  BY <1>1, <1>9
<1>11. remaining = bounty - price
  OBVIOUS
<1>. HIDE DEF price, bounty, fee, bond, remaining, revenue, paid, most
<1>12. /\ protocolTreasury' \in Nat /\ mainBal' \in Int
       /\ mainBal' - protocolTreasury' - slashBonds'[t] >= pre.main - pre.treasury - bounty
  BY <1>1, <1>2, <1>3, <1>7, <1>8, <1>10, <1>11
<1>. QED BY <1>12 DEF bounty

\* When the agent is slashed the bounty goes back, and what comes in is booked as
\* treasury.
LEMMA FailureCovered ==
  ASSUME TypeOK, NEW t \in TaskIds, NEW vs \in [Verifiers -> VerificationType],
         NEW severity \in DOMAIN SlashBps,
         NEW pre, pre.main \in Int, pre.treasury \in Nat, SettleFailure(t, vs, severity, pre)
  PROVE  /\ protocolTreasury' \in Nat /\ mainBal' \in Int
         /\ mainBal' - protocolTreasury' = pre.main - pre.treasury - task[t].bounty
<1>. DEFINE bounty == task[t].bounty
            cut == (assignment[t].stake * SlashBps[severity] * SlashRevenueBps) \div (BPS * BPS)
            others == Panel(vs) \ VotesFor(vs, "Rejected")
            share == [v \in others |-> Bps(vs[v].stake, SlashRevenueBps)]
            revenue == SumFunctionOnSet(share, others)
<1>1. /\ protocolTreasury' = pre.treasury + cut + revenue
      /\ mainBal' = pre.main + cut + revenue - bounty
  BY DEF SettleFailure
<1>2. bounty \in Nat /\ assignment[t].stake \in Nat
  BY AssignmentFields, TaskFields
<1>3. cut \in Nat
  <2>1. SlashBps[severity] \in Nat
    <3>1. SlashBps[severity] \in 0 .. BPS
      BY SeverityShare
    <3>2. \A n \in 0 .. BPS : n \in Nat
      BY DEF BPS
    <3>. QED BY <3>1, <3>2
  <2>. DEFINE amount == assignment[t].stake * SlashBps[severity] * 1000
  <2>2. amount \in Nat
    BY <1>2, <2>1
  <2>3. cut = amount \div (10000 * 10000)
    BY DEF SlashRevenueBps, BPS
  <2>. HIDE DEF amount
  <2>. QED BY <2>2, <2>3
<1>4. revenue \in Nat
  <2>1. \A v \in others : share[v] \in Nat
    <3>1. \A v \in others : vs[v].stake \in Nat
      BY VerificationFields DEF Panel
    <3>2. SlashRevenueBps \in 0 .. BPS
      BY DEF SlashRevenueBps, BPS
    <3>. QED BY <3>1, <3>2, BpsType
  <2>2. others \in SUBSET Verifiers
    BY DEF Panel
  <2>. HIDE DEF share, others
  <2>. QED BY <2>1, <2>2, ForfeitType
<1>. HIDE DEF bounty, cut, revenue
<1>5. /\ protocolTreasury' \in Nat /\ mainBal' \in Int
      /\ mainBal' - protocolTreasury' = pre.main - pre.treasury - bounty
  BY <1>1, <1>2, <1>3, <1>4
<1>. QED BY <1>5 DEF bounty

\* A full panel that is divided evenly has somebody who approved.
LEMMA TieHasApproval ==
  ASSUME NEW vs \in [Verifiers -> VerificationType], VotesFor(vs, "Pending") = {},
         Panel(vs) # {},
         Cardinality(VotesFor(vs, "Approved")) = Cardinality(VotesFor(vs, "Rejected"))
  PROVE  VotesFor(vs, "Approved") # {}
<1>. SUFFICES ASSUME VotesFor(vs, "Approved") = {} PROVE FALSE
  OBVIOUS
<1>1. Cardinality(VotesFor(vs, "Approved")) = 0 /\ Cardinality(VotesFor(vs, "Rejected")) = 0
  BY FS_EmptySet
<1>2. Cardinality(Panel(vs)) = 0
  BY <1>1, FullVote
<1>. QED BY <1>2, PanelFinite, FS_EmptySet

\* A settlement of a verifying task, with what the call has moved before it.
LEMMA SettlementCovered ==
  ASSUME OrderlyInv, NEW t \in TaskIds, status[t] = "Verifying",
         NEW vs \in [Verifiers -> VerificationType], Panel(vs) # {},
         NEW pre, pre.main \in Int, pre.treasury \in Nat, TrySettlement(t, vs, pre),
         verifications' = [verifications EXCEPT ![t] = vs], UNCHANGED task
  PROVE  /\ protocolTreasury' \in Nat /\ mainBal' \in Int
         /\ mainBal' - protocolTreasury' - Owed(t)' >= pre.main - pre.treasury - Owed(t)
<1>. DEFINE bounty == task[t].bounty
<1>0. TypeOK /\ BondCovered(t) /\ Orderly(t)
  BY DEF OrderlyInv, PanelInv, LifecycleInv, Sound
<1>1. /\ slashBonds[t] = 0 /\ Escrowed(t) /\ Owed(t) = bounty /\ bounty \in Nat
      /\ assignment[t].price <= task[t].bounty /\ task'[t].bounty = bounty
  <2>1. slashBonds[t] = 0
    BY <1>0 DEF BondCovered
  <2>2. Escrowed(t)
    BY DEF Escrowed, Live
  <2>3. bounty \in Nat
    BY <1>0, TaskFields
  <2>. QED BY <1>0, <2>1, <2>2, <2>3 DEF Owed, Orderly
<1>2. verifications'[t] = vs
  BY <1>0 DEF TypeOK
<1>3. CASE /\ UNCHANGED slashBonds /\ mainBal' = pre.main /\ protocolTreasury' = pre.treasury
           /\ \/ UNCHANGED status
              \/ /\ status' = [status EXCEPT ![t] = "Disputed"]
                 /\ VotesFor(vs, "Pending") = {}
                 /\ Cardinality(VotesFor(vs, "Approved")) = Cardinality(VotesFor(vs, "Rejected"))
  <2>1. status'[t] = "Verifying" \/ (status'[t] = "Disputed" /\ VotesFor(vs, "Approved") # {})
    BY <1>0, <1>3, TieHasApproval DEF TypeOK
  <2>2. Owed(t)' = bounty
    BY <1>1, <1>2, <1>3, <2>1 DEF Owed, Escrowed, Tied, Live
  <2>. HIDE DEF bounty
  <2>. QED BY <1>1, <1>3, <2>2
<1>4. CASE SettleSuccess(t, vs, pre)
  <2>1. status'[t] = "Completed"
    BY <1>0, <1>4, SettleSuccessEffect
  <2>2. slashBonds'[t] \in Nat
    <3>1. SlashBondBps \in 0 .. BPS
      BY DEF SlashBondBps, BPS
    <3>2. Bps(assignment[t].stake, SlashBondBps) \in Nat
      BY <1>0, <3>1, AssignmentFields, BpsType
    <3>. QED BY <1>0, <1>1, <1>4, <3>2, SettleSuccessEffect
  <2>3. Owed(t)' = slashBonds'[t]
    BY <2>1, <2>2 DEF Owed, Escrowed, Tied, Live
  <2>. QED BY <1>0, <1>1, <1>4, <2>3, SuccessCovered
<1>5. CASE SettleFailure(t, vs, "Material", pre)
  <2>1. status'[t] = "Failed" /\ slashBonds' = slashBonds
    BY <1>0, <1>5, SettleFailureEffect
  <2>2. Owed(t)' = 0
    BY <1>1, <2>1 DEF Owed, Escrowed, Tied, Live
  <2>3. "Material" \in DOMAIN SlashBps
    BY DEF SlashBps
  <2>4. /\ protocolTreasury' \in Nat /\ mainBal' \in Int
        /\ mainBal' - protocolTreasury' = pre.main - pre.treasury - bounty
    BY <1>0, <1>5, <2>3, FailureCovered
  <2>. HIDE DEF bounty
  <2>. QED BY <1>1, <2>2, <2>4
<1>. QED BY <1>3, <1>4, <1>5 DEF TrySettlement, slashRecord

\* A vote cast by a member of the panel keeps the panel and the stakes.
LEMMA VoteCast ==
  ASSUME NEW vs \in [Verifiers -> VerificationType], NEW v \in Verifiers,
         vs[v].vote = "Pending", NEW vote \in {"Approved", "Rejected"},
         NEW ws, ws = [vs EXCEPT ![v].vote = vote]
  PROVE  /\ ws \in [Verifiers -> VerificationType]
         /\ Panel(ws) = Panel(vs) /\ Panel(ws) # {}
         /\ \A x \in Verifiers : ws[x].stake = vs[x].stake
<1>1. ws \in [Verifiers -> VerificationType]
  BY DEF VerificationType
<1>2. /\ ws[v].vote = vote /\ ws[v].stake = vs[v].stake
      /\ \A x \in Verifiers \ {v} : ws[x] = vs[x]
  BY DEF VerificationType
<1>3. Panel(ws) = Panel(vs) /\ Panel(ws) # {}
  BY <1>2 DEF Panel
<1>4. \A x \in Verifiers : ws[x].stake = vs[x].stake
  BY <1>2
<1>. QED BY <1>1, <1>3, <1>4

\* A cast vote moves no money before the settlement.
LEMMA SubmitVerificationCovered ==
  ASSUME OrderlyInv, MainInv, NEW t \in TaskIds, NEW v \in Verifiers,
         NEW vote \in {"Approved", "Rejected"}, SubmitVerification(t, v, vote)
  PROVE  Covered(t)
<1>. DEFINE vs == [verifications[t] EXCEPT ![v].vote = vote]
<1>0. TypeOK /\ verifications[t] \in [Verifiers -> VerificationType]
  BY PanelType DEF OrderlyInv, PanelInv, LifecycleInv
<1>1. /\ status[t] = "Verifying" /\ UNCHANGED task /\ verifications[t][v].vote = "Pending"
      /\ verifications' = [verifications EXCEPT ![t] = vs] /\ TrySettlement(t, vs, Ledger)
  BY DEF SubmitVerification
<1>2. vs \in [Verifiers -> VerificationType] /\ Panel(vs) # {}
  <2>1. vs = [verifications[t] EXCEPT ![v].vote = vote]
    OBVIOUS
  <2>. HIDE DEF vs
  <2>. QED BY <1>0, <1>1, <2>1, VoteCast
<1>4. Ledger.main = mainBal /\ Ledger.treasury = protocolTreasury
  BY DEF Ledger
<1>. HIDE DEF vs
<1>5. Ledger.main \in Int /\ Ledger.treasury \in Nat
  BY <1>4 DEF MainInv
<1>6. /\ protocolTreasury' \in Nat /\ mainBal' \in Int
      /\ mainBal' - protocolTreasury' - Owed(t)' >= Ledger.main - Ledger.treasury - Owed(t)
  BY <1>1, <1>2, <1>5, SettlementCovered
<1>. QED BY <1>4, <1>6 DEF Covered

\* Counting the silent as rejections keeps the panel, and takes their stakes.
LEMMA SilentRejected ==
  ASSUME NEW vs \in [Verifiers -> VerificationType]
  PROVE  LET silent == VotesFor(vs, "Pending")
             ws == [v \in Verifiers |-> IF v \in silent THEN [stake |-> 0, vote |-> "Rejected"]
                                        ELSE vs[v]] IN
         /\ ws \in [Verifiers -> VerificationType]
         /\ Panel(ws) = Panel(vs)
         /\ silent = Panel(vs) => VotesFor(ws, "Approved") = {}
         /\ \A x \in Verifiers : ws[x].stake = IF x \in silent THEN 0 ELSE vs[x].stake
<1>. DEFINE silent == VotesFor(vs, "Pending")
            ws == [v \in Verifiers |-> IF v \in silent THEN [stake |-> 0, vote |-> "Rejected"]
                                       ELSE vs[v]]
<1>1. ws \in [Verifiers -> VerificationType]
  BY DEF VerificationType
<1>2. Panel(ws) = Panel(vs)
  BY DEF Panel, VotesFor
<1>3. silent = Panel(vs) => VotesFor(ws, "Approved") = {}
  BY DEF Panel, VotesFor
<1>4. \A x \in Verifiers : ws[x].stake = IF x \in silent THEN 0 ELSE vs[x].stake
  OBVIOUS
<1>. QED BY <1>1, <1>2, <1>3, <1>4

\* What the silent forfeit reaches Main before anything is settled; when nobody voted
\* the bounty leaves with a tenth of the agent's slash coming in.
LEMMA EnforceVerifierTimeoutCovered ==
  ASSUME OrderlyInv, MainInv, NEW t \in TaskIds, EnforceVerifierTimeout(t)
  PROVE  Covered(t)
<1>. DEFINE silent == VotesFor(verifications[t], "Pending")
            toProto == [v \in silent |->
              (verifications[t][v].stake * TimeoutSlashBps * SlashRevenueBps) \div (BPS * BPS)]
            revenue == SumFunctionOnSet(toProto, silent)
            vs == [v \in Verifiers |-> IF v \in silent THEN [stake |-> 0, vote |-> "Rejected"]
                                       ELSE verifications[t][v]]
            mid == [main |-> mainBal + revenue,
                    auction |-> auctionBal - StakeSum(verifications[t], silent),
                    treasury |-> protocolTreasury + revenue,
                    stake |-> [x \in Address |-> IF x \in silent
                                 THEN agentActiveStake[x] - verifications[t][x].stake
                                 ELSE agentActiveStake[x]]]
            toProtoP == Bps(Bps(assignment[t].stake, TimeoutSlashBps), SlashRevenueBps)
            bounty == task[t].bounty
<1>0. TypeOK /\ BondCovered(t) /\ verifications[t] \in [Verifiers -> VerificationType]
  BY PanelType DEF OrderlyInv, PanelInv, LifecycleInv, Sound
<1>1. /\ status[t] = "Verifying" /\ silent # {}
      /\ verifications' = [verifications EXCEPT ![t] = vs]
      /\ UNCHANGED task
  BY DEF EnforceVerifierTimeout
<1>2. \/ /\ silent = Panel(verifications[t])
         /\ status' = [status EXCEPT ![t] = "Disputed"]
         /\ mainBal' = mid.main - bounty + toProtoP
         /\ protocolTreasury' = mid.treasury + toProtoP
         /\ UNCHANGED slashBonds
      \/ TrySettlement(t, vs, mid)
  BY DEF EnforceVerifierTimeout, slashRecord
<1>3. /\ vs \in [Verifiers -> VerificationType] /\ Panel(vs) = Panel(verifications[t])
      /\ silent = Panel(verifications[t]) => VotesFor(vs, "Approved") = {}
  BY <1>0, SilentRejected
<1>4. Panel(vs) # {}
  BY <1>1, <1>3 DEF Panel, VotesFor
<1>5. revenue \in Nat
  <2>1. \A v \in silent : toProto[v] \in Nat
    <3>1. \A v \in silent : verifications[t][v].stake \in Nat
      BY <1>0, VerificationFields DEF VotesFor
    <3>. QED BY <3>1 DEF TimeoutSlashBps, SlashRevenueBps, BPS
  <2>2. silent \in SUBSET Verifiers
    BY DEF VotesFor
  <2>. HIDE DEF toProto, silent
  <2>. QED BY <1>0, <2>1, <2>2, ForfeitType
<1>6. mid.main = mainBal + revenue /\ mid.treasury = protocolTreasury + revenue
  OBVIOUS
<1>7. toProtoP \in Nat
  <2>1. SlashRevenueBps \in 0 .. BPS /\ TimeoutSlashBps \in 0 .. BPS
    BY DEF SlashRevenueBps, TimeoutSlashBps, BPS
  <2>. QED BY <1>0, <2>1, AssignmentFields, BpsType
<1>8. Owed(t) = bounty /\ bounty \in Nat /\ slashBonds[t] = 0
  BY <1>0, <1>1, TaskFields DEF Owed, Escrowed, Live, BondCovered
<1>. HIDE DEF vs, revenue, mid, silent, toProtoP
<1>9. mid.main \in Int /\ mid.treasury \in Nat /\ mid.main - mid.treasury = mainBal - protocolTreasury
  BY <1>5, <1>6 DEF MainInv
<1>10. CASE /\ silent = Panel(verifications[t])
            /\ status' = [status EXCEPT ![t] = "Disputed"]
            /\ mainBal' = mid.main - bounty + toProtoP
            /\ protocolTreasury' = mid.treasury + toProtoP
            /\ UNCHANGED slashBonds
  <2>1. status'[t] = "Disputed" /\ verifications'[t] = vs
    BY <1>0, <1>1, <1>10 DEF TypeOK
  <2>2. Owed(t)' = 0
    BY <1>3, <1>8, <1>10, <2>1 DEF Owed, Escrowed, Tied, Live
  <2>. HIDE DEF bounty
  <2>. QED BY <1>7, <1>8, <1>9, <1>10, <2>2 DEF Covered, MainInv
<1>11. CASE TrySettlement(t, vs, mid)
  <2>1. /\ protocolTreasury' \in Nat /\ mainBal' \in Int
        /\ mainBal' - protocolTreasury' - Owed(t)' >= mid.main - mid.treasury - Owed(t)
    BY <1>1, <1>3, <1>4, <1>9, <1>11, SettlementCovered
  <2>. QED BY <1>9, <2>1 DEF Covered
<1>. QED BY <1>2, <1>10, <1>11

\* The ways out of the auction and of an abandoned task give the bounty back, once.
LEMMA RefundCovered ==
  ASSUME OrderlyInv, MainInv, NEW t \in TaskIds,
         \/ CancelTask(t) \/ AbandonVerification(t) \/ EnforceDeliveredTimeout(t)
         \/ EmergencyWithdrawBounty(t)
  PROVE  Covered(t)
<1>. DEFINE bounty == task[t].bounty
<1>0. TypeOK /\ bounty \in Nat /\ slashBonds[t] \in Nat
  BY TaskFields, NatTime DEF OrderlyInv, PanelInv, LifecycleInv
<1>1. /\ status[t] \in Live /\ status'[t] = "Cancelled"
      /\ mainBal' = mainBal - bounty
      /\ UNCHANGED <<protocolTreasury, slashBonds>>
  <2>1. CASE CancelTask(t)
    BY <1>0, <2>1 DEF TypeOK, CancelTask, MayCancel, Live, slashRecord
  <2>2. CASE AbandonVerification(t)
    BY <1>0, <2>2 DEF TypeOK, AbandonVerification, Live, slashRecord
  <2>3. CASE EnforceDeliveredTimeout(t)
    BY <1>0, <2>3 DEF TypeOK, EnforceDeliveredTimeout, Live, slashRecord
  <2>4. CASE EmergencyWithdrawBounty(t)
    BY <1>0, <2>4 DEF TypeOK, EmergencyWithdrawBounty, BeforeCompletion, Unsettled, Live, slashRecord
  <2>. QED BY <2>1, <2>2, <2>3, <2>4
<1>2. Owed(t) = slashBonds[t] + bounty /\ Owed(t)' = slashBonds[t]
  BY <1>0, <1>1 DEF Owed, Escrowed, Tied, Live
<1>. HIDE DEF bounty
<1>. QED BY <1>0, <1>1, <1>2 DEF Covered, MainInv

\* A step of the auction, a delivery and a registration move nothing of Main's.
LEMMA WorkCovered ==
  ASSUME OrderlyInv, TypeOK', MainInv, NEW t \in TaskIds,
         \/ \E a \in Agents : RevealBid(t, a) \/ \E offer \in Offers : CommitBid(t, a, offer)
         \/ ResolveAuction(t)
         \/ DeliverTask(t)
         \/ \E v \in Verifiers, stake \in VerifierStakes : RegisterVerifier(t, v, stake)
         \/ EmergencyWithdrawStake(t)
  PROVE  Covered(t)
<1>0. TypeOK /\ InPhase(t) /\ OrderedTimes(t)
  BY DEF OrderlyInv, PanelInv, LifecycleInv, Sound
<1>1. ASSUME NEW a \in Agents, RevealBid(t, a) PROVE Covered(t)
  <2>1. /\ Unmoved /\ UNCHANGED <<task, slashBonds, verifications>>
        /\ status'[t] = (IF status[t] = "Open" THEN "BidReveal" ELSE status[t])
    BY <1>0, <1>1 DEF TypeOK, RevealBid, StatusAfterReveal, Unmoved, slashRecord, panelRecord
  <2>. QED BY <1>0, <2>1, UnmovedMain DEF Owed, Escrowed, Tied, Live
<1>2. ASSUME NEW a \in Agents, NEW offer \in Offers, CommitBid(t, a, offer) PROVE Covered(t)
  <2>1. Unmoved /\ UNCHANGED <<task, slashBonds, verifications, status>>
    BY <1>2 DEF CommitBid, Unmoved, slashRecord, panelRecord, balances
  <2>. QED BY <1>0, <2>1, UnmovedMain DEF Owed, Escrowed, Tied
<1>3. CASE ResolveAuction(t)
  <2>1. /\ Unmoved /\ UNCHANGED <<task, slashBonds>>
        /\ status[t] \in Live /\ status'[t] \in Live
    BY <1>0, <1>3 DEF TypeOK, ResolveAuction, Unmoved, slashRecord, Live
  <2>. QED BY <1>0, <2>1, UnmovedMain DEF Owed, Escrowed
<1>4. CASE DeliverTask(t)
  <2>1. /\ Unmoved /\ UNCHANGED <<task, slashBonds>>
        /\ status[t] \in Live /\ status'[t] \in Live
    BY <1>0, <1>4 DEF TypeOK, DeliverTask, Unmoved, slashRecord, balances, Live
  <2>. QED BY <1>0, <2>1, UnmovedMain DEF Owed, Escrowed
<1>5. ASSUME NEW v \in Verifiers, NEW stake \in VerifierStakes, RegisterVerifier(t, v, stake)
      PROVE  Covered(t)
  <2>1. /\ Unmoved /\ UNCHANGED <<task, slashBonds>>
        /\ status[t] \in Live /\ status'[t] \in Live
    BY <1>0, <1>5 DEF TypeOK, RegisterVerifier, Reviewable, Unmoved, slashRecord, Live
  <2>. QED BY <1>0, <2>1, UnmovedMain DEF Owed, Escrowed
<1>6. CASE EmergencyWithdrawStake(t)
  <2>1. Unmoved /\ UNCHANGED <<task, slashBonds, verifications, status>>
    BY <1>6 DEF EmergencyWithdrawStake, Unmoved, slashRecord, panelRecord
  <2>. QED BY <1>0, <2>1, UnmovedMain DEF Owed, Escrowed, Tied
<1>. QED BY <1>1, <1>2, <1>3, <1>4, <1>5, <1>6

\* A missed deadline gives the bounty back.
LEMMA EnforceDeadlineCovered ==
  ASSUME OrderlyInv, MainInv, NEW t \in TaskIds, EnforceDeadline(t)
  PROVE  Covered(t)
<1>. DEFINE bounty == task[t].bounty
<1>0. /\ TypeOK /\ BondCovered(t) /\ verifications[t] \in [Verifiers -> VerificationType]
      /\ bounty \in Nat
  BY PanelType, TaskFields DEF OrderlyInv, PanelInv, LifecycleInv, Sound
<1>1. PICK severity \in {"Material", "Late"} : SettleFailure(t, verifications[t], severity, Ledger)
  BY DEF EnforceDeadline
<1>2. status[t] = "Assigned" /\ UNCHANGED <<task, verifications>>
  BY DEF EnforceDeadline, panelRecord
<1>3. Ledger.main = mainBal /\ Ledger.treasury = protocolTreasury
  BY DEF Ledger
<1>4. severity \in DOMAIN SlashBps
  BY DEF SlashBps
<1>5. Ledger.main \in Int /\ Ledger.treasury \in Nat
  BY <1>3 DEF MainInv
<1>6. /\ protocolTreasury' \in Nat /\ mainBal' \in Int
      /\ mainBal' - protocolTreasury' = Ledger.main - Ledger.treasury - bounty
  BY <1>0, <1>1, <1>4, <1>5, FailureCovered
<1>7. status'[t] = "Failed" /\ slashBonds' = slashBonds
  BY <1>0, <1>1, SettleFailureEffect
<1>8. Owed(t) = bounty /\ Owed(t)' = 0
  BY <1>0, <1>2, <1>7 DEF Owed, Escrowed, Tied, Live, BondCovered
<1>. HIDE DEF bounty
<1>. QED BY <1>0, <1>3, <1>5, <1>6, <1>8 DEF Covered

\* A slashed bond is split between the poster, the treasury and the agent.
LEMMA PostCompletionSlashCovered ==
  ASSUME OrderlyInv, MainInv, NEW t \in TaskIds, NEW severity \in Severities,
         PostCompletionSlash(t, severity)
  PROVE  Covered(t)
<1>. DEFINE bond == slashBonds[t]
            slashAmount == Bps(bond, SlashBps[severity])
            toProtocol == (bond * SlashBps[severity] * SlashRevenueBps) \div (BPS * BPS)
<1>0. TypeOK /\ bond \in Nat
  BY NatTime DEF OrderlyInv, PanelInv, LifecycleInv
<1>1. /\ status[t] = "Completed" /\ status'[t] = "Failed" /\ slashBonds'[t] = 0
      /\ protocolTreasury' = protocolTreasury + toProtocol
      /\ mainBal' = mainBal - (slashAmount - toProtocol) - (bond - slashAmount)
  BY <1>0 DEF TypeOK, PostCompletionSlash, TakeBond
<1>2. /\ \A n \in 0 .. BPS : n \in Nat
      /\ SlashBps[severity] \in 0 .. BPS
  <2>1. severity \in DOMAIN SlashBps
    BY ConstantsAssumption DEF ConstantsAssumption
  <2>2. \A n \in 0 .. BPS : n \in Nat
    BY DEF BPS
  <2>. QED BY <2>1, <2>2, SeverityShare
<1>3. slashAmount \in Nat
  BY <1>0, <1>2, BpsType
<1>4. toProtocol \in Nat
  <2>. DEFINE amount == bond * SlashBps[severity] * 1000
  <2>1. SlashBps[severity] \in Nat
    BY <1>2
  <2>2. amount \in Nat
    BY <1>0, <2>1
  <2>3. toProtocol = amount \div (10000 * 10000)
    BY DEF SlashRevenueBps, BPS
  <2>. HIDE DEF amount
  <2>. QED BY <2>2, <2>3
<1>5. Owed(t) = bond /\ Owed(t)' = 0
  BY <1>0, <1>1 DEF Owed, Escrowed, Tied, Live
<1>. HIDE DEF bond, slashAmount, toProtocol
<1>. QED BY <1>0, <1>1, <1>3, <1>4, <1>5 DEF Covered, MainInv

\* A claimed bond is the agent's.
LEMMA ClaimSlashBondCovered ==
  ASSUME OrderlyInv, MainInv, NEW t \in TaskIds, ClaimSlashBond(t)
  PROVE  Covered(t)
<1>0. TypeOK /\ slashBonds[t] \in Nat
  BY NatTime DEF OrderlyInv, PanelInv, LifecycleInv
<1>1. /\ status[t] = "Completed" /\ status'[t] = "Completed" /\ slashBonds'[t] = 0
      /\ mainBal' = mainBal - slashBonds[t] /\ UNCHANGED protocolTreasury
  BY <1>0 DEF TypeOK, ClaimSlashBond, TakeBond
<1>2. Owed(t) = slashBonds[t] /\ Owed(t)' = 0
  BY <1>0, <1>1 DEF Owed, Escrowed, Tied, Live
<1>. QED BY <1>0, <1>1, <1>2 DEF Covered, MainInv

\* A new task brings its bounty.
LEMMA CreateTaskCovered ==
  ASSUME OrderlyInv, MainInv, NEW p \in Posters, NEW terms \in Terms, CreateTask(p, terms),
         NEW t \in TaskIds, t = taskCount
  PROVE  Covered(t)
<1>0. /\ TypeOK /\ Orderly(t) /\ InPhase(t) /\ BondCovered(t)
      /\ taskCount \in Nat /\ terms.bounty \in Nat
  BY NatTime, ConstantsAssumption
     DEF OrderlyInv, PanelInv, LifecycleInv, Sound, CreateTask, ConstantsAssumption
<1>1. /\ status'[t] = "Open" /\ task'[t].bounty = terms.bounty
      /\ mainBal' = mainBal + terms.bounty /\ UNCHANGED <<protocolTreasury, slashBonds>>
  BY <1>0 DEF TypeOK, CreateTask, slashRecord
<1>2. status[t] = "Open" /\ task[t].bounty = 0 /\ slashBonds[t] = 0
  BY <1>0 DEF Created, InPhase, Orderly, BondCovered
<1>3. Owed(t) = 0 /\ Owed(t)' = terms.bounty
  BY <1>0, <1>1, <1>2 DEF Owed, Escrowed, Live
<1>. QED BY <1>0, <1>1, <1>3 DEF Covered, MainInv

LEMMA TaskStepCovered ==
  ASSUME OrderlyInv, TypeOK', MainInv, NEW t \in TaskIds, TaskStep(t)
  PROVE  Covered(t)
BY SubmitVerificationCovered, EnforceVerifierTimeoutCovered, RefundCovered, WorkCovered,
   EnforceDeadlineCovered, PostCompletionSlashCovered, ClaimSlashBondCovered DEF TaskStep

\* A step about no task leaves what is owed, and pays out at most the treasury.
LEMMA OtherStepMain ==
  ASSUME TypeOK, MainInv, OtherStep
  PROVE  MainInv'
<1>. DEFINE owed == [q \in TaskIds |-> Owed(q)]
            total == SumFunctionOnSet(owed, TaskIds)
<1>1. owed' = owed
  BY OtherStepKeeps, KeptIsOwed
<1>2. total' = total
  BY <1>1
<1>3. total \in Int
  <2>1. \A q \in TaskIds : owed[q] \in Int
    BY OwedType
  <2>. HIDE DEF owed
  <2>. QED BY <2>1, FiniteTasks, SumInt
<1>4. \/ UNCHANGED <<mainBal, protocolTreasury>>
      \/ protocolTreasury' = 0 /\ mainBal' = mainBal - protocolTreasury
  BY DEF OtherStep, Tick, WithdrawProtocolFees, Pause, Unpause, UnbanAgent, vars, balances
<1>5. /\ protocolTreasury \in Nat /\ mainBal \in Int /\ mainBal >= protocolTreasury + total
  BY DEF MainInv
<1>. HIDE DEF total
<1>6. protocolTreasury' \in Nat /\ mainBal' \in Int /\ mainBal' >= protocolTreasury' + total'
  BY <1>2, <1>3, <1>4, <1>5
<1>. QED BY <1>6 DEF MainInv, total

LEMMA MainStep ==
  ASSUME OrderlyInv, MainInv, [Next]_vars
  PROVE  MainInv'
<1>0. TypeOK /\ TypeOK'
  BY OrderlyStep DEF OrderlyInv, PanelInv, LifecycleInv
<1>1. CASE OtherStep
  BY <1>0, <1>1, OtherStepMain
<1>2. ASSUME NEW p \in Posters, NEW terms \in Terms, CreateTask(p, terms) PROVE MainInv'
  <2>. PICK t \in TaskIds : t = taskCount
    BY <1>2 DEF CreateTask
  <2>1. \A q \in TaskIds \ {t} : Owed(q)' = Owed(q)
    BY <1>0, <1>2, CreateTaskKeeps, KeptIsOwed
  <2>. QED BY <1>0, <1>2, <2>1, CreateTaskCovered, CoveredMain
<1>3. ASSUME NEW t \in TaskIds, TaskStep(t) PROVE MainInv'
  <2>1. \A q \in TaskIds \ {t} : Owed(q)' = Owed(q)
    BY <1>0, <1>3, TaskStepKeeps, KeptIsOwed
  <2>. QED BY <1>0, <1>3, <2>1, TaskStepCovered, CoveredMain
<1>. QED BY <1>1, <1>2, <1>3, StepCases

LEMMA MainStart == Init => MainInv
<1>. SUFFICES ASSUME Init PROVE MainInv
  OBVIOUS
<1>. DEFINE owed == [q \in TaskIds |-> Owed(q)]
<1>1. \A q \in TaskIds : owed[q] = 0
  BY DEF Init, Owed, Escrowed, Live, NoTask
<1>2. SumFunctionOnSet(owed, TaskIds) = 0
  <2>. HIDE DEF owed
  <2>. QED BY <1>1, FiniteTasks, SumZero
<1>. QED BY <1>2 DEF Init, MainInv

\* Only tasks that exist are owed for.
LEMMA MainInvSolvent ==
  ASSUME OrderlyInv, MainInv
  PROVE  MainSolvent
<1>. DEFINE owed == [q \in TaskIds |-> Owed(q)]
            seen == [q \in AllCreated |-> Owed(q)]
<1>0. TypeOK /\ AllCreated \in SUBSET TaskIds
  BY DEF OrderlyInv, PanelInv, LifecycleInv, AllCreated
<1>1. \A q \in TaskIds : owed[q] \in Int /\ (q \notin AllCreated => owed[q] = 0)
  <2>. SUFFICES ASSUME NEW q \in TaskIds PROVE owed[q] \in Int /\ (~Created(q) => owed[q] = 0)
    BY DEF AllCreated
  <2>1. Owed(q) \in Nat
    BY <1>0, OwedType
  <2>2. ~Created(q) => Owed(q) = 0
    BY DEF OrderlyInv, PanelInv, LifecycleInv, Sound, Orderly, InPhase, BondCovered, Owed
  <2>. QED BY <2>1, <2>2
<1>2. \A q \in AllCreated : seen[q] = owed[q]
  BY <1>0
<1>3. SumFunctionOnSet(owed, TaskIds) = SumFunctionOnSet(seen, AllCreated)
  <2>1. IsFiniteSet(AllCreated)
    BY <1>0, FiniteTasks, FS_Subset
  <2>. HIDE DEF owed, seen
  <2>2. SumFunctionOnSet(owed, TaskIds) = SumFunctionOnSet(owed, AllCreated)
    BY <1>0, <1>1, FiniteTasks, SumSupport
  <2>3. SumFunctionOnSet(owed, AllCreated) = SumFunctionOnSet(seen, AllCreated)
    BY <1>0, <1>1, <1>2, <2>1, SumSame
  <2>. QED BY <2>2, <2>3
<1>4. SumOver(AllCreated, LAMBDA t : slashBonds[t] + (IF Escrowed(t) THEN task[t].bounty ELSE 0))
        = SumFunctionOnSet(seen, AllCreated)
  BY DEF SumOver, Owed
<1>. QED BY <1>3, <1>4 DEF MainInv, MainSolvent

\* The money of Main: every bounty in escrow, every slash bond and the treasury are
\* there, whatever the fees, slashes and timeouts, for any number of tasks at once.
THEOREM MainAlwaysSolvent == Spec => []MainSolvent
<1>1. Init => OrderlyInv /\ MainInv
  BY OrderlyInit, MainStart
<1>2. OrderlyInv /\ MainInv /\ [Next]_vars => (OrderlyInv /\ MainInv)'
  BY OrderlyStep, MainStep
<1>3. OrderlyInv /\ MainInv => MainSolvent
  BY MainInvSolvent
<1>. QED BY <1>1, <1>2, <1>3, PTL DEF Spec

-----------------------------------------------------------------------------
(* The auction holds exactly the stakes *)

\* The stakes that task t keeps, and what the two contracts hold of them in all.
TaskHeld(t) == SumFunctionOnSet([x \in Address |-> Held(t, x)], Address)
StakesInv ==
  /\ auctionBal = SumFunctionOnSet([t \in TaskIds |-> TaskHeld(t)], TaskIds)
  /\ \A x \in Address :
       agentActiveStake[x] = SumFunctionOnSet([t \in TaskIds |-> Held(t, x)], TaskIds)

\* Task t returns or slashes the stakes out and takes in the stakes in, and both
\* contracts book it.
Moved(t, out, in) ==
  /\ \A x \in Address :
       /\ out[x] \in Int /\ in[x] \in Int
       /\ agentActiveStake'[x] = agentActiveStake[x] - out[x] + in[x]
       /\ Held(t, x)' = Held(t, x) - out[x] + in[x]
  /\ auctionBal' = auctionBal - SumFunctionOnSet(out, Address) + SumFunctionOnSet(in, Address)

\* What moves: nothing, the stake n of one address, the stakes f of the addresses in
\* S, or what the agent of assignment a and the panel vs have at stake.
Nothing == [x \in Address |-> 0]
StakeOf(addr, n) == [x \in Address |-> IF x = addr THEN n ELSE 0]
StakesOf(f, S) == [x \in Address |-> IF x \in S THEN f[x].stake ELSE 0]
WorkStakes(a, vs) ==
  [x \in Address |-> StakeOf(a.agent, a.stake)[x] + StakesOf(vs, Panel(vs))[x]]

LEMMA NothingSum == (\A x \in Address : Nothing[x] = 0) /\ SumFunctionOnSet(Nothing, Address) = 0
<1>1. \A x \in Address : Nothing[x] = 0
  BY DEF Nothing
<1>. QED BY <1>1, FiniteTasks, SumZero

LEMMA StakeOfSum ==
  ASSUME NEW addr \in Address, NEW n \in Int
  PROVE  SumFunctionOnSet(StakeOf(addr, n), Address) = n
BY FiniteTasks, SumSingle DEF StakeOf

LEMMA StakesOfSum ==
  ASSUME NEW f, NEW S \in SUBSET Address, \A x \in S : f[x].stake \in Int
  PROVE  SumFunctionOnSet(StakesOf(f, S), Address) = StakeSum(f, S)
<1>. DEFINE fun == [x \in S |-> f[x].stake]
            gun == StakesOf(f, S)
<1>1. \A x \in S : fun[x] \in Int /\ gun[x] = fun[x]
  BY DEF StakesOf
<1>2. \A x \in Address \ S : gun[x] = 0
  BY DEF StakesOf
<1>. HIDE DEF fun, gun
<1>3. SumFunctionOnSet(gun, Address) = SumFunctionOnSet(fun, S)
  BY <1>1, <1>2, FiniteTasks, SumWhere
<1>. QED BY <1>3 DEF fun, gun, StakeSum

LEMMA WorkStakesSum ==
  ASSUME NEW a, a.agent \in Address, a.stake \in Nat, NEW vs \in [Verifiers -> VerificationType]
  PROVE  /\ \A x \in Address : WorkStakes(a, vs)[x] \in Int
         /\ SumFunctionOnSet(WorkStakes(a, vs), Address) = a.stake + StakeSum(vs, Panel(vs))
<1>. DEFINE fun == StakeOf(a.agent, a.stake)
            gun == StakesOf(vs, Panel(vs))
            hun == WorkStakes(a, vs)
<1>0. Panel(vs) \in SUBSET Address /\ \A x \in Panel(vs) : vs[x].stake \in Int
  BY VerificationFields DEF Panel, Address
<1>1. \A x \in Address : fun[x] \in Int /\ gun[x] \in Int
  BY <1>0 DEF StakeOf, StakesOf
<1>2. \A x \in Address : hun[x] = fun[x] + gun[x]
  BY DEF WorkStakes
<1>3. SumFunctionOnSet(fun, Address) = a.stake
  BY StakeOfSum
<1>4. SumFunctionOnSet(gun, Address) = StakeSum(vs, Panel(vs))
  BY <1>0, StakesOfSum
<1>. HIDE DEF fun, gun, hun
<1>5. SumFunctionOnSet(hun, Address) = SumFunctionOnSet(fun, Address) + SumFunctionOnSet(gun, Address)
  BY <1>1, <1>2, FiniteTasks, SumPlus
<1>6. SumFunctionOnSet(hun, Address) = a.stake + StakeSum(vs, Panel(vs))
  BY <1>3, <1>4, <1>5
<1>7. \A x \in Address : hun[x] \in Int
  BY <1>1, <1>2
<1>. QED BY <1>6, <1>7 DEF hun

LEMMA HeldType ==
  ASSUME TypeOK, NEW t \in TaskIds
  PROVE  TaskHeld(t) \in Nat /\ \A x \in Address : Held(t, x) \in Nat
<1>. DEFINE held == [x \in Address |-> Held(t, x)]
<1>1. ASSUME NEW x \in Address PROVE Held(t, x) \in Nat
  <2>1. BidHeld(t, x) \in Nat
    BY BidFields DEF BidHeld
  <2>2. AgentHeld(t, x) \in Nat
    BY AssignmentFields DEF AgentHeld
  <2>3. VerifierHeld(t, x) \in Nat
    BY PanelType, VerificationFields DEF VerifierHeld
  <2>. QED BY <2>1, <2>2, <2>3 DEF Held
<1>2. \A x \in Address : held[x] \in Nat
  BY <1>1
<1>3. SumFunctionOnSet(held, Address) \in Nat
  <2>. HIDE DEF held
  <2>. QED BY <1>2, FiniteTasks, SumNat
<1>. QED BY <1>1, <1>3 DEF TaskHeld

\* Stakes move with one task only, and by the same amounts on both contracts.
LEMMA MovedStakes ==
  ASSUME TypeOK, StakesInv, NEW t \in TaskIds, NEW out, NEW in, Moved(t, out, in),
         \A q \in TaskIds \ {t} : \A x \in Address : Held(q, x)' = Held(q, x)
  PROVE  StakesInv'
<1>. DEFINE row == [x \in Address |-> Held(t, x)]
            row2 == [x \in Address |-> Held(t, x)']
            sum == [x \in Address |-> Held(t, x) + in[x]]
<1>0. \A x \in Address : Held(t, x) \in Nat /\ out[x] \in Int /\ in[x] \in Int
                         /\ Held(t, x)' = Held(t, x) - out[x] + in[x]
  BY HeldType DEF Moved
<1>1. SumFunctionOnSet(row2, Address) = SumFunctionOnSet(row, Address)
        - SumFunctionOnSet(out, Address) + SumFunctionOnSet(in, Address)
  <2>1. \A x \in Address : /\ row[x] \in Int /\ in[x] \in Int /\ sum[x] = row[x] + in[x]
                           /\ row2[x] \in Int /\ out[x] \in Int /\ sum[x] = row2[x] + out[x]
    BY <1>0
  <2>. HIDE DEF row, row2, sum
  <2>2. SumFunctionOnSet(sum, Address) = SumFunctionOnSet(row, Address) + SumFunctionOnSet(in, Address)
    BY <2>1, FiniteTasks, SumPlus
  <2>3. SumFunctionOnSet(sum, Address) = SumFunctionOnSet(row2, Address) + SumFunctionOnSet(out, Address)
    BY <2>1, FiniteTasks, SumPlus
  <2>4. /\ SumFunctionOnSet(row, Address) \in Int /\ SumFunctionOnSet(in, Address) \in Int
        /\ SumFunctionOnSet(row2, Address) \in Int /\ SumFunctionOnSet(out, Address) \in Int
    BY <2>1, FiniteTasks, SumInt
  <2>. QED BY <2>2, <2>3, <2>4
<1>2. TaskHeld(t)' = SumFunctionOnSet(row2, Address) /\ TaskHeld(t) = SumFunctionOnSet(row, Address)
  BY DEF TaskHeld
<1>3. \A q \in TaskIds \ {t} : TaskHeld(q)' = TaskHeld(q)
  <2>. TAKE q \in TaskIds \ {t}
  <2>1. [x \in Address |-> Held(q, x)'] = [x \in Address |-> Held(q, x)]
    OBVIOUS
  <2>. QED BY <2>1 DEF TaskHeld
<1>. DEFINE all == [q \in TaskIds |-> TaskHeld(q)]
            all2 == [q \in TaskIds |-> TaskHeld(q)']
<1>4. auctionBal' = SumFunctionOnSet(all2, TaskIds)
  <2>1. /\ \A q \in TaskIds : all[q] \in Int
        /\ all[t] = TaskHeld(t) /\ all2[t] = TaskHeld(t)'
        /\ \A q \in TaskIds \ {t} : all2[q] = all[q]
    BY <1>3, HeldType
  <2>2. \A x \in Address : row[x] \in Int /\ row2[x] \in Int /\ out[x] \in Int /\ in[x] \in Int
    BY <1>0
  <2>. HIDE DEF row, row2, all, all2
  <2>3. /\ SumFunctionOnSet(row, Address) \in Int /\ SumFunctionOnSet(in, Address) \in Int
        /\ SumFunctionOnSet(row2, Address) \in Int /\ SumFunctionOnSet(out, Address) \in Int
    BY <2>2, FiniteTasks, SumInt
  <2>4. TaskHeld(t)' \in Int
    BY <1>2, <2>3
  <2>5. SumFunctionOnSet(all2, TaskIds) = SumFunctionOnSet(all, TaskIds) - all[t] + all2[t]
    BY <2>1, <2>4, FiniteTasks, SumUpdate
  <2>6. SumFunctionOnSet(all, TaskIds) \in Int
    BY <2>1, FiniteTasks, SumInt
  <2>7. auctionBal = SumFunctionOnSet(all, TaskIds)
    BY DEF StakesInv, all
  <2>8. auctionBal' = auctionBal - SumFunctionOnSet(out, Address) + SumFunctionOnSet(in, Address)
    BY DEF Moved
  <2>. QED BY <1>1, <1>2, <2>1, <2>3, <2>5, <2>6, <2>7, <2>8
<1>5. ASSUME NEW x \in Address
      PROVE  agentActiveStake'[x] = SumFunctionOnSet([q \in TaskIds |-> Held(q, x)'], TaskIds)
  <2>. DEFINE col == [q \in TaskIds |-> Held(q, x)]
              col2 == [q \in TaskIds |-> Held(q, x)']
  <2>1. /\ \A q \in TaskIds : col[q] \in Int
        /\ col[t] = Held(t, x) /\ col2[t] = Held(t, x)' /\ Held(t, x)' \in Int
        /\ \A q \in TaskIds \ {t} : col2[q] = col[q]
    BY <1>0, HeldType
  <2>. HIDE DEF col, col2
  <2>2. SumFunctionOnSet(col2, TaskIds) = SumFunctionOnSet(col, TaskIds) - col[t] + col2[t]
    <3>1. /\ IsFiniteSet(TaskIds) /\ \A q \in TaskIds : col[q] \in Int
          /\ col2[t] \in Int /\ \A q \in TaskIds \ {t} : col2[q] = col[q]
      BY <2>1, FiniteTasks
    <3>. QED BY <3>1, SumUpdate
  <2>3. SumFunctionOnSet(col, TaskIds) \in Int
    BY <2>1, FiniteTasks, SumInt
  <2>4. agentActiveStake[x] = SumFunctionOnSet(col, TaskIds)
    BY DEF StakesInv, col
  <2>5. agentActiveStake'[x] = agentActiveStake[x] - out[x] + in[x]
    BY DEF Moved
  <2>6. agentActiveStake'[x] = SumFunctionOnSet(col2, TaskIds)
    BY <1>0, <2>1, <2>2, <2>3, <2>4, <2>5
  <2>. QED BY <2>6 DEF col2
<1>. QED BY <1>4, <1>5 DEF StakesInv

-----------------------------------------------------------------------------
LEMMA StakeTypes ==
  ASSUME TypeOK, StakesInv, NEW t \in TaskIds
  PROVE  /\ auctionBal \in Int
         /\ \A x \in Address : agentActiveStake[x] \in Int /\ Held(t, x) \in Int
<1>1. \A x \in Address : agentActiveStake[x] \in Int
  BY DEF TypeOK
<1>2. \A x \in Address : Held(t, x) \in Nat
  BY HeldType
<1>3. auctionBal \in Int
  <2>. DEFINE all == [q \in TaskIds |-> TaskHeld(q)]
  <2>1. \A q \in TaskIds : all[q] \in Int
    BY HeldType
  <2>2. auctionBal = SumFunctionOnSet(all, TaskIds)
    BY DEF StakesInv
  <2>. HIDE DEF all
  <2>. QED BY <2>1, <2>2, FiniteTasks, SumInt
<1>. QED BY <1>1, <1>2, <1>3

\* A step that returns or slashes stakes, one that takes some in, and one that touches none.
LEMMA OutMoved ==
  ASSUME TypeOK, StakesInv, NEW t \in TaskIds, NEW out,
         \A x \in Address : /\ out[x] \in Int
                            /\ agentActiveStake'[x] = agentActiveStake[x] - out[x]
                            /\ Held(t, x)' = Held(t, x) - out[x],
         auctionBal' = auctionBal - SumFunctionOnSet(out, Address)
  PROVE  Moved(t, out, Nothing)
<1>1. SumFunctionOnSet(out, Address) \in Int
  BY FiniteTasks, SumInt
<1>2. \A x \in Address : /\ agentActiveStake[x] - out[x] = agentActiveStake[x] - out[x] + Nothing[x]
                         /\ Held(t, x) - out[x] = Held(t, x) - out[x] + Nothing[x]
                         /\ Nothing[x] \in Int
  BY StakeTypes, NothingSum
<1>. QED BY <1>1, <1>2, StakeTypes, NothingSum DEF Moved

LEMMA InMoved ==
  ASSUME TypeOK, StakesInv, NEW t \in TaskIds, NEW addr \in Address, NEW n \in Nat,
         agentActiveStake' = [agentActiveStake EXCEPT ![addr] = @ + n],
         auctionBal' = auctionBal + n,
         Held(t, addr)' = Held(t, addr) + n,
         \A x \in Address \ {addr} : Held(t, x)' = Held(t, x)
  PROVE  Moved(t, Nothing, StakeOf(addr, n))
<1>. DEFINE in == StakeOf(addr, n)
<1>1. /\ \A x \in Address : in[x] = IF x = addr THEN n ELSE 0
      /\ SumFunctionOnSet(in, Address) = n
  BY StakeOfSum DEF StakeOf
<1>2. \A x \in Address : agentActiveStake'[x] = IF x = addr THEN agentActiveStake[x] + n
                                                ELSE agentActiveStake[x]
  BY DEF TypeOK
<1>. HIDE DEF in
<1>3. ASSUME NEW x \in Address
      PROVE  /\ Nothing[x] \in Int /\ in[x] \in Int
             /\ agentActiveStake'[x] = agentActiveStake[x] - Nothing[x] + in[x]
             /\ Held(t, x)' = Held(t, x) - Nothing[x] + in[x]
  <2>1. /\ Nothing[x] = 0 /\ agentActiveStake[x] \in Int /\ Held(t, x) \in Int
        /\ in[x] = IF x = addr THEN n ELSE 0
    BY <1>1, StakeTypes, NothingSum
  <2>2. CASE x = addr
    BY <1>2, <2>1, <2>2
  <2>3. CASE x # addr
    BY <1>2, <2>1, <2>3
  <2>. QED BY <2>2, <2>3
<1>4. auctionBal' = auctionBal - SumFunctionOnSet(Nothing, Address) + SumFunctionOnSet(in, Address)
  BY <1>1, StakeTypes, NothingSum
<1>. QED BY <1>3, <1>4 DEF Moved, in

LEMMA StillMoved ==
  ASSUME TypeOK, StakesInv, NEW t \in TaskIds, UNCHANGED <<agentActiveStake, auctionBal>>,
         \A x \in Address : Held(t, x)' = Held(t, x)
  PROVE  Moved(t, Nothing, Nothing)
<1>1. \A x \in Address : /\ Nothing[x] \in Int
                         /\ agentActiveStake'[x] = agentActiveStake[x] - Nothing[x]
                         /\ Held(t, x)' = Held(t, x) - Nothing[x]
  BY StakeTypes, NothingSum
<1>2. auctionBal' = auctionBal - SumFunctionOnSet(Nothing, Address)
  BY StakeTypes, NothingSum
<1>. QED BY <1>1, <1>2, OutMoved

\* Who is assigned has an address, and so has who is on the panel; the stakes a task
\* holds at work are those of the two.
LEMMA WorkHeld ==
  ASSUME OrderlyInv, NEW t \in TaskIds, status[t] \in {"Assigned", "Delivered", "Verifying"}
  PROVE  /\ Assigned(t) /\ assignment[t].agent \in Address
         /\ \A x \in Address : Held(t, x) = WorkStakes(assignment[t], verifications[t])[x]
<1>0. TypeOK /\ InPhase(t) /\ Orderly(t)
  BY DEF OrderlyInv, PanelInv, LifecycleInv, Sound
<1>1. Assigned(t) /\ assignment[t].agent \in Address
  BY <1>0, AssignmentFields DEF InPhase, Assigned, Address
<1>2. ASSUME NEW x \in Address
      PROVE  Held(t, x) = WorkStakes(assignment[t], verifications[t])[x]
  <2>1. BidHeld(t, x) = 0 /\ Working(t)
    BY <1>1 DEF BidHeld, Working
  <2>2. AgentHeld(t, x) = StakeOf(assignment[t].agent, assignment[t].stake)[x]
    BY <2>1 DEF AgentHeld, StakeOf
  <2>3. VerifierHeld(t, x) = StakesOf(verifications[t], Panel(verifications[t]))[x]
    BY <1>0, <2>1 DEF VerifierHeld, StakesOf, Panel, Orderly
  <2>4. AgentHeld(t, x) \in Nat /\ VerifierHeld(t, x) \in Nat
    BY <1>0, AssignmentFields, PanelType, VerificationFields DEF AgentHeld, VerifierHeld
  <2>. QED BY <2>1, <2>2, <2>3, <2>4 DEF Held, WorkStakes
<1>. QED BY <1>1, <1>2

\* What a settlement releases, it has paid: everything at stake in the task.
LEMMA ReleasedStakes ==
  ASSUME TypeOK, NEW t \in TaskIds, NEW vs \in [Verifiers -> VerificationType],
         NEW stake \in [Address -> Int], NEW x \in Address
  PROVE  Released(t, vs, stake)[x] = stake[x] - WorkStakes(assignment[t], vs)[x]
<1>. DEFINE one == IF x = assignment[t].agent THEN assignment[t].stake ELSE 0
            two == IF x \in Panel(vs) THEN vs[x].stake ELSE 0
<1>1. one \in Int
  BY AssignmentFields
<1>2. two \in Int
  BY VerificationFields DEF Panel
<1>3. Released(t, vs, stake)[x] = stake[x] - one - two
  BY DEF Released
<1>4. WorkStakes(assignment[t], vs)[x] = one + two
  BY DEF WorkStakes, StakeOf, StakesOf
<1>5. stake[x] \in Int
  OBVIOUS
<1>. HIDE DEF one, two
<1>. QED BY <1>1, <1>2, <1>3, <1>4, <1>5

\* A task whose agent was assigned and that is over holds no stake; one that goes on,
\* or is tied, holds those of the agent and of the panel.
LEMMA HeldAfter ==
  ASSUME NEW t \in TaskIds, NEW vs \in [Verifiers -> VerificationType], NoIdleStake(vs),
         verifications'[t] = vs, Assigned(t), assignment' = assignment,
         TypeOK, NEW x \in Address
  PROVE  /\ Working(t)' => Held(t, x)' = WorkStakes(assignment[t], vs)[x]
         /\ ~Working(t)' => Held(t, x)' = 0
<1>1. BidHeld(t, x)' = 0
  BY DEF BidHeld, Assigned
<1>2. CASE ~Working(t)'
  <2>1. AgentHeld(t, x)' = 0 /\ VerifierHeld(t, x)' = 0
    BY <1>2 DEF AgentHeld, VerifierHeld
  <2>. QED BY <1>1, <1>2, <2>1 DEF Held
<1>3. CASE Working(t)'
  <2>1. AgentHeld(t, x)' = StakeOf(assignment[t].agent, assignment[t].stake)[x]
    BY <1>3 DEF AgentHeld, StakeOf
  <2>2. VerifierHeld(t, x)' = StakesOf(vs, Panel(vs))[x]
    BY <1>3 DEF VerifierHeld, StakesOf, Panel, NoIdleStake
  <2>3. AgentHeld(t, x)' \in Nat /\ VerifierHeld(t, x)' \in Nat
    BY <2>1, <2>2, AssignmentFields, VerificationFields DEF StakeOf, StakesOf, Panel
  <2>. QED BY <1>1, <1>3, <2>1, <2>2, <2>3 DEF Held, WorkStakes
<1>. QED BY <1>2, <1>3

\* A settlement either pays out everything at stake or leaves it.
LEMMA SettlementMoves ==
  ASSUME OrderlyInv, NEW t \in TaskIds, status[t] = "Verifying",
         NEW vs \in [Verifiers -> VerificationType], Panel(vs) # {}, NoIdleStake(vs),
         NEW pre, pre.stake \in [Address -> Int], pre.auction \in Int, TrySettlement(t, vs, pre),
         verifications' = [verifications EXCEPT ![t] = vs], UNCHANGED <<task, assignment>>
  PROVE  \E out \in {Nothing, WorkStakes(assignment[t], vs)} :
           /\ \A x \in Address :
                /\ out[x] \in Int
                /\ agentActiveStake'[x] = pre.stake[x] - out[x]
                /\ Held(t, x)' = WorkStakes(assignment[t], vs)[x] - out[x]
           /\ auctionBal' = pre.auction - SumFunctionOnSet(out, Address)
<1>. DEFINE all == WorkStakes(assignment[t], vs)
<1>0. TypeOK /\ BondCovered(t) /\ Orderly(t)
  BY DEF OrderlyInv, PanelInv, LifecycleInv, Sound
<1>1. /\ Assigned(t) /\ assignment[t].agent \in Address /\ assignment[t].stake \in Nat
      /\ verifications'[t] = vs
  BY <1>0, WorkHeld, AssignmentFields DEF TypeOK
<1>2. /\ \A x \in Address : all[x] \in Int
      /\ SumFunctionOnSet(all, Address) = assignment[t].stake + StakeSum(vs, Panel(vs))
  BY <1>1, WorkStakesSum
<1>3. \A x \in Address : /\ Working(t)' => Held(t, x)' = all[x]
                         /\ ~Working(t)' => Held(t, x)' = 0
  BY <1>0, <1>1, HeldAfter
<1>. HIDE DEF all
<1>4. CASE /\ agentActiveStake' = pre.stake /\ auctionBal' = pre.auction
           /\ \/ UNCHANGED status
              \/ /\ status' = [status EXCEPT ![t] = "Disputed"]
                 /\ VotesFor(vs, "Pending") = {}
                 /\ Cardinality(VotesFor(vs, "Approved")) = Cardinality(VotesFor(vs, "Rejected"))
  <2>1. status'[t] = "Verifying" \/ (status'[t] = "Disputed" /\ VotesFor(vs, "Approved") # {})
    BY <1>0, <1>4, TieHasApproval DEF TypeOK
  <2>2. Working(t)'
    BY <1>1, <2>1 DEF Working, Tied
  <2>3. \A x \in Address :
          /\ Nothing[x] \in Int
          /\ agentActiveStake'[x] = pre.stake[x] - Nothing[x]
          /\ Held(t, x)' = all[x] - Nothing[x]
    <3>. TAKE x \in Address
    <3>1. pre.stake[x] \in Int /\ all[x] \in Int /\ Nothing[x] = 0
      BY <1>2, NothingSum
    <3>. QED BY <1>3, <1>4, <2>2, <3>1
  <2>4. auctionBal' = pre.auction - SumFunctionOnSet(Nothing, Address)
    BY <1>4, NothingSum
  <2>. QED BY <2>3, <2>4 DEF all
<1>5. ASSUME SettleSuccess(t, vs, pre) \/ SettleFailure(t, vs, "Material", pre)
      PROVE  /\ \A x \in Address :
                  /\ agentActiveStake'[x] = pre.stake[x] - all[x]
                  /\ Held(t, x)' = all[x] - all[x]
             /\ auctionBal' = pre.auction - SumFunctionOnSet(all, Address)
  <2>1. status'[t] \in {"Completed", "Failed"}
    BY <1>0, <1>5, SettleSuccessEffect, SettleFailureEffect
  <2>2. ~Working(t)'
    BY <2>1 DEF Working, Tied, EmergencyCancelled
  <2>3. /\ agentActiveStake' = Released(t, vs, pre.stake)
        /\ auctionBal' = pre.auction - assignment[t].stake - StakeSum(vs, Panel(vs))
    BY <1>5 DEF SettleSuccess, SettleFailure
  <2>4. \A x \in Address : agentActiveStake'[x] = pre.stake[x] - all[x]
    BY <1>0, <2>3, ReleasedStakes DEF all
  <2>5. StakeSum(vs, Panel(vs)) \in Int
    <3>1. \A v \in Panel(vs) : vs[v].stake \in Nat
      BY VerificationFields DEF Panel
    <3>2. Panel(vs) \in SUBSET Verifiers
      BY DEF Panel
    <3>. QED BY <3>1, <3>2, ForfeitType DEF StakeSum
  <2>. QED BY <1>1, <1>2, <1>3, <2>2, <2>3, <2>4, <2>5
<1>. QED BY <1>2, <1>4, <1>5 DEF TrySettlement, all

LEMMA SubmitVerificationMoved ==
  ASSUME OrderlyInv, StakesInv, NEW t \in TaskIds, NEW v \in Verifiers,
         NEW vote \in {"Approved", "Rejected"}, SubmitVerification(t, v, vote)
  PROVE  \E out : Moved(t, out, Nothing)
<1>. DEFINE vs == [verifications[t] EXCEPT ![v].vote = vote]
<1>0. TypeOK /\ Orderly(t) /\ verifications[t] \in [Verifiers -> VerificationType]
  BY PanelType DEF OrderlyInv, PanelInv, LifecycleInv
<1>1. /\ status[t] = "Verifying" /\ UNCHANGED <<task, assignment>>
      /\ verifications[t][v].vote = "Pending"
      /\ verifications' = [verifications EXCEPT ![t] = vs] /\ TrySettlement(t, vs, Ledger)
  BY DEF SubmitVerification
<1>2. /\ vs \in [Verifiers -> VerificationType]
      /\ Panel(vs) = Panel(verifications[t]) /\ Panel(vs) # {}
      /\ \A x \in Verifiers : vs[x].stake = verifications[t][x].stake
  <2>1. vs = [verifications[t] EXCEPT ![v].vote = vote]
    OBVIOUS
  <2>. HIDE DEF vs
  <2>. QED BY <1>0, <1>1, <2>1, VoteCast
<1>. HIDE DEF vs
<1>3. NoIdleStake(vs)
  BY <1>0, <1>2 DEF NoIdleStake, Orderly, Panel
<1>4. Ledger.stake = agentActiveStake /\ Ledger.auction = auctionBal
  BY DEF Ledger
<1>5. Ledger.stake \in [Address -> Int] /\ Ledger.auction \in Int
  <2>1. agentActiveStake \in [Address -> Int]
    BY <1>0 DEF TypeOK
  <2>2. auctionBal \in Int
    BY <1>0, StakeTypes
  <2>. QED BY <1>4, <2>1, <2>2
<1>6. PICK out \in {Nothing, WorkStakes(assignment[t], vs)} :
        /\ \A x \in Address :
             /\ out[x] \in Int
             /\ agentActiveStake'[x] = Ledger.stake[x] - out[x]
             /\ Held(t, x)' = WorkStakes(assignment[t], vs)[x] - out[x]
        /\ auctionBal' = Ledger.auction - SumFunctionOnSet(out, Address)
  BY <1>1, <1>2, <1>3, <1>5, SettlementMoves
<1>7. \A x \in Address : Held(t, x) = WorkStakes(assignment[t], vs)[x]
  <2>1. \A x \in Address : WorkStakes(assignment[t], vs)[x]
                             = WorkStakes(assignment[t], verifications[t])[x]
    BY <1>2 DEF WorkStakes, StakesOf, Panel
  <2>. QED BY <1>1, <2>1, WorkHeld
<1>. QED BY <1>0, <1>4, <1>6, <1>7, OutMoved

LEMMA EnforceVerifierTimeoutMoved ==
  ASSUME OrderlyInv, StakesInv, NEW t \in TaskIds, EnforceVerifierTimeout(t)
  PROVE  \E out : Moved(t, out, Nothing)
<1>. DEFINE us == verifications[t]
            a == assignment[t]
            silent == VotesFor(us, "Pending")
            revenue == SumFunctionOnSet([v \in silent |->
              (us[v].stake * TimeoutSlashBps * SlashRevenueBps) \div (BPS * BPS)], silent)
            vs == [v \in Verifiers |-> IF v \in silent THEN [stake |-> 0, vote |-> "Rejected"]
                                       ELSE us[v]]
            mid == [main |-> mainBal + revenue,
                    auction |-> auctionBal - StakeSum(us, silent),
                    treasury |-> protocolTreasury + revenue,
                    stake |-> [x \in Address |-> IF x \in silent
                                 THEN agentActiveStake[x] - us[x].stake
                                 ELSE agentActiveStake[x]]]
            lost == StakesOf(us, silent)
<1>0. TypeOK /\ Orderly(t) /\ us \in [Verifiers -> VerificationType] /\ a.stake \in Nat
  BY PanelType, AssignmentFields DEF OrderlyInv, PanelInv, LifecycleInv
<1>1. /\ status[t] = "Verifying" /\ silent # {} /\ UNCHANGED <<task, assignment>>
      /\ verifications' = [verifications EXCEPT ![t] = vs]
  BY DEF EnforceVerifierTimeout
<1>2. \/ /\ silent = Panel(us)
         /\ status' = [status EXCEPT ![t] = "Disputed"]
         /\ agentActiveStake' = [mid.stake EXCEPT ![a.agent] = @ - a.stake]
         /\ auctionBal' = mid.auction - a.stake
      \/ TrySettlement(t, vs, mid)
  BY DEF EnforceVerifierTimeout
<1>3. /\ vs \in [Verifiers -> VerificationType] /\ Panel(vs) = Panel(us)
      /\ silent = Panel(us) => VotesFor(vs, "Approved") = {}
      /\ \A x \in Verifiers : vs[x].stake = IF x \in silent THEN 0 ELSE us[x].stake
  BY <1>0, SilentRejected
<1>4. Panel(vs) # {} /\ silent \subseteq Panel(us) /\ Panel(us) \subseteq Verifiers
      /\ silent \in SUBSET Address
  BY <1>1, <1>3 DEF Panel, VotesFor, Address
<1>5. NoIdleStake(vs)
  BY <1>0 DEF NoIdleStake, Orderly
<1>6. \A v \in silent : us[v].stake \in Nat
  BY <1>0, VerificationFields DEF VotesFor
<1>7. SumFunctionOnSet(lost, Address) = StakeSum(us, silent)
  BY <1>4, <1>6, StakesOfSum
<1>8. /\ Assigned(t) /\ a.agent \in Address
      /\ \A x \in Address : Held(t, x) = WorkStakes(a, us)[x]
  BY <1>1, WorkHeld
<1>9. /\ \A x \in Address : WorkStakes(a, us)[x] \in Int
      /\ SumFunctionOnSet(WorkStakes(a, us), Address) = a.stake + StakeSum(us, Panel(us))
  BY <1>0, <1>8, WorkStakesSum
<1>10. \A x \in Address : lost[x] = IF x \in silent THEN us[x].stake ELSE 0
  BY DEF StakesOf
<1>11. auctionBal \in Int /\ agentActiveStake \in [Address -> Int] /\ SumFunctionOnSet(lost, Address) \in Int
  <2>1. \A x \in Address : lost[x] \in Int
    BY <1>6, <1>10
  <2>2. SumFunctionOnSet(lost, Address) \in Int
    <3>. HIDE DEF lost
    <3>. QED BY <2>1, FiniteTasks, SumInt
  <2>3. auctionBal \in Int
    BY <1>0, StakeTypes
  <2>. QED BY <1>0, <2>2, <2>3 DEF TypeOK
<1>12. \A x \in Address : lost[x] \in Int /\ mid.stake[x] = agentActiveStake[x] - lost[x]
  BY <1>6, <1>10, <1>11
<1>13. mid.stake \in [Address -> Int] /\ mid.auction = auctionBal - SumFunctionOnSet(lost, Address)
  BY <1>6, <1>7, <1>11
<1>14. CASE /\ silent = Panel(us)
            /\ status' = [status EXCEPT ![t] = "Disputed"]
            /\ agentActiveStake' = [mid.stake EXCEPT ![a.agent] = @ - a.stake]
            /\ auctionBal' = mid.auction - a.stake
  <2>. DEFINE out == WorkStakes(a, us)
  <2>1. status'[t] = "Disputed" /\ verifications'[t] = vs
    BY <1>0, <1>1, <1>14 DEF TypeOK
  <2>2. ~Working(t)'
    BY <1>3, <1>14, <2>1 DEF Working, Tied, EmergencyCancelled
  <2>3. \A x \in Address : Held(t, x)' = 0
    BY <1>0, <1>1, <1>3, <1>5, <1>8, <2>1, <2>2, HeldAfter
  <2>4. \A x \in Address : out[x] = (IF x = a.agent THEN a.stake ELSE 0) + lost[x]
    BY <1>10, <1>14 DEF WorkStakes, StakeOf, StakesOf
  <2>5. \A x \in Address : agentActiveStake'[x]
                             = IF x = a.agent THEN mid.stake[x] - a.stake ELSE mid.stake[x]
    BY <1>8, <1>13, <1>14
  <2>6. auctionBal' = auctionBal - SumFunctionOnSet(out, Address)
    <3>. HIDE DEF mid, lost, us, a, silent
    <3>. QED BY <1>0, <1>7, <1>9, <1>11, <1>13, <1>14
  <2>7. \A x \in Address : /\ out[x] \in Int
                           /\ agentActiveStake'[x] = agentActiveStake[x] - out[x]
                           /\ Held(t, x)' = Held(t, x) - out[x]
    <3>. TAKE x \in Address
    <3>. HIDE DEF mid, lost, us, a, silent
    <3>1. agentActiveStake[x] \in Int
      BY <1>11
    <3>. QED BY <1>0, <1>8, <1>9, <1>12, <2>3, <2>4, <2>5, <3>1
  <2>. HIDE DEF out
  <2>. QED BY <1>0, <2>6, <2>7, OutMoved
<1>15. CASE TrySettlement(t, vs, mid)
  <2>. HIDE DEF vs, mid, lost
  <2>1. mid.auction \in Int
    BY <1>11, <1>13
  <2>2. PICK rest \in {Nothing, WorkStakes(a, vs)} :
          /\ \A x \in Address :
               /\ rest[x] \in Int
               /\ agentActiveStake'[x] = mid.stake[x] - rest[x]
               /\ Held(t, x)' = WorkStakes(a, vs)[x] - rest[x]
          /\ auctionBal' = mid.auction - SumFunctionOnSet(rest, Address)
    BY <1>1, <1>3, <1>4, <1>5, <1>13, <1>15, <2>1, SettlementMoves
  <2>3. \A x \in Address : Held(t, x) = WorkStakes(a, vs)[x] + lost[x]
    <3>. SUFFICES ASSUME NEW x \in Address
                  PROVE  WorkStakes(a, us)[x] = WorkStakes(a, vs)[x] + lost[x]
      BY <1>8
    <3>. DEFINE one == StakeOf(a.agent, a.stake)[x]
    <3>1. one \in Int
      BY <1>0 DEF StakeOf
    <3>2. StakesOf(us, Panel(us))[x] = StakesOf(vs, Panel(vs))[x] + lost[x]
          /\ StakesOf(vs, Panel(vs))[x] \in Int /\ lost[x] \in Int
      <4>1. x \in Panel(us) => us[x].stake \in Nat
        BY <1>0, <1>4, VerificationFields
      <4>. QED BY <1>3, <1>4, <1>10, <4>1 DEF StakesOf
    <3>3. WorkStakes(a, us)[x] = one + StakesOf(us, Panel(us))[x]
          /\ WorkStakes(a, vs)[x] = one + StakesOf(vs, Panel(vs))[x]
      BY DEF WorkStakes
    <3>. HIDE DEF one
    <3>. QED BY <3>1, <3>2, <3>3
  <2>. DEFINE out == [x \in Address |-> lost[x] + rest[x]]
  <2>4. \A x \in Address : out[x] = lost[x] + rest[x]
    OBVIOUS
  <2>. HIDE DEF out
  <2>5. SumFunctionOnSet(out, Address) = SumFunctionOnSet(lost, Address) + SumFunctionOnSet(rest, Address)
    BY <1>12, <2>2, <2>4, FiniteTasks, SumPlus
  <2>6. SumFunctionOnSet(rest, Address) \in Int
    BY <2>2, FiniteTasks, SumInt
  <2>7. auctionBal' = auctionBal - SumFunctionOnSet(out, Address)
    BY <1>11, <1>13, <2>2, <2>5, <2>6
  <2>8. \A x \in Address : /\ out[x] \in Int
                           /\ agentActiveStake'[x] = agentActiveStake[x] - out[x]
                           /\ Held(t, x)' = Held(t, x) - out[x]
    <3>. TAKE x \in Address
    <3>1. lost[x] \in Int /\ rest[x] \in Int /\ agentActiveStake[x] \in Int /\ Held(t, x) \in Int
      BY <1>0, <1>12, <2>2, StakeTypes
    <3>2. WorkStakes(a, vs)[x] \in Int
      BY <1>0, <1>3, <1>8, WorkStakesSum
    <3>. QED BY <1>12, <2>2, <2>3, <2>4, <3>1, <3>2
  <2>. QED BY <1>0, <2>7, <2>8, OutMoved
<1>. QED BY <1>2, <1>14, <1>15

\* Everything at stake in a task is paid out when it is abandoned or its deadline missed.
LEMMA PaidOutMoved ==
  ASSUME OrderlyInv, StakesInv, NEW t \in TaskIds,
         AbandonVerification(t) \/ EnforceDeliveredTimeout(t) \/ EnforceDeadline(t)
  PROVE  \E out : Moved(t, out, Nothing)
<1>. DEFINE a == assignment[t]
            vs == verifications[t]
            out == WorkStakes(a, vs)
<1>0. /\ TypeOK /\ Orderly(t) /\ InPhase(t) /\ vs \in [Verifiers -> VerificationType]
      /\ a.stake \in Nat /\ agentActiveStake \in [Address -> Int]
  BY PanelType, AssignmentFields DEF OrderlyInv, PanelInv, LifecycleInv, Sound, TypeOK
<1>1. status[t] \in {"Assigned", "Delivered", "Verifying"} /\ Created(t)
  BY DEF AbandonVerification, EnforceDeliveredTimeout, EnforceDeadline
<1>2. /\ Assigned(t) /\ a.agent \in Address
      /\ \A x \in Address : Held(t, x) = out[x]
  BY <1>1, WorkHeld
<1>3. /\ \A x \in Address : out[x] \in Int
      /\ SumFunctionOnSet(out, Address) = a.stake + StakeSum(vs, Panel(vs))
  BY <1>0, <1>2, WorkStakesSum
<1>4. task[t].bounty # 0
  BY <1>0, <1>1 DEF Orderly
<1>5. auctionBal \in Int /\ StakeSum(vs, Panel(vs)) \in Int
  <2>1. auctionBal \in Int
    BY <1>0, StakeTypes
  <2>2. \A v \in Panel(vs) : vs[v].stake \in Nat
    BY <1>0, VerificationFields DEF Panel
  <2>3. Panel(vs) \in SUBSET Verifiers
    BY DEF Panel
  <2>. QED BY <1>0, <2>1, <2>2, <2>3, ForfeitType DEF StakeSum
<1>6. /\ status'[t] \in {"Cancelled", "Failed"} /\ UNCHANGED <<task, assignment>>
      /\ \A v \in Verifiers : verifications'[t][v].vote = "None" => verifications'[t][v].stake = 0
      /\ verifications'[t] \in [Verifiers -> VerificationType]
  <2>1. CASE AbandonVerification(t)
    <3>1. verifications'[t] = [v \in Verifiers |-> [vs[v] EXCEPT !.stake = 0]]
      BY <1>0, <2>1 DEF TypeOK, AbandonVerification
    <3>2. \A v \in Verifiers : verifications'[t][v].stake = 0 /\ verifications'[t][v] \in VerificationType
      BY <1>0, <3>1, VerificationFields DEF VerificationType
    <3>3. verifications'[t] \in [Verifiers -> VerificationType]
      BY <3>1, <3>2
    <3>. QED BY <1>0, <2>1, <3>2, <3>3 DEF TypeOK, AbandonVerification
  <2>2. CASE EnforceDeliveredTimeout(t)
    BY <1>0, <2>2 DEF TypeOK, EnforceDeliveredTimeout, panelRecord, Orderly
  <2>3. CASE EnforceDeadline(t)
    <3>1. status'[t] = "Failed"
      BY <1>0, <2>3, SettleFailureEffect DEF EnforceDeadline
    <3>2. UNCHANGED <<task, assignment, verifications>>
      BY <2>3 DEF EnforceDeadline, panelRecord
    <3>. QED BY <1>0, <3>1, <3>2 DEF Orderly
  <2>. QED BY <2>1, <2>2, <2>3
<1>7. \A x \in Address : Held(t, x)' = 0
  <2>1. ~Working(t)'
    BY <1>4, <1>6 DEF Working, Tied, EmergencyCancelled
  <2>2. NoIdleStake(verifications'[t])
    BY <1>6 DEF NoIdleStake
  <2>. QED BY <1>0, <1>2, <1>6, <2>1, <2>2, HeldAfter
<1>8. CASE /\ agentActiveStake' = Released(t, vs, agentActiveStake)
           /\ auctionBal' = auctionBal - a.stake - StakeSum(vs, Panel(vs))
  <2>1. \A x \in Address : agentActiveStake'[x] = agentActiveStake[x] - out[x]
    BY <1>0, <1>8, ReleasedStakes
  <2>2. \A x \in Address : out[x] - out[x] = 0
    BY <1>3
  <2>. HIDE DEF a, vs, out
  <2>3. auctionBal' = auctionBal - SumFunctionOnSet(out, Address)
    BY <1>0, <1>3, <1>5, <1>8
  <2>. QED BY <1>0, <1>2, <1>3, <1>7, <2>1, <2>2, <2>3, OutMoved
<1>9. CASE EnforceDeliveredTimeout(t)
  <2>1. /\ agentActiveStake' = [agentActiveStake EXCEPT ![a.agent] = @ - a.stake]
        /\ auctionBal' = auctionBal - a.stake /\ status[t] = "Delivered"
    BY <1>9 DEF EnforceDeliveredTimeout
  <2>2. Panel(vs) = {}
    BY <1>0, <2>1 DEF InPhase
  <2>3. \A x \in Address : out[x] = IF x = a.agent THEN a.stake ELSE 0
    BY <1>0, <2>2 DEF WorkStakes, StakeOf, StakesOf
  <2>4. StakeSum(vs, Panel(vs)) = 0
    BY <2>2, SumEmpty DEF StakeSum
  <2>. HIDE DEF a, vs, out
  <2>5. auctionBal' = auctionBal - SumFunctionOnSet(out, Address)
    BY <1>0, <1>3, <1>5, <2>1, <2>4
  <2>6. \A x \in Address : agentActiveStake'[x] = agentActiveStake[x] - out[x]
    BY <1>0, <1>2, <2>1, <2>3
  <2>7. \A x \in Address : out[x] - out[x] = 0
    BY <1>3
  <2>. QED BY <1>0, <1>2, <1>3, <1>7, <2>5, <2>6, <2>7, OutMoved
<1>10. CASE AbandonVerification(t)
  BY <1>8, <1>10 DEF AbandonVerification
<1>11. CASE EnforceDeadline(t)
  <2>1. \E severity : SettleFailure(t, vs, severity, Ledger)
    BY <1>11 DEF EnforceDeadline
  <2>. QED BY <1>8, <2>1 DEF SettleFailure, Ledger
<1>. QED BY <1>9, <1>10, <1>11

\* Only an agent and an auction that goes on, or was cancelled, has bids to hold.
LEMMA BiddingHeld ==
  ASSUME OrderlyInv, NEW t \in TaskIds, ~Assigned(t), NEW x \in Address
  PROVE  /\ Held(t, x) = IF x \in Agents /\ bids[t][x].revealed THEN bids[t][x].stake ELSE 0
         /\ status[t] \in {"Open", "BidReveal", "Cancelled"}
         /\ AgentHeld(t, x) = 0 /\ VerifierHeld(t, x) = 0
<1>0. TypeOK /\ InPhase(t) /\ OrderedTimes(t) /\ Orderly(t) /\ status[t] \in TaskStatus
  BY NatTime DEF OrderlyInv, PanelInv, LifecycleInv, Sound
<1>1. status[t] \in {"Open", "BidReveal", "Cancelled"}
  BY <1>0 DEF InPhase, TaskStatus
<1>2. Panel(verifications[t]) = {}
  BY <1>0 DEF OrderedTimes
<1>3. AgentHeld(t, x) = 0
  BY ConstantsAssumption DEF AgentHeld, Assigned, ConstantsAssumption
<1>4. VerifierHeld(t, x) = 0
  BY <1>0, <1>2 DEF VerifierHeld, Panel, Orderly
<1>5. BidHeld(t, x) = IF x \in Agents /\ bids[t][x].revealed THEN bids[t][x].stake ELSE 0
  BY <1>1 DEF BidHeld
<1>6. BidHeld(t, x) \in Nat
  BY <1>0, <1>5, BidFields
<1>. QED BY <1>1, <1>3, <1>4, <1>5, <1>6 DEF Held

\* An auction that nothing is revealed in is cancelled without moving a stake.
LEMMA CancelTaskMoved ==
  ASSUME OrderlyInv, StakesInv, NEW t \in TaskIds, CancelTask(t)
  PROVE  Moved(t, Nothing, Nothing)
<1>0. TypeOK /\ InPhase(t) /\ Orderly(t)
  BY DEF OrderlyInv, PanelInv, LifecycleInv, Sound
<1>1. /\ status[t] = "Open" /\ status'[t] = "Cancelled" /\ Created(t)
      /\ UNCHANGED <<task, assignment, bids, verifications>>
      /\ agentActiveStake' = StakesReturned(t, Revealed(t))
      /\ auctionBal' = auctionBal - StakeSum(bids[t], Revealed(t))
  BY <1>0 DEF TypeOK, CancelTask, MayCancel, panelRecord
<1>2. Revealed(t) = {} /\ \A b \in Agents : ~bids[t][b].revealed
  BY <1>0, <1>1, BiddersType DEF Orderly, Revealed
<1>3. StakeSum(bids[t], Revealed(t)) = 0
  BY <1>2, SumEmpty DEF StakeSum
<1>4. UNCHANGED agentActiveStake
  BY <1>0, <1>1, <1>2 DEF TypeOK, StakesReturned
<1>5. auctionBal' = auctionBal
  BY <1>0, <1>1, <1>3, StakeTypes
<1>6. ~Assigned(t)
  BY <1>0, <1>1 DEF InPhase, Assigned, NoAssignment
<1>7. \A x \in Address : Held(t, x)' = Held(t, x)
  <2>. TAKE x \in Address
  <2>1. Held(t, x) = 0 /\ AgentHeld(t, x) = 0
    BY <1>2, <1>6, BiddingHeld
  <2>2. BidHeld(t, x)' = 0
    BY <1>1, <1>2 DEF BidHeld
  <2>3. task[t].bounty # 0
    BY <1>0, <1>1 DEF Orderly
  <2>4. AgentHeld(t, x)' = 0 /\ VerifierHeld(t, x)' = 0
    BY <1>1, <2>3 DEF AgentHeld, VerifierHeld, Working, Tied, EmergencyCancelled
  <2>. QED BY <2>1, <2>2, <2>4 DEF Held
<1>. QED BY <1>0, <1>4, <1>5, <1>7, StillMoved

\* What is revealed is taken in, even on a cancelled task.
LEMMA RevealBidMoved ==
  ASSUME OrderlyInv, StakesInv, NEW t \in TaskIds, NEW a \in Agents, RevealBid(t, a)
  PROVE  Moved(t, Nothing, StakeOf(a, bids[t][a].stake))
<1>. DEFINE n == bids[t][a].stake
<1>0. /\ TypeOK /\ OrderedTimes(t) /\ now \in Nat /\ n \in Nat /\ a \in Address
      /\ task[t].revealDeadline \in Nat /\ assignment[t].assignedAt \in Nat
  BY NatTime, BidFields DEF OrderlyInv, PanelInv, LifecycleInv, Sound, Address
<1>1. /\ now < task[t].revealDeadline /\ ~bids[t][a].revealed
      /\ UNCHANGED <<task, assignment, verifications>>
      /\ status'[t] = (IF status[t] = "Open" THEN "BidReveal" ELSE status[t])
      /\ agentActiveStake' = [agentActiveStake EXCEPT ![a] = @ + n]
      /\ auctionBal' = auctionBal + n
  BY <1>0 DEF TypeOK, RevealBid, RevealOpen, StatusAfterReveal, panelRecord
<1>2. ~Assigned(t)
  BY <1>0, <1>1 DEF OrderedTimes
<1>3. /\ bids'[t][a].revealed = TRUE /\ bids'[t][a].stake = n
      /\ \A x \in Agents \ {a} : bids'[t][x] = bids[t][x]
  <2>. DEFINE bid == bids[t][a]
  <2>1. bid \in BidType
    BY <1>0, BidFields
  <2>2. bids' = [bids EXCEPT ![t][a] = [bid EXCEPT !.revealed = TRUE]]
    BY DEF RevealBid
  <2>3. [bid EXCEPT !.revealed = TRUE].revealed = TRUE /\ [bid EXCEPT !.revealed = TRUE].stake = bid.stake
    BY <2>1 DEF BidType
  <2>. QED BY <1>0, <2>2, <2>3 DEF TypeOK
<1>4. ASSUME NEW x \in Address
      PROVE  /\ Held(t, x) = IF x \in Agents /\ bids[t][x].revealed THEN bids[t][x].stake ELSE 0
             /\ Held(t, x)' = IF x \in Agents /\ bids'[t][x].revealed THEN bids'[t][x].stake ELSE 0
  <2>1. /\ Held(t, x) = IF x \in Agents /\ bids[t][x].revealed THEN bids[t][x].stake ELSE 0
        /\ status[t] \in {"Open", "BidReveal", "Cancelled"}
        /\ AgentHeld(t, x) = 0 /\ VerifierHeld(t, x) = 0
    BY <1>2, BiddingHeld
  <2>2. AgentHeld(t, x)' = AgentHeld(t, x) /\ VerifierHeld(t, x)' = VerifierHeld(t, x)
    BY <1>1, <2>1 DEF AgentHeld, VerifierHeld, Working, Tied, EmergencyCancelled
  <2>3. BidHeld(t, x)' = IF x \in Agents /\ bids'[t][x].revealed THEN bids'[t][x].stake ELSE 0
    BY <1>1, <1>2, <2>1 DEF BidHeld, Assigned
  <2>4. BidHeld(t, x)' \in Nat
    BY <1>0, <1>3, <2>3, BidFields
  <2>. QED BY <2>1, <2>2, <2>3, <2>4 DEF Held
<1>5. Held(t, a)' = Held(t, a) + n /\ \A x \in Address \ {a} : Held(t, x)' = Held(t, x)
  BY <1>0, <1>1, <1>3, <1>4
<1>. HIDE DEF n
<1>6. Moved(t, Nothing, StakeOf(a, n))
  BY <1>0, <1>1, <1>5, InMoved
<1>. QED BY <1>6 DEF n

\* A commitment stakes nothing.
LEMMA CommitBidMoved ==
  ASSUME OrderlyInv, StakesInv, NEW t \in TaskIds, NEW a \in Agents, NEW offer \in Offers,
         CommitBid(t, a, offer)
  PROVE  Moved(t, Nothing, Nothing)
<1>0. TypeOK /\ Orderly(t) /\ InPhase(t)
  BY DEF OrderlyInv, PanelInv, LifecycleInv, Sound
<1>1. /\ UNCHANGED <<task, status, assignment, verifications, agentActiveStake, auctionBal>>
      /\ ~bids[t][a].committed
  BY DEF CommitBid, panelRecord, balances
<1>2. ~bids[t][a].revealed /\ bids'[t][a].revealed = FALSE
      /\ \A x \in Agents \ {a} : bids'[t][x] = bids[t][x]
  <2>1. bids' = [bids EXCEPT ![t][a] = [committed |-> TRUE, revealed |-> FALSE,
                                        stake |-> offer.stake, price |-> offer.price]]
    BY DEF CommitBid
  <2>. QED BY <1>0, <1>1, <2>1 DEF TypeOK, Orderly
<1>3. \A x \in Address : Held(t, x)' = Held(t, x)
  <2>. TAKE x \in Address
  <2>1. BidHeld(t, x)' = BidHeld(t, x)
    BY <1>1, <1>2 DEF BidHeld, Assigned
  <2>2. AgentHeld(t, x)' = AgentHeld(t, x) /\ VerifierHeld(t, x)' = VerifierHeld(t, x)
    BY <1>1 DEF AgentHeld, VerifierHeld, Working, Tied, EmergencyCancelled
  <2>. QED BY <2>1, <2>2 DEF Held
<1>. QED BY <1>0, <1>1, <1>3, StillMoved

\* The losers get what they staked, and the winner's stake stays.
LEMMA ResolveAuctionMoved ==
  ASSUME OrderlyInv, StakesInv, NEW t \in TaskIds, ResolveAuction(t)
  PROVE  \E out : Moved(t, out, Nothing)
<1>0. /\ TypeOK /\ Orderly(t) /\ InPhase(t) /\ agentActiveStake \in [Address -> Int]
      /\ Revealed(t) \subseteq Agents
  BY BiddersType DEF OrderlyInv, PanelInv, LifecycleInv, Sound, TypeOK
<1>1. /\ status[t] \in {"Open", "BidReveal"} /\ status'[t] = "Assigned"
      /\ UNCHANGED <<task, bids, verifications>>
  BY <1>0 DEF TypeOK, ResolveAuction, panelRecord
<1>2. PICK i \in DOMAIN taskBidders[t] :
        /\ Wins(t, i)
        /\ assignment' = [assignment EXCEPT ![t] =
             [agent |-> taskBidders[t][i], stake |-> bids[t][taskBidders[t][i]].stake,
              price |-> bids[t][taskBidders[t][i]].price, assignedAt |-> now, deliveredAt |-> 0]]
        /\ agentActiveStake' = StakesReturned(t, Losers(t, taskBidders[t][i]))
        /\ auctionBal' = auctionBal - StakeSum(bids[t], Losers(t, taskBidders[t][i]))
  BY DEF ResolveAuction
<1>. DEFINE w == taskBidders[t][i]
            losers == Losers(t, w)
            out == StakesOf(bids[t], losers)
<1>3. w \in Revealed(t) /\ assignment'[t].agent = w /\ assignment'[t].stake = bids[t][w].stake
  <2>1. w \in Revealed(t)
    BY <1>2 DEF Wins
  <2>2. assignment'[t] = [agent |-> w, stake |-> bids[t][w].stake, price |-> bids[t][w].price,
                          assignedAt |-> now, deliveredAt |-> 0]
    <3>1. assignment \in [TaskIds -> AssignmentType]
      BY <1>0 DEF TypeOK
    <3>. QED BY <1>2, <3>1
  <2>. QED BY <2>1, <2>2
<1>4. /\ w \in Agents /\ w \in Address /\ w # NoAgent /\ bids[t][w].revealed
      /\ losers \in SUBSET Address /\ losers \subseteq Agents /\ w \notin losers
      /\ \A x \in Agents : bids[t][x].revealed <=> x \in losers \cup {w}
  <2>1. w \in Agents /\ w \in Address /\ w # NoAgent /\ bids[t][w].revealed
    BY <1>0, <1>3, ConstantsAssumption DEF Address, ConstantsAssumption, Revealed
  <2>2. losers = Revealed(t) \ {w}
    BY DEF Losers
  <2>3. \A x \in Agents : bids[t][x].revealed <=> x \in Revealed(t)
    BY <1>0 DEF Orderly, Revealed
  <2>. HIDE DEF w, losers
  <2>. QED BY <1>0, <1>3, <2>1, <2>2, <2>3 DEF Address
<1>5. \A x \in Agents : bids[t][x].stake \in Nat
  BY <1>0, BidFields
<1>6. /\ \A x \in Address : out[x] = IF x \in losers THEN bids[t][x].stake ELSE 0
      /\ SumFunctionOnSet(out, Address) = StakeSum(bids[t], losers)
  <2>1. \A x \in losers : bids[t][x].stake \in Int
    BY <1>4, <1>5
  <2>. HIDE DEF losers
  <2>2. SumFunctionOnSet(out, Address) = StakeSum(bids[t], losers)
    BY <1>4, <2>1, StakesOfSum
  <2>. QED BY <2>2 DEF StakesOf
<1>7. /\ assignment'[t].agent = w /\ assignment'[t].stake = bids[t][w].stake
      /\ agentActiveStake' = StakesReturned(t, losers)
      /\ auctionBal' = auctionBal - SumFunctionOnSet(out, Address)
  BY <1>2, <1>3, <1>6
<1>. HIDE DEF w, losers, out
<1>8. ~Assigned(t)
  BY <1>0, <1>1 DEF InPhase, Assigned, NoAssignment
<1>9. ASSUME NEW x \in Address
      PROVE  /\ out[x] \in Int
             /\ agentActiveStake'[x] = agentActiveStake[x] - out[x]
             /\ Held(t, x)' = Held(t, x) - out[x]
  <2>1. /\ Held(t, x) = IF x \in Agents /\ bids[t][x].revealed THEN bids[t][x].stake ELSE 0
        /\ VerifierHeld(t, x) = 0
    BY <1>8, BiddingHeld
  <2>2. BidHeld(t, x)' = 0
    BY <1>4, <1>7 DEF BidHeld, Assigned
  <2>3. AgentHeld(t, x)' = IF x = w THEN bids[t][x].stake ELSE 0
    BY <1>1, <1>7 DEF AgentHeld, Working
  <2>4. VerifierHeld(t, x)' = 0
    <3>1. Panel(verifications[t]) = {}
      BY <1>0, <1>1 DEF InPhase
    <3>. QED BY <1>0, <1>1, <3>1 DEF VerifierHeld, Panel, Orderly
  <2>5. out[x] \in Int
    BY <1>4, <1>5, <1>6
  <2>6. agentActiveStake'[x] = agentActiveStake[x] - out[x]
    BY <1>0, <1>6, <1>7 DEF StakesReturned
  <2>7. Held(t, x)' = IF x = w THEN bids[t][x].stake ELSE 0
    <3>1. x = w => bids[t][x].stake \in Nat
      BY <1>4, <1>5
    <3>. QED BY <2>2, <2>3, <2>4, <3>1 DEF Held
  <2>8. x \in Agents => bids[t][x].stake \in Nat
    BY <1>5
  <2>. QED BY <1>4, <1>6, <2>1, <2>5, <2>6, <2>7, <2>8
<1>. QED BY <1>0, <1>7, <1>9, OutMoved

\* Who registers for a panel stakes, and had nothing staked on the task before.
LEMMA RegisterVerifierMoved ==
  ASSUME OrderlyInv, StakesInv, NEW t \in TaskIds, NEW v \in Verifiers, NEW stake \in VerifierStakes,
         RegisterVerifier(t, v, stake)
  PROVE  Moved(t, Nothing, StakeOf(v, stake))
<1>. DEFINE vs == verifications[t]
            ws == verifications'[t]
            a == assignment[t]
<1>0. /\ TypeOK /\ Orderly(t) /\ vs \in [Verifiers -> VerificationType] /\ v \in Address
      /\ a.stake \in Nat /\ stake \in Nat
  BY PanelType, AssignmentFields, ConstantsAssumption
     DEF OrderlyInv, PanelInv, LifecycleInv, Address, ConstantsAssumption
<1>1. /\ status[t] \in {"Delivered", "Verifying"} /\ status'[t] = "Verifying"
      /\ v \notin Panel(vs) /\ UNCHANGED assignment
      /\ ws = [vs EXCEPT ![v] = [stake |-> stake, vote |-> "Pending"]]
      /\ agentActiveStake' = [agentActiveStake EXCEPT ![v] = @ + stake]
      /\ auctionBal' = auctionBal + stake
  BY <1>0 DEF TypeOK, RegisterVerifier, Reviewable
<1>2. ws \in [Verifiers -> VerificationType] /\ NoIdleStake(ws)
  <2>1. [stake |-> stake, vote |-> "Pending"] \in VerificationType
    BY <1>0 DEF VerificationType
  <2>2. NoIdleStake(ws)
    BY <1>0, <1>1 DEF NoIdleStake, Orderly
  <2>. QED BY <1>0, <1>1, <2>1, <2>2
<1>3. /\ Assigned(t) /\ a.agent \in Address
      /\ \A x \in Address : Held(t, x) = WorkStakes(a, vs)[x]
  BY <1>1, WorkHeld
<1>4. \A x \in Address : Held(t, x)' = WorkStakes(a, ws)[x]
  BY <1>0, <1>1, <1>2, <1>3, HeldAfter DEF Working
<1>5. ASSUME NEW x \in Address
      PROVE  WorkStakes(a, ws)[x] = WorkStakes(a, vs)[x] + (IF x = v THEN stake ELSE 0)
  <2>. DEFINE one == StakeOf(a.agent, a.stake)[x]
  <2>1. one \in Int
    BY <1>0 DEF StakeOf
  <2>2. /\ StakesOf(vs, Panel(vs))[x] \in Int
        /\ StakesOf(ws, Panel(ws))[x] = StakesOf(vs, Panel(vs))[x] + (IF x = v THEN stake ELSE 0)
    <3>1. x \in Panel(vs) => vs[x].stake \in Nat
      BY <1>0, VerificationFields DEF Panel
    <3>2. Panel(ws) = Panel(vs) \cup {v} /\ ws[v].stake = stake
          /\ \A y \in Panel(vs) : ws[y] = vs[y]
      BY <1>0, <1>1 DEF Panel
    <3>. QED BY <1>0, <1>1, <3>1, <3>2 DEF StakesOf
  <2>3. /\ WorkStakes(a, vs)[x] = one + StakesOf(vs, Panel(vs))[x]
        /\ WorkStakes(a, ws)[x] = one + StakesOf(ws, Panel(ws))[x]
    BY DEF WorkStakes
  <2>. HIDE DEF one
  <2>. QED BY <1>0, <2>1, <2>2, <2>3
<1>6. Held(t, v)' = Held(t, v) + stake
  BY <1>0, <1>3, <1>4, <1>5
<1>7. \A x \in Address \ {v} : Held(t, x)' = Held(t, x)
  <2>. TAKE x \in Address \ {v}
  <2>1. Held(t, x) \in Int
    BY <1>0, StakeTypes
  <2>2. WorkStakes(a, ws)[x] = WorkStakes(a, vs)[x] + 0
    BY <1>5
  <2>. QED BY <1>3, <1>4, <2>1, <2>2
<1>. HIDE DEF vs, ws, a
<1>. QED BY <1>0, <1>1, <1>6, <1>7, InMoved

\* A delivery, the end of a slash bond and a bounty taken in an emergency move no stake.
LEMMA OtherwiseMoved ==
  ASSUME OrderlyInv, StakesInv, NEW t \in TaskIds,
         \/ DeliverTask(t)
         \/ \E severity \in Severities : PostCompletionSlash(t, severity)
         \/ ClaimSlashBond(t)
         \/ EmergencyWithdrawBounty(t)
  PROVE  Moved(t, Nothing, Nothing)
<1>0. /\ TypeOK /\ InPhase(t) /\ Orderly(t)
      /\ assignment[t] \in AssignmentType /\ task[t] \in TaskType /\ task[t].bounty \in Nat
  BY TaskFields, AssignmentFields DEF OrderlyInv, PanelInv, LifecycleInv, Sound
<1>1. ASSUME UNCHANGED <<agentActiveStake, auctionBal, bids, verifications>>,
             assignment'[t].agent = assignment[t].agent, assignment'[t].stake = assignment[t].stake,
             Working(t)' = Working(t),
             Assigned(t) \/ status'[t] \in {"Open", "BidReveal", "Cancelled"}
      PROVE  Moved(t, Nothing, Nothing)
  <2>1. \A x \in Address : Held(t, x)' = Held(t, x)
    <3>. TAKE x \in Address
    <3>1. BidHeld(t, x)' = BidHeld(t, x)
      <4>1. CASE Assigned(t)
        BY <1>1, <4>1 DEF BidHeld, Assigned
      <4>2. CASE ~Assigned(t)
        BY <1>1, <4>2, BiddingHeld DEF BidHeld, Assigned
      <4>. QED BY <4>1, <4>2
    <3>2. AgentHeld(t, x)' = AgentHeld(t, x) /\ VerifierHeld(t, x)' = VerifierHeld(t, x)
      BY <1>1 DEF AgentHeld, VerifierHeld
    <3>. QED BY <3>1, <3>2 DEF Held
  <2>. QED BY <1>0, <1>1, <2>1, StillMoved
<1>2. CASE DeliverTask(t)
  <2>1. assignment'[t].agent = assignment[t].agent /\ assignment'[t].stake = assignment[t].stake
    BY <1>0, <1>2 DEF TypeOK, DeliverTask, AssignmentType
  <2>2. /\ status[t] = "Assigned" /\ status'[t] = "Delivered"
        /\ UNCHANGED <<agentActiveStake, auctionBal, bids, verifications>>
    BY <1>0, <1>2 DEF TypeOK, DeliverTask, auctionRecord, panelRecord, balances
  <2>3. Assigned(t) /\ Working(t) /\ Working(t)'
    BY <1>0, <2>2 DEF InPhase, Working
  <2>. QED BY <1>1, <2>1, <2>2, <2>3
<1>3. ASSUME NEW severity \in Severities, PostCompletionSlash(t, severity)
      PROVE  Moved(t, Nothing, Nothing)
  <2>1. /\ status[t] = "Completed" /\ status'[t] = "Failed" /\ UNCHANGED assignment
        /\ UNCHANGED <<agentActiveStake, auctionBal, bids, verifications>>
    BY <1>0, <1>3 DEF TypeOK, PostCompletionSlash, auctionRecord, panelRecord
  <2>2. Assigned(t)
    BY <1>0, <2>1 DEF InPhase
  <2>3. Working(t)' = Working(t)
    BY <2>1 DEF Working, Tied, EmergencyCancelled
  <2>4. assignment'[t].agent = assignment[t].agent /\ assignment'[t].stake = assignment[t].stake
    BY <2>1
  <2>. QED BY <1>1, <2>1, <2>2, <2>3, <2>4
<1>4. CASE ClaimSlashBond(t)
  <2>1. /\ status[t] = "Completed" /\ status'[t] = "Completed" /\ UNCHANGED assignment
        /\ UNCHANGED <<agentActiveStake, auctionBal, bids, verifications>>
    BY <1>0, <1>4 DEF ClaimSlashBond, auctionRecord, panelRecord
  <2>2. Assigned(t)
    BY <1>0, <2>1 DEF InPhase
  <2>3. Working(t)' = Working(t)
    BY <2>1 DEF Working, Tied, EmergencyCancelled
  <2>4. assignment'[t].agent = assignment[t].agent /\ assignment'[t].stake = assignment[t].stake
    BY <2>1
  <2>. QED BY <1>1, <2>1, <2>2, <2>3, <2>4
<1>5. CASE EmergencyWithdrawBounty(t)
  <2>1. /\ status[t] \in Unsettled /\ status'[t] = "Cancelled" /\ UNCHANGED assignment
        /\ task'[t].bounty = 0
        /\ UNCHANGED <<agentActiveStake, auctionBal, bids, verifications>>
    BY <1>0, <1>5 DEF TypeOK, TaskType, EmergencyWithdrawBounty, BeforeCompletion, auctionRecord,
                      panelRecord
  <2>2. Working(t)'
    BY <2>1 DEF Working, EmergencyCancelled
  <2>3. CASE status[t] \in {"Assigned", "Delivered", "Verifying"}
    <3>1. Assigned(t) /\ Working(t)
      BY <1>0, <2>3 DEF InPhase, Working
    <3>. QED BY <1>1, <2>1, <2>2, <3>1
  <2>4. CASE status[t] \in {"Open", "BidReveal"}
    <3>1. ~Assigned(t) /\ Panel(verifications[t]) = {}
      BY <1>0, <2>4 DEF InPhase, Assigned, NoAssignment
    <3>2. \A x \in Address : Held(t, x)' = Held(t, x)
      <4>. TAKE x \in Address
      <4>1. /\ BidHeld(t, x)' = BidHeld(t, x)
            /\ AgentHeld(t, x) = 0 /\ VerifierHeld(t, x) = 0
        BY <2>1, <2>4, <3>1, BiddingHeld DEF BidHeld, Assigned
      <4>2. AgentHeld(t, x)' = 0
        BY <2>1, <3>1, ConstantsAssumption DEF AgentHeld, Assigned, ConstantsAssumption
      <4>3. VerifierHeld(t, x)' = 0
        BY <1>0, <2>1, <3>1 DEF VerifierHeld, Panel, Orderly
      <4>. QED BY <4>1, <4>2, <4>3 DEF Held
    <3>. QED BY <1>0, <2>1, <3>2, StillMoved
  <2>. QED BY <2>1, <2>3, <2>4 DEF Unsettled
<1>. QED BY <1>2, <1>3, <1>4, <1>5

\* A stake taken out in an emergency is gone from the task.
LEMMA EmergencyWithdrawStakeMoved ==
  ASSUME OrderlyInv, StakesInv, NEW t \in TaskIds, EmergencyWithdrawStake(t)
  PROVE  \E out : Moved(t, out, Nothing)
<1>. DEFINE agent == assignment[t].agent
            n == assignment[t].stake
            out == StakeOf(agent, n)
<1>0. /\ TypeOK /\ n \in Nat /\ assignment[t] \in AssignmentType
      /\ agentActiveStake \in [Address -> Int]
  BY AssignmentFields DEF OrderlyInv, PanelInv, LifecycleInv, TypeOK
<1>1. /\ status[t] \in {"Assigned", "Delivered", "Verifying"}
      /\ UNCHANGED <<status, bids, verifications, task>>
      /\ agentActiveStake' = [agentActiveStake EXCEPT ![agent] = @ - n]
      /\ auctionBal' = auctionBal - n
  BY DEF EmergencyWithdrawStake, Unsettled, auctionRecord, panelRecord
<1>2. assignment'[t].agent = agent /\ assignment'[t].stake = 0
  BY <1>0 DEF TypeOK, EmergencyWithdrawStake, AssignmentType
<1>3. Assigned(t) /\ agent \in Address
  BY <1>1, WorkHeld
<1>4. \A x \in Address : out[x] = IF x = agent THEN n ELSE 0
  BY DEF StakeOf
<1>7. SumFunctionOnSet(out, Address) = n
  <2>1. agent \in Address /\ n \in Int
    BY <1>0, <1>3
  <2>. HIDE DEF agent, n
  <2>. QED BY <2>1, StakeOfSum
<1>5. ASSUME NEW x \in Address PROVE Held(t, x)' = Held(t, x) - out[x]
  <2>1. BidHeld(t, x)' = BidHeld(t, x) /\ BidHeld(t, x) = 0
    BY <1>1, <1>2, <1>3 DEF BidHeld, Assigned
  <2>2. Working(t) /\ Working(t)'
    BY <1>1 DEF Working
  <2>3. AgentHeld(t, x) = out[x] /\ AgentHeld(t, x)' = 0
    BY <1>2, <1>4, <2>2 DEF AgentHeld
  <2>4. VerifierHeld(t, x)' = VerifierHeld(t, x)
    BY <1>1, <2>2 DEF VerifierHeld
  <2>5. VerifierHeld(t, x) \in Nat /\ out[x] \in Nat
    BY <1>0, <1>4, PanelType, VerificationFields DEF VerifierHeld
  <2>. QED BY <2>1, <2>3, <2>4, <2>5 DEF Held
<1>. HIDE DEF agent, n, out
<1>6. \A x \in Address : out[x] \in Int /\ agentActiveStake'[x] = agentActiveStake[x] - out[x]
  BY <1>0, <1>1, <1>3, <1>4
<1>. QED BY <1>0, <1>1, <1>5, <1>6, <1>7, OutMoved

\* A task that a step keeps holds what it held.
LEMMA KeptIsHeld ==
  ASSUME NEW q \in TaskIds, Kept(q), NEW x \in Address
  PROVE  Held(q, x)' = Held(q, x)
<1>1. Working(q)' = Working(q) /\ Assigned(q)' = Assigned(q)
  BY DEF Kept, Working, Tied, EmergencyCancelled, Assigned
<1>. QED BY <1>1 DEF Kept, Held, BidHeld, AgentHeld, VerifierHeld

\* A new task holds no stake.
LEMMA CreateTaskMoved ==
  ASSUME OrderlyInv, StakesInv, NEW p \in Posters, NEW terms \in Terms, CreateTask(p, terms),
         NEW t \in TaskIds, t = taskCount
  PROVE  Moved(t, Nothing, Nothing)
<1>0. TypeOK /\ Orderly(t) /\ InPhase(t) /\ taskCount \in Nat
  BY NatTime DEF OrderlyInv, PanelInv, LifecycleInv, Sound
<1>1. /\ UNCHANGED <<assignment, bids, verifications, agentActiveStake, auctionBal>>
      /\ status'[t] = "Open" /\ status[t] = "Open"
  BY <1>0 DEF TypeOK, CreateTask, InPhase, Created, auctionRecord, panelRecord
<1>2. \A x \in Address : Held(t, x)' = Held(t, x)
  <2>. TAKE x \in Address
  <2>1. ~Working(t) /\ ~Working(t)'
    BY <1>1 DEF Working, Tied, EmergencyCancelled
  <2>. QED BY <1>1, <2>1 DEF Held, BidHeld, AgentHeld, VerifierHeld, Assigned
<1>. QED BY <1>0, <1>1, <1>2, StillMoved

LEMMA TaskStepMoved ==
  ASSUME OrderlyInv, StakesInv, NEW t \in TaskIds, TaskStep(t)
  PROVE  \E out, in : Moved(t, out, in)
BY SubmitVerificationMoved, EnforceVerifierTimeoutMoved, PaidOutMoved, CancelTaskMoved,
   RevealBidMoved, CommitBidMoved, ResolveAuctionMoved, RegisterVerifierMoved, OtherwiseMoved,
   EmergencyWithdrawStakeMoved DEF TaskStep

\* A step about no task moves no stake.
LEMMA OtherStepStakes ==
  ASSUME StakesInv, OtherStep
  PROVE  StakesInv'
<1>1. UNCHANGED <<agentActiveStake, auctionBal>>
  BY DEF OtherStep, Tick, WithdrawProtocolFees, Pause, Unpause, UnbanAgent, vars, balances
<1>2. \A q \in TaskIds : \A x \in Address : Held(q, x)' = Held(q, x)
  BY OtherStepKeeps, KeptIsHeld
<1>3. [q \in TaskIds |-> TaskHeld(q)]' = [q \in TaskIds |-> TaskHeld(q)]
  <2>1. ASSUME NEW q \in TaskIds PROVE TaskHeld(q)' = TaskHeld(q)
    <3>1. [x \in Address |-> Held(q, x)]' = [x \in Address |-> Held(q, x)]
      BY <1>2
    <3>. QED BY <3>1 DEF TaskHeld
  <2>. QED BY <2>1
<1>4. ASSUME NEW x \in Address
      PROVE  [q \in TaskIds |-> Held(q, x)]' = [q \in TaskIds |-> Held(q, x)]
  BY <1>2
<1>. QED BY <1>1, <1>3, <1>4 DEF StakesInv

LEMMA StakesStep ==
  ASSUME OrderlyInv, StakesInv, [Next]_vars
  PROVE  StakesInv'
<1>0. TypeOK
  BY DEF OrderlyInv, PanelInv, LifecycleInv
<1>1. CASE OtherStep
  BY <1>1, OtherStepStakes
<1>2. ASSUME NEW p \in Posters, NEW terms \in Terms, CreateTask(p, terms) PROVE StakesInv'
  <2>. PICK t \in TaskIds : t = taskCount
    BY <1>2 DEF CreateTask
  <2>1. \A q \in TaskIds \ {t} : \A x \in Address : Held(q, x)' = Held(q, x)
    BY <1>0, <1>2, CreateTaskKeeps, KeptIsHeld
  <2>2. Moved(t, Nothing, Nothing)
    BY <1>2, CreateTaskMoved
  <2>. QED BY <1>0, <2>1, <2>2, MovedStakes
<1>3. ASSUME NEW t \in TaskIds, TaskStep(t) PROVE StakesInv'
  <2>1. \A q \in TaskIds \ {t} : \A x \in Address : Held(q, x)' = Held(q, x)
    BY <1>0, <1>3, TaskStepKeeps, KeptIsHeld
  <2>2. PICK out, in : Moved(t, out, in)
    BY <1>3, TaskStepMoved
  <2>. QED BY <1>0, <2>1, <2>2, MovedStakes
<1>. QED BY <1>1, <1>2, <1>3, StepCases

LEMMA StakesStart == Init => StakesInv
<1>. SUFFICES ASSUME Init PROVE StakesInv
  OBVIOUS
<1>1. \A q \in TaskIds : \A x \in Address : Held(q, x) = 0
  BY ConstantsAssumption DEF Init, Held, BidHeld, AgentHeld, VerifierHeld, Working, Tied, EmergencyCancelled,
     NoBid, NoAssignment, ConstantsAssumption
<1>2. ASSUME NEW q \in TaskIds PROVE TaskHeld(q) = 0
  <2>. DEFINE held == [x \in Address |-> Held(q, x)]
  <2>1. \A x \in Address : held[x] = 0
    BY <1>1
  <2>. HIDE DEF held
  <2>2. SumFunctionOnSet(held, Address) = 0
    BY <2>1, FiniteTasks, SumZero
  <2>. QED BY <2>2 DEF TaskHeld, held
<1>3. SumFunctionOnSet([q \in TaskIds |-> TaskHeld(q)], TaskIds) = 0
  <2>. DEFINE all == [q \in TaskIds |-> TaskHeld(q)]
  <2>1. \A q \in TaskIds : all[q] = 0
    BY <1>2
  <2>. HIDE DEF all
  <2>2. SumFunctionOnSet(all, TaskIds) = 0
    BY <2>1, FiniteTasks, SumZero
  <2>. QED BY <2>2 DEF all
<1>4. ASSUME NEW x \in Address PROVE SumFunctionOnSet([q \in TaskIds |-> Held(q, x)], TaskIds) = 0
  <2>. DEFINE col == [q \in TaskIds |-> Held(q, x)]
  <2>1. \A q \in TaskIds : col[q] = 0
    BY <1>1
  <2>. HIDE DEF col
  <2>2. SumFunctionOnSet(col, TaskIds) = 0
    BY <2>1, FiniteTasks, SumZero
  <2>. QED BY <2>2 DEF col
<1>. QED BY <1>3, <1>4 DEF Init, StakesInv

\* Only tasks that exist hold stakes, so the sums over all tasks are those over them.
LEMMA StakesInvExact ==
  ASSUME OrderlyInv, StakesInv
  PROVE  StakesExact
<1>0. TypeOK /\ AllCreated \in SUBSET TaskIds /\ IsFiniteSet(AllCreated)
  BY FiniteTasks, FS_Subset DEF OrderlyInv, PanelInv, LifecycleInv, AllCreated
<1>1. ASSUME NEW q \in TaskIds \ AllCreated, NEW x \in Address PROVE Held(q, x) = 0
  <2>1. /\ status[q] = "Open" /\ ~Assigned(q)
        /\ \A a \in Agents : ~bids[q][a].revealed
    BY <1>1 DEF AllCreated, OrderlyInv, PanelInv, LifecycleInv, Sound, InPhase, Orderly, Assigned,
       NoAssignment
  <2>. QED BY <2>1, BiddingHeld
<1>2. \A q \in TaskIds : TaskHeld(q) \in Int /\ \A x \in Address : Held(q, x) \in Int
  BY <1>0, HeldType
<1>3. ASSUME NEW x \in Address
      PROVE  agentActiveStake[x] = SumOver(AllCreated, LAMBDA t : Held(t, x))
  <2>. DEFINE col == [q \in TaskIds |-> Held(q, x)]
              seen == [q \in AllCreated |-> Held(q, x)]
  <2>1. /\ \A q \in AllCreated : seen[q] \in Int /\ col[q] = seen[q]
        /\ \A q \in TaskIds \ AllCreated : col[q] = 0
    BY <1>0, <1>1, <1>2
  <2>2. agentActiveStake[x] = SumFunctionOnSet(col, TaskIds)
    BY DEF StakesInv
  <2>3. SumOver(AllCreated, LAMBDA t : Held(t, x)) = SumFunctionOnSet(seen, AllCreated)
    BY DEF SumOver
  <2>. HIDE DEF col, seen
  <2>4. SumFunctionOnSet(col, TaskIds) = SumFunctionOnSet(seen, AllCreated)
    BY <1>0, <2>1, FiniteTasks, SumWhere
  <2>. QED BY <2>2, <2>3, <2>4
<1>4. auctionBal = SumOver(AllCreated \X Address, LAMBDA tx : Held(tx[1], tx[2]))
  <2>. DEFINE all == [q \in TaskIds |-> TaskHeld(q)]
              seen == [q \in AllCreated |-> TaskHeld(q)]
              row == [q \in AllCreated |-> [x \in Address |-> Held(q, x)]]
              cell == [tx \in AllCreated \X Address |-> Held(tx[1], tx[2])]
  <2>1. ASSUME NEW q \in TaskIds \ AllCreated PROVE TaskHeld(q) = 0
    <3>. DEFINE held == [x \in Address |-> Held(q, x)]
    <3>1. \A x \in Address : held[x] = 0
      BY <1>1
    <3>. HIDE DEF held
    <3>2. SumFunctionOnSet(held, Address) = 0
      BY <3>1, FiniteTasks, SumZero
    <3>. QED BY <3>2 DEF TaskHeld, held
  <2>2. /\ \A q \in AllCreated : seen[q] \in Int /\ all[q] = seen[q]
        /\ \A q \in TaskIds \ AllCreated : all[q] = 0
    BY <1>0, <1>2, <2>1
  <2>3. auctionBal = SumFunctionOnSet(all, TaskIds)
    BY DEF StakesInv
  <2>4. SumOver(AllCreated \X Address, LAMBDA tx : Held(tx[1], tx[2]))
          = SumFunctionOnSet(cell, AllCreated \X Address)
    BY DEF SumOver
  <2>5. \A q \in AllCreated, x \in Address : cell[<<q, x>>] \in Int /\ row[q][x] = cell[<<q, x>>]
    BY <1>0, <1>2
  <2>6. \A q \in AllCreated : seen[q] = SumFunctionOnSet(row[q], Address)
    BY DEF TaskHeld
  <2>. HIDE DEF all, seen, cell, row
  <2>7. SumFunctionOnSet(all, TaskIds) = SumFunctionOnSet(seen, AllCreated)
    BY <1>0, <2>2, FiniteTasks, SumWhere
  <2>8. SumFunctionOnSet(cell, AllCreated \X Address) = SumFunctionOnSet(seen, AllCreated)
    <3>1. ByRows(AllCreated, Address, cell, row, seen)
      BY <2>5, <2>6 DEF ByRows
    <3>. QED BY <1>0, <3>1, FiniteTasks, SumProduct
  <2>. QED BY <2>3, <2>4, <2>7, <2>8
<1>. QED BY <1>3, <1>4 DEF StakesExact

\* The stakes: what the auction holds, and what Main has on its books for each address,
\* is what the tasks still keep, to the token, through refunds, slashes, timeouts, ties
\* and emergencies; so no transfer of a stake runs short.
THEOREM StakesAlwaysExact == Spec => []StakesExact
<1>1. Init => OrderlyInv /\ StakesInv
  BY OrderlyInit, StakesStart
<1>2. OrderlyInv /\ StakesInv /\ [Next]_vars => (OrderlyInv /\ StakesInv)'
  BY OrderlyStep, StakesStep
<1>3. OrderlyInv /\ StakesInv => StakesExact
  BY StakesInvExact
<1>. QED BY <1>1, <1>2, <1>3, PTL DEF Spec

-----------------------------------------------------------------------------
(* The counters that the limits read *)

\* The auction of task t is not over; an emergency withdrawal leaves it so for good.
Auctioning(t) == status[t] \in {"Open", "BidReveal"} \/ (EmergencyCancelled(t) /\ ~Assigned(t))

\* Task t counts against the limit of agent a, and of poster p.
Bidding(t, a) == Created(t) /\ bids[t][a].committed /\ Auctioning(t)
Posted(t, p) == Created(t) /\ task[t].poster = p /\ Escrowed(t)
Num(b) == IF b THEN 1 ELSE 0

\* Besides the counts: whoever is on the list of bidders has committed, for
\* ReleaseBids takes down the counter of each of them.
LimitsInv ==
  /\ \A t \in TaskIds : \A a \in Agents \cap Bidders(t) : bids[t][a].committed
  /\ \A a \in Agents : agentActiveBids[a] = Cardinality({t \in TaskIds : Bidding(t, a)})
  /\ \A p \in Posters :
       /\ posterActiveTasks[p] = Cardinality({t \in TaskIds : Posted(t, p)})
       /\ posterActiveTasks[p] <= MaxPosterActiveTasks

\* The counters move as task t does, and its bidders have committed.
BidsCounted(t) ==
  \A a \in Agents :
    /\ agentActiveBids'[a] = (agentActiveBids[a] + Num(Bidding(t, a)')) - Num(Bidding(t, a))
    /\ a \in Bidders(t)' => bids'[t][a].committed
TasksCounted(t) ==
  \A p \in Posters :
    /\ posterActiveTasks'[p] = (posterActiveTasks[p] + Num(Posted(t, p)')) - Num(Posted(t, p))
    /\ posterActiveTasks'[p] <= MaxPosterActiveTasks

\* Sets that differ in one element at most.
LEMMA CountOne ==
  ASSUME NEW S, IsFiniteSet(S), NEW t \in S, NEW A \in SUBSET S, NEW B \in SUBSET S,
         A \ {t} = B \ {t}
  PROVE  Cardinality(B) = (Cardinality(A) + Num(t \in B)) - Num(t \in A)
<1>. DEFINE C == A \ {t}
<1>1. IsFiniteSet(C) /\ Cardinality(C) \in Nat /\ t \notin C
  BY FS_Subset, FS_CardinalityType
<1>2. \A D \in {A, B} : Cardinality(D) = Cardinality(C) + Num(t \in D)
  <2>. TAKE D \in {A, B}
  <2>1. CASE t \in D
    <3>1. D = C \cup {t}
      BY <2>1
    <3>2. Cardinality(C \cup {t}) = Cardinality(C) + 1
      BY <1>1, FS_AddElement
    <3>. QED BY <2>1, <3>1, <3>2 DEF Num
  <2>2. CASE t \notin D
    <3>1. D = C
      BY <2>2
    <3>. QED BY <1>1, <2>2, <3>1 DEF Num
  <2>. QED BY <2>1, <2>2
<1>3. Num(t \in A) \in Int /\ Num(t \in B) \in Int
  BY DEF Num
<1>. HIDE DEF C
<1>4. Cardinality(A) = Cardinality(C) + Num(t \in A) /\ Cardinality(B) = Cardinality(C) + Num(t \in B)
  BY <1>2
<1>. QED BY <1>1, <1>3, <1>4

LEMMA KeptCounts ==
  ASSUME NEW q \in TaskIds, Kept(q)
  PROVE  /\ \A a : Bidding(q, a)' = Bidding(q, a)
         /\ \A p : Posted(q, p)' = Posted(q, p)
         /\ Bidders(q)' = Bidders(q)
         /\ bids'[q] = bids[q]
<1>1. Auctioning(q)' = Auctioning(q) /\ Escrowed(q)' = Escrowed(q)
  BY DEF Kept, Auctioning, EmergencyCancelled, Assigned, Escrowed, Tied
<1>2. Bidders(q)' = Bidders(q)
  BY DEF Kept, Bidders
<1>. QED BY <1>1, <1>2 DEF Kept, Bidding, Posted

\* A step of which one task is counted anew and the others are kept.
LEMMA CountedLimits ==
  ASSUME LimitsInv, NEW t \in TaskIds, BidsCounted(t), TasksCounted(t),
         \A q \in TaskIds \ {t} : Kept(q)
  PROVE  LimitsInv'
<1>1. ASSUME NEW a \in Agents
      PROVE  agentActiveBids'[a] = Cardinality({q \in TaskIds : Bidding(q, a)'})
  <2>. DEFINE A == {q \in TaskIds : Bidding(q, a)}
              B == {q \in TaskIds : Bidding(q, a)'}
  <2>1. A \in SUBSET TaskIds /\ B \in SUBSET TaskIds /\ A \ {t} = B \ {t}
    BY KeptCounts
  <2>2. Cardinality(B) = (Cardinality(A) + Num(t \in B)) - Num(t \in A)
    <3>. HIDE DEF A, B
    <3>. QED BY <2>1, CountOne, FiniteTasks
  <2>3. Num(t \in A) = Num(Bidding(t, a)) /\ Num(t \in B) = Num(Bidding(t, a)')
    BY DEF Num
  <2>4. agentActiveBids[a] = Cardinality(A)
    BY DEF LimitsInv
  <2>. QED BY <2>2, <2>3, <2>4 DEF BidsCounted
<1>2. ASSUME NEW p \in Posters
      PROVE  posterActiveTasks'[p] = Cardinality({q \in TaskIds : Posted(q, p)'})
  <2>. DEFINE A == {q \in TaskIds : Posted(q, p)}
              B == {q \in TaskIds : Posted(q, p)'}
  <2>1. A \in SUBSET TaskIds /\ B \in SUBSET TaskIds /\ A \ {t} = B \ {t}
    BY KeptCounts
  <2>2. Cardinality(B) = (Cardinality(A) + Num(t \in B)) - Num(t \in A)
    <3>. HIDE DEF A, B
    <3>. QED BY <2>1, CountOne, FiniteTasks
  <2>3. Num(t \in A) = Num(Posted(t, p)) /\ Num(t \in B) = Num(Posted(t, p)')
    BY DEF Num
  <2>4. posterActiveTasks[p] = Cardinality(A)
    BY DEF LimitsInv
  <2>. QED BY <2>2, <2>3, <2>4 DEF TasksCounted
<1>3. \A q \in TaskIds : \A a \in Agents \cap Bidders(q)' : bids'[q][a].committed
  <2>. SUFFICES ASSUME NEW q \in TaskIds, NEW a \in Agents, a \in Bidders(q)'
                PROVE  bids'[q][a].committed
    OBVIOUS
  <2>1. CASE q = t
    BY <2>1 DEF BidsCounted
  <2>2. CASE q # t
    <3>1. Bidders(q)' = Bidders(q) /\ bids'[q] = bids[q]
      BY <2>2, KeptCounts
    <3>. QED BY <3>1 DEF LimitsInv
  <2>. QED BY <2>1, <2>2
<1>4. \A p \in Posters : posterActiveTasks'[p] <= MaxPosterActiveTasks
  BY DEF TasksCounted
<1>. QED BY <1>1, <1>2, <1>3, <1>4 DEF LimitsInv

-----------------------------------------------------------------------------
\* Neither the bids nor the phase of the auction change.
LEMMA SameBidding ==
  ASSUME TypeOK, LimitsInv, NEW t \in TaskIds, UNCHANGED agentActiveBids, Created(t)' = Created(t),
         \A a \in Agents : bids'[t][a].committed = bids[t][a].committed,
         taskBidders'[t] = taskBidders[t], Auctioning(t)' = Auctioning(t)
  PROVE  BidsCounted(t)
<1>. SUFFICES ASSUME NEW a \in Agents
              PROVE  /\ agentActiveBids'[a] = (agentActiveBids[a] + Num(Bidding(t, a)')) - Num(Bidding(t, a))
                     /\ a \in Bidders(t)' => bids'[t][a].committed
  BY DEF BidsCounted
<1>1. Bidding(t, a)' = Bidding(t, a) /\ Num(Bidding(t, a)) \in Int /\ agentActiveBids[a] \in Int
  BY DEF Bidding, Num, TypeOK
<1>2. Num(Bidding(t, a)') = Num(Bidding(t, a))
  BY <1>1 DEF Num
<1>3. Bidders(t)' = Bidders(t)
  BY DEF Bidders
<1>. QED BY <1>1, <1>2, <1>3 DEF LimitsInv

\* The auction ends, and the counters of all its bidders go down.
LEMMA ReleasedBidding ==
  ASSUME TypeOK, LimitsInv, NEW t \in TaskIds, Orderly(t), ReleaseBids(t), Created(t),
         bids' = bids, taskBidders' = taskBidders, Auctioning(t), ~Auctioning(t)'
  PROVE  BidsCounted(t)
<1>. SUFFICES ASSUME NEW a \in Agents
              PROVE  /\ agentActiveBids'[a] = (agentActiveBids[a] + Num(Bidding(t, a)')) - Num(Bidding(t, a))
                     /\ a \in Bidders(t)' => bids'[t][a].committed
  BY DEF BidsCounted
<1>1. a \in Bidders(t) <=> bids[t][a].committed
  BY DEF LimitsInv, Orderly
<1>2. Num(Bidding(t, a)') = 0 /\ Num(Bidding(t, a)) = (IF a \in Bidders(t) THEN 1 ELSE 0)
  BY <1>1 DEF Bidding, Num
<1>3. agentActiveBids'[a] = IF a \in Bidders(t) THEN agentActiveBids[a] - 1 ELSE agentActiveBids[a]
  BY DEF ReleaseBids, ReleasedBidders
<1>4. Bidders(t)' = Bidders(t)
  BY DEF Bidders
<1>5. agentActiveBids[a] \in Int
  BY DEF TypeOK
<1>. QED BY <1>1, <1>2, <1>3, <1>4, <1>5

\* A task that has an agent is past its auction.
LEMMA WorkBidding ==
  ASSUME TypeOK, LimitsInv, NEW t \in TaskIds, UNCHANGED <<taskCount, bids, taskBidders, agentActiveBids>>,
         Assigned(t), assignment'[t].agent = assignment[t].agent,
         status[t] \notin {"Open", "BidReveal"}, status'[t] \notin {"Open", "BidReveal"}
  PROVE  BidsCounted(t)
<1>1. ~Auctioning(t) /\ ~Auctioning(t)'
  BY DEF Auctioning, Assigned
<1>2. Auctioning(t)' = Auctioning(t)
  BY <1>1 DEF Auctioning
<1>. QED BY <1>2, SameBidding DEF Created

\* The bounty stays in escrow or out of it.
LEMMA SamePosted ==
  ASSUME TypeOK, LimitsInv, NEW t \in TaskIds, UNCHANGED posterActiveTasks, Created(t)' = Created(t),
         task'[t].poster = task[t].poster, Escrowed(t)' <=> Escrowed(t)
  PROVE  TasksCounted(t)
<1>. SUFFICES ASSUME NEW p \in Posters
              PROVE  /\ posterActiveTasks'[p] = (posterActiveTasks[p] + Num(Posted(t, p)')) - Num(Posted(t, p))
                     /\ posterActiveTasks'[p] <= MaxPosterActiveTasks
  BY DEF TasksCounted
<1>1. (Posted(t, p)' <=> Posted(t, p)) /\ posterActiveTasks[p] \in Int
  BY DEF Posted, TypeOK
<1>2. Num(Posted(t, p)') = Num(Posted(t, p)) /\ Num(Posted(t, p)) \in Int
  BY <1>1 DEF Num
<1>3. posterActiveTasks[p] <= MaxPosterActiveTasks
  BY DEF LimitsInv
<1>. QED BY <1>1, <1>2, <1>3

\* The bounty leaves the escrow, and the poster has one task less.
LEMMA ReleasedPosted ==
  ASSUME TypeOK, LimitsInv, NEW t \in TaskIds, ReleasePoster(t), Created(t),
         task'[t].poster = task[t].poster, Escrowed(t), ~Escrowed(t)'
  PROVE  TasksCounted(t)
<1>. SUFFICES ASSUME NEW p \in Posters
              PROVE  /\ posterActiveTasks'[p] = (posterActiveTasks[p] + Num(Posted(t, p)')) - Num(Posted(t, p))
                     /\ posterActiveTasks'[p] <= MaxPosterActiveTasks
  BY DEF TasksCounted
<1>1. /\ Num(Posted(t, p)') = 0
      /\ Num(Posted(t, p)) = (IF task[t].poster = p THEN 1 ELSE 0)
  BY DEF Posted, Num
<1>2. posterActiveTasks'[p] = IF task[t].poster = p THEN posterActiveTasks[p] - 1 ELSE posterActiveTasks[p]
  BY DEF ReleasePoster, TypeOK
<1>3. posterActiveTasks[p] \in Int /\ posterActiveTasks[p] <= MaxPosterActiveTasks
      /\ MaxPosterActiveTasks \in Nat
  BY ConstantsAssumption DEF TypeOK, LimitsInv, ConstantsAssumption
<1>. QED BY <1>1, <1>2, <1>3

-----------------------------------------------------------------------------
\* A settlement takes the bounty out of escrow unless votes are missing or tied.
LEMMA SettlementPosted ==
  ASSUME TypeOK, LimitsInv, NEW t \in TaskIds, Created(t), status[t] = "Verifying",
         NEW vs \in [Verifiers -> VerificationType], Panel(vs) # {},
         NEW pre, TrySettlement(t, vs, pre),
         verifications' = [verifications EXCEPT ![t] = vs], UNCHANGED <<taskCount, task>>
  PROVE  TasksCounted(t)
<1>1. verifications'[t] = vs /\ Escrowed(t) /\ Created(t)' = Created(t)
  BY DEF TypeOK, Escrowed, Live, Created
<1>2. CASE /\ UNCHANGED posterActiveTasks
           /\ \/ UNCHANGED status
              \/ /\ status' = [status EXCEPT ![t] = "Disputed"]
                 /\ VotesFor(vs, "Pending") = {}
                 /\ Cardinality(VotesFor(vs, "Approved")) = Cardinality(VotesFor(vs, "Rejected"))
  <2>1. status'[t] = "Verifying" \/ (status'[t] = "Disputed" /\ VotesFor(vs, "Approved") # {})
    BY <1>2, TieHasApproval DEF TypeOK
  <2>2. Escrowed(t)'
    BY <1>1, <2>1 DEF Escrowed, Tied, Live
  <2>. QED BY <1>1, <1>2, <2>2, SamePosted
<1>3. CASE SettleSuccess(t, vs, pre) \/ SettleFailure(t, vs, "Material", pre)
  <2>1. status'[t] \in {"Completed", "Failed"}
    BY <1>3, SettleSuccessEffect, SettleFailureEffect
  <2>2. ReleasePoster(t)
    BY <1>3 DEF SettleSuccess, SettleFailure
  <2>3. ~Escrowed(t)'
    BY <2>1 DEF Escrowed, Tied, Live
  <2>. QED BY <1>1, <2>2, <2>3, ReleasedPosted
<1>. QED BY <1>2, <1>3 DEF TrySettlement

LEMMA SubmitVerificationCounted ==
  ASSUME OrderlyInv, LimitsInv, NEW t \in TaskIds, NEW v \in Verifiers,
         NEW vote \in {"Approved", "Rejected"}, SubmitVerification(t, v, vote)
  PROVE  BidsCounted(t) /\ TasksCounted(t)
<1>. DEFINE vs == [verifications[t] EXCEPT ![v].vote = vote]
<1>0. TypeOK /\ InPhase(t) /\ verifications[t] \in [Verifiers -> VerificationType]
  BY PanelType DEF OrderlyInv, PanelInv, LifecycleInv, Sound
<1>1. /\ Created(t) /\ status[t] = "Verifying" /\ verifications[t][v].vote = "Pending"
      /\ UNCHANGED <<taskCount, task, assignment, taskBidders, bids, agentActiveBids>>
      /\ verifications' = [verifications EXCEPT ![t] = vs] /\ TrySettlement(t, vs, Ledger)
  BY DEF SubmitVerification, auctionRecord
<1>2. vs \in [Verifiers -> VerificationType] /\ Panel(vs) # {}
  <2>1. vs = [verifications[t] EXCEPT ![v].vote = vote]
    OBVIOUS
  <2>. HIDE DEF vs
  <2>. QED BY <1>0, <1>1, <2>1, VoteCast
<1>. HIDE DEF vs
<1>3. status'[t] \notin {"Open", "BidReveal"}
  BY <1>0, <1>1, TrySettlementEffect
<1>4. BidsCounted(t)
  BY <1>0, <1>1, <1>3, WorkBidding DEF InPhase
<1>. QED BY <1>0, <1>1, <1>2, <1>4, SettlementPosted

LEMMA EnforceVerifierTimeoutCounted ==
  ASSUME OrderlyInv, LimitsInv, NEW t \in TaskIds, EnforceVerifierTimeout(t)
  PROVE  BidsCounted(t) /\ TasksCounted(t)
<1>. DEFINE silent == VotesFor(verifications[t], "Pending")
            vs == [v \in Verifiers |-> IF v \in silent THEN [stake |-> 0, vote |-> "Rejected"]
                                       ELSE verifications[t][v]]
<1>0. TypeOK /\ InPhase(t) /\ verifications[t] \in [Verifiers -> VerificationType]
  BY PanelType DEF OrderlyInv, PanelInv, LifecycleInv, Sound
<1>1. /\ Created(t) /\ status[t] = "Verifying" /\ silent # {}
      /\ UNCHANGED <<taskCount, task, assignment, taskBidders, bids, agentActiveBids>>
      /\ verifications' = [verifications EXCEPT ![t] = vs]
  BY DEF EnforceVerifierTimeout, auctionRecord
<1>2. \/ /\ silent = Panel(verifications[t])
         /\ status' = [status EXCEPT ![t] = "Disputed"]
         /\ ReleasePoster(t)
      \/ \E pre : TrySettlement(t, vs, pre)
  BY DEF EnforceVerifierTimeout
<1>3. /\ vs \in [Verifiers -> VerificationType] /\ Panel(vs) = Panel(verifications[t])
      /\ silent = Panel(verifications[t]) => VotesFor(vs, "Approved") = {}
  BY <1>0, SilentRejected
<1>4. Panel(vs) # {}
  BY <1>1, <1>3 DEF Panel, VotesFor
<1>. HIDE DEF vs, silent
<1>5. CASE /\ silent = Panel(verifications[t])
           /\ status' = [status EXCEPT ![t] = "Disputed"]
           /\ ReleasePoster(t)
  <2>1. status'[t] = "Disputed" /\ verifications'[t] = vs
    BY <1>0, <1>1, <1>5 DEF TypeOK
  <2>2. Escrowed(t) /\ ~Escrowed(t)'
    BY <1>1, <1>3, <1>5, <2>1 DEF Escrowed, Tied, Live
  <2>3. TasksCounted(t)
    BY <1>0, <1>1, <1>5, <2>2, ReleasedPosted
  <2>4. BidsCounted(t)
    BY <1>0, <1>1, <2>1, WorkBidding DEF InPhase
  <2>. QED BY <2>3, <2>4
<1>6. ASSUME NEW pre, TrySettlement(t, vs, pre) PROVE BidsCounted(t) /\ TasksCounted(t)
  <2>1. status'[t] \notin {"Open", "BidReveal"}
    BY <1>0, <1>1, <1>6, TrySettlementEffect
  <2>2. BidsCounted(t)
    BY <1>0, <1>1, <2>1, WorkBidding DEF InPhase
  <2>. QED BY <1>0, <1>1, <1>3, <1>4, <1>6, <2>2, SettlementPosted
<1>. QED BY <1>2, <1>5, <1>6

\* A missed deadline and the ways out of a delivered task end what had an agent.
LEMMA WorkEndsCounted ==
  ASSUME OrderlyInv, LimitsInv, NEW t \in TaskIds,
         EnforceDeadline(t) \/ AbandonVerification(t) \/ EnforceDeliveredTimeout(t)
  PROVE  BidsCounted(t) /\ TasksCounted(t)
<1>0. TypeOK /\ InPhase(t)
  BY DEF OrderlyInv, PanelInv, LifecycleInv, Sound
<1>1. /\ Created(t) /\ ReleasePoster(t)
      /\ status[t] \in {"Assigned", "Delivered", "Verifying"}
      /\ status'[t] \in {"Failed", "Cancelled"}
      /\ UNCHANGED <<taskCount, task, assignment, taskBidders, bids, agentActiveBids>>
  <2>1. CASE EnforceDeadline(t)
    <3>1. PICK severity : SettleFailure(t, verifications[t], severity, Ledger)
      BY <2>1 DEF EnforceDeadline
    <3>2. status'[t] = "Failed"
      BY <1>0, <3>1, SettleFailureEffect
    <3>3. ReleasePoster(t)
      BY <3>1 DEF SettleFailure
    <3>. QED BY <2>1, <3>2, <3>3 DEF EnforceDeadline, auctionRecord
  <2>2. CASE AbandonVerification(t)
    BY <1>0, <2>2 DEF TypeOK, AbandonVerification, auctionRecord
  <2>3. CASE EnforceDeliveredTimeout(t)
    BY <1>0, <2>3 DEF TypeOK, EnforceDeliveredTimeout, auctionRecord
  <2>. QED BY <2>1, <2>2, <2>3
<1>2. Escrowed(t) /\ ~Escrowed(t)'
  BY <1>1 DEF Escrowed, Tied, Live
<1>3. TasksCounted(t)
  BY <1>0, <1>1, <1>2, ReleasedPosted
<1>4. BidsCounted(t)
  BY <1>0, <1>1, WorkBidding DEF InPhase
<1>. QED BY <1>3, <1>4

\* Work goes on, a bond is claimed or slashed, a stake is taken out: nothing counted moves.
LEMMA WorkCounted ==
  ASSUME OrderlyInv, LimitsInv, NEW t \in TaskIds,
         \/ DeliverTask(t)
         \/ \E v \in Verifiers, stake \in VerifierStakes : RegisterVerifier(t, v, stake)
         \/ \E severity \in Severities : PostCompletionSlash(t, severity)
         \/ ClaimSlashBond(t)
         \/ EmergencyWithdrawStake(t)
  PROVE  BidsCounted(t) /\ TasksCounted(t)
<1>. DEFINE Goes ==
       /\ status[t] \in {"Assigned", "Delivered", "Verifying", "Completed"}
       /\ status'[t] \in {"Assigned", "Delivered", "Verifying", "Completed", "Failed"}
       /\ status[t] = "Completed" <=> status'[t] \in {"Completed", "Failed"}
       /\ assignment'[t].agent = assignment[t].agent
       /\ UNCHANGED <<taskCount, task, taskBidders, bids, agentActiveBids, posterActiveTasks>>
<1>0. TypeOK /\ InPhase(t)
  BY DEF OrderlyInv, PanelInv, LifecycleInv, Sound
<1>1. Goes
  <2>1. CASE DeliverTask(t)
    BY <1>0, <2>1, AssignmentFields DEF TypeOK, DeliverTask, auctionRecord, AssignmentType
  <2>2. ASSUME NEW v \in Verifiers, NEW stake \in VerifierStakes, RegisterVerifier(t, v, stake)
        PROVE  Goes
    BY <1>0, <2>2 DEF TypeOK, RegisterVerifier, Reviewable, auctionRecord
  <2>3. ASSUME NEW severity \in Severities, PostCompletionSlash(t, severity)
        PROVE  Goes
    BY <1>0, <2>3 DEF TypeOK, PostCompletionSlash, auctionRecord
  <2>4. CASE ClaimSlashBond(t)
    BY <1>0, <2>4 DEF TypeOK, ClaimSlashBond, auctionRecord
  <2>5. CASE EmergencyWithdrawStake(t)
    BY <1>0, <2>5, AssignmentFields DEF TypeOK, EmergencyWithdrawStake, Unsettled, auctionRecord, AssignmentType
  <2>. QED BY <2>1, <2>2, <2>3, <2>4, <2>5
<1>2. Escrowed(t)' <=> Escrowed(t)
  BY <1>1 DEF Escrowed, Tied, Live
<1>3. BidsCounted(t)
  BY <1>0, <1>1, WorkBidding DEF InPhase
<1>. QED BY <1>0, <1>1, <1>2, <1>3, SamePosted DEF Created

\* A commitment is counted for its agent.
LEMMA CommitBidCounted ==
  ASSUME OrderlyInv, LimitsInv, NEW t \in TaskIds, NEW a \in Agents, NEW offer \in Offers,
         CommitBid(t, a, offer)
  PROVE  BidsCounted(t) /\ TasksCounted(t)
<1>0. TypeOK /\ InPhase(t)
  BY DEF OrderlyInv, PanelInv, LifecycleInv, Sound
<1>1. /\ Created(t) /\ status[t] = "Open" /\ ~bids[t][a].committed
      /\ UNCHANGED <<taskCount, task, status, assignment, verifications, posterActiveTasks>>
  BY DEF CommitBid, panelRecord
<1>2. /\ agentActiveBids' = [agentActiveBids EXCEPT ![a] = @ + 1]
      /\ taskBidders'[t] = Append(taskBidders[t], a) /\ taskBidders[t] \in Seq(Agents)
      /\ bids'[t][a].committed
      /\ \A b \in Agents \ {a} : bids'[t][b] = bids[t][b]
  BY <1>0 DEF TypeOK, CommitBid
<1>3. Bidders(t)' \subseteq Bidders(t) \cup {a}
  <2>. DEFINE s == taskBidders[t]
  <2>1. s \in Seq(Agents) /\ taskBidders'[t] = Append(s, a)
    BY <1>2
  <2>. HIDE DEF s
  <2>2. /\ DOMAIN Append(s, a) = 1 .. Len(s) + 1 /\ Len(s) \in Nat /\ DOMAIN s = 1 .. Len(s)
        /\ Append(s, a)[Len(s) + 1] = a
        /\ \A i \in 1 .. Len(s) : Append(s, a)[i] = s[i]
    BY <2>1
  <2>3. Bidders(t) = {s[i] : i \in DOMAIN s}
    BY DEF Bidders, s
  <2>4. Bidders(t)' = {Append(s, a)[i] : i \in DOMAIN Append(s, a)}
    BY <2>1 DEF Bidders
  <2>5. \A i \in 1 .. Len(s) + 1 : i \in 1 .. Len(s) \/ i = Len(s) + 1
    BY <2>2
  <2>. QED BY <2>2, <2>3, <2>4, <2>5
<1>4. Auctioning(t) /\ Auctioning(t)' /\ Created(t)'
  BY <1>1 DEF Auctioning, Created
<1>5. \A b \in Agents :
        /\ agentActiveBids'[b] = (agentActiveBids[b] + Num(Bidding(t, b)')) - Num(Bidding(t, b))
        /\ b \in Bidders(t)' => bids'[t][b].committed
  <2>. TAKE b \in Agents
  <2>1. agentActiveBids[b] \in Int
    BY <1>0 DEF TypeOK
  <2>2. CASE b = a
    <3>1. Num(Bidding(t, a)) = 0 /\ Num(Bidding(t, a)') = 1
      BY <1>1, <1>2, <1>4 DEF Bidding, Num
    <3>2. agentActiveBids'[a] = agentActiveBids[a] + 1
      BY <1>0, <1>2 DEF TypeOK
    <3>. QED BY <1>2, <2>1, <2>2, <3>1, <3>2
  <2>3. CASE b # a
    <3>1. bids'[t][b] = bids[t][b]
      BY <1>2, <2>3
    <3>2. Num(Bidding(t, b)') = Num(Bidding(t, b)) /\ Num(Bidding(t, b)) \in Int
      BY <1>1, <1>4, <3>1 DEF Bidding, Num
    <3>3. agentActiveBids'[b] = agentActiveBids[b]
      BY <1>0, <1>2, <2>3 DEF TypeOK
    <3>. QED BY <1>3, <2>1, <2>3, <3>1, <3>2, <3>3 DEF LimitsInv
  <2>. QED BY <2>2, <2>3
<1>6. Escrowed(t)' <=> Escrowed(t)
  BY <1>1 DEF Escrowed, Tied
<1>7. TasksCounted(t)
  BY <1>0, <1>1, <1>6, SamePosted DEF Created
<1>. QED BY <1>5, <1>7 DEF BidsCounted

\* A reveal counts nothing, even of a task that was cancelled or assigned before.
LEMMA RevealBidCounted ==
  ASSUME OrderlyInv, LimitsInv, NEW t \in TaskIds, NEW a \in Agents, RevealBid(t, a)
  PROVE  BidsCounted(t) /\ TasksCounted(t)
<1>0. TypeOK
  BY DEF OrderlyInv, PanelInv, LifecycleInv
<1>1. UNCHANGED <<taskCount, task, assignment, verifications, taskBidders, agentActiveBids,
                  posterActiveTasks>>
  BY DEF RevealBid, panelRecord
<1>2. status'[t] = (IF status[t] = "Open" THEN "BidReveal" ELSE status[t])
  BY <1>0 DEF TypeOK, RevealBid, StatusAfterReveal
<1>3. \A b \in Agents : bids'[t][b].committed = bids[t][b].committed
  <2>. TAKE b \in Agents
  <2>. DEFINE bid == bids[t][a]
  <2>1. bids[t] \in [Agents -> BidType] /\ bid \in BidType
    BY <1>0 DEF TypeOK
  <2>2. bids'[t] = [bids[t] EXCEPT ![a] = [bid EXCEPT !.revealed = TRUE]]
    BY <1>0 DEF TypeOK, RevealBid
  <2>3. [bid EXCEPT !.revealed = TRUE].committed = bid.committed
    BY <2>1 DEF BidType
  <2>4. CASE b = a
    BY <2>1, <2>2, <2>3, <2>4
  <2>5. CASE b # a
    BY <2>1, <2>2, <2>5
  <2>. QED BY <2>4, <2>5
<1>4. Auctioning(t)' = Auctioning(t) /\ (Escrowed(t)' <=> Escrowed(t))
  BY <1>1, <1>2 DEF Auctioning, EmergencyCancelled, Assigned, Escrowed, Tied, Live
<1>. QED BY <1>0, <1>1, <1>3, <1>4, SameBidding, SamePosted DEF Created

\* A cancelled or resolved auction counts none of its bids any more.
LEMMA AuctionEndsCounted ==
  ASSUME OrderlyInv, LimitsInv, NEW t \in TaskIds, CancelTask(t) \/ ResolveAuction(t)
  PROVE  BidsCounted(t) /\ TasksCounted(t)
<1>0. TypeOK /\ InPhase(t) /\ Orderly(t)
  BY DEF OrderlyInv, PanelInv, LifecycleInv, Sound
<1>1. /\ Created(t) /\ status[t] \in {"Open", "BidReveal"} /\ ReleaseBids(t)
      /\ UNCHANGED <<taskCount, task, bids, taskBidders>>
      /\ \/ status'[t] = "Cancelled" /\ ReleasePoster(t)
         \/ status'[t] = "Assigned" /\ UNCHANGED posterActiveTasks
  BY <1>0 DEF TypeOK, CancelTask, MayCancel, ResolveAuction
<1>2. Auctioning(t) /\ ~Auctioning(t)'
  BY <1>0, <1>1 DEF Auctioning, EmergencyCancelled, Orderly
<1>3. BidsCounted(t)
  BY <1>0, <1>1, <1>2, ReleasedBidding
<1>4. CASE status'[t] = "Cancelled" /\ ReleasePoster(t)
  <2>1. Escrowed(t) /\ ~Escrowed(t)'
    BY <1>1, <1>4 DEF Escrowed, Tied, Live
  <2>. QED BY <1>0, <1>1, <1>3, <1>4, <2>1, ReleasedPosted
<1>5. CASE status'[t] = "Assigned" /\ UNCHANGED posterActiveTasks
  <2>1. Escrowed(t)' <=> Escrowed(t)
    BY <1>1, <1>5 DEF Escrowed, Live
  <2>. QED BY <1>0, <1>1, <1>3, <1>5, <2>1, SamePosted DEF Created
<1>. QED BY <1>1, <1>4, <1>5

\* A bounty taken out in an emergency leaves the bids of an unfinished auction counted.
LEMMA EmergencyWithdrawBountyCounted ==
  ASSUME OrderlyInv, LimitsInv, NEW t \in TaskIds, EmergencyWithdrawBounty(t)
  PROVE  BidsCounted(t) /\ TasksCounted(t)
<1>0. TypeOK /\ InPhase(t)
  BY DEF OrderlyInv, PanelInv, LifecycleInv, Sound
<1>1. /\ Created(t) /\ status[t] \in Unsettled /\ ReleasePoster(t)
      /\ status'[t] = "Cancelled" /\ task'[t].bounty = 0
      /\ UNCHANGED <<taskCount, assignment, bids, taskBidders, agentActiveBids>>
  BY <1>0 DEF TypeOK, TaskType, EmergencyWithdrawBounty, BeforeCompletion, auctionRecord
<1>2. task'[t].poster = task[t].poster
  <2>. DEFINE old == task[t]
  <2>1. old \in TaskType /\ task'[t] = [old EXCEPT !.bounty = 0]
    BY <1>0 DEF TypeOK, EmergencyWithdrawBounty
  <2>2. [old EXCEPT !.bounty = 0].poster = old.poster
    BY <2>1 DEF TaskType
  <2>. QED BY <2>1, <2>2
<1>3. Escrowed(t) /\ ~Escrowed(t)'
  BY <1>1 DEF Escrowed, Tied, Live, Unsettled
<1>4. Auctioning(t)' = Auctioning(t)
  <2>1. CASE status[t] \in {"Open", "BidReveal"}
    <3>1. ~Assigned(t)
      BY <1>0, <2>1 DEF InPhase, Assigned, NoAssignment
    <3>. QED BY <1>1, <2>1, <3>1 DEF Auctioning, EmergencyCancelled, Assigned
  <2>2. CASE status[t] \notin {"Open", "BidReveal"}
    <3>1. Assigned(t)
      BY <1>0, <1>1, <2>2 DEF InPhase, Unsettled
    <3>. QED BY <1>1, <2>2, <3>1 DEF Auctioning, EmergencyCancelled, Assigned
  <2>. QED BY <2>1, <2>2
<1>. QED BY <1>0, <1>1, <1>2, <1>3, <1>4, SameBidding, ReleasedPosted DEF Created

\* A new task is counted for its poster, who had not reached the limit.
LEMMA CreateTaskCounted ==
  ASSUME OrderlyInv, LimitsInv, NEW p \in Posters, NEW terms \in Terms, CreateTask(p, terms),
         NEW t \in TaskIds, t = taskCount
  PROVE  BidsCounted(t) /\ TasksCounted(t)
<1>0. TypeOK /\ Orderly(t) /\ t \in Nat /\ MaxPosterActiveTasks \in Nat
  BY NatTime, ConstantsAssumption DEF OrderlyInv, PanelInv, LifecycleInv, ConstantsAssumption
<1>1. ~Created(t) /\ Created(t)'
  BY <1>0 DEF Created, CreateTask
<1>2. /\ status'[t] = "Open" /\ task'[t].poster = p
      /\ posterActiveTasks' = [posterActiveTasks EXCEPT ![p] = @ + 1]
      /\ posterActiveTasks[p] < MaxPosterActiveTasks
      /\ UNCHANGED <<bids, taskBidders, agentActiveBids>>
  BY <1>0 DEF TypeOK, CreateTask, auctionRecord
<1>3. \A a \in Agents : ~bids[t][a].committed
  BY <1>0, <1>1 DEF Orderly
<1>4. BidsCounted(t)
  <2>. SUFFICES ASSUME NEW a \in Agents
                PROVE  /\ agentActiveBids'[a] = (agentActiveBids[a] + Num(Bidding(t, a)')) - Num(Bidding(t, a))
                       /\ a \in Bidders(t)' => bids'[t][a].committed
    BY DEF BidsCounted
  <2>1. Num(Bidding(t, a)) = 0 /\ Num(Bidding(t, a)') = 0
    BY <1>2, <1>3 DEF Bidding, Num
  <2>2. Bidders(t)' = Bidders(t)
    BY <1>2 DEF Bidders
  <2>3. agentActiveBids[a] \in Int
    BY <1>0 DEF TypeOK
  <2>. QED BY <1>2, <2>1, <2>2, <2>3 DEF LimitsInv
<1>5. TasksCounted(t)
  <2>. SUFFICES ASSUME NEW x \in Posters
                PROVE  /\ posterActiveTasks'[x] = (posterActiveTasks[x] + Num(Posted(t, x)')) - Num(Posted(t, x))
                       /\ posterActiveTasks'[x] <= MaxPosterActiveTasks
    BY DEF TasksCounted
  <2>1. Escrowed(t)'
    BY <1>2 DEF Escrowed, Live
  <2>2. Num(Posted(t, x)) = 0 /\ Num(Posted(t, x)') = (IF x = p THEN 1 ELSE 0)
    BY <1>1, <1>2, <2>1 DEF Posted, Num
  <2>3. /\ posterActiveTasks'[x] = IF x = p THEN posterActiveTasks[x] + 1 ELSE posterActiveTasks[x]
        /\ posterActiveTasks[x] \in Int
    BY <1>0, <1>2 DEF TypeOK
  <2>4. posterActiveTasks[x] <= MaxPosterActiveTasks
    BY DEF LimitsInv
  <2>. QED BY <1>0, <1>2, <2>2, <2>3, <2>4
<1>. QED BY <1>4, <1>5

LEMMA TaskStepCounted ==
  ASSUME OrderlyInv, LimitsInv, NEW t \in TaskIds, TaskStep(t)
  PROVE  BidsCounted(t) /\ TasksCounted(t)
BY SubmitVerificationCounted, EnforceVerifierTimeoutCounted, WorkEndsCounted, WorkCounted,
   CommitBidCounted, RevealBidCounted, AuctionEndsCounted, EmergencyWithdrawBountyCounted
   DEF TaskStep

LEMMA OtherStepLimits ==
  ASSUME LimitsInv, OtherStep
  PROVE  LimitsInv'
<1>1. UNCHANGED <<agentActiveBids, posterActiveTasks>>
  BY DEF OtherStep, Tick, WithdrawProtocolFees, Pause, Unpause, UnbanAgent, vars, auctionRecord
<1>2. \A q \in TaskIds : /\ \A a : Bidding(q, a)' = Bidding(q, a)
                         /\ \A p : Posted(q, p)' = Posted(q, p)
                         /\ Bidders(q)' = Bidders(q)
                         /\ bids'[q] = bids[q]
  BY OtherStepKeeps, KeptCounts
<1>3. /\ \A a : {q \in TaskIds : Bidding(q, a)'} = {q \in TaskIds : Bidding(q, a)}
      /\ \A p : {q \in TaskIds : Posted(q, p)'} = {q \in TaskIds : Posted(q, p)}
  BY <1>2
<1>4. \A a \in Agents : agentActiveBids'[a] = Cardinality({q \in TaskIds : Bidding(q, a)'})
  BY <1>1, <1>3 DEF LimitsInv
<1>5. \A p \in Posters : posterActiveTasks'[p] = Cardinality({q \in TaskIds : Posted(q, p)'})
                         /\ posterActiveTasks'[p] <= MaxPosterActiveTasks
  BY <1>1, <1>3 DEF LimitsInv
<1>6. \A q \in TaskIds : \A a \in Agents \cap Bidders(q)' : bids'[q][a].committed
  BY <1>2 DEF LimitsInv
<1>. QED BY <1>4, <1>5, <1>6 DEF LimitsInv

LEMMA LimitsStep ==
  ASSUME OrderlyInv, LimitsInv, [Next]_vars
  PROVE  LimitsInv'
<1>0. TypeOK
  BY DEF OrderlyInv, PanelInv, LifecycleInv
<1>1. CASE OtherStep
  BY <1>1, OtherStepLimits
<1>2. ASSUME NEW p \in Posters, NEW terms \in Terms, CreateTask(p, terms) PROVE LimitsInv'
  <2>. PICK t \in TaskIds : t = taskCount
    BY <1>2 DEF CreateTask
  <2>1. \A q \in TaskIds \ {t} : Kept(q)
    BY <1>0, <1>2, CreateTaskKeeps
  <2>. QED BY <1>2, <2>1, CreateTaskCounted, CountedLimits
<1>3. ASSUME NEW t \in TaskIds, TaskStep(t) PROVE LimitsInv'
  <2>1. \A q \in TaskIds \ {t} : Kept(q)
    BY <1>0, <1>3, TaskStepKeeps
  <2>. QED BY <1>3, <2>1, TaskStepCounted, CountedLimits
<1>. QED BY <1>1, <1>2, <1>3, StepCases

LEMMA LimitsStart == Init => LimitsInv
<1>. SUFFICES ASSUME Init PROVE LimitsInv
  OBVIOUS
<1>1. \A t \in TaskIds : ~Created(t) /\ Bidders(t) = {}
  <2>. TAKE t \in TaskIds
  <2>1. t \in Nat /\ taskCount = 0 /\ taskBidders[t] = <<>>
    BY ConstantTypes DEF Init
  <2>. QED BY <2>1 DEF Created, Bidders
<1>2. /\ \A a : {t \in TaskIds : Bidding(t, a)} = {}
      /\ \A p : {t \in TaskIds : Posted(t, p)} = {}
  BY <1>1 DEF Bidding, Posted
<1>3. Cardinality({}) = 0 /\ MaxPosterActiveTasks \in Nat
  BY FS_EmptySet, ConstantsAssumption DEF ConstantsAssumption
<1>4. /\ \A a \in Agents : agentActiveBids[a] = 0
      /\ \A p \in Posters : posterActiveTasks[p] = 0
  BY DEF Init
<1>. QED BY <1>1, <1>2, <1>3, <1>4 DEF LimitsInv

\* An agent's counter is the number of its bids in unfinished auctions, and a poster's that
\* of its bounties in escrow, never more than the limit: no cancellation, settlement, timeout
\* or late reveal leaves a counter behind, but an emergency withdrawal from an unfinished
\* auction does, for good, on every bidder.
THEOREM LimitsAlwaysExact == Spec => []LimitsExact
<1>1. Init => OrderlyInv /\ LimitsInv
  BY OrderlyInit, LimitsStart
<1>2. OrderlyInv /\ LimitsInv /\ [Next]_vars => (OrderlyInv /\ LimitsInv)'
  BY OrderlyStep, LimitsStep
<1>3. OrderlyInv /\ LimitsInv => LimitsExact
  <2>. SUFFICES ASSUME LimitsInv PROVE LimitsExact
    OBVIOUS
  <2>1. ASSUME NEW a \in Agents
        PROVE  {t \in TaskIds : Bidding(t, a)} = {t \in AllCreated :
                 /\ bids[t][a].committed
                 /\ \/ status[t] \in {"Open", "BidReveal"}
                    \/ EmergencyCancelled(t) /\ ~Assigned(t)}
    BY DEF AllCreated, Bidding, Auctioning
  <2>2. ASSUME NEW p \in Posters
        PROVE  {t \in TaskIds : Posted(t, p)} = {t \in AllCreated : task[t].poster = p /\ Escrowed(t)}
    BY DEF AllCreated, Posted
  <2>. QED BY <2>1, <2>2 DEF LimitsInv, LimitsExact
<1>. QED BY <1>1, <1>2, <1>3, PTL DEF Spec
=============================================================================
