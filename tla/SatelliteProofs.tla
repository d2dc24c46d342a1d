--------------------------- MODULE SatelliteProofs ---------------------------
(***************************************************************************)
(* The promises of the contracts beside the core: the timelock, the        *)
(* outcome reports, the delegated stakes, the syndicates, the templates    *)
(* and the tasks of several agents, for any number of them, any amounts    *)
(* and any agents.  Of each contract: an invariant over its records and    *)
(* its money, that it starts in it, and that no call leaves it; and of the *)
(* programs that post tasks, that what they paid for is on record.  The    *)
(* contracts paid by checkpoint follow in AccountsProofs.                  *)
(***************************************************************************)
EXTENDS ArenaTimelock, Satellites, TaskPosters, FiniteSums, SequenceTheorems

-----------------------------------------------------------------------------
(* The timelock                                                            *)

\* What has been queued waits for the whole delay; what has not been queued has
\* an eta that expired before deployment, so nobody can execute it.
Waits(id) == id < txCount => queuedTxs[id].eta >= Deployed + Delay
Blank(id) == id >= txCount => queuedTxs[id].eta = 0 /\ ~queuedTxs[id].executed
QueueInv == \A id \in TxIds : Waits(id) /\ Blank(id)
TimelockInv == TypeOK /\ QueueInv /\ NeverBoth /\ FirstPause

LEMMA Constants ==
  /\ Delay \in Nat \ {0} /\ GracePeriod \in Nat \ {0} /\ PauseThreshold \in Nat \ {0}
  /\ MaxTxs \in Nat \ {0} /\ MaxTime \in Nat \ {0} /\ Deployed = GracePeriod + 1
  /\ Deployed <= MaxTime
BY TimelockAssumption DEF TimelockAssumption, Deployed

LEMMA TimelockInit == Init => TimelockInv
<1>. SUFFICES ASSUME Init PROVE TimelockInv
  OBVIOUS
<1>1. Unwritten \in TxType /\ Unwritten.eta = 0 /\ Unwritten.executed = FALSE
  BY DEF Unwritten, TxType, Calls
<1>2. queuedTxs \in [TxIds -> TxType]
      /\ \A id \in TxIds : queuedTxs[id].eta = 0 /\ ~queuedTxs[id].executed
  BY <1>1 DEF Init
<1>3. TypeOK
  <2>1. now \in Deployed .. MaxTime /\ txCount \in 0 .. MaxTxs /\ pausedAt \in 0 .. MaxTime
    BY Constants DEF Init
  <2>2. swept \in BOOLEAN
    BY DEF Init
  <2>. QED BY <1>2, <2>1, <2>2 DEF TypeOK
<1>. QED BY <1>2, <1>3, Constants DEF Init, TimelockInv, QueueInv, Waits, Blank, NeverBoth,
                                       FirstPause, Emergency, TxIds

LEMMA ExecutedIsQueued ==
  ASSUME TimelockInv, NEW id \in TxIds, ExecuteTransaction(id)
  PROVE  /\ id < txCount
         /\ ~queuedTxs[id].cancelled /\ ~queuedTxs[id].executed
         /\ now >= queuedTxs[id].eta /\ now <= queuedTxs[id].eta + GracePeriod
         /\ now >= Deployed + Delay
<1>1. /\ queuedTxs[id] \in TxType /\ now \in Nat /\ now >= Deployed /\ txCount \in Nat /\ id \in Nat
  BY Constants DEF TimelockInv, TypeOK, TxIds
<1>2. queuedTxs[id].eta \in Nat
  BY <1>1 DEF TxType
<1>3. /\ ~queuedTxs[id].cancelled /\ ~queuedTxs[id].executed
      /\ now >= queuedTxs[id].eta /\ now <= queuedTxs[id].eta + GracePeriod
  BY DEF ExecuteTransaction, Executable
<1>4. Waits(id) /\ Blank(id)
  BY DEF TimelockInv, QueueInv
<1>5. id < txCount
  BY <1>1, <1>2, <1>3, <1>4, Constants DEF Blank
<1>. QED BY <1>1, <1>2, <1>3, <1>4, <1>5, Constants DEF Waits

LEMMA TimelockStep == TimelockInv /\ [Next]_vars => TimelockInv'
<1>. SUFFICES ASSUME TimelockInv, [Next]_vars PROVE TimelockInv'
  OBVIOUS
<1>1. /\ now \in Deployed .. MaxTime /\ txCount \in 0 .. MaxTxs
      /\ queuedTxs \in [TxIds -> TxType] /\ pausedAt \in 0 .. MaxTime /\ swept \in BOOLEAN
  BY DEF TimelockInv, TypeOK
<1>2. ASSUME NEW id \in TxIds
      PROVE  id \in Nat /\ queuedTxs[id] \in TxType /\ queuedTxs[id].eta \in Nat
             /\ Waits(id) /\ Blank(id)
  BY <1>1 DEF TimelockInv, QueueInv, TxIds, TxType
<1>3. NeverBoth /\ FirstPause
  BY DEF TimelockInv
<1>4. CASE Advance
  <2>1. TypeOK'
    BY <1>1, <1>4, Constants DEF Advance, TypeOK, mainVars
  <2>2. QueueInv' /\ NeverBoth'
    BY <1>2, <1>3, <1>4 DEF Advance, QueueInv, Waits, Blank, NeverBoth
  <2>3. FirstPause'
    BY <1>1, <1>3, <1>4, Constants DEF Advance, FirstPause, Emergency, mainVars
  <2>. QED BY <2>1, <2>2, <2>3 DEF TimelockInv
<1>5. ASSUME NEW call \in Calls, QueueTransaction(call) PROVE TimelockInv'
  <2>. DEFINE new == [call |-> call, eta |-> now + Delay, executed |-> FALSE, cancelled |-> FALSE]
  <2>1. new \in TxType /\ new.eta = now + Delay /\ new.executed = FALSE
    BY <1>1, Constants DEF TxType
  <2>. HIDE DEF new
  <2>2. txCount < MaxTxs /\ txCount' = txCount + 1 /\ queuedTxs' = [queuedTxs EXCEPT ![txCount] = new]
        /\ now' = now /\ pausedAt' = pausedAt /\ swept' = swept
    BY <1>5 DEF QueueTransaction, Eta, new, mainVars
  <2>3. txCount \in TxIds
    BY <1>1, <2>2, Constants DEF TxIds
  <2>4. queuedTxs' \in [TxIds -> TxType] /\ queuedTxs'[txCount] = new
        /\ \A id \in TxIds \ {txCount} : queuedTxs'[id] = queuedTxs[id]
    BY <1>1, <2>1, <2>2, <2>3
  <2>5. TypeOK'
    BY <1>1, <2>2, <2>4, Constants DEF TypeOK
  <2>6. ASSUME NEW id \in TxIds PROVE (Waits(id) /\ Blank(id))'
    <3>1. CASE id = txCount
      BY <1>1, <2>1, <2>2, <2>4, <3>1, Constants DEF Waits, Blank
    <3>2. CASE id # txCount
      <4>1. queuedTxs'[id] = queuedTxs[id] /\ id \in Nat /\ Waits(id) /\ Blank(id)
        BY <1>2, <2>4, <3>2
      <4>2. (id < txCount' <=> id < txCount) /\ (id >= txCount' <=> id >= txCount)
        BY <1>1, <2>2, <3>2, <4>1
      <4>. QED BY <4>1, <4>2 DEF Waits, Blank
    <3>. QED BY <3>1, <3>2
  <2>7. ASSUME NEW id \in TxIds, id < txCount'
        PROVE  ~(queuedTxs'[id].executed /\ queuedTxs'[id].cancelled)
    <3>1. CASE id = txCount
      BY <2>1, <2>4, <3>1
    <3>2. CASE id # txCount
      <4>1. id < txCount
        BY <1>1, <1>2, <2>2, <2>7, <3>2
      <4>. QED BY <1>3, <2>4, <3>2, <4>1 DEF NeverBoth
    <3>. QED BY <3>1, <3>2
  <2>8. FirstPause'
    BY <1>3, <2>2 DEF FirstPause, Emergency
  <2>. QED BY <2>5, <2>6, <2>7, <2>8 DEF TimelockInv, QueueInv, NeverBoth
<1>6. ASSUME NEW id \in TxIds, ExecuteTransaction(id) PROVE TimelockInv'
  <2>. DEFINE new == [queuedTxs[id] EXCEPT !.executed = TRUE]
  <2>1. new \in TxType /\ new.eta = queuedTxs[id].eta /\ new.cancelled = queuedTxs[id].cancelled
    BY <1>2 DEF TxType
  <2>. HIDE DEF new
  <2>2. queuedTxs' = [queuedTxs EXCEPT ![id] = new] /\ now' = now /\ txCount' = txCount
    BY <1>6 DEF ExecuteTransaction, new
  <2>3. queuedTxs' \in [TxIds -> TxType] /\ queuedTxs'[id] = new
        /\ \A q \in TxIds \ {id} : queuedTxs'[q] = queuedTxs[q]
    BY <1>1, <2>1, <2>2
  <2>4. id < txCount /\ ~queuedTxs[id].cancelled /\ now >= Deployed + Delay
    BY <1>6, ExecutedIsQueued
  <2>5. \/ pausedAt' = now /\ swept' = swept
        \/ pausedAt' = 0 /\ swept' = swept
        \/ Emergency /\ swept' = TRUE /\ pausedAt' = pausedAt
        \/ pausedAt' = pausedAt /\ swept' = swept
    BY <1>6 DEF ExecuteTransaction, Perform, Pause, PauseTime, Unpause, EmergencySweep, mainVars
  <2>6. TypeOK'
    <3>1. now' \in Deployed .. MaxTime /\ txCount' \in 0 .. MaxTxs /\ pausedAt' \in 0 .. MaxTime
      BY <1>1, <2>2, <2>5, Constants
    <3>2. swept' \in BOOLEAN
      BY <1>1, <2>5, Zenon
    <3>. QED BY <2>3, <3>1, <3>2 DEF TypeOK
  <2>7. ASSUME NEW q \in TxIds
        PROVE  (Waits(q) /\ Blank(q))' /\ (q < txCount' => ~(queuedTxs'[q].executed /\ queuedTxs'[q].cancelled))
    <3>1. CASE q = id
      BY <1>1, <1>2, <2>1, <2>2, <2>3, <2>4, <3>1 DEF Waits, Blank
    <3>2. CASE q # id
      BY <1>2, <1>3, <2>2, <2>3, <3>2 DEF Waits, Blank, NeverBoth
    <3>. QED BY <3>1, <3>2
  <2>8. FirstPause'
    BY <1>1, <1>3, <2>2, <2>4, <2>5, Constants DEF FirstPause, Emergency
  <2>. QED BY <2>6, <2>7, <2>8 DEF TimelockInv, QueueInv, NeverBoth
<1>7. ASSUME NEW id \in TxIds, CancelTransaction(id) PROVE TimelockInv'
  <2>. DEFINE new == [queuedTxs[id] EXCEPT !.cancelled = TRUE]
  <2>1. new \in TxType /\ new.eta = queuedTxs[id].eta /\ new.executed = queuedTxs[id].executed
    BY <1>2 DEF TxType
  <2>. HIDE DEF new
  <2>2. queuedTxs' = [queuedTxs EXCEPT ![id] = new] /\ now' = now /\ txCount' = txCount
        /\ pausedAt' = pausedAt /\ swept' = swept /\ ~queuedTxs[id].executed
    BY <1>7 DEF CancelTransaction, Cancellable, new, mainVars
  <2>3. queuedTxs' \in [TxIds -> TxType] /\ queuedTxs'[id] = new
        /\ \A q \in TxIds \ {id} : queuedTxs'[q] = queuedTxs[q]
    BY <1>1, <2>1, <2>2
  <2>4. TypeOK'
    BY <1>1, <2>2, <2>3 DEF TypeOK
  <2>5. ASSUME NEW q \in TxIds
        PROVE  (Waits(q) /\ Blank(q))' /\ (q < txCount' => ~(queuedTxs'[q].executed /\ queuedTxs'[q].cancelled))
    <3>1. CASE q = id
      BY <1>2, <2>1, <2>2, <2>3, <3>1 DEF Waits, Blank
    <3>2. CASE q # id
      BY <1>2, <1>3, <2>2, <2>3, <3>2 DEF Waits, Blank, NeverBoth
    <3>. QED BY <3>1, <3>2
  <2>6. FirstPause'
    BY <1>3, <2>2 DEF FirstPause, Emergency
  <2>. QED BY <2>4, <2>5, <2>6 DEF TimelockInv, QueueInv, NeverBoth
<1>8. CASE UNCHANGED vars
  BY <1>8 DEF vars, mainVars, TimelockInv, TypeOK, QueueInv, Waits, Blank, NeverBoth, FirstPause,
              Emergency
<1>. QED BY <1>4, <1>5, <1>6, <1>7, <1>8 DEF Next

\* The inductive invariant holds in every state, whatever is queued, executed and
\* cancelled.
THEOREM TimelockInvariant == Spec => []TimelockInv
BY TimelockInit, TimelockStep, PTL DEF Spec

\* No queued transaction is ever both executed and cancelled.
THEOREM ExecutedOrCancelled == Spec => []NeverBoth
<1>1. TimelockInv => NeverBoth
  BY DEF TimelockInv
<1>. QED BY <1>1, TimelockInvariant, PTL

\* Main is never paused, and its emergency exits never open, before the delays: there
\* is no bypass for emergencies, which ArenaTimelock.sol:11 announces.
THEOREM PauseTakesNotice == Spec => []FirstPause
<1>1. TimelockInv => FirstPause
  BY DEF TimelockInv
<1>. QED BY <1>1, TimelockInvariant, PTL

\* Every change of Main, pauses included, was queued, waited for and not cancelled.
THEOREM MainChangesWithNotice == Spec => NoticeGiven
<1>. DEFINE Noticed == mainVars' # mainVars =>
       \E id \in TxIds :
         /\ id < txCount
         /\ ~queuedTxs[id].cancelled /\ ~queuedTxs[id].executed /\ queuedTxs'[id].executed
         /\ now >= queuedTxs[id].eta /\ now <= queuedTxs[id].eta + GracePeriod
<1>1. TimelockInv /\ [Next]_vars => [Noticed]_vars
  <2>. SUFFICES ASSUME TimelockInv, Next, mainVars' # mainVars PROVE Noticed
    BY DEF vars, mainVars
  <2>1. PICK id \in TxIds : ExecuteTransaction(id)
    BY DEF Next, Advance, QueueTransaction, CancelTransaction, mainVars
  <2>2. /\ id < txCount
        /\ ~queuedTxs[id].cancelled /\ ~queuedTxs[id].executed
        /\ now >= queuedTxs[id].eta /\ now <= queuedTxs[id].eta + GracePeriod
    BY <2>1, ExecutedIsQueued
  <2>3. queuedTxs'[id].executed
    <3>1. queuedTxs \in [TxIds -> TxType] /\ queuedTxs' = [queuedTxs EXCEPT ![id].executed = TRUE]
      BY <2>1 DEF ExecuteTransaction, TimelockInv, TypeOK
    <3>2. queuedTxs[id] \in TxType /\ queuedTxs'[id] = [queuedTxs[id] EXCEPT !.executed = TRUE]
      BY <3>1
    <3>. QED BY <3>2 DEF TxType
  <2>. QED BY <2>2, <2>3
<1>. QED BY <1>1, TimelockInvariant, PTL DEF NoticeGiven, Spec

-----------------------------------------------------------------------------
(* Outcome reports                                                         *)

\* The sums of the reports are sums of the library.
LEMMA OutcomesSum ==
  ASSUME NEW fun, NEW S
  PROVE  Outcomes!SumFunctionOnSet(fun, S) = SumFunctionOnSet(fun, S)
BY DEF Outcomes!SumFunctionOnSet, Outcomes!FoldFunctionOnSet, Outcomes!MapThenFoldSet,
       SumFunctionOnSet, FoldFunctionOnSet, MapThenFoldSet

OutcomesInv ==
  /\ Outcomes!TypeOK
  /\ Outcomes!HoldsPendingBonds
  /\ Outcomes!SlashedAfterWindow

\* The contract starts in the invariant.
LEMMA OutcomesInit == Outcomes!Init => OutcomesInv
<1>. SUFFICES ASSUME Outcomes!Init PROVE OutcomesInv
  OBVIOUS
<1>1. Outcomes!NewTask \in Outcomes!LifeType
  BY SatelliteAssumption DEF Outcomes!NewTask, Outcomes!LifeType, Outcomes!Phases
<1>2. Outcomes!NoReport \in Outcomes!ReportType
  BY SatelliteAssumption
  DEF Outcomes!NoReport, Outcomes!ReportType, Outcomes!SlashBps
<1>3. Outcomes!TypeOK
  BY <1>1, <1>2, SatelliteAssumption
  DEF Outcomes!Init, Outcomes!LifecycleInit, Outcomes!TypeOK, Outcomes!LifecycleTypeOK
<1>4. Outcomes!Pending = {}
  <2>1. \A t \in OutcomeTasks : reports[t].status = "None"
    BY DEF Outcomes!Init, Outcomes!NoReport
  <2>. QED BY <2>1 DEF Outcomes!Pending
<1>5. Outcomes!HoldsPendingBonds
  BY <1>4, SumEmpty, OutcomesSum DEF Outcomes!Init, Outcomes!HoldsPendingBonds
<1>6. Outcomes!SlashedAfterWindow
  BY DEF Outcomes!Init, Outcomes!LifecycleInit, Outcomes!NewTask, Outcomes!SlashedAfterWindow
<1>. QED BY <1>3, <1>5, <1>6 DEF OutcomesInv

\* What the core does to a task alone leaves the bond's slash as it is.
Kept(t, after) == after.bondSlashed = life[t].bondSlashed

\* A share of an amount is an amount.
LEMMA OutcomeShare ==
  ASSUME NEW amount \in Nat, NEW bps \in Nat
  PROVE  Outcomes!Share(amount, bps) \in Nat
BY DEF Outcomes!Share

\* What the core does to a task alone leaves a sound task, and its bond's slash as it
\* was.
LEMMA CoreKeeps ==
  ASSUME Outcomes!LifecycleTypeOK, NEW t \in OutcomeTasks, Outcomes!TaskStep(t)
  PROVE  \E after \in Outcomes!LifeType : Outcomes!Becomes(t, after) /\ Kept(t, after)
<1>. DEFINE k == life[t]
<1>1. k \in Outcomes!LifeType /\ outcomeNow \in 0 .. OutcomeMaxTime
  BY SatelliteAssumption DEF Outcomes!LifecycleTypeOK
<1>2. ASSUME NEW agent \in OutcomeAgents, NEW stake \in Stakes, NEW window \in Windows,
             Outcomes!Assign(t, agent, stake, window)
      PROVE  \E after \in Outcomes!LifeType : Outcomes!Becomes(t, after) /\ Kept(t, after)
  <2>. DEFINE after == [k EXCEPT !.phase = "Assigned", !.agent = agent, !.stake = stake,
                                 !.slashWindow = window]
  <2>1. after \in Outcomes!LifeType /\ Kept(t, after)
    BY <1>1, SatelliteAssumption DEF Outcomes!LifeType, Outcomes!Phases, Kept
  <2>. QED BY <1>2, <2>1 DEF Outcomes!Assign
<1>3. CASE Outcomes!WithdrawStake(t)
  <2>1. [k EXCEPT !.stake = 0] \in Outcomes!LifeType /\ Kept(t, [k EXCEPT !.stake = 0])
    BY <1>1 DEF Outcomes!LifeType, Kept
  <2>. QED BY <1>3, <2>1 DEF Outcomes!WithdrawStake
<1>4. CASE Outcomes!Deliver(t)
  <2>. DEFINE after == [k EXCEPT !.phase = "Delivered", !.deliveredAt = outcomeNow]
  <2>1. after \in Outcomes!LifeType /\ Kept(t, after)
    BY <1>1 DEF Outcomes!LifeType, Outcomes!Phases, Kept
  <2>. QED BY <1>4, <2>1 DEF Outcomes!Deliver
<1>5. CASE Outcomes!Verify(t) \/ Outcomes!Dispute(t) \/ Outcomes!Cancel(t)
  <2>1. \A phase \in Outcomes!Phases : /\ [k EXCEPT !.phase = phase] \in Outcomes!LifeType
                                       /\ Kept(t, [k EXCEPT !.phase = phase])
    BY <1>1 DEF Outcomes!LifeType, Kept
  <2>. QED BY <1>5, <2>1
           DEF Outcomes!Verify, Outcomes!Dispute, Outcomes!Cancel, Outcomes!Phases
<1>6. CASE Outcomes!Complete(t)
  <2>. DEFINE bond == Outcomes!Share(k.stake, Outcomes!BondBps)
              after == [k EXCEPT !.phase = "Completed", !.bond = bond]
  <2>1. bond \in Nat
    <3>1. k.stake \in Nat /\ Outcomes!BondBps \in Nat
      BY <1>1 DEF Outcomes!LifeType, Outcomes!BondBps
    <3>. HIDE DEF k
    <3>. QED BY <3>1, OutcomeShare
  <2>2. after \in Outcomes!LifeType /\ Kept(t, after)
    BY <1>1, <2>1 DEF Outcomes!LifeType, Outcomes!Phases, Kept
  <2>. QED BY <1>6, <2>2 DEF Outcomes!Complete
<1>7. ASSUME NEW severity \in {"Late", "Material"}, Outcomes!Fail(t, severity)
      PROVE  \E after \in Outcomes!LifeType : Outcomes!Becomes(t, after) /\ Kept(t, after)
  <2>. DEFINE slash == Outcomes!Share(k.stake, Outcomes!SlashBps[severity])
              after == [k EXCEPT !.phase = "Failed", !.slashed = slash]
  <2>1. Outcomes!SlashBps[severity] \in Nat
    BY DEF Outcomes!SlashBps
  <2>2. slash \in Nat
    BY <1>1, <2>1, OutcomeShare DEF Outcomes!LifeType
  <2>3. after \in Outcomes!LifeType /\ Kept(t, after)
    BY <1>1, <2>2 DEF Outcomes!LifeType, Outcomes!Phases, Kept
  <2>. QED BY <1>7, <2>3 DEF Outcomes!Fail
<1>8. CASE Outcomes!ClaimBond(t)
  <2>1. [k EXCEPT !.bond = 0] \in Outcomes!LifeType /\ Kept(t, [k EXCEPT !.bond = 0])
    BY <1>1 DEF Outcomes!LifeType, Kept
  <2>. QED BY <1>8, <2>1 DEF Outcomes!ClaimBond
<1>. QED BY <1>2, <1>3, <1>4, <1>5, <1>6, <1>7, <1>8 DEF Outcomes!TaskStep

\* Reports that do not change owe what they owed, and what they excuse stays excused.
LEMMA ReportsStay ==
  ASSUME OutcomesInv, UNCHANGED <<reports, outcomeBalance>>, outcomeNow' \in Int,
         outcomeNow <= outcomeNow', Outcomes!TypeOK',
         \A t \in OutcomeTasks : life'[t].bondSlashed = life[t].bondSlashed
  PROVE  OutcomesInv'
<1>1. Outcomes!HoldsPendingBonds'
  BY DEF OutcomesInv, Outcomes!HoldsPendingBonds, Outcomes!Pending
<1>2. ASSUME NEW t \in OutcomeTasks, life'[t].bondSlashed # 0
      PROVE  /\ reports'[t].status = "Finalized"
             /\ outcomeNow' > reports'[t].reportedAt + ChallengePeriod
  <2>1. reports[t].status = "Finalized" /\ outcomeNow > reports[t].reportedAt + ChallengePeriod
    BY <1>2 DEF OutcomesInv, Outcomes!SlashedAfterWindow
  <2>2. reports[t].reportedAt \in Int /\ outcomeNow \in Int /\ ChallengePeriod \in Int
    BY SatelliteAssumption
    DEF OutcomesInv, Outcomes!TypeOK, Outcomes!LifecycleTypeOK, Outcomes!ReportType
  <2>. QED BY <2>1, <2>2
<1>. QED BY <1>1, <1>2 DEF OutcomesInv, Outcomes!SlashedAfterWindow

\* The core's own steps keep the invariant: no bond is slashed by them.
LEMMA LifeChanges ==
  ASSUME OutcomesInv, Outcomes!LifecycleNext, UNCHANGED <<riskCriteria, creditCriteria, reports,
         outcomeBalance>>
  PROVE  OutcomesInv'
<1>1. CASE Outcomes!Advance
  <2>1. Outcomes!TypeOK' /\ outcomeNow' \in Int /\ outcomeNow <= outcomeNow'
    BY <1>1, SatelliteAssumption
    DEF OutcomesInv, Outcomes!TypeOK, Outcomes!LifecycleTypeOK, Outcomes!Advance
  <2>. QED BY <1>1, <2>1, ReportsStay DEF Outcomes!Advance
<1>2. ASSUME NEW t \in OutcomeTasks, Outcomes!TaskStep(t)
      PROVE  OutcomesInv'
  <2>1. PICK after \in Outcomes!LifeType : Outcomes!Becomes(t, after) /\ Kept(t, after)
    BY <1>2, CoreKeeps DEF OutcomesInv, Outcomes!TypeOK
  <2>2. life' = [life EXCEPT ![t] = after] /\ outcomeNow' = outcomeNow
    BY <2>1 DEF Outcomes!Becomes
  <2>3. life \in [OutcomeTasks -> Outcomes!LifeType] /\ outcomeNow \in Int
    BY SatelliteAssumption DEF OutcomesInv, Outcomes!TypeOK, Outcomes!LifecycleTypeOK
  <2>4. Outcomes!TypeOK'
    BY <2>2, <2>3 DEF OutcomesInv, Outcomes!TypeOK, Outcomes!LifecycleTypeOK
  <2>5. \A u \in OutcomeTasks : life'[u].bondSlashed = life[u].bondSlashed
    BY <2>1, <2>2, <2>3 DEF Kept
  <2>. QED BY <2>2, <2>3, <2>4, <2>5, ReportsStay
<1>. QED BY <1>1, <1>2 DEF Outcomes!LifecycleNext

\* A report that becomes pending adds its bond, one that ends takes it away.
BondsOf(t) == IF reports[t].status = "Pending" THEN reports[t].bond ELSE 0

\* The bonds of the pending reports, as a sum over all tasks.
LEMMA PendingBonds ==
  ASSUME Outcomes!TypeOK
  PROVE  SumFunctionOnSet([t \in OutcomeTasks |-> reports[t].bond], Outcomes!Pending)
           = SumFunctionOnSet([t \in OutcomeTasks |-> BondsOf(t)], OutcomeTasks)
<1>. DEFINE bond == [t \in OutcomeTasks |-> reports[t].bond]
            owed == [t \in OutcomeTasks |-> BondsOf(t)]
<1>1. IsFiniteSet(OutcomeTasks)
  BY SatelliteAssumption
<1>2. Outcomes!Pending \in SUBSET OutcomeTasks
  BY DEF Outcomes!Pending
<1>3. \A t \in Outcomes!Pending : bond[t] \in Int /\ owed[t] = bond[t]
  BY DEF Outcomes!Pending, BondsOf, Outcomes!TypeOK, Outcomes!ReportType
<1>4. \A t \in OutcomeTasks \ Outcomes!Pending : owed[t] = 0
  BY DEF Outcomes!Pending, BondsOf
<1>. HIDE DEF bond, owed
<1>5. SumFunctionOnSet(owed, OutcomeTasks) = SumFunctionOnSet(bond, Outcomes!Pending)
  BY <1>1, <1>2, <1>3, <1>4, SumWhere
<1>. QED BY <1>5 DEF bond, owed

\* A step that changes one report and moves exactly its bond.
LEMMA OneReport ==
  ASSUME OutcomesInv, NEW t \in OutcomeTasks, NEW after \in Outcomes!ReportType,
         reports' = [reports EXCEPT ![t] = after], outcomeBalance' \in Int,
         outcomeBalance' = outcomeBalance - BondsOf(t)
                             + IF after.status = "Pending" THEN after.bond ELSE 0
  PROVE  /\ reports' \in [OutcomeTasks -> Outcomes!ReportType]
         /\ outcomeBalance' \in Nat
         /\ Outcomes!HoldsPendingBonds'
<1>. DEFINE owed == [u \in OutcomeTasks |-> BondsOf(u)]
            own == [u \in OutcomeTasks |-> BondsOf(u)']
            sum == SumFunctionOnSet(owed, OutcomeTasks)
<1>1. reports \in [OutcomeTasks -> Outcomes!ReportType]
  BY DEF OutcomesInv, Outcomes!TypeOK
<1>2. reports' \in [OutcomeTasks -> Outcomes!ReportType]
  BY <1>1
<1>3. /\ \A u \in OutcomeTasks : owed[u] \in Nat /\ own[u] \in Nat
      /\ \A u \in OutcomeTasks \ {t} : own[u] = owed[u]
      /\ owed[t] = BondsOf(t) /\ own[t] = IF after.status = "Pending" THEN after.bond ELSE 0
  BY <1>1, <1>2 DEF BondsOf, Outcomes!ReportType
<1>4. outcomeBalance = sum
  BY PendingBonds, OutcomesSum DEF OutcomesInv, Outcomes!HoldsPendingBonds
<1>5. IsFiniteSet(OutcomeTasks)
  BY SatelliteAssumption
<1>. HIDE DEF owed, own
<1>6. sum \in Int
  BY <1>3, <1>5, SumInt
<1>7. SumFunctionOnSet(own, OutcomeTasks) = sum - owed[t] + own[t]
  BY <1>3, <1>5, SumUpdate
<1>8. outcomeBalance' = SumFunctionOnSet(own, OutcomeTasks)
  BY <1>3, <1>4, <1>6, <1>7
<1>9. outcomeBalance' \in Nat
  BY <1>3, <1>5, <1>8, SumNat
<1>10. Outcomes!HoldsPendingBonds'
  <2>. DEFINE bond == [u \in OutcomeTasks |-> reports'[u].bond]
              pending == {u \in OutcomeTasks : reports'[u].status = "Pending"}
  <2>1. \A u \in pending : bond[u] \in Int /\ own[u] = bond[u]
    BY <1>2 DEF own, BondsOf, Outcomes!ReportType
  <2>2. \A u \in OutcomeTasks \ pending : own[u] = 0
    BY DEF own, BondsOf
  <2>3. pending \in SUBSET OutcomeTasks
    OBVIOUS
  <2>4. outcomeBalance' = SumFunctionOnSet(bond, pending)
    <3>. HIDE DEF bond, pending
    <3>1. SumFunctionOnSet(own, OutcomeTasks) = SumFunctionOnSet(bond, pending)
      BY <1>5, <2>1, <2>2, <2>3, SumWhere
    <3>. QED BY <1>8, <3>1
  <2>. QED BY <2>4, OutcomesSum DEF Outcomes!HoldsPendingBonds, Outcomes!Pending
<1>. QED BY <1>2, <1>9, <1>10

\* Filing: by anybody, once, with a bond that is a share of the stake.
LEMMA FilingKeeps ==
  ASSUME OutcomesInv, NEW t \in OutcomeTasks, NEW r \in Reporters,
         NEW severity \in DOMAIN Outcomes!SlashBps, NEW window,
         Outcomes!Reportable(t, window), Outcomes!File(t, r, severity),
         UNCHANGED <<outcomeNow, life>>
  PROVE  OutcomesInv'
<1>. DEFINE bond == Outcomes!Share(life[t].stake, Outcomes!ReportBondBps)
            after == [reporter |-> r, bond |-> bond, reportedAt |-> outcomeNow,
                      severity |-> severity, status |-> "Pending"]
<1>1. /\ outcomeNow \in 0 .. OutcomeMaxTime /\ outcomeBalance \in Nat
      /\ life[t] \in Outcomes!LifeType /\ reports \in [OutcomeTasks -> Outcomes!ReportType]
  BY SatelliteAssumption DEF OutcomesInv, Outcomes!TypeOK, Outcomes!LifecycleTypeOK
<1>2. bond \in Nat
  <2>1. life[t].stake \in Nat /\ Outcomes!ReportBondBps \in Nat
    BY <1>1 DEF Outcomes!LifeType, Outcomes!ReportBondBps
  <2>. QED BY <2>1, OutcomeShare
<1>3. after \in Outcomes!ReportType
  BY <1>1, <1>2 DEF Outcomes!ReportType
<1>4. /\ reports' = [reports EXCEPT ![t] = after]
      /\ outcomeBalance' = outcomeBalance + bond
      /\ UNCHANGED <<riskCriteria, creditCriteria>>
      /\ BondsOf(t) = 0 /\ reports[t].status = "None"
  BY DEF Outcomes!File, Outcomes!Reportable, BondsOf
<1>5. /\ reports' \in [OutcomeTasks -> Outcomes!ReportType]
      /\ outcomeBalance' \in Nat
      /\ Outcomes!HoldsPendingBonds'
  <2>1. outcomeBalance' = outcomeBalance - BondsOf(t)
                            + IF after.status = "Pending" THEN after.bond ELSE 0
    BY <1>1, <1>2, <1>4
  <2>2. outcomeBalance' \in Int
    BY <1>1, <1>2, <1>4
  <2>. HIDE DEF after
  <2>. QED BY <1>3, <1>4, <2>1, <2>2, OneReport
<1>6. Outcomes!TypeOK'
  BY <1>4, <1>5 DEF OutcomesInv, Outcomes!TypeOK, Outcomes!LifecycleTypeOK
<1>7. Outcomes!SlashedAfterWindow'
  <2>1. \A u \in OutcomeTasks : u # t => reports'[u] = reports[u]
    BY <1>1, <1>4
  <2>2. life[t].bondSlashed = 0
    BY <1>4 DEF OutcomesInv, Outcomes!SlashedAfterWindow
  <2>. QED BY <2>1, <2>2 DEF OutcomesInv, Outcomes!SlashedAfterWindow
<1>. QED BY <1>5, <1>6, <1>7 DEF OutcomesInv

\* registerRiskCriteria, registerCreditCriteria and the reports.
LEMMA ReportingKeeps ==
  ASSUME OutcomesInv, NEW t \in OutcomeTasks, Outcomes!Reporting(t), UNCHANGED <<outcomeNow, life>>
  PROVE  OutcomesInv'
<1>1. ASSUME NEW terms \in RiskTerms, Outcomes!RegisterRiskCriteria(t, terms)
      PROVE  OutcomesInv'
  <2>1. Outcomes!TypeOK' /\ outcomeNow' \in Int /\ outcomeNow <= outcomeNow'
    BY <1>1, SatelliteAssumption
    DEF OutcomesInv, Outcomes!TypeOK, Outcomes!LifecycleTypeOK, Outcomes!RegisterRiskCriteria
  <2>. QED BY <1>1, <2>1, ReportsStay DEF Outcomes!RegisterRiskCriteria
<1>2. ASSUME NEW terms \in CreditTerms, Outcomes!RegisterCreditCriteria(t, terms)
      PROVE  OutcomesInv'
  <2>1. Outcomes!TypeOK' /\ outcomeNow' \in Int /\ outcomeNow <= outcomeNow'
    BY <1>2, SatelliteAssumption
    DEF OutcomesInv, Outcomes!TypeOK, Outcomes!LifecycleTypeOK, Outcomes!RegisterCreditCriteria
  <2>. QED BY <1>2, <2>1, ReportsStay DEF Outcomes!RegisterCreditCriteria
<1>3. ASSUME NEW r \in Reporters, NEW o \in RiskOutcomes, Outcomes!ReportRiskOutcome(t, r, o)
      PROVE  OutcomesInv'
  <2>1. Outcomes!RiskSeverity(o[1]) \in DOMAIN Outcomes!SlashBps
    BY DEF Outcomes!RiskSeverity, Outcomes!SlashBps
  <2>. QED BY <1>3, <2>1, FilingKeeps DEF Outcomes!ReportRiskOutcome
<1>4. ASSUME NEW r \in Reporters, NEW p \in CreditOutcomes, Outcomes!ReportCreditDefault(t, r, p)
      PROVE  OutcomesInv'
  <2>1. \A gap : Outcomes!CreditSeverity(gap) \in DOMAIN Outcomes!SlashBps
    BY DEF Outcomes!CreditSeverity, Outcomes!SlashBps
  <2>. QED BY <1>4, <2>1, FilingKeeps DEF Outcomes!ReportCreditDefault
<1>. QED BY <1>1, <1>2, <1>3, <1>4 DEF Outcomes!Reporting

\* challengeReport pays out the bond of the report it ends.
LEMMA ChallengeKeeps ==
  ASSUME OutcomesInv, NEW t \in OutcomeTasks, Outcomes!ChallengeReport(t)
  PROVE  OutcomesInv'
<1>. DEFINE after == [reports[t] EXCEPT !.status = "Challenged"]
<1>1. /\ outcomeBalance \in Nat /\ reports \in [OutcomeTasks -> Outcomes!ReportType]
  BY DEF OutcomesInv, Outcomes!TypeOK
<1>2. /\ after \in Outcomes!ReportType /\ after.status = "Challenged"
      /\ reports[t].bond \in Nat
  BY <1>1 DEF Outcomes!ReportType
<1>3. /\ reports' = [reports EXCEPT ![t] = after]
      /\ outcomeBalance' = outcomeBalance - reports[t].bond
      /\ UNCHANGED <<riskCriteria, creditCriteria, outcomeNow, life>>
      /\ BondsOf(t) = reports[t].bond /\ reports[t].status = "Pending"
  BY DEF Outcomes!ChallengeReport, Outcomes!Challengeable, BondsOf, Outcomes!lifecycleVars
<1>4. /\ reports' \in [OutcomeTasks -> Outcomes!ReportType]
      /\ outcomeBalance' \in Nat
      /\ Outcomes!HoldsPendingBonds'
  <2>1. outcomeBalance' = outcomeBalance - BondsOf(t)
                            + IF after.status = "Pending" THEN after.bond ELSE 0
    BY <1>1, <1>2, <1>3
  <2>2. outcomeBalance' \in Int
    BY <1>1, <1>2, <1>3
  <2>. HIDE DEF after
  <2>. QED BY <1>2, <1>3, <2>1, <2>2, OneReport
<1>5. Outcomes!TypeOK'
  BY <1>3, <1>4 DEF OutcomesInv, Outcomes!TypeOK, Outcomes!LifecycleTypeOK
<1>6. Outcomes!SlashedAfterWindow'
  <2>1. \A u \in OutcomeTasks : u # t => reports'[u] = reports[u]
    BY <1>1, <1>3
  <2>2. life[t].bondSlashed = 0
    BY <1>3 DEF OutcomesInv, Outcomes!SlashedAfterWindow
  <2>. QED BY <1>3, <2>1, <2>2 DEF OutcomesInv, Outcomes!SlashedAfterWindow
<1>. QED BY <1>4, <1>5, <1>6 DEF OutcomesInv

\* finalizeReport slashes after the window only, and pays the bond back.
LEMMA FinalizeKeeps ==
  ASSUME OutcomesInv, NEW t \in OutcomeTasks, Outcomes!FinalizeReport(t)
  PROVE  OutcomesInv'
<1>. DEFINE after == [reports[t] EXCEPT !.status = "Finalized"]
            slash == Outcomes!Share(life[t].bond, Outcomes!SlashBps[reports[t].severity])
            own == [life[t] EXCEPT !.phase = "Failed", !.bond = 0, !.bondSlashed = slash]
<1>1. /\ outcomeBalance \in Nat /\ reports \in [OutcomeTasks -> Outcomes!ReportType]
      /\ life \in [OutcomeTasks -> Outcomes!LifeType] /\ outcomeNow \in 1 .. OutcomeMaxTime
  BY DEF OutcomesInv, Outcomes!TypeOK, Outcomes!LifecycleTypeOK
<1>2. /\ after \in Outcomes!ReportType /\ after.status = "Finalized"
      /\ after.reportedAt = reports[t].reportedAt
      /\ reports[t].bond \in Nat
  BY <1>1 DEF Outcomes!ReportType
<1>3. own \in Outcomes!LifeType
  <2>1. Outcomes!SlashBps[reports[t].severity] \in Nat
    <3>1. reports[t].severity \in DOMAIN Outcomes!SlashBps
      BY <1>1 DEF Outcomes!ReportType
    <3>. QED BY <3>1 DEF Outcomes!SlashBps
  <2>2. slash \in Nat
    BY <1>1, <2>1, OutcomeShare DEF Outcomes!LifeType
  <2>. QED BY <1>1, <2>2 DEF Outcomes!LifeType, Outcomes!Phases
<1>4. /\ reports' = [reports EXCEPT ![t] = after]
      /\ outcomeBalance' = outcomeBalance - reports[t].bond
      /\ life' = [life EXCEPT ![t] = own]
      /\ UNCHANGED <<riskCriteria, creditCriteria, outcomeNow>>
      /\ BondsOf(t) = reports[t].bond
      /\ outcomeNow > reports[t].reportedAt + ChallengePeriod
  BY DEF Outcomes!FinalizeReport, Outcomes!ChallengeOver, Outcomes!SlashBond, Outcomes!Becomes,
         BondsOf
<1>5. /\ reports' \in [OutcomeTasks -> Outcomes!ReportType]
      /\ outcomeBalance' \in Nat
      /\ Outcomes!HoldsPendingBonds'
  <2>1. outcomeBalance' = outcomeBalance - BondsOf(t)
                            + IF after.status = "Pending" THEN after.bond ELSE 0
    BY <1>1, <1>2, <1>4
  <2>2. outcomeBalance' \in Int
    BY <1>1, <1>2, <1>4
  <2>. HIDE DEF after
  <2>. QED BY <1>2, <1>4, <2>1, <2>2, OneReport
<1>. HIDE DEF own, after
<1>6. Outcomes!TypeOK'
  BY <1>1, <1>3, <1>4, <1>5 DEF OutcomesInv, Outcomes!TypeOK, Outcomes!LifecycleTypeOK
<1>7. Outcomes!SlashedAfterWindow'
  <2>1. \A u \in OutcomeTasks : u # t => reports'[u] = reports[u] /\ life'[u] = life[u]
    BY <1>1, <1>4
  <2>2. reports'[t] = after
    BY <1>1, <1>4
  <2>. QED BY <1>2, <1>4, <2>1, <2>2 DEF OutcomesInv, Outcomes!SlashedAfterWindow
<1>. QED BY <1>5, <1>6, <1>7 DEF OutcomesInv

\* No step of the core or of the reports leaves the invariant.
LEMMA OutcomesStepKeeps == OutcomesInv /\ [Outcomes!Next]_outcomesAll => OutcomesInv'
<1>. SUFFICES ASSUME OutcomesInv, [Outcomes!Next]_outcomesAll PROVE OutcomesInv'
  OBVIOUS
<1>1. CASE Outcomes!LifecycleNext /\ UNCHANGED Outcomes!outcomeVars
  BY <1>1, LifeChanges DEF Outcomes!outcomeVars
<1>2. ASSUME NEW t \in OutcomeTasks, Outcomes!Reporting(t), UNCHANGED Outcomes!lifecycleVars
      PROVE  OutcomesInv'
  BY <1>2, ReportingKeeps DEF Outcomes!lifecycleVars
<1>3. ASSUME NEW t \in OutcomeTasks, Outcomes!ChallengeReport(t) PROVE OutcomesInv'
  BY <1>3, ChallengeKeeps
<1>4. ASSUME NEW t \in OutcomeTasks, Outcomes!FinalizeReport(t) PROVE OutcomesInv'
  BY <1>4, FinalizeKeeps
<1>5. CASE UNCHANGED outcomesAll
  BY <1>5 DEF outcomesAll, OutcomesInv, Outcomes!TypeOK, Outcomes!LifecycleTypeOK,
              Outcomes!HoldsPendingBonds, Outcomes!Pending, Outcomes!SlashedAfterWindow
<1>. QED BY <1>1, <1>2, <1>3, <1>4, <1>5 DEF Outcomes!Next

-----------------------------------------------------------------------------
(* Lists without repetition, from which an element is taken out.           *)

Elements(l) == {l[i] : i \in 1 .. Len(l)}
Distinct(l) == \A i, j \in 1 .. Len(l) : l[i] = l[j] => i = j
\* The last element in the place of the i-th.
Swapped(l, i) == [j \in 1 .. Len(l) - 1 |-> IF j = i THEN l[Len(l)] ELSE l[j]]

\* Taking one out by the swap of the last loses that one and nothing else.
LEMMA SwappedList ==
  ASSUME NEW S, NEW l \in Seq(S), Distinct(l), NEW i \in 1 .. Len(l)
  PROVE  /\ Swapped(l, i) \in Seq(S)
         /\ Distinct(Swapped(l, i))
         /\ Len(Swapped(l, i)) = Len(l) - 1
         /\ Elements(Swapped(l, i)) = Elements(l) \ {l[i]}
<1>. DEFINE n == Len(l)
            m == Swapped(l, i)
<1>1. n \in Nat /\ n # 0 /\ \A j \in 1 .. n : l[j] \in S
  OBVIOUS
<1>2. m \in [1 .. n - 1 -> S]
  BY <1>1 DEF Swapped
<1>3. m \in Seq(S) /\ Len(m) = n - 1
  BY <1>1, <1>2
<1>4. \A j \in 1 .. n - 1 : m[j] = IF j = i THEN l[n] ELSE l[j]
  BY DEF Swapped
<1>. HIDE DEF m
<1>5. Distinct(m)
  BY <1>1, <1>3, <1>4 DEF Distinct
<1>6. Elements(m) \subseteq Elements(l) \ {l[i]}
  <2>. SUFFICES ASSUME NEW j \in 1 .. n - 1 PROVE m[j] \in Elements(l) \ {l[i]}
    BY <1>3 DEF Elements
  <2>1. CASE j = i
    BY <1>1, <1>4, <2>1 DEF Elements, Distinct
  <2>2. CASE j # i
    BY <1>1, <1>4, <2>2 DEF Elements, Distinct
  <2>. QED BY <2>1, <2>2
<1>7. Elements(l) \ {l[i]} \subseteq Elements(m)
  <2>. SUFFICES ASSUME NEW j \in 1 .. n, j # i PROVE l[j] \in Elements(m)
    BY DEF Elements
  <2>1. CASE j = n
    <3>1. i \in 1 .. n - 1 /\ m[i] = l[j]
      BY <1>1, <1>4, <2>1
    <3>. QED BY <1>3, <3>1 DEF Elements
  <2>2. CASE j # n
    <3>1. j \in 1 .. n - 1 /\ m[j] = l[j]
      BY <1>1, <1>4, <2>2
    <3>. QED BY <1>3, <3>1 DEF Elements
  <2>. QED BY <2>1, <2>2
<1>. QED BY <1>3, <1>5, <1>6, <1>7 DEF m

\* A list that gets a new element at its end.
LEMMA AppendedList ==
  ASSUME NEW S, NEW l \in Seq(S), Distinct(l), NEW e \in S, e \notin Elements(l)
  PROVE  /\ Append(l, e) \in Seq(S)
         /\ Distinct(Append(l, e))
         /\ Len(Append(l, e)) = Len(l) + 1
         /\ Elements(Append(l, e)) = Elements(l) \cup {e}
<1>. DEFINE n == Len(l)
            m == Append(l, e)
<1>1. n \in Nat /\ \A j \in 1 .. n : l[j] \in S
  OBVIOUS
<1>2. /\ m \in Seq(S) /\ Len(m) = n + 1
      /\ \A j \in 1 .. n : m[j] = l[j]
      /\ m[n + 1] = e
  OBVIOUS
<1>. HIDE DEF m
<1>3. Distinct(m)
  BY <1>1, <1>2 DEF Distinct, Elements
<1>4. Elements(m) = Elements(l) \cup {e}
  <2>1. \A j \in 1 .. n + 1 : j \in 1 .. n \/ j = n + 1
    BY <1>1
  <2>2. \A j \in 1 .. n : j \in 1 .. n + 1
    BY <1>1
  <2>3. n + 1 \in 1 .. n + 1
    BY <1>1
  <2>. QED BY <1>2, <2>1, <2>2, <2>3 DEF Elements
<1>. QED BY <1>2, <1>3, <1>4 DEF m

-----------------------------------------------------------------------------
(* Delegated stakes                                                        *)

\* The module's sums are those of the library.
LEMMA DelegationSum ==
  ASSUME NEW fun, NEW S
  PROVE  Delegations!SumFunctionOnSet(fun, S) = SumFunctionOnSet(fun, S)
BY DEF Delegations!SumFunctionOnSet, Delegations!FoldFunctionOnSet, Delegations!MapThenFoldSet,
       SumFunctionOnSet, FoldFunctionOnSet, MapThenFoldSet

\* The module's cardinalities are those of the library.
LEMMA DelegationCardinality ==
  ASSUME NEW S
  PROVE  Delegations!Cardinality(S) = Cardinality(S)
BY DEF Delegations!Cardinality, Cardinality

\* withdrawDelegation's loop is that swap.
LEMMA DelegationSwap ==
  ASSUME NEW S, NEW l \in Seq(S), Distinct(l), NEW d, d \in Elements(l)
  PROVE  \E i \in 1 .. Len(l) : l[i] = d /\ Delegations!SwapOut(l, d) = Swapped(l, i)
<1>. DEFINE I == {j \in 1 .. Len(l) : l[j] = d}
            i == CHOOSE x \in I : \A y \in I : x <= y
            n == Len(l)
<1>0. n \in Nat
  OBVIOUS
<1>1. PICK k \in 1 .. n : l[k] = d
  BY DEF Elements
<1>2. I = {k}
  BY <1>1 DEF Distinct
<1>3. i = k
  BY <1>0, <1>2
<1>4. Delegations!SelectInSeq(l, LAMBDA x : x = d) = i
  BY <1>2 DEF Delegations!SelectInSeq, Delegations!Min
<1>. HIDE DEF i
<1>5. i \in 1 .. n /\ l[i] = d
  BY <1>1, <1>3
<1>6. Delegations!SwapOut(l, d) = SubSeq([l EXCEPT ![i] = l[n]], 1, n - 1)
  <2>1. Len([l EXCEPT ![i] = l[n]]) = n
    BY <1>5
  <2>. QED BY <1>4, <2>1 DEF Delegations!SwapOut, Delegations!Front, Delegations!Last
<1>7. SubSeq([l EXCEPT ![i] = l[n]], 1, n - 1) = Swapped(l, i)
  <2>. DEFINE e == [l EXCEPT ![i] = l[n]]
  <2>1. e \in Seq(S) /\ Len(e) = n /\ \A j \in 1 .. n - 1 : e[j] = IF j = i THEN l[n] ELSE l[j]
    BY <1>0, <1>5
  <2>2. SubSeq(e, 1, n - 1) = [j \in 1 .. n - 1 |-> e[j]]
    <3>. HIDE DEF e
    <3>. QED BY <1>0, <2>1
  <2>. QED BY <2>1, <2>2 DEF Swapped
<1>. QED BY <1>5, <1>6, <1>7

PoolType == [open : BOOLEAN, revenueShareBps : Nat, totalDelegated : Nat, lockedCapital : Nat,
             delegatorCount : Nat]

DelegationTypes ==
  /\ delegationPools \in [DelegationAgents -> PoolType]
  /\ delegatorContributions \in [DelegationAgents -> [PoolDelegators -> Nat]]
  /\ agentDelegatorList \in [DelegationAgents -> Seq(PoolDelegators)]
  /\ delegationBalance \in Nat

Delegated(c) == SumFunctionOnSet(c, PoolDelegators)
AllDelegated(all) == TableSum(all, DelegationAgents, PoolDelegators)
Givers(c) == {d \in PoolDelegators : c[d] > 0}

\* Contributions c, a list and a count belong together: the list names each giver once.
ListSound(c, list, count) ==
  /\ Distinct(list) /\ Elements(list) = Givers(c)
  /\ Len(list) = Cardinality(Givers(c)) /\ count = Cardinality(Givers(c))

PoolSound(pool, list, c) ==
  /\ pool.totalDelegated + pool.lockedCapital = Delegated(c)
  /\ ListSound(c, list, pool.delegatorCount)

DelegationInv ==
  /\ DelegationTypes
  /\ delegationBalance = AllDelegated(delegatorContributions)
  /\ \A a \in DelegationAgents :
       PoolSound(delegationPools[a], agentDelegatorList[a], delegatorContributions[a])

\* The invariant says that the contract holds what was delegated.
LEMMA DelegationExact == DelegationInv => Delegations!DelegationsExact
<1>. SUFFICES ASSUME DelegationInv PROVE Delegations!DelegationsExact
  OBVIOUS
<1>1. \A a : Delegations!Contributed(a) = Delegated(delegatorContributions[a])
  BY DelegationSum DEF Delegations!Contributed, Delegated
<1>2. delegationBalance
        = Delegations!SumFunctionOnSet([a \in DelegationAgents |-> Delegations!Contributed(a)],
                                       DelegationAgents)
  BY <1>1, DelegationSum DEF DelegationInv, AllDelegated, TableSum, RowSums, Delegated
<1>3. ASSUME NEW a \in DelegationAgents
      PROVE  /\ delegationPools[a].totalDelegated >= 0
             /\ Delegations!ToSet(agentDelegatorList[a]) = Givers(delegatorContributions[a])
             /\ PoolSound(delegationPools[a], agentDelegatorList[a], delegatorContributions[a])
  <2>1. agentDelegatorList[a] \in Seq(PoolDelegators) /\ delegationPools[a] \in PoolType
    BY DEF DelegationInv, DelegationTypes
  <2>2. PoolSound(delegationPools[a], agentDelegatorList[a], delegatorContributions[a])
    BY DEF DelegationInv
  <2>3. Delegations!ToSet(agentDelegatorList[a]) = Elements(agentDelegatorList[a])
    BY <2>1 DEF Delegations!ToSet, Elements
  <2>. QED BY <2>1, <2>2, <2>3 DEF PoolSound, ListSound, PoolType
<1>. QED BY <1>1, <1>2, <1>3, DelegationCardinality
         DEF Delegations!DelegationsExact, PoolSound, ListSound, Givers

\* The contract starts in the invariant.
LEMMA DelegationInit == Delegations!DelegationInit => DelegationInv
<1>. SUFFICES ASSUME Delegations!DelegationInit PROVE DelegationInv
  OBVIOUS
<1>. DEFINE none == [d \in PoolDelegators |-> 0]
<1>1. IsFiniteSet(DelegationAgents) /\ IsFiniteSet(PoolDelegators)
  BY SatelliteAssumption
<1>2. DelegationTypes
  BY DEF Delegations!DelegationInit, DelegationTypes, Delegations!NoPool, PoolType
<1>3. Delegated(none) = 0
  BY <1>1, SumZero DEF Delegated
<1>4. Givers(none) = {}
  BY DEF Givers
<1>5. \A a \in DelegationAgents : /\ delegatorContributions[a] = none
                                  /\ agentDelegatorList[a] = <<>>
                                  /\ delegationPools[a] = Delegations!NoPool
  BY DEF Delegations!DelegationInit
<1>. HIDE DEF none
<1>6. PoolSound(Delegations!NoPool, <<>>, none)
  <2>1. Elements(<<>>) = {} /\ Distinct(<<>>)
    BY DEF Elements, Distinct
  <2>. QED BY <1>3, <1>4, <2>1, FS_EmptySet DEF PoolSound, ListSound, Delegations!NoPool
<1>7. AllDelegated(delegatorContributions) = 0
  BY <1>1, <1>3, <1>5, SumZero DEF AllDelegated, TableSum, RowSums, Delegated
<1>. QED BY <1>2, <1>5, <1>6, <1>7 DEF DelegationInv, Delegations!DelegationInit

\* One contribution changes: its pool's sum and the sum of all follow.
ContributionChange(all, a, d, c) ==
  /\ all \in [DelegationAgents -> [PoolDelegators -> Nat]] /\ c \in [PoolDelegators -> Nat]
  /\ a \in DelegationAgents /\ d \in PoolDelegators
  /\ \A x \in PoolDelegators \ {d} : c[x] = all[a][x]

\* The table of all contributions after it.
Follows(new, all, a, c) == new = [all EXCEPT ![a] = c]

\* One contribution changes: the sums follow it.
LEMMA OneContribution ==
  ASSUME NEW all, NEW a, NEW d, NEW c, NEW new,
         ContributionChange(all, a, d, c), Follows(new, all, a, c)
  PROVE  /\ Delegated(c) = Delegated(all[a]) - all[a][d] + c[d]
         /\ AllDelegated(new) = AllDelegated(all) - all[a][d] + c[d]
         /\ AllDelegated(new) \in Nat
         /\ Delegated(c) \in Nat /\ Delegated(all[a]) \in Nat /\ AllDelegated(all) \in Nat
         /\ all[a][d] \in Nat /\ c[d] \in Nat
<1>1. new \in [DelegationAgents -> [PoolDelegators -> Nat]] /\ new[a] = c
      /\ \A b \in DelegationAgents \ {a} : new[b] = all[b]
  BY DEF ContributionChange, Follows
<1>2. TableChange(all, new, DelegationAgents, PoolDelegators, a, d)
  BY <1>1, SatelliteAssumption DEF TableChange, RowChange, Numbers, ContributionChange
<1>3. /\ Delegated(new[a]) = Delegated(all[a]) - all[a][d] + new[a][d]
      /\ AllDelegated(new) = AllDelegated(all) - all[a][d] + new[a][d]
      /\ AllDelegated(new) \in Nat /\ AllDelegated(all) \in Nat
      /\ Delegated(new[a]) \in Nat /\ Delegated(all[a]) \in Nat
  BY <1>2, TableUpdate DEF Delegated, AllDelegated
<1>4. all[a][d] \in Nat /\ c[d] \in Nat
  BY DEF ContributionChange
<1>. QED BY <1>1, <1>3, <1>4

\* A step that changes one agent's pool, and leaves it sound, keeps the invariant.
LEMMA OnePool ==
  ASSUME DelegationInv, NEW a \in DelegationAgents, NEW pool \in PoolType,
         NEW list \in Seq(PoolDelegators), NEW c \in [PoolDelegators -> Nat],
         delegationPools' = [delegationPools EXCEPT ![a] = pool],
         agentDelegatorList' = [agentDelegatorList EXCEPT ![a] = list],
         delegatorContributions' = [delegatorContributions EXCEPT ![a] = c],
         delegationBalance' \in Nat,
         delegationBalance' = AllDelegated(delegatorContributions'),
         PoolSound(pool, list, c)
  PROVE  DelegationInv'
<1>1. DelegationTypes'
  BY DEF DelegationInv, DelegationTypes
<1>2. /\ delegationPools'[a] = pool /\ agentDelegatorList'[a] = list
      /\ delegatorContributions'[a] = c
  BY DEF DelegationInv, DelegationTypes
<1>3. ASSUME NEW b \in DelegationAgents \ {a}
      PROVE  /\ delegationPools'[b] = delegationPools[b]
             /\ agentDelegatorList'[b] = agentDelegatorList[b]
             /\ delegatorContributions'[b] = delegatorContributions[b]
             /\ PoolSound(delegationPools[b], agentDelegatorList[b], delegatorContributions[b])
  BY DEF DelegationInv, DelegationTypes
<1>4. ASSUME NEW b \in DelegationAgents
      PROVE  PoolSound(delegationPools'[b], agentDelegatorList'[b], delegatorContributions'[b])
  <2>1. CASE b = a
    BY <1>2, <2>1
  <2>2. CASE b # a
    BY <1>3, <2>2
  <2>. QED BY <2>1, <2>2
<1>. QED BY <1>1, <1>4 DEF DelegationInv

\* setDelegatorRevenueShare.
LEMMA ShareKeeps ==
  ASSUME DelegationInv, NEW a \in DelegationAgents, NEW bps \in Shares,
         Delegations!SetDelegatorRevenueShare(a, bps)
  PROVE  DelegationInv'
<1>. DEFINE p == delegationPools[a]
            q == [p EXCEPT !.open = TRUE, !.revenueShareBps = bps]
<1>1. delegationPools \in [DelegationAgents -> PoolType] /\ bps \in Nat /\ p \in PoolType
  BY SatelliteAssumption DEF DelegationInv, DelegationTypes
<1>2. /\ delegationPools' = [delegationPools EXCEPT ![a] = q]
      /\ UNCHANGED <<delegatorContributions, agentDelegatorList, delegationBalance>>
  BY <1>1 DEF Delegations!SetDelegatorRevenueShare, PoolType
<1>3. /\ q \in PoolType /\ q.totalDelegated = p.totalDelegated
      /\ q.lockedCapital = p.lockedCapital /\ q.delegatorCount = p.delegatorCount
  BY <1>1 DEF PoolType
<1>4. PoolSound(p, agentDelegatorList[a], delegatorContributions[a])
  BY DEF DelegationInv
<1>. HIDE DEF q, p
<1>5. PoolSound(q, agentDelegatorList[a], delegatorContributions[a])
  BY <1>3, <1>4 DEF PoolSound
<1>6. /\ agentDelegatorList[a] \in Seq(PoolDelegators)
      /\ agentDelegatorList' = [agentDelegatorList EXCEPT ![a] = agentDelegatorList[a]]
      /\ delegatorContributions[a] \in [PoolDelegators -> Nat]
      /\ delegatorContributions' = [delegatorContributions EXCEPT ![a] = delegatorContributions[a]]
      /\ delegationBalance' \in Nat
      /\ delegationBalance' = AllDelegated(delegatorContributions')
  BY <1>2 DEF DelegationInv, DelegationTypes
<1>. QED BY <1>2, <1>3, <1>5, <1>6, OnePool

\* recordTaskDelegation.
LEMMA RecordKeeps ==
  ASSUME DelegationInv, NEW a \in DelegationAgents, NEW amount \in DelegationAmounts,
         Delegations!RecordTaskDelegation(a, amount)
  PROVE  DelegationInv'
<1>. DEFINE p == delegationPools[a]
            q == [p EXCEPT !.totalDelegated = p.totalDelegated - amount,
                           !.lockedCapital = p.lockedCapital + amount]
<1>1. delegationPools \in [DelegationAgents -> PoolType] /\ amount \in Nat /\ p \in PoolType
  BY SatelliteAssumption DEF DelegationInv, DelegationTypes
<1>2. /\ delegationPools' = [delegationPools EXCEPT ![a] = q]
      /\ amount <= p.totalDelegated
      /\ UNCHANGED <<delegatorContributions, agentDelegatorList, delegationBalance>>
  BY <1>1 DEF Delegations!RecordTaskDelegation, PoolType
<1>3. /\ q \in PoolType /\ q.delegatorCount = p.delegatorCount
      /\ q.totalDelegated + q.lockedCapital = p.totalDelegated + p.lockedCapital
  <2>1. p.totalDelegated - amount \in Nat /\ p.lockedCapital + amount \in Nat
        /\ (p.totalDelegated - amount) + (p.lockedCapital + amount)
             = p.totalDelegated + p.lockedCapital
    BY <1>1, <1>2 DEF PoolType
  <2>. QED BY <1>1, <2>1 DEF PoolType
<1>4. PoolSound(p, agentDelegatorList[a], delegatorContributions[a])
  BY DEF DelegationInv
<1>. HIDE DEF q, p
<1>5. PoolSound(q, agentDelegatorList[a], delegatorContributions[a])
  BY <1>3, <1>4 DEF PoolSound
<1>6. /\ agentDelegatorList[a] \in Seq(PoolDelegators)
      /\ agentDelegatorList' = [agentDelegatorList EXCEPT ![a] = agentDelegatorList[a]]
      /\ delegatorContributions[a] \in [PoolDelegators -> Nat]
      /\ delegatorContributions' = [delegatorContributions EXCEPT ![a] = delegatorContributions[a]]
      /\ delegationBalance' \in Nat
      /\ delegationBalance' = AllDelegated(delegatorContributions')
  BY <1>2 DEF DelegationInv, DelegationTypes
<1>. QED BY <1>2, <1>3, <1>5, <1>6, OnePool

\* Who delegates something, after one contribution changed.
LEMMA GiversFollow ==
  ASSUME NEW all, NEW a, NEW d, NEW c, ContributionChange(all, a, d, c)
  PROVE  /\ IsFiniteSet(Givers(all[a])) /\ Cardinality(Givers(all[a])) \in Nat
         /\ d \in Givers(all[a]) <=> all[a][d] > 0
         /\ c[d] > 0 => Givers(c) = Givers(all[a]) \cup {d}
         /\ c[d] = 0 => Givers(c) = Givers(all[a]) \ {d}
<1>1. IsFiniteSet(Givers(all[a])) /\ Cardinality(Givers(all[a])) \in Nat
  BY SatelliteAssumption, FS_Subset, FS_CardinalityType DEF Givers
<1>2. d \in PoolDelegators /\ c[d] \in Nat /\ \A x \in PoolDelegators \ {d} : c[x] = all[a][x]
  BY DEF ContributionChange
<1>3. d \in Givers(all[a]) <=> all[a][d] > 0
  BY <1>2 DEF Givers
<1>4. ASSUME c[d] > 0 PROVE Givers(c) = Givers(all[a]) \cup {d}
  BY <1>2, <1>4 DEF Givers
<1>5. ASSUME c[d] = 0 PROVE Givers(c) = Givers(all[a]) \ {d}
  BY <1>2, <1>5 DEF Givers
<1>. QED BY <1>1, <1>3, <1>4, <1>5

\* delegateStake.
LEMMA DelegateKeeps ==
  ASSUME DelegationInv, NEW a \in DelegationAgents, NEW d \in PoolDelegators,
         NEW amount \in DelegationAmounts, Delegations!DelegateStake(a, d, amount)
  PROVE  DelegationInv'
<1>. DEFINE all == delegatorContributions
            old == all[a][d]
            c == [all[a] EXCEPT ![d] = old + amount]
            l == agentDelegatorList[a]
            p == delegationPools[a]
            new == old = 0
            one == IF new THEN 1 ELSE 0
            q == [p EXCEPT !.totalDelegated = p.totalDelegated + amount,
                           !.delegatorCount = p.delegatorCount + one]
            m == IF new THEN Append(l, d) ELSE l
<1>0. /\ delegationPools \in [DelegationAgents -> PoolType] /\ p \in PoolType
      /\ agentDelegatorList \in [DelegationAgents -> Seq(PoolDelegators)]
      /\ l \in Seq(PoolDelegators)
      /\ Len(l) \in Nat
      /\ all \in [DelegationAgents -> [PoolDelegators -> Nat]] /\ all[a] \in [PoolDelegators -> Nat]
      /\ delegationBalance \in Nat /\ old \in Nat /\ amount \in Nat
      /\ PoolSound(p, l, all[a]) /\ delegationBalance = AllDelegated(all)
  BY SatelliteAssumption DEF DelegationInv, DelegationTypes
<1>1. /\ amount > 0
      /\ agentDelegatorList' = [agentDelegatorList EXCEPT ![a] = m]
      /\ delegatorContributions' = [delegatorContributions EXCEPT ![a] = c]
      /\ delegationPools' = [delegationPools EXCEPT ![a] = q]
      /\ delegationBalance' = delegationBalance + amount
  BY <1>0 DEF Delegations!DelegateStake, PoolType
<1>2. old + amount \in Nat /\ old + amount > 0 /\ one \in Nat
  BY <1>0, <1>1
<1>3. /\ Delegated(c) = Delegated(all[a]) + amount
      /\ AllDelegated(delegatorContributions') = AllDelegated(all) + amount
      /\ AllDelegated(delegatorContributions') \in Nat
      /\ c \in [PoolDelegators -> Nat] /\ c[d] = old + amount /\ ContributionChange(all, a, d, c)
  <2>1. /\ c \in [PoolDelegators -> Nat] /\ c[d] = old + amount
        /\ \A x \in PoolDelegators \ {d} : c[x] = all[a][x]
    BY <1>0, <1>2
  <2>. HIDE DEF c
  <2>2. ContributionChange(all, a, d, c)
    BY <1>0, <2>1 DEF ContributionChange
  <2>3. Follows(delegatorContributions', all, a, c)
    BY <1>1 DEF Follows
  <2>4. /\ AllDelegated(delegatorContributions') = AllDelegated(all) - all[a][d] + c[d]
        /\ AllDelegated(delegatorContributions') \in Nat
        /\ Delegated(c) = Delegated(all[a]) - all[a][d] + c[d]
        /\ Delegated(all[a]) \in Nat /\ AllDelegated(all) \in Nat
    BY <2>2, <2>3, OneContribution
  <2>. QED BY <1>0, <2>1, <2>2, <2>4
<1>4. /\ q \in PoolType /\ q.totalDelegated = p.totalDelegated + amount
      /\ q.lockedCapital = p.lockedCapital
      /\ q.delegatorCount = p.delegatorCount + one
      /\ p.totalDelegated \in Nat /\ p.lockedCapital \in Nat /\ p.delegatorCount \in Nat
  <2>0. p.totalDelegated \in Nat /\ p.lockedCapital \in Nat /\ p.delegatorCount \in Nat
    BY <1>0 DEF PoolType
  <2>1. p.totalDelegated + amount \in Nat /\ p.delegatorCount + one \in Nat
    BY <1>0, <1>2, <2>0
  <2>. HIDE DEF one
  <2>. QED BY <1>0, <2>0, <2>1 DEF PoolType
<1>5. Givers(c) = Givers(all[a]) \cup {d}
  <2>. HIDE DEF c
  <2>. QED BY <1>2, <1>3, GiversFollow
<1>6. IsFiniteSet(Givers(all[a])) /\ Cardinality(Givers(all[a])) \in Nat
      /\ (new => d \notin Givers(all[a])) /\ (~new => d \in Givers(all[a]))
  <2>. HIDE DEF c
  <2>. QED BY <1>0, <1>3, GiversFollow
<1>7. Cardinality(Givers(c)) = Cardinality(Givers(all[a])) + one
  <2>1. CASE new
    BY <1>5, <1>6, <2>1, FS_AddElement
  <2>2. CASE ~new
    <3>1. Givers(c) = Givers(all[a])
      BY <1>5, <1>6, <2>2
    <3>. QED BY <1>6, <2>2, <3>1
  <2>. QED BY <2>1, <2>2
<1>8. ListSound(all[a], l, p.delegatorCount)
  BY <1>0 DEF PoolSound
<1>9. /\ m \in Seq(PoolDelegators) /\ Distinct(m) /\ Elements(m) = Givers(c)
      /\ Len(m) = Len(l) + one
  <2>1. CASE new
    <3>1. d \notin Elements(l) /\ Distinct(l) /\ Elements(l) = Givers(all[a])
      BY <1>6, <1>8, <2>1 DEF ListSound
    <3>2. m = Append(l, d) /\ one = 1
      BY <2>1
    <3>. HIDE DEF m, l, one, new, c
    <3>. QED BY <1>0, <1>5, <3>1, <3>2, AppendedList
  <2>2. CASE ~new
    <3>1. m = l /\ one = 0
      BY <2>2
    <3>. HIDE DEF m, l, one, c
    <3>2. Givers(c) = Givers(all[a])
      BY <1>5, <1>6, <2>2
    <3>. QED BY <1>0, <1>8, <3>1, <3>2 DEF ListSound
  <2>. QED BY <2>1, <2>2
<1>. HIDE DEF q, m, c, one
<1>10. ListSound(c, m, q.delegatorCount)
  BY <1>4, <1>7, <1>8, <1>9 DEF ListSound
<1>11. PoolSound(q, m, c)
  <2>1. p.totalDelegated + p.lockedCapital = Delegated(all[a])
    BY <1>0 DEF PoolSound
  <2>2. q.totalDelegated + q.lockedCapital = Delegated(c)
    <3>. HIDE DEF p
    <3>. QED BY <1>0, <1>3, <1>4, <2>1
  <2>. QED BY <1>10, <2>2 DEF PoolSound
<1>12. delegationBalance' = AllDelegated(delegatorContributions')
  BY <1>0, <1>1, <1>3
<1>. QED BY <1>1, <1>3, <1>4, <1>9, <1>11, <1>12, OnePool

\* withdrawDelegation.
LEMMA WithdrawKeeps ==
  ASSUME DelegationInv, NEW a \in DelegationAgents, NEW d \in PoolDelegators,
         NEW amount \in DelegationAmounts, Delegations!WithdrawDelegation(a, d, amount)
  PROVE  DelegationInv'
<1>. DEFINE all == delegatorContributions
            old == all[a][d]
            left == old - amount
            c == [all[a] EXCEPT ![d] = left]
            l == agentDelegatorList[a]
            p == delegationPools[a]
            one == IF left = 0 THEN 1 ELSE 0
            q == [p EXCEPT !.totalDelegated = p.totalDelegated - amount,
                           !.delegatorCount = p.delegatorCount - one]
            m == IF left = 0 THEN Delegations!SwapOut(l, d) ELSE l
<1>0. /\ delegationPools \in [DelegationAgents -> PoolType] /\ p \in PoolType
      /\ agentDelegatorList \in [DelegationAgents -> Seq(PoolDelegators)]
      /\ l \in Seq(PoolDelegators)
      /\ Len(l) \in Nat
      /\ all \in [DelegationAgents -> [PoolDelegators -> Nat]] /\ all[a] \in [PoolDelegators -> Nat]
      /\ delegationBalance \in Nat /\ old \in Nat /\ amount \in Nat
      /\ PoolSound(p, l, all[a]) /\ delegationBalance = AllDelegated(all)
  BY SatelliteAssumption DEF DelegationInv, DelegationTypes
<1>1. /\ amount > 0 /\ left >= 0 /\ p.totalDelegated - p.lockedCapital >= amount
      /\ agentDelegatorList' = [agentDelegatorList EXCEPT ![a] = m]
      /\ delegatorContributions' = [delegatorContributions EXCEPT ![a] = c]
      /\ delegationPools' = [delegationPools EXCEPT ![a] = q]
      /\ delegationBalance' = delegationBalance - amount
  BY <1>0 DEF Delegations!WithdrawDelegation, Delegations!Available, PoolType
<1>2. left \in Nat /\ old > 0 /\ one \in Nat /\ one \in {0, 1}
  BY <1>0, <1>1
<1>3. /\ Delegated(c) = Delegated(all[a]) - amount
      /\ AllDelegated(delegatorContributions') = AllDelegated(all) - amount
      /\ AllDelegated(delegatorContributions') \in Nat
      /\ c \in [PoolDelegators -> Nat] /\ c[d] = left /\ ContributionChange(all, a, d, c)
  <2>1. /\ c \in [PoolDelegators -> Nat] /\ c[d] = left
        /\ \A x \in PoolDelegators \ {d} : c[x] = all[a][x]
    BY <1>0, <1>2
  <2>. HIDE DEF c
  <2>2. ContributionChange(all, a, d, c)
    BY <1>0, <2>1 DEF ContributionChange
  <2>3. Follows(delegatorContributions', all, a, c)
    BY <1>1 DEF Follows
  <2>4. /\ AllDelegated(delegatorContributions') = AllDelegated(all) - all[a][d] + c[d]
        /\ AllDelegated(delegatorContributions') \in Nat
        /\ Delegated(c) = Delegated(all[a]) - all[a][d] + c[d]
        /\ Delegated(all[a]) \in Nat /\ AllDelegated(all) \in Nat
    BY <2>2, <2>3, OneContribution
  <2>. QED BY <1>0, <2>1, <2>2, <2>4
<1>5. /\ left = 0 => Givers(c) = Givers(all[a]) \ {d}
      /\ left # 0 => Givers(c) = Givers(all[a]) \cup {d}
  <2>. HIDE DEF c
  <2>. QED BY <1>2, <1>3, GiversFollow
<1>6. /\ IsFiniteSet(Givers(all[a])) /\ Cardinality(Givers(all[a])) \in Nat
      /\ d \in Givers(all[a])
  <2>. HIDE DEF c
  <2>. QED BY <1>2, <1>3, GiversFollow
<1>7. Cardinality(Givers(c)) = Cardinality(Givers(all[a])) - one
  <2>1. CASE left = 0
    BY <1>5, <1>6, <2>1, FS_RemoveElement
  <2>2. CASE left # 0
    <3>. HIDE DEF c, left
    <3>1. Givers(c) = Givers(all[a])
      BY <1>5, <1>6, <2>2
    <3>2. one = 0
      BY <2>2
    <3>. QED BY <1>6, <3>1, <3>2
  <2>. QED BY <2>1, <2>2
<1>8. ListSound(all[a], l, p.delegatorCount) /\ Distinct(l) /\ Elements(l) = Givers(all[a])
  BY <1>0 DEF PoolSound, ListSound
<1>9. /\ m \in Seq(PoolDelegators) /\ Distinct(m) /\ Elements(m) = Givers(c)
      /\ Len(m) = Len(l) - one
  <2>1. CASE left = 0
    <3>0. m = Delegations!SwapOut(l, d) /\ one = 1 /\ Givers(c) = Givers(all[a]) \ {d}
      BY <1>5, <2>1
    <3>. HIDE DEF l, m, one, c
    <3>1. PICK i \in 1 .. Len(l) : l[i] = d /\ Delegations!SwapOut(l, d) = Swapped(l, i)
      BY <1>0, <1>6, <1>8, DelegationSwap
    <3>2. /\ Swapped(l, i) \in Seq(PoolDelegators) /\ Distinct(Swapped(l, i))
          /\ Len(Swapped(l, i)) = Len(l) - 1
          /\ Elements(Swapped(l, i)) = Elements(l) \ {l[i]}
      BY <1>0, <1>8, SwappedList
    <3>. QED BY <1>8, <3>0, <3>1, <3>2
  <2>2. CASE left # 0
    <3>1. m = l /\ one = 0
      BY <2>2
    <3>. HIDE DEF m, l, one, c
    <3>2. Givers(c) = Givers(all[a])
      BY <1>5, <1>6, <2>2
    <3>. QED BY <1>0, <1>8, <3>1, <3>2 DEF ListSound
  <2>. QED BY <2>1, <2>2
<1>10. p.delegatorCount = Cardinality(Givers(all[a])) /\ Len(l) = Cardinality(Givers(all[a]))
  BY <1>8 DEF ListSound
<1>4. /\ q \in PoolType /\ q.totalDelegated = p.totalDelegated - amount
      /\ q.lockedCapital = p.lockedCapital
      /\ q.delegatorCount = p.delegatorCount - one
      /\ p.totalDelegated \in Nat /\ p.lockedCapital \in Nat /\ p.delegatorCount \in Nat
  <2>1. Cardinality(Givers(all[a])) # 0
    BY <1>6, FS_EmptySet
  <2>0. p.totalDelegated \in Nat /\ p.lockedCapital \in Nat /\ p.delegatorCount \in Nat
    BY <1>0 DEF PoolType
  <2>2. p.totalDelegated - amount \in Nat /\ p.delegatorCount - one \in Nat
    <3>1. p.totalDelegated - p.lockedCapital >= amount /\ amount \in Nat
      BY <1>0, <1>1
    <3>2. one \in {0, 1} /\ Cardinality(Givers(all[a])) \in Nat
      BY <1>2, <1>6
    <3>. HIDE DEF p, one, c
    <3>. QED BY <1>10, <2>0, <2>1, <3>1, <3>2
  <2>. QED BY <1>0, <2>0, <2>2 DEF PoolType
<1>. HIDE DEF q, m, c, one
<1>11. ListSound(c, m, q.delegatorCount)
  BY <1>4, <1>7, <1>9, <1>10 DEF ListSound
<1>12. PoolSound(q, m, c)
  <2>1. p.totalDelegated + p.lockedCapital = Delegated(all[a])
    BY <1>0 DEF PoolSound
  <2>2. q.totalDelegated + q.lockedCapital = Delegated(c)
    <3>. HIDE DEF p
    <3>. QED BY <1>0, <1>3, <1>4, <2>1
  <2>. QED BY <1>11, <2>2 DEF PoolSound
<1>13. delegationBalance' = AllDelegated(delegatorContributions')
  BY <1>0, <1>1, <1>3
<1>. QED BY <1>1, <1>3, <1>4, <1>9, <1>12, <1>13, OnePool

\* No call leaves the invariant.
LEMMA DelegationStepKeeps ==
  DelegationInv /\ [Delegations!DelegationNext]_delegationAll => DelegationInv'
<1>. SUFFICES ASSUME DelegationInv, [Delegations!DelegationNext]_delegationAll
              PROVE  DelegationInv'
  OBVIOUS
<1>1. CASE \/ UNCHANGED delegationAll
           \/ \E a \in DelegationAgents : Delegations!CoreBans(a)
  <2>1. UNCHANGED <<delegationPools, delegatorContributions, agentDelegatorList,
                    delegationBalance>>
    BY <1>1 DEF delegationAll, Delegations!CoreBans
  <2>. QED BY <2>1 DEF DelegationInv, DelegationTypes
<1>. QED BY <1>1, ShareKeeps, RecordKeeps, DelegateKeeps, WithdrawKeeps
         DEF Delegations!DelegationNext

-----------------------------------------------------------------------------
(* Sequences of a known length, written at one place or at their end.      *)

Listed(l, n, T) == n \in Nat /\ l \in Seq(T) /\ Len(l) = n
Put(l, k, n, T, s, e) ==
  Listed(l, n, T) /\ s \in 1 .. n /\ e \in T /\ k = [l EXCEPT ![s] = e]
Added(l, k, n, T, e) == Listed(l, n, T) /\ e \in T /\ k = Append(l, e)

\* What writing at one place does to a list.
LEMMA PutListed ==
  ASSUME NEW l, NEW k, NEW n, NEW T, NEW s, NEW e, Put(l, k, n, T, s, e)
  PROVE  /\ Listed(k, n, T) /\ k[s] = e
         /\ \A i \in (1 .. n) \ {s} : k[i] = l[i]
<1>1. n \in Nat /\ l \in Seq(T) /\ Len(l) = n /\ s \in 1 .. Len(l) /\ e \in T
  BY DEF Put, Listed
<1>2. /\ [l EXCEPT ![s] = e] \in Seq(T) /\ Len([l EXCEPT ![s] = e]) = Len(l)
      /\ \A j \in 1 .. Len(l) : [l EXCEPT ![s] = e][j] = IF j = s THEN e ELSE l[j]
  BY <1>1, ExceptSeq
<1>. QED BY <1>1, <1>2 DEF Listed, Put

\* What adding at the end does to a list.
LEMMA AddListed ==
  ASSUME NEW l, NEW k, NEW n, NEW T, NEW e, Added(l, k, n, T, e)
  PROVE  /\ Listed(k, n + 1, T) /\ k[n + 1] = e
         /\ \A i \in 1 .. n : k[i] = l[i]
<1>1. n \in Nat /\ l \in Seq(T) /\ Len(l) = n /\ e \in T
  BY DEF Added, Listed
<1>. QED BY <1>1, AppendProperties DEF Listed, Added

\* Writing what is there changes nothing.
LEMMA SameListed ==
  ASSUME NEW l, NEW n, NEW T, Listed(l, n, T)
  PROVE  \A s \in 1 .. n : l = [l EXCEPT ![s] = l[s]]
BY LenProperties DEF Listed

\* The domain and the elements of a list.
LEMMA ListedElement ==
  ASSUME NEW l, NEW n, NEW T, Listed(l, n, T)
  PROVE  DOMAIN l = 1 .. n /\ \A i \in 1 .. n : l[i] \in T
BY ElementOfSeq, LenProperties DEF Listed

-----------------------------------------------------------------------------
(* Syndicates                                                              *)

\* The module's sums are those of the library.
LEMMA SyndicatesSum ==
  ASSUME NEW fun, NEW S
  PROVE  Syndicates!SumFunctionOnSet(fun, S) = SumFunctionOnSet(fun, S)
BY DEF Syndicates!SumFunctionOnSet, Syndicates!FoldFunctionOnSet, Syndicates!MapThenFoldSet,
       SumFunctionOnSet, FoldFunctionOnSet, MapThenFoldSet

\* The module's cardinalities are those of the library.
LEMMA SyndicatesCardinality ==
  ASSUME NEW S
  PROVE  Syndicates!Cardinality(S) = Cardinality(S)
BY DEF Syndicates!Cardinality, Cardinality

\* leaveSyndicate's loop is the swap.
LEMMA SyndicatesSwap ==
  ASSUME NEW S, NEW l \in Seq(S), Distinct(l), NEW d, d \in Elements(l)
  PROVE  \E i \in 1 .. Len(l) : l[i] = d /\ Syndicates!SwapOut(l, d) = Swapped(l, i)
<1>. DEFINE I == {j \in 1 .. Len(l) : l[j] = d}
            i == CHOOSE x \in I : \A y \in I : x <= y
            n == Len(l)
<1>0. n \in Nat
  OBVIOUS
<1>1. PICK k \in 1 .. n : l[k] = d
  BY DEF Elements
<1>2. I = {k}
  BY <1>1 DEF Distinct
<1>3. i = k
  BY <1>0, <1>2
<1>4. Syndicates!SelectInSeq(l, LAMBDA x : x = d) = i
  BY <1>2 DEF Syndicates!SelectInSeq, Syndicates!Min
<1>. HIDE DEF i
<1>5. i \in 1 .. n /\ l[i] = d
  BY <1>1, <1>3
<1>6. Syndicates!SwapOut(l, d) = SubSeq([l EXCEPT ![i] = l[n]], 1, n - 1)
  <2>1. Len([l EXCEPT ![i] = l[n]]) = n
    BY <1>5
  <2>. QED BY <1>4, <2>1 DEF Syndicates!SwapOut, Syndicates!Front, Syndicates!Last
<1>7. SubSeq([l EXCEPT ![i] = l[n]], 1, n - 1) = Swapped(l, i)
  <2>. DEFINE e == [l EXCEPT ![i] = l[n]]
  <2>1. e \in Seq(S) /\ Len(e) = n /\ \A j \in 1 .. n - 1 : e[j] = IF j = i THEN l[n] ELSE l[j]
    BY <1>0, <1>5
  <2>2. SubSeq(e, 1, n - 1) = [j \in 1 .. n - 1 |-> e[j]]
    <3>. HIDE DEF e
    <3>. QED BY <1>0, <2>1
  <2>. QED BY <2>1, <2>2 DEF Swapped
<1>. QED BY <1>5, <1>6, <1>7

SyndicateType == [manager : SyndicateMembers, totalStake : Nat, memberCount : Nat,
                  status : {"Active", "Dissolved"}]
Stakings == [SyndicateMembers -> Nat]
Count == Len(syndicates)

SyndicateTypes ==
  /\ Listed(syndicates, Count, SyndicateType)
  /\ Listed(contributions, Count, Stakings)
  /\ Listed(syndicateMemberList, Count, Seq(SyndicateMembers))
  /\ Listed(dissolutionVotes, Count, SUBSET SyndicateMembers)
  /\ Listed(dissolutionVoteWeight, Count, Nat)
  /\ agentSyndicateId \in [SyndicateMembers -> 0 .. Count]
  /\ syndicateBalance \in Nat

Pooled(c) == SumFunctionOnSet(c, SyndicateMembers)
Backers(c) == {m \in SyndicateMembers : c[m] > 0}

\* A syndicate p, its members' stakes c, its list l, its votes v and their weight w.
SyndicateSound(p, c, l, v, w) ==
  /\ p.totalStake = Pooled(c)
  /\ p.memberCount = Cardinality(Backers(c))
  /\ p.status = "Active" <=> Backers(c) # {}
  /\ p.status = "Active" => /\ Distinct(l) /\ Elements(l) = Backers(c)
                            /\ v \subseteq Backers(c) /\ w = SumFunctionOnSet(c, v)
                            /\ c[p.manager] * 10000 >= p.totalStake * 2000

\* A member points to the syndicate it has a stake in.
Pointing(all, n, ids) ==
  \A s \in 1 .. n, m \in SyndicateMembers : all[s][m] > 0 <=> ids[m] = s

SyndicatesInv ==
  /\ SyndicateTypes
  /\ syndicateBalance = TableSum(contributions, 1 .. Count, SyndicateMembers)
  /\ \A s \in 1 .. Count :
       SyndicateSound(syndicates[s], contributions[s], syndicateMemberList[s],
                      dissolutionVotes[s], dissolutionVoteWeight[s])
  /\ Pointing(contributions, Count, agentSyndicateId)

\* The invariant gives the three properties of the syndicates.
LEMMA SyndicatesExact ==
  SyndicatesInv =>
    Syndicates!PoolsExact /\ Syndicates!VotesWeighed /\ Syndicates!ManagerKeepsItsShare
<1>. SUFFICES ASSUME SyndicatesInv
              PROVE  /\ Syndicates!PoolsExact /\ Syndicates!VotesWeighed
                     /\ Syndicates!ManagerKeepsItsShare
  OBVIOUS
<1>1. /\ DOMAIN syndicates = 1 .. Count
      /\ \A s \in 1 .. Count : /\ syndicateMemberList[s] \in Seq(SyndicateMembers)
                               /\ contributions[s] \in Stakings
  BY ListedElement DEF SyndicatesInv, SyndicateTypes
<1>2. Syndicates!SyndicateIds = 1 .. Count
  BY <1>1 DEF Syndicates!SyndicateIds
<1>3. \A s : Syndicates!Contributed(s) = Pooled(contributions[s])
  BY SyndicatesSum DEF Syndicates!Contributed, Pooled
<1>4. syndicateBalance
        = Syndicates!SumFunctionOnSet([s \in Syndicates!SyndicateIds |-> Syndicates!Contributed(s)],
                                      Syndicates!SyndicateIds)
  BY <1>2, <1>3, SyndicatesSum DEF SyndicatesInv, TableSum, RowSums, Pooled
<1>5. \A s \in 1 .. Count :
        /\ Backers(contributions[s]) = {m \in SyndicateMembers : contributions[s][m] > 0}
        /\ Backers(contributions[s]) = {m \in SyndicateMembers : agentSyndicateId[m] = s}
  BY DEF SyndicatesInv, Pointing, Backers
<1>6. \A s \in 1 .. Count :
        SyndicateSound(syndicates[s], contributions[s], syndicateMemberList[s],
                       dissolutionVotes[s], dissolutionVoteWeight[s])
  BY DEF SyndicatesInv
<1>7. \A s \in 1 .. Count : /\ Syndicates!ToSet(syndicateMemberList[s])
                                 = Elements(syndicateMemberList[s])
                            /\ Syndicates!IsInjective(syndicateMemberList[s])
                                 <=> Distinct(syndicateMemberList[s])
  BY <1>1 DEF Syndicates!ToSet, Elements, Syndicates!IsInjective, Distinct
<1>8. Syndicates!Active = {s \in 1 .. Count : syndicates[s].status = "Active"}
  BY <1>2 DEF Syndicates!Active
<1>9. Syndicates!PoolsExact
  <2>1. ASSUME NEW s \in 1 .. Count
        PROVE  LET in == {m \in SyndicateMembers : contributions[s][m] > 0}
               IN /\ syndicates[s].totalStake = Syndicates!Contributed(s)
                  /\ syndicates[s].memberCount = Syndicates!Cardinality(in)
                  /\ in = {m \in SyndicateMembers : agentSyndicateId[m] = s}
                  /\ (s \in Syndicates!Active) <=> in # {}
                  /\ s \in Syndicates!Active => /\ Syndicates!ToSet(syndicateMemberList[s]) = in
                                     /\ Syndicates!IsInjective(syndicateMemberList[s])
    <3>. DEFINE in == {m \in SyndicateMembers : contributions[s][m] > 0}
    <3>1. /\ in = Backers(contributions[s])
          /\ in = {m \in SyndicateMembers : agentSyndicateId[m] = s}
      BY <1>5
    <3>. HIDE DEF in
    <3>2. /\ syndicates[s].totalStake = Syndicates!Contributed(s)
          /\ syndicates[s].memberCount = Syndicates!Cardinality(in)
          /\ syndicates[s].status = "Active" <=> in # {}
          /\ syndicates[s].status = "Active" =>
               /\ Distinct(syndicateMemberList[s]) /\ Elements(syndicateMemberList[s]) = in
      <4>0. SyndicateSound(syndicates[s], contributions[s], syndicateMemberList[s],
                           dissolutionVotes[s], dissolutionVoteWeight[s])
        BY <1>6
      <4>6. in = Backers(contributions[s])
        BY <3>1
      <4>1. /\ syndicates[s].totalStake = Pooled(contributions[s])
            /\ syndicates[s].memberCount = Cardinality(in)
        BY <4>0, <4>6 DEF SyndicateSound
      <4>2. syndicates[s].status = "Active" <=> in # {}
        BY <4>0, <4>6 DEF SyndicateSound
      <4>3. syndicates[s].status = "Active" =>
              Distinct(syndicateMemberList[s]) /\ Elements(syndicateMemberList[s]) = in
        BY <4>0, <4>6 DEF SyndicateSound
      <4>4. Syndicates!Cardinality(in) = Cardinality(in)
        BY SyndicatesCardinality
      <4>5. Syndicates!Contributed(s) = Pooled(contributions[s])
        BY <1>3
      <4>. QED BY <4>1, <4>2, <4>3, <4>4, <4>5
    <3>3. (s \in Syndicates!Active) <=> syndicates[s].status = "Active"
      BY <1>8
    <3>. QED BY <1>7, <3>1, <3>2, <3>3 DEF in
  <2>. QED BY <1>2, <1>4, <2>1 DEF Syndicates!PoolsExact
<1>10. Syndicates!VotesWeighed
  <2>1. ASSUME NEW s \in Syndicates!Active
        PROVE  /\ \A m \in dissolutionVotes[s] : contributions[s][m] > 0
               /\ dissolutionVoteWeight[s]
                    = Syndicates!SumFunctionOnSet(contributions[s], dissolutionVotes[s])
    <3>1. /\ dissolutionVotes[s] \subseteq Backers(contributions[s])
          /\ dissolutionVoteWeight[s] = SumFunctionOnSet(contributions[s], dissolutionVotes[s])
      BY <1>6, <1>8 DEF SyndicateSound
    <3>. QED BY <3>1, SyndicatesSum DEF Backers
  <2>. QED BY <2>1 DEF Syndicates!VotesWeighed
<1>11. Syndicates!ManagerKeepsItsShare
  BY <1>6, <1>8 DEF Syndicates!ManagerKeepsItsShare, Syndicates!ManagerMinStakeBps, SyndicateSound
<1>. QED BY <1>9, <1>10, <1>11

\* The contract starts in the invariant.
LEMMA SyndicatesInit == Syndicates!SyndicatesInit => SyndicatesInv
<1>. SUFFICES ASSUME Syndicates!SyndicatesInit PROVE SyndicatesInv
  OBVIOUS
<1>1. Count = 0 /\ 1 .. Count = {}
  BY DEF Syndicates!SyndicatesInit, Count
<1>2. TableSum(contributions, 1 .. Count, SyndicateMembers) = 0
  BY <1>1, SumEmpty DEF TableSum
<1>3. \A T : Listed(<<>>, 0, T)
  BY DEF Listed
<1>4. SyndicateTypes
  BY <1>1, <1>3 DEF Syndicates!SyndicatesInit, SyndicateTypes
<1>. QED BY <1>1, <1>2, <1>4 DEF SyndicatesInv, Pointing, Syndicates!SyndicatesInit

\* What a step gives one syndicate: its record, stakes, list, votes and their weight.
SyndicateWrite(s, p, c, l, v, w) ==
  /\ s \in 1 .. Count
  /\ p \in SyndicateType /\ c \in Stakings /\ l \in Seq(SyndicateMembers)
  /\ v \in SUBSET SyndicateMembers /\ w \in Nat
  /\ syndicates' = [syndicates EXCEPT ![s] = p]
  /\ contributions' = [contributions EXCEPT ![s] = c]
  /\ syndicateMemberList' = [syndicateMemberList EXCEPT ![s] = l]
  /\ dissolutionVotes' = [dissolutionVotes EXCEPT ![s] = v]
  /\ dissolutionVoteWeight' = [dissolutionVoteWeight EXCEPT ![s] = w]

\* The members of s point to it, and nobody else's pointer changes.
Repointed(s, c) ==
  /\ agentSyndicateId' \in [SyndicateMembers -> 0 .. Count]
  /\ \A m \in SyndicateMembers : /\ c[m] > 0 <=> agentSyndicateId'[m] = s
                                 /\ agentSyndicateId'[m] # agentSyndicateId[m] =>
                                      /\ agentSyndicateId'[m] \in {0, s}
                                      /\ agentSyndicateId[m] \in {0, s}

\* The records of one syndicate.
LEMMA Stakes0 ==
  ASSUME SyndicatesInv, NEW s \in 1 .. Count
  PROVE  /\ contributions[s] \in Stakings /\ Pooled(contributions[s]) \in Nat
         /\ syndicates[s] \in SyndicateType
         /\ syndicateMemberList[s] \in Seq(SyndicateMembers)
         /\ dissolutionVotes[s] \in SUBSET SyndicateMembers /\ dissolutionVoteWeight[s] \in Nat
<1>1. contributions[s] \in Stakings
  BY ListedElement DEF SyndicatesInv, SyndicateTypes
<1>2. \A m \in SyndicateMembers : contributions[s][m] \in Nat
  BY <1>1 DEF Stakings
<1>3. Pooled(contributions[s]) \in Nat
  BY <1>2, SatelliteAssumption, SumNat DEF Pooled
<1>4. syndicates[s] \in SyndicateType
  BY ListedElement DEF SyndicatesInv, SyndicateTypes
<1>5. syndicateMemberList[s] \in Seq(SyndicateMembers)
  BY ListedElement DEF SyndicatesInv, SyndicateTypes
<1>6. dissolutionVotes[s] \in SUBSET SyndicateMembers
  BY ListedElement DEF SyndicatesInv, SyndicateTypes
<1>7. dissolutionVoteWeight[s] \in Nat
  BY ListedElement DEF SyndicatesInv, SyndicateTypes
<1>. QED BY <1>1, <1>3, <1>4, <1>5, <1>6, <1>7

\* A step that changes one syndicate, and leaves it sound, keeps the invariant.
LEMMA OneSyndicate ==
  ASSUME SyndicatesInv, NEW s, NEW p, NEW c, NEW l, NEW v, NEW w,
         SyndicateWrite(s, p, c, l, v, w), SyndicateSound(p, c, l, v, w), Repointed(s, c),
         syndicateBalance' = syndicateBalance - Pooled(contributions[s]) + Pooled(c)
  PROVE  SyndicatesInv'
<1>. DEFINE n == Count
<1>0. /\ n \in Nat /\ s \in 1 .. n /\ Len(syndicates) = n
      /\ Put(syndicates, syndicates', n, SyndicateType, s, p)
      /\ Put(contributions, contributions', n, Stakings, s, c)
      /\ Put(syndicateMemberList, syndicateMemberList', n, Seq(SyndicateMembers), s, l)
      /\ Put(dissolutionVotes, dissolutionVotes', n, SUBSET SyndicateMembers, s, v)
      /\ Put(dissolutionVoteWeight, dissolutionVoteWeight', n, Nat, s, w)
  BY DEF SyndicatesInv, SyndicateTypes, SyndicateWrite, Put, Listed, Count
<1>1. /\ Listed(syndicates', n, SyndicateType) /\ syndicates'[s] = p
      /\ \A t \in (1 .. n) \ {s} : syndicates'[t] = syndicates[t]
  BY <1>0, PutListed
<1>2. /\ Listed(contributions', n, Stakings) /\ contributions'[s] = c
      /\ \A t \in (1 .. n) \ {s} : contributions'[t] = contributions[t]
  BY <1>0, PutListed
<1>3. /\ Listed(syndicateMemberList', n, Seq(SyndicateMembers)) /\ syndicateMemberList'[s] = l
      /\ \A t \in (1 .. n) \ {s} : syndicateMemberList'[t] = syndicateMemberList[t]
  BY <1>0, PutListed
<1>4. /\ Listed(dissolutionVotes', n, SUBSET SyndicateMembers) /\ dissolutionVotes'[s] = v
      /\ \A t \in (1 .. n) \ {s} : dissolutionVotes'[t] = dissolutionVotes[t]
  BY <1>0, PutListed
<1>5. /\ Listed(dissolutionVoteWeight', n, Nat) /\ dissolutionVoteWeight'[s] = w
      /\ \A t \in (1 .. n) \ {s} : dissolutionVoteWeight'[t] = dissolutionVoteWeight[t]
  BY <1>0, PutListed
<1>6. Count' = n
  BY <1>1 DEF Count, Listed
<1>7. RowChange(contributions, contributions', 1 .. n, SyndicateMembers, s)
  <2>1. \A t \in 1 .. n : contributions[t] \in Stakings /\ contributions'[t] \in Stakings
    BY <1>2, ListedElement DEF SyndicatesInv, SyndicateTypes
  <2>2. IsFiniteSet(1 .. n) /\ IsFiniteSet(SyndicateMembers)
    BY <1>0, SatelliteAssumption, FS_Interval
  <2>. HIDE DEF n
  <2>. QED BY <1>0, <1>2, <2>1, <2>2 DEF RowChange, Numbers, Stakings
<1>. HIDE DEF n
<1>8. /\ TableSum(contributions', 1 .. n, SyndicateMembers)
           = TableSum(contributions, 1 .. n, SyndicateMembers)
             - SumFunctionOnSet(contributions[s], SyndicateMembers)
             + SumFunctionOnSet(contributions'[s], SyndicateMembers)
      /\ TableSum(contributions', 1 .. n, SyndicateMembers) \in Nat
  BY <1>7, RowUpdate
<1>9. /\ syndicateBalance' = TableSum(contributions', 1 .. n, SyndicateMembers)
      /\ syndicateBalance' \in Nat
  BY <1>2, <1>8 DEF SyndicatesInv, Pooled, n
<1>10. SyndicateTypes'
  BY <1>1, <1>2, <1>3, <1>4, <1>5, <1>6, <1>9 DEF SyndicateTypes, Repointed, n
<1>11. ASSUME NEW t \in 1 .. n
       PROVE  SyndicateSound(syndicates'[t], contributions'[t], syndicateMemberList'[t],
                             dissolutionVotes'[t], dissolutionVoteWeight'[t])
  <2>1. CASE t = s
    BY <1>1, <1>2, <1>3, <1>4, <1>5, <2>1
  <2>2. CASE t # s
    BY <1>1, <1>2, <1>3, <1>4, <1>5, <2>2 DEF SyndicatesInv, n
  <2>. QED BY <2>1, <2>2
<1>12. ASSUME NEW t \in 1 .. n, NEW m \in SyndicateMembers
       PROVE  contributions'[t][m] > 0 <=> agentSyndicateId'[m] = t
  <2>1. CASE t = s
    BY <1>2, <2>1 DEF Repointed
  <2>2. CASE t # s
    <3>1. contributions'[t][m] > 0 <=> agentSyndicateId[m] = t
      BY <1>2, <2>2 DEF SyndicatesInv, Pointing, n
    <3>2. agentSyndicateId[m] = t <=> agentSyndicateId'[m] = t
      BY <1>0, <2>2 DEF Repointed
    <3>. QED BY <3>1, <3>2
  <2>. QED BY <2>1, <2>2
<1>. QED BY <1>6, <1>9, <1>10, <1>11, <1>12 DEF SyndicatesInv, Pointing

\* voteDissolution adds the weight of the voter, once.
LEMMA VoteKeeps ==
  ASSUME SyndicatesInv, NEW s \in 1 .. Count, NEW m \in SyndicateMembers,
         Syndicates!VoteDissolution(s, m)
  PROVE  SyndicatesInv'
<1>. DEFINE p == syndicates[s]
            c == contributions[s]
            l == syndicateMemberList[s]
            v == dissolutionVotes[s]
            w == dissolutionVoteWeight[s]
<1>1. /\ p.status = "Active" /\ c[m] > 0 /\ m \notin v
      /\ dissolutionVotes' = [dissolutionVotes EXCEPT ![s] = v \cup {m}]
      /\ dissolutionVoteWeight' = [dissolutionVoteWeight EXCEPT ![s] = w + c[m]]
      /\ UNCHANGED <<syndicates, contributions, syndicateMemberList, agentSyndicateId,
                     syndicateBalance>>
  BY DEF Syndicates!VoteDissolution, SyndicatesInv, SyndicateTypes, Listed
<1>2. /\ c \in Stakings /\ Pooled(c) \in Nat /\ p \in SyndicateType
      /\ l \in Seq(SyndicateMembers) /\ v \in SUBSET SyndicateMembers /\ w \in Nat
  BY Stakes0
<1>3. /\ syndicates' = [syndicates EXCEPT ![s] = p]
      /\ contributions' = [contributions EXCEPT ![s] = c]
      /\ syndicateMemberList' = [syndicateMemberList EXCEPT ![s] = l]
  BY <1>1, SameListed DEF SyndicatesInv, SyndicateTypes
<1>4. SyndicateSound(p, c, l, v, w)
  BY DEF SyndicatesInv
<1>5. c[m] \in Nat /\ \A x \in SyndicateMembers : c[x] \in Nat /\ c[x] \in Int
  BY <1>2 DEF Stakings
<1>6. Repointed(s, c)
  BY <1>1 DEF SyndicatesInv, SyndicateTypes, Pointing, Repointed
<1>7. syndicateBalance' = syndicateBalance - Pooled(c) + Pooled(c)
  BY <1>1, <1>2 DEF SyndicatesInv, SyndicateTypes
<1>. HIDE DEF p, c, l, v, w
<1>8. IsFiniteSet(v) /\ \A x \in v \cup {m} : c[x] \in Int
  BY <1>2, <1>5, SatelliteAssumption, FS_Subset
<1>9. SumFunctionOnSet(c, v \cup {m}) = c[m] + SumFunctionOnSet(c, v)
  BY <1>1, <1>8, SumAdd
<1>10. SyndicateSound(p, c, l, v \cup {m}, w + c[m])
  BY <1>1, <1>2, <1>4, <1>5, <1>9 DEF SyndicateSound, Backers
<1>11. SyndicateWrite(s, p, c, l, v \cup {m}, w + c[m])
  <2>1. v \cup {m} \in SUBSET SyndicateMembers
    BY <1>2
  <2>2. w + c[m] \in Nat
    BY <1>2, <1>5
  <2>. QED BY <1>1, <1>2, <1>3, <2>1, <2>2 DEF SyndicateWrite
<1>. QED BY <1>6, <1>7, <1>10, <1>11, OneSyndicate DEF c

\* revokeDissolutionVote takes it off again.
LEMMA RevokeKeeps ==
  ASSUME SyndicatesInv, NEW s \in 1 .. Count, NEW m \in SyndicateMembers,
         Syndicates!RevokeDissolutionVote(s, m)
  PROVE  SyndicatesInv'
<1>. DEFINE p == syndicates[s]
            c == contributions[s]
            l == syndicateMemberList[s]
            v == dissolutionVotes[s]
            w == dissolutionVoteWeight[s]
<1>1. /\ m \in v
      /\ dissolutionVotes' = [dissolutionVotes EXCEPT ![s] = v \ {m}]
      /\ dissolutionVoteWeight' = [dissolutionVoteWeight EXCEPT ![s] = w - c[m]]
      /\ UNCHANGED <<syndicates, contributions, syndicateMemberList, agentSyndicateId,
                     syndicateBalance>>
  BY DEF Syndicates!RevokeDissolutionVote, SyndicatesInv, SyndicateTypes, Listed
<1>2. /\ c \in Stakings /\ Pooled(c) \in Nat /\ p \in SyndicateType
      /\ l \in Seq(SyndicateMembers) /\ v \in SUBSET SyndicateMembers /\ w \in Nat
  BY Stakes0
<1>3. /\ syndicates' = [syndicates EXCEPT ![s] = p]
      /\ contributions' = [contributions EXCEPT ![s] = c]
      /\ syndicateMemberList' = [syndicateMemberList EXCEPT ![s] = l]
  BY <1>1, SameListed DEF SyndicatesInv, SyndicateTypes
<1>4. SyndicateSound(p, c, l, v, w)
  BY DEF SyndicatesInv
<1>5. c[m] \in Nat /\ \A x \in SyndicateMembers : c[x] \in Nat /\ c[x] \in Int
  BY <1>2 DEF Stakings
<1>6. Repointed(s, c)
  BY <1>1 DEF SyndicatesInv, SyndicateTypes, Pointing, Repointed
<1>7. syndicateBalance' = syndicateBalance - Pooled(c) + Pooled(c)
  BY <1>1, <1>2 DEF SyndicatesInv, SyndicateTypes
<1>. HIDE DEF p, c, l, v, w
<1>8. IsFiniteSet(v) /\ \A x \in v : c[x] \in Int
  BY <1>2, <1>5, SatelliteAssumption, FS_Subset
<1>9. SumFunctionOnSet(c, v) = c[m] + SumFunctionOnSet(c, v \ {m})
  BY <1>1, <1>8, SumRemove
<1>12. SumFunctionOnSet(c, v \ {m}) \in Nat
  <2>1. IsFiniteSet(v \ {m}) /\ \A x \in v \ {m} : c[x] \in Nat
    BY <1>2, <1>5, <1>8, FS_Subset
  <2>. QED BY <2>1, SumNat
<1>13. w - c[m] \in Nat /\ (p.status = "Active" => w - c[m] = SumFunctionOnSet(c, v \ {m}))
  <2>1. CASE p.status = "Active"
    BY <1>2, <1>4, <1>5, <1>9, <1>12, <2>1 DEF SyndicateSound
  <2>2. CASE p.status # "Active"
    <3>1. c[m] = 0
      BY <1>4, <1>5, <2>2 DEF SyndicateSound, Backers
    <3>. QED BY <1>2, <2>2, <3>1
  <2>. QED BY <2>1, <2>2
<1>10. SyndicateSound(p, c, l, v \ {m}, w - c[m])
  BY <1>4, <1>13 DEF SyndicateSound
<1>11. SyndicateWrite(s, p, c, l, v \ {m}, w - c[m])
  BY <1>1, <1>2, <1>3, <1>13 DEF SyndicateWrite
<1>. QED BY <1>6, <1>7, <1>10, <1>11, OneSyndicate DEF c

StakingChange(c, d, m) ==
  /\ c \in Stakings /\ d \in Stakings /\ m \in SyndicateMembers
  /\ \A x \in SyndicateMembers \ {m} : d[x] = c[x]

\* One member's stake changes: the pool, the backers and the votes of the others follow.
LEMMA OneStaking ==
  ASSUME NEW c, NEW d, NEW m, StakingChange(c, d, m)
  PROVE  /\ Pooled(c) \in Nat /\ Pooled(d) \in Nat /\ c[m] \in Nat /\ d[m] \in Nat
         /\ Pooled(d) = Pooled(c) - c[m] + d[m]
         /\ IsFiniteSet(Backers(c)) /\ Cardinality(Backers(c)) \in Nat
         /\ m \in Backers(c) <=> c[m] > 0
         /\ d[m] > 0 => Backers(d) = Backers(c) \cup {m}
         /\ d[m] = 0 => Backers(d) = Backers(c) \ {m}
         /\ \A v \in SUBSET (SyndicateMembers \ {m}) :
              SumFunctionOnSet(d, v) = SumFunctionOnSet(c, v)
<1>0. IsFiniteSet(SyndicateMembers)
  BY SatelliteAssumption
<1>1. EntryChange(c, d, SyndicateMembers, m)
  BY <1>0 DEF EntryChange, StakingChange, Stakings
<1>2. /\ Pooled(c) \in Nat /\ Pooled(d) \in Nat /\ c[m] \in Nat /\ d[m] \in Nat
      /\ Pooled(d) = Pooled(c) - c[m] + d[m]
  BY <1>1, EntryUpdate DEF Pooled
<1>3. IsFiniteSet(Backers(c)) /\ Cardinality(Backers(c)) \in Nat
  BY <1>0, FS_Subset, FS_CardinalityType DEF Backers
<1>4. m \in SyndicateMembers /\ \A x \in SyndicateMembers \ {m} : d[x] = c[x]
  BY DEF StakingChange
<1>5. m \in Backers(c) <=> c[m] > 0
  BY <1>4 DEF Backers
<1>6. ASSUME d[m] > 0 PROVE Backers(d) = Backers(c) \cup {m}
  BY <1>4, <1>6 DEF Backers
<1>7. ASSUME d[m] = 0 PROVE Backers(d) = Backers(c) \ {m}
  BY <1>4, <1>7 DEF Backers
<1>8. ASSUME NEW v \in SUBSET (SyndicateMembers \ {m})
      PROVE  SumFunctionOnSet(d, v) = SumFunctionOnSet(c, v)
  <2>1. IsFiniteSet(v)
    BY <1>0, FS_Subset
  <2>2. \A x \in v : c[x] = d[x] /\ c[x] \in Int /\ d[x] \in Int
    BY <1>4 DEF StakingChange, Stakings
  <2>. QED BY <2>1, <2>2, SumSame
<1>. QED BY <1>2, <1>3, <1>5, <1>6, <1>7, <1>8

\* joinSyndicate.
LEMMA JoinKeeps ==
  ASSUME SyndicatesInv, NEW s \in 1 .. Count, NEW m \in SyndicateMembers,
         NEW amount \in SyndicateAmounts, Syndicates!JoinSyndicate(s, m, amount)
  PROVE  SyndicatesInv'
<1>. DEFINE p == syndicates[s]
            c == contributions[s]
            l == syndicateMemberList[s]
            v == dissolutionVotes[s]
            w == dissolutionVoteWeight[s]
            total == p.totalStake + amount
            q == [p EXCEPT !.totalStake = total, !.memberCount = p.memberCount + 1]
            d == [c EXCEPT ![m] = amount]
            k == Append(l, m)
<1>2. /\ c \in Stakings /\ Pooled(c) \in Nat /\ p \in SyndicateType
      /\ l \in Seq(SyndicateMembers) /\ v \in SUBSET SyndicateMembers /\ w \in Nat
  BY Stakes0
<1>1. /\ p.status = "Active" /\ amount > 0 /\ agentSyndicateId[m] = 0
      /\ c[p.manager] * 10000 >= total * 2000
      /\ syndicates' = [syndicates EXCEPT ![s] = q]
      /\ contributions' = [contributions EXCEPT ![s] = d]
      /\ syndicateMemberList' = [syndicateMemberList EXCEPT ![s] = k]
      /\ agentSyndicateId' = [agentSyndicateId EXCEPT ![m] = s]
      /\ syndicateBalance' = syndicateBalance + amount
      /\ UNCHANGED <<dissolutionVotes, dissolutionVoteWeight>>
  <2>1. /\ p.status = "Active" /\ amount > 0 /\ agentSyndicateId[m] = 0
        /\ c[p.manager] * 10000 >= total * Syndicates!ManagerMinStakeBps
        /\ contributions' = [contributions EXCEPT ![s] = d]
        /\ syndicateMemberList' = [syndicateMemberList EXCEPT ![s] = k]
        /\ agentSyndicateId' = [agentSyndicateId EXCEPT ![m] = s]
        /\ syndicateBalance' = syndicateBalance + amount
        /\ UNCHANGED <<dissolutionVotes, dissolutionVoteWeight>>
    BY DEF Syndicates!JoinSyndicate
  <2>2. syndicates' = [syndicates EXCEPT ![s] = q]
    <3>1. syndicates' = [syndicates EXCEPT ![s].totalStake = total, ![s].memberCount = @ + 1]
      BY DEF Syndicates!JoinSyndicate
    <3>2. syndicates \in Seq(SyndicateType) /\ s \in 1 .. Len(syndicates)
      BY DEF SyndicatesInv, SyndicateTypes, Listed, Count
    <3>. QED BY <1>2, <3>1, <3>2 DEF SyndicateType
  <2>. QED BY <2>1, <2>2 DEF Syndicates!ManagerMinStakeBps
<1>3. /\ dissolutionVotes' = [dissolutionVotes EXCEPT ![s] = v]
      /\ dissolutionVoteWeight' = [dissolutionVoteWeight EXCEPT ![s] = w]
  BY <1>1, SameListed DEF SyndicatesInv, SyndicateTypes
<1>4. SyndicateSound(p, c, l, v, w)
  BY DEF SyndicatesInv
<1>5. amount \in Nat /\ c[m] \in Nat /\ p.totalStake \in Nat /\ p.memberCount \in Nat
      /\ p.manager \in SyndicateMembers /\ c[p.manager] \in Nat /\ s \in Nat /\ s # 0
  BY <1>2, SatelliteAssumption DEF Stakings, SyndicateType, SyndicatesInv, SyndicateTypes, Listed
<1>6. c[m] = 0
  <2>1. c[m] > 0 <=> agentSyndicateId[m] = s
    BY DEF SyndicatesInv, Pointing
  <2>. QED BY <1>1, <1>5, <2>1
<1>7. StakingChange(c, d, m) /\ d[m] = amount
  BY <1>2, <1>5 DEF StakingChange, Stakings
<1>8. /\ q \in SyndicateType /\ q.totalStake = total /\ q.memberCount = p.memberCount + 1
      /\ q.manager = p.manager /\ q.status = p.status
  <2>1. total \in Nat /\ p.memberCount + 1 \in Nat
    BY <1>5
  <2>. HIDE DEF total
  <2>. QED BY <1>2, <2>1 DEF SyndicateType
<1>9. /\ syndicateBalance \in Nat /\ agentSyndicateId \in [SyndicateMembers -> 0 .. Count]
      /\ s \in 0 .. Count
      /\ \A x \in SyndicateMembers : c[x] > 0 <=> agentSyndicateId[x] = s
  BY DEF SyndicatesInv, SyndicateTypes, Pointing, Listed
<1>10. Repointed(s, d)
  BY <1>1, <1>5, <1>7, <1>9 DEF Repointed, StakingChange
<1>. HIDE DEF c, d, q
<1>11. /\ Pooled(d) \in Nat /\ Pooled(d) = Pooled(c) + amount
       /\ IsFiniteSet(Backers(c)) /\ Cardinality(Backers(c)) \in Nat
       /\ m \notin Backers(c) /\ Backers(d) = Backers(c) \cup {m}
       /\ \A u \in SUBSET (SyndicateMembers \ {m}) :
              SumFunctionOnSet(d, u) = SumFunctionOnSet(c, u)
  <2>1. /\ Pooled(c) \in Nat /\ Pooled(d) \in Nat /\ c[m] \in Nat /\ d[m] \in Nat
        /\ Pooled(d) = Pooled(c) - c[m] + d[m]
        /\ IsFiniteSet(Backers(c)) /\ Cardinality(Backers(c)) \in Nat
        /\ m \in Backers(c) <=> c[m] > 0
        /\ d[m] > 0 => Backers(d) = Backers(c) \cup {m}
        /\ d[m] = 0 => Backers(d) = Backers(c) \ {m}
        /\ \A u \in SUBSET (SyndicateMembers \ {m}) :
               SumFunctionOnSet(d, u) = SumFunctionOnSet(c, u)
    BY <1>7, OneStaking
  <2>. QED BY <1>1, <1>5, <1>6, <1>7, <2>1
<1>12. /\ p.totalStake = Pooled(c) /\ p.memberCount = Cardinality(Backers(c))
       /\ Distinct(l) /\ Elements(l) = Backers(c)
       /\ v \subseteq Backers(c) /\ w = SumFunctionOnSet(c, v)
  BY <1>1, <1>4 DEF SyndicateSound
<1>13. q.totalStake = Pooled(d) /\ q.memberCount = Cardinality(Backers(d))
  <2>1. Cardinality(Backers(d)) = Cardinality(Backers(c)) + 1
    BY <1>11, FS_AddElement
  <2>. QED BY <1>8, <1>11, <1>12, <2>1
<1>14. k \in Seq(SyndicateMembers) /\ Distinct(k) /\ Elements(k) = Backers(d)
  BY <1>2, <1>11, <1>12, AppendedList
<1>15. v \subseteq Backers(d) /\ w = SumFunctionOnSet(d, v)
  <2>1. v \in SUBSET (SyndicateMembers \ {m})
    BY <1>2, <1>11, <1>12
  <2>. QED BY <1>11, <1>12, <2>1
<1>16. d[q.manager] * 10000 >= q.totalStake * 2000
  <2>1. p.manager # m
    <3>1. c[p.manager] # 0
      <4>. HIDE DEF p
      <4>. QED BY <1>1, <1>5
    <3>. QED BY <1>6, <3>1
  <2>2. d[p.manager] = c[p.manager]
    BY <1>5, <1>7, <2>1 DEF StakingChange
  <2>. QED BY <1>1, <1>8, <2>2
<1>. HIDE DEF k
<1>17. SyndicateSound(q, d, k, v, w)
  <2>1. q.status = "Active" /\ Backers(d) # {}
    BY <1>1, <1>8, <1>11
  <2>. QED BY <1>13, <1>14, <1>15, <1>16, <2>1 DEF SyndicateSound
<1>18. SyndicateWrite(s, q, d, k, v, w)
  BY <1>1, <1>2, <1>3, <1>7, <1>8, <1>14 DEF SyndicateWrite, StakingChange
<1>19. syndicateBalance' = syndicateBalance - Pooled(c) + Pooled(d)
  BY <1>1, <1>2, <1>5, <1>9, <1>11
<1>. QED BY <1>10, <1>17, <1>18, <1>19, OneSyndicate DEF c

\* leaveSyndicate, with the leaver's vote.
LEMMA LeaveKeeps ==
  ASSUME SyndicatesInv, NEW s \in 1 .. Count, NEW m \in SyndicateMembers,
         Syndicates!LeaveSyndicate(s, m)
  PROVE  SyndicatesInv'
<1>. DEFINE p == syndicates[s]
            c == contributions[s]
            l == syndicateMemberList[s]
            v == dissolutionVotes[s]
            w == dissolutionVoteWeight[s]
            left == p.memberCount - 1
            end == IF left = 0 THEN "Dissolved" ELSE p.status
            q == [p EXCEPT !.totalStake = p.totalStake - c[m], !.memberCount = left,
                           !.status = end]
            d == [c EXCEPT ![m] = 0]
            k == Syndicates!SwapOut(l, m)
            x == w - IF m \in v THEN c[m] ELSE 0
<1>2. /\ c \in Stakings /\ Pooled(c) \in Nat /\ p \in SyndicateType
      /\ l \in Seq(SyndicateMembers) /\ v \in SUBSET SyndicateMembers /\ w \in Nat
  BY Stakes0
<1>1. /\ c[m] > 0 /\ (m = p.manager => p.memberCount <= 1)
      /\ syndicates' = [syndicates EXCEPT ![s] = q]
      /\ contributions' = [contributions EXCEPT ![s] = d]
      /\ syndicateMemberList' = [syndicateMemberList EXCEPT ![s] = k]
      /\ dissolutionVotes' = [dissolutionVotes EXCEPT ![s] = v \ {m}]
      /\ dissolutionVoteWeight' = [dissolutionVoteWeight EXCEPT ![s] = x]
      /\ agentSyndicateId' = [agentSyndicateId EXCEPT ![m] = 0]
      /\ syndicateBalance' = syndicateBalance - c[m]
  BY <1>2 DEF Syndicates!LeaveSyndicate, SyndicatesInv, SyndicateTypes, Listed, SyndicateType
<1>4. SyndicateSound(p, c, l, v, w)
  BY DEF SyndicatesInv
<1>5. /\ c[m] \in Nat /\ p.totalStake \in Nat /\ p.memberCount \in Nat
      /\ p.manager \in SyndicateMembers /\ c[p.manager] \in Nat /\ s \in Nat /\ s # 0
      /\ p.status \in {"Active", "Dissolved"}
  BY <1>2 DEF Stakings, SyndicateType, SyndicatesInv, SyndicateTypes, Listed
<1>7. StakingChange(c, d, m) /\ d[m] = 0
  BY <1>2 DEF StakingChange, Stakings
<1>9. /\ syndicateBalance \in Nat /\ agentSyndicateId \in [SyndicateMembers -> 0 .. Count]
      /\ s \in 0 .. Count /\ 0 \in 0 .. Count
      /\ \A y \in SyndicateMembers : c[y] > 0 <=> agentSyndicateId[y] = s
  BY DEF SyndicatesInv, SyndicateTypes, Pointing, Listed
<1>10. Repointed(s, d)
  BY <1>1, <1>5, <1>7, <1>9 DEF Repointed, StakingChange
<1>. HIDE DEF c, d
<1>11. /\ Pooled(d) \in Nat /\ Pooled(d) = Pooled(c) - c[m]
       /\ IsFiniteSet(Backers(c)) /\ Cardinality(Backers(c)) \in Nat
       /\ m \in Backers(c) /\ Backers(d) = Backers(c) \ {m}
       /\ \A u \in SUBSET (SyndicateMembers \ {m}) :
              SumFunctionOnSet(d, u) = SumFunctionOnSet(c, u)
  <2>1. /\ Pooled(c) \in Nat /\ Pooled(d) \in Nat /\ c[m] \in Nat /\ d[m] \in Nat
        /\ Pooled(d) = Pooled(c) - c[m] + d[m]
        /\ IsFiniteSet(Backers(c)) /\ Cardinality(Backers(c)) \in Nat
        /\ m \in Backers(c) <=> c[m] > 0
        /\ d[m] > 0 => Backers(d) = Backers(c) \cup {m}
        /\ d[m] = 0 => Backers(d) = Backers(c) \ {m}
        /\ \A u \in SUBSET (SyndicateMembers \ {m}) :
               SumFunctionOnSet(d, u) = SumFunctionOnSet(c, u)
    BY <1>7, OneStaking
  <2>. QED BY <1>1, <1>5, <1>7, <2>1
<1>12. /\ p.totalStake = Pooled(c) /\ p.memberCount = Cardinality(Backers(c))
       /\ Distinct(l) /\ Elements(l) = Backers(c)
       /\ v \subseteq Backers(c) /\ w = SumFunctionOnSet(c, v)
       /\ c[p.manager] * 10000 >= p.totalStake * 2000
  <2>1. p.status = "Active"
    BY <1>4, <1>11 DEF SyndicateSound
  <2>. QED BY <1>4, <2>1 DEF SyndicateSound
<1>13. /\ p.totalStake - c[m] = Pooled(d) /\ left = Cardinality(Backers(d))
       /\ left \in Nat /\ p.totalStake - c[m] \in Nat /\ IsFiniteSet(Backers(d))
  <2>1. Cardinality(Backers(d)) = Cardinality(Backers(c)) - 1 /\ Cardinality(Backers(d)) \in Nat
        /\ IsFiniteSet(Backers(d))
    BY <1>11, FS_RemoveElement, FS_CardinalityType
  <2>. HIDE DEF p
  <2>. QED BY <1>11, <1>12, <2>1
<1>14. k \in Seq(SyndicateMembers) /\ Distinct(k) /\ Elements(k) = Backers(d)
  <2>. HIDE DEF l
  <2>1. PICK i \in 1 .. Len(l) : l[i] = m /\ Syndicates!SwapOut(l, m) = Swapped(l, i)
    BY <1>2, <1>11, <1>12, SyndicatesSwap
  <2>2. /\ Swapped(l, i) \in Seq(SyndicateMembers) /\ Distinct(Swapped(l, i))
        /\ Elements(Swapped(l, i)) = Elements(l) \ {l[i]}
    BY <1>2, <1>12, SwappedList
  <2>. QED BY <1>11, <1>12, <2>1, <2>2
<1>15. v \ {m} \subseteq Backers(d) /\ x = SumFunctionOnSet(d, v \ {m}) /\ x \in Nat
  <2>1. v \ {m} \in SUBSET (SyndicateMembers \ {m}) /\ IsFiniteSet(v)
    BY <1>2, SatelliteAssumption, FS_Subset
  <2>2. \A y \in v : c[y] \in Nat /\ c[y] \in Int
    BY <1>2 DEF Stakings
  <2>3. x = SumFunctionOnSet(c, v \ {m})
    <3>1. CASE m \in v
      <4>1. SumFunctionOnSet(c, v) = c[m] + SumFunctionOnSet(c, v \ {m})
        BY <2>1, <2>2, <3>1, SumRemove
      <4>2. IsFiniteSet(v \ {m}) /\ \A y \in v \ {m} : c[y] \in Nat
        BY <2>1, <2>2, FS_Subset
      <4>3. SumFunctionOnSet(c, v \ {m}) \in Nat
        BY <4>2, SumNat
      <4>. QED BY <1>5, <1>12, <3>1, <4>1, <4>3
    <3>2. CASE m \notin v
      <4>1. v \ {m} = v /\ x = w
        BY <1>2, <3>2
      <4>. HIDE DEF x, v, w
      <4>. QED BY <1>12, <4>1
    <3>. QED BY <3>1, <3>2
  <2>4. SumFunctionOnSet(c, v \ {m}) = SumFunctionOnSet(d, v \ {m})
    BY <1>11, <2>1
  <2>5. SumFunctionOnSet(c, v \ {m}) \in Nat
    <3>1. IsFiniteSet(v \ {m}) /\ \A y \in v \ {m} : c[y] \in Nat
      BY <2>1, <2>2, FS_Subset
    <3>. QED BY <3>1, SumNat
  <2>. HIDE DEF x
  <2>. QED BY <1>11, <1>12, <2>3, <2>4, <2>5
<1>8. /\ q \in SyndicateType /\ q.totalStake = p.totalStake - c[m] /\ q.memberCount = left
      /\ q.manager = p.manager /\ q.status = end
  <2>1. end \in {"Active", "Dissolved"}
    BY <1>5
  <2>. HIDE DEF end, left
  <2>. QED BY <1>2, <1>13, <2>1 DEF SyndicateType
<1>16. end = "Active" <=> Backers(d) # {}
  <2>1. Backers(d) = {} <=> left = 0
    <3>. HIDE DEF left
    <3>. QED BY <1>13, FS_EmptySet
  <2>2. p.status = "Active"
    BY <1>4, <1>11 DEF SyndicateSound
  <2>. HIDE DEF left
  <2>. QED BY <2>1, <2>2
<1>17. ASSUME end = "Active" PROVE d[q.manager] * 10000 >= q.totalStake * 2000
  <2>1. p.manager # m
    <3>1. left # 0
      BY <1>17
    <3>. HIDE DEF p
    <3>. QED BY <1>1, <1>5, <1>13, <3>1 DEF p
  <2>2. d[p.manager] = c[p.manager]
    BY <1>5, <1>7, <2>1 DEF StakingChange
  <2>3. p.totalStake * 2000 >= (p.totalStake - c[m]) * 2000
    <3>. HIDE DEF p
    <3>. QED BY <1>5
  <2>4. c[p.manager] * 10000 >= (p.totalStake - c[m]) * 2000
    <3>. HIDE DEF p
    <3>. QED BY <1>5, <1>12, <2>3
  <2>. QED BY <1>8, <2>2, <2>4
<1>. HIDE DEF k, q, x, end, left
<1>18. SyndicateSound(q, d, k, v \ {m}, x)
  BY <1>8, <1>13, <1>14, <1>15, <1>16, <1>17 DEF SyndicateSound
<1>19. SyndicateWrite(s, q, d, k, v \ {m}, x)
  <2>1. v \ {m} \in SUBSET SyndicateMembers /\ d \in Stakings
    BY <1>2, <1>7 DEF StakingChange
  <2>. QED BY <1>1, <1>8, <1>14, <1>15, <2>1 DEF SyndicateWrite
<1>20. syndicateBalance' = syndicateBalance - Pooled(c) + Pooled(d)
  BY <1>1, <1>2, <1>5, <1>9, <1>11
<1>. QED BY <1>10, <1>18, <1>19, <1>20, OneSyndicate DEF c

\* dissolveSyndicate pays every member its stake.
LEMMA DissolveKeeps ==
  ASSUME SyndicatesInv, NEW s \in 1 .. Count, Syndicates!DissolveSyndicate(s)
  PROVE  SyndicatesInv'
<1>. DEFINE p == syndicates[s]
            c == contributions[s]
            l == syndicateMemberList[s]
            v == dissolutionVotes[s]
            w == dissolutionVoteWeight[s]
            repaid == Backers(c)
            q == [p EXCEPT !.status = "Dissolved", !.totalStake = 0, !.memberCount = 0]
            d == [m \in SyndicateMembers |-> IF m \in repaid THEN 0 ELSE c[m]]
<1>2. /\ c \in Stakings /\ Pooled(c) \in Nat /\ p \in SyndicateType
      /\ l \in Seq(SyndicateMembers) /\ v \in SUBSET SyndicateMembers /\ w \in Nat
  BY Stakes0
<1>4. SyndicateSound(p, c, l, v, w)
  BY DEF SyndicatesInv
<1>3. {m \in Syndicates!ToSet(l) : c[m] > 0} = repaid
  <2>1. p.status = "Active"
    BY DEF Syndicates!DissolveSyndicate
  <2>2. Elements(l) = Backers(c)
    BY <1>4, <2>1 DEF SyndicateSound
  <2>3. Syndicates!ToSet(l) = Elements(l)
    BY <1>2 DEF Syndicates!ToSet, Elements
  <2>. QED BY <2>2, <2>3 DEF Backers
<1>1. /\ syndicates' = [syndicates EXCEPT ![s] = q]
      /\ contributions' = [contributions EXCEPT ![s] = d]
      /\ agentSyndicateId' = [m \in SyndicateMembers |->
                                IF m \in repaid THEN 0 ELSE agentSyndicateId[m]]
      /\ syndicateBalance' = syndicateBalance - SumFunctionOnSet(c, repaid)
      /\ UNCHANGED <<syndicateMemberList, dissolutionVotes, dissolutionVoteWeight>>
  <2>1. syndicates' = [syndicates EXCEPT ![s] = q]
    BY <1>2 DEF Syndicates!DissolveSyndicate, SyndicatesInv, SyndicateTypes, Listed, SyndicateType
  <2>. HIDE DEF repaid
  <2>2. /\ contributions' = [contributions EXCEPT ![s] = d]
        /\ agentSyndicateId' = [m \in SyndicateMembers |->
                                  IF m \in repaid THEN 0 ELSE agentSyndicateId[m]]
        /\ syndicateBalance' = syndicateBalance - Syndicates!SumFunctionOnSet(c, repaid)
        /\ UNCHANGED <<syndicateMemberList, dissolutionVotes, dissolutionVoteWeight>>
    BY <1>3 DEF Syndicates!DissolveSyndicate
  <2>. QED BY <2>1, <2>2, SyndicatesSum
<1>5. /\ syndicateMemberList' = [syndicateMemberList EXCEPT ![s] = l]
      /\ dissolutionVotes' = [dissolutionVotes EXCEPT ![s] = v]
      /\ dissolutionVoteWeight' = [dissolutionVoteWeight EXCEPT ![s] = w]
  BY <1>1, SameListed DEF SyndicatesInv, SyndicateTypes
<1>6. \A m \in SyndicateMembers : d[m] = 0 /\ c[m] \in Nat /\ (m \notin repaid => c[m] = 0)
  BY <1>2 DEF Backers, Stakings
<1>7. d \in Stakings /\ Backers(d) = {} /\ Pooled(d) = 0 /\ Cardinality(Backers(d)) = 0
  <2>1. d \in Stakings
    BY <1>6 DEF Stakings
  <2>. HIDE DEF d
  <2>2. Backers(d) = {}
    BY <1>6 DEF Backers
  <2>3. Pooled(d) = 0
    BY <1>6, SatelliteAssumption, SumZero DEF Pooled
  <2>. QED BY <2>1, <2>2, <2>3, FS_EmptySet
<1>8. SumFunctionOnSet(c, repaid) = Pooled(c)
  <2>. HIDE DEF c
  <2>1. repaid \in SUBSET SyndicateMembers /\ \A m \in SyndicateMembers : c[m] \in Int
    BY <1>6 DEF Backers
  <2>2. \A m \in SyndicateMembers \ repaid : c[m] = 0
    BY <1>6
  <2>. HIDE DEF repaid
  <2>. QED BY <2>1, <2>2, SatelliteAssumption, SumSupport DEF Pooled
<1>9. Repointed(s, d)
  <2>1. /\ agentSyndicateId \in [SyndicateMembers -> 0 .. Count]
        /\ 0 \in 0 .. Count /\ s # 0
        /\ \A y \in SyndicateMembers : y \in repaid <=> agentSyndicateId[y] = s
    BY DEF SyndicatesInv, SyndicateTypes, Pointing, Listed, Backers
  <2>2. \A y \in SyndicateMembers : d[y] = 0
    BY <1>6
  <2>. HIDE DEF repaid, d
  <2>3. \A y \in SyndicateMembers :
          agentSyndicateId'[y] = IF y \in repaid THEN 0 ELSE agentSyndicateId[y]
    BY <1>1
  <2>4. agentSyndicateId' \in [SyndicateMembers -> 0 .. Count]
    BY <1>1, <2>1
  <2>. QED BY <2>1, <2>2, <2>3, <2>4 DEF Repointed
<1>10. /\ q \in SyndicateType /\ q.status = "Dissolved" /\ q.totalStake = 0
       /\ q.memberCount = 0
  BY <1>2 DEF SyndicateType
<1>. HIDE DEF q, d
<1>11. SyndicateSound(q, d, l, v, w)
  BY <1>7, <1>10 DEF SyndicateSound
<1>12. SyndicateWrite(s, q, d, l, v, w)
  BY <1>1, <1>2, <1>5, <1>7, <1>10 DEF SyndicateWrite
<1>13. syndicateBalance' = syndicateBalance - Pooled(c) + Pooled(d)
  BY <1>1, <1>2, <1>7, <1>8 DEF SyndicatesInv, SyndicateTypes
<1>. QED BY <1>9, <1>11, <1>12, <1>13, OneSyndicate

\* createSyndicate.
LEMMA CreateKeeps ==
  ASSUME SyndicatesInv, NEW m \in SyndicateMembers, NEW amount \in SyndicateAmounts,
         Syndicates!CreateSyndicate(m, amount)
  PROVE  SyndicatesInv'
<1>. DEFINE n == Count
            p == [manager |-> m, totalStake |-> amount, memberCount |-> 1, status |-> "Active"]
            none == [x \in SyndicateMembers |-> 0]
            c == [none EXCEPT ![m] = amount]
            l == <<m>>
<1>1. /\ amount > 0 /\ agentSyndicateId[m] = 0
      /\ syndicates' = Append(syndicates, p)
      /\ contributions' = Append(contributions, c)
      /\ syndicateMemberList' = Append(syndicateMemberList, l)
      /\ agentSyndicateId' = [agentSyndicateId EXCEPT ![m] = n + 1]
      /\ dissolutionVotes' = Append(dissolutionVotes, {})
      /\ dissolutionVoteWeight' = Append(dissolutionVoteWeight, 0)
      /\ syndicateBalance' = syndicateBalance + amount
  BY DEF Syndicates!CreateSyndicate, Syndicates!NoContributions, Count
<1>2. amount \in Nat /\ n \in Nat /\ syndicateBalance \in Nat
      /\ agentSyndicateId \in [SyndicateMembers -> 0 .. n]
  BY SatelliteAssumption DEF SyndicatesInv, SyndicateTypes, Listed
<1>3. /\ StakingChange(none, c, m) /\ c[m] = amount /\ none[m] = 0
      /\ c \in Stakings /\ none \in Stakings /\ \A x \in SyndicateMembers : none[x] = 0
      /\ \A x \in SyndicateMembers \ {m} : c[x] = 0
  BY <1>2 DEF StakingChange, Stakings
<1>4. p \in SyndicateType /\ l \in Seq(SyndicateMembers)
  BY <1>2 DEF SyndicateType
<1>. HIDE DEF none, c
<1>5. Pooled(c) = amount /\ Backers(c) = {m} /\ Cardinality(Backers(c)) = 1
  <2>1. Pooled(none) = 0
    BY <1>3, SatelliteAssumption, SumZero DEF Pooled
  <2>2. Backers(c) = {m}
    BY <1>1, <1>3 DEF Backers
  <2>3. Pooled(c) = Pooled(none) - none[m] + c[m]
    BY <1>3, OneStaking
  <2>4. Cardinality(Backers(c)) = 1
    BY <2>2, FS_Singleton
  <2>. QED BY <1>2, <1>3, <2>1, <2>2, <2>3, <2>4
<1>6. SyndicateSound(p, c, l, {}, 0)
  <2>1. Distinct(l) /\ Elements(l) = {m}
    BY DEF Distinct, Elements
  <2>2. SumFunctionOnSet(c, {}) = 0
    BY SumEmpty
  <2>3. c[p.manager] * 10000 >= p.totalStake * 2000
    BY <1>2, <1>3
  <2>. HIDE DEF l
  <2>. QED BY <1>5, <2>1, <2>2, <2>3 DEF SyndicateSound
<1>7. /\ Added(syndicates, syndicates', n, SyndicateType, p)
      /\ Added(contributions, contributions', n, Stakings, c)
      /\ Added(syndicateMemberList, syndicateMemberList', n, Seq(SyndicateMembers), l)
      /\ Added(dissolutionVotes, dissolutionVotes', n, SUBSET SyndicateMembers, {})
      /\ Added(dissolutionVoteWeight, dissolutionVoteWeight', n, Nat, 0)
  BY <1>1, <1>3, <1>4 DEF SyndicatesInv, SyndicateTypes, Added
<1>. HIDE DEF p, l
<1>8. /\ Listed(syndicates', n + 1, SyndicateType) /\ syndicates'[n + 1] = p
      /\ \A t \in 1 .. n : syndicates'[t] = syndicates[t]
  BY <1>7, AddListed
<1>9. /\ Listed(contributions', n + 1, Stakings) /\ contributions'[n + 1] = c
      /\ \A t \in 1 .. n : contributions'[t] = contributions[t]
  BY <1>7, AddListed
<1>10. /\ Listed(syndicateMemberList', n + 1, Seq(SyndicateMembers))
       /\ syndicateMemberList'[n + 1] = l
       /\ \A t \in 1 .. n : syndicateMemberList'[t] = syndicateMemberList[t]
  BY <1>7, AddListed
<1>11. /\ Listed(dissolutionVotes', n + 1, SUBSET SyndicateMembers)
       /\ dissolutionVotes'[n + 1] = {}
       /\ \A t \in 1 .. n : dissolutionVotes'[t] = dissolutionVotes[t]
  BY <1>7, AddListed
<1>12. /\ Listed(dissolutionVoteWeight', n + 1, Nat) /\ dissolutionVoteWeight'[n + 1] = 0
       /\ \A t \in 1 .. n : dissolutionVoteWeight'[t] = dissolutionVoteWeight[t]
  BY <1>7, AddListed
<1>13. Count' = n + 1
  BY <1>8 DEF Count, Listed
<1>. DEFINE ids == 1 .. n
            id == n + 1
<1>14. 1 .. n + 1 = ids \cup {id} /\ IsFiniteSet(ids) /\ id \notin ids
  <2>1. IsFiniteSet(1 .. n)
    BY <1>2, FS_Interval
  <2>2. n + 1 \notin 1 .. n
    BY <1>2
  <2>3. \A t : t \in 1 .. n + 1 <=> t \in 1 .. n \/ t = n + 1
    BY <1>2
  <2>. QED BY <2>1, <2>2, <2>3
<1>15. RowAddition(contributions, contributions', ids, SyndicateMembers, id)
  <2>1. \A t \in 1 .. n + 1 : contributions'[t] \in Stakings
    BY <1>9, ListedElement
  <2>2. \A t \in ids \cup {id}, x \in SyndicateMembers : contributions'[t][x] \in Nat
    BY <1>14, <2>1 DEF Stakings
  <2>3. \A t \in ids : contributions'[t] = contributions[t]
    BY <1>9
  <2>. HIDE DEF n, ids, id
  <2>. QED BY <1>14, <2>2, <2>3, SatelliteAssumption DEF RowAddition, Numbers
<1>17. /\ syndicateBalance' = TableSum(contributions', 1 .. n + 1, SyndicateMembers)
       /\ syndicateBalance' \in Nat
  <2>1. contributions'[id] = c
    BY <1>9
  <2>2. syndicateBalance = TableSum(contributions, ids, SyndicateMembers)
    BY DEF SyndicatesInv
  <2>. HIDE DEF ids, id
  <2>3. TableSum(contributions', ids \cup {id}, SyndicateMembers)
            = TableSum(contributions, ids, SyndicateMembers)
              + SumFunctionOnSet(contributions'[id], SyndicateMembers)
    BY <1>15, RowAdd
  <2>4. SumFunctionOnSet(contributions'[id], SyndicateMembers) = amount
    BY <1>5, <2>1 DEF Pooled
  <2>5. TableSum(contributions', 1 .. n + 1, SyndicateMembers) = syndicateBalance + amount
    BY <1>14, <2>2, <2>3, <2>4
  <2>. QED BY <1>1, <1>2, <2>5
<1>22. \A t \in 1 .. n + 1 : t \in 1 .. n \/ t = n + 1
  BY <1>2
<1>. HIDE DEF n
<1>18. agentSyndicateId' \in [SyndicateMembers -> 0 .. n + 1]
  <2>1. \A t \in 0 .. n : t \in 0 .. n + 1
    BY <1>2
  <2>2. n + 1 \in 0 .. n + 1
    BY <1>2
  <2>. QED BY <1>1, <1>2, <2>1, <2>2
<1>19. SyndicateTypes'
  BY <1>8, <1>9, <1>10, <1>11, <1>12, <1>13, <1>17, <1>18 DEF SyndicateTypes
<1>20. ASSUME NEW t \in 1 .. n + 1
       PROVE  SyndicateSound(syndicates'[t], contributions'[t], syndicateMemberList'[t],
                             dissolutionVotes'[t], dissolutionVoteWeight'[t])
  <2>1. CASE t = n + 1
    BY <1>6, <1>8, <1>9, <1>10, <1>11, <1>12, <2>1
  <2>2. CASE t # n + 1
    <3>1. t \in 1 .. n
      BY <1>22, <2>2
    <3>2. SyndicateSound(syndicates[t], contributions[t], syndicateMemberList[t],
                         dissolutionVotes[t], dissolutionVoteWeight[t])
      BY <3>1 DEF SyndicatesInv, n
    <3>. QED BY <1>8, <1>9, <1>10, <1>11, <1>12, <3>1, <3>2
  <2>. QED BY <2>1, <2>2
<1>21. ASSUME NEW t \in 1 .. n + 1, NEW x \in SyndicateMembers
       PROVE  contributions'[t][x] > 0 <=> agentSyndicateId'[x] = t
  <2>1. agentSyndicateId'[x] = IF x = m THEN n + 1 ELSE agentSyndicateId[x]
    BY <1>1, <1>2
  <2>2. CASE t = n + 1
    <3>1. agentSyndicateId[x] # n + 1
      BY <1>2
    <3>2. contributions'[t] = c
      BY <1>9, <2>2
    <3>3. agentSyndicateId'[x] = t <=> x = m
      BY <2>1, <2>2, <3>1
    <3>4. c[x] > 0 <=> x = m
      BY <1>1, <1>3
    <3>. QED BY <3>2, <3>3, <3>4
  <2>3. CASE t # n + 1
    <3>1. t \in 1 .. n
      BY <1>22, <2>3
    <3>2. contributions'[t] = contributions[t]
      BY <1>9, <3>1
    <3>3. contributions[t][x] > 0 <=> agentSyndicateId[x] = t
      BY <3>1 DEF SyndicatesInv, Pointing, n
    <3>4. t # 0
      BY <1>2, <3>1
    <3>. QED BY <1>1, <2>1, <2>3, <3>2, <3>3, <3>4
  <2>. QED BY <2>2, <2>3
<1>. QED BY <1>13, <1>17, <1>19, <1>20, <1>21 DEF SyndicatesInv, Pointing

\* No call leaves the invariant.
LEMMA SyndicatesStepKeeps ==
  SyndicatesInv /\ [Syndicates!SyndicatesNext]_syndicatesAll => SyndicatesInv'
<1>. SUFFICES ASSUME SyndicatesInv, [Syndicates!SyndicatesNext]_syndicatesAll
              PROVE  SyndicatesInv'
  OBVIOUS
<1>1. CASE \/ UNCHANGED syndicatesAll
           \/ \E m \in SyndicateMembers : Syndicates!CoreBans(m)
  <2>1. UNCHANGED <<syndicates, contributions, syndicateMemberList, agentSyndicateId,
                    dissolutionVotes, dissolutionVoteWeight, syndicateBalance>>
    BY <1>1 DEF syndicatesAll, Syndicates!CoreBans
  <2>. QED BY <2>1 DEF SyndicatesInv, SyndicateTypes, Count
<1>2. Syndicates!SyndicateIds = 1 .. Count
  BY ListedElement DEF SyndicatesInv, SyndicateTypes, Syndicates!SyndicateIds
<1>. QED BY <1>1, <1>2, CreateKeeps, JoinKeeps, LeaveKeeps, VoteKeeps, RevokeKeeps, DissolveKeeps
         DEF Syndicates!SyndicatesNext

-----------------------------------------------------------------------------
(* Templates                                                               *)

\* The module's sums are those of the library.
LEMMA RecurringSum ==
  ASSUME NEW fun, NEW S
  PROVE  Recurring!SumFunctionOnSet(fun, S) = SumFunctionOnSet(fun, S)
BY DEF Recurring!SumFunctionOnSet, Recurring!FoldFunctionOnSet, Recurring!MapThenFoldSet,
       SumFunctionOnSet, FoldFunctionOnSet, MapThenFoldSet

\* The module's cardinalities are those of the library.
LEMMA RecurringCardinality ==
  ASSUME NEW S
  PROVE  Recurring!Cardinality(S) = Cardinality(S)
BY DEF Recurring!Cardinality, Cardinality

TemplateType == [poster : Posters, terms : TemplateTerms, totalEscrowed : Nat,
                 triggeredCount : Nat, lastTriggeredAt : Nat,
                 status : {"Active", "Paused", "Cancelled", "Completed"}]
CoreTaskType == [template : Nat, occurrence : Nat, open : BOOLEAN]

RecurringTypes ==
  /\ templateNow \in Nat
  /\ Listed(templates, Len(templates), TemplateType)
  /\ Listed(coreTasks, Len(coreTasks), CoreTaskType)
  /\ posterActiveTemplates \in [Posters -> Nat]
  /\ returned \in Nat /\ templateBalance \in Nat

\* A template holds the bounty of the occurrences that are still to come.
TemplateSound(t) ==
  /\ t.triggeredCount <= t.terms.occurrences
  /\ t.totalEscrowed = IF t.status = "Cancelled" THEN 0
                       ELSE t.terms.bounty * (t.terms.occurrences - t.triggeredCount)
OpenTemplate(t) == t.status \in {"Active", "Paused"}
Escrows(ts) == [id \in 1 .. Len(ts) |-> ts[id].totalEscrowed]
Escrowed(ts) == SumFunctionOnSet(Escrows(ts), 1 .. Len(ts))
Slots(ts, p) == {id \in 1 .. Len(ts) : ts[id].poster = p /\ OpenTemplate(ts[id])}

\* The tasks of the core are the occurrences triggered so far, each once.
OccurrencesSound(cs, ts) ==
  /\ \A c \in 1 .. Len(cs) : /\ cs[c].template \in 1 .. Len(ts)
                             /\ cs[c].occurrence < ts[cs[c].template].triggeredCount
  /\ \A id \in 1 .. Len(ts), k \in Nat : k < ts[id].triggeredCount =>
       \E c \in 1 .. Len(cs) : cs[c].template = id /\ cs[c].occurrence = k
  /\ \A c, d \in 1 .. Len(cs) :
       cs[c].template = cs[d].template /\ cs[c].occurrence = cs[d].occurrence => c = d

RecurringInv ==
  /\ RecurringTypes
  /\ templateBalance = returned + Escrowed(templates)
  /\ \A id \in 1 .. Len(templates) : TemplateSound(templates[id])
  /\ \A p \in Posters : posterActiveTemplates[p] = Cardinality(Slots(templates, p))
  /\ OccurrencesSound(coreTasks, templates)

\* The records of one template.
LEMMA Template0 ==
  ASSUME RecurringInv, NEW id \in 1 .. Len(templates)
  PROVE  /\ templates[id] \in TemplateType /\ TemplateSound(templates[id])
         /\ templates[id].terms.bounty \in Nat /\ templates[id].terms.occurrences \in Nat
         /\ templates[id].triggeredCount \in Nat /\ templates[id].totalEscrowed \in Nat
         /\ templates[id].poster \in Posters /\ templates[id].terms \in TemplateTerms
<1>1. templates[id] \in TemplateType
  BY ListedElement DEF RecurringInv, RecurringTypes
<1>2. TemplateSound(templates[id])
  BY DEF RecurringInv
<1>3. /\ templates[id].poster \in Posters /\ templates[id].terms \in TemplateTerms
      /\ templates[id].triggeredCount \in Nat /\ templates[id].totalEscrowed \in Nat
  BY <1>1 DEF TemplateType
<1>. QED BY <1>1, <1>2, <1>3, SatelliteAssumption

\* The invariant gives the three properties of the templates.
LEMMA RecurringExact ==
  RecurringInv =>
    Recurring!TemplateFundsExact /\ Recurring!SlotsExact /\ Recurring!OccurrencesOnce
<1>. SUFFICES ASSUME RecurringInv
              PROVE  /\ Recurring!TemplateFundsExact /\ Recurring!SlotsExact
                     /\ Recurring!OccurrencesOnce
  OBVIOUS
<1>1. DOMAIN templates = 1 .. Len(templates) /\ DOMAIN coreTasks = 1 .. Len(coreTasks)
  BY ListedElement DEF RecurringInv, RecurringTypes
<1>2. Recurring!Ids = 1 .. Len(templates)
  BY <1>1 DEF Recurring!Ids
<1>3. Recurring!TemplateFundsExact
  <2>1. templateBalance = returned + Recurring!SumFunctionOnSet(
          [id \in Recurring!Ids |-> templates[id].totalEscrowed], Recurring!Ids)
    BY <1>2, RecurringSum DEF RecurringInv, Escrowed, Escrows
  <2>2. \A id \in 1 .. Len(templates) : TemplateSound(templates[id])
    BY DEF RecurringInv
  <2>. QED BY <1>2, <2>1, <2>2 DEF Recurring!TemplateFundsExact, TemplateSound
<1>4. Recurring!SlotsExact
  <2>1. ASSUME NEW p \in Posters
        PROVE  posterActiveTemplates[p] = Recurring!Cardinality(
                 {id \in Recurring!Ids : templates[id].poster = p
                                /\ templates[id].status \in {"Active", "Paused"}})
    <3>1. Slots(templates, p) = {id \in Recurring!Ids : templates[id].poster = p
                                  /\ templates[id].status \in {"Active", "Paused"}}
      BY <1>2 DEF Slots, OpenTemplate
    <3>2. posterActiveTemplates[p] = Cardinality(Slots(templates, p))
      BY DEF RecurringInv
    <3>. QED BY <3>1, <3>2, RecurringCardinality
  <2>. QED BY <2>1 DEF Recurring!SlotsExact
<1>5. Recurring!OccurrencesOnce
  <2>1. OccurrencesSound(coreTasks, templates)
    BY DEF RecurringInv
  <2>2. Recurring!IsInjective([c \in DOMAIN coreTasks |->
          <<coreTasks[c].template, coreTasks[c].occurrence>>])
    BY <1>1, <2>1 DEF Recurring!IsInjective, OccurrencesSound
  <2>3. ASSUME NEW id \in 1 .. Len(templates)
        PROVE  {coreTasks[c].occurrence :
                  c \in {d \in DOMAIN coreTasks : coreTasks[d].template = id}}
                 = 0 .. templates[id].triggeredCount - 1
    <3>. DEFINE seen == {coreTasks[c].occurrence :
                           c \in {d \in DOMAIN coreTasks : coreTasks[d].template = id}}
                top == templates[id].triggeredCount
    <3>1. \A c \in 1 .. Len(coreTasks) : coreTasks[c].occurrence \in Nat
      <4>1. \A c \in 1 .. Len(coreTasks) : coreTasks[c] \in CoreTaskType
        BY ListedElement DEF RecurringInv, RecurringTypes
      <4>. QED BY <4>1 DEF CoreTaskType
    <3>2. top \in Nat
      BY Template0
    <3>3. \A k \in seen : k \in Nat /\ k < top
      BY <1>1, <2>1, <3>1 DEF OccurrencesSound
    <3>4. \A k \in Nat : k < top => k \in seen
      BY <1>1, <2>1 DEF OccurrencesSound
    <3>. HIDE DEF seen, top
    <3>5. \A k : k \in seen <=> k \in 0 .. top - 1
      <4>1. \A k : k \in 0 .. top - 1 <=> k \in Nat /\ k < top
        BY <3>2
      <4>. QED BY <3>3, <3>4, <4>1
    <3>6. seen = 0 .. top - 1
      BY <3>5
    <3>. QED BY <3>6 DEF seen, top
  <2>. QED BY <1>2, <2>2, <2>3 DEF Recurring!OccurrencesOnce, Recurring!Triggered
<1>. QED BY <1>3, <1>4, <1>5

\* The contract starts in the invariant.
LEMMA RecurringInit == Recurring!RecurringInit => RecurringInv
<1>. SUFFICES ASSUME Recurring!RecurringInit PROVE RecurringInv
  OBVIOUS
<1>1. templates = <<>> /\ coreTasks = <<>> /\ Len(templates) = 0 /\ Len(coreTasks) = 0
      /\ 1 .. Len(templates) = {} /\ 1 .. Len(coreTasks) = {}
  BY DEF Recurring!RecurringInit
<1>2. Escrowed(templates) = 0
  BY <1>1, SumEmpty DEF Escrowed
<1>3. \A T : Listed(<<>>, 0, T)
  BY DEF Listed
<1>4. RecurringTypes
  BY <1>1, <1>3 DEF Recurring!RecurringInit, RecurringTypes
<1>5. \A p : Cardinality(Slots(templates, p)) = 0
  BY <1>1, FS_EmptySet DEF Slots
<1>6. OccurrencesSound(coreTasks, templates)
  BY <1>1 DEF OccurrencesSound
<1>. QED BY <1>1, <1>2, <1>4, <1>5, <1>6 DEF RecurringInv, Recurring!RecurringInit

\* The template id becomes t: the poster stays, and it is not opened again.
TemplateWrite(id, t) ==
  /\ id \in 1 .. Len(templates) /\ t \in TemplateType
  /\ templates' = [templates EXCEPT ![id] = t]
  /\ t.poster = templates[id].poster /\ TemplateSound(t)
  /\ OpenTemplate(t) => OpenTemplate(templates[id])
  /\ posterActiveTemplates' =
       IF OpenTemplate(templates[id]) /\ ~OpenTemplate(t)
       THEN [posterActiveTemplates EXCEPT ![t.poster] = posterActiveTemplates[t.poster] - 1]
       ELSE posterActiveTemplates
  /\ templateBalance' = templateBalance - templates[id].totalEscrowed + t.totalEscrowed
  /\ UNCHANGED <<templateNow, returned>>

\* A step that changes one template and moves exactly its escrow.
LEMMA OneTemplate ==
  ASSUME RecurringInv, NEW id, NEW t, TemplateWrite(id, t),
         Listed(coreTasks', Len(coreTasks'), CoreTaskType),
         OccurrencesSound(coreTasks', templates')
  PROVE  RecurringInv'
<1>. DEFINE n == Len(templates)
            ids == 1 .. n
            old == templates[id]
<1>0. n \in Nat /\ id \in ids /\ IsFiniteSet(ids) /\ t \in TemplateType
      /\ old.totalEscrowed \in Nat /\ t.totalEscrowed \in Nat /\ t.poster \in Posters
  <2>1. n \in Nat /\ id \in ids /\ t \in TemplateType
    BY DEF RecurringInv, RecurringTypes, Listed, TemplateWrite
  <2>2. IsFiniteSet(ids)
    BY <2>1, FS_Interval
  <2>3. old.totalEscrowed \in Nat
    BY <2>1, Template0
  <2>. QED BY <2>1, <2>2, <2>3 DEF TemplateType
<1>1. Put(templates, templates', n, TemplateType, id, t)
  BY <1>0 DEF RecurringInv, RecurringTypes, TemplateWrite, Put
<1>. HIDE DEF n
<1>2. /\ Listed(templates', n, TemplateType) /\ templates'[id] = t
      /\ \A i \in ids \ {id} : templates'[i] = templates[i]
  BY <1>1, PutListed
<1>3. Len(templates') = n
  BY <1>2 DEF Listed
<1>4. \A i \in ids : templates[i] \in TemplateType /\ templates'[i] \in TemplateType
  BY <1>2, ListedElement DEF RecurringInv, RecurringTypes, n
<1>5. Escrowed(templates') = Escrowed(templates) - old.totalEscrowed + t.totalEscrowed
      /\ Escrowed(templates') \in Nat /\ Escrowed(templates) \in Nat
  <2>. DEFINE f == Escrows(templates)
              g == Escrows(templates')
  <2>1. /\ \A i \in ids : f[i] = templates[i].totalEscrowed /\ g[i] = templates'[i].totalEscrowed
    BY <1>3 DEF Escrows, n
  <2>2. EntryChange(f, g, ids, id)
    <3>1. \A i \in ids : f[i] \in Nat /\ g[i] \in Nat
      BY <1>4, <2>1 DEF TemplateType
    <3>2. \A i \in ids \ {id} : g[i] = f[i]
      BY <1>2, <2>1
    <3>. HIDE DEF f, g, ids
    <3>. QED BY <1>0, <3>1, <3>2 DEF EntryChange
  <2>3. f[id] = old.totalEscrowed /\ g[id] = t.totalEscrowed
    BY <1>0, <1>2, <2>1
  <2>4. Escrowed(templates) = SumFunctionOnSet(f, ids) /\ Escrowed(templates') = SumFunctionOnSet(g, ids)
    BY <1>3 DEF Escrowed, n
  <2>. HIDE DEF f, g, ids
  <2>5. SumFunctionOnSet(g, ids) = SumFunctionOnSet(f, ids) - f[id] + g[id]
        /\ SumFunctionOnSet(g, ids) \in Nat /\ SumFunctionOnSet(f, ids) \in Nat
    BY <2>2, EntryUpdate
  <2>. QED BY <2>3, <2>4, <2>5
<1>6. templateBalance' = returned' + Escrowed(templates') /\ templateBalance' \in Nat
  <2>1. templateBalance = returned + Escrowed(templates) /\ returned \in Nat
    BY DEF RecurringInv, RecurringTypes
  <2>2. returned' = returned
        /\ templateBalance' = templateBalance - old.totalEscrowed + t.totalEscrowed
    BY DEF TemplateWrite
  <2>. DEFINE a == old.totalEscrowed
              b == t.totalEscrowed
              was == Escrowed(templates)
              is == Escrowed(templates')
  <2>3. a \in Nat /\ b \in Nat /\ was \in Nat /\ is \in Nat /\ is = was - a + b
    BY <1>0, <1>5
  <2>4. templateBalance = returned + was /\ templateBalance' = templateBalance - a + b
    BY <2>1, <2>2
  <2>. HIDE DEF a, b, was, is
  <2>5. templateBalance' = returned' + is /\ templateBalance' \in Nat
    BY <2>1, <2>2, <2>3, <2>4
  <2>. QED BY <2>5 DEF is
<1>7. \A p \in Posters \ {t.poster} : Slots(templates', p) = Slots(templates, p)
  BY <1>0, <1>2, <1>3 DEF Slots, TemplateWrite, n
<1>8. IF OpenTemplate(old) /\ ~OpenTemplate(t)
      THEN Slots(templates', t.poster) = Slots(templates, t.poster) \ {id}
      ELSE Slots(templates', t.poster) = Slots(templates, t.poster)
  BY <1>0, <1>2, <1>3 DEF Slots, TemplateWrite, n
<1>9. IsFiniteSet(Slots(templates, t.poster))
      /\ (OpenTemplate(old) => id \in Slots(templates, t.poster))
  <2>1. Slots(templates, t.poster) \subseteq ids
    BY DEF Slots, n
  <2>2. IsFiniteSet(Slots(templates, t.poster))
    BY <1>0, <2>1, FS_Subset
  <2>. QED BY <1>0, <2>2 DEF Slots, TemplateWrite, n
<1>10. ASSUME NEW p \in Posters
       PROVE  posterActiveTemplates'[p] = Cardinality(Slots(templates', p))
              /\ posterActiveTemplates'[p] \in Nat
  <2>0. /\ posterActiveTemplates[p] = Cardinality(Slots(templates, p))
        /\ posterActiveTemplates[p] \in Nat /\ posterActiveTemplates \in [Posters -> Nat]
    BY DEF RecurringInv, RecurringTypes
  <2>1. CASE p = t.poster /\ OpenTemplate(old) /\ ~OpenTemplate(t)
    <3>1. posterActiveTemplates'[p] = posterActiveTemplates[p] - 1
      BY <2>0, <2>1 DEF TemplateWrite
    <3>2. /\ Cardinality(Slots(templates, p) \ {id}) = Cardinality(Slots(templates, p)) - 1
          /\ IsFiniteSet(Slots(templates, p) \ {id})
      BY <1>9, <2>1, FS_RemoveElement
    <3>3. Cardinality(Slots(templates, p) \ {id}) \in Nat
      BY <3>2, FS_CardinalityType
    <3>4. Slots(templates', p) = Slots(templates, p) \ {id}
      BY <1>8, <2>1
    <3>. QED BY <2>0, <3>1, <3>2, <3>3, <3>4
  <2>2. CASE ~(p = t.poster /\ OpenTemplate(old) /\ ~OpenTemplate(t))
    <3>1. posterActiveTemplates'[p] = posterActiveTemplates[p]
      BY <2>0, <2>2 DEF TemplateWrite
    <3>2. Slots(templates', p) = Slots(templates, p)
      BY <1>7, <1>8, <2>2
    <3>. QED BY <2>0, <3>1, <3>2
  <2>. QED BY <2>1, <2>2
<1>11. posterActiveTemplates' \in [Posters -> Nat]
  <2>1. posterActiveTemplates \in [Posters -> Nat]
    BY DEF RecurringInv, RecurringTypes
  <2>2. DOMAIN posterActiveTemplates' = Posters
        /\ posterActiveTemplates' = [p \in DOMAIN posterActiveTemplates' |-> posterActiveTemplates'[p]]
    BY <2>1 DEF TemplateWrite
  <2>. QED BY <1>10, <2>2
<1>12. \A i \in ids : TemplateSound(templates'[i])
  BY <1>2 DEF RecurringInv, TemplateWrite, n
<1>13. RecurringTypes'
  BY <1>2, <1>3, <1>6, <1>11 DEF RecurringTypes, RecurringInv, TemplateWrite
<1>. QED BY <1>3, <1>6, <1>10, <1>12, <1>13 DEF RecurringInv

\* createRecurringTask.
LEMMA CreateTemplateKeeps ==
  ASSUME RecurringInv, NEW p \in Posters, NEW terms \in TemplateTerms,
         Recurring!CreateRecurringTask(p, terms)
  PROVE  RecurringInv'
<1>. DEFINE n == Len(templates)
            ids == 1 .. n
            id == n + 1
            escrow == terms.bounty * terms.occurrences
            t == [poster |-> p, terms |-> terms, totalEscrowed |-> escrow, triggeredCount |-> 0,
                  lastTriggeredAt |-> 0, status |-> "Active"]
<1>1. /\ templates' = Append(templates, t)
      /\ posterActiveTemplates' = [posterActiveTemplates EXCEPT ![p] = @ + 1]
      /\ templateBalance' = templateBalance + escrow
      /\ UNCHANGED <<templateNow, coreTasks, returned>>
  BY DEF Recurring!CreateRecurringTask
<1>2. terms.bounty \in Nat /\ terms.occurrences \in Nat /\ escrow \in Nat /\ n \in Nat
      /\ templateBalance \in Nat /\ returned \in Nat /\ templateNow \in Nat
      /\ posterActiveTemplates \in [Posters -> Nat]
  <2>1. terms.bounty \in Nat /\ terms.occurrences \in Nat
    BY SatelliteAssumption
  <2>2. escrow \in Nat
    BY <2>1
  <2>. QED BY <2>1, <2>2 DEF RecurringInv, RecurringTypes, Listed
<1>3. /\ t.poster = p /\ OpenTemplate(t) /\ t.totalEscrowed = escrow /\ t.triggeredCount = 0
      /\ t \in TemplateType
  BY <1>2 DEF OpenTemplate, TemplateType
<1>4. TemplateSound(t)
  BY <1>2 DEF TemplateSound
<1>. HIDE DEF t, escrow
<1>5. Added(templates, templates', n, TemplateType, t)
  BY <1>1, <1>3 DEF RecurringInv, RecurringTypes, Added
<1>. HIDE DEF n
<1>6. /\ Listed(templates', n + 1, TemplateType) /\ templates'[n + 1] = t
      /\ \A i \in 1 .. n : templates'[i] = templates[i]
  BY <1>5, AddListed
<1>7. Len(templates') = n + 1
  BY <1>6 DEF Listed
<1>8. 1 .. n + 1 = ids \cup {id} /\ IsFiniteSet(ids) /\ id \notin ids
  <2>1. IsFiniteSet(1 .. n)
    BY <1>2, FS_Interval
  <2>2. n + 1 \notin 1 .. n
    BY <1>2
  <2>3. \A i : i \in 1 .. n + 1 <=> i \in 1 .. n \/ i = n + 1
    BY <1>2
  <2>. QED BY <2>1, <2>2, <2>3
<1>9. Escrowed(templates') = Escrowed(templates) + escrow /\ Escrowed(templates) \in Nat
  <2>. DEFINE f == Escrows(templates)
              g == Escrows(templates')
  <2>1. \A i \in ids : f[i] = templates[i].totalEscrowed
    BY DEF Escrows, n
  <2>2. \A i \in 1 .. n + 1 : g[i] = templates'[i].totalEscrowed
    BY <1>7 DEF Escrows
  <2>3. \A i \in ids : f[i] \in Nat
    BY <2>1, Template0 DEF n
  <2>4. \A i \in ids : g[i] = f[i]
    BY <1>6, <1>8, <2>1, <2>2
  <2>5. g[id] = escrow
    BY <1>3, <1>6, <1>8, <2>2
  <2>6. Escrowed(templates) = SumFunctionOnSet(f, ids)
        /\ Escrowed(templates') = SumFunctionOnSet(g, ids \cup {id})
    BY <1>7, <1>8 DEF Escrowed, n
  <2>. HIDE DEF f, g, ids, id
  <2>7. EntryAddition(f, g, ids, id)
    BY <1>2, <1>8, <2>3, <2>4, <2>5 DEF EntryAddition
  <2>. QED BY <2>5, <2>6, <2>7, EntryAdd
<1>10. templateBalance' = returned' + Escrowed(templates') /\ templateBalance' \in Nat
  <2>1. templateBalance = returned + Escrowed(templates)
    BY DEF RecurringInv
  <2>. QED BY <1>1, <1>2, <1>9, <2>1
<1>11. \A q \in Posters \ {p} : Slots(templates', q) = Slots(templates, q)
  BY <1>3, <1>6, <1>7, <1>8 DEF Slots, n
<1>12. Slots(templates', p) = Slots(templates, p) \cup {id}
  BY <1>3, <1>6, <1>7, <1>8 DEF Slots, n
<1>13. IsFiniteSet(Slots(templates, p)) /\ id \notin Slots(templates, p)
  <2>1. Slots(templates, p) \subseteq ids
    BY DEF Slots, n
  <2>. QED BY <1>8, <2>1, FS_Subset
<1>. HIDE DEF id, ids
<1>14. ASSUME NEW q \in Posters
       PROVE  posterActiveTemplates'[q] = Cardinality(Slots(templates', q))
              /\ posterActiveTemplates'[q] \in Nat
  <2>0. posterActiveTemplates[q] = Cardinality(Slots(templates, q))
        /\ posterActiveTemplates[q] \in Nat
    BY <1>2 DEF RecurringInv
  <2>1. CASE q = p
    <3>1. posterActiveTemplates'[q] = posterActiveTemplates[q] + 1
      BY <1>1, <1>2, <2>1
    <3>2. Cardinality(Slots(templates, p) \cup {id}) = Cardinality(Slots(templates, p)) + 1
      BY <1>13, FS_AddElement
    <3>3. Cardinality(Slots(templates', q)) = Cardinality(Slots(templates, q)) + 1
      BY <1>12, <2>1, <3>2
    <3>. QED BY <2>0, <3>1, <3>3
  <2>2. CASE q # p
    <3>1. posterActiveTemplates'[q] = posterActiveTemplates[q]
      BY <1>1, <1>2, <2>2
    <3>. QED BY <1>11, <2>0, <2>2, <3>1
  <2>. QED BY <2>1, <2>2
<1>15. posterActiveTemplates' \in [Posters -> Nat]
  BY <1>1, <1>2
<1>16. \A i \in 1 .. n + 1 : TemplateSound(templates'[i])
  BY <1>4, <1>6, <1>8 DEF RecurringInv, n, ids, id
<1>17. RecurringTypes'
  BY <1>1, <1>6, <1>7, <1>10, <1>15 DEF RecurringTypes, RecurringInv
<1>18. OccurrencesSound(coreTasks', templates')
  <2>1. OccurrencesSound(coreTasks, templates) /\ coreTasks' = coreTasks
    BY <1>1 DEF RecurringInv
  <2>2. \A i \in 1 .. n : templates'[i] = templates[i] /\ i \in 1 .. n + 1
    BY <1>6, <1>8 DEF ids
  <2>3. \A c \in 1 .. Len(coreTasks) : /\ coreTasks[c].template \in 1 .. n
          /\ coreTasks[c].occurrence < templates[coreTasks[c].template].triggeredCount
    BY <2>1 DEF OccurrencesSound, n
  <2>4. \A c \in 1 .. Len(coreTasks) : /\ coreTasks[c].template \in 1 .. n + 1
          /\ coreTasks[c].occurrence < templates'[coreTasks[c].template].triggeredCount
    BY <2>2, <2>3
  <2>5. \A i \in 1 .. n + 1, k \in Nat : k < templates'[i].triggeredCount =>
          \E c \in 1 .. Len(coreTasks) : coreTasks[c].template = i /\ coreTasks[c].occurrence = k
    <3>1. ASSUME NEW i \in 1 .. n + 1, NEW k \in Nat, k < templates'[i].triggeredCount
          PROVE  i \in 1 .. n /\ templates'[i] = templates[i]
      BY <1>3, <1>6, <1>8, <3>1 DEF ids, id
    <3>. QED BY <2>1, <3>1 DEF OccurrencesSound, n
  <2>. QED BY <1>7, <2>1, <2>4, <2>5 DEF OccurrencesSound
<1>. QED BY <1>7, <1>10, <1>14, <1>16, <1>17, <1>18 DEF RecurringInv

\* Nothing is triggered, so the occurrences stay.
LEMMA SameOccurrences ==
  ASSUME RecurringInv, NEW id \in 1 .. Len(templates), NEW t,
         templates' = [templates EXCEPT ![id] = t], UNCHANGED coreTasks,
         t.triggeredCount = templates[id].triggeredCount
  PROVE  /\ Listed(coreTasks', Len(coreTasks'), CoreTaskType)
         /\ OccurrencesSound(coreTasks', templates')
<1>1. Listed(coreTasks, Len(coreTasks), CoreTaskType) /\ DOMAIN templates = 1 .. Len(templates)
  BY ListedElement DEF RecurringInv, RecurringTypes
<1>2. Len(templates') = Len(templates)
      /\ \A i \in 1 .. Len(templates) :
           templates'[i].triggeredCount = templates[i].triggeredCount
  BY <1>1
<1>3. OccurrencesSound(coreTasks, templates)
  BY DEF RecurringInv
<1>4. \A c \in 1 .. Len(coreTasks) : /\ coreTasks[c].template \in 1 .. Len(templates)
        /\ coreTasks[c].occurrence < templates'[coreTasks[c].template].triggeredCount
  BY <1>2, <1>3 DEF OccurrencesSound
<1>5. \A i \in 1 .. Len(templates), k \in Nat : k < templates'[i].triggeredCount =>
        \E c \in 1 .. Len(coreTasks) : coreTasks[c].template = i /\ coreTasks[c].occurrence = k
  BY <1>2, <1>3 DEF OccurrencesSound
<1>. QED BY <1>1, <1>2, <1>3, <1>4, <1>5 DEF OccurrencesSound

\* pauseTemplate and resumeTemplate.
LEMMA SetStatusKeeps ==
  ASSUME RecurringInv, NEW id \in 1 .. Len(templates), NEW from, NEW to,
         {from, to} \subseteq {"Active", "Paused"}, Recurring!SetStatus(id, from, to)
  PROVE  RecurringInv'
<1>. DEFINE old == templates[id]
            t == [poster |-> old.poster, terms |-> old.terms, totalEscrowed |-> old.totalEscrowed,
                  triggeredCount |-> old.triggeredCount, lastTriggeredAt |-> old.lastTriggeredAt,
                  status |-> to]
<1>1. old \in TemplateType /\ TemplateSound(old) /\ old.totalEscrowed \in Nat
  BY Template0
<1>2. old.status = from /\ templates' = [templates EXCEPT ![id].status = to]
      /\ UNCHANGED <<templateNow, posterActiveTemplates, coreTasks, returned, templateBalance>>
  BY DEF Recurring!SetStatus
<1>3. [old EXCEPT !.status = to] = t
  BY <1>1 DEF TemplateType
<1>4. templates' = [templates EXCEPT ![id] = t]
  BY <1>2, <1>3
<1>5. t \in TemplateType /\ OpenTemplate(t) /\ OpenTemplate(old)
  BY <1>1, <1>2 DEF TemplateType, OpenTemplate
<1>6. TemplateSound(t)
  BY <1>1, <1>2 DEF TemplateSound
<1>7. templateBalance' = templateBalance - old.totalEscrowed + t.totalEscrowed
  BY <1>1, <1>2 DEF RecurringInv, RecurringTypes
<1>8. t.poster = old.poster /\ t.triggeredCount = old.triggeredCount
  OBVIOUS
<1>. HIDE DEF t
<1>9. TemplateWrite(id, t)
  BY <1>2, <1>4, <1>5, <1>6, <1>7, <1>8 DEF TemplateWrite
<1>10. /\ Listed(coreTasks', Len(coreTasks'), CoreTaskType)
       /\ OccurrencesSound(coreTasks', templates')
  BY <1>2, <1>4, <1>8, SameOccurrences
<1>. QED BY <1>9, <1>10, OneTemplate

\* cancelTemplate refunds the occurrences that are left.
LEMMA CancelTemplateKeeps ==
  ASSUME RecurringInv, NEW id \in 1 .. Len(templates), Recurring!CancelTemplate(id)
  PROVE  RecurringInv'
<1>. DEFINE old == templates[id]
            t == [old EXCEPT !.status = "Cancelled", !.totalEscrowed = 0]
<1>1. old \in TemplateType /\ TemplateSound(old) /\ old.totalEscrowed \in Nat
  BY Template0
<1>2. /\ old.status \in {"Active", "Paused"}
      /\ templates' = [templates EXCEPT ![id].status = "Cancelled", ![id].totalEscrowed = 0]
      /\ posterActiveTemplates' = [posterActiveTemplates EXCEPT ![old.poster] = @ - 1]
      /\ templateBalance' = templateBalance - old.totalEscrowed
      /\ UNCHANGED <<templateNow, coreTasks, returned>>
  BY DEF Recurring!CancelTemplate
<1>3. /\ t \in TemplateType /\ t.status = "Cancelled" /\ t.totalEscrowed = 0
      /\ t.poster = old.poster /\ t.triggeredCount = old.triggeredCount /\ t.terms = old.terms
  BY <1>1 DEF TemplateType
<1>4. templates' = [templates EXCEPT ![id] = t]
  <2>1. DOMAIN templates = 1 .. Len(templates)
    BY ListedElement DEF RecurringInv, RecurringTypes
  <2>. QED BY <1>2, <2>1
<1>. HIDE DEF t
<1>5. t \in TemplateType /\ ~OpenTemplate(t) /\ OpenTemplate(old)
  BY <1>2, <1>3 DEF OpenTemplate
<1>6. TemplateSound(t)
  BY <1>1, <1>3 DEF TemplateSound
<1>7. templateBalance' = templateBalance - old.totalEscrowed + t.totalEscrowed
  <2>1. t.totalEscrowed = 0 /\ templateBalance \in Nat
    BY <1>3 DEF RecurringInv, RecurringTypes
  <2>. QED BY <1>1, <1>2, <2>1
<1>9. TemplateWrite(id, t)
  BY <1>2, <1>4, <1>5, <1>6, <1>7, <1>3 DEF TemplateWrite
<1>10. /\ Listed(coreTasks', Len(coreTasks'), CoreTaskType)
       /\ OccurrencesSound(coreTasks', templates')
  BY <1>2, <1>3, <1>4, SameOccurrences
<1>. QED BY <1>9, <1>10, OneTemplate

\* One occurrence less, one bounty less.
LEMMA Fewer ==
  ASSUME NEW b \in Nat, NEW x \in Nat, NEW k \in Nat, k < x
  PROVE  b * (x - (k + 1)) = b * (x - k) - b
<1>1. PICK y \in Nat : x = k + 1 + y
  <2>1. x - k - 1 \in Nat /\ x = k + 1 + (x - k - 1)
    OBVIOUS
  <2>. QED BY <2>1
<1>2. x - (k + 1) = y /\ x - k = y + 1
  BY <1>1
<1>3. b * (y + 1) = b * y + b /\ b * y \in Nat
  BY <1>1
<1>. QED BY <1>2, <1>3

\* A trigger adds one task for the next occurrence.
LEMMA OneMoreOccurrence ==
  ASSUME RecurringInv, NEW id \in 1 .. Len(templates), NEW t, NEW c,
         templates' = [templates EXCEPT ![id] = t],
         Added(coreTasks, coreTasks', Len(coreTasks), CoreTaskType, c),
         t.triggeredCount = templates[id].triggeredCount + 1,
         c.template = id, c.occurrence = templates[id].triggeredCount
  PROVE  /\ Listed(coreTasks', Len(coreTasks'), CoreTaskType)
         /\ OccurrencesSound(coreTasks', templates')
<1>. DEFINE n == Len(coreTasks)
            m == Len(templates)
            k == templates[id].triggeredCount
<1>1. DOMAIN templates = 1 .. m
  BY ListedElement DEF RecurringInv, RecurringTypes
<1>2. Len(templates') = m /\ templates'[id] = t
      /\ \A i \in 1 .. m \ {id} : templates'[i] = templates[i]
  BY <1>1
<1>3. Added(coreTasks, coreTasks', n, CoreTaskType, c)
  OBVIOUS
<1>4. \A i \in 1 .. m : templates[i].triggeredCount \in Nat
  BY Template0
<1>5. \A d \in 1 .. n : coreTasks[d].occurrence \in Nat
  <2>1. \A d \in 1 .. n : coreTasks[d] \in CoreTaskType
    BY ListedElement DEF RecurringInv, RecurringTypes
  <2>. QED BY <2>1 DEF CoreTaskType
<1>6. n \in Nat
  BY DEF RecurringInv, RecurringTypes, Listed
<1>7. OccurrencesSound(coreTasks, templates)
  BY DEF RecurringInv
<1>8. /\ \A d \in 1 .. n : /\ coreTasks[d].template \in 1 .. m
          /\ coreTasks[d].occurrence < templates[coreTasks[d].template].triggeredCount
      /\ \A i \in 1 .. m, j \in Nat : j < templates[i].triggeredCount =>
           \E d \in 1 .. n : coreTasks[d].template = i /\ coreTasks[d].occurrence = j
      /\ \A d, e \in 1 .. n :
           coreTasks[d].template = coreTasks[e].template
             /\ coreTasks[d].occurrence = coreTasks[e].occurrence => d = e
  BY <1>7 DEF OccurrencesSound
<1>. HIDE DEF n, m
<1>9. /\ Listed(coreTasks', n + 1, CoreTaskType) /\ coreTasks'[n + 1] = c
      /\ \A d \in 1 .. n : coreTasks'[d] = coreTasks[d]
  BY <1>3, AddListed
<1>10. Len(coreTasks') = n + 1
  BY <1>9 DEF Listed
<1>11. \A d : d \in 1 .. n + 1 <=> d \in 1 .. n \/ d = n + 1
  BY <1>6
<1>12. k \in Nat /\ t.triggeredCount = k + 1 /\ c.occurrence = k /\ c.template = id
       /\ id \in 1 .. m
  BY <1>4 DEF m
<1>. HIDE DEF k
<1>13. \A i \in 1 .. m : templates'[i].triggeredCount =
                          IF i = id THEN k + 1 ELSE templates[i].triggeredCount
  BY <1>2, <1>12
<1>14. templates[id].triggeredCount = k
  BY DEF k
<1>15. ASSUME NEW d \in 1 .. n + 1
       PROVE  /\ coreTasks'[d].template \in 1 .. m
              /\ coreTasks'[d].occurrence < templates'[coreTasks'[d].template].triggeredCount
  <2>1. CASE d = n + 1
    <3>1. coreTasks'[d] = c
      BY <1>9, <2>1
    <3>2. templates'[id].triggeredCount = k + 1 /\ k < k + 1
      BY <1>12, <1>13
    <3>. QED BY <1>12, <3>1, <3>2
  <2>2. CASE d # n + 1
    <3>. DEFINE i == coreTasks[d].template
                o == coreTasks[d].occurrence
    <3>1. d \in 1 .. n /\ coreTasks'[d] = coreTasks[d]
      BY <1>9, <1>11, <2>2
    <3>2. i \in 1 .. m /\ o < templates[i].triggeredCount /\ o \in Nat
      BY <1>5, <1>8, <3>1
    <3>. HIDE DEF i, o
    <3>3. o < templates'[i].triggeredCount
      <4>1. CASE i = id
        <5>1. templates'[i].triggeredCount = k + 1 /\ o < k
          BY <1>13, <1>14, <3>2, <4>1
        <5>. QED BY <1>12, <3>2, <5>1
      <4>2. CASE i # id
        BY <1>13, <3>2, <4>2
      <4>. QED BY <4>1, <4>2
    <3>. QED BY <3>1, <3>2, <3>3 DEF i, o
  <2>. QED BY <2>1, <2>2
<1>16. ASSUME NEW i \in 1 .. m, NEW j \in Nat, j < templates'[i].triggeredCount
       PROVE  \E d \in 1 .. n + 1 : coreTasks'[d].template = i /\ coreTasks'[d].occurrence = j
  <2>1. CASE i = id /\ j = k
    <3>1. n + 1 \in 1 .. n + 1
      BY <1>11
    <3>. QED BY <1>9, <1>12, <2>1, <3>1
  <2>2. CASE ~(i = id /\ j = k)
    <3>1. j < templates[i].triggeredCount
      <4>1. CASE i = id
        <5>1. j < k + 1 /\ j # k
          BY <1>13, <1>16, <2>2, <4>1
        <5>2. j < k
          BY <1>12, <5>1
        <5>. QED BY <1>14, <4>1, <5>2
      <4>2. CASE i # id
        BY <1>13, <1>16, <4>2
      <4>. QED BY <4>1, <4>2
    <3>2. PICK d \in 1 .. n : coreTasks[d].template = i /\ coreTasks[d].occurrence = j
      BY <1>8, <3>1
    <3>3. d \in 1 .. n + 1 /\ coreTasks'[d] = coreTasks[d]
      BY <1>9, <1>11
    <3>. QED BY <3>2, <3>3
  <2>. QED BY <2>1, <2>2
<1>17. ASSUME NEW d \in 1 .. n + 1, NEW e \in 1 .. n + 1,
              coreTasks'[d].template = coreTasks'[e].template,
              coreTasks'[d].occurrence = coreTasks'[e].occurrence
       PROVE  d = e
  <2>1. \A x \in 1 .. n : ~(coreTasks'[x].template = id /\ coreTasks'[x].occurrence = k)
    <3>1. \A x \in 1 .. n : coreTasks[x].template = id => coreTasks[x].occurrence < k
      BY <1>8, <1>14
    <3>2. \A x \in 1 .. n : coreTasks[x].occurrence \in Nat
      BY <1>5
    <3>3. ASSUME NEW x \in 1 .. n,
                 coreTasks'[x].template = id, coreTasks'[x].occurrence = k
          PROVE  FALSE
      <4>1. coreTasks'[x] = coreTasks[x]
        BY <1>9
      <4>2. coreTasks[x].template = id /\ coreTasks[x].occurrence = k
        BY <3>3, <4>1
      <4>3. k < k
        BY <3>1, <4>2
      <4>. QED BY <1>12, <4>3
    <3>. QED BY <3>3
  <2>2. CASE d \in 1 .. n /\ e \in 1 .. n
    BY <1>8, <1>9, <1>17, <2>2
  <2>3. CASE d = n + 1 /\ e \in 1 .. n
    BY <1>9, <1>12, <1>17, <2>1, <2>3
  <2>4. CASE d \in 1 .. n /\ e = n + 1
    BY <1>9, <1>12, <1>17, <2>1, <2>4
  <2>. QED BY <1>11, <2>2, <2>3, <2>4
<1>. QED BY <1>2, <1>9, <1>10, <1>15, <1>16, <1>17 DEF OccurrencesSound, m

\* triggerRecurringTask spends one bounty, keeper's fee and the core's refusal
\* included.
LEMMA TriggerKeeps ==
  ASSUME RecurringInv, NEW id \in 1 .. Len(templates), Recurring!TriggerRecurringTask(id)
  PROVE  RecurringInv'
<1>. DEFINE old == templates[id]
            k == old.triggeredCount
            bounty == old.terms.bounty
            last == k + 1 >= old.terms.occurrences
            fee == Recurring!KeeperFee(bounty)
            status == IF last THEN "Completed" ELSE old.status
            t == [old EXCEPT !.totalEscrowed = old.totalEscrowed - bounty,
                  !.triggeredCount = k + 1, !.lastTriggeredAt = templateNow, !.status = status]
            c == [template |-> id, occurrence |-> k, open |-> TRUE]
<1>1. old \in TemplateType /\ TemplateSound(old) /\ old.totalEscrowed \in Nat
      /\ k \in Nat /\ bounty \in Nat /\ old.terms.occurrences \in Nat
      /\ old.poster \in Posters /\ old.terms \in TemplateTerms /\ templateNow \in Nat
  BY Template0 DEF RecurringInv, RecurringTypes
<1>2. /\ old.status = "Active" /\ k < old.terms.occurrences /\ old.totalEscrowed >= bounty
      /\ coreTasks' = Append(coreTasks, c)
      /\ templates' = [templates EXCEPT ![id] =
          [old EXCEPT !.totalEscrowed = @ - bounty, !.triggeredCount = @ + 1,
                      !.lastTriggeredAt = templateNow, !.status = IF last THEN "Completed" ELSE @]]
      /\ posterActiveTemplates' =
           IF last THEN [posterActiveTemplates EXCEPT ![old.poster] = @ - 1]
           ELSE posterActiveTemplates
      /\ templateBalance' = templateBalance - fee - (bounty - fee)
      /\ UNCHANGED <<templateNow, returned>>
  BY DEF Recurring!TriggerRecurringTask
<1>4. templates' = [templates EXCEPT ![id] = t]
  BY <1>2
<1>5. c \in CoreTaskType /\ c.template = id /\ c.occurrence = k
  <2>1. id \in Nat
    BY DEF RecurringInv, RecurringTypes, Listed
  <2>. QED BY <1>1, <2>1 DEF CoreTaskType
<1>6. status \in {"Active", "Completed"} /\ (status = "Active" <=> ~last)
  BY <1>2
<1>7. old.totalEscrowed - bounty \in Nat /\ k + 1 \in Nat
      /\ status \in {"Active", "Paused", "Cancelled", "Completed"}
  <2>1. old.totalEscrowed - bounty \in Nat /\ k + 1 \in Nat
    BY <1>1, <1>2
  <2>2. status \in {"Active", "Paused", "Cancelled", "Completed"}
    BY <1>6
  <2>. QED BY <2>1, <2>2
<1>8. /\ t \in TemplateType
      /\ t.poster = old.poster /\ t.totalEscrowed = old.totalEscrowed - bounty
      /\ t.triggeredCount = k + 1 /\ t.status = status /\ t.terms = old.terms
  <2>. DEFINE rest == old.totalEscrowed - bounty
              next == k + 1
  <2>. HIDE DEF status, rest, next
  <2>1. rest \in Nat /\ next \in Nat /\ status \in {"Active", "Paused", "Cancelled", "Completed"}
    BY <1>7 DEF rest, next
  <2>2. LET u == [old EXCEPT !.totalEscrowed = rest, !.triggeredCount = next,
                             !.lastTriggeredAt = templateNow, !.status = status]
        IN /\ u \in TemplateType /\ u.poster = old.poster /\ u.totalEscrowed = rest
           /\ u.triggeredCount = next /\ u.status = status /\ u.terms = old.terms
    BY <1>1, <2>1 DEF TemplateType
  <2>. QED BY <2>2 DEF rest, next
<1>. HIDE DEF t, c, status, last
<1>9. (OpenTemplate(t) <=> ~last) /\ OpenTemplate(old)
  BY <1>2, <1>6, <1>8 DEF OpenTemplate
<1>10. TemplateSound(t)
  <2>1. old.totalEscrowed = bounty * (old.terms.occurrences - k)
    BY <1>1, <1>2 DEF TemplateSound
  <2>2. bounty * (old.terms.occurrences - (k + 1)) = bounty * (old.terms.occurrences - k) - bounty
    BY <1>1, <1>2, Fewer
  <2>3. t.totalEscrowed = bounty * (old.terms.occurrences - (k + 1))
    BY <1>8, <2>1, <2>2
  <2>4. k + 1 <= old.terms.occurrences
    BY <1>1, <1>2
  <2>5. t.status # "Cancelled"
    BY <1>6, <1>8
  <2>. QED BY <1>8, <2>3, <2>4, <2>5 DEF TemplateSound
<1>11. templateBalance' = templateBalance - old.totalEscrowed + t.totalEscrowed
  <2>1. fee \in Int
    BY <1>1 DEF Recurring!KeeperFee, Recurring!KeeperFeeBps
  <2>2. templateBalance \in Nat
    BY DEF RecurringInv, RecurringTypes
  <2>3. templateBalance' = templateBalance - fee - (bounty - fee)
    BY <1>2
  <2>. HIDE DEF fee, bounty
  <2>4. templateBalance' = templateBalance - bounty
    BY <1>1, <2>1, <2>2, <2>3
  <2>. QED BY <1>1, <1>8, <2>2, <2>4
<1>12. posterActiveTemplates' =
         IF OpenTemplate(old) /\ ~OpenTemplate(t)
         THEN [posterActiveTemplates EXCEPT ![t.poster] = posterActiveTemplates[t.poster] - 1]
         ELSE posterActiveTemplates
  BY <1>2, <1>8, <1>9
<1>13. Added(coreTasks, coreTasks', Len(coreTasks), CoreTaskType, c)
  BY <1>2, <1>5 DEF RecurringInv, RecurringTypes, Added
<1>14. TemplateWrite(id, t)
  BY <1>2, <1>4, <1>8, <1>9, <1>10, <1>11, <1>12 DEF TemplateWrite
<1>15. /\ Listed(coreTasks', Len(coreTasks'), CoreTaskType)
       /\ OccurrencesSound(coreTasks', templates')
  BY <1>4, <1>5, <1>8, <1>13, OneMoreOccurrence
<1>. QED BY <1>14, <1>15, OneTemplate

\* What the core pays back belongs to no template.
LEMMA CoreTaskEndsKeeps ==
  ASSUME RecurringInv, NEW c \in DOMAIN coreTasks, NEW amount \in Returned,
         Recurring!CoreTaskEnds(c, amount)
  PROVE  RecurringInv'
<1>. DEFINE n == Len(coreTasks)
            old == coreTasks[c]
            d == [old EXCEPT !.open = FALSE]
<1>1. c \in 1 .. n /\ old \in CoreTaskType
  BY ListedElement DEF RecurringInv, RecurringTypes
<1>2. /\ coreTasks' = [coreTasks EXCEPT ![c].open = FALSE]
      /\ returned' = returned + amount /\ templateBalance' = templateBalance + amount
      /\ UNCHANGED <<templateNow, templates, posterActiveTemplates>>
  BY DEF Recurring!CoreTaskEnds
<1>3. d \in CoreTaskType /\ d.template = old.template /\ d.occurrence = old.occurrence
  BY <1>1 DEF CoreTaskType
<1>4. coreTasks' = [coreTasks EXCEPT ![c] = d]
  BY <1>2
<1>. HIDE DEF d
<1>6. Put(coreTasks, coreTasks', n, CoreTaskType, c, d)
  BY <1>1, <1>3, <1>4 DEF RecurringInv, RecurringTypes, Put
<1>. HIDE DEF n
<1>7. /\ Listed(coreTasks', n, CoreTaskType) /\ coreTasks'[c] = d
      /\ \A i \in 1 .. n \ {c} : coreTasks'[i] = coreTasks[i]
  BY <1>6, PutListed
<1>8. Len(coreTasks') = n /\ Len(coreTasks) = n
  BY <1>7 DEF Listed, n
<1>9. \A i \in 1 .. n : /\ coreTasks'[i].template = coreTasks[i].template
                        /\ coreTasks'[i].occurrence = coreTasks[i].occurrence
  BY <1>3, <1>7
<1>10. OccurrencesSound(coreTasks', templates)
  <2>1. OccurrencesSound(coreTasks, templates)
    BY DEF RecurringInv
  <2>2. \A i \in 1 .. n : /\ coreTasks'[i].template \in 1 .. Len(templates)
          /\ coreTasks'[i].occurrence < templates[coreTasks'[i].template].triggeredCount
    BY <1>8, <1>9, <2>1 DEF OccurrencesSound
  <2>3. \A i \in 1 .. Len(templates), k \in Nat : k < templates[i].triggeredCount =>
          \E j \in 1 .. n : coreTasks'[j].template = i /\ coreTasks'[j].occurrence = k
    <3>1. \A i \in 1 .. Len(templates), k \in Nat : k < templates[i].triggeredCount =>
            \E j \in 1 .. n : coreTasks[j].template = i /\ coreTasks[j].occurrence = k
      BY <1>8, <2>1 DEF OccurrencesSound
    <3>. QED BY <1>9, <3>1
  <2>4. \A i, j \in 1 .. n :
          coreTasks'[i].template = coreTasks'[j].template
            /\ coreTasks'[i].occurrence = coreTasks'[j].occurrence => i = j
    <3>1. \A i, j \in 1 .. n :
            coreTasks[i].template = coreTasks[j].template
              /\ coreTasks[i].occurrence = coreTasks[j].occurrence => i = j
      BY <1>8, <2>1 DEF OccurrencesSound
    <3>. QED BY <1>9, <3>1
  <2>. QED BY <1>8, <2>2, <2>3, <2>4 DEF OccurrencesSound
<1>11. /\ templateBalance' = returned' + Escrowed(templates) /\ templateBalance' \in Nat
       /\ returned' \in Nat
  <2>1. amount \in Nat /\ returned \in Nat /\ templateBalance \in Nat
        /\ templateBalance = returned + Escrowed(templates)
    BY SatelliteAssumption DEF RecurringInv, RecurringTypes
  <2>2. Escrowed(templates) \in Int
    <3>1. IsFiniteSet(1 .. Len(templates))
      BY FS_Interval DEF RecurringInv, RecurringTypes, Listed
    <3>2. \A i \in 1 .. Len(templates) : Escrows(templates)[i] \in Int
      BY Template0 DEF Escrows
    <3>. QED BY <3>1, <3>2, SumInt DEF Escrowed
  <2>. QED BY <1>2, <2>1, <2>2
<1>12. RecurringTypes'
  BY <1>2, <1>7, <1>8, <1>11 DEF RecurringInv, RecurringTypes
<1>. QED BY <1>2, <1>10, <1>11, <1>12 DEF RecurringInv

\* No call leaves the invariant.
LEMMA RecurringStepKeeps ==
  RecurringInv /\ [Recurring!RecurringNext]_recurringAll => RecurringInv'
<1>. SUFFICES ASSUME RecurringInv, [Recurring!RecurringNext]_recurringAll
              PROVE  RecurringInv'
  OBVIOUS
<1>1. CASE \/ UNCHANGED recurringAll
           \/ \E max \in MaxActives : Recurring!SetMaxActiveTemplates(max)
           \/ \E min \in MinBounties : Recurring!SetMinBountyPerOccurrence(min)
           \/ \E on \in BOOLEAN : Recurring!SetPaused(on)
           \/ Recurring!RecurringTick
  <2>1. /\ UNCHANGED <<templates, posterActiveTemplates, coreTasks, returned, templateBalance>>
        /\ templateNow' = templateNow \/ templateNow' = templateNow + 1
    BY <1>1 DEF recurringAll, Recurring!SetMaxActiveTemplates,
         Recurring!SetMinBountyPerOccurrence, Recurring!SetPaused, Recurring!RecurringTick
  <2>2. templateNow' \in Nat
    BY <2>1 DEF RecurringInv, RecurringTypes
  <2>. QED BY <2>1, <2>2 DEF RecurringInv, RecurringTypes
<1>2. Recurring!Ids = 1 .. Len(templates)
  BY ListedElement DEF RecurringInv, RecurringTypes, Recurring!Ids
<1>3. ASSUME NEW id \in 1 .. Len(templates),
             Recurring!PauseTemplate(id) \/ Recurring!ResumeTemplate(id)
      PROVE  RecurringInv'
  BY <1>3, SetStatusKeeps DEF Recurring!PauseTemplate, Recurring!ResumeTemplate
<1>. QED BY <1>1, <1>2, <1>3, CreateTemplateKeeps, CancelTemplateKeeps, TriggerKeeps,
         CoreTaskEndsKeeps
         DEF Recurring!RecurringNext

-----------------------------------------------------------------------------
(* Counting up, and the least of a set                                     *)

\* A finite set of integers has a least one.
LEMMA LeastOfSet ==
  ASSUME NEW S, IsFiniteSet(S), S \subseteq Int, S # {}
  PROVE  \E m \in S : \A x \in S : m <= x
<1>. DEFINE Good == {T \in SUBSET S : T = {} \/ \E m \in T : \A x \in T : m <= x}
<1>1. ASSUME NEW T \in SUBSET S, \A x \in T : T \ {x} \in Good
      PROVE  T \in Good
  <2>1. CASE T = {}
    BY <2>1
  <2>2. CASE T # {}
    <3>1. PICK x \in T : TRUE
      BY <2>2
    <3>2. CASE T \ {x} = {}
      <4>1. T = {x} /\ x \in Int
        BY <3>1, <3>2
      <4>. QED BY <4>1
    <3>3. CASE T \ {x} # {}
      <4>1. PICK m \in T \ {x} : \A y \in T \ {x} : m <= y
        BY <1>1, <3>1, <3>3
      <4>2. m \in Int /\ x \in Int
        BY <3>1, <4>1
      <4>3. CASE m <= x
        BY <4>1, <4>3
      <4>4. CASE ~(m <= x)
        <5>1. x <= x /\ x <= m
          BY <4>2, <4>4
        <5>2. \A y \in T : y \in Int
          OBVIOUS
        <5>3. \A y \in T : x <= y
          BY <4>1, <4>2, <5>1, <5>2
        <5>. QED BY <3>1, <5>3
      <4>. QED BY <4>3, <4>4
    <3>. QED BY <3>2, <3>3
  <2>. QED BY <2>1, <2>2
<1>. HIDE DEF Good
<1>2. SUBSET S \subseteq Good
  BY <1>1, SubsetInduction
<1>3. S \in Good
  BY <1>2
<1>. QED BY <1>3 DEF Good

\* What holds of zero, and of k + 1 when it holds of k, holds up to n.
LEMMA CountingUp ==
  ASSUME NEW n \in Nat, NEW Good, 0 \in Good,
         \A k \in 0 .. n : k \in Good /\ k < n => k + 1 \in Good
  PROVE  0 .. n \subseteq Good
<1>. SUFFICES ASSUME ~(0 .. n \subseteq Good) PROVE FALSE
  OBVIOUS
<1>. DEFINE Bad == {k \in 0 .. n : k \notin Good}
<1>1. IsFiniteSet(Bad)
  <2>1. IsFiniteSet(0 .. n)
    BY FS_Interval
  <2>. QED BY <2>1, FS_Subset
<1>2. Bad \subseteq Int /\ Bad # {}
  OBVIOUS
<1>3. PICK m \in Bad : \A x \in Bad : m <= x
  BY <1>1, <1>2, LeastOfSet
<1>4. m # 0 /\ m \in 0 .. n
  OBVIOUS
<1>5. m - 1 \in 0 .. n /\ m - 1 < n /\ ~(m <= m - 1) /\ (m - 1) + 1 = m
  BY <1>4
<1>6. m - 1 \in Good
  BY <1>3, <1>5
<1>7. m \in Good
  <2>. DEFINE k == m - 1
  <2>1. k \in 0 .. n /\ k \in Good /\ k < n /\ k + 1 = m
    BY <1>5, <1>6
  <2>. HIDE DEF k
  <2>. QED BY <2>1
<1>. QED BY <1>7

\* The sum of the first n entries, one by one.
LEMMA SumUpTo ==
  ASSUME NEW n \in Nat, NEW f, \A i \in 1 .. n + 1 : f[i] \in Int
  PROVE  /\ SumFunctionOnSet(f, 1 .. n + 1) = SumFunctionOnSet(f, 1 .. n) + f[n + 1]
         /\ SumFunctionOnSet(f, 1 .. n) \in Int
<1>1. IsFiniteSet(1 .. n) /\ n + 1 \notin 1 .. n
  BY FS_Interval
<1>2. 1 .. n + 1 = (1 .. n) \cup {n + 1}
  <2>1. \A i : i \in 1 .. n + 1 <=> i \in 1 .. n \/ i = n + 1
    OBVIOUS
  <2>. QED BY <2>1
<1>3. \A i \in (1 .. n) \cup {n + 1} : f[i] \in Int
  BY <1>2
<1>4. SumFunctionOnSet(f, (1 .. n) \cup {n + 1}) = f[n + 1] + SumFunctionOnSet(f, 1 .. n)
  BY <1>1, <1>3, SumAdd
<1>5. SumFunctionOnSet(f, 1 .. n) \in Int
  BY <1>1, <1>3, SumInt
<1>6. f[n + 1] \in Int
  BY <1>3
<1>7. SumFunctionOnSet(f, 1 .. n + 1) = f[n + 1] + SumFunctionOnSet(f, 1 .. n)
  BY <1>2, <1>4
<1>. DEFINE a == f[n + 1]
            b == SumFunctionOnSet(f, 1 .. n)
<1>8. a + b = b + a
  <2>1. a \in Int /\ b \in Int
    BY <1>5, <1>6
  <2>. HIDE DEF a, b
  <2>. QED BY <2>1
<1>. QED BY <1>5, <1>7, <1>8

\* x enters at place p of c, and the last entry leaves.
EntersAt(f, g, c, p, x) ==
  /\ c \in Nat /\ p \in 1 .. c /\ x \in Int
  /\ \A i \in 1 .. c : f[i] \in Int
  /\ \A i \in 1 .. c : g[i] = IF i < p THEN f[i] ELSE IF i = p THEN x ELSE f[i - 1]

\* The sum of a list that x enters at p, and whose last leaves.
LEMMA SumEnters ==
  ASSUME NEW f, NEW g, NEW c, NEW p, NEW x, EntersAt(f, g, c, p, x)
  PROVE  SumFunctionOnSet(g, 1 .. c) = SumFunctionOnSet(f, 1 .. c) - f[c] + x
<1>. DEFINE SumF(k) == SumFunctionOnSet(f, 1 .. k)
            SumG(k) == SumFunctionOnSet(g, 1 .. k)
            Good == {k \in 0 .. c : SumG(k) = IF k < p THEN SumF(k) ELSE SumF(k) - f[k] + x}
<1>1. /\ c \in Nat /\ p \in 1 .. c /\ x \in Int
      /\ \A i \in 1 .. c : f[i] \in Int
      /\ \A i \in 1 .. c : g[i] = IF i < p THEN f[i] ELSE IF i = p THEN x ELSE f[i - 1]
  BY DEF EntersAt
<1>2. SumF(0) = 0 /\ SumG(0) = 0 /\ 0 < p
  <2>1. 1 .. 0 = {}
    OBVIOUS
  <2>. QED BY <1>1, <2>1, SumEmpty
<1>3. 0 \in Good
  BY <1>1, <1>2
<1>4. ASSUME NEW k \in 0 .. c, k \in Good, k < c
      PROVE  k + 1 \in Good
  <2>1. k \in Nat /\ k + 1 \in 1 .. c /\ k + 1 \in 0 .. c
    BY <1>1, <1>4
  <2>2. \A i \in 1 .. k + 1 : i \in 1 .. c
    BY <1>1, <2>1
  <2>3. \A i \in 1 .. c : g[i] \in Int
    <3>1. ASSUME NEW i \in 1 .. c PROVE g[i] \in Int
      <4>1. CASE i < p \/ i = p
        BY <1>1, <4>1
      <4>2. CASE ~(i < p \/ i = p)
        <5>1. i - 1 \in 1 .. c /\ g[i] = f[i - 1]
          BY <1>1, <4>2
        <5>. QED BY <1>1, <5>1
      <4>. QED BY <4>1, <4>2
    <3>. QED BY <3>1
  <2>4. SumF(k + 1) = SumF(k) + f[k + 1] /\ SumF(k) \in Int
    BY <1>1, <2>1, <2>2, SumUpTo
  <2>5. SumG(k + 1) = SumG(k) + g[k + 1] /\ SumG(k) \in Int
    BY <2>1, <2>2, <2>3, SumUpTo
  <2>6. SumG(k) = IF k < p THEN SumF(k) ELSE SumF(k) - f[k] + x
    BY <1>4
  <2>7. f[k + 1] \in Int
    BY <1>1, <2>1
  <2>. HIDE DEF SumF, SumG
  <2>8. CASE k + 1 < p
    <3>1. k < p /\ g[k + 1] = f[k + 1]
      BY <1>1, <2>1, <2>8
    <3>2. SumG(k + 1) = SumF(k + 1)
      BY <2>4, <2>5, <2>6, <3>1
    <3>. QED BY <2>1, <2>8, <3>2
  <2>9. CASE k + 1 = p
    <3>1. k < p /\ g[k + 1] = x /\ ~(k + 1 < p)
      BY <1>1, <2>1, <2>9
    <3>2. SumG(k + 1) = SumF(k + 1) - f[k + 1] + x
      BY <1>1, <2>4, <2>5, <2>6, <2>7, <3>1
    <3>. QED BY <2>1, <3>1, <3>2
  <2>10. CASE k + 1 > p
    <3>1. ~(k < p) /\ ~(k + 1 < p) /\ k \in 1 .. c
      BY <1>1, <2>1, <2>10
    <3>2. g[k + 1] = f[(k + 1) - 1]
      BY <1>1, <2>1, <2>10
    <3>3. g[k + 1] = f[k] /\ f[k] \in Int
      <4>1. (k + 1) - 1 = k
        BY <2>1
      <4>. QED BY <1>1, <3>1, <3>2, <4>1
    <3>4. SumG(k + 1) = SumF(k + 1) - f[k + 1] + x
      BY <1>1, <2>4, <2>5, <2>6, <2>7, <3>1, <3>3
    <3>. QED BY <2>1, <3>1, <3>4
  <2>11. k + 1 < p \/ k + 1 = p \/ k + 1 > p
    BY <1>1, <2>1
  <2>. QED BY <2>8, <2>9, <2>10, <2>11
<1>. HIDE DEF Good
<1>5. 0 .. c \subseteq Good
  BY <1>1, <1>3, <1>4, CountingUp
<1>6. c \in Good /\ ~(c < p)
  BY <1>1, <1>5
<1>. QED BY <1>6 DEF Good

-----------------------------------------------------------------------------
(* The ranking                                                             *)

\* e enters at place p of the sequence r of c elements.
Inserted(r, c, p, e, X) == r \in Seq(X) /\ Len(r) = c /\ c \in Nat /\ p \in 1 .. c /\ e \in X

\* The ranking after an insertion, place by place.
LEMMA InsertFront ==
  ASSUME NEW r, NEW c, NEW p, NEW e, NEW X, Inserted(r, c, p, e, X)
  PROVE  /\ Consensus!Front(Consensus!InsertAt(r, p, e)) \in Seq(X)
         /\ Len(Consensus!Front(Consensus!InsertAt(r, p, e))) = c
         /\ \A i \in 1 .. c : Consensus!Front(Consensus!InsertAt(r, p, e))[i] =
              IF i < p THEN r[i] ELSE IF i = p THEN e ELSE r[i - 1]
<1>. DEFINE head == SubSeq(r, 1, p - 1)
            tail == SubSeq(r, p, c)
            he == head \o <<e>>
            all == he \o tail
            front == SubSeq(all, 1, c)
<1>1. r \in Seq(X) /\ Len(r) = c /\ c \in Nat /\ p \in 1 .. c /\ e \in X /\ p \in Nat
  BY DEF Inserted
<1>2. \A i \in 1 .. c : r[i] \in X
  BY <1>1, ElementOfSeq
<1>3. head \in Seq(X) /\ Len(head) = p - 1 /\ \A i \in 1 .. p - 1 : head[i] = r[i]
  <2>1. \A i \in 1 .. p - 1 : r[i] \in X
    BY <1>1, <1>2
  <2>2. /\ head \in Seq(X) /\ Len(head) = IF 1 <= p - 1 THEN (p - 1) - 1 + 1 ELSE 0
        /\ \A i \in 1 .. (p - 1) - 1 + 1 : head[i] = r[1 + i - 1]
    BY <1>1, <2>1, SubSeqProperties
  <2>3. Len(head) = p - 1
    BY <1>1, <2>2
  <2>4. \A i \in 1 .. p - 1 : i \in 1 .. (p - 1) - 1 + 1 /\ 1 + i - 1 = i
    BY <1>1
  <2>. QED BY <2>2, <2>3, <2>4
<1>4. tail \in Seq(X) /\ Len(tail) = c - p + 1 /\ \A i \in 1 .. c - p + 1 : tail[i] = r[p + i - 1]
  <2>1. \A i \in p .. c : r[i] \in X
    BY <1>1, <1>2
  <2>. QED BY <1>1, <2>1, SubSeqProperties
<1>. HIDE DEF head, tail
<1>5. he \in Seq(X) /\ Len(he) = p /\ \A i \in 1 .. p : he[i] = IF i < p THEN r[i] ELSE e
  <2>1. <<e>> \in Seq(X) /\ Len(<<e>>) = 1 /\ <<e>>[1] = e
    BY <1>1
  <2>. DEFINE one == <<e>>
  <2>2. he = head \o one
    OBVIOUS
  <2>. HIDE DEF one, he
  <2>3. /\ he \in Seq(X) /\ Len(he) = Len(head) + Len(one)
        /\ \A i \in 1 .. Len(head) + Len(one) :
             he[i] = IF i <= Len(head) THEN head[i] ELSE one[i - Len(head)]
    BY <1>3, <2>1, <2>2, ConcatProperties DEF one
  <2>4. Len(he) = p
    BY <1>1, <1>3, <2>1, <2>3 DEF one
  <2>5. ASSUME NEW i \in 1 .. p
        PROVE  he[i] = IF i < p THEN r[i] ELSE e
    <3>1. i \in 1 .. Len(head) + Len(one)
      BY <2>3, <2>4
    <3>2. CASE i < p
      <4>1. i <= Len(head) /\ i \in 1 .. p - 1
        BY <1>1, <1>3, <3>2
      <4>. QED BY <1>3, <2>3, <3>1, <3>2, <4>1
    <3>3. CASE ~(i < p)
      <4>1. ~(i <= Len(head)) /\ i - Len(head) = 1
        BY <1>1, <1>3, <3>3
      <4>. QED BY <2>1, <2>3, <3>1, <3>3, <4>1 DEF one
    <3>. QED BY <3>2, <3>3
  <2>. QED BY <2>3, <2>4, <2>5
<1>. HIDE DEF he
<1>6. all \in Seq(X) /\ Len(all) = c + 1
      /\ \A i \in 1 .. c + 1 : all[i] = IF i <= p THEN he[i] ELSE tail[i - p]
  <2>1. /\ all \in Seq(X) /\ Len(all) = Len(he) + Len(tail)
        /\ \A i \in 1 .. Len(he) + Len(tail) :
             all[i] = IF i <= Len(he) THEN he[i] ELSE tail[i - Len(he)]
    BY <1>4, <1>5, ConcatProperties
  <2>2. Len(he) + Len(tail) = c + 1 /\ Len(he) = p
    BY <1>1, <1>4, <1>5
  <2>. QED BY <2>1, <2>2
<1>. HIDE DEF all
<1>7. front \in Seq(X) /\ Len(front) = c /\ \A i \in 1 .. c : front[i] = all[i]
  <2>1. \A i \in 1 .. c : all[i] \in X
    <3>1. \A i \in 1 .. Len(all) : all[i] \in X
      BY <1>6, ElementOfSeq
    <3>. QED BY <1>1, <1>6, <3>1
  <2>2. /\ front \in Seq(X) /\ Len(front) = IF 1 <= c THEN c - 1 + 1 ELSE 0
        /\ \A i \in 1 .. c - 1 + 1 : front[i] = all[1 + i - 1]
    BY <1>1, <2>1, SubSeqProperties
  <2>3. Len(front) = c
    BY <1>1, <2>2
  <2>4. \A i \in 1 .. c : i \in 1 .. c - 1 + 1 /\ 1 + i - 1 = i
    BY <1>1
  <2>. QED BY <2>2, <2>3, <2>4
<1>8. Consensus!Front(Consensus!InsertAt(r, p, e)) = front
  <2>1. Consensus!InsertAt(r, p, e) = all
    BY <1>1 DEF Consensus!InsertAt, all, he, head, tail
  <2>2. Len(all) - 1 = c
    BY <1>1, <1>6
  <2>. QED BY <2>1, <2>2 DEF Consensus!Front
<1>. HIDE DEF front
<1>9. ASSUME NEW i \in 1 .. c
      PROVE  front[i] = IF i < p THEN r[i] ELSE IF i = p THEN e ELSE r[i - 1]
  <2>1. i \in 1 .. c + 1 /\ front[i] = all[i]
    BY <1>1, <1>7
  <2>2. CASE i <= p
    <3>1. i \in 1 .. p /\ all[i] = he[i]
      BY <1>1, <1>6, <2>1, <2>2
    <3>2. he[i] = IF i < p THEN r[i] ELSE e
      BY <1>5, <3>1
    <3>3. i < p \/ i = p
      BY <1>1, <2>2
    <3>4. ~(p < p)
      BY <1>1
    <3>. QED BY <2>1, <3>1, <3>2, <3>3, <3>4
  <2>3. CASE ~(i <= p)
    <3>1. all[i] = tail[i - p] /\ ~(i < p) /\ i # p
      BY <1>1, <1>6, <2>1, <2>3
    <3>2. i - p \in 1 .. c - p + 1 /\ p + (i - p) - 1 = i - 1
      BY <1>1, <2>3
    <3>3. tail[i - p] = r[p + (i - p) - 1]
      BY <1>4, <3>2
    <3>. QED BY <2>1, <3>1, <3>2, <3>3
  <2>. QED BY <2>2, <2>3
<1>. QED BY <1>7, <1>8, <1>9

-----------------------------------------------------------------------------
(* Tasks of several agents                                                 *)

\* The module's sums are those of the library.
LEMMA ConsensusSum ==
  ASSUME NEW fun, NEW S
  PROVE  Consensus!SumFunctionOnSet(fun, S) = SumFunctionOnSet(fun, S)
BY DEF Consensus!SumFunctionOnSet, Consensus!FoldFunctionOnSet, Consensus!MapThenFoldSet,
       SumFunctionOnSet, FoldFunctionOnSet, MapThenFoldSet

\* The module's cardinalities are those of the library.
LEMMA ConsensusCardinality ==
  ASSUME NEW S
  PROVE  Consensus!Cardinality(S) = Cardinality(S)
BY DEF Consensus!Cardinality, Cardinality

OfferType == [stake : Nat, price : Nat]
BidType == [committed : BOOLEAN, revealed : BOOLEAN, offer : OfferType]
BidRows == [ConsensusAgents -> BidType]
Revealing(row) == {a \in ConsensusAgents : row[a].revealed}
BidStakes(row) == [a \in ConsensusAgents |-> row[a].offer.stake]
StakeAt(row, x) == IF x = NoAgent THEN 0 ELSE row[x].offer.stake
Ranked(row, ranking, c) == [i \in 1 .. c |-> StakeAt(row, ranking[i].agent)]
Held(row, ranking, c) == SumFunctionOnSet(Ranked(row, ranking, c), 1 .. c)
Seen(row, l, k) == {l[i] : i \in 1 .. k} \cap Revealing(row)

Scores(t) == {0} \cup {Consensus!Score(t, a) : a \in ConsensusAgents}
Places(t) == [agent : ConsensusAgents \cup {NoAgent}, score : Scores(t)]
PickedType(t) == [ranking : Seq(Places(t)), repaid : Nat]

\* The places of a ranking name agents with a stake, or nobody.
LEMMA RankedStakes ==
  ASSUME NEW t, NEW row \in BidRows, NEW r \in Seq(Places(t))
  PROVE  \A i \in 1 .. Len(r) : /\ r[i].agent \in ConsensusAgents \cup {NoAgent}
                                /\ StakeAt(row, r[i].agent) \in Nat
<1>1. \A i \in 1 .. Len(r) : r[i] \in Places(t)
  BY ElementOfSeq
<1>2. \A i \in 1 .. Len(r) : r[i].agent \in ConsensusAgents \cup {NoAgent}
  BY <1>1 DEF Places
<1>3. \A a \in ConsensusAgents : row[a].offer.stake \in Nat
  BY DEF BidRows, BidType, OfferType
<1>. QED BY <1>2, <1>3 DEF StakeAt

\* A bid considered is ranked or repaid, and one that leaves the ranking is repaid.
LEMMA ConsiderSound ==
  ASSUME NEW t, NEW c \in Nat \ {0}, bids[t] \in BidRows, NEW picked \in PickedType(t),
         Len(picked.ranking) = c, NEW a \in ConsensusAgents
  PROVE  /\ Consensus!Consider(t, picked, a) \in PickedType(t)
         /\ Len(Consensus!Consider(t, picked, a).ranking) = c
         /\ Consensus!Consider(t, picked, a).repaid
              + Held(bids[t], Consensus!Consider(t, picked, a).ranking, c)
            = picked.repaid + Held(bids[t], picked.ranking, c) + bids[t][a].offer.stake
<1>. DEFINE row == bids[t]
            r == picked.ranking
            x == picked.repaid
            stake == row[a].offer.stake
            score == Consensus!Score(t, a)
            places == {i \in DOMAIN r : Consensus!Beats(score, r[i].score)}
            place == CHOOSE i \in places : \A j \in places : i <= j
            e == [agent |-> a, score |-> score]
            front == Consensus!Front(Consensus!InsertAt(r, place, e))
            out == StakeAt(row, r[c].agent)
            after == Consensus!Consider(t, picked, a)
<1>1. /\ r \in Seq(Places(t)) /\ x \in Nat /\ Len(r) = c /\ DOMAIN r = 1 .. c
      /\ row \in BidRows /\ a # NoAgent /\ stake \in Nat
  <2>1. r \in Seq(Places(t)) /\ x \in Nat
    BY DEF PickedType
  <2>2. DOMAIN r = 1 .. Len(r)
    BY <2>1, LenProperties
  <2>3. stake \in Nat
    BY DEF BidRows, BidType, OfferType
  <2>. QED BY <2>1, <2>2, <2>3, SatelliteAssumption
<1>2. \A y : Consensus!StakeOf(t, y) = StakeAt(row, y)
  BY DEF Consensus!StakeOf, StakeAt
<1>3. Consensus!StakeOf(t, a) = stake
  BY <1>1, <1>2 DEF StakeAt
<1>4. /\ \A i \in 1 .. c : r[i].agent \in ConsensusAgents \cup {NoAgent}
      /\ \A i \in 1 .. c : StakeAt(row, r[i].agent) \in Nat
  <2>. HIDE DEF r, row
  <2>. QED BY <1>1, RankedStakes
<1>5. Held(row, r, c) \in Nat /\ out \in Nat /\ c \in 1 .. c
  <2>1. IsFiniteSet(1 .. c)
    BY FS_Interval
  <2>2. \A i \in 1 .. c : Ranked(row, r, c)[i] \in Nat
    BY <1>4 DEF Ranked
  <2>3. c \in 1 .. c
    OBVIOUS
  <2>. HIDE DEF r, row
  <2>. QED BY <1>4, <2>1, <2>2, <2>3, SumNat DEF Held
<1>6. CASE places = {}
  <2>1. after = [picked EXCEPT !.repaid = x + stake]
    BY <1>3, <1>6 DEF Consensus!Consider
  <2>2. after \in PickedType(t) /\ after.ranking = r /\ after.repaid = x + stake
    <3>. DEFINE y == x + stake
    <3>1. y \in Nat
      BY <1>1
    <3>2. after = [picked EXCEPT !.repaid = y]
      BY <2>1
    <3>. HIDE DEF y, after
    <3>3. after \in PickedType(t) /\ after.ranking = picked.ranking /\ after.repaid = y
      BY <3>1, <3>2 DEF PickedType
    <3>. QED BY <3>3 DEF y
  <2>. HIDE DEF after, r, x, row, stake
  <2>3. after.repaid + Held(row, after.ranking, c) = x + Held(row, r, c) + stake
    BY <1>1, <1>5, <2>2
  <2>. QED BY <1>1, <2>2, <2>3 DEF after, r, x, row, stake
<1>7. CASE places # {}
  <2>1. place \in places
    <3>1. IsFiniteSet(places) /\ places \subseteq Int
      <4>1. IsFiniteSet(1 .. c)
        BY FS_Interval
      <4>2. places \subseteq 1 .. c
        BY <1>1
      <4>3. \A i \in 1 .. c : i \in Int
        OBVIOUS
      <4>. HIDE DEF places
      <4>4. IsFiniteSet(places)
        BY <4>1, <4>2, FS_Subset
      <4>. QED BY <4>2, <4>3, <4>4
    <3>. HIDE DEF places
    <3>2. \E i \in places : \A j \in places : i <= j
      BY <1>7, <3>1, LeastOfSet
    <3>. QED BY <3>2
  <2>2. place \in 1 .. c
    BY <1>1, <2>1
  <2>3. e \in Places(t)
    BY DEF Places, Scores
  <2>4. after = [ranking |-> front, repaid |-> x + out]
    <3>1. Consensus!PushedOut(r, place) = r[c].agent
      BY <1>1 DEF Consensus!PushedOut, Consensus!Last
    <3>2. Consensus!StakeOf(t, Consensus!PushedOut(r, place)) = out
      BY <1>2, <3>1
    <3>. QED BY <1>7, <3>2 DEF Consensus!Consider
  <2>. HIDE DEF places, place, after
  <2>5. Inserted(r, c, place, e, Places(t))
    BY <1>1, <2>2, <2>3 DEF Inserted
  <2>. HIDE DEF r
  <2>6. /\ front \in Seq(Places(t)) /\ Len(front) = c
        /\ \A i \in 1 .. c : front[i] =
             IF i < place THEN r[i] ELSE IF i = place THEN e ELSE r[i - 1]
    <3>. HIDE DEF e
    <3>. QED BY <2>5, InsertFront
  <2>. HIDE DEF front
  <2>7. EntersAt(Ranked(row, r, c), Ranked(row, front, c), c, place, stake)
    <3>. DEFINE f == Ranked(row, r, c)
                g == Ranked(row, front, c)
    <3>1. \A i \in 1 .. c : f[i] = StakeAt(row, r[i].agent) /\ g[i] = StakeAt(row, front[i].agent)
      BY DEF Ranked
    <3>2. \A i \in 1 .. c : f[i] \in Int
      BY <1>4, <3>1
    <3>3. ASSUME NEW i \in 1 .. c
          PROVE  g[i] = IF i < place THEN f[i] ELSE IF i = place THEN stake ELSE f[i - 1]
      <4>1. CASE i < place
        <5>1. front[i] = r[i]
          BY <2>6, <4>1
        <5>. QED BY <3>1, <4>1, <5>1
      <4>2. CASE i = place
        <5>1. front[i] = e /\ ~(i < place)
          BY <2>2, <2>6, <4>2
        <5>2. StakeAt(row, e.agent) = stake
          BY <1>1 DEF StakeAt
        <5>. QED BY <3>1, <4>2, <5>1, <5>2
      <4>3. CASE ~(i < place) /\ i # place
        <5>1. front[i] = r[i - 1] /\ i - 1 \in 1 .. c
          BY <2>2, <2>6, <4>3
        <5>. QED BY <3>1, <4>3, <5>1
      <4>. QED BY <4>1, <4>2, <4>3
    <3>4. c \in Nat /\ stake \in Int
      BY <1>1
    <3>. HIDE DEF f, g, stake, place
    <3>5. EntersAt(f, g, c, place, stake)
      BY <2>2, <3>2, <3>3, <3>4 DEF EntersAt
    <3>. QED BY <3>5 DEF f, g
  <2>8. Held(row, front, c) = Held(row, r, c) - out + stake
    <3>1. Ranked(row, r, c)[c] = out
      BY <1>5 DEF Ranked
    <3>2. SumFunctionOnSet(Ranked(row, front, c), 1 .. c)
            = SumFunctionOnSet(Ranked(row, r, c), 1 .. c) - Ranked(row, r, c)[c] + stake
      <4>. HIDE DEF row, stake
      <4>. QED BY <2>7, SumEnters
    <3>. QED BY <3>1, <3>2 DEF Held
  <2>. HIDE DEF out, row, stake, x
  <2>9. x + out \in Nat
    BY <1>1, <1>5
  <2>10. after \in PickedType(t) /\ after.ranking = front /\ after.repaid = x + out
    <3>. DEFINE y == x + out
    <3>1. after = [ranking |-> front, repaid |-> y] /\ y \in Nat
      BY <2>4, <2>9
    <3>. HIDE DEF y
    <3>2. after \in PickedType(t) /\ after.ranking = front /\ after.repaid = y
      BY <2>6, <3>1 DEF PickedType
    <3>. QED BY <3>2 DEF y
  <2>11. after.repaid + Held(row, after.ranking, c) = x + Held(row, r, c) + stake
    BY <1>1, <1>5, <2>8, <2>10
  <2>. QED BY <2>6, <2>10, <2>11 DEF after, r, x, row, stake
<1>. QED BY <1>6, <1>7

-----------------------------------------------------------------------------
FirstPick(t) ==
  [ranking |-> [i \in 1 .. consensusTasks[t].agentCount |-> Consensus!EmptyPlace], repaid |-> 0]
NextPick(t, before, a) ==
  IF bids[t][a].revealed THEN Consensus!Consider(t, before, a) ELSE before
PickAt(t, p, k) == IF k = 0 THEN FirstPick(t) ELSE NextPick(t, p[k - 1], taskBidders[t][k])
PicksUpTo(t, n, p) == p = [k \in 0 .. n |-> PickAt(t, p, k)]

\* The recursion of the selection has a value.
LEMMA PicksExist ==
  ASSUME NEW t, NEW n \in Nat
  PROVE  \E p : PicksUpTo(t, n, p)
<1>. DEFINE Good == {m \in 0 .. n : \E p : PicksUpTo(t, m, p)}
<1>1. 0 \in Good
  <2>. DEFINE p == [k \in 0 .. 0 |-> FirstPick(t)]
  <2>1. \A k \in 0 .. 0 : k = 0
    OBVIOUS
  <2>2. p = [k \in 0 .. 0 |-> PickAt(t, p, k)]
    BY <2>1 DEF PickAt
  <2>. HIDE DEF p
  <2>3. \E q : PicksUpTo(t, 0, q)
    BY <2>2 DEF PicksUpTo
  <2>. QED BY <2>3
<1>2. ASSUME NEW m \in 0 .. n, m \in Good, m < n
      PROVE  m + 1 \in Good
  <2>1. PICK p : PicksUpTo(t, m, p)
    BY <1>2
  <2>2. p = [k \in 0 .. m |-> PickAt(t, p, k)]
    BY <2>1 DEF PicksUpTo
  <2>. DEFINE q == [k \in 0 .. m + 1 |-> IF k = m + 1 THEN PickAt(t, p, k) ELSE p[k]]
  <2>3. ASSUME NEW k \in 0 .. m + 1
        PROVE  q[k] = PickAt(t, q, k)
    <3>1. q[k] = PickAt(t, p, k)
      <4>1. CASE k = m + 1
        BY <4>1
      <4>2. CASE k # m + 1
        <5>1. k \in 0 .. m
          BY <4>2
        <5>2. q[k] = p[k]
          BY <4>2
        <5>3. p[k] = PickAt(t, p, k)
          BY <2>2, <5>1
        <5>. QED BY <5>2, <5>3
      <4>. QED BY <4>1, <4>2
    <3>2. k # 0 => q[k - 1] = p[k - 1]
      <4>1. k # 0 => k - 1 \in 0 .. m + 1 /\ k - 1 # m + 1
        OBVIOUS
      <4>. QED BY <4>1
    <3>. HIDE DEF q
    <3>. QED BY <3>1, <3>2 DEF PickAt
  <2>4. q = [k \in 0 .. m + 1 |-> PickAt(t, q, k)]
    <3>1. q = [k \in 0 .. m + 1 |-> q[k]]
      OBVIOUS
    <3>. HIDE DEF q
    <3>. QED BY <2>3, <3>1
  <2>. HIDE DEF q
  <2>5. \E f : PicksUpTo(t, m + 1, f)
    BY <2>4 DEF PicksUpTo
  <2>6. m + 1 \in 0 .. n
    BY <1>2
  <2>. QED BY <2>5, <2>6
<1>. HIDE DEF Good
<1>3. 0 .. n \subseteq Good
  BY <1>1, <1>2, CountingUp
<1>4. n \in Good
  BY <1>3
<1>. QED BY <1>4 DEF Good

\* The selection is reached by considering one bidder after the other.
LEMMA SelectionPicks ==
  ASSUME NEW t, Len(taskBidders[t]) \in Nat
  PROVE  \E p : /\ Consensus!Selection(t) = p[Len(taskBidders[t])] /\ p[0] = FirstPick(t)
                /\ \A k \in 0 .. Len(taskBidders[t]) : k < Len(taskBidders[t]) =>
                     p[k + 1] = NextPick(t, p[k], taskBidders[t][k + 1])
<1>. DEFINE n == Len(taskBidders[t])
            p == CHOOSE p : p = [k \in 0 .. n |-> PickAt(t, p, k)]
<1>1. Consensus!Selection(t) = p[n]
  BY DEF Consensus!Selection, PickAt, FirstPick, NextPick
<1>2. p = [k \in 0 .. n |-> PickAt(t, p, k)]
  <2>1. \E q : q = [k \in 0 .. n |-> PickAt(t, q, k)]
    BY PicksExist DEF PicksUpTo
  <2>. QED BY <2>1
<1>. HIDE DEF p, n
<1>3. n \in Nat
  BY DEF n
<1>4. \A k \in 0 .. n : p[k] = PickAt(t, p, k)
  BY <1>2
<1>5. p[0] = FirstPick(t)
  BY <1>3, <1>4 DEF PickAt
<1>6. ASSUME NEW k \in 0 .. n, k < n
      PROVE  p[k + 1] = NextPick(t, p[k], taskBidders[t][k + 1])
  <2>1. k + 1 \in 0 .. n /\ k + 1 # 0 /\ (k + 1) - 1 = k
    BY <1>3, <1>6
  <2>2. p[k + 1] = PickAt(t, p, k + 1)
    BY <1>4, <2>1
  <2>. QED BY <2>1, <2>2 DEF PickAt
<1>. QED BY <1>1, <1>5, <1>6 DEF n

\* The bidders of a task, each once, in the order of their commitments.
BiddersSound(row, l) ==
  /\ Distinct(l) /\ Elements(l) = {a \in ConsensusAgents : row[a].committed}
  /\ \A a \in ConsensusAgents : row[a].revealed => row[a].committed

PickSound(t, c, k, picked) ==
  /\ picked \in PickedType(t) /\ Len(picked.ranking) = c
  /\ picked.repaid + Held(bids[t], picked.ranking, c)
       = SumFunctionOnSet(BidStakes(bids[t]), Seen(bids[t], taskBidders[t], k))

\* Whatever the scores, every stake revealed is ranked or repaid, and none is twice.
LEMMA SelectionSound ==
  ASSUME NEW t, NEW c \in Nat \ {0}, bids[t] \in BidRows,
         taskBidders[t] \in Seq(ConsensusAgents), BiddersSound(bids[t], taskBidders[t]),
         consensusTasks[t].agentCount = c
  PROVE  /\ Consensus!Selection(t) \in PickedType(t)
         /\ Len(Consensus!Selection(t).ranking) = c
         /\ Consensus!Selection(t).repaid + Held(bids[t], Consensus!Selection(t).ranking, c)
              = SumFunctionOnSet(BidStakes(bids[t]), Revealing(bids[t]))
<1>. DEFINE l == taskBidders[t]
            n == Len(l)
            row == bids[t]
            seen(k) == Seen(row, l, k)
            stakes == BidStakes(row)
<1>1. n \in Nat /\ \A i \in 1 .. n : l[i] \in ConsensusAgents
  BY LenProperties, ElementOfSeq
<1>2. /\ IsFiniteSet(ConsensusAgents) /\ NoAgent \notin ConsensusAgents
      /\ \A a \in ConsensusAgents : stakes[a] = row[a].offer.stake /\ stakes[a] \in Nat
  BY SatelliteAssumption DEF BidStakes, BidRows, BidType, OfferType
<1>3. PICK p : /\ Consensus!Selection(t) = p[n] /\ p[0] = FirstPick(t)
               /\ \A k \in 0 .. n : k < n => p[k + 1] = NextPick(t, p[k], l[k + 1])
  BY <1>1, SelectionPicks
<1>. DEFINE Good == {k \in 0 .. n : PickSound(t, c, k, p[k])}
<1>4. 0 \in Good
  <2>. DEFINE empty == [i \in 1 .. c |-> Consensus!EmptyPlace]
  <2>1. empty \in Seq(Places(t)) /\ Len(empty) = c
    <3>1. Consensus!EmptyPlace \in Places(t)
      BY DEF Consensus!EmptyPlace, Places, Scores
    <3>2. empty \in [1 .. c -> Places(t)] /\ DOMAIN empty = 1 .. c
      BY <3>1
    <3>. HIDE DEF empty
    <3>. QED BY <3>2
  <2>2. p[0] = [ranking |-> empty, repaid |-> 0]
    BY <1>3 DEF FirstPick
  <2>3. \A i \in 1 .. c : Ranked(row, empty, c)[i] = 0
    BY DEF Ranked, StakeAt, Consensus!EmptyPlace
  <2>. HIDE DEF empty
  <2>4. p[0] \in PickedType(t) /\ p[0].ranking = empty /\ p[0].repaid = 0
    BY <2>1, <2>2 DEF PickedType
  <2>5. Held(row, empty, c) = 0
    <3>1. IsFiniteSet(1 .. c)
      BY FS_Interval
    <3>. QED BY <2>3, <3>1, SumZero DEF Held
  <2>6. SumFunctionOnSet(stakes, seen(0)) = 0
    <3>1. seen(0) = {}
      BY DEF Seen
    <3>. QED BY <3>1, SumEmpty
  <2>7. p[0].repaid + Held(row, p[0].ranking, c) = SumFunctionOnSet(stakes, seen(0))
    BY <2>4, <2>5, <2>6
  <2>. QED BY <1>1, <2>1, <2>4, <2>7 DEF PickSound
<1>5. ASSUME NEW k \in 0 .. n, k \in Good, k < n
      PROVE  k + 1 \in Good
  <2>. DEFINE a == l[k + 1]
              before == p[k]
              after == p[k + 1]
  <2>1. k + 1 \in 1 .. n /\ k + 1 \in 0 .. n /\ k \in Nat
    BY <1>1, <1>5
  <2>2. a \in ConsensusAgents /\ after = NextPick(t, before, a)
    BY <1>1, <1>3, <1>5, <2>1
  <2>3. /\ before \in PickedType(t) /\ Len(before.ranking) = c
        /\ before.repaid + Held(row, before.ranking, c) = SumFunctionOnSet(stakes, seen(k))
    BY <1>5 DEF PickSound
  <2>4. CASE ~row[a].revealed
    <3>1. after = before
      BY <2>2, <2>4 DEF NextPick
    <3>2. seen(k + 1) = seen(k)
      <4>1. \A i \in 1 .. k + 1 : i \in 1 .. k \/ i = k + 1
        BY <2>1
      <4>2. \A i \in 1 .. k : i \in 1 .. k + 1
        BY <2>1
      <4>. QED BY <2>4, <4>1, <4>2 DEF Seen, Revealing
    <3>3. PickSound(t, c, k + 1, after)
      BY <2>3, <3>1, <3>2 DEF PickSound
    <3>. QED BY <2>1, <3>3
  <2>5. CASE row[a].revealed
    <3>1. after = Consensus!Consider(t, before, a)
      BY <2>2, <2>5 DEF NextPick
    <3>. HIDE DEF after, before, a, row
    <3>2. /\ after \in PickedType(t) /\ Len(after.ranking) = c
          /\ after.repaid + Held(row, after.ranking, c)
               = before.repaid + Held(row, before.ranking, c) + row[a].offer.stake
      BY <2>2, <2>3, <3>1, ConsiderSound DEF row
    <3>3. SumFunctionOnSet(stakes, seen(k + 1)) = SumFunctionOnSet(stakes, seen(k)) + stakes[a]
          /\ SumFunctionOnSet(stakes, seen(k)) \in Nat
      <4>1. seen(k + 1) = seen(k) \cup {a}
        <5>1. \A i : i \in 1 .. k + 1 <=> i \in 1 .. k \/ i = k + 1
          BY <2>1
        <5>2. a \in Revealing(row)
          BY <2>2, <2>5 DEF Revealing
        <5>. QED BY <5>1, <5>2 DEF Seen, a
      <4>2. a \notin seen(k)
        <5>1. \A i \in 1 .. k : i \in 1 .. n /\ i # k + 1
          BY <1>1, <2>1
        <5>2. \A i \in 1 .. n : l[i] = l[k + 1] => i = k + 1
          BY <2>1 DEF BiddersSound, Distinct
        <5>. QED BY <5>1, <5>2 DEF Seen, a
      <4>3. seen(k) \subseteq ConsensusAgents
        BY DEF Seen, Revealing
      <4>. HIDE DEF seen, stakes
      <4>4. IsFiniteSet(seen(k))
        BY <1>2, <4>3, FS_Subset
      <4>5. EntryAddition(stakes, stakes, seen(k), a)
        BY <1>2, <2>2, <4>2, <4>3, <4>4 DEF EntryAddition
      <4>6. /\ SumFunctionOnSet(stakes, seen(k) \cup {a})
                 = SumFunctionOnSet(stakes, seen(k)) + stakes[a]
            /\ SumFunctionOnSet(stakes, seen(k)) \in Nat
        BY <4>5, EntryAdd
      <4>. QED BY <4>1, <4>6
    <3>4. stakes[a] = row[a].offer.stake
      BY <1>2, <2>2
    <3>. HIDE DEF stakes, seen
    <3>5. after.repaid + Held(row, after.ranking, c) = SumFunctionOnSet(stakes, seen(k + 1))
      BY <2>3, <3>2, <3>3, <3>4 DEF row
    <3>6. PickSound(t, c, k + 1, after)
      BY <3>2, <3>5 DEF PickSound, stakes, seen, row
    <3>. QED BY <2>1, <3>6 DEF after
  <2>. QED BY <2>4, <2>5
<1>. HIDE DEF Good
<1>6. 0 .. n \subseteq Good
  <2>. HIDE DEF n
  <2>. QED BY <1>1, <1>4, <1>5, CountingUp
<1>7. n \in Good
  BY <1>1, <1>6
<1>8. PickSound(t, c, n, Consensus!Selection(t))
  BY <1>3, <1>7 DEF Good
<1>9. seen(n) = Revealing(row)
  <2>1. Elements(l) = {a \in ConsensusAgents : row[a].committed}
        /\ \A a \in ConsensusAgents : row[a].revealed => row[a].committed
    BY DEF BiddersSound
  <2>2. Elements(l) = {l[i] : i \in 1 .. n}
    BY DEF Elements
  <2>. QED BY <2>1, <2>2 DEF Seen, Revealing
<1>. QED BY <1>8, <1>9 DEF PickSound

-----------------------------------------------------------------------------
ConsensusStatus ==
  {"Open", "BidReveal", "Executing", "Delivered", "Consensus", "NoConsensus", "Cancelled"}
ConsensusTaskType ==
  [totalBounty : Nat, agentCount : 2 .. 5, deadline : Nat, bidDeadline : Nat,
   revealDeadline : Nat, status : ConsensusStatus]
SubmissionType == [agent : ConsensusAgents \cup {NoAgent}, offer : OfferType,
                   outputHash : SUBSET Outputs, paid : BOOLEAN]
TaskCount == Len(consensusTasks)

ConsensusTypes ==
  /\ consensusNow \in Nat
  /\ Listed(consensusTasks, TaskCount, ConsensusTaskType)
  /\ Listed(taskBidders, TaskCount, Seq(ConsensusAgents))
  /\ Listed(bids, TaskCount, BidRows)
  /\ Listed(submissions, TaskCount, Seq(SubmissionType))
  /\ consensusTreasury \in Nat /\ consensusBalance \in Int

Bonded(row) ==
  SumFunctionOnSet([a \in Revealing(row) |-> row[a].offer.stake], Revealing(row))
Submitted(subs) ==
  SumFunctionOnSet([i \in DOMAIN subs |-> subs[i].offer.stake], DOMAIN subs)
\* What is owed for a task with these bids and submissions.
Debt(p, row, subs) ==
  CASE p.status \in {"Open", "BidReveal"} -> p.totalBounty + Bonded(row)
    [] p.status \in {"Executing", "Delivered", "NoConsensus"} -> p.totalBounty + Submitted(subs)
    [] OTHER -> 0
Debts(ps, rows, subs) == [t \in 1 .. Len(ps) |-> Debt(ps[t], rows[t], subs[t])]
Indebted(ps, rows, subs) == SumFunctionOnSet(Debts(ps, rows, subs), 1 .. Len(ps))

ConsensusInv ==
  /\ ConsensusTypes
  /\ consensusBalance = consensusTreasury + Indebted(consensusTasks, bids, submissions)
  /\ \A t \in 1 .. TaskCount : BiddersSound(bids[t], taskBidders[t])

\* What the module says a task owes, in the terms of these proofs.
LEMMA DebtOwed ==
  ASSUME NEW t
  PROVE  Consensus!Owed(t) = Debt(consensusTasks[t], bids[t], submissions[t])
<1>1. Consensus!Revealed(t) = Revealing(bids[t])
  BY DEF Consensus!Revealed, Revealing
<1>2. Consensus!Sum(Consensus!Revealed(t), LAMBDA a : bids[t][a].offer.stake) = Bonded(bids[t])
  BY <1>1, ConsensusSum DEF Consensus!Sum, Bonded
<1>3. Consensus!Sum(DOMAIN submissions[t], LAMBDA i : submissions[t][i].offer.stake)
        = Submitted(submissions[t])
  BY ConsensusSum DEF Consensus!Sum, Submitted
<1>. QED BY <1>2, <1>3 DEF Consensus!Owed, Debt

\* The invariant says that the contract holds what its tasks owe.
LEMMA ConsensusExact == ConsensusInv => Consensus!FundsExact
<1>. SUFFICES ASSUME ConsensusInv PROVE Consensus!FundsExact
  OBVIOUS
<1>1. DOMAIN consensusTasks = 1 .. TaskCount
  BY ListedElement DEF ConsensusInv, ConsensusTypes
<1>2. Consensus!Sum(Consensus!Tasks, Consensus!Owed)
        = SumFunctionOnSet(
            [t \in DOMAIN consensusTasks |-> Debt(consensusTasks[t], bids[t], submissions[t])],
            DOMAIN consensusTasks)
  BY DebtOwed, ConsensusSum DEF Consensus!Sum, Consensus!Tasks
<1>3. Consensus!Sum(Consensus!Tasks, Consensus!Owed)
        = Indebted(consensusTasks, bids, submissions)
  BY <1>1, <1>2 DEF Indebted, Debts, TaskCount
<1>. QED BY <1>3 DEF Consensus!FundsExact, ConsensusInv

\* The contract starts in the invariant.
LEMMA ConsensusInit == Consensus!Init => ConsensusInv
<1>. SUFFICES ASSUME Consensus!Init PROVE ConsensusInv
  OBVIOUS
<1>1. /\ consensusTasks = <<>> /\ taskBidders = <<>> /\ bids = <<>> /\ submissions = <<>>
      /\ TaskCount = 0 /\ 1 .. TaskCount = {} /\ Len(consensusTasks) = 0
      /\ consensusNow = 1 /\ consensusTreasury = 0 /\ consensusBalance = 0
  BY DEF Consensus!Init, TaskCount
<1>2. Indebted(consensusTasks, bids, submissions) = 0
  <2>1. 1 .. Len(consensusTasks) = {}
    BY <1>1
  <2>. QED BY <2>1, SumEmpty DEF Indebted
<1>3. \A T : Listed(<<>>, 0, T)
  BY DEF Listed
<1>4. ConsensusTypes
  BY <1>1, <1>3 DEF ConsensusTypes
<1>. QED BY <1>1, <1>2, <1>4 DEF ConsensusInv

\* What the invariant says of one task.
LEMMA ConsensusTask0 ==
  ASSUME ConsensusInv, NEW t \in 1 .. TaskCount
  PROVE  /\ consensusTasks[t] \in ConsensusTaskType /\ taskBidders[t] \in Seq(ConsensusAgents)
         /\ bids[t] \in BidRows /\ submissions[t] \in Seq(SubmissionType)
         /\ BiddersSound(bids[t], taskBidders[t])
         /\ consensusTasks[t].totalBounty \in Nat /\ consensusTasks[t].agentCount \in 2 .. 5
<1>1. /\ consensusTasks[t] \in ConsensusTaskType /\ taskBidders[t] \in Seq(ConsensusAgents)
      /\ bids[t] \in BidRows /\ submissions[t] \in Seq(SubmissionType)
  BY ListedElement DEF ConsensusInv, ConsensusTypes
<1>2. consensusTasks[t].totalBounty \in Nat /\ consensusTasks[t].agentCount \in 2 .. 5
  BY <1>1 DEF ConsensusTaskType
<1>. QED BY <1>1, <1>2 DEF ConsensusInv

\* The stakes bonded in an auction are a sum of amounts.
LEMMA BondedNat ==
  ASSUME NEW row \in BidRows
  PROVE  /\ Bonded(row) \in Nat /\ IsFiniteSet(Revealing(row))
         /\ Bonded(row) = SumFunctionOnSet(BidStakes(row), Revealing(row))
<1>1. IsFiniteSet(Revealing(row)) /\ Revealing(row) \subseteq ConsensusAgents
  <2>1. Revealing(row) \subseteq ConsensusAgents
    BY DEF Revealing
  <2>. QED BY <2>1, SatelliteAssumption, FS_Subset
<1>. DEFINE f == [a \in Revealing(row) |-> row[a].offer.stake]
<1>2. \A a \in Revealing(row) : f[a] \in Nat /\ f[a] = BidStakes(row)[a]
  <2>1. \A a \in ConsensusAgents : row[a].offer.stake \in Nat
    BY DEF BidRows, BidType, OfferType
  <2>. QED BY <1>1, <2>1 DEF BidStakes
<1>3. Bonded(row) = SumFunctionOnSet(f, Revealing(row))
  BY DEF Bonded
<1>. HIDE DEF f
<1>4. SumFunctionOnSet(f, Revealing(row)) \in Nat
  BY <1>1, <1>2, SumNat
<1>5. SumFunctionOnSet(f, Revealing(row)) = SumFunctionOnSet(BidStakes(row), Revealing(row))
  BY <1>1, <1>2, SumSame
<1>. QED BY <1>1, <1>3, <1>4, <1>5

\* So are the stakes of the selected agents.
LEMMA SubmittedNat ==
  ASSUME NEW subs \in Seq(SubmissionType)
  PROVE  /\ Submitted(subs) \in Nat /\ IsFiniteSet(DOMAIN subs) /\ DOMAIN subs = 1 .. Len(subs)
         /\ \A i \in DOMAIN subs : subs[i] \in SubmissionType /\ subs[i].offer.stake \in Nat
                                   /\ subs[i].offer.price \in Nat
<1>1. DOMAIN subs = 1 .. Len(subs) /\ Len(subs) \in Nat
  BY LenProperties
<1>2. IsFiniteSet(DOMAIN subs)
  BY <1>1, FS_Interval
<1>3. \A i \in DOMAIN subs : subs[i] \in SubmissionType
  BY <1>1, ElementOfSeq
<1>4. \A i \in DOMAIN subs : subs[i].offer.stake \in Nat /\ subs[i].offer.price \in Nat
  BY <1>3 DEF SubmissionType, OfferType
<1>. DEFINE f == [i \in DOMAIN subs |-> subs[i].offer.stake]
<1>5. \A i \in DOMAIN subs : f[i] \in Nat
  BY <1>4
<1>6. Submitted(subs) = SumFunctionOnSet(f, DOMAIN subs)
  BY DEF Submitted
<1>. HIDE DEF f
<1>7. SumFunctionOnSet(f, DOMAIN subs) \in Nat
  BY <1>2, <1>5, SumNat
<1>. QED BY <1>1, <1>2, <1>3, <1>4, <1>6, <1>7

\* A task never owes a negative amount.
LEMMA DebtNat ==
  ASSUME NEW p \in ConsensusTaskType, NEW row \in BidRows, NEW subs \in Seq(SubmissionType)
  PROVE  Debt(p, row, subs) \in Nat
<1>1. p.totalBounty \in Nat
  BY DEF ConsensusTaskType
<1>2. Bonded(row) \in Nat /\ Submitted(subs) \in Nat
  BY BondedNat, SubmittedNat
<1>. QED BY <1>1, <1>2 DEF Debt

-----------------------------------------------------------------------------
\* A list is itself with one element written over itself.
LEMMA SamePut ==
  ASSUME NEW l, NEW n, NEW T, Listed(l, n, T), NEW s \in 1 .. n
  PROVE  Put(l, l, n, T, s, l[s])
BY SameListed, ListedElement DEF Put

\* The task t becomes p, with these bids, bidders and submissions.
ConsensusWrite(t, p, row, l, subs) ==
  /\ Put(consensusTasks, consensusTasks', TaskCount, ConsensusTaskType, t, p)
  /\ Put(taskBidders, taskBidders', TaskCount, Seq(ConsensusAgents), t, l)
  /\ Put(bids, bids', TaskCount, BidRows, t, row)
  /\ Put(submissions, submissions', TaskCount, Seq(SubmissionType), t, subs)
  /\ BiddersSound(row, l) /\ consensusTreasury' \in Nat /\ UNCHANGED consensusNow
  /\ consensusBalance' - consensusTreasury' = consensusBalance - consensusTreasury
       - Debt(consensusTasks[t], bids[t], submissions[t]) + Debt(p, row, subs)
  /\ consensusBalance' \in Int

\* A step that changes one task and moves exactly what it owes.
LEMMA OneConsensusTask ==
  ASSUME ConsensusInv, NEW t, NEW p, NEW row, NEW l, NEW subs, ConsensusWrite(t, p, row, l, subs)
  PROVE  ConsensusInv'
<1>. DEFINE n == TaskCount
            ids == 1 .. n
<1>1. /\ Listed(consensusTasks', n, ConsensusTaskType) /\ consensusTasks'[t] = p
      /\ \A i \in 1 .. n \ {t} : consensusTasks'[i] = consensusTasks[i]
  BY PutListed DEF ConsensusWrite
<1>2. /\ Listed(taskBidders', n, Seq(ConsensusAgents)) /\ taskBidders'[t] = l
      /\ \A i \in 1 .. n \ {t} : taskBidders'[i] = taskBidders[i]
  BY PutListed DEF ConsensusWrite
<1>3. /\ Listed(bids', n, BidRows) /\ bids'[t] = row
      /\ \A i \in 1 .. n \ {t} : bids'[i] = bids[i]
  BY PutListed DEF ConsensusWrite
<1>4. /\ Listed(submissions', n, Seq(SubmissionType)) /\ submissions'[t] = subs
      /\ \A i \in 1 .. n \ {t} : submissions'[i] = submissions[i]
  BY PutListed DEF ConsensusWrite
<1>5. TaskCount' = n /\ Len(consensusTasks') = n /\ n \in Nat /\ t \in ids /\ Len(consensusTasks) = n
  BY <1>1 DEF TaskCount, Listed, ConsensusWrite, Put
<1>. HIDE DEF n
<1>6. ConsensusTypes'
  BY <1>1, <1>2, <1>3, <1>4, <1>5 DEF ConsensusTypes, ConsensusInv, ConsensusWrite
<1>7. ASSUME NEW i \in ids
      PROVE  BiddersSound(bids'[i], taskBidders'[i])
  <2>1. CASE i = t
    BY <1>2, <1>3, <2>1 DEF ConsensusWrite
  <2>2. CASE i # t
    BY <1>2, <1>3, <2>2 DEF ConsensusInv, n
  <2>. QED BY <2>1, <2>2
<1>. DEFINE f == Debts(consensusTasks, bids, submissions)
            g == Debts(consensusTasks', bids', submissions')
<1>8. \A i \in ids : /\ f[i] = Debt(consensusTasks[i], bids[i], submissions[i])
                     /\ g[i] = Debt(consensusTasks'[i], bids'[i], submissions'[i])
  BY <1>5 DEF Debts
<1>9. \A i \in ids : f[i] \in Nat
  <2>1. \A i \in ids : /\ consensusTasks[i] \in ConsensusTaskType /\ bids[i] \in BidRows
                       /\ submissions[i] \in Seq(SubmissionType)
    BY ConsensusTask0 DEF n
  <2>. QED BY <1>8, <2>1, DebtNat
<1>10. \A i \in ids : g[i] \in Nat
  <2>1. \A i \in ids : /\ consensusTasks'[i] \in ConsensusTaskType /\ bids'[i] \in BidRows
                       /\ submissions'[i] \in Seq(SubmissionType)
    BY <1>1, <1>3, <1>4, ListedElement
  <2>. QED BY <1>8, <2>1, DebtNat
<1>11. EntryChange(f, g, ids, t)
  <2>1. IsFiniteSet(ids)
    BY <1>5, FS_Interval
  <2>2. \A i \in ids \ {t} : g[i] = f[i]
    BY <1>1, <1>3, <1>4, <1>8
  <2>. HIDE DEF f, g, ids
  <2>. QED BY <1>5, <1>9, <1>10, <2>1, <2>2 DEF EntryChange
<1>12. f[t] = Debt(consensusTasks[t], bids[t], submissions[t]) /\ g[t] = Debt(p, row, subs)
  BY <1>1, <1>3, <1>4, <1>5, <1>8
<1>13. /\ Indebted(consensusTasks, bids, submissions) = SumFunctionOnSet(f, ids)
       /\ Indebted(consensusTasks', bids', submissions') = SumFunctionOnSet(g, ids)
  BY <1>5 DEF Indebted
<1>. HIDE DEF f, g, ids
<1>14. /\ SumFunctionOnSet(g, ids) = SumFunctionOnSet(f, ids) - f[t] + g[t]
       /\ SumFunctionOnSet(g, ids) \in Nat /\ SumFunctionOnSet(f, ids) \in Nat
       /\ f[t] \in Nat /\ g[t] \in Nat
  BY <1>11, EntryUpdate
<1>15. consensusBalance' = consensusTreasury' + SumFunctionOnSet(g, ids)
  <2>1. consensusBalance = consensusTreasury + SumFunctionOnSet(f, ids)
        /\ consensusTreasury \in Nat /\ consensusBalance \in Int
    BY <1>13 DEF ConsensusInv, ConsensusTypes
  <2>2. consensusBalance' - consensusTreasury' = consensusBalance - consensusTreasury - f[t] + g[t]
        /\ consensusBalance' \in Int /\ consensusTreasury' \in Nat
    BY <1>12 DEF ConsensusWrite
  <2>. DEFINE a == SumFunctionOnSet(f, ids)
              b == SumFunctionOnSet(g, ids)
              x == f[t]
              y == g[t]
              u == consensusBalance'
              v == consensusTreasury'
  <2>3. a \in Nat /\ b \in Nat /\ x \in Nat /\ y \in Nat /\ b = a - x + y
    BY <1>14
  <2>4. consensusBalance = consensusTreasury + a
        /\ u - v = consensusBalance - consensusTreasury - x + y
    BY <2>1, <2>2
  <2>5. u \in Int /\ v \in Int /\ consensusBalance \in Int /\ consensusTreasury \in Int
    BY <2>1, <2>2
  <2>. HIDE DEF a, b, x, y, u, v
  <2>6. u = v + b
    BY <2>3, <2>4, <2>5
  <2>. QED BY <2>6 DEF b, u, v
<1>. QED BY <1>5, <1>6, <1>7, <1>13, <1>15 DEF ConsensusInv, ids

-----------------------------------------------------------------------------
\* The four lists of the contract have one entry per task.
LEMMA ConsensusLists ==
  ASSUME ConsensusInv
  PROVE  /\ Listed(consensusTasks, TaskCount, ConsensusTaskType)
         /\ Listed(taskBidders, TaskCount, Seq(ConsensusAgents))
         /\ Listed(bids, TaskCount, BidRows)
         /\ Listed(submissions, TaskCount, Seq(SubmissionType))
         /\ TaskCount \in Nat /\ consensusTreasury \in Nat /\ consensusBalance \in Int
BY DEF ConsensusInv, ConsensusTypes, Listed

\* A task with another status.
Restated(p, status) == [p EXCEPT !.status = status]

\* A task in another status.
LEMMA RestatedTask ==
  ASSUME NEW p \in ConsensusTaskType, NEW status \in ConsensusStatus
  PROVE  /\ Restated(p, status) \in ConsensusTaskType
         /\ Restated(p, status).status = status
         /\ Restated(p, status).totalBounty = p.totalBounty
         /\ Restated(p, status).agentCount = p.agentCount
BY DEF Restated, ConsensusTaskType

\* A step that only moves a task to another status writes one entry.
LEMMA StatusPut ==
  ASSUME ConsensusInv, NEW t \in 1 .. TaskCount, NEW status \in ConsensusStatus,
         Consensus!SetStatus(t, status)
  PROVE  Put(consensusTasks, consensusTasks', TaskCount, ConsensusTaskType, t,
             Restated(consensusTasks[t], status))
<1>1. consensusTasks[t] \in ConsensusTaskType
  BY ConsensusTask0
<1>2. Restated(consensusTasks[t], status) \in ConsensusTaskType
  BY <1>1, RestatedTask
<1>3. consensusTasks' = [consensusTasks EXCEPT ![t] = Restated(consensusTasks[t], status)]
  BY DEF Consensus!SetStatus, Restated
<1>. QED BY <1>2, <1>3, ConsensusLists DEF Put

\* cancelConsensusTask.
LEMMA CancelConsensusKeeps ==
  ASSUME ConsensusInv, NEW t \in 1 .. TaskCount, Consensus!CancelConsensusTask(t)
  PROVE  ConsensusInv'
<1>. DEFINE p == Restated(consensusTasks[t], "Cancelled")
<1>1. /\ Consensus!SetStatus(t, "Cancelled")
      /\ consensusTasks[t].status \in {"Open", "BidReveal"}
      /\ UNCHANGED <<consensusNow, taskBidders, bids, submissions, consensusTreasury>>
  BY DEF Consensus!CancelConsensusTask, Consensus!Cancellable
<1>2. consensusBalance' = consensusBalance - consensusTasks[t].totalBounty - Bonded(bids[t])
  <2>1. Consensus!Revealed(t) = Revealing(bids[t])
    BY DEF Consensus!Revealed, Revealing
  <2>2. Consensus!Sum(Consensus!Revealed(t), LAMBDA a : bids[t][a].offer.stake) = Bonded(bids[t])
    BY <2>1, ConsensusSum DEF Consensus!Sum, Bonded
  <2>3. consensusBalance' = consensusBalance - consensusTasks[t].totalBounty
          - Consensus!Sum(Consensus!Revealed(t), LAMBDA a : bids[t][a].offer.stake)
    BY DEF Consensus!CancelConsensusTask
  <2>. QED BY <2>2, <2>3
<1>3. /\ consensusTasks[t] \in ConsensusTaskType /\ bids[t] \in BidRows
      /\ BiddersSound(bids[t], taskBidders[t]) /\ consensusTasks[t].totalBounty \in Nat
      /\ Bonded(bids[t]) \in Nat /\ consensusTreasury \in Nat /\ consensusBalance \in Int
  BY ConsensusTask0, ConsensusLists, BondedNat
<1>4. Put(consensusTasks, consensusTasks', TaskCount, ConsensusTaskType, t, p)
  BY <1>1, StatusPut DEF ConsensusStatus
<1>5. /\ Put(taskBidders, taskBidders, TaskCount, Seq(ConsensusAgents), t, taskBidders[t])
      /\ Put(bids, bids, TaskCount, BidRows, t, bids[t])
      /\ Put(submissions, submissions, TaskCount, Seq(SubmissionType), t, submissions[t])
  BY ConsensusLists, SamePut
<1>6. p.status = "Cancelled"
  BY <1>3, RestatedTask DEF ConsensusStatus
<1>. HIDE DEF p
<1>7. /\ Debt(consensusTasks[t], bids[t], submissions[t])
           = consensusTasks[t].totalBounty + Bonded(bids[t])
      /\ Debt(p, bids[t], submissions[t]) = 0
  BY <1>1, <1>6 DEF Debt
<1>8. ConsensusWrite(t, p, bids[t], taskBidders[t], submissions[t])
  <2>. DEFINE u == consensusBalance'
              w == consensusTreasury'
              x == consensusTasks[t].totalBounty
              y == Bonded(bids[t])
  <2>1. u = consensusBalance - x - y /\ w = consensusTreasury /\ x \in Nat /\ y \in Nat
    BY <1>1, <1>2, <1>3
  <2>. HIDE DEF u, w, x, y
  <2>2. u - w = consensusBalance - consensusTreasury - (x + y) + 0 /\ u \in Int /\ w \in Nat
    BY <1>3, <2>1
  <2>3. u - w = consensusBalance - consensusTreasury
          - Debt(consensusTasks[t], bids[t], submissions[t]) + Debt(p, bids[t], submissions[t])
    BY <1>7, <2>2 DEF x, y
  <2>. QED BY <1>1, <1>3, <1>4, <1>5, <2>2, <2>3 DEF ConsensusWrite, u, w
<1>. QED BY <1>8, OneConsensusTask

\* submitBid.
LEMMA SubmitConsensusKeeps ==
  ASSUME ConsensusInv, NEW t \in 1 .. TaskCount, NEW a \in ConsensusAgents,
         NEW offer \in ConsensusOffers, Consensus!SubmitBid(t, a, offer)
  PROVE  ConsensusInv'
<1>. DEFINE row == bids[t]
            l == taskBidders[t]
            bid == [Consensus!NoBid EXCEPT !.committed = TRUE, !.offer = offer]
            rowNew == [row EXCEPT ![a] = bid]
            lNew == Append(l, a)
            status == IF consensusNow = consensusTasks[t].bidDeadline THEN "BidReveal" ELSE "Open"
            p == Restated(consensusTasks[t], status)
<1>1. /\ consensusTasks[t].status = "Open" /\ ~row[a].committed
      /\ bids' = [bids EXCEPT ![t] = rowNew]
      /\ taskBidders' = [taskBidders EXCEPT ![t] = lNew]
      /\ Consensus!SetStatus(t, status)
      /\ UNCHANGED <<consensusNow, submissions, consensusTreasury, consensusBalance>>
  BY DEF Consensus!SubmitBid
<1>2. /\ consensusTasks[t] \in ConsensusTaskType /\ row \in BidRows /\ l \in Seq(ConsensusAgents)
      /\ BiddersSound(row, l) /\ consensusTasks[t].totalBounty \in Nat
      /\ consensusTreasury \in Nat /\ consensusBalance \in Int
  BY ConsensusTask0, ConsensusLists
<1>3. bid \in BidType /\ bid.committed = TRUE /\ bid.revealed = FALSE
  <2>1. offer \in OfferType
    BY SatelliteAssumption DEF OfferType
  <2>. QED BY <2>1 DEF BidType, OfferType, Consensus!NoBid
<1>4. status \in ConsensusStatus /\ status \in {"Open", "BidReveal"}
  BY DEF ConsensusStatus
<1>. HIDE DEF bid, status
<1>5. rowNew \in BidRows /\ rowNew[a] = bid
      /\ \A x \in ConsensusAgents \ {a} : rowNew[x] = row[x]
  <2>. HIDE DEF row
  <2>. QED BY <1>2, <1>3 DEF BidRows
<1>6. lNew \in Seq(ConsensusAgents)
  BY <1>2
<1>. HIDE DEF rowNew, row
<1>7. BiddersSound(rowNew, lNew)
  <2>1. Distinct(l) /\ Elements(l) = {x \in ConsensusAgents : row[x].committed}
        /\ \A x \in ConsensusAgents : row[x].revealed => row[x].committed
    BY <1>2 DEF BiddersSound
  <2>2. a \notin Elements(l)
    BY <1>1, <2>1 DEF row
  <2>. HIDE DEF l
  <2>3. Distinct(lNew) /\ Elements(lNew) = Elements(l) \cup {a}
    BY <1>2, <2>1, <2>2, AppendedList
  <2>4. Elements(l) \cup {a} = {x \in ConsensusAgents : rowNew[x].committed}
    BY <1>3, <1>5, <2>1
  <2>5. \A x \in ConsensusAgents : rowNew[x].revealed => rowNew[x].committed
    BY <1>3, <1>5, <2>1
  <2>. QED BY <2>3, <2>4, <2>5 DEF BiddersSound
<1>8. Bonded(rowNew) = Bonded(row) /\ Bonded(row) \in Nat
  <2>1. Revealing(rowNew) = Revealing(row)
    <3>1. ~row[a].revealed
      BY <1>1, <1>2 DEF BiddersSound, row
    <3>. QED BY <1>3, <1>5, <3>1 DEF Revealing
  <2>2. a \notin Revealing(row)
    BY <1>1, <1>2 DEF BiddersSound, Revealing, row
  <2>3. \A x \in Revealing(row) : rowNew[x] = row[x]
    BY <1>5, <2>2 DEF Revealing
  <2>4. [x \in Revealing(rowNew) |-> rowNew[x].offer.stake]
          = [x \in Revealing(row) |-> row[x].offer.stake]
    BY <2>1, <2>3
  <2>5. Bonded(rowNew) = Bonded(row)
    BY <2>1, <2>4 DEF Bonded
  <2>. QED BY <1>2, <2>5, BondedNat
<1>9. /\ Put(consensusTasks, consensusTasks', TaskCount, ConsensusTaskType, t, p)
      /\ p.status \in {"Open", "BidReveal"} /\ p.totalBounty = consensusTasks[t].totalBounty
  BY <1>1, <1>2, <1>4, StatusPut, RestatedTask
<1>. HIDE DEF p, lNew, l
<1>10. /\ Put(taskBidders, taskBidders', TaskCount, Seq(ConsensusAgents), t, lNew)
       /\ Put(bids, bids', TaskCount, BidRows, t, rowNew)
       /\ Put(submissions, submissions, TaskCount, Seq(SubmissionType), t, submissions[t])
  BY <1>1, <1>5, <1>6, ConsensusLists, SamePut DEF Put
<1>11. Debt(p, rowNew, submissions[t]) = Debt(consensusTasks[t], bids[t], submissions[t])
       /\ Debt(p, rowNew, submissions[t]) \in Nat
  BY <1>1, <1>2, <1>8, <1>9 DEF Debt, row
<1>12. ConsensusWrite(t, p, rowNew, lNew, submissions[t])
  <2>. DEFINE x == Debt(p, rowNew, submissions[t])
  <2>1. consensusBalance - consensusTreasury = consensusBalance - consensusTreasury - x + x
    <3>. HIDE DEF x
    <3>1. x \in Nat
      BY <1>11 DEF x
    <3>. QED BY <1>2, <3>1
  <2>2. consensusBalance' = consensusBalance /\ consensusTreasury' = consensusTreasury
    BY <1>1
  <2>3. consensusBalance' - consensusTreasury' = consensusBalance - consensusTreasury
          - Debt(consensusTasks[t], bids[t], submissions[t]) + Debt(p, rowNew, submissions[t])
    BY <1>11, <2>1, <2>2
  <2>. QED BY <1>1, <1>2, <1>7, <1>9, <1>10, <2>2, <2>3 DEF ConsensusWrite
<1>. QED BY <1>12, OneConsensusTask

-----------------------------------------------------------------------------
\* The money follows the debt.
Settled(t, p, row, subs, u, w) ==
  /\ u \in Int /\ w \in Nat
  /\ u - w = consensusBalance - consensusTreasury
       - Debt(consensusTasks[t], bids[t], submissions[t]) + Debt(p, row, subs)

\* revealBid.
LEMMA RevealConsensusKeeps ==
  ASSUME ConsensusInv, NEW t \in 1 .. TaskCount, NEW a \in ConsensusAgents,
         Consensus!RevealBid(t, a)
  PROVE  ConsensusInv'
<1>. DEFINE row == bids[t]
            l == taskBidders[t]
            bid == [row[a] EXCEPT !.revealed = TRUE]
            rowNew == [row EXCEPT ![a] = bid]
            p == Restated(consensusTasks[t], "BidReveal")
            stake == row[a].offer.stake
<1>1. /\ consensusTasks[t].status \in {"Open", "BidReveal"}
      /\ row[a].committed /\ ~row[a].revealed
      /\ bids' = [bids EXCEPT ![t][a].revealed = TRUE]
      /\ Consensus!SetStatus(t, "BidReveal")
      /\ consensusBalance' = consensusBalance + stake
      /\ UNCHANGED <<consensusNow, taskBidders, submissions, consensusTreasury>>
  BY DEF Consensus!RevealBid, Consensus!InReveal
<1>2. /\ consensusTasks[t] \in ConsensusTaskType /\ row \in BidRows /\ l \in Seq(ConsensusAgents)
      /\ BiddersSound(row, l) /\ consensusTasks[t].totalBounty \in Nat
      /\ consensusTreasury \in Nat /\ consensusBalance \in Int
  BY ConsensusTask0, ConsensusLists
<1>3. row[a] \in BidType /\ stake \in Nat
  BY <1>2 DEF BidRows, BidType, OfferType
<1>4. bid \in BidType /\ bid.committed = row[a].committed /\ bid.revealed = TRUE
      /\ bid.offer = row[a].offer
  <2>. HIDE DEF row
  <2>. QED BY <1>3 DEF BidType
<1>5. bids' = [bids EXCEPT ![t] = rowNew]
  BY <1>1
<1>. HIDE DEF bid
<1>6. rowNew \in BidRows /\ rowNew[a] = bid
      /\ \A x \in ConsensusAgents \ {a} : rowNew[x] = row[x]
  <2>. HIDE DEF row
  <2>. QED BY <1>2, <1>4 DEF BidRows
<1>. HIDE DEF rowNew, row
<1>7. BiddersSound(rowNew, l)
  <2>1. Distinct(l) /\ Elements(l) = {x \in ConsensusAgents : row[x].committed}
        /\ \A x \in ConsensusAgents : row[x].revealed => row[x].committed
    BY <1>2 DEF BiddersSound
  <2>2. \A x \in ConsensusAgents : rowNew[x].committed = row[x].committed
    BY <1>4, <1>6
  <2>3. \A x \in ConsensusAgents : rowNew[x].revealed => rowNew[x].committed
    BY <1>1, <1>4, <1>6, <2>1
  <2>4. {x \in ConsensusAgents : rowNew[x].committed} = {x \in ConsensusAgents : row[x].committed}
    BY <2>2
  <2>. QED BY <2>1, <2>3, <2>4 DEF BiddersSound
<1>8. Bonded(rowNew) = Bonded(row) + stake /\ Bonded(row) \in Nat
  <2>. DEFINE was == Revealing(row)
              f == BidStakes(row)
              g == BidStakes(rowNew)
  <2>1. Revealing(rowNew) = was \cup {a} /\ a \notin was
    BY <1>1, <1>4, <1>6 DEF Revealing
  <2>2. /\ IsFiniteSet(was) /\ Bonded(row) = SumFunctionOnSet(f, was) /\ Bonded(row) \in Nat
    BY <1>2, BondedNat
  <2>3. Bonded(rowNew) = SumFunctionOnSet(g, Revealing(rowNew))
    BY <1>6, BondedNat
  <2>4. /\ \A x \in was : f[x] \in Nat /\ g[x] = f[x]
        /\ g[a] = stake
    <3>1. \A x \in ConsensusAgents : f[x] = row[x].offer.stake /\ g[x] = rowNew[x].offer.stake
      BY DEF BidStakes
    <3>2. \A x \in ConsensusAgents : row[x].offer.stake \in Nat
      BY <1>2 DEF BidRows, BidType, OfferType
    <3>3. \A x \in was : x \in ConsensusAgents \ {a}
      BY <2>1 DEF Revealing
    <3>. QED BY <1>4, <1>6, <3>1, <3>2, <3>3
  <2>. HIDE DEF was, f, g
  <2>5. EntryAddition(f, g, was, a)
    BY <1>3, <2>1, <2>2, <2>4 DEF EntryAddition
  <2>6. SumFunctionOnSet(g, was \cup {a}) = SumFunctionOnSet(f, was) + g[a]
    BY <2>5, EntryAdd
  <2>. QED BY <2>1, <2>2, <2>3, <2>4, <2>6
<1>9. /\ Put(consensusTasks, consensusTasks', TaskCount, ConsensusTaskType, t, p)
      /\ p.status = "BidReveal" /\ p.totalBounty = consensusTasks[t].totalBounty
  BY <1>1, <1>2, StatusPut, RestatedTask DEF ConsensusStatus
<1>. HIDE DEF p
<1>10. /\ Put(taskBidders, taskBidders, TaskCount, Seq(ConsensusAgents), t, l)
       /\ Put(bids, bids', TaskCount, BidRows, t, rowNew)
       /\ Put(submissions, submissions, TaskCount, Seq(SubmissionType), t, submissions[t])
  BY <1>5, <1>6, ConsensusLists, SamePut DEF Put
<1>. HIDE DEF l
<1>11. /\ Debt(p, rowNew, submissions[t]) = consensusTasks[t].totalBounty + Bonded(rowNew)
       /\ Debt(consensusTasks[t], bids[t], submissions[t])
            = consensusTasks[t].totalBounty + Bonded(row)
  BY <1>1, <1>9 DEF Debt, row
<1>12. Settled(t, p, rowNew, submissions[t], consensusBalance', consensusTreasury')
  <2>. DEFINE u == consensusBalance'
              w == consensusTreasury'
              x == consensusTasks[t].totalBounty
              y == Bonded(row)
  <2>1. u = consensusBalance + stake /\ w = consensusTreasury /\ x \in Nat /\ y \in Nat
    BY <1>1, <1>2, <1>8
  <2>. HIDE DEF u, w, x, y, stake
  <2>2. u - w = consensusBalance - consensusTreasury - (x + y) + (x + (y + stake))
        /\ u \in Int /\ w \in Nat
    BY <1>2, <1>3, <2>1
  <2>3. Debt(p, rowNew, submissions[t]) = x + (y + stake)
        /\ Debt(consensusTasks[t], bids[t], submissions[t]) = x + y
    BY <1>8, <1>11 DEF x, y
  <2>4. Settled(t, p, rowNew, submissions[t], u, w)
    BY <2>2, <2>3 DEF Settled
  <2>. QED BY <2>4 DEF u, w
<1>13. ConsensusWrite(t, p, rowNew, l, submissions[t])
  BY <1>1, <1>2, <1>7, <1>9, <1>10, <1>12 DEF ConsensusWrite, Settled
<1>. QED BY <1>13, OneConsensusTask

\* resolveAuction: who is not selected is refunded, once.
LEMMA ResolveConsensusKeeps ==
  ASSUME ConsensusInv, NEW t \in 1 .. TaskCount, Consensus!ResolveAuction(t)
  PROVE  ConsensusInv'
<1>. DEFINE row == bids[t]
            c == consensusTasks[t].agentCount
            selection == Consensus!Selection(t)
            r == selection.ranking
            subs == [i \in 1 .. c |->
                       LET a == r[i].agent
                       IN [agent |-> a,
                           offer |-> IF a = NoAgent THEN Consensus!NoBid.offer ELSE row[a].offer,
                           outputHash |-> {}, paid |-> FALSE]]
            p == Restated(consensusTasks[t], "Executing")
<1>1. /\ consensusTasks[t].status \in {"Open", "BidReveal"}
      /\ submissions' = [submissions EXCEPT ![t] = subs]
      /\ Consensus!SetStatus(t, "Executing")
      /\ consensusBalance' = consensusBalance - selection.repaid
      /\ UNCHANGED <<consensusNow, taskBidders, bids, consensusTreasury>>
  BY DEF Consensus!ResolveAuction
<1>2. /\ consensusTasks[t] \in ConsensusTaskType /\ row \in BidRows
      /\ taskBidders[t] \in Seq(ConsensusAgents)
      /\ BiddersSound(row, taskBidders[t]) /\ consensusTasks[t].totalBounty \in Nat
      /\ c \in 2 .. 5 /\ c \in Nat \ {0}
      /\ consensusTreasury \in Nat /\ consensusBalance \in Int
  BY ConsensusTask0, ConsensusLists
<1>3. /\ selection \in PickedType(t) /\ Len(r) = c
      /\ selection.repaid + Held(row, r, c) = SumFunctionOnSet(BidStakes(row), Revealing(row))
  BY <1>2, SelectionSound
<1>4. r \in Seq(Places(t)) /\ selection.repaid \in Nat
  <2>. HIDE DEF selection
  <2>. QED BY <1>3 DEF PickedType
<1>. HIDE DEF selection
<1>5. \A i \in 1 .. c : /\ r[i].agent \in ConsensusAgents \cup {NoAgent}
                        /\ StakeAt(row, r[i].agent) \in Nat
  <2>. HIDE DEF r, c, row
  <2>. QED BY <1>2, <1>3, <1>4, RankedStakes
<1>6. \A i \in 1 .. c : subs[i] \in SubmissionType /\ subs[i].offer.stake = StakeAt(row, r[i].agent)
  <2>1. ASSUME NEW i \in 1 .. c
        PROVE  subs[i] \in SubmissionType /\ subs[i].offer.stake = StakeAt(row, r[i].agent)
    <3>. DEFINE a == r[i].agent
                offer == IF a = NoAgent THEN Consensus!NoBid.offer ELSE row[a].offer
    <3>1. subs[i] = [agent |-> a, offer |-> offer, outputHash |-> {}, paid |-> FALSE]
      OBVIOUS
    <3>2. a \in ConsensusAgents \cup {NoAgent}
      BY <1>5
    <3>. HIDE DEF subs, a
    <3>3. offer \in OfferType /\ offer.stake = StakeAt(row, a)
      <4>1. Consensus!NoBid.offer = [stake |-> 0, price |-> 0]
        BY DEF Consensus!NoBid
      <4>2. a # NoAgent => row[a].offer \in OfferType
        BY <1>2, <3>2 DEF BidRows, BidType
      <4>. QED BY <4>1, <4>2 DEF OfferType, StakeAt
    <3>. HIDE DEF offer
    <3>. QED BY <3>1, <3>2, <3>3 DEF SubmissionType, a
  <2>. QED BY <2>1
<1>7. subs \in Seq(SubmissionType) /\ DOMAIN subs = 1 .. c
  <2>1. DOMAIN subs = 1 .. c /\ subs = [i \in 1 .. c |-> subs[i]]
    OBVIOUS
  <2>. HIDE DEF subs, c
  <2>2. subs \in [1 .. c -> SubmissionType]
    BY <1>6, <2>1
  <2>. QED BY <1>2, <2>1, <2>2
<1>. HIDE DEF subs
<1>8. Submitted(subs) = Held(row, r, c) /\ Submitted(subs) \in Nat
  <2>1. [i \in DOMAIN subs |-> subs[i].offer.stake] = Ranked(row, r, c)
    BY <1>6, <1>7 DEF Ranked
  <2>2. Submitted(subs) = Held(row, r, c)
    BY <1>7, <2>1 DEF Submitted, Held
  <2>. QED BY <1>7, <2>2, SubmittedNat
<1>9. Bonded(row) = SumFunctionOnSet(BidStakes(row), Revealing(row)) /\ Bonded(row) \in Nat
  BY <1>2, BondedNat
<1>10. /\ Put(consensusTasks, consensusTasks', TaskCount, ConsensusTaskType, t, p)
       /\ p.status = "Executing" /\ p.totalBounty = consensusTasks[t].totalBounty
  BY <1>1, <1>2, StatusPut, RestatedTask DEF ConsensusStatus
<1>. HIDE DEF p
<1>11. /\ Put(taskBidders, taskBidders, TaskCount, Seq(ConsensusAgents), t, taskBidders[t])
       /\ Put(bids, bids, TaskCount, BidRows, t, row)
       /\ Put(submissions, submissions', TaskCount, Seq(SubmissionType), t, subs)
  BY <1>1, <1>7, ConsensusLists, SamePut DEF Put
<1>12. /\ Debt(p, row, subs) = consensusTasks[t].totalBounty + Submitted(subs)
       /\ Debt(consensusTasks[t], bids[t], submissions[t])
            = consensusTasks[t].totalBounty + Bonded(row)
  BY <1>1, <1>10 DEF Debt
<1>13. Settled(t, p, row, subs, consensusBalance', consensusTreasury')
  <2>. DEFINE u == consensusBalance'
              w == consensusTreasury'
              x == consensusTasks[t].totalBounty
              y == Bonded(row)
              z == Submitted(subs)
              repaid == selection.repaid
  <2>1. u = consensusBalance - repaid /\ w = consensusTreasury /\ x \in Nat /\ y \in Nat
        /\ z \in Nat /\ repaid \in Nat /\ repaid + z = y
    BY <1>1, <1>2, <1>3, <1>4, <1>8, <1>9
  <2>. HIDE DEF u, w, x, y, z, repaid
  <2>2. u - w = consensusBalance - consensusTreasury - (x + y) + (x + z)
        /\ u \in Int /\ w \in Nat
    BY <1>2, <2>1
  <2>3. Debt(p, row, subs) = x + z
        /\ Debt(consensusTasks[t], bids[t], submissions[t]) = x + y
    BY <1>12 DEF x, y, z
  <2>4. Settled(t, p, row, subs, u, w)
    BY <2>2, <2>3 DEF Settled
  <2>. QED BY <2>4 DEF u, w
<1>14. ConsensusWrite(t, p, row, taskBidders[t], subs)
  BY <1>1, <1>2, <1>10, <1>11, <1>13 DEF ConsensusWrite, Settled
<1>. QED BY <1>14, OneConsensusTask

-----------------------------------------------------------------------------
\* Only the task and its submissions change.
LEMMA SubmissionsKeep ==
  ASSUME ConsensusInv, NEW t \in 1 .. TaskCount, NEW p, NEW subs \in Seq(SubmissionType),
         Put(consensusTasks, consensusTasks', TaskCount, ConsensusTaskType, t, p),
         submissions' = [submissions EXCEPT ![t] = subs],
         UNCHANGED <<consensusNow, taskBidders, bids>>,
         Settled(t, p, bids[t], subs, consensusBalance', consensusTreasury')
  PROVE  ConsensusInv'
<1>1. BiddersSound(bids[t], taskBidders[t])
  BY ConsensusTask0
<1>2. /\ Put(taskBidders, taskBidders, TaskCount, Seq(ConsensusAgents), t, taskBidders[t])
      /\ Put(bids, bids, TaskCount, BidRows, t, bids[t])
  BY ConsensusLists, SamePut
<1>3. Put(submissions, submissions', TaskCount, Seq(SubmissionType), t, subs)
  BY ConsensusLists DEF Put
<1>4. ConsensusWrite(t, p, bids[t], taskBidders[t], subs)
  BY <1>1, <1>2, <1>3 DEF ConsensusWrite, Settled
<1>. QED BY <1>4, OneConsensusTask

\* The debt and the money stay.
LEMMA SameDebt ==
  ASSUME ConsensusInv, NEW t \in 1 .. TaskCount, NEW p, NEW subs,
         Debt(p, bids[t], subs) = Debt(consensusTasks[t], bids[t], submissions[t]),
         UNCHANGED <<consensusBalance, consensusTreasury>>
  PROVE  Settled(t, p, bids[t], subs, consensusBalance', consensusTreasury')
<1>. DEFINE x == Debt(p, bids[t], subs)
<1>1. x \in Nat
  BY ConsensusTask0, DebtNat
<1>2. consensusBalance \in Int /\ consensusTreasury \in Nat
  BY ConsensusLists
<1>. HIDE DEF x
<1>3. consensusBalance - consensusTreasury = consensusBalance - consensusTreasury - x + x
  BY <1>1, <1>2
<1>4. Settled(t, p, bids[t], subs, consensusBalance, consensusTreasury)
  BY <1>2, <1>3 DEF Settled, x
<1>. QED BY <1>4

\* deliverOutput.
LEMMA DeliverConsensusKeeps ==
  ASSUME ConsensusInv, NEW t \in 1 .. TaskCount, NEW i \in DOMAIN submissions[t],
         NEW hash \in Outputs, Consensus!DeliverOutput(t, i, hash)
  PROVE  ConsensusInv'
<1>. DEFINE subs == submissions[t]
            s == [subs[i] EXCEPT !.outputHash = {hash}]
            subsNew == [subs EXCEPT ![i] = s]
            status == IF Consensus!Cardinality(Consensus!Delivered(t)) + 1
                           = consensusTasks[t].agentCount
                      THEN "Delivered" ELSE "Executing"
            p == Restated(consensusTasks[t], status)
<1>1. /\ consensusTasks[t].status = "Executing"
      /\ submissions' = [submissions EXCEPT ![t] = subsNew]
      /\ Consensus!SetStatus(t, status)
      /\ UNCHANGED <<consensusNow, taskBidders, bids, consensusTreasury, consensusBalance>>
  BY DEF Consensus!DeliverOutput
<1>2. /\ consensusTasks[t] \in ConsensusTaskType /\ subs \in Seq(SubmissionType)
      /\ bids[t] \in BidRows
  BY ConsensusTask0
<1>3. status \in ConsensusStatus /\ status \in {"Executing", "Delivered", "NoConsensus"}
  BY DEF ConsensusStatus
<1>. HIDE DEF status
<1>4. i \in 1 .. Len(subs) /\ DOMAIN subs = 1 .. Len(subs) /\ subs[i] \in SubmissionType
  BY <1>2, SubmittedNat
<1>5. s \in SubmissionType /\ s.offer = subs[i].offer
  <2>. HIDE DEF subs
  <2>. QED BY <1>4 DEF SubmissionType
<1>. HIDE DEF s
<1>6. subsNew \in Seq(SubmissionType) /\ DOMAIN subsNew = DOMAIN subs
      /\ \A j \in DOMAIN subs : subsNew[j] = IF j = i THEN s ELSE subs[j]
  <2>1. /\ subsNew \in Seq(SubmissionType)
        /\ \A j \in 1 .. Len(subs) : subsNew[j] = IF j = i THEN s ELSE subs[j]
    <3>. HIDE DEF subs
    <3>. QED BY <1>2, <1>4, <1>5, ExceptSeq
  <2>. QED BY <1>4, <2>1
<1>. HIDE DEF subsNew
<1>7. Submitted(subsNew) = Submitted(subs)
  <2>1. [j \in DOMAIN subsNew |-> subsNew[j].offer.stake]
          = [j \in DOMAIN subs |-> subs[j].offer.stake]
    BY <1>5, <1>6
  <2>. QED BY <1>6, <2>1 DEF Submitted
<1>8. /\ Put(consensusTasks, consensusTasks', TaskCount, ConsensusTaskType, t, p)
      /\ p.status = status /\ p.totalBounty = consensusTasks[t].totalBounty
  BY <1>1, <1>2, <1>3, StatusPut, RestatedTask
<1>. HIDE DEF p
<1>9. Debt(p, bids[t], subsNew) = Debt(consensusTasks[t], bids[t], submissions[t])
  BY <1>1, <1>3, <1>7, <1>8 DEF Debt, subs
<1>10. Settled(t, p, bids[t], subsNew, consensusBalance', consensusTreasury')
  BY <1>1, <1>9, SameDebt
<1>. QED BY <1>1, <1>6, <1>8, <1>10, SubmissionsKeep

\* A sum over a part of a set on which the entries are integers.
LEMMA SumOnPart ==
  ASSUME NEW D, IsFiniteSet(D), NEW A \in SUBSET D, NEW f, NEW g, \A x \in D : f[x] \in Int,
         \A x \in A : g[x] = f[x]
  PROVE  SumFunctionOnSet(g, A) = SumFunctionOnSet(f, A) /\ SumFunctionOnSet(f, A) \in Int
<1>1. IsFiniteSet(A) /\ \A x \in A : f[x] \in Int
  BY FS_Subset
<1>. QED BY <1>1, SumSame, SumInt

\* A share of an amount is an amount.
LEMMA ShareNat ==
  ASSUME NEW x \in Nat, NEW bps \in Nat
  PROVE  Consensus!Share(x, bps) \in Nat
<1>1. x * bps \in Nat
  OBVIOUS
<1>. QED BY <1>1 DEF Consensus!Share, Consensus!BPS

\* A consensus: the majority is paid, the others are slashed, the poster gets the
\* rest.
LEMMA SettleKeeps ==
  ASSUME ConsensusInv, NEW t \in 1 .. TaskCount, NEW hash,
         consensusTasks[t].status = "Delivered", Consensus!SettleWithConsensus(t, hash)
  PROVE  ConsensusInv'
<1>. DEFINE subs == submissions[t]
            D == DOMAIN subs
            M == Consensus!Matching(t, hash)
            N == D \ M
            bounty == consensusTasks[t].totalBounty
            price == [i \in D |-> subs[i].offer.price]
            stake == [i \in D |-> subs[i].offer.stake]
            fee == [i \in D |-> Consensus!Share(subs[i].offer.price, Consensus!ProtocolFeeBps)]
            slash == [i \in D |-> Consensus!Share(subs[i].offer.stake, Consensus!SlashMinorBps)]
            cut == [i \in D |-> Consensus!Share(
                      Consensus!Share(subs[i].offer.stake, Consensus!SlashMinorBps),
                      Consensus!SlashRevenueBps)]
            net == [i \in D |-> slash[i] - cut[i]]
            rest == [i \in D |-> stake[i] - slash[i]]
            subsNew == [i \in D |-> [subs[i] EXCEPT !.paid = TRUE]]
            p == Restated(consensusTasks[t], "Consensus")
<1>1. /\ submissions' = [submissions EXCEPT ![t] = subsNew]
      /\ Consensus!SetStatus(t, "Consensus")
      /\ UNCHANGED <<consensusNow, taskBidders, bids>>
  BY DEF Consensus!SettleWithConsensus
<1>2. /\ consensusTasks[t] \in ConsensusTaskType /\ subs \in Seq(SubmissionType)
      /\ bids[t] \in BidRows /\ bounty \in Nat
      /\ consensusTreasury \in Nat /\ consensusBalance \in Int
  BY ConsensusTask0, ConsensusLists
<1>3. /\ IsFiniteSet(D) /\ D = 1 .. Len(subs) /\ Len(subs) \in Nat
      /\ \A i \in D : subs[i] \in SubmissionType /\ subs[i].offer.stake \in Nat
                      /\ subs[i].offer.price \in Nat
      /\ Submitted(subs) \in Nat
  BY <1>2, SubmittedNat, LenProperties
<1>4. M \subseteq D /\ N \subseteq D
  BY DEF Consensus!Matching
<1>5. /\ \A i \in D : price[i] \in Nat /\ stake[i] \in Nat
      /\ \A i \in D : fee[i] \in Nat /\ slash[i] \in Nat /\ cut[i] \in Nat
  <2>1. /\ Consensus!ProtocolFeeBps \in Nat /\ Consensus!SlashMinorBps \in Nat
        /\ Consensus!SlashRevenueBps \in Nat
    BY DEF Consensus!ProtocolFeeBps, Consensus!SlashMinorBps, Consensus!SlashRevenueBps
  <2>2. ASSUME NEW i \in D
        PROVE  /\ price[i] \in Nat /\ stake[i] \in Nat
               /\ fee[i] \in Nat /\ slash[i] \in Nat /\ cut[i] \in Nat
    <3>. DEFINE offer == subs[i].offer
    <3>1. offer.stake \in Nat /\ offer.price \in Nat
      BY <1>3
    <3>2. /\ price[i] = offer.price /\ stake[i] = offer.stake
          /\ fee[i] = Consensus!Share(offer.price, Consensus!ProtocolFeeBps)
          /\ slash[i] = Consensus!Share(offer.stake, Consensus!SlashMinorBps)
          /\ cut[i] = Consensus!Share(slash[i], Consensus!SlashRevenueBps)
      OBVIOUS
    <3>. HIDE DEF price, stake, fee, slash, cut, offer
    <3>3. fee[i] \in Nat /\ slash[i] \in Nat
      BY <2>1, <3>1, <3>2, ShareNat
    <3>4. cut[i] \in Nat
      BY <2>1, <3>2, <3>3, ShareNat
    <3>. QED BY <3>1, <3>2, <3>3, <3>4
  <2>. HIDE DEF price, stake, fee, slash, cut, D
  <2>. QED BY <2>2
<1>13. /\ \A i \in D : price[i] \in Int /\ stake[i] \in Int
       /\ \A i \in D : fee[i] \in Int /\ slash[i] \in Int /\ cut[i] \in Int
       /\ \A i \in D : net[i] \in Int /\ rest[i] \in Int
  <2>1. \A i \in D : net[i] = slash[i] - cut[i] /\ rest[i] = stake[i] - slash[i]
    OBVIOUS
  <2>. HIDE DEF price, stake, fee, slash, cut, net, rest, D
  <2>2. /\ \A i \in D : price[i] \in Int /\ stake[i] \in Int
        /\ \A i \in D : fee[i] \in Int /\ slash[i] \in Int /\ cut[i] \in Int
    BY <1>5
  <2>3. ASSUME NEW i \in D PROVE net[i] \in Int /\ rest[i] \in Int
    <3>1. slash[i] \in Int /\ cut[i] \in Int /\ stake[i] \in Int
      BY <2>2
    <3>2. net[i] = slash[i] - cut[i] /\ rest[i] = stake[i] - slash[i]
      BY <2>1
    <3>. QED BY <3>1, <3>2
  <2>. QED BY <2>2, <2>3
<1>. DEFINE totalPaid == SumFunctionOnSet(price, M)
            fees == SumFunctionOnSet(fee, M)
            kept == SumFunctionOnSet(stake, M)
            back == SumFunctionOnSet(rest, N)
            gain == SumFunctionOnSet(net, N)
            cuts == SumFunctionOnSet(cut, N)
<1>6. /\ consensusTreasury' = consensusTreasury + fees + cuts
      /\ consensusBalance' = consensusBalance - (bounty - totalPaid + gain) - (totalPaid - fees)
                               - kept - back
  <2>. DEFINE On(A, f) == Consensus!SumFunctionOnSet([i \in A |-> f[i]], A)
  <2>1. \A A, f : On(A, f) = SumFunctionOnSet([i \in A |-> f[i]], A)
    BY ConsensusSum
  <2>2. /\ consensusTreasury' = consensusTreasury + On(M, fee) + On(N, cut)
        /\ consensusBalance' = consensusBalance - (bounty - On(M, price) + On(N, net))
             - (On(M, price) - On(M, fee)) - On(M, stake) - On(N, rest)
    <3>1. /\ [i \in M |-> fee[i]] = [i \in M |->
                Consensus!Share(submissions[t][i].offer.price, Consensus!ProtocolFeeBps)]
          /\ [i \in M |-> price[i]] = [i \in M |-> submissions[t][i].offer.price]
          /\ [i \in M |-> stake[i]] = [i \in M |-> submissions[t][i].offer.stake]
      BY <1>4
    <3>2. /\ [i \in N |-> cut[i]] = [i \in N |-> Consensus!Share(
                Consensus!Share(submissions[t][i].offer.stake, Consensus!SlashMinorBps),
                Consensus!SlashRevenueBps)]
          /\ [i \in N |-> net[i]] = [i \in N |->
                Consensus!Share(submissions[t][i].offer.stake, Consensus!SlashMinorBps)
                - Consensus!Share(
                    Consensus!Share(submissions[t][i].offer.stake, Consensus!SlashMinorBps),
                    Consensus!SlashRevenueBps)]
          /\ [i \in N |-> rest[i]] = [i \in N |-> submissions[t][i].offer.stake
                - Consensus!Share(submissions[t][i].offer.stake, Consensus!SlashMinorBps)]
      BY <1>4
    <3>. QED BY <3>1, <3>2 DEF Consensus!SettleWithConsensus, Consensus!Sum
  <2>. HIDE DEF On, price, stake, fee, slash, cut, net, rest, D, M, N
  <2>4. ASSUME NEW A \in SUBSET D, NEW f, \A i \in D : f[i] \in Int
        PROVE  On(A, f) = SumFunctionOnSet(f, A)
    <3>. DEFINE g == [i \in A |-> f[i]]
    <3>1. \A i \in A : g[i] = f[i]
      OBVIOUS
    <3>2. On(A, f) = SumFunctionOnSet(g, A)
      BY <2>1
    <3>. HIDE DEF g
    <3>. QED BY <1>3, <2>4, <3>1, <3>2, SumOnPart
  <2>5. On(M, fee) = fees /\ On(M, price) = totalPaid /\ On(M, stake) = kept
    <3>. QED BY <1>4, <1>13, <2>4
  <2>6. On(N, cut) = cuts /\ On(N, net) = gain /\ On(N, rest) = back
    <3>. QED BY <1>4, <1>13, <2>4
  <2>. QED BY <2>2, <2>5, <2>6
<1>. DEFINE slashed == SumFunctionOnSet(slash, N)
            lost == SumFunctionOnSet(stake, N)
<1>7. /\ slashed = gain + cuts /\ lost = back + slashed
      /\ gain \in Int /\ cuts \in Nat /\ back \in Int /\ slashed \in Int /\ lost \in Int
  <2>1. IsFiniteSet(N)
    BY <1>3, <1>4, FS_Subset
  <2>9. \A i \in D : net[i] = slash[i] - cut[i] /\ rest[i] = stake[i] - slash[i]
    OBVIOUS
  <2>. HIDE DEF price, stake, fee, slash, cut, net, rest, D, M, N
  <2>2. \A i \in N : cut[i] \in Nat /\ slash[i] \in Int /\ stake[i] \in Int
    BY <1>4, <1>5, <1>13
  <2>10. ASSUME NEW i \in N
         PROVE  /\ net[i] \in Int /\ cut[i] \in Int /\ slash[i] = net[i] + cut[i]
                /\ rest[i] \in Int /\ slash[i] \in Int /\ stake[i] = rest[i] + slash[i]
    <3>1. net[i] = slash[i] - cut[i] /\ rest[i] = stake[i] - slash[i]
      BY <1>4, <2>9
    <3>2. slash[i] \in Int /\ cut[i] \in Int /\ stake[i] \in Int
      BY <1>4, <1>13
    <3>. QED BY <3>1, <3>2
  <2>3. \A i \in N : net[i] \in Int /\ cut[i] \in Int /\ slash[i] = net[i] + cut[i]
    BY <2>10
  <2>4. \A i \in N : rest[i] \in Int /\ slash[i] \in Int /\ stake[i] = rest[i] + slash[i]
    BY <2>10
  <2>5. slashed = gain + cuts
    BY <2>1, <2>3, SumPlus
  <2>6. lost = back + slashed
    BY <2>1, <2>4, SumPlus
  <2>7. gain \in Int /\ back \in Int /\ slashed \in Int /\ lost \in Int
    BY <2>1, <2>2, <2>3, <2>4, SumInt
  <2>8. cuts \in Nat
    BY <2>1, <2>2, SumNat
  <2>. QED BY <2>5, <2>6, <2>7, <2>8
<1>8. /\ Submitted(subs) = kept + lost /\ kept \in Int /\ totalPaid \in Int /\ fees \in Nat
  <2>1. IsFiniteSet(M)
    BY <1>3, <1>4, FS_Subset
  <2>4. Submitted(subs) = SumFunctionOnSet(stake, D)
    BY DEF Submitted
  <2>. HIDE DEF price, stake, fee, slash, cut, net, rest, D, M
  <2>2. \A i \in M : fee[i] \in Nat /\ price[i] \in Int /\ stake[i] \in Int
    BY <1>4, <1>5, <1>13
  <2>3. \A i \in D : stake[i] \in Int
    BY <1>13
  <2>5. SumFunctionOnSet(stake, D)
          = SumFunctionOnSet(stake, M) + SumFunctionOnSet(stake, D \ M)
    BY <1>3, <1>4, <2>3, SumSplit
  <2>6. kept \in Int /\ totalPaid \in Int
    BY <2>1, <2>2, SumInt
  <2>7. fees \in Nat
    BY <2>1, <2>2, SumNat
  <2>. QED BY <2>4, <2>5, <2>6, <2>7
<1>9. subsNew \in Seq(SubmissionType)
  <2>1. \A i \in D : [subs[i] EXCEPT !.paid = TRUE] \in SubmissionType
    <3>. HIDE DEF subs, D
    <3>1. \A s \in SubmissionType : [s EXCEPT !.paid = TRUE] \in SubmissionType
      BY DEF SubmissionType
    <3>. QED BY <1>3, <3>1
  <2>2. subsNew \in [D -> SubmissionType]
    BY <2>1
  <2>. HIDE DEF subsNew, D
  <2>. QED BY <1>3, <2>2
<1>10. /\ Put(consensusTasks, consensusTasks', TaskCount, ConsensusTaskType, t, p)
       /\ p.status = "Consensus"
  BY <1>1, <1>2, StatusPut, RestatedTask DEF ConsensusStatus
<1>11. /\ Debt(p, bids[t], subsNew) = 0
       /\ Debt(consensusTasks[t], bids[t], submissions[t]) = bounty + Submitted(subs)
  <2>. HIDE DEF p, subsNew
  <2>. QED BY <1>10 DEF Debt
<1>12. Settled(t, p, bids[t], subsNew, consensusBalance', consensusTreasury')
  <2>. DEFINE u == consensusBalance'
              w == consensusTreasury'
              held == Submitted(subs)
  <2>1. /\ w = consensusTreasury + fees + cuts
        /\ u = consensusBalance - (bounty - totalPaid + gain) - (totalPaid - fees) - kept - back
        /\ held = kept + lost
    BY <1>6, <1>8
  <2>2. Debt(p, bids[t], subsNew) = 0
        /\ Debt(consensusTasks[t], bids[t], submissions[t]) = bounty + held
    BY <1>11
  <2>. HIDE DEF u, w, held, bounty, totalPaid, fees, kept, back, gain, cuts, slashed, lost, p, subsNew
  <2>6. w \in Nat
    <3>1. consensusTreasury \in Nat /\ fees \in Nat /\ cuts \in Nat
      BY <1>2, <1>7, <1>8
    <3>2. w = consensusTreasury + fees + cuts
      BY <2>1
    <3>. QED BY <3>1, <3>2
  <2>7. /\ bounty \in Int /\ totalPaid \in Int /\ gain \in Int /\ fees \in Int /\ kept \in Int
        /\ back \in Int /\ consensusBalance \in Int
    BY <1>2, <1>7, <1>8
  <2>8. u \in Int
    BY <2>1, <2>7
  <2>3. u \in Int /\ w \in Nat
    BY <2>6, <2>8
  <2>4. u - w = consensusBalance - consensusTreasury - (bounty + held) + 0
    BY <1>2, <1>7, <1>8, <2>1
  <2>5. Settled(t, p, bids[t], subsNew, u, w)
    BY <2>2, <2>3, <2>4 DEF Settled
  <2>. QED BY <2>5 DEF u, w
<1>. HIDE DEF p, subsNew
<1>. QED BY <1>1, <1>9, <1>10, <1>12, SubmissionsKeep

\* finalizeConsensus, with a majority or without.
LEMMA FinalizeConsensusKeeps ==
  ASSUME ConsensusInv, NEW t \in 1 .. TaskCount, Consensus!FinalizeConsensus(t)
  PROVE  ConsensusInv'
<1>1. CASE \E hash : Consensus!SettleWithConsensus(t, hash)
  BY <1>1, SettleKeeps DEF Consensus!FinalizeConsensus
<1>2. CASE ~\E hash : Consensus!SettleWithConsensus(t, hash)
  <2>. DEFINE p == Restated(consensusTasks[t], "NoConsensus")
  <2>1. /\ consensusTasks[t].status = "Delivered" /\ Consensus!SetStatus(t, "NoConsensus")
        /\ UNCHANGED <<consensusNow, taskBidders, bids, submissions, consensusTreasury,
                       consensusBalance>>
    BY <1>2 DEF Consensus!FinalizeConsensus
  <2>2. /\ consensusTasks[t] \in ConsensusTaskType /\ submissions[t] \in Seq(SubmissionType)
    BY ConsensusTask0
  <2>3. /\ Put(consensusTasks, consensusTasks', TaskCount, ConsensusTaskType, t, p)
        /\ p.status = "NoConsensus" /\ p.totalBounty = consensusTasks[t].totalBounty
    BY <2>1, <2>2, StatusPut, RestatedTask DEF ConsensusStatus
  <2>. HIDE DEF p
  <2>4. Debt(p, bids[t], submissions[t]) = Debt(consensusTasks[t], bids[t], submissions[t])
    BY <2>1, <2>3 DEF Debt
  <2>5. Settled(t, p, bids[t], submissions[t], consensusBalance', consensusTreasury')
    BY <2>1, <2>4, SameDebt
  <2>6. submissions' = [submissions EXCEPT ![t] = submissions[t]]
    BY <2>1, ConsensusLists, SameListed
  <2>. QED BY <2>1, <2>2, <2>3, <2>5, <2>6, SubmissionsKeep
<1>. QED BY <1>1, <1>2

\* createConsensusTask.
LEMMA CreateConsensusKeeps ==
  ASSUME ConsensusInv, NEW terms \in ConsensusTerms, Consensus!CreateConsensusTask(terms)
  PROVE  ConsensusInv'
<1>. DEFINE n == TaskCount
            ids == 1 .. n
            id == n + 1
            p == [totalBounty |-> terms.totalBounty, agentCount |-> terms.agentCount,
                  deadline |-> terms.deadline, bidDeadline |-> consensusNow + terms.bidDuration,
                  revealDeadline |-> consensusNow + terms.bidDuration + terms.revealDuration,
                  status |-> "Open"]
            row == [a \in ConsensusAgents |-> Consensus!NoBid]
            bounty == terms.totalBounty
<1>1. /\ terms.agentCount \in 2 .. 5
      /\ consensusTasks' = Append(consensusTasks, p)
      /\ taskBidders' = Append(taskBidders, <<>>)
      /\ bids' = Append(bids, row)
      /\ submissions' = Append(submissions, <<>>)
      /\ consensusBalance' = consensusBalance + bounty
      /\ UNCHANGED <<consensusNow, consensusTreasury>>
  BY DEF Consensus!CreateConsensusTask, Consensus!AgentCounts
<1>2. /\ bounty \in Nat /\ terms.deadline \in Nat /\ terms.bidDuration \in Nat
      /\ terms.revealDuration \in Nat /\ n \in Nat /\ consensusNow \in Nat
      /\ consensusTreasury \in Nat /\ consensusBalance \in Int
  <2>1. terms \in [totalBounty : Nat, agentCount : Nat, deadline : Nat, bidDuration : Nat,
                   revealDuration : Nat]
    BY SatelliteAssumption
  <2>. QED BY <2>1, ConsensusLists DEF ConsensusInv, ConsensusTypes
<1>3. p \in ConsensusTaskType /\ p.status = "Open" /\ p.totalBounty = bounty
  <2>. DEFINE agentCount == terms.agentCount
              deadline == terms.deadline
              until == consensusNow + terms.bidDuration
              last == consensusNow + terms.bidDuration + terms.revealDuration
  <2>3. /\ bounty \in Nat /\ agentCount \in 2 .. 5 /\ deadline \in Nat
    BY <1>1, <1>2
  <2>4. until \in Nat /\ last \in Nat
    BY <1>2
  <2>1. /\ bounty \in Nat /\ agentCount \in 2 .. 5 /\ deadline \in Nat /\ until \in Nat
        /\ last \in Nat
    BY <2>3, <2>4
  <2>2. p = [totalBounty |-> bounty, agentCount |-> agentCount, deadline |-> deadline,
             bidDeadline |-> until, revealDeadline |-> last, status |-> "Open"]
    OBVIOUS
  <2>. HIDE DEF p, bounty, agentCount, deadline, until, last
  <2>. QED BY <2>1, <2>2 DEF ConsensusTaskType, ConsensusStatus
<1>4. row \in BidRows /\ \A a \in ConsensusAgents : ~row[a].revealed /\ ~row[a].committed
  BY DEF BidRows, BidType, OfferType, Consensus!NoBid
<1>5. <<>> \in Seq(ConsensusAgents) /\ <<>> \in Seq(SubmissionType)
  OBVIOUS
<1>. HIDE DEF p, row
<1>6. BiddersSound(row, <<>>)
  BY <1>4 DEF BiddersSound, Distinct, Elements
<1>7. /\ Added(consensusTasks, consensusTasks', n, ConsensusTaskType, p)
      /\ Added(taskBidders, taskBidders', n, Seq(ConsensusAgents), <<>>)
      /\ Added(bids, bids', n, BidRows, row)
      /\ Added(submissions, submissions', n, Seq(SubmissionType), <<>>)
  BY <1>1, <1>3, <1>4, <1>5, ConsensusLists DEF Added
<1>. HIDE DEF n
<1>8. /\ Listed(consensusTasks', n + 1, ConsensusTaskType) /\ consensusTasks'[n + 1] = p
      /\ \A i \in 1 .. n : consensusTasks'[i] = consensusTasks[i]
  BY <1>7, AddListed
<1>9. /\ Listed(taskBidders', n + 1, Seq(ConsensusAgents)) /\ taskBidders'[n + 1] = <<>>
      /\ \A i \in 1 .. n : taskBidders'[i] = taskBidders[i]
  BY <1>7, AddListed
<1>10. /\ Listed(bids', n + 1, BidRows) /\ bids'[n + 1] = row
       /\ \A i \in 1 .. n : bids'[i] = bids[i]
  BY <1>7, AddListed
<1>11. /\ Listed(submissions', n + 1, Seq(SubmissionType)) /\ submissions'[n + 1] = <<>>
       /\ \A i \in 1 .. n : submissions'[i] = submissions[i]
  BY <1>7, AddListed
<1>12. TaskCount' = n + 1 /\ Len(consensusTasks') = n + 1 /\ Len(consensusTasks) = n
  BY <1>8 DEF TaskCount, Listed, n
<1>13. 1 .. n + 1 = ids \cup {id} /\ IsFiniteSet(ids) /\ id \notin ids
  <2>1. IsFiniteSet(1 .. n)
    BY <1>2, FS_Interval
  <2>2. n + 1 \notin 1 .. n
    BY <1>2
  <2>3. \A i : i \in 1 .. n + 1 <=> i \in 1 .. n \/ i = n + 1
    BY <1>2
  <2>. QED BY <2>1, <2>2, <2>3
<1>14. ConsensusTypes'
  BY <1>1, <1>2, <1>8, <1>9, <1>10, <1>11, <1>12 DEF ConsensusTypes
<1>15. \A i \in 1 .. n + 1 : BiddersSound(bids'[i], taskBidders'[i])
  BY <1>6, <1>9, <1>10, <1>13 DEF ConsensusInv, n, ids, id
<1>. DEFINE f == Debts(consensusTasks, bids, submissions)
            g == Debts(consensusTasks', bids', submissions')
<1>16. /\ \A i \in ids : f[i] = Debt(consensusTasks[i], bids[i], submissions[i])
       /\ \A i \in ids \cup {id} : g[i] = Debt(consensusTasks'[i], bids'[i], submissions'[i])
  BY <1>12, <1>13 DEF Debts
<1>17. \A i \in ids : f[i] \in Nat /\ g[i] = f[i]
  <2>1. \A i \in ids : /\ consensusTasks[i] \in ConsensusTaskType /\ bids[i] \in BidRows
                       /\ submissions[i] \in Seq(SubmissionType)
    BY ConsensusTask0 DEF n
  <2>2. \A i \in ids : f[i] \in Nat
    BY <1>16, <2>1, DebtNat
  <2>. QED BY <1>8, <1>10, <1>11, <1>16, <2>2
<1>18. g[id] = bounty
  <2>1. Revealing(row) = {}
    BY <1>4 DEF Revealing
  <2>2. Bonded(row) = 0
    BY <2>1, SumEmpty DEF Bonded
  <2>3. g[id] = Debt(p, row, <<>>)
    BY <1>8, <1>10, <1>11, <1>16
  <2>. QED BY <1>2, <1>3, <2>2, <2>3 DEF Debt
<1>19. /\ Indebted(consensusTasks, bids, submissions) = SumFunctionOnSet(f, ids)
       /\ Indebted(consensusTasks', bids', submissions') = SumFunctionOnSet(g, ids \cup {id})
  BY <1>12, <1>13 DEF Indebted
<1>. HIDE DEF f, g, ids, id
<1>20. EntryAddition(f, g, ids, id)
  BY <1>2, <1>13, <1>17, <1>18 DEF EntryAddition
<1>21. /\ SumFunctionOnSet(f, ids) \in Nat /\ SumFunctionOnSet(g, ids \cup {id}) \in Nat
       /\ SumFunctionOnSet(g, ids \cup {id}) = SumFunctionOnSet(f, ids) + g[id]
  BY <1>20, EntryAdd
<1>22. consensusBalance' = consensusTreasury' + SumFunctionOnSet(g, ids \cup {id})
  <2>1. consensusBalance = consensusTreasury + SumFunctionOnSet(f, ids)
    BY <1>19 DEF ConsensusInv
  <2>2. consensusBalance' = consensusBalance + bounty /\ consensusTreasury' = consensusTreasury
    BY <1>1
  <2>3. SumFunctionOnSet(g, ids \cup {id}) = SumFunctionOnSet(f, ids) + bounty
    BY <1>18, <1>21
  <2>. QED BY <1>2, <1>21, <2>1, <2>2, <2>3
<1>. QED BY <1>12, <1>14, <1>15, <1>19, <1>22 DEF ConsensusInv

\* No call leaves the invariant.
LEMMA ConsensusStepKeeps ==
  ConsensusInv /\ [Consensus!Next]_consensusAll => ConsensusInv'
<1>. SUFFICES ASSUME ConsensusInv, [Consensus!Next]_consensusAll
              PROVE  ConsensusInv'
  OBVIOUS
<1>1. CASE \/ UNCHANGED consensusAll
           \/ Consensus!Tick
           \/ Consensus!WithdrawProtocolFees
  <2>1. /\ UNCHANGED <<consensusTasks, taskBidders, bids, submissions>>
        /\ consensusNow' = consensusNow \/ consensusNow' = consensusNow + 1
    BY <1>1 DEF consensusAll, Consensus!Tick, Consensus!WithdrawProtocolFees
  <2>2. \/ UNCHANGED <<consensusBalance, consensusTreasury>>
        \/ consensusBalance' = consensusBalance - consensusTreasury /\ consensusTreasury' = 0
    BY <1>1 DEF consensusAll, Consensus!Tick, Consensus!WithdrawProtocolFees
  <2>3. /\ consensusBalance = consensusTreasury + Indebted(consensusTasks, bids, submissions)
        /\ consensusBalance \in Int /\ consensusTreasury \in Nat /\ consensusNow \in Nat
    BY DEF ConsensusInv, ConsensusTypes
  <2>4. Indebted(consensusTasks, bids, submissions) \in Int
    <3>1. \A t \in 1 .. TaskCount : /\ consensusTasks[t] \in ConsensusTaskType
            /\ bids[t] \in BidRows /\ submissions[t] \in Seq(SubmissionType)
      BY ConsensusTask0
    <3>2. \A t \in 1 .. TaskCount : Debts(consensusTasks, bids, submissions)[t] \in Int
      BY <3>1, DebtNat DEF Debts, TaskCount
    <3>3. IsFiniteSet(1 .. TaskCount)
      BY ConsensusLists, FS_Interval
    <3>. QED BY <3>2, <3>3, SumInt DEF Indebted, TaskCount
  <2>5. consensusBalance' = consensusTreasury' + Indebted(consensusTasks, bids, submissions)
        /\ consensusBalance' \in Int /\ consensusTreasury' \in Nat
    BY <2>2, <2>3, <2>4
  <2>6. consensusNow' \in Nat
    BY <2>1, <2>3
  <2>. QED BY <2>1, <2>5, <2>6 DEF ConsensusInv, ConsensusTypes, TaskCount
<1>2. Consensus!Tasks = 1 .. TaskCount
  BY ConsensusLists, ListedElement DEF Consensus!Tasks
<1>3. ASSUME NEW t \in 1 .. TaskCount, Consensus!TaskStep(t)
      PROVE  ConsensusInv'
  BY <1>3, CancelConsensusKeeps, SubmitConsensusKeeps, RevealConsensusKeeps,
     ResolveConsensusKeeps, DeliverConsensusKeeps, FinalizeConsensusKeeps DEF Consensus!TaskStep
<1>. QED BY <1>1, <1>2, <1>3, CreateConsensusKeeps DEF Consensus!Next

-----------------------------------------------------------------------------
(* The composition                                                         *)

\* A step of one contract is no step of the others, and deploys none.
LEMMA StepsApart ==
  [SatellitesNext]_satelliteVars =>
    /\ present' = present
    /\ "outcomes" \in present => [Outcomes!Next]_outcomesAll
    /\ "consensus" \in present => [Consensus!Next]_consensusAll
    /\ "continuous" \in present => [Continuous!Next]_continuousAll
    /\ "recurring" \in present => [Recurring!RecurringNext]_recurringAll
    /\ "syndicates" \in present => [Syndicates!SyndicatesNext]_syndicatesAll
    /\ "delegation" \in present => [Delegations!DelegationNext]_delegationAll
BY DEF SatellitesNext, OutcomesStep, ConsensusStep, ContinuousStep, RecurringStep,
       SyndicatesStep, DelegationStep, satelliteVars

\* For any tasks, stakes, windows and reporters, whatever order deliveries,
\* reports, challenges and the other contracts' calls come in: no bond is slashed
\* before the challenge window of its report is over (finalizeReport).
THEOREM NeverSlashedEarly == SatellitesSpec => []SlashedAfterWindow
<1>. DEFINE Reported == "outcomes" \in present => OutcomesInv
<1>1. SatellitesInit => Reported
  BY OutcomesInit DEF SatellitesInit
<1>2. Reported /\ [SatellitesNext]_satelliteVars => Reported'
  BY StepsApart, OutcomesStepKeeps
<1>3. Reported => SlashedAfterWindow
  BY DEF OutcomesInv, SlashedAfterWindow
<1>. HIDE DEF Reported
<1>. QED BY <1>1, <1>2, <1>3, PTL DEF SatellitesSpec

-----------------------------------------------------------------------------
(* The programs that post tasks: the inductive invariant                   *)

\* The stages of a creation before its task exists, and after it.
Asking == {"idle", "afford", "terms", "accept", "allowance", "approve", "create"}
Posted == {"receipt", "count", "done"}

Job == [at : Asking \cup Posted \cup {"failed"}, bounty : Bounties \cup {0}, hash : Nat, told : Nat]

PosterTypes ==
    /\ jobs \in [Jobs -> Job] /\ tosHash \in Nat
    /\ posted \in Seq(Jobs \cup {None}) /\ records \in Seq(Nat)

\* A creation creates one task at most.
Once(ids) == \A i, k \in DOMAIN ids : ids[i] = ids[k] /\ ids[i] # None => i = k
Occurs(ids, j) == \E i \in DOMAIN ids : ids[i] = j
Id(ids, j) == CHOOSE i \in 0 .. Len(ids) - 1 : ids[i + 1] = j

\* A creation's task, at each of its stages: there is none before "create" and one after;
\* of one that failed, only if an error cut it off.
TaskOf(j, x, ids, who, cut) ==
    /\ x.at \in Asking => ~Occurs(ids, j)
    /\ x.at \in Posted => Occurs(ids, j)
    /\ x.at = "failed" /\ Occurs(ids, j) => j \in cut
    /\ x.at = "count" => who = "bot" /\ Id(ids, j) = 0
    /\ x.at = "done" => x.told = Id(ids, j) \/ (who = "bot" /\ Id(ids, j) = 0 /\ x.told > 0)

Finished(all) == {j \in Jobs : all[j].at = "done"}
Recorded(all, list) == IsFiniteSet(Finished(all)) /\ Len(list) = Cardinality(Finished(all))

PosterInv ==
    /\ PosterTypes
    /\ Once(posted)
    /\ \A j \in Jobs : TaskOf(j, jobs[j], posted, client, unsure)
    /\ client = "bot" => Recorded(jobs, records)

LEMMA PosterHolds == PosterInv => RecordsOwn
<1> SUFFICES ASSUME PosterInv PROVE RecordsOwn
  OBVIOUS
<1>1. \A j \in Jobs : IdOf(j) = Id(posted, j)
  BY DEF IdOf, Id
<1>2. ASSUME NEW j \in Jobs, jobs[j].at = "done"
      PROVE  jobs[j].told = IdOf(j) \/ (client = "bot" /\ IdOf(j) = 0 /\ jobs[j].told > 0)
  BY <1>1, <1>2 DEF PosterInv, TaskOf
<1>3. ASSUME NEW i \in DOMAIN posted, posted[i] # None
      PROVE  jobs[posted[i]].at \in {"receipt", "count", "done"} \/ posted[i] \in unsure
  <2>1. posted[i] \in Jobs
    BY <1>3, ElementOfSeq DEF PosterInv, PosterTypes
  <2>2. Occurs(posted, posted[i])
    BY DEF Occurs
  <2>3. jobs[posted[i]].at \in Asking \cup Posted \cup {"failed"}
    BY <2>1 DEF PosterInv, PosterTypes, Job
  <2> QED BY <2>1, <2>2, <2>3 DEF PosterInv, TaskOf, Posted
<1>4. client = "bot" => Len(records) = Cardinality({j \in Jobs : jobs[j].at = "done"})
  BY DEF PosterInv, Recorded, Finished
<1> QED BY <1>2, <1>3, <1>4 DEF RecordsOwn

-----------------------------------------------------------------------------
(* The list of the tasks' creators.                                        *)

\* A creation's task has one id, which no later task changes.
LEMMA IdIs ==
    ASSUME NEW ids \in Seq(Jobs \cup {None}), Once(ids), NEW j \in Jobs,
           NEW i \in DOMAIN ids, ids[i] = j
    PROVE  Id(ids, j) = i - 1
<1>1. DOMAIN ids = 1 .. Len(ids) /\ Len(ids) \in Nat
  BY LenProperties
<1>2. i - 1 \in 0 .. Len(ids) - 1 /\ ids[(i - 1) + 1] = j
  BY <1>1
<1>3. Id(ids, j) \in 0 .. Len(ids) - 1 /\ ids[Id(ids, j) + 1] = j
  BY <1>2 DEF Id
<1>4. Id(ids, j) + 1 \in DOMAIN ids
  BY <1>1, <1>3
<1>5. j # None
  BY JobsAssumption DEF JobsAssumption
<1> QED BY <1>1, <1>3, <1>4, <1>5 DEF Once

LEMMA Appending ==
    ASSUME NEW ids \in Seq(Jobs \cup {None}), Once(ids), NEW who \in Jobs \cup {None},
           who \in Jobs => ~Occurs(ids, who), NEW after, after = Append(ids, who)
    PROVE  /\ after \in Seq(Jobs \cup {None}) /\ Once(after) /\ Occurs(after, who)
           /\ \A j \in Jobs : j # who =>
                 (Occurs(after, j) <=> Occurs(ids, j))
                 /\ (Occurs(ids, j) => Id(after, j) = Id(ids, j))
<1>1. /\ after \in Seq(Jobs \cup {None}) /\ Len(after) = Len(ids) + 1 /\ Len(ids) \in Nat
      /\ DOMAIN ids = 1 .. Len(ids) /\ DOMAIN after = 1 .. Len(ids) + 1
      /\ \A i \in 1 .. Len(ids) : after[i] = ids[i]
      /\ after[Len(ids) + 1] = who
  BY AppendProperties, LenProperties
<1>2. Once(after)
  <2> SUFFICES ASSUME NEW i \in DOMAIN after, NEW k \in DOMAIN after,
                      after[i] = after[k], after[i] # None
               PROVE  i = k
    BY DEF Once
  <2>1. CASE i \in DOMAIN ids /\ k \in DOMAIN ids
    BY <1>1, <2>1 DEF Once
  <2>2. CASE i \notin DOMAIN ids /\ k \notin DOMAIN ids
    BY <1>1, <2>2
  <2>3. who # None => who \in Jobs
    OBVIOUS
  <2>4. CASE i \in DOMAIN ids /\ k \notin DOMAIN ids
    BY <1>1, <2>3, <2>4 DEF Occurs
  <2>5. CASE i \notin DOMAIN ids /\ k \in DOMAIN ids
    BY <1>1, <2>3, <2>5 DEF Occurs
  <2> QED BY <2>1, <2>2, <2>4, <2>5
<1>3. Occurs(after, who)
  BY <1>1 DEF Occurs
<1>4. ASSUME NEW j \in Jobs, j # who
      PROVE  /\ Occurs(after, j) <=> Occurs(ids, j)
             /\ Occurs(ids, j) => Id(after, j) = Id(ids, j)
  <2>1. Occurs(after, j) <=> Occurs(ids, j)
    BY <1>1, <1>4 DEF Occurs
  <2>2. ASSUME Occurs(ids, j) PROVE Id(after, j) = Id(ids, j)
    <3>1. PICK i \in DOMAIN ids : ids[i] = j
      BY <2>2 DEF Occurs
    <3>2. i \in DOMAIN after /\ after[i] = j
      BY <1>1, <3>1
    <3>3. Id(ids, j) = i - 1
      BY <3>1, IdIs
    <3>4. Id(after, j) = i - 1
      BY <3>2, <1>1, <1>2, IdIs
    <3> QED BY <3>3, <3>4
  <2> QED BY <2>1, <2>2
<1> QED BY <1>1, <1>2, <1>3, <1>4

-----------------------------------------------------------------------------
(* The steps of one creation.                                              *)

\* Creation j goes to y, the others stay, and no task is posted.
Changes(j, y) == jobs' = [jobs EXCEPT ![j] = y]
Only(j, y) ==
    /\ Changes(j, y)
    /\ posted' = posted /\ client' = client

LEMMA OneMoves ==
    ASSUME PosterInv, NEW j \in Jobs, NEW y \in Job, Only(j, y), tosHash' \in Nat,
           records' \in Seq(Nat),
           unsure \subseteq unsure', TaskOf(j, y, posted, client, unsure'),
           client = "bot" => Recorded(jobs', records')
    PROVE  PosterInv'
<1>1. /\ jobs' \in [Jobs -> Job] /\ jobs'[j] = y
      /\ \A i \in Jobs \ {j} : jobs'[i] = jobs[i]
  BY DEF Only, Changes, PosterInv, PosterTypes
<1>2. PosterTypes' /\ Once(posted)'
  BY <1>1 DEF PosterInv, PosterTypes, Only
<1>3. ASSUME NEW i \in Jobs PROVE TaskOf(i, jobs'[i], posted, client, unsure')
  <2>1. CASE i = j
    BY <1>1, <2>1
  <2>2. CASE i # j
    BY <1>1, <2>2 DEF PosterInv, TaskOf
  <2> QED BY <2>1, <2>2
<1>4. \A i \in Jobs : TaskOf(i, jobs'[i], posted', client', unsure')
  BY <1>3 DEF Only
<1>5. client' = "bot" => Recorded(jobs', records')
  BY DEF Only
<1> QED BY <1>2, <1>4, <1>5 DEF PosterInv

\* Who was not done and is not done leaves the records right.
LEMMA FinishedKept ==
    ASSUME PosterInv, NEW j \in Jobs, NEW y \in Job, Changes(j, y),
           jobs[j].at # "done", y.at # "done", records' = records, client = "bot"
    PROVE  Recorded(jobs', records')
<1>1. /\ jobs'[j] = y /\ \A i \in Jobs \ {j} : jobs'[i] = jobs[i]
  BY DEF Changes, PosterInv, PosterTypes
<1>2. Finished(jobs') = Finished(jobs)
  BY <1>1 DEF Finished
<1> QED BY <1>2 DEF PosterInv, Recorded

LEMMA FinishedMore ==
    ASSUME PosterInv, NEW j \in Jobs, NEW y \in Job, Changes(j, y),
           jobs[j].at # "done", y.at = "done", NEW id \in Nat, records' = Append(records, id),
           client = "bot"
    PROVE  Recorded(jobs', records')
<1>1. /\ jobs'[j] = y /\ \A i \in Jobs \ {j} : jobs'[i] = jobs[i]
  BY DEF Changes, PosterInv, PosterTypes
<1>2. Finished(jobs') = Finished(jobs) \cup {j} /\ j \notin Finished(jobs)
  BY <1>1 DEF Finished
<1>3. IsFiniteSet(Finished(jobs)) /\ Len(records) = Cardinality(Finished(jobs))
  BY DEF PosterInv, Recorded
<1>4. /\ IsFiniteSet(Finished(jobs'))
      /\ Cardinality(Finished(jobs')) = Cardinality(Finished(jobs)) + 1
  BY <1>2, <1>3, FS_AddElement
<1>5. Len(records') = Len(records) + 1
  BY AppendProperties DEF PosterInv, PosterTypes
<1> QED BY <1>3, <1>4, <1>5 DEF Recorded

\* A creation that goes on before its task exists, or that fails without it.
LEMMA AskingMoves ==
    ASSUME PosterInv, NEW j \in Jobs, jobs[j].at \in Asking, NEW y \in Job, Only(j, y),
           y.at \in Asking \cup {"failed"}, tosHash' = tosHash, records' = records, unsure' = unsure
    PROVE  PosterInv'
<1>1. ~Occurs(posted, j)
  BY DEF PosterInv, TaskOf
<1>2. TaskOf(j, y, posted, client, unsure')
  BY <1>1 DEF TaskOf, Asking, Posted
<1>3. y.at # "done" /\ jobs[j].at # "done"
  BY DEF Asking
<1>4. client = "bot" => Recorded(jobs', records')
  BY <1>3, FinishedKept DEF Only
<1> QED BY <1>2, <1>4, OneMoves DEF PosterInv, PosterTypes

\* The new records of a creation: at another stage, ...
LEMMA MovesTo ==
    ASSUME PosterTypes, NEW j \in Jobs, NEW at \in Asking \cup Posted \cup {"failed"}, Moves(j, at)
    PROVE  \E y \in Job : Changes(j, y) /\ y.at = at /\ y.told = jobs[j].told
<1> DEFINE x == jobs[j]
<1> DEFINE y == [at |-> at, bounty |-> x.bounty, hash |-> x.hash, told |-> x.told]
<1>1. x \in Job
  BY DEF PosterTypes
<1>2. y \in Job
  BY <1>1 DEF Job
<1>3. [x EXCEPT !.at = at] = y
  BY <1>1 DEF Job
<1>4. Changes(j, y)
  BY <1>3 DEF Moves, Changes
<1> QED BY <1>2, <1>4

\* ... with a bounty, ...
LEMMA BeginsWith ==
    ASSUME PosterTypes, NEW j \in Jobs, NEW at \in Asking \cup Posted \cup {"failed"}, Begins(j, at)
    PROVE  \E y \in Job : Changes(j, y) /\ y.at = at
<1>1. PICK b \in Bounties : jobs' = [jobs EXCEPT ![j].at = at, ![j].bounty = b]
  BY DEF Begins
<1> DEFINE x == jobs[j]
<1> DEFINE y == [at |-> at, bounty |-> b, hash |-> x.hash, told |-> x.told]
<1>2. x \in Job
  BY DEF PosterTypes
<1>3. y \in Job
  BY <1>2 DEF Job
<1> DEFINE z == [at |-> at, bounty |-> x.bounty, hash |-> x.hash, told |-> x.told]
<1>4. [x EXCEPT !.at = at] = z /\ [z EXCEPT !.bounty = b] = y
  BY <1>2 DEF Job
<1>5. jobs' = [jobs EXCEPT ![j] = [[x EXCEPT !.at = at] EXCEPT !.bounty = b]]
  BY <1>1, <1>2 DEF PosterTypes, Job
<1>6. Changes(j, y)
  BY <1>4, <1>5 DEF Changes
<1> QED BY <1>3, <1>6

\* ... with a hash, ...
LEMMA HashesTo ==
    ASSUME PosterTypes, NEW j \in Jobs, NEW h \in Nat,
           jobs' = [jobs EXCEPT ![j].at = "accept", ![j].hash = h]
    PROVE  \E y \in Job : Changes(j, y) /\ y.at = "accept"
<1> DEFINE x == jobs[j]
<1> DEFINE y == [at |-> "accept", bounty |-> x.bounty, hash |-> h, told |-> x.told]
<1>2. x \in Job
  BY DEF PosterTypes
<1>3. y \in Job
  BY <1>2 DEF Job, Asking
<1> DEFINE z == [at |-> "accept", bounty |-> x.bounty, hash |-> x.hash, told |-> x.told]
<1>4. [x EXCEPT !.at = "accept"] = z /\ [z EXCEPT !.hash = h] = y
  BY <1>2 DEF Job
<1>5. jobs' = [jobs EXCEPT ![j] = [[x EXCEPT !.at = "accept"] EXCEPT !.hash = h]]
  BY <1>2 DEF PosterTypes, Job
<1>6. Changes(j, y)
  BY <1>4, <1>5 DEF Changes
<1> QED BY <1>3, <1>6

\* ... and with an answer.
LEMMA TellsTo ==
    ASSUME PosterTypes, NEW j \in Jobs, NEW id \in Nat,
           jobs' = [jobs EXCEPT ![j].at = "done", ![j].told = id]
    PROVE  \E y \in Job : Changes(j, y) /\ y.at = "done" /\ y.told = id
<1> DEFINE x == jobs[j]
<1> DEFINE y == [at |-> "done", bounty |-> x.bounty, hash |-> x.hash, told |-> id]
<1>2. x \in Job
  BY DEF PosterTypes
<1>3. y \in Job
  BY <1>2 DEF Job, Posted
<1> DEFINE z == [at |-> "done", bounty |-> x.bounty, hash |-> x.hash, told |-> x.told]
<1>4. [x EXCEPT !.at = "done"] = z /\ [z EXCEPT !.told = id] = y
  BY <1>2 DEF Job
<1>5. jobs' = [jobs EXCEPT ![j] = [[x EXCEPT !.at = "done"] EXCEPT !.told = id]]
  BY <1>2 DEF PosterTypes, Job
<1>6. Changes(j, y)
  BY <1>4, <1>5 DEF Changes
<1> QED BY <1>3, <1>6

\* A creation that has no task yet goes on or fails.
LEMMA AskingGoesOn ==
    ASSUME PosterInv, NEW j \in Jobs, jobs[j].at \in Asking,
           NEW at \in Asking \cup {"failed"}, Moves(j, at),
           posted' = posted, client' = client, tosHash' = tosHash, records' = records,
           unsure' = unsure
    PROVE  PosterInv'
<1>1. PICK y \in Job : Changes(j, y) /\ y.at = at
  BY MovesTo DEF PosterInv
<1> QED BY <1>1, AskingMoves DEF Only

LEMMA BeginningKeeps ==
    ASSUME PosterInv, NEW j \in Jobs,
           CreateAndFundTask(j) \/ PostTasks(j) \/ PostCycle(j) \/ BalanceReadFails(j)
    PROVE  PosterInv'
<1>1. jobs[j].at = "idle"
  BY DEF CreateAndFundTask, PostTasks, PostCycle, BalanceReadFails, Begins
<1>2. /\ posted' = posted /\ client' = client /\ tosHash' = tosHash /\ records' = records
      /\ unsure' = unsure
  BY DEF CreateAndFundTask, PostTasks, PostCycle, BalanceReadFails, wallet, compliance, bot,
         troubles
<1>3. ASSUME NEW at \in {"approve", "allowance", "afford"}, Begins(j, at) PROVE PosterInv'
  <2>1. at \in Asking
    BY <1>3 DEF Asking
  <2>2. PICK y \in Job : Changes(j, y) /\ y.at = at
    BY <1>3, <2>1, BeginsWith DEF PosterInv
  <2> QED BY <1>1, <1>2, <2>1, <2>2, AskingMoves DEF Only, Asking
<1>4. CASE BalanceReadFails(j)
  BY <1>1, <1>2, <1>4, AskingGoesOn DEF BalanceReadFails, Asking
<1> QED BY <1>3, <1>4 DEF CreateAndFundTask, PostTasks, PostCycle

LEMMA AskingKeeps ==
    ASSUME PosterInv, NEW j \in Jobs,
           \/ CanAffordPost(j) \/ EnsureToS(j) \/ AcceptTerms(j) \/ ReadAllowance(j) \/ Approve(j)
    PROVE  PosterInv'
<1>1. /\ posted' = posted /\ client' = client /\ tosHash' = tosHash /\ records' = records
      /\ unsure' = unsure
  BY DEF CanAffordPost, EnsureToS, AcceptTerms, ReadAllowance, Approve, Fails, wallet, compliance,
         bot, troubles
<1>2. jobs[j].at \in Asking
  BY DEF CanAffordPost, EnsureToS, AcceptTerms, ReadAllowance, Approve, Asking
<1>3. ASSUME NEW at \in {"terms", "failed", "allowance", "approve", "create"}, Moves(j, at)
      PROVE  PosterInv'
  <2>1. at \in Asking \cup {"failed"}
    BY <1>3 DEF Asking
  <2> QED BY <1>1, <1>2, <1>3, <2>1, AskingGoesOn
<1>4. CASE jobs' = [jobs EXCEPT ![j].at = "accept", ![j].hash = tosHash]
  <2>1. PICK y \in Job : Changes(j, y) /\ y.at = "accept"
    BY <1>4, HashesTo DEF PosterInv, PosterTypes
  <2> QED BY <1>1, <1>2, <2>1, AskingMoves DEF Only, Asking
<1>5. CASE CanAffordPost(j)
  BY <1>3, <1>5 DEF CanAffordPost, Fails
<1>6. CASE EnsureToS(j)
  BY <1>3, <1>4, <1>6 DEF EnsureToS
<1>7. CASE AcceptTerms(j)
  BY <1>3, <1>7 DEF AcceptTerms, Fails
<1>8. CASE ReadAllowance(j)
  BY <1>3, <1>8 DEF ReadAllowance
<1>9. CASE Approve(j)
  BY <1>3, <1>9 DEF Approve
<1> QED BY <1>5, <1>6, <1>7, <1>8, <1>9

LEMMA PostingKeeps ==
    ASSUME PosterInv, NEW j \in Jobs, Create(j)
    PROVE  PosterInv'
<1>1. /\ client' = client /\ tosHash' = tosHash /\ records' = records /\ unsure' = unsure
      /\ jobs[j].at = "create"
  BY DEF Create, Fails, compliance, bot, troubles
<1>2. CASE Moves(j, "failed") /\ posted' = posted
  BY <1>1, <1>2, AskingGoesOn DEF Asking
<1>3. CASE Moves(j, "receipt") /\ posted' = Append(posted, j)
  <2>1. PICK y \in Job : Changes(j, y) /\ y.at = "receipt"
    BY <1>3, MovesTo DEF PosterInv, Posted
  <2>2. /\ jobs' \in [Jobs -> Job] /\ jobs'[j] = y
        /\ \A i \in Jobs \ {j} : jobs'[i] = jobs[i]
    BY <2>1 DEF Changes, PosterInv, PosterTypes
  <2>3. ~Occurs(posted, j)
    BY <1>1 DEF PosterInv, TaskOf, Asking
  <2>4. /\ posted' \in Seq(Jobs \cup {None}) /\ Once(posted') /\ Occurs(posted', j)
        /\ \A i \in Jobs : i # j =>
              (Occurs(posted', i) <=> Occurs(posted, i))
              /\ (Occurs(posted, i) => Id(posted', i) = Id(posted, i))
    BY <1>3, <2>3, Appending DEF PosterInv, PosterTypes
  <2>5. ASSUME NEW i \in Jobs PROVE TaskOf(i, jobs'[i], posted', client, unsure)
    <3>1. CASE i = j
      BY <2>1, <2>2, <2>4, <3>1 DEF TaskOf, Asking
    <3>2. CASE i # j
      <4>1. TaskOf(i, jobs[i], posted, client, unsure)
        BY DEF PosterInv
      <4>2. jobs'[i] = jobs[i]
        BY <2>2, <3>2
      <4>3. /\ Occurs(posted', i) <=> Occurs(posted, i)
            /\ Occurs(posted, i) => Id(posted', i) = Id(posted, i)
        BY <2>4, <3>2
      <4> QED BY <4>1, <4>2, <4>3 DEF TaskOf, Posted
    <3> QED BY <3>1, <3>2
  <2>6. client = "bot" => Recorded(jobs', records')
    BY <1>1, <2>1, FinishedKept
  <2>7. PosterTypes'
    BY <1>1, <2>2, <2>4 DEF PosterInv, PosterTypes
  <2> QED BY <1>1, <2>4, <2>5, <2>6, <2>7 DEF PosterInv
<1> QED BY <1>2, <1>3 DEF Create, Creates, Fails, wallet

-----------------------------------------------------------------------------
(* Answers, errors and restarts.                                           *)

\* A creation is done, and whether it is recorded.
LEMMA DoneKeeps ==
    ASSUME PosterInv, NEW j \in Jobs, jobs[j].at \in {"receipt", "count"}, NEW id \in Nat,
           jobs' = [jobs EXCEPT ![j].at = "done", ![j].told = id],
           id = Id(posted, j) \/ (client = "bot" /\ Id(posted, j) = 0 /\ id > 0),
           records' = IF client = "bot" THEN Append(records, id) ELSE records,
           posted' = posted, client' = client, tosHash' = tosHash, unsure' = unsure
    PROVE  PosterInv'
<1>1. PICK y \in Job : Changes(j, y) /\ y.at = "done" /\ y.told = id
  BY TellsTo DEF PosterInv
<1>2. Occurs(posted, j)
  BY DEF PosterInv, TaskOf, Posted
<1>3. TaskOf(j, y, posted, client, unsure')
  BY <1>1, <1>2 DEF TaskOf, Asking
<1>4. client = "bot" => Recorded(jobs', records')
  BY <1>1, FinishedMore
<1>5. records' \in Seq(Nat)
  BY AppendProperties DEF PosterInv, PosterTypes
<1> QED BY <1>1, <1>3, <1>4, <1>5, OneMoves DEF Only, PosterInv, PosterTypes

LEMMA AnswerKeeps ==
    ASSUME PosterInv, NEW j \in Jobs, Answer(j) \/ ReadCount(j) \/ CountFails(j)
    PROVE  PosterInv'
<1>1. /\ client' = client /\ tosHash' = tosHash /\ unsure' = unsure /\ posted' = posted
      /\ jobs[j].at \in {"receipt", "count"}
  BY DEF Answer, ReadCount, CountFails, compliance, wallet, bot, troubles
<1>2. PICK i \in DOMAIN posted : posted[i] = j
  BY <1>1 DEF PosterInv, TaskOf, Occurs, Posted
<1>3. Id(posted, j) = i - 1
  BY <1>2, IdIs DEF PosterInv, PosterTypes
<1>4. Id(posted, j) \in Nat /\ Len(posted) \in Nat /\ Len(posted) > 0
  BY <1>2, <1>3, LenProperties DEF PosterInv, PosterTypes
<1>5. TaskIdOf(j) = Id(posted, j)
  BY DEF TaskIdOf, IdOf, Id
<1>6. jobs[j].at = "count" => client = "bot" /\ Id(posted, j) = 0
  BY DEF PosterInv, TaskOf
<1>7. Len(records) \in Nat
  BY LenProperties DEF PosterInv, PosterTypes
<1>8. CASE Answer(j) /\ client = "bot" /\ TaskIdOf(j) = 0
  <2>1. Moves(j, "count") /\ records' = records /\ jobs[j].at = "receipt"
    BY <1>8 DEF Answer, bot
  <2>2. PICK y \in Job : Changes(j, y) /\ y.at = "count"
    BY <2>1, MovesTo DEF PosterInv, Posted
  <2>3. TaskOf(j, y, posted, client, unsure')
    BY <1>2, <1>5, <1>8, <2>2 DEF TaskOf, Asking, Occurs
  <2>4. client = "bot" => Recorded(jobs', records')
    BY <2>1, <2>2, FinishedKept
  <2> QED BY <1>1, <2>1, <2>2, <2>3, <2>4, OneMoves DEF Only, PosterInv, PosterTypes
<1>9. CASE Answer(j) /\ ~(client = "bot" /\ TaskIdOf(j) = 0)
  BY <1>1, <1>4, <1>5, <1>9, DoneKeeps DEF Answer
<1>10. CASE ReadCount(j)
  <2>1. client = "bot" /\ Id(posted, j) = 0
    BY <1>6, <1>10 DEF ReadCount
  <2> QED BY <1>1, <1>4, <1>10, <2>1, DoneKeeps DEF ReadCount
<1>11. CASE CountFails(j)
  <2>1. client = "bot" /\ Id(posted, j) = 0
    BY <1>6, <1>11 DEF CountFails
  <2>2. Len(records) + 1 \in Nat /\ Len(records) + 1 > 0
    BY <1>7
  <2>3. /\ jobs' = [jobs EXCEPT ![j].at = "done", ![j].told = Len(records) + 1]
        /\ records' = Append(records, Len(records) + 1)
    BY <1>11 DEF CountFails
  <2> DEFINE id == Len(records) + 1
  <2>4. /\ id \in Nat /\ id > 0
        /\ jobs' = [jobs EXCEPT ![j].at = "done", ![j].told = id]
        /\ records' = Append(records, id)
    BY <2>2, <2>3
  <2> HIDE DEF id
  <2> QED BY <1>1, <2>1, <2>4, DoneKeeps
<1> QED BY <1>8, <1>9, <1>10, <1>11

LEMMA CallFailsKeeps ==
    ASSUME PosterInv, NEW j \in Jobs, CallFails(j)
    PROVE  PosterInv'
<1>1. /\ client' = client /\ tosHash' = tosHash /\ unsure' = unsure \cup {j} /\ posted' = posted
      /\ records' = records /\ Moves(j, "failed") /\ jobs[j].at # "done"
  BY DEF CallFails, Fails, compliance, wallet
<1>2. PICK y \in Job : Changes(j, y) /\ y.at = "failed"
  BY <1>1, MovesTo DEF PosterInv
<1>3. TaskOf(j, y, posted, client, unsure')
  BY <1>1, <1>2 DEF TaskOf, Asking, Posted
<1>4. client = "bot" => Recorded(jobs', records')
  BY <1>1, <1>2, FinishedKept
<1> QED BY <1>1, <1>2, <1>3, <1>4, OneMoves DEF Only, PosterInv, PosterTypes

LEMMA RestartKeeps ==
    ASSUME PosterInv, Restart
    PROVE  PosterInv'
<1> DEFINE cut == {j \in Jobs : jobs[j].at \notin {"idle", "failed", "done"}}
<1>1. /\ client' = client /\ tosHash' = tosHash /\ unsure' = unsure \cup cut /\ posted' = posted
      /\ records' = records
      /\ jobs' = [j \in Jobs |-> IF j \in cut THEN [jobs[j] EXCEPT !.at = "failed"] ELSE jobs[j]]
  BY DEF Restart, compliance, wallet
<1>2. ASSUME NEW j \in Jobs
      PROVE  /\ jobs'[j] \in Job
             /\ j \in cut => jobs'[j].at = "failed" /\ jobs[j].at # "done"
             /\ j \notin cut => jobs'[j] = jobs[j]
  <2>1. jobs[j] \in Job
    BY DEF PosterInv, PosterTypes
  <2>2. CASE j \in cut
    <3> DEFINE x == jobs[j]
    <3> DEFINE y == [at |-> "failed", bounty |-> x.bounty, hash |-> x.hash, told |-> x.told]
    <3>1. [x EXCEPT !.at = "failed"] = y /\ y \in Job
      BY <2>1 DEF Job
    <3>2. jobs'[j] = y
      BY <1>1, <2>2, <3>1
    <3> QED BY <2>2, <3>1, <3>2
  <2>3. CASE j \notin cut
    BY <1>1, <2>1, <2>3
  <2> QED BY <2>2, <2>3
<1>3. jobs' \in [Jobs -> Job]
  BY <1>1, <1>2
<1>4. ASSUME NEW j \in Jobs PROVE TaskOf(j, jobs'[j], posted, client, unsure')
  <2>1. TaskOf(j, jobs[j], posted, client, unsure)
    BY DEF PosterInv
  <2>2. CASE j \in cut
    BY <1>1, <1>2, <2>2 DEF TaskOf, Asking, Posted
  <2>3. CASE j \notin cut
    <3>1. jobs'[j] = jobs[j] /\ unsure \subseteq unsure'
      BY <1>1, <1>2, <2>3
    <3> QED BY <2>1, <3>1 DEF TaskOf
  <2> QED BY <2>2, <2>3
<1>5. Finished(jobs') = Finished(jobs)
  BY <1>2 DEF Finished
<1>6. client = "bot" => Recorded(jobs', records')
  BY <1>1, <1>5 DEF PosterInv, Recorded
<1>7. PosterTypes'
  BY <1>1, <1>3 DEF PosterInv, PosterTypes
<1> QED BY <1>1, <1>4, <1>6, <1>7 DEF PosterInv

-----------------------------------------------------------------------------
(* The steps beside the creations.                                         *)

\* Nothing the invariant is about.
LEMMA OthersKeep ==
    ASSUME PosterInv,
           UNCHANGED <<client, jobs, posted, records, unsure>>, tosHash' \in Nat
    PROVE  PosterInv'
BY DEF PosterInv, PosterTypes

LEMMA OtherCreatesKeeps ==
    ASSUME PosterInv, OtherCreates
    PROVE  PosterInv'
<1>1. /\ posted' = Append(posted, None) /\ client' = client /\ jobs' = jobs /\ tosHash' = tosHash
      /\ records' = records /\ unsure' = unsure
  BY DEF OtherCreates, compliance, bot, troubles
<1>2. /\ posted' \in Seq(Jobs \cup {None}) /\ Once(posted')
      /\ \A i \in Jobs : i # None =>
            (Occurs(posted', i) <=> Occurs(posted, i))
            /\ (Occurs(posted, i) => Id(posted', i) = Id(posted, i))
  <2>1. None \notin Jobs
    BY JobsAssumption DEF JobsAssumption
  <2>2. posted \in Seq(Jobs \cup {None}) /\ Once(posted) /\ None \in Jobs \cup {None}
    BY DEF PosterInv, PosterTypes
  <2> QED BY <1>1, <2>1, <2>2, Appending
<1>3. ASSUME NEW j \in Jobs PROVE TaskOf(j, jobs[j], posted', client, unsure)
  <2>1. /\ Occurs(posted', j) <=> Occurs(posted, j)
        /\ Occurs(posted, j) => Id(posted', j) = Id(posted, j)
    BY <1>2, JobsAssumption DEF JobsAssumption
  <2>2. TaskOf(j, jobs[j], posted, client, unsure)
    BY DEF PosterInv
  <2> QED BY <2>1, <2>2 DEF TaskOf, Posted
<1> QED BY <1>1, <1>2, <1>3 DEF PosterInv, PosterTypes

LEMMA PosterStarts == PosterInit => PosterInv
<1> SUFFICES ASSUME PosterInit PROVE PosterInv
  OBVIOUS
<1>1. \A j \in Jobs : jobs[j] \in Job /\ jobs[j].at = "idle"
  BY DEF PosterInit, Job, Asking, NoId
<1>2. posted = <<>> /\ records = <<>> /\ tosHash = 0
  BY DEF PosterInit
<1>3. PosterTypes
  BY <1>1, <1>2, EmptySeq DEF PosterInit, PosterTypes
<1>4. Once(posted) /\ \A j \in Jobs : ~Occurs(posted, j)
  BY <1>2 DEF Once, Occurs
<1>5. \A j \in Jobs : TaskOf(j, jobs[j], posted, client, unsure)
  BY <1>1, <1>4 DEF TaskOf, Posted
<1>6. Recorded(jobs, records)
  <2>1. Finished(jobs) = {}
    BY <1>1 DEF Finished
  <2> QED BY <1>2, <2>1, FS_EmptySet DEF Recorded
<1> QED BY <1>3, <1>4, <1>5, <1>6 DEF PosterInv

\* However the creations of a wallet and the tasks of others interleave, whatever calls fail
\* and whenever the program restarts, for any number of creations: who is told an id is told
\* that of the task it paid for, and each task of the wallet is known to its creation, recorded,
\* or cut off by an error.
THEOREM RecordsAlwaysOwn == PosterSpec => []RecordsOwn
<1>1. PosterInv /\ [PosterNext]_posterVars => PosterInv'
  <2> SUFFICES ASSUME PosterInv, [PosterNext]_posterVars PROVE PosterInv'
    OBVIOUS
  <2>1. ASSUME NEW j \in Jobs,
               \/ CreateAndFundTask(j) \/ PostTasks(j) \/ PostCycle(j) \/ BalanceReadFails(j)
        PROVE  PosterInv'
    BY <2>1, BeginningKeeps
  <2>2. ASSUME NEW j \in Jobs,
               \/ CanAffordPost(j) \/ EnsureToS(j) \/ AcceptTerms(j) \/ ReadAllowance(j)
               \/ Approve(j)
        PROVE  PosterInv'
    BY <2>2, AskingKeeps
  <2>3. ASSUME NEW j \in Jobs, Answer(j) \/ ReadCount(j) \/ CountFails(j) PROVE PosterInv'
    BY <2>3, AnswerKeeps
  <2>4. ASSUME NEW j \in Jobs, Create(j) PROVE PosterInv'
    BY <2>4, PostingKeeps
  <2>5. ASSUME NEW j \in Jobs, CallFails(j) PROVE PosterInv'
    BY <2>5, CallFailsKeeps
  <2>6. CASE Restart
    BY <2>6, RestartKeeps
  <2>7. CASE OtherCreates
    BY <2>7, OtherCreatesKeeps
  <2>8. CASE \/ Stop \/ TaskEnds \/ SetTosHash \/ SetRequireCurrentTos
             \/ CreateApiKey \/ RevokeApiKey \/ CreateWebhook \/ DeleteWebhook
             \/ UNCHANGED posterVars
    <3>1. UNCHANGED <<client, jobs, posted, records, unsure>>
      BY <2>8 DEF Stop, TaskEnds, SetTosHash, SetRequireCurrentTos, CreateApiKey, RevokeApiKey,
                  CreateWebhook, DeleteWebhook, posterVars, wallet, bot, troubles
    <3>2. tosHash' \in Nat
      BY <2>8 DEF Stop, TaskEnds, SetTosHash, SetRequireCurrentTos, CreateApiKey, RevokeApiKey,
                  CreateWebhook, DeleteWebhook, posterVars, compliance, PosterInv, PosterTypes
    <3> QED BY <3>1, <3>2, OthersKeep
  <2> QED BY <2>1, <2>2, <2>3, <2>4, <2>5, <2>6, <2>7, <2>8 DEF PosterNext
<1> QED BY <1>1, PosterStarts, PosterHolds, PTL DEF PosterSpec
=============================================================================
