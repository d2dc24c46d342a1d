---------------------------- MODULE ArenaTimelock ----------------------------
(***************************************************************************)
(* The timelock as the owner of ArenaCoreMain: queued calls, their delay   *)
(* and grace period, and the pausing of Main, which only its owner's calls *)
(* can do.  A call that Main would revert reverts the execution too.       *)
(***************************************************************************)
EXTENDS Integers

CONSTANTS
  Delay,            \* 48 hours
  GracePeriod,      \* 14 days
  PauseThreshold,   \* 7 days
  MaxTxs,           \* bound: transactions ever queued
  MaxTime           \* bound: the last block timestamp

ASSUME TimelockAssumption ==
  /\ {Delay, GracePeriod, PauseThreshold, MaxTxs, MaxTime} \subseteq Nat \ {0}
  /\ MaxTime > GracePeriod

VARIABLES
  now,
  txCount,
  queuedTxs,        \* the mapping; an id never queued reads as zeros
  pausedAt,         \* of ArenaCoreMain; 0 when it is not paused
  swept             \* has emergencySweep moved tokens?

vars == <<now, txCount, queuedTxs, pausedAt, swept>>
mainVars == <<pausedAt, swept>>

\* "other" stands for every call that leaves the pause alone.
Calls == {"pause", "unpause", "emergencySweep", "other"}
TxIds == 0 .. MaxTxs
\* Block timestamps are years past the epoch: an id never queued, with its eta
\* of 0, has always expired.
Deployed == GracePeriod + 1
Unwritten == [call |-> "other", eta |-> 0, executed |-> FALSE, cancelled |-> FALSE]

-----------------------------------------------------------------------------
Eta == now + Delay
QueueTransaction(call) ==
  /\ txCount < MaxTxs
  /\ txCount' = txCount + 1
  /\ queuedTxs' = [queuedTxs EXCEPT ![txCount] =
       [call |-> call, eta |-> Eta, executed |-> FALSE, cancelled |-> FALSE]]
  /\ UNCHANGED <<now, mainVars>>

\* ArenaCoreMain
PauseTime == now
Pause == pausedAt = 0 /\ pausedAt' = PauseTime /\ UNCHANGED swept
Unpause == pausedAt # 0 /\ pausedAt' = 0 /\ UNCHANGED swept
Emergency == pausedAt # 0 /\ now >= pausedAt + PauseThreshold
EmergencySweep == Emergency /\ swept' = TRUE /\ UNCHANGED pausedAt
Perform(call) ==
  \/ call = "pause" /\ Pause
  \/ call = "unpause" /\ Unpause
  \/ call = "emergencySweep" /\ EmergencySweep
  \/ call = "other" /\ UNCHANGED mainVars

BugExecutable(id) == ~queuedTxs[id].executed /\ now >= queuedTxs[id].eta
Executable(id) ==
  /\ ~queuedTxs[id].executed
  /\ ~queuedTxs[id].cancelled
  /\ now >= queuedTxs[id].eta
  /\ now <= queuedTxs[id].eta + GracePeriod

\* By anyone, with any id.
ExecuteTransaction(id) ==
  /\ Executable(id)
  /\ queuedTxs' = [queuedTxs EXCEPT ![id].executed = TRUE]
  /\ Perform(queuedTxs[id].call)
  /\ UNCHANGED <<now, txCount>>

\* By the admin; also with an id that is not queued yet.
Cancellable(id) == ~queuedTxs[id].executed /\ ~queuedTxs[id].cancelled
CancelTransaction(id) ==
  /\ Cancellable(id)
  /\ queuedTxs' = [queuedTxs EXCEPT ![id].cancelled = TRUE]
  /\ UNCHANGED <<now, txCount, mainVars>>

Advance ==
  /\ now < MaxTime
  /\ now' = now + 1
  /\ UNCHANGED <<txCount, queuedTxs, mainVars>>

Init ==
  /\ now = Deployed
  /\ txCount = 0
  /\ queuedTxs = [id \in TxIds |-> Unwritten]
  /\ pausedAt = 0
  /\ swept = FALSE

Next ==
  \/ Advance
  \/ \E call \in Calls : QueueTransaction(call)
  \/ \E id \in TxIds : ExecuteTransaction(id)
  \/ \E id \in TxIds : CancelTransaction(id)

Spec == Init /\ [][Next]_vars

-----------------------------------------------------------------------------
TxType == [call : Calls, eta : Nat, executed : BOOLEAN, cancelled : BOOLEAN]
TypeOK ==
  /\ now \in Deployed .. MaxTime
  /\ txCount \in 0 .. MaxTxs
  /\ queuedTxs \in [TxIds -> TxType]
  /\ pausedAt \in 0 .. MaxTime
  /\ swept \in BOOLEAN

\* A queued transaction that was cancelled is never executed, nor the other way
\* round (hazard: an id can be cancelled before it exists, and queueing it then
\* forgets the cancellation).
NeverBoth ==
  \A id \in TxIds : id < txCount => ~(queuedTxs[id].executed /\ queuedTxs[id].cancelled)

\* Main changes only by a transaction that was queued, that nobody cancelled and
\* whose delay is over: an id that was never queued reaches nothing.  Pauses are no
\* exception, although ArenaTimelock.sol:11 says that pause() and unpause() bypass the
\* timelock for emergency response: Main's owner is this contract, executeTransaction
\* is its only call, and every one of them waits.
NoticeGiven ==
  [][mainVars' # mainVars =>
       \E id \in TxIds :
         /\ id < txCount
         /\ ~queuedTxs[id].cancelled /\ ~queuedTxs[id].executed /\ queuedTxs'[id].executed
         /\ now >= queuedTxs[id].eta /\ now <= queuedTxs[id].eta + GracePeriod]_vars

\* No pause reaches Main before the delay has passed once, so the emergency exits
\* of posters and agents open no earlier than that delay and the threshold.
FirstPause ==
  /\ pausedAt # 0 => pausedAt >= Deployed + Delay
  /\ Emergency \/ swept => now >= Deployed + Delay + PauseThreshold
=============================================================================
