---------------------------- MODULE NonceManager ----------------------------
(***************************************************************************)
(* The orchestrator's queue of transactions                                *)
(* (agents/orchestrator/src/nonce-manager.ts): one wallet, one transaction *)
(* in flight, each with the nonce after the last.  processQueue is one     *)
(* coroutine; an action is the stretch between two of its awaits.  The     *)
(* agents hold the same key and send past the queue, so the nonce kept     *)
(* here falls behind the node's.                                           *)
(***************************************************************************)
EXTENDS Integers, Sequences, SequencesExt, FiniteSets

CONSTANTS
    Txs,          \* the transactions the agents may submit
    Nobody,       \* no transaction
    MaxFaults,    \* bound: failed calls and transactions lost to others
    MaxOutside    \* bound: transactions sent past the queue

VARIABLES
    queue,        \* submitted and not yet taken
    current,      \* the transaction processQueue holds, or Nobody
    stage,        \* what it awaits
    currentNonce, \* the nonce of the next transaction, or Unknown
    pending,      \* the node's count of the wallet's transactions
    executed,     \* the queue's transactions on the chain, in the order of their nonces
    answer,       \* how each transaction's promise was settled
    submitted,    \* in the order of the calls of submit
    faults, outside

queueVars == <<queue, current, stage, currentNonce, pending, executed, answer, submitted,
               faults, outside>>

Unknown == -1

QueueInit ==
    /\ queue = <<>> /\ current = Nobody /\ stage = "idle"
    /\ currentNonce = Unknown
    /\ pending = 0 /\ executed = <<>>
    /\ answer = [tx \in Txs |-> "none"] /\ submitted = <<>>
    /\ faults = 0 /\ outside = 0

-----------------------------------------------------------------------------
\* The head of the loop: take the next transaction up to the first await, or end.
Take(waiting, nonce) ==
    /\ currentNonce' = nonce
    /\ IF waiting = <<>>
       THEN stage' = "idle" /\ current' = Nobody /\ queue' = <<>>
       ELSE /\ current' = Head(waiting) /\ queue' = Tail(waiting)
            /\ stage' = IF nonce = Unknown THEN "sync" ELSE "send"

Reply(how) == answer' = [answer EXCEPT ![current] = how]

Fault == faults < MaxFaults /\ faults' = faults + 1

\* submit: queue and, unless the coroutine is running, start it.
Submit(tx) ==
    /\ tx \notin ToSet(submitted)
    /\ submitted' = Append(submitted, tx)
    /\ IF stage = "idle" THEN Take(Append(queue, tx), currentNonce)
       ELSE queue' = Append(queue, tx) /\ UNCHANGED <<current, stage, currentNonce>>
    /\ UNCHANGED <<pending, executed, answer, faults, outside>>

\* syncNonce, before the first transaction or after a failed resync.
Synced ==
    /\ stage = "sync"
    /\ currentNonce' = pending /\ stage' = "send"
    /\ UNCHANGED <<queue, current, pending, executed, answer, submitted, faults, outside>>

\* The call fails outside the try: the coroutine ends with processing still set.
BugSyncFails ==
    /\ stage = "sync" /\ Fault /\ stage' = "stuck"
    /\ UNCHANGED <<queue, current, currentNonce, pending, executed, answer, submitted, outside>>

SyncFails ==
    /\ stage = "sync" /\ Fault
    /\ Reply("rejected") /\ Take(queue, Unknown)
    /\ UNCHANGED <<pending, executed, submitted, outside>>

\* The node takes the transaction: execute resolves, and the receipt is awaited.
Sent ==
    /\ stage = "send" /\ currentNonce = pending
    /\ pending' = pending + 1 /\ executed' = Append(executed, current)
    /\ currentNonce' = currentNonce + 1 /\ stage' = "wait"
    /\ UNCHANGED <<queue, current, answer, submitted, faults, outside>>

\* An error that names the nonce: the wallet sent something in between.
NonceRefused ==
    /\ stage = "send" /\ currentNonce < pending
    /\ currentNonce' = Unknown /\ stage' = "resync"
    /\ UNCHANGED <<queue, current, pending, executed, answer, submitted, faults, outside>>

\* Any other error of execute: a call that would revert, or the node out of reach.
Refused ==
    /\ stage = "send" /\ Fault
    /\ Reply("rejected") /\ Take(queue, currentNonce)
    /\ UNCHANGED <<pending, executed, submitted, outside>>

\* Every failure taken for a reason to send again.
BugAnswerLost ==
    /\ stage = "send" /\ currentNonce = pending /\ Fault
    /\ pending' = pending + 1 /\ executed' = Append(executed, current)
    /\ currentNonce' = Unknown /\ stage' = "resync"
    /\ UNCHANGED <<queue, current, answer, submitted, outside>>

\* The node takes it and its answer is lost: rejected although it will run, and
\* the nonce kept is one behind.
AnswerLost ==
    /\ stage = "send" /\ currentNonce = pending /\ Fault
    /\ pending' = pending + 1 /\ executed' = Append(executed, current)
    /\ Reply("rejected") /\ Take(queue, currentNonce)
    /\ UNCHANGED <<submitted, outside>>

\* The nonce is known again and the transaction is taken once more, now first.
Resynced ==
    /\ stage = "resync"
    /\ answer' = answer /\ Take(<<current>> \o queue, pending)
    /\ UNCHANGED <<pending, executed, submitted, faults, outside>>

ResyncFails ==
    /\ stage = "resync" /\ Fault
    /\ Reply("rejected") /\ Take(queue, Unknown)
    /\ UNCHANGED <<pending, executed, submitted, outside>>

Confirmed ==
    /\ stage = "wait"
    /\ Reply("resolved") /\ Take(queue, currentNonce)
    /\ UNCHANGED <<pending, executed, submitted, faults, outside>>

\* Mined and reverted, or the receipt out of reach.
Reverted ==
    /\ stage = "wait" /\ Fault
    /\ Reply("rejected") /\ Take(queue, currentNonce)
    /\ UNCHANGED <<pending, executed, submitted, outside>>

\* Another sender of the key takes over the nonce with a higher fee before the
\* transaction is mined: the error carries the replacement, and it is sent anew.
Replaced ==
    /\ stage = "wait" /\ Fault
    /\ executed' = Front(executed)
    /\ currentNonce' = Unknown /\ stage' = "resync"
    /\ UNCHANGED <<queue, current, pending, answer, submitted, outside>>

\* An agent sends by itself.
SendOutside ==
    /\ outside < MaxOutside
    /\ outside' = outside + 1 /\ pending' = pending + 1
    /\ UNCHANGED <<queue, current, stage, currentNonce, executed, answer, submitted, faults>>

QueueNext ==
    \/ \E tx \in Txs : Submit(tx)
    \/ Synced \/ SyncFails
    \/ Sent \/ NonceRefused \/ Refused \/ AnswerLost
    \/ Resynced \/ ResyncFails
    \/ Confirmed \/ Reverted \/ Replaced
    \/ SendOutside

\* Every call of the coroutine is answered, and what the node takes is mined.
QueueFairness ==
    /\ WF_queueVars(Synced) /\ WF_queueVars(Resynced) /\ WF_queueVars(Confirmed)
    /\ WF_queueVars(Sent \/ NonceRefused)

QueueSpec == QueueInit /\ [][QueueNext]_queueVars /\ QueueFairness

-----------------------------------------------------------------------------
Times(tx) == Cardinality({i \in DOMAIN executed : executed[i] = tx})
Place(s, tx) == CHOOSE i \in DOMAIN s : s[i] = tx

\* Retrying never doubles a bid or a vote: nothing runs twice, what is resolved has
\* run, what is queued has not; and the chain runs transactions in the order they
\* were submitted (hazard: a retry of what the node may already have taken, and the
\* requeueing around it).
ExecutedInOrder ==
    /\ \A tx \in Txs :
          /\ Times(tx) <= 1
          /\ answer[tx] = "resolved" => Times(tx) = 1
          /\ tx \in ToSet(queue) => Times(tx) = 0 /\ answer[tx] = "none"
    /\ \A i, j \in DOMAIN executed :
          i < j => Place(submitted, executed[i]) < Place(submitted, executed[j])

\* Whoever submits hears back, whatever fails (hazard: one coroutine serves every
\* agent, and an error that leaves it would leave `processing` set for good).
Answered == []<>(\A tx \in ToSet(submitted) : answer[tx] # "none")
=============================================================================
