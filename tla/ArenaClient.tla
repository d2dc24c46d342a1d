---------------------------- MODULE ArenaClient ----------------------------
(***************************************************************************)
(* The SDK's Arena client (sdk/src/client.ts) and the read routes of the   *)
(* REST API: calls that change the chain by one transaction each, and      *)
(* answers put together from many reads.  The reads of an answer come in   *)
(* waves: those of a wave run in parallel and finish in any order, the     *)
(* next wave starts when all are back, and the chain moves on between any  *)
(* two of them.  A read that fails gives its fallback (safeCall) or fails  *)
(* the answer.  One task is followed; other tasks only count.              *)
(* claimSlashBond is left out: it calls the auction, which has no such     *)
(* function, and always throws.                                            *)
(* approveTokenFor*, when the allowance is too small, precedes the calls   *)
(* that stake; its races are in TaskPosters and BidManager.                *)
(***************************************************************************)
EXTENDS Naturals, OutputSchema

CONSTANTS
  Required,    \* verifiers of the task followed; which of them did what is left out
  Kinds,       \* the answers asked for: a subset of DOMAIN Last
  TaskType, Outputs,  \* of the task followed, and what its agent may deliver
  MaxOthers    \* bound: other tasks

VARIABLES
  course,     \* of the task followed: its status on chain and what happened to it
  counters,   \* the chain's counters and logs over all tasks
  reader      \* the answer in the making

clientVars == <<course, counters, reader>>

None == "none"
Becomes(next) == course' = next /\ UNCHANGED reader
Quiet(next) == Becomes(next) /\ UNCHANGED counters

-----------------------------------------------------------------------------
(* Calls that change the chain.  Each gives its transaction's receipt, or  *)
(* throws what parseContractError makes of a revert: then nothing changes. *)

\* createAndFundTask, through submitTask; task 0 is the one followed.
SubmitTask ==
    /\ counters.created <= MaxOthers
    /\ counters' = [counters EXCEPT !.created = @ + 1]
    /\ Becomes(IF course.status = None THEN [course EXCEPT !.status = "open"] ELSE course)

CancelTask ==
    /\ course.status = "open"
    /\ Quiet([course EXCEPT !.status = "cancelled"])

\* bidOnTask, through bid: a commitment.
BidOnTask ==
    /\ course.status = "open" /\ ~course.bid
    /\ Quiet([course EXCEPT !.bid = TRUE])

RevealBid ==
    /\ course.status \in {"open", "bid_reveal"} /\ course.bid /\ ~course.shown
    /\ Quiet([course EXCEPT !.shown = TRUE, !.status = "bid_reveal"])

ResolveAuction ==
    /\ course.status = "bid_reveal" /\ course.shown
    /\ Becomes([course EXCEPT !.status = "assigned", !.assigned = TRUE])
    /\ counters' = [counters EXCEPT !.assignedLogs = @ + 1]

\* deliver: the type of the task is read, the output validated unless the caller skips it, pinned.
Deliver(output, skipValidation) ==
    /\ skipValidation \/ validateOutput(TaskType, output)
    /\ course.status = "assigned"
    /\ Quiet([course EXCEPT !.status = "delivered", !.delivered = TRUE])

RegisterAsVerifier ==
    /\ course.status \in {"delivered", "verifying"} /\ course.panel < Required
    /\ Quiet([course EXCEPT !.status = "verifying", !.panel = @ + 1])

\* The task once every vote of the panel is one way or the other.
Settled(now) ==
    IF 2 * now.approvals > Required
    THEN /\ Becomes([now EXCEPT !.status = "completed"])
         /\ counters' = [counters EXCEPT !.completed = @ + 1, !.paidLogs = @ + 1]
    ELSE Quiet([now EXCEPT !.status =
                  IF 2 * now.approvals < Required THEN "failed" ELSE "disputed"])

\* submitVerification, by one of the panel who has not voted: 1 for 'approved', 2 for
\* anything else.  The last vote settles the task, if the panel is full.
SubmitVerification(vote) ==
    LET now == [course EXCEPT !.voted = @ + 1,
                              !.approvals = @ + (IF vote = "approved" THEN 1 ELSE 0)]
    IN /\ course.status = "verifying" /\ course.voted < course.panel
       /\ IF now.voted < course.panel THEN Quiet(now)
          ELSE course.panel = Required /\ Settled(now)

JoinVerifierPool ==
    /\ counters.pool = 0
    /\ counters' = [counters EXCEPT !.pool = 1] /\ Becomes(course)

LeaveVerifierPool ==
    /\ counters.pool = 1
    /\ counters' = [counters EXCEPT !.pool = 0] /\ Becomes(course)

RaiseDispute ==
    /\ course.status \in {"completed", "failed", "verifying", "disputed"} /\ ~course.dispute
    /\ Quiet([course EXCEPT !.status = "disputed", !.dispute = TRUE])

EnforceDeadline ==
    /\ course.status = "assigned"
    /\ Quiet([course EXCEPT !.status = "failed"])

\* What others do meanwhile: the timeouts of the verification, an insurance policy, the
\* arbitrators' verdict, other tasks of the agent that complete.

\* Silence counts as a rejection, and there is no vote to read of it; when all were silent the
\* task is disputed, be the panel full or not.
OthersTimeOut ==
    /\ course.status = "verifying" /\ course.voted < course.panel
    /\ IF course.voted = 0 THEN Quiet([course EXCEPT !.status = "disputed"])
       ELSE course.panel = Required /\ Settled(course)

\* A delivery nobody verifies, or a verification nobody ends.
OthersAbandon ==
    /\ course.status \in {"delivered", "verifying"}
    /\ Quiet([course EXCEPT !.status = "cancelled"])

OthersInsure ==
    /\ course.status \in {"assigned", "delivered"} /\ ~course.policy
    /\ Quiet([course EXCEPT !.policy = TRUE])

OthersDecide ==
    /\ course.status = "disputed" /\ course.dispute
    /\ \/ /\ Becomes([course EXCEPT !.status = "completed"])
          /\ counters' = [counters EXCEPT !.completed = @ + 1, !.arbitrated = @ + 1]
       \/ Quiet([course EXCEPT !.status = "failed"])

OthersComplete ==
    /\ counters.assignedLogs < counters.created
    /\ counters' = [counters EXCEPT !.assignedLogs = @ + 1, !.completed = @ + 1,
                                    !.paidLogs = @ + 1]
    /\ Becomes(course)

-----------------------------------------------------------------------------
(* Answers.                                                                *)

AssignedStatuses == {"assigned", "delivered", "verifying", "completed", "failed", "disputed"}
\* getAgentStats: of its five counters the one that events can be held against.
Stats == {"completed"}

\* What a read gives at this moment.  The logs of the auction's events are there for the SDK,
\* which asks the auction; the API asks its one address, ArenaCoreMain, which emits none of them.
Logs(kind, n) == IF kind \in {"apiAgents", "apiProfile"} THEN 0 ELSE n
Seen(kind, f) ==
    CASE f = "task" -> course.status
      [] f = "assignment" -> [agent |-> course.assigned, delivered |-> course.delivered]
      [] f = "verifications" -> course.approvals    \* of the votes cast, what they say
      [] f = "bidLogs" -> course.shown
      [] f = "policyId" -> IF course.policy THEN 1 ELSE 0
      [] f = "policy" -> course.policy
      [] f = "disputeId" -> IF course.dispute THEN 1 ELSE 0
      [] f \in {"assignedLogs", "paidLogs"} -> Logs(kind, counters[f])
      [] f = "createdLogs" -> counters.created
      [] OTHER -> counters[f]

\* The waves of each answer, which may depend on what was read before.
DetailsWave(n, got) ==
    CASE n = 1 -> {"task"}
      [] n = 2 -> {"verifications", "policyId", "disputeId"} \cup
                  (IF got.task \in AssignedStatuses THEN {"assignment"} ELSE {})
      [] n = 3 -> IF "assignment" \in DOMAIN got THEN Stats ELSE {}
      [] n = 4 -> IF "policyId" \in DOMAIN got /\ got.policyId > 0 THEN {"policy"} ELSE {}

BugProfileWave(n) == IF n = 1 THEN {"paidLogs"} ELSE Stats
ProfileWave(n) == IF n = 1 THEN Stats ELSE {"paidLogs"}

StatsWave(n) ==
    CASE n = 1 -> {"created", "pool"}
      [] n = 2 -> {"createdLogs"}
      [] n = 3 -> {"assignedLogs"}

\* getOpenTasks reads the count and then task after task; the one followed is the first.
OpenTasksWave(n, got) == IF n = 1 THEN {"created"}
                         ELSE IF got.created > 0 THEN {"task"} ELSE {}

\* getTaskBids: the auction has no getTaskBidders, so that the events are what is left.
TaskBidsWave(n) == {"bidLogs"}

ApiTaskWave(n, got) ==
    CASE n = 1 -> {"created"}
      [] n = 2 -> IF got.created > 0 THEN {"task"} ELSE {}
      [] n = 3 -> IF "task" \in DOMAIN got THEN {"assignment"} ELSE {}

ApiAgentsWave(n, got) == IF n = 1 THEN {"assignedLogs"}
                         ELSE IF got.assignedLogs > 0 THEN Stats ELSE {}

ApiProfileWave(n) == IF n = 1 THEN Stats ELSE {"paidLogs"}

Last == [details |-> 4, profile |-> 2, stats |-> 3, openTasks |-> 2, taskBids |-> 1,
         apiTask |-> 3, apiAgents |-> 2, apiProfile |-> 2]

Wave(kind, n, got) ==
    CASE kind = "details" -> DetailsWave(n, got)
      [] kind = "profile" -> ProfileWave(n)
      [] kind = "stats" -> StatsWave(n)
      [] kind = "openTasks" -> OpenTasksWave(n, got)
      [] kind = "taskBids" -> TaskBidsWave(n)
      [] kind = "apiTask" -> ApiTaskWave(n, got)
      [] kind = "apiAgents" -> ApiAgentsWave(n, got)
      [] kind = "apiProfile" -> ApiProfileWave(n)

\* safeCall: the reads whose failure only leaves a hole in the answer.
Safe(kind, f) ==
    CASE kind = "details" -> f # "task"
      [] kind \in {"profile", "stats", "taskBids"} -> TRUE
      [] OTHER -> FALSE

Idle == [kind |-> None, wave |-> 0, todo |-> {}, got |-> << >>]
AsChain == UNCHANGED <<course, counters>>

Ask(kind) ==
    /\ reader = Idle
    /\ reader' = [kind |-> kind, wave |-> 1, todo |-> Wave(kind, 1, << >>), got |-> << >>]
    /\ AsChain

Read(f) ==
    /\ f \in reader.todo
    /\ reader' = [reader EXCEPT !.todo = @ \ {f},
                    !.got = [g \in DOMAIN @ \cup {f} |-> IF g = f THEN Seen(reader.kind, f)
                                                         ELSE @[g]]]
    /\ AsChain

\* A read fails: a hole, or the end of the answer.
ReadFails(f) ==
    /\ f \in reader.todo
    /\ reader' = IF Safe(reader.kind, f) THEN [reader EXCEPT !.todo = @ \ {f}] ELSE Idle
    /\ AsChain

NextWave ==
    LET n == reader.wave + 1
    IN /\ reader # Idle /\ reader.todo = {} /\ reader.wave < Last[reader.kind]
       /\ reader' = [reader EXCEPT !.wave = n, !.todo = Wave(reader.kind, n, reader.got)]
       /\ AsChain

Answered == reader # Idle /\ reader.todo = {} /\ reader.wave = Last[reader.kind]

Done == Answered /\ reader' = Idle /\ AsChain

Fields == {"task", "assignment", "verifications", "bidLogs", "policyId", "policy", "disputeId",
           "assignedLogs", "paidLogs", "createdLogs", "completed", "created", "pool"}

-----------------------------------------------------------------------------
ClientInit ==
    /\ course = [status |-> None, bid |-> FALSE, shown |-> FALSE, assigned |-> FALSE,
                 delivered |-> FALSE, panel |-> 0, voted |-> 0, approvals |-> 0,
                 dispute |-> FALSE, policy |-> FALSE]
    /\ counters = [created |-> 0, assignedLogs |-> 0, completed |-> 0, paidLogs |-> 0, arbitrated |-> 0, pool |-> 0]
    /\ reader = Idle

Write ==
    \/ SubmitTask \/ CancelTask \/ BidOnTask \/ RevealBid \/ ResolveAuction
    \/ \E output \in Outputs, skip \in BOOLEAN : Deliver(output, skip)
    \/ RegisterAsVerifier \/ \E vote \in {"approved", "rejected"} : SubmitVerification(vote)
    \/ JoinVerifierPool \/ LeaveVerifierPool \/ RaiseDispute \/ EnforceDeadline
    \/ OthersTimeOut \/ OthersAbandon \/ OthersInsure \/ OthersDecide \/ OthersComplete

ClientNext ==
    \/ Write
    \/ \E kind \in Kinds : Ask(kind)
    \/ \E f \in Fields : Read(f) \/ ReadFails(f)
    \/ NextWave \/ Done

ClientSpec == ClientInit /\ [][ClientNext]_clientVars

-----------------------------------------------------------------------------
(* Properties.                                                             *)

Has(f) == f \in DOMAIN reader.got

\* Parts of one answer are read at different moments, and shown together.  What is shown never
\* contradicts itself, unless a read failed: an assigned task has its agent, a delivered one its
\* delivery, a task completed without a dispute the approvals of most of its panel (not always
\* all its votes: a verifier that was silent casts none); an agent's earnings hold every
\* completed task that a panel approved; the tasks' sum holds every task counted.
ReadsConsistent ==
    LET got == reader.got
    IN Answered =>
        /\ Has("task") /\ Has("assignment") =>
             /\ got.task \in AssignedStatuses => got.assignment.agent
             /\ got.task \in {"delivered", "verifying"} => got.assignment.delivered
        /\ Has("task") /\ Has("verifications") /\ Has("disputeId") =>
             (got.task = "completed" /\ got.disputeId = 0
                => 2 * got.verifications > Required)
        /\ Has("policy") => got.policy
        /\ reader.kind = "profile" /\ Has("completed") /\ Has("paidLogs") =>
             got.paidLogs + counters.arbitrated >= got.completed
        /\ Has("created") /\ Has("createdLogs") => got.createdLogs >= got.created
=============================================================================
