--------------------------- MODULE BiddingAgents ---------------------------
(***************************************************************************)
(* The two programs that bid for work, the audit agent                     *)
(* (agents/audit-agent) and the risk agent (agents/risk-agent), each with  *)
(* its files and the auction it bids in.  Both are single-threaded: a      *)
(* handler runs until its next await, so one action is one stretch between *)
(* two awaits, and handlers (contract events, polling cycles that may      *)
(* overlap, the start-up pass) interleave only there.  The process may die *)
(* or be stopped at any time; what it keeps is bids.json, tasks.json and   *)
(* wallet.json.  The chain is the auction as the agents call it.           *)
(*                                                                         *)
(* Time counts in units long enough for every call: a handler lives        *)
(* through at most one tick, and a running agent polls once per unit.      *)
(***************************************************************************)
EXTENDS Naturals, FiniteSets, Sequences, FiniteSetsExt

CONSTANTS
    Tasks,           \* task numbers, from 0
    RightType,       \* the tasks of the type the agent works on; the others
                     \* are open from the start and stay so
    Bounty,          \* [Tasks -> Nat]
    MinBounty, MaxBid, MaxStakePercent,   \* the agent's configuration
    BidDeadline, RevealDeadline, Deadline,
    Lead,            \* time the agent wants to have before the deadline
    ScanWindow,      \* how many of the last tasks a polling cycle looks at
    Programs,        \* a subset of {"audit", "risk"}
    Tolerances,      \* the risk tolerances configured
    Balance,         \* the agent's tokens at the start
    Slots,           \* bound: handlers alive at a time
    Restarts,        \* bound: how often the process is started
    PruneFrom,       \* time from which a record counts as a week old
    MaxTime          \* bound on time

ASSUME RevealAssumption == RevealDeadline \in Nat

VARIABLES
    program, tolerance,        \* which agent runs, and its RISK_TOLERANCE
    now, status, commit, revealed, balance,       \* the chain
    events,                    \* contract events not yet delivered
    tasks, bids, stakes,       \* tasks.json, bids.json, wallet.json
    running, session, handler, \* the process
    polled,                    \* a cycle begun in this unit has ended
    forgotten,                 \* confirmations that never reached the disk
    covered                    \* the agent was up in the reveal window

chain   == <<now, status, commit, revealed, balance>>
disk    == <<tasks, bids, stakes>>
config  == <<program, tolerance>>
history == <<polled, forgotten, covered>>
vars    == <<config, chain, events, disk, running, session, handler, history>>

NoBid   == [salt |-> <<>>]
NoSalt  == <<>>
Idle    == [pc |-> "idle"]

Init ==
    /\ program \in Programs /\ tolerance \in Tolerances
    /\ now = 0
    /\ status = [t \in Tasks |-> IF t \in RightType THEN "none" ELSE "Open"]
    /\ commit = [t \in Tasks |-> NoSalt]
    /\ revealed = [t \in Tasks |-> FALSE]
    /\ balance = Balance
    /\ events = {}
    /\ tasks = [t \in Tasks |-> "none"]
    /\ bids = [t \in Tasks |-> NoBid]
    /\ stakes = {}
    /\ running = FALSE /\ session = 0
    /\ handler = [s \in Slots |-> Idle]
    /\ polled = FALSE /\ forgotten = {} /\ covered = TRUE

-----------------------------------------------------------------------------
(* The bid: a share of the bounty that grows with the risk tolerance.      *)

AuditStakePercent ==
    [conservative |-> 10, medium |-> 15, aggressive |-> 20]
RiskStakePercent ==
    [conservative |-> 8, medium |-> 12, aggressive |-> 18]

Stake(t) ==
    (Bounty[t] * (IF program = "audit" THEN AuditStakePercent
                  ELSE RiskStakePercent)[tolerance]) \div 100

Staked == MapThenSumSet(Stake, stakes)

Available == IF balance > Staked THEN balance - Staked ELSE 0

CanAffordBid(t) ==
    /\ Stake(t) <= MaxBid
    /\ Stake(t) <= (balance * MaxStakePercent) \div 100
    /\ Stake(t) <= Available

AuditShouldBid(t) ==
    /\ t \in RightType
    /\ Bounty[t] >= MinBounty
    /\ bids[t] = NoBid
    /\ Deadline >= now + Lead
    /\ now <= BidDeadline

RiskShouldBid(t) ==
    /\ t \in RightType
    /\ Bounty[t] >= MinBounty
    /\ bids[t] = NoBid
    /\ now <= BidDeadline
    /\ Deadline >= now + Lead

-----------------------------------------------------------------------------
(* What the contracts let through.                                         *)

CommitAllowed(t) ==
    status[t] = "Open" /\ now < BidDeadline /\ commit[t] = NoSalt

RevealAllowed(t, salt) ==
    /\ now >= BidDeadline /\ now < RevealDeadline
    /\ commit[t] # NoSalt /\ ~revealed[t]
    /\ commit[t] = salt
    /\ Stake(t) >= Bounty[t] \div 10
    /\ balance >= Stake(t)
    /\ status[t] # "Cancelled"

DeliverAllowed(t) == status[t] = "Assigned" /\ now <= Deadline

\* The agent's tokens the auction holds.
Escrowed(t) == revealed[t] /\ status[t] \in {"BidReveal", "Assigned", "Delivered"}

-----------------------------------------------------------------------------
(* The files.  updateTaskState and updateBidRecord change only entries     *)
(* that exist.                                                             *)

UpdateTask(t, st) ==
    tasks' = [tasks EXCEPT ![t] = IF @ = "none" THEN @ ELSE st]

SaveTask(t, st) == tasks' = [tasks EXCEPT ![t] = st]

SaveBid(t, salt) ==
    bids' = [bids EXCEPT ![t] =
                 [salt |-> salt, revealed |-> FALSE, assigned |-> FALSE]]

UpdateBid(t, f) ==
    bids' = [bids EXCEPT ![t] = IF @ = NoBid THEN @ ELSE [@ EXCEPT ![f] = TRUE]]

RecordStake(t) == stakes' = stakes \cup {t}

ReleaseStake(t) == stakes' = stakes \ {t}

Old == now >= PruneFrom

PruneOldRecords ==
    LET gone == {t \in Tasks :
                    tasks[t] \in {"completed", "failed", "skipped"} /\ Old}
    IN  /\ tasks' = [t \in Tasks |-> IF t \in gone THEN "none" ELSE tasks[t]]
        /\ bids' = [t \in Tasks |->
                       IF tasks'[t] = "none" /\ Old THEN NoBid ELSE bids[t]]

-----------------------------------------------------------------------------
(* Handlers.  An event's handler works on one task; a polling cycle and    *)
(* the start-up pass go through stages, each a loop over a list read when  *)
(* the stage begins ("snap"), at the time read then ("at").                *)

EventHandler(t, pc) ==
    [kind |-> "event", stage |-> "none", todo |-> <<>>, snap |-> {}, at |-> now,
     t |-> t, pc |-> pc, salt |-> NoSalt, clean |-> TRUE, age |-> 0]

LoopHandler(kind, todo) ==
    [EventHandler(0, "loop") EXCEPT !.kind = kind, !.todo = todo]

AuditPoll  == <<"scan", "reveal">>
AuditStart == <<"reveal", "resume">>
RiskPoll   == <<"reveal", "assign", "scan">>
RiskStart  == <<"recover">> \o RiskPoll

Put(s, h) == handler' = [handler EXCEPT ![s] = h]

\* What follows when a handler is done with its task.
Leave(h) == IF h.kind = "event" THEN Idle ELSE [h EXCEPT !.pc = "loop"]

Go(s, pc) == handler' = [handler EXCEPT ![s].pc = pc]

At(s, pc) == running /\ handler[s].pc = pc

\* Both agents poll the last tasks; tasks are numbered from 0, and the risk
\* agent begins with task 1.
ScanRange ==
    LET count == Cardinality({t \in Tasks : status[t] # "none"})
    IN  {t \in Tasks : /\ t < count /\ t + ScanWindow >= count
                       /\ program = "risk" => t >= 1}

\* Looking for bids to reveal by the state of their tasks.
BugListByTask(stage) ==
    CASE stage = "scan"   -> ScanRange
      [] stage = "reveal" -> {t \in Tasks : tasks[t] = "bid_committed"}
      [] stage = "resume" -> {t \in Tasks : tasks[t] = "assigned"}

AuditList(stage) ==
    CASE stage = "scan"   -> ScanRange
      [] stage = "reveal" -> {t \in Tasks : /\ bids[t] # NoBid
                                            /\ ~bids[t].revealed /\ ~bids[t].assigned}
      [] stage = "resume" -> {t \in Tasks : tasks[t] = "assigned"}

RiskList(stage) ==
    CASE stage = "scan"    -> ScanRange
      [] stage = "reveal"  -> {t \in Tasks : tasks[t] = "bid_committed"}
      [] stage = "assign"  -> {t \in Tasks : tasks[t] = "bid_revealed"}
      [] stage = "recover" -> {t \in Tasks : tasks[t] \in {"assigned", "executing"}}

Snapshot(stage) == IF program = "audit" THEN AuditList(stage) ELSE RiskList(stage)

NextStage(s) ==
    /\ At(s, "loop") /\ handler[s].snap = {} /\ handler[s].todo # <<>>
    /\ LET h == handler[s]
       IN  Put(s, [h EXCEPT !.stage = Head(h.todo), !.todo = Tail(h.todo),
                            !.snap = Snapshot(Head(h.todo)), !.at = now])
    /\ UNCHANGED <<config, chain, events, disk, running, session, history>>

EndLoop(s) ==
    /\ At(s, "loop") /\ handler[s].snap = {} /\ handler[s].todo = <<>>
    /\ polled' = (polled \/ (/\ handler[s].kind = "poll"
                             /\ handler[s].clean /\ handler[s].age = 0))
    /\ Put(s, Idle)
    /\ UNCHANGED <<config, chain, events, disk, running, session, forgotten, covered>>

\* One round of a loop: on to the task at pc, or past it.
Round(s, t, pc) ==
    Put(s, [handler[s] EXCEPT !.snap = @ \ {t}, !.t = t, !.pc = pc])

InStage(s, stage) == At(s, "loop") /\ handler[s].stage = stage

ScanTask(s) ==
    /\ InStage(s, "scan") /\ handler[s].snap # {}
    /\ LET t == Min(handler[s].snap)
       IN  Round(s, t, IF tasks[t] = "none" /\ status[t] = "Open" /\ t \in RightType
                       THEN "evaluate" ELSE "loop")
    /\ UNCHANGED <<config, chain, events, disk, running, session, history>>

\* checkPendingReveals of the audit agent: the list and the time are those
\* the loop began with.
CheckPendingReveal(s) ==
    /\ program = "audit" /\ InStage(s, "reveal")
    /\ \E t \in handler[s].snap :
          LET at   == handler[s].at
              open == status[t] = "BidReveal" \/ (at > BidDeadline /\ at <= RevealDeadline)
          IN  /\ Round(s, t, IF open THEN "reveal" ELSE "loop")
              /\ IF ~open /\ at > RevealDeadline
                 THEN UpdateTask(t, "failed") ELSE UNCHANGED tasks
    /\ UNCHANGED <<config, chain, events, bids, stakes, running, session, history>>

\* checkAndRevealBids of the risk agent: by the state of the task.
CheckAndReveal(s) ==
    /\ program = "risk" /\ InStage(s, "reveal")
    /\ \E t \in handler[s].snap :
          Round(s, t, IF /\ bids[t] # NoBid /\ ~bids[t].revealed
                         /\ now > BidDeadline /\ now <= RevealDeadline
                      THEN "reveal" ELSE "loop")
    /\ UNCHANGED <<config, chain, events, disk, running, session, history>>

\* The risk agent's polling cycle looks for assignments it heard nothing of.
CheckAssignment(s) ==
    /\ InStage(s, "assign")
    /\ \E t \in handler[s].snap :
          Round(s, t, IF status[t] = "Assigned" THEN "assign" ELSE "loop")
    /\ UNCHANGED <<config, chain, events, disk, running, session, history>>

\* At start-up the audit agent takes up the tasks it finds assigned, the
\* risk agent those it was executing as well.
ResumeTask(s) ==
    /\ program = "audit" /\ InStage(s, "resume")
    /\ \E t \in handler[s].snap : Round(s, t, "execute")
    /\ UNCHANGED <<config, chain, events, disk, running, session, history>>

RecoverTask(s) ==
    /\ program = "risk" /\ InStage(s, "recover")
    /\ \E t \in handler[s].snap : Round(s, t, "assign")
    /\ UNCHANGED <<config, chain, events, disk, running, session, history>>

-----------------------------------------------------------------------------
(* Bidding: evaluate, commit, wait for the receipt, save the salt.         *)

TakeOrSkip(s, good) ==
    /\ At(s, "evaluate")
    /\ IF good
       THEN Go(s, "afford") /\ UNCHANGED tasks
       ELSE SaveTask(handler[s].t, "skipped") /\ Put(s, Leave(handler[s]))
    /\ UNCHANGED <<config, chain, events, bids, stakes, running, session, history>>

AuditEvaluate(s) ==
    program = "audit" /\ running /\ TakeOrSkip(s, AuditShouldBid(handler[s].t))

RiskEvaluate(s) ==
    program = "risk" /\ running /\ TakeOrSkip(s, RiskShouldBid(handler[s].t))

SendCommit(s) ==
    LET h == handler[s]  t == h.t
    IN  /\ At(s, "afford")
        /\ IF ~CanAffordBid(t)
           THEN SaveTask(t, "skipped") /\ Put(s, Leave(h))
           ELSE /\ UNCHANGED tasks
                /\ Put(s, IF CommitAllowed(t)
                          THEN [h EXCEPT !.pc = "committing", !.salt = <<session, s>>]
                          ELSE Leave(h))
        /\ UNCHANGED <<config, chain, events, bids, stakes, running, session, history>>

\* Not waiting for the receipt's status.
BugMineCommit(s) ==
    LET h == handler[s]  t == h.t
    IN  /\ At(s, "committing")
        /\ Go(s, "committed")
        /\ commit' = IF CommitAllowed(t) THEN [commit EXCEPT ![t] = h.salt] ELSE commit
        /\ UNCHANGED <<config, now, status, revealed, balance, events, disk,
                       running, session, history>>

MineCommit(s) ==
    LET h == handler[s]  t == h.t
    IN  /\ At(s, "committing")
        /\ IF CommitAllowed(t)
           THEN Go(s, "committed") /\ commit' = [commit EXCEPT ![t] = h.salt]
           ELSE Put(s, Leave(h)) /\ UNCHANGED commit
        /\ UNCHANGED <<config, now, status, revealed, balance, events, disk,
                       running, session, history>>

SaveCommit(s) ==
    LET h == handler[s]
    IN  /\ At(s, "committed")
        /\ SaveBid(h.t, h.salt)
        /\ SaveTask(h.t, "bid_committed")
        /\ Put(s, Leave(h))
        /\ UNCHANGED <<config, chain, events, stakes, running, session, history>>

SendReveal(s) ==
    LET h == handler[s]  t == h.t
    IN  /\ At(s, "reveal")
        /\ IF bids[t] # NoBid /\ bids[t].revealed
           THEN UpdateTask(t, "bid_revealed") /\ Put(s, Leave(h))
           ELSE /\ UNCHANGED tasks
                /\ IF bids[t] # NoBid /\ RevealAllowed(t, bids[t].salt)
                   THEN Go(s, "revealing") ELSE Put(s, Leave(h))
        /\ UNCHANGED <<config, chain, events, bids, stakes, running, session, history>>

MineReveal(s) ==
    LET h == handler[s]  t == h.t
    IN  /\ At(s, "revealing")
        /\ IF RevealAllowed(t, bids[t].salt)
           THEN /\ Go(s, "revealed")
                /\ revealed' = [revealed EXCEPT ![t] = TRUE]
                /\ status' = [status EXCEPT ![t] = "BidReveal"]
                /\ balance' = balance - Stake(t)
           ELSE Put(s, Leave(h)) /\ UNCHANGED <<revealed, status, balance>>
        /\ UNCHANGED <<config, now, commit, events, disk, running, session, history>>

\* Recording the stake only for a task that is tracked.
BugSaveReveal(s) ==
    LET h == handler[s]  t == h.t
    IN  /\ At(s, "revealed")
        /\ UpdateBid(t, "revealed")
        /\ IF tasks[t] = "bid_committed" THEN RecordStake(t) ELSE UNCHANGED stakes
        /\ UpdateTask(t, "bid_revealed")
        /\ Put(s, Leave(h))
        /\ UNCHANGED <<config, chain, events, running, session, history>>

SaveReveal(s) ==
    LET h == handler[s]  t == h.t
    IN  /\ At(s, "revealed")
        /\ UpdateBid(t, "revealed")
        /\ RecordStake(t)
        /\ UpdateTask(t, "bid_revealed")
        /\ Put(s, Leave(h))
        /\ UNCHANGED <<config, chain, events, running, session, history>>

-----------------------------------------------------------------------------
(* Doing the task.                                                         *)

\* handleAssignment of the risk agent, by event, poll or recovery.
Assign(s) ==
    LET h == handler[s]  t == h.t
    IN  /\ At(s, "assign")
        /\ UpdateTask(t, "executing")
        /\ UpdateBid(t, "assigned")
        /\ IF tasks[t] = "none" THEN Put(s, Leave(h)) ELSE Go(s, "work")
        /\ UNCHANGED <<config, chain, events, stakes, running, session, history>>

\* The audit agent resumes a task it finds assigned.
Execute(s) ==
    /\ At(s, "execute")
    /\ UpdateTask(handler[s].t, "executing")
    /\ Go(s, "work")
    /\ UNCHANGED <<config, chain, events, bids, stakes, running, session, history>>

\* Criteria, source, analysis, report, validation, pin: any of them may
\* fail; then the delivery, which ethers estimates before it is sent.
AuditWork(s) ==
    LET h == handler[s]  t == h.t
    IN  /\ program = "audit" /\ At(s, "work")
        /\ \/ DeliverAllowed(t) /\ Go(s, "delivering") /\ UNCHANGED tasks
           \/ UpdateTask(t, "failed") /\ Put(s, Leave(h))
        /\ UNCHANGED <<config, chain, events, bids, stakes, running, session, history>>

\* The risk agent calls "deliver", which the contracts do not have.
RiskWork(s) ==
    /\ program = "risk" /\ At(s, "work")
    /\ UpdateTask(handler[s].t, "failed")
    /\ Put(s, Leave(handler[s]))
    /\ UNCHANGED <<config, chain, events, bids, stakes, running, session, history>>

MineDelivery(s) ==
    LET h == handler[s]  t == h.t
    IN  /\ At(s, "delivering")
        /\ IF DeliverAllowed(t)
           THEN /\ status' = [status EXCEPT ![t] = "Delivered"]
                /\ Go(s, "delivered") /\ UNCHANGED tasks
           ELSE UpdateTask(t, "failed") /\ Put(s, Leave(h)) /\ UNCHANGED status
        /\ UNCHANGED <<config, now, commit, revealed, balance, events, bids, stakes,
                       running, session, history>>

SaveDelivery(s) ==
    /\ At(s, "delivered")
    /\ UpdateTask(handler[s].t, "delivered")
    /\ Put(s, Leave(handler[s]))
    /\ UNCHANGED <<config, chain, events, bids, stakes, running, session, history>>

\* A call that fails on the network ends the work on the task; the answer
\* to a transaction already mined is lost.
NetworkError(s) ==
    LET h == handler[s]
    IN  /\ running
        /\ h.pc \in {"evaluate", "afford", "committed", "reveal", "revealed"}
        /\ forgotten' = IF h.pc \in {"committed", "revealed"}
                        THEN forgotten \cup {h.t} ELSE forgotten
        /\ Put(s, IF h.kind = "event" THEN Idle
                  ELSE [h EXCEPT !.pc = "loop", !.clean = FALSE])
        /\ UNCHANGED <<config, chain, events, disk, running, session, polled, covered>>

-----------------------------------------------------------------------------
(* Contract events.                                                        *)

Free(s) == running /\ handler[s] = Idle

OnTaskCreated(s) ==
    /\ Free(s)
    /\ \E e \in events :
          /\ e[1] = "TaskCreated"
          /\ events' = events \ {e}
          /\ Put(s, EventHandler(e[2], "evaluate"))
    /\ UNCHANGED <<config, chain, disk, running, session, history>>

\* Both agents save "assigned", then "executing", before their first await;
\* the risk agent gives up on a task it does not track.
Assigned(s, accept(_)) ==
    /\ Free(s)
    /\ \E e \in events :
          LET t == e[2]
          IN  /\ e[1] = "AgentAssigned"
              /\ events' = events \ {e}
              /\ UpdateTask(t, "executing")
              /\ UpdateBid(t, "assigned")
              /\ Put(s, IF accept(t) THEN EventHandler(t, "work") ELSE Idle)
    /\ UNCHANGED <<config, chain, stakes, running, session, history>>

AuditAssigned(s) == program = "audit" /\ Assigned(s, LAMBDA t : TRUE)

RiskAssigned(s) == program = "risk" /\ Assigned(s, LAMBDA t : tasks[t] # "none")

OnTaskCompleted ==
    /\ running
    /\ \E e \in events :
          /\ e[1] = "TaskCompleted"
          /\ events' = events \ {e}
          /\ ReleaseStake(e[2])
          /\ UpdateTask(e[2], "completed")
    /\ UNCHANGED <<config, chain, bids, running, session, handler, history>>

\* Only the audit agent listens for slashing.
OnAgentSlashed ==
    /\ running
    /\ \E e \in events :
          /\ e[1] = "AgentSlashed"
          /\ events' = events \ {e}
          /\ IF program = "audit"
             THEN ReleaseStake(e[2]) /\ UpdateTask(e[2], "failed")
             ELSE UNCHANGED <<stakes, tasks>>
    /\ UNCHANGED <<config, chain, bids, running, session, handler, history>>

OnTaskCancelled ==
    /\ running
    /\ \E e \in events :
          /\ e[1] = "TaskCancelled"
          /\ events' = events \ {e}
          /\ IF tasks[e[2]] = "none" THEN UNCHANGED stakes ELSE ReleaseStake(e[2])
          /\ UpdateTask(e[2], "failed")
    /\ UNCHANGED <<config, chain, bids, running, session, handler, history>>

-----------------------------------------------------------------------------
(* The process.                                                            *)

Start(s) ==
    /\ ~running /\ session < Restarts
    /\ running' = TRUE /\ session' = session + 1
    /\ Put(s, LoopHandler("start", IF program = "audit" THEN AuditStart ELSE RiskStart))
    /\ UNCHANGED <<config, chain, events, disk, history>>

\* setInterval does not wait for the cycle before.
Poll(s) ==
    /\ Free(s) /\ ~polled
    /\ Put(s, LoopHandler("poll", IF program = "audit" THEN AuditPoll ELSE RiskPoll))
    /\ UNCHANGED <<config, chain, events, disk, running, session, history>>

Halt ==
    /\ running /\ running' = FALSE
    /\ handler' = [s \in Slots |-> Idle]
    /\ events' = {}
    /\ polled' = FALSE
    /\ forgotten' = forgotten \cup
          {handler[s].t : s \in {z \in Slots : handler[z].pc \in {"committed", "revealed"}}}
    /\ UNCHANGED <<config, chain, stakes, session, covered>>

\* The process dies: a transaction it sent was mined before or never.
Crash == Halt /\ UNCHANGED <<tasks, bids>>

\* It dies in the handler of AgentAssigned, between two of its files.
CrashWhileSaving ==
    /\ Halt
    /\ \E e \in events : e[1] = "AgentAssigned" /\ UpdateTask(e[2], "assigned")
    /\ UNCHANGED bids

\* SIGINT, SIGTERM: records a week old are dropped on the way out.
Stop == Halt /\ PruneOldRecords

-----------------------------------------------------------------------------
(* The chain: the poster, the other bidders, the verifiers, time.          *)

Emit(e) == events' = IF running THEN events \cup {e} ELSE events

Post(t) ==
    /\ now = 0 /\ status[t] = "none"
    /\ \A u \in Tasks : u < t => status[u] # "none"
    /\ status' = [status EXCEPT ![t] = "Open"]
    /\ Emit(<<"TaskCreated", t>>)
    /\ UNCHANGED <<config, now, commit, revealed, balance, disk, running, session,
                   handler, history>>

Cancel(t) ==
    /\ status[t] = "Open"
    /\ status' = [status EXCEPT ![t] = "Cancelled"]
    /\ Emit(<<"TaskCancelled", t>>)
    /\ UNCHANGED <<config, now, commit, revealed, balance, disk, running, session,
                   handler, history>>

OtherReveals(t) ==
    /\ status[t] = "Open" /\ now >= BidDeadline /\ now < RevealDeadline
    /\ status' = [status EXCEPT ![t] = "BidReveal"]
    /\ UNCHANGED <<config, now, commit, revealed, balance, events, disk, running,
                   session, handler, history>>

ResolveAuction(t) ==
    /\ status[t] = "BidReveal" /\ now >= RevealDeadline
    /\ \/ /\ revealed[t]
          /\ status' = [status EXCEPT ![t] = "Assigned"]
          /\ Emit(<<"AgentAssigned", t>>)
          /\ UNCHANGED balance
       \/ /\ status' = [status EXCEPT ![t] = "Lost"]
          /\ balance' = IF revealed[t] THEN balance + Stake(t) ELSE balance
          /\ UNCHANGED events
    /\ UNCHANGED <<config, now, commit, revealed, disk, running, session, handler,
                   history>>

Settle(t) ==
    /\ status[t] = "Delivered"
    /\ \/ /\ status' = [status EXCEPT ![t] = "Completed"]
          /\ balance' = balance + Stake(t)
          /\ Emit(<<"TaskCompleted", t>>)
       \/ /\ status' = [status EXCEPT ![t] = "Failed"]
          /\ Emit(<<"AgentSlashed", t>>) /\ UNCHANGED balance
    /\ UNCHANGED <<config, now, commit, revealed, disk, running, session, handler,
                   history>>

EnforceDeadline(t) ==
    /\ status[t] = "Assigned" /\ now > Deadline
    /\ status' = [status EXCEPT ![t] = "Failed"]
    /\ Emit(<<"AgentSlashed", t>>)
    /\ UNCHANGED <<config, now, commit, revealed, balance, disk, running, session,
                   handler, history>>

Tick ==
    /\ now < MaxTime
    /\ running => polled /\ events = {}
    /\ \A s \in Slots : handler[s] # Idle => handler[s].age = 0
    /\ now' = now + 1
    /\ handler' = [s \in Slots |-> IF handler[s] = Idle THEN Idle
                                   ELSE [handler[s] EXCEPT !.age = 1]]
    /\ polled' = FALSE
    /\ covered' = (covered /\ (now > BidDeadline /\ now < RevealDeadline => running))
    /\ UNCHANGED <<config, status, commit, revealed, balance, events, disk, running,
                   session, forgotten>>

-----------------------------------------------------------------------------
Bidding == \E s \in Slots :
    \/ NextStage(s) \/ EndLoop(s) \/ ScanTask(s)
    \/ AuditEvaluate(s) \/ RiskEvaluate(s)
    \/ SendCommit(s) \/ MineCommit(s) \/ SaveCommit(s)
    \/ CheckPendingReveal(s) \/ CheckAndReveal(s)
    \/ SendReveal(s) \/ MineReveal(s) \/ SaveReveal(s) \/ NetworkError(s)

Working == \E s \in Slots :
    \/ CheckAssignment(s) \/ ResumeTask(s) \/ RecoverTask(s)
    \/ Assign(s) \/ Execute(s) \/ AuditWork(s) \/ RiskWork(s)
    \/ MineDelivery(s) \/ SaveDelivery(s)

Listening ==
    \/ \E s \in Slots : OnTaskCreated(s) \/ AuditAssigned(s) \/ RiskAssigned(s)
    \/ OnTaskCompleted \/ OnAgentSlashed \/ OnTaskCancelled

Process ==
    \/ \E s \in Slots : Start(s) \/ Poll(s)
    \/ Crash \/ CrashWhileSaving \/ Stop

Chain ==
    \/ \E t \in RightType : \/ Post(t) \/ Cancel(t) \/ OtherReveals(t)
                            \/ ResolveAuction(t) \/ Settle(t) \/ EnforceDeadline(t)
    \/ Tick

Next == Bidding \/ Working \/ Listening \/ Process \/ Chain

Spec == Init /\ [][Next]_vars

-----------------------------------------------------------------------------
\* The salt on disk is the one whose hash the auction holds, whatever
\* handlers race for the same task and wherever the process dies: a reveal
\* never fails for a salt.
SaltsMatch ==
    \A t \in Tasks : bids[t] # NoBid => bids[t].salt = commit[t]

\* Tokens of the agent the auction holds are in wallet.json, unless the
\* receipt of the reveal was lost: the agent does not bid them again.
StakesTracked ==
    \A t \in Tasks :
        Escrowed(t) => \/ t \in stakes \cup forgotten
                       \/ \E s \in Slots : handler[s].pc = "revealed" /\ handler[s].t = t

\* A bid whose salt the audit agent saved is revealed when the agent is up
\* in the reveal window and can pay, whatever became of the task's state.
SavedBidIsRevealed ==
    program = "audit" /\ now >= RevealDeadline /\ covered =>
        \A t \in Tasks :
            bids[t] # NoBid => \/ revealed[t]
                               \/ status[t] = "Cancelled"
                               \/ balance < Stake(t)
=============================================================================
