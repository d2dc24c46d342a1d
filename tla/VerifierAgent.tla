--------------------------- MODULE VerifierAgent ---------------------------
(***************************************************************************)
(* The verifier agent (agents/verifier-agent): it joins the pool, hears of *)
(* or polls for tasks it has to verify, analyses the delivery and votes.   *)
(* Handlers of events, polling cycles (which may overlap) and the start-up *)
(* pass interleave at their awaits; one action is what runs between two.   *)
(* The process may die or be stopped at any moment; what it keeps is       *)
(* verifications.json.  The chain is the auction as far as this verifier   *)
(* sees it: the panels it sits in, its own vote, and how many tasks there  *)
(* are.                                                                    *)
(***************************************************************************)
EXTENDS Naturals, FiniteSets, FiniteSetsExt

CONSTANTS
    Tasks,          \* numbers of audit tasks posted and carried out by others
    Required,       \* verifiers a task requires
    VerifierWindow,     \* a poll looks at the last so many tasks (50)
    MaxPosted,      \* bound: tasks ever posted
    Slots,          \* bound: handlers alive at a time
    MaxStops,       \* bound: crashes and stops
    MaxErrors       \* bound: calls that fail on the network

VARIABLES
    status, panel, vote,       \* the chain: the tasks, their panels, our vote
    comparison,                \* the tasks in comparison mode
    compared,                  \* those we sent a comparison for
    taskCount,                 \* tasks posted so far, numbered from 0
    inPool,                    \* we are in the verifier pool
    events,                    \* contract events not yet delivered
    useComparisonMode,         \* the configuration
    records,                   \* verifications.json
    running, active, handler,  \* the process; active is activeVerifications
    stops, errors,
    unresumed                  \* tasks whose resumption a failed call ended

bounds == <<stops, errors, unresumed>>
chain == <<status, panel, vote, comparison, compared, taskCount, inPool>>
memory == <<running, active, handler>>
vars == <<chain, events, useComparisonMode, records, memory, bounds>>

Idle == [pc |-> "idle"]
NoVerdict == [vote |-> "none", cast |-> "none", mode |-> "none"]
NoRecord == [status |-> "none", vote |-> "none", completed |-> FALSE]

\* What an analysis may come to: the agent's own vote, the one sent, and how.
\* A comparison is sent as a score, which the contract judges by a threshold of
\* its own: the agent's may be lower or higher.
Votes == {"approve", "reject"}
Verdicts == {v \in [vote : Votes, cast : Votes, mode : {"standard", "comparison"}] :
                v.mode = "standard" => v.cast = v.vote}

Init ==
    /\ status = [t \in Tasks |-> "Assigned"]
    /\ panel = [t \in Tasks |-> 0]
    /\ vote = [t \in Tasks |-> "none"]
    /\ comparison \in SUBSET Tasks /\ compared = {}
    /\ taskCount = Max(Tasks) + 1
    /\ inPool \in BOOLEAN
    /\ useComparisonMode \in BOOLEAN
    /\ events = {}
    /\ records = [t \in Tasks |-> NoRecord]
    /\ running = FALSE /\ active = {}
    /\ handler = [s \in Slots |-> Idle]
    /\ stops = 0 /\ errors = 0 /\ unresumed = {}

-----------------------------------------------------------------------------
(* The chain.                                                              *)

Emit(es) == events' = IF running THEN events \cup es ELSE events

\* The other verifiers and the poster act at any time.
Deliver(t) ==
    /\ status[t] = "Assigned"
    /\ status' = [status EXCEPT ![t] = "Delivered"]
    /\ Emit({<<"TaskDelivered", t>>})
    /\ UNCHANGED <<panel, vote, comparison, compared, taskCount, inPool, useComparisonMode,
                   records, memory, bounds>>

AssignByVRF(t) ==
    /\ status[t] = "Delivered" /\ inPool
    /\ status' = [status EXCEPT ![t] = "Verifying"]
    /\ panel' = [panel EXCEPT ![t] = Required]
    /\ vote' = [vote EXCEPT ![t] = "Pending"]
    /\ Emit({<<"VerifierAssigned", t>>, <<"VRFVerifiersAssigned", t>>})
    /\ UNCHANGED <<comparison, compared, taskCount, inPool, useComparisonMode, records, memory,
                   bounds>>

OtherRegisters(t) ==
    /\ status[t] \in {"Delivered", "Verifying"} /\ panel[t] < Required
    /\ panel' = [panel EXCEPT ![t] = @ + 1]
    /\ status' = [status EXCEPT ![t] = "Verifying"]
    /\ UNCHANGED <<vote, comparison, compared, taskCount, inPool, events, useComparisonMode,
                   records, memory, bounds>>

\* By votes, by timeout, which turns a vote we owe into a rejection, or by
\* abandonment.
Settle(t) ==
    /\ status[t] = "Verifying"
    /\ status' = [status EXCEPT ![t] = "Settled"]
    /\ \E v \in {vote[t]} \cup (IF vote[t] = "Pending" THEN {"reject"} ELSE {}) :
          vote' = [vote EXCEPT ![t] = v]
    /\ UNCHANGED <<panel, comparison, compared, taskCount, inPool, events, useComparisonMode,
                   records, memory, bounds>>

PostTask ==
    /\ taskCount < MaxPosted /\ taskCount' = taskCount + 1
    /\ UNCHANGED <<status, panel, vote, comparison, compared, inPool, events, useComparisonMode,
                   records, memory, bounds>>

RegisterAllowed(t) ==
    /\ status[t] \in {"Delivered", "Verifying"}
    /\ vote[t] = "none" /\ panel[t] < Required

\* The agent is on the panel and owes its vote.
VoteDue(t) == status[t] = "Verifying" /\ vote[t] = "Pending"

\* The last vote of a panel that is not full is refused: there the task would be
\* settled.  Whether the others of it have voted is left open.
VoteCounts(t) == panel[t] = Required \/ panel[t] > 1

\* A standard vote is cast once; a comparison once as well, over whatever vote there is.
VoteAllowed(t, mode) ==
    /\ VoteCounts(t)
    /\ \/ mode = "standard" /\ VoteDue(t)
       \/ /\ mode = "comparison" /\ status[t] = "Verifying"
          /\ t \in comparison \ compared /\ vote[t] # "none"

-----------------------------------------------------------------------------
(* Handlers and the file.                                                  *)

Handler(kind, pc, t, todo) ==
    [kind |-> kind, pc |-> pc, t |-> t, todo |-> todo, verdict |-> NoVerdict]

At(s, pc) == running /\ handler[s].pc = pc

Free(s) == running /\ handler[s] = Idle

Go(s, h) == handler' = [handler EXCEPT ![s] = h]

\* A handler is done with its task: a loop goes on while there are others.
Leave(h) == IF h.todo = {} THEN Idle ELSE [h EXCEPT !.pc = "loop", !.verdict = NoVerdict]

updateVerification(t, f, v) ==
    records' = [records EXCEPT ![t] =
                    IF @ = NoRecord THEN @ ELSE [@ EXCEPT ![f] = v]]

-----------------------------------------------------------------------------
(* Events.                                                                 *)

\* handleVerifierAssigned up to its first await.
OnVerifierAssigned(s) ==
    /\ Free(s)
    /\ \E e \in events :
          /\ e[1] \in {"VerifierAssigned", "VRFVerifiersAssigned"}
          /\ events' = events \ {e}
          /\ IF e[2] \in active THEN UNCHANGED handler
             ELSE Go(s, Handler("event", "fetch", e[2], {}))
    /\ UNCHANGED <<chain, useComparisonMode, records, running, active, bounds>>

OnTaskDelivered(s) ==
    /\ Free(s)
    /\ \E e \in events :
          /\ e[1] = "TaskDelivered"
          /\ events' = events \ {e}
          /\ Go(s, Handler("event", "consider", e[2], {}))
    /\ UNCHANGED <<chain, useComparisonMode, records, running, active, bounds>>

\* Manual registration: needs a place in the pool, and a call that ethers'
\* estimate lets through.
Consider(s) ==
    /\ At(s, "consider")
    /\ LET h == handler[s]
       IN  Go(s, IF inPool /\ RegisterAllowed(h.t)
                 THEN [h EXCEPT !.pc = "registering"] ELSE Idle)
    /\ UNCHANGED <<chain, events, useComparisonMode, records, running, active, bounds>>

MineRegistration(s) ==
    LET t == handler[s].t
    IN  /\ At(s, "registering")
        /\ Go(s, Idle)
        /\ IF RegisterAllowed(t)
           THEN /\ status' = [status EXCEPT ![t] = "Verifying"]
                /\ panel' = [panel EXCEPT ![t] = @ + 1]
                /\ vote' = [vote EXCEPT ![t] = "Pending"]
                /\ events' = events \cup {<<"VerifierAssigned", t>>}
           ELSE UNCHANGED <<status, panel, vote, events>>
        /\ UNCHANGED <<comparison, compared, taskCount, inPool, useComparisonMode, records,
                       running, active, bounds>>

-----------------------------------------------------------------------------
(* Verifying.                                                              *)

\* After the task was read: the record is written anew, the task is marked
\* active, and the pipeline begins.
BeginVerification(s) ==
    LET h == handler[s]
    IN  /\ At(s, "fetch")
        /\ records' = [records EXCEPT ![h.t] = [NoRecord EXCEPT !.status = "analyzing"]]
        /\ active' = active \cup {h.t}
        /\ Go(s, [h EXCEPT !.pc = "analyze"])
        /\ UNCHANGED <<chain, events, useComparisonMode, running, bounds>>

\* The pipeline failed: recorded, and not active any more.
Fail(s) ==
    LET h == handler[s]
    IN  /\ updateVerification(h.t, "status", "failed")
        /\ active' = active \ {h.t}
        /\ Go(s, Leave(h))
        /\ UNCHANGED <<chain, events, useComparisonMode, running, bounds>>

\* Fetch the report and the criteria, analyse, compare, pin, and ask the
\* chain for the mode; any of it may fail, the last without ending the
\* pipeline: then the vote is a standard one.  The vote is then estimated.
Analyze(s) ==
    /\ At(s, "analyze")
    /\ \/ \E v \in Verdicts :
             /\ v.mode = "comparison" => handler[s].t \in comparison /\ useComparisonMode
             /\ VoteAllowed(handler[s].t, v.mode)
             /\ Go(s, [handler[s] EXCEPT !.pc = "voting", !.verdict = v])
             /\ UNCHANGED <<chain, events, useComparisonMode, records, running, active,
                            bounds>>
       \/ Fail(s)

TakeVote(t, verdict) ==
    /\ vote' = [vote EXCEPT ![t] = verdict.cast]
    /\ compared' = IF verdict.mode = "comparison" THEN compared \cup {t} ELSE compared

\* Recording the vote whether or not the transaction went through.
BugMineVote(s) ==
    LET h == handler[s]  t == h.t
    IN  /\ At(s, "voting")
        /\ IF VoteAllowed(t, h.verdict.mode) THEN TakeVote(t, h.verdict)
           ELSE UNCHANGED <<vote, compared>>
        /\ Go(s, [h EXCEPT !.pc = "voted"])
        /\ UNCHANGED <<status, panel, comparison, taskCount, inPool, events, useComparisonMode,
                       records, running, active, bounds>>

MineVote(s) ==
    LET h == handler[s]  t == h.t
    IN  /\ At(s, "voting")
        /\ \/ /\ VoteAllowed(t, h.verdict.mode) /\ TakeVote(t, h.verdict)
              /\ Go(s, [h EXCEPT !.pc = "voted"])
              /\ UNCHANGED <<status, panel, comparison, taskCount, inPool, events,
                             useComparisonMode, records, running, active, bounds>>
           \/ /\ ~VoteAllowed(t, h.verdict.mode) \/ panel[t] < Required
              /\ Fail(s)

SaveVote(s) ==
    LET h == handler[s]  t == h.t
    IN  /\ At(s, "voted")
        /\ records' = [records EXCEPT ![t] = IF @ = NoRecord THEN @ ELSE
               [status |-> "voted", vote |-> h.verdict.vote, completed |-> TRUE]]
        /\ active' = active \ {t}
        /\ Go(s, Leave(h))
        /\ UNCHANGED <<chain, events, useComparisonMode, running, bounds>>

\* A call that fails on the network.  Before the pipeline the handler just
\* ends; but a failure to read whether the agent has voted counts as no.  In
\* the pipeline the failure is recorded, be the vote cast or not.
NetworkError(s) ==
    LET h == handler[s]
    IN  /\ running /\ errors < MaxErrors /\ errors' = errors + 1
        /\ \/ /\ h.pc \in {"fetch", "consider", "look", "check"}
              /\ Go(s, Leave(h))
              /\ unresumed' = IF h.kind = "start" THEN unresumed \cup {h.t} ELSE unresumed
              /\ UNCHANGED <<records, active>>
           \/ /\ \/ h.pc = "look" /\ vote[h.t] # "none"
                 \/ h.pc = "check"
              /\ status[h.t] = "Verifying" /\ h.t \notin active
              /\ Go(s, [h EXCEPT !.pc = "fetch"])
              /\ UNCHANGED <<records, active, unresumed>>
           \/ /\ h.pc \in {"voting", "voted"}
              /\ updateVerification(h.t, "status", "failed")
              /\ active' = active \ {h.t}
              /\ Go(s, Leave(h))
              /\ UNCHANGED unresumed
        /\ UNCHANGED <<chain, events, useComparisonMode, running, stops>>

-----------------------------------------------------------------------------
(* Polling, and the start-up pass.                                         *)

\* The last tasks there are, when the poll began.
Poll(s) ==
    /\ Free(s)
    /\ Go(s, Leave(Handler("poll", "loop", 0, {t \in Tasks : t + VerifierWindow >= taskCount})))
    /\ UNCHANGED <<chain, events, useComparisonMode, records, running, active, bounds>>

Turn(h, t, pc) == [h EXCEPT !.todo = @ \ {t}, !.t = t, !.pc = pc]

PollTask(s) ==
    /\ At(s, "loop") /\ handler[s].kind = "poll" /\ handler[s].todo # {}
    /\ LET t == Min(handler[s].todo)
       IN  Go(s, IF t \notin active /\ records[t].status \in {"none", "detected"}
                 THEN Turn(handler[s], t, "look") ELSE Leave(Turn(handler[s], t, "loop")))
    /\ UNCHANGED <<chain, events, useComparisonMode, records, running, active, bounds>>

\* Verifying, assigned to us, not voted: then as for an event.
LookAtTask(s) ==
    LET h == handler[s]
    IN  /\ At(s, "look")
        /\ Go(s, IF VoteDue(h.t) /\ h.t \notin active
                 THEN [h EXCEPT !.pc = "fetch"] ELSE Leave(h))
        /\ UNCHANGED <<chain, events, useComparisonMode, records, running, active, bounds>>

\* Taking up only the records of detected tasks.
BugStart(s) ==
    /\ ~running /\ running' = TRUE
    /\ inPool' \in {inPool, TRUE}
    /\ Go(s, Leave(Handler("start", "loop", 0, {t \in Tasks : records[t].status = "detected"})))
    /\ UNCHANGED <<status, panel, vote, comparison, compared, taskCount, events,
                   useComparisonMode, records, active, bounds>>

\* Joining may fail, or have been done before; then the records that
\* were open when the process ended.
Start(s) ==
    /\ ~running /\ running' = TRUE
    /\ inPool' \in {inPool, TRUE}
    /\ Go(s, Leave(Handler("start", "loop", 0,
                           {t \in Tasks : records[t].status \in {"detected", "analyzing"}})))
    /\ UNCHANGED <<status, panel, vote, comparison, compared, taskCount, events,
                   useComparisonMode, records, active, bounds>>

ResumeTask(s) ==
    /\ At(s, "loop") /\ handler[s].kind = "start" /\ handler[s].todo # {}
    /\ LET t == Min(handler[s].todo) IN Go(s, Turn(handler[s], t, "check"))
    /\ UNCHANGED <<chain, events, useComparisonMode, records, running, active, bounds>>

CheckPending(s) ==
    LET h == handler[s]  t == h.t
    IN  /\ At(s, "check")
        /\ \/ /\ status[t] # "Verifying"
              /\ updateVerification(t, "status", "failed")
              /\ Go(s, Leave(h))
           \/ /\ status[t] = "Verifying" /\ vote[t] \in {"approve", "reject"}
              /\ updateVerification(t, "status", "voted")
              /\ Go(s, Leave(h))
           \/ /\ status[t] = "Verifying" /\ vote[t] \notin {"approve", "reject"}
              /\ Go(s, IF t \in active THEN Leave(h) ELSE [h EXCEPT !.pc = "fetch"])
              /\ UNCHANGED records
        /\ UNCHANGED <<chain, events, useComparisonMode, running, active, bounds>>

-----------------------------------------------------------------------------
(* The end of the process.  A stop prunes the closed records that do not   *)
(* say when they were completed; a week never passes here.                 *)

Halt ==
    /\ running /\ stops < MaxStops /\ stops' = stops + 1
    /\ running' = FALSE /\ active' = {} /\ events' = {}
    /\ handler' = [s \in Slots |-> Idle]
    /\ UNCHANGED <<chain, useComparisonMode, errors, unresumed>>

Crash == Halt /\ UNCHANGED records

Stop ==
    /\ Halt
    /\ records' = [t \in Tasks |->
          IF records[t].status \in {"voted", "failed"} /\ ~records[t].completed
          THEN NoRecord ELSE records[t]]

-----------------------------------------------------------------------------
Step(s) ==
    \/ Consider(s) \/ MineRegistration(s)
    \/ BeginVerification(s) \/ Analyze(s) \/ MineVote(s) \/ SaveVote(s)
    \/ PollTask(s) \/ LookAtTask(s) \/ ResumeTask(s) \/ CheckPending(s)

Hear(s) == OnVerifierAssigned(s) \/ OnTaskDelivered(s)

Chain ==
    \/ \E t \in Tasks : Deliver(t) \/ AssignByVRF(t) \/ OtherRegisters(t) \/ Settle(t)
    \/ PostTask

Next ==
    \/ \E s \in Slots : Step(s) \/ Hear(s) \/ Poll(s) \/ Start(s) \/ NetworkError(s)
    \/ Chain \/ Crash \/ Stop

\* The runtime runs what is ready, the timer of the polls ticks, and the
\* process is started again; events may never come.
Fairness ==
    /\ \A s \in Slots : WF_vars(Step(s)) /\ WF_vars(Poll(s))
    /\ WF_vars(\E s \in Slots : Start(s))

Spec == Init /\ [][Next]_vars /\ Fairness

-----------------------------------------------------------------------------
\* What verifications.json says the agent voted is what the contract holds,
\* unless a comparison was sent for the task, which the contract judges for
\* itself, over a vote already cast: however many pipelines ran for the task
\* and wherever the process died.
RecordedVoteCast ==
    \A t \in Tasks :
        records[t].status = "voted" =>
            /\ vote[t] \in Votes
            /\ records[t].vote # "none" => vote[t] = records[t].vote \/ t \in compared

\* A verification that waits for the agent's vote is voted on, ends without
\* it, or is recorded as failed: no crash, missed event or race of handlers
\* leaves it forgotten before newer tasks have pushed it out of the window of
\* the polls, nor does a failed call but the one that resumes it.
PendingHandled ==
    \A t \in Tasks :
        VoteDue(t) ~> \/ ~VoteDue(t) \/ records[t].status = "failed"
                      \/ t \in unresumed \/ t + VerifierWindow < taskCount

=============================================================================
