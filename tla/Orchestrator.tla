---------------------------- MODULE Orchestrator ----------------------------
(***************************************************************************)
(* The agent orchestrator (agents/orchestrator/src): the registry of       *)
(* agents, configured through the one process.env they share               *)
(* (agent-wrappers.ts), their start and stop (orchestrator.ts), the router *)
(* that follows the tasks by events and by polling (task-router.ts), and   *)
(* the profit and loss it records (pnl-tracker.ts).                        *)
(*                                                                         *)
(* An action is the stretch between two awaits.  Events are delivered in   *)
(* order; a poll's getTask is answered with an earlier state than the      *)
(* events handled meanwhile may have reported.  A poll asks for one task   *)
(* more than there are, and takes the empty answer for a task.             *)
(***************************************************************************)
EXTENDS Integers, Sequences, SequencesExt, FiniteSets, TLC

CONSTANTS
    Enabled,      \* the agents that are enabled
    TaskTypes,    \* the types tasks are created with
    Earlier,      \* tasks created and cancelled before the first start
    RouterWindow, \* a poll looks at the last so many tasks (30)
    MaxRecords,   \* a stop keeps the last so many records (500)
    MaxTasks,     \* bound: tasks ever created, numbered from 0
    MaxEvents,    \* bound: events under way
    MaxRestarts   \* bound: times the process is started again

AgentIds == <<"audit", "verifier", "risk">>    \* in the order they are registered
Agents   == ToSet(AgentIds)

TASK_TYPE_ROUTES == [audit |-> "audit", risk_validation |-> "risk", other |-> "none"]

ASSUME TasksAssumption ==
    /\ MaxTasks \in Nat /\ Earlier \in 0 .. MaxTasks /\ TaskTypes \subseteq DOMAIN TASK_TYPE_ROUTES
    /\ RouterWindow \in Nat /\ MaxRecords \in Nat

\* What a task earns and what a slash takes, in USDC.
Payout == 3
Slash  == 2

VARIABLES
    env,          \* process.env, as far as the agents' settings go
    agentStatus,  \* agentStatus[a] of a registered agent, or "absent"
    agentSettings,\* agentSettings[a]: what the agent's loadConfig read; <<>> before
    phase,        \* of the orchestrator; it polls while "running"
    listening,    \* are the router's listeners attached?
    chainTasks,   \* the tasks on the chain: type, status, and whether this wallet has it
    chainEvents,  \* on their way to the listeners
    trackedTasks, \* trackedTasks[t]: status and routedTo, or NotTracked
    poll,         \* the poll under way: its first, next and last task, what getTask saw
    pnl,          \* pnl.json
    known,        \* observer: the tasks the router cannot have missed
    misread,      \* observer: the tasks last entered before they existed, by a poll
    outcomes,     \* observer: how this wallet's tasks ended, on the chain
    expected,     \* observer: those reported of tasks known and not misread, while kept
    restarts

agentVars  == <<env, agentStatus, agentSettings, phase>>
routerVars == <<listening, trackedTasks, poll, pnl, known, misread, expected>>
chainVars  == <<chainTasks, outcomes>>
orchestratorVars == <<agentVars, routerVars, chainVars, chainEvents, restarts>>

TaskIds    == 0 .. MaxTasks    \* and the one that is asked for before it exists
NotTracked == [status |-> "none", routedTo |-> "none"]
Unread     == "unread"
Empty      == "empty"
Asked      == "asked"
Stub       == <<"stub">>
NoPoll     == [first |-> 0, next |-> 0, last |-> 0, seen |-> Unread, complete |-> TRUE]

-----------------------------------------------------------------------------
(* The registry.  RISK_MODEL and POOL_STAKE_USDC stand for the settings of *)
(* one agent, MAX_BID_USDC for those that are the same for several.        *)

buildAuditConfig    == [DATA_DIR |-> "audit-agent", MAX_BID_USDC |-> "limit"]
buildVerifierConfig == [DATA_DIR |-> "verifier-agent", POOL_STAKE_USDC |-> "stake"]
buildRiskConfig     == [DATA_DIR |-> "risk-agent", MAX_BID_USDC |-> "limit",
                        RISK_MODEL |-> "model"]

ConfigOf(a) == CASE a = "audit"    -> buildAuditConfig
                 [] a = "verifier" -> buildVerifierConfig
                 [] a = "risk"     -> buildRiskConfig

Rank(a) == CHOOSE i \in DOMAIN AgentIds : AgentIds[i] = a

injectEnv(envVars) == env' = envVars @@ env

\* createAgentRegistry reaches one agent after the other; a disabled one is passed
\* over.
CreateAgent(a) ==
    /\ phase = "new" /\ a \in Enabled
    /\ \A b \in Agents : Rank(b) >= Rank(a) => agentStatus[b] = "absent"
    /\ injectEnv(ConfigOf(a))
    /\ agentStatus' = [agentStatus EXCEPT ![a] = "stopped"]
    /\ UNCHANGED <<agentSettings, phase>>

\* start, up to the agents' own start.
StartAll ==
    /\ phase = "new" /\ \A a \in Enabled : agentStatus[a] = "stopped"
    /\ phase' = "starting"
    /\ agentStatus' = [a \in Agents |-> IF agentStatus[a] = "stopped" THEN "starting"
                                        ELSE agentStatus[a]]
    /\ UNCHANGED <<env, agentSettings>>

\* DynamicAgentWrapper.start: the factory imports the agent and loads its settings;
\* an agent that cannot be imported is replaced by a stub, which has none.
StartWrapper(a) ==
    /\ agentStatus[a] = "starting" /\ agentSettings[a] = <<>>
    /\ \E found \in BOOLEAN :
          agentSettings' = [agentSettings EXCEPT ![a] = IF found THEN env ELSE Stub]
    /\ UNCHANGED <<env, agentStatus, phase>>

\* startAllAgents: one that fails does not keep the others from running.
AgentStarted(a) ==
    /\ agentStatus[a] = "starting" /\ agentSettings[a] # <<>>
    /\ \E outcome \in {"running", "error"} :
          /\ outcome = "error" => agentSettings[a] # Stub
          /\ agentStatus' = [agentStatus EXCEPT ![a] = outcome]
    /\ UNCHANGED <<env, agentSettings, phase>>

\* The agents have settled: the timer starts, and the first cycle with it.
Started ==
    /\ phase = "starting" /\ \A a \in Agents : agentStatus[a] # "starting"
    /\ phase' = "running"
    /\ UNCHANGED <<env, agentStatus, agentSettings>>

\* stop, up to the agents' own stop: those still starting are passed over.
StopAll ==
    /\ phase \in {"starting", "running"}
    /\ phase' = "stopping"
    /\ agentStatus' = [a \in Agents |-> IF agentStatus[a] \in {"running", "error"}
                                        THEN "stopping" ELSE agentStatus[a]]
    /\ UNCHANGED <<env, agentSettings>>

\* Stopped or failed to, an agent counts as stopped.
StopWrapper(a) ==
    /\ agentStatus[a] = "stopping"
    /\ agentStatus' = [agentStatus EXCEPT ![a] = "stopped"]
    /\ agentSettings' = [agentSettings EXCEPT ![a] = <<>>]
    /\ UNCHANGED <<env, phase>>

-----------------------------------------------------------------------------
(* The chain, as far as the router looks at it.                            *)

\* Of the statuses nobody announces only Disputed is told apart here.
Changes == [Open |-> {"Assigned", "Cancelled"}, Assigned |-> {"Delivered", "Failed"},
            Delivered |-> {"Completed", "Failed", "Disputed"}, Disputed |-> {"Completed"},
            Completed |-> {"Failed"}, Failed |-> {}, Cancelled |-> {}]

Announced == [Assigned |-> "AgentAssigned", Delivered |-> "TaskDelivered",
              Completed |-> "TaskCompleted", Failed |-> "AgentSlashed",
              Cancelled |-> "TaskCancelled"]

\* Events reach the listeners that are attached; nobody keeps them for later.
Announce(name, t) ==
    /\ Len(chainEvents) < MaxEvents
    /\ chainEvents' = IF listening THEN Append(chainEvents, [name |-> name, task |-> t])
                      ELSE chainEvents

CreateTask(type) ==
    /\ Len(chainTasks) < MaxTasks
    /\ chainTasks' = Append(chainTasks, [type |-> type, status |-> "Open", ours |-> FALSE])
    /\ Announce("TaskCreated", Len(chainTasks))
    /\ UNCHANGED outcomes

\* Tasks are numbered from 0.
Task(t) == chainTasks[t + 1]

ChangeTask(t, next) ==
    /\ next \in Changes[Task(t).status]
    /\ \E ours \in BOOLEAN :
          /\ next # "Assigned" => ours = Task(t).ours
          /\ chainTasks' = [chainTasks EXCEPT ![t + 1].status = next, ![t + 1].ours = ours]
    /\ IF next \in DOMAIN Announced THEN Announce(Announced[next], t) ELSE UNCHANGED chainEvents
    /\ outcomes' = IF Task(t).ours /\ next \in {"Completed", "Failed"}
                   THEN outcomes \cup {<<t, next>>} ELSE outcomes

-----------------------------------------------------------------------------
(* The router.                                                             *)

Tracked(t) == trackedTasks[t] # NotTracked

updateTask(t, new) ==
    trackedTasks' = IF Tracked(t) THEN [trackedTasks EXCEPT ![t].status = new] ELSE trackedTasks

Event(name) == /\ chainEvents # <<>> /\ Head(chainEvents).name = name
               /\ chainEvents' = Tail(chainEvents)

\* The listeners are attached before the agents start and removed after they stopped.
RouterStart ==
    /\ phase = "starting" /\ ~listening
    /\ listening' = TRUE
    /\ UNCHANGED <<trackedTasks, poll, pnl, known, misread, expected, chainEvents>>

Recorded == {<<pnl[i].task, pnl[i].outcome>> : i \in DOMAIN pnl}

\* stop goes on when the agents have stopped: listeners off, and the oldest records
\* dropped.  (Tracking is pruned as well, to 200 tasks; it is not used any more.)
RouterStop ==
    /\ phase = "stopping" /\ \A a \in Agents : agentStatus[a] # "stopping"
    /\ listening' = FALSE /\ chainEvents' = <<>>
    /\ pnl' = IF Len(pnl) > MaxRecords
              THEN SubSeq(pnl, Len(pnl) - MaxRecords + 1, Len(pnl)) ELSE pnl
    /\ expected' = expected \cap Recorded'
    /\ UNCHANGED <<trackedTasks, poll, known, misread>>

HandleTaskCreated ==
    LET t == Head(chainEvents).task  route == TASK_TYPE_ROUTES[Task(t).type]
    IN  /\ Event("TaskCreated")
        /\ trackedTasks' = [trackedTasks EXCEPT ![t] =
              [status |-> IF route = "none" THEN "detected" ELSE "routed", routedTo |-> route]]
        /\ known' = known \cup {t} /\ misread' = misread \ {t}
        /\ UNCHANGED <<listening, poll, pnl, expected>>

OnAgentAssigned ==
    /\ Event("AgentAssigned")
    /\ IF Task(Head(chainEvents).task).ours THEN updateTask(Head(chainEvents).task, "assigned")
       ELSE UNCHANGED trackedTasks
    /\ UNCHANGED <<listening, poll, pnl, known, misread, expected>>

OnDelivered ==
    /\ Event("TaskDelivered")
    /\ IF Task(Head(chainEvents).task).ours THEN updateTask(Head(chainEvents).task, "delivered")
       ELSE UNCHANGED trackedTasks
    /\ UNCHANGED <<listening, poll, pnl, known, misread, expected>>

OnTaskCancelled ==
    /\ Event("TaskCancelled")
    /\ updateTask(Head(chainEvents).task, "failed")
    /\ UNCHANGED <<listening, poll, pnl, known, misread, expected>>

\* The observer notes what a task the router must know brought this wallet.
Expect(t, outcome) ==
    expected' = IF t \in known \ misread /\ Task(t).ours /\ TASK_TYPE_ROUTES[Task(t).type] # "none"
                THEN expected \cup {<<t, outcome>>} ELSE expected

\* recordCompletion.  No stake is ever recorded (recordStake has no caller), so the
\* stake of a record is 0.
recordCompletion(t, a) ==
    Append(pnl, [task |-> t, agent |-> a, outcome |-> "Completed", stakeAmount |-> 0,
                     payoutAmount |-> Payout, slashAmount |-> 0])

recordSlash(t, a) ==
    Append(pnl, [task |-> t, agent |-> a, outcome |-> "Failed", stakeAmount |-> 0,
                     payoutAmount |-> 0, slashAmount |-> Slash])

\* Recording everybody's outcomes.
BugOnTaskCompleted ==
    LET t == Head(chainEvents).task
    IN  /\ Event("TaskCompleted")
        /\ updateTask(t, "completed")
        /\ pnl' = IF trackedTasks[t].routedTo # "none"
                      THEN recordCompletion(t, trackedTasks[t].routedTo) ELSE pnl
        /\ Expect(t, "Completed")
        /\ UNCHANGED <<listening, poll, known, misread>>

OnTaskCompleted ==
    LET t == Head(chainEvents).task
    IN  /\ Event("TaskCompleted")
        /\ IF Task(t).ours
           THEN /\ updateTask(t, "completed")
                /\ pnl' = IF trackedTasks[t].routedTo # "none"
                              THEN recordCompletion(t, trackedTasks[t].routedTo) ELSE pnl
           ELSE UNCHANGED <<trackedTasks, pnl>>
        /\ Expect(t, "Completed")
        /\ UNCHANGED <<listening, poll, known, misread>>

OnAgentSlashed ==
    LET t == Head(chainEvents).task
    IN  /\ Event("AgentSlashed")
        /\ IF Task(t).ours
           THEN /\ updateTask(t, "failed")
                /\ pnl' = IF trackedTasks[t].routedTo # "none"
                              THEN recordSlash(t, trackedTasks[t].routedTo) ELSE pnl
           ELSE UNCHANGED <<trackedTasks, pnl>>
        /\ Expect(t, "Failed")
        /\ UNCHANGED <<listening, poll, known, misread>>

\* pollForTasks, up to the first getTask: the last tasks, but never task 0, and up to
\* the number of the next one.
StartPoll ==
    /\ phase = "running" /\ poll = NoPoll
    /\ LET count == Len(chainTasks)
           first == IF count > RouterWindow + 1 THEN count - RouterWindow ELSE 1
       IN  poll' = [first |-> first, next |-> first, last |-> count,
                    seen |-> Unread, complete |-> TRUE]
    /\ UNCHANGED <<listening, trackedTasks, pnl, known, misread, expected, chainEvents>>

\* The next task, if it is not tracked yet.  Of one that does not exist, getTask
\* returns a struct of zeros.
PollGet ==
    LET t == poll.next
    IN  /\ poll # NoPoll /\ poll.seen = Unread /\ t <= poll.last
        /\ poll' = IF Tracked(t) THEN [poll EXCEPT !.next = t + 1]
                   ELSE [poll EXCEPT !.seen = IF t < Len(chainTasks) THEN Task(t).status
                                              ELSE Empty]
        /\ UNCHANGED <<listening, trackedTasks, pnl, known, misread, expected, chainEvents>>

mapOnChainStatus ==
    [Open |-> "detected", BidReveal |-> "bid_revealed", Assigned |-> "assigned",
     Delivered |-> "delivered", Verifying |-> "executing", Completed |-> "completed",
     Failed |-> "failed", Disputed |-> "failed", Cancelled |-> "skipped"]

\* The answer is kept, whatever the listeners learned while it was on its way.  Zeros
\* are an open task of a type nobody has.  Of an assigned task the poll asks the agent.
PollSet ==
    LET t == poll.next
    IN  /\ poll.seen \notin {Unread, Asked}
        /\ \/ /\ poll.seen = Empty
              /\ trackedTasks' = [trackedTasks EXCEPT ![t] =
                    [status |-> "detected", routedTo |-> "none"]]
              /\ misread' = misread \cup {t}
           \/ /\ poll.seen # Empty
              /\ trackedTasks' = [trackedTasks EXCEPT ![t] =
                    [status |-> mapOnChainStatus[poll.seen],
                     routedTo |-> TASK_TYPE_ROUTES[Task(t).type]]]
              /\ UNCHANGED misread
        /\ poll' = IF poll.seen = "Assigned" THEN [poll EXCEPT !.seen = Asked]
                   ELSE [poll EXCEPT !.next = t + 1, !.seen = Unread]
        /\ UNCHANGED <<listening, pnl, known, expected, chainEvents>>

\* This one's answer overwrites the status too.
PollAssignment ==
    LET t == poll.next
    IN  /\ poll.seen = Asked
        /\ IF Task(t).ours THEN updateTask(t, "assigned") ELSE UNCHANGED trackedTasks
        /\ poll' = [poll EXCEPT !.next = t + 1, !.seen = Unread]
        /\ UNCHANGED <<listening, pnl, known, misread, expected, chainEvents>>

\* A call that fails skips the task until the next cycle, but for the second one.
PollFails ==
    /\ poll.seen # Unread
    /\ poll' = [poll EXCEPT !.next = @ + 1, !.seen = Unread,
                            !.complete = @ /\ poll.seen = Asked]
    /\ UNCHANGED <<listening, trackedTasks, pnl, known, misread, expected, chainEvents>>

EndPoll ==
    /\ poll # NoPoll /\ poll.seen = Unread /\ poll.next > poll.last
    /\ poll' = NoPoll
    /\ known' = IF poll.complete THEN known \cup poll.first .. poll.last - 1 ELSE known
    /\ UNCHANGED <<listening, trackedTasks, pnl, misread, expected, chainEvents>>

-----------------------------------------------------------------------------
FreshProcess ==
    [env |-> <<>>, status |-> [a \in Agents |-> "absent"], settings |-> [a \in Agents |-> <<>>]]

OrchestratorInit ==
    /\ env = FreshProcess.env /\ agentStatus = FreshProcess.status
    /\ agentSettings = FreshProcess.settings /\ phase = "new"
    /\ listening = FALSE /\ trackedTasks = [t \in TaskIds |-> NotTracked] /\ poll = NoPoll
    /\ pnl = <<>> /\ known = {} /\ misread = {} /\ expected = {}
    /\ chainTasks =
         [i \in 1 .. Earlier |-> [type |-> "other", status |-> "Cancelled", ours |-> FALSE]]
    /\ outcomes = {} /\ chainEvents = <<>> /\ restarts = 0

\* The process ends, by itself or after a stop, and is started again: pnl.json is
\* what remains.
Restart ==
    /\ phase # "new" /\ restarts < MaxRestarts
    /\ restarts' = restarts + 1
    /\ env' = FreshProcess.env /\ agentStatus' = FreshProcess.status
    /\ agentSettings' = FreshProcess.settings /\ phase' = "new"
    /\ listening' = FALSE /\ trackedTasks' = [t \in TaskIds |-> NotTracked] /\ poll' = NoPoll
    /\ known' = {} /\ misread' = {} /\ chainEvents' = <<>>
    /\ UNCHANGED <<pnl, expected, chainVars>>

AgentStep ==
    \/ StartAll \/ Started \/ StopAll
    \/ \E a \in Agents : CreateAgent(a) \/ StartWrapper(a) \/ AgentStarted(a) \/ StopWrapper(a)

RouterStep ==
    \/ RouterStart \/ RouterStop
    \/ HandleTaskCreated \/ OnAgentAssigned \/ OnDelivered \/ OnTaskCancelled
    \/ OnTaskCompleted \/ OnAgentSlashed
    \/ StartPoll \/ PollGet \/ PollSet \/ PollAssignment \/ PollFails \/ EndPoll

ChainStep ==
    \/ \E type \in TaskTypes : CreateTask(type)
    \/ \E t \in 0 .. Len(chainTasks) - 1 :
         \E next \in Changes[Task(t).status] : ChangeTask(t, next)

OrchestratorNext ==
    \/ AgentStep /\ UNCHANGED <<routerVars, chainVars, chainEvents, restarts>>
    \/ RouterStep /\ UNCHANGED <<agentVars, chainVars, restarts>>
    \/ ChainStep /\ UNCHANGED <<agentVars, routerVars, restarts>>
    \/ Restart

OrchestratorSpec == OrchestratorInit /\ [][OrchestratorNext]_orchestratorVars

-----------------------------------------------------------------------------
\* pnl.json is true: over restarts, stale polls and events in flight, what it holds
\* happened on the chain to a task of this wallet, once and under the agent the task
\* went to; and nothing is missing of the tasks the router saw created or polled, but
\* what a stop dropped and the outcomes of a task whose entry is the empty answer a
\* poll got before the task existed (hazard: two sources feed one map, and the records
\* outlive the map).
RecordsTrue ==
    /\ expected \subseteq Recorded /\ Recorded \subseteq outcomes
    /\ \A i, j \in DOMAIN pnl :
          pnl[i].task = pnl[j].task /\ pnl[i].outcome = pnl[j].outcome => i = j
    /\ \A i \in DOMAIN pnl :
          pnl[i].agent = TASK_TYPE_ROUTES[Task(pnl[i].task).type]
=============================================================================
