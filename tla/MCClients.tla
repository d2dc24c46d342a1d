------------------------------ MODULE MCClients ------------------------------
(***************************************************************************)
(* Small instances of the programs that bid and deploy.  They share        *)
(* nothing here: a behaviour is one of them, the others are off.  The      *)
(* bidding agents: two tasks, of which they want the second, with two      *)
(* handlers at a time and two starts of the process.  The SDK's bid        *)
(* manager with three calls at a time and one fault, and its listener with *)
(* two types of events.  Two executions of deployment scripts.  Every page *)
(* of the web applications, with two bids, two tasks and one reload.       *)
(***************************************************************************)
EXTENDS BiddingAgents, EventListener, BidManager, Deployment, WebApp

CONSTANTS t1, c1, c2, c3, k1    \* model values of the SDK's modules

VARIABLE part

agentsAll == <<program, tolerance, now, status, commit, revealed, balance, events, tasks, bids,
               stakes, running, session, handler, polled, forgotten, covered>>

MCBounty == [t \in Tasks |-> 100]
MCStakes == [t \in BidTasks |-> 1]
MCEmitters == [t \in Types |-> IF t = "TaskCreated" THEN {"main"} ELSE {"main", "auction"}]

-----------------------------------------------------------------------------
\* What takes no part stays as it was started.
MCInit ==
    /\ part \in {"agents", "bids", "events", "deployment", "web"}
    /\ Init /\ BidInit /\ ListenerInit /\ DeploymentInit /\ WebInit
    /\ part # "agents" => program = "audit" /\ tolerance = "medium"
    /\ part # "deployment" => file = NoBook
    /\ part # "web" => page = "BidForm" /\ ~chainNow.terms /\ ~chainNow.profile

MCNext ==
    \/ /\ part = "agents" /\ Next
       /\ UNCHANGED <<part, bidVars, listenerVars, deploymentVars, webVars>>
    \/ /\ part = "bids" /\ BidNext
       /\ UNCHANGED <<part, agentsAll, listenerVars, deploymentVars, webVars>>
    \/ /\ part = "events" /\ ListenerNext
       /\ UNCHANGED <<part, agentsAll, bidVars, deploymentVars, webVars>>
    \/ /\ part = "deployment" /\ DeploymentNext
       /\ UNCHANGED <<part, agentsAll, bidVars, listenerVars, webVars>>
    \/ /\ part = "web" /\ WebNext
       /\ UNCHANGED <<part, agentsAll, bidVars, listenerVars, deploymentVars>>

MCSpec ==
    MCInit /\ [][MCNext]_<<part, agentsAll, bidVars, listenerVars, deploymentVars, webVars>>
=============================================================================
