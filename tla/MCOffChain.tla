----------------------------- MODULE MCOffChain -----------------------------
(***************************************************************************)
(* Small instances of the off-chain programs beside the bidding agents.    *)
(* They share nothing here: a behaviour is one of them, the others stay as *)
(* they were started.  One audit task and the verifier agent, in and out   *)
(* of the pool and of comparison mode, with one crash or stop, one failed  *)
(* call, and newer tasks that push the audit out of the window of the      *)
(* polls; every comparison of small reports; every ladder of the risk      *)
(* scores and every bisection of a short chain; the orchestrator with one  *)
(* agent, one task after two earlier ones, polls that look at the last     *)
(* task and the next, and one restart.                                     *)
(***************************************************************************)
EXTENDS VerifierAgent, ReportComparison, RiskScoring, Orchestrator

VARIABLE part

-----------------------------------------------------------------------------
(* Reports.                                                                *)

Vault  == {"vault"}
Pay    == {"vault", "withdraw"}
Claim  == {"vault", "claim", "rewards"}

Finding(type, severity, location) ==
    [type |-> type, severity |-> severity, location |-> location]

MCFindings == {Finding("reentrancy", "critical", Pay), Finding("reentrancy", "low", Pay),
               Finding("reentrancy", "high", Vault), Finding("overflow", "medium", Claim),
               Finding("overflow", "informational", Pay)}

MCReported == {Finding("reentrancy", "low", Pay), Finding("reentrancy", "high", Claim),
               Finding("overflow", "medium", Vault), Finding("overflow", "low", Claim)}

-----------------------------------------------------------------------------
(* Risk scores: no data but the source that varies, and a contract and a   *)
(* token on the bad side of most steps.                                    *)

NoData == [protocol |-> None, contract |-> None, token |-> None, liquidity |-> None]
MCBackgrounds ==
    {NoData,
     [NoData EXCEPT !.contract = [age |-> 400, proxy |-> TRUE, verified |-> TRUE],
                    !.token = [volatility |-> 61, drawdown |-> 91, change24h |-> 0,
                               volume |-> 100]]}

-----------------------------------------------------------------------------
\* What takes no part stays as it was started.  The agent compares where the
\* task is in comparison mode: either alone is as good as none.
MCInit ==
    /\ part \in {"verifier", "reports", "scores", "search", "orchestrator"}
    /\ IF part = "verifier" THEN Init /\ (useComparisonMode <=> comparison # {})
       ELSE Init /\ comparison = {} /\ ~inPool /\ ~useComparisonMode
    /\ IF part = "reports" THEN ComparisonInit
       ELSE /\ claude = <<>> /\ slither = <<>> /\ mythril = <<>> /\ report = <<>>
            /\ settings = [approvalThreshold |-> 70, autoRejectMissedCritical |-> TRUE,
                           autoRejectMissedHigh |-> FALSE]
            /\ merged = <<>> /\ verdict = Undecided
    /\ IF part = "scores" THEN ScoringInit
       ELSE model = "standard" /\ varied = "token" /\ ctx = NoData
    /\ IF part = "search" THEN SearchInit
       ELSE latest = 1 /\ deployed = 0 /\ lo = 0 /\ hi = 1 /\ rounds = 0 /\ failed = FALSE
    /\ OrchestratorInit

MCNext ==
    \/ /\ part = "verifier" /\ Next
       /\ UNCHANGED <<part, comparisonVars, scoringVars, searchVars, orchestratorVars>>
    \/ /\ part = "reports" /\ ComparisonNext
       /\ UNCHANGED <<part, vars, scoringVars, searchVars, orchestratorVars>>
    \/ /\ part = "scores" /\ ScoringNext
       /\ UNCHANGED <<part, vars, comparisonVars, orchestratorVars, searchVars>>
    \/ /\ part = "search" /\ Probe
       /\ UNCHANGED <<part, vars, comparisonVars, orchestratorVars, scoringVars>>
    \/ /\ part = "orchestrator" /\ OrchestratorNext
       /\ UNCHANGED <<part, vars, comparisonVars, scoringVars, searchVars>>

MCSpec ==
    /\ MCInit
    /\ [][MCNext]_<<part, vars, comparisonVars, scoringVars, searchVars, orchestratorVars>>
    /\ Fairness
=============================================================================
