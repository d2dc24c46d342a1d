---------------------------- MODULE ArenaOutcomes ----------------------------
(***************************************************************************)
(* Outcome reports (ArenaOutcomes): criteria the poster registers, bonded  *)
(* reports, the agent's challenge, and the finalisation that slashes the   *)
(* agent's bond through ArenaCoreMain.postCompletionSlash.  The core takes *)
(* the steps of TaskLifecycle; finalisation takes one of them itself.      *)
(***************************************************************************)
EXTENDS TaskLifecycle, Functions

CONSTANTS
  Reporters,        \* anybody; may hold agents
  RiskTerms,        \* <<lossThresholdBps, slashScoreThreshold, validationWindow>>
  RiskOutcomes,     \* <<actualLossBps, agentScoreBps>>
  CreditTerms,      \* <<defaultProbThreshold, defaultWindow>>
  CreditOutcomes,   \* agentProbBps
  ChallengePeriod   \* 48 hours

VARIABLES
  riskCriteria,
  creditCriteria,
  reports,
  balance           \* the reporters' bonds the contract holds

outcomeVars == <<riskCriteria, creditCriteria, reports, balance>>
allVars == <<lifecycleVars, outcomeVars>>

ReportBondBps == 1000
MaxBps == 10000

NotRegistered == <<>>
NoReport == [reporter |-> NoAgent, bond |-> 0, reportedAt |-> 0, severity |-> "Late",
             status |-> "None"]

-----------------------------------------------------------------------------
\* The poster may register criteria in any phase of the task.
RegisterRiskCriteria(t, terms) ==
  /\ riskCriteria[t] = NotRegistered
  /\ terms[1] \in 1 .. MaxBps /\ terms[2] <= MaxBps /\ terms[3] # 0
  /\ riskCriteria' = [riskCriteria EXCEPT ![t] = terms]
  /\ UNCHANGED <<creditCriteria, reports, balance>>

RegisterCreditCriteria(t, terms) ==
  /\ creditCriteria[t] = NotRegistered
  /\ terms[1] \in 1 .. MaxBps /\ terms[2] # 0
  /\ creditCriteria' = [creditCriteria EXCEPT ![t] = terms]
  /\ UNCHANGED <<riskCriteria, reports, balance>>

\* What both report functions do once the outcome has been judged.
BugReportable(t, window) == life[t].phase = "Completed" /\ now <= life[t].deliveredAt + window
Reportable(t, window) ==
  /\ reports[t].status = "None"
  /\ life[t].phase = "Completed"
  /\ now <= life[t].deliveredAt + window
File(t, reporter, severity) ==
  LET bond == Share(life[t].stake, ReportBondBps)
  IN /\ bond # 0
     /\ reports' = [reports EXCEPT ![t] =
          [reporter |-> reporter, bond |-> bond, reportedAt |-> now, severity |-> severity,
           status |-> "Pending"]]
     /\ balance' = balance + bond
     /\ UNCHANGED <<riskCriteria, creditCriteria>>

RiskSeverity(loss) ==
  IF loss >= 5000 THEN "Critical" ELSE IF loss >= 2000 THEN "Execution"
  ELSE IF loss >= 1000 THEN "Material" ELSE "Minor"

ReportRiskOutcome(t, reporter, outcome) ==
  /\ riskCriteria[t] # NotRegistered
  /\ Reportable(t, riskCriteria[t][3])
  /\ outcome[1] >= riskCriteria[t][1] /\ outcome[2] < riskCriteria[t][2]
  /\ File(t, reporter, RiskSeverity(outcome[1]))

CreditSeverity(gap) ==
  IF gap >= 7500 THEN "Critical" ELSE IF gap >= 5000 THEN "Execution"
  ELSE IF gap >= 2500 THEN "Material" ELSE "Minor"

ReportCreditDefault(t, reporter, prob) ==
  /\ creditCriteria[t] # NotRegistered
  /\ Reportable(t, creditCriteria[t][2])
  /\ prob < creditCriteria[t][1]
  /\ File(t, reporter, CreditSeverity(creditCriteria[t][1] - prob))

-----------------------------------------------------------------------------
BugChallengeOver(t) == TRUE
ChallengeOver(t) == now > reports[t].reportedAt + ChallengePeriod

\* By the assigned agent, who receives the bond.
Challengeable(t) == reports[t].status = "Pending" /\ ~ChallengeOver(t)
ChallengeReport(t) ==
  /\ Challengeable(t)
  /\ reports' = [reports EXCEPT ![t].status = "Challenged"]
  /\ balance' = balance - reports[t].bond
  /\ UNCHANGED <<riskCriteria, creditCriteria, lifecycleVars>>

\* By anyone.  A core that refuses the slash reverts the whole call.
FinalizeReport(t) ==
  /\ reports[t].status = "Pending"
  /\ ChallengeOver(t)
  /\ reports' = [reports EXCEPT ![t].status = "Finalized"]
  /\ SlashBond(t, reports[t].severity)
  /\ balance' = balance - reports[t].bond
  /\ UNCHANGED <<riskCriteria, creditCriteria>>

-----------------------------------------------------------------------------
Init ==
  /\ LifecycleInit
  /\ riskCriteria = [t \in Tasks |-> NotRegistered]
  /\ creditCriteria = [t \in Tasks |-> NotRegistered]
  /\ reports = [t \in Tasks |-> NoReport]
  /\ balance = 0

Reporting(t) ==
  \/ \E terms \in RiskTerms : RegisterRiskCriteria(t, terms)
  \/ \E terms \in CreditTerms : RegisterCreditCriteria(t, terms)
  \/ \E r \in Reporters, o \in RiskOutcomes : ReportRiskOutcome(t, r, o)
  \/ \E r \in Reporters, prob \in CreditOutcomes : ReportCreditDefault(t, r, prob)

Next ==
  \/ LifecycleNext /\ UNCHANGED outcomeVars
  \/ \E t \in Tasks : Reporting(t) /\ UNCHANGED lifecycleVars
  \/ \E t \in Tasks : ChallengeReport(t)
  \/ \E t \in Tasks : FinalizeReport(t)

Spec == Init /\ [][Next]_allVars

-----------------------------------------------------------------------------
ReportType == [reporter : Reporters \cup {NoAgent}, bond : Nat, reportedAt : 0 .. MaxTime,
               severity : DOMAIN SlashBps, status : {"None", "Pending", "Finalized", "Challenged"}]

\* balance \in Nat: the contract never pays a bond it does not hold.
TypeOK ==
  /\ LifecycleTypeOK
  /\ riskCriteria \in [Tasks -> RiskTerms \cup {NotRegistered}]
  /\ creditCriteria \in [Tasks -> CreditTerms \cup {NotRegistered}]
  /\ reports \in [Tasks -> ReportType]
  /\ balance \in Nat

Pending == {t \in Tasks : reports[t].status = "Pending"}

\* The contract holds exactly the bonds of the pending reports: a bond is paid
\* to the agent or returned to its reporter, once (hazard: both ends of a report
\* pay, from different callers, on two sides of one moment).
HoldsPendingBonds ==
  balance = SumFunctionOnSet([t \in Tasks |-> reports[t].bond], Pending)

\* contracts/src/ArenaOutcomes.sol:61 promises agents "a guaranteed window to
\* dispute before slashing occurs": while the owner slashes nothing itself, a
\* bond is slashed only by an unchallenged report whose period is over.
SlashedAfterWindow ==
  \A t \in Tasks : life[t].bondSlashed # 0 =>
    reports[t].status = "Finalized" /\ now > reports[t].reportedAt + ChallengePeriod

\* contracts/src/ArenaOutcomes.sol:60 says "Honest reporters get their bond back
\* after the challenge period": once it is over, the report can be finalised.
HonestReportersPaid ==
  \A t \in Pending : ChallengeOver(t) =>
    life[t].phase = "Completed" /\ ~WindowOver(t) /\ life[t].bond # 0
=============================================================================
