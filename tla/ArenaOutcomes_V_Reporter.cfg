SPECIFICATION Spec
CONSTANTS
  a1 = a1
  r1 = r1
  NoAgent = NoAgent
  Tasks = {0}
  Agents = {a1}
  Stakes = {5, 1000}
  Windows = {2, 4}
  Severities = {}
  MaxTime = 6
  Reporters = {r1, a1}
  RiskTerms <- MCRiskTerms
  RiskOutcomes <- MCRiskOutcomes
  CreditTerms <- MCCreditTerms
  CreditOutcomes <- MCCreditOutcomes
  ChallengePeriod = 1
INVARIANTS HonestReportersPaid
CHECK_DEADLOCK FALSE
