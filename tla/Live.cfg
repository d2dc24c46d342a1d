SPECIFICATION MCSpec
CONSTANTS
  Txs = {t1, t2, t3}
  Nobody = Nobody
  MaxFaults = 3
  MaxOutside = 2
  Tasks = {0}
  Agents = {a1}
  Pool = {v1, v2, v3, a1}
  Stakes = {1000}
  Windows = {3}
  Severities = {"Critical"}
  MaxTime = 7
  CouncilSize = 3
  Bounty = 101
  ArbitrationTimeout = 1
  Pausable = TRUE
  Horizon = 2
  Poster = poster
  NoAgent = NoAgent
  a1 = a1
  p1 = p1
  v1 = v1
  v2 = v2
  v3 = v3
INVARIANTS ExecutedInOrder HoldsOwed
PROPERTIES TasksEnd VerdictFollowsVotes CouncilEnds Answered
CHECK_DEADLOCK FALSE
