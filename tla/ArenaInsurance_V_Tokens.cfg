SPECIFICATION Spec
CONSTANTS
  a1 = a1
  p = p
  i1 = i1
  i2 = i2
  NoAgent = NoAgent
  Tasks = {0, 1}
  Agents = {a1}
  Stakes = {1000}
  Windows = {1}
  Severities = {"Minor", "Critical"}
  MaxTime = 2
  Poster = p
  Insurers = {i1, i2, a1}
  Tokens = {"usdc", "weth"}
  TokenOf <- MCTokenPerTask
  DefaultToken = "usdc"
  Coverages = {9000}
  Premiums = {2000}
  Histories <- MCHistories
  MaxOffers = 2
INVARIANTS CapitalBacked
CHECK_DEADLOCK FALSE
