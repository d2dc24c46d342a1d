SPECIFICATION Spec
CONSTANTS
  a1 = a1
  p = p
  i1 = i1
  i2 = i2
  NoAgent = NoAgent
  Tasks = {0, 1}
  Agents = {a1}
  Stakes = {10, 1000}
  Windows = {0}
  Severities = {"Minor", "Critical"}
  MaxTime = 3
  Poster = p
  Insurers = {i1, i2}
  Tokens = {"usdc"}
  TokenOf <- MCOneToken
  DefaultToken = "usdc"
  Coverages = {9000}
  Premiums = {500, 2000}
  Histories <- MCHistories
  MaxOffers = 2
INVARIANTS BooksExact OnePolicy NoProfit SettledNeverSlashed
SYMMETRY MCSymmetry
CHECK_DEADLOCK FALSE
