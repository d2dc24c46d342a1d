--------------------------- MODULE MCArenaInsurance ---------------------------
(***************************************************************************)
(* Small instances of ArenaInsurance.  A stake of 1000 keeps every share,  *)
(* premium and fee above zero; a stake of 10 rounds them to nothing.       *)
(***************************************************************************)
EXTENDS ArenaInsurance, TLC

CONSTANTS i1, i2

\* an agent that failed one task in five: its risk prices it out of a low rate
MCHistories == {<<4, 1>>}
MCOneToken == [t \in Tasks |-> DefaultToken]
MCTokenPerTask == [t \in Tasks |-> IF t = 0 THEN "usdc" ELSE "weth"]
MCSymmetry == Permutations({i1, i2})
=============================================================================
