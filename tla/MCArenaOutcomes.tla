--------------------------- MODULE MCArenaOutcomes ---------------------------
(***************************************************************************)
(* Small instances of ArenaOutcomes: one set of criteria of each kind that *)
(* is accepted and one that is refused, and outcomes on both sides of the  *)
(* thresholds.                                                             *)
(***************************************************************************)
EXTENDS ArenaOutcomes, TLC

MCRiskTerms == {<<800, 3000, 2>>, <<0, 3000, 2>>}
MCRiskOutcomes == {<<5000, 2999>>, <<800, 0>>, <<799, 0>>, <<5000, 3000>>}
MCCreditTerms == {<<6000, 3>>, <<6000, 0>>}
MCCreditOutcomes == {0, 5000, 6000}
=============================================================================
