----------------------------- MODULE MCArenaCore -----------------------------
(***************************************************************************)
(* Small instances of ArenaCore.  Amounts are large enough for every fee   *)
(* and slash to be at least one token; durations keep the code's order     *)
(* (verifier timeout < abandonment).                                       *)
(***************************************************************************)
EXTENDS ArenaCoreProperties, TLC

Term(deadline, window, required) ==
  [bounty |-> 1000, deadline |-> deadline, slashWindow |-> window, bidDuration |-> 1,
   revealDuration |-> 1, requiredVerifiers |-> required]

\* one panel of each parity, and one set of terms createTask must refuse
MCTerms == {Term(3, 2, 1), Term(3, 2, 2), Term(2, 2, 1)}

MCOneOffer == {[stake |-> 100, price |-> 800]}
=============================================================================
