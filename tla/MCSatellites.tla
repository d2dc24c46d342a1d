---------------------------- MODULE MCSatellites ----------------------------
(***************************************************************************)
(* Small instances of the contracts beside the core, and of what follows   *)
(* them and posts to them: the timelock, the outcome reports, the tasks of *)
(* several agents, the contracts paid by checkpoint, the templates, the    *)
(* syndicates and the delegated stakes; the subgraph over one task,        *)
(* dispute, ...; the SDK's and the API's answers, one of every kind beside *)
(* all the writes of one task; two postings of the SDK, the API and the    *)
(* poster bot, with one error or one restart.  They share nothing: a       *)
(* behaviour takes the steps of one of them; the others are left out.      *)
(***************************************************************************)
EXTENDS ArenaTimelock, Satellites, TaskPosters, TLC

CONSTANTS
  a1, a2, a3,
  r1,                     \* a reporter
  h1, h2,                 \* output hashes
  v1, v2, poster, Null,   \* of the indexed contracts
  j1, j2                  \* postings

VARIABLES
  part,
  indexedPart, signatures, day, chain, silent, store,
  course, counters, reader

indexAll == <<indexedPart, signatures, day, chain, silent, store>>
readerAll == <<course, counters, reader>>

-----------------------------------------------------------------------------
\* Criteria of each kind that are accepted and that are refused, and outcomes on
\* both sides of the thresholds.
MCRiskTerms == {<<800, 3000, 2>>, <<0, 3000, 2>>}
MCRiskOutcomes == {<<5000, 2999>>, <<800, 0>>, <<799, 0>>, <<5000, 3000>>}
MCCreditTerms == {<<6000, 3>>, <<6000, 0>>}

\* Offers tie, differ, exceed the share of the bounty and, where the bounty is
\* small, stake nothing.
Term(bounty, agents) ==
  [totalBounty |-> bounty, agentCount |-> agents, deadline |-> 3, bidDuration |-> 1,
   revealDuration |-> 1]
Offer(stake, price) == [stake |-> stake, price |-> price]
MCConsensusTerms == {Term(1000, 2), Term(1000, 3), Term(15, 2), Term(1000, 1)}
MCConsensusOffers == {Offer(100, 400), Offer(200, 400), Offer(100, 600), Offer(0, 10)}

\* Two checkpoints and panels of two; one of the agents verifies too.  The contract
\* ends at the second failure, or after the last checkpoint only.
ContinuousTerm(allowed) ==
  [bounty |-> 1000, total |-> 2, interval |-> 1, required |-> 2, maxFailures |-> allowed]
MCContinuousTerms == {ContinuousTerm(2), ContinuousTerm(3)}
MCContinuousOffers == {Offer(100, 400)}

\* Two templates of one poster: of two occurrences, of one, and one with a bounty that
\* the core may find too small.
Occurrences(bounty, count, interval) ==
  [bounty |-> bounty, occurrences |-> count, interval |-> interval, offset |-> 3, bid |-> 1,
   reveal |-> 1, verifiers |-> 1]
MCTemplateTerms == {Occurrences(1000, 2, 1), Occurrences(1000, 1, 2), Occurrences(100, 1, 1)}

-----------------------------------------------------------------------------
(* The subgraph: two agents and verifiers; delegations of different sizes, *)
(* and one change of day.                                                  *)

Indexed == INSTANCE IndexedArena WITH
  Poster <- poster, Agents <- {a1, a2}, Verifiers <- {v1, v2}, Amounts <- {1, 2},
  Checkpoints <- 2, MaxFailures <- 2, BanThreshold <- 2, MaxDelegations <- 3, MaxDay <- 1,
  part <- indexedPart

-----------------------------------------------------------------------------
(* The SDK's and the API's answers: one output that the schema of its task *)
(* type takes.                                                             *)

Schema == INSTANCE OutputSchema
Trade == Schema!Object([pair |-> Schema!Text("p"), side |-> Schema!Text("hold"),
                        amount |-> Schema!Number(1), price |-> Schema!Number(1),
                        timestamp |-> Schema!Number(1)])
MCOutputs ==
    {Schema!Object([executed_trades |-> Schema!List(<<Trade>>),
                    actual_slippage |-> Schema!Number(0), actual_mev_loss |-> Schema!Number(0),
                    final_allocation |-> Schema!Object(<<>>)])}

Reads == INSTANCE ArenaClient WITH
    Required <- 1,
    Kinds <- {"profile", "stats", "openTasks", "taskBids", "apiTask", "apiAgents", "apiProfile"},
    TaskType <- "treasury_execution", Outputs <- MCOutputs, MaxOthers <- 1

\* No other task bears on the details of one, nor the pool.  Of its three verifiers some may be silent.
Details == INSTANCE ArenaClient WITH
    Required <- 3, Kinds <- {"details"},
    TaskType <- "treasury_execution", Outputs <- MCOutputs, MaxOthers <- 0

-----------------------------------------------------------------------------
\* What another part's behaviours leave out.
IndexOff ==
  /\ indexedPart = "off" /\ signatures = "off" /\ day = "off" /\ chain = "off" /\ silent = "off"
  /\ store = "off"
ReaderOff == course = "off" /\ counters = "off" /\ reader = "off"

\* A behaviour is of one contract, deployed alone, or of one of the others.  Of the
\* agents only a1 may have a reputation in the core.
MCInit ==
  /\ part \in SatelliteContracts \cup {"timelock", "index", "reads", "details", "posters"}
  /\ Init
  /\ present = SatelliteContracts \cap {part} /\ SatellitesInit
  /\ part = "consensus" => \A a \in ConsensusAgents \ {a1} : agentReputation[a] = 0
  /\ IF part = "index" THEN Indexed!Init ELSE IndexOff
  /\ IF part \in {"reads", "details"} THEN Reads!ClientInit ELSE ReaderOff
  /\ PosterInit /\ (part # "posters" => client = "sdk")

MCNext ==
  \/ /\ part = "timelock" /\ Next
     /\ UNCHANGED <<part, satelliteVars, indexAll, readerAll, posterVars>>
  \/ /\ SatellitesNext
     /\ UNCHANGED <<part, vars, indexAll, readerAll, posterVars>>
  \/ /\ part = "index" /\ Indexed!Next
     /\ UNCHANGED <<part, vars, satelliteVars, readerAll, posterVars>>
  \/ /\ \/ part = "reads" /\ Reads!ClientNext
        \/ part = "details" /\ Details!ClientNext /\ counters'.pool = 0
     /\ UNCHANGED <<part, vars, satelliteVars, indexAll, posterVars>>
  \/ /\ part = "posters" /\ PosterNext
     /\ UNCHANGED <<part, vars, satelliteVars, indexAll, readerAll>>

MCAll == <<part, vars, satelliteVars, indexAll, readerAll, posterVars>>
MCSpec == MCInit /\ [][MCNext]_MCAll

-----------------------------------------------------------------------------
(* The properties of what follows the contracts.                           *)

\* IndexedArena: the index's totals agree with what they are totals of.
TotalsAgree == part = "index" => Indexed!TotalsAgree
\* IndexedArena: the index shows what the contracts hold.
ShownAsOnChain == part = "index" => Indexed!ShownAsOnChain
\* ArenaClient: one answer does not contradict itself.
ReadsConsistent ==
    /\ part = "reads" => Reads!ReadsConsistent
    /\ part = "details" => Details!ReadsConsistent
=============================================================================
