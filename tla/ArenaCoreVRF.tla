------------------------------ MODULE ArenaCoreVRF ------------------------------
(***************************************************************************)
(* Panels drawn at random from a pool of registered verifiers, and votes   *)
(* by comparison of reports (ArenaCoreVRF), together with the two core     *)
(* contracts that call it and that it calls.  A delivery asks the          *)
(* coordinator for a random number; the answer comes in a transaction of   *)
(* its own, late, or never: the coordinator does not repeat a callback     *)
(* that reverts.                                                           *)
(*                                                                         *)
(* The random number may pick any members that are allowed, in any order.  *)
(* The cooldown is set as the auction's own.                               *)
(***************************************************************************)
EXTENDS ArenaCoreProperties, SequencesExt

CONSTANTS
  PoolStake,             \* PoolStake[v]: what v calls joinVerifierPool with
  MinVerifierStake,      \* the minimum configureVRF sets
  JoinHorizon            \* bound: nobody joins the pool after this time

VARIABLES
  vrfEnabled,
  registry,              \* registry[v]: stake and membership
  verifierPool, verifierPoolIndex,
  lastVerified,          \* lastVerified[v][a], beside the auction's own
  requested,             \* requested[t]: the coordinator still owes an answer
  comparisonMode,
  compared,              \* compared[t]: who has sent a comparison
  vrfBal                 \* tokens held by ArenaCoreVRF

poolVars == <<registry, verifierPool, verifierPoolIndex>>
comparisonVars == <<comparisonMode, compared>>
vrfVars == <<vrfEnabled, poolVars, lastVerified, requested, comparisonVars, vrfBal>>

Members == {verifierPool[i] : i \in DOMAIN verifierPool}
Rested(v, a) == lastVerified[v][a] = 0 \/ now >= lastVerified[v][a] + VerifierCooldown

Eligible(t) ==
  {v \in Members : Impartial(t, v) /\ ~agentBanned[v] /\ Rested(v, assignment[t].agent)}

-----------------------------------------------------------------------------
(* What the core does, with the calls to this contract it makes.           *)

Delivers(t) == status[t] = "Assigned" /\ status'[t] = "Delivered"
Registers(t, v) == verifications[t][v].vote = "None" /\ verifications'[t][v].vote # "None"

\* requestVRFVerifiers: a pool that is too small fails the delivery, one with too
\* few eligible members leaves the task to manual registration.
Requests(t) == Delivers(t) /\ vrfEnabled /\ Cardinality(Eligible(t)) >= task[t].requiredVerifiers

CoreStep ==
  /\ Next
  /\ \A t \in TaskIds :
       /\ Delivers(t) /\ vrfEnabled => Len(verifierPool) >= task[t].requiredVerifiers
       /\ \A v \in Verifiers : Registers(t, v) => Rested(v, assignment[t].agent)
  /\ requested' = [t \in TaskIds |-> requested[t] \/ Requests(t)]
  /\ lastVerified' = [v \in Verifiers |-> [a \in Agents |->
       IF \E t \in TaskIds : assignment[t].agent = a /\ Registers(t, v) THEN now
       ELSE lastVerified[v][a]]]
  /\ UNCHANGED <<vrfEnabled, poolVars, comparisonVars, vrfBal>>

-----------------------------------------------------------------------------
(* The draw.                                                               *)

DrawnStake(t, v) == MinOf(assignment[t].stake \div 5, registry[v].stake)

\* Neither a pause nor disableVRF stops the answer.
RawFulfillRandomWords(t, selected) ==
  LET stakes == SumFunctionOnSet([v \in selected |-> DrawnStake(t, v)], selected)
  IN /\ requested[t] /\ status[t] = "Delivered"
     /\ Cardinality(selected) = task[t].requiredVerifiers
     /\ requested' = [requested EXCEPT ![t] = FALSE]
     /\ registry' = [v \in Verifiers |->
          IF v \in selected THEN [registry[v] EXCEPT !.stake = @ - DrawnStake(t, v)]
          ELSE registry[v]]
     /\ lastVerified' = [v \in Verifiers |->
          IF v \in selected THEN [lastVerified[v] EXCEPT ![assignment[t].agent] = now]
          ELSE lastVerified[v]]
     /\ verifications' = [verifications EXCEPT ![t] = [v \in Verifiers |->
          IF v \in selected THEN [stake |-> DrawnStake(t, v), vote |-> "Pending"] ELSE @[v]]]
     /\ agentActiveStake' = [x \in Address |->
          agentActiveStake[x] + IF x \in selected THEN DrawnStake(t, x) ELSE 0]
     /\ vrfBal' = vrfBal - stakes
     /\ auctionBal' = auctionBal + stakes
     /\ status' = [status EXCEPT ![t] = "Verifying"]
     /\ verifierAssignedAt' = [verifierAssignedAt EXCEPT ![t] = now]
     /\ UNCHANGED <<clock, taskCount, task, assignment, slashRecord, posterActiveTasks,
                    agentRecord, auctionRecord, localLastVerified, mainBal, protocolTreasury,
                    vrfEnabled, verifierPool, verifierPoolIndex, comparisonVars>>

\* The callback reverts, because the task is not Delivered any more or too few
\* members are eligible by now or found, or it never comes.
RequestLost(t) ==
  /\ requested[t]
  /\ requested' = [requested EXCEPT ![t] = FALSE]
  /\ UNCHANGED <<vars, vrfEnabled, poolVars, lastVerified, comparisonVars, vrfBal>>

-----------------------------------------------------------------------------
(* Votes by comparison.                                                    *)

EnableComparisonMode(t) ==
  /\ Created(t) /\ status[t] \in {"Open", "BidReveal", "Assigned"}
  /\ comparisonMode' = [comparisonMode EXCEPT ![t] = TRUE]
  /\ UNCHANGED <<vars, vrfEnabled, poolVars, lastVerified, requested, compared, vrfBal>>

\* The score says which vote; one the verifier cast before is overwritten.
SubmitComparisonVerification(t, v, vote) ==
  LET vs == [verifications[t] EXCEPT ![v].vote = vote] IN
  /\ status[t] = "Verifying" /\ comparisonMode[t]
  /\ v \in Panel(verifications[t]) \ compared[t]
  /\ compared' = [compared EXCEPT ![t] = @ \cup {v}]
  /\ verifications' = [verifications EXCEPT ![t] = vs]
  /\ TrySettlement(t, vs, Ledger)
  /\ UNCHANGED <<clock, taskCount, task, assignment, auctionRecord, verifierAssignedAt,
                 localLastVerified, vrfEnabled, poolVars, lastVerified, requested,
                 comparisonMode, vrfBal>>

-----------------------------------------------------------------------------
(* The pool.                                                               *)

JoinVerifierPool(v) ==
  /\ ~Paused /\ ~agentBanned[v] /\ now <= JoinHorizon
  /\ ~registry[v].active
  /\ PoolStake[v] >= MinVerifierStake
  /\ registry' = [registry EXCEPT ![v] = [stake |-> PoolStake[v], active |-> TRUE]]
  /\ verifierPoolIndex' = [verifierPoolIndex EXCEPT ![v] = Len(verifierPool)]
  /\ verifierPool' = Append(verifierPool, v)
  /\ vrfBal' = vrfBal + PoolStake[v]
  /\ UNCHANGED <<vars, vrfEnabled, lastVerified, requested, comparisonVars>>

\* verifierPoolIndex counts from zero.  The last member takes the leaver's place.
LeaveVerifierPool(v) ==
  LET last == verifierPool[Len(verifierPool)]
  IN /\ registry[v].active
     /\ registry' = [registry EXCEPT ![v] = [stake |-> 0, active |-> FALSE]]
     /\ verifierPool' =
          Front([verifierPool EXCEPT ![verifierPoolIndex[v] + 1] = last])
     /\ verifierPoolIndex' =
          [verifierPoolIndex EXCEPT ![last] = verifierPoolIndex[v], ![v] = 0]
     /\ vrfBal' = vrfBal - registry[v].stake
     /\ UNCHANGED <<vars, vrfEnabled, lastVerified, requested, comparisonVars>>

\* configureVRF and disableVRF, by the owner.
ConfigureVRF ==
  /\ vrfEnabled' = ~vrfEnabled
  /\ UNCHANGED <<vars, poolVars, lastVerified, requested, comparisonVars, vrfBal>>

-----------------------------------------------------------------------------
VRFInit ==
  /\ Init
  /\ vrfEnabled = FALSE
  /\ registry = [v \in Verifiers |-> [stake |-> 0, active |-> FALSE]]
  /\ verifierPool = <<>>
  /\ verifierPoolIndex = [v \in Verifiers |-> 0]
  /\ lastVerified = [v \in Verifiers |-> [a \in Agents |-> 0]]
  /\ requested = [t \in TaskIds |-> FALSE]
  /\ comparisonMode = [t \in TaskIds |-> FALSE]
  /\ compared = [t \in TaskIds |-> {}]
  /\ vrfBal = 0

VRFNext ==
  \/ CoreStep
  \/ \E t \in TaskIds :
       \/ requested[t] /\ \E selected \in SUBSET Eligible(t) : RawFulfillRandomWords(t, selected)
       \/ RequestLost(t)
       \/ EnableComparisonMode(t)
       \/ \E v \in Verifiers, vote \in {"Approved", "Rejected"} :
            SubmitComparisonVerification(t, v, vote)
  \/ \E v \in Verifiers : JoinVerifierPool(v) \/ LeaveVerifierPool(v)
  \/ ConfigureVRF

VRFSpec == VRFInit /\ [][VRFNext]_<<vars, vrfVars>>

-----------------------------------------------------------------------------
\* The pool is what the registry says, each member once and at its index, and the
\* contract holds exactly what is registered: a stake moves to the auction when
\* its verifier is drawn, and is neither returned by leaving nor drawn again
\* (hazard: members join, leave and are drawn in any order, and the answer comes
\* when the pool is another one than the request saw).
RegistryExact ==
  /\ \A v \in Verifiers : registry[v].active =>
       /\ verifierPoolIndex[v] + 1 \in DOMAIN verifierPool
       /\ verifierPool[verifierPoolIndex[v] + 1] = v
  /\ Len(verifierPool) = Cardinality({v \in Verifiers : registry[v].active})
  /\ vrfBal = SumOver(Verifiers, LAMBDA v : registry[v].stake)
=============================================================================
