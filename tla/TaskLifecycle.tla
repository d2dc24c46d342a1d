---------------------------- MODULE TaskLifecycle ----------------------------
(***************************************************************************)
(* A task as the satellite contracts see it through the getters of         *)
(* ArenaCoreMain: its phase, the assigned agent and its stake, the slash   *)
(* window, and what was bonded and slashed.  The auction, the panel and    *)
(* the movement of tokens are left out; ArenaCore implements this          *)
(* specification (ImplementsLifecycle of ArenaCoreProperties), and the     *)
(* satellites are checked over it.  Where an arbitration council is set it *)
(* overwrites phases: ArenaArbitration adds those steps.                   *)
(***************************************************************************)
EXTENDS Integers

CONSTANTS
  Tasks,
  Agents,
  NoAgent,       \* address(0)
  Stakes,        \* the stakes an agent may be assigned with
  Windows,       \* the slash windows a task may have
  Severities,    \* the severities postCompletionSlash may be called with
  MaxTime        \* bound: the last block timestamp

ASSUME LifecycleAssumption ==
  /\ NoAgent \notin Agents
  /\ Stakes \subseteq Nat /\ Windows \subseteq Nat /\ MaxTime \in Nat \ {0}
  /\ Severities \subseteq {"Late", "Minor", "Material", "Execution", "Critical"}

VARIABLES
  now,           \* block.timestamp
  life           \* life[t]: what the getters return for task t

lifecycleVars == <<now, life>>

SlashBps == [Late |-> 1500, Minor |-> 2500, Material |-> 5000,
             Execution |-> 7500, Critical |-> 10000]
BondBps == 2000
Share(amount, bps) == (amount * bps) \div 10000

Phases == {"Open", "Assigned", "Delivered", "Verifying", "Completed", "Failed", "Disputed",
           "Cancelled"}
\* Open covers BidReveal too: the satellites do not tell them apart.
NewTask == [phase |-> "Open", agent |-> NoAgent, stake |-> 0, slashWindow |-> 0,
            deliveredAt |-> 0, bond |-> 0, slashed |-> 0, bondSlashed |-> 0]

WindowOver(t) == now > life[t].deliveredAt + life[t].slashWindow

Becomes(t, after) == life' = [life EXCEPT ![t] = after] /\ UNCHANGED now

-----------------------------------------------------------------------------
LifecycleInit ==
  /\ now = 1
  /\ life = [t \in Tasks |-> NewTask]

Advance ==
  /\ now < MaxTime
  /\ now' = now + 1
  /\ UNCHANGED life

Assign(t, agent, stake, window) ==
  /\ life[t].phase = "Open"
  /\ Becomes(t, [life[t] EXCEPT !.phase = "Assigned", !.agent = agent, !.stake = stake,
                                !.slashWindow = window])

\* emergencyWithdrawStake
WithdrawStake(t) ==
  /\ life[t].phase \in {"Assigned", "Delivered", "Verifying"}
  /\ life[t].stake # 0
  /\ Becomes(t, [life[t] EXCEPT !.stake = 0])

Deliver(t) ==
  /\ life[t].phase = "Assigned"
  /\ Becomes(t, [life[t] EXCEPT !.phase = "Delivered", !.deliveredAt = now])

Verify(t) ==
  /\ life[t].phase = "Delivered"
  /\ Becomes(t, [life[t] EXCEPT !.phase = "Verifying"])

Complete(t) ==
  /\ life[t].phase = "Verifying"
  /\ Becomes(t, [life[t] EXCEPT !.phase = "Completed", !.bond = Share(life[t].stake, BondBps)])

\* A missed deadline is Late or Material, a rejected delivery always Material.
FailurePhases == {"Assigned", "Verifying"}
Fail(t, severity) ==
  /\ life[t].phase \in FailurePhases
  /\ life[t].phase = "Verifying" => severity = "Material"
  /\ Becomes(t, [life[t] EXCEPT !.phase = "Failed",
                                !.slashed = Share(life[t].stake, SlashBps[severity])])

Dispute(t) ==
  /\ life[t].phase = "Verifying"
  /\ Becomes(t, [life[t] EXCEPT !.phase = "Disputed"])

\* The poster's cancellation, the two seven-day timeouts and the emergency exit.
Cancel(t) ==
  /\ life[t].phase \in {"Open", "Assigned", "Delivered", "Verifying"}
  /\ Becomes(t, [life[t] EXCEPT !.phase = "Cancelled"])

SlashBond(t, severity) ==
  /\ life[t].phase = "Completed"
  /\ ~WindowOver(t)
  /\ life[t].bond # 0
  /\ Becomes(t, [life[t] EXCEPT !.phase = "Failed", !.bond = 0,
                                !.bondSlashed = Share(life[t].bond, SlashBps[severity])])

ClaimBond(t) ==
  /\ life[t].phase = "Completed"
  /\ WindowOver(t)
  /\ life[t].bond # 0
  /\ Becomes(t, [life[t] EXCEPT !.bond = 0])

\* Everything the core does to t on its own; who may slash a bond is left to the
\* module that composes the life cycle with the slasher.
TaskStep(t) ==
  \/ \E agent \in Agents, stake \in Stakes, window \in Windows : Assign(t, agent, stake, window)
  \/ WithdrawStake(t)
  \/ Deliver(t)
  \/ Verify(t)
  \/ Complete(t)
  \/ \E severity \in {"Late", "Material"} : Fail(t, severity)
  \/ Dispute(t)
  \/ Cancel(t)
  \/ ClaimBond(t)

LifecycleNext ==
  \/ Advance
  \/ \E t \in Tasks : TaskStep(t) \/ \E severity \in Severities : SlashBond(t, severity)

LifecycleSpec == LifecycleInit /\ [][LifecycleNext]_lifecycleVars

-----------------------------------------------------------------------------
LifeType == [phase : Phases, agent : Agents \cup {NoAgent}, stake : Nat, slashWindow : Nat,
             deliveredAt : 0 .. MaxTime, bond : Nat, slashed : Nat, bondSlashed : Nat]

LifecycleTypeOK ==
  /\ now \in 1 .. MaxTime
  /\ life \in [Tasks -> LifeType]

\* An agent loses at most its stake: the settlement's slash, the bond and the
\* bond's slash never add up to more, and no task is slashed on both paths.
LossBounded ==
  \A t \in Tasks :
    /\ life[t].slashed + life[t].bond + life[t].bondSlashed <= life[t].stake
    /\ life[t].slashed # 0 => life[t].bond + life[t].bondSlashed = 0
=============================================================================
