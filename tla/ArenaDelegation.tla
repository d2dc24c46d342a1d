--------------------------- MODULE ArenaDelegation ---------------------------
(***************************************************************************)
(* Delegated stakes (ArenaDelegation): an agent's pool, the delegators'    *)
(* contributions, and the capital a task locks.  recordTaskDelegation is   *)
(* for the core or the owner; the core in src/ never calls it.  What comes *)
(* after it, settleTaskDelegation and the claims, waits for that call's    *)
(* settlement and is left out.                                             *)
(***************************************************************************)
EXTENDS Integers, Sequences, FiniteSets, SequencesExt

CONSTANTS
  Agents, Delegators,     \* an agent may delegate to another
  Amounts, Shares, MaxDelegators, MaxStake

VARIABLES
  delegationPools,        \* [open, revenueShareBps, totalDelegated, lockedCapital, delegatorCount]
  delegatorContributions,
  agentDelegatorList,
  banned,
  balance

delegationVars == <<delegationPools, delegatorContributions, agentDelegatorList, banned, balance>>

MinRevenueShareBps == 500
MaxRevenueShareBps == 9000
NoPool == [open |-> FALSE, revenueShareBps |-> 0, totalDelegated |-> 0, lockedCapital |-> 0,
           delegatorCount |-> 0]
-----------------------------------------------------------------------------
SetDelegatorRevenueShare(a, bps) ==
  /\ a \notin banned /\ bps \in MinRevenueShareBps .. MaxRevenueShareBps
  /\ delegationPools' = [delegationPools EXCEPT ![a].open = TRUE, ![a].revenueShareBps = bps]
  /\ UNCHANGED <<delegatorContributions, agentDelegatorList, banned, balance>>

DelegateStake(a, d, amount) ==
  LET new == delegatorContributions[a][d] = 0
      pool == delegationPools[a]
  IN /\ amount > 0 /\ d # a /\ a \notin banned /\ pool.open
     /\ new => pool.delegatorCount < MaxDelegators
     /\ balance + amount <= MaxStake
     /\ agentDelegatorList' = [agentDelegatorList EXCEPT ![a] = IF new THEN Append(@, d) ELSE @]
     /\ delegatorContributions' = [delegatorContributions EXCEPT ![a][d] = @ + amount]
     /\ delegationPools' = [delegationPools EXCEPT
          ![a].totalDelegated = @ + amount, ![a].delegatorCount = @ + IF new THEN 1 ELSE 0]
     /\ balance' = balance + amount
     /\ UNCHANGED banned

\* The last element takes the place of the one removed.
SwapOut(seq, d) ==
  LET i == SelectInSeq(seq, LAMBDA x : x = d)
  IN Front([seq EXCEPT ![i] = Last(seq)])

\* lockedCapital, which locking has already taken from totalDelegated, is subtracted
\* from it again; with more locked than left the subtraction reverts.
Available(pool) == pool.totalDelegated - pool.lockedCapital
WithdrawDelegation(a, d, amount) ==
  LET left == delegatorContributions[a][d] - amount
      pool == delegationPools[a]
  IN /\ amount > 0 /\ left >= 0
     /\ Available(pool) >= amount
     /\ delegatorContributions' = [delegatorContributions EXCEPT ![a][d] = left]
     /\ delegationPools' = [delegationPools EXCEPT
          ![a].totalDelegated = @ - amount, ![a].delegatorCount = @ - IF left = 0 THEN 1 ELSE 0]
     /\ agentDelegatorList' =
          [agentDelegatorList EXCEPT ![a] = IF left = 0 THEN SwapOut(@, d) ELSE @]
     /\ balance' = balance - amount
     /\ UNCHANGED banned

RecordTaskDelegation(a, delegatedStake) ==
  /\ delegatedStake <= delegationPools[a].totalDelegated
  /\ delegationPools' = [delegationPools EXCEPT
       ![a].totalDelegated = @ - delegatedStake, ![a].lockedCapital = @ + delegatedStake]
  /\ UNCHANGED <<delegatorContributions, agentDelegatorList, banned, balance>>

\* The core bans an agent; delegators may still withdraw.
CoreBans(a) ==
  /\ a \notin banned /\ banned' = banned \cup {a}
  /\ UNCHANGED <<delegationPools, delegatorContributions, agentDelegatorList, balance>>

DelegationInit ==
  /\ delegationPools = [a \in Agents |-> NoPool]
  /\ delegatorContributions = [a \in Agents |-> [d \in Delegators |-> 0]]
  /\ agentDelegatorList = [a \in Agents |-> <<>>]
  /\ banned = {} /\ balance = 0

DelegationNext ==
  \E a \in Agents :
    \/ \E bps \in Shares : SetDelegatorRevenueShare(a, bps)
    \/ \E amount \in Amounts :
         \/ \E d \in Delegators : DelegateStake(a, d, amount) \/ WithdrawDelegation(a, d, amount)
         \/ RecordTaskDelegation(a, amount)
    \/ CoreBans(a)

-----------------------------------------------------------------------------
Contributed(a) == SumFunctionOnSet(delegatorContributions[a], Delegators)

\* delegateStake, withdrawDelegation: the contract holds what was delegated and not
\* withdrawn; a pool's free and locked capital add up to its delegators' contributions,
\* and its list and count are those who have one.  So while capital is locked the pool
\* never pays a delegator from it.
DelegationsExact ==
  /\ balance = SumFunctionOnSet([a \in Agents |-> Contributed(a)], Agents)
  /\ \A a \in Agents :
       LET in == {d \in Delegators : delegatorContributions[a][d] > 0}
       IN /\ delegationPools[a].totalDelegated + delegationPools[a].lockedCapital = Contributed(a)
          /\ delegationPools[a].totalDelegated >= 0
          /\ ToSet(agentDelegatorList[a]) = in
          /\ Len(agentDelegatorList[a]) = Cardinality(in)
          /\ delegationPools[a].delegatorCount = Cardinality(in)
=============================================================================
