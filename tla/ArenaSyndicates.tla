--------------------------- MODULE ArenaSyndicates ---------------------------
(***************************************************************************)
(* Syndicates (ArenaSyndicates): founding, joining, leaving and dissolving *)
(* a pool of stakes, with votes on dissolution weighted by stake.  Tasks,  *)
(* bids, payouts and losses reach the contract through functions that the  *)
(* core in src/ never calls and the owner alone could; they are left out,  *)
(* so syndicateActiveTasks and syndicateActiveBids stay zero.              *)
(***************************************************************************)
EXTENDS Integers, Sequences, FiniteSets, SequencesExt

CONSTANTS
  Members, Amounts,
  MaxMembers,         \* of one syndicate
  MaxSyndicates,
  MaxBanned           \* bound: agents the core bans

VARIABLES
  syndicates,              \* by id, from 1: [manager, totalStake, memberCount, status]
  contributions,           \* syndicateMembers: by syndicate and member
  syndicateMemberList,
  agentSyndicateId,
  dissolutionVotes,        \* by syndicate, the set of members whose vote stands
  dissolutionVoteWeight,
  banned,
  balance

syndicateVars == <<syndicates, contributions, syndicateMemberList, agentSyndicateId,
                   dissolutionVotes, dissolutionVoteWeight, banned, balance>>

ManagerMinStakeBps == 2000
SyndicateIds == DOMAIN syndicates
NoContributions == [m \in Members |-> 0]

-----------------------------------------------------------------------------
CreateSyndicate(m, amount) ==
  /\ m \notin banned /\ amount > 0 /\ agentSyndicateId[m] = 0
  /\ Len(syndicates) < MaxSyndicates
  /\ syndicates' = Append(syndicates,
       [manager |-> m, totalStake |-> amount, memberCount |-> 1, status |-> "Active"])
  /\ contributions' = Append(contributions, [NoContributions EXCEPT ![m] = amount])
  /\ syndicateMemberList' = Append(syndicateMemberList, <<m>>)
  /\ agentSyndicateId' = [agentSyndicateId EXCEPT ![m] = Len(syndicates) + 1]
  /\ dissolutionVotes' = Append(dissolutionVotes, {})
  /\ dissolutionVoteWeight' = Append(dissolutionVoteWeight, 0)
  /\ balance' = balance + amount
  /\ UNCHANGED banned

JoinSyndicate(s, m, amount) ==
  LET total == syndicates[s].totalStake + amount
  IN /\ m \notin banned /\ syndicates[s].status = "Active" /\ amount > 0
     /\ agentSyndicateId[m] = 0 /\ syndicates[s].memberCount < MaxMembers
     /\ contributions[s][syndicates[s].manager] * 10000 >= total * ManagerMinStakeBps
     /\ contributions' = [contributions EXCEPT ![s][m] = amount]
     /\ syndicateMemberList' = [syndicateMemberList EXCEPT ![s] = Append(@, m)]
     /\ syndicates' = [syndicates EXCEPT ![s].totalStake = total, ![s].memberCount = @ + 1]
     /\ agentSyndicateId' = [agentSyndicateId EXCEPT ![m] = s]
     /\ balance' = balance + amount
     /\ UNCHANGED <<dissolutionVotes, dissolutionVoteWeight, banned>>

\* The last element takes the place of the one removed.
SwapOut(seq, m) ==
  LET i == SelectInSeq(seq, LAMBDA x : x = m)
  IN Front([seq EXCEPT ![i] = Last(seq)])

\* The manager may leave only alone; leaving takes the member's vote along.
LeaveSyndicate(s, m) ==
  LET contribution == contributions[s][m]
      count == syndicates[s].memberCount - 1
  IN /\ contribution > 0
     /\ m = syndicates[s].manager => syndicates[s].memberCount <= 1
     /\ dissolutionVoteWeight' =
          [dissolutionVoteWeight EXCEPT ![s] = @ - IF m \in dissolutionVotes[s]
                                                   THEN contribution ELSE 0]
     /\ dissolutionVotes' = [dissolutionVotes EXCEPT ![s] = @ \ {m}]
     /\ syndicateMemberList' = [syndicateMemberList EXCEPT ![s] = SwapOut(@, m)]
     /\ syndicates' = [syndicates EXCEPT
          ![s].totalStake = @ - contribution, ![s].memberCount = count,
          ![s].status = IF count = 0 THEN "Dissolved" ELSE @]
     /\ contributions' = [contributions EXCEPT ![s][m] = 0]
     /\ agentSyndicateId' = [agentSyndicateId EXCEPT ![m] = 0]
     /\ balance' = balance - contribution
     /\ UNCHANGED banned

VoteDissolution(s, m) ==
  /\ syndicates[s].status = "Active" /\ contributions[s][m] > 0 /\ m \notin dissolutionVotes[s]
  /\ dissolutionVotes' = [dissolutionVotes EXCEPT ![s] = @ \cup {m}]
  /\ dissolutionVoteWeight' = [dissolutionVoteWeight EXCEPT ![s] = @ + contributions[s][m]]
  /\ UNCHANGED <<syndicates, contributions, syndicateMemberList, agentSyndicateId, banned,
                 balance>>

\* Not only of an active syndicate: after its end the contribution is zero.
RevokeDissolutionVote(s, m) ==
  /\ m \in dissolutionVotes[s]
  /\ dissolutionVotes' = [dissolutionVotes EXCEPT ![s] = @ \ {m}]
  /\ dissolutionVoteWeight' = [dissolutionVoteWeight EXCEPT ![s] = @ - contributions[s][m]]
  /\ UNCHANGED <<syndicates, contributions, syndicateMemberList, agentSyndicateId, banned,
                 balance>>

\* By the manager.  The list of members, the votes and their weight stay as they were.
DissolveSyndicate(s) ==
  LET repaid == {m \in ToSet(syndicateMemberList[s]) : contributions[s][m] > 0}
  IN /\ syndicates[s].status = "Active"
     /\ dissolutionVoteWeight[s] * 2 > syndicates[s].totalStake
     /\ syndicates' = [syndicates EXCEPT
          ![s].status = "Dissolved", ![s].totalStake = 0, ![s].memberCount = 0]
     /\ contributions' = [contributions EXCEPT
          ![s] = [m \in Members |-> IF m \in repaid THEN 0 ELSE @[m]]]
     /\ agentSyndicateId' =
          [m \in Members |-> IF m \in repaid THEN 0 ELSE agentSyndicateId[m]]
     /\ balance' = balance - SumFunctionOnSet(contributions[s], repaid)
     /\ UNCHANGED <<syndicateMemberList, dissolutionVotes, dissolutionVoteWeight, banned>>

\* The core bans an agent: it may neither found nor join, and stays where it is.
CoreBans(m) ==
  /\ m \notin banned /\ Cardinality(banned) < MaxBanned /\ banned' = banned \cup {m}
  /\ UNCHANGED <<syndicates, contributions, syndicateMemberList, agentSyndicateId,
                 dissolutionVotes, dissolutionVoteWeight, balance>>

SyndicatesInit ==
  /\ syndicates = <<>> /\ contributions = <<>> /\ syndicateMemberList = <<>>
  /\ agentSyndicateId = [m \in Members |-> 0]
  /\ dissolutionVotes = <<>> /\ dissolutionVoteWeight = <<>>
  /\ banned = {} /\ balance = 0

SyndicatesNext ==
  \E m \in Members :
    \/ \E amount \in Amounts :
         \/ CreateSyndicate(m, amount)
         \/ \E s \in SyndicateIds : JoinSyndicate(s, m, amount)
    \/ \E s \in SyndicateIds :
         \/ LeaveSyndicate(s, m) \/ VoteDissolution(s, m) \/ RevokeDissolutionVote(s, m)
         \/ m = syndicates[s].manager /\ DissolveSyndicate(s)
    \/ CoreBans(m)

-----------------------------------------------------------------------------
Contributed(s) == SumFunctionOnSet(contributions[s], Members)
Active == {s \in SyndicateIds : syndicates[s].status = "Active"}

\* joinSyndicate, leaveSyndicate, dissolveSyndicate: the contract holds the
\* contributions to the last unit, and each syndicate's total, count, list and the
\* members' own pointers agree with them; a dissolved one holds nothing.
PoolsExact ==
  /\ balance = SumFunctionOnSet([s \in SyndicateIds |-> Contributed(s)], SyndicateIds)
  /\ \A s \in SyndicateIds :
       LET in == {m \in Members : contributions[s][m] > 0}
       IN /\ syndicates[s].totalStake = Contributed(s)
          /\ syndicates[s].memberCount = Cardinality(in)
          /\ in = {m \in Members : agentSyndicateId[m] = s}
          /\ (s \in Active) <=> in # {}
          /\ s \in Active => /\ ToSet(syndicateMemberList[s]) = in
                             /\ IsInjective(syndicateMemberList[s])

\* voteDissolution, revokeDissolutionVote, leaveSyndicate: the weight that dissolves a
\* syndicate is the stake of members whose vote stands; nobody votes with a stake that
\* has left.
VotesWeighed ==
  \A s \in Active :
    /\ \A m \in dissolutionVotes[s] : contributions[s][m] > 0
    /\ dissolutionVoteWeight[s] = SumFunctionOnSet(contributions[s], dissolutionVotes[s])

\* The contract's own comment: the manager holds a fifth of the stake at all times, not
\* only when somebody joins.
ManagerKeepsItsShare ==
  \A s \in Active :
    contributions[s][syndicates[s].manager] * 10000 >= syndicates[s].totalStake * ManagerMinStakeBps
=============================================================================
