--------------------------- MODULE AccountsProofs ----------------------------
(***************************************************************************)
(* The contracts paid by checkpoint, for any contracts, agents, verifiers, *)
(* bounties and disputes; and with them that every contract beside the     *)
(* core holds exactly what it owes.                                        *)
(***************************************************************************)
EXTENDS SatelliteProofs

-----------------------------------------------------------------------------
(* Contracts paid by checkpoint                                            *)

ContinuousMembers == ContinuousAgents \cup ContinuousVerifiers
CheckpointIndices == 0 .. MaxIndex
BeforeWork == {"None", "Open", "BidReveal"}
ContractType ==
  [status : {"None", "Open", "BidReveal", "Active", "Terminated", "Completed"},
   bounty : Nat, interval : Nat, required : Nat, maxFailures : Nat, total : Nat,
   bidDeadline : Int, revealDeadline : Int, completed : Int, failed : Int, streak : Int,
   agent : ContinuousAgents \cup {NoAgent}, stake : Nat, currentStake : Nat, startedAt : Int,
   escrow : Int, bond : Int]
ContinuousBidType ==
  [committed : BOOLEAN, revealed : BOOLEAN, late : BOOLEAN, stake : Nat, price : Nat]
ContinuousRows == [ContinuousAgents -> ContinuousBidType]
CheckpointStatus == {"Pending", "Submitted", "Verifying", "Passed", "Failed", "Missed"}
CheckpointType == [status : CheckpointStatus, slash : Nat]
CheckpointRows == [CheckpointIndices -> CheckpointType]
VoteType == [stake : Nat, vote : {"None", "Pending", "Approved", "Rejected"}]
PanelType == [ContinuousMembers -> VoteType]
PanelRows == [CheckpointIndices -> PanelType]

\* The module's sums are those of the library.
LEMMA ContinuousSum ==
  \A f, S : Continuous!SumFunctionOnSet(f, S) = SumFunctionOnSet(f, S)
BY DEF Continuous!SumFunctionOnSet, Continuous!FoldFunctionOnSet, Continuous!MapThenFoldSet,
       SumFunctionOnSet, FoldFunctionOnSet, MapThenFoldSet

\* The module's cardinalities are those of the library.
LEMMA ContinuousCardinality ==
  ASSUME NEW S
  PROVE  Continuous!Cardinality(S) = Cardinality(S)
BY DEF Continuous!Cardinality, Cardinality

\* The sets of the module, all of them finite.
LEMMA ContinuousSets ==
  /\ Continuous!Members = ContinuousMembers /\ Continuous!Indices = CheckpointIndices
  /\ IsFiniteSet(ContinuousMembers) /\ IsFiniteSet(CheckpointIndices) /\ IsFiniteSet(ContractIds)
  /\ IsFiniteSet(ContinuousAgents) /\ ContinuousAgents \subseteq ContinuousMembers
<1>1. IsFiniteSet(ContinuousMembers)
  BY SatelliteAssumption, FS_Union DEF ContinuousMembers
<1>2. IsFiniteSet(CheckpointIndices)
  BY SatelliteAssumption, FS_Interval DEF CheckpointIndices
<1>. QED BY <1>1, <1>2, SatelliteAssumption
         DEF Continuous!Members, Continuous!Indices, ContinuousMembers, CheckpointIndices

-----------------------------------------------------------------------------
(* What one contract holds, as a function of its records.                  *)

BidHeld(k, row, m) ==
  IF m \in ContinuousAgents /\ row[m].revealed
     /\ (k.status \in {"Open", "BidReveal"} \/ row[m].late)
  THEN row[m].stake ELSE 0
WorkHeld(k, m) == IF k.agent = m THEN k.currentStake ELSE 0
VoteHeld(cp, p, m) == IF cp.status = "Verifying" THEN p[m].stake ELSE 0
VotesHeld(cps, ps, m) == [i \in CheckpointIndices |-> VoteHeld(cps[i], ps[i], m)]
HeldOf(k, row, cps, ps, m) ==
  BidHeld(k, row, m) + WorkHeld(k, m)
    + SumFunctionOnSet(VotesHeld(cps, ps, m), CheckpointIndices)
HeldRow(k, row, cps, ps) == [m \in ContinuousMembers |-> HeldOf(k, row, cps, ps, m)]

\* The verifiers with a vote, and those that rejected.
Seated(p) == {m \in ContinuousMembers : p[m].vote # "None"}
With(p, vote) == {m \in ContinuousMembers : p[m].vote = vote}
HasPassed(p) ==
  /\ Seated(p) # {} /\ With(p, "Pending") = {}
  /\ Cardinality(With(p, "Approved")) > Cardinality(With(p, "Rejected"))
UnpaidOf(k, p) ==
  IF HasPassed(p) THEN Cardinality(With(p, "Rejected")) * Continuous!FeePerVerifier(k) ELSE 0
UnpaidRow(k, ps) == [i \in CheckpointIndices |-> UnpaidOf(k, ps[i])]
OwedFor(k, row, cps, ps) ==
  k.escrow + k.bond + SumFunctionOnSet(UnpaidRow(k, ps), CheckpointIndices)
    + SumFunctionOnSet(HeldRow(k, row, cps, ps), ContinuousMembers)

\* What was slashed off the stake of the agent and may come back.
Slashes(cps) == [i \in CheckpointIndices |-> cps[i].slash]
SlashedFrom(k, cps, m) ==
  IF k.agent = m THEN SumFunctionOnSet(Slashes(cps), CheckpointIndices) ELSE 0
Covers(k, row, cps, ps, m) == HeldOf(k, row, cps, ps, m) + SlashedFrom(k, cps, m)

\* A panel is empty before a checkpoint is verified, and open while it is.
PanelSound(cp, p) ==
  /\ \A m \in ContinuousMembers : p[m].vote = "None" => p[m].stake = 0
  /\ cp.status \in {"Pending", "Submitted", "Missed"} => Seated(p) = {}
  /\ cp.status = "Verifying" => With(p, "Pending") # {}
  /\ cp.status \notin {"Failed", "Missed"} => cp.slash = 0

ContractSound(k, row, cps, ps, lead) ==
  /\ k.status = "None" => /\ k.escrow = 0 /\ k.bond = 0
                          /\ \A a \in ContinuousAgents : ~row[a].committed
  /\ k.status \in BeforeWork => k.agent = NoAgent /\ \A a \in ContinuousAgents : ~row[a].late
  /\ k.status # "None" => k.total > 0 /\ k.required > 0
  /\ k.status = "Active" => k.agent # NoAgent
  /\ k.agent = NoAgent => /\ k.currentStake = 0
                          /\ \A i \in CheckpointIndices : cps[i].status = "Pending"
  /\ \A a \in ContinuousAgents : row[a].revealed => row[a].committed
  /\ lead # NoAgent => lead \in ContinuousAgents /\ row[lead].revealed
  /\ \A i \in CheckpointIndices : PanelSound(cps[i], ps[i])

ContinuousTypes ==
  /\ continuousNow \in Int
  /\ contracts \in [ContractIds -> ContractType]
  /\ continuousBids \in [ContractIds -> ContinuousRows]
  /\ checkpoints \in [ContractIds -> CheckpointRows]
  /\ panels \in [ContractIds -> PanelRows]
  /\ DOMAIN best = ContractIds /\ best = [c \in ContractIds |-> best[c]]
  /\ agentActiveStake \in [ContinuousMembers -> Int]
  /\ continuousTreasury \in Int /\ continuousBalance \in Int /\ credited \in Int

OwedRow(ks, rows, cpss, pss) ==
  [c \in ContractIds |-> OwedFor(ks[c], rows[c], cpss[c], pss[c])]
CoverRow(ks, rows, cpss, pss, m) ==
  [c \in ContractIds |-> Covers(ks[c], rows[c], cpss[c], pss[c], m)]

ContinuousInv ==
  /\ ContinuousTypes
  /\ continuousBalance + credited = Reserve + continuousTreasury
       + SumFunctionOnSet(OwedRow(contracts, continuousBids, checkpoints, panels), ContractIds)
  /\ \A m \in ContinuousMembers : agentActiveStake[m] >=
       SumFunctionOnSet(CoverRow(contracts, continuousBids, checkpoints, panels, m), ContractIds)
  /\ \A c \in ContractIds :
       ContractSound(contracts[c], continuousBids[c], checkpoints[c], panels[c], best[c].agent)

-----------------------------------------------------------------------------
\* What a checkpoint pays and what a verifier gets are integers.
LEMMA FeeInt ==
  ASSUME NEW k \in ContractType, k.total > 0, k.required > 0
  PROVE  Continuous!PaymentPerCheckpoint(k) \in Int /\ Continuous!FeePerVerifier(k) \in Int
<1>. DEFINE q == Continuous!PaymentPerCheckpoint(k)
            s == Continuous!Share(q, Continuous!VerifierFeeBps)
<1>1. k.bounty \in Nat /\ k.total \in Nat /\ k.required \in Nat
  BY DEF ContractType
<1>2. q \in Int
  BY <1>1 DEF Continuous!PaymentPerCheckpoint
<1>. HIDE DEF q
<1>3. s \in Int
  BY <1>2 DEF Continuous!Share, Continuous!BPS, Continuous!VerifierFeeBps
<1>4. Continuous!FeePerVerifier(k) = s \div k.required
  BY DEF Continuous!FeePerVerifier, q
<1>. HIDE DEF s
<1>5. Continuous!FeePerVerifier(k) \in Int
  BY <1>1, <1>3, <1>4
<1>. QED BY <1>2, <1>5 DEF q

\* No verifier has an unpaid fee on an empty panel.
LEMMA EmptyPanel ==
  ASSUME NEW p, Seated(p) = {}, NEW k
  PROVE  UnpaidOf(k, p) = 0
BY DEF UnpaidOf, HasPassed

\* The unpaid fees of a panel are an integer.
LEMMA UnpaidInt ==
  ASSUME NEW k \in ContractType, NEW cp, NEW p, PanelSound(cp, p),
         (k.total > 0 /\ k.required > 0) \/ cp.status = "Pending"
  PROVE  UnpaidOf(k, p) \in Int
<1>1. CASE cp.status = "Pending"
  BY <1>1, EmptyPanel DEF PanelSound
<1>2. CASE k.total > 0 /\ k.required > 0
  <2>1. Cardinality(With(p, "Rejected")) \in Int
    <3>1. IsFiniteSet(With(p, "Rejected"))
      BY ContinuousSets, FS_Subset DEF With
    <3>. QED BY <3>1, FS_CardinalityType
  <2>2. Continuous!FeePerVerifier(k) \in Int
    BY <1>2, FeeInt
  <2>3. Cardinality(With(p, "Rejected")) * Continuous!FeePerVerifier(k) \in Int
    BY <2>1, <2>2
  <2>. QED BY <2>3 DEF UnpaidOf
<1>. QED BY <1>1, <1>2

\* What a contract holds of one member's is an amount.
LEMMA HeldInt ==
  ASSUME NEW k \in ContractType, NEW row \in ContinuousRows, NEW cps \in CheckpointRows,
         NEW ps \in PanelRows, NEW m \in ContinuousMembers
  PROVE  /\ BidHeld(k, row, m) \in Nat /\ WorkHeld(k, m) \in Nat
         /\ \A i \in CheckpointIndices : VotesHeld(cps, ps, m)[i] \in Nat
         /\ SumFunctionOnSet(VotesHeld(cps, ps, m), CheckpointIndices) \in Nat
         /\ HeldOf(k, row, cps, ps, m) \in Nat
         /\ \A i \in CheckpointIndices : Slashes(cps)[i] \in Nat
         /\ SumFunctionOnSet(Slashes(cps), CheckpointIndices) \in Nat
         /\ SlashedFrom(k, cps, m) \in Nat
<1>1. BidHeld(k, row, m) \in Nat
  BY DEF BidHeld, ContinuousRows, ContinuousBidType
<1>2. WorkHeld(k, m) \in Nat
  BY DEF WorkHeld, ContractType
<1>3. \A i \in CheckpointIndices : VotesHeld(cps, ps, m)[i] \in Nat
  <2>. SUFFICES ASSUME NEW i \in CheckpointIndices PROVE VotesHeld(cps, ps, m)[i] \in Nat
    OBVIOUS
  <2>1. ps[i][m].stake \in Nat
    BY DEF PanelRows, PanelType, VoteType
  <2>2. VotesHeld(cps, ps, m)[i] = VoteHeld(cps[i], ps[i], m)
    BY DEF VotesHeld
  <2>. QED BY <2>1, <2>2 DEF VoteHeld
<1>4. SumFunctionOnSet(VotesHeld(cps, ps, m), CheckpointIndices) \in Nat
  BY <1>3, ContinuousSets, SumNat
<1>5. \A i \in CheckpointIndices : Slashes(cps)[i] \in Nat
  BY DEF Slashes, CheckpointRows, CheckpointType
<1>6. SumFunctionOnSet(Slashes(cps), CheckpointIndices) \in Nat
  BY <1>5, ContinuousSets, SumNat
<1>7. SlashedFrom(k, cps, m) \in Nat
  BY <1>6 DEF SlashedFrom
<1>8. HeldOf(k, row, cps, ps, m) \in Nat
  BY <1>1, <1>2, <1>4 DEF HeldOf
<1>. QED BY <1>1, <1>2, <1>3, <1>4, <1>5, <1>6, <1>7, <1>8

\* The records of one contract.
ContractRecords(k, row, cps, ps, lead) ==
  /\ k \in ContractType /\ row \in ContinuousRows /\ cps \in CheckpointRows /\ ps \in PanelRows
  /\ ContractSound(k, row, cps, ps, lead)

\* What a contract owes in all is an integer.
LEMMA OwedInt ==
  ASSUME NEW k, NEW row, NEW cps, NEW ps, NEW lead, ContractRecords(k, row, cps, ps, lead)
  PROVE  /\ k.escrow \in Int /\ k.bond \in Int
         /\ \A i \in CheckpointIndices : UnpaidRow(k, ps)[i] \in Int
         /\ SumFunctionOnSet(UnpaidRow(k, ps), CheckpointIndices) \in Int
         /\ \A m \in ContinuousMembers : HeldRow(k, row, cps, ps)[m] \in Int
         /\ SumFunctionOnSet(HeldRow(k, row, cps, ps), ContinuousMembers) \in Int
         /\ OwedFor(k, row, cps, ps) \in Int
         /\ \A m \in ContinuousMembers : Covers(k, row, cps, ps, m) \in Nat
<1>0. k \in ContractType /\ row \in ContinuousRows /\ cps \in CheckpointRows /\ ps \in PanelRows
  BY DEF ContractRecords
<1>1. k.escrow \in Int /\ k.bond \in Int
  BY <1>0 DEF ContractType
<1>2. ASSUME NEW i \in CheckpointIndices PROVE UnpaidRow(k, ps)[i] \in Int
  <2>1. PanelSound(cps[i], ps[i])
    BY DEF ContractRecords, ContractSound
  <2>2. (k.total > 0 /\ k.required > 0) \/ cps[i].status = "Pending"
    BY <1>0 DEF ContractRecords, ContractSound, BeforeWork
  <2>3. UnpaidOf(k, ps[i]) \in Int
    BY <1>0, <2>1, <2>2, UnpaidInt
  <2>. QED BY <2>3 DEF UnpaidRow
<1>3. SumFunctionOnSet(UnpaidRow(k, ps), CheckpointIndices) \in Int
  BY <1>2, ContinuousSets, SumInt
<1>4. \A m \in ContinuousMembers : HeldRow(k, row, cps, ps)[m] \in Int
                                   /\ Covers(k, row, cps, ps, m) \in Nat
  <2>. SUFFICES ASSUME NEW m \in ContinuousMembers
                PROVE  HeldRow(k, row, cps, ps)[m] \in Int /\ Covers(k, row, cps, ps, m) \in Nat
    OBVIOUS
  <2>1. HeldOf(k, row, cps, ps, m) \in Nat /\ SlashedFrom(k, cps, m) \in Nat
    BY <1>0, HeldInt
  <2>2. HeldRow(k, row, cps, ps)[m] = HeldOf(k, row, cps, ps, m)
    BY DEF HeldRow
  <2>. QED BY <2>1, <2>2 DEF Covers
<1>5. SumFunctionOnSet(HeldRow(k, row, cps, ps), ContinuousMembers) \in Int
  BY <1>4, ContinuousSets, SumInt
<1>6. OwedFor(k, row, cps, ps) \in Int
  BY <1>1, <1>3, <1>5 DEF OwedFor
<1>. QED BY <1>1, <1>2, <1>3, <1>4, <1>5, <1>6

\* What the invariant says of one contract.
LEMMA Contract0 ==
  ASSUME ContinuousInv, NEW c \in ContractIds
  PROVE  ContractRecords(contracts[c], continuousBids[c], checkpoints[c], panels[c], best[c].agent)
BY DEF ContinuousInv, ContinuousTypes, ContractRecords

-----------------------------------------------------------------------------
\* What the module says a contract holds, in the terms of these proofs.
LEMMA HeldHere ==
  ASSUME ContinuousInv, NEW c \in ContractIds, NEW m \in ContinuousMembers
  PROVE  Continuous!Held(c, m)
           = HeldOf(contracts[c], continuousBids[c], checkpoints[c], panels[c], m)
<1>. DEFINE k == contracts[c]
            row == continuousBids[c]
            cps == checkpoints[c]
            ps == panels[c]
            V == {i \in CheckpointIndices : cps[i].status = "Verifying"}
            f == [i \in V |-> ps[i][m].stake]
            g == VotesHeld(cps, ps, m)
            bid == IF m \in ContinuousAgents THEN row[m] ELSE Continuous!NoBid
<1>1. ContractRecords(k, row, cps, ps, best[c].agent)
  BY Contract0
<1>2. /\ k \in ContractType /\ row \in ContinuousRows /\ cps \in CheckpointRows
      /\ ps \in PanelRows
  BY <1>1 DEF ContractRecords
<1>3. SumFunctionOnSet(g, CheckpointIndices) = SumFunctionOnSet(f, V)
  <2>1. V \in SUBSET CheckpointIndices /\ IsFiniteSet(CheckpointIndices)
    BY ContinuousSets
  <2>2. \A i \in V : f[i] \in Int /\ g[i] = f[i]
    <3>1. \A i \in CheckpointIndices : ps[i][m].stake \in Int
      BY <1>2 DEF PanelRows, PanelType, VoteType
    <3>. QED BY <3>1 DEF VotesHeld, VoteHeld
  <2>3. \A i \in CheckpointIndices \ V : g[i] = 0
    BY DEF VotesHeld, VoteHeld
  <2>. HIDE DEF f, g, V
  <2>. QED BY <2>1, <2>2, <2>3, SumWhere
<1>4. Continuous!SumOver({i \in Continuous!Indices : checkpoints[c][i].status = "Verifying"},
                         LAMBDA i : panels[c][i][m].stake) = SumFunctionOnSet(f, V)
  BY ContinuousSum, ContinuousSets DEF Continuous!SumOver
<1>5. (IF bid.revealed /\ (Continuous!InAuction(c) \/ bid.late) THEN bid.stake ELSE 0)
        = BidHeld(k, row, m)
  BY DEF BidHeld, Continuous!InAuction, Continuous!NoBid
<1>6. Continuous!Held(c, m)
        = BidHeld(k, row, m) + WorkHeld(k, m) + SumFunctionOnSet(f, V)
  <2>1. Continuous!Held(c, m)
          = (IF bid.revealed /\ (Continuous!InAuction(c) \/ bid.late) THEN bid.stake ELSE 0)
            + (IF contracts[c].agent = m THEN contracts[c].currentStake ELSE 0)
            + Continuous!SumOver({i \in Continuous!Indices : checkpoints[c][i].status = "Verifying"},
                                 LAMBDA i : panels[c][i][m].stake)
    BY DEF Continuous!Held
  <2>. QED BY <1>4, <1>5, <2>1 DEF WorkHeld
<1>. QED BY <1>3, <1>6 DEF HeldOf

\* The unpaid fees of a contract, likewise.
LEMMA UnpaidHere ==
  ASSUME ContinuousInv, NEW c \in ContractIds
  PROVE  Continuous!Unpaid(c) = SumFunctionOnSet(UnpaidRow(contracts[c], panels[c]), CheckpointIndices)
<1>. DEFINE k == contracts[c]
            ps == panels[c]
            P == {i \in CheckpointIndices : HasPassed(ps[i])}
            f == [i \in P |-> Cardinality(With(ps[i], "Rejected")) * Continuous!FeePerVerifier(k)]
            g == UnpaidRow(k, ps)
            lead == best[c].agent
<1>1. ContractRecords(k, continuousBids[c], checkpoints[c], ps, lead)
  BY Contract0
<1>2. \A i \in CheckpointIndices : ps[i] \in PanelType /\ DOMAIN ps[i] = ContinuousMembers
  BY <1>1 DEF ContractRecords, PanelRows, PanelType
<1>3. ASSUME NEW i \in CheckpointIndices, NEW vote
      PROVE  Continuous!Votes(ps[i], vote) = With(ps[i], vote)
  BY <1>2 DEF Continuous!Votes, With
<1>4. ASSUME NEW i \in CheckpointIndices
      PROVE  HasPassed(ps[i]) <=> /\ Continuous!Panel(c, i) # {} /\ ~Continuous!Open(ps[i])
                                  /\ Continuous!Approves(ps[i])
  <2>1. Continuous!Panel(c, i) = Seated(ps[i])
    BY ContinuousSets DEF Continuous!Panel, Seated
  <2>2. Continuous!Open(ps[i]) <=> With(ps[i], "Pending") # {}
    BY <1>3 DEF Continuous!Open
  <2>3. Continuous!Approves(ps[i])
          <=> Cardinality(With(ps[i], "Approved")) > Cardinality(With(ps[i], "Rejected"))
    BY <1>3, ContinuousCardinality DEF Continuous!Approves
  <2>. QED BY <2>1, <2>2, <2>3 DEF HasPassed
<1>5. {i \in Continuous!Indices : /\ Continuous!Panel(c, i) # {} /\ ~Continuous!Open(panels[c][i])
                                  /\ Continuous!Approves(panels[c][i])} = P
  BY <1>4, ContinuousSets
<1>6. Continuous!Unpaid(c) = SumFunctionOnSet(f, P)
  <2>1. Continuous!Unpaid(c) = SumFunctionOnSet(
          [i \in P |-> Continuous!Cardinality(Continuous!Votes(panels[c][i], "Rejected"))
                         * Continuous!FeePerVerifier(contracts[c])], P)
    BY <1>5, ContinuousSum DEF Continuous!Unpaid, Continuous!SumOver
  <2>2. [i \in P |-> Continuous!Cardinality(Continuous!Votes(panels[c][i], "Rejected"))
                         * Continuous!FeePerVerifier(contracts[c])] = f
    BY <1>3, ContinuousCardinality
  <2>. QED BY <2>1, <2>2
<1>7. SumFunctionOnSet(g, CheckpointIndices) = SumFunctionOnSet(f, P)
  <2>1. P \in SUBSET CheckpointIndices /\ IsFiniteSet(CheckpointIndices)
    BY ContinuousSets
  <2>2. \A i \in CheckpointIndices : g[i] \in Int
    BY <1>1, OwedInt
  <2>3. \A i \in P : g[i] = f[i]
    BY DEF UnpaidRow, UnpaidOf
  <2>4. \A i \in CheckpointIndices \ P : g[i] = 0
    BY DEF UnpaidRow, UnpaidOf
  <2>. HIDE DEF f, g, P
  <2>5. \A i \in P : f[i] \in Int /\ g[i] = f[i]
    BY <2>1, <2>2, <2>3
  <2>. QED BY <2>1, <2>4, <2>5, SumWhere
<1>. QED BY <1>6, <1>7

\* The invariant gives the property.
LEMMA ContinuousExact == ContinuousInv => Continuous!CheckpointFundsExact
<1>. SUFFICES ASSUME ContinuousInv PROVE Continuous!CheckpointFundsExact
  OBVIOUS
<1>. DEFINE owed == OwedRow(contracts, continuousBids, checkpoints, panels)
            cover(m) == CoverRow(contracts, continuousBids, checkpoints, panels, m)
<1>1. ASSUME NEW c \in ContractIds PROVE Continuous!Owed(c) = owed[c]
  <2>. DEFINE k == contracts[c]
              h == HeldRow(k, continuousBids[c], checkpoints[c], panels[c])
  <2>1. [m \in ContinuousMembers |-> Continuous!Held(c, m)] = h
    BY HeldHere DEF HeldRow
  <2>2. Continuous!SumOver(Continuous!Members, LAMBDA m : Continuous!Held(c, m))
          = SumFunctionOnSet(h, ContinuousMembers)
    BY <2>1, ContinuousSum, ContinuousSets DEF Continuous!SumOver
  <2>3. Continuous!Owed(c) = k.escrow + k.bond
          + SumFunctionOnSet(UnpaidRow(k, panels[c]), CheckpointIndices)
          + SumFunctionOnSet(h, ContinuousMembers)
    BY <2>2, UnpaidHere DEF Continuous!Owed
  <2>4. owed[c] = OwedFor(k, continuousBids[c], checkpoints[c], panels[c])
    BY DEF OwedRow
  <2>. QED BY <2>3, <2>4 DEF OwedFor
<1>2. Continuous!SumOver(ContractIds, Continuous!Owed) = SumFunctionOnSet(owed, ContractIds)
  <2>1. [c \in ContractIds |-> Continuous!Owed(c)] = [c \in ContractIds |-> owed[c]]
    BY <1>1
  <2>2. [c \in ContractIds |-> owed[c]] = owed
    BY DEF OwedRow
  <2>. QED BY <2>1, <2>2, ContinuousSum DEF Continuous!SumOver
<1>3. ASSUME NEW m \in ContinuousMembers
      PROVE  agentActiveStake[m]
               >= Continuous!SumOver(ContractIds, LAMBDA c : Continuous!Held(c, m))
  <2>. DEFINE f == [c \in ContractIds |-> Continuous!Held(c, m)]
              g == cover(m)
              s == SumFunctionOnSet(f, ContractIds)
              u == SumFunctionOnSet(g, ContractIds)
  <2>1. ASSUME NEW c \in ContractIds PROVE f[c] \in Int /\ g[c] \in Int /\ f[c] <= g[c]
    <3>. DEFINE h == HeldOf(contracts[c], continuousBids[c], checkpoints[c], panels[c], m)
                x == SlashedFrom(contracts[c], checkpoints[c], m)
    <3>1. h \in Nat /\ x \in Nat
      BY Contract0, HeldInt DEF ContractRecords
    <3>2. f[c] = h /\ g[c] = h + x
      BY HeldHere DEF CoverRow, Covers
    <3>. HIDE DEF f, g, h, x
    <3>. QED BY <3>1, <3>2
  <2>2. Continuous!SumOver(ContractIds, LAMBDA c : Continuous!Held(c, m)) = s
    BY ContinuousSum DEF Continuous!SumOver
  <2>3. agentActiveStake[m] >= u /\ agentActiveStake[m] \in Int
    BY DEF ContinuousInv, ContinuousTypes
  <2>. HIDE DEF f, g
  <2>4. s <= u
    BY <2>1, ContinuousSets, SumMonotone
  <2>5. s \in Int /\ u \in Int
    BY <2>1, ContinuousSets, SumInt
  <2>. HIDE DEF s, u
  <2>6. agentActiveStake[m] >= s
    BY <2>3, <2>4, <2>5
  <2>. QED BY <2>2, <2>6
<1>. QED BY <1>2, <1>3, ContinuousSets DEF Continuous!CheckpointFundsExact, ContinuousInv

\* The contract starts in the invariant.
LEMMA ContinuousInit == Continuous!Init => ContinuousInv
<1>. SUFFICES ASSUME Continuous!Init PROVE ContinuousInv
  OBVIOUS
<1>. DEFINE k0 == Continuous!NoContract
            row0 == [a \in ContinuousAgents |-> Continuous!NoBid]
            cps0 == [i \in CheckpointIndices |-> [status |-> "Pending", slash |-> 0]]
            ps0 == [i \in CheckpointIndices |-> [m \in ContinuousMembers |-> Continuous!NoVote]]
<1>1. /\ continuousNow = 1 /\ continuousTreasury = 0 /\ continuousBalance = Reserve /\ credited = 0
      /\ contracts = [c \in ContractIds |-> k0]
      /\ continuousBids = [c \in ContractIds |-> row0]
      /\ checkpoints = [c \in ContractIds |-> cps0]
      /\ panels = [c \in ContractIds |-> ps0]
      /\ best = [c \in ContractIds |-> [agent |-> NoAgent, score |-> 0]]
      /\ agentActiveStake = [m \in ContinuousMembers |-> 0]
  BY ContinuousSets DEF Continuous!Init
<1>2. k0 \in ContractType
  BY DEF ContractType, Continuous!NoContract
<1>3. row0 \in ContinuousRows /\ \A a \in ContinuousAgents :
        ~row0[a].committed /\ ~row0[a].revealed /\ ~row0[a].late
  BY DEF ContinuousRows, ContinuousBidType, Continuous!NoBid
<1>4. cps0 \in CheckpointRows
      /\ \A i \in CheckpointIndices : cps0[i].status = "Pending" /\ cps0[i].slash = 0
  BY DEF CheckpointRows, CheckpointType, CheckpointStatus
<1>5. ps0 \in PanelRows
      /\ \A i \in CheckpointIndices : Seated(ps0[i]) = {}
           /\ \A m \in ContinuousMembers : ps0[i][m].stake = 0
  BY DEF PanelRows, PanelType, VoteType, Seated, Continuous!NoVote
<1>6. /\ k0.status = "None" /\ k0.agent = NoAgent /\ k0.currentStake = 0 /\ k0.escrow = 0
      /\ k0.bond = 0
  BY DEF Continuous!NoContract
<1>. HIDE DEF k0, row0, cps0, ps0
<1>7. ContractSound(k0, row0, cps0, ps0, NoAgent)
  BY <1>3, <1>4, <1>5, <1>6 DEF ContractSound, PanelSound, BeforeWork
<1>8. \A m \in ContinuousMembers : HeldOf(k0, row0, cps0, ps0, m) = 0
  <2>. SUFFICES ASSUME NEW m \in ContinuousMembers PROVE HeldOf(k0, row0, cps0, ps0, m) = 0
    OBVIOUS
  <2>1. BidHeld(k0, row0, m) = 0 /\ WorkHeld(k0, m) = 0
    BY <1>3, <1>6 DEF BidHeld, WorkHeld
  <2>2. \A i \in CheckpointIndices : VotesHeld(cps0, ps0, m)[i] = 0
    BY <1>4 DEF VotesHeld, VoteHeld
  <2>3. SumFunctionOnSet(VotesHeld(cps0, ps0, m), CheckpointIndices) = 0
    BY <2>2, ContinuousSets, SumZero
  <2>. QED BY <2>1, <2>3 DEF HeldOf
<1>9. \A m \in ContinuousMembers : Covers(k0, row0, cps0, ps0, m) = 0
  <2>1. SumFunctionOnSet(Slashes(cps0), CheckpointIndices) = 0
    <3>1. \A i \in CheckpointIndices : Slashes(cps0)[i] = 0
      BY <1>4 DEF Slashes
    <3>. QED BY <3>1, ContinuousSets, SumZero
  <2>. QED BY <1>8, <2>1 DEF Covers, SlashedFrom
<1>10. OwedFor(k0, row0, cps0, ps0) = 0
  <2>1. \A i \in CheckpointIndices : UnpaidRow(k0, ps0)[i] = 0
    BY <1>5, EmptyPanel DEF UnpaidRow
  <2>2. SumFunctionOnSet(UnpaidRow(k0, ps0), CheckpointIndices) = 0
    BY <2>1, ContinuousSets, SumZero
  <2>3. \A m \in ContinuousMembers : HeldRow(k0, row0, cps0, ps0)[m] = 0
    BY <1>8 DEF HeldRow
  <2>4. SumFunctionOnSet(HeldRow(k0, row0, cps0, ps0), ContinuousMembers) = 0
    BY <2>3, ContinuousSets, SumZero
  <2>. QED BY <1>6, <2>2, <2>4 DEF OwedFor
<1>11. \A c \in ContractIds : /\ contracts[c] = k0 /\ continuousBids[c] = row0
                              /\ checkpoints[c] = cps0 /\ panels[c] = ps0
                              /\ best[c].agent = NoAgent
  BY <1>1
<1>12. ContinuousTypes
  BY <1>1, <1>2, <1>3, <1>4, <1>5, SatelliteAssumption DEF ContinuousTypes
<1>13. SumFunctionOnSet(OwedRow(contracts, continuousBids, checkpoints, panels), ContractIds) = 0
  <2>1. \A c \in ContractIds : OwedRow(contracts, continuousBids, checkpoints, panels)[c] = 0
    BY <1>10, <1>11 DEF OwedRow
  <2>. QED BY <2>1, ContinuousSets, SumZero
<1>14. ASSUME NEW m \in ContinuousMembers
       PROVE  SumFunctionOnSet(CoverRow(contracts, continuousBids, checkpoints, panels, m),
                               ContractIds) = 0
  <2>1. \A c \in ContractIds :
          CoverRow(contracts, continuousBids, checkpoints, panels, m)[c] = 0
    BY <1>9, <1>11 DEF CoverRow
  <2>. QED BY <2>1, ContinuousSets, SumZero
<1>15. continuousBalance + credited = Reserve + continuousTreasury
         + SumFunctionOnSet(OwedRow(contracts, continuousBids, checkpoints, panels), ContractIds)
  BY <1>1, <1>13, SatelliteAssumption
<1>16. \A m \in ContinuousMembers : agentActiveStake[m] >=
         SumFunctionOnSet(CoverRow(contracts, continuousBids, checkpoints, panels, m), ContractIds)
  BY <1>1, <1>14
<1>17. \A c \in ContractIds :
         ContractSound(contracts[c], continuousBids[c], checkpoints[c], panels[c], best[c].agent)
  BY <1>7, <1>11
<1>. QED BY <1>12, <1>15, <1>16, <1>17 DEF ContinuousInv

-----------------------------------------------------------------------------
\* The table f becomes g: the entry of c is now v.
Becomes(f, g, T, c, v) ==
  /\ f \in [ContractIds -> T] /\ g \in [ContractIds -> T] /\ c \in ContractIds /\ v \in T
  /\ g[c] = v /\ \A d \in ContractIds \ {c} : g[d] = f[d]

\* A function is itself with one value written over itself.
LEMMA StaysHere ==
  ASSUME NEW f, NEW T, f \in [ContractIds -> T], NEW c \in ContractIds
  PROVE  Becomes(f, f, T, c, f[c])
BY DEF Becomes

\* A function with one value changed.
LEMMA BecomesHere ==
  ASSUME NEW f, NEW T, f \in [ContractIds -> T], NEW c \in ContractIds, NEW v \in T
  PROVE  Becomes(f, [f EXCEPT ![c] = v], T, c, v)
BY DEF Becomes

\* Only the contract c changes: its records, its leading bid and the money.
ContractWrite(c, k, row, cps, ps, lead) ==
  /\ Becomes(contracts, contracts', ContractType, c, k)
  /\ Becomes(continuousBids, continuousBids', ContinuousRows, c, row)
  /\ Becomes(checkpoints, checkpoints', CheckpointRows, c, cps)
  /\ Becomes(panels, panels', PanelRows, c, ps)
  /\ DOMAIN best' = ContractIds /\ best' = [d \in ContractIds |-> best'[d]]
  /\ best'[c].agent = lead /\ \A d \in ContractIds \ {c} : best'[d] = best[d]
  /\ ContractSound(k, row, cps, ps, lead)
  /\ UNCHANGED continuousNow
  /\ continuousTreasury' \in Int /\ continuousBalance' \in Int /\ credited' \in Int
  /\ agentActiveStake' \in [ContinuousMembers -> Int]
  /\ continuousBalance' + credited' - continuousTreasury'
       = continuousBalance + credited - continuousTreasury
         - OwedFor(contracts[c], continuousBids[c], checkpoints[c], panels[c])
         + OwedFor(k, row, cps, ps)
  /\ \A m \in ContinuousMembers : agentActiveStake'[m] >= agentActiveStake[m]
       - Covers(contracts[c], continuousBids[c], checkpoints[c], panels[c], m)
       + Covers(k, row, cps, ps, m)

\* A step that changes one contract: what it owes, the balance and the stakes move
\* alike.
LEMMA OneContract ==
  ASSUME ContinuousInv, NEW c, NEW k, NEW row, NEW cps, NEW ps, NEW lead,
         ContractWrite(c, k, row, cps, ps, lead)
  PROVE  ContinuousInv'
<1>. DEFINE f == OwedRow(contracts, continuousBids, checkpoints, panels)
            g == OwedRow(contracts', continuousBids', checkpoints', panels')
            cover(m) == CoverRow(contracts, continuousBids, checkpoints, panels, m)
            covered(m) == CoverRow(contracts', continuousBids', checkpoints', panels', m)
<1>1. /\ c \in ContractIds
      /\ contracts' \in [ContractIds -> ContractType] /\ contracts'[c] = k
      /\ \A d \in ContractIds \ {c} : contracts'[d] = contracts[d]
  BY DEF ContractWrite, Becomes
<1>2. /\ continuousBids' \in [ContractIds -> ContinuousRows] /\ continuousBids'[c] = row
      /\ \A d \in ContractIds \ {c} : continuousBids'[d] = continuousBids[d]
  BY DEF ContractWrite, Becomes
<1>3. /\ checkpoints' \in [ContractIds -> CheckpointRows] /\ checkpoints'[c] = cps
      /\ \A d \in ContractIds \ {c} : checkpoints'[d] = checkpoints[d]
  BY DEF ContractWrite, Becomes
<1>4. /\ panels' \in [ContractIds -> PanelRows] /\ panels'[c] = ps
      /\ \A d \in ContractIds \ {c} : panels'[d] = panels[d]
  BY DEF ContractWrite, Becomes
<1>5. /\ DOMAIN best' = ContractIds /\ best' = [d \in ContractIds |-> best'[d]]
      /\ best'[c].agent = lead /\ \A d \in ContractIds \ {c} : best'[d] = best[d]
  BY DEF ContractWrite
<1>6. ContinuousTypes'
  BY <1>1, <1>2, <1>3, <1>4, <1>5 DEF ContinuousTypes, ContinuousInv, ContractWrite
<1>7. ASSUME NEW d \in ContractIds
      PROVE  ContractSound(contracts'[d], continuousBids'[d], checkpoints'[d], panels'[d],
                           best'[d].agent)
  <2>1. CASE d = c
    <3>1. ContractSound(k, row, cps, ps, lead)
      BY DEF ContractWrite
    <3>. QED BY <1>1, <1>2, <1>3, <1>4, <1>5, <2>1, <3>1
  <2>2. CASE d # c
    <3>1. ContractSound(contracts[d], continuousBids[d], checkpoints[d], panels[d], best[d].agent)
      BY DEF ContinuousInv
    <3>. QED BY <1>1, <1>2, <1>3, <1>4, <1>5, <2>2, <3>1
  <2>. QED BY <2>1, <2>2
<1>8. ASSUME NEW d \in ContractIds
      PROVE  ContractRecords(contracts'[d], continuousBids'[d], checkpoints'[d], panels'[d],
                             best'[d].agent)
  BY <1>1, <1>2, <1>3, <1>4, <1>7 DEF ContractRecords
<1>9. \A d \in ContractIds \ {c} : g[d] = f[d]
  BY <1>1, <1>2, <1>3, <1>4 DEF OwedRow
<1>10. \A d \in ContractIds : f[d] \in Int /\ g[d] \in Int
  <2>. SUFFICES ASSUME NEW d \in ContractIds PROVE f[d] \in Int /\ g[d] \in Int
    OBVIOUS
  <2>1. OwedFor(contracts[d], continuousBids[d], checkpoints[d], panels[d]) \in Int
    BY Contract0, OwedInt
  <2>2. OwedFor(contracts'[d], continuousBids'[d], checkpoints'[d], panels'[d]) \in Int
    BY <1>8, OwedInt
  <2>. QED BY <2>1, <2>2 DEF OwedRow
<1>11. /\ f[c] = OwedFor(contracts[c], continuousBids[c], checkpoints[c], panels[c])
       /\ g[c] = OwedFor(k, row, cps, ps)
  BY <1>1, <1>2, <1>3, <1>4 DEF OwedRow
<1>12. ASSUME NEW m \in ContinuousMembers
       PROVE  /\ IntChange(cover(m), covered(m), ContractIds, c)
              /\ cover(m)[c]
                   = Covers(contracts[c], continuousBids[c], checkpoints[c], panels[c], m)
              /\ covered(m)[c] = Covers(k, row, cps, ps, m)
  <2>1. \A d \in ContractIds \ {c} : covered(m)[d] = cover(m)[d]
    BY <1>1, <1>2, <1>3, <1>4 DEF CoverRow
  <2>2. \A d \in ContractIds : cover(m)[d] \in Int /\ covered(m)[d] \in Int
    <3>. SUFFICES ASSUME NEW d \in ContractIds
                  PROVE  cover(m)[d] \in Int /\ covered(m)[d] \in Int
      OBVIOUS
    <3>1. Covers(contracts[d], continuousBids[d], checkpoints[d], panels[d], m) \in Int
      BY Contract0, OwedInt
    <3>2. Covers(contracts'[d], continuousBids'[d], checkpoints'[d], panels'[d], m) \in Int
      BY <1>8, OwedInt
    <3>. QED BY <3>1, <3>2 DEF CoverRow
  <2>3. /\ cover(m)[c] = Covers(contracts[c], continuousBids[c], checkpoints[c], panels[c], m)
        /\ covered(m)[c] = Covers(k, row, cps, ps, m)
    BY <1>1, <1>2, <1>3, <1>4 DEF CoverRow
  <2>. HIDE DEF cover, covered
  <2>. QED BY <1>1, <2>1, <2>2, <2>3, ContinuousSets DEF IntChange
<1>13. IntChange(f, g, ContractIds, c)
  <2>. HIDE DEF f, g
  <2>. QED BY <1>1, <1>9, <1>10, ContinuousSets DEF IntChange
<1>. DEFINE owed == SumFunctionOnSet(f, ContractIds)
            owing == SumFunctionOnSet(g, ContractIds)
            x == f[c]
            y == g[c]
<1>14. continuousBalance' + credited' = Reserve + continuousTreasury' + owing
  <2>. DEFINE u == continuousBalance'
              v == credited'
              w == continuousTreasury'
  <2>1. owing = owed - x + y /\ owed \in Int /\ owing \in Int /\ x \in Int /\ y \in Int
    <3>. HIDE DEF f, g
    <3>. QED BY <1>13, IntUpdate
  <2>2. continuousBalance + credited = Reserve + continuousTreasury + owed
        /\ continuousBalance \in Int /\ credited \in Int /\ continuousTreasury \in Int
        /\ Reserve \in Int
    BY SatelliteAssumption DEF ContinuousInv, ContinuousTypes
  <2>3. u + v - w = continuousBalance + credited - continuousTreasury - x + y
        /\ u \in Int /\ v \in Int /\ w \in Int
    BY <1>11 DEF ContractWrite
  <2>. HIDE DEF u, v, w, x, y, owed, owing, f, g
  <2>4. u + v = Reserve + w + owing
    BY <2>1, <2>2, <2>3
  <2>. QED BY <2>4 DEF u, v, w
<1>15. ASSUME NEW m \in ContinuousMembers
       PROVE  agentActiveStake'[m] >= SumFunctionOnSet(covered(m), ContractIds)
  <2>. DEFINE old == cover(m)
              new == covered(m)
              s == SumFunctionOnSet(old, ContractIds)
              u == SumFunctionOnSet(new, ContractIds)
              p == agentActiveStake'[m]
              q == agentActiveStake[m]
              z == old[c]
              t == new[c]
  <2>1. IntChange(old, new, ContractIds, c)
    BY <1>12
  <2>2. /\ p >= q - Covers(contracts[c], continuousBids[c], checkpoints[c], panels[c], m)
                    + Covers(k, row, cps, ps, m)
        /\ p \in Int
    BY DEF ContractWrite
  <2>3. q >= s /\ q \in Int
    BY DEF ContinuousInv, ContinuousTypes
  <2>4. p >= q - z + t
    BY <1>12, <2>2
  <2>. HIDE DEF old, new, p, q
  <2>5. u = s - z + t /\ u \in Int /\ s \in Int /\ z \in Int /\ t \in Int
    BY <2>1, IntUpdate
  <2>. HIDE DEF s, u, z, t
  <2>6. p >= u
    BY <2>2, <2>3, <2>4, <2>5
  <2>. QED BY <2>6 DEF p, u, new
<1>. QED BY <1>6, <1>7, <1>14, <1>15 DEF ContinuousInv

-----------------------------------------------------------------------------
(* The auction: stakes e are returned and x comes in from a.               *)

AuctionMove(c, k, row, e, a, x) ==
  /\ c \in ContractIds /\ k \in ContractType /\ row \in ContinuousRows
  /\ x \in Int /\ (a \in ContinuousMembers \/ x = 0)
  /\ \A m \in ContinuousMembers : e[m] \in Int
  /\ \A m \in ContinuousMembers : BidHeld(k, row, m) + WorkHeld(k, m)
       = BidHeld(contracts[c], continuousBids[c], m) + WorkHeld(contracts[c], m) - e[m]
         + IF m = a THEN x ELSE 0
  /\ \A i \in CheckpointIndices : UnpaidOf(k, panels[c][i]) = UnpaidOf(contracts[c], panels[c][i])
  /\ \A m \in ContinuousMembers :
       SlashedFrom(k, checkpoints[c], m) = SlashedFrom(contracts[c], checkpoints[c], m)

\* An auction's move: what is held of each bidder changes by what it gets back and
\* puts in.
LEMMA AuctionHeld ==
  ASSUME ContinuousInv, NEW c, NEW k, NEW row, NEW e, NEW a, NEW x,
         AuctionMove(c, k, row, e, a, x), NEW m \in ContinuousMembers
  PROVE  HeldOf(k, row, checkpoints[c], panels[c], m)
           = HeldOf(contracts[c], continuousBids[c], checkpoints[c], panels[c], m) - e[m]
             + IF m = a THEN x ELSE 0
<1>. DEFINE b == BidHeld(k, row, m)
            w == WorkHeld(k, m)
            b0 == BidHeld(contracts[c], continuousBids[c], m)
            w0 == WorkHeld(contracts[c], m)
            v == SumFunctionOnSet(VotesHeld(checkpoints[c], panels[c], m), CheckpointIndices)
            z == IF m = a THEN x ELSE 0
            t == e[m]
<1>1. /\ c \in ContractIds /\ k \in ContractType /\ row \in ContinuousRows
      /\ t \in Int /\ z \in Int /\ b + w = b0 + w0 - t + z
  BY DEF AuctionMove
<1>2. /\ contracts[c] \in ContractType /\ continuousBids[c] \in ContinuousRows
      /\ checkpoints[c] \in CheckpointRows /\ panels[c] \in PanelRows
  BY <1>1, Contract0 DEF ContractRecords
<1>3. b \in Int /\ w \in Int /\ b0 \in Int /\ w0 \in Int /\ v \in Int
  BY <1>1, <1>2, HeldInt
<1>4. /\ HeldOf(k, row, checkpoints[c], panels[c], m) = b + w + v
      /\ HeldOf(contracts[c], continuousBids[c], checkpoints[c], panels[c], m) = b0 + w0 + v
  BY DEF HeldOf
<1>. DEFINE h == HeldOf(k, row, checkpoints[c], panels[c], m)
            h0 == HeldOf(contracts[c], continuousBids[c], checkpoints[c], panels[c], m)
<1>5. h = b + w + v /\ h0 = b0 + w0 + v
  BY <1>4
<1>. HIDE DEF b, w, b0, w0, v, z, t, h, h0
<1>6. h = h0 - t + z
  BY <1>1, <1>3, <1>5
<1>. QED BY <1>6 DEF z, t, h, h0

\* An auction's move: what the contract owes changes by the same amounts.
LEMMA AuctionOwed ==
  ASSUME ContinuousInv, NEW c, NEW k, NEW row, NEW e, NEW a, NEW x,
         AuctionMove(c, k, row, e, a, x)
  PROVE  /\ OwedFor(k, row, checkpoints[c], panels[c])
              = OwedFor(contracts[c], continuousBids[c], checkpoints[c], panels[c])
                + (k.escrow + k.bond) - (contracts[c].escrow + contracts[c].bond)
                - SumFunctionOnSet(e, ContinuousMembers) + x
         /\ \A m \in ContinuousMembers :
              /\ Covers(k, row, checkpoints[c], panels[c], m)
                   = Covers(contracts[c], continuousBids[c], checkpoints[c], panels[c], m) - e[m]
                     + IF m = a THEN x ELSE 0
              /\ Covers(contracts[c], continuousBids[c], checkpoints[c], panels[c], m) \in Int
         /\ SumFunctionOnSet(e, ContinuousMembers) \in Int /\ x \in Int
         /\ k.escrow \in Int /\ k.bond \in Int
         /\ contracts[c].escrow \in Int /\ contracts[c].bond \in Int
         /\ OwedFor(contracts[c], continuousBids[c], checkpoints[c], panels[c]) \in Int
<1>. DEFINE k0 == contracts[c]
            row0 == continuousBids[c]
            cps == checkpoints[c]
            ps == panels[c]
            M == ContinuousMembers
            f == HeldRow(k0, row0, cps, ps)
            g == HeldRow(k, row, cps, ps)
            u == SumFunctionOnSet(UnpaidRow(k0, ps), CheckpointIndices)
            lead == best[c].agent
<1>1. c \in ContractIds /\ k \in ContractType /\ row \in ContinuousRows
  BY DEF AuctionMove
<1>2. ContractRecords(k0, row0, cps, ps, lead)
  BY <1>1, Contract0
<1>3. /\ k0 \in ContractType /\ row0 \in ContinuousRows /\ cps \in CheckpointRows
      /\ ps \in PanelRows
  BY <1>2 DEF ContractRecords
<1>4. Shift(f, g, e, M, a, x)
  <2>1. \A m \in M : f[m] = HeldOf(k0, row0, cps, ps, m) /\ g[m] = HeldOf(k, row, cps, ps, m)
    BY DEF HeldRow
  <2>2. \A m \in M : f[m] \in Int /\ g[m] \in Int
    <3>1. \A m \in M : HeldOf(k0, row0, cps, ps, m) \in Int
      BY <1>3, HeldInt
    <3>2. \A m \in M : HeldOf(k, row, cps, ps, m) \in Int
      BY <1>1, <1>3, HeldInt
    <3>. QED BY <2>1, <3>1, <3>2
  <2>3. \A m \in M : g[m] = f[m] - e[m] + IF m = a THEN x ELSE 0
    BY <2>1, AuctionHeld
  <2>4. /\ x \in Int /\ (a \in M \/ x = 0) /\ IsFiniteSet(M)
        /\ \A m \in M : e[m] \in Int
    BY ContinuousSets DEF AuctionMove
  <2>. HIDE DEF f, g
  <2>5. \A m \in M : f[m] \in Int /\ e[m] \in Int /\ g[m] \in Int
    BY <2>2, <2>4
  <2>. QED BY <2>3, <2>4, <2>5 DEF Shift
<1>5. /\ SumFunctionOnSet(f, M) \in Int /\ SumFunctionOnSet(g, M) \in Int
      /\ SumFunctionOnSet(e, M) \in Int
      /\ SumFunctionOnSet(g, M) = SumFunctionOnSet(f, M) - SumFunctionOnSet(e, M) + x
  <2>. HIDE DEF f, g, M
  <2>. QED BY <1>4, ShiftedSum
<1>6. UnpaidRow(k, ps) = UnpaidRow(k0, ps)
  BY DEF AuctionMove, UnpaidRow
<1>7. u \in Int /\ k0.escrow \in Int /\ k0.bond \in Int /\ OwedFor(k0, row0, cps, ps) \in Int
  BY <1>2, OwedInt
<1>8. k.escrow \in Int /\ k.bond \in Int /\ x \in Int
  BY <1>1 DEF ContractType, AuctionMove
<1>9. /\ OwedFor(k, row, cps, ps) = k.escrow + k.bond + u + SumFunctionOnSet(g, M)
      /\ OwedFor(k0, row0, cps, ps) = k0.escrow + k0.bond + u + SumFunctionOnSet(f, M)
  BY <1>6 DEF OwedFor
<1>10. OwedFor(k, row, cps, ps) = OwedFor(k0, row0, cps, ps) + (k.escrow + k.bond)
         - (k0.escrow + k0.bond) - SumFunctionOnSet(e, M) + x
  <2>. DEFINE es == k.escrow
              bo == k.bond
              es0 == k0.escrow
              bo0 == k0.bond
              sf == SumFunctionOnSet(f, M)
              sg == SumFunctionOnSet(g, M)
              se == SumFunctionOnSet(e, M)
              o0 == OwedFor(k0, row0, cps, ps)
              o1 == OwedFor(k, row, cps, ps)
  <2>1. o1 = es + bo + u + sg /\ o0 = es0 + bo0 + u + sf /\ sg = sf - se + x
    BY <1>5, <1>9
  <2>2. /\ es \in Int /\ bo \in Int /\ es0 \in Int /\ bo0 \in Int /\ u \in Int /\ sf \in Int
        /\ se \in Int /\ x \in Int
    BY <1>5, <1>7, <1>8
  <2>. HIDE DEF es, bo, es0, bo0, u, sf, sg, se, o0, o1
  <2>3. o1 = o0 + (es + bo) - (es0 + bo0) - se + x
    BY <2>1, <2>2
  <2>. QED BY <2>3 DEF es, bo, es0, bo0, se, o0, o1
<1>11. ASSUME NEW m \in M
       PROVE  /\ Covers(k, row, cps, ps, m)
                   = Covers(k0, row0, cps, ps, m) - e[m] + IF m = a THEN x ELSE 0
              /\ Covers(k0, row0, cps, ps, m) \in Int
  <2>. DEFINE h == HeldOf(k, row, cps, ps, m)
              h0 == HeldOf(k0, row0, cps, ps, m)
              s == SlashedFrom(k0, cps, m)
              z == IF m = a THEN x ELSE 0
              t == e[m]
  <2>1. h = h0 - t + z
    BY AuctionHeld
  <2>2. SlashedFrom(k, cps, m) = s
    BY DEF AuctionMove
  <2>3. h0 \in Int /\ s \in Int
    BY <1>3, HeldInt
  <2>4. t \in Int /\ z \in Int
    BY DEF AuctionMove
  <2>5. Covers(k, row, cps, ps, m) = h + s /\ Covers(k0, row0, cps, ps, m) = h0 + s
    BY <2>2 DEF Covers
  <2>. DEFINE y == Covers(k, row, cps, ps, m)
              y0 == Covers(k0, row0, cps, ps, m)
  <2>7. y = h + s /\ y0 = h0 + s
    BY <2>5
  <2>. HIDE DEF h, h0, s, z, t, y, y0
  <2>6. y = y0 - t + z /\ y0 \in Int
    BY <2>1, <2>3, <2>4, <2>7
  <2>. QED BY <2>6 DEF z, t, y, y0
<1>. QED BY <1>5, <1>7, <1>8, <1>10, <1>11

\* A step of the auction of c, with the money it moves.
AuctionStep(c, k, row, e, a, x, lead) ==
  /\ AuctionMove(c, k, row, e, a, x)
  /\ Becomes(contracts, contracts', ContractType, c, k)
  /\ Becomes(continuousBids, continuousBids', ContinuousRows, c, row)
  /\ UNCHANGED <<continuousNow, checkpoints, panels, continuousTreasury, credited>>
  /\ DOMAIN best' = ContractIds /\ best' = [d \in ContractIds |-> best'[d]]
  /\ best'[c].agent = lead /\ \A d \in ContractIds \ {c} : best'[d] = best[d]
  /\ ContractSound(k, row, checkpoints[c], panels[c], lead)
  /\ continuousBalance' = continuousBalance + (k.escrow + k.bond)
       - (contracts[c].escrow + contracts[c].bond) - SumFunctionOnSet(e, ContinuousMembers) + x
  /\ agentActiveStake' = [m \in ContinuousMembers |->
       agentActiveStake[m] - e[m] + IF m = a THEN x ELSE 0]

\* A step of an auction keeps the invariant.
LEMMA OneAuctionStep ==
  ASSUME ContinuousInv, NEW c, NEW k, NEW row, NEW e, NEW a, NEW x, NEW lead,
         AuctionStep(c, k, row, e, a, x, lead)
  PROVE  ContinuousInv'
<1>. DEFINE k0 == contracts[c]
            row0 == continuousBids[c]
            cps == checkpoints[c]
            ps == panels[c]
<1>1. AuctionMove(c, k, row, e, a, x) /\ c \in ContractIds
  BY DEF AuctionStep, AuctionMove
<1>2. /\ checkpoints \in [ContractIds -> CheckpointRows] /\ panels \in [ContractIds -> PanelRows]
      /\ continuousTreasury \in Int /\ continuousBalance \in Int /\ credited \in Int
      /\ agentActiveStake \in [ContinuousMembers -> Int]
  BY DEF ContinuousInv, ContinuousTypes
<1>3. /\ Becomes(checkpoints, checkpoints', CheckpointRows, c, cps)
      /\ Becomes(panels, panels', PanelRows, c, ps)
  BY <1>1, <1>2, StaysHere DEF AuctionStep
<1>4. /\ continuousBalance' \in Int
      /\ continuousBalance' + credited' - continuousTreasury'
           = continuousBalance + credited - continuousTreasury
             - OwedFor(k0, row0, cps, ps) + OwedFor(k, row, cps, ps)
  <2>. DEFINE u == continuousBalance'
              v == continuousBalance
              se == SumFunctionOnSet(e, ContinuousMembers)
              o0 == OwedFor(k0, row0, cps, ps)
              o1 == OwedFor(k, row, cps, ps)
              p == k.escrow + k.bond
              p0 == k0.escrow + k0.bond
  <2>1. o1 = o0 + p - p0 - se + x /\ o0 \in Int /\ p \in Int /\ p0 \in Int /\ se \in Int /\ x \in Int
    BY <1>1, AuctionOwed
  <2>2. u = v + p - p0 - se + x /\ v \in Int
    BY <1>2 DEF AuctionStep
  <2>3. credited' = credited /\ continuousTreasury' = continuousTreasury
    BY DEF AuctionStep
  <2>. HIDE DEF u, v, se, o0, o1, p, p0
  <2>4. u \in Int /\ u + credited - continuousTreasury
          = v + credited - continuousTreasury - o0 + o1
    BY <1>2, <2>1, <2>2
  <2>. QED BY <2>3, <2>4 DEF u, v, o0, o1
<1>5. /\ agentActiveStake' \in [ContinuousMembers -> Int]
      /\ \A m \in ContinuousMembers : agentActiveStake'[m] >= agentActiveStake[m]
           - Covers(k0, row0, cps, ps, m) + Covers(k, row, cps, ps, m)
  <2>1. \A m \in ContinuousMembers :
          agentActiveStake[m] - e[m] + (IF m = a THEN x ELSE 0) \in Int
    BY <1>2 DEF AuctionStep, AuctionMove
  <2>2. agentActiveStake' \in [ContinuousMembers -> Int]
    BY <2>1 DEF AuctionStep
  <2>3. ASSUME NEW m \in ContinuousMembers
        PROVE  agentActiveStake'[m] >= agentActiveStake[m]
                 - Covers(k0, row0, cps, ps, m) + Covers(k, row, cps, ps, m)
    <3>. DEFINE t == e[m]
                z == IF m = a THEN x ELSE 0
                y0 == Covers(k0, row0, cps, ps, m)
                y1 == Covers(k, row, cps, ps, m)
                s == agentActiveStake[m]
                s1 == agentActiveStake'[m]
    <3>1. y1 = y0 - t + z /\ y0 \in Int
      BY <1>1, AuctionOwed
    <3>2. s1 = s - t + z
      BY DEF AuctionStep
    <3>3. t \in Int /\ z \in Int /\ s \in Int
      BY <1>1, <1>2 DEF AuctionMove
    <3>. HIDE DEF t, z, y0, y1, s, s1
    <3>4. s1 >= s - y0 + y1
      BY <3>1, <3>2, <3>3
    <3>. QED BY <3>4 DEF y0, y1, s, s1
  <2>. QED BY <2>2, <2>3
<1>6. ContractWrite(c, k, row, cps, ps, lead)
  BY <1>2, <1>3, <1>4, <1>5 DEF ContractWrite, AuctionStep
<1>. QED BY <1>6, OneContract

-----------------------------------------------------------------------------
ContractStatus == {"None", "Open", "BidReveal", "Active", "Terminated", "Completed"}

\* A contract with one field changed.
LEMMA ContractField ==
  ASSUME NEW k \in ContractType
  PROVE  /\ \A s \in ContractStatus : [k EXCEPT !.status = s] \in ContractType
         /\ \A a \in ContinuousAgents \cup {NoAgent} : [k EXCEPT !.agent = a] \in ContractType
         /\ \A n \in Nat : [k EXCEPT !.stake = n] \in ContractType
         /\ \A n \in Nat : [k EXCEPT !.currentStake = n] \in ContractType
         /\ \A n \in Int : [k EXCEPT !.startedAt = n] \in ContractType
         /\ \A n \in Int : [k EXCEPT !.escrow = n] \in ContractType
         /\ \A n \in Int : [k EXCEPT !.bond = n] \in ContractType
         /\ \A n \in Int : [k EXCEPT !.completed = n] \in ContractType
         /\ \A n \in Int : [k EXCEPT !.failed = n] \in ContractType
         /\ \A n \in Int : [k EXCEPT !.streak = n] \in ContractType
<1>1. \A s \in ContractStatus : [k EXCEPT !.status = s] \in ContractType
  BY DEF ContractType, ContractStatus
<1>2. \A a \in ContinuousAgents \cup {NoAgent} : [k EXCEPT !.agent = a] \in ContractType
  BY DEF ContractType
<1>3. \A n \in Nat : [k EXCEPT !.stake = n] \in ContractType
  BY DEF ContractType
<1>4. \A n \in Nat : [k EXCEPT !.currentStake = n] \in ContractType
  BY DEF ContractType
<1>5. \A n \in Int : [k EXCEPT !.startedAt = n] \in ContractType
  BY DEF ContractType
<1>6. \A n \in Int : [k EXCEPT !.escrow = n] \in ContractType
  BY DEF ContractType
<1>7. \A n \in Int : [k EXCEPT !.bond = n] \in ContractType
  BY DEF ContractType
<1>8. \A n \in Int : [k EXCEPT !.completed = n] \in ContractType
  BY DEF ContractType
<1>9. \A n \in Int : [k EXCEPT !.failed = n] \in ContractType
  BY DEF ContractType
<1>10. \A n \in Int : [k EXCEPT !.streak = n] \in ContractType
  BY DEF ContractType
<1>. QED BY <1>1, <1>2, <1>3, <1>4, <1>5, <1>6, <1>7, <1>8, <1>9, <1>10

\* The stakes of the bids of L, given back.
RefundsOf(row, L) == [m \in ContinuousMembers |-> IF m \in L THEN row[m].stake ELSE 0]

\* The refunds of some bidders, as a sum over everybody.
LEMMA Refunded ==
  ASSUME NEW row \in ContinuousRows, NEW L \in SUBSET ContinuousAgents
  PROVE  /\ \A m \in ContinuousMembers : RefundsOf(row, L)[m] \in Nat
         /\ SumFunctionOnSet(RefundsOf(row, L), ContinuousMembers)
              = SumFunctionOnSet([a \in L |-> row[a].stake], L)
<1>. DEFINE f == [a \in L |-> row[a].stake]
            g == RefundsOf(row, L)
<1>1. \A a \in ContinuousAgents : row[a].stake \in Nat
  BY DEF ContinuousRows, ContinuousBidType
<1>2. \A m \in ContinuousMembers : g[m] \in Nat
  BY <1>1 DEF RefundsOf
<1>3. L \in SUBSET ContinuousMembers /\ IsFiniteSet(ContinuousMembers)
  BY ContinuousSets
<1>4. \A a \in L : f[a] \in Int /\ g[a] = f[a]
  BY <1>1, <1>3 DEF RefundsOf
<1>5. \A m \in ContinuousMembers \ L : g[m] = 0
  BY DEF RefundsOf
<1>. HIDE DEF f, g
<1>6. SumFunctionOnSet(g, ContinuousMembers) = SumFunctionOnSet(f, L)
  BY <1>3, <1>4, <1>5, SumWhere
<1>. QED BY <1>2, <1>6 DEF f, g

\* Nobody's refund is nothing.
LEMMA NothingRefunded ==
  ASSUME NEW row
  PROVE  /\ \A m \in ContinuousMembers : RefundsOf(row, {})[m] = 0
         /\ SumFunctionOnSet(RefundsOf(row, {}), ContinuousMembers) = 0
<1>1. \A m \in ContinuousMembers : RefundsOf(row, {})[m] = 0
  BY DEF RefundsOf
<1>. QED BY <1>1, ContinuousSets, SumZero

\* Before work starts nothing is judged.
LEMMA NothingJudged ==
  ASSUME NEW k, NEW row, NEW cps, NEW ps, NEW lead, ContractRecords(k, row, cps, ps, lead),
         k.agent = NoAgent
  PROVE  /\ \A i \in CheckpointIndices :
              /\ Seated(ps[i]) = {} /\ cps[i].slash = 0 /\ \A q : UnpaidOf(q, ps[i]) = 0
         /\ k.currentStake = 0
         /\ \A q, m : SlashedFrom(q, cps, m) = 0
<1>1. ASSUME NEW i \in CheckpointIndices
      PROVE  Seated(ps[i]) = {} /\ cps[i].slash = 0 /\ \A q : UnpaidOf(q, ps[i]) = 0
  <2>1. cps[i].status = "Pending" /\ PanelSound(cps[i], ps[i])
    BY DEF ContractRecords, ContractSound
  <2>2. Seated(ps[i]) = {} /\ cps[i].slash = 0
    BY <2>1 DEF PanelSound
  <2>. QED BY <2>2, EmptyPanel
<1>2. SumFunctionOnSet(Slashes(cps), CheckpointIndices) = 0
  <2>1. \A i \in CheckpointIndices : Slashes(cps)[i] = 0
    BY <1>1 DEF Slashes
  <2>. QED BY <2>1, ContinuousSets, SumZero
<1>3. \A q, m : SlashedFrom(q, cps, m) = 0
  BY <1>2 DEF SlashedFrom
<1>. QED BY <1>1, <1>3 DEF ContractRecords, ContractSound

\* The fee depends on the terms only.
LEMMA SameFee ==
  ASSUME NEW k, NEW q, q.bounty = k.bounty, q.total = k.total, q.required = k.required, NEW p
  PROVE  UnpaidOf(q, p) = UnpaidOf(k, p)
BY DEF UnpaidOf, Continuous!FeePerVerifier, Continuous!PaymentPerCheckpoint

\* The records of the contracts, as functions.
LEMMA Best0 ==
  ASSUME ContinuousInv, NEW c \in ContractIds
  PROVE  /\ DOMAIN best = ContractIds /\ best = [d \in ContractIds |-> best[d]]
         /\ contracts \in [ContractIds -> ContractType]
         /\ continuousBids \in [ContractIds -> ContinuousRows]
         /\ checkpoints \in [ContractIds -> CheckpointRows]
         /\ panels \in [ContractIds -> PanelRows]
         /\ agentActiveStake \in [ContinuousMembers -> Int]
         /\ continuousNow \in Int /\ continuousBalance \in Int /\ continuousTreasury \in Int
         /\ credited \in Int
         /\ ContractRecords(contracts[c], continuousBids[c], checkpoints[c], panels[c],
                            best[c].agent)
         /\ contracts[c] \in ContractType /\ continuousBids[c] \in ContinuousRows
         /\ checkpoints[c] \in CheckpointRows /\ panels[c] \in PanelRows
         /\ ContractSound(contracts[c], continuousBids[c], checkpoints[c], panels[c],
                          best[c].agent)
BY Contract0 DEF ContinuousInv, ContinuousTypes, ContractRecords

\* createContinuousContract.
LEMMA CreateContractKeeps ==
  ASSUME ContinuousInv, NEW c \in ContractIds, NEW terms \in ContinuousTerms,
         Continuous!CreateContinuousContract(c, terms)
  PROVE  ContinuousInv'
<1>. DEFINE k0 == contracts[c]
            row == continuousBids[c]
            cps == checkpoints[c]
            ps == panels[c]
            lead == best[c].agent
            e == RefundsOf(row, {})
            k == [Continuous!NoContract EXCEPT !.status = "Open", !.bounty = terms.bounty,
                    !.escrow = terms.bounty, !.interval = terms.interval,
                    !.required = terms.required, !.total = terms.total,
                    !.maxFailures = terms.maxFailures, !.bidDeadline = continuousNow + 1,
                    !.revealDeadline = continuousNow + 2]
            bounty == terms.bounty
<1>1. /\ k0.status = "None" /\ terms.required \in 1 .. 5 /\ terms.total >= 2
      /\ contracts' = [contracts EXCEPT ![c] = k]
      /\ continuousBalance' = continuousBalance + bounty
      /\ UNCHANGED <<continuousNow, continuousBids, best, checkpoints, panels, agentActiveStake,
                     continuousTreasury, credited>>
  BY DEF Continuous!CreateContinuousContract, Continuous!MaxVerifiers, Continuous!auctionVars,
         Continuous!workVars, Continuous!disputeVars
<1>2. /\ bounty \in Nat /\ terms.interval \in Nat /\ terms.required \in Nat /\ terms.total \in Nat
      /\ terms.maxFailures \in Nat /\ terms.required > 0 /\ terms.total > 0
  <2>1. terms \in [bounty : Nat, interval : Nat, required : Nat, total : Nat, maxFailures : Nat]
    BY SatelliteAssumption
  <2>. QED BY <1>1, <2>1
<1>3. /\ ContractRecords(k0, row, cps, ps, lead) /\ ContractSound(k0, row, cps, ps, lead)
      /\ row \in ContinuousRows
  BY Best0
<1>4. /\ k \in ContractType /\ k.status = "Open" /\ k.agent = NoAgent /\ k.currentStake = 0
      /\ k.escrow = bounty /\ k.bond = 0 /\ k.total > 0 /\ k.required > 0
  <2>. DEFINE until == continuousNow + 1
              last == continuousNow + 2
              interval == terms.interval
              required == terms.required
              total == terms.total
              allowed == terms.maxFailures
  <2>1. /\ interval \in Nat /\ required \in Nat /\ total \in Nat /\ allowed \in Nat
        /\ required > 0 /\ total > 0 /\ bounty \in Nat
    BY <1>2
  <2>2. until \in Int /\ last \in Int
    BY Best0
  <2>3. k = [Continuous!NoContract EXCEPT !.status = "Open", !.bounty = bounty, !.escrow = bounty,
              !.interval = interval, !.required = required, !.total = total,
              !.maxFailures = allowed, !.bidDeadline = until, !.revealDeadline = last]
    OBVIOUS
  <2>. HIDE DEF until, last, interval, required, total, allowed, bounty, k
  <2>4. k = [status |-> "Open", bounty |-> bounty, interval |-> interval, required |-> required,
             maxFailures |-> allowed, total |-> total, bidDeadline |-> until,
             revealDeadline |-> last, completed |-> 0, failed |-> 0, streak |-> 0,
             agent |-> NoAgent, stake |-> 0, currentStake |-> 0, startedAt |-> 0,
             escrow |-> bounty, bond |-> 0]
    BY <2>3 DEF Continuous!NoContract
  <2>5. k \in ContractType
    BY <2>1, <2>2, <2>4 DEF ContractType
  <2>. QED BY <2>1, <2>4, <2>5
<1>. HIDE DEF k, bounty, k0, row, cps, ps, lead
<1>5. /\ k0.agent = NoAgent /\ k0.currentStake = 0 /\ k0.escrow = 0 /\ k0.bond = 0
      /\ \A a \in ContinuousAgents : ~row[a].committed /\ ~row[a].revealed /\ ~row[a].late
      /\ lead = NoAgent
      /\ \A i \in CheckpointIndices : cps[i].status = "Pending" /\ PanelSound(cps[i], ps[i])
  BY <1>1, <1>3 DEF ContractSound, BeforeWork, k0
<1>6. ContractSound(k, row, cps, ps, lead)
  BY <1>4, <1>5 DEF ContractSound, BeforeWork
<1>7. AuctionMove(c, k, row, e, NoAgent, 0)
  <2>1. \A m \in ContinuousMembers :
          /\ BidHeld(k, row, m) = 0 /\ BidHeld(k0, row, m) = 0
          /\ WorkHeld(k, m) = 0 /\ WorkHeld(k0, m) = 0
    BY <1>4, <1>5 DEF BidHeld, WorkHeld
  <2>2. \A m \in ContinuousMembers : BidHeld(k, row, m) + WorkHeld(k, m)
          = BidHeld(k0, row, m) + WorkHeld(k0, m) - e[m] + IF m = NoAgent THEN 0 ELSE 0
    BY <2>1, NothingRefunded
  <2>3. /\ \A i \in CheckpointIndices : UnpaidOf(k, ps[i]) = UnpaidOf(k0, ps[i])
        /\ \A m \in ContinuousMembers : SlashedFrom(k, cps, m) = SlashedFrom(k0, cps, m)
    BY <1>3, <1>5, NothingJudged
  <2>4. \A m \in ContinuousMembers : e[m] \in Int
    BY NothingRefunded
  <2>. HIDE DEF e
  <2>. QED BY <1>3, <1>4, <2>2, <2>3, <2>4 DEF AuctionMove, k0, row, cps, ps
<1>8. /\ Becomes(contracts, contracts', ContractType, c, k)
      /\ Becomes(continuousBids, continuousBids', ContinuousRows, c, row)
  <2>1. contracts \in [ContractIds -> ContractType]
        /\ continuousBids \in [ContractIds -> ContinuousRows]
    BY Best0
  <2>. QED BY <1>1, <1>4, <2>1, BecomesHere, StaysHere DEF row
<1>9. continuousBalance' = continuousBalance + (k.escrow + k.bond) - (k0.escrow + k0.bond)
        - SumFunctionOnSet(e, ContinuousMembers) + 0
  <2>1. SumFunctionOnSet(e, ContinuousMembers) = 0
    BY NothingRefunded
  <2>2. continuousBalance \in Int /\ bounty \in Int
    BY <1>2, Best0 DEF bounty
  <2>. QED BY <1>1, <1>4, <1>5, <2>1, <2>2
<1>10. agentActiveStake' = [m \in ContinuousMembers |->
         agentActiveStake[m] - e[m] + IF m = NoAgent THEN 0 ELSE 0]
  <2>1. agentActiveStake \in [ContinuousMembers -> Int]
    BY Best0
  <2>2. \A m \in ContinuousMembers :
          agentActiveStake[m] - e[m] + (IF m = NoAgent THEN 0 ELSE 0) = agentActiveStake[m]
    BY <2>1, NothingRefunded
  <2>. QED BY <1>1, <2>1, <2>2
<1>11. AuctionStep(c, k, row, e, NoAgent, 0, lead)
  <2>1. best' = [d \in ContractIds |-> best'[d]] /\ DOMAIN best' = ContractIds
    BY <1>1, Best0
  <2>. HIDE DEF e
  <2>. QED BY <1>1, <1>6, <1>7, <1>8, <1>9, <1>10, <2>1
           DEF AuctionStep, k0, cps, ps, lead
<1>. HIDE DEF e
<1>. QED BY <1>11, OneAuctionStep

-----------------------------------------------------------------------------
\* A step that gives the stakes of L back, and takes none in.
LEMMA RefundStep ==
  ASSUME ContinuousInv, NEW c \in ContractIds, NEW k \in ContractType, NEW row \in ContinuousRows,
         NEW L \in SUBSET ContinuousAgents, NEW lead,
         Becomes(contracts, contracts', ContractType, c, k),
         Becomes(continuousBids, continuousBids', ContinuousRows, c, row),
         UNCHANGED <<continuousNow, checkpoints, panels, continuousTreasury, credited, best>>,
         lead = best[c].agent,
         ContractSound(k, row, checkpoints[c], panels[c], lead),
         AuctionMove(c, k, row, RefundsOf(continuousBids[c], L), NoAgent, 0),
         continuousBalance' = continuousBalance + (k.escrow + k.bond)
           - (contracts[c].escrow + contracts[c].bond)
           - SumFunctionOnSet([a \in L |-> continuousBids[c][a].stake], L),
         agentActiveStake' = [m \in ContinuousMembers |->
           agentActiveStake[m] - IF m \in L THEN continuousBids[c][m].stake ELSE 0]
  PROVE  ContinuousInv'
<1>. DEFINE row0 == continuousBids[c]
            e == RefundsOf(row0, L)
<1>1. row0 \in ContinuousRows /\ agentActiveStake \in [ContinuousMembers -> Int]
      /\ continuousBalance \in Int /\ contracts[c] \in ContractType
  BY Best0
<1>2. /\ \A m \in ContinuousMembers : e[m] \in Nat
      /\ SumFunctionOnSet(e, ContinuousMembers)
           = SumFunctionOnSet([a \in L |-> row0[a].stake], L)
  BY <1>1, Refunded
<1>3. agentActiveStake' = [m \in ContinuousMembers |->
        agentActiveStake[m] - e[m] + IF m = NoAgent THEN 0 ELSE 0]
  <2>1. \A m \in ContinuousMembers : e[m] = IF m \in L THEN row0[m].stake ELSE 0
    BY DEF RefundsOf
  <2>. HIDE DEF e
  <2>2. \A m \in ContinuousMembers :
          agentActiveStake[m] - e[m] + (IF m = NoAgent THEN 0 ELSE 0) = agentActiveStake[m] - e[m]
    BY <1>1, <1>2
  <2>3. \A m \in ContinuousMembers : agentActiveStake[m] - e[m]
          = agentActiveStake[m] - IF m \in L THEN row0[m].stake ELSE 0
    BY <2>1
  <2>. QED BY <2>2, <2>3
<1>4. continuousBalance' = continuousBalance + (k.escrow + k.bond)
        - (contracts[c].escrow + contracts[c].bond) - SumFunctionOnSet(e, ContinuousMembers) + 0
  <2>. DEFINE s == SumFunctionOnSet(e, ContinuousMembers)
              p == k.escrow + k.bond
              p0 == contracts[c].escrow + contracts[c].bond
              u == continuousBalance'
  <2>1. s \in Int
    BY <1>2, ContinuousSets, SumInt
  <2>2. p \in Int /\ p0 \in Int
    BY <1>1 DEF ContractType
  <2>3. u = continuousBalance + p - p0 - s
    BY <1>2
  <2>. HIDE DEF s, p, p0, u, e
  <2>4. u = continuousBalance + p - p0 - s + 0
    BY <1>1, <2>1, <2>2, <2>3
  <2>. QED BY <2>4 DEF s, p, p0, u
<1>5. DOMAIN best' = ContractIds /\ best' = [d \in ContractIds |-> best'[d]]
  BY Best0
<1>6. AuctionStep(c, k, row, e, NoAgent, 0, lead)
  <2>. HIDE DEF e, row0
  <2>1. AuctionMove(c, k, row, e, NoAgent, 0)
    BY DEF e, row0
  <2>. QED BY <1>3, <1>4, <1>5, <2>1 DEF AuctionStep
<1>. HIDE DEF e
<1>. QED BY <1>6, OneAuctionStep

\* cancelContinuousContract.
LEMMA CancelContractKeeps ==
  ASSUME ContinuousInv, NEW c \in ContractIds, Continuous!CancelContinuousContract(c)
  PROVE  ContinuousInv'
<1>. DEFINE k0 == contracts[c]
            row == continuousBids[c]
            cps == checkpoints[c]
            ps == panels[c]
            lead == best[c].agent
            L == {a \in ContinuousAgents : row[a].revealed}
            k == [k0 EXCEPT !.status = "Terminated", !.escrow = 0]
<1>1. /\ k0.status \in {"Open", "BidReveal"}
      /\ contracts' = [contracts EXCEPT ![c] = k]
      /\ UNCHANGED <<continuousNow, continuousBids, best, checkpoints, panels,
                     continuousTreasury, credited>>
  BY Best0 DEF Continuous!CancelContinuousContract, Continuous!InAuction, Continuous!auctionVars,
         Continuous!workVars, Continuous!disputeVars
<1>2. /\ continuousBalance' = continuousBalance - k0.escrow
           - SumFunctionOnSet([a \in L |-> row[a].stake], L)
      /\ agentActiveStake' = [m \in ContinuousMembers |->
           agentActiveStake[m] - IF m \in L THEN row[m].stake ELSE 0]
  <2>1. Continuous!Revealed(c) = L
    BY DEF Continuous!Revealed
  <2>. HIDE DEF L
  <2>2. Continuous!SumOver(L, LAMBDA a : continuousBids[c][a].stake)
          = SumFunctionOnSet([a \in L |-> row[a].stake], L)
    BY ContinuousSum DEF Continuous!SumOver
  <2>. QED BY <2>1, <2>2, ContinuousSets
           DEF Continuous!CancelContinuousContract, Continuous!Refund
<1>3. /\ ContractRecords(k0, row, cps, ps, lead) /\ ContractSound(k0, row, cps, ps, lead)
      /\ k0 \in ContractType /\ row \in ContinuousRows /\ continuousBalance \in Int
  BY Best0
<1>4. /\ k \in ContractType /\ k.status = "Terminated" /\ k.agent = k0.agent
      /\ k.currentStake = k0.currentStake /\ k.escrow = 0 /\ k.bond = k0.bond
      /\ k.total = k0.total /\ k.required = k0.required /\ k.bounty = k0.bounty
  <2>1. k0 \in ContractType
    BY <1>3
  <2>. HIDE DEF k0
  <2>. DEFINE q == [k0 EXCEPT !.status = "Terminated"]
  <2>2. q \in ContractType
    BY <2>1, ContractField DEF ContractStatus
  <2>3. k = [q EXCEPT !.escrow = 0]
    OBVIOUS
  <2>4. [q EXCEPT !.escrow = 0] \in ContractType
    <3>. HIDE DEF q
    <3>. QED BY <2>2, ContractField
  <2>5. k \in ContractType
    BY <2>3, <2>4
  <2>6. /\ k.status = "Terminated" /\ k.agent = k0.agent
        /\ k.currentStake = k0.currentStake /\ k.escrow = 0 /\ k.bond = k0.bond
        /\ k.total = k0.total /\ k.required = k0.required /\ k.bounty = k0.bounty
    BY <2>1 DEF ContractType
  <2>. QED BY <2>5, <2>6
<1>5. k0.escrow \in Int /\ k0.bond \in Int
  BY <1>3 DEF ContractType
<1>. HIDE DEF k, k0, cps, ps, lead
<1>6. k0.agent = NoAgent /\ (\A a \in ContinuousAgents : ~row[a].late) /\ k0.currentStake = 0
  BY <1>1, <1>3 DEF ContractSound, BeforeWork
<1>7. ContractSound(k, row, cps, ps, lead)
  BY <1>1, <1>3, <1>4 DEF ContractSound, BeforeWork
<1>8. AuctionMove(c, k, row, RefundsOf(row, L), NoAgent, 0)
  <2>1. ASSUME NEW m \in ContinuousMembers
        PROVE  /\ BidHeld(k, row, m) + WorkHeld(k, m) = BidHeld(k0, row, m) + WorkHeld(k0, m)
                    - RefundsOf(row, L)[m] + IF m = NoAgent THEN 0 ELSE 0
               /\ RefundsOf(row, L)[m] \in Int
    <3>1. WorkHeld(k, m) = 0 /\ WorkHeld(k0, m) = 0 /\ BidHeld(k, row, m) = 0
      BY <1>4, <1>6 DEF WorkHeld, BidHeld
    <3>2. BidHeld(k0, row, m) = RefundsOf(row, L)[m]
      BY <1>1 DEF BidHeld, RefundsOf
    <3>3. RefundsOf(row, L)[m] \in Int
      <4>1. L \in SUBSET ContinuousAgents /\ row \in ContinuousRows
        BY <1>3
      <4>. HIDE DEF row, L
      <4>2. RefundsOf(row, L)[m] \in Nat
        BY <4>1, Refunded
      <4>. QED BY <4>2
    <3>. QED BY <3>1, <3>2, <3>3
  <2>2. \A i \in CheckpointIndices : UnpaidOf(k, ps[i]) = UnpaidOf(k0, ps[i])
    BY <1>4, SameFee
  <2>3. \A m \in ContinuousMembers : SlashedFrom(k, cps, m) = SlashedFrom(k0, cps, m)
    BY <1>4 DEF SlashedFrom
  <2>. HIDE DEF row, L
  <2>. QED BY <1>3, <1>4, <2>1, <2>2, <2>3 DEF AuctionMove, k0, cps, ps, row
<1>9. /\ Becomes(contracts, contracts', ContractType, c, k)
      /\ Becomes(continuousBids, continuousBids', ContinuousRows, c, row)
  <2>1. contracts \in [ContractIds -> ContractType]
        /\ continuousBids \in [ContractIds -> ContinuousRows]
    BY Best0
  <2>. QED BY <1>1, <1>4, <2>1, BecomesHere, StaysHere
<1>10. continuousBalance' = continuousBalance + (k.escrow + k.bond) - (k0.escrow + k0.bond)
         - SumFunctionOnSet([a \in L |-> row[a].stake], L)
  <2>. DEFINE s == SumFunctionOnSet([a \in L |-> row[a].stake], L)
              u == continuousBalance'
              x == k0.escrow
              y == k0.bond
  <2>1. u = continuousBalance - x - s /\ x \in Int /\ y \in Int /\ continuousBalance \in Int
    BY <1>2, <1>3, <1>5
  <2>2. s \in Int
    <3>1. L \in SUBSET ContinuousAgents
      OBVIOUS
    <3>2. s = SumFunctionOnSet(RefundsOf(row, L), ContinuousMembers)
          /\ \A m \in ContinuousMembers : RefundsOf(row, L)[m] \in Int
      <4>. HIDE DEF L, row
      <4>. QED BY <1>3, <3>1, Refunded
    <3>. HIDE DEF s
    <3>. QED BY <3>2, ContinuousSets, SumInt
  <2>3. k.escrow = 0 /\ k.bond = y
    BY <1>4
  <2>. HIDE DEF s, u, x, y
  <2>4. u = continuousBalance + (0 + y) - (x + y) - s
    BY <2>1, <2>2
  <2>. QED BY <2>3, <2>4 DEF s, u, x, y
<1>11. L \in SUBSET ContinuousAgents
  OBVIOUS
<1>12. lead = best[c].agent
  BY DEF lead
<1>. HIDE DEF L
<1>. QED BY <1>1, <1>2, <1>3, <1>4, <1>7, <1>8, <1>9, <1>10, <1>11, <1>12, RefundStep
         DEF k0, cps, ps

-----------------------------------------------------------------------------
\* One bid changes.
LEMMA BidPut ==
  ASSUME NEW row \in ContinuousRows, NEW a \in ContinuousAgents, NEW b \in ContinuousBidType
  PROVE  /\ [row EXCEPT ![a] = b] \in ContinuousRows /\ [row EXCEPT ![a] = b][a] = b
         /\ \A d \in ContinuousAgents \ {a} : [row EXCEPT ![a] = b][d] = row[d]
BY DEF ContinuousRows

\* commitContinuousBid.
LEMMA CommitContractKeeps ==
  ASSUME ContinuousInv, NEW c \in ContractIds, NEW a \in ContinuousAgents,
         NEW offer \in ContinuousOffers, Continuous!CommitContinuousBid(c, a, offer)
  PROVE  ContinuousInv'
<1>. DEFINE k == contracts[c]
            row0 == continuousBids[c]
            cps == checkpoints[c]
            ps == panels[c]
            lead == best[c].agent
            b == [Continuous!NoBid EXCEPT !.committed = TRUE, !.stake = offer.stake,
                    !.price = offer.price]
            row == [row0 EXCEPT ![a] = b]
<1>1. /\ k.status = "Open" /\ ~row0[a].committed
      /\ UNCHANGED <<continuousNow, contracts, best, checkpoints, panels, agentActiveStake,
                     continuousTreasury, continuousBalance, credited>>
  BY DEF Continuous!CommitContinuousBid, Continuous!workVars, Continuous!disputeVars
<1>2. continuousBids' = [continuousBids EXCEPT ![c] = row]
  <2>2. continuousBids' = [continuousBids EXCEPT ![c][a] = b]
    BY DEF Continuous!CommitContinuousBid
  <2>. HIDE DEF b
  <2>. QED BY <2>2, Best0
<1>3. /\ ContractSound(k, row0, cps, ps, lead)
      /\ k \in ContractType /\ row0 \in ContinuousRows /\ continuousBalance \in Int
      /\ agentActiveStake \in [ContinuousMembers -> Int]
  BY Best0
<1>4. b \in ContinuousBidType /\ ~b.revealed /\ ~b.late
  <2>1. offer.stake \in Nat /\ offer.price \in Nat
    <3>1. offer \in [stake : Nat, price : Nat]
      BY SatelliteAssumption
    <3>. QED BY <3>1
  <2>. DEFINE b1 == [Continuous!NoBid EXCEPT !.committed = TRUE]
              b2 == [b1 EXCEPT !.stake = offer.stake]
  <2>2. b1 \in ContinuousBidType /\ ~b1.revealed /\ ~b1.late
    BY DEF ContinuousBidType, Continuous!NoBid
  <2>3. b = [b2 EXCEPT !.price = offer.price]
    OBVIOUS
  <2>. HIDE DEF b1, b
  <2>4. b2 \in ContinuousBidType /\ ~b2.revealed /\ ~b2.late
    BY <2>1, <2>2 DEF ContinuousBidType
  <2>. HIDE DEF b2
  <2>. QED BY <2>1, <2>3, <2>4 DEF ContinuousBidType
<1>. HIDE DEF b
<1>5. /\ row \in ContinuousRows /\ row[a] = b
      /\ \A d \in ContinuousAgents \ {a} : row[d] = row0[d]
  BY <1>3, <1>4, BidPut
<1>. HIDE DEF row, k, row0, cps, ps, lead
<1>6. ~row0[a].revealed
  BY <1>1, <1>3 DEF ContractSound
<1>7. ContractSound(k, row, cps, ps, lead)
  BY <1>1, <1>3, <1>4, <1>5, <1>6 DEF ContractSound, BeforeWork
<1>8. AuctionMove(c, k, row, RefundsOf(row0, {}), NoAgent, 0)
  <2>1. \A m \in ContinuousMembers : BidHeld(k, row, m) = BidHeld(k, row0, m)
    BY <1>4, <1>5, <1>6 DEF BidHeld
  <2>2. \A m \in ContinuousMembers : BidHeld(k, row0, m) \in Int /\ WorkHeld(k, m) \in Int
    <3>. SUFFICES ASSUME NEW m \in ContinuousMembers
                  PROVE  BidHeld(k, row0, m) \in Int /\ WorkHeld(k, m) \in Int
      OBVIOUS
    <3>1. BidHeld(k, row0, m) \in Nat
      BY <1>3 DEF BidHeld, ContinuousRows, ContinuousBidType
    <3>2. WorkHeld(k, m) \in Nat
      BY <1>3 DEF WorkHeld, ContractType
    <3>. QED BY <3>1, <3>2
  <2>3. \A m \in ContinuousMembers : BidHeld(k, row, m) + WorkHeld(k, m)
          = BidHeld(k, row0, m) + WorkHeld(k, m) - RefundsOf(row0, {})[m]
            + IF m = NoAgent THEN 0 ELSE 0
    BY <2>1, <2>2, NothingRefunded
  <2>4. \A m \in ContinuousMembers : RefundsOf(row0, {})[m] \in Int
    BY NothingRefunded
  <2>. QED BY <1>3, <1>5, <2>3, <2>4 DEF AuctionMove, k, row0
<1>9. /\ Becomes(contracts, contracts', ContractType, c, k)
      /\ Becomes(continuousBids, continuousBids', ContinuousRows, c, row)
  <2>1. contracts \in [ContractIds -> ContractType]
        /\ continuousBids \in [ContractIds -> ContinuousRows]
    BY Best0
  <2>. QED BY <1>1, <1>2, <1>5, <2>1, BecomesHere, StaysHere DEF k
<1>10. continuousBalance' = continuousBalance + (k.escrow + k.bond) - (k.escrow + k.bond)
         - SumFunctionOnSet([d \in {} |-> row0[d].stake], {})
  <2>1. k.escrow \in Int /\ k.bond \in Int
    BY <1>3 DEF ContractType
  <2>2. SumFunctionOnSet([d \in {} |-> row0[d].stake], {}) = 0
    BY SumEmpty
  <2>. QED BY <1>1, <1>3, <2>1, <2>2
<1>11. agentActiveStake' = [m \in ContinuousMembers |->
         agentActiveStake[m] - IF m \in {} THEN row0[m].stake ELSE 0]
  BY <1>1, <1>3
<1>12. {} \in SUBSET ContinuousAgents /\ lead = best[c].agent
  BY DEF lead
<1>. QED BY <1>1, <1>3, <1>5, <1>7, <1>8, <1>9, <1>10, <1>11, <1>12, RefundStep
         DEF k, row0, cps, ps

\* revealContinuousBid.
LEMMA RevealContractKeeps ==
  ASSUME ContinuousInv, NEW c \in ContractIds, NEW a \in ContinuousAgents, NEW reputation,
         Continuous!RevealContinuousBid(c, a, reputation)
  PROVE  ContinuousInv'
<1>. DEFINE k0 == contracts[c]
            row0 == continuousBids[c]
            cps == checkpoints[c]
            ps == panels[c]
            lead0 == best[c].agent
            lead == best'[c].agent
            status == IF k0.status = "Open" THEN "BidReveal" ELSE k0.status
            k == [k0 EXCEPT !.status = status]
            b0 == row0[a]
            late == ~(k0.status \in {"Open", "BidReveal"})
            b1 == [b0 EXCEPT !.revealed = TRUE]
            b == [b1 EXCEPT !.late = late]
            row == [row0 EXCEPT ![a] = b]
            e == RefundsOf(row0, {})
            x == b0.stake
<1>1. /\ k0.status # "None" /\ b0.committed /\ ~b0.revealed
      /\ continuousBalance' = continuousBalance + x
      /\ agentActiveStake' = [agentActiveStake EXCEPT ![a] = @ + x]
      /\ UNCHANGED <<continuousNow, checkpoints, panels, continuousTreasury, credited>>
  BY DEF Continuous!RevealContinuousBid, Continuous!workVars, Continuous!disputeVars
<1>2. contracts' = [contracts EXCEPT ![c] = k]
  BY Best0 DEF Continuous!RevealContinuousBid
<1>3. continuousBids' = [continuousBids EXCEPT ![c] = row]
  <2>1. continuousBids' = [continuousBids EXCEPT ![c][a].revealed = TRUE, ![c][a].late = late]
    BY DEF Continuous!RevealContinuousBid, Continuous!InAuction
  <2>2. continuousBids \in [ContractIds -> ContinuousRows] /\ row0 \in ContinuousRows
        /\ b0 \in ContinuousBidType
    BY Best0 DEF ContinuousRows
  <2>. HIDE DEF late
  <2>. QED BY <2>1, <2>2 DEF ContinuousRows
<1>4. /\ best' = best \/ \E score : best' = [best EXCEPT ![c] = [agent |-> a, score |-> score]]
      /\ DOMAIN best = ContractIds /\ best = [d \in ContractIds |-> best[d]]
  BY Best0 DEF Continuous!RevealContinuousBid
<1>5. /\ ContractSound(k0, row0, cps, ps, lead0)
      /\ k0 \in ContractType /\ row0 \in ContinuousRows /\ continuousBalance \in Int
      /\ agentActiveStake \in [ContinuousMembers -> Int]
  BY Best0
<1>6. b0 \in ContinuousBidType /\ x \in Nat
  BY <1>5 DEF ContinuousRows, ContinuousBidType
<1>7. b \in ContinuousBidType /\ b.revealed /\ b.late = late /\ b.stake = x /\ b.committed
  <2>1. late \in BOOLEAN
    OBVIOUS
  <2>. HIDE DEF b0, late
  <2>2. b1 \in ContinuousBidType /\ b1.revealed /\ b1.stake = x /\ b1.committed
    BY <1>1, <1>6 DEF ContinuousBidType
  <2>. HIDE DEF b1
  <2>. QED BY <2>1, <2>2 DEF ContinuousBidType
<1>8. /\ k \in ContractType /\ k.status = status /\ k.agent = k0.agent
      /\ k.currentStake = k0.currentStake /\ k.escrow = k0.escrow /\ k.bond = k0.bond
      /\ k.total = k0.total /\ k.required = k0.required /\ k.bounty = k0.bounty
  <2>1. k0 \in ContractType
    BY <1>5
  <2>2. status \in ContractStatus
    BY <2>1 DEF ContractType, ContractStatus
  <2>. HIDE DEF k0, status
  <2>3. k \in ContractType
    BY <2>1, <2>2, ContractField
  <2>4. /\ k.status = status /\ k.agent = k0.agent
        /\ k.currentStake = k0.currentStake /\ k.escrow = k0.escrow /\ k.bond = k0.bond
        /\ k.total = k0.total /\ k.required = k0.required /\ k.bounty = k0.bounty
    BY <2>1 DEF ContractType
  <2>. QED BY <2>3, <2>4
<1>. HIDE DEF b, b1, x
<1>9. /\ row \in ContinuousRows /\ row[a] = b
      /\ \A d \in ContinuousAgents \ {a} : row[d] = row0[d]
  BY <1>5, <1>7, BidPut
<1>10. /\ lead = lead0 \/ lead = a
       /\ DOMAIN best' = ContractIds /\ best' = [d \in ContractIds |-> best'[d]]
       /\ \A d \in ContractIds \ {c} : best'[d] = best[d]
  <2>1. CASE best' = best
    BY <1>4, <2>1
  <2>2. CASE \E score : best' = [best EXCEPT ![c] = [agent |-> a, score |-> score]]
    BY <1>4, <2>2
  <2>. QED BY <1>4, <2>1, <2>2
<1>. HIDE DEF row, k, row0, cps, ps, lead, lead0, b0
<1>11. ContractSound(k, row, cps, ps, lead)
  <2>1. /\ k.status # "None" /\ (k.status \in BeforeWork => k0.status \in BeforeWork /\ ~late)
        /\ (k.status = "Active" => k0.status = "Active")
    BY <1>1, <1>8 DEF BeforeWork
  <2>. QED BY <1>1, <1>5, <1>7, <1>8, <1>9, <1>10, <2>1 DEF ContractSound
<1>12. AuctionMove(c, k, row, e, a, x)
  <2>1. ASSUME NEW m \in ContinuousMembers
        PROVE  /\ BidHeld(k, row, m) = BidHeld(k0, row0, m) + IF m = a THEN x ELSE 0
               /\ BidHeld(k0, row0, m) \in Int /\ WorkHeld(k0, m) \in Int
               /\ WorkHeld(k, m) = WorkHeld(k0, m)
    <3>1. BidHeld(k0, row0, m) \in Nat
      BY <1>5 DEF BidHeld, ContinuousRows, ContinuousBidType
    <3>2. WorkHeld(k0, m) \in Nat
      BY <1>5 DEF WorkHeld, ContractType
    <3>3. WorkHeld(k, m) = WorkHeld(k0, m)
      BY <1>8 DEF WorkHeld
    <3>4. k.status \in {"Open", "BidReveal"} <=> k0.status \in {"Open", "BidReveal"}
      BY <1>8
    <3>5. CASE m = a
      <4>1. BidHeld(k0, row0, m) = 0
        BY <1>1, <3>5 DEF BidHeld, b0
      <4>2. BidHeld(k, row, m) = x
        BY <1>7, <1>9, <3>4, <3>5 DEF BidHeld
      <4>. QED BY <1>6, <3>1, <3>2, <3>3, <3>5, <4>1, <4>2
    <3>6. CASE m # a
      <4>1. BidHeld(k, row, m) = BidHeld(k0, row0, m)
        BY <1>9, <3>4, <3>6 DEF BidHeld
      <4>. QED BY <3>1, <3>2, <3>3, <3>6, <4>1
    <3>. QED BY <3>5, <3>6
  <2>2. \A m \in ContinuousMembers : BidHeld(k, row, m) + WorkHeld(k, m)
          = BidHeld(k0, row0, m) + WorkHeld(k0, m) - e[m] + IF m = a THEN x ELSE 0
    <3>. SUFFICES ASSUME NEW m \in ContinuousMembers
                  PROVE  BidHeld(k, row, m) + WorkHeld(k, m)
                           = BidHeld(k0, row0, m) + WorkHeld(k0, m) - e[m] + IF m = a THEN x ELSE 0
      OBVIOUS
    <3>. DEFINE z == IF m = a THEN x ELSE 0
                y == e[m]
                h == BidHeld(k, row, m)
                w == WorkHeld(k, m)
                h0 == BidHeld(k0, row0, m)
                w0 == WorkHeld(k0, m)
    <3>1. z \in Int /\ y = 0 /\ h = h0 + z /\ h0 \in Int /\ w0 \in Int /\ w = w0
      BY <1>6, <2>1, NothingRefunded
    <3>. HIDE DEF z, y, h, w, h0, w0
    <3>2. h + w = h0 + w0 - y + z
      BY <3>1
    <3>. QED BY <3>2 DEF z, y, h, w, h0, w0
  <2>3. \A i \in CheckpointIndices : UnpaidOf(k, ps[i]) = UnpaidOf(k0, ps[i])
    BY <1>8, SameFee
  <2>4. \A m \in ContinuousMembers : SlashedFrom(k, cps, m) = SlashedFrom(k0, cps, m)
    BY <1>8 DEF SlashedFrom
  <2>5. /\ \A m \in ContinuousMembers : e[m] \in Int
        /\ x \in Int /\ a \in ContinuousMembers
    BY <1>6, NothingRefunded, ContinuousSets
  <2>. HIDE DEF e
  <2>. QED BY <1>8, <1>9, <2>2, <2>3, <2>4, <2>5 DEF AuctionMove, k0, cps, ps, row0
<1>13. /\ Becomes(contracts, contracts', ContractType, c, k)
       /\ Becomes(continuousBids, continuousBids', ContinuousRows, c, row)
  <2>1. contracts \in [ContractIds -> ContractType]
        /\ continuousBids \in [ContractIds -> ContinuousRows]
    BY Best0
  <2>. QED BY <1>2, <1>3, <1>8, <1>9, <2>1, BecomesHere
<1>14. continuousBalance' = continuousBalance + (k.escrow + k.bond) - (k0.escrow + k0.bond)
         - SumFunctionOnSet(e, ContinuousMembers) + x
  <2>1. k0.escrow \in Int /\ k0.bond \in Int
    BY <1>5 DEF ContractType
  <2>2. SumFunctionOnSet(e, ContinuousMembers) = 0
    BY NothingRefunded
  <2>. HIDE DEF e
  <2>. QED BY <1>1, <1>5, <1>6, <1>8, <2>1, <2>2
<1>15. agentActiveStake' = [m \in ContinuousMembers |->
         agentActiveStake[m] - e[m] + IF m = a THEN x ELSE 0]
  <2>1. a \in ContinuousMembers
    BY ContinuousSets
  <2>2. \A m \in ContinuousMembers : agentActiveStake[m] - e[m] + (IF m = a THEN x ELSE 0)
          = IF m = a THEN agentActiveStake[m] + x ELSE agentActiveStake[m]
    BY <1>5, <1>6, NothingRefunded
  <2>3. agentActiveStake' = [m \in ContinuousMembers |->
          IF m = a THEN agentActiveStake[m] + x ELSE agentActiveStake[m]]
    BY <1>1, <1>5, <2>1
  <2>. HIDE DEF e
  <2>. QED BY <2>2, <2>3
<1>16. AuctionStep(c, k, row, e, a, x, lead)
  <2>. HIDE DEF e
  <2>. QED BY <1>1, <1>10, <1>11, <1>12, <1>13, <1>14, <1>15
           DEF AuctionStep, k0, cps, ps, lead
<1>. HIDE DEF e
<1>. QED BY <1>16, OneAuctionStep

-----------------------------------------------------------------------------
\* resolveContinuousAuction: losers and silent bidders are refunded, the winner
\* works.
LEMMA ResolveContractKeeps ==
  ASSUME ContinuousInv, NEW c \in ContractIds, Continuous!ResolveContinuousAuction(c)
  PROVE  ContinuousInv'
<1>. DEFINE k0 == contracts[c]
            row == continuousBids[c]
            cps == checkpoints[c]
            ps == panels[c]
            winner == best[c].agent
            stake == row[winner].stake
            L == {a \in ContinuousAgents : row[a].revealed} \ {winner}
            k == [k0 EXCEPT !.status = "Active", !.agent = winner, !.stake = stake,
                    !.currentStake = stake, !.startedAt = continuousNow]
<1>1. /\ k0.status \in {"Open", "BidReveal"} /\ winner # NoAgent
      /\ contracts' = [contracts EXCEPT ![c] = k]
      /\ UNCHANGED <<continuousNow, continuousBids, best, checkpoints, panels,
                     continuousTreasury, credited>>
  BY Best0 DEF Continuous!ResolveContinuousAuction, Continuous!InAuction, Continuous!auctionVars,
         Continuous!workVars, Continuous!disputeVars
<1>2. /\ continuousBalance' = continuousBalance - SumFunctionOnSet([a \in L |-> row[a].stake], L)
      /\ agentActiveStake' = [m \in ContinuousMembers |->
           agentActiveStake[m] - IF m \in L THEN row[m].stake ELSE 0]
  <2>1. Continuous!Revealed(c) \ {winner} = L
    BY DEF Continuous!Revealed
  <2>. HIDE DEF L
  <2>2. Continuous!SumOver(L, LAMBDA a : continuousBids[c][a].stake)
          = SumFunctionOnSet([a \in L |-> row[a].stake], L)
    BY ContinuousSum DEF Continuous!SumOver
  <2>. QED BY <2>1, <2>2, ContinuousSets
           DEF Continuous!ResolveContinuousAuction, Continuous!Refund
<1>3. /\ ContractRecords(k0, row, cps, ps, winner) /\ ContractSound(k0, row, cps, ps, winner)
      /\ k0 \in ContractType /\ row \in ContinuousRows /\ continuousBalance \in Int
      /\ continuousNow \in Int
  BY Best0
<1>4. winner \in ContinuousAgents /\ row[winner].revealed /\ stake \in Nat
  <2>1. winner \in ContinuousAgents /\ row[winner].revealed
    BY <1>1, <1>3 DEF ContractSound
  <2>. HIDE DEF row, winner
  <2>. QED BY <1>3, <2>1 DEF ContinuousRows, ContinuousBidType
<1>5. /\ k \in ContractType /\ k.status = "Active" /\ k.agent = winner /\ k.currentStake = stake
      /\ k.escrow = k0.escrow /\ k.bond = k0.bond
      /\ k.total = k0.total /\ k.required = k0.required /\ k.bounty = k0.bounty
  <2>1. k0 \in ContractType /\ winner \in ContinuousAgents \cup {NoAgent} /\ stake \in Nat
    BY <1>3, <1>4
  <2>. HIDE DEF k0, winner, stake
  <2>. DEFINE k1 == [k0 EXCEPT !.status = "Active"]
              k2 == [k1 EXCEPT !.agent = winner]
              k3 == [k2 EXCEPT !.stake = stake]
              k4 == [k3 EXCEPT !.currentStake = stake]
  <2>2. k = [k4 EXCEPT !.startedAt = continuousNow]
    OBVIOUS
  <2>3. k1 \in ContractType
    BY <2>1, ContractField DEF ContractStatus
  <2>4. k2 \in ContractType
    <3>. HIDE DEF k1
    <3>. QED BY <2>1, <2>3, ContractField
  <2>5. k3 \in ContractType
    <3>. HIDE DEF k2
    <3>. QED BY <2>1, <2>4, ContractField
  <2>6. k4 \in ContractType
    <3>. HIDE DEF k3
    <3>. QED BY <2>1, <2>5, ContractField
  <2>7. k \in ContractType
    <3>. HIDE DEF k4, k
    <3>. QED BY <1>3, <2>2, <2>6, ContractField
  <2>8. /\ k.status = "Active" /\ k.agent = winner /\ k.currentStake = stake
        /\ k.escrow = k0.escrow /\ k.bond = k0.bond
        /\ k.total = k0.total /\ k.required = k0.required /\ k.bounty = k0.bounty
    BY <2>1 DEF ContractType
  <2>. QED BY <2>7, <2>8
<1>. HIDE DEF k, k0, cps, ps, stake
<1>6. k0.agent = NoAgent /\ (\A a \in ContinuousAgents : ~row[a].late) /\ k0.currentStake = 0
  BY <1>1, <1>3 DEF ContractSound, BeforeWork
<1>7. ContractSound(k, row, cps, ps, winner)
  BY <1>1, <1>3, <1>5 DEF ContractSound, BeforeWork
<1>8. AuctionMove(c, k, row, RefundsOf(row, L), NoAgent, 0)
  <2>1. ASSUME NEW m \in ContinuousMembers
        PROVE  /\ BidHeld(k, row, m) + WorkHeld(k, m) = BidHeld(k0, row, m) + WorkHeld(k0, m)
                    - RefundsOf(row, L)[m] + IF m = NoAgent THEN 0 ELSE 0
               /\ RefundsOf(row, L)[m] \in Int
    <3>1. WorkHeld(k0, m) = 0 /\ BidHeld(k, row, m) = 0
      BY <1>5, <1>6 DEF WorkHeld, BidHeld
    <3>2. BidHeld(k0, row, m) = IF m \in ContinuousAgents /\ row[m].revealed THEN row[m].stake ELSE 0
      BY <1>1 DEF BidHeld
    <3>3. RefundsOf(row, L)[m] = IF m \in L THEN row[m].stake ELSE 0
      BY DEF RefundsOf
    <3>4. m \in ContinuousAgents => row[m].stake \in Nat
      <4>. HIDE DEF row
      <4>. QED BY <1>3 DEF ContinuousRows, ContinuousBidType
    <3>5. CASE m = winner
      <4>1. WorkHeld(k, m) = stake /\ BidHeld(k0, row, m) = stake /\ RefundsOf(row, L)[m] = 0
        BY <1>4, <1>5, <3>2, <3>3, <3>5 DEF WorkHeld, stake
      <4>. HIDE DEF L, row
      <4>. QED BY <1>4, <3>1, <4>1
    <3>6. CASE m # winner
      <4>1. WorkHeld(k, m) = 0 /\ BidHeld(k0, row, m) = RefundsOf(row, L)[m]
        BY <1>5, <3>2, <3>3, <3>6 DEF WorkHeld
      <4>2. RefundsOf(row, L)[m] \in Int
        BY <3>3, <3>4
      <4>. HIDE DEF L, row
      <4>. QED BY <3>1, <4>1, <4>2
    <3>. QED BY <3>5, <3>6
  <2>2. \A i \in CheckpointIndices : UnpaidOf(k, ps[i]) = UnpaidOf(k0, ps[i])
    BY <1>5, SameFee
  <2>3. \A m \in ContinuousMembers : SlashedFrom(k, cps, m) = SlashedFrom(k0, cps, m)
    BY <1>3, <1>6, NothingJudged
  <2>. HIDE DEF row, L
  <2>. QED BY <1>3, <1>5, <2>1, <2>2, <2>3 DEF AuctionMove, k0, cps, ps, row
<1>9. /\ Becomes(contracts, contracts', ContractType, c, k)
      /\ Becomes(continuousBids, continuousBids', ContinuousRows, c, row)
  <2>1. contracts \in [ContractIds -> ContractType]
        /\ continuousBids \in [ContractIds -> ContinuousRows]
    BY Best0
  <2>. QED BY <1>1, <1>5, <2>1, BecomesHere, StaysHere
<1>11. L \in SUBSET ContinuousAgents
  OBVIOUS
<1>10. continuousBalance' = continuousBalance + (k.escrow + k.bond) - (k0.escrow + k0.bond)
         - SumFunctionOnSet([a \in L |-> row[a].stake], L)
  <2>. DEFINE s == SumFunctionOnSet([a \in L |-> row[a].stake], L)
              u == continuousBalance'
              x == k0.escrow + k0.bond
  <2>1. u = continuousBalance - s /\ continuousBalance \in Int
    BY <1>2, <1>3
  <2>2. s \in Int
    <3>2. s = SumFunctionOnSet(RefundsOf(row, L), ContinuousMembers)
          /\ \A m \in ContinuousMembers : RefundsOf(row, L)[m] \in Int
      <4>. HIDE DEF L, row
      <4>. QED BY <1>3, <1>11, Refunded
    <3>. HIDE DEF s
    <3>. QED BY <3>2, ContinuousSets, SumInt
  <2>3. x \in Int /\ k.escrow + k.bond = x
    BY <1>3, <1>5 DEF ContractType
  <2>. HIDE DEF s, u, x
  <2>4. u = continuousBalance + x - x - s
    BY <2>1, <2>2, <2>3
  <2>. QED BY <2>3, <2>4 DEF s, u, x
<1>12. winner = best[c].agent
  OBVIOUS
<1>. HIDE DEF L, winner
<1>. QED BY <1>1, <1>2, <1>3, <1>5, <1>7, <1>8, <1>9, <1>10, <1>11, <1>12, RefundStep
         DEF k0, cps, ps

-----------------------------------------------------------------------------
(* The work: a checkpoint and its panel change, and perhaps the contract.  *)

\* The stakes of a panel that are no longer held.
Released(cp0, p0, cp, p) ==
  [m \in ContinuousMembers |-> VoteHeld(cp0, p0, m) - VoteHeld(cp, p, m)]
Funds(k) == k.escrow + k.bond + k.currentStake

\* In the row r the entry of i becomes x: the row s.
RowChanged(r, s, T, i, x) ==
  /\ r \in [CheckpointIndices -> T] /\ s \in [CheckpointIndices -> T] /\ s[i] = x
  /\ \A j \in CheckpointIndices \ {i} : s[j] = r[j]

WorkMove(c, i, k, cp, p, cps, ps) ==
  /\ c \in ContractIds /\ i \in CheckpointIndices
  /\ k \in ContractType /\ cp \in CheckpointType /\ p \in PanelType
  /\ contracts[c].status \notin BeforeWork /\ k.status \notin BeforeWork
  /\ k.agent \in ContinuousAgents /\ k.agent = contracts[c].agent
  /\ k.bounty = contracts[c].bounty /\ k.total = contracts[c].total
  /\ k.required = contracts[c].required
  /\ PanelSound(cp, p)
  /\ RowChanged(checkpoints[c], cps, CheckpointType, i, cp)
  /\ RowChanged(panels[c], ps, PanelType, i, p)

\* Work on a checkpoint leaves a sound contract.
LEMMA WorkSound ==
  ASSUME ContinuousInv, NEW c, NEW i, NEW k, NEW cp, NEW p, NEW cps, NEW ps,
         WorkMove(c, i, k, cp, p, cps, ps)
  PROVE  ContractSound(k, continuousBids[c], cps,
                       ps, best[c].agent)
<1>. DEFINE k0 == contracts[c]
            row == continuousBids[c]
            lead == best[c].agent
<1>1. /\ c \in ContractIds /\ i \in CheckpointIndices
      /\ k0.status \notin BeforeWork /\ k.status \notin BeforeWork
      /\ k.agent \in ContinuousAgents /\ k.total = k0.total /\ k.required = k0.required
      /\ PanelSound(cp, p)
  BY DEF WorkMove
<1>2. ContractSound(k0, row, checkpoints[c], panels[c], lead)
  BY <1>1, Best0
<1>3. /\ RowChanged(checkpoints[c], cps, CheckpointType, i, cp)
      /\ RowChanged(panels[c], ps, PanelType, i, p)
  BY DEF WorkMove
<1>. HIDE DEF row, lead, k0
<1>4. k.agent # NoAgent
  BY <1>1, SatelliteAssumption
<1>5. \A j \in CheckpointIndices : PanelSound(cps[j], ps[j])
  BY <1>1, <1>2, <1>3 DEF ContractSound, RowChanged
<1>6. k.total > 0 /\ k.required > 0
  BY <1>1, <1>2 DEF ContractSound, BeforeWork
<1>7. k.status # "None"
  BY <1>1 DEF BeforeWork
<1>8. /\ \A a \in ContinuousAgents : row[a].revealed => row[a].committed
      /\ lead # NoAgent => lead \in ContinuousAgents /\ row[lead].revealed
  BY <1>2 DEF ContractSound
<1>9. ContractSound(k, row, cps, ps, lead)
  BY <1>1, <1>4, <1>5, <1>6, <1>7, <1>8 DEF ContractSound
<1>. QED BY <1>9 DEF row, lead

\* Work on a checkpoint: what is held of each member changes by the stakes released.
LEMMA WorkHeldChange ==
  ASSUME ContinuousInv, NEW c, NEW i, NEW k, NEW cp, NEW p, NEW cps, NEW ps,
         WorkMove(c, i, k, cp, p, cps, ps),
         NEW m \in ContinuousMembers
  PROVE  /\ HeldOf(k, continuousBids[c], cps,
                   ps, m)
              = HeldOf(contracts[c], continuousBids[c], checkpoints[c], panels[c], m)
                - Released(checkpoints[c][i], panels[c][i], cp, p)[m]
                + IF m = k.agent THEN k.currentStake - contracts[c].currentStake ELSE 0
         /\ SlashedFrom(k, cps, m)
              = SlashedFrom(contracts[c], checkpoints[c], m)
                + IF m = k.agent THEN cp.slash - checkpoints[c][i].slash ELSE 0
         /\ Released(checkpoints[c][i], panels[c][i], cp, p)[m] \in Int
         /\ k.currentStake \in Nat /\ contracts[c].currentStake \in Nat
         /\ cp.slash \in Nat /\ checkpoints[c][i].slash \in Nat
<1>. DEFINE k0 == contracts[c]
            row == continuousBids[c]
            cps0 == checkpoints[c]
            ps0 == panels[c]
            v0 == VotesHeld(cps0, ps0, m)
            v == VotesHeld(cps, ps, m)
            s0 == Slashes(cps0)
            s == Slashes(cps)
            I == CheckpointIndices
<1>1. /\ c \in ContractIds /\ i \in I /\ k \in ContractType /\ k.agent = k0.agent
      /\ k0.status \notin BeforeWork /\ k.status \notin BeforeWork
  BY DEF WorkMove
<1>2. /\ cps \in CheckpointRows /\ cps[i] = cp /\ \A j \in I \ {i} : cps[j] = cps0[j]
      /\ ps \in PanelRows /\ ps[i] = p /\ \A j \in I \ {i} : ps[j] = ps0[j]
      /\ cps0 \in CheckpointRows /\ ps0 \in PanelRows
  <2>1. /\ RowChanged(cps0, cps, CheckpointType, i, cp)
        /\ RowChanged(ps0, ps, PanelType, i, p)
    BY DEF WorkMove
  <2>. HIDE DEF cps0, ps0
  <2>. QED BY <1>1, <2>1 DEF RowChanged, CheckpointRows, PanelRows
<1>3. k0 \in ContractType /\ row \in ContinuousRows
  BY <1>1, Best0
<1>. HIDE DEF cps0, ps0, row, k0
<1>4. /\ \A j \in I : v[j] \in Nat /\ s[j] \in Nat
      /\ SumFunctionOnSet(v, I) \in Nat /\ SumFunctionOnSet(s, I) \in Nat
      /\ BidHeld(k, row, m) \in Nat /\ WorkHeld(k, m) \in Nat
  BY <1>1, <1>2, <1>3, HeldInt
<1>5. /\ \A j \in I : v0[j] \in Nat /\ s0[j] \in Nat
      /\ SumFunctionOnSet(v0, I) \in Nat /\ SumFunctionOnSet(s0, I) \in Nat
      /\ BidHeld(k0, row, m) \in Nat /\ WorkHeld(k0, m) \in Nat
  BY <1>2, <1>3, HeldInt
<1>6. IntChange(v0, v, I, i) /\ IntChange(s0, s, I, i)
  <2>1. \A j \in I \ {i} : v[j] = v0[j] /\ s[j] = s0[j]
    BY <1>2 DEF VotesHeld, Slashes
  <2>. HIDE DEF v, v0, s, s0
  <2>. QED BY <1>1, <1>4, <1>5, <2>1, ContinuousSets DEF IntChange
<1>7. /\ v0[i] = VoteHeld(cps0[i], ps0[i], m) /\ v[i] = VoteHeld(cp, p, m)
      /\ s0[i] = cps0[i].slash /\ s[i] = cp.slash
  BY <1>1, <1>2 DEF VotesHeld, Slashes
<1>8. Released(cps0[i], ps0[i], cp, p)[m] = v0[i] - v[i]
  BY <1>7 DEF Released
<1>9. BidHeld(k, row, m) = BidHeld(k0, row, m)
  BY <1>1 DEF BidHeld, BeforeWork
<1>10. k.currentStake \in Nat /\ k0.currentStake \in Nat
  BY <1>1, <1>3 DEF ContractType
<1>11. WorkHeld(k, m) = WorkHeld(k0, m)
         + IF m = k.agent THEN k.currentStake - k0.currentStake ELSE 0
  BY <1>1, <1>10 DEF WorkHeld
<1>12. /\ HeldOf(k, row, cps, ps, m) = HeldOf(k0, row, cps0, ps0, m)
            - Released(cps0[i], ps0[i], cp, p)[m]
            + IF m = k.agent THEN k.currentStake - k0.currentStake ELSE 0
       /\ Released(cps0[i], ps0[i], cp, p)[m] \in Int
  <2>. DEFINE sv == SumFunctionOnSet(v, I)
              sv0 == SumFunctionOnSet(v0, I)
              x == v[i]
              x0 == v0[i]
              bid == BidHeld(k0, row, m)
              w == WorkHeld(k, m)
              w0 == WorkHeld(k0, m)
              d == Released(cps0[i], ps0[i], cp, p)[m]
              z == IF m = k.agent THEN k.currentStake - k0.currentStake ELSE 0
              h == HeldOf(k, row, cps, ps, m)
              h0 == HeldOf(k0, row, cps0, ps0, m)
  <2>1. sv = sv0 - x0 + x /\ x \in Int /\ x0 \in Int
    <3>. HIDE DEF v, v0, I
    <3>. QED BY <1>6, IntUpdate
  <2>2. h = bid + w + sv /\ h0 = bid + w0 + sv0
    BY <1>9 DEF HeldOf
  <2>3. w = w0 + z /\ d = x0 - x /\ bid \in Int /\ w0 \in Int /\ sv0 \in Int
    BY <1>5, <1>8, <1>11
  <2>4. z \in Int
    BY <1>10
  <2>. HIDE DEF sv, sv0, x, x0, bid, w, w0, d, z, h, h0
  <2>5. h = h0 - d + z /\ d \in Int
    BY <2>1, <2>2, <2>3, <2>4
  <2>. QED BY <2>5 DEF h, h0, d, z
<1>13. /\ SlashedFrom(k, cps, m) = SlashedFrom(k0, cps0, m)
            + IF m = k.agent THEN cp.slash - cps0[i].slash ELSE 0
       /\ cp.slash \in Nat /\ cps0[i].slash \in Nat
  <2>. DEFINE ss == SumFunctionOnSet(s, I)
              ss0 == SumFunctionOnSet(s0, I)
              y == s[i]
              y0 == s0[i]
  <2>1. ss = ss0 - y0 + y /\ y \in Int /\ y0 \in Int
    <3>. HIDE DEF s, s0, I
    <3>. QED BY <1>6, IntUpdate
  <2>2. y = cp.slash /\ y0 = cps0[i].slash /\ y \in Nat /\ y0 \in Nat /\ ss0 \in Nat
    BY <1>1, <1>4, <1>5, <1>7
  <2>3. /\ SlashedFrom(k, cps, m) = IF k.agent = m THEN ss ELSE 0
        /\ SlashedFrom(k0, cps0, m) = IF k.agent = m THEN ss0 ELSE 0
    BY <1>1 DEF SlashedFrom
  <2>. DEFINE t == SlashedFrom(k, cps, m)
              t0 == SlashedFrom(k0, cps0, m)
              u == cp.slash
              u0 == cps0[i].slash
  <2>. HIDE DEF ss, ss0, y, y0, t, t0, u, u0
  <2>4. t = t0 + IF m = k.agent THEN u - u0 ELSE 0
    <3>1. CASE m = k.agent
      BY <2>1, <2>2, <2>3, <3>1 DEF t, t0, u, u0
    <3>2. CASE m # k.agent
      <4>1. t = 0 /\ t0 = 0
        BY <2>3, <3>2 DEF t, t0
      <4>. QED BY <3>2, <4>1
    <3>. QED BY <3>1, <3>2
  <2>5. u \in Nat /\ u0 \in Nat
    BY <2>2 DEF u, u0
  <2>. QED BY <2>4, <2>5 DEF t, t0, u, u0
<1>. QED BY <1>10, <1>12, <1>13 DEF cps0, ps0, row, k0

-----------------------------------------------------------------------------
\* Work on a checkpoint: what the contract owes changes by funds, stakes and fees.
LEMMA WorkOwed ==
  ASSUME ContinuousInv, NEW c, NEW i, NEW k, NEW cp, NEW p, NEW cps, NEW ps,
         WorkMove(c, i, k, cp, p, cps, ps)
  PROVE  /\ OwedFor(k, continuousBids[c], cps,
                    ps)
              = OwedFor(contracts[c], continuousBids[c], checkpoints[c], panels[c])
                + Funds(k) - Funds(contracts[c])
                + UnpaidOf(k, p) - UnpaidOf(contracts[c], panels[c][i])
                - SumFunctionOnSet(Released(checkpoints[c][i], panels[c][i], cp, p),
                                   ContinuousMembers)
         /\ Funds(k) \in Int /\ Funds(contracts[c]) \in Int
         /\ UnpaidOf(k, p) \in Int /\ UnpaidOf(contracts[c], panels[c][i]) \in Int
         /\ SumFunctionOnSet(Released(checkpoints[c][i], panels[c][i], cp, p),
                             ContinuousMembers) \in Int
         /\ OwedFor(contracts[c], continuousBids[c], checkpoints[c], panels[c]) \in Int
<1>. DEFINE k0 == contracts[c]
            row == continuousBids[c]
            cps0 == checkpoints[c]
            ps0 == panels[c]
            lead == best[c].agent
            M == ContinuousMembers
            I == CheckpointIndices
            f == HeldRow(k0, row, cps0, ps0)
            g == HeldRow(k, row, cps, ps)
            e == Released(cps0[i], ps0[i], cp, p)
            a == k.agent
            x == k.currentStake - k0.currentStake
            q0 == UnpaidRow(k0, ps0)
            q == UnpaidRow(k, ps)
<1>1. /\ c \in ContractIds /\ i \in I /\ k \in ContractType /\ a \in ContinuousAgents
      /\ k.bounty = k0.bounty /\ k.total = k0.total /\ k.required = k0.required
  BY DEF WorkMove
<1>2. /\ ContractRecords(k0, row, cps0, ps0, lead) /\ k0 \in ContractType
      /\ row \in ContinuousRows
  BY <1>1, Best0
<1>3. /\ RowChanged(cps0, cps, CheckpointType, i, cp) /\ RowChanged(ps0, ps, PanelType, i, p)
  BY DEF WorkMove
<1>4. ContractRecords(k, row, cps, ps, lead)
  <2>1. ContractSound(k, row, cps, ps, lead)
    BY WorkSound
  <2>. HIDE DEF cps0, ps0, row, lead
  <2>. QED BY <1>1, <1>2, <1>3, <2>1
           DEF ContractRecords, RowChanged, CheckpointRows, PanelRows
<1>5. Shift(f, g, e, M, a, x)
  <2>1. \A m \in M : f[m] \in Int
    BY <1>2, OwedInt
  <2>2. \A m \in M : g[m] \in Int
    <3>. HIDE DEF row, lead
    <3>. QED BY <1>4, OwedInt
  <2>3. ASSUME NEW m \in M
        PROVE  g[m] = f[m] - e[m] + (IF m = a THEN x ELSE 0) /\ e[m] \in Int
    <3>1. /\ HeldOf(k, row, cps, ps, m) = HeldOf(k0, row, cps0, ps0, m) - e[m]
               + IF m = a THEN x ELSE 0
          /\ e[m] \in Int
      BY WorkHeldChange
    <3>. QED BY <3>1 DEF HeldRow
  <2>4. x \in Int
    BY <1>1, <1>2 DEF ContractType
  <2>5. a \in M /\ IsFiniteSet(M)
    BY <1>1, ContinuousSets
  <2>. HIDE DEF f, g, e, a, x
  <2>. QED BY <2>1, <2>2, <2>3, <2>4, <2>5 DEF Shift
<1>6. /\ SumFunctionOnSet(f, M) \in Int /\ SumFunctionOnSet(g, M) \in Int
      /\ SumFunctionOnSet(e, M) \in Int
      /\ SumFunctionOnSet(g, M) = SumFunctionOnSet(f, M) - SumFunctionOnSet(e, M) + x
  <2>. HIDE DEF f, g, e, a, x, M
  <2>. QED BY <1>5, ShiftedSum
<1>7. IntChange(q0, q, I, i) /\ q0[i] = UnpaidOf(k0, ps0[i]) /\ q[i] = UnpaidOf(k, p)
  <2>1. \A j \in I : q0[j] \in Int
    BY <1>2, OwedInt
  <2>2. \A j \in I : q[j] \in Int
    <3>. HIDE DEF row, lead
    <3>. QED BY <1>4, OwedInt
  <2>3. /\ \A j \in I \ {i} : q[j] = q0[j]
        /\ q0[i] = UnpaidOf(k0, ps0[i]) /\ q[i] = UnpaidOf(k, p)
    <3>1. \A j \in I : UnpaidOf(k, ps0[j]) = UnpaidOf(k0, ps0[j])
      BY <1>1, SameFee
    <3>. HIDE DEF ps0, k0
    <3>. QED BY <1>1, <1>3, <3>1 DEF UnpaidRow, RowChanged
  <2>. HIDE DEF q, q0
  <2>. QED BY <1>1, <2>1, <2>2, <2>3, ContinuousSets DEF IntChange
<1>8. /\ SumFunctionOnSet(q0, I) \in Int /\ q0[i] \in Int /\ q[i] \in Int
      /\ SumFunctionOnSet(q, I) = SumFunctionOnSet(q0, I) - q0[i] + q[i]
  <2>. HIDE DEF q, q0, I
  <2>. QED BY <1>7, IntUpdate
<1>. DEFINE sf == SumFunctionOnSet(f, M)
            sg == SumFunctionOnSet(g, M)
            se == SumFunctionOnSet(e, M)
            sq == SumFunctionOnSet(q, I)
            sq0 == SumFunctionOnSet(q0, I)
            u == UnpaidOf(k, p)
            u0 == UnpaidOf(k0, ps0[i])
            o == OwedFor(k, row, cps, ps)
            o0 == OwedFor(k0, row, cps0, ps0)
            n == Funds(k)
            n0 == Funds(k0)
            es == k.escrow
            bo == k.bond
            cs == k.currentStake
            es0 == k0.escrow
            bo0 == k0.bond
            cs0 == k0.currentStake
<1>9. o = es + bo + sq + sg /\ o0 = es0 + bo0 + sq0 + sf
  BY DEF OwedFor
<1>10. n = es + bo + cs /\ n0 = es0 + bo0 + cs0
  BY DEF Funds
<1>11. /\ es \in Int /\ bo \in Int /\ cs \in Int /\ es0 \in Int /\ bo0 \in Int /\ cs0 \in Int
  BY <1>1, <1>2 DEF ContractType
<1>12. /\ sq = sq0 - u0 + u /\ sq0 \in Int /\ u0 \in Int /\ u \in Int
  BY <1>7, <1>8
<1>13. sg = sf - se + (cs - cs0) /\ sf \in Int /\ se \in Int
  BY <1>6
<1>. HIDE DEF sf, sg, se, sq, sq0, u, u0, o, o0, n, n0, es, bo, cs, es0, bo0, cs0
<1>14. /\ o = o0 + n - n0 + u - u0 - se
       /\ n \in Int /\ n0 \in Int /\ u \in Int /\ u0 \in Int /\ se \in Int /\ o0 \in Int
  BY <1>9, <1>10, <1>11, <1>12, <1>13
<1>. QED BY <1>14 DEF o, o0, n, n0, u, u0, se

\* A step of the work on c, with the money it moves.
WorkStep(c, i, k, cp, p, cps, ps) ==
  /\ WorkMove(c, i, k, cp, p, cps, ps)
  /\ Becomes(contracts, contracts', ContractType, c, k)
  /\ Becomes(checkpoints, checkpoints', CheckpointRows, c, cps)
  /\ Becomes(panels, panels', PanelRows, c, ps)
  /\ UNCHANGED <<continuousNow, continuousBids, best>>
  /\ continuousTreasury' \in Int /\ continuousBalance' \in Int /\ credited' \in Int
  /\ agentActiveStake' \in [ContinuousMembers -> Int]
  /\ continuousBalance' + credited' - continuousTreasury'
       = continuousBalance + credited - continuousTreasury
         + Funds(k) - Funds(contracts[c]) + UnpaidOf(k, p) - UnpaidOf(contracts[c], panels[c][i])
         - SumFunctionOnSet(Released(checkpoints[c][i], panels[c][i], cp, p), ContinuousMembers)
  /\ \A m \in ContinuousMembers : agentActiveStake'[m] >= agentActiveStake[m]
       - Released(checkpoints[c][i], panels[c][i], cp, p)[m]
       + IF m = k.agent
         THEN k.currentStake + cp.slash - (contracts[c].currentStake + checkpoints[c][i].slash)
         ELSE 0

\* A step of work on one checkpoint keeps the invariant.
LEMMA OneWorkStep ==
  ASSUME ContinuousInv, NEW c, NEW i, NEW k, NEW cp, NEW p, NEW cps, NEW ps,
         WorkStep(c, i, k, cp, p, cps, ps)
  PROVE  ContinuousInv'
<1>. DEFINE k0 == contracts[c]
            row == continuousBids[c]
            cps0 == checkpoints[c]
            ps0 == panels[c]
            lead == best[c].agent
            e == Released(cps0[i], ps0[i], cp, p)
<1>1. WorkMove(c, i, k, cp, p, cps, ps) /\ c \in ContractIds
  BY DEF WorkStep, WorkMove
<1>2. /\ DOMAIN best = ContractIds /\ best = [d \in ContractIds |-> best[d]]
      /\ continuousBids \in [ContractIds -> ContinuousRows]
      /\ agentActiveStake \in [ContinuousMembers -> Int]
      /\ k0 \in ContractType /\ row \in ContinuousRows
      /\ cps0 \in CheckpointRows /\ ps0 \in PanelRows
  BY <1>1, Best0
<1>3. Becomes(continuousBids, continuousBids', ContinuousRows, c, row)
  BY <1>1, <1>2, StaysHere DEF WorkStep
<1>4. ContractSound(k, row, cps, ps, lead)
  BY <1>1, WorkSound
<1>5. continuousBalance' + credited' - continuousTreasury'
        = continuousBalance + credited - continuousTreasury
          - OwedFor(k0, row, cps0, ps0) + OwedFor(k, row, cps, ps)
  <2>. DEFINE o == OwedFor(k, row, cps, ps)
              o0 == OwedFor(k0, row, cps0, ps0)
              n == Funds(k)
              n0 == Funds(k0)
              u == UnpaidOf(k, p)
              u0 == UnpaidOf(k0, ps0[i])
              se == SumFunctionOnSet(e, ContinuousMembers)
              nb == continuousBalance'
              nc == credited'
              nt == continuousTreasury'
              b == continuousBalance
              d == credited
              t == continuousTreasury
  <2>1. o = o0 + n - n0 + u - u0 - se
    BY <1>1, WorkOwed
  <2>2. n \in Int /\ n0 \in Int /\ u \in Int /\ u0 \in Int /\ se \in Int /\ o0 \in Int
    BY <1>1, WorkOwed
  <2>3. nb + nc - nt = b + d - t + n - n0 + u - u0 - se
    BY DEF WorkStep
  <2>4. b \in Int /\ d \in Int /\ t \in Int
    BY <1>1, Best0
  <2>5. nb \in Int /\ nc \in Int /\ nt \in Int
    BY DEF WorkStep
  <2>. HIDE DEF o, o0, n, n0, u, u0, se, nb, nc, nt, b, d, t
  <2>6. nb + nc - nt = b + d - t - o0 + o
    BY <2>1, <2>2, <2>3, <2>4, <2>5
  <2>. QED BY <2>6 DEF nb, nc, nt, b, d, t, o, o0
<1>6. ASSUME NEW m \in ContinuousMembers
      PROVE  agentActiveStake'[m] >= agentActiveStake[m]
               - Covers(k0, row, cps0, ps0, m) + Covers(k, row, cps, ps, m)
  <2>. DEFINE h == HeldOf(k, row, cps, ps, m)
              h0 == HeldOf(k0, row, cps0, ps0, m)
              s == SlashedFrom(k, cps, m)
              s0 == SlashedFrom(k0, cps0, m)
              t == e[m]
              cs == k.currentStake
              cs0 == k0.currentStake
              sl == cp.slash
              sl0 == cps0[i].slash
              y == Covers(k, row, cps, ps, m)
              y0 == Covers(k0, row, cps0, ps0, m)
              w == agentActiveStake'[m]
              w0 == agentActiveStake[m]
  <2>1. /\ h = h0 - t + (IF m = k.agent THEN cs - cs0 ELSE 0)
        /\ s = s0 + (IF m = k.agent THEN sl - sl0 ELSE 0)
        /\ t \in Int /\ cs \in Nat /\ cs0 \in Nat /\ sl \in Nat /\ sl0 \in Nat
    BY <1>1, WorkHeldChange
  <2>2. h0 \in Nat /\ s0 \in Nat
    <3>. HIDE DEF k0, row, cps0, ps0
    <3>. QED BY <1>2, HeldInt
  <2>3. y = h + s /\ y0 = h0 + s0
    BY DEF Covers
  <2>4. w >= w0 - t + (IF m = k.agent THEN cs + sl - (cs0 + sl0) ELSE 0)
    BY DEF WorkStep
  <2>5. w \in Int /\ w0 \in Int
    BY <1>2 DEF WorkStep
  <2>. HIDE DEF h, h0, s, s0, t, cs, cs0, sl, sl0, y, y0, w, w0
  <2>6. w >= w0 - y0 + y
    <3>1. CASE m = k.agent
      BY <2>1, <2>2, <2>3, <2>4, <2>5, <3>1
    <3>2. CASE m # k.agent
      BY <2>1, <2>2, <2>3, <2>4, <2>5, <3>2
    <3>. QED BY <3>1, <3>2
  <2>. QED BY <2>6 DEF w, w0, y, y0
<1>7. ContractWrite(c, k, row, cps, ps, lead)
  <2>. HIDE DEF row, lead
  <2>1. Becomes(checkpoints, checkpoints', CheckpointRows, c, cps)
        /\ Becomes(panels, panels', PanelRows, c, ps)
    BY DEF WorkStep
  <2>2. best'[c].agent = lead
    BY DEF WorkStep, lead
  <2>3. /\ continuousBalance' + credited' - continuousTreasury'
             = continuousBalance + credited - continuousTreasury
               - OwedFor(contracts[c], continuousBids[c], checkpoints[c], panels[c])
               + OwedFor(k, row, cps, ps)
        /\ \A m \in ContinuousMembers : agentActiveStake'[m] >= agentActiveStake[m]
             - Covers(contracts[c], continuousBids[c], checkpoints[c], panels[c], m)
             + Covers(k, row, cps, ps, m)
    BY <1>5, <1>6 DEF row
  <2>. QED BY <1>2, <1>3, <1>4, <2>1, <2>2, <2>3 DEF ContractWrite, WorkStep
<1>. QED BY <1>7, OneContract

-----------------------------------------------------------------------------
(* The books of a call that judges a checkpoint.                           *)

SameTerms(k, q) ==
  /\ q \in ContractType /\ q.agent = k.agent /\ q.bounty = k.bounty /\ q.total = k.total
  /\ q.required = k.required /\ q.status \notin BeforeWork

\* Begun for the contract k, the books b carry v more than k held, and the
\* agent keeps the stake s.
Carries(b, k, v, s) ==
  /\ DOMAIN b = {"k", "out", "fees", "home"}
  /\ SameTerms(k, b.k) /\ b.out \in Int /\ b.fees \in Int /\ b.home \in Int
  /\ k \in ContractType /\ v \in Int /\ s \in Int
  /\ b.out + b.fees + Funds(b.k) = Funds(k) + v
  /\ b.home + b.k.currentStake = s
OpenBooks(b, k, v, s) == Carries(b, k, v, s) /\ b.home = 0

\* The books of a contract at work, as a call opens them.
LEMMA BooksOpened ==
  ASSUME NEW k \in ContractType, k.status \notin BeforeWork
  PROVE  OpenBooks(Continuous!Books(k), k, 0, k.currentStake)
<1>. DEFINE b == Continuous!Books(k)
<1>1. /\ DOMAIN b = {"k", "out", "fees", "home"} /\ b.k = k /\ b.out = 0 /\ b.fees = 0
      /\ b.home = 0
  BY DEF Continuous!Books
<1>2. Funds(k) \in Int /\ k.currentStake \in Int
  BY DEF Funds, ContractType
<1>. HIDE DEF b
<1>3. b.out + b.fees + Funds(b.k) = Funds(k) + 0
  <2>. DEFINE f == Funds(k)
  <2>1. b.out + b.fees + Funds(b.k) = 0 + 0 + f
    BY <1>1
  <2>2. f \in Int
    BY <1>2
  <2>. HIDE DEF f
  <2>. QED BY <2>1, <2>2 DEF f
<1>4. OpenBooks(b, k, 0, k.currentStake)
  BY <1>1, <1>2, <1>3 DEF OpenBooks, Carries, SameTerms
<1>. QED BY <1>4 DEF b

\* Closing a contract pays out its escrow and its bond.
LEMMA CloseCarries ==
  ASSUME NEW b, NEW k, NEW v, NEW s, OpenBooks(b, k, v, s),
         NEW status \in {"Terminated", "Completed"}
  PROVE  Carries(Continuous!Close(b, status), k, v, s)
<1>. DEFINE q == b.k
            r == Continuous!Close(b, status)
            es == q.escrow
            bo == q.bond
            cs == q.currentStake
            new == [q EXCEPT !.status = status, !.escrow = 0, !.bond = 0, !.currentStake = 0]
<1>1. DOMAIN b = {"k", "out", "fees", "home"} /\ SameTerms(k, q)
  BY DEF OpenBooks, Carries
<1>2. /\ r.k = new /\ r.out = b.out + es + bo + cs /\ r.fees = b.fees /\ r.home = cs
      /\ DOMAIN r = DOMAIN b
  BY <1>1 DEF Continuous!Close
<1>3. /\ q \in ContractType /\ k \in ContractType
      /\ es \in Int /\ bo \in Int /\ cs \in Nat
      /\ b.out \in Int /\ b.fees \in Int /\ b.home = 0 /\ v \in Int /\ s \in Int
      /\ b.out + b.fees + Funds(q) = Funds(k) + v /\ b.home + cs = s /\ Funds(k) \in Int
  BY DEF OpenBooks, Carries, SameTerms, ContractType, Funds
<1>4. /\ SameTerms(k, new) /\ new.escrow = 0 /\ new.bond = 0 /\ new.currentStake = 0
  <2>. DEFINE k1 == [q EXCEPT !.status = status]
              k2 == [k1 EXCEPT !.escrow = 0]
              k3 == [k2 EXCEPT !.bond = 0]
  <2>. HIDE DEF q
  <2>1. k1 \in ContractType
    BY <1>3, ContractField DEF ContractStatus
  <2>2. k2 \in ContractType
    <3>. HIDE DEF k1
    <3>. QED BY <2>1, ContractField
  <2>3. k3 \in ContractType
    <3>. HIDE DEF k2
    <3>. QED BY <2>2, ContractField
  <2>4. new \in ContractType
    <3>1. new = [k3 EXCEPT !.currentStake = 0]
      OBVIOUS
    <3>. HIDE DEF k3, new
    <3>. QED BY <2>3, <3>1, ContractField
  <2>5. /\ new.escrow = 0 /\ new.bond = 0 /\ new.currentStake = 0 /\ new.status = status
        /\ new.agent = q.agent /\ new.bounty = q.bounty /\ new.total = q.total
        /\ new.required = q.required
    BY <1>3 DEF ContractType
  <2>. HIDE DEF new
  <2>. QED BY <1>1, <2>4, <2>5 DEF SameTerms, BeforeWork
<1>. DEFINE out == b.out
            fees == b.fees
            home == b.home
            n == Funds(k)
<1>5. out + fees + (es + bo + cs) = n + v
  BY <1>3 DEF Funds
<1>6. out \in Int /\ fees \in Int /\ n \in Int /\ cs \in Int /\ home = 0 /\ home + cs = s
  BY <1>3
<1>7. r.out = out + es + bo + cs /\ r.fees = fees /\ r.home = cs /\ r.k = new
  BY <1>2
<1>8. Funds(r.k) = 0 /\ r.k.currentStake = 0
  BY <1>4, <1>7 DEF Funds
<1>. HIDE DEF out, fees, home, n, es, bo, cs, r, new
<1>9. /\ r.out + r.fees + Funds(r.k) = n + v /\ r.home + r.k.currentStake = s
      /\ r.out \in Int /\ r.fees \in Int /\ r.home \in Int
  BY <1>3, <1>5, <1>6, <1>7, <1>8
<1>. QED BY <1>1, <1>2, <1>3, <1>4, <1>7, <1>9 DEF Carries, r, n

\* A contract that failed too often, or is done, is closed; another goes on.
LEMMA TerminationCarries ==
  ASSUME NEW b, NEW k, NEW v, NEW s, OpenBooks(b, k, v, s)
  PROVE  Carries(Continuous!CheckTermination(b), k, v, s)
<1>1. Carries(b, k, v, s)
  BY DEF OpenBooks
<1>2. Carries(Continuous!Close(b, "Terminated"), k, v, s)
  BY CloseCarries
<1>. QED BY <1>1, <1>2 DEF Continuous!CheckTermination

\* A share of an amount is at most the amount.
Parts == 0 .. 10000
IsShare(n, bps) == n \in Nat /\ bps \in Parts

\* A share is an amount, and no more than the whole.
LEMMA ShareBounds ==
  ASSUME NEW n, NEW bps, IsShare(n, bps)
  PROVE  Continuous!Share(n, bps) \in Nat /\ Continuous!Share(n, bps) <= n
<1>0. n \in Nat /\ bps \in 0 .. 10000
  BY DEF IsShare, Parts
<1>1. n * bps \in Nat /\ n * bps <= n * 10000
  <2>1. bps <= 10000 /\ bps \in Nat
    BY <1>0
  <2>2. 10000 = bps + (10000 - bps) /\ 10000 - bps \in Nat
    BY <2>1
  <2>3. n * (10000 - bps) \in Nat
    BY <1>0, <2>2
  <2>4. n * 10000 = n * bps + n * (10000 - bps)
    BY <1>0, <2>2
  <2>5. n * bps \in Nat
    BY <1>0, <2>1
  <2>. QED BY <2>3, <2>4, <2>5
<1>. DEFINE x == n * bps
<1>2. x \in Nat /\ x <= n * 10000
  BY <1>0, <1>1
<1>3. Continuous!Share(n, bps) = x \div 10000
  BY DEF Continuous!Share, Continuous!BPS
<1>. HIDE DEF x
<1>. QED BY <1>0, <1>2, <1>3

\* A slash takes its part of the stake, and no more.
LEMMA SlashCarries ==
  ASSUME NEW b, NEW k, NEW v, NEW s, OpenBooks(b, k, v, s), NEW bps \in Parts
  PROVE  OpenBooks(Continuous!Slash(b, bps), k, v, s - Continuous!Share(b.k.currentStake, bps))
<1>. DEFINE q == b.k
            r == Continuous!Slash(b, bps)
            es == q.escrow
            bo == q.bond
            cs == q.currentStake
            x == Continuous!Share(cs, bps)
            y == Continuous!RevenueOf(cs, bps)
            new == [q EXCEPT !.currentStake = cs - x]
<1>1. DOMAIN b = {"k", "out", "fees", "home"} /\ SameTerms(k, q)
  BY DEF OpenBooks, Carries
<1>2. /\ r.k = new /\ r.out = b.out + x - y /\ r.fees = b.fees + y /\ r.home = b.home
      /\ DOMAIN r = DOMAIN b
  BY <1>1 DEF Continuous!Slash
<1>3. /\ q \in ContractType /\ k \in ContractType
      /\ es \in Int /\ bo \in Int /\ cs \in Nat
      /\ b.out \in Int /\ b.fees \in Int /\ b.home = 0 /\ v \in Int /\ s \in Int
      /\ b.out + b.fees + Funds(q) = Funds(k) + v /\ b.home + cs = s /\ Funds(k) \in Int
  BY DEF OpenBooks, Carries, SameTerms, ContractType, Funds
<1>4. x \in Nat /\ x <= cs
  <2>1. IsShare(cs, bps)
    BY <1>3 DEF IsShare
  <2>. HIDE DEF cs
  <2>. QED BY <2>1, ShareBounds
<1>5. y \in Int
  <2>1. cs * bps \in Int
    BY <1>3 DEF Parts
  <2>. DEFINE z == cs * bps
  <2>2. y = (z * 1000) \div (10000 * 10000) /\ z \in Int
    BY <2>1 DEF Continuous!RevenueOf, Continuous!SlashRevenueBps, Continuous!BPS
  <2>. HIDE DEF z, y
  <2>. QED BY <2>2
<1>6. /\ SameTerms(k, new) /\ new.escrow = es /\ new.bond = bo /\ new.currentStake = cs - x
  <2>. DEFINE left == cs - x
  <2>1. left \in Nat
    BY <1>3, <1>4
  <2>. HIDE DEF left, x
  <2>2. new \in ContractType
    <3>1. new = [q EXCEPT !.currentStake = left]
      BY DEF left
    <3>. HIDE DEF q, new
    <3>. QED BY <1>3, <2>1, <3>1, ContractField
  <2>3. /\ new.escrow = q.escrow /\ new.bond = q.bond /\ new.currentStake = left
        /\ new.status = q.status /\ new.agent = q.agent /\ new.bounty = q.bounty
        /\ new.total = q.total /\ new.required = q.required
    BY <1>3 DEF ContractType, left
  <2>. HIDE DEF new
  <2>. QED BY <1>1, <2>2, <2>3 DEF SameTerms, left
<1>. DEFINE out == b.out
            fees == b.fees
            home == b.home
            n == Funds(k)
<1>7. out + fees + (es + bo + cs) = n + v
  BY <1>3 DEF Funds
<1>8. out \in Int /\ fees \in Int /\ n \in Int /\ cs \in Int /\ home = 0 /\ home + cs = s
  BY <1>3
<1>9. r.out = out + x - y /\ r.fees = fees + y /\ r.home = home /\ r.k = new
  BY <1>2
<1>10. Funds(r.k) = es + bo + (cs - x) /\ r.k.currentStake = cs - x
  BY <1>6, <1>9 DEF Funds
<1>. HIDE DEF out, fees, home, n, es, bo, cs, r, new, x, y
<1>11. /\ r.out + r.fees + Funds(r.k) = n + v /\ r.home + r.k.currentStake = s - x
       /\ r.out \in Int /\ r.fees \in Int /\ r.home = 0 /\ s - x \in Int
  BY <1>3, <1>4, <1>5, <1>7, <1>8, <1>9, <1>10
<1>12. OpenBooks(r, k, v, s - x)
  BY <1>1, <1>2, <1>3, <1>6, <1>9, <1>11 DEF OpenBooks, Carries, n
<1>. QED BY <1>12 DEF r, x, cs

-----------------------------------------------------------------------------
\* A failure is counted.
LEMMA FailedCarries ==
  ASSUME NEW b, NEW k, NEW v, NEW s, OpenBooks(b, k, v, s)
  PROVE  OpenBooks(Continuous!Failed(b), k, v, s)
<1>. DEFINE q == b.k
            r == Continuous!Failed(b)
            x == q.failed + 1
            y == q.completed + 1
            new == [q EXCEPT !.failed = x, !.completed = y, !.streak = 0]
<1>1. DOMAIN b = {"k", "out", "fees", "home"} /\ SameTerms(k, q) /\ q \in ContractType
  BY DEF OpenBooks, Carries, SameTerms
<1>2. /\ r.k = new /\ r.out = b.out /\ r.fees = b.fees /\ r.home = b.home
      /\ DOMAIN r = DOMAIN b
  BY <1>1 DEF Continuous!Failed
<1>3. x \in Int /\ y \in Int
  BY <1>1 DEF ContractType
<1>4. /\ SameTerms(k, new) /\ new.escrow = q.escrow /\ new.bond = q.bond
      /\ new.currentStake = q.currentStake
  <2>. DEFINE k1 == [q EXCEPT !.failed = x]
              k2 == [k1 EXCEPT !.completed = y]
  <2>. HIDE DEF q, x, y
  <2>1. k1 \in ContractType
    BY <1>1, <1>3, ContractField
  <2>2. k2 \in ContractType
    <3>. HIDE DEF k1
    <3>. QED BY <1>3, <2>1, ContractField
  <2>3. new \in ContractType
    <3>1. new = [k2 EXCEPT !.streak = 0]
      OBVIOUS
    <3>. HIDE DEF k2, new
    <3>. QED BY <2>2, <3>1, ContractField
  <2>4. /\ new.escrow = q.escrow /\ new.bond = q.bond /\ new.currentStake = q.currentStake
        /\ new.status = q.status /\ new.agent = q.agent /\ new.bounty = q.bounty
        /\ new.total = q.total /\ new.required = q.required
    BY <1>1 DEF ContractType
  <2>. HIDE DEF new
  <2>. QED BY <1>1, <2>3, <2>4 DEF SameTerms
<1>5. Funds(r.k) = Funds(q) /\ r.k.currentStake = q.currentStake
  BY <1>2, <1>4 DEF Funds
<1>. HIDE DEF new, r
<1>. QED BY <1>1, <1>2, <1>4, <1>5 DEF OpenBooks, Carries, r

StakesOf(p) == [m \in ContinuousMembers |-> p[m].stake]

\* The stakes of a panel are amounts.
LEMMA StakesInt ==
  ASSUME NEW p \in PanelType
  PROVE  /\ \A m \in ContinuousMembers : p[m].stake \in Nat /\ StakesOf(p)[m] = p[m].stake
         /\ SumFunctionOnSet(StakesOf(p), ContinuousMembers) \in Int
<1>1. \A m \in ContinuousMembers : p[m].stake \in Nat /\ StakesOf(p)[m] = p[m].stake
  BY DEF PanelType, VoteType, StakesOf
<1>2. SumFunctionOnSet(StakesOf(p), ContinuousMembers) \in Int
  <2>1. \A m \in ContinuousMembers : StakesOf(p)[m] \in Int
    BY <1>1
  <2>. QED BY <2>1, ContinuousSets, SumInt
<1>. QED BY <1>1, <1>2

\* The stakes of a panel are given back or slashed, all of them.
LEMMA VerifiersCarry ==
  ASSUME NEW b, NEW k, NEW v, NEW s, OpenBooks(b, k, v, s), NEW p \in PanelType,
         NEW losers \in SUBSET ContinuousMembers, NEW half \in BOOLEAN
  PROVE  OpenBooks(Continuous!SlashVerifiers(b, p, losers, half), k,
                   v + SumFunctionOnSet(StakesOf(p), ContinuousMembers), s)
<1>. DEFINE r == Continuous!SlashVerifiers(b, p, losers, half)
            f == [m \in losers |-> IF half THEN (p[m].stake * 1000) \div (2 * 10000)
                                   ELSE Continuous!Share(p[m].stake, 1000)]
            kept == SumFunctionOnSet(f, losers)
            all == SumFunctionOnSet(StakesOf(p), ContinuousMembers)
<1>1. DOMAIN b = {"k", "out", "fees", "home"}
  BY DEF OpenBooks, Carries
<1>2. all \in Int
  BY StakesInt
<1>3. kept \in Int
  <2>1. \A m \in losers : f[m] \in Int
    <3>. SUFFICES ASSUME NEW m \in losers PROVE f[m] \in Int
      OBVIOUS
    <3>. DEFINE st == p[m].stake
    <3>1. st \in Nat
      BY StakesInt
    <3>. HIDE DEF st
    <3>2. (st * 1000) \div (2 * 10000) \in Int /\ Continuous!Share(st, 1000) \in Int
      BY <3>1 DEF Continuous!Share, Continuous!BPS
    <3>. QED BY <3>2 DEF st
  <2>2. IsFiniteSet(losers)
    BY ContinuousSets, FS_Subset
  <2>. HIDE DEF f
  <2>. QED BY <2>1, <2>2, SumInt
<1>4. /\ r.k = b.k /\ r.out = b.out + all - kept /\ r.fees = b.fees + kept /\ r.home = b.home
      /\ DOMAIN r = DOMAIN b
  <2>1. DOMAIN p = ContinuousMembers
    BY DEF PanelType
  <2>2. Continuous!SumOver(DOMAIN p, LAMBDA m : p[m].stake) = all
    BY <2>1, ContinuousSum DEF Continuous!SumOver, StakesOf
  <2>. DEFINE revenue(m) == IF half
                THEN (p[m].stake * Continuous!SlashRevenueBps) \div (2 * Continuous!BPS)
                ELSE Continuous!Share(p[m].stake, Continuous!SlashRevenueBps)
  <2>3. Continuous!SumOver(losers, revenue) = kept
    BY ContinuousSum DEF Continuous!SumOver, Continuous!SlashRevenueBps, Continuous!BPS
  <2>4. r = [b EXCEPT !.out = b.out + Continuous!SumOver(DOMAIN p, LAMBDA m : p[m].stake)
                                - Continuous!SumOver(losers, revenue),
                      !.fees = b.fees + Continuous!SumOver(losers, revenue)]
    BY DEF Continuous!SlashVerifiers
  <2>. HIDE DEF r, all, kept, revenue
  <2>5. r = [b EXCEPT !.out = b.out + all - kept, !.fees = b.fees + kept]
    BY <2>2, <2>3, <2>4
  <2>. QED BY <1>1, <2>5
<1>. DEFINE out == b.out
            fees == b.fees
            n == Funds(k)
            w == Funds(b.k)
<1>5. out + fees + w = n + v /\ out \in Int /\ fees \in Int /\ n \in Int /\ w \in Int /\ v \in Int
  BY DEF OpenBooks, Carries, Funds, ContractType, SameTerms
<1>6. r.out = out + all - kept /\ r.fees = fees + kept /\ r.home = b.home /\ Funds(r.k) = w
  BY <1>4
<1>. HIDE DEF out, fees, n, w, r, all, kept
<1>7. /\ r.out + r.fees + Funds(r.k) = n + (v + all) /\ r.out \in Int /\ r.fees \in Int
      /\ v + all \in Int
  BY <1>2, <1>3, <1>5, <1>6
<1>8. OpenBooks(r, k, v + all, s)
  BY <1>1, <1>4, <1>7 DEF OpenBooks, Carries, n
<1>. QED BY <1>8 DEF r, all

\* The books of a missed checkpoint.
LEMMA MissCarries ==
  ASSUME NEW k \in ContractType, k.status \notin BeforeWork
  PROVE  Carries(Continuous!Miss(k), k, 0,
                 k.currentStake - Continuous!Share(k.currentStake, Continuous!MissSlashBps))
<1>. DEFINE b == Continuous!Books(k)
            r == Continuous!Slash(b, Continuous!MissSlashBps)
            t == Continuous!Failed(r)
            s == k.currentStake - Continuous!Share(k.currentStake, Continuous!MissSlashBps)
<1>1. OpenBooks(b, k, 0, k.currentStake)
  BY BooksOpened
<1>2. b.k = k
  BY DEF Continuous!Books
<1>3. Continuous!MissSlashBps \in Parts
  BY DEF Continuous!MissSlashBps, Parts
<1>4. OpenBooks(r, k, 0, s)
  <2>1. OpenBooks(r, k, 0,
                  k.currentStake - Continuous!Share(b.k.currentStake, Continuous!MissSlashBps))
    <3>. HIDE DEF b
    <3>. QED BY <1>1, <1>3, SlashCarries
  <2>. HIDE DEF r, b
  <2>. QED BY <1>2, <2>1
<1>5. OpenBooks(t, k, 0, s)
  <2>. HIDE DEF r, s
  <2>. QED BY <1>4, FailedCarries
<1>6. Carries(Continuous!CheckTermination(t), k, 0, s)
  <2>. HIDE DEF t, s
  <2>. QED BY <1>5, TerminationCarries
<1>. QED BY <1>6 DEF Continuous!Miss

\* The books of a failed checkpoint.
LEMMA FailCarries ==
  ASSUME NEW k \in ContractType, k.status \notin BeforeWork, NEW p \in PanelType
  PROVE  Carries(Continuous!EvaluateFail(k, p), k, SumFunctionOnSet(StakesOf(p), ContinuousMembers),
                 k.currentStake - Continuous!Share(k.currentStake, Continuous!FailSlashBps))
<1>. DEFINE b == Continuous!Books(k)
            r == Continuous!Slash(b, Continuous!FailSlashBps)
            t == Continuous!SlashVerifiers(r, p, Continuous!Votes(p, "Approved"), FALSE)
            j == Continuous!Failed(t)
            s == k.currentStake - Continuous!Share(k.currentStake, Continuous!FailSlashBps)
            all == SumFunctionOnSet(StakesOf(p), ContinuousMembers)
<1>1. OpenBooks(b, k, 0, k.currentStake)
  BY BooksOpened
<1>2. b.k = k
  BY DEF Continuous!Books
<1>3. Continuous!FailSlashBps \in Parts
  BY DEF Continuous!FailSlashBps, Parts
<1>4. OpenBooks(r, k, 0, s)
  <2>1. OpenBooks(r, k, 0,
                  k.currentStake - Continuous!Share(b.k.currentStake, Continuous!FailSlashBps))
    <3>. HIDE DEF b
    <3>. QED BY <1>1, <1>3, SlashCarries
  <2>. HIDE DEF r, b
  <2>. QED BY <1>2, <2>1
<1>5. OpenBooks(t, k, all, s)
  <2>1. Continuous!Votes(p, "Approved") \in SUBSET ContinuousMembers
    BY DEF Continuous!Votes, PanelType
  <2>2. OpenBooks(t, k, 0 + all, s)
    <3>. HIDE DEF r, s, all
    <3>. QED BY <1>4, <2>1, VerifiersCarry DEF all
  <2>3. 0 + all = all
    BY StakesInt
  <2>. HIDE DEF all, t, s
  <2>. QED BY <2>2, <2>3
<1>6. OpenBooks(j, k, all, s)
  <2>. HIDE DEF t, s, all
  <2>. QED BY <1>5, FailedCarries
<1>7. /\ Carries(Continuous!CheckTermination(j), k, all, s)
      /\ Carries(Continuous!Close(j, "Completed"), k, all, s)
  <2>. HIDE DEF j, s, all
  <2>. QED BY <1>6, TerminationCarries, CloseCarries
<1>. QED BY <1>7 DEF Continuous!EvaluateFail

-----------------------------------------------------------------------------
\* The lesser of two integers.
LEMMA LesserInt ==
  ASSUME NEW a \in Int, NEW b \in Int
  PROVE  Continuous!Min({a, b}) \in Int
<1>1. \E x \in {a, b} : \A y \in {a, b} : x <= y
  <2>1. CASE a <= b
    BY <2>1
  <2>2. CASE b <= a
    BY <2>2
  <2>. QED BY <2>1, <2>2
<1>2. Continuous!Min({a, b}) = CHOOSE x \in {a, b} : \A y \in {a, b} : x <= y
  BY DEF Continuous!Min
<1>3. Continuous!Min({a, b}) \in {a, b}
  BY <1>1, <1>2
<1>. QED BY <1>3

\* A share of an integer is one.
LEMMA ShareInt ==
  ASSUME NEW n \in Int, NEW bps \in Int
  PROVE  Continuous!Share(n, bps) \in Int
<1>. DEFINE x == n * bps
<1>1. x \in Int /\ Continuous!Share(n, bps) = x \div 10000
  BY DEF Continuous!Share, Continuous!BPS
<1>. HIDE DEF x
<1>. QED BY <1>1

\* The sums a passed checkpoint is paid by are integers.
LEMMA PayoutInt ==
  ASSUME NEW k \in ContractType, k.total > 0, k.required > 0
  PROVE  /\ Continuous!FromEscrow(k) \in Int
         /\ Continuous!Share(Continuous!PaymentPerCheckpoint(k), Continuous!ProtocolFeeBps) \in Int
         /\ Continuous!FeePerVerifier(k) \in Int /\ Continuous!AgentPayout(k) \in Int
         /\ Continuous!Share(Continuous!AgentPayout(k), Continuous!CompletionBondBps) \in Int
         /\ Continuous!AgentPayout(k) = Continuous!FromEscrow(k)
              - Continuous!Share(Continuous!PaymentPerCheckpoint(k), Continuous!ProtocolFeeBps)
              - Continuous!FeePerVerifier(k) * k.required
<1>. DEFINE pp == Continuous!PaymentPerCheckpoint(k)
            fe == Continuous!FromEscrow(k)
            sh == Continuous!Share(pp, Continuous!ProtocolFeeBps)
            fee == Continuous!FeePerVerifier(k)
            ap == Continuous!AgentPayout(k)
            bonus == Continuous!Bonus(k)
            es == k.escrow
            req == k.required
<1>1. pp \in Int /\ fee \in Int /\ es \in Int /\ req \in Nat
  BY FeeInt DEF ContractType
<1>2. \A n \in Int : /\ Continuous!Share(n, Continuous!ProtocolFeeBps) \in Int
                     /\ Continuous!Share(n, Continuous!PassBonusBps) \in Int
                     /\ Continuous!Share(n, Continuous!CompletionBondBps) \in Int
  <2>1. /\ Continuous!ProtocolFeeBps \in Int /\ Continuous!PassBonusBps \in Int
        /\ Continuous!CompletionBondBps \in Int
    BY DEF Continuous!ProtocolFeeBps, Continuous!PassBonusBps, Continuous!CompletionBondBps
  <2>. QED BY <2>1, ShareInt
<1>3. bonus \in Int
  <2>1. Continuous!Share(pp, Continuous!PassBonusBps) \in Int
    <3>. HIDE DEF pp
    <3>. QED BY <1>1, <1>2
  <2>. QED BY <2>1 DEF Continuous!Bonus
<1>4. fe \in Int
  <2>1. fe = Continuous!Min({pp + bonus, es})
    BY DEF Continuous!FromEscrow
  <2>. DEFINE t == pp + bonus
  <2>2. t \in Int
    <3>. HIDE DEF pp, bonus
    <3>. QED BY <1>1, <1>3
  <2>. HIDE DEF t, es, fe
  <2>3. Continuous!Min({t, es}) \in Int
    BY <1>1, <2>2, LesserInt
  <2>. QED BY <2>1, <2>3 DEF t
<1>5. sh \in Int
  <2>. HIDE DEF pp
  <2>. QED BY <1>1, <1>2
<1>6. ap = fe - sh - fee * req
  BY DEF Continuous!AgentPayout
<1>7. fee * req \in Int
  <2>. HIDE DEF fee, req
  <2>. QED BY <1>1
<1>8. ap \in Int
  <2>. DEFINE x == fee * req
  <2>. HIDE DEF fe, sh, x, ap
  <2>. QED BY <1>4, <1>5, <1>6, <1>7 DEF x
<1>9. Continuous!Share(ap, Continuous!CompletionBondBps) \in Int
  <2>. HIDE DEF ap
  <2>. QED BY <1>2, <1>8
<1>. QED BY <1>1, <1>4, <1>5, <1>6, <1>8, <1>9

\* A full panel whose votes are in.
FullPanel(k, p) ==
  /\ p \in PanelType
  /\ Cardinality(With(p, "Approved")) \in Nat /\ Cardinality(With(p, "Rejected")) \in Nat
  /\ k.required = Cardinality(With(p, "Approved")) + Cardinality(With(p, "Rejected"))

Paid(k, p) ==
  LET withheld == Continuous!Share(Continuous!AgentPayout(k), Continuous!CompletionBondBps)
  IN [Continuous!Books(k) EXCEPT
        !.k.escrow = @ - Continuous!FromEscrow(k), !.k.bond = @ + withheld,
        !.k.completed = @ + 1, !.k.streak = @ + 1,
        !.out = Continuous!AgentPayout(k) - withheld
                  + Cardinality(With(p, "Approved")) * Continuous!FeePerVerifier(k),
        !.fees = Continuous!Share(Continuous!PaymentPerCheckpoint(k), Continuous!ProtocolFeeBps)]

\* The books once the agent and the majority are paid.
LEMMA PaidCarries ==
  ASSUME NEW k, NEW p, k \in ContractType, k.total > 0, k.required > 0,
         k.status \notin BeforeWork, FullPanel(k, p)
  PROVE  OpenBooks(Paid(k, p), k,
                   0 - Cardinality(With(p, "Rejected")) * Continuous!FeePerVerifier(k),
                   k.currentStake)
<1>. DEFINE fe == Continuous!FromEscrow(k)
            sh == Continuous!Share(Continuous!PaymentPerCheckpoint(k), Continuous!ProtocolFeeBps)
            fee == Continuous!FeePerVerifier(k)
            ap == Continuous!AgentPayout(k)
            w == Continuous!Share(ap, Continuous!CompletionBondBps)
            A == Cardinality(With(p, "Approved"))
            R == Cardinality(With(p, "Rejected"))
            r == Paid(k, p)
            es == k.escrow
            bo == k.bond
            cs == k.currentStake
            done == k.completed + 1
            run == k.streak + 1
            new == [k EXCEPT !.escrow = es - fe, !.bond = bo + w, !.completed = done,
                      !.streak = run]
<1>1. /\ fe \in Int /\ sh \in Int /\ fee \in Int /\ ap \in Int /\ w \in Int
      /\ ap = fe - sh - fee * k.required
  BY PayoutInt
<1>2. A \in Nat /\ R \in Nat /\ k.required = A + R
  BY DEF FullPanel
<1>3. /\ es \in Int /\ bo \in Int /\ cs \in Nat /\ done \in Int /\ run \in Int
  BY DEF ContractType
<1>4. /\ r.k = new /\ r.out = ap - w + A * fee /\ r.fees = sh /\ r.home = 0
      /\ DOMAIN r = {"k", "out", "fees", "home"}
  <2>. HIDE DEF fe, sh, fee, ap, w, A
  <2>. QED BY DEF Paid, Continuous!Books, fe, sh, fee, ap, w, A
<1>5. /\ SameTerms(k, new) /\ new.escrow = es - fe /\ new.bond = bo + w /\ new.currentStake = cs
  <2>. DEFINE left == es - fe
              kept == bo + w
              k1 == [k EXCEPT !.escrow = left]
              k2 == [k1 EXCEPT !.bond = kept]
              k3 == [k2 EXCEPT !.completed = done]
  <2>0. left \in Int /\ kept \in Int
    <3>. HIDE DEF es, fe, bo, w
    <3>. QED BY <1>1, <1>3
  <2>. HIDE DEF left, kept, done, run
  <2>1. k1 \in ContractType
    BY <2>0, ContractField
  <2>2. k2 \in ContractType
    <3>. HIDE DEF k1
    <3>. QED BY <2>0, <2>1, ContractField
  <2>3. k3 \in ContractType
    <3>. HIDE DEF k2
    <3>. QED BY <1>3, <2>2, ContractField
  <2>4. new \in ContractType
    <3>1. new = [k3 EXCEPT !.streak = run]
      BY DEF left, kept
    <3>. HIDE DEF k3, new
    <3>. QED BY <1>3, <2>3, <3>1, ContractField
  <2>5. /\ new.escrow = left /\ new.bond = kept /\ new.currentStake = cs
        /\ new.status = k.status /\ new.agent = k.agent /\ new.bounty = k.bounty
        /\ new.total = k.total /\ new.required = k.required
    BY DEF ContractType, left, kept
  <2>. HIDE DEF new
  <2>. QED BY <2>4, <2>5 DEF SameTerms, left, kept
<1>. DEFINE n == Funds(k)
            af == A * fee
            rf == R * fee
<1>6. n = es + bo + cs
  BY DEF Funds
<1>7. af \in Int /\ rf \in Int /\ fee * k.required = af + rf
  <2>. HIDE DEF A, R, fee
  <2>1. A * fee \in Int /\ R * fee \in Int /\ fee * (A + R) = A * fee + R * fee
    BY <1>1, <1>2
  <2>. QED BY <1>2, <2>1
<1>8. Funds(r.k) = es - fe + (bo + w) + cs /\ r.k.currentStake = cs
  <2>1. Funds(new) = new.escrow + new.bond + new.currentStake
    BY DEF Funds
  <2>. HIDE DEF new, r
  <2>. QED BY <1>4, <1>5, <2>1
<1>9. ap = fe - sh - (af + rf) /\ r.out = ap - w + af /\ r.fees = sh /\ r.home = 0
  BY <1>1, <1>4, <1>7
<1>. HIDE DEF fe, sh, fee, ap, w, af, rf, n, es, bo, cs, r, new
<1>10. /\ r.out + r.fees + Funds(r.k) = n + (0 - rf) /\ r.home + r.k.currentStake = cs
       /\ r.out \in Int /\ r.fees \in Int /\ r.home \in Int /\ 0 - rf \in Int /\ cs \in Int
  BY <1>1, <1>3, <1>6, <1>7, <1>8, <1>9
<1>11. OpenBooks(r, k, 0 - rf, cs)
  BY <1>4, <1>5, <1>9, <1>10 DEF OpenBooks, Carries, n
<1>. QED BY <1>11 DEF r, rf, fee, cs

\* The books of a checkpoint that passed.
LEMMA PassCarries ==
  ASSUME NEW k, NEW p, k \in ContractType, k.total > 0, k.required > 0,
         k.status \notin BeforeWork, FullPanel(k, p)
  PROVE  Carries(Continuous!EvaluatePass(k, p), k,
                 0 - Cardinality(With(p, "Rejected")) * Continuous!FeePerVerifier(k)
                   + SumFunctionOnSet(StakesOf(p), ContinuousMembers),
                 k.currentStake)
<1>. DEFINE b == Paid(k, p)
            v == 0 - Cardinality(With(p, "Rejected")) * Continuous!FeePerVerifier(k)
            j == Continuous!SlashVerifiers(b, p, Continuous!Votes(p, "Rejected"), TRUE)
            all == SumFunctionOnSet(StakesOf(p), ContinuousMembers)
            s == k.currentStake
<1>1. OpenBooks(b, k, v, s)
  BY PaidCarries
<1>2. p \in PanelType /\ Continuous!Votes(p, "Rejected") \in SUBSET ContinuousMembers
      /\ Continuous!Votes(p, "Approved") = With(p, "Approved")
  BY DEF FullPanel, Continuous!Votes, PanelType, With
<1>3. OpenBooks(j, k, v + all, s)
  <2>. HIDE DEF b, v, s
  <2>. QED BY <1>1, <1>2, VerifiersCarry
<1>4. Carries(j, k, v + all, s) /\ Carries(Continuous!Close(j, "Completed"), k, v + all, s)
  <2>. DEFINE x == v + all
  <2>. HIDE DEF j, x, s
  <2>1. Carries(j, k, x, s) /\ Carries(Continuous!Close(j, "Completed"), k, x, s)
    BY <1>3, CloseCarries DEF OpenBooks, x
  <2>. QED BY <2>1 DEF x
<1>5. Continuous!Cardinality(Continuous!Votes(p, "Approved")) = Cardinality(With(p, "Approved"))
  BY <1>2, ContinuousCardinality
<1>6. Continuous!EvaluatePass(k, p) = IF j.k.completed = k.total THEN Continuous!Close(j, "Completed")
                                      ELSE j
  <2>. DEFINE withheld == Continuous!Share(Continuous!AgentPayout(k), Continuous!CompletionBondBps)
              paid(n) == [Continuous!Books(k) EXCEPT
                !.k.escrow = @ - Continuous!FromEscrow(k), !.k.bond = @ + withheld,
                !.k.completed = @ + 1, !.k.streak = @ + 1,
                !.out = Continuous!AgentPayout(k) - withheld + n * Continuous!FeePerVerifier(k),
                !.fees = Continuous!Share(Continuous!PaymentPerCheckpoint(k),
                                          Continuous!ProtocolFeeBps)]
              judged(q) == Continuous!SlashVerifiers(q, p, Continuous!Votes(p, "Rejected"), TRUE)
              votes == Continuous!Cardinality(Continuous!Votes(p, "Approved"))
  <2>1. Continuous!EvaluatePass(k, p) =
          IF judged(paid(votes)).k.completed = k.total
          THEN Continuous!Close(judged(paid(votes)), "Completed") ELSE judged(paid(votes))
    BY DEF Continuous!EvaluatePass
  <2>2. b = paid(Cardinality(With(p, "Approved")))
    BY DEF Paid
  <2>. HIDE DEF paid, votes, b, judged
  <2>3. paid(votes) = b
    BY <1>5, <2>2 DEF votes
  <2>. QED BY <2>1, <2>3 DEF judged
<1>. QED BY <1>4, <1>6

-----------------------------------------------------------------------------
\* The books b of a call on the contract c, checkpoint i, are entered: the
\* checkpoint is cp now, its panel p; cr is credited.
BooksEntered(c, i, b, cp, p, cps, ps, stakeOf, v, s, cr) ==
  /\ c \in ContractIds /\ i \in CheckpointIndices /\ cp \in CheckpointType /\ p \in PanelType
  /\ contracts[c].status \notin BeforeWork /\ contracts[c].agent \in ContinuousAgents
  /\ Carries(b, contracts[c], v, s)
  /\ PanelSound(cp, p)
  /\ RowChanged(checkpoints[c], cps, CheckpointType, i, cp)
  /\ RowChanged(panels[c], ps, PanelType, i, p)
  /\ Becomes(checkpoints, checkpoints', CheckpointRows, c, cps)
  /\ Becomes(panels, panels', PanelRows, c, ps)
  /\ UNCHANGED <<continuousNow, continuousBids, best>>
  /\ Continuous!Enter(c, b, stakeOf)
  /\ \A m \in ContinuousMembers :
       stakeOf[m] = Released(checkpoints[c][i], panels[c][i], cp, p)[m] /\ stakeOf[m] \in Int
  /\ cr \in Int /\ credited' = credited + cr
  /\ v = cr + SumFunctionOnSet(Released(checkpoints[c][i], panels[c][i], cp, p),
                               ContinuousMembers)
         + UnpaidOf(contracts[c], panels[c][i]) - UnpaidOf(contracts[c], p)
  /\ s + cp.slash = contracts[c].currentStake + checkpoints[c][i].slash

\* A call that enters such books keeps the invariant.
LEMMA BooksStep ==
  ASSUME ContinuousInv, NEW c, NEW i, NEW b, NEW cp, NEW p, NEW cps, NEW ps, NEW stakeOf, NEW v,
         NEW s, NEW cr, BooksEntered(c, i, b, cp, p, cps, ps, stakeOf, v, s, cr)
  PROVE  ContinuousInv'
<1>. DEFINE k0 == contracts[c]
            k == b.k
            cp0 == checkpoints[c][i]
            p0 == panels[c][i]
            e == Released(cp0, p0, cp, p)
<1>1. /\ c \in ContractIds /\ i \in CheckpointIndices /\ cp \in CheckpointType /\ p \in PanelType
      /\ k0.status \notin BeforeWork /\ k0.agent \in ContinuousAgents
      /\ SameTerms(k0, k) /\ k0 \in ContractType /\ b.out \in Int /\ b.fees \in Int
      /\ b.home \in Int /\ v \in Int /\ s \in Int
      /\ b.out + b.fees + Funds(k) = Funds(k0) + v /\ b.home + k.currentStake = s
  BY DEF BooksEntered, Carries
<1>2. WorkMove(c, i, k, cp, p, cps, ps)
  <2>. HIDE DEF k, k0
  <2>. QED BY <1>1 DEF WorkMove, SameTerms, BooksEntered, k0
<1>3. /\ continuousBalance' = continuousBalance - b.out
      /\ continuousTreasury' = continuousTreasury + b.fees
      /\ contracts' = [contracts EXCEPT ![c] = k]
      /\ agentActiveStake' = [m \in ContinuousMembers |->
           agentActiveStake[m] - stakeOf[m] - IF m = k0.agent THEN b.home ELSE 0]
  BY ContinuousSets DEF BooksEntered, Continuous!Enter
<1>4. /\ continuousBalance \in Int /\ continuousTreasury \in Int /\ credited \in Int
      /\ contracts \in [ContractIds -> ContractType]
      /\ agentActiveStake \in [ContinuousMembers -> Int]
  BY <1>1, Best0
<1>5. Becomes(contracts, contracts', ContractType, c, k)
  <2>1. k \in ContractType
    BY <1>1 DEF SameTerms
  <2>. HIDE DEF k
  <2>. QED BY <1>1, <1>3, <1>4, <2>1, BecomesHere
<1>6. k.agent = k0.agent /\ UnpaidOf(k, p) = UnpaidOf(k0, p)
  <2>. HIDE DEF k, k0
  <2>. QED BY <1>1, SameFee DEF SameTerms
<1>7. /\ continuousTreasury' \in Int /\ continuousBalance' \in Int /\ credited' \in Int
      /\ continuousBalance' + credited' - continuousTreasury'
           = continuousBalance + credited - continuousTreasury + Funds(k) - Funds(k0)
             + UnpaidOf(k, p) - UnpaidOf(k0, p0) - SumFunctionOnSet(e, ContinuousMembers)
  <2>. DEFINE nb == continuousBalance'
              nc == credited'
              nt == continuousTreasury'
              a == continuousBalance
              d == credited
              t == continuousTreasury
              out == b.out
              fees == b.fees
              n == Funds(k)
              n0 == Funds(k0)
              u == UnpaidOf(k, p)
              u0 == UnpaidOf(k0, p0)
              se == SumFunctionOnSet(e, ContinuousMembers)
  <2>1. /\ nb = a - out /\ nt = t + fees /\ nc = d + cr /\ cr \in Int
    BY <1>3 DEF BooksEntered
  <2>2. a \in Int /\ d \in Int /\ t \in Int
    BY <1>4
  <2>3. v = cr + se + u0 - u
    BY <1>6 DEF BooksEntered
  <2>4. n \in Int /\ n0 \in Int /\ u \in Int /\ u0 \in Int /\ se \in Int
    BY <1>2, WorkOwed
  <2>5. out + fees + n = n0 + v /\ out \in Int /\ fees \in Int
    BY <1>1
  <2>. HIDE DEF nb, nc, nt, a, d, t, out, fees, n, n0, u, u0, se
  <2>6. /\ nb \in Int /\ nt \in Int /\ nc \in Int
        /\ nb + nc - nt = a + d - t + n - n0 + u - u0 - se
    BY <2>1, <2>2, <2>3, <2>4, <2>5
  <2>. QED BY <2>6 DEF nb, nc, nt, a, d, t, n, n0, u, u0, se
<1>8. ASSUME NEW m \in ContinuousMembers
      PROVE  /\ agentActiveStake'[m] >= agentActiveStake[m] - e[m]
                  + IF m = k.agent THEN k.currentStake + cp.slash - (k0.currentStake + cp0.slash)
                    ELSE 0
             /\ agentActiveStake'[m] \in Int
  <2>. DEFINE w == agentActiveStake'[m]
              w0 == agentActiveStake[m]
              x == e[m]
              home == b.home
              cs == k.currentStake
              cs0 == k0.currentStake
              sl == cp.slash
              sl0 == cp0.slash
  <2>1. w = w0 - x - (IF m = k.agent THEN home ELSE 0)
    BY <1>3, <1>6 DEF BooksEntered
  <2>2. x \in Int /\ w0 \in Int /\ home \in Int
    BY <1>1, <1>4 DEF BooksEntered
  <2>3. cs \in Nat /\ cs0 \in Nat /\ sl \in Nat /\ sl0 \in Nat
    BY <1>2, WorkHeldChange
  <2>4. s + sl = cs0 + sl0 /\ home + cs = s /\ s \in Int
    BY <1>1 DEF BooksEntered
  <2>. HIDE DEF w, w0, x, home, cs, cs0, sl, sl0
  <2>5. /\ w >= w0 - x + (IF m = k.agent THEN cs + sl - (cs0 + sl0) ELSE 0)
        /\ w \in Int
    <3>1. CASE m = k.agent
      BY <2>1, <2>2, <2>3, <2>4, <3>1
    <3>2. CASE m # k.agent
      BY <2>1, <2>2, <3>2
    <3>. QED BY <3>1, <3>2
  <2>. QED BY <2>5 DEF w, w0, x, cs, cs0, sl, sl0
<1>9. agentActiveStake' \in [ContinuousMembers -> Int]
  BY <1>3, <1>8
<1>10. WorkStep(c, i, k, cp, p, cps, ps)
  <2>. HIDE DEF k
  <2>. QED BY <1>2, <1>5, <1>7, <1>8, <1>9 DEF WorkStep, BooksEntered
<1>. QED BY <1>10, OneWorkStep

-----------------------------------------------------------------------------
\* In the table f the entry i of row c becomes x: the table g.
RowWritten(f, g, T, c, i, x) ==
  /\ f \in [ContractIds -> [CheckpointIndices -> T]] /\ c \in ContractIds
  /\ i \in CheckpointIndices /\ x \in T
  /\ g = [f EXCEPT ![c] = [f[c] EXCEPT ![i] = x]]

\* One checkpoint of one contract is written.
LEMMA RowWrite ==
  ASSUME NEW f, NEW g, NEW T, NEW c, NEW i, NEW x, RowWritten(f, g, T, c, i, x)
  PROVE  /\ Becomes(f, g, [CheckpointIndices -> T], c, g[c])
         /\ RowChanged(f[c], g[c], T, i, x)
<1>. DEFINE row == [f[c] EXCEPT ![i] = x]
<1>1. /\ f \in [ContractIds -> [CheckpointIndices -> T]] /\ c \in ContractIds
      /\ i \in CheckpointIndices /\ x \in T /\ g = [f EXCEPT ![c] = row]
      /\ f[c] \in [CheckpointIndices -> T]
  BY DEF RowWritten
<1>2. row \in [CheckpointIndices -> T] /\ row[i] = x
      /\ \A j \in CheckpointIndices \ {i} : row[j] = f[c][j]
  BY <1>1
<1>. HIDE DEF row
<1>3. g[c] = row
  BY <1>1
<1>4. Becomes(f, g, [CheckpointIndices -> T], c, row)
  BY <1>1, <1>2, <1>3 DEF Becomes
<1>. QED BY <1>1, <1>2, <1>3, <1>4 DEF RowChanged

\* A row written over itself.
LEMMA RowKept ==
  ASSUME NEW f, NEW T, f \in [ContractIds -> [CheckpointIndices -> T]], NEW c \in ContractIds,
         NEW i \in CheckpointIndices
  PROVE  /\ Becomes(f, f, [CheckpointIndices -> T], c, f[c])
         /\ RowChanged(f[c], f[c], T, i, f[c][i])
         /\ f[c][i] \in T
BY DEF Becomes, RowChanged

\* A contract under work, or one that was, and a checkpoint of it.
AtWork(c, i) ==
  /\ c \in ContractIds /\ i \in CheckpointIndices
  /\ contracts[c].status = "Active" \/ checkpoints[c][i].status # "Pending"

\* What is known of a contract at work on a checkpoint.
LEMMA Working ==
  ASSUME ContinuousInv, NEW c, NEW i, AtWork(c, i)
  PROVE  /\ c \in ContractIds /\ i \in CheckpointIndices
         /\ contracts[c] \in ContractType
         /\ contracts[c].status \notin BeforeWork /\ contracts[c].agent \in ContinuousAgents
         /\ contracts[c].total > 0 /\ contracts[c].required > 0
         /\ checkpoints[c][i] \in CheckpointType /\ panels[c][i] \in PanelType
         /\ PanelSound(checkpoints[c][i], panels[c][i])
         /\ checkpoints \in [ContractIds -> [CheckpointIndices -> CheckpointType]]
         /\ panels \in [ContractIds -> [CheckpointIndices -> PanelType]]
         /\ contracts[c].currentStake \in Nat /\ checkpoints[c][i].slash \in Nat
<1>. DEFINE k == contracts[c]
            row == continuousBids[c]
            cps == checkpoints[c]
            ps == panels[c]
            lead == best[c].agent
<1>1. /\ c \in ContractIds /\ i \in CheckpointIndices
      /\ k.status = "Active" \/ cps[i].status # "Pending"
  BY DEF AtWork
<1>2. /\ k \in ContractType /\ cps \in CheckpointRows /\ ps \in PanelRows
      /\ ContractSound(k, row, cps, ps, lead)
      /\ checkpoints \in [ContractIds -> CheckpointRows]
      /\ panels \in [ContractIds -> PanelRows]
  BY <1>1, Best0
<1>. HIDE DEF k, row, cps, ps, lead
<1>3. k.agent # NoAgent
  BY <1>1, <1>2 DEF ContractSound
<1>4. k.status \notin BeforeWork
  BY <1>2, <1>3 DEF ContractSound
<1>5. k.agent \in ContinuousAgents
  BY <1>2, <1>3 DEF ContractType
<1>6. k.total > 0 /\ k.required > 0
  BY <1>2, <1>4 DEF ContractSound, BeforeWork
<1>7. PanelSound(cps[i], ps[i])
  BY <1>1, <1>2 DEF ContractSound
<1>8. cps[i] \in CheckpointType /\ ps[i] \in PanelType
  BY <1>1, <1>2 DEF CheckpointRows, PanelRows
<1>9. k.currentStake \in Nat /\ cps[i].slash \in Nat
  BY <1>2, <1>8 DEF ContractType, CheckpointType
<1>. QED BY <1>1, <1>2, <1>4, <1>5, <1>6, <1>7, <1>8, <1>9
         DEF k, cps, ps, CheckpointRows, PanelRows

\* No stake is released where every one stays held.
LEMMA NothingReleased ==
  ASSUME NEW cp0, NEW p0, NEW cp, NEW p,
         \A m \in ContinuousMembers : /\ VoteHeld(cp, p, m) = VoteHeld(cp0, p0, m)
                                      /\ VoteHeld(cp, p, m) \in Int
  PROVE  /\ \A m \in ContinuousMembers : Released(cp0, p0, cp, p)[m] = 0
         /\ SumFunctionOnSet(Released(cp0, p0, cp, p), ContinuousMembers) = 0
<1>1. \A m \in ContinuousMembers : Released(cp0, p0, cp, p)[m] = 0
  BY DEF Released
<1>. QED BY <1>1, ContinuousSets, SumZero

\* A step that changes a checkpoint and its panel and no stake.
QuietStep(c, i, cp, p) ==
  /\ AtWork(c, i) /\ cp \in CheckpointType /\ p \in PanelType /\ PanelSound(cp, p)
  /\ RowChanged(checkpoints[c], checkpoints'[c], CheckpointType, i, cp)
  /\ RowChanged(panels[c], panels'[c], PanelType, i, p)
  /\ Becomes(checkpoints, checkpoints', CheckpointRows, c, checkpoints'[c])
  /\ Becomes(panels, panels', PanelRows, c, panels'[c])
  /\ cp.slash = checkpoints[c][i].slash
  /\ \A m \in ContinuousMembers :
       VoteHeld(cp, p, m) = VoteHeld(checkpoints[c][i], panels[c][i], m)
  /\ UnpaidOf(contracts[c], p) = UnpaidOf(contracts[c], panels[c][i])
  /\ UNCHANGED <<continuousNow, contracts, continuousBids, best, agentActiveStake,
                 continuousTreasury, continuousBalance, credited>>

\* What is held of a verifier is an integer.
LEMMA VoteHeldInt ==
  ASSUME NEW cp, NEW p \in PanelType, NEW m \in ContinuousMembers
  PROVE  VoteHeld(cp, p, m) \in Int
BY StakesInt DEF VoteHeld

\* A step that moves no money but a verifier's.
LEMMA OneQuietStep ==
  ASSUME ContinuousInv, NEW c, NEW i, NEW cp, NEW p, QuietStep(c, i, cp, p)
  PROVE  ContinuousInv'
<1>. DEFINE k == contracts[c]
            cp0 == checkpoints[c][i]
            p0 == panels[c][i]
            e == Released(cp0, p0, cp, p)
            cps == checkpoints'[c]
            ps == panels'[c]
<1>1. /\ c \in ContractIds /\ i \in CheckpointIndices /\ k \in ContractType
      /\ k.status \notin BeforeWork /\ k.agent \in ContinuousAgents
      /\ k.total > 0 /\ k.required > 0 /\ k.currentStake \in Nat /\ cp0.slash \in Nat
  BY Working DEF QuietStep
<1>2. WorkMove(c, i, k, cp, p, cps, ps)
  <2>. HIDE DEF k, cps, ps
  <2>. QED BY <1>1 DEF WorkMove, QuietStep, k, cps, ps
<1>3. /\ \A m \in ContinuousMembers : e[m] = 0
      /\ SumFunctionOnSet(e, ContinuousMembers) = 0
  <2>1. \A m \in ContinuousMembers : /\ VoteHeld(cp, p, m) = VoteHeld(cp0, p0, m)
                                      /\ VoteHeld(cp, p, m) \in Int
    BY VoteHeldInt DEF QuietStep
  <2>. HIDE DEF cp0, p0
  <2>. QED BY <2>1, NothingReleased
<1>4. /\ contracts \in [ContractIds -> ContractType]
      /\ agentActiveStake \in [ContinuousMembers -> Int]
      /\ continuousBalance \in Int /\ continuousTreasury \in Int /\ credited \in Int
  BY <1>1, Best0
<1>5. Becomes(contracts, contracts', ContractType, c, k)
  BY <1>1, <1>4, StaysHere DEF QuietStep
<1>6. continuousBalance' + credited' - continuousTreasury'
        = continuousBalance + credited - continuousTreasury + Funds(k) - Funds(k)
          + UnpaidOf(k, p) - UnpaidOf(k, p0) - SumFunctionOnSet(e, ContinuousMembers)
  <2>. DEFINE n == Funds(k)
              u == UnpaidOf(k, p)
              u0 == UnpaidOf(k, p0)
              se == SumFunctionOnSet(e, ContinuousMembers)
  <2>1. n \in Int /\ u \in Int /\ u0 \in Int
    BY <1>2, WorkOwed
  <2>2. u = u0 /\ se = 0
    BY <1>3 DEF QuietStep
  <2>3. /\ continuousBalance' = continuousBalance /\ credited' = credited
        /\ continuousTreasury' = continuousTreasury
    BY DEF QuietStep
  <2>. HIDE DEF n, u, u0, se
  <2>4. continuousBalance + credited - continuousTreasury
          = continuousBalance + credited - continuousTreasury + n - n + u - u0 - se
    BY <1>4, <2>1, <2>2
  <2>. QED BY <2>3, <2>4 DEF n, u, u0, se
<1>7. ASSUME NEW m \in ContinuousMembers
      PROVE  agentActiveStake'[m] >= agentActiveStake[m] - e[m]
               + IF m = k.agent THEN k.currentStake + cp.slash - (k.currentStake + cp0.slash)
                 ELSE 0
  <2>. DEFINE w == agentActiveStake[m]
              x == e[m]
              cs == k.currentStake
              sl == cp.slash
              sl0 == cp0.slash
  <2>1. w \in Int /\ x = 0 /\ cs \in Int /\ sl = sl0 /\ sl0 \in Int
    BY <1>1, <1>3, <1>4 DEF QuietStep
  <2>2. agentActiveStake'[m] = w
    BY DEF QuietStep
  <2>. HIDE DEF w, x, cs, sl, sl0
  <2>3. w >= w - x + (IF m = k.agent THEN cs + sl - (cs + sl0) ELSE 0)
    <3>1. cs + sl - (cs + sl0) = 0
      BY <2>1
    <3>. QED BY <2>1, <3>1
  <2>. QED BY <2>2, <2>3 DEF w, x, cs, sl, sl0
<1>8. WorkStep(c, i, k, cp, p, cps, ps)
  <2>1. /\ continuousTreasury' \in Int /\ continuousBalance' \in Int /\ credited' \in Int
        /\ agentActiveStake' \in [ContinuousMembers -> Int]
    BY <1>4 DEF QuietStep
  <2>2. /\ Becomes(checkpoints, checkpoints', CheckpointRows, c, cps)
        /\ Becomes(panels, panels', PanelRows, c, ps)
        /\ UNCHANGED <<continuousNow, continuousBids, best>>
    BY DEF QuietStep
  <2>. HIDE DEF cps, ps
  <2>. QED BY <1>2, <1>5, <1>6, <1>7, <2>1, <2>2 DEF WorkStep
<1>. QED BY <1>8, OneWorkStep

-----------------------------------------------------------------------------
\* submitCheckpoint.
LEMMA SubmitCheckpointKeeps ==
  ASSUME ContinuousInv, NEW c \in ContractIds, Continuous!SubmitCheckpoint(c)
  PROVE  ContinuousInv'
<1>. DEFINE i == contracts[c].completed
            cp0 == checkpoints[c][i]
            p == panels[c][i]
            cp == [cp0 EXCEPT !.status = "Submitted"]
<1>1. /\ contracts[c].status = "Active" /\ i \in CheckpointIndices /\ cp0.status = "Pending"
      /\ checkpoints' = [checkpoints EXCEPT ![c][i].status = "Submitted"]
      /\ UNCHANGED <<continuousNow, contracts, continuousBids, best, panels, agentActiveStake,
                     continuousTreasury, continuousBalance, credited>>
  BY ContinuousSets
     DEF Continuous!SubmitCheckpoint, Continuous!Pending, Continuous!Current,
         Continuous!auctionVars, Continuous!disputeVars
<1>2. AtWork(c, i)
  BY <1>1 DEF AtWork
<1>3. /\ cp0 \in CheckpointType /\ p \in PanelType /\ PanelSound(cp0, p)
      /\ checkpoints \in [ContractIds -> [CheckpointIndices -> CheckpointType]]
      /\ panels \in [ContractIds -> [CheckpointIndices -> PanelType]]
  BY <1>2, Working
<1>4. cp \in CheckpointType /\ cp.status = "Submitted" /\ cp.slash = cp0.slash
  <2>. HIDE DEF cp0
  <2>. QED BY <1>3 DEF CheckpointType, CheckpointStatus
<1>5. RowWritten(checkpoints, checkpoints', CheckpointType, c, i, cp)
  <2>1. checkpoints' = [checkpoints EXCEPT ![c] = [checkpoints[c] EXCEPT ![i] = cp]]
    BY <1>1
  <2>. HIDE DEF cp
  <2>. QED BY <1>1, <1>3, <1>4, <2>1 DEF RowWritten
<1>6. PanelSound(cp, p)
  <2>. HIDE DEF cp, cp0, p
  <2>. QED BY <1>1, <1>3, <1>4 DEF PanelSound, cp0
<1>. HIDE DEF cp
<1>7. /\ Becomes(checkpoints, checkpoints', CheckpointRows, c, checkpoints'[c])
      /\ RowChanged(checkpoints[c], checkpoints'[c], CheckpointType, i, cp)
  BY <1>5, RowWrite DEF CheckpointRows
<1>8. /\ Becomes(panels, panels', PanelRows, c, panels'[c])
      /\ RowChanged(panels[c], panels'[c], PanelType, i, p)
  BY <1>1, <1>3, RowKept DEF PanelRows
<1>9. \A m \in ContinuousMembers : VoteHeld(cp, p, m) = VoteHeld(cp0, p, m)
  BY <1>1, <1>4 DEF VoteHeld
<1>10. QuietStep(c, i, cp, p)
  <2>. HIDE DEF i
  <2>. QED BY <1>1, <1>2, <1>3, <1>4, <1>6, <1>7, <1>8, <1>9 DEF QuietStep
<1>. HIDE DEF i, p
<1>. QED BY <1>10, OneQuietStep

\* Time passes.
LEMMA TickKeeps ==
  ASSUME ContinuousInv, Continuous!Tick
  PROVE  ContinuousInv'
<1>1. /\ continuousNow' \in Int
      /\ UNCHANGED <<contracts, continuousBids, best, checkpoints, panels, agentActiveStake,
                     continuousTreasury, continuousBalance, credited>>
  BY DEF Continuous!Tick, Continuous!auctionVars, Continuous!workVars, Continuous!disputeVars,
         ContinuousInv, ContinuousTypes
<1>. QED BY <1>1 DEF ContinuousInv, ContinuousTypes

\* The protocol's fees are withdrawn.
LEMMA FeesWithdrawnKeep ==
  ASSUME ContinuousInv, Continuous!WithdrawProtocolFees
  PROVE  ContinuousInv'
<1>1. /\ continuousBalance' = continuousBalance - continuousTreasury /\ continuousTreasury' = 0
      /\ UNCHANGED <<continuousNow, contracts, continuousBids, best, checkpoints, panels,
                     agentActiveStake, credited>>
  BY DEF Continuous!WithdrawProtocolFees, Continuous!auctionVars, Continuous!workVars,
         Continuous!disputeVars
<1>. DEFINE owed == SumFunctionOnSet(OwedRow(contracts, continuousBids, checkpoints, panels),
                                    ContractIds)
            a == continuousBalance
            t == continuousTreasury
            na == continuousBalance'
            nt == continuousTreasury'
<1>2. a \in Int /\ t \in Int /\ credited \in Int /\ Reserve \in Int
      /\ a + credited = Reserve + t + owed
  BY SatelliteAssumption DEF ContinuousInv, ContinuousTypes
<1>3. owed \in Int
  <2>1. \A c \in ContractIds :
          OwedRow(contracts, continuousBids, checkpoints, panels)[c] \in Int
    <3>. SUFFICES ASSUME NEW c \in ContractIds
                  PROVE  OwedRow(contracts, continuousBids, checkpoints, panels)[c] \in Int
      OBVIOUS
    <3>1. OwedFor(contracts[c], continuousBids[c], checkpoints[c], panels[c]) \in Int
      BY Contract0, OwedInt
    <3>. QED BY <3>1 DEF OwedRow
  <2>. QED BY <2>1, ContinuousSets, SumInt
<1>4. na = a - t /\ nt = 0
  BY <1>1
<1>. HIDE DEF a, t, na, nt, owed
<1>5. na \in Int /\ nt \in Int /\ na + credited = Reserve + nt + owed
  BY <1>2, <1>3, <1>4
<1>6. owed' = owed
  BY <1>1 DEF owed
<1>7. ContinuousTypes'
  BY <1>1, <1>5 DEF ContinuousInv, ContinuousTypes, na, nt
<1>8. continuousBalance' + credited' = Reserve + continuousTreasury' + owed
  BY <1>1, <1>5 DEF na, nt
<1>. QED BY <1>1, <1>6, <1>7, <1>8 DEF ContinuousInv, owed

\* raiseCheckpointDispute.
LEMMA RaiseKeeps ==
  ASSUME ContinuousInv, NEW c \in ContractIds, NEW i \in CheckpointIndices,
         Continuous!RaiseCheckpointDispute(c, i)
  PROVE  ContinuousInv'
<1>1. UNCHANGED <<continuousNow, contracts, continuousBids, best, checkpoints, panels,
                  agentActiveStake, continuousTreasury, continuousBalance, credited>>
  BY DEF Continuous!RaiseCheckpointDispute, Continuous!auctionVars, Continuous!workVars
<1>. QED BY <1>1 DEF ContinuousInv, ContinuousTypes

\* registerCheckpointVerifier.
LEMMA RegisterKeeps ==
  ASSUME ContinuousInv, NEW c \in ContractIds, NEW i \in CheckpointIndices,
         NEW v \in ContinuousVerifiers, NEW stake \in VerifierStakes,
         Continuous!RegisterCheckpointVerifier(c, i, v, stake)
  PROVE  ContinuousInv'
<1>. DEFINE k == contracts[c]
            cp0 == checkpoints[c][i]
            p0 == panels[c][i]
            cp == [cp0 EXCEPT !.status = "Verifying"]
            seat == [stake |-> stake, vote |-> "Pending"]
            p == [p0 EXCEPT ![v] = seat]
            e == Released(cp0, p0, cp, p)
            cps == checkpoints'[c]
            ps == panels'[c]
<1>1. /\ k.status = "Active" /\ cp0.status \in {"Submitted", "Verifying"}
      /\ v \notin Seated(p0)
      /\ panels' = [panels EXCEPT ![c][i][v] = seat]
      /\ checkpoints' = [checkpoints EXCEPT ![c][i].status = "Verifying"]
      /\ agentActiveStake' = [agentActiveStake EXCEPT ![v] = @ + stake]
      /\ continuousBalance' = continuousBalance + stake
      /\ UNCHANGED <<continuousNow, contracts, continuousBids, best, continuousTreasury, credited>>
  BY ContinuousSets
     DEF Continuous!RegisterCheckpointVerifier, Continuous!Panel, Seated,
         Continuous!auctionVars, Continuous!disputeVars
<1>2. AtWork(c, i)
  BY <1>1 DEF AtWork
<1>3. /\ k \in ContractType /\ k.status \notin BeforeWork /\ k.agent \in ContinuousAgents
      /\ k.total > 0 /\ k.required > 0 /\ k.currentStake \in Nat
      /\ cp0 \in CheckpointType /\ p0 \in PanelType /\ PanelSound(cp0, p0) /\ cp0.slash \in Nat
      /\ checkpoints \in [ContractIds -> [CheckpointIndices -> CheckpointType]]
      /\ panels \in [ContractIds -> [CheckpointIndices -> PanelType]]
  BY <1>2, Working
<1>4. cp \in CheckpointType /\ cp.status = "Verifying" /\ cp.slash = cp0.slash
  <2>. HIDE DEF cp0
  <2>. QED BY <1>3 DEF CheckpointType, CheckpointStatus
<1>5. /\ v \in ContinuousMembers /\ stake \in Nat
      /\ seat \in VoteType /\ seat.vote = "Pending" /\ seat.stake = stake
  BY SatelliteAssumption DEF ContinuousMembers, VoteType
<1>6. /\ p \in PanelType /\ p[v] = seat
      /\ \A m \in ContinuousMembers \ {v} : p[m] = p0[m]
  <2>. HIDE DEF seat, p0
  <2>. QED BY <1>3, <1>5 DEF PanelType
<1>7. RowWritten(checkpoints, checkpoints', CheckpointType, c, i, cp)
  <2>1. checkpoints' = [checkpoints EXCEPT ![c] = [checkpoints[c] EXCEPT ![i] = cp]]
    BY <1>1
  <2>. HIDE DEF cp
  <2>. QED BY <1>3, <1>4, <2>1 DEF RowWritten
<1>8. RowWritten(panels, panels', PanelType, c, i, p)
  <2>1. panels' = [panels EXCEPT ![c] = [panels[c] EXCEPT ![i] = p]]
    <3>. HIDE DEF seat
    <3>. QED BY <1>1
  <2>. HIDE DEF p
  <2>. QED BY <1>3, <1>6, <2>1 DEF RowWritten
<1>9. /\ p0[v].vote = "None" /\ p0[v].stake = 0
      /\ cp0.status = "Submitted" => \A m \in ContinuousMembers : p0[m].stake = 0
      /\ cp0.status = "Submitted" => Seated(p0) = {}
  <2>. HIDE DEF p0, cp0
  <2>. QED BY <1>1, <1>3, <1>5 DEF PanelSound, Seated, p0, cp0
<1>10. v \in With(p, "Pending")
  <2>. HIDE DEF p, seat
  <2>. QED BY <1>5, <1>6 DEF With
<1>11. PanelSound(cp, p)
  <2>1. \A m \in ContinuousMembers : p[m].vote = "None" => p[m].stake = 0
    <3>. HIDE DEF p, seat, p0, cp0
    <3>. QED BY <1>3, <1>5, <1>6 DEF PanelSound
  <2>2. cp0.slash = 0
    <3>. HIDE DEF p0, cp0
    <3>. QED BY <1>1, <1>3 DEF PanelSound, cp0
  <2>. HIDE DEF p, cp, cp0
  <2>. QED BY <1>4, <1>10, <2>1, <2>2 DEF PanelSound
<1>12. UnpaidOf(k, p) = 0 /\ UnpaidOf(k, p0) = 0
  <2>1. ~HasPassed(p)
    BY <1>10 DEF HasPassed
  <2>2. ~HasPassed(p0)
    <3>1. CASE cp0.status = "Submitted"
      BY <1>9, <3>1 DEF HasPassed
    <3>2. CASE cp0.status = "Verifying"
      <4>1. With(p0, "Pending") # {}
        <5>. HIDE DEF p0, cp0
        <5>. QED BY <1>3, <3>2 DEF PanelSound
      <4>. QED BY <4>1 DEF HasPassed
    <3>. QED BY <1>1, <3>1, <3>2
  <2>. QED BY <2>1, <2>2 DEF UnpaidOf
<1>. HIDE DEF cp, p, seat, cp0, p0, k
<1>13. /\ \A m \in ContinuousMembers : e[m] = IF m = v THEN 0 - stake ELSE 0
       /\ \A m \in ContinuousMembers : e[m] \in Int
  <2>1. ASSUME NEW m \in ContinuousMembers
        PROVE  VoteHeld(cp0, p0, m) = IF cp0.status = "Verifying" THEN p0[m].stake ELSE 0
    BY DEF VoteHeld
  <2>2. ASSUME NEW m \in ContinuousMembers
        PROVE  VoteHeld(cp, p, m) = p[m].stake
    BY <1>4 DEF VoteHeld
  <2>3. ASSUME NEW m \in ContinuousMembers
        PROVE  e[m] = (IF m = v THEN 0 - stake ELSE 0) /\ e[m] \in Int
    <3>. DEFINE x == VoteHeld(cp0, p0, m)
                y == VoteHeld(cp, p, m)
    <3>1. e[m] = x - y
      BY DEF Released
    <3>2. p0[m].stake \in Nat
      BY <1>3, StakesInt
    <3>3. CASE m = v
      <4>1. x = 0 /\ y = stake
        BY <1>5, <1>6, <1>9, <2>1, <2>2, <3>3
      <4>. HIDE DEF x, y
      <4>. QED BY <1>5, <3>1, <3>3, <4>1
    <3>4. CASE m # v
      <4>1. x = p0[m].stake /\ y = p0[m].stake
        <5>1. p[m] = p0[m]
          BY <1>6, <3>4
        <5>2. x = p0[m].stake
          BY <1>1, <1>9, <2>1 DEF cp0
        <5>. QED BY <2>2, <5>1, <5>2
      <4>. HIDE DEF x, y
      <4>. QED BY <3>1, <3>2, <3>4, <4>1
    <3>. QED BY <3>3, <3>4
  <2>. QED BY <2>3
<1>14. SumFunctionOnSet(e, ContinuousMembers) = 0 - stake
  <2>. DEFINE n == 0 - stake
              one == [m \in ContinuousMembers |-> IF m = v THEN n ELSE 0]
  <2>1. n \in Int
    BY <1>5
  <2>2. e = one
    <3>1. e = [m \in ContinuousMembers |-> e[m]]
      BY DEF Released
    <3>. HIDE DEF e
    <3>. QED BY <1>13, <3>1
  <2>. HIDE DEF n, e
  <2>3. SumFunctionOnSet(one, ContinuousMembers) = n
    BY <1>5, <2>1, ContinuousSets, SumSingle
  <2>. QED BY <2>2, <2>3 DEF n
<1>15. /\ Becomes(checkpoints, checkpoints', CheckpointRows, c, cps)
       /\ RowChanged(checkpoints[c], cps, CheckpointType, i, cp)
  BY <1>7, RowWrite DEF CheckpointRows
<1>16. /\ Becomes(panels, panels', PanelRows, c, ps)
       /\ RowChanged(panels[c], ps, PanelType, i, p)
  BY <1>8, RowWrite DEF PanelRows
<1>. HIDE DEF cps, ps
<1>17. WorkMove(c, i, k, cp, p, cps, ps)
  BY <1>3, <1>4, <1>6, <1>11, <1>15, <1>16 DEF WorkMove, k
<1>18. /\ contracts \in [ContractIds -> ContractType]
       /\ agentActiveStake \in [ContinuousMembers -> Int]
       /\ continuousBalance \in Int /\ continuousTreasury \in Int /\ credited \in Int
  BY Best0
<1>19. Becomes(contracts, contracts', ContractType, c, k)
  BY <1>1, <1>18, StaysHere DEF k
<1>20. /\ continuousBalance' \in Int
       /\ continuousBalance' + credited - continuousTreasury
            = continuousBalance + credited - continuousTreasury + Funds(k) - Funds(k)
              + UnpaidOf(k, p) - UnpaidOf(k, p0) - SumFunctionOnSet(e, ContinuousMembers)
  <2>. DEFINE a == continuousBalance
              na == continuousBalance'
              n == Funds(k)
              u == UnpaidOf(k, p)
              u0 == UnpaidOf(k, p0)
              se == SumFunctionOnSet(e, ContinuousMembers)
  <2>1. n \in Int
    BY <1>17, WorkOwed DEF k
  <2>2. u = 0 /\ u0 = 0 /\ se = 0 - stake /\ na = a + stake /\ stake \in Int /\ a \in Int
    BY <1>1, <1>5, <1>12, <1>14, <1>18
  <2>. HIDE DEF a, na, n, u, u0, se
  <2>3. /\ na \in Int
        /\ na + credited - continuousTreasury
             = a + credited - continuousTreasury + n - n + u - u0 - se
    BY <1>18, <2>1, <2>2
  <2>. QED BY <2>3 DEF a, na, n, u, u0, se
<1>21. ASSUME NEW m \in ContinuousMembers
       PROVE  /\ agentActiveStake'[m] >= agentActiveStake[m] - e[m]
                    + IF m = k.agent THEN k.currentStake + cp.slash - (k.currentStake + cp0.slash)
                      ELSE 0
              /\ agentActiveStake'[m] \in Int
  <2>. DEFINE w == agentActiveStake[m]
              nw == agentActiveStake'[m]
              x == e[m]
              cs == k.currentStake
              sl == cp.slash
              sl0 == cp0.slash
  <2>1. w \in Int /\ cs \in Int /\ sl = sl0 /\ sl0 \in Int
    BY <1>3, <1>4, <1>18 DEF k
  <2>2. nw = (IF m = v THEN w + stake ELSE w)
    BY <1>1, <1>18
  <2>3. x = (IF m = v THEN 0 - stake ELSE 0) /\ stake \in Int
    BY <1>5, <1>13
  <2>. HIDE DEF w, nw, x, cs, sl, sl0
  <2>4. cs + sl - (cs + sl0) = 0
    BY <2>1
  <2>5. nw = w - x /\ nw \in Int /\ x \in Int
    <3>1. CASE m = v
      BY <2>1, <2>2, <2>3, <3>1
    <3>2. CASE m # v
      BY <2>1, <2>2, <2>3, <3>2
    <3>. QED BY <3>1, <3>2
  <2>6. /\ nw >= w - x + (IF m = k.agent THEN cs + sl - (cs + sl0) ELSE 0)
        /\ nw \in Int
    BY <2>1, <2>4, <2>5
  <2>. QED BY <2>6 DEF w, nw, x, cs, sl, sl0
<1>22. WorkStep(c, i, k, cp, p, cps, ps)
  <2>1. agentActiveStake' \in [ContinuousMembers -> Int]
    BY <1>1, <1>18, <1>21
  <2>2. /\ continuousBalance' + credited' - continuousTreasury'
             = continuousBalance + credited - continuousTreasury
               + Funds(k) - Funds(contracts[c])
               + UnpaidOf(k, p) - UnpaidOf(contracts[c], panels[c][i])
               - SumFunctionOnSet(Released(checkpoints[c][i], panels[c][i], cp, p),
                                  ContinuousMembers)
        /\ continuousTreasury' \in Int /\ continuousBalance' \in Int /\ credited' \in Int
    BY <1>1, <1>18, <1>20 DEF k, p0, cp0
  <2>3. \A m \in ContinuousMembers : agentActiveStake'[m] >= agentActiveStake[m]
          - Released(checkpoints[c][i], panels[c][i], cp, p)[m]
          + IF m = k.agent
            THEN k.currentStake + cp.slash
                   - (contracts[c].currentStake + checkpoints[c][i].slash)
            ELSE 0
    BY <1>21 DEF k, p0, cp0
  <2>. QED BY <1>1, <1>15, <1>16, <1>17, <1>19, <2>1, <2>2, <2>3 DEF WorkStep
<1>. QED BY <1>22, OneWorkStep

-----------------------------------------------------------------------------
\* markCheckpointMissed.
LEMMA MissedKeeps ==
  ASSUME ContinuousInv, NEW c \in ContractIds, Continuous!MarkCheckpointMissed(c)
  PROVE  ContinuousInv'
<1>. DEFINE k == contracts[c]
            i == k.completed
            cp0 == checkpoints[c][i]
            p == panels[c][i]
            lost == Continuous!Share(k.currentStake, Continuous!MissSlashBps)
            cp == [status |-> "Missed", slash |-> lost]
            b == Continuous!Miss(k)
            none == [m \in ContinuousMembers |-> 0]
            s == k.currentStake - lost
            cps == checkpoints'[c]
            ps == panels'[c]
<1>1. /\ k.status = "Active" /\ i \in CheckpointIndices /\ cp0.status = "Pending"
      /\ checkpoints' = [checkpoints EXCEPT ![c][i] = cp]
      /\ Continuous!Enter(c, b, none)
      /\ UNCHANGED <<continuousNow, continuousBids, best, panels, credited>>
  BY ContinuousSets
     DEF Continuous!MarkCheckpointMissed, Continuous!Pending, Continuous!Current,
         Continuous!auctionVars, Continuous!disputeVars
<1>2. AtWork(c, i)
  BY <1>1 DEF AtWork
<1>3. /\ k \in ContractType /\ k.status \notin BeforeWork /\ k.agent \in ContinuousAgents
      /\ k.total > 0 /\ k.required > 0 /\ k.currentStake \in Nat
      /\ cp0 \in CheckpointType /\ p \in PanelType /\ PanelSound(cp0, p) /\ cp0.slash \in Nat
      /\ checkpoints \in [ContractIds -> [CheckpointIndices -> CheckpointType]]
      /\ panels \in [ContractIds -> [CheckpointIndices -> PanelType]]
  BY <1>2, Working
<1>4. lost \in Nat
  <2>. DEFINE cs == k.currentStake
  <2>1. IsShare(cs, Continuous!MissSlashBps)
    BY <1>3 DEF IsShare, Parts, Continuous!MissSlashBps
  <2>. HIDE DEF cs
  <2>. QED BY <2>1, ShareBounds DEF cs
<1>5. cp \in CheckpointType /\ cp.status = "Missed" /\ cp.slash = lost
  <2>. HIDE DEF lost
  <2>. QED BY <1>4 DEF CheckpointType, CheckpointStatus
<1>6. Carries(b, k, 0, s)
  BY <1>3, MissCarries
<1>7. /\ \A m \in ContinuousMembers : p[m].vote = "None" => p[m].stake = 0
      /\ Seated(p) = {} /\ cp0.slash = 0
  <2>. HIDE DEF p, cp0
  <2>. QED BY <1>1, <1>3 DEF PanelSound, cp0
<1>. HIDE DEF cp, lost, b, none, k, i, cp0, p, cps, ps
<1>8. PanelSound(cp, p)
  BY <1>5, <1>7 DEF PanelSound
<1>9. RowWritten(checkpoints, checkpoints', CheckpointType, c, i, cp)
  <2>1. checkpoints' = [checkpoints EXCEPT ![c] = [checkpoints[c] EXCEPT ![i] = cp]]
    BY <1>1
  <2>. QED BY <1>1, <1>3, <1>5, <2>1 DEF RowWritten
<1>10. /\ Becomes(checkpoints, checkpoints', CheckpointRows, c, cps)
       /\ RowChanged(checkpoints[c], cps, CheckpointType, i, cp)
  BY <1>9, RowWrite DEF CheckpointRows, cps
<1>11. /\ Becomes(panels, panels', PanelRows, c, ps)
       /\ RowChanged(panels[c], ps, PanelType, i, p)
  BY <1>1, <1>3, RowKept DEF PanelRows, ps, p
<1>12. /\ \A m \in ContinuousMembers : Released(cp0, p, cp, p)[m] = 0
       /\ SumFunctionOnSet(Released(cp0, p, cp, p), ContinuousMembers) = 0
  <2>1. \A m \in ContinuousMembers : VoteHeld(cp, p, m) = 0 /\ VoteHeld(cp0, p, m) = 0
    BY <1>1, <1>5 DEF VoteHeld
  <2>2. \A m \in ContinuousMembers : /\ VoteHeld(cp, p, m) = VoteHeld(cp0, p, m)
                                      /\ VoteHeld(cp, p, m) \in Int
    BY <2>1
  <2>. QED BY <2>2, NothingReleased
<1>13. UnpaidOf(k, p) = 0
  BY <1>7, EmptyPanel
<1>14. BooksEntered(c, i, b, cp, p, cps, ps, none, 0, s, 0)
  <2>1. \A m \in ContinuousMembers : none[m] = Released(cp0, p, cp, p)[m] /\ none[m] \in Int
    BY <1>12 DEF none
  <2>2. 0 = 0 + SumFunctionOnSet(Released(cp0, p, cp, p), ContinuousMembers)
              + UnpaidOf(k, p) - UnpaidOf(k, p)
    BY <1>12, <1>13
  <2>3. s + cp.slash = k.currentStake + cp0.slash
    <3>. DEFINE cs == k.currentStake
    <3>1. s = cs - lost /\ cs \in Nat /\ cp.slash = lost /\ cp0.slash = 0
      BY <1>3, <1>5, <1>7
    <3>. HIDE DEF cs, s
    <3>2. s + cp.slash = cs + cp0.slash
      BY <1>4, <3>1
    <3>. QED BY <3>2 DEF cs
  <2>4. credited' = credited + 0
    <3>1. credited \in Int
      BY Best0
    <3>. QED BY <1>1, <3>1
  <2>. HIDE DEF s
  <2>. QED BY <1>1, <1>3, <1>5, <1>6, <1>8, <1>10, <1>11, <2>1, <2>2, <2>3, <2>4
           DEF BooksEntered, k, p, cp0
<1>. HIDE DEF s
<1>. QED BY <1>14, BooksStep

-----------------------------------------------------------------------------
\* A verifier of the open panel of a checkpoint votes: the panel p.
VoteGiven(c, i, v, vote, p) ==
  /\ c \in ContractIds /\ i \in CheckpointIndices /\ v \in ContinuousMembers
  /\ vote \in {"Approved", "Rejected"}
  /\ contracts[c].status = "Active" /\ checkpoints[c][i].status = "Verifying"
  /\ panels[c][i][v].vote = "Pending"
  /\ p = [panels[c][i] EXCEPT ![v] = [panels[c][i][v] EXCEPT !.vote = vote]]

\* What a vote changes on its panel.
LEMMA VoteCounts ==
  ASSUME ContinuousInv, NEW c, NEW i, NEW v, NEW vote, NEW p, VoteGiven(c, i, v, vote, p)
  PROVE  /\ p \in PanelType /\ Seated(p) = Seated(panels[c][i]) /\ v \in Seated(p)
         /\ \A m \in ContinuousMembers : p[m].stake = panels[c][i][m].stake
         /\ \A m \in ContinuousMembers : p[m].vote = "None" => p[m].stake = 0
         /\ UnpaidOf(contracts[c], panels[c][i]) = 0
         /\ checkpoints[c][i].slash = 0
         /\ AtWork(c, i)
<1>. DEFINE cp0 == checkpoints[c][i]
            p0 == panels[c][i]
            seat == [p0[v] EXCEPT !.vote = vote]
<1>1. /\ v \in ContinuousMembers /\ vote \in {"Approved", "Rejected"}
      /\ cp0.status = "Verifying" /\ p0[v].vote = "Pending" /\ p = [p0 EXCEPT ![v] = seat]
      /\ AtWork(c, i)
  BY DEF VoteGiven, AtWork
<1>2. p0 \in PanelType /\ PanelSound(cp0, p0)
  BY <1>1, Working
<1>. HIDE DEF cp0, p0
<1>3. p0[v] \in VoteType
  BY <1>1, <1>2 DEF PanelType
<1>4. seat \in VoteType /\ seat.stake = p0[v].stake /\ seat.vote = vote
  BY <1>1, <1>3 DEF VoteType
<1>. HIDE DEF seat
<1>5. p \in PanelType /\ p[v] = seat /\ \A m \in ContinuousMembers \ {v} : p[m] = p0[m]
  BY <1>1, <1>2, <1>4 DEF PanelType
<1>6. \A m \in ContinuousMembers : p[m].stake = p0[m].stake
                                   /\ (p[m].vote = "None" <=> p0[m].vote = "None")
  BY <1>1, <1>4, <1>5
<1>7. Seated(p) = Seated(p0) /\ v \in Seated(p)
  BY <1>1, <1>6 DEF Seated
<1>8. \A m \in ContinuousMembers : p[m].vote = "None" => p[m].stake = 0
  BY <1>2, <1>6 DEF PanelSound
<1>9. With(p0, "Pending") # {} /\ cp0.slash = 0
  BY <1>1, <1>2 DEF PanelSound
<1>10. UnpaidOf(contracts[c], p0) = 0
  BY <1>9 DEF UnpaidOf, HasPassed
<1>. QED BY <1>1, <1>5, <1>6, <1>7, <1>8, <1>9, <1>10 DEF cp0, p0

\* No vote of a panel is pending: it is counted.
LEMMA PanelCounted ==
  ASSUME NEW k, NEW p, p \in PanelType, With(p, "Pending") = {},
         Cardinality(Seated(p)) = k.required
  PROVE  FullPanel(k, p)
<1>. DEFINE A == With(p, "Approved")
            R == With(p, "Rejected")
<1>1. A \cup R = Seated(p) /\ A \cap R = {}
  <2>1. \A m \in ContinuousMembers : p[m].vote \in {"None", "Pending", "Approved", "Rejected"}
    BY DEF PanelType, VoteType
  <2>2. \A m \in ContinuousMembers : p[m].vote # "Pending"
    BY DEF With
  <2>. QED BY <2>1, <2>2 DEF With, Seated
<1>2. IsFiniteSet(A) /\ IsFiniteSet(R)
  BY ContinuousSets, FS_Subset DEF With
<1>. HIDE DEF A, R
<1>3. /\ Cardinality(A) \in Nat /\ Cardinality(R) \in Nat
      /\ Cardinality(A \cup R) = Cardinality(A) + Cardinality(R) - Cardinality(A \cap R)
  BY <1>2, FS_CardinalityType, FS_Union
<1>4. Cardinality(A \cap R) = 0
  BY <1>1, FS_EmptySet
<1>5. Cardinality(Seated(p)) = Cardinality(A) + Cardinality(R)
  <2>. DEFINE x == Cardinality(A)
              y == Cardinality(R)
              z == Cardinality(A \cup R)
  <2>1. x \in Nat /\ y \in Nat /\ z = x + y - Cardinality(A \cap R)
    BY <1>3
  <2>2. Cardinality(Seated(p)) = z
    BY <1>1
  <2>. HIDE DEF x, y, z
  <2>3. z = x + y
    BY <1>4, <2>1
  <2>. QED BY <2>2, <2>3 DEF x, y
<1>. QED BY <1>3, <1>5 DEF FullPanel, A, R

\* Judging a checkpoint gives every stake of its panel back.
Judged(cp0, p0, cp, p) ==
  /\ p0 \in PanelType /\ p \in PanelType
  /\ cp0.status = "Verifying" /\ cp.status # "Verifying"
  /\ \A m \in ContinuousMembers : p[m].stake = p0[m].stake

\* A judged panel gets its stakes back, or loses them: none stays held.
LEMMA PanelReleased ==
  ASSUME NEW cp0, NEW p0, NEW cp, NEW p, Judged(cp0, p0, cp, p)
  PROVE  /\ \A m \in ContinuousMembers : Released(cp0, p0, cp, p)[m] = StakesOf(p)[m]
         /\ SumFunctionOnSet(Released(cp0, p0, cp, p), ContinuousMembers)
              = SumFunctionOnSet(StakesOf(p), ContinuousMembers)
<1>1. ASSUME NEW m \in ContinuousMembers
      PROVE  Released(cp0, p0, cp, p)[m] = StakesOf(p)[m]
  <2>1. VoteHeld(cp0, p0, m) = p[m].stake /\ VoteHeld(cp, p, m) = 0
    BY DEF VoteHeld, Judged
  <2>0. p \in PanelType
    BY DEF Judged
  <2>2. p[m].stake \in Nat /\ StakesOf(p)[m] = p[m].stake
    BY <2>0, StakesInt
  <2>3. Released(cp0, p0, cp, p)[m] = VoteHeld(cp0, p0, m) - VoteHeld(cp, p, m)
    BY DEF Released
  <2>. QED BY <2>1, <2>2, <2>3
<1>2. Released(cp0, p0, cp, p) = StakesOf(p)
  BY <1>1 DEF Released, StakesOf
<1>. QED BY <1>1, <1>2

\* A vote that is not the last.
LEMMA OpenVoteKeeps ==
  ASSUME ContinuousInv, NEW c, NEW i, NEW v, NEW vote, NEW p, VoteGiven(c, i, v, vote, p),
         panels' = [panels EXCEPT ![c] = [panels[c] EXCEPT ![i] = p]],
         With(p, "Pending") # {},
         UNCHANGED <<continuousNow, contracts, continuousBids, best, checkpoints,
                     agentActiveStake, continuousTreasury, continuousBalance, credited>>
  PROVE  ContinuousInv'
<1>. DEFINE cp0 == checkpoints[c][i]
            p0 == panels[c][i]
            k == contracts[c]
<1>1. /\ p \in PanelType /\ AtWork(c, i) /\ UnpaidOf(k, p0) = 0 /\ cp0.slash = 0
      /\ \A m \in ContinuousMembers : p[m].stake = p0[m].stake
      /\ \A m \in ContinuousMembers : p[m].vote = "None" => p[m].stake = 0
  BY VoteCounts
<1>2. /\ c \in ContractIds /\ i \in CheckpointIndices /\ cp0 \in CheckpointType
      /\ checkpoints \in [ContractIds -> [CheckpointIndices -> CheckpointType]]
      /\ panels \in [ContractIds -> [CheckpointIndices -> PanelType]]
  BY <1>1, Working
<1>3. cp0.status = "Verifying"
  BY DEF VoteGiven
<1>4. UnpaidOf(k, p) = 0
  BY DEF UnpaidOf, HasPassed
<1>5. RowWritten(panels, panels', PanelType, c, i, p)
  BY <1>1, <1>2 DEF RowWritten
<1>6. /\ Becomes(panels, panels', PanelRows, c, panels'[c])
      /\ RowChanged(panels[c], panels'[c], PanelType, i, p)
  BY <1>5, RowWrite DEF PanelRows
<1>7. /\ Becomes(checkpoints, checkpoints', CheckpointRows, c, checkpoints'[c])
      /\ RowChanged(checkpoints[c], checkpoints'[c], CheckpointType, i, cp0)
  BY <1>2, RowKept DEF CheckpointRows
<1>8. PanelSound(cp0, p)
  <2>. HIDE DEF cp0
  <2>. QED BY <1>1, <1>3 DEF PanelSound
<1>9. \A m \in ContinuousMembers : VoteHeld(cp0, p, m) = VoteHeld(cp0, p0, m)
  BY <1>1 DEF VoteHeld
<1>10. QuietStep(c, i, cp0, p)
  BY <1>1, <1>2, <1>4, <1>6, <1>7, <1>8, <1>9 DEF QuietStep
<1>. HIDE DEF cp0
<1>. QED BY <1>10, OneQuietStep

\* The last vote of a panel: the checkpoint becomes cp and the books b are
\* entered.
Judgement(c, i, v, vote, p, cp, b, s) ==
  /\ VoteGiven(c, i, v, vote, p)
  /\ panels' = [panels EXCEPT ![c] = [panels[c] EXCEPT ![i] = p]]
  /\ checkpoints' = [checkpoints EXCEPT ![c] = [checkpoints[c] EXCEPT ![i] = cp]]
  /\ cp \in CheckpointType /\ cp.status \in {"Passed", "Failed"}
  /\ cp.status = "Passed" => cp.slash = 0
  /\ Carries(b, contracts[c], SumFunctionOnSet(StakesOf(p), ContinuousMembers)
                                - UnpaidOf(contracts[c], p), s)
  /\ UnpaidOf(contracts[c], p) \in Int
  /\ s + cp.slash = contracts[c].currentStake
  /\ Continuous!Enter(c, b, StakesOf(p))
  /\ UNCHANGED <<continuousNow, continuousBids, best, credited>>

\* The last vote, whatever the verdict: the books it enters are carried.
LEMMA JudgementKeeps ==
  ASSUME ContinuousInv, NEW c, NEW i, NEW v, NEW vote, NEW p, NEW cp, NEW b, NEW s,
         Judgement(c, i, v, vote, p, cp, b, s)
  PROVE  ContinuousInv'
<1>. DEFINE cp0 == checkpoints[c][i]
            p0 == panels[c][i]
            k == contracts[c]
            cps == checkpoints'[c]
            ps == panels'[c]
            e == Released(cp0, p0, cp, p)
            w == SumFunctionOnSet(StakesOf(p), ContinuousMembers) - UnpaidOf(k, p)
<1>0. VoteGiven(c, i, v, vote, p)
  BY DEF Judgement
<1>1. /\ p \in PanelType /\ AtWork(c, i) /\ UnpaidOf(k, p0) = 0 /\ cp0.slash = 0
      /\ \A m \in ContinuousMembers : p[m].stake = p0[m].stake
      /\ \A m \in ContinuousMembers : p[m].vote = "None" => p[m].stake = 0
  BY <1>0, VoteCounts
<1>2. /\ c \in ContractIds /\ i \in CheckpointIndices /\ cp0 \in CheckpointType /\ p0 \in PanelType
      /\ k.status \notin BeforeWork /\ k.agent \in ContinuousAgents /\ k.currentStake \in Nat
      /\ checkpoints \in [ContractIds -> [CheckpointIndices -> CheckpointType]]
      /\ panels \in [ContractIds -> [CheckpointIndices -> PanelType]]
  BY <1>1, Working
<1>3. /\ cp0.status = "Verifying" /\ cp \in CheckpointType /\ cp.status \in {"Passed", "Failed"}
      /\ cp.status = "Passed" => cp.slash = 0
  BY DEF VoteGiven, Judgement
<1>4. RowWritten(panels, panels', PanelType, c, i, p)
  BY <1>1, <1>2 DEF RowWritten, Judgement
<1>5. RowWritten(checkpoints, checkpoints', CheckpointType, c, i, cp)
  BY <1>2, <1>3 DEF RowWritten, Judgement
<1>6. /\ Becomes(panels, panels', PanelRows, c, ps) /\ RowChanged(panels[c], ps, PanelType, i, p)
  BY <1>4, RowWrite DEF PanelRows
<1>7. /\ Becomes(checkpoints, checkpoints', CheckpointRows, c, cps)
      /\ RowChanged(checkpoints[c], cps, CheckpointType, i, cp)
  BY <1>5, RowWrite DEF CheckpointRows
<1>8. PanelSound(cp, p)
  BY <1>1, <1>3 DEF PanelSound
<1>9. /\ \A m \in ContinuousMembers : e[m] = StakesOf(p)[m]
      /\ SumFunctionOnSet(e, ContinuousMembers) = SumFunctionOnSet(StakesOf(p), ContinuousMembers)
  <2>1. cp.status # "Verifying"
    BY <1>3
  <2>2. Judged(cp0, p0, cp, p)
    BY <1>1, <1>2, <1>3, <2>1 DEF Judged
  <2>. HIDE DEF cp0, p0
  <2>. QED BY <2>2, PanelReleased
<1>10. \A m \in ContinuousMembers : StakesOf(p)[m] = e[m] /\ StakesOf(p)[m] \in Int
  BY <1>1, <1>9, StakesInt
<1>11. w = 0 + SumFunctionOnSet(e, ContinuousMembers) + UnpaidOf(k, p0) - UnpaidOf(k, p)
  <2>. DEFINE all == SumFunctionOnSet(StakesOf(p), ContinuousMembers)
              u == UnpaidOf(k, p)
  <2>1. all \in Int /\ u \in Int
    BY <1>1, StakesInt DEF Judgement
  <2>2. SumFunctionOnSet(e, ContinuousMembers) = all /\ UnpaidOf(k, p0) = 0
    BY <1>1, <1>9
  <2>. HIDE DEF all, u, e
  <2>3. all - u = 0 + all + 0 - u
    BY <2>1
  <2>. QED BY <2>2, <2>3 DEF all, u
<1>12. s + cp.slash = k.currentStake + cp0.slash
  <2>. DEFINE cs == k.currentStake
              sl0 == cp0.slash
  <2>1. s + cp.slash = cs /\ cs \in Nat /\ sl0 = 0
    BY <1>1, <1>2 DEF Judgement
  <2>. HIDE DEF cs, sl0
  <2>2. s + cp.slash = cs + sl0
    BY <2>1
  <2>. QED BY <2>2 DEF cs, sl0
<1>13. credited' = credited + 0
  <2>1. credited \in Int
    BY <1>2, Best0
  <2>. QED BY <2>1 DEF Judgement
<1>14. Carries(b, k, w, s) /\ Continuous!Enter(c, b, StakesOf(p))
       /\ UNCHANGED <<continuousNow, continuousBids, best>>
  BY DEF Judgement
<1>. HIDE DEF w, cps, ps
<1>15. BooksEntered(c, i, b, cp, p, cps, ps, StakesOf(p), w, s, 0)
  BY <1>1, <1>2, <1>3, <1>6, <1>7, <1>8, <1>10, <1>11, <1>12, <1>13, <1>14 DEF BooksEntered
<1>. QED BY <1>15, BooksStep

-----------------------------------------------------------------------------
\* The slash of a failure is no more than the stake.
LEMMA FailShare ==
  ASSUME NEW k \in ContractType
  PROVE  Continuous!Share(k.currentStake, Continuous!FailSlashBps) \in Nat
         /\ Continuous!Share(k.currentStake, Continuous!FailSlashBps) <= k.currentStake
         /\ k.currentStake \in Nat
<1>. DEFINE cs == k.currentStake
<1>1. cs \in Nat
  BY DEF ContractType
<1>2. IsShare(cs, Continuous!FailSlashBps)
  BY <1>1 DEF IsShare, Parts, Continuous!FailSlashBps
<1>. HIDE DEF cs
<1>3. Continuous!Share(cs, Continuous!FailSlashBps) \in Nat
      /\ Continuous!Share(cs, Continuous!FailSlashBps) <= cs
  BY <1>2, ShareBounds
<1>. QED BY <1>1, <1>3 DEF cs

\* The last vote approves.
LEMMA PassedKeeps ==
  ASSUME ContinuousInv, NEW c, NEW i, NEW v, NEW vote, NEW p, VoteGiven(c, i, v, vote, p),
         panels' = [panels EXCEPT ![c] = [panels[c] EXCEPT ![i] = p]],
         With(p, "Pending") = {}, Cardinality(Seated(p)) = contracts[c].required,
         Cardinality(With(p, "Approved")) > Cardinality(With(p, "Rejected")),
         checkpoints' = [checkpoints EXCEPT ![c][i].status = "Passed"],
         Continuous!Enter(c, Continuous!EvaluatePass(contracts[c], p), StakesOf(p)),
         UNCHANGED <<continuousNow, continuousBids, best, credited>>
  PROVE  ContinuousInv'
<1>. DEFINE cp0 == checkpoints[c][i]
            k == contracts[c]
            cp == [cp0 EXCEPT !.status = "Passed"]
            b == Continuous!EvaluatePass(k, p)
            all == SumFunctionOnSet(StakesOf(p), ContinuousMembers)
            rf == Cardinality(With(p, "Rejected")) * Continuous!FeePerVerifier(k)
            s == k.currentStake
<1>1. p \in PanelType /\ AtWork(c, i) /\ cp0.slash = 0 /\ v \in Seated(p)
  BY VoteCounts
<1>2. /\ c \in ContractIds /\ i \in CheckpointIndices /\ cp0 \in CheckpointType
      /\ k \in ContractType /\ k.status \notin BeforeWork /\ k.total > 0 /\ k.required > 0
      /\ s \in Nat
      /\ checkpoints \in [ContractIds -> [CheckpointIndices -> CheckpointType]]
  BY <1>1, Working
<1>3. cp \in CheckpointType /\ cp.status = "Passed" /\ cp.slash = 0
  <2>. HIDE DEF cp0
  <2>. QED BY <1>1, <1>2 DEF CheckpointType, CheckpointStatus
<1>4. FullPanel(k, p)
  BY <1>1, PanelCounted
<1>5. UnpaidOf(k, p) = rf
  BY <1>1 DEF UnpaidOf, HasPassed
<1>6. rf \in Int /\ all \in Int
  <2>. DEFINE R == Cardinality(With(p, "Rejected"))
              fee == Continuous!FeePerVerifier(k)
  <2>1. R \in Nat
    BY <1>4 DEF FullPanel
  <2>2. fee \in Int
    BY <1>2, FeeInt
  <2>. HIDE DEF R, fee
  <2>3. R * fee \in Int
    BY <2>1, <2>2
  <2>. QED BY <1>1, <2>3, StakesInt DEF R, fee
<1>7. Carries(b, k, 0 - rf + all, s)
  <2>. HIDE DEF k
  <2>. QED BY <1>2, <1>4, PassCarries
<1>8. 0 - rf + all = all - rf /\ s + cp.slash = s
  <2>. HIDE DEF rf, all, s, cp
  <2>1. s + 0 = s /\ 0 - rf + all = all - rf
    BY <1>2, <1>6
  <2>. QED BY <1>3, <2>1
<1>9. checkpoints' = [checkpoints EXCEPT ![c] = [checkpoints[c] EXCEPT ![i] = cp]]
  OBVIOUS
<1>10. Judgement(c, i, v, vote, p, cp, b, s)
  <2>1. Carries(b, k, all - UnpaidOf(k, p), s)
    <3>. HIDE DEF rf, all, s, k, b
    <3>. QED BY <1>5, <1>7, <1>8
  <2>2. UnpaidOf(k, p) \in Int
    BY <1>5, <1>6
  <2>. HIDE DEF cp, b, s
  <2>. QED BY <1>3, <1>8, <1>9, <2>1, <2>2 DEF Judgement, s, b
<1>. HIDE DEF cp, b, s
<1>. QED BY <1>10, JudgementKeeps

\* The last vote rejects.
LEMMA FailedKeeps ==
  ASSUME ContinuousInv, NEW c, NEW i, NEW v, NEW vote, NEW p, VoteGiven(c, i, v, vote, p),
         panels' = [panels EXCEPT ![c] = [panels[c] EXCEPT ![i] = p]],
         ~(Cardinality(With(p, "Approved")) > Cardinality(With(p, "Rejected"))),
         checkpoints' = [checkpoints EXCEPT ![c][i] =
           [status |-> "Failed",
            slash |-> Continuous!Share(contracts[c].currentStake, Continuous!FailSlashBps)]],
         Continuous!Enter(c, Continuous!EvaluateFail(contracts[c], p), StakesOf(p)),
         UNCHANGED <<continuousNow, continuousBids, best, credited>>
  PROVE  ContinuousInv'
<1>. DEFINE k == contracts[c]
            slash == Continuous!Share(k.currentStake, Continuous!FailSlashBps)
            cp == [status |-> "Failed", slash |-> slash]
            b == Continuous!EvaluateFail(k, p)
            all == SumFunctionOnSet(StakesOf(p), ContinuousMembers)
            s == k.currentStake - slash
<1>1. p \in PanelType /\ AtWork(c, i)
  BY VoteCounts
<1>2. /\ c \in ContractIds /\ i \in CheckpointIndices
      /\ k \in ContractType /\ k.status \notin BeforeWork /\ k.currentStake \in Nat
      /\ checkpoints \in [ContractIds -> [CheckpointIndices -> CheckpointType]]
  BY <1>1, Working
<1>3. slash \in Nat
  BY <1>2, FailShare
<1>4. cp \in CheckpointType /\ cp.status = "Failed" /\ cp.slash = slash
  <2>. HIDE DEF slash
  <2>. QED BY <1>3 DEF CheckpointType, CheckpointStatus
<1>5. UnpaidOf(k, p) = 0 /\ all \in Int
  BY <1>1, StakesInt DEF UnpaidOf, HasPassed
<1>6. Carries(b, k, all, s)
  <2>. HIDE DEF k
  <2>. QED BY <1>1, <1>2, FailCarries
<1>7. all = all - 0 /\ s + cp.slash = k.currentStake
  <2>. DEFINE cs == k.currentStake
  <2>1. s = cs - slash /\ cs \in Nat
    BY <1>2
  <2>. HIDE DEF cs, slash, all, cp, s
  <2>2. all = all - 0 /\ s + cp.slash = cs
    BY <1>3, <1>4, <1>5, <2>1
  <2>. QED BY <2>2 DEF cs
<1>8. checkpoints' = [checkpoints EXCEPT ![c] = [checkpoints[c] EXCEPT ![i] = cp]]
  OBVIOUS
<1>9. Judgement(c, i, v, vote, p, cp, b, s)
  <2>1. Carries(b, k, all - UnpaidOf(k, p), s)
    <3>. HIDE DEF all, s, k, b
    <3>. QED BY <1>5, <1>6, <1>7
  <2>2. Continuous!Enter(c, b, StakesOf(p))
    OBVIOUS
  <2>3. UnpaidOf(k, p) \in Int
    BY <1>5
  <2>4. cp.status \in {"Passed", "Failed"} /\ (cp.status = "Passed" => cp.slash = 0)
    BY <1>4
  <2>. HIDE DEF cp, b, s
  <2>. QED BY <1>4, <1>7, <1>8, <2>1, <2>2, <2>3, <2>4 DEF Judgement
<1>. HIDE DEF cp, b, s
<1>. QED BY <1>9, JudgementKeeps

\* submitCheckpointVerification.
LEMMA VerificationKeeps ==
  ASSUME ContinuousInv, NEW c \in ContractIds, NEW i \in CheckpointIndices,
         NEW v \in ContinuousVerifiers, NEW vote \in {"Approved", "Rejected"},
         Continuous!SubmitCheckpointVerification(c, i, v, vote)
  PROVE  ContinuousInv'
<1>. DEFINE k == contracts[c]
            p0 == panels[c][i]
            p == [p0 EXCEPT ![v] = [p0[v] EXCEPT !.vote = vote]]
<1>1. VoteGiven(c, i, v, vote, p)
  BY DEF Continuous!SubmitCheckpointVerification, VoteGiven, ContinuousMembers
<1>2. /\ p \in PanelType /\ Seated(p) = Seated(p0)
  <2>. HIDE DEF p
  <2>. QED BY <1>1, VoteCounts
<1>3. /\ panels' = [panels EXCEPT ![c] = [panels[c] EXCEPT ![i] = p]]
      /\ UNCHANGED <<continuousNow, continuousBids, best, credited>>
  BY DEF Continuous!SubmitCheckpointVerification, Continuous!auctionVars, Continuous!disputeVars
<1>4. \/ /\ Continuous!Open(p)
         /\ UNCHANGED <<contracts, checkpoints, agentActiveStake, continuousTreasury,
                        continuousBalance>>
      \/ /\ ~Continuous!Open(p) /\ Continuous!Cardinality(Continuous!Panel(c, i)) = k.required
         /\ Continuous!Approves(p)
         /\ checkpoints' = [checkpoints EXCEPT ![c][i].status = "Passed"]
         /\ Continuous!Enter(c, Continuous!EvaluatePass(k, p), StakesOf(p))
      \/ /\ ~Continuous!Approves(p)
         /\ checkpoints' = [checkpoints EXCEPT ![c][i] =
              [status |-> "Failed",
               slash |-> Continuous!Share(k.currentStake, Continuous!FailSlashBps)]]
         /\ Continuous!Enter(c, Continuous!EvaluateFail(k, p), StakesOf(p))
  BY ContinuousSets DEF Continuous!SubmitCheckpointVerification, StakesOf
<1>. HIDE DEF p
<1>5. /\ \A x : Continuous!Votes(p, x) = With(p, x)
      /\ Continuous!Panel(c, i) = Seated(p)
  BY <1>2, ContinuousSets DEF Continuous!Votes, With, PanelType, Continuous!Panel, Seated
<1>6. /\ Continuous!Open(p) <=> With(p, "Pending") # {}
      /\ Continuous!Approves(p)
           <=> Cardinality(With(p, "Approved")) > Cardinality(With(p, "Rejected"))
      /\ Continuous!Cardinality(Continuous!Panel(c, i)) = Cardinality(Seated(p))
  BY <1>5, ContinuousCardinality DEF Continuous!Open, Continuous!Approves
<1>7. CASE /\ Continuous!Open(p)
           /\ UNCHANGED <<contracts, checkpoints, agentActiveStake, continuousTreasury,
                          continuousBalance>>
  BY <1>1, <1>3, <1>6, <1>7, OpenVoteKeeps
<1>8. CASE /\ ~Continuous!Open(p)
           /\ Continuous!Cardinality(Continuous!Panel(c, i)) = k.required
           /\ Continuous!Approves(p)
           /\ checkpoints' = [checkpoints EXCEPT ![c][i].status = "Passed"]
           /\ Continuous!Enter(c, Continuous!EvaluatePass(k, p), StakesOf(p))
  BY <1>1, <1>3, <1>6, <1>8, PassedKeeps
<1>9. CASE /\ ~Continuous!Approves(p)
           /\ checkpoints' = [checkpoints EXCEPT ![c][i] =
                [status |-> "Failed",
                 slash |-> Continuous!Share(k.currentStake, Continuous!FailSlashBps)]]
           /\ Continuous!Enter(c, Continuous!EvaluateFail(k, p), StakesOf(p))
  BY <1>1, <1>3, <1>6, <1>9, FailedKeeps
<1>. QED BY <1>4, <1>7, <1>8, <1>9

-----------------------------------------------------------------------------
\* A dispute turns the judged checkpoint into cp; cr is credited.
Correction(c, i, cp, b, s, cr) ==
  /\ AtWork(c, i) /\ checkpoints[c][i].status \in {"Passed", "Failed"}
  /\ cp \in CheckpointType /\ cp.status \in {"Passed", "Failed"}
  /\ cp.status = "Passed" => cp.slash = 0
  /\ checkpoints' = [checkpoints EXCEPT ![c] = [checkpoints[c] EXCEPT ![i] = cp]]
  /\ Carries(b, contracts[c], cr, s)
  /\ s + cp.slash = contracts[c].currentStake + checkpoints[c][i].slash
  /\ Continuous!Enter(c, b, [m \in ContinuousMembers |-> 0])
  /\ cr \in Int /\ credited' = credited + cr
  /\ UNCHANGED <<continuousNow, continuousBids, best, panels>>

\* A correction by the council, whatever it enters.
LEMMA CorrectionKeeps ==
  ASSUME ContinuousInv, NEW c, NEW i, NEW cp, NEW b, NEW s, NEW cr,
         Correction(c, i, cp, b, s, cr)
  PROVE  ContinuousInv'
<1>. DEFINE cp0 == checkpoints[c][i]
            p == panels[c][i]
            k == contracts[c]
            cps == checkpoints'[c]
            ps == panels'[c]
            e == Released(cp0, p, cp, p)
            none == [m \in ContinuousMembers |-> 0]
<1>1. /\ c \in ContractIds /\ i \in CheckpointIndices /\ cp0 \in CheckpointType /\ p \in PanelType
      /\ k.status \notin BeforeWork /\ k.agent \in ContinuousAgents /\ k \in ContractType
      /\ k.total > 0 /\ k.required > 0 /\ PanelSound(cp0, p)
      /\ checkpoints \in [ContractIds -> [CheckpointIndices -> CheckpointType]]
      /\ panels \in [ContractIds -> [CheckpointIndices -> PanelType]]
  BY Working DEF Correction
<1>2. /\ cp0.status \in {"Passed", "Failed"} /\ cp \in CheckpointType
      /\ cp.status \in {"Passed", "Failed"}
      /\ cp.status = "Passed" => cp.slash = 0
  BY DEF Correction
<1>3. RowWritten(checkpoints, checkpoints', CheckpointType, c, i, cp)
  BY <1>1, <1>2 DEF RowWritten, Correction
<1>4. /\ Becomes(checkpoints, checkpoints', CheckpointRows, c, cps)
      /\ RowChanged(checkpoints[c], cps, CheckpointType, i, cp)
  BY <1>3, RowWrite DEF CheckpointRows
<1>5. /\ Becomes(panels, panels', PanelRows, c, ps) /\ RowChanged(panels[c], ps, PanelType, i, p)
  <2>1. panels' = panels
    BY DEF Correction
  <2>. QED BY <1>1, <2>1, RowKept DEF PanelRows
<1>6. PanelSound(cp, p)
  <2>. HIDE DEF cp0, p
  <2>. QED BY <1>1, <1>2 DEF PanelSound
<1>7. /\ \A m \in ContinuousMembers : e[m] = 0
      /\ SumFunctionOnSet(e, ContinuousMembers) = 0
  <2>1. \A m \in ContinuousMembers : VoteHeld(cp, p, m) = 0 /\ VoteHeld(cp0, p, m) = 0
    BY <1>2 DEF VoteHeld
  <2>2. \A m \in ContinuousMembers : /\ VoteHeld(cp, p, m) = VoteHeld(cp0, p, m)
                                      /\ VoteHeld(cp, p, m) \in Int
    BY <2>1
  <2>. HIDE DEF cp0, p
  <2>. QED BY <2>2, NothingReleased
<1>8. UnpaidOf(k, p) \in Int
  <2>. HIDE DEF cp0, p, k
  <2>. QED BY <1>1, UnpaidInt
<1>9. cr = cr + SumFunctionOnSet(e, ContinuousMembers) + UnpaidOf(k, p) - UnpaidOf(k, p)
      /\ cr \in Int
  <2>. DEFINE u == UnpaidOf(k, p)
              se == SumFunctionOnSet(e, ContinuousMembers)
  <2>1. u \in Int /\ se = 0 /\ cr \in Int
    BY <1>7, <1>8 DEF Correction
  <2>. HIDE DEF u, se
  <2>2. cr = cr + se + u - u
    BY <2>1
  <2>. QED BY <2>1, <2>2 DEF u, se
<1>10. \A m \in ContinuousMembers : none[m] = e[m] /\ none[m] \in Int
  BY <1>7
<1>11. /\ Carries(b, k, cr, s) /\ Continuous!Enter(c, b, none)
       /\ s + cp.slash = k.currentStake + cp0.slash /\ credited' = credited + cr
       /\ UNCHANGED <<continuousNow, continuousBids, best>>
  BY DEF Correction
<1>. HIDE DEF cps, ps, none
<1>12. BooksEntered(c, i, b, cp, p, cps, ps, none, cr, s, cr)
  BY <1>1, <1>2, <1>4, <1>5, <1>6, <1>9, <1>10, <1>11 DEF BooksEntered
<1>. HIDE DEF p
<1>. QED BY <1>12, BooksStep

\* The books of a correction in favour of the agent.
RightedBooks(k, slash, taken, withheld, out, fee) ==
  [Continuous!Books(k) EXCEPT
     !.k.currentStake = @ + slash, !.k.escrow = @ - taken, !.k.bond = @ + withheld,
     !.k.failed = @ - 1, !.out = out, !.fees = fee]

\* The books of a failure that is taken back.
LEMMA RightedCarries ==
  ASSUME NEW k \in ContractType, k.status \notin BeforeWork, NEW slash \in Nat,
         NEW taken \in Int, NEW withheld \in Int, NEW fee \in Int, NEW payout \in Int
  PROVE  Carries(RightedBooks(k, slash, taken, withheld, payout - withheld, fee), k,
                 slash + payout + fee - taken, k.currentStake + slash)
<1>. DEFINE r == RightedBooks(k, slash, taken, withheld, payout - withheld, fee)
            es == k.escrow
            bo == k.bond
            cs == k.currentStake
            left == es - taken
            kept == bo + withheld
            stake == cs + slash
            missed == k.failed - 1
            new == [k EXCEPT !.currentStake = stake, !.escrow = left, !.bond = kept,
                      !.failed = missed]
<1>1. es \in Int /\ bo \in Int /\ cs \in Nat /\ k.failed \in Int
  BY DEF ContractType
<1>2. /\ left \in Int /\ kept \in Int /\ stake \in Nat /\ missed \in Int
  <2>. HIDE DEF es, bo, cs
  <2>. QED BY <1>1
<1>3. /\ r.k = new /\ r.out = payout - withheld /\ r.fees = fee /\ r.home = 0
      /\ DOMAIN r = {"k", "out", "fees", "home"}
  BY DEF RightedBooks, Continuous!Books
<1>4. /\ SameTerms(k, new) /\ new.escrow = left /\ new.bond = kept /\ new.currentStake = stake
  <2>. HIDE DEF left, kept, stake, missed
  <2>. DEFINE k1 == [k EXCEPT !.currentStake = stake]
              k2 == [k1 EXCEPT !.escrow = left]
              k3 == [k2 EXCEPT !.bond = kept]
  <2>1. k1 \in ContractType
    BY <1>2, ContractField
  <2>2. k2 \in ContractType
    <3>. HIDE DEF k1
    <3>. QED BY <1>2, <2>1, ContractField
  <2>3. k3 \in ContractType
    <3>. HIDE DEF k2
    <3>. QED BY <1>2, <2>2, ContractField
  <2>4. new \in ContractType
    <3>1. new = [k3 EXCEPT !.failed = missed]
      OBVIOUS
    <3>. HIDE DEF k3, new
    <3>. QED BY <1>2, <2>3, <3>1, ContractField
  <2>5. /\ new.escrow = left /\ new.bond = kept /\ new.currentStake = stake
        /\ new.status = k.status /\ new.agent = k.agent /\ new.bounty = k.bounty
        /\ new.total = k.total /\ new.required = k.required
    BY DEF ContractType
  <2>. HIDE DEF new
  <2>. QED BY <2>4, <2>5 DEF SameTerms
<1>. DEFINE n == Funds(k)
<1>5. n = es + bo + cs
  BY DEF Funds
<1>6. Funds(r.k) = left + kept + stake /\ r.k.currentStake = stake
  <2>1. Funds(new) = new.escrow + new.bond + new.currentStake
    BY DEF Funds
  <2>. HIDE DEF new, r, left, kept, stake
  <2>. QED BY <1>3, <1>4, <2>1
<1>7. left = es - taken /\ kept = bo + withheld /\ stake = cs + slash
  OBVIOUS
<1>. HIDE DEF n, es, bo, cs, r, new, left, kept, stake
<1>8. /\ r.out + r.fees + Funds(r.k) = n + (slash + payout + fee - taken)
      /\ r.home + r.k.currentStake = cs + slash
      /\ r.out \in Int /\ r.fees \in Int /\ r.home \in Int
      /\ slash + payout + fee - taken \in Int /\ cs + slash \in Int
  BY <1>1, <1>2, <1>3, <1>5, <1>6, <1>7
<1>9. Carries(r, k, slash + payout + fee - taken, cs + slash)
  BY <1>3, <1>4, <1>8 DEF Carries, n
<1>. QED BY <1>9 DEF r, cs

\* The books of a correction in favour of the poster.
WrongedBooks(k, slash, revenue) ==
  [Continuous!Books(k) EXCEPT
     !.k.currentStake = @ - slash, !.k.failed = @ + 1, !.k.streak = 0,
     !.out = slash - revenue, !.fees = revenue]

\* The books of a pass that is taken back.
LEMMA WrongedCarries ==
  ASSUME NEW k \in ContractType, k.status \notin BeforeWork, NEW slash \in Nat,
         slash <= k.currentStake, NEW revenue \in Int
  PROVE  OpenBooks(WrongedBooks(k, slash, revenue), k, 0, k.currentStake - slash)
<1>. DEFINE r == WrongedBooks(k, slash, revenue)
            es == k.escrow
            bo == k.bond
            cs == k.currentStake
            stake == cs - slash
            missed == k.failed + 1
            new == [k EXCEPT !.currentStake = stake, !.failed = missed, !.streak = 0]
<1>1. es \in Int /\ bo \in Int /\ cs \in Nat /\ k.failed \in Int /\ slash <= cs
  BY DEF ContractType
<1>2. stake \in Nat /\ missed \in Int
  <2>. HIDE DEF es, bo, cs
  <2>. QED BY <1>1
<1>3. /\ r.k = new /\ r.out = slash - revenue /\ r.fees = revenue /\ r.home = 0
      /\ DOMAIN r = {"k", "out", "fees", "home"}
  BY DEF WrongedBooks, Continuous!Books
<1>4. /\ SameTerms(k, new) /\ new.escrow = es /\ new.bond = bo /\ new.currentStake = stake
  <2>. HIDE DEF stake, missed
  <2>. DEFINE k1 == [k EXCEPT !.currentStake = stake]
              k2 == [k1 EXCEPT !.failed = missed]
  <2>1. k1 \in ContractType
    BY <1>2, ContractField
  <2>2. k2 \in ContractType
    <3>. HIDE DEF k1
    <3>. QED BY <1>2, <2>1, ContractField
  <2>4. new \in ContractType
    <3>1. new = [k2 EXCEPT !.streak = 0]
      OBVIOUS
    <3>. HIDE DEF k2, new
    <3>. QED BY <1>2, <2>2, <3>1, ContractField
  <2>5. /\ new.escrow = k.escrow /\ new.bond = k.bond /\ new.currentStake = stake
        /\ new.status = k.status /\ new.agent = k.agent /\ new.bounty = k.bounty
        /\ new.total = k.total /\ new.required = k.required
    BY DEF ContractType
  <2>. HIDE DEF new
  <2>. QED BY <2>4, <2>5 DEF SameTerms
<1>. DEFINE n == Funds(k)
<1>5. n = es + bo + cs
  BY DEF Funds
<1>6. Funds(r.k) = es + bo + stake /\ r.k.currentStake = stake
  <2>1. Funds(new) = new.escrow + new.bond + new.currentStake
    BY DEF Funds
  <2>. HIDE DEF new, r, stake
  <2>. QED BY <1>3, <1>4, <2>1
<1>7. stake = cs - slash
  OBVIOUS
<1>. HIDE DEF n, es, bo, cs, r, new, stake
<1>8. /\ r.out + r.fees + Funds(r.k) = n + 0
      /\ r.home + r.k.currentStake = cs - slash
      /\ r.out \in Int /\ r.fees \in Int /\ r.home = 0 /\ r.home \in Int
      /\ cs - slash \in Int
  BY <1>1, <1>2, <1>3, <1>5, <1>6, <1>7
<1>9. OpenBooks(r, k, 0, cs - slash)
  BY <1>3, <1>4, <1>8 DEF OpenBooks, Carries, n
<1>. QED BY <1>9 DEF r, cs

-----------------------------------------------------------------------------
\* The council corrects a failure to a pass.
LEMMA RightedKeeps ==
  ASSUME ContinuousInv, NEW c \in ContractIds, NEW i \in CheckpointIndices,
         Continuous!CorrectToPassed(c, i),
         UNCHANGED <<continuousNow, continuousBids, best, panels>>
  PROVE  ContinuousInv'
<1>. DEFINE k == contracts[c]
            cp0 == checkpoints[c][i]
            cp == [status |-> "Passed", slash |-> 0]
            pp == Continuous!PaymentPerCheckpoint(k)
            fee == Continuous!Share(pp, Continuous!ProtocolFeeBps)
            payout == Continuous!Min({pp - fee, k.escrow})
            taken == Continuous!Min({payout + fee, k.escrow})
            withheld == Continuous!Share(payout, Continuous!CompletionBondBps)
            slash == cp0.slash
            b == RightedBooks(k, slash, taken, withheld, payout - withheld, fee)
            s == k.currentStake + slash
            cr == slash + payout + fee - taken
            none == [m \in ContinuousMembers |-> 0]
<1>1. /\ cp0.status = "Failed" /\ checkpoints' = [checkpoints EXCEPT ![c][i] = cp]
      /\ credited' = credited + slash + payout + fee - taken
      /\ Continuous!Enter(c, b, none)
  BY ContinuousSets DEF Continuous!CorrectToPassed, RightedBooks
<1>2. AtWork(c, i)
  BY <1>1 DEF AtWork
<1>3. /\ k \in ContractType /\ k.status \notin BeforeWork /\ k.total > 0 /\ k.required > 0
      /\ k.currentStake \in Nat /\ slash \in Nat
  BY <1>2, Working
<1>4. pp \in Int /\ k.escrow \in Int
  BY <1>3, FeeInt DEF ContractType
<1>5. fee \in Int
  <2>1. Continuous!ProtocolFeeBps \in Int
    BY DEF Continuous!ProtocolFeeBps
  <2>. HIDE DEF pp
  <2>. QED BY <1>4, <2>1, ShareInt
<1>6. payout \in Int
  <2>. DEFINE x == pp - fee
              y == k.escrow
  <2>1. x \in Int /\ y \in Int
    <3>. HIDE DEF pp, fee
    <3>. QED BY <1>4, <1>5
  <2>. HIDE DEF x, y
  <2>2. Continuous!Min({x, y}) \in Int
    BY <2>1, LesserInt
  <2>. QED BY <2>2 DEF x, y
<1>7. taken \in Int
  <2>. DEFINE x == payout + fee
              y == k.escrow
  <2>1. x \in Int /\ y \in Int
    <3>. HIDE DEF payout, fee
    <3>. QED BY <1>4, <1>5, <1>6
  <2>. HIDE DEF x, y
  <2>2. Continuous!Min({x, y}) \in Int
    BY <2>1, LesserInt
  <2>. QED BY <2>2 DEF x, y
<1>8. withheld \in Int
  <2>1. Continuous!CompletionBondBps \in Int
    BY DEF Continuous!CompletionBondBps
  <2>. HIDE DEF payout
  <2>. QED BY <1>6, <2>1, ShareInt
<1>9. Carries(b, k, cr, s)
  <2>. HIDE DEF k, slash, taken, withheld, fee, payout
  <2>. QED BY <1>3, <1>5, <1>6, <1>7, <1>8, RightedCarries
<1>10. cr \in Int /\ credited' = credited + cr
  <2>1. credited \in Int
    BY Best0
  <2>2. credited' = credited + slash + payout + fee - taken
    BY <1>1
  <2>. HIDE DEF slash, taken, fee, payout
  <2>. QED BY <1>3, <1>5, <1>6, <1>7, <2>1, <2>2
<1>11. cp \in CheckpointType /\ cp.status = "Passed" /\ cp.slash = 0
  BY DEF CheckpointType, CheckpointStatus
<1>12. s + cp.slash = k.currentStake + slash
  <2>1. s \in Int
    <3>. HIDE DEF k, slash
    <3>. QED BY <1>3
  <2>. HIDE DEF s, cp
  <2>2. s + cp.slash = s
    BY <1>11, <2>1
  <2>. QED BY <2>2 DEF s
<1>13. checkpoints' = [checkpoints EXCEPT ![c] = [checkpoints[c] EXCEPT ![i] = cp]]
  BY <1>1
<1>14. cp0.status \in {"Passed", "Failed"}
  BY <1>1
<1>. HIDE DEF cp, b, s, cr
<1>15. Correction(c, i, cp, b, s, cr)
  BY <1>1, <1>2, <1>9, <1>10, <1>11, <1>12, <1>13, <1>14 DEF Correction
<1>. QED BY <1>15, CorrectionKeeps

\* The council corrects a pass to a failure.
LEMMA WrongedKeeps ==
  ASSUME ContinuousInv, NEW c \in ContractIds, NEW i \in CheckpointIndices,
         Continuous!CorrectToFailed(c, i),
         UNCHANGED <<continuousNow, continuousBids, best, panels>>
  PROVE  ContinuousInv'
<1>. DEFINE k == contracts[c]
            cp0 == checkpoints[c][i]
            slash == Continuous!Share(k.currentStake, Continuous!FailSlashBps)
            revenue == Continuous!Share(slash, Continuous!SlashRevenueBps)
            cp == [status |-> "Failed", slash |-> slash]
            q == WrongedBooks(k, slash, revenue)
            b == IF k.status = "Active" THEN Continuous!CheckTermination(q) ELSE q
            s == k.currentStake - slash
            none == [m \in ContinuousMembers |-> 0]
<1>1. /\ cp0.status = "Passed" /\ checkpoints' = [checkpoints EXCEPT ![c][i] = cp]
      /\ credited' = credited
      /\ Continuous!Enter(c, b, none)
  BY ContinuousSets DEF Continuous!CorrectToFailed, WrongedBooks
<1>2. AtWork(c, i)
  BY <1>1 DEF AtWork
<1>3. /\ k \in ContractType /\ k.status \notin BeforeWork
      /\ k.currentStake \in Nat /\ PanelSound(cp0, panels[c][i])
  BY <1>2, Working
<1>4. slash \in Nat /\ slash <= k.currentStake
  BY <1>3, FailShare
<1>5. revenue \in Int
  <2>1. Continuous!SlashRevenueBps \in Int
    BY DEF Continuous!SlashRevenueBps
  <2>2. slash \in Int
    BY <1>4
  <2>. HIDE DEF slash
  <2>. QED BY <2>1, <2>2, ShareInt
<1>6. OpenBooks(q, k, 0, s)
  <2>. HIDE DEF k, slash, revenue
  <2>. QED BY <1>3, <1>4, <1>5, WrongedCarries
<1>7. Carries(b, k, 0, s)
  <2>1. Carries(q, k, 0, s)
    BY <1>6 DEF OpenBooks
  <2>2. Carries(Continuous!CheckTermination(q), k, 0, s)
    <3>. HIDE DEF q, s
    <3>. QED BY <1>6, TerminationCarries
  <2>. HIDE DEF q, s
  <2>. QED BY <2>1, <2>2
<1>8. cp0.slash = 0
  <2>. HIDE DEF cp0
  <2>. QED BY <1>1, <1>3 DEF PanelSound
<1>9. cp \in CheckpointType /\ cp.status = "Failed" /\ cp.slash = slash
  <2>. HIDE DEF slash
  <2>. QED BY <1>4 DEF CheckpointType, CheckpointStatus
<1>10. s + cp.slash = k.currentStake + cp0.slash
  <2>. DEFINE cs == k.currentStake
              sl0 == cp0.slash
  <2>1. s = cs - slash /\ cs \in Nat /\ sl0 = 0 /\ cp.slash = slash
    BY <1>3, <1>8, <1>9
  <2>. HIDE DEF s, cs, sl0, slash, cp
  <2>2. s + cp.slash = cs + sl0
    BY <1>4, <2>1
  <2>. QED BY <2>2 DEF cs, sl0
<1>11. credited' = credited + 0
  <2>1. credited \in Int
    BY Best0
  <2>. QED BY <1>1, <2>1
<1>12. checkpoints' = [checkpoints EXCEPT ![c] = [checkpoints[c] EXCEPT ![i] = cp]]
  BY <1>1
<1>13. cp0.status \in {"Passed", "Failed"}
  BY <1>1
<1>. HIDE DEF cp, b, s
<1>14. Correction(c, i, cp, b, s, 0)
  BY <1>1, <1>2, <1>7, <1>9, <1>10, <1>11, <1>12, <1>13 DEF Correction
<1>. QED BY <1>14, CorrectionKeeps

\* resolveCheckpointDispute, for either side.
LEMMA ResolveDisputeKeeps ==
  ASSUME ContinuousInv, NEW c \in ContractIds, NEW i \in CheckpointIndices,
         NEW inFavor \in BOOLEAN, Continuous!ResolveCheckpointDispute(c, i, inFavor)
  PROVE  ContinuousInv'
<1>1. UNCHANGED <<continuousNow, continuousBids, best, panels>>
  BY DEF Continuous!ResolveCheckpointDispute, Continuous!auctionVars
<1>2. CASE Continuous!CorrectToPassed(c, i)
  BY <1>1, <1>2, RightedKeeps
<1>3. CASE Continuous!CorrectToFailed(c, i)
  BY <1>1, <1>3, WrongedKeeps
<1>4. CASE UNCHANGED <<contracts, checkpoints, posterActiveContracts, agentActiveContinuous,
                       agentActiveStake, agentSlashCooldownEnd, continuousTreasury,
                       continuousBalance, credited>>
  BY <1>1, <1>4 DEF ContinuousInv, ContinuousTypes
<1>. QED BY <1>2, <1>3, <1>4 DEF Continuous!ResolveCheckpointDispute

\* No call leaves the invariant.
LEMMA ContinuousStepKeeps ==
  ASSUME ContinuousInv, [Continuous!Next]_(Continuous!vars)
  PROVE  ContinuousInv'
<1>1. CASE UNCHANGED Continuous!vars
  BY <1>1 DEF ContinuousInv, ContinuousTypes, Continuous!vars
<1>2. CASE Continuous!Tick
  BY <1>2, TickKeeps
<1>3. CASE Continuous!WithdrawProtocolFees
  BY <1>3, FeesWithdrawnKeep
<1>4. ASSUME NEW c \in ContractIds, Continuous!ContractStep(c)
      PROVE  ContinuousInv'
  <2>1. ASSUME NEW terms \in ContinuousTerms, Continuous!CreateContinuousContract(c, terms)
        PROVE  ContinuousInv'
    BY <2>1, CreateContractKeeps
  <2>2. CASE Continuous!CancelContinuousContract(c)
    BY <2>2, CancelContractKeeps
  <2>3. ASSUME NEW a \in ContinuousAgents, NEW offer \in ContinuousOffers,
               Continuous!CommitContinuousBid(c, a, offer)
        PROVE  ContinuousInv'
    BY <2>3, CommitContractKeeps
  <2>4. ASSUME NEW a \in ContinuousAgents, NEW reputation \in ContinuousReputations,
               Continuous!RevealContinuousBid(c, a, reputation)
        PROVE  ContinuousInv'
    BY <2>4, RevealContractKeeps
  <2>5. CASE Continuous!ResolveContinuousAuction(c)
    BY <2>5, ResolveContractKeeps
  <2>6. CASE Continuous!SubmitCheckpoint(c)
    BY <2>6, SubmitCheckpointKeeps
  <2>7. CASE Continuous!MarkCheckpointMissed(c)
    BY <2>7, MissedKeeps
  <2>8. ASSUME NEW i \in CheckpointIndices, Continuous!CheckpointStep(c, i)
        PROVE  ContinuousInv'
    <3>1. ASSUME NEW v \in ContinuousVerifiers, NEW stake \in VerifierStakes,
                 Continuous!RegisterCheckpointVerifier(c, i, v, stake)
          PROVE  ContinuousInv'
      BY <3>1, RegisterKeeps
    <3>2. ASSUME NEW v \in ContinuousVerifiers, NEW vote \in {"Approved", "Rejected"},
                 Continuous!SubmitCheckpointVerification(c, i, v, vote)
          PROVE  ContinuousInv'
      BY <3>2, VerificationKeeps
    <3>3. CASE Continuous!RaiseCheckpointDispute(c, i)
      BY <3>3, RaiseKeeps
    <3>4. ASSUME NEW inFavor \in BOOLEAN, Continuous!ResolveCheckpointDispute(c, i, inFavor)
          PROVE  ContinuousInv'
      BY <3>4, ResolveDisputeKeeps
    <3>. QED BY <2>8, <3>1, <3>2, <3>3, <3>4 DEF Continuous!CheckpointStep
  <2>. QED BY <1>4, <2>1, <2>2, <2>3, <2>4, <2>5, <2>6, <2>7, <2>8, ContinuousSets
           DEF Continuous!ContractStep
<1>. QED BY <1>1, <1>2, <1>3, <1>4 DEF Continuous!Next

-----------------------------------------------------------------------------
(* The composition                                                         *)

SatellitesInv ==
  /\ "outcomes" \in present => OutcomesInv
  /\ "consensus" \in present => ConsensusInv
  /\ "continuous" \in present => ContinuousInv
  /\ "recurring" \in present => RecurringInv
  /\ "syndicates" \in present => SyndicatesInv
  /\ "delegation" \in present => DelegationInv

\* Whatever is committed, revealed, delivered, reported, voted, disputed, delegated
\* or refunded, in any order: each contract beside the core holds to the last unit
\* what it still owes, and its counters agree with its records.
THEOREM AccountsAlwaysExact == SatellitesSpec => []AccountsExact
<1>1. SatellitesInit => SatellitesInv
  BY OutcomesInit, ConsensusInit, ContinuousInit, RecurringInit, SyndicatesInit, DelegationInit
     DEF SatellitesInit, SatellitesInv
<1>2. SatellitesInv /\ [SatellitesNext]_satelliteVars => SatellitesInv'
  <2>. SUFFICES ASSUME SatellitesInv, [SatellitesNext]_satelliteVars PROVE SatellitesInv'
    OBVIOUS
  <2>1. /\ "outcomes" \in present' => OutcomesInv'
        /\ "consensus" \in present' => ConsensusInv'
    BY StepsApart, OutcomesStepKeeps, ConsensusStepKeeps DEF SatellitesInv
  <2>2. ASSUME "continuous" \in present' PROVE ContinuousInv'
    <3>1. ContinuousInv /\ [Continuous!Next]_(Continuous!vars)
      BY <2>2, StepsApart DEF SatellitesInv, continuousAll, Continuous!vars
    <3>. QED BY <3>1, ContinuousStepKeeps
  <2>3. /\ "recurring" \in present' => RecurringInv'
        /\ "syndicates" \in present' => SyndicatesInv'
        /\ "delegation" \in present' => DelegationInv'
    BY StepsApart, RecurringStepKeeps, SyndicatesStepKeeps, DelegationStepKeeps
       DEF SatellitesInv
  <2>. QED BY <2>1, <2>2, <2>3 DEF SatellitesInv
<1>3. SatellitesInv => AccountsExact
  <2>1. OutcomesInv => Outcomes!HoldsPendingBonds
    BY DEF OutcomesInv
  <2>. QED BY <2>1, ConsensusExact, ContinuousExact, RecurringExact, SyndicatesExact,
              DelegationExact DEF SatellitesInv, AccountsExact
<1>. QED BY <1>1, <1>2, <1>3, PTL DEF SatellitesSpec
=============================================================================
