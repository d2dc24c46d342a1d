-------------------------- MODULE ReportComparison --------------------------
(***************************************************************************)
(* What the audit and verifier agents compute from analyzers' findings     *)
(* (agents/audit-agent and agents/verifier-agent): merging what three      *)
(* analyzers found, and comparing the agent's report with it.  A finding   *)
(* is a type, a severity and a location, the set of the location's words;  *)
(* one location contains another when its words do.  Scores are whole      *)
(* percentages, rounded as Math.round does.                                *)
(*                                                                         *)
(* The module is a machine of two steps, so that the algorithms are        *)
(* checked on every input: Merge, then Compare.                            *)
(***************************************************************************)
EXTENDS Naturals, Integers, FiniteSets, Sequences, SequencesExt

CONSTANTS
    Findings,      \* what the verifier's analyzers can report
    Reported,      \* what the agent can report
    MaxFindings,   \* bound on the length of one report
    Thresholds     \* the approval thresholds configured, in percent

\* Each analyzer's findings are given one of the five severities, whatever it said.
ASSUME SeverityAssumption ==
    /\ \A f \in Findings \cup Reported :
          f.severity \in {"critical", "high", "medium", "low", "informational"}
    /\ Thresholds \subseteq Int

VARIABLES
    claude, slither, mythril,  \* what each analyzer found
    report,                    \* the agent's findings
    settings,                  \* threshold, and which misses reject at once
    merged,                    \* the verifier's findings
    verdict                    \* the decision, or none yet

comparisonVars == <<claude, slither, mythril, report, settings, merged, verdict>>

SEVERITY_WEIGHT ==
    [critical |-> 10, high |-> 7, medium |-> 4, low |-> 2, informational |-> 1]

CMP_APPROVE == 80   \* percent; the contract has 8000 basis points

-----------------------------------------------------------------------------
(* Merging: the first finding of a type at a location is kept, Claude's    *)
(* before Slither's before Mythril's; then the severest first, in order.   *)

SameKey(f, g) == f.type = g.type /\ f.location = g.location

\* Where a type and location occur for the first time.
Firsts(found) ==
    {i \in DOMAIN found : \A j \in 1..(i - 1) : ~SameKey(found[j], found[i])}

order == [critical |-> 0, high |-> 1, medium |-> 2, low |-> 3, informational |-> 4]

\* The comparator of the sort, which keeps the order of equals.
Precedes(found, i, j) ==
    \/ order[found[i].severity] < order[found[j].severity]
    \/ order[found[i].severity] = order[found[j].severity] /\ i < j

Before(found, i) == {j \in Firsts(found) : Precedes(found, j, i)}

Sorted(found) ==
    [k \in 1..Cardinality(Firsts(found)) |->
        found[CHOOSE i \in Firsts(found) : Cardinality(Before(found, i)) = k - 1]]

mergeFindings(slitherFound, mythrilFound, claudeFound) ==
    Sorted(claudeFound \o slitherFound \o mythrilFound)

-----------------------------------------------------------------------------
(* Comparing.                                                              *)

\* Same type, and a location that equals or contains the other, or shares
\* at least half of the words of the longer.
keysMatch(f, g) ==
    /\ f.type = g.type
    /\ \/ f.location \subseteq g.location
       \/ g.location \subseteq f.location
       \/ LET longer == IF Cardinality(f.location) > Cardinality(g.location)
                        THEN f.location ELSE g.location
          IN  2 * Cardinality(f.location \cap g.location) >= Cardinality(longer)

\* An agent's finding that may be matched more than once.
BugMatching(agent, verifier) ==
    FoldLeftDomain(LAMBDA pairs, vi :
        LET fits == {ai \in DOMAIN agent : keysMatch(verifier[vi], agent[ai])}
        IN  IF fits = {} THEN pairs
            ELSE pairs \cup {<<vi, CHOOSE ai \in fits : \A o \in fits : ai <= o>>},
        {}, verifier)

\* Greedy: each of the verifier's findings in turn takes the first of the
\* agent's that matches and is not taken.
Matching(agent, verifier) ==
    FoldLeftDomain(LAMBDA pairs, vi :
        LET fits == {ai \in DOMAIN agent :
                        /\ keysMatch(verifier[vi], agent[ai])
                        /\ \A p \in pairs : p[2] # ai}
        IN  IF fits = {} THEN pairs
            ELSE pairs \cup {<<vi, CHOOSE ai \in fits : \A o \in fits : ai <= o>>},
        {}, verifier)

Missed(agent, verifier) ==
    DOMAIN verifier \ {p[1] : p \in Matching(agent, verifier)}

Extra(agent, verifier) ==
    DOMAIN agent \ {p[2] : p \in Matching(agent, verifier)}

Weight(verifier, places) ==
    FoldLeftDomain(LAMBDA sum, vi :
        sum + (IF vi \in places THEN SEVERITY_WEIGHT[verifier[vi].severity] ELSE 0),
        0, verifier)

\* Math.round(num / den) for den > 0.
RoundHalfUp(num, den) == (2 * num + den) \div (2 * den)

\* Covered weight, less up to 15 points for the share of extra findings.
matchScore(agent, verifier) ==
    LET total   == Weight(verifier, DOMAIN verifier)
        covered == Weight(verifier, DOMAIN verifier \ Missed(agent, verifier))
        count   == IF agent = <<>> THEN 1 ELSE Len(agent)
        extra   == Cardinality(Extra(agent, verifier))
        points  == RoundHalfUp(100 * covered * count - 15 * extra * total, total * count)
    IN  IF verifier = <<>> THEN IF agent = <<>> THEN 100 ELSE 60
        ELSE IF points > 0 THEN points ELSE 0

missedCritical(agent, verifier) ==
    \E vi \in Missed(agent, verifier) : verifier[vi].severity \in {"critical", "high"}

AutoReject(agent, verifier, config) ==
    /\ config.autoRejectMissedCritical
    /\ missedCritical(agent, verifier)
    /\ \E vi \in Missed(agent, verifier) :
          \/ verifier[vi].severity = "critical"
          \/ config.autoRejectMissedHigh /\ verifier[vi].severity = "high"

compareReports(agent, verifier, config) ==
    IF AutoReject(agent, verifier, config) THEN "reject"
    ELSE IF matchScore(agent, verifier) >= config.approvalThreshold
         THEN "approve" ELSE "reject"

\* Rejecting only below the contract's other bound, 5000 basis points.
BugComparisonVote(agent, verifier) ==
    IF ~missedCritical(agent, verifier) /\ matchScore(agent, verifier) >= 50
    THEN "approve" ELSE "reject"

\* What the contract makes of the score in comparison mode.
ComparisonVote(agent, verifier) ==
    IF ~missedCritical(agent, verifier) /\ matchScore(agent, verifier) >= CMP_APPROVE
    THEN "approve" ELSE "reject"

-----------------------------------------------------------------------------
Settings == [approvalThreshold : Thresholds,
             autoRejectMissedCritical : BOOLEAN, autoRejectMissedHigh : BOOLEAN]

Undecided == [vote |-> "none", onchain |-> "none"]

ComparisonInit ==
    /\ claude \in BoundedSeq(Findings, 1)
    /\ slither \in BoundedSeq(Findings, 1)
    /\ mythril \in BoundedSeq(Findings, 1)
    /\ report \in BoundedSeq(Reported, MaxFindings)
    /\ settings \in Settings
    /\ merged = <<>> /\ verdict = Undecided

Merge ==
    /\ merged = <<>> /\ verdict = Undecided
    /\ merged' = mergeFindings(slither, mythril, claude)
    /\ merged' # <<>>
    /\ UNCHANGED <<claude, slither, mythril, report, settings, verdict>>

Compare ==
    /\ verdict = Undecided
    /\ merged = mergeFindings(slither, mythril, claude)
    /\ verdict' = [vote    |-> compareReports(report, merged, settings),
                   onchain |-> ComparisonVote(report, merged)]
    /\ UNCHANGED <<claude, slither, mythril, report, settings, merged>>

ComparisonNext == Merge \/ Compare

-----------------------------------------------------------------------------
\* Whatever an analyzer found is in the merged list once, under its type and
\* location; comparing takes each of the agent's findings for at most one of
\* the verifier's, and calls nothing missed that an extra one would match:
\* the agent is not rejected for what it reported.
NothingOverlooked ==
    verdict # Undecided =>
        /\ \A found \in {claude, slither, mythril} : \A i \in DOMAIN found :
              \E k \in DOMAIN merged :
                 /\ SameKey(merged[k], found[i])
                 /\ \A o \in DOMAIN merged : SameKey(merged[o], found[i]) => o = k
        /\ \A p, q \in Matching(report, merged) : p[1] = q[1] <=> p[2] = q[2]
        /\ \A vi \in Missed(report, merged), ai \in Extra(report, merged) :
              ~keysMatch(merged[vi], report[ai])

\* In comparison mode the contract, which knows the score and the flag only,
\* never counts an approval where the agent decided to reject, as long as
\* its own threshold is not above the contract's.
ApprovedKnowingly ==
    settings.approvalThreshold <= CMP_APPROVE /\ verdict.onchain = "approve"
        => verdict.vote = "approve"

=============================================================================
