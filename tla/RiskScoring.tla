---------------------------- MODULE RiskScoring ----------------------------
(***************************************************************************)
(* The risk agent's model (agents/risk-agent/src/models/scoring.ts): seven *)
(* scores of 0 to 100, higher being riskier, and their weighted mean; and  *)
(* the search for the block a contract was deployed in                     *)
(* (data-sources/onchain.ts).  Money counts in thousands of dollars,       *)
(* weights in hundredths; sources that gave no data are None.               *)
(*                                                                         *)
(* The machine starts from any data of one source, beside a fixed          *)
(* background, and improves one datum at a time.                           *)
(***************************************************************************)
EXTENDS Integers, FiniteSets, Sequences, FiniteSetsExt, Functions

CONSTANTS
    Models,         \* a subset of the models' names
    Audits, Links,  \* numbers of audits and of links to audits, a range each
    Backgrounds,    \* contexts whose other sources are varied one at a time
    MaxRounds,      \* rounds of the search; 20 in the code
    MaxBlock        \* bound on the chain's height

ASSUME SearchAssumption == MaxRounds \in Nat /\ MaxBlock \in Nat

VARIABLES
    model, ctx, varied,            \* the model, its data, the source that varies
    deployed, latest, lo, hi, rounds, failed  \* the search

scoringVars == <<model, ctx, varied>>
searchVars  == <<deployed, latest, lo, hi, rounds, failed>>

None == [absent |-> TRUE]    \* a source without data
Unlisted == -1               \* a protocol without a listing date

Cap(n) == IF n > 100 THEN 100 ELSE n

MODEL_WEIGHTS ==
    [standard     |-> <<18, 16, 16, 16, 16, 10, 8>>,
     conservative |-> <<12, 22, 22, 14, 14, 10, 6>>,
     defi_native  |-> <<20, 10, 10, 22, 22, 8, 8>>]

-----------------------------------------------------------------------------
\* The score of the first step of a ladder that the value is below.
Below(value, steps, otherwise) ==
    LET hit == {i \in DOMAIN steps : value < steps[i][1]}
    IN  IF hit = {} THEN otherwise ELSE steps[Min(hit)][2]

\* The ladders.
TvlSteps == <<<<100, 90>>, <<1000, 75>>, <<10000, 55>>, <<100000, 35>>, <<1000000, 20>>>>
AgeSteps == <<<<7, 95>>, <<30, 80>>, <<90, 60>>, <<180, 40>>, <<365, 25>>>>
DepthSteps == <<<<50, 85>>, <<500, 65>>, <<5000, 40>>, <<50000, 20>>>>
VolumeSteps == <<<<10, 90>>, <<100, 70>>, <<1000, 45>>>>
ListedSteps == <<<<30, 75>>, <<180, 55>>, <<365, 35>>>>

If(condition, n) == IF condition THEN n ELSE 0

scoreTvlConcentration(c) ==
    LET p == c.protocol
        size == IF p.tvl <= 0 THEN 95
                ELSE Below(p.tvl, TvlSteps, 10)
    IN  IF p = None THEN 50
        ELSE Cap(size + (IF p.change24h < -10 THEN 15 ELSE If(p.change7d < -20, 10)))

\* The upgradeable proxy lowering what it should raise.
BugContractMaturity(c) ==
    LET k == c.contract
        age == Below(k.age, AgeSteps, 10)
    IN  IF k = None THEN 60
        ELSE Cap(age - If(k.proxy, 15))

scoreContractMaturity(c) ==
    LET k == c.contract
        age == Below(k.age, AgeSteps, 10)
    IN  IF k = None THEN 60
        ELSE Cap(Cap(age + If(k.proxy, 15)) + If(~k.verified, 10))

scoreAuditStatus(c) ==
    LET p == c.protocol
    IN  IF p = None THEN 70
        ELSE IF p.audits >= 3 \/ p.links >= 3 THEN 15
        ELSE IF p.audits = 0 /\ p.links = 0 THEN 90
        ELSE IF p.audits = 1 \/ p.links = 1 THEN 55
        ELSE 30

scoreTokenVolatility(c) ==
    LET k == c.token
        swing == IF k.volatility > 200 THEN 95
                 ELSE IF k.volatility > 100 THEN 80
                 ELSE IF k.volatility > 60 THEN 60
                 ELSE IF k.volatility > 30 THEN 40
                 ELSE IF k.volatility > 15 THEN 25 ELSE 10
    IN  IF k = None THEN 50
        ELSE Cap(Cap(swing + If(k.drawdown > 90, 10)) + If(k.change24h < -15, 10))

\* Without a pool, the day's volume stands in for it.
scoreLiquidityDepth(c) ==
    LET l == c.liquidity  k == c.token
        depth == IF l.total <= 0 THEN 95
                 ELSE Below(l.total, DepthSteps, 8)
    IN  IF l # None THEN Cap(depth + If(l.largestPoolShare > 90 /\ l.poolCount <= 1, 10))
        ELSE IF k # None THEN Below(k.volume, VolumeSteps, 20)
        ELSE 60

\* A market cap more than ten times the value locked, where any is locked.
Surcharged(p) == p.tvl > 0 /\ p.mcap > 10 * p.tvl

scoreProtocolGovernance(c) ==
    LET p == c.protocol
        spread == IF p.chains >= 5 THEN 15
                  ELSE IF p.chains >= 3 THEN 25
                  ELSE IF p.chains >= 2 THEN 40 ELSE 55
        known == Max({0, spread - If(p.mature, 10)})
    IN  IF p = None THEN 50
        ELSE Cap(known + If(Surcharged(p), 10))

scoreHistoricalIncidents(c) ==
    LET p == c.protocol
        listed == IF p = None THEN 50
                  ELSE IF p.listed = Unlisted THEN 50
                  ELSE Below(p.listed, ListedSteps, 15)
        old == c.contract # None /\ (IF c.contract = None THEN FALSE ELSE c.contract.age > 365)
    IN  IF old /\ listed > 30 THEN Max({20, listed - 15}) ELSE listed

SCORERS(c) ==
    <<scoreTvlConcentration(c), scoreContractMaturity(c), scoreAuditStatus(c),
      scoreTokenVolatility(c), scoreLiquidityDepth(c), scoreProtocolGovernance(c),
      scoreHistoricalIncidents(c)>>

\* Math.round of the weighted mean; the weights of a model add up to 100.
calculateRiskScore(c, m) ==
    LET weighted == [i \in 1..7 |-> SCORERS(c)[i] * MODEL_WEIGHTS[m][i]]
        total    == SumFunctionOnSet(weighted, 1..7)
    IN  (2 * total + 100) \div 200

-----------------------------------------------------------------------------
(* What the data sources return: sources are verified and one pool, and    *)
(* its liquidity is at most a million.  Values are those around the steps. *)

Protocols ==
    [tvl : {0, 99, 100, 999, 10000, 100000, 1000000}, change24h : {-11, 0},
     change7d : {-21, 0}, audits : Audits, links : Links, chains : {1, 2, 3, 5},
     mature : BOOLEAN, mcap : {0, 5000}, listed : {Unlisted, 29, 30, 180, 365}]

Contracts == [age : {0, 6, 7, 30, 90, 180, 365, 366}, proxy : BOOLEAN, verified : {TRUE}]

Tokens == [volatility : {15, 16, 31, 61, 101, 201}, drawdown : {90, 91},
           change24h : {-16, 0}, volume : {9, 10, 100, 1000}]

Liquidities == [total : {0, 49, 50, 500, 1000}, largestPoolShare : {100}, poolCount : {1}]

\* Every context there may be.
Contexts ==
    [protocol  : {None} \cup [tvl : Nat, change24h : Int, change7d : Int, audits : Nat,
                              links : Nat, chains : Nat, mature : BOOLEAN, mcap : Nat,
                              listed : Int],
     contract  : {None} \cup [age : Nat, proxy : BOOLEAN, verified : BOOLEAN],
     token     : {None} \cup [volatility : Int, drawdown : Int, change24h : Int, volume : Int],
     liquidity : {None} \cup [total : Int, largestPoolShare : Int, poolCount : Int]]

ASSUME ScoringAssumption ==
    /\ Models \subseteq {"standard", "conservative", "defi_native"}
    /\ Audits \subseteq Nat /\ Links \subseteq Nat
    /\ Backgrounds \subseteq Contexts

ScoringInit ==
    /\ model \in Models
    /\ varied \in {"protocol", "contract", "token", "liquidity"}
    /\ \E background \in Backgrounds :
          ctx \in CASE varied = "protocol"  ->
                          {[background EXCEPT !.protocol = p] : p \in Protocols}
                    [] varied = "contract"  ->
                          {[background EXCEPT !.contract = k] : k \in Contracts}
                    [] varied = "token"     ->
                          {[background EXCEPT !.token = k] : k \in Tokens}
                    [] varied = "liquidity" ->
                          {[background EXCEPT !.liquidity = l] : l \in Liquidities}

\* One datum changes; more is better, but for those that count against.
Change(datum, values) ==
    \E v \in values : ctx' = [ctx EXCEPT ![varied][datum] = v]

Against == {"volatility", "drawdown", "mcap"}

ImproveNumber(datum, values) ==
    /\ Change(datum, values)
    /\ IF datum \in Against THEN ctx'[varied][datum] < ctx[varied][datum]
       ELSE ctx'[varied][datum] > ctx[varied][datum]

\* A listing date that becomes known is a new datum, not a better one.
ImproveProtocol ==
    /\ varied = "protocol"
    /\ \/ ImproveNumber("tvl", {99, 100, 999, 10000, 100000, 1000000})
       \/ ImproveNumber("change24h", {0}) \/ ImproveNumber("change7d", {0})
       \/ ImproveNumber("chains", {2, 3, 5}) \/ ImproveNumber("mcap", {0})
       \/ ctx.protocol.listed # Unlisted /\ ImproveNumber("listed", {30, 180, 365})
       \/ ~ctx.protocol.mature /\ Change("mature", {TRUE})

ImproveContract ==
    /\ varied = "contract"
    /\ \/ ImproveNumber("age", {6, 7, 30, 90, 180, 365, 366})
       \/ ctx.contract.proxy /\ Change("proxy", {FALSE})

ImproveToken ==
    /\ varied = "token"
    /\ \/ ImproveNumber("volatility", {15, 16, 31, 61, 101})
       \/ ImproveNumber("drawdown", {90}) \/ ImproveNumber("change24h", {0})
       \/ ImproveNumber("volume", {10, 100, 1000})

ImproveLiquidity ==
    varied = "liquidity" /\ ImproveNumber("total", {49, 50, 500, 1000})

\* One more audit, or one more link to an audit.
AddAudit ==
    /\ varied = "protocol"
    /\ \/ ImproveNumber("audits", {ctx.protocol.audits + 1} \cap Audits)
       \/ ImproveNumber("links", {ctx.protocol.links + 1} \cap Links)

ScoringNext ==
    /\ ImproveProtocol \/ ImproveContract \/ ImproveToken \/ ImproveLiquidity \/ AddAudit
    /\ UNCHANGED <<model, varied>>

ScoringSpec == ScoringInit /\ [][ScoringNext]_scoringVars

-----------------------------------------------------------------------------
(* estimateDeployBlock: the block of the first code, by bisection.         *)

SearchInit ==
    /\ latest \in 1..MaxBlock /\ deployed \in 0..latest
    /\ lo = 0 /\ hi = latest /\ rounds = 0 /\ failed = FALSE

Mid == (lo + hi) \div 2

\* A failed call counting as code.
BugProbe ==
    /\ rounds < MaxRounds /\ Mid # lo
    /\ rounds' = rounds + 1
    /\ \/ Mid < deployed /\ lo' = Mid /\ UNCHANGED <<hi, failed>>
       \/ Mid >= deployed /\ hi' = Mid /\ UNCHANGED <<lo, failed>>
       \/ hi' = Mid /\ failed' = TRUE /\ UNCHANGED lo
    /\ UNCHANGED <<latest, deployed>>

\* A failed call counts as no code.
Probe ==
    /\ rounds < MaxRounds /\ Mid # lo
    /\ rounds' = rounds + 1
    /\ \/ Mid < deployed /\ lo' = Mid /\ UNCHANGED <<hi, failed>>
       \/ Mid >= deployed /\ hi' = Mid /\ UNCHANGED <<lo, failed>>
       \/ lo' = Mid /\ failed' = TRUE /\ UNCHANGED hi
    /\ UNCHANGED <<latest, deployed>>

SearchEnded == rounds = MaxRounds \/ Mid = lo

SearchSpec == SearchInit /\ [][Probe]_searchVars

-----------------------------------------------------------------------------
\* The two steps set apart: audits or links to them are added, as one of the
\* one kind outweighs two of the other; and the first dollar is locked in a
\* protocol whose market cap then counts as high.
SetApart ==
    /\ ctx.protocol # None /\ ctx'.protocol # None
    /\ \/ ctx'.protocol.audits # ctx.protocol.audits
       \/ ctx'.protocol.links # ctx.protocol.links
       \/ ctx.protocol.tvl = 0 /\ Surcharged(ctx'.protocol)

\* Better data never makes a position riskier: no improvement of one datum
\* raises the composite score, at any step of any ladder, but for the two
\* that SetApart names: an added audit or link, and the first dollar locked
\* where it brings the market-cap surcharge.  Either may raise it.
BetterNeverRiskier ==
    [][ctx' # ctx /\ ~SetApart
       => calculateRiskScore(ctx', model) <= calculateRiskScore(ctx, model)]_ctx

\* The block found is never before the deployment, failed calls or not: a
\* contract is never taken for older than it is.  When no call failed, it
\* is the block of the deployment or within what the rounds left open.
NeverTooOld ==
    /\ hi >= deployed
    /\ SearchEnded /\ ~failed => lo <= deployed
    /\ SearchEnded /\ ~failed /\ rounds < MaxRounds => hi <= deployed + 1

=============================================================================
