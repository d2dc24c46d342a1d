# Arena Protocol: verification project

Arena Protocol is a market for work done by software agents. A poster escrows a
bounty, agents compete for the task in a sealed-bid auction with a stake, the
winner delivers, a panel of staked verifiers votes, and the money follows the
vote. This directory holds TLA+ models of its contracts and of the programs
around them, the TLC configurations that check them on small instances, and
proofs of the results that hold for every instance.

1. [The system](#1-the-system): inventory, interactions, what is hard
2. [The modules](#2-the-modules): which module models which code, and how
3. [The runs](#3-the-runs): what each shows, its bounds, why they are enough
4. [Fairness](#4-fairness)
5. [The proofs](#5-the-proofs): what is proved, from what, along which argument
6. [What the models found](#6-what-the-models-found)
7. [What is not modelled](#7-what-is-not-modelled), and the plan

Commands, from this directory:

    tlc -workers 2 -config ArenaCore_Panel.cfg MCArenaCore   # any run of PROJECT.json
    tlapm ArenaCoreProofs.tla                                # any module with theorems

Line numbers below refer to `contracts/src/` unless another path is given.

## 1. The system

### 1.1 Inventory

The state and the money are on chain. Everything else reads the chain and sends it
transactions.

| Component | State it keeps | Operations that change it | What makes it correct |
| --- | --- | --- | --- |
| **ArenaCoreMain** (escrow and accounts) | tasks and their status, assignments, slash bonds, slash amounts, the poster's and agents' counters, reputation, bans, treasury, pause | `createTask`, `cancelTask`, `postCompletionSlash`, `claimSlashBond`, `withdrawProtocolFees`, pause, emergency exits; setters for the auction, and one for arbitration | it can always pay every bounty, bond and fee; counters mean what the limits assume; a bond leaves once |
| **ArenaCoreAuction** (auction, delivery, verification, settlement) | commitments, reveals, bidder lists, panels, votes, the panel's clock, the stakes | `commitBid`, `revealBid`, `resolveAuction`, `deliverTask`, `registerVerifier`, `submitVerification`, four timeouts | every stake returned or slashed once; a task settled once and by a majority; no phase without an exit |
| **ArenaCoreVRF** | verifier pool, VRF requests, comparison votes | pool entry and exit, request, callback, comparison | a panel is drawn once, from eligible members |
| **ArenaInsurance** | offers, policies, locked capital, fees | offer, cancel, buy, two claims, settle, withdraw | capital and balance agree; a loss is covered once and never over-covered |
| **ArenaOutcomes** | criteria and one report per task | register (2), report (2), challenge, finalise | slashing only after an unchallenged period; a bond goes one way |
| **ArenaArbitration** | disputes, councils, votes, fees, treasury | raise, VRF callback, stake, vote, two timeouts, withdraw | the verdict follows the votes; stakes and fees go home; the dispute ends |
| **ArenaConsensus** | its own tasks, bids, submissions, escrow | create, cancel, bid, reveal, resolve, deliver, finalise, withdraw | the best are chosen once each; the escrow balances |
| **ArenaContinuous** | contracts paid by checkpoint, their auction, panels and stakes | its own auction, checkpoints, verification, termination, disputes | stakes and payments balance over a long sequence of checkpoints |
| **ArenaTimelock** | queued transactions | queue, execute, cancel | nothing reaches Main without notice |
| **ArenaDelegation**, **ArenaSyndicates** | pooled stakes and shares | join, leave, lock, vote, distribute, claim | shares add up to the pool |
| **ArenaRecurring** | templates with a budget | create, pause, trigger, record, cancel | the budget covers the tasks it posts |
| **ArenaReputation**, **ArenaProfiles**, **ArenaCompliance** | tokens and scores, profiles, reports and suspensions | setters and folds | little depends on the order of calls |
| **Audit and risk agents** (`agents/`) | bids with their salts, tasks and stakes, in JSON files | handlers of events, polling cycles, a start-up pass | no salt lost, no stake bid twice |
| **Verifier agent** | verifications in a JSON file | the same | every vote owed is cast, once, as decided |
| **Orchestrator** | a registry of agents, the tasks it follows, profit and loss, a queue of transactions | start, stop, events, polls, the queue's retries | the records are true; a transaction runs once and is answered |
| **Poster bot**, **REST API** | records of what was posted, keys, webhooks | creation of tasks in several awaited calls | what was paid for is on record |
| **SDK** | pending bids, listeners | one transaction or one composed answer each; `BidManager`, `ArenaEventListener` | an answer does not contradict itself; a bid's salt is kept; an event is delivered once |
| **Subgraph** | entities folded from events | one handler per event | the index shows what the contracts hold |
| **Web applications** | what a page last read, salts in localStorage | a button, a prompt, a receipt, a reload | no salt lost, the vote cast is the one pressed |
| **Deployment scripts** | an address book on disk | deploying, linking, handing over, saving | the book names contracts that are linked |

### 1.2 How the parts interact

* The core is two contracts over one life cycle. `ArenaCoreMain` holds bounties, bonds
  and most records; `ArenaCoreAuction` holds stakes and bids, and writes Main's
  records through `onlyAuction` setters within a transaction. Money crosses between the
  two on settlement (bonds and slash revenue go to Main, payments come out of it).
* Insurance, Outcomes and the agents read a task through Main's getters. Outcomes also
  writes, through `postCompletionSlash`. Arbitration writes a status through
  `setTaskStatusFromArbitration`, which checks its caller and nothing else.
* ArenaCoreVRF draws a panel in a callback of the VRF coordinator, some time after the
  delivery that asked for it or never, and enters it in the auction.
* Consensus and Continuous copy the auction and keep an escrow of their own. From the
  core they read reputation and bans only. Arbitration corrects checkpoints of Continuous.
* Recurring is itself a poster: it escrows every occurrence and posts it to the core.
* The timelock, as Main's owner, delays all its calls, `pause` among them (section 6).
* Off chain, a program is single-threaded and gives way at every `await`; it meets the
  chain through events, which may be missed over a restart, through polls, and through
  receipts, which may be lost. All agents of one orchestrator share a key and one
  environment. The subgraph hears events only.

### 1.3 What is hard here

A transaction is atomic and the entry points that move tokens are `nonReentrant`, so
on chain the difficulty is not inside a call. It is in the *order* of calls by actors
who do not trust each other, and in time:

* five different calls, open to anybody or to a panel member, compete to end one task
  (vote, verifier timeout, abandonment, delivery timeout, missed deadline);
* windows meet at one timestamp (slash against claim, challenge against finalisation,
  staking against its timeout);
* a counter is raised in one contract and lowered in another on six paths;
* amounts are rounded one by one and have to add up across two contracts;
* an emergency exit takes money out from under a task in any phase;
* something has to happen although nobody is obliged to act.

Off chain it is what happens between two awaits: a second handler for the same task, a
crash after the transaction and before the file, a stale answer that overwrites a newer
one, a receipt that never comes.

`PROJECT.json` lists forty hazards, each at its line, with the properties that watch it.
Further ones of the same kinds, kept out of that list: ArenaDelegation:167 and :208 (locked
capital is subtracted twice, claims do not add up), ArenaSyndicates:346 (rewards go to the
members of the moment), ArenaRecurring:406 (one limit of active tasks for all templates),
ArenaContinuous:708 (a checkpoint panel that never fills), ArenaInsurance:330 (a policy
whose task ends cancelled or disputed never closes), ArenaConsensus:332 and :534,
ArenaCoreVRF:161 and :327, ArenaCoreAuction:325 (a pause through the reveal window), and
`agents/orchestrator/src/task-router.ts:157`.

## 2. The modules

    ArenaCore --- ArenaCoreProperties --- MCArenaCore, MCAuctions, MCLive
       |                 |
       |    FiniteSums --+-- ArenaCoreProofs
       |                 |
       +-- ArenaCoreVRF, ArenaDisputes (over the escrow) --- MCAuctions
       |
       | implements
    TaskLifecycle --- ArenaInsurance --- MCArenaInsurance, ArenaInsuranceProofs
                  +-- ArenaOutcomes  --- MCArenaOutcomes, Satellites
                  +-- ArenaArbitration - MCLive, ArenaArbitrationProofs (with FiniteSums)

    ArenaOutcomes, ArenaConsensus, ArenaContinuous, ArenaRecurring,
    ArenaSyndicates, ArenaDelegation --- Satellites
    ArenaTimelock, Satellites, Subgraph - IndexedArena, ArenaClient, TaskPosters - MCSatellites
    BiddingAgents, BidManager - OutputSchema, EventListener, Deployment, WebApp - MCClients
    VerifierAgent, ReportComparison, RiskScoring, Orchestrator ------------- MCOffChain
    NonceManager ----------------------------------------------------------- MCLive

    Proofs: ArenaTimelock, Satellites, TaskPosters, FiniteSums - SatelliteProofs --- AccountsProofs
    BiddingAgents, EventListener, BidManager, WebApp, Deployment - ClientProofs
    NonceManager, VerifierAgent, ReportComparison, RiskScoring, Orchestrator, FiniteSums -
        OffChainProofs

Conventions that hold everywhere:

* **One external call is one action** of a contract. A revert is an action that is not
  enabled, an early return is a disjunct. Internal functions are operators. Checked
  arithmetic reverts on underflow; where that can happen it is a guard, and elsewhere an
  invariant shows that it does not (`StakesExact`, `MainSolvent`, `TypeOK` of Insurance).
* **One stretch between two awaits is one action** of a program. Everything else
  interleaves there.
* **Time** is an integer, one `Tick`/`Advance` per unit, bounded by `MaxTime`. The
  durations of the code (24 h, 48 h, 7 days) are constants of which the runs keep
  the order.
* **Money** is integers, rounded as Solidity rounds. Rates are the code's literals.
  Amounts in the runs are large enough that fees and shares are not all zero, or small
  enough, deliberately, that they are.
* **Sealed bids** are the offer itself, which no action reads before the reveal: the
  hash is taken to be binding and hiding. Where salts are what can be lost (agents, SDK,
  web pages) a salt is a value of its own.
* **Definitions called `Bug...`** are no part of a model. Each is a plausible defect of
  the definition after it, and shows that a property notices it.
* **An MC module composes parts that share nothing** and runs them side by side: the
  variable `part`, which never changes, says which part a behaviour is about, and the
  other parts' variables stay as they were. Parts that interact are composed in modules
  of their own (ArenaCoreVRF, ArenaDisputes, IndexedArena, and what extends TaskLifecycle).
* **Satellites** composes the six contracts beside the core that keep money of their own,
  so that one theorem can speak of all of them. `present`, which never changes, is the set of
  those that are deployed; a step is a step of one of them.

### ArenaCore: ArenaCoreMain + ArenaCoreAuction

Variables carry the names of the mappings. `status` is split off the task record, and
`mainBal` and `auctionBal` are the tokens each contract holds. The code of one action may
live in both contracts, e.g. `CancelTask` is `cancelTask` (Main:213) with the
`refundBidsOnCancel` it calls (Auction:886).

| Action | Code | Who |
| --- | --- | --- |
| `CreateTask`, `CancelTask` | Main `createTask`, `cancelTask` | poster |
| `CommitBid`, `RevealBid`, `DeliverTask` | Auction, same names | agent |
| `ResolveAuction` | Auction `resolveAuction`; `Wins` is its loop | anybody |
| `RegisterVerifier`, `SubmitVerification` | Auction; `TrySettlement`, `SettleSuccess`, `SettleFailure` are the internal functions | verifier |
| `EnforceVerifierTimeout`, `AbandonVerification`, `EnforceDeliveredTimeout`, `EnforceDeadline` | Auction, same names | anybody |
| `PostCompletionSlash`, `ClaimSlashBond` | Main | owner or Outcomes; agent |
| `Pause`, `Unpause`, `UnbanAgent`, `WithdrawProtocolFees` | Main | owner, here without the timelock's delay |
| `EmergencyWithdrawBounty`, `EmergencyWithdrawStake` | Main, after a week of pause | poster; agent |

`vs` and `pre` in the settlement operators deserve a word: `enforceVerifierTimeout` first
rewrites the silent votes and moves their stakes and then calls the same settlement as a
vote does. The operators therefore take the panel and the ledger *as of the call*.

Configuration: what `contracts/scripts/deploy.js` sets up, with one token and no dispute
raised. ArenaCoreVRF is then linked and not enabled, and its cooldown of seven days repeats
the auction's own; no task type asks for approval or an output schema; whom the compliance
contract refuses is an address that does not act, and since no actor is ever obliged to
act, the behaviours with it are among those without. Reputation starts at 0, as in the code.

* **ArenaCoreProperties** holds the invariants, action and liveness properties, and the
  refinement mapping `Life(t)`.
* **ArenaCoreVRF** extends ArenaCore by the pool, the request made on delivery, the
  coordinator's callback, and votes by comparison; it enables what deploy.js leaves off.
* **ArenaDisputes** is ArenaCore and ArenaArbitration together: the council overwrites
  the status and the agent's reputation, and the core goes on with the status it finds.

### TaskLifecycle: what the satellites see

The abstract specification of the core: per task a phase, the agent and its stake, the
slash window, the bond and what was slashed. ArenaCore *implements* it
(`ImplementsLifecycle`, checked by a run and proved). This is what licenses checking the
satellites over tasks of eight fields instead of over the two contracts: each of them
`EXTENDS TaskLifecycle`, and their `Next` interleaves its steps with the satellite's own.
Insurance and Outcomes are therefore checked for tasks nobody disputes; ArenaArbitration
and ArenaDisputes add the steps of a dispute.

### The other contracts

* **ArenaInsurance**: every entry point. The agent's counters that price an offer are an
  input, because tasks outside the instance move them. `Offer(id)` is the mapping as
  Solidity reads it: an id never written is a record of zeros, whose status 0 is `Open`
  and whose task is 0.
* **ArenaOutcomes**: criteria and reports of both kinds. `FinalizeReport` takes
  `SlashBond`, a step of the core, in the same action, as the code does; if the core
  refuses, the call reverts.
* **ArenaArbitration**: task disputes. `RaiseDispute` and `Settle` overwrite the phase
  where the core never would; `FulfillRandomWords` is the coordinator's callback and may
  come at any time or not at all, with any council of eligible pool members.
* **ArenaTimelock**: the three calls, and the calls on Main it owns. An id that was never
  queued is modelled too, since `cancelTransaction` accepts it.
* **ArenaConsensus**: stands alone. `Selection` is the insertion by hand over two parallel
  arrays in `resolveAuction`, a recursive function over the bidders, refunds included.
* **ArenaContinuous**: its auction, checkpoint after checkpoint with a panel each, bonus,
  bond, early end, and the correction of a checkpoint after a dispute. An arbitration that
  may be raised is what its interface decodes (section 6).
* **ArenaRecurring**: a template's escrow, the trigger, and the core as the contract sees
  it: it refuses, numbers what it takes, and pays its poster, which is this contract.
* **ArenaSyndicates**, **ArenaDelegation**: stakes pooled, voted with, locked and
  withdrawn. The hooks reserved to the core are left out, as nothing in the core calls them;
  `recordTaskDelegation` is kept, because the owner may call it and withdrawals depend on it.

### The programs

* **BiddingAgents**: the audit and the risk agent, one protocol in two variants, with two
  handlers at a time, their three files, crashes, stops and restarts.
* **VerifierAgent**: events, overlapping polls and the start-up pass over the contract as
  this verifier sees it. **ReportComparison** is the comparison of reports it votes by
  and the merging of findings it shares with the audit agent; **RiskScoring** the seven
  scores of the risk agent and its search for the block a contract was deployed in.
* **Orchestrator**: start and stop through one shared environment, routing of events,
  polling beside them, the records of profit and loss. **NonceManager** is its queue.
* **TaskPosters**: creation of tasks by the SDK, the REST API and the poster bot.
* **BidManager**, **EventListener**, **OutputSchema**, **ArenaClient**: the SDK.
  ArenaClient's answers are put together from several reads while the chain moves.
* **Subgraph** is the mapping, handler by handler, as functions of a store; **IndexedArena**
  feeds it the events of the contracts and compares the store with what they hold.
* **WebApp**: pages, prompts, receipts, reloads, other parties. **Deployment**: every
  script as a program of steps, killed anywhere, run twice, run beside another.

## 3. The runs

### Passing runs

| Run | Distinct states | Question |
| --- | --- | --- |
| `ArenaCore_Panel` | 441 000 | Does one task stay sound through every phase, panel and exit? |
| `ArenaCore_Auction` | 1 000 000 | Do stakes and slots come back: among competitors, drawn verifiers, disputants? |
| `Live` | 89 000 | Does everything that should end, end? |
| `ArenaInsurance` | 2 350 000 (symmetry) | Do capital, policies and payouts agree with what the core did? |
| `Satellites` | 2 010 000 | Do the contracts around the core, the index and the readers keep true books? |
| `Clients` | 1 820 000 | Do the programs that bid and deploy know what they did on chain? |
| `OffChain` | 866 000 | Are votes cast as decided, scores sane, records true? |

Deadlock is not checked: time and all counters are bounded, so every behaviour ends. That
nothing is stuck *before* it should be is the question of `Live` and `PendingHandled`.

**ArenaCore_Panel** (MCArenaCore). One task, one agent, four verifiers of which one is the
agent itself, panels of one and of two, severities that do and do not ban, and an owner who
pauses and unpauses at will. `MaxTime = 9` is past the slash window and abandonment of a
task that took its time: auction 2, delivery 3, timeouts 1 and 2. A third set of terms must
be refused. Four candidates for a panel of two is one more than any rule needs: two that
serve, one more that comes too late, one that is barred.
* `MainSolvent`: Main's balance covers all bounties in escrow, bonds and the treasury.
  It is `>=`, because up to a few units of rounding and the fee share of verifiers in the
  minority stay behind.
* `StakesExact`: the auction's balance *is* the sum of the stakes that are still owed
  (equality), and the per-address counter on the other contract is the same sum. This also
  shows that no subtraction in a settlement underflows.
* `TypeOK`; `TimestampsOrdered`: assignment, delivery, panel, panel clock.
* `PanelSound`: impartial, no larger than asked for, complete before an approval
  counts, no open vote left behind.
* `PaidByMajority` (action): paid only by a strict majority of the *required* panel, so
  that silence counts against the agent; votes are never rewritten.
* `ImplementsLifecycle` (refinement).

**ArenaCore_Auction** (MCAuctions) has three parts.
*auctions*: two tasks of one poster and two agents with three offers: two serious ones, so
that the better one may come first or last, and one with a price of zero, by which the
resolution divides. `MaxTime = 4` reaches past the reveal phase of the second task and the
emergency threshold; no verifier, since what follows assignment is the question of Panel.
Tasks are created up to `Horizon = 1` only, which makes the two auctions overlap fully.
*drawn*: one task, a panel of two drawn from a pool of three that members, the agent among
them, join and leave between request and answer; one member's stake is below a fifth of
the agent's; votes by comparison.
*disputed*: one task with a panel of one or two, disputed in any status while a council of
one is drawn from a pool that shares a member with the panel.
* `StakesExact` again, with losers and drawn verifiers (and `RegistryExact`: the pool is
  what the registry says); after a dispute, `MoneyLeftAsDisputed`.
* `LimitsExact`: `agentActiveBids` and `posterActiveTasks` count exactly the auctions waited
  on and the tasks unsettled. A poster's counter is never given back for a tied task; the
  property says so rather than hiding it.

**Live** (MCLive) has three parts under fairness (section 4).
*core*: panels of two and three out of two verifiers, so a panel can stay incomplete for
ever. Nothing is started after `Horizon = 5` and `MaxTime = 11` leaves room for every timeout
after that, so the end of time is never the reason a task is stuck or freed. Pausing is off:
`resolveAuction` is refused while paused, and an owner who never unpauses keeps an auction
open for ever. `TasksEnd` has a hypothesis, that the agent was assigned before the
deadline; section 6 shows why.
*dispute*: a council of three out of a pool of four that holds the agent. Three is the
least size with a majority, a minority and a silent member at once; the bounty of 101 does
not divide. `HoldsOwed` allows dust of less than one unit per winner and nothing else;
`VerdictFollowsVotes`; `CouncilEnds`, although the contract may be paused for ever.
*queue*: three transactions, three faults (lost answers, refused nonces), two transactions
sent past the queue. `ExecutedInOrder`: none runs twice or out of order. `Answered`.

**ArenaInsurance** (MCArenaInsurance). Two tasks, two insurers (interchangeable, hence
symmetry) and two offers: enough for an offer to be cancelled by another insurer's sale and
for two tasks to share one insurer's counters. A stake of 10 rounds shares to nothing, one
of 1000 does not. Slash windows are 0 and `MaxTime = 3`, so both sides of the window are
reached. One token: mixed tokens are a violation run.
* `BooksExact`: locked capital per insurer and the balance, to the unit.
* `OnePolicy`: one policy, bought from one offer, or the empty policy of task 0, which can
  be had by buying offer 0; it covers nothing and costs nothing but blocks cover for that task.
* `NoProfit`: an agent never gains by failing.
* `SettledNeverSlashed`: capital that went home in full is never missed later.

**Satellites** (MCSatellites) has ten parts: six have one contract of the module Satellites
deployed, alone.

| Part | Instance | Property |
| --- | --- | --- |
| timelock | three ids, one never queued; the clock starts after the grace period, because an id never queued has an eta of 0 and expired long ago | `NoticeGiven` |
| outcomes | one task, windows 2 and 4 around a challenge period of 1, a reporter who may be the agent; the owner does not slash on its own | `SlashedAfterWindow`, `AccountsExact` |
| consensus | three agents, one task of two or three, offers that tie, that cost more than the bounty, that score zero | `AccountsExact` |
| continuous | one contract of two checkpoints, two agents, panels of two that hold a competitor, an index beyond the last checkpoint, one dispute | `AccountsExact` |
| recurring | one poster, two templates, bounties at and below the core's minimum, returns that arrive later | `AccountsExact` |
| syndicates | three members for two syndicates of two, one of them banned meanwhile | `AccountsExact` |
| delegation | two pools, one agent delegating to the other, two delegators at most | `AccountsExact` |
| index | every event of one task, dispute, continuous contract, policy, syndicate or pool | `TotalsAgree`, `ShownAsOnChain` |
| reads, details | eight kinds of composed answers while the chain moves, one other task but for the details of one; a panel of two, so that a task may be settled by timeout with a vote missing | `ReadsConsistent` |
| posters | two creations at a time, one fault, two failures, a restart | `RecordsOwn` |

`AccountsExact` is, per part, an equality between what a contract holds and what it owes,
with the counters kept beside the money: a sum over bidders, members, delegators or
occurrences that must survive every order of joining, leaving and settling. The contracts
share nothing, so deploying one at a time loses nothing; the theorem has any set of them.
`NoticeGiven` has no exception for pauses: the bypass for emergencies that the timelock's
comment announces does not exist (section 6).

**Clients** (MCClients) has five parts: *agents* (two tasks, two handlers, two starts;
`SaltsMatch`, `StakesTracked`, `SavedBidIsRevealed`), *bids* (three calls, one tick, one
fault; `BidsTracked`), *events* (two types, two callbacks, two events; `DeliveredOnce`),
*deployment* (ten scripts, two of them at a time or one after the other; `SavedIsLinked`)
and *web* (two bids, two tasks, one reload; `SaltStored`). Two handlers are what a duplicate
event or a poll beside an event needs; a second start is what a crash needs to matter.

**OffChain** (MCOffChain) has five parts: *verifier* (one audit task, two handlers, one stop, one
failed call; `RecordedVoteCast`, `PendingHandled`), *reports* (all reports of up to two findings
out of five that contain, match and contradict each other; `NothingOverlooked`,
`ApprovedKnowingly`), *scores* (every ladder of every datum in both models;
`BetterNeverRiskier`), *search* (every chain up to 20 blocks, four rounds; `NeverTooOld`)
and *orchestrator* (one task after two earlier ones, two events in flight, one restart;
`RecordsTrue`). What the agents limit to 50 tasks (the verifier's poll), 30 tasks (the
orchestrator's) and 500 records (its file after a stop) is limited to one here, and newer tasks
are posted, so that the task of interest does leave the window and records are dropped.
`PendingHandled` promises nothing for a task that newer ones pushed out of the poll's window
before it was seen. `RecordedVoteCast` says nothing of how the contract judged a comparison: a
local decision has a threshold of its own, lower or higher, and a comparison may be counted
over a standard vote sent earlier. `RecordsTrue` leaves out the outcomes of a task over whose
entry a poll wrote the empty answer it got before the task existed (`misread`). Each of these
exceptions is what the code does (section 6). `BetterNeverRiskier` sets two kinds of steps
apart (`SetApart`): an audit or a link to one, and the first dollar of TVL that brings the
surcharge on market cap over TVL; the machine takes these steps, and the scores rise.

### Runs that refute a sentence of the code

`ArenaCore_V_Deadline`, `ArenaCore_V_Cancel`, `ArenaInsurance_V_Tokens`,
`ArenaOutcomes_V_Reporter` and `WebApp_V_Votes`: see section 6.

### Why small instances say something

Tasks do not interact except through balances, counters and records per address; these
are the subject of `StakesExact`, `LimitsExact`, `BooksExact` and `AccountsExact`,
and two tasks with shared actors exercise them. For all contracts these are about, section 5
shows the same for any number of tasks, actors, amounts and durations.
Every passing property has a plausible defect of a mapped definition, listed in
`PROJECT.json`, that makes its run fail.

## 4. Fairness

Safety is checked and proved without any fairness. What is assumed for liveness:

* **The clock** (`Tick`, `Blocks`): blocks keep coming.
* **The core's `Settler(t)`**: `resolveAuction`, `enforceDeadline`, `enforceDeliveredTimeout`,
  `enforceVerifierTimeout`, `abandonVerification`. All five may be sent by anybody and each
  returns money to somebody, so somebody has reason to. Once the time has come one of them
  stays possible until the task moves (a vote may disable the verifier timeout, never the
  abandonment after it), so weak fairness is enough. **Nothing** is
  assumed of agents, verifiers, posters or the owner: they may never act again.
* **The two timeouts of ArenaArbitration**, for the same reason. Neither is stopped by a
  pause. Nothing is assumed of the coordinator, which is why `CouncilEnds` starts with a
  drawn council: a dispute in `Selecting` may stay there.
* **The queue's own steps** (NonceManager): a promise of the node settles one way or
  another, and the coroutine goes on. Faults are bounded, not fair.
* **The verifier agent's handlers and polls** go on, and a process that is down is started
  again (VerifierAgent); events may be missed and calls may fail, a bounded number of times.

In MCLive the fairness conditions of the parts are joined (`InCore(...) \/ InDispute(...)`):
`part` never changes, so weak fairness of the union is weak fairness of each.

## 5. The proofs

All are checked by tlapm, with no unproved leaf. They assume the assumptions named in the
modules and nothing else: constants are of the right type, address(0) is no actor, address
sets are finite, amounts and deadlines are natural numbers, severities are the five of the
code. One theorem has a hypothesis of its own, `OneToken`, explained below. The number of
tasks, addresses, offers, verifiers, amounts, templates, checkpoints, transactions, handlers
at a time, restarts and the length of a report are arbitrary; in the insurance the tasks may
be infinitely many.

| Theorem | Module | Says |
| --- | --- | --- |
| `TypeCorrect` | ArenaCoreProofs | `Spec => []TypeOK` |
| `TimestampsAlwaysOrdered`, `PhaseAlwaysSound`, `BondAlwaysSound` | ArenaCoreProofs | the life cycle of every task is sound |
| `PanelAlwaysSound` | ArenaCoreProofs | a panel is impartial, never too large, and complete when an approval counts |
| `AlwaysPaidByMajority` | ArenaCoreProofs | no step completes a task without a majority of its panel, or changes a vote |
| `MainAlwaysSolvent` | ArenaCoreProofs | Main can pay every bounty, bond and fee it owes |
| `StakesAlwaysExact` | ArenaCoreProofs | the auction's balance and Main's ledger are exactly the stakes the tasks keep |
| `LimitsAlwaysExact` | ArenaCoreProofs | the counters of bids and tasks are exact and within their limits |
| `Refinement` | ArenaCoreProofs | the two contracts implement TaskLifecycle |
| `SettledForGood`, `BondLeavesForGood` | ArenaCoreProofs | a settled task is settled once; a bond leaves once, to the right side of the window |
| `LossAlwaysBounded` | ArenaInsuranceProofs | an agent never loses more than its stake, nor by both paths |
| `TypeCorrect` | ArenaInsuranceProofs | no checked subtraction of the insurance underflows |
| `OnePolicyAlways` | ArenaInsuranceProofs | a task has one policy at most, of the one offer bought |
| `NeverProfit`, `NeverSlashedOnceSettled` | ArenaInsuranceProofs | a claim pays less than the loss; a settled policy's task is never slashed |
| `LedgersAlwaysExact`, `BooksAlwaysExact` | ArenaInsuranceProofs | the insurers' ledgers, and with one token the balance, are exact |
| `ExecutedOrCancelled`, `PauseTakesNotice`, `MainChangesWithNotice` | SatelliteProofs | notice is always given, of pauses too |
| `NeverSlashedEarly` | SatelliteProofs | a report slashes no bond before its challenge period is over |
| `RecordsAlwaysOwn` | SatelliteProofs | a program that posts tasks reports the id of the one it paid for, and loses none but to an error |
| `AccountsAlwaysExact` | AccountsProofs | each contract beside the core holds exactly what it owes; its counters agree with its records |
| `AlwaysHoldsOwed`, `AlwaysTyped` | ArenaArbitrationProofs | disputes hold the fees and stakes they owe but for rounding; no payout finds the contract short |
| `VerdictAlwaysFollowsVotes` | ArenaArbitrationProofs | the task is completed exactly when more members voted for the agent |
| `AlwaysExecutedInOrder` | OffChainProofs | the queue runs nothing twice or out of order, and its answers are true |
| `SaltsAlwaysMatch` | ClientProofs | the salt on an agent's disk opens its commitment |
| `StakesAlwaysTracked` | ClientProofs | wallet.json knows the stakes, but for a receipt that was lost |
| `EventsDeliveredOnce` | ClientProofs | the SDK's listener delivers each event once |
| `BidsAlwaysTracked` | ClientProofs | the SDK's bid manager has in its map, with its salt, every bid shown on chain, but where a call that knows it is still under way |
| `SaltAlwaysStored` | ClientProofs | the dashboard has stored the salt of the bid the contract holds |
| `SavedAlwaysLinked` | ClientProofs | the address book saved names a core that is completely linked, and a core's satellites work for it |
| `RecordedVotesCast` | OffChainProofs | a vote on a verifier's disk is the one cast, unless a comparison was sent for the task |
| `AlwaysNothingOverlooked`, `AlwaysApprovedKnowingly` | OffChainProofs | comparing reports merges and matches once; no approval by score alone |
| `NeverTakenForOlder` | OffChainProofs | the search for a contract's age never ends before the block of its deployment |
| `BetterDataNeverRiskier` | OffChainProofs | better data never makes a position riskier, audits and the first dollar of TVL apart |
| `RecordsAlwaysTrue` | OffChainProofs | the orchestrator's records are outcomes the contracts announced, each once, of the tasks of its agents; none is missing but those dropped at a stop or misread by a poll |

**Types of the core.** `TypeOK` is inductive on its own. It keeps balances and counters out
or as `Int`: that they stay natural follows from the sums below. One lemma per action,
grouped by the operators they share (settlement, panel).

**Life cycle.** `TimestampsOrdered` and `PhaseSound` are not inductive separately. That a
panel's clock starts after delivery needs the phase (a verifier registers only when
`Delivered` or `Verifying`); that a phase has an assignment needs its times. `LifecycleInv`
is `TypeOK` and, for each task, `Sound(t)`: `OrderedTimes`, `InPhase` and `BondCovered`
together. An action touches one task, so the argument is made for it (one lemma per
action, `TaskStep`) and a frame lemma carries the others (`Kept`). The later invariants
reuse this split.

**Panel.** `PanelInv` adds `FairPanel(t)` to `LifecycleInv`. The argument is about
cardinalities: registering adds one member to a panel that is not full, voting moves a
member from one class of votes to another and leaves the panel as it is, a timeout turns
the silent into rejections (`PanelFinite` and the lemmas after it). `PaidByMajority` is
an action property read off `PanelInv` before the step: approvals outnumber
rejections in a panel that is full.

**Sums.** The models write totals with `SumFunctionOnSet`, which the library defines by
recursion over the set. FiniteSums proves what that recursion computes: `IterationExists`
and `IterationsAgree` give the function that the definition chooses, by induction over the
subsets of a finite set. The library's induction theorems take an operator, so the induction
is stated with a set (`SubsetInduction`) and follows from the well-foundedness of strict
inclusion. From `SumRemove`, the sum less any one element, come the lemmas the
proofs use: how a sum changes with one summand (`SumUpdate`), over a split, a subset
or a product (`SumSplit`, `SumWhere`, `SumProduct`), and its bounds.

**Money.** `Orderly(t)` says what the sums read: a task that does not exist owes nothing, who
has not voted has no stake, the agent is not promised more than the bounty. It is invariant
with `PanelInv`. `MainInv` is solvency as a sum over all tasks, and its steps are `Covered(t)`:
what Main has to spare does not shrink but by what it owes less for the one task that moves.
The hardest case is settlement, where rounded fees, premia and slashes must not exceed
the bounty. For the stakes, `Moved(t, out, in)` says that both contracts book the same
stakes out and in; `MovedStakes` concludes for the two double sums, once for all actions. A
panel's refund touches many addresses in one step, hence functions `out` and `in` of them.

**Counters.** `LimitsInv` counts, for each agent, the tasks it is `Bidding` on and, for each
poster, those `Posted`. A step changes one of these sets by one task (`CountOne`). Its second
part is why releasing is exact: everybody in a task's list of bidders has committed, so
the loop over the list takes down exactly the counters that were raised. An emergency
withdrawal during the auction takes down the poster's counter and none of the bidders';
such a task counts for them for good, and is told from a cancelled one by its bounty
of zero.

**Refinement.** `Life(t)` maps `BidReveal` to `Open` and hides the window until assignment.
Each action is one step of TaskLifecycle on its task or a stutter; the step uses
`LifecycleInv` before it, e.g. `EnforceDeadline` is `Fail` with severity `Late` or
`Material`, and a bond set on settlement is a fifth of the stake. `SettledOnce` and
`BondLeavesOnce` are read off the same case analysis.

**LossBounded** needs that a bond is at most the stake and that `slashed` and the bond's
fields are never both set, per phase: `LossInv`. It also needs arithmetic of rounded shares,
stated once as lemmas (`Share` is monotone and at most its amount). Through `Refinement`
it holds of the core; through `EXTENDS` of every satellite that adds no step to `life`
other than TaskLifecycle's.

**Insurance.** `Inv` is `MarketInv` and `BooksInv`. `MarketInv` has the caps on coverage, one
policy per task (`OneAt`, with the case of task 0, whose empty policy the code reads as
bought) and `PolicySound`: a claim was paid for a failed task, a settlement came
after the window. That these stay true while the core moves is a lemma on TaskLifecycle
(`EndsStay`): a failed task keeps its slash, a completed one past its window cannot be
slashed. `BooksInv` has the ledger of every account and the balance as sums over the
open offers and the policies in force, written for a set of insurers (`OfferCapital(I)`,
`PolicyCapital(I)`), so that one lemma serves the ledgers, with one insurer, and the balance,
with all. A purchase closes the competing offers of other insurers and unlocks their
capital in one step. The types are part of the same induction, with counters in `Int`:
that `insurerLockedCapital` never falls below zero, where Solidity would revert,
follows from the sums. `OneToken` is needed for the balance only, where the code sums tokens
that the tasks choose: without it `ArenaInsurance_V_Tokens` finds `CapitalBacked` violated.

**Disputes.** `ArbitrationInv` says for each stage of a dispute what its council is
(`CouncilSound`: none before the draw; then all silent, and as many staked as are counted;
while voting all staked, each vote counted once and somebody still silent). `HoldsOwed`
is then a sum over the tasks of which a step moves one (`MoneyMoves`), by the dust it
leaves (`Gains`): none, or at the verdict less than one unit per winner. That is the
arithmetic of `_settleArbitration` with `w` winners, `l` losers and `m` silent members,
`w + l + m` the council (`SettlementAddsUp`), reached from the last vote with `m = 0` and from
the timeout with the members just slashed (`Ready`): the stakes the timeout took are those the
settlement no longer finds. That there is a winner, without whom the division reverts,
follows too. `balance >= 0` comes from `HoldsOwed`, so the types are a theorem after it.
`ArbitrationAssumption`: tasks and pool are finite, the council is not empty, the bounty is
positive (the code requires a minimum) and the timeout a natural number.

**The contracts beside the core.** `SatellitesInv` has one invariant per contract that is
deployed. A step is a step of one contract, or of none (`StepsApart`), so each invariant is
proved for its contract alone; `NeverSlashedEarly` needs one of them, `AccountsAlwaysExact`
all six. `AccountsExact` is inductive for none: what has to be added differs.
* *Outcomes*: `OutcomesInv` adds the types. The pending bonds are a sum over a set of tasks
  that changes, so it is written over all tasks, with 0 for a bond that is not pending
  (`BondsOf`). A bond that is slashed needs a report that ends: `SlashBond` alone, a step of
  the core, is the owner's, which the instance in Satellites leaves out as the promise does.
* *Delegation*: a pool's list names every delegator with a contribution once (`ListSound`:
  `Distinct` is what makes the removal by swapping the last element in remove no one else,
  `SwappedList`). The contract's balance is a sum over a table of pools and delegators, of
  which a step changes one entry (`ContributionChange`).
* *Syndicates*: the same for members, and `Pointing`: a member points to the one syndicate it
  has a stake in, without which it could join a second one and leave the first. A dissolution
  writes every row of a syndicate at once; who votes has a stake as long as it is active.
* *Recurring*: `OccurrencesSound` says that the core's tasks are the occurrences triggered so
  far, each once: an occurrence triggered has a number no earlier one has. The limit on slots
  counts the templates that are open, which only a creation adds to (`TemplateWrite`).
* *Consensus*: the ranking is a recursive function over the bidders; `PicksExist` and
  `SelectionPicks` say what it computes. The loop's invariant is `PickSound`: whoever enters and
  whoever is pushed out, the stakes ranked and those repaid add up to those revealed so far,
  for whatever scores (`EntersAt` is the sum of a list that an entry is put into and the last
  leaves). That no bidder is listed twice, so that no stake is repaid twice, is `BiddersSound`.
* *Continuous*: `OwedFor` is what one contract holds, as a function of its records: escrow,
  bond, the fees of rejecting verifiers, and per address the bid, the working stake and the
  stakes in open panels. `agentActiveStake` covers, besides what is held, the stakes already
  slashed (`Covers`): a correction gives one of these back to the agent and never raises the
  counter, so that with what is held alone the bound would not be inductive. `PanelSound`: a
  panel is empty before its checkpoint is submitted, and while it verifies a vote is open.

**Timelock.** There is no step of Main but through `ExecuteTransaction`, pauses included.
`TimelockInv`: a queued transaction's eta is at least the delay after
deployment, an unwritten one has expired, a pause was executed and so had an eta.

**Event listener.** `ListenerInv`: the provider has one listener for each type in the map,
at the contract of that type, and none elsewhere.

**Queue.** `ExecutedInOrder` does not mention the transaction in hand and is not inductive.
`QueueInv` says where the loop is: it is at a place `k` of the list of all that were
submitted, what waits is the list after `k` (`Waits`), all that ran was submitted at `k`
or before (`Ran`), nothing after `k` has an answer (`Open`), and the transaction in hand
ran last or did not run, by the stage the loop is in (`Holds`).

**Bidding agents.** `BidInv`: the auction takes a commitment only where there is none, so
whatever salt a handler has in hand for a task with a commitment is the one committed,
and the file, which every handler rewrites, can only have that one or an older one for a
task without. For the stakes it also needs that what ended stays ended: a reveal comes at
or before `RevealDeadline` and a task ends after it, so a release event that is underway
stays true (`RevealAssumption` says the deadline is a natural number). Most steps of a
handler only move it on; `QuietStep` covers them at once.

**Bid manager.** `ManagerInv` follows a salt through its life: new with the call that drew it
(`Unused`), committed for one task, then the salt of one bid object (`Made`), which the map
holds or `lostSalts` counts as lost. An object, also one that an application exported and brings
back later, is of the salt committed for its task and is called revealed only when it is
(`TrueBid`): the contract takes one commitment per task, so this never becomes false again. A
call is described by the await it stands at (`CallOK`).

**Bid form.** `FormInv` adds to `SaltStored` the wallet's prompts: a commitment that is
asked for, signed or mined is of the salt stored. The form draws a salt only while none is
stored, so that storing it makes no earlier commitment false. `mempool` is a
sequence of any length.

**Deployment.** Every script is a program of steps, and the proof first says what the programs
have in common: one that deploys a core links it at once (`LinksCoreFirst`), and what
follows neither deploys nor touches those links, and links a core only to satellites that the
same script deployed (`LaterStep`; `CoreProgram`, `RemainingProgram`). `DeploymentInv` says how far each
execution is: once it deployed, its addresses are its own, and each link it has passed is on
chain (`Done`). A book saved is the core of one execution, with its three links (`Complete`).
That an execution that runs beside it cannot take these away is `LinksKept`: a link of
the core is only ever set to what it is, between addresses of one execution, and nobody
sets a satellite's `core` again. `deploy-remaining.js`, which works on a book it read, has it
from the file. `ScriptsAssumption` says which scripts there are.

**Verifier agent.** `VerifierInv`: a vote is cast on a task that is being verified, for which
no panel is drawn again (`VoteStays`), and a settlement sets only votes that are still owed; so a
vote stays cast, and it stays what it is unless a comparison goes over it, which the chain
remembers (`compared`). A handler that votes has a verdict, and once the vote is mined it is
the one on the chain, or a comparison was sent (`InHand`, `VotedAs`); a record with a vote says
as much, in a record marked failed as well (`OnDisk`), because the vote is written only
after it was mined. A standard vote is sent on a task in comparison mode too, when the mode
could not be read.

**Orchestrator.** `RecordsTrue` reads the records only, `OrchestratorInv` also what they come
from: a task of the map goes where its type is routed, or its entry is the empty answer of a poll
(`EntryTrue`, `misread`), a poll asks for tasks that exist and for one past the last
(`PollInv`), and an event not yet handled reports what happened, once, and is not recorded
(`EventsInv`). Whether an answer is written over an entry that an event made meanwhile is the
hard case (`PollSetKeeps`): it changes the route only when the answer is empty. A stop drops the
oldest records, and what is kept stays without repetition (`StopKeeps`). A completed task
may still fail after an appeal, which is why `Happened` is no equality of status.
`TasksAssumption` says what the constants are: numbers of tasks, of records kept and of tasks in
the poll's window, and task types that the routing table has.

**Programs that post tasks.** `PosterInv` follows a creation through its calls: it has a task on
chain exactly from the receipt on (`TaskOf`), or failed with one when it was cut off
in between (`unsure`). A creation's task has one id, which no later task changes (`Once`), so
what a receipt says stays true. The bot alone takes id 0 for a missing one and reads a count
instead, which is positive by then. It has as many records as it has creations answered, also
over a restart (`Recorded`). `JobsAssumption`: nobody is no creation.

**Risk scores.** The machine changes one datum; the proof is about any number of them (`Better`).
A ladder that descends (`Ladder`) gives no more to what is further up (`BelowDescends`); four of
the scores stand on one, three are cases. Their surcharges and caps are monotone, and
so is the rounded mean of weights that are natural numbers. The reading of a listing date
depends on two sources at once: an old contract eases what the listing says (`IncidentsLower`).
An added audit or link, and the first dollar of TVL that brings a surcharge (`SetApart`), are
apart because the score does rise with them (section 6).
`ScoringAssumption`: the models are of the three, and backgrounds of the sources' types.

**Age of a contract.** `SearchInv` is the bisection's: the code is there at `hi`, and unless a
call failed, not yet below `lo`. Each probe halves what is left (`MidBetween`), so the
search that stops before its rounds are used up has found the block or the one after.

**Reports.** A report is a sequence of any length, so these are proofs about sequences and
folds. Sorting is described by ranks: the place of a finding is the number of findings
before it. That every place up to the length is taken is a pigeonhole (`SortEnumerates`),
from which each merged finding has one place (`SortedOnce`). The matching is a fold over
the verifier's places; `FoldExists` and `FoldsAgree` say what such a fold computes, by
`SubsetInduction`, and `MatchingGreedy` carries the loop's invariant through it: pairs fit, no
place is used twice, and what the loop passed by fits nothing still unused. `ScoreType`
bounds the score, which `ApprovedKnowingly` compares. `SeverityAssumption` is what the analyzers'
parsers see to: a severity they do not know becomes one of the five.

### Only model-checked

* Liveness and `ENABLED`, which this prover does not treat.
* `SavedBidIsRevealed` of the bidding agents, which does not hold of every constant. It
  excuses a bid that the agent cannot pay now; with several bids a stake that is refunded
  after the reveal deadline can make one affordable whose reveal was skipped. In the run's
  instance that does not happen.
* `TotalsAgree` and `ShownAsOnChain` of the index: invariants over every handler of the
  mapping beside every step of the contracts; see the plan.
* `ReadsConsistent`: its module uses OutputSchema, whose operators are RECURSIVE, and the prover
  loses its SMT backend there.


## 6. What the models found

Each is a run that must fail:

1. **A late resolution locks a task** (`ArenaCore_V_Deadline`). `resolveAuction` may be
   called after the deadline. Then `deadline - assignedAt` (Auction:873) underflows in
   every `enforceDeadline`, `deliverTask` is too late, and bounty, stake and the poster's
   slot stay until an emergency. Auction:866 says the call "Enforces a missed delivery
   deadline by slashing the assigned agent".
2. **A bid revealed after cancellation is lost** (`ArenaCore_V_Cancel`). `revealBid`
   (Auction:331) does not look at the status except to leave `Open`. Auction:886:
   "Refunds all bid stakes to bidders when a task is cancelled".
3. **Fees of one token are paid out of another's capital** (`ArenaInsurance_V_Tokens`).
   ArenaInsurance:395 pays the one `protocolTreasury` in the default token; :188 says
   "Capital stays locked".
4. **An honest reporter's bond can stay** (`ArenaOutcomes_V_Reporter`). Finalisation
   slashes first, and that reverts once the slash window is over or the bond is gone.
   ArenaOutcomes:60: "Honest reporters get their bond back after the challenge period".
5. **The vote buttons are off by one** (`WebApp_V_Votes`). `frontend/src/lib/contracts.ts:704`
   counts Approve 0, Reject 1, Abstain 2; ArenaTypes:12 has Pending 0, Approved 1,
   Rejected 2. Approve reverts, Reject approves.

Seen while modelling, represented faithfully in the models, and not made into runs:

**Core.** Fees of verifiers in the minority, and what a division leaves, stay on Main
(Auction:608); `contracts/test/integration/invariant-leakage.test.js:356` counts on none.
The verifier timeout runs from the first registration (Auction:727), so a verifier who
registered a moment ago is slashed as silent. Once somebody revealed a bid with a price of
zero an auction cannot end: resolving divides by the price (Auction:382), and `cancelTask`
wants the task `Open`. A tied task is `Disputed` and holds bounty, stakes and the poster's
slot; a council changes the status and moves none of that money.

**Disputes.** An expired dispute leaves a completed task `Disputed`: its bond can neither be
claimed nor slashed (Main:459, :465), and a second dispute is refused. A verdict for the poster
on a completed task leaves its bond in Main for ever; one for the agent on a failed or
unsettled task pays nothing; bounty and panel stakes of a task disputed during
verification stay. ArenaArbitration:352 says the fee is refunded if the disputant wins;
`Settle` never does.

**VRF.** A delivery reverts while the pool is smaller than the panel (ArenaCoreVRF:161), and
the agent is then slashed as late. A drawn verifier may have next to no stake left: the minimum is
looked at on joining only. A comparison vote overwrites an earlier vote. The callback
ignores pause and `disableVRF`; a reverted callback is not repeated.

**Satellites.** Consensus does not bound prices by the bounty: when the agents that agree
cost more, `finalizeConsensus` reverts for ever (ArenaConsensus:696). An insurance policy has
no exit when its task ends cancelled or disputed. Outcome criteria may be registered after
completion (ArenaOutcomes:151). `cancelTransaction` accepts an id that is not queued yet, and
queueing forgets it (ArenaTimelock:82). ArenaTimelock:11 says "pause() and unpause() bypass
the timelock for emergency response"; they do not: the timelock is Main's owner, has no such
function, and `executeTransaction` is its only call, so that a pause waits 48 hours like everything
else. `NoticeGiven` and its theorem hold of pauses for this reason, and refute that sentence.
*Continuous*: ArenaArbitration declares fewer fields of the contract struct than it has, so
the word it reads as `status` is `maxFailures`; disputes are accepted exactly for contracts
with `maxFailures = 2`, in any status (the comment at ArenaArbitration:474 says "Active status
is 2"). A bid may be revealed after cancellation; a missed last checkpoint never settles;
a slashed stake stays in `agentActiveStake`; the winning price is never used; a dispute
resolved after the contract completed reverts for ever (:1201); a correction credits a stake
whose tokens are gone. The first reveal moves a contract to `BidReveal` (:493–495).
*Recurring*: "Pausing or cancelling refunds remaining escrowed funds" (ArenaRecurring:67), but
`pauseTemplate` (:313–321) moves no money. The contract is the poster of every triggered
task, so refunds stay with it and one limit of active tasks holds for all templates (:406);
`recordCompletion` reverts for every task that has an agent; the exclusive bid window of
:61–63 is never given.
*Delegation*: locked capital leaves `totalDelegated` and is subtracted again on withdrawal
(:167). *Syndicates*: dissolving keeps votes and weights; a last member with no contribution
leaves the rounding. The core never calls the hooks of either.

**Agents.** A crash between the receipt of a commitment and `saveBidRecord` loses the salt
(`persistence.ts:7–8` and the README of the audit agent promise otherwise); interrupted
executions are never resumed; the stake of a lost auction is not released
(`wallet.ts:144–146`). The risk agent's second handler overwrites `bid_committed` with
`skipped`; it calls a `deliver` that does not exist, and stakes 8 % where 10 % is the least.
An additional audit can make a position riskier (`scoring.ts:186`), and so does the first
dollar of TVL: the surcharge on a high market cap over TVL is left out while TVL is 0
(`scoring.ts:403`), and the TVL score of a fallen protocol may be capped at 100 on both sides of
the step. `BetterNeverRiskier` excludes both.
*Verifier agent*: it checks whether it is verifying a task before two awaits (`agent.ts:205–230`);
the poll sees the last 50 tasks only (`agent.ts:326–328`), so an older task whose event was missed
is forgotten; a vote sent before the panel is full is refused (A49) when everybody else has
voted, and the record `failed` is never tried again. What it records is its own decision
(`verification.ts:170`): the contract judges a comparison by 8000 basis points, whatever threshold
is configured (`config.ts:44` allows up to 100), so a local rejection may be an approval on
chain and the other way round; and after a failed `checkComparisonMode` a standard vote may
stand where a second pipeline sends a comparison over it.

**Orchestrator.** The wrappers share one environment (`agent-wrappers.ts:157`): the agent
registered last gives all of them its data directory. A poll overwrites a newer status with
a stale answer (`task-router.ts:163–180`); task 0 is never polled, but the id `taskCount` is
(`task-router.ts:159`), which no task has yet: `getTask` returns zeros, and stored after
`TaskCreated` was handled they replace the routed entry by one without a route, which later polls
skip, so that the task's outcome is never recorded. Nothing routes the agents'
transactions through the queue (`nonce-manager.ts:97`).

**SDK, API, poster bot.** `claimSlashBond` calls the wrong contract (`client.ts:794–802`), two
functions of the ABI do not exist (`abis.ts:102–103`), three events are listened for at the
wrong address (`events.ts:130–138`), approvals overwrite each other. In `BidManager` a reveal
in flight overwrites `expired`, `won` or `lost` (`bid-manager.ts:143`), and an import restores
stale statuses. The bot caches `tosAccepted` and stops after the terms change; webhooks are
never delivered.

**Subgraph.** No handler follows a continuous contract to `BidReveal`: the index shows it `Open`
until an agent is assigned (`mapping.ts:751–762`). After a verifier timeout a completed task has
fewer votes than verifiers, in the index and in the SDK's answers. Emergency exits, abandonment
and the delivery timeout have no handler (`mapping.ts:4`), a slash after completion counts
twice, a syndicate's founder is not counted, and four signatures of the manifest do not match
the contracts'.

**Deployment, web pages.** ArenaCoreAuction and ArenaCoreVRF are not `Ownable`, so `deploy.js`
throws at its second transfer of ownership and never saves the address book;
`verify-deployment` always fails; an interrupted `deploy-remaining` leaves a book that names
the old satellites. `create/page.tsx:211–223` takes the task id from the first log;
the verifier page reads `verifierRegistry` with five words where the contract returns three.

## 7. What is not modelled

Every component and its status is in `PROJECT.json`. Inside modelled contracts these are
left out: `emergencySweep` of the core (in ArenaTimelock it is one of the owner's calls),
parameter setters and whitelists, output schemas on chain, hooks that nothing calls (the
settlement of a task's delegation, payouts of syndicates), view functions and events beyond
what the index needs. The sweep would take what others are owed by design, so no solvency
property can hold with it. The orchestrator polls one cycle at a time
here, although a slow cycle may overlap the next one in the code. Off chain: prompts, parsing,
HTTP clients, dashboards, rate limits.

Left out for good: reputation tokens, compliance and profiles (setters without interaction),
test doubles, demo scripts, the spreadsheets about the business.

### Plan

Done, in this order: the core and its properties, its abstract specification and the
refinement, the satellites over it, the proofs of the core's life cycle and of the timelock;
pools, disputes and checkpoints; the programs off chain; the sums of money, the panel and
the insurance market as theorems; disputes; the queue, the bidding agents, the verifier agent and the
comparison of reports as theorems; the books of the contracts beside the core; the bid
manager, the bid form, the orchestrator's records, the search for a contract's age, the
deployment scripts, the programs that post tasks and the risk scores.

Next, as theorems: the index's `TotalsAgree` and `ShownAsOnChain`, handler by handler.
