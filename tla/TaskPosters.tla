---------------------------- MODULE TaskPosters ----------------------------
(***************************************************************************)
(* The programs that create tasks for one wallet: the SDK                  *)
(* (createAndFundTask), the REST API (POST /tasks, behind an API key) and  *)
(* the poster bot (postTask, in cycles).  Several creations of the wallet  *)
(* run at once, each a sequence of awaited calls; between two of them the  *)
(* others, other posters and the compliance officer of the chain go on.    *)
(* On the chain: the allowance and balance of the wallet, the task counter *)
(* of ArenaCoreMain and the terms of service of ArenaCompliance.           *)
(***************************************************************************)
EXTENDS Naturals, Sequences, FiniteSets

CONSTANTS
  Jobs,         \* the creations that may run: requests, calls or cycles
  Bounties,     \* bounties, all at least minBounty
  WalletFunds,  \* what the wallet holds at first
  MinBalance,   \* the bot's minBalanceUsdc
  MaxActive,    \* maxPosterActiveTasks
  MaxFailures,  \* the bot's maxConsecutiveFailures
  MaxKeys,      \* active keys per owner
  MaxHooks,     \* webhooks per owner
  MaxTerms,     \* bound: versions of the terms
  MaxOthers,    \* bound: tasks of other posters
  MaxFaults     \* bound: failed or unanswered calls, and restarts of the program

VARIABLES
  client,     \* which program: "sdk", "api" or "bot"
  jobs,       \* [at, bounty, hash, told]: where each creation is
  allowance,  \* of the wallet for ArenaCoreMain
  balance,    \* of the wallet
  posted,     \* the creators of the tasks, in the order of their ids (0 first); None: others
  active,     \* posterActiveTasks of the wallet
  tosHash,    \* of the compliance contract: a version, 0 when none is set
  strict,     \* requireCurrentTos
  accepted,   \* the version the wallet accepted, 0 for none
  cached,     \* the bot's tosAccepted
  failures,   \* the bot's consecutiveFailures
  running,    \* the bot's cycles are on
  records,    \* posted-tasks.json: the ids recorded
  unsure,     \* jobs cut off by an error or a restart
  keys, hooks,  \* api-keys.json and webhooks.json of one owner: numbers of active records
  faults        \* failed calls and restarts so far

posterVars == <<client, jobs, allowance, balance, posted, active, tosHash, strict, accepted,
                cached, failures, running, records, unsure, keys, hooks, faults>>
wallet == <<allowance, balance, posted, active>>
compliance == <<tosHash, strict, accepted>>
bot == <<cached, failures, running, records>>
files == <<keys, hooks>>
troubles == <<unsure, faults>>

None == "none"

ASSUME JobsAssumption == None \notin Jobs

NoId == 99
Unlimited == 99

Moves(j, at) == jobs' = [jobs EXCEPT ![j].at = at]

\* postTask returns null: the cycle counts the failure and stops the bot at the limit.
Fails(j) ==
    /\ Moves(j, "failed")
    /\ IF client = "bot"
       THEN /\ failures' = failures + 1
            /\ running' = (running /\ failures + 1 < MaxFailures)
       ELSE UNCHANGED <<failures, running>>
    /\ UNCHANGED <<cached, records>>

-----------------------------------------------------------------------------
(* The chain.                                                              *)

HasAcceptedTos == tosHash = 0 \/ IF strict THEN accepted = tosHash ELSE accepted # 0

\* createTask: what it refuses, and what it does.
Accepts(bounty) == /\ active < MaxActive /\ HasAcceptedTos
                   /\ allowance >= bounty /\ balance >= bounty

Creates(j, bounty) ==
    /\ posted' = Append(posted, j)
    /\ active' = active + 1
    /\ balance' = balance - bounty
    /\ allowance' = IF allowance = Unlimited THEN Unlimited ELSE allowance - bounty

IdOf(j) == CHOOSE i \in 0..Len(posted) - 1 : posted[i + 1] = j

OtherCreates ==
    /\ Cardinality({i \in DOMAIN posted : posted[i] = None}) < MaxOthers
    /\ posted' = Append(posted, None)
    /\ UNCHANGED <<client, jobs, allowance, balance, active, compliance, bot, files, troubles>>

\* A task of the wallet ends.
TaskEnds ==
    /\ active > 0
    /\ active' = active - 1
    /\ UNCHANGED <<client, jobs, allowance, balance, posted, compliance, bot, files, troubles>>

\* setTosHash and setRequireCurrentTos.
SetTosHash ==
    /\ tosHash < MaxTerms
    /\ tosHash' = tosHash + 1
    /\ UNCHANGED <<client, jobs, wallet, strict, accepted, bot, files, troubles>>

SetRequireCurrentTos ==
    /\ strict' = ~strict
    /\ UNCHANGED <<client, jobs, wallet, tosHash, accepted, bot, files, troubles>>

-----------------------------------------------------------------------------
(* The beginning of a creation.                                            *)

Begins(j, at) ==
    /\ jobs[j].at = "idle"
    /\ \E b \in Bounties : jobs' = [jobs EXCEPT ![j].at = at, ![j].bounty = b]

\* createAndFundTask pins the criteria and approves the bounty, whatever the allowance is.
CreateAndFundTask(j) ==
    /\ client = "sdk" /\ Begins(j, "approve")
    /\ UNCHANGED <<client, wallet, compliance, bot, files, troubles>>

\* POST /tasks with an active key; without one the request ends at once.
PostTasks(j) ==
    /\ client = "api" /\ keys > 0 /\ Begins(j, "allowance")
    /\ UNCHANGED <<client, wallet, compliance, bot, files, troubles>>

\* A cycle of the bot: it reads the balance and gives up below the threshold.
PostCycle(j) ==
    /\ client = "bot" /\ running
    /\ balance >= MinBalance
    /\ Begins(j, "afford")
    /\ UNCHANGED <<client, wallet, compliance, bot, files, troubles>>

\* The balance cannot be read: the cycle counts a failure but does not stop the bot.
BalanceReadFails(j) ==
    /\ client = "bot" /\ running /\ jobs[j].at = "idle" /\ faults < MaxFaults
    /\ faults' = faults + 1 /\ failures' = failures + 1
    /\ Moves(j, "failed")
    /\ UNCHANGED <<client, wallet, compliance, cached, running, records, files, unsure>>

\* The bot is stopped: cycles under way go on.
Stop ==
    /\ client = "bot" /\ running
    /\ running' = FALSE
    /\ UNCHANGED <<client, jobs, wallet, compliance, cached, failures, records, files, troubles>>

\* canAffordPost.
CanAffordPost(j) ==
    /\ jobs[j].at = "afford"
    /\ IF balance >= MinBalance /\ balance >= jobs[j].bounty /\ active < MaxActive
       THEN Moves(j, "terms") /\ UNCHANGED bot
       ELSE Fails(j)
    /\ UNCHANGED <<client, wallet, compliance, files, troubles>>

\* ensureToS: the answer is remembered for ever; a missing acceptance reads the hash.
EnsureToS(j) ==
    /\ jobs[j].at = "terms"
    /\ IF cached \/ HasAcceptedTos
       THEN Moves(j, "allowance") /\ cached' = TRUE
       ELSE /\ jobs' = [jobs EXCEPT ![j].at = "accept", ![j].hash = tosHash]
            /\ UNCHANGED cached
    /\ UNCHANGED <<client, wallet, compliance, failures, running, records, files, troubles>>

\* acceptTermsOfService refuses a hash that is no longer the current one, or accepted twice.
AcceptTerms(j) ==
    /\ jobs[j].at = "accept"
    /\ IF jobs[j].hash = tosHash /\ accepted # tosHash
       THEN /\ accepted' = tosHash /\ cached' = TRUE /\ Moves(j, "allowance")
            /\ UNCHANGED <<failures, running, records>>
       ELSE Fails(j) /\ UNCHANGED accepted
    /\ UNCHANGED <<client, wallet, tosHash, strict, files, troubles>>

-----------------------------------------------------------------------------
(* Approving, creating, answering.                                         *)

ReadAllowance(j) ==
    /\ jobs[j].at = "allowance"
    /\ Moves(j, IF allowance < jobs[j].bounty THEN "approve" ELSE "create")
    /\ UNCHANGED <<client, wallet, compliance, bot, files, troubles>>

\* approve replaces the allowance: by the bounty, the bot's by the largest amount.
Approve(j) ==
    /\ jobs[j].at = "approve"
    /\ allowance' = IF client = "bot" THEN Unlimited ELSE jobs[j].bounty
    /\ Moves(j, "create")
    /\ UNCHANGED <<client, balance, posted, active, compliance, bot, files, troubles>>

Create(j) ==
    /\ jobs[j].at = "create"
    /\ IF Accepts(jobs[j].bounty)
       THEN Creates(j, jobs[j].bounty) /\ Moves(j, "receipt") /\ UNCHANGED bot
       ELSE Fails(j) /\ UNCHANGED wallet
    /\ UNCHANGED <<client, compliance, files, troubles>>

\* The id in the receipt's TaskCreated event.
BugTaskIdOf(j) == Len(posted) - 1
TaskIdOf(j) == IdOf(j)

\* The receipt arrives.  The bot takes id 0 for a missing event and asks for the counter.
Answer(j) ==
    /\ jobs[j].at = "receipt"
    /\ IF client = "bot" /\ TaskIdOf(j) = 0
       THEN Moves(j, "count") /\ UNCHANGED bot
       ELSE /\ jobs' = [jobs EXCEPT ![j].at = "done", ![j].told = TaskIdOf(j)]
            /\ IF client = "bot"
               THEN records' = Append(records, TaskIdOf(j)) /\ failures' = 0
               ELSE UNCHANGED <<records, failures>>
            /\ UNCHANGED <<cached, running>>
    /\ UNCHANGED <<client, wallet, compliance, files, troubles>>

ReadCount(j) ==
    /\ jobs[j].at = "count"
    /\ jobs' = [jobs EXCEPT ![j].at = "done", ![j].told = Len(posted)]
    /\ records' = Append(records, Len(posted)) /\ failures' = 0
    /\ UNCHANGED <<client, wallet, compliance, cached, running, files, troubles>>

-----------------------------------------------------------------------------
(* Errors and restarts.                                                    *)

\* A call fails, or its answer is lost: after the transaction is mined the task exists all
\* the same.  The bot's counter read is caught: the number of records stands in for the id.
CallFails(j) ==
    /\ faults < MaxFaults /\ jobs[j].at \notin {"idle", "failed", "done", "count"}
    /\ faults' = faults + 1 /\ unsure' = unsure \cup {j}
    /\ Fails(j)
    /\ UNCHANGED <<client, wallet, compliance, files>>

CountFails(j) ==
    /\ faults < MaxFaults /\ jobs[j].at = "count"
    /\ faults' = faults + 1
    /\ jobs' = [jobs EXCEPT ![j].at = "done", ![j].told = Len(records) + 1]
    /\ records' = Append(records, Len(records) + 1) /\ failures' = 0
    /\ UNCHANGED <<client, wallet, compliance, cached, running, files, unsure>>

\* The program stops and starts again: nothing but its files is left.
Restart ==
    /\ faults < MaxFaults
    /\ faults' = faults + 1
    /\ LET cut == {j \in Jobs : jobs[j].at \notin {"idle", "failed", "done"}}
       IN /\ jobs' = [j \in Jobs |-> IF j \in cut THEN [jobs[j] EXCEPT !.at = "failed"]
                                     ELSE jobs[j]]
          /\ unsure' = unsure \cup cut
    /\ cached' = FALSE /\ failures' = 0 /\ running' = (client = "bot")
    /\ UNCHANGED <<client, wallet, compliance, records, files>>

-----------------------------------------------------------------------------
(* The other handlers of the REST API.                                     *)

CreateApiKey ==
    /\ client = "api" /\ keys < MaxKeys
    /\ keys' = keys + 1
    /\ UNCHANGED <<client, jobs, wallet, compliance, bot, hooks, troubles>>

RevokeApiKey ==
    /\ client = "api" /\ keys > 0
    /\ keys' = keys - 1
    /\ UNCHANGED <<client, jobs, wallet, compliance, bot, hooks, troubles>>

CreateWebhook ==
    /\ client = "api" /\ keys > 0 /\ hooks < MaxHooks
    /\ hooks' = hooks + 1
    /\ UNCHANGED <<client, jobs, wallet, compliance, bot, keys, troubles>>

DeleteWebhook ==
    /\ client = "api" /\ keys > 0 /\ hooks > 0
    /\ hooks' = hooks - 1
    /\ UNCHANGED <<client, jobs, wallet, compliance, bot, keys, troubles>>

-----------------------------------------------------------------------------
PosterInit ==
    /\ client \in {"sdk", "api", "bot"}
    /\ jobs = [j \in Jobs |-> [at |-> "idle", bounty |-> 0, hash |-> 0, told |-> NoId]]
    /\ allowance = 0 /\ balance = WalletFunds /\ posted = <<>> /\ active = 0
    /\ tosHash = 0 /\ strict = FALSE /\ accepted = 0
    /\ cached = FALSE /\ failures = 0 /\ running = (client = "bot") /\ records = <<>>
    /\ unsure = {} /\ keys = 0 /\ hooks = 0 /\ faults = 0

PosterNext ==
    \/ \E j \in Jobs :
          \/ CreateAndFundTask(j) \/ PostTasks(j) \/ PostCycle(j)
          \/ CanAffordPost(j) \/ EnsureToS(j) \/ AcceptTerms(j)
          \/ ReadAllowance(j) \/ Approve(j) \/ Create(j) \/ Answer(j) \/ ReadCount(j)
          \/ CallFails(j) \/ CountFails(j) \/ BalanceReadFails(j)
    \/ Stop \/ OtherCreates \/ TaskEnds \/ SetTosHash \/ SetRequireCurrentTos \/ Restart
    \/ CreateApiKey \/ RevokeApiKey \/ CreateWebhook \/ DeleteWebhook

PosterSpec == PosterInit /\ [][PosterNext]_posterVars

-----------------------------------------------------------------------------
(* Properties.                                                             *)

\* A creation that reports an id reports the task it paid for, however many creations and
\* foreign tasks interleave; only the bot gives task 0 another id.  A task of the wallet that
\* nobody was told about belongs to a creation still waiting for its receipt or cut off by an
\* error or a restart: posted-tasks.json and the answers account for all the money.
RecordsOwn ==
    /\ \A j \in Jobs : jobs[j].at = "done" =>
          \/ jobs[j].told = IdOf(j)
          \/ client = "bot" /\ IdOf(j) = 0 /\ jobs[j].told > 0
    /\ \A i \in DOMAIN posted : posted[i] # None =>
          \/ jobs[posted[i]].at \in {"receipt", "count", "done"}
          \/ posted[i] \in unsure
    /\ client = "bot" =>
          Len(records) = Cardinality({j \in Jobs : jobs[j].at = "done"})
=============================================================================
