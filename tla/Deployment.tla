----------------------------- MODULE Deployment -----------------------------
(***************************************************************************)
(* The deployment scripts of contracts/scripts.  A script is a sequence of *)
(* awaited transactions and ends, or not, by writing the address book      *)
(* deployments/base-sepolia.json.  Scripts are killed between two steps,   *)
(* started twice at once and run on top of one another; two formats of the *)
(* book are in use.  The deployments of one script are a single step: a    *)
(* script killed among them leaves contracts nobody refers to.             *)
(***************************************************************************)
EXTENDS Naturals, Sequences

CONSTANTS
  Scripts,   \* the scripts an operator runs
  MaxRuns    \* bound: executions of a script

\* The scripts there are, by their files' names.
ASSUME ScriptsAssumption ==
    Scripts \subseteq {"deploy", "deploy-sepolia", "deploy-direct", "deploy-clean",
                      "deploy-hardhat-auto", "deploy-remaining", "deploy-local", "setup-testnet",
                      "seed-testnet", "verify-deployment"}

VARIABLES
  procs,        \* the executions, in the order of their starts
  links,        \* <<contract, field, contract>>: the address fields on chain
  timelocked,   \* contracts whose owner is a timelock
  whitelisted,  \* <<contract, token>>: the whitelists
  file,         \* the address book on disk
  env           \* frontend/.env: the addresses the local web application uses

deploymentVars == <<procs, links, timelocked, whitelisted, file, env>>

Nowhere == <<"none", 0>>
NoBook == [format |-> "none", book |-> <<>>]

-----------------------------------------------------------------------------
(* The steps.                                                              *)

Deploys(names) == [op |-> "deploy", names |-> names]
Link(of, field, to) == [op |-> "link", of |-> of, field |-> field, to |-> to]
Whitelist(of) == [op |-> "whitelist", of |-> of]
Transfer(of) == [op |-> "transfer", of |-> of]
Save(format) == [op |-> "save", format |-> format]
SaveEnv == [op |-> "env"]
Check(section) == [op |-> "check", section |-> section]

Core == {"MockUSDC", "ArenaCoreMain", "ArenaCoreAuction", "ArenaCoreVRF"}

\* The contracts that know only ArenaCoreMain, by their constructor.
SingleCore == {"ArenaContinuous", "ArenaArbitration", "ArenaReputation", "ArenaSyndicates",
               "ArenaInsurance", "ArenaDelegation", "ArenaOutcomes", "ArenaCompliance",
               "ArenaProfiles", "ArenaRecurring", "ArenaConsensus"}

LinkCore == <<Link("ArenaCoreMain", "arenaCoreAuction", "ArenaCoreAuction"),
              Link("ArenaCoreMain", "arenaCoreVRF", "ArenaCoreVRF"),
              Link("ArenaCoreAuction", "arenaCoreVRF", "ArenaCoreVRF")>>

\* deploy.js: fifteen contracts, linked, whitelisted, handed to the timelock, then saved.
FullDeploys == <<Deploys(Core \cup (SingleCore \ {"ArenaConsensus"}) \cup {"ArenaTimelock"})>>

FullLinks ==
    LinkCore \o
    <<Link("ArenaCoreMain", "arenaArbitration", "ArenaArbitration"),
      Link("ArenaCoreMain", "arenaOutcomes", "ArenaOutcomes"),
      Link("ArenaCoreMain", "arenaCompliance", "ArenaCompliance"),
      Link("ArenaArbitration", "arenaContinuous", "ArenaContinuous"),
      Whitelist("ArenaCoreMain")>>

Owned == <<"ArenaCoreMain", "ArenaCoreAuction", "ArenaCoreVRF", "ArenaContinuous",
           "ArenaArbitration", "ArenaReputation", "ArenaSyndicates", "ArenaInsurance",
           "ArenaDelegation", "ArenaOutcomes", "ArenaCompliance", "ArenaProfiles",
           "ArenaRecurring">>
Transfers == [i \in DOMAIN Owned |-> Transfer(Owned[i])]

Full == FullDeploys \o FullLinks \o Transfers \o <<Save("nested")>>

\* deploy-sepolia.js, deploy-direct.js, deploy-clean.js, deploy-hardhat-auto.js: the same
\* eight contracts, in different orders of configuration and formats of the book.
Eight == Core \cup {"ArenaReputation", "ArenaConsensus", "ArenaProfiles", "ArenaRecurring"}
LinkReputation == Link("ArenaReputation", "arenaCore", "ArenaCoreMain")

Sepolia ==
    <<Deploys(Eight)>> \o LinkCore \o
    <<Whitelist("ArenaCoreMain"), Whitelist("ArenaConsensus"), LinkReputation, Save("nested")>>

Direct == <<Deploys(Eight)>> \o LinkCore \o
          <<Whitelist("ArenaCoreMain"), Whitelist("ArenaConsensus"), LinkReputation,
            Save("nested")>>

Clean == <<Deploys(Eight)>> \o LinkCore \o
         <<Whitelist("ArenaConsensus"), LinkReputation, Save("nested")>>

BugHardhatAuto == <<Deploys(Eight), Save("flat")>> \o LinkCore \o
           <<LinkReputation, Whitelist("ArenaCoreMain")>>
HardhatAuto == <<Deploys(Eight)>> \o LinkCore \o
        <<LinkReputation, Whitelist("ArenaCoreMain"), Save("flat")>>

\* deploy-remaining.js: seven contracts on top of the core of the book on disk.
Remaining ==
    <<Deploys({"ArenaArbitration", "ArenaOutcomes", "ArenaInsurance", "ArenaSyndicates",
               "ArenaDelegation", "ArenaTimelock", "ArenaCompliance"}),
      Link("ArenaCoreMain", "arenaArbitration", "ArenaArbitration"),
      Link("ArenaCoreMain", "arenaOutcomes", "ArenaOutcomes"),
      Link("ArenaCoreMain", "arenaCompliance", "ArenaCompliance"),
      Link("ArenaSyndicates", "arenaCore", "ArenaCoreMain"),
      Link("ArenaDelegation", "arenaCore", "ArenaCoreMain"),
      Link("ArenaArbitration", "arenaCore", "ArenaCoreMain"),
      Save("flat")>>

\* deploy-local.js and setup-testnet.js write no address book.
Local == <<Deploys(Core)>> \o LinkCore \o <<SaveEnv>>
Setup == <<Deploys(Core)>> \o LinkCore

\* seed-testnet.js: approvals and tasks on the deployment of the book.
Seed == <<Whitelist("ArenaConsensus")>>

\* verify-deployment.js: checks on the deployment of the book, one contract after the other,
\* then the links between them.
Verify == <<Check("ArenaCoreMain"), Check("ArenaCoreAuction"), Check("ArenaCoreVRF"),
            Check("ArenaReputation"), Check("ArenaConsensus"), Check("ArenaProfiles"),
            Check("ArenaRecurring"), Check("links")>>

Program(script) ==
    CASE script = "deploy" -> Full
      [] script = "deploy-sepolia" -> Sepolia
      [] script = "deploy-direct" -> Direct
      [] script = "deploy-clean" -> Clean
      [] script = "deploy-hardhat-auto" -> HardhatAuto
      [] script = "deploy-remaining" -> Remaining
      [] script = "deploy-local" -> Local
      [] script = "setup-testnet" -> Setup
      [] script = "seed-testnet" -> Seed
      [] script = "verify-deployment" -> Verify

-----------------------------------------------------------------------------
(* Executing.                                                              *)

\* The address a script knows a contract by: undefined when its book has no such name.
AddressIn(proc, name) == IF name \in DOMAIN proc.book THEN proc.book[name] ELSE Nowhere

\* The fields a constructor sets; the tokens ArenaCoreMain's constructor whitelists.
Constructed(names, at) ==
    {<<at[n], "core", at["ArenaCoreMain"]>> : n \in names \cap SingleCore}
    \cup {<<at[n], "main", at["ArenaCoreMain"]>> :
             n \in names \cap {"ArenaCoreAuction", "ArenaCoreVRF"}}

\* ArenaCoreAuction and ArenaCoreVRF have no owner of their own: they ask ArenaCoreMain.
OwnedByDeployer(proc, name) ==
    LET owning == IF name \in {"ArenaCoreAuction", "ArenaCoreVRF"} THEN "ArenaCoreMain" ELSE name
    IN AddressIn(proc, name) # Nowhere /\ AddressIn(proc, owning) \notin timelocked

\* Whether what a book says of a link is so on chain.
Linked(book, of, field, to) ==
    {of, to} \subseteq DOMAIN book /\ <<book[of], field, book[to]>> \in links

LinksHealthy(book) ==
    /\ Linked(book, "ArenaCoreMain", "arenaCoreAuction", "ArenaCoreAuction")
    /\ Linked(book, "ArenaCoreMain", "arenaCoreVRF", "ArenaCoreVRF")
    /\ Linked(book, "ArenaCoreAuction", "arenaCoreVRF", "ArenaCoreVRF")

\* Each contract must answer owner() with the deployer, which ArenaCoreAuction and
\* ArenaCoreVRF do not have; the profiles and the templates may be missing from the book.
HasOwner(book, name) == /\ name \in DOMAIN book
                        /\ name \notin {"ArenaCoreAuction", "ArenaCoreVRF"}
                        /\ book[name] \notin timelocked

Optional == {"ArenaProfiles", "ArenaRecurring"}
Passes(book, section) ==
    IF section = "links"
    THEN /\ LinksHealthy(book)
         /\ Linked(book, "ArenaReputation", "arenaCore", "ArenaCoreMain")
         /\ \A name \in {"ArenaCoreMain", "ArenaConsensus"} :
              <<book[name], book["MockUSDC"]>> \in whitelisted
    ELSE \/ section \in Optional /\ book # <<>> /\ section \notin DOMAIN book
         \/ HasOwner(book, section)

\* Whether the next step of the script succeeds: its contracts are known and the deployer
\* owns the one it configures; only Ownable contracts have a transferOwnership.  A check that
\* fails fails the verification, whatever the checks after it say.
Succeeds(proc, step) ==
    CASE step.op = "deploy" -> TRUE
      [] step.op = "link" -> OwnedByDeployer(proc, step.of)
      [] step.op = "whitelist" -> OwnedByDeployer(proc, step.of)
      [] step.op = "transfer" -> /\ step.of \notin {"ArenaCoreAuction", "ArenaCoreVRF"}
                                 /\ OwnedByDeployer(proc, step.of)
      [] step.op = "check" -> Passes(proc.book, step.section)
      [] OTHER -> TRUE

\* What the script reads before its first transaction: deploy-remaining takes the flat book,
\* verify-deployment the nested one and seed-testnet either.
Reads(script) ==
    CASE script = "deploy-remaining" -> IF file.format = "flat" THEN file.book ELSE <<>>
      [] script = "verify-deployment" -> IF file.format = "nested" THEN file.book ELSE <<>>
      [] script = "seed-testnet" -> file.book
      [] OTHER -> <<>>

\* An operator starts a script; without the book it needs it stops at once.
StartScript(script) ==
    /\ Len(procs) < MaxRuns
    /\ script \in {"deploy-remaining", "seed-testnet"} =>
         "ArenaCoreMain" \in DOMAIN Reads(script)
    /\ script = "verify-deployment" => file.format # "none"
    /\ procs' = Append(procs, [script |-> script, pc |-> 1, status |-> "running",
                               book |-> Reads(script)])
    /\ UNCHANGED <<links, timelocked, whitelisted, file, env>>

Extended(book, names, run) ==
    [n \in DOMAIN book \cup names |-> IF n \in names THEN <<n, run>> ELSE book[n]]

\* One awaited step of an execution.
Step(p) ==
    LET proc == procs[p]
        step == Program(proc.script)[proc.pc]
        book == IF step.op = "deploy" THEN Extended(proc.book, step.names, p) ELSE proc.book
    IN /\ proc.status = "running"
       /\ IF Succeeds(proc, step)
          THEN /\ procs' = [procs EXCEPT ![p].pc = @ + 1, ![p].book = book,
                                         ![p].status = IF proc.pc = Len(Program(proc.script))
                                                       THEN "done" ELSE @]
               /\ links' =
                    IF step.op = "deploy" THEN links \cup Constructed(step.names, book)
                    ELSE IF step.op # "link" THEN links
                    ELSE {l \in links : l[1] # AddressIn(proc, step.of) \/ l[2] # step.field}
                         \cup {<<AddressIn(proc, step.of), step.field, AddressIn(proc, step.to)>>}
               /\ whitelisted' =
                    CASE step.op = "deploy" /\ "ArenaCoreMain" \in step.names ->
                             whitelisted \cup {<<book["ArenaCoreMain"], book["MockUSDC"]>>}
                      [] step.op = "whitelist" ->
                             whitelisted
                               \cup {<<AddressIn(proc, step.of), AddressIn(proc, "MockUSDC")>>}
                      [] OTHER -> whitelisted
               /\ timelocked' = timelocked \cup
                                (IF step.op = "transfer" THEN {AddressIn(proc, step.of)} ELSE {})
               /\ file' = IF step.op = "save"
                          THEN [format |-> step.format, book |-> proc.book] ELSE file
               /\ env' = IF step.op = "env" THEN proc.book ELSE env
          ELSE /\ procs' = [procs EXCEPT ![p].status = "failed"]
               /\ UNCHANGED <<links, timelocked, whitelisted, file, env>>

\* The execution is killed or its connection breaks; nothing is resumed.
Killed(p) ==
    /\ procs[p].status = "running"
    /\ procs' = [procs EXCEPT ![p].status = "killed"]
    /\ UNCHANGED <<links, timelocked, whitelisted, file, env>>

\* The address book kept in the repository: deploy-hardhat-auto.js, then deploy-remaining.js.
Committed == [n \in Eight \cup {"ArenaArbitration", "ArenaOutcomes", "ArenaInsurance",
                                "ArenaSyndicates", "ArenaDelegation", "ArenaTimelock",
                                "ArenaCompliance"} |-> <<n, 0>>]
CommittedLinks ==
    {<<<<step.of, 0>>, step.field, <<step.to, 0>>>> :
        step \in {s \in {HardhatAuto[i] : i \in DOMAIN HardhatAuto}
                       \cup {Remaining[i] : i \in DOMAIN Remaining} :
                    s.op = "link"}}
    \cup Constructed(DOMAIN Committed, Committed)

\* The first deployment ever, or one on top of the committed book.
DeploymentInit ==
    /\ procs = <<>> /\ timelocked = {} /\ env = <<>>
    /\ \/ links = {} /\ whitelisted = {} /\ file = NoBook
       \/ /\ links = CommittedLinks
          /\ whitelisted = {<<Committed["ArenaCoreMain"], Committed["MockUSDC"]>>}
          /\ file = [format |-> "flat", book |-> Committed]

DeploymentNext ==
    \/ \E script \in Scripts : StartScript(script)
    \/ \E p \in DOMAIN procs : Step(p) \/ Killed(p)

DeploymentSpec == DeploymentInit /\ [][DeploymentNext]_deploymentVars

-----------------------------------------------------------------------------
(* Properties.                                                             *)

\* However the scripts are killed, doubled and run over one another, the address book on disk
\* names a core that is completely linked, and a satellite a core on chain refers to works
\* for that core: the programs that take the book (seed-testnet.js, the web applications)
\* never meet a half configured deployment.
SavedIsLinked ==
    /\ file.format # "none" => LinksHealthy(file.book)
    /\ \A l \in links : l[2] \in {"arenaArbitration", "arenaOutcomes", "arenaCompliance"} =>
         <<l[3], "core", l[1]>> \in links
=============================================================================
