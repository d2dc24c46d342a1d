------------------------------- MODULE WebApp -------------------------------
(***************************************************************************)
(* The two web applications (frontend/src): the dashboard of App.jsx with  *)
(* the hooks of hooks.js, and the pages under app/.  One wallet has one    *)
(* page open.  A page works on what it last read of the chain; a button    *)
(* asks the wallet for a transaction, the wallet signs or refuses, and a   *)
(* signed transaction is mined later.  The hooks wait for the receipt; the *)
(* pages under app/ go on as soon as the wallet has sent it.  A reload     *)
(* drops the page's state, but neither the wallet's prompts nor the        *)
(* transactions sent nor localStorage.                                     *)
(***************************************************************************)
EXTENDS Naturals, FiniteSets, Sequences

CONSTANTS
  MaxSalts,     \* bound: bids committed (one on the pages under app/)
  MaxPrompts,   \* bound: prompts open in the wallet (one on the pages under app/)
  MaxPending,   \* bound: transactions sent and not mined (one on the pages under app/)
  MaxTasks,     \* bound: tasks created
  MaxReloads    \* bound: reloads of the page

VARIABLES
  page,      \* the page open
  chainNow,  \* the task on the chain and the wallet's standing in it
  view,      \* what the page last read of it
  step,      \* the hook's step, or the step of onboarding
  agent,     \* onboarding: the role chosen is the agent's
  busy,      \* <<panel, button>> whose handler has not returned
  prompts,   \* what the wallet is asked to sign
  mempool,   \* transactions sent, in the order of their nonces
  saved,     \* localStorage: the salt of the wallet's bid on the task; 0: none
  noted,     \* salts the page has told the user
  salts,     \* salts drawn
  reloads    \* reloads so far

pageVars == <<view, step, agent, busy, prompts, noted>>
webVars == <<page, chainNow, view, step, agent, busy, prompts, mempool, saved, noted,
             salts, reloads>>

Dashboard == {"BidForm", "CreateTaskForm"}    \* the forms of App.jsx, on the hooks
Routes == {"task", "create", "onboarding", "settings", "verifiers"}
AtOnce(bound) == IF page \in Dashboard THEN bound ELSE 1
Periods == <<"bidding", "revealing", "ended", "late">>

-----------------------------------------------------------------------------
(* Votes: the buttons of the panel and the enumeration of the contracts. *)

VERIFIER_VOTES == [Approve |-> 0, Reject |-> 1, Abstain |-> 2]
VerifierVote == <<"Pending", "Approved", "Rejected">>
Meaning == [Approve |-> "Approved", Reject |-> "Rejected", Abstain |-> "Pending"]

-----------------------------------------------------------------------------
(* The contracts, for this wallet and one task. *)

Seen(c) == [status |-> c.status, mine |-> c.mine, allow |-> c.allow, terms |-> c.terms,
            profile |-> c.profile]
Over(c) == c.period \in {"ended", "late"}

Accepts(c, call, arg) ==
    CASE call = "approve" -> TRUE
      [] call = "commitBid" -> c.status = "Open" /\ c.period = "bidding" /\ c.salt = 0
      [] call = "revealBid" -> /\ c.period = "revealing" /\ ~c.shown
                               /\ c.salt # 0 /\ c.salt = arg /\ "auction" \in c.allow
      [] call = "resolveAuction" -> c.status = "BidReveal" /\ Over(c)
      [] call = "deliverTask" -> c.status = "Assigned" /\ c.mine /\ c.period # "late"
      [] call = "registerVerifier" -> /\ c.status \in {"Delivered", "Verifying"}
                                      /\ ~c.mine /\ ~c.seated /\ c.seats > 0
                                      /\ "auction" \in c.allow
      [] call = "submitVerification" -> /\ c.status = "Verifying" /\ c.seated
                                        /\ c.vote = "Pending"
                                        /\ VerifierVote[VERIFIER_VOTES[arg] + 1] # "Pending"
      [] call = "enforceDeadline" -> c.status = "Assigned" /\ c.period = "late"
      [] call = "createTask" -> "main" \in c.allow
      [] call = "acceptTermsOfService" -> ~c.terms
      [] call = "joinOnMain" -> FALSE      \* ArenaCoreMain has no joinVerifierPool
      [] call = "joinVerifierPool" -> ~c.inPool /\ "vrf" \in c.allow
      [] call = "createProfile" -> ~c.profile
      [] call = "updateProfile" -> c.profile

Spend(c, spender) == [c EXCEPT !.allow = @ \ {spender}]

\* The state after an accepted call.  Others may have shown better bids: mine is either.
Effects(c, call, arg) ==
    CASE call = "approve" -> {[c EXCEPT !.allow = @ \cup {arg}]}
      [] call = "commitBid" -> {[c EXCEPT !.salt = arg]}
      [] call = "revealBid" -> {[Spend(c, "auction") EXCEPT !.shown = TRUE, !.status = "BidReveal"]}
      [] call = "resolveAuction" -> {[c EXCEPT !.status = "Assigned", !.mine = won] :
                                       won \in {FALSE, c.shown}}
      [] call = "deliverTask" -> {[c EXCEPT !.status = "Delivered"]}
      [] call = "registerVerifier" -> {[Spend(c, "auction") EXCEPT !.status = "Verifying",
                                                        !.seated = TRUE, !.seats = @ - 1]}
      [] call = "submitVerification" ->
            {[c EXCEPT !.vote = VerifierVote[VERIFIER_VOTES[arg] + 1], !.label = arg]}
      [] call = "enforceDeadline" -> {[c EXCEPT !.status = "Failed"]}
      [] call = "createTask" -> {[Spend(c, "main") EXCEPT !.tasks = @ + 1]}
      [] call = "acceptTermsOfService" -> {[c EXCEPT !.terms = TRUE]}
      [] call = "joinVerifierPool" -> {[Spend(c, "vrf") EXCEPT !.inPool = TRUE]}
      [] call = "createProfile" -> {[c EXCEPT !.profile = TRUE]}
      [] call = "updateProfile" -> {c}

\* Other wallets move the task on, and time passes.
OthersReveal == /\ chainNow.period = "revealing" /\ chainNow.status = "Open"
                /\ chainNow' = [chainNow EXCEPT !.status = "BidReveal"]
OthersResolve == /\ Accepts(chainNow, "resolveAuction", 0)
                 /\ chainNow' \in Effects(chainNow, "resolveAuction", 0)
OthersDeliver == /\ chainNow.status = "Assigned" /\ ~chainNow.mine /\ chainNow.period # "late"
                 /\ chainNow' = [chainNow EXCEPT !.status = "Delivered"]
OthersRegister == /\ chainNow.status \in {"Delivered", "Verifying"} /\ chainNow.seats > 0
                  /\ chainNow' = [chainNow EXCEPT !.status = "Verifying", !.seats = @ - 1]
OthersSettle == /\ chainNow.status = "Verifying" /\ chainNow.seats = 0
                /\ chainNow.seated => chainNow.vote # "Pending"
                /\ \E s \in {"Completed", "Failed"} : chainNow' = [chainNow EXCEPT !.status = s]
OthersEnforce == /\ Accepts(chainNow, "enforceDeadline", 0)
                 /\ chainNow' \in Effects(chainNow, "enforceDeadline", 0)
TimePasses == \E i \in 1..Len(Periods) - 1 :
                 /\ chainNow.period = Periods[i]
                 /\ chainNow' = [chainNow EXCEPT !.period = Periods[i + 1]]

Others == /\ page \in {"BidForm", "task"}
          /\ OthersReveal \/ OthersResolve \/ OthersDeliver \/ OthersRegister
             \/ OthersSettle \/ OthersEnforce \/ TimePasses
          /\ UNCHANGED <<page, pageVars, mempool, saved, salts, reloads>>

-----------------------------------------------------------------------------
(* Prompts and receipts. *)

Request(panel, button, call, arg) ==
    [panel |-> panel, button |-> button, call |-> call, arg |-> arg, alive |-> TRUE]
Waiting(p) == <<p.panel, p.button>>
Ask(panel, button, call, arg) ==
    /\ <<panel, button>> \notin busy /\ Cardinality(prompts) < AtOnce(MaxPrompts)
    /\ busy' = busy \cup {<<panel, button>>}
    /\ prompts' = prompts \cup {Request(panel, button, call, arg)}
ChainIdle == UNCHANGED <<page, chainNow, mempool, saved, reloads>>
Kept == UNCHANGED <<view, step, agent, noted, salts>>

-----------------------------------------------------------------------------
(* App.jsx and hooks.js.  Both hooks wait for receipts; a transaction that *)
(* is mined and reverted leaves the hook in its step.                      *)

\* BidForm's inputs: the task is open and no bid on it is stored.
BugFormShown == view.status = "Open"
FormShown == view.status = "Open" /\ saved = 0

\* handleCommit and commitBid: the salt is stored before the wallet is asked.
CommitOnForm ==
    /\ page = "BidForm" /\ FormShown /\ busy = {} /\ salts < MaxSalts
    /\ salts' = salts + 1 /\ saved' = salts + 1
    /\ step' = "committing"
    /\ Ask("bid", "send", "commitBid", salts + 1)
    /\ UNCHANGED <<page, chainNow, mempool, reloads, view, agent, noted>>

\* handleReveal and revealBid: the approval first, with the stored bid kept for the reveal.
RevealOnForm ==
    /\ page = "BidForm" /\ saved # 0 /\ view.status = "BidReveal" /\ busy = {}
    /\ step' = "approving"
    /\ Ask("bid", "approve", "approve", "auction")
    /\ ChainIdle /\ UNCHANGED <<view, agent, noted, salts>>

\* CreateTaskForm's handleSubmit and createTask.
SubmitOnForm ==
    /\ page = "CreateTaskForm" /\ busy = {} /\ step \notin {"approving", "creating"}
    /\ chainNow.tasks < MaxTasks
    /\ step' = "approving"
    /\ Ask("create", "approve", "approve", "main")
    /\ ChainIdle /\ UNCHANGED <<view, agent, noted, salts>>

\* The effects of the hooks when the receipt of p arrives.
BidFlowReceipt(p, ok) ==
    IF ok /\ p.call = "approve" /\ step = "approving"
    THEN /\ step' = "revealing"
         /\ busy' = (busy \ {Waiting(p)}) \cup {<<"bid", "send">>}
         /\ prompts' = prompts \cup {Request("bid", "send", "revealBid", saved)}
    ELSE /\ step' = CASE ok /\ p.call = "commitBid" /\ step = "committing" -> "committed"
                      [] ok /\ p.call = "revealBid" /\ step = "revealing" -> "revealed"
                      [] OTHER -> step
         /\ busy' = busy \ {Waiting(p)}
         /\ UNCHANGED prompts

CreateTaskReceipt(p, ok) ==
    IF ok /\ p.call = "approve" /\ step = "approving"
    THEN /\ step' = "creating"
         /\ busy' = (busy \ {Waiting(p)}) \cup {<<"create", "send">>}
         /\ prompts' = prompts \cup {Request("create", "send", "createTask", 0)}
    ELSE /\ step' = IF ok /\ p.call = "createTask" /\ step = "creating" THEN "done" ELSE step
         /\ busy' = busy \ {Waiting(p)}
         /\ UNCHANGED prompts

-----------------------------------------------------------------------------
(* app/tasks/[id]: the panels by the status the page last read. *)

Panels(v) ==
    {panel \in {"commit", "reveal", "resolve", "deliver", "register", "verify", "enforce"} :
        \/ panel = "commit" /\ v.status = "Open"
        \/ panel = "reveal" /\ v.status = "BidReveal"
        \/ panel = "resolve" /\ v.status = "BidReveal" /\ Over(chainNow)
        \/ panel = "deliver" /\ v.status = "Assigned" /\ v.mine
        \/ panel = "register" /\ v.status = "Delivered"
        \/ panel = "verify" /\ v.status = "Verifying"
        \/ panel = "enforce" /\ v.status \in {"Assigned", "Delivered"} /\ chainNow.period = "late"}

OnPanel(panel) == page = "task" /\ panel \in Panels(view) /\ ChainIdle

CommitBidPanel ==
    /\ OnPanel("commit") /\ salts < AtOnce(MaxSalts)
    /\ salts' = salts + 1
    /\ Ask("commit", "send", "commitBid", salts + 1)
    /\ UNCHANGED <<view, step, agent, noted>>

\* The approval of the panels with a stake: shown while the allowance read is too low.
ApproveStake(panel) ==
    /\ OnPanel(panel) /\ "auction" \notin view.allow
    /\ Ask(panel, "approve", "approve", "auction") /\ Kept

RevealBidPanel ==
    \/ ApproveStake("reveal")
    \/ /\ OnPanel("reveal") /\ "auction" \in view.allow
       /\ \E salt \in noted : Ask("reveal", "send", "revealBid", salt)
       /\ Kept

ResolveAuctionPanel == OnPanel("resolve") /\ Ask("resolve", "send", "resolveAuction", 0) /\ Kept
DeliverTaskPanel == OnPanel("deliver") /\ Ask("deliver", "send", "deliverTask", 0) /\ Kept

RegisterVerifierPanel ==
    \/ ApproveStake("register")
    \/ /\ OnPanel("register") /\ "auction" \in view.allow
       /\ Ask("register", "send", "registerVerifier", 0) /\ Kept

SubmitVerificationPanel ==
    /\ OnPanel("verify")
    /\ \E label \in DOMAIN VERIFIER_VOTES : Ask("verify", "send", "submitVerification", label)
    /\ Kept

EnforceDeadlinePanel == OnPanel("enforce") /\ Ask("enforce", "send", "enforceDeadline", 0) /\ Kept

-----------------------------------------------------------------------------
(* app/create, app/verifiers, app/settings. *)

\* needsApproval chooses between the two buttons.
CreatePage ==
    /\ page = "create" /\ ChainIdle /\ Kept
    /\ \/ /\ "main" \notin view.allow
          /\ Ask("create", "approve", "approve", "main")
       \/ /\ "main" \in view.allow /\ chainNow.tasks < MaxTasks
          /\ Ask("create", "send", "createTask", 0)

\* The answer of verifierRegistry has fewer words than the page's ABI: the read fails, isInPool
\* stays false and the panel to leave the pool is never shown.
VerifiersPage ==
    /\ page = "verifiers" /\ ChainIdle /\ Kept
    /\ \/ "vrf" \notin view.allow /\ Ask("pool", "approve", "approve", "vrf")
       \/ "vrf" \in view.allow /\ Ask("pool", "send", "joinVerifierPool", 0)

SettingsPage ==
    /\ page = "settings" /\ ChainIdle /\ Kept
    /\ Ask("profile", "send", IF view.profile THEN "updateProfile" ELSE "createProfile", 0)

-----------------------------------------------------------------------------
(* app/onboarding: role, details, terms and, for agents, a stake. *)

Onboarding(at) == page = "onboarding" /\ ~view.profile /\ step = at /\ ChainIdle

ChooseRole(isAgent) ==
    /\ Onboarding("role")
    /\ step' = "details" /\ agent' = isAgent
    /\ UNCHANGED <<view, busy, prompts, noted, salts>>

Back ==
    /\ \/ Onboarding("details") /\ step' = "role"
       \/ Onboarding("terms") /\ ~view.terms /\ step' = "details"
       \/ Onboarding("stake") /\ step' = "terms"
    /\ UNCHANGED <<view, agent, busy, prompts, noted, salts>>

\* createProfileAndFinish, from its own button or from a handler that goes on with it.
CreateProfile == Request("join", "send", "createProfile", 0)

\* The details are filled in; terms already accepted are passed over (handleStepThreeEntry).
EnterTerms ==
    /\ Onboarding("details")
    /\ step' = IF view.terms /\ agent THEN "stake" ELSE "terms"
    /\ IF view.terms /\ ~agent
       THEN Ask("join", "send", "createProfile", 0)
       ELSE UNCHANGED <<busy, prompts>>
    /\ UNCHANGED <<view, agent, noted, salts>>

handleAcceptTos ==
    /\ Onboarding("terms") /\ ~view.terms
    /\ Ask("join", "send", "acceptTermsOfService", 0) /\ Kept

PassTerms ==
    /\ Onboarding("terms") /\ view.terms /\ <<"join", "send">> \notin busy
    /\ IF agent THEN step' = "stake" /\ UNCHANGED <<busy, prompts>>
       ELSE Ask("join", "send", "createProfile", 0) /\ UNCHANGED step
    /\ UNCHANGED <<view, agent, noted, salts>>

handleStakeAndJoin ==
    /\ Onboarding("stake")
    /\ IF "main" \in view.allow THEN Ask("join", "send", "joinOnMain", 0)
       ELSE Ask("join", "send", "approve", "main")
    /\ Kept

SkipStake == Onboarding("stake") /\ Ask("join", "send", "createProfile", 0) /\ Kept

\* What the handlers do once the wallet has sent p: refetch, then the next request or the end.
OnboardingSent(p) ==
    LET next == CASE p.call = "acceptTermsOfService" -> IF agent THEN {} ELSE {CreateProfile}
                  [] p.call = "approve" -> {Request("join", "send", "joinOnMain", 0)}
                  [] p.call = "joinOnMain" -> {CreateProfile}
                  [] OTHER -> {}
    IN /\ prompts' = (prompts \ {p}) \cup next
       /\ busy' = IF next = {} THEN busy \ {Waiting(p)} ELSE busy
       /\ step' = CASE p.call = "acceptTermsOfService" /\ agent -> "stake"
                    [] p.call = "createProfile" -> "finished"
                    [] OTHER -> step
       /\ view' = CASE p.call = "acceptTermsOfService" -> [view EXCEPT !.terms = chainNow.terms]
                    [] p.call = "approve" -> [view EXCEPT !.allow = chainNow.allow]
                    [] OTHER -> view
       /\ UNCHANGED noted

-----------------------------------------------------------------------------
(* The wallet signs or refuses; the chain mines. *)

\* The other pages under app/: the button is free again once p is sent, except that app/create
\* waits for the task's receipt.  Create, pool and settings refetch at once, before p is mined.
RouteSent(p) ==
    /\ prompts' = prompts \ {p}
    /\ busy' = IF p.call = "createTask" THEN busy ELSE busy \ {Waiting(p)}
    /\ noted' = IF p.call = "commitBid" THEN noted \cup {p.arg} ELSE noted
    /\ view' = CASE page \in {"create", "verifiers"} /\ p.button = "approve" ->
                        [view EXCEPT !.allow = chainNow.allow]
                 [] page = "settings" -> [view EXCEPT !.profile = chainNow.profile]
                 [] OTHER -> view
    /\ UNCHANGED step

Forgotten(p) == prompts' = prompts \ {p} /\ UNCHANGED <<view, step, busy, noted>>

Sign(p) ==
    /\ p \in prompts /\ Len(mempool) < AtOnce(MaxPending)
    /\ mempool' = Append(mempool, p)
    /\ \/ (~p.alive \/ page \in Dashboard) /\ Forgotten(p)
       \/ p.alive /\ page = "onboarding" /\ OnboardingSent(p)
       \/ p.alive /\ page \in Routes \ {"onboarding"} /\ RouteSent(p)
    /\ UNCHANGED <<page, chainNow, agent, saved, salts, reloads>>

Refuse(p) ==
    /\ p \in prompts
    /\ prompts' = prompts \ {p}
    /\ busy' = IF p.alive THEN busy \ {Waiting(p)} ELSE busy
    /\ step' = IF p.alive /\ page \in Dashboard THEN "error" ELSE step
    /\ UNCHANGED <<page, chainNow, view, agent, mempool, saved, noted, salts, reloads>>

Mine ==
    /\ mempool # << >>
    /\ LET p == Head(mempool)
           ok == Accepts(chainNow, p.call, p.arg)
       IN /\ IF ok THEN chainNow' \in Effects(chainNow, p.call, p.arg) ELSE UNCHANGED chainNow
          /\ CASE p.alive /\ page = "BidForm" -> BidFlowReceipt(p, ok)
               [] p.alive /\ page = "CreateTaskForm" -> CreateTaskReceipt(p, ok)
               [] p.alive /\ p.call = "createTask" /\ page = "create" ->
                     busy' = busy \ {Waiting(p)} /\ UNCHANGED <<step, prompts>>
               [] OTHER -> UNCHANGED <<step, busy, prompts>>
    /\ mempool' = Tail(mempool)
    /\ UNCHANGED <<page, view, agent, saved, noted, salts, reloads>>

\* The queries run again.  Panels that are no longer shown go, with what their handlers would say.
Refresh ==
    LET stays(p) == page = "task" => p.panel \in Panels(chainNow)
    IN /\ view # Seen(chainNow)
       /\ view' = Seen(chainNow)
       /\ prompts' = {[p EXCEPT !.alive = @ /\ stays(p)] : p \in prompts}
       /\ busy' = {b \in busy : page = "task" => b[1] \in Panels(chainNow)}
       /\ UNCHANGED <<page, chainNow, step, agent, mempool, saved, noted, salts, reloads>>

FirstStep == IF page = "onboarding" THEN "role" ELSE "idle"

Reload ==
    /\ reloads < MaxReloads
    /\ reloads' = reloads + 1
    /\ view' = Seen(chainNow) /\ step' = FirstStep /\ agent' = FALSE /\ busy' = {}
    /\ prompts' = {[p EXCEPT !.alive = FALSE] : p \in prompts}
    /\ mempool' = [i \in DOMAIN mempool |-> [mempool[i] EXCEPT !.alive = FALSE]]
    /\ UNCHANGED <<page, chainNow, saved, noted, salts>>

-----------------------------------------------------------------------------
Clicks ==
    \/ CommitOnForm \/ RevealOnForm \/ SubmitOnForm
    \/ CommitBidPanel \/ RevealBidPanel \/ ResolveAuctionPanel \/ DeliverTaskPanel
    \/ RegisterVerifierPanel \/ SubmitVerificationPanel \/ EnforceDeadlinePanel
    \/ CreatePage \/ VerifiersPage \/ SettingsPage
    \/ (\E isAgent \in BOOLEAN : ChooseRole(isAgent)) \/ Back \/ EnterTerms
    \/ handleAcceptTos \/ PassTerms \/ handleStakeAndJoin \/ SkipStake

Fresh == [status |-> "Open", period |-> "bidding", salt |-> 0, shown |-> FALSE, mine |-> FALSE,
          seats |-> 2, seated |-> FALSE, vote |-> "Pending", label |-> "none",
          allow |-> {}, tasks |-> 0, terms |-> FALSE, profile |-> FALSE, inPool |-> FALSE]

WebInit ==
    /\ page \in Dashboard \cup Routes
    /\ \E t \in {FALSE, page = "onboarding"}, pr \in {FALSE, page = "settings"} :
          chainNow = [Fresh EXCEPT !.terms = t, !.profile = pr]
    /\ view = Seen(chainNow) /\ step = FirstStep /\ agent = FALSE
    /\ busy = {} /\ prompts = {} /\ mempool = << >>
    /\ saved = 0 /\ noted = {} /\ salts = 0 /\ reloads = 0

WebNext ==
    \/ Clicks
    \/ \E p \in prompts : Sign(p) \/ Refuse(p)
    \/ Mine \/ Others \/ Refresh \/ Reload

WebSpec == WebInit /\ [][WebNext]_webVars

-----------------------------------------------------------------------------
\* A bid the dashboard has committed can be shown: its salt is the one in localStorage, although
\* the page was reloaded with the wallet's prompt open, the wallet refused and the form was used
\* again, or commitments are still to be mined.  Hazard: the salt is stored before the outcome
\* of the transaction is known and a second one would overwrite it (hooks.js:410).
SaltStored ==
    page = "BidForm" =>
        /\ chainNow.salt # 0 => saved = chainNow.salt
        /\ \A i \in DOMAIN mempool : mempool[i].call = "commitBid" => saved = mempool[i].arg

\* The verdict recorded for the wallet is the one of the button it pressed.  The comment at
\* lib/contracts.ts:700 promises it: "Verifier vote enum (matches VerifierVote in ArenaTypes.sol)".
VotesCast == chainNow.vote # "Pending" => chainNow.vote = Meaning[chainNow.label]
=============================================================================
