---------------------------- MODULE ClientProofs ----------------------------
(***************************************************************************)
(* Theorems about the programs that use the contracts.  The bidding agents *)
(* keep the salt of every bid they committed and account for every stake,  *)
(* however their handlers interleave and whenever the process dies.  The   *)
(* SDK's event listener delivers every event once, for any types,          *)
(* callbacks and contracts that emit them, and its bid manager keeps every *)
(* bid on chain in its map, whatever calls and ticks are in flight.  The   *)
(* dashboard has stored the salt of every bid the contract holds.  The     *)
(* deployment scripts save no address book whose core is not linked.       *)
(***************************************************************************)
EXTENDS BiddingAgents, EventListener, BidManager, WebApp, Deployment, SequenceTheorems, TLAPS

-----------------------------------------------------------------------------
(* The bidding agents: the inductive invariant                             *)

\* What the proofs need of a handler that is not idle.
IsHandler(h) == {"t", "pc", "salt"} \subseteq DOMAIN h

\* A process that is down has no handlers.
Shapes ==
    /\ now \in Nat
    /\ DOMAIN status = Tasks /\ DOMAIN commit = Tasks /\ DOMAIN revealed = Tasks
    /\ DOMAIN bids = Tasks /\ DOMAIN handler = Slots
    /\ \A s \in Slots : handler[s] = Idle \/ (running /\ IsHandler(handler[s]))

\* A handler has a salt when it commits, and a salt that was committed is the one the
\* auction holds: nobody can commit to the task again.
SaltInHand(h) ==
    /\ h.pc \in {"committing", "committed"} => h.salt # NoSalt
    /\ h.pc = "committed" /\ h.t \in Tasks => commit[h.t] = h.salt

\* The same of a salt on disk.
SaltOnDisk(t) ==
    /\ "salt" \in DOMAIN bids[t]
    /\ bids[t] # NoBid => bids[t].salt # NoSalt /\ bids[t].salt = commit[t]

\* Bids are revealed before the window closes, and tasks end only after it; a task whose
\* poster withdrew it is not revealed.  So a task that ended stays as it ended.
InWindow(t) ==
    /\ status[t] \in {"Assigned", "Lost", "Delivered", "Completed", "Failed"} =>
           now >= RevealDeadline
    /\ revealed[t] => status[t] \notin {"none", "Open"}

\* Events report what is so: the stakes they release are not with the auction any more.
Reported(e) ==
    e[2] \in Tasks =>
        /\ e[1] = "TaskCompleted" => status[e[2]] = "Completed"
        /\ e[1] = "AgentSlashed"  => status[e[2]] = "Failed"
        /\ e[1] = "TaskCancelled" => status[e[2]] = "Cancelled"

\* A handler that knows of a reveal and has not saved it.
Revealing(t) == \E s \in Slots : handler[s].pc = "revealed" /\ handler[s].t = t
Tracked(t) == Escrowed(t) => t \in stakes \cup forgotten \/ Revealing(t)

BidInv ==
    /\ Shapes
    /\ \A s \in Slots : SaltInHand(handler[s])
    /\ \A t \in Tasks : SaltOnDisk(t) /\ InWindow(t) /\ Tracked(t)
    /\ \A e \in events : Reported(e)

LEMMA BidStart == Init => BidInv
BY RevealAssumption DEF Init, BidInv, Shapes, SaltInHand, SaltOnDisk, InWindow, Tracked, Escrowed,
   Idle, NoBid, NoSalt

-----------------------------------------------------------------------------
(* Steps that neither commit nor reveal                                    *)

\* Handler s goes on or ends, the others stay where they are.
Moves(s) ==
    /\ DOMAIN handler' = Slots
    /\ \A z \in Slots \ {s} : handler'[z] = handler[z]
    /\ handler'[s] = Idle \/ (running' /\ IsHandler(handler'[s]))

\* Bids on disk keep their salts, or are dropped.
BidsKept ==
    /\ DOMAIN bids' = Tasks
    /\ \A t \in Tasks :
           \/ bids'[t] = NoBid
           \/ bids[t] # NoBid /\ "salt" \in DOMAIN bids'[t] /\ bids'[t].salt = bids[t].salt

QuietStep(s) ==
    /\ UNCHANGED <<now, status, commit, revealed, stakes, forgotten>>
    /\ events' \subseteq events
    /\ running => running'
    /\ BidsKept
    /\ Moves(s)
    /\ handler[s].pc # "revealed"
    /\ handler'[s].pc \notin {"committed", "revealed"}
    /\ handler'[s].pc = "committing" => handler'[s].salt # NoSalt

LEMMA QuietKeeps == ASSUME BidInv, NEW s \in Slots, QuietStep(s) PROVE BidInv'
<1>1. Shapes'
  BY DEF BidInv, Shapes, QuietStep, Moves, BidsKept
<1>2. ASSUME NEW z \in Slots PROVE SaltInHand(handler[z])'
  BY DEF BidInv, Shapes, QuietStep, Moves, SaltInHand
<1>3. ASSUME NEW t \in Tasks PROVE SaltOnDisk(t)'
  BY DEF BidInv, QuietStep, BidsKept, SaltOnDisk, NoBid
<1>4. ASSUME NEW t \in Tasks PROVE InWindow(t)'
  BY DEF BidInv, QuietStep, InWindow
<1>5. ASSUME NEW t \in Tasks PROVE Tracked(t)'
  <2>1. Escrowed(t)' = Escrowed(t)
    BY DEF QuietStep, Escrowed
  <2>2. Revealing(t) => Revealing(t)'
    BY DEF QuietStep, Moves, Revealing
  <2>. QED BY <2>1, <2>2 DEF BidInv, QuietStep, Tracked
<1>6. ASSUME NEW e \in events' PROVE Reported(e)'
  BY DEF BidInv, QuietStep, Reported
<1>. QED BY <1>1, <1>2, <1>3, <1>4, <1>5, <1>6 DEF BidInv

\* How handlers move on.
LEMMA HandlerGoes ==
    ASSUME Shapes, NEW s \in Slots, running, IsHandler(handler[s]), NEW pc, Go(s, pc)
    PROVE  /\ running' => Moves(s)
           /\ handler'[s].pc = pc
           /\ handler'[s].t = handler[s].t /\ handler'[s].salt = handler[s].salt
BY DEF Shapes, Go, Moves, IsHandler

LEMMA HandlerPut ==
    ASSUME Shapes, NEW s \in Slots, NEW h, Put(s, h), h = Idle \/ IsHandler(h)
    PROVE  running' => Moves(s) /\ handler'[s] = h
BY DEF Shapes, Put, Moves

LEMMA HandlerLeaves ==
    ASSUME NEW h, IsHandler(h)
    PROVE  /\ Leave(h) = Idle \/ IsHandler(Leave(h))
           /\ Leave(h).pc \in {"idle", "loop"}
BY DEF IsHandler, Leave, Idle

LEMMA HandlerBegins ==
    /\ \A t, pc : IsHandler(EventHandler(t, pc)) /\ EventHandler(t, pc).pc = pc
    /\ \A kind, todo : IsHandler(LoopHandler(kind, todo)) /\ LoopHandler(kind, todo).pc = "loop"
BY DEF IsHandler, EventHandler, LoopHandler

LEMMA HandlerRounds ==
    ASSUME Shapes, NEW s \in Slots, running, IsHandler(handler[s]), NEW t, NEW pc, Round(s, t, pc)
    PROVE  running' => Moves(s) /\ handler'[s].pc = pc
BY DEF Shapes, Round, Put, Moves, IsHandler

LEMMA HandlerAt ==
    ASSUME Shapes, NEW s \in Slots, NEW pc, pc # "idle", At(s, pc)
    PROVE  running /\ IsHandler(handler[s]) /\ handler[s].pc = pc
BY DEF Shapes, At, Idle

\* updateBidRecord keeps the salt.
LEMMA UpdateKeeps == ASSUME BidInv, NEW t, NEW f \in {"revealed", "assigned"}, UpdateBid(t, f)
                     PROVE  BidsKept
BY DEF BidInv, Shapes, SaltOnDisk, UpdateBid, BidsKept, NoBid

LEMMA SameKeeps == ASSUME BidInv, UNCHANGED bids PROVE BidsKept
BY DEF BidInv, Shapes, SaltOnDisk, BidsKept

\* The stretches of a handler between its awaits, but for those that wait for a
\* transaction of the agent.
LEMMA LoopsQuiet ==
    ASSUME BidInv, NEW s \in Slots,
           NextStage(s) \/ EndLoop(s) \/ ScanTask(s) \/ CheckPendingReveal(s) \/ CheckAndReveal(s)
             \/ CheckAssignment(s) \/ ResumeTask(s) \/ RecoverTask(s)
    PROVE  QuietStep(s)
<1>1. At(s, "loop") /\ BidsKept /\ Shapes /\ running' = running
      /\ UNCHANGED <<now, status, commit, revealed, stakes, forgotten, events>>
  BY SameKeeps DEF NextStage, EndLoop, ScanTask, CheckPendingReveal, CheckAndReveal, CheckAssignment,
     ResumeTask, RecoverTask, InStage, chain, disk, history, BidInv
<1>2. running /\ IsHandler(handler[s]) /\ handler[s].pc = "loop"
  BY <1>1, HandlerAt
<1>3. Moves(s) /\ handler'[s].pc \in {"loop", "idle", "evaluate", "reveal", "assign", "execute"}
  <2>1. CASE NextStage(s)
    <3>. DEFINE h == handler[s]
                k == [h EXCEPT !.stage = Head(h.todo), !.todo = Tail(h.todo),
                               !.snap = Snapshot(Head(h.todo)), !.at = now]
    <3>1. Put(s, k)
      BY <2>1 DEF NextStage
    <3>2. IsHandler(k) /\ k.pc = "loop"
      BY <1>2 DEF IsHandler
    <3>. HIDE DEF k
    <3>. QED BY <1>1, <1>2, <3>1, <3>2, HandlerPut
  <2>2. CASE EndLoop(s)
    BY <1>1, <1>2, <2>2, HandlerPut DEF EndLoop, Idle
  <2>3. CASE ScanTask(s)
    BY <1>1, <1>2, <2>3, HandlerRounds DEF ScanTask
  <2>4. CASE CheckPendingReveal(s)
    BY <1>1, <1>2, <2>4, HandlerRounds DEF CheckPendingReveal
  <2>5. CASE CheckAndReveal(s)
    BY <1>1, <1>2, <2>5, HandlerRounds DEF CheckAndReveal
  <2>6. CASE CheckAssignment(s)
    BY <1>1, <1>2, <2>6, HandlerRounds DEF CheckAssignment
  <2>7. CASE ResumeTask(s) \/ RecoverTask(s)
    BY <1>1, <1>2, <2>7, HandlerRounds DEF ResumeTask, RecoverTask
  <2>. QED BY <2>1, <2>2, <2>3, <2>4, <2>5, <2>6, <2>7
<1>. QED BY <1>1, <1>2, <1>3 DEF QuietStep

LEMMA WorkQuiet ==
    ASSUME BidInv, NEW s \in Slots,
           AuditEvaluate(s) \/ RiskEvaluate(s) \/ SendReveal(s) \/ Assign(s) \/ Execute(s)
             \/ AuditWork(s) \/ RiskWork(s) \/ SaveDelivery(s)
    PROVE  QuietStep(s)
<1>1. /\ BidsKept /\ Shapes /\ running' = running
      /\ UNCHANGED <<now, status, commit, revealed, stakes, forgotten, events>>
  BY SameKeeps, UpdateKeeps DEF AuditEvaluate, RiskEvaluate, TakeOrSkip, SendReveal, Assign, Execute,
     AuditWork, RiskWork, SaveDelivery, chain, disk, history, BidInv
<1>2. PICK pc \in {"evaluate", "reveal", "assign", "execute", "work", "delivered"} : At(s, pc)
  BY DEF AuditEvaluate, RiskEvaluate, TakeOrSkip, SendReveal, Assign, Execute, AuditWork, RiskWork,
     SaveDelivery
<1>3. running /\ IsHandler(handler[s]) /\ handler[s].pc = pc
  BY <1>1, <1>2, HandlerAt
<1>4. \/ Put(s, Leave(handler[s]))
      \/ \E p \in {"afford", "revealing", "work", "delivering"} : Go(s, p)
  BY DEF AuditEvaluate, RiskEvaluate, TakeOrSkip, SendReveal, Assign, Execute, AuditWork, RiskWork,
     SaveDelivery
<1>5. Moves(s) /\ handler'[s].pc \notin {"committing", "committed", "revealed"}
  <2>1. CASE Put(s, Leave(handler[s]))
    BY <1>1, <1>3, <2>1, HandlerPut, HandlerLeaves
  <2>2. ASSUME NEW p \in {"afford", "revealing", "work", "delivering"}, Go(s, p)
        PROVE  Moves(s) /\ handler'[s].pc = p
    BY <1>1, <1>3, <2>2, HandlerGoes
  <2>. QED BY <1>4, <2>1, <2>2
<1>. QED BY <1>1, <1>3, <1>5 DEF QuietStep

\* A salt is drawn where none was.
LEMMA SendCommitQuiet == ASSUME BidInv, NEW s \in Slots, SendCommit(s) PROVE QuietStep(s)
<1>. DEFINE h == handler[s]
            k == [h EXCEPT !.pc = "committing", !.salt = <<session, s>>]
<1>1. /\ BidsKept /\ Shapes /\ running' = running
      /\ UNCHANGED <<now, status, commit, revealed, stakes, forgotten, events>>
  BY SameKeeps DEF SendCommit, chain, disk, history, BidInv
<1>2. running /\ IsHandler(h) /\ h.pc = "afford"
  BY <1>1, HandlerAt DEF SendCommit
<1>3. IsHandler(k) /\ k.pc = "committing" /\ k.salt = <<session, s>>
  BY <1>2 DEF IsHandler
<1>4. k.salt # NoSalt
  BY <1>3 DEF NoSalt
<1>5. Put(s, Leave(h)) \/ Put(s, k)
  BY DEF SendCommit
<1>6. CASE Put(s, k)
  <2>. HIDE DEF k
  <2>. QED BY <1>1, <1>2, <1>3, <1>4, <1>6, HandlerPut DEF QuietStep
<1>7. CASE Put(s, Leave(h))
  BY <1>1, <1>2, <1>7, HandlerPut, HandlerLeaves DEF QuietStep
<1>. QED BY <1>5, <1>6, <1>7

\* A handler begins: by an event, by the timer, by the start of the process.
LEMMA BeginQuiet ==
    ASSUME BidInv, NEW s \in Slots,
           OnTaskCreated(s) \/ AuditAssigned(s) \/ RiskAssigned(s) \/ Poll(s) \/ Start(s)
    PROVE  QuietStep(s)
<1>1. Shapes /\ handler[s] = Idle /\ handler[s].pc # "revealed"
  BY DEF BidInv, Shapes, Idle, Free, OnTaskCreated, AuditAssigned, RiskAssigned, Assigned, Poll, Start
<1>2. /\ running'
      /\ UNCHANGED <<now, status, commit, revealed, stakes, forgotten>>
      /\ events' \subseteq events
  BY DEF Free, OnTaskCreated, AuditAssigned, RiskAssigned, Assigned, Poll, Start, chain, disk, history
<1>3. BidsKept
  <2>1. UNCHANGED bids \/ \E t : UpdateBid(t, "assigned")
    BY DEF OnTaskCreated, AuditAssigned, RiskAssigned, Assigned, Poll, Start, disk
  <2>. QED BY <2>1, SameKeeps, UpdateKeeps
<1>4. Moves(s) /\ handler'[s].pc \notin {"committing", "committed", "revealed"}
  <2>1. \/ Put(s, Idle)
        \/ \E t : \E pc \in {"evaluate", "work"} : Put(s, EventHandler(t, pc))
        \/ \E kind, todo : Put(s, LoopHandler(kind, todo))
    BY DEF OnTaskCreated, AuditAssigned, RiskAssigned, Assigned, Poll, Start
  <2>2. CASE Put(s, Idle)
    BY <1>1, <1>2, <2>2, HandlerPut DEF Idle
  <2>3. ASSUME NEW t, NEW pc \in {"evaluate", "work"}, Put(s, EventHandler(t, pc))
        PROVE  Moves(s) /\ handler'[s].pc \notin {"committing", "committed", "revealed"}
    BY <1>1, <1>2, <2>3, HandlerPut, HandlerBegins
  <2>4. ASSUME NEW kind, NEW todo, Put(s, LoopHandler(kind, todo))
        PROVE  Moves(s) /\ handler'[s].pc \notin {"committing", "committed", "revealed"}
    BY <1>1, <1>2, <2>4, HandlerPut, HandlerBegins
  <2>. QED BY <2>1, <2>2, <2>3, <2>4
<1>. QED BY <1>1, <1>2, <1>3, <1>4 DEF QuietStep

-----------------------------------------------------------------------------
(* The agent's transactions and what it saves of them                      *)

\* The auction takes a commitment only where it has none, so no salt in hand or on disk
\* is replaced.
LEMMA MineCommitKeeps == ASSUME BidInv, NEW s \in Slots, MineCommit(s) PROVE BidInv'
<1>. DEFINE t == handler[s].t
<1>1. /\ BidsKept /\ Shapes /\ running' = running /\ DOMAIN commit' = Tasks
      /\ UNCHANGED <<now, status, revealed, events, bids, stakes, forgotten>>
  BY SameKeeps DEF MineCommit, disk, history, BidInv, Shapes
<1>2. running /\ IsHandler(handler[s]) /\ handler[s].pc = "committing" /\ handler[s].salt # NoSalt
  BY <1>1, HandlerAt DEF MineCommit, BidInv, SaltInHand
<1>3. /\ Moves(s)
      /\ handler'[s].pc = "committed" => handler'[s].salt = handler[s].salt /\ handler'[s].t = t
      /\ handler'[s].pc \in {"committed", "idle", "loop"}
  <2>1. CASE CommitAllowed(t)
    BY <1>1, <1>2, <2>1, HandlerGoes DEF MineCommit
  <2>2. CASE ~CommitAllowed(t)
    BY <1>1, <1>2, <2>2, HandlerPut, HandlerLeaves DEF MineCommit
  <2>. QED BY <2>1, <2>2
<1>4. \A u \in Tasks : commit[u] # NoSalt => commit'[u] = commit[u]
  BY <1>1 DEF MineCommit, CommitAllowed, Shapes
<1>5. t \in Tasks /\ handler'[s].pc = "committed" => commit'[t] = handler[s].salt
  <2>1. CASE CommitAllowed(t)
    BY <1>1, <2>1 DEF MineCommit, Shapes
  <2>2. CASE ~CommitAllowed(t)
    BY <1>1, <1>2, <2>2, HandlerPut, HandlerLeaves DEF MineCommit
  <2>. QED BY <2>1, <2>2
<1>6. Shapes'
  BY <1>1, <1>3 DEF Shapes, Moves
<1>7. ASSUME NEW z \in Slots PROVE SaltInHand(handler[z])'
  <2>1. CASE z = s
    BY <1>2, <1>3, <1>5, <2>1 DEF SaltInHand
  <2>2. CASE z # s
    BY <1>3, <1>4, <2>2 DEF Moves, SaltInHand, BidInv
  <2>. QED BY <2>1, <2>2
<1>8. ASSUME NEW u \in Tasks PROVE SaltOnDisk(u)' /\ InWindow(u)'
  BY <1>1, <1>4 DEF BidInv, SaltOnDisk, InWindow
<1>9. ASSUME NEW u \in Tasks PROVE Tracked(u)'
  BY <1>1, <1>2, <1>3 DEF BidInv, Tracked, Escrowed, Revealing, Moves
<1>10. ASSUME NEW e \in events' PROVE Reported(e)'
  BY <1>1 DEF BidInv, Reported
<1>. QED BY <1>6, <1>7, <1>8, <1>9, <1>10 DEF BidInv

LEMMA SaveCommitKeeps == ASSUME BidInv, NEW s \in Slots, SaveCommit(s) PROVE BidInv'
<1>. DEFINE t == handler[s].t
<1>1. /\ Shapes /\ running' = running
      /\ UNCHANGED <<now, status, commit, revealed, events, stakes, forgotten>>
  BY DEF SaveCommit, chain, disk, history, BidInv
<1>2. running /\ IsHandler(handler[s]) /\ handler[s].pc = "committed"
  BY <1>1, HandlerAt DEF SaveCommit
<1>3. Moves(s) /\ handler'[s].pc \in {"idle", "loop"}
  BY <1>1, <1>2, HandlerPut, HandlerLeaves DEF SaveCommit
<1>4. handler[s].salt # NoSalt /\ (t \in Tasks => commit[t] = handler[s].salt)
  BY <1>2 DEF BidInv, SaltInHand
<1>5. /\ DOMAIN bids' = Tasks
      /\ \A u \in Tasks \ {t} : bids'[u] = bids[u]
      /\ t \in Tasks => /\ bids'[t].salt = handler[s].salt
                        /\ "salt" \in DOMAIN bids'[t]
  BY <1>1 DEF SaveCommit, SaveBid, Shapes
<1>6. Shapes'
  BY <1>1, <1>3, <1>5 DEF Shapes, Moves
<1>7. ASSUME NEW z \in Slots PROVE SaltInHand(handler[z])'
  BY <1>1, <1>3 DEF Moves, SaltInHand, BidInv
<1>8. ASSUME NEW u \in Tasks PROVE SaltOnDisk(u)'
  BY <1>1, <1>4, <1>5 DEF BidInv, SaltOnDisk
<1>9. ASSUME NEW u \in Tasks PROVE InWindow(u)' /\ Tracked(u)'
  BY <1>1, <1>2, <1>3 DEF BidInv, InWindow, Tracked, Escrowed, Revealing, Moves
<1>10. ASSUME NEW e \in events' PROVE Reported(e)'
  BY <1>1 DEF BidInv, Reported
<1>. QED BY <1>6, <1>7, <1>8, <1>9, <1>10 DEF BidInv

\* The stake goes to the auction, and the handler knows.
LEMMA MineRevealKeeps == ASSUME BidInv, NEW s \in Slots, MineReveal(s) PROVE BidInv'
<1>. DEFINE t == handler[s].t
<1>1. /\ BidsKept /\ Shapes /\ running' = running
      /\ UNCHANGED <<now, commit, events, bids, stakes, forgotten>>
  BY SameKeeps DEF MineReveal, disk, history, BidInv
<1>2. running /\ IsHandler(handler[s]) /\ handler[s].pc = "revealing"
  BY <1>1, HandlerAt DEF MineReveal
<1>3. CASE ~RevealAllowed(t, bids[t].salt)
  <2>1. Put(s, Leave(handler[s])) /\ UNCHANGED <<revealed, status>>
    BY <1>3 DEF MineReveal
  <2>2. Moves(s) /\ handler'[s].pc \in {"idle", "loop"}
    BY <1>1, <1>2, <2>1, HandlerPut, HandlerLeaves
  <2>. QED BY <1>1, <1>2, <2>1, <2>2, QuietKeeps DEF QuietStep
<1>4. CASE RevealAllowed(t, bids[t].salt)
  <2>1. /\ Go(s, "revealed") /\ revealed' = [revealed EXCEPT ![t] = TRUE]
        /\ status' = [status EXCEPT ![t] = "BidReveal"]
    BY <1>4 DEF MineReveal
  <2>2. Moves(s) /\ handler'[s].pc = "revealed" /\ handler'[s].t = t
    BY <1>1, <1>2, <2>1, HandlerGoes
  <2>3. now < RevealDeadline /\ status[t] # "Cancelled"
    BY <1>4 DEF RevealAllowed
  <2>4. t \in Tasks =>
          status[t] \notin {"Assigned", "Lost", "Delivered", "Completed", "Failed", "Cancelled"}
    BY <2>3, RevealAssumption DEF BidInv, Shapes, InWindow
  <2>5. Shapes'
    BY <1>1, <2>1, <2>2 DEF Shapes, Moves
  <2>6. ASSUME NEW z \in Slots PROVE SaltInHand(handler[z])'
    BY <1>1, <2>2 DEF Moves, SaltInHand, BidInv
  <2>7. ASSUME NEW u \in Tasks PROVE SaltOnDisk(u)'
    BY <1>1 DEF BidInv, SaltOnDisk
  <2>8. \A u \in Tasks \ {t} : revealed'[u] = revealed[u] /\ status'[u] = status[u]
    BY <2>1, <1>1 DEF Shapes
  <2>9. t \in Tasks => status'[t] = "BidReveal"
    BY <2>1, <1>1 DEF Shapes
  <2>10. ASSUME NEW u \in Tasks PROVE InWindow(u)'
    <3>1. CASE u = t
      BY <2>9, <3>1 DEF InWindow
    <3>2. CASE u # t
      BY <1>1, <2>8, <3>2 DEF BidInv, InWindow
    <3>. QED BY <3>1, <3>2
  <2>11. ASSUME NEW u \in Tasks PROVE Tracked(u)'
    <3>1. CASE u = t
      BY <2>2, <3>1 DEF Tracked, Revealing
    <3>2. CASE u # t
      <4>1. Revealing(u) => Revealing(u)'
        BY <1>2, <2>2 DEF Revealing, Moves
      <4>. QED BY <1>1, <2>8, <3>2, <4>1 DEF BidInv, Tracked, Escrowed
    <3>. QED BY <3>1, <3>2
  <2>12. ASSUME NEW e \in events' PROVE Reported(e)'
    BY <1>1, <2>4, <2>8 DEF BidInv, Reported
  <2>. QED BY <2>5, <2>6, <2>7, <2>10, <2>11, <2>12 DEF BidInv
<1>. QED BY <1>3, <1>4

\* The stake is on disk, or on the list of those nobody knows of, before the handler forgets it.
LEMMA SaveRevealKeeps ==
    ASSUME BidInv, NEW s \in Slots, SaveReveal(s) \/ NetworkError(s) PROVE BidInv'
<1>. DEFINE t == handler[s].t
<1>1. /\ BidsKept /\ Shapes /\ running' = running
      /\ UNCHANGED <<now, status, commit, revealed, events>>
  BY SameKeeps, UpdateKeeps DEF SaveReveal, NetworkError, chain, disk, history, BidInv
<1>2. running /\ IsHandler(handler[s])
  BY <1>1, HandlerAt DEF SaveReveal, NetworkError, Shapes, Idle
<1>3. Moves(s) /\ handler'[s].pc \in {"idle", "loop"}
  <2>1. CASE SaveReveal(s)
    BY <1>1, <1>2, <2>1, HandlerPut, HandlerLeaves DEF SaveReveal
  <2>2. CASE NetworkError(s)
    <3>. DEFINE k == [handler[s] EXCEPT !.pc = "loop", !.clean = FALSE]
    <3>1. Put(s, Idle) \/ Put(s, k)
      BY <2>2 DEF NetworkError
    <3>2. IsHandler(k) /\ k.pc = "loop"
      BY <1>2 DEF IsHandler
    <3>. HIDE DEF k
    <3>. QED BY <1>1, <1>2, <3>1, <3>2, HandlerPut DEF Idle
  <2>. QED BY <2>1, <2>2
<1>4. /\ stakes \subseteq stakes' /\ forgotten \subseteq forgotten'
      /\ handler[s].pc = "revealed" => t \in stakes' \cup forgotten'
  BY DEF SaveReveal, NetworkError, RecordStake, disk, history
<1>5. Shapes'
  BY <1>1, <1>3 DEF Shapes, Moves, BidsKept
<1>6. ASSUME NEW z \in Slots PROVE SaltInHand(handler[z])'
  BY <1>1, <1>3 DEF Moves, SaltInHand, BidInv
<1>7. ASSUME NEW u \in Tasks PROVE SaltOnDisk(u)'
  BY <1>1 DEF BidInv, SaltOnDisk, BidsKept, NoBid
<1>8. ASSUME NEW u \in Tasks PROVE InWindow(u)'
  BY <1>1 DEF BidInv, InWindow
<1>9. ASSUME NEW u \in Tasks PROVE Tracked(u)'
  <2>1. Revealing(u) => Revealing(u)' \/ u \in stakes' \cup forgotten'
    BY <1>3, <1>4 DEF Revealing, Moves
  <2>. QED BY <1>1, <1>4, <2>1 DEF BidInv, Tracked, Escrowed
<1>10. ASSUME NEW e \in events' PROVE Reported(e)'
  BY <1>1 DEF BidInv, Reported
<1>. QED BY <1>5, <1>6, <1>7, <1>8, <1>9, <1>10 DEF BidInv

\* A step of the auction on one task, that no handler takes: its stakes stay tracked when
\* they stay with the auction, and nothing reported before becomes untrue.
ChainStep(t) ==
    /\ UNCHANGED <<commit, revealed, bids, stakes, forgotten, now>>
    /\ DOMAIN status' = Tasks
    /\ \A u \in Tasks \ {t} : status'[u] = status[u]
    /\ t \in Tasks =>
         /\ status[t] \notin {"Completed", "Failed", "Cancelled"}
         /\ status'[t] # "none"
         /\ status'[t] = "Open" => status[t] = "none"
         /\ status'[t] \in {"Assigned", "Lost", "Delivered", "Completed", "Failed"} =>
              now >= RevealDeadline
         /\ status'[t] \in {"BidReveal", "Assigned", "Delivered"} =>
              status[t] \in {"Open", "BidReveal", "Assigned", "Delivered"}

LEMMA ChainKept ==
    ASSUME BidInv, NEW t, ChainStep(t)
    PROVE  /\ \A u \in Tasks : SaltOnDisk(u)' /\ InWindow(u)'
           /\ \A u \in Tasks : Escrowed(u)' => Escrowed(u)
           /\ \A e \in events : Reported(e)'
<1>1. ASSUME NEW u \in Tasks PROVE SaltOnDisk(u)' /\ InWindow(u)'
  BY DEF BidInv, ChainStep, SaltOnDisk, InWindow
<1>2. ASSUME NEW u \in Tasks, Escrowed(u)' PROVE Escrowed(u)
  BY <1>2 DEF BidInv, ChainStep, InWindow, Escrowed
<1>3. ASSUME NEW e \in events PROVE Reported(e)'
  BY DEF BidInv, ChainStep, Reported
<1>. QED BY <1>1, <1>2, <1>3

LEMMA MineDeliveryKeeps == ASSUME BidInv, NEW s \in Slots, MineDelivery(s) PROVE BidInv'
<1>. DEFINE t == handler[s].t
<1>1. /\ BidsKept /\ Shapes /\ running' = running
      /\ UNCHANGED <<now, commit, revealed, events, bids, stakes, forgotten>>
  BY SameKeeps DEF MineDelivery, disk, history, BidInv
<1>2. running /\ IsHandler(handler[s]) /\ handler[s].pc = "delivering"
  BY <1>1, HandlerAt DEF MineDelivery
<1>3. Moves(s) /\ handler'[s].pc \in {"delivered", "idle", "loop"}
  <2>1. Go(s, "delivered") \/ Put(s, Leave(handler[s]))
    BY DEF MineDelivery
  <2>. QED BY <1>1, <1>2, <2>1, HandlerGoes, HandlerPut, HandlerLeaves
<1>4. CASE ~DeliverAllowed(t)
  <2>1. UNCHANGED status
    BY <1>4 DEF MineDelivery
  <2>. QED BY <1>1, <1>2, <1>3, <2>1, QuietKeeps DEF QuietStep
<1>5. CASE DeliverAllowed(t)
  <2>1. status[t] = "Assigned" /\ status' = [status EXCEPT ![t] = "Delivered"]
    BY <1>5 DEF MineDelivery, DeliverAllowed
  <2>2. t \in Tasks => now >= RevealDeadline
    BY <2>1 DEF BidInv, InWindow
  <2>3. ChainStep(t)
    BY <1>1, <2>1, <2>2 DEF ChainStep, Shapes
  <2>4. Shapes'
    BY <1>1, <1>3, <2>3 DEF Shapes, Moves, ChainStep
  <2>5. ASSUME NEW z \in Slots PROVE SaltInHand(handler[z])'
    BY <1>1, <1>3 DEF Moves, SaltInHand, BidInv
  <2>6. ASSUME NEW u \in Tasks PROVE Tracked(u)'
    <3>1. Revealing(u) => Revealing(u)'
      BY <1>2, <1>3 DEF Revealing, Moves
    <3>. QED BY <1>1, <2>3, <3>1, ChainKept DEF BidInv, Tracked
  <2>. QED BY <1>1, <2>3, <2>4, <2>5, <2>6, ChainKept DEF BidInv
<1>. QED BY <1>4, <1>5

-----------------------------------------------------------------------------
(* Events, the process, the chain                                          *)

\* The stakes an event releases are not with the auction.
LEMMA ListenKeeps ==
    ASSUME BidInv, OnTaskCompleted \/ OnAgentSlashed \/ OnTaskCancelled PROVE BidInv'
<1>1. UNCHANGED <<now, status, commit, revealed, bids, running, handler, forgotten>>
  BY DEF OnTaskCompleted, OnAgentSlashed, OnTaskCancelled, chain, history
<1>2. PICK e \in events :
        /\ e[1] \in {"TaskCompleted", "AgentSlashed", "TaskCancelled"}
        /\ events' = events \ {e}
        /\ stakes' = stakes \/ stakes' = stakes \ {e[2]}
  BY DEF OnTaskCompleted, OnAgentSlashed, OnTaskCancelled, ReleaseStake
<1>3. e[2] \in Tasks => ~Escrowed(e[2])
  BY <1>2 DEF BidInv, Reported, Escrowed
<1>4. ASSUME NEW u \in Tasks PROVE Tracked(u)'
  <2>1. Escrowed(u)' = Escrowed(u) /\ Revealing(u)' = Revealing(u)
    BY <1>1 DEF Escrowed, Revealing
  <2>2. u # e[2] \/ ~Escrowed(u)
    BY <1>3
  <2>. QED BY <1>1, <1>2, <2>1, <2>2 DEF BidInv, Tracked
<1>5. Shapes' /\ (\A s \in Slots : SaltInHand(handler[s])')
      /\ \A t \in Tasks : SaltOnDisk(t)' /\ InWindow(t)'
  BY <1>1 DEF BidInv, Shapes, SaltInHand, SaltOnDisk, InWindow
<1>6. ASSUME NEW d \in events' PROVE Reported(d)'
  BY <1>1, <1>2 DEF BidInv, Reported
<1>. QED BY <1>4, <1>5, <1>6 DEF BidInv

\* The end of the process: what was mined and not saved is forgotten.
LEMMA HaltKeeps == ASSUME BidInv, Crash \/ CrashWhileSaving \/ Stop PROVE BidInv'
<1>1. Halt /\ UNCHANGED <<now, status, commit, revealed, stakes>> /\ Shapes
  BY DEF Crash, CrashWhileSaving, Stop, Halt, chain, BidInv
<1>2. BidsKept
  BY <1>1, SameKeeps DEF Crash, CrashWhileSaving, Stop, PruneOldRecords, BidsKept, BidInv, SaltOnDisk
<1>3. /\ handler' = [s \in Slots |-> Idle] /\ events' = {} /\ forgotten \subseteq forgotten'
      /\ \A s \in Slots : handler[s].pc = "revealed" => handler[s].t \in forgotten'
  BY <1>1 DEF Halt
<1>4. Shapes'
  BY <1>1, <1>2, <1>3 DEF Shapes, BidsKept
<1>5. ASSUME NEW z \in Slots PROVE SaltInHand(handler[z])'
  BY <1>3 DEF SaltInHand, Idle
<1>6. ASSUME NEW u \in Tasks PROVE SaltOnDisk(u)'
  BY <1>1, <1>2 DEF BidInv, SaltOnDisk, BidsKept, NoBid
<1>7. ASSUME NEW u \in Tasks PROVE InWindow(u)' /\ Tracked(u)'
  BY <1>1, <1>3 DEF BidInv, InWindow, Tracked, Escrowed, Revealing
<1>. QED BY <1>3, <1>4, <1>5, <1>6, <1>7 DEF BidInv

\* The poster, the other bidders, the verifiers.
LEMMA ChainKeeps ==
    ASSUME BidInv, NEW t,
           Post(t) \/ Cancel(t) \/ OtherReveals(t) \/ ResolveAuction(t) \/ Settle(t)
             \/ EnforceDeadline(t)
    PROVE  BidInv'
<1>1. UNCHANGED <<commit, revealed, bids, stakes, forgotten, now, running, handler>>
  BY DEF Post, Cancel, OtherReveals, ResolveAuction, Settle, EnforceDeadline, disk, history
<1>2. PICK st \in {"Open", "Cancelled", "BidReveal", "Assigned", "Lost", "Completed", "Failed"} :
        status' = [status EXCEPT ![t] = st]
  BY DEF Post, Cancel, OtherReveals, ResolveAuction, Settle, EnforceDeadline
<1>3. DOMAIN status = Tasks /\ (t \in Tasks => InWindow(t))
  BY DEF BidInv, Shapes
<1>4. ChainStep(t)
  <2>1. t \in Tasks => status'[t] = st
    BY <1>2, <1>3
  <2>2. t \in Tasks =>
          /\ status[t] \notin {"Completed", "Failed", "Cancelled"}
          /\ status'[t] = "Open" => status[t] = "none"
          /\ status'[t] \in {"Assigned", "Lost", "Delivered", "Completed", "Failed"} =>
               now >= RevealDeadline
          /\ status'[t] \in {"BidReveal", "Assigned", "Delivered"} =>
               status[t] \in {"Open", "BidReveal", "Assigned", "Delivered"}
    BY <1>2, <1>3, <2>1 DEF Post, Cancel, OtherReveals, ResolveAuction, Settle, EnforceDeadline,
       InWindow
  <2>. QED BY <1>1, <1>2, <1>3, <2>1, <2>2 DEF ChainStep
<1>5. ASSUME NEW e \in events' PROVE Reported(e)'
  <2>1. CASE e \in events
    BY <1>4, <2>1, ChainKept
  <2>2. CASE e \notin events
    BY <1>2, <1>3, <2>2 DEF Post, Cancel, OtherReveals, ResolveAuction, Settle, EnforceDeadline, Emit,
       Reported
  <2>. QED BY <2>1, <2>2
<1>6. ASSUME NEW u \in Tasks PROVE Tracked(u)'
  BY <1>1, <1>4, ChainKept DEF BidInv, Tracked, Revealing
<1>7. Shapes' /\ \A s \in Slots : SaltInHand(handler[s])'
  BY <1>1, <1>4 DEF BidInv, Shapes, SaltInHand, ChainStep
<1>. QED BY <1>4, <1>5, <1>6, <1>7, ChainKept DEF BidInv

LEMMA TickKeeps == ASSUME BidInv, Tick PROVE BidInv'
<1>1. /\ UNCHANGED <<status, commit, revealed, events, bids, stakes, running, forgotten>>
      /\ now \in Nat /\ now' = now + 1 /\ Shapes
  BY DEF Tick, disk, BidInv, Shapes
<1>2. DOMAIN handler' = Slots
  BY DEF Tick
<1>3. ASSUME NEW s \in Slots
      PROVE  /\ handler'[s] = Idle \/ (running /\ IsHandler(handler'[s]))
             /\ handler'[s].pc = handler[s].pc
             /\ handler[s] # Idle =>
                  handler'[s].t = handler[s].t /\ handler'[s].salt = handler[s].salt
  <2>1. CASE handler[s] = Idle
    BY <2>1 DEF Tick
  <2>2. CASE handler[s] # Idle
    <3>1. IsHandler(handler[s]) /\ running
      BY <1>1, <2>2 DEF Shapes
    <3>2. handler'[s] = [handler[s] EXCEPT !.age = 1]
      BY <2>2 DEF Tick
    <3>. QED BY <3>1, <3>2 DEF IsHandler
  <2>. QED BY <2>1, <2>2
<1>4. Shapes'
  BY <1>1, <1>2, <1>3 DEF Shapes
<1>5. ASSUME NEW z \in Slots PROVE SaltInHand(handler[z])'
  BY <1>1, <1>3 DEF SaltInHand, BidInv, Idle
<1>6. ASSUME NEW u \in Tasks PROVE SaltOnDisk(u)' /\ InWindow(u)'
  BY <1>1, RevealAssumption DEF BidInv, SaltOnDisk, InWindow
<1>7. ASSUME NEW u \in Tasks PROVE Tracked(u)'
  <2>1. Revealing(u) => Revealing(u)'
    BY <1>3 DEF Revealing, Idle
  <2>. QED BY <1>1, <2>1 DEF BidInv, Tracked, Escrowed
<1>8. ASSUME NEW e \in events' PROVE Reported(e)'
  BY <1>1 DEF BidInv, Reported
<1>. QED BY <1>4, <1>5, <1>6, <1>7, <1>8 DEF BidInv

LEMMA BidStep == ASSUME BidInv, [Next]_vars PROVE BidInv'
<1>1. CASE Bidding
  BY <1>1, QuietKeeps, LoopsQuiet, WorkQuiet, SendCommitQuiet, MineCommitKeeps, SaveCommitKeeps,
     MineRevealKeeps, SaveRevealKeeps DEF Bidding
<1>2. CASE Working
  BY <1>2, QuietKeeps, LoopsQuiet, WorkQuiet, MineDeliveryKeeps DEF Working
<1>3. CASE Listening
  BY <1>3, QuietKeeps, BeginQuiet, ListenKeeps DEF Listening
<1>4. CASE Process
  BY <1>4, QuietKeeps, BeginQuiet, HaltKeeps DEF Process
<1>5. CASE Chain
  BY <1>5, ChainKeeps, TickKeeps DEF Chain
<1>6. CASE UNCHANGED vars
  BY <1>6 DEF vars, chain, disk, history, BidInv, Shapes, SaltInHand, SaltOnDisk, InWindow, Tracked,
     Escrowed, Revealing, Reported
<1>. QED BY <1>1, <1>2, <1>3, <1>4, <1>5, <1>6 DEF Next

\* The salt on disk opens the commitment the auction holds, for any number of tasks and of
\* handlers at a time, whenever the process dies and however often it is started.
THEOREM SaltsAlwaysMatch == Spec => []SaltsMatch
<1>1. BidInv => SaltsMatch
  BY DEF BidInv, SaltOnDisk, SaltsMatch
<1>. QED BY <1>1, BidStart, BidStep, PTL DEF Spec

\* A stake with the auction is on disk, or known to a handler that has yet to save it, or
\* its receipt was lost; none is released while the auction has it.
THEOREM StakesAlwaysTracked == Spec => []StakesTracked
<1>1. BidInv => StakesTracked
  BY DEF BidInv, Tracked, Revealing, StakesTracked
<1>. QED BY <1>1, BidStart, BidStep, PTL DEF Spec

-----------------------------------------------------------------------------
(* The event listener.  The inductive invariant says what the code relies  *)
(* on without checking it: one listener of the provider per type in the    *)
(* map, at the contract of the type, and none elsewhere.                   *)

\* One listener for each type in the map, where getContractForEvent says.
OneListener(types) ==
    [c \in Contracts |-> [t \in Types |->
        IF c = getContractForEvent(t) /\ t \in types THEN 1 ELSE 0]]

ListenerInv ==
    /\ attached = OneListener(DOMAIN listeners)
    /\ DeliveredOnce

\* Every type is listened to at one of the three contracts.
LEMMA ContractOfType == ASSUME NEW t PROVE getContractForEvent(t) \in Contracts
BY DEF getContractForEvent, Contracts

\* The first callback of a type attaches its listener, a further one none.
LEMMA SubscribeKeeps ==
    ASSUME ListenerInv, NEW t \in Types, NEW cb \in Callbacks, Subscribe(t, cb),
           UNCHANGED <<expects, heard>>
    PROVE  ListenerInv'
<1>1. DeliveredOnce'
  BY DEF ListenerInv, DeliveredOnce
<1>2. CASE t \in DOMAIN listeners
  <2>1. DOMAIN listeners' = DOMAIN listeners
    BY <1>2 DEF Subscribe
  <2> QED BY <1>1, <1>2, <2>1 DEF ListenerInv, Subscribe, OneListener
<1>3. CASE t \notin DOMAIN listeners
  <2>1. DOMAIN listeners' = DOMAIN listeners \cup {t}
    BY <1>3 DEF Subscribe
  <2>2. attached' = [attached EXCEPT ![getContractForEvent(t)][t] = @ + 1]
    BY <1>3 DEF Subscribe, attachContractListener
  <2>3. attached = OneListener(DOMAIN listeners)
    BY DEF ListenerInv
  <2>4. attached[getContractForEvent(t)][t] = 0
    BY <1>3, <2>3, ContractOfType DEF OneListener
  <2>5. attached' = [c \in Contracts |-> [u \in Types |->
                       IF c = getContractForEvent(t) /\ u = t THEN 1 ELSE attached[c][u]]]
    <3>1. attached \in [Contracts -> [Types -> Nat]]
      BY <2>3 DEF OneListener
    <3>2. PICK g \in Contracts : g = getContractForEvent(t)
      BY ContractOfType
    <3>3. attached[g][t] = 0 /\ attached' = [attached EXCEPT ![g][t] = @ + 1]
      BY <2>2, <2>4, <3>2
    <3>4. attached' = [attached EXCEPT ![g] = [attached[g] EXCEPT ![t] = 1]]
      BY <3>1, <3>3
    <3>5. \A c \in Contracts : attached'[c] = [u \in Types |->
             IF c = g /\ u = t THEN 1 ELSE attached[c][u]]
      BY <3>1, <3>4
    <3>6. attached' = [c \in Contracts |-> [u \in Types |->
             IF c = g /\ u = t THEN 1 ELSE attached[c][u]]]
      BY <3>1, <3>4, <3>5
    <3> QED BY <3>2, <3>6
  <2>6. attached' = OneListener(DOMAIN listeners \cup {t})
    BY <1>3, <2>3, <2>5 DEF OneListener
  <2> QED BY <1>1, <2>1, <2>6 DEF ListenerInv
<1> QED BY <1>2, <1>3

\* off(type) takes the type out of the map and its listener off its contract.
LEMMA OffKeeps == ASSUME ListenerInv, NEW t \in Types, Off(t) PROVE ListenerInv'
<1>1. DOMAIN listeners' = DOMAIN listeners \ {t}
  BY DEF Off
<1>2. attached' = OneListener(DOMAIN listeners \ {t})
  BY ContractOfType DEF Off, ListenerInv, OneListener
<1> QED BY <1>1, <1>2 DEF Off, ListenerInv, DeliveredOnce

\* An event reaches the callbacks of its type through one listener or none.
LEMMA EmitKeeps ==
    ASSUME ListenerInv, NEW c \in Contracts, NEW t \in Types, EmitEvent(c, t)
    PROVE  ListenerInv'
<1> DEFINE called(cb) == IF cb \notin Registered(t) \/ attached[c][t] = 0 THEN 0
                        ELSE IF <<t, cb>> \in wrapped THEN 1 ELSE attached[c][t]
<1>1. attached[c][t] = IF c = getContractForEvent(t) /\ t \in DOMAIN listeners THEN 1 ELSE 0
  BY DEF ListenerInv, OneListener
<1>2. \A cb : cb \in Registered(t) => t \in DOMAIN listeners
  BY DEF Registered
<1>3. \A cb : called(cb) = IF cb \in Registered(t) /\ c = getContractForEvent(t) THEN 1 ELSE 0
  BY <1>1, <1>2
<1>4. heard' = [p \in Pairs |-> heard[p] + IF p[1] = t THEN called(p[2]) ELSE 0]
  BY DEF EmitEvent
<1>5. expects' = [p \in Pairs |-> expects[p] +
                    IF p[1] = t /\ p[2] \in Registered(t) /\ c = getContractForEvent(t)
                    THEN 1 ELSE 0]
  BY DEF EmitEvent
<1> HIDE DEF called
<1>6. heard' = expects'
  BY <1>3, <1>4, <1>5 DEF ListenerInv, DeliveredOnce
<1>7. DOMAIN listeners' = DOMAIN listeners /\ attached' = attached
  BY DEF EmitEvent
<1> QED BY <1>6, <1>7 DEF ListenerInv, DeliveredOnce

\* Whatever order programs subscribe, unsubscribe and drop types in, each event
\* reaches each callback of its type exactly once.
THEOREM EventsDeliveredOnce == ListenerSpec => []DeliveredOnce
<1>1. ListenerInit => ListenerInv
  <2> SUFFICES ASSUME ListenerInit PROVE ListenerInv
    OBVIOUS
  <2>1. DOMAIN listeners = {}
    BY DEF ListenerInit
  <2> QED BY <2>1 DEF ListenerInit, ListenerInv, OneListener, DeliveredOnce
<1>2. ListenerInv /\ [ListenerNext]_listenerVars => ListenerInv'
  <2> SUFFICES ASSUME ListenerInv, [ListenerNext]_listenerVars PROVE ListenerInv'
    OBVIOUS
  <2>1. ASSUME NEW t \in Types, NEW cb \in Callbacks, On(t, cb) PROVE ListenerInv'
    BY <2>1, SubscribeKeeps DEF On
  <2>2. ASSUME NEW t \in Types, NEW cb \in Callbacks, Once(t, cb) PROVE ListenerInv'
    BY <2>2, SubscribeKeeps DEF Once
  <2>3. ASSUME NEW t \in Types, NEW cb \in Callbacks, Unsubscribe(t, cb) PROVE ListenerInv'
    BY <2>3 DEF Unsubscribe, ListenerInv, DeliveredOnce
  <2>4. ASSUME NEW t \in Types, Off(t) PROVE ListenerInv'
    BY <2>4, OffKeeps
  <2>5. ASSUME NEW t \in Types, NEW c \in Contracts, EmitEvent(c, t) PROVE ListenerInv'
    BY <2>5, EmitKeeps
  <2>6. CASE OffAll
    <3>1. DOMAIN listeners' = {}
      BY <2>6 DEF OffAll
    <3> QED BY <2>6, <3>1 DEF OffAll, ListenerInv, OneListener, DeliveredOnce
  <2>7. CASE UNCHANGED listenerVars
    BY <2>7 DEF listenerVars, ListenerInv, DeliveredOnce
  <2> QED BY <2>1, <2>2, <2>3, <2>4, <2>5, <2>6, <2>7 DEF ListenerNext
<1>3. ListenerInv => DeliveredOnce
  BY DEF ListenerInv
<1> QED BY <1>1, <1>2, <1>3, PTL DEF ListenerSpec
-----------------------------------------------------------------------------
(* The SDK's bid manager: the inductive invariant                          *)

CallStages == {"idle", "commit", "commitReceipt", "approve", "reveal", "revealReceipt", "ended"}
CallRecs == [at : CallStages, task : BidTasks \cup {"none"}, salt : Calls \cup {Unbid},
             tick : Ticks \cup {NoTick}]
BidObjects == [salt : Calls, task : BidTasks \cup {"none"},
               status : {"none", "committed", "revealed", "expired", "won", "lost"}]
IsTick(x) == {"at", "now", "task", "todo"} = DOMAIN x /\ x.todo \subseteq BidTasks

ManagerTypes ==
    /\ calls \in [Calls -> CallRecs] /\ objects \in [Calls -> BidObjects]
    /\ DOMAIN ticks = Ticks /\ \A k \in Ticks : IsTick(ticks[k])
    /\ committed \in [BidTasks -> Calls \cup {Unbid}]
    /\ bidMap \in [BidTasks -> Calls \cup {Unbid}]

\* A bid object, of the program or kept outside, is of the salt committed for its task, and
\* is called revealed only when it is.
TrueBid(b) ==
    b.status # "none" =>
        /\ b.task \in BidTasks /\ committed[b.task] = b.salt
        /\ b.status \in {"revealed", "won", "lost"} => b.task \in shown

Made(s, t) == s \in Calls /\ objects[s].status # "none" /\ objects[s].task = t

\* A salt is committed for one task; the map holds the object of the salt committed, and what
\* was revealed on chain was in the map before.
ObjectsInv ==
    /\ \A s \in Calls : objects[s].salt = s /\ TrueBid(objects[s])
    /\ backup \subseteq BidObjects /\ \A b \in backup : b.status # "none" /\ TrueBid(b)
    /\ \A t, u \in BidTasks : committed[t] = committed[u] /\ committed[t] # Unbid => t = u
    /\ \A t \in BidTasks : Listed(t) => bidMap[t] = committed[t] /\ Made(bidMap[t], t)
    /\ \A t \in shown : t \in BidTasks => Made(committed[t], t)

\* What a call holds is its own new salt, not made into an object yet, or the salt of one made.
Unused(c) == objects[c].status = "none" /\ \A t \in BidTasks : committed[t] # c
CallOK(c) ==
    /\ calls[c].at \in {"idle", "commit"} => Unused(c)
    /\ calls[c].at \in {"commit", "commitReceipt"} =>
          calls[c].task \in BidTasks /\ calls[c].salt = c
    /\ calls[c].at = "commitReceipt" =>
          committed[calls[c].task] = c /\ objects[c].status = "none"
    /\ calls[c].at \in {"approve", "reveal", "revealReceipt"} =>
          calls[c].task \in BidTasks /\ Made(calls[c].salt, calls[c].task)
    /\ calls[c].at = "revealReceipt" => calls[c].task \in shown

SaltFound(t) ==
    committed[t] # Unbid => \/ bidMap[t] = committed[t]
                            \/ Awaiting(t, "commitReceipt")
                            \/ committed[t] \in lostSalts
RevealSeen(t) ==
    t \in shown /\ Listed(t) => \/ StatusOf(t) \notin {"committed", "expired"}
                                \/ Awaiting(t, "revealReceipt")
                                \/ t \in unknown

ManagerInv ==
    /\ ManagerTypes
    /\ ObjectsInv
    /\ \A c \in Calls : CallOK(c)
    /\ \A t \in BidTasks : SaltFound(t) /\ RevealSeen(t)

LEMMA ManagerStart == BidInit => ManagerInv
<1> SUFFICES ASSUME BidInit PROVE ManagerInv
  OBVIOUS
<1>1. /\ committed = [t \in BidTasks |-> Unbid] /\ bidMap = [t \in BidTasks |-> Unbid]
      /\ shown = {} /\ backup = {}
      /\ objects = [s \in Calls |-> [salt |-> s, task |-> "none", status |-> "none"]]
      /\ calls = [c \in Calls |-> IdleCall]
      /\ ticks = [k \in Ticks |-> [at |-> "idle", now |-> period, task |-> "none", todo |-> {}]]
  BY DEF BidInit
<1>2. ManagerTypes
  BY <1>1 DEF ManagerTypes, CallRecs, CallStages, BidObjects, IsTick, IdleCall
<1>3. ObjectsInv
  BY <1>1 DEF ObjectsInv, TrueBid, Listed
<1>4. \A c \in Calls : CallOK(c)
  BY <1>1, SaltsAssumption DEF CallOK, Unused, IdleCall
<1>5. \A t \in BidTasks : SaltFound(t) /\ RevealSeen(t)
  BY <1>1 DEF SaltFound, RevealSeen
<1> QED BY <1>2, <1>3, <1>4, <1>5 DEF ManagerInv

-----------------------------------------------------------------------------
(* The calls.                                                              *)

\* At most call c moves on.
OnlyCall(c) ==
    /\ calls' \in [Calls -> CallRecs]
    /\ \A d \in Calls : d # c => calls'[d] = calls[d]

LEMMA CallGoes ==
    ASSUME ManagerTypes, NEW c \in Calls, NEW at \in CallStages, Goes(c, at)
    PROVE  /\ OnlyCall(c)
           /\ calls'[c].at = at /\ calls'[c].task = calls[c].task /\ calls'[c].salt = calls[c].salt
<1> DEFINE h == [calls[c] EXCEPT !.at = at]
<1>1. calls[c] \in CallRecs
  BY DEF ManagerTypes
<1>2. h \in CallRecs /\ h.at = at /\ h.task = calls[c].task /\ h.salt = calls[c].salt
  BY <1>1 DEF CallRecs
<1>3. calls' = [calls EXCEPT ![c] = h]
  BY DEF Goes
<1> HIDE DEF h
<1>4. calls'[c] = h /\ calls' \in [Calls -> CallRecs] /\ \A d \in Calls : d # c => calls'[d] = calls[d]
  BY <1>2, <1>3 DEF ManagerTypes
<1> QED BY <1>2, <1>4 DEF OnlyCall

\* The ticks keep their shape.
TicksKept == DOMAIN ticks' = Ticks /\ \A k \in Ticks : IsTick(ticks'[k])

LEMMA TickPut ==
    ASSUME ManagerTypes, NEW k, NEW x, IsTick(x), ticks' = [ticks EXCEPT ![k] = x]
    PROVE  TicksKept
<1>1. CASE k \in Ticks
  BY <1>1 DEF ManagerTypes, TicksKept
<1>2. CASE k \notin Ticks
  BY <1>2 DEF ManagerTypes, TicksKept
<1> QED BY <1>1, <1>2

LEMMA TicksSame == ASSUME ManagerTypes, ticks' = ticks PROVE TicksKept
BY DEF ManagerTypes, TicksKept

LEMMA CallEnds ==
    ASSUME ManagerTypes, NEW c \in Calls, Ends(c)
    PROVE  OnlyCall(c) /\ calls'[c].at = "ended" /\ TicksKept
<1>1. OnlyCall(c) /\ calls'[c].at = "ended"
  BY CallGoes DEF Ends, CallStages
<1>2. CASE ticks' = ticks
  BY <1>1, <1>2, TicksSame
<1>3. CASE ticks' = [ticks EXCEPT ![calls[c].tick].at = "after"]
  <2> SUFFICES ASSUME NEW k, k = calls[c].tick PROVE TicksKept
    BY <1>1
  <2>1. CASE k \in Ticks
    <3> DEFINE x == [ticks[k] EXCEPT !.at = "after"]
    <3>1. IsTick(x)
      BY <2>1 DEF ManagerTypes, IsTick
    <3>2. ticks' = [ticks EXCEPT ![k] = x]
      BY <1>3
    <3> HIDE DEF x
    <3> QED BY <3>1, <3>2, TickPut
  <2>2. CASE k \notin Ticks
    BY <1>3, <2>2 DEF ManagerTypes, TicksKept
  <2> QED BY <2>1, <2>2
<1> QED BY <1>1, <1>2, <1>3 DEF Ends

\* A call starts: what it puts in place of an idle one.
LEMMA CallPut ==
    ASSUME ManagerTypes, NEW c \in Calls, NEW h \in CallRecs, calls' = [calls EXCEPT ![c] = h]
    PROVE  OnlyCall(c) /\ calls'[c] = h
BY DEF ManagerTypes, OnlyCall

-----------------------------------------------------------------------------
(* Steps that leave the bids.                                              *)

\* Nothing is committed, shown, kept or dropped, and no receipt arrives.
QuietCall(c) ==
    /\ UNCHANGED <<committed, shown, objects, bidMap, backup>>
    /\ lostSalts \subseteq lostSalts' /\ unknown \subseteq unknown'
    /\ OnlyCall(c) /\ TicksKept
    /\ calls[c].at \notin {"commitReceipt", "revealReceipt"} \/ calls'[c] = calls[c]
    /\ CallOK(c)'

LEMMA QuietCallKeeps ==
    ASSUME ManagerInv, NEW c \in Calls, QuietCall(c)
    PROVE  ManagerInv'
<1>1. UNCHANGED <<committed, shown, objects, bidMap, backup>>
  BY DEF QuietCall
<1>2. ManagerTypes'
  BY <1>1 DEF QuietCall, OnlyCall, TicksKept, ManagerInv, ManagerTypes
<1>3. ObjectsInv'
  BY <1>1 DEF ManagerInv, ObjectsInv, TrueBid, Listed, Made
<1>4. ASSUME NEW d \in Calls PROVE CallOK(d)'
  <2>1. CASE d = c
    BY <2>1 DEF QuietCall
  <2>2. CASE d # c
    BY <1>1, <2>2 DEF QuietCall, OnlyCall, ManagerInv, CallOK, Unused, Made
  <2> QED BY <2>1, <2>2
<1>5. \A t, at : at \in {"commitReceipt", "revealReceipt"} /\ Awaiting(t, at) => Awaiting(t, at)'
  BY DEF QuietCall, OnlyCall, Awaiting
<1>6. ASSUME NEW t \in BidTasks PROVE SaltFound(t)' /\ RevealSeen(t)'
  BY <1>1, <1>5 DEF QuietCall, ManagerInv, SaltFound, RevealSeen, Listed, StatusOf
<1> QED BY <1>2, <1>3, <1>4, <1>6 DEF ManagerInv

\* No call moves.
LEMMA ManagerQuietKeeps ==
    ASSUME ManagerInv, TicksKept,
           UNCHANGED <<committed, shown, objects, bidMap, backup, calls, lostSalts, unknown>>
    PROVE  ManagerInv'
<1>1. ManagerTypes'
  BY DEF TicksKept, ManagerInv, ManagerTypes
<1>2. ObjectsInv'
  BY DEF ManagerInv, ObjectsInv, TrueBid, Listed, Made
<1>3. \A c \in Calls : CallOK(c)'
  BY DEF ManagerInv, CallOK, Unused, Made
<1>4. \A t \in BidTasks : SaltFound(t)' /\ RevealSeen(t)'
  BY DEF ManagerInv, SaltFound, RevealSeen, Listed, StatusOf, Awaiting
<1> QED BY <1>1, <1>2, <1>3, <1>4 DEF ManagerInv

LEMMA CommitBidKeeps ==
    ASSUME ManagerInv, NEW c \in Calls, NEW t \in BidTasks, CommitBid(c, t)
    PROVE  ManagerInv'
<1> DEFINE h == [at |-> "commit", task |-> t, salt |-> c, tick |-> NoTick]
<1>1. /\ calls[c].at = "idle" /\ calls' = [calls EXCEPT ![c] = h]
      /\ UNCHANGED <<committed, shown, objects, bidMap, backup, ticks, lostSalts, unknown>>
  BY DEF CommitBid, auction, store, loss
<1>2. h \in CallRecs /\ h.at = "commit" /\ h.task = t /\ h.salt = c
  BY DEF CallRecs, CallStages
<1> HIDE DEF h
<1>3. OnlyCall(c) /\ calls'[c] = h /\ TicksKept
  BY <1>1, <1>2, CallPut, TicksSame DEF ManagerInv
<1>4. CallOK(c)'
  BY <1>1, <1>2, <1>3 DEF ManagerInv, CallOK, Unused
<1> QED BY <1>1, <1>3, <1>4, QuietCallKeeps DEF QuietCall

\* A reveal begins, of a bid that is in the map.
LEMMA RevealBegins ==
    ASSUME ManagerInv, NEW c \in Calls, NEW t \in BidTasks, NEW tick \in Ticks \cup {NoTick},
           Reveal(c, t, tick), TicksKept,
           UNCHANGED <<committed, shown, objects, bidMap, backup, lostSalts, unknown>>
    PROVE  ManagerInv'
<1>1. calls[c].at = "idle" /\ Listed(t) /\ Made(bidMap[t], t)
  BY DEF Reveal, ManagerInv, ObjectsInv
<1>2. PICK at \in {"approve", "reveal"} :
        calls' = [calls EXCEPT ![c] = [at |-> at, task |-> t, salt |-> bidMap[t], tick |-> tick]]
  BY DEF Reveal
<1> DEFINE h == [at |-> at, task |-> t, salt |-> bidMap[t], tick |-> tick]
<1>3. h \in CallRecs /\ h.at = at /\ h.task = t /\ h.salt = bidMap[t]
  BY <1>1 DEF CallRecs, CallStages, Made
<1>4. calls' = [calls EXCEPT ![c] = h]
  BY <1>2
<1> HIDE DEF h
<1>5. OnlyCall(c) /\ calls'[c] = h
  BY <1>3, <1>4, CallPut DEF ManagerInv
<1>6. CallOK(c)'
  BY <1>1, <1>3, <1>5 DEF CallOK, Made
<1> QED BY <1>1, <1>5, <1>6, QuietCallKeeps DEF QuietCall

LEMMA RevealBidKeeps ==
    ASSUME ManagerInv, NEW c \in Calls, NEW t \in BidTasks, RevealBid(c, t)
    PROVE  ManagerInv'
BY RevealBegins, TicksSame DEF RevealBid, ManagerInv, auction, store, loss

LEMMA ApproveKeeps ==
    ASSUME ManagerInv, NEW c \in Calls, Approve(c)
    PROVE  ManagerInv'
<1>1. /\ calls[c].at = "approve" /\ Goes(c, "reveal")
      /\ UNCHANGED <<committed, shown, objects, bidMap, backup, ticks, lostSalts, unknown>>
  BY DEF Approve, store, loss
<1>2. /\ OnlyCall(c) /\ calls'[c].at = "reveal" /\ calls'[c].task = calls[c].task
      /\ calls'[c].salt = calls[c].salt /\ TicksKept
  BY <1>1, CallGoes, TicksSame DEF ManagerInv, CallStages
<1>3. CallOK(c)'
  BY <1>1, <1>2 DEF ManagerInv, CallOK, Made
<1> QED BY <1>1, <1>2, <1>3, QuietCallKeeps DEF QuietCall

\* A call whose transaction is refused ends.
LEMMA RefusedKeeps ==
    ASSUME ManagerInv, NEW c \in Calls, calls[c].at \in {"commit", "reveal"}, Ends(c),
           UNCHANGED <<committed, shown, objects, bidMap, backup, lostSalts, unknown>>
    PROVE  ManagerInv'
<1>1. OnlyCall(c) /\ calls'[c].at = "ended" /\ TicksKept
  BY CallEnds DEF ManagerInv
<1>2. CallOK(c)'
  BY <1>1 DEF CallOK
<1> QED BY <1>1, <1>2, QuietCallKeeps DEF QuietCall

-----------------------------------------------------------------------------
(* Steps on chain and their receipts.                                      *)

LEMMA CommitMinedKeeps ==
    ASSUME ManagerInv, NEW c \in Calls, CommitMined(c)
    PROVE  ManagerInv'
<1> SUFFICES ASSUME NEW t, t = calls[c].task PROVE ManagerInv'
  OBVIOUS
<1>1. /\ calls[c].at = "commit" /\ t \in BidTasks /\ calls[c].salt = c /\ Unused(c)
      /\ UNCHANGED <<shown, objects, bidMap, backup, lostSalts, unknown>>
  BY DEF CommitMined, ManagerInv, CallOK, store, loss
<1>2. CASE committed' = committed /\ Ends(c)
  BY <1>1, <1>2, RefusedKeeps
<1>3. CASE /\ committed[t] = Unbid /\ committed' = [committed EXCEPT ![t] = calls[c].salt]
           /\ Goes(c, "commitReceipt") /\ UNCHANGED ticks
  <2>1. /\ OnlyCall(c) /\ calls'[c].at = "commitReceipt" /\ calls'[c].task = t
        /\ calls'[c].salt = c /\ TicksKept
    BY <1>1, <1>3, CallGoes, TicksSame DEF ManagerInv, CallStages
  <2>2. /\ committed' \in [BidTasks -> Calls \cup {Unbid}] /\ committed'[t] = c
        /\ \A u \in BidTasks : u # t => committed'[u] = committed[u]
    BY <1>1, <1>3 DEF ManagerInv, ManagerTypes
  <2>3. ManagerTypes'
    BY <1>1, <2>1, <2>2 DEF OnlyCall, TicksKept, ManagerInv, ManagerTypes
  <2>4. \A u \in BidTasks : committed[u] # Unbid => u # t /\ committed'[u] = committed[u]
    BY <1>3, <2>2
  <2>5. \A b : TrueBid(b) /\ b.salt \in Calls => TrueBid(b)'
    BY <1>1, <2>4, SaltsAssumption DEF TrueBid
  <2>6. \A s, u : Made(s, u)' = Made(s, u)
    BY <1>1 DEF Made
  <2>7. ObjectsInv'
    <3>1. ASSUME NEW s \in Calls PROVE objects'[s].salt = s /\ TrueBid(objects[s])'
      BY <1>1, <2>5 DEF ManagerInv, ObjectsInv
    <3>2. backup' \subseteq BidObjects /\ \A b \in backup' : b.status # "none" /\ TrueBid(b)'
      BY <1>1, <2>5 DEF ManagerInv, ObjectsInv, BidObjects
    <3>3. ASSUME NEW u \in BidTasks, NEW x \in BidTasks,
                 committed'[u] = committed'[x], committed'[u] # Unbid
          PROVE  u = x
      <4>1. \A y \in BidTasks : committed[y] # c
        BY <1>1 DEF Unused
      <4> QED BY <2>2, <3>3, <4>1 DEF ManagerInv, ObjectsInv
    <3>4. \A u \in BidTasks : Listed(u)' => bidMap'[u] = committed'[u] /\ Made(bidMap[u], u)'
      BY <1>1, <2>4, <2>6 DEF ManagerInv, ObjectsInv, Listed
    <3>5. ASSUME NEW u \in shown', u \in BidTasks PROVE Made(committed[u], u)'
      <4>1. Made(committed[u], u)
        BY <1>1, <3>5 DEF ManagerInv, ObjectsInv
      <4>2. committed[u] # Unbid
        BY <4>1, SaltsAssumption DEF Made
      <4> QED BY <2>4, <2>6, <3>5, <4>1, <4>2
    <3> QED BY <3>1, <3>2, <3>3, <3>4, <3>5 DEF ObjectsInv
  <2>8. ASSUME NEW d \in Calls PROVE CallOK(d)'
    <3>1. CASE d = c
      BY <1>1, <2>1, <2>2, <3>1 DEF CallOK, Unused
    <3>2. CASE d # c
      <4>1. calls'[d] = calls[d] /\ CallOK(d)
        BY <2>1, <3>2 DEF OnlyCall, ManagerInv
      <4>2. Unused(d) => Unused(d)'
        BY <1>1, <2>2, <3>2 DEF Unused
      <4>3. ASSUME calls[d].at = "commitReceipt"
            PROVE  committed'[calls[d].task] = d
        BY <2>4, <4>1, <4>3, SaltsAssumption DEF CallOK
      <4> QED BY <1>1, <2>6, <4>1, <4>2, <4>3 DEF CallOK
    <3> QED BY <3>1, <3>2
  <2>9. \A u, at : at \in {"commitReceipt", "revealReceipt"} /\ Awaiting(u, at) => Awaiting(u, at)'
    BY <1>1, <2>1 DEF OnlyCall, Awaiting
  <2>10. ASSUME NEW u \in BidTasks PROVE SaltFound(u)' /\ RevealSeen(u)'
    <3>1. CASE u = t
      BY <1>1, <2>1, <2>9, <3>1 DEF ManagerInv, SaltFound, RevealSeen, Listed, StatusOf, Awaiting
    <3>2. CASE u # t
      BY <1>1, <2>2, <2>9, <3>2 DEF ManagerInv, SaltFound, RevealSeen, Listed, StatusOf
    <3> QED BY <3>1, <3>2
  <2> QED BY <2>3, <2>7, <2>8, <2>10 DEF ManagerInv
<1> QED BY <1>1, <1>2, <1>3 DEF CommitMined

LEMMA RevealMinedKeeps ==
    ASSUME ManagerInv, NEW c \in Calls, RevealMined(c)
    PROVE  ManagerInv'
<1> SUFFICES ASSUME NEW t, t = calls[c].task PROVE ManagerInv'
  OBVIOUS
<1>1. /\ calls[c].at = "reveal" /\ t \in BidTasks /\ Made(calls[c].salt, t)
      /\ UNCHANGED <<committed, objects, bidMap, backup, lostSalts, unknown>>
  BY DEF RevealMined, ManagerInv, CallOK, store, loss
<1>2. CASE UNCHANGED shown /\ Ends(c)
  BY <1>1, <1>2, RefusedKeeps
<1>3. CASE /\ committed[t] = calls[c].salt /\ shown' = shown \cup {t}
           /\ Goes(c, "revealReceipt") /\ UNCHANGED ticks
  <2>1. /\ OnlyCall(c) /\ calls'[c].at = "revealReceipt" /\ calls'[c].task = t
        /\ calls'[c].salt = calls[c].salt /\ TicksKept
    BY <1>1, <1>3, CallGoes, TicksSame DEF ManagerInv, CallStages
  <2>2. ManagerTypes'
    BY <1>1, <2>1 DEF OnlyCall, TicksKept, ManagerInv, ManagerTypes
  <2>3. \A b : TrueBid(b) => TrueBid(b)'
    BY <1>1, <1>3 DEF TrueBid
  <2>4. \A s, u : Made(s, u)' = Made(s, u)
    BY <1>1 DEF Made
  <2>5. ObjectsInv'
    BY <1>1, <1>3, <2>3, <2>4 DEF ManagerInv, ObjectsInv, Listed
  <2>6. ASSUME NEW d \in Calls PROVE CallOK(d)'
    <3>1. CASE d = c
      BY <1>1, <1>3, <2>1, <2>4, <3>1 DEF CallOK
    <3>2. CASE d # c
      BY <1>1, <1>3, <2>1, <2>4, <3>2 DEF OnlyCall, ManagerInv, CallOK, Unused
    <3> QED BY <3>1, <3>2
  <2>7. \A u, at : at \in {"commitReceipt", "revealReceipt"} /\ Awaiting(u, at) => Awaiting(u, at)'
    BY <1>1, <2>1 DEF OnlyCall, Awaiting
  <2>8. Awaiting(t, "revealReceipt")'
    BY <2>1 DEF Awaiting
  <2>9. ASSUME NEW u \in BidTasks PROVE SaltFound(u)' /\ RevealSeen(u)'
    BY <1>1, <1>3, <2>7, <2>8 DEF ManagerInv, SaltFound, RevealSeen, Listed, StatusOf
  <2> QED BY <2>2, <2>5, <2>6, <2>9 DEF ManagerInv
<1> QED BY <1>1, <1>2, <1>3 DEF RevealMined

LEMMA KeepKeeps ==
    ASSUME ManagerInv, NEW c \in Calls, Keep(c)
    PROVE  ManagerInv'
<1> SUFFICES ASSUME NEW t, t = calls[c].task PROVE ManagerInv'
  OBVIOUS
<1> DEFINE o == [salt |-> c, task |-> t, status |-> "committed"]
<1>1. /\ calls[c].at = "commitReceipt" /\ t \in BidTasks /\ committed[t] = c
      /\ objects[c].status = "none" /\ Ends(c)
      /\ UNCHANGED <<committed, shown, backup, lostSalts, unknown>>
  BY DEF Keep, ManagerInv, CallOK, auction, loss
<1>2. /\ o \in BidObjects /\ o.salt = c /\ o.task = t /\ o.status = "committed"
      /\ objects' = [objects EXCEPT ![c] = o] /\ bidMap' = [bidMap EXCEPT ![t] = c]
  BY <1>1 DEF Keep, BidObjects
<1> HIDE DEF o
<1>3. /\ objects' \in [Calls -> BidObjects] /\ objects'[c] = o
      /\ \A s \in Calls : s # c => objects'[s] = objects[s]
      /\ bidMap' \in [BidTasks -> Calls \cup {Unbid}] /\ bidMap'[t] = c
      /\ \A u \in BidTasks : u # t => bidMap'[u] = bidMap[u]
  BY <1>1, <1>2 DEF ManagerInv, ManagerTypes
<1>4. OnlyCall(c) /\ calls'[c].at = "ended" /\ TicksKept
  BY <1>1, CallEnds DEF ManagerInv
<1>5. ManagerTypes'
  BY <1>1, <1>3, <1>4 DEF OnlyCall, TicksKept, ManagerInv, ManagerTypes
<1>6. \A b : TrueBid(b)' = TrueBid(b)
  BY <1>1 DEF TrueBid
<1>7. t \notin shown
  BY <1>1 DEF ManagerInv, ObjectsInv, Made
<1>8. \A s, u : Made(s, u) => Made(s, u)' /\ s # c
  BY <1>1, <1>3 DEF Made
<1>9. Made(c, t)' /\ TrueBid(o)
  BY <1>1, <1>2, <1>3 DEF Made, TrueBid
<1>10. ObjectsInv'
  <2>1. ASSUME NEW s \in Calls PROVE objects'[s].salt = s /\ TrueBid(objects[s])'
    <3>1. CASE s = c
      BY <1>2, <1>3, <1>6, <1>9, <3>1
    <3>2. CASE s # c
      BY <1>3, <1>6, <3>2 DEF ManagerInv, ObjectsInv
    <3> QED BY <3>1, <3>2
  <2>2. backup' \subseteq BidObjects /\ \A b \in backup' : b.status # "none" /\ TrueBid(b)'
    BY <1>1, <1>6 DEF ManagerInv, ObjectsInv
  <2>3. ASSUME NEW u \in BidTasks, Listed(u)'
        PROVE  bidMap'[u] = committed'[u] /\ Made(bidMap[u], u)'
    <3>1. CASE u = t
      BY <1>1, <1>3, <1>9, <3>1
    <3>2. CASE u # t
      BY <1>1, <1>3, <1>8, <2>3, <3>2 DEF ManagerInv, ObjectsInv, Listed
    <3> QED BY <3>1, <3>2
  <2>4. ASSUME NEW u \in shown', u \in BidTasks PROVE Made(committed[u], u)'
    BY <1>1, <1>8, <2>4 DEF ManagerInv, ObjectsInv
  <2>5. \A u, x \in BidTasks : committed'[u] = committed'[x] /\ committed'[u] # Unbid => u = x
    BY <1>1 DEF ManagerInv, ObjectsInv
  <2> QED BY <2>1, <2>2, <2>3, <2>4, <2>5 DEF ObjectsInv
<1>11. ASSUME NEW d \in Calls PROVE CallOK(d)'
  <2>1. CASE d = c
    BY <1>4, <2>1 DEF CallOK
  <2>2. CASE d # c
    BY <1>1, <1>3, <1>4, <1>8, <2>2 DEF OnlyCall, ManagerInv, CallOK, Unused
  <2> QED BY <2>1, <2>2
<1>12. ASSUME NEW u, NEW at, u # t \/ at # "commitReceipt",
              at \in {"commitReceipt", "revealReceipt"}, Awaiting(u, at)
       PROVE  Awaiting(u, at)'
  BY <1>1, <1>4, <1>12 DEF OnlyCall, Awaiting
<1>13. ASSUME NEW u \in BidTasks PROVE SaltFound(u)' /\ RevealSeen(u)'
  <2>1. CASE u = t
    BY <1>1, <1>3, <1>7, <2>1 DEF SaltFound, RevealSeen
  <2>2. CASE u # t
    <3>1. Listed(u) => objects'[bidMap[u]] = objects[bidMap[u]]
      BY <1>3, <1>8 DEF ManagerInv, ObjectsInv, Made
    <3> QED BY <1>1, <1>3, <1>12, <2>2, <3>1
          DEF ManagerInv, SaltFound, RevealSeen, Listed, StatusOf
  <2> QED BY <2>1, <2>2
<1> QED BY <1>5, <1>10, <1>11, <1>13 DEF ManagerInv

\* The object of salt s, made for task t, changes its status.
ObjectStep(s, t, new) ==
    /\ Made(s, t) /\ t \in BidTasks
    /\ objects' = [objects EXCEPT ![s].status = new]
    /\ new \in {"expired", "revealed", "won", "lost"}
    /\ new # "expired" => t \in shown
    /\ new = "expired" => objects[s].status = "committed"
    /\ UNCHANGED <<committed, shown, bidMap, backup, lostSalts, unknown>> /\ TicksKept

\* Nobody else awaits another receipt less.
LEMMA ObjectKeeps ==
    ASSUME ManagerInv, NEW s, NEW t, NEW new, ObjectStep(s, t, new),
           \/ UNCHANGED calls
           \/ \E c \in Calls : /\ OnlyCall(c) /\ calls'[c].at = "ended" /\ new = "revealed"
                               /\ calls[c].at = "revealReceipt" /\ calls[c].task = t
    PROVE  ManagerInv'
<1> DEFINE o == [objects[s] EXCEPT !.status = new]
<1>1. /\ s \in Calls /\ objects[s].status # "none" /\ objects[s].task = t /\ t \in BidTasks
      /\ objects[s] \in BidObjects /\ committed[t] = s /\ objects[s].salt = s
      /\ UNCHANGED <<committed, shown, bidMap, backup, lostSalts, unknown>>
  BY DEF ObjectStep, Made, ManagerInv, ManagerTypes, ObjectsInv, TrueBid
<1>2. /\ o \in BidObjects /\ o.salt = s /\ o.task = t /\ o.status = new
  BY <1>1 DEF ObjectStep, BidObjects
<1>3. objects' = [objects EXCEPT ![s] = o]
  BY DEF ObjectStep
<1> HIDE DEF o
<1>4. /\ objects' \in [Calls -> BidObjects] /\ objects'[s] = o
      /\ \A r \in Calls : r # s => objects'[r] = objects[r]
  BY <1>1, <1>2, <1>3 DEF ManagerInv, ManagerTypes
<1>5. calls' \in [Calls -> CallRecs]
  BY DEF OnlyCall, ManagerInv, ManagerTypes
<1>6. ManagerTypes'
  BY <1>1, <1>4, <1>5 DEF ObjectStep, TicksKept, ManagerInv, ManagerTypes
<1>7. \A b : TrueBid(b)' = TrueBid(b)
  BY <1>1 DEF TrueBid
<1>8. \A r, u : Made(r, u)' = Made(r, u)
  BY <1>1, <1>2, <1>4 DEF Made, ObjectStep
<1>9. ObjectsInv'
  <2>1. ASSUME NEW r \in Calls PROVE objects'[r].salt = r /\ TrueBid(objects[r])'
    <3>1. CASE r = s
      BY <1>1, <1>2, <1>4, <3>1 DEF TrueBid, ObjectStep
    <3>2. CASE r # s
      BY <1>4, <1>7, <3>2 DEF ManagerInv, ObjectsInv
    <3> QED BY <3>1, <3>2
  <2> QED BY <1>1, <1>7, <1>8, <2>1 DEF ManagerInv, ObjectsInv, Listed
<1>10. \A d \in Calls : Unused(d) => Unused(d)'
  BY <1>1, <1>4 DEF Unused
<1>11. ASSUME NEW d \in Calls PROVE CallOK(d)'
  <2>1. CASE calls'[d] = calls[d]
    <3>1. objects[d].status = "none" => objects'[d].status = "none"
      BY <1>1, <1>4
    <3> QED BY <1>1, <1>8, <1>10, <2>1, <3>1 DEF ManagerInv, CallOK
  <2>2. CASE calls'[d].at = "ended"
    BY <2>2 DEF CallOK
  <2> QED BY <2>1, <2>2 DEF OnlyCall
<1>12. ASSUME NEW u \in BidTasks PROVE SaltFound(u)'
  <2>1. Awaiting(u, "commitReceipt") => Awaiting(u, "commitReceipt")'
    BY DEF OnlyCall, Awaiting
  <2> QED BY <1>1, <2>1 DEF ManagerInv, SaltFound
<1>13. ASSUME NEW u \in BidTasks PROVE RevealSeen(u)'
  <2>1. CASE u = t
    <3>1. CASE new # "expired"
      BY <1>1, <1>2, <1>4, <2>1, <3>1
         DEF RevealSeen, Listed, StatusOf, ManagerInv, ObjectsInv, ObjectStep
    <3>2. CASE new = "expired"
      <4>1. UNCHANGED calls
        BY <3>2
      <4>2. Listed(u) => StatusOf(u) = "committed"
        BY <1>1, <2>1, <3>2 DEF ObjectStep, ManagerInv, ObjectsInv, StatusOf
      <4> QED BY <1>1, <4>1, <4>2 DEF RevealSeen, Listed, Awaiting, ManagerInv
    <3> QED BY <3>1, <3>2
  <2>2. CASE u # t
    <3>1. Listed(u) => objects'[bidMap[u]] = objects[bidMap[u]]
      BY <1>1, <1>4, <2>2 DEF ManagerInv, ObjectsInv, Made
    <3>2. Awaiting(u, "revealReceipt") => Awaiting(u, "revealReceipt")'
      BY <2>2 DEF OnlyCall, Awaiting
    <3> QED BY <1>1, <3>1, <3>2 DEF ManagerInv, RevealSeen, Listed, StatusOf
  <2> QED BY <2>1, <2>2
<1> QED BY <1>6, <1>9, <1>11, <1>12, <1>13 DEF ManagerInv

LEMMA RevealedKeeps ==
    ASSUME ManagerInv, NEW c \in Calls, Revealed(c)
    PROVE  ManagerInv'
<1> SUFFICES ASSUME NEW s, NEW t, s = calls[c].salt, t = calls[c].task PROVE ManagerInv'
  OBVIOUS
<1>1. /\ calls[c].at = "revealReceipt" /\ t \in BidTasks /\ Made(s, t) /\ t \in shown
      /\ UNCHANGED <<committed, shown, bidMap, backup, lostSalts, unknown>>
      /\ objects' = [objects EXCEPT ![s].status = "revealed"] /\ Ends(c)
  BY DEF Revealed, ManagerInv, CallOK, auction, loss
<1>2. OnlyCall(c) /\ calls'[c].at = "ended" /\ TicksKept
  BY <1>1, CallEnds DEF ManagerInv
<1>3. ObjectStep(s, t, "revealed")
  BY <1>1, <1>2 DEF ObjectStep
<1> QED BY <1>1, <1>2, <1>3, ObjectKeeps

LEMMA UpdateBidStatusKeeps ==
    ASSUME ManagerInv, NEW t \in BidTasks, UpdateBidStatus(t)
    PROVE  ManagerInv'
<1> SUFFICES ASSUME NEW s, s = bidMap[t] PROVE ManagerInv'
  OBVIOUS
<1>1. PICK new \in {"won", "lost"} : objects' = [objects EXCEPT ![s].status = new]
  BY DEF UpdateBidStatus
<1>2. /\ t \in shown /\ Made(s, t)
      /\ UNCHANGED <<committed, shown, bidMap, backup, lostSalts, unknown, calls, ticks>>
  BY DEF UpdateBidStatus, ManagerInv, ObjectsInv, auction, loss
<1>3. ObjectStep(s, t, new)
  BY <1>1, <1>2, TicksSame DEF ObjectStep, ManagerInv
<1> QED BY <1>2, <1>3, ObjectKeeps

-----------------------------------------------------------------------------
(* The watcher, the rest of the interface, and the faults.                 *)

LEMMA TicksKeep ==
    ASSUME ManagerInv, NEW k \in Ticks, WatcherTick(k) \/ Resume(k)
    PROVE  ManagerInv'
<1>1. UNCHANGED <<committed, shown, objects, bidMap, backup, calls, lostSalts, unknown>>
  BY DEF WatcherTick, Resume, auction, store, loss
<1>2. CASE WatcherTick(k)
  <2> DEFINE x == [at |-> "next", now |-> period, task |-> "none",
                   todo |-> {t \in BidTasks : Listed(t)}]
  <2>1. IsTick(x) /\ ticks' = [ticks EXCEPT ![k] = x]
    BY <1>2 DEF WatcherTick, IsTick
  <2> HIDE DEF x
  <2> QED BY <1>1, <2>1, TickPut, ManagerQuietKeeps DEF ManagerInv
<1>3. CASE Resume(k)
  <2> DEFINE x == [ticks[k] EXCEPT !.at = "next"]
  <2>1. IsTick(x)
    BY DEF ManagerInv, ManagerTypes, IsTick
  <2>2. ticks' = [ticks EXCEPT ![k] = x]
    BY <1>3 DEF Resume
  <2> HIDE DEF x
  <2> QED BY <1>1, <2>1, <2>2, TickPut, ManagerQuietKeeps DEF ManagerInv
<1> QED BY <1>2, <1>3

LEMMA VisitKeeps ==
    ASSUME ManagerInv, NEW k \in Ticks, Visit(k)
    PROVE  ManagerInv'
<1>1. PICK t \in ticks[k].todo :
        LET rest == [ticks EXCEPT ![k].todo = @ \ {t}, ![k].task = t]
        IN \/ ticks' = rest /\ UNCHANGED <<calls, objects>>
           \/ /\ Listed(t) /\ \E c \in Calls : Reveal(c, t, k)
              /\ ticks' = [rest EXCEPT ![k].at = "revealing"]
              /\ UNCHANGED objects
           \/ /\ Listed(t) /\ StatusOf(t) = "committed"
              /\ objects' = [objects EXCEPT ![bidMap[t]].status = "expired"]
              /\ ticks' = rest /\ UNCHANGED calls
  BY DEF Visit
<1>2. /\ UNCHANGED <<committed, shown, bidMap, backup, lostSalts, unknown>>
      /\ t \in BidTasks /\ IsTick(ticks[k])
  BY DEF Visit, ManagerInv, ManagerTypes, IsTick, auction, loss
<1> DEFINE rest == [ticks EXCEPT ![k].todo = @ \ {t}, ![k].task = t]
           x    == [[ticks[k] EXCEPT !.todo = @ \ {t}] EXCEPT !.task = t]
           y    == [x EXCEPT !.at = "revealing"]
<1>3. IsTick(x) /\ IsTick(y)
  <2>1. x.todo = ticks[k].todo \ {t} /\ DOMAIN x = DOMAIN ticks[k]
    BY <1>2 DEF IsTick
  <2>2. IsTick(x)
    BY <1>2, <2>1 DEF IsTick
  <2> HIDE DEF x
  <2>3. y.todo = x.todo /\ DOMAIN y = DOMAIN x
    BY <2>2 DEF IsTick
  <2> QED BY <2>2, <2>3 DEF IsTick
<1>4. /\ rest = [ticks EXCEPT ![k] = x]
      /\ [rest EXCEPT ![k].at = "revealing"] = [ticks EXCEPT ![k] = y]
  BY DEF ManagerInv, ManagerTypes
<1>5. /\ ticks' = rest => ticks' = [ticks EXCEPT ![k] = x]
      /\ ticks' = [rest EXCEPT ![k].at = "revealing"] => ticks' = [ticks EXCEPT ![k] = y]
  BY <1>4
<1>6. TicksKept
  <2> HIDE DEF x, y, rest
  <2> QED BY <1>1, <1>3, <1>5, TickPut DEF ManagerInv, rest
<1>7. CASE UNCHANGED <<calls, objects>>
  BY <1>2, <1>6, <1>7, ManagerQuietKeeps
<1>8. CASE UNCHANGED objects /\ \E c \in Calls : Reveal(c, t, k)
  BY <1>2, <1>6, <1>8, RevealBegins
<1>9. CASE /\ Listed(t) /\ StatusOf(t) = "committed" /\ UNCHANGED calls
           /\ objects' = [objects EXCEPT ![bidMap[t]].status = "expired"]
  <2> SUFFICES ASSUME NEW s, s = bidMap[t] PROVE ManagerInv'
    OBVIOUS
  <2>1. Made(s, t) /\ objects[s].status = "committed"
    BY <1>2, <1>9 DEF ManagerInv, ObjectsInv, StatusOf
  <2>2. ObjectStep(s, t, "expired")
    BY <1>2, <1>6, <1>9, <2>1 DEF ObjectStep
  <2> QED BY <1>9, <2>2, ObjectKeeps
<1> QED BY <1>1, <1>7, <1>8, <1>9

LEMMA ExportKeeps ==
    ASSUME ManagerInv, ExportBids
    PROVE  ManagerInv'
<1>1. /\ backup' = {objects[bidMap[t]] : t \in {u \in BidTasks : Listed(u)}}
      /\ UNCHANGED <<committed, shown, objects, bidMap, calls, ticks, lostSalts, unknown>>
  BY DEF ExportBids, auction, loss
<1>2. ASSUME NEW b \in backup'
      PROVE  b \in BidObjects /\ b.status # "none" /\ TrueBid(b)
  <2>1. PICK t \in BidTasks : Listed(t) /\ b = objects[bidMap[t]]
    BY <1>1
  <2>2. Made(bidMap[t], t)
    BY <2>1 DEF ManagerInv, ObjectsInv
  <2> QED BY <2>1, <2>2 DEF ManagerInv, ManagerTypes, ObjectsInv, Made
<1>3. \A b : TrueBid(b)' = TrueBid(b)
  BY <1>1 DEF TrueBid
<1>4. ObjectsInv'
  BY <1>1, <1>2, <1>3 DEF ManagerInv, ObjectsInv, Listed, Made
<1>5. ManagerTypes'
  BY <1>1 DEF ManagerInv, ManagerTypes
<1>6. \A c \in Calls : CallOK(c)'
  BY <1>1 DEF ManagerInv, CallOK, Unused, Made
<1>7. \A t \in BidTasks : SaltFound(t)' /\ RevealSeen(t)'
  BY <1>1 DEF ManagerInv, SaltFound, RevealSeen, Listed, StatusOf, Awaiting
<1> QED BY <1>4, <1>5, <1>6, <1>7 DEF ManagerInv

LEMMA ImportKeeps ==
    ASSUME ManagerInv, ImportBids
    PROVE  ManagerInv'
<1>1. /\ UNCHANGED <<committed, shown, backup, calls, ticks, lostSalts>>
      /\ \A t \in BidTasks : ~Listed(t)
      /\ \A c \in Calls : calls[c].at \in {"idle", "ended"}
      /\ unknown' = unknown \cup {b.task : b \in backup}
  BY DEF ImportBids, auction
<1>2. \A b \in backup : /\ b \in BidObjects /\ b.status # "none" /\ b.task \in BidTasks
                        /\ committed[b.task] = b.salt /\ b.salt \in Calls
                        /\ b.status \in {"revealed", "won", "lost"} => b.task \in shown
  BY DEF ManagerInv, ObjectsInv, TrueBid, BidObjects
<1>3. ASSUME NEW s \in Calls
      PROVE  \/ objects'[s] = objects[s]
             \/ objects'[s] \in backup /\ objects'[s].salt = s
  BY DEF ImportBids
<1>4. \A s \in Calls : objects'[s] \in BidObjects
  BY <1>2, <1>3 DEF ManagerInv, ManagerTypes
<1>5. ASSUME NEW t \in BidTasks
      PROVE  \/ bidMap'[t] = Unbid
             \/ \E b \in backup : b.task = t /\ bidMap'[t] = b.salt
  BY DEF ImportBids
<1>6. ManagerTypes'
  <2>1. bidMap' = [t \in BidTasks |-> bidMap'[t]] /\ objects' = [s \in Calls |-> objects'[s]]
    BY DEF ImportBids
  <2>2. bidMap' \in [BidTasks -> Calls \cup {Unbid}]
    BY <1>2, <1>5, <2>1
  <2>3. objects' \in [Calls -> BidObjects]
    BY <1>4, <2>1
  <2> QED BY <1>1, <2>2, <2>3 DEF ManagerInv, ManagerTypes
<1>7. \A b : TrueBid(b)' = TrueBid(b)
  BY <1>1 DEF TrueBid
<1>8. ASSUME NEW s, NEW t \in BidTasks, committed[t] = s, Made(s, t) PROVE Made(s, t)'
  <2>1. CASE objects'[s] = objects[s]
    BY <1>8, <2>1 DEF Made
  <2>2. CASE objects'[s] \in backup /\ objects'[s].salt = s
    <3>1. /\ objects'[s].status # "none" /\ objects'[s].task \in BidTasks
          /\ committed[objects'[s].task] = s /\ s \in Calls
      BY <1>2, <2>2
    <3>2. objects'[s].task = t
      BY <1>8, <3>1, SaltsAssumption DEF ManagerInv, ObjectsInv
    <3> QED BY <3>1, <3>2 DEF Made
  <2> QED BY <1>3, <1>8, <2>1, <2>2 DEF Made
<1>9. ASSUME NEW t \in BidTasks, Listed(t)'
      PROVE  /\ bidMap'[t] = committed[t] /\ Made(bidMap[t], t)'
             /\ t \in unknown'
  <2>1. PICK b \in backup : b.task = t /\ bidMap'[t] = b.salt
    BY <1>5, <1>9 DEF Listed
  <2>2. bidMap'[t] = committed[t] /\ b.salt \in Calls /\ t \in unknown'
    BY <1>1, <1>2, <2>1
  <2>3. objects'[b.salt] \in backup /\ objects'[b.salt].salt = b.salt
    BY <2>1, <2>2 DEF ImportBids
  <2>4. /\ objects'[b.salt].status # "none" /\ objects'[b.salt].task \in BidTasks
        /\ committed[objects'[b.salt].task] = b.salt
    BY <1>2, <2>3
  <2>5. objects'[b.salt].task = t
    BY <1>2, <2>1, <2>2, <2>4, SaltsAssumption DEF ManagerInv, ObjectsInv
  <2> QED BY <2>1, <2>2, <2>4, <2>5 DEF Made
<1>10. ObjectsInv'
  <2>1. ASSUME NEW s \in Calls PROVE objects'[s].salt = s /\ TrueBid(objects[s])'
    BY <1>3, <1>7 DEF ManagerInv, ObjectsInv
  <2>2. ASSUME NEW t \in shown', t \in BidTasks PROVE Made(committed[t], t)'
    BY <1>1, <1>8, <2>2 DEF ManagerInv, ObjectsInv
  <2> QED BY <1>1, <1>7, <1>9, <2>1, <2>2 DEF ManagerInv, ObjectsInv
<1>11. ASSUME NEW c \in Calls PROVE CallOK(c)'
  <2>1. CASE calls[c].at = "idle"
    <3>1. Unused(c)
      BY <2>1 DEF ManagerInv, CallOK
    <3>2. objects'[c] = objects[c]
      BY <1>2, <1>3, <3>1 DEF Unused
    <3> QED BY <1>1, <2>1, <3>1, <3>2 DEF CallOK, Unused
  <2>2. CASE calls[c].at = "ended"
    BY <1>1, <2>2 DEF CallOK
  <2> QED BY <1>1, <2>1, <2>2
<1>12. ASSUME NEW t \in BidTasks PROVE SaltFound(t)' /\ RevealSeen(t)'
  <2>1. committed[t] # Unbid => committed[t] \in lostSalts
    BY <1>1 DEF ManagerInv, SaltFound, Awaiting, Listed
  <2> QED BY <1>1, <1>9, <2>1 DEF SaltFound, RevealSeen
<1> QED BY <1>6, <1>10, <1>11, <1>12 DEF ManagerInv

\* What the map held is lost, with its calls or without.
MapLost ==
    /\ bidMap' = [t \in BidTasks |-> Unbid]
    /\ {bidMap[t] : t \in BidTasks} \cup lostSalts \subseteq lostSalts'
    /\ UNCHANGED <<committed, shown, objects, backup>> /\ TicksKept
    /\ calls' \in [Calls -> CallRecs]
    /\ \A c \in Calls :
         \/ calls'[c] = calls[c]
         \/ calls[c].at = "idle" /\ calls'[c].at = "idle"
         \/ /\ calls'[c].at = "ended"
            /\ calls[c].at = "commitReceipt" => calls[c].salt \in lostSalts'

LEMMA MapLostKeeps ==
    ASSUME ManagerInv, MapLost
    PROVE  ManagerInv'
<1>1. /\ UNCHANGED <<committed, shown, objects, backup>>
      /\ bidMap' \in [BidTasks -> Calls \cup {Unbid}] /\ \A t \in BidTasks : ~Listed(t)'
  BY DEF MapLost, Listed
<1>2. ManagerTypes'
  BY <1>1 DEF MapLost, TicksKept, ManagerInv, ManagerTypes
<1>3. (\A b : TrueBid(b)' = TrueBid(b)) /\ (\A s, t : Made(s, t)' = Made(s, t))
  BY <1>1 DEF TrueBid, Made
<1>4. ObjectsInv'
  BY <1>1, <1>3 DEF ManagerInv, ObjectsInv
<1>5. \A c \in Calls : CallOK(c)'
  BY <1>1, <1>3 DEF MapLost, ManagerInv, CallOK, Unused
<1>6. ASSUME NEW t \in BidTasks, committed[t] # Unbid
      PROVE  Awaiting(t, "commitReceipt")' \/ committed[t] \in lostSalts'
  <2>1. CASE bidMap[t] = committed[t] \/ committed[t] \in lostSalts
    BY <2>1 DEF MapLost
  <2>2. ASSUME NEW c \in Calls, calls[c].task = t, calls[c].at = "commitReceipt"
        PROVE  Awaiting(t, "commitReceipt")' \/ committed[t] \in lostSalts'
    <3>1. calls[c].salt = committed[t]
      BY <2>2 DEF ManagerInv, CallOK
    <3> QED BY <2>2, <3>1 DEF MapLost, Awaiting
  <2> QED BY <1>6, <2>1, <2>2 DEF ManagerInv, SaltFound, Awaiting
<1>7. \A t \in BidTasks : SaltFound(t)' /\ RevealSeen(t)'
  BY <1>1, <1>6 DEF SaltFound, RevealSeen
<1> QED BY <1>2, <1>4, <1>5, <1>7 DEF ManagerInv

LEMMA LossKeeps ==
    ASSUME ManagerInv, Clear \/ ProcessDies
    PROVE  ManagerInv'
<1>1. /\ bidMap' = [t \in BidTasks |-> Unbid]
      /\ {bidMap[t] : t \in BidTasks} \cup lostSalts \subseteq lostSalts'
      /\ UNCHANGED <<committed, shown, objects, backup>>
  BY DEF Clear, ProcessDies, auction
<1>2. CASE Clear
  <2>1. UNCHANGED <<calls, ticks>>
    BY <1>2 DEF Clear
  <2>2. MapLost
    BY <1>1, <2>1, TicksSame DEF MapLost, ManagerInv, ManagerTypes
  <2> QED BY <2>2, MapLostKeeps
<1>3. CASE ProcessDies
  <2>1. calls' = [c \in Calls |-> IF calls[c].at = "idle" THEN IdleCall
                                  ELSE [IdleCall EXCEPT !.at = "ended"]]
    BY <1>3 DEF ProcessDies
  <2>2. /\ IdleCall \in CallRecs /\ IdleCall.at = "idle"
        /\ [IdleCall EXCEPT !.at = "ended"] \in CallRecs
        /\ [IdleCall EXCEPT !.at = "ended"].at = "ended"
    BY DEF IdleCall, CallRecs, CallStages
  <2>3. \A c \in Calls : calls[c].at = "commitReceipt" => calls[c].salt \in lostSalts'
    BY <1>3 DEF ProcessDies
  <2>4. TicksKept
    <3>1. ASSUME NEW k \in Ticks
          PROVE  IsTick([ticks[k] EXCEPT !.at = "ended", !.todo = {}])
      BY DEF ManagerInv, ManagerTypes, IsTick
    <3> QED BY <1>3, <3>1 DEF ProcessDies, TicksKept, ManagerInv, ManagerTypes
  <2>5. calls' \in [Calls -> CallRecs]
    BY <2>1, <2>2
  <2>6. \A c \in Calls : \/ calls[c].at = "idle" /\ calls'[c].at = "idle"
                         \/ calls'[c].at = "ended"
    BY <2>1, <2>2
  <2>7. MapLost
    BY <1>1, <2>3, <2>4, <2>5, <2>6 DEF MapLost
  <2> QED BY <2>7, MapLostKeeps
<1> QED BY <1>2, <1>3

\* A call whose answer is lost ends: the salt it committed is lost with it.
LEMMA AnswerLostKeeps ==
    ASSUME ManagerInv, NEW c \in Calls, AnswerLost(c)
    PROVE  ManagerInv'
<1>1. /\ calls[c].at \in {"commitReceipt", "revealReceipt"} /\ Ends(c)
      /\ lostSalts \subseteq lostSalts' /\ unknown' = unknown \cup {calls[c].task}
      /\ calls[c].at = "commitReceipt" => calls[c].salt \in lostSalts'
      /\ UNCHANGED <<committed, shown, objects, bidMap, backup>>
  BY DEF AnswerLost, auction, store
<1>2. OnlyCall(c) /\ calls'[c].at = "ended" /\ TicksKept
  BY <1>1, CallEnds DEF ManagerInv
<1>3. ManagerTypes'
  BY <1>1, <1>2 DEF OnlyCall, TicksKept, ManagerInv, ManagerTypes
<1>4. ObjectsInv'
  BY <1>1 DEF ManagerInv, ObjectsInv, TrueBid, Listed, Made
<1>5. ASSUME NEW d \in Calls PROVE CallOK(d)'
  <2>1. CASE d = c
    BY <1>2, <2>1 DEF CallOK
  <2>2. CASE d # c
    BY <1>1, <1>2, <2>2 DEF OnlyCall, ManagerInv, CallOK, Unused, Made
  <2> QED BY <2>1, <2>2
<1>6. ASSUME NEW t, NEW at, t # calls[c].task, Awaiting(t, at) PROVE Awaiting(t, at)'
  BY <1>2, <1>6 DEF OnlyCall, Awaiting
<1>7. ASSUME NEW t \in BidTasks PROVE SaltFound(t)' /\ RevealSeen(t)'
  <2>1. CASE t = calls[c].task
    <3>1. RevealSeen(t)'
      BY <1>1, <2>1 DEF RevealSeen
    <3>2. CASE calls[c].at = "commitReceipt"
      <4>1. committed[t] \in lostSalts'
        BY <1>1, <2>1, <3>2 DEF ManagerInv, CallOK
      <4> QED BY <1>1, <3>1, <4>1 DEF SaltFound
    <3>3. CASE calls[c].at # "commitReceipt"
      <4>1. Awaiting(t, "commitReceipt") => Awaiting(t, "commitReceipt")'
        BY <1>2, <3>3 DEF OnlyCall, Awaiting
      <4> QED BY <1>1, <3>1, <4>1 DEF ManagerInv, SaltFound
    <3> QED BY <3>2, <3>3
  <2>2. CASE t # calls[c].task
    BY <1>1, <1>6, <2>2 DEF ManagerInv, SaltFound, RevealSeen, Listed, StatusOf
  <2> QED BY <2>1, <2>2
<1> QED BY <1>3, <1>4, <1>5, <1>7 DEF ManagerInv

LEMMA ManagerStep == ManagerInv /\ [BidNext]_bidVars => ManagerInv'
<1> SUFFICES ASSUME ManagerInv, [BidNext]_bidVars PROVE ManagerInv'
  OBVIOUS
<1>1. CASE UNCHANGED <<committed, shown, objects, bidMap, backup, calls, ticks, lostSalts, unknown>>
  BY <1>1, TicksSame, ManagerQuietKeeps DEF ManagerInv
<1>2. CASE \/ UNCHANGED bidVars
           \/ StartWatching \/ StopWatching \/ \E t \in BidTasks : PeriodEnds(t)
  BY <1>1, <1>2 DEF bidVars, StartWatching, StopWatching, PeriodEnds, auction, store, loss
<1>3. CASE ExportBids \/ ImportBids \/ Clear \/ ProcessDies
  BY <1>3, ExportKeeps, ImportKeeps, LossKeeps
<1>4. CASE \E t \in BidTasks : UpdateBidStatus(t)
  BY <1>4, UpdateBidStatusKeeps
<1>5. CASE \E k \in Ticks : WatcherTick(k) \/ Visit(k) \/ Resume(k)
  BY <1>5, TicksKeep, VisitKeeps
<1>6. CASE \E c \in Calls :
             \/ \E t \in BidTasks : CommitBid(c, t) \/ RevealBid(c, t)
             \/ CommitMined(c) \/ Keep(c) \/ Approve(c) \/ RevealMined(c) \/ Revealed(c)
             \/ AnswerLost(c)
  BY <1>6, CommitBidKeeps, RevealBidKeeps, CommitMinedKeeps, KeepKeeps, ApproveKeeps,
     RevealMinedKeeps, RevealedKeeps, AnswerLostKeeps
<1> QED BY <1>2, <1>3, <1>4, <1>5, <1>6 DEF BidNext

\* For any auctions, calls and ticks: however they interleave, and through imports, lost answers
\* and deaths of the process, the salt of every commitment is in the map unless it was lost in
\* one of the ways listed, and no bid is taken for what it is not.
THEOREM BidsAlwaysTracked == BidSpec => []BidsTracked
<1>1. ManagerInv => BidsTracked
  <2> SUFFICES ASSUME ManagerInv, NEW t \in BidTasks, Listed(t),
                      StatusOf(t) \in {"revealed", "won", "lost"}
               PROVE  t \in shown
    BY DEF ManagerInv, SaltFound, RevealSeen, BidsTracked
  <2> QED BY DEF ManagerInv, ObjectsInv, Made, TrueBid, StatusOf
<1> QED BY <1>1, ManagerStart, ManagerStep, PTL DEF BidSpec

-----------------------------------------------------------------------------
(* The dashboard's bid form: the inductive invariant                       *)

\* What the form asks the wallet for.
FormRequests == [panel : {"bid"}, button : {"send", "approve"},
                 call : {"commitBid", "revealBid", "approve"}, arg : Nat \cup {"auction"},
                 alive : BOOLEAN]

\* A commitment asked for or sent is of the salt stored.
OfSaved(p) == p.call = "commitBid" => saved # 0 /\ p.arg = saved

FormInv ==
    page = "BidForm" =>
        /\ salts \in Nat /\ saved \in 0 .. salts
        /\ prompts \subseteq FormRequests /\ \A p \in prompts : OfSaved(p)
        /\ mempool \in Seq(FormRequests) /\ \A i \in DOMAIN mempool : OfSaved(mempool[i])
        /\ "salt" \in DOMAIN chainNow
        /\ chainNow.salt # 0 => saved = chainNow.salt

LEMMA FormStart == WebInit => FormInv
<1> SUFFICES ASSUME WebInit PROVE FormInv
  OBVIOUS
<1>1. prompts = {} /\ mempool = << >> /\ saved = 0 /\ salts = 0
  BY DEF WebInit
<1>2. "salt" \in DOMAIN chainNow /\ chainNow.salt = 0
  <2>1. \A t, pr : LET c == [Fresh EXCEPT !.terms = t, !.profile = pr]
                   IN  "salt" \in DOMAIN c /\ c.salt = 0
    BY DEF Fresh
  <2> QED BY <2>1 DEF WebInit
<1>3. mempool \in Seq(FormRequests) /\ DOMAIN mempool = {}
  <2>1. << >> \in Seq(FormRequests) /\ DOMAIN << >> = {}
    OBVIOUS
  <2> QED BY <1>1, <2>1
<1> QED BY <1>1, <1>2, <1>3 DEF FormInv

\* The page forgets a request.
Forgets(p, b) == [p EXCEPT !.alive = b]

LEMMA Dropped ==
    ASSUME NEW p \in FormRequests, NEW b \in BOOLEAN
    PROVE  /\ Forgets(p, b) \in FormRequests
           /\ Forgets(p, b).call = p.call /\ Forgets(p, b).arg = p.arg
BY DEF FormRequests, Forgets

\* Every clause of the effects leaves the salt, but a commitment.
LEMMA SaltOf ==
    ASSUME NEW c, "salt" \in DOMAIN c, NEW call, NEW arg, NEW d \in Effects(c, call, arg),
           call \in {"commitBid", "revealBid", "approve", "resolveAuction", "enforceDeadline"}
    PROVE  "salt" \in DOMAIN d /\ d.salt = (IF call = "commitBid" THEN arg ELSE c.salt)
BY DEF Effects, Spend

LEMMA SaltOfOthers ==
    ASSUME Others, "salt" \in DOMAIN chainNow
    PROVE  "salt" \in DOMAIN chainNow' /\ chainNow'.salt = chainNow.salt
<1>1. CASE OthersReveal \/ OthersDeliver \/ OthersRegister \/ OthersSettle \/ TimePasses
  BY <1>1 DEF OthersReveal, OthersDeliver, OthersRegister, OthersSettle, TimePasses
<1>2. CASE OthersResolve \/ OthersEnforce
  BY <1>2, SaltOf DEF OthersResolve, OthersEnforce
<1> QED BY <1>1, <1>2 DEF Others

LEMMA FunctionIsSeq == ASSUME NEW S, NEW n \in Nat, NEW f \in [1 .. n -> S] PROVE f \in Seq(S)
OBVIOUS

\* What a step of the form may do: the salt stored stays or is the first one, and requests are
\* signed, dropped or forgotten.
Asked(p) == p \in FormRequests /\ OfSaved(p)

LEMMA QuietFormKeeps ==
    ASSUME FormInv, page = "BidForm", UNCHANGED <<page, saved, salts>>,
           "salt" \in DOMAIN chainNow', chainNow'.salt \in {0, chainNow.salt, saved},
           \A p \in prompts' : Asked(p),
           mempool' \in Seq(FormRequests), \A i \in DOMAIN mempool' : OfSaved(mempool'[i])
    PROVE  FormInv'
BY DEF FormInv, Asked, OfSaved

LEMMA CommitOnFormKeeps == ASSUME FormInv, page = "BidForm", CommitOnForm PROVE FormInv'
<1>1. /\ UNCHANGED <<page, chainNow, mempool>> /\ saved = 0
      /\ salts \in Nat /\ salts' = salts + 1 /\ saved' = salts + 1
      /\ prompts' = prompts \cup {Request("bid", "send", "commitBid", salts + 1)}
  BY DEF CommitOnForm, FormShown, Ask, FormInv
<1> SUFFICES ASSUME NEW r, r = Request("bid", "send", "commitBid", salts + 1) PROVE FormInv'
  OBVIOUS
<1>2. r \in FormRequests /\ r.arg = salts + 1
  BY <1>1 DEF Request, FormRequests
<1>3. (\A p \in prompts : p.call # "commitBid") /\ chainNow.salt = 0
      /\ \A i \in DOMAIN mempool : mempool[i].call # "commitBid"
  BY <1>1 DEF FormInv, OfSaved
<1> QED BY <1>1, <1>2, <1>3 DEF FormInv, OfSaved

LEMMA RevealOnFormKeeps == ASSUME FormInv, page = "BidForm", RevealOnForm PROVE FormInv'
<1>1. /\ UNCHANGED <<page, chainNow, mempool, saved, salts>>
      /\ prompts' = prompts \cup {Request("bid", "approve", "approve", "auction")}
  BY DEF RevealOnForm, ChainIdle, Ask
<1> SUFFICES ASSUME NEW r, r = Request("bid", "approve", "approve", "auction") PROVE FormInv'
  OBVIOUS
<1>2. Asked(r)
  BY DEF Request, FormRequests, Asked, OfSaved
<1>3. \A p \in prompts' : Asked(p)
  BY <1>1, <1>2 DEF FormInv, Asked
<1> QED BY <1>1, <1>3, QuietFormKeeps DEF FormInv

LEMMA ClicksKeep == ASSUME FormInv, page = "BidForm", Clicks PROVE FormInv'
<1>1. CommitOnForm \/ RevealOnForm
  BY DEF Clicks, SubmitOnForm, CommitBidPanel, RevealBidPanel, ResolveAuctionPanel, ApproveStake,
         DeliverTaskPanel, RegisterVerifierPanel, SubmitVerificationPanel, EnforceDeadlinePanel,
         OnPanel, CreatePage, VerifiersPage, SettingsPage, Onboarding, ChooseRole, Back,
         EnterTerms, handleAcceptTos, PassTerms, handleStakeAndJoin, SkipStake
<1> QED BY <1>1, CommitOnFormKeeps, RevealOnFormKeeps

LEMMA WalletKeeps ==
    ASSUME FormInv, page = "BidForm", NEW p \in prompts, Sign(p) \/ Refuse(p)
    PROVE  FormInv'
<1>1. UNCHANGED <<page, saved, salts, chainNow>> /\ Asked(p)
  BY DEF Sign, Refuse, FormInv, Asked
<1>2. prompts' = prompts \ {p}
  BY DEF Sign, Refuse, Forgotten, Routes, Dashboard
<1>3. mempool' \in {mempool, Append(mempool, p)}
  BY DEF Sign, Refuse
<1>4. mempool' \in Seq(FormRequests) /\ \A i \in DOMAIN mempool' : OfSaved(mempool'[i])
  BY <1>1, <1>3 DEF FormInv, Asked
<1> QED BY <1>1, <1>2, <1>4, QuietFormKeeps DEF FormInv, Asked

LEMMA MineKeeps == ASSUME FormInv, page = "BidForm", Mine PROVE FormInv'
<1> SUFFICES ASSUME NEW p, p = Head(mempool) PROVE FormInv'
  OBVIOUS
<1>1. UNCHANGED <<page, saved, salts>> /\ mempool # << >> /\ mempool' = Tail(mempool)
  BY DEF Mine
<1>2. /\ Asked(p) /\ mempool' \in Seq(FormRequests)
      /\ \A i \in DOMAIN mempool' : OfSaved(mempool'[i])
  <2>1. /\ p \in FormRequests /\ p = mempool[1] /\ 1 \in DOMAIN mempool
        /\ mempool' \in Seq(FormRequests)
        /\ \A i \in DOMAIN mempool' : i + 1 \in DOMAIN mempool /\ mempool'[i] = mempool[i + 1]
    BY <1>1 DEF FormInv
  <2> QED BY <2>1 DEF FormInv, Asked
<1>3. "salt" \in DOMAIN chainNow' /\ chainNow'.salt \in {0, chainNow.salt, saved}
  <2>1. CASE UNCHANGED chainNow
    BY <2>1 DEF FormInv
  <2>2. CASE chainNow' \in Effects(chainNow, p.call, p.arg)
    BY <1>2, <2>2, SaltOf DEF FormInv, Asked, OfSaved, FormRequests
  <2> QED BY <2>1, <2>2 DEF Mine
<1>4. \A q \in prompts' : Asked(q)
  <2>1. prompts' = prompts \/ prompts' = prompts \cup {Request("bid", "send", "revealBid", saved)}
    BY DEF Mine, BidFlowReceipt
  <2> SUFFICES ASSUME NEW r, r = Request("bid", "send", "revealBid", saved)
               PROVE  \A q \in prompts' : Asked(q)
    OBVIOUS
  <2>2. Asked(r)
    BY DEF Request, FormRequests, Asked, OfSaved, FormInv
  <2> QED BY <2>1, <2>2 DEF FormInv, Asked
<1> QED BY <1>1, <1>2, <1>3, <1>4, QuietFormKeeps

LEMMA ForgetKeeps ==
    ASSUME FormInv, page = "BidForm", Refresh \/ Reload
    PROVE  FormInv'
<1>1. UNCHANGED <<page, saved, salts, chainNow>>
  BY DEF Refresh, Reload
<1>2. \A q \in prompts' : Asked(q)
  <2>1. CASE Refresh
    <3>1. \A q \in prompts' : \E p \in prompts, b \in BOOLEAN : q = Forgets(p, b)
      <4>1. \A p \in prompts : p.alive \in BOOLEAN
        BY DEF FormInv, FormRequests
      <4> QED BY <2>1, <4>1 DEF Refresh, Forgets
    <3> QED BY <3>1, Dropped DEF FormInv, Asked, OfSaved
  <2>2. CASE Reload
    <3>1. \A q \in prompts' : \E p \in prompts : q = Forgets(p, FALSE)
      BY <2>2 DEF Reload, Forgets
    <3>2. \A p \in prompts : Asked(Forgets(p, FALSE))
      BY Dropped DEF FormInv, Asked, OfSaved
    <3> QED BY <3>1, <3>2
  <2> QED BY <2>1, <2>2
<1>3. mempool' \in Seq(FormRequests) /\ \A i \in DOMAIN mempool' : OfSaved(mempool'[i])
  <2>1. CASE UNCHANGED mempool
    BY <1>1, <2>1 DEF FormInv, OfSaved
  <2>2. CASE mempool' = [i \in DOMAIN mempool |-> [mempool[i] EXCEPT !.alive = FALSE]]
    <3>1. ASSUME NEW i \in DOMAIN mempool
          PROVE  Asked(Forgets(mempool[i], FALSE))
      <4>1. mempool[i] \in FormRequests /\ OfSaved(mempool[i])
        BY DEF FormInv
      <4> QED BY <4>1, Dropped DEF Asked, OfSaved
    <3>2. mempool' = [i \in DOMAIN mempool |-> Forgets(mempool[i], FALSE)]
      BY <2>2 DEF Forgets
    <3>3. DOMAIN mempool = 1 .. Len(mempool) /\ Len(mempool) \in Nat
      BY DEF FormInv
    <3>4. DOMAIN mempool' = DOMAIN mempool /\ \A i \in DOMAIN mempool : Asked(mempool'[i])
      BY <3>1, <3>2
    <3>5. mempool' = [i \in 1 .. Len(mempool) |-> Forgets(mempool[i], FALSE)]
      BY <3>2, <3>3
    <3>6. mempool' \in [1 .. Len(mempool) -> FormRequests]
      BY <3>1, <3>3, <3>5 DEF Asked
    <3>7. mempool' \in Seq(FormRequests)
      BY <3>3, <3>6, FunctionIsSeq
    <3> QED BY <3>4, <3>7 DEF Asked
  <2> QED BY <2>1, <2>2 DEF Refresh, Reload
<1> QED BY <1>1, <1>2, <1>3, QuietFormKeeps DEF FormInv

LEMMA FormStep == FormInv /\ [WebNext]_webVars => FormInv'
<1> SUFFICES ASSUME FormInv, [WebNext]_webVars PROVE FormInv'
  OBVIOUS
<1>1. page' = page
  BY DEF WebNext, webVars, Clicks, Sign, Refuse, Mine, Others, Refresh, Reload, ChainIdle,
         CommitOnForm, RevealOnForm, SubmitOnForm, CommitBidPanel, RevealBidPanel,
         ResolveAuctionPanel, ApproveStake, DeliverTaskPanel, RegisterVerifierPanel,
         SubmitVerificationPanel, EnforceDeadlinePanel, OnPanel, CreatePage, VerifiersPage,
         SettingsPage, Onboarding, ChooseRole, Back, EnterTerms, handleAcceptTos, PassTerms,
         handleStakeAndJoin, SkipStake
<1>2. CASE page # "BidForm"
  BY <1>1, <1>2 DEF FormInv
<1>3. CASE page = "BidForm"
  <2>1. CASE Others
    <3>1. UNCHANGED <<page, prompts, mempool, saved, salts>>
      BY <2>1 DEF Others, pageVars
    <3> QED BY <1>3, <2>1, <3>1, SaltOfOthers DEF FormInv, OfSaved
  <2>2. CASE UNCHANGED webVars
    BY <2>2 DEF webVars, FormInv, OfSaved
  <2> QED BY <1>3, <2>1, <2>2, ClicksKeep, WalletKeeps, MineKeeps, ForgetKeeps DEF WebNext
<1> QED BY <1>2, <1>3

\* For any number of bids, prompts and transactions under way: a bid the dashboard committed, or
\* has sent to be committed, is of the salt in localStorage.
THEOREM SaltAlwaysStored == WebSpec => []SaltStored
<1>1. FormInv => SaltStored
  BY DEF FormInv, OfSaved, SaltStored
<1> QED BY <1>1, FormStart, FormStep, PTL DEF WebSpec

-----------------------------------------------------------------------------
(* The deployment scripts: what their programs have in common              *)

CoreScripts == {"deploy", "deploy-sepolia", "deploy-direct", "deploy-clean",
                "deploy-hardhat-auto", "deploy-local", "setup-testnet"}
CoreFields == {"arenaCoreAuction", "arenaCoreVRF"}
SatelliteFields == {"arenaArbitration", "arenaOutcomes", "arenaCompliance"}

\* A step that leaves the core's links alone and links ArenaCoreMain to a satellite only when
\* the script deployed it.
LaterStep(cmd, names) ==
    /\ cmd.op # "deploy"
    /\ cmd.op = "link" =>
          /\ cmd.field \notin CoreFields \cup {"core"}
          /\ cmd.field \in SatelliteFields =>
                cmd.of = "ArenaCoreMain" /\ cmd.to \in names \cap SingleCore

\* The program of a script that deploys a core: it links that core at once.
LinksCoreFirst(prog, names) ==
    /\ Len(prog) \in Nat /\ Len(prog) >= 4 /\ DOMAIN prog = 1 .. Len(prog)
    /\ prog[1] = Deploys(names)
    /\ \A i \in 1 .. 3 : prog[i + 1] = LinkCore[i]
    /\ \A i \in 5 .. Len(prog) : LaterStep(prog[i], names)

LEMMA LinkCoreIs ==
    /\ Len(LinkCore) = 3 /\ DOMAIN LinkCore = 1 .. 3
    /\ LinkCore[1] = Link("ArenaCoreMain", "arenaCoreAuction", "ArenaCoreAuction")
    /\ LinkCore[2] = Link("ArenaCoreMain", "arenaCoreVRF", "ArenaCoreVRF")
    /\ LinkCore[3] = Link("ArenaCoreAuction", "arenaCoreVRF", "ArenaCoreVRF")
BY DEF LinkCore

\* The steps that scripts have.
ContractNames == Core \cup SingleCore \cup {"ArenaTimelock"}
FieldNames == CoreFields \cup SatelliteFields \cup {"arenaCore", "arenaContinuous"}
Steps ==
    {Deploys(n) : n \in SUBSET ContractNames}
    \cup {Link(a, f, b) : a \in ContractNames, f \in FieldNames, b \in ContractNames}
    \cup {Whitelist(a) : a \in ContractNames} \cup {Transfer(a) : a \in ContractNames}
    \cup {Save(f) : f \in {"nested", "flat"}} \cup {SaveEnv}

LEMMA StepsAre ==
    /\ \A n \in SUBSET ContractNames : Deploys(n) \in Steps
    /\ \A a, b \in ContractNames : \A f \in FieldNames : Link(a, f, b) \in Steps
    /\ \A a \in ContractNames : Whitelist(a) \in Steps /\ Transfer(a) \in Steps
    /\ Save("nested") \in Steps /\ Save("flat") \in Steps /\ SaveEnv \in Steps
BY DEF Steps

LEMMA StepOps ==
    /\ \A n : Deploys(n).op = "deploy" /\ Deploys(n).names = n
    /\ \A a, f, b : /\ Link(a, f, b).op = "link" /\ Link(a, f, b).of = a
                    /\ Link(a, f, b).field = f /\ Link(a, f, b).to = b
    /\ \A a : Whitelist(a).op = "whitelist" /\ Transfer(a).op = "transfer"
    /\ \A f : Save(f).op = "save" /\ Save(f).format = f
    /\ \A s : Check(s).op = "check"
    /\ SaveEnv.op = "env"
BY DEF Deploys, Link, Whitelist, Transfer, Save, Check, SaveEnv

LEMMA LinkSteps ==
    ASSUME NEW a \in ContractNames, NEW f \in FieldNames, NEW b \in ContractNames
    PROVE  Link(a, f, b) \in Steps
BY StepsAre

LEMMA TripleIsSeq ==
    ASSUME NEW S, NEW a \in S, NEW b \in S, NEW c \in S
    PROVE  <<a, b, c>> \in Seq(S)
OBVIOUS

LEMMA LinkCoreSteps == LinkCore \in Seq(Steps)
<1>1. Link("ArenaCoreMain", "arenaCoreAuction", "ArenaCoreAuction") \in Steps
  BY LinkSteps DEF ContractNames, FieldNames, Core, CoreFields
<1>2. Link("ArenaCoreMain", "arenaCoreVRF", "ArenaCoreVRF") \in Steps
  BY LinkSteps DEF ContractNames, FieldNames, Core, CoreFields
<1>3. Link("ArenaCoreAuction", "arenaCoreVRF", "ArenaCoreVRF") \in Steps
  BY LinkSteps DEF ContractNames, FieldNames, Core, CoreFields
<1> QED BY <1>1, <1>2, <1>3, TripleIsSeq DEF LinkCore

\* The beginning of such a program, and what may follow it.
LEMMA CoreThenLater ==
    ASSUME NEW names \in SUBSET ContractNames, NEW rest \in Seq(Steps),
           \A i \in 1 .. Len(rest) : LaterStep(rest[i], names)
    PROVE  /\ <<Deploys(names)>> \o (LinkCore \o rest) \in Seq(Steps)
           /\ LinksCoreFirst(<<Deploys(names)>> \o (LinkCore \o rest), names)
<1> DEFINE tail == LinkCore \o rest
           prog == <<Deploys(names)>> \o tail
<1>1. <<Deploys(names)>> \in Seq(Steps) /\ Len(<<Deploys(names)>>) = 1
  <2>1. Deploys(names) \in Steps
    BY StepsAre
  <2> QED BY <2>1
<1>2. /\ tail \in Seq(Steps) /\ Len(tail) = 3 + Len(rest)
      /\ \A i \in 1 .. 3 + Len(rest) :
            tail[i] = IF i <= 3 THEN LinkCore[i] ELSE rest[i - 3]
  <2>1. /\ LinkCore \o rest \in Seq(Steps) /\ Len(LinkCore \o rest) = Len(LinkCore) + Len(rest)
        /\ \A i \in 1 .. Len(LinkCore) + Len(rest) :
             (LinkCore \o rest)[i] =
                 IF i <= Len(LinkCore) THEN LinkCore[i] ELSE rest[i - Len(LinkCore)]
    BY LinkCoreSteps, ConcatProperties
  <2> QED BY <2>1, LinkCoreIs
<1> HIDE DEF tail
<1>3. /\ prog \in Seq(Steps) /\ Len(prog) = 1 + Len(tail)
      /\ \A i \in 1 .. 1 + Len(tail) :
            prog[i] = IF i <= 1 THEN <<Deploys(names)>>[i] ELSE tail[i - 1]
  BY <1>1, <1>2, ConcatProperties
<1> HIDE DEF prog
<1>4. Len(rest) \in Nat
  OBVIOUS
<1>5. prog[1] = Deploys(names)
  BY <1>2, <1>3, <1>4
<1>6. \A i \in 1 .. 3 : prog[i + 1] = LinkCore[i]
  BY <1>2, <1>3, <1>4
<1>7. \A i \in 5 .. Len(prog) : prog[i] = rest[i - 4] /\ i - 4 \in 1 .. Len(rest)
  BY <1>2, <1>3, <1>4
<1>8. LinksCoreFirst(prog, names)
  BY <1>2, <1>3, <1>4, <1>5, <1>6, <1>7 DEF LinksCoreFirst
<1> QED BY <1>3, <1>8 DEF prog, tail

LEMMA LaterAppended ==
    ASSUME NEW names, NEW prog \in Seq(Steps), NEW rest \in Seq(Steps),
           LinksCoreFirst(prog, names), \A i \in 1 .. Len(rest) : LaterStep(rest[i], names)
    PROVE  prog \o rest \in Seq(Steps) /\ LinksCoreFirst(prog \o rest, names)
<1> DEFINE all == prog \o rest
<1>1. /\ all \in Seq(Steps) /\ Len(all) = Len(prog) + Len(rest)
      /\ \A i \in 1 .. Len(prog) + Len(rest) :
            all[i] = IF i <= Len(prog) THEN prog[i] ELSE rest[i - Len(prog)]
  BY ConcatProperties
<1> HIDE DEF all
<1>2. Len(rest) \in Nat /\ Len(prog) \in Nat /\ Len(prog) >= 4
  BY DEF LinksCoreFirst
<1>3. all[1] = Deploys(names) /\ \A i \in 1 .. 3 : all[i + 1] = LinkCore[i]
  BY <1>1, <1>2 DEF LinksCoreFirst
<1>4. ASSUME NEW i \in 5 .. Len(all) PROVE LaterStep(all[i], names)
  <2>1. CASE i <= Len(prog)
    BY <1>1, <1>2, <2>1 DEF LinksCoreFirst
  <2>2. CASE ~(i <= Len(prog))
    <3>1. all[i] = rest[i - Len(prog)] /\ i - Len(prog) \in 1 .. Len(rest)
      BY <1>1, <1>2, <2>2
    <3> QED BY <3>1
  <2> QED BY <2>1, <2>2
<1>5. LinksCoreFirst(all, names)
  BY <1>1, <1>2, <1>3, <1>4 DEF LinksCoreFirst
<1> QED BY <1>1, <1>5 DEF all

-----------------------------------------------------------------------------
(* The programs.                                                           *)

\* A sequence of one step, two, ...
LEMMA StepSeqs ==
    ASSUME NEW S, NEW a \in S, NEW b \in S, NEW c \in S, NEW d \in S, NEW e \in S
    PROVE  /\ <<a>> \in Seq(S) /\ <<a, b>> \in Seq(S) /\ <<a, b, c>> \in Seq(S)
           /\ <<a, b, c, d>> \in Seq(S) /\ <<a, b, c, d, e>> \in Seq(S)
OBVIOUS

LEMMA FunctionIsSteps ==
    ASSUME NEW n \in Nat, NEW f \in [1 .. n -> Steps] PROVE f \in Seq(Steps) /\ Len(f) = n
OBVIOUS

\* Steps that are no links are later steps.
LEMMA OtherLater ==
    ASSUME NEW names, NEW a, NEW f
    PROVE  /\ LaterStep(Whitelist(a), names) /\ LaterStep(Transfer(a), names)
           /\ LaterStep(Save(f), names) /\ LaterStep(SaveEnv, names)
BY StepOps DEF LaterStep

LEMMA LinkLater ==
    ASSUME NEW names, NEW a, NEW f, NEW b, f \notin CoreFields \cup {"core"},
           f \in SatelliteFields => a = "ArenaCoreMain" /\ b \in names \cap SingleCore
    PROVE  LaterStep(Link(a, f, b), names)
BY StepOps DEF LaterStep

LEMMA LinkReputationLater ==
    /\ LinkReputation \in Steps /\ \A names : LaterStep(LinkReputation, names)
<1>1. LinkReputation \in Steps
  BY LinkSteps DEF LinkReputation, ContractNames, FieldNames, Core, SingleCore
<1>2. ASSUME NEW names PROVE LaterStep(LinkReputation, names)
  <2>1. "arenaCore" \notin CoreFields \cup {"core"} /\ "arenaCore" \notin SatelliteFields
    BY DEF CoreFields, SatelliteFields
  <2> QED BY <2>1, LinkLater DEF LinkReputation
<1> QED BY <1>1, <1>2

\* What deploy.js does after its deployments.
LEMMA FullRest ==
    LET names == Core \cup (SingleCore \ {"ArenaConsensus"}) \cup {"ArenaTimelock"}
    IN  LinksCoreFirst(Full, names)
<1> DEFINE names == Core \cup (SingleCore \ {"ArenaConsensus"}) \cup {"ArenaTimelock"}
           links1 == <<Link("ArenaCoreMain", "arenaArbitration", "ArenaArbitration"),
                       Link("ArenaCoreMain", "arenaOutcomes", "ArenaOutcomes"),
                       Link("ArenaCoreMain", "arenaCompliance", "ArenaCompliance"),
                       Link("ArenaArbitration", "arenaContinuous", "ArenaContinuous"),
                       Whitelist("ArenaCoreMain")>>
<1>0. names \in SUBSET ContractNames
  BY DEF ContractNames
<1>1. links1 \in Seq(Steps) /\ \A i \in 1 .. Len(links1) : LaterStep(links1[i], names)
  <2> DEFINE s1 == Link("ArenaCoreMain", "arenaArbitration", "ArenaArbitration")
             s2 == Link("ArenaCoreMain", "arenaOutcomes", "ArenaOutcomes")
             s3 == Link("ArenaCoreMain", "arenaCompliance", "ArenaCompliance")
             s4 == Link("ArenaArbitration", "arenaContinuous", "ArenaContinuous")
             s5 == Whitelist("ArenaCoreMain")
  <2>1. s1 \in Steps /\ s2 \in Steps /\ s3 \in Steps /\ s4 \in Steps
    BY LinkSteps DEF ContractNames, FieldNames, Core, SingleCore, SatelliteFields
  <2>2. s5 \in Steps
    BY StepsAre DEF ContractNames, Core
  <2>3. LaterStep(s1, names) /\ LaterStep(s2, names) /\ LaterStep(s3, names)
    BY LinkLater DEF Core, SingleCore, CoreFields, SatelliteFields
  <2>4. LaterStep(s4, names)
    BY LinkLater DEF CoreFields, SatelliteFields
  <2>5. LaterStep(s5, names)
    BY OtherLater
  <2> HIDE DEF s1, s2, s3, s4, s5
  <2>6. links1 = <<s1, s2, s3, s4, s5>>
    BY DEF s1, s2, s3, s4, s5
  <2> HIDE DEF names, links1
  <2>7. <<s1, s2, s3, s4, s5>> \in Seq(Steps)
    BY <2>1, <2>2, StepSeqs
  <2> QED BY <2>3, <2>4, <2>5, <2>6, <2>7
<1>2. /\ Transfers \in Seq(Steps)
      /\ \A i \in 1 .. Len(Transfers) : LaterStep(Transfers[i], names)
  <2>1. DOMAIN Owned = 1 .. 13 /\ \A i \in 1 .. 13 : Owned[i] \in ContractNames
    BY DEF Owned, ContractNames, Core, SingleCore
  <2>2. Transfers \in [1 .. 13 -> Steps]
    BY <2>1, StepsAre DEF Transfers
  <2>3. Transfers \in Seq(Steps) /\ Len(Transfers) = 13
    BY <2>2, FunctionIsSteps
  <2>4. \A i \in 1 .. 13 : Transfers[i] = Transfer(Owned[i])
    BY <2>1 DEF Transfers
  <2> QED BY <2>3, <2>4, OtherLater
<1>3. <<Save("nested")>> \in Seq(Steps) /\ LaterStep(Save("nested"), names)
  BY StepsAre, StepSeqs, OtherLater
<1> HIDE DEF names, links1
<1> DEFINE p1 == <<Deploys(names)>> \o (LinkCore \o links1)
           p2 == p1 \o Transfers
           p3 == p2 \o <<Save("nested")>>
<1>4. p1 \in Seq(Steps) /\ LinksCoreFirst(p1, names)
  BY <1>0, <1>1, CoreThenLater
<1> HIDE DEF p1
<1>5. p2 \in Seq(Steps) /\ LinksCoreFirst(p2, names)
  BY <1>2, <1>4, LaterAppended
<1> HIDE DEF p2
<1>6. LinksCoreFirst(p3, names)
  <2>1. \A i \in 1 .. Len(<<Save("nested")>>) : LaterStep(<<Save("nested")>>[i], names)
    BY <1>3
  <2> HIDE DEF p3
  <2>2. LinksCoreFirst(p2 \o <<Save("nested")>>, names)
    BY <1>3, <1>5, <2>1, LaterAppended
  <2> QED BY <2>2 DEF p3
<1>7. Full = p3
  BY DEF Full, FullDeploys, FullLinks, p1, p2, p3, names, links1
<1> QED BY <1>6, <1>7 DEF names

\* The scripts that deploy eight contracts, and those that deploy the core for one machine.
LEMMA CoreAnd ==
    ASSUME NEW names \in SUBSET ContractNames, NEW rest \in Seq(Steps),
           \A i \in 1 .. Len(rest) : LaterStep(rest[i], names)
    PROVE  LinksCoreFirst((<<Deploys(names)>> \o LinkCore) \o rest, names)
<1> DEFINE first == <<Deploys(names)>> \o (LinkCore \o <<>>)
<1>1. <<>> \in Seq(Steps) /\ Len(<<>>) = 0
  OBVIOUS
<1>2. first \in Seq(Steps) /\ LinksCoreFirst(first, names)
  <2>1. \A i \in 1 .. Len(<<>>) : LaterStep(<<>>[i], names)
    BY <1>1
  <2> QED BY <1>1, <2>1, CoreThenLater
<1>3. LinkCore \o <<>> = LinkCore
  BY LinkCoreSteps
<1> HIDE DEF first
<1>4. LinksCoreFirst(first \o rest, names)
  BY <1>2, LaterAppended
<1> QED BY <1>3, <1>4 DEF first

LEMMA CoreProgram ==
    ASSUME NEW script \in CoreScripts
    PROVE  \E names : Core \subseteq names /\ LinksCoreFirst(Program(script), names)
<1> USE OtherLater, LinkReputationLater
<1>1. Core \subseteq Eight /\ Eight \in SUBSET ContractNames /\ Core \in SUBSET ContractNames
  BY DEF Core, Eight, SingleCore, ContractNames
<1>2. /\ Whitelist("ArenaCoreMain") \in Steps /\ Whitelist("ArenaConsensus") \in Steps
      /\ Save("nested") \in Steps /\ Save("flat") \in Steps /\ SaveEnv \in Steps
  BY StepsAre DEF Core, SingleCore, ContractNames
<1>3. CASE script = "deploy"
  <2>1. Program(script) = Full
    BY <1>3 DEF Program
  <2> QED BY <2>1, FullRest
<1>4. CASE script \in {"deploy-sepolia", "deploy-direct"}
  <2> DEFINE rest == <<Whitelist("ArenaCoreMain"), Whitelist("ArenaConsensus"),
                       LinkReputation, Save("nested")>>
  <2>1. rest \in Seq(Steps)
    BY <1>2, StepSeqs
  <2>2. \A i \in 1 .. Len(rest) : LaterStep(rest[i], Eight)
    OBVIOUS
  <2>3. Program(script) = (<<Deploys(Eight)>> \o LinkCore) \o rest
    BY <1>4 DEF Program, Sepolia, Direct
  <2> HIDE DEF rest
  <2> QED BY <1>1, <2>1, <2>2, <2>3, CoreAnd
<1>5. CASE script = "deploy-clean"
  <2> DEFINE rest == <<Whitelist("ArenaConsensus"), LinkReputation, Save("nested")>>
  <2>1. rest \in Seq(Steps)
    BY <1>2, StepSeqs
  <2>2. \A i \in 1 .. Len(rest) : LaterStep(rest[i], Eight)
    OBVIOUS
  <2>3. Program(script) = (<<Deploys(Eight)>> \o LinkCore) \o rest
    BY <1>5 DEF Program, Clean
  <2> HIDE DEF rest
  <2> QED BY <1>1, <2>1, <2>2, <2>3, CoreAnd
<1>6. CASE script = "deploy-hardhat-auto"
  <2> DEFINE rest == <<LinkReputation, Whitelist("ArenaCoreMain"), Save("flat")>>
  <2>1. rest \in Seq(Steps)
    BY <1>2, StepSeqs
  <2>2. \A i \in 1 .. Len(rest) : LaterStep(rest[i], Eight)
    OBVIOUS
  <2>3. Program(script) = (<<Deploys(Eight)>> \o LinkCore) \o rest
    BY <1>6 DEF Program, HardhatAuto
  <2> HIDE DEF rest
  <2> QED BY <1>1, <2>1, <2>2, <2>3, CoreAnd
<1>7. CASE script = "deploy-local"
  <2>1. /\ <<SaveEnv>> \in Seq(Steps)
        /\ \A i \in 1 .. Len(<<SaveEnv>>) : LaterStep(<<SaveEnv>>[i], Core)
    BY <1>2, StepSeqs
  <2>2. Program(script) = (<<Deploys(Core)>> \o LinkCore) \o <<SaveEnv>>
    BY <1>7 DEF Program, Local
  <2> QED BY <1>1, <2>1, <2>2, CoreAnd
<1>8. CASE script = "setup-testnet"
  <2>1. <<>> \in Seq(Steps) /\ \A i \in 1 .. Len(<<>>) : LaterStep(<<>>[i], Core)
    OBVIOUS
  <2>2. Program(script) = <<Deploys(Core)>> \o LinkCore
    BY <1>8 DEF Program, Setup
  <2>3. LinkCore \o <<>> = LinkCore
    BY LinkCoreSteps
  <2>4. LinksCoreFirst(<<Deploys(Core)>> \o (LinkCore \o <<>>), Core)
    BY <1>1, <2>1, CoreThenLater
  <2> QED BY <2>2, <2>3, <2>4
<1> QED BY <1>3, <1>4, <1>5, <1>6, <1>7, <1>8 DEF CoreScripts

\* The names a program deploys.
NamesOf(script) == Program(script)[1].names

LEMMA CoreNames ==
    ASSUME NEW script \in CoreScripts
    PROVE  Core \subseteq NamesOf(script) /\ LinksCoreFirst(Program(script), NamesOf(script))
<1>1. PICK names : Core \subseteq names /\ LinksCoreFirst(Program(script), names)
  BY CoreProgram
<1>2. NamesOf(script) = names
  BY <1>1, StepOps DEF LinksCoreFirst, NamesOf
<1> QED BY <1>1, <1>2

\* deploy-remaining.js: on top of a core, and for it.
LEMMA RemainingProgram ==
    /\ Len(Remaining) = 8 /\ DOMAIN Remaining = 1 .. 8
    /\ Remaining[1] = Deploys(NamesOf("deploy-remaining"))
    /\ NamesOf("deploy-remaining") \cap Core = {}
    /\ \A i \in 2 .. 8 : LaterStep(Remaining[i], NamesOf("deploy-remaining"))
<1> DEFINE names == {"ArenaArbitration", "ArenaOutcomes", "ArenaInsurance", "ArenaSyndicates",
                     "ArenaDelegation", "ArenaTimelock", "ArenaCompliance"}
<1>1. Program("deploy-remaining") = Remaining
  BY DEF Program
<1>2. Len(Remaining) = 8 /\ DOMAIN Remaining = 1 .. 8 /\ Remaining[1] = Deploys(names)
  BY DEF Remaining
<1>3. NamesOf("deploy-remaining") = names
  BY <1>1, <1>2, StepOps DEF NamesOf
<1>4. names \cap Core = {}
  BY DEF Core
<1>5. /\ LaterStep(Link("ArenaCoreMain", "arenaArbitration", "ArenaArbitration"), names)
      /\ LaterStep(Link("ArenaCoreMain", "arenaOutcomes", "ArenaOutcomes"), names)
      /\ LaterStep(Link("ArenaCoreMain", "arenaCompliance", "ArenaCompliance"), names)
  BY LinkLater DEF SingleCore, CoreFields, SatelliteFields
<1>6. /\ LaterStep(Link("ArenaSyndicates", "arenaCore", "ArenaCoreMain"), names)
      /\ LaterStep(Link("ArenaDelegation", "arenaCore", "ArenaCoreMain"), names)
      /\ LaterStep(Link("ArenaArbitration", "arenaCore", "ArenaCoreMain"), names)
  BY LinkLater DEF CoreFields, SatelliteFields
<1>7. LaterStep(Save("flat"), names)
  BY OtherLater
<1> HIDE DEF names
<1>8. /\ Remaining[2] = Link("ArenaCoreMain", "arenaArbitration", "ArenaArbitration")
      /\ Remaining[3] = Link("ArenaCoreMain", "arenaOutcomes", "ArenaOutcomes")
      /\ Remaining[4] = Link("ArenaCoreMain", "arenaCompliance", "ArenaCompliance")
      /\ Remaining[5] = Link("ArenaSyndicates", "arenaCore", "ArenaCoreMain")
      /\ Remaining[6] = Link("ArenaDelegation", "arenaCore", "ArenaCoreMain")
      /\ Remaining[7] = Link("ArenaArbitration", "arenaCore", "ArenaCoreMain")
      /\ Remaining[8] = Save("flat")
  BY DEF Remaining
<1>9. \A i \in 2 .. 8 : i \in {2, 3, 4, 5, 6, 7, 8}
  OBVIOUS
<1> QED BY <1>2, <1>3, <1>4, <1>5, <1>6, <1>7, <1>8, <1>9

\* seed-testnet.js and verify-deployment.js change no link and no book.
LEMMA OtherPrograms ==
    ASSUME NEW script \in {"seed-testnet", "verify-deployment"},
           NEW i \in 1 .. Len(Program(script))
    PROVE  Program(script)[i].op \in {"whitelist", "check"}
<1>1. CASE script = "seed-testnet"
  <2>1. Program(script) = Seed /\ Len(Seed) = 1 /\ Seed[1] = Whitelist("ArenaConsensus")
    BY <1>1 DEF Program, Seed
  <2> QED BY <2>1, StepOps
<1>2. CASE script = "verify-deployment"
  <2>1. Program(script) = Verify /\ Len(Verify) = 8
    BY <1>2 DEF Program, Verify
  <2>2. \A j \in 1 .. 8 : \E section : Verify[j] = Check(section)
    <3>1. \A j \in 1 .. 8 : j \in {1, 2, 3, 4, 5, 6, 7, 8}
      OBVIOUS
    <3> QED BY <3>1 DEF Verify
  <2> QED BY <2>1, <2>2, StepOps
<1> QED BY <1>1, <1>2

-----------------------------------------------------------------------------
(* The deployment scripts: the inductive invariant                         *)

\* The i-th of the core's links, between the contracts that execution r deployed.
CoreLink(i, r) == <<<<LinkCore[i].of, r>>, LinkCore[i].field, <<LinkCore[i].to, r>>>>

\* A book of one execution's core, which is linked: no link of another core touches it, and
\* the execution itself sets a link to what it is.
OfRun(book, r) == Core \subseteq DOMAIN book /\ \A n \in Core : book[n] = <<n, r>>
Complete(book, on) ==
    \E r \in Nat : OfRun(book, r) /\ \A i \in 1 .. 3 : CoreLink(i, r) \in on

\* The contracts a script deployed work for the core in its book.
WorkFor(names, book, on) ==
    \A n \in names \cap SingleCore :
        /\ {n, "ArenaCoreMain"} \subseteq DOMAIN book
        /\ <<book[n], "core", book["ArenaCoreMain"]>> \in on

\* What execution x, the p-th, has done so far.
Done(x, p, on) ==
    /\ x.pc \in Nat \ {0} /\ x.script \in Scripts
    /\ x.status = "running" => x.pc <= Len(Program(x.script))
    /\ x.script \in CoreScripts =>
          /\ x.pc > 1 => OfRun(x.book, p)
          /\ \A i \in 1 .. 3 : x.pc > i + 1 => CoreLink(i, p) \in on
    /\ x.script = "deploy-remaining" => Complete(x.book, on)
    /\ x.script \in CoreScripts \cup {"deploy-remaining"} /\ x.pc > 1 =>
          WorkFor(NamesOf(x.script), x.book, on)

IsList(s) == s \in Seq({s[i] : i \in DOMAIN s})
Execution(x) == DOMAIN x = {"script", "pc", "status", "book"}
SatellitesKnow(on) ==
    \A l \in on : l[2] \in SatelliteFields => <<l[3], "core", l[1]>> \in on

DeploymentInv ==
    /\ IsList(procs)
    /\ \A p \in DOMAIN procs : Execution(procs[p]) /\ Done(procs[p], p, links)
    /\ file.format # "none" => Complete(file.book, links)
    /\ SatellitesKnow(links)

\* What a step may not do to the links.
LinksKept(on, after) ==
    /\ \A r \in Nat, i \in 1 .. 3 : CoreLink(i, r) \in on => CoreLink(i, r) \in after
    /\ \A l \in on : l[2] = "core" => l \in after

LEMMA CompleteKept ==
    ASSUME NEW on, NEW after, LinksKept(on, after), NEW book, Complete(book, on)
    PROVE  Complete(book, after)
BY DEF LinksKept, Complete

LEMMA WorkKept ==
    ASSUME NEW on, NEW after, LinksKept(on, after), NEW names, NEW book, WorkFor(names, book, on)
    PROVE  WorkFor(names, book, after)
<1> SUFFICES ASSUME NEW n \in names \cap SingleCore
             PROVE  /\ {n, "ArenaCoreMain"} \subseteq DOMAIN book
                    /\ <<book[n], "core", book["ArenaCoreMain"]>> \in after
  BY DEF WorkFor
<1> DEFINE l == <<book[n], "core", book["ArenaCoreMain"]>>
<1>1. {n, "ArenaCoreMain"} \subseteq DOMAIN book /\ l \in on
  BY DEF WorkFor
<1>2. l[2] = "core"
  OBVIOUS
<1> HIDE DEF l
<1>3. l \in after
  BY <1>1, <1>2 DEF LinksKept
<1> QED BY <1>1, <1>3 DEF l

LEMMA DoneKept ==
    ASSUME NEW on, NEW after, LinksKept(on, after), NEW x, NEW p \in Nat, Done(x, p, on)
    PROVE  Done(x, p, after)
<1>1. \A i \in 1 .. 3 : CoreLink(i, p) \in on => CoreLink(i, p) \in after
  BY DEF LinksKept
<1>2. x.script = "deploy-remaining" => Complete(x.book, after)
  BY CompleteKept DEF Done
<1>3. x.script \in CoreScripts \cup {"deploy-remaining"} /\ x.pc > 1 =>
          WorkFor(NamesOf(x.script), x.book, after)
  BY WorkKept DEF Done
<1> QED BY <1>1, <1>2, <1>3 DEF Done

\* A complete book passes what the verification asks of the core's links.
LEMMA CompleteHealthy == ASSUME NEW book, Complete(book, links) PROVE LinksHealthy(book)
<1>1. PICK r \in Nat : OfRun(book, r) /\ \A i \in 1 .. 3 : CoreLink(i, r) \in links
  BY DEF Complete
<1>2. {"ArenaCoreMain", "ArenaCoreAuction", "ArenaCoreVRF"} \subseteq Core
  BY DEF Core
<1>3. /\ CoreLink(1, r) = <<<<"ArenaCoreMain", r>>, "arenaCoreAuction", <<"ArenaCoreAuction", r>>>>
      /\ CoreLink(2, r) = <<<<"ArenaCoreMain", r>>, "arenaCoreVRF", <<"ArenaCoreVRF", r>>>>
      /\ CoreLink(3, r) = <<<<"ArenaCoreAuction", r>>, "arenaCoreVRF", <<"ArenaCoreVRF", r>>>>
  BY LinkCoreIs, StepOps DEF CoreLink
<1>4. CoreLink(1, r) \in links /\ CoreLink(2, r) \in links /\ CoreLink(3, r) \in links
  BY <1>1
<1> QED BY <1>1, <1>2, <1>3, <1>4 DEF LinksHealthy, Linked, OfRun

-----------------------------------------------------------------------------
(* The links.                                                              *)

\* Setting a field of a contract.
SetLink(on, of, field, to) == {l \in on : l[1] # of \/ l[2] # field} \cup {<<of, field, to>>}

\* A link that is none of the core's leaves those and the constructors' alone.
LEMMA SetLater ==
    ASSUME NEW on, NEW of, NEW field, NEW to, field \notin CoreFields \cup {"core"}
    PROVE  LinksKept(on, SetLink(on, of, field, to))
<1>1. \A i \in 1 .. 3 : LinkCore[i].field \in CoreFields
  BY LinkCoreIs, StepOps DEF CoreFields
<1>2. \A i \in 1 .. 3, r \in Nat : CoreLink(i, r)[2] \in CoreFields
  BY <1>1 DEF CoreLink
<1> QED BY <1>2 DEF LinksKept, SetLink

\* A link of the core is set to what it is.
LEMMA SetCore ==
    ASSUME NEW on, NEW p \in Nat, NEW i \in 1 .. 3
    PROVE  LET after == SetLink(on, <<LinkCore[i].of, p>>, LinkCore[i].field, <<LinkCore[i].to, p>>)
           IN  LinksKept(on, after) /\ CoreLink(i, p) \in after
<1> DEFINE after == SetLink(on, <<LinkCore[i].of, p>>, LinkCore[i].field, <<LinkCore[i].to, p>>)
<1>1. CoreLink(i, p) \in after
  BY DEF SetLink, CoreLink
<1>2. LinkCore[i].field # "core"
  BY LinkCoreIs, StepOps
<1>3. \A l \in on : l[2] = "core" => l \in after
  BY <1>2 DEF SetLink
<1>4. ASSUME NEW r \in Nat, NEW j \in 1 .. 3, CoreLink(j, r) \in on PROVE CoreLink(j, r) \in after
  <2>1. CASE CoreLink(j, r)[1] # <<LinkCore[i].of, p>> \/ CoreLink(j, r)[2] # LinkCore[i].field
    BY <1>4, <2>1 DEF SetLink
  <2>2. CASE ~(CoreLink(j, r)[1] # <<LinkCore[i].of, p>> \/ CoreLink(j, r)[2] # LinkCore[i].field)
    <3>1. <<LinkCore[j].of, r>> = <<LinkCore[i].of, p>> /\ LinkCore[j].field = LinkCore[i].field
      BY <2>2 DEF CoreLink
    <3>2. r = p /\ LinkCore[j].of = LinkCore[i].of
      BY <3>1
    <3>3. j = i
      BY <3>1, <3>2, LinkCoreIs, StepOps
    <3> QED BY <1>1, <3>2, <3>3
  <2> QED BY <2>1, <2>2
<1> QED BY <1>1, <1>3, <1>4 DEF LinksKept

LEMMA AddedKept == ASSUME NEW on, NEW more PROVE LinksKept(on, on \cup more)
BY DEF LinksKept

LEMMA SatellitesKept ==
    ASSUME NEW on, NEW after, LinksKept(on, after), SatellitesKnow(on),
           \A l \in after : l \in on \/ l[2] \notin SatelliteFields
                            \/ <<l[3], "core", l[1]>> \in on
    PROVE  SatellitesKnow(after)
<1> SUFFICES ASSUME NEW l \in after, l[2] \in SatelliteFields
             PROVE  <<l[3], "core", l[1]>> \in after
  BY DEF SatellitesKnow
<1> DEFINE m == <<l[3], "core", l[1]>>
<1>1. m \in on
  BY DEF SatellitesKnow
<1>2. m[2] = "core"
  OBVIOUS
<1> HIDE DEF m
<1>3. m \in after
  BY <1>1, <1>2 DEF LinksKept
<1> QED BY <1>3 DEF m

LEMMA ListIs == ASSUME NEW s, IsList(s) PROVE Len(s) \in Nat /\ DOMAIN s = 1 .. Len(s)
BY DEF IsList

LEMMA ListAppend ==
    ASSUME NEW s, IsList(s), NEW x
    PROVE  /\ IsList(Append(s, x)) /\ DOMAIN Append(s, x) = DOMAIN s \cup {Len(s) + 1}
           /\ Append(s, x)[Len(s) + 1] = x
           /\ \A i \in DOMAIN s : Append(s, x)[i] = s[i] /\ i # Len(s) + 1
<1> DEFINE S == {s[i] : i \in DOMAIN s} \cup {x}
           t == Append(s, x)
<1>1. s \in Seq(S)
  BY DEF IsList
<1> HIDE DEF S
<1>2. x \in S
  BY DEF S
<1>3. /\ t \in Seq(S) /\ DOMAIN t = DOMAIN s \cup {Len(s) + 1} /\ t[Len(s) + 1] = x
      /\ \A i \in DOMAIN s : t[i] = s[i] /\ i # Len(s) + 1
  BY <1>1, <1>2
<1> HIDE DEF t
<1>4. t \in Seq({t[i] : i \in DOMAIN t})
  BY <1>3
<1> QED BY <1>3, <1>4 DEF IsList, t

LEMMA ListChange ==
    ASSUME NEW s, IsList(s), NEW t, t = [i \in DOMAIN s |-> t[i]] PROVE IsList(t)
<1>1. Len(s) \in Nat /\ DOMAIN s = 1 .. Len(s)
  BY ListIs
<1>2. t \in [1 .. Len(s) -> {t[i] : i \in DOMAIN t}]
  BY <1>1
<1> QED BY <1>1, <1>2 DEF IsList

-----------------------------------------------------------------------------
(* Executing.                                                              *)

LEMMA ProgramLen == ASSUME NEW script \in Scripts PROVE Len(Program(script)) >= 1
<1>1. CASE script \in CoreScripts
  BY <1>1, CoreNames DEF LinksCoreFirst
<1>2. CASE script = "deploy-remaining"
  BY <1>2, RemainingProgram DEF Program
<1>3. CASE script = "seed-testnet"
  BY <1>3 DEF Program, Seed
<1>4. CASE script = "verify-deployment"
  BY <1>4 DEF Program, Verify
<1> QED BY <1>1, <1>2, <1>3, <1>4, ScriptsAssumption DEF CoreScripts

\* One execution changes.
LEMMA OneChanges ==
    ASSUME DeploymentInv, NEW p \in DOMAIN procs, IsList(procs'), DOMAIN procs' = DOMAIN procs,
           \A q \in DOMAIN procs : q # p => procs'[q] = procs[q],
           Execution(procs'[p]), Done(procs'[p], p, links'), LinksKept(links, links'),
           SatellitesKnow(links'),
           file' = file \/ Complete(file'.book, links')
    PROVE  DeploymentInv'
<1>1. ASSUME NEW q \in DOMAIN procs, q # p PROVE Execution(procs[q]) /\ Done(procs[q], q, links')
  <2>1. q \in Nat
    BY ListIs DEF DeploymentInv
  <2> QED BY <2>1, DoneKept DEF DeploymentInv
<1>2. \A q \in DOMAIN procs' : Execution(procs'[q]) /\ Done(procs'[q], q, links')
  BY <1>1
<1>3. file'.format # "none" => Complete(file'.book, links')
  <2>1. CASE file' = file
    <3>1. file.format # "none" => Complete(file.book, links')
      BY CompleteKept DEF DeploymentInv
    <3> QED BY <2>1, <3>1
  <2> QED BY <2>1
<1> QED BY <1>2, <1>3 DEF DeploymentInv

\* An execution that goes on with its next step.
Advances(x, y, book) ==
    /\ Execution(y) /\ y.script = x.script /\ y.pc = x.pc + 1 /\ y.book = book
    /\ y.status = "running" => x.pc # Len(Program(x.script))

LEMMA DoneAdvanced ==
    ASSUME NEW x, NEW y, NEW p \in Nat, NEW book, NEW on, NEW after, Done(x, p, on),
           x.status = "running", Advances(x, y, book), LinksKept(on, after),
           x.script \in CoreScripts => OfRun(book, p),
           \A i \in 1 .. 3 : x.script \in CoreScripts /\ x.pc = i + 1 => CoreLink(i, p) \in after,
           x.script = "deploy-remaining" => Complete(book, after),
           x.script \in CoreScripts \cup {"deploy-remaining"} =>
               WorkFor(NamesOf(x.script), book, after)
    PROVE  Done(y, p, after)
<1>1. y.pc \in Nat \ {0} /\ x.pc \in Nat \ {0}
  BY DEF Done, Advances
<1>2. Len(Program(x.script)) \in Nat
  <2>1. x.script \in Scripts
    BY DEF Done
  <2>2. CASE x.script \in CoreScripts
    BY <2>2, CoreNames DEF LinksCoreFirst
  <2>3. CASE x.script = "deploy-remaining"
    BY <2>3, RemainingProgram DEF Program
  <2>4. CASE x.script = "seed-testnet"
    BY <2>4 DEF Program, Seed
  <2>5. CASE x.script = "verify-deployment"
    BY <2>5 DEF Program, Verify
  <2> QED BY <2>1, <2>2, <2>3, <2>4, <2>5, ScriptsAssumption DEF CoreScripts
<1>3. y.status = "running" => y.pc <= Len(Program(y.script))
  BY <1>1, <1>2 DEF Done, Advances
<1>4. ASSUME NEW i \in 1 .. 3, y.script \in CoreScripts, y.pc > i + 1 PROVE CoreLink(i, p) \in after
  <2>1. CASE x.pc = i + 1
    BY <1>4, <2>1 DEF Advances
  <2>2. CASE x.pc > i + 1
    <3>1. CoreLink(i, p) \in on
      BY <1>4, <2>2 DEF Done, Advances
    <3> QED BY <3>1 DEF LinksKept
  <2> QED BY <1>1, <1>4, <2>1, <2>2 DEF Advances
<1> QED BY <1>1, <1>3, <1>4 DEF Done, Advances

\* What a step does that succeeds.
Effect(p, cmd, book) ==
    /\ Advances(procs[p], procs'[p], book)
    /\ cmd.op = "deploy" => links' = links \cup Constructed(cmd.names, book)
    /\ cmd.op = "link" =>
          links' = SetLink(links, AddressIn(procs[p], cmd.of), cmd.field,
                           AddressIn(procs[p], cmd.to))
    /\ cmd.op \notin {"deploy", "link"} => links' = links
    /\ cmd.op = "save" => file' = [format |-> cmd.format, book |-> procs[p].book]
    /\ cmd.op # "save" => file' = file

\* An execution that ends without a step.
EndsWithout(x, y) == /\ Execution(y) /\ y.script = x.script /\ y.pc = x.pc /\ y.book = x.book
              /\ y.status # "running"

OnlyExecution(p) ==
    /\ IsList(procs') /\ DOMAIN procs' = DOMAIN procs
    /\ \A q \in DOMAIN procs : q # p => procs'[q] = procs[q]

LEMMA StatusChanges ==
    ASSUME DeploymentInv, NEW p \in DOMAIN procs, NEW s, s # "running",
           procs' = [procs EXCEPT ![p].status = s]
    PROVE  OnlyExecution(p) /\ EndsWithout(procs[p], procs'[p])
<1>1. Execution(procs[p]) /\ IsList(procs)
  BY DEF DeploymentInv
<1> DEFINE y == [procs[p] EXCEPT !.status = s]
<1>2. EndsWithout(procs[p], y)
  BY <1>1 DEF EndsWithout, Execution
<1>3. procs' = [procs EXCEPT ![p] = y]
  OBVIOUS
<1> HIDE DEF y
<1>4. DOMAIN procs' = DOMAIN procs /\ procs'[p] = y
      /\ \A q \in DOMAIN procs : q # p => procs'[q] = procs[q]
  BY <1>3
<1>5. procs' = [q \in DOMAIN procs |-> procs'[q]]
  BY <1>3
<1>6. IsList(procs')
  BY <1>1, <1>5, ListChange
<1> QED BY <1>2, <1>4, <1>6 DEF OnlyExecution

LEMMA StepIs ==
    ASSUME DeploymentInv, NEW p \in DOMAIN procs, Step(p)
    PROVE  LET x    == procs[p]
               cmd == Program(x.script)[x.pc]
               book == IF cmd.op = "deploy" THEN Extended(x.book, cmd.names, p) ELSE x.book
           IN  /\ x.status = "running" /\ OnlyExecution(p)
               /\ \/ EndsWithout(x, procs'[p]) /\ links' = links /\ file' = file
                  \/ Effect(p, cmd, book)
<1> DEFINE x    == procs[p]
           cmd == Program(x.script)[x.pc]
           book == IF cmd.op = "deploy" THEN Extended(x.book, cmd.names, p) ELSE x.book
<1>1. Execution(x) /\ IsList(procs)
  BY DEF DeploymentInv
<1>2. x.status = "running"
  BY DEF Step
<1>3. CASE Succeeds(x, cmd)
  <2> DEFINE y == [x EXCEPT !.pc = x.pc + 1, !.book = book,
                            !.status = IF x.pc = Len(Program(x.script)) THEN "done" ELSE x.status]
  <2>1. procs' = [procs EXCEPT ![p] = y]
    BY <1>3 DEF Step
  <2>2. Advances(x, y, book)
    <3> HIDE DEF book
    <3> QED BY <1>1 DEF Advances, Execution
  <2> HIDE DEF y
  <2>3. DOMAIN procs' = DOMAIN procs /\ procs'[p] = y
        /\ \A q \in DOMAIN procs : q # p => procs'[q] = procs[q]
    BY <2>1
  <2>4. procs' = [q \in DOMAIN procs |-> procs'[q]]
    BY <2>1
  <2>5. OnlyExecution(p)
    BY <1>1, <2>3, <2>4, ListChange DEF OnlyExecution
  <2>6. /\ links' = IF cmd.op = "deploy" THEN links \cup Constructed(cmd.names, book)
                    ELSE IF cmd.op # "link" THEN links
                    ELSE SetLink(links, AddressIn(x, cmd.of), cmd.field, AddressIn(x, cmd.to))
        /\ file' = IF cmd.op = "save" THEN [format |-> cmd.format, book |-> x.book] ELSE file
    BY <1>3 DEF Step, SetLink
  <2> HIDE DEF cmd, book
  <2>7. Effect(p, cmd, book)
    BY <2>2, <2>3, <2>6 DEF Effect
  <2> QED BY <1>2, <2>5, <2>7 DEF cmd, book
<1>4. CASE ~Succeeds(x, cmd)
  <2>1. procs' = [procs EXCEPT ![p].status = "failed"] /\ links' = links /\ file' = file
    BY <1>4 DEF Step
  <2> QED BY <1>2, <2>1, StatusChanges
<1> QED BY <1>3, <1>4

LEMMA EndsKeeps ==
    ASSUME DeploymentInv, NEW p \in DOMAIN procs, OnlyExecution(p), EndsWithout(procs[p], procs'[p]),
           links' = links, file' = file
    PROVE  DeploymentInv'
<1>1. Done(procs'[p], p, links')
  BY DEF DeploymentInv, Done, EndsWithout
<1>2. LinksKept(links, links')
  BY DEF LinksKept
<1> QED BY <1>1, <1>2, OneChanges DEF DeploymentInv, OnlyExecution, EndsWithout

\* The contracts a script deploys work for the core it knows.
LEMMA DeployWorks ==
    ASSUME NEW on, NEW names, NEW book, names \subseteq DOMAIN book, "ArenaCoreMain" \in DOMAIN book
    PROVE  WorkFor(names, book, on \cup Constructed(names, book))
BY DEF WorkFor, Constructed

LEMMA DeploySatellites ==
    ASSUME NEW on, NEW names, NEW book, SatellitesKnow(on)
    PROVE  SatellitesKnow(on \cup Constructed(names, book))
<1>1. \A l \in Constructed(names, book) : l[2] \in {"core", "main"}
  BY DEF Constructed
<1>2. {"core", "main"} \cap SatelliteFields = {}
  BY DEF SatelliteFields
<1> QED BY <1>1, <1>2 DEF SatellitesKnow

\* The deployments, with which a script begins.
LEMMA DeployKeeps ==
    ASSUME DeploymentInv, NEW p \in DOMAIN procs, OnlyExecution(p), NEW names, NEW book,
           procs[p].status = "running", procs[p].pc = 1, names = NamesOf(procs[p].script),
           procs[p].script \in CoreScripts \cup {"deploy-remaining"},
           procs[p].script \in CoreScripts => Core \subseteq names,
           procs[p].script = "deploy-remaining" => names \cap Core = {},
           book = Extended(procs[p].book, names, p), Effect(p, Deploys(names), book)
    PROVE  DeploymentInv'
<1>1. /\ links' = links \cup Constructed(names, book) /\ file' = file
      /\ Advances(procs[p], procs'[p], book)
  BY StepOps DEF Effect
<1>2. LinksKept(links, links')
  BY <1>1, AddedKept
<1>0. /\ DOMAIN book = DOMAIN procs[p].book \cup names
      /\ \A n \in names : book[n] = <<n, p>>
      /\ \A n \in DOMAIN procs[p].book \ names : book[n] = procs[p].book[n]
  BY DEF Extended
<1>3. procs[p].script \in CoreScripts => OfRun(book, p)
  BY <1>0 DEF OfRun
<1>4. ASSUME procs[p].script = "deploy-remaining" PROVE Complete(book, links')
  <2>1. PICK r \in Nat : OfRun(procs[p].book, r) /\ \A i \in 1 .. 3 : CoreLink(i, r) \in links
    BY <1>4 DEF DeploymentInv, Done, Complete
  <2>2. OfRun(book, r)
    BY <1>0, <1>4, <2>1 DEF OfRun
  <2>3. \A i \in 1 .. 3 : CoreLink(i, r) \in links'
    BY <1>2, <2>1 DEF LinksKept
  <2> QED BY <2>2, <2>3 DEF Complete
<1>5. WorkFor(names, book, links')
  <2>1. names \subseteq DOMAIN book
    BY <1>0
  <2>2. "ArenaCoreMain" \in DOMAIN book
    BY <1>3, <1>4 DEF OfRun, Complete, Core
  <2> QED BY <1>1, <2>1, <2>2, DeployWorks
<1>6. p \in Nat
  BY ListIs DEF DeploymentInv
<1>7. Done(procs'[p], p, links')
  <2>1. Done(procs[p], p, links)
    BY DEF DeploymentInv
  <2>2. \A i \in 1 .. 3 : procs[p].pc # i + 1
    OBVIOUS
  <2> QED BY <1>1, <1>2, <1>3, <1>4, <1>5, <1>6, <2>1, <2>2, DoneAdvanced
<1>8. SatellitesKnow(links')
  BY <1>1, DeploySatellites DEF DeploymentInv
<1> QED BY <1>1, <1>2, <1>7, <1>8, OneChanges DEF OnlyExecution, Advances

\* A link of the core, right after.
LEMMA LinkCoreKeeps ==
    ASSUME DeploymentInv, NEW p \in DOMAIN procs, OnlyExecution(p), NEW i \in 1 .. 3,
           procs[p].status = "running", procs[p].pc = i + 1, procs[p].script \in CoreScripts,
           Effect(p, LinkCore[i], procs[p].book)
    PROVE  DeploymentInv'
<1>1. p \in Nat /\ Done(procs[p], p, links)
  BY ListIs DEF DeploymentInv
<1>2. OfRun(procs[p].book, p) /\ WorkFor(NamesOf(procs[p].script), procs[p].book, links)
  BY <1>1 DEF Done
<1>3. LinkCore[i].op = "link" /\ {LinkCore[i].of, LinkCore[i].to} \subseteq Core
      /\ LinkCore[i].field \in CoreFields
  BY LinkCoreIs, StepOps DEF Core, CoreFields
<1>4. /\ AddressIn(procs[p], LinkCore[i].of) = <<LinkCore[i].of, p>>
      /\ AddressIn(procs[p], LinkCore[i].to) = <<LinkCore[i].to, p>>
  BY <1>2, <1>3 DEF AddressIn, OfRun
<1> DEFINE after == SetLink(links, <<LinkCore[i].of, p>>, LinkCore[i].field,
                            <<LinkCore[i].to, p>>)
<1>5. links' = after /\ file' = file /\ Advances(procs[p], procs'[p], procs[p].book)
  BY <1>3, <1>4 DEF Effect
<1>6. LinksKept(links, links') /\ CoreLink(i, p) \in links'
  BY <1>1, <1>5, SetCore
<1>7. WorkFor(NamesOf(procs[p].script), procs[p].book, links')
  BY <1>2, <1>6, WorkKept
<1>8. Done(procs'[p], p, links')
  <2>1. \A j \in 1 .. 3 : procs[p].pc = j + 1 => CoreLink(j, p) \in links'
    BY <1>6
  <2>2. procs[p].script # "deploy-remaining"
    BY DEF CoreScripts
  <2> QED BY <1>1, <1>2, <1>5, <1>6, <1>7, <2>1, <2>2, DoneAdvanced
<1>9. SatellitesKnow(links')
  <2>1. CoreFields \cap SatelliteFields = {}
    BY DEF CoreFields, SatelliteFields
  <2>2. \A l \in links' : l \in links \/ l[2] \notin SatelliteFields
    BY <1>3, <1>5, <2>1 DEF SetLink
  <2> QED BY <1>6, <2>2, SatellitesKept DEF DeploymentInv
<1> QED BY <1>5, <1>6, <1>8, <1>9, OneChanges DEF OnlyExecution, Advances

\* What comes later: a script that deployed has a complete book, and saves no other.
LEMMA LaterKeeps ==
    ASSUME DeploymentInv, NEW p \in DOMAIN procs, OnlyExecution(p), NEW cmd,
           procs[p].status = "running", LaterStep(cmd, NamesOf(procs[p].script)),
           \/ procs[p].script \in CoreScripts /\ procs[p].pc > 4
           \/ procs[p].script = "deploy-remaining" /\ procs[p].pc > 1,
           Effect(p, cmd, procs[p].book)
    PROVE  DeploymentInv'
<1> DEFINE x == procs[p]
           names == NamesOf(x.script)
<1>1. p \in Nat /\ Done(x, p, links)
  BY ListIs DEF DeploymentInv
<1>2. x.pc > 1 /\ WorkFor(names, x.book, links)
  BY <1>1 DEF Done
<1>3. Complete(x.book, links) /\ (x.script \in CoreScripts => OfRun(x.book, p))
  BY <1>1 DEF Done, Complete
<1>4. \A i \in 1 .. 3 : ~(x.script \in CoreScripts /\ x.pc = i + 1)
  <2>1. "deploy-remaining" \notin CoreScripts
    BY DEF CoreScripts
  <2> QED BY <1>1, <2>1
<1>5. Advances(x, procs'[p], x.book)
  BY DEF Effect
<1>6. LinksKept(links, links')
  <2>1. CASE cmd.op = "link"
    BY <2>1, SetLater DEF LaterStep, Effect
  <2>2. CASE cmd.op # "link"
    <3>1. links' = links
      BY <2>2 DEF LaterStep, Effect
    <3> QED BY <3>1 DEF LinksKept
  <2> QED BY <2>1, <2>2
<1>7. Complete(x.book, links') /\ WorkFor(names, x.book, links')
  BY <1>2, <1>3, <1>6, CompleteKept, WorkKept
<1>8. Done(procs'[p], p, links')
  <2> HIDE DEF x, names
  <2>1. x.status = "running"
    BY DEF x
  <2>2. WorkFor(NamesOf(x.script), x.book, links')
    BY <1>7 DEF names
  <2> QED BY <1>1, <1>3, <1>4, <1>5, <1>6, <1>7, <2>1, <2>2, DoneAdvanced
<1>9. SatellitesKnow(links')
  <2>1. CASE cmd.op = "link" /\ cmd.field \in SatelliteFields
    <3> DEFINE new == <<AddressIn(x, cmd.of), cmd.field, AddressIn(x, cmd.to)>>
    <3>1. cmd.of = "ArenaCoreMain" /\ cmd.to \in names \cap SingleCore
      BY <2>1 DEF LaterStep
    <3>2. /\ {cmd.to, "ArenaCoreMain"} \subseteq DOMAIN x.book
          /\ <<x.book[cmd.to], "core", x.book["ArenaCoreMain"]>> \in links
      BY <1>2, <3>1 DEF WorkFor
    <3>3. <<new[3], "core", new[1]>> \in links
      BY <3>1, <3>2 DEF AddressIn
    <3>4. \A l \in links' : l \in links \/ l = new
      BY <2>1 DEF Effect, SetLink
    <3> HIDE DEF new
    <3> QED BY <1>6, <3>3, <3>4, SatellitesKept DEF DeploymentInv
  <2>2. CASE cmd.op = "link" /\ cmd.field \notin SatelliteFields
    <3>1. \A l \in links' : l \in links \/ l[2] \notin SatelliteFields
      BY <2>2 DEF Effect, SetLink
    <3> QED BY <1>6, <3>1, SatellitesKept DEF DeploymentInv
  <2>3. CASE cmd.op # "link"
    <3>1. links' = links
      BY <2>3 DEF LaterStep, Effect
    <3> QED BY <3>1 DEF DeploymentInv
  <2> QED BY <2>1, <2>2, <2>3
<1>10. file' = file \/ Complete(file'.book, links')
  <2>1. CASE cmd.op = "save"
    <3>1. file'.book = x.book
      BY <2>1 DEF Effect
    <3> QED BY <1>7, <3>1
  <2>2. CASE cmd.op # "save"
    BY <2>2 DEF Effect
  <2> QED BY <2>1, <2>2
<1> QED BY <1>5, <1>6, <1>8, <1>9, <1>10, OneChanges DEF OnlyExecution, Advances

\* Scripts that only use a deployment.
LEMMA UseKeeps ==
    ASSUME DeploymentInv, NEW p \in DOMAIN procs, OnlyExecution(p), NEW cmd,
           procs[p].status = "running", cmd.op \in {"whitelist", "check"},
           procs[p].script \in {"seed-testnet", "verify-deployment"},
           Effect(p, cmd, procs[p].book)
    PROVE  DeploymentInv'
<1>1. links' = links /\ file' = file /\ Advances(procs[p], procs'[p], procs[p].book)
  BY DEF Effect
<1>2. LinksKept(links, links')
  BY <1>1 DEF LinksKept
<1>3. procs[p].script \notin CoreScripts /\ procs[p].script # "deploy-remaining"
  BY DEF CoreScripts
<1>4. p \in Nat /\ Done(procs[p], p, links)
  BY ListIs DEF DeploymentInv
<1>5. Done(procs'[p], p, links')
  BY <1>1, <1>2, <1>3, <1>4, DoneAdvanced
<1> QED BY <1>1, <1>2, <1>5, OneChanges DEF DeploymentInv, OnlyExecution, Advances

LEMMA StepKeeps == ASSUME DeploymentInv, NEW p \in DOMAIN procs, Step(p) PROVE DeploymentInv'
<1> DEFINE x    == procs[p]
           prog == Program(x.script)
           cmd == prog[x.pc]
           book == IF cmd.op = "deploy" THEN Extended(x.book, cmd.names, p) ELSE x.book
<1>1. /\ x.status = "running" /\ OnlyExecution(p)
      /\ \/ EndsWithout(x, procs'[p]) /\ links' = links /\ file' = file
         \/ Effect(p, cmd, book)
  BY StepIs
<1>2. CASE EndsWithout(x, procs'[p]) /\ links' = links /\ file' = file
  BY <1>1, <1>2, EndsKeeps
<1>3. /\ x.script \in Scripts /\ x.pc \in Nat \ {0} /\ x.pc <= Len(prog)
  BY <1>1 DEF DeploymentInv, Done
<1>4. CASE Effect(p, cmd, book) /\ x.script \in CoreScripts
  <2>1. Core \subseteq NamesOf(x.script) /\ LinksCoreFirst(prog, NamesOf(x.script))
    BY <1>4, CoreNames
  <2>2. CASE x.pc = 1
    <3>1. cmd = Deploys(NamesOf(x.script))
      BY <2>1, <2>2 DEF LinksCoreFirst
    <3>2. book = Extended(x.book, NamesOf(x.script), p)
      BY <3>1, StepOps
    <3>3. x.script # "deploy-remaining"
      BY <1>4 DEF CoreScripts
    <3> HIDE DEF cmd, book
    <3> QED BY <1>1, <1>4, <2>1, <2>2, <3>1, <3>2, <3>3, DeployKeeps
  <2>3. CASE x.pc \in 2 .. 4
    <3>1. PICK i \in 1 .. 3 : x.pc = i + 1
      <4>1. x.pc - 1 \in 1 .. 3 /\ x.pc = (x.pc - 1) + 1
        BY <2>3
      <4> QED BY <4>1
    <3>2. cmd = LinkCore[i]
      BY <2>1, <3>1 DEF LinksCoreFirst
    <3>3. book = x.book
      BY <3>2, LinkCoreIs, StepOps
    <3> HIDE DEF cmd, book
    <3> QED BY <1>1, <1>4, <3>1, <3>2, <3>3, LinkCoreKeeps
  <2>4. CASE x.pc > 4
    <3>1. LaterStep(cmd, NamesOf(x.script))
      <4>1. x.pc \in 5 .. Len(prog)
        BY <1>3, <2>1, <2>4 DEF LinksCoreFirst
      <4> QED BY <2>1, <4>1 DEF LinksCoreFirst
    <3>2. book = x.book
      BY <3>1 DEF LaterStep
    <3>3. \/ procs[p].script \in CoreScripts /\ procs[p].pc > 4
          \/ procs[p].script = "deploy-remaining" /\ procs[p].pc > 1
      BY <1>4, <2>4
    <3>4. Effect(p, cmd, procs[p].book)
      BY <1>4, <3>2
    <3> HIDE DEF cmd, book
    <3> QED BY <1>1, <3>1, <3>3, <3>4, LaterKeeps
  <2> QED BY <1>3, <2>2, <2>3, <2>4
<1>5. CASE Effect(p, cmd, book) /\ x.script = "deploy-remaining"
  <2>1. prog = Remaining
    BY <1>5 DEF Program
  <2>2. CASE x.pc = 1
    <3>1. cmd = Deploys(NamesOf(x.script))
      BY <1>5, <2>1, <2>2, RemainingProgram
    <3>2. book = Extended(x.book, NamesOf(x.script), p)
      BY <3>1, StepOps
    <3>3. x.script \notin CoreScripts /\ NamesOf(x.script) \cap Core = {}
      BY <1>5, RemainingProgram DEF CoreScripts
    <3> HIDE DEF cmd, book
    <3> QED BY <1>1, <1>5, <2>2, <3>1, <3>2, <3>3, DeployKeeps
  <2>3. CASE x.pc > 1
    <3>1. LaterStep(cmd, NamesOf(x.script))
      <4>1. x.pc \in 2 .. 8
        BY <1>3, <2>1, <2>3, RemainingProgram
      <4> QED BY <1>5, <2>1, <4>1, RemainingProgram
    <3>2. book = x.book
      BY <3>1 DEF LaterStep
    <3> HIDE DEF cmd, book
    <3> QED BY <1>1, <1>5, <2>3, <3>1, <3>2, LaterKeeps
  <2> QED BY <1>3, <2>2, <2>3
<1>6. CASE Effect(p, cmd, book) /\ x.script \in {"seed-testnet", "verify-deployment"}
  <2>1. x.pc \in 1 .. Len(prog)
    <3>1. Len(prog) \in Nat
      <4>1. CASE x.script = "seed-testnet"
        BY <4>1 DEF Program, Seed
      <4>2. CASE x.script = "verify-deployment"
        BY <4>2 DEF Program, Verify
      <4> QED BY <1>6, <4>1, <4>2
    <3> QED BY <1>3, <3>1
  <2>2. cmd.op \in {"whitelist", "check"}
    BY <1>6, <2>1, OtherPrograms
  <2>3. book = x.book
    BY <2>2
  <2> HIDE DEF cmd, book
  <2> QED BY <1>1, <1>6, <2>2, <2>3, UseKeeps
<1>7. \/ x.script \in CoreScripts \/ x.script = "deploy-remaining"
      \/ x.script \in {"seed-testnet", "verify-deployment"}
  BY <1>3, ScriptsAssumption DEF CoreScripts
<1> QED BY <1>1, <1>2, <1>4, <1>5, <1>6, <1>7

LEMMA StartKeeps ==
    ASSUME DeploymentInv, NEW script \in Scripts, StartScript(script) PROVE DeploymentInv'
<1> DEFINE x == [script |-> script, pc |-> 1, status |-> "running", book |-> Reads(script)]
           n == Len(procs) + 1
<1>1. procs' = Append(procs, x) /\ links' = links /\ file' = file
  BY DEF StartScript
<1>2. Execution(x) /\ x.script = script /\ x.pc = 1 /\ x.book = Reads(script)
  BY DEF Execution
<1> HIDE DEF x
<1>3. /\ IsList(procs') /\ DOMAIN procs' = DOMAIN procs \cup {n} /\ procs'[n] = x
      /\ \A q \in DOMAIN procs : procs'[q] = procs[q]
  BY <1>1, ListAppend DEF DeploymentInv
<1>4. script = "deploy-remaining" => Complete(x.book, links)
  <2> SUFFICES ASSUME script = "deploy-remaining" PROVE Complete(x.book, links)
    OBVIOUS
  <2>1. "ArenaCoreMain" \in DOMAIN Reads(script)
    BY DEF StartScript
  <2>2. file.format = "flat" /\ Reads(script) = file.book
    BY <2>1 DEF Reads
  <2> QED BY <1>2, <2>2 DEF DeploymentInv
<1>5. Done(x, n, links)
  BY <1>2, <1>4, ProgramLen DEF Done
<1>6. \A q \in DOMAIN procs' : Execution(procs'[q]) /\ Done(procs'[q], q, links)
  BY <1>2, <1>3, <1>5 DEF DeploymentInv
<1> QED BY <1>1, <1>3, <1>6 DEF DeploymentInv

-----------------------------------------------------------------------------
(* The committed book.                                                     *)

LEMMA CommittedIs ==
    /\ Core \cup NamesOf("deploy-hardhat-auto") \cup NamesOf("deploy-remaining")
          \subseteq DOMAIN Committed
    /\ \A n \in DOMAIN Committed : Committed[n] = <<n, 0>>
<1>1. NamesOf("deploy-hardhat-auto") = Eight
  <2>1. HardhatAuto[1] = Deploys(Eight)
    BY DEF HardhatAuto, LinkCore
  <2>2. Program("deploy-hardhat-auto") = HardhatAuto
    BY DEF Program
  <2> QED BY <2>1, <2>2, StepOps DEF NamesOf
<1>2. NamesOf("deploy-remaining") =
          {"ArenaArbitration", "ArenaOutcomes", "ArenaInsurance", "ArenaSyndicates",
           "ArenaDelegation", "ArenaTimelock", "ArenaCompliance"}
  <2>1. Program("deploy-remaining") = Remaining
    BY DEF Program
  <2>2. Remaining[1] = Deploys({"ArenaArbitration", "ArenaOutcomes", "ArenaInsurance",
             "ArenaSyndicates", "ArenaDelegation", "ArenaTimelock", "ArenaCompliance"})
    BY DEF Remaining
  <2> QED BY <2>1, <2>2, StepOps DEF NamesOf
<1>3. Core \subseteq Eight
  BY DEF Eight
<1> QED BY <1>1, <1>2, <1>3 DEF Committed

\* The links the committed book was made with.
LinkSteps0 == {s \in {HardhatAuto[i] : i \in DOMAIN HardhatAuto} \cup
                     {Remaining[i] : i \in DOMAIN Remaining} : s.op = "link"}

LEMMA CommittedSteps ==
    /\ \A i \in 1 .. 3 : LinkCore[i] \in LinkSteps0
    /\ \A s \in LinkSteps0 : s.field \in SatelliteFields =>
          s.of = "ArenaCoreMain" /\ s.to \in DOMAIN Committed \cap SingleCore
<1> DEFINE names == NamesOf("deploy-hardhat-auto")
<1>1. LinksCoreFirst(HardhatAuto, names)
  <2>1. "deploy-hardhat-auto" \in CoreScripts /\ Program("deploy-hardhat-auto") = HardhatAuto
    BY DEF CoreScripts, Program
  <2> QED BY <2>1, CoreNames
<1>2. ASSUME NEW i \in 1 .. 3 PROVE LinkCore[i] \in LinkSteps0
  <2>1. LinkCore[i].op = "link"
    BY LinkCoreIs, StepOps
  <2>2. i + 1 \in DOMAIN HardhatAuto /\ HardhatAuto[i + 1] = LinkCore[i]
    BY <1>1 DEF LinksCoreFirst
  <2> QED BY <2>1, <2>2 DEF LinkSteps0
<1>3. ASSUME NEW s \in LinkSteps0, s.field \in SatelliteFields
      PROVE  s.of = "ArenaCoreMain" /\ s.to \in DOMAIN Committed \cap SingleCore
  <2>1. CASE \E i \in DOMAIN HardhatAuto : s = HardhatAuto[i]
    <3>1. PICK i \in 1 .. Len(HardhatAuto) : s = HardhatAuto[i]
      BY <1>1, <2>1 DEF LinksCoreFirst
    <3>2. i # 1
      BY <1>1, <3>1, StepOps DEF LinksCoreFirst, LinkSteps0
    <3>3. i \notin 2 .. 4
      <4> SUFFICES ASSUME i \in 2 .. 4 PROVE FALSE
        OBVIOUS
      <4>1. i - 1 \in 1 .. 3 /\ (i - 1) + 1 = i
        OBVIOUS
      <4>2. s = LinkCore[i - 1]
        BY <1>1, <3>1, <4>1 DEF LinksCoreFirst
      <4>3. \A j \in 1 .. 3 : LinkCore[j].field \notin SatelliteFields
        BY LinkCoreIs, StepOps DEF SatelliteFields
      <4> QED BY <1>3, <4>1, <4>2, <4>3
    <3>4. i \in 5 .. Len(HardhatAuto)
      BY <1>1, <3>1, <3>2, <3>3 DEF LinksCoreFirst
    <3>5. LaterStep(s, names)
      BY <1>1, <3>1, <3>4 DEF LinksCoreFirst
    <3> QED BY <1>3, <3>5, CommittedIs DEF LaterStep, LinkSteps0
  <2>2. CASE \E i \in DOMAIN Remaining : s = Remaining[i]
    <3>1. PICK i \in 1 .. 8 : s = Remaining[i]
      BY <2>2, RemainingProgram
    <3>2. i # 1
      BY <3>1, RemainingProgram, StepOps DEF LinkSteps0
    <3>3. LaterStep(s, NamesOf("deploy-remaining"))
      BY <3>1, <3>2, RemainingProgram
    <3> QED BY <1>3, <3>3, CommittedIs DEF LaterStep, LinkSteps0
  <2> QED BY <2>1, <2>2 DEF LinkSteps0
<1> QED BY <1>2, <1>3

LEMMA CommittedComplete ==
    /\ Complete(Committed, CommittedLinks)
    /\ SatellitesKnow(CommittedLinks)
<1>1. CommittedLinks = {<<<<s.of, 0>>, s.field, <<s.to, 0>>>> : s \in LinkSteps0}
                           \cup Constructed(DOMAIN Committed, Committed)
  BY DEF CommittedLinks, LinkSteps0
<1>2. OfRun(Committed, 0)
  BY CommittedIs DEF OfRun
<1>3. \A i \in 1 .. 3 : CoreLink(i, 0) \in CommittedLinks
  BY <1>1, CommittedSteps DEF CoreLink
<1>4. ASSUME NEW l \in CommittedLinks, l[2] \in SatelliteFields
      PROVE  <<l[3], "core", l[1]>> \in CommittedLinks
  <2>1. l \notin Constructed(DOMAIN Committed, Committed)
    BY <1>4 DEF Constructed, SatelliteFields
  <2>2. PICK s \in LinkSteps0 : l = <<<<s.of, 0>>, s.field, <<s.to, 0>>>>
    BY <1>1, <2>1
  <2>3. s.of = "ArenaCoreMain" /\ s.to \in DOMAIN Committed \cap SingleCore
    BY <1>4, <2>2, CommittedSteps
  <2>4. "ArenaCoreMain" \in DOMAIN Committed
    BY CommittedIs DEF Core
  <2>5. <<Committed[s.to], "core", Committed["ArenaCoreMain"]>> \in CommittedLinks
    BY <1>1, <2>3 DEF Constructed
  <2>6. Committed[s.to] = l[3] /\ Committed["ArenaCoreMain"] = l[1]
    BY <2>2, <2>3, <2>4, CommittedIs
  <2> QED BY <2>5, <2>6
<1> QED BY <1>2, <1>3, <1>4 DEF Complete, SatellitesKnow

LEMMA DeploymentStart == DeploymentInit => DeploymentInv
<1> SUFFICES ASSUME DeploymentInit PROVE DeploymentInv
  OBVIOUS
<1>1. IsList(procs) /\ DOMAIN procs = {}
  BY DEF DeploymentInit, IsList
<1>2. CASE links = {} /\ file = NoBook
  BY <1>1, <1>2 DEF DeploymentInv, SatellitesKnow, NoBook
<1>3. CASE links = CommittedLinks /\ file = [format |-> "flat", book |-> Committed]
  <2>1. file.book = Committed
    BY <1>3
  <2> QED BY <1>1, <1>3, <2>1, CommittedComplete DEF DeploymentInv
<1> QED BY <1>2, <1>3 DEF DeploymentInit

\* However the scripts are killed, run twice and over one another, the address book names a
\* core that is completely linked, and the satellites a core refers to work for it.
THEOREM SavedAlwaysLinked == DeploymentSpec => []SavedIsLinked
<1>1. DeploymentInv /\ [DeploymentNext]_deploymentVars => DeploymentInv'
  <2> SUFFICES ASSUME DeploymentInv, [DeploymentNext]_deploymentVars PROVE DeploymentInv'
    OBVIOUS
  <2>1. ASSUME NEW script \in Scripts, StartScript(script) PROVE DeploymentInv'
    BY <2>1, StartKeeps
  <2>2. ASSUME NEW p \in DOMAIN procs, Step(p) PROVE DeploymentInv'
    BY <2>2, StepKeeps
  <2>3. ASSUME NEW p \in DOMAIN procs, Killed(p) PROVE DeploymentInv'
    <3>1. procs' = [procs EXCEPT ![p].status = "killed"] /\ links' = links /\ file' = file
      BY <2>3 DEF Killed
    <3> QED BY <3>1, StatusChanges, EndsKeeps
  <2>4. CASE UNCHANGED deploymentVars
    BY <2>4 DEF deploymentVars, DeploymentInv
  <2> QED BY <2>1, <2>2, <2>3, <2>4 DEF DeploymentNext
<1>2. DeploymentInv => SavedIsLinked
  BY CompleteHealthy DEF DeploymentInv, SavedIsLinked, SatellitesKnow, SatelliteFields
<1> QED BY <1>1, <1>2, DeploymentStart, PTL DEF DeploymentSpec
=============================================================================
