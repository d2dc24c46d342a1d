--------------------------- MODULE OffChainProofs ---------------------------
(***************************************************************************)
(* Theorems about the programs off chain that vote, send and record.  What *)
(* the verifier agent's file says it voted is what the contract holds,     *)
(* however its pipelines interleave and wherever the process dies.  When   *)
(* it compares an agent's report with its own findings, it overlooks       *)
(* nothing in its reasons for a rejection and approves only what it has    *)
(* matched, however long the two reports are.  The orchestrator's queue    *)
(* runs every transaction at most once and in the order of submission,     *)
(* through resynchronised nonces, lost answers and replaced transactions,  *)
(* and its profit and loss is what happened on the chain, over restarts    *)
(* and late answers.  And the risk agent never takes a contract for older  *)
(* than it is, nor a position for riskier because a datum got better.      *)
(***************************************************************************)
EXTENDS VerifierAgent, ReportComparison, NonceManager, RiskScoring, Orchestrator, FiniteSums

-----------------------------------------------------------------------------
(* The verifier agent: the inductive invariant                             *)

IsHandler(h) == {"kind", "pc", "t", "todo", "verdict"} \subseteq DOMAIN h
Cast(t) == vote[t] \in Votes

\* What the agent decided became the vote of task t, or the contract judged its comparison.
VotedAs(t, v) == Cast(t) /\ (vote[t] = v \/ t \in compared)

Shapes ==
    /\ DOMAIN status = Tasks /\ DOMAIN vote = Tasks /\ DOMAIN records = Tasks
    /\ DOMAIN handler = Slots
    /\ \A t \in Tasks : DOMAIN records[t] = {"status", "vote", "completed"}
    /\ \A s \in Slots : handler[s] = Idle \/ (running /\ IsHandler(handler[s]))

\* A handler that votes has a verdict; once the vote is mined it is the one the chain has.
InHand(h) ==
    /\ h.pc \in {"voting", "voted"} => h.verdict \in Verdicts
    /\ h.pc = "voted" /\ h.t \in Tasks => VotedAs(h.t, h.verdict.vote)

\* A vote is cast on a panel, or set at settlement, and no panel is drawn for the task after that.
VoteStays(t) == Cast(t) => status[t] \in {"Verifying", "Settled"}

\* The record of a vote stays true, in a record that says "failed" as well.
OnDisk(t) ==
    /\ records[t].status = "voted" => Cast(t)
    /\ records[t].vote # "none" => VotedAs(t, records[t].vote)

VerifierInv ==
    /\ Shapes
    /\ \A s \in Slots : InHand(handler[s])
    /\ \A t \in Tasks : VoteStays(t) /\ OnDisk(t)

LEMMA VerifierStart == Init => VerifierInv
BY DEF Init, VerifierInv, Shapes, InHand, VoteStays, OnDisk, Cast, Votes, Idle, NoRecord

-----------------------------------------------------------------------------
(* Steps that cast no vote                                                 *)

Moves(s) ==
    /\ DOMAIN handler' = Slots
    /\ \A z \in Slots \ {s} : handler'[z] = handler[z]
    /\ handler'[s] = Idle \/ (running' /\ IsHandler(handler'[s]))

\* Records come to say nothing of a vote that they did not say, but that it was cast.
RecordsKept ==
    /\ DOMAIN records' = Tasks
    /\ \A t \in Tasks :
         /\ DOMAIN records'[t] = {"status", "vote", "completed"}
         /\ records'[t].vote \in {"none", records[t].vote}
         /\ records'[t].status = "voted" => records[t].status = "voted" \/ Cast(t)

QuietStep(s) ==
    /\ UNCHANGED <<status, vote, compared>>
    /\ running => running'
    /\ RecordsKept
    /\ Moves(s)
    /\ handler'[s].pc # "voted"
    /\ handler'[s].pc = "voting" => handler'[s].verdict \in Verdicts

LEMMA QuietKeeps == ASSUME VerifierInv, NEW s \in Slots, QuietStep(s) PROVE VerifierInv'
<1>1. Shapes'
  BY DEF VerifierInv, Shapes, QuietStep, Moves, RecordsKept
<1>2. ASSUME NEW t, NEW v PROVE VotedAs(t, v)' = VotedAs(t, v) /\ Cast(t)' = Cast(t)
  BY DEF QuietStep, VotedAs, Cast
<1>3. ASSUME NEW z \in Slots PROVE InHand(handler[z])'
  BY <1>2 DEF VerifierInv, QuietStep, Moves, InHand
<1>4. ASSUME NEW t \in Tasks PROVE VoteStays(t)'
  BY DEF VerifierInv, QuietStep, VoteStays, Cast
<1>5. ASSUME NEW t \in Tasks PROVE OnDisk(t)'
  BY <1>2 DEF VerifierInv, QuietStep, RecordsKept, OnDisk
<1>. QED BY <1>1, <1>3, <1>4, <1>5 DEF VerifierInv

LEMMA HandlerPut ==
    ASSUME Shapes, NEW s \in Slots, NEW h, Go(s, h), h = Idle \/ IsHandler(h)
    PROVE  running' => Moves(s) /\ handler'[s] = h
BY DEF Shapes, Go, Moves

LEMMA HandlerLeaves ==
    ASSUME NEW h, IsHandler(h)
    PROVE  /\ Leave(h) = Idle \/ IsHandler(Leave(h))
           /\ Leave(h).pc \in {"idle", "loop"}
BY DEF IsHandler, Leave, Idle

LEMMA HandlerBegins ==
    \A kind, pc, t, todo : IsHandler(Handler(kind, pc, t, todo)) /\ Handler(kind, pc, t, todo).pc = pc
BY DEF IsHandler, Handler

LEMMA HandlerGoes ==
    ASSUME Shapes, NEW s \in Slots, IsHandler(handler[s]), NEW pc,
           Go(s, [handler[s] EXCEPT !.pc = pc])
    PROVE  /\ running' => Moves(s)
           /\ handler'[s].pc = pc
           /\ handler'[s].t = handler[s].t /\ handler'[s].verdict = handler[s].verdict
BY DEF Shapes, Go, Moves, IsHandler

LEMMA HandlerTurns ==
    ASSUME NEW h, IsHandler(h), NEW t, NEW pc
    PROVE  IsHandler(Turn(h, t, pc)) /\ Turn(h, t, pc).pc = pc
BY DEF IsHandler, Turn

LEMMA HandlerAt ==
    ASSUME Shapes, NEW s \in Slots, NEW pc, pc # "idle", At(s, pc)
    PROVE  running /\ IsHandler(handler[s]) /\ handler[s].pc = pc
BY DEF Shapes, At, Idle

LEMMA SameKeeps == ASSUME Shapes, UNCHANGED records PROVE RecordsKept
BY DEF Shapes, RecordsKept

LEMMA UpdateKeeps ==
    ASSUME Shapes, NEW t, NEW v, updateVerification(t, "status", v), v = "voted" => Cast(t)
    PROVE  RecordsKept
BY DEF Shapes, updateVerification, RecordsKept, NoRecord

\* Loops, and the start of handlers.
LEMMA LoopsQuiet ==
    ASSUME VerifierInv, NEW s \in Slots,
           PollTask(s) \/ ResumeTask(s) \/ Poll(s) \/ Start(s) \/ Hear(s)
    PROVE  QuietStep(s)
<1>0. Shapes /\ UNCHANGED <<status, vote, compared, records>>
  BY DEF PollTask, ResumeTask, Poll, Start, Hear, OnVerifierAssigned, OnTaskDelivered, chain,
     VerifierInv
<1>1. RecordsKept /\ Shapes /\ running'
      /\ UNCHANGED <<status, vote, compared>>
  <2>1. CASE Start(s)
    BY <1>0, <2>1, SameKeeps DEF Start
  <2>2. CASE ~Start(s)
    <3>1. running
      BY <2>2 DEF PollTask, ResumeTask, Poll, Hear, OnVerifierAssigned, OnTaskDelivered, At,
         Free
    <3>2. running' = running
      BY <2>2 DEF PollTask, ResumeTask, Poll, Hear, OnVerifierAssigned, OnTaskDelivered
    <3>. QED BY <1>0, <3>1, <3>2, SameKeeps
  <2>. QED BY <2>1, <2>2
<1>2. Moves(s) /\ handler'[s].pc \in {"idle", "loop", "look", "check", "fetch", "consider"}
  <2>1. ASSUME NEW h, IsHandler(h), Go(s, h) \/ Go(s, Leave(h)),
               h.pc \in {"loop", "look", "check", "fetch", "consider"}
        PROVE  Moves(s) /\ handler'[s].pc \in {"idle", "loop", h.pc}
    BY <1>1, <2>1, HandlerPut, HandlerLeaves
  <2>2. CASE PollTask(s)
    <3>1. IsHandler(handler[s])
      BY <1>1, <2>2, HandlerAt DEF PollTask
    <3>2. \E t : Go(s, Turn(handler[s], t, "look")) \/ Go(s, Leave(Turn(handler[s], t, "loop")))
      BY <2>2 DEF PollTask
    <3>. QED BY <2>1, <3>1, <3>2, HandlerTurns
  <2>3. CASE ResumeTask(s)
    <3>1. IsHandler(handler[s])
      BY <1>1, <2>3, HandlerAt DEF ResumeTask
    <3>2. \E t : Go(s, Turn(handler[s], t, "check"))
      BY <2>3 DEF ResumeTask
    <3>. QED BY <2>1, <3>1, <3>2, HandlerTurns
  <2>4. CASE Poll(s) \/ Start(s)
    <3>1. \E kind, t, todo : Go(s, Leave(Handler(kind, "loop", t, todo)))
      BY <2>4 DEF Poll, Start
    <3>. QED BY <2>1, <3>1, HandlerBegins
  <2>5. CASE Hear(s)
    <3>1. \/ UNCHANGED handler
          \/ \E kind, t, todo : \E pc \in {"fetch", "consider"} : Go(s, Handler(kind, pc, t, todo))
      BY <2>5 DEF Hear, OnVerifierAssigned, OnTaskDelivered
    <3>2. handler[s] = Idle
      BY <2>5 DEF Hear, OnVerifierAssigned, OnTaskDelivered, Free
    <3>3. CASE UNCHANGED handler
      BY <1>1, <3>2, <3>3 DEF Moves, Idle, Shapes
    <3>. QED BY <1>1, <3>1, <3>3, HandlerPut, HandlerBegins
  <2>. QED BY <2>2, <2>3, <2>4, <2>5
<1>. QED BY <1>1, <1>2 DEF QuietStep

\* A pipeline up to its vote, and its failures.
LEMMA PipelineQuiet ==
    ASSUME VerifierInv, NEW s \in Slots,
           Consider(s) \/ BeginVerification(s) \/ Analyze(s) \/ LookAtTask(s) \/ CheckPending(s)
             \/ NetworkError(s) \/ (At(s, "voting") /\ Fail(s))
    PROVE  QuietStep(s)
<1>. DEFINE h == handler[s]
<1>1. Shapes /\ running' = running /\ UNCHANGED <<status, vote, compared>>
  BY DEF Consider, BeginVerification, Analyze, Fail, LookAtTask, CheckPending, NetworkError, chain,
     VerifierInv
<1>2. running /\ IsHandler(h)
  <2>1. PICK pc : At(s, pc) /\ pc # "idle"
    BY DEF Consider, BeginVerification, Analyze, LookAtTask, CheckPending, NetworkError, At
  <2>. QED BY <1>1, <2>1, HandlerAt
<1>3. RecordsKept
  <2>1. \/ UNCHANGED records
        \/ \E v : updateVerification(h.t, "status", v) /\ (v = "voted" => Cast(h.t))
        \/ records' = [records EXCEPT ![h.t] = [NoRecord EXCEPT !.status = "analyzing"]]
    <3>1. CASE CheckPending(s)
      BY <3>1 DEF CheckPending, Cast, Votes
    <3>2. CASE Fail(s)
      BY <3>2 DEF Fail
    <3>3. CASE NetworkError(s)
      BY <3>3 DEF NetworkError
    <3>. QED BY <3>1, <3>2, <3>3 DEF Consider, BeginVerification, Analyze, LookAtTask
  <2>2. CASE records' = [records EXCEPT ![h.t] = [NoRecord EXCEPT !.status = "analyzing"]]
    BY <1>1, <2>2 DEF Shapes, RecordsKept, NoRecord
  <2>. QED BY <1>1, <2>1, <2>2, SameKeeps, UpdateKeeps
<1>4. \/ Go(s, Idle) \/ Go(s, Leave(h))
      \/ \E pc \in {"registering", "analyze", "fetch"} : Go(s, [h EXCEPT !.pc = pc])
      \/ \E v \in Verdicts : Go(s, [h EXCEPT !.pc = "voting", !.verdict = v])
  BY DEF Consider, BeginVerification, Analyze, Fail, LookAtTask, CheckPending, NetworkError
<1>5. /\ Moves(s) /\ handler'[s].pc # "voted"
      /\ handler'[s].pc = "voting" => handler'[s].verdict \in Verdicts
  <2>1. CASE Go(s, Idle)
    BY <1>1, <1>2, <2>1, HandlerPut DEF Idle
  <2>2. CASE Go(s, Leave(h))
    BY <1>1, <1>2, <2>2, HandlerPut, HandlerLeaves
  <2>3. ASSUME NEW pc \in {"registering", "analyze", "fetch"}, Go(s, [h EXCEPT !.pc = pc])
        PROVE  Moves(s) /\ handler'[s].pc = pc
    BY <1>1, <1>2, <2>3, HandlerGoes
  <2>4. ASSUME NEW v \in Verdicts, Go(s, [h EXCEPT !.pc = "voting", !.verdict = v])
        PROVE  Moves(s) /\ handler'[s].pc = "voting" /\ handler'[s].verdict = v
    BY <1>1, <1>2, <2>4 DEF Go, Moves, Shapes, IsHandler
  <2>. QED BY <1>4, <2>1, <2>2, <2>3, <2>4
<1>. QED BY <1>1, <1>3, <1>5 DEF QuietStep

-----------------------------------------------------------------------------
(* Votes, the chain, the end of the process                                *)

\* What is so of a vote on the chain stays so.
LEMMA VotesStay ==
    ASSUME NEW t, compared \subseteq compared',
           Cast(t) => \/ vote'[t] = vote[t]
                      \/ t \in compared' /\ vote'[t] \in Votes
    PROVE  (Cast(t) => Cast(t)') /\ \A v : VotedAs(t, v) => VotedAs(t, v)'
BY DEF Cast, VotedAs

\* The chain takes a standard vote only as the first one, and a comparison as a vote of its own.
LEMMA MineVoteKeeps == ASSUME VerifierInv, NEW s \in Slots, MineVote(s) PROVE VerifierInv'
<1>. DEFINE h == handler[s]  t == h.t
<1>1. CASE At(s, "voting") /\ Fail(s)
  BY <1>1, PipelineQuiet, QuietKeeps
<1>2. CASE /\ VoteAllowed(t, h.verdict.mode) /\ TakeVote(t, h.verdict)
           /\ At(s, "voting") /\ Go(s, [h EXCEPT !.pc = "voted"])
           /\ UNCHANGED <<status, records, running>>
  <2>1. /\ Shapes /\ vote' = [vote EXCEPT ![t] = h.verdict.cast]
        /\ compared' = IF h.verdict.mode = "comparison" THEN compared \cup {t} ELSE compared
    BY <1>2 DEF TakeVote, VerifierInv
  <2>2. running /\ IsHandler(h) /\ h.verdict \in Verdicts
    BY <1>2, <2>1, HandlerAt DEF VerifierInv, InHand
  <2>3. /\ Moves(s) /\ handler'[s].pc = "voted"
        /\ handler'[s].t = t /\ handler'[s].verdict = h.verdict
    BY <1>2, <2>1, <2>2, HandlerGoes
  <2>4. h.verdict.cast \in Votes /\ (h.verdict.mode = "standard" => h.verdict.cast = h.verdict.vote)
        /\ h.verdict.mode \in {"standard", "comparison"}
    BY <2>2 DEF Verdicts
  <2>5. t \in Tasks => vote'[t] = h.verdict.cast /\ status[t] = "Verifying"
    BY <1>2, <2>1 DEF VoteAllowed, VoteDue, Shapes
  <2>6. compared \subseteq compared' /\ (h.verdict.mode = "comparison" => t \in compared')
    BY <2>1
  <2>7. ASSUME NEW u \in Tasks, Cast(u)
        PROVE  vote'[u] = vote[u] \/ (u \in compared' /\ vote'[u] \in Votes)
    <3>1. CASE u # t
      BY <2>1, <3>1 DEF Shapes
    <3>2. CASE u = t /\ h.verdict.mode = "comparison"
      BY <2>4, <2>5, <2>6, <3>2
    <3>3. CASE u = t /\ h.verdict.mode = "standard"
      BY <1>2, <2>7, <3>3 DEF VoteAllowed, VoteDue, Cast, Votes
    <3>. QED BY <2>4, <3>1, <3>2, <3>3
  <2>8. ASSUME NEW u \in Tasks, u = t, NEW v, v = h.verdict.vote PROVE VotedAs(u, v)'
    BY <2>4, <2>5, <2>6, <2>8 DEF VotedAs, Cast
  <2>9. Shapes'
    BY <1>2, <2>1, <2>3 DEF Shapes, Moves
  <2>10. ASSUME NEW z \in Slots PROVE InHand(handler[z])'
    <3>1. CASE z = s
      BY <2>2, <2>3, <2>8, <3>1 DEF InHand
    <3>2. CASE z # s
      BY <2>3, <2>6, <2>7, <3>2, VotesStay DEF InHand, Moves, VerifierInv
    <3>. QED BY <3>1, <3>2
  <2>11. ASSUME NEW u \in Tasks PROVE VoteStays(u)'
    <3>1. CASE u = t
      BY <1>2, <2>5, <3>1 DEF VoteStays
    <3>2. CASE u # t
      BY <1>2, <2>1, <3>2 DEF VoteStays, Cast, VerifierInv, Shapes
    <3>. QED BY <3>1, <3>2
  <2>12. ASSUME NEW u \in Tasks PROVE OnDisk(u)'
    BY <1>2, <2>6, <2>7, VotesStay DEF OnDisk, VerifierInv
  <2>. QED BY <2>9, <2>10, <2>11, <2>12 DEF VerifierInv
<1>. QED BY <1>1, <1>2 DEF MineVote

LEMMA SaveVoteKeeps == ASSUME VerifierInv, NEW s \in Slots, SaveVote(s) PROVE VerifierInv'
<1>. DEFINE h == handler[s]  t == h.t
            record == [status |-> "voted", vote |-> h.verdict.vote, completed |-> TRUE]
<1>1. /\ Shapes /\ Go(s, Leave(h)) /\ At(s, "voted")
      /\ UNCHANGED <<status, vote, compared, running>>
  BY DEF SaveVote, chain, VerifierInv
<1>2. running /\ IsHandler(h) /\ (t \in Tasks => VotedAs(t, h.verdict.vote))
  BY <1>1, HandlerAt DEF VerifierInv, InHand
<1>3. Moves(s) /\ handler'[s].pc \in {"idle", "loop"}
  BY <1>1, <1>2, HandlerPut, HandlerLeaves
<1>4. DOMAIN records' = Tasks /\ \A u \in Tasks : records'[u] \in {records[u], record}
      /\ (u # t => records'[u] = records[u])
  BY <1>1 DEF SaveVote, Shapes
<1>5. Shapes'
  BY <1>1, <1>3, <1>4 DEF Shapes, Moves
<1>6. ASSUME NEW z \in Slots PROVE InHand(handler[z])'
  BY <1>1, <1>3 DEF InHand, Moves, VerifierInv, VotedAs, Cast
<1>7. ASSUME NEW u \in Tasks PROVE VoteStays(u)'
  BY <1>1 DEF VoteStays, Cast, VerifierInv
<1>8. ASSUME NEW u \in Tasks PROVE OnDisk(u)'
  <2>1. Cast(u)' = Cast(u) /\ \A v : VotedAs(u, v)' = VotedAs(u, v)
    BY <1>1 DEF Cast, VotedAs
  <2>2. CASE records'[u] = records[u]
    BY <2>1, <2>2 DEF OnDisk, VerifierInv
  <2>3. CASE records'[u] = record /\ u = t
    BY <1>2, <2>1, <2>3 DEF OnDisk, VotedAs
  <2>. QED BY <1>4, <2>2, <2>3
<1>. QED BY <1>5, <1>6, <1>7, <1>8 DEF VerifierInv

\* The verifier is put on a panel only where it has not voted: a place is given away before
\* the verdict; and a settlement sets only a vote that is owed.
LEMMA ChainKeeps ==
    ASSUME VerifierInv,
           \/ \E t \in Tasks : Deliver(t) \/ AssignByVRF(t) \/ OtherRegisters(t) \/ Settle(t)
           \/ \E s \in Slots : MineRegistration(s)
           \/ PostTask
    PROVE  VerifierInv'
<1>1. Shapes /\ running' = running /\ UNCHANGED <<compared, records>>
  BY DEF Deliver, AssignByVRF, OtherRegisters, Settle, MineRegistration, PostTask, memory,
     VerifierInv
<1>2. /\ DOMAIN status' = Tasks /\ DOMAIN vote' = Tasks
      /\ \A u \in Tasks : Cast(u) => vote'[u] = vote[u]
      /\ \A u \in Tasks : Cast(u)' => status'[u] \in {"Verifying", "Settled"}
  <2>1. ASSUME NEW t \in Tasks, Deliver(t) \/ AssignByVRF(t) \/ OtherRegisters(t) PROVE <1>2
    BY <1>1, <2>1 DEF Deliver, AssignByVRF, OtherRegisters, Shapes, Cast, Votes, VoteStays,
       VerifierInv
  <2>2. ASSUME NEW t \in Tasks, Settle(t) PROVE <1>2
    <3>1. PICK v : /\ v = vote[t] \/ (vote[t] = "Pending" /\ v = "reject")
                   /\ vote' = [vote EXCEPT ![t] = v]
      BY <2>2 DEF Settle
    <3>2. status' = [status EXCEPT ![t] = "Settled"]
      BY <2>2 DEF Settle
    <3>. QED BY <1>1, <3>1, <3>2 DEF Shapes, Cast, Votes, VoteStays, VerifierInv
  <2>3. ASSUME NEW s \in Slots, MineRegistration(s) PROVE <1>2
    BY <1>1, <2>3 DEF MineRegistration, RegisterAllowed, Shapes, Cast, Votes, VoteStays, VerifierInv
  <2>4. CASE PostTask
    BY <1>1, <2>4 DEF PostTask, Shapes, Cast, VoteStays, VerifierInv
  <2>. QED BY <2>1, <2>2, <2>3, <2>4
<1>3. /\ DOMAIN handler' = Slots
      /\ \A z \in Slots : handler'[z] \in {handler[z], Idle}
  BY <1>1 DEF Deliver, AssignByVRF, OtherRegisters, Settle, MineRegistration, PostTask, Go, memory,
     Shapes
<1>4. \A u \in Tasks : (Cast(u) => Cast(u)') /\ \A v : VotedAs(u, v) => VotedAs(u, v)'
  BY <1>1, <1>2, VotesStay
<1>5. Shapes'
  BY <1>1, <1>2, <1>3 DEF Shapes
<1>6. ASSUME NEW z \in Slots PROVE InHand(handler[z])'
  BY <1>3, <1>4 DEF InHand, VerifierInv, Idle
<1>7. ASSUME NEW u \in Tasks PROVE VoteStays(u)' /\ OnDisk(u)'
  BY <1>1, <1>2, <1>4 DEF VoteStays, OnDisk, VerifierInv
<1>. QED BY <1>5, <1>6, <1>7 DEF VerifierInv

LEMMA HaltKeeps == ASSUME VerifierInv, Crash \/ Stop PROVE VerifierInv'
<1>1. /\ Shapes /\ UNCHANGED <<status, vote, compared>>
      /\ handler' = [s \in Slots |-> Idle]
  BY DEF Crash, Stop, Halt, chain, VerifierInv
<1>2. /\ DOMAIN records' = Tasks
      /\ \A t \in Tasks : records'[t] = records[t] \/ records'[t] = NoRecord
  BY <1>1 DEF Crash, Stop, Shapes
<1>3. Shapes'
  BY <1>1, <1>2 DEF Shapes, NoRecord
<1>4. ASSUME NEW z \in Slots PROVE InHand(handler[z])'
  BY <1>1 DEF InHand, Idle
<1>5. ASSUME NEW u \in Tasks PROVE VoteStays(u)' /\ OnDisk(u)'
  BY <1>1, <1>2 DEF VoteStays, OnDisk, VerifierInv, NoRecord, Cast, VotedAs
<1>. QED BY <1>3, <1>4, <1>5 DEF VerifierInv

LEMMA VerifierStep == ASSUME VerifierInv, [Next]_vars PROVE VerifierInv'
<1>1. ASSUME NEW s \in Slots,
             Step(s) \/ Hear(s) \/ Poll(s) \/ Start(s) \/ NetworkError(s)
      PROVE  VerifierInv'
  BY <1>1, QuietKeeps, LoopsQuiet, PipelineQuiet, MineVoteKeeps, SaveVoteKeeps, ChainKeeps DEF Step
<1>2. CASE Chain
  BY <1>2, ChainKeeps DEF Chain
<1>3. CASE Crash \/ Stop
  BY <1>3, HaltKeeps
<1>4. CASE UNCHANGED vars
  BY <1>4 DEF vars, chain, memory, bounds, VerifierInv, Shapes, InHand, VoteStays, OnDisk, Cast, VotedAs
<1>. QED BY <1>1, <1>2, <1>3, <1>4 DEF Next

\* A vote in the file is the one the contract holds, unless a comparison was sent for the
\* task, which the contract judges by its own rule: for any tasks and any number of pipelines
\* at a time, wherever the process dies, votes owed are timed out or panels are not full.
THEOREM RecordedVotesCast == Spec => []RecordedVoteCast
<1>1. VerifierInv => RecordedVoteCast
  BY DEF VerifierInv, OnDisk, VotedAs, Cast, RecordedVoteCast
<1>. QED BY <1>1, VerifierStart, VerifierStep, PTL DEF Spec

-----------------------------------------------------------------------------
(* Folds: a set of numbers has its ends, and what the library defines by   *)
(* recursion over the sets is defined.                                     *)

LEMMA Ends ==
    ASSUME NEW S, IsFiniteSet(S), S \subseteq Int, S # {}
    PROVE  /\ \E least \in S : \A x \in S : least <= x
           /\ \E greatest \in S : \A x \in S : greatest >= x
<1>. DEFINE Good == {T \in SUBSET S :
                T # {} => /\ \E least \in T : \A x \in T : least <= x
                          /\ \E greatest \in T : \A x \in T : greatest >= x}
<1>1. ASSUME NEW T \in SUBSET S, \A x \in T : T \ {x} \in Good
      PROVE  T \in Good
  <2>1. SUFFICES ASSUME NEW y \in T
                 PROVE  /\ \E least \in T : \A x \in T : least <= x
                        /\ \E greatest \in T : \A x \in T : greatest >= x
    OBVIOUS
  <2>2. CASE T \ {y} = {}
    BY <2>2
  <2>3. CASE T \ {y} # {}
    <3>1. PICK least \in T \ {y} : \A x \in T \ {y} : least <= x
      BY <1>1, <2>3
    <3>2. PICK greatest \in T \ {y} : \A x \in T \ {y} : greatest >= x
      BY <1>1, <2>3
    <3>3. y \in Int /\ least \in Int /\ greatest \in Int
      OBVIOUS
    <3>4. \E l \in T : \A x \in T : l <= x
      <4>1. CASE least <= y
        BY <3>1, <4>1
      <4>2. CASE ~(least <= y)
        BY <3>1, <3>3, <4>2
      <4>. QED BY <4>1, <4>2
    <3>5. \E g \in T : \A x \in T : g >= x
      <4>1. CASE greatest >= y
        BY <3>2, <4>1
      <4>2. CASE ~(greatest >= y)
        BY <3>2, <3>3, <4>2
      <4>. QED BY <4>1, <4>2
    <3>. QED BY <3>4, <3>5
  <2>. QED BY <2>2, <2>3
<1>2. SUBSET S \subseteq Good
  <2>. HIDE DEF Good
  <2>. QED BY <1>1, SubsetInduction
<1>. QED BY <1>2

\* h folds step over the subsets of S, the element that pick names last.
Folds(S, pick, step, base, h) ==
    \A T \in SUBSET S : h[T] = IF T = {} THEN base ELSE step[<<pick[T], h[T \ {pick[T]}]>>]

LEMMA FoldsAgree ==
    ASSUME NEW S, NEW T, NEW U, U \subseteq S, U \subseteq T, IsFiniteSet(U),
           NEW pick, \A W \in SUBSET S : W # {} => pick[W] \in W,
           NEW step, NEW base, NEW g, NEW h,
           Folds(S, pick, step, base, g), Folds(T, pick, step, base, h)
    PROVE  g[U] = h[U]
<1>. DEFINE Good == {W \in SUBSET U : g[W] = h[W]}
<1>1. ASSUME NEW W \in SUBSET U, \A x \in W : W \ {x} \in Good
      PROVE  W \in Good
  <2>1. W \in SUBSET S /\ W \in SUBSET T
    OBVIOUS
  <2>2. CASE W = {}
    BY <2>1, <2>2 DEF Folds
  <2>3. CASE W # {}
    <3>1. g[W \ {pick[W]}] = h[W \ {pick[W]}]
      BY <1>1, <2>1, <2>3
    <3>. QED BY <2>1, <2>3, <3>1 DEF Folds
  <2>. QED BY <2>2, <2>3
<1>2. SUBSET U \subseteq Good
  <2>. HIDE DEF Good
  <2>. QED BY <1>1, SubsetInduction
<1>. QED BY <1>2

LEMMA FoldExists ==
    ASSUME NEW S, IsFiniteSet(S), NEW pick, \A T \in SUBSET S : T # {} => pick[T] \in T,
           NEW Values, NEW base \in Values, NEW step \in [S \X Values -> Values]
    PROVE  \E h \in [SUBSET S -> Values] : Folds(S, pick, step, base, h)
<1>. DEFINE Fold(T, h) == h \in [SUBSET T -> Values] /\ Folds(T, pick, step, base, h)
            Of(T) == CHOOSE h : Fold(T, h)
            Good == {T \in SUBSET S : \E h : Fold(T, h)}
<1>1. ASSUME NEW T \in SUBSET S, \A x \in T : T \ {x} \in Good
      PROVE  T \in Good
  <2>. DEFINE value(U) == Of(U)[U]
              h == [U \in SUBSET T |->
                      IF U = {} THEN base ELSE step[<<pick[U], value(U \ {pick[U]})>>]]
  <2>1. ASSUME NEW U \in SUBSET T, U # T PROVE Fold(U, Of(U))
    <3>1. SUFFICES \E g : Fold(U, g)
      OBVIOUS
    <3>2. PICK x \in T : x \notin U
      BY <2>1
    <3>3. PICK g : Fold(T \ {x}, g)
      BY <1>1
    <3>. DEFINE k == [W \in SUBSET U |-> g[W]]
    <3>4. SUBSET U \subseteq SUBSET (T \ {x}) /\ U \subseteq S
      BY <3>2
    <3>5. k \in [SUBSET U -> Values]
      BY <3>3, <3>4
    <3>6. ASSUME NEW W \in SUBSET U
          PROVE  k[W] = IF W = {} THEN base ELSE step[<<pick[W], k[W \ {pick[W]}]>>]
      <4>1. g[W] = IF W = {} THEN base ELSE step[<<pick[W], g[W \ {pick[W]}]>>]
        BY <3>3, <3>4 DEF Folds
      <4>2. k[W] = g[W] /\ k[W \ {pick[W]}] = g[W \ {pick[W]}]
        OBVIOUS
      <4>. HIDE DEF k
      <4>. QED BY <4>1, <4>2
    <3>. HIDE DEF k
    <3>. QED BY <3>5, <3>6 DEF Folds
  <2>2. ASSUME NEW U \in SUBSET T, U # T PROVE value(U) = h[U] /\ h[U] \in Values
    <3>1. Fold(U, Of(U))
      BY <2>1, <2>2
    <3>2. value(U) \in Values
      <4>. HIDE DEF Of
      <4>. QED BY <3>1
    <3>3. value(U) = IF U = {} THEN base ELSE step[<<pick[U], Of(U)[U \ {pick[U]}]>>]
      <4>. HIDE DEF Of
      <4>. QED BY <3>1 DEF Folds
    <3>4. CASE U = {}
      <4>. HIDE DEF value
      <4>. QED BY <3>2, <3>3, <3>4
    <3>5. CASE U # {}
      <4>. DEFINE R == U \ {pick[U]}
      <4>1. R \in SUBSET T /\ R # T /\ R \subseteq U /\ IsFiniteSet(R) /\ U \subseteq S
        BY <2>2, <3>5, FS_Subset
      <4>2. Fold(R, Of(R))
        <5>. HIDE DEF Of, R
        <5>. QED BY <4>1, <2>1
      <4>3. Of(U)[R] = value(R)
        <5>1. \A W \in SUBSET U : W # {} => pick[W] \in W
          BY <4>1
        <5>. HIDE DEF Of, R
        <5>. QED BY <3>1, <4>1, <4>2, <5>1, FoldsAgree
      <4>4. h[U] = step[<<pick[U], value(R)>>]
        <5>. HIDE DEF value
        <5>. QED BY <3>5
      <4>. HIDE DEF value, h, Of, R
      <4>. QED BY <3>2, <3>3, <3>5, <4>3, <4>4 DEF R
    <3>. QED BY <3>4, <3>5
  <2>3. ASSUME NEW U \in SUBSET T
        PROVE  /\ h[U] = IF U = {} THEN base ELSE step[<<pick[U], h[U \ {pick[U]}]>>]
               /\ h[U] \in Values
    <3>1. CASE U = {}
      BY <3>1
    <3>2. CASE U # {}
      <4>. DEFINE R == U \ {pick[U]}
      <4>1. R \in SUBSET T /\ R # T /\ pick[U] \in S
        BY <3>2
      <4>2. value(R) = h[R] /\ h[R] \in Values
        <5>. HIDE DEF value, h, R
        <5>. QED BY <4>1, <2>2
      <4>3. h[U] = step[<<pick[U], value(R)>>]
        <5>. HIDE DEF value
        <5>. QED BY <3>2
      <4>. HIDE DEF value, h
      <4>. QED BY <3>2, <4>1, <4>2, <4>3
    <3>. QED BY <3>1, <3>2
  <2>4. h \in [SUBSET T -> Values]
    <3>1. h = [U \in SUBSET T |-> h[U]]
      <4>. HIDE DEF value
      <4>. QED OBVIOUS
    <3>. HIDE DEF h
    <3>. QED BY <2>3, <3>1
  <2>5. Folds(T, pick, step, base, h)
    <3>. HIDE DEF h
    <3>. QED BY <2>3 DEF Folds
  <2>. HIDE DEF h
  <2>. QED BY <2>4, <2>5
<1>2. SUBSET S \subseteq Good
  <2>. HIDE DEF Good
  <2>. QED BY <1>1, SubsetInduction
<1>. QED BY <1>2

-----------------------------------------------------------------------------
(* Merging: sorting is an enumeration of the first places by rank.         *)

LEMMA PlacesFinite ==
    ASSUME NEW S, NEW s \in Seq(S), NEW T, T \subseteq DOMAIN s
    PROVE  IsFiniteSet(T) /\ T \subseteq Int /\ Cardinality(T) \in Nat
<1>1. DOMAIN s = 1 .. Len(s) /\ Len(s) \in Nat /\ 1 \in Int /\ Len(s) \in Int
  OBVIOUS
<1>2. IsFiniteSet(DOMAIN s)
  BY <1>1, FS_Interval
<1>3. IsFiniteSet(T)
  BY <1>2, FS_Subset
<1>. QED BY <1>1, <1>3, FS_CardinalityType

LEMMA PrecedesOrders ==
    ASSUME NEW found \in Seq(Findings), NEW i \in DOMAIN found, NEW j \in DOMAIN found,
           NEW k \in DOMAIN found
    PROVE  /\ ~Precedes(found, i, i)
           /\ Precedes(found, i, j) /\ Precedes(found, j, k) => Precedes(found, i, k)
           /\ i = j \/ Precedes(found, i, j) \/ Precedes(found, j, i)
<1>. DEFINE rank(x) == order[found[x].severity]
<1>1. /\ rank(i) \in Nat /\ rank(j) \in Nat /\ rank(k) \in Nat
      /\ i \in Nat /\ j \in Nat /\ k \in Nat
  BY SeverityAssumption DEF order
<1>2. \A x, y \in DOMAIN found :
          Precedes(found, x, y) <=> rank(x) < rank(y) \/ (rank(x) = rank(y) /\ x < y)
  BY DEF Precedes
<1>. HIDE DEF rank
<1>. QED BY <1>1, <1>2

\* Place p[k] is the one with k - 1 before it.
LEMMA SortEnumerates ==
    ASSUME NEW found \in Seq(Findings)
    PROVE  \E p \in [1 .. Cardinality(Firsts(found)) -> Firsts(found)] :
              /\ Cardinality(Firsts(found)) \in Nat
              /\ Sorted(found) = [k \in 1 .. Cardinality(Firsts(found)) |-> found[p[k]]]
              /\ \A k, l \in DOMAIN p : p[k] = p[l] => k = l
              /\ \A i \in Firsts(found) : \E k \in DOMAIN p : p[k] = i
<1>. DEFINE S == Firsts(found)
            n == Cardinality(S)
            r == [i \in S |-> Cardinality(Before(found, i)) + 1]
            p == [k \in 1 .. n |-> CHOOSE i \in S : Cardinality(Before(found, i)) = k - 1]
<1>1. S \subseteq DOMAIN found /\ IsFiniteSet(S) /\ n \in Nat
  <2>1. S \subseteq DOMAIN found
    BY DEF Firsts
  <2>. HIDE DEF S
  <2>. QED BY <2>1, PlacesFinite
<1>2. ASSUME NEW i \in S
      PROVE  /\ Before(found, i) \subseteq S \ {i} /\ IsFiniteSet(Before(found, i))
             /\ Cardinality(Before(found, i)) \in Nat /\ Cardinality(Before(found, i)) <= n - 1
  <2>1. Before(found, i) \subseteq S \ {i}
    BY <1>1, PrecedesOrders DEF Before
  <2>2. IsFiniteSet(S \ {i}) /\ Cardinality(S \ {i}) = n - 1
    <3>. HIDE DEF S
    <3>. QED BY <1>1, FS_RemoveElement
  <2>. HIDE DEF S, n
  <2>. QED BY <1>1, <2>1, <2>2, FS_Subset, FS_CardinalityType
<1>3. ASSUME NEW i \in S, NEW j \in S, Precedes(found, i, j)
      PROVE  r[i] < r[j]
  <2>1. Before(found, i) \cup {i} \subseteq Before(found, j) /\ i \notin Before(found, i)
    BY <1>1, <1>2, <1>3, PrecedesOrders DEF Before
  <2>2. Cardinality(Before(found, i) \cup {i}) = Cardinality(Before(found, i)) + 1
    BY <1>2, <2>1, FS_AddElement
  <2>3. Cardinality(Before(found, i) \cup {i}) <= Cardinality(Before(found, j))
    BY <1>2, <2>1, FS_Subset
  <2>4. Cardinality(Before(found, i)) \in Nat /\ Cardinality(Before(found, j)) \in Nat
    BY <1>2
  <2>5. r[i] = Cardinality(Before(found, i)) + 1 /\ r[j] = Cardinality(Before(found, j)) + 1
    OBVIOUS
  <2>. HIDE DEF r, S
  <2>. QED BY <2>2, <2>3, <2>4, <2>5
<1>4. r \in Injection(S, 1 .. n)
  <2>1. r \in [S -> 1 .. n]
    <3>1. \A i \in S : Cardinality(Before(found, i)) + 1 \in 1 .. n
      <4>. HIDE DEF S, n
      <4>. QED BY <1>1, <1>2
    <3>. HIDE DEF S, n
    <3>. QED BY <3>1
  <2>2. ASSUME NEW i \in S, NEW j \in S, r[i] = r[j] PROVE i = j
    <3>1. i \in DOMAIN found /\ j \in DOMAIN found /\ r[i] \in Int
      <4>. HIDE DEF r, S, n
      <4>. QED BY <1>1, <2>1
    <3>2. ~Precedes(found, i, j) /\ ~Precedes(found, j, i)
      <4>. HIDE DEF r, S, n
      <4>. QED BY <1>3, <2>2, <3>1
    <3>. HIDE DEF r, S, n
    <3>. QED BY <3>1, <3>2, PrecedesOrders
  <2>. HIDE DEF r, S, n
  <2>. QED BY <2>1, <2>2 DEF Injection, IsInjective
<1>5. \A k \in 1 .. n : \E i \in S : r[i] = k
  <2>1. IsFiniteSet(1 .. n) /\ Cardinality(1 .. n) = n
    <3>. HIDE DEF n
    <3>. QED BY <1>1, FS_Interval
  <2>2. n = Cardinality(S)
    OBVIOUS
  <2>. HIDE DEF r, S, n
  <2>3. r \in Surjection(S, 1 .. n)
    BY <1>4, <2>1, <2>2, FS_Injection
  <2>. QED BY <2>3 DEF Surjection
<1>6. ASSUME NEW k \in 1 .. n PROVE p[k] \in S /\ r[p[k]] = k
  <2>1. PICK i \in S : r[i] = k
    <3>. HIDE DEF r, S, n
    <3>. QED BY <1>5
  <2>2. Cardinality(Before(found, i)) = k - 1
    <3>1. r[i] = Cardinality(Before(found, i)) + 1 /\ Cardinality(Before(found, i)) \in Nat
      BY <1>2
    <3>. HIDE DEF r, S, n
    <3>. QED BY <2>1, <3>1
  <2>3. p[k] = CHOOSE x \in S : Cardinality(Before(found, x)) = k - 1
    <3>. HIDE DEF S, n
    <3>. QED OBVIOUS
  <2>4. p[k] \in S /\ Cardinality(Before(found, p[k])) = k - 1
    <3>. HIDE DEF p, S, n, r
    <3>. QED BY <2>2, <2>3
  <2>5. r[p[k]] = (k - 1) + 1
    <3>. HIDE DEF p, S, n
    <3>. QED BY <2>4
  <2>. HIDE DEF p, r, S, n
  <2>. QED BY <1>1, <2>4, <2>5
<1>7. p \in [1 .. n -> S]
  <2>1. p = [k \in 1 .. n |-> p[k]]
    <3>. HIDE DEF S, n
    <3>. QED OBVIOUS
  <2>. HIDE DEF p, S, n, r
  <2>. QED BY <1>6, <2>1
<1>8. Sorted(found) = [k \in 1 .. n |-> found[p[k]]]
  BY DEF Sorted
<1>9. \A i \in S : r[i] \in 1 .. n /\ p[r[i]] = i
  <2>. HIDE DEF p, r, S, n
  <2>. QED BY <1>4, <1>6, <1>7 DEF Injection, IsInjective
<1>10. /\ \A k, l \in DOMAIN p : p[k] = p[l] => k = l
       /\ \A i \in S : \E k \in DOMAIN p : p[k] = i
  <2>. HIDE DEF p, r, S, n
  <2>. QED BY <1>6, <1>7, <1>9
<1>. HIDE DEF p, r
<1>. QED BY <1>1, <1>7, <1>8, <1>10

\* Every type and location that was found has one first place.
LEMMA FirstOfItsKind ==
    ASSUME NEW found \in Seq(Findings), NEW i \in DOMAIN found
    PROVE  \E f \in Firsts(found) :
              /\ SameKey(found[f], found[i])
              /\ \A g \in Firsts(found) : SameKey(found[g], found[i]) => g = f
<1>. DEFINE Same == {j \in DOMAIN found : SameKey(found[j], found[i])}
<1>1. i \in Same /\ Same \subseteq DOMAIN found
  BY DEF SameKey
<1>2. IsFiniteSet(Same) /\ Same \subseteq Int
  <2>. HIDE DEF Same
  <2>. QED BY <1>1, PlacesFinite
<1>3. PICK f \in Same : \A x \in Same : f <= x
  <2>. HIDE DEF Same
  <2>. QED BY <1>1, <1>2, Ends
<1>4. f \in DOMAIN found /\ SameKey(found[f], found[i]) /\ f \in 1 .. Len(found)
  BY <1>1
<1>5. f \in Firsts(found)
  <2>1. ASSUME NEW j \in 1 .. (f - 1), SameKey(found[j], found[f]) PROVE FALSE
    <3>1. j \in DOMAIN found /\ SameKey(found[j], found[i]) /\ j < f
      BY <1>4, <2>1 DEF SameKey
    <3>. QED BY <1>3, <1>4, <3>1
  <2>. QED BY <1>4, <2>1 DEF Firsts
<1>6. ASSUME NEW g \in Firsts(found), SameKey(found[g], found[i]) PROVE g = f
  <2>1. g \in DOMAIN found /\ g \in Nat /\ f \in Nat
    BY <1>4 DEF Firsts
  <2>2. SameKey(found[f], found[g]) /\ SameKey(found[g], found[f])
    BY <1>4, <1>6 DEF SameKey
  <2>3. ~(f < g)
    <3>1. f < g => f \in 1 .. (g - 1)
      BY <1>4, <2>1
    <3>. QED BY <2>2, <3>1 DEF Firsts
  <2>4. ~(g < f)
    <3>1. g < f => g \in 1 .. (f - 1)
      BY <2>1
    <3>. QED BY <1>5, <2>2, <3>1 DEF Firsts
  <2>. QED BY <2>1, <2>3, <2>4
<1>. QED BY <1>4, <1>5, <1>6

\* So every finding is in the sorted list once, and nothing else is.
LEMMA SortedOnce ==
    ASSUME NEW found \in Seq(Findings)
    PROVE  /\ Sorted(found) \in Seq(Findings)
           /\ \A i \in DOMAIN found : \E k \in DOMAIN Sorted(found) :
                 /\ SameKey(Sorted(found)[k], found[i])
                 /\ \A o \in DOMAIN Sorted(found) :
                       SameKey(Sorted(found)[o], found[i]) => o = k
<1>1. PICK p \in [1 .. Cardinality(Firsts(found)) -> Firsts(found)] :
          /\ Cardinality(Firsts(found)) \in Nat
          /\ Sorted(found) = [k \in 1 .. Cardinality(Firsts(found)) |-> found[p[k]]]
          /\ \A k, l \in DOMAIN p : p[k] = p[l] => k = l
          /\ \A i \in Firsts(found) : \E k \in DOMAIN p : p[k] = i
  BY SortEnumerates
<1>2. PICK n \in Nat : n = Cardinality(Firsts(found))
  BY <1>1
<1>3. /\ DOMAIN Sorted(found) = 1 .. n /\ DOMAIN p = 1 .. n
      /\ \A k \in 1 .. n : Sorted(found)[k] = found[p[k]] /\ p[k] \in Firsts(found)
  BY <1>1, <1>2
<1>4. Sorted(found) \in Seq(Findings)
  <2>1. \A k \in 1 .. n : found[p[k]] \in Findings
    BY <1>3 DEF Firsts
  <2>. QED BY <1>1, <1>2, <2>1
<1>5. ASSUME NEW i \in DOMAIN found
      PROVE  \E k \in DOMAIN Sorted(found) :
                /\ SameKey(Sorted(found)[k], found[i])
                /\ \A o \in DOMAIN Sorted(found) : SameKey(Sorted(found)[o], found[i]) => o = k
  <2>1. PICK f \in Firsts(found) :
              /\ SameKey(found[f], found[i])
              /\ \A g \in Firsts(found) : SameKey(found[g], found[i]) => g = f
    BY FirstOfItsKind
  <2>2. PICK k \in 1 .. n : p[k] = f
    BY <1>1, <1>3, <2>1
  <2>. QED BY <1>1, <1>3, <2>1, <2>2
<1>. QED BY <1>4, <1>5

-----------------------------------------------------------------------------
(* Matching: greedy, and nothing left over on both sides fits.             *)

\* The step of the fold: the verifier's finding vi takes its first fit.
Fits(agent, verifier, pairs, vi) ==
    {ai \in DOMAIN agent : /\ keysMatch(verifier[vi], agent[ai])
                           /\ \A p \in pairs : p[2] # ai}
FirstFit(agent, verifier, pairs, vi) ==
    LET fits == Fits(agent, verifier, pairs, vi)
    IN  IF fits = {} THEN pairs
        ELSE pairs \cup {<<vi, CHOOSE ai \in fits : \A o \in fits : ai <= o>>}

\* What the pairs are once the verifier's findings at places T have taken theirs.
Greedy(agent, verifier, T, pairs) ==
    /\ pairs \subseteq T \X DOMAIN agent
    /\ \A p, q \in pairs : p[1] = q[1] <=> p[2] = q[2]
    /\ \A vi \in T, ai \in DOMAIN agent :
          (\A p \in pairs : p[1] # vi /\ p[2] # ai) => ~keysMatch(verifier[vi], agent[ai])

LEMMA FirstFitKeeps ==
    ASSUME NEW S, NEW agent \in Seq(S), NEW verifier, NEW T, NEW vi \in T, NEW pairs,
           Greedy(agent, verifier, T \ {vi}, pairs)
    PROVE  Greedy(agent, verifier, T, FirstFit(agent, verifier, pairs, vi))
<1>. DEFINE fits == Fits(agent, verifier, pairs, vi)
<1>1. CASE fits = {}
  <2>1. FirstFit(agent, verifier, pairs, vi) = pairs
    BY <1>1 DEF FirstFit
  <2>2. \A ai \in DOMAIN agent : (\A p \in pairs : p[2] # ai) => ~keysMatch(verifier[vi], agent[ai])
    BY <1>1 DEF Fits
  <2>. QED BY <2>1, <2>2 DEF Greedy
<1>2. CASE fits # {}
  <2>1. fits \subseteq DOMAIN agent
    BY DEF Fits
  <2>2. IsFiniteSet(fits) /\ fits \subseteq Int
    <3>. HIDE DEF fits
    <3>. QED BY <2>1, PlacesFinite
  <2>3. \E a \in fits : \A o \in fits : a <= o
    <3>. HIDE DEF fits
    <3>. QED BY <1>2, <2>2, Ends
  <2>4. PICK ai \in fits : FirstFit(agent, verifier, pairs, vi) = pairs \cup {<<vi, ai>>}
    <3>1. FirstFit(agent, verifier, pairs, vi)
            = pairs \cup {<<vi, CHOOSE a \in fits : \A o \in fits : a <= o>>}
      BY <1>2 DEF FirstFit
    <3>2. (CHOOSE a \in fits : \A o \in fits : a <= o) \in fits
      <4>. HIDE DEF fits
      <4>. QED BY <2>3
    <3>. HIDE DEF fits
    <3>. QED BY <3>1, <3>2
  <2>5. ai \in DOMAIN agent /\ \A p \in pairs : p[2] # ai
    BY DEF Fits
  <2>6. \A p \in pairs : p[1] # vi
    BY DEF Greedy
  <2>7. pairs \cup {<<vi, ai>>} \subseteq T \X DOMAIN agent
    BY <2>5 DEF Greedy
  <2>8. \A p, q \in pairs \cup {<<vi, ai>>} : p[1] = q[1] <=> p[2] = q[2]
    BY <2>5, <2>6 DEF Greedy
  <2>9. ASSUME NEW v \in T, NEW a \in DOMAIN agent,
               \A p \in pairs \cup {<<vi, ai>>} : p[1] # v /\ p[2] # a
        PROVE  ~keysMatch(verifier[v], agent[a])
    <3>1. v # vi
      <4>1. <<vi, ai>> \in pairs \cup {<<vi, ai>>} /\ <<vi, ai>>[1] = vi
        OBVIOUS
      <4>. QED BY <2>9, <4>1
    <3>. QED BY <2>9, <3>1 DEF Greedy
  <2>. HIDE DEF fits
  <2>. QED BY <2>4, <2>7, <2>8, <2>9 DEF Greedy
<1>. QED BY <1>1, <1>2

\* The library's fold takes the places one by one.
LEMMA LastOfPlaces ==
    ASSUME NEW S, NEW s \in Seq(S), NEW T \in SUBSET (DOMAIN s), T # {}
    PROVE  Max(T) \in T
<1>1. \E greatest \in T : \A x \in T : greatest >= x
  BY PlacesFinite, Ends
<1>. QED BY <1>1 DEF Max

Matches(agent, verifier, g) ==
    g = [T \in SUBSET (DOMAIN verifier) |->
           IF T = {} THEN {}
           ELSE FirstFit(agent, verifier, g[T \ {Max(T)}], [i \in DOMAIN verifier |-> i][Max(T)])]

LEMMA MatchingUnfolds ==
    ASSUME NEW agent, NEW verifier
    PROVE  Matching(agent, verifier) = (CHOOSE g : Matches(agent, verifier, g))[DOMAIN verifier]
BY DEF Matching, FoldLeftDomain, FoldLeft, MapThenFoldSet, Matches, FirstFit, Fits

LEMMA MatchesExist ==
    ASSUME NEW S, NEW agent \in Seq(S), NEW R, NEW verifier \in Seq(R)
    PROVE  \E g : Matches(agent, verifier, g)
<1>. DEFINE D == DOMAIN verifier
            Values == SUBSET (D \X DOMAIN agent)
            pick == [T \in SUBSET D |-> Max(T)]
            step == [c \in D \X Values |-> FirstFit(agent, verifier, c[2], c[1])]
<1>1. IsFiniteSet(D)
  BY PlacesFinite
<1>2. \A T \in SUBSET D : T # {} => pick[T] \in T
  BY LastOfPlaces
<1>3. step \in [D \X Values -> Values]
  <2>1. ASSUME NEW v \in D, NEW pairs \in Values
        PROVE  FirstFit(agent, verifier, pairs, v) \in Values
    <3>. DEFINE fits == Fits(agent, verifier, pairs, v)
    <3>1. fits \subseteq DOMAIN agent
      BY DEF Fits
    <3>2. IsFiniteSet(fits) /\ fits \subseteq Int
      <4>. HIDE DEF fits
      <4>. QED BY <3>1, PlacesFinite
    <3>3. fits # {} => (CHOOSE a \in fits : \A o \in fits : a <= o) \in fits
      <4>. HIDE DEF fits
      <4>. QED BY <3>2, Ends
    <3>4. FirstFit(agent, verifier, pairs, v)
            = IF fits = {} THEN pairs
              ELSE pairs \cup {<<v, CHOOSE a \in fits : \A o \in fits : a <= o>>}
      BY DEF FirstFit
    <3>5. CASE fits = {}
      <4>. HIDE DEF fits
      <4>. QED BY <3>4, <3>5
    <3>6. CASE fits # {}
      <4>1. PICK a \in DOMAIN agent : FirstFit(agent, verifier, pairs, v) = pairs \cup {<<v, a>>}
        <5>. HIDE DEF fits
        <5>. QED BY <3>1, <3>3, <3>4, <3>6
      <4>. QED BY <4>1
    <3>. QED BY <3>5, <3>6
  <2>. HIDE DEF D, Values
  <2>. QED BY <2>1
<1>4. {} \in Values
  OBVIOUS
<1>5. PICK h \in [SUBSET D -> Values] : Folds(D, pick, step, {}, h)
  <2>. HIDE DEF D, Values, pick, step
  <2>. QED BY <1>1, <1>2, <1>3, <1>4, FoldExists
<1>6. ASSUME NEW T \in SUBSET D
      PROVE  h[T] = IF T = {} THEN {}
                    ELSE FirstFit(agent, verifier, h[T \ {Max(T)}], [i \in D |-> i][Max(T)])
  <2>1. h[T] = IF T = {} THEN {} ELSE step[<<pick[T], h[T \ {pick[T]}]>>]
    <3>. HIDE DEF D, Values, pick, step
    <3>. QED BY <1>5 DEF Folds
  <2>2. CASE T # {}
    <3>1. pick[T] = Max(T) /\ Max(T) \in D /\ [i \in D |-> i][Max(T)] = Max(T)
      BY <1>2, <2>2
    <3>2. h[T \ {Max(T)}] \in Values
      <4>. HIDE DEF D, Values, pick, step
      <4>. QED BY <1>5
    <3>3. step[<<Max(T), h[T \ {Max(T)}]>>] = FirstFit(agent, verifier, h[T \ {Max(T)}], Max(T))
      <4>. HIDE DEF D, Values, pick
      <4>. QED BY <3>1, <3>2
    <3>. HIDE DEF D, Values, pick, step
    <3>. QED BY <2>1, <2>2, <3>1, <3>3
  <2>. QED BY <2>1, <2>2
<1>7. Matches(agent, verifier, h)
  <2>1. h = [T \in SUBSET D |-> h[T]]
    <3>. HIDE DEF D, Values
    <3>. QED BY <1>5
  <2>. QED BY <1>6, <2>1 DEF Matches
<1>. QED BY <1>7

\* The matching of two reports of any length.
LEMMA MatchingGreedy ==
    ASSUME NEW S, NEW agent \in Seq(S), NEW R, NEW verifier \in Seq(R)
    PROVE  Greedy(agent, verifier, DOMAIN verifier, Matching(agent, verifier))
<1>. DEFINE g == CHOOSE x : Matches(agent, verifier, x)
            D == DOMAIN verifier
            Good == {T \in SUBSET D : Greedy(agent, verifier, T, g[T])}
<1>1. Matches(agent, verifier, g)
  BY MatchesExist
<1>2. ASSUME NEW T \in SUBSET D, \A x \in T : T \ {x} \in Good
      PROVE  T \in Good
  <2>1. g[T] = IF T = {} THEN {}
               ELSE FirstFit(agent, verifier, g[T \ {Max(T)}], [i \in D |-> i][Max(T)])
    <3>. HIDE DEF g
    <3>. QED BY <1>1 DEF Matches
  <2>2. CASE T = {}
    <3>1. g[T] = {}
      BY <2>1, <2>2
    <3>. HIDE DEF g
    <3>. QED BY <2>2, <3>1 DEF Greedy
  <2>3. CASE T # {}
    <3>1. Max(T) \in T
      BY <2>3, LastOfPlaces
    <3>2. g[T] = FirstFit(agent, verifier, g[T \ {Max(T)}], Max(T))
      <4>. HIDE DEF g
      <4>. QED BY <2>1, <2>3, <3>1
    <3>3. Greedy(agent, verifier, T \ {Max(T)}, g[T \ {Max(T)}])
      BY <1>2, <3>1
    <3>. HIDE DEF g
    <3>. QED BY <3>1, <3>2, <3>3, FirstFitKeeps
  <2>. QED BY <2>2, <2>3
<1>3. SUBSET D \subseteq Good
  <2>1. IsFiniteSet(D)
    BY PlacesFinite
  <2>2. ASSUME NEW T \in SUBSET D, \A x \in T : T \ {x} \in Good PROVE T \in Good
    BY <1>2, <2>2
  <2>. HIDE DEF g, D, Good
  <2>. QED BY <2>1, <2>2, SubsetInduction
<1>4. Greedy(agent, verifier, D, g[D])
  BY <1>3
<1>. QED BY <1>4, MatchingUnfolds

-----------------------------------------------------------------------------
(* The score is a number                                                   *)

Weighs(verifier, places, g) ==
    g = [T \in SUBSET (DOMAIN verifier) |->
           IF T = {} THEN 0
           ELSE g[T \ {Max(T)}]
                  + (IF [i \in DOMAIN verifier |-> i][Max(T)] \in places
                     THEN SEVERITY_WEIGHT[verifier[[i \in DOMAIN verifier |-> i][Max(T)]].severity]
                     ELSE 0)]

LEMMA WeightUnfolds ==
    ASSUME NEW verifier, NEW places
    PROVE  Weight(verifier, places) = (CHOOSE g : Weighs(verifier, places, g))[DOMAIN verifier]
BY DEF Weight, FoldLeftDomain, FoldLeft, MapThenFoldSet, Weighs

LEMMA SeverityWeighs ==
    ASSUME NEW verifier \in Seq(Findings), NEW i \in DOMAIN verifier
    PROVE  /\ SEVERITY_WEIGHT[verifier[i].severity] \in Nat
           /\ SEVERITY_WEIGHT[verifier[i].severity] > 0
BY SeverityAssumption DEF SEVERITY_WEIGHT

LEMMA WeighsExist ==
    ASSUME NEW verifier \in Seq(Findings), NEW places
    PROVE  \E g : Weighs(verifier, places, g)
<1>. DEFINE D == DOMAIN verifier
            w(i) == IF i \in places THEN SEVERITY_WEIGHT[verifier[i].severity] ELSE 0
            pick == [T \in SUBSET D |-> Max(T)]
            step == [c \in D \X Nat |-> c[2] + w(c[1])]
<1>1. IsFiniteSet(D)
  BY PlacesFinite
<1>2. \A T \in SUBSET D : T # {} => pick[T] \in T
  BY LastOfPlaces
<1>3. step \in [D \X Nat -> Nat]
  <2>1. \A i \in D : w(i) \in Nat
    BY SeverityWeighs
  <2>. HIDE DEF D, w
  <2>. QED BY <2>1
<1>4. PICK h \in [SUBSET D -> Nat] : Folds(D, pick, step, 0, h)
  <2>. HIDE DEF D, pick, step
  <2>. QED BY <1>1, <1>2, <1>3, FoldExists
<1>5. ASSUME NEW T \in SUBSET D
      PROVE  h[T] = IF T = {} THEN 0
                    ELSE h[T \ {Max(T)}] + w([i \in D |-> i][Max(T)])
  <2>1. h[T] = IF T = {} THEN 0 ELSE step[<<pick[T], h[T \ {pick[T]}]>>]
    <3>. HIDE DEF D, pick, step
    <3>. QED BY <1>4 DEF Folds
  <2>2. CASE T # {}
    <3>1. pick[T] = Max(T) /\ Max(T) \in D /\ [i \in D |-> i][Max(T)] = Max(T)
      BY <1>2, <2>2
    <3>2. h[T \ {Max(T)}] \in Nat
      <4>. HIDE DEF D, pick, step
      <4>. QED BY <1>4
    <3>3. step[<<Max(T), h[T \ {Max(T)}]>>] = h[T \ {Max(T)}] + w(Max(T))
      <4>. HIDE DEF D, pick, w
      <4>. QED BY <3>1, <3>2
    <3>. HIDE DEF D, pick, step, w
    <3>. QED BY <2>1, <2>2, <3>1, <3>3
  <2>. QED BY <2>1, <2>2
<1>6. Weighs(verifier, places, h)
  <2>1. h = [T \in SUBSET D |-> h[T]]
    <3>. HIDE DEF D
    <3>. QED BY <1>4
  <2>. QED BY <1>5, <2>1 DEF Weighs
<1>. QED BY <1>6

LEMMA WeightType ==
    ASSUME NEW verifier \in Seq(Findings), NEW places
    PROVE  /\ Weight(verifier, places) \in Nat
           /\ DOMAIN verifier \subseteq places /\ DOMAIN verifier # {} =>
                  Weight(verifier, places) > 0
<1>. DEFINE g == CHOOSE x : Weighs(verifier, places, x)
            D == DOMAIN verifier
            Good == {T \in SUBSET D : /\ g[T] \in Nat
                                      /\ T \subseteq places /\ T # {} => g[T] > 0}
<1>1. Weighs(verifier, places, g)
  BY WeighsExist
<1>2. ASSUME NEW T \in SUBSET D, \A x \in T : T \ {x} \in Good
      PROVE  T \in Good
  <2>. DEFINE m == Max(T)
              w == IF m \in places THEN SEVERITY_WEIGHT[verifier[m].severity] ELSE 0
  <2>1. T = {} => g[T] = 0
    <3>. HIDE DEF g
    <3>. QED BY <1>1 DEF Weighs
  <2>2. CASE T = {}
    <3>. HIDE DEF g
    <3>. QED BY <2>1, <2>2
  <2>3. CASE T # {}
    <3>1. m \in T /\ m \in D
      BY <2>3, LastOfPlaces
    <3>2. g[T] = g[T \ {m}] + w
      <4>1. [i \in D |-> i][m] = m
        <5>. HIDE DEF m
        <5>. QED BY <3>1
      <4>. HIDE DEF g
      <4>. QED BY <1>1, <2>3, <4>1 DEF Weighs
    <3>3. g[T \ {m}] \in Nat
      <4>. HIDE DEF m, g
      <4>. QED BY <1>2, <3>1
    <3>4. w \in Nat /\ (m \in places => w > 0)
      <4>. HIDE DEF m
      <4>. QED BY <3>1, SeverityWeighs
    <3>5. T \subseteq places => m \in places
      <4>. HIDE DEF m
      <4>. QED BY <3>1
    <3>6. g[T] \in Nat /\ (T \subseteq places => g[T] > 0)
      <4>. HIDE DEF g, m, w
      <4>. QED BY <3>2, <3>3, <3>4, <3>5
    <3>. HIDE DEF g
    <3>. QED BY <3>6
  <2>. QED BY <2>2, <2>3
<1>3. SUBSET D \subseteq Good
  <2>1. IsFiniteSet(D)
    BY PlacesFinite
  <2>. HIDE DEF Good
  <2>. QED BY <1>2, <2>1, SubsetInduction
<1>4. D \in Good
  <2>. HIDE DEF Good
  <2>. QED BY <1>3
<1>. QED BY <1>4, WeightUnfolds

LEMMA RoundHalfUpType ==
    ASSUME NEW num \in Int, NEW den \in Nat, den > 0
    PROVE  RoundHalfUp(num, den) \in Int
<1>. DEFINE a == 2 * num + den
            b == 2 * den
<1>1. a \in Int /\ b \in Int /\ b > 0
  OBVIOUS
<1>2. RoundHalfUp(num, den) = a \div b
  BY DEF RoundHalfUp
<1>. HIDE DEF a, b
<1>. QED BY <1>1, <1>2

LEMMA ScoreType ==
    ASSUME NEW S, NEW agent \in Seq(S), NEW verifier \in Seq(Findings)
    PROVE  matchScore(agent, verifier) \in Int
<1>. DEFINE total   == Weight(verifier, DOMAIN verifier)
            covered == Weight(verifier, DOMAIN verifier \ Missed(agent, verifier))
            count   == IF agent = <<>> THEN 1 ELSE Len(agent)
            extra   == Cardinality(Extra(agent, verifier))
            num     == 100 * covered * count - 15 * extra * total
            den     == total * count
            points  == RoundHalfUp(num, den)
<1>1. CASE verifier = <<>>
  BY <1>1 DEF matchScore
<1>2. CASE verifier # <<>>
  <2>1. total \in Nat /\ total > 0 /\ covered \in Nat
    <3>1. DOMAIN verifier # {}
      <4>1. Len(verifier) \in Nat /\ DOMAIN verifier = 1 .. Len(verifier)
        OBVIOUS
      <4>2. Len(verifier) # 0
        BY <1>2
      <4>3. 1 \in DOMAIN verifier
        BY <4>1, <4>2
      <4>. QED BY <4>3
    <3>. QED BY <3>1, WeightType
  <2>2. count \in Nat /\ count > 0
    OBVIOUS
  <2>3. extra \in Nat
    <3>1. Extra(agent, verifier) \subseteq DOMAIN agent
      BY DEF Extra
    <3>. QED BY <3>1, PlacesFinite
  <2>. HIDE DEF total, covered, count, extra
  <2>4. num \in Int
    <3>1. covered * count \in Int /\ extra * total \in Int
      BY <2>1, <2>2, <2>3
    <3>2. 100 * covered * count \in Int /\ 15 * extra * total \in Int
      BY <2>1, <2>2, <2>3
    <3>. QED BY <3>2
  <2>5. den \in Nat /\ den > 0
    BY <2>1, <2>2
  <2>6. points \in Int
    <3>. HIDE DEF num, den
    <3>. QED BY <2>4, <2>5, RoundHalfUpType
  <2>7. matchScore(agent, verifier) = IF points > 0 THEN points ELSE 0
    BY <1>2 DEF matchScore, points, num, den, total, covered, count, extra
  <2>. HIDE DEF points
  <2>. QED BY <2>6, <2>7
<1>. QED BY <1>1, <1>2

-----------------------------------------------------------------------------
(* The two steps                                                           *)

ReportInv ==
    /\ claude \in Seq(Findings) /\ slither \in Seq(Findings) /\ mythril \in Seq(Findings)
    /\ report \in Seq(Reported) /\ settings \in Settings
    /\ verdict # Undecided =>
         /\ merged = mergeFindings(slither, mythril, claude)
         /\ verdict = [vote    |-> compareReports(report, merged, settings),
                       onchain |-> ComparisonVote(report, merged)]

LEMMA BoundedSeqSeq ==
    ASSUME NEW S, NEW n
    PROVE  BoundedSeq(S, n) \subseteq Seq(S)
<1>1. \A m \in 0 .. n : [1 .. m -> S] \subseteq Seq(S)
  OBVIOUS
<1>. QED BY <1>1 DEF BoundedSeq, SeqOf

LEMMA ReportInductive ==
    /\ ComparisonInit => ReportInv
    /\ ReportInv /\ [ComparisonNext]_comparisonVars => ReportInv'
<1>1. ComparisonInit => ReportInv
  BY BoundedSeqSeq DEF ComparisonInit, ReportInv
<1>2. ASSUME ReportInv, Merge PROVE ReportInv'
  BY <1>2 DEF ReportInv, Merge
<1>3. ASSUME ReportInv, Compare PROVE ReportInv'
  BY <1>3 DEF ReportInv, Compare
<1>4. ASSUME ReportInv, UNCHANGED comparisonVars PROVE ReportInv'
  BY <1>4 DEF ReportInv, comparisonVars
<1>. QED BY <1>1, <1>2, <1>3, <1>4 DEF ComparisonNext

LEMMA MergedType ==
    ASSUME ReportInv, verdict # Undecided
    PROVE  /\ merged = Sorted(claude \o slither \o mythril)
           /\ claude \o slither \o mythril \in Seq(Findings)
           /\ merged \in Seq(Findings)
<1>1. claude \o slither \o mythril \in Seq(Findings)
  BY DEF ReportInv
<1>2. merged = Sorted(claude \o slither \o mythril)
  BY DEF ReportInv, mergeFindings
<1>. QED BY <1>1, <1>2, SortedOnce

\* For reports of any length: what an analyzer found is in the merged list once, no finding
\* of the agent is counted for two of the verifier's, and none is missed that an extra one fits.
THEOREM AlwaysNothingOverlooked ==
    ComparisonInit /\ [][ComparisonNext]_comparisonVars => []NothingOverlooked
<1>1. ASSUME ReportInv PROVE NothingOverlooked
  <2>. SUFFICES ASSUME verdict # Undecided
                PROVE  /\ \A found \in {claude, slither, mythril} : \A i \in DOMAIN found :
                            \E k \in DOMAIN merged :
                               /\ SameKey(merged[k], found[i])
                               /\ \A o \in DOMAIN merged : SameKey(merged[o], found[i]) => o = k
                       /\ \A p, q \in Matching(report, merged) : p[1] = q[1] <=> p[2] = q[2]
                       /\ \A vi \in Missed(report, merged), ai \in Extra(report, merged) :
                            ~keysMatch(merged[vi], report[ai])
    BY DEF NothingOverlooked
  <2>. DEFINE all == claude \o slither \o mythril
  <2>1. all \in Seq(Findings) /\ merged = Sorted(all) /\ merged \in Seq(Findings)
    BY <1>1, MergedType
  <2>2. ASSUME NEW found \in {claude, slither, mythril}, NEW i \in DOMAIN found
        PROVE  \E k \in DOMAIN merged :
                  /\ SameKey(merged[k], found[i])
                  /\ \A o \in DOMAIN merged : SameKey(merged[o], found[i]) => o = k
    <3>1. \E j \in DOMAIN all : all[j] = found[i]
      <4>1. claude \in Seq(Findings) /\ slither \in Seq(Findings) /\ mythril \in Seq(Findings)
        BY <1>1 DEF ReportInv
      <4>2. CASE found = claude
        BY <4>1, <4>2
      <4>3. CASE found = slither
        <5>1. Len(claude) + i \in DOMAIN all /\ all[Len(claude) + i] = slither[i]
          BY <4>1, <4>3
        <5>. QED BY <4>3, <5>1
      <4>4. CASE found = mythril
        <5>1. /\ Len(claude) + Len(slither) + i \in DOMAIN all
              /\ all[Len(claude) + Len(slither) + i] = mythril[i]
          BY <4>1, <4>4
        <5>. QED BY <4>4, <5>1
      <4>. QED BY <4>2, <4>3, <4>4
    <3>. HIDE DEF all
    <3>. QED BY <2>1, <3>1, SortedOnce
  <2>3. Greedy(report, merged, DOMAIN merged, Matching(report, merged))
    <3>1. report \in Seq(Reported)
      BY <1>1 DEF ReportInv
    <3>. QED BY <2>1, <3>1, MatchingGreedy
  <2>4. ASSUME NEW vi \in Missed(report, merged), NEW ai \in Extra(report, merged)
        PROVE  ~keysMatch(merged[vi], report[ai])
    BY <2>3 DEF Greedy, Missed, Extra
  <2>5. \A p, q \in Matching(report, merged) : p[1] = q[1] <=> p[2] = q[2]
    BY <2>3 DEF Greedy
  <2>. QED BY <2>2, <2>4, <2>5
<1>. QED BY <1>1, ReportInductive, PTL

\* For any reports and any threshold up to the contract's: what the contract counts as an
\* approval the agent meant as one.
THEOREM AlwaysApprovedKnowingly ==
    ComparisonInit /\ [][ComparisonNext]_comparisonVars => []ApprovedKnowingly
<1>1. ASSUME ReportInv PROVE ApprovedKnowingly
  <2>. SUFFICES ASSUME settings.approvalThreshold <= CMP_APPROVE, verdict.onchain = "approve"
                PROVE  verdict.vote = "approve"
    BY DEF ApprovedKnowingly
  <2>1. verdict # Undecided
    BY DEF Undecided
  <2>2. /\ verdict.vote = compareReports(report, merged, settings)
        /\ ComparisonVote(report, merged) = "approve"
    BY <1>1, <2>1 DEF ReportInv
  <2>3. ~missedCritical(report, merged) /\ matchScore(report, merged) >= CMP_APPROVE
    BY <2>2 DEF ComparisonVote
  <2>4. matchScore(report, merged) \in Int /\ settings.approvalThreshold \in Int
    <3>1. merged \in Seq(Findings) /\ report \in Seq(Reported)
      BY <1>1, <2>1, MergedType DEF ReportInv
    <3>2. settings.approvalThreshold \in Int
      BY <1>1, SeverityAssumption DEF ReportInv, Settings
    <3>. QED BY <3>1, <3>2, ScoreType
  <2>5. matchScore(report, merged) >= settings.approvalThreshold
    BY <2>3, <2>4 DEF CMP_APPROVE
  <2>. QED BY <2>2, <2>3, <2>5 DEF compareReports, AutoReject
<1>. QED BY <1>1, ReportInductive, PTL

-----------------------------------------------------------------------------
(* The orchestrator's queue.  The inductive invariant places it in the     *)
(* list of what was submitted: what is before the place that processQueue  *)
(* has reached was answered, what is behind it waits, and only the         *)
(* transaction in hand may be on either side.                              *)

\* What waits is the end of the list s of what was submitted, from place k on.
Waits(waiting, s, k) ==
    /\ waiting \in Seq(Txs)
    /\ Len(s) = k + Len(waiting)
    /\ \A i \in 1 .. Len(waiting) : waiting[i] = s[k + i]

\* Up to place k everything may have run, and nothing behind it.
Ran(k) == \A j \in DOMAIN executed : \E i \in 1 .. k : executed[j] = submitted[i]
Open(k) == \A i \in (k + 1) .. Len(submitted) : answer[submitted[i]] = "none"

\* The transaction in hand, at place k, has been sent and not answered, or neither.
Holds(k) ==
    /\ current = submitted[k] /\ Open(k - 1)
    /\ IF stage = "wait"
       THEN /\ Ran(k) /\ executed # <<>>
            /\ executed[Len(executed)] = submitted[k]
       ELSE Ran(k - 1)

Lists ==
    /\ submitted \in Seq(Txs) /\ executed \in Seq(Txs) /\ DOMAIN answer = Txs
    /\ \A i, j \in DOMAIN submitted : submitted[i] = submitted[j] => i = j
    /\ \A i, j \in DOMAIN executed : \A a, b \in DOMAIN submitted :
          i < j /\ executed[i] = submitted[a] /\ executed[j] = submitted[b] => a < b
    /\ \A tx \in Txs : /\ answer[tx] # "none" => \E i \in DOMAIN submitted : submitted[i] = tx
                       /\ answer[tx] = "resolved" => \E j \in DOMAIN executed : executed[j] = tx

QueueInv ==
    /\ Lists
    /\ stage \in {"idle", "sync", "send", "resync", "wait"}
    /\ IF stage = "idle"
       THEN queue = <<>> /\ Ran(Len(submitted))
       ELSE \E k \in 1 .. Len(submitted) : Waits(queue, submitted, k) /\ Holds(k)

LEMMA QueueStart == QueueInit => QueueInv
BY DEF QueueInit, QueueInv, Lists, Ran

-----------------------------------------------------------------------------
(* The steps                                                               *)

\* The head of the loop moves on to the next place, when everything up to this one is done.
LEMMA TakeKeeps ==
    ASSUME NEW waiting, NEW nonce, Take(waiting, nonce), NEW k \in Nat,
           Lists', Waits(waiting, submitted', k), Ran(k)', Open(k)'
    PROVE  QueueInv'
<1>1. CASE waiting = <<>>
  BY <1>1 DEF Take, QueueInv, Waits
<1>2. CASE waiting # <<>>
  <2>1. /\ waiting \in Seq(Txs) /\ Len(waiting) \in Nat /\ Len(waiting) > 0
        /\ Len(submitted') = k + Len(waiting)
        /\ \A i \in 1 .. Len(waiting) : waiting[i] = submitted'[k + i]
    BY <1>2 DEF Waits
  <2>2. /\ current' = waiting[1] /\ queue' = Tail(waiting) /\ stage' \in {"sync", "send"}
    BY <1>2, <2>1 DEF Take
  <2>3. k + 1 \in 1 .. Len(submitted')
    BY <2>1
  <2>4. Waits(queue', submitted', k + 1)
    <3>1. /\ queue' \in Seq(Txs) /\ Len(queue') = Len(waiting) - 1
          /\ \A i \in 1 .. Len(queue') : queue'[i] = waiting[i + 1]
      BY <2>1, <2>2
    <3>2. ASSUME NEW i \in 1 .. Len(queue') PROVE queue'[i] = submitted'[(k + 1) + i]
      <4>1. i + 1 \in 1 .. Len(waiting) /\ k + (i + 1) = (k + 1) + i
        BY <2>1, <3>1
      <4>. QED BY <2>1, <3>1, <4>1
    <3>3. Len(submitted') = (k + 1) + Len(queue')
      BY <2>1, <3>1
    <3>. QED BY <3>1, <3>2, <3>3 DEF Waits
  <2>5. Holds(k + 1)'
    BY <2>1, <2>2 DEF Holds
  <2>. QED BY <2>2, <2>3, <2>4, <2>5 DEF QueueInv
<1>. QED BY <1>1, <1>2

\* A transaction in hand.
LEMMA TransactionInHand ==
    ASSUME QueueInv, stage # "idle"
    PROVE  \E k \in 1 .. Len(submitted) : Waits(queue, submitted, k) /\ Holds(k)
BY DEF QueueInv

LEMMA SubmitKeeps == ASSUME QueueInv, NEW tx \in Txs, Submit(tx) PROVE QueueInv'
<1>0. PICK n \in Nat : n = Len(submitted)
  BY DEF QueueInv, Lists
<1>1. /\ submitted \in Seq(Txs) /\ n = Len(submitted) /\ UNCHANGED <<executed, answer>>
      /\ submitted' = Append(submitted, tx)
      /\ \A i \in 1 .. n : submitted[i] # tx
  BY <1>0 DEF Submit, QueueInv, Lists, ToSet
<1>2. /\ submitted' \in Seq(Txs) /\ Len(submitted') = n + 1 /\ submitted'[n + 1] = tx
      /\ \A i \in 1 .. n : submitted'[i] = submitted[i]
  BY <1>1
<1>3. answer[tx] = "none"
  BY <1>1 DEF QueueInv, Lists
<1>4. Lists'
  <2>1. ASSUME NEW i \in DOMAIN executed
        PROVE  executed[i] # tx
    BY <1>1 DEF QueueInv, Ran, Holds
  <2>2. /\ executed' \in Seq(Txs) /\ DOMAIN answer' = Txs
        /\ \A i, j \in DOMAIN submitted' : submitted'[i] = submitted'[j] => i = j
    BY <1>1, <1>2 DEF QueueInv, Lists
  <2>3. \A i, j \in DOMAIN executed' : \A a, b \in DOMAIN submitted' :
          i < j /\ executed'[i] = submitted'[a] /\ executed'[j] = submitted'[b] => a < b
    BY <1>1, <1>2, <2>1 DEF QueueInv, Lists
  <2>4. ASSUME NEW x \in Txs
        PROVE  /\ answer'[x] # "none" => \E i \in DOMAIN submitted' : submitted'[i] = x
               /\ answer'[x] = "resolved" => \E j \in DOMAIN executed' : executed'[j] = x
    <3>1. \A i \in DOMAIN submitted : i \in DOMAIN submitted' /\ submitted'[i] = submitted[i]
      BY <1>1, <1>2
    <3>. QED BY <1>1, <3>1 DEF QueueInv, Lists
  <2>. QED BY <1>2, <2>2, <2>3, <2>4 DEF Lists
<1>5. CASE stage = "idle"
  <2>1. Take(Append(queue, tx), currentNonce) /\ queue = <<>> /\ Ran(n)
    BY <1>1, <1>5 DEF Submit, QueueInv
  <2>2. Waits(Append(queue, tx), submitted', n)
    BY <1>2, <2>1 DEF Waits
  <2>3. Ran(n)' /\ Open(n)'
    BY <1>1, <1>2, <1>3, <2>1 DEF Ran, Open
  <2>. QED BY <1>1, <1>4, <2>1, <2>2, <2>3, TakeKeeps
<1>6. CASE stage # "idle"
  <2>1. PICK k \in 1 .. n : Waits(queue, submitted, k) /\ Holds(k)
    BY <1>1, <1>6, TransactionInHand
  <2>2. queue' = Append(queue, tx) /\ UNCHANGED <<current, stage>>
    BY <1>6 DEF Submit
  <2>3. k \in 1 .. Len(submitted') /\ Waits(queue', submitted', k)
    <3>1. /\ queue \in Seq(Txs) /\ n = k + Len(queue) /\ Len(queue) \in Nat
          /\ \A i \in 1 .. Len(queue) : queue[i] = submitted[k + i]
      BY <1>1, <2>1 DEF Waits
    <3>2. /\ queue' \in Seq(Txs) /\ Len(queue') = Len(queue) + 1 /\ queue'[Len(queue) + 1] = tx
          /\ \A i \in 1 .. Len(queue) : queue'[i] = queue[i]
      BY <2>2, <3>1
    <3>3. ASSUME NEW i \in 1 .. Len(queue') PROVE queue'[i] = submitted'[k + i]
      <4>1. CASE i = Len(queue) + 1
        BY <1>2, <3>1, <3>2, <4>1
      <4>2. CASE i # Len(queue) + 1
        <5>1. i \in 1 .. Len(queue) /\ k + i \in 1 .. n
          BY <3>1, <3>2, <4>2
        <5>. QED BY <1>2, <3>1, <3>2, <5>1
      <4>. QED BY <4>1, <4>2
    <3>. QED BY <1>2, <3>1, <3>2, <3>3 DEF Waits
  <2>4. Holds(k)'
    <3>1. current' = submitted'[k]
      BY <1>1, <1>2, <2>1, <2>2 DEF Holds
    <3>2. Open(k - 1)'
      BY <1>1, <1>2, <1>3, <2>1 DEF Holds, Open
    <3>3. \A m \in {k - 1, k} : Ran(m) => Ran(m)'
      BY <1>1, <1>2 DEF Ran
    <3>4. stage = "wait" => executed'[Len(executed')] = submitted'[k]
      BY <1>1, <1>2, <2>1 DEF Holds
    <3>. QED BY <1>1, <2>1, <2>2, <3>1, <3>2, <3>3, <3>4 DEF Holds
  <2>. QED BY <1>4, <1>6, <2>2, <2>3, <2>4 DEF QueueInv
<1>. QED BY <1>5, <1>6

\* The answer of the transaction in hand, that has run or not.
LEMMA Answers ==
    ASSUME QueueInv, stage # "idle", UNCHANGED submitted,
           executed' \in {executed, Append(executed, current)},
           executed' # executed => stage # "wait",
           NEW how \in {"resolved", "rejected"}, Reply(how), how = "resolved" => stage = "wait",
           NEW nonce, Take(queue, nonce)
    PROVE  QueueInv'
<1>1. PICK k \in 1 .. Len(submitted) : Waits(queue, submitted, k) /\ Holds(k)
  BY TransactionInHand
<1>2. /\ Lists /\ submitted \in Seq(Txs) /\ executed \in Seq(Txs) /\ Len(executed) \in Nat
      /\ k \in DOMAIN submitted /\ current = submitted[k] /\ current \in Txs
  BY <1>1 DEF QueueInv, Lists, Holds
<1>3. Ran(k)
  BY <1>1 DEF Holds, Ran
<1>4. /\ executed' \in Seq(Txs) /\ Ran(k)'
      /\ \A j \in DOMAIN executed : j \in DOMAIN executed' /\ executed'[j] = executed[j]
  <2>1. CASE executed' = executed
    BY <1>2, <1>3, <2>1 DEF Ran
  <2>2. CASE executed' = Append(executed, current)
    <3>1. /\ executed' \in Seq(Txs) /\ Len(executed') = Len(executed) + 1
          /\ executed'[Len(executed) + 1] = submitted[k]
          /\ \A j \in 1 .. Len(executed) : executed'[j] = executed[j]
      BY <1>2, <2>2
    <3>2. ASSUME NEW j \in DOMAIN executed' PROVE \E i \in 1 .. k : executed'[j] = submitted[i]
      <4>1. CASE j = Len(executed) + 1
        BY <1>2, <3>1, <4>1
      <4>2. CASE j # Len(executed) + 1
        <5>1. j \in 1 .. Len(executed) /\ j \in DOMAIN executed
          BY <1>2, <3>1, <4>2
        <5>2. PICK i \in 1 .. k : executed[j] = submitted[i]
          BY <1>3, <5>1 DEF Ran
        <5>. QED BY <3>1, <5>1, <5>2
      <4>. QED BY <4>1, <4>2
    <3>. QED BY <1>2, <3>1, <3>2 DEF Ran
  <2>. QED BY <2>1, <2>2
<1>5. \A i, j \in DOMAIN executed' : \A a, b \in DOMAIN submitted :
          i < j /\ executed'[i] = submitted[a] /\ executed'[j] = submitted[b] => a < b
  <2>1. CASE executed' = executed
    BY <1>2, <2>1 DEF Lists
  <2>2. CASE executed' # executed
    <3>1. Ran(k - 1) /\ executed' = Append(executed, submitted[k])
      BY <1>1, <1>2, <2>2 DEF Holds
    <3>. QED BY <1>2, <3>1 DEF Lists, Ran
  <2>. QED BY <2>1, <2>2
<1>6. Lists'
  <2>1. ASSUME NEW tx \in Txs
        PROVE  /\ answer'[tx] # "none" => \E i \in DOMAIN submitted : submitted[i] = tx
               /\ answer'[tx] = "resolved" => \E j \in DOMAIN executed' : executed'[j] = tx
    <3>1. CASE tx = current
      BY <1>1, <1>2, <1>4, <3>1 DEF Reply, Lists, Holds
    <3>2. CASE tx # current
      BY <1>2, <1>4, <3>2 DEF Reply, Lists
    <3>. QED BY <3>1, <3>2
  <2>. QED BY <1>2, <1>4, <1>5, <2>1 DEF Lists, Reply
<1>7. Open(k)'
  BY <1>1, <1>2 DEF Open, Holds, Reply, Lists
<1>. QED BY <1>1, <1>2, <1>4, <1>6, <1>7, TakeKeeps

\* What is left to prove of a step that answers nobody and moves nothing but the stage.
LEMMA StageKeeps ==
    ASSUME QueueInv, UNCHANGED <<queue, current, executed, answer, submitted>>,
           stage \in {"sync", "send"}, stage' \in {"send", "resync"}
    PROVE  QueueInv'
<1>1. PICK k \in 1 .. Len(submitted) : Waits(queue, submitted, k) /\ Holds(k)
  BY TransactionInHand
<1>2. k \in 1 .. Len(submitted') /\ Waits(queue', submitted', k) /\ Holds(k)'
  BY <1>1 DEF Holds, Ran, Open
<1>3. Lists'
  BY DEF QueueInv, Lists
<1>. QED BY <1>2, <1>3 DEF QueueInv

\* The node takes the transaction: none behind it ran.
LEMMA SentKeeps == ASSUME QueueInv, Sent PROVE QueueInv'
<1>1. PICK k \in 1 .. Len(submitted) : Waits(queue, submitted, k) /\ Holds(k)
  BY TransactionInHand DEF Sent
<1>2. /\ Lists /\ submitted \in Seq(Txs) /\ executed \in Seq(Txs) /\ Len(executed) \in Nat
      /\ k \in DOMAIN submitted /\ current = submitted[k] /\ current \in Txs /\ Ran(k - 1)
      /\ Open(k - 1)
  BY <1>1 DEF QueueInv, Lists, Holds, Sent
<1>3. UNCHANGED <<queue, current, answer, submitted>> /\ stage' = "wait"
  BY DEF Sent
<1>4. /\ executed' \in Seq(Txs) /\ Len(executed') = Len(executed) + 1
      /\ executed'[Len(executed) + 1] = submitted[k]
      /\ \A j \in 1 .. Len(executed) : executed'[j] = executed[j]
  BY <1>2 DEF Sent
<1>5. Ran(k)'
  <2>1. ASSUME NEW j \in DOMAIN executed' PROVE \E i \in 1 .. k : executed'[j] = submitted[i]
    <3>1. CASE j = Len(executed) + 1
      BY <1>2, <1>4, <3>1
    <3>2. CASE j # Len(executed) + 1
      BY <1>2, <1>4, <3>2 DEF Ran
    <3>. QED BY <3>1, <3>2
  <2>. QED BY <1>3, <2>1 DEF Ran
<1>6. \A i, j \in DOMAIN executed' : \A a, b \in DOMAIN submitted :
          i < j /\ executed'[i] = submitted[a] /\ executed'[j] = submitted[b] => a < b
  <2>. SUFFICES ASSUME NEW i \in DOMAIN executed', NEW j \in DOMAIN executed',
                       NEW a \in DOMAIN submitted, NEW b \in DOMAIN submitted,
                       i < j, executed'[i] = submitted[a], executed'[j] = submitted[b]
                PROVE  a < b
    OBVIOUS
  <2>1. i \in 1 .. Len(executed) /\ i \in DOMAIN executed /\ executed[i] = submitted[a]
    BY <1>2, <1>4
  <2>2. CASE j = Len(executed) + 1
    <3>1. b = k
      BY <1>2, <1>4, <2>2 DEF Lists
    <3>2. PICK c \in 1 .. (k - 1) : executed[i] = submitted[c]
      BY <1>2, <2>1 DEF Ran
    <3>3. a = c
      <4>1. c \in DOMAIN submitted /\ submitted[a] = submitted[c]
        BY <1>2, <2>1, <3>2
      <4>. QED BY <1>2, <4>1 DEF Lists
    <3>. QED BY <1>2, <3>1, <3>2, <3>3
  <2>3. CASE j # Len(executed) + 1
    <3>1. j \in 1 .. Len(executed) /\ j \in DOMAIN executed /\ executed[j] = submitted[b]
      BY <1>2, <1>4, <2>3
    <3>. QED BY <1>2, <2>1, <3>1 DEF Lists
  <2>. QED BY <2>2, <2>3
<1>7. \A j \in DOMAIN executed : j \in DOMAIN executed' /\ executed'[j] = executed[j]
  BY <1>2, <1>4
<1>8. Lists'
  BY <1>2, <1>3, <1>4, <1>6, <1>7 DEF Lists
<1>9. Holds(k)' /\ Waits(queue', submitted', k)
  BY <1>1, <1>2, <1>3, <1>4, <1>5 DEF Holds, Open
<1>. QED BY <1>3, <1>8, <1>9 DEF QueueInv

LEMMA AllButTheLast ==
    ASSUME NEW S, NEW s \in Seq(S), NEW m \in Nat, Len(s) = m + 1
    PROVE  /\ SubSeq(s, 1, m) \in Seq(S) /\ Len(SubSeq(s, 1, m)) = m
           /\ \A j \in 1 .. m : SubSeq(s, 1, m)[j] = s[j]
OBVIOUS

\* The one in hand loses its nonce to another sender, before it was answered.
LEMMA ReplacedKeeps == ASSUME QueueInv, Replaced PROVE QueueInv'
<1>1. PICK k \in 1 .. Len(submitted) : Waits(queue, submitted, k) /\ Holds(k)
  BY TransactionInHand DEF Replaced
<1>2. /\ Lists /\ submitted \in Seq(Txs) /\ executed \in Seq(Txs) /\ Len(executed) \in Nat
      /\ k \in DOMAIN submitted /\ current = submitted[k] /\ current \in Txs
      /\ Ran(k) /\ Open(k - 1) /\ Len(executed) >= 1 /\ executed[Len(executed)] = submitted[k]
  BY <1>1 DEF QueueInv, Lists, Holds, Replaced
<1>3. UNCHANGED <<queue, current, answer, submitted>> /\ stage' = "resync"
  BY DEF Replaced
<1>4. /\ executed' \in Seq(Txs) /\ Len(executed') = Len(executed) - 1
      /\ \A j \in 1 .. Len(executed') : executed'[j] = executed[j]
  <2>1. executed' = SubSeq(executed, 1, Len(executed) - 1)
    BY DEF Replaced, Front
  <2>2. PICK m \in Nat : Len(executed) = m + 1
    <3>1. Len(executed) - 1 \in Nat /\ Len(executed) = (Len(executed) - 1) + 1
      BY <1>2
    <3>. QED BY <3>1
  <2>3. executed' = SubSeq(executed, 1, m)
    BY <2>1, <2>2
  <2>. QED BY <1>2, <2>2, <2>3, AllButTheLast
<1>5. ASSUME NEW j \in DOMAIN executed' PROVE \E i \in 1 .. (k - 1) : executed'[j] = submitted[i]
  <2>1. j \in DOMAIN executed /\ j < Len(executed) /\ executed'[j] = executed[j]
    BY <1>2, <1>4
  <2>2. PICK i \in 1 .. k : executed[j] = submitted[i]
    BY <1>2, <2>1 DEF Ran
  <2>3. i < k
    BY <1>2, <2>1, <2>2 DEF Lists
  <2>. QED BY <2>1, <2>2, <2>3
<1>6. ASSUME NEW tx \in Txs, answer[tx] = "resolved" PROVE \E j \in DOMAIN executed' : executed'[j] = tx
  <2>1. PICK j \in DOMAIN executed : executed[j] = tx
    BY <1>2, <1>6 DEF Lists
  <2>2. answer[submitted[k]] = "none"
    BY <1>2 DEF Open
  <2>3. j # Len(executed)
    BY <1>2, <1>6, <2>1, <2>2
  <2>4. j \in DOMAIN executed' /\ executed'[j] = executed[j]
    BY <1>2, <1>4, <2>1, <2>3
  <2>. QED BY <2>1, <2>4
<1>7. Lists'
  <2>1. \A i, j \in DOMAIN executed' : \A a, b \in DOMAIN submitted :
          i < j /\ executed'[i] = submitted[a] /\ executed'[j] = submitted[b] => a < b
    <3>1. \A j \in DOMAIN executed' : j \in DOMAIN executed /\ executed'[j] = executed[j]
      BY <1>2, <1>4
    <3>. QED BY <1>2, <3>1 DEF Lists
  <2>. QED BY <1>2, <1>3, <1>4, <1>6, <2>1 DEF Lists
<1>8. Holds(k)' /\ Waits(queue', submitted', k)
  BY <1>1, <1>2, <1>3, <1>5 DEF Holds, Open, Ran
<1>. QED BY <1>3, <1>7, <1>8 DEF QueueInv

\* The one in hand becomes the first in the queue and is taken again.
LEMMA ResyncedKeeps == ASSUME QueueInv, Resynced PROVE QueueInv'
<1>1. PICK k \in 1 .. Len(submitted) : Waits(queue, submitted, k) /\ Holds(k)
  BY TransactionInHand DEF Resynced
<1>2. /\ Lists /\ submitted \in Seq(Txs) /\ current = submitted[k] /\ current \in Txs
      /\ Ran(k - 1) /\ Open(k - 1) /\ k - 1 \in Nat
  BY <1>1 DEF QueueInv, Lists, Holds, Resynced
<1>3. UNCHANGED <<executed, answer, submitted>> /\ Take(<<current>> \o queue, pending)
  BY DEF Resynced
<1>4. Waits(<<current>> \o queue, submitted', k - 1)
  <2>. DEFINE w == <<current>> \o queue
  <2>1. /\ queue \in Seq(Txs) /\ Len(queue) \in Nat /\ Len(submitted) = k + Len(queue)
        /\ \A i \in 1 .. Len(queue) : queue[i] = submitted[k + i]
    BY <1>1 DEF Waits
  <2>2. /\ w \in Seq(Txs) /\ Len(w) = 1 + Len(queue) /\ w[1] = current
        /\ \A i \in 1 .. Len(queue) : w[1 + i] = queue[i]
    BY <1>2, <2>1
  <2>. HIDE DEF w
  <2>3. ASSUME NEW i \in 1 .. Len(w) PROVE w[i] = submitted[(k - 1) + i]
    <3>1. CASE i = 1
      BY <1>2, <2>2, <3>1
    <3>2. CASE i # 1
      <4>1. i - 1 \in 1 .. Len(queue) /\ 1 + (i - 1) = i /\ k + (i - 1) = (k - 1) + i
        BY <2>1, <2>2, <3>2
      <4>. QED BY <2>1, <2>2, <4>1
    <3>. QED BY <3>1, <3>2
  <2>4. Len(submitted) = (k - 1) + Len(w)
    BY <2>1, <2>2
  <2>. QED BY <1>3, <2>2, <2>3, <2>4 DEF Waits, w
<1>5. Lists' /\ Ran(k - 1)' /\ Open(k - 1)'
  BY <1>2, <1>3 DEF Lists, Ran, Open
<1>. QED BY <1>2, <1>3, <1>4, <1>5, TakeKeeps

LEMMA QueueStep == ASSUME QueueInv, [QueueNext]_queueVars PROVE QueueInv'
<1>1. CASE \E tx \in Txs : Submit(tx)
  BY <1>1, SubmitKeeps
<1>2. CASE Synced \/ NonceRefused
  BY <1>2, StageKeeps DEF Synced, NonceRefused
<1>3. CASE SyncFails \/ Refused \/ ResyncFails \/ Confirmed \/ Reverted \/ AnswerLost
  <2>1. /\ stage # "idle" /\ UNCHANGED submitted
        /\ executed' \in {executed, Append(executed, current)}
        /\ executed' # executed => stage # "wait"
    BY <1>3 DEF SyncFails, Refused, ResyncFails, Confirmed, Reverted, AnswerLost
  <2>2. \E how \in {"resolved", "rejected"} :
          Reply(how) /\ (how = "resolved" => stage = "wait") /\ \E nonce : Take(queue, nonce)
    BY <1>3 DEF SyncFails, Refused, ResyncFails, Confirmed, Reverted, AnswerLost
  <2>. QED BY <2>1, <2>2, Answers
<1>4. CASE Sent
  BY <1>4, SentKeeps
<1>5. CASE Replaced
  BY <1>5, ReplacedKeeps
<1>6. CASE Resynced
  BY <1>6, ResyncedKeeps
<1>7. CASE SendOutside \/ UNCHANGED queueVars
  <2>1. UNCHANGED <<queue, current, stage, executed, answer, submitted>>
    BY <1>7 DEF SendOutside, queueVars
  <2>. QED BY <2>1 DEF QueueInv, Lists, Holds, Ran, Open
<1>. QED BY <1>1, <1>2, <1>3, <1>4, <1>5, <1>6, <1>7 DEF QueueNext

-----------------------------------------------------------------------------
(* What the invariant says of the chain                                    *)

LEMMA TimesOfOne ==
    ASSUME NEW tx, executed \in Seq(Txs),
           \A i, j \in DOMAIN executed : executed[i] = tx /\ executed[j] = tx => i = j
    PROVE  /\ Times(tx) <= 1
           /\ (\E j \in DOMAIN executed : executed[j] = tx) => Times(tx) = 1
           /\ (\A j \in DOMAIN executed : executed[j] # tx) => Times(tx) = 0
<1>. DEFINE S == {i \in DOMAIN executed : executed[i] = tx}
<1>1. Times(tx) = Cardinality(S)
  BY DEF Times
<1>2. CASE \A j \in DOMAIN executed : executed[j] # tx
  <2>1. S = {}
    BY <1>2
  <2>2. Times(tx) = 0
    BY <1>1, <2>1, FS_EmptySet
  <2>. QED BY <1>2, <2>2
<1>3. ASSUME NEW j \in DOMAIN executed, executed[j] = tx PROVE Times(tx) = 1
  <2>1. S = {j}
    BY <1>3
  <2>. QED BY <1>1, <2>1, FS_Singleton
<1>. QED BY <1>2, <1>3

\* Whatever fails, nothing the queue sends runs twice or out of order, what was resolved ran
\* and what still waits did not: for any number of transactions.
THEOREM AlwaysExecutedInOrder == QueueSpec => []ExecutedInOrder
<1>1. ASSUME QueueInv PROVE ExecutedInOrder
  <2>1. /\ submitted \in Seq(Txs) /\ executed \in Seq(Txs) /\ Lists
        /\ \A j \in DOMAIN executed : \E i \in DOMAIN submitted : executed[j] = submitted[i]
    <3>1. Lists /\ \E k \in 0 .. Len(submitted) : Ran(k)
      BY <1>1 DEF QueueInv, Lists, Holds
    <3>. QED BY <3>1 DEF Lists, Ran
  <2>2. \A i \in DOMAIN submitted : Place(submitted, submitted[i]) = i
    BY <2>1 DEF Lists, Place
  <2>3. \A i, j \in DOMAIN executed :
          i < j => Place(submitted, executed[i]) < Place(submitted, executed[j])
    BY <2>1, <2>2 DEF Lists
  <2>4. \A i, j \in DOMAIN executed : executed[i] = executed[j] => i = j
    <3>1. \A i, j \in DOMAIN executed : i < j => executed[i] # executed[j]
      BY <2>1 DEF Lists
    <3>. QED BY <2>1, <3>1
  <2>5. ASSUME NEW tx \in Txs
        PROVE  /\ Times(tx) <= 1
               /\ answer[tx] = "resolved" => Times(tx) = 1
               /\ tx \in ToSet(queue) => Times(tx) = 0 /\ answer[tx] = "none"
    <3>1. Times(tx) <= 1 /\ (answer[tx] = "resolved" => Times(tx) = 1)
      BY <2>1, <2>4, TimesOfOne DEF Lists
    <3>2. ASSUME tx \in ToSet(queue) PROVE Times(tx) = 0 /\ answer[tx] = "none"
      <4>1. stage # "idle" /\ queue # <<>>
        BY <1>1, <3>2 DEF QueueInv, ToSet
      <4>2. PICK k \in 1 .. Len(submitted) : Waits(queue, submitted, k) /\ Holds(k)
        BY <1>1, <4>1, TransactionInHand
      <4>3. PICK i \in 1 .. Len(queue) : queue[i] = tx
        BY <3>2, <4>2 DEF ToSet, Waits
      <4>4. k + i \in DOMAIN submitted /\ submitted[k + i] = tx /\ k + i > k
        BY <2>1, <4>2, <4>3 DEF Waits
      <4>5. answer[tx] = "none"
        BY <2>1, <4>2, <4>4 DEF Holds, Open
      <4>6. Ran(k)
        BY <4>2 DEF Holds, Ran
      <4>7. \A j \in DOMAIN executed : executed[j] # tx
        BY <2>1, <4>4, <4>6 DEF Ran, Lists
      <4>. QED BY <2>1, <2>4, <4>5, <4>7, TimesOfOne
    <3>. QED BY <3>1, <3>2
  <2>. QED BY <2>3, <2>5 DEF ExecutedInOrder
<1>. QED BY <1>1, QueueStart, QueueStep, PTL DEF QueueSpec

-----------------------------------------------------------------------------
(* The search for the block of a deployment                                *)

\* What is above the block found has code; what is below has none, unless a call failed.
SearchInv ==
    /\ deployed \in Nat /\ lo \in Nat /\ hi \in Nat /\ rounds \in Nat
    /\ lo <= hi /\ hi >= deployed
    /\ ~failed => lo <= deployed

\* The middle is between the ends, and is the lower one only when nothing is between them.
LEMMA MidBetween ==
    ASSUME lo \in Nat, hi \in Nat, lo <= hi
    PROVE  Mid \in Nat /\ lo <= Mid /\ Mid <= hi /\ (Mid = lo => hi <= lo + 1)
BY DEF Mid

LEMMA SearchStep == ASSUME SearchInv, [Probe]_searchVars PROVE SearchInv'
<1>1. CASE Probe
  <2>1. Mid \in Nat /\ lo <= Mid /\ Mid <= hi
    BY MidBetween DEF SearchInv
  <2>2. deployed' = deployed /\ rounds' = rounds + 1
    BY <1>1 DEF Probe
  <2>3. CASE Mid < deployed /\ lo' = Mid /\ UNCHANGED <<hi, failed>>
    BY <2>1, <2>2, <2>3 DEF SearchInv
  <2>4. CASE Mid >= deployed /\ hi' = Mid /\ UNCHANGED <<lo, failed>>
    BY <2>1, <2>2, <2>4 DEF SearchInv
  <2>5. CASE lo' = Mid /\ failed' = TRUE /\ UNCHANGED hi
    BY <2>1, <2>2, <2>5 DEF SearchInv
  <2> QED BY <1>1, <2>3, <2>4, <2>5 DEF Probe
<1>2. CASE UNCHANGED searchVars
  BY <1>2 DEF searchVars, SearchInv
<1> QED BY <1>1, <1>2

\* The bisection of estimateDeployBlock never takes a contract for older than it is, whichever of
\* its calls fail, on a chain of any height and with any number of rounds; and when none fails it
\* finds the block of the deployment, or comes as near as its rounds allow.
THEOREM NeverTakenForOlder == SearchSpec => []NeverTooOld
<1>1. SearchInit => SearchInv
  <2> SUFFICES ASSUME SearchInit PROVE SearchInv
    OBVIOUS
  <2>1. latest \in Nat /\ deployed \in Nat /\ deployed <= latest
    BY SearchAssumption DEF SearchInit
  <2> QED BY <2>1 DEF SearchInit, SearchInv
<1>2. SearchInv => NeverTooOld
  BY MidBetween, SearchAssumption DEF SearchInv, NeverTooOld, SearchEnded
<1> QED BY <1>1, <1>2, SearchStep, PTL DEF SearchSpec

-----------------------------------------------------------------------------
(* The orchestrator's records: the inductive invariant                     *)

Created(t) == t \in Nat /\ t < Len(chainTasks)
RouteOf(t) == TASK_TYPE_ROUTES[Task(t).type]

\* The records of the chain, of its events, of the router and of pnl.json.
OnChain == [type : DOMAIN TASK_TYPE_ROUTES, status : DOMAIN Changes, ours : BOOLEAN]
Events == [name : {"TaskCreated", "AgentAssigned", "TaskDelivered", "TaskCompleted",
                   "AgentSlashed", "TaskCancelled"}, task : Nat]
Routes == {"audit", "risk", "none"}
RouterTasks ==
    [status : {"none", "detected", "bid_revealed", "assigned", "delivered", "executing",
               "completed", "failed", "skipped", "routed"}, routedTo : Routes]
IsPoll(p) == /\ DOMAIN p = {"first", "next", "last", "seen", "complete"}
             /\ p.first \in Nat /\ p.next \in Nat /\ p.last \in Nat
             /\ p.seen \in DOMAIN mapOnChainStatus \cup {Unread, Empty, Asked}
PnlRecords == [task : Nat, agent : Routes, outcome : {"Completed", "Failed"},
               stakeAmount : Int, payoutAmount : Int, slashAmount : Int]

ChainTypes ==
    /\ chainTasks \in Seq(OnChain) /\ Len(chainTasks) <= MaxTasks
    /\ chainEvents \in Seq(Events)
    /\ pnl \in Seq(PnlRecords)

\* A tracked task exists and is routed by its type, unless a poll entered it before it existed.
EntryTrue(t) ==
    \/ Created(t) /\ trackedTasks[t].routedTo = RouteOf(t)
    \/ t \in misread /\ trackedTasks[t].routedTo = "none"

\* The tasks the router cannot have missed are tracked.
TrackedInv ==
    /\ trackedTasks \in [TaskIds -> RouterTasks]
    /\ \A t \in TaskIds : Tracked(t) => EntryTrue(t)
    /\ \A t \in known : t \in TaskIds /\ Tracked(t)

\* The poll under way asks for tasks that exist and the one after them; unless a call failed, it
\* leaves none untracked.
PollInv ==
    /\ IsPoll(poll)
    /\ poll.last <= Len(chainTasks)
    /\ poll.seen # Unread => poll.next <= poll.last
    /\ poll.seen \notin {Unread, Empty} => Created(poll.next)
    /\ poll.seen = Asked => Tracked(poll.next)
    /\ poll.complete => \A t \in poll.first .. poll.next - 1 : t \in TaskIds /\ Tracked(t)

\* Which outcome an event reports.
Reports == [TaskCompleted |-> "Completed", AgentSlashed |-> "Failed"]

\* A completed task may still fail, after an appeal; one that failed stays so.
Happened(t, outcome) ==
    /\ Created(t)
    /\ outcome = "Completed" => Task(t).status \in {"Completed", "Failed"}
    /\ outcome = "Failed" => Task(t).status = "Failed"

\* A report is under way at most once, and is not recorded yet.
EventsInv ==
    \A i \in DOMAIN chainEvents :
        /\ Created(chainEvents[i].task)
        /\ chainEvents[i].name \in DOMAIN Reports =>
              /\ Happened(chainEvents[i].task, Reports[chainEvents[i].name])
              /\ <<chainEvents[i].task, Reports[chainEvents[i].name]>> \notin Recorded
              /\ Task(chainEvents[i].task).ours =>
                    <<chainEvents[i].task, Reports[chainEvents[i].name]>> \in outcomes
              /\ \A j \in DOMAIN chainEvents : chainEvents[j] = chainEvents[i] => j = i

RecordsInv ==
    /\ \A i \in DOMAIN pnl : /\ Happened(pnl[i].task, pnl[i].outcome)
                             /\ pnl[i].agent = RouteOf(pnl[i].task)
    /\ expected \subseteq Recorded /\ Recorded \subseteq outcomes
    /\ \A i, j \in DOMAIN pnl :
          pnl[i].task = pnl[j].task /\ pnl[i].outcome = pnl[j].outcome => i = j

OrchestratorInv == ChainTypes /\ TrackedInv /\ PollInv /\ EventsInv /\ RecordsInv

-----------------------------------------------------------------------------
\* The operators of one task or one event, in the next state.
LEMMA EndsOfQueue ==
    ASSUME NEW S, NEW s \in Seq(S), s # <<>>
    PROVE  /\ Head(s) \in S /\ Head(s) = s[1] /\ 1 \in DOMAIN s
           /\ Tail(s) \in Seq(S)
           /\ \A i \in DOMAIN Tail(s) : i + 1 \in DOMAIN s /\ Tail(s)[i] = s[i + 1] /\ i + 1 # 1
OBVIOUS

LEMMA Appended ==
    ASSUME NEW S, NEW s \in Seq(S), NEW x \in S
    PROVE  /\ Append(s, x) \in Seq(S) /\ Len(Append(s, x)) = Len(s) + 1
           /\ DOMAIN Append(s, x) = DOMAIN s \cup {Len(s) + 1} /\ Len(s) + 1 \notin DOMAIN s
           /\ \A i \in DOMAIN s : Append(s, x)[i] = s[i]
           /\ Append(s, x)[Len(s) + 1] = x
OBVIOUS

LEMMA TaskType ==
    ASSUME ChainTypes, NEW t, Created(t)
    PROVE  /\ t + 1 \in DOMAIN chainTasks
           /\ Task(t) \in OnChain
           /\ t \in TaskIds
<1>1. t \in Nat /\ t < Len(chainTasks) /\ Len(chainTasks) \in Nat /\ Len(chainTasks) <= MaxTasks
  BY DEF ChainTypes, Created
<1>2. t + 1 \in DOMAIN chainTasks
  BY <1>1 DEF ChainTypes
<1>3. chainTasks[t + 1] \in OnChain
  BY <1>2 DEF ChainTypes
<1>4. t \in TaskIds
  BY <1>1, TasksAssumption DEF TaskIds
<1> QED BY <1>2, <1>3, <1>4 DEF Task

LEMMA OrchestratorStart == OrchestratorInit => OrchestratorInv
<1> SUFFICES ASSUME OrchestratorInit PROVE OrchestratorInv
  OBVIOUS
<1>1. ChainTypes
  <2>1. chainTasks \in Seq(OnChain) /\ Len(chainTasks) <= MaxTasks
    BY TasksAssumption DEF OrchestratorInit, OnChain, TASK_TYPE_ROUTES, Changes
  <2>2. chainEvents = <<>> /\ pnl = <<>>
    BY DEF OrchestratorInit
  <2> QED BY <2>1, <2>2 DEF ChainTypes
<1>2. TrackedInv
  <2>1. trackedTasks = [t \in TaskIds |-> NotTracked] /\ known = {}
    BY DEF OrchestratorInit
  <2>2. NotTracked \in RouterTasks
    BY DEF NotTracked, RouterTasks, Routes
  <2> QED BY <2>1, <2>2 DEF TrackedInv, Tracked
<1>3. PollInv
  <2>1. Len(chainTasks) \in Nat
    BY <1>1 DEF ChainTypes
  <2>2. poll = NoPoll
    BY DEF OrchestratorInit
  <2>3. IsPoll(NoPoll)
    BY DEF NoPoll, IsPoll
  <2>4. /\ NoPoll.last = 0 /\ NoPoll.next = 0 /\ NoPoll.first = 0 /\ NoPoll.seen = Unread
        /\ Unread # Asked
    BY DEF NoPoll, Unread, Asked
  <2> QED BY <2>1, <2>2, <2>3, <2>4 DEF PollInv
<1>4. EventsInv
  BY DEF OrchestratorInit, EventsInv
<1>5. RecordsInv
  <2>1. Recorded = {} /\ pnl = <<>>
    BY DEF OrchestratorInit, Recorded
  <2> QED BY <2>1 DEF OrchestratorInit, RecordsInv
<1> QED BY <1>1, <1>2, <1>3, <1>4, <1>5 DEF OrchestratorInv

-----------------------------------------------------------------------------
(* What the router does leaves the chain.                                  *)

LEMMA ChainSame ==
    ASSUME UNCHANGED chainTasks
    PROVE  /\ \A t : Task(t)' = Task(t) /\ Created(t)' = Created(t) /\ RouteOf(t)' = RouteOf(t)
           /\ \A t, o : Happened(t, o)' = Happened(t, o)
<1>1. \A t : Task(t)' = Task(t) /\ Created(t)' = Created(t) /\ RouteOf(t)' = RouteOf(t)
  BY DEF Task, Created, RouteOf
<1>2. \A t, o : Happened(t, o)' = Happened(t, o)
  BY DEF Task, Created, Happened
<1> QED BY <1>1, <1>2

LEMMA RecordedSame ==
    ASSUME OrchestratorInv, UNCHANGED <<chainTasks, outcomes, pnl, expected>>
    PROVE  Recorded' = Recorded /\ RecordsInv'
<1>1. Recorded' = Recorded
  BY DEF Recorded
<1>2. RecordsInv'
  BY <1>1, ChainSame DEF OrchestratorInv, RecordsInv
<1> QED BY <1>1, <1>2

\* The report of the event that is handled.
Report == <<Head(chainEvents).task, Reports[Head(chainEvents).name]>>

\* The queue stays, is emptied, or loses its head, which may have been recorded.
QueueGoes ==
    \/ chainEvents' \in {chainEvents, <<>>} /\ Recorded' = Recorded
    \/ /\ chainEvents # <<>> /\ chainEvents' = Tail(chainEvents)
       /\ \/ Recorded' = Recorded
          \/ Head(chainEvents).name \in DOMAIN Reports /\ Recorded' = Recorded \cup {Report}

LEMMA EventsKeep ==
    ASSUME OrchestratorInv, UNCHANGED <<chainTasks, outcomes>>, QueueGoes
    PROVE  EventsInv' /\ chainEvents' \in Seq(Events)
<1>0. chainEvents \in Seq(Events)
  BY DEF OrchestratorInv, ChainTypes
<1>1. CASE chainEvents' = chainEvents /\ Recorded' = Recorded
  BY <1>0, <1>1, ChainSame DEF OrchestratorInv, EventsInv
<1>2. CASE chainEvents' = <<>> /\ Recorded' = Recorded
  BY <1>2 DEF EventsInv
<1>3. CASE /\ chainEvents # <<>> /\ chainEvents' = Tail(chainEvents)
           /\ \/ Recorded' = Recorded
              \/ Head(chainEvents).name \in DOMAIN Reports /\ Recorded' = Recorded \cup {Report}
  <2>1. /\ chainEvents' \in Seq(Events)
        /\ \A i \in DOMAIN chainEvents' :
             i + 1 \in DOMAIN chainEvents /\ chainEvents'[i] = chainEvents[i + 1] /\ i \in Nat
                                          /\ i + 1 # 1
        /\ Head(chainEvents) = chainEvents[1] /\ 1 \in DOMAIN chainEvents
        /\ chainEvents[1] \in Events
    BY <1>0, <1>3, EndsOfQueue
  <2>2. ASSUME NEW i \in DOMAIN chainEvents', NEW e, e = chainEvents'[i]
        PROVE  /\ Created(e.task)'
               /\ e.name \in DOMAIN Reports =>
                    /\ Happened(e.task, Reports[e.name])'
                    /\ <<e.task, Reports[e.name]>> \notin Recorded'
                    /\ Task(e.task)'.ours => <<e.task, Reports[e.name]>> \in outcomes'
                    /\ \A j \in DOMAIN chainEvents' : chainEvents'[j] = e => j = i
    <3>1. i + 1 \in DOMAIN chainEvents /\ e = chainEvents[i + 1] /\ i \in Nat /\ i + 1 # 1
      BY <2>1, <2>2
    <3>2. /\ Created(e.task)
          /\ e.name \in DOMAIN Reports =>
               /\ Happened(e.task, Reports[e.name])
               /\ <<e.task, Reports[e.name]>> \notin Recorded
               /\ Task(e.task).ours => <<e.task, Reports[e.name]>> \in outcomes
               /\ \A j \in DOMAIN chainEvents : chainEvents[j] = e => j = i + 1
      BY <3>1 DEF OrchestratorInv, EventsInv
    <3>3. ASSUME NEW j \in DOMAIN chainEvents', chainEvents'[j] = e, e.name \in DOMAIN Reports
          PROVE  j = i
      BY <2>1, <3>1, <3>2, <3>3
    <3>4. ASSUME e.name \in DOMAIN Reports, Head(chainEvents).name \in DOMAIN Reports
          PROVE  <<e.task, Reports[e.name]>> # Report
      <4>1. e \in Events /\ e # chainEvents[1]
        BY <1>0, <2>1, <3>1, <3>2, <3>4
      <4>2. e.task # chainEvents[1].task \/ e.name # chainEvents[1].name
        BY <2>1, <4>1 DEF Events
      <4> QED BY <2>1, <3>4, <4>2 DEF Report, Reports
    <3>5. e.name \in DOMAIN Reports => <<e.task, Reports[e.name]>> \notin Recorded'
      BY <1>3, <3>2, <3>4
    <3> QED BY <3>2, <3>3, <3>5, ChainSame
  <2> QED BY <2>1, <2>2 DEF EventsInv
<1> QED BY <1>1, <1>2, <1>3 DEF QueueGoes

\* The tasks tracked stay tracked, and their entries are true.
RouterGoes ==
    /\ trackedTasks' \in [TaskIds -> RouterTasks]
    /\ \A t \in TaskIds : Tracked(t) => Tracked(t)'
    /\ \A t \in TaskIds : Tracked(t)' => EntryTrue(t)'
    /\ \A t \in known' : t \in known \/ (t \in TaskIds /\ Tracked(t)')

\* The poll stays; the task it asks for is one there may be.
LEMMA PollStays ==
    ASSUME OrchestratorInv, UNCHANGED <<chainTasks, poll>>,
           \A t \in TaskIds : Tracked(t) => Tracked(t)'
    PROVE  PollInv'
<1>1. /\ PollInv /\ Len(chainTasks) \in Nat
      /\ \A t : Created(t)' = Created(t) /\ (Created(t) => t \in TaskIds)
  BY TaskType, ChainSame DEF OrchestratorInv, ChainTypes
<1>2. poll.seen = Asked => Tracked(poll.next)'
  <2>1. Asked # Unread /\ Asked # Empty
    BY DEF Asked, Unread, Empty
  <2> QED BY <1>1, <2>1 DEF PollInv
<1>3. (poll.seen = Asked => Tracked(poll.next))'
  BY <1>2 DEF Tracked
<1>4. (poll.seen \notin {Unread, Empty} => Created(poll.next))'
  BY <1>1 DEF PollInv, Created
<1>5. (poll.complete => \A t \in poll.first .. poll.next - 1 : t \in TaskIds /\ Tracked(t))'
  BY <1>1 DEF PollInv
<1> QED BY <1>1, <1>3, <1>4, <1>5 DEF PollInv

LEMMA TrackingKeeps ==
    ASSUME OrchestratorInv, UNCHANGED chainTasks, RouterGoes
    PROVE  TrackedInv' /\ (poll' = poll => PollInv')
<1>1. TrackedInv'
  BY DEF OrchestratorInv, TrackedInv, RouterGoes
<1>2. ASSUME poll' = poll PROVE PollInv'
  BY <1>2, PollStays DEF RouterGoes
<1> QED BY <1>1, <1>2

LEMMA TrackingSame ==
    ASSUME OrchestratorInv, UNCHANGED <<chainTasks, trackedTasks, known, misread>>
    PROVE  RouterGoes
<1>1. \A t : Tracked(t)' = Tracked(t) /\ EntryTrue(t)' = EntryTrue(t)
  BY ChainSame DEF Tracked, EntryTrue
<1> QED BY <1>1 DEF OrchestratorInv, TrackedInv, RouterGoes

LEMMA UpdateGoes ==
    ASSUME OrchestratorInv, NEW t, NEW new \in {"assigned", "delivered", "completed", "failed"},
           UNCHANGED <<chainTasks, known, misread>>, Created(t), updateTask(t, new)
    PROVE  RouterGoes
<1>1. t \in TaskIds
  BY TaskType DEF OrchestratorInv
<1>2. trackedTasks \in [TaskIds -> RouterTasks]
  BY DEF OrchestratorInv, TrackedInv
<1>3. CASE ~Tracked(t)
  BY <1>3, TrackingSame DEF updateTask
<1>4. CASE Tracked(t)
  <2> DEFINE r == [trackedTasks[t] EXCEPT !.status = new]
  <2>1. trackedTasks' = [trackedTasks EXCEPT ![t] = r]
    BY <1>4 DEF updateTask
  <2>2. r \in RouterTasks /\ r.routedTo = trackedTasks[t].routedTo /\ r.status # "none"
    BY <1>1, <1>2 DEF RouterTasks
  <2>3. r # NotTracked
    BY <2>2 DEF NotTracked
  <2> HIDE DEF r
  <2>4. trackedTasks'[t] = r /\ \A u \in TaskIds \ {t} : trackedTasks'[u] = trackedTasks[u]
    BY <1>1, <1>2, <2>1
  <2>5. trackedTasks' \in [TaskIds -> RouterTasks]
    BY <1>1, <1>2, <2>1, <2>2
  <2>6. \A u \in TaskIds : Tracked(u)' = Tracked(u)
    BY <1>4, <2>3, <2>4 DEF Tracked
  <2>7. \A u \in TaskIds : EntryTrue(u)' = EntryTrue(u)
    BY <2>2, <2>4, ChainSame DEF EntryTrue
  <2> QED BY <1>1, <1>4, <2>5, <2>6, <2>7 DEF RouterGoes, OrchestratorInv, TrackedInv
<1> QED BY <1>3, <1>4

\* What is recorded stays: the queue, the tracking and the poll go on.
LEMMA UnrecordedKeeps ==
    ASSUME OrchestratorInv, UNCHANGED <<chainTasks, outcomes, pnl, expected>>, RouterGoes,
           \/ chainEvents' \in {chainEvents, <<>>}
           \/ chainEvents # <<>> /\ chainEvents' = Tail(chainEvents),
           poll' = poll \/ PollInv'
    PROVE  OrchestratorInv'
<1>1. Recorded' = Recorded /\ RecordsInv'
  BY RecordedSame
<1>2. EventsInv' /\ chainEvents' \in Seq(Events)
  BY <1>1, EventsKeep DEF QueueGoes
<1>3. TrackedInv' /\ PollInv'
  BY TrackingKeeps
<1>4. ChainTypes'
  BY <1>2 DEF OrchestratorInv, ChainTypes
<1> QED BY <1>1, <1>2, <1>3, <1>4 DEF OrchestratorInv

\* An event that is handled.
LEMMA HeadOf ==
    ASSUME OrchestratorInv, NEW name, Event(name)
    PROVE  /\ chainEvents # <<>> /\ chainEvents' = Tail(chainEvents)
           /\ Head(chainEvents) = chainEvents[1] /\ 1 \in DOMAIN chainEvents
           /\ Head(chainEvents) \in Events /\ Head(chainEvents).name = name
           /\ Created(Head(chainEvents).task)
<1>1. chainEvents # <<>> /\ chainEvents' = Tail(chainEvents) /\ Head(chainEvents).name = name
  BY DEF Event
<1>2. /\ Head(chainEvents) = chainEvents[1] /\ 1 \in DOMAIN chainEvents
      /\ Head(chainEvents) \in Events
  BY <1>1, EndsOfQueue DEF OrchestratorInv, ChainTypes
<1> QED BY <1>1, <1>2 DEF OrchestratorInv, EventsInv

\* A stop drops the oldest records; those that stay are as true as before.
LEMMA StopKeeps ==
    ASSUME OrchestratorInv, UNCHANGED chainVars, RouterStop
    PROVE  OrchestratorInv'
<1>1. /\ UNCHANGED <<chainTasks, outcomes, trackedTasks, poll, known, misread>>
      /\ chainEvents' = <<>> /\ expected' = expected \cap Recorded'
  BY DEF RouterStop, chainVars
<1>2. pnl \in Seq(PnlRecords) /\ Len(pnl) \in Nat /\ MaxRecords \in Nat
  BY TasksAssumption DEF OrchestratorInv, ChainTypes
<1>3. /\ pnl' \in Seq(PnlRecords)
      /\ \E k \in Nat : \A i \in DOMAIN pnl' :
            i \in Nat /\ k + i \in DOMAIN pnl /\ pnl'[i] = pnl[k + i]
  <2>1. CASE Len(pnl) > MaxRecords
    <3> DEFINE k == Len(pnl) - MaxRecords
    <3>1. k \in Nat /\ k + MaxRecords = Len(pnl) /\ pnl' = SubSeq(pnl, k + 1, Len(pnl))
      BY <1>2, <2>1 DEF RouterStop
    <3> HIDE DEF k
    <3>2. pnl' \in Seq(PnlRecords) /\ DOMAIN pnl' = 1 .. MaxRecords
      BY <1>2, <3>1
    <3>3. ASSUME NEW i \in DOMAIN pnl'
          PROVE  i \in Nat /\ k + i \in DOMAIN pnl /\ pnl'[i] = pnl[k + i]
      <4>1. i \in Nat /\ i >= 1 /\ i <= MaxRecords
        BY <1>2, <3>2
      <4>2. DOMAIN pnl = 1 .. Len(pnl)
        BY <1>2
      <4>3. k + i \in DOMAIN pnl
        BY <1>2, <3>1, <4>1, <4>2
      <4>4. Len(pnl) - (k + 1) + 1 = MaxRecords /\ i + (k + 1) - 1 = k + i
        BY <1>2, <3>1, <4>1
      <4>5. pnl'[i] = pnl[i + (k + 1) - 1]
        BY <1>2, <3>1, <4>1, <4>4
      <4> QED BY <4>1, <4>3, <4>4, <4>5
    <3> QED BY <3>1, <3>2, <3>3
  <2>2. CASE ~(Len(pnl) > MaxRecords)
    <3>1. pnl' = pnl
      BY <2>2 DEF RouterStop
    <3>2. \A i \in DOMAIN pnl' : i \in Nat /\ 0 + i \in DOMAIN pnl /\ pnl'[i] = pnl[0 + i]
      BY <1>2, <3>1
    <3> QED BY <1>2, <3>1, <3>2
  <2> QED BY <2>1, <2>2
<1>4. PICK k \in Nat : \A i \in DOMAIN pnl' :
          i \in Nat /\ k + i \in DOMAIN pnl /\ pnl'[i] = pnl[k + i]
  BY <1>3
<1>5. Recorded' \subseteq Recorded
  BY <1>4 DEF Recorded
<1>6. RecordsInv'
  <2>1. ASSUME NEW i \in DOMAIN pnl', NEW r, r = pnl'[i]
        PROVE  Happened(r.task, r.outcome)' /\ r.agent = RouteOf(r.task)'
    BY <1>1, <1>4, <2>1, ChainSame DEF OrchestratorInv, RecordsInv
  <2>2. expected' \subseteq Recorded' /\ Recorded' \subseteq outcomes'
    BY <1>1, <1>5 DEF OrchestratorInv, RecordsInv
  <2>3. ASSUME NEW i \in DOMAIN pnl', NEW j \in DOMAIN pnl',
               pnl'[i].task = pnl'[j].task, pnl'[i].outcome = pnl'[j].outcome
        PROVE  i = j
    <3>1. k + i = k + j
      BY <1>4, <2>3 DEF OrchestratorInv, RecordsInv
    <3> QED BY <1>4, <3>1
  <2> QED BY <2>1, <2>2, <2>3 DEF RecordsInv
<1>7. EventsInv' /\ ChainTypes'
  BY <1>1, <1>3 DEF EventsInv, OrchestratorInv, ChainTypes
<1>8. TrackedInv' /\ PollInv'
  BY <1>1, TrackingSame, TrackingKeeps
<1> QED BY <1>6, <1>7, <1>8 DEF OrchestratorInv

LEMMA ListeningKeeps ==
    ASSUME OrchestratorInv, UNCHANGED chainVars, RouterStart
    PROVE  OrchestratorInv'
<1>1. UNCHANGED <<chainTasks, outcomes, trackedTasks, poll, pnl, known, misread, expected>>
  BY DEF RouterStart, chainVars
<1>2. chainEvents' \in {chainEvents, <<>>}
  BY DEF RouterStart
<1> QED BY <1>1, <1>2, TrackingSame, UnrecordedKeeps

LEMMA EventKeeps ==
    ASSUME OrchestratorInv, UNCHANGED chainVars,
           OnAgentAssigned \/ OnDelivered \/ OnTaskCancelled
    PROVE  OrchestratorInv'
<1> DEFINE t == Head(chainEvents).task
<1>1. /\ UNCHANGED <<chainTasks, outcomes, poll, pnl, known, misread, expected>>
      /\ \E name : Event(name)
  BY DEF OnAgentAssigned, OnDelivered, OnTaskCancelled, chainVars
<1>2. Created(t) /\ chainEvents # <<>> /\ chainEvents' = Tail(chainEvents)
  BY <1>1, HeadOf
<1>3. \/ UNCHANGED trackedTasks
      \/ \E new \in {"assigned", "delivered", "completed", "failed"} : updateTask(t, new)
  BY DEF OnAgentAssigned, OnDelivered, OnTaskCancelled
<1>4. RouterGoes
  BY <1>1, <1>2, <1>3, TrackingSame, UpdateGoes
<1> QED BY <1>1, <1>2, <1>4, UnrecordedKeeps

\* The routes of all types, and what a new entry of the router is.
LEMMA EntryGoes ==
    ASSUME OrchestratorInv, UNCHANGED chainTasks, NEW t \in TaskIds, NEW route,
           NEW new \in {"detected", "routed", "bid_revealed", "assigned", "delivered",
                        "executing", "completed", "failed", "skipped"},
           trackedTasks' = [trackedTasks EXCEPT ![t] = [status |-> new, routedTo |-> route]],
           \/ Created(t) /\ route = RouteOf(t)
           \/ t \in misread' /\ route = "none",
           misread \subseteq misread' \cup {t}, known' \subseteq known \cup {t}
    PROVE  RouterGoes
<1> DEFINE r == [status |-> new, routedTo |-> route]
<1>2. trackedTasks \in [TaskIds -> RouterTasks]
  BY DEF OrchestratorInv, TrackedInv
<1>3. route \in Routes
  <2>1. CASE Created(t) /\ route = RouteOf(t)
    BY <2>1, TaskType DEF OrchestratorInv, RouteOf, OnChain, Routes, TASK_TYPE_ROUTES
  <2>2. CASE route = "none"
    BY <2>2 DEF Routes
  <2> QED BY <2>1, <2>2
<1>4. r \in RouterTasks /\ r.routedTo = route /\ r.status # "none"
  BY <1>3 DEF RouterTasks
<1>5. r # NotTracked
  BY <1>4 DEF NotTracked
<1>6. trackedTasks' = [trackedTasks EXCEPT ![t] = r]
  OBVIOUS
<1> HIDE DEF r
<1>7. trackedTasks'[t] = r /\ \A u \in TaskIds \ {t} : trackedTasks'[u] = trackedTasks[u]
  BY <1>2, <1>6
<1>8. trackedTasks' \in [TaskIds -> RouterTasks]
  BY <1>2, <1>4, <1>6
<1>9. Tracked(t)' /\ \A u \in TaskIds \ {t} : Tracked(u)' = Tracked(u)
  BY <1>5, <1>7 DEF Tracked
<1>10. EntryTrue(t)' /\ \A u \in TaskIds \ {t} : EntryTrue(u) => EntryTrue(u)'
  BY <1>4, <1>7, ChainSame DEF EntryTrue
<1> QED BY <1>8, <1>9, <1>10 DEF RouterGoes, OrchestratorInv, TrackedInv

LEMMA CreatedKeeps ==
    ASSUME OrchestratorInv, UNCHANGED chainVars, HandleTaskCreated
    PROVE  OrchestratorInv'
<1> DEFINE t == Head(chainEvents).task
<1>1. Event("TaskCreated") /\ UNCHANGED <<chainTasks, outcomes, poll, pnl, expected>>
  BY DEF HandleTaskCreated, chainVars
<1>2. Created(t) /\ chainEvents # <<>> /\ chainEvents' = Tail(chainEvents)
  BY <1>1, HeadOf
<1>3. \E new \in {"detected", "routed"} :
        trackedTasks' = [trackedTasks EXCEPT ![t] = [status |-> new, routedTo |-> RouteOf(t)]]
  BY DEF HandleTaskCreated, RouteOf
<1>4. known' \subseteq known \cup {t} /\ misread \subseteq misread' \cup {t}
  BY DEF HandleTaskCreated
<1>5. RouterGoes
  <2>1. t \in TaskIds
    BY <1>2, TaskType DEF OrchestratorInv
  <2> QED BY <1>1, <1>2, <1>3, <1>4, <2>1, EntryGoes
<1> QED BY <1>1, <1>2, <1>5, UnrecordedKeeps

\* A poll that goes on to the next task, or has its answer, while nothing else moves.
LEMMA PollsKeep ==
    ASSUME OrchestratorInv, UNCHANGED chainVars, StartPoll \/ PollGet \/ PollFails
    PROVE  OrchestratorInv'
<1>1. UNCHANGED <<chainTasks, outcomes, trackedTasks, known, misread, pnl, expected, chainEvents>>
  BY DEF StartPoll, PollGet, PollFails, chainVars
<1>2. RouterGoes /\ Len(chainTasks) \in Nat /\ Len(chainTasks) <= MaxTasks /\ MaxTasks \in Nat
  BY <1>1, TrackingSame, TasksAssumption DEF OrchestratorInv, ChainTypes
<1>3. PollInv
  BY DEF OrchestratorInv
<1>4. \A t : Tracked(t)' = Tracked(t) /\ Created(t)' = Created(t)
  BY <1>1, ChainSame DEF Tracked
<1>5. SUFFICES PollInv'
  BY <1>1, <1>2, UnrecordedKeeps
<1>6. Unread # Asked /\ Unread # Empty /\ Empty # Asked
  BY DEF Unread, Asked, Empty
<1>7. CASE StartPoll
  <2> DEFINE count == Len(chainTasks)
             first == IF count > RouterWindow + 1 THEN count - RouterWindow ELSE 1
  <2>1. poll' = [first |-> first, next |-> first, last |-> count, seen |-> Unread,
                 complete |-> TRUE]
    BY <1>7 DEF StartPoll
  <2>2. first \in Nat /\ count \in Nat
    BY <1>2, TasksAssumption
  <2> HIDE DEF first
  <2>3. /\ IsPoll(poll') /\ poll'.last = count /\ poll'.seen = Unread
        /\ poll'.first = first /\ poll'.next = first
    BY <2>1, <2>2 DEF IsPoll
  <2> QED BY <1>1, <1>6, <2>2, <2>3 DEF PollInv
<1>8. CASE PollGet
  <2>1. poll.next <= poll.last /\ poll.seen = Unread
    BY <1>8 DEF PollGet
  <2>2. poll.next \in TaskIds
    BY <1>2, <1>3, <2>1 DEF PollInv, IsPoll, TaskIds
  <2>3. CASE Tracked(poll.next) /\ poll' = [poll EXCEPT !.next = poll.next + 1]
    <3>1. /\ IsPoll(poll') /\ poll'.last = poll.last /\ poll'.seen = Unread
          /\ poll'.first = poll.first /\ poll'.next = poll.next + 1
          /\ poll'.complete = poll.complete
      BY <1>3, <2>1, <2>3 DEF PollInv, IsPoll
    <3>2. poll.complete => \A t \in poll.first .. poll.next : t \in TaskIds /\ Tracked(t)
      BY <1>3, <2>2, <2>3 DEF PollInv, IsPoll
    <3>3. poll'.next - 1 = poll.next
      BY <1>3, <3>1 DEF PollInv, IsPoll
    <3> QED BY <1>1, <1>3, <1>4, <1>6, <3>1, <3>2, <3>3 DEF PollInv
  <2>4. ASSUME NEW seen, poll' = [poll EXCEPT !.seen = seen],
               \/ Created(poll.next) /\ seen \in DOMAIN mapOnChainStatus
               \/ seen = Empty
        PROVE  PollInv'
    <3>1. seen # Asked
      BY <1>6, <2>4 DEF mapOnChainStatus, Asked
    <3>2. /\ IsPoll(poll') /\ poll'.last = poll.last /\ poll'.seen = seen
          /\ poll'.first = poll.first /\ poll'.next = poll.next
          /\ poll'.complete = poll.complete
      BY <1>3, <2>4 DEF PollInv, IsPoll
    <3> QED BY <1>1, <1>3, <1>4, <2>1, <2>4, <3>1, <3>2 DEF PollInv
  <2>5. poll.next < Len(chainTasks) =>
            /\ Created(poll.next)
            /\ Task(poll.next).status \in DOMAIN mapOnChainStatus
    <3>1. poll.next < Len(chainTasks) => Created(poll.next)
      BY <1>3 DEF PollInv, IsPoll, Created
    <3> QED BY <3>1, TaskType DEF OrchestratorInv, OnChain, Changes, mapOnChainStatus
  <2> QED BY <1>8, <2>3, <2>4, <2>5 DEF PollGet
<1>9. CASE PollFails
  <2> DEFINE whole == poll.complete /\ poll.seen = Asked
  <2>1. /\ IsPoll(poll') /\ poll'.last = poll.last /\ poll'.seen = Unread
        /\ poll'.first = poll.first /\ poll'.next = poll.next + 1
        /\ poll'.complete = whole
    BY <1>3, <1>9 DEF PollFails, PollInv, IsPoll
  <2>2. whole => \A t \in poll.first .. poll.next : t \in TaskIds /\ Tracked(t)
    <3>1. whole => Created(poll.next) /\ Tracked(poll.next)
      BY <1>3, <1>6 DEF PollInv
    <3>2. whole => poll.next \in TaskIds
      BY <3>1, TaskType DEF OrchestratorInv
    <3> QED BY <1>3, <3>1, <3>2 DEF PollInv, IsPoll
  <2>3. poll'.next - 1 = poll.next
    BY <1>3, <2>1 DEF PollInv, IsPoll
  <2> HIDE DEF whole
  <2> QED BY <1>1, <1>3, <1>4, <1>6, <2>1, <2>2, <2>3 DEF PollInv
<1> QED BY <1>7, <1>8, <1>9

\* An answer that is kept makes its task tracked, be it the empty one.
LEMMA PollSetKeeps ==
    ASSUME OrchestratorInv, UNCHANGED chainVars, PollSet
    PROVE  OrchestratorInv'
<1> SUFFICES ASSUME NEW t, t = poll.next PROVE OrchestratorInv'
  OBVIOUS
<1>1. UNCHANGED <<chainTasks, outcomes, known, pnl, expected, chainEvents>>
  BY DEF PollSet, chainVars
<1>2. /\ PollInv /\ poll.seen \notin {Unread, Asked}
      /\ Len(chainTasks) \in Nat /\ Len(chainTasks) <= MaxTasks /\ MaxTasks \in Nat
  BY TasksAssumption DEF OrchestratorInv, ChainTypes, PollSet
<1>3. t \in TaskIds /\ t <= poll.last
  BY <1>2 DEF PollInv, IsPoll, TaskIds
<1>4. \E new \in {"detected", "routed", "bid_revealed", "assigned", "delivered", "executing",
                 "completed", "failed", "skipped"}, route \in Routes :
          /\ trackedTasks' = [trackedTasks EXCEPT ![t] = [status |-> new, routedTo |-> route]]
          /\ \/ Created(t) /\ route = RouteOf(t)
             \/ t \in misread' /\ route = "none"
  <2>1. CASE poll.seen = Empty
    BY <2>1 DEF PollSet, Routes
  <2>2. CASE poll.seen # Empty
    <3>1. Created(t)
      BY <1>2, <2>2 DEF PollInv
    <3>2. RouteOf(t) \in Routes
      BY <3>1, TaskType DEF OrchestratorInv, RouteOf, OnChain, Routes, TASK_TYPE_ROUTES
    <3>3. mapOnChainStatus[poll.seen] \in {"detected", "bid_revealed", "assigned", "delivered",
                                            "executing", "completed", "failed", "skipped"}
      BY <1>2, <2>2 DEF PollInv, IsPoll, mapOnChainStatus
    <3>4. trackedTasks' = [trackedTasks EXCEPT ![t] =
                             [status |-> mapOnChainStatus[poll.seen], routedTo |-> RouteOf(t)]]
      BY <2>2 DEF PollSet, RouteOf
    <3> QED BY <3>1, <3>2, <3>3, <3>4
  <2> QED BY <2>1, <2>2
<1>5. misread \subseteq misread' \cup {t} /\ known' \subseteq known \cup {t}
  BY <1>1 DEF PollSet
<1>6. RouterGoes
  <2>1. PICK new \in {"detected", "routed", "bid_revealed", "assigned", "delivered", "executing",
                      "completed", "failed", "skipped"}, route \in Routes :
          /\ trackedTasks' = [trackedTasks EXCEPT ![t] = [status |-> new, routedTo |-> route]]
          /\ \/ Created(t) /\ route = RouteOf(t)
             \/ t \in misread' /\ route = "none"
    BY <1>4
  <2> QED BY <1>1, <1>3, <1>5, <2>1, EntryGoes
<1>7. Tracked(t)' /\ \A u \in TaskIds : Tracked(u) => Tracked(u)'
  <2>1. PICK new, route :
          /\ trackedTasks' = [trackedTasks EXCEPT ![t] = [status |-> new, routedTo |-> route]]
          /\ new \in {"detected", "routed", "bid_revealed", "assigned", "delivered", "executing",
                     "completed", "failed", "skipped"}
    BY <1>4
  <2>2. trackedTasks'[t].status = new
    BY <1>3, <2>1 DEF OrchestratorInv, TrackedInv
  <2>3. trackedTasks'[t] # NotTracked
    BY <2>1, <2>2 DEF NotTracked
  <2>4. Tracked(t)'
    BY <2>3 DEF Tracked
  <2> QED BY <1>6, <2>4 DEF RouterGoes
<1>8. \A u : Created(u)' = Created(u)
  BY <1>1, ChainSame
<1>9. PollInv'
  <2>1. CASE poll.seen = "Assigned" /\ poll' = [poll EXCEPT !.seen = Asked]
    <3>1. /\ IsPoll(poll') /\ poll'.last = poll.last /\ poll'.seen = Asked
          /\ poll'.first = poll.first /\ poll'.next = t
          /\ poll'.complete = poll.complete
      BY <1>2, <2>1 DEF PollInv, IsPoll
    <3>2. Created(t)
      BY <1>2, <2>1 DEF PollInv, Unread, Empty
    <3>3. poll.complete => \A u \in poll.first .. t - 1 : u \in TaskIds /\ Tracked(u)'
      BY <1>2, <1>7 DEF PollInv
    <3> QED BY <1>1, <1>2, <1>3, <1>7, <1>8, <3>1, <3>2, <3>3 DEF PollInv
  <2>2. CASE poll' = [poll EXCEPT !.next = t + 1, !.seen = Unread]
    <3>1. /\ IsPoll(poll') /\ poll'.last = poll.last /\ poll'.seen = Unread
          /\ poll'.first = poll.first /\ poll'.next = t + 1 /\ t \in Nat
          /\ poll'.complete = poll.complete
      BY <1>2, <2>2 DEF PollInv, IsPoll
    <3>2. poll.complete => \A u \in poll.first .. t : u \in TaskIds /\ Tracked(u)'
      BY <1>2, <1>3, <1>7, <3>1 DEF PollInv, IsPoll
    <3>3. poll'.next - 1 = t /\ Unread # Asked
      BY <3>1 DEF Unread, Asked
    <3> QED BY <1>1, <1>2, <3>1, <3>2, <3>3 DEF PollInv
  <2> QED BY <2>1, <2>2 DEF PollSet
<1> QED BY <1>1, <1>6, <1>9, UnrecordedKeeps

\* The answer about the agent of an assigned task.
LEMMA AssignmentKeeps ==
    ASSUME OrchestratorInv, UNCHANGED chainVars, PollAssignment
    PROVE  OrchestratorInv'
<1> SUFFICES ASSUME NEW t, t = poll.next PROVE OrchestratorInv'
  OBVIOUS
<1>1. UNCHANGED <<chainTasks, outcomes, known, misread, pnl, expected, chainEvents>>
  BY DEF PollAssignment, chainVars
<1>2. PollInv /\ poll.seen = Asked /\ Unread # Asked /\ Empty # Asked
  BY DEF OrchestratorInv, PollAssignment, Unread, Empty, Asked
<1>3. Created(t) /\ Tracked(t) /\ t \in TaskIds /\ Len(chainTasks) \in Nat
  BY <1>2, TaskType DEF PollInv, OrchestratorInv, ChainTypes
<1>4. UNCHANGED trackedTasks \/ updateTask(t, "assigned")
  BY DEF PollAssignment
<1>5. RouterGoes
  BY <1>1, <1>3, <1>4, TrackingSame, UpdateGoes
<1>6. PollInv'
  <2>1. /\ IsPoll(poll') /\ poll'.last = poll.last /\ poll'.seen = Unread
        /\ poll'.first = poll.first /\ poll'.next = t + 1 /\ t \in Nat
        /\ poll'.complete = poll.complete
    BY <1>2 DEF PollAssignment, PollInv, IsPoll
  <2>2. poll.complete => \A u \in poll.first .. t : u \in TaskIds /\ Tracked(u)'
    BY <1>2, <1>3, <1>5, <2>1 DEF PollInv, IsPoll, RouterGoes
  <2>3. poll'.next - 1 = t
    BY <2>1
  <2> QED BY <1>1, <1>2, <1>3, <2>1, <2>2, <2>3 DEF PollInv
<1> QED BY <1>1, <1>5, <1>6, UnrecordedKeeps

LEMMA EndPollKeeps ==
    ASSUME OrchestratorInv, UNCHANGED chainVars, EndPoll
    PROVE  OrchestratorInv'
<1>1. UNCHANGED <<chainTasks, outcomes, trackedTasks, misread, pnl, expected, chainEvents>>
  BY DEF EndPoll, chainVars
<1>2. \A t : Tracked(t)' = Tracked(t) /\ EntryTrue(t)' = EntryTrue(t)
  BY <1>1, ChainSame DEF Tracked, EntryTrue
<1>3. \A t \in known' : t \in known \/ (t \in TaskIds /\ Tracked(t))
  <2>1. poll.complete => \A t \in poll.first .. poll.last - 1 : t \in TaskIds /\ Tracked(t)
    BY DEF EndPoll, OrchestratorInv, PollInv, IsPoll
  <2> QED BY <2>1 DEF EndPoll
<1>4. RouterGoes
  BY <1>1, <1>2, <1>3 DEF OrchestratorInv, TrackedInv, RouterGoes
<1>5. PollInv'
  <2>1. /\ IsPoll(NoPoll) /\ NoPoll.last = 0 /\ NoPoll.next = 0 /\ NoPoll.first = 0
        /\ NoPoll.seen = Unread /\ Unread # Asked
    BY DEF NoPoll, IsPoll, Unread, Asked
  <2>2. poll' = NoPoll /\ Len(chainTasks) \in Nat
    BY DEF EndPoll, OrchestratorInv, ChainTypes
  <2> QED BY <1>1, <2>1, <2>2 DEF PollInv
<1> QED BY <1>1, <1>4, <1>5, UnrecordedKeeps

-----------------------------------------------------------------------------
(* An outcome is reported.                                                 *)

LEMMA RecordedGrows ==
    ASSUME pnl \in Seq(PnlRecords), NEW rec \in PnlRecords, pnl' = Append(pnl, rec)
    PROVE  Recorded' = Recorded \cup {<<rec.task, rec.outcome>>}
<1> DEFINE n == Len(pnl) + 1
<1>1. /\ DOMAIN pnl' = DOMAIN pnl \cup {n} /\ pnl'[n] = rec
      /\ \A i \in DOMAIN pnl : pnl'[i] = pnl[i]
  BY Appended
<1> HIDE DEF n
<1>2. Recorded' = {<<pnl'[i].task, pnl'[i].outcome>> : i \in DOMAIN pnl'}
  BY DEF Recorded
<1>3. ASSUME NEW x \in Recorded' PROVE x \in Recorded \cup {<<rec.task, rec.outcome>>}
  BY <1>1, <1>2 DEF Recorded
<1>4. ASSUME NEW x \in Recorded \cup {<<rec.task, rec.outcome>>} PROVE x \in Recorded'
  BY <1>1, <1>2 DEF Recorded
<1> QED BY <1>3, <1>4

\* What a report of task t does to the records.
ReportStep(t, name) ==
    /\ \/ ~Task(t).ours /\ UNCHANGED <<trackedTasks, pnl>>
       \/ /\ Task(t).ours
          /\ \E new \in {"completed", "failed"} : updateTask(t, new)
          /\ \/ trackedTasks[t].routedTo = "none" /\ UNCHANGED pnl
             \/ /\ trackedTasks[t].routedTo # "none"
                /\ \E rec \in [task : {t}, agent : {trackedTasks[t].routedTo},
                              outcome : {Reports[name]}, stakeAmount : Int,
                              payoutAmount : Int, slashAmount : Int] : pnl' = Append(pnl, rec)
    /\ Expect(t, Reports[name])
    /\ UNCHANGED <<chainTasks, outcomes, poll, known, misread>>

LEMMA ReportKeeps ==
    ASSUME OrchestratorInv, NEW name \in DOMAIN Reports, Event(name),
           NEW t, t = Head(chainEvents).task, ReportStep(t, name)
    PROVE  OrchestratorInv'
<1> DEFINE o == Reports[name]
<1>1. /\ chainEvents # <<>> /\ chainEvents' = Tail(chainEvents)
      /\ Head(chainEvents) = chainEvents[1] /\ 1 \in DOMAIN chainEvents
      /\ Created(t) /\ Head(chainEvents).name = name /\ t \in Nat
  BY HeadOf DEF Created
<1>2. /\ Happened(t, o) /\ <<t, o>> \notin Recorded
      /\ Task(t).ours => <<t, o>> \in outcomes
  BY <1>1 DEF OrchestratorInv, EventsInv
<1>3. t \in TaskIds /\ Report = <<t, o>> /\ o \in {"Completed", "Failed"}
  BY <1>1, TaskType DEF OrchestratorInv, Report, Reports
<1>4. UNCHANGED <<chainTasks, outcomes, poll, known, misread>>
  BY DEF ReportStep
<1>5. RouterGoes
  <2>1. CASE UNCHANGED trackedTasks
    BY <1>4, <2>1, TrackingSame
  <2>2. CASE \E new \in {"completed", "failed"} : updateTask(t, new)
    BY <1>1, <1>4, <2>2, UpdateGoes
  <2> QED BY <2>1, <2>2 DEF ReportStep
<1>6. /\ trackedTasks[t] \in RouterTasks
      /\ trackedTasks[t].routedTo # "none" => Tracked(t) /\ trackedTasks[t].routedTo = RouteOf(t)
      /\ t \in known \ misread => trackedTasks[t].routedTo = RouteOf(t)
  BY <1>3 DEF OrchestratorInv, TrackedInv, EntryTrue, Tracked, NotTracked
<1>7. expected' \in {expected, expected \cup {<<t, o>>}}
  BY DEF ReportStep, Expect
<1>8. CASE UNCHANGED pnl
  <2>1. Recorded' = Recorded
    BY <1>8 DEF Recorded
  <2>2. expected' = expected
    BY <1>6, <1>8 DEF ReportStep, Expect, RouteOf
  <2>3. RecordsInv'
    BY <1>4, <1>8, <2>2, RecordedSame
  <2>4. EventsInv' /\ chainEvents' \in Seq(Events)
    BY <1>1, <1>4, <2>1, EventsKeep DEF QueueGoes
  <2>5. ChainTypes'
    BY <1>4, <1>8, <2>4 DEF OrchestratorInv, ChainTypes
  <2> QED BY <1>4, <1>5, <2>3, <2>4, <2>5, TrackingKeeps DEF OrchestratorInv
<1>9. ASSUME trackedTasks[t].routedTo # "none", Task(t).ours,
             NEW rec \in [task : {t}, agent : {trackedTasks[t].routedTo}, outcome : {o},
                          stakeAmount : Int, payoutAmount : Int, slashAmount : Int],
             pnl' = Append(pnl, rec)
      PROVE  OrchestratorInv'
  <2>1. rec \in PnlRecords /\ rec.task = t /\ rec.outcome = o /\ rec.agent = RouteOf(t)
    BY <1>1, <1>3, <1>6, <1>9 DEF PnlRecords, RouterTasks
  <2>2. pnl \in Seq(PnlRecords)
    BY DEF OrchestratorInv, ChainTypes
  <2>3. Recorded' = Recorded \cup {<<t, o>>}
    BY <1>9, <2>1, <2>2, RecordedGrows
  <2>4. EventsInv' /\ chainEvents' \in Seq(Events)
    BY <1>1, <1>3, <1>4, <2>3, EventsKeep DEF QueueGoes
  <2>5. /\ pnl' \in Seq(PnlRecords) /\ Len(pnl') = Len(pnl) + 1
        /\ DOMAIN pnl' = DOMAIN pnl \cup {Len(pnl) + 1} /\ pnl'[Len(pnl) + 1] = rec
        /\ \A i \in DOMAIN pnl : pnl'[i] = pnl[i]
    BY <1>9, <2>1, <2>2, Appended
  <2>6. ChainTypes'
    BY <1>4, <2>4, <2>5 DEF OrchestratorInv, ChainTypes
  <2>7. \A i, j \in DOMAIN pnl' :
            pnl'[i].task = pnl'[j].task /\ pnl'[i].outcome = pnl'[j].outcome => i = j
    <3>1. \A i \in DOMAIN pnl : ~(pnl[i].task = t /\ pnl[i].outcome = o)
      BY <1>2 DEF Recorded
    <3>2. \A i, j \in DOMAIN pnl :
              pnl[i].task = pnl[j].task /\ pnl[i].outcome = pnl[j].outcome => i = j
      BY DEF OrchestratorInv, RecordsInv
    <3> QED BY <2>1, <2>5, <3>1, <3>2
  <2>8. expected' \subseteq Recorded' /\ Recorded' \subseteq outcomes'
    BY <1>2, <1>4, <1>7, <1>9, <2>3 DEF OrchestratorInv, RecordsInv
  <2>9. ASSUME NEW i \in DOMAIN pnl', NEW r, r = pnl'[i]
        PROVE  Happened(r.task, r.outcome)' /\ r.agent = RouteOf(r.task)'
    <3>1. Happened(r.task, r.outcome) /\ r.agent = RouteOf(r.task)
      BY <1>2, <2>1, <2>5, <2>9 DEF OrchestratorInv, RecordsInv
    <3> QED BY <1>4, <3>1, ChainSame
  <2>10. RecordsInv'
    BY <2>7, <2>8, <2>9 DEF RecordsInv
  <2> QED BY <1>4, <1>5, <2>4, <2>6, <2>10, TrackingKeeps DEF OrchestratorInv
<1> QED BY <1>8, <1>9 DEF ReportStep

LEMMA OutcomeKeeps ==
    ASSUME OrchestratorInv, UNCHANGED chainVars, OnTaskCompleted \/ OnAgentSlashed
    PROVE  OrchestratorInv'
<1> SUFFICES ASSUME NEW t, t = Head(chainEvents).task PROVE OrchestratorInv'
  OBVIOUS
<1>1. UNCHANGED <<chainTasks, outcomes, poll, known, misread>>
  BY DEF OnTaskCompleted, OnAgentSlashed, chainVars
<1>2. CASE OnTaskCompleted
  <2>1. Event("TaskCompleted") /\ "TaskCompleted" \in DOMAIN Reports
        /\ Reports["TaskCompleted"] = "Completed"
    BY <1>2 DEF OnTaskCompleted, Reports
  <2>2. ASSUME NEW a
        PROVE  \E rec \in [task : {t}, agent : {a}, outcome : {"Completed"}, stakeAmount : Int,
                            payoutAmount : Int, slashAmount : Int] :
                  recordCompletion(t, a) = Append(pnl, rec)
    <3> DEFINE rec == [task |-> t, agent |-> a, outcome |-> "Completed", stakeAmount |-> 0,
                       payoutAmount |-> Payout, slashAmount |-> 0]
    <3>1. recordCompletion(t, a) = Append(pnl, rec)
      BY DEF recordCompletion
    <3>2. rec \in [task : {t}, agent : {a}, outcome : {"Completed"}, stakeAmount : Int,
                   payoutAmount : Int, slashAmount : Int]
      BY DEF Payout
    <3> QED BY <3>1, <3>2
  <2>3. ReportStep(t, "TaskCompleted")
    BY <1>1, <1>2, <2>1, <2>2 DEF OnTaskCompleted, ReportStep
  <2> QED BY <2>1, <2>3, ReportKeeps
<1>3. CASE OnAgentSlashed
  <2>1. Event("AgentSlashed") /\ "AgentSlashed" \in DOMAIN Reports
        /\ Reports["AgentSlashed"] = "Failed"
    BY <1>3 DEF OnAgentSlashed, Reports
  <2>2. ASSUME NEW a
        PROVE  \E rec \in [task : {t}, agent : {a}, outcome : {"Failed"}, stakeAmount : Int,
                            payoutAmount : Int, slashAmount : Int] :
                  recordSlash(t, a) = Append(pnl, rec)
    <3> DEFINE rec == [task |-> t, agent |-> a, outcome |-> "Failed", stakeAmount |-> 0,
                       payoutAmount |-> 0, slashAmount |-> Slash]
    <3>1. recordSlash(t, a) = Append(pnl, rec)
      BY DEF recordSlash
    <3>2. rec \in [task : {t}, agent : {a}, outcome : {"Failed"}, stakeAmount : Int,
                   payoutAmount : Int, slashAmount : Int]
      BY DEF Slash
    <3> QED BY <3>1, <3>2
  <2>3. ReportStep(t, "AgentSlashed")
    BY <1>1, <1>3, <2>1, <2>2 DEF OnAgentSlashed, ReportStep
  <2> QED BY <2>1, <2>3, ReportKeeps
<1> QED BY <1>2, <1>3

-----------------------------------------------------------------------------
(* The chain moves on.                                                     *)

Outcomes == {"Completed", "Failed"}

\* Tasks are added and change their status; what happened stays so.
ChainGoes ==
    /\ chainTasks' \in Seq(OnChain)
    /\ Len(chainTasks) <= Len(chainTasks') /\ Len(chainTasks') <= MaxTasks
    /\ \A t : Created(t) => Created(t)' /\ RouteOf(t)' = RouteOf(t)
    /\ \A t : \A o \in Outcomes :
          Happened(t, o) => Happened(t, o)' /\ Task(t)'.ours = Task(t).ours
    /\ outcomes \subseteq outcomes'

\* An outcome is announced when it happens.
EventGoes(e) ==
    /\ Created(e.task)'
    /\ e.name \in DOMAIN Reports =>
          /\ ~Happened(e.task, Reports[e.name]) /\ Happened(e.task, Reports[e.name])'
          /\ Task(e.task)'.ours => <<e.task, Reports[e.name]>> \in outcomes'

LEMMA ChainMoves ==
    ASSUME OrchestratorInv, UNCHANGED routerVars, ChainGoes,
           \/ chainEvents' = chainEvents
           \/ \E e \in Events : EventGoes(e) /\ chainEvents' = Append(chainEvents, e)
    PROVE  OrchestratorInv'
<1>1. UNCHANGED <<trackedTasks, poll, pnl, known, misread, expected>>
  BY DEF routerVars
<1>2. Recorded' = Recorded /\ \A t : Tracked(t)' = Tracked(t)
  BY <1>1 DEF Recorded, Tracked
<1>3. /\ chainEvents \in Seq(Events) /\ pnl \in Seq(PnlRecords) /\ Len(chainTasks) \in Nat
      /\ Len(chainTasks') \in Nat
  BY DEF OrchestratorInv, ChainTypes, ChainGoes
<1>4. ChainTypes'
  BY <1>1, <1>3, Appended DEF ChainTypes, ChainGoes
<1>5. TrackedInv'
  <2>1. \A t : EntryTrue(t) => EntryTrue(t)'
    BY <1>1 DEF EntryTrue, ChainGoes
  <2> QED BY <1>1, <1>2, <2>1 DEF OrchestratorInv, TrackedInv
<1>6. PollInv'
  <2>1. \A t : Created(t) => Created(t)'
    BY DEF ChainGoes
  <2>2. PollInv /\ poll.last \in Nat /\ Len(chainTasks) <= Len(chainTasks')
    BY DEF OrchestratorInv, PollInv, IsPoll, ChainGoes
  <2> QED BY <1>1, <1>2, <1>3, <2>1, <2>2 DEF PollInv
<1>7. \A e \in Events : e.name \in DOMAIN Reports => Reports[e.name] \in Outcomes
  BY DEF Reports, Outcomes
<1>8. \A i \in DOMAIN pnl : pnl[i].outcome \in Outcomes
  <2>1. \A i \in DOMAIN pnl : pnl[i] \in PnlRecords
    BY <1>3
  <2> QED BY <2>1 DEF PnlRecords, Outcomes
<1>9. RecordsInv'
  <2>1. ASSUME NEW i \in DOMAIN pnl, NEW r, r = pnl[i]
        PROVE  Happened(r.task, r.outcome)' /\ r.agent = RouteOf(r.task)'
    <3>1. Happened(r.task, r.outcome) /\ r.agent = RouteOf(r.task) /\ r.outcome \in Outcomes
      BY <1>8, <2>1 DEF OrchestratorInv, RecordsInv
    <3> QED BY <3>1 DEF ChainGoes, Happened
  <2>2. expected' \subseteq Recorded' /\ Recorded' \subseteq outcomes'
    BY <1>1, <1>2 DEF OrchestratorInv, RecordsInv, ChainGoes
  <2>3. \A i, j \in DOMAIN pnl :
            pnl[i].task = pnl[j].task /\ pnl[i].outcome = pnl[j].outcome => i = j
    BY DEF OrchestratorInv, RecordsInv
  <2> QED BY <1>1, <2>1, <2>2, <2>3 DEF RecordsInv
<1>10. ASSUME NEW i \in DOMAIN chainEvents, NEW e, e = chainEvents[i]
       PROVE  /\ Created(e.task) /\ Created(e.task)'
              /\ e.name \in DOMAIN Reports =>
                   /\ Happened(e.task, Reports[e.name]) /\ Happened(e.task, Reports[e.name])'
                   /\ <<e.task, Reports[e.name]>> \notin Recorded'
                   /\ Task(e.task)'.ours => <<e.task, Reports[e.name]>> \in outcomes'
                   /\ \A j \in DOMAIN chainEvents : chainEvents[j] = e => j = i
  <2>1. /\ Created(e.task)
        /\ e.name \in DOMAIN Reports =>
             /\ Happened(e.task, Reports[e.name])
             /\ <<e.task, Reports[e.name]>> \notin Recorded
             /\ Task(e.task).ours => <<e.task, Reports[e.name]>> \in outcomes
             /\ \A j \in DOMAIN chainEvents : chainEvents[j] = e => j = i
    BY <1>10 DEF OrchestratorInv, EventsInv
  <2>2. e.name \in DOMAIN Reports => Reports[e.name] \in Outcomes
    BY <1>3, <1>7, <1>10
  <2> QED BY <1>2, <2>1, <2>2 DEF ChainGoes
<1>11. CASE chainEvents' = chainEvents
  <2>1. EventsInv'
    BY <1>10, <1>11 DEF EventsInv
  <2> QED BY <1>4, <1>5, <1>6, <1>9, <2>1 DEF OrchestratorInv
<1>12. ASSUME NEW e \in Events, EventGoes(e), chainEvents' = Append(chainEvents, e)
       PROVE  OrchestratorInv'
  <2>1. /\ DOMAIN chainEvents' = DOMAIN chainEvents \cup {Len(chainEvents) + 1}
        /\ \A i \in DOMAIN chainEvents : chainEvents'[i] = chainEvents[i]
        /\ chainEvents'[Len(chainEvents) + 1] = e
    BY <1>3, <1>12, Appended
  <2>2. ASSUME e.name \in DOMAIN Reports
        PROVE  /\ \A i \in DOMAIN chainEvents : chainEvents[i] # e
               /\ <<e.task, Reports[e.name]>> \notin Recorded
    <3>1. ~Happened(e.task, Reports[e.name])
      BY <1>12, <2>2 DEF EventGoes
    <3>2. \A i \in DOMAIN chainEvents : chainEvents[i] # e
      BY <1>10, <2>2, <3>1
    <3>3. \A i \in DOMAIN pnl : Happened(pnl[i].task, pnl[i].outcome)
      BY DEF OrchestratorInv, RecordsInv
    <3>4. <<e.task, Reports[e.name]>> \notin Recorded
      BY <3>1, <3>3 DEF Recorded
    <3> QED BY <3>2, <3>4
  <2>3. ASSUME NEW i \in DOMAIN chainEvents', NEW d, d = chainEvents'[i]
        PROVE  /\ Created(d.task)'
               /\ d.name \in DOMAIN Reports =>
                    /\ Happened(d.task, Reports[d.name])'
                    /\ <<d.task, Reports[d.name]>> \notin Recorded'
                    /\ Task(d.task)'.ours => <<d.task, Reports[d.name]>> \in outcomes'
                    /\ \A j \in DOMAIN chainEvents' : chainEvents'[j] = d => j = i
    <3>1. CASE i \in DOMAIN chainEvents
      BY <1>10, <2>1, <2>2, <2>3, <3>1
    <3>2. CASE i = Len(chainEvents) + 1
      BY <1>2, <1>12, <2>1, <2>2, <2>3, <3>2 DEF EventGoes
    <3> QED BY <2>1, <3>1, <3>2
  <2>4. EventsInv'
    BY <2>3 DEF EventsInv
  <2> QED BY <1>4, <1>5, <1>6, <1>9, <2>4 DEF OrchestratorInv
<1> QED BY <1>11, <1>12

\* A task is created.
LEMMA CreateTaskKeeps ==
    ASSUME OrchestratorInv, UNCHANGED routerVars, NEW type \in TaskTypes, CreateTask(type)
    PROVE  OrchestratorInv'
<1> SUFFICES ASSUME NEW n, n = Len(chainTasks) PROVE OrchestratorInv'
  OBVIOUS
<1> DEFINE new == [type |-> type, status |-> "Open", ours |-> FALSE]
           e   == [name |-> "TaskCreated", task |-> n]
<1>1. chainTasks \in Seq(OnChain) /\ Len(chainTasks) \in Nat /\ Len(chainTasks) < MaxTasks
      /\ MaxTasks \in Nat
  BY TasksAssumption DEF OrchestratorInv, ChainTypes, CreateTask
<1>2. new \in OnChain
  BY TasksAssumption DEF OnChain, Changes
<1>3. chainTasks' = Append(chainTasks, new) /\ UNCHANGED outcomes
  BY DEF CreateTask
<1> HIDE DEF new
<1>4. /\ chainTasks' \in Seq(OnChain) /\ Len(chainTasks') = Len(chainTasks) + 1
      /\ \A i \in DOMAIN chainTasks : chainTasks'[i] = chainTasks[i]
  BY <1>1, <1>2, <1>3, Appended
<1>5. \A t : Created(t) => Created(t)' /\ Task(t)' = Task(t) /\ RouteOf(t)' = RouteOf(t)
  <2> SUFFICES ASSUME NEW t, Created(t)
               PROVE  Created(t)' /\ Task(t)' = Task(t) /\ RouteOf(t)' = RouteOf(t)
    OBVIOUS
  <2>1. t + 1 \in DOMAIN chainTasks
    BY TaskType DEF OrchestratorInv
  <2>2. Task(t)' = Task(t)
    BY <1>4, <2>1 DEF Task
  <2>3. Created(t)'
    BY <1>1, <1>4 DEF Created
  <2> QED BY <2>2, <2>3 DEF RouteOf
<1>6. ChainGoes
  BY <1>1, <1>3, <1>4, <1>5 DEF ChainGoes, Happened
<1>7. e \in Events /\ EventGoes(e)
  <2>1. e \in Events /\ e.task = n /\ e.name \notin DOMAIN Reports
    BY <1>1 DEF Events, Reports
  <2>2. Created(e.task)'
    BY <1>1, <1>4, <2>1 DEF Created
  <2> QED BY <2>1, <2>2 DEF EventGoes
<1>8. chainEvents' = chainEvents \/ chainEvents' = Append(chainEvents, e)
  BY DEF CreateTask, Announce
<1> QED BY <1>6, <1>7, <1>8, ChainMoves

\* A task changes its status.
LEMMA ChangeTaskKeeps ==
    ASSUME OrchestratorInv, UNCHANGED routerVars, NEW t \in 0 .. Len(chainTasks) - 1,
           NEW next, ChangeTask(t, next)
    PROVE  OrchestratorInv'
<1>1. /\ chainTasks \in Seq(OnChain) /\ Len(chainTasks) \in Nat /\ Len(chainTasks) <= MaxTasks
      /\ Created(t)
  BY DEF OrchestratorInv, ChainTypes, Created
<1>2. t + 1 \in DOMAIN chainTasks /\ Task(t) \in OnChain /\ Task(t) = chainTasks[t + 1]
  BY <1>1, TaskType DEF OrchestratorInv, Task
<1>3. /\ next \in Changes[Task(t).status] /\ next \in DOMAIN Changes
      /\ Task(t).status \in Outcomes => Task(t).status = "Completed" /\ next = "Failed"
      /\ next = "Completed" => Task(t).status \notin Outcomes
      /\ next = "Failed" => Task(t).status # "Failed"
      /\ next # "Assigned" \/ Task(t).status = "Open"
  BY <1>2 DEF ChangeTask, OnChain, Changes, Outcomes
<1>4. PICK ours \in BOOLEAN :
        /\ next # "Assigned" => ours = Task(t).ours
        /\ chainTasks' = [chainTasks EXCEPT ![t + 1] =
                            [[chainTasks[t + 1] EXCEPT !.status = next] EXCEPT !.ours = ours]]
  <2>1. PICK ours \in BOOLEAN :
          /\ next # "Assigned" => ours = Task(t).ours
          /\ chainTasks' = [chainTasks EXCEPT ![t + 1].status = next, ![t + 1].ours = ours]
    BY DEF ChangeTask
  <2> QED BY <1>1, <1>2, <2>1
<1> DEFINE new == [[chainTasks[t + 1] EXCEPT !.status = next] EXCEPT !.ours = ours]
<1>5. /\ new \in OnChain /\ new.type = Task(t).type /\ new.status = next
      /\ new.ours = ours
  BY <1>2, <1>3 DEF OnChain
<1>6. chainTasks' = [chainTasks EXCEPT ![t + 1] = new]
  BY <1>4
<1> HIDE DEF new
<1>7. /\ chainTasks' \in Seq(OnChain) /\ Len(chainTasks') = Len(chainTasks)
      /\ chainTasks'[t + 1] = new
      /\ \A i \in DOMAIN chainTasks : i # t + 1 => chainTasks'[i] = chainTasks[i]
  BY <1>1, <1>2, <1>5, <1>6
<1>8. /\ \A u : Created(u)' = Created(u)
      /\ \A u : Created(u) /\ u # t => Task(u)' = Task(u)
      /\ Task(t)' = new
  <2>1. \A u : Created(u)' = Created(u)
    BY <1>7 DEF Created
  <2>2. ASSUME NEW u, Created(u), u # t PROVE Task(u)' = Task(u)
    <3>1. u \in Nat /\ u + 1 \in DOMAIN chainTasks
      BY <2>2, TaskType DEF OrchestratorInv, Created
    <3>2. u + 1 # t + 1
      BY <1>1, <2>2, <3>1 DEF Created
    <3> QED BY <1>7, <3>1, <3>2 DEF Task
  <2>3. Task(t)' = new
    BY <1>7 DEF Task
  <2> QED BY <2>1, <2>2, <2>3
<1>9. \A u : Created(u) => RouteOf(u)' = RouteOf(u)
  BY <1>5, <1>8 DEF RouteOf
<1>10. ASSUME NEW u, NEW o \in Outcomes, Happened(u, o)
       PROVE  Happened(u, o)' /\ Task(u)'.ours = Task(u).ours
  <2>1. CASE u # t
    BY <1>8, <1>10, <2>1 DEF Happened
  <2>2. CASE u = t
    <3>1. Task(t).status = "Completed" /\ next = "Failed" /\ o = "Completed"
      BY <1>3, <1>10, <2>2 DEF Happened, Outcomes
    <3>2. Task(t)'.status = "Failed" /\ Task(t)'.ours = Task(t).ours
      BY <1>4, <1>5, <1>8, <3>1
    <3> QED BY <1>1, <1>8, <2>2, <3>1, <3>2 DEF Happened
  <2> QED BY <2>1, <2>2
<1>11. outcomes \subseteq outcomes'
  BY DEF ChangeTask
<1>12. ChainGoes
  BY <1>1, <1>7, <1>8, <1>9, <1>10, <1>11 DEF ChainGoes
<1>13. CASE next \in DOMAIN Announced
  <2> DEFINE e == [name |-> Announced[next], task |-> t]
  <2>1. /\ Announced[next] \in DOMAIN Reports =>
             next \in Outcomes /\ Reports[Announced[next]] = next
        /\ Announced[next] \in {"TaskCreated", "AgentAssigned", "TaskDelivered", "TaskCompleted",
                                "AgentSlashed", "TaskCancelled"}
    BY <1>13 DEF Announced, Reports, Outcomes
  <2>2. e \in Events /\ e.task = t /\ e.name = Announced[next]
    BY <2>1 DEF Events
  <2>3. ASSUME next \in Outcomes
        PROVE  /\ ~Happened(t, next) /\ Happened(t, next)'
               /\ Task(t)'.ours => <<t, next>> \in outcomes'
    <3>1. Task(t)'.status = next /\ Task(t)'.ours = Task(t).ours
      BY <1>4, <1>5, <1>8, <2>3 DEF Outcomes
    <3>2. ~Happened(t, next)
      BY <1>3, <2>3 DEF Happened, Outcomes
    <3>3. Happened(t, next)'
      BY <1>1, <1>8, <2>3, <3>1 DEF Happened, Outcomes
    <3>4. Task(t).ours => <<t, next>> \in outcomes'
      BY <2>3 DEF ChangeTask, Outcomes
    <3> QED BY <3>1, <3>2, <3>3, <3>4
  <2>4. EventGoes(e)
    BY <1>1, <1>8, <2>1, <2>2, <2>3 DEF EventGoes
  <2>5. chainEvents' = chainEvents \/ chainEvents' = Append(chainEvents, e)
    BY <1>13 DEF ChangeTask, Announce
  <2> HIDE DEF e
  <2> QED BY <1>12, <2>2, <2>4, <2>5, ChainMoves
<1>14. CASE next \notin DOMAIN Announced
  <2>1. chainEvents' = chainEvents
    BY <1>14 DEF ChangeTask
  <2> QED BY <1>12, <2>1, ChainMoves
<1> QED BY <1>13, <1>14

-----------------------------------------------------------------------------
\* The process is started again: the router's map is lost, the records stay.
LEMMA RestartKeeps ==
    ASSUME OrchestratorInv, Restart
    PROVE  OrchestratorInv'
<1>1. /\ UNCHANGED <<chainTasks, outcomes, pnl, expected>> /\ chainEvents' = <<>>
      /\ trackedTasks' = [t \in TaskIds |-> NotTracked] /\ poll' = NoPoll /\ known' = {}
  BY DEF Restart, chainVars
<1>2. Recorded' = Recorded /\ RecordsInv'
  BY <1>1, RecordedSame
<1>3. EventsInv' /\ chainEvents' \in Seq(Events)
  BY <1>1, <1>2, EventsKeep DEF QueueGoes
<1>4. NotTracked \in RouterTasks
  BY DEF NotTracked, RouterTasks, Routes
<1>5. TrackedInv'
  BY <1>1, <1>4 DEF TrackedInv, Tracked
<1>6. ChainTypes' /\ Len(chainTasks) \in Nat
  BY <1>1, <1>3 DEF OrchestratorInv, ChainTypes
<1>7. /\ IsPoll(NoPoll) /\ NoPoll.last = 0 /\ NoPoll.next = 0 /\ NoPoll.first = 0
      /\ NoPoll.seen = Unread /\ Unread # Asked
  BY DEF NoPoll, IsPoll, Unread, Asked
<1>8. PollInv'
  BY <1>1, <1>6, <1>7 DEF PollInv
<1> QED BY <1>2, <1>3, <1>5, <1>6, <1>8 DEF OrchestratorInv

LEMMA OrchestratorStep ==
    OrchestratorInv /\ [OrchestratorNext]_orchestratorVars => OrchestratorInv'
<1> SUFFICES ASSUME OrchestratorInv, [OrchestratorNext]_orchestratorVars PROVE OrchestratorInv'
  OBVIOUS
<1>1. CASE UNCHANGED <<routerVars, chainVars, chainEvents>>
  <2>1. UNCHANGED <<chainTasks, outcomes, trackedTasks, poll, pnl, known, misread, expected,
                    chainEvents>>
    BY <1>1 DEF routerVars, chainVars
  <2> QED BY <2>1, TrackingSame, UnrecordedKeeps
<1>2. CASE RouterStep /\ UNCHANGED <<agentVars, chainVars, restarts>>
  BY <1>2, ListeningKeeps, StopKeeps, CreatedKeeps, EventKeeps, OutcomeKeeps, PollsKeep,
     PollSetKeeps, AssignmentKeeps, EndPollKeeps DEF RouterStep
<1>3. CASE ChainStep /\ UNCHANGED <<agentVars, routerVars, restarts>>
  BY <1>3, CreateTaskKeeps, ChangeTaskKeeps DEF ChainStep
<1>4. CASE Restart
  BY <1>4, RestartKeeps
<1>5. CASE UNCHANGED orchestratorVars
  BY <1>1, <1>5 DEF orchestratorVars
<1> QED BY <1>1, <1>2, <1>3, <1>4, <1>5 DEF OrchestratorNext

\* pnl.json is true: over restarts, polls answered late, polls of a task that does not exist yet
\* and events under way, for any agents, windows and numbers of tasks, each record is an outcome
\* of a task of this wallet, recorded once and under the agent its type is routed to; and the
\* reports of tasks the router saw are recorded until a stop drops them, but those of a task
\* whose entry is the empty answer a poll got before it existed.
THEOREM RecordsAlwaysTrue == OrchestratorSpec => []RecordsTrue
<1>1. OrchestratorInv => RecordsTrue
  BY DEF OrchestratorInv, RecordsInv, Recorded, RouteOf, RecordsTrue
<1> QED BY <1>1, OrchestratorStart, OrchestratorStep, PTL DEF OrchestratorSpec

-----------------------------------------------------------------------------
(* The risk scores: ladders                                                *)

\* The scores of a ladder go down, to what is given past its last step.
Ladder(steps, otherwise) ==
    /\ \E n \in Nat : DOMAIN steps = 1 .. n
    /\ otherwise \in 0 .. 95
    /\ \A i \in DOMAIN steps : steps[i][1] \in Int /\ steps[i][2] \in otherwise .. 95
    /\ \A i, k \in DOMAIN steps : i <= k => steps[k][2] <= steps[i][2]

LEMMA LaddersDescend ==
    /\ Ladder(TvlSteps, 10) /\ Ladder(AgeSteps, 10) /\ Ladder(DepthSteps, 8)
    /\ Ladder(VolumeSteps, 20) /\ Ladder(ListedSteps, 15)
<1>1. Ladder(TvlSteps, 10)
  <2>1. DOMAIN TvlSteps = 1 .. 5
    BY DEF TvlSteps
  <2>2. \A i \in DOMAIN TvlSteps : TvlSteps[i][1] \in Int /\ TvlSteps[i][2] \in 10 .. 95
    BY <2>1 DEF TvlSteps
  <2>3. \A i, k \in DOMAIN TvlSteps : i <= k => TvlSteps[k][2] <= TvlSteps[i][2]
    BY <2>1 DEF TvlSteps
  <2> QED BY <2>1, <2>2, <2>3 DEF Ladder
<1>2. Ladder(AgeSteps, 10)
  <2>1. DOMAIN AgeSteps = 1 .. 5
    BY DEF AgeSteps
  <2>2. \A i \in DOMAIN AgeSteps : AgeSteps[i][1] \in Int /\ AgeSteps[i][2] \in 10 .. 95
    BY <2>1 DEF AgeSteps
  <2>3. \A i, k \in DOMAIN AgeSteps : i <= k => AgeSteps[k][2] <= AgeSteps[i][2]
    BY <2>1 DEF AgeSteps
  <2> QED BY <2>1, <2>2, <2>3 DEF Ladder
<1>3. Ladder(DepthSteps, 8)
  <2>1. DOMAIN DepthSteps = 1 .. 4
    BY DEF DepthSteps
  <2>2. \A i \in DOMAIN DepthSteps : DepthSteps[i][1] \in Int /\ DepthSteps[i][2] \in 8 .. 95
    BY <2>1 DEF DepthSteps
  <2>3. \A i, k \in DOMAIN DepthSteps : i <= k => DepthSteps[k][2] <= DepthSteps[i][2]
    BY <2>1 DEF DepthSteps
  <2> QED BY <2>1, <2>2, <2>3 DEF Ladder
<1>4. Ladder(VolumeSteps, 20)
  <2>1. DOMAIN VolumeSteps = 1 .. 3
    BY DEF VolumeSteps
  <2> QED BY <2>1 DEF VolumeSteps, Ladder
<1>5. Ladder(ListedSteps, 15)
  <2>1. DOMAIN ListedSteps = 1 .. 3
    BY DEF ListedSteps
  <2> QED BY <2>1 DEF ListedSteps, Ladder
<1> QED BY <1>1, <1>2, <1>3, <1>4, <1>5

LEMMA BelowFinds ==
    ASSUME NEW steps, NEW otherwise, Ladder(steps, otherwise), NEW value \in Int
    PROVE  \/ /\ \A i \in DOMAIN steps : value >= steps[i][1]
              /\ Below(value, steps, otherwise) = otherwise
           \/ \E i \in DOMAIN steps :
                 /\ value < steps[i][1] /\ \A k \in DOMAIN steps : value < steps[k][1] => i <= k
                 /\ Below(value, steps, otherwise) = steps[i][2]
<1> DEFINE hit == {i \in DOMAIN steps : value < steps[i][1]}
<1>1. Below(value, steps, otherwise) = IF hit = {} THEN otherwise ELSE steps[Min(hit)][2]
  BY DEF Below
<1>2. CASE hit = {}
  BY <1>1, <1>2 DEF Ladder
<1>3. CASE hit # {}
  <2>1. PICK n \in Nat : DOMAIN steps = 1 .. n
    BY DEF Ladder
  <2>2. IsFiniteSet(hit) /\ hit \subseteq Int
    BY <2>1, FS_Interval, FS_Subset
  <2>3. \E least \in hit : \A x \in hit : least <= x
    <3> HIDE DEF hit
    <3> QED BY <1>3, <2>2, Ends
  <2>4. Min(hit) \in hit /\ \A x \in hit : Min(hit) <= x
    <3> HIDE DEF hit
    <3> QED BY <2>3 DEF Min
  <2> QED BY <1>1, <1>3, <2>4
<1> QED BY <1>2, <1>3

\* What is further up a ladder is not riskier.
LEMMA BelowDescends ==
    ASSUME NEW steps, NEW otherwise, Ladder(steps, otherwise), NEW v \in Int, NEW w \in Int, v <= w
    PROVE  /\ Below(v, steps, otherwise) \in 0 .. 95 /\ Below(w, steps, otherwise) \in 0 .. 95
           /\ Below(w, steps, otherwise) <= Below(v, steps, otherwise)
<1>1. \A i \in DOMAIN steps :
        i \in Int /\ steps[i][1] \in Int /\ steps[i][2] \in otherwise .. 95 /\ otherwise \in 0 .. 95
  BY DEF Ladder
<1>2. CASE /\ \A i \in DOMAIN steps : w >= steps[i][1]
           /\ Below(w, steps, otherwise) = otherwise
  <2>1. otherwise \in 0 .. 95
    BY DEF Ladder
  <2>2. CASE Below(v, steps, otherwise) = otherwise
    BY <1>2, <2>1, <2>2
  <2>3. ASSUME NEW i \in DOMAIN steps, Below(v, steps, otherwise) = steps[i][2]
        PROVE  /\ Below(v, steps, otherwise) \in 0 .. 95
               /\ otherwise <= Below(v, steps, otherwise)
    BY <1>1, <2>1, <2>3
  <2> QED BY <1>2, <2>1, <2>2, <2>3, BelowFinds
<1>3. ASSUME NEW k \in DOMAIN steps, w < steps[k][1], Below(w, steps, otherwise) = steps[k][2]
      PROVE  /\ Below(v, steps, otherwise) \in 0 .. 95 /\ Below(w, steps, otherwise) \in 0 .. 95
             /\ Below(w, steps, otherwise) <= Below(v, steps, otherwise)
  <2>1. v < steps[k][1]
    BY <1>1, <1>3
  <2>2. PICK i \in DOMAIN steps : i <= k /\ Below(v, steps, otherwise) = steps[i][2]
    BY <1>1, <2>1, BelowFinds
  <2>3. steps[k][2] <= steps[i][2]
    BY <2>2 DEF Ladder
  <2> QED BY <1>1, <1>3, <2>2, <2>3
<1> QED BY <1>2, <1>3, BelowFinds

\* The score of a listing is one of four.
LEMMA ListedIs ==
    ASSUME NEW v \in Int
    PROVE  Below(v, ListedSteps, 15) \in {75, 55, 35, 15}
<1>1. DOMAIN ListedSteps = 1 .. 3
  BY DEF ListedSteps
<1>2. \A i \in 1 .. 3 : ListedSteps[i][2] \in {75, 55, 35}
  BY DEF ListedSteps
<1> QED BY <1>1, <1>2, BelowFinds, LaddersDescend

LEMMA MaxOfTwo ==
    ASSUME NEW a \in Int, NEW b \in Int
    PROVE  Max({a, b}) = IF a >= b THEN a ELSE b
<1>1. CASE a >= b
  <2>1. \A x \in {a, b} : (\A y \in {a, b} : x >= y) <=> x = a
    BY <1>1
  <2> QED BY <1>1, <2>1 DEF Max
<1>2. CASE ~(a >= b)
  <2>1. \A x \in {a, b} : (\A y \in {a, b} : x >= y) <=> x = b
    BY <1>2
  <2> QED BY <1>2, <2>1 DEF Max
<1> QED BY <1>1, <1>2

-----------------------------------------------------------------------------
(* Better data: as good as before in every datum, the audits the same, and *)
(* no first dollar that brings the surcharge.                              *)

BetterProtocol(p, q) ==
    \/ p = None /\ q = None
    \/ /\ p # None /\ q # None
       /\ p.tvl <= q.tvl /\ (p.tvl > 0 \/ ~Surcharged(q))
       /\ p.change24h <= q.change24h /\ p.change7d <= q.change7d
       /\ p.audits = q.audits /\ p.links = q.links
       /\ p.chains <= q.chains /\ (p.mature => q.mature) /\ p.mcap >= q.mcap
       /\ p.listed = q.listed \/ (p.listed # Unlisted /\ p.listed < q.listed /\ q.listed # Unlisted)

BetterContract(k, l) ==
    \/ k = None /\ l = None
    \/ /\ k # None /\ l # None
       /\ k.age <= l.age /\ (l.proxy => k.proxy) /\ k.verified = l.verified

BetterToken(k, l) ==
    \/ k = None /\ l = None
    \/ /\ k # None /\ l # None
       /\ k.volatility >= l.volatility /\ k.drawdown >= l.drawdown
       /\ k.change24h <= l.change24h /\ k.volume <= l.volume

BetterLiquidity(k, l) ==
    \/ k = None /\ l = None
    \/ /\ k # None /\ l # None
       /\ k.total <= l.total
       /\ k.largestPoolShare = l.largestPoolShare /\ k.poolCount = l.poolCount

Better(c, d) ==
    /\ BetterProtocol(c.protocol, d.protocol) /\ BetterContract(c.contract, d.contract)
    /\ BetterToken(c.token, d.token) /\ BetterLiquidity(c.liquidity, d.liquidity)

\* The types of the data.
ProtocolData ==
    [tvl : Nat, change24h : Int, change7d : Int, audits : Nat, links : Nat, chains : Nat,
     mature : BOOLEAN, mcap : Nat, listed : Int]
ContractData == [age : Nat, proxy : BOOLEAN, verified : BOOLEAN]
TokenData == [volatility : Int, drawdown : Int, change24h : Int, volume : Int]
LiquidityData == [total : Int, largestPoolShare : Int, poolCount : Int]

LEMMA ContextTypes ==
    ASSUME NEW c \in Contexts
    PROVE  /\ c.protocol = None \/ c.protocol \in ProtocolData
           /\ c.contract = None \/ c.contract \in ContractData
           /\ c.token = None \/ c.token \in TokenData
           /\ c.liquidity = None \/ c.liquidity \in LiquidityData
BY DEF Contexts, ProtocolData, ContractData, TokenData, LiquidityData

\* A score of d is not above that of c.
Lower(score, than) == score \in Nat /\ than \in Nat /\ score <= than

LEMMA TvlLower ==
    ASSUME NEW c \in Contexts, NEW d \in Contexts, Better(c, d)
    PROVE  Lower(scoreTvlConcentration(d), scoreTvlConcentration(c))
<1> DEFINE p == c.protocol
           q == d.protocol
           size(r) == IF r.tvl <= 0 THEN 95 ELSE Below(r.tvl, TvlSteps, 10)
           moves(r) == IF r.change24h < -10 THEN 15 ELSE If(r.change7d < -20, 10)
<1>1. CASE p = None /\ q = None
  BY <1>1 DEF scoreTvlConcentration, Lower
<1>2. CASE p # None /\ q # None
  <2>1. p \in ProtocolData /\ q \in ProtocolData
    BY <1>2, ContextTypes
  <2>2. p.tvl \in Nat /\ q.tvl \in Nat /\ p.tvl <= q.tvl
    BY <1>2, <2>1 DEF Better, BetterProtocol, ProtocolData
  <2>3. size(p) \in Nat /\ size(q) \in Nat /\ size(q) <= size(p)
    <3>1. Below(p.tvl, TvlSteps, 10) \in 0 .. 95 /\ Below(q.tvl, TvlSteps, 10) \in 0 .. 95
      BY <2>2, BelowDescends, LaddersDescend
    <3>2. Below(q.tvl, TvlSteps, 10) <= Below(p.tvl, TvlSteps, 10)
      BY <2>2, BelowDescends, LaddersDescend
    <3> QED BY <2>2, <3>1, <3>2
  <2>4. moves(p) \in Nat /\ moves(q) \in Nat /\ moves(q) <= moves(p)
    BY <1>2, <2>1 DEF Better, BetterProtocol, ProtocolData, If
  <2>5. /\ scoreTvlConcentration(c) = Cap(size(p) + moves(p))
        /\ scoreTvlConcentration(d) = Cap(size(q) + moves(q))
    BY <1>2 DEF scoreTvlConcentration
  <2> HIDE DEF size, moves
  <2> QED BY <2>3, <2>4, <2>5 DEF Cap, Lower
<1> QED BY <1>1, <1>2 DEF Better, BetterProtocol

LEMMA MaturityLower ==
    ASSUME NEW c \in Contexts, NEW d \in Contexts, Better(c, d)
    PROVE  Lower(scoreContractMaturity(d), scoreContractMaturity(c))
<1> DEFINE p == c.contract
           q == d.contract
           age(r) == Below(r.age, AgeSteps, 10)
<1>1. CASE p = None /\ q = None
  BY <1>1 DEF scoreContractMaturity, Lower
<1>2. CASE p # None /\ q # None
  <2>1. p \in ContractData /\ q \in ContractData
    BY <1>2, ContextTypes
  <2>2. p.age \in Int /\ q.age \in Int /\ p.age <= q.age
    BY <1>2, <2>1 DEF Better, BetterContract, ContractData
  <2>3. age(p) \in 0 .. 95 /\ age(q) \in 0 .. 95 /\ age(q) <= age(p)
    BY <2>2, BelowDescends, LaddersDescend
  <2>4. /\ If(p.proxy, 15) \in Nat /\ If(q.proxy, 15) \in Nat
        /\ If(q.proxy, 15) <= If(p.proxy, 15)
        /\ If(~p.verified, 10) \in Nat /\ If(~q.verified, 10) = If(~p.verified, 10)
    BY <1>2, <2>1 DEF Better, BetterContract, ContractData, If
  <2>5. /\ scoreContractMaturity(c) = Cap(Cap(age(p) + If(p.proxy, 15)) + If(~p.verified, 10))
        /\ scoreContractMaturity(d) = Cap(Cap(age(q) + If(q.proxy, 15)) + If(~q.verified, 10))
    BY <1>2 DEF scoreContractMaturity
  <2> HIDE DEF age
  <2> QED BY <2>3, <2>4, <2>5 DEF Cap, Lower
<1> QED BY <1>1, <1>2 DEF Better, BetterContract

LEMMA AuditsLower ==
    ASSUME NEW c \in Contexts, NEW d \in Contexts, Better(c, d)
    PROVE  Lower(scoreAuditStatus(d), scoreAuditStatus(c))
<1>1. CASE c.protocol = None /\ d.protocol = None
  BY <1>1 DEF scoreAuditStatus, Lower
<1>2. CASE c.protocol # None /\ d.protocol # None
  BY <1>2 DEF scoreAuditStatus, Lower, Better, BetterProtocol
<1> QED BY <1>1, <1>2 DEF Better, BetterProtocol

LEMMA VolatilityLower ==
    ASSUME NEW c \in Contexts, NEW d \in Contexts, Better(c, d)
    PROVE  Lower(scoreTokenVolatility(d), scoreTokenVolatility(c))
<1> DEFINE p == c.token
           q == d.token
           swing(k) == IF k.volatility > 200 THEN 95
                       ELSE IF k.volatility > 100 THEN 80
                       ELSE IF k.volatility > 60 THEN 60
                       ELSE IF k.volatility > 30 THEN 40
                       ELSE IF k.volatility > 15 THEN 25 ELSE 10
<1>1. CASE p = None /\ q = None
  BY <1>1 DEF scoreTokenVolatility, Lower
<1>2. CASE p # None /\ q # None
  <2>1. p \in TokenData /\ q \in TokenData
    BY <1>2, ContextTypes
  <2>2. swing(p) \in Nat /\ swing(q) \in Nat /\ swing(q) <= swing(p)
    BY <1>2, <2>1 DEF Better, BetterToken, TokenData
  <2>3. /\ If(p.drawdown > 90, 10) \in Nat /\ If(q.drawdown > 90, 10) \in Nat
        /\ If(q.drawdown > 90, 10) <= If(p.drawdown > 90, 10)
        /\ If(p.change24h < -15, 10) \in Nat /\ If(q.change24h < -15, 10) \in Nat
        /\ If(q.change24h < -15, 10) <= If(p.change24h < -15, 10)
    BY <1>2, <2>1 DEF Better, BetterToken, TokenData, If
  <2>4. /\ scoreTokenVolatility(c)
             = Cap(Cap(swing(p) + If(p.drawdown > 90, 10)) + If(p.change24h < -15, 10))
        /\ scoreTokenVolatility(d)
             = Cap(Cap(swing(q) + If(q.drawdown > 90, 10)) + If(q.change24h < -15, 10))
    BY <1>2 DEF scoreTokenVolatility
  <2> HIDE DEF swing
  <2> QED BY <2>2, <2>3, <2>4 DEF Cap, Lower
<1> QED BY <1>1, <1>2 DEF Better, BetterToken

LEMMA LiquidityLower ==
    ASSUME NEW c \in Contexts, NEW d \in Contexts, Better(c, d)
    PROVE  Lower(scoreLiquidityDepth(d), scoreLiquidityDepth(c))
<1> DEFINE p == c.liquidity
           q == d.liquidity
           depth(l) == IF l.total <= 0 THEN 95 ELSE Below(l.total, DepthSteps, 8)
           alone(l) == If(l.largestPoolShare > 90 /\ l.poolCount <= 1, 10)
<1>1. CASE p # None /\ q # None
  <2>1. p \in LiquidityData /\ q \in LiquidityData
    BY <1>1, ContextTypes
  <2>2. /\ p.total \in Int /\ q.total \in Int /\ p.total <= q.total
        /\ alone(p) = alone(q) /\ alone(p) \in Nat
    BY <1>1, <2>1 DEF Better, BetterLiquidity, LiquidityData, If
  <2>3. depth(p) \in Nat /\ depth(q) \in Nat /\ depth(q) <= depth(p)
    <3>1. /\ Below(p.total, DepthSteps, 8) \in 0 .. 95 /\ Below(q.total, DepthSteps, 8) \in 0 .. 95
          /\ Below(q.total, DepthSteps, 8) <= Below(p.total, DepthSteps, 8)
      BY <2>2, BelowDescends, LaddersDescend
    <3> QED BY <2>2, <3>1
  <2>4. /\ scoreLiquidityDepth(c) = Cap(depth(p) + alone(p))
        /\ scoreLiquidityDepth(d) = Cap(depth(q) + alone(q))
    BY <1>1 DEF scoreLiquidityDepth
  <2> HIDE DEF depth, alone
  <2> QED BY <2>2, <2>3, <2>4 DEF Cap, Lower
<1>2. CASE p = None /\ q = None /\ c.token # None /\ d.token # None
  <2>1. c.token \in TokenData /\ d.token \in TokenData
    BY <1>2, ContextTypes
  <2>2. c.token.volume \in Int /\ d.token.volume \in Int /\ c.token.volume <= d.token.volume
    BY <1>2, <2>1 DEF Better, BetterToken, TokenData
  <2>3. /\ scoreLiquidityDepth(c) = Below(c.token.volume, VolumeSteps, 20)
        /\ scoreLiquidityDepth(d) = Below(d.token.volume, VolumeSteps, 20)
    BY <1>2 DEF scoreLiquidityDepth
  <2> QED BY <2>2, <2>3, BelowDescends, LaddersDescend DEF Lower
<1>3. CASE p = None /\ q = None /\ c.token = None /\ d.token = None
  BY <1>3 DEF scoreLiquidityDepth, Lower
<1> QED BY <1>1, <1>2, <1>3 DEF Better, BetterLiquidity, BetterToken

LEMMA GovernanceLower ==
    ASSUME NEW c \in Contexts, NEW d \in Contexts, Better(c, d)
    PROVE  Lower(scoreProtocolGovernance(d), scoreProtocolGovernance(c))
<1> DEFINE p == c.protocol
           q == d.protocol
           spread(r) == IF r.chains >= 5 THEN 15
                        ELSE IF r.chains >= 3 THEN 25
                        ELSE IF r.chains >= 2 THEN 40 ELSE 55
           grade(r) == Max({0, spread(r) - If(r.mature, 10)})
           large(r) == If(Surcharged(r), 10)
<1>1. CASE p = None /\ q = None
  BY <1>1 DEF scoreProtocolGovernance, Lower
<1>2. CASE p # None /\ q # None
  <2>1. p \in ProtocolData /\ q \in ProtocolData
    BY <1>2, ContextTypes
  <2>2. /\ spread(p) \in {15, 25, 40, 55} /\ spread(q) \in {15, 25, 40, 55}
        /\ spread(q) <= spread(p)
    BY <1>2, <2>1 DEF Better, BetterProtocol, ProtocolData
  <2>3. /\ If(p.mature, 10) \in {0, 10} /\ If(q.mature, 10) \in {0, 10}
        /\ If(p.mature, 10) <= If(q.mature, 10)
    BY <1>2, <2>1 DEF Better, BetterProtocol, ProtocolData, If
  <2>4. large(p) \in Nat /\ large(q) \in Nat /\ large(q) <= large(p)
    BY <1>2, <2>1 DEF Better, BetterProtocol, ProtocolData, If, Surcharged
  <2>5. /\ grade(p) = spread(p) - If(p.mature, 10) /\ grade(q) = spread(q) - If(q.mature, 10)
        /\ grade(p) \in Nat /\ grade(q) \in Nat
    <3> HIDE DEF spread
    <3>1. spread(p) - If(p.mature, 10) \in Nat /\ spread(q) - If(q.mature, 10) \in Nat
      BY <2>2, <2>3
    <3>2. /\ spread(p) - If(p.mature, 10) > 0 /\ spread(q) - If(q.mature, 10) > 0
      BY <2>2, <2>3
    <3> QED BY <3>1, <3>2, MaxOfTwo
  <2>6. /\ scoreProtocolGovernance(c) = Cap(grade(p) + large(p))
        /\ scoreProtocolGovernance(d) = Cap(grade(q) + large(q))
    BY <1>2 DEF scoreProtocolGovernance
  <2> HIDE DEF grade, spread, large
  <2>7. grade(q) <= grade(p)
    BY <2>2, <2>3, <2>5
  <2> QED BY <2>4, <2>5, <2>6, <2>7 DEF Cap, Lower
<1> QED BY <1>1, <1>2 DEF Better, BetterProtocol

LEMMA IncidentsLower ==
    ASSUME NEW c \in Contexts, NEW d \in Contexts, Better(c, d)
    PROVE  Lower(scoreHistoricalIncidents(d), scoreHistoricalIncidents(c))
<1> DEFINE p == c.protocol
           q == d.protocol
           listed(r) == IF r = None THEN 50
                        ELSE IF r.listed = Unlisted THEN 50 ELSE Below(r.listed, ListedSteps, 15)
           old(k) == k # None /\ (IF k = None THEN FALSE ELSE k.age > 365)
           eased(n, k) == IF old(k) /\ n > 30 THEN Max({20, n - 15}) ELSE n
<1>1. /\ scoreHistoricalIncidents(c) = eased(listed(p), c.contract)
      /\ scoreHistoricalIncidents(d) = eased(listed(q), d.contract)
  BY DEF scoreHistoricalIncidents
<1>2. old(c.contract) \in BOOLEAN /\ old(d.contract) \in BOOLEAN
  OBVIOUS
<1>3. old(c.contract) => old(d.contract)
  <2>1. CASE c.contract # None /\ d.contract # None
    <3>1. c.contract \in ContractData /\ d.contract \in ContractData
      BY <2>1, ContextTypes
    <3> QED BY <2>1, <3>1 DEF Better, BetterContract, ContractData
  <2> QED BY <2>1 DEF Better, BetterContract
<1>4. \/ listed(p) = 50 /\ listed(q) = 50
      \/ /\ listed(p) \in {75, 55, 35, 15} /\ listed(q) \in {75, 55, 35, 15}
         /\ listed(q) <= listed(p)
  <2>1. CASE p = None /\ q = None
    BY <2>1
  <2>2. CASE p # None /\ q # None
    <3>1. p \in ProtocolData /\ q \in ProtocolData
      BY <2>2, ContextTypes
    <3>2. p.listed \in Int /\ q.listed \in Int
      BY <3>1 DEF ProtocolData
    <3>3. \/ p.listed = q.listed
          \/ p.listed # Unlisted /\ p.listed < q.listed /\ q.listed # Unlisted
      BY <2>2 DEF Better, BetterProtocol
    <3>4. CASE p.listed = Unlisted
      BY <2>2, <3>3, <3>4
    <3>5. CASE p.listed # Unlisted
      <4>1. q.listed # Unlisted /\ p.listed <= q.listed
        BY <3>2, <3>3, <3>5
      <4>2. /\ listed(p) = Below(p.listed, ListedSteps, 15)
            /\ listed(q) = Below(q.listed, ListedSteps, 15)
        BY <2>2, <3>5, <4>1
      <4> QED BY <3>2, <4>1, <4>2, ListedIs, BelowDescends, LaddersDescend
    <3> QED BY <3>4, <3>5
  <2> QED BY <2>1, <2>2 DEF Better, BetterProtocol
<1>5. \A n \in {75, 55, 50, 35, 15} :
        n - 15 \in Int /\ Max({20, n - 15}) = IF 20 >= n - 15 THEN 20 ELSE n - 15
  <2>1. \A n \in {75, 55, 50, 35, 15} : n - 15 \in Int
    OBVIOUS
  <2> QED BY <2>1, MaxOfTwo
<1> HIDE DEF listed, old
<1>6. Lower(eased(listed(q), d.contract), eased(listed(p), c.contract))
  BY <1>2, <1>3, <1>4, <1>5 DEF Lower
<1> QED BY <1>1, <1>6

-----------------------------------------------------------------------------
(* The weighted mean.                                                      *)

LEMMA Weights ==
    ASSUME NEW m \in {"standard", "conservative", "defi_native"}, NEW i \in 1 .. 7
    PROVE  MODEL_WEIGHTS[m][i] \in Nat
<1>1. CASE m = "standard"
  BY <1>1 DEF MODEL_WEIGHTS
<1>2. CASE m = "conservative"
  BY <1>2 DEF MODEL_WEIGHTS
<1>3. CASE m = "defi_native"
  BY <1>3 DEF MODEL_WEIGHTS
<1> QED BY <1>1, <1>2, <1>3

LEMMA Products ==
    ASSUME NEW a \in Nat, NEW b \in Nat, a <= b, NEW w \in Nat
    PROVE  a * w \in Int /\ b * w \in Int /\ a * w <= b * w
<1>1. a * w \in Nat /\ b * w \in Nat
  OBVIOUS
<1>2. PICK e \in Nat : b = a + e
  <2>1. b - a \in Nat /\ b = a + (b - a)
    OBVIOUS
  <2> QED BY <2>1
<1>3. b * w = a * w + e * w /\ e * w \in Nat
  BY <1>2
<1> QED BY <1>1, <1>3

LEMMA SevenScores == IsFiniteSet(1 .. 7)
<1>1. \A n \in Nat : IsFiniteSet(1 .. n)
  BY FS_Interval
<1> QED BY <1>1

\* However many data are better at once: the composite score is not higher.
LEMMA BetterScoresLower ==
    ASSUME NEW c \in Contexts, NEW d \in Contexts, Better(c, d),
           NEW m \in {"standard", "conservative", "defi_native"}
    PROVE  calculateRiskScore(d, m) <= calculateRiskScore(c, m)
<1> DEFINE weighted(x) == [i \in 1 .. 7 |-> SCORERS(x)[i] * MODEL_WEIGHTS[m][i]]
<1>1. ASSUME NEW i \in 1 .. 7 PROVE Lower(SCORERS(d)[i], SCORERS(c)[i])
  BY TvlLower, MaturityLower, AuditsLower, VolatilityLower, LiquidityLower, GovernanceLower,
     IncidentsLower DEF SCORERS
<1>2. ASSUME NEW i \in 1 .. 7
      PROVE  /\ weighted(d)[i] \in Int /\ weighted(c)[i] \in Int
             /\ weighted(d)[i] <= weighted(c)[i]
  <2>1. /\ SCORERS(d)[i] \in Nat /\ SCORERS(c)[i] \in Nat /\ SCORERS(d)[i] <= SCORERS(c)[i]
    BY <1>1 DEF Lower
  <2>2. MODEL_WEIGHTS[m][i] \in Nat
    BY Weights
  <2>3. /\ weighted(d)[i] = SCORERS(d)[i] * MODEL_WEIGHTS[m][i]
        /\ weighted(c)[i] = SCORERS(c)[i] * MODEL_WEIGHTS[m][i]
    OBVIOUS
  <2> DEFINE a == SCORERS(d)[i]
             b == SCORERS(c)[i]
             w == MODEL_WEIGHTS[m][i]
  <2>4. a \in Nat /\ b \in Nat /\ a <= b /\ w \in Nat
    BY <2>1, <2>2
  <2>5. weighted(d)[i] = a * w /\ weighted(c)[i] = b * w
    BY <2>3
  <2> HIDE DEF weighted, a, b, w
  <2>6. a * w \in Int /\ b * w \in Int /\ a * w <= b * w
    BY <2>4, Products
  <2> QED BY <2>5, <2>6
<1>3. IsFiniteSet(1 .. 7)
  BY SevenScores
<1> DEFINE total(x) == SumFunctionOnSet(weighted(x), 1 .. 7)
<1>4. total(d) \in Int /\ total(c) \in Int /\ total(d) <= total(c)
  <2> HIDE DEF weighted
  <2> QED BY <1>2, <1>3, SumInt, SumMonotone
<1>5. /\ calculateRiskScore(d, m) = (2 * total(d) + 100) \div 200
      /\ calculateRiskScore(c, m) = (2 * total(c) + 100) \div 200
  BY DEF calculateRiskScore
<1> HIDE DEF total
<1> QED BY <1>4, <1>5

-----------------------------------------------------------------------------
(* The machine: every step that is not set apart makes some datum better.  *)

LEMMA DataAreNot ==
    /\ \A r \in ProtocolData : r # None
    /\ \A r \in ContractData : r # None
    /\ \A r \in TokenData : r # None
    /\ \A r \in LiquidityData : r # None
<1>1. DOMAIN None = {"absent"}
  BY DEF None
<1>2. ASSUME NEW r \in ProtocolData PROVE "tvl" \in DOMAIN r
  BY DEF ProtocolData
<1>3. ASSUME NEW r \in ContractData PROVE "age" \in DOMAIN r
  BY DEF ContractData
<1>4. ASSUME NEW r \in TokenData PROVE "volume" \in DOMAIN r
  BY DEF TokenData
<1>5. ASSUME NEW r \in LiquidityData PROVE "total" \in DOMAIN r
  BY DEF LiquidityData
<1> QED BY <1>1, <1>2, <1>3, <1>4, <1>5

\* The data are of the sources' types, and the source that varies has some.
ScoringInv ==
    /\ model \in {"standard", "conservative", "defi_native"}
    /\ ctx \in Contexts
    /\ \/ varied = "protocol" /\ ctx.protocol \in ProtocolData
       \/ varied = "contract" /\ ctx.contract \in ContractData
       \/ varied = "token" /\ ctx.token \in TokenData
       \/ varied = "liquidity" /\ ctx.liquidity \in LiquidityData

LEMMA SameData ==
    /\ \A p \in ProtocolData : BetterProtocol(p, p)
    /\ \A p \in ContractData : BetterContract(p, p)
    /\ \A p \in TokenData : BetterToken(p, p)
    /\ \A p \in LiquidityData : BetterLiquidity(p, p)
    /\ BetterProtocol(None, None) /\ BetterContract(None, None)
    /\ BetterToken(None, None) /\ BetterLiquidity(None, None)
BY DataAreNot DEF BetterProtocol, BetterContract, BetterToken, BetterLiquidity, ProtocolData,
                  ContractData, TokenData, LiquidityData, Surcharged

LEMMA OneDatum ==
    ASSUME ScoringInv, NEW datum, NEW v, ctx' = [ctx EXCEPT ![varied][datum] = v]
    PROVE  /\ varied = "protocol" =>
                /\ ctx'.protocol = [ctx.protocol EXCEPT ![datum] = v]
                /\ ctx'.protocol \in ProtocolData => ctx' \in Contexts
                /\ BetterProtocol(ctx.protocol, ctx'.protocol) => Better(ctx, ctx')
           /\ varied = "contract" =>
                /\ ctx'.contract = [ctx.contract EXCEPT ![datum] = v]
                /\ ctx'.contract \in ContractData => ctx' \in Contexts
                /\ BetterContract(ctx.contract, ctx'.contract) => Better(ctx, ctx')
           /\ varied = "token" =>
                /\ ctx'.token = [ctx.token EXCEPT ![datum] = v]
                /\ ctx'.token \in TokenData => ctx' \in Contexts
                /\ BetterToken(ctx.token, ctx'.token) => Better(ctx, ctx')
           /\ varied = "liquidity" =>
                /\ ctx'.liquidity = [ctx.liquidity EXCEPT ![datum] = v]
                /\ ctx'.liquidity \in LiquidityData => ctx' \in Contexts
                /\ BetterLiquidity(ctx.liquidity, ctx'.liquidity) => Better(ctx, ctx')
<1>1. ctx \in Contexts
  BY DEF ScoringInv
<1>2. /\ BetterProtocol(ctx.protocol, ctx.protocol) /\ BetterContract(ctx.contract, ctx.contract)
      /\ BetterToken(ctx.token, ctx.token) /\ BetterLiquidity(ctx.liquidity, ctx.liquidity)
  BY <1>1, ContextTypes, SameData
<1>3. ASSUME varied = "protocol"
      PROVE  /\ ctx'.protocol = [ctx.protocol EXCEPT ![datum] = v]
             /\ ctx'.contract = ctx.contract /\ ctx'.token = ctx.token
             /\ ctx'.liquidity = ctx.liquidity
             /\ ctx'.protocol \in ProtocolData => ctx' \in Contexts
  BY <1>1, <1>3 DEF Contexts, ProtocolData
<1>4. ASSUME varied = "contract"
      PROVE  /\ ctx'.contract = [ctx.contract EXCEPT ![datum] = v]
             /\ ctx'.protocol = ctx.protocol /\ ctx'.token = ctx.token
             /\ ctx'.liquidity = ctx.liquidity
             /\ ctx'.contract \in ContractData => ctx' \in Contexts
  BY <1>1, <1>4 DEF Contexts, ContractData
<1>5. ASSUME varied = "token"
      PROVE  /\ ctx'.token = [ctx.token EXCEPT ![datum] = v]
             /\ ctx'.protocol = ctx.protocol /\ ctx'.contract = ctx.contract
             /\ ctx'.liquidity = ctx.liquidity
             /\ ctx'.token \in TokenData => ctx' \in Contexts
  BY <1>1, <1>5 DEF Contexts, TokenData
<1>6. ASSUME varied = "liquidity"
      PROVE  /\ ctx'.liquidity = [ctx.liquidity EXCEPT ![datum] = v]
             /\ ctx'.protocol = ctx.protocol /\ ctx'.contract = ctx.contract
             /\ ctx'.token = ctx.token
             /\ ctx'.liquidity \in LiquidityData => ctx' \in Contexts
  BY <1>1, <1>6 DEF Contexts, LiquidityData
<1> QED BY <1>2, <1>3, <1>4, <1>5, <1>6 DEF Better

\* Of a protocol's data, but for the first dollar that brings the surcharge.
LEMMA ImproveProtocolBetter ==
    ASSUME ScoringInv, ImproveProtocol
    PROVE  /\ ctx' \in Contexts /\ ctx'.protocol \in ProtocolData
           /\ SetApart \/ Better(ctx, ctx')
<1> DEFINE p == ctx.protocol
           q == ctx'.protocol
           Becomes(datum, v) == ctx' = [ctx EXCEPT ![varied][datum] = v]
<1>1. varied = "protocol" /\ p \in ProtocolData
  BY DEF ScoringInv, ImproveProtocol
<1>2. SUFFICES q \in ProtocolData /\ (SetApart \/ BetterProtocol(p, q))
  <2>1. \E datum, v : Becomes(datum, v)
    BY DEF ImproveProtocol, ImproveNumber, Change
  <2> QED BY <1>1, <2>1, OneDatum
<1>3. ASSUME NEW datum, NEW v, Becomes(datum, v) PROVE q = [p EXCEPT ![datum] = v]
  BY <1>1, <1>3, OneDatum
<1>4. ASSUME NEW r \in ProtocolData PROVE r # None
  BY DataAreNot
<1> HIDE DEF p, q
<1> DEFINE Counted == {"tvl", "change24h", "change7d", "chains", "mcap", "listed"}
<1>5. ASSUME NEW datum \in Counted, NEW values \in SUBSET Nat, ImproveNumber(datum, values)
      PROVE  \E v \in values :
               /\ q = [p EXCEPT ![datum] = v]
               /\ IF datum \in Against THEN v < p[datum] ELSE v > p[datum]
  <2>1. PICK v \in values : Becomes(datum, v)
    BY <1>5 DEF ImproveNumber, Change
  <2>2. q = [p EXCEPT ![datum] = v]
    BY <1>3, <2>1
  <2>3. q[datum] = v
    BY <1>1, <2>2 DEF ProtocolData
  <2>4. IF datum \in Against THEN q[datum] < p[datum] ELSE q[datum] > p[datum]
    BY <1>1, <1>5 DEF ImproveNumber, p, q
  <2> QED BY <2>2, <2>3, <2>4
<1>6. CASE ImproveNumber("tvl", {99, 100, 999, 10000, 100000, 1000000})
  <2> DEFINE Tvls == {99, 100, 999, 10000, 100000, 1000000}
  <2>0. Tvls \subseteq Nat /\ ImproveNumber("tvl", Tvls)
    BY <1>6
  <2> HIDE DEF Tvls
  <2>1. PICK v \in Nat : q = [p EXCEPT !["tvl"] = v] /\ v > p.tvl
    BY <1>5, <2>0 DEF Against
  <2>2. q \in ProtocolData /\ p # None /\ q # None
    BY <1>1, <1>4, <2>1 DEF ProtocolData
  <2>3. CASE p.tvl > 0 \/ ~Surcharged(q)
    BY <1>1, <2>1, <2>2, <2>3 DEF ProtocolData, BetterProtocol
  <2>4. CASE p.tvl = 0 /\ Surcharged(q)
    BY <2>2, <2>4 DEF SetApart, p, q
  <2>5. p.tvl \in Nat
    BY <1>1 DEF ProtocolData
  <2> QED BY <2>2, <2>3, <2>4, <2>5
<1>7. CASE ImproveNumber("change24h", {0})
  <2>1. PICK v \in Nat : q = [p EXCEPT !["change24h"] = v] /\ v > p.change24h
    BY <1>5, <1>7 DEF Against
  <2> QED BY <1>1, <1>4, <2>1 DEF ProtocolData, BetterProtocol, Surcharged
<1>8. CASE ImproveNumber("change7d", {0})
  <2>1. PICK v \in Nat : q = [p EXCEPT !["change7d"] = v] /\ v > p.change7d
    BY <1>5, <1>8 DEF Against
  <2> QED BY <1>1, <1>4, <2>1 DEF ProtocolData, BetterProtocol, Surcharged
<1>9. CASE ImproveNumber("chains", {2, 3, 5})
  <2>1. PICK v \in Nat : q = [p EXCEPT !["chains"] = v] /\ v > p.chains
    BY <1>5, <1>9 DEF Against
  <2> QED BY <1>1, <1>4, <2>1 DEF ProtocolData, BetterProtocol, Surcharged
<1>10. CASE ImproveNumber("mcap", {0})
  <2>1. PICK v \in Nat : q = [p EXCEPT !["mcap"] = v] /\ v < p.mcap
    BY <1>5, <1>10 DEF Against
  <2> QED BY <1>1, <1>4, <2>1 DEF ProtocolData, BetterProtocol, Surcharged
<1>11. CASE p.listed # Unlisted /\ ImproveNumber("listed", {30, 180, 365})
  <2>1. PICK v \in Nat : q = [p EXCEPT !["listed"] = v] /\ v > p.listed
    BY <1>5, <1>11 DEF Against
  <2>2. v # Unlisted
    BY DEF Unlisted
  <2> QED BY <1>1, <1>4, <1>11, <2>1, <2>2 DEF ProtocolData, BetterProtocol, Surcharged
<1>12. CASE ~p.mature /\ Change("mature", {TRUE})
  <2>1. PICK b \in BOOLEAN : b = TRUE /\ q = [p EXCEPT !["mature"] = b]
    BY <1>3, <1>12 DEF Change
  <2>2. q \in ProtocolData
    BY <1>1, <2>1 DEF ProtocolData
  <2>3. q.mature = b
    BY <1>1, <2>1 DEF ProtocolData
  <2>4. /\ q.tvl = p.tvl /\ q.change24h = p.change24h /\ q.change7d = p.change7d
        /\ q.audits = p.audits /\ q.links = p.links /\ q.chains = p.chains /\ q.mcap = p.mcap
        /\ q.listed = p.listed
    BY <1>1, <2>1 DEF ProtocolData
  <2>5. p.mature => q.mature
    BY <2>1, <2>3
  <2>6. p.tvl \in Nat /\ p.change24h \in Int /\ p.change7d \in Int /\ p.chains \in Nat
        /\ p.mcap \in Nat
    BY <1>1 DEF ProtocolData
  <2> QED BY <1>1, <1>4, <2>2, <2>4, <2>5, <2>6 DEF BetterProtocol, Surcharged
<1> QED BY <1>6, <1>7, <1>8, <1>9, <1>10, <1>11, <1>12 DEF ImproveProtocol, p

LEMMA ImproveContractBetter ==
    ASSUME ScoringInv, ImproveContract
    PROVE  ctx' \in Contexts /\ ctx'.contract \in ContractData /\ Better(ctx, ctx')
<1> DEFINE p == ctx.contract
           q == ctx'.contract
           Becomes(datum, v) == ctx' = [ctx EXCEPT ![varied][datum] = v]
<1>1. varied = "contract" /\ p \in ContractData
  BY DEF ScoringInv, ImproveContract
<1>2. SUFFICES q \in ContractData /\ BetterContract(p, q)
  <2>1. \E datum, v : Becomes(datum, v)
    BY DEF ImproveContract, ImproveNumber, Change
  <2> QED BY <1>1, <2>1, OneDatum
<1>3. ASSUME NEW datum, NEW v, Becomes(datum, v) PROVE q = [p EXCEPT ![datum] = v]
  BY <1>1, <1>3, OneDatum
<1>4. ASSUME NEW r \in ContractData PROVE r # None
  BY DataAreNot
<1> HIDE DEF p, q
<1>5. CASE ImproveNumber("age", {6, 7, 30, 90, 180, 365, 366})
  <2> DEFINE Ages == {6, 7, 30, 90, 180, 365, 366}
  <2>0. Ages \subseteq Nat /\ ImproveNumber("age", Ages)
    BY <1>5
  <2> HIDE DEF Ages
  <2>1. PICK v \in Nat : Becomes("age", v)
    BY <2>0 DEF ImproveNumber, Change
  <2>2. q = [p EXCEPT !["age"] = v]
    BY <1>3, <2>1
  <2>3. q["age"] > p["age"]
    BY <1>1, <1>5 DEF ImproveNumber, Against, p, q
  <2> QED BY <1>1, <1>4, <2>2, <2>3 DEF ContractData, BetterContract
<1>6. CASE p.proxy /\ Change("proxy", {FALSE})
  <2>1. PICK b \in BOOLEAN : b = FALSE /\ q = [p EXCEPT !["proxy"] = b]
    BY <1>3, <1>6 DEF Change
  <2>2. q \in ContractData
    BY <1>1, <2>1 DEF ContractData
  <2>3. q.proxy = b
    BY <1>1, <2>1 DEF ContractData
  <2>4. q.age = p.age /\ q.verified = p.verified /\ p.age \in Nat
    BY <1>1, <2>1 DEF ContractData
  <2>5. q.proxy => p.proxy
    BY <2>1, <2>3
  <2>6. p.age <= q.age
    BY <2>4
  <2> QED BY <1>1, <1>4, <2>2, <2>4, <2>5, <2>6 DEF BetterContract
<1> QED BY <1>5, <1>6 DEF ImproveContract, p

LEMMA ImproveTokenBetter ==
    ASSUME ScoringInv, ImproveToken
    PROVE  ctx' \in Contexts /\ ctx'.token \in TokenData /\ Better(ctx, ctx')
<1> DEFINE p == ctx.token
           q == ctx'.token
           Becomes(datum, v) == ctx' = [ctx EXCEPT ![varied][datum] = v]
<1>1. varied = "token" /\ p \in TokenData
  BY DEF ScoringInv, ImproveToken
<1>2. SUFFICES q \in TokenData /\ BetterToken(p, q)
  <2>1. \E datum, v : Becomes(datum, v)
    BY DEF ImproveToken, ImproveNumber, Change
  <2> QED BY <1>1, <2>1, OneDatum
<1>3. ASSUME NEW datum, NEW v, Becomes(datum, v) PROVE q = [p EXCEPT ![datum] = v]
  BY <1>1, <1>3, OneDatum
<1>4. ASSUME NEW r \in TokenData PROVE r # None
  BY DataAreNot
<1> HIDE DEF p, q
<1> DEFINE Counted == {"volatility", "drawdown", "change24h", "volume"}
<1>5. ASSUME NEW datum \in Counted, NEW values \in SUBSET Nat, ImproveNumber(datum, values)
      PROVE  \E v \in values :
               /\ q = [p EXCEPT ![datum] = v]
               /\ IF datum \in Against THEN v < p[datum] ELSE v > p[datum]
  <2>1. PICK v \in values : Becomes(datum, v)
    BY <1>5 DEF ImproveNumber, Change
  <2>2. q = [p EXCEPT ![datum] = v]
    BY <1>3, <2>1
  <2>3. q[datum] = v
    BY <1>1, <2>2 DEF TokenData
  <2>4. IF datum \in Against THEN q[datum] < p[datum] ELSE q[datum] > p[datum]
    BY <1>1, <1>5 DEF ImproveNumber, p, q
  <2> QED BY <2>2, <2>3, <2>4
<1>6. CASE ImproveNumber("volatility", {15, 16, 31, 61, 101})
  <2>1. PICK v \in Nat : q = [p EXCEPT !["volatility"] = v] /\ v < p.volatility
    BY <1>5, <1>6 DEF Against
  <2> QED BY <1>1, <1>4, <2>1 DEF TokenData, BetterToken
<1>7. CASE ImproveNumber("drawdown", {90})
  <2>1. PICK v \in Nat : q = [p EXCEPT !["drawdown"] = v] /\ v < p.drawdown
    BY <1>5, <1>7 DEF Against
  <2> QED BY <1>1, <1>4, <2>1 DEF TokenData, BetterToken
<1>8. CASE ImproveNumber("change24h", {0})
  <2>1. PICK v \in Nat : q = [p EXCEPT !["change24h"] = v] /\ v > p.change24h
    BY <1>5, <1>8 DEF Against
  <2> QED BY <1>1, <1>4, <2>1 DEF TokenData, BetterToken
<1>9. CASE ImproveNumber("volume", {10, 100, 1000})
  <2>1. PICK v \in Nat : q = [p EXCEPT !["volume"] = v] /\ v > p.volume
    BY <1>5, <1>9 DEF Against
  <2> QED BY <1>1, <1>4, <2>1 DEF TokenData, BetterToken
<1> QED BY <1>6, <1>7, <1>8, <1>9 DEF ImproveToken

LEMMA ImproveLiquidityBetter ==
    ASSUME ScoringInv, ImproveLiquidity
    PROVE  ctx' \in Contexts /\ ctx'.liquidity \in LiquidityData /\ Better(ctx, ctx')
<1> DEFINE p == ctx.liquidity
           q == ctx'.liquidity
<1>1. varied = "liquidity" /\ p \in LiquidityData
  BY DEF ScoringInv, ImproveLiquidity
<1>2. PICK v \in Nat : ctx' = [ctx EXCEPT ![varied]["total"] = v]
  <2> DEFINE Totals == {49, 50, 500, 1000}
  <2>1. Totals \subseteq Nat /\ ImproveNumber("total", Totals)
    BY DEF ImproveLiquidity
  <2> HIDE DEF Totals
  <2> QED BY <2>1 DEF ImproveNumber, Change
<1>3. /\ q = [p EXCEPT !["total"] = v]
      /\ q \in LiquidityData => ctx' \in Contexts
      /\ BetterLiquidity(p, q) => Better(ctx, ctx')
  BY <1>1, <1>2, OneDatum
<1>4. q["total"] > p["total"]
  BY <1>1 DEF ImproveLiquidity, ImproveNumber, Against
<1> HIDE DEF p, q
<1>5. q \in LiquidityData
  BY <1>1, <1>3 DEF LiquidityData
<1>6. p # None /\ q # None
  BY <1>1, <1>5, DataAreNot
<1>7. BetterLiquidity(p, q)
  BY <1>1, <1>3, <1>4, <1>5, <1>6 DEF LiquidityData, BetterLiquidity
<1> QED BY <1>3, <1>5, <1>7 DEF q

\* An added audit or link is set apart.
LEMMA AddAuditApart ==
    ASSUME ScoringInv, AddAudit
    PROVE  ctx' \in Contexts /\ ctx'.protocol \in ProtocolData /\ SetApart
<1>1. varied = "protocol" /\ ctx.protocol \in ProtocolData
  BY DEF ScoringInv, AddAudit
<1>2. ctx.protocol # None
  BY <1>1, DataAreNot
<1>3. CASE ImproveNumber("audits", {ctx.protocol.audits + 1} \cap Audits)
  <2>1. PICK v \in {ctx.protocol.audits + 1} \cap Audits :
            ctx' = [ctx EXCEPT ![varied]["audits"] = v]
    BY <1>3 DEF ImproveNumber, Change
  <2>2. /\ ctx'.protocol = [ctx.protocol EXCEPT !["audits"] = v]
        /\ ctx'.protocol \in ProtocolData => ctx' \in Contexts
    BY <1>1, <2>1, OneDatum
  <2>3. v \in Nat /\ v # ctx.protocol.audits
    BY <1>1, <2>1, ScoringAssumption DEF ProtocolData
  <2>4. ctx'.protocol \in ProtocolData /\ ctx'.protocol.audits = v
    BY <1>1, <2>2, <2>3 DEF ProtocolData
  <2> QED BY <1>2, <2>2, <2>3, <2>4, DataAreNot DEF SetApart
<1>4. CASE ImproveNumber("links", {ctx.protocol.links + 1} \cap Links)
  <2>1. PICK v \in {ctx.protocol.links + 1} \cap Links :
            ctx' = [ctx EXCEPT ![varied]["links"] = v]
    BY <1>4 DEF ImproveNumber, Change
  <2>2. /\ ctx'.protocol = [ctx.protocol EXCEPT !["links"] = v]
        /\ ctx'.protocol \in ProtocolData => ctx' \in Contexts
    BY <1>1, <2>1, OneDatum
  <2>3. v \in Nat /\ v # ctx.protocol.links
    BY <1>1, <2>1, ScoringAssumption DEF ProtocolData
  <2>4. ctx'.protocol \in ProtocolData /\ ctx'.protocol.links = v
    BY <1>1, <2>2, <2>3 DEF ProtocolData
  <2> QED BY <1>2, <2>2, <2>3, <2>4, DataAreNot DEF SetApart
<1> QED BY <1>3, <1>4 DEF AddAudit

LEMMA ScoringStarts == ScoringInit => ScoringInv
<1> SUFFICES ASSUME ScoringInit PROVE ScoringInv
  OBVIOUS
<1>1. model \in {"standard", "conservative", "defi_native"}
  BY ScoringAssumption DEF ScoringInit
<1>2. PICK background \in Backgrounds :
          ctx \in CASE varied = "protocol"  ->
                          {[background EXCEPT !.protocol = p] : p \in Protocols}
                    [] varied = "contract"  ->
                          {[background EXCEPT !.contract = k] : k \in Contracts}
                    [] varied = "token"     ->
                          {[background EXCEPT !.token = k] : k \in Tokens}
                    [] varied = "liquidity" ->
                          {[background EXCEPT !.liquidity = l] : l \in Liquidities}
  BY DEF ScoringInit
<1>3. background \in Contexts
  BY ScoringAssumption
<1>4. /\ Protocols \subseteq ProtocolData
      /\ Contracts \subseteq ContractData
      /\ Tokens \subseteq TokenData
      /\ Liquidities \subseteq LiquidityData
  <2>1. Protocols \subseteq ProtocolData
    <3> DEFINE Tvls == {0, 99, 100, 999, 10000, 100000, 1000000}
               Days == {-11, 0}
               Weeks == {-21, 0}
               Chains == {1, 2, 3, 5}
               Mcaps == {0, 5000}
               Listings == {Unlisted, 29, 30, 180, 365}
    <3>1. Tvls \subseteq Nat /\ Listings \subseteq Int
      BY DEF Unlisted
    <3>2. Days \subseteq Int /\ Weeks \subseteq Int
      OBVIOUS
    <3>3. Chains \subseteq Nat /\ Mcaps \subseteq Nat
      OBVIOUS
    <3>4. Protocols = [tvl : Tvls, change24h : Days, change7d : Weeks, audits : Audits,
                       links : Links, chains : Chains, mature : BOOLEAN, mcap : Mcaps,
                       listed : Listings]
      BY DEF Protocols
    <3> HIDE DEF Tvls, Days, Weeks, Chains, Mcaps, Listings
    <3> QED BY <3>1, <3>2, <3>3, <3>4, ScoringAssumption DEF ProtocolData
  <2>2. Contracts \subseteq ContractData
    <3> DEFINE Ages == {0, 6, 7, 30, 90, 180, 365, 366}
               Verified == {TRUE}
    <3>1. Ages \subseteq Nat
      OBVIOUS
    <3>2. Verified \subseteq BOOLEAN
      OBVIOUS
    <3>3. Contracts = [age : Ages, proxy : BOOLEAN, verified : Verified]
      BY DEF Contracts
    <3> HIDE DEF Ages, Verified
    <3> QED BY <3>1, <3>2, <3>3 DEF ContractData
  <2>3. Tokens \subseteq TokenData
    BY DEF Tokens, TokenData
  <2>4. Liquidities \subseteq LiquidityData
    BY DEF Liquidities, LiquidityData
  <2> QED BY <2>1, <2>2, <2>3, <2>4
<1>5. CASE varied = "protocol"
  <2>1. PICK r \in ProtocolData : ctx = [background EXCEPT !.protocol = r]
    BY <1>2, <1>4, <1>5
  <2>2. ctx \in Contexts /\ ctx.protocol = r
    BY <1>3, <2>1 DEF Contexts, ProtocolData
  <2> QED BY <1>1, <1>5, <2>2 DEF ScoringInv
<1>6. CASE varied = "contract"
  <2>1. PICK r \in ContractData : ctx = [background EXCEPT !.contract = r]
    BY <1>2, <1>4, <1>6
  <2>2. ctx \in Contexts /\ ctx.contract = r
    BY <1>3, <2>1 DEF Contexts, ContractData
  <2> QED BY <1>1, <1>6, <2>2 DEF ScoringInv
<1>7. CASE varied = "token"
  <2>1. PICK r \in TokenData : ctx = [background EXCEPT !.token = r]
    BY <1>2, <1>4, <1>7
  <2>2. ctx \in Contexts /\ ctx.token = r
    BY <1>3, <2>1 DEF Contexts, TokenData
  <2> QED BY <1>1, <1>7, <2>2 DEF ScoringInv
<1>8. CASE varied = "liquidity"
  <2>1. PICK r \in LiquidityData : ctx = [background EXCEPT !.liquidity = r]
    BY <1>2, <1>4, <1>8
  <2>2. ctx \in Contexts /\ ctx.liquidity = r
    BY <1>3, <2>1 DEF Contexts, LiquidityData
  <2> QED BY <1>1, <1>8, <2>2 DEF ScoringInv
<1> QED BY <1>5, <1>6, <1>7, <1>8 DEF ScoringInit

\* What one step of the machine may do to the score.
NotRiskier ==
    ctx' # ctx /\ ~SetApart
    => calculateRiskScore(ctx', model) <= calculateRiskScore(ctx, model)

LEMMA ScoringStep ==
    ASSUME ScoringInv, ScoringNext
    PROVE  ScoringInv' /\ NotRiskier
<1>1. model' = model /\ varied' = varied
  BY DEF ScoringNext
<1>2. /\ model \in {"standard", "conservative", "defi_native"} /\ ctx \in Contexts
  BY DEF ScoringInv
<1>3. ASSUME ctx' \in Contexts, Better(ctx, ctx') PROVE NotRiskier
  BY <1>2, <1>3, BetterScoresLower DEF NotRiskier
<1>4. CASE ImproveProtocol
  <2>1. varied = "protocol"
    BY <1>4 DEF ImproveProtocol
  <2>2. NotRiskier
    BY <1>3, <1>4, ImproveProtocolBetter DEF NotRiskier
  <2> QED BY <1>1, <1>2, <1>4, <2>1, <2>2, ImproveProtocolBetter DEF ScoringInv
<1>5. CASE ImproveContract
  <2>1. varied = "contract"
    BY <1>5 DEF ImproveContract
  <2> QED BY <1>1, <1>2, <1>3, <1>5, <2>1, ImproveContractBetter DEF ScoringInv
<1>6. CASE ImproveToken
  <2>1. varied = "token"
    BY <1>6 DEF ImproveToken
  <2> QED BY <1>1, <1>2, <1>3, <1>6, <2>1, ImproveTokenBetter DEF ScoringInv
<1>7. CASE ImproveLiquidity
  <2>1. varied = "liquidity"
    BY <1>7 DEF ImproveLiquidity
  <2> QED BY <1>1, <1>2, <1>3, <1>7, <2>1, ImproveLiquidityBetter DEF ScoringInv
<1>8. CASE AddAudit
  <2>1. varied = "protocol"
    BY <1>8 DEF AddAudit
  <2>2. NotRiskier
    BY <1>8, AddAuditApart DEF NotRiskier
  <2> QED BY <1>1, <1>2, <1>8, <2>1, <2>2, AddAuditApart DEF ScoringInv
<1> QED BY <1>4, <1>5, <1>6, <1>7, <1>8 DEF ScoringNext

\* Of any backgrounds and models of the three: no datum that gets better
\* raises the composite score of the risk agent, at any step of any ladder,
\* but for an added audit or link and the first dollar locked where it
\* brings the surcharge for a high market cap.
THEOREM BetterDataNeverRiskier == ScoringSpec => BetterNeverRiskier
<1>1. ASSUME ScoringInv, [ScoringNext]_scoringVars
      PROVE  ScoringInv' /\ (NotRiskier \/ ctx' = ctx)
  <2>1. CASE ScoringNext
    BY <1>1, <2>1, ScoringStep
  <2>2. CASE UNCHANGED scoringVars
    BY <1>1, <2>2 DEF scoringVars, ScoringInv
  <2> QED BY <1>1, <2>1, <2>2
<1>2. NotRiskier \/ ctx' = ctx
      => [ctx' # ctx /\ ~SetApart
          => calculateRiskScore(ctx', model) <= calculateRiskScore(ctx, model)]_ctx
  BY DEF NotRiskier
<1> QED BY ScoringStarts, <1>1, <1>2, PTL DEF ScoringSpec, BetterNeverRiskier

=============================================================================
