----------------------------- MODULE BidManager -----------------------------
(***************************************************************************)
(* The SDK's BidManager (sdk/src/bid-manager.ts): sealed bids of one agent *)
(* whose salts live in memory until they are revealed.  Calls of the       *)
(* program, and the ticks of the watcher, run concurrently, each a         *)
(* sequence of awaits; the auction's contract decides which of two         *)
(* commitments or reveals wins.  A bid is an object: the map holds         *)
(* references, so that a call that started before importBids or clear goes *)
(* on with the object it took.                                             *)
(***************************************************************************)
EXTENDS Naturals, Sequences, FiniteSets

CONSTANTS
  BidTasks,    \* the auctions
  Stakes,      \* [BidTasks -> Nat]: the stake bid on each
  Calls,       \* calls of commitBid and revealBid, each made once
  Ticks,       \* ticks of the watcher, each taken once
  MaxFaults    \* bound: lost answers, crashes, clears

VARIABLES
  period,     \* of each auction: "bidding", "revealing" or "over"
  committed,  \* the salt committed on chain for the agent, Unbid when none
  shown,      \* auctions where the agent's bid is revealed on chain
  allowance,  \* of the agent for ArenaCoreAuction
  objects,    \* the bid objects ever made: salt |-> [salt, task, status]
  bidMap,     \* the map: task |-> salt of its object, Unbid when absent
  calls,      \* [at, task, salt, tick]
  ticks,      \* [at, now, todo]: the watcher's ticks, with the periods of their start
  watching,   \* the interval is on
  backup,     \* what exportBids last gave to be kept: salts with their statuses
  lostSalts,  \* commitments whose answer was lost, or dropped by a crash or clear
  unknown,    \* tasks whose status a lost answer or an import made unreliable
  faultsLeft

bidVars == <<period, committed, shown, allowance, objects, bidMap, calls, ticks, watching,
             backup, lostSalts, unknown, faultsLeft>>
auction == <<period, committed, shown, allowance>>
store == <<objects, bidMap, backup>>
loss == <<lostSalts, unknown, faultsLeft>>

Unbid == "none"
NoTick == "none"

ASSUME SaltsAssumption == Unbid \notin Calls

IdleCall == [at |-> "idle", task |-> "none", salt |-> Unbid, tick |-> NoTick]

\* The salt of a call is the call that generated it.
StatusOf(t) == objects[bidMap[t]].status
Listed(t) == bidMap[t] # Unbid
Goes(c, at) == calls' = [calls EXCEPT ![c].at = at]

\* A call ends; the tick that made it, if any, goes on.
Ends(c) ==
    /\ Goes(c, "ended")
    /\ ticks' = IF calls[c].tick = NoTick THEN ticks
                ELSE [ticks EXCEPT ![calls[c].tick].at = "after"]

-----------------------------------------------------------------------------
(* Committing.                                                             *)

\* commitBid: a new salt, a commitment, and the transaction.
BugCommitBid(c, t) ==
    /\ calls[c].at = "idle"
    /\ calls' = [calls EXCEPT ![c] = [at |-> "commit", task |-> t, salt |-> c, tick |-> NoTick]]
    /\ objects' = [objects EXCEPT ![c] = [salt |-> c, task |-> t, status |-> "committed"]]
    /\ bidMap' = [bidMap EXCEPT ![t] = c]
    /\ UNCHANGED <<auction, backup, ticks, watching, loss>>

CommitBid(c, t) ==
    /\ calls[c].at = "idle"
    /\ calls' = [calls EXCEPT ![c] = [at |-> "commit", task |-> t, salt |-> c, tick |-> NoTick]]
    /\ UNCHANGED <<auction, store, ticks, watching, loss>>

\* The auction takes one commitment of an agent, in the bidding period.
CommitMined(c) ==
    LET t == calls[c].task
    IN /\ calls[c].at = "commit"
       /\ IF period[t] = "bidding" /\ committed[t] = Unbid
          THEN /\ committed' = [committed EXCEPT ![t] = calls[c].salt]
               /\ Goes(c, "commitReceipt") /\ UNCHANGED ticks
          ELSE Ends(c) /\ UNCHANGED committed
       /\ UNCHANGED <<period, shown, allowance, store, watching, loss>>

\* The receipt: only now the bid enters the map.
Keep(c) ==
    /\ calls[c].at = "commitReceipt"
    /\ objects' = [objects EXCEPT ![c] = [salt |-> c, task |-> calls[c].task,
                                       status |-> "committed"]]
    /\ bidMap' = [bidMap EXCEPT ![calls[c].task] = c]
    /\ Ends(c)
    /\ UNCHANGED <<auction, backup, watching, loss>>

-----------------------------------------------------------------------------
(* Revealing.                                                              *)

\* revealBid of a bid still 'committed', which first reads the allowance.
Reveal(c, t, tick) ==
    /\ calls[c].at = "idle" /\ Listed(t) /\ StatusOf(t) = "committed"
    /\ calls' = [calls EXCEPT ![c] =
                   [at |-> IF allowance < Stakes[t] THEN "approve" ELSE "reveal",
                    task |-> t, salt |-> bidMap[t], tick |-> tick]]

RevealBid(c, t) ==
    /\ Reveal(c, t, NoTick)
    /\ UNCHANGED <<auction, store, ticks, watching, loss>>

\* approve sets the allowance to this stake, whatever another call set it to.
Approve(c) ==
    /\ calls[c].at = "approve"
    /\ allowance' = Stakes[calls[c].task]
    /\ Goes(c, "reveal")
    /\ UNCHANGED <<period, committed, shown, store, ticks, watching, loss>>

\* The auction checks the period, the salt, and pulls the stake.
RevealMined(c) ==
    LET t == calls[c].task
    IN /\ calls[c].at = "reveal"
       /\ IF /\ period[t] = "revealing" /\ committed[t] = calls[c].salt
             /\ t \notin shown /\ allowance >= Stakes[t]
          THEN /\ shown' = shown \cup {t} /\ allowance' = allowance - Stakes[t]
               /\ Goes(c, "revealReceipt") /\ UNCHANGED ticks
          ELSE Ends(c) /\ UNCHANGED <<shown, allowance>>
       /\ UNCHANGED <<period, committed, store, watching, loss>>

\* The receipt: the object becomes 'revealed', whatever it has become meanwhile.
Revealed(c) ==
    /\ calls[c].at = "revealReceipt"
    /\ objects' = [objects EXCEPT ![calls[c].salt].status = "revealed"]
    /\ Ends(c)
    /\ UNCHANGED <<auction, bidMap, backup, watching, loss>>

-----------------------------------------------------------------------------
(* The watcher.                                                            *)

StartWatching ==
    /\ ~watching /\ watching' = TRUE
    /\ UNCHANGED <<auction, store, calls, ticks, loss>>

StopWatching ==
    /\ watching /\ watching' = FALSE
    /\ UNCHANGED <<auction, store, calls, ticks, loss>>

\* A tick takes the time once and goes through the bids; it does not wait for the last tick.
WatcherTick(k) ==
    /\ watching /\ ticks[k].at = "idle"
    /\ ticks' = [ticks EXCEPT ![k] = [at |-> "next", now |-> period, task |-> "none",
                                      todo |-> {t \in BidTasks : Listed(t)}]]
    /\ UNCHANGED <<auction, store, calls, watching, loss>>

\* The next bid of the tick: a committed one is revealed in its period.
Visit(k) ==
    /\ ticks[k].at = "next"
    /\ \E t \in ticks[k].todo :
         LET rest == [ticks EXCEPT ![k].todo = @ \ {t}, ![k].task = t]
         IN IF ~Listed(t) \/ StatusOf(t) # "committed"
            THEN ticks' = rest /\ UNCHANGED <<calls, objects>>
            ELSE \/ /\ ticks[k].now[t] = "revealing"
                    /\ \E c \in Calls : Reveal(c, t, k)
                    /\ ticks' = [rest EXCEPT ![k].at = "revealing"]
                    /\ UNCHANGED objects
                 \/ /\ ticks[k].now[t] = "bidding"
                    /\ ticks' = rest /\ UNCHANGED <<calls, objects>>
                 \/ /\ ticks[k].now[t] = "over"
                    /\ objects' = [objects EXCEPT ![bidMap[t]].status = "expired"]
                    /\ ticks' = rest /\ UNCHANGED calls
    /\ UNCHANGED <<auction, bidMap, backup, watching, loss>>

\* The reveal of the tick is over, with or without an error; the tick goes on.
Resume(k) ==
    /\ ticks[k].at = "after"
    /\ ticks' = [ticks EXCEPT ![k].at = "next"]
    /\ UNCHANGED <<auction, store, calls, watching, loss>>

-----------------------------------------------------------------------------
(* The rest of the interface.                                              *)

\* updateBidStatus, called with the outcome of the auction.
UpdateBidStatus(t) ==
    /\ period[t] = "over" /\ t \in shown /\ Listed(t)
    /\ \E status \in {"won", "lost"} :
         objects' = [objects EXCEPT ![bidMap[t]].status = status]
    /\ UNCHANGED <<auction, bidMap, backup, calls, ticks, watching, loss>>

\* exportBids, kept outside; importBids puts what was kept back into the map, when the
\* program starts again: the objects it makes are new ones.
ExportBids ==
    /\ backup' = {objects[bidMap[t]] : t \in {u \in BidTasks : Listed(u)}}
    /\ UNCHANGED <<auction, objects, bidMap, calls, ticks, watching, loss>>

ImportBids ==
    /\ backup # {} /\ \A t \in BidTasks : ~Listed(t)
    /\ \A c \in Calls : calls[c].at \in {"idle", "ended"}
    /\ objects' = [s \in Calls |-> IF \E b \in backup : b.salt = s
                                   THEN CHOOSE b \in backup : b.salt = s ELSE objects[s]]
    /\ bidMap' = [t \in BidTasks |-> IF \E b \in backup : b.task = t
                                   THEN (CHOOSE b \in backup : b.task = t).salt ELSE Unbid]
    /\ unknown' = unknown \cup {b.task : b \in backup}
    /\ UNCHANGED <<auction, backup, calls, ticks, watching, lostSalts, faultsLeft>>

\* clear: what the map held is gone for good, unless kept outside.
Clear ==
    /\ faultsLeft > 0 /\ faultsLeft' = faultsLeft - 1
    /\ bidMap' = [t \in BidTasks |-> Unbid]
    /\ lostSalts' = lostSalts \cup {bidMap[t] : t \in BidTasks}
    /\ UNCHANGED <<auction, objects, backup, calls, ticks, watching, unknown>>

-----------------------------------------------------------------------------
(* The chain and the faults.                                               *)

PeriodEnds(t) ==
    /\ period[t] # "over"
    /\ period' = [period EXCEPT ![t] = IF @ = "bidding" THEN "revealing" ELSE "over"]
    /\ UNCHANGED <<committed, shown, allowance, store, calls, ticks, watching, loss>>

\* The answer to a mined transaction never comes: the call throws.
AnswerLost(c) ==
    /\ faultsLeft > 0 /\ calls[c].at \in {"commitReceipt", "revealReceipt"}
    /\ faultsLeft' = faultsLeft - 1
    /\ lostSalts' = lostSalts \cup (IF calls[c].at = "commitReceipt" THEN {calls[c].salt} ELSE {})
    /\ unknown' = unknown \cup {calls[c].task}
    /\ Ends(c)
    /\ UNCHANGED <<auction, store, watching>>

\* The process dies: calls, ticks and the map go; what was exported stays.
ProcessDies ==
    /\ faultsLeft > 0 /\ faultsLeft' = faultsLeft - 1
    /\ lostSalts' = lostSalts \cup {bidMap[t] : t \in BidTasks}
                    \cup {calls[c].salt : c \in {d \in Calls : calls[d].at = "commitReceipt"}}
    /\ unknown' = unknown \cup {calls[c].task :
                                   c \in {d \in Calls : calls[d].at = "revealReceipt"}}
    /\ bidMap' = [t \in BidTasks |-> Unbid]
    /\ calls' = [c \in Calls |-> IF calls[c].at = "idle" THEN IdleCall
                                 ELSE [IdleCall EXCEPT !.at = "ended"]]
    /\ ticks' = [k \in Ticks |-> IF ticks[k].at = "idle" THEN ticks[k]
                                 ELSE [ticks[k] EXCEPT !.at = "ended", !.todo = {}]]
    /\ watching' = FALSE
    /\ UNCHANGED <<auction, objects, backup>>

BidInit ==
    /\ period = [t \in BidTasks |-> "bidding"]
    /\ committed = [t \in BidTasks |-> Unbid]
    /\ shown = {} /\ allowance = 0
    /\ objects = [s \in Calls |-> [salt |-> s, task |-> "none", status |-> "none"]]
    /\ bidMap = [t \in BidTasks |-> Unbid]
    /\ calls = [c \in Calls |-> IdleCall]
    /\ ticks = [k \in Ticks |-> [at |-> "idle", now |-> period, task |-> "none", todo |-> {}]]
    /\ watching = FALSE /\ backup = {}
    /\ lostSalts = {} /\ unknown = {} /\ faultsLeft = MaxFaults

BidNext ==
    \/ \E c \in Calls :
          \/ \E t \in BidTasks : CommitBid(c, t) \/ RevealBid(c, t)
          \/ CommitMined(c) \/ Keep(c) \/ Approve(c) \/ RevealMined(c) \/ Revealed(c)
          \/ AnswerLost(c)
    \/ \E k \in Ticks : WatcherTick(k) \/ Visit(k) \/ Resume(k)
    \/ \E t \in BidTasks : UpdateBidStatus(t) \/ PeriodEnds(t)
    \/ StartWatching \/ StopWatching \/ ExportBids \/ ImportBids \/ Clear \/ ProcessDies

BidSpec == BidInit /\ [][BidNext]_bidVars

-----------------------------------------------------------------------------
(* Properties.                                                             *)

Awaiting(t, at) == \E c \in Calls : calls[c].task = t /\ calls[c].at = at

\* Without its salt a commitment can never be revealed.  However commits, reveals, ticks and
\* imports interleave, the salt of every commitment on chain is in the map, unless its receipt
\* is awaited, was lost, or the map was lost with the process or cleared; and a bid revealed on
\* chain is not taken for a committed or expired one, unless the answer was lost or an import
\* brought an old status back.
BidsTracked ==
    \A t \in BidTasks :
        /\ committed[t] # Unbid =>
             \/ bidMap[t] = committed[t]
             \/ Awaiting(t, "commitReceipt")
             \/ committed[t] \in lostSalts
        /\ t \in shown /\ Listed(t) =>
             \/ StatusOf(t) \notin {"committed", "expired"}
             \/ Awaiting(t, "revealReceipt")
             \/ t \in unknown
        /\ Listed(t) /\ StatusOf(t) \in {"revealed", "won", "lost"} => t \in shown
=============================================================================
