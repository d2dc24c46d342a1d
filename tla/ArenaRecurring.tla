--------------------------- MODULE ArenaRecurring ---------------------------
(***************************************************************************)
(* Recurring templates (ArenaRecurring): a poster escrows every occurrence *)
(* of a task, anybody triggers the next one when its interval is over, and *)
(* the contract itself posts it to the core.  The core is taken for what   *)
(* the contract sees of it: it refuses a bounty below its minimum and a    *)
(* poster with too many active tasks, numbers the tasks it takes, and pays *)
(* its poster, which is this contract, when a task has ended.              *)
(* recordCompletion changes nothing: it returns early for a task without   *)
(* agent, and for any other the answer of getTask, whose dynamic struct    *)
(* the interface declares as a flat tuple, does not decode.                *)
(***************************************************************************)
EXTENDS Integers, Sequences, FiniteSets, Functions

CONSTANTS
  Posters,
  Terms,              \* [bounty, occurrences, interval, offset, bid, reveal, verifiers]
  MaxActives,         \* the owner's values of maxActiveTemplates
  MinBounties,        \* and of minBountyPerOccurrence
  MaxOccurrences, MinOffset, MaxVerifiers,
  CoreMinBounty,      \* below it the core takes no task
  CoreMaxActive,      \* the active tasks the core allows one poster
  Returned,           \* what the core may pay the poster of a task that ends
  MaxTemplates, MaxTime

VARIABLES
  now,
  templates,                 \* by id, from 1
  posterActiveTemplates,
  maxActiveTemplates,
  minBountyPerOccurrence,
  paused,
  coreTasks,                 \* the tasks of the core by id: [template, occurrence, open]
  returned,                  \* what the core has paid the contract so far
  balance

settings == <<maxActiveTemplates, minBountyPerOccurrence, paused>>
recurringVars == <<now, templates, posterActiveTemplates, settings, coreTasks, returned, balance>>

KeeperFeeBps == 50
KeeperFee(bounty) == (bounty * KeeperFeeBps) \div 10000
Ids == DOMAIN templates
Triggered(id) == templates[id].triggeredCount

-----------------------------------------------------------------------------
Accepted(terms) ==
  /\ terms.bounty >= minBountyPerOccurrence /\ terms.bounty # 0
  /\ terms.occurrences \in 1 .. MaxOccurrences
  /\ terms.offset >= MinOffset /\ terms.offset > terms.bid + terms.reveal
  /\ terms.bid # 0 /\ terms.reveal # 0
  /\ terms.verifiers \in 1 .. MaxVerifiers

CreateRecurringTask(poster, terms) ==
  LET escrow == terms.bounty * terms.occurrences
  IN /\ ~paused /\ Accepted(terms) /\ Len(templates) < MaxTemplates
     /\ posterActiveTemplates[poster] < maxActiveTemplates
     /\ templates' = Append(templates,
          [poster |-> poster, terms |-> terms, totalEscrowed |-> escrow, triggeredCount |-> 0,
           lastTriggeredAt |-> 0, status |-> "Active"])
     /\ posterActiveTemplates' = [posterActiveTemplates EXCEPT ![poster] = @ + 1]
     /\ balance' = balance + escrow
     /\ UNCHANGED <<now, settings, coreTasks, returned>>

SetStatus(id, from, to) ==
  /\ templates[id].status = from
  /\ templates' = [templates EXCEPT ![id].status = to]
  /\ UNCHANGED <<now, posterActiveTemplates, settings, coreTasks, returned, balance>>
PauseTemplate(id) == SetStatus(id, "Active", "Paused")
ResumeTemplate(id) == SetStatus(id, "Paused", "Active")

\* Refunds what no occurrence has taken yet.
CancelTemplate(id) ==
  /\ templates[id].status \in {"Active", "Paused"}
  /\ templates' = [templates EXCEPT ![id].status = "Cancelled", ![id].totalEscrowed = 0]
  /\ posterActiveTemplates' = [posterActiveTemplates EXCEPT ![templates[id].poster] = @ - 1]
  /\ balance' = balance - templates[id].totalEscrowed
  /\ UNCHANGED <<now, settings, coreTasks, returned>>

-----------------------------------------------------------------------------
Due(t) == t.lastTriggeredAt = 0 \/ now >= t.lastTriggeredAt + t.terms.interval
\* createTask, called by this contract for every template.
TakenByCore(bounty) ==
  /\ bounty >= CoreMinBounty
  /\ Cardinality({c \in DOMAIN coreTasks : coreTasks[c].open}) < CoreMaxActive

\* The keeper's fee and the net bounty leave together; the last occurrence completes
\* the template.
TriggerRecurringTask(id) ==
  LET t == templates[id]
      net == t.terms.bounty - KeeperFee(t.terms.bounty)
      last == t.triggeredCount + 1 >= t.terms.occurrences
  IN /\ ~paused /\ t.status = "Active" /\ t.triggeredCount < t.terms.occurrences
     /\ Due(t) /\ t.totalEscrowed >= t.terms.bounty
     /\ TakenByCore(net)
     /\ coreTasks' = Append(coreTasks,
          [template |-> id, occurrence |-> t.triggeredCount, open |-> TRUE])
     /\ templates' = [templates EXCEPT ![id] =
          [t EXCEPT !.totalEscrowed = @ - t.terms.bounty, !.triggeredCount = @ + 1,
                    !.lastTriggeredAt = now, !.status = IF last THEN "Completed" ELSE @]]
     /\ posterActiveTemplates' =
          IF last THEN [posterActiveTemplates EXCEPT ![t.poster] = @ - 1]
          ELSE posterActiveTemplates
     /\ balance' = balance - KeeperFee(t.terms.bounty) - net
     /\ UNCHANGED <<now, settings, returned>>

\* The core: a task ends, with a refund, a share of a slash or nothing for its poster.
CoreTaskEnds(c, amount) ==
  /\ coreTasks[c].open
  /\ coreTasks' = [coreTasks EXCEPT ![c].open = FALSE]
  /\ returned' = returned + amount /\ balance' = balance + amount
  /\ UNCHANGED <<now, templates, posterActiveTemplates, settings>>

SetMaxActiveTemplates(max) ==
  /\ maxActiveTemplates' = max
  /\ UNCHANGED <<now, templates, posterActiveTemplates, minBountyPerOccurrence, paused, coreTasks,
                 returned, balance>>
SetMinBountyPerOccurrence(min) ==
  /\ minBountyPerOccurrence' = min
  /\ UNCHANGED <<now, templates, posterActiveTemplates, maxActiveTemplates, paused, coreTasks,
                 returned, balance>>
SetPaused(on) ==
  /\ paused = ~on /\ paused' = on
  /\ UNCHANGED <<now, templates, posterActiveTemplates, maxActiveTemplates,
                 minBountyPerOccurrence, coreTasks, returned, balance>>
RecurringTick ==
  /\ now < MaxTime /\ now' = now + 1
  /\ UNCHANGED <<templates, posterActiveTemplates, settings, coreTasks, returned, balance>>

RecurringInit ==
  /\ now = 1 /\ templates = <<>> /\ posterActiveTemplates = [p \in Posters |-> 0]
  /\ maxActiveTemplates \in MaxActives /\ minBountyPerOccurrence \in MinBounties
  /\ paused = FALSE /\ coreTasks = <<>> /\ returned = 0 /\ balance = 0

RecurringNext ==
  \/ \E p \in Posters, terms \in Terms : CreateRecurringTask(p, terms)
  \/ \E id \in Ids : \/ PauseTemplate(id) \/ ResumeTemplate(id) \/ CancelTemplate(id)
                     \/ TriggerRecurringTask(id)
  \/ \E c \in DOMAIN coreTasks, amount \in Returned : CoreTaskEnds(c, amount)
  \/ \E max \in MaxActives : SetMaxActiveTemplates(max)
  \/ \E min \in MinBounties : SetMinBountyPerOccurrence(min)
  \/ \E on \in BOOLEAN : SetPaused(on)
  \/ RecurringTick

-----------------------------------------------------------------------------
\* createRecurringTask, triggerRecurringTask, cancelTemplate: what the contract holds is
\* the escrow of the occurrences still to come of every template that is not cancelled,
\* and besides it exactly what the core has paid back, which no function hands on.
TemplateFundsExact ==
  /\ balance = returned
       + SumFunctionOnSet([id \in Ids |-> templates[id].totalEscrowed], Ids)
  /\ \A id \in Ids : LET t == templates[id] IN
       t.totalEscrowed =
         IF t.status = "Cancelled" THEN 0
         ELSE t.terms.bounty * (t.terms.occurrences - t.triggeredCount)

\* The slots a poster has taken are its templates that may still be triggered, through
\* every order of pause, cancellation and the last occurrence.
SlotsExact ==
  \A p \in Posters :
    posterActiveTemplates[p] =
      Cardinality({id \in Ids : templates[id].poster = p
                                /\ templates[id].status \in {"Active", "Paused"}})

\* occurrenceTaskIds and taskToTemplate: every occurrence of a template is one task of
\* the core, and never two.
OccurrencesOnce ==
  /\ IsInjective([c \in DOMAIN coreTasks |-> <<coreTasks[c].template, coreTasks[c].occurrence>>])
  /\ \A id \in Ids :
       {coreTasks[c].occurrence : c \in {d \in DOMAIN coreTasks : coreTasks[d].template = id}}
         = 0 .. Triggered(id) - 1
=============================================================================
