--------------------------- MODULE EventListener ---------------------------
(***************************************************************************)
(* The SDK's ArenaEventListener (sdk/src/events.ts): subscriptions to the  *)
(* events of ArenaCoreMain, ArenaCoreAuction and ArenaCoreVRF.  The first  *)
(* callback of an event type attaches one listener to the contract that    *)
(* getContractForEvent names; it hands every event to the callbacks of the *)
(* moment.  Programs subscribe, unsubscribe and drop types while events    *)
(* come in.                                                                *)
(***************************************************************************)
EXTENDS Naturals, FiniteSets, Sequences

CONSTANTS
  Types,       \* the event types subscribed to
  Callbacks,   \* the callbacks
  Emitters,    \* [Types -> SUBSET {"main", "auction", "vrf"}]: the contracts that emit them
  MaxEvents    \* bound: events of the chain

VARIABLES
  listeners,  \* type |-> callbacks: the types in the map and their callbacks
  attached,   \* contract |-> type |-> number of listeners attached to it
  wrapped,    \* [type, callback] given to once: they leave when called
  expects,    \* ghost: [type, callback] |-> deliveries owed to it
  heard,      \* [type, callback] |-> deliveries made
  emitted     \* events so far

listenerVars == <<listeners, attached, wrapped, expects, heard, emitted>>

Contracts == {"main", "auction", "vrf"}
Pairs == Types \X Callbacks
Registered(t) == IF t \in DOMAIN listeners THEN listeners[t] ELSE {}

-----------------------------------------------------------------------------
MAIN_EVENTS == {"TaskCreated", "TaskCancelled", "TokenWhitelisted", "TokenRemoved"}
AUCTION_EVENTS == {"BidCommitted", "BidRevealed", "AgentAssigned", "TaskDelivered",
                   "VerifierAssigned", "VerificationSubmitted", "TaskCompleted",
                   "AgentSlashed", "VerifierSlashed", "TaskDisputed",
                   "ProtocolFeeCollected", "SlashBondClaimed", "SlashBondForfeited"}
VRF_EVENTS == {"VerifierJoined", "VerifierLeft"}

\* The contract a type is listened to at; the auction for types it does not know.
getContractForEvent(t) ==
    CASE t \in MAIN_EVENTS -> "main"
      [] t \in AUCTION_EVENTS -> "auction"
      [] t \in VRF_EVENTS -> "vrf"
      [] OTHER -> "auction"

attachContractListener(t) ==
    attached' = [attached EXCEPT ![getContractForEvent(t)][t] = @ + 1]

Subscribe(t, cb) ==
    IF t \in DOMAIN listeners
    THEN listeners' = [listeners EXCEPT ![t] = @ \cup {cb}] /\ UNCHANGED attached
    ELSE /\ listeners' = [u \in DOMAIN listeners \cup {t} |->
                            IF u = t THEN {cb} ELSE listeners[u]]
         /\ attachContractListener(t)

\* on and once: a callback, for good or for one event.
On(t, cb) ==
    /\ cb \notin Registered(t)
    /\ Subscribe(t, cb)
    /\ UNCHANGED <<wrapped, expects, heard, emitted>>

Once(t, cb) ==
    /\ cb \notin Registered(t)
    /\ Subscribe(t, cb)
    /\ wrapped' = wrapped \cup {<<t, cb>>}
    /\ UNCHANGED <<expects, heard, emitted>>

\* The function on returns.  The type and the contract's listener stay when no callback is left.
BugUnsubscribe(t, cb) ==
    /\ cb \in Registered(t)
    /\ listeners' = IF listeners[t] = {cb} THEN [u \in DOMAIN listeners \ {t} |-> listeners[u]]
                    ELSE [listeners EXCEPT ![t] = @ \ {cb}]
    /\ wrapped' = wrapped \ {<<t, cb>>}
    /\ UNCHANGED <<attached, expects, heard, emitted>>

Unsubscribe(t, cb) ==
    /\ cb \in Registered(t)
    /\ listeners' = [listeners EXCEPT ![t] = @ \ {cb}]
    /\ wrapped' = wrapped \ {<<t, cb>>}
    /\ UNCHANGED <<attached, expects, heard, emitted>>

\* off(type), and off() of everything.
Off(t) ==
    /\ listeners' = [u \in DOMAIN listeners \ {t} |-> listeners[u]]
    /\ attached' = [attached EXCEPT ![getContractForEvent(t)][t] = 0]
    /\ wrapped' = {p \in wrapped : p[1] # t}
    /\ UNCHANGED <<expects, heard, emitted>>

OffAll ==
    /\ listeners' = << >> /\ wrapped' = {}
    /\ attached' = [c \in Contracts |-> [t \in Types |-> 0]]
    /\ UNCHANGED <<expects, heard, emitted>>

\* A contract emits an event: each listener attached to it for the type hands it to the callbacks
\* of the type, where a once callback leaves before it is called.
EmitEvent(c, t) ==
    LET rounds == attached[c][t]
        calls(cb) == IF cb \notin Registered(t) \/ rounds = 0 THEN 0
                     ELSE IF <<t, cb>> \in wrapped THEN 1 ELSE rounds
        left == IF rounds > 0 THEN {cb \in Registered(t) : <<t, cb>> \in wrapped} ELSE {}
    IN /\ c \in Emitters[t] /\ emitted < MaxEvents
       /\ emitted' = emitted + 1
       /\ heard' = [p \in Pairs |-> heard[p] + IF p[1] = t THEN calls(p[2]) ELSE 0]
       /\ expects' = [p \in Pairs |-> expects[p] +
                        IF p[1] = t /\ p[2] \in Registered(t) /\ c = getContractForEvent(t)
                        THEN 1 ELSE 0]
       /\ listeners' = IF left = {} THEN listeners ELSE [listeners EXCEPT ![t] = @ \ left]
       /\ wrapped' = wrapped \ {<<t, cb>> : cb \in left}
       /\ UNCHANGED attached

-----------------------------------------------------------------------------
ListenerInit ==
    /\ listeners = << >> /\ wrapped = {} /\ emitted = 0
    /\ attached = [c \in Contracts |-> [t \in Types |-> 0]]
    /\ expects = [p \in Pairs |-> 0] /\ heard = [p \in Pairs |-> 0]

ListenerNext ==
    \/ \E t \in Types, cb \in Callbacks : On(t, cb) \/ Once(t, cb) \/ Unsubscribe(t, cb)
    \/ \E t \in Types : Off(t) \/ \E c \in Contracts : EmitEvent(c, t)
    \/ OffAll

ListenerSpec == ListenerInit /\ [][ListenerNext]_listenerVars

-----------------------------------------------------------------------------
(* Properties.                                                             *)

\* Whatever order programs subscribe, unsubscribe and drop types in, an event of the contract a
\* type is listened to at reaches each callback of the type exactly once.
DeliveredOnce == heard = expects
=============================================================================
