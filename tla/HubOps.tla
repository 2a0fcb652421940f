------------------------------- MODULE HubOps -------------------------------
(* The shared state of `EventHub` and its operations, one operator per       *)
(* critical section.  EventHub.tla drives them with an arbitrary caller;     *)
(* SessionManager.tla calls them from the manager's own operations.          *)
(*                                                                           *)
(* A receiver is one `Subscription`.  `subscribe` takes three sections:      *)
(* `subjects` is locked, then `slots`, then the receiver is attached to the  *)
(* slot that was found, with no lock held.  A slot dropped from the map      *)
(* closes the receivers attached to it; `linked` is the set of receivers     *)
(* whose slot is still the one in the map.                                   *)
EXTENDS Naturals, Sequences, FiniteSets

CONSTANTS
    Sessions,       \* session identifiers
    Receivers,      \* subscriptions
    Capacity,       \* broadcast capacity of a session's channel
    None            \* the absent value

ASSUME CapacityAssumption == Capacity \in Nat \ {0}

VARIABLES
    subjects,       \* Inner::subjects : sessions registered with their subject
    slots,          \* Inner::slots : sessions that have a channel
    at,             \* what each subscription is doing
    about,          \* the session of each subscription
    linked,         \* subscriptions whose channel is still in `slots`
    queue,          \* events broadcast to a subscription and not read yet
    lagged          \* subscriptions whose queue overflowed since their last read

hubVars == <<subjects, slots, at, about, linked, queue, lagged>>
recvVars == <<at, about, linked, queue, lagged>>

Phases == {"idle", "granted", "subject", "slot", "live", "ended"}

HubInit ==
    /\ subjects = {}
    /\ slots = {}
    /\ at = [r \in Receivers |-> "idle"]
    /\ about = [r \in Receivers |-> None]
    /\ linked = {}
    /\ queue = [r \in Receivers |-> <<>>]
    /\ lagged = {}

(* Subscriptions that hold an `Arc` of the channel of `s`, and those that are *)
(* receivers of it.                                                           *)
Holds(s) == {r \in Receivers : at[r] \in {"slot", "live"} /\ about[r] = s}
Attached(s) == {r \in Receivers : at[r] = "live" /\ about[r] = s /\ r \in linked}

(* EventHub::register *)
Register(s) == subjects' = subjects \cup {s}

(* The slot leaves the map: its sender is dropped, its receivers are cut. *)
RemoveSlot(s) ==
    /\ slots' = slots \ {s}
    /\ linked' = linked \ Holds(s)

(* The caller of `subscribe` has passed its own checks. *)
Grant(r, s) ==
    /\ at[r] = "idle"
    /\ at' = [at EXCEPT ![r] = "granted"]
    /\ about' = [about EXCEPT ![r] = s]
    /\ UNCHANGED <<subjects, slots, linked, queue, lagged>>

(* subscribe, first section: the subject is kept when there is one. *)
SubscribeSubject(r) ==
    /\ at[r] = "granted"
    /\ at' = [at EXCEPT ![r] = "subject"]
    /\ subjects' = subjects \cup {about[r]}
    /\ UNCHANGED <<slots, about, linked, queue, lagged>>

(* subscribe, second section: EventHub::slot, the channel is created if needed. *)
SubscribeSlot(r) ==
    /\ at[r] = "subject"
    /\ at' = [at EXCEPT ![r] = "slot"]
    /\ slots' = slots \cup {about[r]}
    /\ linked' = linked \cup {r}
    /\ UNCHANGED <<subjects, about, queue, lagged>>

(* subscribe, last step: the receiver is attached to the slot it was handed, *)
(* which may have left the map meanwhile.                                    *)
SubscribeReceiver(r) ==
    /\ at[r] = "slot"
    /\ at' = [at EXCEPT ![r] = "live"]
    /\ UNCHANGED <<subjects, slots, about, linked, queue, lagged>>

(* Faulty: a full queue refuses the newest event. *)
PushedIfRoom(q, event) == IF Len(q) = Capacity THEN q ELSE Append(q, event)

(* One event pushed to one bounded queue: the oldest one is overwritten. *)
Pushed(q, event) ==
    IF Len(q) = Capacity THEN Append(Tail(q), event) ELSE Append(q, event)

(* EventHub::emit and publish_host: broadcast, or free a channel nobody reads. *)
Emit(s, event) ==
    /\ UNCHANGED <<subjects, at, about>>
    /\ \/ /\ s \notin slots
          /\ UNCHANGED <<slots, linked, queue, lagged>>
       \/ /\ s \in slots
          /\ Attached(s) = {}
          /\ RemoveSlot(s)
          /\ UNCHANGED <<queue, lagged>>
       \/ /\ s \in slots
          /\ Attached(s) # {}
          /\ queue' = [r \in Receivers |->
                         IF r \in Attached(s) THEN Pushed(queue[r], event) ELSE queue[r]]
          /\ lagged' = lagged \cup {r \in Attached(s) : Len(queue[r]) = Capacity}
          /\ UNCHANGED <<slots, linked>>

(* Faulty: close releases the subject only. *)
CloseSlotForgotten(s) == UNCHANGED <<subjects, slots, recvVars>>

(* EventHub::close, first section: the channel. *)
CloseSlot(s) ==
    /\ RemoveSlot(s)
    /\ UNCHANGED <<subjects, at, about, queue, lagged>>

(* EventHub::close, second section: the subject. *)
CloseSubject(s) ==
    /\ subjects' = subjects \ {s}
    /\ UNCHANGED <<slots, recvVars>>

(* Subscription::recv returning Lagged: reading resumes at the oldest event kept. *)
RecvLagged(r) ==
    /\ at[r] = "live"
    /\ r \in lagged
    /\ lagged' = lagged \ {r}
    /\ UNCHANGED <<subjects, slots, at, about, linked, queue>>

(* Subscription::recv returning an event. *)
RecvEvent(r) ==
    /\ at[r] = "live"
    /\ r \notin lagged
    /\ queue[r] # <<>>
    /\ queue' = [queue EXCEPT ![r] = Tail(@)]
    /\ UNCHANGED <<subjects, slots, at, about, linked, lagged>>

(* Faulty: a cut channel is waited on again. *)
RecvRetries(r) ==
    /\ at[r] = "live"
    /\ r \notin lagged \cup linked
    /\ queue[r] = <<>>
    /\ UNCHANGED hubVars

(* Subscription::recv returning Closed, once what was queued has been read. *)
RecvClosed(r) ==
    /\ at[r] = "live"
    /\ r \notin lagged
    /\ queue[r] = <<>>
    /\ r \notin linked
    /\ at' = [at EXCEPT ![r] = "ended"]
    /\ UNCHANGED <<subjects, slots, about, linked, queue, lagged>>

(* The subscription is dropped; its channel stays in `slots`. *)
DropReceiver(r) ==
    /\ at[r] \in {"live", "ended"}
    /\ at' = [at EXCEPT ![r] = "idle"]
    /\ about' = [about EXCEPT ![r] = None]
    /\ linked' = linked \ {r}
    /\ queue' = [queue EXCEPT ![r] = <<>>]
    /\ lagged' = lagged \ {r}
    /\ UNCHANGED <<subjects, slots>>

(* The whole of `recv`. *)
Recv(r) == RecvLagged(r) \/ RecvEvent(r) \/ RecvClosed(r)

(* The steps `subscribe` takes by itself once granted. *)
Subscribing(r) == SubscribeSubject(r) \/ SubscribeSlot(r) \/ SubscribeReceiver(r)
=============================================================================
