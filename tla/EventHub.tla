------------------------------ MODULE EventHub ------------------------------
(* src/lymaille/interactive/hub.rs: the broadcast of a session's events to   *)
(* its subscriptions, under callers that emit, subscribe, read, drop and     *)
(* close in any order.  Events of a session are numbered, so that an event   *)
(* lost, repeated, reordered or delivered to another session shows.          *)
EXTENDS HubOps

CONSTANT MaxEvents      \* bound: events emitted per session

ASSUME MaxEventsAssumption == MaxEvents \in Nat

VARIABLES
    closing,    \* sessions whose close has dropped the channel, not yet the subject
    sent,       \* number of events emitted per session
    seen        \* history: number of the last event a subscription accounted for

vars == <<hubVars, closing, sent, seen>>

Events == 1 .. MaxEvents

TypeOK ==
    /\ subjects \subseteq Sessions
    /\ slots \subseteq Sessions
    /\ closing \subseteq Sessions
    /\ at \in [Receivers -> Phases]
    /\ about \in [Receivers -> Sessions \cup {None}]
    /\ linked \subseteq Receivers
    /\ lagged \subseteq Receivers
    /\ \A r \in Receivers : queue[r] \in Seq(Events) /\ Len(queue[r]) <= Capacity
    /\ sent \in [Sessions -> 0 .. MaxEvents]
    /\ seen \in [Receivers -> 0 .. MaxEvents]

Init ==
    /\ HubInit
    /\ closing = {}
    /\ sent = [s \in Sessions |-> 0]
    /\ seen = [r \in Receivers |-> 0]

Registers(s) ==
    /\ Register(s)
    /\ UNCHANGED <<slots, recvVars, closing, sent, seen>>

Asks(r, s) == Grant(r, s) /\ UNCHANGED <<closing, sent, seen>>

Subscribes(r) ==
    /\ Subscribing(r)
    /\ seen' = IF at'[r] = "live" THEN [seen EXCEPT ![r] = sent[about[r]]] ELSE seen
    /\ UNCHANGED <<closing, sent>>

Emits(s) ==
    /\ sent[s] < MaxEvents
    /\ sent' = [sent EXCEPT ![s] = @ + 1]
    /\ Emit(s, sent[s] + 1)
    /\ UNCHANGED <<closing, seen>>

ClosesSlot(s) ==
    /\ s \notin closing
    /\ CloseSlot(s)
    /\ closing' = closing \cup {s}
    /\ UNCHANGED <<sent, seen>>

ClosesSubject(s) ==
    /\ s \in closing
    /\ CloseSubject(s)
    /\ closing' = closing \ {s}
    /\ UNCHANGED <<sent, seen>>

ReadsEvent(r) ==
    /\ RecvEvent(r)
    /\ seen' = [seen EXCEPT ![r] = Head(queue[r])]
    /\ UNCHANGED <<closing, sent>>

ReadsLagged(r) ==
    /\ RecvLagged(r)
    /\ seen' = [seen EXCEPT ![r] = Head(queue[r]) - 1]
    /\ UNCHANGED <<closing, sent>>

ReadsClosed(r) == RecvClosed(r) /\ UNCHANGED <<closing, sent, seen>>

Drops(r) ==
    /\ DropReceiver(r)
    /\ seen' = [seen EXCEPT ![r] = 0]
    /\ UNCHANGED <<closing, sent>>

Reads(r) == ReadsEvent(r) \/ ReadsLagged(r) \/ ReadsClosed(r)

Next ==
    \/ \E s \in Sessions : Registers(s) \/ Emits(s) \/ ClosesSlot(s) \/ ClosesSubject(s)
    \/ \E r \in Receivers, s \in Sessions : Asks(r, s)
    \/ \E r \in Receivers : Subscribes(r) \/ Reads(r) \/ Drops(r)

Spec == Init /\ [][Next]_vars

(* A call that entered `subscribe` or `close` finishes it (no await inside), *)
(* and a subscriber that stays keeps calling recv.                           *)
Fairness ==
    /\ \A s \in Sessions : WF_vars(ClosesSubject(s))
    /\ \A r \in Receivers : WF_vars(Subscribes(r)) /\ WF_vars(Reads(r))

FairSpec == Spec /\ Fairness

-----------------------------------------------------------------------------
(* What a subscription will read is exactly what its session emitted since   *)
(* the subscription, in order, without a hole unless recv is about to say    *)
(* Lagged, and up to the last event while the channel is open (hub.rs emit   *)
(* and recv; hub.sdd "deux abonnés reçoivent la même suite").                *)
Contiguous ==
    \A r \in Receivers : at[r] = "live" =>
        LET q == queue[r]
            first == IF q = <<>> THEN seen[r] + 1 ELSE q[1]
        IN  /\ \A i \in DOMAIN q : q[i] = first + i - 1
            /\ IF r \in lagged THEN first > seen[r] + 1 ELSE first = seen[r] + 1
            /\ r \in linked => first + Len(q) = sent[about[r]] + 1

(* A reader has exactly the events of its session, from a queue that stays   *)
(* within the capacity of the channel, whoever else subscribes, emits or     *)
(* closes (hub.rs EventHub::new, subscribe, emit, recv).                     *)
HubSound == TypeOK /\ Contiguous

(* Closing a session cuts every subscription it had at that moment, those    *)
(* still inside `subscribe` included: none stays attached to a channel of    *)
(* the closed generation (hub.rs close).                                     *)
CloseCutsAll ==
    [][\A s \in Sessions : s \in closing' \ closing =>
          \A r \in Receivers : r \in Holds(s) => r \notin linked']_vars

(* A subscriber that keeps reading a channel that was cut is told Closed: it *)
(* does not wait for ever on a session that is gone (hub.sdd scenario        *)
(* "close"; sse.rs ends its stream on it).                                   *)
CutIsNoticed ==
    \A r \in Receivers :
        (at[r] = "live" /\ r \notin linked) ~> (at[r] # "live")
=============================================================================
