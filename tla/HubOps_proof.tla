---------------------------- MODULE HubOps_proof ----------------------------
(* What the sections of the event hub preserve, whoever calls them and       *)
(* whatever is broadcast: lemmas for the two modules that drive it.          *)
EXTENDS HubOps, TLAPS

-----------------------------------------------------------------------------
(* One bounded queue. *)

(* A push puts the event last; what stays before it keeps its order, less    *)
(* the oldest event when there was no room.                                  *)
LEMMA PushedElements ==
    ASSUME NEW E, NEW q \in Seq(E), NEW e \in E, Len(q) <= Capacity,
           NEW lost \in 0 .. 1, lost = 1 <=> Len(q) = Capacity
    PROVE  /\ Pushed(q, e) \in Seq(E)
           /\ \A i \in 1 .. Len(q) + 1 - lost :
                 Pushed(q, e)[i] = IF i = Len(q) + 1 - lost THEN e ELSE q[i + lost]
<1>1. CASE Len(q) = Capacity
  <2>1. q # <<>> /\ Tail(q) \in Seq(E) /\ Len(Tail(q)) = Capacity - 1
    BY <1>1, CapacityAssumption
  <2>2. \A i \in 1 .. Capacity - 1 : Tail(q)[i] = q[i + 1]
    BY <1>1, <2>1, CapacityAssumption
  <2>3. Pushed(q, e) = Append(Tail(q), e) /\ lost = 1
    BY <1>1 DEF Pushed
  <2>4. QED
    BY <1>1, <2>1, <2>2, <2>3, CapacityAssumption
<1>2. CASE Len(q) # Capacity
  <2>1. Pushed(q, e) = Append(q, e) /\ lost = 0
    BY <1>2 DEF Pushed
  <2>2. QED
    BY <1>2, <2>1, CapacityAssumption
<1>3. QED
  BY <1>1, <1>2

(* It keeps the queue within the capacity of the channel.                    *)
LEMMA PushedLength ==
    ASSUME NEW E, NEW q \in Seq(E), NEW e \in E, Len(q) <= Capacity
    PROVE  /\ Len(Pushed(q, e)) = IF Len(q) = Capacity THEN Capacity ELSE Len(q) + 1
           /\ Len(Pushed(q, e)) \in 1 .. Capacity
<1>1. CASE Len(q) = Capacity
  <2>1. q # <<>> /\ Tail(q) \in Seq(E) /\ Len(Tail(q)) = Capacity - 1
    BY <1>1, CapacityAssumption
  <2>2. QED
    BY <1>1, <2>1, CapacityAssumption DEF Pushed
<1>2. CASE Len(q) # Capacity
  BY <1>2, CapacityAssumption DEF Pushed
<1>3. QED
  BY <1>1, <1>2

-----------------------------------------------------------------------------
(* The subscriptions.  One that is attached to a channel of the map is that  *)
(* channel's, so that closing the channel reaches it; one that is not        *)
(* reading yet, or no more, has nothing to read.                             *)
HubInv(E) ==
    /\ at \in [Receivers -> Phases]
    /\ about \in [Receivers -> Sessions \cup {None}]
    /\ queue \in [Receivers -> Seq(E)]
    /\ slots \subseteq Sessions /\ linked \subseteq Receivers /\ lagged \subseteq Receivers
    /\ \A r \in Receivers :
        /\ at[r] # "idle" => about[r] \in Sessions
        /\ Len(queue[r]) <= Capacity
        /\ at[r] # "live" => queue[r] = <<>> /\ r \notin lagged
        /\ r \in linked => at[r] \in {"slot", "live"} /\ about[r] \in slots

(* A hub that was just created is empty (hub.rs EventHub::new). *)
LEMMA HubInvInit == ASSUME NEW E, HubInit PROVE HubInv(E)
BY CapacityAssumption DEF HubInit, HubInv, Phases

(* Whoever touches neither a channel nor a subscription keeps them. *)
LEMMA QuietKeepsHub ==
    ASSUME NEW E, HubInv(E), UNCHANGED <<slots, recvVars>>
    PROVE  HubInv(E)'
BY DEF HubInv, recvVars

(* The steps of `subscribe`. *)
LEMMA SubscribeKeepsHub ==
    ASSUME NEW E, HubInv(E), NEW r \in Receivers,
           (\E s \in Sessions : Grant(r, s)) \/ Subscribing(r)
    PROVE  HubInv(E)'
<1>1. CASE \E s \in Sessions : Grant(r, s)
  BY <1>1 DEF HubInv, Grant, Phases
<1>2. CASE SubscribeSubject(r)
  BY <1>2 DEF HubInv, SubscribeSubject, Phases
<1>3. CASE SubscribeSlot(r)
  BY <1>3 DEF HubInv, SubscribeSlot, Phases
<1>4. CASE SubscribeReceiver(r)
  BY <1>4 DEF HubInv, SubscribeReceiver, Phases
<1>5. QED
  BY <1>1, <1>2, <1>3, <1>4 DEF Subscribing

(* A channel that leaves the map leaves nobody attached to it. *)
LEMMA RemoveKeepsHub ==
    ASSUME NEW E, HubInv(E), NEW s \in Sessions, RemoveSlot(s), UNCHANGED <<at, about, queue, lagged>>
    PROVE  HubInv(E)'
BY DEF HubInv, RemoveSlot, Holds

(* What one emission does to the subscriptions: only those attached to the   *)
(* channel of the session gain the event, and every one of them does.        *)
LEMMA EmitReaches ==
    ASSUME NEW E, HubInv(E), NEW s \in Sessions, NEW e \in E, Emit(s, e), NEW r \in Receivers
    PROVE  /\ at'[r] = at[r] /\ about'[r] = about[r]
           /\ r \in linked' => r \in linked
           /\ r \in linked' /\ at[r] = "live" /\ about[r] = s => r \in Attached(s)
           /\ IF r \in Attached(s)
              THEN /\ queue'[r] = Pushed(queue[r], e)
                   /\ r \in lagged' <=> r \in lagged \/ Len(queue[r]) = Capacity
              ELSE queue'[r] = queue[r] /\ (r \in lagged' <=> r \in lagged)
<1>1. r \in Attached(s) => s \in slots
  BY DEF HubInv, Attached
<1>2. CASE s \notin slots
  BY <1>1, <1>2 DEF Emit, Attached, HubInv
<1>3. CASE s \in slots /\ Attached(s) = {}
  BY <1>3 DEF Emit, RemoveSlot, Attached, Holds
<1>4. CASE s \in slots /\ Attached(s) # {}
  BY <1>4 DEF Emit, Attached
<1>5. QED
  BY <1>2, <1>3, <1>4

(* An emission keeps the queues within the capacity. *)
LEMMA EmitKeepsHub ==
    ASSUME NEW E, HubInv(E), NEW s \in Sessions, NEW e \in E, Emit(s, e)
    PROVE  HubInv(E)'
<1>1. CASE s \notin slots
  BY <1>1 DEF Emit, HubInv
<1>2. CASE s \in slots /\ Attached(s) = {}
  BY <1>2, RemoveKeepsHub DEF Emit
<1>3. CASE s \in slots /\ Attached(s) # {}
  <2>1. /\ UNCHANGED <<at, about, slots, linked>>
        /\ queue' = [r \in Receivers |->
                         IF r \in Attached(s) THEN Pushed(queue[r], e) ELSE queue[r]]
        /\ lagged' = lagged \cup {r \in Attached(s) : Len(queue[r]) = Capacity}
    BY <1>3 DEF Emit
  <2>2. ASSUME NEW r \in Receivers
        PROVE  queue'[r] \in Seq(E) /\ Len(queue'[r]) <= Capacity
    <3>1. Pushed(queue[r], e) \in Seq(E) /\ Len(Pushed(queue[r], e)) \in 1 .. Capacity
      <4>1. PICK lost \in 0 .. 1 : lost = 1 <=> Len(queue[r]) = Capacity
        OBVIOUS
      <4>2. queue[r] \in Seq(E) /\ Len(queue[r]) <= Capacity
        BY DEF HubInv
      <4>3. QED
        BY <4>1, <4>2, PushedElements, PushedLength
    <3>2. QED
      BY <2>1, <3>1, CapacityAssumption DEF HubInv
  <2>3. queue' \in [Receivers -> Seq(E)]
    BY <2>1, <2>2
  <2>4. QED
    BY <2>1, <2>2, <2>3 DEF HubInv, Attached
<1>4. QED
  BY <1>1, <1>2, <1>3

(* The answers of `recv`. *)
LEMMA RecvKeepsHub ==
    ASSUME NEW E, HubInv(E), NEW r \in Receivers, Recv(r)
    PROVE  HubInv(E)'
<1>1. CASE RecvLagged(r)
  BY <1>1 DEF HubInv, RecvLagged
<1>2. CASE RecvEvent(r)
  <2>1. queue[r] \in Seq(E) /\ queue[r] # <<>> /\ Len(queue[r]) <= Capacity
    BY <1>2 DEF RecvEvent, HubInv
  <2>2. Tail(queue[r]) \in Seq(E) /\ Len(Tail(queue[r])) <= Capacity
    BY <2>1, CapacityAssumption
  <2>3. QED
    BY <1>2, <2>2 DEF HubInv, RecvEvent
<1>3. CASE RecvClosed(r)
  BY <1>3 DEF HubInv, RecvClosed, Phases
<1>4. QED
  BY <1>1, <1>2, <1>3 DEF Recv

(* A subscription that is dropped. *)
LEMMA DropKeepsHub ==
    ASSUME NEW E, HubInv(E), NEW r \in Receivers, DropReceiver(r)
    PROVE  HubInv(E)'
BY CapacityAssumption DEF HubInv, DropReceiver, Phases
=============================================================================
