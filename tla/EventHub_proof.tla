--------------------------- MODULE EventHub_proof ---------------------------
(* Proofs about EventHub, for any sessions, subscriptions, capacity and      *)
(* number of events.                                                         *)
EXTENDS EventHub, HubOps_proof, SequenceTheorems

(* A queue of consecutive numbers, and where one begins when what was        *)
(* accounted for ends at n.                                                  *)
Consecutive(q) == \A i \in 1 .. Len(q) : q[i] = q[1] + i - 1
First(q, n) == IF q = <<>> THEN n + 1 ELSE q[1]

(* p is q with e at the end, less its first `lost` numbers.                  *)
Shifts(q, p, e, lost) ==
    /\ p # <<>> /\ Len(p) = Len(q) + 1 - lost
    /\ \A i \in 1 .. Len(p) : p[i] = IF i = Len(p) THEN e ELSE q[i + lost]

(* What a subscription that reads knows of what was emitted: Contiguous, one *)
(* subscription at a time.                                                   *)
Suite(r) ==
    /\ Consecutive(queue[r])
    /\ IF r \in lagged THEN First(queue[r], seen[r]) > seen[r] + 1
                        ELSE First(queue[r], seen[r]) = seen[r] + 1
    /\ r \in linked => First(queue[r], seen[r]) + Len(queue[r]) = sent[about[r]] + 1

Suites == \A r \in Receivers : at[r] = "live" => Suite(r)

Numbers ==
    /\ subjects \subseteq Sessions /\ closing \subseteq Sessions
    /\ sent \in [Sessions -> 0 .. MaxEvents]
    /\ seen \in [Receivers -> 0 .. MaxEvents]

IInv == HubInv(Events) /\ Numbers /\ Suites

-----------------------------------------------------------------------------
(* Consecutive queues. *)

(* The next number put at the end of a consecutive queue leaves it           *)
(* consecutive, with its first number lost when there was no room.           *)
LEMMA PushedConsecutive ==
    ASSUME NEW q \in Seq(Nat), NEW p \in Seq(Nat), NEW e \in Nat, NEW lost \in 0 .. 1,
           Consecutive(q), q # <<>> => q[1] + Len(q) = e, q = <<>> => lost = 0,
           Shifts(q, p, e, lost)
    PROVE  /\ Consecutive(p)
           /\ p[1] + Len(p) = e + 1
           /\ p[1] = IF q = <<>> THEN e ELSE q[1] + lost
<1>0. /\ p # <<>> /\ Len(p) = Len(q) + 1 - lost
      /\ \A i \in 1 .. Len(p) : p[i] = IF i = Len(p) THEN e ELSE q[i + lost]
  BY DEF Shifts
<1>1. CASE q = <<>>
  <2>1. Len(p) = 1 /\ p[1] = e
    BY <1>0, <1>1
  <2>2. QED
    BY <1>1, <2>1 DEF Consecutive
<1>2. CASE q # <<>>
  <2>1. PICK n \in Nat \ {0}, first \in Nat, m \in Nat \ {0} :
           n = Len(q) /\ first = q[1] /\ m = Len(p)
    <3>1. Len(q) \in Nat \ {0} /\ q[1] \in Nat
      BY <1>2
    <3>2. Len(p) \in Nat \ {0}
      BY <1>0
    <3>3. QED
      BY <3>1, <3>2
  <2>e. e = first + n
    BY <1>2, <2>1
  <2>2. m = n + 1 - lost
    BY <1>0, <2>1
  <2>3. ASSUME NEW i \in 1 .. m PROVE p[i] = first + lost + i - 1
    <3>1. CASE i = m
      <4>1. p[i] = e
        BY <1>0, <2>1, <3>1
      <4>2. first + n = first + lost + m - 1
        BY <2>2
      <4>3. QED
        BY <2>e, <3>1, <4>1, <4>2
    <3>2. CASE i # m
      <4>1. i + lost \in 1 .. n
        BY <2>2, <3>2
      <4>2. q[i + lost] = first + (i + lost) - 1
        BY <2>1, <4>1 DEF Consecutive
      <4>3. p[i] = q[i + lost]
        BY <1>0, <2>1, <3>2
      <4>4. QED
        BY <4>2, <4>3
    <3>3. QED
      BY <3>1, <3>2
  <2>4. p[1] = first + lost
    BY <2>1, <2>3
  <2>5. Consecutive(p)
    BY <2>1, <2>3, <2>4 DEF Consecutive
  <2>6. p[1] + Len(p) = e + 1
    <3>1. p[1] + Len(p) = first + lost + m
      BY <2>1, <2>4
    <3>2. first + lost + m = first + n + 1
      BY <2>2
    <3>3. QED
      BY <2>e, <3>1, <3>2
  <2>7. QED
    BY <1>2, <2>1, <2>4, <2>5, <2>6
<1>3. QED
  BY <1>1, <1>2

(* Without its first number a consecutive queue is one that begins after it. *)
LEMMA TailConsecutive ==
    ASSUME NEW E, E \subseteq Nat, NEW q \in Seq(E), q # <<>>, Consecutive(q)
    PROVE  /\ Consecutive(Tail(q)) /\ Head(q) = q[1] /\ q[1] \in E
           /\ First(Tail(q), q[1]) = q[1] + 1
           /\ Len(Tail(q)) = Len(q) - 1
<1>1. Head(q) = q[1] /\ q[1] \in E /\ q[1] \in Nat /\ Len(q) \in Nat \ {0}
  <2>1. Head(q) = q[1] /\ q[1] \in E /\ Len(q) \in Nat \ {0}
    OBVIOUS
  <2>2. QED
    BY <2>1
<1>2. Tail(q) \in Seq(E) /\ Len(Tail(q)) = Len(q) - 1
  OBVIOUS
<1>3. ASSUME NEW i \in 1 .. Len(q) - 1 PROVE Tail(q)[i] = q[1] + i
  <2>1. Tail(q)[i] = q[i + 1] /\ i + 1 \in 1 .. Len(q)
    BY <1>1
  <2>2. QED
    BY <1>1, <2>1 DEF Consecutive
<1>4. Tail(q) # <<>> => Tail(q)[1] = q[1] + 1
  <2>1. Tail(q) # <<>> => 1 \in 1 .. Len(q) - 1
    BY <1>1, <1>2
  <2>2. QED
    BY <1>3, <2>1
<1>5. Consecutive(Tail(q))
  <2>1. CASE Len(q) = 1
    <3>1. PICK t : t = Tail(q)
      OBVIOUS
    <3>2. Len(t) = 0
      BY <2>1, <3>1
    <3>3. Consecutive(t)
      BY <3>2 DEF Consecutive
    <3>4. QED
      BY <3>1, <3>3
  <2>2. CASE Len(q) # 1
    <3>1. Tail(q) # <<>>
      <4>1. Len(Tail(q)) # 0 /\ Len(<<>>) = 0
        BY <2>2, <1>1, <1>2
      <4>2. QED
        BY <4>1
    <3>2. QED
      BY <3>1, <1>1, <1>2, <1>3, <1>4 DEF Consecutive
  <2>3. QED
    BY <2>1, <2>2
<1>6. QED
  BY <1>1, <1>2, <1>4, <1>5 DEF First

-----------------------------------------------------------------------------
(* A hub that was just created has emitted nothing. *)
LEMMA IInvInit == Init => IInv
BY HubInvInit, MaxEventsAssumption DEF Init, HubInit, IInv, Numbers, Suites

(* A queue that is left alone, with the numbers that go with it, keeps its   *)
(* suite, attached or cut.                                                   *)
LEMMA SuiteKept ==
    ASSUME NEW r \in Receivers, Suite(r), queue'[r] = queue[r], seen'[r] = seen[r],
           r \in lagged' <=> r \in lagged, r \in linked' => r \in linked,
           about'[r] = about[r],
           r \in linked' => sent'[about[r]] = sent[about[r]]
    PROVE  Suite(r)'
BY DEF Suite

(* EventHub::register and close, which leave every queue alone.              *)
LEMMA OthersKeep ==
    ASSUME IInv, NEW s \in Sessions, Registers(s) \/ ClosesSlot(s) \/ ClosesSubject(s)
    PROVE  IInv'
<1>1. UNCHANGED <<at, about, queue, lagged, sent, seen>> /\ linked' \subseteq linked
  BY DEF Registers, Register, ClosesSlot, CloseSlot, RemoveSlot, ClosesSubject, CloseSubject,
         recvVars
<1>2. Suites'
  BY <1>1, SuiteKept DEF IInv, Suites
<1>3. Numbers'
  BY DEF Registers, Register, ClosesSlot, CloseSlot, ClosesSubject, CloseSubject,
         recvVars, IInv, Numbers
<1>4. HubInv(Events)'
  <2>1. CASE Registers(s) \/ ClosesSubject(s)
    BY <2>1, QuietKeepsHub DEF IInv, Registers, ClosesSubject, CloseSubject
  <2>2. CASE ClosesSlot(s)
    BY <2>2, RemoveKeepsHub DEF IInv, ClosesSlot, CloseSlot
  <2>3. QED
    BY <2>1, <2>2
<1>5. QED
  BY <1>2, <1>3, <1>4 DEF IInv

(* EventHub::subscribe: a subscription that begins to read has everything    *)
(* that is emitted from then on, and nothing before.                         *)
LEMMA SubscribersKeep ==
    ASSUME IInv, NEW r \in Receivers, (\E s \in Sessions : Asks(r, s)) \/ Subscribes(r)
    PROVE  IInv'
<1>h. HubInv(Events)
  BY DEF IInv
<1>1. HubInv(Events)'
  BY <1>h, SubscribeKeepsHub DEF Asks, Subscribes
<1>2. /\ UNCHANGED <<queue, lagged, sent, closing>>
      /\ \A p \in Receivers \ {r} :
            at'[p] = at[p] /\ about'[p] = about[p] /\ seen'[p] = seen[p]
                           /\ (p \in linked' => p \in linked)
  BY <1>h DEF Asks, Grant, Subscribes, Subscribing, SubscribeSubject, SubscribeSlot,
         SubscribeReceiver, HubInv, IInv, Numbers
<1>3. Numbers'
  <2>1. about[r] \in Sessions => sent[about[r]] \in 0 .. MaxEvents
    BY DEF IInv, Numbers
  <2>2. at[r] # "idle" => about[r] \in Sessions
    BY <1>h DEF HubInv
  <2>3. QED
    BY <1>2, <2>1, <2>2 DEF Asks, Grant, Subscribes, Subscribing, SubscribeSubject, SubscribeSlot,
       SubscribeReceiver, IInv, Numbers
<1>4. ASSUME NEW p \in Receivers \ {r}, at'[p] = "live" PROVE Suite(p)'
  <2>1. Suite(p)
    BY <1>2, <1>4 DEF IInv, Suites
  <2>2. QED
    BY <1>2, <2>1, SuiteKept
<1>5. ASSUME at'[r] = "live" PROVE Suite(r)'
  <2>1. at[r] = "slot" /\ SubscribeReceiver(r)
    BY <1>5, <1>h DEF Asks, Grant, Subscribes, Subscribing, SubscribeSubject, SubscribeSlot,
       SubscribeReceiver, HubInv
  <2>2. queue'[r] = <<>> /\ r \notin lagged' /\ about'[r] = about[r]
    BY <2>1, <1>h, <1>2 DEF SubscribeReceiver, HubInv
  <2>3. seen'[r] = sent[about[r]] /\ sent[about[r]] \in Nat
    <3>1. Subscribes(r)
      BY <2>1 DEF Asks, Grant
    <3>2. about[r] \in Sessions /\ about' = about
      BY <2>1, <1>h DEF HubInv, SubscribeReceiver
    <3>3. QED
      BY <3>1, <3>2, <1>5 DEF Subscribes, IInv, Numbers
  <2>4. Len(queue'[r]) = 0
    BY <2>2
  <2>5. QED
    BY <2>2, <2>3, <2>4, <1>2 DEF Suite, First, Consecutive
<1>6. QED
  BY <1>1, <1>3, <1>4, <1>5 DEF IInv, Suites

(* EventHub::emit: those attached to the channel have one event more at the  *)
(* end, and have lost the first one when there was no room.                  *)
LEMMA EmitsKeep ==
    ASSUME IInv, NEW s \in Sessions, Emits(s)
    PROVE  IInv'
<1>e. PICK e : e = sent[s] + 1
  OBVIOUS
<1>h. HubInv(Events) /\ Numbers /\ e \in Events /\ Emit(s, e)
  BY <1>e, MaxEventsAssumption DEF IInv, Emits, Numbers, Events
<1>1. HubInv(Events)'
  BY <1>h, EmitKeepsHub
<1>2. sent' = [sent EXCEPT ![s] = e] /\ seen' = seen
  BY <1>e DEF Emits
<1>3. Numbers'
  BY <1>h, <1>2 DEF Numbers, Emits, Emit, Events
<1>4. ASSUME NEW r \in Receivers, at'[r] = "live" PROVE Suite(r)'
  <2>1. /\ at[r] = "live" /\ about'[r] = about[r]
        /\ r \in linked' => r \in linked
        /\ r \in linked' /\ about[r] = s => r \in Attached(s)
        /\ IF r \in Attached(s)
           THEN /\ queue'[r] = Pushed(queue[r], e)
                /\ r \in lagged' <=> r \in lagged \/ Len(queue[r]) = Capacity
           ELSE queue'[r] = queue[r] /\ (r \in lagged' <=> r \in lagged)
    BY <1>4, <1>h, EmitReaches
  <2>2. Suite(r) /\ about[r] \in Sessions
    BY <2>1, <1>h DEF IInv, Suites, HubInv
  <2>3. CASE r \notin Attached(s)
    <3>1. r \in linked' => sent'[about[r]] = sent[about[r]]
      BY <2>1, <2>2, <2>3, <1>2, <1>h DEF Numbers
    <3>2. QED
      BY <2>1, <2>2, <2>3, <1>2, <3>1, SuiteKept
  <2>4. CASE r \in Attached(s)
    <3>1. PICK q : q = queue[r]
      OBVIOUS
    <3>2. /\ q \in Seq(Events) /\ Len(q) \in Nat /\ Len(q) <= Capacity
          /\ seen[r] \in Nat /\ sent[s] \in Nat
      BY <3>1, <1>h DEF HubInv, Numbers
    <3>3. about[r] = s /\ r \in linked
      BY <2>4 DEF Attached
    <3>4. /\ Consecutive(q)
          /\ First(q, seen[r]) + Len(q) = e
          /\ IF r \in lagged THEN First(q, seen[r]) > seen[r] + 1 ELSE First(q, seen[r]) = seen[r] + 1
      BY <2>2, <3>1, <3>3, <1>e DEF Suite
    <3>5. q # <<>> => q[1] + Len(q) = e /\ q[1] \in Nat
      <4>1. ASSUME q # <<>> PROVE q[1] \in Events
        BY <3>2, <4>1
      <4>2. QED
        BY <3>4, <4>1 DEF First, Events
    <3>6. PICK lost \in 0 .. 1 : lost = 1 <=> Len(q) = Capacity
      OBVIOUS
    <3>7. PICK p : /\ p = Pushed(q, e)
                   /\ p \in Seq(Events) /\ Len(p) = Len(q) + 1 - lost /\ Len(p) \in 1 .. Capacity
                   /\ \A i \in 1 .. Len(q) + 1 - lost :
                         p[i] = IF i = Len(q) + 1 - lost THEN e ELSE q[i + lost]
      <4>1. q \in Seq(Events) /\ Len(q) <= Capacity /\ e \in Events
        BY <1>h, <3>2
      <4>2. /\ Pushed(q, e) \in Seq(Events)
            /\ \A i \in 1 .. Len(q) + 1 - lost :
                   Pushed(q, e)[i] = IF i = Len(q) + 1 - lost THEN e ELSE q[i + lost]
        BY <3>6, <4>1, PushedElements
      <4>3. /\ Len(Pushed(q, e)) = IF Len(q) = Capacity THEN Capacity ELSE Len(q) + 1
            /\ Len(Pushed(q, e)) \in 1 .. Capacity
        BY <4>1, PushedLength
      <4>4. Len(Pushed(q, e)) = Len(q) + 1 - lost
        BY <3>2, <3>6, <4>3, CapacityAssumption
      <4>5. QED
        BY <4>2, <4>3, <4>4
    <3>8. /\ p # <<>> /\ Consecutive(p) /\ p[1] + Len(p) = e + 1
          /\ p[1] = IF q = <<>> THEN e ELSE q[1] + lost
      <4>2. p # <<>> /\ p \in Seq(Nat) /\ q \in Seq(Nat) /\ e \in Nat
        <5>1. Events \subseteq Nat
          BY DEF Events
        <5>2. p # <<>>
          BY <3>7
        <5>3. q \in Seq(Nat) /\ p \in Seq(Nat)
          BY <3>2, <3>7, <5>1, SeqMonotonic
        <5>4. QED
          BY <1>h, <5>1, <5>2, <5>3
      <4>3. q = <<>> => lost = 0
        BY <3>6, CapacityAssumption
      <4>4. Shifts(q, p, e, lost)
        BY <3>7, <4>2 DEF Shifts
      <4>5. Consecutive(q) /\ (q # <<>> => q[1] + Len(q) = e)
        BY <3>4, <3>5
      <4>6. QED
        BY <4>2, <4>3, <4>4, <4>5, PushedConsecutive
    <3>9. IF r \in lagged' THEN p[1] > seen[r] + 1 ELSE p[1] = seen[r] + 1
      <4>1. CASE q = <<>>
        <5>1. Len(q) = 0 /\ Len(q) # Capacity
          BY <4>1, CapacityAssumption
        <5>2. r \notin lagged /\ p[1] = seen[r] + 1
          BY <3>2, <3>4, <3>8, <4>1, <5>1 DEF First
        <5>3. QED
          BY <2>1, <2>4, <3>1, <5>1, <5>2
      <4>2. CASE q # <<>>
        BY <2>1, <2>4, <3>1, <3>2, <3>4, <3>5, <3>6, <3>8, <4>2 DEF First
      <4>3. QED
        BY <4>1, <4>2
    <3>10. queue'[r] = p /\ seen'[r] = seen[r] /\ about'[r] = s /\ sent'[s] = e
      BY <2>1, <2>4, <3>1, <3>3, <3>7, <1>2, <1>h DEF Numbers
    <3>11. QED
      BY <3>8, <3>9, <3>10 DEF Suite, First
  <2>5. QED
    BY <2>3, <2>4
<1>5. QED
  BY <1>1, <1>3, <1>4 DEF IInv, Suites

(* Subscription::recv: an event read is the next one, and Lagged says that   *)
(* what follows is not.                                                      *)
LEMMA ReadersKeep ==
    ASSUME IInv, NEW r \in Receivers, Reads(r)
    PROVE  IInv'
<1>. DEFINE q == queue[r]
<1>h. HubInv(Events) /\ Numbers
  BY DEF IInv
<1>1. HubInv(Events)'
  BY <1>h, RecvKeepsHub DEF Reads, ReadsEvent, ReadsLagged, ReadsClosed, Recv
<1>2. /\ UNCHANGED <<about, linked, sent, closing, subjects>>
      /\ \A p \in Receivers \ {r} : /\ at'[p] = at[p] /\ queue'[p] = queue[p]
                                    /\ seen'[p] = seen[p] /\ (p \in lagged' <=> p \in lagged)
  BY <1>h DEF Reads, ReadsEvent, ReadsLagged, ReadsClosed, RecvEvent, RecvLagged, RecvClosed,
     HubInv, Numbers
<1>3. ASSUME NEW p \in Receivers \ {r}, at'[p] = "live" PROVE Suite(p)'
  <2>1. Suite(p)
    BY <1>2, <1>3 DEF IInv, Suites
  <2>2. QED
    BY <1>2, <2>1, SuiteKept
<1>4. q \in Seq(Events) /\ seen[r] \in 0 .. MaxEvents
  BY <1>h DEF HubInv, Numbers
<1>e. Events \subseteq Nat
  BY DEF Events
<1>5. CASE ReadsEvent(r)
  <2>1. /\ q # <<>> /\ r \notin lagged' /\ at[r] = "live"
        /\ queue'[r] = Tail(q) /\ seen'[r] = Head(q)
    BY <1>5, <1>h DEF ReadsEvent, RecvEvent, HubInv, Numbers
  <2>2. /\ Consecutive(q)
        /\ r \in linked => q[1] + Len(q) = sent[about[r]] + 1
    BY <2>1 DEF IInv, Suites, Suite, First
  <2>3. /\ Consecutive(Tail(q)) /\ Head(q) = q[1] /\ q[1] \in Events
        /\ First(Tail(q), q[1]) = q[1] + 1 /\ Len(Tail(q)) = Len(q) - 1
    BY <1>4, <1>e, <2>1, <2>2, TailConsecutive
  <2>4. Numbers'
    BY <1>5, <1>2, <1>h, <2>3 DEF ReadsEvent, Numbers, Events
  <2>5. r \in linked => q[1] + 1 + (Len(q) - 1) = sent[about[r]] + 1
    BY <2>2, <2>3, <1>4 DEF Events
  <2>6. Suite(r)'
    BY <2>1, <2>3, <2>5, <1>2 DEF Suite
  <2>7. QED
    BY <1>1, <1>3, <2>4, <2>6 DEF IInv, Suites
<1>6. CASE ReadsLagged(r)
  <2>1. /\ r \notin lagged' /\ r \in lagged /\ at[r] = "live"
        /\ queue'[r] = q /\ seen'[r] = Head(q) - 1
    BY <1>6, <1>h DEF ReadsLagged, RecvLagged, HubInv, Numbers
  <2>2. Suite(r)
    BY <2>1 DEF IInv, Suites
  <2>3. q # <<>>
    BY <2>1, <2>2, <1>4 DEF Suite, First
  <2>4. Head(q) = q[1] /\ q[1] \in Events /\ q[1] - 1 \in 0 .. MaxEvents
    BY <1>4, <2>3, MaxEventsAssumption DEF Events
  <2>5. Numbers'
    BY <1>6, <1>2, <1>h, <2>4 DEF ReadsLagged, Numbers
  <2>6. Suite(r)'
    BY <2>1, <2>2, <2>3, <2>4, <1>2 DEF Suite, First, Events
  <2>7. QED
    BY <1>1, <1>3, <2>5, <2>6 DEF IInv, Suites
<1>7. CASE ReadsClosed(r)
  <2>1. at'[r] # "live"
    BY <1>7, <1>h DEF ReadsClosed, RecvClosed, HubInv
  <2>2. Numbers'
    BY <1>7, <1>2, <1>h DEF ReadsClosed, Numbers
  <2>3. QED
    BY <1>1, <1>3, <2>1, <2>2 DEF IInv, Suites
<1>8. QED
  BY <1>5, <1>6, <1>7 DEF Reads

(* A subscription that is dropped takes nothing from the others. *)
LEMMA DropsKeep ==
    ASSUME IInv, NEW r \in Receivers, Drops(r)
    PROVE  IInv'
<1>h. HubInv(Events) /\ Numbers
  BY DEF IInv
<1>1. HubInv(Events)'
  BY <1>h, DropKeepsHub DEF Drops
<1>2. Numbers'
  BY <1>h, MaxEventsAssumption DEF Drops, DropReceiver, Numbers
<1>3. ASSUME NEW p \in Receivers, at'[p] = "live" PROVE Suite(p)'
  <2>1. p # r
    BY <1>3, <1>h DEF Drops, DropReceiver, HubInv
  <2>2. /\ at[p] = "live" /\ about'[p] = about[p] /\ queue'[p] = queue[p] /\ seen'[p] = seen[p]
        /\ (p \in lagged' <=> p \in lagged) /\ (p \in linked' => p \in linked) /\ sent' = sent
    BY <1>3, <2>1, <1>h DEF Drops, DropReceiver, HubInv, Numbers
  <2>3. Suite(p)
    BY <2>2 DEF IInv, Suites
  <2>4. QED
    BY <2>2, <2>3, SuiteKept
<1>4. QED
  BY <1>1, <1>2, <1>3 DEF IInv, Suites

(* Every step of the hub. *)
LEMMA IInvNext == IInv /\ [Next]_vars => IInv'
<1> SUFFICES ASSUME IInv, [Next]_vars PROVE IInv'
  OBVIOUS
<1>1. CASE \E s \in Sessions : Registers(s) \/ ClosesSlot(s) \/ ClosesSubject(s)
  BY <1>1, OthersKeep
<1>2. CASE \E s \in Sessions : Emits(s)
  BY <1>2, EmitsKeep
<1>3. CASE \E r \in Receivers : (\E s \in Sessions : Asks(r, s)) \/ Subscribes(r)
  BY <1>3, SubscribersKeep
<1>4. CASE \E r \in Receivers : Reads(r)
  BY <1>4, ReadersKeep
<1>5. CASE \E r \in Receivers : Drops(r)
  BY <1>5, DropsKeep
<1>6. CASE UNCHANGED vars
  BY <1>6 DEF vars, hubVars, IInv, HubInv, Numbers, Suites, Suite
<1>7. QED
  BY <1>1, <1>2, <1>3, <1>4, <1>5, <1>6 DEF Next

LEMMA IInvAlways == Spec => []IInv
BY IInvInit, IInvNext, PTL DEF Spec

-----------------------------------------------------------------------------
(* Whoever subscribes, emits, reads, drops or closes, and whatever the       *)
(* capacity: a reader has exactly the events of its session, in order, and   *)
(* is told when some were lost (hub.rs EventHub::emit, Subscription::recv).  *)
THEOREM HubSoundAlways == Spec => []HubSound
<1>1. IInv => TypeOK
  BY DEF IInv, HubInv, Numbers, TypeOK
<1>2. IInv => Contiguous
  <2>1. ASSUME IInv, NEW r \in Receivers PROVE DOMAIN queue[r] = 1 .. Len(queue[r])
    BY <2>1 DEF IInv, HubInv
  <2>2. ASSUME IInv, NEW r \in Receivers, at[r] = "live", queue[r] # <<>>
        PROVE  \A i \in DOMAIN queue[r] : queue[r][i] = queue[r][1] + i - 1
    BY <2>1, <2>2 DEF IInv, Suites, Suite, Consecutive
  <2>3. QED
    BY <2>1, <2>2 DEF IInv, Suites, Suite, First, Contiguous
<1>3. QED
  BY <1>1, <1>2, IInvAlways, PTL DEF HubSound

(* Closing a session cuts every subscription that holds its channel, those   *)
(* still inside `subscribe` included (hub.rs close).                         *)
THEOREM CloseCutsAllAlways == Spec => CloseCutsAll
<1>1. ASSUME [Next]_vars, NEW s \in Sessions, s \in closing' \ closing, NEW r \in Holds(s)
      PROVE  r \notin linked'
  <2>1. ClosesSlot(s)
    BY <1>1 DEF Next, vars, Registers, Emits, ClosesSlot, ClosesSubject, Asks, Subscribes,
       Reads, ReadsEvent, ReadsLagged, ReadsClosed, Drops
  <2>2. QED
    BY <2>1 DEF ClosesSlot, CloseSlot, RemoveSlot
<1>2. [Next]_vars =>
        [\A s \in Sessions : s \in closing' \ closing =>
            \A r \in Receivers : r \in Holds(s) => r \notin linked']_vars
  BY <1>1
<1>3. QED
  BY <1>2, PTL DEF Spec, CloseCutsAll
=============================================================================
