-------------------------- MODULE MatrixChat_proof --------------------------
(* What the sync loops and the chat bridge keep, for every number of         *)
(* replicas, rooms, users, messages and sessions.                            *)
EXTENDS MatrixChat, TLAPS

-----------------------------------------------------------------------------
(* The sync loops *)

(* A late response is being delivered, and there was one. *)
LateInv ==
    \A r \in Replicas :
        /\ late[r] \in {0, 1}
        /\ late[r] = 1 => loop[r] = "delivering"

LeaseInv == LeaseTypeOK /\ LateInv

LEMMA LeaseStart == LeaseInit => LeaseInv
BY DeliveriesAssumption, LeaseAssumption
DEF LeaseInit, LeaseInv, LeaseTypeOK, LateInv, LoopPhases, Messages

LEMMA TakenTypes ==
    ASSUME LeaseInv, NEW r \in Replicas, Take(r)
    PROVE  /\ holder' \in Replicas \cup {None}
           /\ left' \in 0 .. LeaseTicks
           /\ late' = [late EXCEPT ![r] = 0]
BY LeaseAssumption DEF LeaseInv, LeaseTypeOK, Take

LEMMA LeaseStep == LeaseInv /\ LeaseNext => LeaseInv'
<1> SUFFICES ASSUME LeaseInv, LeaseNext PROVE LeaseInv'
  OBVIOUS
<1> USE DeliveriesAssumption, LeaseAssumption DEF LeaseInv, LeaseTypeOK, LateInv, LoopPhases, Messages
<1>1. ASSUME NEW r \in Replicas, TakesLease(r) PROVE LeaseInv'
  BY <1>1, TakenTypes DEF TakesLease
<1>2. ASSUME NEW r \in Replicas, InitialSync(r) PROVE LeaseInv'
  BY <1>2 DEF InitialSync
<1>3. ASSUME NEW r \in Replicas, PollAnswers(r) PROVE LeaseInv'
  <2>1. LeaseTypeOK'
    BY <1>3 DEF PollAnswers
  <2>2. LateInv'
    BY <1>3 DEF PollAnswers
  <2> QED BY <2>1, <2>2
<1>4. ASSUME NEW r \in Replicas, PollFails(r) PROVE LeaseInv'
  BY <1>4 DEF PollFails
<1>5. ASSUME NEW r \in Replicas, Retries(r) PROVE LeaseInv'
  <2>1. CASE Take(r) /\ loop' = [loop EXCEPT ![r] = "polling"] /\ UNCHANGED unread
    BY <1>5, <2>1, TakenTypes DEF Retries
  <2>2. CASE LosesLease(r)
    BY <1>5, <2>2 DEF Retries, LosesLease
  <2> QED BY <1>5, <2>1, <2>2 DEF Retries, RenewThen
<1>6. ASSUME NEW r \in Replicas, Delivers(r) PROVE LeaseInv'
  BY <1>6 DEF Delivers
<1>7. ASSUME NEW r \in Replicas, Renews(r) PROVE LeaseInv'
  <2>1. CASE Take(r) /\ loop' = [loop EXCEPT ![r] = "polling"] /\ UNCHANGED unread
    BY <1>7, <2>1, TakenTypes DEF Renews
  <2>2. CASE LosesLease(r)
    BY <1>7, <2>2 DEF Renews, LosesLease
  <2> QED BY <1>7, <2>1, <2>2 DEF Renews, RenewThen
<1>8. ASSUME NEW r \in Replicas, Returns(r) PROVE LeaseInv'
  BY <1>8 DEF Returns
<1>9. ASSUME NEW r \in Replicas, Starts(r) PROVE LeaseInv'
  BY <1>9 DEF Starts
<1>10. ASSUME NEW r \in Replicas, Leaves(r),
              holder' \in Replicas \cup {None}, left' \in 0 .. LeaseTicks
       PROVE  LeaseInv'
  BY <1>10 DEF Leaves
<1>11. ASSUME NEW r \in Replicas, Stops(r) PROVE LeaseInv'
  BY <1>10, <1>11 DEF Stops
<1>12. ASSUME NEW r \in Replicas, Crashes(r) PROVE LeaseInv'
  BY <1>10, <1>12 DEF Crashes
<1>13. CASE GetsMessage
  BY <1>13 DEF GetsMessage
<1>14. CASE LeaseTick
  BY <1>14 DEF LeaseTick
<1> QED
  BY <1>1, <1>2, <1>3, <1>4, <1>5, <1>6, <1>7, <1>8, <1>9, <1>11, <1>12, <1>13, <1>14
  DEF LeaseNext, LoopStep

LEMMA LeaseOnlyWhenFree ==
    ASSUME LeaseInv, LeaseNext, holder # None, left > 0
    PROVE  holder' = holder
BY DEF LeaseNext, LoopStep, TakesLease, InitialSync, PollAnswers, PollFails, Retries,
       Delivers, Renews, Returns, Starts, Stops, Crashes, GetsMessage, LeaseTick,
       RenewThen, LosesLease, Takeable, Take, LeaseInv, LeaseTypeOK, LateInv
-----------------------------------------------------------------------------
(* The chat bridge *)

(* A message acted on is in the table of the events seen, or too old; and an *)
(* event has not been seen for longer than it is old.                        *)
SeenInv ==
    \A m \in Messages :
        /\ acted[m] \in {0, 1}
        /\ acted[m] = 1 => seen[m] # None \/ age[m] > MaxAge
        /\ seen[m] # None => msg[m] # None /\ (seen[m] <= age[m] \/ age[m] > MaxAge)

(* A task handles a message the server has, in a room that was nobody's or   *)
(* its author's when it read it; the session it is about to write into the   *)
(* room is its author's.                                                     *)
TaskInv ==
    \A t \in Tasks :
        /\ pc[t] # "idle" => msg[Msg(t)] # None
        /\ saw[t] = None \/ (msg[Msg(t)] # None /\ saw[t] = Who(t))
        /\ pc[t] \in {"claim", "insert", "collect"} => sess[t] \in Sessions
        /\ pc[t] \in {"claim", "insert"} => opener[sess[t]] = Who(t)

(* A room that is nobody's has no session. *)
RoomInv == \A x \in Rooms : roomOwner[x] = None => roomSession[x] = NoSession

BridgeInv ==
    /\ BridgeTypeOK
    /\ SeenInv
    /\ TaskInv
    /\ RoomInv
    /\ RoomSessionOwned
    /\ CollectorHasTurn

LEMMA BridgeStart == BridgeInit => BridgeInv
BY DeliveriesAssumption, BridgeAssumption
DEF BridgeInit, BridgeInv, BridgeTypeOK, SeenInv, TaskInv, RoomInv, RoomSessionOwned, CollectorHasTurn,
    Phases, Messages, Sessions, Rest, NoSession, Msg, Tasks

(* What the steps of a task leave to it. *)
LEMMA TaskParts ==
    ASSUME NEW t \in Tasks
    PROVE  /\ Rep(t) \in Replicas
           /\ Msg(t) \in Messages
           /\ t = <<Rep(t), Msg(t)>>
BY DEF Tasks, Rep, Msg

LEMMA ContentParts ==
    ASSUME NEW c \in Content
    PROVE  /\ c.room \in Rooms
           /\ c.who \in Users
           /\ c.kind \in Kinds
BY DEF Content

LEMMA EndsTypes ==
    ASSUME BridgeInv, NEW t \in Tasks, Ends(t)
    PROVE  /\ pc' \in [Tasks -> Phases]
           /\ saw' \in [Tasks -> Users \cup {None}]
           /\ sess' \in [Tasks -> Sessions \cup {NoSession}]
           /\ fresh' \in [Tasks -> BOOLEAN]
           /\ heard' \in [Tasks -> {"nothing", "ended", "closed"}]
           /\ orphans' \in SUBSET Tasks
BY DEF BridgeInv, BridgeTypeOK, Ends, Phases

LEMMA GoesTypes ==
    ASSUME BridgeInv, NEW t \in Tasks, NEW phase \in Phases, Goes(t, phase)
    PROVE  /\ pc' \in [Tasks -> Phases]
           /\ saw' \in [Tasks -> Users \cup {None}]
           /\ sess' \in [Tasks -> Sessions \cup {NoSession}]
           /\ fresh' \in [Tasks -> BOOLEAN]
           /\ heard' \in [Tasks -> {"nothing", "ended", "closed"}]
           /\ orphans' \in SUBSET Tasks
BY DEF BridgeInv, BridgeTypeOK, Goes, Reaches, Phases

LEMMA FirstPhase ==
    ASSUME BridgeInv, NEW t \in Tasks, pc[t] # "idle"
    PROVE  /\ Who(t) \in Users
           /\ Room(t) \in Rooms
           /\ FirstStep(t) \in {"open", "subscribe", "close", "resume"}
<1>1. msg[Msg(t)] \in Content
  BY TaskParts DEF BridgeInv, BridgeTypeOK, TaskInv
<1> QED BY <1>1, ContentParts DEF Kinds, FirstStep, Kind, Room, Who

LEMMA ArrivesKeeps ==
    ASSUME BridgeInv, NEW m \in Messages, Arrives(m), UNCHANGED mishaps
    PROVE  BridgeInv'
<1> USE DeliveriesAssumption, BridgeAssumption
<1>1. BridgeTypeOK'
  BY DEF BridgeInv, BridgeTypeOK, Arrives, roomVars, sessionVars, taskVars
<1>2. SeenInv'
  BY DEF BridgeInv, BridgeTypeOK, SeenInv, Arrives, roomVars, sessionVars, taskVars
<1>3. TaskInv'
  BY TaskParts DEF BridgeInv, BridgeTypeOK, TaskInv, Who, Msg, Arrives, roomVars, sessionVars, taskVars
<1>4. RoomSessionOwned' /\ RoomInv'
  BY DEF BridgeInv, RoomSessionOwned, RoomInv, Arrives, roomVars, sessionVars, taskVars
<1>5. CollectorHasTurn'
  BY DEF BridgeInv, CollectorHasTurn, Msg, Rep, Arrives, roomVars, sessionVars, taskVars
<1> QED BY <1>1, <1>2, <1>3, <1>4, <1>5 DEF BridgeInv

LEMMA ReadsRoomKeeps ==
    ASSUME BridgeInv, NEW t \in Tasks, ReadsRoom(t), mishaps' \in 0 .. MaxMishaps
    PROVE  BridgeInv'
<1> USE DeliveriesAssumption, BridgeAssumption
    DEF ReadsRoom, EntersRoom, Reaches, Rep, Msg, Who, Room, Kind,
        inputVars, roomVars, sessionVars, taskVars
<1>0. FirstStep(t) \in {"open", "subscribe", "close", "resume"} /\ Room(t) \in Rooms
  BY FirstPhase
<1>1. BridgeTypeOK'
  <2>1. CASE Ends(t)
    BY <2>1, EndsTypes DEF BridgeInv, BridgeTypeOK
  <2>2. CASE EntersRoom(t)
    <3>1. saw' \in [Tasks -> Users \cup {None}] /\ sess' \in [Tasks -> Sessions \cup {NoSession}]
      BY <1>0, <2>2, TaskParts DEF BridgeInv, BridgeTypeOK, NoSession
    <3>2. pc' \in [Tasks -> Phases]
      BY <1>0, <2>2, TaskParts DEF BridgeInv, BridgeTypeOK, Phases
    <3> QED BY <2>2, <3>1, <3>2 DEF BridgeInv, BridgeTypeOK
  <2> QED BY <2>1, <2>2
<1>2. SeenInv'
  BY WindowAssumption DEF BridgeInv, BridgeTypeOK, SeenInv, Goes, Reaches, Ends
<1>3. TaskInv'
  BY <1>0, TaskParts DEF BridgeInv, BridgeTypeOK, TaskInv, Ends
<1>4. RoomSessionOwned' /\ RoomInv'
  BY TaskParts DEF BridgeInv, BridgeTypeOK, TaskInv, RoomSessionOwned, RoomInv, NoSession, Goes, Reaches, Ends
<1>5. CollectorHasTurn'
  BY <1>0, TaskParts DEF BridgeInv, BridgeTypeOK, CollectorHasTurn, Ends
<1> QED BY <1>1, <1>2, <1>3, <1>4, <1>5 DEF BridgeInv

LEMMA SubscribesRoomKeeps ==
    ASSUME BridgeInv, NEW t \in Tasks, SubscribesRoom(t), mishaps' \in 0 .. MaxMishaps
    PROVE  BridgeInv'
<1> USE DeliveriesAssumption, BridgeAssumption
    DEF SubscribesRoom, Readable, Rep, Msg, Who, Room, Kind,
        inputVars, roomVars, sessionVars, taskVars
<1>1. BridgeTypeOK'
  BY TaskParts, EndsTypes, GoesTypes DEF BridgeInv, BridgeTypeOK, Phases, Rest, NoSession
<1>2. SeenInv'
  BY WindowAssumption DEF BridgeInv, BridgeTypeOK, SeenInv, Goes, Reaches, Ends
<1>3. TaskInv'
  BY TaskParts DEF BridgeInv, BridgeTypeOK, TaskInv, NoSession, Goes, Reaches, Ends
<1>4. RoomSessionOwned' /\ RoomInv'
  BY TaskParts DEF BridgeInv, BridgeTypeOK, TaskInv, RoomSessionOwned, RoomInv, NoSession, Goes, Reaches, Ends
<1>5. CollectorHasTurn'
  BY TaskParts DEF BridgeInv, BridgeTypeOK, CollectorHasTurn, Rest, Goes, Reaches, Ends
<1> QED BY <1>1, <1>2, <1>3, <1>4, <1>5 DEF BridgeInv

LEMMA SendsTextKeeps ==
    ASSUME BridgeInv, NEW t \in Tasks, SendsText(t), mishaps' \in 0 .. MaxMishaps
    PROVE  BridgeInv'
<1> USE DeliveriesAssumption, BridgeAssumption
    DEF SendsText, Sendable, Readable, Idle, Begins, Rep, Msg, Who, Room, Kind,
        inputVars, roomVars, sessionVars, taskVars
<1>1. BridgeTypeOK'
  BY TaskParts, EndsTypes, GoesTypes DEF BridgeInv, BridgeTypeOK, Phases, Rest, NoSession
<1>2. SeenInv'
  BY WindowAssumption DEF BridgeInv, BridgeTypeOK, SeenInv, Goes, Reaches, Ends
<1>3. TaskInv'
  BY TaskParts DEF BridgeInv, BridgeTypeOK, TaskInv, NoSession, Goes, Reaches, Ends
<1>4. RoomSessionOwned' /\ RoomInv'
  BY TaskParts DEF BridgeInv, BridgeTypeOK, TaskInv, RoomSessionOwned, RoomInv, NoSession, Goes, Reaches, Ends
<1>5. CollectorHasTurn'
  <2>1. CASE Begins(t) /\ Sendable(t) /\ Idle(Rep(t), sess[t])
    <3> SUFFICES ASSUME NEW u \in Tasks, pc'[u] = "collect", heard'[u] = "nothing", Msg(u) \notin mute'
                 PROVE  turn'[<<Rep(u), sess'[u]>>] = Msg(u)
      BY DEF CollectorHasTurn
    <3>1. CASE u = t
      BY <2>1, <3>1, TaskParts DEF BridgeInv, BridgeTypeOK, Goes, Reaches, NoSession
    <3>2. CASE u # t
      <4>1. turn[<<u[1], sess[u]>>] = u[2] /\ sess'[u] = sess[u]
        BY <2>1, <3>2 DEF BridgeInv, BridgeTypeOK, CollectorHasTurn, Goes, Reaches
      <4>2. u[2] # None
        BY TaskParts DEF Messages
      <4>3. <<u[1], sess[u]>> # <<t[1], sess[t]>>
        BY <2>1, <4>1, <4>2
      <4> QED BY <2>1, <4>1, <4>3, TaskParts DEF BridgeInv, BridgeTypeOK
    <3> QED BY <3>1, <3>2
  <2>2. CASE turn' = turn /\ pc'[t] # "collect"
    BY <2>2, TaskParts DEF BridgeInv, BridgeTypeOK, CollectorHasTurn, Goes, Reaches, Ends
  <2> QED BY <2>1, <2>2, TaskParts DEF BridgeInv, BridgeTypeOK, Goes, Reaches, Ends
<1> QED BY <1>1, <1>2, <1>3, <1>4, <1>5 DEF BridgeInv

LEMMA RestoresKeeps ==
    ASSUME BridgeInv, NEW t \in Tasks, Restores(t), mishaps' \in 0 .. MaxMishaps
    PROVE  BridgeInv'
<1> USE DeliveriesAssumption, BridgeAssumption
    DEF Restores, Readable, Reaches, Rep, Msg, Who, Room, Kind,
        inputVars, roomVars, sessionVars, taskVars
<1>1. BridgeTypeOK'
  <2>1. CASE Readable(Who(t), sess[t])
    <3>1. closed' \in [Replicas -> SUBSET Sessions]
      BY <2>1, TaskParts DEF BridgeInv, BridgeTypeOK
    <3> QED BY <2>1, <3>1, GoesTypes DEF BridgeInv, BridgeTypeOK, Phases
  <2>2. CASE ~Readable(Who(t), sess[t])
    <3>1. pc' \in [Tasks -> Phases] /\ heard' \in [Tasks -> {"nothing", "ended", "closed"}]
      BY <2>2, TaskParts DEF BridgeInv, BridgeTypeOK, Phases
    <3> QED BY <2>2, <3>1 DEF BridgeInv, BridgeTypeOK
  <2> QED BY <2>1, <2>2
<1>2. SeenInv'
  BY WindowAssumption DEF BridgeInv, BridgeTypeOK, SeenInv, Goes, Reaches, Ends
<1>3. TaskInv'
  BY TaskParts DEF BridgeInv, BridgeTypeOK, TaskInv, NoSession, Goes, Reaches, Ends
<1>4. RoomSessionOwned' /\ RoomInv'
  BY TaskParts DEF BridgeInv, BridgeTypeOK, TaskInv, RoomSessionOwned, RoomInv, NoSession, Goes, Reaches, Ends
<1>5. CollectorHasTurn'
  BY TaskParts DEF BridgeInv, BridgeTypeOK, CollectorHasTurn, Rest, Goes, Reaches, Ends
<1> QED BY <1>1, <1>2, <1>3, <1>4, <1>5 DEF BridgeInv

LEMMA SendsAgainKeeps ==
    ASSUME BridgeInv, NEW t \in Tasks, SendsAgain(t), mishaps' \in 0 .. MaxMishaps
    PROVE  BridgeInv'
<1> USE DeliveriesAssumption, BridgeAssumption
    DEF SendsAgain, Sendable, Readable, Idle, Begins, Rep, Msg, Who, Room, Kind,
        inputVars, roomVars, sessionVars, taskVars
<1>1. BridgeTypeOK'
  BY TaskParts, EndsTypes, GoesTypes DEF BridgeInv, BridgeTypeOK, Phases, Rest, NoSession
<1>2. SeenInv'
  BY WindowAssumption DEF BridgeInv, BridgeTypeOK, SeenInv, Goes, Reaches, Ends
<1>3. TaskInv'
  BY TaskParts, SMTT(30) DEF BridgeInv, BridgeTypeOK, TaskInv, NoSession, Goes, Reaches, Ends
<1>4. RoomSessionOwned' /\ RoomInv'
  BY TaskParts DEF BridgeInv, BridgeTypeOK, TaskInv, RoomSessionOwned, RoomInv, NoSession, Goes, Reaches, Ends
<1>5. CollectorHasTurn'
  <2>1. CASE Begins(t) /\ Sendable(t) /\ Idle(Rep(t), sess[t])
    <3> SUFFICES ASSUME NEW u \in Tasks, pc'[u] = "collect", heard'[u] = "nothing", Msg(u) \notin mute'
                 PROVE  turn'[<<Rep(u), sess'[u]>>] = Msg(u)
      BY DEF CollectorHasTurn
    <3>1. CASE u = t
      BY <2>1, <3>1, TaskParts DEF BridgeInv, BridgeTypeOK, Goes, Reaches, NoSession
    <3>2. CASE u # t
      <4>1. turn[<<u[1], sess[u]>>] = u[2] /\ sess'[u] = sess[u]
        BY <2>1, <3>2 DEF BridgeInv, BridgeTypeOK, CollectorHasTurn, Goes, Reaches
      <4>2. u[2] # None
        BY TaskParts DEF Messages
      <4>3. <<u[1], sess[u]>> # <<t[1], sess[t]>>
        BY <2>1, <4>1, <4>2
      <4> QED BY <2>1, <4>1, <4>3, TaskParts DEF BridgeInv, BridgeTypeOK
    <3> QED BY <3>1, <3>2
  <2>2. CASE turn' = turn /\ pc'[t] # "collect"
    BY <2>2, TaskParts, SMTT(30) DEF BridgeInv, BridgeTypeOK, CollectorHasTurn, Goes, Reaches, Ends
  <2> QED BY <2>1, <2>2, TaskParts DEF BridgeInv, BridgeTypeOK, Goes, Reaches, Ends
<1> QED BY <1>1, <1>2, <1>3, <1>4, <1>5 DEF BridgeInv

LEMMA CollectsKeeps ==
    ASSUME BridgeInv, NEW t \in Tasks, Collects(t), mishaps' \in 0 .. MaxMishaps
    PROVE  BridgeInv'
<1> USE DeliveriesAssumption, BridgeAssumption
    DEF Collects, Rep, Msg, Who, Room, Kind,
        inputVars, roomVars, sessionVars, taskVars
<1>1. BridgeTypeOK'
  BY TaskParts, EndsTypes, GoesTypes DEF BridgeInv, BridgeTypeOK, Phases, Rest, NoSession
<1>2. SeenInv'
  BY WindowAssumption DEF BridgeInv, BridgeTypeOK, SeenInv, Goes, Reaches, Ends
<1>3. TaskInv'
  BY TaskParts DEF BridgeInv, BridgeTypeOK, TaskInv, NoSession, Goes, Reaches, Ends
<1>4. RoomSessionOwned' /\ RoomInv'
  BY TaskParts DEF BridgeInv, BridgeTypeOK, TaskInv, RoomSessionOwned, RoomInv, NoSession, Goes, Reaches, Ends
<1>5. CollectorHasTurn'
  BY TaskParts DEF BridgeInv, BridgeTypeOK, CollectorHasTurn, Rest, Goes, Reaches, Ends
<1> QED BY <1>1, <1>2, <1>3, <1>4, <1>5 DEF BridgeInv

LEMMA ClosesOldKeeps ==
    ASSUME BridgeInv, NEW t \in Tasks, ClosesOld(t), mishaps' \in 0 .. MaxMishaps
    PROVE  BridgeInv'
<1> USE DeliveriesAssumption, BridgeAssumption
    DEF ClosesOld, Readable, ClosesIn, Hears, Listens, Reaches, Rep, Msg, Who, Room, Kind,
        inputVars, roomVars, sessionVars, taskVars
<1>1. BridgeTypeOK'
  <2>1. pc' \in [Tasks -> Phases]
    BY TaskParts DEF BridgeInv, BridgeTypeOK, Phases
  <2>2. closed' \in [Replicas -> SUBSET Sessions]
    BY TaskParts DEF BridgeInv, BridgeTypeOK, NoSession
  <2>3. heard' \in [Tasks -> {"nothing", "ended", "closed"}]
    BY TaskParts DEF BridgeInv, BridgeTypeOK
  <2> QED BY <2>1, <2>2, <2>3 DEF BridgeInv, BridgeTypeOK
<1>2. SeenInv'
  BY WindowAssumption DEF BridgeInv, BridgeTypeOK, SeenInv, Goes, Reaches, Ends
<1>3. TaskInv'
  BY TaskParts DEF BridgeInv, BridgeTypeOK, TaskInv, NoSession, Goes, Reaches, Ends
<1>4. RoomSessionOwned' /\ RoomInv'
  BY TaskParts DEF BridgeInv, BridgeTypeOK, TaskInv, RoomSessionOwned, RoomInv, NoSession, Goes, Reaches, Ends
<1>5. CollectorHasTurn'
  BY TaskParts DEF BridgeInv, BridgeTypeOK, CollectorHasTurn, Rest, Goes, Reaches, Ends
<1> QED BY <1>1, <1>2, <1>3, <1>4, <1>5 DEF BridgeInv

LEMMA OpensKeeps ==
    ASSUME BridgeInv, NEW t \in Tasks, Opens(t), mishaps' \in 0 .. MaxMishaps
    PROVE  BridgeInv'
<1> USE DeliveriesAssumption, BridgeAssumption
    DEF Opens, Unopened, Reaches, Rep, Msg, Who, Room, Kind,
        inputVars, roomVars, sessionVars, taskVars
<1>0. Who(t) \in Users
  BY FirstPhase
<1>1. BridgeTypeOK'
  <2>1. CASE Ends(t) /\ UNCHANGED opener
    BY <2>1, EndsTypes DEF BridgeInv, BridgeTypeOK
  <2>2. CASE ~(Ends(t) /\ UNCHANGED opener)
    <3>1. opener' \in [Sessions -> Users \cup {None}]
      BY <1>0, <2>2, TaskParts DEF BridgeInv, BridgeTypeOK
    <3>2. pc' \in [Tasks -> Phases] /\ fresh' \in [Tasks -> BOOLEAN]
      BY <2>2, TaskParts DEF BridgeInv, BridgeTypeOK, Phases
    <3>3. sess' \in [Tasks -> Sessions \cup {NoSession}]
      BY <2>2, TaskParts, SMTT(30) DEF BridgeInv, BridgeTypeOK
    <3> QED BY <2>2, <3>1, <3>2, <3>3 DEF BridgeInv, BridgeTypeOK
  <2> QED BY <2>1, <2>2
<1>2. SeenInv'
  BY WindowAssumption DEF BridgeInv, BridgeTypeOK, SeenInv, Goes, Reaches, Ends
<1>3. TaskInv'
  <2>1. CASE Ends(t) /\ UNCHANGED opener
    BY <2>1, TaskParts DEF BridgeInv, BridgeTypeOK, TaskInv, Ends
  <2>2. CASE ~(Ends(t) /\ UNCHANGED opener)
    <3>1. PICK s \in Sessions :
            /\ opener[s] = None
            /\ opener' = [opener EXCEPT ![s] = Who(t)]
            /\ sess' = [sess EXCEPT ![t] = s]
            /\ pc' = [pc EXCEPT ![t] = "claim"]
            /\ UNCHANGED <<msg, saw>>
      BY <2>2
    <3> SUFFICES ASSUME NEW u \in Tasks
                 PROVE  /\ pc'[u] # "idle" => msg'[Msg(u)] # None
                        /\ saw'[u] = None \/ (msg'[Msg(u)] # None /\ saw'[u] = Who(u)')
                        /\ pc'[u] \in {"claim", "insert", "collect"} => sess'[u] \in Sessions
                        /\ pc'[u] \in {"claim", "insert"} => opener'[sess'[u]] = Who(u)'
      BY DEF TaskInv
    <3>2. CASE u = t
      BY <1>0, <3>1, <3>2, TaskParts DEF BridgeInv, BridgeTypeOK, TaskInv
    <3>3. CASE u # t
      <4>1. pc[u] # "idle" => Who(u) \in Users
        BY FirstPhase
      <4> QED BY <3>1, <3>3, <4>1, TaskParts, BridgeAssumption DEF BridgeInv, BridgeTypeOK, TaskInv
    <3> QED BY <3>2, <3>3
  <2> QED BY <2>1, <2>2
<1>4. RoomSessionOwned' /\ RoomInv'
  <2>1. CASE opener' = opener
    BY <2>1 DEF BridgeInv, RoomSessionOwned, RoomInv, Ends
  <2>2. CASE opener' # opener
    <3>1. PICK s \in Sessions :
            opener[s] = None /\ opener' = [opener EXCEPT ![s] = Who(t)]
      BY <2>2
    <3>2. \A x \in Rooms : roomSession[x] # NoSession => roomSession[x] \in Sessions
      BY DEF BridgeInv, BridgeTypeOK
    <3> QED BY <3>1, <3>2 DEF BridgeInv, BridgeTypeOK, RoomSessionOwned, RoomInv
  <2> QED BY <2>1, <2>2
<1>5. CollectorHasTurn'
  BY TaskParts DEF BridgeInv, BridgeTypeOK, CollectorHasTurn, Rest, Goes, Reaches, Ends
<1> QED BY <1>1, <1>2, <1>3, <1>4, <1>5 DEF BridgeInv

LEMMA ClaimsKeeps ==
    ASSUME BridgeInv, NEW t \in Tasks, Claims(t), mishaps' \in 0 .. MaxMishaps
    PROVE  BridgeInv'
<1> USE DeliveriesAssumption, BridgeAssumption
    DEF Claims, Claimed, Rep, Msg, Who, Room, Kind,
        inputVars, roomVars, sessionVars, taskVars
<1>0. Who(t) \in Users /\ Room(t) \in Rooms
  BY FirstPhase
<1>1. BridgeTypeOK'
  <2>1. roomOwner' \in [Rooms -> Users \cup {None}]
    BY <1>0 DEF BridgeInv, BridgeTypeOK
  <2>2. roomSession' \in [Rooms -> Sessions \cup {NoSession}]
    BY DEF BridgeInv, BridgeTypeOK
  <2>3. CASE Ends(t)
    BY <2>1, <2>2, <2>3, EndsTypes DEF BridgeInv, BridgeTypeOK
  <2>4. CASE \E phase \in {"subscribe", "insert"} : Goes(t, phase)
    BY <2>1, <2>2, <2>4, GoesTypes DEF BridgeInv, BridgeTypeOK, Phases
  <2> QED BY <2>3, <2>4
<1>2. SeenInv'
  BY WindowAssumption DEF BridgeInv, BridgeTypeOK, SeenInv, Goes, Reaches, Ends
<1>3. TaskInv'
  BY TaskParts DEF BridgeInv, BridgeTypeOK, TaskInv, NoSession, Goes, Reaches, Ends
<1>4. RoomSessionOwned' /\ RoomInv'
  <2>1. sess[t] \in Sessions /\ opener[sess[t]] = Who(t) /\ opener' = opener /\ Who(t) # None
    BY <1>0, BridgeAssumption DEF BridgeInv, TaskInv
  <2>2. CASE UNCHANGED <<roomOwner, roomSession>>
    BY <2>1, <2>2 DEF BridgeInv, RoomSessionOwned, RoomInv
  <2>3. CASE /\ roomOwner' = [roomOwner EXCEPT ![Room(t)] = Who(t)]
             /\ roomSession' = [roomSession EXCEPT ![Room(t)] = sess[t]]
    BY <1>0, <2>1, <2>3 DEF BridgeInv, BridgeTypeOK, RoomSessionOwned, RoomInv
  <2> QED BY <2>2, <2>3
<1>5. CollectorHasTurn'
  BY TaskParts DEF BridgeInv, BridgeTypeOK, CollectorHasTurn, Rest, Goes, Reaches, Ends
<1> QED BY <1>1, <1>2, <1>3, <1>4, <1>5 DEF BridgeInv

LEMMA InsertsRoomKeeps ==
    ASSUME BridgeInv, NEW t \in Tasks, InsertsRoom(t), mishaps' \in 0 .. MaxMishaps
    PROVE  BridgeInv'
<1> USE DeliveriesAssumption, BridgeAssumption
    DEF InsertsRoom, Claimed, Rep, Msg, Who, Room, Kind,
        inputVars, roomVars, sessionVars, taskVars
<1>0. Who(t) \in Users /\ Room(t) \in Rooms
  BY FirstPhase
<1>1. BridgeTypeOK'
  <2>1. roomOwner' \in [Rooms -> Users \cup {None}]
    BY <1>0 DEF BridgeInv, BridgeTypeOK
  <2>2. roomSession' \in [Rooms -> Sessions \cup {NoSession}]
    BY DEF BridgeInv, BridgeTypeOK
  <2>3. CASE Ends(t)
    BY <2>1, <2>2, <2>3, EndsTypes DEF BridgeInv, BridgeTypeOK
  <2>4. CASE \E phase \in {"subscribe", "insert"} : Goes(t, phase)
    BY <2>1, <2>2, <2>4, GoesTypes DEF BridgeInv, BridgeTypeOK, Phases
  <2> QED BY <2>3, <2>4
<1>2. SeenInv'
  BY WindowAssumption DEF BridgeInv, BridgeTypeOK, SeenInv, Goes, Reaches, Ends
<1>3. TaskInv'
  BY TaskParts DEF BridgeInv, BridgeTypeOK, TaskInv, NoSession, Goes, Reaches, Ends
<1>4. RoomSessionOwned' /\ RoomInv'
  <2>1. sess[t] \in Sessions /\ opener[sess[t]] = Who(t) /\ opener' = opener /\ Who(t) # None
    BY <1>0, BridgeAssumption DEF BridgeInv, TaskInv
  <2>2. CASE UNCHANGED <<roomOwner, roomSession>>
    BY <2>1, <2>2 DEF BridgeInv, RoomSessionOwned, RoomInv
  <2>3. CASE /\ roomOwner' = [roomOwner EXCEPT ![Room(t)] = Who(t)]
             /\ roomSession' = [roomSession EXCEPT ![Room(t)] = sess[t]]
    BY <1>0, <2>1, <2>3 DEF BridgeInv, BridgeTypeOK, RoomSessionOwned, RoomInv
  <2> QED BY <2>2, <2>3
<1>5. CollectorHasTurn'
  BY TaskParts DEF BridgeInv, BridgeTypeOK, CollectorHasTurn, Rest, Goes, Reaches, Ends
<1> QED BY <1>1, <1>2, <1>3, <1>4, <1>5 DEF BridgeInv

LEMMA ResumesRoomKeeps ==
    ASSUME BridgeInv, NEW t \in Tasks, ResumesRoom(t), mishaps' \in 0 .. MaxMishaps
    PROVE  BridgeInv'
<1> USE DeliveriesAssumption, BridgeAssumption
    DEF ResumesRoom, Readable, Rep, Msg, Who, Room, Kind,
        inputVars, roomVars, sessionVars, taskVars
<1>1. BridgeTypeOK'
  <2>1. closed' \in [Replicas -> SUBSET Sessions]
    BY TaskParts DEF BridgeInv, BridgeTypeOK
  <2>2. CASE Ends(t)
    BY <2>1, <2>2, EndsTypes DEF BridgeInv, BridgeTypeOK
  <2>3. CASE Goes(t, "claim")
    BY <2>1, <2>3, GoesTypes DEF BridgeInv, BridgeTypeOK, Phases
  <2> QED BY <2>2, <2>3
<1>2. SeenInv'
  BY WindowAssumption DEF BridgeInv, BridgeTypeOK, SeenInv, Goes, Reaches, Ends
<1>3. TaskInv'
  BY TaskParts, SMTT(30) DEF BridgeInv, BridgeTypeOK, TaskInv, NoSession, Goes, Reaches, Ends
<1>4. RoomSessionOwned' /\ RoomInv'
  BY TaskParts DEF BridgeInv, BridgeTypeOK, TaskInv, RoomSessionOwned, RoomInv, NoSession, Goes, Reaches, Ends
<1>5. CollectorHasTurn'
  BY TaskParts DEF BridgeInv, BridgeTypeOK, CollectorHasTurn, Rest, Goes, Reaches, Ends
<1> QED BY <1>1, <1>2, <1>3, <1>4, <1>5 DEF BridgeInv

LEMMA GivesUpKeeps ==
    ASSUME BridgeInv, NEW t \in Tasks, GivesUp(t), mishaps' \in 0 .. MaxMishaps
    PROVE  BridgeInv'
<1> USE DeliveriesAssumption, BridgeAssumption
    DEF GivesUp, Rep, Msg, Who, Room, Kind,
        inputVars, roomVars, sessionVars, taskVars
<1>1. BridgeTypeOK'
  BY TaskParts, EndsTypes, GoesTypes DEF BridgeInv, BridgeTypeOK, Phases, Rest, NoSession
<1>2. SeenInv'
  BY WindowAssumption DEF BridgeInv, BridgeTypeOK, SeenInv, Goes, Reaches, Ends
<1>3. TaskInv'
  BY TaskParts DEF BridgeInv, BridgeTypeOK, TaskInv, NoSession, Goes, Reaches, Ends
<1>4. RoomSessionOwned' /\ RoomInv'
  BY TaskParts DEF BridgeInv, BridgeTypeOK, TaskInv, RoomSessionOwned, RoomInv, NoSession, Goes, Reaches, Ends
<1>5. CollectorHasTurn'
  BY TaskParts DEF BridgeInv, BridgeTypeOK, CollectorHasTurn, Rest, Goes, Reaches, Ends
<1> QED BY <1>1, <1>2, <1>3, <1>4, <1>5 DEF BridgeInv

LEMMA ReceivesKeeps ==
    ASSUME BridgeInv, NEW t \in Tasks, Receives(t), mishaps' \in 0 .. MaxMishaps
    PROVE  BridgeInv'
<1> USE DeliveriesAssumption, BridgeAssumption
    DEF Receives, Kept, Admits, Awaits, Rep, Msg, Who, Room, Kind,
        inputVars, roomVars, sessionVars, taskVars
<1>1. BridgeTypeOK'
  <2>1. seen' \in [Messages -> 0 .. Window + 1 \cup {None}]
    BY TaskParts DEF BridgeInv, BridgeTypeOK
  <2>2. CASE UNCHANGED <<taskVars, acted>>
    BY <2>1, <2>2 DEF BridgeInv, BridgeTypeOK
  <2>3. CASE Goes(t, "room") /\ acted' = [acted EXCEPT ![Msg(t)] = @ + 1]
    <3>1. acted' \in [Messages -> Nat]
      BY <2>3, TaskParts DEF BridgeInv, BridgeTypeOK
    <3> QED BY <2>1, <2>3, <3>1, GoesTypes DEF BridgeInv, BridgeTypeOK, Phases
  <2> QED BY <2>2, <2>3
<1>2. SeenInv'
  BY WindowAssumption DEF BridgeInv, BridgeTypeOK, SeenInv, Goes, Reaches, Ends
<1>3. TaskInv'
  BY TaskParts DEF BridgeInv, BridgeTypeOK, TaskInv, NoSession, Goes, Reaches, Ends
<1>4. RoomSessionOwned' /\ RoomInv'
  BY TaskParts DEF BridgeInv, BridgeTypeOK, TaskInv, RoomSessionOwned, RoomInv, NoSession, Goes, Reaches, Ends
<1>5. CollectorHasTurn'
  BY TaskParts DEF BridgeInv, BridgeTypeOK, CollectorHasTurn, Rest, Goes, Reaches, Ends
<1> QED BY <1>1, <1>2, <1>3, <1>4, <1>5 DEF BridgeInv

LEMMA TurnEndsKeeps ==
    ASSUME BridgeInv, NEW r \in Replicas, NEW s \in Sessions, TurnEnds(r, s), mishaps' \in 0 .. MaxMishaps
    PROVE  BridgeInv'
<1> USE DeliveriesAssumption, BridgeAssumption
    DEF TurnEnds, Hears, Listens, Rep, Msg, Who, Room, Kind,
        inputVars, roomVars, sessionVars, taskVars
<1>1. BridgeTypeOK'
  BY TaskParts DEF BridgeInv, BridgeTypeOK, Phases, Rest, NoSession
<1>2. SeenInv'
  BY WindowAssumption DEF BridgeInv, BridgeTypeOK, SeenInv
<1>3. TaskInv'
  BY TaskParts DEF BridgeInv, BridgeTypeOK, TaskInv, NoSession
<1>4. RoomSessionOwned' /\ RoomInv'
  BY TaskParts DEF BridgeInv, BridgeTypeOK, TaskInv, RoomSessionOwned, RoomInv, NoSession
<1>5. CollectorHasTurn'
  BY TaskParts DEF BridgeInv, BridgeTypeOK, CollectorHasTurn, Rest
<1> QED BY <1>1, <1>2, <1>3, <1>4, <1>5 DEF BridgeInv

LEMMA TurnEndsMuteKeeps ==
    ASSUME BridgeInv, NEW r \in Replicas, NEW s \in Sessions, TurnEndsMute(r, s), mishaps' \in 0 .. MaxMishaps
    PROVE  BridgeInv'
<1> USE DeliveriesAssumption, BridgeAssumption
    DEF TurnEndsMute, Rep, Msg, Who, Room, Kind,
        inputVars, roomVars, sessionVars, taskVars
<1>1. BridgeTypeOK'
  BY TaskParts, ZenonT(30) DEF BridgeInv, BridgeTypeOK, Phases, Rest, NoSession
<1>2. SeenInv'
  BY WindowAssumption DEF BridgeInv, BridgeTypeOK, SeenInv
<1>3. TaskInv'
  BY TaskParts DEF BridgeInv, BridgeTypeOK, TaskInv, NoSession
<1>4. RoomSessionOwned' /\ RoomInv'
  BY TaskParts DEF BridgeInv, BridgeTypeOK, TaskInv, RoomSessionOwned, RoomInv, NoSession
<1>5. CollectorHasTurn'
  <2> SUFFICES ASSUME NEW u \in Tasks, pc'[u] = "collect", heard'[u] = "nothing", Msg(u) \notin mute'
               PROVE  turn'[<<Rep(u), sess'[u]>>] = Msg(u)
    BY DEF CollectorHasTurn
  <2>1. turn[<<u[1], sess[u]>>] = u[2]
    BY DEF BridgeInv, CollectorHasTurn
  <2>2. u[2] \in Messages /\ u[2] # Rest /\ turn[<<r, s>>] # u[2]
    BY TaskParts DEF Messages, Rest
  <2>3. <<u[1], sess[u]>> # <<r, s>>
    BY <2>1, <2>2
  <2> QED BY <2>1, <2>3 DEF BridgeInv, BridgeTypeOK
<1> QED BY <1>1, <1>2, <1>3, <1>4, <1>5 DEF BridgeInv

LEMMA RestSendsKeeps ==
    ASSUME BridgeInv, NEW r \in Replicas, NEW s \in Sessions, RestSends(r, s), mishaps' \in 0 .. MaxMishaps
    PROVE  BridgeInv'
<1> USE DeliveriesAssumption, BridgeAssumption
    DEF RestSends, Idle, Rep, Msg, Who, Room, Kind,
        inputVars, roomVars, sessionVars, taskVars
<1>1. BridgeTypeOK'
  BY TaskParts DEF BridgeInv, BridgeTypeOK, Phases, Rest, NoSession
<1>2. SeenInv'
  BY WindowAssumption DEF BridgeInv, BridgeTypeOK, SeenInv
<1>3. TaskInv'
  BY TaskParts DEF BridgeInv, BridgeTypeOK, TaskInv, NoSession
<1>4. RoomSessionOwned' /\ RoomInv'
  BY TaskParts DEF BridgeInv, BridgeTypeOK, TaskInv, RoomSessionOwned, RoomInv, NoSession
<1>5. CollectorHasTurn'
  <2> SUFFICES ASSUME NEW u \in Tasks, pc'[u] = "collect", heard'[u] = "nothing", Msg(u) \notin mute'
               PROVE  turn'[<<Rep(u), sess'[u]>>] = Msg(u)
    BY DEF CollectorHasTurn
  <2>1. turn[<<u[1], sess[u]>>] = u[2] /\ u[2] # None
    BY TaskParts DEF BridgeInv, CollectorHasTurn, Messages
  <2>2. <<u[1], sess[u]>> # <<r, s>>
    BY <2>1
  <2> QED BY <2>1, <2>2 DEF BridgeInv, BridgeTypeOK
<1> QED BY <1>1, <1>2, <1>3, <1>4, <1>5 DEF BridgeInv

LEMMA RestClosesKeeps ==
    ASSUME BridgeInv, NEW r \in Replicas, NEW s \in Sessions, RestCloses(r, s), mishaps' \in 0 .. MaxMishaps
    PROVE  BridgeInv'
<1> USE DeliveriesAssumption, BridgeAssumption
    DEF RestCloses, ClosesIn, Hears, Listens, Rep, Msg, Who, Room, Kind,
        inputVars, roomVars, sessionVars, taskVars
<1>1. BridgeTypeOK'
  BY TaskParts DEF BridgeInv, BridgeTypeOK, Phases, Rest, NoSession
<1>2. SeenInv'
  BY WindowAssumption DEF BridgeInv, BridgeTypeOK, SeenInv
<1>3. TaskInv'
  BY TaskParts DEF BridgeInv, BridgeTypeOK, TaskInv, NoSession
<1>4. RoomSessionOwned' /\ RoomInv'
  BY TaskParts DEF BridgeInv, BridgeTypeOK, TaskInv, RoomSessionOwned, RoomInv, NoSession
<1>5. CollectorHasTurn'
  BY TaskParts DEF BridgeInv, BridgeTypeOK, CollectorHasTurn, Rest
<1> QED BY <1>1, <1>2, <1>3, <1>4, <1>5 DEF BridgeInv

LEMMA PurgesSessionKeeps ==
    ASSUME BridgeInv, NEW s \in Sessions, PurgesSession(s), mishaps' \in 0 .. MaxMishaps
    PROVE  BridgeInv'
<1> USE DeliveriesAssumption, BridgeAssumption
    DEF PurgesSession, Rep, Msg, Who, Room, Kind,
        inputVars, roomVars, sessionVars, taskVars
<1>1. BridgeTypeOK'
  BY TaskParts DEF BridgeInv, BridgeTypeOK, Phases, Rest, NoSession
<1>2. SeenInv'
  BY WindowAssumption DEF BridgeInv, BridgeTypeOK, SeenInv
<1>3. TaskInv'
  BY TaskParts DEF BridgeInv, BridgeTypeOK, TaskInv, NoSession
<1>4. RoomSessionOwned' /\ RoomInv'
  BY TaskParts DEF BridgeInv, BridgeTypeOK, TaskInv, RoomSessionOwned, RoomInv, NoSession
<1>5. CollectorHasTurn'
  BY TaskParts DEF BridgeInv, BridgeTypeOK, CollectorHasTurn, Rest
<1> QED BY <1>1, <1>2, <1>3, <1>4, <1>5 DEF BridgeInv

LEMMA LoopStopsKeeps ==
    ASSUME BridgeInv, NEW r \in Replicas, LoopStops(r), mishaps' \in 0 .. MaxMishaps
    PROVE  BridgeInv'
<1> USE DeliveriesAssumption, BridgeAssumption
    DEF LoopStops, Awaits, Rep, Msg, Who, Room, Kind,
        inputVars, roomVars, sessionVars, taskVars
<1>1. BridgeTypeOK'
  BY TaskParts DEF BridgeInv, BridgeTypeOK, Phases, Rest, NoSession
<1>2. SeenInv'
  BY WindowAssumption DEF BridgeInv, BridgeTypeOK, SeenInv
<1>3. TaskInv'
  BY TaskParts DEF BridgeInv, BridgeTypeOK, TaskInv, NoSession
<1>4. RoomSessionOwned' /\ RoomInv'
  BY TaskParts DEF BridgeInv, BridgeTypeOK, TaskInv, RoomSessionOwned, RoomInv, NoSession
<1>5. CollectorHasTurn'
  BY TaskParts DEF BridgeInv, BridgeTypeOK, CollectorHasTurn, Rest
<1> QED BY <1>1, <1>2, <1>3, <1>4, <1>5 DEF BridgeInv

LEMMA ProcessDiesKeeps ==
    ASSUME BridgeInv, NEW r \in Replicas, ProcessDies(r), mishaps' \in 0 .. MaxMishaps
    PROVE  BridgeInv'
<1> USE DeliveriesAssumption, BridgeAssumption
    DEF ProcessDies, Rep, Msg, Who, Room, Kind,
        inputVars, roomVars, sessionVars, taskVars
<1>1. BridgeTypeOK'
  BY TaskParts DEF BridgeInv, BridgeTypeOK, Phases, Rest, NoSession
<1>2. SeenInv'
  BY WindowAssumption DEF BridgeInv, BridgeTypeOK, SeenInv
<1>3. TaskInv'
  BY TaskParts DEF BridgeInv, BridgeTypeOK, TaskInv, NoSession
<1>4. RoomSessionOwned' /\ RoomInv'
  BY TaskParts DEF BridgeInv, BridgeTypeOK, TaskInv, RoomSessionOwned, RoomInv, NoSession
<1>5. CollectorHasTurn'
  <2> SUFFICES ASSUME NEW u \in Tasks, pc'[u] = "collect", heard'[u] = "nothing", Msg(u) \notin mute'
               PROVE  turn'[<<Rep(u), sess'[u]>>] = Msg(u)
    BY DEF CollectorHasTurn
  <2>1. u[1] # r /\ pc[u] = "collect" /\ heard[u] = "nothing" /\ sess'[u] = sess[u]
    BY DEF BridgeInv, BridgeTypeOK
  <2>2. turn[<<u[1], sess[u]>>] = u[2] /\ u[2] # None
    BY <2>1, TaskParts DEF BridgeInv, CollectorHasTurn, Messages
  <2>3. u[1] \in Replicas /\ sess[u] \in Sessions
    BY <2>1, TaskParts DEF BridgeInv, TaskInv
  <2> QED BY <2>1, <2>2, <2>3 DEF BridgeInv, BridgeTypeOK
<1> QED BY <1>1, <1>2, <1>3, <1>4, <1>5 DEF BridgeInv

LEMMA BridgeTickKeeps ==
    ASSUME BridgeInv, BridgeTick, mishaps' \in 0 .. MaxMishaps
    PROVE  BridgeInv'
<1> USE DeliveriesAssumption, BridgeAssumption
    DEF BridgeTick, Older, Rep, Msg, Who, Room, Kind,
        inputVars, roomVars, sessionVars, taskVars
<1>1. BridgeTypeOK'
  BY TaskParts DEF BridgeInv, BridgeTypeOK, Phases, Rest, NoSession
<1>2. SeenInv'
  BY WindowAssumption DEF BridgeInv, BridgeTypeOK, SeenInv
<1>3. TaskInv'
  BY TaskParts DEF BridgeInv, BridgeTypeOK, TaskInv, NoSession
<1>4. RoomSessionOwned' /\ RoomInv'
  BY TaskParts DEF BridgeInv, BridgeTypeOK, TaskInv, RoomSessionOwned, RoomInv, NoSession
<1>5. CollectorHasTurn'
  BY TaskParts DEF BridgeInv, BridgeTypeOK, CollectorHasTurn, Rest
<1> QED BY <1>1, <1>2, <1>3, <1>4, <1>5 DEF BridgeInv

-----------------------------------------------------------------------------
(* Every step of the bridge, and of both components *)

LEMMA BridgeStep == BridgeInv /\ BridgeNext => BridgeInv'
<1> SUFFICES ASSUME BridgeInv, BridgeNext PROVE BridgeInv'
  OBVIOUS
<1>1. mishaps \in 0 .. MaxMishaps /\ MaxMishaps \in Nat
  BY BridgeAssumption DEF BridgeInv, BridgeTypeOK
<1>2. CASE Work
  <2> mishaps' \in 0 .. MaxMishaps
    BY <1>1, <1>2 DEF Work
  <2>1. CASE Handles
    BY <2>1, ReadsRoomKeeps, SubscribesRoomKeeps, SendsTextKeeps, RestoresKeeps, SendsAgainKeeps,
       CollectsKeeps, ClosesOldKeeps, OpensKeeps, ClaimsKeeps, InsertsRoomKeeps, ResumesRoomKeeps
    DEF Handles, HandlerStep
  <2>2. CASE Turns
    BY <2>2, TurnEndsKeeps, TurnEndsMuteKeeps DEF Turns
  <2> QED BY <1>2, <2>1, <2>2 DEF Work
<1>3. CASE Mishap
  <2> mishaps' \in 0 .. MaxMishaps
    BY <1>1, <1>3 DEF Mishap
  <2> QED
    BY <1>3, GivesUpKeeps, ProcessDiesKeeps, LoopStopsKeeps, RestSendsKeeps, RestClosesKeeps,
       PurgesSessionKeeps
    DEF Mishap
<1>4. CASE /\ \/ \E m \in Messages : Arrives(m)
              \/ \E t \in Tasks : Receives(t)
              \/ BridgeTick
           /\ UNCHANGED mishaps
  <2> mishaps' \in 0 .. MaxMishaps
    BY <1>1, <1>4
  <2> QED BY <1>4, ArrivesKeeps, ReceivesKeeps, BridgeTickKeeps
<1> QED BY <1>2, <1>3, <1>4 DEF BridgeNext

ChatInv == LeaseInv /\ BridgeInv

LEMMA ChatStart == Init => ChatInv
BY LeaseStart, BridgeStart DEF Init, ChatInv

LEMMA LeaseIdle == LeaseInv /\ UNCHANGED leaseVars => LeaseInv'
BY DEF LeaseInv, LeaseTypeOK, LateInv, leaseVars

LEMMA BridgeIdle == BridgeInv /\ UNCHANGED bridgeVars => BridgeInv'
BY DEF BridgeInv, BridgeTypeOK, SeenInv, TaskInv, RoomInv, RoomSessionOwned, CollectorHasTurn,
       bridgeVars, inputVars, roomVars, sessionVars, taskVars, Who

LEMMA ChatStep == ChatInv /\ [Next]_chatVars => ChatInv'
BY LeaseStep, BridgeStep, LeaseIdle, BridgeIdle DEF ChatInv, Next, SyncRuns, BridgeRuns, chatVars

THEOREM ChatInvariance == Spec => []ChatInv
<1>1. Init => ChatInv
  BY ChatStart
<1>2. ChatInv /\ [Next]_chatVars => ChatInv'
  BY ChatStep
<1> QED BY <1>1, <1>2, PTL DEF Spec

(* The loops and the handlers are well typed (matrix/sync.rs,                *)
(* lymaille/chat/bridge.rs).                                                 *)
THEOREM ChatTypes == Spec => []ChatTypeOK
<1>1. ChatInv => ChatTypeOK
  BY DEF ChatInv, LeaseInv, BridgeInv, ChatTypeOK
<1> QED BY <1>1, ChatInvariance, PTL

(* A replica that lost its lease takes one more sync response at most        *)
(* (sync.rs sync_while_leased, drive).                                       *)
THEOREM LateOnce == Spec => []OneLateResponse
<1>1. ChatInv => OneLateResponse
  BY DEF ChatInv, LeaseInv, LateInv, OneLateResponse
<1> QED BY <1>1, ChatInvariance, PTL

(* A lease passes to another replica only once it has expired                *)
(* (crypto_account.rs try_take_leased_lock).                                 *)
THEOREM LeaseIsKept == Spec => LeaseKept
<1>1. ChatInv /\ [Next]_chatVars => [holder # None /\ left > 0 => holder' = holder]_leaseVars
  BY LeaseOnlyWhenFree DEF ChatInv, Next, SyncRuns, BridgeRuns, chatVars, leaseVars
<1> QED BY <1>1, ChatInvariance, PTL DEF Spec, LeaseKept

(* An event is acted on once, as long as the bridge forgets no event that is *)
(* recent enough to be handled (bridge.rs dispatcher, purge_opportune).      *)
THEOREM EventsHandledOnce == Spec => []HandledOnce
<1>1. ChatInv => HandledOnce
  BY DEF ChatInv, BridgeInv, SeenInv, HandledOnce
<1> QED BY <1>1, ChatInvariance, PTL

(* The session of a room is one its owner opened (bridge.rs ecrire_salle).   *)
THEOREM RoomsKeepTheirOwners == Spec => []RoomSessionOwned
<1>1. ChatInv => RoomSessionOwned
  BY DEF ChatInv, BridgeInv
<1> QED BY <1>1, ChatInvariance, PTL

(* No handler waits for the end of a turn that has gone by unheard (bridge.rs *)
(* texte_libre, collecte).                                                   *)
THEOREM CollectorsAreHeard == Spec => []CollectorHasTurn
<1>1. ChatInv => CollectorHasTurn
  BY DEF ChatInv, BridgeInv
<1> QED BY <1>1, ChatInvariance, PTL

LEMMA TakenUnseen ==
    ASSUME BridgeInv, BridgeNext, NEW x \in Rooms, roomOwner[x] \notin {None, roomOwner'[x]}
    PROVE  \E t \in Tasks :
             pc[t] = "claim" /\ Room(t) = x /\ saw[t] \in {None, roomOwner'[x]}
<1>1. PICK t \in Tasks : Claims(t) \/ InsertsRoom(t)
  BY DEF BridgeNext, Work, Mishap, Handles, HandlerStep, Turns, Arrives, Receives, BridgeTick,
         GivesUp, ProcessDies, LoopStops, RestSends, RestCloses, PurgesSession, TurnEnds, TurnEndsMute,
         ReadsRoom, SubscribesRoom, SendsText, Restores, SendsAgain, Collects, ClosesOld, Opens,
         ResumesRoom, roomVars
<1>2. Who(t) \in Users /\ Room(t) \in Rooms
  BY <1>1, FirstPhase DEF Claims, InsertsRoom
<1>3. CASE Claims(t)
  <2>1. roomOwner' = [roomOwner EXCEPT ![Room(t)] = Who(t)]
    BY <1>3 DEF Claims, roomVars
  <2>2. Room(t) = x /\ Who(t) = roomOwner'[x]
    BY <1>2, <2>1 DEF BridgeInv, BridgeTypeOK
  <2>3. pc[t] = "claim" /\ saw[t] \in {None, Who(t)}
    BY <1>3 DEF Claims, BridgeInv, TaskInv
  <2> QED BY <2>2, <2>3
<1>4. CASE InsertsRoom(t)
  BY <1>2, <1>4 DEF InsertsRoom, roomVars, BridgeInv, BridgeTypeOK
<1> QED BY <1>1, <1>3, <1>4

(* A handler takes a room from its owner only unknowingly: it had read the   *)
(* room as nobody's, or as its author's own (bridge.rs dispatcher,           *)
(* ecrire_salle).                                                            *)
THEOREM RoomsTakenUnknowingly == Spec => TakenUnknowingly
<1> DEFINE Unknowingly ==
    \A x \in Rooms : roomOwner[x] \notin {None, roomOwner'[x]} =>
        \E t \in Tasks :
            pc[t] = "claim" /\ Room(t) = x /\ saw[t] \in {None, roomOwner'[x]}
<1>1. ChatInv /\ [Next]_chatVars => [Unknowingly]_bridgeVars
  <2> SUFFICES ASSUME ChatInv, [Next]_chatVars, bridgeVars' # bridgeVars PROVE Unknowingly
    OBVIOUS
  <2>1. BridgeInv /\ BridgeNext
    BY DEF ChatInv, Next, SyncRuns, BridgeRuns, chatVars
  <2> QED BY <2>1, TakenUnseen
<1> QED BY <1>1, ChatInvariance, PTL DEF Spec, TakenUnknowingly

=============================================================================
