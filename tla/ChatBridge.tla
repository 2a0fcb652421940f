----------------------------- MODULE ChatBridge -----------------------------
(* src/lymaille/chat/bridge.rs: the handler of the messages of a Matrix      *)
(* room, which turns them into calls of the session manager of its process.  *)
(* A handler is a task, one per replica and message.  The session manager is *)
(* the one SessionManager.tla models, seen from a caller: its calls take one *)
(* step.  The fixed texts, the marks that ration them, the rendering of an   *)
(* answer are left out.  `!link`, `!help`, `!activate` and the messages of an *)
(* identity that is not linked touch neither room nor session: "other".      *)
EXTENDS Deliveries

CONSTANTS
    Rooms,
    Users,          \* accounts a Matrix identity is linked to
    MaxSessions,    \* bound: sessions ever opened
    MaxMishaps,     \* bound: events from outside, messages apart
    MaxAge,         \* max_event_age, in ticks
    Window          \* dedupe_window

ASSUME BridgeAssumption ==
    /\ MaxSessions \in Nat
    /\ MaxMishaps \in Nat
    /\ MaxAge \in Nat
    /\ Window \in Nat
    /\ None \notin Users

(* An event forgotten is too old to be handled again: 5 minutes, 7 days.     *)
ASSUME WindowAssumption == MaxAge <= Window

Sessions == 1 .. MaxSessions
Tasks == Replicas \X Messages
Kinds == {"text", "new", "resume"}

VARIABLES
    msg,        \* the room, author and command of each message the server has
    age,        \* ticks since its timestamp, up to MaxAge + 1
    seen,       \* matrix_events: ticks since seen_at, up to Window + 1, or None
    roomOwner, roomSession, \* matrix_rooms
    opener,     \* lymaille_sessions: the subject of each session
    purged,     \* the sessions whose row the retention has removed
    closed,     \* on each replica, the sessions closed and not resumed
    turn,       \* on each replica, the message whose turn a session runs
    pc, saw, sess, fresh, heard,    \* each task: where it is, and its data
    orphans,    \* tasks that go on though their loop has stopped
    mishaps,    \* events from outside so far
    acted,      \* history: how many times a message got past the first checks
    unheard,     \* history: the messages that found their session gone, and said nothing
    mute        \* history: the messages whose turn ended without an event

inputVars == <<msg, age>>
roomVars == <<roomOwner, roomSession>>
sessionVars == <<opener, purged, closed, turn>>
taskVars == <<pc, saw, sess, fresh, heard, orphans>>
bridgeVars == <<inputVars, seen, roomVars, sessionVars, taskVars, mishaps, acted, unheard, mute>>

(* `0` stands for a caller of another surface, and for no session. *)
Rest == 0
NoSession == 0

Phases == {"idle", "room", "subscribe", "send", "restore", "resend",
           "close", "open", "claim", "insert", "resume", "collect"}

Content == [room : Rooms, who : Users, kind : Kinds]

BridgeTypeOK ==
    /\ msg \in [Messages -> Content \cup {None}]
    /\ age \in [Messages -> 0 .. MaxAge + 1]
    /\ seen \in [Messages -> 0 .. Window + 1 \cup {None}]
    /\ roomOwner \in [Rooms -> Users \cup {None}]
    /\ roomSession \in [Rooms -> Sessions \cup {NoSession}]
    /\ opener \in [Sessions -> Users \cup {None}]
    /\ purged \in SUBSET Sessions
    /\ closed \in [Replicas -> SUBSET Sessions]
    /\ turn \in [Replicas \X Sessions -> Messages \cup {Rest, None}]
    /\ pc \in [Tasks -> Phases]
    /\ saw \in [Tasks -> Users \cup {None}]
    /\ sess \in [Tasks -> Sessions \cup {NoSession}]
    /\ fresh \in [Tasks -> BOOLEAN]
    /\ heard \in [Tasks -> {"nothing", "ended", "closed"}]
    /\ orphans \in SUBSET Tasks
    /\ mishaps \in 0 .. MaxMishaps
    /\ acted \in [Messages -> Nat]
    /\ unheard \in SUBSET Messages
    /\ mute \in SUBSET Messages

BridgeInit ==
    /\ msg = [m \in Messages |-> None]
    /\ age = [m \in Messages |-> 0]
    /\ seen = [m \in Messages |-> None]
    /\ roomOwner = [x \in Rooms |-> None]
    /\ roomSession = [x \in Rooms |-> NoSession]
    /\ opener = [s \in Sessions |-> None]
    /\ purged = {}
    /\ closed = [r \in Replicas |-> {}]
    /\ turn = [rs \in Replicas \X Sessions |-> None]
    /\ pc = [t \in Tasks |-> "idle"]
    /\ saw = [t \in Tasks |-> None]
    /\ sess = [t \in Tasks |-> NoSession]
    /\ fresh = [t \in Tasks |-> FALSE]
    /\ heard = [t \in Tasks |-> "nothing"]
    /\ orphans = {}
    /\ mishaps = 0
    /\ acted = [m \in Messages |-> 0]
    /\ unheard = {}
    /\ mute = {}

-----------------------------------------------------------------------------
Rep(t) == t[1]
Msg(t) == t[2]
Who(t) == msg[Msg(t)].who
Room(t) == msg[Msg(t)].room
Kind(t) == msg[Msg(t)].kind

(* SessionManager::readable. *)
Readable(u, s) == s # NoSession /\ opener[s] = u /\ s \notin purged

Reaches(t, phase) == pc' = [pc EXCEPT ![t] = phase]

(* The end of a handler; what it held is gone. *)
Ends(t) ==
    /\ pc' = [pc EXCEPT ![t] = "idle"]
    /\ saw' = [saw EXCEPT ![t] = None]
    /\ sess' = [sess EXCEPT ![t] = NoSession]
    /\ fresh' = [fresh EXCEPT ![t] = FALSE]
    /\ heard' = [heard EXCEPT ![t] = "nothing"]
    /\ orphans' = orphans \ {t}

(* A step that ends nothing and touches no data of the task but its place. *)
Goes(t, phase) ==
    /\ Reaches(t, phase)
    /\ UNCHANGED <<saw, sess, fresh, heard, orphans>>

(* A task holds a subscription to the events of its session. *)
Listens(t) == pc[t] \in {"send", "restore", "resend", "collect"}

(* What the subscribers of a session on a replica hear first decides. *)
Hears(r, s, what) ==
    heard' = [t \in Tasks |->
        IF Rep(t) = r /\ sess[t] = s /\ Listens(t) /\ heard[t] = "nothing"
        THEN what ELSE heard[t]]

-----------------------------------------------------------------------------
(* The server gets a message. *)
Arrives(m) ==
    /\ msg[m] = None
    /\ \A n \in Messages : n < m => msg[n] # None
    /\ \E c \in Content : msg' = [msg EXCEPT ![m] = c]
    /\ UNCHANGED <<age, seen, roomVars, sessionVars, taskVars, acted, unheard, mute>>

(* The handler that the loop of a replica awaits (SyncLease). *)
Awaits(r) == {t \in Tasks : Rep(t) = r /\ pc[t] # "idle" /\ t \notin orphans}

(* Faulty: the window is one tick short. *)
KeptShort == [m \in Messages |-> IF seen[m] # None /\ seen[m] >= Window THEN None ELSE seen[m]]

(* purge_opportune: the events seen longer ago than the window. *)
Kept == [m \in Messages |-> IF seen[m] # None /\ seen[m] > Window THEN None ELSE seen[m]]

(* The age of the event. *)
Admits(t) ==
    LET m == Msg(t)
    IN  IF age[m] > MaxAge
        THEN UNCHANGED <<taskVars, acted>>
        ELSE /\ acted' = [acted EXCEPT ![m] = @ + 1]
             /\ Goes(t, "room")

(* on_message, called by the loop of a replica: marquer_vu, purge_opportune  *)
(* where this process last purged long enough ago, and the age of the event. *)
(* An event may be delivered again at any time, there or elsewhere: already  *)
(* in the table, it ends the handler at once.                                *)
Receives(t) ==
    /\ pc[t] = "idle" /\ Awaits(Rep(t)) = {}
    /\ msg[Msg(t)] # None
    /\ seen[Msg(t)] = None
    /\ \E left \in {seen, Kept} : seen' = [left EXCEPT ![Msg(t)] = 0]
    /\ Admits(t)
    /\ UNCHANGED <<inputVars, roomVars, sessionVars, unheard, mute>>

FirstStep(t) ==
    CASE Kind(t) = "text" -> IF roomSession[Room(t)] = NoSession THEN "open" ELSE "subscribe"
      [] Kind(t) = "new" -> "close"
      [] Kind(t) = "resume" -> "resume"

EntersRoom(t) ==
    /\ saw' = [saw EXCEPT ![t] = roomOwner[Room(t)]]
    /\ sess' = [sess EXCEPT ![t] = roomSession[Room(t)]]
    /\ Reaches(t, FirstStep(t))
    /\ UNCHANGED <<fresh, heard, orphans>>

(* Faulty: the owner of the room is not compared with the author. *)
ReadsAnyRoom(t) ==
    /\ pc[t] = "room"
    /\ EntersRoom(t)
    /\ UNCHANGED <<inputVars, seen, roomVars, sessionVars, acted, unheard, mute>>

(* link::resolve, Identity::resolve and lire_salle: a room of another        *)
(* subject is refused, and what is read decides what follows.                *)
ReadsRoom(t) ==
    /\ pc[t] = "room"
    /\ IF roomOwner[Room(t)] \notin {None, Who(t)}
       THEN Ends(t)
       ELSE EntersRoom(t)
    /\ UNCHANGED <<inputVars, seen, roomVars, sessionVars, acted, unheard, mute>>

-----------------------------------------------------------------------------
(* texte_libre *)

(* SessionManager::subscribe, before the send: NotFound is traced, no more. *)
SubscribesRoom(t) ==
    /\ pc[t] = "subscribe"
    /\ \/ /\ Readable(Who(t), sess[t])
          /\ Goes(t, "send")
          /\ UNCHANGED unheard
       \/ /\ ~Readable(Who(t), sess[t])
          /\ Ends(t)
          /\ unheard' = unheard \cup {Msg(t)}
    /\ UNCHANGED <<inputVars, seen, roomVars, sessionVars, acted, mute>>

Sendable(t) ==
    /\ Readable(Who(t), sess[t])
    /\ sess[t] \notin closed[Rep(t)]

Idle(r, s) == turn[<<r, s>>] = None

(* Faulty: a turn may be over before the subscription to its events. *)
BeginsLate(t) ==
    /\ \E end \in {Msg(t), None} :
        turn' = [turn EXCEPT ![<<Rep(t), sess[t]>>] = end]
    /\ Goes(t, "collect")
    /\ UNCHANGED <<opener, purged, closed>>

Begins(t) ==
    /\ turn' = [turn EXCEPT ![<<Rep(t), sess[t]>>] = Msg(t)]
    /\ Goes(t, "collect")
    /\ UNCHANGED <<opener, purged, closed>>

(* The first send of a room's session: a session closed or gone is resumed,  *)
(* a turn active is told.  An error of the send on a session just opened is  *)
(* traced, no more.                                                          *)
SendsText(t) ==
    /\ pc[t] = "send"
    /\ \/ Sendable(t) /\ Idle(Rep(t), sess[t]) /\ Begins(t)
       \/ /\ Sendable(t) /\ ~Idle(Rep(t), sess[t])
          /\ Ends(t)
          /\ UNCHANGED sessionVars
       \/ /\ ~Sendable(t)
          /\ IF fresh[t] THEN Ends(t) ELSE Goes(t, "restore")
          /\ UNCHANGED sessionVars
    /\ UNCHANGED <<inputVars, seen, roomVars, acted, unheard, mute>>

(* SessionManager::resume: the mark of `close` is lifted; else a session is  *)
(* opened on demand.                                                         *)
Restores(t) ==
    /\ pc[t] = "restore"
    /\ IF Readable(Who(t), sess[t])
       THEN /\ closed' = [closed EXCEPT ![Rep(t)] = @ \ {sess[t]}]
            /\ Goes(t, "resend")
       ELSE /\ Reaches(t, "open")
            /\ heard' = [heard EXCEPT ![t] = "nothing"]
            /\ UNCHANGED <<closed, saw, sess, fresh, orphans>>
    /\ UNCHANGED <<inputVars, seen, roomVars, opener, purged, turn, acted, unheard, mute>>

(* The second send: its errors are all told. *)
SendsAgain(t) ==
    /\ pc[t] = "resend"
    /\ \/ Sendable(t) /\ Idle(Rep(t), sess[t]) /\ Begins(t)
       \/ /\ ~(Sendable(t) /\ Idle(Rep(t), sess[t]))
          /\ Ends(t)
          /\ UNCHANGED sessionVars
    /\ UNCHANGED <<inputVars, seen, roomVars, acted, unheard, mute>>

(* collecte: the end of a turn of the session, whoever asked for it, is the  *)
(* answer; a closed subscription ends the handler without one.               *)
Collects(t) ==
    /\ pc[t] = "collect"
    /\ heard[t] # "nothing"
    /\ Ends(t)
    /\ UNCHANGED <<inputVars, seen, roomVars, sessionVars, acted, unheard, mute>>

-----------------------------------------------------------------------------
(* nouvelle_session, ouvrir_a_la_demande, reprendre, annuler *)

(* SessionManager::close: silent on a session that is not readable; the      *)
(* subscriptions of this process are closed.                                 *)
ClosesIn(r, s) ==
    /\ closed' = [closed EXCEPT ![r] = @ \cup {s}]
    /\ Hears(r, s, "closed")

(* `!new` closes the session of the room first.  Without a context, the room *)
(* is told so and keeps the session just closed.                             *)
ClosesOld(t) ==
    /\ pc[t] = "close"
    /\ IF Readable(Who(t), sess[t])
       THEN ClosesIn(Rep(t), sess[t])
       ELSE UNCHANGED <<closed, heard>>
    /\ Reaches(t, "open")
    /\ UNCHANGED <<saw, sess, fresh, orphans>>
    /\ UNCHANGED <<inputVars, seen, roomVars, opener, purged, turn, acted, unheard, mute>>

Unopened == {s \in Sessions : opener[s] = None}

(* The context is the one of the command, of the session closed or of the    *)
(* resolver; none, or an error of SessionManager::open, is told.             *)
Opens(t) ==
    /\ pc[t] = "open"
    /\ \/ /\ Ends(t)
          /\ UNCHANGED opener
       \/ \E s \in Unopened :
            /\ \A z \in Unopened : s <= z
            /\ opener' = [opener EXCEPT ![s] = Who(t)]
            /\ sess' = [sess EXCEPT ![t] = s]
            /\ fresh' = [fresh EXCEPT ![t] = TRUE]
            /\ Reaches(t, "claim")
            /\ UNCHANGED <<saw, heard, orphans>>
    /\ UNCHANGED <<inputVars, seen, roomVars, purged, closed, turn, acted, unheard, mute>>

Claimed(t) ==
    IF Kind(t) = "text" THEN Goes(t, "subscribe") ELSE Ends(t)

(* Faulty: the UPDATE leaves the owner of the room as it is. *)
ClaimsSession(t) ==
    /\ pc[t] = "claim"
    /\ IF roomOwner[Room(t)] # None
       THEN /\ roomSession' = [roomSession EXCEPT ![Room(t)] = sess[t]]
            /\ Claimed(t)
       ELSE Goes(t, "insert") /\ UNCHANGED roomSession
    /\ UNCHANGED <<inputVars, seen, roomOwner, sessionVars, acted, unheard, mute>>

(* ecrire_salle, its UPDATE: whoever owns the row by now. *)
Claims(t) ==
    /\ pc[t] = "claim"
    /\ IF roomOwner[Room(t)] # None
       THEN /\ roomOwner' = [roomOwner EXCEPT ![Room(t)] = Who(t)]
            /\ roomSession' = [roomSession EXCEPT ![Room(t)] = sess[t]]
            /\ Claimed(t)
       ELSE Goes(t, "insert") /\ UNCHANGED roomVars
    /\ UNCHANGED <<inputVars, seen, sessionVars, acted, unheard, mute>>

(* Its INSERT, when the UPDATE found no row; the primary key refuses the     *)
(* second of two.                                                            *)
InsertsRoom(t) ==
    /\ pc[t] = "insert"
    /\ IF roomOwner[Room(t)] = None
       THEN /\ roomOwner' = [roomOwner EXCEPT ![Room(t)] = Who(t)]
            /\ roomSession' = [roomSession EXCEPT ![Room(t)] = sess[t]]
            /\ Claimed(t)
       ELSE Ends(t) /\ UNCHANGED roomVars
    /\ UNCHANGED <<inputVars, seen, sessionVars, acted, unheard, mute>>

(* `!resume`; an error is told. *)
ResumesRoom(t) ==
    /\ pc[t] = "resume"
    /\ \/ /\ Readable(Who(t), sess[t])
          /\ closed' = [closed EXCEPT ![Rep(t)] = @ \ {sess[t]}]
          /\ Goes(t, "claim")
       \/ Ends(t) /\ UNCHANGED closed
    /\ UNCHANGED <<inputVars, seen, roomVars, opener, purged, turn, acted, unheard, mute>>

(* The loop of a replica stops or starts again; its handler goes on. *)
LoopStops(r) ==
    /\ Awaits(r) # {}
    /\ orphans' = orphans \cup Awaits(r)
    /\ UNCHANGED <<inputVars, seen, roomVars, sessionVars>>
    /\ UNCHANGED <<pc, saw, sess, fresh, heard, acted, unheard, mute>>

(* A store, or the sending of an answer, fails. *)
GivesUp(t) ==
    /\ pc[t] # "idle"
    /\ Ends(t)
    /\ UNCHANGED <<inputVars, seen, roomVars, sessionVars, acted, unheard, mute>>
-----------------------------------------------------------------------------
(* The turns, the other surfaces, the clock *)

(* A turn ends and its TurnEnded reaches the subscribers. *)
TurnEnds(r, s) ==
    /\ turn[<<r, s>>] # None
    /\ turn' = [turn EXCEPT ![<<r, s>>] = None]
    /\ Hears(r, s, "ended")
    /\ UNCHANGED <<inputVars, seen, roomVars, opener, purged, closed>>
    /\ UNCHANGED <<pc, saw, sess, fresh, orphans, acted, unheard, mute>>

(* A turn whose session cannot be assembled ends and nothing is emitted. *)
TurnEndsMute(r, s) ==
    /\ turn[<<r, s>>] # None
    /\ turn' = [turn EXCEPT ![<<r, s>>] = None]
    /\ mute' = mute \cup ({turn[<<r, s>>]} \ {Rest})
    /\ UNCHANGED <<inputVars, seen, roomVars, opener, purged, closed, taskVars, acted, unheard>>

(* The REST surface of a replica, on a session of the same user. *)
RestSends(r, s) ==
    /\ opener[s] # None /\ s \notin purged \cup closed[r]
    /\ Idle(r, s)
    /\ turn' = [turn EXCEPT ![<<r, s>>] = Rest]
    /\ UNCHANGED <<inputVars, seen, roomVars, opener, purged, closed, taskVars, acted, unheard, mute>>

RestCloses(r, s) ==
    /\ opener[s] # None /\ s \notin purged \cup closed[r]
    /\ ClosesIn(r, s)
    /\ UNCHANGED <<inputVars, seen, roomVars, opener, purged, turn>>
    /\ UNCHANGED <<pc, saw, sess, fresh, orphans, acted, unheard, mute>>

(* store/purge.rs, on a session not written for the retention. *)
PurgesSession(s) ==
    /\ opener[s] # None /\ s \notin purged
    /\ \A r \in Replicas : Idle(r, s)
    /\ purged' = purged \cup {s}
    /\ UNCHANGED <<inputVars, seen, roomVars, opener, closed, turn, taskVars, acted, unheard, mute>>

Older(n, bound) == IF n < bound THEN n + 1 ELSE n

BridgeTick ==
    /\ age' = [m \in Messages |->
                IF msg[m] # None THEN Older(age[m], MaxAge + 1) ELSE age[m]]
    /\ seen' = [m \in Messages |->
                IF seen[m] # None THEN Older(seen[m], Window + 1) ELSE None]
    /\ UNCHANGED <<msg, roomVars, sessionVars, taskVars, acted, unheard, mute>>

(* A replica dies with its handlers, its turns and its marks. *)
ProcessDies(r) ==
    /\ closed' = [closed EXCEPT ![r] = {}]
    /\ turn' = [rs \in Replicas \X Sessions |-> IF rs[1] = r THEN None ELSE turn[rs]]
    /\ pc' = [t \in Tasks |-> IF Rep(t) = r THEN "idle" ELSE pc[t]]
    /\ saw' = [t \in Tasks |-> IF Rep(t) = r THEN None ELSE saw[t]]
    /\ sess' = [t \in Tasks |-> IF Rep(t) = r THEN NoSession ELSE sess[t]]
    /\ fresh' = [t \in Tasks |-> IF Rep(t) = r THEN FALSE ELSE fresh[t]]
    /\ heard' = [t \in Tasks |-> IF Rep(t) = r THEN "nothing" ELSE heard[t]]
    /\ orphans' = {t \in orphans : Rep(t) # r}
    /\ UNCHANGED <<inputVars, seen, roomVars, opener, purged, acted, unheard, mute>>

HandlerStep(t) ==
    \/ ReadsRoom(t)
    \/ SubscribesRoom(t) \/ SendsText(t) \/ Restores(t) \/ SendsAgain(t) \/ Collects(t)
    \/ ClosesOld(t) \/ Opens(t) \/ Claims(t) \/ InsertsRoom(t)
    \/ ResumesRoom(t)

Handles == \E t \in Tasks : HandlerStep(t)

Turns == \E r \in Replicas, s \in Sessions : TurnEnds(r, s) \/ TurnEndsMute(r, s)

Work == (Handles \/ Turns) /\ UNCHANGED mishaps

Mishap ==
    /\ mishaps < MaxMishaps
    /\ mishaps' = mishaps + 1
    /\ \/ \E t \in Tasks : GivesUp(t)
       \/ \E r \in Replicas : ProcessDies(r) \/ LoopStops(r)
       \/ \E r \in Replicas, s \in Sessions : RestSends(r, s) \/ RestCloses(r, s)
       \/ \E s \in Sessions : PurgesSession(s)

BridgeNext ==
    \/ Work
    \/ Mishap
    \/ /\ \/ \E m \in Messages : Arrives(m)
          \/ \E t \in Tasks : Receives(t)
          \/ BridgeTick
       /\ UNCHANGED mishaps

-----------------------------------------------------------------------------
(* An event is acted on once, however often and wherever it is delivered     *)
(* (bridge.rs dispatcher, marquer_vu, purge_opportune).                      *)
HandledOnce == \A m \in Messages : acted[m] <= 1

(* The session of a room is one its owner opened, whichever handlers wrote   *)
(* the row (bridge.rs ecrire_salle; bridge.sdd, "pas de session partagée").  *)
RoomSessionOwned ==
    \A x \in Rooms : roomSession[x] # NoSession => opener[roomSession[x]] = roomOwner[x]

(* A handler takes a room from its owner only unknowingly: it had read the   *)
(* room as nobody's, or as its author's own (bridge.rs dispatcher,           *)
(* ecrire_salle).                                                            *)
TakenUnknowingly ==
    [][\A x \in Rooms : roomOwner[x] \notin {None, roomOwner'[x]} =>
          \E t \in Tasks :
            pc[t] = "claim" /\ Room(t) = x /\ saw[t] \in {None, roomOwner'[x]}]_bridgeVars

(* A text sent to a session that is gone opens another on demand (bridge.rs  *)
(* texte_libre, "si la reprise échoue, réouverture à la demande").           *)
PurgedRoomReopens ==
    unheard = {}

(* A handler that waits for the end of a turn waits for one that runs, or    *)
(* that ended without an event: the end of its turn has not gone by unheard   *)
(* (bridge.rs texte_libre, ouvrir_a_la_demande, "Abonnement au hub avant      *)
(* l'envoi"; collecte).                                                      *)
CollectorHasTurn ==
    \A t \in Tasks :
        pc[t] = "collect" /\ heard[t] = "nothing" /\ Msg(t) \notin mute
            => turn[<<Rep(t), sess[t]>>] = Msg(t)
=============================================================================
