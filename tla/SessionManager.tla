--------------------------- MODULE SessionManager ---------------------------
(* src/lymaille/interactive/manager.rs: the life of interactive sessions in  *)
(* one process.  Every element of Calls is a handler invocation; after       *)
(* `send` spawns its turn the same element goes on as the detached turn.     *)
(* A step ends wherever the code awaits or releases a lock, so that calls    *)
(* interleave exactly where they can in the program.                         *)
(*                                                                           *)
(* Time is reduced to what the manager asks of it: `idle` holds the entries  *)
(* not used for `idle_ttl`.  Resolving the principal, the context type and   *)
(* the agent, and assembling the engine, only read: they appear as the       *)
(* refusals they can cause.                                                  *)
EXTENDS HubOps

CONSTANTS
    Calls,          \* handler invocations, and the turns they spawn
    Subjects,       \* users
    Admins,         \* those exempt from the cap
    Contexts,       \* contexts a session can be opened on
    Entries,        \* identities of `Arc<Entry>`
    MaxOpen,        \* max_open_per_user
    Idling,         \* bound: sessions that may stay unused for idle_ttl
    Expiring        \* bound: sessions whose row may outlive the retention period

ASSUME AdminsAssumption == Admins \subseteq Subjects
ASSUME MaxOpenAssumption == MaxOpen \in Nat
ASSUME BoundsAssumption == Idling \subseteq Sessions /\ Expiring \subseteq Sessions
ASSUME NoneAssumption ==
    None \notin Calls \cup Subjects \cup Contexts \cup Entries \cup Sessions

VARIABLES
    owner,          \* database: subject of a session's row, None without a row
    context,        \* database: the row's `context` column
    minted,         \* identifiers drawn so far (uuid: never drawn twice)
    byId,           \* Table::by_id : session -> entry
    holder,         \* the subject kept in by_id beside the entry
    idle,           \* sessions whose entry was not used for idle_ttl
    handle,         \* Entry::cancel : the turn whose handle is published
    requested,      \* entries whose Entry::cancel_requested is set
    closed,         \* Table::closed
    gate,           \* sessions active in the TurnGate
    pc, subject, session, entry,    \* what each call is doing, on what
    cancelled,      \* turns whose CancelHandle was cancelled
    asked           \* history: armed turns whose entry received a signal

rowVars == <<owner, context, minted>>
tableVars == <<byId, holder, idle>>
entryVars == <<handle, requested>>
callVars == <<pc, subject, session, entry>>
vars == <<hubVars, rowVars, tableVars, entryVars, closed, gate, callVars, cancelled, asked>>

OpenPhases == {"open_save", "open_stamp", "open_register", "open_touch"}
SendPhases == {"send_closed", "send_begin", "send_touch", "send_clear", "send_reset"}
TurnPhases == {"turn_assemble", "turn_check", "turn_start", "turn_run", "turn_saved",
               "turn_drop"}
ResumePhases == {"resume_context", "resume_register", "resume_reopen", "resume_touch"}
CancelPhases == {"cancel_look", "cancel_fetch", "cancel_apply"}
ClosePhases == {"close_look", "close_fetch", "close_apply",
                "close_slot", "close_subject", "close_table"}
CallPhases == {"idle"} \cup OpenPhases \cup SendPhases \cup TurnPhases
                \cup ResumePhases \cup CancelPhases \cup ClosePhases

HoldingPhases == {"send_touch", "send_clear", "send_reset"} \cup TurnPhases
ArmedPhases == TurnPhases \ {"turn_drop"}

Holding(c) == pc[c] \in HoldingPhases       \* owns the TurnPermit
Armed(c) == pc[c] \in ArmedPhases           \* its entry is reset, its turn is on

Init ==
    /\ HubInit
    /\ owner = [s \in Sessions |-> None]
    /\ context = [s \in Sessions |-> None]
    /\ minted = {}
    /\ byId = [s \in Sessions |-> None]
    /\ holder = [s \in Sessions |-> None]
    /\ idle = {}
    /\ handle = [e \in Entries |-> None]
    /\ requested = {}
    /\ closed = {}
    /\ gate = {}
    /\ pc = [c \in Calls |-> "idle"]
    /\ subject = [c \in Calls |-> None]
    /\ session = [c \in Calls |-> None]
    /\ entry = [c \in Calls |-> None]
    /\ cancelled = {}
    /\ asked = {}

-----------------------------------------------------------------------------
(* Control of a call. *)

Goto(c, phase) ==
    /\ pc' = [pc EXCEPT ![c] = phase]
    /\ UNCHANGED <<subject, session, entry>>

Enter(c, phase, u, s) ==
    /\ pc[c] = "idle"
    /\ pc' = [pc EXCEPT ![c] = phase]
    /\ subject' = [subject EXCEPT ![c] = u]
    /\ session' = [session EXCEPT ![c] = s]
    /\ UNCHANGED entry

Return(c) ==
    /\ pc' = [pc EXCEPT ![c] = "idle"]
    /\ subject' = [subject EXCEPT ![c] = None]
    /\ session' = [session EXCEPT ![c] = None]
    /\ entry' = [entry EXCEPT ![c] = None]

(* Readable: the row is read under the caller's subject; another's session   *)
(* and an absent one are the same NotFound.                                  *)
Readable(u, s) == owner[s] = u

(* Table::count *)
OpenCount(u) == Cardinality({s \in Sessions : byId[s] # None /\ holder[s] = u})

(* The `Arc`s of an entry: the table's, and those of the calls. *)
Referenced(e) ==
    \/ \E s \in Sessions : byId[s] = e
    \/ \E c \in Calls : entry[c] = e

(* Entries that have lost their last `Arc` are freed; `flags` are the        *)
(* cancellation requests of the others.                                      *)
FreeEntries(flags) ==
    /\ handle' = [e \in Entries |-> IF Referenced(e)' THEN handle[e] ELSE None]
    /\ requested' = {e \in flags : Referenced(e)'}

(* Faulty: the sweep forgets the exemption of active turns. *)
SweptBlindly == [s \in Sessions |-> IF s \in idle THEN None ELSE byId[s]]

(* Table::sweep: the idle entries go, except that of a session with a turn. *)
Swept == [s \in Sessions |-> IF s \in idle \ gate THEN None ELSE byId[s]]

(* SessionManager::touch: sweep, then the entry of the session, created if   *)
(* needed, is dated; `e` is that entry.                                      *)
Touch(u, s, e) ==
    /\ IF Swept[s] = None THEN ~Referenced(e) ELSE e = Swept[s]
    /\ byId' = [Swept EXCEPT ![s] = e]
    /\ holder' = [t \in Sessions |-> IF t = s THEN u
                                     ELSE IF Swept[t] = None THEN None ELSE holder[t]]
    /\ idle' = (idle \cap gate) \ {s}
    /\ FreeEntries(requested)

-----------------------------------------------------------------------------
(* open *)

(* The cap is checked once everything else is resolved; the toolset versions *)
(* are then awaited and the identifier drawn.                                *)
OpenCheck(c, u, s) ==
    /\ u \in Admins \/ OpenCount(u) < MaxOpen
    /\ s \notin minted
    /\ minted' = minted \cup {s}
    /\ Enter(c, "open_save", u, s)
    /\ UNCHANGED <<hubVars, owner, context, tableVars, entryVars, closed, gate,
                   cancelled, asked>>

(* Faulty: the update of a saved row writes every column. *)
SaveEverything(u, s) ==
    /\ owner' = [owner EXCEPT ![s] = u]
    /\ context' = [context EXCEPT ![s] = None]
    /\ UNCHANGED minted

(* SeaSessionStore::save: the row is inserted, or updated but its context. *)
Save(u, s) ==
    /\ owner' = [owner EXCEPT ![s] = u]
    /\ UNCHANGED <<context, minted>>

OpenSave(c) ==
    /\ pc[c] = "open_save"
    /\ Save(subject[c], session[c])
    /\ Goto(c, "open_stamp")
    /\ UNCHANGED <<hubVars, tableVars, entryVars, closed, gate, cancelled, asked>>

(* stamp_context: UPDATE ... SET context WHERE (subject, id). *)
StampContext(u, s, x) ==
    context' = IF owner[s] = u THEN [context EXCEPT ![s] = x] ELSE context

OpenStamp(c, x) ==
    /\ pc[c] = "open_stamp"
    /\ StampContext(subject[c], session[c], x)
    /\ Goto(c, "open_register")
    /\ UNCHANGED <<hubVars, owner, minted, tableVars, entryVars, closed, gate, cancelled, asked>>

OpenRegister(c) ==
    /\ pc[c] = "open_register"
    /\ Register(session[c])
    /\ Goto(c, "open_touch")
    /\ UNCHANGED <<slots, recvVars, rowVars, tableVars, entryVars, closed, gate, cancelled, asked>>

OpenTouch(c, e) ==
    /\ pc[c] = "open_touch"
    /\ Return(c)
    /\ Touch(subject[c], session[c], e)
    /\ UNCHANGED <<hubVars, rowVars, closed, gate, cancelled, asked>>

-----------------------------------------------------------------------------
(* send, then the detached turn *)

SendRead(c, u, s) ==
    /\ Readable(u, s)
    /\ Enter(c, "send_closed", u, s)
    /\ UNCHANGED <<hubVars, rowVars, tableVars, entryVars, closed, gate, cancelled, asked>>

SendIsClosed(c) ==
    /\ pc[c] = "send_closed"
    /\ IF session[c] \in closed THEN Return(c) ELSE Goto(c, "send_begin")
    /\ UNCHANGED <<hubVars, rowVars, tableVars, entryVars, closed, gate, cancelled, asked>>

(* Faulty: the gate is not consulted. *)
TryBeginAnyway(c) == Goto(c, "send_touch") /\ gate' = gate \cup {session[c]}

(* TurnGate::try_begin: Conflict("turn active"), or the permit. *)
TryBegin(c) ==
    IF session[c] \in gate
    THEN Return(c) /\ UNCHANGED gate
    ELSE Goto(c, "send_touch") /\ gate' = gate \cup {session[c]}

SendBegin(c) ==
    /\ pc[c] = "send_begin"
    /\ TryBegin(c)
    /\ UNCHANGED <<hubVars, rowVars, tableVars, entryVars, closed, cancelled, asked>>

SendTouch(c, e) ==
    /\ pc[c] = "send_touch"
    /\ pc' = [pc EXCEPT ![c] = "send_clear"]
    /\ entry' = [entry EXCEPT ![c] = e]
    /\ Touch(subject[c], session[c], e)
    /\ UNCHANGED <<hubVars, rowVars, closed, gate, subject, session, cancelled, asked>>

(* Faulty: the handle of the previous turn stays published. *)
SendClearForgotten(c) ==
    /\ pc[c] = "send_clear"
    /\ Goto(c, "send_reset")
    /\ UNCHANGED <<hubVars, rowVars, tableVars, entryVars, closed, gate, cancelled, asked>>

(* The handle of the previous turn is withdrawn ... *)
SendClear(c) ==
    /\ pc[c] = "send_clear"
    /\ handle' = [handle EXCEPT ![entry[c]] = None]
    /\ Goto(c, "send_reset")
    /\ UNCHANGED <<hubVars, rowVars, tableVars, requested, closed, gate,
                   cancelled, asked>>

(* ... then its pending request; the turn is spawned with a fresh handle. *)
SendReset(c) ==
    /\ pc[c] = "send_reset"
    /\ requested' = requested \ {entry[c]}
    /\ cancelled' = cancelled \ {c}
    /\ Goto(c, "turn_assemble")
    /\ UNCHANGED <<hubVars, rowVars, tableVars, handle, closed, gate, asked>>

(* Faulty: the permit is kept when the assembly fails. *)
TurnAssemblyLeaks(c) ==
    /\ pc[c] = "turn_assemble"
    /\ Return(c)
    /\ UNCHANGED <<hubVars, rowVars, tableVars, closed, gate, cancelled, asked>>
    /\ FreeEntries(requested)

(* assemble_session fails: the task returns, nothing reaches the hub. *)
TurnAssemblyFails(c) ==
    /\ pc[c] = "turn_assemble"
    /\ Goto(c, "turn_drop")
    /\ UNCHANGED <<hubVars, rowVars, tableVars, entryVars, closed, gate, cancelled, asked>>

(* The handle is published in the entry. *)
TurnPublish(c) ==
    /\ pc[c] = "turn_assemble"
    /\ handle' = [handle EXCEPT ![entry[c]] = c]
    /\ Goto(c, "turn_check")
    /\ UNCHANGED <<hubVars, rowVars, tableVars, requested, closed, gate,
                   cancelled, asked>>

(* Faulty: a request made before the publication is not looked at. *)
TurnCheckForgotten(c) ==
    /\ pc[c] = "turn_check"
    /\ Goto(c, "turn_start")
    /\ UNCHANGED <<hubVars, rowVars, tableVars, entryVars, closed, gate, cancelled, asked>>

(* A request made before the publication is honoured. *)
TurnCheck(c) ==
    /\ pc[c] = "turn_check"
    /\ cancelled' = IF entry[c] \in requested THEN cancelled \cup {c} ELSE cancelled
    /\ Goto(c, "turn_start")
    /\ UNCHANGED <<hubVars, rowVars, tableVars, entryVars, closed, gate, asked>>

(* The sink of run_turn: TurnStarted, TextDelta ..., TurnEnded. *)
EmitOf(c, kind) == Emit(session[c], [kind |-> kind, turn |-> c])

TurnStarts(c) ==
    /\ pc[c] = "turn_start"
    /\ EmitOf(c, "started")
    /\ Goto(c, "turn_run")
    /\ UNCHANGED <<rowVars, tableVars, entryVars, closed, gate, cancelled, asked>>

(* run_turn emits while it runs ... *)
TurnDelta(c) ==
    /\ pc[c] = "turn_run"
    /\ EmitOf(c, "delta")
    /\ UNCHANGED <<rowVars, tableVars, entryVars, closed, gate, callVars, cancelled, asked>>

(* ... saves the state it reached, cancelled or not ... *)
TurnSave(c) ==
    /\ pc[c] = "turn_run"
    /\ Save(subject[c], session[c])
    /\ Goto(c, "turn_saved")
    /\ UNCHANGED <<hubVars, tableVars, entryVars, closed, gate, cancelled, asked>>

(* ... and emits TurnEnded before it returns. *)
TurnEnded(c) ==
    /\ pc[c] = "turn_saved"
    /\ EmitOf(c, "ended")
    /\ Goto(c, "turn_drop")
    /\ UNCHANGED <<rowVars, tableVars, entryVars, closed, gate, cancelled, asked>>

(* run_turn returns an error. *)
TurnFails(c) ==
    /\ pc[c] = "turn_run"
    /\ Goto(c, "turn_drop")
    /\ UNCHANGED <<hubVars, rowVars, tableVars, entryVars, closed, gate, cancelled, asked>>

(* The permit dies with the task. *)
TurnDrop(c) ==
    /\ pc[c] = "turn_drop"
    /\ gate' = gate \ {session[c]}
    /\ Return(c)
    /\ cancelled' = cancelled \ {c}
    /\ asked' = asked \ {c}
    /\ UNCHANGED <<hubVars, rowVars, tableVars, closed>>
    /\ FreeEntries(requested)

-----------------------------------------------------------------------------
(* The signal of cancel and of close: the entry is looked up under the table *)
(* lock, then acted on under its own.  `next` is what follows the signal.    *)

After(c, next) == IF next = "idle" THEN Return(c) ELSE Goto(c, next)

FetchEntry(c, found, next) ==
    LET e == byId[session[c]]
    IN  IF e = None
        THEN After(c, next)
        ELSE /\ pc' = [pc EXCEPT ![c] = found]
             /\ entry' = [entry EXCEPT ![c] = e]
             /\ UNCHANGED <<subject, session>>

(* Faulty: the handle is cancelled whether one is published or not. *)
ApplySignalUnchecked(c, next) ==
    /\ IF next = "idle" THEN Return(c)
       ELSE /\ pc' = [pc EXCEPT ![c] = next]
            /\ entry' = [entry EXCEPT ![c] = None]
            /\ UNCHANGED <<subject, session>>
    /\ UNCHANGED byId
    /\ FreeEntries(requested)
    /\ cancelled' = cancelled \cup {handle[entry[c]]}
    /\ asked' = asked \cup {t \in Calls : Armed(t) /\ entry[t] = entry[c]}

(* The published handle is cancelled, otherwise the request waits for it; *)
(* the `Arc` taken from the table is dropped.                             *)
ApplySignal(c, next) ==
    LET e == entry[c]
        published == handle[e] # None
    IN  /\ IF next = "idle"
           THEN Return(c)
           ELSE /\ pc' = [pc EXCEPT ![c] = next]
                /\ entry' = [entry EXCEPT ![c] = None]
                /\ UNCHANGED <<subject, session>>
        /\ UNCHANGED byId
        /\ FreeEntries(IF published THEN requested ELSE requested \cup {e})
        /\ cancelled' = IF published THEN cancelled \cup {handle[e]} ELSE cancelled
        /\ asked' = asked \cup {t \in Calls : Armed(t) /\ entry[t] = e}

-----------------------------------------------------------------------------
(* cancel: `true` is answered when the session was found active, after the   *)
(* signal.                                                                   *)

CancelRead(c, u, s) ==
    /\ Readable(u, s)
    /\ Enter(c, "cancel_look", u, s)
    /\ UNCHANGED <<hubVars, rowVars, tableVars, entryVars, closed, gate, cancelled, asked>>

CancelLook(c) ==
    /\ pc[c] = "cancel_look"
    /\ After(c, IF session[c] \in gate THEN "cancel_fetch" ELSE "idle")
    /\ UNCHANGED <<hubVars, rowVars, tableVars, entryVars, closed, gate, cancelled, asked>>

CancelFetch(c) ==
    /\ pc[c] = "cancel_fetch"
    /\ FetchEntry(c, "cancel_apply", "idle")
    /\ UNCHANGED <<hubVars, rowVars, tableVars, entryVars, closed, gate, cancelled, asked>>

CancelApply(c) ==
    /\ pc[c] = "cancel_apply"
    /\ ApplySignal(c, "idle")
    /\ UNCHANGED <<hubVars, rowVars, holder, idle, closed, gate>>

-----------------------------------------------------------------------------
(* resume *)

ResumeRead(c, u, s) ==
    /\ Readable(u, s)
    /\ Enter(c, "resume_context", u, s)
    /\ UNCHANGED <<hubVars, rowVars, tableVars, entryVars, closed, gate, cancelled, asked>>

(* The context column is read again: without one the session is NotFound. *)
(* The assembly that follows only reads.                                  *)
ResumeContext(c) ==
    /\ pc[c] = "resume_context"
    /\ IF Readable(subject[c], session[c]) /\ context[session[c]] # None
       THEN Goto(c, "resume_register")
       ELSE Return(c)
    /\ UNCHANGED <<hubVars, rowVars, tableVars, entryVars, closed, gate, cancelled, asked>>

ResumeRegister(c) ==
    /\ pc[c] = "resume_register"
    /\ Register(session[c])
    /\ Goto(c, "resume_reopen")
    /\ UNCHANGED <<slots, recvVars, rowVars, tableVars, entryVars, closed, gate, cancelled, asked>>

ResumeReopen(c) ==
    /\ pc[c] = "resume_reopen"
    /\ closed' = closed \ {session[c]}
    /\ Goto(c, "resume_touch")
    /\ UNCHANGED <<hubVars, rowVars, tableVars, entryVars, gate, cancelled, asked>>

ResumeTouch(c, e) ==
    /\ pc[c] = "resume_touch"
    /\ Return(c)
    /\ Touch(subject[c], session[c], e)
    /\ UNCHANGED <<hubVars, rowVars, closed, gate, cancelled, asked>>

-----------------------------------------------------------------------------
(* close *)

CloseRead(c, u, s) ==
    /\ Readable(u, s)
    /\ Enter(c, "close_look", u, s)
    /\ UNCHANGED <<hubVars, rowVars, tableVars, entryVars, closed, gate, cancelled, asked>>

CloseLook(c) ==
    /\ pc[c] = "close_look"
    /\ Goto(c, IF session[c] \in gate THEN "close_fetch" ELSE "close_slot")
    /\ UNCHANGED <<hubVars, rowVars, tableVars, entryVars, closed, gate, cancelled, asked>>

CloseFetch(c) ==
    /\ pc[c] = "close_fetch"
    /\ FetchEntry(c, "close_apply", "close_slot")
    /\ UNCHANGED <<hubVars, rowVars, tableVars, entryVars, closed, gate, cancelled, asked>>

CloseApply(c) ==
    /\ pc[c] = "close_apply"
    /\ ApplySignal(c, "close_slot")
    /\ UNCHANGED <<hubVars, rowVars, holder, idle, closed, gate>>

CloseHubSlot(c) ==
    /\ pc[c] = "close_slot"
    /\ CloseSlot(session[c])
    /\ Goto(c, "close_subject")
    /\ UNCHANGED <<rowVars, tableVars, entryVars, closed, gate, cancelled, asked>>

CloseHubSubject(c) ==
    /\ pc[c] = "close_subject"
    /\ CloseSubject(session[c])
    /\ Goto(c, "close_table")
    /\ UNCHANGED <<rowVars, tableVars, entryVars, closed, gate, cancelled, asked>>

(* Table::close: the entry is unloaded and the session marked closed. *)
CloseTable(c) ==
    /\ pc[c] = "close_table"
    /\ byId' = [byId EXCEPT ![session[c]] = None]
    /\ holder' = [holder EXCEPT ![session[c]] = None]
    /\ idle' = idle \ {session[c]}
    /\ closed' = closed \cup {session[c]}
    /\ Return(c)
    /\ FreeEntries(requested)
    /\ UNCHANGED <<hubVars, rowVars, gate, cancelled, asked>>
-----------------------------------------------------------------------------
(* subscribe: after the checks, the three sections of EventHub::subscribe. *)

SubscribeRead(r, u, s) ==
    /\ Readable(u, s)
    /\ Grant(r, s)
    /\ UNCHANGED <<rowVars, tableVars, entryVars, closed, gate, callVars, cancelled, asked>>

Subscribe(r) ==
    /\ Subscribing(r)
    /\ UNCHANGED <<rowVars, tableVars, entryVars, closed, gate, callVars, cancelled, asked>>

Receive(r) ==
    /\ Recv(r)
    /\ UNCHANGED <<rowVars, tableVars, entryVars, closed, gate, callVars, cancelled, asked>>

Unsubscribe(r) ==
    /\ DropReceiver(r)
    /\ UNCHANGED <<rowVars, tableVars, entryVars, closed, gate, callVars, cancelled, asked>>

-----------------------------------------------------------------------------
(* What happens to the manager. *)

(* idle_ttl elapses for an entry of the table. *)
GrowIdle(s) ==
    /\ s \in Idling
    /\ byId[s] # None
    /\ idle' = idle \cup {s}
    /\ UNCHANGED <<hubVars, rowVars, byId, holder, entryVars, closed, gate,
                   callVars, cancelled, asked>>

(* A handler is dropped, or its query fails, while it awaits: nothing it did *)
(* is undone.                                                                *)
Abandon(c) ==
    /\ pc[c] \in {"open_save", "open_stamp", "open_register",
                  "resume_context", "resume_register"}
    /\ Return(c)
    /\ UNCHANGED <<hubVars, rowVars, tableVars, entryVars, closed, gate, cancelled, asked>>

(* purge_sessions deletes a row not saved for the retention period (assumed  *)
(* longer than an open takes).                                               *)
PurgeSession(s) ==
    /\ s \in Expiring
    /\ owner[s] # None
    /\ \A c \in Calls : session[c] = s => pc[c] \notin OpenPhases
    /\ owner' = [owner EXCEPT ![s] = None]
    /\ context' = [context EXCEPT ![s] = None]
    /\ UNCHANGED <<hubVars, minted, tableVars, entryVars, closed, gate, callVars,
                   cancelled, asked>>

(* The process stops and starts again: only the rows remain. *)
Restart ==
    /\ subjects' = {} /\ slots' = {} /\ linked' = {} /\ lagged' = {}
    /\ at' = [r \in Receivers |-> "idle"]
    /\ about' = [r \in Receivers |-> None]
    /\ queue' = [r \in Receivers |-> <<>>]
    /\ byId' = [s \in Sessions |-> None]
    /\ holder' = [s \in Sessions |-> None]
    /\ handle' = [e \in Entries |-> None]
    /\ requested' = {} /\ idle' = {}
    /\ closed' = {} /\ gate' = {}
    /\ pc' = [c \in Calls |-> "idle"]
    /\ subject' = [c \in Calls |-> None]
    /\ session' = [c \in Calls |-> None]
    /\ entry' = [c \in Calls |-> None]
    /\ cancelled' = {} /\ asked' = {}
    /\ UNCHANGED rowVars

-----------------------------------------------------------------------------
Requests(c) ==
    \E u \in Subjects :
        \E s \in Sessions :
            \/ OpenCheck(c, u, s) \/ SendRead(c, u, s) \/ CancelRead(c, u, s)
            \/ ResumeRead(c, u, s) \/ CloseRead(c, u, s)

OpenStep(c) ==
    \/ OpenSave(c)
    \/ \E x \in Contexts : OpenStamp(c, x)
    \/ OpenRegister(c)
    \/ \E e \in Entries : OpenTouch(c, e)

SendStep(c) ==
    \/ SendIsClosed(c) \/ SendBegin(c) \/ SendClear(c) \/ SendReset(c)
    \/ \E e \in Entries : SendTouch(c, e)

(* What a turn does whatever run_turn takes its time for. *)
TurnStep(c) ==
    \/ TurnAssemblyFails(c) \/ TurnPublish(c) \/ TurnCheck(c) \/ TurnStarts(c)
    \/ TurnEnded(c) \/ TurnDrop(c)

(* run_turn gets to its end. *)
RunEnds(c) == TurnSave(c) \/ TurnFails(c)

CancelStep(c) == CancelLook(c) \/ CancelFetch(c) \/ CancelApply(c)

ResumeStep(c) ==
    \/ ResumeContext(c) \/ ResumeRegister(c) \/ ResumeReopen(c)
    \/ \E e \in Entries : ResumeTouch(c, e)

CloseStep(c) ==
    \/ CloseLook(c) \/ CloseFetch(c) \/ CloseApply(c)
    \/ CloseHubSlot(c) \/ CloseHubSubject(c) \/ CloseTable(c)

CallStep(c) ==
    OpenStep(c) \/ SendStep(c) \/ TurnStep(c) \/ CancelStep(c) \/ ResumeStep(c) \/ CloseStep(c)

Environment ==
    \/ \E s \in Sessions : GrowIdle(s) \/ PurgeSession(s)
    \/ \E c \in Calls : Abandon(c)
    \/ Restart

Subscriptions ==
    \E r \in Receivers :
        \/ \E u \in Subjects, s \in Sessions : SubscribeRead(r, u, s)
        \/ Subscribe(r) \/ Receive(r) \/ Unsubscribe(r)

Next ==
    \/ \E c \in Calls : Requests(c) \/ CallStep(c) \/ RunEnds(c) \/ TurnDelta(c)
    \/ Subscriptions
    \/ Environment

Spec == Init /\ [][Next]_vars

(* The runtime runs every call and every turn; a turn that was told to stop  *)
(* stops (run_turn polls its handle).  Nothing makes another turn end: it    *)
(* may be waiting for a model or a tool.                                     *)
Fairness ==
    /\ \A c \in Calls : WF_vars(CallStep(c)) /\ WF_vars(c \in cancelled /\ RunEnds(c))
    /\ \A r \in Receivers : WF_vars(Subscribe(r)) /\ WF_vars(Receive(r))

FairSpec == Spec /\ Fairness

-----------------------------------------------------------------------------
RowsOK ==
    /\ owner \in [Sessions -> Subjects \cup {None}]
    /\ context \in [Sessions -> Contexts \cup {None}]
    /\ minted \subseteq Sessions

TableOK ==
    /\ byId \in [Sessions -> Entries \cup {None}]
    /\ holder \in [Sessions -> Subjects \cup {None}]
    /\ idle \subseteq Sessions
    /\ handle \in [Entries -> Calls \cup {None}]
    /\ requested \subseteq Entries
    /\ closed \subseteq Sessions
    /\ gate \subseteq Sessions

(* A call that is not idle knows its user and its session, and holds an      *)
(* entry exactly between the steps that take and drop one.                   *)
WithEntry == {"send_clear", "send_reset", "cancel_apply", "close_apply"} \cup TurnPhases

CallsOK ==
    /\ pc \in [Calls -> CallPhases]
    /\ subject \in [Calls -> Subjects \cup {None}]
    /\ session \in [Calls -> Sessions \cup {None}]
    /\ entry \in [Calls -> Entries \cup {None}]
    /\ \A c \in Calls : pc[c] # "idle" => subject[c] # None /\ session[c] # None
    /\ \A c \in Calls : entry[c] # None <=> pc[c] \in WithEntry

TypeOK ==
    /\ RowsOK
    /\ TableOK
    /\ CallsOK
    /\ cancelled \subseteq Calls
    /\ asked \subseteq Calls

(* The gate and the tasks agree: a session is active exactly when one task   *)
(* holds its permit.  A permit leaked on some path would refuse every later  *)
(* send; one released early would run two turns (manager.rs send; sdd "Au    *)
(* plus un tour actif par session et par processus").                        *)
OneTurn ==
    /\ gate = {session[c] : c \in {d \in Calls : Holding(d)}}
    /\ \A c, d \in Calls :
          Holding(c) /\ Holding(d) /\ session[c] = session[d] => c = d

(* The cancellation handshake: a turn whose entry received a signal after    *)
(* `send` reset it has had its handle cancelled, or will see the request     *)
(* when it publishes its handle, or never runs.  No interleaving of signal   *)
(* with the publication and the check loses it (manager.rs signal, send).    *)
SignalSurvives ==
    \A t \in asked :
        \/ t \in cancelled
        \/ pc[t] \in {"turn_assemble", "turn_check"} /\ entry[t] \in requested
        \/ pc[t] = "turn_drop"

(* An entry serves one session only, whoever keeps its `Arc`, and while a    *)
(* turn runs the handle published there is that turn's: a signal cannot      *)
(* reach the turn of another session nor a turn that is over (manager.rs     *)
(* Table::touch, send).                                                      *)
EntryOfOneTurn ==
    /\ \A c \in Calls, s \in Sessions :
          entry[c] # None /\ byId[s] = entry[c] => session[c] = s
    /\ \A t \in Calls :
          pc[t] \in {"turn_check", "turn_start", "turn_run", "turn_saved"} => handle[entry[t]] = t

(* The idle sweep never unloads the session of an active turn: its entry     *)
(* leaves the table by close only (manager.rs Table::sweep; its doc "jamais  *)
(* un tour en cours").                                                       *)
UnloadedByClose ==
    \A t \in Calls :
       (Armed(t) /\ byId[session[t]] = entry[t] /\ byId'[session[t]] # entry[t])
          => session[t] \in closed' \/ pc'[t] = "idle"

(* No step unloads the entry of an armed turn otherwise (Table::sweep). *)
SweepSparesTurns == [][UnloadedByClose]_vars

(* The context of a persisted session never changes, whatever saves the row  *)
(* afterwards (session.rs save; manager.sdd "immuable après l'ouverture").   *)
ContextKept ==
    \A s \in Sessions : (context[s] # None /\ owner'[s] # None) => context'[s] = context[s]

(* No step changes the context of a row that stays (session.rs save). *)
ContextImmutable == [][ContextKept]_vars

(* A turn that received a signal once its entry was reset comes to an end,   *)
(* whether it was assembling or running (manager.sdd scenario "annuler").    *)
AskedTurnEnds == \A t \in Calls : (t \in asked) ~> (t \notin asked)

(* The events of two turns are never mixed on a subscription: between the    *)
(* start of a turn and the start of the next one, every event is of the      *)
(* first, and nothing follows its end (hub.rs emit with manager.rs send;     *)
(* manager.sdd scenario "ouvrir, envoyer, recevoir", events in order).       *)
TurnsNotMixed ==
    \A r \in Receivers : \A i \in 1 .. (Len(queue[r]) - 1) :
        LET before == queue[r][i]
            after == queue[r][i + 1]
        IN  \/ after.kind = "started"
            \/ after.turn = before.turn /\ before.kind # "ended"

-----------------------------------------------------------------------------
(* What the documentation says and the code does not always do. *)

(* Documented: when `cancel` answers true, the active turn ends `Cancelled`  *)
(* (manager.sdd Must `cancel`, scenario "annuler"): it has been told, or     *)
(* will see the request, or is already over.                                 *)
CancelTold ==
    [][\A c \in Calls :
          ((CancelFetch(c) \/ CancelApply(c)) /\ pc'[c] = "idle") =>
             \A t \in Calls : Holding(t) /\ session[t] = session[c] =>
                \/ t \in cancelled'
                \/ pc[t] = "turn_drop"
                \/ Armed(t) /\ entry[t] \in requested']_vars

(* Documented: a closed session starts no turn until it is resumed           *)
(* (manager.rs close, Table::close).                                         *)
ClosedStartsNoTurn ==
    [][\A c \in Calls :
          (pc[c] = "send_begin" /\ pc'[c] = "send_touch") => session[c] \notin closed]_vars

(* Documented: the result of `send` comes through the hub as TurnEnded       *)
(* (manager.sdd Must `send`), for whoever is attached when the turn ends.    *)
SendAnswered ==
    [][\A t \in Calls : (Armed(t) /\ pc'[t] = "turn_drop") =>
          \A r \in Attached(session[t]) :
             queue'[r] # <<>> /\ queue'[r][Len(queue'[r])] = [kind |-> "ended", turn |-> t]]_vars
=============================================================================
