------------------------ MODULE SessionManager_proof ------------------------
(* Proofs about SessionManager, for every set of sessions, calls, entries,   *)
(* subscriptions, users and contexts.                                        *)
EXTENDS SessionManager, HubOps_proof

-----------------------------------------------------------------------------
(* Moves of a call. *)

(* A call that only moves to a phase of its own kind stays well typed.       *)
LEMMA GotoTypes ==
    ASSUME CallsOK, NEW c \in Calls, NEW phase \in CallPhases \ {"idle"}, pc[c] # "idle",
           pc[c] \in WithEntry <=> phase \in WithEntry, Goto(c, phase)
    PROVE  CallsOK'
BY DEF CallsOK, Goto

(* A handler that returns leaves no user, session or entry behind.           *)
LEMMA ReturnTypes ==
    ASSUME CallsOK, NEW c \in Calls, Return(c)
    PROVE  CallsOK'
BY DEF CallsOK, Return, CallPhases, WithEntry, TurnPhases

(* A handler that begins has its user and its session, and no entry yet.     *)
LEMMA EnterTypes ==
    ASSUME CallsOK, NEW c \in Calls, NEW u \in Subjects, NEW s \in Sessions,
           NEW phase \in CallPhases \ WithEntry, Enter(c, phase, u, s)
    PROVE  CallsOK'
BY NoneAssumption DEF CallsOK, Enter, WithEntry, TurnPhases

(* The entries that stay referenced keep what they hold. *)
LEMMA FreeTypes ==
    ASSUME handle \in [Entries -> Calls \cup {None}], NEW flags \in SUBSET Entries,
           FreeEntries(flags)
    PROVE  handle' \in [Entries -> Calls \cup {None}] /\ requested' \subseteq Entries
BY DEF FreeEntries

(* Table::touch keeps the table well typed, whatever it sweeps.              *)
LEMMA TouchTypes ==
    ASSUME TableOK, NEW u \in Subjects, NEW s \in Sessions, NEW e \in Entries,
           Touch(u, s, e), closed' = closed, gate' = gate
    PROVE  TableOK'
<1>1. Swept \in [Sessions -> Entries \cup {None}]
  BY DEF Swept, TableOK
<1>2. handle' \in [Entries -> Calls \cup {None}] /\ requested' \subseteq Entries
  BY FreeTypes DEF Touch, TableOK
<1>3. QED
  BY <1>1, <1>2 DEF Touch, TableOK

-----------------------------------------------------------------------------
(* Type correctness. *)

USE DEF rowVars, tableVars, entryVars, callVars

(* A new SessionManager is well typed (manager.rs new).                      *)
LEMMA TypeInit == Init => TypeOK
BY DEF Init, TypeOK, RowsOK, TableOK, CallsOK, CallPhases, WithEntry, TurnPhases

(* The first step of every handler, up to its first await, keeps the types.  *)
LEMMA TypeRequests ==
    ASSUME TypeOK, NEW c \in Calls, Requests(c)
    PROVE  TypeOK'
<1> PICK u \in Subjects, s \in Sessions :
       \/ OpenCheck(c, u, s) \/ SendRead(c, u, s) \/ CancelRead(c, u, s)
       \/ ResumeRead(c, u, s) \/ CloseRead(c, u, s)
  BY DEF Requests
<1>1. PICK phase \in CallPhases \ WithEntry : Enter(c, phase, u, s)
  BY DEF OpenCheck, SendRead, CancelRead, ResumeRead, CloseRead, CallPhases, OpenPhases,
         SendPhases, CancelPhases, ResumePhases, ClosePhases, WithEntry, TurnPhases
<1>2. CallsOK'
  BY <1>1, EnterTypes DEF TypeOK
<1>3. QED
  BY <1>2 DEF OpenCheck, SendRead, CancelRead, ResumeRead, CloseRead,
              TypeOK, RowsOK, TableOK

(* The steps of `open` keep the types.                                       *)
LEMMA TypeOpen ==
    ASSUME TypeOK, NEW c \in Calls, OpenStep(c)
    PROVE  TypeOK'
<1> USE DEF TypeOK
<1>1. CASE OpenSave(c)
  <2>1. CallsOK'
    BY <1>1, GotoTypes DEF OpenSave, CallPhases, OpenPhases, WithEntry, TurnPhases
  <2>2. subject[c] \in Subjects
    BY <1>1 DEF OpenSave, CallsOK
  <2>3. QED
    BY <1>1, <2>1, <2>2 DEF OpenSave, Save, RowsOK, TableOK
<1>2. ASSUME NEW x \in Contexts, OpenStamp(c, x) PROVE TypeOK'
  <2>1. CallsOK'
    BY <1>2, GotoTypes DEF OpenStamp, CallPhases, OpenPhases, WithEntry, TurnPhases
  <2>2. QED
    BY <1>2, <2>1 DEF OpenStamp, StampContext, RowsOK, TableOK
<1>3. CASE OpenRegister(c)
  <2>1. CallsOK'
    BY <1>3, GotoTypes DEF OpenRegister, CallPhases, OpenPhases, WithEntry, TurnPhases
  <2>2. QED
    BY <1>3, <2>1 DEF OpenRegister, RowsOK, TableOK
<1>4. ASSUME NEW e \in Entries, OpenTouch(c, e) PROVE TypeOK'
  <2>1. CallsOK'
    BY <1>4, ReturnTypes DEF OpenTouch
  <2>2. subject[c] \in Subjects /\ session[c] \in Sessions
    BY <1>4 DEF OpenTouch, CallsOK
  <2>3. TableOK'
    BY <1>4, <2>2, TouchTypes DEF OpenTouch
  <2>4. QED
    BY <1>4, <2>1, <2>3 DEF OpenTouch, RowsOK
<1>5. QED
  BY <1>1, <1>2, <1>3, <1>4 DEF OpenStep

(* The steps of `send`, up to the spawn, keep the types.                     *)
LEMMA TypeSend ==
    ASSUME TypeOK, NEW c \in Calls, SendStep(c)
    PROVE  TypeOK'
<1> USE DEF TypeOK
<1>1. CASE SendIsClosed(c)
  <2>1. CallsOK'
    BY <1>1, GotoTypes, ReturnTypes
    DEF SendIsClosed, CallPhases, SendPhases, WithEntry, TurnPhases
  <2>2. QED
    BY <1>1, <2>1 DEF SendIsClosed, RowsOK, TableOK
<1>2. CASE SendBegin(c)
  <2>1. CallsOK'
    BY <1>2, GotoTypes, ReturnTypes
    DEF SendBegin, TryBegin, CallPhases, SendPhases, WithEntry, TurnPhases
  <2>2. session[c] \in Sessions
    BY <1>2 DEF SendBegin, CallsOK
  <2>3. QED
    BY <1>2, <2>1, <2>2 DEF SendBegin, TryBegin, RowsOK, TableOK
<1>3. CASE SendClear(c)
  <2>1. CallsOK'
    BY <1>3, GotoTypes DEF SendClear, CallPhases, SendPhases, WithEntry, TurnPhases
  <2>2. QED
    BY <1>3, <2>1 DEF SendClear, RowsOK, TableOK
<1>4. CASE SendReset(c)
  <2>1. CallsOK'
    BY <1>4, GotoTypes DEF SendReset, CallPhases, SendPhases, WithEntry, TurnPhases
  <2>2. QED
    BY <1>4, <2>1 DEF SendReset, RowsOK, TableOK
<1>5. ASSUME NEW e \in Entries, SendTouch(c, e) PROVE TypeOK'
  <2>1. CallsOK'
    BY <1>5, NoneAssumption DEF SendTouch, CallsOK, CallPhases, SendPhases, WithEntry, TurnPhases
  <2>2. subject[c] \in Subjects /\ session[c] \in Sessions
    BY <1>5 DEF SendTouch, CallsOK
  <2>3. TableOK'
    BY <1>5, <2>2, TouchTypes DEF SendTouch
  <2>4. QED
    BY <1>5, <2>1, <2>3 DEF SendTouch, RowsOK
<1>6. QED
  BY <1>1, <1>2, <1>3, <1>4, <1>5 DEF SendStep

(* The steps of the detached turn keep the types.                            *)
LEMMA TypeTurn ==
    ASSUME TypeOK, NEW c \in Calls, TurnStep(c) \/ RunEnds(c) \/ TurnDelta(c)
    PROVE  TypeOK'
<1> USE DEF TypeOK
<1>1. CASE TurnDrop(c)
  <2>1. CallsOK'
    BY <1>1, ReturnTypes DEF TurnDrop
  <2>2. handle' \in [Entries -> Calls \cup {None}] /\ requested' \subseteq Entries
    BY <1>1, FreeTypes DEF TurnDrop, TableOK
  <2>3. QED
    BY <1>1, <2>1, <2>2 DEF TurnDrop, RowsOK, TableOK
<1>2. CASE TurnDelta(c)
  BY <1>2 DEF TurnDelta, RowsOK, TableOK, CallsOK
<1>3. CASE ~TurnDrop(c) /\ ~TurnDelta(c)
  <2>1. CallsOK'
    BY <1>3, GotoTypes
    DEF TurnStep, RunEnds, TurnAssemblyFails, TurnPublish, TurnCheck, TurnStarts,
        TurnEnded, TurnSave, TurnFails, CallPhases, WithEntry, TurnPhases
  <2>2. /\ subject[c] \in Subjects
        /\ session[c] \in Sessions
    BY <1>3 DEF TurnStep, RunEnds, TurnAssemblyFails, TurnPublish, TurnCheck, TurnStarts,
        TurnEnded, TurnSave, TurnFails, CallsOK
  <2>3. QED
    BY <1>3, <2>1, <2>2
    DEF TurnStep, RunEnds, TurnAssemblyFails, TurnPublish, TurnCheck, TurnStarts,
        TurnEnded, TurnSave, TurnFails, Save, RowsOK, TableOK
<1>4. QED
  BY <1>1, <1>2, <1>3

(* Looking an entry up for a signal keeps the types.                         *)
LEMMA FetchTypes ==
    ASSUME TableOK, CallsOK, NEW c \in Calls, pc[c] # "idle",
           NEW found \in {"cancel_apply", "close_apply"}, NEW next \in {"idle", "close_slot"},
           pc[c] \notin WithEntry, FetchEntry(c, found, next)
    PROVE  CallsOK'
<1>1. CASE byId[session[c]] = None
  BY <1>1, GotoTypes, ReturnTypes
  DEF FetchEntry, After, CallPhases, ClosePhases, WithEntry, TurnPhases
<1>2. CASE byId[session[c]] # None
  BY <1>2
  DEF FetchEntry, CallsOK, TableOK, CallPhases, ClosePhases, CancelPhases, WithEntry
<1>3. QED
  BY <1>1, <1>2

(* Applying a signal to an entry keeps the types.                            *)
LEMMA ApplyTypes ==
    ASSUME TypeOK, NEW c \in Calls, pc[c] \in {"cancel_apply", "close_apply"},
           NEW next \in {"idle", "close_slot"}, ApplySignal(c, next)
    PROVE  /\ CallsOK'
           /\ handle' \in [Entries -> Calls \cup {None}] /\ requested' \subseteq Entries
           /\ cancelled' \subseteq Calls /\ asked' \subseteq Calls
<1> USE DEF TypeOK
<1>1. CallsOK'
  <2>1. CASE next = "idle"
    BY <2>1, ReturnTypes DEF ApplySignal
  <2>2. CASE next # "idle"
    BY <2>2 DEF ApplySignal, CallsOK, CallPhases, ClosePhases, WithEntry, TurnPhases
  <2>3. QED
    BY <2>1, <2>2
<1>2. entry[c] \in Entries
  BY DEF CallsOK, WithEntry
<1>3. handle[entry[c]] # None => handle[entry[c]] \in Calls
  BY <1>2 DEF TableOK
<1>4. PICK flags \in SUBSET Entries : FreeEntries(flags)
  BY <1>2 DEF ApplySignal, TableOK
<1>5. handle' \in [Entries -> Calls \cup {None}] /\ requested' \subseteq Entries
  BY <1>4, FreeTypes DEF TableOK
<1>6. QED
  BY <1>1, <1>3, <1>5 DEF ApplySignal

(* The steps of `cancel` keep the types.                                     *)
LEMMA TypeCancel ==
    ASSUME TypeOK, NEW c \in Calls, CancelStep(c)
    PROVE  TypeOK'
<1> USE DEF TypeOK
<1>1. CASE CancelLook(c)
  <2>1. CallsOK'
    BY <1>1, GotoTypes, ReturnTypes
    DEF CancelLook, After, CallPhases, CancelPhases, WithEntry, TurnPhases
  <2>2. QED
    BY <1>1, <2>1 DEF CancelLook, RowsOK, TableOK
<1>2. CASE CancelFetch(c)
  <2>1. CallsOK'
    BY <1>2, FetchTypes DEF CancelFetch, WithEntry, TurnPhases
  <2>2. QED
    BY <1>2, <2>1 DEF CancelFetch, RowsOK, TableOK
<1>3. CASE CancelApply(c)
  <2>1. /\ CallsOK'
        /\ handle' \in [Entries -> Calls \cup {None}] /\ requested' \subseteq Entries
        /\ cancelled' \subseteq Calls /\ asked' \subseteq Calls
    BY <1>3, ApplyTypes DEF CancelApply
  <2>2. QED
    BY <1>3, <2>1 DEF CancelApply, ApplySignal, RowsOK, TableOK
<1>4. QED
  BY <1>1, <1>2, <1>3 DEF CancelStep

(* The steps of `resume` keep the types.                                     *)
LEMMA TypeResume ==
    ASSUME TypeOK, NEW c \in Calls, ResumeStep(c)
    PROVE  TypeOK'
<1> USE DEF TypeOK
<1>1. CASE ResumeContext(c) \/ ResumeRegister(c) \/ ResumeReopen(c)
  <2>1. CallsOK'
    BY <1>1, GotoTypes, ReturnTypes
    DEF ResumeContext, ResumeRegister, ResumeReopen, CallPhases, ResumePhases, WithEntry,
        TurnPhases
  <2>2. QED
    BY <1>1, <2>1 DEF ResumeContext, ResumeRegister, ResumeReopen, RowsOK, TableOK
<1>2. ASSUME NEW e \in Entries, ResumeTouch(c, e) PROVE TypeOK'
  <2>1. CallsOK'
    BY <1>2, ReturnTypes DEF ResumeTouch
  <2>2. subject[c] \in Subjects /\ session[c] \in Sessions
    BY <1>2 DEF ResumeTouch, CallsOK
  <2>3. TableOK'
    BY <1>2, <2>2, TouchTypes DEF ResumeTouch
  <2>4. QED
    BY <1>2, <2>1, <2>3 DEF ResumeTouch, RowsOK
<1>3. QED
  BY <1>1, <1>2 DEF ResumeStep

(* The steps of `close` keep the types.                                      *)
LEMMA TypeClose ==
    ASSUME TypeOK, NEW c \in Calls, CloseStep(c)
    PROVE  TypeOK'
<1> USE DEF TypeOK
<1>1. CASE CloseLook(c) \/ CloseHubSlot(c) \/ CloseHubSubject(c)
  <2>1. CallsOK'
    BY <1>1, GotoTypes
    DEF CloseLook, CloseHubSlot, CloseHubSubject, CallPhases, ClosePhases, WithEntry, TurnPhases
  <2>2. QED
    BY <1>1, <2>1 DEF CloseLook, CloseHubSlot, CloseHubSubject, RowsOK, TableOK
<1>2. CASE CloseFetch(c)
  <2>1. CallsOK'
    BY <1>2, FetchTypes DEF CloseFetch, WithEntry, TurnPhases
  <2>2. QED
    BY <1>2, <2>1 DEF CloseFetch, RowsOK, TableOK
<1>3. CASE CloseApply(c)
  <2>1. /\ CallsOK'
        /\ handle' \in [Entries -> Calls \cup {None}] /\ requested' \subseteq Entries
        /\ cancelled' \subseteq Calls /\ asked' \subseteq Calls
    BY <1>3, ApplyTypes DEF CloseApply
  <2>2. QED
    BY <1>3, <2>1 DEF CloseApply, ApplySignal, RowsOK, TableOK
<1>4. CASE CloseTable(c)
  <2>1. CallsOK'
    BY <1>4, ReturnTypes DEF CloseTable
  <2>2. handle' \in [Entries -> Calls \cup {None}] /\ requested' \subseteq Entries
    BY <1>4, FreeTypes DEF CloseTable, TableOK
  <2>3. session[c] \in Sessions
    BY <1>4 DEF CloseTable, CallsOK
  <2>4. QED
    BY <1>4, <2>1, <2>2, <2>3 DEF CloseTable, RowsOK, TableOK
<1>5. QED
  BY <1>1, <1>2, <1>3, <1>4 DEF CloseStep

(* Time, an abandoned handler, a purge and a restart keep the types.         *)
LEMMA TypeEnvironment ==
    ASSUME TypeOK, Environment \/ Subscriptions
    PROVE  TypeOK'
<1> USE DEF TypeOK
<1>1. ASSUME NEW s \in Sessions, GrowIdle(s) \/ PurgeSession(s) PROVE TypeOK'
  BY <1>1 DEF GrowIdle, PurgeSession, RowsOK, TableOK, CallsOK
<1>2. ASSUME NEW c \in Calls, Abandon(c) PROVE TypeOK'
  <2>1. CallsOK'
    BY <1>2, ReturnTypes DEF Abandon
  <2>2. QED
    BY <1>2, <2>1 DEF Abandon, RowsOK, TableOK
<1>3. CASE Restart
  BY <1>3 DEF Restart, RowsOK, TableOK, CallsOK, CallPhases, WithEntry, TurnPhases
<1>4. CASE Subscriptions
  BY <1>4
  DEF Subscriptions, SubscribeRead, Subscribe, Receive, Unsubscribe, RowsOK, TableOK, CallsOK
<1>5. QED
  BY <1>1, <1>2, <1>3, <1>4 DEF Environment

(* Every step of the manager keeps the types.                                *)
LEMMA TypeNext == TypeOK /\ [Next]_vars => TypeOK'
<1> SUFFICES ASSUME TypeOK, [Next]_vars PROVE TypeOK'
  OBVIOUS
<1>1. ASSUME NEW c \in Calls,
             Requests(c) \/ CallStep(c) \/ RunEnds(c) \/ TurnDelta(c)
      PROVE  TypeOK'
  BY <1>1, TypeRequests, TypeOpen, TypeSend, TypeTurn, TypeCancel, TypeResume, TypeClose
  DEF CallStep
<1>2. CASE UNCHANGED vars
  BY <1>2 DEF vars, TypeOK, RowsOK, TableOK, CallsOK
<1>3. QED
  BY <1>1, <1>2, TypeEnvironment DEF Next

(* The state of the manager is well formed in every reachable state: a call  *)
(* that is under way knows its session, and holds an entry exactly between   *)
(* the steps that take and drop one (manager.rs open, send, cancel, resume,  *)
(* close).                                                                   *)
THEOREM TypeCorrect == Spec => []TypeOK
BY TypeInit, TypeNext, PTL DEF Spec

-----------------------------------------------------------------------------
(* The inductive invariant.  OneTurn is inductive beside TypeOK.  What makes *)
(* the cancellation handshake work is that an entry is never shared by two   *)
(* sessions, so that with one turn per session it serves one turn; that no   *)
(* handle is published between the withdrawal of the previous one and the    *)
(* publication of the turn's own; and that only turns are ever asked.        *)

EntryOneSession ==
    /\ \A c \in Calls, s \in Sessions :
          entry[c] # None /\ byId[s] = entry[c] => session[c] = s
    /\ \A c, d \in Calls :
          entry[c] # None /\ entry[c] = entry[d] => session[c] = session[d]
    /\ \A s, t \in Sessions : byId[s] # None /\ byId[s] = byId[t] => s = t

PublishedPhases == {"turn_check", "turn_start", "turn_run", "turn_saved"}
WithdrawnPhases == {"send_reset", "turn_assemble"}

(* What an entry publishes during each phase of the turn that has it.        *)
Handles ==
    /\ \A t \in Calls : pc[t] \in PublishedPhases => handle[entry[t]] = t
    /\ \A t \in Calls : pc[t] \in WithdrawnPhases => handle[entry[t]] = None

(* Only turns are ever recorded as asked.                                    *)
OnlyTurnsAsked == \A t \in asked : pc[t] \in TurnPhases

(* The inductive invariant: each part is needed by the next one.             *)
IInv == TypeOK /\ OneTurn /\ EntryOneSession /\ Handles /\ OnlyTurnsAsked /\ SignalSurvives

-----------------------------------------------------------------------------
(* One turn per session. *)

(* A call that neither takes nor drops a permit leaves the turns alone. *)
LEMMA MoveKeepsTurns ==
    ASSUME TypeOK, OneTurn, NEW c \in Calls, gate' = gate,
           \A d \in Calls \ {c} : pc'[d] = pc[d] /\ session'[d] = session[d],
           Holding(c)' <=> Holding(c), Holding(c) => session'[c] = session[c]
    PROVE  OneTurn'
<1>1. \A d \in Calls : Holding(d)' <=> Holding(d)
  BY DEF Holding
<1>2. \A d \in Calls : Holding(d) => session'[d] = session[d]
  OBVIOUS
<1>3. QED
  BY <1>1, <1>2 DEF OneTurn

(* What a call step that is not one of send's acquisition and release does   *)
(* to the permit: nothing.                                                   *)
LEMMA StepsKeepTurns ==
    ASSUME TypeOK, OneTurn, NEW c \in Calls,
           Requests(c) \/ CallStep(c) \/ RunEnds(c) \/ TurnDelta(c) \/ Abandon(c),
           ~SendBegin(c), ~TurnDrop(c)
    PROVE  OneTurn'
<1> USE DEF Goto, Return, Enter, After, HoldingPhases, TurnPhases, Holding
<1> pc \in [Calls -> CallPhases] /\ session \in [Calls -> Sessions \cup {None}]
  BY DEF TypeOK, CallsOK
<1>1. CASE Requests(c)
  BY <1>1, MoveKeepsTurns DEF Requests, OpenCheck, SendRead, CancelRead, ResumeRead, CloseRead
<1>2. CASE OpenStep(c)
  BY <1>2, MoveKeepsTurns DEF OpenStep, OpenSave, OpenStamp, OpenRegister, OpenTouch
<1>3. CASE SendStep(c)
  BY <1>3, MoveKeepsTurns DEF SendStep, SendIsClosed, SendClear, SendReset, SendTouch
<1>4. CASE TurnStep(c)
  BY <1>4, MoveKeepsTurns
  DEF TurnStep, TurnAssemblyFails, TurnPublish, TurnCheck, TurnStarts, TurnEnded
<1>5. CASE RunEnds(c) \/ TurnDelta(c)
  BY <1>5, MoveKeepsTurns DEF RunEnds, TurnSave, TurnFails, TurnDelta
<1>6. CASE CancelStep(c)
  BY <1>6, MoveKeepsTurns
  DEF CancelStep, CancelLook, CancelFetch, CancelApply, FetchEntry, ApplySignal
<1>7. CASE ResumeStep(c)
  BY <1>7, MoveKeepsTurns
  DEF ResumeStep, ResumeContext, ResumeRegister, ResumeReopen, ResumeTouch
<1>8. CASE CloseStep(c)
  BY <1>8, MoveKeepsTurns
  DEF CloseStep, CloseLook, CloseFetch, CloseApply, CloseHubSlot, CloseHubSubject, CloseTable,
      FetchEntry, ApplySignal
<1>9. CASE Abandon(c)
  BY <1>9, MoveKeepsTurns DEF Abandon
<1>10. QED
  BY <1>1, <1>2, <1>3, <1>4, <1>5, <1>6, <1>7, <1>8, <1>9 DEF CallStep

(* The gate refuses a session that is active, so a permit is always new. *)
LEMMA BeginKeepsTurns ==
    ASSUME TypeOK, OneTurn, NEW c \in Calls, SendBegin(c)
    PROVE  OneTurn'
<1> USE DEF Goto, Return, HoldingPhases, TurnPhases, Holding
<1> pc \in [Calls -> CallPhases] /\ session \in [Calls -> Sessions \cup {None}]
  BY DEF TypeOK, CallsOK
<1>1. CASE session[c] \in gate
  BY <1>1, MoveKeepsTurns DEF SendBegin, TryBegin
<1>2. CASE session[c] \notin gate
  <2>1. /\ gate' = gate \cup {session[c]}
        /\ session' = session
        /\ \A d \in Calls : Holding(d)' <=> Holding(d) \/ d = c
    BY <1>2 DEF SendBegin, TryBegin
  <2>2. \A d \in Calls : Holding(d) => session[d] # session[c]
    BY <1>2 DEF OneTurn
  <2>3. QED
    BY <2>1, <2>2 DEF OneTurn
<1>3. QED
  BY <1>1, <1>2

(* The permit that a task drops was its own. *)
LEMMA DropKeepsTurns ==
    ASSUME TypeOK, OneTurn, NEW c \in Calls, TurnDrop(c)
    PROVE  OneTurn'
<1> USE DEF Return, HoldingPhases, TurnPhases, Holding
<1> pc \in [Calls -> CallPhases] /\ session \in [Calls -> Sessions \cup {None}]
  BY DEF TypeOK, CallsOK
<1>1. /\ gate' = gate \ {session[c]}
      /\ \A d \in Calls : Holding(d)' <=> Holding(d) /\ d # c
      /\ \A d \in Calls : d # c => session'[d] = session[d]
      /\ Holding(c)
  BY DEF TurnDrop
<1>2. QED
  BY <1>1 DEF OneTurn

(* Every step keeps the gate and the tasks in agreement.                     *)
LEMMA OneTurnNext == TypeOK /\ OneTurn /\ [Next]_vars => OneTurn'
<1> SUFFICES ASSUME TypeOK, OneTurn, [Next]_vars PROVE OneTurn'
  OBVIOUS
<1>1. ASSUME NEW c \in Calls,
             Requests(c) \/ CallStep(c) \/ RunEnds(c) \/ TurnDelta(c) \/ Abandon(c)
      PROVE  OneTurn'
  BY <1>1, StepsKeepTurns, BeginKeepsTurns, DropKeepsTurns
<1>2. CASE Restart
  BY <1>2 DEF Restart, OneTurn, Holding, HoldingPhases, TurnPhases
<1>3. ASSUME NEW s \in Sessions, GrowIdle(s) \/ PurgeSession(s) PROVE OneTurn'
  BY <1>3 DEF GrowIdle, PurgeSession, OneTurn, Holding
<1>4. CASE Subscriptions
  BY <1>4 DEF Subscriptions, SubscribeRead, Subscribe, Receive, Unsubscribe, OneTurn, Holding
<1>5. CASE UNCHANGED vars
  BY <1>5 DEF vars, OneTurn, Holding
<1>6. QED
  BY <1>1, <1>2, <1>3, <1>4, <1>5 DEF Next, Environment

(* A new gate is empty and no task runs (manager.rs new).                    *)
LEMMA OneTurnInit == Init => OneTurn
BY DEF Init, OneTurn, Holding, HoldingPhases, TurnPhases

(* Two sends never both get through for one session, and no path of the      *)
(* detached task leaks the permit (manager.rs send).                         *)
THEOREM OneTurnAlways == Spec => []OneTurn
<1>1. Init => TypeOK /\ OneTurn
  BY TypeInit, OneTurnInit
<1>2. TypeOK /\ OneTurn /\ [Next]_vars => (TypeOK /\ OneTurn)'
  BY TypeNext, OneTurnNext
<1>3. QED
  BY <1>1, <1>2, PTL DEF Spec

-----------------------------------------------------------------------------
(* An entry serves one session. *)

(* Dropping an `Arc`, in the table or in a call, shares nothing new. *)
LEMMA DropKeepsEntries ==
    ASSUME EntryOneSession,
           \A s \in Sessions : byId'[s] \in {byId[s], None},
           \A d \in Calls : entry'[d] # None => entry'[d] = entry[d] /\ session'[d] = session[d]
    PROVE  EntryOneSession'
BY DEF EntryOneSession

(* Taking the `Arc` of one's session from the table does not either. *)
LEMMA FetchKeepsEntries ==
    ASSUME EntryOneSession, NEW c \in Calls, session[c] \in Sessions, byId[session[c]] # None,
           session' = session, byId' = byId, entry' = [entry EXCEPT ![c] = byId[session[c]]],
           entry \in [Calls -> Entries \cup {None}]
    PROVE  EntryOneSession'
BY DEF EntryOneSession

(* `touch` hands out the entry of its session, or one nobody has. *)
LEMMA TouchKeepsEntries ==
    ASSUME TypeOK, EntryOneSession, NEW c \in Calls, NEW u, NEW s \in Sessions, NEW e \in Entries,
           Touch(u, s, e), s = session[c],
           \A d \in Calls \ {c} : entry'[d] = entry[d] /\ session'[d] = session[d],
           entry'[c] # None => entry'[c] = e /\ session'[c] = s
    PROVE  EntryOneSession'
<1>1. byId \in [Sessions -> Entries \cup {None}] /\ e # None
  BY NoneAssumption DEF TypeOK, TableOK
<1>2. \A t \in Sessions : Swept[t] \in {byId[t], None}
  BY DEF Swept
<1>3. /\ byId'[s] = e
      /\ \A t \in Sessions \ {s} : byId'[t] \in {byId[t], None}
  BY <1>1, <1>2 DEF Touch, Swept
<1>4. CASE Swept[s] = None
  <2>1. /\ \A t \in Sessions : byId[t] # e
        /\ \A d \in Calls : entry[d] # e
    BY <1>4 DEF Touch, Referenced
  <2>2. QED
    BY <1>1, <1>3, <2>1 DEF EntryOneSession
<1>5. CASE Swept[s] # None
  <2>1. e = byId[s]
    BY <1>2, <1>5 DEF Touch
  <2>2. QED
    BY <1>1, <1>3, <2>1 DEF EntryOneSession
<1>6. QED
  BY <1>4, <1>5

(* No step shares an entry between sessions (Table::touch, FetchEntry).      *)
LEMMA EntriesNext == TypeOK /\ EntryOneSession /\ [Next]_vars => EntryOneSession'
<1> SUFFICES ASSUME TypeOK, EntryOneSession, [Next]_vars PROVE EntryOneSession'
  OBVIOUS
<1> USE DEF Goto, Return, Enter, After
<1> /\ pc \in [Calls -> CallPhases] /\ session \in [Calls -> Sessions \cup {None}]
    /\ entry \in [Calls -> Entries \cup {None}] /\ byId \in [Sessions -> Entries \cup {None}]
  BY DEF TypeOK, CallsOK, TableOK
<1>0. \A c \in Calls : pc[c] # "idle" => session[c] \in Sessions
  BY DEF TypeOK, CallsOK
<1>1. ASSUME NEW c \in Calls, Requests(c) PROVE EntryOneSession'
  <2>1. entry[c] = None
    BY <1>1 DEF Requests, OpenCheck, SendRead, CancelRead, ResumeRead, CloseRead, TypeOK, CallsOK,
                WithEntry, TurnPhases
  <2>2. QED
    BY <1>1, <2>1, DropKeepsEntries
    DEF Requests, OpenCheck, SendRead, CancelRead, ResumeRead, CloseRead
<1>2. ASSUME NEW c \in Calls, OpenSave(c) \/ (\E x \in Contexts : OpenStamp(c, x)) \/ OpenRegister(c)
      PROVE  EntryOneSession'
  BY <1>2, DropKeepsEntries DEF OpenSave, OpenStamp, OpenRegister
<1>3. ASSUME NEW c \in Calls, NEW e \in Entries, OpenTouch(c, e) \/ ResumeTouch(c, e)
      PROVE  EntryOneSession'
  BY <1>0, <1>3, TouchKeepsEntries DEF OpenTouch, ResumeTouch
<1>4. ASSUME NEW c \in Calls, NEW e \in Entries, SendTouch(c, e) PROVE EntryOneSession'
  BY <1>0, <1>4, TouchKeepsEntries DEF SendTouch
<1>5. ASSUME NEW c \in Calls, SendIsClosed(c) \/ SendBegin(c) \/ SendClear(c) \/ SendReset(c)
      PROVE  EntryOneSession'
  BY <1>5, DropKeepsEntries DEF SendIsClosed, SendBegin, TryBegin, SendClear, SendReset
<1>6. ASSUME NEW c \in Calls, TurnStep(c) \/ RunEnds(c) \/ TurnDelta(c) PROVE EntryOneSession'
  BY <1>6, DropKeepsEntries
  DEF TurnStep, RunEnds, TurnDelta, TurnAssemblyFails, TurnPublish, TurnCheck, TurnStarts,
      TurnEnded, TurnDrop, TurnSave, TurnFails
<1>7. ASSUME NEW c \in Calls, CancelFetch(c) \/ CloseFetch(c) PROVE EntryOneSession'
  <2>1. CASE byId[session[c]] = None
    BY <1>7, <2>1, DropKeepsEntries DEF CancelFetch, CloseFetch, FetchEntry
  <2>2. CASE byId[session[c]] # None
    BY <1>0, <1>7, <2>2, FetchKeepsEntries DEF CancelFetch, CloseFetch, FetchEntry
  <2>3. QED
    BY <2>1, <2>2
<1>8. ASSUME NEW c \in Calls, CancelLook(c) \/ CancelApply(c) PROVE EntryOneSession'
  BY <1>8, DropKeepsEntries DEF CancelLook, CancelApply, ApplySignal
<1>9. ASSUME NEW c \in Calls, ResumeContext(c) \/ ResumeRegister(c) \/ ResumeReopen(c) \/ Abandon(c)
      PROVE  EntryOneSession'
  BY <1>9, DropKeepsEntries DEF ResumeContext, ResumeRegister, ResumeReopen, Abandon
<1>10. ASSUME NEW c \in Calls,
              CloseLook(c) \/ CloseApply(c) \/ CloseHubSlot(c) \/ CloseHubSubject(c) \/ CloseTable(c)
       PROVE  EntryOneSession'
  BY <1>10, DropKeepsEntries
  DEF CloseLook, CloseApply, ApplySignal, CloseHubSlot, CloseHubSubject, CloseTable
<1>11. CASE Restart
  BY <1>11, DropKeepsEntries DEF Restart
<1>12. ASSUME NEW s \in Sessions, GrowIdle(s) \/ PurgeSession(s) PROVE EntryOneSession'
  BY <1>12, DropKeepsEntries DEF GrowIdle, PurgeSession
<1>13. CASE Subscriptions \/ UNCHANGED vars
  BY <1>13, DropKeepsEntries
  DEF Subscriptions, SubscribeRead, Subscribe, Receive, Unsubscribe, vars
<1>14. QED
  BY <1>1, <1>2, <1>3, <1>4, <1>5, <1>6, <1>7, <1>8, <1>9, <1>10, <1>11, <1>12, <1>13
  DEF Next, CallStep, OpenStep, SendStep, CancelStep, ResumeStep, CloseStep, Environment

-----------------------------------------------------------------------------
(* The handle published in an entry. *)

(* Two turns never share an entry: they would be two turns of one session. *)
LEMMA EntryOfOneHolder ==
    ASSUME OneTurn, EntryOneSession, NEW c \in Calls, NEW d \in Calls, Holding(c), Holding(d),
           entry[c] # None, entry[c] = entry[d]
    PROVE  c = d
BY DEF OneTurn, EntryOneSession

(* A step that writes no handle keeps those of the turns: their entries are  *)
(* referenced, hence not freed.                                              *)
LEMMA FreeKeepsHandles ==
    ASSUME TypeOK, Handles,
           handle' = handle \/ (\E flags \in SUBSET Entries : FreeEntries(flags)),
           \A t \in Calls : pc'[t] \in PublishedPhases =>
              pc[t] \in PublishedPhases /\ entry'[t] = entry[t],
           \A t \in Calls : pc'[t] \in WithdrawnPhases =>
              pc[t] \in WithdrawnPhases /\ entry'[t] = entry[t]
    PROVE  Handles'
<1>1. \A t \in Calls : pc'[t] \in PublishedPhases \cup WithdrawnPhases =>
         /\ entry'[t] = entry[t]
         /\ entry[t] \in Entries
         /\ Referenced(entry[t])'
  BY DEF PublishedPhases, WithdrawnPhases, TypeOK, CallsOK, WithEntry, TurnPhases, Referenced
<1>2. \A t \in Calls : pc'[t] \in PublishedPhases \cup WithdrawnPhases =>
         handle'[entry[t]] = handle[entry[t]]
  BY <1>1 DEF FreeEntries
<1>3. QED
  BY <1>1, <1>2 DEF Handles

(* `send` withdraws the handle of the previous turn before it spawns its own *)
(* turn, which publishes its own: no other turn has this entry.              *)
LEMMA WrittenHandles ==
    ASSUME TypeOK, OneTurn, EntryOneSession, Handles, NEW c \in Calls,
           SendClear(c) \/ TurnPublish(c)
    PROVE  Handles'
<1> USE DEF Goto
<1> /\ pc \in [Calls -> CallPhases] /\ handle \in [Entries -> Calls \cup {None}]
    /\ entry[c] \in Entries /\ Holding(c)
  BY DEF TypeOK, CallsOK, TableOK, SendClear, TurnPublish, WithEntry, TurnPhases,
         Holding, HoldingPhases
<1>1. \A t \in Calls : t # c /\ pc[t] \in PublishedPhases \cup WithdrawnPhases =>
         entry[t] # entry[c]
  BY NoneAssumption, EntryOfOneHolder
  DEF PublishedPhases, WithdrawnPhases, Holding, HoldingPhases, TurnPhases
<1>2. CASE SendClear(c)
  BY <1>1, <1>2 DEF SendClear, Handles, PublishedPhases, WithdrawnPhases
<1>3. CASE TurnPublish(c)
  BY <1>1, <1>3 DEF TurnPublish, Handles, PublishedPhases, WithdrawnPhases
<1>4. QED
  BY <1>2, <1>3

(* No step leaves in an entry the handle of another turn or of an ended one. *)
LEMMA HandlesNext ==
    TypeOK /\ OneTurn /\ EntryOneSession /\ Handles /\ [Next]_vars => Handles'
<1> SUFFICES ASSUME TypeOK, OneTurn, EntryOneSession, Handles, [Next]_vars PROVE Handles'
  OBVIOUS
<1> USE DEF Goto, Return, Enter, After, PublishedPhases, WithdrawnPhases
<1> /\ pc \in [Calls -> CallPhases] /\ entry \in [Calls -> Entries \cup {None}]
    /\ requested \subseteq Entries
  BY DEF TypeOK, CallsOK, TableOK
<1>1. ASSUME NEW c \in Calls, Requests(c) PROVE Handles'
  BY <1>1, FreeKeepsHandles
  DEF Requests, OpenCheck, SendRead, CancelRead, ResumeRead, CloseRead
<1>2. ASSUME NEW c \in Calls, OpenStep(c) PROVE Handles'
  BY <1>2, FreeKeepsHandles DEF OpenStep, OpenSave, OpenStamp, OpenRegister, OpenTouch, Touch
<1>3. ASSUME NEW c \in Calls,
             SendIsClosed(c) \/ SendBegin(c) \/ \E e \in Entries : SendTouch(c, e)
      PROVE  Handles'
  BY <1>3, FreeKeepsHandles DEF SendIsClosed, SendBegin, TryBegin, SendTouch, Touch
<1>4. ASSUME NEW c \in Calls, SendReset(c) PROVE Handles'
  BY <1>4, FreeKeepsHandles DEF SendReset
<1>5. ASSUME NEW c \in Calls,
             (TurnStep(c) /\ ~TurnPublish(c)) \/ RunEnds(c) \/ TurnDelta(c)
      PROVE  Handles'
  BY <1>5, FreeKeepsHandles
  DEF TurnStep, RunEnds, TurnDelta, TurnAssemblyFails, TurnCheck, TurnStarts, TurnEnded,
      TurnDrop, TurnSave, TurnFails
<1>6. ASSUME NEW c \in Calls, CancelLook(c) \/ CancelFetch(c) \/ CloseFetch(c) PROVE Handles'
  BY <1>6, FreeKeepsHandles DEF CancelLook, CancelFetch, CloseFetch, FetchEntry
<1>7. ASSUME NEW c \in Calls, CancelApply(c) \/ CloseApply(c) PROVE Handles'
  <2>1. entry[c] \in Entries
    BY <1>7 DEF CancelApply, CloseApply, TypeOK, CallsOK, WithEntry
  <2>2. \E flags \in SUBSET Entries : FreeEntries(flags)
    BY <1>7, <2>1 DEF CancelApply, CloseApply, ApplySignal
  <2>3. QED
    BY <1>7, <2>2, FreeKeepsHandles DEF CancelApply, CloseApply, ApplySignal
<1>8. ASSUME NEW c \in Calls, ResumeStep(c) \/ Abandon(c) PROVE Handles'
  BY <1>8, FreeKeepsHandles
  DEF ResumeStep, ResumeContext, ResumeRegister, ResumeReopen, ResumeTouch, Touch, Abandon
<1>9. ASSUME NEW c \in Calls,
             CloseLook(c) \/ CloseHubSlot(c) \/ CloseHubSubject(c) \/ CloseTable(c)
      PROVE  Handles'
  BY <1>9, FreeKeepsHandles DEF CloseLook, CloseHubSlot, CloseHubSubject, CloseTable
<1>10. CASE Restart
  BY <1>10 DEF Restart, Handles
<1>11. ASSUME NEW s \in Sessions, GrowIdle(s) \/ PurgeSession(s) PROVE Handles'
  BY <1>11, FreeKeepsHandles DEF GrowIdle, PurgeSession
<1>12. CASE Subscriptions \/ UNCHANGED vars
  BY <1>12, FreeKeepsHandles
  DEF Subscriptions, SubscribeRead, Subscribe, Receive, Unsubscribe, vars
<1>13. QED
  BY <1>1, <1>2, <1>3, <1>4, <1>5, <1>6, <1>7, <1>8, <1>9, <1>10, <1>11, <1>12, WrittenHandles
  DEF Next, CallStep, SendStep, TurnStep, CancelStep, CloseStep, Environment

-----------------------------------------------------------------------------
(* The cancellation handshake. *)

Signals == OnlyTurnsAsked /\ SignalSurvives

(* A step that asks no turn and takes nothing back leaves the signals where  *)
(* they are: the entry of an asked turn is referenced, hence not freed.      *)
LEMMA QuietKeepsSignals ==
    ASSUME TypeOK, Signals, asked' \subseteq asked, asked' \cap cancelled \subseteq cancelled',
           requested' = requested \/ FreeEntries(requested),
           \A t \in asked' : pc'[t] = pc[t] /\ entry'[t] = entry[t]
    PROVE  Signals'
<1>1. \A t \in asked' : t \in Calls /\ entry'[t] = entry[t]
  BY DEF TypeOK
<1>2. ASSUME NEW t \in asked', entry[t] \in requested
      PROVE  entry'[t] \in requested'
  <2>1. \E d \in Calls : entry'[d] = entry[t]
    BY <1>1
  <2>2. QED
    BY <1>1, <1>2, <2>1 DEF FreeEntries, Referenced
<1>3. QED
  BY <1>2 DEF Signals, OnlyTurnsAsked, SignalSurvives

(* `send` resets the entry of its own turn only, which nobody has asked yet. *)
LEMMA ResetKeepsSignals ==
    ASSUME TypeOK, OneTurn, EntryOneSession, Signals, NEW c \in Calls, SendReset(c)
    PROVE  Signals'
<1>1. pc[c] = "send_reset" /\ entry[c] # None /\ Holding(c)
  BY DEF SendReset, TypeOK, CallsOK, WithEntry, Holding, HoldingPhases
<1>2. \A t \in asked : t \in Calls /\ Holding(t) /\ t # c
  BY <1>1 DEF Signals, OnlyTurnsAsked, TurnPhases, Holding, HoldingPhases, TypeOK
<1>3. \A t \in asked : entry[t] # entry[c]
  BY <1>1, <1>2, EntryOfOneHolder
<1>4. \A t \in asked : pc'[t] = pc[t] /\ entry'[t] = entry[t]
  BY <1>2 DEF SendReset, Goto, TypeOK, CallsOK
<1>5. QED
  BY <1>2, <1>3, <1>4 DEF SendReset, Signals, OnlyTurnsAsked, SignalSurvives

(* A turn that goes on without being cancelled was not asked in time, but    *)
(* for the check that follows the publication, which looks at the request.   *)
LEMMA TurnKeepsSignals ==
    ASSUME TypeOK, Signals, NEW c \in Calls,
           \/ TurnAssemblyFails(c) \/ TurnPublish(c) \/ TurnCheck(c) \/ TurnStarts(c)
           \/ TurnEnded(c) \/ TurnSave(c) \/ TurnFails(c)
    PROVE  Signals'
<1> asked' = asked /\ requested' = requested /\ entry' = entry /\ asked \subseteq Calls
  BY DEF TurnAssemblyFails, TurnPublish, TurnCheck, TurnStarts, TurnEnded, TurnSave, TurnFails,
         Goto, TypeOK
<1> pc \in [Calls -> CallPhases]
  BY DEF TypeOK, CallsOK
<1>1. \A t \in asked \ {c} : pc'[t] = pc[t]
  BY DEF TurnAssemblyFails, TurnPublish, TurnCheck, TurnStarts, TurnEnded, TurnSave, TurnFails, Goto
<1>2. cancelled \subseteq cancelled'
  BY DEF TurnAssemblyFails, TurnPublish, TurnCheck, TurnStarts, TurnEnded, TurnSave, TurnFails
<1>3. pc'[c] \in TurnPhases
  BY DEF TurnAssemblyFails, TurnPublish, TurnCheck, TurnStarts, TurnEnded, TurnSave, TurnFails,
         Goto, TurnPhases
<1>4. c \in asked => \/ c \in cancelled'
                     \/ pc'[c] = "turn_drop"
                     \/ pc'[c] = "turn_check" /\ entry[c] \in requested
  BY <1>2 DEF TurnAssemblyFails, TurnPublish, TurnCheck, TurnStarts, TurnEnded, TurnSave,
         TurnFails, Goto, Signals, SignalSurvives
<1>5. QED
  BY <1>1, <1>2, <1>3, <1>4 DEF Signals, OnlyTurnsAsked, SignalSurvives

(* The signal reaches every turn it finds armed: a turn that is assembling   *)
(* has published no handle, so the request is left for it; the handle that   *)
(* is published otherwise is that of the one turn the entry serves.          *)
LEMMA ApplyKeepsSignals ==
    ASSUME TypeOK, Handles, Signals, NEW c \in Calls, CancelApply(c) \/ CloseApply(c)
    PROVE  Signals'
<1> DEFINE e == entry[c]
           flags == IF handle[e] # None THEN requested ELSE requested \cup {e}
<1>1. /\ e \in Entries /\ pc[c] \notin TurnPhases
      /\ pc \in [Calls -> CallPhases] /\ entry \in [Calls -> Entries \cup {None}]
      /\ asked \subseteq Calls
  BY DEF TypeOK, CallsOK, WithEntry, CancelApply, CloseApply, TurnPhases
<1>2. /\ asked' = asked \cup {t \in Calls : Armed(t) /\ entry[t] = e}
      /\ cancelled' = IF handle[e] # None THEN cancelled \cup {handle[e]} ELSE cancelled
      /\ FreeEntries(flags)
  BY DEF CancelApply, CloseApply, ApplySignal
<1>3. \A t \in asked' : t \in Calls /\ pc[t] \in TurnPhases /\ t # c
  BY <1>1, <1>2 DEF Signals, OnlyTurnsAsked, Armed, ArmedPhases
<1>4. \A t \in asked' : pc'[t] = pc[t] /\ entry'[t] = entry[t]
  BY <1>1, <1>3 DEF CancelApply, CloseApply, ApplySignal, Return
<1>5. \A t \in asked' : entry[t] \in flags => entry'[t] \in requested'
  BY <1>2, <1>3, <1>4 DEF FreeEntries, Referenced
<1>6. \A t \in asked :
         \/ t \in cancelled'
         \/ pc[t] = "turn_drop"
         \/ pc[t] \in {"turn_assemble", "turn_check"} /\ entry[t] \in flags
  BY <1>2 DEF Signals, SignalSurvives
<1>7. ASSUME NEW t \in Calls, Armed(t), entry[t] = e
      PROVE  \/ t \in cancelled'
             \/ pc[t] = "turn_assemble" /\ entry[t] \in flags
  <2>1. CASE pc[t] = "turn_assemble"
    BY <1>7, <2>1 DEF Handles, WithdrawnPhases
  <2>2. CASE pc[t] # "turn_assemble"
    <3>1. handle[e] = t
      BY <1>7, <2>2 DEF Handles, PublishedPhases, Armed, ArmedPhases, TurnPhases
    <3>2. QED
      BY <1>2, <3>1, NoneAssumption
  <2>3. QED
    BY <2>1, <2>2
<1>8. \A t \in asked' :
         \/ t \in cancelled'
         \/ pc[t] = "turn_drop"
         \/ pc[t] \in {"turn_assemble", "turn_check"} /\ entry[t] \in flags
  BY <1>2, <1>6, <1>7
<1>9. QED
  BY <1>3, <1>4, <1>5, <1>8 DEF Signals, OnlyTurnsAsked, SignalSurvives

(* No step of the manager loses a signal an armed turn received.             *)
LEMMA SignalsNext ==
    TypeOK /\ OneTurn /\ EntryOneSession /\ Handles /\ Signals /\ [Next]_vars => Signals'
<1> SUFFICES ASSUME TypeOK, OneTurn, EntryOneSession, Handles, Signals, [Next]_vars
             PROVE  Signals'
  OBVIOUS
<1> USE DEF Goto, Return, Enter, After
<1> /\ pc \in [Calls -> CallPhases] /\ entry \in [Calls -> Entries \cup {None}]
    /\ asked \subseteq Calls
  BY DEF TypeOK, CallsOK
<1>0. \A t \in asked : pc[t] \in TurnPhases
  BY DEF Signals, OnlyTurnsAsked
<1>1. ASSUME NEW c \in Calls, Requests(c) PROVE Signals'
  BY <1>0, <1>1, QuietKeepsSignals
  DEF Requests, OpenCheck, SendRead, CancelRead, ResumeRead, CloseRead, TurnPhases
<1>2. ASSUME NEW c \in Calls, OpenStep(c) PROVE Signals'
  <2>1. c \notin asked
    BY <1>0, <1>2 DEF OpenStep, OpenSave, OpenStamp, OpenRegister, OpenTouch, TurnPhases
  <2>2. CASE OpenSave(c) \/ (\E x \in Contexts : OpenStamp(c, x)) \/ OpenRegister(c)
    BY <2>1, <2>2, QuietKeepsSignals DEF OpenSave, OpenStamp, OpenRegister
  <2>3. ASSUME NEW e \in Entries, OpenTouch(c, e) PROVE Signals'
    BY <2>1, <2>3, QuietKeepsSignals DEF OpenTouch, Touch
  <2>4. QED
    BY <1>2, <2>2, <2>3 DEF OpenStep
<1>3. ASSUME NEW c \in Calls,
             SendIsClosed(c) \/ SendBegin(c) \/ SendClear(c) \/ \E e \in Entries : SendTouch(c, e)
      PROVE  Signals'
  BY <1>0, <1>3, QuietKeepsSignals
  DEF SendIsClosed, SendBegin, TryBegin, SendClear, SendTouch, Touch, TurnPhases
<1>4. ASSUME NEW c \in Calls, TurnDrop(c) PROVE Signals'
  BY <1>4, QuietKeepsSignals DEF TurnDrop
<1>5. ASSUME NEW c \in Calls, TurnDelta(c) PROVE Signals'
  BY <1>5, QuietKeepsSignals DEF TurnDelta
<1>6. ASSUME NEW c \in Calls, CancelLook(c) \/ CancelFetch(c) \/ CloseFetch(c) PROVE Signals'
  BY <1>0, <1>6, QuietKeepsSignals
  DEF CancelLook, CancelFetch, CloseFetch, FetchEntry, TurnPhases
<1>7. ASSUME NEW c \in Calls, ResumeStep(c) \/ Abandon(c) PROVE Signals'
  BY <1>0, <1>7, QuietKeepsSignals
  DEF ResumeStep, ResumeContext, ResumeRegister, ResumeReopen, ResumeTouch, Touch, Abandon,
      TurnPhases
<1>8. ASSUME NEW c \in Calls,
             CloseLook(c) \/ CloseHubSlot(c) \/ CloseHubSubject(c) \/ CloseTable(c)
      PROVE  Signals'
  BY <1>0, <1>8, QuietKeepsSignals
  DEF CloseLook, CloseHubSlot, CloseHubSubject, CloseTable, TurnPhases
<1>9. CASE Restart
  BY <1>9 DEF Restart, Signals, OnlyTurnsAsked, SignalSurvives
<1>10. ASSUME NEW s \in Sessions, GrowIdle(s) \/ PurgeSession(s) PROVE Signals'
  BY <1>10, QuietKeepsSignals DEF GrowIdle, PurgeSession
<1>11. CASE Subscriptions \/ UNCHANGED vars
  BY <1>11, QuietKeepsSignals
  DEF Subscriptions, SubscribeRead, Subscribe, Receive, Unsubscribe, vars
<1>12. QED
  BY <1>1, <1>2, <1>3, <1>4, <1>5, <1>6, <1>7, <1>8, <1>9, <1>10, <1>11, ResetKeepsSignals,
     TurnKeepsSignals, ApplyKeepsSignals
  DEF Next, CallStep, SendStep, TurnStep, RunEnds, CancelStep, CloseStep, Environment

(* The inductive invariant holds of a new manager.                           *)
LEMMA IInvInit == Init => IInv
<1> SUFFICES ASSUME Init PROVE IInv
  OBVIOUS
<1>1. EntryOneSession /\ Handles /\ OnlyTurnsAsked /\ SignalSurvives
  BY DEF Init, EntryOneSession, Handles, PublishedPhases, WithdrawnPhases, OnlyTurnsAsked,
         SignalSurvives
<1>2. QED
  BY <1>1, TypeInit, OneTurnInit DEF IInv

(* Every step keeps the inductive invariant.                                 *)
LEMMA IInvNext == IInv /\ [Next]_vars => IInv'
BY TypeNext, OneTurnNext, EntriesNext, HandlesNext, SignalsNext DEF IInv, Signals

(* The inductive invariant holds in every reachable state.                   *)
LEMMA IInvAlways == Spec => []IInv
BY IInvInit, IInvNext, PTL DEF Spec

(* No interleaving of cancel or close with the start of a turn loses the     *)
(* cancellation of a turn whose entry was already reset (manager.rs signal,  *)
(* send).                                                                    *)
THEOREM SignalSurvivesAlways == Spec => []SignalSurvives
<1>1. IInv => SignalSurvives
  BY DEF IInv
<1>2. QED
  BY <1>1, IInvAlways, PTL

(* A signal never reaches another session's turn, nor one that is over       *)
(* (manager.rs Table::touch, send, signal).                                  *)
THEOREM EntryOfOneTurnAlways == Spec => []EntryOfOneTurn
<1>1. IInv => EntryOfOneTurn
  BY DEF IInv, EntryOneSession, Handles, PublishedPhases, EntryOfOneTurn
<1>2. QED
  BY <1>1, IInvAlways, PTL

-----------------------------------------------------------------------------
(* The sweep. *)

(* The session of a turn is in the gate, so `touch` finds its entry again. *)
LEMMA TouchSparesTurns ==
    ASSUME TypeOK, OneTurn, NEW u, NEW s \in Sessions, NEW e \in Entries, Touch(u, s, e),
           NEW t \in Calls, Armed(t), byId[session[t]] = entry[t]
    PROVE  byId'[session[t]] = entry[t]
<1>1. session[t] \in gate /\ session[t] \in Sessions /\ entry[t] # None
  BY DEF TypeOK, CallsOK, OneTurn, Armed, ArmedPhases, Holding, HoldingPhases, TurnPhases,
         WithEntry
<1>2. Swept[session[t]] = entry[t]
  BY <1>1 DEF Swept
<1>3. QED
  BY <1>1, <1>2 DEF Touch, Swept

(* No step but Table::close and a restart unloads the entry of an armed turn. *)
LEMMA UnloadedByCloseNext == TypeOK /\ OneTurn /\ [Next]_vars => [UnloadedByClose]_vars
<1> SUFFICES ASSUME TypeOK, OneTurn, [Next]_vars, NEW t \in Calls, Armed(t),
                    byId[session[t]] = entry[t], byId'[session[t]] # entry[t]
             PROVE  session[t] \in closed' \/ pc'[t] = "idle"
  BY DEF UnloadedByClose
<1>1. ASSUME NEW c \in Calls, NEW e \in Entries, OpenTouch(c, e) \/ SendTouch(c, e) \/ ResumeTouch(c, e)
      PROVE  FALSE
  <2>1. session[c] \in Sessions
    BY <1>1 DEF OpenTouch, SendTouch, ResumeTouch, TypeOK, CallsOK
  <2>2. QED
    BY <1>1, <2>1, TouchSparesTurns DEF OpenTouch, SendTouch, ResumeTouch
<1>2. ASSUME NEW c \in Calls, CloseTable(c) PROVE session[t] \in closed'
  BY <1>2 DEF CloseTable, TypeOK, TableOK, CallsOK
<1>3. CASE Restart
  BY <1>3 DEF Restart
<1>4. CASE byId' = byId
  BY <1>4
<1>5. CASE /\ byId' # byId
           /\ ~Restart
           /\ \A c \in Calls : ~CloseTable(c)
           /\ \A c \in Calls, e \in Entries :
                 ~OpenTouch(c, e) /\ ~SendTouch(c, e) /\ ~ResumeTouch(c, e)
  <2>1. ASSUME NEW c \in Calls PROVE ~Requests(c) /\ ~Abandon(c)
    BY <1>5 DEF Requests, OpenCheck, SendRead, CancelRead, ResumeRead, CloseRead, Abandon
  <2>2. ASSUME NEW c \in Calls PROVE ~OpenStep(c) /\ ~SendStep(c)
    BY <1>5 DEF OpenStep, OpenSave, OpenStamp, OpenRegister, SendStep, SendIsClosed, SendBegin,
                SendClear, SendReset
  <2>3. ASSUME NEW c \in Calls PROVE ~TurnStep(c) /\ ~RunEnds(c) /\ ~TurnDelta(c)
    BY <1>5 DEF TurnStep, RunEnds, TurnDelta, TurnAssemblyFails, TurnPublish, TurnCheck,
                TurnStarts, TurnEnded, TurnDrop, TurnSave, TurnFails
  <2>4. ASSUME NEW c \in Calls PROVE ~CancelStep(c) /\ ~ResumeStep(c) /\ ~CloseStep(c)
    BY <1>5 DEF CancelStep, CancelLook, CancelFetch, CancelApply, ApplySignal, ResumeStep,
                ResumeContext, ResumeRegister, ResumeReopen, CloseStep, CloseLook, CloseFetch,
                CloseApply, CloseHubSlot, CloseHubSubject
  <2>5. ~Subscriptions
    BY <1>5 DEF Subscriptions, SubscribeRead, Subscribe, Receive, Unsubscribe
  <2>6. ASSUME NEW s \in Sessions PROVE ~GrowIdle(s) /\ ~PurgeSession(s)
    BY <1>5 DEF GrowIdle, PurgeSession
  <2>7. vars' # vars
    BY <1>5 DEF vars
  <2>8. QED
    BY <1>5, <2>1, <2>2, <2>3, <2>4, <2>5, <2>6, <2>7 DEF Next, CallStep, Environment
<1>6. QED
  BY <1>1, <1>2, <1>3, <1>4, <1>5

(* The sweep of idle entries never unloads the entry of a turn, so a cancel  *)
(* always finds it until a close unloads it (manager.rs Table::sweep).       *)
THEOREM SweepSparesTurnsAlways == Spec => SweepSparesTurns
<1>1. IInv => TypeOK /\ OneTurn
  BY DEF IInv
<1>2. QED
  BY <1>1, IInvAlways, UnloadedByCloseNext, PTL DEF Spec, SweepSparesTurns

-----------------------------------------------------------------------------
(* The context of a row.  A context belongs to a row, and an open that has   *)
(* not stamped its row yet is alone on an identifier that has no context.    *)

(* An `open` between the draw of its identifier and the stamp of its context. *)
Stamping(c) == pc[c] \in {"open_save", "open_stamp"}

(* What is known of a row while an `open` is still stamping it.              *)
Rows ==
    /\ \A s \in Sessions : context[s] # None => owner[s] # None /\ s \in minted
    /\ \A c \in Calls : Stamping(c) => session[c] \in minted /\ context[session[c]] = None
    /\ \A c, d \in Calls : Stamping(c) /\ Stamping(d) /\ session[c] = session[d] => c = d

(* Steps that leave the database alone and start no open. *)
LEMMA OutsideRows ==
    ASSUME Rows, UNCHANGED rowVars,
           \A c \in Calls : Stamping(c)' => Stamping(c) /\ session'[c] = session[c]
    PROVE  Rows' /\ ContextKept
BY DEF Rows, ContextKept

(* Saving writes the subject of a row and nothing of its context. *)
LEMMA SaveKeepsRows ==
    ASSUME TypeOK, Rows, NEW c \in Calls, pc[c] # "idle", Save(subject[c], session[c]),
           session' = session, \A d \in Calls : Stamping(d)' => Stamping(d)
    PROVE  Rows' /\ ContextKept
<1>1. subject[c] # None /\ owner \in [Sessions -> Subjects \cup {None}]
  BY DEF TypeOK, CallsOK, RowsOK
<1>2. QED
  BY <1>1 DEF Save, Rows, ContextKept

(* An identifier is drawn once, so the row an open stamps is its own. *)
LEMMA OpenKeepsRows ==
    ASSUME TypeOK, Rows, NEW c \in Calls, OpenStep(c)
    PROVE  Rows' /\ ContextKept
<1> USE DEF Goto, Return, Stamping
<1> /\ pc \in [Calls -> CallPhases] /\ session \in [Calls -> Sessions \cup {None}]
    /\ context \in [Sessions -> Contexts \cup {None}]
  BY DEF TypeOK, CallsOK, RowsOK
<1>1. CASE OpenSave(c)
  BY <1>1, SaveKeepsRows DEF OpenSave
<1>2. ASSUME NEW x \in Contexts, OpenStamp(c, x) PROVE Rows' /\ ContextKept
  <2>1. /\ Stamping(c) /\ session[c] \in Sessions /\ subject[c] # None
        /\ session[c] \in minted /\ context[session[c]] = None
    BY <1>2 DEF OpenStamp, Rows, TypeOK, CallsOK
  <2>2. /\ owner' = owner /\ minted' = minted /\ session' = session
        /\ \A d \in Calls : Stamping(d)' => Stamping(d) /\ d # c
    BY <1>2 DEF OpenStamp
  <2>3. \A d \in Calls : Stamping(d)' => session[d] # session[c]
    BY <2>1, <2>2 DEF Rows
  <2>4. \A s \in Sessions :
           \/ context'[s] = context[s]
           \/ s = session[c] /\ owner[s] = subject[c]
    BY <1>2 DEF OpenStamp, StampContext
  <2>5. \A d \in Calls : Stamping(d)' => session[d] \in Sessions
    BY <2>2 DEF TypeOK, CallsOK
  <2>6. Rows'
    BY <2>1, <2>2, <2>3, <2>4, <2>5 DEF Rows
  <2>7. ContextKept
    BY <2>1, <2>4 DEF ContextKept
  <2>8. QED
    BY <2>6, <2>7
<1>3. CASE OpenRegister(c)
  BY <1>3, OutsideRows DEF OpenRegister
<1>4. ASSUME NEW e \in Entries, OpenTouch(c, e) PROVE Rows' /\ ContextKept
  BY <1>4, OutsideRows DEF OpenTouch
<1>5. QED
  BY <1>1, <1>2, <1>3, <1>4 DEF OpenStep

(* The first step of a handler writes no row; `open` only draws an identifier. *)
LEMMA RequestsKeepRows ==
    ASSUME TypeOK, Rows, NEW c \in Calls, Requests(c)
    PROVE  Rows' /\ ContextKept
<1> USE DEF Enter, Stamping
<1> pc \in [Calls -> CallPhases] /\ session \in [Calls -> Sessions \cup {None}]
  BY DEF TypeOK, CallsOK
<1>1. ASSUME NEW u \in Subjects, NEW s \in Sessions, OpenCheck(c, u, s)
      PROVE  Rows' /\ ContextKept
  BY <1>1 DEF OpenCheck, Rows, ContextKept
<1>2. ASSUME NEW u \in Subjects, NEW s \in Sessions,
             SendRead(c, u, s) \/ CancelRead(c, u, s) \/ ResumeRead(c, u, s) \/ CloseRead(c, u, s)
      PROVE  Rows' /\ ContextKept
  BY <1>2, OutsideRows DEF SendRead, CancelRead, ResumeRead, CloseRead
<1>3. QED
  BY <1>1, <1>2 DEF Requests

(* Every step keeps the agreement of rows and opens, and changes no context. *)
LEMMA RowsNext == TypeOK /\ Rows /\ [Next]_vars => Rows' /\ [ContextKept]_vars
<1> SUFFICES ASSUME TypeOK, Rows, [Next]_vars PROVE Rows' /\ ContextKept
  OBVIOUS
<1> USE DEF Goto, Return, After, Stamping
<1> pc \in [Calls -> CallPhases] /\ session \in [Calls -> Sessions \cup {None}]
  BY DEF TypeOK, CallsOK
<1>1. ASSUME NEW c \in Calls, SendStep(c) PROVE Rows' /\ ContextKept
  BY <1>1, OutsideRows
  DEF SendStep, SendIsClosed, SendBegin, TryBegin, SendTouch, SendClear, SendReset
<1>2. ASSUME NEW c \in Calls, TurnStep(c) \/ TurnFails(c) \/ TurnDelta(c)
      PROVE  Rows' /\ ContextKept
  BY <1>2, OutsideRows
  DEF TurnStep, TurnFails, TurnDelta, TurnAssemblyFails, TurnPublish, TurnCheck, TurnStarts,
      TurnEnded, TurnDrop
<1>3. ASSUME NEW c \in Calls, TurnSave(c) PROVE Rows' /\ ContextKept
  BY <1>3, SaveKeepsRows DEF TurnSave
<1>4. ASSUME NEW c \in Calls, CancelStep(c) PROVE Rows' /\ ContextKept
  BY <1>4, OutsideRows
  DEF CancelStep, CancelLook, CancelFetch, CancelApply, FetchEntry, ApplySignal
<1>5. ASSUME NEW c \in Calls, ResumeStep(c) \/ Abandon(c) PROVE Rows' /\ ContextKept
  BY <1>5, OutsideRows
  DEF ResumeStep, ResumeContext, ResumeRegister, ResumeReopen, ResumeTouch, Abandon
<1>6. ASSUME NEW c \in Calls, CloseStep(c) PROVE Rows' /\ ContextKept
  BY <1>6, OutsideRows
  DEF CloseStep, CloseLook, CloseFetch, CloseApply, FetchEntry, ApplySignal, CloseHubSlot,
      CloseHubSubject, CloseTable
<1>7. CASE Restart
  BY <1>7, OutsideRows DEF Restart
<1>8. ASSUME NEW s \in Sessions, PurgeSession(s) PROVE Rows' /\ ContextKept
  <2>1. /\ owner \in [Sessions -> Subjects \cup {None}]
        /\ context \in [Sessions -> Contexts \cup {None}]
        /\ \A c \in Calls : Stamping(c) => session[c] \in Sessions
    BY DEF TypeOK, RowsOK, CallsOK
  <2>2. /\ owner' = [owner EXCEPT ![s] = None] /\ context' = [context EXCEPT ![s] = None]
        /\ minted' = minted /\ pc' = pc /\ session' = session
    BY <1>8 DEF PurgeSession
  <2>3. QED
    BY <2>1, <2>2 DEF Rows, ContextKept
<1>9. CASE Subscriptions \/ (\E s \in Sessions : GrowIdle(s)) \/ UNCHANGED vars
  BY <1>9, OutsideRows
  DEF Subscriptions, SubscribeRead, Subscribe, Receive, Unsubscribe, GrowIdle, vars
<1>10. QED
  BY <1>1, <1>2, <1>3, <1>4, <1>5, <1>6, <1>7, <1>8, <1>9, OpenKeepsRows, RequestsKeepRows
  DEF Next, CallStep, RunEnds, Environment

(* An empty database agrees with an empty set of opens.                      *)
LEMMA RowsInit == Init => Rows
BY DEF Init, Rows, Stamping

(* The context chosen at the opening is never lost nor replaced as long as   *)
(* the row lives, although every turn saves the whole session and two opens  *)
(* may run at once (session.rs save, manager.rs stamp_context).              *)
THEOREM ContextImmutableAlways == Spec => ContextImmutable
<1>1. Init => TypeOK /\ Rows
  BY TypeInit, RowsInit
<1>2. TypeOK /\ Rows /\ [Next]_vars => (TypeOK /\ Rows)'
  BY TypeNext, RowsNext
<1>3. QED
  BY <1>1, <1>2, RowsNext, PTL DEF Spec, ContextImmutable
-----------------------------------------------------------------------------
(* What a subscription hears.  Only a turn emits, the gate lets one of them  *)
(* run on a session, and the sink of run_turn begins with TurnStarted: so on *)
(* a subscription that can still hear a turn, what it heard last is of that  *)
(* turn and not its end, or it has read everything.                          *)

Messages == [kind : {"started", "delta", "ended"}, turn : Calls]

(* A turn between its TurnStarted and its TurnEnded. *)
Speaking(t) == pc[t] \in {"turn_run", "turn_saved"}

(* A subscription that is attached to the channel the turn broadcasts on. *)
Hears(r, t) == at[r] = "live" /\ r \in linked /\ about[r] = session[t]

(* TurnsNotMixed, of one queue. *)
Unmixed(q) ==
    \A i \in 1 .. (Len(q) - 1) :
        \/ q[i + 1].kind = "started"
        \/ q[i + 1].turn = q[i].turn /\ q[i].kind # "ended"

(* The queue ends in the middle of turn t, or is empty. *)
LeftIn(q, t) == q # <<>> => q[Len(q)].turn = t /\ q[Len(q)].kind # "ended"

Voices ==
    /\ HubInv(Messages)
    /\ \A r \in Receivers : Unmixed(queue[r])
    /\ \A r \in Receivers, t \in Calls : Hears(r, t) /\ Speaking(t) => LeftIn(queue[r], t)

(* An event may follow what a queue holds when it begins a turn, or when it  *)
(* goes on with the turn the queue ends in.                                  *)
LEMMA PushedUnmixed ==
    ASSUME NEW q \in Seq(Messages), NEW e \in Messages, Len(q) <= Capacity, Unmixed(q),
           e.kind = "started" \/ LeftIn(q, e.turn)
    PROVE  /\ Unmixed(Pushed(q, e))
           /\ e.kind # "ended" => LeftIn(Pushed(q, e), e.turn)
<1>1. PICK lost \in 0 .. 1 : lost = 1 <=> Len(q) = Capacity
  OBVIOUS
<1> DEFINE p == Pushed(q, e)
<1>2. /\ p \in Seq(Messages)
      /\ \A i \in 1 .. Len(q) + 1 - lost :
            p[i] = IF i = Len(q) + 1 - lost THEN e ELSE q[i + lost]
  BY <1>1, PushedElements
<1>3. PICK n \in Nat : n = Len(q)
  OBVIOUS
<1>4. Len(p) = n + 1 - lost /\ Len(p) \in Nat \ {0}
  BY <1>1, <1>3, PushedLength, CapacityAssumption
<1>5. p[Len(p)] = e /\ p # <<>>
  BY <1>2, <1>3, <1>4
<1>6. ASSUME NEW i \in 1 .. (Len(p) - 1)
      PROVE  p[i + 1].kind = "started" \/ (p[i + 1].turn = p[i].turn /\ p[i].kind # "ended")
  <2>1. i \in 1 .. n - lost /\ i + lost \in 1 .. n /\ p[i] = q[i + lost]
    BY <1>1, <1>2, <1>3, <1>4
  <2>2. CASE i + lost = n
    <3>1. p[i + 1] = e /\ p[i] = q[Len(q)] /\ q # <<>>
      BY <1>2, <1>3, <1>4, <2>1, <2>2
    <3>2. QED
      BY <3>1 DEF LeftIn
  <2>3. CASE i + lost # n
    <3>1. i + lost \in 1 .. (Len(q) - 1) /\ p[i + 1] = q[(i + lost) + 1]
      BY <1>2, <1>3, <1>4, <2>1, <2>3
    <3>2. QED
      BY <2>1, <3>1 DEF Unmixed
  <2>4. QED
    BY <2>2, <2>3
<1>7. QED
  BY <1>5, <1>6 DEF Unmixed, LeftIn

(* Reading the oldest event changes neither the order nor the last one. *)
LEMMA TailUnmixed ==
    ASSUME NEW q \in Seq(Messages), q # <<>>, Unmixed(q)
    PROVE  /\ Unmixed(Tail(q))
           /\ \A t \in Calls : LeftIn(q, t) => LeftIn(Tail(q), t)
<1>1. PICK n \in Nat : n + 1 = Len(q)
  <2>1. Len(q) \in Nat \ {0}
    OBVIOUS
  <2>2. Len(q) - 1 \in Nat /\ (Len(q) - 1) + 1 = Len(q)
    BY <2>1
  <2>3. QED
    BY <2>2
<1>2. Tail(q) \in Seq(Messages) /\ Len(Tail(q)) = n /\ \A i \in 1 .. n : Tail(q)[i] = q[i + 1]
  BY <1>1
<1>3. Unmixed(Tail(q))
  BY <1>1, <1>2 DEF Unmixed
<1>4. ASSUME NEW t \in Calls, LeftIn(q, t) PROVE LeftIn(Tail(q), t)
  <2>1. CASE Tail(q) = <<>>
    BY <2>1 DEF LeftIn
  <2>2. CASE Tail(q) # <<>>
    <3>1. n \in 1 .. n
      BY <1>2, <2>2
    <3>2. Tail(q)[Len(Tail(q))] = q[Len(q)]
      BY <1>1, <1>2, <3>1
    <3>3. QED
      BY <1>4, <3>2 DEF LeftIn
  <2>3. QED
    BY <2>1, <2>2
<1>5. QED
  BY <1>3, <1>4

(* Nothing broadcast and no turn that begins to speak: whatever the channels *)
(* and the subscriptions do, a queue keeps its end or is empty.              *)
LEMMA SilentKeepsVoices ==
    ASSUME Voices, HubInv(Messages)',
           \A r \in Receivers : queue'[r] \in {queue[r], <<>>}
                                  \/ (queue[r] # <<>> /\ queue'[r] = Tail(queue[r])),
           \A r \in Receivers : at'[r] = "live" /\ r \in linked' /\ queue'[r] # <<>> =>
                                  at[r] = "live" /\ r \in linked /\ about'[r] = about[r],
           \A t \in Calls : Speaking(t)' => Speaking(t) /\ session'[t] = session[t]
    PROVE  Voices'
<1>1. ASSUME NEW r \in Receivers
      PROVE  Unmixed(queue'[r]) /\ \A t \in Calls : LeftIn(queue[r], t) => LeftIn(queue'[r], t)
  <2>1. queue[r] \in Seq(Messages) /\ Unmixed(queue[r])
    BY DEF Voices, HubInv
  <2>2. Unmixed(<<>>) /\ \A t \in Calls : LeftIn(<<>>, t)
    <3>1. Len(<<>>) = 0
      OBVIOUS
    <3>2. QED
      BY <3>1 DEF Unmixed, LeftIn
  <2>3. QED
    BY <2>1, <2>2, TailUnmixed
<1>2. ASSUME NEW r \in Receivers, NEW t \in Calls, Hears(r, t)', Speaking(t)'
      PROVE  LeftIn(queue'[r], t)
  <2>1. CASE queue'[r] = <<>>
    BY <2>1 DEF LeftIn
  <2>2. CASE queue'[r] # <<>>
    BY <1>1, <1>2, <2>2 DEF Voices, Hears
  <2>3. QED
    BY <2>1, <2>2
<1>3. QED
  BY <1>1, <1>2 DEF Voices

(* A step of the manager that leaves the channels and the subscriptions      *)
(* alone, and starts no turn.                                                *)
LEMMA QuietKeepsVoices ==
    ASSUME Voices, UNCHANGED <<slots, recvVars>>,
           \A t \in Calls : Speaking(t)' => Speaking(t) /\ session'[t] = session[t]
    PROVE  Voices'
<1>1. HubInv(Messages)'
  BY QuietKeepsHub DEF Voices
<1>2. QED
  BY <1>1, SilentKeepsVoices DEF recvVars

(* The broadcast of a turn: it begins with this event, or is speaking. *)
LEMMA EmitKeepsVoices ==
    ASSUME TypeOK, OneTurn, Voices, NEW c \in Calls,
           NEW kind \in {"started", "delta", "ended"}, EmitOf(c, kind),
           kind = "started" \/ Speaking(c), Holding(c),
           \A t \in Calls \ {c} : pc'[t] = pc[t], session' = session,
           Speaking(c)' => kind # "ended"
    PROVE  Voices'
<1> DEFINE e == [kind |-> kind, turn |-> c]
<1>1. e \in Messages /\ e.kind = kind /\ e.turn = c
  BY DEF Messages
<1>2. session[c] \in Sessions /\ Emit(session[c], e)
  BY DEF TypeOK, CallsOK, EmitOf, Holding, HoldingPhases, TurnPhases
<1>3. HubInv(Messages)'
  BY <1>1, <1>2, EmitKeepsHub DEF Voices
<1>4. ASSUME NEW t \in Calls, t # c, Speaking(t) PROVE session[t] # session[c]
  BY <1>4 DEF OneTurn, Holding, HoldingPhases, TurnPhases, Speaking
<1>5. ASSUME NEW r \in Receivers
      PROVE  /\ Unmixed(queue'[r])
             /\ \A t \in Calls : Hears(r, t)' /\ Speaking(t)' => LeftIn(queue'[r], t)
  <2>1. /\ at'[r] = at[r] /\ about'[r] = about[r]
        /\ r \in linked' => r \in linked
        /\ r \in linked' /\ at[r] = "live" /\ about[r] = session[c] => r \in Attached(session[c])
        /\ r \in Attached(session[c]) => queue'[r] = Pushed(queue[r], e)
        /\ r \notin Attached(session[c]) => queue'[r] = queue[r]
    BY <1>1, <1>2, EmitReaches DEF Voices
  <2>2. /\ queue[r] \in Seq(Messages) /\ Len(queue[r]) <= Capacity
        /\ Unmixed(queue[r])
    BY DEF Voices, HubInv
  <2>3. CASE r \in Attached(session[c])
    <3>1. about[r] = session[c] /\ Hears(r, c)
      BY <2>3 DEF Attached, Hears
    <3>2. e.kind = "started" \/ LeftIn(queue[r], e.turn)
      BY <1>1, <3>1 DEF Voices
    <3>3. /\ Unmixed(Pushed(queue[r], e))
          /\ e.kind # "ended" => LeftIn(Pushed(queue[r], e), e.turn)
      BY <1>1, <2>2, <3>2, PushedUnmixed
    <3>4. ASSUME NEW t \in Calls, Hears(r, t)', Speaking(t)' PROVE t = c
      BY <1>4, <2>1, <3>1, <3>4 DEF Hears, Speaking
    <3>5. QED
      BY <1>1, <2>1, <2>3, <3>3, <3>4
  <2>4. CASE r \notin Attached(session[c])
    <3>1. ASSUME NEW t \in Calls, Hears(r, t)', Speaking(t)' PROVE Hears(r, t) /\ Speaking(t)
      BY <2>1, <2>4, <3>1 DEF Hears, Speaking
    <3>2. QED
      BY <2>1, <2>2, <2>4, <3>1 DEF Voices
  <2>5. QED
    BY <2>3, <2>4
<1>6. QED
  BY <1>3, <1>5 DEF Voices

(* What a turn does while it runs, and when it ends. *)
LEMMA TurnKeepsVoices ==
    ASSUME TypeOK, OneTurn, Voices, NEW c \in Calls, TurnStep(c) \/ RunEnds(c) \/ TurnDelta(c)
    PROVE  Voices'
<1> USE DEF Goto, Return
<1> pc \in [Calls -> CallPhases] /\ session \in [Calls -> Sessions \cup {None}]
  BY DEF TypeOK, CallsOK
<1>1. CASE TurnStarts(c)
  BY <1>1, EmitKeepsVoices DEF TurnStarts, Holding, HoldingPhases, TurnPhases, Speaking
<1>2. CASE TurnDelta(c)
  BY <1>2, EmitKeepsVoices DEF TurnDelta, Holding, HoldingPhases, TurnPhases, Speaking
<1>3. CASE TurnEnded(c)
  BY <1>3, EmitKeepsVoices DEF TurnEnded, Holding, HoldingPhases, TurnPhases, Speaking
<1>4. CASE TurnAssemblyFails(c) \/ TurnPublish(c) \/ TurnCheck(c) \/ TurnDrop(c) \/ RunEnds(c)
  BY <1>4, QuietKeepsVoices
  DEF TurnAssemblyFails, TurnPublish, TurnCheck, TurnDrop, RunEnds, TurnSave, TurnFails,
      Speaking, hubVars, recvVars
<1>5. QED
  BY <1>1, <1>2, <1>3, <1>4 DEF TurnStep

(* A channel that is closed is heard no more. *)
LEMMA CloseKeepsVoices ==
    ASSUME TypeOK, Voices, NEW c \in Calls, CloseStep(c)
    PROVE  Voices'
<1> USE DEF Goto, Return, After, Speaking
<1> pc \in [Calls -> CallPhases] /\ session \in [Calls -> Sessions \cup {None}]
  BY DEF TypeOK, CallsOK
<1>1. CASE CloseHubSlot(c)
  <2>1. /\ session[c] \in Sessions /\ RemoveSlot(session[c])
        /\ UNCHANGED <<at, about, queue, lagged>>
    BY <1>1 DEF CloseHubSlot, CloseSlot, TypeOK, CallsOK
  <2>2. HubInv(Messages)'
    BY <2>1, RemoveKeepsHub DEF Voices
  <2>3. \A t \in Calls : Speaking(t)' => Speaking(t) /\ session'[t] = session[t]
    BY <1>1 DEF CloseHubSlot
  <2>4. linked' \subseteq linked
    BY <2>1 DEF RemoveSlot
  <2>5. QED
    BY <2>1, <2>2, <2>3, <2>4, SilentKeepsVoices
<1>2. CASE CloseLook(c) \/ CloseFetch(c) \/ CloseApply(c) \/ CloseHubSubject(c) \/ CloseTable(c)
  BY <1>2, QuietKeepsVoices
  DEF CloseLook, CloseFetch, CloseApply, FetchEntry, ApplySignal, CloseHubSubject, CloseSubject,
      CloseTable, hubVars, recvVars
<1>3. QED
  BY <1>1, <1>2 DEF CloseStep

(* A subscription that attaches has heard nothing yet; one that reads is     *)
(* left with the events that follow.                                         *)
LEMMA SubscriptionsKeepVoices ==
    ASSUME TypeOK, Voices, Subscriptions
    PROVE  Voices'
<1> PICK r \in Receivers :
       \/ \E u \in Subjects, s \in Sessions : SubscribeRead(r, u, s)
       \/ Subscribe(r) \/ Receive(r) \/ Unsubscribe(r)
  BY DEF Subscriptions
<1>1. HubInv(Messages)
  BY DEF Voices
<1>2. \A t \in Calls : Speaking(t)' => Speaking(t) /\ session'[t] = session[t]
  BY DEF SubscribeRead, Subscribe, Receive, Unsubscribe, Speaking
<1>3. CASE (\E u \in Subjects, s \in Sessions : SubscribeRead(r, u, s)) \/ Subscribe(r)
  <2>1. (\E s \in Sessions : Grant(r, s)) \/ Subscribing(r)
    BY <1>3 DEF SubscribeRead, Subscribe
  <2>2. HubInv(Messages)'
    BY <1>1, <2>1, SubscribeKeepsHub
  <2>3. queue' = queue /\ at[r] # "live"
    BY <2>1 DEF Grant, Subscribing, SubscribeSubject, SubscribeSlot, SubscribeReceiver
  <2>4. queue[r] = <<>>
    BY <1>1, <2>3 DEF HubInv
  <2>5. \A x \in Receivers \ {r} :
           at'[x] = at[x] /\ about'[x] = about[x] /\ (x \in linked' => x \in linked)
    <3>1. CASE \E s \in Sessions : Grant(r, s)
      BY <1>1, <3>1 DEF Grant, HubInv
    <3>2. CASE Subscribing(r)
      BY <1>1, <3>2 DEF Subscribing, SubscribeSubject, SubscribeSlot, SubscribeReceiver, HubInv
    <3>3. QED
      BY <2>1, <3>1, <3>2
  <2>6. QED
    BY <1>2, <2>2, <2>3, <2>4, <2>5, SilentKeepsVoices
<1>4. CASE Receive(r)
  <2>1. Recv(r)
    BY <1>4 DEF Receive
  <2>2. HubInv(Messages)'
    BY <1>1, <2>1, RecvKeepsHub
  <2>3. /\ about' = about /\ linked' = linked
        /\ \A x \in Receivers : at'[x] = "live" => at[x] = "live"
        /\ \A x \in Receivers :
              queue'[x] = queue[x] \/ (queue[x] # <<>> /\ queue'[x] = Tail(queue[x]))
    BY <1>1, <2>1 DEF Recv, RecvLagged, RecvEvent, RecvClosed, HubInv
  <2>4. QED
    BY <1>2, <2>2, <2>3, SilentKeepsVoices
<1>5. CASE Unsubscribe(r)
  <2>1. DropReceiver(r)
    BY <1>5 DEF Unsubscribe
  <2>2. HubInv(Messages)'
    BY <1>1, <2>1, DropKeepsHub
  <2>3. /\ linked' \subseteq linked /\ queue'[r] = <<>>
        /\ \A x \in Receivers \ {r} :
              at'[x] = at[x] /\ about'[x] = about[x] /\ queue'[x] = queue[x]
    BY <1>1, <2>1 DEF DropReceiver, HubInv
  <2>4. QED
    BY <1>2, <2>2, <2>3, SilentKeepsVoices
<1>6. QED
  BY <1>3, <1>4, <1>5

(* Every step of the manager leaves the turns apart on every subscription.   *)
LEMMA VoicesNext == TypeOK /\ OneTurn /\ Voices /\ [Next]_vars => Voices'
<1> SUFFICES ASSUME TypeOK, OneTurn, Voices, [Next]_vars PROVE Voices'
  OBVIOUS
<1> USE DEF Goto, Return, Enter, After, Speaking, hubVars, recvVars
<1> pc \in [Calls -> CallPhases] /\ session \in [Calls -> Sessions \cup {None}]
  BY DEF TypeOK, CallsOK
<1>1. ASSUME NEW c \in Calls, Requests(c) PROVE Voices'
  BY <1>1, QuietKeepsVoices DEF Requests, OpenCheck, SendRead, CancelRead, ResumeRead, CloseRead
<1>2. ASSUME NEW c \in Calls, OpenStep(c) PROVE Voices'
  BY <1>2, QuietKeepsVoices DEF OpenStep, OpenSave, OpenStamp, OpenRegister, OpenTouch
<1>3. ASSUME NEW c \in Calls, SendStep(c) PROVE Voices'
  BY <1>3, QuietKeepsVoices
  DEF SendStep, SendIsClosed, SendBegin, TryBegin, SendClear, SendReset, SendTouch
<1>4. ASSUME NEW c \in Calls, CancelStep(c) PROVE Voices'
  BY <1>4, QuietKeepsVoices
  DEF CancelStep, CancelLook, CancelFetch, CancelApply, FetchEntry, ApplySignal
<1>5. ASSUME NEW c \in Calls, ResumeStep(c) \/ Abandon(c) PROVE Voices'
  BY <1>5, QuietKeepsVoices
  DEF ResumeStep, ResumeContext, ResumeRegister, ResumeReopen, ResumeTouch, Abandon
<1>6. CASE Restart
  <2>1. \A t \in Calls : ~Speaking(t)'
    BY <1>6 DEF Restart
  <2>2. HubInv(Messages)'
    <3>1. Len(<<>>) = 0 /\ <<>> \in Seq(Messages)
      OBVIOUS
    <3>2. QED
      BY <1>6, <3>1, CapacityAssumption DEF Restart, HubInv, Phases
  <2>3. \A r \in Receivers : queue'[r] = <<>>
    BY <1>6 DEF Restart
  <2>4. QED
    BY <2>1, <2>2, <2>3, SilentKeepsVoices
<1>7. ASSUME NEW s \in Sessions, GrowIdle(s) \/ PurgeSession(s) PROVE Voices'
  BY <1>7, QuietKeepsVoices DEF GrowIdle, PurgeSession
<1>8. CASE UNCHANGED vars
  BY <1>8, QuietKeepsVoices DEF vars
<1>9. QED
  BY <1>1, <1>2, <1>3, <1>4, <1>5, <1>6, <1>7, <1>8, TurnKeepsVoices, CloseKeepsVoices,
     SubscriptionsKeepVoices
  DEF Next, CallStep, Environment

(* A new hub has said nothing. *)
LEMMA VoicesInit == Init => Voices
<1> SUFFICES ASSUME Init PROVE Voices
  OBVIOUS
<1>1. HubInv(Messages)
  BY HubInvInit DEF Init
<1>2. \A r \in Receivers : queue[r] = <<>> /\ Len(<<>>) = 0
  BY DEF Init, HubInit
<1>3. \A t \in Calls : ~Speaking(t)
  BY DEF Init, Speaking
<1>4. QED
  BY <1>1, <1>2, <1>3 DEF Voices, Unmixed

(* A client never sees two turns mixed, whatever is sent, cancelled, closed  *)
(* and resumed meanwhile, and however late it attaches or lags (hub.rs emit  *)
(* with manager.rs send).                                                    *)
THEOREM TurnsNotMixedAlways == Spec => []TurnsNotMixed
<1>1. Init => TypeOK /\ OneTurn /\ Voices
  BY TypeInit, OneTurnInit, VoicesInit
<1>2. TypeOK /\ OneTurn /\ Voices /\ [Next]_vars => (TypeOK /\ OneTurn /\ Voices)'
  BY TypeNext, OneTurnNext, VoicesNext
<1>3. TypeOK /\ OneTurn /\ Voices => TurnsNotMixed
  BY DEF Voices, Unmixed, TurnsNotMixed
<1>4. QED
  BY <1>1, <1>2, <1>3, PTL DEF Spec
=============================================================================
