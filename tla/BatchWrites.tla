----------------------------- MODULE BatchWrites -----------------------------
(* The writes of a batch step through the `resources` module                 *)
(* (src/lymaille/resource_module.rs) and their journal of idempotence        *)
(* (src/lymaille/store/write_journal.rs).  The step runs a script whose      *)
(* calls a model chooses; it may die at any await and be run again, with the *)
(* same journal and perhaps other calls.  One attempt runs at a time.  Other *)
(* users write the same rows meanwhile.                                      *)
(*                                                                           *)
(* A body is the value of the label column, which is unique, and the rest.   *)
(* Identifiers are drawn by the database, in order.                          *)
EXTENDS Handlers, Naturals, FiniteSets

CONSTANTS
    Labels,         \* values of the unique label column
    Contents,       \* values of the other columns
    MaxRows,        \* bound: rows ever inserted
    MaxWrites       \* MAX_WRITES_PER_RUN

ASSUME BatchAssumption == MaxRows \in Nat /\ MaxWrites \in Nat

Ids == 1 .. MaxRows
Bodies == [label : Labels, content : Contents]

Creates == [op : {"create"}, id : {0}, body : Bodies]
Updates == [op : {"update"}, id : Ids, body : Bodies]
Deletes == [op : {"delete"}, id : Ids, body : {None}]
Writes == Creates \cup Updates \cup Deletes

(* What a call answers to the script: the row, or "deleted". *)
Answers == [id : Ids, body : Bodies \cup {None}]

ASSUME NoneAssumption == None \notin Answers \cup Bodies \cup Writes

VARIABLES
    rows,           \* the table: identifier -> body, None when there is no row
    drawn,          \* identifiers drawn so far
    journal,        \* write_journal: key -> answer, None when there is none
    stepPc,         \* what the attempt is doing
    call,           \* the call it is in, None between calls
    answer,         \* the answer that call has got so far
    writes,         \* Handle::writes : calls charged in this attempt
    done            \* history: calls executed, unless their journal entry was lost

stepVars == <<stepPc, call, answer, writes>>
batchVars == <<rows, drawn, journal, stepVars, done>>

StepPhases == {"script", "replay", "write", "reread", "record"}

BatchTypeOK ==
    /\ rows \in [Ids -> Bodies \cup {None}]
    /\ drawn \in 0 .. MaxRows
    /\ journal \in [Writes -> Answers \cup {None}]
    /\ stepPc \in StepPhases
    /\ call \in Writes \cup {None}
    /\ answer \in Answers \cup {None}
    /\ stepPc = "script" <=> call = None
    /\ stepPc = "record" <=> answer # None
    /\ writes \in 0 .. MaxWrites
    /\ done \subseteq Writes

BatchInit ==
    /\ rows = [i \in Ids |-> None]
    /\ drawn = 0
    /\ journal = [w \in Writes |-> None]
    /\ stepPc = "script"
    /\ call = None
    /\ answer = None
    /\ writes = 0
    /\ done = {}

(* op_key: the operation, the identifier and the body, through a digest. *)
OpKey(w) == w

Taken(label) == \E i \in Ids : rows[i] # None /\ rows[i].label = label

(* The unique constraint refuses a label that another row has. *)
Violates(i, body) == \E j \in Ids \ {i} : rows[j] # None /\ rows[j].label = body.label

InsertRow(body) ==
    /\ drawn < MaxRows
    /\ drawn' = drawn + 1
    /\ rows' = [rows EXCEPT ![drawn + 1] = body]

-----------------------------------------------------------------------------
(* The calls of the script. *)

BackToScript ==
    /\ stepPc' = "script"
    /\ call' = None
    /\ answer' = None
    /\ UNCHANGED writes

(* charge_write comes first, whatever happens next. *)
Charge(w) ==
    /\ stepPc = "script"
    /\ writes < MaxWrites
    /\ writes' = writes + 1
    /\ stepPc' = "replay"
    /\ call' = w
    /\ UNCHANGED <<answer, rows, drawn, journal, done>>

(* replay: a journaled answer is given as it is, and nothing is written. *)
Replay ==
    /\ stepPc = "replay"
    /\ IF journal[OpKey(call)] # None
       THEN BackToScript
       ELSE stepPc' = "write" /\ UNCHANGED <<call, answer, writes>>
    /\ UNCHANGED <<rows, drawn, journal, done>>

Written(a) ==
    /\ stepPc' = "record"
    /\ answer' = a
    /\ done' = done \cup {call}
    /\ UNCHANGED <<call, writes>>

(* The write is refused: NotFound, or Conflict for an update. *)
Refused ==
    /\ BackToScript
    /\ UNCHANGED <<rows, drawn, done>>

(* rest::core::create: the row, or the violation of the unique constraint. *)
CreateRow ==
    /\ stepPc = "write"
    /\ call.op = "create"
    /\ \/ /\ ~Taken(call.body.label)
          /\ InsertRow(call.body)
          /\ Written([id |-> drawn + 1, body |-> call.body])
       \/ /\ Taken(call.body.label)
          /\ stepPc' = "reread"
          /\ UNCHANGED <<rows, drawn, done, call, answer, writes>>
    /\ UNCHANGED journal

(* Faulty: any row with this label is taken for the one created before. *)
AdoptByLabel ==
    /\ stepPc = "reread"
    /\ LET adopted == {i \in Ids : rows[i] # None /\ rows[i].label = call.body.label}
       IN  \/ /\ adopted = {}
              /\ BackToScript
           \/ \E i \in adopted :
                 /\ stepPc' = "record"
                 /\ answer' = [id |-> i, body |-> rows[i]]
                 /\ UNCHANGED <<call, writes>>
    /\ UNCHANGED <<rows, drawn, journal, done>>

(* reread_matching: the row with this label is adopted when every field of   *)
(* the body is equal to its own; otherwise the call is a Conflict.           *)
Adopt ==
    /\ stepPc = "reread"
    /\ LET adopted == {i \in Ids : rows[i] = call.body}
       IN  \/ /\ adopted = {}
              /\ BackToScript
           \/ \E i \in adopted :
                 /\ stepPc' = "record"
                 /\ answer' = [id |-> i, body |-> rows[i]]
                 /\ UNCHANGED <<call, writes>>
    /\ UNCHANGED <<rows, drawn, journal, done>>

(* rest::core::update *)
UpdateRowOf ==
    /\ stepPc = "write"
    /\ call.op = "update"
    /\ \/ /\ rows[call.id] # None
          /\ ~Violates(call.id, call.body)
          /\ rows' = [rows EXCEPT ![call.id] = call.body]
          /\ Written([id |-> call.id, body |-> call.body])
          /\ UNCHANGED drawn
       \/ /\ rows[call.id] = None \/ Violates(call.id, call.body)
          /\ Refused
    /\ UNCHANGED journal

(* rest::core::delete *)
DeleteRow ==
    /\ stepPc = "write"
    /\ call.op = "delete"
    /\ \/ /\ rows[call.id] # None
          /\ rows' = [rows EXCEPT ![call.id] = None]
          /\ Written([id |-> call.id, body |-> None])
          /\ UNCHANGED drawn
       \/ /\ rows[call.id] = None
          /\ Refused
    /\ UNCHANGED journal

(* Faulty: the answer is given before it is journaled, and forgotten. *)
RecordForgotten ==
    /\ stepPc = "record"
    /\ BackToScript
    /\ UNCHANGED <<rows, drawn, journal, done>>

(* record: the first answer stays; then it is given to the script. *)
Record ==
    /\ stepPc = "record"
    /\ journal' = [journal EXCEPT ![OpKey(call)] = IF @ = None THEN answer ELSE @]
    /\ BackToScript
    /\ UNCHANGED <<rows, drawn, done>>

-----------------------------------------------------------------------------
(* What happens to the step. *)

(* The attempt dies, or ends; the next one has a fresh count of writes.  An  *)
(* answer not recorded yet is lost.                                          *)
Rerun ==
    /\ writes' = 0
    /\ stepPc' = "script"
    /\ call' = None
    /\ answer' = None
    /\ done' = IF stepPc = "record" THEN done \ {call} ELSE done
    /\ UNCHANGED <<rows, drawn, journal>>

(* record fails (the database, or an answer above 64 KiB): `internal error`. *)
RecordFails ==
    /\ stepPc = "record"
    /\ done' = done \ {call}
    /\ BackToScript
    /\ UNCHANGED <<rows, drawn, journal>>

(* purge_before: the entries older than the retention period. *)
PurgeJournal(w) ==
    /\ journal[w] # None
    /\ journal' = [journal EXCEPT ![w] = None]
    /\ done' = done \ {w}
    /\ UNCHANGED <<stepVars, rows, drawn>>

(* Other users write through REST, MCP or an interactive session: no journal. *)
OtherWrite ==
    /\ \/ \E b \in Bodies : ~Taken(b.label) /\ InsertRow(b)
       \/ \E i \in Ids, b \in Bodies \cup {None} :
             /\ rows[i] # None
             /\ b = None \/ ~Violates(i, b)
             /\ rows' = [rows EXCEPT ![i] = b]
             /\ UNCHANGED drawn
    /\ UNCHANGED <<journal, stepVars, done>>

-----------------------------------------------------------------------------
BatchNext ==
    \/ \E w \in Writes : Charge(w) \/ PurgeJournal(w)
    \/ Replay
    \/ CreateRow \/ Adopt \/ UpdateRowOf \/ DeleteRow
    \/ Record \/ RecordFails
    \/ Rerun
    \/ OtherWrite

-----------------------------------------------------------------------------
(* An answer, given now or kept for a later attempt, is an answer to that    *)
(* very call: what was written, by the step or by another user, has the body *)
(* of the call.  A row of the same label with other contents is not taken    *)
(* for the step's own; one that is the same in every field is, whoever       *)
(* created it (resource_module.rs create; write_journal.rs op_key).          *)
Fits(a, w) == a.body = w.body /\ (w.op # "create" => a.id = w.id)

(* Every answer fits its call (resource_module.rs reread_matching, record).  *)
AnswersFitTheirCall ==
    /\ \A w \in Writes : journal[OpKey(w)] # None => Fits(journal[OpKey(w)], w)
    /\ answer # None => Fits(answer, call)

(* A call is executed again only when the journal entry of an execution was  *)
(* lost: by an attempt that died between its write and its record, by a      *)
(* failed record, or by a purge (resource_module.rs create, update, delete). *)
RedoneOnlyAfterLoss ==
    [][stepPc = "write" /\ stepPc' = "record" => call \notin done]_batchVars
=============================================================================
