------------------------------ MODULE Workflow ------------------------------
(***************************************************************************)
(* The workflow engine: the DagInterpreter that walks a graph layer by     *)
(* layer (src/workflow/interpreter.rs), the StepDispatcher that carries    *)
(* out one step (dispatcher.rs), the step kinds that act outside the       *)
(* engine or start a sub-run (matrix_step.rs, subagent_step.rs,            *)
(* subworkflow.rs), on a Restate server that journals what was decided,    *)
(* makes lost attempts again and pauses an invocation that failed too      *)
(* often.                                                                  *)
(*                                                                         *)
(* The state of a walk is rebuilt from Restate's journal, so losing a      *)
(* worker loses the attempts in progress and nothing else.                 *)
(***************************************************************************)
EXTENDS Dags

CONSTANTS Tokens,        \* what keys and ids are made of
          RootKeys,      \* run keys drawn by trigger_run: fresh UUIDs, one token each
          Graphs,        \* the graphs that may come up, sub-workflows' included
          RootDags,      \* those a caller may trigger
          Triggers,      \* subjects a run is triggered for, Nobody among them
          Nobody,        \* no trigger: a run without identity
          MaxDepth,      \* the ceiling SubWorkflowStep::new was given
          MaxTries,      \* retry_policy_max_attempts
          MaxResumes,    \* bound: manual resumptions of one paused invocation
          MaxTurns       \* max_turns of an agent's attempt

ASSUME NamesAssumption == ":" \in Tokens /\ RootKeys \subseteq {<<t>> : t \in Tokens}

ASSUME GraphsAssumption ==
    /\ RootDags \subseteq Graphs
    /\ \A dag \in Graphs :
          /\ Len(dag) \in Nat /\ DOMAIN dag = 1..Len(dag)
          /\ \A i \in DOMAIN dag :
                /\ dag[i].id \in Seq(Tokens) /\ dag[i].deps \in Seq(Seq(Tokens))
                /\ dag[i].kind = "subworkflow" => dag[i].sub \in Graphs

ASSUME BoundsAssumption ==
    MaxDepth \in Nat /\ MaxTries \in Nat \ {0} /\ MaxResumes \in Nat /\ MaxTurns \in Nat

VARIABLES run,      \* run key |-> the walk of DagInterpreter::run under that key
          inv,      \* <<run key, step id>> |-> the StepInvocation and how far it is
          msgs,     \* messages the homeserver accepted: [txn, by]
          saved     \* agent session name |-> turns its stored state holds

vars == <<run, inv, msgs, saved>>

Ended == {"done", "failed", "rejected"}
Settled == {"ok", "err"}

\* Function f with x mapped to v, x added to its domain where it is new.
Put(f, x, v) == [y \in DOMAIN f \cup {x} |-> IF y = x THEN v ELSE f[y]]

---------------------------------------------------------------------------
(* Names.  A key or an id is a sequence of tokens; ":" is a token an id    *)
(* may hold as well, since validate_dag takes any string as an id.         *)

ChildRunKey(k, s) == k \o <<":">> \o s

\* sha256(run_key, NUL, step_id): one name per pair.
TxnIdOfAttempt(k, s) == <<k, s, inv[<<k, s>>].tries>>   \* variant

TxnId(k, s) == <<k, s>>

SessionName(k, s) == <<k, s>>

---------------------------------------------------------------------------
(* Runs *)

NewRun(dag, depth, trigger) ==
    [dag |-> dag, depth |-> depth, trigger |-> trigger,
     status |-> "new", asked |-> {}, got |-> {}]

BuildInvocation(k, s) ==
    LET step == StepOf(run[k].dag, s)
    IN  [kind |-> step.kind, sub |-> step.sub,
         depth |-> run[k].depth, trigger |-> run[k].trigger,
         phase |-> "queued", rendered |-> FALSE, tries |-> 0, resumes |-> 0,
         base |-> 0, turns |-> 0]

Init ==
    /\ run = << >>
    /\ inv = << >>
    /\ msgs = {}
    /\ saved = << >>

\* client::trigger_run, with a key that was never used.
TriggerRun(k, dag, trigger) ==
    /\ k \notin DOMAIN run
    /\ run' = Put(run, k, NewRun(dag, 0, trigger))
    /\ UNCHANGED <<inv, msgs, saved>>

\* Step 1 of DagInterpreter::run: whoever sent the graph, it is validated.
Validate(k) ==
    /\ run[k].status = "new"
    /\ run' = [run EXCEPT ![k].status = IF Valid(run[k].dag) THEN "walking" ELSE "rejected"]
    /\ UNCHANGED <<inv, msgs, saved>>

\* One turn of the walk: every ready step is asked for at once, when the
\* layer before it has been collected to the last step.
AskLayer(k) ==
    /\ run[k].status = "walking"
    /\ run[k].asked = run[k].got
    /\ Cardinality(run[k].got) # Len(run[k].dag)
    /\ LET layer == ReadySteps(run[k].dag, run[k].got)
       IN  /\ run' = [run EXCEPT ![k].asked = @ \cup layer]
           /\ inv' = [p \in DOMAIN inv \cup ({k} \X layer) |->
                         IF p \in {k} \X layer THEN BuildInvocation(k, p[2]) ELSE inv[p]]
    /\ UNCHANGED <<msgs, saved>>

\* futures.next(): the answers of a layer come in any order.
Collect(k, s) ==
    /\ run[k].status = "walking"
    /\ s \in run[k].asked \ run[k].got
    /\ inv[<<k, s>>].phase = "ok"
    /\ run' = [run EXCEPT ![k].got = @ \cup {s}]
    /\ UNCHANGED <<inv, msgs, saved>>

\* Variant: a failure is waited for like an answer, and never taken.
CollectFailureNever(k, s) == FALSE /\ UNCHANGED vars

\* The first failure seen ends the run; its siblings go on unattended.
CollectFailure(k, s) ==
    /\ run[k].status = "walking"
    /\ s \in run[k].asked \ run[k].got
    /\ inv[<<k, s>>].phase = "err"
    /\ run' = [run EXCEPT ![k].status = "failed"]
    /\ UNCHANGED <<inv, msgs, saved>>

FinishRun(k) ==
    /\ run[k].status = "walking"
    /\ run[k].asked = run[k].got
    /\ Cardinality(run[k].got) = Len(run[k].dag)
    /\ run' = [run EXCEPT ![k].status = "done"]
    /\ UNCHANGED <<inv, msgs, saved>>

---------------------------------------------------------------------------
(* StepDispatcher: the attempts of one invocation p = <<run key, step id>> *)

OrdinaryKinds == {"rhai", "systemone", "matrix_send", "subagent"}
Durable(p) == inv[p].kind = "subworkflow"

Become(p, phase) == inv' = [inv EXCEPT ![p].phase = phase]

\* Variant: a policy without a ceiling on the attempts.
AgainForever(p) ==
    inv' = [inv EXCEPT ![p].tries = @ + 1, ![p].base = 0, ![p].turns = 0, ![p].phase = "queued"]

\* A failed attempt is made again until the policy pauses the invocation.
Again(p) ==
    inv' = [inv EXCEPT ![p].tries = @ + 1, ![p].base = 0, ![p].turns = 0,
                       ![p].phase = IF inv[p].tries + 1 >= MaxTries THEN "paused" ELSE "queued"]

\* run_step up to the kind's own run.  The rendered configuration of a durable
\* kind is journaled before the kind starts, so a later attempt finds it.
Begin(p) ==
    /\ inv[p].phase = "queued"
    /\ \/ /\ Durable(p)
          /\ inv' = [inv EXCEPT ![p].phase = "running", ![p].rendered = TRUE]
       \/ /\ inv[p].kind \in OrdinaryKinds
          /\ Become(p, "running")
       \/ /\ inv[p].kind \notin OrdinaryKinds \cup {"subworkflow"}
          /\ Become(p, "err")                               \* 404, unknown kind
    /\ UNCHANGED <<run, msgs, saved>>

\* A template of the configuration that does not render.
RenderFails(p) ==
    /\ inv[p].phase = "queued"
    /\ inv[p].kind \in OrdinaryKinds \/ (Durable(p) /\ ~inv[p].rendered)
    /\ Become(p, "err")
    /\ UNCHANGED <<run, msgs, saved>>

\* The kind's run gave a value, which Restate journals as the step's answer.
\* A script and a judge answer out of a pure attempt, a message is answered once
\* the homeserver has it, an agent once it has submitted something.
Answer(p) ==
    /\ \/ inv[p].kind \in {"rhai", "systemone"} /\ inv[p].phase = "running"
       \/ inv[p].kind = "matrix_send" /\ inv[p].phase = "acted"
       \/ inv[p].kind = "subagent" /\ inv[p].phase = "acted" /\ inv[p].turns > 0
    /\ Become(p, "ok")
    /\ UNCHANGED <<run, msgs, saved>>

\* A script that is not well configured, fails or runs out of time.
ScriptFails(p) == inv[p].kind = "rhai" /\ inv[p].phase = "running"

\* A gate that is not passed, or an answer that has nothing to compare.
JudgeRefuses(p) == inv[p].kind = "systemone" /\ inv[p].phase = "running"

\* A message that is malformed, or that the homeserver will not take.
SendRefused(p) == inv[p].kind = "matrix_send" /\ inv[p].phase \in {"running", "acted"}

\* An agent that cannot be prepared, and anything that happens to its run.
AgentFails(p) == inv[p].kind = "subagent" /\ inv[p].phase \in {"running", "acted"}

\* StepError { retryable: false }.
Refuse(p) ==
    /\ ScriptFails(p) \/ JudgeRefuses(p) \/ SendRefused(p) \/ AgentFails(p)
    /\ Become(p, "err")
    /\ UNCHANGED <<run, msgs, saved>>

\* StepError { retryable: true }: a service that does not answer, the database
\* under an agent that has not started.
Transient(p) ==
    /\ \/ inv[p].kind = "systemone" /\ inv[p].phase = "running"
       \/ inv[p].kind = "matrix_send" /\ inv[p].phase \in {"running", "acted"}
       \/ /\ inv[p].kind = "subagent" /\ inv[p].phase = "running"
          /\ inv[p].trigger # Nobody
    /\ Again(p)
    /\ UNCHANGED <<run, msgs, saved>>

\* The worker stops, or is told to, before the answer is journaled.
LoseAttempt(p) ==
    /\ inv[p].phase \in {"running", "acted"}
    /\ Again(p)
    /\ UNCHANGED <<run, msgs, saved>>

\* An operator resumes a paused invocation.
Resume(p) ==
    /\ inv[p].phase = "paused"
    /\ inv[p].resumes < MaxResumes
    /\ inv' = [inv EXCEPT ![p].phase = "queued", ![p].tries = 0, ![p].resumes = @ + 1]
    /\ UNCHANGED <<run, msgs, saved>>

---------------------------------------------------------------------------
(* The kinds *)

\* The homeserver takes a transaction it has not seen and repeats its answer to
\* one it has.
Post(p) ==
    LET txn == TxnId(p[1], p[2])
    IN  /\ inv[p].kind = "matrix_send"
        /\ inv[p].phase = "running"
        /\ msgs' = IF \E m \in msgs : m.txn = txn THEN msgs
                                                  ELSE msgs \cup {[txn |-> txn, by |-> p]}
        /\ Become(p, "acted")
        /\ UNCHANGED <<run, saved>>

\* Variant: every attempt opens a new session.
RestoredNothing(p) == 0

\* restore_or_new: the turns the agent goes on from.
RestoredTurns(p) ==
    LET name == SessionName(p[1], p[2])
    IN  IF name \in DOMAIN saved THEN saved[name] ELSE 0

\* A run with no trigger has no identity an agent could act under.
StartAgent(p) ==
    /\ inv[p].kind = "subagent"
    /\ inv[p].phase = "running"
    /\ inv[p].trigger # Nobody
    /\ inv' = [inv EXCEPT ![p].phase = "acted", ![p].base = RestoredTurns(p)]
    /\ UNCHANGED <<run, msgs, saved>>

\* run_batch, of the library lymaille: each turn ends with the session saved in
\* the store that the step gave it.
AgentTurn(p) ==
    /\ inv[p].kind = "subagent"
    /\ inv[p].phase = "acted"
    /\ inv[p].turns < MaxTurns
    /\ inv' = [inv EXCEPT ![p].turns = @ + 1]
    /\ saved' = Put(saved, SessionName(p[1], p[2]), inv[p].base + inv[p].turns + 1)
    /\ UNCHANGED <<run, msgs>>

\* Variant: the child's depth is not checked.
PreparedAtAnyDepth(p) == Valid(inv[p].sub)

\* prepare: what the sub-workflow step checks before it calls the engine.
Prepared(p) == inv[p].depth + 1 <= MaxDepth /\ Valid(inv[p].sub)

RefuseChild(p) ==
    /\ Durable(p)
    /\ inv[p].phase = "running"
    /\ ~Prepared(p)
    /\ Become(p, "err")
    /\ UNCHANGED <<run, msgs, saved>>

\* run_child_dag: Restate starts a run under the child's key, or attaches the
\* call to the run the key already has.
CallChild(p) ==
    LET child == ChildRunKey(p[1], p[2])
    IN  /\ Durable(p)
        /\ inv[p].phase = "running"
        /\ Prepared(p)
        /\ Become(p, "waiting")
        /\ run' = IF child \in DOMAIN run THEN run
                  ELSE Put(run, child, NewRun(inv[p].sub, inv[p].depth + 1, inv[p].trigger))
        /\ UNCHANGED <<msgs, saved>>

\* Variant: an ended child is taken for a child that is done.
ChildEndedAnyhow(p) ==
    /\ inv[p].phase = "waiting"
    /\ run[ChildRunKey(p[1], p[2])].status \in Ended
    /\ Become(p, "ok")
    /\ UNCHANGED <<run, msgs, saved>>

ChildEnded(p) ==
    LET child == ChildRunKey(p[1], p[2])
    IN  /\ inv[p].phase = "waiting"
        /\ run[child].status \in Ended
        /\ Become(p, IF run[child].status = "done" THEN "ok" ELSE "err")
        /\ UNCHANGED <<run, msgs, saved>>

---------------------------------------------------------------------------
RunStep(k) ==
    \/ Validate(k) \/ AskLayer(k) \/ FinishRun(k)
    \/ \E s \in run[k].asked : Collect(k, s) \/ CollectFailure(k, s)

\* What an attempt does when its worker is left to do it.
Attempt(p) ==
    \/ Begin(p) \/ RenderFails(p) \/ Answer(p) \/ Refuse(p) \/ Transient(p)
    \/ Post(p) \/ StartAgent(p) \/ AgentTurn(p)
    \/ RefuseChild(p) \/ CallChild(p) \/ ChildEnded(p)

Engine ==
    \/ \E k \in DOMAIN run : RunStep(k)
    \/ \E p \in DOMAIN inv : Attempt(p)

Next ==
    \/ Engine
    \/ \E k \in RootKeys, dag \in RootDags, t \in Triggers : TriggerRun(k, dag, t)
    \/ \E p \in DOMAIN inv : LoseAttempt(p) \/ Resume(p)

\* Restate drives every run and every invocation it accepted.  Callers, losses
\* and operators owe nothing.
Spec == Init /\ [][Next]_vars /\ WF_vars(Engine)

---------------------------------------------------------------------------
(* Properties *)

Phases == {"queued", "running", "acted", "waiting", "paused"} \cup Settled

\* Every record has its fields in range, a run has been answered only what it
\* asked for, and an invocation exists exactly where a run has asked for a step.
WorkflowTypeOK ==
    /\ \A k \in DOMAIN run :
          /\ run[k].status \in {"new", "walking"} \cup Ended
          /\ run[k].depth \in Nat
          /\ run[k].got \subseteq run[k].asked
          /\ run[k].asked \subseteq StepIds(run[k].dag)
    /\ DOMAIN inv = UNION {{k} \X run[k].asked : k \in DOMAIN run}
    /\ \A p \in DOMAIN inv :
          /\ inv[p].phase \in Phases
          /\ inv[p].tries \in 0..MaxTries
          /\ inv[p].resumes \in 0..MaxResumes
          /\ inv[p].turns \in 0..MaxTurns

\* validate_dag (definition.rs) refuses exactly the graphs that cannot be walked:
\* its in-degrees and queue agree with the absence of a group of steps that waits
\* for itself, repeated dependencies and all.
RejectsTheUnwalkable ==
    \A k \in DOMAIN run :
        /\ run[k].status = "rejected" => ~Walkable(run[k].dag)
        /\ run[k].status \notin {"new", "rejected"} => Walkable(run[k].dag)

\* The walk has no guard against an empty layer (interpreter.rs, step 2): it
\* relies on the validation for one step at least to be ready each time.  An
\* empty layer would spin without an await.
NeverAnEmptyLayer ==
    \A k \in DOMAIN run :
        /\ run[k].status = "walking"
        /\ run[k].asked = run[k].got
        /\ run[k].got # StepIds(run[k].dag)
        => ReadySteps(run[k].dag, run[k].got) # {}

\* A message step posts once however many attempts it takes, and one that answered
\* has posted (matrix_step.rs: the transaction is a function of the step alone and
\* tells steps apart).
MessageOnce ==
    \A p \in DOMAIN inv :
        LET mine == {m \in msgs : m.by = p}
        IN  /\ Cardinality(mine) <= 1
            /\ inv[p].kind = "matrix_send" /\ inv[p].phase = "ok" => mine # {}

\* A run that is done is done all the way down: every step answered, and under
\* every sub-workflow step a run that is done too (subworkflow.rs, run).
DoneAllTheWayDown ==
    \A k \in DOMAIN run : run[k].status = "done" =>
        \A s \in StepIds(run[k].dag) :
            /\ <<k, s>> \in DOMAIN inv
            /\ inv[<<k, s>>].phase = "ok"
            /\ inv[<<k, s>>].kind = "subworkflow" =>
                  /\ ChildRunKey(k, s) \in DOMAIN run
                  /\ run[ChildRunKey(k, s)].status = "done"

\* However sub-workflows nest, no run is deeper than the ceiling, and all of them
\* act for the person who triggered the outermost one (subworkflow.rs, prepare;
\* durable.rs, run_child_dag).
BoundedAndForTheTrigger ==
    \A k \in DOMAIN run :
        /\ run[k].depth <= MaxDepth
        /\ <<Head(k)>> \in DOMAIN run
        /\ run[k].trigger = run[<<Head(k)>>].trigger

\* An agent's conversation is never started over: whatever is lost between two
\* attempts of its step, its stored session only grows (subagent_step.rs,
\* restore_or_new).
SessionsGoOn ==
    \A n \in DOMAIN saved : n \in DOMAIN saved' /\ saved'[n] >= saved[n]

AgentNeverStartsOver == [][SessionsGoOn]_vars

(***************************************************************************)
(* The engine keeps what DagRun promises.  The abstract run sees the       *)
(* journaled outcome of its invocations; attempts, retries, pauses and     *)
(* what has been collected so far are invisible to it.                     *)
(***************************************************************************)
WithPhase(k, phase) == {s \in run[k].asked : inv[<<k, s>>].phase = phase}

Walk == [k \in DOMAIN run |->
            [dag |-> run[k].dag, asked |-> run[k].asked,
             ok |-> WithPhase(k, "ok"), bad |-> WithPhase(k, "err"),
             end |-> IF run[k].status \in Ended THEN run[k].status ELSE "open"]]

Promise == INSTANCE DagRun WITH walk <- Walk

\* Every behaviour of the engine is a behaviour of the abstract runs (DagInterpreter
\* and StepDispatcher together).
KeepsItsPromise == Promise!Spec

Under(k, p) == Len(k) <= Len(p[1]) /\ SubSeq(p[1], 1, Len(k)) = k

\* A triggered run ends, whatever attempts are lost and however deep it nests,
\* unless one of the invocations under it is paused for an operator
\* (dispatcher.rs, recommended_options_for).
EveryRunEnds ==
    \A k \in RootKeys :
        k \in DOMAIN run ~>
            \/ k \in DOMAIN run /\ run[k].status \in Ended
            \/ \E p \in DOMAIN inv : Under(k, p) /\ inv[p].phase = "paused"

\* "la clé de workflow est unique par run : jamais de doublon" (durable.rs, of
\* child_run_key): the run a sub-workflow step waited for is the run of its own
\* graph.
ChildIsItsOwn ==
    \A p \in DOMAIN inv :
        inv[p].kind = "subworkflow" /\ inv[p].phase = "ok" =>
            run[ChildRunKey(p[1], p[2])].dag = inv[p].sub
=============================================================================
