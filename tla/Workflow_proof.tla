--------------------------- MODULE Workflow_proof ---------------------------
(***************************************************************************)
(* What the workflow engine guarantees for every set of graphs, every      *)
(* ceiling and every number of attempts.  The inductive invariant is the   *)
(* conjunction of Typed (the tables have their shape and speak of one      *)
(* another) with, for each property, what makes it inductive: NamesApart   *)
(* (a message is filed under its step's transaction), Lineage (a run and   *)
(* its invocations carry the root's trigger, and a depth under the         *)
(* ceiling), Outcomes (what is walked was validated, what was collected    *)
(* did succeed, and a sub-workflow step succeeded through a run that is    *)
(* done), AtWhatIsStored and IdleTakesNoTurn (an agent goes on from what   *)
(* is stored).  A part of its own proves the validation against its        *)
(* reference.  The last part maps every step to a step of DagRun, or to    *)
(* none.                                                                   *)
(***************************************************************************)
EXTENDS Workflow, FiniteSetTheorems, SequenceTheorems, WellFoundedInduction, TLAPS

AnyKind == UNION {{dag[i].kind : i \in DOMAIN dag} : dag \in Graphs}
AnySub == UNION {{dag[i].sub : i \in DOMAIN dag} : dag \in Graphs}

RunRec == [dag : Graphs, depth : Nat, trigger : Triggers,
           status : {"new", "walking", "done", "failed", "rejected"},
           asked : SUBSET Seq(Tokens), got : SUBSET Seq(Tokens)]

InvRec == [kind : AnyKind, sub : AnySub, depth : Nat, trigger : Triggers,
           phase : {"queued", "running", "acted", "waiting", "paused", "ok", "err"},
           rendered : BOOLEAN, tries : 0..MaxTries, resumes : 0..MaxResumes,
           base : Nat, turns : 0..MaxTurns]

RunsTyped ==
    /\ run \in [DOMAIN run -> RunRec]
    /\ \A k \in DOMAIN run : /\ k \in Seq(Tokens) /\ k # << >>
                             /\ run[k].got \subseteq run[k].asked
                             /\ run[k].asked \subseteq StepIds(run[k].dag)

InvsTyped ==
    /\ inv \in [DOMAIN inv -> InvRec]
    /\ \A p \in DOMAIN inv :
          /\ inv[p].kind = "subworkflow" => inv[p].sub \in Graphs
          /\ inv[p].phase # "paused" => inv[p].tries < MaxTries

Asked ==
    /\ \A p \in DOMAIN inv : /\ p = <<p[1], p[2]>>
                             /\ p[1] \in DOMAIN run
                             /\ p[2] \in run[p[1]].asked
    /\ \A k \in DOMAIN run : \A s \in run[k].asked : <<k, s>> \in DOMAIN inv

SavedTyped == saved \in [DOMAIN saved -> Nat]

Typed == RunsTyped /\ InvsTyped /\ Asked /\ SavedTyped

---------------------------------------------------------------------------
(* The shapes of the steps *)

\* An action that only moves one invocation on: its new record agrees with the
\* old one in what the dispatcher received.
Moves(p) ==
    /\ UNCHANGED run
    /\ \E r \in InvRec :
          /\ inv' = [inv EXCEPT ![p] = r]
          /\ r.kind = inv[p].kind /\ r.sub = inv[p].sub
          /\ r.depth = inv[p].depth /\ r.trigger = inv[p].trigger
          /\ r.phase # "paused" => r.tries < MaxTries

LEMMA StepFound ==
    ASSUME NEW dag \in Graphs, NEW s \in StepIds(dag)
    PROVE  \E i \in DOMAIN dag : StepOf(dag, s) = dag[i] /\ dag[i].id = s
<1>1. PICK i \in DOMAIN dag : dag[i].id = s
  BY DEF StepIds
<1>. QED
  BY <1>1 DEF StepOf

LEMMA IdsAreTokens ==
    ASSUME NEW dag \in Graphs
    PROVE  StepIds(dag) \subseteq Seq(Tokens)
  BY GraphsAssumption DEF StepIds

LEMMA Invoked ==
    ASSUME Typed, NEW k \in DOMAIN run, NEW s \in StepIds(run[k].dag)
    PROVE  /\ BuildInvocation(k, s) \in InvRec
           /\ BuildInvocation(k, s).kind = "subworkflow" => BuildInvocation(k, s).sub \in Graphs
           /\ BuildInvocation(k, s).phase = "queued"
           /\ BuildInvocation(k, s).tries = 0 /\ BuildInvocation(k, s).turns = 0
           /\ BuildInvocation(k, s).depth = run[k].depth
           /\ BuildInvocation(k, s).trigger = run[k].trigger
<1>1. run[k] \in RunRec
  BY DEF Typed, RunsTyped
<1>2. PICK i \in DOMAIN run[k].dag : StepOf(run[k].dag, s) = run[k].dag[i]
  BY <1>1, StepFound DEF RunRec
<1>3. run[k].dag[i].kind \in AnyKind /\ run[k].dag[i].sub \in AnySub
  BY <1>1 DEF RunRec, AnyKind, AnySub
<1>4. run[k].dag[i].kind = "subworkflow" => run[k].dag[i].sub \in Graphs
  BY <1>1, GraphsAssumption DEF RunRec
<1>5. /\ 0 \in 0..MaxTries /\ 0 \in 0..MaxResumes /\ 0 \in 0..MaxTurns
  BY BoundsAssumption
<1>. QED
  BY <1>1, <1>2, <1>3, <1>4, <1>5 DEF BuildInvocation, InvRec, RunRec

LEMMA BecomeMoves ==
    ASSUME Typed, NEW p \in DOMAIN inv, UNCHANGED run,
           NEW phase \in {"queued", "running", "acted", "waiting", "ok", "err"},
           inv[p].phase # "paused", Become(p, phase)
    PROVE  Moves(p)
<1>1. inv[p] \in InvRec /\ inv[p].tries < MaxTries
  BY DEF Typed, InvsTyped
<1>2. [inv[p] EXCEPT !.phase = phase] \in InvRec
  BY <1>1 DEF InvRec
<1>3. inv' = [inv EXCEPT ![p] = [inv[p] EXCEPT !.phase = phase]]
  BY DEF Become
<1>. QED
  BY <1>1, <1>2, <1>3 DEF Moves, InvRec

LEMMA AgainMoves ==
    ASSUME Typed, NEW p \in DOMAIN inv, UNCHANGED run,
           inv[p].phase # "paused", Again(p)
    PROVE  Moves(p)
<1>. DEFINE r == [inv[p] EXCEPT !.tries = @ + 1, !.base = 0, !.turns = 0,
                    !.phase = IF inv[p].tries + 1 >= MaxTries THEN "paused" ELSE "queued"]
<1>1. inv[p] \in InvRec /\ inv[p].tries < MaxTries
  BY DEF Typed, InvsTyped
<1>2. r \in InvRec /\ (r.phase # "paused" => r.tries < MaxTries)
  <2>1. inv[p].tries \in Nat /\ inv[p].tries + 1 \in 0..MaxTries /\ 0 \in 0..MaxTurns
    BY <1>1, BoundsAssumption DEF InvRec
  <2>2. r \in InvRec
    BY <1>1, <2>1 DEF InvRec
  <2>3. r.tries = inv[p].tries + 1
    BY <1>1 DEF InvRec
  <2>4. r.phase = IF inv[p].tries + 1 >= MaxTries THEN "paused" ELSE "queued"
    BY <1>1 DEF InvRec
  <2>. QED
    BY <2>1, <2>2, <2>3, <2>4, BoundsAssumption
<1>3. inv' = [inv EXCEPT ![p] = r]
  BY DEF Again
<1>4. r.kind = inv[p].kind /\ r.sub = inv[p].sub /\ r.depth = inv[p].depth
      /\ r.trigger = inv[p].trigger
  BY <1>1 DEF InvRec
<1>. QED
  BY <1>2, <1>3, <1>4 DEF Moves

LEMMA AttemptMoves ==
    ASSUME Typed, NEW p \in DOMAIN inv,
           \/ Begin(p) \/ RenderFails(p) \/ Answer(p) \/ Refuse(p) \/ Transient(p)
           \/ Post(p) \/ StartAgent(p) \/ AgentTurn(p) \/ RefuseChild(p) \/ ChildEnded(p)
           \/ LoseAttempt(p) \/ Resume(p)
    PROVE  Moves(p)
<1>0. inv[p] \in InvRec
  BY DEF Typed, InvsTyped
<1>1. CASE Begin(p)
  <2>1. CASE Durable(p)
    <3>. DEFINE r == [inv[p] EXCEPT !.phase = "running", !.rendered = TRUE]
    <3>1. CASE inv' = [inv EXCEPT ![p].phase = "running", ![p].rendered = TRUE]
      <4>1. inv' = [inv EXCEPT ![p] = r]
        BY <3>1
      <4>2. r \in InvRec /\ r.tries = inv[p].tries /\ inv[p].phase = "queued"
        BY <1>0, <1>1 DEF InvRec, Begin
      <4>3. r.tries < MaxTries
        BY <4>2 DEF Typed, InvsTyped
      <4>. QED
        BY <1>0, <1>1, <4>1, <4>2, <4>3 DEF Moves, Begin, InvRec
    <3>2. CASE Become(p, "running")
      BY <1>1, <3>2, BecomeMoves DEF Begin
    <3>3. CASE Become(p, "err")
      BY <1>1, <3>3, BecomeMoves DEF Begin
    <3>. QED
      BY <1>1, <3>1, <3>2, <3>3 DEF Begin
  <2>2. CASE ~Durable(p)
    BY <1>1, <2>2, BecomeMoves DEF Begin
  <2>. QED
    BY <2>1, <2>2
<1>2. CASE RenderFails(p)
  BY <1>2, BecomeMoves DEF RenderFails
<1>3. CASE Answer(p)
  BY <1>3, BecomeMoves DEF Answer
<1>4. CASE Refuse(p)
  BY <1>4, BecomeMoves DEF Refuse, ScriptFails, JudgeRefuses, SendRefused, AgentFails
<1>5. CASE Transient(p)
  BY <1>5, AgainMoves DEF Transient
<1>6. CASE Post(p)
  BY <1>6, BecomeMoves DEF Post
<1>7. CASE StartAgent(p)
  <2>. DEFINE r == [inv[p] EXCEPT !.phase = "acted", !.base = RestoredTurns(p)]
  <2>1. RestoredTurns(p) \in Nat
    BY DEF Typed, SavedTyped, RestoredTurns
  <2>2. inv' = [inv EXCEPT ![p] = r]
    BY <1>7 DEF StartAgent
  <2>3. r \in InvRec /\ r.tries = inv[p].tries
    BY <1>0, <2>1 DEF InvRec
  <2>4. r.tries < MaxTries
    BY <1>7, <2>3 DEF Typed, InvsTyped, StartAgent
  <2>. QED
    BY <1>0, <1>7, <2>2, <2>3, <2>4 DEF Moves, StartAgent, InvRec
<1>8. CASE AgentTurn(p)
  <2>. DEFINE r == [inv[p] EXCEPT !.turns = @ + 1]
  <2>1. inv' = [inv EXCEPT ![p] = r]
    BY <1>8 DEF AgentTurn
  <2>2. r \in InvRec /\ r.tries = inv[p].tries
    BY <1>0, <1>8, BoundsAssumption DEF InvRec, AgentTurn
  <2>3. r.tries < MaxTries
    BY <1>8, <2>2 DEF Typed, InvsTyped, AgentTurn
  <2>. QED
    BY <1>0, <1>8, <2>1, <2>2, <2>3 DEF Moves, AgentTurn, InvRec
<1>9. CASE RefuseChild(p)
  BY <1>9, BecomeMoves DEF RefuseChild
<1>10. CASE ChildEnded(p)
  BY <1>10, BecomeMoves DEF ChildEnded
<1>11. CASE LoseAttempt(p)
  BY <1>11, AgainMoves DEF LoseAttempt
<1>12. CASE Resume(p)
  <2>. DEFINE r == [inv[p] EXCEPT !.phase = "queued", !.tries = 0, !.resumes = @ + 1]
  <2>1. inv' = [inv EXCEPT ![p] = r]
    BY <1>12 DEF Resume
  <2>2. r \in InvRec /\ r.tries < MaxTries
    BY <1>0, <1>12, BoundsAssumption DEF InvRec, Resume
  <2>. QED
    BY <1>0, <1>12, <2>1, <2>2 DEF Moves, Resume, InvRec
<1>. QED
  BY <1>1, <1>2, <1>3, <1>4, <1>5, <1>6, <1>7, <1>8, <1>9, <1>10, <1>11, <1>12

---------------------------------------------------------------------------
(* Typed is kept *)

LEMMA TypedMoves ==
    ASSUME Typed, NEW p \in DOMAIN inv, Moves(p)
    PROVE  RunsTyped' /\ InvsTyped' /\ Asked'
<1>1. PICK r \in InvRec :
         /\ inv' = [inv EXCEPT ![p] = r]
         /\ r.kind = inv[p].kind /\ r.sub = inv[p].sub
         /\ r.phase # "paused" => r.tries < MaxTries
  BY DEF Moves
<1>2. run' = run /\ DOMAIN inv' = DOMAIN inv
  BY <1>1 DEF Moves
<1>3. RunsTyped'
  BY <1>2 DEF Typed, RunsTyped
<1>4. InvsTyped'
  <2>1. inv' \in [DOMAIN inv' -> InvRec]
    BY <1>1, <1>2 DEF Typed, InvsTyped
  <2>2. ASSUME NEW q \in DOMAIN inv
        PROVE  /\ inv'[q].kind = "subworkflow" => inv'[q].sub \in Graphs
               /\ inv'[q].phase # "paused" => inv'[q].tries < MaxTries
    <3>1. CASE q = p
      BY <1>1, <3>1 DEF Typed, InvsTyped
    <3>2. CASE q # p
      BY <1>1, <3>2 DEF Typed, InvsTyped
    <3>. QED
      BY <3>1, <3>2
  <2>. QED
    BY <1>2, <2>1, <2>2 DEF InvsTyped
<1>5. Asked'
  BY <1>2 DEF Typed, Asked
<1>. QED
  BY <1>3, <1>4, <1>5

\* A run that is new to the table.
LEMMA TypedNewRun ==
    ASSUME Typed, NEW k \in Seq(Tokens), k # << >>, k \notin DOMAIN run,
           NEW dag \in Graphs, NEW depth \in Nat, NEW t \in Triggers,
           run' = Put(run, k, NewRun(dag, depth, t))
    PROVE  /\ RunsTyped'
           /\ DOMAIN run' = DOMAIN run \cup {k}
           /\ \A x \in DOMAIN run : run'[x] = run[x]
           /\ run'[k] = NewRun(dag, depth, t)
<1>1. /\ DOMAIN run' = DOMAIN run \cup {k}
      /\ \A x \in DOMAIN run : run'[x] = run[x]
      /\ run'[k] = NewRun(dag, depth, t)
  BY DEF Put
<1>2. NewRun(dag, depth, t) \in RunRec
  BY DEF NewRun, RunRec
<1>3. run' \in [DOMAIN run' -> RunRec]
  BY <1>1, <1>2 DEF Put, Typed, RunsTyped
<1>4. NewRun(dag, depth, t).asked = {} /\ NewRun(dag, depth, t).got = {}
  BY DEF NewRun
<1>. QED
  BY <1>1, <1>3, <1>4 DEF Typed, RunsTyped

LEMMA TypedTrigger ==
    ASSUME Typed, NEW k \in RootKeys, NEW dag \in RootDags, NEW t \in Triggers,
           TriggerRun(k, dag, t)
    PROVE  Typed'
<1>1. k \in Seq(Tokens) /\ k # << >> /\ dag \in Graphs
  <2>1. PICK x \in Tokens : k = <<x>>
    BY NamesAssumption
  <2>2. <<x>> \in Seq(Tokens) /\ <<x>> # << >>
    BY <2>1
  <2>3. dag \in Graphs
    BY GraphsAssumption
  <2>. QED
    BY <2>1, <2>2, <2>3
<1>2. /\ RunsTyped'
      /\ DOMAIN run' = DOMAIN run \cup {k}
      /\ \A x \in DOMAIN run : run'[x] = run[x]
      /\ run'[k] = NewRun(dag, 0, t)
  BY <1>1, TypedNewRun DEF TriggerRun
<1>3. InvsTyped' /\ SavedTyped'
  BY DEF Typed, InvsTyped, SavedTyped, TriggerRun
<1>4. Asked'
  <2>1. inv' = inv /\ run'[k].asked = {}
    BY <1>2 DEF TriggerRun, NewRun
  <2>. QED
    BY <1>2, <2>1 DEF Typed, Asked
<1>. QED
  BY <1>2, <1>3, <1>4 DEF Typed

\* The steps of a walk that ask for nothing.
LEMMA TypedRun ==
    ASSUME Typed, NEW k \in DOMAIN run,
           \/ Validate(k) \/ FinishRun(k)
           \/ \E s \in run[k].asked : Collect(k, s) \/ CollectFailure(k, s)
    PROVE  /\ Typed'
           /\ \E r \in RunRec :
                 /\ run' = [run EXCEPT ![k] = r]
                 /\ r.dag = run[k].dag /\ r.depth = run[k].depth
                 /\ r.trigger = run[k].trigger /\ r.asked = run[k].asked
           /\ UNCHANGED <<inv, msgs, saved>>
<1>1. run[k] \in RunRec /\ run[k].got \subseteq run[k].asked
  BY DEF Typed, RunsTyped
<1>2. UNCHANGED <<inv, msgs, saved>>
  BY DEF Validate, FinishRun, Collect, CollectFailure
<1>3. PICK r \in RunRec :
         /\ run' = [run EXCEPT ![k] = r]
         /\ r.dag = run[k].dag /\ r.depth = run[k].depth
         /\ r.trigger = run[k].trigger /\ r.asked = run[k].asked
         /\ r.got \subseteq r.asked
  <2>1. ASSUME NEW x \in {"walking", "rejected", "done", "failed"},
               run' = [run EXCEPT ![k].status = x]
        PROVE  LET r == [run[k] EXCEPT !.status = x]
               IN  /\ r \in RunRec /\ run' = [run EXCEPT ![k] = r]
                   /\ r.dag = run[k].dag /\ r.depth = run[k].depth
                   /\ r.trigger = run[k].trigger /\ r.asked = run[k].asked
                   /\ r.got \subseteq r.asked
    BY <1>1, <2>1 DEF RunRec
  <2>2. ASSUME NEW s \in run[k].asked, run' = [run EXCEPT ![k].got = @ \cup {s}]
        PROVE  LET r == [run[k] EXCEPT !.got = @ \cup {s}]
               IN  /\ r \in RunRec /\ run' = [run EXCEPT ![k] = r]
                   /\ r.dag = run[k].dag /\ r.depth = run[k].depth
                   /\ r.trigger = run[k].trigger /\ r.asked = run[k].asked
                   /\ r.got \subseteq r.asked
    BY <1>1, <2>2 DEF RunRec
  <2>3. CASE Validate(k)
    BY <2>1, <2>3 DEF Validate
  <2>4. CASE FinishRun(k)
    BY <2>1, <2>4 DEF FinishRun
  <2>5. ASSUME NEW s \in run[k].asked, Collect(k, s) \/ CollectFailure(k, s)
        PROVE  \E r \in RunRec :
                  /\ run' = [run EXCEPT ![k] = r]
                  /\ r.dag = run[k].dag /\ r.depth = run[k].depth
                  /\ r.trigger = run[k].trigger /\ r.asked = run[k].asked
                  /\ r.got \subseteq r.asked
    BY <2>1, <2>2, <2>5 DEF Collect, CollectFailure
  <2>. QED
    BY <2>3, <2>4, <2>5
<1>4. DOMAIN run' = DOMAIN run
  BY <1>3
<1>5. RunsTyped'
  BY <1>3, <1>4 DEF Typed, RunsTyped
<1>6. InvsTyped' /\ SavedTyped'
  BY <1>2 DEF Typed, InvsTyped, SavedTyped
<1>7. Asked'
  BY <1>2, <1>3, <1>4 DEF Typed, Asked
<1>. QED
  BY <1>2, <1>3, <1>5, <1>6, <1>7 DEF Typed

\* A layer asks for steps nobody asked for: what was invoked before is untouched.
LEMMA TypedAsk ==
    ASSUME Typed, NEW k \in DOMAIN run, AskLayer(k)
    PROVE  LET layer == ReadySteps(run[k].dag, run[k].got)
           IN  /\ Typed'
               /\ layer \subseteq StepIds(run[k].dag)
               /\ layer \cap run[k].asked = {}
               /\ DOMAIN run' = DOMAIN run
               /\ \A x \in DOMAIN run \ {k} : run'[x] = run[x]
               /\ run'[k] = [run[k] EXCEPT !.asked = @ \cup layer]
               /\ run'[k].dag = run[k].dag /\ run'[k].depth = run[k].depth
               /\ run'[k].trigger = run[k].trigger /\ run'[k].status = run[k].status
               /\ run'[k].got = run[k].got
               /\ run'[k].asked = run[k].asked \cup layer
               /\ DOMAIN inv' = DOMAIN inv \cup ({k} \X layer)
               /\ \A p \in DOMAIN inv : inv'[p] = inv[p]
               /\ \A s \in layer : inv'[<<k, s>>] = BuildInvocation(k, s)
               /\ UNCHANGED <<msgs, saved>>
<1>. DEFINE layer == ReadySteps(run[k].dag, run[k].got)
<1>0. run[k] \in RunRec /\ run[k].got \subseteq run[k].asked
      /\ run[k].asked \subseteq StepIds(run[k].dag)
  BY DEF Typed, RunsTyped
<1>1. layer \subseteq StepIds(run[k].dag) /\ layer \cap run[k].got = {}
  BY DEF ReadySteps, StepIds
<1>2. run[k].asked = run[k].got
  BY DEF AskLayer
<1>3. layer \subseteq Seq(Tokens)
  BY <1>0, <1>1, IdsAreTokens DEF RunRec
<1>4. /\ run' = [run EXCEPT ![k].asked = @ \cup layer]
      /\ inv' = [p \in DOMAIN inv \cup ({k} \X layer) |->
                    IF p \in {k} \X layer THEN BuildInvocation(k, p[2]) ELSE inv[p]]
      /\ UNCHANGED <<msgs, saved>>
  BY DEF AskLayer
<1>5. ASSUME NEW p \in DOMAIN inv
      PROVE  p \notin {k} \X layer
  <2>1. p[2] \in run[p[1]].asked
    BY DEF Typed, Asked
  <2>. QED
    BY <1>1, <1>2, <2>1
<1>6. /\ DOMAIN inv' = DOMAIN inv \cup ({k} \X layer)
      /\ \A p \in DOMAIN inv : inv'[p] = inv[p]
  BY <1>4, <1>5
<1>7. \A s \in layer : inv'[<<k, s>>] = BuildInvocation(k, s)
  BY <1>4
<1>8. /\ DOMAIN run' = DOMAIN run
      /\ \A x \in DOMAIN run \ {k} : run'[x] = run[x]
      /\ run'[k] = [run[k] EXCEPT !.asked = @ \cup layer]
  BY <1>4
<1>9. /\ run'[k].dag = run[k].dag /\ run'[k].depth = run[k].depth
      /\ run'[k].trigger = run[k].trigger /\ run'[k].status = run[k].status
      /\ run'[k].got = run[k].got
      /\ run'[k].asked = run[k].asked \cup layer
  BY <1>0, <1>8 DEF RunRec
<1>10. RunsTyped'
  <2>1. run'[k] \in RunRec
    BY <1>0, <1>3, <1>8 DEF RunRec
  <2>2. run' \in [DOMAIN run' -> RunRec]
    BY <1>4, <1>8, <2>1 DEF Typed, RunsTyped
  <2>. QED
    BY <1>0, <1>1, <1>8, <1>9, <2>2 DEF Typed, RunsTyped
<1>11. InvsTyped'
  <2>1. ASSUME NEW s \in layer
        PROVE  /\ inv'[<<k, s>>] \in InvRec
               /\ inv'[<<k, s>>].kind = "subworkflow" => inv'[<<k, s>>].sub \in Graphs
               /\ inv'[<<k, s>>].tries < MaxTries
    <3>1. s \in StepIds(run[k].dag)
      BY <1>1
    <3>2. 0 < MaxTries
      BY BoundsAssumption
    <3>. QED
      BY <1>7, <3>1, <3>2, Invoked
  <2>2. inv' \in [DOMAIN inv' -> InvRec]
    <3>1. \A p \in DOMAIN inv' : inv'[p] \in InvRec
      BY <1>6, <2>1 DEF Typed, InvsTyped
    <3>2. inv' = [p \in DOMAIN inv' |-> inv'[p]]
      BY <1>4, <1>6
    <3>. QED
      BY <3>1, <3>2
  <2>3. ASSUME NEW p \in DOMAIN inv'
        PROVE  /\ inv'[p].kind = "subworkflow" => inv'[p].sub \in Graphs
               /\ inv'[p].phase # "paused" => inv'[p].tries < MaxTries
    <3>1. CASE p \in DOMAIN inv
      BY <1>6, <3>1 DEF Typed, InvsTyped
    <3>2. CASE p \in {k} \X layer
      BY <2>1, <3>2
    <3>. QED
      BY <1>6, <3>1, <3>2
  <2>. QED
    BY <2>2, <2>3 DEF InvsTyped
<1>12. Asked'
  <2>1. ASSUME NEW p \in DOMAIN inv'
        PROVE  p = <<p[1], p[2]>> /\ p[1] \in DOMAIN run' /\ p[2] \in run'[p[1]].asked
    <3>1. CASE p \in DOMAIN inv
      <4>1. p = <<p[1], p[2]>> /\ p[1] \in DOMAIN run /\ p[2] \in run[p[1]].asked
        BY <3>1 DEF Typed, Asked
      <4>2. run[p[1]].asked \subseteq run'[p[1]].asked
        BY <1>8, <1>9, <4>1
      <4>. QED
        BY <1>8, <4>1, <4>2
    <3>2. CASE p \in {k} \X layer
      <4>1. PICK s \in layer : p = <<k, s>>
        BY <3>2
      <4>2. k \in DOMAIN run' /\ s \in run'[k].asked
        BY <1>8, <1>9
      <4>. QED
        BY <4>1, <4>2
    <3>. QED
      BY <1>6, <3>1, <3>2
  <2>2. ASSUME NEW x \in DOMAIN run', NEW s \in run'[x].asked
        PROVE  <<x, s>> \in DOMAIN inv'
    <3>1. CASE x = k /\ s \in layer
      BY <1>6, <3>1
    <3>2. CASE s \in run[x].asked
      BY <1>6, <1>8, <3>2 DEF Typed, Asked
    <3>. QED
      BY <1>8, <1>9, <3>1, <3>2
  <2>. QED
    BY <2>1, <2>2 DEF Asked
<1>13. SavedTyped'
  BY <1>4 DEF Typed, SavedTyped
<1>. QED
  BY <1>1, <1>2, <1>4, <1>6, <1>7, <1>8, <1>9, <1>10, <1>11, <1>12, <1>13 DEF Typed

\* Calling a child starts a run at most.
LEMMA TypedCall ==
    ASSUME Typed, NEW p \in DOMAIN inv, CallChild(p)
    PROVE  LET child == ChildRunKey(p[1], p[2])
           IN  /\ Typed'
               /\ child \in Seq(Tokens) /\ child # << >>
               /\ inv' = [inv EXCEPT ![p].phase = "waiting"]
               /\ DOMAIN inv' = DOMAIN inv
               /\ \A q \in DOMAIN inv :
                     /\ inv'[q].kind = inv[q].kind
                     /\ inv'[q].depth = inv[q].depth
                     /\ inv'[q].trigger = inv[q].trigger
                     /\ inv'[q].turns = inv[q].turns /\ inv'[q].base = inv[q].base
                     /\ inv'[q].phase = IF q = p THEN "waiting" ELSE inv[q].phase
               /\ DOMAIN run' = DOMAIN run \cup {child}
               /\ \A x \in DOMAIN run : run'[x] = run[x]
               /\ child \notin DOMAIN run =>
                     run'[child] = NewRun(inv[p].sub, inv[p].depth + 1, inv[p].trigger)
               /\ UNCHANGED <<msgs, saved>>
<1>. DEFINE child == ChildRunKey(p[1], p[2])
<1>0. inv[p] \in InvRec /\ inv[p].sub \in Graphs
  BY DEF Typed, InvsTyped, CallChild, Durable
<1>1. child \in Seq(Tokens) /\ child # << >>
  <2>1. p[1] \in Seq(Tokens)
    BY DEF Typed, RunsTyped, Asked
  <2>2. p[2] \in Seq(Tokens)
    BY DEF Typed, RunsTyped, Asked, RunRec
  <2>3. <<":">> \in Seq(Tokens) /\ Len(<<":">>) = 1
    BY NamesAssumption
  <2>4. p[1] \o <<":">> \in Seq(Tokens) /\ Len(p[1] \o <<":">>) = Len(p[1]) + 1
    BY <2>1, <2>3
  <2>5. child \in Seq(Tokens) /\ Len(child) = Len(p[1]) + 1 + Len(p[2])
    BY <2>2, <2>4 DEF ChildRunKey
  <2>6. Len(p[1]) \in Nat /\ Len(p[2]) \in Nat
    BY <2>1, <2>2
  <2>7. \A m, n \in Nat : m + 1 + n # 0
    OBVIOUS
  <2>8. Len(child) # 0 /\ Len(<< >>) = 0
    BY <2>5, <2>6, <2>7
  <2>. QED
    BY <2>5, <2>8
<1>2. /\ inv' = [inv EXCEPT ![p].phase = "waiting"]
      /\ UNCHANGED <<msgs, saved>>
      /\ inv[p].phase = "running"
  BY DEF CallChild, Become
<1>3. DOMAIN inv' = DOMAIN inv
  BY <1>2
<1>4. ASSUME NEW q \in DOMAIN inv
      PROVE  /\ inv'[q] \in InvRec
             /\ inv'[q].kind = inv[q].kind /\ inv'[q].sub = inv[q].sub
             /\ inv'[q].depth = inv[q].depth /\ inv'[q].tries = inv[q].tries
             /\ inv'[q].trigger = inv[q].trigger
             /\ inv'[q].turns = inv[q].turns /\ inv'[q].base = inv[q].base
             /\ inv'[q].phase = IF q = p THEN "waiting" ELSE inv[q].phase
  <2>1. inv[q] \in InvRec
    BY DEF Typed, InvsTyped
  <2>. QED
    BY <1>0, <1>2, <2>1 DEF InvRec
<1>5. InvsTyped'
  <2>1. inv' \in [DOMAIN inv' -> InvRec]
    BY <1>2, <1>3, <1>4
  <2>2. \A q \in DOMAIN inv : inv[q].phase = "waiting" => inv[q].tries < MaxTries
    BY DEF Typed, InvsTyped
  <2>3. inv[p].tries < MaxTries
    BY <1>2 DEF Typed, InvsTyped
  <2>. QED
    BY <1>3, <1>4, <2>1, <2>3 DEF Typed, InvsTyped
<1>6. /\ RunsTyped'
      /\ DOMAIN run' = DOMAIN run \cup {child}
      /\ \A x \in DOMAIN run : run'[x] = run[x]
      /\ child \notin DOMAIN run =>
            /\ run'[child] = NewRun(inv[p].sub, inv[p].depth + 1, inv[p].trigger)
            /\ run'[child].asked = {}
  <2>1. CASE child \in DOMAIN run
    <3>1. run' = run
      BY <2>1 DEF CallChild
    <3>. QED
      BY <2>1, <3>1 DEF Typed, RunsTyped
  <2>2. CASE child \notin DOMAIN run
    <3>1. run' = Put(run, child, NewRun(inv[p].sub, inv[p].depth + 1, inv[p].trigger))
      BY <2>2 DEF CallChild
    <3>2. inv[p].depth + 1 \in Nat /\ inv[p].trigger \in Triggers
      BY <1>0 DEF InvRec
    <3>3. /\ RunsTyped'
          /\ DOMAIN run' = DOMAIN run \cup {child}
          /\ \A x \in DOMAIN run : run'[x] = run[x]
          /\ run'[child] = NewRun(inv[p].sub, inv[p].depth + 1, inv[p].trigger)
      BY <1>0, <1>1, <2>2, <3>1, <3>2, TypedNewRun
    <3>. QED
      BY <3>3 DEF NewRun
  <2>. QED
    BY <2>1, <2>2
<1>7. Asked'
  <2>1. \A k \in DOMAIN run' : k \in DOMAIN run \/ run'[k].asked = {}
    BY <1>6
  <2>. QED
    BY <1>3, <1>6, <2>1 DEF Typed, Asked
<1>8. SavedTyped'
  BY <1>2 DEF Typed, SavedTyped
<1>. QED
  BY <1>1, <1>2, <1>3, <1>4, <1>5, <1>6, <1>7, <1>8 DEF Typed

LEMMA TypedInit == Init => Typed
<1>. SUFFICES ASSUME Init
              PROVE  Typed
  OBVIOUS
<1>1. /\ run = << >> /\ inv = << >> /\ saved = << >>
      /\ DOMAIN run = {} /\ DOMAIN inv = {} /\ DOMAIN saved = {}
  BY DEF Init
<1>2. \A S : << >> \in [{} -> S]
  OBVIOUS
<1>3. RunsTyped
  BY <1>1, <1>2 DEF RunsTyped
<1>4. InvsTyped
  BY <1>1, <1>2 DEF InvsTyped
<1>5. Asked
  BY <1>1 DEF Asked
<1>6. SavedTyped
  BY <1>1, <1>2 DEF SavedTyped
<1>. QED
  BY <1>3, <1>4, <1>5, <1>6 DEF Typed

\* What an attempt that moves its invocation does to the stored sessions.
LEMMA SavedMoves ==
    ASSUME Typed, NEW p \in DOMAIN inv, Attempt(p) \/ LoseAttempt(p) \/ Resume(p)
    PROVE  \/ UNCHANGED saved
           \/ AgentTurn(p)
  BY DEF Attempt, Begin, RenderFails, Answer, Refuse, Transient, Post, StartAgent,
         RefuseChild, CallChild, ChildEnded, LoseAttempt, Resume

LEMMA TypedAttempt ==
    ASSUME Typed, NEW p \in DOMAIN inv, Attempt(p) \/ LoseAttempt(p) \/ Resume(p)
    PROVE  Typed'
<1>1. CASE CallChild(p)
  BY <1>1, TypedCall
<1>2. CASE ~CallChild(p)
  <2>1. Moves(p)
    BY <1>2, AttemptMoves DEF Attempt
  <2>2. SavedTyped'
    <3>1. CASE UNCHANGED saved
      BY <3>1 DEF Typed, SavedTyped
    <3>2. CASE AgentTurn(p)
      <4>1. inv[p] \in InvRec
        BY DEF Typed, InvsTyped
      <4>2. inv[p].base + inv[p].turns + 1 \in Nat
        BY <4>1, BoundsAssumption DEF InvRec
      <4>3. saved' = Put(saved, SessionName(p[1], p[2]), inv[p].base + inv[p].turns + 1)
        BY <3>2 DEF AgentTurn
      <4>. QED
        BY <4>2, <4>3 DEF Typed, SavedTyped, Put
    <3>. QED
      BY <3>1, <3>2, SavedMoves
  <2>. QED
    BY <2>1, <2>2, TypedMoves DEF Typed
<1>. QED
  BY <1>1, <1>2

\* The steps of the engine, told apart by what they touch.
LEMMA Steps ==
    ASSUME Next
    PROVE  \/ \E k \in RootKeys, dag \in RootDags, t \in Triggers : TriggerRun(k, dag, t)
           \/ \E k \in DOMAIN run : RunStep(k)
           \/ \E p \in DOMAIN inv : Attempt(p) \/ LoseAttempt(p) \/ Resume(p)
  BY DEF Next, Engine

LEMMA TypedNext ==
    ASSUME Typed, [Next]_vars
    PROVE  Typed'
<1>1. CASE \E k \in RootKeys, dag \in RootDags, t \in Triggers : TriggerRun(k, dag, t)
  BY <1>1, TypedTrigger
<1>2. ASSUME NEW k \in DOMAIN run, RunStep(k)
      PROVE  Typed'
  BY <1>2, TypedRun, TypedAsk DEF RunStep
<1>3. CASE \E p \in DOMAIN inv : Attempt(p) \/ LoseAttempt(p) \/ Resume(p)
  BY <1>3, TypedAttempt
<1>4. CASE UNCHANGED vars
  BY <1>4 DEF vars, Typed, RunsTyped, InvsTyped, Asked, SavedTyped
<1>. QED
  BY <1>1, <1>2, <1>3, <1>4, Steps

\* The tables keep their shape and speak of one another, for every set of graphs,
\* names, callers and bounds (interpreter.rs and dispatcher.rs together).
THEOREM TypedAlways == Spec => []Typed
<1>1. Typed /\ [Next]_vars => Typed'
  BY TypedNext
<1>. QED
  BY <1>1, TypedInit, PTL DEF Spec

LEMMA TypedIsTyped ==
    ASSUME Typed
    PROVE  WorkflowTypeOK
<1>1. ASSUME NEW k \in DOMAIN run
      PROVE  /\ run[k].status \in {"new", "walking"} \cup Ended
             /\ run[k].depth \in Nat
             /\ run[k].got \subseteq run[k].asked
             /\ run[k].asked \subseteq StepIds(run[k].dag)
  BY DEF Typed, RunsTyped, RunRec, Ended
<1>2. DOMAIN inv = UNION {{k} \X run[k].asked : k \in DOMAIN run}
  <2>1. ASSUME NEW p \in DOMAIN inv
        PROVE  p \in UNION {{k} \X run[k].asked : k \in DOMAIN run}
    <3>1. p = <<p[1], p[2]>> /\ p[1] \in DOMAIN run /\ p[2] \in run[p[1]].asked
      BY DEF Typed, Asked
    <3>2. p \in {p[1]} \X run[p[1]].asked
      BY <3>1
    <3>. QED
      BY <3>1, <3>2
  <2>2. ASSUME NEW k \in DOMAIN run, NEW p \in {k} \X run[k].asked
        PROVE  p \in DOMAIN inv
    BY DEF Typed, Asked
  <2>. QED
    BY <2>1, <2>2
<1>3. ASSUME NEW p \in DOMAIN inv
      PROVE  /\ inv[p].phase \in Phases
             /\ inv[p].tries \in 0..MaxTries
             /\ inv[p].resumes \in 0..MaxResumes
             /\ inv[p].turns \in 0..MaxTurns
  BY DEF Typed, InvsTyped, InvRec, Phases, Settled
<1>. QED
  BY <1>1, <1>2, <1>3 DEF WorkflowTypeOK

\* The type invariant, as the runs check it.
THEOREM WorkflowTyped == Spec => []WorkflowTypeOK
<1>1. Typed => WorkflowTypeOK
  BY TypedIsTyped
<1>. QED
  BY <1>1, TypedAlways, PTL

---------------------------------------------------------------------------
(* What one step of an attempt changes, and what it leaves alone *)

LEMMA AttemptPhases ==
    ASSUME Typed, NEW p \in DOMAIN inv, Attempt(p) \/ LoseAttempt(p) \/ Resume(p)
    PROVE  /\ inv[p].phase \notin Settled
           /\ \/ inv'[p].phase \in {"queued", "running", "paused", "err"}
              \/ AgentTurn(p) /\ inv'[p].phase = inv[p].phase
              \/ Answer(p) /\ inv'[p].phase = "ok"
              \/ Post(p) /\ inv'[p].phase = "acted"
              \/ StartAgent(p) /\ inv'[p].phase = "acted"
              \/ CallChild(p) /\ inv'[p].phase = "waiting"
              \/ /\ inv[p].phase = "waiting"
                 /\ run[ChildRunKey(p[1], p[2])].status = "done"
                 /\ inv'[p].phase = "ok"
                 /\ UNCHANGED run
<1>0. inv[p] \in InvRec /\ inv \in [DOMAIN inv -> InvRec]
  BY DEF Typed, InvsTyped
<1>. USE <1>0 DEF InvRec, Settled
<1>1. CASE Begin(p)
  BY <1>1 DEF Begin, Become
<1>2. CASE RenderFails(p)
  BY <1>2 DEF RenderFails, Become
<1>3. CASE Answer(p)
  BY <1>3 DEF Answer, Become
<1>4. CASE Refuse(p)
  BY <1>4 DEF Refuse, ScriptFails, JudgeRefuses, SendRefused, AgentFails, Become
<1>5. CASE Transient(p)
  BY <1>5 DEF Transient, Again
<1>6. CASE Post(p)
  BY <1>6 DEF Post, Become
<1>7. CASE StartAgent(p)
  BY <1>7 DEF StartAgent
<1>8. CASE AgentTurn(p)
  BY <1>8 DEF AgentTurn
<1>9. CASE RefuseChild(p)
  BY <1>9 DEF RefuseChild, Become
<1>10. CASE ChildEnded(p)
  BY <1>10 DEF ChildEnded, Become
<1>11. CASE LoseAttempt(p)
  BY <1>11 DEF LoseAttempt, Again
<1>12. CASE Resume(p)
  BY <1>12 DEF Resume
<1>13. CASE CallChild(p)
  BY <1>13 DEF CallChild, Become
<1>. QED
  BY <1>1, <1>2, <1>3, <1>4, <1>5, <1>6, <1>7, <1>8, <1>9, <1>10, <1>11, <1>12, <1>13
  DEF Attempt

LEMMA AttemptKeeps ==
    ASSUME Typed, NEW p \in DOMAIN inv, Attempt(p) \/ LoseAttempt(p) \/ Resume(p)
    PROVE  /\ DOMAIN inv' = DOMAIN inv
           /\ \A q \in DOMAIN inv \ {p} : inv'[q] = inv[q]
           /\ \A q \in DOMAIN inv :
                 /\ inv'[q].kind = inv[q].kind
                 /\ inv'[q].depth = inv[q].depth /\ inv'[q].trigger = inv[q].trigger
           /\ \A k \in DOMAIN run : k \in DOMAIN run' /\ run'[k] = run[k]
           /\ UNCHANGED run \/ CallChild(p)
<1>1. CASE CallChild(p)
  <2>1. inv' = [inv EXCEPT ![p].phase = "waiting"]
    BY <1>1, TypedCall
  <2>. QED
    BY <1>1, <2>1, TypedCall
<1>2. CASE ~CallChild(p)
  <2>1. Moves(p)
    BY <1>2, AttemptMoves DEF Attempt
  <2>2. PICK r \in InvRec :
           /\ inv' = [inv EXCEPT ![p] = r]
           /\ r.kind = inv[p].kind
           /\ r.depth = inv[p].depth /\ r.trigger = inv[p].trigger
    BY <2>1 DEF Moves
  <2>3. UNCHANGED run
    BY <2>1 DEF Moves
  <2>4. \A q \in DOMAIN inv \ {p} : inv'[q] = inv[q]
    BY <2>2
  <2>5. inv'[p] = r
    BY <2>2
  <2>. QED
    BY <2>2, <2>3, <2>4, <2>5
<1>. QED
  BY <1>1, <1>2

---------------------------------------------------------------------------
(* One message per step *)

\* A message is filed under the transaction of the step it came from, and a message
\* step that has acted or answered has one filed.
NamesApart ==
    /\ \A m \in msgs : /\ m.by \in DOMAIN inv
                        /\ m = [txn |-> TxnId(m.by[1], m.by[2]), by |-> m.by]
    /\ \A p \in DOMAIN inv :
          inv[p].kind = "matrix_send" /\ inv[p].phase \in {"acted", "ok"} =>
              \E m \in msgs : m.by = p
    /\ \A p \in DOMAIN inv : inv[p].kind = "matrix_send" => inv[p].phase # "waiting"

LEMMA NamesApartPost ==
    ASSUME Typed, NamesApart, NEW p \in DOMAIN inv, Post(p)
    PROVE  NamesApart'
<1>. DEFINE txn == TxnId(p[1], p[2])
<1>1. DOMAIN inv' = DOMAIN inv /\ \A q \in DOMAIN inv \ {p} : inv'[q] = inv[q]
  BY AttemptKeeps DEF Attempt
<1>2. \A q \in DOMAIN inv : inv'[q].kind = inv[q].kind
  BY AttemptKeeps DEF Attempt
<1>3. p = <<p[1], p[2]>> /\ \A q \in DOMAIN inv : q = <<q[1], q[2]>>
  BY DEF Typed, Asked
<1>6. \A q \in DOMAIN inv : inv[q].kind = "matrix_send" => inv'[q].phase # "waiting"
  <2>1. inv'[p].phase = "acted"
    BY DEF Post, Become, Typed, InvsTyped, InvRec
  <2>. QED
    BY <1>1, <2>1 DEF NamesApart
<1>4. CASE \E m \in msgs : m.txn = txn
  <2>1. PICK m \in msgs : m.txn = txn
    BY <1>4
  <2>2. m.by \in DOMAIN inv /\ m.txn = TxnId(m.by[1], m.by[2])
    BY DEF NamesApart
  <2>3. m.by[1] = p[1] /\ m.by[2] = p[2]
    <3>1. TxnId(m.by[1], m.by[2]) = TxnId(p[1], p[2])
      BY <2>1, <2>2
    <3>. QED
      BY <3>1 DEF TxnId
  <2>. DEFINE q == m.by
  <2>6. q \in DOMAIN inv /\ q[1] = p[1] /\ q[2] = p[2]
    BY <2>2, <2>3
  <2>. HIDE DEF q
  <2>7. q = <<q[1], q[2]>>
    BY <1>3, <2>6
  <2>8. q = p
    BY <1>3, <2>6, <2>7
  <2>4. msgs' = msgs
    BY <1>4 DEF Post
  <2>. QED
    BY <1>1, <1>2, <1>6, <2>8, <2>4 DEF NamesApart, TxnId, q
<1>5. CASE ~\E m \in msgs : m.txn = txn
  <2>. DEFINE new == [txn |-> txn, by |-> p]
  <2>1. msgs' = msgs \cup {new}
    BY <1>5 DEF Post
  <2>2. new.by = p /\ new = [txn |-> TxnId(new.by[1], new.by[2]), by |-> new.by]
    OBVIOUS
  <2>. HIDE DEF new
  <2>3. \A m \in msgs' : /\ m.by \in DOMAIN inv'
                         /\ m = [txn |-> TxnId(m.by[1], m.by[2]), by |-> m.by]
    BY <1>1, <2>1, <2>2 DEF NamesApart
  <2>4. ASSUME NEW q \in DOMAIN inv', inv'[q].kind = "matrix_send",
               inv'[q].phase \in {"acted", "ok"}
        PROVE  \E m \in msgs' : m.by = q
    <3>1. CASE q = p
      BY <2>1, <2>2, <3>1
    <3>2. CASE q # p
      BY <1>1, <2>1, <2>4, <3>2 DEF NamesApart
    <3>. QED
      BY <3>1, <3>2
  <2>. QED
    BY <1>1, <1>2, <1>6, <2>3, <2>4 DEF NamesApart, TxnId
<1>. QED
  BY <1>4, <1>5

LEMMA NamesApartNext ==
    ASSUME Typed, NamesApart, [Next]_vars
    PROVE  NamesApart'
<1>1. CASE \E k \in RootKeys, dag \in RootDags, t \in Triggers : TriggerRun(k, dag, t)
  BY <1>1 DEF TriggerRun, NamesApart, TxnId
<1>2. ASSUME NEW k \in DOMAIN run, RunStep(k)
      PROVE  NamesApart'
  <2>1. CASE AskLayer(k)
    <3>. DEFINE layer == ReadySteps(run[k].dag, run[k].got)
    <3>1. /\ layer \subseteq StepIds(run[k].dag)
          /\ DOMAIN inv' = DOMAIN inv \cup ({k} \X layer)
          /\ \A p \in DOMAIN inv : inv'[p] = inv[p]
          /\ \A s \in layer : inv'[<<k, s>>] = BuildInvocation(k, s)
          /\ msgs' = msgs
      BY <2>1, TypedAsk
    <3>2. \A s \in layer : inv'[<<k, s>>].phase = "queued"
      BY <3>1, Invoked
    <3>. QED
      BY <3>1, <3>2 DEF NamesApart, TxnId
  <2>2. CASE ~AskLayer(k)
    <3>1. UNCHANGED <<inv, msgs>>
      BY <1>2, <2>2, TypedRun DEF RunStep
    <3>. QED
      BY <3>1 DEF NamesApart, TxnId
  <2>. QED
    BY <2>1, <2>2
<1>3. ASSUME NEW p \in DOMAIN inv, Attempt(p) \/ LoseAttempt(p) \/ Resume(p)
      PROVE  NamesApart'
  <2>1. CASE Post(p)
    BY <2>1, NamesApartPost
  <2>2. CASE ~Post(p)
    <3>1. msgs' = msgs
      BY <1>3, <2>2 DEF Attempt, Begin, RenderFails, Answer, Refuse, Transient, StartAgent,
         AgentTurn, RefuseChild, CallChild, ChildEnded, LoseAttempt, Resume
    <3>2. /\ DOMAIN inv' = DOMAIN inv
          /\ \A q \in DOMAIN inv \ {p} : inv'[q] = inv[q]
          /\ inv'[p].kind = inv[p].kind
      BY <1>3, AttemptKeeps
    <3>3. inv[p].kind = "matrix_send" /\ inv'[p].phase \in {"acted", "ok"} =>
             inv[p].phase \in {"acted", "ok"}
      <4>1. inv[p].kind = "matrix_send" => inv[p].phase # "waiting"
        BY DEF NamesApart
      <4>. QED
        BY <1>3, <2>2, AttemptPhases, <4>1 DEF Answer, StartAgent
    <3>4. inv[p].kind = "matrix_send" => inv'[p].phase # "waiting"
      BY <1>3, <2>2, AttemptPhases DEF CallChild, Durable, NamesApart
    <3>. QED
      BY <3>1, <3>2, <3>3, <3>4 DEF NamesApart, TxnId
  <2>. QED
    BY <2>1, <2>2
<1>4. CASE UNCHANGED vars
  BY <1>4 DEF vars, NamesApart, TxnId
<1>. QED
  BY <1>1, <1>2, <1>3, <1>4, Steps

LEMMA NamesApartIsOnce ==
    ASSUME Typed, NamesApart
    PROVE  MessageOnce
<1>. SUFFICES ASSUME NEW p \in DOMAIN inv
              PROVE  /\ Cardinality({m \in msgs : m.by = p}) <= 1
                     /\ inv[p].kind = "matrix_send" /\ inv[p].phase = "ok" =>
                           {m \in msgs : m.by = p} # {}
  BY DEF MessageOnce
<1>. DEFINE mine == {m \in msgs : m.by = p}
            it == [txn |-> TxnId(p[1], p[2]), by |-> p]
<1>1. mine \subseteq {it}
  BY DEF NamesApart
<1>2. mine = {} \/ mine = {it}
  BY <1>1
<1>3. Cardinality(mine) <= 1
  <2>1. Cardinality({}) = 0 /\ Cardinality({it}) = 1
    BY FS_EmptySet, FS_Singleton
  <2>. QED
    BY <1>2, <2>1
<1>4. inv[p].kind = "matrix_send" /\ inv[p].phase = "ok" => mine # {}
  BY DEF NamesApart
<1>. QED
  BY <1>3, <1>4

\* However often its attempts are lost or made again, a message step posts once, and
\* one that answered has posted (matrix_step.rs, txn_id).
THEOREM PostedOnce == Spec => []MessageOnce
<1>1. Init => NamesApart
  BY DEF Init, NamesApart
<1>2. Typed /\ NamesApart /\ [Next]_vars => NamesApart'
  BY NamesApartNext
<1>3. Typed /\ NamesApart => MessageOnce
  BY NamesApartIsOnce
<1>. QED
  BY <1>1, <1>2, <1>3, TypedAlways, PTL DEF Spec

---------------------------------------------------------------------------
(* Depth and trigger *)

\* An invocation speaks for its run.
SpeaksForItsRun ==
    \A p \in DOMAIN inv :
        inv[p].depth = run[p[1]].depth /\ inv[p].trigger = run[p[1]].trigger

Lineage == BoundedAndForTheTrigger /\ SpeaksForItsRun

\* A run's key starts with the key of the run its caller triggered.
LEMMA HeadOfChild ==
    ASSUME NEW k \in Seq(Tokens), k # << >>, NEW s \in Seq(Tokens)
    PROVE  Head(ChildRunKey(k, s)) = Head(k)
<1>1. <<":">> \in Seq(Tokens) /\ Len(<<":">>) = 1
  BY NamesAssumption
<1>2. Len(k) \in Nat /\ Len(k) # 0 /\ Len(s) \in Nat
  BY EmptySeq, LenProperties
<1>3. k \o <<":">> \in Seq(Tokens) /\ (k \o <<":">>)[1] = k[1]
      /\ Len(k \o <<":">>) = Len(k) + 1
  BY <1>1, <1>2
<1>4. ChildRunKey(k, s) \in Seq(Tokens) /\ ChildRunKey(k, s)[1] = k[1]
      /\ Len(ChildRunKey(k, s)) = Len(k) + 1 + Len(s)
  BY <1>2, <1>3 DEF ChildRunKey
<1>5. Len(ChildRunKey(k, s)) # 0
  BY <1>2, <1>4
<1>. QED
  BY <1>2, <1>4, <1>5

\* Nothing a run was created with changes, and new runs come with the lineage.
LEMMA LineageKept ==
    ASSUME Lineage,
           \A k \in DOMAIN run : /\ k \in DOMAIN run'
                                 /\ run'[k].depth = run[k].depth
                                 /\ run'[k].trigger = run[k].trigger,
           \A k \in DOMAIN run' \ DOMAIN run :
               /\ run'[k].depth <= MaxDepth
               /\ <<Head(k)>> \in DOMAIN run'
               /\ run'[k].trigger = run'[<<Head(k)>>].trigger
    PROVE  BoundedAndForTheTrigger'
<1>. SUFFICES ASSUME NEW k \in DOMAIN run'
              PROVE  /\ run'[k].depth <= MaxDepth
                     /\ <<Head(k)>> \in DOMAIN run'
                     /\ run'[k].trigger = run'[<<Head(k)>>].trigger
  BY DEF BoundedAndForTheTrigger
<1>1. CASE k \in DOMAIN run
  <2>1. /\ run[k].depth <= MaxDepth /\ <<Head(k)>> \in DOMAIN run
        /\ run[k].trigger = run[<<Head(k)>>].trigger
    BY <1>1 DEF Lineage, BoundedAndForTheTrigger
  <2>. QED
    BY <1>1, <2>1
<1>. QED
  BY <1>1

LEMMA LineageTrigger ==
    ASSUME Typed, Lineage, NEW k \in RootKeys, NEW dag \in RootDags, NEW t \in Triggers,
           TriggerRun(k, dag, t)
    PROVE  Lineage'
<1>1. /\ DOMAIN run' = DOMAIN run \cup {k}
      /\ \A x \in DOMAIN run : run'[x] = run[x]
      /\ run'[k] = NewRun(dag, 0, t)
      /\ inv' = inv
  BY DEF TriggerRun, Put
<1>2. run'[k].depth = 0 /\ 0 <= MaxDepth
  BY <1>1, BoundsAssumption DEF NewRun
<1>3. <<Head(k)>> = k
  <2>1. PICK x \in Tokens : k = <<x>>
    BY NamesAssumption
  <2>. QED
    BY <2>1
<1>4. BoundedAndForTheTrigger'
  BY <1>1, <1>2, <1>3, LineageKept
<1>5. SpeaksForItsRun'
  BY <1>1 DEF SpeaksForItsRun, Lineage, Typed, Asked
<1>. QED
  BY <1>4, <1>5 DEF Lineage

LEMMA LineageRun ==
    ASSUME Typed, Lineage, NEW k \in DOMAIN run, RunStep(k)
    PROVE  Lineage'
<1>1. CASE AskLayer(k)
  <2>. DEFINE layer == ReadySteps(run[k].dag, run[k].got)
  <2>1. /\ layer \subseteq StepIds(run[k].dag)
        /\ DOMAIN run' = DOMAIN run
        /\ \A x \in DOMAIN run \ {k} : run'[x] = run[x]
        /\ run'[k].depth = run[k].depth /\ run'[k].trigger = run[k].trigger
        /\ DOMAIN inv' = DOMAIN inv \cup ({k} \X layer)
        /\ \A p \in DOMAIN inv : inv'[p] = inv[p]
        /\ \A s \in layer : inv'[<<k, s>>] = BuildInvocation(k, s)
    BY <1>1, TypedAsk
  <2>2. \A x \in DOMAIN run :
           run'[x].depth = run[x].depth /\ run'[x].trigger = run[x].trigger
    BY <2>1
  <2>3. BoundedAndForTheTrigger'
    BY <2>1, <2>2, LineageKept
  <2>4. ASSUME NEW p \in DOMAIN inv'
        PROVE  inv'[p].depth = run'[p[1]].depth /\ inv'[p].trigger = run'[p[1]].trigger
    <3>1. CASE p \in DOMAIN inv
      BY <2>1, <2>2, <3>1 DEF Lineage, SpeaksForItsRun, Typed, Asked
    <3>2. CASE p \in {k} \X layer
      <4>1. PICK s \in layer : p = <<k, s>>
        BY <3>2
      <4>2. inv'[<<k, s>>].depth = run[k].depth /\ inv'[<<k, s>>].trigger = run[k].trigger
        BY <2>1, Invoked
      <4>. QED
        BY <2>2, <4>1, <4>2
    <3>. QED
      BY <2>1, <3>1, <3>2
  <2>. QED
    BY <2>3, <2>4 DEF Lineage, SpeaksForItsRun
<1>2. CASE ~AskLayer(k)
  <2>1. UNCHANGED inv
        /\ \E r \in RunRec : /\ run' = [run EXCEPT ![k] = r]
                              /\ r.depth = run[k].depth /\ r.trigger = run[k].trigger
    BY <1>2, TypedRun DEF RunStep
  <2>2. DOMAIN run' = DOMAIN run
        /\ \A x \in DOMAIN run :
              run'[x].depth = run[x].depth /\ run'[x].trigger = run[x].trigger
    BY <2>1
  <2>3. BoundedAndForTheTrigger'
    BY <2>2, LineageKept
  <2>4. SpeaksForItsRun'
    BY <2>1, <2>2 DEF Lineage, SpeaksForItsRun, Typed, Asked
  <2>. QED
    BY <2>3, <2>4 DEF Lineage
<1>. QED
  BY <1>1, <1>2

LEMMA LineageAttempt ==
    ASSUME Typed, Lineage, NEW p \in DOMAIN inv, Attempt(p) \/ LoseAttempt(p) \/ Resume(p)
    PROVE  Lineage'
<1>1. /\ DOMAIN inv' = DOMAIN inv
      /\ \A q \in DOMAIN inv : inv'[q].depth = inv[q].depth /\ inv'[q].trigger = inv[q].trigger
      /\ \A k \in DOMAIN run : k \in DOMAIN run' /\ run'[k] = run[k]
  BY AttemptKeeps
<1>2. ASSUME NEW k \in DOMAIN run' \ DOMAIN run
      PROVE  /\ run'[k].depth <= MaxDepth
             /\ <<Head(k)>> \in DOMAIN run'
             /\ run'[k].trigger = run'[<<Head(k)>>].trigger
  <2>1. CallChild(p)
    BY AttemptKeeps
  <2>2. k = ChildRunKey(p[1], p[2])
        /\ run'[k] = NewRun(inv[p].sub, inv[p].depth + 1, inv[p].trigger)
    <3>. DEFINE child == ChildRunKey(p[1], p[2])
    <3>1. /\ DOMAIN run' = DOMAIN run \cup {child}
          /\ child \notin DOMAIN run =>
                run'[child] = NewRun(inv[p].sub, inv[p].depth + 1, inv[p].trigger)
      BY <2>1, TypedCall
    <3>. QED
      BY <3>1
  <2>3. inv[p].depth + 1 <= MaxDepth
    BY <2>1 DEF CallChild, Prepared
  <2>4. p[1] \in DOMAIN run /\ p[1] \in Seq(Tokens) /\ p[1] # << >> /\ p[2] \in Seq(Tokens)
    BY DEF Typed, RunsTyped, Asked, RunRec
  <2>5. Head(k) = Head(p[1])
    BY <2>2, <2>4, HeadOfChild
  <2>6. /\ inv[p].trigger = run[p[1]].trigger
        /\ <<Head(p[1])>> \in DOMAIN run
        /\ run[p[1]].trigger = run[<<Head(p[1])>>].trigger
    BY <2>4 DEF Lineage, SpeaksForItsRun, BoundedAndForTheTrigger
  <2>. QED
    BY <1>1, <2>2, <2>3, <2>5, <2>6 DEF NewRun
<1>3. BoundedAndForTheTrigger'
  BY <1>1, <1>2, LineageKept
<1>4. SpeaksForItsRun'
  BY <1>1 DEF Lineage, SpeaksForItsRun, Typed, Asked
<1>. QED
  BY <1>3, <1>4 DEF Lineage

\* However sub-workflows nest, a run is under the ceiling and acts for the person who
\* triggered the outermost one, for every ceiling and every set of graphs, those that
\* share names included (subworkflow.rs, prepare; durable.rs, run_child_dag).
THEOREM AlwaysForTheTrigger == Spec => []BoundedAndForTheTrigger
<1>1. Init => Lineage
  BY DEF Init, Lineage, SpeaksForItsRun, BoundedAndForTheTrigger
<1>2. ASSUME Typed, Lineage, [Next]_vars
      PROVE  Lineage'
  <2>1. CASE UNCHANGED vars
    BY <1>2, <2>1 DEF vars, Lineage, SpeaksForItsRun, BoundedAndForTheTrigger
  <2>. QED
    BY <1>2, <2>1, Steps, LineageTrigger, LineageRun, LineageAttempt
<1>. QED
  BY <1>1, <1>2, TypedAlways, PTL DEF Spec, Lineage

---------------------------------------------------------------------------
(* Kahn's sort.  The induction over its rounds is on sets of naturals: a   *)
(* set that misses some number of rounds misses a least one.               *)

\* A set of numbers that holds 0, and the successor of each of its members below n,
\* holds every number up to n.
LEMMA AllRounds ==
    ASSUME NEW n \in Nat, NEW S, 0 \in S, \A m \in 0..n : m \in S /\ m < n => m + 1 \in S
    PROVE  n \in S /\ 0..n \subseteq S
<1>. DEFINE T == {0..m : m \in 0..n \ S}
<1>1. ASSUME T # {}
      PROVE  FALSE
  <2>1. T \subseteq FiniteSubsetsOf(Nat)
    <3>1. \A m \in 0..n : IsFiniteSet(0..m) /\ 0..m \subseteq Nat
      <4>1. \A m \in 0..n : 0 \in Int /\ m \in Int
        OBVIOUS
      <4>2. \A m \in 0..n : IsFiniteSet(0..m)
        BY ONLY <4>1, FS_Interval
      <4>. QED
        BY <4>2
    <3>. QED
      BY <3>1 DEF FiniteSubsetsOf
  <2>2. PICK x \in T : \A y \in T : ~(<<y, x>> \in StrictSubsetOrdering(Nat))
    <3>. HIDE DEF T
    <3>. QED
      BY <1>1, <2>1, FS_StrictSubsetOrderingWellFounded, WFMin
  <2>3. PICK least \in 0..n : least \notin S /\ x = 0..least
    BY <2>2
  <2>4. /\ least # 0 /\ least - 1 \in 0..n /\ least - 1 < n /\ (least - 1) + 1 = least
        /\ 0..(least - 1) \subseteq 0..least /\ least \notin 0..(least - 1) /\ least \in 0..least
        /\ 0..least \subseteq Nat
    BY <2>3
  <2>5. 0..(least - 1) \notin T
    BY <2>2, <2>3, <2>4 DEF StrictSubsetOrdering
  <2>. QED
    BY <2>3, <2>4, <2>5
<1>2. \A m \in 0..n : m \in S
  BY <1>1
<1>. QED
  BY <1>2

\* The sort is what its rounds say: the recursion has a solution.
LEMMA RoundsUnfold ==
    ASSUME NEW dag \in Graphs
    PROVE  /\ Rounds(dag)[0] = Start(dag)
           /\ \A n \in 0..Len(dag) : n < Len(dag) =>
                 Rounds(dag)[n + 1] = Round(dag, Rounds(dag)[n])
<1>. DEFINE Solves(g, m) ==
               g = [n \in 0..m |-> IF n = 0 THEN Start(dag) ELSE Round(dag, g[n - 1])]
            S == {m \in 0..Len(dag) : \E g : Solves(g, m)}
<1>0. Len(dag) \in Nat
  BY GraphsAssumption
<1>1. 0 \in S
  <2>. DEFINE g == [n \in 0..0 |-> Start(dag)]
  <2>1. Solves(g, 0)
    OBVIOUS
  <2>2. 0 \in 0..Len(dag)
    BY <1>0
  <2>. HIDE DEF g, Solves
  <2>. QED
    BY <2>1, <2>2
<1>2. ASSUME NEW m \in 0..Len(dag), m \in S, m < Len(dag)
      PROVE  m + 1 \in S
  <2>1. PICK g : Solves(g, m)
    BY <1>2
  <2>. DEFINE h == [n \in 0..(m + 1) |-> IF n = m + 1 THEN Round(dag, g[m]) ELSE g[n]]
  <2>2. ASSUME NEW n \in 0..(m + 1)
        PROVE  h[n] = IF n = 0 THEN Start(dag) ELSE Round(dag, h[n - 1])
    <3>1. CASE n = m + 1
      BY <3>1
    <3>2. CASE n \in 0..m
      <4>1. h[n] = g[n] /\ (n # 0 => n - 1 \in 0..m /\ h[n - 1] = g[n - 1])
        BY <3>2
      <4>2. g[n] = IF n = 0 THEN Start(dag) ELSE Round(dag, g[n - 1])
        BY <2>1, <3>2
      <4>. QED
        BY <4>1, <4>2
    <3>. QED
      BY <3>1, <3>2
  <2>3. Solves(h, m + 1)
    BY <2>2
  <2>4. m + 1 \in 0..Len(dag)
    BY <1>0, <1>2
  <2>. QED
    BY <2>3, <2>4
<1>3. Len(dag) \in S
  <2>1. \A n \in 0..Len(dag) : n \in S /\ n < Len(dag) => n + 1 \in S
    BY <1>2
  <2>. HIDE DEF S
  <2>. QED
    BY <1>0, <1>1, <2>1, AllRounds
<1>4. Rounds(dag) = [n \in 0..Len(dag) |->
                        IF n = 0 THEN Start(dag) ELSE Round(dag, Rounds(dag)[n - 1])]
  BY <1>3 DEF Rounds
<1>5. 0 \in 0..Len(dag) /\ \A n \in 0..Len(dag) : n < Len(dag) =>
          n + 1 \in 0..Len(dag) /\ n + 1 # 0 /\ (n + 1) - 1 = n
  BY <1>0
<1>. QED
  BY <1>4, <1>5

\* What a step still waits for, repetitions counted.
Unmet(step, taken) == {j \in DOMAIN step.deps : step.deps[j] \notin taken}

\* The steps that wait for nothing but what was taken.
Free(dag, taken) == {dag[i].id : i \in {n \in DOMAIN dag : DepSet(dag[n]) \subseteq taken}}

\* The in-degrees are what remains to be met.
Counted(dag, sort) ==
    /\ sort.taken \subseteq StepIds(dag)
    /\ \A i \in DOMAIN dag : sort.degree[i] = Cardinality(Unmet(dag[i], sort.taken))

\* A list of dependencies is finite, and its length is the number of its positions.
LEMMA DepsFinite ==
    ASSUME NEW dag \in Graphs, NEW i \in DOMAIN dag
    PROVE  /\ IsFiniteSet(DOMAIN dag[i].deps)
           /\ Cardinality(DOMAIN dag[i].deps) = Len(dag[i].deps)
<1>1. PICK m \in Nat : m = Len(dag[i].deps) /\ DOMAIN dag[i].deps = 1..m
  <2>1. dag[i].deps \in Seq(Seq(Tokens))
    BY GraphsAssumption
  <2>. QED
    BY <2>1
<1>2. IsFiniteSet(1..m) /\ Cardinality(1..m) = IF 1 > m THEN 0 ELSE m - 1 + 1
  <2>1. 1 \in Int /\ m \in Int
    OBVIOUS
  <2>. QED
    BY ONLY <2>1, FS_Interval
<1>3. (IF 1 > m THEN 0 ELSE m - 1 + 1) = m
  OBVIOUS
<1>. QED
  BY <1>1, <1>2, <1>3

\* At the start nothing is met.
LEMMA StartCounts ==
    ASSUME NEW dag \in Graphs
    PROVE  Counted(dag, Start(dag)) /\ Start(dag).taken = {}
<1>1. ASSUME NEW i \in DOMAIN dag
      PROVE  InDegree(dag[i]) = Cardinality(Unmet(dag[i], {}))
  <2>1. Unmet(dag[i], {}) = DOMAIN dag[i].deps
    BY DEF Unmet
  <2>. QED
    BY <2>1, DepsFinite DEF InDegree
<1>. QED
  BY <1>1 DEF Counted, Start

\* A round takes out the steps whose dependencies were all taken, and counts right:
\* the subtraction never goes below zero.
LEMMA RoundCounts ==
    ASSUME NEW dag \in Graphs, NEW sort, Counted(dag, sort)
    PROVE  /\ Counted(dag, Round(dag, sort))
           /\ Round(dag, sort).taken = sort.taken \cup Free(dag, sort.taken)
<1>. DEFINE queue == {dag[i].id : i \in {m \in DOMAIN dag : sort.degree[m] = 0}} \ sort.taken
            less(i) == sort.degree[i] - Edges(dag[i], queue)
<1>1. ASSUME NEW i \in DOMAIN dag
      PROVE  /\ sort.degree[i] = Cardinality(Unmet(dag[i], sort.taken))
             /\ IsFiniteSet(Unmet(dag[i], sort.taken))
             /\ sort.degree[i] = 0 <=> DepSet(dag[i]) \subseteq sort.taken
  <2>1. sort.degree[i] = Cardinality(Unmet(dag[i], sort.taken))
    BY DEF Counted
  <2>2. IsFiniteSet(Unmet(dag[i], sort.taken))
    <3>1. Unmet(dag[i], sort.taken) \in SUBSET DOMAIN dag[i].deps
      BY DEF Unmet
    <3>. QED
      BY <3>1, DepsFinite, FS_Subset
  <2>3. Cardinality(Unmet(dag[i], sort.taken)) = 0 <=> Unmet(dag[i], sort.taken) = {}
    BY <2>2, FS_EmptySet
  <2>4. Unmet(dag[i], sort.taken) = {} <=> DepSet(dag[i]) \subseteq sort.taken
    BY DEF Unmet, DepSet
  <2>. QED
    BY <2>1, <2>2, <2>3, <2>4
<1>2. queue = Free(dag, sort.taken) \ sort.taken
  BY <1>1 DEF Free
<1>3. ASSUME NEW i \in DOMAIN dag
      PROVE  less(i) = Cardinality(Unmet(dag[i], sort.taken \cup queue)) /\ less(i) \in Nat
  <2>. DEFINE met == {j \in DOMAIN dag[i].deps : dag[i].deps[j] \in queue}
  <2>1. /\ Unmet(dag[i], sort.taken \cup queue) = Unmet(dag[i], sort.taken) \ met
        /\ Unmet(dag[i], sort.taken) \cap met = met
    BY DEF Unmet
  <2>. HIDE DEF met
  <2>2. /\ IsFiniteSet(Unmet(dag[i], sort.taken) \ met)
        /\ Cardinality(Unmet(dag[i], sort.taken) \ met) =
              Cardinality(Unmet(dag[i], sort.taken)) - Cardinality(met)
    <3>1. \A U, V : IsFiniteSet(U) =>
             /\ IsFiniteSet(U \ V)
             /\ Cardinality(U \ V) = Cardinality(U) - Cardinality(U \cap V)
      BY FS_Difference
    <3>2. /\ IsFiniteSet(Unmet(dag[i], sort.taken) \ met)
          /\ Cardinality(Unmet(dag[i], sort.taken) \ met) =
                Cardinality(Unmet(dag[i], sort.taken))
                  - Cardinality(Unmet(dag[i], sort.taken) \cap met)
      BY <1>1, <3>1
    <3>. QED
      BY <2>1, <3>2
  <2>3. Cardinality(Unmet(dag[i], sort.taken \cup queue)) \in Nat
    BY <2>1, <2>2, FS_CardinalityType
  <2>4. Edges(dag[i], queue) = Cardinality(met)
    BY DEF Edges, met
  <2>. QED
    BY <1>1, <2>1, <2>2, <2>3, <2>4
<1>4. /\ Round(dag, sort).taken = sort.taken \cup queue
      /\ \A i \in DOMAIN dag :
            Round(dag, sort).degree[i] = IF less(i) < 0 THEN 0 ELSE less(i)
  BY DEF Round
<1>5. queue \subseteq StepIds(dag)
  BY DEF StepIds
<1>. HIDE DEF queue, less
<1>6. \A i \in DOMAIN dag :
         Round(dag, sort).degree[i] = Cardinality(Unmet(dag[i], sort.taken \cup queue))
  <2>. TAKE i \in DOMAIN dag
  <2>1. PICK d \in Nat : d = less(i) /\ d = Cardinality(Unmet(dag[i], sort.taken \cup queue))
    BY <1>3
  <2>2. Round(dag, sort).degree[i] = IF d < 0 THEN 0 ELSE d
    BY <1>4, <2>1
  <2>. QED
    BY <2>1, <2>2
<1>. QED
  BY <1>2, <1>4, <1>5, <1>6 DEF Counted

Taken(dag, n) == Rounds(dag)[n].taken

\* The sort, without its counting: it begins with nothing and each round adds what
\* waits for nothing else.
LEMMA SortTakes ==
    ASSUME NEW dag \in Graphs
    PROVE  /\ Taken(dag, 0) = {}
           /\ \A n \in 0..Len(dag) :
                 /\ Taken(dag, n) \subseteq StepIds(dag)
                 /\ n < Len(dag) =>
                       Taken(dag, n + 1) = Taken(dag, n) \cup Free(dag, Taken(dag, n))
<1>. DEFINE S == {n \in 0..Len(dag) : Counted(dag, Rounds(dag)[n])}
<1>0. Len(dag) \in Nat
  BY GraphsAssumption
<1>1. 0 \in S
  BY <1>0, RoundsUnfold, StartCounts
<1>2. ASSUME NEW n \in 0..Len(dag), n \in S, n < Len(dag)
      PROVE  n + 1 \in S
  <2>1. Counted(dag, Round(dag, Rounds(dag)[n]))
    BY <1>2, RoundCounts
  <2>2. Rounds(dag)[n + 1] = Round(dag, Rounds(dag)[n])
    BY <1>2, RoundsUnfold
  <2>3. n + 1 \in 0..Len(dag)
    BY <1>0, <1>2
  <2>. QED
    BY <2>1, <2>2, <2>3
<1>3. \A n \in 0..Len(dag) : Counted(dag, Rounds(dag)[n])
  <2>1. \A n \in 0..Len(dag) : n \in S /\ n < Len(dag) => n + 1 \in S
    BY <1>2
  <2>2. 0..Len(dag) \subseteq S
    <3>. HIDE DEF S
    <3>. QED
      BY <1>0, <1>1, <2>1, AllRounds
  <2>. QED
    BY <2>2
<1>4. ASSUME NEW n \in 0..Len(dag), n < Len(dag)
      PROVE  Taken(dag, n + 1) = Taken(dag, n) \cup Free(dag, Taken(dag, n))
  BY <1>3, <1>4, RoundsUnfold, RoundCounts DEF Taken
<1>. QED
  BY <1>3, <1>4, RoundsUnfold, StartCounts DEF Taken, Counted

\* Where names are unique, what a step waits for is what its record lists.
LEMMA DepsOfStep ==
    ASSUME NEW dag \in Graphs, UniqueIds(dag), NEW i \in DOMAIN dag
    PROVE  DepsOf(dag, dag[i].id) = DepSet(dag[i])
<1>1. {n \in DOMAIN dag : dag[n].id = dag[i].id} = {i}
  BY DEF UniqueIds
<1>. QED
  BY <1>1 DEF DepsOf

\* The steps of a graph are no more than its list is long.
LEMMA FewSteps ==
    ASSUME NEW dag \in Graphs
    PROVE  /\ IsFiniteSet(StepIds(dag)) /\ Cardinality(StepIds(dag)) \in Nat
           /\ Cardinality(StepIds(dag)) <= Len(dag)
<1>. DEFINE at == 1..Len(dag)
            name == [i \in at |-> dag[i].id]
<1>1. Len(dag) \in Nat /\ DOMAIN dag = at
  BY GraphsAssumption
<1>2. IsFiniteSet(at) /\ Cardinality(at) = Len(dag)
  <2>1. \A n \in Nat : n \in Int /\ (IF 1 > n THEN 0 ELSE n - 1 + 1) = n
    OBVIOUS
  <2>2. Len(dag) \in Int /\ 1 \in Int /\ (IF 1 > Len(dag) THEN 0 ELSE Len(dag) - 1 + 1) = Len(dag)
    BY <1>1, <2>1
  <2>. HIDE DEF at
  <2>3. /\ IsFiniteSet(1..Len(dag))
        /\ Cardinality(1..Len(dag)) = IF 1 > Len(dag) THEN 0 ELSE Len(dag) - 1 + 1
    BY ONLY <2>2, FS_Interval
  <2>. QED
    BY <2>2, <2>3 DEF at
<1>3. StepIds(dag) = {name[i] : i \in at}
  BY <1>1 DEF StepIds
<1>4. name \in Surjection(at, StepIds(dag))
  BY <1>3 DEF Surjection
<1>5. IsFiniteSet(StepIds(dag)) /\ Cardinality(StepIds(dag)) <= Cardinality(at)
  BY <1>2, <1>4, FS_Surjection
<1>. QED
  BY <1>1, <1>2, <1>5, FS_CardinalityType

\* A graph all of whose steps are taken out has no group of steps that waits for
\* itself: the first of a group to be taken waits for none of them.
LEMMA SortedIsAcyclic ==
    ASSUME NEW dag \in Graphs, UniqueIds(dag), Sorted(dag) = StepIds(dag)
    PROVE  Acyclic(dag)
<1>. SUFFICES ASSUME NEW group \in (SUBSET StepIds(dag)) \ {{}},
                     \A s \in group : DepsOf(dag, s) \cap group # {}
              PROVE  FALSE
  BY DEF Acyclic
<1>. DEFINE S == {n \in 0..Len(dag) : Taken(dag, n) \cap group = {}}
<1>0. Len(dag) \in Nat
  BY GraphsAssumption
<1>1. 0 \in S
  BY <1>0, SortTakes
<1>2. ASSUME NEW n \in 0..Len(dag), n \in S, n < Len(dag)
      PROVE  n + 1 \in S
  <2>1. Taken(dag, n + 1) = Taken(dag, n) \cup Free(dag, Taken(dag, n))
    BY <1>2, SortTakes
  <2>2. ASSUME NEW s \in Free(dag, Taken(dag, n)) \cap group
        PROVE  FALSE
    <3>1. PICK i \in DOMAIN dag : s = dag[i].id /\ DepSet(dag[i]) \subseteq Taken(dag, n)
      BY DEF Free
    <3>2. DepsOf(dag, s) \subseteq Taken(dag, n)
      BY <3>1, DepsOfStep
    <3>. QED
      BY <1>2, <3>2
  <2>3. n + 1 \in 0..Len(dag)
    BY <1>0, <1>2
  <2>. QED
    BY <1>2, <2>1, <2>2, <2>3
<1>3. Len(dag) \in S
  <2>1. \A n \in 0..Len(dag) : n \in S /\ n < Len(dag) => n + 1 \in S
    BY <1>2
  <2>. HIDE DEF S
  <2>. QED
    BY <1>0, <1>1, <2>1, AllRounds
<1>4. StepIds(dag) \cap group = {}
  BY <1>3 DEF Sorted, Taken
<1>. QED
  BY <1>4

\* Where no group of steps waits for itself, a step is free as long as one is left.
LEMMA OneIsFree ==
    ASSUME NEW dag \in Graphs, Walkable(dag),
           NEW taken \in SUBSET StepIds(dag), taken # StepIds(dag)
    PROVE  Free(dag, taken) \ taken # {}
<1>1. PICK s \in StepIds(dag) \ taken : DepsOf(dag, s) \cap (StepIds(dag) \ taken) = {}
  BY DEF Walkable, Acyclic
<1>2. PICK i \in DOMAIN dag : dag[i].id = s
  BY DEF StepIds
<1>3. DepSet(dag[i]) \subseteq taken
  BY <1>1, <1>2, DepsOfStep DEF Walkable, NoDangling
<1>. QED
  BY <1>1, <1>2, <1>3 DEF Free

\* A graph that can be walked is emptied in as many rounds as it has steps: each
\* round takes one at least.
LEMMA AcyclicIsSorted ==
    ASSUME NEW dag \in Graphs, Walkable(dag)
    PROVE  Sorted(dag) = StepIds(dag)
<1>. DEFINE Far(n) == Taken(dag, n) = StepIds(dag) \/ Cardinality(Taken(dag, n)) >= n
            S == {n \in 0..Len(dag) : Far(n)}
<1>0. Len(dag) \in Nat
  BY GraphsAssumption
<1>1. 0 \in S
  <2>1. Cardinality(Taken(dag, 0)) = 0
    BY SortTakes, FS_EmptySet
  <2>. QED
    BY <1>0, <2>1
<1>2. ASSUME NEW n \in 0..Len(dag)
      PROVE  /\ IsFiniteSet(Taken(dag, n)) /\ Cardinality(Taken(dag, n)) \in Nat
             /\ Cardinality(Taken(dag, n)) <= Cardinality(StepIds(dag))
             /\ Cardinality(Taken(dag, n)) = Cardinality(StepIds(dag)) =>
                   Taken(dag, n) = StepIds(dag)
  BY SortTakes, FewSteps, FS_Subset, FS_CardinalityType
<1>3. ASSUME NEW n \in 0..Len(dag), n \in S, n < Len(dag)
      PROVE  n + 1 \in S
  <2>1. n + 1 \in 0..Len(dag) /\ n \in Nat
    BY <1>0, <1>3
  <2>2. /\ Taken(dag, n) \subseteq StepIds(dag) /\ Taken(dag, n + 1) \subseteq StepIds(dag)
        /\ Taken(dag, n + 1) = Taken(dag, n) \cup Free(dag, Taken(dag, n))
    BY <1>3, <2>1, SortTakes
  <2>3. CASE Taken(dag, n) = StepIds(dag)
    BY <2>1, <2>2, <2>3
  <2>4. CASE Taken(dag, n) # StepIds(dag)
    <3>1. Taken(dag, n + 1) # Taken(dag, n)
      BY <2>2, <2>4, OneIsFree
    <3>2. /\ Cardinality(Taken(dag, n)) <= Cardinality(Taken(dag, n + 1))
          /\ Cardinality(Taken(dag, n)) # Cardinality(Taken(dag, n + 1))
      <4>1. Taken(dag, n) \in SUBSET Taken(dag, n + 1) /\ IsFiniteSet(Taken(dag, n + 1))
        BY <1>2, <2>1, <2>2
      <4>. QED
        BY <3>1, <4>1, FS_Subset
    <3>3. Cardinality(Taken(dag, n)) >= n
      BY <1>3, <2>4
    <3>4. Cardinality(Taken(dag, n)) \in Nat /\ Cardinality(Taken(dag, n + 1)) \in Nat
      BY <1>2, <2>1
    <3>5. Cardinality(Taken(dag, n + 1)) >= n + 1
      BY <2>1, <3>2, <3>3, <3>4
    <3>. QED
      BY <2>1, <3>5
  <2>. QED
    BY <2>3, <2>4
<1>4. Len(dag) \in S
  <2>1. \A n \in 0..Len(dag) : n \in S /\ n < Len(dag) => n + 1 \in S
    BY <1>3
  <2>. HIDE DEF S
  <2>. QED
    BY <1>0, <1>1, <2>1, AllRounds
<1>5. CASE Cardinality(Taken(dag, Len(dag))) >= Len(dag)
  <2>1. Len(dag) \in 0..Len(dag)
    BY <1>0
  <2>2. Cardinality(Taken(dag, Len(dag))) = Cardinality(StepIds(dag))
    BY <1>0, <1>2, <1>5, <2>1, FewSteps
  <2>. QED
    BY <1>2, <2>1, <2>2 DEF Sorted, Taken
<1>. QED
  BY <1>4, <1>5 DEF Sorted, Taken

\* validate_dag accepts exactly the graphs that can be walked.
LEMMA ValidIsWalkable ==
    ASSUME NEW dag \in Graphs
    PROVE  Valid(dag) <=> Walkable(dag)
  BY SortedIsAcyclic, AcyclicIsSorted DEF Valid, Walkable

---------------------------------------------------------------------------
(* Outcomes *)

\* Only a graph that passed the validation is walked, only one that did not is rejected.
WalksOnlyTheValid ==
    \A k \in DOMAIN run :
        /\ run[k].status = "new" => run[k].asked = {}
        /\ run[k].status = "rejected" => ~Valid(run[k].dag)
        /\ run[k].status \in {"walking", "done", "failed"} => Valid(run[k].dag)

CollectedIsOk ==
    \A k \in DOMAIN run :
        /\ \A s \in run[k].got : inv[<<k, s>>].phase = "ok"
        /\ run[k].status = "done" => run[k].got = StepIds(run[k].dag)

OkThroughItsChild ==
    \A p \in DOMAIN inv :
        /\ inv[p].phase = "waiting" => Durable(p)
        /\ Durable(p) /\ inv[p].phase \in {"waiting", "ok"} =>
              ChildRunKey(p[1], p[2]) \in DOMAIN run
        /\ Durable(p) /\ inv[p].phase = "ok" =>
              run[ChildRunKey(p[1], p[2])].status = "done"

Outcomes == WalksOnlyTheValid /\ CollectedIsOk /\ OkThroughItsChild

\* A run that was answered as many steps as its graph has was answered all of them.
LEMMA AllCollected ==
    ASSUME NEW dag \in Graphs, NEW got \in SUBSET StepIds(dag), Cardinality(got) = Len(dag)
    PROVE  got = StepIds(dag)
<1>1. /\ Cardinality(got) \in Nat /\ Cardinality(StepIds(dag)) \in Nat
      /\ Cardinality(got) <= Cardinality(StepIds(dag))
      /\ Cardinality(got) = Cardinality(StepIds(dag)) => got = StepIds(dag)
  BY FewSteps, FS_Subset, FS_CardinalityType
<1>2. Len(dag) \in Nat /\ Cardinality(StepIds(dag)) <= Len(dag)
  BY GraphsAssumption, FewSteps
<1>. QED
  BY <1>1, <1>2

\* What one turn of a walk changes when it asks for nothing.
LEMMA RunProgress ==
    ASSUME Typed, NEW k \in DOMAIN run, RunStep(k), ~AskLayer(k)
    PROVE  /\ DOMAIN run' = DOMAIN run
           /\ \A x \in DOMAIN run \ {k} : run'[x] = run[x]
           /\ run'[k].dag = run[k].dag /\ run'[k].asked = run[k].asked
           /\ UNCHANGED inv
           /\ \/ /\ run[k].status = "new" /\ run'[k].got = run[k].got
                 /\ run'[k].status = IF Valid(run[k].dag) THEN "walking" ELSE "rejected"
              \/ /\ run[k].status = "walking" /\ run'[k].got = run[k].got
                 /\ run'[k].status = "done"
                 /\ Cardinality(run[k].got) = Len(run[k].dag)
              \/ /\ run[k].status = "walking" /\ run'[k].got = run[k].got
                 /\ run'[k].status = "failed"
                 /\ \E s \in run[k].asked : inv[<<k, s>>].phase = "err"
              \/ /\ run[k].status = "walking" /\ run'[k].status = "walking"
                 /\ \E s \in run[k].asked : /\ inv[<<k, s>>].phase = "ok"
                                            /\ run'[k].got = run[k].got \cup {s}
<1>0. run[k] \in RunRec /\ run \in [DOMAIN run -> RunRec]
  BY DEF Typed, RunsTyped
<1>1. CASE Validate(k)
  BY <1>0, <1>1 DEF Validate, RunRec
<1>2. CASE FinishRun(k)
  BY <1>0, <1>2 DEF FinishRun, RunRec
<1>3. ASSUME NEW s \in run[k].asked, Collect(k, s)
      PROVE  /\ DOMAIN run' = DOMAIN run
             /\ \A x \in DOMAIN run \ {k} : run'[x] = run[x]
             /\ run'[k].dag = run[k].dag /\ run'[k].asked = run[k].asked
             /\ UNCHANGED inv
             /\ run[k].status = "walking" /\ run'[k].status = "walking"
             /\ inv[<<k, s>>].phase = "ok" /\ run'[k].got = run[k].got \cup {s}
  BY <1>0, <1>3 DEF Collect, RunRec
<1>4. ASSUME NEW s \in run[k].asked, CollectFailure(k, s)
      PROVE  /\ DOMAIN run' = DOMAIN run
             /\ \A x \in DOMAIN run \ {k} : run'[x] = run[x]
             /\ run'[k].dag = run[k].dag /\ run'[k].asked = run[k].asked
             /\ UNCHANGED inv
             /\ run[k].status = "walking" /\ run'[k].status = "failed"
             /\ inv[<<k, s>>].phase = "err" /\ run'[k].got = run[k].got
  BY <1>0, <1>4 DEF CollectFailure, RunRec
<1>. QED
  BY <1>1, <1>2, <1>3, <1>4 DEF RunStep

LEMMA OutcomesTrigger ==
    ASSUME Typed, Outcomes, NEW k \in RootKeys, NEW dag \in RootDags, NEW t \in Triggers,
           TriggerRun(k, dag, t)
    PROVE  Outcomes'
<1>1. /\ k \notin DOMAIN run
      /\ DOMAIN run' = DOMAIN run \cup {k}
      /\ \A x \in DOMAIN run : run'[x] = run[x]
      /\ run'[k] = NewRun(dag, 0, t)
      /\ inv' = inv
  BY DEF TriggerRun, Put
<1>2. run'[k].status = "new" /\ run'[k].asked = {} /\ run'[k].got = {}
  BY <1>1 DEF NewRun
<1>3. WalksOnlyTheValid' /\ CollectedIsOk'
  BY <1>1, <1>2 DEF Outcomes, WalksOnlyTheValid, CollectedIsOk
<1>4. OkThroughItsChild'
  BY <1>1 DEF Outcomes, OkThroughItsChild, Durable
<1>. QED
  BY <1>3, <1>4 DEF Outcomes

LEMMA OutcomesAsk ==
    ASSUME Typed, Outcomes, NEW k \in DOMAIN run, AskLayer(k)
    PROVE  Outcomes'
<1>. DEFINE layer == ReadySteps(run[k].dag, run[k].got)
<1>1. /\ layer \subseteq StepIds(run[k].dag)
      /\ DOMAIN run' = DOMAIN run
      /\ \A x \in DOMAIN run \ {k} : run'[x] = run[x]
      /\ run'[k].dag = run[k].dag /\ run'[k].status = run[k].status
      /\ run'[k].got = run[k].got
      /\ DOMAIN inv' = DOMAIN inv \cup ({k} \X layer)
      /\ \A p \in DOMAIN inv : inv'[p] = inv[p]
      /\ \A s \in layer : inv'[<<k, s>>] = BuildInvocation(k, s)
  BY TypedAsk
<1>2. run[k].status = "walking"
  BY DEF AskLayer
<1>3. \A x \in DOMAIN run : /\ run'[x].dag = run[x].dag
                            /\ run'[x].status = run[x].status
                            /\ run'[x].got = run[x].got
  BY <1>1
<1>4. WalksOnlyTheValid'
  BY <1>1, <1>2, <1>3 DEF Outcomes, WalksOnlyTheValid
<1>5. CollectedIsOk'
  <2>1. \A x \in DOMAIN run : \A s \in run[x].got : <<x, s>> \in DOMAIN inv
    BY DEF Typed, RunsTyped, Asked
  <2>. QED
    BY <1>1, <1>3, <2>1 DEF Outcomes, CollectedIsOk
<1>6. \A s \in layer : inv'[<<k, s>>].phase = "queued"
  BY <1>1, Invoked
<1>7. OkThroughItsChild'
  <2>1. ASSUME NEW p \in DOMAIN inv'
        PROVE  \/ p \in DOMAIN inv /\ inv'[p] = inv[p]
               \/ inv'[p].phase = "queued"
    BY <1>1, <1>6
  <2>. QED
    BY <1>1, <1>3, <2>1 DEF Outcomes, OkThroughItsChild, Durable
<1>. QED
  BY <1>4, <1>5, <1>7 DEF Outcomes

LEMMA OutcomesRun ==
    ASSUME Typed, Outcomes, NEW k \in DOMAIN run, RunStep(k), ~AskLayer(k)
    PROVE  Outcomes'
<1>0. run[k] \in RunRec /\ run[k].got \subseteq run[k].asked
      /\ run[k].asked \subseteq StepIds(run[k].dag)
  BY DEF Typed, RunsTyped
<1>1. /\ DOMAIN run' = DOMAIN run
      /\ \A x \in DOMAIN run \ {k} : run'[x] = run[x]
      /\ run'[k].dag = run[k].dag /\ run'[k].asked = run[k].asked
      /\ inv' = inv
      /\ run[k].status # "done"
  BY RunProgress
<1>2. WalksOnlyTheValid'
  <2>1. /\ run'[k].status # "new"
        /\ run'[k].status = "rejected" => ~Valid(run[k].dag)
        /\ run'[k].status \in {"walking", "done", "failed"} => Valid(run[k].dag)
    BY RunProgress DEF Outcomes, WalksOnlyTheValid
  <2>. QED
    BY <1>1, <2>1 DEF Outcomes, WalksOnlyTheValid
<1>3. CollectedIsOk'
  <2>1. \A s \in run'[k].got : inv[<<k, s>>].phase = "ok"
    <3>1. \/ run'[k].got = run[k].got
          \/ \E s \in run[k].asked : /\ inv[<<k, s>>].phase = "ok"
                                     /\ run'[k].got = run[k].got \cup {s}
      BY RunProgress
    <3>2. \A s \in run[k].got : inv[<<k, s>>].phase = "ok"
      BY DEF Outcomes, CollectedIsOk
    <3>. QED
      BY <3>1, <3>2
  <2>2. run'[k].status = "done" => run'[k].got = StepIds(run[k].dag)
    <3>1. run'[k].status = "done" =>
             run'[k].got = run[k].got /\ Cardinality(run[k].got) = Len(run[k].dag)
      BY RunProgress
    <3>2. run[k].dag \in Graphs /\ run[k].got \in SUBSET StepIds(run[k].dag)
      BY <1>0 DEF RunRec
    <3>. QED
      BY <3>1, <3>2, AllCollected
  <2>. QED
    BY <1>1, <2>1, <2>2 DEF Outcomes, CollectedIsOk
<1>4. OkThroughItsChild'
  BY <1>1 DEF Outcomes, OkThroughItsChild, Durable
<1>. QED
  BY <1>2, <1>3, <1>4 DEF Outcomes

LEMMA OutcomesAttempt ==
    ASSUME Typed, Outcomes, NEW p \in DOMAIN inv, Attempt(p) \/ LoseAttempt(p) \/ Resume(p)
    PROVE  Outcomes'
<1>1. /\ DOMAIN inv' = DOMAIN inv
      /\ \A q \in DOMAIN inv \ {p} : inv'[q] = inv[q]
      /\ inv'[p].kind = inv[p].kind
      /\ \A k \in DOMAIN run : k \in DOMAIN run' /\ run'[k] = run[k]
      /\ inv[p].phase \notin Settled
  BY AttemptKeeps, AttemptPhases
<1>2. ASSUME NEW k \in DOMAIN run' \ DOMAIN run
      PROVE  run'[k].status = "new" /\ run'[k].asked = {} /\ run'[k].got = {}
  <2>. DEFINE child == ChildRunKey(p[1], p[2])
  <2>1. CallChild(p)
    BY AttemptKeeps
  <2>2. /\ DOMAIN run' = DOMAIN run \cup {child}
        /\ child \notin DOMAIN run =>
              run'[child] = NewRun(inv[p].sub, inv[p].depth + 1, inv[p].trigger)
    BY <2>1, TypedCall
  <2>. QED
    BY <2>2 DEF NewRun
<1>3. WalksOnlyTheValid'
  BY <1>1, <1>2 DEF Outcomes, WalksOnlyTheValid
<1>4. CollectedIsOk'
  <2>1. \A k \in DOMAIN run : \A s \in run[k].got :
           <<k, s>> \in DOMAIN inv /\ inv[<<k, s>>].phase = "ok"
    BY DEF Outcomes, CollectedIsOk, Typed, RunsTyped, Asked
  <2>2. \A q \in DOMAIN inv : inv[q].phase = "ok" => inv'[q].phase = "ok"
    BY <1>1 DEF Settled
  <2>. QED
    BY <1>1, <1>2, <2>1, <2>2 DEF Outcomes, CollectedIsOk
<1>5. OkThroughItsChild'
  <2>. DEFINE child == ChildRunKey(p[1], p[2])
  <2>1. inv'[p].phase = "waiting" => Durable(p) /\ child \in DOMAIN run'
    <3>1. inv'[p].phase = "waiting" => CallChild(p)
      BY AttemptPhases DEF AgentTurn
    <3>. QED
      BY <3>1, TypedCall DEF CallChild
  <2>2. Durable(p) /\ inv'[p].phase = "ok" =>
           child \in DOMAIN run' /\ run'[child].status = "done"
    <3>1. Durable(p) /\ inv'[p].phase = "ok" =>
             inv[p].phase = "waiting" /\ run[child].status = "done"
      BY AttemptPhases DEF Answer, Durable, AgentTurn
    <3>. QED
      BY <1>1, <3>1 DEF Outcomes, OkThroughItsChild
  <2>3. \A q \in DOMAIN inv \ {p} :
           /\ inv'[q].phase = "waiting" => inv'[q].kind = "subworkflow"
           /\ inv'[q].kind = "subworkflow" /\ inv'[q].phase \in {"waiting", "ok"} =>
                 ChildRunKey(q[1], q[2]) \in DOMAIN run'
           /\ inv'[q].kind = "subworkflow" /\ inv'[q].phase = "ok" =>
                 run'[ChildRunKey(q[1], q[2])].status = "done"
    BY <1>1 DEF Outcomes, OkThroughItsChild, Durable
  <2>4. Durable(p) <=> inv'[p].kind = "subworkflow"
    BY <1>1 DEF Durable
  <2>. QED
    BY <1>1, <2>1, <2>2, <2>3, <2>4 DEF OkThroughItsChild, Durable
<1>. QED
  BY <1>3, <1>4, <1>5 DEF Outcomes

LEMMA OutcomesAlways == Spec => []Outcomes
<1>1. Init => Outcomes
  BY DEF Init, Outcomes, WalksOnlyTheValid, CollectedIsOk, OkThroughItsChild
<1>2. ASSUME Typed, Outcomes, [Next]_vars
      PROVE  Outcomes'
  <2>1. CASE UNCHANGED vars
    BY <1>2, <2>1 DEF vars, Outcomes, WalksOnlyTheValid, CollectedIsOk, OkThroughItsChild,
                      Durable
  <2>. QED
    BY <1>2, <2>1, Steps, OutcomesTrigger, OutcomesAsk, OutcomesRun, OutcomesAttempt
<1>. QED
  BY <1>1, <1>2, TypedAlways, PTL DEF Spec

\* The validation refuses the graphs that cannot be walked and no other, whatever graph
\* is sent, a sub-workflow's included: names repeated, dependencies dangling or repeated,
\* rings of any length (definition.rs, validate_dag; interpreter.rs, run, step 1).
THEOREM RefusesTheUnwalkable == Spec => []RejectsTheUnwalkable
<1>1. ASSUME Typed, Outcomes
      PROVE  RejectsTheUnwalkable
  <2>1. ASSUME NEW k \in DOMAIN run
        PROVE  /\ run[k].dag \in Graphs
               /\ run[k].status \in {"new", "walking", "done", "failed", "rejected"}
    BY <1>1 DEF Typed, RunsTyped, RunRec
  <2>. QED
    BY <1>1, <2>1, ValidIsWalkable DEF Outcomes, WalksOnlyTheValid, RejectsTheUnwalkable
<1>. QED
  BY <1>1, TypedAlways, OutcomesAlways, PTL

\* A walk that is not over always has a step to ask for, so its loop, which has no guard
\* against an empty layer, never spins (interpreter.rs, run, step 2).
THEOREM AlwaysALayer == Spec => []NeverAnEmptyLayer
<1>1. ASSUME Typed, Outcomes
      PROVE  NeverAnEmptyLayer
  <2>. SUFFICES ASSUME NEW k \in DOMAIN run, run[k].status = "walking",
                       run[k].got # StepIds(run[k].dag)
                PROVE  ReadySteps(run[k].dag, run[k].got) # {}
    BY DEF NeverAnEmptyLayer
  <2>1. run[k].dag \in Graphs /\ run[k].got \in SUBSET StepIds(run[k].dag)
    BY <1>1 DEF Typed, RunsTyped, RunRec
  <2>2. Walkable(run[k].dag)
    BY <1>1, <2>1, ValidIsWalkable DEF Outcomes, WalksOnlyTheValid
  <2>3. Free(run[k].dag, run[k].got) \ run[k].got # {}
    BY <2>1, <2>2, OneIsFree
  <2>. QED
    BY <2>3 DEF Free, ReadySteps
<1>. QED
  BY <1>1, TypedAlways, OutcomesAlways, PTL

\* A run that is done is done all the way down, however deep it nests
\* (interpreter.rs, run; subworkflow.rs, run).
THEOREM DoneIsDoneBelow == Spec => []DoneAllTheWayDown
<1>1. ASSUME Typed, Outcomes
      PROVE  DoneAllTheWayDown
  <2>. SUFFICES ASSUME NEW k \in DOMAIN run, run[k].status = "done",
                       NEW s \in StepIds(run[k].dag)
                PROVE  /\ <<k, s>> \in DOMAIN inv
                       /\ inv[<<k, s>>].phase = "ok"
                       /\ inv[<<k, s>>].kind = "subworkflow" =>
                             /\ ChildRunKey(k, s) \in DOMAIN run
                             /\ run[ChildRunKey(k, s)].status = "done"
    BY DEF DoneAllTheWayDown
  <2>1. s \in run[k].got
    BY <1>1 DEF Outcomes, CollectedIsOk
  <2>2. <<k, s>> \in DOMAIN inv /\ inv[<<k, s>>].phase = "ok"
    BY <1>1, <2>1 DEF Outcomes, CollectedIsOk, Typed, RunsTyped, Asked
  <2>. QED
    BY <1>1, <2>2 DEF Outcomes, OkThroughItsChild, Durable
<1>. QED
  BY <1>1, TypedAlways, OutcomesAlways, PTL

---------------------------------------------------------------------------
(* Sessions *)

\* What an agent at work stands at is what is stored under its step's name.
AtWhatIsStored ==
    \A p \in DOMAIN inv :
        inv[p].kind = "subagent" /\ inv[p].phase = "acted" =>
            inv[p].base + inv[p].turns = RestoredTurns(p)

Idle(phase) == phase \in {"queued", "running", "paused"}

\* An attempt that has not started its agent has taken no turn.
IdleTakesNoTurn == \A p \in DOMAIN inv : Idle(inv[p].phase) => inv[p].turns = 0

LEMMA IdleAttempt ==
    ASSUME Typed, IdleTakesNoTurn,
           NEW p \in DOMAIN inv, Attempt(p) \/ LoseAttempt(p) \/ Resume(p)
    PROVE  IdleTakesNoTurn'
<1>0. inv[p] \in InvRec /\ inv \in [DOMAIN inv -> InvRec]
      /\ (Idle(inv[p].phase) => inv[p].turns = 0)
  BY DEF Typed, InvsTyped, IdleTakesNoTurn
<1>. USE <1>0 DEF InvRec, Idle
<1>1. CASE Begin(p)
  BY <1>1 DEF Begin, Become, IdleTakesNoTurn
<1>2. CASE Transient(p) \/ LoseAttempt(p)
  BY <1>2 DEF Transient, LoseAttempt, Again, IdleTakesNoTurn
<1>3. CASE Resume(p)
  BY <1>3 DEF Resume, IdleTakesNoTurn
<1>4. CASE ~Begin(p) /\ ~Transient(p) /\ ~LoseAttempt(p) /\ ~Resume(p)
  <2>1. ~Idle(inv'[p].phase)
    BY <1>4 DEF Attempt, RenderFails, Answer, Refuse, Post, StartAgent, AgentTurn, RefuseChild,
                CallChild, ChildEnded, Become
  <2>. QED
    BY <2>1, AttemptKeeps DEF IdleTakesNoTurn
<1>. QED
  BY <1>1, <1>2, <1>3, <1>4

LEMMA StoredTurn ==
    ASSUME Typed, AtWhatIsStored, NEW p \in DOMAIN inv, AgentTurn(p)
    PROVE  AtWhatIsStored' /\ SessionsGoOn
<1>. DEFINE name == SessionName(p[1], p[2])
            next == inv[p].base + inv[p].turns + 1
<1>1. /\ inv[p].kind = "subagent" /\ inv[p].phase = "acted"
      /\ inv' = [inv EXCEPT ![p].turns = @ + 1]
      /\ saved' = Put(saved, name, next)
  BY DEF AgentTurn
<1>2. inv[p] \in InvRec /\ saved \in [DOMAIN saved -> Nat]
  BY DEF Typed, InvsTyped, SavedTyped
<1>3. inv[p].base \in Nat /\ inv[p].turns \in Nat
  BY <1>2, BoundsAssumption DEF InvRec
<1>4. /\ DOMAIN saved' = DOMAIN saved \cup {name}
      /\ saved'[name] = next
      /\ \A n \in DOMAIN saved \ {name} : saved'[n] = saved[n]
  BY <1>1 DEF Put
<1>5. inv[p].base + inv[p].turns = RestoredTurns(p)
  BY <1>1 DEF AtWhatIsStored
<1>6. name \in DOMAIN saved => next >= saved[name]
  <2>1. name \in DOMAIN saved => next = saved[name] + 1 /\ saved[name] \in Nat
    BY <1>2, <1>3, <1>5 DEF RestoredTurns
  <2>. HIDE DEF next, name
  <2>. QED
    BY <2>1
<1>7. SessionsGoOn
  <2>1. ASSUME NEW n \in DOMAIN saved
        PROVE  n \in DOMAIN saved' /\ saved'[n] >= saved[n]
    <3>1. CASE n = name
      BY <1>4, <1>6, <3>1
    <3>2. CASE n # name
      <4>1. saved[n] \in Nat
        BY <1>2
      <4>. QED
        BY <1>4, <3>2, <4>1
    <3>. QED
      BY <3>1, <3>2
  <2>. QED
    BY <2>1 DEF SessionsGoOn
<1>8. ASSUME NEW q \in DOMAIN inv', inv'[q].kind = "subagent", inv'[q].phase = "acted"
      PROVE  inv'[q].base + inv'[q].turns = RestoredTurns(q)'
  <2>1. CASE q = p
    <3>1. inv'[p].base = inv[p].base /\ inv'[p].turns = inv[p].turns + 1
      BY <1>1, <1>2 DEF InvRec
    <3>2. RestoredTurns(p)' = next
      BY <1>4 DEF RestoredTurns, SessionName
    <3>. QED
      BY <1>3, <2>1, <3>1, <3>2
  <2>2. CASE q # p
    <3>1. q \in DOMAIN inv /\ inv'[q] = inv[q]
      BY <1>1, <2>2
    <3>2. SessionName(q[1], q[2]) # name
      <4>1. p = <<p[1], p[2]>> /\ q = <<q[1], q[2]>>
        BY <3>1 DEF Typed, Asked
      <4>. QED
        BY <2>2, <4>1 DEF SessionName
    <3>3. RestoredTurns(q)' = RestoredTurns(q)
      BY <1>4, <3>2 DEF RestoredTurns, SessionName
    <3>. QED
      BY <1>8, <3>1, <3>3 DEF AtWhatIsStored
  <2>. QED
    BY <2>1, <2>2
<1>. QED
  BY <1>7, <1>8 DEF AtWhatIsStored

LEMMA StoredAttempt ==
    ASSUME Typed, AtWhatIsStored, IdleTakesNoTurn,
           NEW p \in DOMAIN inv, Attempt(p) \/ LoseAttempt(p) \/ Resume(p)
    PROVE  AtWhatIsStored' /\ SessionsGoOn
<1>1. CASE AgentTurn(p)
  BY <1>1, StoredTurn
<1>2. CASE ~AgentTurn(p)
  <2>1. saved' = saved
    BY <1>2, SavedMoves
  <2>2. /\ DOMAIN inv' = DOMAIN inv
        /\ \A q \in DOMAIN inv \ {p} : inv'[q] = inv[q]
        /\ inv'[p].kind = inv[p].kind
    BY AttemptKeeps
  <2>3. inv[p].kind = "subagent" /\ inv'[p].phase = "acted" => StartAgent(p)
    BY <1>2, AttemptPhases DEF Post
  <2>4. StartAgent(p) => inv'[p].base + inv'[p].turns = RestoredTurns(p)
    <3>1. SUFFICES ASSUME StartAgent(p)
                   PROVE  inv'[p].base + inv'[p].turns = RestoredTurns(p)
      OBVIOUS
    <3>2. inv'[p].base = RestoredTurns(p) /\ inv'[p].turns = inv[p].turns
      BY <3>1 DEF StartAgent, Typed, InvsTyped, InvRec
    <3>3. inv[p].turns = 0 /\ RestoredTurns(p) \in Nat
      BY <3>1 DEF StartAgent, IdleTakesNoTurn, Idle, RestoredTurns, Typed, SavedTyped
    <3>. QED
      BY <3>2, <3>3
  <2>5. \A q : RestoredTurns(q)' = RestoredTurns(q)
    BY <2>1 DEF RestoredTurns, SessionName
  <2>6. AtWhatIsStored'
    BY <2>2, <2>3, <2>4, <2>5 DEF AtWhatIsStored
  <2>7. SessionsGoOn
    BY <2>1 DEF SessionsGoOn, Typed, SavedTyped
  <2>. QED
    BY <2>6, <2>7
<1>. QED
  BY <1>1, <1>2

LEMMA StoredRun ==
    ASSUME Typed, AtWhatIsStored, IdleTakesNoTurn, NEW k \in DOMAIN run, RunStep(k)
    PROVE  AtWhatIsStored' /\ IdleTakesNoTurn' /\ UNCHANGED saved
<1>1. CASE AskLayer(k)
  <2>. DEFINE layer == ReadySteps(run[k].dag, run[k].got)
  <2>1. /\ layer \subseteq StepIds(run[k].dag)
        /\ DOMAIN inv' = DOMAIN inv \cup ({k} \X layer)
        /\ \A p \in DOMAIN inv : inv'[p] = inv[p]
        /\ \A s \in layer : inv'[<<k, s>>] = BuildInvocation(k, s)
        /\ saved' = saved
    BY <1>1, TypedAsk
  <2>2. \A s \in layer : inv'[<<k, s>>].phase = "queued" /\ inv'[<<k, s>>].turns = 0
    BY <2>1, Invoked
  <2>3. ASSUME NEW p \in DOMAIN inv'
        PROVE  \/ p \in DOMAIN inv /\ inv'[p] = inv[p]
               \/ inv'[p].phase = "queued" /\ inv'[p].turns = 0
    BY <2>1, <2>2
  <2>4. \A q : RestoredTurns(q)' = RestoredTurns(q)
    BY <2>1 DEF RestoredTurns, SessionName
  <2>5. AtWhatIsStored'
    BY <2>3, <2>4 DEF AtWhatIsStored
  <2>6. IdleTakesNoTurn'
    BY <2>3 DEF IdleTakesNoTurn, Idle
  <2>. QED
    BY <2>1, <2>5, <2>6
<1>2. CASE ~AskLayer(k)
  <2>1. UNCHANGED <<inv, saved>>
    BY <1>2, TypedRun DEF RunStep
  <2>. QED
    BY <2>1 DEF AtWhatIsStored, IdleTakesNoTurn, Idle, RestoredTurns, SessionName
<1>. QED
  BY <1>1, <1>2

LEMMA StoredNext ==
    ASSUME Typed, AtWhatIsStored, IdleTakesNoTurn, [Next]_vars
    PROVE  AtWhatIsStored' /\ IdleTakesNoTurn' /\ [SessionsGoOn]_vars
<1>1. CASE UNCHANGED vars
  BY <1>1 DEF vars, AtWhatIsStored, IdleTakesNoTurn, Idle, RestoredTurns, SessionName
<1>2. UNCHANGED saved => SessionsGoOn
  BY DEF SessionsGoOn, Typed, SavedTyped
<1>3. CASE \E k \in RootKeys, dag \in RootDags, t \in Triggers : TriggerRun(k, dag, t)
  <2>1. UNCHANGED <<inv, saved>>
    BY <1>3 DEF TriggerRun
  <2>. QED
    BY <1>2, <2>1 DEF AtWhatIsStored, IdleTakesNoTurn, Idle, RestoredTurns, SessionName
<1>4. CASE \E k \in DOMAIN run : RunStep(k)
  BY <1>2, <1>4, StoredRun
<1>5. CASE \E p \in DOMAIN inv : Attempt(p) \/ LoseAttempt(p) \/ Resume(p)
  BY <1>5, StoredAttempt, IdleAttempt
<1>. QED
  BY <1>1, <1>3, <1>4, <1>5, Steps

\* Whatever attempts of its step are lost, an agent goes on from its stored session
\* and never starts it over (subagent_step.rs, restore_or_new).
THEOREM ConversationsGoOn == Spec => AgentNeverStartsOver
<1>1. Init => AtWhatIsStored /\ IdleTakesNoTurn
  BY DEF Init, AtWhatIsStored, IdleTakesNoTurn
<1>2. Typed /\ AtWhatIsStored /\ IdleTakesNoTurn /\ [Next]_vars =>
         AtWhatIsStored' /\ IdleTakesNoTurn' /\ [SessionsGoOn]_vars
  BY StoredNext
<1>. QED
  BY <1>1, <1>2, TypedAlways, PTL DEF Spec, AgentNeverStartsOver

---------------------------------------------------------------------------
(* The refinement of DagRun *)

\* What the abstract run under k looks like.
Seen(k) == [dag |-> run[k].dag, asked |-> run[k].asked,
            ok |-> WithPhase(k, "ok"), bad |-> WithPhase(k, "err"),
            end |-> IF run[k].status \in Ended THEN run[k].status ELSE "open"]

LEMMA WalkIsSeen ==
    /\ Walk = [k \in DOMAIN run |-> Seen(k)]
    /\ DOMAIN Walk = DOMAIN run
    /\ \A k \in DOMAIN run : Walk[k] = Seen(k)
  BY DEF Walk, Seen, WithPhase

\* Two abstract runs are the same when their parts are.
LEMMA SeenTheSame ==
    ASSUME NEW k,
           run'[k].dag = run[k].dag, run'[k].asked = run[k].asked,
           run'[k].status = run[k].status \/ {run'[k].status, run[k].status} \cap Ended = {},
           \A s \in run[k].asked : inv'[<<k, s>>].phase = inv[<<k, s>>].phase
                                 \/ {inv'[<<k, s>>].phase, inv[<<k, s>>].phase} \cap Settled = {}
    PROVE  Seen(k)' = Seen(k)
<1>1. WithPhase(k, "ok")' = WithPhase(k, "ok") /\ WithPhase(k, "err")' = WithPhase(k, "err")
  BY DEF WithPhase, Settled
<1>. QED
  BY <1>1 DEF Seen, WithPhase

LEMMA WalkTheSame ==
    ASSUME DOMAIN run' = DOMAIN run, \A k \in DOMAIN run : Seen(k)' = Seen(k)
    PROVE  Walk' = Walk
  BY DEF Walk, Seen, WithPhase

\* One abstract run has changed.
LEMMA WalkExcept ==
    ASSUME DOMAIN run' = DOMAIN run, NEW k \in DOMAIN run,
           \A x \in DOMAIN run \ {k} : Seen(x)' = Seen(x)
    PROVE  /\ Walk' = [Walk EXCEPT ![k] = Walk'[k]]
           /\ Walk'[k] = Seen(k)' /\ Walk[k] = Seen(k) /\ k \in DOMAIN Walk
<1>1. /\ DOMAIN Walk' = DOMAIN run /\ Walk' = [x \in DOMAIN run |-> Walk'[x]]
      /\ DOMAIN Walk = DOMAIN run /\ Walk = [x \in DOMAIN run |-> Walk[x]]
  BY DEF Walk, Seen, WithPhase
<1>2. \A x \in DOMAIN run \ {k} : Walk'[x] = Walk[x]
  BY DEF Walk, Seen, WithPhase
<1>3. Walk'[k] = Seen(k)' /\ Walk[k] = Seen(k)
  BY DEF Walk, Seen, WithPhase
<1>4. \A f, g : /\ f = [x \in DOMAIN run |-> f[x]] /\ g = [x \in DOMAIN run |-> g[x]]
                /\ \A x \in DOMAIN run \ {k} : g[x] = f[x]
                => g = [f EXCEPT ![k] = g[k]]
  OBVIOUS
<1>. QED
  BY <1>1, <1>2, <1>3, <1>4 DEF Seen, WithPhase

\* One abstract run has appeared.
LEMMA WalkOpened ==
    ASSUME NEW k, k \notin DOMAIN run, DOMAIN run' = DOMAIN run \cup {k},
           \A x \in DOMAIN run : Seen(x)' = Seen(x),
           run'[k].asked = {}, run'[k].status = "new"
    PROVE  Promise!Next
<1>1. Seen(k)' = Promise!Opened(run'[k].dag)
  BY DEF Seen, WithPhase, Ended, Promise!Opened
<1>2. /\ Walk' = [x \in DOMAIN run' |-> Seen(x)']
      /\ DOMAIN Walk' = DOMAIN run'
  BY DEF Walk, Seen, WithPhase
<1>3. Walk'[k].dag = run'[k].dag
  BY <1>2 DEF Seen, WithPhase
<1>4. k \in DOMAIN Walk' \ DOMAIN Walk
  BY <1>2 DEF Walk, Seen, WithPhase
<1>5. Walk' = [x \in DOMAIN Walk \cup {k} |->
                  IF x = k THEN Promise!Opened(run'[k].dag) ELSE Walk[x]]
  BY <1>1, <1>2, ZenonT(30) DEF Walk, Seen, WithPhase
<1>6. Promise!Open(k, Walk'[k].dag)
  BY <1>3, <1>4, <1>5 DEF Promise!Open, Walk, Seen, WithPhase
<1>. QED
  BY <1>4, <1>6 DEF Promise!Next, Walk, Seen, WithPhase

\* A step of a layer is ready: everything it waits for has been collected.
LEMMA ReadyWaitsForNothing ==
    ASSUME NEW dag \in Graphs, UniqueIds(dag), NEW got, NEW s \in ReadySteps(dag, got)
    PROVE  DepsOf(dag, s) \subseteq got
<1>1. PICK n \in DOMAIN dag : dag[n].id = s /\ DepSet(dag[n]) \subseteq got
  BY DEF ReadySteps
<1>2. \A i \in DOMAIN dag : dag[i].id = s => i = n
  BY <1>1 DEF UniqueIds
<1>3. {i \in DOMAIN dag : dag[i].id = s} = {n}
  BY <1>1, <1>2
<1>. QED
  BY <1>1, <1>3 DEF DepsOf

LEMMA RefineTrigger ==
    ASSUME Typed, NEW k \in RootKeys, NEW dag \in RootDags, NEW t \in Triggers,
           TriggerRun(k, dag, t)
    PROVE  Promise!Next
<1>1. /\ k \notin DOMAIN run
      /\ DOMAIN run' = DOMAIN run \cup {k}
      /\ \A x \in DOMAIN run : run'[x] = run[x]
      /\ run'[k] = NewRun(dag, 0, t)
      /\ inv' = inv
  BY DEF TriggerRun, Put
<1>2. run'[k].asked = {} /\ run'[k].status = "new"
  BY <1>1 DEF NewRun
<1>3. \A x \in DOMAIN run : Seen(x)' = Seen(x)
  BY <1>1 DEF Seen, WithPhase
<1>. QED
  BY <1>1, <1>2, <1>3, WalkOpened DEF Seen, WithPhase, Promise!Next

LEMMA RefineAsk ==
    ASSUME Typed, Outcomes, NEW k \in DOMAIN run, AskLayer(k)
    PROVE  Promise!Next
<1>. DEFINE layer == ReadySteps(run[k].dag, run[k].got)
<1>0. run[k].dag \in Graphs
  BY DEF Typed, RunsTyped, RunRec
<1>1. /\ layer \subseteq StepIds(run[k].dag)
      /\ layer \cap run[k].asked = {}
      /\ DOMAIN run' = DOMAIN run
      /\ \A x \in DOMAIN run \ {k} : run'[x] = run[x]
      /\ run'[k].dag = run[k].dag /\ run'[k].status = run[k].status
      /\ run'[k].asked = run[k].asked \cup layer
      /\ \A p \in DOMAIN inv : inv'[p] = inv[p]
      /\ \A s \in layer : inv'[<<k, s>>].phase = "queued"
  <2>1. /\ layer \subseteq StepIds(run[k].dag)
        /\ \A s \in layer : inv'[<<k, s>>] = BuildInvocation(k, s)
    BY TypedAsk
  <2>2. \A s \in layer : inv'[<<k, s>>].phase = "queued"
    BY <2>1, Invoked
  <2>. QED
    BY <2>2, TypedAsk
<1>2. \A x \in DOMAIN run : \A s \in run[x].asked : inv'[<<x, s>>] = inv[<<x, s>>]
  BY <1>1 DEF Typed, Asked
<1>3. \A x \in DOMAIN run \ {k} : Seen(x)' = Seen(x)
  <2>1. ASSUME NEW x \in DOMAIN run \ {k}
        PROVE  Seen(x)' = Seen(x)
    <3>1. run'[x] = run[x] /\ \A s \in run[x].asked : inv'[<<x, s>>] = inv[<<x, s>>]
      BY <1>1, <1>2
    <3>2. /\ WithPhase(x, "ok")' = WithPhase(x, "ok")
          /\ WithPhase(x, "err")' = WithPhase(x, "err")
      BY <3>1 DEF WithPhase
    <3>. QED
      BY <3>1, <3>2 DEF Seen
  <2>. QED
    BY <2>1 DEF Seen, WithPhase
<1>4. /\ Walk' = [Walk EXCEPT ![k] = Walk'[k]]
      /\ Walk'[k] = Seen(k)' /\ Walk[k] = Seen(k) /\ k \in DOMAIN Walk
  BY <1>1, <1>3, WalkExcept DEF Seen, WithPhase
<1>5. WithPhase(k, "ok")' = WithPhase(k, "ok") /\ WithPhase(k, "err")' = WithPhase(k, "err")
  BY <1>1, <1>2 DEF WithPhase
<1>6. run[k].status = "walking" /\ run[k].asked = run[k].got
  BY DEF AskLayer
<1>7. Walk[k].end = "open" /\ Walk[k].dag = run[k].dag /\ Walk[k].asked = run[k].asked
      /\ Walk[k].ok = WithPhase(k, "ok")
  BY <1>4, <1>6 DEF Seen, Ended
<1>8. Walk'[k] = [Walk[k] EXCEPT !.asked = @ \cup layer]
  BY <1>1, <1>4, <1>5 DEF Seen
<1>9. run[k].got \subseteq WithPhase(k, "ok")
  BY <1>6 DEF WithPhase, Outcomes, CollectedIsOk
<1>10. ASSUME NEW s \in layer
       PROVE  DepsOf(run[k].dag, s) \subseteq Walk[k].ok
  <2>1. UniqueIds(run[k].dag)
    BY <1>6 DEF Outcomes, WalksOnlyTheValid, Valid
  <2>. QED
    BY <1>0, <1>7, <1>9, <2>1, ReadyWaitsForNothing
<1>11. Promise!Ask(k, layer)
  BY <1>1, <1>4, <1>7, <1>8, <1>10
  DEF Promise!Ask, Promise!StepIds, Promise!DepsOf, Promise!DepSet, StepIds, DepsOf, DepSet
<1>12. layer \in SUBSET Promise!StepIds(Walk[k].dag)
  BY <1>1, <1>7 DEF StepIds, Promise!StepIds
<1>. QED
  BY <1>4, <1>11, <1>12 DEF Promise!Next

LEMMA RefineRun ==
    ASSUME Typed, Outcomes, NEW k \in DOMAIN run, RunStep(k), ~AskLayer(k)
    PROVE  Promise!Next \/ Walk' = Walk
<1>0. run[k].got \subseteq run[k].asked /\ run[k].asked \subseteq StepIds(run[k].dag)
  BY DEF Typed, RunsTyped
<1>1. /\ DOMAIN run' = DOMAIN run
      /\ \A x \in DOMAIN run \ {k} : run'[x] = run[x]
      /\ run'[k].dag = run[k].dag /\ run'[k].asked = run[k].asked
      /\ inv' = inv
  BY RunProgress
<1>2. \A x \in DOMAIN run \ {k} : Seen(x)' = Seen(x)
  BY <1>1 DEF Seen, WithPhase
<1>3. /\ Walk' = [Walk EXCEPT ![k] = Walk'[k]]
      /\ Walk'[k] = Seen(k)' /\ Walk[k] = Seen(k) /\ k \in DOMAIN Walk
  BY <1>1, <1>2, WalkExcept DEF Seen, WithPhase
<1>4. WithPhase(k, "ok")' = WithPhase(k, "ok") /\ WithPhase(k, "err")' = WithPhase(k, "err")
  BY <1>1 DEF WithPhase
<1>5. /\ Walk[k].dag = run[k].dag /\ Walk[k].asked = run[k].asked
      /\ Walk[k].ok = WithPhase(k, "ok") /\ Walk[k].bad = WithPhase(k, "err")
      /\ Walk[k].end = IF run[k].status \in Ended THEN run[k].status ELSE "open"
  BY <1>3 DEF Seen
<1>6. ASSUME run[k].status \notin Ended, run'[k].status \in Ended
      PROVE  /\ Walk[k].end = "open"
             /\ Walk'[k] = [Walk[k] EXCEPT !.end = run'[k].status]
  BY <1>1, <1>3, <1>4, <1>5, <1>6 DEF Seen
<1>7. CASE run[k].status = "new" /\ run'[k].status = "rejected"
  <2>1. run[k].asked = {}
    BY <1>7 DEF Outcomes, WalksOnlyTheValid
  <2>2. Promise!Refuse(k)
    BY <1>3, <1>5, <1>6, <1>7, <2>1 DEF Promise!Refuse, Ended
  <2>. QED
    BY <1>3, <2>2 DEF Promise!Next
<1>8. CASE run[k].status = "walking" /\ run'[k].status = "done"
  <2>1. Cardinality(run[k].got) = Len(run[k].dag)
    BY <1>8, RunProgress
  <2>2. run[k].got = StepIds(run[k].dag)
    BY <1>0, <2>1, AllCollected DEF Typed, RunsTyped, RunRec
  <2>3. run[k].got \subseteq WithPhase(k, "ok") /\ WithPhase(k, "ok") \subseteq run[k].asked
    BY <1>0 DEF WithPhase, Outcomes, CollectedIsOk
  <2>4. WithPhase(k, "ok") = StepIds(run[k].dag)
    BY <1>0, <2>2, <2>3
  <2>5. Walk[k].ok = Promise!StepIds(Walk[k].dag)
    BY <1>5, <2>4 DEF StepIds, Promise!StepIds
  <2>6. Promise!Complete(k)
    BY <1>3, <1>6, <1>8, <2>5 DEF Promise!Complete, Ended
  <2>. QED
    BY <1>3, <2>6 DEF Promise!Next
<1>9. CASE run[k].status = "walking" /\ run'[k].status = "failed"
  <2>1. Walk[k].bad # {}
    BY <1>5, <1>9, RunProgress DEF WithPhase
  <2>2. Promise!Fail(k)
    BY <1>3, <1>6, <1>9, <2>1 DEF Promise!Fail, Ended
  <2>. QED
    BY <1>3, <2>2 DEF Promise!Next
<1>10. CASE run[k].status \in {"new", "walking"} /\ run'[k].status = "walking"
  <2>1. Walk'[k] = Walk[k]
    BY <1>1, <1>3, <1>4, <1>10 DEF Seen, Ended
  <2>2. Walk = [x \in DOMAIN Walk |-> Walk[x]]
    BY DEF Walk, WithPhase
  <2>. QED
    BY <1>3, <2>1, <2>2
<1>. QED
  BY <1>7, <1>8, <1>9, <1>10, RunProgress

LEMMA RefineAttempt ==
    ASSUME Typed, Outcomes, NEW p \in DOMAIN inv, Attempt(p) \/ LoseAttempt(p) \/ Resume(p)
    PROVE  Promise!Next \/ Walk' = Walk
<1>. DEFINE k == p[1]
            s == p[2]
<1>1. /\ p = <<k, s>> /\ k \in DOMAIN run /\ s \in run[k].asked
      /\ DOMAIN inv' = DOMAIN inv
      /\ \A q \in DOMAIN inv \ {p} : inv'[q] = inv[q]
      /\ \A x \in DOMAIN run : x \in DOMAIN run' /\ run'[x] = run[x]
      /\ inv[p].phase \notin Settled
  BY AttemptKeeps, AttemptPhases DEF Typed, Asked
<1>. HIDE DEF k, s
<1>2. ASSUME NEW x \in DOMAIN run, NEW y \in run[x].asked, <<x, y>> # p
      PROVE  inv'[<<x, y>>] = inv[<<x, y>>]
  BY <1>1, <1>2 DEF Typed, Asked
<1>3. ASSUME NEW x \in DOMAIN run, x # k \/ inv'[p].phase \notin Settled
      PROVE  Seen(x)' = Seen(x)
  <2>1. \A y \in run[x].asked :
           \/ inv'[<<x, y>>].phase = inv[<<x, y>>].phase
           \/ inv'[<<x, y>>].phase \notin Settled /\ inv[<<x, y>>].phase \notin Settled
    BY <1>1, <1>2, <1>3
  <2>2. WithPhase(x, "ok")' = WithPhase(x, "ok") /\ WithPhase(x, "err")' = WithPhase(x, "err")
    BY <1>1, <2>1 DEF WithPhase, Settled
  <2>. QED
    BY <1>1, <2>2 DEF Seen
<1>4. CASE inv'[p].phase \notin Settled
  <2>1. \A x \in DOMAIN run : Seen(x)' = Seen(x)
    BY <1>3, <1>4 DEF Seen, WithPhase
  <2>2. CASE DOMAIN run' = DOMAIN run
    BY <2>1, <2>2, WalkTheSame DEF Seen, WithPhase
  <2>3. CASE DOMAIN run' # DOMAIN run
    <3>. DEFINE child == ChildRunKey(p[1], p[2])
    <3>1. CallChild(p)
      BY <2>3, AttemptKeeps
    <3>2. /\ DOMAIN run' = DOMAIN run \cup {child}
          /\ child \notin DOMAIN run =>
                run'[child] = NewRun(inv[p].sub, inv[p].depth + 1, inv[p].trigger)
      BY <3>1, TypedCall
    <3>3. child \notin DOMAIN run /\ run'[child].asked = {} /\ run'[child].status = "new"
      BY <2>3, <3>2 DEF NewRun
    <3>. QED
      BY <2>1, <3>2, <3>3, WalkOpened DEF Seen, WithPhase
  <2>. QED
    BY <2>2, <2>3
<1>5. CASE inv'[p].phase \in Settled
  <2>1. DOMAIN run' = DOMAIN run
    <3>1. ~CallChild(p)
      <4>1. CallChild(p) => inv'[p].phase = "waiting"
        BY TypedCall
      <4>. QED
        BY <1>5, <4>1 DEF Settled
    <3>. QED
      BY <3>1, AttemptKeeps
  <2>2. \A x \in DOMAIN run \ {k} : Seen(x)' = Seen(x)
    BY <1>3 DEF Seen, WithPhase
  <2>3. /\ Walk' = [Walk EXCEPT ![k] = Walk'[k]]
        /\ Walk'[k] = Seen(k)' /\ Walk[k] = Seen(k) /\ k \in DOMAIN Walk
    BY <1>1, <2>1, <2>2, WalkExcept DEF Seen, WithPhase
  <2>4. /\ Walk[k].asked = run[k].asked
        /\ Walk[k].ok = WithPhase(k, "ok") /\ Walk[k].bad = WithPhase(k, "err")
    BY <2>3 DEF Seen
  <2>5. s \in Promise!Pending(k) /\ s \in Walk[k].asked
    BY <1>1, <2>4 DEF Promise!Pending, WithPhase, Settled
  <2>6. CASE inv'[p].phase = "ok"
    <3>1. /\ WithPhase(k, "ok")' = WithPhase(k, "ok") \cup {s}
          /\ WithPhase(k, "err")' = WithPhase(k, "err")
      BY <1>1, <1>2, <2>6 DEF WithPhase, Settled
    <3>2. Walk'[k] = [Walk[k] EXCEPT !.ok = @ \cup {s}]
      BY <1>1, <2>3, <3>1, SMTT(30) DEF Seen
    <3>3. Promise!Succeed(k, s)
      BY <2>3, <2>5, <3>2 DEF Promise!Succeed
    <3>. QED
      BY <2>3, <2>5, <3>3 DEF Promise!Next
  <2>7. CASE inv'[p].phase = "err"
    <3>1. /\ WithPhase(k, "err")' = WithPhase(k, "err") \cup {s}
          /\ WithPhase(k, "ok")' = WithPhase(k, "ok")
      BY <1>1, <1>2, <2>7 DEF WithPhase, Settled
    <3>2. Walk'[k] = [Walk[k] EXCEPT !.bad = @ \cup {s}]
      BY <1>1, <2>3, <3>1, SMTT(30) DEF Seen
    <3>3. Promise!Break(k, s)
      BY <2>3, <2>5, <3>2 DEF Promise!Break
    <3>. QED
      BY <2>3, <2>5, <3>3 DEF Promise!Next
  <2>. QED
    BY <1>5, <2>6, <2>7 DEF Settled
<1>. QED
  BY <1>4, <1>5

LEMMA RefineNext ==
    ASSUME Typed, Outcomes, [Next]_vars
    PROVE  Promise!Next \/ Walk' = Walk
<1>1. CASE UNCHANGED vars
  BY <1>1 DEF vars, Walk, WithPhase
<1>2. ASSUME NEW k \in DOMAIN run, RunStep(k)
      PROVE  Promise!Next \/ Walk' = Walk
  BY <1>2, RefineAsk, RefineRun
<1>. QED
  BY <1>1, <1>2, Steps, RefineTrigger, RefineAttempt

\* The engine keeps what the abstract runs promise, for every set of graphs and every
\* number of attempts (DagInterpreter and StepDispatcher together): a step is asked for
\* once and after everything it waits for, it succeeds or fails once, and a run is done
\* only with all of its steps and failed only with one of them.
THEOREM EngineKeepsItsPromise == Spec => KeepsItsPromise
<1>1. Init => Promise!Init
  BY DEF Init, Promise!Init, Walk, WithPhase
<1>2. Typed /\ Outcomes /\ [Next]_vars => [Promise!Next]_Walk
  BY RefineNext
<1>. QED
  BY <1>1, <1>2, TypedAlways, OutcomesAlways, PTL DEF Spec, KeepsItsPromise, Promise!Spec
=============================================================================
