-------------------------------- MODULE Dags --------------------------------
(***************************************************************************)
(* The graphs a workflow is made of (src/workflow/definition.rs) and the   *)
(* pure functions over them: the structural validation every run starts    *)
(* with, and the choice of the next layer.  A graph is the list of its     *)
(* steps in the order the author wrote them; a step has an id, a kind, the *)
(* list of the ids it depends on - repetitions included - and, for a       *)
(* sub-workflow, the graph its configuration carries.                      *)
(***************************************************************************)
EXTENDS Integers, Sequences, FiniteSets

StepIds(dag) == {dag[i].id : i \in DOMAIN dag}

DepSet(step) == {step.deps[j] : j \in DOMAIN step.deps}

\* What the step named s waits for.
DepsOf(dag, s) == UNION {DepSet(dag[i]) : i \in {n \in DOMAIN dag : dag[n].id = s}}

UniqueIds(dag) == \A i, j \in DOMAIN dag : dag[i].id = dag[j].id => i = j

NoDangling(dag) == \A i \in DOMAIN dag : DepSet(dag[i]) \subseteq StepIds(dag)

(***************************************************************************)
(* Kahn's sort.  The in-degree of a step is the length of its depends_on,  *)
(* repetitions counted, and each step taken out of the queue takes away as *)
(* many edges as the list repeats it (never below zero).  Only the set of  *)
(* the steps taken out matters, so a round empties the whole queue.        *)
(***************************************************************************)
\* Variant: a repeated dependency counts once.
EdgesOnce(step, ids) == Cardinality(DepSet(step) \cap ids)

Edges(step, ids) == Cardinality({j \in DOMAIN step.deps : step.deps[j] \in ids})

InDegree(step) == Len(step.deps)

Start(dag) == [degree |-> [i \in DOMAIN dag |-> InDegree(dag[i])], taken |-> {}]

\* The whole queue is emptied, and the edges that leave it are taken away.
Round(dag, before) ==
    LET queue   == {dag[i].id : i \in {m \in DOMAIN dag : before.degree[m] = 0}} \ before.taken
        less(i) == before.degree[i] - Edges(dag[i], queue)
    IN  [degree |-> [i \in DOMAIN dag |-> IF less(i) < 0 THEN 0 ELSE less(i)],
         taken  |-> before.taken \cup queue]

Rounds(dag) ==
    LET sort[n \in 0..Len(dag)] == IF n = 0 THEN Start(dag) ELSE Round(dag, sort[n - 1])
    IN  sort

\* The steps that were taken out when the queue is empty for good.
Sorted(dag) == Rounds(dag)[Len(dag)].taken

\* Variant: the result of the sort is not looked at.
ValidUnsorted(dag) ==
    /\ dag # << >>
    /\ UniqueIds(dag)
    /\ NoDangling(dag)

\* validate_dag
Valid(dag) ==
    /\ dag # << >>
    /\ UniqueIds(dag)
    /\ NoDangling(dag)
    /\ Sorted(dag) = StepIds(dag)

\* Variant: one answer is enough to start.
ReadyOnAny(dag, completed) ==
    {dag[i].id : i \in {n \in DOMAIN dag :
        /\ dag[n].id \notin completed
        /\ DepSet(dag[n]) = {} \/ DepSet(dag[n]) \cap completed # {}}}

\* ready_steps
ReadySteps(dag, completed) ==
    {dag[i].id : i \in {n \in DOMAIN dag : /\ dag[n].id \notin completed
                                           /\ DepSet(dag[n]) \subseteq completed}}

StepOf(dag, s) == dag[CHOOSE i \in DOMAIN dag : dag[i].id = s]

(***************************************************************************)
(* The reference: a graph can be walked when its steps have distinct names,*)
(* depend on one another only, and no group of steps waits for itself.     *)
(***************************************************************************)
Acyclic(dag) ==
    \A group \in (SUBSET StepIds(dag)) \ {{}} :
        \E s \in group : DepsOf(dag, s) \cap group = {}

Walkable(dag) == dag # << >> /\ UniqueIds(dag) /\ NoDangling(dag) /\ Acyclic(dag)
=============================================================================
