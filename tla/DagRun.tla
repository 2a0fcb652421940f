------------------------------- MODULE DagRun -------------------------------
(***************************************************************************)
(* What the workflow engine promises of a run, without its dispatcher, its *)
(* journal, its retries or its sub-runs: a step is asked for once, after   *)
(* everything it depends on has succeeded; a step that was asked for       *)
(* succeeds or fails once; a run is done when every step has succeeded and *)
(* failed only when one has failed; an ended run asks for nothing more.    *)
(***************************************************************************)
EXTENDS Dags

VARIABLE walk   \* key |-> [dag, asked, ok, bad, end]

Opened(dag) == [dag |-> dag, asked |-> {}, ok |-> {}, bad |-> {}, end |-> "open"]

Init == walk = << >>

Open(k, dag) ==
    /\ k \notin DOMAIN walk
    /\ walk' = [x \in DOMAIN walk \cup {k} |-> IF x = k THEN Opened(dag) ELSE walk[x]]

Refuse(k) ==
    /\ walk[k].end = "open"
    /\ walk[k].asked = {}
    /\ walk' = [walk EXCEPT ![k].end = "rejected"]

Ask(k, steps) ==
    /\ walk[k].end = "open"
    /\ steps \subseteq StepIds(walk[k].dag) \ walk[k].asked
    /\ \A s \in steps : DepsOf(walk[k].dag, s) \subseteq walk[k].ok
    /\ walk' = [walk EXCEPT ![k].asked = @ \cup steps]

Pending(k) == walk[k].asked \ (walk[k].ok \cup walk[k].bad)

Succeed(k, s) ==
    /\ s \in Pending(k)
    /\ walk' = [walk EXCEPT ![k].ok = @ \cup {s}]

Break(k, s) ==
    /\ s \in Pending(k)
    /\ walk' = [walk EXCEPT ![k].bad = @ \cup {s}]

Complete(k) ==
    /\ walk[k].end = "open"
    /\ walk[k].ok = StepIds(walk[k].dag)
    /\ walk' = [walk EXCEPT ![k].end = "done"]

Fail(k) ==
    /\ walk[k].end = "open"
    /\ walk[k].bad # {}
    /\ walk' = [walk EXCEPT ![k].end = "failed"]

Next ==
    \/ \E k \in DOMAIN walk' \ DOMAIN walk : Open(k, walk'[k].dag)
    \/ \E k \in DOMAIN walk :
          \/ Refuse(k) \/ Complete(k) \/ Fail(k)
          \/ \E steps \in SUBSET StepIds(walk[k].dag) : Ask(k, steps)
          \/ \E s \in walk[k].asked : Succeed(k, s) \/ Break(k, s)

Spec == Init /\ [][Next]_walk
=============================================================================
