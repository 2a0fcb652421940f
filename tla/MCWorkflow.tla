----------------------------- MODULE MCWorkflow -----------------------------
(***************************************************************************)
(* Small graphs for TLC.  SmallDags holds every list of at most two steps  *)
(* over two ids with at most two dependencies each, dangling and repeated  *)
(* ones included: what validate_dag may be given.  The others put the      *)
(* kinds side by side.                                                     *)
(***************************************************************************)
EXTENDS Workflow

A == <<"a">>
B == <<"b">>
C == <<"c">>
AB == <<"a", ":", "b">>

Step(id, kind, deps) == [id |-> id, kind |-> kind, deps |-> deps, sub |-> << >>]
Nest(id, deps, sub) == [id |-> id, kind |-> "subworkflow", deps |-> deps, sub |-> sub]

ListsUpTo(set, n) == UNION {[1..m -> set] : m \in 0..n}

SmallDags == ListsUpTo({Step(id, "rhai", deps) : id \in {A, B}, deps \in ListsUpTo({A, B, C}, 2)}, 2)

Script(id) == <<Step(id, "rhai", << >>)>>

\* A triangle, a square with a repeated edge, and rings of three.
LongDags ==
    { <<Step(C, "rhai", <<A, B>>), Step(B, "rhai", <<A>>), Step(A, "rhai", << >>)>>,
      <<Step(A, "rhai", << >>), Step(B, "rhai", <<A, A>>), Step(C, "rhai", <<A>>),
        Step(AB, "rhai", <<B, C, B>>)>>,
      <<Step(A, "rhai", <<C>>), Step(B, "rhai", <<A>>), Step(C, "rhai", <<B>>)>>,
      <<Step(AB, "rhai", << >>), Step(A, "rhai", <<AB, B>>), Step(B, "rhai", <<A>>)>> }

\* Side effects, retries and failures next to one another.
ActingDags ==
    { <<Step(A, "matrix_send", << >>), Step(B, "matrix_send", << >>), Step(C, "systemone", <<A, B>>)>>,
      <<Step(A, "subagent", << >>), Step(B, "matrix_send", <<A>>)>>,
      <<Step(A, "other", << >>), Step(B, "subagent", << >>)>> }

\* Sub-workflows: an agent and a message below, one level too deep, an invalid
\* graph below.
NestedDags ==
    { <<Nest(A, << >>, <<Step(B, "matrix_send", << >>)>>), Step(B, "matrix_send", << >>)>>,
      <<Nest(A, << >>, <<Nest(B, << >>, <<Step(C, "subagent", << >>)>>)>>)>>,
      <<Nest(A, << >>, <<Nest(A, << >>, <<Nest(A, << >>, Script(B))>>)>>)>>,
      <<Nest(A, << >>, <<Step(B, "rhai", <<B>>)>>), Step(C, "rhai", << >>)>> }

\* Two steps whose sub-runs have one key.
SameKeyDags ==
    { <<Nest(A, << >>, <<Nest(B, << >>, Script(C))>>), Nest(AB, << >>, Script(A))>> }

MCRootKeys == {<<"r">>}
MCRootDags == SmallDags \cup LongDags \cup ActingDags \cup NestedDags \cup SameKeyDags

Below(dags) == UNION {{dag[i].sub : i \in DOMAIN dag} : dag \in dags}
MCGraphs == LET one == Below(MCRootDags)
                two == Below(one)
            IN  MCRootDags \cup one \cup two \cup Below(two)
=============================================================================
