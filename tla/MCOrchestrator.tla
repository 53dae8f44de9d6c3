---------------------------- MODULE MCOrchestrator ----------------------------
EXTENDS Orchestrator, TLC

CONSTANTS j1, j2, s, a, b, t1, t2

TaskSymmetry == Permutations({t1, t2})
Symmetry == Permutations({t1, t2}) \cup Permutations({j1, j2})

\* One node; a source and its consumer; a source and two nodes in a row.
One == {a}
OneDep == a :> {}
OneOrder == <<a>>
Pair == {s, a}
PairDep == s :> {} @@ a :> {s}
PairOrder == <<s, a>>
Line == {s, a, b}
LineDep == s :> {} @@ a :> {s} @@ b :> {a}
LineOrder == <<s, a, b>>
==============================================================================
