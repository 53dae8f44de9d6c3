--------------------------- MODULE MCWorkerDispatch ---------------------------
EXTENDS WorkerDispatch, TLC

CONSTANTS a, b

\* b consumes the artifact of a.
Pair == {a, b}
Chain == a :> {} @@ b :> {a}
One == {a}
Single == a :> {}
==============================================================================
