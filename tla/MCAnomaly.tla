----------------------------- MODULE MCAnomaly -----------------------------
EXTENDS Anomaly, TLC

CONSTANTS i1, i2, q1, q2, u, r1

MCHome == q1 :> i1 @@ q2 :> i1
MCScope == q1 :> u @@ q2 :> u
MCTerms ==
    r1 :> [reach |-> u, window |-> 2, sample |-> 1, threshold |-> 100,
           action |-> "block", minutes |-> 2]
\* Detection alone, the gate alone, and both together.
MCBounds == {
    [clock |-> 3, rows |-> 2, ticks |-> 3, checks |-> 0, decisions |-> 0, faults |-> 1],
    [clock |-> 4, rows |-> 0, ticks |-> 0, checks |-> 3, decisions |-> 2, faults |-> 0],
    [clock |-> 4, rows |-> 1, ticks |-> 1, checks |-> 3, decisions |-> 0, faults |-> 0]}

\* The two requests are served by the same instance for the same use case.
RequestSymmetry == Permutations({q1, q2})
=============================================================================
