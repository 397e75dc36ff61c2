----------------------------- MODULE MCPayloads -----------------------------
EXTENDS Payloads, TLC

CONSTANTS r1, r2, s1, s2

RowSymmetry == Permutations({r1, r2}) \cup Permutations({s1, s2})

\* Two rows before one sweep, two sweeps over one row, two changes around both.
Occasions ==
    {[rows |-> 2, sweeps |-> 1, changes |-> 1, crashes |-> 0],
     [rows |-> 1, sweeps |-> 2, changes |-> 1, crashes |-> 1],
     [rows |-> 1, sweeps |-> 1, changes |-> 2, crashes |-> 0]}
=============================================================================
