---- MODULE MCConfigSync ----
(* ConfigSync for TLC: a use case with one member, whose key it is. *)
EXTENDS ConfigSync

CONSTANTS member, key

MCOwner == [k \in {key} |-> member]

\* The relay behind and failing; or a slug that is retired, purged and used
\* again, and everything read twice.
Disturbed == {
    [changes |-> 3, pending |-> 1, created |-> 1, faults |-> 1, replays |-> 0],
    [changes |-> 5, pending |-> 0, created |-> 2, faults |-> 0, replays |-> 1]}
Undisturbed == {
    [changes |-> 3, pending |-> 0, created |-> 2, faults |-> 0, replays |-> 0]}
====
