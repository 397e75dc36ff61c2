------------------------------ MODULE Allowance ------------------------------
(***************************************************************************)
(* What a rate limit promises (ratelimit/buckets.py, `TokenBucket`): in    *)
(* every store a bucket per limit that fills steadily and never beyond its *)
(* capacity, and a request that takes its weight from all of its buckets   *)
(* or from none.  Nothing is said of when a level is computed, where it is *)
(* kept and for how long: RateLimit implements this with lazily refilled   *)
(* entries that expire, are swept and are rebuilt.                         *)
(*                                                                         *)
(* A token is divided into Token parts, so that a bucket that refills a    *)
(* fraction of a token per second stays within the integers.               *)
(***************************************************************************)
EXTENDS Integers

CONSTANTS
    Stores,     \* where buckets are kept: the shared store, and each process
    Buckets,    \* the keys of the buckets
    Capacity,   \* Capacity[b]: BucketRequest.capacity, in tokens
    Rate,       \* Rate[b]: refill_per_second, in parts per second
    Token,      \* the parts a token is divided into
    Units       \* what a request may weigh

VARIABLES
    clock,      \* seconds
    level,      \* level[s][b]: the parts b holds in s
    granted,    \* granted[s][b]: the parts admitted since b last began full
    since       \* since[s][b]: when that was

Full(b) == Capacity[b] * Token
Least(x, y) == IF x < y THEN x ELSE y

Init ==
    /\ clock = 0
    /\ level = [s \in Stores |-> [b \in Buckets |-> Full(b)]]
    /\ granted = [s \in Stores |-> [b \in Buckets |-> 0]]
    /\ since = [s \in Stores |-> [b \in Buckets |-> 0]]

Second ==
    /\ clock' = clock + 1
    /\ level' = [s \in Stores |-> [b \in Buckets |->
                    Least(Full(b), level[s][b] + Rate[b])]]
    /\ UNCHANGED <<granted, since>>

\* What a step does to one bucket: it is left alone, lost and full again, or
\* pays for an admitted request of weight u.
Untouched(s, b) ==
    /\ level'[s][b] = level[s][b]
    /\ granted'[s][b] = granted[s][b]
    /\ since'[s][b] = since[s][b]

Lapses(s, b) ==
    /\ level'[s][b] = Full(b)
    /\ granted'[s][b] = 0
    /\ since'[s][b] = clock

Pays(s, b, u) ==
    /\ level[s][b] >= u * Token
    /\ level'[s][b] = level[s][b] - u * Token
    /\ granted'[s][b] = granted[s][b] + u * Token
    /\ since'[s][b] = since[s][b]

\* A request is admitted by one store, all its buckets paying the same; with
\* it, or without one, the store may lose buckets.
Step(s, u) ==
    /\ UNCHANGED clock
    /\ \A x \in Stores \ {s}, b \in Buckets : Untouched(x, b)
    /\ \A b \in Buckets : Untouched(s, b) \/ Lapses(s, b) \/ Pays(s, b, u)

\* A refused request takes nothing: a stuttering step.
Next == Second \/ \E s \in Stores, u \in Units : Step(s, u)

Spec == Init /\ [][Next]_<<clock, level, granted, since>>
=============================================================================
