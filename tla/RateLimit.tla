------------------------------ MODULE RateLimit ------------------------------
(***************************************************************************)
(* Request-rate enforcement (ratelimit/service.py, ratelimit/buckets.py):  *)
(* the configured limits of a use case and its members, cached per         *)
(* process; the token buckets in Redis, refilled, tested and taken in one  *)
(* script; and the buckets of each process, taken while its circuit        *)
(* breaker (aira_common/counters.py) says that Redis is away.              *)
(*                                                                         *)
(* A request awaits at two places: for the limits of its use case, and for *)
(* the script.  What a limit allows does not change; which limits are      *)
(* configured does.  Time is in seconds, the unit of Retry-After.          *)
(***************************************************************************)
EXTENDS Integers, FiniteSets, FiniteSetsExt

CONSTANTS
    Gateways,      \* the gateway processes
    Callers,       \* each makes one request at a time
    Homes,         \* which process may serve which caller
    Binding,       \* Binding[c]: the buckets whose scope binds c
    Extra,         \* Extra[c]: the other buckets c may meet: a suspension's
                   \* throttle, failed authentications from its address
    Buckets,
    Capacity,      \* Capacity[b]: in tokens
    Rate,          \* Rate[b]: in parts of a token per second
    Token,         \* the parts of a token
    Weights,       \* Weights[c]: what a request of c may weigh
    Configs,       \* Configs[v]: the limits configured in version v
    CacheSeconds,  \* CONFIG_CACHE_SECONDS
    RetrySeconds,  \* RETRY_AFTER_FAILURE_SECONDS
    LeastExpiry,   \* the script's lower bound for EXPIRE
    SweepEvery,    \* SWEEP_EVERY
    MaxTracked,    \* MAX_TRACKED_BUCKETS
    MaxClock,      \* bound: seconds
    MaxRequests,   \* bound: requests begun
    MaxFaults,     \* bound: outages of Redis, lost answers, restarts
    Shared,        \* the store all processes share
    None

Versions == 1 .. Cardinality(DOMAIN Configs)
Entry == [tokens: Nat, ts: Nat]
LocalEntry == [tokens: Nat, ts: Nat, fullAt: Nat, use: Nat]
Cached == [until: Nat, version: Versions]
Limits == [version: Versions, cachedAt: Nat \cup {None}]
Stores == Gateways \cup {Shared}
Units == UNION {Weights[c] : c \in Callers}

ASSUME RateAssumption ==
    /\ Homes \subseteq [Callers -> Gateways]
    /\ Binding \in [Callers -> SUBSET Buckets]
    /\ Extra \in [Callers -> SUBSET Buckets]
    /\ Capacity \in [Buckets -> Nat \ {0}]
    /\ Rate \in [Buckets -> Nat \ {0}]
    /\ Token \in Nat \ {0}
    /\ Weights \in [Callers -> SUBSET (Nat \ {0})]
    /\ Units # {}
    /\ SweepEvery \in Nat \ {0}
    /\ MaxTracked \in Nat
    /\ CacheSeconds \in Nat /\ RetrySeconds \in Nat /\ LeastExpiry \in Nat
    /\ 1 \in Versions /\ Configs \in [Versions -> SUBSET Buckets]
    /\ Shared \notin Gateways
    /\ None \notin Entry \cup LocalEntry \cup Cached \cup Limits

VARIABLES
    clock,
    \* The shared store and the database.
    shared,     \* Redis: bucket -> [tokens, ts], or None
    up,         \* whether Redis answers
    version,    \* the version of the limits the database holds
    \* The processes.
    local,      \* InMemoryTokenBucket._state: [tokens, ts, fullAt, use], or None
    takes,      \* InMemoryTokenBucket._takes
    until,      \* RedisRunner._unavailable_until
    cache,      \* RateLimitService._cache: [until, version], or None
    enforce,    \* AIRA_ENFORCE_RATE_LIMITS
    home,       \* home[c]: the process that serves c
    \* The requests.
    req,        \* req[c]: the request c has under way: where it is (pc), what
                \* it weighs (units), the other buckets it was given (extra),
                \* when it began to load the limits (asked), the version of
                \* the limits it goes by (limits), the buckets to pass (need)
    promise,    \* the Retry-After of its last refusal, or None
    \* Bookkeeping.
    granted, since,   \* as in Allowance
    replaced,         \* when each version of the limits was replaced
    requests, faults

stores == <<shared, local, takes>>
process == <<until, cache>>
fixed == <<enforce, home>>
ledger == <<granted, since>>
bounds == <<requests, faults>>
vars == <<clock, stores, up, version, process, fixed, req, promise,
          ledger, replaced, bounds>>

-----------------------------------------------------------------------------
(* A bucket *)

Full(b) == Capacity[b] * Token
Least(x, y) == IF x < y THEN x ELSE y
CeilDiv(x, y) == (x + y - 1) \div y
Elapsed(ts) == IF clock > ts THEN clock - ts ELSE 0

\* Mutant of Available: a bucket that fills beyond its capacity.
AvailableUncapped(b, entry) ==
    IF entry = None THEN Full(b) ELSE entry.tokens + Elapsed(entry.ts) * Rate[b]

\* What a bucket holds now: an absent one is full.
Available(b, entry) ==
    IF entry = None THEN Full(b)
    ELSE Least(Full(b), entry.tokens + Elapsed(entry.ts) * Rate[b])

Table(s) == IF s = Shared THEN shared ELSE local[s]
Level(s, b) == Available(b, Table(s)[b])

Passes(s, b, u) == Level(s, b) >= u * Token

Admits(s, S, u) == \A b \in S : Passes(s, b, u)

\* The longest of the waits, in the whole seconds of the header, at least one.
Wait(s, S, u) ==
    Max({1} \cup {CeilDiv(u * Token - Level(s, b), Rate[b]) :
                     b \in {x \in S : ~Passes(s, x, u)}})

\* Mutant of Left: a bucket that could pay is debited for a refused request.
LeftOneByOne(s, S, u, b) ==
    IF Passes(s, b, u) THEN Level(s, b) - u * Token ELSE Level(s, b)

\* What a take leaves in b: two passes, so only an admitted request debits.
Left(s, S, u, b) ==
    IF Admits(s, S, u) THEN Level(s, b) - u * Token ELSE Level(s, b)

-----------------------------------------------------------------------------
(* What a store is left with *)

\* The script writes every bucket it was given, with an expiry.
Expiry(b) == Max({LeastExpiry, CeilDiv(Full(b), Rate[b]) + 1})

\* Mutant of SharedAfter: the level is written and the moment it is of is not,
\* so the next take refills for the same seconds again.
SharedAtOldTime(S, u) ==
    [b \in Buckets |->
        IF b \in S
        THEN [tokens |-> Left(Shared, S, u, b),
              ts |-> IF shared[b] = None THEN clock ELSE shared[b].ts]
        ELSE shared[b]]

SharedAfter(S, u) ==
    [b \in Buckets |->
        IF b \in S THEN [tokens |-> Left(Shared, S, u, b), ts |-> clock]
                   ELSE shared[b]]

FullAt(b, left) == clock + CeilDiv(Full(b) - left, Rate[b])

LocalWritten(g, S, u) ==
    [b \in Buckets |->
        IF b \in S
        THEN LET left == Left(g, S, u, b)
             IN [tokens |-> left, ts |-> clock, fullAt |-> FullAt(b, left),
                 use |-> takes[g] + 1]
        ELSE local[g][b]]

FullAgain(entry) == entry.fullAt <= clock

\* Every SWEEP_EVERY takes the full buckets are dropped.
Swept(g, table) ==
    [b \in Buckets |->
        IF /\ (takes[g] + 1) % SweepEvery = 0
           /\ table[b] # None
           /\ FullAgain(table[b])
        THEN None ELSE table[b]]

Kept(table) == {b \in Buckets : table[b] # None}

\* On every take the least recently used beyond the bound.
Evictions(table) ==
    LET excess == Cardinality(Kept(table)) - MaxTracked
    IN {E \in SUBSET Kept(table) :
          /\ Cardinality(E) = IF excess > 0 THEN excess ELSE 0
          /\ \A out \in E, in \in Kept(table) \ E :
                table[out].use <= table[in].use}

-----------------------------------------------------------------------------
(* The ledger of what was granted *)

Book(s, S, u, lost) ==
    /\ granted' = [granted EXCEPT ![s] = [b \in Buckets |->
            IF b \in lost THEN 0
            ELSE IF b \in S /\ Admits(s, S, u) THEN @[b] + u * Token ELSE @[b]]]
    /\ since' = [since EXCEPT ![s] = [b \in Buckets |->
            IF b \in lost THEN clock ELSE @[b]]]

\* A refusal promises that a retry after the wait is admitted: by this store,
\* for this weight, if nobody takes from these buckets meanwhile.
Promised(c, s) ==
    [at |-> clock + Wait(s, req[c].need, req[c].units), store |-> s,
     buckets |-> req[c].need, units |-> req[c].units]

Voided(p, s, S) == p # None /\ p.store = s /\ p.buckets \cap S # {}

Decide(c, s) ==
    promise' = IF Admits(s, req[c].need, req[c].units)
               THEN [x \in Callers |->
                        IF x = c \/ Voided(promise[x], s, req[c].need) THEN None
                        ELSE promise[x]]
               ELSE [promise EXCEPT ![c] = Promised(c, s)]

-----------------------------------------------------------------------------
(* RateLimitService.check *)

Idle == [pc |-> "idle", units |-> 1, extra |-> {}, asked |-> 0,
         limits |-> None, need |-> {}]

Finish(c) == req' = [req EXCEPT ![c] = Idle]

\* Mutant of TooHeavy: a batch larger than a bucket is left to the bucket.
NeverTooHeavy(S, u) == FALSE

TooHeavy(S, u) == \E b \in S : u > Capacity[b]

\* The buckets of the request are known: none, too small, or to be asked.
Weigh(c, r, S) ==
    req' = [req EXCEPT ![c] =
              IF S = {} \/ TooHeavy(S, r.units) THEN Idle
              ELSE [r EXCEPT !.pc = "taking", !.need = S]]

Configured(c, v) == Binding[c] \cap Configs[v]

Fresh(g) == cache[g] # None /\ clock < cache[g].until

\* check, for a request that names a use case or does not; a failed
\* authentication (auth/attempts.py) takes its address's bucket this way too.
Begin(c, u, E, named) ==
    LET r == [Idle EXCEPT !.units = u, !.extra = E]
        g == home[c]
    IN /\ req[c].pc = "idle"
       /\ named \/ E # {}
       /\ requests < MaxRequests
       /\ requests' = requests + 1
       /\ \/ /\ ~named \/ ~enforce
             /\ Weigh(c, r, E)
          \/ /\ named /\ enforce /\ Fresh(g)
             /\ Weigh(c, [r EXCEPT !.limits = [version |-> cache[g].version,
                                              cachedAt |-> clock]],
                      Configured(c, cache[g].version) \cup E)
          \/ /\ named /\ enforce /\ ~Fresh(g)
             /\ req' = [req EXCEPT ![c] =
                          [r EXCEPT !.pc = "loading", !.asked = clock]]
       /\ UNCHANGED <<clock, stores, up, version, process, fixed, promise,
                      ledger, replaced, faults>>

\* The select of _config reads the rows.
Read(c) ==
    /\ req[c].pc = "loading"
    /\ req' = [req EXCEPT ![c] = [@ EXCEPT !.pc = "read",
                                           !.limits = [version |-> version, cachedAt |-> None]]]
    /\ UNCHANGED <<clock, stores, up, version, process, fixed, promise,
                   ledger, replaced, bounds>>

\* Mutant of CachedUntil: counted from when the rows arrived.
UntilFromArrival(c) == clock + CacheSeconds

CachedUntil(c) == req[c].asked + CacheSeconds

\* The rows arrive: kept for the next requests, and this one is weighed.
Keep(c) ==
    LET v == req[c].limits.version
    IN /\ req[c].pc = "read"
       /\ cache' = [cache EXCEPT ![home[c]] =
                       [until |-> CachedUntil(c), version |-> v]]
       /\ Weigh(c, req[c], Configured(c, v) \cup req[c].extra)
       /\ UNCHANGED <<clock, stores, up, version, until, fixed, promise,
                      ledger, replaced, bounds>>

-----------------------------------------------------------------------------
(* FallbackTokenBucket.take *)

Blocked(g) == clock < until[g]

TakeScript(c) ==
    /\ shared' = SharedAfter(req[c].need, req[c].units)
    /\ Book(Shared, req[c].need, req[c].units, {})

\* The script ran and its answer arrived.
TakeShared(c) ==
    /\ req[c].pc = "taking"
    /\ up
    /\ ~Blocked(home[c])
    /\ TakeScript(c)
    /\ Decide(c, Shared)
    /\ until' = [until EXCEPT ![home[c]] = 0]
    /\ Finish(c)
    /\ UNCHANGED <<clock, local, takes, up, version, cache, fixed,
                   replaced, bounds>>

\* The script ran and its answer is lost: a timeout of the socket.
TakeLost(c) ==
    /\ req[c].pc = "taking"
    /\ up
    /\ ~Blocked(home[c])
    /\ faults < MaxFaults
    /\ faults' = faults + 1
    /\ TakeScript(c)
    /\ promise' = [x \in Callers |->
            IF Voided(promise[x], Shared, req[c].need) THEN None ELSE promise[x]]
    /\ req' = [req EXCEPT ![c].pc = "lost"]
    /\ UNCHANGED <<clock, local, takes, up, version, process, fixed,
                   replaced, requests>>

\* CountersUnavailable: at once while the breaker is open, or from a call that
\* failed, which opens it.  The process's own buckets decide.
TakeLocal(c) ==
    LET g == home[c]
        swept == Swept(g, LocalWritten(g, req[c].need, req[c].units))
    IN /\ \/ req[c].pc = "taking" /\ Blocked(g) /\ UNCHANGED until
          \/ /\ \/ req[c].pc = "taking" /\ ~Blocked(g) /\ ~up
                \/ req[c].pc = "lost"
             /\ until' = [until EXCEPT ![g] = clock + RetrySeconds]
       /\ takes' = [takes EXCEPT ![g] = @ + 1]
       /\ \E E \in Evictions(swept) :
             /\ local' = [local EXCEPT ![g] =
                    [b \in Buckets |-> IF b \in E THEN None ELSE swept[b]]]
             /\ Book(g, req[c].need, req[c].units, E)
       /\ Decide(c, g)
       /\ Finish(c)
       /\ UNCHANGED <<clock, shared, up, version, cache, fixed, replaced, bounds>>

-----------------------------------------------------------------------------
(* The environment *)

\* A second passes, and with it the keys of Redis that expire.
Second ==
    /\ clock < MaxClock
    /\ clock' = clock + 1
    /\ shared' = [b \in Buckets |->
            IF shared[b] # None /\ shared[b].ts + Expiry(b) <= clock + 1
            THEN None ELSE shared[b]]
    /\ UNCHANGED <<local, takes, up, version, process, fixed, req,
                   promise, ledger, replaced, bounds>>

\* A changed set of limits arrives from Management.
Configure ==
    /\ version + 1 \in Versions
    /\ version' = version + 1
    /\ replaced' = [replaced EXCEPT ![version] = clock]
    /\ UNCHANGED <<clock, stores, up, process, fixed, req, promise,
                   ledger, bounds>>

\* Redis goes away.
Outage ==
    /\ up
    /\ faults < MaxFaults
    /\ faults' = faults + 1
    /\ up' = FALSE
    /\ UNCHANGED <<clock, stores, version, process, fixed, req, promise,
                   ledger, replaced, requests>>

\* It comes back, with its data or without.
Return ==
    /\ ~up
    /\ up' = TRUE
    /\ \/ UNCHANGED <<shared, ledger>>
       \/ /\ shared' = [b \in Buckets |-> None]
          /\ Book(Shared, {}, 1, Kept(shared))
    /\ UNCHANGED <<clock, local, takes, version, process, fixed, req,
                   promise, replaced, bounds>>

\* A process restarts: its buckets, breaker, cached limits and requests are gone.
Restart(g) ==
    /\ faults < MaxFaults
    /\ faults' = faults + 1
    /\ local' = [local EXCEPT ![g] = [b \in Buckets |-> None]]
    /\ takes' = [takes EXCEPT ![g] = 0]
    /\ until' = [until EXCEPT ![g] = 0]
    /\ cache' = [cache EXCEPT ![g] = None]
    /\ req' = [c \in Callers |-> IF home[c] = g THEN Idle ELSE req[c]]
    /\ Book(g, {}, 1, Kept(local[g]))
    /\ UNCHANGED <<clock, shared, up, version, fixed, promise,
                   replaced, requests>>

-----------------------------------------------------------------------------

Init ==
    /\ clock = 0
    /\ shared = [b \in Buckets |-> None]
    /\ up = TRUE
    /\ version = 1
    /\ local = [g \in Gateways |-> [b \in Buckets |-> None]]
    /\ takes = [g \in Gateways |-> 0]
    /\ until = [g \in Gateways |-> 0]
    /\ cache = [g \in Gateways |-> None]
    /\ enforce \in BOOLEAN
    /\ home \in Homes
    /\ req = [c \in Callers |-> Idle]
    /\ promise = [c \in Callers |-> None]
    /\ granted = [s \in Stores |-> [b \in Buckets |-> 0]]
    /\ since = [s \in Stores |-> [b \in Buckets |-> 0]]
    /\ replaced = [v \in Versions |-> None]
    /\ requests = 0
    /\ faults = 0

Next ==
    \/ \E c \in Callers :
          \/ \E u \in Weights[c], E \in SUBSET Extra[c], named \in BOOLEAN :
                Begin(c, u, E, named)
          \/ Read(c)
          \/ Keep(c)
          \/ TakeShared(c)
          \/ TakeLost(c)
          \/ TakeLocal(c)
    \/ Second
    \/ Configure
    \/ Outage
    \/ Return
    \/ \E g \in Gateways : Restart(g)

Spec == Init /\ [][Next]_vars

-----------------------------------------------------------------------------
(* Properties *)

Requested ==
    {r \in [pc: {"idle", "loading", "read", "taking", "lost"},
            units: Nat, extra: SUBSET Buckets, asked: Nat,
            limits: Limits \cup {None}, need: SUBSET Buckets] :
        /\ r.pc = "read" => r.limits # None
        /\ r.pc # "idle" => r.units \in Units}

\* Every bucket holds between nothing and its capacity.
TypeOK ==
    /\ clock \in Nat /\ requests \in Nat /\ faults \in Nat
    /\ up \in BOOLEAN
    /\ version \in Versions
    /\ enforce \in BOOLEAN
    /\ home \in [Callers -> Gateways]
    /\ takes \in [Gateways -> Nat]
    /\ until \in [Gateways -> Nat]
    /\ cache \in [Gateways -> Cached \cup {None}]
    /\ shared \in [Buckets -> Entry \cup {None}]
    /\ local \in [Gateways -> [Buckets -> LocalEntry \cup {None}]]
    /\ \A s \in Stores, b \in Buckets :
          Table(s)[b] # None => Table(s)[b].tokens <= Full(b)
    /\ req \in [Callers -> Requested]
    /\ granted \in [Stores -> [Buckets -> Nat]]
    /\ since \in [Stores -> [Buckets -> Nat]]

\* A limit holds over every stretch of time: what a store has admitted through
\* a bucket since that bucket began full never exceeds the capacity and what
\* the time since then refills ("a window lets twice the limit through across
\* a boundary", buckets.py: a bucket must not).
LimitHolds ==
    \A s \in Stores, b \in Buckets :
        granted[s][b] <= Full(b) + (clock - since[s][b]) * Rate[b]

\* A caller who waits for as long as Retry-After says is admitted, if nobody
\* took from its buckets meanwhile: "Told the first, a client that obeys is
\* refused again by the next" must not happen, nor a wait no bucket can end.
RetryAfterIsHonest ==
    \A c \in Callers :
        LET p == promise[c]
        IN p # None /\ clock >= p.at => Admits(p.store, p.buckets, p.units)

\* Limits taken from the cache are limits that were in force at some moment of
\* the last CONFIG_CACHE_SECONDS, whatever loads finish in whatever order.
CachedLimitsAreRecent ==
    \A c \in Callers :
        LET l == req[c].limits
        IN l # None /\ l.cachedAt # None =>
              \/ replaced[l.version] = None
              \/ replaced[l.version] + CacheSeconds >= l.cachedAt

\* The lazily refilled, expiring, swept and rebuilt entries of every store
\* implement buckets that fill steadily and admit all or nothing: a refused
\* request takes nothing, and what is forgotten was full, but for the losses
\* the code accepts (a restart, and the eviction beyond MAX_TRACKED_BUCKETS).
Promise ==
    INSTANCE Allowance WITH
        level <- [s \in Stores |-> [b \in Buckets |-> Level(s, b)]]

KeepsThePromise == Promise!Spec
=============================================================================
