------------------------------- MODULE Budget -------------------------------
(***************************************************************************)
(* Budget enforcement of the gateway: reserve before dispatch, settle or   *)
(* release after it (budgets/service.py, budgets/ledger.py), over two      *)
(* stores.  Postgres (budget_usage) is the record; Redis holds a counter   *)
(* per budget and period, a cache seeded from Postgres, and beside it the  *)
(* reservations in flight.                                                 *)
(*                                                                         *)
(* One action is one atomic effect on a store: a Lua script, a committed   *)
(* transaction, a read.  Between two of them the request awaits, and any   *)
(* other request, an expiry, an outage or a cancellation may come.         *)
(*                                                                         *)
(* An amount is a function on Dims (tokens, requests, cost), as in Amounts *)
(* and in the fields of the Redis hash.                                    *)
(***************************************************************************)
EXTENDS Integers, FiniteSets

CONSTANTS
    Requests,     \* the serving requests; a request is its reservation's ident
    Gateways,     \* the gateway processes: each has a circuit breaker of its own
    Budgets,      \* the configured budgets
    Dims,         \* the dimensions a budget can cap
    Home,         \* Home[r]: the process that serves r
    Binding,      \* Binding[r]: the budgets that bind r (store.applicable)
    Liftable,     \* the budgets an administrator may lift and put back
    Limit,        \* Limit[b][d]: the cap, negative for "not capped" (NO_LIMIT)
    Estimate,     \* Estimate[r]: what r sets aside
    Answers,      \* Answers[r]: the amounts r may turn out to have cost
    Attributed,   \* the requests that name a use case
    StepCallers,  \* those whose pipeline calls a model
    StepAmount,   \* what such a call costs
    MaxPeriod,    \* bound: periods the clock may enter
    Bounds,       \* the bounds a behaviour may have: failures of Redis, of
                  \* Postgres, of a process (outages), cancellations (cancels),
                  \* periods entered (periods), whether a counter reaches
                  \* COUNTER_TTL_SECONDS (expiry), pipelines that call (calls)
    None          \* a Redis key that does not exist; a seed not read

Keys == Budgets \X (1 .. MaxPeriod)
Amounts == [Dims -> Nat]
Zero == [d \in Dims |-> 0]

ASSUME SetsAssumption ==
    /\ IsFiniteSet(Requests)
    /\ Home \in [Requests -> Gateways]
    /\ Binding \in [Requests -> SUBSET Budgets]
    /\ Liftable \subseteq Budgets
    /\ StepCallers \subseteq Attributed
    /\ Attributed \subseteq Requests

ASSUME AmountsAssumption ==
    /\ Limit \in [Budgets -> [Dims -> Int]]
    /\ Estimate \in [Requests -> Amounts]
    /\ Answers \in [Requests -> SUBSET Amounts]
    /\ StepAmount \in Amounts
    /\ None \notin Amounts
    /\ None \notin [budget: Budgets, figure: Amounts]

ASSUME BoundsAssumption ==
    /\ MaxPeriod \in Nat \ {0}
    /\ Bounds \subseteq [outages: Nat, cancels: Nat, periods: 1 .. MaxPeriod,
                        expiry: BOOLEAN, calls: SUBSET StepCallers]

VARIABLES
    \* The stores.
    usage,      \* Postgres: budget_usage, by budget and period
    counter,    \* Redis: the counter hash, or None where the key does not exist
    open,       \* Redis: the reservations in flight kept beside each counter
    \* The environment.
    period,     \* the period the installation's clock is in
    enforce,    \* AIRA enforce_budgets, fixed when the process starts
    bound,      \* the bounds of this behaviour
    breaker,    \* RedisRunner: not retrying yet
    \* The requests.
    pc,
    admitted,   \* the period read at the start of guard
    lifted,     \* Reservation.lifted: bound, counted, refusing nothing
    todo,       \* budgets _reserve has not reached
    seed,       \* the Postgres figure read for the budget being reserved
    held,       \* atomic reservations: the budgets whose period_keys entry is set
    moving,     \* budgets the current loop over adjust has not reached
    actual,     \* what the answer cost
    stepAt,     \* the period a pipeline call was booked in, 0 for none
    \* Bookkeeping for the bounds and the properties.
    outages, cancels,
    answered,   \* requests a model answered
    unbooked,   \* answered requests whose booking never reached Postgres
    doubt,      \* requests some failure left without a completed hand-back
    flushed     \* Redis lost its data

stores == <<usage, counter, open>>
world == <<period, enforce, bound, breaker>>
request == <<pc, admitted, lifted, todo, seed, held, moving, actual, stepAt>>
faults == <<outages, cancels, flushed>>
outcome == <<answered, unbooked>>
vars == <<stores, world, request, faults, outcome, doubt>>

-----------------------------------------------------------------------------
(* Amounts *)

Plus(x, y) == [d \in Dims |-> x[d] + y[d]]
Minus(x, y) == [d \in Dims |-> x[d] - y[d]]
\* Mutant of Clamped: the script without its floor.
Unclamped(x) == x

Clamped(x) == [d \in Dims |-> IF x[d] < 0 THEN 0 ELSE x[d]]

\* The sum of amt[r] over r in S, per dimension: the number of distinct units.
Total(S, amt) ==
    [d \in Dims |-> Cardinality(UNION {{r} \X (1 .. amt[r][d]) : r \in S})]

\* Mutant of AtLimit: only a limit already passed refuses.
PastLimit(b, x) == \E d \in Dims : Limit[b][d] >= 0 /\ x[d] > Limit[b][d]

\* A limit is met, not exceeded: "already at the limit" is what refuses.
AtLimit(b, x) == \E d \in Dims : Limit[b][d] >= 0 /\ x[d] >= Limit[b][d]

Key(r, b) == <<b, admitted[r]>>
StepKey(r, b) == <<b, stepAt[r]>>
Enforced(r) == Binding[r] \ lifted[r]

InGuard == {"reserving", "refusing", "unwinding", "checking"}
Handing == {"refusing", "unwinding", "releasing"}
Phases == {"idle", "pipeline", "stepAdding", "admitted", "recording",
           "adding", "settling", "done"} \cup InGuard \cup Handing

-----------------------------------------------------------------------------
(* The circuit breaker of RedisRunner: a call either reaches Redis, or     *)
(* raises CountersUnavailable at once because an earlier one failed, or    *)
(* fails and opens the breaker.                                            *)

Reaches(g) == ~breaker[g] /\ UNCHANGED <<breaker, outages>>

Unavailable(g) ==
    \/ breaker[g] /\ UNCHANGED <<breaker, outages>>
    \/ /\ ~breaker[g]
       /\ outages < bound.outages
       /\ outages' = outages + 1
       /\ breaker' = [breaker EXCEPT ![g] = TRUE]

\* RETRY_AFTER_FAILURE_SECONDS have passed.
BreakerCloses(g) ==
    /\ breaker[g]
    /\ breaker' = [breaker EXCEPT ![g] = FALSE]
    /\ UNCHANGED <<stores, period, enforce, bound, request, faults, outcome, doubt>>

-----------------------------------------------------------------------------
(* The two Lua scripts *)

\* The entries past their deadline.  RESERVATION_LIFETIME_SECONDS is longer
\* than any request holds a reservation, so only a finished request has one.
Lapsed(k) == {q \in open[k] : pc[q] = "done"}

\* Mutant of Rebuilt: a counter rebuilt from Postgres alone.
RebuiltFromPostgres(figure, carried) == figure

\* What a missing counter is rebuilt to.
Rebuilt(figure, carried) == Plus(figure, Total(carried, Estimate))

\* _RESERVE: a missing counter is rebuilt from the seed and the reservations
\* still open, dropping the lapsed ones; then the limits refuse or the amounts
\* are added and the reservation is entered.  taken says which.
RunReserve(r, taken) ==
    LET b == seed[r].budget
        k == Key(r, b)
        missing == counter[k] = None
    IN  \E dead \in SUBSET Lapsed(k) :
        /\ ~missing => dead = {}
        /\ LET carried == open[k] \ dead
               base == IF missing THEN Rebuilt(seed[r].figure, carried) ELSE counter[k]
           IN  /\ taken = ~AtLimit(b, base)
               /\ counter' = [counter EXCEPT
                     ![k] = IF taken THEN Plus(base, Estimate[r]) ELSE base]
               /\ open' = [open EXCEPT
                     ![k] = IF taken THEN carried \cup {r} ELSE carried]

\* _ADJUST: the reservation leaves the open set whether or not the counter is
\* there; a missing counter is left alone; no field goes below zero.
RunAdjust(k, amounts, closing) ==
    /\ open' = [open EXCEPT ![k] = @ \ closing]
    /\ counter' = [counter EXCEPT
          ![k] = IF @ = None THEN None ELSE Clamped(Plus(@, amounts))]

-----------------------------------------------------------------------------
(* Before the reservation *)

\* refuse_if_exhausted, the early gate: a use case already at a limit is
\* refused before anything is spent on it.
EarlyGate(r) ==
    /\ pc[r] = "idle"
    /\ \E off \in SUBSET (Binding[r] \cap Liftable) :
          LET refused == /\ enforce /\ r \in Attributed
                         /\ \E b \in Binding[r] \ off : AtLimit(b, usage[<<b, period>>])
          IN  pc' = [pc EXCEPT ![r] = IF refused THEN "done" ELSE "pipeline"]
    /\ UNCHANGED <<stores, world, admitted, lifted, todo, seed, held, moving,
                   actual, stepAt, faults, outcome, doubt>>

\* book_side_call: a pipeline step's call is committed against every bound
\* budget, then added to the counters by the loop of AddStep.  A commit that
\* fails is logged and the request goes on, as one that made no call does.
BookSideCall(r) ==
    /\ pc[r] = "pipeline" /\ r \in bound.calls /\ stepAt[r] = 0
    /\ usage' = [k \in Keys |->
          IF k[1] \in Binding[r] /\ k[2] = period
          THEN Plus(usage[k], StepAmount) ELSE usage[k]]
    /\ stepAt' = [stepAt EXCEPT ![r] = period]
    /\ moving' = [moving EXCEPT ![r] = Binding[r]]
    /\ pc' = [pc EXCEPT ![r] = IF Binding[r] = {} THEN "pipeline" ELSE "stepAdding"]
    /\ UNCHANGED <<counter, open, world, admitted, lifted, todo, seed, held,
                   actual, faults, outcome, doubt>>

\* One turn of a loop over adjust: the budget leaves the loop, which ends in
\* `after` when it was the last.
Turn(r, b, after) ==
    /\ b \in moving[r]
    /\ moving' = [moving EXCEPT ![r] = @ \ {b}]
    /\ pc' = [pc EXCEPT ![r] = IF moving[r] = {b} THEN after ELSE @]
    /\ UNCHANGED <<usage, period, enforce, bound, admitted, lifted, todo, seed, held,
                   actual, stepAt, cancels, outcome, flushed>>

\* _add_to_counters for the pipeline's call.
AddStep(r, b) ==
    /\ pc[r] = "stepAdding"
    /\ Turn(r, b, "pipeline")
    /\ \/ Reaches(Home[r]) /\ RunAdjust(StepKey(r, b), StepAmount, {})
       \/ Unavailable(Home[r]) /\ UNCHANGED <<counter, open>>
    /\ UNCHANGED doubt

\* A cancellation while the pipeline runs.  record_pipeline_calls is not
\* shielded: the counters the loop has not reached stay short of a call that
\* is committed.
InterruptPipeline(r) ==
    /\ pc[r] \in {"pipeline", "stepAdding"} /\ cancels < bound.cancels
    /\ cancels' = cancels + 1
    /\ pc' = [pc EXCEPT ![r] = "done"]
    /\ UNCHANGED <<stores, world, admitted, lifted, todo, seed, held, moving, actual,
                   stepAt, outages, flushed, outcome, doubt>>

-----------------------------------------------------------------------------
(* guard: the reservation *)

\* The budgets are split into enforced and lifted, the period is read once.
\* With enforcement off nothing is reserved and nobody refused.
Guard(r) ==
    /\ pc[r] = "pipeline"
    /\ \E off \in SUBSET (Binding[r] \cap Liftable) :
          LET enforced == IF enforce THEN Binding[r] \ off ELSE {}
          IN  /\ lifted' = [lifted EXCEPT ![r] = off]
              /\ todo' = [todo EXCEPT ![r] = enforced]
              /\ pc' = [pc EXCEPT
                    ![r] = IF enforced = {} THEN "admitted" ELSE "reserving"]
    /\ admitted' = [admitted EXCEPT ![r] = period]
    /\ UNCHANGED <<stores, world, seed, held, moving, actual, stepAt, faults,
                   outcome, doubt>>

\* _reserve reads the next budget's figure from Postgres ...
ReadSeed(r, b) ==
    /\ pc[r] = "reserving" /\ seed[r] = None /\ b \in todo[r]
    /\ seed' = [seed EXCEPT ![r] = [budget |-> b, figure |-> usage[Key(r, b)]]]
    /\ UNCHANGED <<stores, world, pc, admitted, lifted, todo, held, moving,
                   actual, stepAt, faults, outcome, doubt>>

\* ... and then runs the script with it.  The period key is noted only here,
\* once the script has answered; the last budget completes the reservation.
Reserve(r) ==
    /\ pc[r] = "reserving" /\ seed[r] # None
    /\ Reaches(Home[r]) /\ RunReserve(r, TRUE)
    /\ LET b == seed[r].budget IN
          /\ held' = [held EXCEPT ![r] = @ \cup {b}]
          /\ todo' = [todo EXCEPT ![r] = @ \ {b}]
          /\ pc' = [pc EXCEPT ![r] = IF todo[r] = {b} THEN "admitted" ELSE @]
    /\ seed' = [seed EXCEPT ![r] = None]
    /\ UNCHANGED <<usage, period, enforce, bound, admitted, lifted, moving, actual,
                   stepAt, cancels, flushed, outcome, doubt>>

\* Mutant of HandBack: the request ends and keeps what it reserved.
Keep(r, phase) ==
    /\ moving' = [moving EXCEPT ![r] = {}]
    /\ pc' = [pc EXCEPT ![r] = "done"]

\* Leaving the loop of _reserve: what is held is handed back, in phase.
HandBack(r, phase) ==
    /\ moving' = [moving EXCEPT ![r] = held[r]]
    /\ pc' = [pc EXCEPT ![r] = IF held[r] = {} THEN "done" ELSE phase]

\* A budget refuses: release(reservation), then BudgetExceeded.
Breach(r) ==
    /\ pc[r] = "reserving" /\ seed[r] # None
    /\ Reaches(Home[r]) /\ RunReserve(r, FALSE)
    /\ HandBack(r, "refusing")
    /\ seed' = [seed EXCEPT ![r] = None]
    /\ UNCHANGED <<usage, period, enforce, bound, admitted, lifted, todo, held, actual,
                   stepAt, cancels, flushed, outcome, doubt>>

\* CountersUnavailable: guard releases the partial reservation and falls back
\* to Postgres.  Every adjust of that release asks the runner within the same
\* step of the event loop, where the breaker this failure left open refuses
\* it, so nothing that is held goes back.  The script itself may have run, if
\* it was the answer that was lost.
ReserveUnavailable(r) ==
    /\ pc[r] = "reserving" /\ seed[r] # None
    /\ Unavailable(Home[r])
    /\ \/ /\ UNCHANGED <<counter, open>>
          /\ doubt' = IF held[r] = {} THEN doubt ELSE doubt \cup {r}
       \/ /\ ~breaker[Home[r]]
          /\ \E taken \in BOOLEAN :
                /\ RunReserve(r, taken)
                /\ doubt' = IF ~taken /\ held[r] = {} THEN doubt ELSE doubt \cup {r}
    /\ pc' = [pc EXCEPT ![r] = "checking"]
    /\ seed' = [seed EXCEPT ![r] = None]
    /\ UNCHANGED <<usage, period, enforce, bound, admitted, lifted, todo, held, moving,
                   actual, stepAt, cancels, flushed, outcome>>

\* _check_only: the figures in Postgres refuse or admit, and the reservation
\* returned is a new one that holds nothing in Redis.  The figures are read one
\* by one, but they only grow: the outcome is that of a single moment.
CheckOnly(r) ==
    /\ pc[r] = "checking"
    /\ LET refused == \E b \in Enforced(r) : AtLimit(b, usage[Key(r, b)])
       IN  pc' = [pc EXCEPT ![r] = IF refused THEN "done" ELSE "admitted"]
    /\ held' = [held EXCEPT ![r] = {}]
    /\ todo' = [todo EXCEPT ![r] = {}]
    /\ UNCHANGED <<stores, world, admitted, lifted, seed, moving, actual, stepAt,
                   faults, outcome, doubt>>

\* A cancellation, or a database error reading the next figure: guard releases
\* what it knows it holds, uninterrupted (_release_quietly).  A script already
\* sent may still run; its budget has no period key and is not handed back.
Interrupt(r) ==
    /\ pc[r] = "reserving" /\ cancels < bound.cancels
    /\ cancels' = cancels + 1
    /\ \/ UNCHANGED <<counter, open, doubt>>
       \/ /\ seed[r] # None /\ ~breaker[Home[r]]
          /\ \E taken \in BOOLEAN :
                /\ RunReserve(r, taken)
                /\ doubt' = IF taken THEN doubt \cup {r} ELSE doubt
    /\ HandBack(r, "unwinding")
    /\ seed' = [seed EXCEPT ![r] = None]
    /\ UNCHANGED <<usage, world, admitted, lifted, todo, held, actual, stepAt,
                   outages, flushed, outcome>>

\* The release of a refused reservation is awaited unshielded, and resolved is
\* already set: a cancellation ends it where it stands.  One that comes during
\* _check_only finds nothing to hand back.
InterruptUnshielded(r) ==
    /\ pc[r] \in {"refusing", "checking"} /\ cancels < bound.cancels
    /\ cancels' = cancels + 1
    /\ pc' = [pc EXCEPT ![r] = "done"]
    /\ moving' = [moving EXCEPT ![r] = {}]
    /\ doubt' = IF pc[r] = "refusing" THEN doubt \cup {r} ELSE doubt
    /\ UNCHANGED <<stores, world, admitted, lifted, todo, seed, held, actual,
                   stepAt, outages, flushed, outcome>>

-----------------------------------------------------------------------------
(* After dispatch *)

\* The model answered: what it cost is known.
Answer(r) ==
    /\ pc[r] = "admitted"
    /\ \E amounts \in Answers[r] : actual' = [actual EXCEPT ![r] = amounts]
    /\ answered' = answered \cup {r}
    /\ pc' = [pc EXCEPT ![r] = "recording"]
    /\ UNCHANGED <<stores, world, admitted, lifted, todo, seed, held, moving,
                   stepAt, faults, unbooked, doubt>>

\* It failed, or the caller left before anything was produced: release.
Fail(r) ==
    /\ pc[r] = "admitted"
    /\ HandBack(r, "releasing")
    /\ UNCHANGED <<stores, world, admitted, lifted, todo, seed, held, actual,
                   stepAt, faults, outcome, doubt>>

\* Where settle goes on once the loop before it is through.
AfterLifted(r) == IF held[r] = {} THEN "done" ELSE "settling"

\* Mutant of BookingKeys: a lifted budget is not counted.
EnforcedKeys(r) == {k \in Keys : k[1] \in Enforced(r) /\ k[2] = admitted[r]}

\* What r books against: every bound budget, lifted ones included, under the
\* period it was admitted in.
BookingKeys(r) == {k \in Keys : k[1] \in Binding[r] /\ k[2] = admitted[r]}

\* settle, first half: record commits the figure in one transaction.
Record(r) ==
    /\ pc[r] = "recording"
    /\ usage' = [k \in Keys |->
          IF k \in BookingKeys(r) THEN Plus(usage[k], actual[r]) ELSE usage[k]]
    /\ moving' = [moving EXCEPT ![r] = IF lifted[r] = {} THEN held[r] ELSE lifted[r]]
    /\ pc' = [pc EXCEPT ![r] = IF lifted[r] = {} THEN AfterLifted(r) ELSE "adding"]
    /\ UNCHANGED <<counter, open, world, admitted, lifted, todo, seed, held,
                   actual, stepAt, faults, outcome, doubt>>

\* The booking fails: it is logged, and the reservation is already resolved.
RecordFails(r) ==
    /\ pc[r] = "recording" /\ outages < bound.outages
    /\ outages' = outages + 1
    /\ pc' = [pc EXCEPT ![r] = "done"]
    /\ unbooked' = unbooked \cup {r}
    /\ doubt' = doubt \cup {r}
    /\ UNCHANGED <<stores, world, admitted, lifted, todo, seed, held, moving,
                   actual, stepAt, cancels, flushed, answered>>

\* Pricing reads the store before settle is called: if that fails nothing is
\* booked, and since the reservation is not resolved yet, hold releases it.
PriceFails(r) ==
    /\ pc[r] = "recording" /\ outages < bound.outages
    /\ outages' = outages + 1
    /\ HandBack(r, "releasing")
    /\ unbooked' = unbooked \cup {r}
    /\ UNCHANGED <<stores, world, admitted, lifted, todo, seed, held, actual,
                   stepAt, cancels, flushed, answered, doubt>>

\* A lifted budget reserved nothing: its counter takes the whole figure.
AddLifted(r, b) ==
    /\ pc[r] = "adding"
    /\ b \in moving[r]
    /\ LET rest == moving[r] \ {b} IN
          /\ moving' = [moving EXCEPT ![r] = IF rest = {} THEN held[r] ELSE rest]
          /\ pc' = [pc EXCEPT ![r] = IF rest = {} THEN AfterLifted(r) ELSE @]
    /\ \/ Reaches(Home[r]) /\ RunAdjust(Key(r, b), actual[r], {})
       \/ Unavailable(Home[r]) /\ UNCHANGED <<counter, open>>
    /\ UNCHANGED <<usage, period, enforce, bound, admitted, lifted, todo, seed, held,
                   actual, stepAt, cancels, flushed, outcome, doubt>>

\* Mutant of Correction: settling adds the figure and keeps the estimate.
WholeFigure(r) == IF pc[r] = "settling" THEN actual[r] ELSE Minus(Zero, Estimate[r])

\* settle moves a counter from the estimate to the real figure, a release
\* takes the estimate back.
Correction(r) ==
    Minus(IF pc[r] = "settling" THEN actual[r] ELSE Zero, Estimate[r])

\* _move: each budget held is corrected and its reservation closed.  An unreachable Redis is
\* only logged.
Move(r, b) ==
    /\ pc[r] \in {"settling"} \cup Handing
    /\ Turn(r, b, "done")
    /\ \/ /\ Reaches(Home[r])
          /\ RunAdjust(Key(r, b), Correction(r), {r})
          /\ UNCHANGED doubt
       \/ /\ Unavailable(Home[r])
          /\ doubt' = doubt \cup {r}
          /\ UNCHANGED <<counter, open>>

-----------------------------------------------------------------------------
(* The environment *)

\* COUNTER_TTL_SECONDS after it was built, a counter is gone.
Expire(k) ==
    /\ bound.expiry /\ counter[k] # None
    /\ counter' = [counter EXCEPT ![k] = None]
    /\ UNCHANGED <<usage, open, world, request, faults, outcome, doubt>>

\* Redis restarts empty.
Flush ==
    /\ outages < bound.outages
    /\ outages' = outages + 1
    /\ counter' = [k \in Keys |-> None]
    /\ open' = [k \in Keys |-> {}]
    /\ flushed' = TRUE
    /\ UNCHANGED <<usage, world, request, cancels, outcome, doubt>>

\* A gateway process dies, and the requests it was serving with it.
Crash(g) ==
    LET gone == {r \in Requests : Home[r] = g /\ pc[r] \notin {"idle", "done"}}
    IN  /\ gone # {} /\ outages < bound.outages
        /\ outages' = outages + 1
        /\ pc' = [r \in Requests |-> IF r \in gone THEN "done" ELSE pc[r]]
        /\ unbooked' = unbooked \cup {r \in gone : pc[r] = "recording"}
        /\ doubt' = doubt \cup gone
        /\ breaker' = [breaker EXCEPT ![g] = FALSE]
        /\ UNCHANGED <<stores, period, enforce, bound, admitted, lifted, todo, seed, held,
                       moving, actual, stepAt, cancels, flushed, answered>>

\* A day or a month ends.
NextPeriod ==
    /\ period < bound.periods
    /\ period' = period + 1
    /\ UNCHANGED <<stores, enforce, bound, breaker, request, faults, outcome, doubt>>

-----------------------------------------------------------------------------
Init ==
    /\ bound \in Bounds
    /\ usage = [k \in Keys |-> Zero]
    /\ counter \in [Keys -> IF bound.expiry THEN {None, Zero} ELSE {Zero}]
    /\ bound.expiry => \A k \in Keys : k[2] > bound.periods => counter[k] = None
    /\ open = [k \in Keys |-> {}]
    /\ period = 1
    /\ enforce \in BOOLEAN
    /\ breaker = [g \in Gateways |-> FALSE]
    /\ pc = [r \in Requests |-> "idle"]
    /\ admitted = [r \in Requests |-> 1]
    /\ lifted = [r \in Requests |-> {}]
    /\ todo = [r \in Requests |-> {}]
    /\ seed = [r \in Requests |-> None]
    /\ held = [r \in Requests |-> {}]
    /\ moving = [r \in Requests |-> {}]
    /\ actual = [r \in Requests |-> Zero]
    /\ stepAt = [r \in Requests |-> 0]
    /\ outages = 0 /\ cancels = 0
    /\ answered = {}
    /\ unbooked = {}
    /\ doubt = {}
    /\ flushed = FALSE

\* What one request does of its own accord.
Advance(r) ==
    \/ EarlyGate(r) \/ BookSideCall(r) \/ Guard(r)
    \/ \E b \in Budgets : ReadSeed(r, b)
    \/ Reserve(r) \/ Breach(r) \/ ReserveUnavailable(r) \/ CheckOnly(r)
    \/ Answer(r) \/ Fail(r) \/ Record(r)
    \/ \E b \in Budgets : AddStep(r, b) \/ AddLifted(r, b) \/ Move(r, b)

Disturb(r) ==
    \/ Interrupt(r) \/ InterruptUnshielded(r) \/ InterruptPipeline(r)
    \/ RecordFails(r) \/ PriceFails(r)

Done == (\A r \in Requests : pc[r] = "done") /\ UNCHANGED vars

Next ==
    \/ \E r \in Requests : Advance(r) \/ Disturb(r)
    \/ \E k \in Keys : Expire(k)
    \/ \E g \in Gateways : BreakerCloses(g) \/ Crash(g)
    \/ Flush
    \/ NextPeriod
    \/ Done

Spec == Init /\ [][Next]_vars
-----------------------------------------------------------------------------
(* Properties *)

\* Every variable keeps its type: in particular no usage figure and no counter
\* field ever goes below zero (the clamp of _ADJUST).
TypeOK ==
    /\ usage \in [Keys -> Amounts]
    /\ counter \in [Keys -> Amounts \cup {None}]
    /\ open \in [Keys -> SUBSET Requests]
    /\ period \in 1 .. MaxPeriod
    /\ enforce \in BOOLEAN
    /\ bound \in Bounds
    /\ breaker \in [Gateways -> BOOLEAN]
    /\ pc \in [Requests -> Phases]
    /\ admitted \in [Requests -> 1 .. MaxPeriod]
    /\ lifted \in [Requests -> SUBSET Budgets]
    /\ todo \in [Requests -> SUBSET Budgets]
    /\ seed \in [Requests -> [budget: Budgets, figure: Amounts] \cup {None}]
    /\ held \in [Requests -> SUBSET Budgets]
    /\ moving \in [Requests -> SUBSET Budgets]
    /\ actual \in [Requests -> Amounts]
    /\ stepAt \in [Requests -> 0 .. MaxPeriod]
    /\ outages \in Nat
    /\ cancels \in Nat
    /\ answered \in SUBSET Requests
    /\ unbooked \in SUBSET Requests
    /\ doubt \in SUBSET Requests
    /\ flushed \in BOOLEAN

\* The answered requests whose booking is committed.
Settled == {r \in answered \ unbooked : pc[r] # "recording"}

\* The requests of S that book against key k.
BookedOn(S, k) == {r \in S : k[1] \in Binding[r] /\ k[2] = admitted[r]}
SteppedOn(k) == {r \in Requests : k[1] \in Binding[r] /\ k[2] = stepAt[r]}
Steps == [r \in Requests |-> StepAmount]

\* Postgres is the record (ledger.py, store.py): at every moment budget_usage is
\* exactly what the answered requests and the pipeline calls cost, each once,
\* under the period the request was admitted in, whatever Redis, a
\* cancellation or a period's end did meanwhile; a refused or failed request
\* leaves nothing.  Only a booking that failed or died with its process is
\* missing.
BookedOnce ==
    \A k \in Keys :
        usage[k] = Plus(Total(BookedOn(Settled, k), actual), Total(SteppedOn(k), Steps))

\* r holds headroom of k that a step still to come settles or hands back.
Owns(r, k) ==
    /\ k[1] \in held[r] /\ k[2] = admitted[r]
    /\ \/ pc[r] \in {"reserving", "admitted", "recording", "adding"}
       \/ pc[r] \in {"settling"} \cup Handing /\ k[1] \in moving[r]

\* "Guarantee that a reservation is resolved, whatever happens" (hold, guard,
\* settle): a reservation kept beside a counter belongs to a request that is
\* still going to settle or release it.  It stays behind only where a failure
\* reached one of the points that set doubt.
OpenHasOwner ==
    \A k \in Keys : \A r \in open[k] : r \in doubt \/ Owns(r, k)

\* "A rebuilt counter keeps the reservations in flight" (ledger.py): however
\* expiry, rebuild, refusal, settlement and outage interleave, a counter never
\* holds less than the reservations open beside it, so no settlement takes out
\* what the counter does not hold and the clamp at zero hides nothing.  Only a
\* Redis that lost its data is excepted.
CounterCoversOpen ==
    ~flushed => \A k \in Keys :
        counter[k] # None =>
            \A d \in Dims : counter[k][d] >= Total(open[k], Estimate)[d]

\* Bookings committed to Postgres whose step on the counter is still to come.
Unmoved(k) ==
    {r \in BookedOn(answered, k) :
        \/ pc[r] = "settling" /\ k[1] \in moving[r]
        \/ pc[r] = "adding" /\ k[1] \in moving[r] \cup held[r]}
StepUnmoved(k) ==
    {r \in SteppedOn(k) : pc[r] \in {"stepAdding", "done"} /\ k[1] \in moving[r]}

\* Redis keeps its counters and answers: no expiry, no outage.
Calm == enforce /\ ~bound.expiry /\ outages = 0

\* While it is calm a counter is exactly the usage in Postgres plus the open
\* reservations, short only of the bookings whose correction is on its way and
\* of pipeline calls a cancellation cut off: refusals, releases, lifted budgets
\* and cancellations leave no other drift (settle, release, _add_to_counters).
CounterExact ==
    Calm => \A k \in Keys :
        Plus(counter[k], Plus(Total(Unmoved(k), actual), Total(StepUnmoved(k), Steps)))
          = Plus(usage[k], Total(open[k], Estimate))

\* The budget is capped, was lifted for none of the requests that booked
\* against it, and their estimates erred high.
HighEstimates(k, d) ==
    /\ Limit[k[1]][d] >= 0
    /\ \A r \in BookedOn(answered, k) :
          k[1] \notin lifted[r] /\ actual[r][d] <= Estimate[r][d]

\* A figure that passes the limit, if at all, by less than one estimate.
Within(k, d, figure) ==
    \/ figure <= Limit[k[1]][d]
    \/ \E r \in Requests : figure < Limit[k[1]][d] + Estimate[r][d]

\* The point of reserving (FRD-405): with Redis there, concurrent requests whose
\* estimates err high together pass a limit by less than the estimate of one of
\* them.  What the pipeline calls add is booked without being reserved, and a
\* budget lifted for one of its requests refuses nothing.
NoOvershoot ==
    Calm => \A k \in Keys, d \in Dims :
        HighEstimates(k, d) =>
            Within(k, d, usage[k][d] - Total(SteppedOn(k), Steps)[d])

\* Support of the proofs.  What a request holds, and what is known of it, at
\* each point of guard and settle.
BeforeGuard == {"idle", "pipeline", "stepAdding"}
BeforeAnswer == BeforeGuard \cup InGuard \cup {"admitted"}

Orderly(r) ==
    /\ pc[r] \in BeforeGuard => held[r] = {}
    /\ pc[r] \in BeforeGuard \cup {"reserving"} => r \notin doubt
    /\ pc[r] \in BeforeAnswer => r \notin answered
    /\ r \in unbooked => r \in answered
    /\ pc[r] = "recording" => r \in answered \ unbooked
    /\ pc[r] \notin {"reserving", "done"} => seed[r] = None
    /\ pc[r] = "reserving" =>
          /\ todo[r] \cap held[r] = {}
          /\ seed[r] # None => seed[r].budget \in todo[r]
    /\ pc[r] \in {"settling"} \cup Handing => moving[r] \subseteq held[r]

Discipline == \A r \in Requests : Orderly(r)

\* The converse of OpenHasOwner: what a request is going to settle is there.
OwnedIsOpen ==
    ~flushed => \A k \in Keys : \A r \in Requests : Owns(r, k) => r \in open[k]

-----------------------------------------------------------------------------
(* What a comment or a test says, and the code does not keep (README)       *)

Quiet == \A r \in Requests : pc[r] \in {"idle", "done"}

\* "A missing key is left alone: the next reservation reseeds it from Postgres,
\* which by then holds the settled figure" (_ADJUST): once nothing is in
\* flight and no call failed, a counter holds at least what Postgres does.
ReseedSeesSettled ==
    (enforce /\ Quiet /\ outages = 0 /\ cancels = 0) =>
        \A k \in Keys : counter[k] # None =>
            \A d \in Dims : counter[k][d] >= usage[k][d]

\* "The reservation already made must be handed back" when Redis fails between
\* two budgets, and "anything else part-way through - ... a cancellation -
\* leaves the budgets already reserved ... Handed back" (guard): the fallback
\* starts with none of them held, and a request that is over holds none while
\* Redis answers.
GuardHandsBack ==
    \A r \in Requests :
        pc[r] = "checking" \/ (pc[r] = "done" /\ outages = 0) =>
            \A b \in held[r] : r \notin open[Key(r, b)]
=============================================================================
