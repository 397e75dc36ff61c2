------------------------------- MODULE Anomaly -------------------------------
(***************************************************************************)
(* Anomaly detection and the suspensions it leads to (anomalies/service.py,*)
(* evaluator.py, suspensions.py).  Detection runs on a timer in every      *)
(* gateway instance, one of them per tick under an advisory lock of        *)
(* Postgres, over the audit rows all of them wrote.  Enforcement runs      *)
(* before every request, from a cache of the suspensions each instance     *)
(* keeps for CACHE_TTL_SECONDS.  The audit rows are those of the whole      *)
(* fleet, served and refused: any may come at any time.                    *)
(*                                                                         *)
(* A rule measures the share of refused requests per use case, and acts on *)
(* the use case: target `use_case`, kind `refusal_rate`.  Time is counted  *)
(* in one unit for windows, suspensions and the cache.                     *)
(***************************************************************************)
EXTENDS Integers, FiniteSets, Sequences

CONSTANTS
    Instances,    \* the gateway instances
    Requests,     \* one at a time each
    Home,         \* Home[q]: the instance that serves q
    Scope,        \* Scope[q]: the use case q names
    Rules,        \* the enabled rules
    Terms,        \* Terms[r]: [reach, window, sample, threshold, action, minutes]
    CacheTTL,     \* CACHE_TTL_SECONDS
    Interval,     \* how far the first tick after a start looks back
    LoadTime,     \* how long the load of the suspensions takes at most
    Bounds,       \* the bounds a behaviour may have: the clock, audit rows,
                  \* ticks, requests checked, a person's decisions,
                  \* failures and restarts
    None

Scopes == {Scope[q] : q \in Requests}
Actions == {"alert", "block", "throttle"}

Acted == {"blocked", "throttled"}

\* What an event may say.
Reports ==
    [rule: Rules, target: Scopes, at: Nat,
     taken: Acted \cup {"alert", "detected_not_enforced"}]

ASSUME AnomalyAssumption ==
    /\ Home \in [Requests -> Instances]
    /\ IsFiniteSet(Rules) /\ DOMAIN Terms = Rules
    /\ \A r \in Rules :
          /\ Terms[r].reach \in Scopes \cup {None}
          /\ Terms[r].window \in Nat \ {0}
          /\ Terms[r].sample \in Nat
          /\ Terms[r].threshold \in 0 .. 100
          /\ Terms[r].action \in Actions
          /\ Terms[r].minutes \in Nat
    /\ CacheTTL \in Nat \ {0} /\ Interval \in Nat /\ LoadTime \in Nat
    /\ None \notin Int /\ None \notin Instances /\ None \notin Reports

VARIABLES
    clock,
    \* Postgres.
    rows,        \* request_logs: [scope, refused, at], in order of writing
    events,      \* anomaly_events: [rule, target, at, taken]
    suspensions, \* access_suspensions: [target, action, at, expires, lifted, by]
    lock,        \* the holder of TICK_LOCK_KEY
    \* The instances.
    enforcing,   \* AIRA_ENFORCE_SUSPENSIONS
    since,       \* AnomalyService._since
    tick,        \* the tick under way: [pc, moment, touched, found]
    cached,      \* SuspensionService._cached
    loadedAt,    \* SuspensionService._loaded_at
    person,      \* a person's decision whose cache is not yet invalidated
    \* The requests.
    req,         \* [pc, began, seen]
    verdict,     \* the last answer of the gate: [stopped, began, at]
    \* Bookkeeping.
    bound,       \* the bounds of this behaviour
    ticks, checks, decisions, faults

detection == <<since, tick, lock>>
counts == <<bound, ticks, checks, decisions, faults>>
gate == <<cached, loadedAt, req, verdict>>
vars == <<clock, rows, events, suspensions, enforcing, detection, gate,
          person, counts>>

-----------------------------------------------------------------------------
(* evaluator.py *)

InWindow(r, s, now) ==
    {k \in DOMAIN rows :
        /\ rows[k].scope = s
        /\ Terms[r].reach \in {s, None}
        /\ rows[k].at >= now - Terms[r].window}

Refused(K) == {k \in K : rows[k].refused}

\* _share: compared exactly, in integers, and never over too few rows.
Crossed(r, s, now) ==
    LET K == InWindow(r, s, now)
    IN /\ Cardinality(K) >= Terms[r].sample
       /\ K # {}
       /\ Cardinality(Refused(K)) * 100 >= Terms[r].threshold * Cardinality(K)

-----------------------------------------------------------------------------
(* service.py: one round *)

NoTick == [pc |-> "idle", moment |-> 0, touched |-> {}, found |-> {}]

\* Mutant of Claims: every instance evaluates.
AlwaysClaims(i) == TRUE

\* pg_try_advisory_xact_lock.
Claims(i) == lock = None

\* The tick reads its moment, and only then asks for the lock.
Wake(i) ==
    /\ tick[i].pc = "idle"
    /\ ticks < bound.ticks
    /\ ticks' = ticks + 1
    /\ tick' = [tick EXCEPT ![i] = [NoTick EXCEPT !.pc = "woken", !.moment = clock]]
    /\ UNCHANGED <<clock, rows, events, suspensions, enforcing, since, lock,
                   gate, person, bound, checks, decisions, faults>>

\* The loser advances its watermark and stops.
Lose(i) ==
    /\ tick[i].pc = "woken"
    /\ ~Claims(i)
    /\ since' = [since EXCEPT ![i] = tick[i].moment]
    /\ tick' = [tick EXCEPT ![i] = NoTick]
    /\ UNCHANGED <<clock, rows, events, suspensions, enforcing, lock,
                   gate, person, counts>>

LookedBack(i) ==
    IF since[i] = None THEN tick[i].moment - Interval ELSE since[i]

\* _touched_since.
Claim(i) ==
    /\ tick[i].pc = "woken"
    /\ Claims(i)
    /\ lock' = i
    /\ tick' = [tick EXCEPT ![i] =
          [@ EXCEPT !.pc = "evaluating",
                    !.touched = {k \in DOMAIN rows : rows[k].at >= LookedBack(i)}]]
    /\ UNCHANGED <<clock, rows, events, suspensions, enforcing, since,
                   gate, person, counts>>

TouchedScopes(i) == {rows[k].scope : k \in tick[i].touched}

Applicable(i) ==
    {r \in Rules : TouchedScopes(i) # {}
                   /\ (Terms[r].reach = None \/ Terms[r].reach \in TouchedScopes(i))}

FiredRecently(r, s, now) ==
    \E e \in events : e.rule = r /\ e.target = s /\ e.at > now - Terms[r].window

\* Mutant of Enforces: the switch of the installation is not asked.
EnforcesAlways(r) == Terms[r].action # "alert" /\ Terms[r].minutes > 0

Enforces(r) == Terms[r].action # "alert" /\ enforcing /\ Terms[r].minutes > 0

Taken(r) ==
    CASE Terms[r].action = "alert" -> "alert"
      [] Terms[r].action # "alert" /\ ~Enforces(r) -> "detected_not_enforced"
      [] Terms[r].action = "block" /\ Enforces(r) -> "blocked"
      [] OTHER -> "throttled"

\* _record and _enforce, over every finding of the rules that do not fail:
\* each rule has a savepoint of its own.
Findings(i, R) ==
    LET now == tick[i].moment
    IN {[rule |-> p[1], target |-> p[2], at |-> now, taken |-> Taken(p[1])] :
          p \in {f \in (Applicable(i) \cap R) \X Scopes :
                /\ Crossed(f[1], f[2], now)
                /\ ~FiredRecently(f[1], f[2], now)}}

\* suspension_from_rule: always with an expiry.
FromRule(e) ==
    [target |-> e.target, action |-> Terms[e.rule].action, at |-> clock,
     expires |-> e.at + Terms[e.rule].minutes, lifted |-> None, by |-> e]

\* _evaluate: the rules that did not fail have their rows in the transaction.
Evaluate(i) ==
    /\ tick[i].pc = "evaluating"
    /\ \E R \in SUBSET Rules :
          /\ faults + Cardinality(Rules \ R) <= bound.faults
          /\ faults' = faults + Cardinality(Rules \ R)
          /\ tick' = [tick EXCEPT ![i] = [@ EXCEPT !.pc = "evaluated",
                                                   !.found = Findings(i, R)]]
    /\ UNCHANGED <<clock, rows, events, suspensions, enforcing, since, lock,
                   gate, person, bound, ticks, checks, decisions>>

\* Mutant of Stops: a stop for every finding, whatever its event says.
StopsForAll(found) == {FromRule(e) : e \in found}

Stops(found) == {FromRule(e) : e \in {x \in found : x.taken \in Acted}}

\* The events and the suspensions in one transaction; the lock ends with it.
Commit(i) ==
    /\ tick[i].pc = "evaluated"
    /\ events' = events \cup tick[i].found
    /\ suspensions' = suspensions \cup Stops(tick[i].found)
    /\ lock' = None
    /\ tick' = [tick EXCEPT ![i].pc = "committed"]
    /\ UNCHANGED <<clock, rows, enforcing, since, gate, person,
                   counts>>

\* After the session is closed: the watermark, and the cache.
Settle(i) ==
    /\ tick[i].pc = "committed"
    /\ since' = [since EXCEPT ![i] = tick[i].moment]
    /\ loadedAt' = IF \E e \in tick[i].found : e.taken \in Acted
                   THEN [loadedAt EXCEPT ![i] = None] ELSE loadedAt
    /\ tick' = [tick EXCEPT ![i] = NoTick]
    /\ UNCHANGED <<clock, rows, events, suspensions, enforcing, lock, cached,
                   req, verdict, person, counts>>

\* The tick raises: its transaction is rolled back, its watermark stays.
Fail(i) ==
    /\ tick[i].pc \in {"woken", "evaluating", "evaluated"}
    /\ faults < bound.faults
    /\ faults' = faults + 1
    /\ lock' = IF lock = i THEN None ELSE lock
    /\ tick' = [tick EXCEPT ![i] = NoTick]
    /\ UNCHANGED <<clock, rows, events, suspensions, enforcing, since,
                   gate, person, bound, ticks, checks, decisions>>

-----------------------------------------------------------------------------
(* suspensions.py: the gate *)

Idle == [pc |-> "idle", began |-> 0, seen |-> {}]

InForce(s, now) == s.lifted = None /\ (s.expires = None \/ s.expires > now)

StillApplies(s) == s.lifted = None /\ (s.expires = None \/ s.expires > clock)

\* What stops q: a block, or a throttle whose bucket is empty.
Stopping(q, S) ==
    {s \in S : StillApplies(s) /\ s.target = Scope[q] /\ s.action # "alert"}

\* The gate answers from what is cached now.
Answer(q, S, began) ==
    /\ verdict' = [verdict EXCEPT ![q] =
          [stopped |-> Stopping(q, S) # {}, began |-> began, at |-> clock]]
    /\ req' = [req EXCEPT ![q] = Idle]

Stale(i) == loadedAt[i] # None => clock - loadedAt[i] >= CacheTTL

\* check: a fresh cache answers without an await; with the switch off nothing
\* is asked.
Check(q) ==
    /\ req[q].pc = "idle"
    /\ checks < bound.checks
    /\ checks' = checks + 1
    /\ ~(enforcing /\ Stale(Home[q]))
    /\ Answer(q, IF enforcing THEN cached[Home[q]] ELSE {}, clock)
    /\ UNCHANGED <<clock, rows, events, suspensions, enforcing, detection,
                   cached, loadedAt, person, bound, ticks, decisions, faults>>

\* The cache is stale: the clock has been read, and the load begins.
Begin(q) ==
    /\ req[q].pc = "idle"
    /\ checks < bound.checks
    /\ checks' = checks + 1
    /\ enforcing /\ Stale(Home[q])
    /\ req' = [req EXCEPT ![q] = [Idle EXCEPT !.pc = "loading", !.began = clock]]
    /\ UNCHANGED <<clock, rows, events, suspensions, enforcing, detection,
                   cached, loadedAt, verdict, person, bound, ticks, decisions,
                   faults>>

\* _load reads what can still apply.
Load(q) ==
    /\ req[q].pc = "loading"
    /\ req' = [req EXCEPT ![q] = [@ EXCEPT !.pc = "loaded",
                                           !.seen = {s \in suspensions : InForce(s, clock)}]]
    /\ UNCHANGED <<clock, rows, events, suspensions, enforcing, detection,
                   cached, loadedAt, verdict, person, counts>>

\* The result is assigned inside the session's block ...
Cache(q) ==
    /\ req[q].pc = "loaded"
    /\ cached' = [cached EXCEPT ![Home[q]] = req[q].seen]
    /\ req' = [req EXCEPT ![q] = [@ EXCEPT !.pc = "closing", !.seen = {}]]
    /\ UNCHANGED <<clock, rows, events, suspensions, enforcing, detection,
                   loadedAt, verdict, person, counts>>

\* Mutant of LoadedAt: the load is dated when it ends.
LoadedNow(q) == clock

LoadedAt(q) == req[q].began

\* ... and dated once the session is closed.
Date(q) ==
    /\ req[q].pc = "closing"
    /\ loadedAt' = [loadedAt EXCEPT ![Home[q]] = LoadedAt(q)]
    /\ Answer(q, cached[Home[q]], req[q].began)
    /\ UNCHANGED <<clock, rows, events, suspensions, enforcing, detection,
                   cached, person, counts>>

-----------------------------------------------------------------------------
(* api/incidents/suspensions.py: a person's decisions *)

Nobody == [pc |-> "idle", at |-> None]

Suspend(i, t) ==
    /\ person.pc = "idle"
    /\ decisions < bound.decisions
    /\ decisions' = decisions + 1
    /\ \E e \in {None, clock + 1} :
          suspensions' = suspensions \cup
            {[target |-> t, action |-> "block", at |-> clock, expires |-> e,
              lifted |-> None, by |-> None]}
    /\ person' = [pc |-> "committed", at |-> i]
    /\ UNCHANGED <<clock, rows, events, enforcing, detection, gate,
                   bound, ticks, checks, faults>>

Lift(i, s) ==
    /\ person.pc = "idle"
    /\ decisions < bound.decisions
    /\ s.lifted = None
    /\ decisions' = decisions + 1
    /\ suspensions' = (suspensions \ {s}) \cup {[s EXCEPT !.lifted = clock]}
    /\ person' = [pc |-> "committed", at |-> i]
    /\ UNCHANGED <<clock, rows, events, enforcing, detection, gate,
                   bound, ticks, checks, faults>>

Invalidate ==
    /\ person.pc = "committed"
    /\ loadedAt' = [loadedAt EXCEPT ![person.at] = None]
    /\ person' = Nobody
    /\ UNCHANGED <<clock, rows, events, suspensions, enforcing, detection,
                   cached, req, verdict, counts>>

-----------------------------------------------------------------------------
(* The environment *)

\* An audit row is written.
Traffic(s, refused) ==
    /\ Len(rows) < bound.rows
    /\ rows' = Append(rows, [scope |-> s, refused |-> refused, at |-> clock])
    /\ UNCHANGED <<clock, events, suspensions, enforcing, detection, gate,
                   person, counts>>

Loading(q) == req[q].pc \in {"loading", "loaded", "closing"}

\* Time passes; a load takes at most LoadTime.
Pass ==
    /\ clock < bound.clock
    /\ \A q \in Requests : Loading(q) => clock < req[q].began + LoadTime
    /\ clock' = clock + 1
    /\ UNCHANGED <<rows, events, suspensions, enforcing, detection, gate,
                   person, counts>>

Restart(i) ==
    /\ faults < bound.faults
    /\ faults' = faults + 1
    /\ lock' = IF lock = i THEN None ELSE lock
    /\ since' = [since EXCEPT ![i] = None]
    /\ tick' = [tick EXCEPT ![i] = NoTick]
    /\ cached' = [cached EXCEPT ![i] = {}]
    /\ loadedAt' = [loadedAt EXCEPT ![i] = None]
    /\ req' = [q \in Requests |-> IF Home[q] = i THEN Idle ELSE req[q]]
    /\ person' = IF person.at = i THEN Nobody ELSE person
    /\ UNCHANGED <<clock, rows, events, suspensions, enforcing,
                   verdict, bound, ticks, checks, decisions>>

-----------------------------------------------------------------------------

Init ==
    /\ clock = 0
    /\ rows = <<>>
    /\ events = {}
    /\ suspensions = {}
    /\ lock = None
    /\ enforcing \in BOOLEAN
    /\ since = [i \in Instances |-> None]
    /\ tick = [i \in Instances |-> NoTick]
    /\ cached = [i \in Instances |-> {}]
    /\ loadedAt = [i \in Instances |-> None]
    /\ person = Nobody
    /\ req = [q \in Requests |-> Idle]
    /\ verdict = [q \in Requests |-> None]
    /\ bound \in Bounds
    /\ ticks = 0
    /\ checks = 0
    /\ decisions = 0
    /\ faults = 0

Next ==
    \/ \E i \in Instances :
          \/ Wake(i) \/ Lose(i) \/ Claim(i) \/ Evaluate(i) \/ Commit(i)
          \/ Settle(i) \/ Fail(i) \/ Restart(i)
          \/ \E t \in Scopes : Suspend(i, t)
          \/ \E s \in suspensions : Lift(i, s)
    \/ \E q \in Requests :
          Begin(q) \/ Check(q) \/ Load(q) \/ Cache(q) \/ Date(q)
    \/ \E s \in Scopes, refused \in BOOLEAN : Traffic(s, refused)
    \/ Invalidate
    \/ Pass

Spec == Init /\ [][Next]_vars

-----------------------------------------------------------------------------
(* Properties *)

Suspensions ==
    [target: Scopes, action: Actions, at: Nat, expires: Int \cup {None},
     lifted: Nat \cup {None},
     by: [rule: Rules, target: Scopes, at: Nat, taken: Acted] \cup {None}]

\* Every variable keeps its type: what a rule leaves behind always names an
\* event of an action it took (_enforce), never an alert.
TypeOK ==
    /\ bound \in Bounds
    /\ clock \in Nat /\ ticks \in Nat /\ checks \in Nat /\ decisions \in Nat /\ faults \in Nat
    /\ rows \in Seq([scope: Scopes, refused: BOOLEAN, at: Nat])
    /\ events \subseteq Reports
    /\ suspensions \subseteq Suspensions
    /\ lock \in Instances \cup {None}
    /\ enforcing \in BOOLEAN
    /\ since \in [Instances -> Nat \cup {None}]
    /\ tick \in [Instances ->
          [pc: {"idle", "woken", "evaluating", "evaluated", "committed"}, moment: Nat,
           touched: SUBSET Nat, found: SUBSET Reports]]
    /\ \A i \in Instances : tick[i].touched \subseteq DOMAIN rows
    /\ cached \in [Instances -> SUBSET Suspensions]
    /\ loadedAt \in [Instances -> Nat \cup {None}]
    /\ person \in {Nobody} \cup [pc: {"committed"}, at: Instances]
    /\ req \in [Requests ->
          [pc: {"idle", "loading", "loaded", "closing"}, began: Nat, seen: SUBSET Suspensions]]
    /\ verdict \in [Requests -> [stopped: BOOLEAN, began: Nat, at: Nat] \cup {None}]

\* A finding is reported once per window of its rule, whatever instances are
\* evaluating: "otherwise a 15-minute window evaluated every minute would fire
\* fifteen times about the same fifteen minutes" (_record), and "with
\* enforcement on, one finding became one suspension per instance" (FRD-127).
OncePerWindow ==
    \A e, f \in events :
        e # f /\ e.rule = f.rule /\ e.target = f.target =>
            \/ e.at >= f.at + Terms[e.rule].window
            \/ f.at >= e.at + Terms[e.rule].window

\* An event says that it stopped somebody exactly when a suspension says so
\* too, whichever rules fail and whenever the tick or the instance does; and
\* with enforcement off no rule leaves a stop behind for the day it goes on.
RecordedAsDone ==
    /\ {e \in events : e.taken \in Acted} = {s.by : s \in suspensions} \ {None}
    /\ ~enforcing => \A s \in suspensions : s.by = None

Staleness == CacheTTL + LoadTime

\* A stop that has been in force for longer than the cache may be stale stops
\* every request that begins thereafter: on any instance, whatever loads
\* overlap, and a lift lets requests through as soon.
StopsInTime ==
    \A q \in Requests :
        LET v == verdict[q]
        IN v # None /\ enforcing =>
           /\ ~v.stopped => \A s \in suspensions :
                 /\ s.target = Scope[q]
                 /\ s.action # "alert"
                 /\ s.at + Staleness <= v.began
                 => \/ s.lifted # None /\ s.lifted <= v.at
                    \/ s.expires # None /\ s.expires <= v.at
           /\ v.stopped => \E s \in suspensions :
                 /\ s.target = Scope[q]
                 /\ s.at <= v.at
                 /\ s.lifted = None \/ s.lifted + Staleness > v.began
                 /\ s.expires = None \/ s.expires > v.at
=============================================================================
