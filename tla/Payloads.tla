------------------------------ MODULE Payloads ------------------------------
(***************************************************************************)
(* The stored prompts and answers of a use case: whether the audit writer  *)
(* keeps them (persistence/writer.py, _write), when the retention sweep    *)
(* clears them (retention.py), and what a reader is told once they are not *)
(* there (payloads.py, may_read_payload).                                  *)
(*                                                                         *)
(* What the use case promises about its content arrives from Management    *)
(* at any time.  A write reads it before it commits; a sweep reads it once *)
(* and then runs one statement after the other, in one transaction of      *)
(* READ COMMITTED, beside other sweeps and other writes.                   *)
(*                                                                         *)
(* One use case, and the requests that name none.  Time is in days.        *)
(***************************************************************************)
EXTENDS Integers, FiniteSets

CONSTANTS
    Rows,         \* the audit rows
    Sweeps,       \* the sweeps: each a process that runs once, at any time
    Days,         \* the periods a use case may promise
    Default,      \* AIRA_DEFAULT_RETENTION_DAYS
    RecordDays,   \* AIRA_LOG_RETENTION_DAYS: the settings tried, 0 for "keep"
    MaxClock,     \* bound: days
    Bounds,       \* bounds, one chosen at the start: rows written, sweeps run,
                  \* changes of the read-model, sweeps that die
    None

Promises == [store: BOOLEAN, days: Days, retired: BOOLEAN]

ASSUME PayloadsAssumption ==
    /\ IsFiniteSet(Rows)
    /\ None \notin Promises
    /\ Days \subseteq Nat \ {0}
    /\ Default \in Nat \ {0}
    /\ RecordDays \subseteq Nat
    /\ MaxClock \in Nat
    /\ Bounds \subseteq [rows: Nat, sweeps: Nat, changes: Nat, crashes: Nat]

VARIABLES
    clock,
    storing,      \* AIRA_STORE_PAYLOADS
    recordDays,
    usecase,      \* the read-model's row of the use case, or None
    row,          \* row[r]: [pc, named, body, served, created, store, content]
    sweep,        \* sweep[s]: [pc, now, promise, cleared, deleted]
    runs,         \* what the RetentionRun rows report: [cleared, deleted]
    \* Bookkeeping.
    had,          \* the rows that held content once
    least,        \* least[r]: the shortest period r was under while it held content
    relaxed,      \* the rows whose period was lengthened since
    swept,        \* the rows a sweep has cleared,
    early,        \* ... and those of them that were not past their shortest period
    owed,         \* owed[s]: the rows whose content was due when s read the promise,
    missed,       \* ... and those that still held it when s committed
    bound, changes, crashes

setting == <<storing, recordDays, bound>>
promised == <<least, relaxed>>
outcome == <<swept, early, missed>>
sweeping == <<sweep, runs, owed, outcome>>
vars == <<clock, setting, usecase, row, sweeping, had, promised, changes, crashes>>

-----------------------------------------------------------------------------
(* The period a row is under: none is kept where storage is off *)

\* Mutant of PromiseOf: a sweep of the use cases that are live.
PromiseOfLive(u) == IF u = None THEN None ELSE IF u.retired THEN None ELSE u

\* _periods reads tombstones like any other row.
PromiseOf(u) == u

DaysOf(u) == IF u.store THEN u.days ELSE 0

\* A row the read-model knows no use case for follows the installation's default.
Period(u, named) == IF named /\ u # None THEN DaysOf(u) ELSE Default

\* `created_at < now - days`, as every statement of a sweep asks.
Past(r, now, days) == now - row[r].created > days

-----------------------------------------------------------------------------
(* RequestLogWriter._write *)

NoRow == [pc |-> "none", named |-> FALSE, served |-> FALSE, created |-> 0, content |-> FALSE]

\* Mutant of MayStore: the use case's own setting decides.
MayStoreIfAllowed(named) ==
    IF named THEN usecase # None /\ usecase.store ELSE storing

\* _may_store_payloads: the installation's switch, then the use case's.
MayStore(named) ==
    storing /\ (named => usecase # None /\ usecase.store)

\* The transaction begins, which is what dates the row, and asks.  What was
\* served has a body; what was refused may have been refused before it was read.
Open(r) ==
    /\ row[r].pc = "none"
    /\ Cardinality({q \in Rows : row[q].pc # "none"}) < bound.rows
    /\ \E named, body, served \in BOOLEAN :
          /\ served => body
          /\ row' = [row EXCEPT ![r] =
                [pc |-> "open", named |-> named, served |-> served, created |-> clock,
                 content |-> body /\ MayStore(named)]]
          /\ least' = [least EXCEPT ![r] = Period(usecase, named)]
    /\ UNCHANGED <<clock, setting, usecase, sweeping, had, relaxed, changes, crashes>>

\* It commits with what was asked, after the walks over the payload.
Commit(r) ==
    /\ row[r].pc = "open"
    /\ row' = [row EXCEPT ![r].pc = "stored"]
    /\ had' = IF row[r].content THEN had \cup {r} ELSE had
    /\ UNCHANGED <<clock, setting, usecase, sweeping, promised, changes, crashes>>

Stored == {r \in Rows : row[r].pc = "stored"}
Held == {r \in Stored : row[r].content}

-----------------------------------------------------------------------------
(* RetentionService.prune *)

NoSweep == [pc |-> "idle", now |-> 0, promise |-> None, cleared |-> {}, deleted |-> {}]

\* The moment is read first, ...
Start(s) ==
    /\ sweep[s].pc = "idle"
    /\ Cardinality({t \in Sweeps : sweep[t].pc # "idle"}) < bound.sweeps
    /\ sweep' = [sweep EXCEPT ![s] = [NoSweep EXCEPT !.pc = "reading", !.now = clock]]
    /\ UNCHANGED <<clock, setting, usecase, row, runs, outcome, had, promised, owed, changes,
                   crashes>>

Due(s) == {r \in Held : Past(r, sweep[s].now, Period(usecase, row[r].named))}

\* ... then the periods, ...
ReadPeriods(s) ==
    /\ sweep[s].pc = "reading"
    /\ sweep' = [sweep EXCEPT ![s] = [@ EXCEPT !.pc = "named", !.promise = PromiseOf(usecase)]]
    /\ owed' = [owed EXCEPT ![s] = Due(s)]
    /\ UNCHANGED <<clock, setting, usecase, row, runs, outcome, had, promised, changes,
                   crashes>>

\* Mutant of Clearable: whether a row has anything to clear is not asked.
ClearableAgain(r) == r \in Stored

\* Only rows that still have a payload are touched.
Clearable(r) == r \in Held

\* A statement waits for the rows another sweep has changed, and looks again.
Locked(s) == UNION {sweep[t].cleared \cup sweep[t].deleted : t \in Sweeps \ {s}}

Clears(s, S, next) ==
    /\ S \cap Locked(s) = {}
    /\ sweep' = [sweep EXCEPT ![s] = [@ EXCEPT !.pc = next, !.cleared = sweep[s].cleared \cup S]]
    /\ UNCHANGED <<clock, setting, usecase, row, runs, outcome, had, promised, owed, changes,
                   crashes>>

\* ... a statement for each use case that has one, ...
ClearNamed(s) ==
    LET u == sweep[s].promise
    IN /\ sweep[s].pc = "named"
       /\ Clears(s, {r \in Rows : /\ u # None /\ row[r].named /\ Clearable(r)
                                  /\ Past(r, sweep[s].now, DaysOf(u))}, "unknown")

\* No use case, or one the read-model does not name.
Unclaimed(s, r) == ~row[r].named \/ sweep[s].promise = None

\* ... one for the rest, ...
ClearUnknown(s) ==
    /\ sweep[s].pc = "unknown"
    /\ Clears(s, {r \in Rows : /\ Unclaimed(s, r) /\ Clearable(r)
                               /\ Past(r, sweep[s].now, Default)}, "records")

\* ... and one for whole rows, where the installation wants it.
DeleteRecords(s) ==
    LET D == {r \in Stored : recordDays # 0 /\ Past(r, sweep[s].now, recordDays)}
    IN /\ sweep[s].pc = "records"
       /\ D \cap Locked(s) = {}
       /\ sweep' = [sweep EXCEPT ![s] = [@ EXCEPT !.pc = "done", !.deleted = D]]
       /\ UNCHANGED <<clock, setting, usecase, row, runs, outcome, had, promised, owed,
                      changes, crashes>>

\* All of it commits together with the row that reports it.
CommitSweep(s) ==
    LET C == sweep[s].cleared
        D == sweep[s].deleted
    IN /\ sweep[s].pc = "done"
       /\ row' = [r \in Rows |->
             IF r \in D THEN [NoRow EXCEPT !.pc = "deleted"]
             ELSE [row[r] EXCEPT !.content = @ /\ r \notin C]]
       /\ runs' = [cleared |-> runs.cleared + Cardinality(C),
                   deleted |-> runs.deleted + Cardinality(D)]
       /\ swept' = swept \cup C
       /\ early' = early \cup {r \in C : ~Past(r, sweep[s].now, least[r])}
       /\ missed' = missed \cup {r \in owed[s] : row'[r].content}
       /\ owed' = [owed EXCEPT ![s] = {}]
       /\ sweep' = [sweep EXCEPT ![s] = [NoSweep EXCEPT !.pc = "over"]]
       /\ UNCHANGED <<clock, setting, usecase, had, promised, changes, crashes>>

\* The process dies, or a statement fails: the transaction is rolled back.
Crash(s) ==
    /\ sweep[s].pc \notin {"idle", "over"}
    /\ crashes < bound.crashes
    /\ crashes' = crashes + 1
    /\ sweep' = [sweep EXCEPT ![s] = [NoSweep EXCEPT !.pc = "over"]]
    /\ owed' = [owed EXCEPT ![s] = {}]
    /\ UNCHANGED <<clock, setting, usecase, row, runs, outcome, had, promised, changes>>

-----------------------------------------------------------------------------
(* may_read_payload, for a reader with the authority to read *)

\* Mutant of PastRetention: an absence is told by the status alone.
ByStatusAlone(r) == FALSE

\* The pruner's clock, read the same way.
PastRetention(r) ==
    Past(r, clock, IF row[r].named /\ usecase # None THEN usecase.days ELSE Default)

Absence(r) ==
    CASE row[r].named /\ usecase # None /\ ~usecase.store -> "not_stored"
      [] ~(row[r].named /\ usecase # None /\ ~usecase.store) /\ row[r].served -> "expired"
      [] OTHER -> IF PastRetention(r) THEN "past_retention" ELSE "never_had_one"

\* The row is read before the use case; content never comes back, so a row
\* read without any is told what the use case's setting says by then.
Told(r) == IF row[r].content THEN "content" ELSE Absence(r)

-----------------------------------------------------------------------------
(* The read-model changes (consumer/apply.py) *)

Changed(u) ==
    /\ changes < bound.changes
    /\ changes' = changes + 1
    /\ u # usecase
    /\ usecase' = u
    /\ least' = [r \in Rows |->
          LET p == Period(u, row[r].named)
          IN IF row[r].content /\ p < least[r] THEN p ELSE least[r]]
    /\ relaxed' = relaxed \cup
          {r \in Rows : /\ row[r].pc \in {"open", "stored"}
                        /\ Period(u, row[r].named) > Period(usecase, row[r].named)}
    /\ UNCHANGED <<clock, setting, row, sweeping, had, crashes>>

\* A tombstone keeps its mark and takes the fields.
UpsertUseCase ==
    \E store \in BOOLEAN, days \in Days :
        Changed([store |-> store, days |-> days,
                 retired |-> usecase # None /\ usecase.retired])

\* The row stays as it is, or is written from the event.
RetireUseCase ==
    IF usecase # None THEN Changed([usecase EXCEPT !.retired = TRUE])
    ELSE \E store \in BOOLEAN, days \in Days :
            Changed([store |-> store, days |-> days, retired |-> TRUE])

\* The tombstone goes, or the whole read-model does, to be rebuilt.
PurgeUseCase == Changed(None)

Day ==
    /\ clock < MaxClock
    /\ clock' = clock + 1
    /\ UNCHANGED <<setting, usecase, row, sweeping, had, promised, changes, crashes>>

-----------------------------------------------------------------------------

Init ==
    /\ clock = 0
    /\ storing \in BOOLEAN
    /\ recordDays \in RecordDays
    /\ bound \in Bounds
    /\ usecase \in Promises \cup {None}
    /\ row = [r \in Rows |-> NoRow]
    /\ sweep = [s \in Sweeps |-> NoSweep]
    /\ runs = [cleared |-> 0, deleted |-> 0]
    /\ had = {}
    /\ least = [r \in Rows |-> 0]
    /\ relaxed = {}
    /\ swept = {}
    /\ early = {}
    /\ owed = [s \in Sweeps |-> {}]
    /\ missed = {}
    /\ changes = 0
    /\ crashes = 0

Sweep(s) ==
    \/ Start(s) \/ ReadPeriods(s) \/ ClearNamed(s) \/ ClearUnknown(s)
    \/ DeleteRecords(s) \/ CommitSweep(s) \/ Crash(s)

Next ==
    \/ \E r \in Rows : Open(r) \/ Commit(r)
    \/ \E s \in Sweeps : Sweep(s)
    \/ UpsertUseCase \/ RetireUseCase \/ PurgeUseCase
    \/ Day

Spec == Init /\ [][Next]_vars

-----------------------------------------------------------------------------
(* Properties *)

\* Every variable keeps its type, and with AIRA_STORE_PAYLOADS off no row ever
\* holds content (_may_store_payloads: "an operator kill switch").
TypeOK ==
    /\ clock \in 0 .. MaxClock
    /\ storing \in BOOLEAN
    /\ recordDays \in RecordDays
    /\ bound \in Bounds
    /\ usecase \in Promises \cup {None}
    /\ row \in [Rows -> [pc: {"none", "open", "stored", "deleted"}, named: BOOLEAN,
                         served: BOOLEAN, created: 0 .. MaxClock, content: BOOLEAN]]
    /\ \A r \in Rows : row[r].content => storing
    /\ sweep \in [Sweeps -> [pc: {"idle", "reading", "named", "unknown", "records", "done",
                                  "over"},
                             now: 0 .. MaxClock, promise: Promises \cup {None},
                             cleared: SUBSET Rows, deleted: SUBSET Rows]]
    /\ owed \in [Sweeps -> SUBSET Rows]
    /\ runs \in [cleared: Nat, deleted: Nat]
    /\ least \in [Rows -> Nat]
    /\ had \cup relaxed \cup swept \cup missed \subseteq Rows
    /\ early \subseteq swept
    /\ changes \in Nat /\ crashes \in Nat

\* "Neither swept early nor handed the installation default" (_periods), and
\* "what is already stored goes on the next run" (prune), whichever writes,
\* sweeps and changes of the read-model overlap: content that is cleared was
\* past the shortest period its row was under, and content that was due when a
\* sweep read the promise is gone once it has committed, be its use case
\* retired, purged, never known, or one that switched storage off.
SweptAsPromised == early = {} /\ missed = {}

\* "A record of an erasure that rolled back would be worse than none" (prune):
\* the sweeps' own rows together report exactly what was erased, however sweeps
\* overlap, repeat and die.
RunsTellErasures ==
    /\ runs.cleared = Cardinality(swept)
    /\ runs.deleted = Cardinality({r \in Rows : row[r].pc = "deleted"})

\* "'It never reached a model' would tell an investigator that a prompt which
\* existed never did" (may_read_payload): never said of a row that held content,
\* unless its period was lengthened since.
AbsenceIsToldApart ==
    \A r \in Stored : Told(r) = "never_had_one" => r \notin had \/ r \in relaxed
=============================================================================
