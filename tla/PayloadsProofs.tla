--------------------------- MODULE PayloadsProofs ---------------------------
(***************************************************************************)
(* Proofs about Payloads, for every value of its constants.                *)
(***************************************************************************)
EXTENDS Payloads, FiniteSetTheorems, TLAPS

-----------------------------------------------------------------------------
(* What the sweeps and the rows know of each other.  Everything follows    *)
(* from four facts: a sweep's moment is not after the clock, so a row      *)
(* written since is not past it; what a sweep has marked stays as it was   *)
(* until it commits, because marks are kept apart; a period that was       *)
(* longer when it was read was shortened since, and one that was shorter   *)
(* was lengthened; and what was due when the periods were read is marked   *)
(* by the statement it falls under.                                        *)

\* A sweep that has read the periods.
Reader(s) == sweep[s].pc \in {"named", "unknown", "records", "done"}

\* The period r is under, and the one a sweep has read for it.
Under(r) == Period(usecase, row[r].named)
Read(s, r) == Period(sweep[s].promise, row[r].named)

\* The marks of a sweep are those its statements have made.
Shape(s) ==
    /\ sweep[s].now <= clock
    /\ sweep[s].pc \notin {"unknown", "records", "done"} => sweep[s].cleared = {}
    /\ sweep[s].pc # "done" => sweep[s].deleted = {}
    /\ ~Reader(s) => owed[s] = {}

\* A row a sweep has marked is still there; one it clears was past the period
\* the sweep read.
Marked(s) ==
    /\ \A r \in sweep[s].cleared :
          /\ row[r].pc = "stored" /\ row[r].content
          /\ sweep[s].now - row[r].created > Read(s, r)
    /\ \A r \in sweep[s].deleted : row[r].pc = "stored"

\* No row is marked by two sweeps.
Marks(s) == sweep[s].cleared \cup sweep[s].deleted
Apart == \A s, t \in Sweeps : s # t => Marks(s) \cap Marks(t) = {}

\* What was due when s read the periods, and is not cleared yet, is marked by
\* the statement it falls under.
Collects(s) ==
    \A r \in owed[s] :
        /\ row[r].pc \in {"stored", "deleted"}
        /\ row[r].content =>
              /\ row[r].pc = "stored"
              /\ sweep[s].now - row[r].created > Read(s, r)
              /\ sweep[s].pc \in {"unknown", "records", "done"} /\ ~Unclaimed(s, r)
                    => r \in sweep[s].cleared
              /\ sweep[s].pc \in {"records", "done"} /\ Unclaimed(s, r)
                    => r \in sweep[s].cleared

\* The period s read, against the shortest r was under and the one it is under.
Dated(s, r) ==
    Reader(s) /\ row[r].pc \in {"open", "stored"} =>
        \/ row[r].created >= sweep[s].now
        \/ /\ row[r].content => least[r] <= Read(s, r)
           /\ r \in relaxed \/ Under(r) <= Read(s, r)

SweepKnows ==
    /\ \A s \in Sweeps : Shape(s) /\ Marked(s) /\ Collects(s)
    /\ Apart
    /\ \A s \in Sweeps, r \in Rows : Dated(s, r)

\* What a row was, against what it is.
RowKnows(r) ==
    /\ row[r].pc \in {"none", "deleted"} => ~row[r].content
    /\ row[r].content => least[r] <= Under(r)
    /\ r \in swept => ~row[r].content /\ row[r].pc \in {"stored", "deleted"}
    /\ r \in had =>
          /\ row[r].pc \in {"stored", "deleted"}
          /\ row[r].pc = "stored" /\ ~row[r].content => r \in swept
    /\ r \in swept /\ row[r].pc = "stored" =>
          r \in relaxed \/ clock - row[r].created > Under(r)

Known == TypeOK /\ SweepKnows /\ \A r \in Rows : RowKnows(r)
-----------------------------------------------------------------------------
(* Types *)

RowType ==
    [pc: {"none", "open", "stored", "deleted"}, named: BOOLEAN, served: BOOLEAN,
     created: 0 .. MaxClock, content: BOOLEAN]
SweepType ==
    [pc: {"idle", "reading", "named", "unknown", "records", "done", "over"},
     now: 0 .. MaxClock, promise: Promises \cup {None},
     cleared: SUBSET Rows, deleted: SUBSET Rows]

\* What a row or a sweep starts as has its type.
LEMMA BlankTypes ==
    /\ NoRow \in RowType
    /\ [NoRow EXCEPT !.pc = "deleted"] \in RowType
    /\ NoSweep \in SweepType
    /\ [NoSweep EXCEPT !.pc = "over"] \in SweepType
<1>1. 0 \in 0 .. MaxClock
  BY PayloadsAssumption
<1> QED BY <1>1 DEF NoRow, NoSweep, RowType, SweepType

\* A period is a number of days.
LEMMA PeriodType ==
    ASSUME NEW u \in Promises \cup {None}, NEW named \in BOOLEAN
    PROVE  Period(u, named) \in Nat
  BY PayloadsAssumption DEF Period, DaysOf, Promises

\* Every change of the read-model leaves a promise or none.
LEMMA ChangeTypes ==
    ASSUME TypeOK, UpsertUseCase \/ RetireUseCase \/ PurgeUseCase
    PROVE  \E u \in Promises \cup {None} : Changed(u)
<1>1. CASE UpsertUseCase
  <2> PICK store \in BOOLEAN, days \in Days :
        Changed([store |-> store, days |-> days,
                 retired |-> usecase # None /\ usecase.retired])
    BY <1>1 DEF UpsertUseCase
  <2> DEFINE gone == usecase # None /\ usecase.retired
  <2>1. gone \in BOOLEAN
    BY Zenon
  <2> HIDE DEF gone
  <2>2. [store |-> store, days |-> days, retired |-> gone] \in Promises
    BY <2>1 DEF Promises
  <2>3. Changed([store |-> store, days |-> days, retired |-> gone])
    BY DEF gone
  <2> QED BY <2>2, <2>3
<1>2. CASE RetireUseCase
  <2>1. CASE usecase # None
    <3>1. [usecase EXCEPT !.retired = TRUE] \in Promises
      BY <2>1 DEF TypeOK, Promises
    <3> QED BY <1>2, <2>1, <3>1 DEF RetireUseCase
  <2>2. CASE usecase = None
    BY <1>2, <2>2 DEF RetireUseCase, Promises
  <2> QED BY <2>1, <2>2
<1>3. CASE PurgeUseCase
  BY <1>3 DEF PurgeUseCase
<1> QED BY <1>1, <1>2, <1>3

\* The writer keeps the types.
LEMMA WriteTypes ==
    ASSUME TypeOK, NEW r \in Rows, Open(r) \/ Commit(r)
    PROVE  TypeOK'
<1>1. CASE Open(r)
  <2> PICK named \in BOOLEAN, body \in BOOLEAN, served \in BOOLEAN :
        /\ row' = [row EXCEPT ![r] =
              [pc |-> "open", named |-> named, served |-> served, created |-> clock,
               content |-> body /\ MayStore(named)]]
        /\ least' = [least EXCEPT ![r] = Period(usecase, named)]
    BY <1>1 DEF Open
  <2>1. (body /\ MayStore(named)) \in BOOLEAN /\ (body /\ MayStore(named) => storing)
    BY DEF MayStore
  <2> DEFINE kept == body /\ MayStore(named)
  <2> HIDE DEF kept
  <2>2. row' = [row EXCEPT ![r] =
              [pc |-> "open", named |-> named, served |-> served, created |-> clock,
               content |-> kept]]
    BY DEF kept
  <2>3. kept \in BOOLEAN /\ (kept => storing)
    BY <2>1 DEF kept
  <2>4. Period(usecase, named) \in Nat
    BY PeriodType DEF TypeOK
  <2>5. /\ row' \in [Rows -> [pc: {"none", "open", "stored", "deleted"}, named: BOOLEAN,
                              served: BOOLEAN, created: 0 .. MaxClock, content: BOOLEAN]]
        /\ \A q \in Rows : row'[q].content => storing
    BY <2>2, <2>3 DEF TypeOK
  <2>6. least' \in [Rows -> Nat]
    BY <2>4 DEF TypeOK
  <2> QED BY <1>1, <2>5, <2>6 DEF TypeOK, Open, setting, sweeping, outcome
<1>2. CASE Commit(r)
  BY <1>2 DEF TypeOK, Commit, setting, sweeping, promised, outcome
<1> QED BY <1>1, <1>2

\* A sweep keeps the types.
LEMMA SweepTypes ==
    ASSUME TypeOK, NEW s \in Sweeps, Sweep(s)
    PROVE  TypeOK'
<1>0. sweep \in [Sweeps -> SweepType] /\ row \in [Rows -> RowType]
  BY DEF TypeOK, SweepType, RowType
<1>1. ASSUME NEW q \in SweepType, sweep' = [sweep EXCEPT ![s] = q]
      PROVE  sweep' \in [Sweeps -> SweepType]
  BY <1>0, <1>1
<1>2. ASSUME UNCHANGED <<clock, setting, usecase, row, runs, outcome, had, promised, changes,
                         crashes>>,
             sweep' \in [Sweeps -> SweepType], owed' \in [Sweeps -> SUBSET Rows]
      PROVE  TypeOK'
  BY <1>2 DEF TypeOK, SweepType, setting, promised, outcome
<1>3. sweep[s] \in SweepType /\ owed \in [Sweeps -> SUBSET Rows]
  BY <1>0 DEF TypeOK
<1>4. CASE Start(s)
  <2>1. [NoSweep EXCEPT !.pc = "reading", !.now = clock] \in SweepType
    BY BlankTypes DEF SweepType, TypeOK
  <2> QED BY <1>1, <1>2, <1>3, <1>4, <2>1 DEF Start
<1>5. CASE ReadPeriods(s)
  <2>1. [sweep[s] EXCEPT !.pc = "named", !.promise = PromiseOf(usecase)] \in SweepType
    BY <1>3 DEF SweepType, PromiseOf, TypeOK
  <2>2. sweep' = [sweep EXCEPT
            ![s] = [sweep[s] EXCEPT !.pc = "named", !.promise = PromiseOf(usecase)]]
    BY <1>0, <1>5 DEF ReadPeriods
  <2>3. Due(s) \in SUBSET Rows
    BY DEF Due, Held, Stored
  <2>4. owed' \in [Sweeps -> SUBSET Rows]
    BY <1>3, <1>5, <2>3 DEF ReadPeriods
  <2> QED BY <1>1, <1>2, <1>5, <2>1, <2>2, <2>4 DEF ReadPeriods
<1>6. ASSUME NEW S \in SUBSET Rows, NEW next \in {"unknown", "records"}, Clears(s, S, next)
      PROVE  TypeOK'
  <2>1. [sweep[s] EXCEPT !.pc = next, !.cleared = @ \cup S] \in SweepType
    BY <1>3 DEF SweepType
  <2>2. sweep' = [sweep EXCEPT ![s] = [sweep[s] EXCEPT !.pc = next, !.cleared = @ \cup S]]
    BY <1>6, Zenon DEF Clears
  <2> QED BY <1>1, <1>2, <1>3, <1>6, <2>1, <2>2 DEF Clears
<1>7. CASE ClearNamed(s) \/ ClearUnknown(s)
  BY <1>6, <1>7 DEF ClearNamed, ClearUnknown
<1>8. CASE DeleteRecords(s)
  <2> DEFINE D == {r \in Stored : recordDays # 0 /\ Past(r, sweep[s].now, recordDays)}
  <2>1. D \in SUBSET Rows
    BY DEF Stored
  <2>2. sweep' = [sweep EXCEPT ![s] = [sweep[s] EXCEPT !.pc = "done", !.deleted = D]]
    BY <1>0, <1>8 DEF DeleteRecords
  <2> HIDE DEF D
  <2>3. [sweep[s] EXCEPT !.pc = "done", !.deleted = D] \in SweepType
    BY <1>3, <2>1 DEF SweepType
  <2> QED BY <1>1, <1>2, <1>3, <1>8, <2>2, <2>3 DEF DeleteRecords
<1>9. CASE CommitSweep(s)
  <2> DEFINE C == sweep[s].cleared
             D == sweep[s].deleted
  <2>1. C \in SUBSET Rows /\ D \in SUBSET Rows
    BY <1>3 DEF SweepType
  <2>2. Cardinality(C) \in Nat /\ Cardinality(D) \in Nat
    BY <2>1, PayloadsAssumption, FS_Subset, FS_CardinalityType
  <2>3. runs' \in [cleared: Nat, deleted: Nat]
    BY <1>9, <2>2 DEF TypeOK, CommitSweep
  <2>4. ASSUME NEW q \in Rows
        PROVE  /\ row'[q] \in RowType
               /\ row'[q].content => storing
    <3> DEFINE kept == row[q].content /\ q \notin C
    <3>1. row'[q] = IF q \in D THEN [NoRow EXCEPT !.pc = "deleted"]
                    ELSE [row[q] EXCEPT !.content = kept]
      BY <1>9 DEF CommitSweep
    <3>2. kept \in BOOLEAN
      BY Zenon
    <3>3. kept => storing
      BY DEF TypeOK
    <3> HIDE DEF kept
    <3>4. [row[q] EXCEPT !.content = kept] \in RowType
      BY <1>0, <3>2 DEF RowType
    <3>5. [row[q] EXCEPT !.content = kept].content = kept
      BY <1>0 DEF RowType
    <3>6. ~[NoRow EXCEPT !.pc = "deleted"].content
      BY DEF NoRow
    <3> QED BY <3>1, <3>3, <3>4, <3>5, <3>6, BlankTypes
  <2>5. row' \in [Rows -> RowType]
    BY <1>9, <2>4 DEF CommitSweep
  <2>6. sweep' \in [Sweeps -> SweepType]
    BY <1>1, <1>9, BlankTypes DEF CommitSweep
  <2>7. owed' \in [Sweeps -> SUBSET Rows]
    BY <1>3, <1>9 DEF CommitSweep
  <2>8. /\ swept' = swept \cup C
        /\ early' \subseteq early \cup C
        /\ missed' \subseteq missed \cup owed[s]
    BY <1>9 DEF CommitSweep
  <2>9. /\ had' \cup relaxed' \cup swept' \cup missed' \subseteq Rows
        /\ early' \subseteq swept'
    BY <1>3, <1>9, <2>1, <2>8 DEF TypeOK, CommitSweep, promised
  <2>10. \A r \in Rows : row'[r].content => storing'
    BY <1>9, <2>4 DEF CommitSweep, setting
  <2> QED BY <1>9, <2>3, <2>5, <2>6, <2>7, <2>9, <2>10
           DEF TypeOK, CommitSweep, setting, promised, RowType, SweepType
<1>10. CASE Crash(s)
  <2>1. sweep' \in [Sweeps -> SweepType] /\ owed' \in [Sweeps -> SUBSET Rows]
    BY <1>1, <1>3, <1>10, BlankTypes DEF Crash
  <2>2. crashes' \in Nat
    BY <1>10 DEF TypeOK, Crash
  <2> QED BY <1>10, <2>1, <2>2 DEF TypeOK, Crash, SweepType, setting, promised, outcome
<1> QED BY <1>4, <1>5, <1>7, <1>8, <1>9, <1>10 DEF Sweep

\* So does a change of the read-model.
LEMMA PromiseTypes ==
    ASSUME TypeOK, NEW u \in Promises \cup {None}, Changed(u)
    PROVE  TypeOK'
<1>1. least' \in [Rows -> Nat]
  <2>1. \A r \in Rows : Period(u, row[r].named) \in Nat
    BY PeriodType DEF TypeOK
  <2> QED BY <2>1 DEF TypeOK, Changed
<1>2. usecase' \in Promises \cup {None} /\ changes' \in Nat
  BY DEF TypeOK, Changed
<1>3. relaxed' \subseteq Rows
  BY DEF TypeOK, Changed
<1> QED BY <1>1, <1>2, <1>3 DEF TypeOK, Changed, setting, sweeping, outcome

\* Every step keeps the types.
LEMMA TypeStep == TypeOK /\ [Next]_vars => TypeOK'
<1> SUFFICES ASSUME TypeOK, [Next]_vars PROVE TypeOK'
  OBVIOUS
<1>1. CASE Day
  BY <1>1, PayloadsAssumption DEF TypeOK, Day, setting, sweeping, promised, outcome
<1>2. CASE UNCHANGED vars
  BY <1>2 DEF TypeOK, vars, setting, sweeping, promised, outcome
<1>3. CASE UpsertUseCase \/ RetireUseCase \/ PurgeUseCase
  BY <1>3, ChangeTypes, PromiseTypes
<1> QED BY <1>1, <1>2, <1>3, WriteTypes, SweepTypes DEF Next

\* At the start they have their types.
LEMMA TypeAtFirst == Init => TypeOK
<1> SUFFICES ASSUME Init PROVE TypeOK
  OBVIOUS
<1>1. 0 \in 0 .. MaxClock
  BY PayloadsAssumption
<1>2. \A r \in Rows : ~row[r].content
  BY DEF Init, NoRow
<1> QED BY <1>1, <1>2, BlankTypes DEF Init, TypeOK, RowType, SweepType

\* Rows, sweeps and periods keep their types in every behaviour, and with
\* AIRA_STORE_PAYLOADS off no row of any use case ever holds content
\* (persistence/writer.py: the operator's switch).
THEOREM TypeCorrect == Spec => []TypeOK
BY TypeAtFirst, TypeStep, PTL DEF Spec
-----------------------------------------------------------------------------
(* Steps of one sweep *)

\* Periods, moments and dates are numbers.
LEMMA Figures ==
    ASSUME TypeOK
    PROVE  /\ \A r \in Rows : Under(r) \in Nat /\ row[r].created \in Nat /\ least[r] \in Nat
           /\ \A s \in Sweeps : sweep[s].now \in Nat
           /\ \A s \in Sweeps, r \in Rows : Read(s, r) \in Nat
           /\ clock \in Nat
<1>1. \A r \in Rows : row[r].named \in BOOLEAN /\ row[r].created \in Nat
  BY DEF TypeOK
<1>2. \A s \in Sweeps : sweep[s].promise \in Promises \cup {None} /\ sweep[s].now \in Nat
  BY DEF TypeOK
<1>3. usecase \in Promises \cup {None} /\ least \in [Rows -> Nat] /\ clock \in Nat
  BY DEF TypeOK
<1> QED BY <1>1, <1>2, <1>3, PeriodType DEF Under, Read

\* What a sweep has marked and owes are rows.
LEMMA MarksAreRows ==
    ASSUME TypeOK, NEW s \in Sweeps
    PROVE  sweep[s].cleared \subseteq Rows /\ sweep[s].deleted \subseteq Rows
           /\ owed[s] \subseteq Rows
BY DEF TypeOK

\* A step that is one sweep's own, and leaves the rows alone, is known to all
\* when that sweep knows it and keeps its marks apart.
LEMMA SweepAlone ==
    ASSUME Known, NEW s \in Sweeps,
           UNCHANGED <<clock, usecase, row, had, least, relaxed, swept>>,
           \A t \in Sweeps : t # s => sweep'[t] = sweep[t] /\ owed'[t] = owed[t],
           (Shape(s) /\ Marked(s) /\ Collects(s))',
           \A r \in Rows : Dated(s, r)',
           \A t \in Sweeps : t # s => Marks(s)' \cap Marks(t) = {}
    PROVE  SweepKnows' /\ \A r \in Rows : RowKnows(r)'
<1>1. \A r \in Rows : Under(r)' = Under(r)
  BY DEF Under, Period, DaysOf
<1>2. ASSUME NEW t \in Sweeps, t # s
      PROVE  /\ Marks(t)' = Marks(t)
             /\ \A r \in Rows : /\ Read(t, r)' = Read(t, r)
                                /\ Unclaimed(t, r)' <=> Unclaimed(t, r)
             /\ Reader(t)' <=> Reader(t)
  BY <1>2 DEF Marks, Read, Period, DaysOf, Unclaimed, Reader
<1>3. ASSUME NEW t \in Sweeps, t # s
      PROVE  Shape(t)' /\ Marked(t)' /\ Collects(t)'
  <2>0. sweep'[t] = sweep[t] /\ owed'[t] = owed[t]
    BY <1>3
  <2>1. Shape(t)'
    BY <1>2, <1>3, <2>0 DEF Known, SweepKnows, Shape
  <2>2. Marked(t)'
    BY <1>2, <1>3, <2>0, MarksAreRows DEF Known, SweepKnows, Marked
  <2>3. Collects(t)'
    BY <1>2, <1>3, <2>0, MarksAreRows DEF Known, SweepKnows, Collects
  <2> QED BY <2>1, <2>2, <2>3
<1>4. Apart'
  <2> SUFFICES ASSUME NEW t \in Sweeps, NEW u \in Sweeps, t # u
               PROVE  Marks(t)' \cap Marks(u)' = {}
    BY DEF Apart
  <2>1. CASE t = s
    BY <1>2, <2>1
  <2>2. CASE u = s
    BY <1>2, <2>2
  <2>3. CASE t # s /\ u # s
    BY <1>2, <2>3 DEF Known, SweepKnows, Apart
  <2> QED BY <2>1, <2>2, <2>3
<1>5. ASSUME NEW t \in Sweeps, t # s, NEW r \in Rows
      PROVE  Dated(t, r)'
  BY <1>1, <1>2, <1>5 DEF Known, SweepKnows, Dated
<1>6. \A r \in Rows : RowKnows(r)'
  BY <1>1 DEF Known, RowKnows
<1> QED BY <1>3, <1>4, <1>5, <1>6 DEF SweepKnows

\* A sweep that starts, and one that dies, has no marks and owes nothing.
LEMMA BlankKnows ==
    ASSUME Known, NEW s \in Sweeps, Start(s) \/ Crash(s)
    PROVE  SweepKnows' /\ \A r \in Rows : RowKnows(r)'
<1>1. /\ sweep'[s].now <= clock
      /\ sweep'[s].pc \in {"reading", "over"}
      /\ sweep'[s].cleared = {} /\ sweep'[s].deleted = {}
  <2>0. clock \in Nat /\ sweep \in [Sweeps -> SweepType]
    BY Figures DEF Known, TypeOK, SweepType
  <2>1. CASE Start(s)
    <3>1. sweep'[s] = [NoSweep EXCEPT !.pc = "reading", !.now = clock]
      BY <2>0, <2>1 DEF Start
    <3> QED BY <2>0, <3>1 DEF NoSweep
  <2>2. CASE Crash(s)
    <3>1. sweep'[s] = [NoSweep EXCEPT !.pc = "over"]
      BY <2>0, <2>2 DEF Crash
    <3> QED BY <2>0, <3>1 DEF NoSweep
  <2> QED BY <2>1, <2>2
<1>2. owed'[s] = {}
  <2>1. CASE Start(s)
    <3>1. ~Reader(s)
      BY <2>1 DEF Start, Reader
    <3> QED BY <2>1, <3>1 DEF Known, SweepKnows, Shape, Start
  <2>2. CASE Crash(s)
    BY <2>2 DEF Crash, Known, TypeOK
  <2> QED BY <2>1, <2>2
<1>3. UNCHANGED <<clock, usecase, row, had, least, relaxed, swept>>
  BY DEF Start, Crash, promised, outcome
<1>4. \A t \in Sweeps : t # s => sweep'[t] = sweep[t] /\ owed'[t] = owed[t]
  BY DEF Start, Crash, Known, TypeOK
<1>5. (Shape(s) /\ Marked(s) /\ Collects(s))'
  BY <1>1, <1>2, <1>3 DEF Shape, Marked, Collects, Reader
<1>6. \A r \in Rows : Dated(s, r)'
  BY <1>1 DEF Dated, Reader
<1>7. Marks(s)' = {}
  BY <1>1 DEF Marks
<1> QED BY <1>3, <1>4, <1>5, <1>6, <1>7, SweepAlone

\* A sweep that reads the periods owes what is due by them.
LEMMA ReadKnows ==
    ASSUME Known, NEW s \in Sweeps, ReadPeriods(s)
    PROVE  SweepKnows' /\ \A r \in Rows : RowKnows(r)'
<1>1. /\ sweep'[s].now = sweep[s].now
      /\ sweep'[s].pc = "named"
      /\ sweep'[s].promise = usecase
      /\ sweep'[s].cleared = {} /\ sweep'[s].deleted = {}
  <2>1. sweep[s].cleared = {} /\ sweep[s].deleted = {}
    BY DEF ReadPeriods, Known, SweepKnows, Shape
  <2> QED BY <2>1 DEF Known, TypeOK, ReadPeriods, PromiseOf
<1>2. owed'[s] = Due(s)
  BY DEF ReadPeriods, Known, TypeOK
<1>3. UNCHANGED <<clock, usecase, row, had, least, relaxed, swept>>
  BY DEF ReadPeriods, promised, outcome
<1>4. \A t \in Sweeps : t # s => sweep'[t] = sweep[t] /\ owed'[t] = owed[t]
  BY DEF ReadPeriods, Known, TypeOK
<1>5. \A r \in Rows : Read(s, r)' = Under(r) /\ Under(r)' = Under(r)
  BY <1>1, <1>3 DEF Read, Under, Period, DaysOf
<1>6. \A r \in owed'[s] : /\ r \in Rows /\ row[r].pc = "stored"
                          /\ sweep[s].now - row[r].created > Under(r)
  BY <1>2 DEF Due, Held, Stored, Past, Under
<1>7. (Shape(s) /\ Marked(s) /\ Collects(s))'
  <2>1. Shape(s)'
    BY <1>1, <1>3 DEF Known, SweepKnows, Shape, Reader
  <2>2. Marked(s)'
    BY <1>1 DEF Marked
  <2>3. Collects(s)'
    BY <1>1, <1>3, <1>5, <1>6 DEF Collects
  <2> QED BY <2>1, <2>2, <2>3
<1>8. ASSUME NEW r \in Rows PROVE Dated(s, r)'
  <2>1. row[r].content => least[r] <= Under(r)
    BY DEF Known, RowKnows
  <2> QED BY <1>3, <1>5, <2>1, Figures DEF Dated, Known
<1>9. Marks(s)' = {}
  BY <1>1 DEF Marks
<1> QED BY <1>3, <1>4, <1>7, <1>8, <1>9, SweepAlone

\* A statement that clears adds to the marks rows that hold content, are past
\* the period the sweep read, and nobody else has marked; it takes what is owed
\* of the rows it is for.
LEMMA ClearKnows ==
    ASSUME Known, NEW s \in Sweeps, NEW S \in SUBSET Rows, NEW next, Clears(s, S, next),
           \/ sweep[s].pc = "named" /\ next = "unknown"
           \/ sweep[s].pc = "unknown" /\ next = "records",
           \A r \in S : /\ row[r].pc = "stored" /\ row[r].content
                        /\ sweep[s].now - row[r].created > Read(s, r),
           \A r \in owed[s] :
              row[r].content /\ (Unclaimed(s, r) <=> next = "records") => r \in S
    PROVE  SweepKnows' /\ \A r \in Rows : RowKnows(r)'
<1>1. /\ sweep'[s].now = sweep[s].now
      /\ sweep'[s].pc = next
      /\ sweep'[s].promise = sweep[s].promise
      /\ sweep'[s].cleared = sweep[s].cleared \cup S
      /\ sweep'[s].deleted = sweep[s].deleted
  BY DEF Known, TypeOK, Clears
<1>2. owed'[s] = owed[s]
  BY DEF Clears
<1>3. UNCHANGED <<clock, usecase, row, had, least, relaxed, swept>>
  BY DEF Clears, promised, outcome
<1>4. \A t \in Sweeps : t # s => sweep'[t] = sweep[t] /\ owed'[t] = owed[t]
  BY DEF Clears, Known, TypeOK
<1>5. \A r \in Rows : /\ Read(s, r)' = Read(s, r)
                      /\ Under(r)' = Under(r)
                      /\ Unclaimed(s, r)' <=> Unclaimed(s, r)
  BY <1>1, <1>3 DEF Read, Under, Period, DaysOf, Unclaimed
<1>6. Reader(s) /\ Reader(s)' /\ sweep[s].deleted = {}
  BY <1>1 DEF Reader, Known, SweepKnows, Shape
<1>7. Shape(s)'
  BY <1>1, <1>3, <1>6 DEF Known, SweepKnows, Shape
<1>8. Marked(s)'
  <2>1. \A r \in sweep[s].cleared :
            /\ r \in Rows /\ row[r].pc = "stored" /\ row[r].content
            /\ sweep[s].now - row[r].created > Read(s, r)
    BY MarksAreRows DEF Known, SweepKnows, Marked
  <2> QED BY <1>1, <1>3, <1>5, <1>6, <2>1 DEF Marked
<1>9. Collects(s)'
  <2> SUFFICES ASSUME NEW r \in owed[s]
               PROVE  /\ row[r].pc \in {"stored", "deleted"}
                      /\ row[r].content =>
                            /\ row[r].pc = "stored"
                            /\ sweep[s].now - row[r].created > Read(s, r)
                            /\ ~Unclaimed(s, r) => r \in sweep'[s].cleared
                            /\ next = "records" /\ Unclaimed(s, r) => r \in sweep'[s].cleared
    <3>1. \A r \in owed[s] : r \in Rows
      BY MarksAreRows DEF Known
    <3> QED BY <1>1, <1>2, <1>3, <1>5, <3>1 DEF Collects
  <2>1. /\ row[r].pc \in {"stored", "deleted"}
        /\ row[r].content => /\ row[r].pc = "stored"
                             /\ sweep[s].now - row[r].created > Read(s, r)
                             /\ sweep[s].pc = "unknown" /\ ~Unclaimed(s, r)
                                   => r \in sweep[s].cleared
    BY DEF Known, SweepKnows, Collects
  <2> QED BY <1>1, <2>1
<1>10. \A r \in Rows : Dated(s, r)'
  BY <1>1, <1>3, <1>5, <1>6 DEF Known, SweepKnows, Dated
<1>11. ASSUME NEW t \in Sweeps, t # s PROVE Marks(s)' \cap Marks(t) = {}
  <2>1. S \cap Marks(t) = {}
    BY <1>11 DEF Clears, Locked, Marks
  <2>2. Marks(s) \cap Marks(t) = {}
    BY <1>11 DEF Known, SweepKnows, Apart
  <2>3. Marks(s)' = Marks(s) \cup S
    BY <1>1 DEF Marks
  <2> QED BY <2>1, <2>2, <2>3
<1> QED BY <1>3, <1>4, <1>7, <1>8, <1>9, <1>10, <1>11, SweepAlone

\* So do both of them.
LEMMA ClearsKnow ==
    ASSUME Known, NEW s \in Sweeps, ClearNamed(s) \/ ClearUnknown(s)
    PROVE  SweepKnows' /\ \A r \in Rows : RowKnows(r)'
<1>0. \A r \in owed[s] : /\ r \in Rows
                         /\ row[r].content =>
                               /\ row[r].pc = "stored"
                               /\ sweep[s].now - row[r].created > Read(s, r)
  BY MarksAreRows DEF Known, SweepKnows, Collects
<1>1. CASE ClearNamed(s)
  <2> DEFINE S == {r \in Rows : /\ sweep[s].promise # None /\ row[r].named /\ Clearable(r)
                                /\ Past(r, sweep[s].now, DaysOf(sweep[s].promise))}
  <2>1. sweep[s].pc = "named" /\ Clears(s, S, "unknown")
    BY <1>1 DEF ClearNamed
  <2>2. \A r \in S : /\ row[r].pc = "stored" /\ row[r].content
                     /\ sweep[s].now - row[r].created > Read(s, r)
    BY DEF Clearable, Held, Stored, Past, Read, Period
  <2>3. \A r \in owed[s] : row[r].content /\ ~Unclaimed(s, r) => r \in S
    BY <1>0 DEF Clearable, Held, Stored, Past, Read, Period, Unclaimed
  <2> HIDE DEF S
  <2>4. S \in SUBSET Rows
    BY DEF S
  <2> QED BY <2>1, <2>2, <2>3, <2>4, ClearKnows
<1>2. CASE ClearUnknown(s)
  <2> DEFINE S == {r \in Rows : /\ Unclaimed(s, r) /\ Clearable(r)
                                /\ Past(r, sweep[s].now, Default)}
  <2>1. sweep[s].pc = "unknown" /\ Clears(s, S, "records")
    BY <1>2 DEF ClearUnknown
  <2>2. \A r \in S : /\ row[r].pc = "stored" /\ row[r].content
                     /\ sweep[s].now - row[r].created > Read(s, r)
    BY DEF Clearable, Held, Stored, Past, Read, Period, Unclaimed
  <2>3. \A r \in owed[s] : row[r].content /\ Unclaimed(s, r) => r \in S
    BY <1>0 DEF Clearable, Held, Stored, Past, Read, Period, Unclaimed
  <2> HIDE DEF S
  <2>4. S \in SUBSET Rows
    BY DEF S
  <2> QED BY <2>1, <2>2, <2>3, <2>4, ClearKnows
<1> QED BY <1>1, <1>2

\* A statement that deletes marks rows nobody else has marked.
LEMMA DeleteKnows ==
    ASSUME Known, NEW s \in Sweeps, DeleteRecords(s)
    PROVE  SweepKnows' /\ \A r \in Rows : RowKnows(r)'
<1> DEFINE D == {r \in Stored : recordDays # 0 /\ Past(r, sweep[s].now, recordDays)}
<1>0. /\ D \cap Locked(s) = {} /\ sweep[s].pc = "records"
      /\ \A r \in D : r \in Rows /\ row[r].pc = "stored"
      /\ sweep' = [sweep EXCEPT ![s] = [@ EXCEPT !.pc = "done", !.deleted = D]]
  BY DEF DeleteRecords, Stored
<1> HIDE DEF D
<1>1. /\ sweep'[s].now = sweep[s].now
      /\ sweep'[s].pc = "done"
      /\ sweep'[s].promise = sweep[s].promise
      /\ sweep'[s].cleared = sweep[s].cleared
      /\ sweep'[s].deleted = D
  BY <1>0 DEF Known, TypeOK
<1>2. owed'[s] = owed[s]
  BY DEF DeleteRecords
<1>3. UNCHANGED <<clock, usecase, row, had, least, relaxed, swept>>
  BY DEF DeleteRecords, promised, outcome
<1>4. \A t \in Sweeps : t # s => sweep'[t] = sweep[t] /\ owed'[t] = owed[t]
  BY DEF DeleteRecords, Known, TypeOK
<1>5. \A r \in Rows : /\ Read(s, r)' = Read(s, r)
                      /\ Under(r)' = Under(r)
                      /\ Unclaimed(s, r)' <=> Unclaimed(s, r)
  BY <1>1, <1>3 DEF Read, Under, Period, DaysOf, Unclaimed
<1>6. Reader(s) /\ Reader(s)'
  BY <1>0, <1>1 DEF Reader
<1>7. Shape(s)'
  BY <1>1, <1>3, <1>6 DEF Known, SweepKnows, Shape
<1>8. Marked(s)'
  BY <1>0, <1>1, <1>3, <1>5, MarksAreRows DEF Known, SweepKnows, Marked
<1>9. Collects(s)'
  BY <1>0, <1>1, <1>2, <1>3, <1>5, MarksAreRows DEF Known, SweepKnows, Collects
<1>10. \A r \in Rows : Dated(s, r)'
  BY <1>1, <1>3, <1>5, <1>6 DEF Known, SweepKnows, Dated
<1>11. ASSUME NEW t \in Sweeps, t # s PROVE Marks(s)' \cap Marks(t) = {}
  <2>1. D \cap Marks(t) = {}
    BY <1>0, <1>11 DEF Locked, Marks
  <2>2. sweep[s].cleared \cap Marks(t) = {}
    BY <1>11 DEF Known, SweepKnows, Apart, Marks
  <2>3. Marks(s)' = sweep[s].cleared \cup D
    BY <1>1 DEF Marks
  <2> QED BY <2>1, <2>2, <2>3
<1> QED BY <1>3, <1>4, <1>7, <1>8, <1>9, <1>10, <1>11, SweepAlone

-----------------------------------------------------------------------------
(* Steps that change rows, and steps that change periods *)

\* A row is written when nobody has marked it, is owed it or has seen it.
LEMMA OpenKnows ==
    ASSUME Known, NEW r \in Rows, Open(r)
    PROVE  SweepKnows' /\ \A q \in Rows : RowKnows(q)'
<1> PICK named \in BOOLEAN, body \in BOOLEAN, served \in BOOLEAN :
      /\ row' = [row EXCEPT ![r] =
            [pc |-> "open", named |-> named, served |-> served, created |-> clock,
             content |-> body /\ MayStore(named)]]
      /\ least' = [least EXCEPT ![r] = Period(usecase, named)]
  BY DEF Open
<1>1. UNCHANGED <<clock, usecase, sweep, owed, had, relaxed, swept>>
  BY DEF Open, sweeping, outcome
<1>2. /\ row[r].pc = "none"
      /\ row'[r].pc = "open" /\ row'[r].named = named /\ row'[r].created = clock
      /\ least'[r] = Period(usecase, named)
  BY DEF Open, Known, TypeOK
<1>3. \A q \in Rows : q # r => row'[q] = row[q] /\ least'[q] = least[q]
  BY DEF Known, TypeOK
<1>4. ASSUME NEW q \in Rows, q # r
      PROVE  /\ Under(q)' = Under(q)
             /\ \A s \in Sweeps : Read(s, q)' = Read(s, q) /\ (Unclaimed(s, q)' <=> Unclaimed(s, q))
  BY <1>1, <1>3, <1>4 DEF Under, Read, Period, DaysOf, Unclaimed
<1>5. Under(r)' = least'[r] /\ least'[r] \in Nat
  <2>1. Period(usecase, named) \in Nat
    BY PeriodType DEF Known, TypeOK
  <2>2. Under(r)' = Period(usecase, named)
    BY <1>1, <1>2 DEF Under, Period, DaysOf
  <2> QED BY <1>2, <2>1, <2>2
<1>6. ASSUME NEW s \in Sweeps
      PROVE  r \notin sweep[s].cleared /\ r \notin sweep[s].deleted /\ r \notin owed[s]
  BY <1>2 DEF Known, SweepKnows, Marked, Collects
<1>7. ASSUME NEW s \in Sweeps
      PROVE  Shape(s)' /\ Marked(s)' /\ Collects(s)'
  <2>1. Shape(s)'
    BY <1>1 DEF Known, SweepKnows, Shape, Reader
  <2>2. Marked(s)'
    BY <1>1, <1>3, <1>4, <1>6, MarksAreRows DEF Known, SweepKnows, Marked
  <2>3. Collects(s)'
    BY <1>1, <1>3, <1>4, <1>6, MarksAreRows DEF Known, SweepKnows, Collects
  <2> QED BY <2>1, <2>2, <2>3
<1>8. Apart'
  BY <1>1 DEF Known, SweepKnows, Apart, Marks
<1>9. ASSUME NEW s \in Sweeps, NEW q \in Rows
      PROVE  Dated(s, q)'
  <2>1. CASE q = r
    BY <1>1, <1>2, <2>1, Figures DEF Known, SweepKnows, Shape, Dated
  <2>2. CASE q # r
    BY <1>1, <1>3, <1>4, <2>2 DEF Known, SweepKnows, Dated, Reader
  <2> QED BY <2>1, <2>2
<1>10. ASSUME NEW q \in Rows
       PROVE  RowKnows(q)'
  <2>1. CASE q = r
    <3>1. r \notin swept /\ r \notin had
      BY <1>2 DEF Known, RowKnows
    <3> QED BY <1>1, <1>2, <1>5, <2>1, <3>1 DEF RowKnows
  <2>2. CASE q # r
    BY <1>1, <1>3, <1>4, <2>2 DEF Known, RowKnows
  <2> QED BY <2>1, <2>2
<1> QED BY <1>7, <1>8, <1>9, <1>10 DEF SweepKnows

\* A row that commits is one nobody has marked or is owed.
LEMMA CommitKnows ==
    ASSUME Known, NEW r \in Rows, Commit(r)
    PROVE  SweepKnows' /\ \A q \in Rows : RowKnows(q)'
<1>1. UNCHANGED <<clock, usecase, sweep, owed, least, relaxed, swept>>
  BY DEF Commit, sweeping, outcome, promised
<1>2. /\ row[r].pc = "open"
      /\ row'[r].pc = "stored"
      /\ \A q \in Rows : /\ q # r => row'[q] = row[q]
                         /\ row'[q].created = row[q].created /\ row'[q].named = row[q].named
                         /\ row'[q].content = row[q].content
  BY DEF Commit, Known, TypeOK
<1>3. \A q \in Rows : /\ q # r => (q \in had' <=> q \in had)
                      /\ r \in had' => row[r].content \/ r \in had
  BY DEF Commit
<1>4. ASSUME NEW q \in Rows
      PROVE  /\ Under(q)' = Under(q)
             /\ \A s \in Sweeps : Read(s, q)' = Read(s, q) /\ (Unclaimed(s, q)' <=> Unclaimed(s, q))
  BY <1>1, <1>2 DEF Under, Read, Period, DaysOf, Unclaimed
<1>6. ASSUME NEW s \in Sweeps
      PROVE  r \notin sweep[s].cleared /\ r \notin sweep[s].deleted /\ r \notin owed[s]
  BY <1>2 DEF Known, SweepKnows, Marked, Collects
<1>7. ASSUME NEW s \in Sweeps
      PROVE  Shape(s)' /\ Marked(s)' /\ Collects(s)'
  <2>1. Shape(s)'
    BY <1>1 DEF Known, SweepKnows, Shape, Reader
  <2>2. Marked(s)'
    BY <1>1, <1>2, <1>4, <1>6, MarksAreRows DEF Known, SweepKnows, Marked
  <2>3. Collects(s)'
    BY <1>1, <1>2, <1>4, <1>6, MarksAreRows DEF Known, SweepKnows, Collects
  <2> QED BY <2>1, <2>2, <2>3
<1>8. Apart'
  BY <1>1 DEF Known, SweepKnows, Apart, Marks
<1>9. ASSUME NEW s \in Sweeps, NEW q \in Rows
      PROVE  Dated(s, q)'
  BY <1>1, <1>2, <1>4 DEF Known, SweepKnows, Dated, Reader
<1>10. ASSUME NEW q \in Rows
       PROVE  RowKnows(q)'
  <2>1. CASE q = r
    <3>1. r \notin swept /\ r \notin had
      BY <1>2 DEF Known, RowKnows
    <3>2. r \in had' => row[r].content
      BY <1>3, <3>1
    <3>3. row[r].content => least[r] <= Under(r)
      BY DEF Known, RowKnows
    <3> QED BY <1>1, <1>2, <1>4, <2>1, <3>1, <3>2, <3>3 DEF RowKnows
  <2>2. CASE q # r
    BY <1>1, <1>2, <1>3, <1>4, <2>2 DEF Known, RowKnows
  <2> QED BY <2>1, <2>2
<1> QED BY <1>7, <1>8, <1>9, <1>10 DEF SweepKnows

\* A sweep commits: the rows it has marked change, and no other sweep has
\* marked those.  What it clears was past its period, and what it owes is gone.
LEMMA SweepCommits ==
    ASSUME Known, NEW s \in Sweeps, CommitSweep(s)
    PROVE  /\ SweepKnows' /\ \A q \in Rows : RowKnows(q)'
           /\ \A r \in sweep[s].cleared : sweep[s].now - row[r].created > least[r]
           /\ \A r \in owed[s] : ~row'[r].content
<1> DEFINE C == sweep[s].cleared
           D == sweep[s].deleted
<1>1. UNCHANGED <<clock, usecase, had, least, relaxed>> /\ swept' = swept \cup C
  BY DEF CommitSweep, promised
<1>2. ASSUME NEW q \in Rows
      PROVE  /\ q \in D => row'[q].pc = "deleted" /\ ~row'[q].content
             /\ q \notin D => /\ row'[q].pc = row[q].pc /\ row'[q].created = row[q].created
                              /\ row'[q].named = row[q].named
                              /\ row'[q].content <=> row[q].content /\ q \notin C
  <2>1. row'[q] = IF q \in D THEN [NoRow EXCEPT !.pc = "deleted"]
                  ELSE [row[q] EXCEPT !.content = row[q].content /\ q \notin C]
    BY DEF CommitSweep
  <2>2. row[q] \in RowType
    BY DEF Known, TypeOK, RowType
  <2> DEFINE kept == row[q].content /\ q \notin C
  <2> HIDE DEF kept
  <2>3. row'[q] = IF q \in D THEN [NoRow EXCEPT !.pc = "deleted"]
                  ELSE [row[q] EXCEPT !.content = kept]
    BY <2>1 DEF kept
  <2>4. /\ q \in D => row'[q].pc = "deleted" /\ ~row'[q].content
        /\ q \notin D => /\ row'[q].pc = row[q].pc /\ row'[q].created = row[q].created
                         /\ row'[q].named = row[q].named
                         /\ row'[q].content = kept
    BY <2>2, <2>3 DEF NoRow, RowType
  <2> QED BY <2>4 DEF kept
<1>3. /\ sweep'[s].pc = "over" /\ sweep'[s].now = 0
      /\ sweep'[s].cleared = {} /\ sweep'[s].deleted = {}
      /\ owed'[s] = {}
      /\ \A t \in Sweeps : t # s => sweep'[t] = sweep[t] /\ owed'[t] = owed[t]
      /\ sweep[s].pc = "done"
  <2>1. /\ sweep' = [sweep EXCEPT ![s] = [NoSweep EXCEPT !.pc = "over"]]
        /\ owed' = [owed EXCEPT ![s] = {}]
        /\ sweep[s].pc = "done"
    BY DEF CommitSweep
  <2>2. sweep \in [Sweeps -> SweepType] /\ owed \in [Sweeps -> SUBSET Rows]
    BY DEF Known, TypeOK, SweepType
  <2> QED BY <2>1, <2>2 DEF NoSweep
<1>4. \A r \in C : /\ r \in Rows /\ row[r].pc = "stored" /\ row[r].content
                   /\ sweep[s].now - row[r].created > Read(s, r)
  BY MarksAreRows DEF Known, SweepKnows, Marked
<1>5. \A r \in D : r \in Rows /\ row[r].pc = "stored"
  BY MarksAreRows DEF Known, SweepKnows, Marked
<1>6. \A r \in C : sweep[s].now - row[r].created > least[r]
                   /\ (r \in relaxed \/ clock - row[r].created > Under(r))
  <2> SUFFICES ASSUME NEW r \in C
               PROVE  /\ sweep[s].now - row[r].created > least[r]
                      /\ r \in relaxed \/ clock - row[r].created > Under(r)
    OBVIOUS
  <2>1. Dated(s, r) /\ Reader(s) /\ sweep[s].now <= clock
    BY <1>3, <1>4 DEF Known, SweepKnows, Reader, Shape
  <2>2. /\ row[r].created \in Nat /\ Read(s, r) \in Nat /\ Under(r) \in Nat /\ least[r] \in Nat
        /\ sweep[s].now \in Nat /\ clock \in Nat
    BY <1>4, Figures DEF Known
  <2> QED BY <1>4, <2>1, <2>2 DEF Dated
<1>7. \A r \in owed[s] : ~row'[r].content
  <2> SUFFICES ASSUME NEW r \in owed[s], row'[r].content
               PROVE  FALSE
    OBVIOUS
  <2>1. r \in Rows
    BY MarksAreRows DEF Known
  <2>2. row[r].content /\ r \notin C
    BY <1>2, <2>1
  <2> QED BY <1>3, <2>2 DEF Known, SweepKnows, Collects
<1> HIDE DEF C, D
<1>8. ASSUME NEW t \in Sweeps, t # s
      PROVE  \A r \in Marks(t) : r \in Rows /\ r \notin C /\ r \notin D
  BY <1>8, MarksAreRows DEF Known, SweepKnows, Apart, Marks, C, D
<1>9. ASSUME NEW t \in Sweeps, t # s
      PROVE  \A r \in Rows : /\ Unclaimed(t, r)' <=> ~row'[r].named \/ sweep[t].promise = None
                             /\ r \notin D => /\ Read(t, r)' = Read(t, r)
                                              /\ Unclaimed(t, r)' <=> Unclaimed(t, r)
  BY <1>2, <1>3, <1>9 DEF Read, Period, DaysOf, Unclaimed
<1>10. \A r \in Rows : r \notin D => Under(r)' = Under(r)
  BY <1>1, <1>2 DEF Under, Period, DaysOf
<1>11. ASSUME NEW t \in Sweeps
       PROVE  Shape(t)' /\ Marked(t)' /\ Collects(t)'
  <2>1. CASE t = s
    BY <1>1, <1>3, <2>1, Figures DEF Known, Shape, Marked, Collects, Reader
  <2>2. CASE t # s
    <3>0. sweep'[t] = sweep[t] /\ owed'[t] = owed[t]
      BY <1>3, <2>2
    <3>1. Shape(t)'
      BY <1>1, <3>0 DEF Known, SweepKnows, Shape, Reader
    <3>2. Marked(t)'
      BY <1>2, <1>8, <1>9, <2>2, <3>0 DEF Known, SweepKnows, Marked, Marks
    <3>3. Collects(t)'
      <4>1. \A r \in owed[t] : r \in Rows
        BY MarksAreRows DEF Known
      <4> QED BY <1>2, <1>9, <2>2, <3>0, <4>1 DEF Known, SweepKnows, Collects
    <3> QED BY <3>1, <3>2, <3>3
  <2> QED BY <2>1, <2>2
<1>12. Apart'
  BY <1>3 DEF Known, SweepKnows, Apart, Marks
<1>13. ASSUME NEW t \in Sweeps, NEW q \in Rows
       PROVE  Dated(t, q)'
  <2>1. CASE t = s
    BY <1>3, <2>1 DEF Dated, Reader
  <2>2. CASE t # s
    BY <1>1, <1>2, <1>3, <1>9, <1>10, <2>2 DEF Known, SweepKnows, Dated, Reader
  <2> QED BY <2>1, <2>2
<1>14. ASSUME NEW q \in Rows
       PROVE  RowKnows(q)'
  <2>1. CASE q \in D
    <3>1. q \notin had \/ row[q].pc \in {"stored", "deleted"}
      BY DEF Known, RowKnows
    <3> QED BY <1>1, <1>2, <2>1, <3>1 DEF RowKnows
  <2>2. CASE q \notin D
    BY <1>1, <1>2, <1>4, <1>6, <1>10, <2>2 DEF Known, RowKnows, C
  <2> QED BY <2>1, <2>2
<1> QED BY <1>6, <1>7, <1>11, <1>12, <1>13, <1>14 DEF SweepKnows, C

\* A change of the read-model: a period that grows marks its rows as relaxed,
\* one that shrinks is taken into the least.
LEMMA ChangeKnows ==
    ASSUME Known, NEW u \in Promises \cup {None}, Changed(u)
    PROVE  SweepKnows' /\ \A q \in Rows : RowKnows(q)'
<1>1. UNCHANGED <<clock, row, sweep, owed, had, swept>> /\ usecase' = u
  BY DEF Changed, sweeping, outcome
<1>2. ASSUME NEW q \in Rows
      PROVE  /\ Under(q)' \in Nat
             /\ least'[q] = (IF row[q].content /\ Under(q)' < least[q] THEN Under(q)'
                             ELSE least[q])
             /\ q \in relaxed' <=> \/ q \in relaxed
                                   \/ row[q].pc \in {"open", "stored"} /\ Under(q)' > Under(q)
  <2>1. Under(q)' = Period(u, row[q].named)
    BY <1>1 DEF Under, Period, DaysOf
  <2>2. Period(u, row[q].named) \in Nat
    BY PeriodType DEF Known, TypeOK
  <2>3. /\ least'[q] = (IF row[q].content /\ Period(u, row[q].named) < least[q]
                        THEN Period(u, row[q].named) ELSE least[q])
        /\ q \in relaxed' <=> \/ q \in relaxed
                              \/ /\ row[q].pc \in {"open", "stored"}
                                 /\ Period(u, row[q].named) > Under(q)
    BY DEF Changed, Under
  <2> QED BY <2>1, <2>2, <2>3
<1>3. \A s \in Sweeps, q \in Rows : /\ Read(s, q)' = Read(s, q)
                                    /\ Unclaimed(s, q)' <=> Unclaimed(s, q)
  BY <1>1 DEF Read, Period, DaysOf, Unclaimed
<1>4. ASSUME NEW s \in Sweeps
      PROVE  Shape(s)' /\ Marked(s)' /\ Collects(s)'
  <2>1. Shape(s)'
    BY <1>1 DEF Known, SweepKnows, Shape, Reader
  <2>2. Marked(s)'
    BY <1>1, <1>3, MarksAreRows DEF Known, SweepKnows, Marked
  <2>3. Collects(s)'
    BY <1>1, <1>3, MarksAreRows DEF Known, SweepKnows, Collects
  <2> QED BY <2>1, <2>2, <2>3
<1>5. Apart'
  BY <1>1 DEF Known, SweepKnows, Apart, Marks
<1>6. ASSUME NEW s \in Sweeps, NEW q \in Rows
      PROVE  Dated(s, q)'
  <2>1. Dated(s, q)
    BY DEF Known, SweepKnows
  <2>2. /\ least[q] \in Nat /\ Under(q) \in Nat /\ Read(s, q) \in Nat
    BY Figures DEF Known
  <2> QED BY <1>1, <1>2, <1>3, <2>1, <2>2 DEF Dated, Reader
<1>7. ASSUME NEW q \in Rows
      PROVE  RowKnows(q)'
  <2>1. RowKnows(q)
    BY DEF Known
  <2>2. /\ least[q] \in Nat /\ Under(q) \in Nat /\ row[q].created \in Nat /\ clock \in Nat
    BY Figures DEF Known
  <2>3. row[q].content => least'[q] <= Under(q)'
    BY <1>2, <2>1, <2>2 DEF RowKnows
  <2>4. q \in swept /\ row[q].pc = "stored" =>
            q \in relaxed' \/ clock - row[q].created > Under(q)'
    BY <1>2, <2>1, <2>2 DEF RowKnows
  <2> QED BY <1>1, <2>1, <2>3, <2>4 DEF RowKnows
<1> QED BY <1>4, <1>5, <1>6, <1>7 DEF SweepKnows

\* A day goes by: what was past a period stays past it.
LEMMA DayKnows ==
    ASSUME Known, Day
    PROVE  SweepKnows' /\ \A q \in Rows : RowKnows(q)'
<1>1. UNCHANGED <<usecase, row, sweep, owed, had, least, relaxed, swept>>
  BY DEF Day, sweeping, outcome, promised
<1>2. clock' = clock + 1 /\ clock \in Nat
  BY Figures DEF Day, Known
<1>3. /\ \A q \in Rows : Under(q)' = Under(q)
      /\ \A s \in Sweeps, q \in Rows : /\ Read(s, q)' = Read(s, q)
                                       /\ Unclaimed(s, q)' <=> Unclaimed(s, q)
  BY <1>1 DEF Under, Read, Period, DaysOf, Unclaimed
<1>4. ASSUME NEW s \in Sweeps
      PROVE  Shape(s)' /\ Marked(s)' /\ Collects(s)'
  <2>1. Shape(s)'
    BY <1>1, <1>2, Figures DEF Known, SweepKnows, Shape, Reader
  <2>2. Marked(s)'
    BY <1>1, <1>3, MarksAreRows DEF Known, SweepKnows, Marked
  <2>3. Collects(s)'
    BY <1>1, <1>3, MarksAreRows DEF Known, SweepKnows, Collects
  <2> QED BY <2>1, <2>2, <2>3
<1>5. Apart'
  BY <1>1 DEF Known, SweepKnows, Apart, Marks
<1>6. ASSUME NEW s \in Sweeps, NEW q \in Rows
      PROVE  Dated(s, q)'
  BY <1>1, <1>3 DEF Known, SweepKnows, Dated, Reader
<1>7. ASSUME NEW q \in Rows
      PROVE  RowKnows(q)'
  <2>1. RowKnows(q)
    BY DEF Known
  <2>2. Under(q) \in Nat /\ row[q].created \in Nat
    BY Figures DEF Known
  <2> QED BY <1>1, <1>2, <1>3, <2>1, <2>2 DEF RowKnows
<1> QED BY <1>4, <1>5, <1>6, <1>7 DEF SweepKnows

-----------------------------------------------------------------------------
(* The theorems *)

\* Every step keeps what is known.
LEMMA KnownStep == Known /\ [Next]_vars => Known'
<1> SUFFICES ASSUME Known, [Next]_vars PROVE Known'
  OBVIOUS
<1>1. TypeOK'
  BY TypeStep DEF Known
<1>2. SweepKnows' /\ \A q \in Rows : RowKnows(q)'
  <2>1. CASE UNCHANGED vars
    <3>1. UNCHANGED <<clock, usecase, row, sweep, owed, had, least, relaxed, swept>>
      BY <2>1 DEF vars, setting, sweeping, promised, outcome
    <3>2. SweepKnows'
      BY <3>1 DEF Known, SweepKnows, Shape, Marked, Collects, Apart, Marks, Dated, Reader,
                  Under, Read, Period, DaysOf, Unclaimed
    <3>3. \A q \in Rows : RowKnows(q)'
      BY <3>1 DEF Known, RowKnows, Under, Period, DaysOf
    <3> QED BY <3>2, <3>3
  <2>2. CASE \E r \in Rows : Open(r) \/ Commit(r)
    BY <2>2, OpenKnows, CommitKnows
  <2>3. ASSUME NEW s \in Sweeps, Sweep(s)
        PROVE  SweepKnows' /\ \A q \in Rows : RowKnows(q)'
    BY <2>3, BlankKnows, ReadKnows, ClearsKnow, DeleteKnows, SweepCommits DEF Sweep
  <2>4. CASE UpsertUseCase \/ RetireUseCase \/ PurgeUseCase
    BY <2>4, ChangeTypes, ChangeKnows DEF Known
  <2>5. CASE Day
    BY <2>5, DayKnows
  <2> QED BY <2>1, <2>2, <2>3, <2>4, <2>5 DEF Next
<1> QED BY <1>1, <1>2 DEF Known

\* At the start nothing is written and nothing swept.
LEMMA KnownAtFirst == Init => Known
<1> SUFFICES ASSUME Init PROVE Known
  OBVIOUS
<1>1. TypeOK
  BY TypeAtFirst
<1>2. \A s \in Sweeps : /\ sweep[s].pc = "idle" /\ sweep[s].now = 0
                        /\ sweep[s].cleared = {} /\ sweep[s].deleted = {}
                        /\ owed[s] = {}
  BY DEF Init, NoSweep
<1>3. \A r \in Rows : row[r].pc = "none" /\ ~row[r].content
  BY DEF Init, NoRow
<1>4. clock = 0 /\ had = {} /\ swept = {}
  BY DEF Init
<1>5. SweepKnows
  BY <1>2, <1>4 DEF SweepKnows, Shape, Marked, Collects, Apart, Marks, Dated, Reader
<1>6. \A r \in Rows : RowKnows(r)
  BY <1>3, <1>4 DEF RowKnows
<1> QED BY <1>1, <1>5, <1>6 DEF Known

\* So all of it is known in every behaviour.
LEMMA KnownHolds == Spec => []Known
BY KnownAtFirst, KnownStep, PTL DEF Spec

\* Whichever sweeps, writes and changes of the read-model overlap, what is
\* cleared was past the shortest period its row was under, and what was due
\* when a sweep read the promise is gone once it has committed (retention.py,
\* _periods and prune).
THEOREM SweepsKeepPromises == Spec => []SweptAsPromised
<1>1. Init => SweptAsPromised
  BY DEF Init, SweptAsPromised
<1>2. Known /\ SweptAsPromised /\ [Next]_vars => SweptAsPromised'
  <2> SUFFICES ASSUME Known, SweptAsPromised, [Next]_vars PROVE SweptAsPromised'
    OBVIOUS
  <2>1. ASSUME NEW s \in Sweeps, CommitSweep(s)
        PROVE  SweptAsPromised'
    <3>1. /\ \A r \in sweep[s].cleared : sweep[s].now - row[r].created > least[r]
          /\ \A r \in owed[s] : ~row'[r].content
      BY <2>1, SweepCommits
    <3> QED BY <2>1, <3>1 DEF CommitSweep, SweptAsPromised, Past
  <2>2. ASSUME NEW s \in Sweeps, Sweep(s), ~CommitSweep(s)
        PROVE  UNCHANGED <<early, missed>>
    BY <2>2 DEF Sweep, Start, ReadPeriods, ClearNamed, ClearUnknown, Clears, DeleteRecords,
                Crash, outcome
  <2>3. CASE \E r \in Rows : Open(r) \/ Commit(r)
    BY <2>3 DEF Open, Commit, sweeping, outcome, SweptAsPromised
  <2>4. CASE UpsertUseCase \/ RetireUseCase \/ PurgeUseCase
    BY <2>4, ChangeTypes DEF Known, Changed, sweeping, outcome, SweptAsPromised
  <2>5. CASE Day \/ UNCHANGED vars
    BY <2>5 DEF Day, vars, sweeping, outcome, SweptAsPromised
  <2> QED BY <2>1, <2>2, <2>3, <2>4, <2>5 DEF Next, SweptAsPromised
<1> QED BY <1>1, <1>2, KnownHolds, PTL DEF Spec

\* A finite set that grows by what it lacks grows by its number.
LEMMA Grows ==
    ASSUME NEW S, NEW T, IsFiniteSet(S), IsFiniteSet(T), S \cap T = {}
    PROVE  Cardinality(S \cup T) = Cardinality(S) + Cardinality(T)
<1>1. Cardinality(S \cap T) = 0
  BY FS_EmptySet
<1>2. Cardinality(S) \in Nat /\ Cardinality(T) \in Nat
  BY FS_CardinalityType
<1>3. Cardinality(S \cup T) = Cardinality(S) + Cardinality(T) - Cardinality(S \cap T)
  BY FS_Union
<1> QED BY <1>1, <1>2, <1>3

\* The RetentionRun rows together report exactly what was erased: none of it
\* twice where sweeps overlap, none of it where one dies (retention.py, prune).
THEOREM RunsTell == Spec => []RunsTellErasures
<1> DEFINE Gone == {r \in Rows : row[r].pc = "deleted"}
<1>1. Init => RunsTellErasures
  <2> SUFFICES ASSUME Init PROVE RunsTellErasures
    OBVIOUS
  <2>1. Gone = {} /\ swept = {} /\ runs.cleared = 0 /\ runs.deleted = 0
    BY DEF Init, NoRow
  <2>2. Cardinality({}) = 0
    BY FS_EmptySet
  <2> QED BY <2>1, <2>2 DEF RunsTellErasures
<1>2. Known /\ RunsTellErasures /\ [Next]_vars => RunsTellErasures'
  <2> SUFFICES ASSUME Known, RunsTellErasures, [Next]_vars PROVE RunsTellErasures'
    OBVIOUS
  <2>0. ASSUME UNCHANGED <<runs, swept>>, Gone' = Gone PROVE RunsTellErasures'
    BY <2>0 DEF RunsTellErasures
  <2>1. ASSUME NEW s \in Sweeps, CommitSweep(s)
        PROVE  RunsTellErasures'
    <3> DEFINE C == sweep[s].cleared
               D == sweep[s].deleted
    <3>1. /\ \A r \in C : r \in Rows /\ row[r].pc = "stored" /\ row[r].content
          /\ \A r \in D : r \in Rows /\ row[r].pc = "stored"
      BY MarksAreRows DEF Known, SweepKnows, Marked
    <3>2. \A r \in swept : r \in Rows /\ ~row[r].content
      BY DEF Known, TypeOK, RowKnows
    <3>3. Gone' = Gone \cup D
      <4>1. ASSUME NEW r \in Rows
            PROVE  row'[r].pc = "deleted" <=> row[r].pc = "deleted" \/ r \in D
        <5>1. row[r] \in RowType
          BY DEF Known, TypeOK, RowType
        <5>2. row'[r] = IF r \in D THEN [NoRow EXCEPT !.pc = "deleted"]
                        ELSE [row[r] EXCEPT !.content = row[r].content /\ r \notin C]
          BY <2>1 DEF CommitSweep
        <5> HIDE DEF C, D
        <5> QED BY <5>1, <5>2 DEF NoRow, RowType
      <4> QED BY <3>1, <4>1
    <3>4. /\ runs'.cleared = runs.cleared + Cardinality(C)
          /\ runs'.deleted = runs.deleted + Cardinality(D)
          /\ swept' = swept \cup C
      BY <2>1 DEF CommitSweep
    <3>5. swept \cap C = {} /\ Gone \cap D = {}
      BY <3>1, <3>2
    <3>6. swept \subseteq Rows /\ C \subseteq Rows /\ Gone \subseteq Rows /\ D \subseteq Rows
      BY <3>1, <3>2
    <3>7. IsFiniteSet(swept) /\ IsFiniteSet(C) /\ IsFiniteSet(Gone) /\ IsFiniteSet(D)
      BY <3>6, PayloadsAssumption, FS_Subset
    <3>8. runs.cleared = Cardinality(swept) /\ runs.deleted = Cardinality(Gone)
      BY DEF RunsTellErasures
    <3>9. runs'.cleared = Cardinality(swept') /\ runs'.deleted = Cardinality(Gone')
      <4> HIDE DEF C, D, Gone
      <4>1. /\ Cardinality(swept \cup C) = Cardinality(swept) + Cardinality(C)
            /\ Cardinality(Gone \cup D) = Cardinality(Gone) + Cardinality(D)
        BY <3>5, <3>7, Grows
      <4> QED BY <3>3, <3>4, <3>8, <4>1
    <3> QED BY <3>9 DEF RunsTellErasures
  <2>2. ASSUME NEW s \in Sweeps, Sweep(s), ~CommitSweep(s)
        PROVE  UNCHANGED <<runs, swept, row>>
    BY <2>2 DEF Sweep, Start, ReadPeriods, ClearNamed, ClearUnknown, Clears, DeleteRecords,
                Crash, outcome
  <2>3. CASE \E r \in Rows : Open(r) \/ Commit(r)
    <3>1. \A r \in Rows : row'[r].pc = "deleted" <=> row[r].pc = "deleted"
      BY <2>3 DEF Open, Commit, Known, TypeOK
    <3>2. UNCHANGED <<runs, swept>>
      BY <2>3 DEF Open, Commit, sweeping, outcome
    <3> QED BY <2>0, <3>1, <3>2
  <2>4. CASE UpsertUseCase \/ RetireUseCase \/ PurgeUseCase
    BY <2>0, <2>4, ChangeTypes DEF Known, Changed, sweeping, outcome
  <2>5. CASE Day \/ UNCHANGED vars
    BY <2>0, <2>5 DEF Day, vars, sweeping, outcome
  <2> QED BY <2>0, <2>1, <2>2, <2>3, <2>4, <2>5 DEF Next
<1> QED BY <1>1, <1>2, KnownHolds, PTL DEF Spec

\* No reader is told of a row that held content that it never had any, unless
\* its period was lengthened since it did (payloads.py, may_read_payload).
THEOREM AbsenceTold == Spec => []AbsenceIsToldApart
<1>1. Known => AbsenceIsToldApart
  <2> SUFFICES ASSUME Known, NEW r \in Stored, Told(r) = "never_had_one", r \in had
               PROVE  r \in relaxed
    BY DEF AbsenceIsToldApart
  <2>1. r \in Rows /\ row[r].pc = "stored" /\ RowKnows(r)
    BY DEF Stored, Known
  <2>2. ~row[r].content /\ Absence(r) = "never_had_one"
    BY DEF Told
  <2>3. /\ ~(row[r].named /\ usecase # None /\ ~usecase.store)
        /\ ~PastRetention(r)
    BY <2>2 DEF Absence
  <2>4. ~(clock - row[r].created > Under(r))
    BY <2>3 DEF PastRetention, Past, Under, Period, DaysOf
  <2> QED BY <2>1, <2>2, <2>4 DEF RowKnows
<1> QED BY <1>1, KnownHolds, PTL
=============================================================================
