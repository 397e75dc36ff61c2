---------------------------- MODULE BudgetProofs ----------------------------
(***************************************************************************)
(* Proofs about Budget, for every value of its constants.                  *)
(***************************************************************************)
EXTENDS Budget, FiniteSetTheorems, TLAPS

-----------------------------------------------------------------------------
(* Amounts and their totals *)

\* The operators on amounts stay within the amounts.
LEMMA AmountTypes ==
    /\ Zero \in Amounts
    /\ \A x, y \in Amounts : Plus(x, y) \in Amounts
    /\ \A x, y \in Amounts : Minus(x, y) \in [Dims -> Int]
    /\ \A x \in Amounts, y \in [Dims -> Int] : Clamped(Plus(x, y)) \in Amounts
  BY DEF Amounts, Zero, Plus, Minus, Clamped

\* The interval of n units has n elements.
LEMMA OneTo ==
    ASSUME NEW n \in Nat
    PROVE  IsFiniteSet(1 .. n) /\ Cardinality(1 .. n) = n
<1>1. 1 \in Int /\ n \in Int
  OBVIOUS
<1>2. /\ IsFiniteSet(1 .. n)
      /\ Cardinality(1 .. n) = IF 1 > n THEN 0 ELSE n - 1 + 1
  BY <1>1, FS_Interval
<1>3. (IF 1 > n THEN 0 ELSE n - 1 + 1) = n
  OBVIOUS
<1> QED BY <1>2, <1>3

\* The units Total counts, for one dimension.
Units(S, amt, d) == UNION {{r} \X (1 .. amt[r][d]) : r \in S}

\* A finite set of requests has finitely many units.
LEMMA UnitsFinite ==
    ASSUME NEW S \in SUBSET Requests, NEW amt \in [Requests -> Amounts], NEW d \in Dims
    PROVE  IsFiniteSet(Units(S, amt, d))
<1> DEFINE T == {{r} \X (1 .. amt[r][d]) : r \in S}
           f == [r \in S |-> {r} \X (1 .. amt[r][d])]
<1>1. IsFiniteSet(S)
  BY SetsAssumption, FS_Subset
<1>2. f \in Surjection(S, T)
  BY DEF Surjection
<1>3. IsFiniteSet(T)
  BY <1>1, <1>2, FS_Surjection
<1>4. ASSUME NEW r \in S PROVE IsFiniteSet({r} \X (1 .. amt[r][d]))
  <2>1. amt[r][d] \in Nat
    BY DEF Amounts
  <2>2. IsFiniteSet({r})
    BY FS_Singleton
  <2>3. IsFiniteSet(1 .. amt[r][d])
    BY <2>1, OneTo
  <2> QED BY <2>2, <2>3, FS_Product
<1>5. \A t \in T : IsFiniteSet(t)
  BY <1>4
<1> QED BY <1>3, <1>5, FS_UNION DEF Units

\* One request more adds exactly its own amount.
LEMMA TotalAdd ==
    ASSUME NEW S \in SUBSET Requests, NEW amt \in [Requests -> Amounts],
           NEW r \in Requests, r \notin S
    PROVE  Total(S \cup {r}, amt) = Plus(Total(S, amt), amt[r])
<1> SUFFICES ASSUME NEW d \in Dims
             PROVE  Cardinality(Units(S \cup {r}, amt, d))
                      = Cardinality(Units(S, amt, d)) + amt[r][d]
  BY DEF Total, Plus, Units
<1> DEFINE mine == {r} \X (1 .. amt[r][d])
<1>1. amt[r][d] \in Nat
  BY DEF Amounts
<1>2. IsFiniteSet({r}) /\ Cardinality({r}) = 1
  BY FS_Singleton
<1>3. IsFiniteSet(1 .. amt[r][d]) /\ Cardinality(1 .. amt[r][d]) = amt[r][d]
  BY <1>1, OneTo
<1>4. IsFiniteSet(mine) /\ Cardinality(mine) = Cardinality({r}) * Cardinality(1 .. amt[r][d])
  BY <1>2, <1>3, FS_Product
<1>5. Cardinality(mine) = amt[r][d]
  BY <1>1, <1>2, <1>4, <1>3
<1>6. Units(S \cup {r}, amt, d) = Units(S, amt, d) \cup mine
  BY DEF Units
<1>7. Units(S, amt, d) \cap mine = {}
  BY DEF Units
<1>8. IsFiniteSet(Units(S, amt, d))
  BY UnitsFinite
<1>9. Cardinality(Units(S, amt, d) \cup mine)
        = Cardinality(Units(S, amt, d)) + Cardinality(mine)
           - Cardinality(Units(S, amt, d) \cap mine)
  BY <1>4, <1>8, FS_Union
<1>10. Cardinality(Units(S, amt, d)) \in Nat /\ Cardinality({}) = 0
  BY <1>8, FS_CardinalityType, FS_EmptySet
<1>11. Cardinality(Units(S, amt, d) \cap mine) = 0
  BY <1>7, <1>10
<1>12. Cardinality(Units(S, amt, d) \cup mine) = Cardinality(Units(S, amt, d)) + amt[r][d]
  <2> HIDE DEF mine
  <2> QED BY <1>1, <1>5, <1>9, <1>10, <1>11
<1> QED BY <1>6, <1>12

\* A total is an amount.
LEMMA TotalType ==
    ASSUME NEW S \in SUBSET Requests, NEW amt \in [Requests -> Amounts]
    PROVE  Total(S, amt) \in Amounts
<1>1. ASSUME NEW d \in Dims PROVE Cardinality(Units(S, amt, d)) \in Nat
  BY UnitsFinite, FS_CardinalityType
<1> QED BY <1>1 DEF Total, Amounts, Units

\* One request fewer takes exactly its own amount.
LEMMA TotalRemove ==
    ASSUME NEW S \in SUBSET Requests, NEW amt \in [Requests -> Amounts], NEW r \in S
    PROVE  Total(S, amt) = Plus(Total(S \ {r}, amt), amt[r])
<1>1. S = (S \ {r}) \cup {r}
  OBVIOUS
<1> QED BY <1>1, TotalAdd

\* A smaller set has a smaller total.
LEMMA TotalMonotone ==
    ASSUME NEW S \in SUBSET Requests, NEW T \in SUBSET S,
           NEW amt \in [Requests -> Amounts], NEW d \in Dims
    PROVE  Total(T, amt)[d] <= Total(S, amt)[d]
<1>1. Units(T, amt, d) \subseteq Units(S, amt, d)
  BY DEF Units
<1>2. Cardinality(Units(T, amt, d)) <= Cardinality(Units(S, amt, d))
  BY <1>1, UnitsFinite, FS_Subset
<1> QED BY <1>2 DEF Total, Units

\* A total depends only on the amounts of its own requests.
LEMMA TotalSame ==
    ASSUME NEW S \in SUBSET Requests,
           NEW amt \in [Requests -> Amounts], NEW other \in [Requests -> Amounts],
           \A r \in S : amt[r] = other[r]
    PROVE  Total(S, amt) = Total(S, other)
<1>1. ASSUME NEW d \in Dims PROVE Units(S, amt, d) = Units(S, other, d)
  BY DEF Units
<1> QED BY <1>1 DEF Total, Units
-----------------------------------------------------------------------------
(* Type correctness *)

\* The key of a bound budget is a key.
LEMMA KeyTypes ==
    ASSUME TypeOK, NEW r \in Requests, NEW b \in Budgets
    PROVE  Key(r, b) \in Keys /\ (stepAt[r] # 0 => StepKey(r, b) \in Keys)
  BY DEF TypeOK, Key, StepKey, Keys

\* The reserve script keeps both hashes well typed.
LEMMA ReserveTypes ==
    ASSUME TypeOK, NEW r \in Requests, seed[r] # None, NEW taken \in BOOLEAN,
           RunReserve(r, taken)
    PROVE  counter' \in [Keys -> Amounts \cup {None}] /\ open' \in [Keys -> SUBSET Requests]
<1> DEFINE b == seed[r].budget
           k == Key(r, b)
<1>1. b \in Budgets /\ seed[r].figure \in Amounts
  BY DEF TypeOK
<1>2. k \in Keys
  BY <1>1, KeyTypes
<1>3. PICK dead \in SUBSET Lapsed(k) :
        LET carried == open[k] \ dead
            base == IF counter[k] = None THEN Rebuilt(seed[r].figure, carried) ELSE counter[k]
        IN  /\ counter' = [counter EXCEPT
                  ![k] = IF taken THEN Plus(base, Estimate[r]) ELSE base]
            /\ open' = [open EXCEPT ![k] = IF taken THEN carried \cup {r} ELSE carried]
  BY DEF RunReserve
<1> DEFINE carried == open[k] \ dead
           base == IF counter[k] = None THEN Rebuilt(seed[r].figure, carried) ELSE counter[k]
<1>4. open \in [Keys -> SUBSET Requests] /\ counter \in [Keys -> Amounts \cup {None}]
  BY DEF TypeOK
<1>5. carried \in SUBSET Requests /\ Estimate[r] \in Amounts
  BY <1>2, <1>4, AmountsAssumption
<1>6. base \in Amounts
  <2>1. Rebuilt(seed[r].figure, carried) \in Amounts
    BY <1>1, <1>5, TotalType, AmountTypes, AmountsAssumption DEF Rebuilt
  <2> QED BY <1>2, <1>4, <2>1
<1>7. Plus(base, Estimate[r]) \in Amounts
  BY <1>5, <1>6, AmountTypes
<1> HIDE DEF k, carried, base
<1>8. counter' = [counter EXCEPT ![k] = IF taken THEN Plus(base, Estimate[r]) ELSE base]
  BY <1>3 DEF k, carried, base
<1>9. open' = [open EXCEPT ![k] = IF taken THEN carried \cup {r} ELSE carried]
  BY <1>3 DEF k, carried, base
<1> QED BY <1>2, <1>4, <1>5, <1>6, <1>7, <1>8, <1>9

\* So does the adjust script.
LEMMA AdjustTypes ==
    ASSUME TypeOK, NEW k, NEW amounts \in [Dims -> Int], NEW closing,
           RunAdjust(k, amounts, closing)
    PROVE  counter' \in [Keys -> Amounts \cup {None}] /\ open' \in [Keys -> SUBSET Requests]
<1>1. k \in Keys /\ counter[k] # None => Clamped(Plus(counter[k], amounts)) \in Amounts
  BY AmountTypes DEF TypeOK
<1> QED BY <1>1 DEF TypeOK, RunAdjust

\* What a request may be corrected by.
LEMMA CorrectionType ==
    ASSUME TypeOK, NEW r \in Requests
    PROVE  /\ Correction(r) \in [Dims -> Int]
           /\ actual[r] \in [Dims -> Int]
           /\ StepAmount \in [Dims -> Int]
<1>1. actual[r] \in Amounts /\ Estimate[r] \in Amounts /\ StepAmount \in Amounts
  BY AmountsAssumption DEF TypeOK
<1>2. \A x \in Amounts : x \in [Dims -> Int]
  BY DEF Amounts
<1> QED BY <1>1, <1>2, AmountTypes DEF Correction
\* A call of the runner keeps the breaker and its bound well typed.
LEMMA RunnerTypes ==
    ASSUME TypeOK, NEW g \in Gateways, Reaches(g) \/ Unavailable(g)
    PROVE  breaker' \in [Gateways -> BOOLEAN] /\ outages' \in Nat
<1>1. breaker \in [Gateways -> BOOLEAN] /\ outages \in Nat
  BY DEF TypeOK
<1>2. CASE UNCHANGED <<breaker, outages>>
  BY <1>1, <1>2
<1>3. CASE /\ outages < bound.outages /\ outages' = outages + 1
           /\ breaker' = [breaker EXCEPT ![g] = TRUE]
  <2>1. outages' \in Nat
    BY <1>1, <1>3, BoundsAssumption
  <2>2. breaker' \in [Gateways -> BOOLEAN]
    BY <1>1, <1>3
  <2> QED BY <2>1, <2>2
<1> QED BY <1>2, <1>3 DEF Reaches, Unavailable

\* Steps of a request before and during guard.
LEMMA GuardTypes ==
    ASSUME TypeOK, NEW r \in Requests,
           \/ EarlyGate(r) \/ BookSideCall(r) \/ Guard(r)
           \/ \E b \in Budgets : ReadSeed(r, b)
           \/ Reserve(r) \/ Breach(r) \/ ReserveUnavailable(r) \/ CheckOnly(r)
           \/ Interrupt(r) \/ InterruptUnshielded(r) \/ InterruptPipeline(r)
    PROVE  TypeOK'
<1> USE SetsAssumption DEF Phases, InGuard, Handing
<1>1. CASE EarlyGate(r)
  BY <1>1 DEF TypeOK, EarlyGate, stores, world, faults, outcome
<1>2. CASE BookSideCall(r)
  <2>1. usage' \in [Keys -> Amounts]
    BY <1>2, AmountTypes, AmountsAssumption DEF TypeOK, BookSideCall
  <2> QED BY <1>2, <2>1 DEF TypeOK, BookSideCall, world, faults, outcome
<1>3. CASE Guard(r)
  BY <1>3 DEF TypeOK, Guard, stores, world, faults, outcome
<1>4. ASSUME NEW b \in Budgets, ReadSeed(r, b) PROVE TypeOK'
  <2>1. usage[Key(r, b)] \in Amounts
    BY KeyTypes DEF TypeOK
  <2> QED BY <1>4, <2>1 DEF TypeOK, ReadSeed, stores, world, faults, outcome
<1>5. CASE Reserve(r)
  <2>1. counter' \in [Keys -> Amounts \cup {None}] /\ open' \in [Keys -> SUBSET Requests]
    BY <1>5, ReserveTypes DEF Reserve
  <2>2. breaker' \in [Gateways -> BOOLEAN] /\ outages' \in Nat
    BY <1>5, RunnerTypes DEF Reserve
  <2>3. seed[r].budget \in Budgets
    BY <1>5 DEF TypeOK, Reserve
  <2> QED BY <1>5, <2>1, <2>2, <2>3 DEF TypeOK, Reserve, outcome
<1>6. CASE Breach(r)
  <2>1. counter' \in [Keys -> Amounts \cup {None}] /\ open' \in [Keys -> SUBSET Requests]
    BY <1>6, ReserveTypes DEF Breach
  <2>2. breaker' \in [Gateways -> BOOLEAN] /\ outages' \in Nat
    BY <1>6, RunnerTypes DEF Breach
  <2> QED BY <1>6, <2>1, <2>2 DEF TypeOK, Breach, HandBack, outcome
<1>7. CASE ReserveUnavailable(r)
  <2>1. counter' \in [Keys -> Amounts \cup {None}] /\ open' \in [Keys -> SUBSET Requests]
    <3>1. CASE UNCHANGED <<counter, open>>
      BY <3>1 DEF TypeOK
    <3>2. CASE \E taken \in BOOLEAN : RunReserve(r, taken)
      BY <1>7, <3>2, ReserveTypes DEF ReserveUnavailable
    <3> QED BY <1>7, <3>1, <3>2 DEF ReserveUnavailable
  <2>2. breaker' \in [Gateways -> BOOLEAN] /\ outages' \in Nat
    BY <1>7, RunnerTypes DEF ReserveUnavailable
  <2>3. doubt' \in SUBSET Requests
    BY <1>7 DEF TypeOK, ReserveUnavailable
  <2> QED BY <1>7, <2>1, <2>2, <2>3 DEF TypeOK, ReserveUnavailable, outcome
<1>8. CASE CheckOnly(r)
  BY <1>8 DEF TypeOK, CheckOnly, stores, world, faults, outcome
<1>9. CASE Interrupt(r)
  <2>1. counter' \in [Keys -> Amounts \cup {None}] /\ open' \in [Keys -> SUBSET Requests]
    <3>1. CASE UNCHANGED <<counter, open>>
      BY <3>1 DEF TypeOK
    <3>2. CASE seed[r] # None /\ \E taken \in BOOLEAN : RunReserve(r, taken)
      BY <1>9, <3>2, ReserveTypes
    <3> QED BY <1>9, <3>1, <3>2 DEF Interrupt
  <2>2. doubt' \in SUBSET Requests /\ cancels' \in Nat
    BY <1>9, BoundsAssumption DEF TypeOK, Interrupt
  <2> QED BY <1>9, <2>1, <2>2 DEF TypeOK, Interrupt, HandBack, world, outcome
<1>10. CASE InterruptUnshielded(r)
  <2>1. doubt' \in SUBSET Requests /\ cancels' \in Nat
    BY <1>10, BoundsAssumption DEF TypeOK, InterruptUnshielded
  <2> QED BY <1>10, <2>1 DEF TypeOK, InterruptUnshielded, stores, world, outcome
<1>11. CASE InterruptPipeline(r)
  <2>1. cancels' \in Nat
    BY <1>11, BoundsAssumption DEF TypeOK, InterruptPipeline
  <2> QED BY <1>11, <2>1 DEF TypeOK, InterruptPipeline, stores, world, outcome
<1> QED BY <1>1, <1>2, <1>3, <1>4, <1>5, <1>6, <1>7, <1>8, <1>9, <1>10, <1>11

\* Steps of a request after dispatch, and of its pipeline.
LEMMA SettleTypes ==
    ASSUME TypeOK, NEW r \in Requests,
           \/ Answer(r) \/ Fail(r) \/ Record(r) \/ RecordFails(r) \/ PriceFails(r)
           \/ \E b \in Budgets : AddStep(r, b) \/ AddLifted(r, b) \/ Move(r, b)
    PROVE  TypeOK'
<1> USE SetsAssumption DEF Phases, InGuard, Handing
<1>1. CASE Answer(r)
  <2>1. Answers[r] \subseteq Amounts
    BY AmountsAssumption
  <2>2. actual' \in [Requests -> Amounts]
    BY <1>1, <2>1 DEF TypeOK, Answer
  <2> QED BY <1>1, <2>2 DEF TypeOK, Answer, stores, world, faults
<1>2. CASE Fail(r)
  BY <1>2 DEF TypeOK, Fail, HandBack, stores, world, faults, outcome
<1>3. CASE Record(r)
  <2>1. usage' \in [Keys -> Amounts]
    BY <1>3, AmountTypes DEF TypeOK, Record
  <2> QED BY <1>3, <2>1 DEF TypeOK, Record, AfterLifted, world, faults, outcome
<1>4. CASE RecordFails(r)
  BY <1>4, BoundsAssumption DEF TypeOK, RecordFails, stores, world
<1>5. ASSUME NEW b \in Budgets, AddStep(r, b) PROVE TypeOK'
  <2>1. counter' \in [Keys -> Amounts \cup {None}] /\ open' \in [Keys -> SUBSET Requests]
    <3>1. CASE UNCHANGED <<counter, open>>
      BY <3>1 DEF TypeOK
    <3> QED BY <1>5, <3>1, AdjustTypes, CorrectionType DEF AddStep
  <2>2. breaker' \in [Gateways -> BOOLEAN] /\ outages' \in Nat
    BY <1>5, RunnerTypes DEF AddStep
  <2> QED BY <1>5, <2>1, <2>2 DEF TypeOK, AddStep, Turn, outcome
<1>6. ASSUME NEW b \in Budgets, AddLifted(r, b) PROVE TypeOK'
  <2>1. counter' \in [Keys -> Amounts \cup {None}] /\ open' \in [Keys -> SUBSET Requests]
    <3>1. CASE UNCHANGED <<counter, open>>
      BY <3>1 DEF TypeOK
    <3> QED BY <1>6, <3>1, AdjustTypes, CorrectionType DEF AddLifted
  <2>2. breaker' \in [Gateways -> BOOLEAN] /\ outages' \in Nat
    BY <1>6, RunnerTypes DEF AddLifted
  <2> QED BY <1>6, <2>1, <2>2 DEF TypeOK, AddLifted, AfterLifted, outcome
<1>7. ASSUME NEW b \in Budgets, Move(r, b) PROVE TypeOK'
  <2>1. counter' \in [Keys -> Amounts \cup {None}] /\ open' \in [Keys -> SUBSET Requests]
    <3>1. CASE UNCHANGED <<counter, open>>
      BY <3>1 DEF TypeOK
    <3> QED BY <1>7, <3>1, AdjustTypes, CorrectionType DEF Move
  <2>2. breaker' \in [Gateways -> BOOLEAN] /\ outages' \in Nat
    BY <1>7, RunnerTypes DEF Move
  <2>3. doubt' \in SUBSET Requests
    BY <1>7 DEF TypeOK, Move
  <2> QED BY <1>7, <2>1, <2>2, <2>3 DEF TypeOK, Move, Turn, outcome
<1>8. CASE PriceFails(r)
  BY <1>8, BoundsAssumption DEF TypeOK, PriceFails, HandBack, stores, world
<1> QED BY <1>1, <1>2, <1>3, <1>4, <1>5, <1>6, <1>7, <1>8

\* Steps of the environment.
LEMMA WorldTypes ==
    ASSUME TypeOK,
           \/ \E k \in Keys : Expire(k)
           \/ \E g \in Gateways : BreakerCloses(g) \/ Crash(g)
           \/ Flush \/ NextPeriod \/ UNCHANGED vars
    PROVE  TypeOK'
<1> USE BoundsAssumption DEF Phases, InGuard, Handing
<1>1. CASE \E k \in Keys : Expire(k)
  BY <1>1 DEF TypeOK, Expire, world, request, faults, outcome
<1>2. CASE \E g \in Gateways : BreakerCloses(g)
  BY <1>2 DEF TypeOK, BreakerCloses, stores, request, faults, outcome
<1>3. CASE \E g \in Gateways : Crash(g)
  BY <1>3 DEF TypeOK, Crash, stores
<1>4. CASE Flush
  BY <1>4 DEF TypeOK, Flush, world, request, outcome
<1>5. CASE NextPeriod
  BY <1>5 DEF TypeOK, NextPeriod, stores, request, faults, outcome
<1>6. CASE UNCHANGED vars
  BY <1>6 DEF TypeOK, vars, stores, world, request, faults, outcome
<1> QED BY <1>1, <1>2, <1>3, <1>4, <1>5, <1>6

\* Every step keeps the types.
LEMMA TypeStep == TypeOK /\ [Next]_vars => TypeOK'
  BY GuardTypes, SettleTypes, WorldTypes DEF Next, Advance, Disturb, Done

\* The stores, the breaker and the requests keep their types in every
\* behaviour: usage and counters stay at or above zero.
THEOREM TypeCorrect == Spec => []TypeOK
<1>1. Init => TypeOK
  <2> SUFFICES ASSUME Init PROVE TypeOK
    OBVIOUS
  <2>1. Zero \in Amounts
    BY AmountTypes
  <2>2. counter \in [Keys -> Amounts \cup {None}]
    BY <2>1 DEF Init
  <2>3. 1 \in 1 .. MaxPeriod /\ 0 \in 0 .. MaxPeriod /\ 0 \in Nat
    BY BoundsAssumption
  <2> QED BY <2>1, <2>2, <2>3 DEF Init, TypeOK, Phases
<1> QED BY <1>1, TypeStep, PTL DEF Spec
-----------------------------------------------------------------------------
(* What a step leaves alone *)

\* The local state of request q, which only q's own steps and the death of its
\* process change.
Same(q) ==
    /\ pc'[q] = pc[q] /\ admitted'[q] = admitted[q] /\ lifted'[q] = lifted[q]
    /\ todo'[q] = todo[q] /\ seed'[q] = seed[q] /\ held'[q] = held[q]
    /\ moving'[q] = moving[q] /\ actual'[q] = actual[q] /\ stepAt'[q] = stepAt[q]
    /\ q \in doubt' <=> q \in doubt
    /\ q \in answered' <=> q \in answered
    /\ q \in unbooked' <=> q \in unbooked

\* A step of one request changes the local state of no other.
LEMMA StepIsLocal ==
    ASSUME TypeOK, NEW r \in Requests, Advance(r) \/ Disturb(r)
    PROVE  \A q \in Requests \ {r} : Same(q)
<1> USE DEF TypeOK, Same
<1>1. CASE EarlyGate(r)
  BY <1>1 DEF EarlyGate, outcome
<1>2. CASE BookSideCall(r)
  BY <1>2 DEF BookSideCall, outcome
<1>3. CASE Guard(r)
  BY <1>3 DEF Guard, outcome
<1>4. CASE \E b \in Budgets : ReadSeed(r, b)
  BY <1>4 DEF ReadSeed, outcome
<1>5. CASE Reserve(r)
  BY <1>5 DEF Reserve, outcome
<1>6. CASE Breach(r)
  BY <1>6 DEF Breach, HandBack, outcome
<1>7. CASE ReserveUnavailable(r)
  BY <1>7 DEF ReserveUnavailable, outcome
<1>8. CASE CheckOnly(r)
  BY <1>8 DEF CheckOnly, outcome
<1>9. CASE Answer(r)
  BY <1>9 DEF Answer
<1>10. CASE Fail(r)
  BY <1>10 DEF Fail, HandBack, outcome
<1>11. CASE Record(r)
  BY <1>11 DEF Record, outcome
<1>12. CASE \E b \in Budgets : AddStep(r, b)
  BY <1>12 DEF AddStep, Turn, outcome
<1>13. CASE \E b \in Budgets : AddLifted(r, b)
  BY <1>13 DEF AddLifted, outcome
<1>14. CASE \E b \in Budgets : Move(r, b)
  BY <1>14 DEF Move, Turn, outcome
<1>15. CASE Interrupt(r)
  BY <1>15 DEF Interrupt, HandBack, outcome
<1>16. CASE InterruptUnshielded(r)
  BY <1>16 DEF InterruptUnshielded, outcome
<1>17. CASE RecordFails(r)
  BY <1>17 DEF RecordFails
<1>18. CASE InterruptPipeline(r)
  BY <1>18 DEF InterruptPipeline, outcome
<1>19. CASE PriceFails(r)
  BY <1>19 DEF PriceFails, HandBack
<1> QED
  BY <1>1, <1>2, <1>3, <1>4, <1>5, <1>6, <1>7, <1>8, <1>9, <1>10, <1>11, <1>12,
     <1>13, <1>14, <1>15, <1>16, <1>17, <1>18, <1>19 DEF Advance, Disturb

\* Expiry, the breaker, a flush and the clock change no request.
LEMMA WorldIsElsewhere ==
    ASSUME TypeOK,
           \/ \E k \in Keys : Expire(k)
           \/ \E g \in Gateways : BreakerCloses(g)
           \/ Flush \/ NextPeriod \/ UNCHANGED vars
    PROVE  \A q \in Requests : Same(q)
  BY DEF Same, Expire, BreakerCloses, Flush, NextPeriod, vars, request, outcome

\* A crash ends the requests it takes, in doubt, and changes no other.
LEMMA CrashEnds ==
    ASSUME TypeOK, NEW g \in Gateways, Crash(g)
    PROVE  \A q \in Requests :
             \/ Same(q)
             \/ /\ pc[q] \notin {"idle", "done"} /\ pc'[q] = "done" /\ q \in doubt'
                /\ held'[q] = held[q] /\ seed'[q] = seed[q] /\ admitted'[q] = admitted[q]
                /\ stepAt'[q] = stepAt[q] /\ actual'[q] = actual[q]
                /\ q \in answered' <=> q \in answered
                /\ q \in unbooked' <=> q \in unbooked \/ pc[q] = "recording"
  BY DEF TypeOK, Crash, Same
-----------------------------------------------------------------------------
(* The discipline of a request *)

\* A request's own step keeps it orderly.
LEMMA StepIsOrderly ==
    ASSUME TypeOK, NEW r \in Requests, Orderly(r), Advance(r) \/ Disturb(r)
    PROVE  Orderly(r)'
<1> USE DEF TypeOK, Orderly, BeforeGuard, BeforeAnswer, InGuard, Handing
<1>1. CASE EarlyGate(r)
  BY <1>1 DEF EarlyGate, outcome
<1>2. CASE BookSideCall(r)
  BY <1>2 DEF BookSideCall, outcome
<1>3. CASE Guard(r)
  BY <1>3 DEF Guard, outcome
<1>4. CASE \E b \in Budgets : ReadSeed(r, b)
  BY <1>4 DEF ReadSeed, outcome
<1>5. CASE Reserve(r)
  BY <1>5 DEF Reserve, outcome
<1>6. CASE Breach(r)
  BY <1>6 DEF Breach, HandBack, outcome
<1>7. CASE ReserveUnavailable(r)
  BY <1>7 DEF ReserveUnavailable, outcome
<1>8. CASE CheckOnly(r)
  BY <1>8 DEF CheckOnly, outcome
<1>9. CASE Answer(r)
  BY <1>9 DEF Answer
<1>10. CASE Fail(r)
  BY <1>10 DEF Fail, HandBack, outcome
<1>11. CASE Record(r)
  BY <1>11 DEF Record, AfterLifted, outcome
<1>12. CASE \E b \in Budgets : AddStep(r, b)
  BY <1>12 DEF AddStep, Turn, outcome
<1>13. CASE \E b \in Budgets : AddLifted(r, b)
  BY <1>13 DEF AddLifted, AfterLifted, outcome
<1>14. CASE \E b \in Budgets : Move(r, b)
  BY <1>14 DEF Move, Turn, outcome
<1>15. CASE Interrupt(r)
  BY <1>15 DEF Interrupt, HandBack, outcome
<1>16. CASE InterruptUnshielded(r)
  BY <1>16 DEF InterruptUnshielded, outcome
<1>17. CASE RecordFails(r)
  BY <1>17 DEF RecordFails
<1>18. CASE InterruptPipeline(r)
  BY <1>18 DEF InterruptPipeline, outcome
<1>19. CASE PriceFails(r)
  BY <1>19 DEF PriceFails, HandBack
<1> QED
  BY <1>1, <1>2, <1>3, <1>4, <1>5, <1>6, <1>7, <1>8, <1>9, <1>10, <1>11, <1>12,
     <1>13, <1>14, <1>15, <1>16, <1>17, <1>18, <1>19 DEF Advance, Disturb

\* The step of anyone else keeps a request orderly.
LEMMA SameIsOrderly ==
    ASSUME NEW q \in Requests, Orderly(q), Same(q)
    PROVE  Orderly(q)'
  BY DEF Orderly, Same

\* A request a crash takes is over, in doubt and orderly.
LEMMA CrashIsOrderly ==
    ASSUME TypeOK, NEW g \in Gateways, Crash(g), NEW q \in Requests, Orderly(q)
    PROVE  Orderly(q)'
<1>1. CASE Same(q)
  BY <1>1, SameIsOrderly
<1>2. CASE ~Same(q)
  BY <1>2, CrashEnds DEF Orderly, BeforeGuard, BeforeAnswer, InGuard, Handing
<1> QED BY <1>1, <1>2

\* Every step keeps every request orderly.
LEMMA DisciplineStep ==
    ASSUME TypeOK, Discipline, [Next]_vars
    PROVE  Discipline'
<1> SUFFICES ASSUME NEW q \in Requests PROVE Orderly(q)'
  BY DEF Discipline
<1>1. Orderly(q)
  BY DEF Discipline
<1>2. CASE \E r \in Requests : Advance(r) \/ Disturb(r)
  <2> PICK r \in Requests : Advance(r) \/ Disturb(r)
    BY <1>2
  <2>1. CASE q = r
    BY <1>1, <2>1, StepIsOrderly
  <2>2. CASE q # r
    BY <1>1, <2>2, StepIsLocal, SameIsOrderly
  <2> QED BY <2>1, <2>2
<1>3. CASE \E g \in Gateways : Crash(g)
  BY <1>1, <1>3, CrashIsOrderly
<1>4. CASE \/ \E k \in Keys : Expire(k)
           \/ \E g \in Gateways : BreakerCloses(g)
           \/ Flush \/ NextPeriod \/ UNCHANGED vars
  BY <1>1, <1>4, WorldIsElsewhere, SameIsOrderly
<1> QED BY <1>2, <1>3, <1>4 DEF Next, Done

\* The discipline holds at the start.
LEMMA DisciplineInit == Init => Discipline
  BY DEF Init, Discipline, Orderly, BeforeGuard, BeforeAnswer, InGuard, Handing
-----------------------------------------------------------------------------
(* The reservations in flight *)

\* The reserve script enters its own reservation and drops only lapsed ones.
LEMMA ReserveOpen ==
    ASSUME TypeOK, NEW r \in Requests, seed[r] # None, NEW taken \in BOOLEAN,
           RunReserve(r, taken), NEW k \in Keys, NEW q \in Requests
    PROVE  /\ q \in open'[k] => \/ q \in open[k]
                                \/ taken /\ q = r /\ k = Key(r, seed[r].budget)
           /\ q \in open[k] /\ pc[q] # "done" => q \in open'[k]
           /\ taken => r \in open'[Key(r, seed[r].budget)]
<1> DEFINE h == Key(r, seed[r].budget)
<1>1. h \in Keys
  BY KeyTypes DEF TypeOK
<1>2. PICK dead \in SUBSET Lapsed(h) :
        open' = [open EXCEPT ![h] = IF taken THEN (open[h] \ dead) \cup {r}
                                             ELSE open[h] \ dead]
  BY DEF RunReserve
<1>3. open \in [Keys -> SUBSET Requests]
  BY DEF TypeOK
<1>4. \A x \in dead : pc[x] = "done"
  BY DEF Lapsed
<1> HIDE DEF h
<1>5. /\ q \in open'[k] => q \in open[k] \/ (taken /\ q = r /\ k = h)
      /\ q \in open[k] /\ pc[q] # "done" => q \in open'[k]
      /\ taken => r \in open'[h]
  BY <1>1, <1>2, <1>3, <1>4
<1> QED BY <1>5 DEF h

\* The adjust script closes the reservations it is told to, on its own key.
LEMMA AdjustOpen ==
    ASSUME TypeOK, NEW h \in Keys, NEW amounts, NEW closing,
           RunAdjust(h, amounts, closing), NEW k \in Keys
    PROVE  open'[k] = IF k = h THEN open[k] \ closing ELSE open[k]
  BY DEF TypeOK, RunAdjust

\* A step of r enters no other request's reservation and drops none that is
\* still in flight.
LEMMA OthersStayOpen ==
    ASSUME TypeOK, Discipline, NEW r \in Requests, Advance(r) \/ Disturb(r),
           NEW k \in Keys, NEW q \in Requests \ {r}
    PROVE  /\ q \in open'[k] => q \in open[k]
           /\ q \in open[k] /\ pc[q] # "done" => q \in open'[k]
<1>1. CASE UNCHANGED open
  BY <1>1
<1>2. CASE seed[r] # None /\ \E taken \in BOOLEAN : RunReserve(r, taken)
  BY <1>2, ReserveOpen
<1>3. CASE \E b \in Budgets : AddStep(r, b)
  <2> PICK b \in Budgets : AddStep(r, b)
    BY <1>3
  <2>1. CASE RunAdjust(StepKey(r, b), StepAmount, {})
    BY <2>1, AdjustOpen DEF RunAdjust, TypeOK
  <2> QED BY <1>1, <2>1 DEF AddStep
<1>4. CASE \E b \in Budgets : AddLifted(r, b)
  <2> PICK b \in Budgets : AddLifted(r, b)
    BY <1>4
  <2>1. CASE RunAdjust(Key(r, b), actual[r], {})
    BY <2>1, AdjustOpen, KeyTypes
  <2> QED BY <1>1, <2>1 DEF AddLifted
<1>5. CASE \E b \in Budgets : Move(r, b)
  <2> PICK b \in Budgets : Move(r, b)
    BY <1>5
  <2>1. CASE RunAdjust(Key(r, b), Correction(r), {r})
    BY <2>1, AdjustOpen, KeyTypes
  <2> QED BY <1>1, <2>1 DEF Move
<1>6. CASE Reserve(r)
  BY <1>2, <1>6 DEF Reserve
<1>7. CASE Breach(r)
  BY <1>2, <1>7 DEF Breach
<1>8. CASE ReserveUnavailable(r)
  BY <1>1, <1>2, <1>8 DEF ReserveUnavailable
<1>9. CASE Interrupt(r)
  BY <1>1, <1>2, <1>9 DEF Interrupt
<1>10. CASE \/ EarlyGate(r) \/ BookSideCall(r) \/ Guard(r) \/ CheckOnly(r)
            \/ Answer(r) \/ Fail(r) \/ Record(r)
            \/ InterruptUnshielded(r) \/ InterruptPipeline(r) \/ RecordFails(r) \/ PriceFails(r)
            \/ \E b \in Budgets : ReadSeed(r, b)
  BY <1>1, <1>10 DEF EarlyGate, BookSideCall, Guard, CheckOnly, Answer, Fail, Record,
       InterruptUnshielded, InterruptPipeline, RecordFails, PriceFails, ReadSeed, stores
<1> QED BY <1>3, <1>4, <1>5, <1>6, <1>7, <1>8, <1>9, <1>10 DEF Advance, Disturb

\* Who owns what is a matter of the request alone.
LEMMA SameOwns ==
    ASSUME NEW q \in Requests, Same(q), NEW k \in Keys
    PROVE  Owns(q, k)' <=> Owns(q, k)
  BY DEF Owns, Same


\* After a request's own step its open reservations are still its own.
LEMMA StepKeeps ==
    ASSUME TypeOK, NEW r \in Requests, Orderly(r), Advance(r) \/ Disturb(r),
           NEW k \in Keys, r \in open[k] => r \in doubt \/ Owns(r, k)
    PROVE  r \in open'[k] => r \in doubt' \/ Owns(r, k)'
<1> SUFFICES ASSUME r \in open'[k] PROVE r \in doubt' \/ Owns(r, k)'
  OBVIOUS
<1> USE DEF TypeOK, Orderly, Owns, BeforeGuard, InGuard, Handing
<1>1. CASE EarlyGate(r)
  BY <1>1 DEF EarlyGate, stores
<1>2. CASE BookSideCall(r)
  BY <1>2 DEF BookSideCall
<1>3. CASE Guard(r)
  BY <1>3 DEF Guard, stores
<1>4. CASE \E b \in Budgets : ReadSeed(r, b)
  BY <1>4 DEF ReadSeed, stores
<1>5. CASE Reserve(r)
  <2>1. r \in open[k] \/ k = Key(r, seed[r].budget)
    BY <1>5, ReserveOpen DEF Reserve
  <2> QED BY <1>5, <2>1 DEF Reserve, Key
<1>6. CASE Breach(r)
  <2>1. r \in open[k]
    BY <1>6, ReserveOpen DEF Breach
  <2> QED BY <1>6, <2>1 DEF Breach, HandBack
<1>7. CASE ReserveUnavailable(r)
  <2>1. CASE r \in doubt'
    BY <2>1
  <2>2. CASE r \notin doubt'
    <3>1. held[r] = {} /\ r \in open[k]
      BY <1>7, <2>2, ReserveOpen DEF ReserveUnavailable
    <3> QED BY <1>7, <2>2, <3>1 DEF ReserveUnavailable
  <2> QED BY <2>1, <2>2
<1>8. CASE CheckOnly(r)
  BY <1>8 DEF CheckOnly, stores
<1>9. CASE Answer(r)
  BY <1>9 DEF Answer, stores
<1>10. CASE Fail(r)
  BY <1>10 DEF Fail, HandBack, stores
<1>11. CASE Record(r)
  BY <1>11 DEF Record, AfterLifted
<1>12. CASE \E b \in Budgets : AddStep(r, b)
  <2> PICK b \in Budgets : AddStep(r, b)
    BY <1>12
  <2>1. r \in open[k]
    BY AdjustOpen DEF AddStep, RunAdjust
  <2> QED BY <2>1 DEF AddStep, Turn
<1>13. CASE \E b \in Budgets : AddLifted(r, b)
  <2> PICK b \in Budgets : AddLifted(r, b)
    BY <1>13
  <2>1. r \in open[k]
    BY AdjustOpen, KeyTypes DEF AddLifted
  <2> QED BY <2>1 DEF AddLifted, AfterLifted
<1>14. CASE \E b \in Budgets : Move(r, b)
  <2> PICK b \in Budgets : Move(r, b)
    BY <1>14
  <2>1. CASE UNCHANGED <<counter, open>> /\ r \in doubt'
    BY <2>1
  <2>2. CASE RunAdjust(Key(r, b), Correction(r), {r}) /\ UNCHANGED doubt
    <3> HIDE DEF TypeOK, Orderly, Owns
    <3>1. Key(r, b) \in Keys
      BY KeyTypes
    <3>2. open'[k] = IF k = Key(r, b) THEN open[k] \ {r} ELSE open[k]
      BY <2>2, <3>1, AdjustOpen
    <3>3. r \in open[k] /\ k # Key(r, b)
      BY <3>2
    <3>4. k[2] = admitted[r] => k[1] # b
      BY <3>3 DEF Key, Keys
    <3> QED BY <2>2, <3>3, <3>4 DEF Move, Turn, TypeOK, Orderly, Owns
  <2> QED BY <2>1, <2>2 DEF Move
<1>15. CASE Interrupt(r)
  <2>1. CASE r \in doubt'
    BY <2>1
  <2>2. CASE r \notin doubt'
    <3>1. r \in open[k]
      BY <1>15, <2>2, ReserveOpen DEF Interrupt
    <3> QED BY <1>15, <2>2, <3>1 DEF Interrupt, HandBack
  <2> QED BY <2>1, <2>2
<1>16. CASE InterruptUnshielded(r)
  BY <1>16 DEF InterruptUnshielded, stores
<1>17. CASE RecordFails(r)
  BY <1>17 DEF RecordFails, stores
<1>18. CASE InterruptPipeline(r)
  BY <1>18 DEF InterruptPipeline, stores
<1>19. CASE PriceFails(r)
  BY <1>19 DEF PriceFails, HandBack, stores
<1> QED
  BY <1>1, <1>2, <1>3, <1>4, <1>5, <1>6, <1>7, <1>8, <1>9, <1>10, <1>11, <1>12,
     <1>13, <1>14, <1>15, <1>16, <1>17, <1>18, <1>19 DEF Advance, Disturb

\* Every step keeps the open reservations owned.
LEMMA OwnerStep ==
    ASSUME TypeOK, Discipline, OpenHasOwner, [Next]_vars
    PROVE  OpenHasOwner'
<1> SUFFICES ASSUME NEW k \in Keys, NEW q \in Requests, q \in open'[k]
             PROVE  q \in doubt' \/ Owns(q, k)'
  <2>1. TypeOK'
    BY TypeStep
  <2> QED BY <2>1 DEF OpenHasOwner, TypeOK
<1>1. q \in open[k] => q \in doubt \/ Owns(q, k)
  BY DEF OpenHasOwner
<1>2. CASE \E r \in Requests : Advance(r) \/ Disturb(r)
  <2> PICK r \in Requests : Advance(r) \/ Disturb(r)
    BY <1>2
  <2>1. CASE q = r
    BY <1>1, <2>1, StepKeeps DEF Discipline
  <2>2. CASE q # r
    <3>1. q \in open[k] /\ Same(q)
      BY <2>2, OthersStayOpen, StepIsLocal
    <3> QED BY <1>1, <3>1, SameOwns DEF Same
  <2> QED BY <2>1, <2>2
<1>3. CASE \E g \in Gateways : Crash(g)
  <2> PICK g \in Gateways : Crash(g)
    BY <1>3
  <2>1. q \in open[k]
    BY DEF Crash, stores
  <2>2. CASE Same(q)
    BY <1>1, <2>1, <2>2, SameOwns DEF Same
  <2>3. CASE ~Same(q)
    BY <2>3, CrashEnds
  <2> QED BY <2>2, <2>3
<1>4. CASE \/ \E h \in Keys : Expire(h)
           \/ \E g \in Gateways : BreakerCloses(g)
           \/ Flush \/ NextPeriod \/ UNCHANGED vars
  <2>1. q \in open[k]
    BY <1>4 DEF Expire, BreakerCloses, Flush, NextPeriod, vars, stores
  <2>2. Same(q)
    BY <1>4, WorldIsElsewhere
  <2> QED BY <1>1, <2>1, <2>2, SameOwns DEF Same
<1> QED BY <1>2, <1>3, <1>4 DEF Next, Done

\* The discipline holds throughout.
LEMMA Disciplined == Spec => []Discipline
<1>1. TypeOK /\ Discipline /\ [Next]_vars => Discipline'
  BY DisciplineStep
<1> QED BY <1>1, DisciplineInit, TypeCorrect, PTL DEF Spec

\* A reservation kept beside a counter is settled or released by a step still
\* to come, unless one of the failures that set doubt reached its request:
\* budgets/service.py resolves what it reserves, whatever the requests, the
\* budgets and the interleaving.
THEOREM ReservationsAreOwned == Spec => []OpenHasOwner
<1>1. Init => OpenHasOwner
  BY DEF Init, OpenHasOwner
<1>2. TypeOK /\ Discipline /\ OpenHasOwner /\ [Next]_vars => OpenHasOwner'
  BY OwnerStep
<1> QED BY <1>1, <1>2, Disciplined, TypeCorrect, PTL DEF Spec
-----------------------------------------------------------------------------
(* The counters cover the reservations *)

\* After a request's own step what it owns is open.
LEMMA StepBacks ==
    ASSUME TypeOK, NEW r \in Requests, Orderly(r), Advance(r) \/ Disturb(r),
           NEW k \in Keys, Owns(r, k) => r \in open[k]
    PROVE  Owns(r, k)' => r \in open'[k]
<1> SUFFICES ASSUME Owns(r, k)' PROVE r \in open'[k]
  OBVIOUS
<1> USE DEF TypeOK, Orderly, Owns, BeforeGuard, InGuard, Handing
<1>1. CASE EarlyGate(r)
  BY <1>1 DEF EarlyGate, stores
<1>2. CASE BookSideCall(r)
  BY <1>2 DEF BookSideCall
<1>3. CASE Guard(r)
  BY <1>3 DEF Guard, stores
<1>4. CASE \E b \in Budgets : ReadSeed(r, b)
  BY <1>4 DEF ReadSeed, stores
<1>5. CASE Reserve(r)
  <2>1. CASE k[1] \in held[r]
    BY <1>5, <2>1, ReserveOpen DEF Reserve
  <2>2. CASE k[1] \notin held[r]
    <3>1. k[1] = seed[r].budget /\ k[2] = admitted[r]
      BY <1>5, <2>2 DEF Reserve
    <3>2. k = Key(r, seed[r].budget)
      BY <3>1 DEF Key, Keys
    <3> QED BY <1>5, <3>2, ReserveOpen DEF Reserve
  <2> QED BY <2>1, <2>2
<1>6. CASE Breach(r)
  <2>1. r \in open[k] /\ pc[r] # "done"
    BY <1>6 DEF Breach, HandBack
  <2> QED BY <1>6, <2>1, ReserveOpen DEF Breach
<1>7. CASE ReserveUnavailable(r)
  BY <1>7 DEF ReserveUnavailable
<1>8. CASE CheckOnly(r)
  BY <1>8 DEF CheckOnly, stores
<1>9. CASE Answer(r)
  BY <1>9 DEF Answer, stores
<1>10. CASE Fail(r)
  BY <1>10 DEF Fail, HandBack, stores
<1>11. CASE Record(r)
  BY <1>11 DEF Record, AfterLifted
<1>12. CASE \E b \in Budgets : AddStep(r, b)
  BY <1>12 DEF AddStep, Turn
<1>13. CASE \E b \in Budgets : AddLifted(r, b)
  <2> PICK b \in Budgets : AddLifted(r, b)
    BY <1>13
  <2>1. r \in open[k]
    BY DEF AddLifted, AfterLifted
  <2>2. CASE UNCHANGED <<counter, open>>
    BY <2>1, <2>2
  <2>3. CASE RunAdjust(Key(r, b), actual[r], {})
    <3> HIDE DEF TypeOK, Orderly, Owns
    <3>1. Key(r, b) \in Keys
      BY KeyTypes
    <3> QED BY <2>1, <2>3, <3>1, AdjustOpen
  <2> QED BY <2>2, <2>3 DEF AddLifted
<1>14. CASE \E b \in Budgets : Move(r, b)
  <2> PICK b \in Budgets : Move(r, b)
    BY <1>14
  <2>1. r \in open[k] /\ k # Key(r, b)
    BY DEF Move, Turn, Key
  <2>2. CASE UNCHANGED <<counter, open>>
    BY <2>1, <2>2
  <2>3. CASE RunAdjust(Key(r, b), Correction(r), {r})
    <3> HIDE DEF TypeOK, Orderly, Owns
    <3>1. Key(r, b) \in Keys
      BY KeyTypes
    <3> QED BY <2>1, <2>3, <3>1, AdjustOpen
  <2> QED BY <2>2, <2>3 DEF Move
<1>15. CASE Interrupt(r)
  <2>1. r \in open[k] /\ pc[r] # "done"
    BY <1>15 DEF Interrupt, HandBack
  <2> QED BY <1>15, <2>1, ReserveOpen DEF Interrupt
<1>16. CASE InterruptUnshielded(r)
  BY <1>16 DEF InterruptUnshielded, stores
<1>17. CASE RecordFails(r)
  BY <1>17 DEF RecordFails, stores
<1>18. CASE InterruptPipeline(r)
  BY <1>18 DEF InterruptPipeline, stores
<1>19. CASE PriceFails(r)
  BY <1>19 DEF PriceFails, HandBack, stores
<1> QED
  BY <1>1, <1>2, <1>3, <1>4, <1>5, <1>6, <1>7, <1>8, <1>9, <1>10, <1>11, <1>12,
     <1>13, <1>14, <1>15, <1>16, <1>17, <1>18, <1>19 DEF Advance, Disturb

\* Only a flush sets flushed.
LEMMA FlushedStays ==
    ASSUME [Next]_vars, ~flushed'
    PROVE  ~flushed /\ ~Flush
<1>1. ~Flush
  BY DEF Flush
<1>2. ASSUME NEW r \in Requests, Advance(r) PROVE UNCHANGED flushed
  <2>1. CASE EarlyGate(r) \/ BookSideCall(r) \/ Guard(r)
    BY <2>1 DEF EarlyGate, BookSideCall, Guard, faults
  <2>2. CASE \E b \in Budgets : ReadSeed(r, b)
    BY <2>2 DEF ReadSeed, faults
  <2>3. CASE Reserve(r) \/ Breach(r) \/ ReserveUnavailable(r) \/ CheckOnly(r)
    BY <2>3 DEF Reserve, Breach, ReserveUnavailable, CheckOnly, faults
  <2>4. CASE Answer(r) \/ Fail(r) \/ Record(r)
    BY <2>4 DEF Answer, Fail, Record, faults
  <2>5. CASE \E b \in Budgets : AddStep(r, b) \/ AddLifted(r, b) \/ Move(r, b)
    BY <2>5 DEF AddStep, AddLifted, Move, Turn
  <2> QED BY <1>2, <2>1, <2>2, <2>3, <2>4, <2>5 DEF Advance
<1>3. ASSUME NEW r \in Requests, Disturb(r) PROVE UNCHANGED flushed
  BY <1>3 DEF Disturb, Interrupt, InterruptUnshielded, InterruptPipeline, RecordFails,
     PriceFails
<1>4. CASE \/ \E k \in Keys : Expire(k)
           \/ \E g \in Gateways : BreakerCloses(g) \/ Crash(g)
           \/ NextPeriod \/ UNCHANGED vars
  <2>1. UNCHANGED flushed
    BY <1>4 DEF Expire, BreakerCloses, Crash, NextPeriod, vars, faults
  <2> QED BY <1>1, <2>1
<1> QED BY <1>1, <1>2, <1>3, <1>4 DEF Next, Done

\* Every step keeps what the requests own open.
LEMMA BackedStep ==
    ASSUME TypeOK, Discipline, OwnedIsOpen, [Next]_vars
    PROVE  OwnedIsOpen'
<1> SUFFICES ASSUME ~flushed', NEW k \in Keys, NEW q \in Requests, Owns(q, k)'
             PROVE  q \in open'[k]
  BY DEF OwnedIsOpen
<1>1. Owns(q, k) => q \in open[k]
  BY FlushedStays DEF OwnedIsOpen
<1>2. CASE \E r \in Requests : Advance(r) \/ Disturb(r)
  <2> PICK r \in Requests : Advance(r) \/ Disturb(r)
    BY <1>2
  <2>1. CASE q = r
    BY <1>1, <2>1, StepBacks DEF Discipline
  <2>2. CASE q # r
    <3>1. Owns(q, k)
      BY <2>2, StepIsLocal, SameOwns
    <3>2. pc[q] # "done"
      BY <3>1 DEF Owns, Handing
    <3> QED BY <1>1, <2>2, <3>1, <3>2, OthersStayOpen
  <2> QED BY <2>1, <2>2
<1>3. CASE \E g \in Gateways : Crash(g)
  <2> PICK g \in Gateways : Crash(g)
    BY <1>3
  <2>1. CASE Same(q)
    BY <1>1, <2>1, SameOwns DEF Crash, stores
  <2>2. CASE ~Same(q)
    BY <2>2, CrashEnds DEF Owns, Handing
  <2> QED BY <2>1, <2>2
<1>4. CASE \/ \E h \in Keys : Expire(h)
           \/ \E g \in Gateways : BreakerCloses(g)
           \/ NextPeriod \/ UNCHANGED vars
  <2>1. UNCHANGED open
    BY <1>4 DEF Expire, BreakerCloses, NextPeriod, vars, stores
  <2>2. Same(q)
    BY <1>4, WorldIsElsewhere
  <2> QED BY <1>1, <2>1, <2>2, SameOwns
<1> QED BY <1>2, <1>3, <1>4, FlushedStays DEF Next, Done

\* CounterCoversOpen, for one key.
Covers(k) ==
    counter[k] # None => \A d \in Dims : counter[k][d] >= Total(open[k], Estimate)[d]

\* The reserve script adds to the counter what it enters, and rebuilds it with
\* what is open.
LEMMA ReserveCovers ==
    ASSUME TypeOK, NEW r \in Requests, seed[r] # None, NEW taken \in BOOLEAN,
           RunReserve(r, taken), r \notin open[Key(r, seed[r].budget)],
           NEW k \in Keys, Covers(k)
    PROVE  Covers(k)'
<1> DEFINE b == seed[r].budget
           h == Key(r, b)
<1>1. b \in Budgets /\ seed[r].figure \in Amounts
  BY DEF TypeOK
<1>2. h \in Keys
  BY <1>1, KeyTypes
<1>3. PICK dead \in SUBSET Lapsed(h) :
        LET carried == open[h] \ dead
            base == IF counter[h] = None THEN Rebuilt(seed[r].figure, carried) ELSE counter[h]
        IN  /\ counter' = [counter EXCEPT
                  ![h] = IF taken THEN Plus(base, Estimate[r]) ELSE base]
            /\ open' = [open EXCEPT ![h] = IF taken THEN carried \cup {r} ELSE carried]
  BY DEF RunReserve
<1> DEFINE carried == open[h] \ dead
           base == IF counter[h] = None THEN Rebuilt(seed[r].figure, carried) ELSE counter[h]
<1>4. open \in [Keys -> SUBSET Requests] /\ counter \in [Keys -> Amounts \cup {None}]
  BY DEF TypeOK
<1>5. /\ carried \in SUBSET Requests /\ carried \in SUBSET open[h] /\ r \notin carried
      /\ Estimate[r] \in Amounts /\ Estimate \in [Requests -> Amounts]
  BY <1>2, <1>4, AmountsAssumption
<1>6. Total(carried, Estimate) \in Amounts
  BY <1>5, TotalType
<1>7. CASE k # h
  <2>1. counter'[k] = counter[k] /\ open'[k] = open[k]
    BY <1>2, <1>3, <1>4, <1>7
  <2> QED BY <2>1 DEF Covers
<1>8. CASE k = h
  <2>1. base \in Amounts /\ \A d \in Dims : base[d] >= Total(carried, Estimate)[d]
    <3>1. CASE counter[h] = None
      <4>1. base = Plus(seed[r].figure, Total(carried, Estimate))
        BY <3>1 DEF Rebuilt
      <4>2. \A x, y \in Amounts : \A d \in Dims : Plus(x, y)[d] >= y[d]
        BY DEF Plus, Amounts
      <4> HIDE DEF base, carried
      <4> QED BY <1>1, <1>6, <4>1, <4>2, AmountTypes
    <3>2. CASE counter[h] # None
      <4>1. base = counter[h] /\ base \in Amounts
        BY <1>2, <1>4, <3>2
      <4>2. open[h] \in SUBSET Requests
        BY <1>2, <1>4
      <4>3. ASSUME NEW d \in Dims
            PROVE  base[d] >= Total(carried, Estimate)[d]
        <5>1. Total(carried, Estimate)[d] <= Total(open[h], Estimate)[d]
          BY <1>5, <4>2, TotalMonotone
        <5>2. base[d] >= Total(open[h], Estimate)[d]
          BY <1>8, <3>2, <4>1 DEF Covers
        <5>3. /\ base[d] \in Nat /\ Total(open[h], Estimate)[d] \in Nat
              /\ Total(carried, Estimate)[d] \in Nat
          BY <1>5, <1>6, <4>1, <4>2, TotalType DEF Amounts
        <5> HIDE DEF base, carried
        <5> QED BY <5>1, <5>2, <5>3
      <4> QED BY <4>1, <4>3
    <3> QED BY <3>1, <3>2
  <2> HIDE DEF h, carried, base
  <2>2. /\ counter'[h] = IF taken THEN Plus(base, Estimate[r]) ELSE base
        /\ open'[h] = IF taken THEN carried \cup {r} ELSE carried
    BY <1>2, <1>3, <1>4 DEF h, carried, base
  <2>3. CASE taken
    <3>1. Total(open'[h], Estimate) = Plus(Total(carried, Estimate), Estimate[r])
      BY <1>5, <2>2, <2>3, TotalAdd
    <3>2. \A d \in Dims : Plus(base, Estimate[r])[d]
                            >= Plus(Total(carried, Estimate), Estimate[r])[d]
      BY <1>5, <1>6, <2>1 DEF Plus, Amounts
    <3> QED BY <1>8, <2>2, <2>3, <3>1, <3>2 DEF Covers
  <2>4. CASE ~taken
    BY <1>8, <2>1, <2>2, <2>4 DEF Covers
  <2> QED BY <2>3, <2>4
<1> QED BY <1>7, <1>8

\* So does the adjust script, when it takes out no more than the estimate of
\* the reservation it closes.
LEMMA AdjustCovers ==
    ASSUME TypeOK, NEW h \in Keys, NEW amounts \in [Dims -> Int], NEW closing,
           RunAdjust(h, amounts, closing),
           \A d \in Dims : Total(open[h] \ closing, Estimate)[d]
                             <= Total(open[h], Estimate)[d] + amounts[d],
           NEW k \in Keys, Covers(k)
    PROVE  Covers(k)'
<1>1. open \in [Keys -> SUBSET Requests] /\ counter \in [Keys -> Amounts \cup {None}]
  BY DEF TypeOK
<1>2. CASE k # h
  BY <1>1, <1>2 DEF RunAdjust, Covers
<1>3. CASE k = h /\ counter[h] = None
  BY <1>1, <1>3 DEF RunAdjust, Covers
<1>4. CASE k = h /\ counter[h] # None
  <2>1. counter'[h] = Clamped(Plus(counter[h], amounts)) /\ open'[h] = open[h] \ closing
    BY <1>1, <1>4 DEF RunAdjust
  <2>2. ASSUME NEW d \in Dims
        PROVE  Clamped(Plus(counter[h], amounts))[d] >= Total(open[h] \ closing, Estimate)[d]
    <3>1. Total(open[h], Estimate)[d] \in Nat /\ Total(open[h] \ closing, Estimate)[d] \in Nat
      BY <1>1, TotalType, AmountsAssumption DEF Amounts
    <3>2. counter[h][d] \in Nat /\ amounts[d] \in Int
      BY <1>1, <1>4 DEF Amounts
    <3>3. counter[h][d] >= Total(open[h], Estimate)[d]
      BY <1>4 DEF Covers
    <3>4. Clamped(Plus(counter[h], amounts))[d] >= counter[h][d] + amounts[d]
      BY <3>2 DEF Clamped, Plus
    <3>5. Clamped(Plus(counter[h], amounts))[d] \in Int
      BY <3>2 DEF Clamped, Plus
    <3> QED BY <3>1, <3>2, <3>3, <3>4, <3>5
  <2> QED BY <1>4, <2>1, <2>2 DEF Covers
<1> QED BY <1>2, <1>3, <1>4

\* A request that is reserving has no reservation open on the budget whose
\* seed it read.
LEMMA NotYetOpen ==
    ASSUME TypeOK, NEW r \in Requests, Orderly(r), OpenHasOwner,
           pc[r] = "reserving", seed[r] # None
    PROVE  r \notin open[Key(r, seed[r].budget)]
<1> DEFINE h == Key(r, seed[r].budget)
<1>1. seed[r].budget \in Budgets
  BY DEF TypeOK
<1>2. h \in Keys
  BY <1>1, KeyTypes
<1>3. seed[r].budget \notin held[r] /\ r \notin doubt
  BY DEF Orderly
<1>4. h[1] = seed[r].budget
  BY DEF Key
<1>5. ~Owns(r, h)
  BY <1>3, <1>4 DEF Owns
<1> QED BY <1>2, <1>3, <1>5 DEF OpenHasOwner

\* An amount that is added takes nothing away.
LEMMA NothingClosed ==
    ASSUME NEW S \in SUBSET Requests, NEW amounts \in Amounts, NEW d \in Dims
    PROVE  Total(S \ {}, Estimate)[d] <= Total(S, Estimate)[d] + amounts[d]
<1>1. S \ {} = S
  OBVIOUS
<1>2. Total(S, Estimate)[d] \in Nat /\ amounts[d] \in Nat
  BY TotalType, AmountsAssumption DEF Amounts
<1> QED BY <1>1, <1>2

\* The correction takes out at most the estimate of the request that closes.
LEMMA OneClosed ==
    ASSUME TypeOK, NEW S \in SUBSET Requests, NEW r \in S, NEW d \in Dims
    PROVE  Total(S \ {r}, Estimate)[d] <= Total(S, Estimate)[d] + Correction(r)[d]
<1>1. Estimate \in [Requests -> Amounts] /\ actual[r] \in Amounts
  BY AmountsAssumption DEF TypeOK
<1>2. Total(S, Estimate) = Plus(Total(S \ {r}, Estimate), Estimate[r])
  BY <1>1, TotalRemove
<1>3. Total(S \ {r}, Estimate) \in Amounts
  BY <1>1, TotalType
<1>4. Estimate[r][d] \in Nat /\ actual[r][d] \in Nat /\ Total(S \ {r}, Estimate)[d] \in Nat
  BY <1>1, <1>3 DEF Amounts
<1>5. Total(S, Estimate)[d] = Total(S \ {r}, Estimate)[d] + Estimate[r][d]
  BY <1>2 DEF Plus
<1>6. Correction(r)[d] = actual[r][d] - Estimate[r][d] \/ Correction(r)[d] = 0 - Estimate[r][d]
  BY DEF Correction, Minus, Zero
<1> QED BY <1>4, <1>5, <1>6

\* A request's own step keeps every counter at its open reservations or above.
LEMMA StepCovers ==
    ASSUME TypeOK, Discipline, OpenHasOwner, OwnedIsOpen, ~flushed,
           NEW r \in Requests, Advance(r) \/ Disturb(r), NEW k \in Keys, Covers(k)
    PROVE  Covers(k)'
<1>1. CASE UNCHANGED <<counter, open>>
  BY <1>1 DEF Covers
<1>2. CASE pc[r] = "reserving" /\ seed[r] # None /\ \E taken \in BOOLEAN : RunReserve(r, taken)
  <2>1. Orderly(r)
    BY DEF Discipline
  <2> QED BY <1>2, <2>1, NotYetOpen, ReserveCovers
<1>3. ASSUME NEW b \in Budgets, AddStep(r, b) PROVE Covers(k)'
  <2>1. CASE RunAdjust(StepKey(r, b), StepAmount, {})
    <3> DEFINE h == StepKey(r, b)
    <3>1. CASE h \in Keys
      <4>1. open[h] \in SUBSET Requests /\ StepAmount \in Amounts /\ StepAmount \in [Dims -> Int]
        BY <3>1, AmountsAssumption, CorrectionType DEF TypeOK
      <4> HIDE DEF h
      <4>2. RunAdjust(h, StepAmount, {})
        BY <2>1 DEF h
      <4> QED BY <3>1, <4>1, <4>2, NothingClosed, AdjustCovers
    <3>2. CASE h \notin Keys
      <4>1. UNCHANGED <<counter, open>>
        BY <2>1, <3>2 DEF RunAdjust, TypeOK
      <4> QED BY <1>1, <4>1
    <3> QED BY <3>1, <3>2
  <2> QED BY <1>1, <1>3, <2>1 DEF AddStep
<1>4. ASSUME NEW b \in Budgets, AddLifted(r, b) PROVE Covers(k)'
  <2>1. CASE RunAdjust(Key(r, b), actual[r], {})
    <3> DEFINE h == Key(r, b)
    <3>1. h \in Keys
      BY KeyTypes
    <3>2. open[h] \in SUBSET Requests /\ actual[r] \in Amounts /\ actual[r] \in [Dims -> Int]
      BY <3>1, CorrectionType DEF TypeOK
    <3> HIDE DEF h
    <3>3. RunAdjust(h, actual[r], {})
      BY <2>1 DEF h
    <3> QED BY <3>1, <3>2, <3>3, NothingClosed, AdjustCovers
  <2> QED BY <1>1, <1>4, <2>1 DEF AddLifted
<1>5. ASSUME NEW b \in Budgets, Move(r, b) PROVE Covers(k)'
  <2>1. CASE RunAdjust(Key(r, b), Correction(r), {r})
    <3> DEFINE h == Key(r, b)
    <3>1. h \in Keys /\ h[1] = b /\ h[2] = admitted[r]
      BY KeyTypes DEF Key
    <3>2. open[h] \in SUBSET Requests /\ Correction(r) \in [Dims -> Int]
      BY <3>1, CorrectionType DEF TypeOK
    <3> HIDE DEF h
    <3>3. r \in open[h]
      <4>1. b \in moving[r] /\ b \in held[r] /\ pc[r] \in {"settling"} \cup Handing
        BY <1>5 DEF Move, Turn, Discipline, Orderly
      <4>2. Owns(r, h)
        BY <3>1, <4>1 DEF Owns
      <4> QED BY <3>1, <4>2 DEF OwnedIsOpen
    <3>4. RunAdjust(h, Correction(r), {r})
      BY <2>1 DEF h
    <3>5. \A d \in Dims : Total(open[h] \ {r}, Estimate)[d]
                            <= Total(open[h], Estimate)[d] + Correction(r)[d]
      BY <3>2, <3>3, OneClosed
    <3> QED BY <3>1, <3>2, <3>4, <3>5, AdjustCovers
  <2> QED BY <1>1, <1>5, <2>1 DEF Move
<1>6. CASE Reserve(r) \/ Breach(r) \/ ReserveUnavailable(r)
  BY <1>1, <1>2, <1>6 DEF Reserve, Breach, ReserveUnavailable
<1>7. CASE Interrupt(r)
  BY <1>1, <1>2, <1>7 DEF Interrupt
<1>8. CASE \/ EarlyGate(r) \/ BookSideCall(r) \/ Guard(r) \/ CheckOnly(r)
           \/ Answer(r) \/ Fail(r) \/ Record(r)
           \/ InterruptUnshielded(r) \/ InterruptPipeline(r) \/ RecordFails(r) \/ PriceFails(r)
           \/ \E b \in Budgets : ReadSeed(r, b)
  BY <1>1, <1>8 DEF EarlyGate, BookSideCall, Guard, CheckOnly, Answer, Fail, Record,
     InterruptUnshielded, InterruptPipeline, RecordFails, PriceFails, ReadSeed, stores
<1> QED BY <1>3, <1>4, <1>5, <1>6, <1>7, <1>8 DEF Advance, Disturb

\* Every step does.
LEMMA CoverStep ==
    ASSUME TypeOK, Discipline, OpenHasOwner, OwnedIsOpen, CounterCoversOpen, [Next]_vars
    PROVE  CounterCoversOpen'
<1> SUFFICES ASSUME ~flushed', NEW k \in Keys PROVE Covers(k)'
  BY DEF CounterCoversOpen, Covers
<1>1. ~flushed /\ ~Flush
  BY FlushedStays
<1>2. Covers(k)
  BY <1>1 DEF CounterCoversOpen, Covers
<1>3. CASE \E r \in Requests : Advance(r) \/ Disturb(r)
  BY <1>1, <1>2, <1>3, StepCovers
<1>4. CASE \E h \in Keys : Expire(h)
  BY <1>2, <1>4 DEF Expire, Covers, TypeOK
<1>5. CASE \/ \E g \in Gateways : BreakerCloses(g) \/ Crash(g)
           \/ NextPeriod \/ UNCHANGED vars
  BY <1>2, <1>5 DEF BreakerCloses, Crash, NextPeriod, vars, stores, Covers
<1> QED BY <1>1, <1>3, <1>4, <1>5 DEF Next, Done

\* What a request is going to settle or release is open beside its counter.
LEMMA ReservationsAreOpen == Spec => []OwnedIsOpen
<1>1. Init => OwnedIsOpen
  BY DEF Init, OwnedIsOpen, Owns
<1>2. TypeOK /\ Discipline /\ OwnedIsOpen /\ [Next]_vars => OwnedIsOpen'
  BY BackedStep
<1> QED BY <1>1, <1>2, Disciplined, TypeCorrect, PTL DEF Spec

\* However many requests, budgets and periods there are and however expiry,
\* rebuild, settlement and outage interleave, a counter of budgets/ledger.py
\* never holds less than the reservations open beside it, unless Redis lost
\* its data: the clamp of _ADJUST never hides a figure.
THEOREM CountersCoverReservations == Spec => []CounterCoversOpen
<1>1. Init => CounterCoversOpen
  <2> SUFFICES ASSUME Init, NEW k \in Keys, counter[k] # None, NEW d \in Dims
               PROVE  counter[k][d] >= Total(open[k], Estimate)[d]
    BY DEF CounterCoversOpen
  <2>1. counter[k][d] = 0
    BY DEF Init, Zero
  <2>2. Units({}, Estimate, d) = {}
    BY DEF Units
  <2>3. Total(open[k], Estimate)[d] = Cardinality({})
    BY <2>2 DEF Init, Total, Units
  <2> QED BY <2>1, <2>3, FS_EmptySet
<1>2. TypeOK /\ Discipline /\ OpenHasOwner /\ OwnedIsOpen /\ CounterCoversOpen /\ [Next]_vars
        => CounterCoversOpen'
  BY CoverStep
<1> QED BY <1>1, <1>2, ReservationsAreOpen, ReservationsAreOwned, Disciplined, TypeCorrect,
        PTL DEF Spec
-----------------------------------------------------------------------------
(* What is booked *)

\* A request's bookings stay what they are: it is settled as before, and what
\* it booked, where, and its pipeline call have not changed.
Untouched(q) ==
    /\ q \in Settled' <=> q \in Settled
    /\ q \in Settled => actual'[q] = actual[q] /\ admitted'[q] = admitted[q]
    /\ stepAt'[q] = stepAt[q]

\* Nobody else's step touches them.
LEMMA SameUntouched ==
    ASSUME NEW q \in Requests, Same(q)
    PROVE  Untouched(q)
  BY DEF Same, Untouched, Settled

\* Of its own steps only Record and BookSideCall do, which alone write usage.
LEMMA StepUntouched ==
    ASSUME TypeOK, NEW r \in Requests, Orderly(r), Advance(r) \/ Disturb(r),
           ~Record(r), ~BookSideCall(r)
    PROVE  Untouched(r) /\ UNCHANGED usage
<1> USE DEF TypeOK, Untouched, Settled, Orderly, BeforeGuard, BeforeAnswer, InGuard, Handing
<1>1. CASE EarlyGate(r)
  BY <1>1 DEF EarlyGate, stores, outcome
<1>2. CASE Guard(r)
  BY <1>2 DEF Guard, stores, outcome
<1>3. CASE \E b \in Budgets : ReadSeed(r, b)
  BY <1>3 DEF ReadSeed, stores, outcome
<1>4. CASE Reserve(r)
  BY <1>4 DEF Reserve, outcome
<1>5. CASE Breach(r)
  BY <1>5 DEF Breach, HandBack, outcome
<1>6. CASE ReserveUnavailable(r)
  BY <1>6 DEF ReserveUnavailable, outcome
<1>7. CASE CheckOnly(r)
  BY <1>7 DEF CheckOnly, stores, outcome
<1>8. CASE Answer(r)
  BY <1>8 DEF Answer, stores
<1>9. CASE Fail(r)
  BY <1>9 DEF Fail, HandBack, stores, outcome
<1>10. CASE \E b \in Budgets : AddStep(r, b)
  BY <1>10 DEF AddStep, Turn, outcome
<1>11. CASE \E b \in Budgets : AddLifted(r, b)
  BY <1>11 DEF AddLifted, AfterLifted, outcome
<1>12. CASE \E b \in Budgets : Move(r, b)
  BY <1>12 DEF Move, Turn, outcome
<1>13. CASE Interrupt(r)
  BY <1>13 DEF Interrupt, HandBack, outcome
<1>14. CASE InterruptUnshielded(r)
  BY <1>14 DEF InterruptUnshielded, stores, outcome
<1>15. CASE RecordFails(r)
  BY <1>15 DEF RecordFails, stores
<1>16. CASE InterruptPipeline(r)
  BY <1>16 DEF InterruptPipeline, stores, outcome
<1>17. CASE PriceFails(r)
  BY <1>17 DEF PriceFails, HandBack, stores
<1> QED
  BY <1>1, <1>2, <1>3, <1>4, <1>5, <1>6, <1>7, <1>8, <1>9, <1>10, <1>11, <1>12,
     <1>13, <1>14, <1>15, <1>16, <1>17 DEF Advance, Disturb

\* The right-hand side of BookedOnce.
Booked(k) == Plus(Total(BookedOn(Settled, k), actual), Total(SteppedOn(k), Steps))

\* The sets Booked sums over are sets of requests with amounts.
LEMMA BookedTypes ==
    ASSUME TypeOK, NEW k \in Keys
    PROVE  /\ BookedOn(Settled, k) \in SUBSET Requests
           /\ SteppedOn(k) \in SUBSET Requests
           /\ actual \in [Requests -> Amounts]
           /\ Steps \in [Requests -> Amounts]
           /\ Total(BookedOn(Settled, k), actual) \in Amounts
           /\ Total(SteppedOn(k), Steps) \in Amounts
<1>1. BookedOn(Settled, k) \in SUBSET Requests /\ SteppedOn(k) \in SUBSET Requests
  BY DEF TypeOK, BookedOn, Settled, SteppedOn
<1>2. actual \in [Requests -> Amounts] /\ Steps \in [Requests -> Amounts]
  BY AmountsAssumption DEF TypeOK, Steps
<1> QED BY <1>1, <1>2, TotalType

\* Bookings nobody touches keep their totals.
LEMMA UntouchedBooked ==
    ASSUME TypeOK, TypeOK', \A q \in Requests : Untouched(q), NEW k \in Keys
    PROVE  Booked(k)' = Booked(k)
<1>1. Settled \subseteq Requests /\ Settled' \subseteq Requests
  BY DEF TypeOK, Settled
<1>2. BookedOn(Settled, k)' = BookedOn(Settled, k)
  BY <1>1 DEF BookedOn, Untouched
<1>3. SteppedOn(k)' = SteppedOn(k)
  BY DEF SteppedOn, Untouched
<1>4. Total(BookedOn(Settled, k), actual') = Total(BookedOn(Settled, k), actual)
  <2>1. \A q \in BookedOn(Settled, k) : actual'[q] = actual[q]
    BY <1>1 DEF BookedOn, Untouched
  <2>2. actual' \in [Requests -> Amounts]
    BY DEF TypeOK
  <2> QED BY <2>1, <2>2, BookedTypes, TotalSame
<1> QED BY <1>2, <1>3, <1>4 DEF Booked, Steps

\* Sums of amounts.
LEMMA PlusMoves ==
    ASSUME NEW x \in Amounts, NEW y \in Amounts, NEW z \in Amounts
    PROVE  /\ Plus(Plus(x, z), y) = Plus(Plus(x, y), z)
           /\ Plus(x, Plus(y, z)) = Plus(Plus(x, y), z)
  BY DEF Plus, Amounts

\* Record books the request under the keys it writes, and nowhere else.
LEMMA RecordBooks ==
    ASSUME TypeOK, TypeOK', Discipline, BookedOnce, NEW r \in Requests, Record(r),
           NEW k \in Keys
    PROVE  usage'[k] = Booked(k)'
<1> DEFINE B == BookedOn(Settled, k)
<1>1. Settled' = Settled \cup {r} /\ r \notin Settled
  <2>1. \A q \in Requests \ {r} : q \in Settled' <=> q \in Settled
    BY StepIsLocal DEF Same, Settled, Advance
  <2>2. r \in Settled' /\ r \notin Settled
    BY DEF Record, Settled, TypeOK, AfterLifted, Discipline, Orderly, outcome
  <2>3. Settled \subseteq Requests /\ Settled' \subseteq Requests
    BY DEF TypeOK, Settled
  <2> QED BY <2>1, <2>2, <2>3
<1>2. admitted' = admitted /\ actual' = actual /\ stepAt' = stepAt
  BY DEF Record
<1>3. SteppedOn(k)' = SteppedOn(k) /\ Steps' = Steps
  BY <1>2 DEF SteppedOn, Steps
<1>4. usage[k] = Plus(Total(B, actual), Total(SteppedOn(k), Steps))
  BY DEF BookedOnce
<1>5. k \in BookingKeys(r) <=> k[1] \in Binding[r] /\ k[2] = admitted[r]
  BY DEF BookingKeys
<1>6. CASE k \in BookingKeys(r)
  <2>1. BookedOn(Settled, k)' = B \cup {r} /\ r \notin B
    BY <1>1, <1>2, <1>5, <1>6 DEF BookedOn
  <2>2. usage'[k] = Plus(usage[k], actual[r])
    BY <1>6 DEF Record
  <2>3. Total(B \cup {r}, actual) = Plus(Total(B, actual), actual[r])
    BY <2>1, BookedTypes, TotalAdd
  <2>4. actual[r] \in Amounts
    BY DEF TypeOK
  <2>5. Booked(k)' = Plus(Total(B \cup {r}, actual), Total(SteppedOn(k), Steps))
    BY <1>2, <1>3, <2>1 DEF Booked
  <2> HIDE DEF B
  <2>6. Plus(Plus(Total(B, actual), actual[r]), Total(SteppedOn(k), Steps))
          = Plus(Plus(Total(B, actual), Total(SteppedOn(k), Steps)), actual[r])
    BY <2>4, BookedTypes, PlusMoves DEF B
  <2> QED BY <1>4, <2>2, <2>3, <2>5, <2>6
<1>7. CASE k \notin BookingKeys(r)
  <2>1. BookedOn(Settled, k)' = B
    BY <1>1, <1>2, <1>5, <1>7 DEF BookedOn
  <2>2. usage'[k] = usage[k]
    BY <1>7 DEF Record
  <2> QED BY <1>2, <1>3, <1>4, <2>1, <2>2 DEF Booked
<1> QED BY <1>6, <1>7

\* BookSideCall books the pipeline's call, once.
LEMMA SideCallBooks ==
    ASSUME TypeOK, TypeOK', Discipline, BookedOnce, NEW r \in Requests, BookSideCall(r),
           NEW k \in Keys
    PROVE  usage'[k] = Booked(k)'
<1> DEFINE P == SteppedOn(k)
           here == k[1] \in Binding[r] /\ k[2] = period
<1>1. /\ admitted' = admitted /\ actual' = actual
      /\ stepAt[r] = 0 /\ stepAt' = [stepAt EXCEPT ![r] = period]
  BY DEF BookSideCall
<1>2. Settled' = Settled
  BY DEF BookSideCall, Settled, outcome, TypeOK
<1>3. Total(BookedOn(Settled, k), actual)' = Total(BookedOn(Settled, k), actual)
  BY <1>1, <1>2 DEF BookedOn
<1>4. k[2] # 0
  BY BoundsAssumption DEF Keys
<1>5. usage[k] = Plus(Total(BookedOn(Settled, k), actual), Total(P, Steps))
  BY DEF BookedOnce
<1>6. CASE here
  <2>1. SteppedOn(k)' = P \cup {r} /\ r \notin P
    BY <1>1, <1>4, <1>6 DEF SteppedOn, TypeOK
  <2>2. usage'[k] = Plus(usage[k], StepAmount)
    BY <1>6 DEF BookSideCall
  <2>3. Total(P \cup {r}, Steps) = Plus(Total(P, Steps), Steps[r])
    BY <2>1, BookedTypes, TotalAdd
  <2>4. Steps[r] = StepAmount /\ Steps' = Steps /\ StepAmount \in Amounts
    BY AmountsAssumption DEF Steps
  <2>5. Booked(k)' = Plus(Total(BookedOn(Settled, k), actual), Total(P \cup {r}, Steps))
    BY <1>3, <2>1, <2>4 DEF Booked
  <2>6. Plus(Total(BookedOn(Settled, k), actual), Plus(Total(P, Steps), StepAmount))
          = Plus(Plus(Total(BookedOn(Settled, k), actual), Total(P, Steps)), StepAmount)
    BY <2>4, BookedTypes, PlusMoves
  <2> HIDE DEF P
  <2> QED BY <1>5, <2>2, <2>3, <2>4, <2>5, <2>6
<1>7. CASE ~here
  <2>1. SteppedOn(k)' = P
    BY <1>1, <1>4, <1>7 DEF SteppedOn, TypeOK
  <2>2. usage'[k] = usage[k]
    BY <1>7 DEF BookSideCall
  <2>3. Steps' = Steps
    BY DEF Steps
  <2> QED BY <1>3, <1>5, <2>1, <2>2, <2>3 DEF Booked
<1> QED BY <1>6, <1>7

\* Every step keeps Postgres the record.
LEMMA BookedStep ==
    ASSUME TypeOK, TypeOK', Discipline, BookedOnce, [Next]_vars
    PROVE  BookedOnce'
<1> SUFFICES ASSUME NEW k \in Keys PROVE usage'[k] = Booked(k)'
  BY DEF BookedOnce, Booked
<1>1. usage[k] = Booked(k)
  BY DEF BookedOnce, Booked
<1>2. CASE UNCHANGED usage /\ \A q \in Requests : Untouched(q)
  BY <1>1, <1>2, UntouchedBooked
<1>3. ASSUME NEW r \in Requests, Advance(r) \/ Disturb(r)
      PROVE  usage'[k] = Booked(k)'
  <2>1. CASE Record(r)
    BY <2>1, RecordBooks
  <2>2. CASE BookSideCall(r)
    BY <2>2, SideCallBooks
  <2>3. CASE ~Record(r) /\ ~BookSideCall(r)
    <3>1. Untouched(r) /\ UNCHANGED usage
      BY <1>3, <2>3, StepUntouched DEF Discipline
    <3>2. \A q \in Requests \ {r} : Untouched(q)
      BY <1>3, StepIsLocal, SameUntouched
    <3> QED BY <1>2, <3>1, <3>2
  <2> QED BY <2>1, <2>2, <2>3
<1>4. CASE \E g \in Gateways : Crash(g)
  <2>1. UNCHANGED usage
    BY <1>4 DEF Crash, stores
  <2>2. ASSUME NEW q \in Requests PROVE Untouched(q)
    <3>1. CASE Same(q)
      BY <3>1, SameUntouched
    <3>2. CASE ~Same(q)
      BY <1>4, <3>2, CrashEnds DEF Untouched, Settled
    <3> QED BY <3>1, <3>2
  <2> QED BY <1>2, <2>1, <2>2
<1>5. CASE \/ \E h \in Keys : Expire(h)
           \/ \E g \in Gateways : BreakerCloses(g)
           \/ Flush \/ NextPeriod \/ UNCHANGED vars
  <2>1. UNCHANGED usage
    BY <1>5 DEF Expire, BreakerCloses, Flush, NextPeriod, vars, stores
  <2>2. \A q \in Requests : Untouched(q)
    BY <1>5, WorldIsElsewhere, SameUntouched
  <2> QED BY <1>2, <2>1, <2>2
<1> QED BY <1>3, <1>4, <1>5 DEF Next, Done

\* Postgres is the record of budgets/service.py: for any number of requests,
\* budgets and periods, budget_usage is exactly what the answered requests and
\* the pipeline calls cost, each once and under its own period.
THEOREM PostgresIsTheRecord == Spec => []BookedOnce
<1>1. Init => BookedOnce
  <2> SUFFICES ASSUME Init, NEW k \in Keys PROVE usage[k] = Booked(k)
    BY DEF BookedOnce, Booked
  <2>1. BookedOn(Settled, k) = {}
    BY DEF Init, BookedOn, Settled
  <2>2. SteppedOn(k) = {}
    BY BoundsAssumption DEF Init, SteppedOn, Keys
  <2>3. ASSUME NEW amt PROVE Total({}, amt) = Zero
    <3>1. ASSUME NEW d \in Dims PROVE Cardinality(Units({}, amt, d)) = 0
      <4>1. Units({}, amt, d) = {}
        BY DEF Units
      <4> QED BY <4>1, FS_EmptySet
    <3> QED BY <3>1 DEF Total, Units, Zero
  <2>4. Plus(Zero, Zero) = Zero
    BY DEF Plus, Zero
  <2>5. usage[k] = Zero
    BY DEF Init
  <2> QED BY <2>1, <2>2, <2>3, <2>4, <2>5 DEF Booked
<1>2. TypeOK /\ TypeOK' /\ Discipline /\ BookedOnce /\ [Next]_vars => BookedOnce'
  BY BookedStep
<1> QED BY <1>1, <1>2, Disciplined, TypeCorrect, PTL DEF Spec
-----------------------------------------------------------------------------
(* Totals, one dimension at a time *)

\* What one request contributes to a total.
Share(r, S, amt, d) == IF r \in S THEN amt[r][d] ELSE 0

\* A total is everyone else's total and the request's own share.
LEMMA TotalShare ==
    ASSUME NEW S \in SUBSET Requests, NEW amt \in [Requests -> Amounts],
           NEW r \in Requests, NEW d \in Dims
    PROVE  /\ Total(S, amt)[d] = Total(S \ {r}, amt)[d] + Share(r, S, amt, d)
           /\ Total(S \ {r}, amt)[d] \in Nat
           /\ Share(r, S, amt, d) \in Nat
<1>1. Total(S \ {r}, amt)[d] \in Nat /\ amt[r][d] \in Nat
  BY TotalType DEF Amounts
<1>2. CASE r \in S
  <2>1. Total(S, amt) = Plus(Total(S \ {r}, amt), amt[r])
    BY <1>2, TotalRemove
  <2> QED BY <1>1, <1>2, <2>1 DEF Plus, Share
<1>3. CASE r \notin S
  <2>1. S \ {r} = S
    BY <1>3
  <2> QED BY <1>1, <1>3, <2>1 DEF Share
<1> QED BY <1>2, <1>3

\* A total is the total of a part and of the rest.
LEMMA TotalSplit ==
    ASSUME NEW S \in SUBSET Requests, NEW T \in SUBSET S,
           NEW amt \in [Requests -> Amounts], NEW d \in Dims
    PROVE  Total(S, amt)[d] = Total(T, amt)[d] + Total(S \ T, amt)[d]
<1> DEFINE here == Units(T, amt, d)
           rest == Units(S \ T, amt, d)
<1>1. Units(S, amt, d) = here \cup rest /\ here \cap rest = {}
  BY DEF Units
<1>2. IsFiniteSet(here) /\ IsFiniteSet(rest)
  BY UnitsFinite
<1>3. Cardinality(here \cup rest)
        = Cardinality(here) + Cardinality(rest) - Cardinality(here \cap rest)
  BY <1>2, FS_Union
<1>4. Cardinality(here) \in Nat /\ Cardinality(rest) \in Nat /\ Cardinality({}) = 0
  BY <1>2, FS_CardinalityType, FS_EmptySet
<1>5. Cardinality(here \cup rest) = Cardinality(here) + Cardinality(rest)
  <2>1. Cardinality(here \cap rest) = 0
    BY <1>1, <1>4
  <2> HIDE DEF here, rest
  <2> QED BY <1>3, <1>4, <2>1
<1>6. /\ Total(S, amt)[d] = Cardinality(Units(S, amt, d))
      /\ Total(T, amt)[d] = Cardinality(here)
      /\ Total(S \ T, amt)[d] = Cardinality(rest)
  BY DEF Total, Units
<1> HIDE DEF here, rest
<1> QED BY <1>1, <1>5, <1>6

\* Amounts that are no larger have a total that is no larger.
LEMMA TotalAtMost ==
    ASSUME NEW S \in SUBSET Requests, NEW amt \in [Requests -> Amounts],
           NEW other \in [Requests -> Amounts], NEW d \in Dims,
           \A r \in S : amt[r][d] <= other[r][d]
    PROVE  Total(S, amt)[d] <= Total(S, other)[d]
<1>1. Units(S, amt, d) \subseteq Units(S, other, d)
  <2>1. \A r \in S : amt[r][d] \in Nat /\ other[r][d] \in Nat
    BY DEF Amounts
  <2>2. \A r \in S : 1 .. amt[r][d] \subseteq 1 .. other[r][d]
    BY <2>1
  <2> QED BY <2>2 DEF Units
<1>2. Cardinality(Units(S, amt, d)) <= Cardinality(Units(S, other, d))
  BY <1>1, UnitsFinite, FS_Subset
<1> QED BY <1>2 DEF Total, Units
-----------------------------------------------------------------------------
(* While Redis keeps its counters and answers *)

\* What a request has sorted its budgets into, and what its loops are over.
Sorted(r) ==
    /\ pc[r] # "checking"
    /\ pc[r] \in {"idle", "pipeline"} => moving[r] = {}
    /\ pc[r] = "stepAdding" => stepAt[r] # 0 /\ moving[r] \subseteq Binding[r]
    /\ pc[r] \in {"reserving", "admitted", "recording", "adding", "settling"} =>
          /\ Binding[r] = lifted[r] \cup held[r] \cup todo[r]
          /\ lifted[r] \cap (held[r] \cup todo[r]) = {}
    /\ pc[r] \in {"admitted", "recording", "adding", "settling"} => todo[r] = {}
    /\ pc[r] = "adding" => moving[r] \subseteq lifted[r]
    /\ pc[r] \in {"adding", "settling"} => r \in answered

CalmState ==
    /\ ~flushed
    /\ \A g \in Gateways : ~breaker[g]
    /\ \A k \in Keys : counter[k] # None
    /\ \A r \in Requests : Sorted(r)

InCalm == Calm => CalmState

\* The steps that are left then.
CalmAct(r) ==
    \/ EarlyGate(r) \/ BookSideCall(r) \/ Guard(r)
    \/ \E b \in Budgets : ReadSeed(r, b)
    \/ Reserve(r) \/ Breach(r) \/ Answer(r) \/ Fail(r) \/ Record(r)
    \/ \E b \in Budgets : AddStep(r, b) \/ AddLifted(r, b) \/ Move(r, b)
    \/ Interrupt(r) \/ InterruptUnshielded(r) \/ InterruptPipeline(r)

\* A call that fails ends the calm.
LEMMA FailureEnds ==
    ASSUME TypeOK, NEW g \in Gateways, Unavailable(g), ~breaker[g]
    PROVE  ~Calm'
  BY DEF TypeOK, Unavailable, Calm

\* Calm was never disturbed before: it is not a state one comes back to.
LEMMA CalmBefore ==
    ASSUME TypeOK, [Next]_vars, Calm'
    PROVE  Calm
<1> USE DEF TypeOK, Calm, Reaches, Unavailable
<1>1. ASSUME NEW r \in Requests, Advance(r) PROVE Calm
  <2>1. CASE EarlyGate(r) \/ BookSideCall(r) \/ Guard(r) \/ \E b \in Budgets : ReadSeed(r, b)
    BY <2>1 DEF EarlyGate, BookSideCall, Guard, ReadSeed, world, faults
  <2>2. CASE Reserve(r) \/ Breach(r)
    BY <2>2 DEF Reserve, Breach
  <2>3. CASE ReserveUnavailable(r)
    BY <2>3 DEF ReserveUnavailable
  <2>4. CASE CheckOnly(r) \/ Answer(r) \/ Fail(r) \/ Record(r)
    BY <2>4 DEF CheckOnly, Answer, Fail, Record, world, faults
  <2>5. CASE \E b \in Budgets : AddStep(r, b)
    BY <2>5 DEF AddStep, Turn
  <2>6. CASE \E b \in Budgets : AddLifted(r, b)
    BY <2>6 DEF AddLifted
  <2>7. CASE \E b \in Budgets : Move(r, b)
    BY <2>7 DEF Move, Turn
  <2> QED BY <1>1, <2>1, <2>2, <2>3, <2>4, <2>5, <2>6, <2>7 DEF Advance
<1>2. outages' # outages + 1
  OBVIOUS
<1>3. ASSUME NEW r \in Requests, Disturb(r) PROVE Calm
  <2>1. CASE Interrupt(r) \/ InterruptUnshielded(r) \/ InterruptPipeline(r)
    BY <2>1 DEF Interrupt, InterruptUnshielded, InterruptPipeline, world
  <2>2. CASE RecordFails(r) \/ PriceFails(r)
    BY <1>2, <2>2, Zenon DEF RecordFails, PriceFails
  <2> QED BY <1>3, <2>1, <2>2 DEF Disturb
<1>4. CASE \E k \in Keys : Expire(k)
  BY <1>4 DEF Expire, world, faults
<1>5. CASE \E g \in Gateways : BreakerCloses(g)
  BY <1>5 DEF BreakerCloses, faults
<1>6. CASE (\E g \in Gateways : Crash(g)) \/ Flush
  BY <1>2, <1>6, Zenon DEF Crash, Flush
<1>7. CASE NextPeriod \/ UNCHANGED vars
  BY <1>7 DEF NextPeriod, vars, world, faults
<1> QED BY <1>1, <1>3, <1>4, <1>5, <1>6, <1>7 DEF Next, Done

\* What can happen while it is calm.
LEMMA CalmNext ==
    ASSUME TypeOK, InCalm, [Next]_vars, Calm'
    PROVE  /\ Calm /\ CalmState
           /\ \/ \E r \in Requests : CalmAct(r) /\ ~Unavailable(Home[r])
              \/ NextPeriod
              \/ UNCHANGED vars
<1>1. Calm /\ CalmState
  BY CalmBefore DEF InCalm
<1>2. \A g \in Gateways : ~breaker[g] /\ ~Unavailable(g)
  BY <1>1, FailureEnds DEF CalmState
<1>3. \A r \in Requests : Home[r] \in Gateways
  BY SetsAssumption
<1>4. ASSUME NEW r \in Requests, Advance(r) PROVE CalmAct(r)
  <2>1. ~ReserveUnavailable(r)
    BY <1>2, <1>3 DEF ReserveUnavailable
  <2>2. ~CheckOnly(r)
    BY <1>1 DEF CheckOnly, CalmState, Sorted
  <2> QED BY <1>4, <2>1, <2>2 DEF Advance, CalmAct
<1>5. ASSUME NEW r \in Requests, Disturb(r) PROVE CalmAct(r)
  <2>1. ~RecordFails(r) /\ ~PriceFails(r)
    BY DEF RecordFails, PriceFails, Calm, TypeOK
  <2> QED BY <1>5, <2>1 DEF Disturb, CalmAct
<1>6. ~\E k \in Keys : Expire(k)
  BY <1>1 DEF Expire, Calm
<1>7. ASSUME NEW g \in Gateways PROVE ~BreakerCloses(g) /\ ~Crash(g)
  <2>1. outages' # outages + 1
    BY DEF Calm, TypeOK
  <2> QED BY <1>2, <2>1, Zenon DEF BreakerCloses, Crash
<1>8. ~Flush
  BY DEF Flush, Calm, TypeOK
<1> QED BY <1>1, <1>2, <1>3, <1>4, <1>5, <1>6, <1>7, <1>8 DEF Next, Done

\* A counter that is there is what the limits are checked against, and loses
\* no reservation.
LEMMA CalmReserve ==
    ASSUME TypeOK, NEW r \in Requests, seed[r] # None, NEW taken \in BOOLEAN,
           RunReserve(r, taken), NEW h, h = Key(r, seed[r].budget), counter[h] # None
    PROVE  /\ h \in Keys
           /\ taken <=> ~AtLimit(seed[r].budget, counter[h])
           /\ counter' = [counter EXCEPT ![h] = IF taken THEN Plus(@, Estimate[r]) ELSE @]
           /\ open' = [open EXCEPT ![h] = IF taken THEN @ \cup {r} ELSE @]
<1>1. h \in Keys
  BY KeyTypes DEF TypeOK
<1>2. PICK dead \in SUBSET Lapsed(h) :
        /\ counter[h] # None => dead = {}
        /\ LET carried == open[h] \ dead
               base == IF counter[h] = None THEN Rebuilt(seed[r].figure, carried) ELSE counter[h]
           IN  /\ taken = ~AtLimit(seed[r].budget, base)
               /\ counter' = [counter EXCEPT
                     ![h] = IF taken THEN Plus(base, Estimate[r]) ELSE base]
               /\ open' = [open EXCEPT ![h] = IF taken THEN carried \cup {r} ELSE carried]
  BY DEF RunReserve
<1>3. dead = {} /\ open[h] \ dead = open[h]
  BY <1>2
<1> QED BY <1>1, <1>2, <1>3

\* Where the clamp is not reached the adjust script adds.
LEMMA CalmAdjust ==
    ASSUME TypeOK, NEW h \in Keys, counter[h] # None, NEW amounts \in [Dims -> Int],
           NEW closing, RunAdjust(h, amounts, closing),
           \A d \in Dims : counter[h][d] + amounts[d] >= 0
    PROVE  /\ counter' = [counter EXCEPT ![h] = Plus(@, amounts)]
           /\ open' = [open EXCEPT ![h] = @ \ closing]
<1>1. counter[h] \in Amounts
  BY DEF TypeOK
<1>2. Clamped(Plus(counter[h], amounts)) = Plus(counter[h], amounts)
  BY <1>1 DEF Clamped, Plus, Amounts
<1> QED BY <1>2 DEF RunAdjust

\* The calm steps of a request keep its budgets sorted.
LEMMA StepIsSorted ==
    ASSUME TypeOK, Calm, NEW r \in Requests, Orderly(r), Sorted(r), CalmAct(r)
    PROVE  Sorted(r)'
<1> USE DEF TypeOK, Orderly, Sorted, BeforeGuard, BeforeAnswer, InGuard, Handing
<1>1. CASE EarlyGate(r)
  BY <1>1 DEF EarlyGate, outcome
<1>2. CASE BookSideCall(r)
  BY <1>2, BoundsAssumption DEF BookSideCall, outcome
<1>3. CASE Guard(r)
  BY <1>3 DEF Guard, outcome, Calm
<1>4. CASE \E b \in Budgets : ReadSeed(r, b)
  BY <1>4 DEF ReadSeed, outcome
<1>5. CASE Reserve(r)
  BY <1>5 DEF Reserve, outcome
<1>6. CASE Breach(r)
  BY <1>6 DEF Breach, HandBack, outcome
<1>7. CASE Answer(r)
  BY <1>7 DEF Answer
<1>8. CASE Fail(r)
  BY <1>8 DEF Fail, HandBack, outcome
<1>9. CASE Record(r)
  BY <1>9 DEF Record, AfterLifted, outcome
<1>10. CASE \E b \in Budgets : AddStep(r, b)
  BY <1>10 DEF AddStep, Turn, outcome
<1>11. CASE \E b \in Budgets : AddLifted(r, b)
  BY <1>11 DEF AddLifted, AfterLifted, outcome
<1>12. CASE \E b \in Budgets : Move(r, b)
  BY <1>12 DEF Move, Turn, outcome
<1>13. CASE Interrupt(r)
  BY <1>13 DEF Interrupt, HandBack, outcome
<1>14. CASE InterruptUnshielded(r)
  BY <1>14 DEF InterruptUnshielded, outcome
<1>15. CASE InterruptPipeline(r)
  BY <1>15 DEF InterruptPipeline, outcome
<1> QED
  BY <1>1, <1>2, <1>3, <1>4, <1>5, <1>6, <1>7, <1>8, <1>9, <1>10, <1>11, <1>12,
     <1>13, <1>14, <1>15 DEF CalmAct

\* Somebody else's step keeps them so.
LEMMA SameIsSorted ==
    ASSUME NEW q \in Requests, Sorted(q), Same(q)
    PROVE  Sorted(q)'
  BY DEF Sorted, Same

\* No counter goes missing.
LEMMA CountersStay ==
    ASSUME TypeOK, CalmState, NEW r \in Requests, CalmAct(r), NEW k \in Keys
    PROVE  counter'[k] # None
<1> USE DEF CalmState
<1>1. CASE UNCHANGED counter
  BY <1>1
<1>2. ASSUME NEW h, NEW amounts \in [Dims -> Int], NEW closing, RunAdjust(h, amounts, closing)
      PROVE  counter'[k] # None
  <2>1. counter[k] \in Amounts
    BY DEF TypeOK
  <2>2. Clamped(Plus(counter[k], amounts)) # None
    BY <2>1, AmountTypes, AmountsAssumption
  <2> QED BY <1>2, <2>2 DEF RunAdjust, TypeOK
<1>3. CASE seed[r] # None /\ \E taken \in BOOLEAN : RunReserve(r, taken)
  <2> PICK taken \in BOOLEAN : RunReserve(r, taken)
    BY <1>3
  <2>1. PICK h : h = Key(r, seed[r].budget)
    OBVIOUS
  <2>2. h \in Keys
    BY <1>3, <2>1, KeyTypes DEF TypeOK
  <2>3. counter' = [counter EXCEPT ![h] = IF taken THEN Plus(@, Estimate[r]) ELSE @]
    BY <1>3, <2>1, <2>2, CalmReserve
  <2>4. counter[h] \in Amounts /\ Estimate[r] \in Amounts
    BY <2>2, AmountsAssumption DEF TypeOK
  <2>5. Plus(counter[h], Estimate[r]) # None
    BY <2>4, AmountTypes, AmountsAssumption
  <2> QED BY <2>2, <2>3, <2>5 DEF TypeOK
<1>4. CASE Reserve(r) \/ Breach(r) \/ Interrupt(r)
  BY <1>1, <1>3, <1>4 DEF Reserve, Breach, Interrupt
<1>5. CASE \E b \in Budgets : AddStep(r, b) \/ AddLifted(r, b) \/ Move(r, b)
  BY <1>1, <1>2, <1>5, CorrectionType DEF AddStep, AddLifted, Move
<1>6. CASE \/ EarlyGate(r) \/ BookSideCall(r) \/ Guard(r)
           \/ \E b \in Budgets : ReadSeed(r, b)
           \/ Answer(r) \/ Fail(r) \/ Record(r)
           \/ InterruptUnshielded(r) \/ InterruptPipeline(r)
  BY <1>1, <1>6 DEF EarlyGate, BookSideCall, Guard, ReadSeed, Answer, Fail, Record,
     InterruptUnshielded, InterruptPipeline, stores
<1> QED BY <1>4, <1>5, <1>6 DEF CalmAct

\* Nor does the breaker open or Redis lose its data.
LEMMA RedisStays ==
    ASSUME NEW r \in Requests, CalmAct(r), ~Unavailable(Home[r])
    PROVE  UNCHANGED <<breaker, flushed>>
<1>1. CASE EarlyGate(r) \/ BookSideCall(r) \/ Guard(r) \/ \E b \in Budgets : ReadSeed(r, b)
  BY <1>1 DEF EarlyGate, BookSideCall, Guard, ReadSeed, world, faults
<1>2. CASE Reserve(r) \/ Breach(r)
  BY <1>2 DEF Reserve, Breach, Reaches
<1>3. CASE Answer(r) \/ Fail(r) \/ Record(r)
  BY <1>3 DEF Answer, Fail, Record, world, faults
<1>4. CASE \E b \in Budgets : AddStep(r, b) \/ AddLifted(r, b) \/ Move(r, b)
  BY <1>4 DEF AddStep, AddLifted, Move, Turn, Reaches
<1>5. CASE Interrupt(r) \/ InterruptUnshielded(r) \/ InterruptPipeline(r)
  BY <1>5 DEF Interrupt, InterruptUnshielded, InterruptPipeline, world
<1> QED BY <1>1, <1>2, <1>3, <1>4, <1>5 DEF CalmAct

\* A calm step of a request changes no other's state.
LEMMA CalmIsLocal ==
    ASSUME TypeOK, NEW r \in Requests, CalmAct(r)
    PROVE  /\ Advance(r) \/ Disturb(r)
           /\ \A q \in Requests \ {r} : Same(q)
<1>1. Advance(r) \/ Disturb(r)
  BY Zenon DEF CalmAct, Advance, Disturb
<1> QED BY <1>1, StepIsLocal

\* The calm lasts as long as nothing fails.
LEMMA CalmStep ==
    ASSUME TypeOK, Discipline, InCalm, [Next]_vars
    PROVE  InCalm'
<1> SUFFICES ASSUME Calm' PROVE CalmState'
  BY DEF InCalm
<1>1. Calm /\ CalmState
  BY CalmNext
<1>2. ASSUME NEW r \in Requests, CalmAct(r), ~Unavailable(Home[r]) PROVE CalmState'
  <2>1. UNCHANGED <<breaker, flushed>>
    BY <1>2, RedisStays
  <2>2. \A k \in Keys : counter'[k] # None
    BY <1>1, <1>2, CountersStay
  <2>3. ASSUME NEW q \in Requests PROVE Sorted(q)'
    <3>1. CASE q = r
      BY <1>1, <1>2, <3>1, StepIsSorted DEF CalmState, Discipline
    <3>2. CASE q # r
      BY <1>1, <1>2, <3>2, CalmIsLocal, SameIsSorted DEF CalmState
    <3> QED BY <3>1, <3>2
  <2> QED BY <1>1, <2>1, <2>2, <2>3 DEF CalmState
<1>3. CASE NextPeriod \/ UNCHANGED vars
  <2>1. \A q \in Requests : Sorted(q)'
    BY <1>1, <1>3, WorldIsElsewhere, SameIsSorted DEF CalmState
  <2>2. UNCHANGED <<counter, breaker, flushed>>
    BY <1>3 DEF NextPeriod, vars, stores, world, faults
  <2> QED BY <1>1, <2>1, <2>2 DEF CalmState
<1> QED BY <1>2, <1>3, CalmNext

\* While Redis answers and keeps its counters they are all there.
LEMMA CalmHolds == Spec => []InCalm
<1>1. Init => InCalm
  BY AmountTypes, AmountsAssumption
     DEF Init, InCalm, Calm, CalmState, Sorted, InGuard, Handing
<1>2. TypeOK /\ Discipline /\ InCalm /\ [Next]_vars => InCalm'
  BY CalmStep
<1> QED BY <1>1, <1>2, Disciplined, TypeCorrect, PTL DEF Spec
-----------------------------------------------------------------------------
(* The counters are exact *)

\* CounterExact for one key and one dimension.
Exact(k, d) ==
    counter[k][d] + Total(Unmoved(k), actual)[d] + Total(StepUnmoved(k), Steps)[d]
      = usage[k][d] + Total(open[k], Estimate)[d]

\* What r has still to add to the counter of k, and what it has set aside there.
Pending(r, k, d) ==
    (IF r \in Unmoved(k) THEN actual[r][d] ELSE 0)
      + (IF r \in StepUnmoved(k) THEN StepAmount[d] ELSE 0)
SetAside(r, k, d) == IF r \in open[k] THEN Estimate[r][d] ELSE 0

\* The sets CounterExact sums over are sets of requests with amounts.
LEMMA ExactTypes ==
    ASSUME TypeOK, NEW k \in Keys
    PROVE  /\ Unmoved(k) \in SUBSET Requests /\ StepUnmoved(k) \in SUBSET Requests
           /\ open[k] \in SUBSET Requests
           /\ actual \in [Requests -> Amounts] /\ Steps \in [Requests -> Amounts]
           /\ Estimate \in [Requests -> Amounts]
           /\ usage[k] \in Amounts
<1>1. Unmoved(k) \in SUBSET Requests /\ StepUnmoved(k) \in SUBSET Requests
  BY DEF TypeOK, Unmoved, StepUnmoved, BookedOn, SteppedOn
<1> QED BY <1>1, AmountsAssumption DEF TypeOK, Steps

\* Two ways to say that sums agree.
LEMMA SumsAgree ==
    ASSUME NEW c \in Amounts, NEW a \in Amounts, NEW s \in Amounts, NEW u \in Amounts,
           NEW o \in Amounts
    PROVE  (\A d \in Dims : c[d] + a[d] + s[d] = u[d] + o[d])
             <=> Plus(c, Plus(a, s)) = Plus(u, o)
<1>1. \A d \in Dims : /\ c[d] \in Nat /\ a[d] \in Nat /\ s[d] \in Nat
                      /\ Plus(c, Plus(a, s))[d] = c[d] + (a[d] + s[d])
                      /\ Plus(u, o)[d] = u[d] + o[d]
  BY DEF Amounts, Plus
<1>2. \A d \in Dims : c[d] + (a[d] + s[d]) = c[d] + a[d] + s[d]
  BY <1>1
<1>3. ASSUME \A d \in Dims : c[d] + a[d] + s[d] = u[d] + o[d]
      PROVE  Plus(c, Plus(a, s)) = Plus(u, o)
  <2>1. \A d \in Dims : Plus(c, Plus(a, s))[d] = Plus(u, o)[d]
    BY <1>1, <1>2, <1>3
  <2>2. /\ Plus(c, Plus(a, s)) = [d \in Dims |-> Plus(c, Plus(a, s))[d]]
        /\ Plus(u, o) = [d \in Dims |-> Plus(u, o)[d]]
    BY DEF Plus
  <2> QED BY <2>1, <2>2
<1>4. ASSUME Plus(c, Plus(a, s)) = Plus(u, o), NEW d \in Dims
      PROVE  c[d] + a[d] + s[d] = u[d] + o[d]
  BY <1>1, <1>2, <1>4
<1> QED BY <1>3, <1>4

\* CounterExact is Exact of every key and dimension.
LEMMA ExactMeans ==
    ASSUME TypeOK, NEW k \in Keys, counter[k] # None
    PROVE  (\A d \in Dims : Exact(k, d)) <=>
             Plus(counter[k], Plus(Total(Unmoved(k), actual), Total(StepUnmoved(k), Steps)))
               = Plus(usage[k], Total(open[k], Estimate))
<1> DEFINE c == counter[k]
           u == usage[k]
           a == Total(Unmoved(k), actual)
           s == Total(StepUnmoved(k), Steps)
           o == Total(open[k], Estimate)
<1>1. c \in Amounts /\ u \in Amounts
  BY DEF TypeOK
<1>2. a \in Amounts /\ s \in Amounts /\ o \in Amounts
  BY ExactTypes, TotalType
<1>3. (\A d \in Dims : Exact(k, d)) <=> \A d \in Dims : c[d] + a[d] + s[d] = u[d] + o[d]
  BY DEF Exact
<1> HIDE DEF c, u, a, s, o
<1>4. (\A d \in Dims : c[d] + a[d] + s[d] = u[d] + o[d]) <=> Plus(c, Plus(a, s)) = Plus(u, o)
  BY <1>1, <1>2, SumsAgree
<1> QED BY <1>3, <1>4 DEF c, u, a, s, o

\* And so it is after a step.
LEMMA ExactMeansThen ==
    ASSUME TypeOK', NEW k \in Keys, counter'[k] # None
    PROVE  (\A d \in Dims : Exact(k, d)') <=>
             Plus(counter'[k], Plus(Total(Unmoved(k)', actual'), Total(StepUnmoved(k)', Steps)))
               = Plus(usage'[k], Total(open'[k], Estimate))
<1> DEFINE c == counter'[k]
           u == usage'[k]
           a == Total(Unmoved(k)', actual')
           s == Total(StepUnmoved(k)', Steps)
           o == Total(open'[k], Estimate)
<1>0. Steps' = Steps /\ Steps \in [Requests -> Amounts] /\ Estimate \in [Requests -> Amounts]
  BY AmountsAssumption DEF Steps
<1>1. c \in Amounts /\ u \in Amounts
  BY DEF TypeOK
<1>2. /\ Unmoved(k)' \in SUBSET Requests /\ StepUnmoved(k)' \in SUBSET Requests
      /\ open'[k] \in SUBSET Requests /\ actual' \in [Requests -> Amounts]
  BY DEF TypeOK, Unmoved, StepUnmoved, BookedOn, SteppedOn
<1>3. a \in Amounts /\ s \in Amounts /\ o \in Amounts
  BY <1>0, <1>2, TotalType
<1>4. (\A d \in Dims : Exact(k, d)') <=> \A d \in Dims : c[d] + a[d] + s[d] = u[d] + o[d]
  BY <1>0 DEF Exact
<1> HIDE DEF c, u, a, s, o
<1>5. (\A d \in Dims : c[d] + a[d] + s[d] = u[d] + o[d]) <=> Plus(c, Plus(a, s)) = Plus(u, o)
  BY <1>1, <1>3, SumsAgree
<1> QED BY <1>4, <1>5 DEF c, u, a, s, o

\* Two totals that differ in one request differ by its shares.
LEMMA ShareMoves ==
    ASSUME NEW S \in SUBSET Requests, NEW T \in SUBSET Requests,
           NEW amt \in [Requests -> Amounts], NEW other \in [Requests -> Amounts],
           NEW r \in Requests, NEW d \in Dims,
           T \ {r} = S \ {r}, \A q \in S \ {r} : other[q] = amt[q]
    PROVE  /\ Share(r, S, amt, d) \in Nat /\ Share(r, T, other, d) \in Nat
           /\ \E n \in Nat : /\ Total(S, amt)[d] = n + Share(r, S, amt, d)
                             /\ Total(T, other)[d] = n + Share(r, T, other, d)
<1>1. Total(T \ {r}, other) = Total(S \ {r}, amt)
  BY TotalSame
<1>2. /\ Total(S, amt)[d] = Total(S \ {r}, amt)[d] + Share(r, S, amt, d)
      /\ Total(S \ {r}, amt)[d] \in Nat /\ Share(r, S, amt, d) \in Nat
  BY TotalShare
<1>3. /\ Total(T, other)[d] = Total(T \ {r}, other)[d] + Share(r, T, other, d)
      /\ Share(r, T, other, d) \in Nat
  BY TotalShare
<1> QED BY <1>1, <1>2, <1>3

\* A step that changes one request leaves the books of all others alone: they
\* balance when its own do.
LEMMA OwnBooks ==
    ASSUME TypeOK, TypeOK', NEW r \in Requests, \A q \in Requests \ {r} : Same(q),
           NEW k \in Keys, NEW d \in Dims,
           open'[k] \ {r} = open[k] \ {r},
           counter[k] # None, counter'[k] # None, Exact(k, d),
           counter'[k][d] + Pending(r, k, d)' + SetAside(r, k, d) + usage[k][d]
             = counter[k][d] + Pending(r, k, d) + SetAside(r, k, d)' + usage'[k][d]
    PROVE  Exact(k, d)'
<1> DEFINE a == Share(r, Unmoved(k), actual, d)
           s == Share(r, StepUnmoved(k), Steps, d)
           e == Share(r, open[k], Estimate, d)
           anew == Share(r, Unmoved(k)', actual', d)
           snew == Share(r, StepUnmoved(k)', Steps, d)
           enew == Share(r, open'[k], Estimate, d)
<1>1. Unmoved(k)' \ {r} = Unmoved(k) \ {r} /\ StepUnmoved(k)' \ {r} = StepUnmoved(k) \ {r}
  <2>1. /\ Unmoved(k) \subseteq Requests /\ StepUnmoved(k) \subseteq Requests
        /\ Unmoved(k)' \subseteq Requests /\ StepUnmoved(k)' \subseteq Requests
    BY DEF TypeOK, Unmoved, StepUnmoved, BookedOn, SteppedOn
  <2>2. ASSUME NEW q \in Requests \ {r}
        PROVE  (q \in Unmoved(k)' <=> q \in Unmoved(k))
                 /\ (q \in StepUnmoved(k)' <=> q \in StepUnmoved(k))
    BY DEF Same, Unmoved, StepUnmoved, BookedOn, SteppedOn
  <2> QED BY <2>1, <2>2
<1>2. /\ Unmoved(k)' \in SUBSET Requests /\ StepUnmoved(k)' \in SUBSET Requests
      /\ open'[k] \in SUBSET Requests /\ actual' \in [Requests -> Amounts]
  BY DEF TypeOK, Unmoved, StepUnmoved, BookedOn, SteppedOn
<1>3. /\ Unmoved(k) \in SUBSET Requests /\ StepUnmoved(k) \in SUBSET Requests
      /\ open[k] \in SUBSET Requests
      /\ actual \in [Requests -> Amounts] /\ Steps \in [Requests -> Amounts]
      /\ Estimate \in [Requests -> Amounts]
  BY ExactTypes
<1>4. \A q \in Unmoved(k) \ {r} : actual'[q] = actual[q]
  BY <1>3 DEF Same
<1>5. PICK A \in Nat : /\ Total(Unmoved(k), actual)[d] = A + a
                       /\ Total(Unmoved(k)', actual')[d] = A + anew
                       /\ a \in Nat /\ anew \in Nat
  BY <1>1, <1>2, <1>3, <1>4, ShareMoves
<1>6. PICK S \in Nat : /\ Total(StepUnmoved(k), Steps)[d] = S + s
                       /\ Total(StepUnmoved(k)', Steps)[d] = S + snew
                       /\ s \in Nat /\ snew \in Nat
  BY <1>1, <1>2, <1>3, ShareMoves
<1>7. PICK O \in Nat : /\ Total(open[k], Estimate)[d] = O + e
                       /\ Total(open'[k], Estimate)[d] = O + enew
                       /\ e \in Nat /\ enew \in Nat
  BY <1>2, <1>3, ShareMoves
<1>8. /\ counter[k][d] \in Nat /\ counter'[k][d] \in Nat
      /\ usage[k][d] \in Nat /\ usage'[k][d] \in Nat
  BY DEF TypeOK, Amounts
<1>9. counter'[k][d] + (anew + snew) + e + usage[k][d]
        = counter[k][d] + (a + s) + enew + usage'[k][d]
  BY DEF Pending, SetAside, Share, Steps
<1>10. /\ counter[k][d] + (A + a) + (S + s) = usage[k][d] + (O + e)
       /\ Exact(k, d)' <=> counter'[k][d] + (A + anew) + (S + snew) = usage'[k][d] + (O + enew)
  <2>1. Steps' = Steps
    BY DEF Steps
  <2> HIDE DEF a, s, e, anew, snew, enew
  <2> QED BY <1>5, <1>6, <1>7, <2>1 DEF Exact
<1> HIDE DEF a, s, e, anew, snew, enew
<1>11. counter'[k][d] + (A + anew) + (S + snew) = usage'[k][d] + (O + enew)
  <2> DEFINE c == counter[k][d]
             u == usage[k][d]
             cnew == counter'[k][d]
             unew == usage'[k][d]
  <2>1. c \in Int /\ u \in Int /\ cnew \in Int /\ unew \in Int
    BY <1>8
  <2>2. /\ a \in Int /\ s \in Int /\ e \in Int /\ anew \in Int /\ snew \in Int /\ enew \in Int
        /\ A \in Int /\ S \in Int /\ O \in Int
    BY <1>5, <1>6, <1>7
  <2>3. c + (A + a) + (S + s) = u + (O + e)
    BY <1>10
  <2>4. cnew + (anew + snew) + e + u = c + (a + s) + enew + unew
    BY <1>9
  <2> HIDE DEF c, u, cnew, unew
  <2>5. cnew + (A + anew) + (S + snew) = unew + (O + enew)
    BY <2>1, <2>2, <2>3, <2>4
  <2> QED BY <2>5 DEF c, u, cnew, unew
<1> QED BY <1>10, <1>11

\* r's own books balance over a step.
Balanced(r, k, d) ==
    counter'[k][d] + Pending(r, k, d)' + SetAside(r, k, d) + usage[k][d]
      = counter[k][d] + Pending(r, k, d) + SetAside(r, k, d)' + usage'[k][d]

\* What r has still to add stays what it is.
SameBooks(r, k) ==
    /\ r \in Unmoved(k)' <=> r \in Unmoved(k)
    /\ r \in Unmoved(k) => actual'[r] = actual[r]
    /\ r \in StepUnmoved(k)' <=> r \in StepUnmoved(k)

\* The figures a balance is about are numbers.
LEMMA FigureTypes ==
    ASSUME TypeOK, NEW r \in Requests, NEW k \in Keys, NEW d \in Dims, counter[k] # None
    PROVE  /\ counter[k][d] \in Nat /\ usage[k][d] \in Nat
           /\ actual[r][d] \in Nat /\ Estimate[r][d] \in Nat /\ StepAmount[d] \in Nat
           /\ Pending(r, k, d) \in Nat /\ SetAside(r, k, d) \in Nat
<1>1. /\ counter[k][d] \in Nat /\ usage[k][d] \in Nat
      /\ actual[r][d] \in Nat /\ Estimate[r][d] \in Nat /\ StepAmount[d] \in Nat
  BY AmountsAssumption DEF TypeOK, Amounts
<1> QED BY <1>1 DEF Pending, SetAside

\* Up to the answer, and while it hands back, a request adds nothing.
LEMMA QuietBooks ==
    ASSUME TypeOK, CalmState, NEW r \in Requests, Orderly(r), CalmAct(r),
           ~Record(r), ~BookSideCall(r),
           ~\E b \in Budgets : AddStep(r, b) \/ AddLifted(r, b) \/ Move(r, b),
           NEW k \in Keys
    PROVE  SameBooks(r, k)
<1>0. Sorted(r)
  BY DEF CalmState
<1> USE <1>0 DEF TypeOK, SameBooks, Unmoved, StepUnmoved, BookedOn, SteppedOn, Orderly, Sorted,
                 InGuard, BeforeGuard, BeforeAnswer
<1>1. CASE EarlyGate(r)
  BY <1>1 DEF EarlyGate, outcome
<1>2. CASE Guard(r)
  BY <1>2 DEF Guard, outcome
<1>3. CASE \E b \in Budgets : ReadSeed(r, b)
  BY <1>3 DEF ReadSeed, outcome
<1>4. CASE Reserve(r)
  BY <1>4 DEF Reserve, outcome
<1>5. CASE Breach(r)
  BY <1>5 DEF Breach, HandBack, outcome
<1>6. CASE Answer(r)
  BY <1>6 DEF Answer
<1>7. CASE Fail(r)
  BY <1>7 DEF Fail, HandBack, outcome
<1>8. CASE Interrupt(r)
  BY <1>8 DEF Interrupt, HandBack, outcome
<1>9. CASE InterruptUnshielded(r)
  BY <1>9 DEF InterruptUnshielded, outcome
<1>10. CASE InterruptPipeline(r)
  BY <1>10 DEF InterruptPipeline, outcome
<1> QED
  BY <1>1, <1>2, <1>3, <1>4, <1>5, <1>6, <1>7, <1>8, <1>9, <1>10 DEF CalmAct

\* Nothing added, nothing set aside, nothing booked: the books balance.
LEMMA QuietBalances ==
    ASSUME NEW r \in Requests, NEW k \in Keys, NEW d \in Dims, SameBooks(r, k),
           UNCHANGED stores
    PROVE  open'[k] \ {r} = open[k] \ {r} /\ Balanced(r, k, d)
<1>1. Pending(r, k, d)' = Pending(r, k, d) /\ SetAside(r, k, d)' = SetAside(r, k, d)
  BY DEF Pending, SetAside, SameBooks, stores
<1> QED BY <1>1 DEF Balanced, stores

\* A reservation adds to the counter what it sets aside.
LEMMA ReserveBalances ==
    ASSUME TypeOK, CalmState, NEW r \in Requests, seed[r] # None,
           r \notin open[Key(r, seed[r].budget)], NEW taken \in BOOLEAN, RunReserve(r, taken),
           NEW k \in Keys, NEW d \in Dims, SameBooks(r, k), UNCHANGED usage
    PROVE  open'[k] \ {r} = open[k] \ {r} /\ Balanced(r, k, d)
<1>1. PICK h : h = Key(r, seed[r].budget)
  OBVIOUS
<1>2. h \in Keys
  BY <1>1, KeyTypes DEF TypeOK
<1>3. counter[h] # None /\ counter[k] # None
  BY <1>2 DEF CalmState
<1>4. /\ counter' = [counter EXCEPT ![h] = IF taken THEN Plus(@, Estimate[r]) ELSE @]
      /\ open' = [open EXCEPT ![h] = IF taken THEN @ \cup {r} ELSE @]
  BY <1>1, <1>3, CalmReserve
<1>5. Pending(r, k, d)' = Pending(r, k, d) /\ Pending(r, k, d) \in Nat
  BY <1>3, FigureTypes DEF Pending, SameBooks
<1>6. counter[k][d] \in Nat /\ Estimate[r][d] \in Nat /\ usage[k][d] \in Nat
  BY <1>3, FigureTypes
<1>7. CASE taken /\ k = h
  <2>1. counter'[k][d] = counter[k][d] + Estimate[r][d] /\ open'[k] = open[k] \cup {r}
    BY <1>2, <1>4, <1>7 DEF TypeOK, Plus
  <2>2. SetAside(r, k, d) = 0 /\ SetAside(r, k, d)' = Estimate[r][d]
    BY <1>1, <1>7, <2>1 DEF SetAside
  <2> QED BY <1>5, <1>6, <2>1, <2>2 DEF Balanced
<1>8. CASE ~(taken /\ k = h)
  <2>1. counter'[k] = counter[k] /\ open'[k] = open[k]
    BY <1>2, <1>4, <1>8 DEF TypeOK
  <2>2. SetAside(r, k, d)' = SetAside(r, k, d)
    BY <2>1 DEF SetAside
  <2> QED BY <1>5, <2>1, <2>2 DEF Balanced
<1> QED BY <1>7, <1>8

\* What is booked is still to be added.
LEMMA RecordBalances ==
    ASSUME TypeOK, CalmState, NEW r \in Requests, Orderly(r), Record(r),
           NEW k \in Keys, NEW d \in Dims
    PROVE  open'[k] \ {r} = open[k] \ {r} /\ Balanced(r, k, d)
<1>1. UNCHANGED <<counter, open, actual>>
  BY DEF Record
<1>2. SetAside(r, k, d)' = SetAside(r, k, d)
  BY <1>1 DEF SetAside
<1>3. Sorted(r) /\ counter[k] # None
  BY DEF CalmState
<1>4. (r \in StepUnmoved(k)' <=> r \in StepUnmoved(k)) /\ r \notin Unmoved(k)
  BY <1>3 DEF Record, AfterLifted, StepUnmoved, SteppedOn, Unmoved, TypeOK, Sorted
<1>5. r \in Unmoved(k)' <=> k \in BookingKeys(r)
  BY <1>3 DEF Record, AfterLifted, Unmoved, BookedOn, BookingKeys, TypeOK, Sorted, Orderly,
              outcome
<1>6. usage'[k] = IF k \in BookingKeys(r) THEN Plus(usage[k], actual[r]) ELSE usage[k]
  BY DEF Record
<1>7. usage'[k][d] = usage[k][d] + IF k \in BookingKeys(r) THEN actual[r][d] ELSE 0
  BY <1>3, <1>6, FigureTypes DEF Plus
<1>8. Pending(r, k, d)' = Pending(r, k, d) + IF k \in BookingKeys(r) THEN actual[r][d] ELSE 0
  BY <1>1, <1>3, <1>4, <1>5, FigureTypes DEF Pending
<1>9. (IF k \in BookingKeys(r) THEN actual[r][d] ELSE 0) \in Nat
  BY <1>3, FigureTypes
<1> QED BY <1>1, <1>2, <1>3, <1>7, <1>8, <1>9, FigureTypes DEF Balanced

\* So is the pipeline's call.
LEMMA SideCallBalances ==
    ASSUME TypeOK, CalmState, NEW r \in Requests, BookSideCall(r),
           NEW k \in Keys, NEW d \in Dims
    PROVE  open'[k] \ {r} = open[k] \ {r} /\ Balanced(r, k, d)
<1> DEFINE here == k[1] \in Binding[r] /\ k[2] = period
<1>1. UNCHANGED <<counter, open, actual>>
  BY DEF BookSideCall
<1>2. SetAside(r, k, d)' = SetAside(r, k, d)
  BY <1>1 DEF SetAside
<1>3. counter[k] # None
  BY DEF CalmState
<1>4. r \notin Unmoved(k) /\ r \notin Unmoved(k)' /\ r \notin StepUnmoved(k)
  BY DEF BookSideCall, Unmoved, StepUnmoved, TypeOK
<1>5. r \in StepUnmoved(k)' <=> here
  BY DEF BookSideCall, StepUnmoved, SteppedOn, TypeOK
<1>6. usage'[k] = IF here THEN Plus(usage[k], StepAmount) ELSE usage[k]
  BY DEF BookSideCall
<1>7. usage'[k][d] = usage[k][d] + IF here THEN StepAmount[d] ELSE 0
  BY <1>3, <1>6, FigureTypes DEF Plus
<1>8. Pending(r, k, d)' = IF here THEN StepAmount[d] ELSE 0
  BY <1>3, <1>4, <1>5, FigureTypes DEF Pending
<1>9. Pending(r, k, d) = 0
  BY <1>4 DEF Pending
<1>10. (IF here THEN StepAmount[d] ELSE 0) \in Nat
  BY <1>3, FigureTypes
<1> QED BY <1>1, <1>2, <1>3, <1>7, <1>8, <1>9, <1>10, FigureTypes DEF Balanced

\* What a lifted budget's counter takes is no longer to be added.
LEMMA AddLiftedBalances ==
    ASSUME TypeOK, CalmState, NEW r \in Requests, NEW b \in Budgets, AddLifted(r, b),
           ~Unavailable(Home[r]), NEW k \in Keys, NEW d \in Dims
    PROVE  open'[k] \ {r} = open[k] \ {r} /\ Balanced(r, k, d)
<1>1. PICK h : h = Key(r, b)
  OBVIOUS
<1>2. h \in Keys /\ h[1] = b /\ h[2] = admitted[r]
  BY <1>1, KeyTypes DEF Key
<1>3. Sorted(r) /\ counter[h] # None /\ counter[k] # None
  BY <1>2 DEF CalmState
<1>4. counter' = [counter EXCEPT ![h] = Plus(@, actual[r])] /\ open' = [open EXCEPT ![h] = @ \ {}]
  <2>1. RunAdjust(h, actual[r], {})
    BY <1>1 DEF AddLifted
  <2>2. \A x \in Dims : counter[h][x] + actual[r][x] >= 0
    BY <1>2, <1>3, FigureTypes
  <2>3. actual[r] \in [Dims -> Int]
    BY CorrectionType
  <2> QED BY <1>2, <1>3, <2>1, <2>2, <2>3, CalmAdjust
<1>5. UNCHANGED <<usage, actual, open>>
  BY <1>2, <1>4 DEF AddLifted, TypeOK
<1>6. SetAside(r, k, d)' = SetAside(r, k, d)
  BY <1>5 DEF SetAside
<1>7. r \notin StepUnmoved(k) /\ r \notin StepUnmoved(k)'
  BY DEF AddLifted, AfterLifted, StepUnmoved, TypeOK
<1>8. b \in Binding[r] /\ b \notin held[r] /\ pc[r] = "adding" /\ b \in moving[r] /\ r \in answered
  BY <1>3 DEF AddLifted, Sorted
<1>9. k = h <=> k[1] = b /\ k[2] = admitted[r]
  BY <1>2 DEF Keys
<1>10. r \in Unmoved(k)' <=> r \in Unmoved(k) /\ k # h
  BY <1>8, <1>9 DEF AddLifted, AfterLifted, Unmoved, BookedOn, TypeOK, outcome
<1>11. r \in Unmoved(h)
  BY <1>2, <1>8 DEF Unmoved, BookedOn
<1>12. CASE k = h
  <2>1. counter'[k][d] = counter[k][d] + actual[r][d]
    BY <1>2, <1>4, <1>12 DEF TypeOK, Plus
  <2>2. Pending(r, k, d) = actual[r][d] /\ Pending(r, k, d)' = 0
    BY <1>3, <1>7, <1>10, <1>11, <1>12, FigureTypes DEF Pending
  <2> QED BY <1>3, <1>5, <1>6, <2>1, <2>2, FigureTypes DEF Balanced
<1>13. CASE k # h
  <2>1. counter'[k] = counter[k]
    BY <1>2, <1>4, <1>13 DEF TypeOK
  <2>2. Pending(r, k, d)' = Pending(r, k, d)
    BY <1>5, <1>7, <1>10, <1>13 DEF Pending
  <2> QED BY <1>5, <1>6, <2>1, <2>2 DEF Balanced
<1> QED BY <1>12, <1>13

\* Nor is the pipeline's call, where the counter has taken it.
LEMMA AddStepBalances ==
    ASSUME TypeOK, CalmState, NEW r \in Requests, NEW b \in Budgets, AddStep(r, b),
           ~Unavailable(Home[r]), NEW k \in Keys, NEW d \in Dims
    PROVE  open'[k] \ {r} = open[k] \ {r} /\ Balanced(r, k, d)
<1>0. Sorted(r)
  BY DEF CalmState
<1>1. PICK h : h = StepKey(r, b)
  OBVIOUS
<1>2. h \in Keys /\ h[1] = b /\ h[2] = stepAt[r]
  BY <1>0, <1>1, KeyTypes DEF StepKey, AddStep, Sorted
<1>3. counter[h] # None /\ counter[k] # None
  BY <1>2 DEF CalmState
<1>4. counter' = [counter EXCEPT ![h] = Plus(@, StepAmount)] /\ open' = [open EXCEPT ![h] = @ \ {}]
  <2>1. RunAdjust(h, StepAmount, {})
    BY <1>1 DEF AddStep
  <2>2. \A x \in Dims : counter[h][x] + StepAmount[x] >= 0
    BY <1>2, <1>3, FigureTypes
  <2>3. StepAmount \in [Dims -> Int]
    BY CorrectionType
  <2> QED BY <1>2, <1>3, <2>1, <2>2, <2>3, CalmAdjust
<1>5. UNCHANGED <<usage, actual, open>>
  BY <1>2, <1>4 DEF AddStep, Turn, TypeOK
<1>6. SetAside(r, k, d)' = SetAside(r, k, d)
  BY <1>5 DEF SetAside
<1>7. r \notin Unmoved(k) /\ r \notin Unmoved(k)'
  BY DEF AddStep, Turn, Unmoved, TypeOK
<1>8. b \in Binding[r] /\ pc[r] = "stepAdding" /\ b \in moving[r]
  BY <1>0 DEF AddStep, Turn, Sorted
<1>9. k = h <=> k[1] = b /\ k[2] = stepAt[r]
  BY <1>2 DEF Keys
<1>10. r \in StepUnmoved(k)' <=> r \in StepUnmoved(k) /\ k # h
  BY <1>8, <1>9 DEF AddStep, Turn, StepUnmoved, SteppedOn, TypeOK
<1>11. r \in StepUnmoved(h)
  BY <1>2, <1>8 DEF StepUnmoved, SteppedOn
<1>12. CASE k = h
  <2>1. counter'[k][d] = counter[k][d] + StepAmount[d]
    BY <1>2, <1>4, <1>12 DEF TypeOK, Plus
  <2>2. Pending(r, k, d) = StepAmount[d] /\ Pending(r, k, d)' = 0
    BY <1>3, <1>7, <1>10, <1>11, <1>12, FigureTypes DEF Pending
  <2> QED BY <1>3, <1>5, <1>6, <2>1, <2>2, FigureTypes DEF Balanced
<1>13. CASE k # h
  <2>1. counter'[k] = counter[k]
    BY <1>2, <1>4, <1>13 DEF TypeOK
  <2>2. Pending(r, k, d)' = Pending(r, k, d)
    BY <1>5, <1>7, <1>10, <1>13 DEF Pending
  <2> QED BY <1>5, <1>6, <2>1, <2>2 DEF Balanced
<1> QED BY <1>12, <1>13

\* A counter holds what each reservation open beside it takes back.
LEMMA CounterHolds ==
    ASSUME TypeOK, CounterCoversOpen, ~flushed, NEW h \in Keys, counter[h] # None,
           NEW r \in open[h], NEW d \in Dims
    PROVE  counter[h][d] >= Estimate[r][d]
<1>1. counter[h][d] >= Total(open[h], Estimate)[d]
  BY DEF CounterCoversOpen
<1>2. open[h] \in SUBSET Requests /\ Estimate \in [Requests -> Amounts] /\ r \in Requests
  BY ExactTypes
<1>3. Total(open[h], Estimate)[d] = Total(open[h] \ {r}, Estimate)[d] + Estimate[r][d]
  BY <1>2, TotalShare DEF Share
<1>4. Total(open[h] \ {r}, Estimate)[d] \in Nat /\ Estimate[r][d] \in Nat
  BY <1>2, TotalType DEF Amounts
<1>5. counter[h][d] \in Nat
  BY <1>2, FigureTypes
<1> QED BY <1>1, <1>3, <1>4, <1>5

\* A correction takes the estimate out of the counter as the reservation
\* closes, and adds what was still to be added.
LEMMA MoveBalances ==
    ASSUME TypeOK, Discipline, OwnedIsOpen, CounterCoversOpen, CalmState,
           NEW r \in Requests, NEW b \in Budgets, Move(r, b), ~Unavailable(Home[r]),
           NEW k \in Keys, NEW d \in Dims
    PROVE  open'[k] \ {r} = open[k] \ {r} /\ Balanced(r, k, d)
<1>1. PICK h : h = Key(r, b)
  OBVIOUS
<1>2. h \in Keys /\ h[1] = b /\ h[2] = admitted[r]
  BY <1>1, KeyTypes DEF Key
<1>3. Sorted(r) /\ Orderly(r) /\ counter[h] # None /\ counter[k] # None /\ ~flushed
  BY <1>2 DEF CalmState, Discipline
<1>4. b \in moving[r] /\ b \in held[r] /\ pc[r] \in {"settling"} \cup Handing
  BY <1>3 DEF Move, Turn, Orderly
<1>5. r \in open[h]
  BY <1>2, <1>3, <1>4 DEF OwnedIsOpen, Owns
<1>6. /\ counter' = [counter EXCEPT ![h] = Plus(@, Correction(r))]
      /\ open' = [open EXCEPT ![h] = @ \ {r}]
  <2>1. RunAdjust(h, Correction(r), {r})
    BY <1>1 DEF Move
  <2>2. ASSUME NEW x \in Dims PROVE counter[h][x] + Correction(r)[x] >= 0
    <3>1. counter[h][x] >= Estimate[r][x]
      BY <1>2, <1>3, <1>5, CounterHolds
    <3>2. counter[h][x] \in Nat /\ Estimate[r][x] \in Nat /\ actual[r][x] \in Nat
      BY <1>2, <1>3, FigureTypes
    <3>3. \/ Correction(r)[x] = actual[r][x] - Estimate[r][x]
          \/ Correction(r)[x] = 0 - Estimate[r][x]
      BY DEF Correction, Minus, Zero
    <3> QED BY <3>1, <3>2, <3>3
  <2>3. Correction(r) \in [Dims -> Int]
    BY CorrectionType
  <2> QED BY <1>2, <1>3, <2>1, <2>2, <2>3, CalmAdjust
<1>7. UNCHANGED <<usage, actual>>
  BY DEF Move, Turn
<1>8. r \notin StepUnmoved(k) /\ r \notin StepUnmoved(k)'
  BY DEF Move, Turn, StepUnmoved, TypeOK, Handing
<1>9. k = h <=> k[1] = b /\ k[2] = admitted[r]
  BY <1>2 DEF Keys
<1>10. r \in Unmoved(k)' <=> r \in Unmoved(k) /\ k # h
  BY <1>4, <1>9 DEF Move, Turn, Unmoved, BookedOn, TypeOK, Handing, outcome
<1>11. r \in Unmoved(h) <=> pc[r] = "settling"
  <2>1. pc[r] = "settling" => b \in Binding[r] /\ r \in answered
    BY <1>3, <1>4 DEF Sorted
  <2> QED BY <1>2, <1>4, <2>1 DEF Unmoved, BookedOn, Handing
<1>12. CASE k = h
  <2>1. counter'[k][d] = counter[k][d] + Correction(r)[d] /\ open'[k] = open[k] \ {r}
    BY <1>2, <1>6, <1>12 DEF TypeOK, Plus
  <2>2. SetAside(r, k, d) = Estimate[r][d] /\ SetAside(r, k, d)' = 0
    BY <1>5, <1>12, <2>1 DEF SetAside
  <2>3. Pending(r, k, d)' = 0
    BY <1>8, <1>10, <1>12 DEF Pending
  <2>4. Correction(r)[d] = Pending(r, k, d) - Estimate[r][d]
    BY <1>3, <1>8, <1>11, <1>12, FigureTypes DEF Correction, Minus, Zero, Pending
  <2>5. counter'[k][d] + 0 + Estimate[r][d] + usage[k][d]
          = counter[k][d] + Pending(r, k, d) + 0 + usage[k][d]
    BY <1>3, <2>1, <2>4, FigureTypes
  <2> QED BY <1>7, <2>1, <2>2, <2>3, <2>5 DEF Balanced
<1>13. CASE k # h
  <2>1. counter'[k] = counter[k] /\ open'[k] = open[k]
    BY <1>2, <1>6, <1>13 DEF TypeOK
  <2>2. Pending(r, k, d)' = Pending(r, k, d)
    BY <1>7, <1>8, <1>10, <1>13 DEF Pending
  <2>3. SetAside(r, k, d)' = SetAside(r, k, d)
    BY <2>1 DEF SetAside
  <2> QED BY <1>7, <2>1, <2>2, <2>3 DEF Balanced
<1> QED BY <1>12, <1>13

\* While it is calm every step of a request keeps the books.
LEMMA CalmBalances ==
    ASSUME TypeOK, Discipline, OpenHasOwner, OwnedIsOpen, CounterCoversOpen, Calm, CalmState,
           NEW r \in Requests, CalmAct(r), ~Unavailable(Home[r]), NEW k \in Keys, NEW d \in Dims
    PROVE  open'[k] \ {r} = open[k] \ {r} /\ Balanced(r, k, d)
<1>0. Orderly(r)
  BY DEF Discipline
<1>1. CASE Record(r)
  BY <1>0, <1>1, RecordBalances
<1>2. CASE BookSideCall(r)
  BY <1>2, SideCallBalances
<1>3. CASE \E b \in Budgets : AddStep(r, b) \/ AddLifted(r, b) \/ Move(r, b)
  BY <1>3, AddStepBalances, AddLiftedBalances, MoveBalances
<1>4. CASE /\ ~Record(r) /\ ~BookSideCall(r)
           /\ ~\E b \in Budgets : AddStep(r, b) \/ AddLifted(r, b) \/ Move(r, b)
  <2>1. SameBooks(r, k)
    BY <1>0, <1>4, QuietBooks
  <2>2. UNCHANGED usage
    BY <1>0, <1>4, CalmIsLocal, StepUntouched
  <2>3. CASE UNCHANGED <<counter, open>>
    BY <2>1, <2>2, <2>3, QuietBalances DEF stores
  <2>4. CASE pc[r] = "reserving" /\ seed[r] # None /\ \E taken \in BOOLEAN : RunReserve(r, taken)
    BY <1>0, <2>1, <2>2, <2>4, NotYetOpen, ReserveBalances
  <2>5. CASE Reserve(r) \/ Breach(r) \/ Interrupt(r)
    BY <2>3, <2>4, <2>5 DEF Reserve, Breach, Interrupt
  <2>6. CASE \/ EarlyGate(r) \/ Guard(r) \/ \E b \in Budgets : ReadSeed(r, b)
             \/ Answer(r) \/ Fail(r) \/ InterruptUnshielded(r) \/ InterruptPipeline(r)
    BY <2>3, <2>6 DEF EarlyGate, Guard, ReadSeed, Answer, Fail, InterruptUnshielded,
       InterruptPipeline, stores
  <2> QED BY <1>4, <2>5, <2>6 DEF CalmAct
<1> QED BY <1>1, <1>2, <1>3, <1>4

\* Every step keeps the counters exact.
LEMMA ExactStep ==
    ASSUME TypeOK, TypeOK', Discipline, OpenHasOwner, OwnedIsOpen, CounterCoversOpen,
           InCalm, InCalm', CounterExact, [Next]_vars
    PROVE  CounterExact'
<1> SUFFICES ASSUME Calm', NEW k \in Keys, NEW d \in Dims PROVE Exact(k, d)'
  <2>1. ASSUME Calm', NEW k \in Keys, \A d \in Dims : Exact(k, d)'
        PROVE  Plus(counter'[k], Plus(Total(Unmoved(k)', actual'), Total(StepUnmoved(k)', Steps)))
                 = Plus(usage'[k], Total(open'[k], Estimate))
    BY <2>1, ExactMeansThen DEF InCalm, CalmState
  <2>2. Steps' = Steps
    BY DEF Steps
  <2> QED BY <2>1, <2>2 DEF CounterExact, Calm
<1>1. Calm /\ CalmState
  BY CalmNext
<1>2. counter[k] # None /\ counter'[k] # None
  BY <1>1 DEF InCalm, CalmState
<1>3. Exact(k, d)
  BY <1>1, <1>2, ExactMeans DEF CounterExact, Calm
<1>4. ASSUME NEW r \in Requests, CalmAct(r), ~Unavailable(Home[r]) PROVE Exact(k, d)'
  BY <1>1, <1>2, <1>3, <1>4, CalmBalances, CalmIsLocal, OwnBooks DEF Balanced
<1>5. CASE NextPeriod \/ UNCHANGED vars
  BY <1>3, <1>5 DEF NextPeriod, vars, stores, request, outcome, Exact, Unmoved, StepUnmoved,
     BookedOn, SteppedOn, Steps
<1> QED BY <1>4, <1>5, CalmNext

\* While Redis answers and keeps its counters, a counter of budgets/ledger.py is
\* to the unit what Postgres has booked plus what is set aside, short only of
\* what settle and _add_to_counters have still to add: however many requests,
\* budgets, refusals, releases and cancellations there were, nothing drifts.
THEOREM CountersAreExact == Spec => []CounterExact
<1>1. Init => CounterExact
  <2> SUFFICES ASSUME Init, Calm, NEW k \in Keys
               PROVE  Plus(counter[k], Plus(Total(Unmoved(k), actual),
                                            Total(StepUnmoved(k), Steps)))
                        = Plus(usage[k], Total(open[k], Estimate))
    BY DEF CounterExact
  <2>1. Unmoved(k) = {} /\ StepUnmoved(k) = {} /\ open[k] = {}
    BY DEF Init, Unmoved, StepUnmoved, BookedOn, SteppedOn
  <2>2. ASSUME NEW amt PROVE Total({}, amt) = Zero
    <3>1. ASSUME NEW d \in Dims PROVE Cardinality(Units({}, amt, d)) = 0
      <4>1. Units({}, amt, d) = {}
        BY DEF Units
      <4> QED BY <4>1, FS_EmptySet
    <3> QED BY <3>1 DEF Total, Units, Zero
  <2>3. counter[k] = Zero /\ usage[k] = Zero
    BY DEF Init, Calm
  <2>4. Plus(Zero, Zero) = Zero
    BY DEF Plus, Zero
  <2> QED BY <2>1, <2>2, <2>3, <2>4
<1>2. TypeOK /\ TypeOK' /\ Discipline /\ OpenHasOwner /\ OwnedIsOpen /\ CounterCoversOpen
        /\ InCalm /\ InCalm' /\ CounterExact /\ [Next]_vars
        => CounterExact'
  BY ExactStep
<1> QED BY <1>1, <1>2, CalmHolds, CountersCoverReservations, ReservationsAreOpen,
        ReservationsAreOwned, Disciplined, TypeCorrect, PTL DEF Spec
-----------------------------------------------------------------------------
(* No budget is passed by more than an estimate *)

\* The pipeline calls the counter has taken in.
Through(k) == SteppedOn(k) \ StepUnmoved(k)

\* What NoOvershoot says of Postgres the counter keeps first.
CounterWithin ==
    Calm => \A k \in Keys, d \in Dims :
        HighEstimates(k, d) =>
            Within(k, d, counter[k][d] - Total(Through(k), Steps)[d])

\* Only a smaller figure is as good.
LEMMA WithinSmaller ==
    ASSUME NEW k \in Keys, NEW d \in Dims, NEW x \in Int, NEW y \in Int,
           Within(k, d, x), y <= x
    PROVE  Within(k, d, y)
<1>1. Limit[k[1]][d] \in Int
  BY AmountsAssumption DEF Keys
<1>2. \A r \in Requests : Estimate[r][d] \in Int
  BY AmountsAssumption DEF Amounts
<1> QED BY <1>1, <1>2 DEF Within

\* What an answered request booked, and where, is settled.
LEMMA AnsweredFixed ==
    ASSUME TypeOK, NEW r \in Requests, Orderly(r), CalmAct(r), r \in answered
    PROVE  /\ r \in answered' /\ admitted'[r] = admitted[r]
           /\ lifted'[r] = lifted[r] /\ actual'[r] = actual[r]
<1>1. pc[r] \notin BeforeAnswer
  BY DEF Orderly
<1>2. CASE EarlyGate(r) \/ BookSideCall(r) \/ Guard(r) \/ Answer(r)
  BY <1>1, <1>2 DEF EarlyGate, BookSideCall, Guard, Answer, BeforeAnswer, BeforeGuard
<1>3. CASE \E b \in Budgets : ReadSeed(r, b)
  BY <1>3 DEF ReadSeed, outcome
<1>4. CASE Reserve(r) \/ Breach(r) \/ Fail(r) \/ Record(r)
  BY <1>4 DEF Reserve, Breach, Fail, Record, outcome
<1>5. CASE \E b \in Budgets : AddStep(r, b) \/ AddLifted(r, b) \/ Move(r, b)
  BY <1>5 DEF AddStep, AddLifted, Move, Turn, outcome
<1>6. CASE Interrupt(r) \/ InterruptUnshielded(r) \/ InterruptPipeline(r)
  BY <1>6 DEF Interrupt, InterruptUnshielded, InterruptPipeline, outcome
<1> QED BY <1>2, <1>3, <1>4, <1>5, <1>6 DEF CalmAct

\* Estimates that turn out to have erred high erred high before.
LEMMA HighBefore ==
    ASSUME TypeOK, Discipline, NEW r \in Requests, CalmAct(r), NEW k \in Keys, NEW d \in Dims,
           HighEstimates(k, d)'
    PROVE  HighEstimates(k, d)
<1>1. ASSUME NEW q \in BookedOn(answered, k)
      PROVE  k[1] \notin lifted[q] /\ actual[q][d] <= Estimate[q][d]
  <2>1. q \in Requests /\ q \in answered
    BY DEF BookedOn, TypeOK
  <2>2. /\ q \in answered' /\ admitted'[q] = admitted[q]
        /\ lifted'[q] = lifted[q] /\ actual'[q] = actual[q]
    <3>1. CASE q = r
      BY <2>1, <3>1, AnsweredFixed DEF Discipline
    <3>2. CASE q # r
      BY <2>1, <3>2, CalmIsLocal DEF Same
    <3> QED BY <3>1, <3>2
  <2>3. q \in BookedOn(answered, k)'
    BY <2>2 DEF BookedOn
  <2> QED BY <2>2, <2>3 DEF HighEstimates
<1> QED BY <1>1 DEF HighEstimates

\* What r's own call has put into the counter.
OwnCall(r, k, d) == IF r \in Through(k) THEN StepAmount[d] ELSE 0

\* A step that changes one request changes the calls in the counter by its own.
LEMMA OwnCalls ==
    ASSUME TypeOK, TypeOK', NEW r \in Requests, \A q \in Requests \ {r} : Same(q),
           NEW k \in Keys, NEW d \in Dims
    PROVE  \E n \in Nat : /\ Total(Through(k), Steps)[d] = n + OwnCall(r, k, d)
                          /\ Total(Through(k)', Steps)[d] = n + OwnCall(r, k, d)'
                          /\ OwnCall(r, k, d) \in Nat /\ OwnCall(r, k, d)' \in Nat
<1>1. Through(k) \in SUBSET Requests /\ Through(k)' \in SUBSET Requests
  BY DEF Through, SteppedOn
<1>2. Through(k)' \ {r} = Through(k) \ {r}
  <2>1. ASSUME NEW q \in Requests \ {r} PROVE q \in Through(k)' <=> q \in Through(k)
    BY DEF Same, Through, StepUnmoved, SteppedOn
  <2> QED BY <1>1, <2>1
<1>3. Steps \in [Requests -> Amounts]
  BY AmountsAssumption DEF Steps
<1>4. Share(r, Through(k), Steps, d) = OwnCall(r, k, d)
  BY DEF Share, OwnCall, Steps
<1>5. Share(r, Through(k)', Steps, d) = OwnCall(r, k, d)'
  BY DEF Share, OwnCall, Steps
<1> QED BY <1>1, <1>2, <1>3, <1>4, <1>5, ShareMoves

\* The counter grows by no more than the request's own call, or it stays
\* within the limit.
NoFurther(r, k, d) ==
    \/ counter'[k][d] + OwnCall(r, k, d) <= counter[k][d] + OwnCall(r, k, d)'
    \/ Within(k, d, counter'[k][d])

\* The calls in the counter change only where one is booked or added.
LEMMA CallsStay ==
    ASSUME TypeOK, CalmState, NEW r \in Requests, Orderly(r), CalmAct(r), NEW k \in Keys,
           NEW d \in Dims, ~BookSideCall(r), ~\E b \in Budgets : AddStep(r, b)
    PROVE  OwnCall(r, k, d)' = OwnCall(r, k, d)
<1>1. stepAt'[r] = stepAt[r]
  <2>1. CASE EarlyGate(r) \/ Guard(r) \/ \E b \in Budgets : ReadSeed(r, b)
    BY <2>1 DEF EarlyGate, Guard, ReadSeed
  <2>2. CASE Reserve(r) \/ Breach(r) \/ Answer(r) \/ Fail(r) \/ Record(r)
    BY <2>2 DEF Reserve, Breach, Answer, Fail, Record
  <2>3. CASE \E b \in Budgets : AddLifted(r, b) \/ Move(r, b)
    BY <2>3 DEF AddLifted, Move, Turn
  <2>4. CASE Interrupt(r) \/ InterruptUnshielded(r) \/ InterruptPipeline(r)
    BY <2>4 DEF Interrupt, InterruptUnshielded, InterruptPipeline
  <2> QED BY <2>1, <2>2, <2>3, <2>4 DEF CalmAct
<1>2. r \in StepUnmoved(k)' <=> r \in StepUnmoved(k)
  <2>1. CASE Record(r)
    BY <2>1 DEF Record, AfterLifted, StepUnmoved, SteppedOn, TypeOK, CalmState, Sorted
  <2>2. CASE \E b \in Budgets : AddLifted(r, b)
    BY <2>2 DEF AddLifted, AfterLifted, StepUnmoved, SteppedOn, TypeOK
  <2>3. CASE \E b \in Budgets : Move(r, b)
    BY <2>3 DEF Move, Turn, StepUnmoved, SteppedOn, TypeOK, Handing
  <2>4. CASE ~Record(r) /\ ~\E b \in Budgets : AddLifted(r, b) \/ Move(r, b)
    BY <2>4, QuietBooks DEF SameBooks
  <2> QED BY <2>1, <2>2, <2>3, <2>4
<1> QED BY <1>1, <1>2 DEF OwnCall, Through, SteppedOn

\* Below the limit an estimate more is within it.
LEMMA ReserveNoFurther ==
    ASSUME TypeOK, CalmState, NEW r \in Requests, seed[r] # None, NEW taken \in BOOLEAN,
           RunReserve(r, taken), NEW k \in Keys, NEW d \in Dims, Limit[k[1]][d] >= 0,
           OwnCall(r, k, d)' = OwnCall(r, k, d)
    PROVE  NoFurther(r, k, d)
<1>1. PICK h : h = Key(r, seed[r].budget)
  OBVIOUS
<1>2. h \in Keys /\ h[1] = seed[r].budget
  BY <1>1, KeyTypes DEF TypeOK, Key
<1>3. counter[h] # None /\ counter[k] # None
  BY <1>2 DEF CalmState
<1>4. /\ counter' = [counter EXCEPT ![h] = IF taken THEN Plus(@, Estimate[r]) ELSE @]
      /\ taken <=> ~AtLimit(seed[r].budget, counter[h])
  BY <1>1, <1>3, CalmReserve
<1>5. /\ counter[k][d] \in Nat /\ Estimate[r][d] \in Nat /\ OwnCall(r, k, d) \in Nat
      /\ Limit[k[1]][d] \in Int
  BY <1>3, FigureTypes, AmountsAssumption DEF OwnCall, Keys
<1>6. CASE taken /\ k = h
  <2>1. counter'[k][d] = counter[k][d] + Estimate[r][d]
    BY <1>2, <1>4, <1>6 DEF TypeOK, Plus
  <2>2. counter[k][d] < Limit[k[1]][d]
    BY <1>2, <1>4, <1>5, <1>6 DEF AtLimit
  <2>3. counter'[k][d] < Limit[k[1]][d] + Estimate[r][d]
    BY <1>5, <2>1, <2>2
  <2> QED BY <2>3 DEF NoFurther, Within
<1>7. CASE ~(taken /\ k = h)
  <2>1. counter'[k] = counter[k]
    BY <1>2, <1>4, <1>7 DEF TypeOK
  <2> QED BY <1>5, <2>1 DEF NoFurther
<1> QED BY <1>6, <1>7

\* A correction that is not above zero takes a counter no further.
LEMMA MoveNoFurther ==
    ASSUME TypeOK, Discipline, CalmState, NEW r \in Requests, NEW b \in Budgets, Move(r, b),
           ~Unavailable(Home[r]), NEW k \in Keys, NEW d \in Dims, HighEstimates(k, d),
           OwnCall(r, k, d)' = OwnCall(r, k, d)
    PROVE  NoFurther(r, k, d)
<1>1. PICK h : h = Key(r, b)
  OBVIOUS
<1>2. h \in Keys /\ h[1] = b /\ h[2] = admitted[r]
  BY <1>1, KeyTypes DEF Key
<1>3. Sorted(r) /\ Orderly(r) /\ counter[h] # None /\ counter[k] # None
  BY <1>2 DEF CalmState, Discipline
<1>4. counter' = [counter EXCEPT ![h] = Clamped(Plus(@, Correction(r)))]
  BY <1>1, <1>2, <1>3 DEF Move, RunAdjust
<1>5. /\ counter[k][d] \in Nat /\ Estimate[r][d] \in Nat /\ actual[r][d] \in Nat
      /\ OwnCall(r, k, d) \in Nat
  BY <1>3, FigureTypes DEF OwnCall
<1>6. CASE k = h
  <2>1. counter'[k][d] = IF counter[k][d] + Correction(r)[d] < 0 THEN 0
                         ELSE counter[k][d] + Correction(r)[d]
    BY <1>2, <1>4, <1>6 DEF TypeOK, Clamped, Plus
  <2>2. CASE pc[r] = "settling"
    <3>1. r \in BookedOn(answered, k)
      BY <1>2, <1>3, <1>6, <2>2 DEF BookedOn, Move, Turn, Orderly, Sorted
    <3>2. actual[r][d] <= Estimate[r][d]
      BY <3>1 DEF HighEstimates
    <3>3. Correction(r)[d] = actual[r][d] - Estimate[r][d]
      BY <2>2 DEF Correction, Minus
    <3> QED BY <1>5, <2>1, <3>2, <3>3 DEF NoFurther
  <2>3. CASE pc[r] # "settling"
    <3>1. Correction(r)[d] = 0 - Estimate[r][d]
      BY <2>3 DEF Correction, Minus, Zero
    <3> QED BY <1>5, <2>1, <3>1 DEF NoFurther
  <2> QED BY <2>2, <2>3
<1>7. CASE k # h
  <2>1. counter'[k] = counter[k]
    BY <1>2, <1>4, <1>7 DEF TypeOK
  <2> QED BY <1>5, <2>1 DEF NoFurther
<1> QED BY <1>6, <1>7

\* Nor does a lifted budget's, where no budget was lifted.
LEMMA AddLiftedNoFurther ==
    ASSUME TypeOK, CalmState, NEW r \in Requests, NEW b \in Budgets, AddLifted(r, b),
           ~Unavailable(Home[r]), NEW k \in Keys, NEW d \in Dims, HighEstimates(k, d),
           OwnCall(r, k, d)' = OwnCall(r, k, d)
    PROVE  NoFurther(r, k, d)
<1>1. PICK h : h = Key(r, b)
  OBVIOUS
<1>2. h \in Keys /\ h[1] = b /\ h[2] = admitted[r]
  BY <1>1, KeyTypes DEF Key
<1>3. Sorted(r) /\ counter[k] # None
  BY DEF CalmState
<1>4. k # h
  <2>1. b \in lifted[r] /\ r \in answered /\ b \in Binding[r]
    BY <1>3 DEF AddLifted, Sorted
  <2>2. r \in BookedOn(answered, h)
    BY <1>2, <2>1 DEF BookedOn
  <2> QED BY <1>2, <2>1, <2>2 DEF HighEstimates
<1>5. counter'[k] = counter[k]
  BY <1>1, <1>2, <1>4 DEF AddLifted, RunAdjust, TypeOK
<1>6. counter[k][d] \in Nat /\ OwnCall(r, k, d) \in Nat
  BY <1>3, FigureTypes DEF OwnCall
<1> QED BY <1>5, <1>6 DEF NoFurther

\* A pipeline's call grows the counter by what it is.
LEMMA AddStepNoFurther ==
    ASSUME TypeOK, TypeOK', CalmState, NEW r \in Requests, NEW b \in Budgets, AddStep(r, b),
           ~Unavailable(Home[r]), NEW k \in Keys, NEW d \in Dims
    PROVE  NoFurther(r, k, d)
<1>1. counter[k] # None
  BY DEF CalmState
<1>2. Balanced(r, k, d)
  BY AddStepBalances
<1>3. UNCHANGED <<usage, open, stepAt>>
  <2>1. UNCHANGED open
    BY DEF AddStep, RunAdjust, TypeOK
  <2> QED BY <2>1 DEF AddStep, Turn
<1>4. SetAside(r, k, d)' = SetAside(r, k, d)
  BY <1>3 DEF SetAside
<1>5. r \notin Unmoved(k) /\ r \notin Unmoved(k)'
  BY DEF AddStep, Turn, Unmoved, TypeOK
<1>6. /\ counter[k][d] \in Nat /\ usage[k][d] \in Nat /\ StepAmount[d] \in Nat
      /\ SetAside(r, k, d) \in Nat
  BY <1>1, FigureTypes
<1>7. /\ Pending(r, k, d) = IF r \in StepUnmoved(k) THEN StepAmount[d] ELSE 0
      /\ Pending(r, k, d)' = IF r \in StepUnmoved(k)' THEN StepAmount[d] ELSE 0
  BY <1>5, <1>6 DEF Pending
<1>8. (r \in SteppedOn(k)' <=> r \in SteppedOn(k))
        /\ StepUnmoved(k) \subseteq SteppedOn(k) /\ StepUnmoved(k)' \subseteq SteppedOn(k)'
  BY <1>3 DEF SteppedOn, StepUnmoved
<1>9. counter'[k] # None
  <2>1. CalmAct(r)
    BY DEF CalmAct
  <2> QED BY <2>1, CountersStay
<1>10. counter'[k][d] \in Nat
  BY <1>9 DEF TypeOK, Amounts
<1>11. Pending(r, k, d) \in Nat /\ Pending(r, k, d)' \in Nat
  BY <1>6, <1>7
<1>12. counter'[k][d] + Pending(r, k, d)' = counter[k][d] + Pending(r, k, d)
  BY <1>2, <1>3, <1>4, <1>6, <1>10, <1>11 DEF Balanced
<1>13. CASE r \in SteppedOn(k)
  <2>1. /\ OwnCall(r, k, d) = StepAmount[d] - Pending(r, k, d)
        /\ OwnCall(r, k, d)' = StepAmount[d] - Pending(r, k, d)'
    BY <1>6, <1>7, <1>8, <1>13 DEF OwnCall, Through
  <2> QED BY <1>6, <1>10, <1>11, <1>12, <2>1 DEF NoFurther
<1>14. CASE r \notin SteppedOn(k)
  <2>1. /\ OwnCall(r, k, d) = 0 /\ OwnCall(r, k, d)' = 0
        /\ Pending(r, k, d) = 0 /\ Pending(r, k, d)' = 0
    BY <1>7, <1>8, <1>14 DEF OwnCall, Through
  <2> QED BY <1>6, <1>10, <1>12, <2>1 DEF NoFurther
<1> QED BY <1>13, <1>14

\* No calm step takes a counter further past its limit than an estimate.
LEMMA CalmNoFurther ==
    ASSUME TypeOK, TypeOK', Discipline, CalmState, NEW r \in Requests, CalmAct(r),
           ~Unavailable(Home[r]), NEW k \in Keys, NEW d \in Dims, HighEstimates(k, d)
    PROVE  NoFurther(r, k, d)
<1>0. Orderly(r) /\ counter[k] # None
  BY DEF Discipline, CalmState
<1>1. counter[k][d] \in Nat /\ OwnCall(r, k, d) \in Nat /\ StepAmount[d] \in Nat
  BY <1>0, FigureTypes DEF OwnCall
<1>2. CASE \E b \in Budgets : AddStep(r, b)
  BY <1>2, AddStepNoFurther
<1>3. CASE BookSideCall(r)
  <2>1. counter' = counter /\ stepAt[r] = 0
    BY <1>3 DEF BookSideCall
  <2>2. r \notin SteppedOn(k)
    BY <2>1, BoundsAssumption DEF SteppedOn, Keys
  <2>3. OwnCall(r, k, d) = 0 /\ OwnCall(r, k, d)' \in Nat
    BY <1>1, <2>2 DEF OwnCall, Through
  <2> QED BY <1>1, <2>1, <2>3 DEF NoFurther
<1>4. CASE ~BookSideCall(r) /\ ~\E b \in Budgets : AddStep(r, b)
  <2>1. OwnCall(r, k, d)' = OwnCall(r, k, d)
    BY <1>0, <1>4, CallsStay
  <2>2. CASE UNCHANGED counter
    BY <1>1, <2>1, <2>2 DEF NoFurther
  <2>3. CASE seed[r] # None /\ \E taken \in BOOLEAN : RunReserve(r, taken)
    BY <2>1, <2>3, ReserveNoFurther DEF HighEstimates
  <2>4. CASE Reserve(r) \/ Breach(r) \/ Interrupt(r)
    BY <2>2, <2>3, <2>4 DEF Reserve, Breach, Interrupt
  <2>5. CASE \E b \in Budgets : AddLifted(r, b)
    BY <2>1, <2>5, AddLiftedNoFurther
  <2>6. CASE \E b \in Budgets : Move(r, b)
    BY <2>1, <2>6, MoveNoFurther
  <2>7. CASE \/ EarlyGate(r) \/ Guard(r) \/ \E b \in Budgets : ReadSeed(r, b)
             \/ Answer(r) \/ Fail(r) \/ Record(r)
             \/ InterruptUnshielded(r) \/ InterruptPipeline(r)
    BY <2>2, <2>7 DEF EarlyGate, Guard, ReadSeed, Answer, Fail, Record, InterruptUnshielded,
       InterruptPipeline, stores
  <2> QED BY <1>4, <2>4, <2>5, <2>6, <2>7 DEF CalmAct
<1> QED BY <1>2, <1>3, <1>4

\* Every step keeps the counters within the limits.
LEMMA WithinStep ==
    ASSUME TypeOK, TypeOK', Discipline, InCalm, InCalm', CounterWithin, [Next]_vars
    PROVE  CounterWithin'
<1> SUFFICES ASSUME Calm', NEW k \in Keys, NEW d \in Dims, HighEstimates(k, d)'
             PROVE  Within(k, d, counter'[k][d] - Total(Through(k)', Steps)[d])
  <2>1. Steps' = Steps
    BY DEF Steps
  <2> QED BY <2>1 DEF CounterWithin, Within
<1>1. Calm /\ CalmState
  BY CalmNext
<1>2. counter[k] # None /\ counter'[k] # None
  BY <1>1 DEF InCalm, CalmState
<1>3. counter[k][d] \in Nat /\ counter'[k][d] \in Nat
  BY <1>2 DEF TypeOK, Amounts
<1>4. ASSUME NEW r \in Requests, CalmAct(r), ~Unavailable(Home[r])
      PROVE  Within(k, d, counter'[k][d] - Total(Through(k)', Steps)[d])
  <2>1. HighEstimates(k, d)
    BY <1>4, HighBefore
  <2>2. Within(k, d, counter[k][d] - Total(Through(k), Steps)[d])
    BY <1>1, <2>1 DEF CounterWithin
  <2>3. NoFurther(r, k, d)
    BY <1>1, <1>4, <2>1, CalmNoFurther
  <2> DEFINE own == OwnCall(r, k, d)
             new == OwnCall(r, k, d)'
             c == counter[k][d]
             cnew == counter'[k][d]
  <2>4. PICK n \in Nat : /\ Total(Through(k), Steps)[d] = n + own
                         /\ Total(Through(k)', Steps)[d] = n + new
                         /\ own \in Nat /\ new \in Nat
    <3>1. Steps' = Steps
      BY DEF Steps
    <3> QED BY <1>4, <3>1, CalmIsLocal, OwnCalls
  <2>5. c \in Nat /\ cnew \in Nat
    BY <1>3
  <2>6. CASE cnew + own <= c + new
    <3>1. Within(k, d, c - (n + own))
      BY <2>2, <2>4
    <3> HIDE DEF own, new, c, cnew
    <3>2. /\ c - (n + own) \in Int /\ cnew - (n + new) \in Int
          /\ cnew - (n + new) <= c - (n + own)
      BY <2>4, <2>5, <2>6
    <3>3. Within(k, d, cnew - (n + new))
      BY <3>1, <3>2, WithinSmaller
    <3> QED BY <2>4, <3>3 DEF cnew
  <2>7. CASE Within(k, d, cnew)
    <3> HIDE DEF own, new, c, cnew
    <3>1. cnew - (n + new) \in Int /\ cnew \in Int /\ cnew - (n + new) <= cnew
      BY <2>4, <2>5
    <3>2. Within(k, d, cnew - (n + new))
      BY <2>7, <3>1, WithinSmaller
    <3> QED BY <2>4, <3>2 DEF cnew
  <2> QED BY <2>3, <2>6, <2>7 DEF NoFurther
<1>5. CASE NextPeriod \/ UNCHANGED vars
  <2>1. /\ counter' = counter /\ Through(k)' = Through(k)
        /\ HighEstimates(k, d)
    BY <1>5 DEF NextPeriod, vars, stores, request, outcome, Through, StepUnmoved, SteppedOn,
       HighEstimates, BookedOn
  <2> QED BY <1>1, <2>1 DEF CounterWithin
<1> QED BY <1>4, <1>5, CalmNext

\* Where the estimates err high, what Postgres has booked beyond the counter
\* is the pipeline calls still to be added.
LEMMA UsageAtMost ==
    ASSUME TypeOK, OwnedIsOpen, InCalm, CounterExact, Calm, NEW k \in Keys, NEW d \in Dims,
           HighEstimates(k, d)
    PROVE  usage[k][d] - Total(SteppedOn(k), Steps)[d]
             <= counter[k][d] - Total(Through(k), Steps)[d]
<1>0. /\ Unmoved(k) \in SUBSET Requests /\ StepUnmoved(k) \in SUBSET Requests
      /\ open[k] \in SUBSET Requests
      /\ actual \in [Requests -> Amounts] /\ Steps \in [Requests -> Amounts]
      /\ Estimate \in [Requests -> Amounts]
  BY ExactTypes
<1>1. CalmState /\ counter[k] # None
  BY DEF InCalm, CalmState
<1>2. Exact(k, d)
  BY <1>1, ExactMeans DEF CounterExact
<1>3. Unmoved(k) \subseteq open[k] /\ \A r \in Unmoved(k) : actual[r][d] <= Estimate[r][d]
  <2> SUFFICES ASSUME NEW r \in Unmoved(k)
               PROVE  r \in open[k] /\ actual[r][d] <= Estimate[r][d]
    OBVIOUS
  <2>1. r \in Requests /\ r \in BookedOn(answered, k)
    BY ExactTypes DEF Unmoved
  <2>2. k[1] \notin lifted[r] /\ actual[r][d] <= Estimate[r][d]
    BY <2>1 DEF HighEstimates
  <2>3. Owns(r, k)
    <3>1. Sorted(r)
      BY <1>1, <2>1 DEF CalmState
    <3>2. CASE pc[r] = "adding"
      BY <2>1, <2>2, <3>1, <3>2 DEF Unmoved, BookedOn, Sorted, Owns
    <3>3. CASE pc[r] = "settling"
      BY <2>1, <2>2, <3>1, <3>3 DEF Unmoved, BookedOn, Sorted, Owns
    <3> QED BY <3>2, <3>3 DEF Unmoved
  <2> QED BY <1>1, <2>1, <2>2, <2>3 DEF OwnedIsOpen, CalmState
<1>4. Total(Unmoved(k), actual)[d] <= Total(open[k], Estimate)[d]
  <2>1. Total(Unmoved(k), actual)[d] <= Total(Unmoved(k), Estimate)[d]
    BY <1>3, ExactTypes, TotalAtMost
  <2>2. Total(Unmoved(k), Estimate)[d] <= Total(open[k], Estimate)[d]
    BY <1>3, ExactTypes, TotalMonotone
  <2>3. /\ Total(Unmoved(k), actual) \in Amounts /\ Total(Unmoved(k), Estimate) \in Amounts
        /\ Total(open[k], Estimate) \in Amounts
    BY <1>0, TotalType
  <2>4. /\ Total(Unmoved(k), actual)[d] \in Nat /\ Total(Unmoved(k), Estimate)[d] \in Nat
        /\ Total(open[k], Estimate)[d] \in Nat
    BY <2>3 DEF Amounts
  <2> QED BY <2>1, <2>2, <2>4
<1>5. Total(SteppedOn(k), Steps)[d] = Total(StepUnmoved(k), Steps)[d] + Total(Through(k), Steps)[d]
  <2>1. SteppedOn(k) \in SUBSET Requests /\ StepUnmoved(k) \in SUBSET SteppedOn(k)
    BY DEF SteppedOn, StepUnmoved
  <2> QED BY <2>1, ExactTypes, TotalSplit DEF Through
<1>6. /\ counter[k][d] \in Nat /\ usage[k][d] \in Nat
      /\ Total(Unmoved(k), actual)[d] \in Nat /\ Total(open[k], Estimate)[d] \in Nat
      /\ Total(StepUnmoved(k), Steps)[d] \in Nat /\ Total(Through(k), Steps)[d] \in Nat
  <2>1. Through(k) \in SUBSET Requests
    BY DEF Through, SteppedOn
  <2>2. counter[k][d] \in Nat /\ usage[k][d] \in Nat
    BY <1>1 DEF TypeOK, Amounts
  <2>3. /\ Total(Unmoved(k), actual) \in Amounts /\ Total(open[k], Estimate) \in Amounts
        /\ Total(StepUnmoved(k), Steps) \in Amounts /\ Total(Through(k), Steps) \in Amounts
    BY <1>0, <2>1, TotalType
  <2> QED BY <2>2, <2>3 DEF Amounts
<1> QED BY <1>2, <1>4, <1>5, <1>6 DEF Exact

\* The point of reserving in budgets/service.py: with Redis there, however many
\* concurrent requests share a budget whose limit was lifted for none of them,
\* if their estimates err high then what they book passes the limit by less
\* than the estimate of one of them, beside what pipeline calls added.
THEOREM LimitsHold == Spec => []NoOvershoot
<1>1. Init => CounterWithin
  <2> SUFFICES ASSUME Init, Calm, NEW k \in Keys, NEW d \in Dims, HighEstimates(k, d)
               PROVE  Within(k, d, counter[k][d] - Total(Through(k), Steps)[d])
    BY DEF CounterWithin
  <2>1. Through(k) = {}
    BY BoundsAssumption DEF Init, Through, SteppedOn, Keys
  <2>2. Units({}, Steps, d) = {}
    BY DEF Units
  <2>3. Total(Through(k), Steps)[d] = 0
    BY <2>1, <2>2, FS_EmptySet DEF Total, Units
  <2>4. counter[k][d] = 0
    BY DEF Init, Calm, Zero
  <2>5. 0 <= Limit[k[1]][d] /\ Limit[k[1]][d] \in Int
    BY AmountsAssumption DEF HighEstimates, Keys
  <2> QED BY <2>3, <2>4, <2>5 DEF Within
<1>2. TypeOK /\ TypeOK' /\ Discipline /\ InCalm /\ InCalm' /\ CounterWithin /\ [Next]_vars
        => CounterWithin'
  BY WithinStep
<1>3. TypeOK /\ OwnedIsOpen /\ InCalm /\ CounterExact /\ CounterWithin => NoOvershoot
  <2> SUFFICES ASSUME TypeOK, OwnedIsOpen, InCalm, CounterExact, CounterWithin, Calm,
                      NEW k \in Keys, NEW d \in Dims, HighEstimates(k, d)
               PROVE  Within(k, d, usage[k][d] - Total(SteppedOn(k), Steps)[d])
    BY DEF NoOvershoot
  <2>1. Within(k, d, counter[k][d] - Total(Through(k), Steps)[d])
    BY DEF CounterWithin
  <2>2. counter[k][d] \in Nat /\ usage[k][d] \in Nat
    BY DEF InCalm, CalmState, TypeOK, Amounts
  <2>3. Total(Through(k), Steps)[d] \in Nat /\ Total(SteppedOn(k), Steps)[d] \in Nat
    <3>1. Through(k) \in SUBSET Requests /\ SteppedOn(k) \in SUBSET Requests
      BY DEF Through, SteppedOn
    <3> QED BY <3>1, ExactTypes, TotalType DEF Amounts
  <2> QED BY <2>1, <2>2, <2>3, UsageAtMost, WithinSmaller
<1> QED BY <1>1, <1>2, <1>3, CountersAreExact, CalmHolds, ReservationsAreOpen, Disciplined,
        TypeCorrect, PTL DEF Spec
=============================================================================
