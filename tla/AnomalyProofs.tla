--------------------------- MODULE AnomalyProofs ---------------------------
(***************************************************************************)
(* Proofs about Anomaly, for every value of its constants: what detection  *)
(* records, and what the gate answers.                                     *)
(***************************************************************************)
EXTENDS Anomaly, FiniteSetTheorems, TLAPS

-----------------------------------------------------------------------------
(* Detection.  Who evaluates holds the lock, and the events change only    *)
(* under it, so what was found apart from the events stays apart from      *)
(* them until it is written.                                               *)

\* Whoever evaluates holds the lock.
Claimed == \A i \in Instances : tick[i].pc \in {"evaluating", "evaluated"} => lock = i

\* What a tick has found is no repetition of an event, nor of itself, and acts
\* only where the installation enforces.
FoundApart ==
    \A i \in Instances : tick[i].pc = "evaluated" =>
        \A e \in tick[i].found :
            /\ \A f \in events : f.rule = e.rule /\ f.target = e.target =>
                  e.at >= f.at + Terms[e.rule].window
            /\ \A f \in tick[i].found : f.rule = e.rule /\ f.target = e.target => f = e
            /\ e.taken \in Acted => enforcing

Detected == TypeOK /\ Claimed /\ FoundApart /\ OncePerWindow /\ RecordedAsDone

-----------------------------------------------------------------------------
(* The gate.  A set of suspensions read at some moment and kept in a cache *)
(* or by a request is compared with the suspensions of now.                *)

\* Nothing that was there at t is missing from S but what has run out or been
\* lifted since; and whatever S holds is still there, or was lifted from t on.
Reflects(S, t) ==
    /\ \A s \in suspensions :
          s.at < t /\ s.lifted = None => s \in S \/ (s.expires # None /\ s.expires <= clock)
    /\ \A s \in S : \E x \in suspensions :
          /\ x.target = s.target /\ x.at = s.at /\ x.expires = s.expires
          /\ x.lifted = None \/ x.lifted >= t

\* A request that loads began at most LoadTime ago.  What it has read is no
\* older than that; what it is about to date may be another load's, which was
\* under way at the same time.
Loads(q) ==
    /\ Loading(q) => req[q].began <= clock /\ clock <= req[q].began + LoadTime
    /\ req[q].pc = "loaded" =>
          \A S \in {req[q].seen}, t \in {req[q].began} : Reflects(S, t)
    /\ req[q].pc = "closing" =>
          \A S \in {cached[Home[q]]}, t \in {req[q].began - LoadTime} : Reflects(S, t)

\* So is what a cache is dated.
Caches(i) ==
    loadedAt[i] # None =>
        /\ loadedAt[i] <= clock
        /\ \A S \in {cached[i]}, t \in {loadedAt[i] - LoadTime} : Reflects(S, t)

\* Nothing is dated after now.
Past ==
    /\ \A s \in suspensions : s.at <= clock /\ (s.lifted # None => s.lifted <= clock)
    /\ \A q \in Requests : verdict[q] # None => verdict[q].began <= verdict[q].at
                                                /\ verdict[q].at <= clock

Gated ==
    /\ TypeOK /\ Past
    /\ \A q \in Requests : Loads(q)
    /\ \A i \in Instances : Caches(i)
    /\ StopsInTime
-----------------------------------------------------------------------------
(* Types *)

TickType ==
    [pc: {"idle", "woken", "evaluating", "evaluated", "committed"}, moment: Nat,
     touched: SUBSET Nat, found: SUBSET Reports]
ReqType ==
    [pc: {"idle", "loading", "loaded", "closing"}, began: Nat, seen: SUBSET Suspensions]
RowType == [scope: Scopes, refused: BOOLEAN, at: Nat]

\* What a tick and a request start as have their types.
LEMMA BlankTypes == NoTick \in TickType /\ Idle \in ReqType
BY DEF NoTick, TickType, Idle, ReqType

\* The terms of a rule.
LEMMA TermTypes ==
    ASSUME NEW r \in Rules
    PROVE  Terms[r].window \in Nat \ {0} /\ Terms[r].minutes \in Nat /\ Terms[r].action \in Actions
BY AnomalyAssumption

\* Detection and the gate each have variables of their own.
DetectionTypes ==
    /\ since \in [Instances -> Nat \cup {None}]
    /\ tick \in [Instances -> TickType]
    /\ \A i \in Instances : tick[i].touched \subseteq DOMAIN rows
    /\ lock \in Instances \cup {None}
GateTypes ==
    /\ cached \in [Instances -> SUBSET Suspensions]
    /\ loadedAt \in [Instances -> Nat \cup {None}]
    /\ req \in [Requests -> ReqType]
    /\ verdict \in [Requests -> [stopped: BOOLEAN, began: Nat, at: Nat] \cup {None}]
SharedTypes ==
    /\ clock \in Nat
    /\ rows \in Seq(RowType)
    /\ events \subseteq Reports
    /\ suspensions \subseteq Suspensions
    /\ enforcing \in BOOLEAN
    /\ person \in {Nobody} \cup [pc: {"committed"}, at: Instances]
CountTypes ==
    bound \in Bounds /\ ticks \in Nat /\ checks \in Nat /\ decisions \in Nat /\ faults \in Nat

\* Together they are the types.
LEMMA TypeParts == TypeOK <=> DetectionTypes /\ GateTypes /\ SharedTypes /\ CountTypes
BY DEF TypeOK, DetectionTypes, GateTypes, SharedTypes, CountTypes, TickType, ReqType, RowType

\* A step that leaves a part alone leaves its types.
LEMMA PartsStay ==
    /\ DetectionTypes /\ UNCHANGED <<detection, rows>> => DetectionTypes'
    /\ GateTypes /\ UNCHANGED gate => GateTypes'
    /\ SharedTypes /\ UNCHANGED <<clock, rows, events, suspensions, enforcing, person>>
          => SharedTypes'
    /\ CountTypes /\ UNCHANGED counts => CountTypes'
BY DEF DetectionTypes, GateTypes, SharedTypes, CountTypes, detection, gate, counts

\* A tick that changes keeps its type.
LEMMA TickKeeps ==
    ASSUME DetectionTypes, UNCHANGED rows, NEW i \in Instances, NEW k \in TickType,
           k.touched \subseteq DOMAIN rows, tick' = [tick EXCEPT ![i] = k],
           since' \in [Instances -> Nat \cup {None}], lock' \in Instances \cup {None}
    PROVE  DetectionTypes'
BY DEF DetectionTypes

\* What an evaluation finds are reports of its moment, of rules and scopes for
\* which nothing was reported in the rule's window.
LEMMA FindingTypes ==
    ASSUME TypeOK, NEW i \in Instances, NEW R \in SUBSET Rules
    PROVE  /\ Findings(i, R) \in SUBSET Reports
           /\ \A e \in Findings(i, R) :
                 /\ e.at = tick[i].moment
                 /\ e.taken \in Acted => enforcing
                 /\ \A f \in events : f.rule = e.rule /\ f.target = e.target =>
                       e.at >= f.at + Terms[e.rule].window
                 /\ \A f \in Findings(i, R) :
                       f.rule = e.rule /\ f.target = e.target => f = e
<1> DEFINE now == tick[i].moment
           Rep(r, s) == [rule |-> r, target |-> s, at |-> now, taken |-> Taken(r)]
<1>1. \A e \in Findings(i, R) :
        \E r \in Rules, s \in Scopes : e = Rep(r, s) /\ ~FiredRecently(r, s, now)
  BY DEF Findings
<1>2. ASSUME NEW r \in Rules
      PROVE  /\ Taken(r) \in Acted \cup {"alert", "detected_not_enforced"}
             /\ Taken(r) \in Acted => enforcing
  BY TermTypes DEF Taken, Enforces, Acted, Actions
<1>3. now \in Nat
  BY DEF TypeOK
<1>4. ASSUME NEW r \in Rules, NEW s \in Scopes, ~FiredRecently(r, s, now),
             NEW f \in events, f.rule = r, f.target = s
      PROVE  now >= f.at + Terms[r].window
  <2>1. ~(f.at > now - Terms[r].window)
    BY <1>4 DEF FiredRecently
  <2>2. f.at \in Nat /\ Terms[r].window \in Nat
    BY TermTypes DEF TypeOK, Reports
  <2> HIDE DEF now
  <2> QED BY <1>3, <2>1, <2>2
<1>5. ASSUME NEW r \in Rules, NEW s \in Scopes
      PROVE  /\ Rep(r, s) \in Reports /\ Rep(r, s).at = now
             /\ Rep(r, s).taken = Taken(r) /\ Rep(r, s).rule = r /\ Rep(r, s).target = s
  BY <1>2, <1>3 DEF Reports
<1> HIDE DEF Rep, now
<1>6. Findings(i, R) \in SUBSET Reports
  BY <1>1, <1>5
<1>7. ASSUME NEW e \in Findings(i, R)
      PROVE  /\ e.at = now
             /\ e.taken \in Acted => enforcing
             /\ \A f \in events : f.rule = e.rule /\ f.target = e.target =>
                   e.at >= f.at + Terms[e.rule].window
             /\ \A f \in Findings(i, R) :
                   f.rule = e.rule /\ f.target = e.target => f = e
  <2>1. PICK r \in Rules, s \in Scopes : e = Rep(r, s) /\ ~FiredRecently(r, s, now)
    BY <1>1
  <2>2. e.rule = r /\ e.target = s /\ e.at = now /\ e.taken = Taken(r)
    BY <1>5, <2>1
  <2>3. ASSUME NEW f \in Findings(i, R), f.rule = r, f.target = s
        PROVE  f = e
    BY <1>1, <1>5, <2>1, <2>3
  <2> QED BY <1>2, <1>4, <2>1, <2>2, <2>3
<1> QED BY <1>6, <1>7 DEF now

\* What a finding leaves behind is a suspension that names it.
LEMMA StopTypes ==
    ASSUME TypeOK, NEW F \in SUBSET Reports
    PROVE  /\ Stops(F) \in SUBSET Suspensions
           /\ \A s \in Stops(F) : /\ s.at = clock /\ s.lifted = None
                                  /\ s.by \in F /\ s.by.taken \in Acted
           /\ \A e \in F : e.taken \in Acted => \E s \in Stops(F) : s.by = e
<1>1. ASSUME NEW e \in F, e.taken \in Acted
      PROVE  FromRule(e) \in Suspensions /\ FromRule(e).by = e /\ FromRule(e).at = clock
             /\ FromRule(e).lifted = None
  <2>1. e \in [rule: Rules, target: Scopes, at: Nat, taken: Acted]
    BY <1>1 DEF Reports
  <2>2. e.at + Terms[e.rule].minutes \in Int /\ Terms[e.rule].action \in Actions
    BY <2>1, TermTypes
  <2> QED BY <2>1, <2>2 DEF FromRule, Suspensions, TypeOK
<1> QED BY <1>1 DEF Stops

\* Every step keeps the types.
LEMMA TypeStep == TypeOK /\ [Next]_vars => TypeOK'
<1> SUFFICES ASSUME DetectionTypes, GateTypes, SharedTypes, CountTypes, [Next]_vars
             PROVE  DetectionTypes' /\ GateTypes' /\ SharedTypes' /\ CountTypes'
  <2>1. TypeOK' <=> DetectionTypes' /\ GateTypes' /\ SharedTypes' /\ CountTypes'
    BY TypeParts, PTL
  <2> QED BY <2>1, TypeParts
<1>0. TypeOK
  BY TypeParts
<1>1. CountTypes'
  <2>1. ASSUME NEW i \in Instances, Wake(i) \/ Lose(i) \/ Claim(i) \/ Commit(i) \/ Settle(i)
                                  \/ Fail(i) \/ Restart(i)
        PROVE  CountTypes'
    BY <2>1 DEF Wake, Lose, Claim, Commit, Settle, Fail, Restart, CountTypes, counts
  <2>2. ASSUME NEW i \in Instances, Evaluate(i)
        PROVE  CountTypes'
    <3>1. faults' \in Nat
      <4> PICK R \in SUBSET Rules : /\ faults' = faults + Cardinality(Rules \ R)
                                    /\ IsFiniteSet(Rules \ R)
        BY <2>2, AnomalyAssumption, FS_Subset DEF Evaluate
      <4> QED BY FS_CardinalityType DEF CountTypes
    <3> QED BY <2>2, <3>1 DEF Evaluate, CountTypes
  <2>3. ASSUME NEW i \in Instances, NEW t \in Scopes, Suspend(i, t)
        PROVE  CountTypes'
    BY <2>3 DEF Suspend, CountTypes
  <2>4. ASSUME NEW i \in Instances, NEW s \in suspensions, Lift(i, s)
        PROVE  CountTypes'
    BY <2>4 DEF Lift, CountTypes
  <2>5. ASSUME NEW q \in Requests, Begin(q) \/ Check(q) \/ Load(q) \/ Cache(q) \/ Date(q)
        PROVE  CountTypes'
    BY <2>5 DEF Begin, Check, Load, Cache, Date, CountTypes, counts
  <2>6. ASSUME NEW s \in Scopes, NEW refused \in BOOLEAN, Traffic(s, refused)
        PROVE  CountTypes'
    BY <2>6 DEF Traffic, CountTypes, counts
  <2>7. CASE Invalidate \/ Pass \/ UNCHANGED vars
    BY <2>7 DEF Invalidate, Pass, CountTypes, counts, vars
  <2> QED BY <2>1, <2>2, <2>3, <2>4, <2>5, <2>6, <2>7 DEF Next
<1>2. ASSUME NEW i \in Instances, Wake(i)
      PROVE  DetectionTypes' /\ GateTypes' /\ SharedTypes'
  <2>1. [NoTick EXCEPT !.pc = "woken", !.moment = clock] \in TickType
    BY BlankTypes DEF TickType, SharedTypes
  <2>2. [NoTick EXCEPT !.pc = "woken", !.moment = clock].touched = {}
    BY DEF NoTick
  <2>3. DetectionTypes'
    BY <1>2, <2>1, <2>2, TickKeeps DEF Wake, DetectionTypes
  <2> QED BY <1>2, <2>3, PartsStay DEF Wake
<1>3. ASSUME NEW i \in Instances, Lose(i) \/ Settle(i) \/ Fail(i)
      PROVE  DetectionTypes' /\ GateTypes' /\ SharedTypes'
  <2>1. tick' = [tick EXCEPT ![i] = NoTick] /\ NoTick.touched = {}
    BY <1>3 DEF Lose, Settle, Fail, NoTick
  <2>2. tick[i].moment \in Nat
    BY DEF DetectionTypes, TickType
  <2>3. since' \in [Instances -> Nat \cup {None}] /\ lock' \in Instances \cup {None}
    BY <1>3, <2>2 DEF Lose, Settle, Fail, DetectionTypes
  <2>4. DetectionTypes'
    BY <1>3, <2>1, <2>3, BlankTypes, TickKeeps DEF Lose, Settle, Fail
  <2>5. GateTypes'
    BY <1>3, PartsStay DEF Lose, Settle, Fail, GateTypes, gate
  <2> QED BY <1>3, <2>4, <2>5, PartsStay DEF Lose, Settle, Fail
<1>4. ASSUME NEW i \in Instances, Claim(i)
      PROVE  DetectionTypes' /\ GateTypes' /\ SharedTypes'
  <2> DEFINE T == {k \in DOMAIN rows : rows[k].at >= LookedBack(i)}
  <2>0. T \subseteq DOMAIN rows /\ T \in SUBSET Nat
    BY DEF SharedTypes
  <2>1. tick[i] \in TickType
    BY DEF DetectionTypes
  <2>2. tick' = [tick EXCEPT ![i] = [tick[i] EXCEPT !.pc = "evaluating", !.touched = T]]
    BY <1>4 DEF Claim, DetectionTypes
  <2> HIDE DEF T
  <2>3. /\ [tick[i] EXCEPT !.pc = "evaluating", !.touched = T] \in TickType
        /\ [tick[i] EXCEPT !.pc = "evaluating", !.touched = T].touched = T
    BY <2>0, <2>1 DEF TickType
  <2>4. DetectionTypes'
    BY <1>4, <2>0, <2>2, <2>3, TickKeeps DEF Claim, DetectionTypes
  <2> QED BY <1>4, <2>4, PartsStay DEF Claim
<1>5. ASSUME NEW i \in Instances, Evaluate(i)
      PROVE  DetectionTypes' /\ GateTypes' /\ SharedTypes'
  <2> PICK R \in SUBSET Rules :
        tick' = [tick EXCEPT ![i] = [@ EXCEPT !.pc = "evaluated", !.found = Findings(i, R)]]
    BY <1>5 DEF Evaluate
  <2> DEFINE F == Findings(i, R)
  <2>0. F \in SUBSET Reports
    BY <1>0, FindingTypes
  <2>1. tick[i] \in TickType /\ tick[i].touched \subseteq DOMAIN rows
    BY DEF DetectionTypes
  <2>2. tick' = [tick EXCEPT ![i] = [tick[i] EXCEPT !.pc = "evaluated", !.found = F]]
    BY DEF DetectionTypes
  <2> HIDE DEF F
  <2>3. /\ [tick[i] EXCEPT !.pc = "evaluated", !.found = F] \in TickType
        /\ [tick[i] EXCEPT !.pc = "evaluated", !.found = F].touched = tick[i].touched
    BY <2>0, <2>1 DEF TickType
  <2>4. DetectionTypes'
    BY <1>5, <2>1, <2>2, <2>3, TickKeeps DEF Evaluate, DetectionTypes
  <2> QED BY <1>5, <2>4, PartsStay DEF Evaluate
<1>6. ASSUME NEW i \in Instances, Commit(i)
      PROVE  DetectionTypes' /\ GateTypes' /\ SharedTypes'
  <2>1. tick[i] \in TickType /\ tick[i].touched \subseteq DOMAIN rows
    BY DEF DetectionTypes
  <2>2. tick' = [tick EXCEPT ![i] = [tick[i] EXCEPT !.pc = "committed"]]
    BY <1>6 DEF Commit, DetectionTypes
  <2>3. /\ [tick[i] EXCEPT !.pc = "committed"] \in TickType
        /\ [tick[i] EXCEPT !.pc = "committed"].touched = tick[i].touched
    BY <2>1 DEF TickType
  <2>4. DetectionTypes'
    BY <1>6, <2>1, <2>2, <2>3, TickKeeps DEF Commit, DetectionTypes
  <2>5. tick[i].found \in SUBSET Reports
    BY <2>1 DEF TickType
  <2>6. Stops(tick[i].found) \in SUBSET Suspensions
    BY <1>0, <2>5, StopTypes
  <2>7. SharedTypes'
    BY <1>6, <2>5, <2>6 DEF Commit, SharedTypes
  <2> QED BY <1>6, <2>4, <2>7, PartsStay DEF Commit
<1>7. ASSUME NEW i \in Instances, Restart(i)
      PROVE  DetectionTypes' /\ GateTypes' /\ SharedTypes'
  <2>1. since' \in [Instances -> Nat \cup {None}] /\ lock' \in Instances \cup {None}
    BY <1>7 DEF Restart, DetectionTypes
  <2>2. DetectionTypes'
    BY <1>7, <2>1, BlankTypes, TickKeeps DEF Restart, NoTick
  <2>3. GateTypes'
    BY <1>7, BlankTypes DEF Restart, GateTypes
  <2>4. SharedTypes'
    BY <1>7 DEF Restart, SharedTypes
  <2> QED BY <2>2, <2>3, <2>4
<1>8. ASSUME NEW i \in Instances, NEW t \in Scopes, Suspend(i, t)
      PROVE  DetectionTypes' /\ GateTypes' /\ SharedTypes'
  <2> PICK e \in {None, clock + 1} :
        suspensions' = suspensions \cup
          {[target |-> t, action |-> "block", at |-> clock, expires |-> e,
            lifted |-> None, by |-> None]}
    BY <1>8 DEF Suspend
  <2>1. clock \in Nat /\ e \in Int \cup {None}
    BY DEF SharedTypes
  <2>2. [target |-> t, action |-> "block", at |-> clock, expires |-> e,
         lifted |-> None, by |-> None] \in Suspensions
    BY <2>1 DEF Suspensions, Actions
  <2>3. SharedTypes'
    BY <1>8, <2>2 DEF Suspend, SharedTypes
  <2> QED BY <1>8, <2>3, PartsStay DEF Suspend
<1>9. ASSUME NEW i \in Instances, NEW s \in suspensions, Lift(i, s)
      PROVE  DetectionTypes' /\ GateTypes' /\ SharedTypes'
  <2>1. s \in Suspensions /\ clock \in Nat
    BY DEF SharedTypes
  <2>2. [s EXCEPT !.lifted = clock] \in Suspensions
    BY <2>1 DEF Suspensions
  <2>3. SharedTypes'
    BY <1>9, <2>2 DEF Lift, SharedTypes
  <2> QED BY <1>9, <2>3, PartsStay DEF Lift
<1>10. ASSUME NEW q \in Requests, Begin(q) \/ Check(q) \/ Load(q) \/ Cache(q) \/ Date(q)
       PROVE  DetectionTypes' /\ GateTypes' /\ SharedTypes'
  <2>0. req[q] \in ReqType /\ Home[q] \in Instances /\ clock \in Nat /\ cached[Home[q]] \in SUBSET Suspensions
    BY AnomalyAssumption DEF GateTypes, SharedTypes
  <2>1. CASE Begin(q)
    <3>1. [Idle EXCEPT !.pc = "loading", !.began = clock] \in ReqType
      BY <2>0, BlankTypes DEF ReqType
    <3> QED BY <2>1, <3>1, PartsStay DEF Begin, GateTypes
  <2>2. ASSUME NEW S, NEW began \in Nat, Answer(q, S, began)
        PROVE  /\ req' \in [Requests -> ReqType]
               /\ verdict' \in [Requests -> [stopped: BOOLEAN, began: Nat, at: Nat] \cup {None}]
    <3> DEFINE stopped == Stopping(q, S) # {}
    <3>1. stopped \in BOOLEAN
      OBVIOUS
    <3>2. verdict' = [verdict EXCEPT ![q] = [stopped |-> stopped, began |-> began, at |-> clock]]
      BY <2>2 DEF Answer
    <3> HIDE DEF stopped
    <3> QED BY <2>0, <2>2, <3>1, <3>2, BlankTypes DEF Answer, GateTypes
  <2>3. CASE Check(q)
    BY <2>0, <2>2, <2>3, PartsStay DEF Check, GateTypes
  <2>4. CASE Load(q)
    <3> DEFINE S == {s \in suspensions : InForce(s, clock)}
    <3>1. S \in SUBSET Suspensions
      BY DEF SharedTypes
    <3>2. req' = [req EXCEPT ![q] = [req[q] EXCEPT !.pc = "loaded", !.seen = S]]
      BY <2>4 DEF Load, GateTypes
    <3> HIDE DEF S
    <3>3. [req[q] EXCEPT !.pc = "loaded", !.seen = S] \in ReqType
      BY <2>0, <3>1 DEF ReqType
    <3> QED BY <2>4, <3>2, <3>3, PartsStay DEF Load, GateTypes
  <2>5. CASE Cache(q)
    <3>1. req' = [req EXCEPT ![q] = [req[q] EXCEPT !.pc = "closing", !.seen = {}]]
      BY <2>5 DEF Cache, GateTypes
    <3>2. /\ [req[q] EXCEPT !.pc = "closing", !.seen = {}] \in ReqType
          /\ req[q].seen \in SUBSET Suspensions
      BY <2>0 DEF ReqType
    <3> QED BY <2>5, <3>1, <3>2, PartsStay DEF Cache, GateTypes
  <2>6. CASE Date(q)
    <3>1. req[q].began \in Nat
      BY <2>0 DEF ReqType
    <3> QED BY <2>2, <2>6, <3>1, PartsStay DEF Date, GateTypes, LoadedAt
  <2> QED BY <1>10, <2>1, <2>3, <2>4, <2>5, <2>6
<1>11. ASSUME NEW s \in Scopes, NEW refused \in BOOLEAN, Traffic(s, refused)
       PROVE  DetectionTypes' /\ GateTypes' /\ SharedTypes'
  <2>1. [scope |-> s, refused |-> refused, at |-> clock] \in RowType
    BY DEF SharedTypes, RowType
  <2>2. rows' \in Seq(RowType) /\ DOMAIN rows \subseteq DOMAIN rows'
    BY <1>11, <2>1 DEF Traffic, SharedTypes
  <2>3. DetectionTypes'
    BY <1>11, <2>2 DEF Traffic, DetectionTypes, detection
  <2> QED BY <1>11, <2>2, <2>3, PartsStay DEF Traffic, SharedTypes
<1>12. CASE Invalidate
  BY <1>12, PartsStay DEF Invalidate, GateTypes, SharedTypes
<1>13. CASE Pass
  BY <1>13, PartsStay DEF Pass, SharedTypes
<1>14. CASE UNCHANGED vars
  BY <1>14, PartsStay DEF vars, detection, gate, counts
<1> QED BY <1>1, <1>2, <1>3, <1>4, <1>5, <1>6, <1>7, <1>8, <1>9, <1>10, <1>11, <1>12, <1>13,
           <1>14 DEF Next

\* At the start they have their types.
LEMMA TypeAtFirst == Init => TypeOK
BY BlankTypes DEF Init, TypeOK, TickType, ReqType, NoTick

\* Events, suspensions, ticks and requests keep their types: what a rule leaves
\* behind always names an event of an action it took, never an alert
\* (service.py, _enforce).
THEOREM TypeCorrect == Spec => []TypeOK
BY TypeAtFirst, TypeStep, PTL DEF Spec
-----------------------------------------------------------------------------
(* What is recorded *)

\* A step that writes no event, and in which at most one tick changes, and
\* that one does not evaluate afterwards, keeps what is known of detection.
LEMMA DetectionIdle ==
    ASSUME Detected, UNCHANGED <<events, enforcing>>,
           \A i \in Instances :
              \/ tick'[i].pc \notin {"evaluating", "evaluated"}
              \/ tick'[i] = tick[i] /\ (lock = i => lock' = i),
           {s.by : s \in suspensions'} \ {None} = {s.by : s \in suspensions} \ {None}
    PROVE  Claimed' /\ FoundApart' /\ OncePerWindow' /\ RecordedAsDone'
<1>1. Claimed'
  BY DEF Detected, Claimed
<1>2. FoundApart'
  BY DEF Detected, FoundApart
<1>3. OncePerWindow'
  BY DEF Detected, OncePerWindow
<1>4. RecordedAsDone'
  <2>1. ~enforcing => \A s \in suspensions' : s.by = None
    <3>1. ~enforcing => {s.by : s \in suspensions} \ {None} = {}
      BY DEF Detected, RecordedAsDone
    <3> QED BY <3>1
  <2>2. {e \in events : e.taken \in Acted} = {s.by : s \in suspensions'} \ {None}
    BY DEF Detected, RecordedAsDone
  <2> QED BY <2>1, <2>2 DEF RecordedAsDone
<1> QED BY <1>1, <1>2, <1>3, <1>4

\* Every step keeps it.
LEMMA DetectedStep == Detected /\ [Next]_vars => Detected'
<1> SUFFICES ASSUME Detected, [Next]_vars
             PROVE  Claimed' /\ FoundApart' /\ OncePerWindow' /\ RecordedAsDone'
  BY TypeStep DEF Detected
<1>0. /\ TypeOK /\ None \notin Instances
      /\ tick \in [Instances -> TickType]
  BY AnomalyAssumption DEF Detected, TypeOK, TickType
<1>1. ASSUME NEW i \in Instances, Wake(i) \/ Lose(i) \/ Settle(i) \/ Fail(i) \/ Restart(i)
      PROVE  Claimed' /\ FoundApart' /\ OncePerWindow' /\ RecordedAsDone'
  <2>1. UNCHANGED <<events, enforcing, suspensions>>
    BY <1>1 DEF Wake, Lose, Settle, Fail, Restart
  <2>2. \A j \in Instances : j # i => tick'[j] = tick[j] /\ (lock = j => lock' = j)
    BY <1>0, <1>1 DEF Wake, Lose, Settle, Fail, Restart
  <2>3. tick'[i].pc \in {"woken", "idle"}
    <3>1. CASE Wake(i)
      <4>1. tick'[i] = [NoTick EXCEPT !.pc = "woken", !.moment = clock]
        BY <1>0, <3>1 DEF Wake
      <4> QED BY <4>1 DEF NoTick
    <3>2. CASE ~Wake(i)
      <4>1. tick'[i] = NoTick
        BY <1>0, <1>1, <3>2 DEF Lose, Settle, Fail, Restart
      <4> QED BY <4>1 DEF NoTick
    <3> QED BY <3>1, <3>2
  <2> QED BY <2>1, <2>2, <2>3, DetectionIdle
<1>2. ASSUME NEW i \in Instances, Claim(i)
      PROVE  Claimed' /\ FoundApart' /\ OncePerWindow' /\ RecordedAsDone'
  <2>1. UNCHANGED <<events, enforcing, suspensions>> /\ lock = None /\ lock' = i
    BY <1>2 DEF Claim, Claims
  <2>2. \A j \in Instances : j # i => tick'[j] = tick[j]
    BY <1>0, <1>2 DEF Claim
  <2>3. tick'[i].pc = "evaluating"
    BY <1>0, <1>2 DEF Claim, TickType
  <2>4. \A j \in Instances : tick[j].pc \notin {"evaluating", "evaluated"}
    BY <1>0, <2>1 DEF Detected, Claimed
  <2>5. Claimed' /\ FoundApart'
    BY <2>1, <2>2, <2>3, <2>4 DEF Claimed, FoundApart
  <2> QED BY <2>1, <2>5 DEF Detected, OncePerWindow, RecordedAsDone
<1>3. ASSUME NEW i \in Instances, Evaluate(i)
      PROVE  Claimed' /\ FoundApart' /\ OncePerWindow' /\ RecordedAsDone'
  <2>1. UNCHANGED <<events, enforcing, suspensions, lock>> /\ tick[i].pc = "evaluating"
    BY <1>3 DEF Evaluate
  <2> PICK R \in SUBSET Rules :
        tick' = [tick EXCEPT ![i] = [@ EXCEPT !.pc = "evaluated", !.found = Findings(i, R)]]
    BY <1>3 DEF Evaluate
  <2>2. \A j \in Instances : j # i => tick'[j] = tick[j]
    BY <1>0
  <2>3. tick'[i].pc = "evaluated" /\ tick'[i].found = Findings(i, R)
    BY <1>0 DEF TickType
  <2>4. Claimed'
    BY <2>1, <2>2, <2>3 DEF Detected, Claimed
  <2>5. FoundApart'
    <3> DEFINE F == Findings(i, R)
    <3>1. \A e \in F :
            /\ e.taken \in Acted => enforcing
            /\ \A f \in events : f.rule = e.rule /\ f.target = e.target =>
                  e.at >= f.at + Terms[e.rule].window
            /\ \A f \in F : f.rule = e.rule /\ f.target = e.target => f = e
      <4>1. /\ Findings(i, R) \in SUBSET Reports
            /\ \A e \in Findings(i, R) :
                  /\ e.at = tick[i].moment
                  /\ e.taken \in Acted => enforcing
                  /\ \A f \in events : f.rule = e.rule /\ f.target = e.target =>
                        e.at >= f.at + Terms[e.rule].window
                  /\ \A f \in Findings(i, R) :
                        f.rule = e.rule /\ f.target = e.target => f = e
        BY <1>0, FindingTypes
      <4> QED BY <4>1
    <3>2. tick'[i].found = F
      BY <2>3
    <3> HIDE DEF F
    <3> QED BY <3>2, <2>1, <2>2, <2>3, <3>1 DEF Detected, FoundApart
  <2> QED BY <2>1, <2>4, <2>5 DEF Detected, OncePerWindow, RecordedAsDone
<1>4. ASSUME NEW i \in Instances, Commit(i)
      PROVE  Claimed' /\ FoundApart' /\ OncePerWindow' /\ RecordedAsDone'
  <2>1. tick[i].pc = "evaluated" /\ lock = i
    BY <1>4 DEF Commit, Detected, Claimed
  <2>2. \A j \in Instances : j # i => tick[j].pc \notin {"evaluating", "evaluated"}
    BY <2>1 DEF Detected, Claimed
  <2>3. \A j \in Instances : tick'[j].pc \notin {"evaluating", "evaluated"}
    BY <1>0, <1>4, <2>2 DEF Commit, TickType
  <2>4. Claimed' /\ FoundApart'
    BY <2>3 DEF Claimed, FoundApart
  <2> DEFINE F == tick[i].found
  <2>5. F \in SUBSET Reports
    BY <1>0 DEF TickType
  <2>6. \A e \in F :
            /\ \A f \in events : f.rule = e.rule /\ f.target = e.target =>
                  e.at >= f.at + Terms[e.rule].window
            /\ \A f \in F : f.rule = e.rule /\ f.target = e.target => f = e
            /\ e.taken \in Acted => enforcing
    BY <2>1 DEF Detected, FoundApart
  <2>7. /\ events' = events \cup F
        /\ suspensions' = suspensions \cup Stops(F)
        /\ enforcing' = enforcing
    BY <1>4 DEF Commit
  <2>8. /\ \A s \in Stops(F) : s.by \in F /\ s.by.taken \in Acted
        /\ \A e \in F : e.taken \in Acted => \E s \in Stops(F) : s.by = e
    BY <1>0, <2>5, StopTypes
  <2> HIDE DEF F
  <2>9. OncePerWindow'
    <3> SUFFICES ASSUME NEW e \in events \cup F, NEW f \in events \cup F,
                        e # f, e.rule = f.rule, e.target = f.target
                 PROVE  \/ e.at >= f.at + Terms[e.rule].window
                        \/ f.at >= e.at + Terms[e.rule].window
      BY <2>7 DEF OncePerWindow
    <3>1. CASE e \in events /\ f \in events
      BY <3>1 DEF Detected, OncePerWindow
    <3>2. CASE e \in F /\ f \in events
      BY <2>6, <3>2
    <3>3. CASE f \in F /\ e \in events
      BY <2>6, <3>3
    <3>4. CASE e \in F /\ f \in F
      BY <2>6, <3>4
    <3> QED BY <3>1, <3>2, <3>3, <3>4
  <2>10. RecordedAsDone'
    <3>1. {e \in events : e.taken \in Acted} = {s.by : s \in suspensions} \ {None}
      BY DEF Detected, RecordedAsDone
    <3>2. None \notin F
      BY <2>5, AnomalyAssumption
    <3>3. {e \in events' : e.taken \in Acted} \subseteq {s.by : s \in suspensions'} \ {None}
      BY <2>7, <2>8, <3>1, <3>2
    <3>4. {s.by : s \in suspensions'} \ {None} \subseteq {e \in events' : e.taken \in Acted}
      BY <2>7, <2>8, <3>1
    <3>5. ~enforcing => Stops(F) = {}
      BY <2>6, <2>8
    <3>6. ~enforcing => \A s \in suspensions : s.by = None
      BY DEF Detected, RecordedAsDone
    <3> QED BY <2>7, <3>3, <3>4, <3>5, <3>6 DEF RecordedAsDone
  <2> QED BY <2>4, <2>9, <2>10
<1>5. ASSUME NEW i \in Instances, NEW t \in Scopes, Suspend(i, t)
      PROVE  Claimed' /\ FoundApart' /\ OncePerWindow' /\ RecordedAsDone'
  <2>1. UNCHANGED <<events, enforcing, tick, lock>>
    BY <1>5 DEF Suspend, detection
  <2>2. {s.by : s \in suspensions'} \ {None} = {s.by : s \in suspensions} \ {None}
    BY <1>5 DEF Suspend
  <2> QED BY <2>1, <2>2, DetectionIdle
<1>6. ASSUME NEW i \in Instances, NEW s \in suspensions, Lift(i, s)
      PROVE  Claimed' /\ FoundApart' /\ OncePerWindow' /\ RecordedAsDone'
  <2>1. UNCHANGED <<events, enforcing, tick, lock>>
    BY <1>6 DEF Lift, detection
  <2>2. s \in Suspensions
    BY <1>0 DEF TypeOK
  <2>3. [s EXCEPT !.lifted = clock].by = s.by
    BY <2>2 DEF Suspensions
  <2>4. suspensions' = (suspensions \ {s}) \cup {[s EXCEPT !.lifted = clock]}
    BY <1>6 DEF Lift
  <2>5. {x.by : x \in suspensions'} \ {None} = {x.by : x \in suspensions} \ {None}
    BY <2>3, <2>4
  <2> QED BY <2>1, <2>5, DetectionIdle
<1>7. CASE \/ \E q \in Requests : Begin(q) \/ Check(q) \/ Load(q) \/ Cache(q) \/ Date(q)
           \/ \E s \in Scopes, refused \in BOOLEAN : Traffic(s, refused)
           \/ Invalidate \/ Pass \/ UNCHANGED vars
  <2>1. UNCHANGED <<events, enforcing, tick, lock, suspensions>>
    BY <1>7 DEF Begin, Check, Load, Cache, Date, Traffic, Invalidate, Pass, vars, detection
  <2> QED BY <2>1, DetectionIdle
<1> QED BY <1>1, <1>2, <1>3, <1>4, <1>5, <1>6, <1>7 DEF Next

\* At the start nobody evaluates and nothing is recorded.
LEMMA DetectedAtFirst == Init => Detected
BY TypeAtFirst DEF Init, Detected, Claimed, FoundApart, OncePerWindow, RecordedAsDone, NoTick

\* So all of it is known in every behaviour.
LEMMA DetectedHolds == Spec => []Detected
BY DetectedAtFirst, DetectedStep, PTL DEF Spec

\* A finding is reported once per window of its rule, however many instances
\* wake at once and whichever of them holds the lock (service.py, _record).
THEOREM ReportedOnce == Spec => []OncePerWindow
<1>1. Detected => OncePerWindow
  BY DEF Detected
<1> QED BY <1>1, DetectedHolds, PTL

\* An event says it stopped somebody exactly when a suspension says so, whatever
\* fails between finding and writing, and with enforcement off no rule leaves a
\* stop behind (service.py, _enforce).
THEOREM RecordsAgree == Spec => []RecordedAsDone
<1>1. Detected => RecordedAsDone
  BY DEF Detected
<1> QED BY <1>1, DetectedHolds, PTL
-----------------------------------------------------------------------------
(* What the gate answers.  Suspensions come with the moment they are       *)
(* written at, go by being lifted at the moment of the lift, and the clock *)
(* only runs; so what reflected them goes on reflecting them.              *)

LiftedNow(s) == [s EXCEPT !.lifted = clock]

Moved ==
    /\ clock <= clock'
    /\ \A s \in suspensions :
          s \in suspensions' \/ (s.lifted = None /\ LiftedNow(s) \in suspensions')
    /\ \A s \in suspensions' :
          \/ s \in suspensions
          \/ s.at = clock /\ s.lifted = None
          \/ \E x \in suspensions : x.lifted = None /\ s = LiftedNow(x)

\* The figures of a suspension, and of one that is lifted now.
LEMMA SuspensionTypes ==
    ASSUME TypeOK, NEW s \in suspensions
    PROVE  /\ s \in Suspensions /\ s.at \in Nat
           /\ s.lifted \in Nat \cup {None} /\ s.expires \in Int \cup {None}
           /\ LiftedNow(s) \in Suspensions
           /\ LiftedNow(s).lifted = clock /\ LiftedNow(s).at = s.at
           /\ LiftedNow(s).target = s.target /\ LiftedNow(s).expires = s.expires
           /\ LiftedNow(s).action = s.action
           /\ clock \in Nat /\ clock # None
<1>1. s \in Suspensions /\ clock \in Nat
  BY DEF TypeOK
<1>2. clock # None
  BY <1>1, AnomalyAssumption
<1> QED BY <1>1, <1>2 DEF Suspensions, LiftedNow

\* Every step moves the suspensions so.
LEMMA StepMoves ==
    ASSUME TypeOK, [Next]_vars
    PROVE  Moved
<1>0. clock \in Nat /\ suspensions \subseteq Suspensions
  BY DEF TypeOK
<1>1. ASSUME UNCHANGED suspensions, clock <= clock' PROVE Moved
  BY <1>1 DEF Moved
<1>2. ASSUME NEW i \in Instances, Wake(i) \/ Lose(i) \/ Claim(i) \/ Evaluate(i) \/ Settle(i)
                                  \/ Fail(i) \/ Restart(i)
      PROVE  Moved
  <2>1. UNCHANGED <<clock, suspensions>>
    <3>1. CASE Wake(i) \/ Lose(i) \/ Claim(i)
      BY <3>1 DEF Wake, Lose, Claim
    <3>2. CASE Evaluate(i)
      BY <3>2 DEF Evaluate
    <3>3. CASE Settle(i) \/ Fail(i) \/ Restart(i)
      BY <3>3 DEF Settle, Fail, Restart
    <3> QED BY <1>2, <3>1, <3>2, <3>3
  <2> QED BY <1>0, <1>1, <2>1
<1>3. ASSUME NEW i \in Instances, Commit(i)
      PROVE  Moved
  <2>1. tick[i].found \in SUBSET Reports
    BY DEF TypeOK
  <2>2. \A s \in Stops(tick[i].found) : s.at = clock /\ s.lifted = None
    BY <2>1, StopTypes
  <2> QED BY <1>0, <1>3, <2>2 DEF Commit, Moved
<1>4. ASSUME NEW i \in Instances, NEW t \in Scopes, Suspend(i, t)
      PROVE  Moved
  <2>1. clock' = clock
    BY <1>4 DEF Suspend
  <2>2. \A s \in suspensions' : s \in suspensions \/ (s.at = clock /\ s.lifted = None)
    BY <1>4 DEF Suspend
  <2>3. suspensions \subseteq suspensions'
    BY <1>4 DEF Suspend
  <2> QED BY <1>0, <2>1, <2>2, <2>3 DEF Moved
<1>5. ASSUME NEW i \in Instances, NEW s \in suspensions, Lift(i, s)
      PROVE  Moved
  <2>1. /\ clock' = clock /\ s.lifted = None
        /\ suspensions' = (suspensions \ {s}) \cup {LiftedNow(s)}
    BY <1>5 DEF Lift, LiftedNow
  <2> QED BY <1>0, <2>1 DEF Moved
<1>6. CASE \/ \E q \in Requests : Begin(q) \/ Check(q) \/ Load(q) \/ Cache(q) \/ Date(q)
           \/ \E s \in Scopes, refused \in BOOLEAN : Traffic(s, refused)
           \/ Invalidate \/ UNCHANGED vars
  <2>1. UNCHANGED <<suspensions, clock>>
    BY <1>6 DEF Begin, Check, Load, Cache, Date, Traffic, Invalidate, vars
  <2> QED BY <1>0, <1>1, <2>1
<1>7. CASE Pass
  BY <1>0, <1>1, <1>7 DEF Pass
<1> QED BY <1>2, <1>3, <1>4, <1>5, <1>6, <1>7 DEF Next

\* What was read goes on reflecting the suspensions.
LEMMA ReflectsStays ==
    ASSUME TypeOK, TypeOK', Moved, NEW S, NEW t \in Int, t <= clock, Reflects(S, t)
    PROVE  Reflects(S, t)'
<1>0. clock \in Nat /\ clock' \in Nat /\ clock # None /\ clock' # None
  BY AnomalyAssumption DEF TypeOK
<1>1. ASSUME NEW s \in suspensions', s.at < t, s.lifted = None
      PROVE  s \in S \/ (s.expires # None /\ s.expires <= clock')
  <2>1. s \in Suspensions
    BY DEF TypeOK
  <2>2. s.at # clock
    BY <1>0, <1>1, <2>1 DEF Suspensions
  <2>3. s \in suspensions
    BY <1>0, <1>1, <2>2, SuspensionTypes DEF Moved
  <2>4. s \in S \/ (s.expires # None /\ s.expires <= clock)
    BY <1>1, <2>3 DEF Reflects
  <2> QED BY <1>0, <2>1, <2>4 DEF Suspensions, Moved
<1>2. ASSUME NEW s \in S
      PROVE  \E x \in suspensions' :
                /\ x.target = s.target /\ x.at = s.at /\ x.expires = s.expires
                /\ x.lifted = None \/ x.lifted >= t
  <2>1. PICK x \in suspensions :
            /\ x.target = s.target /\ x.at = s.at /\ x.expires = s.expires
            /\ x.lifted = None \/ x.lifted >= t
    BY DEF Reflects
  <2>2. CASE x \in suspensions'
    BY <2>1, <2>2
  <2>3. CASE LiftedNow(x) \in suspensions'
    <3>1. LiftedNow(x).lifted >= t
      BY <1>0, SuspensionTypes
    <3> QED BY <2>1, <2>3, <3>1, SuspensionTypes
  <2> QED BY <2>2, <2>3 DEF Moved
<1> QED BY <1>1, <1>2 DEF Reflects

\* What is read now reflects them.
LEMMA ReadReflects ==
    ASSUME TypeOK, NEW t \in Int
    PROVE  Reflects({s \in suspensions : InForce(s, clock)}, t)
<1> DEFINE S == {s \in suspensions : InForce(s, clock)}
<1>1. ASSUME NEW s \in suspensions, s.at < t, s.lifted = None
      PROVE  s \in S \/ (s.expires # None /\ s.expires <= clock)
  BY <1>1, SuspensionTypes DEF InForce
<1>2. ASSUME NEW s \in S
      PROVE  s \in suspensions /\ s.lifted = None
  BY DEF InForce
<1> HIDE DEF S
<1>3. Reflects(S, t)
  BY <1>1, <1>2 DEF Reflects
<1> QED BY <1>3 DEF S

\* What reflects them from a moment on reflects them from an earlier one.
LEMMA ReflectsEarlier ==
    ASSUME TypeOK, NEW S, NEW t \in Int, NEW u \in Int, u <= t, Reflects(S, t)
    PROVE  Reflects(S, u)
<1>1. \A s \in suspensions : s.at < u => s.at < t
  BY SuspensionTypes
<1>2. \A x \in suspensions : x.lifted = None \/ x.lifted >= t => x.lifted = None \/ x.lifted >= u
  BY SuspensionTypes
<1> QED BY <1>1, <1>2 DEF Reflects

\* The answers given stay right: a stop that comes, comes too late for them to
\* be held to it, and a lift now is one they could not have waited for.
LEMMA AnswersStay ==
    ASSUME Gated, TypeOK', Moved, UNCHANGED <<verdict, enforcing>>
    PROVE  Past' /\ StopsInTime'
<1>0. /\ clock \in Nat /\ clock' \in Nat /\ clock <= clock' /\ clock # None
      /\ CacheTTL \in Nat \ {0} /\ LoadTime \in Nat
      /\ TypeOK
  BY AnomalyAssumption DEF TypeOK, Moved, Gated
<1>1. \A q \in Requests : verdict[q] # None =>
          /\ verdict[q].began \in Nat /\ verdict[q].at \in Nat
          /\ verdict[q].began <= verdict[q].at /\ verdict[q].at <= clock
  BY DEF Gated, Past, TypeOK
<1>2. Past'
  <2>1. ASSUME NEW s \in suspensions'
        PROVE  s.at <= clock' /\ (s.lifted # None => s.lifted <= clock')
    <3>1. CASE s \in suspensions
      BY <1>0, <3>1, SuspensionTypes DEF Gated, Past
    <3>2. CASE s.at = clock /\ s.lifted = None
      BY <1>0, <3>2
    <3>3. ASSUME NEW x \in suspensions, s = LiftedNow(x)
          PROVE  s.at <= clock' /\ (s.lifted # None => s.lifted <= clock')
      BY <1>0, <3>3, SuspensionTypes DEF Gated, Past
    <3> QED BY <3>1, <3>2, <3>3 DEF Moved
  <2>2. \A q \in Requests : verdict'[q] # None =>
            verdict'[q].began <= verdict'[q].at /\ verdict'[q].at <= clock'
    BY <1>0, <1>1
  <2> QED BY <2>1, <2>2 DEF Past
<1>3. ASSUME NEW q \in Requests, verdict[q] # None, enforcing, ~verdict[q].stopped,
             NEW s \in suspensions', s.target = Scope[q], s.action # "alert",
             s.at + Staleness <= verdict[q].began
      PROVE  \/ s.lifted # None /\ s.lifted <= verdict[q].at
             \/ s.expires # None /\ s.expires <= verdict[q].at
  <2>1. \A x \in suspensions :
            x.target = Scope[q] /\ x.action # "alert" /\ x.at + Staleness <= verdict[q].began =>
                \/ x.lifted # None /\ x.lifted <= verdict[q].at
                \/ x.expires # None /\ x.expires <= verdict[q].at
    BY <1>3 DEF Gated, StopsInTime
  <2>2. CASE s \in suspensions
    BY <1>3, <2>1, <2>2
  <2>3. CASE s.at = clock
    BY <1>0, <1>1, <1>3, <2>3 DEF Staleness
  <2>4. ASSUME NEW x \in suspensions, x.lifted = None, s = LiftedNow(x)
        PROVE  s.expires # None /\ s.expires <= verdict[q].at
    BY <1>3, <2>1, <2>4, SuspensionTypes, <1>0
  <2> QED BY <2>2, <2>3, <2>4 DEF Moved
<1>4. ASSUME NEW q \in Requests, verdict[q] # None, enforcing, verdict[q].stopped
      PROVE  \E s \in suspensions' :
                /\ s.target = Scope[q]
                /\ s.at <= verdict[q].at
                /\ s.lifted = None \/ s.lifted + Staleness > verdict[q].began
                /\ s.expires = None \/ s.expires > verdict[q].at
  <2>1. PICK s \in suspensions :
                /\ s.target = Scope[q]
                /\ s.at <= verdict[q].at
                /\ s.lifted = None \/ s.lifted + Staleness > verdict[q].began
                /\ s.expires = None \/ s.expires > verdict[q].at
    BY <1>4 DEF Gated, StopsInTime
  <2>2. CASE s \in suspensions'
    BY <2>1, <2>2
  <2>3. CASE LiftedNow(s) \in suspensions'
    <3>1. LiftedNow(s).lifted + Staleness > verdict[q].began
      <4>1. LiftedNow(s).lifted = clock
        BY <1>0, SuspensionTypes
      <4> QED BY <1>0, <1>1, <1>4, <4>1 DEF Staleness
    <3> QED BY <1>0, <2>1, <2>3, <3>1, SuspensionTypes
  <2> QED BY <2>2, <2>3 DEF Moved
<1>5. StopsInTime'
  BY <1>3, <1>4 DEF StopsInTime
<1> QED BY <1>2, <1>5

\* A step of anybody else leaves the loads and the caches as they are, or
\* forgets them.
LEMMA GateIdle ==
    ASSUME Gated, TypeOK', Moved,
           \A q \in Requests : \/ req'[q].pc = "idle"
                               \/ /\ req'[q] = req[q]
                                  /\ cached'[Home[q]] = cached[Home[q]]
                                  /\ Loading(q) => clock' <= req[q].began + LoadTime,
           \A i \in Instances : \/ loadedAt'[i] = None
                                \/ loadedAt'[i] = loadedAt[i] /\ cached'[i] = cached[i]
    PROVE  (\A q \in Requests : Loads(q)') /\ \A i \in Instances : Caches(i)'
<1>0. /\ clock \in Nat /\ clock' \in Nat /\ clock <= clock' /\ LoadTime \in Nat
      /\ TypeOK
      /\ \A q \in Requests : req[q].began \in Nat /\ Home[q] \in Instances
  BY AnomalyAssumption DEF TypeOK, Moved, Gated
<1>1. ASSUME NEW q \in Requests, req'[q].pc # "idle"
      PROVE  Loads(q)'
  <2>1. /\ req'[q] = req[q] /\ cached'[Home[q]] = cached[Home[q]]
        /\ Loading(q) => clock' <= req[q].began + LoadTime
        /\ Loads(q)
    BY <1>1 DEF Gated
  <2>2. Loading(q)' => req'[q].began <= clock' /\ clock' <= req'[q].began + LoadTime
    BY <1>0, <2>1 DEF Loads, Loading
  <2>3. ASSUME NEW S \in {req'[q].seen}, NEW t \in {req'[q].began}, req'[q].pc = "loaded"
        PROVE  Reflects(S, t)'
    BY <1>0, <2>1, <2>3, ReflectsStays DEF Loads, Loading
  <2>4. ASSUME NEW S \in {cached'[Home[q]]}, NEW t \in {req'[q].began - LoadTime},
               req'[q].pc = "closing"
        PROVE  Reflects(S, t)'
    <3>1. Reflects(S, t) /\ t \in Int /\ t <= clock
      BY <1>0, <2>1, <2>4 DEF Loads, Loading
    <3> QED BY <1>0, <3>1, ReflectsStays
  <2> QED BY <2>2, <2>3, <2>4 DEF Loads
<1>2. ASSUME NEW q \in Requests, req'[q].pc = "idle"
      PROVE  Loads(q)'
  BY <1>2 DEF Loads, Loading
<1>3. ASSUME NEW i \in Instances
      PROVE  Caches(i)'
  <2> SUFFICES ASSUME loadedAt'[i] # None PROVE Caches(i)'
    BY DEF Caches
  <2>1. loadedAt'[i] = loadedAt[i] /\ cached'[i] = cached[i] /\ Caches(i)
    BY DEF Gated
  <2>2. loadedAt[i] \in Nat
    BY <1>0, <2>1 DEF TypeOK
  <2>3. ASSUME NEW S \in {cached'[i]}, NEW t \in {loadedAt'[i] - LoadTime}
        PROVE  Reflects(S, t)'
    <3>1. Reflects(S, t) /\ t \in Int /\ t <= clock
      BY <1>0, <2>1, <2>2, <2>3 DEF Caches
    <3> QED BY <1>0, <3>1, ReflectsStays
  <2> QED BY <1>0, <2>1, <2>2, <2>3 DEF Caches
<1> QED BY <1>1, <1>2, <1>3

\* An answer from what reflects the suspensions of less than Staleness before
\* its request began is the right one.
LEMMA AnswerRight ==
    ASSUME TypeOK, Past, NEW q \in Requests, NEW S, NEW t \in Int, NEW began \in Nat,
           Reflects(S, t), t <= clock, began < t + Staleness
    PROVE  /\ Stopping(q, S) = {} =>
                 \A s \in suspensions :
                    s.target = Scope[q] /\ s.action # "alert" /\ s.at + Staleness <= began =>
                        \/ s.lifted # None /\ s.lifted <= clock
                        \/ s.expires # None /\ s.expires <= clock
           /\ Stopping(q, S) # {} =>
                 \E s \in suspensions :
                    /\ s.target = Scope[q]
                    /\ s.at <= clock
                    /\ s.lifted = None \/ s.lifted + Staleness > began
                    /\ s.expires = None \/ s.expires > clock
<1>0. Staleness \in Nat /\ clock \in Nat
  BY AnomalyAssumption DEF Staleness, TypeOK
<1>1. ASSUME Stopping(q, S) = {}, NEW s \in suspensions, s.target = Scope[q],
             s.action # "alert", s.at + Staleness <= began, s.lifted = None
      PROVE  s.expires # None /\ s.expires <= clock
  <2>1. s.at < t
    BY <1>0, <1>1, SuspensionTypes
  <2>2. CASE s \in S
    <3>1. ~StillApplies(s)
      BY <1>1, <2>2 DEF Stopping
    <3> QED BY <1>0, <1>1, <3>1, SuspensionTypes DEF StillApplies
  <2> QED BY <1>1, <2>1, <2>2 DEF Reflects
<1>2. ASSUME Stopping(q, S) # {}
      PROVE  \E s \in suspensions :
                /\ s.target = Scope[q]
                /\ s.at <= clock
                /\ s.lifted = None \/ s.lifted + Staleness > began
                /\ s.expires = None \/ s.expires > clock
  <2>1. PICK s \in S : StillApplies(s) /\ s.target = Scope[q]
    BY <1>2 DEF Stopping
  <2>2. PICK x \in suspensions :
            /\ x.target = s.target /\ x.at = s.at /\ x.expires = s.expires
            /\ x.lifted = None \/ x.lifted >= t
    BY DEF Reflects
  <2>3. x.lifted = None \/ x.lifted + Staleness > began
    BY <1>0, <2>2, SuspensionTypes
  <2> QED BY <2>1, <2>2, <2>3 DEF StillApplies, Past
<1>3. \A s \in suspensions : s.lifted = None \/ (s.lifted # None /\ s.lifted <= clock)
  BY DEF Past
<1> QED BY <1>1, <1>2, <1>3

\* A request answered so keeps all answers right.
LEMMA AnswerKeeps ==
    ASSUME Gated, TypeOK', NEW q \in Requests, NEW S, NEW t \in Int, NEW began \in Nat,
           enforcing => Reflects(S, t) /\ t <= clock /\ began < t + Staleness,
           began <= clock, Answer(q, S, began), UNCHANGED <<clock, suspensions, enforcing>>
    PROVE  Past' /\ StopsInTime'
<1>0. TypeOK /\ Past /\ StopsInTime /\ clock \in Nat
  BY DEF Gated, TypeOK
<1> DEFINE stopped == Stopping(q, S) # {}
<1>1. stopped \in BOOLEAN
  OBVIOUS
<1>2. verdict' = [verdict EXCEPT ![q] = [stopped |-> stopped, began |-> began, at |-> clock]]
  BY DEF Answer
<1>3. enforcing =>
        /\ ~stopped =>
              \A s \in suspensions :
                 s.target = Scope[q] /\ s.action # "alert" /\ s.at + Staleness <= began =>
                     \/ s.lifted # None /\ s.lifted <= clock
                     \/ s.expires # None /\ s.expires <= clock
        /\ stopped =>
              \E s \in suspensions :
                 /\ s.target = Scope[q]
                 /\ s.at <= clock
                 /\ s.lifted = None \/ s.lifted + Staleness > began
                 /\ s.expires = None \/ s.expires > clock
  BY <1>0, AnswerRight
<1> HIDE DEF stopped
<1>4. /\ verdict'[q].stopped = stopped /\ verdict'[q].began = began /\ verdict'[q].at = clock
      /\ \A p \in Requests : p # q => verdict'[p] = verdict[p]
  BY <1>0, <1>2 DEF TypeOK
<1>5. Past'
  BY <1>0, <1>4 DEF Past
<1>6. StopsInTime'
  <2> SUFFICES ASSUME NEW p \in Requests, verdict'[p] # None, enforcing
               PROVE  /\ ~verdict'[p].stopped => \A s \in suspensions :
                            s.target = Scope[p] /\ s.action # "alert"
                                /\ s.at + Staleness <= verdict'[p].began
                            => \/ s.lifted # None /\ s.lifted <= verdict'[p].at
                               \/ s.expires # None /\ s.expires <= verdict'[p].at
                      /\ verdict'[p].stopped => \E s \in suspensions :
                            /\ s.target = Scope[p]
                            /\ s.at <= verdict'[p].at
                            /\ s.lifted = None \/ s.lifted + Staleness > verdict'[p].began
                            /\ s.expires = None \/ s.expires > verdict'[p].at
    BY DEF StopsInTime
  <2>1. CASE p = q
    BY <1>3, <1>4, <2>1
  <2>2. CASE p # q
    BY <1>0, <1>4, <2>2 DEF StopsInTime
  <2> QED BY <2>1, <2>2
<1> QED BY <1>5, <1>6

\* The gate's own steps.
LEMMA GateSteps ==
    ASSUME Gated, TypeOK', NEW q \in Requests,
           Begin(q) \/ Check(q) \/ Load(q) \/ Cache(q) \/ Date(q)
    PROVE  Gated'
<1>0. /\ TypeOK /\ Past /\ StopsInTime /\ clock \in Nat
      /\ LoadTime \in Nat /\ CacheTTL \in Nat \ {0}
      /\ req \in [Requests -> ReqType] /\ Home[q] \in Instances
      /\ UNCHANGED <<clock, suspensions, enforcing>>
      /\ None \notin Nat
  <2>1. UNCHANGED <<clock, suspensions, enforcing>>
    <3>1. CASE Begin(q)
      BY <3>1 DEF Begin
    <3>2. CASE Check(q)
      BY <3>2 DEF Check
    <3>3. CASE Load(q)
      BY <3>3 DEF Load
    <3>4. CASE Cache(q)
      BY <3>4 DEF Cache
    <3>5. CASE Date(q)
      BY <3>5 DEF Date
    <3> QED BY <3>1, <3>2, <3>3, <3>4, <3>5
  <2> QED BY <2>1, AnomalyAssumption DEF Gated, TypeOK, ReqType
<1>1. req[q] \in ReqType /\ req[q].began \in Nat
  BY <1>0 DEF ReqType
<1>2. \A S, t : Reflects(S, t)' <=> Reflects(S, t)
  BY <1>0 DEF Reflects
<1>3. \A p \in Requests : p # q => req'[p] = req[p]
  BY <1>0 DEF Begin, Check, Load, Cache, Date, Answer
<1>4. ASSUME UNCHANGED cached, NEW p \in Requests, p # q
      PROVE  Loads(p)'
  BY <1>0, <1>2, <1>3, <1>4 DEF Gated, Loads, Loading
<1>5. ASSUME UNCHANGED <<cached, loadedAt>>, NEW i \in Instances
      PROVE  Caches(i)'
  BY <1>0, <1>2, <1>5 DEF Gated, Caches
<1>6. ASSUME UNCHANGED verdict
      PROVE  Past' /\ StopsInTime'
  BY <1>0, <1>6 DEF Past, StopsInTime
<1>7. CASE Begin(q)
  <2>1. req'[q].pc = "loading" /\ req'[q].began = clock
    <3>1. req'[q] = [Idle EXCEPT !.pc = "loading", !.began = clock]
      BY <1>0, <1>7 DEF Begin
    <3> QED BY <3>1 DEF Idle
  <2>2. Loads(q)'
    BY <1>0, <2>1 DEF Loads, Loading
  <2> QED BY <1>4, <1>5, <1>6, <1>7, <2>2 DEF Begin, Gated
<1>8. CASE Check(q)
  <2>1. req'[q].pc = "idle"
    BY <1>0, <1>8 DEF Check, Answer, Idle
  <2>2. Loads(q)'
    BY <2>1 DEF Loads, Loading
  <2>3. Past' /\ StopsInTime'
    <3>1. CASE enforcing
      <4>1. /\ loadedAt[Home[q]] # None /\ clock - loadedAt[Home[q]] < CacheTTL
            /\ loadedAt[Home[q]] \in Nat
        BY <1>0, <1>8, <3>1 DEF Check, Stale, TypeOK
      <4>5. cached[Home[q]] \in SUBSET Suspensions
        BY <1>0 DEF TypeOK
      <4>6. loadedAt[Home[q]] - LoadTime \in Int
        BY <1>0, <4>1
      <4> PICK S \in SUBSET Suspensions, t \in Int :
            S = cached[Home[q]] /\ t = loadedAt[Home[q]] - LoadTime
        BY <4>5, <4>6, Zenon
      <4>2. Reflects(S, t) /\ t <= clock /\ clock < t + Staleness
        BY <1>0, <4>1 DEF Gated, Caches, Staleness
      <4>3. PICK began \in Nat : began = clock
        BY <1>0
      <4>4. Answer(q, S, began)
        BY <1>8, <3>1, <4>3 DEF Check
      <4> QED BY <1>0, <4>2, <4>3, <4>4, AnswerKeeps
    <3>2. CASE ~enforcing
      <4>1. PICK began \in Nat : began = clock
        BY <1>0
      <4>2. Answer(q, {}, began)
        BY <1>8, <3>2, <4>1 DEF Check
      <4>3. 0 \in Int
        OBVIOUS
      <4> QED BY <1>0, <3>2, <4>1, <4>2, <4>3, AnswerKeeps
    <3> QED BY <3>1, <3>2
  <2> QED BY <1>4, <1>5, <1>8, <2>2, <2>3 DEF Check, Gated
<1>9. CASE Load(q)
  <2>1. /\ req[q].pc = "loading" /\ req'[q].pc = "loaded" /\ req'[q].began = req[q].began
        /\ req'[q].seen = {s \in suspensions : InForce(s, clock)}
    BY <1>0, <1>1, <1>9 DEF Load, ReqType
  <2>2. ASSUME NEW t \in {req[q].began}, NEW S \in {req'[q].seen}
        PROVE  Reflects(S, t)
    BY <1>0, <1>1, <2>1, ReadReflects
  <2>3. Loads(q)'
    BY <1>0, <1>2, <2>1, <2>2 DEF Gated, Loads, Loading
  <2> QED BY <1>4, <1>5, <1>6, <1>9, <2>3 DEF Load, Gated
<1>10. CASE Cache(q)
  <2>1. /\ req[q].pc = "loaded" /\ req'[q].pc = "closing" /\ req'[q].began = req[q].began
        /\ cached' = [cached EXCEPT ![Home[q]] = req[q].seen]
        /\ UNCHANGED <<loadedAt, verdict>>
    BY <1>0, <1>1, <1>10 DEF Cache, ReqType
  <2>2. PICK S \in SUBSET Suspensions, t \in Int : S = req[q].seen /\ t = req[q].began
    BY <1>1 DEF ReqType
  <2>3. Reflects(S, t) /\ t <= clock /\ clock <= t + LoadTime
    BY <1>1, <2>1, <2>2 DEF Gated, Loads, Loading
  <2>4. cached'[Home[q]] = S /\ \A i \in Instances : i # Home[q] => cached'[i] = cached[i]
    BY <1>0, <2>1, <2>2 DEF TypeOK
  <2>5. ASSUME NEW u \in Int, u <= clock
        PROVE  Reflects(S, u - LoadTime)
    BY <1>0, <2>3, <2>5, ReflectsEarlier
  <2>6. ASSUME NEW p \in Requests
        PROVE  Loads(p)'
    <3>1. Home[p] \in Instances /\ req[p].began \in Nat /\ Loads(p)
      BY <1>0, AnomalyAssumption DEF Gated, ReqType
    <3>2. /\ req'[p].began = req[p].began
          /\ Loading(p)' <=> Loading(p)
          /\ req'[p].pc = "loaded" => p # q /\ req'[p] = req[p]
          /\ req'[p].pc = "closing" /\ p # q => req[p].pc = "closing"
      BY <1>3, <2>1 DEF Loading
    <3>3. Loading(p)' => req'[p].began <= clock' /\ clock' <= req'[p].began + LoadTime
      BY <1>0, <3>1, <3>2 DEF Loads
    <3>4. req'[p].pc = "loaded" =>
            \A Z \in {req'[p].seen}, u \in {req'[p].began} : Reflects(Z, u)'
      BY <1>2, <3>1, <3>2 DEF Loads
    <3>5. ASSUME req'[p].pc = "closing",
                 NEW Z \in {cached'[Home[p]]}, NEW u \in {req'[p].began - LoadTime}
          PROVE  Reflects(Z, u)'
      <4>1. Loading(p)
        BY <3>2, <3>5 DEF Loading
      <4>2. req[p].began <= clock
        BY <3>1, <4>1 DEF Loads
      <4>3. CASE Home[p] = Home[q]
        BY <1>2, <2>4, <2>5, <3>1, <3>2, <3>5, <4>2, <4>3
      <4>4. CASE Home[p] # Home[q]
        BY <1>2, <2>4, <3>1, <3>2, <3>5, <4>4 DEF Loads
      <4> QED BY <4>3, <4>4
    <3> QED BY <3>3, <3>4, <3>5 DEF Loads
  <2>7. ASSUME NEW i \in Instances
        PROVE  Caches(i)'
    <3> SUFFICES ASSUME loadedAt[i] # None
                 PROVE  /\ loadedAt[i] <= clock
                        /\ \A Z \in {cached'[i]}, u \in {loadedAt[i] - LoadTime} : Reflects(Z, u)
      BY <1>0, <1>2, <2>1 DEF Caches
    <3>1. loadedAt[i] \in Nat /\ Caches(i)
      BY <1>0 DEF TypeOK, Gated
    <3>2. loadedAt[i] <= clock
      BY <3>1 DEF Caches
    <3>3. CASE i = Home[q]
      BY <2>4, <2>5, <3>1, <3>2, <3>3
    <3>4. CASE i # Home[q]
      BY <2>4, <3>1, <3>4 DEF Caches
    <3> QED BY <3>2, <3>3, <3>4
  <2> QED BY <1>6, <2>1, <2>6, <2>7 DEF Gated
<1>11. CASE Date(q)
  <2>1. /\ req[q].pc = "closing" /\ UNCHANGED cached
        /\ loadedAt' = [loadedAt EXCEPT ![Home[q]] = req[q].began]
    BY <1>11 DEF Date, LoadedAt
  <2>8. cached[Home[q]] \in SUBSET Suspensions
    BY <1>0 DEF TypeOK
  <2>9. req[q].began - LoadTime \in Int
    BY <1>0, <1>1
  <2> PICK S \in SUBSET Suspensions, t \in Int, began \in Nat :
        S = cached[Home[q]] /\ t = req[q].began - LoadTime /\ began = req[q].began
    BY <1>1, <2>8, <2>9, Zenon
  <2>2. Reflects(S, t) /\ t <= clock /\ began <= clock /\ began < t + Staleness
    BY <1>0, <1>1, <2>1 DEF Gated, Loads, Loading, Staleness
  <2>3. Answer(q, S, began)
    BY <1>11 DEF Date
  <2>4. Past' /\ StopsInTime'
    BY <1>0, <2>2, <2>3, AnswerKeeps
  <2>5. req'[q].pc = "idle"
    BY <1>0, <2>3 DEF Answer, Idle
  <2>6. Loads(q)'
    BY <2>5 DEF Loads, Loading
  <2>7. ASSUME NEW i \in Instances
        PROVE  Caches(i)'
    <3>1. CASE i = Home[q]
      <4>1. loadedAt'[i] = began /\ cached'[i] = S
        BY <1>0, <2>1, <3>1 DEF TypeOK
      <4>2. began - LoadTime = t
        OBVIOUS
      <4> QED BY <1>0, <1>2, <2>2, <4>1, <4>2 DEF Caches
    <3>2. CASE i # Home[q]
      BY <1>0, <1>2, <2>1, <3>2 DEF Gated, Caches, TypeOK
    <3> QED BY <3>1, <3>2
  <2> QED BY <1>4, <2>1, <2>4, <2>6, <2>7 DEF Gated
<1> QED BY <1>7, <1>8, <1>9, <1>10, <1>11

\* Every step keeps what is known of the gate.
LEMMA GatedStep == Gated /\ [Next]_vars => Gated'
<1> SUFFICES ASSUME Gated, [Next]_vars PROVE Gated'
  OBVIOUS
<1>0. TypeOK /\ TypeOK' /\ Moved
  BY TypeStep, StepMoves DEF Gated
<1>1. ASSUME UNCHANGED <<verdict, enforcing>>,
             \A q \in Requests : \/ req'[q].pc = "idle"
                                 \/ /\ req'[q] = req[q]
                                    /\ cached'[Home[q]] = cached[Home[q]]
                                    /\ Loading(q) => clock' <= req[q].began + LoadTime,
             \A i \in Instances : \/ loadedAt'[i] = None
                                  \/ loadedAt'[i] = loadedAt[i] /\ cached'[i] = cached[i]
      PROVE  Gated'
  BY <1>0, <1>1, AnswersStay, GateIdle DEF Gated
<1>2. ASSUME UNCHANGED <<verdict, enforcing, req, cached, clock>>,
             \A i \in Instances : loadedAt'[i] = None \/ loadedAt'[i] = loadedAt[i]
      PROVE  Gated'
  <2>1. \A q \in Requests : Loading(q) => clock' <= req[q].began + LoadTime
    BY <1>2 DEF Gated, Loads
  <2> QED BY <1>1, <1>2, <2>1
<1>3. ASSUME NEW i \in Instances,
             Wake(i) \/ Lose(i) \/ Claim(i) \/ Evaluate(i) \/ Commit(i) \/ Settle(i) \/ Fail(i)
      PROVE  Gated'
  <2>1. UNCHANGED <<verdict, enforcing, req, cached, clock>>
    BY <1>3 DEF Wake, Lose, Claim, Evaluate, Commit, Settle, Fail, gate
  <2>2. \A j \in Instances : loadedAt'[j] = None \/ loadedAt'[j] = loadedAt[j]
    <3>1. CASE Settle(i)
      BY <1>0, <3>1 DEF Settle, TypeOK
    <3>2. CASE ~Settle(i)
      BY <1>3, <3>2 DEF Wake, Lose, Claim, Evaluate, Commit, Fail, gate
    <3> QED BY <3>1, <3>2
  <2> QED BY <1>2, <2>1, <2>2
<1>4. ASSUME NEW i \in Instances, Restart(i)
      PROVE  Gated'
  <2>1. \A q \in Requests : \/ req'[q].pc = "idle"
                            \/ /\ req'[q] = req[q]
                               /\ cached'[Home[q]] = cached[Home[q]]
                               /\ Loading(q) => clock' <= req[q].began + LoadTime
    <3>1. ASSUME NEW q \in Requests, Home[q] # i
          PROVE  /\ req'[q] = req[q]
                 /\ cached'[Home[q]] = cached[Home[q]]
                 /\ Loading(q) => clock' <= req[q].began + LoadTime
      BY <1>0, <1>4, <3>1, AnomalyAssumption DEF Restart, TypeOK, Gated, Loads
    <3>2. ASSUME NEW q \in Requests, Home[q] = i
          PROVE  req'[q].pc = "idle"
      BY <1>4, <3>2 DEF Restart, Idle
    <3> QED BY <3>1, <3>2
  <2>2. \A j \in Instances : \/ loadedAt'[j] = None
                             \/ loadedAt'[j] = loadedAt[j] /\ cached'[j] = cached[j]
    BY <1>0, <1>4 DEF Restart, TypeOK
  <2>3. UNCHANGED <<verdict, enforcing>>
    BY <1>4 DEF Restart
  <2> QED BY <1>1, <2>1, <2>2, <2>3
<1>5. CASE \/ \E i \in Instances : \/ \E t \in Scopes : Suspend(i, t)
                                   \/ \E s \in suspensions : Lift(i, s)
           \/ \E s \in Scopes, refused \in BOOLEAN : Traffic(s, refused)
           \/ UNCHANGED vars
  <2>1. UNCHANGED <<verdict, enforcing, req, cached, clock, loadedAt>>
    BY <1>5 DEF Suspend, Lift, Traffic, vars, gate
  <2> QED BY <1>2, <2>1
<1>6. CASE Invalidate
  <2>1. \A i \in Instances : loadedAt'[i] = None \/ loadedAt'[i] = loadedAt[i]
    BY <1>0, <1>6 DEF Invalidate, TypeOK
  <2> QED BY <1>2, <1>6, <2>1 DEF Invalidate
<1>7. CASE Pass
  <2>1. \A q \in Requests : Loading(q) => clock' <= req[q].began + LoadTime
    <3>1. ASSUME NEW q \in Requests, Loading(q)
          PROVE  clock' <= req[q].began + LoadTime
      <4>1. clock < req[q].began + LoadTime /\ clock' = clock + 1
        BY <1>7, <3>1 DEF Pass
      <4>2. clock \in Nat /\ req[q].began \in Nat /\ LoadTime \in Nat
        BY <1>0, AnomalyAssumption DEF TypeOK
      <4> QED BY <4>1, <4>2
    <3> QED BY <3>1
  <2>2. UNCHANGED <<verdict, enforcing, req, cached, loadedAt>>
    BY <1>7 DEF Pass, gate
  <2> QED BY <1>1, <2>1, <2>2
<1>8. CASE \E q \in Requests : Begin(q) \/ Check(q) \/ Load(q) \/ Cache(q) \/ Date(q)
  BY <1>0, <1>8, GateSteps
<1> QED BY <1>3, <1>4, <1>5, <1>6, <1>7, <1>8 DEF Next

\* At the start nothing is cached and nobody answered.
LEMMA GatedAtFirst == Init => Gated
<1> SUFFICES ASSUME Init PROVE Gated
  OBVIOUS
<1>1. Past
  BY DEF Init, Past
<1>2. \A q \in Requests : Loads(q)
  BY DEF Init, Loads, Loading, Idle
<1>3. \A i \in Instances : Caches(i)
  BY DEF Init, Caches
<1>4. StopsInTime
  BY DEF Init, StopsInTime
<1> QED BY <1>1, <1>2, <1>3, <1>4, TypeAtFirst DEF Gated

\* A stop in force for longer than CACHE_TTL_SECONDS and the time of a load
\* stops every request that begins thereafter, on whichever instance, and a
\* lift lets requests through as soon (suspensions.py, check): also where loads
\* of one instance overlap, so that what one of them has read is dated by
\* another.
THEOREM StoppedInTime == Spec => []StopsInTime
<1>1. Gated => StopsInTime
  BY DEF Gated
<1> QED BY <1>1, GatedAtFirst, GatedStep, PTL DEF Spec
=============================================================================
