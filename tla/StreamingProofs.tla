-------------------------- MODULE StreamingProofs --------------------------
(***************************************************************************)
(* Proofs about Streaming, for every value of its constants: a streamed    *)
(* request is resolved and recorded once, its row is true, and the server  *)
(* waits for what it has counted.                                          *)
(*                                                                         *)
(* What strengthens the properties is said of a request's record alone,    *)
(* so that it is a set of records, Good, and the invariant says that every *)
(* request is in it.                                                       *)
(***************************************************************************)
EXTENDS Streaming, TLAPS

-----------------------------------------------------------------------------
(* The strengthening: where a request is on its way says what it has done. *)

\* The reader and what it has handed on.
Ahead(q) ==
    /\ q.read <= Len(q.script)
    /\ q.read + (IF q.word = None THEN 0 ELSE 1) - q.given \in 0 .. 2

\* Before its exit a request is neither resolved nor recorded; the exit does the
\* one, then the other.  A late one closes the stream after that, not before.
Before == {"opening", "starting", "waiting", "sending", "last", "over", "unstarted",
           "draining", "reporting", "dropped"}
HeldStages == {"draining", "reporting", "closing", "settling", "recording", "killed"}
Exits(q) ==
    \/ q.stage \in {"settling", "recording"}
    \/ q.stage = "closing" /\ ~q.late
Leaves(q) ==
    \/ q.stage \in {"ended", "done"}
    \/ q.stage = "closing" /\ q.late
Course(q) ==
    /\ q.resolves = IF q.resolved = None THEN 0 ELSE 1
    /\ q.rows \in {0, 1}
    /\ q.row # None => q.rows = 1
    /\ q.stage \in Before => q.resolved = None
    /\ q.stage \in Before \/ Exits(q) => q.rows = 0
    /\ Exits(q) /\ q.stage # "recording" => q.resolved = None
    /\ Leaves(q) => q.rows = 1 /\ q.resolved # None
    /\ q.late => q.stage \in HeldStages \cup {"done"}

\* What is booked was produced.
Booked(q) ==
    /\ Exits(q) => q.acct \in Reported
    /\ Exits(q) /\ ~q.acct.produced => q.acct.usage = None
    /\ q.stage = "recording" /\ q.resolved = "released" => ~q.acct.produced

\* Only the candidate at hand may be open.
Connected(q) ==
    /\ q.conn \subseteq {q.at}
    /\ ~q.asked \/ q.pump = "closed" => q.conn = {}
    /\ q.stage \in {"settling", "recording", "ended"} /\ ~q.late => q.pump = "closed"
    /\ q.stage \in {"done", "dropped"} => q.conn = {}

\* How an answer ends: at its end everything is read, and what was delivered
\* without a failure is all of it.
Whole(q) == q.word = "end" /\ q.taken = Len(q.script)
Endings(q) ==
    /\ q.word = "end" => q.answered # None /\ q.read = Len(q.script)
    /\ q.stage = "last" \/ q.delivered => q.failure # None \/ Whole(q)
    /\ q.stage = "reporting" =>
          \/ q.short \/ q.word # None
          \/ ~q.late /\ (q.failure # None \/ q.delivered)

\* What a report or a row (z) says of an answer is so and stays so.
Says(q, z) ==
    /\ z.usage # None /\ z.basis = None => z.usage = LastReport(q.script, Len(q.script))
    /\ z.status = "left" /\ ~q.short =>
          /\ q.word # None
          /\ q.word = "end" /\ LastReport(q.script, Len(q.script)) # None
                => z.usage = LastReport(q.script, Len(q.script))
    /\ z.status = "served" => q.word = "end"
Tells(q, z) ==
    /\ Says(q, z)
    /\ z.status = "left" /\ z.usage = None /\ ~q.short /\ q.word = "end"
          => LastReport(q.script, Len(q.script)) = None
    /\ z.status = "served" => q.taken = Len(q.script)
Said(q) ==
    /\ Exits(q) => Tells(q, q.acct)
    /\ q.row # None =>
          /\ Says(q, q.row)
          /\ q.row.status = "served" => q.row.text = Len(q.script)

Good == {q \in Shapes : /\ Ahead(q) /\ Course(q) /\ Booked(q)
                        /\ Connected(q) /\ Endings(q) /\ Said(q)}

\* While no booking has failed: the exit has resolved, and given back only what
\* has no usage.
Calm == {q \in Shapes :
            /\ q.stage = "recording" => q.resolved # None
            /\ q.row # None /\ q.resolved = "released" => q.row.usage = None}

\* What Drains.stop has counted is held or recorded.
Waited ==
    /\ server.phase \in {"waiting", "closed"} =>
          \A r \in server.waited : r \in held \/ req[r].rows = 1
    /\ CountedIsWaitedFor

Sound ==
    /\ drainOn \in BOOLEAN
    /\ faults \in 0 .. MaxFaults
    /\ server \in [phase: Phases, cancelled: SUBSET Requests, expired: BOOLEAN,
                   waited: SUBSET Requests]
    /\ held \in SUBSET Requests
    /\ req \in [Requests -> Good]
    /\ faults = 0 => req \in [Requests -> Calm]
    /\ \A r \in held : req[r].stage \in HeldStages
    /\ Waited

-----------------------------------------------------------------------------

\* The strengthening holds what the properties say.
LEMMA SoundIsEnough ==
    ASSUME Sound
    PROVE  TypeOK /\ AccountedOnce /\ RowIsTrue /\ CountedIsWaitedFor
<1>a. \A r \in Requests : req[r] \in Shapes /\ Ahead(req[r])
  BY DEF Sound, Good
<1>b. \A r \in Requests : Items(r) - req[r].given \in 0 .. 2
  <2> TAKE r \in Requests
  <2>1. Ahead(req[r]) /\ req[r] \in Shapes
    BY <1>a
  <2>2. QED
    BY <2>1 DEF Ahead, Items, Shapes
<1>c. req \in [Requests -> Shapes]
  BY DEF Sound, Good
<1>d. \A r \in held : req[r].stage \in HeldStages
  BY DEF Sound
<1>1. TypeOK
  BY <1>a, <1>b, <1>c, <1>d DEF Sound, TypeOK, Ahead, HeldStages
<1>2. AccountedOnce
  BY DEF Sound, AccountedOnce, Good, Calm, ResolvedOnce, NothingBilledIsReleased,
         NothingLeftOpen, Course, Connected, Leaves
<1>3. RowIsTrue
  BY DEF Sound, RowIsTrue, Good, Said, Says, NoFloorPassesForTheWhole,
         HangingUpIsNotFree, ServedIsWhole, Final
<1>4. QED
  BY <1>1, <1>2, <1>3 DEF Sound, Waited

\* A step of one request: the others, and what the server has counted, keep what
\* they have.
LEMMA OneMoves ==
    ASSUME Sound, NEW r \in Requests, NEW x \in Good,
           req' = [req EXCEPT ![r] = x],
           faults' \in faults .. MaxFaults, faults' = 0 => x \in Calm,
           UNCHANGED <<drainOn, server>>,
           held' \in SUBSET Requests, held' \ {r} = held \ {r},
           r \in held' => x.stage \in HeldStages,
           r \in held /\ r \notin held' => x.rows = 1,
           req[r].rows = 1 => x.rows = 1
    PROVE  Sound'
<1>1. req' \in [Requests -> Good] /\ faults' \in 0 .. MaxFaults
  BY StreamingAssumption DEF Sound
<1>2. faults' = 0 => req' \in [Requests -> Calm]
  BY StreamingAssumption DEF Sound
<1>3. \A s \in Requests : req'[s] = IF s = r THEN x ELSE req[s]
  BY DEF Sound
<1>4. \A s \in held' : req'[s].stage \in HeldStages
  BY <1>3 DEF Sound
<1>5. \A s \in Requests : (s \in held \/ req[s].rows = 1) => (s \in held' \/ req'[s].rows = 1)
  BY <1>3
<1>6. \A s \in Requests : req[s].rows = 1 => req'[s].rows = 1
  BY <1>3
<1>7. Waited'
  BY <1>5, <1>6 DEF Sound, Waited, CountedIsWaitedFor
<1>8. QED
  BY <1>1, <1>2, <1>4, <1>7 DEF Sound

\* What one step of a request may do to its record.
Keeps(q, x) ==
    /\ x \in Good
    /\ q \in Calm => x \in Calm
    /\ q.rows = 1 => x.rows = 1
    /\ q.stage \in HeldStages => x.stage \in HeldStages

\* A step that changes nothing else.
LEMMA OneKeeps ==
    ASSUME Sound, NEW r \in Requests, NEW x, Keeps(req[r], x),
           req' = [req EXCEPT ![r] = x], UNCHANGED <<drainOn, held, server, faults>>
    PROVE  Sound'
<1>1. x \in Good /\ (faults = 0 => x \in Calm)
  BY DEF Sound, Keeps
<1>2. faults \in faults .. MaxFaults /\ held \in SUBSET Requests
  BY StreamingAssumption DEF Sound
<1>3. r \in held => x.stage \in HeldStages
  BY DEF Sound, Keeps
<1>4. QED
  BY <1>1, <1>2, <1>3, OneMoves DEF Keeps

-----------------------------------------------------------------------------
(* What each step does to the record of its request: a good record stays   *)
(* good.  Every lemma says it of the step its comment names.               *)

\* What the source may say of its end.
AtItsEnd(q, z) == z = "end" => q.answered # None /\ q.read = Len(q.script)

\* A row that says what was reported.
RowOf(q, z) ==
    /\ z.status = q.acct.status /\ z.usage = q.acct.usage
    /\ z.basis = q.acct.basis /\ z.text = q.taken

\* What `hold` and Drains do after it.
Exited(q, v, n, w) ==
    /\ v = IF q.resolved = None THEN "released" ELSE q.resolved
    /\ n = IF q.resolved = None THEN q.resolves + 1 ELSE q.resolves
    /\ w = IF q.late THEN "closing" ELSE "ended"

\* A candidate is skipped.
LEMMA SkipKeeps ==
    ASSUME NEW q \in Good, q.stage \notin {"done", "dropped", "killed"}, q.pump # "closed",
           ~q.asked, q.at \in 1 .. Models,
           NEW x, x = [q EXCEPT !.at = q.at + 1]
    PROVE  Keeps(q, x)
<1>1. x \in Shapes
  <2>1. q \in Shapes
    BY DEF Good
  <2>2. q.at + 1 \in 1 .. Models + 1
    BY StreamingAssumption
  <2> QED
    BY <2>1, <2>2 DEF Shapes
<1>2. Ahead(x) /\ Course(x)
  <2>1. Ahead(x)
    BY DEF Good, Shapes, Ahead
  <2>2. Course(x)
    BY DEF Good, Shapes, Course, Exits, Leaves, Before, HeldStages
  <2> QED BY <2>1, <2>2
<1>3. Booked(x) /\ Connected(x)
  BY DEF Good, Shapes, Booked, Connected, Course, Exits, Leaves, Before, HeldStages
<1>4. Endings(x)
  BY DEF Good, Shapes, Endings, Whole, Course, Before, HeldStages
<1>5. Said(x)
  BY DEF Good, Shapes, Said, Tells, Says, Exits
<1>6. x \in Good
  BY <1>1, <1>2, <1>3, <1>4, <1>5 DEF Good
<1>7. q \in Shapes
  BY DEF Good
<1>8. q \in Calm => x \in Calm
  BY <1>1, <1>7 DEF Calm, Shapes
<1> QED
  BY <1>6, <1>7, <1>8 DEF Keeps, Shapes, HeldStages

\* A candidate is asked: nothing was open.
LEMMA AskKeeps ==
    ASSUME NEW q \in Good, q.stage \notin {"done", "dropped", "killed"}, q.pump # "closed",
           ~q.asked, q.at \in 1 .. Models,
           NEW x, x = [q EXCEPT !.asked = TRUE, !.conn = q.conn \cup {q.at}]
    PROVE  Keeps(q, x)
<1>1. x \in Shapes
  <2>1. q \in Shapes
    BY DEF Good
  <2>2. q.conn \cup {q.at} \in SUBSET (1 .. Models)
    BY DEF Good, Shapes
  <2> QED
    BY <2>1, <2>2 DEF Shapes
<1>2. Ahead(x) /\ Course(x)
  <2>1. Ahead(x)
    BY DEF Good, Shapes, Ahead
  <2>2. Course(x)
    BY DEF Good, Shapes, Course, Exits, Leaves, Before, HeldStages
  <2> QED BY <2>1, <2>2
<1>3. Booked(x) /\ Connected(x)
  BY DEF Good, Shapes, Booked, Connected, Course, Exits, Leaves, Before, HeldStages
<1>4. Endings(x)
  BY DEF Good, Shapes, Endings, Whole, Course, Before, HeldStages
<1>5. Said(x)
  BY DEF Good, Shapes, Said, Tells, Says, Exits
<1>6. x \in Good
  BY <1>1, <1>2, <1>3, <1>4, <1>5 DEF Good
<1>7. q \in Shapes
  BY DEF Good
<1>8. q \in Calm => x \in Calm
  BY <1>1, <1>7 DEF Calm, Shapes
<1> QED
  BY <1>6, <1>7, <1>8 DEF Keeps, Shapes, HeldStages

\* A candidate is passed over.
LEMMA PassOverKeeps ==
    ASSUME NEW q \in Good, NEW kind \in {"status", "cut"}, q.stage \notin {"done", "dropped", "killed"}, q.pump # "closed",
           q.asked, q.at \in 1 .. Models,
           NEW x, x = [q EXCEPT !.at = q.at + 1, !.asked = FALSE, !.last = kind,
                                   !.conn = q.conn \ {q.at}]
    PROVE  Keeps(q, x)
<1>1. x \in Shapes
  <2>1. q \in Shapes
    BY DEF Good
  <2>2. q.at + 1 \in 1 .. Models + 1
    BY StreamingAssumption
  <2>3. q.conn \ {q.at} \in SUBSET (1 .. Models)
    BY DEF Good, Shapes
  <2> QED
    BY <2>1, <2>2, <2>3 DEF Shapes
<1>2. Ahead(x) /\ Course(x)
  <2>1. Ahead(x)
    BY DEF Good, Shapes, Ahead
  <2>2. Course(x)
    BY DEF Good, Shapes, Course, Exits, Leaves, Before, HeldStages
  <2> QED BY <2>1, <2>2
<1>3. Booked(x) /\ Connected(x)
  BY DEF Good, Shapes, Booked, Connected, Course, Exits, Leaves, Before, HeldStages
<1>4. Endings(x)
  BY DEF Good, Shapes, Endings, Whole, Course, Before, HeldStages
<1>5. Said(x)
  BY DEF Good, Shapes, Said, Tells, Says, Exits
<1>6. x \in Good
  BY <1>1, <1>2, <1>3, <1>4, <1>5 DEF Good
<1>7. q \in Shapes
  BY DEF Good
<1>8. q \in Calm => x \in Calm
  BY <1>1, <1>7 DEF Calm, Shapes
<1> QED
  BY <1>6, <1>7, <1>8 DEF Keeps, Shapes, HeldStages

\* A candidate answers.
LEMMA AnswerKeeps ==
    ASSUME NEW q \in Good, q.stage \notin {"done", "dropped", "killed"}, q.pump # "closed",
           q.asked, q.at \in 1 .. Models,
           NEW x, x = [q EXCEPT !.answered = q.at,
                                   !.conn = IF q.script = <<>> THEN q.conn \ {q.at} ELSE q.conn]
    PROVE  Keeps(q, x)
<1>1. x \in Shapes
  <2>1. q \in Shapes
    BY DEF Good
  <2>2. q.conn \ {q.at} \in SUBSET (1 .. Models)
    BY DEF Good, Shapes
  <2>3. q.at # None
    BY StreamingAssumption
  <2> QED
    BY <2>1, <2>2, <2>3 DEF Shapes
<1>2. Ahead(x) /\ Course(x)
  <2>1. Ahead(x)
    BY DEF Good, Shapes, Ahead
  <2>2. Course(x)
    BY DEF Good, Shapes, Course, Exits, Leaves, Before, HeldStages
  <2> QED BY <2>1, <2>2
<1>3. Booked(x) /\ Connected(x)
  BY DEF Good, Shapes, Booked, Connected, Course, Exits, Leaves, Before, HeldStages
<1>4. Endings(x)
  BY StreamingAssumption DEF Good, Shapes, Endings, Whole, Course, Before, HeldStages
<1>5. Said(x)
  BY DEF Good, Shapes, Said, Tells, Says, Exits
<1>6. x \in Good
  BY <1>1, <1>2, <1>3, <1>4, <1>5 DEF Good
<1>7. q \in Shapes
  BY DEF Good
<1>8. q \in Calm => x \in Calm
  BY <1>1, <1>7, ZenonT(30) DEF Calm, Shapes
<1> QED
  BY <1>6, <1>7, <1>8 DEF Keeps, Shapes, HeldStages

\* The response begins.
LEMMA RespondKeeps ==
    ASSUME NEW q \in Good, NEW b \in BOOLEAN, q.stage = "opening",
           NEW x, x = [q EXCEPT !.stage = "starting", !.within = b]
    PROVE  Keeps(q, x)
<1>1. x \in Shapes
  <2>1. q \in Shapes
    BY DEF Good
  <2> QED BY <2>1 DEF Shapes, Stages
<1>2. Ahead(x) /\ Course(x)
  <2>1. Ahead(x)
    BY DEF Good, Shapes, Ahead
  <2>2. Course(x)
    BY DEF Good, Shapes, Course, Exits, Leaves, Before, HeldStages
  <2> QED BY <2>1, <2>2
<1>3. Booked(x) /\ Connected(x)
  BY DEF Good, Shapes, Booked, Connected, Course, Exits, Leaves, Before, HeldStages
<1>4. Endings(x)
  BY DEF Good, Shapes, Endings, Whole, Course, Before, HeldStages
<1>5. Said(x)
  BY DEF Good, Shapes, Said, Tells, Says, Exits
<1>6. x \in Good
  BY <1>1, <1>2, <1>3, <1>4, <1>5 DEF Good
<1>7. q \in Shapes
  BY DEF Good
<1>8. q \in Calm => x \in Calm
  BY <1>1, <1>7 DEF Calm, Shapes
<1> QED
  BY <1>6, <1>7, <1>8 DEF Keeps, Shapes, HeldStages

\* A refusal that is still a status: no candidate is open any more.
LEMMA RefuseKeeps ==
    ASSUME NEW q \in Good, NEW z \in {"refused", "status", "cut"}, q.stage = "opening", q.at > Models,
           NEW x, x = [q EXCEPT !.stage = "done", !.resolved = "released", !.resolves = q.resolves + 1,
                                   !.rows = q.rows + 1,
                                   !.row = [status |-> z, usage |-> None, basis |-> None,
                                            text |-> 0]]
    PROVE  Keeps(q, x)
<1>1. x \in Shapes
  <2>1. q \in Shapes
    BY DEF Good
  <2>2. "done" \in Stages
    BY DEF Stages
  <2>3. q.resolves + 1 \in Nat /\ q.rows + 1 \in Nat
    BY DEF Good, Shapes
  <2>4. z \in Statuses
    BY DEF Statuses
  <2>5. None \in Figures
    BY DEF Figures
  <2>6. [status |-> z, usage |-> None, basis |-> None, text |-> 0] \in Rows
    BY <2>4, <2>5 DEF Rows
  <2> QED
    BY <2>1, <2>2, <2>3, <2>4, <2>5, <2>6 DEF Shapes
<1>2. Ahead(x) /\ Course(x)
  BY StreamingAssumption DEF Good, Shapes, Ahead, Course, Exits, Leaves, Before, HeldStages
<1>3. Booked(x) /\ Connected(x)
  BY StreamingAssumption DEF Good, Shapes, Booked, Connected, Course, Exits, Leaves, Before, HeldStages
<1>4. Endings(x)
  BY DEF Good, Shapes, Endings, Whole, Course, Before, HeldStages
<1>5. Said(x)
  BY DEF Good, Shapes, Said, Tells, Says, Exits
<1>6. QED
  BY <1>1, <1>2, <1>3, <1>4, <1>5 DEF Keeps, Good, Calm, Shapes, HeldStages, Course, Before

\* The headers are sent, a chunk is; the exit is over.
LEMMA StageKeeps ==
    ASSUME NEW q \in Good, NEW z, 
           \/ q.stage \in {"starting", "sending"} /\ z = "waiting"
           \/ q.stage = "ended" /\ z = "done",
           NEW x, x = [q EXCEPT !.stage = z]
    PROVE  Keeps(q, x)
<1>1. x \in Shapes
  <2>1. q \in Shapes
    BY DEF Good
  <2> QED BY <2>1 DEF Shapes, Stages
<1>2. Ahead(x) /\ Course(x)
  <2>1. Ahead(x)
    BY DEF Good, Shapes, Ahead
  <2>2. Course(x)
    BY DEF Good, Shapes, Course, Exits, Leaves, Before, HeldStages
  <2> QED BY <2>1, <2>2
<1>3. Booked(x) /\ Connected(x)
  BY DEF Good, Shapes, Booked, Connected, Course, Exits, Leaves, Before, HeldStages
<1>4. Endings(x)
  BY DEF Good, Shapes, Endings, Whole, Course, Before, HeldStages
<1>5. Said(x)
  BY DEF Good, Shapes, Said, Tells, Says, Exits
<1>6. x \in Good
  BY <1>1, <1>2, <1>3, <1>4, <1>5 DEF Good
<1>7. q \in Shapes
  BY DEF Good
<1>8. q \in Calm => x \in Calm
  BY <1>1, <1>7 DEF Calm, Shapes
<1> QED
  BY <1>6, <1>7, <1>8 DEF Keeps, Shapes, HeldStages

\* The connection goes.
LEMMA LeaveKeeps ==
    ASSUME NEW q \in Good, NEW z, 
           \/ q.stage = "starting" /\ z = "unstarted"
           \/ q.stage \in {"waiting", "sending", "last"} /\ z = "over",
           NEW x, x = [q EXCEPT !.stage = z]
    PROVE  Keeps(q, x)
<1>1. x \in Shapes
  <2>1. q \in Shapes
    BY DEF Good
  <2> QED BY <2>1 DEF Shapes, Stages
<1>2. Ahead(x) /\ Course(x)
  <2>1. Ahead(x)
    BY DEF Good, Shapes, Ahead
  <2>2. Course(x)
    BY DEF Good, Shapes, Course, Exits, Leaves, Before, HeldStages
  <2> QED BY <2>1, <2>2
<1>3. Booked(x) /\ Connected(x)
  BY DEF Good, Shapes, Booked, Connected, Course, Exits, Leaves, Before, HeldStages
<1>4. Endings(x)
  BY DEF Good, Shapes, Endings, Whole, Course, Before, HeldStages
<1>5. Said(x)
  BY DEF Good, Shapes, Said, Tells, Says, Exits
<1>6. x \in Good
  BY <1>1, <1>2, <1>3, <1>4, <1>5 DEF Good
<1>7. q \in Shapes
  BY DEF Good
<1>8. q \in Calm => x \in Calm
  BY <1>1, <1>7 DEF Calm, Shapes
<1> QED
  BY <1>6, <1>7, <1>8 DEF Keeps, Shapes, HeldStages

\* The pump starts.
LEMMA WakeKeeps ==
    ASSUME NEW q \in Good, q.stage = "waiting", q.pump = "idle",
           NEW x, x = [q EXCEPT !.pump = "on"]
    PROVE  Keeps(q, x)
<1>1. x \in Shapes
  BY DEF Good, Shapes
<1>2. Ahead(x) /\ Course(x)
  <2>1. Ahead(x)
    BY DEF Good, Shapes, Ahead
  <2>2. Course(x)
    BY DEF Good, Shapes, Course, Exits, Leaves, Before, HeldStages
  <2> QED BY <2>1, <2>2
<1>3. Booked(x) /\ Connected(x)
  BY DEF Good, Shapes, Booked, Connected, Course, Exits, Leaves, Before, HeldStages
<1>4. Endings(x)
  BY DEF Good, Shapes, Endings, Whole, Course, Before, HeldStages
<1>5. Said(x)
  BY DEF Good, Shapes, Said, Tells, Says, Exits
<1>6. x \in Good
  BY <1>1, <1>2, <1>3, <1>4, <1>5 DEF Good
<1>7. q \in Shapes
  BY DEF Good
<1>8. q \in Calm => x \in Calm
  BY <1>1, <1>7 DEF Calm, Shapes
<1> QED
  BY <1>6, <1>7, <1>8 DEF Keeps, Shapes, HeldStages

\* A chunk is read.
LEMMA ReadKeeps ==
    ASSUME NEW q \in Good, NEW n \in Nat, q.word = None, q.answered # None,
           NEW x, x = [q EXCEPT !.read = n], Ahead(x)
    PROVE  Keeps(q, x)
<1>1. x \in Shapes
  BY DEF Good, Shapes
<1>2. Ahead(x) /\ Course(x)
  <2>1. Ahead(x)
    BY DEF Good, Shapes, Ahead
  <2>2. Course(x)
    BY DEF Good, Shapes, Course, Exits, Leaves, Before, HeldStages
  <2> QED BY <2>1, <2>2
<1>3. Booked(x) /\ Connected(x)
  BY DEF Good, Shapes, Booked, Connected, Course, Exits, Leaves, Before, HeldStages
<1>4. Endings(x)
  BY StreamingAssumption DEF Good, Shapes, Endings, Whole, Course, Before, HeldStages
<1>5. Said(x)
  BY DEF Good, Shapes, Said, Tells, Says, Exits
<1>6. x \in Good
  BY <1>1, <1>2, <1>3, <1>4, <1>5 DEF Good
<1>7. q \in Shapes
  BY DEF Good
<1>8. q \in Calm => x \in Calm
  BY <1>1, <1>7 DEF Calm, Shapes
<1> QED
  BY <1>6, <1>7, <1>8 DEF Keeps, Shapes, HeldStages

\* The source is over.
LEMMA LastWordKeeps ==
    ASSUME NEW q \in Good, NEW z \in Words, q.word \notin Words,
           AtItsEnd(q, z),
           NEW x, x = [q EXCEPT !.word = z, !.conn = q.conn \ {q.at}], Ahead(x)
    PROVE  Keeps(q, x)
<1>1. x \in Shapes
  <2>1. q \in Shapes
    BY DEF Good
  <2>2. q.conn \ {q.at} \in SUBSET (1 .. Models)
    BY DEF Good, Shapes
  <2> QED
    BY <2>1, <2>2 DEF Shapes
<1>2. Ahead(x) /\ Course(x)
  BY StreamingAssumption DEF Good, Shapes, Ahead, Course, Exits, Leaves, Before, HeldStages, Words
<1>3. Booked(x) /\ Connected(x)
  BY DEF Good, Shapes, Booked, Connected, Course, Exits, Leaves, Before, HeldStages
<1>4. Endings(x)
  BY StreamingAssumption DEF Good, Shapes, Endings, Whole, Course, Before, HeldStages, AtItsEnd, Words
<1>5. Said(x)
  BY StreamingAssumption DEF Good, Shapes, Said, Tells, Says, Exits, Words
<1>6. x \in Good
  BY <1>1, <1>2, <1>3, <1>4, <1>5 DEF Good
<1>7. q \in Shapes
  BY DEF Good
<1>8. q \in Calm => x \in Calm
  BY <1>1, <1>7 DEF Calm, Shapes
<1> QED
  BY <1>6, <1>7, <1>8 DEF Keeps, Shapes, HeldStages

\* An item is handed on.
LEMMA GiveKeeps ==
    ASSUME NEW q \in Good, q.given < q.read + (IF q.word = None THEN 0 ELSE 1),
           NEW x, x = [q EXCEPT !.given = q.given + 1]
    PROVE  Keeps(q, x)
<1>1. x \in Shapes
  <2>1. q \in Shapes
    BY DEF Good
  <2>2. q.given + 1 \in Nat
    BY DEF Good, Shapes
  <2> QED
    BY <2>1, <2>2 DEF Shapes
<1>2. Ahead(x) /\ Course(x)
  <2>1. Ahead(x)
    BY DEF Good, Shapes, Ahead
  <2>2. Course(x)
    BY DEF Good, Shapes, Course, Exits, Leaves, Before, HeldStages
  <2> QED BY <2>1, <2>2
<1>3. Booked(x) /\ Connected(x)
  BY DEF Good, Shapes, Booked, Connected, Course, Exits, Leaves, Before, HeldStages
<1>4. Endings(x)
  BY DEF Good, Shapes, Endings, Whole, Course, Before, HeldStages
<1>5. Said(x)
  BY DEF Good, Shapes, Said, Tells, Says, Exits
<1>6. x \in Good
  BY <1>1, <1>2, <1>3, <1>4, <1>5 DEF Good
<1>7. q \in Shapes
  BY DEF Good
<1>8. q \in Calm => x \in Calm
  BY <1>1, <1>7 DEF Calm, Shapes
<1> QED
  BY <1>6, <1>7, <1>8 DEF Keeps, Shapes, HeldStages

\* The body takes a chunk.
LEMMA TakeKeeps ==
    ASSUME NEW q \in Good, NEW z \in {"waiting", "sending"}, q.stage = "waiting", q.taken < q.read,
           NEW x, x = [q EXCEPT !.taken = q.taken + 1, !.stage = z]
    PROVE  Keeps(q, x)
<1>1. x \in Shapes
  <2>1. q \in Shapes
    BY DEF Good
  <2>2. q.taken + 1 \in Nat /\ z \in Stages
    BY DEF Good, Shapes, Stages
  <2> QED
    BY <2>1, <2>2 DEF Shapes
<1>2. Ahead(x) /\ Course(x)
  <2>1. Ahead(x)
    BY DEF Good, Shapes, Ahead
  <2>2. Course(x)
    BY DEF Good, Shapes, Course, Exits, Leaves, Before, HeldStages
  <2> QED BY <2>1, <2>2
<1>3. Booked(x) /\ Connected(x)
  BY DEF Good, Shapes, Booked, Connected, Course, Exits, Leaves, Before, HeldStages
<1>4. Endings(x)
  BY DEF Good, Shapes, Endings, Whole, Course, Before, HeldStages
<1>5. Said(x)
  BY DEF Good, Shapes, Said, Tells, Says, Exits
<1>6. x \in Good
  BY <1>1, <1>2, <1>3, <1>4, <1>5 DEF Good
<1>7. q \in Shapes
  BY DEF Good
<1>8. q \in Calm => x \in Calm
  BY <1>1, <1>7 DEF Calm, Shapes
<1> QED
  BY <1>6, <1>7, <1>8 DEF Keeps, Shapes, HeldStages

\* The terminal event is withheld from half a document.
LEMMA WithholdKeeps ==
    ASSUME NEW q \in Good, q.stage = "waiting",
           NEW x, x = [q EXCEPT !.failure = "withheld", !.stage = "over"]
    PROVE  Keeps(q, x)
<1>1. x \in Shapes
  <2>1. q \in Shapes
    BY DEF Good
  <2> QED BY <2>1 DEF Shapes, Stages
<1>2. Ahead(x) /\ Course(x)
  <2>1. Ahead(x)
    BY DEF Good, Shapes, Ahead
  <2>2. Course(x)
    BY DEF Good, Shapes, Course, Exits, Leaves, Before, HeldStages
  <2> QED BY <2>1, <2>2
<1>3. Booked(x) /\ Connected(x)
  BY DEF Good, Shapes, Booked, Connected, Course, Exits, Leaves, Before, HeldStages
<1>4. Endings(x)
  BY StreamingAssumption DEF Good, Shapes, Endings, Whole, Course, Before, HeldStages, Statuses
<1>5. Said(x)
  BY DEF Good, Shapes, Said, Tells, Says, Exits
<1>6. x \in Good
  BY <1>1, <1>2, <1>3, <1>4, <1>5 DEF Good
<1>7. q \in Shapes
  BY DEF Good
<1>8. q \in Calm => x \in Calm
  BY <1>1, <1>7 DEF Calm, Shapes
<1> QED
  BY <1>6, <1>7, <1>8 DEF Keeps, Shapes, HeldStages

\* The body takes the end: it has the whole answer.
LEMMA TakeEndKeeps ==
    ASSUME NEW q \in Good, NEW d \in BOOLEAN, q.stage = "waiting", q.taken = q.read, q.word = "end",
           NEW x, x = [q EXCEPT !.delivered = d, !.stage = "last"]
    PROVE  Keeps(q, x)
<1>1. x \in Shapes
  <2>1. q \in Shapes
    BY DEF Good
  <2> QED BY <2>1, ZenonT(30) DEF Shapes, Stages
<1>2. Ahead(x) /\ Course(x)
  <2>1. Ahead(x)
    BY DEF Good, Shapes, Ahead
  <2>2. Course(x)
    BY DEF Good, Shapes, Course, Exits, Leaves, Before, HeldStages
  <2> QED BY <2>1, <2>2
<1>3. Booked(x) /\ Connected(x)
  BY DEF Good, Shapes, Booked, Connected, Course, Exits, Leaves, Before, HeldStages
<1>4. Endings(x)
  BY DEF Good, Shapes, Endings, Whole, Course, Before, HeldStages
<1>5. Said(x)
  BY DEF Good, Shapes, Said, Tells, Says, Exits
<1>6. x \in Good
  BY <1>1, <1>2, <1>3, <1>4, <1>5 DEF Good
<1>7. q \in Shapes
  BY DEF Good
<1>8. q \in Calm => x \in Calm
  BY <1>1, <1>7 DEF Calm, Shapes
<1> QED
  BY <1>6, <1>7, <1>8 DEF Keeps, Shapes, HeldStages

\* The body takes a failure.
LEMMA FailKeeps ==
    ASSUME NEW q \in Good, NEW w \in {"status", "cut", "refused"}, NEW z \in {"over", "last"}, q.stage = "waiting",
           NEW x, x = [q EXCEPT !.failure = w, !.stage = z]
    PROVE  Keeps(q, x)
<1>1. x \in Shapes
  <2>1. q \in Shapes
    BY DEF Good
  <2> QED BY <2>1 DEF Shapes, Stages
<1>2. Ahead(x) /\ Course(x)
  <2>1. Ahead(x)
    BY DEF Good, Shapes, Ahead
  <2>2. Course(x)
    BY DEF Good, Shapes, Course, Exits, Leaves, Before, HeldStages
  <2> QED BY <2>1, <2>2
<1>3. Booked(x) /\ Connected(x)
  BY DEF Good, Shapes, Booked, Connected, Course, Exits, Leaves, Before, HeldStages
<1>4. Endings(x)
  BY StreamingAssumption DEF Good, Shapes, Endings, Whole, Course, Before, HeldStages, Statuses
<1>5. Said(x)
  BY DEF Good, Shapes, Said, Tells, Says, Exits
<1>6. x \in Good
  BY <1>1, <1>2, <1>3, <1>4, <1>5 DEF Good
<1>7. q \in Shapes
  BY DEF Good
<1>8. q \in Calm => x \in Calm
  BY <1>1, <1>7 DEF Calm, Shapes
<1> QED
  BY <1>6, <1>7, <1>8 DEF Keeps, Shapes, HeldStages

\* A failure no surface renders.
LEMMA BugKeeps ==
    ASSUME NEW q \in Good, q.stage = "waiting",
           NEW x, x = [q EXCEPT !.boom = TRUE, !.stage = "over"]
    PROVE  Keeps(q, x)
<1>1. x \in Shapes
  <2>1. q \in Shapes
    BY DEF Good
  <2> QED BY <2>1 DEF Shapes, Stages
<1>2. Ahead(x) /\ Course(x)
  <2>1. Ahead(x)
    BY DEF Good, Shapes, Ahead
  <2>2. Course(x)
    BY DEF Good, Shapes, Course, Exits, Leaves, Before, HeldStages
  <2> QED BY <2>1, <2>2
<1>3. Booked(x) /\ Connected(x)
  BY DEF Good, Shapes, Booked, Connected, Course, Exits, Leaves, Before, HeldStages
<1>4. Endings(x)
  BY DEF Good, Shapes, Endings, Whole, Course, Before, HeldStages
<1>5. Said(x)
  BY DEF Good, Shapes, Said, Tells, Says, Exits
<1>6. x \in Good
  BY <1>1, <1>2, <1>3, <1>4, <1>5 DEF Good
<1>7. q \in Shapes
  BY DEF Good
<1>8. q \in Calm => x \in Calm
  BY <1>1, <1>7 DEF Calm, Shapes
<1> QED
  BY <1>6, <1>7, <1>8 DEF Keeps, Shapes, HeldStages

\* The last element is sent.
LEMMA SentLastKeeps ==
    ASSUME NEW q \in Good, q.stage = "last",
           NEW x, x = [q EXCEPT !.delivered = TRUE, !.stage = "over"]
    PROVE  Keeps(q, x)
<1>1. x \in Shapes
  <2>1. q \in Shapes
    BY DEF Good
  <2> QED BY <2>1 DEF Shapes, Stages
<1>2. Ahead(x) /\ Course(x)
  <2>1. Ahead(x)
    BY DEF Good, Shapes, Ahead
  <2>2. Course(x)
    BY DEF Good, Shapes, Course, Exits, Leaves, Before, HeldStages
  <2> QED BY <2>1, <2>2
<1>3. Booked(x) /\ Connected(x)
  BY DEF Good, Shapes, Booked, Connected, Course, Exits, Leaves, Before, HeldStages
<1>4. Endings(x)
  BY DEF Good, Shapes, Endings, Whole, Course, Before, HeldStages
<1>5. Said(x)
  BY DEF Good, Shapes, Said, Tells, Says, Exits
<1>6. x \in Good
  BY <1>1, <1>2, <1>3, <1>4, <1>5 DEF Good
<1>7. q \in Shapes
  BY DEF Good
<1>8. q \in Calm => x \in Calm
  BY <1>1, <1>7 DEF Calm, Shapes
<1> QED
  BY <1>6, <1>7, <1>8 DEF Keeps, Shapes, HeldStages

\* The record after the step of DrainsKeeps.
Drained(q, b, p) ==
    [q EXCEPT !.stage = "draining", !.late = b, !.pump = p]

\* The caller is gone: what is left may be read on.
LEMMA DrainsKeeps ==
    ASSUME NEW q \in Good, NEW b \in BOOLEAN, NEW p, q.stage \in {"over", "unstarted"},
           p = q.pump \/ (p = "on" /\ q.pump = "idle"),
           NEW x, x = Drained(q, b, p)
    PROVE  Keeps(q, x)
<1> USE DEF Drained
<1>1. x \in Shapes
  <2>1. q \in Shapes
    BY DEF Good
  <2> QED BY <2>1, ZenonT(30) DEF Shapes, Stages
<1>2. Ahead(x) /\ Course(x)
  <2>1. Ahead(x)
    BY DEF Good, Shapes, Ahead
  <2>2. Course(x)
    BY DEF Good, Shapes, Course, Exits, Leaves, Before, HeldStages
  <2> QED BY <2>1, <2>2
<1>3. Booked(x) /\ Connected(x)
  BY DEF Good, Shapes, Booked, Connected, Course, Exits, Leaves, Before, HeldStages
<1>4. Endings(x)
  BY DEF Good, Shapes, Endings, Whole, Course, Before, HeldStages
<1>5. Said(x)
  BY DEF Good, Shapes, Said, Tells, Says, Exits
<1>6. x \in Good
  BY <1>1, <1>2, <1>3, <1>4, <1>5 DEF Good
<1>7. q \in Shapes
  BY DEF Good
<1>8. q \in Calm => x \in Calm
  BY <1>1, <1>7 DEF Calm, Shapes
<1> QED
  BY <1>6, <1>7, <1>8 DEF Keeps, Shapes, HeldStages

\* The body's end is to be reported: there was one.
LEMMA ReportsKeeps ==
    ASSUME NEW q \in Good, q.stage = "over",
           q.delivered \/ q.failure # None \/ q.word # None,
           NEW x, x = [q EXCEPT !.stage = "reporting"]
    PROVE  Keeps(q, x)
<1>1. x \in Shapes
  <2>1. q \in Shapes
    BY DEF Good
  <2> QED BY <2>1 DEF Shapes, Stages
<1>2. Ahead(x) /\ Course(x)
  <2>1. Ahead(x)
    BY DEF Good, Shapes, Ahead
  <2>2. Course(x)
    BY DEF Good, Shapes, Course, Exits, Leaves, Before, HeldStages
  <2> QED BY <2>1, <2>2
<1>3. Booked(x) /\ Connected(x)
  BY DEF Good, Shapes, Booked, Connected, Course, Exits, Leaves, Before, HeldStages
<1>4. Endings(x)
  BY DEF Good, Shapes, Endings, Whole, Course, Before, HeldStages
<1>5. Said(x)
  BY DEF Good, Shapes, Said, Tells, Says, Exits
<1>6. x \in Good
  BY <1>1, <1>2, <1>3, <1>4, <1>5 DEF Good
<1>7. q \in Shapes
  BY DEF Good
<1>8. q \in Calm => x \in Calm
  BY <1>1, <1>7 DEF Calm, Shapes
<1> QED
  BY <1>6, <1>7, <1>8 DEF Keeps, Shapes, HeldStages

\* The reading is over, or cut short.
LEMMA DrainEndsKeeps ==
    ASSUME NEW q \in Good, NEW b \in BOOLEAN, q.stage = "draining", b \/ q.word # None,
           NEW x, x = [q EXCEPT !.stage = "reporting", !.short = b]
    PROVE  Keeps(q, x)
<1>1. x \in Shapes
  <2>1. q \in Shapes
    BY DEF Good
  <2> QED BY <2>1 DEF Shapes, Stages
<1>2. Ahead(x) /\ Course(x)
  <2>1. Ahead(x)
    BY DEF Good, Shapes, Ahead
  <2>2. Course(x)
    BY DEF Good, Shapes, Course, Exits, Leaves, Before, HeldStages
  <2> QED BY <2>1, <2>2
<1>3. Booked(x) /\ Connected(x)
  BY DEF Good, Shapes, Booked, Connected, Course, Exits, Leaves, Before, HeldStages
<1>4. Endings(x)
  BY DEF Good, Shapes, Endings, Whole, Course, Before, HeldStages
<1>5. Said(x)
  BY DEF Good, Shapes, Said, Tells, Says, Exits, Course, Before
<1>6. x \in Good
  BY <1>1, <1>2, <1>3, <1>4, <1>5 DEF Good
<1>7. q \in Shapes
  BY DEF Good
<1>8. q \in Calm => x \in Calm
  BY <1>1, <1>7, ZenonT(30) DEF Calm, Shapes
<1> QED
  BY <1>6, <1>7, <1>8 DEF Keeps, Shapes, HeldStages

\* The ending is reported.
LEMMA ReportKeeps ==
    ASSUME NEW q \in Good, NEW z, NEW w, q.stage = "reporting",
           z \in Reported, ~z.produced => z.usage = None, Tells(q, z),
           w = IF q.late THEN "settling" ELSE "closing",
           NEW x, x = [q EXCEPT !.acct = z, !.stage = w]
    PROVE  Keeps(q, x)
<1>1. x \in Shapes
  <2>1. q \in Shapes
    BY DEF Good
  <2>2. w \in Stages
    BY DEF Stages
  <2> QED
    BY <2>1, <2>2, ZenonT(30) DEF Shapes
<1>2. Ahead(x) /\ Course(x)
  <2>1. Ahead(x)
    BY DEF Good, Shapes, Ahead
  <2>2. Course(x)
    BY DEF Good, Shapes, Course, Exits, Leaves, Before, HeldStages
  <2> QED BY <2>1, <2>2
<1>3. Booked(x) /\ Connected(x)
  BY DEF Good, Shapes, Booked, Connected, Course, Exits, Leaves, Before, HeldStages
<1>4. Endings(x)
  BY DEF Good, Shapes, Endings, Whole, Course, Before, HeldStages
<1>5. Said(x)
  BY DEF Good, Shapes, Said, Tells, Says, Exits
<1>6. x \in Good
  BY <1>1, <1>2, <1>3, <1>4, <1>5 DEF Good
<1>7. q \in Shapes
  BY DEF Good
<1>8. q \in Calm => x \in Calm
  BY <1>1, <1>7, ZenonT(30) DEF Calm, Shapes
<1> QED
  BY <1>6, <1>7, <1>8 DEF Keeps, Shapes, HeldStages

\* The stream is closed.
LEMMA CloseKeeps ==
    ASSUME NEW q \in Good, NEW w, q.stage = "closing", w = IF q.late THEN "done" ELSE "settling",
           NEW x, x = [q EXCEPT !.pump = "closed", !.conn = q.conn \ {q.at},
                                   !.stage = w]
    PROVE  x \in Good /\ (q \in Calm => x \in Calm) /\ x.rows = q.rows
<1>1. x \in Shapes
  <2>1. q \in Shapes
    BY DEF Good
  <2>2. q.conn \ {q.at} \in SUBSET (1 .. Models)
    BY DEF Good, Shapes
  <2>3. w \in Stages
    BY DEF Stages
  <2> QED
    BY <2>1, <2>2, <2>3, ZenonT(30) DEF Shapes
<1>2. Ahead(x) /\ Course(x)
  <2>1. Ahead(x)
    BY DEF Good, Shapes, Ahead
  <2>2. Course(x)
    BY DEF Good, Shapes, Course, Exits, Leaves, Before, HeldStages
  <2> QED BY <2>1, <2>2
<1>3. Booked(x) /\ Connected(x)
  BY DEF Good, Shapes, Booked, Connected, Course, Exits, Leaves, Before, HeldStages
<1>4. Endings(x)
  BY DEF Good, Shapes, Endings, Whole, Course, Before, HeldStages
<1>5. Said(x)
  BY DEF Good, Shapes, Said, Tells, Says, Exits
<1>6. x \in Good
  BY <1>1, <1>2, <1>3, <1>4, <1>5 DEF Good
<1>7. q \in Shapes
  BY DEF Good
<1>8. q \in Calm => x \in Calm
  BY <1>1, <1>7, ZenonT(30) DEF Calm, Shapes
<1> QED
  BY <1>6, <1>7, <1>8 DEF Keeps, Shapes, HeldStages

\* Nothing was produced: the reservation is given back.
LEMMA ReleaseKeeps ==
    ASSUME NEW q \in Good, q.stage = "settling", ~q.acct.produced,
           NEW x, x = [q EXCEPT !.acct = q.acct, !.resolved = "released",
                                   !.resolves = q.resolves + 1, !.stage = "recording"]
    PROVE  Keeps(q, x)
<1>1. x \in Shapes
  <2>1. q \in Shapes
    BY DEF Good
  <2>2. q.resolves + 1 \in Nat
    BY DEF Good, Shapes
  <2>3. "recording" \in Stages
    BY DEF Stages
  <2>4. q.acct \in Reported \cup {None}
    BY DEF Good, Shapes
  <2> QED
    BY <2>1, <2>2, <2>3, <2>4 DEF Shapes
<1>2. Ahead(x) /\ Course(x)
  BY StreamingAssumption DEF Good, Shapes, Ahead, Course, Exits, Leaves, Before, HeldStages
<1>3. Booked(x) /\ Connected(x)
  BY DEF Good, Shapes, Booked, Connected, Course, Exits, Leaves, Before, HeldStages
<1>4. Endings(x)
  BY DEF Good, Shapes, Endings, Whole, Course, Before, HeldStages
<1>5. Said(x)
  BY DEF Good, Shapes, Said, Tells, Says, Exits
<1>6. q.row = None /\ q.rows = 0
  BY DEF Good, Course, Exits
<1>7. x \in Good
  BY <1>1, <1>2, <1>3, <1>4, <1>5 DEF Good
<1>8. q \in Calm => x \in Calm
  <2>1. x.row = q.row /\ x.resolved = "released"
    BY DEF Good, Shapes
  <2>2. "released" # None
    BY StreamingAssumption
  <2>3. QED
    BY <1>1, <1>6, <2>1, <2>2 DEF Calm
<1>9. QED
  BY <1>6, <1>7, <1>8 DEF Good, Keeps, HeldStages, Shapes

\* What was produced is settled.
LEMMA SettleKeeps ==
    ASSUME NEW q \in Good, NEW z, q.stage = "settling",
           z \in Reported, z.produced, Tells(q, z),
           NEW x, x = [q EXCEPT !.acct = z, !.resolved = "settled",
                                   !.resolves = q.resolves + 1, !.stage = "recording"]
    PROVE  Keeps(q, x)
<1>1. x \in Shapes
  <2>1. q \in Shapes
    BY DEF Good
  <2>2. q.resolves + 1 \in Nat
    BY DEF Good, Shapes
  <2>3. "recording" \in Stages
    BY DEF Stages
  <2> QED
    BY <2>1, <2>2, <2>3 DEF Shapes
<1>2. Ahead(x) /\ Course(x)
  BY StreamingAssumption DEF Good, Shapes, Ahead, Course, Exits, Leaves, Before, HeldStages
<1>3. Booked(x) /\ Connected(x)
  BY DEF Good, Shapes, Booked, Connected, Course, Exits, Leaves, Before, HeldStages
<1>4. Endings(x)
  BY DEF Good, Shapes, Endings, Whole, Course, Before, HeldStages
<1>5. Said(x)
  BY DEF Good, Shapes, Said, Tells, Says, Exits
<1>6. QED
  BY <1>1, <1>2, <1>3, <1>4, <1>5, StreamingAssumption DEF Keeps, Good, Calm, Shapes, HeldStages, Course, Exits

\* A count of the vendor's stands in for a usage nobody reported.
LEMMA CountedTells ==
    ASSUME NEW q \in Good, q.stage = "settling", ~q.acct.produced, NEW z,
           z = [q.acct EXCEPT !.usage = Counted, !.basis = "counted", !.produced = TRUE]
    PROVE  z \in Reported /\ z.produced /\ Tells(q, z)
<1>1. q.acct \in Reported /\ q.acct.usage = None /\ Tells(q, q.acct)
  BY DEF Good, Booked, Said, Exits
<1>2. z \in Reported
  BY <1>1 DEF Reported, Figures, Bases
<1>3. z.basis # None /\ z.produced /\ z.usage = Counted /\ z.status = q.acct.status
  BY <1>1, StreamingAssumption DEF Reported, Bases
<1>4. Counted # None
  BY StreamingAssumption
<1>5. Tells(q, z)
  BY <1>1, <1>3, <1>4 DEF Tells, Says
<1>6. QED
  BY <1>2, <1>3, <1>5

\* The booking fails.
LEMMA SettleFailsKeeps ==
    ASSUME NEW q \in Good, q.stage = "settling",
           NEW x, x = [q EXCEPT !.stage = "recording"]
    PROVE  x \in Good /\ x.rows = q.rows /\ x.stage = "recording"
<1>1. x \in Shapes
  <2>1. q \in Shapes
    BY DEF Good
  <2> QED BY <2>1 DEF Shapes, Stages
<1>2. Ahead(x) /\ Course(x)
  <2>1. Ahead(x)
    BY DEF Good, Shapes, Ahead
  <2>2. Course(x)
    BY DEF Good, Shapes, Course, Exits, Leaves, Before, HeldStages
  <2> QED BY <2>1, <2>2
<1>3. Booked(x) /\ Connected(x)
  BY StreamingAssumption DEF Good, Shapes, Booked, Connected, Course, Exits, Leaves, Before, HeldStages
<1>4. Endings(x)
  BY DEF Good, Shapes, Endings, Whole, Course, Before, HeldStages
<1>5. Said(x)
  BY DEF Good, Shapes, Said, Tells, Says, Exits
<1>6. x \in Good
  BY <1>1, <1>2, <1>3, <1>4, <1>5 DEF Good
<1>7. q \in Shapes
  BY DEF Good
<1> QED
  BY <1>6, <1>7 DEF Shapes

\* The shape of the record after that.
LEMMA RecordTyped ==
    ASSUME NEW q \in Shapes, NEW z \in Rows, NEW m \in Nat, NEW n \in Nat,
           NEW v \in {"settled", "released", None}, NEW w \in Stages,
           NEW x, x = [q EXCEPT !.row = z, !.rows = m, !.resolved = v, !.resolves = n, !.stage = w]
    PROVE  x \in Shapes
BY DEF Shapes

\* The record after the step of RecordKeeps.
Recorded(q, z, v, n, w) ==
    [q EXCEPT !.row = z, !.rows = q.rows + 1, !.resolved = v,
              !.resolves = n, !.stage = w]

\* The row is written.
LEMMA RecordKeeps ==
    ASSUME NEW q \in Good, NEW z, NEW v, NEW n, NEW w, q.stage = "recording",
           z \in Rows, RowOf(q, z),
           Exited(q, v, n, w),
           NEW x, x = Recorded(q, z, v, n, w)
    PROVE  x \in Good /\ (q \in Calm => x \in Calm) /\ x.rows = 1
<1> USE DEF Recorded
<1>1. x \in Shapes
  <2>1. q \in Shapes
    BY DEF Good
  <2>2. q.rows + 1 \in Nat /\ n \in Nat
    BY DEF Good, Shapes, Exited
  <2>3. w \in Stages
    BY DEF Stages, Exited
  <2>4. v \in {"settled", "released", None}
    BY DEF Good, Shapes, Exited
  <2> QED
    BY <2>1, <2>2, <2>3, <2>4, RecordTyped
<1>2. Ahead(x) /\ Course(x)
  BY StreamingAssumption DEF Good, Shapes, Ahead, Course, Exits, Leaves, Before, HeldStages, Exited
<1>3. Booked(x) /\ Connected(x)
  BY DEF Good, Shapes, Booked, Connected, Course, Exits, Leaves, Before, HeldStages, Exited
<1>4. Endings(x)
  BY DEF Good, Shapes, Endings, Whole, Course, Before, HeldStages, Exited
<1>5. Said(x)
  BY DEF Good, Shapes, Said, Tells, Says, Exits, RowOf, Exited
<1>6. q.rows = 0 /\ (v = "released" => q.resolved = None \/ z.usage = None) /\ q.stage = "recording" /\ w # "recording"
  BY DEF Good, Course, Exits, Booked, RowOf, Exited
<1>7. x \in Good
  BY <1>1, <1>2, <1>3, <1>4, <1>5 DEF Good
<1>8. q \in Calm => x \in Calm
  <2>1. x.row = z /\ x.resolved = v /\ x.stage = w
    BY DEF Good, Shapes
  <2>2. "released" # None
    BY StreamingAssumption
  <2>3. QED
    BY <1>1, <1>6, <2>1, <2>2 DEF Calm
<1>9. QED
  BY <1>6, <1>7, <1>8 DEF Good, Keeps, HeldStages, Shapes

\* A cancelled request without a response stops its chain.
LEMMA DropKeeps ==
    ASSUME NEW q \in Good, q.stage = "opening",
           NEW x, x = [q EXCEPT !.stage = "dropped", !.pump = "closed",
                                   !.conn = q.conn \ {q.at}]
    PROVE  Keeps(q, x)
<1>1. x \in Shapes
  <2>1. q \in Shapes
    BY DEF Good
  <2>2. q.conn \ {q.at} \in SUBSET (1 .. Models)
    BY DEF Good, Shapes
  <2>3. "dropped" \in Stages
    BY DEF Stages
  <2> QED
    BY <2>1, <2>2, <2>3 DEF Shapes
<1>2. Ahead(x) /\ Course(x)
  <2>1. Ahead(x)
    BY DEF Good, Shapes, Ahead
  <2>2. Course(x)
    BY DEF Good, Shapes, Course, Exits, Leaves, Before, HeldStages
  <2> QED BY <2>1, <2>2
<1>3. Booked(x) /\ Connected(x)
  BY DEF Good, Shapes, Booked, Connected, Course, Exits, Leaves, Before, HeldStages
<1>4. Endings(x)
  BY DEF Good, Shapes, Endings, Whole, Course, Before, HeldStages
<1>5. Said(x)
  BY DEF Good, Shapes, Said, Tells, Says, Exits
<1>6. x \in Good
  BY <1>1, <1>2, <1>3, <1>4, <1>5 DEF Good
<1>7. q \in Shapes
  BY DEF Good
<1>8. q \in Calm => x \in Calm
  BY <1>1, <1>7 DEF Calm, Shapes
<1> QED
  BY <1>6, <1>7, <1>8 DEF Keeps, Shapes, HeldStages

\* The process ends.
LEMMA KilledKeeps ==
    ASSUME NEW q \in Good, q.stage \notin {"done", "dropped", "killed"},
           NEW x, x = [q EXCEPT !.stage = "killed"]
    PROVE  Keeps(q, x)
<1>1. x \in Shapes
  <2>1. q \in Shapes
    BY DEF Good
  <2> QED BY <2>1 DEF Shapes, Stages
<1>2. Ahead(x) /\ Course(x)
  <2>1. Ahead(x)
    BY DEF Good, Shapes, Ahead
  <2>2. Course(x)
    BY DEF Good, Shapes, Course, Exits, Leaves, Before, HeldStages
  <2> QED BY <2>1, <2>2
<1>3. Booked(x) /\ Connected(x)
  BY DEF Good, Shapes, Booked, Connected, Course, Exits, Leaves, Before, HeldStages
<1>4. Endings(x)
  BY DEF Good, Shapes, Endings, Whole, Course, Before, HeldStages
<1>5. Said(x)
  BY DEF Good, Shapes, Said, Tells, Says, Exits
<1>6. x \in Good
  BY <1>1, <1>2, <1>3, <1>4, <1>5 DEF Good
<1>7. q \in Shapes
  BY DEF Good
<1>8. q \in Calm => x \in Calm
  BY <1>1, <1>7 DEF Calm, Shapes
<1> QED
  BY <1>6, <1>7, <1>8 DEF Keeps, Shapes, HeldStages

-----------------------------------------------------------------------------
(* What is reported of an ending *)

\* What has been reported among the chunks read is a figure of the answer; it is
\* the last one where the finish reason has been read, or everything has.
LEMMA UsageTells ==
    ASSUME NEW r \in Requests, req[r] \in Good
    PROVE  /\ Usage(r) \in Figures
           /\ FinishSeen(r) /\ Usage(r) # None => Usage(r) = Final(r)
           /\ req[r].read = Len(req[r].script) => Usage(r) = Final(r)
<1>1. req[r].script \in Scripts /\ req[r].read \in 0 .. Len(req[r].script)
  BY DEF Good, Shapes, Ahead
<1>2. Usage(r) \in Figures
  BY <1>1 DEF Figures, Usage, Observed
<1>3. req[r].script \in Seq([usage: Nat \cup {None}, finish: BOOLEAN])
  BY <1>1, StreamingAssumption
<1>4. ASSUME FinishSeen(r), Usage(r) # None
      PROVE  Usage(r) = Final(r)
  <2>1. PICK k \in 1 .. req[r].read : req[r].script[k].finish
    BY <1>4 DEF FinishSeen, Observed
  <2>2. k \in DOMAIN req[r].script /\ req[r].read \in DOMAIN req[r].script /\ k <= req[r].read
    BY <1>1, <1>3, <2>1
  <2>3. EndsWithItsReport(req[r].script)
    BY <1>1, StreamingAssumption
  <2>4. QED
    BY <1>4, <2>1, <2>2, <2>3 DEF EndsWithItsReport, Usage, Final, Observed
<1>5. QED
  BY <1>2, <1>4 DEF Usage, Final, Observed

\* However the body ended, what is reported of the answer is so.
LEMMA EndingTells ==
    ASSUME NEW r \in Requests, req[r] \in Good, req[r].stage = "reporting"
    PROVE  /\ Ending(r) \in Reported
           /\ ~Ending(r).produced => Ending(r).usage = None
           /\ Tells(req[r], Ending(r))
<1> DEFINE q == req[r]
           fin == LastReport(q.script, Len(q.script))
<1>1. /\ Usage(r) \in Figures /\ None \in Figures
      /\ FinishSeen(r) /\ Usage(r) # None => Usage(r) = fin
      /\ q.read = Len(q.script) => Usage(r) = fin
  BY UsageTells DEF Final, Figures
<1>2. /\ q.failure \in {"refused", "status", "cut", "withheld", None}
      /\ q.delivered \in BOOLEAN /\ q.boom \in BOOLEAN /\ q.late \in BOOLEAN
      /\ q.word = "end" => q.read = Len(q.script)
      /\ q.delivered => q.failure # None \/ Whole(q)
      /\ \/ q.short \/ q.word # None
         \/ ~q.late /\ (q.failure # None \/ q.delivered)
  BY DEF Good, Shapes, Endings
<1>3. None \notin Statuses \cup Bases
  BY StreamingAssumption
<1>4. Known(r) \in BOOLEAN
  BY DEF Known
<1>5. /\ Basis(r) \in Bases \cup {None}
      /\ Basis(r) = None => FinishSeen(r)
  BY <1>3 DEF Basis, Bases
<1>6. ASSUME NEW status \in Statuses
      PROVE  /\ Spent(r, status) \in Reported
             /\ Spent(r, status).produced /\ Spent(r, status).usage = Usage(r)
             /\ Spent(r, status).basis = Basis(r) /\ Spent(r, status).status = status
  BY <1>1, <1>5 DEF Spent, Reported
<1>7. ASSUME NEW status \in Statuses, NEW countable \in BOOLEAN
      PROVE  /\ Unreported(r, status, countable) \in Reported
             /\ Unreported(r, status, countable).usage = None
             /\ Unreported(r, status, countable).status = status
  BY <1>1, <1>4 DEF Unreported, Reported
<1>8. CASE q.failure # None /\ ~q.late
  <2>1. q.failure \in Statuses \ {"served", "left"} /\ (q.failure = "cut") \in BOOLEAN
    BY <1>2, <1>8 DEF Statuses
  <2>2. Ending(r) = FailureReport(r)
    BY <1>8 DEF Ending
  <2>3. CASE Usage(r) # None
    <3>1. Ending(r) = Spent(r, q.failure)
      BY <2>2, <2>3 DEF FailureReport
    <3> HIDE DEF fin
    <3>2. QED
      BY <1>1, <1>5, <1>6, <2>1, <2>3, <3>1 DEF Tells, Says, fin
  <2>4. CASE Usage(r) = None
    <3>1. Ending(r) = Unreported(r, q.failure, q.failure = "cut")
      BY <2>2, <2>4 DEF FailureReport
    <3>2. QED
      BY <1>7, <2>1, <3>1, ZenonT(30) DEF Tells, Says
  <2>5. QED
    BY <2>3, <2>4
<1>9. CASE ~(q.failure # None /\ ~q.late) /\ q.delivered /\ ~q.late
  <2>1. Ending(r) = ServedReport(r) /\ Whole(q)
    BY <1>2, <1>9 DEF Ending
  <2>2. "served" \in Statuses
    BY DEF Statuses
  <2>3. /\ ServedReport(r) \in Reported /\ ServedReport(r).produced
        /\ ServedReport(r).usage = Usage(r) /\ ServedReport(r).status = "served"
    BY <1>6, <2>2 DEF ServedReport, Reported
  <2>4. Usage(r) = fin
    BY <1>1, <1>2, <2>1 DEF Whole
  <2>5. QED
    BY <2>1, <2>3, <2>4 DEF Tells, Says, Whole
<1>10. CASE ~(q.failure # None /\ ~q.late) /\ ~(q.delivered /\ ~q.late)
  <2> DEFINE status == IF q.boom THEN "error" ELSE "left"
  <2>1. Ending(r) = LeftReport(r) /\ status \in Statuses \ {"served"}
    BY <1>10 DEF Ending, Statuses
  <2>2. q.short \/ q.word # None
    BY <1>2, <1>10
  <2>3. LeftReport(r) = IF Usage(r) # None THEN Spent(r, status) ELSE Unreported(r, status, TRUE)
    BY DEF LeftReport
  <2> HIDE DEF status
  <2>4. CASE Usage(r) # None
    <3>1. Ending(r) = Spent(r, status)
      BY <2>1, <2>3, <2>4
    <3>2. QED
      BY <1>1, <1>2, <1>5, <1>6, <2>1, <2>2, <2>4, <3>1 DEF Tells, Says
  <2>5. CASE Usage(r) = None
    <3>1. Ending(r) = Unreported(r, status, TRUE)
      BY <2>1, <2>3, <2>5
    <3>2. QED
      BY <1>1, <1>2, <1>7, <2>1, <2>2, <2>5, <3>1 DEF Tells, Says
  <2>6. QED
    BY <2>4, <2>5
<1>11. QED
  BY <1>8, <1>9, <1>10

-----------------------------------------------------------------------------
(* Every step keeps the strengthening *)

\* The chain looks for a candidate.
LEMMA TheChain ==
    ASSUME Sound, NEW r \in Requests, Chain(r)
    PROVE  Sound'
<1> DEFINE q == req[r]
<1>q. q \in Good
  BY DEF Sound
<1>m. Looking(r) => q.at \in 1 .. Models
  BY <1>q, StreamingAssumption DEF Looking, Decided, Good, Shapes
<1>1. CASE Skip(r)
  <2> DEFINE x == [q EXCEPT !.at = q.at + 1]
  <2>1. req' = [req EXCEPT ![r] = x]
    BY <1>1 DEF Skip
  <2>2. Keeps(q, x)
    BY <1>1, <1>q, <1>m, SkipKeeps DEF Skip, Looking
  <2> HIDE DEF x
  <2>3. QED
    BY <1>1, <2>1, <2>2, OneKeeps DEF Skip
<1>2. CASE Ask(r)
  <2> DEFINE x == [q EXCEPT !.asked = TRUE, !.conn = q.conn \cup {q.at}]
  <2>1. req' = [req EXCEPT ![r] = x]
    BY <1>2 DEF Ask
  <2>2. Keeps(q, x)
    BY <1>2, <1>q, <1>m, AskKeeps DEF Ask, Looking
  <2> HIDE DEF x
  <2>3. QED
    BY <1>2, <2>1, <2>2, OneKeeps DEF Ask
<1>3. CASE PassOver(r)
  <2>0. PICK kind \in {"status", "cut"} :
             req' = [req EXCEPT ![r] = [@ EXCEPT !.at = req[r].at + 1, !.asked = FALSE, !.last = kind,
                                                 !.conn = Released(r)]]
    BY <1>3 DEF PassOver
  <2> DEFINE x == [q EXCEPT !.at = q.at + 1, !.asked = FALSE, !.last = kind, !.conn = q.conn \ {q.at}]
  <2>1. req' = [req EXCEPT ![r] = x]
    BY <1>3, <2>0 DEF PassOver, Released
  <2>2. Keeps(q, x)
    BY <1>3, <2>0, <1>q, <1>m, PassOverKeeps DEF PassOver, Looking
  <2> HIDE DEF x
  <2>3. QED
    BY <1>3, <2>1, <2>2, OneKeeps DEF PassOver
<1>4. CASE Answer(r)
  <2> DEFINE x == [q EXCEPT !.answered = q.at,
                            !.conn = IF q.script = <<>> THEN q.conn \ {q.at} ELSE q.conn]
  <2>1. req' = [req EXCEPT ![r] = x]
    BY <1>4 DEF Answer, Released
  <2>2. Keeps(q, x)
    BY <1>4, <1>q, <1>m, AnswerKeeps DEF Answer, Looking
  <2> HIDE DEF x
  <2>3. QED
    BY <1>4, <2>1, <2>2, OneKeeps DEF Answer
<1>5. QED
  BY <1>1, <1>2, <1>3, <1>4 DEF Chain

\* The pump reads.
LEMMA TheUpstream ==
    ASSUME Sound, NEW r \in Requests, Upstream(r)
    PROVE  Sound'
<1> DEFINE q == req[r]
<1>q. q \in Good
  BY DEF Sound
<1>a. Reading(r) => q.word = None /\ q.read - q.given < 2
  BY DEF Reading
<1>1. CASE Read(r)
  <2> DEFINE x == [q EXCEPT !.read = q.read + 1]
  <2>1. req' = [req EXCEPT ![r] = x]
    BY <1>1 DEF Read
  <2>2. q.read + 1 \in Nat /\ Ahead(x)
    <3>1. /\ x.read = q.read + 1 /\ x.given = q.given /\ x.script = q.script
          /\ x.word = q.word /\ q.read \in Nat /\ q.given \in Nat /\ Ahead(q)
      BY <1>q DEF Good, Shapes
    <3>2. q.read - q.given < 2 /\ q.word = None /\ q.read < Len(q.script)
      BY <1>1, <1>a DEF Read
    <3>3. Len(q.script) \in Nat
      BY <1>q, StreamingAssumption DEF Good, Shapes
    <3> HIDE DEF x
    <3>4. q.read \in Int /\ q.given \in Int /\ q.read - q.given \in 0 .. 2
      BY <3>1, <3>2 DEF Ahead
    <3>5. x.read <= Len(x.script)
      BY <3>1, <3>2, <3>3
    <3>6. x.read + 0 - x.given \in 0 .. 2
      BY <3>1, <3>2, <3>4
    <3>7. QED
      BY <3>1, <3>2, <3>5, <3>6 DEF Ahead
  <2>3. Keeps(q, x)
    BY <1>1, <1>a, <1>q, <2>2, ReadKeeps DEF Read
  <2> HIDE DEF x
  <2>4. QED
    BY <1>1, <2>1, <2>3, OneKeeps DEF Read
<1>2. CASE LastWord(r)
  <2>1. PICK word \in {"end", "status", "cut", "bug"} :
          /\ req[r].answered = None => word = "end"
          /\ word = "end" => (req[r].answered # None => req[r].read = Len(req[r].script))
          /\ req' = [req EXCEPT
                ![r] = [@ EXCEPT !.word = IF req[r].answered = None THEN Exhausted(r) ELSE word,
                                 !.conn = Released(r)]]
    BY <1>2 DEF LastWord
  <2> DEFINE z == IF q.answered = None THEN Exhausted(r) ELSE word
             x == [q EXCEPT !.word = z, !.conn = q.conn \ {q.at}]
  <2>2. req' = [req EXCEPT ![r] = x]
    BY <2>1 DEF Released
  <2>3. q.last \in {"status", "cut", None}
    BY <1>q DEF Good, Shapes
  <2>4. z \in Words /\ AtItsEnd(q, z)
    BY <2>1, <2>3 DEF Exhausted, Words, AtItsEnd
  <2>5. q.word \notin Words
    BY <1>2, <1>a, StreamingAssumption DEF LastWord, Words, Statuses
  <2>6. Ahead(x)
    <3> HIDE DEF z
    <3>1. z # None
      BY <2>4, StreamingAssumption DEF Words, Statuses
    <3>2. QED
      BY <1>2, <1>a, <1>q, <3>1 DEF LastWord, Good, Shapes, Ahead
  <2>7. Keeps(q, x)
    <3> HIDE DEF z
    <3>1. QED
      BY <1>q, <2>4, <2>5, <2>6, LastWordKeeps
  <2> HIDE DEF x
  <2>8. QED
    BY <1>2, <2>2, <2>7, OneKeeps DEF LastWord
<1>3. QED
  BY <1>1, <1>2 DEF Upstream

\* The body sends.
LEMMA TheBody ==
    ASSUME Sound, NEW r \in Requests, Body(r)
    PROVE  Sound'
<1> DEFINE q == req[r]
<1>q. q \in Good
  BY DEF Sound
<1>1. CASE Respond(r)
  <2> DEFINE x == [q EXCEPT !.stage = "starting", !.within = Decided(r)]
  <2>1. req' = [req EXCEPT ![r] = x]
    BY <1>1 DEF Respond
  <2>2. Keeps(q, x)
    BY <1>1, <1>q, RespondKeeps DEF Respond, Decided
  <2> HIDE DEF x
  <2>3. QED
    BY <1>1, <2>1, <2>2, OneKeeps DEF Respond
<1>2. CASE Refuse(r)
  <2> DEFINE z == Exhausted(r)
             x == [q EXCEPT !.stage = "done", !.resolved = "released", !.resolves = q.resolves + 1,
                            !.rows = q.rows + 1,
                            !.row = [status |-> z, usage |-> None, basis |-> None, text |-> 0]]
  <2>1. req' = [req EXCEPT ![r] = x]
    BY <1>2 DEF Refuse
  <2>2. z \in {"refused", "status", "cut"} /\ q.at > Models
    BY <1>2, <1>q DEF Refuse, Decided, Exhausted, Good, Shapes
  <2>3. Keeps(q, x)
    <3> HIDE DEF z
    <3>1. QED
      BY <1>2, <1>q, <2>2, RefuseKeeps DEF Refuse
  <2> HIDE DEF x
  <2>4. QED
    BY <1>2, <2>1, <2>3, OneKeeps DEF Refuse
<1>3. CASE Begin(r)
  <2> DEFINE x == [q EXCEPT !.stage = "waiting"]
  <2>1. req' = [req EXCEPT ![r] = x]
    BY <1>3 DEF Begin
  <2>2. Keeps(q, x)
    BY <1>3, <1>q, StageKeeps DEF Begin
  <2> HIDE DEF x
  <2>3. QED
    BY <1>3, <2>1, <2>2, OneKeeps DEF Begin
<1>4. CASE Wake(r)
  <2> DEFINE x == [q EXCEPT !.pump = "on"]
  <2>1. req' = [req EXCEPT ![r] = x]
    BY <1>4 DEF Wake
  <2>2. Keeps(q, x)
    BY <1>4, <1>q, WakeKeeps DEF Wake
  <2> HIDE DEF x
  <2>3. QED
    BY <1>4, <2>1, <2>2, OneKeeps DEF Wake
<1>5. CASE Fetch(r)
  <2> DEFINE x == [q EXCEPT !.given = q.given + 1]
  <2>1. req' = [req EXCEPT ![r] = x]
    BY <1>5 DEF Fetch
  <2>2. Keeps(q, x)
    BY <1>5, <1>q, GiveKeeps DEF Fetch, Items
  <2> HIDE DEF x
  <2>3. QED
    BY <1>5, <2>1, <2>2, OneKeeps DEF Fetch
<1>6. CASE Take(r)
  <2>0. PICK s \in {"waiting", "sending"} :
             req' = [req EXCEPT ![r] = [@ EXCEPT !.taken = req[r].taken + 1, !.stage = s]]
    BY <1>6 DEF Take
  <2> DEFINE x == [q EXCEPT !.taken = q.taken + 1, !.stage = s]
  <2>1. req' = [req EXCEPT ![r] = x]
    BY <1>6, <2>0 DEF Take
  <2>2. Keeps(q, x)
    BY <1>6, <2>0, <1>q, TakeKeeps DEF Take, Waits
  <2> HIDE DEF x
  <2>3. QED
    BY <1>6, <2>1, <2>2, OneKeeps DEF Take
<1>7. CASE TakeEnd(r)
  <2>1. ASSUME req' = [req EXCEPT ![r] = [@ EXCEPT !.failure = "withheld", !.stage = "over"]]
        PROVE  Sound'
    <3> DEFINE x == [q EXCEPT !.failure = "withheld", !.stage = "over"]
    <3>1. req' = [req EXCEPT ![r] = x]
      BY <2>1
    <3>2. Keeps(q, x)
      BY <1>7, <1>q, WithholdKeeps DEF TakeEnd, Waits
    <3> HIDE DEF x
    <3>3. QED
      BY <1>7, <3>1, <3>2, OneKeeps DEF TakeEnd
  <2>2. ASSUME NEW d \in BOOLEAN,
               req' = [req EXCEPT ![r] = [@ EXCEPT !.delivered = d, !.stage = "last"]]
        PROVE  Sound'
    <3> DEFINE x == [q EXCEPT !.delivered = d, !.stage = "last"]
    <3>1. req' = [req EXCEPT ![r] = x]
      BY <2>2
    <3>2. Keeps(q, x)
      BY <1>7, <1>q, TakeEndKeeps DEF TakeEnd, Waits
    <3> HIDE DEF x
    <3>3. QED
      BY <1>7, <3>1, <3>2, OneKeeps DEF TakeEnd
  <2>3. QED
    BY <1>7, <2>1, <2>2 DEF TakeEnd
<1>8. CASE TakeFailure(r)
  <2> DEFINE z == IF q.surface = "kira" THEN "over" ELSE "last"
             x == [q EXCEPT !.failure = q.word, !.stage = z]
  <2>1. req' = [req EXCEPT ![r] = x]
    BY <1>8 DEF TakeFailure
  <2>2. z \in {"over", "last"}
    OBVIOUS
  <2>3. Keeps(q, x)
    <3> HIDE DEF z
    <3>1. QED
      BY <1>8, <1>q, <2>2, FailKeeps DEF TakeFailure, Waits
  <2> HIDE DEF x
  <2>4. QED
    BY <1>8, <2>1, <2>3, OneKeeps DEF TakeFailure
<1>9. CASE TakeBug(r)
  <2> DEFINE x == [q EXCEPT !.boom = TRUE, !.stage = "over"]
  <2>1. req' = [req EXCEPT ![r] = x]
    BY <1>9 DEF TakeBug
  <2>2. Keeps(q, x)
    BY <1>9, <1>q, BugKeeps DEF TakeBug, Waits
  <2> HIDE DEF x
  <2>3. QED
    BY <1>9, <2>1, <2>2, OneKeeps DEF TakeBug
<1>10. CASE Sent(r)
  <2> DEFINE x == [q EXCEPT !.stage = "waiting"]
  <2>1. req' = [req EXCEPT ![r] = x]
    BY <1>10 DEF Sent
  <2>2. Keeps(q, x)
    BY <1>10, <1>q, StageKeeps DEF Sent
  <2> HIDE DEF x
  <2>3. QED
    BY <1>10, <2>1, <2>2, OneKeeps DEF Sent
<1>11. CASE SentLast(r)
  <2> DEFINE x == [q EXCEPT !.delivered = TRUE, !.stage = "over"]
  <2>1. req' = [req EXCEPT ![r] = x]
    BY <1>11 DEF SentLast
  <2>2. Keeps(q, x)
    BY <1>11, <1>q, SentLastKeeps DEF SentLast
  <2> HIDE DEF x
  <2>3. QED
    BY <1>11, <2>1, <2>2, OneKeeps DEF SentLast
<1>12. QED
  BY <1>1, <1>2, <1>3, <1>4, <1>5, <1>6, <1>7, <1>8, <1>9, <1>10, <1>11 DEF Body

\* The caller leaves, or a cancelled request is dropped.
LEMMA TheLeaving ==
    ASSUME Sound, NEW r \in Requests, Leave(r) \/ Drop(r)
    PROVE  Sound'
<1> DEFINE q == req[r]
<1>q. q \in Good
  BY DEF Sound
<1>1. CASE Leave(r)
  <2> DEFINE z == IF q.stage = "starting" THEN "unstarted" ELSE "over"
             x == [q EXCEPT !.stage = z]
  <2>1. req' = [req EXCEPT ![r] = x]
    BY <1>1 DEF Leave
  <2>2. Keeps(q, x)
    <3>1. \/ q.stage = "starting" /\ z = "unstarted"
          \/ q.stage \in {"waiting", "sending", "last"} /\ z = "over"
      BY <1>1 DEF Leave
    <3> HIDE DEF z
    <3>2. QED
      BY <1>q, <3>1, LeaveKeeps
  <2> HIDE DEF x
  <2>3. QED
    BY <1>1, <2>1, <2>2, OneKeeps DEF Leave
<1>2. CASE Drop(r)
  <2> DEFINE x == [q EXCEPT !.stage = "dropped", !.pump = "closed", !.conn = q.conn \ {q.at}]
  <2>1. req' = [req EXCEPT ![r] = x]
    BY <1>2 DEF Drop, Released
  <2>2. Keeps(q, x)
    BY <1>2, <1>q, DropKeeps DEF Drop
  <2> HIDE DEF x
  <2>3. QED
    BY <1>2, <2>1, <2>2, OneKeeps DEF Drop
<1>3. QED
  BY <1>1, <1>2

\* Drains counts a request whose caller is gone.
LEMMA TheDrains ==
    ASSUME Sound, NEW r \in Requests, Drains(r), req[r].stage \in {"over", "unstarted"},
           UNCHANGED <<drainOn, server, faults>>
    PROVE  Sound'
<1> DEFINE q == req[r]
           b == q.stage # "over"
           p == IF drainOn /\ q.pump = "idle" THEN "on" ELSE q.pump
           x == Drained(q, b, p)
<1>q. q \in Good /\ (faults = 0 => q \in Calm) /\ q.stage \notin HeldStages
  BY DEF Sound, HeldStages
<1>1. req' = [req EXCEPT ![r] = x] /\ held' = held \cup {r}
  BY DEF Drains, Drained
<1>2. p = q.pump \/ (p = "on" /\ q.pump = "idle")
  OBVIOUS
<1>3. Keeps(q, x)
  <2>1. q.stage \in {"over", "unstarted"} /\ b \in BOOLEAN
    OBVIOUS
  <2> HIDE DEF b, p, q
  <2>2. QED
    BY <1>q, <1>2, <2>1, DrainsKeeps
<1>4. x.stage = "draining" /\ "draining" \in HeldStages
  BY <1>q DEF Good, Shapes, HeldStages, Drained
<1> HIDE DEF x
<1>5. held \in SUBSET Requests /\ r \notin held /\ faults \in faults .. MaxFaults
  BY <1>q, StreamingAssumption DEF Sound
<1>6. x \in Good /\ (faults = 0 => x \in Calm) /\ (q.rows = 1 => x.rows = 1)
  BY <1>q, <1>3 DEF Keeps
<1>7. held' \in SUBSET Requests /\ held' \ {r} = held \ {r} /\ faults' = faults
  BY <1>1, <1>5
<1>8. QED
  BY <1>1, <1>4, <1>5, <1>6, <1>7, OneMoves

\* What is left is read on, and the ending reported.
LEMMA TheDraining ==
    ASSUME Sound, NEW r \in Requests, \/ Over(r) \/ DrainTake(r) \/ DrainEnds(r) \/ Report(r)
    PROVE  Sound'
<1> DEFINE q == req[r]
<1>q. q \in Good
  BY DEF Sound
<1>1. CASE Over(r)
  <2>1. CASE CallerLeft(r)
    BY <1>1, <2>1, TheDrains DEF Over
  <2>2. CASE ~CallerLeft(r)
    <3> DEFINE x == [q EXCEPT !.stage = "reporting"]
    <3>1. req' = [req EXCEPT ![r] = x] /\ UNCHANGED <<drainOn, held, server, faults>>
      BY <1>1, <2>2 DEF Over
    <3>2. q.stage = "over" /\ (q.delivered \/ q.failure # None \/ q.word # None)
      BY <1>1, <2>2 DEF Over, CallerLeft, Finished
    <3>3. Keeps(q, x)
      BY <1>q, <3>2, ReportsKeeps
    <3> HIDE DEF x
    <3>4. QED
      BY <3>1, <3>3, OneKeeps
  <2>3. QED
    BY <2>1, <2>2
<1>2. CASE DrainTake(r)
  <2> DEFINE x == [q EXCEPT !.given = q.given + 1]
  <2>1. req' = [req EXCEPT ![r] = x]
    BY <1>2 DEF DrainTake
  <2>2. Keeps(q, x)
    BY <1>2, <1>q, GiveKeeps DEF DrainTake, Items
  <2> HIDE DEF x
  <2>3. QED
    BY <1>2, <2>1, <2>2, OneKeeps DEF DrainTake
<1>3. CASE DrainEnds(r)
  <2> DEFINE x == [q EXCEPT !.stage = "reporting", !.short = ~Finished(r)]
  <2>1. req' = [req EXCEPT ![r] = x]
    BY <1>3 DEF DrainEnds
  <2>2. Keeps(q, x)
    BY <1>3, <1>q, DrainEndsKeeps DEF DrainEnds, Finished
  <2> HIDE DEF x
  <2>3. QED
    BY <1>3, <2>1, <2>2, OneKeeps DEF DrainEnds
<1>4. CASE Report(r)
  <2> DEFINE z == Ending(r)
             w == IF q.late THEN "settling" ELSE "closing"
             x == [q EXCEPT !.acct = z, !.stage = w]
  <2>1. req' = [req EXCEPT ![r] = x] /\ UNCHANGED <<drainOn, held, server, faults>>
    BY <1>4 DEF Report, StillHeld
  <2>2. z \in Reported /\ (~z.produced => z.usage = None) /\ Tells(q, z)
    BY <1>4, <1>q, EndingTells DEF Report
  <2>3. Keeps(q, x)
    <3> HIDE DEF z
    <3>1. QED
      BY <1>4, <1>q, <2>2, ReportKeeps DEF Report
  <2> HIDE DEF x
  <2>4. QED
    BY <2>1, <2>3, OneKeeps
<1>5. QED
  BY <1>1, <1>2, <1>3, <1>4

\* The exit settles or releases, writes the row, and closes.
LEMMA TheExit ==
    ASSUME Sound, NEW r \in Requests, \/ Close(r) \/ Release(r) \/ Settle(r) \/ SettleCounted(r) \/ SettleFails(r)
                                   \/ Record(r) \/ WindUp(r)
    PROVE  Sound'
<1> DEFINE q == req[r]
<1>q. q \in Good
  BY DEF Sound
<1>h. held \in SUBSET Requests /\ (faults = 0 => q \in Calm) /\ faults \in faults .. MaxFaults
      /\ faults \in Nat /\ MaxFaults \in Nat
  BY StreamingAssumption DEF Sound
<1>1. CASE Close(r)
  <2> DEFINE w == IF q.late THEN "done" ELSE "settling"
             x == [q EXCEPT !.pump = "closed", !.conn = q.conn \ {q.at}, !.stage = w]
  <2>1. req' = [req EXCEPT ![r] = x]
    BY <1>1 DEF Close, Released
  <2>2. x \in Good /\ (q \in Calm => x \in Calm) /\ x.rows = q.rows
    <3>1. q.stage = "closing" /\ w = IF q.late THEN "done" ELSE "settling"
      BY <1>1 DEF Close
    <3> HIDE DEF w, q
    <3>2. QED
      BY <1>q, <3>1, CloseKeeps
  <2>3. /\ held' \in SUBSET Requests /\ held' \ {r} = held \ {r}
        /\ r \in held' => ~q.late
        /\ r \in held /\ r \notin held' => q.late
        /\ UNCHANGED <<drainOn, server, faults>>
    BY <1>1, <1>h DEF Close
  <2>4. q.late => q.rows = 1
    BY <1>1, <1>q DEF Close, Good, Course, Leaves
  <2>5. x.stage = w /\ (~q.late => w \in HeldStages)
    BY <1>q DEF Good, Shapes, HeldStages
  <2> HIDE DEF x
  <2>6. QED
    BY <1>h, <2>1, <2>2, <2>3, <2>4, <2>5, OneMoves
<1>2. CASE Release(r)
  <2> DEFINE x == [q EXCEPT !.acct = q.acct, !.resolved = "released",
                            !.resolves = q.resolves + 1, !.stage = "recording"]
  <2>1. req' = [req EXCEPT ![r] = x]
    BY <1>2 DEF Release, Resolve
  <2>2. Keeps(q, x)
    BY <1>2, <1>q, ReleaseKeeps DEF Release
  <2> HIDE DEF x
  <2>3. QED
    BY <1>2, <2>1, <2>2, OneKeeps DEF Release
<1>3. ASSUME NEW z, z \in Reported, z.produced, Tells(q, z), q.stage = "settling",
             req' = Resolve(r, "settled", z), UNCHANGED <<drainOn, held, server, faults>>
      PROVE  Sound'
  <2> DEFINE x == [q EXCEPT !.acct = z, !.resolved = "settled",
                            !.resolves = q.resolves + 1, !.stage = "recording"]
  <2>1. req' = [req EXCEPT ![r] = x]
    BY <1>3 DEF Resolve
  <2>2. Keeps(q, x)
    BY <1>3, <1>q, SettleKeeps
  <2> HIDE DEF x
  <2>3. QED
    BY <1>3, <2>1, <2>2, OneKeeps
<1>4. CASE Settle(r)
  <2>1. q.acct \in Reported /\ Tells(q, q.acct)
    BY <1>4, <1>q DEF Settle, Good, Booked, Said, Exits
  <2>2. QED
    BY <1>3, <1>4, <2>1 DEF Settle
<1>5. CASE SettleCounted(r)
  <2> DEFINE z == [q.acct EXCEPT !.usage = Counted, !.basis = "counted", !.produced = TRUE]
  <2>1. z \in Reported /\ z.produced /\ Tells(q, z)
    BY <1>5, <1>q, CountedTells DEF SettleCounted
  <2>2. req' = Resolve(r, "settled", z)
    BY <1>5 DEF SettleCounted
  <2> HIDE DEF z
  <2>3. QED
    BY <1>3, <1>5, <2>1, <2>2 DEF SettleCounted
<1>6. CASE SettleFails(r)
  <2> DEFINE x == [q EXCEPT !.stage = "recording"]
  <2>1. req' = [req EXCEPT ![r] = x]
    BY <1>6 DEF SettleFails
  <2>2. x \in Good /\ x.rows = q.rows /\ x.stage \in HeldStages
    BY <1>6, <1>q, SettleFailsKeeps DEF SettleFails, HeldStages
  <2>3. faults' \in faults .. MaxFaults /\ faults' # 0
    BY <1>6, <1>h DEF SettleFails
  <2> HIDE DEF x
  <2>4. QED
    BY <1>6, <1>h, <2>1, <2>2, <2>3, OneMoves DEF SettleFails
<1>7. CASE Record(r)
  <2> DEFINE z == [status |-> q.acct.status, usage |-> q.acct.usage,
                   basis |-> q.acct.basis, text |-> q.taken]
             v == IF q.resolved = None THEN "released" ELSE q.resolved
             n == IF q.resolved = None THEN q.resolves + 1 ELSE q.resolves
             w == IF q.late THEN "closing" ELSE "ended"
             x == Recorded(q, z, v, n, w)
  <2>1. req' = [req EXCEPT ![r] = x]
    BY <1>7 DEF Record, Unresolved, Recorded
  <2>2. q.acct \in Reported /\ q.taken \in Nat
    BY <1>7, <1>q DEF Record, Good, Shapes, Booked, Exits
  <2>3. z \in Rows /\ RowOf(q, z) /\ Exited(q, v, n, w)
    BY <2>2 DEF Rows, Reported, RowOf, Exited
  <2>4. w = IF q.late THEN "closing" ELSE "ended"
    OBVIOUS
  <2>5. x \in Good /\ (q \in Calm => x \in Calm) /\ x.rows = 1
    <3>1. q.stage = "recording"
      BY <1>7 DEF Record
    <3> HIDE DEF z, v, n, w, q
    <3>2. QED
      BY <1>q, <2>3, <3>1, RecordKeeps
  <2>6. /\ held' \in SUBSET Requests /\ held' \ {r} = held \ {r}
        /\ r \in held' => q.late
        /\ UNCHANGED <<drainOn, server, faults>>
    BY <1>7, <1>h DEF Record
  <2>7. x.stage = w /\ (q.late => w \in HeldStages)
    BY <1>q DEF Good, Shapes, HeldStages, Recorded
  <2> HIDE DEF x, w
  <2>8. QED
    BY <1>h, <2>1, <2>5, <2>6, <2>7, OneMoves
<1>8. CASE WindUp(r)
  <2>1. CASE NeverStarted(r)
    BY <1>8, <2>1, TheDrains DEF WindUp, NeverStarted
  <2>2. CASE ~NeverStarted(r)
    <3> DEFINE x == [q EXCEPT !.stage = "done"]
    <3>1. req' = [req EXCEPT ![r] = x] /\ UNCHANGED <<drainOn, held, server, faults>>
      BY <1>8, <2>2 DEF WindUp
    <3>2. q.stage = "ended"
      BY <1>8, <2>2 DEF WindUp, NeverStarted
    <3>3. Keeps(q, x)
      BY <1>q, <3>2, StageKeeps
    <3> HIDE DEF x
    <3>4. QED
      BY <3>1, <3>3, OneKeeps
  <2>3. QED
    BY <2>1, <2>2
<1>9. QED
  BY <1>1, <1>2, <1>4, <1>5, <1>6, <1>7, <1>8

-----------------------------------------------------------------------------
(* The server, and the theorems *)

\* The server's steps: the requests keep what they have until the process ends.
LEMMA TheServer ==
    ASSUME Sound, Server
    PROVE  Sound'
<1>s. server \in [phase: Phases, cancelled: SUBSET Requests, expired: BOOLEAN,
                  waited: SUBSET Requests]
  BY DEF Sound
<1>1. ASSUME NEW t \in [phase: Phases, cancelled: SUBSET Requests, expired: BOOLEAN,
                        waited: SUBSET Requests],
             server' = t, UNCHANGED <<req, drainOn, held, faults>>,
             t.phase \in {"waiting", "closed"} =>
                 \A r \in t.waited : r \in held \/ req[r].rows = 1,
             t.phase = "closed" /\ ~t.expired => \A r \in t.waited : req[r].rows = 1
      PROVE  Sound'
  <2>1. Waited'
    BY <1>1 DEF Waited, CountedIsWaitedFor
  <2>2. QED
    BY <1>1, <2>1 DEF Sound
<1>2. CASE Stop
  BY <1>1, <1>2, <1>s DEF Stop, Phases
<1>3. CASE GraceEnds
  <2>1. Unfinished \in SUBSET Requests
    BY DEF Unfinished
  <2> DEFINE t == [server EXCEPT !.phase = "lifespan", !.cancelled = Unfinished]
  <2>2. t \in [phase: Phases, cancelled: SUBSET Requests, expired: BOOLEAN,
               waited: SUBSET Requests] /\ t.phase = "lifespan"
    BY <1>s, <2>1 DEF Phases
  <2> HIDE DEF t
  <2>3. QED
    BY <1>1, <1>3, <2>2 DEF GraceEnds, t
<1>4. CASE StopDrains
  <2> DEFINE t == [server EXCEPT !.phase = "waiting", !.waited = held]
  <2>1. t \in [phase: Phases, cancelled: SUBSET Requests, expired: BOOLEAN,
               waited: SUBSET Requests] /\ t.phase = "waiting" /\ t.waited = held
    BY <1>s DEF Phases, Sound
  <2>2. server' = t /\ UNCHANGED <<req, drainOn, held, faults>>
    BY <1>4 DEF StopDrains
  <2> HIDE DEF t
  <2>3. QED
    BY <1>1, <2>1, <2>2
<1>5. CASE CloseWriter
  <2>1. \A r \in server.waited : r \in held \/ req[r].rows = 1
    BY <1>5 DEF CloseWriter, Sound, Waited
  <2> DEFINE t == [server EXCEPT !.phase = "closed", !.expired = (held # {})]
  <2>2. t \in [phase: Phases, cancelled: SUBSET Requests, expired: BOOLEAN,
               waited: SUBSET Requests] /\ t.waited = server.waited /\ (~t.expired => held = {})
    BY <1>s DEF Phases
  <2>3. server' = t /\ UNCHANGED <<req, drainOn, held, faults>>
    BY <1>5 DEF CloseWriter
  <2> HIDE DEF t
  <2>4. QED
    BY <1>1, <2>1, <2>2, <2>3
<1>6. CASE Exit
  <2> DEFINE t == [server EXCEPT !.phase = "gone"]
  <2>1. server' = t /\ UNCHANGED <<drainOn, held, faults>>
    BY <1>6 DEF Exit
  <2>2. t \in [phase: Phases, cancelled: SUBSET Requests, expired: BOOLEAN,
               waited: SUBSET Requests] /\ t.phase = "gone"
    BY <1>s DEF Phases
  <2> HIDE DEF t
  <2>3. ASSUME NEW r \in Requests
        PROVE  /\ req'[r] \in Good /\ (faults = 0 => req'[r] \in Calm)
               /\ r \in held => req'[r].stage \in HeldStages
    <3>1. req[r] \in Good /\ (faults = 0 => req[r] \in Calm) /\ (r \in held => req[r].stage \in HeldStages)
      BY DEF Sound
    <3>2. CASE r \in Unfinished
      <4> DEFINE x == [req[r] EXCEPT !.stage = "killed"]
      <4>1. req'[r] = x
        BY <1>6, <3>2 DEF Exit
      <4>2. Keeps(req[r], x)
        BY <3>1, <3>2, KilledKeeps DEF Unfinished
      <4> HIDE DEF x
      <4>3. QED
        BY <3>1, <4>1, <4>2 DEF Keeps
    <3>3. CASE r \notin Unfinished
      BY <1>6, <3>1, <3>3 DEF Exit
    <3>4. QED
      BY <3>2, <3>3
  <2>4. req' = [r \in Requests |-> req'[r]]
    BY <1>6 DEF Exit
  <2>5. req' \in [Requests -> Good] /\ (faults = 0 => req' \in [Requests -> Calm])
    BY <2>3, <2>4
  <2>6. \A r \in held : req'[r].stage \in HeldStages
    BY <2>3 DEF Sound
  <2>7. Waited'
    BY <2>1, <2>2 DEF Waited, CountedIsWaitedFor
  <2>8. QED
    BY <2>1, <2>2, <2>5, <2>6, <2>7 DEF Sound
<1>7. QED
  BY <1>2, <1>3, <1>4, <1>5, <1>6 DEF Server

\* A fresh request.
LEMMA FreshIsGood ==
    ASSUME NEW surface \in Surfaces, NEW s \in Scripts
    PROVE  Fresh(surface, s) \in Good /\ Fresh(surface, s) \in Calm
<1> DEFINE x == Fresh(surface, s)
<1>1. Len(s) \in Nat
  BY StreamingAssumption
<1>2. x \in Shapes
  BY StreamingAssumption DEF Fresh, Shapes, Stages
<1>3. Ahead(x) /\ Course(x) /\ Booked(x) /\ Connected(x)
  BY <1>1 DEF Fresh, Ahead, Course, Booked, Connected, Exits, Leaves, Before, HeldStages
<1>4. Endings(x) /\ Said(x)
  BY StreamingAssumption DEF Fresh, Endings, Said, Exits
<1>5. x \in Calm
  BY <1>2 DEF Fresh, Calm
<1>6. QED
  BY <1>2, <1>3, <1>4, <1>5 DEF Good

\* The strengthening holds throughout.
LEMMA AlwaysSound == Spec => []Sound
<1>1. Init => Sound
  <2> SUFFICES ASSUME Init
               PROVE  Sound
    OBVIOUS
  <2>1. \A r \in Requests : req[r] \in Good /\ req[r] \in Calm
    BY FreshIsGood DEF Init
  <2>2. req \in [Requests -> Good] /\ req \in [Requests -> Calm]
    BY <2>1 DEF Init
  <2>3. Waited
    BY DEF Init, Waited, CountedIsWaitedFor
  <2>4. QED
    BY <2>2, <2>3, StreamingAssumption DEF Init, Sound, Phases
<1>2. Sound /\ [Next]_vars => Sound'
  <2> SUFFICES ASSUME Sound, [Next]_vars
               PROVE  Sound'
    OBVIOUS
  <2>1. CASE UNCHANGED vars
    <3>1. Waited'
      BY <2>1 DEF Sound, Waited, CountedIsWaitedFor, vars
    <3>2. QED
      BY <2>1, <3>1 DEF Sound, vars
  <2>2. ASSUME NEW r \in Requests,
               Chain(r) \/ Upstream(r) \/ Body(r) \/ Leave(r) \/ Accounting(r) \/ Drop(r)
        PROVE  Sound'
    BY <2>2, TheChain, TheUpstream, TheBody, TheLeaving, TheDraining, TheExit DEF Accounting
  <2>3. QED
    BY <2>1, <2>2, TheServer DEF Next
<1>3. QED
  BY <1>1, <1>2, PTL DEF Spec

\* Every request keeps its shape, and the reader is never more than two items
\* ahead of the body (pump.py), however slow the caller.
THEOREM TypeCorrect == Spec => []TypeOK
BY AlwaysSound, SoundIsEnough, PTL

\* "However its connection ends" (streaming.py): for any number of requests,
\* candidates and failed bookings, a stream is resolved once and rightly, has one
\* row, and leaves no response open.
THEOREM AccountedForOnce == Spec => []AccountedOnce
BY AlwaysSound, SoundIsEnough, PTL

\* Whatever answers the vendors give, what a row says of the figure, of its basis
\* and of the text is so (accounted, _report).
THEOREM RowsAreTrue == Spec => []RowIsTrue
BY AlwaysSound, SoundIsEnough, PTL

\* What Drains.stop has counted has its row before the writer closes, unless the
\* limit passed (accounted: held "from the drain until the row is written").
THEOREM CountedAreWaitedFor == Spec => []CountedIsWaitedFor
BY AlwaysSound, SoundIsEnough, PTL
=============================================================================
