-------------------------- MODULE AuditWriterProofs --------------------------
(***************************************************************************)
(* Proofs about AuditWriter, for every set of rows and every queue size.   *)
(***************************************************************************)
EXTENDS AuditWriter, TLAPS

\* What the queue operations do to its length.
LEMMA QueueLengths ==
    ASSUME queue \in Seq(Rows)
    PROVE  /\ Len(queue) \in Nat
           /\ \A r \in Rows : Append(queue, r) \in Seq(Rows)
                              /\ Len(Append(queue, r)) = Len(queue) + 1
           /\ queue # <<>> => /\ Head(queue) \in Rows /\ Tail(queue) \in Seq(Rows)
                              /\ Len(Tail(queue)) = Len(queue) - 1
           /\ Len(queue) = 0 <=> queue = <<>>
  OBVIOUS

\* What a hand counts.
LEMMA Hands ==
    /\ Held(None) = 0
    /\ \A r \in Rows : Held(r) = 1
    /\ \A h : Held(h) \in Nat
  BY WriterAssumption DEF Held

\* A request's step keeps the count.
LEMMA RequestCounts ==
    ASSUME Counting, NEW r \in Rows, Enqueue(r) \/ BeginInline(r) \/ EndInline(r)
    PROVE  Counting'
<1> USE Hands DEF Counting, Over
<1>1. CASE Enqueue(r)
  <2>1. /\ queue' \in Seq(Rows) /\ Len(queue') = Len(queue) + 1 /\ Len(queue) \in Nat
        /\ unfinished' = unfinished + 1
    BY <1>1, QueueLengths DEF Enqueue
  <2>2. life # "cancelling"
    BY <1>1 DEF Enqueue, Inline
  <2> QED BY <1>1, <2>1, <2>2 DEF Enqueue, Inline, shutdown
<1>2. CASE BeginInline(r)
  BY <1>2 DEF BeginInline, carrier, shutdown
<1>3. CASE EndInline(r)
  BY <1>3 DEF EndInline, carrier, shutdown
<1> QED BY <1>1, <1>2, <1>3

\* A step of the worker does, and its death.
LEMMA WorkerCounts ==
    ASSUME Counting, Take \/ Written \/ Dies
    PROVE  Counting'
<1> USE WriterAssumption, Hands DEF Counting, Over
<1>1. CASE Take
  <2>1. /\ queue' \in Seq(Rows) /\ Len(queue') = Len(queue) - 1 /\ Len(queue) \in Nat
        /\ hand' \in Rows
    BY <1>1, QueueLengths DEF Take, Ready
  <2>2. hand = None
    BY <1>1 DEF Take, Ready
  <2> QED BY <1>1, <2>1, <2>2 DEF Take, Ready, shutdown
<1>2. CASE Written
  <2>1. unfinished' = unfinished - 1 /\ Len(queue) \in Nat
    BY <1>2, QueueLengths DEF Written, Marked
  <2>2. life # "cancelling"
    BY <1>2, <2>1 DEF Written
  <2> QED BY <1>2, <2>1, <2>2 DEF Written, shutdown
<1>3. CASE Dies
  <2>1. Len(queue) \in Nat
    BY QueueLengths
  <2> QED BY <1>3, <2>1 DEF Dies, shutdown
<1> QED BY <1>1, <1>2, <1>3

\* And every step of the lifespan.
LEMMA LifeCounts ==
    ASSUME Counting, Start \/ Stop \/ StopSteps \/ UNCHANGED vars
    PROVE  Counting'
<1> USE WriterAssumption, Hands DEF Counting, Over
<1>1. CASE Start
  BY <1>1 DEF Start
<1>2. CASE Stop
  BY <1>2 DEF Stop, carrier
<1>3. CASE Wake
  BY <1>3 DEF Wake, Wakes, AfterWait, carrier
<1>4. CASE TakeRemaining
  <2>1. CASE queue = <<>>
    <3>1. Len(queue) = 0
      BY <2>1
    <3> QED BY <1>4, <2>1, <3>1 DEF TakeRemaining
  <2>2. CASE queue # <<>>
    <3>1. /\ queue' \in Seq(Rows) /\ Len(queue') = Len(queue) - 1 /\ Len(queue) \in Nat
          /\ stopHand' \in Rows
      BY <1>4, <2>2, QueueLengths DEF TakeRemaining
    <3> QED BY <1>4, <2>2, <3>1 DEF TakeRemaining
  <2> QED BY <2>1, <2>2
<1>5. CASE WriteRemaining
  <2>1. Len(queue) \in Nat
    BY QueueLengths
  <2> QED BY <1>5, <2>1 DEF WriteRemaining
<1>6. CASE Cancel
  <2>1. Len(queue) \in Nat
    BY QueueLengths
  <2>2. worker # "writing" /\ hand = None
    <3>1. Held(hand) \in Nat /\ Held(stopHand) \in Nat /\ unfinished = 0
      BY <1>6 DEF Cancel
    <3>2. Held(hand) = 0
      BY <2>1, <3>1
    <3> QED BY <3>2
  <2>3. unfinished' = unfinished /\ hand' = None /\ stopping /\ life' \in Over
    BY <1>6, <2>2 DEF Cancel
  <2>4. UNCHANGED <<queue, stopHand, stopping>>
    BY <1>6 DEF Cancel
  <2>5. worker' # "writing" /\ worker' \in {"off", "dead"} /\ stopHand = None
    BY <1>6, <2>2 DEF Cancel
  <2> QED BY <2>2, <2>3, <2>4, <2>5
<1>7. CASE UNCHANGED vars
  BY <1>7 DEF vars, carrier, shutdown
<1> QED BY <1>1, <1>2, <1>3, <1>4, <1>5, <1>6, <1>7 DEF StopSteps

\* join() counts exactly the rows nobody is done with.
LEMMA Counts == Spec => []Counting
<1>1. Init => Counting
  BY WriterAssumption DEF Init, Counting, Held, Over
<1>2. Counting /\ [Next]_vars => Counting'
  BY RequestCounts, WorkerCounts, LifeCounts DEF Next, Finished
<1> QED BY <1>1, <1>2, PTL DEF Spec

\* A count of zero leaves nobody with a row.
LEMMA CountedIdle == Counting => CancelsIdle
<1> SUFFICES ASSUME Counting, life = "cancelling"
             PROVE  worker # "writing" /\ queue = <<>> /\ unfinished = 0
  BY DEF CancelsIdle
<1>1. Len(queue) \in Nat /\ unfinished = 0
  BY QueueLengths DEF Counting
<1>2. Len(queue) = 0 /\ hand = None
  <2>1. Held(hand) \in Nat /\ Held(stopHand) \in Nat /\ Len(queue) + Held(hand) + Held(stopHand) = 0
    BY <1>1, Hands DEF Counting
  <2>2. Len(queue) = 0 /\ Held(hand) = 0
    BY <1>1, <2>1
  <2> QED BY <2>2, Hands DEF Counting
<1> QED BY <1>1, <1>2, QueueLengths DEF Counting

\* stop() of persistence/writer.py never cancels the worker over a row: with any
\* queue size, whoever submits meanwhile and whether or not the worker died,
\* nothing is queued and nothing in hand when it comes to cancel.
THEOREM StopCancelsIdle == Spec => []CancelsIdle
  BY Counts, CountedIdle, PTL

-----------------------------------------------------------------------------
(* Where a row is *)

\* A row joins the queue, at its end.
LEMMA Queueing ==
    ASSUME queue \in Seq(Rows), NEW r \in Rows, queue' = Append(queue, r)
    PROVE  /\ \A x : InQueue(x)' <=> InQueue(x) \/ x = r
           /\ (\A i, j \in 1 .. Len(queue) : queue[i] = queue[j] => i = j) /\ ~InQueue(r)
              => \A i, j \in 1 .. Len(queue') : queue'[i] = queue'[j] => i = j
<1>1. /\ Len(queue) \in Nat /\ Len(queue') = Len(queue) + 1
      /\ \A i \in 1 .. Len(queue) : queue'[i] = queue[i]
      /\ queue'[Len(queue) + 1] = r
  OBVIOUS
<1>2. \A i \in 1 .. Len(queue') : i \in 1 .. Len(queue) \/ i = Len(queue) + 1
  BY <1>1
<1>3. 1 .. Len(queue) \subseteq 1 .. Len(queue') /\ Len(queue) + 1 \in 1 .. Len(queue')
  BY <1>1
<1>4. \A x : InQueue(x)' <=> InQueue(x) \/ x = r
  BY <1>1, <1>2, <1>3 DEF InQueue
<1>5. ASSUME \A i, j \in 1 .. Len(queue) : queue[i] = queue[j] => i = j, ~InQueue(r)
      PROVE  \A i, j \in 1 .. Len(queue') : queue'[i] = queue'[j] => i = j
  BY <1>1, <1>2, <1>5 DEF InQueue
<1> QED BY <1>4, <1>5

\* The first row of the queue is taken out of it.
LEMMA Dequeueing ==
    ASSUME queue \in Seq(Rows), queue # <<>>, queue' = Tail(queue),
           NEW h, h = Head(queue),
           \A i, j \in 1 .. Len(queue) : queue[i] = queue[j] => i = j
    PROVE  /\ InQueue(h) /\ ~InQueue(h)'
           /\ \A x : x # h => (InQueue(x)' <=> InQueue(x))
           /\ \A i, j \in 1 .. Len(queue') : queue'[i] = queue'[j] => i = j
<1>1. /\ Len(queue) \in Nat /\ Len(queue) > 0 /\ Len(queue') = Len(queue) - 1
      /\ \A i \in 1 .. Len(queue') : queue'[i] = queue[i + 1] /\ i + 1 \in 1 .. Len(queue)
      /\ queue[1] = h
  OBVIOUS
<1>2. \A i \in 1 .. Len(queue) : i = 1 \/ (i - 1 \in 1 .. Len(queue') /\ queue'[i - 1] = queue[i])
  BY <1>1
<1>3. InQueue(h)
  BY <1>1 DEF InQueue
<1>4. ~InQueue(h)'
  BY <1>1 DEF InQueue
<1>5. \A x : InQueue(x)' => InQueue(x)
  BY <1>1 DEF InQueue
<1>6. ASSUME NEW x, x # h, InQueue(x)
      PROVE  InQueue(x)'
  <2>1. PICK i \in 1 .. Len(queue) : queue[i] = x
    BY <1>6 DEF InQueue
  <2>2. i - 1 \in 1 .. Len(queue') /\ queue'[i - 1] = x
    BY <2>1, <1>1, <1>2, <1>6
  <2> QED BY <2>2 DEF InQueue
<1>7. \A i, j \in 1 .. Len(queue') : queue'[i] = queue'[j] => i = j
  BY <1>1
<1> QED BY <1>3, <1>4, <1>5, <1>6, <1>7

\* Nobody waits in an empty queue; in a queue that does not change, the same do.
LEMMA QueueRests ==
    /\ queue = <<>> => \A x : ~InQueue(x)
    /\ UNCHANGED queue => \A x : InQueue(x)' <=> InQueue(x)
  BY DEF InQueue

\* A step that is none of row x's business.
Same(x) ==
    /\ Carried(x)' <=> Carried(x)
    /\ caller'[x] = caller[x]
    /\ x \in reported' <=> x \in reported
    /\ x \in dropped' <=> x \in dropped

\* A step that hands row r over, to its request or to somebody else; and one
\* that decides its fate.
HandsOver(r) ==
    /\ caller[r] = "idle" /\ life' = life
    /\ \/ caller'[r] = "inline"
       \/ caller'[r] = "answered" /\ Carried(r)' /\ life = "serving"
    /\ \A x \in Rows : x # r => Same(x)

Decides(r) ==
    /\ caller[r] = "inline" \/ Carried(r)
    /\ caller'[r] \in {"answered", "failed"} /\ ~Carried(r)' /\ life' = life
    /\ \A x \in Rows : x # r => Same(x)

\* What the proof needs of a state: its types, its count, its rows' places.
Kept == TypeOK /\ Counting /\ Placed /\ AnswerMeansRow

\* A commit, or a failed write, of a row nobody has written yet.
LEMMA Writes ==
    ASSUME TypeOK, NEW r \in Rows, stored[r] = 0, Commits(r) \/ Raises(r)
    PROVE  /\ stored' \in [Rows -> 0 .. 1] /\ reported' \subseteq Rows
           /\ failures' \in 0 .. MaxFailures
           /\ \A x \in Rows : x # r => stored'[x] = stored[x] /\ (x \in reported' <=> x \in reported)
           /\ stored'[r] = 1 \/ r \in reported'
           /\ Commits(r) => stored'[r] = 1
<1> USE WriterAssumption DEF TypeOK
<1>1. CASE Commits(r)
  BY <1>1 DEF Commits
<1>2. CASE Raises(r)
  <2>1. failures' \in 0 .. MaxFailures /\ reported' \subseteq Rows /\ r \in reported'
    BY <1>2 DEF Raises
  <2>2. /\ stored' \in [Rows -> 0 .. 1]
        /\ \A x \in Rows : x # r => stored'[x] = stored[x]
    BY <1>2 DEF Raises
  <2>3. \A x \in Rows : x # r => (x \in reported' <=> x \in reported)
    BY <1>2 DEF Raises
  <2>4. Commits(r) => stored'[r] = 1
    BY DEF Commits
  <2> QED BY <2>1, <2>2, <2>3, <2>4
<1> QED BY <1>1, <1>2

\* A row a request hands over goes to one place.
LEMMA RequestKeeps ==
    ASSUME Kept, NEW r \in Rows, Enqueue(r) \/ BeginInline(r) \/ EndInline(r)
    PROVE  /\ Placed' /\ AnswerMeansRow'
           /\ HandsOver(r) \/ Decides(r)
<1> USE WriterAssumption DEF Kept
<1>1. CASE Enqueue(r)
  <2>1. /\ \A x : InQueue(x)' <=> InQueue(x) \/ x = r
        /\ \A i, j \in 1 .. Len(queue') : queue'[i] = queue'[j] => i = j
    BY <1>1, Queueing DEF Enqueue, TypeOK, Placed, Carried
  <2>2. /\ caller' = [caller EXCEPT ![r] = "answered"] /\ caller[r] = "idle"
        /\ UNCHANGED <<hand, stopHand, stored, reported, dropped, worker, maxsize>>
        /\ worker # "off"
    BY <1>1 DEF Enqueue, Inline, shutdown, fates
  <2>3. \A x \in Rows : Carried(x)' <=> Carried(x) \/ x = r
    BY <2>1, <2>2 DEF Carried
  <2>4. ~Carried(r) /\ hand # r /\ stopHand # r
    BY <2>2 DEF Placed, Carried
  <2>5. Placed'
    BY <2>1, <2>2, <2>3, <2>4 DEF Placed, TypeOK
  <2>6. AnswerMeansRow'
    BY <2>2 DEF AnswerMeansRow, TypeOK, Placed
  <2>7. life' = life /\ life = "serving"
    BY <1>1 DEF Enqueue, Inline, shutdown, Counting, Over, TypeOK
  <2>8. HandsOver(r)
    BY <2>2, <2>3, <2>7 DEF HandsOver, Same, TypeOK
  <2> QED BY <2>5, <2>6, <2>8
<1>2. CASE BeginInline(r)
  <2>1. /\ caller' = [caller EXCEPT ![r] = "inline"] /\ caller[r] = "idle"
        /\ UNCHANGED <<queue, hand, stopHand, stored, reported, dropped, worker, maxsize>>
    BY <1>2 DEF BeginInline, carrier, shutdown, fates
  <2>2. \A x : (InQueue(x)' <=> InQueue(x)) /\ (Carried(x)' <=> Carried(x))
    BY <2>1, QueueRests DEF Carried
  <2>3. Placed'
    BY <2>1, <2>2 DEF Placed, TypeOK
  <2>4. AnswerMeansRow'
    BY <2>1 DEF AnswerMeansRow, TypeOK
  <2>5. HandsOver(r)
    BY <1>2, <2>1, <2>2 DEF BeginInline, shutdown, HandsOver, Same, TypeOK
  <2> QED BY <2>3, <2>4, <2>5
<1>3. CASE EndInline(r)
  <2>0. caller[r] = "inline" /\ ~Carried(r) /\ stored[r] = 0
    BY <1>3 DEF EndInline, Placed
  <2>1. /\ \/ Commits(r) /\ caller' = [caller EXCEPT ![r] = "answered"]
           \/ Raises(r) /\ caller' = [caller EXCEPT ![r] = AfterRaise]
        /\ UNCHANGED <<queue, hand, stopHand, dropped, worker, maxsize>>
    BY <1>3 DEF EndInline, carrier, shutdown
  <2>2. \A x : (InQueue(x)' <=> InQueue(x)) /\ (Carried(x)' <=> Carried(x))
    BY <2>1, QueueRests DEF Carried
  <2>3. /\ \A x \in Rows : x # r => stored'[x] = stored[x] /\ (x \in reported' <=> x \in reported)
        /\ stored'[r] = 1 \/ r \in reported'
        /\ Commits(r) => stored'[r] = 1
    BY <2>0, <2>1, Writes
  <2>4. /\ \A x \in Rows : x # r => caller'[x] = caller[x]
        /\ caller'[r] \in {"answered", "failed"}
        /\ caller'[r] = "answered" /\ maxsize = 0 => stored'[r] = 1
        /\ caller'[r] = "failed" => maxsize = 0
    BY <2>0, <2>1, <2>3 DEF TypeOK, AfterRaise
  <2>5. Placed'
    BY <2>0, <2>1, <2>2, <2>3, <2>4 DEF Placed
  <2>6. AnswerMeansRow'
    BY <2>0, <2>1, <2>3, <2>4 DEF AnswerMeansRow, TypeOK
  <2>7. Decides(r)
    BY <1>3, <2>0, <2>1, <2>2, <2>3, <2>4 DEF EndInline, shutdown, Decides, Same
  <2> QED BY <2>5, <2>6, <2>7
<1> QED BY <1>1, <1>2, <1>3

\* The worker takes a row over, writes it, or dies with it in hand.
LEMMA WorkerKeeps ==
    ASSUME Kept, Take \/ Written \/ Dies
    PROVE  /\ Placed' /\ AnswerMeansRow' /\ life' = life
           /\ (\A x \in Rows : Same(x)) \/ (\E r \in Rows : Decides(r))
<1> USE WriterAssumption DEF Kept
<1>1. CASE Take
  <2>1. PICK h : h = Head(queue)
    OBVIOUS
  <2>2. /\ h \in Rows /\ InQueue(h) /\ ~InQueue(h)'
        /\ \A x : x # h => (InQueue(x)' <=> InQueue(x))
        /\ \A i, j \in 1 .. Len(queue') : queue'[i] = queue'[j] => i = j
    BY <1>1, <2>1, Dequeueing, QueueLengths DEF Take, Ready, TypeOK, Placed
  <2>3. /\ hand = None /\ hand' = h /\ worker' = "writing" /\ worker = "waiting"
        /\ UNCHANGED <<stopHand, maxsize, caller, stored, reported, dropped>>
    BY <1>1, <2>1 DEF Take, Ready, shutdown, fates, Counting
  <2>4. \A x \in Rows : (Carried(x)' <=> Carried(x))
    BY <2>2, <2>3 DEF Carried
  <2>5. stopHand # h
    BY <2>2 DEF Placed
  <2>6. Placed'
    BY <2>2, <2>3, <2>4, <2>5 DEF Placed
  <2>7. AnswerMeansRow'
    BY <2>3 DEF AnswerMeansRow
  <2>8. life' = life /\ \A x \in Rows : Same(x)
    BY <1>1, <2>3, <2>4 DEF Take, shutdown, Same
  <2> QED BY <2>6, <2>7, <2>8
<1>2. CASE Written
  <2>1. PICK h \in Rows : h = hand
    BY <1>2 DEF Written, Counting
  <2>2. /\ Commits(h) \/ Raises(h)
        /\ hand' = None /\ worker = "writing" /\ worker' = "waiting"
        /\ UNCHANGED <<queue, stopHand, maxsize, caller, dropped>>
    BY <1>2, <2>1 DEF Written, shutdown
  <2>3. /\ Carried(h) /\ ~InQueue(h) /\ stopHand # h /\ stored[h] = 0
    BY <2>1, <2>2 DEF Placed, Carried, Counting
  <2>4. /\ \A x : InQueue(x)' <=> InQueue(x)
        /\ \A x \in Rows : Carried(x)' <=> Carried(x) /\ x # h
    BY <2>1, <2>2, <2>3, QueueRests DEF Carried
  <2>5. /\ \A x \in Rows : x # h => stored'[x] = stored[x] /\ (x \in reported' <=> x \in reported)
        /\ stored'[h] = 1 \/ h \in reported'
    BY <2>2, <2>3, Writes
  <2>6. Placed'
    BY <2>1, <2>2, <2>3, <2>4, <2>5 DEF Placed
  <2>7. AnswerMeansRow'
    BY <2>2, <2>3, <2>5 DEF AnswerMeansRow, Placed
  <2>8. life' = life /\ caller[h] = "answered"
    BY <1>2, <2>3 DEF Written, shutdown, Placed
  <2>9. Decides(h)
    BY <2>2, <2>3, <2>4, <2>5, <2>8 DEF Decides, Same
  <2> QED BY <2>6, <2>7, <2>8, <2>9
<1>3. CASE Dies
  <2>1. CASE worker = "waiting"
    <3>1. /\ hand = None /\ hand' = None /\ worker' = "dead"
          /\ UNCHANGED <<queue, stopHand, maxsize, caller, stored, reported, dropped>>
      BY <1>3, <2>1 DEF Dies, shutdown, fates, Counting
    <3>2. \A x : (InQueue(x)' <=> InQueue(x)) /\ (Carried(x)' <=> Carried(x))
      BY <3>1, QueueRests DEF Carried
    <3>3. life' = life /\ \A x \in Rows : Same(x)
      BY <1>3, <3>1, <3>2 DEF Dies, shutdown, Same
    <3> QED BY <2>1, <3>1, <3>2, <3>3 DEF Placed, AnswerMeansRow
  <2>2. CASE worker = "writing"
    <3>1. PICK h \in Rows : h = hand
      BY <2>2 DEF Counting
    <3>2. /\ hand' = None /\ worker' = "dead"
          /\ UNCHANGED <<queue, stopHand, maxsize, caller, reported>>
          /\ dropped' = dropped \cup {h}
          /\ UNCHANGED stored \/ stored' = [stored EXCEPT ![h] = @ + 1]
      BY <1>3, <2>2, <3>1 DEF Dies, shutdown
    <3>3. /\ Carried(h) /\ ~InQueue(h) /\ stopHand # h /\ stored[h] = 0
      BY <2>2, <3>1 DEF Placed, Carried, Counting
    <3>4. /\ \A x : InQueue(x)' <=> InQueue(x)
          /\ \A x \in Rows : Carried(x)' <=> Carried(x) /\ x # h
      BY <3>1, <3>2, <3>3, QueueRests DEF Carried
    <3>5. \A x \in Rows : x # h => stored'[x] = stored[x]
      BY <3>2 DEF TypeOK
    <3>6. Placed'
      BY <2>2, <3>1, <3>2, <3>3, <3>4, <3>5 DEF Placed
    <3>7. AnswerMeansRow'
      BY <2>2, <3>2, <3>5 DEF AnswerMeansRow, Placed
    <3>8. life' = life /\ caller[h] = "answered"
      BY <1>3, <3>3 DEF Dies, shutdown, Placed
    <3>9. Decides(h)
      BY <3>2, <3>3, <3>4, <3>8 DEF Decides, Same
    <3> QED BY <3>6, <3>7, <3>8, <3>9
  <2> QED BY <1>3, <2>1, <2>2 DEF Dies
<1> QED BY <1>1, <1>2, <1>3

\* The lifespan starts, stops, drains what a dead worker left and ends.
LEMMA LifeKeeps ==
    ASSUME Kept, Start \/ Stop \/ StopSteps \/ UNCHANGED vars
    PROVE  /\ Placed' /\ AnswerMeansRow'
           /\ (\A x \in Rows : Same(x)) \/ (\E r \in Rows : Decides(r))
<1> USE WriterAssumption DEF Kept
<1>1. ASSUME UNCHANGED <<queue, hand, stopHand, maxsize, caller, stored, reported, dropped>>,
             worker' # worker => queue = <<>> /\ (maxsize = 0 => worker' = "off")
      PROVE  Placed' /\ AnswerMeansRow' /\ \A x \in Rows : Same(x)
  <2>1. \A x : (InQueue(x)' <=> InQueue(x)) /\ (Carried(x)' <=> Carried(x))
    BY <1>1, QueueRests DEF Carried
  <2> QED BY <1>1, <2>1 DEF Placed, AnswerMeansRow, Same
<1>2. CASE Start
  <2>1. queue = <<>>
    BY <1>2 DEF Start, Placed, Counting
  <2> QED BY <1>1, <1>2, <2>1 DEF Start, fates
<1>3. CASE Stop \/ Wake \/ UNCHANGED vars
  BY <1>1, <1>3 DEF Stop, Wake, carrier, shutdown, fates, vars
<1>4. CASE TakeRemaining
  <2>1. CASE queue = <<>>
    BY <1>1, <1>4, <2>1 DEF TakeRemaining, fates
  <2>2. CASE queue # <<>>
    <3>1. PICK h : h = Head(queue)
      OBVIOUS
    <3>2. /\ h \in Rows /\ InQueue(h) /\ ~InQueue(h)'
          /\ \A x : x # h => (InQueue(x)' <=> InQueue(x))
          /\ \A i, j \in 1 .. Len(queue') : queue'[i] = queue'[j] => i = j
      BY <1>4, <2>2, <3>1, Dequeueing, QueueLengths DEF TakeRemaining, TypeOK, Placed
    <3>3. /\ stopHand = None /\ stopHand' = h
          /\ UNCHANGED <<hand, worker, maxsize, caller, stored, reported, dropped>>
      BY <1>4, <2>2, <3>1 DEF TakeRemaining, fates
    <3>4. \A x \in Rows : (Carried(x)' <=> Carried(x))
      BY <3>2, <3>3 DEF Carried
    <3>5. hand # h
      BY <3>2 DEF Placed
    <3>6. worker # "off"
      BY <2>2 DEF Placed
    <3>7. Placed'
      BY <3>2, <3>3, <3>4, <3>5, <3>6 DEF Placed
    <3>8. \A x \in Rows : Same(x)
      BY <3>3, <3>4 DEF Same
    <3> QED BY <3>3, <3>7, <3>8 DEF AnswerMeansRow
  <2> QED BY <2>1, <2>2
<1>5. CASE WriteRemaining
  <2>1. PICK h \in Rows : h = stopHand
    BY <1>5 DEF WriteRemaining, TypeOK
  <2>2. /\ Commits(h) \/ Raises(h)
        /\ stopHand' = None
        /\ UNCHANGED <<queue, hand, worker, maxsize, caller, dropped>>
    BY <1>5, <2>1 DEF WriteRemaining
  <2>3. /\ Carried(h) /\ ~InQueue(h) /\ stored[h] = 0 /\ hand # h /\ worker = "dead"
    BY <2>1 DEF Placed, Carried, Counting
  <2>4. /\ \A x : InQueue(x)' <=> InQueue(x)
        /\ \A x \in Rows : Carried(x)' <=> Carried(x) /\ x # h
    BY <2>1, <2>2, <2>3, QueueRests DEF Carried
  <2>5. /\ \A x \in Rows : x # h => stored'[x] = stored[x] /\ (x \in reported' <=> x \in reported)
        /\ stored'[h] = 1 \/ h \in reported'
    BY <2>2, <2>3, Writes
  <2>6. Placed'
    BY <2>1, <2>2, <2>3, <2>4, <2>5 DEF Placed
  <2>7. AnswerMeansRow'
    BY <2>2, <2>3, <2>5 DEF AnswerMeansRow, Placed
  <2>8. life' = life /\ caller[h] = "answered"
    BY <1>5, <2>3 DEF WriteRemaining, Placed
  <2>9. Decides(h)
    BY <2>2, <2>3, <2>4, <2>5, <2>8 DEF Decides, Same
  <2> QED BY <2>6, <2>7, <2>8, <2>9
<1>6. CASE Cancel
  <2>1. worker # "writing" /\ hand = None /\ queue = <<>>
    BY <1>6, CountedIdle DEF Cancel, CancelsIdle, Counting
  <2>2. UNCHANGED <<queue, hand, stopHand, maxsize, caller, stored, reported, dropped>>
    BY <1>6, <2>1 DEF Cancel
  <2>3. worker' = worker \/ worker' = "off"
    BY <1>6, <2>1 DEF Cancel
  <2> QED BY <1>1, <2>1, <2>2, <2>3
<1> QED BY <1>2, <1>3, <1>4, <1>5, <1>6 DEF StopSteps

\* join() counts at most one row more than the queue holds.
LEMMA CountBounded ==
    ASSUME Counting', maxsize' \in Nat, Len(queue') <= maxsize'
    PROVE  unfinished' \in 0 .. (maxsize' + 1)
<1>1. Len(queue') \in Nat
  BY DEF Counting
<1>2. hand' = None \/ stopHand' = None
  BY DEF Counting
<1>3. Held(hand') + Held(stopHand') \in 0 .. 1
  BY <1>2 DEF Held
<1>4. unfinished' = Len(queue') + Held(hand') + Held(stopHand')
  BY DEF Counting
<1>5. Held(hand') \in Nat /\ Held(stopHand') \in Nat
  BY Hands
<1> QED BY <1>1, <1>3, <1>4, <1>5

\* Every step keeps the types.
LEMMA TypesKept ==
    ASSUME Kept, [Next]_vars, Counting'
    PROVE  TypeOK'
<1> DEFINE Rest == /\ maxsize \in QueueSizes
                   /\ Len(queue) <= maxsize
                   /\ stopping \in BOOLEAN /\ raised \in BOOLEAN
                   /\ life \in {"starting", "serving", "racing", "writing", "cancelling"} \cup Over
                   /\ caller \in [Rows -> {"idle", "inline", "answered", "failed"}]
                   /\ stored \in [Rows -> 0 .. 1]
                   /\ reported \subseteq Rows /\ dropped \subseteq Rows
                   /\ failures \in 0 .. MaxFailures /\ deaths \in 0 .. MaxDeaths
<1> USE WriterAssumption
<1>1. ASSUME Rest'
      PROVE  TypeOK'
  <2>1. maxsize' \in Nat
    BY <1>1
  <2>2. unfinished' \in 0 .. (maxsize' + 1)
    BY <1>1, <2>1, CountBounded
  <2> QED BY <1>1, <2>2 DEF TypeOK, Counting
<1>2. Rest /\ Len(queue) \in Nat
  BY QueueLengths DEF Kept, TypeOK
<1>3. ASSUME NEW r \in Rows, Enqueue(r)
      PROVE  Rest'
  <2>1. Len(queue') = Len(queue) + 1
    BY <1>3, QueueLengths DEF Enqueue, Kept, TypeOK
  <2> QED BY <1>2, <1>3, <2>1 DEF Enqueue, shutdown, fates, bounds
<1>4. ASSUME NEW r \in Rows, BeginInline(r)
      PROVE  Rest'
  BY <1>2, <1>4 DEF BeginInline, carrier, shutdown, fates, bounds
<1>5. ASSUME NEW r \in Rows, EndInline(r)
      PROVE  Rest'
  <2>1. stored[r] = 0
    BY <1>5 DEF EndInline, Kept, Placed
  <2>2. /\ stored' \in [Rows -> 0 .. 1] /\ reported' \subseteq Rows
        /\ failures' \in 0 .. MaxFailures
    BY <1>5, <2>1, Writes DEF EndInline, Kept
  <2>3. caller' \in [Rows -> {"idle", "inline", "answered", "failed"}]
    BY <1>2, <1>5 DEF EndInline, AfterRaise
  <2> QED BY <1>2, <1>5, <2>2, <2>3 DEF EndInline, carrier, shutdown
<1>6. ASSUME Take
      PROVE  Rest'
  <2>1. Len(queue') = Len(queue) - 1
    BY <1>6, QueueLengths DEF Take, Ready, Kept, TypeOK
  <2> QED BY <1>2, <1>6, <2>1 DEF Take, shutdown, fates, bounds
<1>7. ASSUME Written
      PROVE  Rest'
  <2>1. PICK h \in Rows : h = hand
    BY <1>7 DEF Written, Kept, Counting
  <2>2. stored[h] = 0
    BY <2>1 DEF Kept, Placed, Carried
  <2>3. /\ stored' \in [Rows -> 0 .. 1] /\ reported' \subseteq Rows
        /\ failures' \in 0 .. MaxFailures
    BY <1>7, <2>1, <2>2, Writes DEF Written, Kept
  <2> QED BY <1>2, <1>7, <2>3 DEF Written, shutdown
<1>8. ASSUME Dies
      PROVE  Rest'
  <2>1. CASE worker = "waiting"
    BY <1>2, <1>8, <2>1 DEF Dies, shutdown, fates
  <2>2. CASE worker = "writing"
    <3>1. PICK h \in Rows : h = hand
      BY <2>2 DEF Kept, Counting
    <3>2. stored[h] = 0
      BY <3>1 DEF Kept, Placed, Carried
    <3>3. stored' \in [Rows -> 0 .. 1] /\ dropped' \subseteq Rows
      BY <1>2, <1>8, <2>2, <3>1, <3>2 DEF Dies
    <3>4. raised' \in BOOLEAN /\ deaths' \in 0 .. MaxDeaths
      BY <1>2, <1>8, <2>2 DEF Dies
    <3> QED BY <1>2, <1>8, <2>2, <3>3, <3>4 DEF Dies, shutdown
  <2> QED BY <1>8, <2>1, <2>2 DEF Dies
<1>9. ASSUME Start
      PROVE  Rest'
  BY <1>2, <1>9 DEF Start, fates, bounds
<1>10. ASSUME Stop
      PROVE  Rest'
  BY <1>2, <1>10 DEF Stop, carrier, fates, bounds, Over
<1>11. ASSUME Wake
      PROVE  Rest'
  BY <1>2, <1>11 DEF Wake, AfterWait, carrier, fates, bounds
<1>12. ASSUME TakeRemaining
      PROVE  Rest'
  <2>1. Len(queue') <= Len(queue) /\ Len(queue') \in Nat
    BY <1>12, QueueLengths DEF TakeRemaining, Kept, TypeOK
  <2> QED BY <1>2, <1>12, <2>1 DEF TakeRemaining, fates, bounds
<1>13. ASSUME WriteRemaining
      PROVE  Rest'
  <2>1. PICK h \in Rows : h = stopHand
    BY <1>13 DEF WriteRemaining, Kept, TypeOK
  <2>2. stored[h] = 0
    BY <2>1 DEF Kept, Placed, Carried
  <2>3. /\ stored' \in [Rows -> 0 .. 1] /\ reported' \subseteq Rows
        /\ failures' \in 0 .. MaxFailures
    BY <1>13, <2>1, <2>2, Writes DEF WriteRemaining, Kept
  <2> QED BY <1>2, <1>13, <2>3 DEF WriteRemaining
<1>14. ASSUME Cancel
      PROVE  Rest'
  <2>1. worker # "writing"
    BY <1>14, CountedIdle DEF Cancel, Kept, CancelsIdle
  <2> QED BY <1>2, <1>14, <2>1 DEF Cancel, Over, bounds
<1>15. ASSUME UNCHANGED vars
      PROVE  Rest'
  BY <1>2, <1>15 DEF vars, carrier, shutdown, fates, bounds
<1> QED BY <1>1, <1>3, <1>4, <1>5, <1>6, <1>7, <1>8, <1>9, <1>10, <1>11, <1>12, <1>13, <1>14, <1>15
        DEF Next, StopSteps, Finished

\* The types, the count and the places hold together.
LEMMA Keeping == Spec => []Kept
<1>1. Init => Kept
  <2> SUFFICES ASSUME Init PROVE Kept
    OBVIOUS
  <2>1. Counting
    BY WriterAssumption DEF Init, Counting, Held, Over
  <2>2. Len(queue) = 0 /\ queue \in Seq(Rows) /\ maxsize \in Nat
    BY WriterAssumption DEF Init
  <2>3. TypeOK
    <3>1. /\ caller \in [Rows -> {"idle", "inline", "answered", "failed"}]
          /\ stored \in [Rows -> 0 .. 1]
          /\ failures \in 0 .. MaxFailures /\ deaths \in 0 .. MaxDeaths
          /\ life \in {"starting", "serving", "racing", "writing", "cancelling"} \cup Over
      BY WriterAssumption DEF Init
    <3>2. Len(queue) <= maxsize /\ unfinished \in 0 .. (maxsize + 1)
      BY <2>2 DEF Init
    <3>3. /\ hand \in Rows \cup {None} /\ stopHand \in Rows \cup {None}
          /\ stopping \in BOOLEAN /\ raised \in BOOLEAN
          /\ reported \subseteq Rows /\ dropped \subseteq Rows
          /\ worker \in {"off", "waiting", "writing", "dead"} /\ maxsize \in QueueSizes
      BY DEF Init
    <3> QED BY <2>2, <3>1, <3>2, <3>3 DEF TypeOK
  <2>4. \A r \in Rows : ~Carried(r)
    BY QueueRests, WriterAssumption DEF Init, Carried
  <2>5. Placed
    BY <2>2, <2>4 DEF Init, Placed, Carried
  <2> QED BY <2>1, <2>3, <2>5 DEF Init, Kept, AnswerMeansRow
<1>2. Kept /\ [Next]_vars => Kept'
  <2> SUFFICES ASSUME Kept, [Next]_vars PROVE Kept'
    OBVIOUS
  <2>1. Counting'
    BY RequestCounts, WorkerCounts, LifeCounts DEF Kept, Next, Finished
  <2>2. TypeOK'
    BY <2>1, TypesKept
  <2>3. Placed' /\ AnswerMeansRow'
    BY RequestKeeps, WorkerKeeps, LifeKeeps DEF Next, Finished
  <2> QED BY <2>1, <2>2, <2>3 DEF Kept
<1> QED BY <1>1, <1>2, PTL DEF Spec

\* The audit writer of persistence/writer.py keeps its bounds: the queue never
\* exceeds log_queue_size, join() never counts a row nobody holds, and no row is
\* committed twice, however often a write fails and whether the worker dies.
THEOREM TypeCorrect == Spec => []TypeOK
  BY Keeping, PTL DEF Kept

\* record_request answers no caller whose row is not stored, where the row is
\* written before the response, and never fails one where it is not.
THEOREM AnswersKept == Spec => []AnswerMeansRow
  BY Keeping, PTL DEF Kept

\* A row whose request has its answer and that nobody carries any more.
Settled(r) == caller[r] \in {"answered", "failed"} /\ ~Carried(r)

\* "A redeploy must not discard pending audit rows": no row is lost silently.
\* One that was handed over and is neither queued nor in a hand has been
\* committed exactly once, or its loss was logged, or a dying worker had it.
THEOREM NoRowIsLost ==
    Spec => [](\A r \in Rows : Settled(r) => stored[r] = 1 \/ r \in reported \cup dropped)
<1>1. Kept => \A r \in Rows : Settled(r) => stored[r] = 1 \/ r \in reported \cup dropped
  BY DEF Kept, Placed, Settled
<1> QED BY Keeping, <1>1, PTL

-----------------------------------------------------------------------------
(* The promise of AuditLog *)

\* What AuditLog sees of a row.
LEMMA Fates ==
    ASSUME Kept, NEW r \in Rows
    PROVE  /\ caller[r] = "idle" => Fate(r) = "new"
           /\ caller[r] = "inline" => Fate(r) = "inline"
           /\ Carried(r) <=> Fate(r) = "waiting"
           /\ caller[r] \in {"answered", "failed"} /\ ~Carried(r) => Fate(r) \in Trail!Final
<1>1. Carried(r) => caller[r] = "answered"
  BY DEF Kept, Placed
<1>2. caller[r] = "idle" => Fate(r) = "new"
  BY DEF Fate
<1>3. caller[r] = "inline" => Fate(r) = "inline"
  BY DEF Fate
<1>4. Carried(r) => Fate(r) = "waiting"
  BY <1>1 DEF Fate
<1>5. caller[r] \in {"answered", "failed"} /\ ~Carried(r) => Fate(r) \in Trail!Final
  BY DEF Fate, Trail!Final
<1>6. caller[r] \in {"idle", "inline", "answered", "failed"} /\ "waiting" \notin Trail!Final
  BY DEF Kept, TypeOK, Trail!Final
<1> QED BY <1>1, <1>2, <1>3, <1>4, <1>5, <1>6

\* A row's fate does not change by a step that is not its own.
LEMMA FateRests ==
    ASSUME NEW x, Same(x)
    PROVE  Fate(x)' = Fate(x)
  BY DEF Same, Fate

\* Nothing of a request's step but its row's fate shows.
LEMMA OneFate ==
    ASSUME NEW r \in Rows, \A x \in Rows : x # r => Same(x), NEW f, Fate(r)' = f
    PROVE  [x \in Rows |-> Fate(x)]' = [[x \in Rows |-> Fate(x)] EXCEPT ![r] = f]
<1>1. \A x \in Rows : x # r => Fate(x)' = Fate(x)
  BY FateRests
<1> QED BY <1>1

\* A row handed over is accepted.
LEMMA Accepting ==
    ASSUME Kept, Kept', NEW r \in Rows, HandsOver(r)
    PROVE  Trail!Accept(r)
<1>1. Fate(r) = "new"
  BY Fates DEF HandsOver
<1>2. Phase' = Phase /\ (life = "serving" => Phase = "open")
  BY DEF HandsOver, Phase, Over
<1>3. CASE caller'[r] = "inline"
  <2>1. Fate(r)' = "inline"
    BY <1>3 DEF Fate
  <2>2. [x \in Rows |-> Fate(x)]' = [[x \in Rows |-> Fate(x)] EXCEPT ![r] = "inline"]
    BY <2>1, OneFate DEF HandsOver
  <2> QED BY <1>1, <1>2, <2>2 DEF Trail!Accept
<1>4. CASE caller'[r] = "answered" /\ Carried(r)' /\ life = "serving"
  <2>1. Fate(r)' = "waiting"
    BY <1>4 DEF Fate
  <2>2. [x \in Rows |-> Fate(x)]' = [[x \in Rows |-> Fate(x)] EXCEPT ![r] = "waiting"]
    BY <2>1, OneFate DEF HandsOver
  <2> QED BY <1>1, <1>2, <1>4, <2>2 DEF Trail!Accept
<1> QED BY <1>3, <1>4 DEF HandsOver

\* A row whose fate is decided is resolved.
LEMMA Resolving ==
    ASSUME Kept, NEW r \in Rows, Decides(r)
    PROVE  Trail!Resolve(r)
<1>1. Fate(r) \in {"inline", "waiting"}
  BY Fates DEF Decides
<1>2. Phase' = Phase
  BY DEF Decides, Phase
<1>3. PICK f \in Trail!Final : Fate(r)' = f
  BY DEF Decides, Fate, Trail!Final
<1>4. [x \in Rows |-> Fate(x)]' = [[x \in Rows |-> Fate(x)] EXCEPT ![r] = f]
  BY <1>3, OneFate DEF Decides
<1> QED BY <1>1, <1>2, <1>3, <1>4 DEF Trail!Resolve

\* A step of the lifespan begins the shutdown, ends it with nothing waiting, or
\* does not show.
LEMMA Closing ==
    ASSUME Kept, Start \/ Stop \/ StopSteps \/ UNCHANGED vars, \A x \in Rows : Same(x)
    PROVE  [Trail!ANext]_(Trail!avars)
<1> DEFINE fates0 == [x \in Rows |-> Fate(x)]
<1>1. fates0' = fates0
  BY FateRests
<1>2. ASSUME queue = <<>>, hand = None, stopHand = None
      PROVE  \A r \in Rows : fates0[r] # "waiting"
  BY <1>2, Fates, QueueRests, WriterAssumption DEF Carried
<1>3. CASE Phase' = Phase
  BY <1>1, <1>3 DEF Trail!avars
<1>4. CASE Stop
  <2>1. CASE worker = "off"
    <3>1. queue = <<>> /\ hand = None /\ stopHand = None
      BY <1>4, <2>1 DEF Stop, Kept, Placed, Counting
    <3>2. Phase = "open" /\ Phase' = "closed"
      BY <1>4, <2>1 DEF Stop, Phase, Over
    <3>3. Trail!EndClose
      BY <1>1, <1>2, <3>1, <3>2 DEF Trail!EndClose
    <3> QED BY <3>3 DEF Trail!ANext
  <2>2. CASE worker # "off"
    <3>1. Phase = "open" /\ Phase' = "closing"
      BY <1>4, <2>2 DEF Stop, Phase, Over
    <3>2. Trail!BeginClose
      BY <1>1, <3>1 DEF Trail!BeginClose
    <3> QED BY <3>2 DEF Trail!ANext
  <2> QED BY <2>1, <2>2
<1>5. CASE Cancel
  <2>1. queue = <<>> /\ hand = None /\ stopHand = None
    BY <1>5, CountedIdle DEF Cancel, CancelsIdle, Kept, Counting
  <2>2. Phase = "closing" /\ Phase' = "closed"
    BY <1>5 DEF Cancel, Phase, Over
  <2>3. Trail!EndClose
    BY <1>1, <1>2, <2>1, <2>2 DEF Trail!EndClose
  <2> QED BY <2>3 DEF Trail!ANext
<1>6. CASE Start \/ Wake \/ TakeRemaining \/ WriteRemaining \/ UNCHANGED vars
  <2>1. Phase' = Phase
    <3>1. CASE Start
      BY <3>1 DEF Start, Phase
    <3>2. CASE Wake
      BY <3>2 DEF Wake, AfterWait, Phase, Over
    <3>3. CASE TakeRemaining
      BY <3>3 DEF TakeRemaining, Phase, Over
    <3>4. CASE life' = life
      BY <3>4 DEF Phase
    <3> QED BY <1>6, <3>1, <3>2, <3>3, <3>4 DEF WriteRemaining, vars, shutdown
  <2> QED BY <1>3, <2>1
<1> QED BY <1>4, <1>5, <1>6 DEF StopSteps

\* The queue, the worker and the shutdown of persistence/writer.py keep the
\* trail's promise, as far as it is about what a step may do: every row handed
\* over is resolved once and only once, none goes back to waiting, and stop()
\* ends only when none waits.
THEOREM TrailSteps == Spec => Trail!AuditSteps
<1>1. Init => Trail!AInit
  <2> SUFFICES ASSUME Init PROVE Trail!AInit
    OBVIOUS
  <2>1. \A r \in Rows : Fate(r) = "new"
    BY DEF Init, Fate
  <2>2. Phase = "open"
    BY DEF Init, Phase
  <2> QED BY <2>1, <2>2 DEF Trail!AInit
<1>2. Kept /\ Kept' /\ [Next]_vars => [Trail!ANext]_(Trail!avars)
  <2> SUFFICES ASSUME Kept, Kept', [Next]_vars PROVE [Trail!ANext]_(Trail!avars)
    OBVIOUS
  <2>1. CASE \E r \in Rows : HandsOver(r)
    BY <2>1, Accepting DEF Trail!ANext
  <2>2. CASE \E r \in Rows : Decides(r)
    BY <2>2, Resolving DEF Trail!ANext
  <2>3. ASSUME \A x \in Rows : Same(x), life' = life
        PROVE  [Trail!ANext]_(Trail!avars)
    <3>1. \A x \in Rows : Fate(x)' = Fate(x)
      BY <2>3, FateRests
    <3>2. Phase' = Phase
      BY <2>3 DEF Phase
    <3> QED BY <3>1, <3>2 DEF Trail!avars
  <2>4. CASE Take \/ Written \/ Dies
    BY <2>2, <2>3, <2>4, WorkerKeeps
  <2>5. CASE Start \/ Stop \/ StopSteps \/ UNCHANGED vars
    BY <2>2, <2>5, LifeKeeps, Closing
  <2>6. CASE \E r \in Rows : Enqueue(r) \/ BeginInline(r) \/ EndInline(r)
    BY <2>1, <2>2, <2>6, RequestKeeps
  <2> QED BY <2>4, <2>5, <2>6 DEF Next, Finished
<1> QED BY <1>1, <1>2, Keeping, PTL DEF Spec, Trail!AuditSteps
=============================================================================
