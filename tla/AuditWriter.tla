----------------------------- MODULE AuditWriter -----------------------------
(***************************************************************************)
(* RequestLogWriter (persistence/writer.py): audit rows go through a       *)
(* bounded queue to a worker task; a full queue, no worker or a shutdown   *)
(* makes the caller write its row itself.  stop() drains the queue, racing *)
(* a worker that may have died.                                            *)
(*                                                                         *)
(* Everything runs on one event loop: an action is what happens between    *)
(* two awaits.  A row is a request's entry; its content is not modelled.   *)
(***************************************************************************)
EXTENDS Integers, Sequences

CONSTANTS
    Rows,         \* the audit rows, one per request
    QueueSizes,   \* what settings.log_queue_size may be; 0 writes every row on its
                  \* request
    MaxFailures,  \* bound: writes that raise
    MaxDeaths,    \* bound: deaths of the worker task
    None

ASSUME WriterAssumption ==
    /\ QueueSizes \subseteq Nat /\ MaxFailures \in Nat /\ MaxDeaths \in Nat
    /\ None \notin Rows

VARIABLES
    queue,       \* asyncio.Queue
    maxsize,     \* its bound, settings.log_queue_size
    unfinished,  \* its count of entries not marked done, which join() waits for
    worker,      \* self._worker: "off" is None, "dead" a task that has ended
    hand,        \* the row the worker is writing
    stopping,    \* self._stopping
    life,        \* where the lifespan and stop() stand
    stopHand,    \* the row _write_remaining is writing
    caller,      \* the request that submits a row
    stored,      \* how often the row was committed
    reported,    \* rows whose failed write was logged or raised
    dropped,     \* rows a dying worker had in its hand
    raised,      \* the worker died of something other than a cancellation
    failures, deaths

carrier == <<queue, unfinished, worker, hand, raised>>
shutdown == <<stopping, life, stopHand, maxsize>>
fates == <<stored, reported, dropped>>
bounds == <<failures, deaths>>
vars == <<carrier, shutdown, caller, fates, bounds>>

Over == {"ended", "raised"}

Init ==
    /\ maxsize \in QueueSizes
    /\ queue = <<>> /\ unfinished = 0
    /\ worker = "off" /\ hand = None /\ raised = FALSE
    /\ stopping = FALSE /\ life = "starting" /\ stopHand = None
    /\ caller = [r \in Rows |-> "idle"]
    /\ stored = [r \in Rows |-> 0]
    /\ reported = {} /\ dropped = {}
    /\ failures = 0 /\ deaths = 0

-----------------------------------------------------------------------------
(* _write, the same on the caller, the worker and the stopping task *)

Commits(r) ==
    /\ stored' = [stored EXCEPT ![r] = @ + 1]
    /\ UNCHANGED <<reported, failures>>

\* The exception may come after the commit: the answer was lost.
Raises(r) ==
    /\ failures < MaxFailures
    /\ failures' = failures + 1
    /\ reported' = reported \cup {r}
    /\ \/ UNCHANGED stored
       \/ stored' = [stored EXCEPT ![r] = @ + 1]

-----------------------------------------------------------------------------
(* Requests *)

\* Mutant of Inline: a shutdown that has begun still takes rows into the queue.
InlineUnlessStopped == worker = "off"

\* No worker, or one on its way out.
Inline == worker = "off" \/ stopping

Enqueue(r) ==
    /\ caller[r] = "idle" /\ life # "starting"
    /\ ~Inline /\ Len(queue) < maxsize
    /\ queue' = Append(queue, r)
    /\ unfinished' = unfinished + 1
    /\ caller' = [caller EXCEPT ![r] = "answered"]
    /\ UNCHANGED <<worker, hand, raised, shutdown, fates, bounds>>

\* Inline, or QueueFull: written here.
BeginInline(r) ==
    /\ caller[r] = "idle" /\ life # "starting"
    /\ Inline \/ Len(queue) >= maxsize
    /\ caller' = [caller EXCEPT ![r] = "inline"]
    /\ UNCHANGED <<carrier, shutdown, fates, bounds>>

\* Mutant of AfterRaise: a lost row never becomes the caller's error.
AlwaysAnswered == "answered"

\* record_request logs a row that could not be written, and raises instead
\* where the installation writes every row before its response.
AfterRaise == IF maxsize = 0 THEN "failed" ELSE "answered"

EndInline(r) ==
    /\ caller[r] = "inline"
    /\ \/ Commits(r) /\ caller' = [caller EXCEPT ![r] = "answered"]
       \/ Raises(r) /\ caller' = [caller EXCEPT ![r] = AfterRaise]
    /\ UNCHANGED <<carrier, shutdown, dropped, deaths>>

-----------------------------------------------------------------------------
(* The worker: _run *)

\* Mutant of Ready: a worker that is being stopped takes nothing more up.
ReadyUnlessStopping == worker = "waiting" /\ queue # <<>> /\ ~stopping

\* queue.get() returns.
Ready == worker = "waiting" /\ queue # <<>>

Take ==
    /\ Ready
    /\ worker' = "writing" /\ hand' = Head(queue) /\ queue' = Tail(queue)
    /\ UNCHANGED <<unfinished, raised, shutdown, caller, fates, bounds>>

\* Mutant of Marked: the entry is marked done when it is taken up again only
\* if its write succeeded.
MarkedOnSuccess(ok) == IF ok THEN unfinished - 1 ELSE unfinished

\* finally: task_done(), whether or not the write succeeded.
Marked(ok) == unfinished - 1

Written ==
    /\ worker = "writing"
    /\ \/ Commits(hand) /\ unfinished' = Marked(TRUE)
       \/ Raises(hand) /\ unfinished' = Marked(FALSE)
    /\ worker' = "waiting" /\ hand' = None
    /\ UNCHANGED <<queue, raised, shutdown, caller, dropped, deaths>>

\* A cancellation from outside, or a BaseException out of the write: the row in
\* hand is marked done, and nobody else has it.
Dies ==
    /\ worker \in {"waiting", "writing"} /\ deaths < MaxDeaths
    /\ deaths' = deaths + 1
    /\ worker' = "dead" /\ hand' = None
    /\ IF worker = "waiting"
       THEN UNCHANGED <<unfinished, raised, fates>>
       ELSE /\ unfinished' = unfinished - 1
            /\ raised' \in BOOLEAN
            /\ dropped' = dropped \cup {hand}
            /\ \/ UNCHANGED stored
               \/ stored' = [stored EXCEPT ![hand] = @ + 1]
            /\ UNCHANGED reported
    /\ UNCHANGED <<queue, shutdown, caller, failures>>

-----------------------------------------------------------------------------
(* The lifespan: start, stop *)

\* A queue size of zero starts no worker.
Start ==
    /\ life = "starting" /\ life' = "serving"
    /\ worker' = IF maxsize = 0 THEN "off" ELSE "waiting"
    /\ UNCHANGED <<maxsize, queue, unfinished, hand, raised, stopping, stopHand, caller, fates, bounds>>

Stop ==
    /\ life = "serving"
    /\ IF worker = "off"
       THEN life' = "ended" /\ UNCHANGED stopping
       ELSE life' = "racing" /\ stopping' = TRUE
    /\ UNCHANGED <<maxsize, carrier, stopHand, caller, fates, bounds>>

\* Mutant of Wakes: stop() waits for join() alone.
JoinOnly == unfinished = 0

\* asyncio.wait, FIRST_COMPLETED: join() has returned or the worker has ended.
Wakes == unfinished = 0 \/ worker = "dead"

\* Mutant of AfterWait: what a dead worker left is not looked at.
NothingLeft == "cancelling"

AfterWait == IF unfinished = 0 THEN "cancelling" ELSE "writing"

Wake ==
    /\ life = "racing" /\ Wakes
    /\ life' = AfterWait
    /\ UNCHANGED <<maxsize, carrier, stopping, stopHand, caller, fates, bounds>>

\* _write_remaining.
TakeRemaining ==
    /\ life = "writing" /\ stopHand = None
    /\ IF queue = <<>>
       THEN life' = "cancelling" /\ UNCHANGED <<queue, stopHand>>
       ELSE stopHand' = Head(queue) /\ queue' = Tail(queue) /\ UNCHANGED life
    /\ UNCHANGED <<maxsize, unfinished, worker, hand, raised, stopping, caller, fates, bounds>>

WriteRemaining ==
    /\ stopHand # None
    /\ \/ Commits(stopHand) \/ Raises(stopHand)
    /\ unfinished' = unfinished - 1 /\ stopHand' = None
    /\ UNCHANGED <<maxsize, queue, worker, hand, raised, stopping, life, caller, dropped, deaths>>

\* The worker is cancelled and awaited.  A row it still had in hand would be
\* dropped; what it died of, if not a cancellation, is raised here.
Cancel ==
    /\ life = "cancelling"
    /\ IF worker = "dead" /\ raised
       THEN life' = "raised" /\ UNCHANGED <<worker, hand, unfinished, dropped>>
       ELSE /\ life' = "ended" /\ worker' = "off" /\ hand' = None
            /\ dropped' = IF worker = "writing" THEN dropped \cup {hand} ELSE dropped
            /\ unfinished' = IF worker = "writing" THEN unfinished - 1 ELSE unfinished
    /\ UNCHANGED <<maxsize, queue, raised, stopping, stopHand, caller, stored, reported, bounds>>

Finished ==
    /\ life \in Over /\ \A r \in Rows : caller[r] \in {"answered", "failed"}
    /\ UNCHANGED vars

StopSteps == Wake \/ TakeRemaining \/ WriteRemaining \/ Cancel
Next ==
    \/ \E r \in Rows : Enqueue(r) \/ BeginInline(r) \/ EndInline(r)
    \/ Take \/ Written \/ Dies
    \/ Start \/ Stop \/ StopSteps
    \/ Finished

\* A task that can run does, and a write returns or raises: the loop schedules
\* every ready task.  Nothing says when a request or a shutdown comes.
Spec ==
    /\ Init /\ [][Next]_vars
    /\ WF_vars(Take) /\ WF_vars(Written) /\ WF_vars(StopSteps)
    /\ \A r \in Rows : WF_vars(EndInline(r))

-----------------------------------------------------------------------------
(* Properties *)

\* Support of the proofs: what join() counts, and where stop() stands.
Held(h) == IF h = None THEN 0 ELSE 1
Counting ==
    /\ queue \in Seq(Rows) /\ hand \in Rows \cup {None} /\ stopHand \in Rows \cup {None}
    /\ unfinished = Len(queue) + Held(hand) + Held(stopHand)
    /\ hand # None <=> worker = "writing"
    /\ stopHand # None => life = "writing"
    /\ worker \in {"off", "waiting", "writing", "dead"}
    /\ life \in {"starting", "serving"} => ~stopping
    /\ life \in {"racing", "writing", "cancelling"} => stopping
    /\ life = "writing" => worker = "dead"
    /\ life = "starting" => worker = "off"
    /\ life \in Over /\ worker # "off" => stopping
    /\ life = "cancelling" => unfinished = 0

\* Whether r waits in the queue.
InQueue(r) == \E i \in 1 .. Len(queue) : queue[i] = r

\* Whether anybody still has r to write.
Carried(r) == InQueue(r) \/ hand = r \/ stopHand = r

\* Support of the proofs: a row is in at most one place at a time, and its fate
\* is undecided exactly as long as it is in one or with its request.
Placed ==
    /\ \A i, j \in 1 .. Len(queue) : queue[i] = queue[j] => i = j
    /\ worker = "off" => queue = <<>>
    /\ maxsize = 0 => worker = "off"
    /\ \A r \in Rows :
        /\ InQueue(r) => hand # r /\ stopHand # r
        /\ Carried(r) => caller[r] = "answered"
        /\ Carried(r) \/ caller[r] \in {"idle", "inline"}
           => stored[r] = 0 /\ r \notin reported \cup dropped
        /\ ~Carried(r) /\ caller[r] \in {"answered", "failed"}
           => stored[r] = 1 \/ r \in reported \cup dropped

\* Every variable keeps its type: the queue stays within its bound, join() never
\* counts more than the queue and the row in hand, and no row is committed
\* twice (writer.py; a row has the primary key its request was given).
TypeOK ==
    /\ maxsize \in QueueSizes
    /\ queue \in Seq(Rows) /\ Len(queue) <= maxsize
    /\ unfinished \in 0 .. (maxsize + 1)
    /\ worker \in {"off", "waiting", "writing", "dead"}
    /\ hand \in Rows \cup {None} /\ stopHand \in Rows \cup {None}
    /\ stopping \in BOOLEAN /\ raised \in BOOLEAN
    /\ life \in {"starting", "serving", "racing", "writing", "cancelling"} \cup Over
    /\ caller \in [Rows -> {"idle", "inline", "answered", "failed"}]
    /\ stored \in [Rows -> 0 .. 1]
    /\ reported \subseteq Rows /\ dropped \subseteq Rows
    /\ failures \in 0 .. MaxFailures /\ deaths \in 0 .. MaxDeaths

\* "A redeploy must not discard pending audit rows" (stop): when stop() comes to
\* cancel the worker, the worker holds no row and the queue is empty, whatever
\* was submitted while it waited.
CancelsIdle ==
    life = "cancelling" => worker # "writing" /\ queue = <<>> /\ unfinished = 0

\* An installation that writes every row before its response returns no answer
\* whose row is not stored (synchronous, record_request); any other never turns
\* a lost row into the caller's error.
AnswerMeansRow ==
    \A r \in Rows :
        /\ maxsize = 0 /\ caller[r] = "answered" => stored[r] = 1
        /\ maxsize > 0 => caller[r] # "failed"

\* "If the worker has died join() would wait forever" (stop): a shutdown that
\* has begun ends, though the worker may die before it, during it, or hold the
\* last row when it does.
ShutdownEnds == life = "racing" ~> life \in Over

\* While its worker lives, every queued row is taken up and its write comes to
\* an end without waiting for a shutdown.
QueuedIsWritten ==
    \A r \in Rows :
        InQueue(r) ~> (stored[r] = 1 \/ r \in reported \cup dropped \/ worker = "dead")

\* The refinement mapping: what has become of a row, and of the writer.
Fate(r) ==
    IF caller[r] = "idle" THEN "new"
    ELSE IF caller[r] = "inline" THEN "inline"
    ELSE IF Carried(r) THEN "waiting"
    ELSE IF r \in dropped THEN "dropped"
    ELSE IF r \in reported THEN "reported" ELSE "stored"

Phase ==
    IF life \in {"starting", "serving"} THEN "open"
    ELSE IF life \in Over THEN "closed" ELSE "closing"

Trail == INSTANCE AuditLog WITH fate <- [r \in Rows |-> Fate(r)], phase <- Phase

\* The writer keeps the promise of AuditLog: through queue, inline writes, failed
\* writes, a dying worker and a shutdown, every row handed over is resolved
\* once, none is dropped but by a worker that died with it in hand, and stop()
\* returns only when nothing waits.
KeepsTheTrail == Trail!AuditSpec
=============================================================================
