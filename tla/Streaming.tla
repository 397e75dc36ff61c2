------------------------------ MODULE Streaming ------------------------------
(***************************************************************************)
(* A streamed answer of the gateway and its accounting                     *)
(* (api/serving/streaming.py, pump.py, keepalive.py, accounting.py, the    *)
(* chain of pipeline/dispatch.py and the bodies of the KIRA and the Gemini *)
(* surface).                                                               *)
(*                                                                         *)
(* Four parties per request: the chain that looks for a candidate, the     *)
(* pump that reads the candidate's chunks, the body that sends them, and   *)
(* the caller, who may leave at any moment.  One more for all of them: the *)
(* server, which stops by cancelling what still runs.                      *)
(*                                                                         *)
(* The upstream's chunks are a script: what each says of the usage so far  *)
(* and whether it carries the finish reason.  The upstream may break off   *)
(* after any of them.  The queues are counters over the script: chunks     *)
(* read, items given by the pump, items taken by the body.  Keepalive      *)
(* ticks are left out: they send without changing what is accounted.       *)
(***************************************************************************)
EXTENDS Integers, Sequences, FiniteSetsExt

CONSTANTS
    Requests,    \* the streamed requests
    Surfaces,    \* "kira", "gemini"
    Models,      \* how many candidates a chain has
    Scripts,     \* the upstreams' answers: sequences of [usage, finish]
    DrainLeft,   \* AIRA_DRAIN_LEFT_STREAMS_SECONDS: the settings, TRUE for "on"
    MaxFaults,   \* bound: bookings that fail
    Counted,     \* a figure of the vendor's counting endpoint
    None

Statuses == {"refused", "status", "cut", "withheld", "served", "left", "error"}
Bases == {"partial", "counted"}

\* The last usage among the first k chunks of an answer.
Reports(s, k) == {j \in 1 .. k : s[j].usage # None}
LastReport(s, k) == IF Reports(s, k) = {} THEN None ELSE s[Max(Reports(s, k))].usage

\* "A report that came with the end of the answer is the vendor's last word"
\* (_left): what is reported once the finish reason is known does not grow.
EndsWithItsReport(s) ==
    \A k \in DOMAIN s, l \in DOMAIN s :
        s[k].finish /\ k <= l /\ LastReport(s, l) # None
            => LastReport(s, l) = LastReport(s, Len(s))

ASSUME StreamingAssumption ==
    /\ Models \in Nat \ {0} /\ MaxFaults \in Nat
    /\ DrainLeft \subseteq BOOLEAN
    /\ Surfaces \subseteq {"kira", "gemini"}
    /\ Scripts \subseteq Seq([usage: Nat \cup {None}, finish: BOOLEAN])
    /\ \A s \in Scripts : EndsWithItsReport(s)
    /\ Counted \notin Nat \cup {None}
    /\ None \notin Nat \cup Statuses \cup Bases \cup {"end", "bug", "settled", "released"}

VARIABLES
    \* req[r], a request:
    \*   surface, script               what it is, and what will be answered
    \*   at, asked, last, answered     the chain: the candidate at hand
    \*   conn                          the candidates whose response is open
    \*   stage                         how far it is
    \*   within                        the chain decided before the response began
    \*   pump, read, word              the reader: chunks read, how the source ended
    \*   given, taken                  items handed over, items the body has
    \*   failure, delivered, boom      how the body ended
    \*   late                          the body never ran
    \*   short                         the read after the caller left was cut short
    \*   acct                          what was reported to the accounting
    \*   resolved, resolves            the reservation, and how often it was resolved
    \*   row, rows                     the audit row, and how many were written
    req,
    drainOn,    \* the setting
    held,       \* Drains: the requests it counts
    server,     \* [phase, cancelled, expired, waited]
    faults

vars == <<req, drainOn, held, server, faults>>

-----------------------------------------------------------------------------
(* The chain: candidates in order, until one has produced a chunk *)

Decided(r) == req[r].answered # None \/ req[r].at > Models

Looking(r) ==
    /\ req[r].stage \notin {"done", "dropped", "killed"}
    /\ req[r].pump # "closed"
    /\ ~Decided(r)

\* _closed: the response of the candidate at hand is handed back.
Released(r) == req[r].conn \ {req[r].at}

\* No provider, not permitted, not fitting, not addressable, not sayable.
Skip(r) ==
    /\ Looking(r) /\ ~req[r].asked
    /\ req' = [req EXCEPT ![r].at = @ + 1]
    /\ UNCHANGED <<drainOn, held, server, faults>>

Ask(r) ==
    /\ Looking(r) /\ ~req[r].asked
    /\ req' = [req EXCEPT ![r] = [@ EXCEPT !.asked = TRUE, !.conn = req[r].conn \cup {req[r].at}]]
    /\ UNCHANGED <<drainOn, held, server, faults>>

\* It failed before its first chunk: the next one is asked.
PassOver(r) ==
    /\ Looking(r) /\ req[r].asked
    /\ \E kind \in {"status", "cut"} :
          req' = [req EXCEPT ![r] = [@ EXCEPT !.at = req[r].at + 1, !.asked = FALSE, !.last = kind,
                                              !.conn = Released(r)]]
    /\ UNCHANGED <<drainOn, held, server, faults>>

\* Its first chunk, or an answer of no chunk at all.
Answer(r) ==
    /\ Looking(r) /\ req[r].asked
    /\ req' = [req EXCEPT ![r] =
          [@ EXCEPT !.answered = req[r].at,
                    !.conn = IF req[r].script = <<>> THEN Released(r) ELSE req[r].conn]]
    /\ UNCHANGED <<drainOn, held, server, faults>>

\* The error of a chain without an answer.
Exhausted(r) == IF req[r].last = None THEN "refused" ELSE req[r].last

-----------------------------------------------------------------------------
(* The response begins: Opening.within *)

\* With a stream, or undecided after a keepalive's silence.
Respond(r) ==
    /\ req[r].stage = "opening"
    /\ Decided(r) => req[r].answered # None
    /\ req' = [req EXCEPT ![r] = [@ EXCEPT !.stage = "starting", !.within = Decided(r)]]
    /\ UNCHANGED <<drainOn, held, server, faults>>

\* With a refusal that is still a status: the reservation is given back and the
\* row says what was refused.
Refuse(r) ==
    /\ req[r].stage = "opening"
    /\ Decided(r) /\ req[r].answered = None
    /\ req' = [req EXCEPT ![r] = [@ EXCEPT !.stage = "done", !.resolved = "released",
                                           !.resolves = req[r].resolves + 1, !.rows = req[r].rows + 1,
                                           !.row = [status |-> Exhausted(r), usage |-> None,
                                                    basis |-> None, text |-> 0]]]
    /\ UNCHANGED <<drainOn, held, server, faults>>

\* The headers are sent.
Begin(r) ==
    /\ req[r].stage = "starting"
    /\ req' = [req EXCEPT ![r].stage = "waiting"]
    /\ UNCHANGED <<drainOn, held, server, faults>>

-----------------------------------------------------------------------------
(* The pump, and the reader of with_pings between it and the body *)

Items(r) == req[r].read + (IF req[r].word = None THEN 0 ELSE 1)
Finished(r) == req[r].word # None /\ req[r].given = Items(r)

\* Mutant of Reading: the queue is as long as the answer.
ReadingAhead(r) ==
    /\ req[r].pump = "on"
    /\ req[r].stage # "killed"
    /\ req[r].word = None

\* One item in the queue, one in the reader's hand.
Reading(r) ==
    /\ req[r].pump = "on"
    /\ req[r].stage # "killed"
    /\ req[r].word = None
    /\ req[r].read - req[r].given < 2

Read(r) ==
    /\ Reading(r)
    /\ req[r].answered # None
    /\ req[r].read < Len(req[r].script)
    /\ req' = [req EXCEPT ![r].read = @ + 1]
    /\ UNCHANGED <<drainOn, held, server, faults>>

\* The source is over: at its end, or broken off, or refused by the chain.
LastWord(r) ==
    /\ Reading(r)
    /\ Decided(r)
    /\ \E word \in {"end", "status", "cut", "bug"} :
          /\ req[r].answered = None => word = "end"
          /\ word = "end" => (req[r].answered # None => req[r].read = Len(req[r].script))
          /\ req' = [req EXCEPT
                ![r] = [@ EXCEPT !.word = IF req[r].answered = None THEN Exhausted(r) ELSE word,
                                 !.conn = Released(r)]]
    /\ UNCHANGED <<drainOn, held, server, faults>>

\* Handed to the reader of with_pings: one in its queue, one in its hand.
Fetch(r) ==
    /\ req[r].stage \in {"waiting", "sending"}
    /\ req[r].given - req[r].taken < 2
    /\ req[r].given < Items(r)
    /\ req' = [req EXCEPT ![r].given = @ + 1]
    /\ UNCHANGED <<drainOn, held, server, faults>>

-----------------------------------------------------------------------------
(* The body *)

\* The first read starts the pump.
Wake(r) ==
    /\ req[r].stage = "waiting"
    /\ req[r].pump = "idle"
    /\ req' = [req EXCEPT ![r].pump = "on"]
    /\ UNCHANGED <<drainOn, held, server, faults>>

Waits(r) == req[r].stage = "waiting" /\ req[r].taken < req[r].given

\* A chunk: sent on, or nothing of it is (KIRA sends no event without text).
Take(r) ==
    /\ Waits(r)
    /\ req[r].taken < req[r].read
    /\ \E s \in {"waiting", "sending"} :
          req' = [req EXCEPT ![r] = [@ EXCEPT !.taken = req[r].taken + 1, !.stage = s]]
    /\ UNCHANGED <<drainOn, held, server, faults>>

Sent(r) ==
    /\ req[r].stage = "sending"
    /\ req' = [req EXCEPT ![r].stage = "waiting"]
    /\ UNCHANGED <<drainOn, held, server, faults>>

\* The end.  KIRA withholds its terminal event from half a document, says
\* delivered() just before that event and after the calls'; Gemini after it.
TakeEnd(r) ==
    /\ Waits(r)
    /\ req[r].taken = req[r].read /\ req[r].word = "end"
    /\ \/ /\ req[r].surface = "kira"
          /\ req' = [req EXCEPT ![r] = [@ EXCEPT !.failure = "withheld", !.stage = "over"]]
       \/ \E d \in BOOLEAN :
             /\ d => req[r].surface = "kira"
             /\ req' = [req EXCEPT ![r] = [@ EXCEPT !.delivered = d, !.stage = "last"]]
    /\ UNCHANGED <<drainOn, held, server, faults>>

\* The failure.  KIRA stops; Gemini sends it as the last element.
TakeFailure(r) ==
    /\ Waits(r)
    /\ req[r].taken = req[r].read /\ req[r].word \in {"status", "cut", "refused"}
    /\ req' = [req EXCEPT
          ![r] = [@ EXCEPT !.failure = req[r].word,
                           !.stage = IF req[r].surface = "kira" THEN "over" ELSE "last"]]
    /\ UNCHANGED <<drainOn, held, server, faults>>

\* A failure no surface renders leaves the body as it is.
TakeBug(r) ==
    /\ Waits(r)
    /\ req[r].taken = req[r].read /\ req[r].word = "bug"
    /\ req' = [req EXCEPT ![r] = [@ EXCEPT !.boom = TRUE, !.stage = "over"]]
    /\ UNCHANGED <<drainOn, held, server, faults>>

SentLast(r) ==
    /\ req[r].stage = "last"
    /\ req' = [req EXCEPT ![r] = [@ EXCEPT !.delivered = TRUE, !.stage = "over"]]
    /\ UNCHANGED <<drainOn, held, server, faults>>

\* The connection goes: cancelled in an await, closed at a yield, or before the
\* body began.
Leave(r) ==
    /\ req[r].stage \in {"starting", "waiting", "sending", "last"}
    /\ req' = [req EXCEPT
          ![r].stage = IF @ = "starting" THEN "unstarted" ELSE "over"]
    /\ UNCHANGED <<drainOn, held, server, faults>>

-----------------------------------------------------------------------------
(* StreamAccounting.accounted, and never_started *)

CallerLeft(r) == ~req[r].delivered /\ req[r].failure = None /\ ~Finished(r)

Drains(r) ==
    /\ held' = held \cup {r}
    /\ req' = [req EXCEPT ![r] = [@ EXCEPT !.stage = "draining",
                                           !.late = (req[r].stage # "over"),
                                           !.pump = IF drainOn /\ req[r].pump = "idle" THEN "on" ELSE req[r].pump]]

\* The body's `finally`.
Over(r) ==
    /\ req[r].stage = "over"
    /\ IF CallerLeft(r) THEN Drains(r)
       ELSE req' = [req EXCEPT ![r].stage = "reporting"] /\ held' = held
    /\ UNCHANGED <<drainOn, server, faults>>

DrainTake(r) ==
    /\ req[r].stage = "draining" /\ drainOn
    /\ req[r].given < Items(r)
    /\ req' = [req EXCEPT ![r].given = @ + 1]
    /\ UNCHANGED <<drainOn, held, server, faults>>

\* Mutant of CutShort: the setting bounds nothing.
NeverCutShort == ~drainOn

\* Off, out of time (at any moment), or the server stops.
CutShort == TRUE

DrainEnds(r) ==
    /\ req[r].stage = "draining"
    /\ Finished(r) \/ CutShort
    /\ req' = [req EXCEPT ![r] = [@ EXCEPT !.stage = "reporting", !.short = ~Finished(r)]]
    /\ UNCHANGED <<drainOn, held, server, faults>>

\* Every chunk is shown to the accounting as it is read.
Observed(r) == req[r].read

Usage(r) == LastReport(req[r].script, Observed(r))
FinishSeen(r) == \E k \in 1 .. Observed(r) : req[r].script[k].finish

\* _opened: the accounting knows who answered.
Known(r) ==
    /\ req[r].answered # None
    /\ req[r].within \/ req[r].read > 0 \/ req[r].word # None

Basis(r) == IF FinishSeen(r) THEN None ELSE "partial"

\* What is reported where the vendor reported a usage, and where it did not.
Spent(r, status) ==
    [usage |-> Usage(r), produced |-> TRUE, unreported |-> FALSE,
     basis |-> Basis(r), status |-> status]
Unreported(r, status, countable) ==
    [usage |-> None, produced |-> FALSE, unreported |-> countable /\ Known(r),
     basis |-> None, status |-> status]

FailureReport(r) ==
    IF Usage(r) # None THEN Spent(r, req[r].failure)
    ELSE Unreported(r, req[r].failure, req[r].failure = "cut")
ServedReport(r) == [Spent(r, "served") EXCEPT !.basis = None]
LeftReport(r) ==
    LET status == IF req[r].boom THEN "error" ELSE "left"
    IN IF Usage(r) # None THEN Spent(r, status) ELSE Unreported(r, status, TRUE)

\* Mutant of Ending: delivered() has the last word.
DeliveredFirst(r) ==
    IF req[r].delivered /\ ~req[r].late THEN ServedReport(r)
    ELSE IF req[r].failure # None /\ ~req[r].late THEN FailureReport(r)
    ELSE LeftReport(r)

Ending(r) ==
    IF req[r].failure # None /\ ~req[r].late THEN FailureReport(r)
    ELSE IF req[r].delivered /\ ~req[r].late THEN ServedReport(r)
    ELSE LeftReport(r)

\* Mutant of StillHeld: a request counts as long as it reads.
HeldWhileReading(r) == held \ {r}

\* A request counts until its row is written.
StillHeld(r) == held

Report(r) ==
    /\ req[r].stage = "reporting"
    /\ req' = [req EXCEPT
          ![r] = [@ EXCEPT !.acct = Ending(r),
                           !.stage = IF req[r].late THEN "settling" ELSE "closing"]]
    /\ held' = StillHeld(r)
    /\ UNCHANGED <<drainOn, server, faults>>

\* Pump.aclose, and with it Opening.aclose.
Close(r) ==
    /\ req[r].stage = "closing"
    /\ req' = [req EXCEPT ![r] = [@ EXCEPT !.pump = "closed", !.conn = Released(r),
                                           !.stage = IF req[r].late THEN "done" ELSE "settling"]]
    /\ held' = IF req[r].late THEN held \ {r} ELSE held
    /\ UNCHANGED <<drainOn, server, faults>>

-----------------------------------------------------------------------------
(* The exit: settle or release, then the row; _settle_and_record in hold *)

Resolve(r, how, acct) ==
    [req EXCEPT ![r] = [@ EXCEPT !.acct = acct, !.resolved = how, !.resolves = req[r].resolves + 1,
                                 !.stage = "recording"]]

\* Nothing produced, after a count where there was one to take.
Release(r) ==
    /\ req[r].stage = "settling"
    /\ ~req[r].acct.produced
    /\ req' = Resolve(r, "released", req[r].acct)
    /\ UNCHANGED <<drainOn, held, server, faults>>

Settle(r) ==
    /\ req[r].stage = "settling"
    /\ req[r].acct.produced
    /\ req' = Resolve(r, "settled", req[r].acct)
    /\ UNCHANGED <<drainOn, held, server, faults>>

\* The vendor counted what it had received and sent.
SettleCounted(r) ==
    /\ req[r].stage = "settling"
    /\ ~req[r].acct.produced /\ req[r].acct.unreported
    /\ req' = Resolve(r, "settled", [req[r].acct EXCEPT
                  !.usage = Counted, !.basis = "counted", !.produced = TRUE])
    /\ UNCHANGED <<drainOn, held, server, faults>>

\* The price cannot be had: logged, and the row is written all the same.
SettleFails(r) ==
    /\ req[r].stage = "settling"
    /\ req[r].acct.produced
    /\ faults < MaxFaults
    /\ faults' = faults + 1
    /\ req' = [req EXCEPT ![r].stage = "recording"]
    /\ UNCHANGED <<drainOn, held, server>>

\* Mutant of Unresolved: `hold` does not see what the exit has done.
UnresolvedAlways(r) == TRUE

Unresolved(r) == req[r].resolved = None

\* The row; then `hold` gives back what is unresolved, and Drains lets go.
Record(r) ==
    /\ req[r].stage = "recording"
    /\ req' = [req EXCEPT
          ![r] = [@ EXCEPT !.row = [status |-> req[r].acct.status, usage |-> req[r].acct.usage,
                                    basis |-> req[r].acct.basis, text |-> req[r].taken],
                           !.rows = req[r].rows + 1,
                           !.resolved = IF Unresolved(r) THEN "released" ELSE req[r].resolved,
                           !.resolves = IF Unresolved(r) THEN req[r].resolves + 1 ELSE req[r].resolves,
                           !.stage = IF req[r].late THEN "closing" ELSE "ended"]]
    /\ held' = IF req[r].late THEN held ELSE held \ {r}
    /\ UNCHANGED <<drainOn, server, faults>>

\* AGEN_CREATED.
NeverStarted(r) == req[r].stage = "unstarted"

\* AccountedStream._wind_up.
WindUp(r) ==
    /\ req[r].stage \in {"unstarted", "ended"}
    /\ IF NeverStarted(r) THEN Drains(r)
       ELSE req' = [req EXCEPT ![r].stage = "done"] /\ held' = held
    /\ UNCHANGED <<drainOn, server, faults>>

-----------------------------------------------------------------------------
(* The server stops: uvicorn's grace, then the application's shutdown *)

Unfinished == {r \in Requests : req[r].stage \notin {"done", "dropped", "killed"}}

Stop ==
    /\ server.phase = "up"
    /\ server' = [server EXCEPT !.phase = "grace"]
    /\ UNCHANGED <<req, drainOn, held, faults>>

\* Past --timeout-graceful-shutdown the tasks that still run are cancelled.
GraceEnds ==
    /\ server.phase = "grace"
    /\ server' = [server EXCEPT !.phase = "lifespan", !.cancelled = Unfinished]
    /\ UNCHANGED <<req, drainOn, held, faults>>

\* Drains.stop sets the signal and waits for the requests it counts.
StopDrains ==
    /\ server.phase = "lifespan"
    /\ server' = [server EXCEPT !.phase = "waiting", !.waited = held]
    /\ UNCHANGED <<req, drainOn, held, faults>>

\* None left, or DRAINS_STOP_SECONDS have passed: the writer drains and closes.
CloseWriter ==
    /\ server.phase = "waiting"
    /\ server' = [server EXCEPT !.phase = "closed", !.expired = (held # {})]
    /\ UNCHANGED <<req, drainOn, held, faults>>

\* The process ends.
Exit ==
    /\ server.phase = "closed"
    /\ server' = [server EXCEPT !.phase = "gone"]
    /\ req' = [r \in Requests |->
          IF r \in Unfinished THEN [req[r] EXCEPT !.stage = "killed"] ELSE req[r]]
    /\ UNCHANGED <<drainOn, held, faults>>

\* A cancelled request that had no response yet stops its chain, and that is all.
Drop(r) ==
    /\ r \in server.cancelled
    /\ req[r].stage = "opening"
    /\ req' = [req EXCEPT ![r] = [@ EXCEPT !.stage = "dropped", !.pump = "closed",
                                           !.conn = Released(r)]]
    /\ UNCHANGED <<drainOn, held, server, faults>>

-----------------------------------------------------------------------------

Fresh(surface, script) ==
    [surface |-> surface, script |-> script, at |-> 1, asked |-> FALSE, last |-> None,
     answered |-> None, conn |-> {}, stage |-> "opening", within |-> FALSE,
     pump |-> "idle", read |-> 0, word |-> None, given |-> 0, taken |-> 0,
     failure |-> None, delivered |-> FALSE, boom |-> FALSE, late |-> FALSE,
     short |-> FALSE, acct |-> None, resolved |-> None, resolves |-> 0,
     row |-> None, rows |-> 0]

Init ==
    /\ req \in [Requests -> {Fresh(x, s) : x \in Surfaces, s \in Scripts}]
    /\ drainOn \in DrainLeft
    /\ held = {}
    /\ server = [phase |-> "up", cancelled |-> {}, expired |-> FALSE, waited |-> {}]
    /\ faults = 0

Chain(r) == Skip(r) \/ Ask(r) \/ PassOver(r) \/ Answer(r)
Upstream(r) == Read(r) \/ LastWord(r)
Body(r) ==
    \/ Respond(r) \/ Refuse(r) \/ Begin(r) \/ Wake(r) \/ Fetch(r)
    \/ Take(r) \/ TakeEnd(r) \/ TakeFailure(r) \/ TakeBug(r) \/ Sent(r) \/ SentLast(r)
Accounting(r) ==
    \/ Over(r) \/ DrainTake(r) \/ DrainEnds(r) \/ Report(r) \/ Close(r)
    \/ Release(r) \/ Settle(r) \/ SettleCounted(r) \/ SettleFails(r)
    \/ Record(r) \/ WindUp(r)
Server == Stop \/ GraceEnds \/ StopDrains \/ CloseWriter \/ Exit

Next ==
    \/ \E r \in Requests :
          Chain(r) \/ Upstream(r) \/ Body(r) \/ Leave(r) \/ Accounting(r) \/ Drop(r)
    \/ Server

\* The vendor owes nothing: it may be silent for good.  The caller may stay.  What
\* this gateway does itself it does in the end: its timers fire, its steps run.
Fairness == \A r \in Requests : WF_vars(Accounting(r))

Spec == Init /\ [][Next]_vars /\ Fairness

-----------------------------------------------------------------------------
(* Properties *)

Stages == {"opening", "starting", "waiting", "sending", "last", "over", "unstarted",
           "draining", "reporting", "closing", "settling", "recording", "ended",
           "done", "dropped", "killed"}
Words == {"end", "status", "cut", "bug", "refused"}
Phases == {"up", "grace", "lifespan", "waiting", "closed", "gone"}
Figures == {Counted, None} \cup UNION {{LastReport(s, k) : k \in 0 .. Len(s)} : s \in Scripts}
Reported == [usage: Figures, produced: BOOLEAN, unreported: BOOLEAN,
             basis: Bases \cup {None}, status: Statuses]
Rows == [status: Statuses, usage: Figures, basis: Bases \cup {None}, text: Nat]
Shapes ==
    [surface: Surfaces, script: Scripts, at: 1 .. Models + 1, asked: BOOLEAN,
     last: {"status", "cut", None}, answered: (1 .. Models) \cup {None},
     conn: SUBSET (1 .. Models), stage: Stages, within: BOOLEAN,
     pump: {"idle", "on", "closed"}, read: Nat, word: Words \cup {None},
     given: Nat, taken: Nat,
     failure: {"refused", "status", "cut", "withheld", None}, delivered: BOOLEAN,
     boom: BOOLEAN, late: BOOLEAN, short: BOOLEAN, acct: Reported \cup {None},
     resolved: {"settled", "released", None}, resolves: Nat,
     row: Rows \cup {None}, rows: Nat]

\* The shape of the state, and what bounds the memory of a slow caller (pump.py):
\* the reader is never more than two items ahead, one in the queue and one in
\* its hand.
TypeOK ==
    /\ drainOn \in BOOLEAN
    /\ held \subseteq Requests
    /\ faults \in 0 .. MaxFaults
    /\ server \in [phase: Phases, cancelled: SUBSET Requests, expired: BOOLEAN,
                   waited: SUBSET Requests]
    /\ req \in [Requests -> Shapes]
    /\ \A r \in Requests :
          LET q == req[r]
          IN /\ q.read <= Len(q.script)
             /\ Items(r) - q.given \in 0 .. 2
             /\ (r \in held) => q.stage \in
                    {"draining", "reporting", "closing", "settling", "recording",
                     "killed"}

\* One resolution, one row, and nothing of the row's usage given back unless the
\* booking itself failed.
ResolvedOnce(r) ==
    /\ req[r].resolves <= 1 /\ req[r].rows <= 1
    /\ req[r].stage = "done" => req[r].resolves = 1 /\ req[r].rows = 1
NothingBilledIsReleased(r) ==
    (req[r].row # None /\ req[r].resolved = "released" /\ faults = 0)
        => req[r].row.usage = None

\* A connection left open is held out of its adapter's pool.
NothingLeftOpen(r) == req[r].stage \in {"done", "dropped"} => req[r].conn = {}

\* "However its connection ends" (streaming.py): whoever ends the stream, at
\* whatever point, and whatever became of the booking, the reservation was
\* resolved once and rightly, one row was written, and no response of any
\* candidate outlives its request.
AccountedOnce ==
    \A r \in Requests :
        ResolvedOnce(r) /\ NothingBilledIsReleased(r) /\ NothingLeftOpen(r)

Final(r) == LastReport(req[r].script, Len(req[r].script))

\* A figure not called partial or counted is the vendor's last word
\* (`UsageBasis`), although the reader runs ahead of the body, behind the
\* vendor, and on after the report.
NoFloorPassesForTheWhole(r) ==
    (req[r].row.usage # None /\ req[r].row.basis = None)
        => req[r].row.usage = Final(r)

\* Where the caller left and the stream was read to its end, the row carries the
\* vendor's own final figure (ADR-0041).
HangingUpIsNotFree(r) ==
    (/\ req[r].row.status = "left"
     /\ ~req[r].short /\ req[r].word = "end" /\ Final(r) # None)
        => req[r].row.usage = Final(r)

\* A row that says the answer was served keeps the whole of it.
ServedIsWhole(r) ==
    req[r].row.status = "served"
        => req[r].word = "end" /\ req[r].row.text = Len(req[r].script)

\* What a row says of the answer is so, by whichever of the racing ends it came
\* about (accounted, _report): its figure, the basis of that figure, its text.
RowIsTrue ==
    \A r \in Requests : req[r].row # None =>
        NoFloorPassesForTheWhole(r) /\ HangingUpIsNotFree(r) /\ ServedIsWhole(r)

\* "Held from the drain until the row is written" (accounted): a request
\* Drains.stop has counted has its row before the writer closes, unless the
\* limit passed.
CountedIsWaitedFor ==
    (server.phase = "closed" /\ ~server.expired) =>
        \A r \in server.waited : req[r].rows = 1

\* A stream its caller has left is accounted for in the end, whatever the vendor
\* does: it may say nothing more for good.
LeftIsAccountedFor ==
    \A r \in Requests :
        req[r].stage \in {"over", "unstarted"} ~> req[r].stage \in {"done", "killed"}
=============================================================================
