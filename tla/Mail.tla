-------------------------------- MODULE Mail --------------------------------
(***************************************************************************)
(* The mail notifier of the gateway (mail/notifier.py): every instance     *)
(* wakes once a minute, one of them holds the round's advisory lock, owes  *)
(* a notice for every budget counter past a threshold of its use case and  *)
(* for every new finding of the anomaly rules, and sends what is owed.     *)
(* Each notice is committed as it is settled, and a round may crash        *)
(* between any two of its steps.                                           *)
(*                                                                         *)
(* One use case, with its settings, its counters and its findings.  The    *)
(* row of the use case is read once per round: the session keeps it until  *)
(* it is closed (`expire_on_commit=False`), so a later `session.get` finds *)
(* the same object.  Counters and budgets are read again.                  *)
(***************************************************************************)
EXTENDS Integers, Sequences

CONSTANTS
    Notifiers,     \* the gateway instances
    Counters,      \* the budget counters: the shared pot's, each member's
    Thresholds,    \* the shares a use case may ask to be told of
    MaxShare,      \* the largest share a counter reaches
    Findings,      \* the findings of the anomaly rules
    Reach,         \* Reach[c]: who a mail about counter c goes to, in order
    Admins,        \* who a mail about findings goes to, in order
    MaxAttempts,   \* MAX_ATTEMPTS
    Lookback,      \* ANOMALY_LOOKBACK
    News,          \* ANOMALY_NEWS
    Keep,          \* KEEP_NOTICES
    PeriodLength,  \* the length of a budget's period
    MaxClock,      \* bound: the clock
    MaxChanges,    \* bound: changes of the facts
    MaxCrashes,    \* bound: rounds cut short
    None

Listed(list) == {list[k] : k \in DOMAIN list}
People == Listed(Admins) \cup UNION {Listed(Reach[c]) : c \in Counters}
Periods == 0 .. (MaxClock \div PeriodLength)
BudgetNotices == [kind: {"budget"}, counter: Counters, period: Periods,
                  threshold: Thresholds]
FindingNotices == [kind: {"anomaly"}, finding: Findings]
Notices == BudgetNotices \cup FindingNotices
\* A retired use case asks for nothing.
Retired == [live |-> FALSE, thresholds |-> {}, anomalies |-> FALSE]
Settings == [live: {TRUE}, thresholds: SUBSET Thresholds, anomalies: BOOLEAN]
            \cup {Retired}

Outcomes == {"owed", "sent", "superseded", "no_recipient", "failed", "expired"}
Records == [outcome: Outcomes, attempts: 0 .. MaxAttempts, expires: Nat]

\* of_administrators keeps the recipients by their names.
NamesOnce(list) ==
    /\ list \in Seq(People)
    /\ \A k, l \in DOMAIN list : list[k] = list[l] => k = l

ASSUME MailAssumption ==
    /\ Thresholds \subseteq Nat \ {0}
    /\ MaxAttempts \in Nat \ {0}
    /\ PeriodLength \in Nat \ {0}
    /\ Lookback \in Nat /\ News \in Nat /\ Keep \in Nat
    /\ Lookback <= News + Keep
    /\ MaxShare \in Nat /\ MaxClock \in Nat /\ MaxChanges \in Nat /\ MaxCrashes \in Nat
    /\ NamesOnce(Admins) /\ \A c \in Counters : NamesOnce(Reach[c])
    /\ None \notin Nat /\ None \notin Notifiers /\ None \notin Records /\ None \notin Settings

VARIABLES
    clock,
    \* The facts of Postgres.
    settings,   \* the use case: its row in the read model
    share,      \* share[c][p]: used * 100 / limit
    found,      \* found[f]: when finding f was recorded, or None
    notice,     \* mail_notices: [outcome, attempts, expires], or None
    lock,       \* the holder of TICK_LOCK_KEY
    \* The rounds.
    round,      \* [pc, moment, began, view, todo, batch, unsent]; `began`, the
                \* changes made when the round began, is for the properties only
    \* The world.
    copies,     \* copies[n][who]: the mails the relay took
    changes, crashes

facts == <<settings, share, found>>
vars == <<clock, facts, notice, lock, round, copies, changes, crashes>>

Period == clock \div PeriodLength

-----------------------------------------------------------------------------
(* A notice *)

New(outcome, expires) ==
    [outcome |-> outcome, attempts |-> 0, expires |-> expires]

\* The instant a period ends.
PeriodEnds(p) == (p + 1) * PeriodLength

Budget(c, p, t) ==
    [kind |-> "budget", counter |-> c, period |-> p, threshold |-> t]

\* The thresholds of a counter a notice exists for.
Recorded(c, p) == {t \in Thresholds : notice[Budget(c, p, t)] # None}

Fresh(c, p, view) ==
    {t \in view.thresholds : share[c][p] >= t} \ Recorded(c, p)

\* A mail for the highest only, and only above all that are recorded.
Mailed(c, p, view, t) ==
    /\ \A x \in Fresh(c, p, view) : x <= t
    /\ \A x \in Recorded(c, p) : x < t

\* _owe_budget_mail and _owe_anomaly_mail, for the settings a round has read.
Owing(n, view, moment) ==
    IF n.kind = "budget"
    THEN LET p == moment \div PeriodLength
         IN IF view.live /\ n.period = p /\ n.threshold \in Fresh(n.counter, p, view)
            THEN New(IF Mailed(n.counter, p, view, n.threshold) THEN "owed"
                     ELSE "superseded", PeriodEnds(p))
            ELSE notice[n]
    ELSE IF /\ view.live /\ view.anomalies
            /\ found[n.finding] # None
            /\ found[n.finding] >= moment - Lookback
            /\ notice[n] = None
         THEN New("owed", found[n.finding] + News)
         ELSE notice[n]

-----------------------------------------------------------------------------
(* One round *)

Off == [pc |-> "idle", moment |-> 0, began |-> 0, view |-> None, todo |-> {}, batch |-> {},
        unsent |-> <<>>]

\* pg_try_advisory_xact_lock: who does not get it has no round.
Claimable == lock = None

Claim(i) ==
    /\ round[i].pc = "idle"
    /\ Claimable
    /\ lock' = i
    /\ round' = [round EXCEPT ![i] = [Off EXCEPT !.pc = "owing", !.moment = clock,
                                           !.began = changes]]
    /\ UNCHANGED <<clock, facts, notice, copies, changes, crashes>>

\* Mutant of ToSend: what was sent is selected again.
ToSendAgain(notices) ==
    {n \in Notices : notices[n] # None /\ notices[n].outcome \in {"owed", "sent"}}

ToSend(notices) ==
    {n \in Notices : notices[n] # None /\ notices[n].outcome = "owed"}

\* What is owed is committed, then selected.
Owe(i) ==
    /\ round[i].pc = "owing"
    /\ notice' = [n \in Notices |-> Owing(n, settings, round[i].moment)]
    /\ round' = [round EXCEPT ![i] = [@ EXCEPT !.pc = "sending", !.view = settings,
                                               !.todo = ToSend(notice')]]
    /\ UNCHANGED <<clock, facts, lock, copies, changes, crashes>>

\* The use case as `session.get` returns it: the object of the round, unless
\* the round has not loaded it because it was retired.
UseCase(i) == IF round[i].view.live THEN round[i].view ELSE settings

\* Mutant of StillSaid: a mail owed is a mail sent.
AlwaysSaid(i, n) == TRUE

\* Still true, and asked for, when it is sent.
StillSaid(i, n) ==
    IF n.kind = "budget"
    THEN /\ UseCase(i).live
         /\ share[n.counter][n.period] >= n.threshold
         /\ n.threshold \in UseCase(i).thresholds
    ELSE UseCase(i).live /\ UseCase(i).anomalies

\* The notices one mail is about: a budget's own, or all findings together.
Batch(i, n) == IF n.kind = "budget" THEN {n} ELSE round[i].todo

Recipients(n) == IF n.kind = "budget" THEN Reach[n.counter] ELSE Admins

SetOutcome(S, outcome) ==
    notice' = [n \in Notices |->
        IF n \in S THEN [notice[n] EXCEPT !.outcome = outcome]
        ELSE notice[n]]

\* Mutant of Failing: one attempt too many.
FailingOnceMore(n) ==
    [notice[n] EXCEPT
        !.attempts = @ + 1,
        !.outcome = IF notice[n].attempts >= MaxAttempts THEN "failed" ELSE @]

Failing(n) ==
    [notice[n] EXCEPT
        !.attempts = @ + 1,
        !.outcome = IF notice[n].attempts + 1 >= MaxAttempts THEN "failed" ELSE @]

SetFailed(S) ==
    notice' = [n \in Notices |->
        IF n \in S THEN Failing(n) ELSE notice[n]]

\* The round is done with S.
Settles(i, S) ==
    round' = [round EXCEPT ![i] = [@ EXCEPT !.pc = "sending", !.todo = round[i].todo \ S,
                                            !.batch = {}, !.unsent = <<>>]]

Late(i, n) == notice[n].expires <= round[i].moment

\* What is gathered into one mail at the end of the round.
Gathered(i, n) == n.kind = "anomaly" /\ ~Late(i, n)

\* The next notice of a round.
Turn(i, n) ==
    /\ round[i].pc = "sending"
    /\ n \in round[i].todo
    /\ Gathered(i, n) => \A m \in round[i].todo : Gathered(i, m)

\* A notice that is not mailed after all.
Drop(i, n) ==
    /\ Turn(i, n)
    /\ \/ Late(i, n) /\ SetOutcome({n}, "expired") /\ Settles(i, {n})
       \/ /\ ~Late(i, n)
          /\ ~StillSaid(i, n)
          /\ SetOutcome(Batch(i, n), "superseded")
          /\ Settles(i, Batch(i, n))
       \/ /\ ~Late(i, n)
          /\ StillSaid(i, n)       \* and nobody has an address now
          /\ SetOutcome(Batch(i, n), "no_recipient")
          /\ Settles(i, Batch(i, n))
    /\ UNCHANGED <<clock, facts, lock, copies, changes, crashes>>

\* The directory cannot be asked: an attempt like any other.
Unasked(i, n) ==
    /\ Turn(i, n)
    /\ ~Late(i, n) /\ StillSaid(i, n)
    /\ SetFailed(Batch(i, n))
    /\ Settles(i, Batch(i, n))
    /\ UNCHANGED <<clock, facts, lock, copies, changes, crashes>>

\* The recipients are known.
Compose(i, n) ==
    /\ Turn(i, n)
    /\ ~Late(i, n) /\ StillSaid(i, n)
    /\ round' = [round EXCEPT ![i] = [@ EXCEPT !.pc = "mailing", !.batch = Batch(i, n),
                                               !.unsent = Recipients(n)]]
    /\ UNCHANGED <<clock, facts, notice, lock, copies, changes, crashes>>

\* Mutant of AllSent: the first recipient speaks for all.
SomeSent(i) == Len(round[i].unsent) < 2

AllSent(i) == round[i].unsent = <<>>

Mail(i) ==
    copies' = [n \in Notices |->
        IF n \in round[i].batch
        THEN [copies[n] EXCEPT ![Head(round[i].unsent)] = @ + 1]
        ELSE copies[n]]

\* _deliver, one recipient after the other.
Send(i) ==
    /\ round[i].pc = "mailing"
    /\ ~AllSent(i)
    /\ Mail(i)
    /\ round' = [round EXCEPT ![i].unsent = Tail(@)]
    /\ UNCHANGED <<clock, facts, notice, lock, changes, crashes>>

\* The relay refuses, or cannot be reached: the loop ends there.
Refuse(i) ==
    /\ round[i].pc = "mailing"
    /\ ~AllSent(i)
    /\ SetFailed(round[i].batch)
    /\ Settles(i, round[i].batch)
    /\ UNCHANGED <<clock, facts, lock, copies, changes, crashes>>

\* The relay took the mail and its answer is lost.
Lost(i) ==
    /\ round[i].pc = "mailing"
    /\ ~AllSent(i)
    /\ Mail(i)
    /\ SetFailed(round[i].batch)
    /\ Settles(i, round[i].batch)
    /\ UNCHANGED <<clock, facts, lock, changes, crashes>>

Sent(i) ==
    /\ round[i].pc = "mailing"
    /\ AllSent(i)
    /\ SetOutcome(round[i].batch, "sent")
    /\ Settles(i, round[i].batch)
    /\ UNCHANGED <<clock, facts, lock, copies, changes, crashes>>

\* Mutant of Released: the lock outlives its session.
NeverReleased(i) == lock

Released(i) == IF lock = i THEN None ELSE lock

\* Old notices are forgotten, and the lock ends with its session.
Close(i) ==
    /\ round[i].pc = "sending"
    /\ round[i].todo = {}
    /\ notice' = [n \in Notices |->
            IF notice[n] # None /\ notice[n].expires < round[i].moment - Keep
            THEN None ELSE notice[n]]
    /\ round' = [round EXCEPT ![i] = Off]
    /\ lock' = Released(i)
    /\ UNCHANGED <<clock, facts, copies, changes, crashes>>

-----------------------------------------------------------------------------
(* The environment *)

\* The instance dies, or the round raises: what is not committed is lost.
Crash(i) ==
    /\ round[i].pc # "idle"
    /\ crashes < MaxCrashes
    /\ crashes' = crashes + 1
    /\ lock' = Released(i)
    /\ round' = [round EXCEPT ![i] = Off]
    /\ UNCHANGED <<clock, facts, notice, copies, changes>>

\* A counter grows, or its budget is raised, lifted or removed.
Spend(c) ==
    /\ changes < MaxChanges
    /\ changes' = changes + 1
    /\ \E x \in 0 .. MaxShare :
          /\ x # share[c][Period]
          /\ share' = [share EXCEPT ![c][Period] = x]
    /\ UNCHANGED <<clock, settings, found, notice, lock, round, copies, crashes>>

\* The use case is changed or retired.
Configure ==
    /\ settings.live
    /\ changes < MaxChanges
    /\ changes' = changes + 1
    /\ \E s \in Settings \ {settings} : settings' = s
    /\ UNCHANGED <<clock, share, found, notice, lock, round, copies, crashes>>

Find(f) ==
    /\ found[f] = None
    /\ changes < MaxChanges
    /\ changes' = changes + 1
    /\ found' = [found EXCEPT ![f] = clock]
    /\ UNCHANGED <<clock, settings, share, notice, lock, round, copies, crashes>>

Pass ==
    /\ clock < MaxClock
    /\ clock' = clock + 1
    /\ UNCHANGED <<facts, notice, lock, round, copies, changes, crashes>>

-----------------------------------------------------------------------------

Init ==
    /\ clock = 0
    /\ settings = [live |-> TRUE, thresholds |-> Thresholds, anomalies |-> TRUE]
    /\ share = [c \in Counters |-> [p \in Periods |-> 0]]
    /\ found = [f \in Findings |-> None]
    /\ notice = [n \in Notices |-> None]
    /\ lock = None
    /\ round = [i \in Notifiers |-> Off]
    /\ copies = [n \in Notices |-> [who \in People |-> 0]]
    /\ changes = 0
    /\ crashes = 0

Step(i) ==
    \/ Owe(i) \/ Send(i) \/ Refuse(i) \/ Lost(i) \/ Sent(i) \/ Close(i)
    \/ \E n \in Notices : Drop(i, n) \/ Unasked(i, n) \/ Compose(i, n)

Next ==
    \/ \E i \in Notifiers : Claim(i) \/ Step(i) \/ Crash(i)
    \/ \E c \in Counters : Spend(c)
    \/ \E f \in Findings : Find(f)
    \/ Configure
    \/ Pass

\* The loop of every instance goes on: each call of the relay and of the
\* directory ends (TIMEOUT_SECONDS), and the next round comes.
Fairness == \A i \in Notifiers : WF_vars(Step(i)) /\ WF_vars(Claim(i))

Spec == Init /\ [][Next]_vars /\ Fairness

-----------------------------------------------------------------------------
(* Properties *)

\* Every variable keeps its type: a notice is tried MAX_ATTEMPTS times and never
\* once more, whichever rounds and instances made the attempts (_failed).
TypeOK ==
    /\ clock \in Nat /\ changes \in Nat /\ crashes \in Nat
    /\ settings \in Settings
    /\ share \in [Counters -> [Periods -> 0 .. MaxShare]]
    /\ found \in [Findings -> Nat \cup {None}]
    /\ notice \in [Notices -> Records \cup {None}]
    /\ lock \in Notifiers \cup {None}
    /\ round \in [Notifiers ->
          [pc: {"idle", "owing", "sending", "mailing"}, moment: Nat, began: Nat,
           view: Settings \cup {None}, todo: SUBSET Notices, batch: SUBSET Notices,
           unsent: Seq(People)]]
    /\ \A i \in Notifiers : round[i].batch \subseteq round[i].todo
    /\ copies \in [Notices -> [People -> Nat]]

CopiesAreExplained(n) ==
    \A who \in People : copies[n][who] <= 1 + notice[n].attempts + crashes

SentReachedAll(n) ==
    notice[n].outcome = "sent" =>
        \A who \in Listed(Recipients(n)) : copies[n][who] >= 1

\* "One mail per counter, period and threshold, however many gateway instances
\* run and however often they restart" (FRD-409 FR-4), as far as it can be kept
\* with a relay that is sometimes lost: every further copy to a person is
\* explained by an attempt that failed or by a crash, and a notice that says it
\* was sent has reached every recipient, whatever attempts, crashes and
\* overlapping rounds came before.
DeliveredAsSaid ==
    \A n \in Notices :
        notice[n] # None => CopiesAreExplained(n) /\ SentReachedAll(n)

\* What a mail says is true, and its use case asks for it.
Wanted(n) ==
    /\ settings.live
    /\ IF n.kind = "budget"
       THEN /\ share[n.counter][n.period] >= n.threshold
            /\ n.threshold \in settings.thresholds
       ELSE settings.anomalies

\* What is owed is settled: sent, given up after its attempts, or dropped as
\* too late or no longer true, however rounds crash; and a crossing is noted.
OwedIsSettled ==
    \A n \in Notices :
        (notice[n] # None /\ notice[n].outcome = "owed")
            ~> (notice[n] = None \/ notice[n].outcome # "owed")

\* "No longer true, or no longer asked for, when it is sent ... so it is not
\* said" (_send_budget_mail): a mail owed by an earlier round, or tried in vain
\* by one, is not sent by a round that began after its budget was raised, its
\* threshold dropped or its use case retired.
NothingStaleIsSaid ==
    [][\A n \in Notices : copies'[n] # copies[n] =>
          \E i \in Notifiers :
             /\ n \in round[i].batch
             /\ round[i].began = changes => Wanted(n)]_vars
=============================================================================
