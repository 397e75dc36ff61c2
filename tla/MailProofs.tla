----------------------------- MODULE MailProofs -----------------------------
(***************************************************************************)
(* Proofs about Mail, for every value of its constants: how often a person *)
(* is mailed, what "sent" means, and that nothing stale is said.           *)
(***************************************************************************)
EXTENDS Mail, TLAPS

-----------------------------------------------------------------------------
(* The strengthening.  One round at a time owns the notices, by the lock;  *)
(* what it still has to settle is owed; and of a mail on its way, those    *)
(* who come before the rest of the list have a copy and the others have    *)
(* none that no failed attempt and no crash explains.                      *)

\* Who has a round has the lock.
Held == \A i \in Notifiers : round[i].pc # "idle" => lock = i

\* What is mailed is part of a round that mails, and only of such a one.
Shape(i) ==
    /\ round[i].moment <= clock /\ round[i].began <= changes
    /\ round[i].pc \in {"idle", "owing"} => round[i].todo = {}
    /\ round[i].pc # "mailing" => round[i].batch = {}
    /\ round[i].pc \in {"sending", "mailing"} => round[i].view # None

\* What a round has still to settle is owed, and was not tried too often.
Pending(n) == notice[n] # None /\ notice[n].outcome = "owed"
Due(i) == \A n \in round[i].todo : Pending(n)
Tries(n) == Pending(n) => notice[n].attempts < MaxAttempts

\* How far the list of recipients is.
Gone(i, n) == Len(Recipients(n)) - Len(round[i].unsent)
Told(i, n, who) == \E k \in 1 .. Gone(i, n) : Recipients(n)[k] = who

\* The unsent are the rest of the list of every notice of the mail.
Lists(i) ==
    round[i].pc = "mailing" =>
        \A n \in round[i].batch :
            /\ Gone(i, n) >= 0
            /\ \A k \in DOMAIN round[i].unsent :
                  round[i].unsent[k] = Recipients(n)[Gone(i, n) + k]

\* A notice is dated by what it is about.
Expiry(n) == IF n.kind = "budget" THEN PeriodEnds(n.period) ELSE found[n.finding] + News
Dated(n) ==
    /\ notice[n].expires = Expiry(n)
    /\ n.kind = "anomaly" => found[n.finding] # None

\* Too late to be owed, now and in a round.
Over(n) ==
    IF n.kind = "budget" THEN PeriodEnds(n.period) <= clock
    ELSE found[n.finding] # None /\ found[n.finding] + Lookback < clock
OverIn(i, n) ==
    IF n.kind = "budget" THEN PeriodEnds(n.period) <= round[i].moment
    ELSE found[n.finding] # None /\ found[n.finding] + Lookback < round[i].moment

\* A notice that was mailed and is forgotten is too late to be owed again.
Forgotten(n) ==
    /\ \E who \in People : copies[n][who] # 0
    /\ notice[n] = None
Buried(n) ==
    Forgotten(n) =>
        /\ Over(n)
        /\ \A i \in Notifiers : round[i].pc = "owing" => OverIn(i, n)

\* The copies of a notice, by attempts and crashes.
Explained(n) ==
    \A who \in People : copies[n][who] <= notice[n].attempts + crashes
InMail(n) == \E i \in Notifiers : round[i].pc = "mailing" /\ n \in round[i].batch
Counted(n) ==
    notice[n] # None =>
        /\ CopiesAreExplained(n) /\ SentReachedAll(n) /\ Dated(n)
        /\ notice[n].outcome # "sent" /\ ~InMail(n) => Explained(n)
Delivering(i) ==
    round[i].pc = "mailing" =>
        \A n \in round[i].batch, who \in People :
            IF Told(i, n, who) THEN copies[n][who] >= 1
            ELSE copies[n][who] <= notice[n].attempts + crashes

\* A round that has seen no change knows the settings, and mails what is wanted.
Current(i) ==
    round[i].began = changes =>
        /\ round[i].pc \in {"sending", "mailing"} => round[i].view = settings
        /\ \A n \in round[i].batch : Wanted(n)

Settled ==
    /\ TypeOK /\ Held
    /\ \A i \in Notifiers : Shape(i) /\ Due(i) /\ Lists(i) /\ Delivering(i) /\ Current(i)
    /\ \A n \in Notices : Tries(n) /\ Buried(n) /\ Counted(n)

-----------------------------------------------------------------------------
(* Types *)

RoundType ==
    [pc: {"idle", "owing", "sending", "mailing"}, moment: Nat, began: Nat,
     view: Settings \cup {None}, todo: SUBSET Notices, batch: SUBSET Notices,
     unsent: Seq(People)]

\* Nobody to mail.
LEMMA NoList == <<>> \in Seq(People) /\ {} \in SUBSET Notices
OBVIOUS

\* The constants that are numbers.
LEMMA Numbers ==
    /\ MaxAttempts \in Nat \ {0} /\ PeriodLength \in Nat \ {0}
    /\ Lookback \in Nat /\ News \in Nat /\ Keep \in Nat /\ Lookback <= News + Keep
    /\ None \notin Nat /\ None \notin Notifiers /\ None \notin Records /\ None \notin Settings
    /\ MaxClock \in Nat /\ MaxShare \in Nat
BY MailAssumption

\* A moment lies in its period.
LEMMA InPeriod ==
    ASSUME NEW m \in Nat
    PROVE  /\ m \div PeriodLength \in Nat
           /\ ~(PeriodEnds(m \div PeriodLength) <= m)
<1>1. \A b \in Nat : b > 0 => m \div b \in Nat
  OBVIOUS
<1>2. \A b \in Nat : b > 0 => ((m \div b) + 1) * b > m
  OBVIOUS
<1>3. \A b \in Nat : b > 0 => ((m \div b) + 1) * b \in Nat
  BY <1>1
<1>4. PeriodLength \in Nat /\ PeriodLength > 0
  BY Numbers
<1> DEFINE e == ((m \div PeriodLength) + 1) * PeriodLength
<1>5. e > m /\ e \in Nat
  BY <1>2, <1>3, <1>4
<1> HIDE DEF e
<1>6. ~(e <= m)
  BY <1>5
<1> QED BY <1>1, <1>4, <1>6 DEF e, PeriodEnds

\* What a notice is about.
LEMMA NoticeTypes ==
    ASSUME NEW n \in Notices
    PROVE  /\ n.kind \in {"budget", "anomaly"}
           /\ n.kind = "budget" =>
                 /\ n.counter \in Counters /\ n.period \in Nat /\ n.threshold \in Thresholds
                 /\ n = Budget(n.counter, n.period, n.threshold)
           /\ n.kind = "anomaly" => n.finding \in Findings
           /\ NamesOnce(Recipients(n)) /\ Listed(Recipients(n)) \subseteq People
<1>1. CASE n \in BudgetNotices
  <2>1. /\ n.kind = "budget" /\ n.counter \in Counters /\ n.threshold \in Thresholds
        /\ n.period \in Periods /\ n = Budget(n.counter, n.period, n.threshold)
    BY <1>1 DEF BudgetNotices, Budget
  <2>2. n.period \in Nat
    <3>1. MaxClock \div PeriodLength \in Nat
      BY Numbers, InPeriod
    <3> QED BY <2>1, <3>1 DEF Periods
  <2>3. NamesOnce(Reach[n.counter])
    BY <2>1, MailAssumption
  <2> QED BY <2>1, <2>2, <2>3 DEF Recipients, NamesOnce, Listed
<1>2. CASE n \in FindingNotices
  <2>1. n.kind = "anomaly" /\ n.finding \in Findings
    BY <1>2 DEF FindingNotices
  <2> QED BY <2>1, MailAssumption DEF Recipients, NamesOnce, Listed
<1> QED BY <1>1, <1>2 DEF Notices

\* The end of a period is a number.
LEMMA PeriodEndType == \A p \in Nat : PeriodEnds(p) \in Nat
BY Numbers DEF PeriodEnds

\* What a round owes: a notice that exists stays as it is; a new one is dated,
\* untried, and not too late for the round.
LEMMA OwedTypes ==
    ASSUME TypeOK, NEW n \in Notices, NEW i \in Notifiers
    PROVE  \/ Owing(n, settings, round[i].moment) = notice[n]
           \/ /\ notice[n] = None
              /\ ~OverIn(i, n)
              /\ n.kind = "anomaly" => found[n.finding] # None
              /\ Expiry(n) \in Nat
              /\ \E outcome \in {"owed", "superseded"} :
                    Owing(n, settings, round[i].moment) = New(outcome, Expiry(n))
<1> DEFINE moment == round[i].moment
<1>1. moment \in Nat
  BY DEF TypeOK
<1>2. CASE n.kind = "budget"
  <2> DEFINE p == moment \div PeriodLength
  <2>1. p \in Nat /\ ~(PeriodEnds(p) <= moment) /\ PeriodEnds(p) \in Nat
    BY <1>1, InPeriod, PeriodEndType
  <2>2. ASSUME n.period = p, n.threshold \in Fresh(n.counter, p, settings)
        PROVE  notice[n] = None
    <3>1. n.threshold \notin Recorded(n.counter, n.period)
      BY <2>2 DEF Fresh
    <3> QED BY <1>2, <3>1, NoticeTypes DEF Recorded
  <2> HIDE DEF p, moment
  <2>3. n.period = p => ~OverIn(i, n) /\ Expiry(n) = PeriodEnds(p)
    BY <1>2, <2>1 DEF OverIn, Expiry, moment
  <2>4. \/ Owing(n, settings, moment) = notice[n]
        \/ /\ n.period = p /\ n.threshold \in Fresh(n.counter, p, settings)
           /\ \E outcome \in {"owed", "superseded"} :
                 Owing(n, settings, moment) = New(outcome, PeriodEnds(p))
    BY <1>2 DEF Owing, p
  <2> QED BY <1>2, <2>1, <2>2, <2>3, <2>4 DEF moment
<1>3. CASE n.kind = "anomaly"
  <2>1. n.finding \in Findings /\ found[n.finding] \in Nat \cup {None}
    BY <1>3, NoticeTypes DEF TypeOK
  <2> HIDE DEF moment
  <2>2. \/ Owing(n, settings, moment) = notice[n]
        \/ /\ found[n.finding] # None /\ found[n.finding] >= moment - Lookback
           /\ notice[n] = None
           /\ Owing(n, settings, moment) = New("owed", found[n.finding] + News)
    BY <1>3 DEF Owing
  <2>3. found[n.finding] # None /\ found[n.finding] >= moment - Lookback
            => ~OverIn(i, n) /\ Expiry(n) = found[n.finding] + News /\ Expiry(n) \in Nat
    BY <1>1, <1>3, <2>1, Numbers DEF OverIn, Expiry, moment
  <2> QED BY <1>3, <2>2, <2>3 DEF moment
<1> QED BY <1>2, <1>3, NoticeTypes

-----------------------------------------------------------------------------
(* One round at a time *)

\* A round that does nothing has nothing to keep.
LEMMA Resting ==
    ASSUME NEW j \in Notifiers, round'[j].pc = "idle",
           round'[j].todo = {}, round'[j].batch = {},
           round'[j].moment <= clock', round'[j].began <= changes'
    PROVE  Shape(j)' /\ Due(j)' /\ Lists(j)' /\ Delivering(j)' /\ Current(j)'
BY DEF Shape, Due, Lists, Delivering, Current

\* While one has the round, or none has the lock, the others do nothing.
LEMMA OthersRest ==
    ASSUME Settled, NEW i \in Notifiers, round[i].pc # "idle" \/ lock = None,
           NEW j \in Notifiers, j # i
    PROVE  round[j].pc = "idle" /\ round[j].todo = {} /\ round[j].batch = {}
<1>1. round[j].pc = "idle"
  BY Numbers DEF Settled, Held
<1> QED BY <1>1 DEF Settled, Shape

\* So they keep what they had to.
LEMMA OthersKeep ==
    ASSUME Settled, NEW i \in Notifiers, round[i].pc # "idle" \/ lock = None,
           NEW r, round' = [round EXCEPT ![i] = r], UNCHANGED <<clock, changes>>
    PROVE  \A j \in Notifiers : j # i =>
              /\ round'[j] = round[j] /\ round'[j].pc = "idle" /\ round'[j].batch = {}
              /\ Shape(j)' /\ Due(j)' /\ Lists(j)' /\ Delivering(j)' /\ Current(j)'
<1> TAKE j \in Notifiers
<1> HAVE j # i
<1>1. round'[j] = round[j]
  BY DEF Settled, TypeOK
<1>2. round[j].pc = "idle" /\ round[j].todo = {} /\ round[j].batch = {}
  BY OthersRest
<1>3. round'[j].moment <= clock' /\ round'[j].began <= changes'
  BY <1>1 DEF Settled, Shape
<1> QED BY <1>1, <1>2, <1>3, Resting

\* Who is in a mail is in the one round that mails.
LEMMA OneMail ==
    ASSUME Settled, NEW i \in Notifiers, round[i].pc # "idle", NEW n
    PROVE  InMail(n) => round[i].pc = "mailing" /\ n \in round[i].batch
BY OthersRest DEF InMail

\* A notice's record, and its copies.
LEMMA NoticeRecord ==
    ASSUME TypeOK, NEW n \in Notices, notice[n] # None
    PROVE  /\ notice[n] \in Records /\ notice[n].outcome \in Outcomes
           /\ notice[n].attempts \in Nat /\ notice[n].attempts <= MaxAttempts
           /\ notice[n].expires \in Nat
           /\ \A who \in People : copies[n][who] \in Nat
           /\ crashes \in Nat
<1>1. notice[n] \in Records
  BY DEF TypeOK
<1>2. MaxAttempts \in Nat
  BY Numbers
<1> QED BY <1>1, <1>2 DEF TypeOK, Records

-----------------------------------------------------------------------------
(* The environment *)

\* What no fact undoes.
LEMMA FactsKeep ==
    ASSUME Settled, TypeOK', UNCHANGED <<notice, lock, round, copies, crashes>>,
           clock <= clock', changes <= changes',
           \A f \in Findings : found[f] # None => found'[f] = found[f],
           changes' = changes => UNCHANGED <<settings, share>>
    PROVE  Settled'
<1> USE DEF Settled
<1>1. Held'
  BY DEF Held
<1>2. ASSUME NEW i \in Notifiers
      PROVE  Shape(i)' /\ Due(i)' /\ Lists(i)' /\ Delivering(i)' /\ Current(i)'
  <2>1. /\ round[i].moment \in Nat /\ round[i].began \in Nat
        /\ clock \in Nat /\ clock' \in Nat /\ changes \in Nat /\ changes' \in Nat
    BY DEF TypeOK
  <2>2. Shape(i)'
    BY <2>1 DEF Shape
  <2>3. Due(i)' /\ Lists(i)' /\ Delivering(i)'
    BY DEF Due, Lists, Delivering, Pending, Gone, Told
  <2>4. Current(i)'
    <3>1. CASE changes' = changes
      BY <3>1 DEF Current, Wanted
    <3>2. CASE changes' # changes
      <4>1. round[i].began <= changes
        BY DEF Shape
      <4>2. round'[i].began # changes'
        BY <2>1, <3>2, <4>1
      <4> QED BY <4>2 DEF Current
    <3> QED BY <3>1, <3>2
  <2> QED BY <2>2, <2>3, <2>4
<1>3. ASSUME NEW n \in Notices
      PROVE  Tries(n)' /\ Buried(n)' /\ Counted(n)'
  <2>1. clock \in Nat /\ clock' \in Nat
    BY DEF TypeOK
  <2>2. n.kind = "anomaly" => n.finding \in Findings /\ found[n.finding] \in Nat \cup {None}
    BY NoticeTypes DEF TypeOK
  <2>3. n.kind = "budget" => PeriodEnds(n.period) \in Nat
    BY NoticeTypes, PeriodEndType
  <2>4. n.kind \in {"budget", "anomaly"}
    BY NoticeTypes
  <2>5. Tries(n)'
    BY DEF Tries, Pending
  <2>6. Over(n) => Over(n)'
    <3>1. CASE n.kind = "budget"
      BY <2>1, <2>3, <3>1 DEF Over
    <3>2. CASE n.kind = "anomaly"
      BY <2>1, <2>2, <3>2, Numbers DEF Over
    <3> QED BY <2>4, <3>1, <3>2
  <2>7. \A i \in Notifiers : OverIn(i, n) => OverIn(i, n)'
    BY <2>2, <2>4 DEF OverIn
  <2>8. Buried(n)'
    BY <2>6, <2>7 DEF Buried, Forgotten
  <2>9. Dated(n) => Dated(n)'
    BY <2>2, <2>4 DEF Dated, Expiry
  <2>10. Counted(n)'
    BY <2>9 DEF Counted, CopiesAreExplained, SentReachedAll, Explained, InMail
  <2> QED BY <2>5, <2>8, <2>10
<1> QED BY <1>1, <1>2, <1>3

\* A counter that grows or shrinks.
LEMMA SpendKeeps == ASSUME Settled, NEW c \in Counters, Spend(c) PROVE Settled'
<1>1. TypeOK'
  <2>1. changes' \in Nat
    BY DEF Spend, Settled, TypeOK
  <2>2. PICK x \in 0 .. MaxShare : share' = [share EXCEPT ![c][Period] = x]
    BY DEF Spend
  <2>3. share' \in [Counters -> [Periods -> 0 .. MaxShare]]
    BY <2>2 DEF Settled, TypeOK
  <2> QED BY <2>1, <2>3 DEF Spend, Settled, TypeOK
<1>2. clock <= clock' /\ changes <= changes' /\ changes' # changes
  BY DEF Spend, Settled, TypeOK
<1> QED BY <1>1, <1>2, FactsKeep DEF Spend

\* A use case that is changed or retired.
LEMMA ConfigureKeeps == ASSUME Settled, Configure PROVE Settled'
<1>1. TypeOK'
  BY DEF Configure, Settled, TypeOK
<1>2. clock <= clock' /\ changes <= changes' /\ changes' # changes
  BY DEF Configure, Settled, TypeOK
<1> QED BY <1>1, <1>2, FactsKeep DEF Configure

\* A finding.
LEMMA FindKeeps == ASSUME Settled, NEW f \in Findings, Find(f) PROVE Settled'
<1>1. TypeOK'
  BY DEF Find, Settled, TypeOK
<1>2. clock <= clock' /\ changes <= changes' /\ changes' # changes
  BY DEF Find, Settled, TypeOK
<1>3. \A g \in Findings : found[g] # None => found'[g] = found[g]
  BY DEF Find, Settled, TypeOK
<1> QED BY <1>1, <1>2, <1>3, FactsKeep DEF Find

\* The clock.
LEMMA PassKeeps == ASSUME Settled, Pass PROVE Settled'
<1>1. TypeOK'
  BY DEF Pass, Settled, TypeOK, facts
<1>2. clock <= clock' /\ changes <= changes'
  BY DEF Pass, Settled, TypeOK
<1> QED BY <1>1, <1>2, FactsKeep DEF Pass, facts

-----------------------------------------------------------------------------
(* The steps of a round *)

\* A round begins.
LEMMA ClaimKeeps == ASSUME Settled, NEW i \in Notifiers, Claim(i) PROVE Settled'
<1> DEFINE r == [Off EXCEPT !.pc = "owing", !.moment = clock, !.began = changes]
<1>1. /\ r.pc = "owing" /\ r.moment = clock /\ r.began = changes
      /\ r.todo = {} /\ r.batch = {} /\ r \in RoundType
  BY NoList DEF Off, RoundType, Settled, TypeOK
<1>2. round' = [round EXCEPT ![i] = r]
  BY DEF Claim
<1> HIDE DEF r
<1>3. round'[i] = r
  BY <1>2 DEF Settled, TypeOK
<1>4. TypeOK'
  <2>1. round' \in [Notifiers -> RoundType]
    BY <1>1, <1>2 DEF Settled, TypeOK, RoundType
  <2>2. \A j \in Notifiers : round'[j].batch \subseteq round'[j].todo
    BY <1>1, <1>2 DEF Settled, TypeOK
  <2> QED BY <2>1, <2>2 DEF Claim, Settled, TypeOK, RoundType, facts
<1>5. lock = None /\ lock' = i
  BY DEF Claim, Claimable
<1>6. \A j \in Notifiers : j # i =>
              /\ round'[j] = round[j] /\ round'[j].pc = "idle" /\ round'[j].batch = {}
              /\ Shape(j)' /\ Due(j)' /\ Lists(j)' /\ Delivering(j)' /\ Current(j)'
  BY <1>2, <1>5, OthersKeep DEF Claim
<1>7. Held'
  BY <1>5, <1>6 DEF Held
<1>8. Shape(i)' /\ Due(i)' /\ Lists(i)' /\ Delivering(i)' /\ Current(i)'
  <2>1. clock' = clock /\ changes' = changes /\ clock \in Nat /\ changes \in Nat
    BY DEF Claim, Settled, TypeOK
  <2> QED BY <1>1, <1>3, <2>1 DEF Shape, Due, Lists, Delivering, Current
<1>9. ASSUME NEW n \in Notices
      PROVE  Tries(n)' /\ Buried(n)' /\ Counted(n)'
  <2>1. Tries(n) /\ Buried(n) /\ Counted(n)
    BY DEF Settled
  <2>2. UNCHANGED <<notice, copies, crashes, clock, found>>
    BY DEF Claim, facts
  <2>3. Tries(n)'
    BY <2>1, <2>2 DEF Tries, Pending
  <2>4. Over(n) => OverIn(i, n)'
    BY <1>1, <1>3, <2>2 DEF Over, OverIn
  <2>5. Buried(n)'
    BY <1>1, <1>3, <1>6, <2>1, <2>2, <2>4 DEF Buried, Forgotten, Over
  <2>6. ~InMail(n)
    BY <1>5, Numbers DEF InMail, Settled, Held
  <2>7. Counted(n)'
    BY <2>1, <2>2, <2>6
       DEF Counted, CopiesAreExplained, SentReachedAll, Dated, Expiry, Explained
  <2> QED BY <2>3, <2>5, <2>7
<1> QED BY <1>4, <1>6, <1>7, <1>8, <1>9 DEF Settled

\* What is owed is recorded and selected.
LEMMA OweKeeps == ASSUME Settled, NEW i \in Notifiers, Owe(i) PROVE Settled'
<1> DEFINE r == [round[i] EXCEPT !.pc = "sending", !.view = settings,
                                 !.todo = ToSend(notice')]
<1>1. round' = [round EXCEPT ![i] = r]
  BY DEF Owe, Settled, TypeOK
<1>2. /\ r.pc = "sending" /\ r.view = settings /\ r.todo = ToSend(notice')
      /\ r.moment = round[i].moment /\ r.began = round[i].began
      /\ r.batch = round[i].batch /\ r \in RoundType
  BY DEF Settled, TypeOK, RoundType, ToSend
<1> HIDE DEF r
<1>3. round'[i] = r /\ round[i].pc = "owing" /\ r.batch = {}
  BY <1>1, <1>2 DEF Owe, Settled, TypeOK, Shape
<1>4. UNCHANGED <<clock, settings, share, found, lock, copies, changes, crashes>>
  BY DEF Owe, facts
<1>5. ASSUME NEW n \in Notices
      PROVE  \/ notice'[n] = notice[n]
             \/ /\ notice[n] = None /\ ~OverIn(i, n)
                /\ n.kind = "anomaly" => found[n.finding] # None
                /\ notice'[n] \in Records /\ notice'[n].expires = Expiry(n)
                /\ notice'[n].attempts = 0 /\ notice'[n].outcome # "sent"
  <2>1. notice'[n] = Owing(n, settings, round[i].moment)
    BY DEF Owe
  <2>2. ASSUME NEW outcome \in {"owed", "superseded"}, NEW e \in Nat
        PROVE  /\ New(outcome, e) \in Records /\ New(outcome, e).expires = e
               /\ New(outcome, e).attempts = 0 /\ New(outcome, e).outcome # "sent"
    BY Numbers DEF New, Records, Outcomes
  <2> QED BY <2>1, <2>2, OwedTypes DEF Settled
<1>6. notice' \in [Notices -> Records \cup {None}]
  <2>1. \A n \in Notices : notice'[n] \in Records \cup {None}
    BY <1>5 DEF Settled, TypeOK
  <2> QED BY <2>1 DEF Owe
<1>7. TypeOK'
  <2>1. round' \in [Notifiers -> RoundType]
    BY <1>1, <1>2 DEF Settled, TypeOK, RoundType
  <2>2. \A j \in Notifiers : round'[j].batch \subseteq round'[j].todo
    BY <1>1, <1>2, <1>3 DEF Settled, TypeOK
  <2> QED BY <1>4, <1>6, <2>1, <2>2 DEF Settled, TypeOK, RoundType
<1>8. \A j \in Notifiers : j # i =>
              /\ round'[j] = round[j] /\ round'[j].pc = "idle" /\ round'[j].batch = {}
              /\ Shape(j)' /\ Due(j)' /\ Lists(j)' /\ Delivering(j)' /\ Current(j)'
  BY <1>1, <1>3, <1>4, OthersKeep
<1>9. Held'
  BY <1>3, <1>4, <1>8 DEF Settled, Held
<1>10. Shape(i)' /\ Due(i)' /\ Lists(i)' /\ Delivering(i)' /\ Current(i)'
  <2>1. settings # None
    BY Numbers DEF Settled, TypeOK
  <2>2. Shape(i)'
    BY <1>2, <1>3, <1>4, <2>1 DEF Settled, Shape
  <2>3. Due(i)'
    BY <1>2, <1>3 DEF Due, ToSend, Pending
  <2> QED BY <1>2, <1>3, <1>4, <2>2, <2>3 DEF Lists, Delivering, Current
<1>11. ASSUME NEW n \in Notices
       PROVE  Tries(n)' /\ Buried(n)' /\ Counted(n)'
  <2>1. Tries(n) /\ Buried(n) /\ Counted(n)
    BY DEF Settled
  <2>2. ~InMail(n)
    BY <1>3, OneMail
  <2>3. CASE notice'[n] = notice[n]
    <3>1. Tries(n)'
      BY <2>1, <2>3 DEF Tries, Pending
    <3>2. Buried(n)'
      BY <1>2, <1>3, <1>4, <1>8, <2>1, <2>3 DEF Buried, Forgotten, Over
    <3>3. Counted(n)'
      BY <1>4, <2>1, <2>2, <2>3
         DEF Counted, CopiesAreExplained, SentReachedAll, Dated, Expiry, Explained
    <3> QED BY <3>1, <3>2, <3>3
  <2>4. CASE notice'[n] # notice[n]
    <3>1. /\ notice[n] = None /\ ~OverIn(i, n)
          /\ n.kind = "anomaly" => found[n.finding] # None
          /\ notice'[n] # None /\ notice'[n].expires = Expiry(n)
          /\ notice'[n].attempts = 0 /\ notice'[n].outcome # "sent"
      BY <1>5, <2>4, Numbers
    <3>2. \A who \in People : copies'[n][who] = 0
      BY <1>3, <1>4, <2>1, <3>1 DEF Buried, Forgotten
    <3>3. crashes' \in Nat
      BY <1>7 DEF TypeOK
    <3>4. Tries(n)' /\ Buried(n)'
      BY <3>1, Numbers DEF Tries, Buried, Forgotten
    <3>5. CopiesAreExplained(n)' /\ SentReachedAll(n)' /\ Explained(n)'
      BY <3>1, <3>2, <3>3 DEF CopiesAreExplained, SentReachedAll, Explained
    <3>6. Dated(n)'
      BY <1>4, <3>1 DEF Dated, Expiry
    <3> QED BY <3>4, <3>5, <3>6 DEF Counted
  <2> QED BY <2>3, <2>4
<1> QED BY <1>7, <1>8, <1>9, <1>10, <1>11 DEF Settled

\* A round settles S, of what it had to: what is not in S stays as it was.
LEMMA SettlingKeeps ==
    ASSUME Settled, NEW i \in Notifiers, round[i].pc \in {"sending", "mailing"},
           NEW S \in SUBSET round[i].todo, round[i].batch \subseteq S, Settles(i, S),
           UNCHANGED <<clock, settings, share, found, lock, changes, crashes>>,
           notice' \in [Notices -> Records \cup {None}],
           copies' \in [Notices -> [People -> Nat]],
           \A n \in Notices \ S : notice'[n] = notice[n] /\ copies'[n] = copies[n],
           \A n \in S : /\ notice'[n] # None /\ notice'[n].expires = notice[n].expires
                        /\ Tries(n)' /\ CopiesAreExplained(n)' /\ SentReachedAll(n)'
                        /\ notice'[n].outcome # "sent" => Explained(n)'
    PROVE  Settled'
<1> DEFINE r == [round[i] EXCEPT !.pc = "sending", !.todo = @ \ S, !.batch = {},
                                 !.unsent = <<>>]
<1>1. round' = [round EXCEPT ![i] = r]
  BY Zenon DEF Settles
<1>2. /\ r.pc = "sending" /\ r.view = round[i].view /\ r.todo = round[i].todo \ S
      /\ r.moment = round[i].moment /\ r.began = round[i].began
      /\ r.batch = {} /\ r \in RoundType
  <2>1. round[i] \in RoundType
    BY DEF Settled, TypeOK, RoundType
  <2>2. round[i].todo \ S \in SUBSET Notices
    BY <2>1 DEF RoundType
  <2>3. ASSUME NEW q \in RoundType, NEW T \in SUBSET Notices, NEW l \in Seq(People)
        PROVE  [q EXCEPT !.pc = "sending", !.todo = T, !.batch = {}, !.unsent = l]
                   \in RoundType
    BY DEF RoundType
  <2>4. r \in RoundType
    BY <2>1, <2>2, <2>3, NoList
  <2> QED BY <2>1, <2>4 DEF RoundType
<1> HIDE DEF r
<1>3. round'[i] = r /\ round[i].pc # "idle"
  BY <1>1 DEF Settled, TypeOK
<1>4. TypeOK'
  <2>1. round' \in [Notifiers -> RoundType]
    BY <1>1, <1>2 DEF Settled, TypeOK, RoundType
  <2>2. \A j \in Notifiers : round'[j].batch \subseteq round'[j].todo
    BY <1>1, <1>2, <1>3 DEF Settled, TypeOK
  <2> QED BY <2>1, <2>2 DEF Settled, TypeOK, RoundType
<1>5. \A j \in Notifiers : j # i =>
              /\ round'[j] = round[j] /\ round'[j].pc = "idle" /\ round'[j].batch = {}
              /\ Shape(j)' /\ Due(j)' /\ Lists(j)' /\ Delivering(j)' /\ Current(j)'
  BY <1>1, <1>3, OthersKeep
<1>6. Held'
  BY <1>3, <1>5 DEF Settled, Held
<1>7. Shape(i)' /\ Due(i)' /\ Lists(i)' /\ Delivering(i)' /\ Current(i)'
  <2>1. Shape(i)'
    BY <1>2, <1>3 DEF Settled, Shape
  <2>2. Due(i)'
    BY <1>2, <1>3 DEF Settled, TypeOK, Due, Pending
  <2>3. Current(i)'
    BY <1>2, <1>3 DEF Settled, Current
  <2> QED BY <1>2, <1>3, <2>1, <2>2, <2>3 DEF Lists, Delivering
<1>8. ASSUME NEW n \in Notices
      PROVE  Tries(n)' /\ Buried(n)' /\ Counted(n)'
  <2>1. Tries(n) /\ Buried(n) /\ Counted(n) /\ (n \in round[i].todo => notice[n] # None)
    BY DEF Settled, Due, Pending
  <2>2. CASE n \in S
    <3>1. Buried(n)'
      BY <2>2 DEF Buried, Forgotten
    <3>2. Dated(n)'
      BY <2>1, <2>2 DEF Counted, Dated, Expiry
    <3> QED BY <2>2, <3>1, <3>2 DEF Counted
  <2>3. CASE n \notin S
    <3>1. notice'[n] = notice[n] /\ copies'[n] = copies[n]
      BY <2>3
    <3>2. Tries(n)'
      BY <2>1, <3>1 DEF Tries, Pending
    <3>3. Buried(n)'
      BY <1>2, <1>3, <1>5, <2>1, <3>1 DEF Buried, Forgotten, Over
    <3>4. ~InMail(n)
      BY <1>3, <2>3, OneMail
    <3>5. Counted(n)'
      BY <2>1, <3>1, <3>4
         DEF Counted, CopiesAreExplained, SentReachedAll, Dated, Expiry, Explained
    <3> QED BY <3>2, <3>3, <3>5
  <2> QED BY <2>2, <2>3
<1> QED BY <1>4, <1>5, <1>6, <1>7, <1>8 DEF Settled

\* An outcome is all that SetOutcome sets.
LEMMA OutcomeSet ==
    ASSUME Settled, NEW S \in SUBSET Notices, \A n \in S : Pending(n),
           NEW outcome \in Outcomes \ {"owed"}, SetOutcome(S, outcome)
    PROVE  /\ notice' \in [Notices -> Records \cup {None}]
           /\ \A n \in Notices \ S : notice'[n] = notice[n]
           /\ \A n \in S : /\ notice'[n] # None /\ notice'[n].outcome = outcome
                            /\ notice'[n].attempts = notice[n].attempts
                            /\ notice'[n].expires = notice[n].expires
<1>1. \A q \in Records : /\ [q EXCEPT !.outcome = outcome] \in Records
                         /\ [q EXCEPT !.outcome = outcome].outcome = outcome
                         /\ [q EXCEPT !.outcome = outcome].attempts = q.attempts
                         /\ [q EXCEPT !.outcome = outcome].expires = q.expires
  BY DEF Records
<1>2. \A n \in S : notice[n] \in Records
  BY DEF Settled, TypeOK, Pending
<1>3. \A n \in Notices \ S : notice'[n] = notice[n] /\ notice[n] \in Records \cup {None}
  BY DEF SetOutcome, Settled, TypeOK
<1>4. \A n \in S : notice'[n] = [notice[n] EXCEPT !.outcome = outcome]
  BY DEF SetOutcome
<1>5. \A n \in S : notice'[n] \in Records
  BY <1>1, <1>2, <1>4
<1>6. notice' \in [Notices -> Records \cup {None}]
  <2>1. \A n \in Notices : notice'[n] \in Records \cup {None}
    BY <1>3, <1>5
  <2> QED BY <2>1 DEF SetOutcome
<1>7. None \notin Records
  BY Numbers
<1>8. ASSUME NEW n \in S
      PROVE  /\ notice'[n] # None /\ notice'[n].outcome = outcome
             /\ notice'[n].attempts = notice[n].attempts
             /\ notice'[n].expires = notice[n].expires
  <2>1. notice[n] \in Records /\ notice'[n] = [notice[n] EXCEPT !.outcome = outcome]
    BY <1>2, <1>4
  <2> QED BY <1>1, <1>5, <1>7, <2>1
<1> QED BY <1>3, <1>6, <1>8

\* An attempt that failed is counted, and is the last one or leaves one more.
LEMMA FailureSet ==
    ASSUME Settled, NEW S \in SUBSET Notices, \A n \in S : Pending(n), SetFailed(S)
    PROVE  /\ notice' \in [Notices -> Records \cup {None}]
           /\ \A n \in Notices \ S : notice'[n] = notice[n]
           /\ \A n \in S : /\ notice'[n] # None /\ notice'[n].outcome # "sent"
                            /\ notice'[n].attempts = notice[n].attempts + 1
                            /\ notice'[n].expires = notice[n].expires
                            /\ Tries(n)'
<1>1. \A n \in S : notice[n] \in Records /\ notice[n].attempts < MaxAttempts
                  /\ notice[n].outcome = "owed"
  BY DEF Settled, TypeOK, Pending, Tries
<1>2. ASSUME NEW q \in Records, q.attempts < MaxAttempts, q.outcome = "owed",
             NEW outcome \in Outcomes,
             outcome = IF q.attempts + 1 >= MaxAttempts THEN "failed" ELSE q.outcome,
             NEW x, x = [q EXCEPT !.attempts = @ + 1, !.outcome = outcome]
      PROVE  /\ x \in Records /\ x.outcome # "sent" /\ x.attempts = q.attempts + 1
             /\ x.expires = q.expires /\ (x.outcome = "owed" => x.attempts < MaxAttempts)
  <2>1. q.attempts \in 0 .. MaxAttempts /\ MaxAttempts \in Nat
    BY Numbers DEF Records
  <2>2. q.attempts + 1 \in 0 .. MaxAttempts
    BY <1>2, <2>1
  <2>3. x.outcome = outcome /\ x.attempts = q.attempts + 1 /\ x.expires = q.expires
    BY <1>2 DEF Records
  <2>4. x \in Records
    BY <1>2, <2>2 DEF Records
  <2>5. outcome \in {"owed", "failed"} /\ (outcome = "owed" => q.attempts + 1 < MaxAttempts)
    BY <1>2, <2>1
  <2> QED BY <2>3, <2>4, <2>5
<1>3. ASSUME NEW n \in S
      PROVE  /\ Failing(n) \in Records /\ Failing(n).outcome # "sent"
             /\ Failing(n).attempts = notice[n].attempts + 1
             /\ Failing(n).expires = notice[n].expires
             /\ Failing(n).outcome = "owed" => Failing(n).attempts < MaxAttempts
  <2> DEFINE q == notice[n]
             outcome == IF q.attempts + 1 >= MaxAttempts THEN "failed" ELSE q.outcome
  <2>1. q \in Records /\ q.attempts < MaxAttempts /\ q.outcome = "owed"
    BY <1>1
  <2>2. Failing(n) = [q EXCEPT !.attempts = @ + 1, !.outcome = outcome]
    BY <2>1 DEF Failing, Records
  <2>3. outcome \in Outcomes
    BY <2>1 DEF Outcomes
  <2>4. outcome = IF q.attempts + 1 >= MaxAttempts THEN "failed" ELSE q.outcome
    OBVIOUS
  <2> DEFINE x == Failing(n)
  <2> HIDE DEF q, outcome, x
  <2>5. /\ x \in Records /\ x.outcome # "sent" /\ x.attempts = q.attempts + 1
        /\ x.expires = q.expires /\ (x.outcome = "owed" => x.attempts < MaxAttempts)
    BY <1>2, <2>1, <2>2, <2>3, <2>4 DEF x
  <2> QED BY <2>5 DEF q, x
<1>4. \A n \in S : notice'[n] = Failing(n)
  BY DEF SetFailed
<1>5. \A n \in Notices \ S : notice'[n] = notice[n] /\ notice[n] \in Records \cup {None}
  BY DEF SetFailed, Settled, TypeOK
<1>6. notice' \in [Notices -> Records \cup {None}]
  <2>1. \A n \in Notices : notice'[n] \in Records \cup {None}
    BY <1>3, <1>4, <1>5
  <2> QED BY <2>1 DEF SetFailed
<1>7. \A n \in S : Tries(n)'
  BY <1>3, <1>4 DEF Tries, Pending
<1>8. None \notin Records
  BY Numbers
<1> QED BY <1>3, <1>4, <1>5, <1>6, <1>7, <1>8

\* What a round has to settle is owed; while it does not mail, no copy of it is
\* unexplained.
LEMMA TodoOwed ==
    ASSUME Settled, NEW i \in Notifiers, NEW n \in round[i].todo
    PROVE  /\ n \in Notices /\ Pending(n) /\ Counted(n)
           /\ round[i].pc = "sending" => Explained(n)
<1>1. n \in Notices /\ Pending(n) /\ Counted(n)
  BY DEF Settled, TypeOK, Due
<1>2. ASSUME round[i].pc = "sending"
      PROVE  Explained(n)
  <2>1. ~InMail(n)
    BY <1>2, OneMail
  <2> QED BY <1>1, <2>1 DEF Counted, Pending
<1> QED BY <1>1, <1>2

\* A mail is about what the round has to settle.
LEMMA BatchOwed ==
    ASSUME Settled, NEW i \in Notifiers, NEW n \in Notices, Turn(i, n)
    PROVE  /\ round[i].pc = "sending" /\ n \in Batch(i, n)
           /\ Batch(i, n) \in SUBSET round[i].todo /\ round[i].batch = {}
           /\ Batch(i, n) \in SUBSET Notices
           /\ \A m \in Batch(i, n) : Pending(m) /\ Counted(m) /\ Explained(m)
<1>1. round[i].pc = "sending" /\ n \in round[i].todo
  BY DEF Turn
<1>2. n \in Batch(i, n) /\ Batch(i, n) \in SUBSET round[i].todo
  BY <1>1 DEF Batch
<1>3. round[i].batch = {}
  BY <1>1 DEF Settled, Shape
<1> QED BY <1>1, <1>2, <1>3, TodoOwed

\* What is not mailed stays as much explained as it was.
LEMMA UnmailedKeeps ==
    ASSUME Settled, NEW n \in Notices, notice[n] # None, Explained(n), notice'[n] # None,
           UNCHANGED <<copies, crashes>>, notice'[n].outcome # "sent",
           notice'[n].attempts \in {notice[n].attempts, notice[n].attempts + 1}
    PROVE  CopiesAreExplained(n)' /\ SentReachedAll(n)' /\ Explained(n)'
<1>1. /\ notice[n].attempts \in Nat /\ crashes \in Nat
      /\ \A who \in People : copies[n][who] \in Nat
  BY NoticeRecord DEF Settled
<1>2. \A who \in People : copies[n][who] <= notice[n].attempts + crashes
  BY DEF Explained
<1> QED BY <1>1, <1>2 DEF CopiesAreExplained, SentReachedAll, Explained

\* A notice that is not mailed after all.
LEMMA DropKeeps ==
    ASSUME Settled, NEW i \in Notifiers, NEW n \in Notices, Drop(i, n)
    PROVE  Settled'
<1>1. PICK S \in {{n}, Batch(i, n)}, outcome \in {"expired", "superseded", "no_recipient"} :
          SetOutcome(S, outcome) /\ Settles(i, S)
  BY DEF Drop
<1>2. /\ round[i].pc = "sending" /\ S \in SUBSET round[i].todo /\ round[i].batch \subseteq S
      /\ S \in SUBSET Notices /\ \A m \in S : Pending(m) /\ Explained(m)
  BY BatchOwed DEF Drop
<1>3. UNCHANGED <<clock, settings, share, found, lock, copies, changes, crashes>>
  BY DEF Drop, facts
<1>4. outcome \in Outcomes \ {"owed"} /\ outcome # "sent"
  BY DEF Outcomes
<1>5. /\ notice' \in [Notices -> Records \cup {None}]
      /\ \A m \in Notices \ S : notice'[m] = notice[m]
      /\ \A m \in S : /\ notice'[m] # None /\ notice'[m].outcome = outcome
                       /\ notice'[m].attempts = notice[m].attempts
                       /\ notice'[m].expires = notice[m].expires
  BY <1>1, <1>2, <1>4, OutcomeSet
<1>6. \A m \in S : /\ Tries(m)' /\ CopiesAreExplained(m)' /\ SentReachedAll(m)'
                   /\ Explained(m)'
  <2> TAKE m \in S
  <2>1. m \in Notices /\ notice[m] # None
    BY <1>2 DEF Pending
  <2>2. CopiesAreExplained(m)' /\ SentReachedAll(m)' /\ Explained(m)'
    BY <1>2, <1>3, <1>4, <1>5, <2>1, UnmailedKeeps
  <2> QED BY <1>4, <1>5, <2>2 DEF Tries, Pending
<1>7. copies' \in [Notices -> [People -> Nat]] /\ copies' = copies
  BY <1>3 DEF Settled, TypeOK
<1> QED BY <1>1, <1>2, <1>3, <1>5, <1>6, <1>7, SettlingKeeps

\* The directory cannot be asked.
LEMMA UnaskedKeeps ==
    ASSUME Settled, NEW i \in Notifiers, NEW n \in Notices, Unasked(i, n)
    PROVE  Settled'
<1> DEFINE S == Batch(i, n)
<1>1. SetFailed(S) /\ Settles(i, S)
  BY DEF Unasked
<1>2. /\ round[i].pc = "sending" /\ S \in SUBSET round[i].todo /\ round[i].batch \subseteq S
      /\ S \in SUBSET Notices /\ \A m \in S : Pending(m) /\ Explained(m)
  BY BatchOwed DEF Unasked
<1>3. UNCHANGED <<clock, settings, share, found, lock, copies, changes, crashes>>
  BY DEF Unasked, facts
<1> HIDE DEF S
<1>4. /\ notice' \in [Notices -> Records \cup {None}]
      /\ \A m \in Notices \ S : notice'[m] = notice[m]
      /\ \A m \in S : /\ notice'[m] # None /\ notice'[m].outcome # "sent"
                       /\ notice'[m].attempts = notice[m].attempts + 1
                       /\ notice'[m].expires = notice[m].expires
                       /\ Tries(m)'
  BY <1>1, <1>2, FailureSet
<1>5. \A m \in S : CopiesAreExplained(m)' /\ SentReachedAll(m)' /\ Explained(m)'
  <2> TAKE m \in S
  <2>1. m \in Notices /\ notice[m] # None
    BY <1>2 DEF Pending
  <2> QED BY <1>2, <1>3, <1>4, <2>1, UnmailedKeeps
<1>6. copies' \in [Notices -> [People -> Nat]] /\ copies' = copies
  BY <1>3 DEF Settled, TypeOK
<1> QED BY <1>1, <1>2, <1>3, <1>4, <1>5, <1>6, SettlingKeeps

\* Who is mailed next has no copy that is not explained: nobody is twice on a list.
LEMMA NextOne ==
    ASSUME Settled, NEW i \in Notifiers, round[i].pc = "mailing", ~AllSent(i),
           NEW n \in round[i].batch, NEW h, h = Head(round[i].unsent)
    PROVE  /\ n \in Notices /\ Pending(n) /\ Counted(n)
           /\ h \in People /\ Recipients(n) \in Seq(People)
           /\ Gone(i, n) \in Nat /\ Gone(i, n) + 1 <= Len(Recipients(n))
           /\ Recipients(n)[Gone(i, n) + 1] = h
           /\ copies[n][h] <= notice[n].attempts + crashes
<1> DEFINE u == round[i].unsent
           R == Recipients(n)
           g == Gone(i, n)
<1>1. n \in round[i].todo
  BY DEF Settled, TypeOK
<1>2. n \in Notices /\ Pending(n) /\ Counted(n)
  BY <1>1, TodoOwed
<1>3. u \in Seq(People) /\ u # <<>>
  BY DEF Settled, TypeOK, AllSent
<1>4. R \in Seq(People) /\ \A k, l \in DOMAIN R : R[k] = R[l] => k = l
  BY <1>2, NoticeTypes DEF NamesOnce
<1>5. g = Len(R) - Len(u) /\ g >= 0 /\ \A k \in DOMAIN u : u[k] = R[g + k]
  BY DEF Gone, Settled, Lists
<1>6. h = u[1] /\ h \in People /\ 1 \in DOMAIN u /\ Len(u) \in Nat /\ Len(u) >= 1
  <2> HIDE DEF u
  <2>1. h = Head(u)
    BY DEF u
  <2> QED BY <1>3, <2>1
<1>7. Len(R) \in Nat /\ DOMAIN R = 1 .. Len(R)
  <2> HIDE DEF R
  <2> QED BY <1>4
<1>8. R[g + 1] = h
  BY <1>5, <1>6
<1> HIDE DEF u, R, g
<1>9. g \in Nat /\ g + 1 <= Len(R) /\ g + 1 \in DOMAIN R
  BY <1>5, <1>6, <1>7
<1>10. ~Told(i, n, h)
  <2> SUFFICES ASSUME NEW k \in 1 .. g, R[k] = h
               PROVE  FALSE
    BY DEF Told, g, R
  <2>1. k \in DOMAIN R /\ k # g + 1
    BY <1>7, <1>9
  <2> QED BY <1>4, <1>8, <1>9, <2>1
<1>11. copies[n][h] <= notice[n].attempts + crashes
  BY <1>6, <1>10 DEF Settled, Delivering
<1> QED BY <1>2, <1>4, <1>6, <1>8, <1>9, <1>11 DEF R, g

\* A mail is one copy more to one person, of every notice it is about.
LEMMA OneCopy ==
    ASSUME Settled, NEW i \in Notifiers, round[i].pc = "mailing", ~AllSent(i), Mail(i),
           NEW h, h = Head(round[i].unsent)
    PROVE  /\ copies' \in [Notices -> [People -> Nat]]
           /\ \A n \in Notices \ round[i].batch : copies'[n] = copies[n]
           /\ \A n \in round[i].batch :
                 /\ copies'[n][h] = copies[n][h] + 1
                 /\ \A who \in People : who # h => copies'[n][who] = copies[n][who]
<1>1. \A n \in round[i].batch : h \in People
  BY NextOne
<1>2. round[i].batch \subseteq Notices /\ copies \in [Notices -> [People -> Nat]]
  BY DEF Settled, TypeOK
<1>3. \A n \in round[i].batch : copies'[n] = [copies[n] EXCEPT ![h] = @ + 1]
  BY <1>2 DEF Mail
<1>4. \A n \in Notices \ round[i].batch : copies'[n] = copies[n]
  BY DEF Mail
<1>5. \A n \in round[i].batch : copies'[n] \in [People -> Nat]
  <2> TAKE n \in round[i].batch
  <2>1. ASSUME NEW c \in [People -> Nat], NEW who \in People
        PROVE  [c EXCEPT ![who] = c[who] + 1] \in [People -> Nat]
    OBVIOUS
  <2>2. copies[n] \in [People -> Nat] /\ h \in People
    BY <1>1, <1>2
  <2>3. [copies[n] EXCEPT ![h] = copies[n][h] + 1] \in [People -> Nat]
    BY <2>1, <2>2
  <2> QED BY <1>3, <2>3
<1>6. copies' \in [Notices -> [People -> Nat]]
  <2>1. \A n \in Notices : copies'[n] \in [People -> Nat]
    BY <1>2, <1>4, <1>5
  <2>2. copies' = [n \in Notices |-> copies'[n]]
    BY DEF Mail
  <2> DEFINE T == [People -> Nat]
  <2> HIDE DEF T
  <2>3. \A n \in Notices : copies'[n] \in T
    BY <2>1 DEF T
  <2>4. copies' \in [Notices -> T]
    BY <2>2, <2>3
  <2> QED BY <2>4 DEF T
<1>7. ASSUME NEW n \in round[i].batch
      PROVE  /\ copies'[n][h] = copies[n][h] + 1
             /\ \A who \in People : who # h => copies'[n][who] = copies[n][who]
  <2> DEFINE c == copies[n]
  <2>1. c \in [People -> Nat] /\ h \in People /\ copies'[n] = [c EXCEPT ![h] = c[h] + 1]
    BY <1>1, <1>2, <1>3
  <2> HIDE DEF c
  <2>2. copies'[n][h] = c[h] + 1
    BY <2>1
  <2>3. \A who \in People : who # h => copies'[n][who] = c[who]
    BY <2>1
  <2> QED BY <2>2, <2>3 DEF c
<1> QED BY <1>4, <1>6, <1>7

\* The relay refuses.
LEMMA RefuseKeeps == ASSUME Settled, NEW i \in Notifiers, Refuse(i) PROVE Settled'
<1> DEFINE S == round[i].batch
<1>1. /\ round[i].pc = "mailing" /\ S \in SUBSET round[i].todo /\ S \in SUBSET Notices
      /\ SetFailed(S) /\ Settles(i, S)
  BY DEF Refuse, Settled, TypeOK
<1>2. \A m \in S : m \in Notices /\ Pending(m) /\ Counted(m)
  BY <1>1, TodoOwed
<1>3. UNCHANGED <<clock, settings, share, found, lock, copies, changes, crashes>>
  BY DEF Refuse, facts
<1>4. /\ notice' \in [Notices -> Records \cup {None}]
      /\ \A m \in Notices \ S : notice'[m] = notice[m]
      /\ \A m \in S : /\ notice'[m] # None /\ notice'[m].outcome # "sent"
                       /\ notice'[m].attempts = notice[m].attempts + 1
                       /\ notice'[m].expires = notice[m].expires
                       /\ Tries(m)'
  BY <1>1, <1>2, FailureSet
<1>5. \A m \in S : CopiesAreExplained(m)' /\ SentReachedAll(m)' /\ Explained(m)'
  <2> TAKE m \in S
  <2>1. /\ notice[m] # None /\ notice[m].attempts \in Nat /\ crashes \in Nat
        /\ \A who \in People : copies[m][who] \in Nat
    BY <1>2, NoticeRecord DEF Settled, Pending
  <2>2. \A who \in People : copies[m][who] <= 1 + notice[m].attempts + crashes
    BY <1>2, <2>1 DEF Counted, CopiesAreExplained
  <2> QED BY <1>3, <1>4, <2>1, <2>2 DEF CopiesAreExplained, SentReachedAll, Explained
<1>6. copies' \in [Notices -> [People -> Nat]] /\ copies' = copies
  BY <1>3 DEF Settled, TypeOK
<1> QED BY <1>1, <1>3, <1>4, <1>5, <1>6, SettlingKeeps

\* The relay took the mail, and its answer is lost.
LEMMA LostKeeps == ASSUME Settled, NEW i \in Notifiers, Lost(i) PROVE Settled'
<1> DEFINE S == round[i].batch
           h == Head(round[i].unsent)
<1>1. /\ round[i].pc = "mailing" /\ S \in SUBSET round[i].todo /\ S \in SUBSET Notices
      /\ SetFailed(S) /\ Settles(i, S) /\ Mail(i) /\ ~AllSent(i)
  BY DEF Lost, Settled, TypeOK
<1>2. \A m \in S : m \in Notices /\ Pending(m) /\ Counted(m)
  BY <1>1, TodoOwed
<1>3. UNCHANGED <<clock, settings, share, found, lock, changes, crashes>>
  BY DEF Lost, facts
<1>4. /\ notice' \in [Notices -> Records \cup {None}]
      /\ \A m \in Notices \ S : notice'[m] = notice[m]
      /\ \A m \in S : /\ notice'[m] # None /\ notice'[m].outcome # "sent"
                       /\ notice'[m].attempts = notice[m].attempts + 1
                       /\ notice'[m].expires = notice[m].expires
                       /\ Tries(m)'
  BY <1>1, <1>2, FailureSet
<1>5. /\ copies' \in [Notices -> [People -> Nat]]
      /\ \A n \in Notices \ S : copies'[n] = copies[n]
      /\ \A n \in S :
            /\ copies'[n][h] = copies[n][h] + 1
            /\ \A who \in People : who # h => copies'[n][who] = copies[n][who]
  BY <1>1, OneCopy
<1>6. \A m \in S : copies[m][h] <= notice[m].attempts + crashes /\ h \in People
  BY <1>1, NextOne
<1> HIDE DEF S, h
<1>7. \A m \in S : CopiesAreExplained(m)' /\ SentReachedAll(m)' /\ Explained(m)'
  <2> TAKE m \in S
  <2>1. /\ notice[m] # None /\ notice[m].attempts \in Nat /\ crashes \in Nat
        /\ \A who \in People : copies[m][who] \in Nat
    BY <1>2, NoticeRecord DEF Settled, Pending
  <2>2. \A who \in People : copies[m][who] <= 1 + notice[m].attempts + crashes
    BY <1>2, <2>1 DEF Counted, CopiesAreExplained
  <2>3. \A who \in People : copies'[m][who] <= notice'[m].attempts + crashes'
    <3> TAKE who \in People
    <3>1. CASE who = h
      BY <1>3, <1>4, <1>5, <1>6, <2>1, <3>1
    <3>2. CASE who # h
      BY <1>3, <1>4, <1>5, <2>1, <2>2, <3>2
    <3> QED BY <3>1, <3>2
  <2>4. \A who \in People : copies'[m][who] \in Nat
    BY <1>2, <1>5
  <2>5. Explained(m)'
    BY <2>3 DEF Explained
  <2>6. CopiesAreExplained(m)'
    <3>1. notice'[m].attempts \in Nat /\ crashes' \in Nat
      BY <1>3, <1>4, <2>1
    <3> QED BY <2>3, <2>4, <3>1 DEF CopiesAreExplained
  <2> QED BY <1>4, <2>5, <2>6 DEF SentReachedAll
<1>8. round[i].batch \subseteq S /\ S \in SUBSET round[i].todo /\ Settles(i, S)
  BY <1>1 DEF S
<1> QED BY <1>1, <1>3, <1>4, <1>5, <1>7, <1>8, SettlingKeeps

\* Every recipient has the mail.
LEMMA SentKeeps == ASSUME Settled, NEW i \in Notifiers, Sent(i) PROVE Settled'
<1> DEFINE S == round[i].batch
<1>1. /\ round[i].pc = "mailing" /\ S \in SUBSET round[i].todo /\ S \in SUBSET Notices
      /\ SetOutcome(S, "sent") /\ Settles(i, S) /\ round[i].unsent = <<>>
  BY DEF Sent, Settled, TypeOK, AllSent
<1>2. \A m \in S : m \in Notices /\ Pending(m) /\ Counted(m)
  BY <1>1, TodoOwed
<1>3. UNCHANGED <<clock, settings, share, found, lock, copies, changes, crashes>>
  BY DEF Sent, facts
<1>4. /\ notice' \in [Notices -> Records \cup {None}]
      /\ \A m \in Notices \ S : notice'[m] = notice[m]
      /\ \A m \in S : /\ notice'[m] # None /\ notice'[m].outcome = "sent"
                       /\ notice'[m].attempts = notice[m].attempts
                       /\ notice'[m].expires = notice[m].expires
  <2>1. "sent" \in Outcomes \ {"owed"}
    BY DEF Outcomes
  <2> QED BY <1>1, <1>2, <2>1, OutcomeSet
<1>5. ASSUME NEW m \in S
      PROVE  CopiesAreExplained(m)' /\ SentReachedAll(m)' /\ Tries(m)'
  <2>1. CopiesAreExplained(m)'
    BY <1>2, <1>3, <1>4 DEF Counted, Pending, CopiesAreExplained
  <2>2. Tries(m)'
    BY <1>4 DEF Tries, Pending
  <2>3. \A who \in Listed(Recipients(m)) : copies[m][who] >= 1
    <3> TAKE who \in Listed(Recipients(m))
    <3>1. m \in Notices /\ Recipients(m) \in Seq(People) /\ who \in People
      BY <1>2, NoticeTypes DEF NamesOnce
    <3>2. PICK k \in DOMAIN Recipients(m) : Recipients(m)[k] = who
      BY DEF Listed
    <3>3. k \in 1 .. Len(Recipients(m)) /\ Len(Recipients(m)) \in Nat
      BY <3>1, <3>2
    <3>4. Gone(i, m) = Len(Recipients(m))
      BY <1>1, <3>3 DEF Gone
    <3>5. Told(i, m, who)
      BY <3>2, <3>3, <3>4 DEF Told
    <3> QED BY <1>1, <3>1, <3>5 DEF Settled, Delivering
  <2>4. SentReachedAll(m)'
    BY <1>3, <2>3 DEF SentReachedAll
  <2> QED BY <2>1, <2>2, <2>4
<1>6. copies' \in [Notices -> [People -> Nat]] /\ copies' = copies
  BY <1>3 DEF Settled, TypeOK
<1> QED BY <1>1, <1>3, <1>4, <1>5, <1>6, SettlingKeeps

\* A round writes its mail: it is at the head of the list of every notice in it.
LEMMA ComposeKeeps ==
    ASSUME Settled, NEW i \in Notifiers, NEW n \in Notices, Compose(i, n)
    PROVE  Settled'
<1> DEFINE r == [round[i] EXCEPT !.pc = "mailing", !.batch = Batch(i, n),
                                 !.unsent = Recipients(n)]
<1>1. round' = [round EXCEPT ![i] = r]
  BY DEF Compose, Settled, TypeOK
<1>2. /\ round[i].pc = "sending" /\ n \in Batch(i, n) /\ Batch(i, n) \in SUBSET Notices
      /\ Batch(i, n) \subseteq round[i].todo /\ round[i].batch = {}
      /\ \A m \in Batch(i, n) : Pending(m) /\ Explained(m)
  BY BatchOwed DEF Compose
<1>3. /\ r.pc = "mailing" /\ r.batch = Batch(i, n) /\ r.unsent = Recipients(n)
      /\ r.view = round[i].view /\ r.todo = round[i].todo
      /\ r.moment = round[i].moment /\ r.began = round[i].began
      /\ r \in RoundType
  <2>1. round[i] \in RoundType
    BY DEF Settled, TypeOK, RoundType
  <2>2. Recipients(n) \in Seq(People)
    BY NoticeTypes DEF NamesOnce
  <2>3. ASSUME NEW q \in RoundType, NEW T \in SUBSET Notices, NEW l \in Seq(People)
        PROVE  [q EXCEPT !.pc = "mailing", !.batch = T, !.unsent = l] \in RoundType
    BY DEF RoundType
  <2>4. r \in RoundType
    BY <1>2, <2>1, <2>2, <2>3
  <2> QED BY <2>1, <2>4 DEF RoundType
<1> HIDE DEF r
<1>4. round'[i] = r
  BY <1>1 DEF Settled, TypeOK
<1>5. UNCHANGED <<clock, settings, share, found, notice, lock, copies, changes, crashes>>
  BY DEF Compose, facts
<1>6. TypeOK'
  <2>1. round' \in [Notifiers -> RoundType]
    BY <1>1, <1>3 DEF Settled, TypeOK, RoundType
  <2>2. \A j \in Notifiers : round'[j].batch \subseteq round'[j].todo
    BY <1>1, <1>2, <1>3 DEF Settled, TypeOK
  <2> QED BY <1>5, <2>1, <2>2 DEF Settled, TypeOK, RoundType
<1>7. \A j \in Notifiers : j # i =>
              /\ round'[j] = round[j] /\ round'[j].pc = "idle" /\ round'[j].batch = {}
              /\ Shape(j)' /\ Due(j)' /\ Lists(j)' /\ Delivering(j)' /\ Current(j)'
  BY <1>1, <1>2, <1>5, OthersKeep
<1>8. Held'
  BY <1>2, <1>5, <1>7 DEF Settled, Held
<1>9. \A m \in Batch(i, n) :
          /\ Recipients(m) = Recipients(n)
          /\ m = n \/ (m.kind = "anomaly" /\ n.kind = "anomaly")
  <2>1. CASE n.kind = "budget"
    BY <2>1 DEF Batch
  <2>2. CASE n.kind = "anomaly"
    BY <2>2 DEF Batch, Compose, Turn, Gathered, Recipients
  <2> QED BY <2>1, <2>2, NoticeTypes
<1>10. Shape(i)' /\ Due(i)' /\ Lists(i)' /\ Delivering(i)' /\ Current(i)'
  <2>1. Shape(i)'
    BY <1>2, <1>3, <1>4, <1>5 DEF Settled, Shape
  <2>2. Due(i)'
    BY <1>3, <1>4, <1>5 DEF Settled, Due, Pending
  <2>3. \A m \in Batch(i, n) : Gone(i, m)' = 0
    <3>1. Recipients(n) \in Seq(People)
      BY NoticeTypes DEF NamesOnce
    <3>2. Len(Recipients(n)) \in Nat
      BY <3>1
    <3> QED BY <1>3, <1>4, <1>9, <3>2 DEF Gone
  <2>4. Lists(i)'
    <3>1. \A k \in DOMAIN Recipients(n) : 0 + k = k
      <4>1. Recipients(n) \in Seq(People)
        BY NoticeTypes DEF NamesOnce
      <4> QED BY <4>1
    <3> QED BY <1>3, <1>4, <1>9, <2>3, <3>1 DEF Lists
  <2>5. Delivering(i)'
    <3>1. \A m \in Batch(i, n), who \in People : ~Told(i, m, who)'
      BY <2>3 DEF Told
    <3> QED BY <1>2, <1>3, <1>4, <1>5, <3>1 DEF Delivering, Explained
  <2>6. Current(i)'
    <3>1. ASSUME round[i].began = changes, NEW m \in Batch(i, n)
          PROVE  Wanted(m)
      <4>1. round[i].view = settings
        BY <1>2, <3>1 DEF Settled, Current
      <4>2. UseCase(i) = settings /\ StillSaid(i, n)
        BY <4>1 DEF UseCase, Compose
      <4>3. Wanted(n)
        BY <4>2, NoticeTypes DEF StillSaid, Wanted
      <4> QED BY <1>9, <4>3 DEF Wanted
    <3>2. round[i].began = changes => round[i].view = settings
      BY <1>2 DEF Settled, Current
    <3> QED BY <1>3, <1>4, <1>5, <3>1, <3>2 DEF Current, Wanted
  <2> QED BY <2>1, <2>2, <2>4, <2>5, <2>6
<1>11. ASSUME NEW m \in Notices
       PROVE  Tries(m)' /\ Buried(m)' /\ Counted(m)'
  <2>1. Tries(m) /\ Buried(m) /\ Counted(m)
    BY DEF Settled
  <2>2. ~InMail(m)
    BY <1>2, OneMail
  <2>3. Tries(m)'
    BY <1>5, <2>1 DEF Tries, Pending
  <2>4. Buried(m)'
    BY <1>3, <1>4, <1>5, <1>7, <2>1 DEF Buried, Forgotten, Over
  <2>5. Counted(m)'
    BY <1>5, <2>1, <2>2
       DEF Counted, CopiesAreExplained, SentReachedAll, Dated, Expiry, Explained
  <2> QED BY <2>3, <2>4, <2>5
<1> QED BY <1>6, <1>7, <1>8, <1>10, <1>11 DEF Settled

\* One recipient more has the mail.
LEMMA SendKeeps == ASSUME Settled, NEW i \in Notifiers, Send(i) PROVE Settled'
<1> DEFINE u == round[i].unsent
           h == Head(u)
           S == round[i].batch
           r == [round[i] EXCEPT !.unsent = Tail(u)]
<1>1. round' = [round EXCEPT ![i] = r]
  BY DEF Send, Settled, TypeOK
<1>2. /\ round[i].pc = "mailing" /\ ~AllSent(i) /\ Mail(i) /\ S \subseteq round[i].todo
      /\ u \in Seq(People) /\ u # <<>>
  BY DEF Send, Settled, TypeOK, AllSent
<1>3. /\ r.pc = "mailing" /\ r.batch = S /\ r.unsent = Tail(u)
      /\ r.view = round[i].view /\ r.todo = round[i].todo
      /\ r.moment = round[i].moment /\ r.began = round[i].began
      /\ r \in RoundType
  <2>1. round[i] \in RoundType
    BY DEF Settled, TypeOK, RoundType
  <2>2. Tail(u) \in Seq(People)
    BY <1>2
  <2>3. ASSUME NEW q \in RoundType, NEW l \in Seq(People)
        PROVE  [q EXCEPT !.unsent = l] \in RoundType
    BY DEF RoundType
  <2>4. r \in RoundType
    BY <2>1, <2>2, <2>3
  <2> QED BY <1>2, <2>1, <2>4 DEF RoundType
<1>4. round'[i] = r
  BY <1>1 DEF Settled, TypeOK
<1>5. UNCHANGED <<clock, settings, share, found, notice, lock, changes, crashes>>
  BY DEF Send, facts
<1>6. /\ copies' \in [Notices -> [People -> Nat]]
      /\ \A n \in Notices \ S : copies'[n] = copies[n]
      /\ \A n \in S :
            /\ copies'[n][h] = copies[n][h] + 1
            /\ \A who \in People : who # h => copies'[n][who] = copies[n][who]
  BY <1>2, OneCopy
<1>7. \A n \in S : /\ n \in Notices /\ Pending(n) /\ Counted(n)
                  /\ h \in People /\ Recipients(n) \in Seq(People)
                  /\ Gone(i, n) \in Nat /\ Gone(i, n) + 1 <= Len(Recipients(n))
                  /\ Recipients(n)[Gone(i, n) + 1] = h
                  /\ copies[n][h] <= notice[n].attempts + crashes
  BY <1>2, NextOne
<1>8. /\ Len(u) \in Nat /\ Len(Tail(u)) = Len(u) - 1
      /\ \A k \in DOMAIN Tail(u) : k \in Nat /\ k + 1 \in DOMAIN u /\ Tail(u)[k] = u[k + 1]
  <2> HIDE DEF u
  <2> QED BY <1>2
<1> HIDE DEF r, u, h, S
<1>9. TypeOK'
  <2>1. round' \in [Notifiers -> RoundType]
    BY <1>1, <1>3 DEF Settled, TypeOK, RoundType
  <2>2. \A j \in Notifiers : round'[j].batch \subseteq round'[j].todo
    BY <1>1, <1>2, <1>3 DEF Settled, TypeOK
  <2> QED BY <1>5, <1>6, <2>1, <2>2 DEF Settled, TypeOK, RoundType
<1>10. \A j \in Notifiers : j # i =>
              /\ round'[j] = round[j] /\ round'[j].pc = "idle" /\ round'[j].batch = {}
              /\ Shape(j)' /\ Due(j)' /\ Lists(j)' /\ Delivering(j)' /\ Current(j)'
  BY <1>1, <1>2, <1>5, OthersKeep
<1>11. Held'
  BY <1>2, <1>5, <1>10 DEF Settled, Held
<1>12. \A n \in S : Gone(i, n)' = Gone(i, n) + 1
  <2> TAKE n \in S
  <2>1. Len(Recipients(n)) \in Nat
    BY <1>7
  <2>2. Gone(i, n)' = Len(Recipients(n)) - (Len(u) - 1)
    BY <1>3, <1>4, <1>8 DEF Gone
  <2>3. Gone(i, n) = Len(Recipients(n)) - Len(u)
    BY DEF Gone, u
  <2>4. Len(u) \in Nat
    BY <1>8
  <2> QED BY <2>1, <2>2, <2>3, <2>4
<1>13. ASSUME NEW n \in S
       PROVE  /\ \A who \in People : copies[n][who] \in Nat /\ copies'[n][who] \in Nat
              /\ notice[n].attempts \in Nat /\ crashes \in Nat
  BY <1>6, <1>7, NoticeRecord DEF Settled, Pending
<1>14. Shape(i)' /\ Due(i)' /\ Lists(i)' /\ Delivering(i)' /\ Current(i)'
  <2>1. Shape(i)'
    BY <1>2, <1>3, <1>4, <1>5 DEF Settled, Shape
  <2>2. Due(i)'
    BY <1>3, <1>4, <1>5 DEF Settled, Due, Pending
  <2>3. Lists(i)'
    <3> SUFFICES ASSUME NEW n \in S
                 PROVE  /\ Gone(i, n)' >= 0
                        /\ \A k \in DOMAIN Tail(u) :
                              Tail(u)[k] = Recipients(n)[Gone(i, n)' + k]
      BY <1>3, <1>4 DEF Lists
    <3>1. Gone(i, n)' = Gone(i, n) + 1 /\ Gone(i, n) \in Nat
      BY <1>7, <1>12
    <3>2. \A k \in DOMAIN u : u[k] = Recipients(n)[Gone(i, n) + k]
      BY <1>2 DEF Settled, Lists, u, S
    <3>3. \A k \in Nat : Gone(i, n) + (k + 1) = (Gone(i, n) + 1) + k
      BY <3>1
    <3> QED BY <1>8, <3>1, <3>2, <3>3
  <2>4. Delivering(i)'
    <3> SUFFICES ASSUME NEW n \in S, NEW who \in People
                 PROVE  IF Told(i, n, who)' THEN copies'[n][who] >= 1
                        ELSE copies'[n][who] <= notice[n].attempts + crashes
      BY <1>3, <1>4, <1>5 DEF Delivering
    <3>1. IF Told(i, n, who) THEN copies[n][who] >= 1
          ELSE copies[n][who] <= notice[n].attempts + crashes
      BY <1>2 DEF Settled, Delivering, S
    <3>2. Told(i, n, who)' <=> Told(i, n, who) \/ who = h
      <4>1. Told(i, n, who)' <=> \E k \in 1 .. (Gone(i, n) + 1) : Recipients(n)[k] = who
        BY <1>12 DEF Told
      <4>2. 1 .. (Gone(i, n) + 1) = (1 .. Gone(i, n)) \cup {Gone(i, n) + 1}
        BY <1>7
      <4> QED BY <1>7, <4>1, <4>2 DEF Told
    <3>3. CASE who = h
      BY <1>6, <1>13, <3>2, <3>3
    <3>4. CASE who # h
      BY <1>6, <3>1, <3>2, <3>4
    <3> QED BY <3>3, <3>4
  <2>5. Current(i)'
    <3>1. \A n \in S : Wanted(n)' <=> Wanted(n)
      BY <1>5 DEF Wanted
    <3> QED BY <1>2, <1>3, <1>4, <1>5, <3>1 DEF Settled, Current, S
  <2> QED BY <2>1, <2>2, <2>3, <2>4, <2>5
<1>15. ASSUME NEW n \in Notices
       PROVE  Tries(n)' /\ Buried(n)' /\ Counted(n)'
  <2>1. Tries(n) /\ Buried(n) /\ Counted(n)
    BY DEF Settled
  <2>2. Tries(n)'
    BY <1>5, <2>1 DEF Tries, Pending
  <2>3. CASE n \in S
    <3>1. notice'[n] # None /\ notice'[n].outcome # "sent"
      BY <1>5, <1>7, <2>3 DEF Pending
    <3>2. Buried(n)'
      BY <3>1 DEF Buried, Forgotten
    <3>3. InMail(n)'
      BY <1>3, <1>4, <2>3 DEF InMail
    <3>4. Dated(n)'
      BY <1>5, <2>1, <3>1 DEF Counted, Dated, Expiry
    <3>5. CopiesAreExplained(n)'
      <4>1. \A who \in People : copies'[n][who] <= 1 + notice[n].attempts + crashes
        <5> TAKE who \in People
        <5>1. CASE who = h
          <6>1. /\ copies[n][who] \in Nat /\ notice[n].attempts \in Nat /\ crashes \in Nat
                /\ copies'[n][who] = copies[n][who] + 1
                /\ copies[n][who] <= notice[n].attempts + crashes
            BY <1>6, <1>7, <1>13, <2>3, <5>1
          <6> QED BY <6>1
        <5>2. CASE who # h
          BY <1>5, <1>6, <2>1, <2>3, <3>1, <5>2 DEF Counted, CopiesAreExplained
        <5> QED BY <5>1, <5>2
      <4> QED BY <1>5, <4>1 DEF CopiesAreExplained
    <3> QED BY <2>2, <3>1, <3>2, <3>3, <3>4, <3>5 DEF Counted, SentReachedAll
  <2>4. CASE n \notin S
    <3>1. copies'[n] = copies[n] /\ notice'[n] = notice[n]
      BY <1>5, <1>6, <2>4
    <3>2. Buried(n)'
      BY <1>3, <1>4, <1>5, <1>10, <2>1, <3>1 DEF Buried, Forgotten, Over
    <3>3. ~InMail(n)
      BY <1>2, <2>4, OneMail DEF S
    <3>4. Counted(n)'
      BY <1>5, <2>1, <3>1, <3>3
         DEF Counted, CopiesAreExplained, SentReachedAll, Dated, Expiry, Explained
    <3> QED BY <2>2, <3>2, <3>4
  <2> QED BY <2>3, <2>4
<1> QED BY <1>9, <1>10, <1>11, <1>14, <1>15 DEF Settled

\* The round is over, and its lock with it.
LEMMA RoundEnds ==
    ASSUME Settled, NEW i \in Notifiers, round[i].pc # "idle",
           round' = [round EXCEPT ![i] = Off], lock' = Released(i),
           UNCHANGED <<clock, settings, share, found, copies, changes>>
    PROVE  /\ lock' = None
           /\ round' \in [Notifiers -> RoundType]
           /\ \A j \in Notifiers : round'[j].batch \subseteq round'[j].todo
           /\ Held'
           /\ \A j \in Notifiers : /\ round'[j].pc = "idle"
                                   /\ Shape(j)' /\ Due(j)' /\ Lists(j)'
                                   /\ Delivering(j)' /\ Current(j)'
<1>1. /\ Off.pc = "idle" /\ Off.moment = 0 /\ Off.began = 0
      /\ Off.todo = {} /\ Off.batch = {} /\ Off \in RoundType
  BY NoList DEF Off, RoundType
<1>2. round'[i] = Off
  BY DEF Settled, TypeOK
<1>3. \A j \in Notifiers : j # i =>
              /\ round'[j] = round[j] /\ round'[j].pc = "idle" /\ round'[j].batch = {}
              /\ Shape(j)' /\ Due(j)' /\ Lists(j)' /\ Delivering(j)' /\ Current(j)'
  BY OthersKeep
<1>4. Shape(i)' /\ Due(i)' /\ Lists(i)' /\ Delivering(i)' /\ Current(i)'
  <2>1. 0 <= clock' /\ 0 <= changes'
    BY DEF Settled, TypeOK
  <2> QED BY <1>1, <1>2, <2>1, Resting
<1>5. lock = i /\ lock' = None
  BY DEF Settled, Held, Released
<1>6. round' \in [Notifiers -> RoundType]
  BY <1>1 DEF Settled, TypeOK, RoundType
<1>7. \A j \in Notifiers : round'[j].batch \subseteq round'[j].todo
  BY <1>1, <1>2, <1>3
<1>8. Held'
  BY <1>1, <1>2, <1>3 DEF Held
<1> QED BY <1>1, <1>2, <1>3, <1>4, <1>5, <1>6, <1>7, <1>8

\* What is forgotten is too late to be owed again: KEEP_NOTICES is long enough.
LEMMA CloseKeeps == ASSUME Settled, NEW i \in Notifiers, Close(i) PROVE Settled'
<1>1. UNCHANGED <<clock, settings, share, found, copies, changes, crashes>>
  BY DEF Close, facts
<1>2. round[i].pc = "sending" /\ round[i].todo = {}
  BY DEF Close
<1>3. /\ lock' = None
      /\ round' \in [Notifiers -> RoundType]
      /\ \A j \in Notifiers : round'[j].batch \subseteq round'[j].todo
      /\ Held'
      /\ \A j \in Notifiers : /\ round'[j].pc = "idle"
                              /\ Shape(j)' /\ Due(j)' /\ Lists(j)'
                              /\ Delivering(j)' /\ Current(j)'
  BY <1>1, <1>2, RoundEnds DEF Close
<1>4. ASSUME NEW n \in Notices
      PROVE  \/ notice'[n] = notice[n]
             \/ notice'[n] = None /\ notice[n] # None
                /\ notice[n].expires < round[i].moment - Keep
  BY DEF Close
<1>5. TypeOK'
  <2>1. \A n \in Notices : notice'[n] \in Records \cup {None}
    BY <1>4 DEF Settled, TypeOK
  <2>2. notice' = [n \in Notices |-> notice'[n]]
    BY DEF Close
  <2>3. notice' \in [Notices -> Records \cup {None}]
    BY <2>1, <2>2
  <2> QED BY <1>1, <1>3, <2>3 DEF Settled, TypeOK, RoundType
<1>6. ASSUME NEW n \in Notices
      PROVE  Tries(n)' /\ Buried(n)' /\ Counted(n)'
  <2>1. Tries(n) /\ Buried(n) /\ Counted(n)
    BY DEF Settled
  <2>2. CASE notice'[n] = notice[n]
    <3>1. ~InMail(n)
      BY <1>2, OneMail DEF Settled, Shape
    <3>2. Tries(n)'
      BY <2>1, <2>2 DEF Tries, Pending
    <3>3. Buried(n)'
      BY <1>1, <1>3, <2>1, <2>2 DEF Buried, Forgotten, Over
    <3>4. Counted(n)'
      BY <1>1, <2>1, <2>2, <3>1
         DEF Counted, CopiesAreExplained, SentReachedAll, Dated, Expiry, Explained
    <3> QED BY <3>2, <3>3, <3>4
  <2>3. CASE notice'[n] # notice[n]
    <3>1. notice'[n] = None /\ notice[n] # None
          /\ notice[n].expires < round[i].moment - Keep
      BY <1>4, <2>3
    <3>2. /\ notice[n].expires \in Nat /\ Keep \in Nat /\ News \in Nat /\ Lookback \in Nat
          /\ Lookback <= News + Keep
          /\ round[i].moment \in Nat /\ round[i].moment <= clock /\ clock \in Nat
      BY <3>1, NoticeRecord, Numbers DEF Settled, TypeOK, Shape
    <3>3. Dated(n)
      BY <2>1, <3>1 DEF Counted
    <3>4. Over(n)
      <4>1. CASE n.kind = "budget"
        BY <3>1, <3>2, <3>3, <4>1 DEF Over, Dated, Expiry
      <4>2. CASE n.kind = "anomaly"
        <5>1. found[n.finding] \in Nat /\ notice[n].expires = found[n.finding] + News
          BY <3>3, <4>2, NoticeTypes DEF Dated, Expiry, Settled, TypeOK
        <5>2. found[n.finding] + Lookback < clock
          BY <3>1, <3>2, <5>1
        <5>3. found[n.finding] # None
          BY <3>3, <4>2 DEF Dated
        <5> QED BY <4>2, <5>2, <5>3 DEF Over
      <4> QED BY <4>1, <4>2, NoticeTypes
    <3>5. Over(n)'
      BY <1>1, <3>4 DEF Over
    <3> QED BY <1>3, <3>1, <3>5 DEF Tries, Pending, Counted, Buried
  <2> QED BY <2>2, <2>3
<1> QED BY <1>3, <1>5, <1>6 DEF Settled

\* A crash explains the copy of a mail whose outcome was not committed.
LEMMA CrashKeeps == ASSUME Settled, NEW i \in Notifiers, Crash(i) PROVE Settled'
<1>1. /\ UNCHANGED <<clock, settings, share, found, notice, copies, changes>>
      /\ round[i].pc # "idle" /\ crashes' = crashes + 1
  BY DEF Crash, facts
<1>2. /\ lock' = None
      /\ round' \in [Notifiers -> RoundType]
      /\ \A j \in Notifiers : round'[j].batch \subseteq round'[j].todo
      /\ Held'
      /\ \A j \in Notifiers : /\ round'[j].pc = "idle"
                              /\ Shape(j)' /\ Due(j)' /\ Lists(j)'
                              /\ Delivering(j)' /\ Current(j)'
  BY <1>1, RoundEnds DEF Crash
<1>3. TypeOK'
  <2>1. crashes' \in Nat
    BY <1>1 DEF Settled, TypeOK
  <2> QED BY <1>1, <1>2, <2>1 DEF Settled, TypeOK, RoundType
<1>4. ASSUME NEW n \in Notices
      PROVE  Tries(n)' /\ Buried(n)' /\ Counted(n)'
  <2>1. Tries(n) /\ Buried(n) /\ Counted(n)
    BY DEF Settled
  <2>2. Tries(n)'
    BY <1>1, <2>1 DEF Tries, Pending
  <2>3. Buried(n)'
    BY <1>1, <1>2, <2>1 DEF Buried, Forgotten, Over
  <2>4. ASSUME notice[n] # None
        PROVE  CopiesAreExplained(n)' /\ SentReachedAll(n)' /\ Explained(n)' /\ Dated(n)'
    <3>1. /\ notice[n].attempts \in Nat /\ crashes \in Nat
          /\ \A who \in People : copies[n][who] \in Nat
      BY <2>4, NoticeRecord DEF Settled
    <3>2. \A who \in People : copies[n][who] <= 1 + notice[n].attempts + crashes
      BY <2>1, <2>4 DEF Counted, CopiesAreExplained
    <3>3. CopiesAreExplained(n)' /\ Explained(n)'
      BY <1>1, <3>1, <3>2 DEF CopiesAreExplained, Explained
    <3>4. SentReachedAll(n)' /\ Dated(n)'
      BY <1>1, <2>1, <2>4 DEF Counted, SentReachedAll, Dated, Expiry
    <3> QED BY <3>3, <3>4
  <2>5. Counted(n)'
    BY <1>1, <2>4 DEF Counted
  <2> QED BY <2>2, <2>3, <2>5
<1> QED BY <1>2, <1>3, <1>4 DEF Settled

-----------------------------------------------------------------------------
(* The invariant, and what follows from it *)

\* Nothing is owed at the start, and nobody was mailed.
LEMMA SettledAtFirst == Init => Settled
<1> SUFFICES ASSUME Init
             PROVE  Settled
  OBVIOUS
<1>1. /\ Off.pc = "idle" /\ Off.moment = 0 /\ Off.began = 0
      /\ Off.todo = {} /\ Off.batch = {} /\ Off \in RoundType
  BY NoList DEF Off, RoundType
<1>2. \A i \in Notifiers : round[i] = Off
  BY DEF Init
<1>3. TypeOK
  <2>1. settings \in Settings
    BY DEF Init, Settings
  <2>2. share \in [Counters -> [Periods -> 0 .. MaxShare]]
    BY Numbers DEF Init
  <2>3. round \in [Notifiers -> RoundType]
    BY <1>1 DEF Init
  <2>4. copies \in [Notices -> [People -> Nat]]
    BY DEF Init
  <2>5. found \in [Findings -> Nat \cup {None}] /\ notice \in [Notices -> Records \cup {None}]
    BY DEF Init
  <2>6. /\ clock \in Nat /\ changes \in Nat /\ crashes \in Nat
        /\ lock \in Notifiers \cup {None}
    BY DEF Init
  <2> QED BY <1>1, <1>2, <2>1, <2>2, <2>3, <2>4, <2>5, <2>6 DEF TypeOK, RoundType
<1>4. Held
  BY <1>1, <1>2 DEF Held
<1>5. ASSUME NEW i \in Notifiers
      PROVE  Shape(i) /\ Due(i) /\ Lists(i) /\ Delivering(i) /\ Current(i)
  <2>1. clock = 0 /\ changes = 0
    BY DEF Init
  <2> QED BY <1>1, <1>2, <2>1 DEF Shape, Due, Lists, Delivering, Current
<1>6. ASSUME NEW n \in Notices
      PROVE  Tries(n) /\ Buried(n) /\ Counted(n)
  <2>1. notice[n] = None /\ \A who \in People : copies[n][who] = 0
    BY DEF Init
  <2> QED BY <2>1 DEF Tries, Pending, Buried, Forgotten, Counted
<1> QED BY <1>3, <1>4, <1>5, <1>6 DEF Settled

\* Every step keeps it.
LEMMA SettledStep == Settled /\ [Next]_vars => Settled'
<1> SUFFICES ASSUME Settled, [Next]_vars
             PROVE  Settled'
  OBVIOUS
<1>1. ASSUME NEW i \in Notifiers, Claim(i)
      PROVE  Settled'
  BY <1>1, ClaimKeeps
<1>2. ASSUME NEW i \in Notifiers, Step(i)
      PROVE  Settled'
  <2>1. CASE Owe(i)
    BY <2>1, OweKeeps
  <2>2. CASE Send(i)
    BY <2>2, SendKeeps
  <2>3. CASE Refuse(i)
    BY <2>3, RefuseKeeps
  <2>4. CASE Lost(i)
    BY <2>4, LostKeeps
  <2>5. CASE Sent(i)
    BY <2>5, SentKeeps
  <2>6. CASE Close(i)
    BY <2>6, CloseKeeps
  <2>7. ASSUME NEW n \in Notices, Drop(i, n)
        PROVE  Settled'
    BY <2>7, DropKeeps
  <2>8. ASSUME NEW n \in Notices, Unasked(i, n)
        PROVE  Settled'
    BY <2>8, UnaskedKeeps
  <2>9. ASSUME NEW n \in Notices, Compose(i, n)
        PROVE  Settled'
    BY <2>9, ComposeKeeps
  <2> QED BY <1>2, <2>1, <2>2, <2>3, <2>4, <2>5, <2>6, <2>7, <2>8, <2>9 DEF Step
<1>3. ASSUME NEW i \in Notifiers, Crash(i)
      PROVE  Settled'
  BY <1>3, CrashKeeps
<1>4. ASSUME NEW c \in Counters, Spend(c)
      PROVE  Settled'
  BY <1>4, SpendKeeps
<1>5. ASSUME NEW f \in Findings, Find(f)
      PROVE  Settled'
  BY <1>5, FindKeeps
<1>6. CASE Configure
  BY <1>6, ConfigureKeeps
<1>7. CASE Pass
  BY <1>7, PassKeeps
<1>8. CASE UNCHANGED vars
  <2>1. UNCHANGED <<clock, settings, share, found, notice, lock, round, copies, changes, crashes>>
    BY <1>8 DEF vars, facts
  <2>2. TypeOK'
    BY <2>1 DEF Settled, TypeOK
  <2>3. clock <= clock' /\ changes <= changes'
    BY <2>1 DEF Settled, TypeOK
  <2> QED BY <2>1, <2>2, <2>3, FactsKeep
<1> QED BY <1>1, <1>2, <1>3, <1>4, <1>5, <1>6, <1>7, <1>8 DEF Next

\* So it holds in every behaviour.
LEMMA SettledHolds == Spec => []Settled
BY SettledAtFirst, SettledStep, PTL DEF Spec

\* Rounds, notices and copies keep their types: a notice is tried MAX_ATTEMPTS
\* times and never once more, whichever rounds and instances tried it, and however
\* they ended (notifier.py, _failed).
THEOREM TypeCorrect == Spec => []TypeOK
<1>1. Settled => TypeOK
  BY DEF Settled
<1> QED BY <1>1, SettledHolds, PTL

\* A person has at most one copy of a mail that no failed attempt and no crash
\* explains, also after its notice was forgotten, and a mail that is said to be
\* sent has reached everybody on its list (notifier.py, _deliver and _tick).
THEOREM DeliveredOnce == Spec => []DeliveredAsSaid
<1>1. Settled => DeliveredAsSaid
  BY DEF Settled, DeliveredAsSaid, Counted
<1> QED BY <1>1, SettledHolds, PTL

\* A mail that leaves is part of a round, and what it says is true and asked for
\* unless a fact changed after that round began (notifier.py, _send_budget_mail
\* and _send_anomaly_mail).
THEOREM NothingStale == Spec => NothingStaleIsSaid
<1>1. Settled /\ [Next]_vars =>
        [\A n \in Notices : copies'[n] # copies[n] =>
          \E i \in Notifiers :
             /\ n \in round[i].batch
             /\ round[i].began = changes => Wanted(n)]_vars
  <2> SUFFICES ASSUME Settled, Next, NEW n \in Notices, copies'[n] # copies[n]
               PROVE  \E i \in Notifiers :
                         /\ n \in round[i].batch
                         /\ round[i].began = changes => Wanted(n)
    OBVIOUS
  <2>1. PICK i \in Notifiers : Mail(i)
    <3>1. copies' # copies
      OBVIOUS
    <3> QED BY <3>1 DEF Next, Step, Claim, Owe, Send, Refuse, Lost, Sent, Close, Drop,
                        Unasked, Compose, Crash, Spend, Find, Configure, Pass
  <2>2. n \in round[i].batch
    BY <2>1 DEF Mail
  <2>3. round[i].began = changes => Wanted(n)
    BY <2>2 DEF Settled, Current
  <2> QED BY <2>2, <2>3
<1> QED BY <1>1, SettledHolds, PTL DEF NothingStaleIsSaid, Spec
=============================================================================
