------------------------- MODULE ConfigSyncProofs -------------------------
(* What ConfigSync guarantees for every number of children, keys, changes, *)
(* failures and replays.                                                   *)
EXTENDS ConfigSync, FiniteSetTheorems, SequenceTheorems, TLAPS

\* The API keys of the read-model.
KeyStates == {"none", "active", "inactive"}
KeysTyped == gkey \in [ApiKeys -> KeyStates]

-----------------------------------------------------------------------------
(* The types.                                                              *)

SlugTypes == {"upserted", "deleted", "purged"}
ChildTypes == {"granted", "removed"}
KeyTypes == {"created", "revoked"}

\* The types of the events of id i.
TypesOf(i) == IF i = Slug THEN SlugTypes ELSE IF i \in Children THEN ChildTypes ELSE KeyTypes

\* The events there are.
Message == {e \in [id : Ids, type : Types] : e.type \in TypesOf(e.id)}

\* Management.
HereTyped ==
    /\ uc \in {"absent", "live", "retired"} /\ created \in Nat /\ revived \in BOOLEAN
    /\ rows \subseteq Children
    /\ mkey \in [ApiKeys -> {"none", "active", "revoked"}]
    /\ asked \in [ApiKeys -> {"no", "held", "unheld"}]

\* The events under way: each is one that its id can have.
EventsTyped ==
    /\ bound \in Bounds
    /\ outbox \in Seq(Message)
    /\ batch \in Nat /\ sent \in Nat /\ sent <= batch /\ batch <= Len(outbox)
    /\ log \in [Ids -> Seq(Types)]
    /\ \A i \in Ids : \A n \in DOMAIN log[i] : log[i][n] \in TypesOf(i)
    /\ pos \in [Ids -> Nat] /\ \A i \in Ids : pos[i] <= Len(log[i])
    /\ word \in [Ids -> Types \cup {"none"}]
    /\ \A i \in Ids : word[i] # "none" => word[i] \in TypesOf(i)
    /\ lost \subseteq Ids

\* The read-model.
ThereTyped ==
    guc \in {"absent", "live", "tombstone"} /\ gchild \subseteq Children /\ KeysTyped

-----------------------------------------------------------------------------
(* The word of each id, its last event committed.                          *)

\* No event of id i is pending; none that this run has still to send; none
\* behind place p.
NonePends(i) == \A n \in DOMAIN outbox : outbox[n].id # i
AllSent(i) == \A n \in DOMAIN outbox : outbox[n].id = i => n <= sent
NoneBehind(i, p) == \A n \in DOMAIN outbox : outbox[n].id = i => n <= p

\* The last event pending for id i is its word.
WordPends(i) ==
    \E n \in DOMAIN outbox : outbox[n] = Event(i, word[i]) /\ NoneBehind(i, n)

\* The last event of id i in Kafka is its word.
WordSaid(i) == log[i] # <<>> /\ Last(log[i]) = word[i]

\* The last event of an id to be sent is its word; when all its events of the
\* outbox are through in this run, Kafka's last is its word.
Kept ==
    /\ \A i \in Ids : word[i] = "none" => NonePends(i) /\ log[i] = <<>>
    /\ \A i \in Ids : word[i] # "none" => WordPends(i) \/ NonePends(i)
    /\ \A i \in Ids \ lost : word[i] # "none" /\ AllSent(i) => WordSaid(i)

-----------------------------------------------------------------------------
(* Management and what it announced last.                                  *)

\* The word on a key in the state it is in.
WordOnKey(state, w) ==
    \/ state = "none" /\ w = "none"
    \/ state = "active" /\ w = "created"
    \/ state = "revoked" /\ w = "revoked"

\* The last word on a child, a key or the use case is the state it is in; of a
\* child that was withdrawn or whose use case ended, that it was removed.
Announced ==
    /\ \A k \in ApiKeys : WordOnKey(mkey[k], word[k])
    /\ \A k \in ApiKeys : asked[k] # "no" => mkey[k] = "none"
    /\ \A c \in Children : word[c] = "granted" => c \in rows
    /\ uc = "absent" => rows = {} /\ ActiveKeys = {}
    /\ created = 0 => uc = "absent" /\ \A i \in Ids : word[i] = "none"
    /\ created > 0 => word[Slug] # "none"
    /\ uc = "absent" => word[Slug] \in {"none", "purged"}
    /\ ~revived =>
         /\ uc = "retired" => word[Slug] = "deleted"
         /\ uc = "live" => word[Slug] = "upserted" /\ \A c \in rows : word[c] = "granted"

\* Every event of id i, pending or in Kafka, is of this type.
Only(i, type) ==
    /\ \A n \in DOMAIN outbox : outbox[n].id = i => outbox[n].type = type
    /\ \A n \in DOMAIN log[i] : log[i][n] = type

\* A prefix is drawn once: nothing was said of an active key but that it is.
DrawnOnce == \A k \in ApiKeys : mkey[k] = "active" => Only(k, "created")

-----------------------------------------------------------------------------
(* The read-model and what the consumer has read.                          *)

\* The consumer has read all there is of id i, and the last of it is of type t.
HasRead(i, type) ==
    i \notin lost /\ log[i] # <<>> /\ pos[i] = Len(log[i]) /\ Last(log[i]) = type

\* What is read last holds, whatever was read of the others and however often.
Obeyed ==
    /\ \A k \in ApiKeys : HasRead(k, "revoked") => gkey[k] # "active"
    /\ \A c \in Children : HasRead(c, "removed") => c \notin gchild
    /\ HasRead(Slug, "deleted") =>
         guc = "tombstone" /\ gchild = {} /\ \A k \in ApiKeys : gkey[k] # "active"
    /\ HasRead(Slug, "purged") => guc = "absent"

\* What the read-model holds, Kafka told it.
Heard ==
    /\ \A k \in ApiKeys : gkey[k] # "none" => log[k] # <<>>
    /\ \A c \in gchild : log[c] # <<>>
    /\ guc # "absent" => log[Slug] # <<>>

\* The slug is in use for the first time and was not brought back.
FirstLife == created = 1 /\ uc = "live" /\ ~revived

\* In that time no deletion is told, and what is granted arrives.
Arriving == FirstLife =>
    /\ Only(Slug, "upserted") /\ guc # "tombstone"
    /\ Slug \notin lost /\ pos[Slug] > 0 => guc = "live"
    /\ \A c \in Children : HasRead(c, "granted") => c \in gchild
    /\ \A k \in ActiveKeys :
         gkey[k] # "inactive" /\ (k \notin lost /\ pos[k] > 0 => gkey[k] = "active")

Agreed ==
    /\ HereTyped /\ EventsTyped /\ ThereTyped
    /\ Kept /\ Announced /\ DrawnOnce /\ Obeyed /\ Heard /\ Arriving

-----------------------------------------------------------------------------
(* The events of a transaction.                                            *)

\* The events are those of E, one of each id.
Emits(events, E) ==
    /\ events \in Seq(Message)
    /\ \A n \in DOMAIN events : events[n] \in E
    /\ \A e \in E : \E n \in DOMAIN events : events[n] = e
    /\ \A m, n \in DOMAIN events : events[m].id = events[n].id => m = n

\* Of each id one event.
Apart(E) == \A d, e \in E : d.id = e.id => d = e

\* A transaction with one event.
LEMMA EmitsOne ==
    ASSUME NEW e \in Message PROVE Emits(<<e>>, {e})
BY DEF Emits

\* One after the other, of different ids.
LEMMA EmitsBoth ==
    ASSUME NEW s, NEW t, NEW D, NEW E, Emits(s, D), Emits(t, E),
           \A d \in D, e \in E : d.id # e.id
    PROVE  Emits(s \o t, D \cup E)
<1>1. s \in Seq(Message) /\ t \in Seq(Message) BY DEF Emits
<1>2. /\ s \o t \in Seq(Message) /\ Len(s \o t) = Len(s) + Len(t)
      /\ \A i \in 1 .. Len(s) + Len(t) :
           (s \o t)[i] = IF i <= Len(s) THEN s[i] ELSE t[i - Len(s)]
  BY <1>1, ConcatProperties
<1>3. Len(s) \in Nat /\ Len(t) \in Nat BY <1>1
<1>4. DOMAIN s = 1 .. Len(s) /\ DOMAIN t = 1 .. Len(t)
      /\ DOMAIN (s \o t) = 1 .. Len(s) + Len(t)
  BY <1>1, <1>2
<1>5. \A n \in DOMAIN (s \o t) :
        \/ n \in DOMAIN s /\ (s \o t)[n] = s[n]
        \/ n - Len(s) \in DOMAIN t /\ (s \o t)[n] = t[n - Len(s)]
  BY <1>2, <1>3, <1>4
<1>6. /\ \A n \in DOMAIN s : n \in DOMAIN (s \o t) /\ (s \o t)[n] = s[n]
      /\ \A n \in DOMAIN t :
           n + Len(s) \in DOMAIN (s \o t) /\ (s \o t)[n + Len(s)] = t[n]
  BY <1>2, <1>3, <1>4
<1>7. \A n \in DOMAIN (s \o t) : (s \o t)[n] \in D \cup E
  BY <1>5 DEF Emits
<1>8. \A e \in D \cup E : \E n \in DOMAIN (s \o t) : (s \o t)[n] = e
  <2>1. ASSUME NEW e \in D PROVE \E n \in DOMAIN (s \o t) : (s \o t)[n] = e
    <3>1. PICK n \in DOMAIN s : s[n] = e BY <2>1 DEF Emits
    <3> QED BY <3>1, <1>6
  <2>2. ASSUME NEW e \in E PROVE \E n \in DOMAIN (s \o t) : (s \o t)[n] = e
    <3>1. PICK n \in DOMAIN t : t[n] = e BY <2>2 DEF Emits
    <3> QED BY <3>1, <1>6
  <2> QED BY <2>1, <2>2
<1>9. \A m, n \in DOMAIN (s \o t) : (s \o t)[m].id = (s \o t)[n].id => m = n
  <2> SUFFICES ASSUME NEW m \in DOMAIN (s \o t), NEW n \in DOMAIN (s \o t),
                      (s \o t)[m].id = (s \o t)[n].id
               PROVE  m = n
    OBVIOUS
  <2>1. m \in Int /\ n \in Int /\ Len(s) \in Int BY <1>3, <1>4
  <2>2. CASE m \in DOMAIN s /\ (s \o t)[m] = s[m]
             /\ n \in DOMAIN s /\ (s \o t)[n] = s[n]
    BY <2>2 DEF Emits
  <2>3. CASE m - Len(s) \in DOMAIN t /\ (s \o t)[m] = t[m - Len(s)]
             /\ n - Len(s) \in DOMAIN t /\ (s \o t)[n] = t[n - Len(s)]
    <3>1. m - Len(s) = n - Len(s) BY <2>3 DEF Emits
    <3> QED BY <3>1, <2>1
  <2>4. CASE m \in DOMAIN s /\ (s \o t)[m] = s[m]
             /\ n - Len(s) \in DOMAIN t /\ (s \o t)[n] = t[n - Len(s)]
    BY <2>4 DEF Emits
  <2>5. CASE n \in DOMAIN s /\ (s \o t)[n] = s[n]
             /\ m - Len(s) \in DOMAIN t /\ (s \o t)[m] = t[m - Len(s)]
    BY <2>5 DEF Emits
  <2> QED BY <1>5, <2>2, <2>3, <2>4, <2>5
<1> QED BY <1>2, <1>7, <1>8, <1>9 DEF Emits

\* A set of events, in any order.
LEMMA EmitsAll ==
    ASSUME NEW E, IsFiniteSet(E), E \subseteq Message, Apart(E)
    PROVE  Emits(SetToSeq(E), E)
<1> DEFINE n == Cardinality(E)
<1> DEFINE q == SetToSeq(E)
<1>1. n \in Nat /\ ExistsBijection(1 .. n, E) BY FS_CardinalityType
<1>2. PICK f \in Bijection(1 .. n, E) : TRUE BY <1>1 DEF ExistsBijection
<1>3. f \in [1 .. n -> E] /\ IsInjective(f) BY <1>2 DEF Bijection, Injection
<1>4. q \in [1 .. n -> E] /\ IsInjective(q) BY <1>3 DEF SetToSeq
<1>5. q \in Injection(1 .. n, E) BY <1>4 DEF Injection
<1>6. IsFiniteSet(1 .. n) /\ Cardinality(1 .. n) = n
  <2>1. 1 \in Int /\ n \in Int BY <1>1
  <2>2. IsFiniteSet(1 .. n) /\ Cardinality(1 .. n) = IF 1 > n THEN 0 ELSE n - 1 + 1
    BY <2>1, FS_Interval
  <2> HIDE DEF n
  <2> QED BY <2>2, <1>1
<1>7. q \in Surjection(1 .. n, E) BY <1>5, <1>6, FS_Injection
<1>8. \A e \in E : \E m \in 1 .. n : q[m] = e BY <1>7 DEF Surjection
<1> HIDE DEF n, q
<1>9. q \in Seq(Message) /\ DOMAIN q = 1 .. n
  <2>1. q \in [1 .. n -> Message] BY <1>4
  <2> QED BY <2>1, <1>1
<1>10. \A m \in DOMAIN q : q[m] \in E BY <1>4
<1>11. \A l, m \in DOMAIN q : q[l].id = q[m].id => l = m
  BY <1>4, <1>10 DEF IsInjective, Apart
<1>12. Emits(q, E) BY <1>8, <1>9, <1>10, <1>11 DEF Emits
<1> QED BY <1>12 DEF q

\* What a commit does to the outbox and to the words: the events of the ids of I
\* are appended, the last of each id is its word, and the other words stand.
Spoke(I) ==
    /\ outbox' \in Seq(Message) /\ Len(outbox) <= Len(outbox')
    /\ \A n \in DOMAIN outbox : n \in DOMAIN outbox' /\ outbox'[n] = outbox[n]
    /\ \A n \in DOMAIN outbox' \ DOMAIN outbox :
         /\ outbox'[n].id \in I /\ outbox'[n] = Event(outbox'[n].id, word'[outbox'[n].id])
         /\ \A m \in DOMAIN outbox' : outbox'[m].id = outbox'[n].id => m <= n
    /\ \A i \in I : \E n \in DOMAIN outbox' \ DOMAIN outbox : outbox'[n].id = i
    /\ word' \in [Ids -> Types \cup {"none"}]
    /\ \A i \in I : word'[i] \in TypesOf(i)
    /\ \A i \in Ids \ I : word'[i] = word[i]
    /\ UNCHANGED <<batch, sent, log, pos, guc, gchild, gkey, bound, faults, replays, lost>>

\* A commit with the events of E.
LEMMA CommitSpeaks ==
    ASSUME EventsTyped, NEW events, NEW E, Emits(events, E), Commit(events)
    PROVE  /\ Spoke({e.id : e \in E})
           /\ \A e \in E : word'[e.id] = e.type
<1>1. events \in Seq(Message) /\ outbox \in Seq(Message) BY DEF Emits, EventsTyped
<1>2. Len(events) \in Nat /\ Len(outbox) \in Nat
      /\ DOMAIN events = 1 .. Len(events) /\ DOMAIN outbox = 1 .. Len(outbox)
  BY <1>1
<1>3. outbox' = outbox \o events BY DEF Commit
<1>4. /\ outbox' \in Seq(Message) /\ Len(outbox') = Len(outbox) + Len(events)
      /\ \A i \in 1 .. Len(outbox) + Len(events) :
           outbox'[i] = IF i <= Len(outbox) THEN outbox[i] ELSE events[i - Len(outbox)]
  BY <1>1, <1>3, ConcatProperties
<1>5. DOMAIN outbox' = 1 .. Len(outbox) + Len(events) BY <1>4, <1>2
<1>6. \A n \in DOMAIN events : events[n] \in Message /\ events[n] \in E
  BY <1>1 DEF Emits
<1>7. \A n \in DOMAIN events : LastOf(events, events[n].id) = n
  <2> SUFFICES ASSUME NEW n \in DOMAIN events PROVE LastOf(events, events[n].id) = n
    OBVIOUS
  <2>1. \A m \in DOMAIN events : events[m].id = events[n].id => m = n BY DEF Emits
  <2>2. n <= n BY <1>2
  <2> QED BY <2>1, <2>2 DEF LastOf
<1>8. word' = [i \in Ids |->
          IF Speaks(events, i) THEN events[LastOf(events, i)].type ELSE word[i]]
  BY DEF Commit
<1>9. \A n \in DOMAIN events :
        events[n].id \in Ids /\ word'[events[n].id] = events[n].type
  BY <1>6, <1>7, <1>8 DEF Speaks, Message
<1>10. \A e \in E : /\ word'[e.id] = e.type /\ e.id \in Ids
                     /\ word'[e.id] \in TypesOf(e.id) /\ word'[e.id] \in Types
  BY <1>6, <1>9 DEF Emits, Message
<1>11. \A i \in Ids \ {e.id : e \in E} : word'[i] = word[i]
  BY <1>6, <1>8 DEF Speaks
<1>12. word' \in [Ids -> Types \cup {"none"}]
  <2>1. ASSUME NEW i \in Ids, i \in {e.id : e \in E} PROVE word'[i] \in Types
    BY <2>1, <1>10
  <2>2. ASSUME NEW i \in Ids, i \notin {e.id : e \in E}
        PROVE  word'[i] \in Types \cup {"none"}
    BY <2>2, <1>11 DEF EventsTyped
  <2> QED BY <2>1, <2>2, <1>8
<1>13. \A n \in DOMAIN outbox : n \in DOMAIN outbox' /\ outbox'[n] = outbox[n]
  BY <1>2, <1>4, <1>5
<1>14. \A n \in DOMAIN outbox' \ DOMAIN outbox :
         n - Len(outbox) \in DOMAIN events /\ outbox'[n] = events[n - Len(outbox)]
  BY <1>2, <1>4, <1>5
<1>15. \A n \in DOMAIN outbox' \ DOMAIN outbox :
         /\ outbox'[n].id \in {e.id : e \in E}
         /\ outbox'[n] = Event(outbox'[n].id, word'[outbox'[n].id])
  <2> SUFFICES ASSUME NEW n \in DOMAIN outbox' \ DOMAIN outbox
               PROVE  /\ outbox'[n].id \in {e.id : e \in E}
                      /\ outbox'[n] = Event(outbox'[n].id, word'[outbox'[n].id])
    OBVIOUS
  <2>1. outbox'[n] \in E /\ outbox'[n] \in Message BY <1>14, <1>6
  <2>2. word'[outbox'[n].id] = outbox'[n].type BY <1>14, <1>9
  <2>3. outbox'[n] = [id |-> outbox'[n].id, type |-> outbox'[n].type]
    BY <2>1 DEF Message
  <2> QED BY <2>1, <2>2, <2>3 DEF Event
<1>16. \A n \in DOMAIN outbox' \ DOMAIN outbox :
         \A m \in DOMAIN outbox' : outbox'[m].id = outbox'[n].id => m <= n
  <2> SUFFICES ASSUME NEW n \in DOMAIN outbox' \ DOMAIN outbox, NEW m \in DOMAIN outbox',
                      outbox'[m].id = outbox'[n].id
               PROVE  m <= n
    OBVIOUS
  <2>1. CASE m \in DOMAIN outbox
    BY <2>1, <1>2, <1>5
  <2>2. CASE m \notin DOMAIN outbox
    <3>1. m - Len(outbox) = n - Len(outbox) BY <2>2, <1>14 DEF Emits
    <3> QED BY <3>1, <1>2, <1>5
  <2> QED BY <2>1, <2>2
<1>17. \A i \in {e.id : e \in E} :
         \E n \in DOMAIN outbox' \ DOMAIN outbox : outbox'[n].id = i
  <2> SUFFICES ASSUME NEW e \in E
               PROVE  \E n \in DOMAIN outbox' \ DOMAIN outbox : outbox'[n].id = e.id
    OBVIOUS
  <2>1. PICK n \in DOMAIN events : events[n] = e BY DEF Emits
  <2>2. /\ n + Len(outbox) \in DOMAIN outbox' \ DOMAIN outbox
        /\ outbox'[n + Len(outbox)] = events[n]
    BY <1>2, <1>4, <1>5
  <2> QED BY <2>1, <2>2
<1>18. Len(outbox) <= Len(outbox') BY <1>2, <1>4
<1>19. UNCHANGED <<batch, sent, log, pos, guc, gchild, gkey, bound, faults, replays, lost>>
  BY DEF Commit, relay, gateway
<1> QED
  BY <1>4, <1>10, <1>11, <1>12, <1>13, <1>15, <1>16, <1>17, <1>18, <1>19 DEF Spoke

\* The outbox and the words after a commit.
LEMMA SpokeTypes ==
    ASSUME EventsTyped, NEW I \in SUBSET Ids, Spoke(I) PROVE EventsTyped'
<1>1. batch' <= Len(outbox')
  <2>1. Len(outbox) \in Nat /\ Len(outbox') \in Nat BY DEF EventsTyped, Spoke
  <2> QED BY <2>1 DEF EventsTyped, Spoke
<1>2. \A i \in Ids : word'[i] # "none" => word'[i] \in TypesOf(i)
  BY DEF EventsTyped, Spoke
<1> QED BY <1>1, <1>2 DEF EventsTyped, Spoke

\* Of an id of which nothing is said the pending events are what they were.
LEMMA SpokePends ==
    ASSUME EventsTyped, NEW I \in SUBSET Ids, Spoke(I), NEW i \in Ids \ I
    PROVE  /\ \A n \in DOMAIN outbox' :
                outbox'[n].id = i => n \in DOMAIN outbox /\ outbox'[n] = outbox[n]
           /\ \A n \in DOMAIN outbox : n \in DOMAIN outbox' /\ outbox'[n] = outbox[n]
<1>1. \A n \in DOMAIN outbox' \ DOMAIN outbox : outbox'[n].id \in I BY DEF Spoke
<1>2. \A n \in DOMAIN outbox : n \in DOMAIN outbox' /\ outbox'[n] = outbox[n]
  BY DEF Spoke
<1> QED BY <1>1, <1>2

\* What is said is said last, and it is the word.
LEMMA SpokeKeeps ==
    ASSUME EventsTyped, Kept, NEW I \in SUBSET Ids, Spoke(I) PROVE Kept'
<1>1. /\ word' \in [Ids -> Types \cup {"none"}] /\ \A i \in I : word'[i] \in TypesOf(i)
      /\ \A i \in Ids \ I : word'[i] = word[i]
      /\ UNCHANGED <<sent, log, lost>>
  BY DEF Spoke
<1>2. \A i \in I : word'[i] # "none"
  BY <1>1 DEF TypesOf, SlugTypes, ChildTypes, KeyTypes
<1>3. ASSUME NEW i \in Ids, word'[i] = "none" PROVE NonePends(i)' /\ log'[i] = <<>>
  <2>1. i \in Ids \ I /\ word[i] = "none" BY <1>1, <1>2, <1>3
  <2>2. NonePends(i) /\ log[i] = <<>> BY <2>1 DEF Kept
  <2> QED BY <2>1, <2>2, <1>1, SpokePends DEF NonePends
<1>4. ASSUME NEW i \in Ids, word'[i] # "none" PROVE WordPends(i)' \/ NonePends(i)'
  <2>1. CASE i \in I
    <3>1. PICK n \in DOMAIN outbox' \ DOMAIN outbox : outbox'[n].id = i
      BY <2>1 DEF Spoke
    <3>2. /\ outbox'[n] = Event(i, word'[i])
          /\ \A m \in DOMAIN outbox' : outbox'[m].id = i => m <= n
      BY <3>1 DEF Spoke
    <3> QED BY <3>1, <3>2 DEF WordPends, NoneBehind
  <2>2. CASE i \notin I
    <3>1. i \in Ids \ I /\ word'[i] = word[i] BY <2>2, <1>1
    <3>2. CASE WordPends(i)
      <4>1. PICK n \in DOMAIN outbox : outbox[n] = Event(i, word[i]) /\ NoneBehind(i, n)
        BY <3>2 DEF WordPends
      <4>2. n \in DOMAIN outbox' /\ outbox'[n] = Event(i, word'[i])
        BY <4>1, <3>1, SpokePends
      <4>3. \A m \in DOMAIN outbox' : outbox'[m].id = i => m <= n
        BY <4>1, <3>1, SpokePends DEF NoneBehind
      <4> QED BY <4>2, <4>3 DEF WordPends, NoneBehind
    <3>3. CASE NonePends(i)
      BY <3>3, <3>1, SpokePends DEF NonePends
    <3> QED BY <3>1, <3>2, <3>3, <1>4 DEF Kept
  <2> QED BY <2>1, <2>2
<1>5. ASSUME NEW i \in Ids \ lost', word'[i] # "none", AllSent(i)' PROVE WordSaid(i)'
  <2>1. i \notin I
    <3> SUFFICES ASSUME i \in I PROVE FALSE OBVIOUS
    <3>1. PICK n \in DOMAIN outbox' \ DOMAIN outbox : outbox'[n].id = i BY DEF Spoke
    <3>2. n <= sent BY <3>1, <1>5, <1>1 DEF AllSent
    <3>3. Len(outbox) \in Nat /\ DOMAIN outbox = 1 .. Len(outbox)
          /\ Len(outbox') \in Nat /\ DOMAIN outbox' = 1 .. Len(outbox')
      BY DEF EventsTyped, Spoke
    <3> QED BY <3>1, <3>2, <3>3 DEF EventsTyped
  <2>2. AllSent(i)
    BY <2>1, <1>5, <1>1, SpokePends DEF AllSent
  <2>3. WordSaid(i) BY <2>1, <2>2, <1>5, <1>1 DEF Kept
  <2> QED BY <2>1, <2>3, <1>5, <1>1 DEF WordSaid
<1> QED BY <1>3, <1>4, <1>5 DEF Kept

\* If all that was said of an id is of one type, and so is what is said now, it
\* stays so.
LEMMA SpokeOnly ==
    ASSUME EventsTyped, NEW I \in SUBSET Ids, Spoke(I), NEW i \in Ids, NEW t, Only(i, t),
           i \in I => word'[i] = t
    PROVE  Only(i, t)'
<1>1. log' = log BY DEF Spoke
<1>2. ASSUME NEW n \in DOMAIN outbox', outbox'[n].id = i PROVE outbox'[n].type = t
  <2>1. CASE n \in DOMAIN outbox
    BY <2>1, <1>2 DEF Spoke, Only
  <2>2. CASE n \notin DOMAIN outbox
    <3>1. i \in I /\ outbox'[n] = Event(i, word'[i]) BY <2>2, <1>2 DEF Spoke
    <3> QED BY <3>1 DEF Event
  <2> QED BY <2>1, <2>2
<1> QED BY <1>1, <1>2 DEF Only

\* What every change of Management does, the events of the ids of I among it.
Changed(I) ==
    /\ Spoke(I) /\ HereTyped' /\ Announced'
    /\ \A k \in ApiKeys : mkey'[k] = "active" =>
         \/ mkey[k] = "active" /\ k \notin I
         \/ mkey[k] = "none" /\ word'[k] = "created"
    /\ FirstLife' => (Slug \in I => word'[Slug] = "upserted") /\ (FirstLife \/ created = 0)

\* And what follows for the rest.
LEMMA ChangedAgrees ==
    ASSUME Agreed, NEW I \in SUBSET Ids, Changed(I) PROVE Agreed'
<1> USE DEF Changed
<1>1. EventsTyped /\ Spoke(I) BY DEF Agreed
<1>2. EventsTyped' /\ Kept'
  BY <1>1, SpokeTypes, SpokeKeeps DEF Agreed
<1>3. UNCHANGED <<log, pos, lost, guc, gchild, gkey>> BY <1>1 DEF Spoke
<1>4. ThereTyped' /\ Heard'
  BY <1>3 DEF Agreed, ThereTyped, KeysTyped, Heard
<1>5. Obeyed'
  BY <1>3 DEF Agreed, Obeyed, HasRead
<1>6. ASSUME NEW i \in Ids, word[i] = "none", NEW t PROVE log[i] = <<>> /\ Only(i, t)
  BY <1>6 DEF Agreed, Kept, NonePends, Only
<1>7. ASSUME NEW k \in ApiKeys, mkey[k] = "none"
      PROVE  word[k] = "none" /\ log[k] = <<>> /\ Only(k, "created") /\ gkey[k] = "none"
  <2>1. word[k] = "none" /\ k \in Ids BY <1>7 DEF Agreed, Announced, WordOnKey, Ids
  <2> QED BY <2>1, <1>6 DEF Agreed, Heard
<1>8. DrawnOnce'
  <2> SUFFICES ASSUME NEW k \in ApiKeys, mkey'[k] = "active" PROVE Only(k, "created")'
    BY DEF DrawnOnce
  <2>1. k \in Ids BY DEF Ids
  <2>2. CASE mkey[k] = "active" /\ k \notin I
    BY <2>1, <2>2, <1>1, SpokeOnly DEF Agreed, DrawnOnce
  <2>3. CASE mkey[k] = "none" /\ word'[k] = "created"
    BY <2>1, <2>3, <1>1, <1>7, SpokeOnly
  <2> QED BY <2>2, <2>3
<1>9. ASSUME FirstLife' PROVE Arriving'
  <2>1. Slug \in Ids /\ Children \subseteq Ids BY DEF Ids
  <2>2. CASE FirstLife
    <3>1. Only(Slug, "upserted")'
      BY <1>1, <1>9, <2>1, <2>2, SpokeOnly DEF Agreed, Arriving
    <3>2. guc' # "tombstone" /\ (Slug \notin lost' /\ pos'[Slug] > 0 => guc' = "live")
      BY <1>3, <2>2 DEF Agreed, Arriving
    <3>3. \A c \in Children : HasRead(c, "granted")' => c \in gchild'
      BY <1>3, <2>2 DEF Agreed, Arriving, HasRead
    <3>4. ASSUME NEW k \in ApiKeys, mkey'[k] = "active"
          PROVE  /\ gkey'[k] # "inactive"
                 /\ k \notin lost' /\ pos'[k] > 0 => gkey'[k] = "active"
      <4>1. CASE mkey[k] = "active"
        BY <4>1, <1>3, <2>2 DEF Agreed, Arriving, ActiveKeys
      <4>2. CASE mkey[k] = "none"
        <5>1. gkey[k] = "none" /\ log[k] = <<>> /\ k \in Ids BY <4>2, <1>7 DEF Ids
        <5>2. ~(pos[k] > 0) BY <5>1 DEF Agreed, EventsTyped
        <5> QED BY <5>1, <5>2, <1>3
      <4> QED BY <3>4, <4>1, <4>2
    <3> QED BY <3>1, <3>2, <3>3, <3>4 DEF Arriving, ActiveKeys
  <2>3. CASE created = 0
    <3>1. \A i \in Ids : word[i] = "none" BY <2>3 DEF Agreed, Announced
    <3>2. \A i \in Ids : log[i] = <<>> BY <3>1, <1>6
    <3>3. \A i \in Ids : ~(pos[i] > 0) BY <3>2 DEF Agreed, EventsTyped
    <3>4. Only(Slug, "upserted")'
      BY <1>1, <1>6, <1>9, <2>1, <3>1, SpokeOnly
    <3>5. guc' = "absent" BY <1>3, <2>1, <3>2 DEF Agreed, Heard
    <3>6. ~(pos'[Slug] > 0) BY <1>3, <2>1, <3>3
    <3>7. \A c \in Children : ~HasRead(c, "granted")'
      BY <1>3, <2>1, <3>2 DEF HasRead
    <3>8. \A k \in ApiKeys : ~(pos'[k] > 0) /\ gkey'[k] = "none"
      BY <1>3, <3>2, <3>3 DEF Ids, Agreed, Heard
    <3> QED BY <3>4, <3>5, <3>6, <3>7, <3>8 DEF Arriving, ActiveKeys
  <2> QED BY <1>9, <2>2, <2>3
<1>10. Arriving' BY <1>9 DEF Arriving
<1> QED BY <1>2, <1>4, <1>5, <1>8, <1>10 DEF Agreed

-----------------------------------------------------------------------------
(* Each change of Management.                                              *)

\* The slug, a child and a key are not the same id.
LEMMA IdsApart ==
    /\ Slug \in Ids /\ Children \subseteq Ids /\ ApiKeys \subseteq Ids
    /\ Slug \notin Children /\ Slug \notin ApiKeys
    /\ \A c \in Children : c \notin ApiKeys
BY ConfigAssumption DEF Ids

\* What an event can be.
LEMMA EventTypes ==
    /\ \A t \in SlugTypes : Event(Slug, t) \in Message
    /\ \A c \in Children, t \in ChildTypes : Event(c, t) \in Message
    /\ \A k \in ApiKeys, t \in KeyTypes : Event(k, t) \in Message
    /\ \A i, t : Event(i, t).id = i /\ Event(i, t).type = t
BY IdsApart DEF Event, Message, TypesOf, SlugTypes, ChildTypes, KeyTypes, Types

\* The same event for each of a set of ids.
LEMMA EmitsEach ==
    ASSUME NEW S, IsFiniteSet(S), NEW t, \A i \in S : Event(i, t) \in Message
    PROVE  Emits(SetToSeq({Event(i, t) : i \in S}), {Event(i, t) : i \in S})
<1> DEFINE E == {Event(i, t) : i \in S}
<1> DEFINE f == [i \in S |-> Event(i, t)]
<1>1. f \in Surjection(S, E) BY DEF Surjection
<1>2. IsFiniteSet(E) BY <1>1, FS_Surjection
<1>3. E \subseteq Message OBVIOUS
<1>4. Apart(E) BY EventTypes DEF Apart
<1> HIDE DEF E
<1>5. Emits(SetToSeq(E), E) BY <1>2, <1>3, <1>4, EmitsAll
<1> QED BY <1>5 DEF E

\* A transaction with two events.
LEMMA EmitsTwo ==
    ASSUME NEW d \in Message, NEW e \in Message, d.id # e.id
    PROVE  Emits(<<d, e>>, {d, e})
BY DEF Emits

\* The revocations of some keys, and the ending of every child and key.
LEMMA EmitsRevocations ==
    ASSUME NEW S \in SUBSET ApiKeys
    PROVE  Emits(Revocations(S), {Event(k, "revoked") : k \in S})
<1>1. IsFiniteSet(S) BY ConfigAssumption, FS_Subset
<1>2. \A k \in S : Event(k, "revoked") \in Message BY EventTypes DEF KeyTypes
<1> QED BY <1>1, <1>2, EmitsEach DEF Revocations

LEMMA EmitsEndAccess ==
    ASSUME HereTyped
    PROVE  Emits(EndAccess, {Event(k, "revoked") : k \in ActiveKeys}
                              \cup {Event(c, "removed") : c \in rows})
<1> DEFINE D == {Event(k, "revoked") : k \in ActiveKeys}
<1> DEFINE E == {Event(c, "removed") : c \in rows}
<1>1. Emits(Revocations(ActiveKeys), D) BY EmitsRevocations DEF ActiveKeys
<1>2. IsFiniteSet(rows) BY ConfigAssumption, FS_Subset DEF HereTyped
<1>3. \A c \in rows : Event(c, "removed") \in Message
  BY EventTypes DEF ChildTypes, HereTyped
<1>4. Emits(SetToSeq(E), E) BY <1>2, <1>3, EmitsEach
<1>5. \A d \in D, e \in E : d.id # e.id
  BY EventTypes, IdsApart DEF ActiveKeys, HereTyped
<1> HIDE DEF D, E
<1>6. Emits(Revocations(ActiveKeys) \o SetToSeq(E), D \cup E)
  BY <1>1, <1>4, <1>5, EmitsBoth
<1>7. EndAccess = Revocations(ActiveKeys) \o SetToSeq(E) BY DEF EndAccess, E
<1> QED BY <1>6, <1>7 DEF D, E

\* perform_create.
LEMMA CreateChanges ==
    ASSUME Agreed, NEW c \in Children, Create(c) PROVE Changed({Slug, c})
<1> DEFINE d == Event(Slug, "upserted")
<1> DEFINE e == Event(c, "granted")
<1>1. /\ d \in Message /\ e \in Message /\ d.id = Slug /\ e.id = c
      /\ d.type = "upserted" /\ e.type = "granted" /\ Slug # c
  BY EventTypes, IdsApart DEF SlugTypes, ChildTypes
<1>2. Commit(<<d, e>>) BY DEF Create
<1> HIDE DEF d, e
<1>3. Emits(<<d, e>>, {d, e}) BY <1>1, EmitsTwo
<1>4. {x.id : x \in {d, e}} = {Slug, c} BY <1>1
<1>5. Spoke({Slug, c}) /\ word'[Slug] = "upserted" /\ word'[c] = "granted"
  BY <1>1, <1>2, <1>3, <1>4, CommitSpeaks DEF Agreed
<1>6. \A i \in Ids : i \notin {Slug, c} => word'[i] = word[i] BY <1>5 DEF Spoke
<1>7. HereTyped' BY DEF Create, Agreed, HereTyped
<1>8. Announced'
  BY <1>5, <1>6, IdsApart DEF Create, Agreed, HereTyped, Announced, WordOnKey, ActiveKeys
<1>9. \A k \in ApiKeys : mkey'[k] = "active" => mkey[k] = "active" /\ k \notin {Slug, c}
  BY IdsApart DEF Create
<1>10. FirstLife' => created = 0
  BY DEF Create, FirstLife, Agreed, HereTyped
<1> QED BY <1>5, <1>7, <1>8, <1>9, <1>10 DEF Changed

\* perform_update, and the removal of a catalogue model.
LEMMA UpdateChanges == ASSUME Agreed, Update \/ Announce PROVE Changed({Slug})
<1> DEFINE e == Event(Slug, "upserted")
<1>1. e \in Message /\ e.id = Slug /\ e.type = "upserted"
  BY EventTypes DEF SlugTypes
<1>2. Commit(<<e>>) BY DEF Update, Announce
<1> HIDE DEF e
<1>3. Emits(<<e>>, {e}) BY <1>1, EmitsOne
<1>4. {x.id : x \in {e}} = {Slug} BY <1>1
<1>5. Spoke({Slug}) /\ word'[Slug] = "upserted"
  BY <1>1, <1>2, <1>3, <1>4, CommitSpeaks DEF Agreed
<1>6. \A i \in Ids : i # Slug => word'[i] = word[i] BY <1>5 DEF Spoke
<1>7. /\ Found /\ uc' \in {uc, "live"} /\ uc' # "absent" /\ (uc' = "live" /\ uc # "live" => revived')
      /\ revived' = (revived \/ uc = "retired")
      /\ UNCHANGED <<rows, mkey, asked, created>>
  BY DEF Update, Announce, management, Found, Agreed, HereTyped
<1>8. HereTyped' BY <1>7 DEF Agreed, HereTyped
<1>9. Announced'
  BY <1>5, <1>6, <1>7, IdsApart
     DEF Agreed, HereTyped, Announced, WordOnKey, ActiveKeys, Found
<1>10. \A k \in ApiKeys : mkey'[k] = "active" => mkey[k] = "active" /\ k \notin {Slug}
  BY <1>7, IdsApart
<1>11. FirstLife' => FirstLife BY <1>7 DEF FirstLife
<1> QED BY <1>5, <1>8, <1>9, <1>10, <1>11 DEF Changed

\* The writers of a child.
LEMMA AdmitChanges ==
    ASSUME Agreed, NEW c \in Children, Admit(c) PROVE Changed({c})
<1> DEFINE e == Event(c, "granted")
<1>1. e \in Message /\ e.id = c /\ e.type = "granted"
  BY EventTypes DEF ChildTypes
<1>2. Commit(<<e>>) BY DEF Admit
<1> HIDE DEF e
<1>3. Emits(<<e>>, {e}) BY <1>1, EmitsOne
<1>4. {x.id : x \in {e}} = {c} BY <1>1
<1>5. c \in Ids /\ c # Slug /\ c \notin ApiKeys BY IdsApart
<1>6. Spoke({c}) /\ word'[c] = "granted"
  BY <1>1, <1>2, <1>3, <1>4, <1>5, CommitSpeaks DEF Agreed
<1>7. \A i \in Ids : i # c => word'[i] = word[i] BY <1>6 DEF Spoke
<1>8. HereTyped' BY DEF Admit, Agreed, HereTyped
<1>9. Announced'
  BY <1>5, <1>6, <1>7, IdsApart
     DEF Admit, Found, Agreed, HereTyped, Announced, WordOnKey, ActiveKeys
<1>10. \A k \in ApiKeys : mkey'[k] = "active" => mkey[k] = "active" /\ k \notin {c}
  BY <1>5 DEF Admit
<1>11. FirstLife' => FirstLife BY DEF Admit, FirstLife
<1> QED BY <1>5, <1>6, <1>8, <1>9, <1>10, <1>11 DEF Changed

\* The deletes of a child.
LEMMA WithdrawChanges ==
    ASSUME Agreed, NEW c \in Children, Withdraw(c) PROVE Changed({c} \cup Restless(c))
<1> DEFINE d == Event(c, "removed")
<1> DEFINE E == {Event(k, "revoked") : k \in Restless(c)}
<1>1. d \in Message /\ d.id = c /\ d.type = "removed" BY EventTypes DEF ChildTypes
<1>2. Restless(c) \subseteq ApiKeys /\ \A k \in Restless(c) : mkey[k] = "active"
  BY DEF Restless, ActiveKeys
<1>3. Emits(Revocations(Restless(c)), E) BY <1>2, EmitsRevocations
<1>4. \A e \in E : d.id # e.id BY <1>1, <1>2, EventTypes, IdsApart
<1>5. Emits(<<d>>, {d}) BY <1>1, EmitsOne
<1>6. {x.id : x \in {d} \cup E} = {c} \cup Restless(c) BY <1>1, EventTypes
<1>7. \A k \in Restless(c) : \E x \in {d} \cup E : x.id = k /\ x.type = "revoked"
  BY EventTypes
<1>8. Commit(<<d>> \o Revocations(Restless(c))) BY DEF Withdraw
<1> HIDE DEF d, E
<1>9. Emits(<<d>> \o Revocations(Restless(c)), {d} \cup E)
  BY <1>3, <1>4, <1>5, EmitsBoth
<1>10. /\ Spoke({x.id : x \in {d} \cup E})
       /\ \A x \in {d} \cup E : word'[x.id] = x.type
  BY <1>8, <1>9, CommitSpeaks DEF Agreed
<1>11. /\ Spoke({c} \cup Restless(c)) /\ word'[c] = "removed"
       /\ \A k \in Restless(c) : word'[k] = "revoked"
  BY <1>1, <1>6, <1>7, <1>10
<1>12. \A i \in Ids : i \notin {c} \cup Restless(c) => word'[i] = word[i]
  BY <1>11 DEF Spoke
<1>13. /\ Found /\ rows' = rows \ {c} /\ UNCHANGED <<uc, asked, created, revived>>
       /\ mkey' = [k \in ApiKeys |-> IF k \in Restless(c) THEN "revoked" ELSE mkey[k]]
  BY DEF Withdraw, Revoked
<1>14. HereTyped' BY <1>13 DEF Agreed, HereTyped
<1>15. Announced'
  BY <1>2, <1>11, <1>12, <1>13, IdsApart
     DEF Found, Agreed, HereTyped, Announced, WordOnKey, ActiveKeys
<1>16. \A k \in ApiKeys : mkey'[k] = "active" =>
         mkey[k] = "active" /\ k \notin {c} \cup Restless(c)
  BY <1>13, IdsApart
<1>17. FirstLife' => FirstLife BY <1>13 DEF FirstLife
<1>18. Slug \notin {c} \cup Restless(c) BY <1>2, IdsApart
<1> QED BY <1>11, <1>14, <1>15, <1>16, <1>17, <1>18 DEF Changed

\* api_keys: the key, and its owner's grant if he held none.
LEMMA IssueChanges ==
    ASSUME Agreed, NEW k \in ApiKeys, Issue(k)
    PROVE  \E I \in SUBSET Ids : Changed(I)
<1> DEFINE owner == IF asked[k] = "held" THEN {} ELSE {Owner[k]}
<1> DEFINE D == {Event(c, "granted") : c \in owner}
<1> DEFINE e == Event(k, "created")
<1>1. e \in Message /\ e.id = k /\ e.type = "created" BY EventTypes DEF KeyTypes
<1>2. owner \subseteq Children /\ IsFiniteSet(owner)
  BY ConfigAssumption, FS_Subset
<1>3. Commit(SetToSeq(D) \o <<e>>) /\ rows' = rows \cup owner BY DEF Issue
<1>4. /\ Found /\ UNCHANGED <<uc, created, revived>>
      /\ mkey' = [mkey EXCEPT ![k] = "active"] /\ asked[k] # "no"
      /\ asked' = [asked EXCEPT ![k] = "no"]
  BY DEF Issue
<1> HIDE DEF owner, e
<1>5. \A c \in owner : Event(c, "granted") \in Message
  BY <1>2, EventTypes DEF ChildTypes
<1>6. Emits(SetToSeq(D), D) BY <1>2, <1>5, EmitsEach
<1>7. \A d \in D : d.id # e.id BY <1>1, <1>2, EventTypes, IdsApart
<1>8. Emits(<<e>>, {e}) BY <1>1, EmitsOne
<1>9. {x.id : x \in D \cup {e}} = owner \cup {k} BY <1>1, EventTypes
<1>10. \A c \in owner : \E x \in D \cup {e} : x.id = c /\ x.type = "granted"
  BY EventTypes
<1> HIDE DEF D
<1>11. Emits(SetToSeq(D) \o <<e>>, D \cup {e}) BY <1>6, <1>7, <1>8, EmitsBoth
<1>12. /\ Spoke({x.id : x \in D \cup {e}})
       /\ \A x \in D \cup {e} : word'[x.id] = x.type
  BY <1>3, <1>11, CommitSpeaks DEF Agreed
<1>13. /\ Spoke(owner \cup {k}) /\ word'[k] = "created"
       /\ \A c \in owner : word'[c] = "granted"
  BY <1>1, <1>9, <1>10, <1>12
<1>14. \A i \in Ids : i \notin owner \cup {k} => word'[i] = word[i]
  BY <1>13 DEF Spoke
<1>15. mkey[k] = "none" BY <1>4 DEF Agreed, Announced
<1>16. HereTyped' BY <1>2, <1>3, <1>4 DEF Agreed, HereTyped
<1>17. \A l \in ApiKeys : l # k => word'[l] = word[l]
  BY <1>2, <1>14, IdsApart
<1>18. \A c \in Children : c \notin owner => word'[c] = word[c]
  BY <1>14, IdsApart
<1>19. word'[Slug] = word[Slug] BY <1>2, <1>14, IdsApart
<1>20. Announced'
  BY <1>2, <1>3, <1>4, <1>13, <1>15, <1>17, <1>18, <1>19, IdsApart
     DEF Found, Agreed, HereTyped, Announced, WordOnKey, ActiveKeys
<1>21. \A l \in ApiKeys : mkey'[l] = "active" =>
         \/ mkey[l] = "active" /\ l \notin owner \cup {k}
         \/ mkey[l] = "none" /\ word'[l] = "created"
  BY <1>2, <1>4, <1>13, <1>15, IdsApart DEF Agreed, HereTyped
<1>22. FirstLife' => FirstLife BY <1>4 DEF FirstLife
<1>23. owner \cup {k} \in SUBSET Ids /\ Slug \notin owner \cup {k} BY <1>2, IdsApart
<1> QED BY <1>13, <1>16, <1>20, <1>21, <1>22, <1>23 DEF Changed

\* revoke_api_key.
LEMMA RevokeChanges ==
    ASSUME Agreed, NEW k \in ApiKeys, Revoke(k) PROVE Changed({k})
<1> DEFINE E == {Event(l, "revoked") : l \in {k}}
<1>1. Emits(Revocations({k}), E) BY EmitsRevocations
<1>2. {x.id : x \in E} = {k} BY EventTypes
<1>3. \E x \in E : x.id = k /\ x.type = "revoked" BY EventTypes
<1> HIDE DEF E
<1>4. Commit(Revocations({k})) BY DEF Revoke
<1>5. Spoke({k}) /\ word'[k] = "revoked"
  BY <1>1, <1>2, <1>3, <1>4, CommitSpeaks DEF Agreed
<1>6. \A i \in Ids : i # k => word'[i] = word[i] BY <1>5 DEF Spoke
<1>7. /\ Found /\ UNCHANGED <<uc, rows, asked, created, revived>> /\ mkey[k] = "active"
      /\ mkey' = [l \in ApiKeys |-> IF l \in {k} THEN "revoked" ELSE mkey[l]]
  BY DEF Revoke, Revoked
<1>8. HereTyped' BY <1>7 DEF Agreed, HereTyped
<1>9. Announced'
  BY <1>5, <1>6, <1>7, IdsApart
     DEF Found, Agreed, HereTyped, Announced, WordOnKey, ActiveKeys
<1>10. \A l \in ApiKeys : mkey'[l] = "active" => mkey[l] = "active" /\ l \notin {k}
  BY <1>7
<1>11. FirstLife' => FirstLife BY <1>7 DEF FirstLife
<1> QED BY <1>5, <1>8, <1>9, <1>10, <1>11, IdsApart DEF Changed

\* The ids end_access speaks of.
Ended == ActiveKeys \cup rows

\* retire: the deletion, and every child ended on its own key.
LEMMA RetireChanges == ASSUME Agreed, Retire PROVE Changed({Slug} \cup Ended)
<1> DEFINE d == Event(Slug, "deleted")
<1> DEFINE E == {Event(k, "revoked") : k \in ActiveKeys}
                  \cup {Event(c, "removed") : c \in rows}
<1>1. d \in Message /\ d.id = Slug /\ d.type = "deleted" BY EventTypes DEF SlugTypes
<1>2. ActiveKeys \subseteq ApiKeys /\ rows \subseteq Children
  BY DEF ActiveKeys, Agreed, HereTyped
<1>3. Emits(EndAccess, E) BY EmitsEndAccess DEF Agreed
<1>4. Emits(<<d>>, {d}) BY <1>1, EmitsOne
<1>5. \A e \in E : d.id # e.id BY <1>1, <1>2, EventTypes, IdsApart
<1>6. {x.id : x \in {d} \cup E} = {Slug} \cup Ended BY <1>1, EventTypes DEF Ended
<1>7. /\ \A k \in ActiveKeys : Event(k, "revoked") \in {d} \cup E
      /\ \A c \in rows : Event(c, "removed") \in {d} \cup E
  OBVIOUS
<1>8. Commit(<<d>> \o EndAccess) BY DEF Retire
<1> HIDE DEF d, E
<1>9. Emits(<<d>> \o EndAccess, {d} \cup E) BY <1>3, <1>4, <1>5, EmitsBoth
<1>10. /\ Spoke({x.id : x \in {d} \cup E})
       /\ \A x \in {d} \cup E : word'[x.id] = x.type
  BY <1>8, <1>9, CommitSpeaks DEF Agreed
<1>11. /\ Spoke({Slug} \cup Ended) /\ word'[Slug] = "deleted"
       /\ \A k \in ActiveKeys : word'[k] = "revoked"
       /\ \A c \in rows : word'[c] = "removed"
  <2>1. Spoke({Slug} \cup Ended) BY <1>6, <1>10
  <2>2. word'[Slug] = "deleted" BY <1>1, <1>10
  <2>3. ASSUME NEW k \in ActiveKeys PROVE word'[k] = "revoked"
    BY <1>7, <1>10, EventTypes
  <2>4. ASSUME NEW c \in rows PROVE word'[c] = "removed"
    BY <1>7, <1>10, EventTypes
  <2> QED BY <2>1, <2>2, <2>3, <2>4
<1>12. \A i \in Ids : i \notin {Slug} \cup Ended => word'[i] = word[i]
  BY <1>11 DEF Spoke
<1>13. /\ uc = "live" /\ uc' = "retired" /\ UNCHANGED <<rows, asked, created, revived>>
       /\ mkey' = [k \in ApiKeys |-> IF k \in ActiveKeys THEN "revoked" ELSE mkey[k]]
  BY DEF Retire, Revoked
<1>14. HereTyped' BY <1>13 DEF Agreed, HereTyped
<1>15. /\ \A k \in ApiKeys : mkey'[k] # "active"
       /\ \A k \in ApiKeys : WordOnKey(mkey'[k], word'[k])
  BY <1>2, <1>11, <1>12, <1>13, IdsApart
     DEF Ended, Agreed, HereTyped, Announced, WordOnKey, ActiveKeys
<1>16. \A c \in Children : word'[c] # "granted"
  BY <1>2, <1>11, <1>12, IdsApart DEF Ended, Agreed, Announced
<1>17. \A k \in ApiKeys : asked'[k] # "no" => mkey'[k] = "none"
  BY <1>13 DEF ActiveKeys, Agreed, Announced
<1>18. Announced'
  BY <1>11, <1>13, <1>15, <1>16, <1>17, IdsApart
     DEF Agreed, HereTyped, Announced, ActiveKeys
<1>19. ~FirstLife' BY <1>13 DEF FirstLife
<1> QED BY <1>11, <1>14, <1>15, <1>18, <1>19 DEF Changed

\* purge: the same, and the slug is free again.
LEMMA PurgeChanges == ASSUME Agreed, Purge PROVE Changed({Slug} \cup Ended)
<1> DEFINE d == Event(Slug, "purged")
<1> DEFINE E == {Event(k, "revoked") : k \in ActiveKeys}
                  \cup {Event(c, "removed") : c \in rows}
<1>1. d \in Message /\ d.id = Slug /\ d.type = "purged" BY EventTypes DEF SlugTypes
<1>2. ActiveKeys \subseteq ApiKeys /\ rows \subseteq Children
  BY DEF ActiveKeys, Agreed, HereTyped
<1>3. Emits(EndAccess, E) BY EmitsEndAccess DEF Agreed
<1>4. Emits(<<d>>, {d}) BY <1>1, EmitsOne
<1>5. \A e \in E : e.id # d.id BY <1>1, <1>2, EventTypes, IdsApart
<1>6. {x.id : x \in E \cup {d}} = {Slug} \cup Ended BY <1>1, EventTypes DEF Ended
<1>7. /\ \A k \in ActiveKeys : Event(k, "revoked") \in E \cup {d}
      /\ \A c \in rows : Event(c, "removed") \in E \cup {d}
  OBVIOUS
<1>8. Commit(EndAccess \o <<d>>) BY DEF Purge
<1> HIDE DEF d, E
<1>9. Emits(EndAccess \o <<d>>, E \cup {d}) BY <1>3, <1>4, <1>5, EmitsBoth
<1>10. /\ Spoke({x.id : x \in E \cup {d}})
       /\ \A x \in E \cup {d} : word'[x.id] = x.type
  BY <1>8, <1>9, CommitSpeaks DEF Agreed
<1>11. /\ Spoke({Slug} \cup Ended) /\ word'[Slug] = "purged"
       /\ \A k \in ActiveKeys : word'[k] = "revoked"
       /\ \A c \in rows : word'[c] = "removed"
  <2>1. Spoke({Slug} \cup Ended) BY <1>6, <1>10
  <2>2. word'[Slug] = "purged" BY <1>1, <1>10
  <2>3. ASSUME NEW k \in ActiveKeys PROVE word'[k] = "revoked"
    BY <1>7, <1>10, EventTypes
  <2>4. ASSUME NEW c \in rows PROVE word'[c] = "removed"
    BY <1>7, <1>10, EventTypes
  <2> QED BY <2>1, <2>2, <2>3, <2>4
<1>12. \A i \in Ids : i \notin {Slug} \cup Ended => word'[i] = word[i]
  BY <1>11 DEF Spoke
<1>13. /\ uc = "retired" /\ uc' = "absent" /\ rows' = {}
       /\ UNCHANGED <<asked, created, revived>>
       /\ mkey' = [k \in ApiKeys |-> IF k \in ActiveKeys THEN "revoked" ELSE mkey[k]]
  BY DEF Purge, Revoked
<1>14. HereTyped' BY <1>13 DEF Agreed, HereTyped
<1>15. /\ \A k \in ApiKeys : mkey'[k] # "active"
       /\ \A k \in ApiKeys : WordOnKey(mkey'[k], word'[k])
  BY <1>2, <1>11, <1>12, <1>13, IdsApart
     DEF Ended, Agreed, HereTyped, Announced, WordOnKey, ActiveKeys
<1>16. \A c \in Children : word'[c] # "granted"
  BY <1>2, <1>11, <1>12, IdsApart DEF Ended, Agreed, Announced
<1>17. \A k \in ApiKeys : asked'[k] # "no" => mkey'[k] = "none"
  BY <1>13 DEF ActiveKeys, Agreed, Announced
<1>18. Announced'
  BY <1>11, <1>13, <1>15, <1>16, <1>17, IdsApart
     DEF Agreed, HereTyped, Announced, ActiveKeys
<1>19. ~FirstLife' BY <1>13 DEF FirstLife
<1> QED BY <1>11, <1>14, <1>15, <1>18, <1>19 DEF Changed

\* The question of api_keys changes what it was told and nothing else.
LEMMA AskKeeps ==
    ASSUME Agreed, NEW k \in ApiKeys, AskForGrant(k) PROVE Agreed'
<1>1. /\ mkey[k] = "none" /\ asked' = [asked EXCEPT ![k] = asked'[k]]
      /\ asked'[k] \in {"held", "unheld"}
      /\ UNCHANGED <<uc, rows, mkey, outbox, batch, sent, log, pos, guc, gchild, gkey,
                     created, bound, word, lost, revived>>
  BY DEF AskForGrant, relay, gateway, counts, Agreed, HereTyped
<1>2. HereTyped' BY <1>1 DEF Agreed, HereTyped
<1>3. EventsTyped' /\ ThereTyped'
  BY <1>1 DEF Agreed, EventsTyped, ThereTyped, KeysTyped
<1>4. Kept' BY <1>1 DEF Agreed, Kept, NonePends, WordPends, NoneBehind, AllSent, WordSaid
<1>5. \A l \in ApiKeys : l # k => asked'[l] = asked[l]
  BY <1>1 DEF Agreed, HereTyped
<1>6. Announced' BY <1>1, <1>5 DEF Agreed, Announced, ActiveKeys
<1>7. DrawnOnce' /\ Heard' BY <1>1 DEF Agreed, DrawnOnce, Only, Heard
<1>8. Obeyed' BY <1>1 DEF Agreed, Obeyed, HasRead
<1>9. Arriving' BY <1>1 DEF Agreed, Arriving, FirstLife, Only, HasRead, ActiveKeys
<1> QED BY <1>2, <1>3, <1>4, <1>6, <1>7, <1>8, <1>9 DEF Agreed

\* Every change of Management.
LEMMA ChangeAgrees == ASSUME Agreed, Change PROVE Agreed'
<1>1. CASE \E c \in Children : Create(c) \/ Admit(c) \/ Withdraw(c)
  <2>1. PICK c \in Children : Create(c) \/ Admit(c) \/ Withdraw(c) BY <1>1
  <2>2. /\ {Slug, c} \in SUBSET Ids /\ {c} \in SUBSET Ids
        /\ {c} \cup Restless(c) \in SUBSET Ids
    BY IdsApart DEF Restless, ActiveKeys
  <2> QED BY <2>1, <2>2, CreateChanges, AdmitChanges, WithdrawChanges, ChangedAgrees
<1>2. CASE \E k \in ApiKeys : AskForGrant(k) \/ Issue(k) \/ Revoke(k)
  <2>1. PICK k \in ApiKeys : AskForGrant(k) \/ Issue(k) \/ Revoke(k) BY <1>2
  <2>2. {k} \in SUBSET Ids BY IdsApart
  <2> QED BY <2>1, <2>2, AskKeeps, IssueChanges, RevokeChanges, ChangedAgrees
<1>3. CASE Update \/ Announce \/ Retire \/ Purge
  <2>1. {Slug} \in SUBSET Ids /\ {Slug} \cup Ended \in SUBSET Ids
    BY IdsApart DEF Ended, ActiveKeys, Agreed, HereTyped
  <2> QED BY <1>3, <2>1, UpdateChanges, RetireChanges, PurgeChanges, ChangedAgrees
<1> QED BY <1>1, <1>2, <1>3 DEF Change

-----------------------------------------------------------------------------
(* The relay.                                                              *)

\* The event a run sends next.
LEMMA SendingIs ==
    ASSUME EventsTyped, InRun
    PROVE  /\ sent + 1 \in DOMAIN outbox /\ Sending = outbox[sent + 1]
           /\ Sending \in Message /\ Sending.id \in Ids
           /\ Sending.type \in Types /\ Sending.type \in TypesOf(Sending.id)
<1>1. sent + 1 \in 1 .. Len(outbox) BY DEF EventsTyped, InRun
<1>2. outbox \in Seq(Message) BY DEF EventsTyped
<1>3. Sending \in Message BY <1>1, <1>2 DEF Sending
<1> QED BY <1>1, <1>2, <1>3 DEF Sending, Message

\* Kafka with that event behind the others of its id.
LEMMA AppendedIs ==
    ASSUME EventsTyped, InRun
    PROVE  /\ Appended \in [Ids -> Seq(Types)]
           /\ \A i \in Ids : i # Sending.id => Appended[i] = log[i]
           /\ Len(Appended[Sending.id]) = Len(log[Sending.id]) + 1
           /\ Appended[Sending.id] # <<>> /\ Last(Appended[Sending.id]) = Sending.type
           /\ \A n \in DOMAIN Appended[Sending.id] :
                IF n \in DOMAIN log[Sending.id]
                THEN Appended[Sending.id][n] = log[Sending.id][n]
                ELSE Appended[Sending.id][n] = Sending.type
<1> DEFINE i == Sending.id
<1> DEFINE t == Sending.type
<1>1. i \in Ids /\ t \in Types BY SendingIs
<1>2. log \in [Ids -> Seq(Types)] BY DEF EventsTyped
<1>3. Appended = [log EXCEPT ![i] = Append(log[i], t)] BY DEF Appended
<1> HIDE DEF i, t
<1>4. log[i] \in Seq(Types) BY <1>1, <1>2
<1> DEFINE q == Append(log[i], t)
<1>5. /\ q \in Seq(Types) /\ Len(q) = Len(log[i]) + 1 /\ Len(log[i]) \in Nat
      /\ q[Len(q)] = t /\ DOMAIN q = 1 .. Len(q) /\ DOMAIN log[i] = 1 .. Len(log[i])
      /\ \A n \in 1 .. Len(log[i]) : q[n] = log[i][n]
  BY <1>1, <1>4
<1> HIDE DEF q
<1>6. /\ q # <<>> /\ Last(q) = t BY <1>5 DEF Last
<1>7. \A n \in DOMAIN q : IF n \in DOMAIN log[i] THEN q[n] = log[i][n] ELSE q[n] = t
  BY <1>5
<1>8. Appended = [log EXCEPT ![i] = q] BY <1>3 DEF q
<1>9. /\ Appended \in [Ids -> Seq(Types)] /\ Appended[i] = q
      /\ \A j \in Ids : j # i => Appended[j] = log[j]
  BY <1>1, <1>2, <1>5, <1>8
<1> QED BY <1>5, <1>6, <1>7, <1>9 DEF i, t

\* What every step of the relay does: events pass from the outbox to Kafka.
Forwarded ==
    /\ RelayOnly /\ lost \subseteq lost'
    /\ \A i \in Ids : log'[i] = log[i] \/ Len(log'[i]) = Len(log[i]) + 1
    /\ \A i \in Ids : \A n \in DOMAIN log'[i] :
         \/ n \in DOMAIN log[i] /\ log'[i][n] = log[i][n]
         \/ \E m \in DOMAIN outbox : outbox[m].id = i /\ outbox[m].type = log'[i][n]
    /\ \A n \in DOMAIN outbox' : \E m \in DOMAIN outbox : outbox'[n] = outbox[m]

\* The one event, sent.
LEMMA AppendedForwards ==
    ASSUME EventsTyped, InRun, log' \in {log, Appended}, RelayOnly, lost \subseteq lost',
           UNCHANGED outbox
    PROVE  Forwarded
<1>1. CASE log' = log
  BY <1>1 DEF Forwarded
<1>2. CASE log' = Appended
  <2>1. \A i \in Ids : i # Sending.id => log'[i] = log[i] BY <1>2, AppendedIs
  <2>2. Len(log'[Sending.id]) = Len(log[Sending.id]) + 1 BY <1>2, AppendedIs
  <2>3. \A n \in DOMAIN log'[Sending.id] :
          \/ n \in DOMAIN log[Sending.id] /\ log'[Sending.id][n] = log[Sending.id][n]
          \/ log'[Sending.id][n] = Sending.type
    BY <1>2, AppendedIs
  <2>4. \E m \in DOMAIN outbox : outbox[m].id = Sending.id /\ outbox[m].type = Sending.type
    BY SendingIs
  <2> QED BY <2>1, <2>2, <2>3, <2>4 DEF Forwarded
<1> QED BY <1>1, <1>2

\* What was said of each id is what it was, and nothing is read by it.
LEMMA ForwardedAgrees ==
    ASSUME Agreed, Forwarded, EventsTyped', Kept' PROVE Agreed'
<1>1. UNCHANGED <<uc, rows, mkey, asked, pos, guc, gchild, gkey, created, bound, word,
                  revived>>
  BY DEF Forwarded, RelayOnly, management, gateway, counts
<1>2. HereTyped' /\ ThereTyped' /\ Announced'
  BY <1>1 DEF Agreed, HereTyped, ThereTyped, KeysTyped, Announced, ActiveKeys
<1>3. ASSUME NEW i \in Ids, NEW t, Only(i, t) PROVE Only(i, t)'
  BY <1>3 DEF Forwarded, Only
<1>4. \A i \in Ids : /\ log[i] # <<>> => log'[i] # <<>>
                     /\ log'[i] # log[i] => pos'[i] # Len(log'[i])
  BY <1>1 DEF Forwarded, Agreed, EventsTyped
<1>5. ASSUME NEW i \in Ids, NEW t, HasRead(i, t)' PROVE HasRead(i, t)
  <2>1. log'[i] = log[i] BY <1>4, <1>5 DEF HasRead
  <2> QED BY <1>1, <1>5, <2>1 DEF HasRead, Forwarded
<1>6. DrawnOnce' BY <1>1, <1>3 DEF Agreed, DrawnOnce, Ids
<1>7. Obeyed' BY <1>1, <1>5 DEF Agreed, Obeyed, Ids
<1>8. Heard' BY <1>1, <1>4 DEF Agreed, Heard, Ids, ThereTyped
<1>9. Arriving'
  <2> SUFFICES ASSUME FirstLife' PROVE Arriving' BY DEF Arriving
  <2>1. FirstLife BY <1>1 DEF FirstLife
  <2>2. Only(Slug, "upserted")' /\ guc' # "tombstone"
    BY <1>1, <1>3, <2>1 DEF Agreed, Arriving, Ids
  <2>3. Slug \notin lost' /\ pos'[Slug] > 0 => guc' = "live"
    BY <1>1, <2>1 DEF Agreed, Arriving, Forwarded
  <2>4. \A c \in Children : HasRead(c, "granted")' => c \in gchild'
    BY <1>1, <1>5, <2>1 DEF Agreed, Arriving, Ids
  <2>5. \A k \in ActiveKeys' :
          gkey'[k] # "inactive" /\ (k \notin lost' /\ pos'[k] > 0 => gkey'[k] = "active")
    BY <1>1, <2>1 DEF Agreed, Arriving, Forwarded, ActiveKeys
  <2> QED BY <2>2, <2>3, <2>4, <2>5 DEF Arriving
<1> QED BY <1>2, <1>6, <1>7, <1>8, <1>9 DEF Agreed

\* _relay.
LEMMA StartRunAgrees == ASSUME Agreed, StartRun PROVE Agreed'
<1>1. /\ batch' = Taken /\ sent' = 0 /\ UNCHANGED <<outbox, log, lost>> /\ RelayOnly
  BY DEF StartRun
<1>2. UNCHANGED <<pos, bound, word>> BY <1>1 DEF RelayOnly
<1>3. Forwarded BY <1>1 DEF Forwarded
<1>4. Taken \in Nat /\ Taken <= Len(outbox)
  BY ConfigAssumption DEF Agreed, EventsTyped, Taken
<1>5. EventsTyped' BY <1>1, <1>2, <1>4 DEF Agreed, EventsTyped
<1>6. \A i \in Ids : AllSent(i)' => AllSent(i)
  BY <1>1 DEF AllSent, Agreed, EventsTyped
<1>7. Kept'
  BY <1>1, <1>2, <1>6 DEF Agreed, Kept, NonePends, WordPends, NoneBehind, WordSaid
<1> QED BY <1>3, <1>5, <1>7, ForwardedAgrees

\* An event is at the broker, and the run knows it or not.
LEMMA SentAgrees ==
    ASSUME Agreed, InRun, log' = Appended, RelayOnly, UNCHANGED <<outbox, lost>>,
           \/ sent' = sent + 1 /\ batch' = batch
           \/ sent' = sent /\ batch' = sent
    PROVE  Agreed'
<1>1. EventsTyped BY DEF Agreed
<1>2. UNCHANGED <<pos, bound, word>> BY DEF RelayOnly
<1>3. Forwarded BY <1>1, AppendedForwards
<1> DEFINE i == Sending.id
<1>4. /\ i \in Ids /\ sent + 1 \in DOMAIN outbox /\ outbox[sent + 1].id = i
      /\ outbox[sent + 1].type = Sending.type /\ Sending.type \in TypesOf(i)
  BY <1>1, SendingIs
<1>5. /\ log' \in [Ids -> Seq(Types)]
      /\ \A j \in Ids : j # i => log'[j] = log[j]
      /\ Len(log'[i]) = Len(log[i]) + 1 /\ log'[i] # <<>> /\ Last(log'[i]) = Sending.type
      /\ \A n \in DOMAIN log'[i] :
           IF n \in DOMAIN log[i] THEN log'[i][n] = log[i][n]
                                  ELSE log'[i][n] = Sending.type
  BY <1>1, AppendedIs
<1> HIDE DEF i
<1>6. EventsTyped'
  <2>1. sent' \in Nat /\ batch' \in Nat /\ sent' <= batch' /\ batch' <= Len(outbox')
    BY <1>1 DEF EventsTyped, InRun
  <2>2. \A j \in Ids : pos'[j] <= Len(log'[j])
    BY <1>1, <1>2, <1>4, <1>5 DEF EventsTyped
  <2>3. ASSUME NEW j \in Ids, NEW n \in DOMAIN log'[j] PROVE log'[j][n] \in TypesOf(j)
    <3>1. n \in DOMAIN log[j] => log[j][n] \in TypesOf(j)
      BY <1>1 DEF EventsTyped
    <3>2. CASE j = i
      BY <2>3, <3>1, <3>2, <1>4, <1>5
    <3>3. CASE j # i
      <4>1. log'[j] = log[j]
        BY <3>3, <1>5
      <4> QED BY <2>3, <3>1, <4>1
    <3> QED BY <3>2, <3>3
  <2> QED BY <1>1, <1>2, <1>5, <2>1, <2>2, <2>3 DEF EventsTyped
<1>7. word[i] # "none"
  BY <1>4 DEF Agreed, Kept, NonePends
<1>8. \A j \in Ids : word'[j] = "none" => NonePends(j)' /\ log'[j] = <<>>
  BY <1>2, <1>5, <1>7 DEF Agreed, Kept, NonePends
<1>9. \A j \in Ids : word'[j] # "none" => WordPends(j)' \/ NonePends(j)'
  BY <1>2 DEF Agreed, Kept, NonePends, WordPends, NoneBehind
<1>10. ASSUME NEW j \in Ids \ lost', word'[j] # "none", AllSent(j)' PROVE WordSaid(j)'
  <2>1. CASE j # i
    <3>1. AllSent(j)
      <4> SUFFICES ASSUME NEW n \in DOMAIN outbox, outbox[n].id = j PROVE n <= sent
        BY DEF AllSent
      <4>1. n <= sent' /\ n # sent + 1 BY <1>4, <1>10, <2>1 DEF AllSent
      <4>2. n \in Nat /\ sent \in Nat BY <1>1 DEF EventsTyped
      <4> QED BY <4>1, <4>2
    <3>2. WordSaid(j) BY <3>1, <1>2, <1>10 DEF Agreed, Kept
    <3> QED BY <3>2, <1>2, <1>5, <2>1 DEF WordSaid
  <2>2. CASE j = i
    <3>1. sent \in Nat /\ Len(outbox) \in Nat /\ DOMAIN outbox = 1 .. Len(outbox)
      BY <1>1 DEF EventsTyped
    <3>2. sent + 1 <= sent' BY <1>4, <1>10, <2>2 DEF AllSent
    <3>3. sent' = sent + 1 BY <3>1, <3>2
    <3>4. WordPends(i) BY <1>4, <1>7 DEF Agreed, Kept, NonePends
    <3>5. PICK n \in DOMAIN outbox : outbox[n] = Event(i, word[i]) /\ NoneBehind(i, n)
      BY <3>4 DEF WordPends
    <3>6. outbox[n].id = i /\ outbox[n].type = word[i] BY <3>5 DEF Event
    <3>7. n <= sent + 1 BY <3>3, <3>6, <1>10, <2>2 DEF AllSent
    <3>8. sent + 1 <= n BY <1>4, <3>5 DEF NoneBehind
    <3>9. n = sent + 1 BY <3>1, <3>7, <3>8
    <3> QED BY <3>6, <3>9, <1>2, <1>4, <1>5, <2>2 DEF WordSaid
  <2> QED BY <2>1, <2>2
<1>11. Kept' BY <1>8, <1>9, <1>10 DEF Kept
<1> QED BY <1>3, <1>6, <1>11, ForwardedAgrees

\* RecordRefused: the event is left out, and its id is among the lost.
LEMMA ParkAgrees == ASSUME Agreed, Park PROVE Agreed'
<1>1. /\ InRun /\ sent' = sent + 1 /\ lost' = lost \cup {Sending.id}
      /\ UNCHANGED <<batch, outbox, log>> /\ RelayOnly
  BY DEF Park
<1>2. UNCHANGED <<pos, bound, word>> BY <1>1 DEF RelayOnly
<1>3. Forwarded BY <1>1 DEF Forwarded
<1>4. /\ Sending.id \in Ids /\ sent + 1 \in DOMAIN outbox
      /\ outbox[sent + 1].id = Sending.id
  BY <1>1, SendingIs DEF Agreed
<1>5. EventsTyped'
  BY <1>1, <1>2, <1>4 DEF Agreed, EventsTyped, InRun
<1>6. ASSUME NEW j \in Ids \ lost', AllSent(j)' PROVE AllSent(j) /\ j \notin lost
  <2>1. j # Sending.id /\ j \notin lost BY <1>1, <1>6
  <2> SUFFICES ASSUME NEW n \in DOMAIN outbox, outbox[n].id = j PROVE n <= sent
    BY <2>1 DEF AllSent
  <2>2. n <= sent + 1 /\ n # sent + 1 BY <1>1, <1>4, <1>6, <2>1 DEF AllSent
  <2>3. n \in Nat /\ sent \in Nat BY DEF Agreed, EventsTyped
  <2> QED BY <2>2, <2>3
<1>7. Kept'
  BY <1>1, <1>2, <1>6 DEF Agreed, Kept, NonePends, WordPends, NoneBehind, WordSaid
<1> QED BY <1>3, <1>5, <1>7, ForwardedAgrees

\* A send fails: the run ends before its event.
LEMMA SendFailsAgrees == ASSUME Agreed, SendFails PROVE Agreed'
<1>1. /\ InRun /\ log' \in {log, Appended} /\ RelayOnly
      /\ sent' = sent /\ batch' = sent /\ UNCHANGED <<outbox, lost>>
  BY DEF SendFails, AfterFailure
<1>2. CASE log' = Appended
  BY <1>1, <1>2, SentAgrees
<1>3. CASE log' = log
  <2>1. UNCHANGED <<pos, bound, word>> BY <1>1 DEF RelayOnly
  <2>2. Forwarded BY <1>1, <1>3 DEF Forwarded
  <2>3. EventsTyped' BY <1>1, <1>3, <2>1 DEF Agreed, EventsTyped
  <2>4. Kept'
    BY <1>1, <1>3, <2>1
       DEF Agreed, Kept, NonePends, WordPends, NoneBehind, AllSent, WordSaid
  <2> QED BY <2>2, <2>3, <2>4, ForwardedAgrees
<1> QED BY <1>1, <1>2, <1>3

\* The relay dies: the next run begins where this one did.
LEMMA RelayCrashAgrees == ASSUME Agreed, RelayCrash PROVE Agreed'
<1>1. batch' = 0 /\ sent' = 0 /\ UNCHANGED <<outbox, log, lost>> /\ RelayOnly
  BY DEF RelayCrash
<1>2. UNCHANGED <<pos, bound, word>> BY <1>1 DEF RelayOnly
<1>3. Forwarded BY <1>1 DEF Forwarded
<1>4. EventsTyped' BY <1>1, <1>2 DEF Agreed, EventsTyped
<1>5. \A i \in Ids : AllSent(i)' => AllSent(i)
  BY <1>1 DEF AllSent, Agreed, EventsTyped
<1>6. Kept'
  BY <1>1, <1>2, <1>5 DEF Agreed, Kept, NonePends, WordPends, NoneBehind, WordSaid
<1> QED BY <1>3, <1>4, <1>6, ForwardedAgrees

\* What is left of a sequence behind place k.
LEMMA SuffixIs ==
    ASSUME NEW S, NEW s \in Seq(S), NEW k \in Nat, k <= Len(s)
    PROVE  LET t == SubSeq(s, k + 1, Len(s))
           IN  /\ t \in Seq(S) /\ Len(t) = Len(s) - k
               /\ \A n \in DOMAIN t : n + k \in DOMAIN s /\ t[n] = s[n + k]
               /\ \A n \in DOMAIN s : n > k => n - k \in DOMAIN t /\ t[n - k] = s[n]
<1> DEFINE l == Len(s)
<1> DEFINE t == SubSeq(s, k + 1, l)
<1>1. l \in Nat /\ k <= l /\ DOMAIN s = 1 .. l OBVIOUS
<1>2. \A n \in k + 1 .. l : s[n] \in S BY <1>1
<1>3. /\ t \in Seq(S) /\ Len(t) = IF k + 1 <= l THEN l - (k + 1) + 1 ELSE 0
      /\ \A n \in 1 .. l - (k + 1) + 1 : t[n] = s[k + 1 + n - 1]
  BY <1>1, <1>2, SubSeqProperties
<1> HIDE DEF t, l
<1>4. Len(t) = l - k /\ l - (k + 1) + 1 = l - k BY <1>1, <1>3
<1>5. DOMAIN t = 1 .. l - k BY <1>3, <1>4
<1>6. \A n \in 1 .. l - k : t[n] = s[n + k] /\ n + k \in 1 .. l
  <2>1. \A n \in 1 .. l - k : /\ n \in 1 .. l - (k + 1) + 1
                             /\ k + 1 + n - 1 = n + k /\ n + k \in 1 .. l
    BY <1>1, <1>4
  <2> QED BY <2>1, <1>3
<1>7. \A n \in 1 .. l : n > k => n - k \in 1 .. l - k /\ (n - k) + k = n
  BY <1>1
<1>8. \A n \in 1 .. l : n > k => t[n - k] = s[n] BY <1>6, <1>7
<1>9. /\ t \in Seq(S) /\ Len(t) = l - k
      /\ \A n \in DOMAIN t : n + k \in DOMAIN s /\ t[n] = s[n + k]
      /\ \A n \in DOMAIN s : n > k => n - k \in DOMAIN t /\ t[n - k] = s[n]
  BY <1>1, <1>3, <1>4, <1>5, <1>6, <1>7, <1>8
<1> QED BY <1>9 DEF t, l

\* What the run sent or set aside leaves the outbox.
LEMMA MarkAgrees == ASSUME Agreed, Mark PROVE Agreed'
<1>1. /\ batch > 0 /\ sent = batch /\ outbox' = SubSeq(outbox, sent + 1, Len(outbox))
      /\ batch' = 0 /\ sent' = 0 /\ UNCHANGED <<log, lost>> /\ RelayOnly
  BY DEF Mark
<1>2. UNCHANGED <<pos, bound, word>> BY <1>1 DEF RelayOnly
<1>3. /\ outbox \in Seq(Message) /\ Len(outbox) \in Nat /\ DOMAIN outbox = 1 .. Len(outbox)
      /\ sent \in Nat /\ sent <= Len(outbox)
  BY DEF Agreed, EventsTyped
<1>4. /\ outbox' \in Seq(Message) /\ DOMAIN outbox' = 1 .. Len(outbox) - sent
      /\ Len(outbox') = Len(outbox) - sent
      /\ \A n \in DOMAIN outbox' :
           n + sent \in DOMAIN outbox /\ outbox'[n] = outbox[n + sent]
      /\ \A n \in DOMAIN outbox : n > sent =>
           n - sent \in DOMAIN outbox' /\ outbox'[n - sent] = outbox[n]
  <2>1. /\ outbox' \in Seq(Message) /\ Len(outbox') = Len(outbox) - sent
        /\ \A n \in DOMAIN outbox' :
             n + sent \in DOMAIN outbox /\ outbox'[n] = outbox[n + sent]
        /\ \A n \in DOMAIN outbox : n > sent =>
             n - sent \in DOMAIN outbox' /\ outbox'[n - sent] = outbox[n]
    BY <1>1, <1>3, SuffixIs
  <2> QED BY <2>1
<1>5. Forwarded
  <2>1. \A n \in DOMAIN outbox' : \E m \in DOMAIN outbox : outbox'[n] = outbox[m]
    BY <1>4
  <2> QED BY <1>1, <2>1 DEF Forwarded
<1>6. EventsTyped'
  <2>1. sent' = 0 /\ batch' = 0 BY <1>1
  <2>2. outbox' \in Seq(Message) BY <1>4
  <2>3. Len(outbox') \in Nat BY <2>2
  <2>4. batch' <= Len(outbox') BY <2>1, <2>3
  <2> QED BY <1>1, <1>2, <2>1, <2>2, <2>4 DEF Agreed, EventsTyped
<1>7. \A j \in Ids : word'[j] = "none" => NonePends(j)' /\ log'[j] = <<>>
  BY <1>1, <1>2, <1>4 DEF Agreed, Kept, NonePends
<1>8. ASSUME NEW j \in Ids, word'[j] # "none" PROVE WordPends(j)' \/ NonePends(j)'
  <2>1. CASE NonePends(j)
    BY <2>1, <1>4 DEF NonePends
  <2>2. CASE WordPends(j)
    <3>1. PICK n \in DOMAIN outbox : outbox[n] = Event(j, word[j]) /\ NoneBehind(j, n)
      BY <2>2 DEF WordPends
    <3>2. CASE n > sent
      <4>1. n - sent \in DOMAIN outbox' /\ outbox'[n - sent] = Event(j, word'[j])
        BY <3>1, <3>2, <1>2, <1>4
      <4>2. \A m \in DOMAIN outbox' : outbox'[m].id = j => m <= n - sent
        BY <3>1, <1>3, <1>4 DEF NoneBehind
      <4> QED BY <4>1, <4>2 DEF WordPends, NoneBehind
    <3>3. CASE ~(n > sent)
      BY <3>1, <3>3, <1>3, <1>4 DEF NonePends, NoneBehind
    <3> QED BY <3>2, <3>3
  <2> QED BY <2>1, <2>2, <1>2, <1>8 DEF Agreed, Kept
<1>9. ASSUME NEW j \in Ids \ lost', word'[j] # "none", AllSent(j)' PROVE WordSaid(j)'
  <2>1. AllSent(j)
    <3> SUFFICES ASSUME NEW n \in DOMAIN outbox, outbox[n].id = j, n > sent PROVE FALSE
      BY <1>3 DEF AllSent
    <3>1. n - sent \in DOMAIN outbox' /\ outbox'[n - sent].id = j BY <1>4
    <3>2. n - sent <= 0 BY <3>1, <1>1, <1>9 DEF AllSent
    <3> QED BY <3>1, <3>2, <1>4
  <2>2. WordSaid(j) BY <2>1, <1>1, <1>2, <1>9 DEF Agreed, Kept
  <2> QED BY <2>2, <1>1, <1>2 DEF WordSaid
<1>10. Kept' BY <1>7, <1>8, <1>9 DEF Kept
<1> QED BY <1>5, <1>6, <1>10, ForwardedAgrees

-----------------------------------------------------------------------------
(* The consumer.                                                           *)

\* What no step of the consumer changes: what Kafka holds of each id, but for a
\* compaction, which leaves the last event.
Consumed ==
    /\ ConsumerOnly /\ lost \subseteq lost'
    /\ \A i \in Ids : log[i] # <<>> => log'[i] # <<>> /\ Last(log'[i]) = Last(log[i])
    /\ \A i \in Ids : \A n \in DOMAIN log'[i] : \E m \in DOMAIN log[i] : log'[i][n] = log[i][m]

\* So what Management said, and that Kafka has it, stands.
LEMMA ConsumedKeeps ==
    ASSUME Agreed, Consumed, EventsTyped'
    PROVE  /\ HereTyped' /\ Kept' /\ Announced' /\ DrawnOnce'
           /\ \A i \in Ids, t \in Types : Only(i, t) => Only(i, t)'
<1>1. UNCHANGED <<uc, rows, mkey, asked, outbox, batch, sent, created, bound, word, revived>>
  BY DEF Consumed, ConsumerOnly, management, relay, counts
<1>2. HereTyped' /\ Announced'
  BY <1>1 DEF Agreed, HereTyped, Announced, ActiveKeys
<1>3. ASSUME NEW i \in Ids, NEW t, Only(i, t) PROVE Only(i, t)'
  <2>1. \A n \in DOMAIN log'[i] : log'[i][n] = t BY <1>3 DEF Consumed, Only
  <2> QED BY <1>1, <1>3, <2>1 DEF Only
<1>4. DrawnOnce' BY <1>1, <1>3 DEF Agreed, DrawnOnce, Ids
<1>5. ASSUME NEW i \in Ids, log[i] = <<>> PROVE log'[i] = <<>>
  <2>1. DOMAIN log[i] = {} BY <1>5
  <2>2. DOMAIN log'[i] = {} BY <2>1 DEF Consumed
  <2>3. log'[i] \in Seq(Types) BY DEF EventsTyped
  <2>4. DOMAIN log'[i] = 1 .. Len(log'[i]) BY <2>3
  <2>5. CASE log'[i] # <<>>
    <3>1. Len(log'[i]) \in Nat \ {0} BY <2>3, <2>5, EmptySeq
    <3>2. 1 \in 1 .. Len(log'[i]) BY <3>1
    <3> QED BY <3>2, <2>2, <2>4
  <2> QED BY <2>5
<1>6. \A i \in Ids : word'[i] = "none" => NonePends(i)' /\ log'[i] = <<>>
  BY <1>1, <1>5 DEF Agreed, Kept, NonePends
<1>7. \A i \in Ids : word'[i] # "none" => WordPends(i)' \/ NonePends(i)'
  BY <1>1 DEF Agreed, Kept, NonePends, WordPends, NoneBehind
<1>8. ASSUME NEW i \in Ids \ lost', word'[i] # "none", AllSent(i)' PROVE WordSaid(i)'
  <2>1. i \notin lost /\ AllSent(i) BY <1>1, <1>8 DEF Consumed, AllSent
  <2>2. WordSaid(i) BY <2>1, <1>1, <1>8 DEF Agreed, Kept
  <2> QED BY <2>2, <1>1 DEF WordSaid, Consumed
<1>9. Kept' BY <1>6, <1>7, <1>8 DEF Kept
<1> QED BY <1>2, <1>3, <1>4, <1>9

\* A step after which the consumer has read no more than before, the read-model
\* as it was.
LEMMA BehindAgrees ==
    ASSUME Agreed, Consumed, EventsTyped', UNCHANGED gateway,
           \A i \in Ids \ lost' : pos'[i] = Len(log'[i]) /\ log'[i] # <<>> =>
               pos[i] = Len(log[i]) /\ log[i] # <<>>,
           \A i \in Ids \ lost' : pos'[i] > 0 => pos[i] > 0
    PROVE  Agreed'
<1>1. UNCHANGED <<guc, gchild, gkey, uc, mkey, created, revived>>
  BY DEF Consumed, ConsumerOnly, management, gateway, counts
<1>2. ASSUME NEW i \in Ids, NEW t, HasRead(i, t)' PROVE HasRead(i, t)
  BY <1>2 DEF HasRead, Consumed
<1>3. ThereTyped' BY <1>1 DEF Agreed, ThereTyped, KeysTyped
<1>4. Obeyed' BY <1>1, <1>2 DEF Agreed, Obeyed, Ids
<1>5. Heard' BY <1>1 DEF Agreed, Heard, Consumed, Ids, ThereTyped
<1>6. Arriving'
  <2> SUFFICES ASSUME FirstLife' PROVE Arriving' BY DEF Arriving
  <2>1. FirstLife BY <1>1 DEF FirstLife
  <2>2. Only(Slug, "upserted")' /\ guc' # "tombstone"
    BY <1>1, <2>1, ConsumedKeeps DEF Agreed, Arriving, Ids, Types
  <2>3. Slug \notin lost' /\ pos'[Slug] > 0 => guc' = "live"
    BY <1>1, <2>1 DEF Agreed, Arriving, Consumed, Ids
  <2>4. \A c \in Children : HasRead(c, "granted")' => c \in gchild'
    BY <1>1, <1>2, <2>1 DEF Agreed, Arriving, Ids
  <2>5. \A k \in ActiveKeys' :
          gkey'[k] # "inactive" /\ (k \notin lost' /\ pos'[k] > 0 => gkey'[k] = "active")
    BY <1>1, <2>1 DEF Agreed, Arriving, Consumed, ActiveKeys, Ids
  <2> QED BY <2>2, <2>3, <2>4, <2>5 DEF Arriving
<1> QED BY <1>3, <1>4, <1>5, <1>6, ConsumedKeeps DEF Agreed

\* An event is skipped: its id is among the lost.
LEMMA SkipAgrees == ASSUME Agreed, NEW i \in Ids, Skip(i) PROVE Agreed'
<1>1. /\ pos[i] < Len(log[i]) /\ lost' = lost \cup {i}
      /\ pos' = [pos EXCEPT ![i] = pos[i] + 1] /\ log' = log /\ UNCHANGED gateway
      /\ ConsumerOnly
  BY DEF Skip
<1>2. Consumed BY <1>1 DEF Consumed
<1>3. \A j \in Ids : j # i => pos'[j] = pos[j] BY <1>1 DEF Agreed, EventsTyped
<1>4. pos'[i] = pos[i] + 1 /\ pos' \in [Ids -> Nat]
  BY <1>1 DEF Agreed, EventsTyped
<1>5. EventsTyped'
  <2>1. UNCHANGED <<outbox, batch, sent, bound, word>>
    BY <1>1 DEF ConsumerOnly, relay
  <2>2. \A j \in Ids : pos'[j] <= Len(log'[j])
    BY <1>1, <1>3, <1>4 DEF Agreed, EventsTyped
  <2> QED BY <1>1, <1>4, <2>1, <2>2 DEF Agreed, EventsTyped
<1> QED BY <1>1, <1>2, <1>3, <1>5, BehindAgrees

\* The consumer restarts at an earlier offset.
LEMMA RedeliverAgrees == ASSUME Agreed, NEW i \in Ids, Redeliver(i) PROVE Agreed'
<1>1. /\ pos[i] > 0 /\ log' = log /\ lost' = lost /\ UNCHANGED gateway /\ ConsumerOnly
  BY DEF Redeliver
<1>2. PICK p \in 0 .. pos[i] - 1 : pos' = [pos EXCEPT ![i] = p] BY DEF Redeliver
<1>3. Consumed BY <1>1 DEF Consumed
<1>4. /\ \A j \in Ids : j # i => pos'[j] = pos[j]
      /\ pos'[i] \in Nat /\ pos'[i] < pos[i] /\ pos' \in [Ids -> Nat]
  BY <1>2 DEF Agreed, EventsTyped
<1>5. \A j \in Ids : pos[j] \in Nat /\ Len(log[j]) \in Nat /\ pos[j] <= Len(log[j])
  BY DEF Agreed, EventsTyped
<1>6. EventsTyped'
  <2>1. UNCHANGED <<outbox, batch, sent, bound, word>>
    BY <1>1 DEF ConsumerOnly, relay
  <2>2. \A j \in Ids : pos'[j] <= Len(log'[j]) BY <1>1, <1>4, <1>5
  <2> QED BY <1>1, <1>4, <2>1, <2>2 DEF Agreed, EventsTyped
<1>7. \A j \in Ids : pos'[j] = Len(log'[j]) => pos[j] = Len(log[j])
  BY <1>1, <1>4, <1>5
<1>8. \A j \in Ids : pos'[j] > 0 => pos[j] > 0 BY <1>1, <1>4
<1> QED BY <1>1, <1>3, <1>6, <1>7, <1>8, BehindAgrees

\* Kafka keeps the last event of an id.
LEMMA CompactAgrees == ASSUME Agreed, NEW i \in Ids, Compact(i) PROVE Agreed'
<1> DEFINE z == Last(log[i])
<1>1. /\ Len(log[i]) > 1 /\ log' = [log EXCEPT ![i] = <<z>>] /\ lost' = lost
      /\ pos' = [pos EXCEPT ![i] = IF pos[i] = Len(log[i]) THEN 1 ELSE 0]
      /\ UNCHANGED gateway /\ ConsumerOnly
  BY DEF Compact
<1>2. log[i] \in Seq(Types) /\ log \in [Ids -> Seq(Types)] /\ pos \in [Ids -> Nat]
  BY DEF Agreed, EventsTyped
<1>3. Len(log[i]) \in DOMAIN log[i] /\ log[i][Len(log[i])] = z /\ z \in Types
  BY <1>1, <1>2 DEF Last
<1> HIDE DEF z
<1>4. /\ log'[i] = <<z>> /\ log' \in [Ids -> Seq(Types)]
      /\ \A j \in Ids : j # i => log'[j] = log[j]
  BY <1>1, <1>2, <1>3
<1>5. /\ pos'[i] = (IF pos[i] = Len(log[i]) THEN 1 ELSE 0) /\ pos' \in [Ids -> Nat]
      /\ \A j \in Ids : j # i => pos'[j] = pos[j]
  BY <1>1, <1>2
<1>6. log'[i] # <<>> /\ Len(log'[i]) = 1 /\ Last(log'[i]) = z
      /\ \A n \in DOMAIN log'[i] : log'[i][n] = z
  BY <1>4 DEF Last
<1>7. Consumed
  <2>1. \A j \in Ids : log[j] # <<>> => log'[j] # <<>> /\ Last(log'[j]) = Last(log[j])
    BY <1>3, <1>4, <1>6 DEF Last
  <2>2. \A j \in Ids : \A n \in DOMAIN log'[j] :
          \E m \in DOMAIN log[j] : log'[j][n] = log[j][m]
    BY <1>3, <1>4, <1>6
  <2> QED BY <1>1, <2>1, <2>2 DEF Consumed
<1>8. EventsTyped'
  <2>1. UNCHANGED <<outbox, batch, sent, bound, word>>
    BY <1>1 DEF ConsumerOnly, relay
  <2>2. \A j \in Ids : pos'[j] <= Len(log'[j])
    <3>1. pos'[i] <= 1 BY <1>5
    <3>2. \A j \in Ids : pos[j] <= Len(log[j]) BY DEF Agreed, EventsTyped
    <3> QED BY <3>1, <3>2, <1>4, <1>5, <1>6
  <2>3. \A j \in Ids : \A n \in DOMAIN log'[j] : log'[j][n] \in TypesOf(j)
    BY <1>3, <1>4, <1>6 DEF Agreed, EventsTyped
  <2> QED BY <1>1, <1>4, <1>5, <2>1, <2>2, <2>3 DEF Agreed, EventsTyped
<1>9. \A j \in Ids : pos'[j] = Len(log'[j]) /\ log'[j] # <<>> =>
        pos[j] = Len(log[j]) /\ log[j] # <<>>
  BY <1>3, <1>4, <1>5, <1>6
<1>10. \A j \in Ids : pos'[j] > 0 => pos[j] > 0
  BY <1>1, <1>2, <1>5
<1> QED BY <1>1, <1>7, <1>8, <1>9, <1>10, BehindAgrees

\* Everything is read again, into the read-model or an empty one.
LEMMA ResetAgrees == ASSUME Agreed, NEW rebuild \in BOOLEAN, Reset(rebuild) PROVE Agreed'
<1>1. /\ pos' = [i \in Ids |-> 0] /\ log' = log /\ lost' = lost /\ ConsumerOnly
  BY DEF Reset
<1>2. Consumed BY <1>1 DEF Consumed
<1>3. EventsTyped'
  <2>1. UNCHANGED <<outbox, batch, sent, bound, word>>
    BY <1>1 DEF ConsumerOnly, relay
  <2>2. pos' \in [Ids -> Nat] /\ \A i \in Ids : pos'[i] <= Len(log'[i])
    BY <1>1 DEF Agreed, EventsTyped
  <2> QED BY <1>1, <2>1, <2>2 DEF Agreed, EventsTyped
<1>4. \A i \in Ids : pos'[i] = Len(log'[i]) => log'[i] = <<>>
  BY <1>1 DEF Agreed, EventsTyped
<1>5. \A i \in Ids : ~(pos'[i] > 0) BY <1>1
<1>6. CASE ~rebuild
  <2>1. UNCHANGED gateway BY <1>6 DEF Reset
  <2> QED BY <1>2, <1>3, <1>4, <1>5, <2>1, BehindAgrees
<1>7. CASE rebuild
  <2>1. guc' = "absent" /\ gchild' = {} /\ gkey' = [k \in ApiKeys |-> "none"]
    BY <1>7 DEF Reset
  <2>2. ThereTyped' /\ Heard' BY <2>1 DEF ThereTyped, KeysTyped, KeyStates, Heard
  <2>3. \A i \in Ids, t \in Types : ~HasRead(i, t)' BY <1>4 DEF HasRead
  <2>4. Obeyed' BY <2>3 DEF Obeyed, Ids, Types
  <2>5. FirstLife' => FirstLife
    BY <1>1 DEF ConsumerOnly, management, counts, FirstLife
  <2>6. FirstLife' => Only(Slug, "upserted")'
    BY <1>2, <1>3, <2>5, ConsumedKeeps DEF Agreed, Arriving, Ids, Types
  <2>7. Arriving'
    BY <1>5, <2>1, <2>3, <2>6 DEF Arriving, Ids, Types, ActiveKeys
  <2> QED BY <1>2, <1>3, <2>2, <2>4, <2>7, ConsumedKeeps DEF Agreed
<1> QED BY <1>6, <1>7

\* One event read and handled: the consumer has read one more of its id, and if it
\* has read all there is, this was the last.
LEMMA ApplyReads ==
    ASSUME Agreed, NEW i \in Ids, Apply(i)
    PROVE  /\ Consumed /\ EventsTyped' /\ log' = log /\ lost' = lost
           /\ log[i] # <<>> /\ pos'[i] > 0
           /\ \A j \in Ids : j # i => pos'[j] = pos[j]
           /\ Handle(i, log[i][pos[i] + 1])
           /\ log[i][pos[i] + 1] \in TypesOf(i)
           /\ \A t : Only(i, t) => log[i][pos[i] + 1] = t
           /\ \A j \in Ids, t \in Types : j # i /\ HasRead(j, t)' => HasRead(j, t)
           /\ \A t : HasRead(i, t)' => t = log[i][pos[i] + 1]
<1>1. /\ pos[i] < Len(log[i]) /\ Handle(i, log[i][pos[i] + 1])
      /\ pos' = [pos EXCEPT ![i] = pos[i] + 1] /\ log' = log /\ lost' = lost
      /\ ConsumerOnly
  BY DEF Apply
<1>2. /\ log[i] \in Seq(Types) /\ pos[i] \in Nat /\ pos \in [Ids -> Nat]
      /\ \A j \in Ids : pos[j] <= Len(log[j])
  BY DEF Agreed, EventsTyped
<1>3. Len(log[i]) \in Nat /\ DOMAIN log[i] = 1 .. Len(log[i]) BY <1>2
<1>4. pos[i] + 1 \in DOMAIN log[i] BY <1>1, <1>2, <1>3
<1>5. log[i] # <<>> BY <1>4
<1>6. Consumed BY <1>1 DEF Consumed
<1>7. /\ pos'[i] = pos[i] + 1 /\ pos' \in [Ids -> Nat] /\ pos'[i] > 0
      /\ \A j \in Ids : j # i => pos'[j] = pos[j]
  BY <1>1, <1>2
<1>8. \A j \in Ids : pos'[j] <= Len(log[j])
  <2>1. pos'[i] <= Len(log[i]) BY <1>1, <1>2, <1>3, <1>7
  <2> QED BY <2>1, <1>2, <1>7
<1>9. EventsTyped'
  <2>1. UNCHANGED <<outbox, batch, sent, bound, word>>
    BY <1>1 DEF ConsumerOnly, relay
  <2> QED BY <1>1, <1>7, <1>8, <2>1 DEF Agreed, EventsTyped
<1>10. log[i][pos[i] + 1] \in TypesOf(i) BY <1>4 DEF Agreed, EventsTyped
<1>11. \A t : Only(i, t) => log[i][pos[i] + 1] = t BY <1>4 DEF Only
<1>12. \A j \in Ids, t \in Types : j # i /\ HasRead(j, t)' => HasRead(j, t)
  BY <1>1, <1>7 DEF HasRead
<1>13. \A t : HasRead(i, t)' => t = log[i][pos[i] + 1]
  BY <1>1, <1>7 DEF HasRead, Last
<1> QED BY <1>1, <1>5, <1>6, <1>7, <1>9, <1>10, <1>11, <1>12, <1>13

\* An event of the use case.
LEMMA ApplySlugAgrees == ASSUME Agreed, Apply(Slug) PROVE Agreed'
<1> DEFINE type == log[Slug][pos[Slug] + 1]
<1>1. Slug \in Ids BY DEF Ids
<1>2. /\ Consumed /\ EventsTyped' /\ log' = log /\ lost' = lost
      /\ log[Slug] # <<>> /\ pos'[Slug] > 0
      /\ \A j \in Ids : j # Slug => pos'[j] = pos[j]
      /\ Handle(Slug, type) /\ type \in TypesOf(Slug)
      /\ (Only(Slug, "upserted") => type = "upserted")
      /\ \A j \in Ids, t \in Types : j # Slug /\ HasRead(j, t)' => HasRead(j, t)
      /\ \A t : HasRead(Slug, t)' => t = type
  BY <1>1, ApplyReads
<1> HIDE DEF type
<1>3. HereTyped' /\ Kept' /\ Announced' /\ DrawnOnce' BY <1>2, ConsumedKeeps
<1>4. FirstLife' => FirstLife /\ type = "upserted" /\ Only(Slug, "upserted")'
  <2>1. FirstLife' => FirstLife
    BY <1>2 DEF Consumed, ConsumerOnly, management, counts, FirstLife
  <2>2. FirstLife => Only(Slug, "upserted") BY DEF Agreed, Arriving
  <2> QED BY <1>1, <1>2, <2>1, <2>2, ConsumedKeeps DEF Types
<1>5. UNCHANGED mkey BY <1>2 DEF Consumed, ConsumerOnly, management
<1>6. /\ \A k \in ApiKeys : k \in Ids /\ k # Slug
      /\ \A c \in Children : c \in Ids /\ c # Slug
  BY IdsApart
<1>7. CASE type = "upserted"
  <2>1. /\ guc' = (IF guc = "absent" THEN "live" ELSE guc)
        /\ UNCHANGED <<gchild, gkey>>
    BY <1>2, <1>7 DEF Handle, UpsertUseCase
  <2>2. ThereTyped' BY <2>1 DEF Agreed, ThereTyped, KeysTyped
  <2>3. Obeyed' BY <1>2, <1>6, <1>7, <2>1 DEF Agreed, Obeyed, Types
  <2>4. Heard' BY <1>2, <2>1 DEF Agreed, Heard
  <2>5. Arriving'
    <3> SUFFICES ASSUME FirstLife' PROVE Arriving' BY DEF Arriving
    <3>1. guc' = "live" BY <1>4, <2>1 DEF Agreed, Arriving, ThereTyped
    <3>2. \A c \in Children : HasRead(c, "granted")' => c \in gchild'
      BY <1>2, <1>4, <1>6, <2>1 DEF Agreed, Arriving, Types
    <3>3. \A k \in ActiveKeys' :
            gkey'[k] # "inactive" /\ (k \notin lost' /\ pos'[k] > 0 => gkey'[k] = "active")
      BY <1>2, <1>4, <1>5, <1>6, <2>1 DEF Agreed, Arriving, ActiveKeys
    <3> QED BY <1>4, <3>1, <3>2, <3>3 DEF Arriving
  <2> QED BY <1>2, <1>3, <2>2, <2>3, <2>4, <2>5 DEF Agreed
<1>8. CASE type = "deleted"
  <2>1. /\ guc' = "tombstone" /\ gchild' = {}
        /\ gkey' = [k \in ApiKeys |-> IF gkey[k] = "none" THEN "none" ELSE "inactive"]
    BY <1>2, <1>8 DEF Handle, RetireUseCase
  <2>2. ThereTyped' BY <2>1 DEF ThereTyped, KeysTyped, KeyStates
  <2>3. Obeyed' BY <1>2, <1>8, <2>1 DEF Obeyed
  <2>4. Heard' BY <1>2, <2>1 DEF Agreed, Heard
  <2>5. Arriving' BY <1>4, <1>8 DEF Arriving
  <2> QED BY <1>2, <1>3, <2>2, <2>3, <2>4, <2>5 DEF Agreed
<1>9. CASE type = "purged"
  <2>1. guc' = "absent" /\ UNCHANGED <<gchild, gkey>> BY <1>2, <1>9 DEF Handle
  <2>2. ThereTyped' BY <2>1 DEF Agreed, ThereTyped, KeysTyped
  <2>3. Obeyed' BY <1>2, <1>6, <1>9, <2>1 DEF Agreed, Obeyed, Types
  <2>4. Heard' BY <1>2, <2>1 DEF Agreed, Heard
  <2>5. Arriving' BY <1>4, <1>9 DEF Arriving
  <2> QED BY <1>2, <1>3, <2>2, <2>3, <2>4, <2>5 DEF Agreed
<1> QED BY <1>2, <1>7, <1>8, <1>9 DEF TypesOf, SlugTypes

\* An event of a child.
LEMMA ApplyChildAgrees ==
    ASSUME Agreed, NEW c \in Children, Apply(c) PROVE Agreed'
<1> DEFINE type == log[c][pos[c] + 1]
<1>1. c \in Ids /\ c # Slug BY IdsApart
<1>2. /\ Consumed /\ EventsTyped' /\ log' = log /\ lost' = lost
      /\ log[c] # <<>>
      /\ \A j \in Ids : j # c => pos'[j] = pos[j]
      /\ Handle(c, type) /\ type \in TypesOf(c)
      /\ \A j \in Ids, t \in Types : j # c /\ HasRead(j, t)' => HasRead(j, t)
      /\ \A t : HasRead(c, t)' => t = type
  BY <1>1, ApplyReads
<1> HIDE DEF type
<1>3. HereTyped' /\ Kept' /\ Announced' /\ DrawnOnce' BY <1>2, ConsumedKeeps
<1>4. FirstLife' => FirstLife /\ Only(Slug, "upserted")'
  <2>1. FirstLife' => FirstLife
    BY <1>2 DEF Consumed, ConsumerOnly, management, counts, FirstLife
  <2>2. FirstLife => Only(Slug, "upserted") BY DEF Agreed, Arriving
  <2> QED BY <1>2, <2>1, <2>2, ConsumedKeeps, IdsApart DEF Types
<1>5. UNCHANGED mkey BY <1>2 DEF Consumed, ConsumerOnly, management
<1>6. Slug \in Ids /\ \A k \in ApiKeys : k \in Ids /\ k # c BY IdsApart
<1>7. \A b \in Children : b \in Ids BY IdsApart
<1>8. /\ UNCHANGED <<guc, gkey>>
      /\ \/ type = "granted" /\ gchild' = Restored(c)
         \/ type = "removed" /\ gchild' = gchild \ {c}
  BY <1>1, <1>2 DEF Handle, TypesOf, ChildTypes
<1>9. ThereTyped'
  BY <1>8 DEF Agreed, ThereTyped, KeysTyped, Restored
<1>10. Obeyed'
  <2>1. \A k \in ApiKeys : HasRead(k, "revoked")' => gkey'[k] # "active"
    BY <1>2, <1>6, <1>8 DEF Agreed, Obeyed, Types
  <2>2. ASSUME NEW b \in Children, HasRead(b, "removed")' PROVE b \notin gchild'
    <3>1. CASE b = c
      BY <3>1, <2>2, <1>2, <1>8
    <3>2. CASE b # c
      <4>1. b \notin gchild BY <3>2, <2>2, <1>2, <1>7 DEF Agreed, Obeyed, Types
      <4> QED BY <4>1, <3>2, <1>8 DEF Restored
    <3> QED BY <3>1, <3>2
  <2>3. ASSUME HasRead(Slug, "deleted")'
        PROVE  guc' = "tombstone" /\ gchild' = {} /\ \A k \in ApiKeys : gkey'[k] # "active"
    <3>1. guc = "tombstone" /\ gchild = {} /\ \A k \in ApiKeys : gkey[k] # "active"
      BY <2>3, <1>1, <1>2, <1>6 DEF Agreed, Obeyed, Types
    <3> QED BY <3>1, <1>8 DEF Restored, IsRetired
  <2>4. HasRead(Slug, "purged")' => guc' = "absent"
    BY <1>1, <1>2, <1>6, <1>8 DEF Agreed, Obeyed, Types
  <2> QED BY <2>1, <2>2, <2>3, <2>4 DEF Obeyed
<1>11. Heard' BY <1>2, <1>8 DEF Agreed, Heard, Restored
<1>12. Arriving'
  <2> SUFFICES ASSUME FirstLife' PROVE Arriving' BY DEF Arriving
  <2>1. FirstLife /\ guc # "tombstone" BY <1>4 DEF Agreed, Arriving
  <2>2. guc' # "tombstone" /\ (Slug \notin lost' /\ pos'[Slug] > 0 => guc' = "live")
    BY <1>1, <1>2, <1>6, <1>8, <2>1 DEF Agreed, Arriving
  <2>3. ASSUME NEW b \in Children, HasRead(b, "granted")' PROVE b \in gchild'
    <3>1. CASE b = c
      BY <3>1, <2>1, <2>3, <1>2, <1>8 DEF Restored, IsRetired
    <3>2. CASE b # c
      <4>1. b \in gchild BY <3>2, <2>1, <2>3, <1>2, <1>7 DEF Agreed, Arriving, Types
      <4> QED BY <4>1, <3>2, <1>8 DEF Restored
    <3> QED BY <3>1, <3>2
  <2>4. \A k \in ActiveKeys' :
          gkey'[k] # "inactive" /\ (k \notin lost' /\ pos'[k] > 0 => gkey'[k] = "active")
    BY <1>2, <1>5, <1>6, <1>8, <2>1 DEF Agreed, Arriving, ActiveKeys
  <2> QED BY <1>4, <2>2, <2>3, <2>4 DEF Arriving
<1> QED BY <1>2, <1>3, <1>9, <1>10, <1>11, <1>12 DEF Agreed

\* An event of a key.
LEMMA ApplyKeyAgrees ==
    ASSUME Agreed, NEW k \in ApiKeys, Apply(k) PROVE Agreed'
<1> DEFINE type == log[k][pos[k] + 1]
<1>1. k \in Ids /\ k # Slug /\ k \notin Children BY IdsApart
<1>2. /\ Consumed /\ EventsTyped' /\ log' = log /\ lost' = lost
      /\ log[k] # <<>>
      /\ \A j \in Ids : j # k => pos'[j] = pos[j]
      /\ Handle(k, type) /\ type \in TypesOf(k)
      /\ (Only(k, "created") => type = "created")
      /\ \A j \in Ids, t \in Types : j # k /\ HasRead(j, t)' => HasRead(j, t)
      /\ \A t : HasRead(k, t)' => t = type
  BY <1>1, ApplyReads
<1> HIDE DEF type
<1>3. HereTyped' /\ Kept' /\ Announced' /\ DrawnOnce' BY <1>2, ConsumedKeeps
<1>4. FirstLife' => FirstLife /\ Only(Slug, "upserted")'
  <2>1. FirstLife' => FirstLife
    BY <1>2 DEF Consumed, ConsumerOnly, management, counts, FirstLife
  <2>2. FirstLife => Only(Slug, "upserted") BY DEF Agreed, Arriving
  <2> QED BY <1>2, <2>1, <2>2, ConsumedKeeps, IdsApart DEF Types
<1>5. UNCHANGED mkey BY <1>2 DEF Consumed, ConsumerOnly, management
<1>6. Slug \in Ids /\ \A c \in Children : c \in Ids /\ c # k BY IdsApart
<1>7. \A l \in ApiKeys : l \in Ids BY IdsApart
<1>8. /\ UNCHANGED <<guc, gchild>>
      /\ \/ type = "created" /\ gkey' = WithKey(k)
         \/ type = "revoked" /\ gkey' = WithoutKey(k)
  BY <1>1, <1>2 DEF Handle, TypesOf, KeyTypes
<1>9. gkey \in [ApiKeys -> KeyStates] BY DEF Agreed, ThereTyped, KeysTyped
<1>10. /\ \A l \in ApiKeys : l # k => gkey'[l] = gkey[l]
       /\ \/ /\ type = "created"
             /\ gkey'[k] = IF gkey[k] # "none" THEN gkey[k]
                           ELSE IF IsRetired THEN "inactive" ELSE "active"
          \/ /\ type = "revoked"
             /\ gkey'[k] = IF gkey[k] = "none" THEN "none" ELSE "inactive"
       /\ gkey' \in [ApiKeys -> KeyStates]
  BY <1>8, <1>9 DEF WithKey, WithoutKey, KeyStates
<1>11. ThereTyped' BY <1>8, <1>10 DEF Agreed, ThereTyped, KeysTyped
<1>12. Obeyed'
  <2>1. ASSUME NEW l \in ApiKeys, HasRead(l, "revoked")' PROVE gkey'[l] # "active"
    <3>1. CASE l = k
      BY <3>1, <2>1, <1>2, <1>10
    <3>2. CASE l # k
      BY <3>2, <2>1, <1>2, <1>7, <1>10 DEF Agreed, Obeyed, Types
    <3> QED BY <3>1, <3>2
  <2>2. \A c \in Children : HasRead(c, "removed")' => c \notin gchild'
    BY <1>2, <1>6, <1>8 DEF Agreed, Obeyed, Types
  <2>3. ASSUME HasRead(Slug, "deleted")'
        PROVE  guc' = "tombstone" /\ gchild' = {} /\ \A l \in ApiKeys : gkey'[l] # "active"
    <3>1. guc = "tombstone" /\ gchild = {} /\ \A l \in ApiKeys : gkey[l] # "active"
      BY <2>3, <1>1, <1>2, <1>6 DEF Agreed, Obeyed, Types
    <3> QED BY <3>1, <1>8, <1>10 DEF IsRetired
  <2>4. HasRead(Slug, "purged")' => guc' = "absent"
    BY <1>1, <1>2, <1>6, <1>8 DEF Agreed, Obeyed, Types
  <2> QED BY <2>1, <2>2, <2>3, <2>4 DEF Obeyed
<1>13. Heard' BY <1>2, <1>8, <1>10 DEF Agreed, Heard
<1>14. Arriving'
  <2> SUFFICES ASSUME FirstLife' PROVE Arriving' BY DEF Arriving
  <2>1. FirstLife /\ guc # "tombstone" BY <1>4 DEF Agreed, Arriving
  <2>2. guc' # "tombstone" /\ (Slug \notin lost' /\ pos'[Slug] > 0 => guc' = "live")
    BY <1>1, <1>2, <1>6, <1>8, <2>1 DEF Agreed, Arriving
  <2>3. \A c \in Children : HasRead(c, "granted")' => c \in gchild'
    BY <1>2, <1>6, <1>8, <2>1 DEF Agreed, Arriving, Types
  <2>4. ASSUME NEW l \in ApiKeys, mkey'[l] = "active"
        PROVE  /\ gkey'[l] # "inactive"
               /\ l \notin lost' /\ pos'[l] > 0 => gkey'[l] = "active"
    <3>1. mkey[l] = "active" /\ gkey[l] # "inactive"
      BY <2>1, <2>4, <1>5 DEF Agreed, Arriving, ActiveKeys
    <3>2. CASE l = k
      <4>1. type = "created" BY <3>1, <3>2, <1>2 DEF Agreed, DrawnOnce
      <4>2. gkey[k] \in {"none", "active"} BY <3>1, <3>2, <1>9 DEF KeyStates
      <4> QED BY <4>1, <4>2, <3>2, <2>1, <1>10 DEF IsRetired
    <3>3. CASE l # k
      BY <3>1, <3>3, <2>1, <1>2, <1>7, <1>10 DEF Agreed, Arriving, ActiveKeys
    <3> QED BY <3>2, <3>3
  <2> QED BY <1>4, <2>2, <2>3, <2>4 DEF Arriving, ActiveKeys
<1> QED BY <1>2, <1>3, <1>11, <1>12, <1>13, <1>14 DEF Agreed

-----------------------------------------------------------------------------
(* Every step, and what follows of Agreed.                                 *)

LEMMA InitAgrees == ASSUME Init PROVE Agreed
<1>1. HereTyped BY DEF Init, HereTyped
<1>2. EventsTyped BY DEF Init, EventsTyped
<1>3. ThereTyped BY DEF Init, ThereTyped, KeysTyped, KeyStates
<1>4. Kept BY DEF Init, Kept, NonePends
<1>5. Announced BY DEF Init, Announced, WordOnKey, ActiveKeys, Ids
<1>6. DrawnOnce BY DEF Init, DrawnOnce
<1>7. Obeyed BY DEF Init, Obeyed, HasRead, Ids
<1>8. Heard BY DEF Init, Heard
<1>9. Arriving BY DEF Init, Arriving, FirstLife
<1> QED BY <1>1, <1>2, <1>3, <1>4, <1>5, <1>6, <1>7, <1>8, <1>9 DEF Agreed

LEMMA NextAgrees == ASSUME Agreed, [Next]_vars PROVE Agreed'
<1>1. CASE Change BY <1>1, ChangeAgrees
<1>2. CASE StartRun \/ Mark \/ Park \/ SendFails \/ RelayCrash
  BY <1>2, StartRunAgrees, MarkAgrees, ParkAgrees, SendFailsAgrees, RelayCrashAgrees
<1>3. CASE Send
  <2>1. /\ InRun /\ log' = Appended /\ RelayOnly /\ UNCHANGED <<outbox, lost>>
        /\ sent' = sent + 1 /\ batch' = batch
    BY <1>3 DEF Send
  <2> QED BY <2>1, SentAgrees
<1>4. CASE \E i \in Ids : Skip(i) \/ Redeliver(i) \/ Compact(i)
  BY <1>4, SkipAgrees, RedeliverAgrees, CompactAgrees
<1>5. CASE \E rebuild \in BOOLEAN : Reset(rebuild)
  BY <1>5, ResetAgrees
<1>6. CASE \E i \in Ids : Apply(i)
  BY <1>6, ApplySlugAgrees, ApplyChildAgrees, ApplyKeyAgrees DEF Ids
<1>7. CASE UNCHANGED vars
  <2>1. UNCHANGED <<uc, rows, mkey, asked, outbox, batch, sent, log, pos, guc, gchild, gkey,
                    created, bound, word, lost, revived>>
    BY <1>7 DEF vars, management, relay, gateway, counts
  <2>2. HereTyped' /\ EventsTyped' /\ ThereTyped'
    BY <2>1 DEF Agreed, HereTyped, EventsTyped, ThereTyped, KeysTyped
  <2>3. Kept' BY <2>1 DEF Agreed, Kept, NonePends, WordPends, NoneBehind, AllSent, WordSaid
  <2>4. Announced' /\ DrawnOnce' /\ Heard'
    BY <2>1 DEF Agreed, Announced, ActiveKeys, DrawnOnce, Only, Heard
  <2>5. Obeyed' BY <2>1 DEF Agreed, Obeyed, HasRead
  <2>6. Arriving' BY <2>1 DEF Agreed, Arriving, FirstLife, Only, HasRead, ActiveKeys
  <2> QED BY <2>2, <2>3, <2>4, <2>5, <2>6 DEF Agreed
<1> QED BY <1>1, <1>2, <1>3, <1>4, <1>5, <1>6, <1>7 DEF Next, Relay, Disturb

LEMMA AlwaysAgreed == Spec => []Agreed
<1>1. Init => Agreed BY InitAgrees
<1>2. Agreed /\ [Next]_vars => Agreed' BY NextAgrees
<1> QED BY <1>1, <1>2, PTL DEF Spec

\* A run of the relay never reaches past the outbox nor the consumer past a log,
\* whatever fails, is repeated, rebuilt or compacted.
THEOREM TypeCorrect == Spec => []TypeOK
<1>1. Agreed => TypeOK
  <2> SUFFICES ASSUME Agreed PROVE TypeOK OBVIOUS
  <2>1. outbox \in Seq([id : Ids, type : Types]) /\ Len(outbox) \in Nat
    <3> DEFINE Events == [id : Ids, type : Types]
    <3>1. Message \subseteq Events BY DEF Message
    <3>2. outbox \in Seq(Message) BY DEF Agreed, EventsTyped
    <3> HIDE DEF Events
    <3>3. outbox \in Seq(Events) BY <3>1, <3>2, SeqMonotonic
    <3> QED BY <3>2, <3>3 DEF Events
  <2>2. sent \in 0 .. batch /\ batch \in 0 .. Len(outbox)
    BY <2>1 DEF Agreed, EventsTyped
  <2> QED
    BY <2>1, <2>2
       DEF Agreed, HereTyped, EventsTyped, ThereTyped, KeysTyped, KeyStates, TypeOK
<1> QED BY <1>1, AlwaysAgreed, PTL

\* Whatever the relay sends twice, fails to send or dies over, the last event
\* committed for an id is the last that is pending for it, or the last Kafka holds
\* (relay.py, _publish): compaction keeps that one.
THEOREM LastWordStands == Spec => []LastWordIsKept
<1>1. Agreed => LastWordIsKept
  <2> SUFFICES ASSUME Agreed, NEW i \in Ids \ lost, word[i] # "none"
               PROVE  \/ \E n \in DOMAIN outbox :
                           /\ outbox[n] = Event(i, word[i])
                           /\ \A m \in DOMAIN outbox : outbox[m].id = i => m <= n
                      \/ /\ \A n \in DOMAIN outbox : outbox[n].id # i
                         /\ log[i] # <<>> /\ Last(log[i]) = word[i]
    BY DEF LastWordIsKept
  <2>1. CASE WordPends(i)
    BY <2>1 DEF WordPends, NoneBehind
  <2>2. CASE NonePends(i)
    <3>1. AllSent(i) BY <2>2 DEF NonePends, AllSent
    <3>2. WordSaid(i) BY <3>1 DEF Agreed, Kept
    <3> QED BY <2>2, <3>2 DEF NonePends, WordSaid
  <2> QED BY <2>1, <2>2 DEF Agreed, Kept
<1> QED BY <1>1, AlwaysAgreed, PTL

\* Once all is read, the last of each id's log is its word.
LEMMA QuietReads ==
    ASSUME Agreed, Quiet, NEW i \in Ids
    PROVE  /\ log[i] # <<>> => word[i] # "none"
           /\ word[i] # "none" => HasRead(i, word[i]) /\ log[i] # <<>> /\ pos[i] > 0
<1>1. outbox = <<>> /\ pos[i] = Len(log[i]) /\ lost = {} BY DEF Quiet
<1>2. log[i] # <<>> => word[i] # "none" BY DEF Agreed, Kept
<1>3. ASSUME word[i] # "none" PROVE HasRead(i, word[i]) /\ log[i] # <<>> /\ pos[i] > 0
  <2>1. DOMAIN outbox = {} BY <1>1
  <2>2. AllSent(i) BY <2>1 DEF AllSent
  <2>3. WordSaid(i) BY <2>2, <1>1, <1>3 DEF Agreed, Kept
  <2>4. log[i] \in Seq(Types) BY DEF Agreed, EventsTyped
  <2>5. Len(log[i]) \in Nat \ {0} BY <2>3, <2>4, EmptySeq DEF WordSaid
  <2> QED BY <1>1, <2>3, <2>5 DEF HasRead, WordSaid
<1> QED BY <1>2, <1>3

\* What the gateway lets through Management grants: an active key, a child.
LEMMA QuietGrants ==
    ASSUME Agreed, Quiet, ~revived
    PROVE  /\ \A k \in ApiKeys : gkey[k] = "active" => mkey[k] = "active" /\ uc = "live"
           /\ \A c \in gchild : uc = "live" /\ c \in rows
<1>1. uc \in {"absent", "live", "retired"} BY DEF Agreed, HereTyped
<1>2. CASE uc = "retired"
  <2>1. word[Slug] = "deleted" BY <1>2 DEF Agreed, Announced
  <2>2. HasRead(Slug, "deleted") BY <2>1, QuietReads, IdsApart
  <2>3. gchild = {} /\ \A k \in ApiKeys : gkey[k] # "active" BY <2>2 DEF Agreed, Obeyed
  <2> QED BY <2>3
<1>3. ASSUME NEW k \in ApiKeys, gkey[k] = "active" PROVE mkey[k] = "active"
  <2>1. log[k] # <<>> BY <1>3 DEF Agreed, Heard
  <2>2. word[k] # "none" /\ HasRead(k, word[k]) BY <2>1, QuietReads, IdsApart
  <2>3. word[k] # "revoked" BY <2>2, <1>3 DEF Agreed, Obeyed
  <2> QED BY <2>2, <2>3 DEF Agreed, Announced, WordOnKey
<1>4. ASSUME NEW c \in gchild PROVE c \in rows
  <2>1. log[c] # <<>> /\ c \in Children BY DEF Agreed, Heard, ThereTyped
  <2>2. c \in Ids /\ c # Slug BY <2>1, IdsApart
  <2>3. word[c] # "none" /\ HasRead(c, word[c]) BY <2>1, <2>2, QuietReads
  <2>4. word[c] # "removed" BY <2>1, <2>3 DEF Agreed, Obeyed
  <2>5. word[c] \in {"granted", "removed"}
    BY <2>1, <2>2, <2>3 DEF Agreed, EventsTyped, TypesOf, ChildTypes
  <2> QED BY <2>1, <2>4, <2>5 DEF Agreed, Announced
<1>5. CASE uc = "absent"
  <2>1. rows = {} /\ \A k \in ApiKeys : mkey[k] # "active"
    BY <1>5 DEF Agreed, Announced, ActiveKeys
  <2> QED BY <2>1, <1>3, <1>4
<1>6. CASE uc = "live"
  BY <1>3, <1>4, <1>6
<1> QED BY <1>1, <1>2, <1>5, <1>6

\* However often and in whatever order events are redelivered, replayed, rebuilt
\* and compacted, and whatever commits while the use case is being retired: once
\* all is read, nothing is let through that Management does not grant
\* (services.py, end_access).
THEOREM NoAccessIsLeft == Spec => []NoExtraAccess
<1>1. Agreed => NoExtraAccess
  BY QuietGrants DEF NoExtraAccess
<1> QED BY <1>1, AlwaysAgreed, PTL

\* And in the slug's first life the read-model holds what Management does
\* (apply.py: "converges to the same state").
THEOREM ReplaysConverge == Spec => []Converges
<1>1. Agreed => Converges
  <2> SUFFICES ASSUME Agreed, Quiet, ~revived, created = 1
               PROVE  /\ guc = CASE uc = "live" -> "live" [] uc = "retired" -> "tombstone"
                                 [] uc = "absent" -> "absent"
                      /\ uc = "live" => gchild = rows
                      /\ uc = "live" =>
                           \A k \in ApiKeys : mkey[k] = "active" <=> gkey[k] = "active"
    BY DEF Converges
  <2>1. uc \in {"absent", "live", "retired"} /\ Slug \in Ids /\ lost = {}
    BY IdsApart DEF Agreed, HereTyped, Quiet
  <2>2. CASE uc = "retired"
    <3>1. word[Slug] = "deleted" BY <2>2 DEF Agreed, Announced
    <3>2. HasRead(Slug, "deleted") BY <3>1, <2>1, QuietReads
    <3>3. guc = "tombstone" BY <3>2 DEF Agreed, Obeyed
    <3> QED BY <2>2, <3>3
  <2>3. CASE uc = "absent"
    <3>1. word[Slug] = "purged" BY <2>3 DEF Agreed, Announced
    <3>2. HasRead(Slug, "purged") BY <3>1, <2>1, QuietReads
    <3>3. guc = "absent" BY <3>2 DEF Agreed, Obeyed
    <3> QED BY <2>3, <3>3
  <2>4. CASE uc = "live"
    <3>1. FirstLife BY <2>4 DEF FirstLife
    <3>2. word[Slug] = "upserted" BY <2>4 DEF Agreed, Announced
    <3>3. pos[Slug] > 0 BY <3>2, <2>1, QuietReads
    <3>4. guc = "live" BY <3>1, <3>3, <2>1 DEF Agreed, Arriving
    <3>5. ASSUME NEW c \in rows PROVE c \in gchild
      <4>1. c \in Children /\ c \in Ids BY IdsApart DEF Agreed, HereTyped
      <4>2. word[c] = "granted" BY <2>4 DEF Agreed, Announced
      <4>3. HasRead(c, "granted") BY <4>1, <4>2, QuietReads
      <4> QED BY <4>1, <4>3, <3>1 DEF Agreed, Arriving
    <3>6. gchild = rows BY <3>5, QuietGrants
    <3>7. ASSUME NEW k \in ApiKeys, mkey[k] = "active" PROVE gkey[k] = "active"
      <4>1. k \in Ids /\ word[k] # "none"
        BY <3>7, IdsApart DEF Agreed, Announced, WordOnKey
      <4>2. pos[k] > 0 BY <4>1, QuietReads
      <4> QED BY <4>2, <3>1, <3>7, <2>1 DEF Agreed, Arriving, ActiveKeys
    <3> QED BY <2>4, <3>4, <3>6, <3>7, QuietGrants
  <2> QED BY <2>1, <2>2, <2>3, <2>4
<1> QED BY <1>1, AlwaysAgreed, PTL

-----------------------------------------------------------------------------
(* Only the consumer writes the keys of the read-model.                    *)

\* Nothing that happens in Management touches the gateway's database.
LEMMA ChangeKeeps == ASSUME Change PROVE UNCHANGED gkey
<1>1. ASSUME NEW events, Commit(events) PROVE UNCHANGED gkey
  BY <1>1 DEF Commit, gateway
<1>2. CASE \E c \in Children : Create(c) \/ Admit(c) \/ Withdraw(c)
  BY <1>1, <1>2 DEF Create, Admit, Withdraw
<1>3. CASE \E k \in ApiKeys : AskForGrant(k) \/ Issue(k) \/ Revoke(k)
  BY <1>1, <1>3 DEF AskForGrant, Issue, Revoke, gateway
<1>4. CASE Update \/ Announce \/ Retire \/ Purge
  BY <1>1, <1>4 DEF Update, Announce, Retire, Purge
<1> QED BY <1>2, <1>3, <1>4 DEF Change

\* Nor does the relay, in a run or failing.
LEMMA RelayKeeps ==
    ASSUME Relay \/ Park \/ SendFails \/ RelayCrash PROVE UNCHANGED gkey
BY DEF Relay, StartRun, Send, Mark, Park, SendFails, RelayCrash, RelayOnly, gateway

\* One handler: the keys keep their type, and an inactive one is not activated.
LEMMA HandlerKeeps ==
    ASSUME KeysTyped, NEW i, NEW type, Handle(i, type)
    PROVE  /\ KeysTyped'
           /\ \A k \in ApiKeys : gkey[k] = "inactive" => gkey'[k] # "active"
<1>1. CASE type = "created" /\ gkey' = WithKey(i)
  BY <1>1 DEF KeysTyped, KeyStates, WithKey
<1>2. CASE type = "revoked" /\ gkey' = WithoutKey(i)
  BY <1>2 DEF KeysTyped, KeyStates, WithoutKey
<1>3. CASE RetireUseCase
  BY <1>3 DEF KeysTyped, KeyStates, RetireUseCase
<1>4. CASE UNCHANGED gkey
  BY <1>4 DEF KeysTyped, KeyStates
<1> QED BY <1>1, <1>2, <1>3, <1>4 DEF Handle, UpsertUseCase

-----------------------------------------------------------------------------
\* Every step, a replay, a rebuild and a compaction included.
LEMMA StepKeeps ==
    ASSUME KeysTyped, [Next]_vars
    PROVE  /\ KeysTyped'
           /\ \A k \in ApiKeys : gkey[k] = "inactive" => gkey'[k] # "active"
<1> DEFINE Goal == /\ KeysTyped'
                   /\ \A k \in ApiKeys : gkey[k] = "inactive" => gkey'[k] # "active"
<1>1. ASSUME UNCHANGED gkey PROVE Goal
  BY <1>1 DEF KeysTyped, KeyStates
<1>2. CASE Change
  BY <1>1, <1>2, ChangeKeeps
<1>3. CASE Relay \/ Park \/ SendFails \/ RelayCrash
  BY <1>1, <1>3, RelayKeeps
<1>4. CASE \E i \in Ids : Skip(i) \/ Redeliver(i) \/ Compact(i)
  BY <1>1, <1>4 DEF Skip, Redeliver, Compact, gateway
<1>5. CASE \E rebuild \in BOOLEAN : Reset(rebuild)
  <2>1. PICK rebuild \in BOOLEAN : Reset(rebuild) BY <1>5
  <2>2. CASE rebuild
    BY <2>1, <2>2 DEF Reset, KeysTyped, KeyStates
  <2>3. CASE ~rebuild
    BY <2>1, <2>3, <1>1 DEF Reset, gateway
  <2> QED BY <2>2, <2>3
<1>6. CASE \E i \in Ids : Apply(i)
  <2>1. PICK i \in Ids : Apply(i) BY <1>6
  <2>2. Handle(i, log[i][pos[i] + 1]) BY <2>1 DEF Apply
  <2> QED BY <2>2, HandlerKeeps
<1>7. CASE UNCHANGED vars
  BY <1>1, <1>7 DEF vars, gateway
<1> QED BY <1>2, <1>3, <1>4, <1>5, <1>6, <1>7 DEF Next, Disturb

\* A key the gateway has deactivated, by a revocation or with its use case, is
\* never active again, whatever is redelivered (apply.py, _upsert_api_key).
THEOREM RevocationHolds == Spec => RevocationIsTerminal
<1>1. Init => KeysTyped
  BY DEF Init, KeysTyped, KeyStates
<1>2. KeysTyped /\ [Next]_vars => KeysTyped'
  BY StepKeeps
<1>3. KeysTyped /\ [Next]_vars =>
        [\A k \in ApiKeys : gkey[k] = "inactive" => gkey'[k] # "active"]_vars
  BY StepKeeps
<1> QED BY <1>1, <1>2, <1>3, PTL DEF Spec, RevocationIsTerminal
=============================================================================
