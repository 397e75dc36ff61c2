----------------------------- MODULE ConfigSync -----------------------------
(***************************************************************************)
(* How a use case's configuration reaches the gateway.  Management commits *)
(* a change and its event in one transaction (apps/outbox/subscriber.py);  *)
(* the relay sends the pending events to Kafka and then marks them         *)
(* (apps/outbox/management/commands/relay.py); the consumer applies each   *)
(* to the gateway's read-model (consumer/worker.py, consumer/apply.py).    *)
(*                                                                         *)
(* One use case is modelled: no handler touches the rows of another.  Its  *)
(* children are the rows that exist beside it and can be given and taken   *)
(* away (memberships, group grants, budgets, rate limits, anomaly rules,   *)
(* the pipeline), which Management and the gateway treat alike, and its    *)
(* API keys, whose revocation is terminal.                                 *)
(*                                                                         *)
(* Kafka keeps the order of the events of one key and of nothing else, so  *)
(* there is a log per id: the slug, each child, each API key.              *)
(***************************************************************************)
EXTENDS Naturals, Sequences, FiniteSets, SequencesExt

CONSTANTS
    Slug,        \* the use case
    Children,    \* its members, grants, budgets, limits, rules, pipeline
    Members,     \* the children that are memberships or group grants
    ApiKeys,     \* the prefixes issued for it; a prefix is never drawn again
    Owner,       \* Owner[k]: the member who answers for key k
    Batch,       \* BATCH: events one relay run takes
    Bounds       \* the bounds a behaviour may have: changes committed in
                 \* Management, events the relay may be behind when one commits
                 \* (pending), times the slug is created, faults (crashes, failed
                 \* sends, refused events, skips), replays (redeliveries, offset
                 \* resets, rebuilds)

Ids == {Slug} \cup Children \cup ApiKeys

ASSUME ConfigAssumption ==
    /\ Members \subseteq Children
    /\ Owner \in [ApiKeys -> Members]
    /\ Slug \notin Children \cup ApiKeys
    /\ Children \cap ApiKeys = {}
    /\ IsFiniteSet(Children) /\ IsFiniteSet(ApiKeys)
    /\ Batch \in Nat \ {0}
    /\ Bounds \subseteq [changes : Nat, pending : Nat, created : Nat, faults : Nat,
                        replays : Nat]

VARIABLES
    \* Management's database.
    uc,        \* the use case: "absent", "live" or "retired"
    rows,      \* the children that have a row
    mkey,      \* the API keys: "none", "active" or "revoked"
    outbox,    \* the pending events, oldest first
    asked,     \* an issuance in its transaction: what it was told of the owner
    \* The relay: how many events this run takes, and how many are behind it.
    batch, sent,
    \* Kafka, and the consumer's position in it.
    log, pos,
    \* The gateway's read-model.
    guc,       \* "absent", "live" or "tombstone"
    gchild, gkey,
    \* Bookkeeping for the bounds and the properties.
    bound,     \* the bounds of this behaviour
    changes, created, faults, replays,
    word,      \* the last event committed for each id
    lost,      \* ids an event of which was set aside or skipped
    revived    \* an upsert was committed after the retirement

management == <<uc, rows, mkey, asked>>
relay == <<batch, sent>>
gateway == <<guc, gchild, gkey>>
counts == <<changes, created>>
vars == <<management, outbox, relay, log, pos, gateway, counts, faults, replays,
          bound, word, lost, revived>>

-----------------------------------------------------------------------------
(* Management: each change commits with its events, record_to_outbox       *)

Event(i, type) == [id |-> i, type |-> type]

\* Where the last event of id i stands among events.
LastOf(events, i) ==
    CHOOSE n \in DOMAIN events :
        events[n].id = i /\ \A m \in DOMAIN events : events[m].id = i => m <= n

Speaks(events, i) == \E n \in DOMAIN events : events[n].id = i

\* The transaction commits, its events appended in the order of emit.
Commit(events) ==
    /\ changes < bound.changes /\ Len(outbox) <= bound.pending
    /\ changes' = changes + 1
    /\ outbox' = outbox \o events
    /\ word' = [i \in Ids |->
          IF Speaks(events, i) THEN events[LastOf(events, i)].type ELSE word[i]]
    /\ UNCHANGED <<relay, log, pos, gateway, bound, faults, replays, lost>>

\* get_object finds live use cases only, but the answer is not asked for again:
\* a request that was admitted may commit after the retirement.
Found == uc # "absent"

\* perform_create: the use case and its creator's membership.
Create(c) ==
    /\ uc = "absent" /\ created < bound.created /\ c \in Members
    /\ uc' = "live"
    /\ rows' = {c}
    /\ created' = created + 1
    /\ Commit(<<Event(Slug, "upserted"), Event(c, "granted")>>)
    /\ UNCHANGED <<mkey, asked, revived>>

\* perform_update: the whole row that was loaded is saved, deleted_at with it.
Update ==
    /\ Found
    /\ uc' = "live"
    /\ revived' = (revived \/ uc = "retired")
    /\ Commit(<<Event(Slug, "upserted")>>)
    /\ UNCHANGED <<rows, mkey, asked, created>>

\* A catalogue model's removal announces the use cases it found live.
Announce ==
    /\ Found
    /\ revived' = (revived \/ uc = "retired")
    /\ Commit(<<Event(Slug, "upserted")>>)
    /\ UNCHANGED <<management, created>>

\* _admit, and the other writers of a child: the row and its event.
Admit(c) ==
    /\ Found
    /\ rows' = rows \cup {c}
    /\ Commit(<<Event(c, "granted")>>)
    /\ UNCHANGED <<uc, mkey, asked, created, revived>>

\* Mutant of Revocations: a key is revoked and nobody told.
Unannounced(S) == <<>>

\* The events that revoke the keys of S, one each.
Revocations(S) == SetToSeq({Event(k, "revoked") : k \in S})
Revoked(S) == [k \in ApiKeys |-> IF k \in S THEN "revoked" ELSE mkey[k]]
ActiveKeys == {k \in ApiKeys : mkey[k] = "active"}

\* _revoke_keys_without_access, when access is taken away: the active keys whose
\* owner holds none any more.
Restless(c) == {k \in ActiveKeys : c \in Members /\ Owner[k] \notin rows \ {c}}

\* remove_member, revoke_group_grant and the other deletes of a child.
Withdraw(c) ==
    /\ Found
    /\ rows' = rows \ {c}
    /\ mkey' = Revoked(Restless(c))
    /\ Commit(<<Event(c, "removed")>> \o Revocations(Restless(c)))
    /\ UNCHANGED <<uc, asked, created, revived>>

\* api_keys: the transaction asks whether the owner holds a grant ...
AskForGrant(k) ==
    /\ Found /\ mkey[k] = "none" /\ asked[k] = "no"
    /\ asked' = [asked EXCEPT ![k] = IF Owner[k] \in rows THEN "held" ELSE "unheld"]
    /\ UNCHANGED <<uc, rows, mkey, outbox, relay, log, pos, gateway, counts, faults,
                   replays, bound, word, lost, revived>>

\* ... and commits the key, making a member of an owner who held none.
Issue(k) ==
    /\ Found /\ asked[k] # "no"
    /\ asked' = [asked EXCEPT ![k] = "no"]
    /\ mkey' = [mkey EXCEPT ![k] = "active"]
    /\ LET owner == IF asked[k] = "held" THEN {} ELSE {Owner[k]}
       IN  /\ rows' = rows \cup owner
           /\ Commit(SetToSeq({Event(c, "granted") : c \in owner})
                        \o <<Event(k, "created")>>)
    /\ UNCHANGED <<uc, created, revived>>

\* revoke_api_key.
Revoke(k) ==
    /\ Found /\ mkey[k] = "active"
    /\ mkey' = Revoked({k})
    /\ Commit(Revocations({k}))
    /\ UNCHANGED <<uc, rows, asked, created, revived>>

\* Mutant of EndAccess: only the slug's own record ends the children.
SlugAlone == <<>>

\* end_access: every child is ended on its own key.
EndAccess ==
    Revocations(ActiveKeys) \o SetToSeq({Event(c, "removed") : c \in rows})

\* retire: a conditional update, so the database decides who was first.  The
\* children keep their rows, as the record.
Retire ==
    /\ uc = "live"
    /\ uc' = "retired"
    /\ mkey' = Revoked(ActiveKeys)
    /\ Commit(<<Event(Slug, "deleted")>> \o EndAccess)
    /\ UNCHANGED <<rows, asked, created, revived>>

\* purge: at least PURGE_AFTER_DAYS after the retirement, when no request that
\* found the use case live is left.  The rows go with the use case.
Purge ==
    /\ uc = "retired" /\ \A k \in ApiKeys : asked[k] = "no"
    /\ uc' = "absent"
    /\ rows' = {}
    /\ mkey' = Revoked(ActiveKeys)
    /\ Commit(EndAccess \o <<Event(Slug, "purged")>>)
    /\ UNCHANGED <<asked, created, revived>>

-----------------------------------------------------------------------------
(* The relay: one run at a time, by the advisory lock                      *)

RelayOnly == UNCHANGED <<management, pos, gateway, counts, replays, bound, word, revived>>

\* Mutant of Taken: a full batch whatever is pending.
FullBatch == Batch

\* A prefix of what is pending: the oldest events.
Taken == IF Len(outbox) < Batch THEN Len(outbox) ELSE Batch

\* _relay reads the oldest pending events.
StartRun ==
    /\ batch = 0 /\ outbox # <<>>
    /\ batch' = Taken
    /\ sent' = 0
    /\ UNCHANGED <<outbox, log, faults, lost>> /\ RelayOnly

InRun == batch > 0 /\ sent < batch
Sending == outbox[sent + 1]
Appended == [log EXCEPT ![Sending.id] = Append(@, Sending.type)]

\* producer.send is awaited: the broker has the event.
Send ==
    /\ InRun
    /\ log' = Appended
    /\ sent' = sent + 1
    /\ UNCHANGED <<batch, outbox, faults, lost>> /\ RelayOnly

\* RecordRefused: the event is set aside and the run goes on.
Park ==
    /\ InRun /\ faults < bound.faults
    /\ faults' = faults + 1
    /\ lost' = lost \cup {Sending.id}
    /\ sent' = sent + 1
    /\ UNCHANGED <<batch, outbox, log>> /\ RelayOnly

\* Mutant of AfterFailure: the run leaves the failed event out and goes on.
PassOver ==
    /\ outbox' = Append(SubSeq(outbox, 1, sent) \o SubSeq(outbox, sent + 2, Len(outbox)),
                        Sending)
    /\ batch' = batch - 1

\* What a failed send does to the run: it ends before that event.
AfterFailure ==
    /\ batch' = sent
    /\ UNCHANGED outbox

\* A send fails, its event at the broker or not.
SendFails ==
    /\ InRun /\ faults < bound.faults
    /\ faults' = faults + 1
    /\ log' \in {log, Appended}
    /\ AfterFailure
    /\ UNCHANGED <<sent, lost>> /\ RelayOnly

\* What was sent or set aside is marked, once the run is through.
Mark ==
    /\ batch > 0 /\ sent = batch
    /\ outbox' = SubSeq(outbox, sent + 1, Len(outbox))
    /\ batch' = 0 /\ sent' = 0
    /\ UNCHANGED <<log, faults, lost>> /\ RelayOnly

\* The relay dies in a run: nothing of it is marked.
RelayCrash ==
    /\ batch > 0 /\ faults < bound.faults
    /\ faults' = faults + 1
    /\ batch' = 0 /\ sent' = 0
    /\ UNCHANGED <<outbox, log, lost>> /\ RelayOnly

-----------------------------------------------------------------------------
(* The consumer                                                            *)

\* Mutant of IsRetired: a use case that has not arrived yet counts as retired.
NotLive == guc # "live"

\* _is_retired: a tombstone; absence is not retirement.
IsRetired == guc = "tombstone"

\* Mutant of WithKey: a key that comes back is active again.
Reactivated(k) == [gkey EXCEPT ![k] = IF IsRetired THEN "inactive" ELSE "active"]

\* _upsert_api_key: a new key is active unless its use case is retired, a known
\* one is never reactivated.
WithKey(k) ==
    [gkey EXCEPT ![k] = IF @ # "none" THEN @ ELSE IF IsRetired THEN "inactive" ELSE "active"]

\* _revoke_api_key: a key that is not known yet is not written.
WithoutKey(k) == [gkey EXCEPT ![k] = IF @ = "none" THEN @ ELSE "inactive"]

\* _upsert_member, _upsert_group_grant, _upsert_budget and the like.
Restored(c) == IF IsRetired THEN gchild ELSE gchild \cup {c}

\* _upsert_usecase leaves deleted_at alone: a tombstone stays one.
UpsertUseCase ==
    /\ guc' = IF guc = "absent" THEN "live" ELSE guc
    /\ UNCHANGED <<gchild, gkey>>

\* _retire_usecase sweeps the children and writes the tombstone.
RetireUseCase ==
    /\ guc' = "tombstone"
    /\ gchild' = {}
    /\ gkey' = [k \in ApiKeys |-> IF gkey[k] = "none" THEN "none" ELSE "inactive"]

\* apply_event: the handler of the event's type.
Handle(i, type) ==
    \/ type = "upserted" /\ UpsertUseCase
    \/ type = "deleted" /\ RetireUseCase
    \/ type = "purged" /\ guc' = "absent" /\ UNCHANGED <<gchild, gkey>>
    \/ type = "granted" /\ gchild' = Restored(i) /\ UNCHANGED <<guc, gkey>>
    \/ type = "removed" /\ gchild' = gchild \ {i} /\ UNCHANGED <<guc, gkey>>
    \/ type = "created" /\ gkey' = WithKey(i) /\ UNCHANGED <<guc, gchild>>
    \/ type = "revoked" /\ gkey' = WithoutKey(i) /\ UNCHANGED <<guc, gchild>>

ConsumerOnly == UNCHANGED <<management, outbox, relay, counts, bound, word, revived>>

\* apply_one_message: one event, applied and committed.
Apply(i) ==
    /\ pos[i] < Len(log[i])
    /\ Handle(i, log[i][pos[i] + 1])
    /\ pos' = [pos EXCEPT ![i] = @ + 1]
    /\ UNCHANGED <<log, faults, replays, lost>> /\ ConsumerOnly

\* An event that cannot be applied, for whatever reason, is skipped for good.
Skip(i) ==
    /\ pos[i] < Len(log[i]) /\ faults < bound.faults
    /\ faults' = faults + 1
    /\ lost' = lost \cup {i}
    /\ pos' = [pos EXCEPT ![i] = @ + 1]
    /\ UNCHANGED <<log, gateway, replays>> /\ ConsumerOnly

\* The consumer restarts behind what it has applied: at the committed offset.
Redeliver(i) ==
    /\ pos[i] > 0 /\ replays < bound.replays
    /\ replays' = replays + 1
    /\ \E p \in 0 .. pos[i] - 1 : pos' = [pos EXCEPT ![i] = p]
    /\ UNCHANGED <<log, gateway, faults, lost>> /\ ConsumerOnly

\* auto_offset_reset = "earliest": everything is read again, into the
\* read-model as it stands or into an empty one.
Reset(rebuild) ==
    /\ replays < bound.replays /\ \E i \in Ids : pos[i] > 0
    /\ replays' = replays + 1
    /\ pos' = [i \in Ids |-> 0]
    /\ IF rebuild
       THEN guc' = "absent" /\ gchild' = {} /\ gkey' = [k \in ApiKeys |-> "none"]
       ELSE UNCHANGED gateway
    /\ UNCHANGED <<log, faults, lost>> /\ ConsumerOnly

\* cleanup.policy=compact: the last event of a key is the one that stays.
Compact(i) ==
    /\ Len(log[i]) > 1
    /\ log' = [log EXCEPT ![i] = <<Last(@)>>]
    /\ pos' = [pos EXCEPT ![i] = IF @ = Len(log[i]) THEN 1 ELSE 0]
    /\ UNCHANGED <<gateway, faults, replays, lost>> /\ ConsumerOnly

-----------------------------------------------------------------------------
Init ==
    /\ uc = "absent" /\ rows = {} /\ mkey = [k \in ApiKeys |-> "none"]
    /\ outbox = <<>> /\ asked = [k \in ApiKeys |-> "no"]
    /\ batch = 0 /\ sent = 0
    /\ log = [i \in Ids |-> <<>>] /\ pos = [i \in Ids |-> 0]
    /\ guc = "absent" /\ gchild = {} /\ gkey = [k \in ApiKeys |-> "none"]
    /\ bound \in Bounds
    /\ changes = 0 /\ created = 0 /\ faults = 0 /\ replays = 0
    /\ word = [i \in Ids |-> "none"]
    /\ lost = {} /\ revived = FALSE

Change ==
    \/ \E c \in Children : Create(c) \/ Admit(c) \/ Withdraw(c)
    \/ \E k \in ApiKeys : AskForGrant(k) \/ Issue(k) \/ Revoke(k)
    \/ Update \/ Announce \/ Retire \/ Purge

Relay == StartRun \/ Send \/ Mark

Disturb ==
    \/ Park \/ SendFails \/ RelayCrash
    \/ \E i \in Ids : Skip(i) \/ Redeliver(i) \/ Compact(i)
    \/ \E rebuild \in BOOLEAN : Reset(rebuild)

Next == Change \/ Relay \/ Disturb \/ \E i \in Ids : Apply(i)

\* The relay runs on a loop and the consumer reads on; nobody has to change
\* anything, and nothing has to fail.
Fairness == WF_vars(Relay) /\ \A i \in Ids : WF_vars(Apply(i))

Spec == Init /\ [][Next]_vars /\ Fairness

-----------------------------------------------------------------------------
(* Properties *)

Types == {"upserted", "deleted", "purged", "granted", "removed", "created", "revoked"}

\* Every variable keeps its type: a run never reaches past the outbox, nor the
\* consumer past a log.
TypeOK ==
    /\ bound \in Bounds
    /\ uc \in {"absent", "live", "retired"}
    /\ rows \subseteq Children
    /\ mkey \in [ApiKeys -> {"none", "active", "revoked"}]
    /\ outbox \in Seq([id : Ids, type : Types])
    /\ asked \in [ApiKeys -> {"no", "held", "unheld"}]
    /\ sent \in 0 .. batch /\ batch \in 0 .. Len(outbox)
    /\ log \in [Ids -> Seq(Types)]
    /\ pos \in [Ids -> Nat] /\ \A i \in Ids : pos[i] <= Len(log[i])
    /\ guc \in {"absent", "live", "tombstone"}
    /\ gchild \subseteq Children
    /\ gkey \in [ApiKeys -> {"none", "active", "inactive"}]
    /\ word \in [Ids -> Types \cup {"none"}]
    /\ lost \subseteq Ids

\* "It and every event after it stay pending for the next run" (_publish): a
\* relay that dies, fails or repeats a batch never leaves an older event behind
\* the last one of its key, which is the one that compaction keeps and that
\* decides what a rebuild finds: that is among what the relay has still to send,
\* or else the last of what Kafka holds.
LastWordIsKept ==
    \A i \in Ids \ lost : word[i] # "none" =>
        \/ \E n \in DOMAIN outbox :
              /\ outbox[n] = Event(i, word[i])
              /\ \A m \in DOMAIN outbox : outbox[m].id = i => m <= n
        \/ /\ \A n \in DOMAIN outbox : outbox[n].id # i
           /\ log[i] # <<>> /\ Last(log[i]) = word[i]

\* Everything committed has been sent and read, and nothing set aside.
Quiet == outbox = <<>> /\ (\A i \in Ids : pos[i] = Len(log[i])) /\ lost = {}

\* "Every replay in every order converges on no access" (end_access, FRD-607
\* 4.1b): whatever the order, the repetitions, the rebuilds and the compaction,
\* once all is read the gateway lets through no key and keeps no child that
\* Management does not grant in a live use case: not after a retirement, not
\* after a purge, not in a new use case of the same slug, and not for a change
\* that committed while the use case was being retired.  An upsert committed
\* after the retirement is excepted (RetirementStands).
NoExtraAccess ==
    (Quiet /\ ~revived) =>
        /\ \A k \in ApiKeys : gkey[k] = "active" => mkey[k] = "active" /\ uc = "live"
        /\ gchild # {} => uc = "live" /\ gchild \subseteq rows

\* "A redelivered event - or a replayed compacted topic - converges to the same
\* state" (apply.py): once all is read, the gateway holds what Management does.
\* Only while the slug is used for the first time: a replay that meets the new
\* use case's children before the old one's deletion sweeps them.
Converges ==
    (Quiet /\ ~revived /\ created = 1) =>
        /\ guc = CASE uc = "live" -> "live" [] uc = "retired" -> "tombstone"
                   [] uc = "absent" -> "absent"
        /\ uc = "live" => gchild = rows
        /\ uc = "live" => \A k \in ApiKeys : mkey[k] = "active" <=> gkey[k] = "active"

\* "A created event can be redelivered after the matching revoked, so revocation
\* is terminal" (_upsert_api_key): only a rebuild forgets it.
RevocationIsTerminal ==
    [][\A k \in ApiKeys : gkey[k] = "inactive" => gkey'[k] # "active"]_vars

\* A revoked key stops working: the gateway refuses it from some moment on,
\* unless one of its own events was set aside or skipped.
RevocationArrives ==
    \A k \in ApiKeys :
        [](mkey[k] = "revoked" => <>[](gkey[k] # "active" \/ k \in lost))

-----------------------------------------------------------------------------
(* What a doc or a comment says, and the code does not keep (README)        *)

\* "Non-goals. Un-retiring." (FRD-607 2): a retired use case is purged or stays.
RetirementStands == [][uc = "retired" => uc' # "live"]_vars

\* "Access ending has to end the credentials that rested on it"
\* (_revoke_keys_without_access): an active key's owner holds a grant.
KeysRestOnAccess == \A k \in ActiveKeys : Owner[k] \in rows
=============================================================================
