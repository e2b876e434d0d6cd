--------------------------- MODULE LegacyPipeline ---------------------------
(***************************************************************************)
(* The legacy reader's ingestion: the RSS poller and the email webhook     *)
(* publish articles to RabbitMQ, a storage worker writes the rows and      *)
(* triggers the enrichment workers, failures end on the dead-letter queue, *)
(* and the admin's backfill triggers again what was never enriched.        *)
(* Messages are acknowledged by hand; publishing is not confirmed, and     *)
(* nothing reconnects: after a lost connection the process consumes no     *)
(* more until it is restarted.                                             *)
(***************************************************************************)
EXTENDS Integers, Sequences, FiniteSets

CONSTANTS
    Items,      \* items of one RSS source
    Letters,    \* newsletters of the email webhook: they have no URL
    Pollers,    \* the poll loop and the requests for RefreshSource
    Enrichers,  \* the enrichment deliveries in hand at once (prefetch 5)
    MaxTime,    \* bound on the clock
    MaxFaults,  \* bound on lost connections and restarts
    MaxArticles,\* bound on the items and letters that appear
    None


VARIABLES
    now,
    feed,       \* [Items -> the date of the item in the feed, or None]
    cursor,     \* the source's last_fetched_at, 0 also for NULL: nothing is older
    poller,     \* [Pollers -> the locals of pollSource]
    queue,      \* messages on articles.store and articles.enrich
    unacked,    \* messages delivered and not acknowledged
    work,       \* [Consumers -> the delivery it handles]
    dead,       \* messages that reached articles.dlq, whose consumer logs and
                \* acknowledges whatever it gets
    rows,       \* [Articles -> the rows stored for it]
    backfill,   \* triggers the admin's backfill has yet to publish
    up,         \* whether the process has its connection
    faults,
    quiet,      \* history: items that appeared, dated now, during no poll
    sent, lost  \* history: articles published; messages lost with the
                \* connection, and triggers a restart, a refusal or a
                \* duplicate ate

source == <<now, feed, cursor, quiet>>
broker == <<queue, unacked, dead, up, faults, sent, lost>>
vars == <<source, poller, broker, work, rows, backfill>>

Articles == Items \union Letters
RowIds == Items \X {1} \union Letters \X (1..MaxFaults + 1)
Messages == Articles \union RowIds
Storer == "storer"      \* prefetch 1: one delivery at a time
Consumers == {Storer} \union Enrichers

ASSUME LegacyPipelineAssumption ==
    /\ {MaxTime, MaxFaults, MaxArticles} \subseteq Nat
    /\ Items \intersect Letters = {} /\ Articles \intersect RowIds = {} /\ Storer \notin Enrichers
    /\ None \notin Messages /\ None \notin 0..MaxTime

NoWork == [at |-> "idle", msg |-> None]
Resting == [at |-> "idle", cursor |-> 0, todo |-> {}]

\* What is in a row: "unseen" has the columns of "new", and the answer of its
\* INSERT was lost; "unscored" has those of "content", and its Score failed.
Rows == {"new", "unseen", "content", "unscored", "scored"}
Bare == {"new", "unseen"}

TypeOK ==
    /\ now \in 0..MaxTime /\ cursor \in 0..MaxTime /\ feed \in [Items -> 0..MaxTime \union {None}]
    /\ poller \in [Pollers -> [at: {"idle", "parse", "publish"}, cursor: 0..MaxTime, todo: SUBSET Items]]
    /\ queue \union unacked \union dead \union lost \subseteq Messages
    /\ work \in [Consumers -> [at: {"idle", "create", "trigger", "content", "score", "ack", "nack"},
                               msg: Messages \union {None}]]
    /\ rows \in [Articles -> Seq(Rows)] /\ backfill \subseteq RowIds
    /\ up \in BOOLEAN /\ faults \in 0..MaxFaults /\ quiet \subseteq Items /\ sent \subseteq Articles

Init ==
    /\ now = 0 /\ feed = [i \in Items |-> None] /\ cursor = 0 /\ quiet = {}
    /\ poller = [p \in Pollers |-> Resting]
    /\ queue = {} /\ unacked = {} /\ dead = {} /\ up = TRUE /\ faults = 0 /\ sent = {} /\ lost = {}
    /\ work = [w \in Consumers |-> NoWork]
    /\ rows = [a \in Articles |-> <<>>] /\ backfill = {}

Fault == faults < MaxFaults /\ faults' = faults + 1

\* Publisher.Publish: an error without a connection, else nil at once, though
\* the broker may never see a message published as the connection breaks.
Publish(m) ==
    /\ up /\ sent' = sent \union ({m} \intersect Articles)
    /\ \/ queue' = queue \union {m} /\ UNCHANGED <<up, faults, lost>>
       \/ Fault /\ up' = FALSE /\ lost' = lost \union {m} /\ UNCHANGED queue
    /\ UNCHANGED <<unacked, dead>>

-----------------------------------------------------------------------------
(* The sources *)

Tick == now < MaxTime /\ now' = now + 1 /\ UNCHANGED <<feed, cursor, quiet, poller, broker, work, rows, backfill>>

Room == Cardinality({i \in Items : feed[i] # None} \union (sent \intersect Letters)) < MaxArticles

\* An item appears in the feed, perhaps with an older date.
Appear(i) ==
    /\ feed[i] = None /\ Room
    /\ \E date \in 0..now :
          /\ feed' = [feed EXCEPT ![i] = date]
          /\ quiet' = IF date = now /\ \A p \in Pollers : poller[p].at # "publish"
                      THEN quiet \union {i} ELSE quiet
    /\ UNCHANGED <<now, cursor, poller, broker, work, rows, backfill>>

\* ListActive, FindByID: the source's row is read.
Poll(p) ==
    /\ poller[p].at = "idle"
    /\ poller' = [poller EXCEPT ![p].at = "parse", ![p].cursor = cursor]
    /\ UNCHANGED <<source, broker, work, rows, backfill>>

\* Items with a date before the cursor are skipped.
Wanted(p) == {i \in Items : feed[i] # None /\ feed[i] >= poller[p].cursor}

\* Parse fails: the row is written back as it was read, with the error, or
\* that UPDATE fails too.
\* Parse succeeds: the feed is read.
Parse(p) ==
    /\ poller[p].at = "parse"
    /\ \/ cursor' \in {cursor, poller[p].cursor} /\ poller' = [poller EXCEPT ![p] = Resting]
       \/ UNCHANGED cursor /\ poller' = [poller EXCEPT ![p].at = "publish", ![p].todo = Wanted(p)]
    /\ UNCHANGED <<now, feed, quiet, broker, work, rows, backfill>>

\* Mutation: an item that cannot be published is left out.
AfterRefusalGoOn(p, i) == [poller EXCEPT ![p].todo = @ \ {i}]

\* The rest of the feed is abandoned, and the cursor stays.
AfterRefusal(p, i) == [poller EXCEPT ![p] = Resting]

PublishItem(p, i) ==
    /\ poller[p].at = "publish" /\ i \in poller[p].todo
    /\ \/ Publish(i) /\ poller' = [poller EXCEPT ![p].todo = @ \ {i}]
       \/ ~up /\ poller' = AfterRefusal(p, i) /\ UNCHANGED broker
    /\ UNCHANGED <<source, work, rows, backfill>>

\* last_fetched_at = now; the UPDATE may fail.
EndPoll(p) ==
    /\ poller[p].at = "publish" /\ poller[p].todo = {}
    /\ cursor' \in {cursor, now}
    /\ poller' = [poller EXCEPT ![p] = Resting]
    /\ UNCHANGED <<now, feed, quiet, broker, work, rows, backfill>>

\* HandleWebhook: the newsletter is published or the sender gets a 500.
Webhook(l) == l \notin sent /\ Room /\ Publish(l) /\ UNCHANGED <<source, poller, work, rows, backfill>>

-----------------------------------------------------------------------------
(* The broker *)

Msg(w) == work[w].msg
GoTo(w, at) == work' = [work EXCEPT ![w].at = at]

\* Mutation: deliveries are acknowledged as they are handed out.
AutoAcked(m) == {}

\* Deliveries are acknowledged by hand.
Owed(m) == {m}

Deliver(w, m) ==
    /\ up /\ m \in queue /\ work[w].at = "idle" /\ (m \in Articles <=> w = Storer)
    /\ queue' = queue \ {m} /\ unacked' = unacked \union Owed(m)
    /\ work' = [work EXCEPT ![w] = [at |-> IF w = Storer THEN "create" ELSE "content", msg |-> m]]
    /\ UNCHANGED <<source, poller, dead, up, faults, sent, lost, rows, backfill>>

\* Mutation: Nack with requeue.
NackRequeues(m) == queue' = queue \union {m} /\ UNCHANGED dead

\* Nack without requeue dead-letters.
Nack(m) == dead' = dead \union {m} /\ UNCHANGED queue

\* worker: ack or Nack, which go nowhere without the connection.
Settle(w) ==
    /\ work[w].at \in {"ack", "nack"} /\ work' = [work EXCEPT ![w] = NoWork]
    /\ unacked' = IF up THEN {Msg(v) : v \in Consumers \ {w}} \intersect unacked ELSE unacked
    /\ IF up /\ work[w].at = "nack" THEN Nack(Msg(w)) ELSE UNCHANGED <<dead, queue>>
    /\ UNCHANGED <<source, poller, up, faults, sent, lost, rows, backfill>>

\* The connection is lost; handlers go on, and nothing reconnects.
Disconnect == up /\ up' = FALSE /\ Fault /\ UNCHANGED <<source, poller, queue, unacked, dead, sent, lost, work, rows, backfill>>

\* The id of the row the storage worker has just inserted.
Trigger == <<Msg(Storer), Len(rows[Msg(Storer)])>>
Triggering(r) == work[Storer].at = "trigger" /\ Trigger = r

Stored(r) == r[2] <= Len(rows[r[1]])
Row(r) == rows[r[1]][r[2]]

\* The process is restarted, with a new connection: handlers, polls and a
\* backfill end where they are, and the broker redelivers. A row of a
\* redelivered article was never triggered, and now nobody will: its article
\* is a duplicate, or gets a row of its own.
Restart ==
    /\ IF up THEN Fault ELSE UNCHANGED faults
    /\ up' = TRUE /\ queue' = queue \union unacked /\ unacked' = {}
    /\ lost' = lost \union {r \in RowIds : Triggering(r) \/ (Stored(r) /\ Row(r) = "unseen" /\ r[1] \in unacked)}
    /\ work' = [w \in Consumers |-> NoWork] /\ poller' = [p \in Pollers |-> Resting] /\ backfill' = {}
    /\ UNCHANGED <<source, dead, sent, rows>>

-----------------------------------------------------------------------------
(* The workers *)

\* Mutation: the INSERT without its ON CONFLICT clause.
InsertAlways(a) == TRUE

\* Create: ON CONFLICT (external_url) DO NOTHING, which a NULL never meets.
\* A duplicate is acknowledged. An error dead-letters, and the row may have
\* been inserted all the same: it is never triggered.
CanInsert(a) == rows[a] = <<>> \/ a \in Letters
Create ==
    /\ work[Storer].at = "create"
    /\ LET a == Msg(Storer)
       IN  \/ CanInsert(a) /\ rows' = [rows EXCEPT ![a] = Append(@, "new")] /\ GoTo(Storer, "trigger")
           \/ ~CanInsert(a) /\ GoTo(Storer, "ack") /\ UNCHANGED rows
           \/ CanInsert(a) /\ rows' = [rows EXCEPT ![a] = Append(@, "unseen")] /\ GoTo(Storer, "nack")
           \/ GoTo(Storer, "nack") /\ UNCHANGED rows
    /\ UNCHANGED <<source, poller, broker, backfill>>

\* The trigger is published; if that fails the message is acknowledged all
\* the same.
PublishTrigger ==
    /\ work[Storer].at = "trigger" /\ GoTo(Storer, "ack")
    /\ \/ Publish(Trigger)
       \/ ~up /\ lost' = lost \union {Trigger} /\ UNCHANGED <<queue, unacked, dead, up, faults, sent>>
    /\ UNCHANGED <<source, poller, rows, backfill>>

Write(r, value) == rows' = [rows EXCEPT ![r[1]][r[2]] = value]

\* NewEnrichHandler up to UpdateContent: an error of the database
\* dead-letters, before or after the UPDATE took effect; a page that cannot be
\* fetched does not.
Content(w) ==
    /\ work[w].at = "content"
    /\ \/ /\ Write(Msg(w), IF Row(Msg(w)) = "scored" THEN "scored" ELSE "content")
          /\ GoTo(w, "score") \/ GoTo(w, "nack")
       \/ UNCHANGED rows /\ GoTo(w, "nack")
    /\ UNCHANGED <<source, poller, broker, backfill>>

\* Score, its UPDATE and the reason: whatever fails, the message is
\* acknowledged.
Score(w) ==
    /\ work[w].at = "score" /\ GoTo(w, "ack")
    /\ \/ Write(Msg(w), "scored")
       \/ Write(Msg(w), IF Row(Msg(w)) = "scored" THEN "scored" ELSE "unscored")
    /\ UNCHANGED <<source, poller, broker, backfill>>

\* EnrichBackfill: FindUnenriched, then one trigger after the other.
StartBackfill ==
    /\ backfill = {} /\ backfill' = {r \in RowIds : Stored(r) /\ Row(r) \in Bare}
    /\ UNCHANGED <<source, poller, broker, work, rows>>
Backfill(r) ==
    /\ r \in backfill
    /\ \/ Publish(r) /\ backfill' = backfill \ {r}
       \/ ~up /\ backfill' = {} /\ UNCHANGED broker
    /\ UNCHANGED <<source, poller, work, rows>>

Handle(w) == Settle(w) \/ (IF w = Storer THEN Create \/ PublishTrigger ELSE Content(w) \/ Score(w))

Next ==
    \/ Tick \/ Disconnect \/ Restart \/ StartBackfill
    \/ \E i \in Items : Appear(i)
    \/ \E p \in Pollers : Poll(p) \/ Parse(p) \/ EndPoll(p) \/ \E i \in Items : PublishItem(p, i)
    \/ \E l \in Letters : Webhook(l)
    \/ \E w \in Consumers : Handle(w) \/ \E m \in Messages : Deliver(w, m)
    \/ \E r \in RowIds : Backfill(r)

\* A worker handles what it has, and takes what there is.
Fairness == \A w \in Consumers : WF_vars(Handle(w) \/ \E m \in Messages : Deliver(w, m))

Spec == Init /\ [][Next]_vars /\ Fairness

-----------------------------------------------------------------------------
(* Properties *)

\* Safety: an item that appears in the feed with the date of the day, and not
\* while a poll publishes, is published before the cursor passes it, whatever
\* the polls, refreshes and refused publications in between.
CursorKeepsUp == \A i \in quiet \ sent : cursor <= feed[i]

\* Safety: an item is stored once, however often it is published; a newsletter,
\* which has no URL to conflict on, once more for each fault at most.
DuplicatesPaid ==
    /\ \A i \in Items : Len(rows[i]) <= 1
    /\ \A l \in Letters : Len(rows[l]) <= 1 + faults

Pending(m) == m \in queue \union unacked
Accounted(m) == Pending(m) \/ m \in dead \union lost

\* Safety: what was published is stored, on its way, dead-lettered in the
\* open or lost with a connection, through redeliveries and restarts; so is
\* the trigger of a row without content, or, when the storage worker never
\* learnt of the row, its article; and a row with content but no Score is
\* being worked on, dead-lettered or had its Score fail.
NothingStranded ==
    /\ \A a \in sent : rows[a] # <<>> \/ Accounted(a)
    /\ \A r \in RowIds : Stored(r) =>
          CASE Row(r) = "new" -> Accounted(r) \/ Triggering(r)
            [] Row(r) = "unseen" -> r \in lost \/ r[1] \in dead \union unacked
            [] Row(r) = "content" -> Pending(r) \/ r \in dead
            [] OTHER -> TRUE

\* Liveness: with a connection that holds and no backfill in the end, every
\* published article gets stored and every row its content, but for what is
\* dead-lettered, itself or with its article, or was lost with a connection or
\* a restart.
PipelineSettles ==
    <>[](up /\ backfill = {}) =>
    <>[](/\ \A a \in sent : rows[a] # <<>> \/ a \in dead \union lost
         /\ \A r \in RowIds : Stored(r) =>
               CASE Row(r) = "new" -> r \in dead \union lost
                 [] Row(r) = "unseen" -> r \in lost \/ r[1] \in dead
                 [] OTHER -> TRUE)
=============================================================================
