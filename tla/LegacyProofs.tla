--------------------------- MODULE LegacyProofs -----------------------------
(***************************************************************************)
(* Proofs about the legacy reader: LegacyPipeline, for any items, letters, *)
(* pollers and workers and any bounds, and DigestScheduler, for any set of *)
(* calls and any number of days.                                           *)
(***************************************************************************)
EXTENDS LegacyPipeline, DigestScheduler, FiniteSetTheorems, SequenceTheorems, TLAPS

-----------------------------------------------------------------------------
(* The pipeline *)

\* What the sources' state is.
SourceTyped ==
    /\ LegacyPipelineAssumption
    /\ now \in 0..MaxTime /\ cursor \in 0..now /\ quiet \subseteq Items
    /\ feed \in [Items -> 0..MaxTime \union {None}]
    /\ poller \in [Pollers -> [at: {"idle", "parse", "publish"}, cursor: 0..MaxTime,
                               todo: SUBSET Items]]
    /\ \A p \in Pollers : poller[p].cursor <= now

\* An item that appeared quietly and was not published is ahead of every
\* cursor, and every poll that has read the feed has it to publish.
Ahead ==
    \A i \in quiet \ sent :
        /\ feed[i] \in 0..now /\ cursor <= feed[i]
        /\ \A p \in Pollers :
              /\ poller[p].at # "idle" => poller[p].cursor <= feed[i]
              /\ poller[p].at = "publish" => i \in poller[p].todo

SourceInv == SourceTyped /\ Ahead

\* What the workers' state is: the storage worker has articles, the
\* enrichment workers have rows, and what they have is not acknowledged.
WorkTyped ==
    /\ LegacyPipelineAssumption
    /\ rows \in [Articles -> Seq(Rows)] /\ up \in BOOLEAN
    /\ work \in [Consumers -> [at: {"idle", "create", "trigger", "content", "score", "ack", "nack"},
                               msg: Messages \union {None}]]
    /\ work[Storer].at # "idle" =>
          work[Storer].msg \in Articles /\ work[Storer].at \notin {"content", "score"}
    /\ \A w \in Enrichers : work[w].at # "idle" =>
          work[w].msg \in RowIds /\ work[w].at \notin {"create", "trigger"}
    /\ \A w \in Consumers : work[w].at # "idle" => work[w].msg \in unacked

\* Consumer w handles m at one of these places.
Has(w, m, places) == work[w].msg = m /\ work[w].at \in places

\* Only stored rows are triggered, and a handler past its write has written.
RowsKnown ==
    /\ \A r \in RowIds : r \in queue \union unacked \union backfill => Stored(r)
    /\ work[Storer].at \in {"trigger", "ack"} => rows[work[Storer].msg] # <<>>
    /\ \A w \in Enrichers : work[w].at \in {"score", "ack"} => Row(work[w].msg) # "new"

\* Where an article without a row is, a row without content, and one without
\* its Score.  A message that is not acknowledged is safe once the connection
\* is lost; until then a consumer must have it.
ArticlesKnown ==
    \A a \in sent : rows[a] = <<>> =>
        \/ a \in queue \union dead \union lost
        \/ Has(Storer, a, {"create", "nack"})
        \/ ~up /\ a \in unacked

NewKnown ==
    \A r \in RowIds : Stored(r) /\ Row(r) = "new" =>
        \/ r \in queue \union dead \union lost
        \/ Triggering(r)
        \/ \E w \in Enrichers : Has(w, r, {"content", "nack"})
        \/ ~up /\ r \in unacked

ContentKnown ==
    \A r \in RowIds : Stored(r) /\ Row(r) = "content" =>
        \/ r \in queue \union dead
        \/ \E w \in Enrichers : Has(w, r, {"content", "score", "nack"})
        \/ ~up /\ r \in unacked

\* Where the article is of a row whose INSERT's answer was lost.
UnseenKnown ==
    \A r \in RowIds : Stored(r) /\ Row(r) = "unseen" =>
        \/ r \in lost
        \/ r[1] \in dead
        \/ Has(Storer, r[1], {"nack"})
        \/ ~up /\ r[1] \in unacked

WorkInv ==
    /\ WorkTyped /\ RowsKnown /\ sent \subseteq Articles
    /\ ArticlesKnown /\ NewKnown /\ UnseenKnown /\ ContentKnown

\* What faults pay for: a letter is queued once per delivery, and to be
\* delivered again after its row is stored takes another fault.
Paid ==
    /\ faults \in 0..MaxFaults
    /\ queue \union unacked \union dead \union lost \subseteq Messages /\ backfill \subseteq RowIds
    /\ \A i \in Items : Len(rows[i]) <= 1
    /\ \A l \in Letters :
          /\ l \notin sent => rows[l] = <<>> /\ l \notin queue \union unacked
          /\ l \in queue => l \notin unacked /\ Len(rows[l]) <= faults
          /\ Len(rows[l]) <= faults + 1
          /\ ~up /\ l \in unacked => Len(rows[l]) <= faults
          /\ Has(Storer, l, {"create"}) =>
                Len(rows[l]) <= faults /\ (~up => Len(rows[l]) + 1 <= faults)

PipelineInv == SourceInv /\ WorkInv /\ Paid


-----------------------------------------------------------------------------
(* The sources and the cursor *)

Poll0 == [at: {"idle", "parse", "publish"}, cursor: 0..MaxTime, todo: SUBSET Items]

\* The numbers of SourceTyped.
LEMMA SourceNumbers ==
    ASSUME SourceTyped
    PROVE  /\ MaxTime \in Nat /\ now \in Nat /\ now <= MaxTime /\ cursor \in Nat /\ cursor <= now
           /\ None \notin 0..MaxTime
           /\ \A i \in Items : feed[i] # None => feed[i] \in Nat
           /\ \A p \in Pollers : /\ poller[p] \in Poll0
                                 /\ poller[p].cursor \in Nat /\ poller[p].cursor <= now
<1>1. MaxTime \in Nat /\ None \notin 0..MaxTime
  BY DEF SourceTyped, LegacyPipelineAssumption
<1>2. \A p \in Pollers : poller[p] \in Poll0
  BY DEF SourceTyped, Poll0
<1> QED BY <1>1, <1>2 DEF SourceTyped, Poll0

\* Nothing has appeared.
LEMMA SourceInit == LegacyPipelineAssumption /\ Init => SourceInv
<1> SUFFICES ASSUME LegacyPipelineAssumption, Init PROVE SourceInv
  OBVIOUS
<1>1. MaxTime \in Nat
  BY DEF LegacyPipelineAssumption
<1>2. SourceTyped
  BY <1>1 DEF Init, SourceTyped, Resting
<1>3. Ahead
  BY DEF Init, Ahead
<1> QED BY <1>2, <1>3 DEF SourceInv

\* What leaves the sources and the polls alone loses nothing: more is
\* published at most.
LEMMA SourceAlone ==
    ASSUME SourceInv, UNCHANGED <<source, poller>>, sent \subseteq sent'
    PROVE  SourceInv'
<1>1. UNCHANGED <<now, feed, cursor, quiet, poller>>
  BY DEF source
<1>2. SourceTyped'
  BY <1>1 DEF SourceInv, SourceTyped, LegacyPipelineAssumption
<1>3. Ahead'
  BY <1>1 DEF SourceInv, Ahead
<1> QED BY <1>2, <1>3 DEF SourceInv

\* A tick.
LEMMA TickSource == ASSUME SourceInv, Tick PROVE SourceInv'
<1>1. /\ now < MaxTime /\ now' = now + 1 /\ UNCHANGED <<feed, cursor, quiet, poller, sent>>
      /\ SourceTyped /\ Ahead
  BY DEF Tick, broker, SourceInv
<1>2. /\ now' \in 0..MaxTime /\ cursor' \in 0..now'
      /\ \A p \in Pollers : poller'[p].cursor <= now'
  BY <1>1, SourceNumbers
<1>3. SourceTyped'
  BY <1>1, <1>2 DEF SourceTyped, LegacyPipelineAssumption
<1>4. \A i \in quiet \ sent : feed'[i] \in 0..now'
  BY <1>1, SourceNumbers DEF Ahead
<1>5. Ahead'
  BY <1>1, <1>4 DEF Ahead
<1> QED BY <1>3, <1>5 DEF SourceInv

\* An item appears: quietly only with the date of the day and while no poll
\* publishes, so no cursor is past it.
LEMMA AppearSource == ASSUME SourceInv, NEW i \in Items, Appear(i) PROVE SourceInv'
<1>1. /\ feed[i] = None /\ UNCHANGED <<now, cursor, poller, sent>> /\ SourceTyped /\ Ahead
  BY DEF Appear, broker, SourceInv
<1>2. PICK date \in 0..now :
         /\ feed' = [feed EXCEPT ![i] = date]
         /\ quiet' = IF date = now /\ \A p \in Pollers : poller[p].at # "publish"
                     THEN quiet \union {i} ELSE quiet
  BY DEF Appear
<1>3. date \in 0..MaxTime
  BY <1>1, SourceNumbers
<1>4. SourceTyped'
  BY <1>1, <1>2, <1>3 DEF SourceTyped, LegacyPipelineAssumption
<1>5. i \notin quiet \ sent
  BY <1>1, SourceNumbers DEF Ahead
<1>6. feed'[i] = date /\ \A j \in Items : j # i => feed'[j] = feed[j]
  BY <1>1, <1>2 DEF SourceTyped
<1>7. ASSUME NEW j \in quiet' \ sent'
      PROVE  /\ feed'[j] \in 0..now' /\ cursor' <= feed'[j]
             /\ \A p \in Pollers :
                   /\ poller'[p].at # "idle" => poller'[p].cursor <= feed'[j]
                   /\ poller'[p].at = "publish" => j \in poller'[p].todo
  <2>1. CASE j # i
    <3>1. j \in quiet \ sent /\ j \in Items
      BY <1>1, <1>2, <1>7, <2>1 DEF SourceTyped
    <3> QED BY <1>1, <1>6, <2>1, <3>1 DEF Ahead
  <2>2. CASE j = i
    <3>1. date = now /\ \A p \in Pollers : poller[p].at # "publish"
      BY <1>1, <1>2, <1>5, <1>7, <2>2
    <3> QED BY <1>1, <1>6, <2>2, <3>1, SourceNumbers
  <2> QED BY <2>1, <2>2
<1>8. Ahead'
  BY <1>7 DEF Ahead
<1> QED BY <1>4, <1>8 DEF SourceInv

\* A poller moves, the others do not.
LEMMA PollerMoves ==
    ASSUME SourceTyped, NEW p \in Pollers, NEW q \in Poll0, poller' = [poller EXCEPT ![p] = q],
           q.cursor <= now, UNCHANGED <<now, feed, quiet>>, cursor' \in 0..now
    PROVE  /\ SourceTyped' /\ poller'[p] = q
           /\ \A r \in Pollers : r # p => poller'[r] = poller[r]
<1>1. poller \in [Pollers -> Poll0]
  BY DEF SourceTyped, Poll0
<1>2. /\ poller' \in [Pollers -> Poll0] /\ poller'[p] = q
      /\ \A r \in Pollers : r # p => poller'[r] = poller[r]
  BY <1>1
<1>3. \A r \in Pollers : poller'[r].cursor <= now
  BY <1>2 DEF SourceTyped
<1> QED BY <1>2, <1>3 DEF SourceTyped, Poll0, LegacyPipelineAssumption

\* What poller p has is ahead still, and so is the cursor.
LEMMA AheadStill ==
    ASSUME Ahead, NEW p \in Pollers, UNCHANGED <<now, feed, quiet, sent>>,
           \A r \in Pollers : r # p => poller'[r] = poller[r],
           \A i \in quiet \ sent :
              /\ cursor' <= feed[i]
              /\ poller'[p].at # "idle" => poller'[p].cursor <= feed[i]
              /\ poller'[p].at = "publish" => i \in poller'[p].todo
    PROVE  Ahead'
<1> SUFFICES ASSUME NEW i \in quiet \ sent
             PROVE  /\ feed[i] \in 0..now /\ cursor' <= feed[i]
                    /\ \A r \in Pollers :
                          /\ poller'[r].at # "idle" => poller'[r].cursor <= feed[i]
                          /\ poller'[r].at = "publish" => i \in poller'[r].todo
  BY DEF Ahead
<1>1. ASSUME NEW r \in Pollers, r # p
      PROVE  /\ poller'[r].at # "idle" => poller'[r].cursor <= feed[i]
             /\ poller'[r].at = "publish" => i \in poller'[r].todo
  BY <1>1 DEF Ahead
<1> QED BY <1>1 DEF Ahead

\* The source's row is read.
LEMMA PollSource == ASSUME SourceInv, NEW p \in Pollers, Poll(p) PROVE SourceInv'
<1>1. /\ UNCHANGED <<now, feed, cursor, quiet, sent>> /\ SourceTyped /\ Ahead
      /\ poller' = [poller EXCEPT ![p].at = "parse", ![p].cursor = cursor]
  BY DEF Poll, source, broker, SourceInv
<1> DEFINE q == [at |-> "parse", cursor |-> cursor, todo |-> poller[p].todo]
<1>2. poller \in [Pollers -> Poll0] /\ poller[p] \in Poll0
  BY <1>1 DEF SourceTyped, Poll0
<1>3. poller' = [poller EXCEPT ![p] = q]
  <2>1. poller'[p] = [poller[p] EXCEPT !.at = "parse", !.cursor = cursor]
    BY <1>1, <1>2
  <2>2. poller'[p] = q
    BY <1>2, <2>1 DEF Poll0
  <2>3. poller' = [poller EXCEPT ![p] = poller'[p]]
    BY <1>1, <1>2
  <2> QED BY <2>2, <2>3
<1>4. q \in Poll0 /\ q.cursor <= now /\ cursor' \in 0..now
  <2>1. cursor \in 0..MaxTime /\ poller[p].todo \in SUBSET Items
    BY <1>1, <1>2, SourceNumbers DEF Poll0
  <2> QED BY <1>1, <2>1, SourceNumbers DEF Poll0
<1>5. /\ SourceTyped' /\ poller'[p] = q
      /\ \A r \in Pollers : r # p => poller'[r] = poller[r]
  BY <1>1, <1>3, <1>4, PollerMoves
<1>6. poller'[p].at = "parse" /\ poller'[p].cursor = cursor
  BY <1>5
<1>7. \A i \in quiet \ sent : cursor <= feed[i]
  BY <1>1 DEF Ahead
<1>8. Ahead'
  BY <1>1, <1>5, <1>6, <1>7, AheadStill
<1> QED BY <1>5, <1>8 DEF SourceInv

\* The feed is read: what is ahead of the cursor is to be published; or the
\* old cursor is written back.
LEMMA ParseSource == ASSUME SourceInv, NEW p \in Pollers, Parse(p) PROVE SourceInv'
<1>1. /\ UNCHANGED <<now, feed, quiet, sent>> /\ SourceTyped /\ Ahead
      /\ poller[p].at = "parse"
  BY DEF Parse, broker, SourceInv
<1>2. poller \in [Pollers -> Poll0] /\ poller[p] \in Poll0
  BY <1>1 DEF SourceTyped, Poll0
<1>3. CASE cursor' \in {cursor, poller[p].cursor} /\ poller' = [poller EXCEPT ![p] = Resting]
  <2>1. Resting \in Poll0 /\ Resting.cursor <= now /\ cursor' \in 0..now
    BY <1>1, <1>3, SourceNumbers DEF Resting, Poll0
  <2>2. /\ SourceTyped' /\ poller'[p] = Resting
        /\ \A r \in Pollers : r # p => poller'[r] = poller[r]
    BY <1>1, <1>3, <2>1, PollerMoves
  <2>3. Ahead'
    BY <1>1, <1>3, <2>2 DEF Ahead, Resting
  <2> QED BY <2>2, <2>3 DEF SourceInv
<1>4. CASE /\ UNCHANGED cursor
           /\ poller' = [poller EXCEPT ![p].at = "publish", ![p].todo = Wanted(p)]
  <2> DEFINE q == [at |-> "publish", cursor |-> poller[p].cursor, todo |-> Wanted(p)]
  <2>1. poller' = [poller EXCEPT ![p] = q]
    <3>1. poller'[p] = [poller[p] EXCEPT !.at = "publish", !.todo = Wanted(p)]
      BY <1>2, <1>4
    <3>2. poller'[p] = q
      BY <1>2, <3>1 DEF Poll0
    <3>3. poller' = [poller EXCEPT ![p] = poller'[p]]
      BY <1>2, <1>4
    <3> QED BY <3>2, <3>3
  <2>2. q \in Poll0 /\ q.cursor <= now /\ cursor' \in 0..now
    <3>1. poller[p].cursor \in 0..MaxTime /\ Wanted(p) \in SUBSET Items
      BY <1>2 DEF Poll0, Wanted
    <3> QED BY <1>1, <1>4, <3>1, SourceNumbers DEF Poll0
  <2>3. /\ SourceTyped' /\ poller'[p] = q
        /\ \A r \in Pollers : r # p => poller'[r] = poller[r]
    BY <1>1, <2>1, <2>2, PollerMoves
  <2>4. \A i \in quiet \ sent : i \in Wanted(p) /\ poller[p].cursor <= feed[i]
    <3> TAKE i \in quiet \ sent
    <3>1. i \in Items /\ feed[i] \in 0..now /\ poller[p].cursor <= feed[i]
      BY <1>1 DEF Ahead, SourceTyped
    <3>2. feed[i] # None
      BY <1>1, <3>1, SourceNumbers
    <3> QED BY <1>1, <3>1, <3>2, SourceNumbers DEF Wanted
  <2>5. \A i \in quiet \ sent : cursor <= feed[i]
    BY <1>1 DEF Ahead
  <2>6. poller'[p].cursor = poller[p].cursor /\ poller'[p].todo = Wanted(p)
    BY <2>3
  <2>7. Ahead'
    BY <1>1, <1>4, <2>3, <2>4, <2>5, <2>6, AheadStill
  <2> QED BY <2>3, <2>7 DEF SourceInv
<1> QED BY <1>3, <1>4 DEF Parse

\* What a publication does to the broker.
LEMMA Published ==
    ASSUME NEW m, Publish(m)
    PROVE  /\ up /\ UNCHANGED <<unacked, dead>>
           /\ sent' = sent \union ({m} \intersect Articles)
           /\ \/ queue' = queue \union {m} /\ UNCHANGED <<up, lost>>
              \/ up' = FALSE /\ lost' = lost \union {m} /\ UNCHANGED queue
  BY DEF Publish

\* An item is published, or the poll is abandoned.
LEMMA PublishItemSource ==
    ASSUME SourceInv, NEW p \in Pollers, NEW i \in Items, PublishItem(p, i)
    PROVE  SourceInv'
<1>1. /\ UNCHANGED <<now, feed, cursor, quiet>> /\ SourceTyped /\ Ahead
      /\ poller[p].at = "publish"
  BY DEF PublishItem, source, SourceInv
<1>2. poller \in [Pollers -> Poll0] /\ poller[p] \in Poll0
  BY <1>1 DEF SourceTyped, Poll0
<1>3. CASE Publish(i) /\ poller' = [poller EXCEPT ![p].todo = @ \ {i}]
  <2> DEFINE q == [at |-> "publish", cursor |-> poller[p].cursor, todo |-> poller[p].todo \ {i}]
  <2>1. poller' = [poller EXCEPT ![p] = q]
    <3>1. poller'[p] = [poller[p] EXCEPT !.todo = poller[p].todo \ {i}]
      BY <1>2, <1>3
    <3>2. poller'[p] = q
      BY <1>1, <1>2, <3>1 DEF Poll0
    <3>3. poller' = [poller EXCEPT ![p] = poller'[p]]
      BY <1>2, <1>3
    <3> QED BY <3>2, <3>3
  <2>2. q \in Poll0 /\ q.cursor <= now /\ cursor' \in 0..now
    <3>1. poller[p].cursor \in 0..MaxTime /\ poller[p].todo \ {i} \in SUBSET Items
      BY <1>2 DEF Poll0
    <3> QED BY <1>1, <3>1, SourceNumbers DEF Poll0
  <2>3. /\ SourceTyped' /\ poller'[p] = q
        /\ \A r \in Pollers : r # p => poller'[r] = poller[r]
    BY <1>1, <2>1, <2>2, PollerMoves
  <2>4. sent' = sent \union {i}
    BY <1>3, Published DEF Articles
  <2>5. Ahead'
    BY <1>1, <2>3, <2>4 DEF Ahead
  <2> QED BY <2>3, <2>5 DEF SourceInv
<1>4. CASE poller' = [poller EXCEPT ![p] = Resting] /\ UNCHANGED broker
  <2>1. Resting \in Poll0 /\ Resting.cursor <= now /\ cursor' \in 0..now
    BY <1>1, SourceNumbers DEF Resting, Poll0
  <2>2. /\ SourceTyped' /\ poller'[p] = Resting
        /\ \A r \in Pollers : r # p => poller'[r] = poller[r]
    BY <1>1, <1>4, <2>1, PollerMoves
  <2>3. Ahead'
    BY <1>1, <1>4, <2>2 DEF Ahead, Resting, broker
  <2> QED BY <2>2, <2>3 DEF SourceInv
<1> QED BY <1>3, <1>4 DEF PublishItem, AfterRefusal

\* The cursor moves to the end of a poll that has published all it had.
LEMMA EndPollSource == ASSUME SourceInv, NEW p \in Pollers, EndPoll(p) PROVE SourceInv'
<1>1. /\ UNCHANGED <<now, feed, quiet, sent>> /\ SourceTyped /\ Ahead
      /\ poller[p].at = "publish" /\ poller[p].todo = {} /\ cursor' \in {cursor, now}
      /\ poller' = [poller EXCEPT ![p] = Resting]
  BY DEF EndPoll, broker, SourceInv
<1>2. quiet \ sent = {}
  BY <1>1 DEF Ahead
<1>3. Resting \in Poll0 /\ Resting.cursor <= now /\ cursor' \in 0..now
  BY <1>1, SourceNumbers DEF Resting, Poll0
<1>4. SourceTyped'
  BY <1>1, <1>3, PollerMoves
<1>5. Ahead'
  BY <1>1, <1>2 DEF Ahead
<1> QED BY <1>4, <1>5 DEF SourceInv

\* A restart ends every poll.
LEMMA RestartSource == ASSUME SourceInv, Restart PROVE SourceInv'
<1>1. /\ UNCHANGED <<now, feed, cursor, quiet, sent>> /\ SourceTyped /\ Ahead
      /\ poller' = [p \in Pollers |-> Resting]
  BY DEF Restart, source, SourceInv
<1>2. Resting \in Poll0 /\ Resting.cursor <= now /\ Resting.at = "idle"
  BY <1>1, SourceNumbers DEF Resting, Poll0
<1>3. SourceTyped'
  BY <1>1, <1>2 DEF SourceTyped, Poll0, LegacyPipelineAssumption
<1>4. Ahead'
  BY <1>1, <1>2 DEF Ahead
<1> QED BY <1>3, <1>4 DEF SourceInv

-----------------------------------------------------------------------------
(* The broker and the workers *)

Work0 == [at: {"idle", "create", "trigger", "content", "score", "ack", "nack"},
          msg: Messages \union {None}]

\* A row's id is a pair of an article and a position; articles are not rows'
\* ids, and the storage worker is no enrichment worker.
LEMMA Names ==
    ASSUME LegacyPipelineAssumption
    PROVE  /\ \A r \in RowIds : r = <<r[1], r[2]>> /\ r[1] \in Articles /\ r[2] \in Nat \ {0}
           /\ \A r \in RowIds : r \notin Articles
           /\ Storer \in Consumers /\ Storer \notin Enrichers /\ Enrichers \subseteq Consumers
           /\ \A w \in Consumers : w # Storer => w \in Enrichers
<1>1. MaxFaults \in Nat
  BY DEF LegacyPipelineAssumption
<1>2. \A r \in RowIds : r = <<r[1], r[2]>> /\ r[1] \in Articles /\ r[2] \in Nat \ {0}
  <2> TAKE r \in RowIds
  <2>1. CASE r \in Items \X {1}
    BY <2>1 DEF Articles
  <2>2. CASE r \in Letters \X (1..MaxFaults + 1)
    BY <1>1, <2>2 DEF Articles
  <2> QED BY <2>1, <2>2 DEF RowIds
<1> QED BY <1>2 DEF LegacyPipelineAssumption, Consumers

\* Nothing is published and nothing is stored.
LEMMA WorkInit == LegacyPipelineAssumption /\ Init => WorkInv
<1> SUFFICES ASSUME LegacyPipelineAssumption, Init PROVE WorkInv
  OBVIOUS
<1>1. /\ rows = [a \in Articles |-> <<>>] /\ work = [w \in Consumers |-> NoWork]
      /\ queue = {} /\ unacked = {} /\ sent = {} /\ backfill = {} /\ up = TRUE
  BY DEF Init
<1>2. \A w \in Consumers : work[w].at = "idle"
  BY <1>1 DEF NoWork
<1>3. \A r \in RowIds : ~Stored(r)
  <2> TAKE r \in RowIds
  <2>1. rows[r[1]] = <<>> /\ r[2] \in Nat \ {0}
    BY <1>1, Names
  <2> QED BY <2>1 DEF Stored
<1>4. WorkTyped
  <2>1. work \in [Consumers -> Work0]
    BY <1>1 DEF NoWork, Work0
  <2>2. rows \in [Articles -> Seq(Rows)]
    BY <1>1
  <2> QED BY <1>1, <1>2, <2>1, <2>2, Names DEF WorkTyped, Work0
<1>5. RowsKnown
  BY <1>1, <1>2, Names DEF RowsKnown
<1> QED BY <1>1, <1>3, <1>4, <1>5 DEF WorkInv, ArticlesKnown, NewKnown, UnseenKnown, ContentKnown

\* A row whose INSERT's answer was lost stays known with its article.
LEMMA UnseenStill ==
    ASSUME UnseenKnown, lost \subseteq lost', dead \subseteq dead',
           \A r \in RowIds : Stored(r)' /\ Row(r)' = "unseen" => Stored(r) /\ Row(r) = "unseen",
           \A a : Has(Storer, a, {"nack"}) =>
              Has(Storer, a, {"nack"})' \/ a \in dead' \/ (~up' /\ a \in unacked'),
           \A a : ~up /\ a \in unacked => ~up' /\ a \in unacked'
    PROVE  UnseenKnown'
<1> SUFFICES ASSUME NEW r \in RowIds, Stored(r)', Row(r)' = "unseen"
             PROVE  \/ r \in lost'
                    \/ r[1] \in dead'
                    \/ Has(Storer, r[1], {"nack"})'
                    \/ ~up' /\ r[1] \in unacked'
  BY DEF UnseenKnown, Has
<1>1. \/ r \in lost \/ r[1] \in dead
      \/ Has(Storer, r[1], {"nack"})
      \/ ~up /\ r[1] \in unacked
  BY DEF UnseenKnown
<1> QED BY <1>1

\* The sources and the polls leave the broker and the workers alone.
LEMMA WorkAlone ==
    ASSUME WorkInv, UNCHANGED <<broker, work, rows, backfill>>
    PROVE  WorkInv'
<1>1. UNCHANGED <<queue, unacked, dead, up, sent, lost, work, rows, backfill>>
  BY DEF broker
<1>2. WorkTyped'
  BY <1>1 DEF WorkInv, WorkTyped, LegacyPipelineAssumption
<1>3. RowsKnown' /\ ArticlesKnown'
  BY <1>1 DEF WorkInv, RowsKnown, ArticlesKnown, Stored, Row, Has
<1>4. NewKnown' /\ ContentKnown'
  BY <1>1 DEF WorkInv, NewKnown, ContentKnown, Stored, Row, Has, Triggering, Trigger, Msg
<1>5. UnseenKnown'
  BY <1>1 DEF WorkInv, UnseenKnown, Stored, Row, Has
<1> QED BY <1>1, <1>2, <1>3, <1>4, <1>5 DEF WorkInv

\* An article, or the trigger of a stored row, is published.
LEMMA PublishWork ==
    ASSUME WorkInv, NEW m, Publish(m), UNCHANGED <<work, rows>>, backfill' \subseteq backfill,
           m \in RowIds => Stored(m)
    PROVE  WorkInv'
<1>1. /\ up /\ UNCHANGED <<unacked, dead>> /\ sent' = sent \union ({m} \intersect Articles)
      /\ \/ queue' = queue \union {m} /\ UNCHANGED <<up, lost>>
         \/ up' = FALSE /\ lost' = lost \union {m} /\ UNCHANGED queue
  BY Published
<1>2. /\ queue' \subseteq queue \union {m} /\ queue \subseteq queue' /\ lost \subseteq lost'
      /\ m \in queue' \union lost' /\ up' \in BOOLEAN
  BY <1>1
<1>3. WorkTyped'
  BY <1>1, <1>2 DEF WorkInv, WorkTyped, LegacyPipelineAssumption
<1>4. RowsKnown'
  BY <1>1, <1>2 DEF WorkInv, RowsKnown, Stored, Row
<1>5. ArticlesKnown'
  BY <1>1, <1>2 DEF WorkInv, ArticlesKnown, Has
<1>6. NewKnown'
  BY <1>1, <1>2 DEF WorkInv, NewKnown, Stored, Row, Has, Triggering, Trigger, Msg
<1>7. ContentKnown'
  BY <1>1, <1>2 DEF WorkInv, ContentKnown, Stored, Row, Has
<1>8. UnseenKnown'
  BY <1>1, <1>2 DEF WorkInv, UnseenKnown, Stored, Row, Has
<1> QED BY <1>1, <1>3, <1>4, <1>5, <1>6, <1>7, <1>8 DEF WorkInv

\* A handler goes on with its message.
LEMMA Goes ==
    ASSUME WorkTyped, NEW w \in Consumers, NEW at,
           at \in {"idle", "create", "trigger", "content", "score", "ack", "nack"}, GoTo(w, at)
    PROVE  /\ work' \in [Consumers -> Work0] /\ work'[w].at = at /\ work'[w].msg = work[w].msg
           /\ \A v \in Consumers : v # w => work'[v] = work[v]
<1>1. work \in [Consumers -> Work0] /\ work[w] \in Work0
  BY DEF WorkTyped, Work0
<1>2. work'[w] = [work[w] EXCEPT !.at = at] /\ work' = [work EXCEPT ![w] = work'[w]]
  BY <1>1 DEF GoTo
<1>3. work'[w] = [at |-> at, msg |-> work[w].msg]
  BY <1>1, <1>2 DEF Work0
<1>4. work'[w] \in Work0
  BY <1>1, <1>3 DEF Work0
<1> QED BY <1>1, <1>2, <1>3, <1>4

\* Where a handler may be, and with what.
Fits(w, at, m) ==
    /\ w = Storer => m \in Articles /\ at \notin {"content", "score"}
    /\ w # Storer => m \in RowIds /\ at \notin {"create", "trigger"}

\* A handler that has a message fits, before and after a step.
LEMMA Fitting ==
    ASSUME WorkTyped, NEW w \in Consumers, work[w].at # "idle"
    PROVE  Fits(w, work[w].at, work[w].msg) /\ work[w].msg \in unacked
  BY Names DEF WorkTyped, Fits

\* One handler moves, the others do not.
LEMMA HandlerMoves ==
    ASSUME WorkTyped, NEW w \in Consumers, work' \in [Consumers -> Work0],
           \A v \in Consumers : v # w => work'[v] = work[v],
           work'[w].at # "idle" =>
              Fits(w, work'[w].at, work'[w].msg) /\ work'[w].msg \in unacked',
           \A v \in Consumers : v # w /\ work[v].at # "idle" => work[v].msg \in unacked',
           rows' \in [Articles -> Seq(Rows)], up' \in BOOLEAN
    PROVE  WorkTyped'
<1>1. \A v \in Consumers : work'[v].at # "idle" =>
         Fits(v, work'[v].at, work'[v].msg) /\ work'[v].msg \in unacked'
  <2> TAKE v \in Consumers
  <2>1. CASE v = w
    BY <2>1
  <2>2. CASE v # w
    BY <2>2, Fitting
  <2> QED BY <2>1, <2>2
<1>2. /\ Storer \in Consumers /\ \A v \in Enrichers : v \in Consumers /\ v # Storer
      /\ LegacyPipelineAssumption
  BY Names DEF WorkTyped
<1>3. LegacyPipelineAssumption'
  BY <1>2 DEF LegacyPipelineAssumption
<1> QED BY <1>1, <1>2, <1>3 DEF WorkTyped, Work0, Fits

\* A message is handed to an idle consumer: it leaves the queue and is not
\* acknowledged.
LEMMA DeliverWork ==
    ASSUME WorkInv, NEW w \in Consumers, NEW m \in Messages, Deliver(w, m)
    PROVE  WorkInv'
<1> DEFINE at == IF w = Storer THEN "create" ELSE "content"
<1>1. /\ WorkTyped /\ m \in queue /\ work[w].at = "idle" /\ (m \in Articles <=> w = Storer)
      /\ queue' = queue \ {m} /\ unacked' = unacked \union {m}
      /\ work' = [work EXCEPT ![w] = [at |-> at, msg |-> m]]
      /\ UNCHANGED <<dead, up, sent, lost, rows, backfill>>
  BY DEF Deliver, Owed, WorkInv
<1>2. /\ work' \in [Consumers -> Work0] /\ work'[w].at = at /\ work'[w].msg = m
      /\ \A v \in Consumers : v # w => work'[v] = work[v]
  <2>1. work \in [Consumers -> Work0] /\ [at |-> at, msg |-> m] \in Work0
    BY <1>1 DEF WorkTyped, Work0
  <2>2. work' \in [Consumers -> Work0] /\ work'[w] = [at |-> at, msg |-> m]
    BY <1>1, <2>1
  <2>3. \A v \in Consumers : v # w => work'[v] = work[v]
    BY <1>1, <2>1
  <2> QED BY <2>2, <2>3
<1>3. Fits(w, at, m)
  BY <1>1 DEF Fits, Messages
<1>4. WorkTyped'
  <2>1. \A v \in Consumers : v # w /\ work[v].at # "idle" => work[v].msg \in unacked'
    BY <1>1, Fitting
  <2>2. rows' \in [Articles -> Seq(Rows)] /\ up' \in BOOLEAN
    BY <1>1 DEF WorkTyped
  <2> QED BY <1>1, <1>2, <1>3, <2>1, <2>2, HandlerMoves
<1>5. \A v \in Consumers : work[v].at # "idle" => v # w /\ work'[v] = work[v]
  BY <1>1, <1>2
<1>6. /\ Storer \in Consumers /\ Enrichers \subseteq Consumers /\ Storer \notin Enrichers
      /\ \A v \in Consumers : v # Storer => v \in Enrichers
      /\ \A r \in RowIds : r \notin Articles
  BY <1>1, Names DEF WorkTyped
<1>7. RowsKnown'
  <2>1. \A r \in RowIds : r \in queue' \union unacked' \union backfill' => Stored(r)'
    BY <1>1 DEF WorkInv, RowsKnown, Stored
  <2>2. work'[Storer].at \in {"trigger", "ack"} => rows'[work'[Storer].msg] # <<>>
    BY <1>1, <1>2, <1>5, <1>6 DEF WorkInv, RowsKnown
  <2>3. \A v \in Enrichers : work'[v].at \in {"score", "ack"} => Row(work[v].msg)' # "new"
    <3> TAKE v \in Enrichers
    <3> HAVE work'[v].at \in {"score", "ack"}
    <3>1. v \in Consumers /\ v # w
      BY <1>2, <1>6
    <3>2. work'[v] = work[v] /\ Row(work[v].msg) # "new"
      BY <1>2, <3>1 DEF WorkInv, RowsKnown
    <3> QED BY <1>1, <3>2 DEF Row
  <2> QED BY <2>1, <2>2, <2>3 DEF RowsKnown
<1>8. \A v \in Consumers : \A n, places : "idle" \notin places /\ Has(v, n, places) => Has(v, n, places)'
  BY <1>5 DEF Has
<1>9. ArticlesKnown'
  <2> SUFFICES ASSUME NEW a \in sent, rows[a] = <<>>
               PROVE  \/ a \in queue' \union dead \union lost
                      \/ Has(Storer, a, {"create", "nack"})'
                      \/ ~up /\ a \in unacked'
    BY <1>1 DEF ArticlesKnown
  <2>1. CASE a = m
    <3>1. w = Storer
      BY <1>1, <2>1 DEF WorkInv
    <3> QED BY <1>2, <2>1, <3>1 DEF Has
  <2>2. CASE a # m
    BY <1>1, <1>6, <1>8, <2>2 DEF WorkInv, ArticlesKnown
  <2> QED BY <2>1, <2>2
<1>10. \A r \in RowIds : r = m => \E v \in Enrichers : Has(v, r, {"content"})'
  <2>1. m \in RowIds => w # Storer /\ w \in Enrichers
    BY <1>1, <1>6
  <2> QED BY <1>2, <2>1 DEF Has
<1>11. NewKnown'
  <2> SUFFICES ASSUME NEW r \in RowIds, Stored(r), Row(r) = "new"
               PROVE  \/ r \in queue' \union dead \union lost
                      \/ Triggering(r)'
                      \/ \E v \in Enrichers : Has(v, r, {"content", "nack"})'
                      \/ ~up /\ r \in unacked'
    BY <1>1 DEF NewKnown, Stored, Row
  <2>1. CASE r = m
    BY <1>10, <2>1 DEF Has
  <2>2. CASE r # m
    <3>1. Triggering(r) => Triggering(r)'
      BY <1>1, <1>5, <1>6 DEF Triggering, Trigger, Msg
    <3> QED BY <1>1, <1>6, <1>8, <2>2, <3>1 DEF WorkInv, NewKnown
  <2> QED BY <2>1, <2>2
<1>12. ContentKnown'
  <2> SUFFICES ASSUME NEW r \in RowIds, Stored(r), Row(r) = "content"
               PROVE  \/ r \in queue' \union dead
                      \/ \E v \in Enrichers : Has(v, r, {"content", "score", "nack"})'
                      \/ ~up /\ r \in unacked'
    BY <1>1 DEF ContentKnown, Stored, Row
  <2>1. CASE r = m
    BY <1>10, <2>1 DEF Has
  <2>2. CASE r # m
    BY <1>1, <1>6, <1>8, <2>2 DEF WorkInv, ContentKnown
  <2> QED BY <2>1, <2>2
<1>13. UnseenKnown'
  <2>1. \A r \in RowIds : Stored(r)' = Stored(r) /\ Row(r)' = Row(r)
    BY <1>1 DEF Stored, Row
  <2> QED BY <1>1, <1>6, <1>8, <2>1, UnseenStill DEF WorkInv
<1> QED BY <1>1, <1>4, <1>7, <1>9, <1>11, <1>12, <1>13 DEF WorkInv

\* The connection breaks: everything stays where it is.
LEMMA DisconnectWork == ASSUME WorkInv, Disconnect PROVE WorkInv'
<1>1. up /\ up' = FALSE /\ UNCHANGED <<queue, unacked, dead, sent, lost, work, rows, backfill>>
  BY DEF Disconnect
<1>2. WorkTyped'
  BY <1>1 DEF WorkInv, WorkTyped, LegacyPipelineAssumption
<1>3. RowsKnown' /\ ArticlesKnown'
  BY <1>1 DEF WorkInv, RowsKnown, ArticlesKnown, Stored, Row, Has
<1>4. NewKnown' /\ ContentKnown'
  BY <1>1 DEF WorkInv, NewKnown, ContentKnown, Stored, Row, Has, Triggering, Trigger, Msg
<1>5. UnseenKnown'
  BY <1>1 DEF WorkInv, UnseenKnown, Stored, Row, Has
<1> QED BY <1>1, <1>2, <1>3, <1>4, <1>5 DEF WorkInv

\* The broker redelivers what was not acknowledged, which is all the handlers
\* had; the trigger in hand is lost, and so are the rows no worker knows of.
LEMMA RestartWork == ASSUME WorkInv, Restart PROVE WorkInv'
<1>1. /\ up' = TRUE /\ queue' = queue \union unacked /\ unacked' = {} /\ lost \subseteq lost'
      /\ \A r \in RowIds : Triggering(r) => r \in lost'
      /\ \A r \in RowIds : Stored(r) /\ Row(r) = "unseen" /\ r[1] \in unacked => r \in lost'
      /\ work' = [w \in Consumers |-> NoWork] /\ backfill' = {} /\ UNCHANGED <<dead, sent, rows>>
      /\ WorkTyped
  BY DEF Restart, WorkInv
<1>2. \A w \in Consumers : work'[w].at = "idle" /\ work'[w] \in Work0
  BY <1>1 DEF NoWork, Work0
<1>3. /\ Storer \in Consumers /\ Enrichers \subseteq Consumers
      /\ LegacyPipelineAssumption
  BY <1>1, Names DEF WorkTyped
<1>4. WorkTyped'
  <2>1. work' \in [Consumers -> Work0]
    BY <1>1, <1>2
  <2>2. rows' \in [Articles -> Seq(Rows)] /\ up' \in BOOLEAN
    BY <1>1 DEF WorkTyped
  <2>3. LegacyPipelineAssumption'
    BY <1>3 DEF LegacyPipelineAssumption
  <2> QED BY <1>2, <1>3, <2>1, <2>2, <2>3 DEF WorkTyped, Work0
<1>5. RowsKnown'
  BY <1>1, <1>2, <1>3 DEF WorkInv, RowsKnown, Stored
<1>6. \A w \in Consumers : \A n, places :
         "idle" \notin places /\ Has(w, n, places) => n \in queue'
  BY <1>1, Fitting DEF Has
<1>7. ArticlesKnown'
  BY <1>1, <1>3, <1>6 DEF WorkInv, ArticlesKnown
<1>8. NewKnown'
  <2>1. \A r \in RowIds : Stored(r)' = Stored(r) /\ Row(r)' = Row(r)
    BY <1>1 DEF Stored, Row
  <2> QED BY <1>1, <1>3, <1>6, <2>1 DEF WorkInv, NewKnown
<1>9. ContentKnown'
  <2>1. \A r \in RowIds : Stored(r)' = Stored(r) /\ Row(r)' = Row(r)
    BY <1>1 DEF Stored, Row
  <2> QED BY <1>1, <1>3, <1>6, <2>1 DEF WorkInv, ContentKnown
<1>10. UnseenKnown'
  <2> SUFFICES ASSUME NEW r \in RowIds, Stored(r), Row(r) = "unseen"
               PROVE  r \in lost' \/ r[1] \in dead
    BY <1>1 DEF UnseenKnown, Stored, Row
  <2>1. Has(Storer, r[1], {"nack"}) => r[1] \in unacked
    BY <1>1, <1>3, Fitting DEF Has
  <2> QED BY <1>1, <2>1 DEF WorkInv, UnseenKnown
<1> QED BY <1>1, <1>4, <1>5, <1>7, <1>8, <1>9, <1>10 DEF WorkInv

\* A message is acknowledged once its row is written, or dead-lettered; when
\* the connection is lost it stays where it is.
LEMMA SettleWork ==
    ASSUME WorkInv, NEW w \in Consumers, Settle(w)
    PROVE  WorkInv'
<1> DEFINE m == work[w].msg
<1>1. /\ WorkTyped /\ work[w].at \in {"ack", "nack"} /\ work' = [work EXCEPT ![w] = NoWork]
      /\ UNCHANGED <<up, sent, lost, rows, backfill>>
  BY DEF Settle, WorkInv
<1>2. queue' = queue /\ dead \subseteq dead' /\ (up /\ work[w].at = "nack" => m \in dead')
  BY DEF Settle, Nack, Msg
<1>3. /\ unacked' \subseteq unacked /\ (~up => unacked' = unacked)
      /\ \A v \in Consumers : v # w /\ work[v].msg \in unacked => work[v].msg \in unacked'
  BY DEF Settle, Msg
<1>4. /\ work' \in [Consumers -> Work0] /\ work'[w] = NoWork
      /\ \A v \in Consumers : v # w => work'[v] = work[v]
  <2>1. work \in [Consumers -> Work0] /\ NoWork \in Work0
    BY <1>1 DEF WorkTyped, Work0, NoWork
  <2> QED BY <1>1, <2>1
<1>5. WorkTyped'
  <2>1. work'[w].at = "idle"
    BY <1>4 DEF NoWork
  <2>2. \A v \in Consumers : v # w /\ work[v].at # "idle" => work[v].msg \in unacked'
    BY <1>1, <1>3, Fitting
  <2>3. rows' \in [Articles -> Seq(Rows)] /\ up' \in BOOLEAN
    BY <1>1 DEF WorkTyped
  <2> QED BY <1>1, <1>4, <2>1, <2>2, <2>3, HandlerMoves
<1>6. /\ Storer \in Consumers /\ Enrichers \subseteq Consumers
      /\ \A v \in Consumers : v # Storer => v \in Enrichers
  BY <1>1, Names DEF WorkTyped
<1>7. RowsKnown'
  <2>1. \A r \in RowIds : r \in queue' \union unacked' \union backfill' => Stored(r)'
    BY <1>1, <1>2, <1>3 DEF WorkInv, RowsKnown, Stored
  <2>2. work'[Storer].at \in {"trigger", "ack"} => rows'[work'[Storer].msg] # <<>>
    BY <1>1, <1>4, <1>6 DEF WorkInv, RowsKnown, NoWork
  <2>3. \A v \in Enrichers : work'[v].at \in {"score", "ack"} =>
           work'[v] = work[v] /\ Row(work[v].msg)' # "new"
    BY <1>1, <1>4, <1>6 DEF WorkInv, RowsKnown, Row, NoWork
  <2> QED BY <2>1, <2>2, <2>3 DEF RowsKnown, Row
<1>8. \A v \in Consumers : \A n, places :
         "ack" \notin places /\ Has(v, n, places) =>
            \/ Has(v, n, places)'
            \/ n = m /\ n \in dead'
            \/ n = m /\ ~up /\ n \in unacked'
  <2> TAKE v \in Consumers
  <2>1. CASE v # w
    BY <1>4, <2>1 DEF Has
  <2>2. CASE v = w
    <3>1. m \in unacked
      BY <1>1, Fitting
    <3> QED BY <1>1, <1>2, <1>3, <2>2, <3>1 DEF Has
  <2> QED BY <2>1, <2>2
<1> HIDE DEF m
<1>9. ArticlesKnown'
  BY <1>1, <1>2, <1>3, <1>6, <1>8 DEF WorkInv, ArticlesKnown
<1>10. \A r \in RowIds : Triggering(r) => Triggering(r)'
  BY <1>1, <1>4, <1>6 DEF Triggering, Trigger, Msg
<1>11. NewKnown'
  <2>1. \A r \in RowIds : Stored(r)' = Stored(r) /\ Row(r)' = Row(r)
    BY <1>1 DEF Stored, Row
  <2> QED BY <1>1, <1>2, <1>3, <1>6, <1>8, <1>10, <2>1 DEF WorkInv, NewKnown
<1>12. ContentKnown'
  <2>1. \A r \in RowIds : Stored(r)' = Stored(r) /\ Row(r)' = Row(r)
    BY <1>1 DEF Stored, Row
  <2> QED BY <1>1, <1>2, <1>3, <1>6, <1>8, <2>1 DEF WorkInv, ContentKnown
<1>13. UnseenKnown'
  <2>1. \A r \in RowIds : Stored(r)' = Stored(r) /\ Row(r)' = Row(r)
    BY <1>1 DEF Stored, Row
  <2>2. \A a : Has(Storer, a, {"nack"}) =>
           Has(Storer, a, {"nack"})' \/ a \in dead' \/ (~up' /\ a \in unacked')
    BY <1>1, <1>6, <1>8
  <2> QED BY <1>1, <1>2, <1>3, <2>1, <2>2, UnseenStill DEF WorkInv
<1> QED BY <1>1, <1>5, <1>7, <1>9, <1>11, <1>12, <1>13 DEF WorkInv

\* What GoTo of a consumer with a message does to the other facts.
LEMMA Onward ==
    ASSUME WorkTyped, NEW w \in Consumers, NEW at,
           at \in {"create", "trigger", "content", "score", "ack", "nack"}, GoTo(w, at),
           work[w].at # "idle", Fits(w, at, work[w].msg), UNCHANGED <<unacked, up>>,
           rows' \in [Articles -> Seq(Rows)]
    PROVE  /\ WorkTyped'
           /\ work'[w].at = at /\ work'[w].msg = work[w].msg
           /\ \A v \in Consumers : v # w => work'[v] = work[v]
<1>1. /\ work' \in [Consumers -> Work0] /\ work'[w].at = at /\ work'[w].msg = work[w].msg
      /\ \A v \in Consumers : v # w => work'[v] = work[v]
  BY Goes
<1>2. \A v \in Consumers : work[v].at # "idle" => work[v].msg \in unacked'
  BY Fitting
<1>3. up' \in BOOLEAN
  BY DEF WorkTyped
<1> QED BY <1>1, <1>2, <1>3, HandlerMoves

\* The trigger is published after the row, or lost; the article is
\* acknowledged either way.
LEMMA TriggerWork == ASSUME WorkInv, PublishTrigger PROVE WorkInv'
<1>1. /\ WorkTyped /\ work[Storer].at = "trigger" /\ GoTo(Storer, "ack")
      /\ UNCHANGED <<unacked, dead, rows, backfill>>
  BY Published DEF PublishTrigger, WorkInv
<1>2. /\ Storer \in Consumers /\ Enrichers \subseteq Consumers /\ Storer \notin Enrichers
      /\ \A r \in RowIds : r \notin Articles /\ r[1] \in Articles
  BY <1>1, Names DEF WorkTyped
<1>3. /\ queue \subseteq queue' /\ queue' \subseteq queue \union {Trigger} /\ lost \subseteq lost'
      /\ Trigger \in queue' \union lost' /\ sent' \subseteq sent \union ({Trigger} \intersect Articles)
      /\ (~up => ~up') /\ up' \in BOOLEAN
  <2>1. CASE Publish(Trigger)
    <3> DEFINE m == Trigger
    <3>1. /\ up /\ sent' = sent \union ({m} \intersect Articles)
          /\ \/ queue' = queue \union {m} /\ UNCHANGED <<up, lost>>
             \/ up' = FALSE /\ lost' = lost \union {m} /\ UNCHANGED queue
      BY <2>1, Published
    <3> HIDE DEF m
    <3>2. /\ queue \subseteq queue' /\ queue' \subseteq queue \union {m} /\ lost \subseteq lost'
          /\ m \in queue' \union lost' /\ sent' \subseteq sent \union ({m} \intersect Articles)
      BY <3>1
    <3>3. (~up => ~up') /\ up' \in BOOLEAN
      BY <3>1, <1>1 DEF WorkTyped
    <3> QED BY <3>2, <3>3 DEF m
  <2>2. CASE ~up /\ lost' = lost \union {Trigger} /\ UNCHANGED <<queue, unacked, dead, up, faults, sent>>
    BY <1>1, <2>2 DEF WorkTyped
  <2> QED BY <2>1, <2>2 DEF PublishTrigger
<1>4. /\ work' \in [Consumers -> Work0] /\ work'[Storer].at = "ack"
      /\ work'[Storer].msg = work[Storer].msg
      /\ \A v \in Consumers : v # Storer => work'[v] = work[v]
  BY <1>1, <1>2, Goes
<1>5. WorkTyped'
  <2>1. \A v \in Consumers : work[v].at # "idle" => work[v].msg \in unacked'
    BY <1>1, Fitting
  <2>2. Fits(Storer, "ack", work[Storer].msg)
    BY <1>1, <1>2, Fitting DEF Fits
  <2>3. rows' \in [Articles -> Seq(Rows)]
    BY <1>1 DEF WorkTyped
  <2> QED BY <1>1, <1>2, <1>3, <1>4, <2>1, <2>2, <2>3, HandlerMoves
<1>6. RowsKnown'
  <2>1. Trigger \in RowIds => Stored(Trigger)
    <3>1. rows[work[Storer].msg] \in Seq(Rows)
      BY <1>1, <1>2, Fitting DEF WorkTyped
    <3>2. Len(rows[work[Storer].msg]) \in Nat
      BY <3>1, LenProperties
    <3> QED BY <3>2 DEF Trigger, Stored, Msg
  <2>2. \A r \in RowIds : r \in queue' \union unacked' \union backfill' => Stored(r)'
    BY <1>1, <1>3, <2>1 DEF WorkInv, RowsKnown, Stored
  <2>3. rows'[work'[Storer].msg] # <<>>
    BY <1>1, <1>4 DEF WorkInv, RowsKnown
  <2>4. \A v \in Enrichers : work'[v] = work[v] /\
           (work[v].at \in {"score", "ack"} => Row(work[v].msg)' # "new")
    BY <1>1, <1>2, <1>4 DEF WorkInv, RowsKnown, Row
  <2> QED BY <2>2, <2>3, <2>4 DEF RowsKnown, Row
<1>7. ArticlesKnown'
  <2>1. \A a, places : places \subseteq {"create", "nack"} => ~Has(Storer, a, places)
    BY <1>1 DEF Has
  <2> QED BY <1>1, <1>3, <2>1 DEF WorkInv, ArticlesKnown
<1>8. \A v \in Enrichers : \A n, places : Has(v, n, places) => Has(v, n, places)'
  BY <1>2, <1>4 DEF Has
<1>9. \A r \in RowIds : Stored(r)' = Stored(r) /\ Row(r)' = Row(r)
  BY <1>1 DEF Stored, Row
<1>10. NewKnown'
  <2>1. \A r \in RowIds : Triggering(r) => r \in queue' \union lost'
    BY <1>3 DEF Triggering
  <2> QED BY <1>1, <1>3, <1>8, <1>9, <2>1 DEF WorkInv, NewKnown
<1>11. ContentKnown'
  BY <1>1, <1>3, <1>8, <1>9 DEF WorkInv, ContentKnown
<1>12. sent' \subseteq Articles
  BY <1>3 DEF WorkInv
<1>13. UnseenKnown'
  <2>1. \A a : ~Has(Storer, a, {"nack"})
    BY <1>1 DEF Has
  <2> QED BY <1>1, <1>3, <1>9, <2>1, UnseenStill DEF WorkInv
<1> QED BY <1>5, <1>6, <1>7, <1>10, <1>11, <1>12, <1>13 DEF WorkInv

\* The article's row is inserted and its trigger is in hand, or there was one
\* already, or the message is to be dead-lettered, its row inserted or not.
LEMMA CreateWork == ASSUME WorkInv, Create PROVE WorkInv'
<1> DEFINE a == work[Storer].msg
<1>1. /\ WorkTyped /\ work[Storer].at = "create"
      /\ UNCHANGED <<queue, unacked, dead, up, sent, lost, backfill>>
  BY DEF Create, broker, WorkInv
<1>2. /\ Storer \in Consumers /\ Enrichers \subseteq Consumers /\ Storer \notin Enrichers
      /\ \A r \in RowIds : r \notin Articles /\ r[1] \in Articles /\ r[2] \in Nat \ {0}
                           /\ r = <<r[1], r[2]>>
  BY <1>1, Names DEF WorkTyped
<1>3. a \in Articles /\ rows[a] \in Seq(Rows)
  BY <1>1, <1>2, Fitting DEF Fits, WorkTyped
<1>4. /\ Fits(Storer, "trigger", a) /\ Fits(Storer, "ack", a) /\ Fits(Storer, "nack", a)
      /\ rows \in [Articles -> Seq(Rows)]
  BY <1>1, <1>3 DEF Fits, WorkTyped
<1>5. \A r \in RowIds : r \in queue' \union unacked' \union backfill' => Stored(r)
  BY <1>1 DEF WorkInv, RowsKnown
<1>6. \A r \in RowIds : ~Triggering(r)
  BY <1>1 DEF Triggering
<1>7. ASSUME NEW value, NEW at,
             (value = "new" /\ at = "trigger") \/ (value = "unseen" /\ at = "nack"),
             rows' = [rows EXCEPT ![a] = Append(rows[a], value)], GoTo(Storer, at)
      PROVE  WorkInv'
  <2>1. /\ Append(rows[a], value) \in Seq(Rows) /\ Len(rows[a]) \in Nat
        /\ Len(Append(rows[a], value)) = Len(rows[a]) + 1 /\ Append(rows[a], value) # <<>>
        /\ \A k \in 1..Len(rows[a]) : Append(rows[a], value)[k] = rows[a][k]
        /\ Append(rows[a], value)[Len(rows[a]) + 1] = value
    <3>1. value \in Rows
      BY <1>7 DEF Rows
    <3> QED BY <1>3, <3>1, AppendProperties, LenProperties
  <2>2. /\ rows' \in [Articles -> Seq(Rows)] /\ rows'[a] = Append(rows[a], value)
        /\ \A b \in Articles : b # a => rows'[b] = rows[b]
    BY <1>3, <1>4, <1>7, <2>1
  <2>3. /\ WorkTyped' /\ work'[Storer].at = at /\ work'[Storer].msg = a
        /\ \A v \in Consumers : v # Storer => work'[v] = work[v]
    BY <1>1, <1>2, <1>4, <1>7, <2>2, Onward
  <2>4. \A r \in RowIds : Stored(r) => Stored(r)' /\ Row(r)' = Row(r)
    <3> TAKE r \in RowIds
    <3>1. CASE r[1] = a
      <4>1. Stored(r) => r[2] \in 1..Len(rows[a])
        BY <1>2, <2>1, <3>1 DEF Stored
      <4> QED BY <1>2, <2>1, <2>2, <3>1, <4>1 DEF Stored, Row
    <3>2. CASE r[1] # a
      BY <1>2, <2>2, <3>2 DEF Stored, Row
    <3> QED BY <3>1, <3>2
  <2>5. \A r \in RowIds : Stored(r)' /\ ~Stored(r) => r = <<a, Len(rows[a]) + 1>>
    <3> TAKE r \in RowIds
    <3>1. CASE r[1] = a
      BY <1>2, <2>1, <2>2, <3>1 DEF Stored
    <3>2. CASE r[1] # a
      BY <1>2, <2>2, <3>2 DEF Stored
    <3> QED BY <3>1, <3>2
  <2>6. Trigger' = <<a, Len(rows[a]) + 1>>
    BY <2>1, <2>2, <2>3 DEF Trigger, Msg
  <2>7. \A r \in RowIds : Stored(r)' /\ ~Stored(r) =>
           r[1] = a /\ Row(r)' = value /\ (at = "trigger" => Triggering(r)')
    <3> TAKE r \in RowIds
    <3> HAVE Stored(r)' /\ ~Stored(r)
    <3>1. r = <<a, Len(rows[a]) + 1>>
      BY <2>5
    <3>2. r[1] = a /\ r[2] = Len(rows[a]) + 1
      BY <3>1
    <3> QED BY <2>1, <2>2, <2>3, <2>6, <3>1, <3>2 DEF Triggering, Row
  <2>8. \A v \in Enrichers : work'[v] = work[v]
    BY <1>2, <2>3
  <2>9. RowsKnown'
    <3>1. \A r \in RowIds : r \in queue' \union unacked' \union backfill' => Stored(r)'
      BY <1>5, <2>4
    <3>2. rows'[work'[Storer].msg] # <<>>
      BY <2>1, <2>2, <2>3
    <3>3. \A v \in Enrichers : work[v].at \in {"score", "ack"} => Row(work[v].msg)' # "new"
      <4> TAKE v \in Enrichers
      <4> HAVE work[v].at \in {"score", "ack"}
      <4>1. work[v].msg \in RowIds /\ work[v].msg \in unacked
        BY <1>1, <1>2, Fitting DEF Fits
      <4>2. Stored(work[v].msg) /\ Row(work[v].msg) # "new"
        BY <4>1 DEF WorkInv, RowsKnown
      <4>3. Row(work[v].msg)' = rows'[work[v].msg[1]][work[v].msg[2]]
        BY <2>8 DEF Row
      <4>4. rows'[work[v].msg[1]][work[v].msg[2]] = Row(work[v].msg)
        BY <2>4, <4>1, <4>2 DEF Row
      <4> QED BY <4>2, <4>3, <4>4
    <3> QED BY <2>8, <3>1, <3>2, <3>3 DEF RowsKnown, Row
  <2>10. \A b \in sent : rows'[b] = <<>> => rows[b] = <<>> /\ b # a
    BY <2>1, <2>2 DEF WorkInv
  <2>11. ArticlesKnown'
    <3>1. \A b, places : b # a => ~Has(Storer, b, places)
      BY DEF Has
    <3> QED BY <1>1, <2>10, <3>1 DEF WorkInv, ArticlesKnown
  <2>12. \A v \in Enrichers : \A n, places : Has(v, n, places) => Has(v, n, places)'
    BY <2>8 DEF Has
  <2>13. NewKnown'
    BY <1>1, <1>6, <1>7, <2>4, <2>7, <2>12 DEF WorkInv, NewKnown
  <2>14. ContentKnown'
    BY <1>1, <1>7, <2>4, <2>7, <2>12 DEF WorkInv, ContentKnown
  <2>15. UnseenKnown'
    <3> SUFFICES ASSUME NEW r \in RowIds, Stored(r)', Row(r)' = "unseen"
                 PROVE  \/ r \in lost
                        \/ r[1] \in dead
                        \/ Has(Storer, r[1], {"nack"})'
                        \/ ~up /\ r[1] \in unacked
      BY <1>1 DEF UnseenKnown
    <3>1. CASE Stored(r)
      <4>1. ~Has(Storer, r[1], {"nack"})
        BY <1>1 DEF Has
      <4> QED BY <2>4, <3>1, <4>1 DEF WorkInv, UnseenKnown
    <3>2. CASE ~Stored(r)
      BY <1>7, <2>3, <2>7, <3>2 DEF Has
    <3> QED BY <3>1, <3>2
  <2> QED BY <1>1, <2>3, <2>9, <2>11, <2>13, <2>14, <2>15 DEF WorkInv
<1>8. ASSUME NEW at \in {"ack", "nack"}, GoTo(Storer, at), UNCHANGED rows,
             at = "ack" => rows[a] # <<>>
      PROVE  WorkInv'
  <2>1. rows' \in [Articles -> Seq(Rows)]
    BY <1>4, <1>8
  <2>2. Fits(Storer, at, a)
    BY <1>4
  <2>3. /\ WorkTyped' /\ work'[Storer].at = at /\ work'[Storer].msg = a
        /\ \A v \in Consumers : v # Storer => work'[v] = work[v]
    BY <1>1, <1>2, <1>8, <2>1, <2>2, Onward
  <2>4. \A r \in RowIds : Stored(r)' = Stored(r) /\ Row(r)' = Row(r)
    BY <1>8 DEF Stored, Row
  <2>5. \A v \in Enrichers : work'[v] = work[v]
    BY <1>2, <2>3
  <2>6. RowsKnown'
    <3>1. \A v \in Enrichers : work[v].at \in {"score", "ack"} => Row(work[v].msg)' # "new"
      BY <1>8, <2>5 DEF WorkInv, RowsKnown, Row
    <3>2. work'[Storer].at \in {"trigger", "ack"} => rows'[work'[Storer].msg] # <<>>
      BY <1>8, <2>3
    <3> QED BY <1>5, <2>4, <2>5, <3>1, <3>2 DEF RowsKnown, Row
  <2>7. ArticlesKnown'
    <3>1. \A b : rows[b] = <<>> /\ Has(Storer, b, {"create", "nack"}) =>
                    Has(Storer, b, {"create", "nack"})'
      BY <1>8, <2>3 DEF Has
    <3> QED BY <1>1, <1>8, <3>1 DEF WorkInv, ArticlesKnown
  <2>8. \A v \in Enrichers : \A n, places : Has(v, n, places) => Has(v, n, places)'
    BY <2>5 DEF Has
  <2>9. NewKnown' /\ ContentKnown'
    BY <1>1, <1>6, <2>4, <2>8 DEF WorkInv, NewKnown, ContentKnown
  <2>10. UnseenKnown'
    <3>1. \A b : ~Has(Storer, b, {"nack"})
      BY <1>1 DEF Has
    <3> QED BY <1>1, <2>4, <3>1, UnseenStill DEF WorkInv
  <2> QED BY <1>1, <2>3, <2>6, <2>7, <2>9, <2>10 DEF WorkInv
<1>9. \/ rows' = [rows EXCEPT ![a] = Append(rows[a], "new")] /\ GoTo(Storer, "trigger")
      \/ rows' = [rows EXCEPT ![a] = Append(rows[a], "unseen")] /\ GoTo(Storer, "nack")
      \/ rows[a] # <<>> /\ GoTo(Storer, "ack") /\ UNCHANGED rows
      \/ GoTo(Storer, "nack") /\ UNCHANGED rows
  BY <1>3, <1>4 DEF Create, Msg, CanInsert
<1> QED BY <1>7, <1>8, <1>9

\* A stored row is written: no other row changes, and none comes or goes.
LEMMA Writes ==
    ASSUME WorkTyped, NEW r \in RowIds, Stored(r), NEW value \in Rows, Write(r, value)
    PROVE  /\ rows' \in [Articles -> Seq(Rows)] /\ Row(r)' = value
           /\ \A b \in Articles : Len(rows'[b]) = Len(rows[b]) /\ (rows[b] = <<>> <=> rows'[b] = <<>>)
           /\ \A s \in RowIds : Stored(s)' = Stored(s) /\ (s # r /\ Stored(s) => Row(s)' = Row(s))
<1>1. /\ \A s \in RowIds : s = <<s[1], s[2]>> /\ s[1] \in Articles /\ s[2] \in Nat \ {0}
      /\ rows \in [Articles -> Seq(Rows)]
  BY Names DEF WorkTyped
<1> DEFINE a == r[1]
           k == r[2]
           new == [rows[a] EXCEPT ![k] = value]
<1>2. a \in Articles /\ rows[a] \in Seq(Rows) /\ Len(rows[a]) \in Nat
  BY <1>1, LenProperties
<1>3. k \in 1..Len(rows[a])
  BY <1>1, <1>2 DEF Stored
<1>4. /\ new \in Seq(Rows) /\ Len(new) = Len(rows[a])
      /\ \A j \in 1..Len(rows[a]) : new[j] = IF j = k THEN value ELSE rows[a][j]
  BY <1>2, <1>3, ExceptSeq
<1>5. rows' = [rows EXCEPT ![a] = new]
  BY DEF Write
<1> HIDE DEF new
<1>6. /\ rows' \in [Articles -> Seq(Rows)] /\ rows'[a] = new
      /\ \A b \in Articles : b # a => rows'[b] = rows[b]
  BY <1>1, <1>2, <1>4, <1>5
<1>7. rows[a] # <<>> /\ new # <<>>
  <2>1. Len(<<>>) = 0
    BY EmptySeq
  <2> QED BY <1>2, <1>3, <1>4, <2>1
<1>8. \A b \in Articles : Len(rows'[b]) = Len(rows[b]) /\ (rows[b] = <<>> <=> rows'[b] = <<>>)
  BY <1>4, <1>6, <1>7
<1>9. Row(r)' = value
  BY <1>3, <1>4, <1>6 DEF Row
<1>10. \A s \in RowIds : Stored(s)' = Stored(s)
  BY <1>1, <1>8 DEF Stored
<1>11. ASSUME NEW s \in RowIds, s # r, Stored(s) PROVE Row(s)' = Row(s)
  <2>1. CASE s[1] = a
    <3>1. s[2] # k
      BY <1>1, <1>11, <2>1
    <3>2. s[2] \in 1..Len(rows[a])
      BY <1>1, <1>2, <1>11, <2>1 DEF Stored
    <3> QED BY <1>4, <1>6, <2>1, <3>1, <3>2 DEF Row
  <2>2. CASE s[1] # a
    BY <1>1, <1>6, <2>2 DEF Row
  <2> QED BY <2>1, <2>2
<1> QED BY <1>6, <1>8, <1>9, <1>10, <1>11

\* An enrichment worker goes on with its row, which it may have written: never
\* back to a bare one, and to "content" only with the Score ahead or to be
\* dead-lettered.
LEMMA EnricherWork ==
    ASSUME WorkInv, NEW w \in Enrichers, NEW at \in {"score", "ack", "nack"}, GoTo(w, at),
           work[w].at \in {"content", "score"}, UNCHANGED <<broker, backfill>>,
           \/ UNCHANGED rows /\ at = "nack"
           \/ \E value \in Rows \ Bare :
                 Write(work[w].msg, value) /\ (value = "content" => at # "ack")
    PROVE  WorkInv'
<1>1. WorkTyped /\ UNCHANGED <<queue, unacked, dead, up, sent, lost, backfill>>
  BY DEF broker, WorkInv
<1>2. /\ Storer \in Consumers /\ Enrichers \subseteq Consumers /\ w \in Consumers /\ w # Storer
      /\ \A r \in RowIds : r[1] \in Articles
  BY <1>1, Names DEF WorkTyped
<1>3. PICK m \in RowIds : work[w].msg = m /\ m \in unacked /\ Stored(m)
  <2>1. work[w].msg \in RowIds /\ work[w].msg \in unacked
    BY <1>1, <1>2, Fitting DEF Fits
  <2> QED BY <2>1 DEF WorkInv, RowsKnown
<1>4. /\ rows' \in [Articles -> Seq(Rows)]
      /\ \A b \in Articles : Len(rows'[b]) = Len(rows[b]) /\ (rows[b] = <<>> <=> rows'[b] = <<>>)
      /\ \A s \in RowIds : Stored(s)' = Stored(s) /\ (s # m /\ Stored(s) => Row(s)' = Row(s))
      /\ \/ rows' = rows /\ at = "nack"
         \/ Row(m)' \notin Bare /\ (Row(m)' = "content" => at # "ack")
  <2>1. CASE UNCHANGED rows /\ at = "nack"
    <3>1. rows' \in [Articles -> Seq(Rows)]
      BY <1>1, <2>1 DEF WorkTyped
    <3>2. \A s \in RowIds : Stored(s)' = Stored(s) /\ Row(s)' = Row(s)
      BY <2>1 DEF Stored, Row
    <3> QED BY <2>1, <3>1, <3>2
  <2>2. CASE \E value \in Rows \ Bare : Write(m, value) /\ (value = "content" => at # "ack")
    <3>1. PICK value \in Rows \ Bare : Write(m, value) /\ (value = "content" => at # "ack")
      BY <2>2
    <3>2. /\ rows' \in [Articles -> Seq(Rows)] /\ Row(m)' = value
          /\ \A b \in Articles : Len(rows'[b]) = Len(rows[b]) /\ (rows[b] = <<>> <=> rows'[b] = <<>>)
          /\ \A s \in RowIds : Stored(s)' = Stored(s) /\ (s # m /\ Stored(s) => Row(s)' = Row(s))
      BY <1>1, <1>3, <3>1, Writes
    <3> QED BY <3>1, <3>2
  <2> QED BY <1>3, <2>1, <2>2
<1>5. /\ WorkTyped' /\ work'[w].at = at /\ work'[w].msg = m
      /\ \A v \in Consumers : v # w => work'[v] = work[v]
  <2>1. Fits(w, at, work[w].msg)
    BY <1>2, <1>3 DEF Fits
  <2> QED BY <1>1, <1>2, <1>3, <1>4, <2>1, Onward
<1>6. RowsKnown'
  <2>1. \A r \in RowIds : r \in queue' \union unacked' \union backfill' => Stored(r)'
    BY <1>1, <1>4 DEF WorkInv, RowsKnown
  <2>2. work'[Storer].at \in {"trigger", "ack"} => rows'[work'[Storer].msg] # <<>>
    <3>1. work'[Storer] = work[Storer]
      BY <1>2, <1>5
    <3>2. work[Storer].at # "idle" => work[Storer].msg \in Articles
      BY <1>1 DEF WorkTyped
    <3> QED BY <1>4, <3>1, <3>2 DEF WorkInv, RowsKnown
  <2>3. ASSUME NEW v \in Enrichers, work'[v].at \in {"score", "ack"}
        PROVE  Row(work[v].msg)' # "new"
    <3>1. PICK n \in RowIds : work'[v].msg = n /\ Stored(n) /\ (n # m => Row(n) # "new")
      <4>1. CASE v = w
        BY <1>3, <1>5, <4>1
      <4>2. CASE v # w
        <5>1. work'[v] = work[v] /\ v \in Consumers /\ v # Storer
          BY <1>1, <1>2, <1>5, <4>2, Names DEF WorkTyped
        <5>2. work[v].msg \in RowIds /\ work[v].msg \in unacked
          BY <1>1, <2>3, <5>1, Fitting DEF Fits
        <5> QED BY <2>3, <5>1, <5>2 DEF WorkInv, RowsKnown
      <4> QED BY <4>1, <4>2
    <3>2. Row(n)' # "new"
      <4>1. CASE rows' = rows /\ at = "nack"
        <5>1. v # w
          BY <1>5, <2>3, <4>1
        <5>2. work[v] = work'[v]
          BY <1>2, <1>5, <5>1
        <5>3. Row(n) # "new"
          BY <2>3, <3>1, <5>2 DEF WorkInv, RowsKnown
        <5> QED BY <4>1, <5>3 DEF Row
      <4>2. CASE Row(m)' \notin Bare
        BY <1>4, <3>1, <4>2 DEF Bare
      <4> QED BY <1>4, <4>1, <4>2
    <3> QED BY <3>1, <3>2 DEF Row
  <2>4. \A v \in Enrichers : work'[v].at \in {"score", "ack"} => Row(work[v].msg)' # "new"
    BY <2>3
  <2> QED BY <2>1, <2>2, <2>4 DEF RowsKnown
<1>7. ArticlesKnown'
  <2>1. \A b, places : Has(Storer, b, places) => Has(Storer, b, places)'
    BY <1>2, <1>5 DEF Has
  <2>2. \A b \in sent : b \in Articles
    BY DEF WorkInv
  <2> QED BY <1>1, <1>4, <2>1, <2>2 DEF WorkInv, ArticlesKnown
<1>8. \A v \in Enrichers : \A n, places : v # w /\ Has(v, n, places) => Has(v, n, places)'
  BY <1>2, <1>5 DEF Has
<1>9. \A n, places : n # m => ~Has(w, n, places)
  BY <1>3 DEF Has
<1>10. \A r \in RowIds : Triggering(r) => Triggering(r)'
  <2>1. work'[Storer] = work[Storer]
    BY <1>2, <1>5
  <2>2. work[Storer].at = "trigger" => Trigger' = Trigger
    <3>1. work[Storer].at # "idle" => work[Storer].msg \in Articles
      BY <1>1 DEF WorkTyped
    <3> QED BY <1>4, <2>1, <3>1 DEF Trigger, Msg
  <2> QED BY <2>1, <2>2 DEF Triggering
<1>11. NewKnown'
  <2> SUFFICES ASSUME NEW r \in RowIds, Stored(r)', Row(r)' = "new"
               PROVE  \/ r \in queue \union dead \union lost
                      \/ Triggering(r)'
                      \/ \E v \in Enrichers : Has(v, r, {"content", "nack"})'
                      \/ ~up /\ r \in unacked
    BY <1>1 DEF NewKnown
  <2>1. CASE r = m
    <3>1. at = "nack"
      BY <1>4, <2>1 DEF Bare
    <3>2. Has(w, m, {"content", "nack"})'
      BY <1>5, <3>1 DEF Has
    <3> QED BY <2>1, <3>2
  <2>2. CASE r # m
    <3>1. Stored(r) /\ Row(r) = "new"
      BY <1>4, <2>2
    <3> QED BY <1>8, <1>9, <1>10, <2>2, <3>1 DEF WorkInv, NewKnown
  <2> QED BY <2>1, <2>2
<1>12. ContentKnown'
  <2> SUFFICES ASSUME NEW r \in RowIds, Stored(r)', Row(r)' = "content"
               PROVE  \/ r \in queue \union dead
                      \/ \E v \in Enrichers : Has(v, r, {"content", "score", "nack"})'
                      \/ ~up /\ r \in unacked
    BY <1>1 DEF ContentKnown
  <2>1. CASE r = m
    <3>1. at \in {"score", "nack"}
      BY <1>4, <2>1
    <3>2. Has(w, m, {"content", "score", "nack"})'
      BY <1>5, <3>1 DEF Has
    <3> QED BY <2>1, <3>2
  <2>2. CASE r # m
    <3>1. Stored(r) /\ Row(r) = "content"
      BY <1>4, <2>2
    <3> QED BY <1>8, <1>9, <2>2, <3>1 DEF WorkInv, ContentKnown
  <2> QED BY <2>1, <2>2
<1>13. UnseenKnown'
  <2>1. \A r \in RowIds : Stored(r)' /\ Row(r)' = "unseen" => Stored(r) /\ Row(r) = "unseen"
    <3>1. rows' = rows => Row(m)' = Row(m)
      BY DEF Row
    <3> QED BY <1>3, <1>4, <3>1 DEF Bare
  <2>2. \A a : Has(Storer, a, {"nack"}) => Has(Storer, a, {"nack"})'
    BY <1>2, <1>5 DEF Has
  <2> QED BY <1>1, <2>1, <2>2, UnseenStill DEF WorkInv
<1> QED BY <1>1, <1>5, <1>6, <1>7, <1>11, <1>12, <1>13 DEF WorkInv

\* Content: the row is written or not, and the message goes on or is to be
\* dead-lettered.
LEMMA ContentWork == ASSUME WorkInv, NEW w \in Enrichers, Content(w) PROVE WorkInv'
<1>1. work[w].at = "content" /\ UNCHANGED <<broker, backfill>>
  BY DEF Content
<1>2. ASSUME NEW at \in {"score", "nack"}, NEW value \in {"scored", "content"},
             Write(work[w].msg, value), GoTo(w, at)
      PROVE  WorkInv'
  <2>1. \E v \in Rows \ Bare : Write(work[w].msg, v) /\ (v = "content" => at # "ack")
    BY <1>2 DEF Rows, Bare
  <2> QED BY <1>1, <1>2, <2>1, EnricherWork
<1>3. CASE UNCHANGED rows /\ GoTo(w, "nack")
  BY <1>1, <1>3, EnricherWork
<1> QED BY <1>2, <1>3 DEF Content, Msg

\* Score: the row has its Score or goes without.
LEMMA ScoreWork == ASSUME WorkInv, NEW w \in Enrichers, Score(w) PROVE WorkInv'
<1>1. work[w].at = "score" /\ GoTo(w, "ack") /\ UNCHANGED <<broker, backfill>>
  BY DEF Score
<1>2. \E value \in {"scored", "unscored"} : Write(work[w].msg, value)
  BY DEF Score, Msg
<1>3. \E value \in Rows \ Bare : Write(work[w].msg, value) /\ (value = "content" => "ack" # "ack")
  BY <1>2 DEF Rows, Bare
<1> QED BY <1>1, <1>3, EnricherWork

\* The backfill is of stored rows only, and one that ends leaves the rest.
LEMMA BackfillWork ==
    ASSUME WorkInv, UNCHANGED <<broker, work, rows>>, \A r \in backfill' : r \in RowIds => Stored(r)
    PROVE  WorkInv'
<1>1. UNCHANGED <<queue, unacked, dead, up, sent, lost, work, rows>>
  BY DEF broker
<1>2. WorkTyped'
  BY <1>1 DEF WorkInv, WorkTyped, LegacyPipelineAssumption
<1>3. RowsKnown' /\ ArticlesKnown'
  BY <1>1 DEF WorkInv, RowsKnown, ArticlesKnown, Stored, Row, Has
<1>4. NewKnown' /\ ContentKnown'
  BY <1>1 DEF WorkInv, NewKnown, ContentKnown, Stored, Row, Has, Triggering, Trigger, Msg
<1>5. UnseenKnown'
  BY <1>1 DEF WorkInv, UnseenKnown, Stored, Row, Has
<1> QED BY <1>1, <1>2, <1>3, <1>4, <1>5 DEF WorkInv

-----------------------------------------------------------------------------
(* Duplicates and faults *)

\* The numbers of Paid.
LEMMA PaidNumbers ==
    ASSUME WorkTyped, Paid
    PROVE  /\ MaxFaults \in Nat /\ faults \in Nat /\ faults <= MaxFaults
           /\ Items \subseteq Articles /\ Letters \subseteq Articles
           /\ \A i \in Items : i \notin Letters
           /\ \A a \in Articles : Len(rows[a]) \in Nat /\ rows[a] \in Seq(Rows)
           /\ (Fault => faults' = faults + 1 /\ faults' \in 0..MaxFaults)
<1>1. MaxFaults \in Nat /\ \A i \in Items : i \notin Letters
  BY DEF WorkTyped, LegacyPipelineAssumption
<1>2. \A a \in Articles : Len(rows[a]) \in Nat /\ rows[a] \in Seq(Rows)
  <2> TAKE a \in Articles
  <2>1. rows[a] \in Seq(Rows)
    BY DEF WorkTyped
  <2> QED BY <2>1, LenProperties
<1> QED BY <1>1, <1>2 DEF Paid, Articles, Fault

\* Nothing is stored.
LEMMA PaidInit == LegacyPipelineAssumption /\ Init => Paid
<1> SUFFICES ASSUME LegacyPipelineAssumption, Init PROVE Paid
  OBVIOUS
<1>1. MaxFaults \in Nat /\ Items \subseteq Articles /\ Letters \subseteq Articles
  BY DEF LegacyPipelineAssumption, Articles
<1>2. \A a \in Articles : rows[a] = <<>> /\ Len(rows[a]) = 0
  BY EmptySeq DEF Init
<1>3. \A l : ~Has(Storer, l, {"create"})
  BY DEF Init, Has, Consumers, NoWork
<1>4. /\ faults = 0 /\ queue = {} /\ unacked = {} /\ dead = {} /\ lost = {} /\ backfill = {} /\ up = TRUE
  BY DEF Init
<1> QED BY <1>1, <1>2, <1>3, <1>4 DEF Paid

\* Nothing is stored, queued or lost, and the storage worker takes nothing.
LEMMA PaidAlone ==
    ASSUME Paid, UNCHANGED <<queue, up, faults, sent, lost>>, unacked' \subseteq unacked,
           dead' \subseteq Messages, backfill' \subseteq RowIds,
           \A a \in Articles : Len(rows'[a]) = Len(rows[a]) /\ (rows[a] = <<>> => rows'[a] = <<>>),
           \A l \in Letters : Has(Storer, l, {"create"})' => Has(Storer, l, {"create"})
    PROVE  Paid'
<1>1. Items \subseteq Articles /\ Letters \subseteq Articles
  BY DEF Articles
<1>2. /\ faults' \in 0..MaxFaults /\ backfill' \subseteq RowIds
      /\ queue' \union unacked' \union dead' \union lost' \subseteq Messages
      /\ \A i \in Items : Len(rows'[i]) <= 1
  BY <1>1 DEF Paid
<1>3. ASSUME NEW l \in Letters
      PROVE  /\ l \notin sent' => rows'[l] = <<>> /\ l \notin queue' \union unacked'
             /\ l \in queue' => l \notin unacked' /\ Len(rows'[l]) <= faults'
             /\ Len(rows'[l]) <= faults' + 1
             /\ ~up' /\ l \in unacked' => Len(rows'[l]) <= faults'
             /\ Has(Storer, l, {"create"})' =>
                   Len(rows'[l]) <= faults' /\ (~up' => Len(rows'[l]) + 1 <= faults')
  BY <1>1, <1>3 DEF Paid
<1> QED BY <1>2, <1>3 DEF Paid

\* A fault, the connection's end and messages lost with it pay for one more
\* delivery of everything that was not acknowledged.
LEMMA PaidDown ==
    ASSUME WorkTyped, Paid, up, Fault, up' = FALSE, UNCHANGED <<queue, unacked, dead, rows>>,
           sent \subseteq sent', lost' \subseteq Messages, backfill' \subseteq RowIds,
           \A l \in Letters : Has(Storer, l, {"create"})' => Has(Storer, l, {"create"})
    PROVE  Paid'
<1>1. /\ faults \in Nat /\ faults' = faults + 1 /\ faults' \in 0..MaxFaults
      /\ \A l \in Letters : Len(rows[l]) \in Nat
  BY PaidNumbers
<1>2. ASSUME NEW l \in Letters
      PROVE  /\ l \notin sent' => rows'[l] = <<>> /\ l \notin queue' \union unacked'
             /\ l \in queue' => l \notin unacked' /\ Len(rows'[l]) <= faults'
             /\ Len(rows'[l]) <= faults' + 1
             /\ ~up' /\ l \in unacked' => Len(rows'[l]) <= faults'
             /\ Has(Storer, l, {"create"})' =>
                   Len(rows'[l]) <= faults' /\ (~up' => Len(rows'[l]) + 1 <= faults')
  <2>1. Len(rows[l]) <= faults + 1 /\ (l \in queue => Len(rows[l]) <= faults)
    BY DEF Paid
  <2>2. /\ l \notin sent' => rows'[l] = <<>> /\ l \notin queue' \union unacked'
        /\ l \in queue' => l \notin unacked'
    BY DEF Paid
  <2>3. Has(Storer, l, {"create"})' => Len(rows[l]) <= faults
    BY DEF Paid
  <2> QED BY <1>1, <1>2, <2>1, <2>2, <2>3
<1>3. /\ queue' \union unacked' \union dead' \union lost' \subseteq Messages
      /\ \A i \in Items : Len(rows'[i]) <= 1
  BY DEF Paid
<1> QED BY <1>1, <1>2, <1>3 DEF Paid

\* A message is published, a letter for the first time.
LEMMA PaidPublish ==
    ASSUME WorkTyped, Paid, NEW m \in Messages, Publish(m), m \in Letters => m \notin sent,
           UNCHANGED rows, backfill' \subseteq RowIds,
           \A l \in Letters : Has(Storer, l, {"create"})' => Has(Storer, l, {"create"})
    PROVE  Paid'
<1>1. up /\ sent' = sent \union ({m} \intersect Articles) /\ UNCHANGED <<unacked, dead>>
  BY DEF Publish
<1>2. CASE queue' = queue \union {m} /\ UNCHANGED <<up, faults, lost>>
  <2>1. faults \in Nat /\ Letters \subseteq Articles
    BY PaidNumbers
  <2>2. ASSUME NEW l \in Letters
        PROVE  /\ l \notin sent' => rows'[l] = <<>> /\ l \notin queue' \union unacked'
               /\ l \in queue' => l \notin unacked' /\ Len(rows'[l]) <= faults'
               /\ Len(rows'[l]) <= faults' + 1
               /\ ~up' /\ l \in unacked' => Len(rows'[l]) <= faults'
               /\ Has(Storer, l, {"create"})' =>
                     Len(rows'[l]) <= faults' /\ (~up' => Len(rows'[l]) + 1 <= faults')
    <3>1. CASE l = m
      <4>1. rows[l] = <<>> /\ l \notin queue \union unacked /\ l \in sent'
        BY <1>1, <2>1, <3>1 DEF Paid
      <4>2. Len(rows'[l]) = 0
        BY <4>1, EmptySeq
      <4>3. Has(Storer, l, {"create"})' => Len(rows[l]) <= faults
        BY DEF Paid
      <4> QED BY <1>1, <1>2, <2>1, <4>1, <4>2
    <3>2. CASE l # m
      BY <1>1, <1>2, <3>2 DEF Paid
    <3> QED BY <3>1, <3>2
  <2>3. /\ faults' \in 0..MaxFaults /\ queue' \union unacked' \union dead' \union lost' \subseteq Messages
        /\ \A i \in Items : Len(rows'[i]) <= 1
    BY <1>1, <1>2 DEF Paid
  <2> QED BY <2>2, <2>3 DEF Paid
<1>3. CASE Fault /\ up' = FALSE /\ lost' = lost \union {m} /\ UNCHANGED queue
  <2>1. lost' \subseteq Messages
    BY <1>3 DEF Paid
  <2> QED BY <1>1, <1>3, <2>1, PaidDown
<1> QED BY <1>2, <1>3 DEF Publish

\* The trigger in hand is that of a row.
LEMMA TriggerKnown ==
    ASSUME WorkInv, Paid, work[Storer].at = "trigger"
    PROVE  Trigger \in RowIds
<1> DEFINE a == work[Storer].msg
<1>1. a \in Articles /\ rows[a] # <<>>
  BY DEF WorkInv, WorkTyped, RowsKnown
<1>2. WorkTyped /\ Trigger = <<a, Len(rows[a])>>
  BY DEF WorkInv, Trigger, Msg
<1>3. Len(rows[a]) \in Nat \ {0}
  <2>1. rows[a] \in Seq(Rows)
    BY <1>1, <1>2 DEF WorkTyped
  <2> QED BY <1>1, <2>1, EmptySeq
<1>4. CASE a \in Items
  <2>1. Len(rows[a]) <= 1
    BY <1>4 DEF Paid
  <2>2. \A n \in Nat \ {0} : n <= 1 => n = 1
    OBVIOUS
  <2>3. Len(rows[a]) = 1
    BY <1>3, <2>1, <2>2
  <2> QED BY <1>2, <1>4, <2>3 DEF RowIds
<1>5. CASE a \in Letters
  <2>1. Len(rows[a]) <= faults + 1 /\ faults \in Nat /\ faults <= MaxFaults /\ MaxFaults \in Nat
    BY <1>2, <1>5, PaidNumbers DEF Paid
  <2>2. Len(rows[a]) \in 1..MaxFaults + 1
    BY <1>3, <2>1
  <2> QED BY <1>2, <1>5, <2>2 DEF RowIds
<1> QED BY <1>1, <1>4, <1>5 DEF Articles

\* A delivery moves the letter from the queue to the storage worker.
LEMMA DeliverPaid ==
    ASSUME WorkTyped, Paid, NEW w \in Consumers, NEW m \in Messages, Deliver(w, m)
    PROVE  Paid'
<1>1. /\ up /\ m \in queue /\ queue' = queue \ {m} /\ unacked' = unacked \union {m}
      /\ UNCHANGED <<dead, up, faults, sent, lost, rows, backfill>>
  BY DEF Deliver, Owed
<1>2. \A l \in Letters : Has(Storer, l, {"create"})' => Has(Storer, l, {"create"}) \/ l = m
  <2>1. work' = [work EXCEPT ![w] = [at |-> IF w = Storer THEN "create" ELSE "content", msg |-> m]]
    BY DEF Deliver
  <2>2. work \in [Consumers -> Work0] /\ Storer \in Consumers
    BY Names DEF WorkTyped, Work0
  <2> QED BY <2>1, <2>2 DEF Has
<1>3. ASSUME NEW l \in Letters
      PROVE  /\ l \notin sent' => rows'[l] = <<>> /\ l \notin queue' \union unacked'
             /\ l \in queue' => l \notin unacked' /\ Len(rows'[l]) <= faults'
             /\ Len(rows'[l]) <= faults' + 1
             /\ ~up' /\ l \in unacked' => Len(rows'[l]) <= faults'
             /\ Has(Storer, l, {"create"})' =>
                   Len(rows'[l]) <= faults' /\ (~up' => Len(rows'[l]) + 1 <= faults')
  BY <1>1, <1>2, <1>3 DEF Paid
<1>4. /\ faults' \in 0..MaxFaults /\ backfill' \subseteq RowIds
      /\ queue' \union unacked' \union dead' \union lost' \subseteq Messages
      /\ \A i \in Items : Len(rows'[i]) <= 1
  BY <1>1 DEF Paid
<1> QED BY <1>3, <1>4 DEF Paid

\* A restart needs a fault of its own, or follows one.
LEMMA RestartPaid == ASSUME WorkInv, Paid, Restart PROVE Paid'
<1>1. /\ WorkTyped /\ up' = TRUE /\ queue' = queue \union unacked /\ unacked' = {} /\ backfill' = {}
      /\ work' = [w \in Consumers |-> NoWork] /\ UNCHANGED <<dead, sent, rows>>
      /\ (IF up THEN Fault ELSE UNCHANGED faults)
      /\ lost' \subseteq lost \union RowIds
  BY DEF Restart, WorkInv
<1>2. \A l \in Letters : ~Has(Storer, l, {"create"})'
  BY <1>1, Names DEF Has, NoWork, WorkTyped
<1>3. /\ faults \in Nat /\ faults' \in 0..MaxFaults
      /\ IF up THEN faults' = faults + 1 ELSE faults' = faults
      /\ \A l \in Letters : Len(rows[l]) \in Nat
  BY <1>1, PaidNumbers DEF Paid
<1>4. ASSUME NEW l \in Letters
      PROVE  /\ l \notin sent' => rows'[l] = <<>> /\ l \notin queue' \union unacked'
             /\ l \in queue' => l \notin unacked' /\ Len(rows'[l]) <= faults'
             /\ Len(rows'[l]) <= faults' + 1
             /\ ~up' /\ l \in unacked' => Len(rows'[l]) <= faults'
             /\ Has(Storer, l, {"create"})' =>
                   Len(rows'[l]) <= faults' /\ (~up' => Len(rows'[l]) + 1 <= faults')
  <2>1. l \in queue' => Len(rows[l]) <= faults'
    <3>1. CASE up
      BY <1>3, <1>4, <3>1 DEF Paid
    <3>2. CASE ~up
      BY <1>1, <1>3, <1>4, <3>2 DEF Paid
    <3> QED BY <3>1, <3>2
  <2>2. Len(rows[l]) <= faults' + 1
    BY <1>3, <1>4 DEF Paid
  <2>3. l \notin sent' => rows'[l] = <<>> /\ l \notin queue' \union unacked'
    BY <1>1, <1>4 DEF Paid
  <2> QED BY <1>1, <1>2, <1>4, <2>1, <2>2, <2>3
<1>5. /\ backfill' \subseteq RowIds
      /\ queue' \union unacked' \union dead' \union lost' \subseteq Messages
      /\ \A i \in Items : Len(rows'[i]) <= 1
  BY <1>1 DEF Paid, Messages
<1> QED BY <1>3, <1>4, <1>5 DEF Paid

\* A settled message costs nothing.
LEMMA SettlePaid ==
    ASSUME WorkTyped, Paid, NEW w \in Consumers, Settle(w)
    PROVE  Paid'
<1>1. /\ work[w].at \in {"ack", "nack"} /\ work' = [work EXCEPT ![w] = NoWork]
      /\ UNCHANGED <<queue, up, faults, sent, lost, rows, backfill>> /\ unacked' \subseteq unacked
      /\ dead' \subseteq dead \union {work[w].msg}
  BY DEF Settle, Nack, Msg
<1>2. work[w].msg \in Messages
  BY <1>1, Fitting DEF Fits, Messages
<1>3. dead' \subseteq Messages /\ backfill' \subseteq RowIds
  BY <1>1, <1>2 DEF Paid
<1>4. \A l \in Letters : Has(Storer, l, {"create"})' => Has(Storer, l, {"create"})
  <2>1. work \in [Consumers -> Work0] /\ Storer \in Consumers
    BY Names DEF WorkTyped, Work0
  <2> QED BY <1>1, <2>1 DEF Has, NoWork
<1> QED BY <1>1, <1>3, <1>4, PaidAlone

\* An item is inserted once, a letter at every delivery.
LEMMA CreatePaid == ASSUME WorkInv, Paid, Create PROVE Paid'
<1> DEFINE a == work[Storer].msg
<1>1. /\ WorkTyped /\ work[Storer].at = "create"
      /\ UNCHANGED <<queue, unacked, dead, up, faults, sent, lost, backfill>>
  BY DEF Create, broker, WorkInv
<1>2. /\ Storer \in Consumers /\ a \in Articles /\ a \in unacked /\ rows[a] \in Seq(Rows)
      /\ rows \in [Articles -> Seq(Rows)]
  BY <1>1, Names DEF WorkTyped
<1>3. /\ faults \in Nat /\ Items \subseteq Articles /\ Letters \subseteq Articles
      /\ \A i \in Items : i \notin Letters
  BY <1>1, PaidNumbers
<1>4. ASSUME NEW at \in {"trigger", "ack", "nack"}, GoTo(Storer, at)
      PROVE  \A l \in Letters : ~Has(Storer, l, {"create"})'
  BY <1>1, <1>2, <1>4, Goes DEF Has
<1>5. ASSUME NEW value \in Bare, NEW at \in {"trigger", "nack"}, CanInsert(a),
             rows' = [rows EXCEPT ![a] = Append(rows[a], value)], GoTo(Storer, at)
      PROVE  Paid'
  <2>1. /\ Append(rows[a], value) \in Seq(Rows) /\ Len(rows[a]) \in Nat
        /\ Len(Append(rows[a], value)) = Len(rows[a]) + 1
    <3>1. value \in Rows
      BY <1>5 DEF Rows, Bare
    <3> QED BY <1>2, <3>1, AppendProperties, LenProperties
  <2>2. /\ rows'[a] = Append(rows[a], value)
        /\ \A b \in Articles : b # a => rows'[b] = rows[b]
    BY <1>2, <1>5
  <2>3. ASSUME NEW i \in Items PROVE Len(rows'[i]) <= 1
    <3>1. CASE i = a
      <4>1. rows[a] = <<>>
        BY <1>3, <1>5, <3>1 DEF CanInsert
      <4>2. Len(rows[a]) = 0
        BY <4>1, EmptySeq
      <4> QED BY <2>1, <2>2, <3>1, <4>2
    <3>2. CASE i # a
      BY <1>3, <2>2, <3>2 DEF Paid
    <3> QED BY <3>1, <3>2
  <2>4. ASSUME NEW l \in Letters
        PROVE  /\ l \notin sent' => rows'[l] = <<>> /\ l \notin queue' \union unacked'
               /\ l \in queue' => l \notin unacked' /\ Len(rows'[l]) <= faults'
               /\ Len(rows'[l]) <= faults' + 1
               /\ ~up' /\ l \in unacked' => Len(rows'[l]) <= faults'
               /\ Has(Storer, l, {"create"})' =>
                     Len(rows'[l]) <= faults' /\ (~up' => Len(rows'[l]) + 1 <= faults')
    <3>1. CASE l = a
      <4>1. Has(Storer, l, {"create"})
        BY <1>1, <3>1 DEF Has
      <4>2. Len(rows[l]) <= faults /\ (~up => Len(rows[l]) + 1 <= faults) /\ l \in sent /\ l \notin queue
        BY <1>2, <3>1, <4>1 DEF Paid
      <4>3. Len(rows'[l]) = Len(rows[l]) + 1 /\ Len(rows[l]) \in Nat
        BY <2>1, <2>2, <3>1
      <4> QED BY <1>1, <1>3, <1>4, <1>5, <4>2, <4>3
    <3>2. CASE l # a
      <4>1. rows'[l] = rows[l]
        BY <1>3, <2>2, <3>2
      <4> QED BY <1>1, <1>4, <1>5, <4>1 DEF Paid
    <3> QED BY <3>1, <3>2
  <2>5. /\ faults' \in 0..MaxFaults /\ backfill' \subseteq RowIds
        /\ queue' \union unacked' \union dead' \union lost' \subseteq Messages
    BY <1>1 DEF Paid
  <2> QED BY <2>3, <2>4, <2>5 DEF Paid
<1>6. CASE UNCHANGED rows /\ \E at \in {"ack", "nack"} : GoTo(Storer, at)
  <2>1. dead' \subseteq Messages /\ backfill' \subseteq RowIds
    BY <1>1 DEF Paid
  <2> QED BY <1>1, <1>4, <1>6, <2>1, PaidAlone
<1> QED BY <1>5, <1>6 DEF Create, Msg, Bare

\* Writing a row neither adds nor drops one.
LEMMA EnricherPaid ==
    ASSUME WorkInv, Paid, NEW w \in Enrichers, Content(w) \/ Score(w)
    PROVE  Paid'
<1>1. /\ WorkTyped /\ work[w].at \in {"content", "score"} /\ UNCHANGED <<broker, backfill>>
      /\ \E at \in {"score", "nack", "ack"} : GoTo(w, at)
      /\ UNCHANGED rows \/ \E value \in Rows : Write(work[w].msg, value)
  <2>1. {"scored", "content", "unscored"} \subseteq Rows
    BY DEF Rows
  <2>2. CASE Content(w)
    BY <2>1, <2>2 DEF Content, Msg, WorkInv
  <2>3. CASE Score(w)
    BY <2>1, <2>3 DEF Score, Msg, WorkInv
  <2> QED BY <2>2, <2>3
<1>2. w \in Consumers /\ w # Storer /\ Storer \in Consumers
  BY <1>1, Names DEF WorkTyped
<1>3. work[w].msg \in RowIds /\ Stored(work[w].msg)
  BY <1>1, <1>2, Fitting DEF Fits, WorkInv, RowsKnown
<1>4. \A a \in Articles : Len(rows'[a]) = Len(rows[a]) /\ (rows[a] = <<>> => rows'[a] = <<>>)
  BY <1>1, <1>3, Writes
<1>5. \A l \in Letters : Has(Storer, l, {"create"})' => Has(Storer, l, {"create"})
  BY <1>1, <1>2, Goes DEF Has
<1>6. /\ UNCHANGED <<queue, up, faults, sent, lost, unacked, dead, backfill>>
      /\ dead' \subseteq Messages /\ backfill' \subseteq RowIds
  BY <1>1 DEF broker, Paid
<1> QED BY <1>4, <1>5, <1>6, PaidAlone

\* Every step keeps the invariant: the sources and the workers ...
LEMMA NextInv == ASSUME SourceInv, WorkInv, [Next]_vars PROVE SourceInv' /\ WorkInv'
<1>1. CASE UNCHANGED vars
  BY <1>1, SourceAlone, WorkAlone DEF vars, broker
<1>2. CASE Tick
  BY <1>2, TickSource, WorkAlone DEF Tick
<1>3. CASE Disconnect
  BY <1>3, SourceAlone, DisconnectWork DEF Disconnect
<1>4. CASE Restart
  BY <1>4, RestartSource, RestartWork
<1>5. CASE StartBackfill
  <2>1. WorkInv'
    BY <1>5, BackfillWork DEF StartBackfill
  <2> QED BY <1>5, <2>1, SourceAlone DEF StartBackfill, broker
<1>6. ASSUME NEW i \in Items, Appear(i) PROVE SourceInv' /\ WorkInv'
  BY <1>6, AppearSource, WorkAlone DEF Appear
<1>7. ASSUME NEW p \in Pollers, Poll(p) \/ Parse(p) \/ EndPoll(p) PROVE SourceInv' /\ WorkInv'
  <2>1. SourceInv'
    BY <1>7, PollSource, ParseSource, EndPollSource
  <2>2. WorkInv'
    BY <1>7, WorkAlone DEF Poll, Parse, EndPoll
  <2> QED BY <2>1, <2>2
<1>8. ASSUME NEW m \in Articles, Publish(m), UNCHANGED <<work, rows, backfill>> PROVE WorkInv'
  <2>1. m \notin RowIds
    BY Names DEF WorkInv, WorkTyped
  <2> QED BY <1>8, <2>1, PublishWork
<1>9. ASSUME NEW p \in Pollers, NEW i \in Items, PublishItem(p, i) PROVE SourceInv' /\ WorkInv'
  <2>1. SourceInv'
    BY <1>9, PublishItemSource
  <2>2. i \in Articles /\ UNCHANGED <<work, rows, backfill>> /\ (Publish(i) \/ UNCHANGED broker)
    BY <1>9 DEF PublishItem, Articles
  <2>3. WorkInv'
    BY <1>8, <2>2, WorkAlone
  <2> QED BY <2>1, <2>3
<1>10. ASSUME NEW l \in Letters, Webhook(l) PROVE SourceInv' /\ WorkInv'
  <2>1. l \in Articles /\ Publish(l) /\ UNCHANGED <<source, poller, work, rows, backfill>>
    BY <1>10 DEF Webhook, Articles
  <2>2. SourceInv'
    BY <2>1, Published, SourceAlone
  <2>3. WorkInv'
    BY <1>8, <2>1
  <2> QED BY <2>2, <2>3
<1>11. ASSUME NEW w \in Consumers, Handle(w) PROVE SourceInv' /\ WorkInv'
  <2>1. /\ \/ Settle(w) \/ Create \/ PublishTrigger
           \/ w # Storer /\ (Content(w) \/ Score(w))
        /\ w # Storer => w \in Enrichers
    BY <1>11, Names DEF Handle, WorkInv, WorkTyped
  <2>2. WorkInv'
    BY <2>1, SettleWork, CreateWork, TriggerWork, ContentWork, ScoreWork
  <2>3. CASE PublishTrigger
    BY <2>2, <2>3, Published, SourceAlone DEF PublishTrigger
  <2>4. CASE Settle(w) \/ Create \/ Content(w) \/ Score(w)
    BY <2>2, <2>4, SourceAlone DEF Settle, Create, Content, Score, broker
  <2> QED BY <2>1, <2>3, <2>4
<1>12. ASSUME NEW w \in Consumers, NEW m \in Messages, Deliver(w, m) PROVE SourceInv' /\ WorkInv'
  BY <1>12, DeliverWork, SourceAlone DEF Deliver
<1>13. ASSUME NEW r \in RowIds, Backfill(r) PROVE SourceInv' /\ WorkInv'
  <2>1. UNCHANGED <<source, poller, work, rows>> /\ Stored(r)
    BY <1>13 DEF Backfill, WorkInv, RowsKnown
  <2>2. CASE Publish(r) /\ backfill' = backfill \ {r}
    BY <2>1, <2>2, Published, PublishWork, SourceAlone
  <2>3. CASE backfill' = {} /\ UNCHANGED broker
    <3>1. WorkInv'
      BY <2>1, <2>3, BackfillWork
    <3> QED BY <2>1, <2>3, <3>1, SourceAlone DEF broker
  <2> QED BY <1>13, <2>2, <2>3 DEF Backfill
<1> QED BY <1>1, <1>2, <1>3, <1>4, <1>5, <1>6, <1>7, <1>9, <1>10, <1>11, <1>12, <1>13 DEF Next

\* ... and what the faults pay for.
LEMMA NextPaid == ASSUME WorkInv, Paid, [Next]_vars PROVE Paid'
<1>1. /\ WorkTyped /\ dead \subseteq Messages /\ backfill \subseteq RowIds
      /\ Items \subseteq Messages /\ Letters \subseteq Messages /\ RowIds \subseteq Messages
      /\ \A i \in Items : i \notin Letters
      /\ \A r \in RowIds : r \notin Letters
  <2>1. \A i \in Items : i \notin Letters
    BY PaidNumbers DEF WorkInv
  <2>2. \A r \in RowIds : r \notin Articles
    BY Names DEF WorkInv, WorkTyped
  <2> QED BY <2>1, <2>2 DEF WorkInv, Paid, Messages, Articles
<1>2. CASE UNCHANGED <<broker, work, rows>> /\ backfill' \subseteq RowIds
  <2>1. UNCHANGED <<queue, unacked, dead, up, faults, sent, lost, work, rows>>
    BY <1>2 DEF broker
  <2>2. \A l \in Letters : Has(Storer, l, {"create"})' => Has(Storer, l, {"create"})
    BY <2>1 DEF Has
  <2> QED BY <1>1, <1>2, <2>1, <2>2, PaidAlone
<1>3. CASE Disconnect
  <2>1. \A l \in Letters : Has(Storer, l, {"create"})' => Has(Storer, l, {"create"})
    BY <1>3 DEF Disconnect, Has
  <2>2. lost' \subseteq Messages /\ backfill' \subseteq RowIds
    BY <1>3 DEF Disconnect, Paid
  <2> QED BY <1>1, <1>3, <2>1, <2>2, PaidDown DEF Disconnect
<1>4. ASSUME NEW m \in Messages, Publish(m), m \in Letters => m \notin sent,
             UNCHANGED <<work, rows>>, backfill' \subseteq RowIds
      PROVE  Paid'
  <2>1. \A l \in Letters : Has(Storer, l, {"create"})' => Has(Storer, l, {"create"})
    BY <1>4 DEF Has
  <2> QED BY <1>1, <1>4, <2>1, PaidPublish
<1>5. ASSUME NEW p \in Pollers, NEW i \in Items, PublishItem(p, i) PROVE Paid'
  <2>1. CASE Publish(i)
    BY <1>1, <1>4, <1>5, <2>1 DEF PublishItem
  <2>2. CASE UNCHANGED broker
    BY <1>1, <1>2, <1>5, <2>2 DEF PublishItem
  <2> QED BY <1>5, <2>1, <2>2 DEF PublishItem
<1>6. ASSUME NEW l \in Letters, Webhook(l) PROVE Paid'
  BY <1>1, <1>4, <1>6 DEF Webhook
<1>7. ASSUME NEW r \in RowIds, Backfill(r) PROVE Paid'
  <2>1. r \in Messages /\ r \notin Letters /\ backfill' \subseteq RowIds
    BY <1>1, <1>7 DEF Backfill
  <2>2. CASE Publish(r)
    BY <1>4, <1>7, <2>1, <2>2 DEF Backfill
  <2>3. CASE UNCHANGED broker
    BY <1>2, <1>7, <2>1, <2>3 DEF Backfill
  <2> QED BY <1>7, <2>2, <2>3 DEF Backfill
<1>8. CASE PublishTrigger
  <2>1. /\ work[Storer].at = "trigger" /\ GoTo(Storer, "ack") /\ UNCHANGED <<rows, backfill>>
        /\ Storer \in Consumers
    BY <1>1, <1>8, Names DEF PublishTrigger, WorkTyped
  <2>2. \A l \in Letters : Has(Storer, l, {"create"})' => Has(Storer, l, {"create"})
    BY <1>1, <2>1, Goes DEF Has
  <2>3. PICK r \in RowIds : Trigger = r
    BY <2>1, TriggerKnown
  <2>4. CASE Publish(Trigger)
    <3>1. Publish(r)
      BY <2>3, <2>4
    <3> QED BY <1>1, <2>1, <2>2, <3>1, PaidPublish
  <2>5. CASE lost' = lost \union {r} /\ UNCHANGED <<queue, unacked, dead, up, faults, sent>>
    <3>1. ASSUME NEW l \in Letters
          PROVE  /\ l \notin sent' => rows'[l] = <<>> /\ l \notin queue' \union unacked'
                 /\ l \in queue' => l \notin unacked' /\ Len(rows'[l]) <= faults'
                 /\ Len(rows'[l]) <= faults' + 1
                 /\ ~up' /\ l \in unacked' => Len(rows'[l]) <= faults'
                 /\ Has(Storer, l, {"create"})' =>
                       Len(rows'[l]) <= faults' /\ (~up' => Len(rows'[l]) + 1 <= faults')
      BY <2>1, <2>2, <2>5, <3>1 DEF Paid
    <3>2. /\ faults' \in 0..MaxFaults /\ backfill' \subseteq RowIds
          /\ queue' \union unacked' \union dead' \union lost' \subseteq Messages
          /\ \A i \in Items : Len(rows'[i]) <= 1
      BY <1>1, <2>1, <2>5 DEF Paid
    <3> QED BY <3>1, <3>2 DEF Paid
  <2> QED BY <1>8, <2>3, <2>4, <2>5 DEF PublishTrigger
<1>9. ASSUME NEW w \in Consumers, Handle(w) PROVE Paid'
  <2>1. /\ \/ Settle(w) \/ Create \/ PublishTrigger
           \/ w # Storer /\ (Content(w) \/ Score(w))
        /\ w # Storer => w \in Enrichers
    BY <1>1, <1>9, Names DEF Handle, WorkTyped
  <2> QED BY <1>1, <1>8, <2>1, SettlePaid, CreatePaid, EnricherPaid
<1>10. ASSUME NEW w \in Consumers, NEW m \in Messages, Deliver(w, m) PROVE Paid'
  BY <1>1, <1>10, DeliverPaid
<1>11. CASE Tick \/ StartBackfill \/ UNCHANGED vars
           \/ (\E i \in Items : Appear(i)) \/ (\E p \in Pollers : Poll(p) \/ Parse(p) \/ EndPoll(p))
  BY <1>1, <1>2, <1>11 DEF Tick, StartBackfill, vars, Appear, Poll, Parse, EndPoll
<1> QED BY <1>3, <1>5, <1>6, <1>7, <1>9, <1>10, <1>11, RestartPaid DEF Next

\* The inductive invariant of the legacy pipeline, for any number of items,
\* letters, polls, workers, faults and articles.
THEOREM PipelineInvariant == Spec => []PipelineInv
<1>0. LegacyPipelineAssumption
  BY LegacyPipelineAssumption DEF LegacyPipelineAssumption
<1>1. LegacyPipelineAssumption /\ Init => PipelineInv
  BY SourceInit, WorkInit, PaidInit DEF PipelineInv
<1>2. PipelineInv /\ [Next]_vars => PipelineInv'
  BY NextInv, NextPaid DEF PipelineInv
<1> QED BY <1>0, <1>1, <1>2, PTL DEF Spec

\* The type invariant.
THEOREM PipelineTypes == Spec => []TypeOK
<1>1. ASSUME PipelineInv PROVE TypeOK
  <2>1. /\ now \in 0..MaxTime /\ cursor \in 0..MaxTime /\ quiet \subseteq Items
        /\ feed \in [Items -> 0..MaxTime \union {None}]
        /\ poller \in [Pollers -> [at: {"idle", "parse", "publish"}, cursor: 0..MaxTime,
                                   todo: SUBSET Items]]
    <3>1. SourceTyped
      BY <1>1 DEF PipelineInv, SourceInv
    <3>2. cursor \in 0..MaxTime
      BY <3>1, SourceNumbers
    <3> QED BY <3>1, <3>2 DEF SourceTyped
  <2>2. /\ rows \in [Articles -> Seq(Rows)] /\ up \in BOOLEAN /\ sent \subseteq Articles
        /\ work \in [Consumers -> [at: {"idle", "create", "trigger", "content", "score", "ack", "nack"},
                                   msg: Messages \union {None}]]
    BY <1>1 DEF PipelineInv, WorkInv, WorkTyped
  <2> QED BY <1>1, <2>1, <2>2 DEF PipelineInv, Paid, TypeOK
<1> QED BY <1>1, PipelineInvariant, PTL

\* DuplicatesPaid of article_repo.Create: ON CONFLICT keeps an item's row
\* single; a newsletter's rows are one more than the faults at most.
THEOREM PipelineDuplicates == Spec => []DuplicatesPaid
<1>1. ASSUME PipelineInv PROVE DuplicatesPaid
  <2>1. faults \in Nat /\ \A l \in Letters : Len(rows[l]) \in Nat
    BY <1>1, PaidNumbers DEF PipelineInv, WorkInv
  <2>2. \A l \in Letters : Len(rows[l]) <= faults + 1
    BY <1>1 DEF PipelineInv, Paid
  <2>3. \A l \in Letters : Len(rows[l]) <= 1 + faults
    BY <2>1, <2>2
  <2> QED BY <1>1, <2>3 DEF PipelineInv, Paid, DuplicatesPaid
<1> QED BY <1>1, PipelineInvariant, PTL

\* CursorKeepsUp of pollSource: an item that appears with the date of the day,
\* while no poll publishes, is published before last_fetched_at passes it, for
\* polls and refreshes that overlap in any way.
THEOREM PipelineCursorKeepsUp == Spec => []CursorKeepsUp
<1>1. PipelineInv => CursorKeepsUp
  BY DEF PipelineInv, SourceInv, Ahead, CursorKeepsUp
<1> QED BY <1>1, PipelineInvariant, PTL

\* NothingStranded of the queues: whatever was published is stored, on its
\* way, dead-lettered or lost with a connection, and a row without content has
\* its trigger, or its article when nobody learnt of the row, whatever the
\* redeliveries, lost connections, lost answers and restarts.
THEOREM PipelineStrandsNothing == Spec => []NothingStranded
<1>1. ASSUME PipelineInv PROVE NothingStranded
  <2>1. WorkTyped /\ \A w \in Consumers : work[w].at # "idle" => work[w].msg \in unacked
    BY <1>1 DEF PipelineInv, WorkInv, WorkTyped
  <2>2. Storer \in Consumers /\ Enrichers \subseteq Consumers
    BY DEF Consumers
  <2>3. \A w \in Consumers : \A m, places : "idle" \notin places /\ Has(w, m, places) => Pending(m)
    BY <2>1 DEF Has, Pending
  <2>4. \A a \in sent : rows[a] # <<>> \/ Accounted(a)
    BY <1>1, <2>2, <2>3 DEF PipelineInv, WorkInv, ArticlesKnown, Accounted, Pending
  <2>5. \A r \in RowIds : Stored(r) /\ Row(r) = "new" => Accounted(r) \/ Triggering(r)
    BY <1>1, <2>2, <2>3 DEF PipelineInv, WorkInv, NewKnown, Accounted, Pending
  <2>6. \A r \in RowIds : Stored(r) /\ Row(r) = "content" => Pending(r) \/ r \in dead
    BY <1>1, <2>2, <2>3 DEF PipelineInv, WorkInv, ContentKnown, Pending
  <2>7. \A r \in RowIds : Stored(r) /\ Row(r) = "unseen" => r \in lost \/ r[1] \in dead \union unacked
    BY <1>1, <2>1, <2>2 DEF PipelineInv, WorkInv, UnseenKnown, Has
  <2> QED BY <2>4, <2>5, <2>6, <2>7 DEF NothingStranded
<1> QED BY <1>1, PipelineInvariant, PTL

-----------------------------------------------------------------------------
(* The scheduler of the legacy digest *)

Begun == {c \in Calls : call[c].at # "idle"}

\* inFlight is the one call that computes, and a compute that succeeded is
\* over.
OneRuns ==
    /\ \A c \in Calls : call[c].at = "compute" <=> inFlight = c
    /\ \A c \in computed : call[c].at \in {"close", "answered"} /\ call[c].answer = c

\* The cache keeps a success under its own date.
CacheDated == cached # NoCall => cached \in computed /\ cachedDate = call[cached].date

\* What a Refresh found complete when it began is no longer cached once it
\* has dropped the cache, and never its answer.
RefreshesForget ==
    \A c \in Calls :
        /\ earlier[c] \subseteq computed
        /\ call[c].at = "drop" => call[c].kind = "refresh"
        /\ call[c].kind = "refresh" /\ call[c].at \notin {"idle", "drop"} => cached \notin earlier[c]

\* Answers are successes of the caller's date.
AnswersKept ==
    \A c \in Calls :
        /\ call[c].at = "answered" => call[c].answer # NoCall
        /\ call[c].answer # NoCall =>
              /\ call[c].at \in {"close", "answered"}
              /\ call[c].answer \in computed
              /\ call[call[c].answer].date = call[c].date
              /\ call[c].kind = "refresh" => call[c].answer \notin earlier[c]

\* The Refreshes that have dropped the cache.
Dropped == {c \in Calls : call[c].kind = "refresh" /\ call[c].at \notin {"idle", "drop"}}
OneDay(d) == \A c \in Begun : call[c].date = d

\* While all calls are of one day, a compute runs only when nothing is cached,
\* and each success but the cached one was dropped by a Refresh of its own.
SuccessesCounted ==
    \A d \in 0..MaxDay : OneDay(d) =>
        /\ inFlight # NoCall => cached = NoCall
        /\ Cardinality(computed) <= Cardinality(Dropped) + (IF cached = NoCall THEN 0 ELSE 1)

SchedulerInv ==
    /\ SchedulerTypeOK /\ OneRuns /\ CacheDated /\ RefreshesForget /\ AnswersKept
    /\ SuccessesCounted /\ IsFiniteSet(Begun)
-----------------------------------------------------------------------------

\* The initial states satisfy the invariant.
LEMMA SchedulerInitial == SchedulerInit => SchedulerInv
<1> SUFFICES ASSUME SchedulerInit PROVE SchedulerInv
  OBVIOUS
<1> USE DigestSchedulerAssumption
<1>1. SchedulerTypeOK
  BY DEF SchedulerInit, SchedulerTypeOK, Fresh, Kinds, Ended
<1>2. OneRuns /\ CacheDated /\ RefreshesForget /\ AnswersKept
  BY DEF SchedulerInit, OneRuns, CacheDated, RefreshesForget, AnswersKept, Fresh
<1>3. Begun = {} /\ Dropped = {} /\ computed = {}
  BY DEF SchedulerInit, Begun, Dropped, Fresh
<1>4. IsFiniteSet(Begun) /\ Cardinality(computed) = 0 /\ Cardinality(Dropped) = 0
  BY <1>3, FS_EmptySet
<1>5. SuccessesCounted
  BY <1>4 DEF SchedulerInit, SuccessesCounted
<1> QED BY <1>1, <1>2, <1>4, <1>5 DEF SchedulerInv

\* The history sets are finite: only calls that have begun are in them.
LEMMA CountsFinite ==
    ASSUME SchedulerInv
    PROVE  /\ IsFiniteSet(computed) /\ Cardinality(computed) \in Nat
           /\ IsFiniteSet(Dropped) /\ Cardinality(Dropped) \in Nat
<1>1. computed \subseteq Begun /\ Dropped \subseteq Begun
  BY DEF SchedulerInv, SchedulerTypeOK, OneRuns, Begun, Dropped
<1>2. IsFiniteSet(Begun)
  BY DEF SchedulerInv
<1> QED BY <1>1, <1>2, FS_Subset, FS_CardinalityType

\* A call that was under way and has moved on is counted as it was.
LEMMA MovedOn ==
    ASSUME NEW c \in Calls,
           \A e \in Calls \ {c} : call'[e] = call[e],
           call'[c].kind = call[c].kind, call'[c].date = call[c].date,
           call[c].at \notin {"idle", "drop"}, call'[c].at \notin {"idle", "drop"}
    PROVE  /\ Begun' = Begun /\ Dropped' = Dropped
           /\ \A d : OneDay(d)' <=> OneDay(d)
<1>1. Begun' = Begun /\ Dropped' = Dropped
  BY DEF Begun, Dropped
<1>2. \A e \in Calls : call'[e].date = call[e].date
  OBVIOUS
<1> QED BY <1>1, <1>2 DEF OneDay, Begun

\* Check, Await, Close and Wake: only the call itself changes, and the cache
\* is as it was.
LEMMA QuietStep ==
    ASSUME SchedulerInv, NEW c \in Calls, Check(c) \/ Close(c) \/ Wake(c)
    PROVE  SchedulerInv'
<1> USE DigestSchedulerAssumption
<1>1. SchedulerTypeOK'
  BY DEF SchedulerInv, SchedulerTypeOK, Check, Close, Wake, MoveTo, Answer, Ended
<1>2. OneRuns'
  BY DEF SchedulerInv, SchedulerTypeOK, OneRuns, Check, Close, Wake, MoveTo, Answer
<1>3. CacheDated'
  BY DEF SchedulerInv, SchedulerTypeOK, CacheDated, Check, Close, Wake, MoveTo, Answer
<1>4. RefreshesForget'
  BY DEF SchedulerInv, SchedulerTypeOK, RefreshesForget, Check, Close, Wake, MoveTo, Answer
<1>5. AnswersKept'
  <2>1. CASE Check(c)
    BY <2>1 DEF SchedulerInv, SchedulerTypeOK, RefreshesForget, CacheDated, AnswersKept, Check, MoveTo, Answer, Warm
  <2>2. CASE Close(c)
    BY <2>2 DEF SchedulerInv, SchedulerTypeOK, AnswersKept, Close, MoveTo
  <2>3. CASE Wake(c)
    BY <2>3 DEF SchedulerInv, SchedulerTypeOK, AnswersKept, Wake
  <2> QED BY <2>1, <2>2, <2>3
<1>6. SuccessesCounted' /\ IsFiniteSet(Begun)'
  <2>1. /\ Begun' = Begun /\ Dropped' = Dropped
        /\ \A d : OneDay(d)' <=> OneDay(d)
    <3>1. /\ \A e \in Calls \ {c} : call'[e] = call[e]
          /\ call'[c].kind = call[c].kind /\ call'[c].date = call[c].date
          /\ call[c].at \notin {"idle", "drop"} /\ call'[c].at \notin {"idle", "drop"}
      BY DEF SchedulerInv, SchedulerTypeOK, Check, Close, Wake, MoveTo, Answer
    <3> QED BY <3>1, MovedOn
  <2>2. UNCHANGED <<cached, cachedDate, inFlight, computed>>
    BY DEF Check, Close, Wake
  <2> QED BY <2>1, <2>2 DEF SchedulerInv, SuccessesCounted
<1> QED BY <1>1, <1>2, <1>3, <1>4, <1>5, <1>6 DEF SchedulerInv

\* A call begins: a Refresh notes what is complete.
LEMMA BeginStep ==
    ASSUME SchedulerInv, NEW c \in Calls, NEW kind \in Kinds, Begin(c, kind)
    PROVE  SchedulerInv'
<1> USE DigestSchedulerAssumption
<1>1. /\ call'[c].at \in {"await", "check", "drop"}
      /\ call'[c].at = "drop" <=> kind = "refresh"
      /\ call'[c].kind = kind /\ call'[c].date = day /\ call'[c].answer = call[c].answer
      /\ \A e \in Calls \ {c} : call'[e] = call[e]
  BY DEF SchedulerInv, SchedulerTypeOK, Begin, Kinds
<1>2. SchedulerTypeOK'
  BY DEF SchedulerInv, SchedulerTypeOK, Begin, Kinds
<1>3. OneRuns' /\ CacheDated'
  BY <1>1 DEF SchedulerInv, SchedulerTypeOK, OneRuns, CacheDated, Begin
<1>4. RefreshesForget'
  BY <1>1 DEF SchedulerInv, SchedulerTypeOK, RefreshesForget, Begin
<1>5. AnswersKept'
  <2>1. call'[c].answer = NoCall /\ call'[c].at # "answered" /\ c \notin computed
    BY <1>1 DEF SchedulerInv, OneRuns, AnswersKept, Begin
  <2>2. \A e \in Calls \ {c} : call'[e] = call[e] /\ earlier'[e] = earlier[e]
    BY <1>1 DEF SchedulerInv, SchedulerTypeOK, Begin
  <2>3. \A e \in Calls : call[e].answer # NoCall => call[e].answer \in Calls \ {c}
    BY <2>1 DEF SchedulerInv, SchedulerTypeOK, AnswersKept
  <2>4. ASSUME NEW e \in Calls, e # c, call[e].answer # NoCall
        PROVE  /\ call[e].at \in {"close", "answered"}
               /\ call[e].answer \in computed
               /\ call'[call'[e].answer].date = call[e].date
               /\ call[e].kind = "refresh" => call[e].answer \notin earlier[e]
    <3>1. call'[call'[e].answer] = call[call[e].answer]
      BY <2>2, <2>3, <2>4
    <3> QED BY <2>4, <3>1 DEF SchedulerInv, AnswersKept
  <2>5. ASSUME NEW e \in Calls, e # c, call[e].at = "answered" PROVE call[e].answer # NoCall
    BY <2>5 DEF SchedulerInv, AnswersKept
  <2>6. computed' = computed
    BY DEF Begin
  <2> QED BY <2>1, <2>2, <2>4, <2>5, <2>6 DEF AnswersKept
<1>6. IsFiniteSet(Begun)'
  <2>1. Begun' = Begun \union {c}
    BY <1>1 DEF Begun
  <2> QED BY <2>1, FS_AddElement DEF SchedulerInv
<1>7. SuccessesCounted'
  <2>1. Dropped' = Dropped
    BY <1>1 DEF Dropped, Begin, Kinds
  <2>2. \A d : OneDay(d)' => OneDay(d)
    <3>1. \A e \in Begun : e \in Begun' /\ call'[e] = call[e]
      BY <1>1 DEF Begun, Begin
    <3>2. \A d : (\A e \in Begun' : call'[e].date = d) => (\A e \in Begun : call[e].date = d)
      BY <3>1
    <3> QED BY <3>2 DEF OneDay
  <2> QED BY <2>1, <2>2 DEF SchedulerInv, SuccessesCounted, Begin
<1> QED BY <1>2, <1>3, <1>4, <1>5, <1>6, <1>7 DEF SchedulerInv

\* A Refresh drops the cache; from now on it is counted.
LEMMA DropStep ==
    ASSUME SchedulerInv, NEW c \in Calls, Drop(c)
    PROVE  SchedulerInv'
<1> USE DigestSchedulerAssumption
<1>1. SchedulerTypeOK'
  BY DEF SchedulerInv, SchedulerTypeOK, Drop, MoveTo
<1>2. OneRuns' /\ CacheDated'
  BY DEF SchedulerInv, SchedulerTypeOK, OneRuns, CacheDated, Drop, MoveTo
<1>3. RefreshesForget'
  BY DEF SchedulerInv, SchedulerTypeOK, RefreshesForget, Drop, MoveTo
<1>4. AnswersKept'
  BY DEF SchedulerInv, SchedulerTypeOK, AnswersKept, Drop, MoveTo
<1>5. Begun' = Begun
  BY DEF SchedulerInv, SchedulerTypeOK, Begun, Drop, MoveTo
<1>6. SuccessesCounted'
  <2>1. Dropped' = Dropped \union {c} /\ c \notin Dropped
    BY DEF SchedulerInv, SchedulerTypeOK, RefreshesForget, Dropped, Drop, MoveTo
  <2>2. Cardinality(Dropped') = Cardinality(Dropped) + 1
    BY <2>1, CountsFinite, FS_AddElement
  <2>3. \A d : OneDay(d)' => OneDay(d)
    BY <1>5 DEF SchedulerInv, SchedulerTypeOK, OneDay, Begun, Drop, MoveTo
  <2>4. \A d \in 0..MaxDay : OneDay(d) => Cardinality(computed) <= Cardinality(Dropped) + 1
    BY CountsFinite DEF SchedulerInv, SuccessesCounted
  <2> QED BY <2>2, <2>3, <2>4, CountsFinite DEF SchedulerInv, SuccessesCounted, Drop
<1> QED BY <1>1, <1>2, <1>3, <1>4, <1>5, <1>6 DEF SchedulerInv

\* A call finds the cache warm, joins the running compute or runs its own.
LEMMA AwaitStep ==
    ASSUME SchedulerInv, NEW c \in Calls, Await(c)
    PROVE  SchedulerInv'
<1> USE DigestSchedulerAssumption
<1>1. SchedulerTypeOK'
  BY DEF SchedulerInv, SchedulerTypeOK, Await, MoveTo, Answer, Ended
<1>2. OneRuns'
  BY DEF SchedulerInv, SchedulerTypeOK, OneRuns, Await, MoveTo, Answer, Running
<1>3. CacheDated'
  BY DEF SchedulerInv, SchedulerTypeOK, CacheDated, Await, MoveTo, Answer
<1>4. RefreshesForget'
  BY DEF SchedulerInv, SchedulerTypeOK, RefreshesForget, Await, MoveTo, Answer
<1>5. AnswersKept'
  BY DEF SchedulerInv, SchedulerTypeOK, RefreshesForget, CacheDated, AnswersKept, Await, MoveTo, Answer, Warm
<1>6. SuccessesCounted' /\ IsFiniteSet(Begun)'
  <2>1. /\ Begun' = Begun /\ Dropped' = Dropped
        /\ \A d : OneDay(d)' <=> OneDay(d)
    <3>1. /\ \A e \in Calls \ {c} : call'[e] = call[e]
          /\ call'[c].kind = call[c].kind /\ call'[c].date = call[c].date
          /\ call[c].at \notin {"idle", "drop"} /\ call'[c].at \notin {"idle", "drop"}
      BY DEF SchedulerInv, SchedulerTypeOK, Await, MoveTo, Answer
    <3> QED BY <3>1, MovedOn
  <2>2. ASSUME NEW d \in 0..MaxDay, OneDay(d), inFlight' # NoCall PROVE cached = NoCall
    <3>1. CASE inFlight # NoCall
      BY <2>2, <3>1 DEF SchedulerInv, SuccessesCounted
    <3>2. CASE inFlight = NoCall
      <4>1. ~Warm(c)
        BY <2>2, <3>2 DEF Await
      <4>2. call[c].date = d
        BY <2>2 DEF Await, OneDay, Begun
      <4>3. cached # NoCall => cachedDate = d
        BY <2>2 DEF SchedulerInv, SchedulerTypeOK, OneRuns, CacheDated, OneDay, Begun
      <4> QED BY <4>1, <4>2, <4>3 DEF Warm
    <3> QED BY <3>1, <3>2
  <2>3. UNCHANGED <<cached, cachedDate, computed>>
    BY DEF Await
  <2> QED BY <2>1, <2>2, <2>3 DEF SchedulerInv, SuccessesCounted
<1> QED BY <1>1, <1>2, <1>3, <1>4, <1>5, <1>6 DEF SchedulerInv

\* The compute ends: its success is the one that is cached.
LEMMA EndComputeStep ==
    ASSUME SchedulerInv, NEW c \in Calls, EndCompute(c)
    PROVE  SchedulerInv'
<1> USE DigestSchedulerAssumption
<1>1. inFlight = c /\ inFlight' = NoCall /\ c \notin computed
  BY DEF SchedulerInv, OneRuns, EndCompute
<1>2. SchedulerTypeOK'
  BY DEF SchedulerInv, SchedulerTypeOK, EndCompute, MoveTo
<1>3. OneRuns'
  BY <1>1 DEF SchedulerInv, SchedulerTypeOK, OneRuns, EndCompute, MoveTo
<1>4. CacheDated'
  BY <1>1 DEF SchedulerInv, SchedulerTypeOK, CacheDated, EndCompute, MoveTo
<1>5. RefreshesForget'
  BY <1>1 DEF SchedulerInv, SchedulerTypeOK, RefreshesForget, EndCompute, MoveTo
<1>6. AnswersKept'
  BY <1>1 DEF SchedulerInv, SchedulerTypeOK, RefreshesForget, AnswersKept, EndCompute, MoveTo
<1>7. SuccessesCounted' /\ IsFiniteSet(Begun)'
  <2>1. /\ Begun' = Begun /\ Dropped' = Dropped
        /\ \A d : OneDay(d)' <=> OneDay(d)
    <3>1. /\ \A e \in Calls \ {c} : call'[e] = call[e]
          /\ call'[c].kind = call[c].kind /\ call'[c].date = call[c].date
          /\ call[c].at \notin {"idle", "drop"} /\ call'[c].at \notin {"idle", "drop"}
      BY DEF SchedulerInv, SchedulerTypeOK, EndCompute, MoveTo
    <3> QED BY <3>1, MovedOn
  <2>2. ASSUME NEW d \in 0..MaxDay, OneDay(d)
        PROVE  Cardinality(computed') <= Cardinality(Dropped) + (IF cached' = NoCall THEN 0 ELSE 1)
    <3>1. cached = NoCall /\ Cardinality(computed) <= Cardinality(Dropped)
      BY <1>1, <2>2, CountsFinite DEF SchedulerInv, SuccessesCounted
    <3>2. CASE cached' = c /\ computed' = computed \union {c}
      <4>1. Cardinality(computed') = Cardinality(computed) + 1
        BY <1>1, <3>2, CountsFinite, FS_AddElement
      <4> QED BY <3>1, <3>2, <4>1, CountsFinite
    <3>3. CASE UNCHANGED <<cached, computed>>
      BY <3>1, <3>3, CountsFinite
    <3> QED BY <3>2, <3>3 DEF EndCompute
  <2> QED BY <1>1, <2>1, <2>2 DEF SchedulerInv, SuccessesCounted
<1> QED BY <1>2, <1>3, <1>4, <1>5, <1>6, <1>7 DEF SchedulerInv

\* Midnight changes the date only.
LEMMA MidnightStep ==
    ASSUME SchedulerInv, Midnight
    PROVE  SchedulerInv'
<1>1. SchedulerTypeOK'
  BY DigestSchedulerAssumption DEF SchedulerInv, SchedulerTypeOK, Midnight
<1> QED
  BY <1>1 DEF SchedulerInv, Midnight, OneRuns, CacheDated, RefreshesForget, AnswersKept,
              SuccessesCounted, OneDay, Begun, Dropped

\* Every step keeps the invariant.
LEMMA SchedulerStep == SchedulerInv /\ [SchedulerNext]_schedulerVars => SchedulerInv'
<1> SUFFICES ASSUME SchedulerInv, [SchedulerNext]_schedulerVars PROVE SchedulerInv'
  OBVIOUS
<1>1. ASSUME NEW c \in Calls, Step(c) PROVE SchedulerInv'
  BY <1>1, QuietStep, DropStep, AwaitStep, EndComputeStep DEF Step
<1>2. CASE UNCHANGED schedulerVars
  BY <1>2 DEF schedulerVars, SchedulerInv, SchedulerTypeOK, OneRuns, CacheDated, RefreshesForget, AnswersKept,
              SuccessesCounted, OneDay, Begun, Dropped
<1> QED BY <1>1, <1>2, BeginStep, MidnightStep DEF SchedulerNext
-----------------------------------------------------------------------------

\* The invariant holds in every reachable state of the scheduler.
THEOREM SchedulerInvariant == SchedulerSpec => []SchedulerInv
<1>1. SchedulerInit => SchedulerInv
  BY SchedulerInitial
<1>2. SchedulerInv /\ [SchedulerNext]_schedulerVars => SchedulerInv'
  BY SchedulerStep
<1> QED BY <1>1, <1>2, PTL DEF SchedulerSpec

\* The invariant implies the two safety properties.
LEMMA SchedulerSafe == SchedulerInv => NoDuplicateRun /\ AnswersCurrent
<1> SUFFICES ASSUME SchedulerInv PROVE NoDuplicateRun /\ AnswersCurrent
  OBVIOUS
<1>1. Cardinality({c \in Calls : call[c].at = "compute"}) <= 1
  <2>1. {c \in Calls : call[c].at = "compute"} \subseteq {inFlight}
    BY DEF SchedulerInv, OneRuns
  <2>2. IsFiniteSet({inFlight}) /\ Cardinality({inFlight}) = 1
    BY FS_Singleton
  <2> QED BY <2>1, <2>2, FS_Subset
<1>2. ASSUME NEW d \in 0..MaxDay, \A c \in Calls : call[c].at # "idle" => c \in Asked(d)
      PROVE  Cardinality(computed) <= 1 + Cardinality(Refreshes(d))
  <2>1. OneDay(d)
    BY <1>2 DEF OneDay, Begun, Asked
  <2>2. Cardinality(computed) <= Cardinality(Dropped) + 1
    BY <2>1, CountsFinite DEF SchedulerInv, SuccessesCounted
  <2>3. Dropped \subseteq Refreshes(d) /\ Refreshes(d) \subseteq Begun
    BY <2>1 DEF OneDay, Begun, Dropped, Refreshes, Asked
  <2>4. Cardinality(Dropped) <= Cardinality(Refreshes(d)) /\ Cardinality(Refreshes(d)) \in Nat
    BY <2>3, FS_Subset, FS_CardinalityType DEF SchedulerInv
  <2> QED BY <2>2, <2>4, CountsFinite
<1>3. AnswersCurrent
  BY DEF SchedulerInv, AnswersKept, AnswersCurrent
<1> QED BY <1>1, <1>2, <1>3 DEF NoDuplicateRun

\* At most one compute runs, and on a day each success is the cached one or
\* was dropped by a Refresh of its own.
THEOREM SchedulerRunsOnce == SchedulerSpec => []NoDuplicateRun
BY SchedulerInvariant, SchedulerSafe, PTL

\* An answer was computed for the caller's day, and a Refresh's is newer than
\* the Refresh.
THEOREM SchedulerAnswersCurrent == SchedulerSpec => []AnswersCurrent
BY SchedulerInvariant, SchedulerSafe, PTL
=============================================================================
