--------------------------- MODULE DigestArtifact ---------------------------
(***************************************************************************)
(* POST /api/private/digests/{date} (internal/digestartifact): get or      *)
(* create the Digest of a day.  Requests run concurrently, for the same    *)
(* day or for days in any order; each reads its window and its candidates  *)
(* in two statements, waits minutes for the frontier model, and saves with *)
(* INSERT ... ON CONFLICT DO NOTHING.  Articles meanwhile become complete: *)
(* enriched_at is the start of the UPDATE, which a reader sees only once   *)
(* it has committed.  All times are the database's clock.                  *)
(***************************************************************************)
EXTENDS Integers, FiniteSets

CONSTANTS
    Articles,
    Days,           \* digest dates, in order
    Requests,       \* request goroutines that can be in flight at once
    Lookback,       \* FallbackLookback, in ticks
    MaxItems,       \* the most items a Digest may have
    MaxTime,        \* bound on the clock
    None

ASSUME DigestArtifactAssumption ==
    /\ Days \subseteq Nat
    /\ Lookback \in Nat \ {0}
    /\ MaxItems \in Nat \ {0}
    /\ MaxTime \in Nat

VARIABLES
    now,        \* LOCALTIMESTAMP
    enriched,   \* [Articles -> enriched_at and the time it became visible]
    digest,     \* [Days -> row of digest_artifacts, or None]
    savedAt,    \* [Days -> created_at of that row]
    request,    \* [Requests -> the locals of ForDate and where it is]
    scored,     \* history: [Days -> the artifacts whose `selected` scores were sent]
    raced,      \* history: days for which a Save met the row of another request
    cut         \* history: days saved by a request that ended before its scores

scores == <<scored, raced, cut>>
vars == <<now, enriched, digest, savedAt, request, scores>>

Times == 0..MaxTime
Stamps == Times \union {None}
\* The earliest window begins Lookback before the clock's start.
Bounds == (-Lookback)..MaxTime

\* pool: the candidates (CandidateCount is their number); items: the selected.
Artifacts == [items: SUBSET Articles, pool: SUBSET Articles, start: Bounds, end: Times]
NoArtifact == [items |-> {}, pool |-> {}, start |-> 0, end |-> 0]

\* None is no row: no artifact, no list of items and no time.
ASSUME NoneAssumption ==
    /\ None \notin Artifacts /\ None \notin Times
    /\ \A items \in SUBSET Articles : items # None

Places == {"idle", "find", "window", "candidates", "select", "save", "refind",
           "score", "reply", "failed"}

Idle == [at |-> "idle", day |-> None, made |-> NoArtifact, reply |-> None]

TypeOK ==
    /\ now \in Times
    /\ enriched \in [Articles -> [at: Stamps, visible: Stamps]]
    /\ digest \in [Days -> Artifacts \union {None}]
    /\ savedAt \in [Days -> Stamps]
    /\ request \in [Requests ->
                      [at: Places, day: Days \union {None}, made: Artifacts,
                       reply: Artifacts \union {None}]]
    /\ \A r \in Requests : request[r].at # "idle" => request[r].day \in Days
    /\ scored \in [Days -> SUBSET Artifacts] /\ raced \subseteq Days /\ cut \subseteq Days

Init ==
    /\ now = 0
    /\ enriched = [a \in Articles |-> [at |-> None, visible |-> None]]
    /\ digest = [d \in Days |-> None]
    /\ savedAt = [d \in Days |-> None]
    /\ request = [r \in Requests |-> Idle]
    /\ scored = [d \in Days |-> {}] /\ raced = {} /\ cut = {}

-----------------------------------------------------------------------------
(* The database's clock, and Enrichment beside the Digest *)

Tick ==
    /\ now < MaxTime
    /\ now' = now + 1
    /\ UNCHANGED <<enriched, digest, savedAt, request, scores>>

\* Complete's UPDATE starts: enriched_at = NOW().
StartEnriched(a) ==
    /\ enriched[a].at = None
    /\ enriched' = [enriched EXCEPT ![a].at = now]
    /\ UNCHANGED <<now, digest, savedAt, request, scores>>

\* It commits.
CommitEnriched(a) ==
    /\ enriched[a].at # None /\ enriched[a].visible = None
    /\ enriched' = [enriched EXCEPT ![a].visible = now]
    /\ UNCHANGED <<now, digest, savedAt, request, scores>>

-----------------------------------------------------------------------------
(* One request *)

Day(r) == request[r].day
Made(r) == request[r].made

Goto(r, place) == request' = [request EXCEPT ![r].at = place]

\* The request goes on without what it has made itself.
Forget(r, place, reply) ==
    request' = [request EXCEPT ![r] = [Idle EXCEPT !.at = place, !.day = Day(r),
                                                   !.reply = reply]]

Answer(r, reply) == Forget(r, "reply", reply)

Receive(r, d) ==
    /\ request[r].at = "idle"
    /\ request' = [request EXCEPT ![r] = [Idle EXCEPT !.at = "find", !.day = d]]
    /\ UNCHANGED <<now, enriched, digest, savedAt, scores>>

\* Any statement or the model call may fail, or the client may hang up.
Break(r) ==
    /\ request[r].at \in Places \ {"idle", "score", "reply", "failed"}
    /\ Forget(r, "failed", None)
    /\ UNCHANGED <<now, enriched, digest, savedAt, scores>>

\* store.Find: a saved Digest is the answer.
FindSaved(r) ==
    /\ request[r].at = "find"
    /\ IF digest[Day(r)] # None
       THEN Answer(r, digest[Day(r)])
       ELSE Goto(r, "window")
    /\ UNCHANGED <<now, enriched, digest, savedAt, scores>>

\* The ends of the windows of the Digests saved for earlier dates.
EarlierEnds(d) == {digest[e].end : e \in {f \in Days : f < d /\ digest[f] # None}}

Latest(S) == CHOOSE t \in S : \A s \in S : s <= t

\* Mutation: the window is always the fallback lookback.
WindowFallback(d) == now - Lookback

\* GREATEST(MAX(window_end) of earlier dates, LOCALTIMESTAMP - lookback).
WindowStart(d) == Latest(EarlierEnds(d) \union {now - Lookback})

\* Candidates' first statement.
Window(r) ==
    /\ request[r].at = "window"
    /\ request' = [request EXCEPT ![r].at = "candidates",
                     ![r].made.start = WindowStart(Day(r)), ![r].made.end = now]
    /\ UNCHANGED <<now, enriched, digest, savedAt, scores>>

\* Mutation: the window's first instant is left out.
WithinOpen(made, t) == made.start < t /\ t < made.end

Within(made, t) == made.start <= t /\ t < made.end

\* The rows its second statement sees: complete, enriched in [start, end).
Pool(r) == {a \in Articles : enriched[a].visible # None /\ Within(Made(r), enriched[a].at)}

Candidates(r) ==
    /\ request[r].at = "candidates"
    /\ request' = [request EXCEPT ![r].at = "select", ![r].made.pool = Pool(r)]
    /\ UNCHANGED <<now, enriched, digest, savedAt, scores>>

\* uniqueAndDiverse and frontier.Select: some of the candidates, perhaps none.
\* An empty Digest is answered at once and never saved.
Select(r) ==
    /\ request[r].at = "select"
    /\ \E items \in SUBSET Made(r).pool :
          LET made == [Made(r) EXCEPT !.items = items]
          IN  /\ Cardinality(items) <= MaxItems
              /\ IF items = {}
                 THEN Answer(r, made)
                 ELSE request' = [request EXCEPT ![r].made = made, ![r].at = "save"]
    /\ UNCHANGED <<now, enriched, digest, savedAt, scores>>

Insert(r) ==
    /\ digest' = [digest EXCEPT ![Day(r)] = Made(r)]
    /\ savedAt' = [savedAt EXCEPT ![Day(r)] = now]

\* Mutation: ON CONFLICT DO UPDATE.
InsertsAlways(d) == TRUE

Inserts(d) == digest[d] = None

\* Save answers its own row, or what Find returns, with TRUE: compute takes
\* either for the Digest it created, and goes on to the scores.
Created(r, saved) ==
    request' = [request EXCEPT ![r].at = "score", ![r].reply = saved]

\* store.Save: INSERT ... ON CONFLICT (digest_date) DO NOTHING RETURNING id.
Save(r) ==
    /\ request[r].at = "save"
    /\ IF Inserts(Day(r))
       THEN Insert(r) /\ Created(r, Made(r)) /\ UNCHANGED raced
       ELSE Goto(r, "refind") /\ raced' = raced \union {Day(r)} /\ UNCHANGED <<digest, savedAt>>
    /\ UNCHANGED <<now, enriched, scored, cut>>

\* The INSERT reports an error although the row was saved.
SaveUnseen(r) ==
    /\ request[r].at = "save"
    /\ Inserts(Day(r))
    /\ Insert(r)
    /\ Forget(r, "failed", None)
    /\ cut' = cut \union {Day(r)}
    /\ UNCHANGED <<now, enriched, scored, raced>>

\* The loser of the race reads what the winner saved, and keeps what it made.
Refind(r) ==
    /\ request[r].at = "refind"
    /\ Created(r, digest[Day(r)])
    /\ UNCHANGED <<now, enriched, digest, savedAt, scores>>

\* scoreSelected: the candidates and the selection of this request, whether
\* or not they are the Digest that was saved and that it answers.
ScoreSelected(r) ==
    /\ request[r].at = "score"
    /\ scored' = [scored EXCEPT ![Day(r)] = @ \union {Made(r)}]
    /\ Answer(r, request[r].reply)
    /\ UNCHANGED <<now, enriched, digest, savedAt, raced, cut>>

Finish(r) ==
    /\ request[r].at \in {"reply", "failed"}
    /\ request' = [request EXCEPT ![r] = Idle]
    /\ UNCHANGED <<now, enriched, digest, savedAt, scores>>

\* The process dies and is restarted.
Crash ==
    /\ request' = [r \in Requests |-> Idle]
    /\ cut' = cut \union {Day(r) : r \in {q \in Requests : request[q].at = "score"}}
    /\ UNCHANGED <<now, enriched, digest, savedAt, scored, raced>>

RequestStep(r) ==
    \/ Break(r) \/ FindSaved(r) \/ Window(r) \/ Candidates(r) \/ Select(r)
    \/ Save(r) \/ SaveUnseen(r) \/ Refind(r) \/ ScoreSelected(r) \/ Finish(r)

Next ==
    \/ Tick
    \/ \E a \in Articles : StartEnriched(a) \/ CommitEnriched(a)
    \/ \E r \in Requests, d \in Days : Receive(r, d)
    \/ \E r \in Requests : RequestStep(r)
    \/ Crash

Spec == Init /\ [][Next]_vars

-----------------------------------------------------------------------------
(* Properties *)

\* The store as its callers see it: an artifact stands for its items, and a
\* request is under way until it is answered or fails.
Items(artifact) == IF artifact = None THEN None ELSE artifact.items
View(local) ==
    [at |-> IF local.at \in {"idle", "reply", "failed"} THEN local.at ELSE "working",
     day |-> local.day,
     reply |-> IF local.at = "reply" THEN Items(local.reply) ELSE None]
DigestsSeen == [d \in Days |-> Items(digest[d])]
RequestsSeen == [r \in Requests |-> View(request[r])]

\* Refinement: get-or-create as the callers see it.  One Digest is saved for
\* a day and never changes (handler.go: "the immutable artifact for a day"),
\* and a request answers with it or with an empty one, whatever was being
\* computed when it was saved.
Promise == INSTANCE DigestStore
             WITH Artifacts <- {S \in SUBSET Articles : Cardinality(S) <= MaxItems},
                  EmptyOnes <- {{}},
                  digest <- DigestsSeen,
                  request <- RequestsSeen
ImplementsStore == Promise!Spec

\* Safety, and false of the code: the `selected` score of a candidate says
\* whether the saved Digest chose it.  The loser of a race scores by its own
\* selection, as Save reports the row it found as created.
ScoresFollowDigest ==
    \A d \in Days : \A made \in scored[d] :
        \A a \in made.pool : a \in made.items <=> a \in digest[d].items

\* A request is about to send the scores of the Digest saved for d.
Scoring(r, d) == request[r].at = "score" /\ Day(r) = d /\ Made(r) = digest[d]

\* Safety: what the scores may get wrong.  There are none without a saved
\* Digest; where no two requests raced for the day they are the Digest's own;
\* and the Digest's are sent, about to be sent, or lost with the request that
\* saved it, as nobody sends them later.
ScoresAccounted ==
    \A d \in Days :
        IF digest[d] = None
        THEN scored[d] = {}
        ELSE /\ scored[d] \subseteq {digest[d]} \/ d \in raced
             /\ digest[d] \in scored[d] \/ d \in cut \/ \E r \in Requests : Scoring(r, d)

\* Safety: an Article is in the Digests of two dates only when the later
\* date's window was read before the earlier date's Digest was saved.
NoRepeat ==
    \A d, e \in Days :
        /\ d < e /\ digest[d] # None /\ digest[e] # None
        /\ digest[d].items \intersect digest[e].items # {}
        => digest[e].end <= savedAt[d]

\* Enriched and visible at one instant of the clock.
Prompt(a) == enriched[a].visible # None /\ enriched[a].visible = enriched[a].at

\* Safety: no Article falls between two Digests.  Once a Digest's window has
\* passed an Article by less than the lookback, the Article was a candidate
\* of that Digest or of an earlier one, in whatever order the days were
\* computed and however long the model took.
NothingSkipped ==
    \A a \in Articles, d \in Days :
        /\ digest[d] # None
        /\ Prompt(a)
        /\ digest[d].end - Lookback <= enriched[a].at
        /\ enriched[a].at < digest[d].end
        => \E e \in Days : digest[e] # None /\ a \in digest[e].pool
=============================================================================
