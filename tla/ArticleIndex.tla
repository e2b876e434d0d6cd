---------------------------- MODULE ArticleIndex ----------------------------
(***************************************************************************)
(* POST /api/private/articles/enrich (internal/articleindex): concurrent   *)
(* HTTP handlers claim a row of article_index by canonical URL, enrich it  *)
(* and record the outcome.  A handler is a goroutine whose calls all take  *)
(* the request's context, so a client that hangs up makes every later call *)
(* fail, the write of the failure included; the process may crash between  *)
(* any two calls; a database call may fail after or before its effect.     *)
(***************************************************************************)
EXTENDS Integers

CONSTANTS
    Urls,           \* canonical URLs
    Handlers,       \* handler goroutines that can be in flight at once
    ModelScores,    \* integers the scoring model may answer
    None            \* "no URL", "no reply", "no summary"

\* processing_status; "absent" means there is no row.
Statuses == {"absent", "processing", "complete", "failed"}

ASSUME ArticleIndexAssumption ==
    /\ ModelScores \subseteq Int
    /\ None \notin Urls \union Statuses \union {"structured", "lead", "created"}

VARIABLES
    article,        \* [Urls -> row of article_index]
    handler,        \* [Handlers -> the locals of Process and where it is]
    cancelled,      \* handlers whose request context is cancelled
    modelRuns,      \* history: how many handlers put each URL to the model
    interrupted     \* history: URLs whose enrichment lost its handler, or
                    \* whose outcome could not be written

vars == <<article, handler, cancelled, modelRuns, interrupted>>

Summaries == {"structured", "lead", None}

\* Where Process stands: the call it makes next.
Owning == {"content", "preferences", "summarize", "categorize", "score",
           "complete", "fail"}
Places == {"idle", "create", "lookup", "reply"} \union Owning

\* The response: 201, 200 with the status that was read, 400 or 500.
Replies == {None, "created", "invalid", "error"} \union Statuses

Idle == [at |-> "idle", url |-> None, summary |-> None, score |-> 0,
         reply |-> None]

Rows == [status: Statuses, summary: Summaries, score: Int]
Locals == [at: Places, url: Urls \union {None}, summary: Summaries, score: Int,
           reply: Replies]

TypeOK ==
    /\ article \in [Urls -> Rows]
    /\ handler \in [Handlers -> Locals]
    /\ \A h \in Handlers : handler[h].at # "idle" => handler[h].url \in Urls
    /\ cancelled \subseteq Handlers
    /\ modelRuns \in [Urls -> Nat]
    /\ interrupted \subseteq Urls

Init ==
    /\ article = [u \in Urls |->
                    [status |-> "absent", summary |-> None, score |-> 0]]
    /\ handler = [h \in Handlers |-> Idle]
    /\ cancelled = {}
    /\ modelRuns = [u \in Urls |-> 0]
    /\ interrupted = {}

-----------------------------------------------------------------------------
(* Steps of one handler *)

Url(h) == handler[h].url

Goto(h, place) == handler' = [handler EXCEPT ![h].at = place]

Answer(h, reply) ==
    handler' = [handler EXCEPT ![h].at = "reply", ![h].reply = reply]

\* The handler owns the row of its URL: its INSERT created it.
Owns(h) == handler[h].at \in Owning

\* The response 400 needs no database; a valid request goes on to Create.
Receive(h, u, valid) ==
    /\ handler[h].at = "idle"
    /\ handler' = [handler EXCEPT ![h] =
                    [Idle EXCEPT !.url = u,
                                 !.at = IF valid THEN "create" ELSE "reply",
                                 !.reply = IF valid THEN None ELSE "invalid"]]
    /\ UNCHANGED <<article, cancelled, modelRuns, interrupted>>

InsertRow(u) == article' = [article EXCEPT ![u].status = "processing"]

\* Mutation: ON CONFLICT DO UPDATE, so every unfinished row is claimed anew.
Unfinished(u) == article[u].status # "complete"

Unclaimed(u) == article[u].status = "absent"

\* INSERT ... ON CONFLICT (canonical_url) DO NOTHING RETURNING id.
Create(h) ==
    /\ handler[h].at = "create"
    /\ h \notin cancelled
    /\ IF Unclaimed(Url(h))
       THEN InsertRow(Url(h)) /\ Goto(h, "content")
       ELSE Goto(h, "lookup") /\ UNCHANGED article
    /\ UNCHANGED <<cancelled, modelRuns, interrupted>>

\* The INSERT reports an error; the row may have been created all the same.
CreateFails(h) ==
    /\ handler[h].at = "create"
    /\ Answer(h, "error")
    /\ \/ /\ h \notin cancelled
          /\ Unclaimed(Url(h))
          /\ InsertRow(Url(h))
          /\ interrupted' = interrupted \union {Url(h)}
       \/ UNCHANGED <<article, interrupted>>
    /\ UNCHANGED <<cancelled, modelRuns>>

\* The second statement of Create, for a URL some other request claimed.
Lookup(h) ==
    /\ handler[h].at = "lookup"
    /\ \/ h \notin cancelled /\ Answer(h, article[Url(h)].status)
       \/ Answer(h, "error")
    /\ UNCHANGED <<article, cancelled, modelRuns, interrupted>>

\* Bridge content, the fetched page or the feed's own content; none of the
\* three is the error path.  Bridge and feed content need no live context.
Content(h) ==
    /\ handler[h].at = "content"
    /\ Goto(h, "preferences") \/ Goto(h, "fail")
    /\ UNCHANGED <<article, cancelled, modelRuns, interrupted>>

ReadPreferences(h) ==
    /\ handler[h].at = "preferences"
    /\ \/ h \notin cancelled /\ Goto(h, "summarize")
       \/ Goto(h, "fail")
    /\ UNCHANGED <<article, cancelled, modelRuns, interrupted>>

\* A model error or an unusable answer degrades to the lead extract.
Summarize(h) ==
    /\ handler[h].at = "summarize"
    /\ \E s \in IF h \in cancelled THEN {"lead"} ELSE {"structured", "lead"} :
          handler' = [handler EXCEPT ![h].at = "categorize", ![h].summary = s]
    /\ modelRuns' = [modelRuns EXCEPT ![Url(h)] = @ + 1]
    /\ UNCHANGED <<article, cancelled, interrupted>>

Categorize(h) ==
    /\ handler[h].at = "categorize"
    /\ \/ h \notin cancelled /\ Goto(h, "score")
       \/ Goto(h, "fail")
    /\ UNCHANGED <<article, cancelled, modelRuns, interrupted>>

\* Mutation: the range check is off by one at both ends.
OffByOne(n) == n < 0 \/ n > 6

OutOfRange(n) == n < 1 \/ n > 5

\* Mutation: an out-of-range Score is returned as an error but not recorded.
Unrecorded(h) == Answer(h, "error")

Refuse(h) == Goto(h, "fail")

Score(h) ==
    /\ handler[h].at = "score"
    /\ \/ /\ h \notin cancelled
          /\ \E n \in ModelScores :
                IF OutOfRange(n)
                THEN Refuse(h)
                ELSE handler' = [handler EXCEPT ![h].at = "complete", ![h].score = n]
       \/ Goto(h, "fail")
    /\ UNCHANGED <<article, cancelled, modelRuns, interrupted>>

\* Mutation: the error of store.Complete is dropped.
AlwaysCreated(reported) == "created"

Completion(reported) == IF reported THEN "created" ELSE "error"

\* store.Complete; its error is returned without a call of fail.
Complete(h) ==
    /\ handler[h].at = "complete"
    /\ \E applied, reported \in BOOLEAN :
          /\ h \in cancelled => ~applied
          /\ reported => applied
          /\ Answer(h, Completion(reported))
          /\ article' = IF applied
                        THEN [article EXCEPT ![Url(h)] =
                                [status |-> "complete", score |-> handler[h].score,
                                 summary |-> handler[h].summary]]
                        ELSE article
          /\ interrupted' = interrupted \union (IF applied THEN {} ELSE {Url(h)})
    /\ UNCHANGED <<cancelled, modelRuns>>

FailedStatus == "failed"

\* fail: the client sees a 500 whether or not the row could be updated.
Fail(h) ==
    /\ handler[h].at = "fail"
    /\ Answer(h, "error")
    /\ \/ /\ h \notin cancelled
          /\ article' = [article EXCEPT ![Url(h)].status = FailedStatus]
          /\ UNCHANGED interrupted
       \/ /\ interrupted' = interrupted \union {Url(h)}
          /\ UNCHANGED article
    /\ UNCHANGED <<cancelled, modelRuns>>

\* The response leaves and the goroutine ends.
Finish(h) ==
    /\ handler[h].at = "reply"
    /\ handler' = [handler EXCEPT ![h] = Idle]
    /\ cancelled' = cancelled \ {h}
    /\ UNCHANGED <<article, modelRuns, interrupted>>

-----------------------------------------------------------------------------
(* The environment *)

\* The client hangs up, or its HTTP timeout fires.
Cancel(h) ==
    /\ handler[h].at # "idle"
    /\ cancelled' = cancelled \union {h}
    /\ UNCHANGED <<article, handler, modelRuns, interrupted>>

\* The process dies and is restarted; the database stays.
Crash ==
    /\ handler' = [h \in Handlers |-> Idle]
    /\ cancelled' = {}
    /\ interrupted' = interrupted \union {Url(h) : h \in {g \in Handlers : Owns(g)}}
    /\ UNCHANGED <<article, modelRuns>>

HandlerStep(h) ==
    \/ Create(h) \/ CreateFails(h) \/ Lookup(h)
    \/ Content(h) \/ ReadPreferences(h) \/ Summarize(h)
    \/ Categorize(h) \/ Score(h) \/ Complete(h) \/ Fail(h)
    \/ Finish(h)

Next ==
    \/ \E h \in Handlers : HandlerStep(h) \/ Cancel(h)
    \/ \E h \in Handlers, u \in Urls, valid \in BOOLEAN : Receive(h, u, valid)
    \/ Crash

\* Every call a handler makes is bounded (fetch and model timeouts), so a
\* handler that has started goes on.  Nothing makes requests arrive.
Fairness == \A h \in Handlers : WF_vars(HandlerStep(h))

Spec == Init /\ [][Next]_vars /\ Fairness

-----------------------------------------------------------------------------
(* Properties *)

\* Safety: two requests for one URL, in whatever order their statements run,
\* are never both past the claim (service.go: the comment on Store.Create
\* calls it "the idempotency boundary before any model call").
OneOwner ==
    \A g, h \in Handlers :
        Owns(g) /\ Owns(h) /\ Url(g) = Url(h) => g = h

\* Safety: a row is left in 'processing' with nobody working on it only when
\* its handler was killed, its client hung up or the database refused the
\* outcome: no error path of enrich returns without recording the failure.
OrphansExplained ==
    \A u \in Urls :
        article[u].status = "processing" =>
            \/ u \in interrupted
            \/ \E h \in Handlers : Owns(h) /\ Url(h) = u

ReplyTruthful(h) ==
    /\ handler[h].reply = "created" => article[Url(h)].status = "complete"
    /\ handler[h].reply \in {"complete", "failed"} =>
          article[Url(h)].status = handler[h].reply
    /\ handler[h].reply # "absent"

\* Safety: what a response says of the row is true when it is sent: 201 only
\* for an enriched row, and a 200 that repeats an outcome repeats the final
\* one, however late the response leaves after the row was read.
RepliesTruthful == \A h \in Handlers : ReplyTruthful(h)

\* Safety: every complete row has what the Digest's selection reads: a Score
\* from 1 to 5, whatever the model answered, and a Summary even if the model
\* gave none (ADR-0009's lead extract).
CompleteUsable ==
    \A u \in Urls :
        article[u].status = "complete" =>
            article[u].score \in 1..5 /\ article[u].summary # None

\* Refinement: claims, model runs and outcomes follow EnrichmentLifecycle, so
\* a URL is put to the model at most once for ever and an outcome is final,
\* across concurrent duplicates, cancelled requests and restarts.
Lifecycle == INSTANCE EnrichmentLifecycle
                WITH status <- [u \in Urls |-> article[u].status]
ImplementsLifecycle == Lifecycle!Spec

\* Liveness: a claimed URL reaches an outcome unless its handler was lost.
\* Crashes and cancellations stay possible throughout; only the handlers'
\* own progress is assumed.
EnrichmentSettles ==
    \A u \in Urls :
        article[u].status = "processing" ~>
            article[u].status \in {"complete", "failed"} \/ u \in interrupted
=============================================================================
