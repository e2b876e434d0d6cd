# Agregado in TLA+

Models of Agregado's core: the Go service that enriches Articles, selects one
Digest a day and keeps the reader's preference profile; the n8n workflows that
call it; the newsletter Bridge beside them; and, of the older reader in the same
repository, its pipeline, its in-memory Digest, the cache of managed prompts both
generations share, and the command that moves its tables into the new index. The
modules are checked with TLC on small instances; for every component, TLAPS proves
the safety properties the passing runs check, and the refinements of the three abstract
specifications, for every instance.

    tlc -workers 2 -config ArticleIndex_all.cfg MCArticleIndex.tla
    tlapm ArticleIndexProofs.tla
    for m in *Proofs.tla; do tlapm $m; done

`PROJECT.json` lists the components, the runs, a mutation of the code for every
checked property, the source lines behind every definition, the hazards and the
theorems. Paths below are relative to the repository's root.

## 1. The system

Two generations of the program live in one repository. The current one
(`docs/architecture/ecosystem.md`) is a set of HTTP endpoints in front of
Postgres, driven by n8n workflows, with Langfuse and Cloudflare's AI behind it.
The older one is a reader of its own: RSS poller, RabbitMQ, storage and
enrichment workers, a digest scheduler, HTML pages.

### Components of the current system

| Component | State | Operations | Talks to |
|---|---|---|---|
| Article Index (`internal/articleindex`, `storage/article_index_repo.go`) | one row of `article_index` per canonical URL; the locals of each request | `POST /api/private/articles/enrich`: claim, content, preferences, summary, topics, Score, complete or fail | Postgres, page fetcher, AI provider |
| Enrichment workflow (`n8n/scripts/build-article-enrichment.js`) | an item with entry and attempt; alert keys in D1 | webhook, Bridge lookup, call, classify, retry, alert | Miniflux, Article Index, D1, notifier |
| Digest artifact (`internal/digestartifact`, `storage/digest_artifact_repo.go`) | one immutable row of `digest_artifacts` per date; the locals of each request | `POST /api/private/digests/{date}`: find, window, candidates, select, save or find again, score | Postgres, frontier model, score sink |
| Digest selection (`uniqueAndDiverse`, `diverse`) | the pool, the picks, their counts | pick, top up | none |
| Daily digest workflow (`build-daily-digest.js`) | the artifact held, the attempt; alert keys | fetch, send, retry by fetching again, check for an empty Digest, alert | Digest artifact, mail, D1 |
| Preference profile (`internal/preferences`, `storage/preference_profile_repo.go`) | the versions in `preference_profiles`; votes and Opens as evidence | `PUT`, `POST .../regenerate`, read | Postgres, AI provider |
| Preferences sync (`build-preferences-sync.js`) | the text each step holds | export, store, regenerate, write back, notify | Google Doc, preference profile |
| Score sink (`internal/langfuse/scores.go`) | lock, flag, channel, worker, context | `Emit`, `Shutdown`, the worker | Langfuse |
| Reader signals (`api/explicit_feedback.go`, `preferenceexport/open.go`) | `opened_at`, `article_index_feedback` | `GET /r/{id}`, vote | Postgres, score sink |
| Newsletter ingest (`build-workflow.js`) | Source registry, entries and alert keys in D1; pages in R2 | verify, fetch, look up, build, capture assets, write R2, write D1, alert | Resend, D1, R2 |
| Bridge Worker (`email-worker/src`) | none of its own | `GET /feed/{source}.atom`, `GET /p/{uuid}` | D1, R2, feed readers |
| Prompt cache (`internal/langfuse/prompts.go`) | per prompt: the copy, when it was checked, whether a fetch runs | `Template`, `Warm`, the background refresh, `Seed` | Langfuse |

### Components of the older reader

| Component | State | Operations | Talks to |
|---|---|---|---|
| RSS poller (`ingestion/rss/poller.go`) | `sources.last_fetched_at`, the cursor | poll, `RefreshSource` | feeds, Postgres, RabbitMQ |
| Email webhook (`ingestion/email/webhook.go`) | none | one letter per call | RabbitMQ |
| Queue (`internal/broker`) | `articles.store`, `articles.enrich`, `articles.dlq`; unacknowledged deliveries | publish, deliver, ack, nack, dead-letter | both workers |
| Storage and enrich workers (`storage/worker.go`, `storage/enrich.go`) | rows of `articles` | `Create` and trigger; content, Score | Postgres, RabbitMQ, page fetcher, AI provider |
| Backfill (`api/admin.go`) | none | a trigger for every row without content | Postgres, RabbitMQ |
| Digest scheduler (`digest/scheduler.go`) | the cached Digest, its date, the compute in flight | `Today`, `TodayOrTrigger`, `Refresh` | ranker, AI provider |
| Ownership migration (`internal/ownership`, `storage/ownership_repo.go`, `internal/karakeep`) | the Report of a run | `Lookup` and `Create` of Bookmarks, `Lookup` and `Import` of records, a sample | the old tables, `article_index`, Karakeep |

What is hard about each, and what makes it correct:

- *Article Index.* The claim is one INSERT, but everything after it runs for
  minutes in a goroutine whose calls all use the request's context. A client that
  hangs up makes the write of the failure fail as well. Correct: one owner per
  URL, the model asked at most once, final outcomes, true answers, and no row left
  in `processing` by an ordinary error path.
- *Enrichment workflow.* n8n times out while the handler still works, and retries
  beside it; executions for one entry race for its alert. Correct: one alert, and
  every execution ends.
- *Digest artifact.* Two requests compute different Digests for the same day at
  once, days are computed in any order, and Articles become complete meanwhile.
  Correct: one Digest per day, the same answer for everybody, no Article lost
  between windows, none in two Digests except by overlapping computations, and the
  `selected` scores those of that Digest, which the code does not keep (section 5).
- *Digest selection.* Unbounded penalties against weighted Scores, a stable sort,
  two calls with separate counts. Correct: the promised number, turns between
  sources, the newest first.
- *Daily digest workflow.* A send that seems to have failed may have been
  delivered. Correct: all emails of a day with Articles carry one Digest, and
  quiet means delivered.
- *Preference profile and sync.* A profile rewritten from a version read a model
  call ago; a Doc edited while a run holds an export of it; answers that n8n never
  heard. Correct: accepted profiles have the shape the prompts need, a seed
  survives until there is evidence, an undisturbed sync ends with both sides equal.
- *Score sink.* Sending on a closed channel panics the process; Langfuse may hang.
  Correct: no panic, nobody blocked by Langfuse, FIFO, nothing accepted and
  forgotten.
- *Reader signals.* The row is written and then the score is sent; two requests may
  do the two in opposite orders. Correct: one score per name and Article.
- *Newsletter ingest and Worker.* Two stores without a transaction, redelivery while
  an execution runs, a reader who looks into one store and then the other. Correct: a
  permalink of a feed resolves for ever, no message vanishes unnoticed.
- *Prompt cache.* A failed fetch counts as a check, a fetch may answer with what was
  production when it asked, and only one runs. Correct: a prompt that was rolled back
  stops being served within a bound, and a cold cache recovers.
- *Older pipeline.* At-least-once delivery to handlers that are not idempotent as a
  whole, publishing without confirms, a process that does not reconnect. Correct:
  what was published is stored, or is somewhere an operator can see it.
- *Digest scheduler.* A compute of minutes without the lock, joined by callers of
  another day or with newer wishes. Correct: it is never run twice for nothing, and
  nobody gets another day's Digest.
- *Ownership migration.* Each record is looked up and then written, over several
  stores, next to the running server, by a command that may die. Correct: it can be
  repeated, it takes nothing from the reader, and its counts are honest.

### Components not modelled

`PROJECT.json` lists all of them with their files, and section 6 says why:

- rendering, text extraction, sanitizing, signatures, authentication, OPML, mail,
  templates: pure text or library work with no state to interleave;
- the AI provider and the page fetcher: stateless calls, present in the models as
  answers and failures chosen freely;
- tracing: spans are exported by a library;
- the web pages and their repositories, and the ranker: single statements with
  nothing between, and pure functions of what a query returned;
- configuration, evals, seeding commands, backups: run once, by hand, or by a cron
  entry that only reads.

## 2. Modules

| Module | Models | Composed with |
|---|---|---|
| `EnrichmentLifecycle` | what the Article Index promises about a URL | |
| `ArticleIndex` | the endpoint, statement by statement | implements `EnrichmentLifecycle` |
| `ArticleIndexProofs` | its theorems | extends `ArticleIndex` |
| `EnrichmentWorkflow` | the workflow's executions | instance of `ArticleIndex` on the same variables |
| `EnrichmentWorkflowProofs` | its theorems | extends `EnrichmentWorkflow` |
| `DigestStore` | what the Digest endpoint promises its callers | |
| `DigestArtifact` | the endpoint, statement by statement | implements `DigestStore` |
| `DigestArtifactProofs` | its theorems | extends `DigestArtifact` |
| `DigestSelection` | the selection, pick by pick | |
| `DigestDelivery` | the daily workflow | instance of `DigestStore` |
| `DailyDigestProofs` | theorems of both | extends `DigestDelivery`, `DigestSelection` |
| `PreferenceProfile` | `PUT` and regenerate, statement by statement | |
| `PreferencesSync` | the nightly workflow and the reader's edits | instance of `PreferenceProfile` |
| `ScoreChannel` | what the sink promises those who emit | |
| `ScoreSink` | lock, channel, worker, shutdown | implements `ScoreChannel` |
| `ReaderSignals` | Opens and votes and their scores | instance of `ScoreChannel` |
| `OwnershipMigration` | the migration beside the server | extends `ReaderSignals` |
| `OwnershipMigrationProofs` | theorems of both | extends `OwnershipMigration` |
| `NewsletterIngest` | executions, D1, R2, Resend's redelivery, the Worker's requests | |
| `NewsletterIngestProofs` | its theorems | extends `NewsletterIngest` |
| `PromptCache` | one managed prompt, Langfuse and its owner | |
| `ServiceProofs` | theorems of the sync, the sink and the cache | extends `PreferencesSync`, `ScoreSink`, `PromptCache` |
| `LegacyPipeline` | poller, webhook, broker, both workers, backfill | |
| `DigestScheduler` | the callers of the cached Digest | |
| `LegacyProofs` | theorems of the pipeline and the scheduler | extends `LegacyPipeline`, `DigestScheduler` |
| `MC*` | TLC's definitions: model scores, pools, symmetry | |

Conventions. A request or an execution is a record: `at` names the call or node
it does *next*, the other fields are the locals that later steps read. One action
is one statement, call or node, so all interleavings the program has between two of
them exist in the model. A step that may fail does so by a disjunct; where a
database write or a POST can take effect and still report an error, the model has
that disjunct too (RabbitMQ's `Publish` has the opposite one, an effect that is
reported and lost, and not this one). Variables marked *history* record what happened for a property
and no guard reads them. `Crash` is a restart of the Go process: requests vanish,
the database stays.

How the models correspond to the code:

- **`ArticleIndex`.** `article` is the table; "absent" stands for no row. `Create`,
  `CreateFails`, `Lookup` are `ArticleIndexRepo.Create`'s two statements;
  `Content` ... `Score` are the calls of `Service.enrich` in order; `Complete` and
  `Fail` write the outcome with the request's context, so in a cancelled handler
  neither has an effect. `Cancel` is `r.Context()` ending. Summaries are only
  *structured* or *lead extract*, because nothing else is decided on them.
- **`EnrichmentWorkflow`.** The nodes with their connections. Code nodes run once
  for all items (`scripts/lib/nodes.js`), which is why `Accept` keeps one entry of
  a webhook. `TimeOut` closes the connection and so cancels the handler, which
  may already have passed its last call. `ItemCarried` says what n8n's error
  output does with the input item; the code's comment calls this unverified. An
  execution ends *failed* at "Fail execution", behind the claim, and *stopped* at a node
  without an error output that got an error: "Claim alert" or "Notify".
- **`DigestArtifact`.** The clock is the database's. `enriched[a].at` is `NOW()` at
  the start of the UPDATE, `visible` its commit. `Window` and `Candidates` are
  separate statements; `Select` stands for the selection and the model, which may
  return any subset up to the limit, also an empty one. A `Save` that loses the race
  goes on with `Refind`, and what that finds is reported as *created*
  (`digest_artifact_repo.go:66,80`): the request keeps its own candidates and
  selection, scores them in `ScoreSelected`, and answers the Digest it found. `raced`
  and `cut` are history: the days with a lost race, and those whose Digest was saved by
  a request that ended before its scores.
- **`DigestDelivery`.** The nodes with their connections; the send node's three
  outcomes are delivered, not delivered, and reported failed but delivered.
- **`DigestSelection`.** `diverse`'s loop with its penalties of 10 and 5 and strict
  comparison; positions in the pool stand for the stable order.
- **`PreferenceProfile`.** `Insert` and `Commit` are the two ends of the one saving
  statement: the comparison sees what is committed at its start, the row is visible
  at its end. Texts are model values, with `Normal` for what `Normalize` makes of
  them and `Shaped` for what `Validate` accepts.
- **`PreferencesSync`.** The nodes; `alone` marks executions that nothing
  interfered with, which is when convergence is promised at all.
- **`ScoreSink`.** `Acquire` waits for readers, `Lock` waits for a waiting writer,
  as `sync.RWMutex` does; `Receive` drains after cancellation, as the worker does.
- **`ReaderSignals`.** Both handlers: statement, then `EmitScore`. Langfuse is
  external: same id and timestamp overwrite, another timestamp adds.
- **`NewsletterIngest`.** Resend redelivers until a 2xx or its last try and does not
  wait for a slow execution, so executions of a message overlap; `Lose` is n8n
  losing one. The Worker's `Feed` lists any of the Source's entries (the 30 days of
  the query), `Permalink` reads D1 and `Page` R2; `linked` remembers which permalinks
  a feed ever contained.
- **`PromptCache`.** One entry of the cache; `age` is now minus `checked` in ticks.
  `Template` starts a fetch past the TTL and answers at once; a fetch reads the label
  (`Answer`) and is stored later (`Store`), a failure as a check too. The owner
  promotes, rolls back and creates, Langfuse goes up and down.
- **`LegacyPipeline`.** A message is an Article or the id of a row; `queue` is a set,
  because the two workers' handlers do not depend on the order. `Deliver` hands over
  without removing, `Settle` acks or dead-letters, `Disconnect` and `Restart` put what
  is unacknowledged back. A newsletter has no URL, so `Create` stores it again on
  redelivery; `rows` is a sequence for that reason. `Publish` returns nil for a
  message the breaking connection lost. `Create` may insert and report an error: the
  row is "unseen", with the columns of a "new" one, its message is dead-lettered and no
  trigger is published. `Content` and the UPDATE after a failed parse may take effect
  and report an error as well.
- **`DigestScheduler`.** Every section under the mutex is one step, and a Digest is
  named by the call that computed it. `EndCompute` is the locked section at the end of
  a compute, `Close` the `close(done)` after it.
- **`OwnershipMigration`.** `legacy` is the old table, chosen initially; `Records` and
  `Bookmarks` are `Classify`'s plan, with `CurrentVote` its loop over the rows in
  their order; `run` is the process: `FindBookmark` then
  `SaveBookmark` for each URL, `FindRecord` then `ImportRecord` for each record,
  `Sample` at the end. A write commits, fails, or commits and loses its answer. `Die`
  is the process being killed; `Start` may follow, dry or applied. The server beside
  it is `ReaderSignals` (Opens, votes, scores) and `Enrich` (a claim of the fast path).

## 3. Runs

| Run | Instance | Question |
|---|---|---|
| `article_index` | 2 URLs, 2 handlers, model Scores 0, 1, 5, 6 | Do claims, answers, rows and outcomes hold through duplicates, hang-ups, failing statements and restarts? |
| `enrichment` | 2 executions, 2 handlers, 1 URL in 2 entries, one of them malformed, one from the Bridge | Does an entry alert once, is a failure ever unexplained, and does every execution end? |
| `digest` | 2 Articles, 2 days, 2 requests, lookback 2, clock to 2 | Is the endpoint a get-or-create store, with nothing skipped, nothing repeated and every score accounted for? |
| `digest_race` | 2 Articles, 1 day, 2 requests, clock to 1 | Do the scores follow the saved Digest, as the code's comment says? TLC finds that they do not (section 5). |
| `daily` | every sorted pool of up to 4 Articles over 3 Scores, 2 sources, a topic; then 2 days, 2 executions, 2 requests, 2 full artifacts and an empty one, 2 retries | Is a selection as large and as varied as promised? Do the emails of a day agree, and is a failure ever quiet? |
| `preferences` | 2 profiles, one also with trailing spaces, a malformed text, 2 requests, 1 execution, 3 rows | Do Doc and profile converge; is a 200 truly accepted? |
| `scores` | 4 events, 2 shutdowns, a queue of 2 | No panic, no block, no false success; and the sink is a FIFO channel. |
| `ingest` | 1 message, 3 overlapping executions, 3 deliveries, 1 reader | Do permalinks resolve, and does a loss leave a trace? |
| `migration` | 5 old tables of two rows for one URL, 2 reader requests, reruns | Is a run repeatable and honest, and the reader's data safe from it? Are scores right? |
| `legacy` | 1 item, 1 letter, 1 poller, 1 enrich worker, 1 fault | Is what was published stored or accounted for, and does the queue empty? |
| `scheduler` | 3 calls of any kind, 2 days | Is no compute duplicated, every answer current, every caller answered? |
| `prompts` | 2 fetchers, 3 versions, the third malformed, TTL 2, timeout 1 | How long does a rolled-back prompt live, and does a promoted one arrive? |

### What the properties say

*Article Index.* `OneOwner`; `OrphansExplained` (a row stays in `processing` only
through a kill, a hang-up or a refused statement, never by an error path);
`RepliesTruthful`; the refinement `ImplementsLifecycle`, which carries "the model is
asked at most once per URL, for ever" and "an outcome is final"; and
`EnrichmentSettles`: a claim reaches an outcome unless its handler was lost.
A type invariant documents the state of each module; the inductive invariants of
section 4 carry it, and no run repeats it.

*Enrichment workflow.* `AlertOnce`; `FailuresExplained`: an Article that was left
failed has a claimed alert, or an execution that stopped because D1 did not answer the
claim, or one that was told 2xx, which is the one way it escapes without any error
(section 5); `ExecutionsEnd`.

*Digest.* The refinement `ImplementsStore` (one immutable Digest per day, the same
for everybody); `ScoresAccounted` (there are no scores without a saved Digest; unless
two requests raced for the day they are the Digest's own; and the Digest's own are sent,
about to be sent, or lost with the request that saved it, since nobody sends them later);
`NothingSkipped` (an Article between two windows was a candidate of some Digest);
`NoRepeat`, in the form that is true: an Article is in two Digests only if the later
date's window was read before the earlier date's Digest was saved. `NothingSkipped`
is about Articles whose completion is visible at the instant it is stamped; one whose
UPDATE is in flight while a window is read can be missed.

*Daily Digest.* Of the workflow `EmailsAgree`, `QuietMeansDelivered`; of the selection
`SizeAsPromised`, `EvenSources`. The two share no state, and the workflow asks nothing
of a selection but whether it is empty, which `DigestStore` leaves open: so
`MCDailyDigest` runs the workflow after one of the pools, and all the selections beside
it.

*Preferences.* `SyncConverges`, `AnswerAccepted`.

*Score sink.* `NoPanic`, `NilMeansPosted`, the refinement `ImplementsChannel`,
`CallersReturn` (even if a POST never ends).

*Ingest.* `PermalinksHold`: a permalink that was ever in a feed is never a 404, and a
message Resend was told is stored has its entry; `OnlyActivated`;
`NothingLostQuietly`.

*Signals and migration* (one run, because the migration is dangerous to the reader's
data exactly while the reader uses it). `OneScorePerName`; `UserVoteCurrent` for
votes that did not overlap; `LiveDataKept`: no step takes or changes a row, an Open
or a vote of the new system, but the reader's own vote; `BookmarkOnce`;
`CleanRunFinishes`: a run without failures has brought everything over whatever
earlier runs did; `CountsHonest`: the Report's Destination is what was stored, up to
one per race, as `ownership_repo.go:114` says.

*Pipeline.* `CursorKeepsUp`: an item that appeared between polls is published before
the cursor passes it; `DuplicatesPaid`: an item has one row however many polls publish
it, a newsletter, which has no URL to conflict on, at most one more for each lost
connection or restart; `NothingStranded`: an Article that was published, a trigger, a
row with content are each stored, pending, on the dead-letter queue or lost in one of
the ways the model names. A row whose INSERT reported an error has no trigger anywhere:
what is left of it is its article, unacknowledged or on the dead-letter queue, and where
a restart redelivered that, nothing but the row, which the admin's backfill finds.
`PipelineSettles`: with a connection that holds and no backfill
in the end, everything that is not dead, itself or by its article, or lost gets stored
and enriched. (The queue
is a set, so a backfill pressed for ever could starve a message that RabbitMQ would
deliver in its turn.)

*Scheduler.* `NoDuplicateRun`, `AnswersCurrent` (the caller's own day, and never a
Digest that was complete when the Refresh began), `CallsReturn`.

*Prompts.* `RollbackBites`: with a prompt in use and no failing fetch, no version is
served longer than the TTL and two timeouts after it left production;
`PromotionServed`.

### Bounds, and why they are enough

Most races in this code are between *two* parties about *one* row (two requests for
a URL, a day, a profile; two executions for an alert key; an emitter and a
shutdown; a reader and an import), so two of each party and one or two rows reach
them. A third party is kept where the code treats it differently: three overlapping
deliveries, because Resend's last try differs from the others; four events for a queue
of two, so that one is in flight, two wait and one is dropped; three callers of the
scheduler, so that two wait for one compute and one of them has to take over.
`DigestArtifact` needs two days, computed in either order; its clock of three instants
with a lookback of two puts an Article before, on and after each end of a window. One day, one
Article per Digest and two requests are enough for the race of `digest_race`.
`DigestDelivery` retries twice instead of the workflow's three times
(`MaxSendRetries` is a parameter): the first retry and the exhausted one are the two
cases the code tells apart. `MaxRows = 3` is a seed, a regeneration and a concurrent
save.

`LegacyPipeline`: `MaxArticles = 1` lets an item or a letter through, not both:
messages of different Articles meet only in the workers, which hold nothing between
two of them. `MaxTime = 1` puts an item before, on and after the cursor. `MaxFaults =
1` is one lost connection or restart, at any step; a restart after a lost connection
is free. `PromptCache`: `TTL = 2` tells "past the TTL" from "at once", `Timeout = 1`
lets a label move while a fetch holds an answer; ages are capped where nothing
compares them any more, so behaviours need no end. `OwnershipMigration`: the five
tables are the merges of two rows of one URL that the rules tell apart (a dated
and an undated vote in both orders, two dated ones, an enrichment before an Open, a
row without a URL); `Past = 2` gives old stamps two values before those of the server.

A bound is in the guard of the action it stops (`Tick`, `Insert`, `Deliver`, `Fault`,
`Appear`, `Create`, `Midnight`) and named in the module.

Deadlock is checked except in `scores`, `daily` and `scheduler`, which end by
design: all events emitted and the worker done; all candidates picked; every call,
each made once, answered.

### Fairness

Weak fairness, of steps that the code or its platform takes by itself:

- a handler that has started goes on, because each of its calls is bounded: page
  fetch 15 s (`fetch.go:22`), model call 90 s (`cloudflare.go:62`), statements
  under the request's context. That covers its failure branches: the fair
  action is "some step of this handler";
- n8n goes on with an execution it has accepted (`enrichment`);
- a goroutine inside `Emit` or `Shutdown` runs, and a `Shutdown`'s deadline comes
  (`main.go:205`, five seconds). The worker of the sink is *not* fair, since a POST
  may hang;
- a queue's worker handles what it has or takes what there is (`legacy`). Polls, the
  backfill, faults and restarts are not fair; what `PipelineSettles` assumes of them
  is in its premise;
- a caller of the scheduler that can go on does, and a compute ends, by its ten
  minutes at the latest (`scheduler.go:149-162`);
- a fetch of a prompt ends by its timeout, time passes, and model calls go on asking
  for the prompt (`prompts`): without traffic nothing refreshes a copy, nor needs to.

No fairness makes requests arrive, executions start, articles complete, or clients
stay connected; crashes stay possible throughout.

## 4. Proofs

Every theorem holds for any sets of the actors and data, and any values of the bounds,
from the named assumption of its component alone. Those assumptions type the
constants, and say that `None` and the fixed strings are not members of the sets they
stand beside; nothing is assumed about the code. Each component has one inductive
invariant (`IInv`, or a name of its own where a module proves about two), which TLC
checked on small instances before it was proved, a lemma per action that it is kept,
`Spec => []IInv`, and the properties as its consequences.

Three modules prove about two or three components that share no state and no
operator: each extends them all, which is why `ScoreSink`, `PromptCache`,
`DigestScheduler` and `DigestSelection` call their specifications `SinkSpec`,
`PromptSpec`, `SchedulerSpec` and `SelectionSpec`. A theorem is about the one
specification it names.

**`ArticleIndexProofs`** (any URLs, handlers and integers the model may answer):
`TypeCorrect`, `ClaimExclusive` (`OneOwner`), `NoQuietOrphan` (`OrphansExplained`),
`Truthful` (`RepliesTruthful`), `Usable` (`CompleteUsable`: a complete row has a
Summary and a Score from 1 to 5) and `Refinement` (`Spec => ImplementsLifecycle`).

None of the safety properties is inductive alone. The inductive invariant `IInv` adds
two parts:

- `OwnersWork`: a handler past its claim holds a row in `processing`, has asked the
  model exactly if it is past `Summarize`, and before `Complete` has a Summary and
  a Score from 1 to 5. `OneOwner` needs it: a second claim is impossible because
  the first owner's row is not absent. `CompleteUsable` needs it because the row is
  written from the handler's locals. It also says that a handler in `Lookup` finds a
  row, which `RepliesTruthful` needs.
- `UnclaimedUntouched`: a URL without a row has not been put to the model. The
  refinement needs it for `RunModel`, which is enabled once.

The step lemma splits on the disjuncts of `Next`. `LocalStep` covers the steps that
leave the table alone, `RowStep` those that write it while their handler leaves the
owning places. The refinement maps a row to its status: `Create` and the effective
branch of `CreateFails` are `Claim`, `Summarize` is `RunModel`, `Complete` and
`Fail` are themselves or, when the write was lost, a stutter; every other step
stutters.

**`EnrichmentWorkflowProofs`** (any executions, entries, URLs and handlers):
`WorkflowAlertsOnce` (`AlertOnce`), `WorkflowExplainsFailures` (`FailuresExplained`),
`WorkflowTypes` and `WorkflowDrivesIndex`: the composition starts and steps on the
variables of the Article Index as `ArticleIndex` does, so what is proved of that
module's steps holds beside the workflow. It needs `Placed`, that an execution that
waits has a handler and one past its webhook an entry with a URL. `Alerting` makes
`AlertOnce` inductive: an execution at "Notify" has its entry's claim, alone, and
nothing was sent for it, because the claim that let it through was the first. `Explained`
is the argument for the other: whatever a handler works on and whatever has a row was
asked for by an execution (`WorkStep` is what each step of the composition adds), an
execution stays with its entry, and it ends with its alert claimed, stopped, or told.

**`NewsletterIngestProofs`** (any messages, Sources, executions, readers and number of
deliveries): `PermalinksResolve` (`PermalinksHold`), `OnlyActivatedEntries`
(`OnlyActivated`), `LossLeavesTrace` (`NothingLostQuietly`). The inductive invariant
adds to `TypeOK`:

- `ExecutionsKnow`: what an execution may rely on at each node. Past the gate its
  Source has been active at some time; at "Write D1" the page of its message is in R2;
  at "Notify" its alert is claimed. The page stays because no step removes one, though
  another execution of the same message may replace it: that is the argument for
  writing R2 before D1.
- `ReadersFind`: what a feed has linked, and what a permalink request has found, is an
  entry, and stays one while the request waits for R2.
- `EntriesStand`: every entry has a page and a Source that was activated.
- `Traced`: a message that was delivered at least once is with an execution or has an
  entry, a claimed alert or an excuse; with the bound on tries this makes a message
  that was given up accounted for.

Most steps change one execution and perhaps one message's stores; `Frame` says what
such a step leaves alone and `FrameKeeps` that the parts of the invariant about all
other executions and messages survive it. What remains is one lemma per action.

**`ServiceProofs`, the score sink** (any events, Shutdowns and capacity): `SinkNeverPanics`
(`NoPanic`), `SinkNilMeansPosted` (`NilMeansPosted`), `SinkImplementsChannel`
(`ImplementsChannel`). `SinkInv` adds `Locked` (a writer of `mu` is alone, so an Emit
between its check and its send still finds the channel open, which is all `NoPanic`
needs), `Lined` (an accepted event is in flight or in the queue, and only events whose
Emit has returned are there: the refinement's FIFO step rests on it) and `Stopped` (why
the worker ended and who cancelled it). The refinement maps the event in flight and the
queue to one line: a send is `Accept`, a full queue `Drop`, the end of a POST and a
drained event `Settle`; `TailAppend` is the fact about sequences this needs.

**`ServiceProofs`, the prompts cache** (any fetchers, versions, TTL and timeout):
`CacheRollback` (`RollbackBites`). `CacheInv` adds to its type invariant: `OneFetch` (the fetch
that runs is the only one, and the entry knows of it), `AnswersDated` (a version
Langfuse answered with left production no longer ago than the fetch has run),
`AskedRefreshes` (a copy past the TTL that was asked for in this tick is being
refreshed) and `CopyDated`, which is the bound in the making: how long the copy has been
out of production is at most a timeout plus its age, then a timeout, the TTL and the
time of the fetch that is to replace it, or else all has been well for no longer than
that. The last alternative is what an outage leaves behind.

**`LegacyProofs`, the pipeline** (any items, letters, pollers, enrichment workers, time
and number of faults): `PipelineTypes`, `PipelineCursorKeepsUp` (`CursorKeepsUp`),
`PipelineStrandsNothing` (`NothingStranded`), `PipelineDuplicates` (`DuplicatesPaid`).
`PipelineInv` has three parts, proved apart because the sources and the workers meet only in
`sent` and `queue`.

- `SourceInv`. `Ahead`: an item that appeared quietly and is not published is ahead of
  the cursor, of the cursor every poll has read, and among the items of every poll that
  has read the feed. `CursorKeepsUp` alone is not inductive, as a second poll writes back
  what it read.
- `WorkInv`. `NothingStranded` allows a message to be merely unacknowledged;
  the invariant says who has it: `ArticlesKnown`, `NewKnown`, `UnseenKnown` and
  `ContentKnown` name, for an article without a row, a row without content, one nobody
  learnt of and one without its Score, the queue, a dead letter, a loss, the handler that
  is at the right place, or the lost connection after which it comes back. For the row
  nobody learnt of, it is its article that has to be there (`UnseenStill`). `RowsKnown` says that only stored rows are triggered and
  that a handler past its write has written.
- `Paid`. A letter is in the queue or with a consumer, not both, and while it can still
  be stored again its rows are no more than the faults so far: after the first row only
  a lost connection or a restart before the acknowledgement brings it back.

**`LegacyProofs`, the scheduler** (any calls and days): `SchedulerRunsOnce`
(`NoDuplicateRun`), `SchedulerAnswersCurrent` (`AnswersCurrent`). `inFlight` is the one
call that computes (`OneRuns`); the cache holds a success under its own date
(`CacheDated`); once a Refresh has dropped the cache, what it found complete is not
cached again (`RefreshesForget`). The count of computes follows from
`SuccessesCounted`: while all calls are of one day, each success but the cached one was
dropped by a Refresh of its own.

**`DigestArtifactProofs`** (any Articles, requests, days, lookback, size and time):
`DigestScoresAccounted` (`ScoresAccounted`), `DigestNoRepeat` (`NoRepeat`),
`DigestNothingSkipped` (`NothingSkipped`), `DigestImplementsStore`
(`ImplementsStore`). `Knows` is what a request may rely on at each place. `WindowKept`
relates every window, saved or in a request's hands, to the clock and to the saved
Digests of earlier days; `NoRepeat` is what is left of it with `PoolKept`, that the
candidates were enriched in the window. For `NothingSkipped`, `DueKept` says of a
request under way that an Article its window reaches back to is or will be among its
candidates, or was taken by a saved Digest before: the window starts where the latest
earlier Digest ended, so what lies before its start was due to that one. The refinement
maps a row to its items and a request to idle, working, answered or failed; the INSERT
that wins is the store's save; the one that loses and the `Find` after it stutter.
`RequestKept` holds what `ScoresAccounted` rests on: a request that is about to score an
artifact other than the saved one has met a row in `Save`.

**`DailyDigestProofs`, the selection** (any pools of any length, any floor, limits to ten):
`SelectionSized` (`SizeAsPromised`), `SelectionEven` (`EvenSources`). `Counted` says how
many have been picked in each phase and that picked and waiting together are the passing,
then the rejected; the size is what is left when the loop ends. `BestIsBest` shows of the
loop's pick that no waiting Article has a higher value (`BestExists`, an induction over
positions); without topics the penalty is ten for each pick of the source
(`SourcePenalty`), so among equals the pick is of a source with the fewest (`PickEven`).

**`DailyDigestProofs`, the workflow** (any days, requests, executions, artifacts and number of
retries): `DeliveryEmailsAgree` (`EmailsAgree`), `DeliveryQuiet`
(`QuietMeansDelivered`). The workflow stands beside the abstract `DigestStore`, so the
theorems hold beside any store that implements it, as `DigestImplementsStore` shows of
the endpoint. `Mailable(d)` is an empty Digest or the one saved for `d`: requests answer
with it (`RepliesHonest`), executions hold it (`Holds`) and the reader has it
(`MailedSaved`), and no step of the store makes a Digest less mailable.

**`ServiceProofs`, Preferences sync** (any texts and normalization, requests,
executions and rows): `SyncAccepted` (`AnswerAccepted`), `SyncConverged`
(`SyncConverges`). `Held` types what a request holds by where it is: from its commit on,
the text it will answer with is in a committed row. `Undisturbed(x)` follows an execution
that nothing interfered with from node to node: who else may be under way (nobody), what
its PUT has stored (`Storing`), what its regeneration has read and written
(`Regenerating`), and that a request that is alone inserts the last row, so that what it
commits is the newest. `SyncConverges` is its last line. `NewestOf` with `GreatestExists`
and `NewestIs` is the query for the newest committed row, for any number of rows.

**`OwnershipMigrationProofs`** (any old tables, Articles, requests and runs, for
`MigrationSpec`, the reader's requests beside the runs): `ReaderOneScorePerName`,
`ReaderUserVoteCurrent`, `MigrationBookmarkOnce`, `MigrationCleanRunFinishes`,
`MigrationCountsHonest` and the action property `MigrationKeepsLiveData`
(`LiveDataKept`). The invariant has two halves.

- `ReaderInv`. A request past its statement, and every score Langfuse holds, carries the
  first time of its row (`Dated`, `ScoresDated`), and `RowsStay`: no step moves that
  time, neither a second vote nor an import. So all scores of one name have one
  timestamp and overwrite each other. `VotesInOrder`: unless a score was lost or two
  votes were in flight, at most one vote is about to join the line, the last one in
  line is the current vote, and with none in line Langfuse has it.
- The runs. `NothingThere`: between its lookup and its Create, a run's URL has no
  Bookmark, as nobody else adds one. `LookupHolds`: between lookup and import, what the
  import would add only shrinks, and only if the server wrote the record, which `raced`
  then remembers; with `WrittenIs` (Import stores what a lookup at that moment would
  promise) it gives `CountsFit`, the counts up to the records the run is done with.
  `DoneSoFar`: without failures, what is done with is at its destination.
  `HistoryOnly`: an Article the reader never touched has nothing but its history.
- `CleanRunFinishes` also says which vote and which Open: `CurrentVoteOfRows` and
  `EarliestOpenIs` prove of `Classify`, for tables of any length, that the vote it keeps
  is of a row no other row of the URL is dated after, and the Open the earliest. The
  first is an induction over the rows (`MergedOneMore`), with `Counting`, which gets
  induction over numbers from the well-foundedness of `<`.

Only model-checked:

- liveness (`EnrichmentSettles`, `ExecutionsEnd`, `CallersReturn`, `CallsReturn`,
  `PipelineSettles`, `PromotionServed`): it and `ENABLED` are out of the prover's reach.

Every other property of a passing run, invariants, action property and refinements, is
the consequent of a theorem above.

## 5. Where the code and its documents disagree

Met while modelling. The first is a run that TLC must find violated; for the others the
properties say what is true instead:

1. A `Save` that loses the race for a day ends in `return r.Find(ctx, a.Date)`
   (`digest_artifact_repo.go:80`), whose boolean means *found* and is true (line 66).
   `compute` takes it for *created* (`service.go:218-220`), so the loser runs
   `scoreSelected` with its own candidates and selection, over the scores of the Digest
   that was saved, and is answered 201. `service.go:225` says the scores tell "whether
   the saved Digest chose it", and `docs/STUDY_LOG.md:3509` "Emit only when this call
   saved the Digest"; the fake store of `service_test.go:30` returns false, as the
   comment has it, so the unit tests cannot see it (`digest_race`,
   `ScoresFollowDigest`).
2. The first failing enrichment leaves the row `failed`; the retry finds that row,
   gets 200, and leaves by the success output, which is connected to nothing. So no
   alert is claimed, although `n8n/README.md:80` and
   `docs/architecture/ecosystem.md:256` lead exhausted and terminal failures to it
   (`FailuresExplained` has this as its last case).
3. "Determine bridge match" runs once for all items and keeps the first, so a webhook
   with two entries enriches one; `n8n/README.md:70` says "one item per Miniflux
   entry" (`Accept` keeps one entry).
4. Nothing orders the scores of two concurrent votes, so the older can overwrite the
   newer; `explicit_feedback.go:48` says a changed vote overwrites the earlier one
   (`UserVoteCurrent` leaves out votes that were in flight at once).
5. `Refresh` joins a compute that was already running when it was asked for, so its
   Digest may be of older articles; `scheduler.go:95` says it "computes a fresh digest"
   (`AnswersCurrent` only excludes those that were complete).
6. The poller stores the time after publishing as its cursor (`poller.go:175`), so an
   item that appears between the read and that moment, dated in it, is never wanted
   again (`CursorKeepsUp` is about items that appear during no poll).
7. A live row that ended `failed` keeps its missing Enrichment although the old table
   had one: `Import` fills Enrichment only where it inserts, while
   `ownership_repo.go:103` speaks of filling gaps.

Statements that are too strong in the same way:

- the enrichment workflow's attempt counter restarts when n8n's error item does not
  carry its input, and the retry loop is then unbounded: `ExecutionsEnd` fails with
  `ItemCarried = {FALSE}` (the comment in "Classify enrich failure" is aware of it,
  and the daily workflow counts differently for that reason);
- `build-daily-digest.js:193`, on a re-fetch returning the persisted artifact: an
  empty Digest is not persisted, so a re-fetch may find articles (`EmailsAgree` is
  therefore about emails with articles);
- `digestartifact/service.go:279`, on high Scores surviving the penalties: penalties
  add up without a bound;
- ADR-0010, on a version per change: two concurrent saves of one text can both
  insert, as each compares with what was committed at its start;
- `n8n/README.md:165`, on the reader's edits: an edit made between export and
  write-back is overwritten;
- `n8n/src/assets.js:1-3`, on the page standing alone: a later delivery that fails
  to fetch an image replaces a complete page with a partial one;
- a newsletter redelivered by the broker is stored once more, as NULL URLs do not
  conflict (`article_repo.go:102`): `DuplicatesPaid` bounds the copies by the faults.

## 6. Limits of the models, and what is not modelled

Contents are not modelled: prompts, summaries, HTML, the text of a profile. Model
and network answers are free choices, so nothing depends on their quality. Postgres
is sequential per statement at READ COMMITTED, with commit separated from start
where a reader can tell (`DigestArtifact`, `PreferenceProfile`). Schema migrations
during operation are outside. Validation details (`preferences/profile.go`,
`boundSignals`) are a set of accepted texts.

`LegacyPipeline` has one source; the write-back of the whole source row
(`source_repo.go:107`) over an edit the admin makes meanwhile is not in it, nor are
link extraction and the publication of extracted links as Articles of their own.
RabbitMQ's queues are durable and survive; a broker that loses its disk does not
occur. The dead-letter handler acknowledges whatever it gets, so `dead` is a set
nothing leaves. `OwnershipMigration` merges scores, tags and summaries into one class,
because the code writes them under one condition, and leaves out titles and authors.
`PromptCache` is one prompt: entries share only a lock held for a few assignments.
The authentication of the Worker decides whether a feed request begins at all.

Not modelled at all: the components of section 1's last list. They keep no state that
outlives a call, or do a single statement, so that there is nothing for a checker to
interleave; what remains in them is text handling, which unit tests reach.

## 7. What could follow

1. Two sources in `LegacyPipeline`, with the write-back of a whole source row and the
   admin's edits.
2. Profile validation and the bounding of signals as operators checked against a
   reference definition.
3. `DigestDelivery` beside `DigestArtifact` itself as one composed specification, as
   `EnrichmentWorkflow` is beside the Article Index; the refinement makes its safety follow.
