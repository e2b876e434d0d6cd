------------------------- MODULE EnrichmentWorkflow -------------------------
(***************************************************************************)
(* The n8n workflow "Article enrichment" (n8n/scripts/build-article-      *)
(* enrichment.js) calling the Article Index: one execution per new_entries *)
(* webhook, its retry loop around the enrich API, and the alert that a     *)
(* failed execution claims in D1 and sends.  The API server is             *)
(* ArticleIndex, with its cancellations, database errors and crashes.      *)
(***************************************************************************)
EXTENDS Integers, Sequences

CONSTANTS
    Urls, Handlers, ModelScores, None,  \* as in ArticleIndex
    Executions,     \* n8n executions of the workflow, one webhook each
    Entries,        \* Miniflux entries
    EntryUrl,       \* [Entries -> Urls]
    Malformed,      \* entries the enrich API rejects with 400
    BridgeEntries,  \* entries whose content is looked up in D1 first
    ItemCarried     \* whether the HTTP node's error output may carry its
                    \* input item (TRUE), may lose it (FALSE), or both

MAX_ENRICH_RETRIES == 3

ASSUME EnrichmentWorkflowAssumption ==
    /\ EntryUrl \in [Entries -> Urls]
    /\ Malformed \union BridgeEntries \subseteq Entries
    /\ ItemCarried \subseteq BOOLEAN
    /\ None \notin Entries \union Handlers

VARIABLES
    article, handler, cancelled, modelRuns, interrupted,    \* ArticleIndex
    exec,       \* [Executions -> where the execution is and its item; told:
                \* history, the API answered it 2xx]
    claimed,    \* alert keys 'enrich-<entry id>' in D1's ingest_alerts
    notified    \* history: [Entries -> how often an alert was sent]

Index == INSTANCE ArticleIndex

ASSUME IndexAssumption == Index!ArticleIndexAssumption

index == <<article, handler, cancelled, modelRuns, interrupted>>
workflow == <<exec, claimed, notified>>
vars == <<index, workflow>>

\* "failed" is Fail execution; "stopped" is the error of a node that has no
\* error output.
Ended == {"enriched", "failed", "stopped"}
Nodes == {"webhook", "prepare", "call", "waiting", "retryable", "terminal",
          "alert", "notify"} \union Ended

TypeOK ==
    /\ Index!TypeOK
    /\ exec \in [Executions -> [at: Nodes, entry: Entries \union {None},
                                attempt: 0..MAX_ENRICH_RETRIES,
                                handler: Handlers \union {None}, told: BOOLEAN]]
    /\ claimed \subseteq Entries
    /\ notified \in [Entries -> Nat]

Init ==
    /\ Index!Init
    /\ exec = [x \in Executions |->
                 [at |-> "webhook", entry |-> None, attempt |-> 0, handler |-> None,
                  told |-> FALSE]]
    /\ claimed = {}
    /\ notified = [e \in Entries |-> 0]

-----------------------------------------------------------------------------
(* One execution *)

Entry(x) == exec[x].entry

\* The attempt is looked at once more only when the call is to be retried.
GoTo(x, node) ==
    exec' = [exec EXCEPT ![x].at = node, ![x].handler = None,
                         ![x].attempt = IF node = "retryable" THEN @ ELSE 0]

\* Webhook, signature, 200, Parse entries, Determine bridge match.  The Code
\* nodes run once for all items and read $input.first(): of the entries of a
\* webhook, the first alone goes on.
Accept(x) ==
    /\ exec[x].at = "webhook"
    /\ \E first \in Entries :
          exec' = [exec EXCEPT ![x].at = "prepare", ![x].entry = first]
    /\ UNCHANGED <<index, claimed, notified>>

\* The D1 lookup of a Bridge entry may fail; that is alerted without a retry.
Prepare(x) ==
    /\ exec[x].at = "prepare"
    /\ \/ GoTo(x, "call")
       \/ Entry(x) \in BridgeEntries /\ GoTo(x, "alert")
    /\ UNCHANGED <<index, claimed, notified>>

\* Call enrich API: the request reaches a handler, or nothing is listening.
Call(x) ==
    /\ exec[x].at = "call"
    /\ UNCHANGED <<claimed, notified>>
    /\ \/ \E h \in Handlers :
             /\ Index!Receive(h, EntryUrl[Entry(x)], Entry(x) \notin Malformed)
             /\ exec' = [exec EXCEPT ![x].at = "waiting", ![x].handler = h]
       \/ GoTo(x, "retryable") /\ UNCHANGED index

\* Mutation: a 500 leaves by the success output.
OutputNoRetry(reply) == IF reply = "invalid" THEN "terminal" ELSE "enriched"

\* Any 2xx leaves by the success output, which is connected to nothing; 400 is
\* terminal, 500 retryable.
Output(reply) ==
    CASE reply = "invalid" -> "terminal"
      [] reply = "error"   -> "retryable"
      [] OTHER             -> "enriched"

\* The response arrives.
Respond(x) ==
    /\ exec[x].at = "waiting"
    /\ Index!Finish(exec[x].handler)
    /\ LET reply == handler[exec[x].handler].reply
           to    == Output(reply)
       IN  exec' = [exec EXCEPT ![x].at = to, ![x].handler = None,
                      ![x].attempt = IF to = "retryable" THEN @ ELSE 0,
                      ![x].told = reply \notin {"invalid", "error"}]
    /\ UNCHANGED <<claimed, notified>>

\* n8n's HTTP timeout: the connection closes and the handler is cancelled.
TimeOut(x) ==
    /\ exec[x].at = "waiting"
    /\ Index!Cancel(exec[x].handler)
    /\ GoTo(x, "retryable")
    /\ UNCHANGED <<claimed, notified>>

\* Mutation: the error item never carries the attempt.
AttemptLost(x, carried) == 1

\* The attempt is read from the error item and falls back to 0 when the item
\* did not come through.
Attempt(x, carried) == (IF carried THEN exec[x].attempt ELSE 0) + 1

\* Classify enrich failure and Retry enrich?
Classify(x) ==
    /\ exec[x].at \in {"retryable", "terminal"}
    /\ \E carried \in ItemCarried :
          LET attempt == Attempt(x, carried)
          IN  IF exec[x].at = "retryable" /\ attempt <= MAX_ENRICH_RETRIES
              THEN exec' = [exec EXCEPT ![x].at = "call", ![x].attempt = attempt]
              ELSE GoTo(x, "alert")
    /\ UNCHANGED <<index, claimed, notified>>

\* Mutation: First failure? is not asked.
EveryClaim(x) == TRUE

FirstClaim(x) == Entry(x) \notin claimed

\* Claim alert: INSERT OR IGNORE; only the first claim goes on to Notify.  If
\* D1 does not answer, the execution stops, with or without the claim.
ClaimAlert(x) ==
    /\ exec[x].at = "alert"
    /\ \/ /\ claimed' = claimed \union {Entry(x)}
          /\ GoTo(x, IF FirstClaim(x) THEN "notify" ELSE "failed")
       \/ /\ GoTo(x, "stopped")
          /\ claimed' \in {claimed, claimed \union {Entry(x)}}
    /\ UNCHANGED <<index, notified>>

\* Notify: on an error the execution stops, with the claim already taken.
Notify(x) ==
    /\ exec[x].at = "notify"
    /\ \/ /\ notified' = [notified EXCEPT ![Entry(x)] = @ + 1]
          /\ GoTo(x, "failed")
       \/ GoTo(x, "stopped") /\ UNCHANGED notified
    /\ UNCHANGED <<index, claimed>>

-----------------------------------------------------------------------------
(* The server beside it *)

Awaited(h) == \E x \in Executions : exec[x].handler = h

\* The handler's own steps; the response nobody waits for goes nowhere.
Serve(h) ==
    /\ Index!HandlerStep(h)
    /\ handler[h].at = "reply" => ~Awaited(h)
    /\ UNCHANGED workflow

\* The server dies: every execution that waits sees its connection reset.
Crash ==
    /\ Index!Crash
    /\ exec' = [x \in Executions |->
                  IF exec[x].at = "waiting"
                  THEN [exec[x] EXCEPT !.at = "retryable", !.handler = None]
                  ELSE exec[x]]
    /\ UNCHANGED <<claimed, notified>>

ExecutionStep(x) ==
    \/ Prepare(x) \/ Call(x) \/ Respond(x) \/ TimeOut(x)
    \/ Classify(x) \/ ClaimAlert(x) \/ Notify(x)

Next ==
    \/ \E x \in Executions : Accept(x) \/ ExecutionStep(x)
    \/ \E h \in Handlers : Serve(h)
    \/ Crash

\* n8n goes on with an execution it has accepted and a started handler goes
\* on; webhooks and crashes need not happen.
Fairness ==
    /\ \A x \in Executions : WF_vars(ExecutionStep(x))
    /\ \A h \in Handlers : WF_vars(Serve(h))

Spec == Init /\ [][Next]_vars /\ Fairness

-----------------------------------------------------------------------------
(* Properties *)

\* Safety: however often and concurrently an entry's executions fail, its
\* alert is sent at most once (n8n/README.md: "Notify (first time only)").
AlertOnce == \A e \in Entries : notified[e] <= 1

\* Liveness: every accepted webhook's execution ends; the retry loop is
\* bounded even if the API never answers, provided the error item carries the
\* attempt (ItemCarried = {TRUE}), which the comment in "Classify enrich
\* failure" calls unverified.
ExecutionsEnd ==
    \A x \in Executions : exec[x].at = "prepare" ~> exec[x].at \in Ended

\* All work on u is over: nobody handles it and every execution has ended.
Quiet ==
    /\ \A x \in Executions : exec[x].at \in Ended \union {"webhook"}
    /\ \A h \in Handlers : handler[h].at = "idle"

AlertClaimed(u) == \E e \in claimed : EntryUrl[e] = u

\* Safety: when all work is over, the alert of an Article left failed is
\* claimed, unless one of its executions stopped because D1 did not answer the
\* claim, or was answered 2xx: that answer, for the failed row a first attempt
\* left behind, is the one way the alert n8n/README.md:80 promises ("terminal,
\* or retries exhausted -> Alert claim query") is lost without any error.
FailuresExplained ==
    Quiet => \A u \in Urls :
                article[u].status = "failed" =>
                    \/ AlertClaimed(u)
                    \/ \E x \in Executions :
                          /\ exec[x].at = "stopped" \/ exec[x].told
                          /\ EntryUrl[Entry(x)] = u
=============================================================================
