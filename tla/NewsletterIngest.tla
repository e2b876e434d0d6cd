-------------------------- MODULE NewsletterIngest --------------------------
(***************************************************************************)
(* The Bridge: the n8n workflow "Newsletter ingest" (n8n/scripts/build-    *)
(* workflow.js) stores one received email in R2 (the page) and D1 (the     *)
(* entry); the Worker (email-worker/src/index.ts) reads both: a feed per   *)
(* Source lists the entries, and an entry without a canonical URL links to *)
(* its permalink.  Resend is external: it redelivers a webhook until it    *)
(* gets a 2xx or gives up, and does not wait for a slow execution, so      *)
(* executions of one message overlap.  n8n may lose an execution.          *)
(***************************************************************************)
EXTENDS Integers

CONSTANTS
    Messages,       \* received emails (their Message-ID and svix-id)
    Sources,        \* aliases
    SourceOf,       \* [Messages -> Sources]
    Executions,     \* executions that can run at once
    MaxDeliveries,  \* how often Resend tries in its ~27 hours
    Readers,        \* requests to the Worker: Miniflux's and the browser's
    Recovered,      \* messages whose headers or HTML name a canonical URL
    None

ASSUME NewsletterIngestAssumption ==
    /\ SourceOf \in [Messages -> Sources]
    /\ Recovered \subseteq Messages
    /\ None \notin Messages \union {"partial", "full"}
    /\ MaxDeliveries \in Nat \ {0}

VARIABLES
    source,     \* [Sources -> status in the D1 registry]
    page,       \* [Messages -> R2 object, with all its images or not]
    entry,      \* messages with a row in D1's entries
    claimed,    \* alert keys in D1's ingest_alerts
    exec,       \* [Executions -> where the execution is and what it holds]
    delivery,   \* [Messages -> Resend's view of the webhook]
    reader,     \* [Readers -> where the Worker's request is]
    linked,     \* messages to whose permalink a feed has linked
    wasActive,  \* history: Sources that have been active
    excused     \* history: messages an execution of which was skipped or lost,
                \* or whose alert D1 did not take

vars == <<source, page, entry, claimed, exec, delivery, reader, linked, wasActive, excused>>

Statuses == {"unknown", "pending", "active"}
Pages == {None, "partial", "full"}
Nodes == {"idle", "fetch", "lookup", "build", "assets", "r2", "d1", "alert", "notify"}

Idle == [at |-> "idle", message |-> None, row |-> "unknown", html |-> None,
         awaited |-> FALSE]

Locals == [at: Nodes, message: Messages \union {None}, row: Statuses, html: Pages,
           awaited: BOOLEAN]
Webhooks == [state: {"due", "sent", "stored", "skipped", "gaveup"}, tries: 0..MaxDeliveries]

\* A feed request keeps its Source, a permalink request its message.
NoRead == [at |-> "idle", source |-> None, message |-> None]

TypeOK ==
    /\ source \in [Sources -> Statuses]
    /\ page \in [Messages -> Pages]
    /\ entry \subseteq Messages
    /\ claimed \subseteq Messages
    /\ exec \in [Executions -> Locals]
    /\ delivery \in [Messages -> Webhooks]
    /\ reader \in [Readers -> [at: {"idle", "entries", "object", "served", "missing"},
                               source: Sources \union {None},
                               message: Messages \union {None}]]
    /\ linked \subseteq Messages
    /\ wasActive \subseteq Sources
    /\ excused \subseteq Messages

Init ==
    /\ source \in [Sources -> {"unknown", "pending"}]
    /\ page = [m \in Messages |-> None]
    /\ entry = {}
    /\ claimed = {}
    /\ exec = [x \in Executions |-> Idle]
    /\ delivery = [m \in Messages |-> [state |-> "due", tries |-> 0]]
    /\ reader = [q \in Readers |-> NoRead]
    /\ linked = {}
    /\ wasActive = {}
    /\ excused = {}

worker == <<reader, linked>>
store == <<source, page, entry, claimed, wasActive, worker>>

-----------------------------------------------------------------------------
(* Resend, and the owner of the registry *)

SetStatus(s, status) ==
    /\ source[s] # status
    /\ source' = [source EXCEPT ![s] = status]
    /\ wasActive' = IF status = "active" THEN wasActive \union {s} ELSE wasActive
    /\ UNCHANGED <<page, entry, claimed, exec, delivery, worker, excused>>

\* A webhook, or its redelivery with the same svix-id; Verify Svix accepts it.
Deliver(x, m) ==
    /\ exec[x].at = "idle"
    /\ delivery[m].state = "due"
    /\ delivery' = [delivery EXCEPT ![m] = [state |-> "sent", tries |-> @.tries + 1]]
    /\ exec' = [exec EXCEPT ![x] =
                  [Idle EXCEPT !.at = "fetch", !.message = m, !.awaited = TRUE]]
    /\ UNCHANGED <<store, excused>>

\* What Resend makes of an attempt that did not succeed.
Refused(m) ==
    [delivery EXCEPT ![m].state =
        IF delivery[m].tries < MaxDeliveries THEN "due" ELSE "gaveup"]

\* Resend stops waiting; the execution goes on.
ResendTimeout(x) ==
    /\ exec[x].awaited
    /\ delivery' = Refused(exec[x].message)
    /\ exec' = [exec EXCEPT ![x].awaited = FALSE]
    /\ UNCHANGED <<store, excused>>

-----------------------------------------------------------------------------
(* One execution *)

Message(x) == exec[x].message

GoTo(x, node) == exec' = [exec EXCEPT ![x].at = node]

\* The execution ends with a response; Resend hears it if it still waits.
Respond(x, state) ==
    /\ exec' = [exec EXCEPT ![x] = Idle]
    /\ delivery' = IF exec[x].awaited
                   THEN IF state = "failed" THEN Refused(Message(x))
                        ELSE [delivery EXCEPT ![Message(x)].state = state]
                   ELSE delivery

\* Mutation: a failure ends the execution without the alert.
Unalerted(x) == Respond(x, "failed")

Alerted(x) == GoTo(x, "alert") /\ UNCHANGED delivery

\* Fetch email and Alias query; every failure goes to the alert.
Fetch(x) ==
    /\ exec[x].at = "fetch"
    /\ \/ GoTo(x, "lookup") /\ UNCHANGED delivery
       \/ Alerted(x)
    /\ UNCHANGED <<store, excused>>

Lookup(x) ==
    /\ exec[x].at = "lookup"
    /\ \/ /\ exec' = [exec EXCEPT ![x].at = "build",
                                  ![x].row = source[SourceOf[Message(x)]]]
          /\ UNCHANGED delivery
       \/ Alerted(x)
    /\ UNCHANGED <<store, excused>>

\* Mutation: the gate lets every registered Source through.
PassRegistered(row) == row # "unknown"

Pass(row) == row = "active"

\* Build entry and Skip?: anything but an active Source is a 200 no-op.
Build(x) ==
    /\ exec[x].at = "build"
    /\ UNCHANGED store
    /\ \/ /\ Pass(exec[x].row)
          /\ UNCHANGED excused
          /\ \/ GoTo(x, "assets") /\ UNCHANGED delivery
             \/ Alerted(x)
       \/ /\ ~Pass(exec[x].row)
          /\ Respond(x, "skipped")
          /\ excused' = excused \union {Message(x)}

\* Capture assets: an image that cannot be fetched stays a remote one.
Capture(x) ==
    /\ exec[x].at = "assets"
    /\ \E html \in {"partial", "full"} :
          exec' = [exec EXCEPT ![x].at = "r2", ![x].html = html]
    /\ UNCHANGED <<store, delivery, excused>>

PutPage(x) == page' = [page EXCEPT ![Message(x)] = exec[x].html]

\* Mutation: the entry is written even when the page was not.
PageUnchecked(x) == GoTo(x, "d1") /\ UNCHANGED delivery

PageFailed(x) == Alerted(x)

\* Write R2: keyed by hash(Message-ID).  An error may hide a write.
WriteR2(x) ==
    /\ exec[x].at = "r2"
    /\ \/ PutPage(x) /\ GoTo(x, "d1") /\ UNCHANGED delivery
       \/ (PutPage(x) \/ UNCHANGED page) /\ PageFailed(x)
    /\ UNCHANGED <<source, entry, claimed, worker, wasActive, excused>>

\* Write D1 (INSERT OR REPLACE) and Respond 200 ok.
WriteD1(x) ==
    /\ exec[x].at = "d1"
    /\ \/ entry' = entry \union {Message(x)} /\ Respond(x, "stored")
       \/ /\ entry' = entry \union {Message(x)} \/ UNCHANGED entry
          /\ Alerted(x)
    /\ UNCHANGED <<source, page, claimed, worker, wasActive, excused>>

\* Claim alert (INSERT OR IGNORE keyed by hash(svix-id)) and First failure?;
\* if D1 does not answer, the execution stops, with or without the claim.
ClaimAlert(x) ==
    /\ exec[x].at = "alert"
    /\ \/ /\ claimed' = claimed \union {Message(x)}
          /\ UNCHANGED excused
          /\ IF Message(x) \in claimed
             THEN Respond(x, "failed")
             ELSE GoTo(x, "notify") /\ UNCHANGED delivery
       \/ /\ excused' = excused \union {Message(x)}
          /\ Respond(x, "failed")
          /\ claimed' \in {claimed, claimed \union {Message(x)}}
    /\ UNCHANGED <<source, page, entry, worker, wasActive>>

\* Notify and Fail execution, whether or not the POST failed.
Notify(x) ==
    /\ exec[x].at = "notify"
    /\ Respond(x, "failed")
    /\ UNCHANGED <<store, excused>>

\* n8n loses the execution.
Lose(x) ==
    /\ exec[x].at # "idle"
    /\ excused' = excused \union {Message(x)}
    /\ Respond(x, "failed")
    /\ UNCHANGED <<store>>

-----------------------------------------------------------------------------
(* The Worker; a read of D1 or R2 that fails ends the request with a 500.  *)

Rest == <<source, page, entry, claimed, exec, delivery, wasActive, excused>>

\* A feed request whose Source is registered and whose secret is right; any
\* other is answered at once.
FeedRequest(q, s) ==
    /\ reader[q].at = "idle" /\ source[s] # "unknown"
    /\ reader' = [reader EXCEPT ![q].at = "entries", ![q].source = s]
    /\ UNCHANGED <<linked, Rest>>

\* entryLink: the canonical URL, or else the permalink.
Permalinks(listed) == listed \ Recovered

\* The entries dated in the last 30 days.
Feed(q) ==
    /\ reader[q].at = "entries"
    /\ \E listed \in SUBSET {m \in entry : SourceOf[m] = reader[q].source} :
          linked' = linked \union Permalinks(listed)
    /\ reader' = [reader EXCEPT ![q] = NoRead]
    /\ UNCHANGED Rest

\* A link of a feed is followed: the entry is looked up in D1 ...
Permalink(q, m) ==
    /\ reader[q].at = "idle" /\ m \in linked
    /\ reader' = [reader EXCEPT ![q].at = IF m \in entry THEN "object" ELSE "missing",
                                ![q].message = m]
    /\ UNCHANGED <<linked, Rest>>

\* ... and then its page in R2; either may be a 404.
Page(q) ==
    /\ reader[q].at = "object"
    /\ reader' = [reader EXCEPT ![q].at = IF page[reader[q].message] = None THEN "missing"
                                          ELSE "served"]
    /\ UNCHANGED <<linked, Rest>>

EndRequest(q) ==
    /\ reader[q].at # "idle"
    /\ reader' = [reader EXCEPT ![q] = NoRead]
    /\ UNCHANGED <<linked, Rest>>

WorkerStep(q) ==
    \/ \E s \in Sources : FeedRequest(q, s)
    \/ \E m \in Messages : Permalink(q, m)
    \/ Feed(q) \/ Page(q) \/ EndRequest(q)

-----------------------------------------------------------------------------

ExecutionStep(x) ==
    \/ Fetch(x) \/ Lookup(x) \/ Build(x) \/ Capture(x) \/ WriteR2(x) \/ WriteD1(x)
    \/ ClaimAlert(x) \/ Notify(x)

Next ==
    \/ \E s \in Sources, status \in {"pending", "active"} : SetStatus(s, status)
    \/ \E x \in Executions, m \in Messages : Deliver(x, m)
    \/ \E x \in Executions : ResendTimeout(x) \/ ExecutionStep(x) \/ Lose(x)
    \/ \E q \in Readers : WorkerStep(q)

Spec == Init /\ [][Next]_vars

-----------------------------------------------------------------------------
(* Properties *)

\* Safety: "the permalink always resolves" (atom.ts:39): one that a feed has
\* listed is never answered 404, and a message Resend was told is stored has
\* its entry: whatever executions of the message overlap, fail between the two
\* stores, write them again while the Worker reads, or die.
PermalinksHold ==
    /\ \A q \in Readers : reader[q].at # "missing"
    /\ \A m \in Messages : delivery[m].state = "stored" => m \in entry

\* Safety: "no entry ever exists" for a Source that was never activated
\* (migrations/0001_sources_and_entries.sql), however its status moves meanwhile.
OnlyActivated == \A m \in entry : SourceOf[m] \in wasActive

Running(m) == \E x \in Executions : exec[x].message = m

\* Safety: when Resend has given a message up, it was stored all the same or
\* its failure was claimed for an alert, unless an execution skipped it or D1
\* or n8n itself failed.
NothingLostQuietly ==
    \A m \in Messages :
        delivery[m].state = "gaveup" /\ ~Running(m) =>
            m \in entry \union claimed \union excused

=============================================================================
