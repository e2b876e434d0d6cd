--------------------------- MODULE DigestDelivery ---------------------------
(***************************************************************************)
(* The n8n workflow "Daily digest" (n8n/scripts/build-daily-digest.js):    *)
(* fetch the day's Digest from Agregado, send it by email, retry a failed  *)
(* send by fetching again, and alert once per day when the fetch or the    *)
(* last send fails or the Digest is empty.  Agregado is DigestStore, which *)
(* DigestArtifact implements.                                              *)
(***************************************************************************)
EXTENDS Naturals

CONSTANTS
    Days, Requests, Artifacts, EmptyOnes, None,         \* as in DigestStore
    Executions,         \* n8n executions, scheduled or started by hand
    MaxSendRetries      \* MAX_SEND_RETRIES, 3 in the workflow

ASSUME DigestDeliveryAssumption ==
    /\ MaxSendRetries \in Nat
    /\ EmptyOnes \subseteq Artifacts
    /\ None \notin Days \union Requests \union Artifacts

VARIABLES
    digest, request,    \* DigestStore
    exec,       \* [Executions -> where the execution is and what it holds]
    inbox,      \* history: [Days -> the artifacts the reader received]
    claimed     \* alert keys 'digest-<date>' in D1's ingest_alerts

Agregado == INSTANCE DigestStore

agregado == <<digest, request>>
workflow == <<exec, inbox, claimed>>
vars == <<agregado, workflow>>

Ended == {"delivered", "failed"}
Nodes == {"schedule", "get", "waiting", "send", "check", "classify", "alert",
          "notify"} \union Ended

TypeOK ==
    /\ Agregado!TypeOK
    /\ exec \in [Executions ->
                   [at: Nodes, day: Days \union {None},
                    request: Requests \union {None},
                    artifact: Artifacts \union {None},
                    attempt: 0..MaxSendRetries + 1]]
    /\ inbox \in [Days -> SUBSET Artifacts]
    /\ claimed \subseteq Days

Init ==
    /\ Agregado!Init
    /\ exec = [x \in Executions |->
                 [at |-> "schedule", day |-> None, request |-> None,
                  artifact |-> None, attempt |-> 0]]
    /\ inbox = [d \in Days |-> {}]
    /\ claimed = {}

-----------------------------------------------------------------------------
(* One execution *)

Day(x) == exec[x].day
Artifact(x) == exec[x].artifact

GoTo(x, node) == exec' = [exec EXCEPT ![x].at = node, ![x].request = None]

\* Digest schedule and Build digest request.
Start(x) ==
    /\ exec[x].at = "schedule"
    /\ \E d \in Days : exec' = [exec EXCEPT ![x].at = "get", ![x].day = d]
    /\ UNCHANGED <<agregado, inbox, claimed>>

\* Get digest: the request reaches Agregado, or nothing is listening.
Get(x) ==
    /\ exec[x].at = "get"
    /\ UNCHANGED <<inbox, claimed>>
    /\ \/ \E r \in Requests :
             /\ Agregado!Receive(r, Day(x))
             /\ exec' = [exec EXCEPT ![x].at = "waiting", ![x].request = r]
       \/ GoTo(x, "alert") /\ UNCHANGED agregado

\* The response: an artifact goes to the email node, a failed fetch to the
\* alert with no retry of its own.
Respond(x) ==
    /\ exec[x].at = "waiting"
    /\ Agregado!Finish(exec[x].request)
    /\ LET answer == request[exec[x].request]
       IN  IF answer.at = "reply"
           THEN exec' = [exec EXCEPT ![x].at = "send", ![x].request = None,
                                     ![x].artifact = answer.reply]
           ELSE GoTo(x, "alert")
    /\ UNCHANGED <<inbox, claimed>>

\* n8n's HTTP timeout; the frontier call may still be running.
TimeOut(x) ==
    /\ exec[x].at = "waiting"
    /\ GoTo(x, "alert")
    /\ UNCHANGED <<agregado, inbox, claimed>>

Deliver(x) == inbox' = [inbox EXCEPT ![Day(x)] = @ \union {Artifact(x)}]

\* Send digest email.  A send that reports an error may have been delivered.
Send(x) ==
    /\ exec[x].at = "send"
    /\ \/ Deliver(x) /\ GoTo(x, "check")
       \/ (Deliver(x) \/ UNCHANGED inbox) /\ GoTo(x, "classify")
    /\ UNCHANGED <<agregado, claimed>>

\* Mutation: an empty Digest that was sent counts as delivered.
NothingEmpty(artifact) == FALSE

IsEmpty(artifact) == artifact \in EmptyOnes

\* Check empty digest, after a successful send.
CheckEmpty(x) ==
    /\ exec[x].at = "check"
    /\ GoTo(x, IF IsEmpty(Artifact(x)) THEN "alert" ELSE "delivered")
    /\ UNCHANGED <<agregado, inbox, claimed>>

\* Classify send failure and Retry send?: the node counts its own runs.
Classify(x) ==
    /\ exec[x].at = "classify"
    /\ LET attempt == exec[x].attempt + 1
       IN  exec' = [exec EXCEPT
                      ![x].at = IF attempt <= MaxSendRetries THEN "get" ELSE "alert",
                      ![x].attempt = attempt]
    /\ UNCHANGED <<agregado, inbox, claimed>>

\* Claim alert (INSERT OR IGNORE) and First failure?; if D1 does not answer,
\* the execution stops, with or without the claim.
ClaimAlert(x) ==
    /\ exec[x].at = "alert"
    /\ \/ /\ claimed' = claimed \union {Day(x)}
          /\ GoTo(x, IF Day(x) \in claimed THEN "failed" ELSE "notify")
       \/ claimed' \in {claimed, claimed \union {Day(x)}} /\ GoTo(x, "failed")
    /\ UNCHANGED <<agregado, inbox>>

\* Notify, then Fail execution, whether or not the POST failed.
Notify(x) ==
    /\ exec[x].at = "notify"
    /\ GoTo(x, "failed")
    /\ UNCHANGED <<agregado, inbox, claimed>>

-----------------------------------------------------------------------------
(* Agregado beside it *)

Awaited(r) == \E x \in Executions : exec[x].request = r

\* A request goes on; a response nobody waits for goes nowhere.
Serve(r) ==
    /\ Agregado!RequestStep(r)
    /\ request[r].at \in {"reply", "failed"} => ~Awaited(r)
    /\ UNCHANGED workflow

\* Agregado dies: an execution that waits gets a connection error.
Crash ==
    /\ Agregado!Crash
    /\ exec' = [x \in Executions |->
                  IF exec[x].at = "waiting"
                  THEN [exec[x] EXCEPT !.at = "alert", !.request = None]
                  ELSE exec[x]]
    /\ UNCHANGED <<inbox, claimed>>

ExecutionStep(x) ==
    \/ Get(x) \/ Respond(x) \/ TimeOut(x) \/ Send(x) \/ CheckEmpty(x)
    \/ Classify(x) \/ ClaimAlert(x) \/ Notify(x)

Next ==
    \/ \E x \in Executions : Start(x) \/ ExecutionStep(x)
    \/ \E r \in Requests : Serve(r)
    \/ Crash

Spec == Init /\ [][Next]_vars

-----------------------------------------------------------------------------
(* Properties *)

NonEmpty(S) == S \ EmptyOnes

\* Safety: through retries, ambiguous sends and executions repeated by hand,
\* all the emails with articles that a reader gets for a day carry the one
\* Digest saved for it (build-daily-digest.js: "no regenerated content").
EmailsAgree == \A d \in Days : NonEmpty(inbox[d]) \subseteq {digest[d]}

\* Safety: an execution that ends quietly delivered articles: an empty Digest
\* and a failed send never pass for success.
QuietMeansDelivered ==
    \A x \in Executions :
        exec[x].at = "delivered" => NonEmpty(inbox[Day(x)]) # {}

=============================================================================
