------------------------ MODULE NewsletterIngestProofs ------------------------
(***************************************************************************)
(* Proofs about NewsletterIngest, for any sets of messages, Sources,       *)
(* executions and readers.                                                 *)
(***************************************************************************)
EXTENDS NewsletterIngest, TLAPS

\* What an execution knows at each node.
ExecutionsKnow ==
    \A x \in Executions :
        /\ exec[x].at = "idle" => exec[x].message = None
        /\ exec[x].at # "idle" =>
              exec[x].message \in Messages /\ delivery[exec[x].message].tries > 0
        /\ exec[x].awaited => exec[x].at # "idle"
        /\ exec[x].at = "build" /\ exec[x].row = "active"
              => SourceOf[exec[x].message] \in wasActive
        /\ exec[x].at \in {"assets", "r2", "d1"} => SourceOf[exec[x].message] \in wasActive
        /\ exec[x].at = "r2" => exec[x].html # None
        /\ exec[x].at = "d1" => page[exec[x].message] # None
        /\ exec[x].at = "notify" => exec[x].message \in claimed

\* What a feed links to, and what a permalink request has found, is an entry.
ReadersFind ==
    /\ linked \subseteq entry
    /\ \A q \in Readers : reader[q].at = "object" => reader[q].message \in entry

\* Entries have pages and Sources that were activated.
EntriesStand ==
    /\ \A s \in Sources : source[s] = "active" => s \in wasActive
    /\ \A m \in entry : page[m] # None /\ SourceOf[m] \in wasActive

\* Every message that was delivered is with an execution or has left a trace.
Traced ==
    \A m \in Messages :
        /\ delivery[m].state # "due" => delivery[m].tries > 0
        /\ delivery[m].state = "due" => delivery[m].tries < MaxDeliveries
        /\ delivery[m].tries > 0 =>
              Running(m) \/ m \in entry \union claimed \union excused

IInv ==
    /\ TypeOK /\ ExecutionsKnow /\ ReadersFind /\ EntriesStand
    /\ PermalinksHold /\ Traced

-----------------------------------------------------------------------------

\* What the steps write has its type.
LEMMA LocalsTyped ==
    ASSUME NEW e \in Locals
    PROVE  /\ \A node \in Nodes : [e EXCEPT !.at = node] \in Locals
           /\ \A row \in Statuses : [e EXCEPT !.at = "build", !.row = row] \in Locals
           /\ \A html \in Pages : [e EXCEPT !.at = "r2", !.html = html] \in Locals
           /\ [e EXCEPT !.awaited = FALSE] \in Locals
           /\ Idle \in Locals
           /\ \A m \in Messages :
                 [Idle EXCEPT !.at = "fetch", !.message = m, !.awaited = TRUE] \in Locals
  BY DEF Locals, Nodes, Statuses, Pages, Idle

\* The states a webhook moves through.
LEMMA WebhooksTyped ==
    ASSUME NEW d \in Webhooks
    PROVE  \A state \in {"due", "sent", "stored", "skipped", "gaveup"} :
              /\ [d EXCEPT !.state = state] \in Webhooks
              /\ d.tries < MaxDeliveries => [state |-> state, tries |-> d.tries + 1] \in Webhooks
  BY NewsletterIngestAssumption DEF Webhooks

\* The initial states satisfy the invariant.
LEMMA InitIInv == Init => IInv
<1> SUFFICES ASSUME Init PROVE IInv
  OBVIOUS
<1>1. TypeOK
  BY NewsletterIngestAssumption
     DEF Init, TypeOK, Statuses, Pages, Nodes, Idle, NoRead, Locals, Webhooks
<1>2. ExecutionsKnow /\ ReadersFind /\ EntriesStand /\ PermalinksHold /\ Traced
  BY NewsletterIngestAssumption
     DEF Init, ExecutionsKnow, ReadersFind, EntriesStand, PermalinksHold, Traced,
         Idle, NoRead
<1> QED BY <1>1, <1>2 DEF IInv

\* The invariant implies the three safety properties.
LEMMA IInvSafe == IInv => PermalinksHold /\ OnlyActivated /\ NothingLostQuietly
<1> SUFFICES ASSUME IInv PROVE OnlyActivated /\ NothingLostQuietly
  BY DEF IInv
<1>1. OnlyActivated
  BY DEF IInv, EntriesStand, OnlyActivated
<1>2. NothingLostQuietly
  BY DEF IInv, Traced, NothingLostQuietly
<1> QED BY <1>1, <1>2

-----------------------------------------------------------------------------
(* Each kind of step keeps the invariant. *)

\* The owner of the registry: a Source that becomes active is noted.
LEMMA RegistryStep ==
    ASSUME IInv, NEW s \in Sources, NEW status \in {"pending", "active"}, SetStatus(s, status)
    PROVE  IInv'
<1>1. TypeOK'
  BY DEF IInv, TypeOK, SetStatus, worker, Statuses
<1>2. ExecutionsKnow' /\ EntriesStand'
  BY NewsletterIngestAssumption DEF IInv, TypeOK, SetStatus, worker, ExecutionsKnow, EntriesStand
<1>3. ReadersFind' /\ PermalinksHold' /\ Traced'
  BY DEF IInv, SetStatus, worker, ReadersFind, PermalinksHold, Traced, Running
<1> QED BY <1>1, <1>2, <1>3 DEF IInv

\* A delivery starts an execution, which is the message's trace.
LEMMA DeliverStep ==
    ASSUME IInv, NEW x \in Executions, NEW m \in Messages, Deliver(x, m)
    PROVE  IInv'
<1> USE NewsletterIngestAssumption
<1>1. TypeOK'
  <2>1. delivery[m].tries < MaxDeliveries
    BY DEF IInv, Deliver, Traced
  <2>2. delivery' \in [Messages -> Webhooks]
    BY <2>1, WebhooksTyped DEF IInv, TypeOK, Deliver
  <2>3. exec' \in [Executions -> Locals]
    BY LocalsTyped DEF IInv, TypeOK, Deliver
  <2> QED BY <2>2, <2>3 DEF IInv, TypeOK, Deliver, store, worker
<1>2. ExecutionsKnow'
  BY DEF IInv, TypeOK, Locals, Webhooks, Deliver, store, worker, Idle, ExecutionsKnow
<1>3. Traced'
  <2>1. Running(m)'
    BY DEF IInv, TypeOK, Deliver, Running, Idle
  <2>2. delivery'[m].state = "sent" /\ delivery'[m].tries > 0
    BY DEF IInv, TypeOK, Webhooks, Deliver
  <2>3. ASSUME NEW k \in Messages \ {m}, Running(k) PROVE Running(k)'
    BY <2>3 DEF IInv, TypeOK, Deliver, Running, ExecutionsKnow
  <2>4. \A k \in Messages \ {m} : delivery'[k] = delivery[k]
    BY DEF IInv, TypeOK, Deliver
  <2> QED BY <2>1, <2>2, <2>3, <2>4 DEF IInv, Traced, Deliver, store
<1>4. ReadersFind' /\ EntriesStand' /\ PermalinksHold'
  BY DEF IInv, TypeOK, Deliver, store, worker, ReadersFind, EntriesStand, PermalinksHold
<1> QED BY <1>1, <1>2, <1>3, <1>4 DEF IInv

\* What Resend makes of an attempt that is over: nothing else changes, and a
\* message it will not try again has been tried.
LEMMA RefusedKeeps ==
    ASSUME IInv, NEW m \in Messages, delivery[m].tries > 0
    PROVE  /\ Refused(m) \in [Messages -> Webhooks]
           /\ \A k \in Messages \ {m} : Refused(m)[k] = delivery[k]
           /\ Refused(m)[m].tries = delivery[m].tries
           /\ Refused(m)[m].state = "due" => delivery[m].tries < MaxDeliveries
           /\ Refused(m)[m].state \in {"due", "gaveup"}
<1>1. delivery \in [Messages -> Webhooks]
  BY DEF IInv, TypeOK
<1>2. Refused(m) \in [Messages -> Webhooks]
  BY <1>1, WebhooksTyped DEF Refused
<1> QED BY <1>1, <1>2 DEF Refused, Webhooks

\* Resend stops waiting.
LEMMA TimeoutStep ==
    ASSUME IInv, NEW x \in Executions, ResendTimeout(x)
    PROVE  IInv'
<1> DEFINE m == exec[x].message
<1>1. m \in Messages /\ delivery[m].tries > 0
  BY DEF IInv, ResendTimeout, ExecutionsKnow
<1>2. /\ delivery' = Refused(m) /\ UNCHANGED <<store, excused>>
      /\ exec' = [exec EXCEPT ![x].awaited = FALSE]
  BY DEF ResendTimeout
<1>3. TypeOK'
  <2>1. exec' \in [Executions -> Locals]
    BY <1>2, LocalsTyped DEF IInv, TypeOK
  <2> QED BY <1>1, <1>2, <2>1, RefusedKeeps DEF IInv, TypeOK, store, worker
<1>4. ExecutionsKnow'
  BY <1>1, <1>2, RefusedKeeps DEF IInv, TypeOK, Locals, store, worker, ExecutionsKnow
<1>5. Traced'
  <2>1. \A k \in Messages : Running(k) => Running(k)'
    BY <1>2 DEF IInv, TypeOK, Locals, Running
  <2> QED BY <1>1, <1>2, <2>1, RefusedKeeps DEF IInv, Traced, store
<1>6. ReadersFind' /\ EntriesStand' /\ PermalinksHold'
  BY <1>1, <1>2, RefusedKeeps DEF IInv, store, worker, ReadersFind, EntriesStand, PermalinksHold
<1> QED BY <1>3, <1>4, <1>5, <1>6 DEF IInv

-----------------------------------------------------------------------------
(* The steps of one execution change its locals, its webhook and the stores *)
(* for its message only; the invariant holds after a step that does, if the *)
(* execution knows what its next node needs.                                *)

\* Its webhook gets a response or not.
WebhookFrame(x) ==
    /\ delivery' \in [Messages -> Webhooks]
    /\ \A m \in Messages :
          /\ delivery'[m].tries = delivery[m].tries
          /\ delivery'[m].state = delivery[m].state \/ delivery[m].tries > 0
          /\ delivery'[m].state = "due" => delivery[m].tries < MaxDeliveries
          /\ delivery'[m].state = "stored" => delivery[m].state = "stored" \/ m \in entry'

\* It goes on with its message or it ends, and then there is a trace.
LocalsFrame(x) ==
    /\ exec[x].at # "idle"
    /\ exec' \in [Executions -> Locals]
    /\ \A y \in Executions \ {x} : exec'[y] = exec[y]
    /\ \/ exec'[x] = Idle /\ exec[x].message \in entry' \union claimed' \union excused'
       \/ exec'[x].at # "idle" /\ exec'[x].message = exec[x].message

\* The stores only grow, and a new entry has its page and its Source.
StoreFrame(x) ==
    /\ UNCHANGED <<source, wasActive, worker>>
    /\ entry' \in {entry, entry \union {exec[x].message}}
    /\ entry' # entry => /\ page[exec[x].message] # None
                         /\ SourceOf[exec[x].message] \in wasActive
    /\ page' \in [Messages -> Pages]
    /\ \A m \in Messages : page[m] # None => page'[m] # None
    /\ claimed \subseteq claimed' /\ claimed' \subseteq Messages
    /\ excused \subseteq excused' /\ excused' \subseteq Messages

\* What the execution knows after the step.
KnowFrame(x) ==
    /\ exec'[x].at = "build" /\ exec'[x].row = "active"
          => SourceOf[exec[x].message] \in wasActive
    /\ exec'[x].at \in {"assets", "r2", "d1"} => SourceOf[exec[x].message] \in wasActive
    /\ exec'[x].at = "r2" => exec'[x].html # None
    /\ exec'[x].at = "d1" => page'[exec[x].message] # None
    /\ exec'[x].at = "notify" => exec[x].message \in claimed'

Frame(x) == WebhookFrame(x) /\ LocalsFrame(x) /\ StoreFrame(x) /\ KnowFrame(x)

\* A step within the frame keeps the invariant.
LEMMA FrameKeeps ==
    ASSUME IInv, NEW x \in Executions, Frame(x)
    PROVE  IInv'
<1> DEFINE m == exec[x].message
<1> USE NewsletterIngestAssumption DEF Frame
<1>1. m \in Messages /\ delivery[m].tries > 0
  BY DEF IInv, LocalsFrame, ExecutionsKnow
<1>2. Idle.at = "idle" /\ Idle.message = None /\ Idle.awaited = FALSE
  BY DEF Idle
<1>3. TypeOK'
  BY <1>1 DEF IInv, TypeOK, WebhookFrame, LocalsFrame, StoreFrame, worker
<1>4. ExecutionsKnow'
  <2>1. ASSUME NEW y \in Executions \ {x}
        PROVE  /\ exec'[y] = exec[y]
               /\ exec[y].at # "idle" => exec[y].message \in Messages
               /\ exec[y].at = "d1" => page'[exec[y].message] # None
               /\ exec[y].at = "notify" => exec[y].message \in claimed'
    BY DEF IInv, ExecutionsKnow, LocalsFrame, StoreFrame
  <2>2. \A k \in Messages : delivery'[k].tries = delivery[k].tries
    BY DEF WebhookFrame
  <2> QED BY <1>1, <1>2, <2>1, <2>2 DEF IInv, ExecutionsKnow, LocalsFrame, StoreFrame, KnowFrame
<1>5. Traced'
  <2>1. ASSUME NEW k \in Messages, Running(k), ~Running(k)'
        PROVE  k \in entry' \union claimed' \union excused'
    BY <2>1, <1>2 DEF Running, LocalsFrame
  <2> QED BY <2>1 DEF IInv, Traced, WebhookFrame, StoreFrame
<1>6. ReadersFind' /\ EntriesStand' /\ PermalinksHold'
  <2>1. ReadersFind'
    BY DEF IInv, ReadersFind, StoreFrame, worker
  <2>2. EntriesStand'
    BY <1>1 DEF IInv, TypeOK, EntriesStand, StoreFrame
  <2>3. PermalinksHold'
    BY DEF IInv, PermalinksHold, StoreFrame, WebhookFrame, worker
  <2> QED BY <2>1, <2>2, <2>3
<1> QED BY <1>3, <1>4, <1>5, <1>6 DEF IInv

\* A response ends the execution.
LEMMA RespondFrame ==
    ASSUME IInv, NEW x \in Executions, exec[x].at # "idle",
           NEW state \in {"stored", "skipped", "failed"}, Respond(x, state),
           state = "stored" => exec[x].message \in entry',
           exec[x].message \in entry' \union claimed' \union excused'
    PROVE  WebhookFrame(x) /\ LocalsFrame(x) /\ KnowFrame(x)
<1> DEFINE m == exec[x].message
<1>1. m \in Messages /\ delivery[m].tries > 0
  BY DEF IInv, ExecutionsKnow
<1>2. exec'[x] = Idle /\ exec' \in [Executions -> Locals] /\ \A y \in Executions \ {x} : exec'[y] = exec[y]
  BY LocalsTyped DEF IInv, TypeOK, Respond
<1>3. LocalsFrame(x)
  BY <1>2 DEF LocalsFrame
<1>4. KnowFrame(x)
  BY <1>2 DEF KnowFrame, Idle
<1>5. \A k \in Messages : delivery[k].state = "due" => delivery[k].tries < MaxDeliveries
  BY DEF IInv, Traced
<1>6. WebhookFrame(x)
  <2>1. CASE delivery' = delivery
    BY <2>1, <1>5 DEF IInv, TypeOK, WebhookFrame
  <2>2. CASE delivery' = Refused(m)
    BY <2>2, <1>1, <1>5, RefusedKeeps DEF WebhookFrame
  <2>3. CASE state # "failed" /\ delivery' = [delivery EXCEPT ![m].state = state]
    <3>1. delivery \in [Messages -> Webhooks]
      BY DEF IInv, TypeOK
    <3>2. delivery' \in [Messages -> Webhooks]
      BY <2>3, <3>1, WebhooksTyped
    <3>3. \A k \in Messages \ {m} : delivery'[k] = delivery[k]
      BY <2>3, <3>1
    <3>4. delivery'[m].tries = delivery[m].tries /\ delivery'[m].state = state
      BY <2>3, <3>1, <1>1 DEF Webhooks
    <3> QED BY <1>1, <1>5, <3>2, <3>3, <3>4 DEF WebhookFrame
  <2> QED BY <2>1, <2>2, <2>3 DEF Respond, Message
<1> QED BY <1>3, <1>4, <1>6

\* An execution that goes on leaves the webhook alone.
LEMMA GoOnFrame ==
    ASSUME IInv, NEW x \in Executions, exec[x].at # "idle", UNCHANGED delivery,
           NEW e \in Locals, exec' = [exec EXCEPT ![x] = e],
           e.at # "idle", e.message = exec[x].message
    PROVE  WebhookFrame(x) /\ LocalsFrame(x) /\ exec'[x] = e
<1>1. WebhookFrame(x)
  BY DEF IInv, TypeOK, Traced, WebhookFrame
<1>2. LocalsFrame(x) /\ exec'[x] = e
  BY DEF IInv, TypeOK, LocalsFrame
<1> QED BY <1>1, <1>2

\* The same when only the node changes.
LEMMA GoToFrame ==
    ASSUME IInv, NEW x \in Executions, exec[x].at # "idle",
           NEW node \in Nodes \ {"idle"}, GoTo(x, node), UNCHANGED delivery
    PROVE  WebhookFrame(x) /\ LocalsFrame(x) /\ exec'[x] = [exec[x] EXCEPT !.at = node]
<1> DEFINE e == [exec[x] EXCEPT !.at = node]
<1>1. exec[x] \in Locals
  BY DEF IInv, TypeOK
<1>2. e \in Locals /\ e.at = node /\ e.message = exec[x].message
  BY <1>1, LocalsTyped DEF Locals
<1>3. exec' = [exec EXCEPT ![x] = e]
  BY DEF GoTo
<1> HIDE DEF e
<1> QED BY <1>2, <1>3, GoOnFrame DEF e

\* An execution on its way to the alert has nothing left to know.
LEMMA AlertedFrame ==
    ASSUME IInv, NEW x \in Executions, exec[x].at # "idle", Alerted(x)
    PROVE  WebhookFrame(x) /\ LocalsFrame(x) /\ KnowFrame(x)
<1>1. "alert" \in Nodes \ {"idle"}
  BY DEF Nodes
<1>2. /\ WebhookFrame(x) /\ LocalsFrame(x)
      /\ exec'[x] = [exec[x] EXCEPT !.at = "alert"]
  BY <1>1, GoToFrame DEF Alerted
<1>3. exec'[x].at = "alert"
  BY <1>2 DEF IInv, TypeOK, Locals
<1> QED BY <1>2, <1>3 DEF KnowFrame

\* A step that leaves the stores alone is within their frame.
LEMMA StoreKept ==
    ASSUME IInv, NEW x \in Executions, UNCHANGED store,
           excused \subseteq excused', excused' \subseteq Messages
    PROVE  StoreFrame(x)
BY DEF IInv, TypeOK, StoreFrame, store

-----------------------------------------------------------------------------
(* The nodes of the workflow *)

\* The message is fetched: only its execution knows more.
LEMMA FetchStep ==
    ASSUME IInv, NEW x \in Executions, Fetch(x)
    PROVE  IInv'
<1>1. exec[x].at # "idle" /\ StoreFrame(x)
  BY StoreKept DEF Fetch, IInv, TypeOK
<1>2. CASE GoTo(x, "lookup") /\ UNCHANGED delivery
  <2>1. /\ WebhookFrame(x) /\ LocalsFrame(x)
        /\ exec'[x] = [exec[x] EXCEPT !.at = "lookup"]
    BY <1>1, <1>2, GoToFrame DEF Nodes
  <2>2. exec'[x].at = "lookup"
    BY <2>1 DEF IInv, TypeOK, Locals
  <2>3. KnowFrame(x)
    BY <2>2 DEF KnowFrame
  <2> QED BY <1>1, <2>1, <2>3, FrameKeeps DEF Frame
<1>3. CASE Alerted(x)
  BY <1>1, <1>3, AlertedFrame, FrameKeeps DEF Frame
<1> QED BY <1>2, <1>3 DEF Fetch

\* The row that was looked up is remembered; active means activated.
LEMMA LookupStep ==
    ASSUME IInv, NEW x \in Executions, Lookup(x)
    PROVE  IInv'
<1> DEFINE row == source[SourceOf[exec[x].message]]
           e == [exec[x] EXCEPT !.at = "build", !.row = row]
<1>1. exec[x].at # "idle" /\ StoreFrame(x)
  BY StoreKept DEF Lookup, IInv, TypeOK
<1>2. CASE exec' = [exec EXCEPT ![x].at = "build", ![x].row = row] /\ UNCHANGED delivery
  <2>1. SourceOf[exec[x].message] \in Sources
    BY <1>1, NewsletterIngestAssumption DEF IInv, ExecutionsKnow
  <2>2. row \in Statuses /\ (row = "active" => SourceOf[exec[x].message] \in wasActive)
    BY <2>1 DEF IInv, TypeOK, EntriesStand
  <2>3. exec[x] \in Locals
    BY DEF IInv, TypeOK
  <2>4. e \in Locals
    BY <2>2, <2>3, LocalsTyped
  <2>5. e.at = "build" /\ e.message = exec[x].message /\ e.row = row
    BY <2>3 DEF Locals
  <2>6. exec' = [exec EXCEPT ![x] = e]
    BY <1>2
  <2> HIDE DEF e
  <2>7. WebhookFrame(x) /\ LocalsFrame(x) /\ exec'[x] = e
    BY <1>1, <1>2, <2>4, <2>5, <2>6, GoOnFrame
  <2>8. KnowFrame(x)
    BY <2>2, <2>5, <2>7 DEF KnowFrame
  <2> QED BY <1>1, <2>7, <2>8, FrameKeeps DEF Frame
<1>3. CASE Alerted(x)
  BY <1>1, <1>3, AlertedFrame, FrameKeeps DEF Frame
<1> QED BY <1>2, <1>3 DEF Lookup, Message

\* The gate: an execution that passes was looked up active; one that is
\* skipped leaves that as its trace.
LEMMA BuildStep ==
    ASSUME IInv, NEW x \in Executions, Build(x)
    PROVE  IInv'
<1>1. exec[x].at = "build" /\ exec[x].message \in Messages
  BY DEF Build, IInv, ExecutionsKnow
<1>2. StoreFrame(x)
  BY <1>1, StoreKept DEF Build, IInv, TypeOK, Message
<1>3. CASE Pass(exec[x].row) /\ GoTo(x, "assets") /\ UNCHANGED delivery
  <2>1. /\ WebhookFrame(x) /\ LocalsFrame(x)
        /\ exec'[x] = [exec[x] EXCEPT !.at = "assets"]
    BY <1>1, <1>3, GoToFrame DEF Nodes
  <2>2. exec'[x].at = "assets"
    BY <2>1 DEF IInv, TypeOK, Locals
  <2>3. SourceOf[exec[x].message] \in wasActive
    BY <1>1, <1>3 DEF Pass, IInv, ExecutionsKnow
  <2>4. KnowFrame(x)
    BY <2>2, <2>3 DEF KnowFrame
  <2> QED BY <1>2, <2>1, <2>4, FrameKeeps DEF Frame
<1>4. CASE Alerted(x)
  BY <1>1, <1>2, <1>4, AlertedFrame, FrameKeeps DEF Frame
<1>5. CASE Respond(x, "skipped") /\ excused' = excused \union {Message(x)}
  BY <1>1, <1>2, <1>5, RespondFrame, FrameKeeps DEF Frame, Message
<1> QED BY <1>3, <1>4, <1>5 DEF Build

\* The images: what is captured is a page, whole or not.
LEMMA CaptureStep ==
    ASSUME IInv, NEW x \in Executions, Capture(x)
    PROVE  IInv'
<1>1. exec[x].at = "assets" /\ StoreFrame(x)
  BY StoreKept DEF Capture, IInv, TypeOK
<1>2. PICK html \in {"partial", "full"} :
          exec' = [exec EXCEPT ![x].at = "r2", ![x].html = html]
  BY DEF Capture
<1> DEFINE e == [exec[x] EXCEPT !.at = "r2", !.html = html]
<1>3. exec[x] \in Locals
  BY DEF IInv, TypeOK
<1>4. e \in Locals
  BY <1>3, LocalsTyped DEF Pages
<1>5. e.at = "r2" /\ e.message = exec[x].message /\ e.html = html
  BY <1>3 DEF Locals
<1>6. exec' = [exec EXCEPT ![x] = e]
  BY <1>2
<1> HIDE DEF e
<1>7. WebhookFrame(x) /\ LocalsFrame(x) /\ exec'[x] = e
  BY <1>1, <1>4, <1>5, <1>6, GoOnFrame DEF Capture
<1>8. html # None /\ SourceOf[exec[x].message] \in wasActive
  BY <1>1, NewsletterIngestAssumption DEF IInv, ExecutionsKnow
<1>9. KnowFrame(x)
  BY <1>5, <1>7, <1>8 DEF KnowFrame
<1> QED BY <1>1, <1>7, <1>9, FrameKeeps DEF Frame

\* The page before the entry: only an execution that wrote it goes on to D1,
\* and no page is ever taken away.
LEMMA WriteR2Step ==
    ASSUME IInv, NEW x \in Executions, WriteR2(x)
    PROVE  IInv'
<1> DEFINE m == exec[x].message
<1>1. /\ exec[x].at = "r2" /\ m \in Messages /\ exec[x].html # None
      /\ SourceOf[m] \in wasActive
  BY DEF WriteR2, IInv, ExecutionsKnow
<1>2. exec[x] \in Locals /\ page \in [Messages -> Pages]
  BY DEF IInv, TypeOK
<1>3. PutPage(x) => page' \in [Messages -> Pages] /\ page'[m] # None
  BY <1>1, <1>2 DEF PutPage, Message, Locals
<1>4. PutPage(x) => \A k \in Messages : page[k] # None => page'[k] # None
  BY <1>1, <1>2 DEF PutPage, Message
<1>5. PutPage(x) \/ UNCHANGED page
  BY DEF WriteR2
<1>6. StoreFrame(x)
  BY <1>2, <1>3, <1>4, <1>5 DEF WriteR2, StoreFrame, IInv, TypeOK
<1>7. CASE PutPage(x) /\ GoTo(x, "d1") /\ UNCHANGED delivery
  <2>1. /\ WebhookFrame(x) /\ LocalsFrame(x)
        /\ exec'[x] = [exec[x] EXCEPT !.at = "d1"]
    BY <1>1, <1>7, GoToFrame DEF Nodes
  <2>2. exec'[x].at = "d1"
    BY <1>2, <2>1 DEF Locals
  <2>3. KnowFrame(x)
    BY <1>1, <1>3, <1>7, <2>2 DEF KnowFrame
  <2> QED BY <1>6, <2>1, <2>3, FrameKeeps DEF Frame
<1>8. CASE Alerted(x)
  BY <1>1, <1>6, <1>8, AlertedFrame, FrameKeeps DEF Frame
<1> QED BY <1>7, <1>8 DEF WriteR2, PageFailed

\* The entry: its page is there, and it is the message's trace.
LEMMA WriteD1Step ==
    ASSUME IInv, NEW x \in Executions, WriteD1(x)
    PROVE  IInv'
<1> DEFINE m == exec[x].message
<1>1. /\ exec[x].at = "d1" /\ m \in Messages /\ page[m] # None
      /\ SourceOf[m] \in wasActive
  BY DEF WriteD1, IInv, ExecutionsKnow
<1>2. StoreFrame(x)
  BY <1>1 DEF WriteD1, StoreFrame, IInv, TypeOK, Message
<1>3. CASE entry' = entry \union {Message(x)} /\ Respond(x, "stored")
  BY <1>1, <1>2, <1>3, RespondFrame, FrameKeeps DEF Frame, Message
<1>4. CASE Alerted(x)
  BY <1>1, <1>2, <1>4, AlertedFrame, FrameKeeps DEF Frame
<1> QED BY <1>3, <1>4 DEF WriteD1

\* The claim of the alert is the trace, made now or by an earlier execution.
LEMMA ClaimAlertStep ==
    ASSUME IInv, NEW x \in Executions, ClaimAlert(x)
    PROVE  IInv'
<1> DEFINE m == exec[x].message
<1>1. exec[x].at = "alert" /\ m \in Messages
  BY DEF ClaimAlert, IInv, ExecutionsKnow
<1>2. /\ claimed \subseteq claimed' /\ claimed' \subseteq Messages
      /\ excused \subseteq excused' /\ excused' \subseteq Messages
      /\ m \in claimed' \union excused'
  BY <1>1 DEF ClaimAlert, Message, IInv, TypeOK
<1>3. StoreFrame(x)
  BY <1>2 DEF ClaimAlert, StoreFrame, IInv, TypeOK
<1>4. CASE Respond(x, "failed")
  BY <1>1, <1>2, <1>3, <1>4, RespondFrame, FrameKeeps DEF Frame
<1>5. CASE claimed' = claimed \union {Message(x)} /\ GoTo(x, "notify") /\ UNCHANGED delivery
  <2>1. /\ WebhookFrame(x) /\ LocalsFrame(x)
        /\ exec'[x] = [exec[x] EXCEPT !.at = "notify"]
    BY <1>1, <1>5, GoToFrame DEF Nodes
  <2>2. exec'[x].at = "notify"
    BY <2>1 DEF IInv, TypeOK, Locals
  <2>3. KnowFrame(x)
    BY <1>5, <2>2 DEF KnowFrame, Message
  <2> QED BY <1>3, <2>1, <2>3, FrameKeeps DEF Frame
<1> QED BY <1>4, <1>5 DEF ClaimAlert

\* The alert is sent; it was claimed before.
LEMMA NotifyStep ==
    ASSUME IInv, NEW x \in Executions, Notify(x)
    PROVE  IInv'
<1>1. exec[x].at # "idle" /\ exec[x].message \in claimed
  BY DEF Notify, IInv, ExecutionsKnow
<1>2. StoreFrame(x) /\ claimed' = claimed
  BY StoreKept DEF Notify, store, IInv, TypeOK
<1> QED BY <1>1, <1>2, RespondFrame, FrameKeeps DEF Notify, Frame

\* An execution that is lost leaves its message excused.
LEMMA LoseStep ==
    ASSUME IInv, NEW x \in Executions, Lose(x)
    PROVE  IInv'
<1>1. exec[x].at # "idle" /\ exec[x].message \in Messages
  BY DEF Lose, IInv, ExecutionsKnow
<1>2. StoreFrame(x) /\ exec[x].message \in excused'
  BY <1>1, StoreKept DEF Lose, Message, IInv, TypeOK
<1> QED BY <1>1, <1>2, RespondFrame, FrameKeeps DEF Lose, Frame

-----------------------------------------------------------------------------

\* The Worker only reads, and what a feed links to is found.
LEMMA WorkerKeeps ==
    ASSUME IInv, NEW q \in Readers, WorkerStep(q)
    PROVE  IInv'
<1>1. UNCHANGED Rest
  BY DEF WorkerStep, FeedRequest, Permalink, Feed, Page, EndRequest
<1>2. ExecutionsKnow' /\ EntriesStand' /\ Traced'
  BY <1>1 DEF IInv, ExecutionsKnow, EntriesStand, Traced, Running, Rest
<1>3. TypeOK' /\ ReadersFind' /\ PermalinksHold'
  <2> USE <1>1 DEF IInv, TypeOK, ReadersFind, PermalinksHold, Rest
  <2>1. ASSUME NEW s \in Sources, FeedRequest(q, s)
        PROVE  TypeOK' /\ ReadersFind' /\ PermalinksHold'
    BY <2>1 DEF FeedRequest
  <2>2. ASSUME NEW m \in Messages, Permalink(q, m)
        PROVE  TypeOK' /\ ReadersFind' /\ PermalinksHold'
    BY <2>2 DEF Permalink
  <2>3. CASE Feed(q)
    BY <2>3 DEF Feed, Permalinks, NoRead
  <2>4. CASE Page(q)
    BY <2>4 DEF Page, EntriesStand
  <2>5. CASE EndRequest(q)
    BY <2>5 DEF EndRequest, NoRead
  <2> QED BY <2>1, <2>2, <2>3, <2>4, <2>5 DEF WorkerStep
<1> QED BY <1>2, <1>3 DEF IInv

\* Every step keeps the invariant.
LEMMA NextIInv == IInv /\ [Next]_vars => IInv'
<1> SUFFICES ASSUME IInv, [Next]_vars PROVE IInv'
  OBVIOUS
<1>1. CASE UNCHANGED vars
  BY <1>1 DEF IInv, TypeOK, ExecutionsKnow, ReadersFind, EntriesStand, PermalinksHold,
              Traced, Running, vars, worker
<1>2. CASE Next
  <2>1. ASSUME NEW x \in Executions, ExecutionStep(x) PROVE IInv'
    BY <2>1, FetchStep, LookupStep, BuildStep, CaptureStep, WriteR2Step, WriteD1Step,
       ClaimAlertStep, NotifyStep DEF ExecutionStep
  <2> QED BY <1>2, <2>1, RegistryStep, DeliverStep, TimeoutStep, LoseStep, WorkerKeeps DEF Next
<1> QED BY <1>1, <1>2

\* The inductive invariant of the newsletter ingest.
LEMMA AlwaysIInv == Spec => []IInv
BY InitIInv, NextIInv, PTL DEF Spec

\* A permalink that a feed has listed is never answered 404 by the Worker, and
\* a message Resend was told is stored has its entry.
THEOREM PermalinksResolve == Spec => []PermalinksHold
BY AlwaysIInv, IInvSafe, PTL

\* An entry is of a Source that was active at some time.
THEOREM OnlyActivatedEntries == Spec => []OnlyActivated
BY AlwaysIInv, IInvSafe, PTL

\* A message Resend has given up was stored, alerted, skipped or lost to a
\* failure of n8n or D1.
THEOREM LossLeavesTrace == Spec => []NothingLostQuietly
BY AlwaysIInv, IInvSafe, PTL

=============================================================================
