---------------------- MODULE EnrichmentWorkflowProofs ----------------------
(***************************************************************************)
(* Proofs about EnrichmentWorkflow, for any executions, entries, URLs and  *)
(* handlers: that its server is ArticleIndex, that an entry is alerted at  *)
(* most once, and that an Article left failed is explained.                *)
(***************************************************************************)
EXTENDS EnrichmentWorkflow, TLAPS

-----------------------------------------------------------------------------
(* Types of the server *)

\* What the sets of places, statuses and replies contain.
LEMMA IndexConstants ==
    /\ Index!Owning \subseteq Index!Places
    /\ {"idle", "create", "lookup", "reply"} \subseteq Index!Places
    /\ Index!Statuses \subseteq Index!Replies
    /\ {None, "created", "invalid", "error"} \subseteq Index!Replies
    /\ {"structured", "lead", None} = Index!Summaries
    /\ {"absent", "processing", "complete", "failed"} = Index!Statuses
    /\ {"content", "preferences", "summarize", "categorize", "score",
        "complete", "fail"} = Index!Owning
    /\ Index!Idle \in Index!Locals
    /\ Index!Idle.at = "idle"
    /\ 0 \in Int
  BY DEF Index!Owning, Index!Places, Index!Statuses, Index!Replies,
         Index!Summaries, Index!Idle, Index!Locals

\* The part of Index!TypeOK about the handlers.
HandlerOK ==
    /\ handler \in [Handlers -> Index!Locals]
    /\ \A h \in Handlers : handler[h].at # "idle" => handler[h].url \in Urls

\* A handler that goes on stays a handler.
LEMMA IndexGotoType ==
  ASSUME Index!TypeOK, NEW h \in Handlers, NEW place \in Index!Places,
         Index!Goto(h, place), handler[h].at # "idle"
  PROVE  HandlerOK'
  BY DEF Index!TypeOK, HandlerOK, Index!Goto, Index!Locals

\* A handler that answers stays a handler.
LEMMA IndexAnswerType ==
  ASSUME Index!TypeOK, NEW h \in Handlers, NEW reply \in Index!Replies,
         Index!Answer(h, reply), handler[h].at # "idle"
  PROVE  HandlerOK'
  BY IndexConstants DEF Index!TypeOK, HandlerOK, Index!Answer, Index!Locals

\* A claimed row is a row.
LEMMA IndexInsertType ==
  ASSUME Index!TypeOK, NEW u \in Urls, Index!InsertRow(u)
  PROVE  article' \in [Urls -> Index!Rows]
  BY IndexConstants DEF Index!TypeOK, Index!InsertRow, Index!Rows

\* The server's types hold before the first request.
LEMMA IndexTypeInit == Index!Init => Index!TypeOK
  BY IndexConstants DEF Index!Init, Index!TypeOK, Index!Rows, Index!Idle

\* Every statement and call of the server keeps its types.
LEMMA IndexTypeStep ==
  ASSUME Index!TypeOK, [Index!Next]_index
  PROVE  Index!TypeOK'
  <1> USE IndexConstants DEF Index!TypeOK
  <1>1. ASSUME NEW h \in Handlers, NEW u \in Urls, NEW valid \in BOOLEAN,
               Index!Receive(h, u, valid)
        PROVE  Index!TypeOK'
    <2>1. IF valid THEN "create" \in Index!Places ELSE "reply" \in Index!Places
      OBVIOUS
    <2> QED
      BY <1>1, <2>1 DEF Index!Receive, Index!Idle, Index!Locals
  <1>2. ASSUME NEW h \in Handlers, Index!Create(h)
        PROVE  Index!TypeOK'
    BY <1>2, IndexGotoType, IndexInsertType
       DEF Index!Create, HandlerOK, Index!Url, Index!Unclaimed
  <1>3. ASSUME NEW h \in Handlers, Index!CreateFails(h)
        PROVE  Index!TypeOK'
    BY <1>3, IndexAnswerType, IndexInsertType
       DEF Index!CreateFails, HandlerOK, Index!Url, Index!Unclaimed
  <1>4. ASSUME NEW h \in Handlers, Index!Lookup(h)
        PROVE  Index!TypeOK'
    BY <1>4, IndexAnswerType DEF Index!Lookup, HandlerOK, Index!Url, Index!Rows
  <1>5. ASSUME NEW h \in Handlers, Index!Content(h)
        PROVE  Index!TypeOK'
    BY <1>5, IndexGotoType DEF Index!Content, HandlerOK
  <1>6. ASSUME NEW h \in Handlers, Index!ReadPreferences(h)
        PROVE  Index!TypeOK'
    BY <1>6, IndexGotoType DEF Index!ReadPreferences, HandlerOK
  <1>7. ASSUME NEW h \in Handlers, Index!Summarize(h)
        PROVE  Index!TypeOK'
    <2>1. PICK s \in Index!Summaries :
             handler' = [handler EXCEPT ![h].at = "categorize", ![h].summary = s]
      BY <1>7 DEF Index!Summarize
    <2>2. HandlerOK'
      BY <1>7, <2>1 DEF Index!Summarize, HandlerOK, Index!Locals
    <2>3. modelRuns' \in [Urls -> Nat]
      BY <1>7 DEF Index!Summarize, Index!Url
    <2> QED
      BY <1>7, <2>2, <2>3 DEF Index!Summarize, HandlerOK
  <1>8. ASSUME NEW h \in Handlers, Index!Categorize(h)
        PROVE  Index!TypeOK'
    BY <1>8, IndexGotoType DEF Index!Categorize, HandlerOK
  <1>9. ASSUME NEW h \in Handlers, Index!Score(h)
        PROVE  Index!TypeOK'
    <2> USE DEF Index!Score, HandlerOK, Index!OutOfRange, Index!Refuse
    <2>1. CASE Index!Goto(h, "fail")
      BY <1>9, <2>1, IndexGotoType
    <2>2. CASE ~Index!Goto(h, "fail")
      <3>1. PICK n \in ModelScores :
               handler' = [handler EXCEPT ![h].at = "complete", ![h].score = n]
        BY <1>9, <2>2
      <3>2. HandlerOK'
        BY <1>9, <3>1, IndexAssumption
           DEF Index!Locals, Index!ArticleIndexAssumption
      <3> QED
        BY <1>9, <3>2
    <2> QED
      BY <2>1, <2>2
  <1>10. ASSUME NEW h \in Handlers, Index!Complete(h)
         PROVE  Index!TypeOK'
    BY <1>10, IndexAnswerType
       DEF Index!Complete, HandlerOK, Index!Url, Index!Rows, Index!Locals,
           Index!Completion
  <1>11. ASSUME NEW h \in Handlers, Index!Fail(h)
         PROVE  Index!TypeOK'
    BY <1>11, IndexAnswerType
       DEF Index!Fail, HandlerOK, Index!Url, Index!Rows, Index!FailedStatus
  <1>12. ASSUME NEW h \in Handlers, Index!Finish(h) \/ Index!Cancel(h)
         PROVE  Index!TypeOK'
    BY <1>12 DEF Index!Finish, Index!Cancel, Index!Idle
  <1>13. CASE Index!Crash
    BY <1>13 DEF Index!Crash, Index!Owns, Index!Url, Index!Idle
  <1>14. CASE UNCHANGED index
    BY <1>14 DEF index
  <1> QED
    BY <1>1, <1>2, <1>3, <1>4, <1>5, <1>6, <1>7, <1>8, <1>9, <1>10, <1>11,
       <1>12, <1>13, <1>14 DEF Index!Next, Index!HandlerStep

-----------------------------------------------------------------------------
(* What the server's steps are about *)

\* Nobody but a request sets a handler to work, and a working handler keeps
\* its URL.
SameWork ==
    \A g \in Handlers :
        handler'[g].at # "idle" =>
            handler[g].at # "idle" /\ handler'[g].url = handler[g].url

\* A row exists only if it did before or a working handler claims it.
SameRows ==
    \A u \in Urls :
        article'[u].status # "absent" =>
            \/ article[u].status # "absent"
            \/ \E h \in Handlers : handler[h].at # "idle" /\ handler[h].url = u

\* A handler's own step sets no other to work and claims no foreign row.
LEMMA HandlerStepWork ==
  ASSUME Index!TypeOK, NEW h \in Handlers, Index!HandlerStep(h)
  PROVE  SameWork /\ SameRows
  <1> USE IndexConstants
      DEF Index!TypeOK, SameWork, SameRows, Index!Url, Index!Locals,
          Index!Rows, Index!Goto, Index!Answer
  <1>1. CASE Index!Create(h)
    <2>1. SameWork
      BY <1>1 DEF Index!Create
    <2>2. ASSUME NEW u \in Urls, u # handler[h].url
          PROVE  article'[u] = article[u]
      BY <1>1, <2>2 DEF Index!Create, Index!InsertRow
    <2> QED
      BY <1>1, <2>1, <2>2 DEF Index!Create
  <1>2. CASE Index!CreateFails(h)
    BY <1>2 DEF Index!CreateFails, Index!InsertRow
  <1>3. CASE Index!Lookup(h)
    BY <1>3 DEF Index!Lookup
  <1>4. CASE Index!Content(h) \/ Index!ReadPreferences(h) \/ Index!Categorize(h)
    BY <1>4 DEF Index!Content, Index!ReadPreferences, Index!Categorize
  <1>5. CASE Index!Summarize(h)
    BY <1>5 DEF Index!Summarize
  <1>6. CASE Index!Score(h)
    BY <1>6 DEF Index!Score, Index!Refuse, Index!OutOfRange
  <1>7. CASE Index!Complete(h)
    <2>1. SameWork
      BY <1>7 DEF Index!Complete
    <2>2. ASSUME NEW u \in Urls, u # handler[h].url
          PROVE  article'[u] = article[u]
      BY <1>7, <2>2 DEF Index!Complete
    <2> QED
      BY <1>7, <2>1, <2>2 DEF Index!Complete
  <1>8. CASE Index!Fail(h)
    <2>1. SameWork
      BY <1>8 DEF Index!Fail
    <2>2. ASSUME NEW u \in Urls, u # handler[h].url
          PROVE  article'[u] = article[u]
      BY <1>8, <2>2 DEF Index!Fail
    <2> QED
      BY <1>8, <2>1, <2>2 DEF Index!Fail
  <1>9. CASE Index!Finish(h)
    BY <1>9 DEF Index!Finish
  <1> QED
    BY <1>1, <1>2, <1>3, <1>4, <1>5, <1>6, <1>7, <1>8, <1>9
       DEF Index!HandlerStep

\* Neither does a closed connection or a crash.
LEMMA EnvironmentWork ==
  ASSUME Index!TypeOK,
         Index!Crash \/ \E h \in Handlers : Index!Cancel(h) \/ Index!Finish(h)
  PROVE  SameWork /\ SameRows
  BY IndexConstants
     DEF Index!TypeOK, SameWork, SameRows, Index!Crash, Index!Cancel,
         Index!Finish, Index!Locals

-----------------------------------------------------------------------------
(* Types of the executions, and the server as ArticleIndex *)

Items == [at: Nodes, entry: Entries \union {None},
          attempt: 0..MAX_ENRICH_RETRIES, handler: Handlers \union {None},
          told: BOOLEAN]

\* An execution that has taken its webhook has an entry, and one that waits
\* has a handler to wait for.
Placed ==
    \A x \in Executions :
        /\ exec[x].at # "webhook" => exec[x].entry \in Entries
        /\ exec[x].at = "waiting" => exec[x].handler \in Handlers

ExecOK == exec \in [Executions -> Items] /\ Placed

\* x goes to the node and keeps its entry and what it was told; the other
\* executions stay where they are.
Moves(x, node) ==
    /\ exec'[x].at = node
    /\ exec'[x].entry = exec[x].entry
    /\ exec'[x].told = exec[x].told
    /\ \A y \in Executions \ {x} : exec'[y] = exec[y]

\* No execution that has taken its webhook gives it back or changes its entry.
KeepsEntries ==
    \A y \in Executions :
        exec[y].at # "webhook" =>
            exec'[y].at # "webhook" /\ exec'[y].entry = exec[y].entry

\* An execution that is past its webhook may become any item with its entry.
LEMMA ItemChanged ==
  ASSUME ExecOK, NEW x \in Executions, NEW r \in Items,
         exec' = [exec EXCEPT ![x] = r],
         exec[x].at # "webhook" => r.entry = exec[x].entry,
         r.at # "webhook", r.entry \in Entries,
         r.at = "waiting" => r.handler \in Handlers
  PROVE  ExecOK' /\ KeepsEntries
  <1>1. exec' \in [Executions -> Items]
    BY DEF ExecOK
  <1>2. exec'[x] = r /\ \A y \in Executions : y # x => exec'[y] = exec[y]
    BY DEF ExecOK
  <1> QED
    BY <1>1, <1>2 DEF ExecOK, Placed, KeepsEntries

\* What GoTo does.
LEMMA GoToMoves ==
  ASSUME ExecOK, NEW x \in Executions, NEW node \in Nodes \ {"webhook", "waiting"},
         exec[x].at # "webhook", GoTo(x, node)
  PROVE  ExecOK' /\ Moves(x, node) /\ KeepsEntries
  <1> DEFINE attempt == IF node = "retryable" THEN exec[x].attempt ELSE 0
             r == [exec[x] EXCEPT !.at = node, !.handler = None,
                                  !.attempt = attempt]
  <1>1. exec[x] \in Items /\ exec[x].entry \in Entries
    BY DEF ExecOK, Placed
  <1>2. exec' = [exec EXCEPT ![x] = r]
    BY <1>1 DEF GoTo, ExecOK, Items
  <1>3. attempt \in 0..MAX_ENRICH_RETRIES
    BY <1>1 DEF Items, MAX_ENRICH_RETRIES
  <1> HIDE DEF attempt
  <1>4. r \in Items /\ r.at = node /\ r.entry = exec[x].entry /\ r.told = exec[x].told
    BY <1>1, <1>3 DEF Items
  <1> HIDE DEF r
  <1>5. ExecOK' /\ KeepsEntries
    BY <1>1, <1>2, <1>4, ItemChanged
  <1> QED
    BY <1>2, <1>4, <1>5 DEF Moves, ExecOK

\* The types hold before the first webhook.
LEMMA ExecInit == Init => ExecOK
  BY DEF Init, ExecOK, Items, Placed, Nodes, Ended, MAX_ENRICH_RETRIES

\* Every step of an execution or of the server keeps the executions' types,
\* and is a step of ArticleIndex or leaves it alone.
LEMMA ExecStep ==
  ASSUME ExecOK, [Next]_vars
  PROVE  ExecOK' /\ KeepsEntries /\ [Index!Next]_index
  <1> USE DEF Nodes, Ended
  <1>1. ASSUME NEW x \in Executions, Accept(x)
        PROVE  ExecOK' /\ KeepsEntries /\ [Index!Next]_index
    <2>1. PICK first \in Entries :
            exec' = [exec EXCEPT ![x].at = "prepare", ![x].entry = first]
      BY <1>1 DEF Accept
    <2> DEFINE r == [exec[x] EXCEPT !.at = "prepare", !.entry = first]
    <2>2. exec[x] \in Items
      BY DEF ExecOK
    <2>3. r \in Items /\ r.at = "prepare" /\ r.entry = first
      BY <2>2 DEF Items
    <2>4. exec' = [exec EXCEPT ![x] = r]
      BY <2>1, <2>2 DEF ExecOK, Items
    <2> HIDE DEF r
    <2> QED
      BY <1>1, <2>3, <2>4, ItemChanged DEF Accept
  <1>2. ASSUME NEW x \in Executions, Prepare(x)
        PROVE  ExecOK' /\ KeepsEntries /\ [Index!Next]_index
    BY <1>2, GoToMoves DEF Prepare
  <1>3. ASSUME NEW x \in Executions, Call(x)
        PROVE  ExecOK' /\ KeepsEntries /\ [Index!Next]_index
    <2>1. CASE GoTo(x, "retryable") /\ UNCHANGED index
      BY <1>3, <2>1, GoToMoves DEF Call
    <2>2. ASSUME NEW h \in Handlers,
                 Index!Receive(h, EntryUrl[Entry(x)], Entry(x) \notin Malformed),
                 exec' = [exec EXCEPT ![x].at = "waiting", ![x].handler = h]
          PROVE  ExecOK' /\ KeepsEntries /\ [Index!Next]_index
      <3>1. ExecOK' /\ KeepsEntries
        BY <1>3, <2>2 DEF Call, ExecOK, Items, Placed, KeepsEntries
      <3>2. EntryUrl[Entry(x)] \in Urls
        BY <1>3, EnrichmentWorkflowAssumption
           DEF Call, ExecOK, Placed, Entry, EnrichmentWorkflowAssumption
      <3>3. (Entry(x) \notin Malformed) \in BOOLEAN
        OBVIOUS
      <3>4. \E u \in Urls, valid \in BOOLEAN : Index!Receive(h, u, valid)
        BY <2>2, <3>2, <3>3
      <3> QED
        BY <3>1, <3>4 DEF Index!Next
    <2> QED
      BY <1>3, <2>1, <2>2 DEF Call
  <1>4. ASSUME NEW x \in Executions, Respond(x)
        PROVE  ExecOK' /\ KeepsEntries /\ [Index!Next]_index
    <2>1. exec[x].handler \in Handlers
      BY <1>4 DEF Respond, ExecOK, Placed
    <2>2. Index!Next
      BY <1>4, <2>1 DEF Respond, Index!Next, Index!HandlerStep
    <2>3. ExecOK' /\ KeepsEntries
      <3> DEFINE reply == handler[exec[x].handler].reply
                 to == Output(reply)
                 attempt == IF to = "retryable" THEN exec[x].attempt ELSE 0
                 told == reply \notin {"invalid", "error"}
                 r == [exec[x] EXCEPT !.at = to, !.handler = None,
                                      !.attempt = attempt, !.told = told]
      <3>1. exec[x] \in Items /\ exec[x].entry \in Entries
        BY <1>4 DEF Respond, ExecOK, Placed
      <3>2. to \in {"terminal", "retryable", "enriched"}
        BY DEF Output
      <3>3. attempt \in 0..MAX_ENRICH_RETRIES
        BY <3>1 DEF Items, MAX_ENRICH_RETRIES
      <3>4. told \in BOOLEAN
        OBVIOUS
      <3>5. exec' = [exec EXCEPT ![x] = r]
        <4> HIDE DEF reply, to
        <4>1. exec' = [exec EXCEPT ![x].at = to, ![x].handler = None,
                         ![x].attempt = IF to = "retryable" THEN @ ELSE 0,
                         ![x].told = reply \notin {"invalid", "error"}]
          BY <1>4 DEF Respond, reply, to
        <4> QED
          BY <4>1, <3>1 DEF ExecOK, Items
      <3> HIDE DEF told, attempt, to
      <3>6. r \in Items /\ r.at = to /\ r.entry = exec[x].entry
        BY <3>1, <3>2, <3>3, <3>4 DEF Items
      <3> HIDE DEF r
      <3> QED
        BY <1>4, <3>1, <3>2, <3>5, <3>6, ItemChanged DEF Respond
    <2> QED
      BY <2>2, <2>3
  <1>5. ASSUME NEW x \in Executions, TimeOut(x)
        PROVE  ExecOK' /\ KeepsEntries /\ [Index!Next]_index
    <2>1. exec[x].handler \in Handlers
      BY <1>5 DEF TimeOut, ExecOK, Placed
    <2>2. Index!Next
      BY <1>5, <2>1 DEF TimeOut, Index!Next
    <2> QED
      BY <1>5, <2>2, GoToMoves DEF TimeOut
  <1>6. ASSUME NEW x \in Executions, Classify(x)
        PROVE  ExecOK' /\ KeepsEntries /\ [Index!Next]_index
    <2>1. CASE GoTo(x, "alert")
      BY <1>6, <2>1, GoToMoves DEF Classify
    <2>2. CASE ~GoTo(x, "alert")
      <3>1. PICK carried \in ItemCarried :
              /\ Attempt(x, carried) <= MAX_ENRICH_RETRIES
              /\ exec' = [exec EXCEPT ![x].at = "call",
                                      ![x].attempt = Attempt(x, carried)]
        BY <1>6, <2>2 DEF Classify
      <3>2. Attempt(x, carried) \in 0..MAX_ENRICH_RETRIES
        BY <3>1 DEF Attempt, ExecOK, Items, MAX_ENRICH_RETRIES
      <3> QED
        BY <1>6, <3>1, <3>2 DEF Classify, ExecOK, Items, Placed, KeepsEntries
    <2> QED
      BY <2>1, <2>2
  <1>7. ASSUME NEW x \in Executions, ClaimAlert(x)
        PROVE  ExecOK' /\ KeepsEntries /\ [Index!Next]_index
    <2>1. \E node \in {"notify", "failed", "stopped"} : GoTo(x, node)
      BY <1>7 DEF ClaimAlert
    <2> QED
      BY <1>7, <2>1, GoToMoves DEF ClaimAlert
  <1>8. ASSUME NEW x \in Executions, Notify(x)
        PROVE  ExecOK' /\ KeepsEntries /\ [Index!Next]_index
    BY <1>8, GoToMoves DEF Notify
  <1>9. ASSUME NEW h \in Handlers, Serve(h)
        PROVE  ExecOK' /\ KeepsEntries /\ [Index!Next]_index
    <2>1. Index!Next
      BY <1>9 DEF Serve, Index!Next
    <2> QED
      BY <1>9, <2>1 DEF Serve, workflow, ExecOK, Placed, KeepsEntries
  <1>10. CASE Crash
    <2>1. Index!Next
      BY <1>10 DEF Crash, Index!Next
    <2> QED
      BY <1>10, <2>1 DEF Crash, ExecOK, Items, Placed, KeepsEntries
  <1>11. CASE UNCHANGED vars
    BY <1>11 DEF vars, index, workflow, ExecOK, Placed, KeepsEntries
  <1> QED
    BY <1>1, <1>2, <1>3, <1>4, <1>5, <1>6, <1>7, <1>8, <1>9, <1>10, <1>11
       DEF Next, ExecutionStep

\* The composition has the types of its parts.
TypeInv == TypeOK /\ Placed

\* TypeOK is the server's types with those of the executions and the alerts.
LEMMA TypeParts ==
    TypeInv <=> /\ Index!TypeOK
                /\ ExecOK
                /\ claimed \subseteq Entries
                /\ notified \in [Entries -> Nat]
  BY DEF TypeInv, TypeOK, ExecOK, Items

\* The types hold at the start.
LEMMA TypeInit == Init => TypeInv
  <1> SUFFICES ASSUME Init PROVE TypeInv
    OBVIOUS
  <1>1. claimed \subseteq Entries /\ notified \in [Entries -> Nat]
    BY DEF Init
  <1> QED
    BY <1>1, IndexTypeInit, ExecInit, TypeParts DEF Init

\* Every step keeps the types.
LEMMA TypeStep == TypeInv /\ [Next]_vars => TypeInv'
  <1> SUFFICES ASSUME TypeInv, [Next]_vars PROVE TypeInv'
    OBVIOUS
  <1>1. /\ Index!TypeOK /\ ExecOK
        /\ claimed \subseteq Entries /\ notified \in [Entries -> Nat]
    BY TypeParts
  <1>2. Index!TypeOK' /\ ExecOK'
    BY <1>1, ExecStep, IndexTypeStep
  <1>3. claimed' \subseteq Entries /\ notified' \in [Entries -> Nat]
    <2>1. ASSUME NEW x \in Executions, ClaimAlert(x)
          PROVE  claimed' \subseteq Entries /\ notified' = notified
      <3>1. Entry(x) \in Entries
        BY <1>1, <2>1 DEF ClaimAlert, ExecOK, Placed, Entry
      <3> QED
        BY <1>1, <2>1, <3>1 DEF ClaimAlert
    <2>2. ASSUME NEW x \in Executions, Notify(x)
          PROVE  claimed' = claimed /\ notified' \in [Entries -> Nat]
      BY <1>1, <2>2 DEF Notify
    <2>3. \/ \E x \in Executions : ClaimAlert(x) \/ Notify(x)
          \/ UNCHANGED <<claimed, notified>>
      BY DEF Next, ExecutionStep, Accept, Prepare, Call, Respond, TimeOut,
             Classify, Serve, Crash, vars, workflow
    <2> QED
      BY <1>1, <2>1, <2>2, <2>3
  <1>4. (/\ Index!TypeOK /\ ExecOK
         /\ claimed \subseteq Entries /\ notified \in [Entries -> Nat])'
    BY <1>2, <1>3
  <1> QED
    BY <1>4, TypeParts DEF TypeInv, TypeOK, ExecOK, Items

\* Every reachable state has its types.
THEOREM WorkflowTypes == Spec => []TypeOK
  <1>1. Spec => []TypeInv
    BY TypeInit, TypeStep, PTL DEF Spec
  <1>2. TypeInv => TypeOK
    BY DEF TypeInv
  <1> QED
    BY <1>1, <1>2, PTL

\* The server of the composition is ArticleIndex: it starts as it starts, and
\* no execution, timeout or crash makes a step of its own on its variables, so
\* what is proved of ArticleIndex's steps holds beside the workflow.
THEOREM WorkflowDrivesIndex == Spec => Index!Init /\ [][Index!Next]_index
  <1>1. Init => Index!Init
    BY DEF Init
  <1>2. TypeInv /\ [Next]_vars => [Index!Next]_index
    BY ExecStep, TypeParts
  <1> QED
    BY <1>1, <1>2, TypeInit, TypeStep, PTL DEF Spec

-----------------------------------------------------------------------------
(* The alerts *)

\* An alert that was sent is claimed, and an execution that is about to send
\* one has the claim, alone, and nothing was sent for it before.
Alerting ==
    /\ \A e \in Entries :
          /\ notified[e] <= 1
          /\ notified[e] # 0 => e \in claimed
    /\ \A x \in Executions :
          exec[x].at = "notify" => Entry(x) \in claimed /\ notified[Entry(x)] = 0
    /\ \A x, y \in Executions :
          exec[x].at = "notify" /\ exec[y].at = "notify" /\ Entry(x) = Entry(y)
              => x = y

\* Only Claim alert sends an execution to Notify or to Fail execution.
LEMMA OtherNodes ==
  ASSUME ExecOK, [Next]_vars,
         ~ \E x \in Executions : ClaimAlert(x) \/ Notify(x)
  PROVE  /\ UNCHANGED <<claimed, notified>>
         /\ \A y \in Executions :
               /\ exec'[y].at = "notify" => exec[y].at = "notify"
               /\ exec'[y].at = "failed" => exec[y].at = "failed"
  <1> DEFINE Goal == /\ UNCHANGED <<claimed, notified>>
                     /\ \A y \in Executions :
                           /\ exec'[y].at = "notify" => exec[y].at = "notify"
                           /\ exec'[y].at = "failed" => exec[y].at = "failed"
  <1>1. ASSUME NEW x \in Executions, NEW node \in {"call", "alert", "retryable"},
               GoTo(x, node), exec[x].at # "webhook", UNCHANGED <<claimed, notified>>
        PROVE  Goal
    <2>1. Moves(x, node)
      BY <1>1, GoToMoves DEF Nodes, Ended
    <2> QED
      BY <1>1, <2>1 DEF Moves
  <1>2. ASSUME NEW x \in Executions, Accept(x)
        PROVE  Goal
    BY <1>2 DEF Accept, ExecOK, Items
  <1>3. ASSUME NEW x \in Executions, Prepare(x)
        PROVE  Goal
    BY <1>1, <1>3 DEF Prepare
  <1>4. ASSUME NEW x \in Executions, Call(x)
        PROVE  Goal
    <2>1. CASE GoTo(x, "retryable")
      BY <1>1, <1>4, <2>1 DEF Call
    <2>2. CASE ~GoTo(x, "retryable")
      <3>1. PICK h \in Handlers :
              exec' = [exec EXCEPT ![x].at = "waiting", ![x].handler = h]
        BY <1>4, <2>2 DEF Call
      <3> QED
        BY <1>4, <3>1 DEF Call, ExecOK, Items
    <2> QED
      BY <2>1, <2>2
  <1>5. ASSUME NEW x \in Executions, Respond(x)
        PROVE  Goal
    BY <1>5 DEF Respond, Output, ExecOK, Items
  <1>6. ASSUME NEW x \in Executions, TimeOut(x)
        PROVE  Goal
    BY <1>1, <1>6 DEF TimeOut
  <1>7. ASSUME NEW x \in Executions, Classify(x)
        PROVE  Goal
    <2>1. CASE GoTo(x, "alert")
      BY <1>1, <1>7, <2>1 DEF Classify
    <2>2. CASE ~GoTo(x, "alert")
      <3>1. PICK n : exec' = [exec EXCEPT ![x].at = "call", ![x].attempt = n]
        BY <1>7, <2>2 DEF Classify
      <3> QED
        BY <1>7, <3>1 DEF Classify, ExecOK, Items
    <2> QED
      BY <2>1, <2>2
  <1>8. ASSUME NEW h \in Handlers, Serve(h)
        PROVE  Goal
    BY <1>8 DEF Serve, workflow
  <1>9. ASSUME Crash
        PROVE  Goal
    BY <1>9 DEF Crash, ExecOK, Items
  <1>10. ASSUME UNCHANGED vars
         PROVE  Goal
    BY <1>10 DEF vars, workflow
  <1> HIDE DEF Goal
  <1>11. ASSUME NEW x \in Executions, Accept(x) \/ ExecutionStep(x)
         PROVE  Goal
    BY <1>2, <1>3, <1>4, <1>5, <1>6, <1>7, <1>11 DEF ExecutionStep
  <1>12. Goal
    BY <1>8, <1>9, <1>10, <1>11 DEF Next
  <1> QED
    BY <1>12 DEF Goal

\* What Claim alert does: the claim precedes Notify, and is new there.
LEMMA ClaimEffect ==
  ASSUME ExecOK, NEW x \in Executions, ClaimAlert(x)
  PROVE  /\ claimed \subseteq claimed'
         /\ notified' = notified
         /\ exec'[x].at \in {"notify", "failed"} => Entry(x) \in claimed'
         /\ exec'[x].at = "notify" => Entry(x) \notin claimed
         /\ \A y \in Executions \ {x} : exec'[y] = exec[y]
  <1>1. CASE /\ claimed' = claimed \union {Entry(x)}
             /\ GoTo(x, IF FirstClaim(x) THEN "notify" ELSE "failed")
    <2>1. Moves(x, IF FirstClaim(x) THEN "notify" ELSE "failed")
      BY <1>1, GoToMoves DEF ClaimAlert, Nodes, Ended
    <2> QED
      BY <1>1, <2>1 DEF Moves, ClaimAlert, FirstClaim
  <1>2. CASE /\ GoTo(x, "stopped")
             /\ claimed' \in {claimed, claimed \union {Entry(x)}}
    <2>1. Moves(x, "stopped")
      BY <1>2, GoToMoves DEF ClaimAlert, Nodes, Ended
    <2> QED
      BY <1>2, <2>1 DEF Moves, ClaimAlert
  <1> QED
    BY <1>1, <1>2 DEF ClaimAlert

\* What Notify does: the execution leaves it, whether or not the alert went.
LEMMA NotifyEffect ==
  ASSUME ExecOK, NEW x \in Executions, Notify(x)
  PROVE  /\ claimed' = claimed
         /\ notified' = [notified EXCEPT ![Entry(x)] = @ + 1] \/ notified' = notified
         /\ exec'[x].at \in {"failed", "stopped"}
         /\ \A y \in Executions \ {x} : exec'[y] = exec[y]
  <1>1. \E node \in {"failed", "stopped"} : Moves(x, node)
    BY GoToMoves DEF Notify, Nodes, Ended
  <1> QED
    BY <1>1 DEF Notify, Moves

\* Every step keeps the alerts in order.
LEMMA AlertingStep ==
  ASSUME TypeInv, Alerting, [Next]_vars
  PROVE  Alerting'
  <1>1. /\ ExecOK /\ ExecOK' /\ KeepsEntries
        /\ notified \in [Entries -> Nat]
    BY TypeParts, ExecStep
  <1>2. ASSUME NEW x \in Executions, exec[x].at = "notify"
        PROVE  Entry(x)' = Entry(x) /\ Entry(x) \in Entries
    BY <1>1, <1>2 DEF KeepsEntries, Entry, ExecOK, Placed
  <1>3. ASSUME NEW x \in Executions, ClaimAlert(x)
        PROVE  Alerting'
    <2>1. /\ Entry(x)' = Entry(x)
          /\ Entry(x) \in Entries
          /\ \A y \in Executions \ {x} : Entry(y)' = Entry(y)
      BY <1>1, <1>3, ClaimEffect DEF ClaimAlert, KeepsEntries, Entry, ExecOK, Placed
    <2>2. Entry(x) \notin claimed => notified[Entry(x)] = 0
      BY <2>1 DEF Alerting
    <2> QED
      BY <1>1, <1>3, <2>1, <2>2, ClaimEffect DEF Alerting
  <1>4. ASSUME NEW x \in Executions, Notify(x)
        PROVE  Alerting'
    <2>1. Entry(x) \in Entries /\ Entry(x) \in claimed /\ notified[Entry(x)] = 0
      BY <1>2, <1>4 DEF Notify, Alerting
    <2>2. \A e \in Entries :
             /\ e # Entry(x) => notified'[e] = notified[e]
             /\ notified'[e] <= 1
             /\ notified'[e] # 0 => e \in claimed
      BY <1>1, <1>4, <2>1, NotifyEffect DEF Alerting
    <2>3. \A y \in Executions :
             exec'[y].at = "notify" =>
                /\ y # x /\ exec[y].at = "notify"
                /\ Entry(y)' = Entry(y) /\ Entry(y) # Entry(x)
      <3> SUFFICES ASSUME NEW y \in Executions, exec'[y].at = "notify"
                   PROVE  /\ y # x /\ exec[y].at = "notify"
                          /\ Entry(y)' = Entry(y) /\ Entry(y) # Entry(x)
        OBVIOUS
      <3>1. y # x /\ exec[y].at = "notify"
        BY <1>1, <1>4, NotifyEffect
      <3>2. Entry(y) # Entry(x)
        BY <1>4, <3>1 DEF Alerting, Notify
      <3> QED
        BY <1>2, <3>1, <3>2
    <2>4. claimed' = claimed
      BY <1>1, <1>4, NotifyEffect
    <2>5. ASSUME NEW y \in Executions, exec'[y].at = "notify"
          PROVE  Entry(y)' \in claimed' /\ notified'[Entry(y)'] = 0
      BY <1>2, <2>2, <2>3, <2>4, <2>5 DEF Alerting
    <2>6. ASSUME NEW y \in Executions, NEW z \in Executions,
                 exec'[y].at = "notify", exec'[z].at = "notify",
                 Entry(y)' = Entry(z)'
          PROVE  y = z
      BY <2>3, <2>6 DEF Alerting
    <2> QED
      BY <2>2, <2>4, <2>5, <2>6 DEF Alerting
  <1>5. CASE ~ \E x \in Executions : ClaimAlert(x) \/ Notify(x)
    BY <1>1, <1>2, <1>5, OtherNodes DEF Alerting
  <1> QED
    BY <1>3, <1>4, <1>5

\* The invariant of the alerts.
AlertInv == TypeInv /\ Alerting

\* It holds at the start, and every step keeps it.
LEMMA AlertInvariance == Spec => []AlertInv
  <1>1. Init => Alerting
    BY DEF Init, Alerting
  <1>2. Alerting /\ UNCHANGED vars => Alerting'
    BY DEF Alerting, Entry, vars, workflow
  <1> QED
    BY <1>1, TypeInit, TypeStep, AlertingStep, PTL DEF Spec, AlertInv

\* However often and concurrently the executions of an entry fail, time out
\* or lose the server, n8n's Notify is sent at most once for it.
THEOREM WorkflowAlertsOnce == Spec => []AlertOnce
  <1>1. AlertInv => AlertOnce
    BY DEF AlertInv, Alerting, AlertOnce
  <1> QED
    BY <1>1, AlertInvariance, PTL

-----------------------------------------------------------------------------
(* Why an Article is failed *)

\* Some execution's webhook was about the URL.
Asked(u) ==
    \E x \in Executions : exec[x].at # "webhook" /\ EntryUrl[Entry(x)] = u

\* An execution fails with its alert claimed and is done only if it was told;
\* whatever the server works on or has a row for, an execution asked for.
Explained ==
    /\ \A x \in Executions :
          /\ exec[x].at = "failed" => Entry(x) \in claimed
          /\ exec[x].at = "enriched" => exec[x].told
    /\ \A h \in Handlers : handler[h].at # "idle" => Asked(handler[h].url)
    /\ \A u \in Urls : article[u].status # "absent" => Asked(u)

\* Asked in the next state, of a URL of this or of the next one.
AskedNext(u) ==
    \E x \in Executions : exec'[x].at # "webhook" /\ EntryUrl[exec'[x].entry] = u

\* What was asked for stays asked for.
LEMMA AskedStays ==
  ASSUME KeepsEntries, NEW ACTION u, Asked(u)
  PROVE  AskedNext(u)
  BY DEF KeepsEntries, Asked, AskedNext, Entry

\* An execution that is done was told so by the step that ended it.
LEMMA ToldStep ==
  ASSUME ExecOK, [Next]_vars, NEW y \in Executions,
         exec[y].at = "enriched" => exec[y].told
  PROVE  exec'[y].at = "enriched" => exec'[y].told
  <1> DEFINE Goal == exec'[y].at = "enriched" => exec'[y].told
  <1>1. ASSUME NEW x \in Executions, NEW node \in Nodes \ {"webhook", "waiting", "enriched"},
               GoTo(x, node), exec[x].at # "webhook"
        PROVE  Goal
    <2>1. Moves(x, node)
      BY <1>1, GoToMoves
    <2> QED
      BY <1>1, <2>1 DEF Moves
  <1> USE DEF Nodes, Ended
  <1>2. ASSUME NEW x \in Executions, Call(x) \/ Classify(x)
        PROVE  Goal
    <2>1. CASE GoTo(x, "retryable") \/ GoTo(x, "alert")
      BY <1>1, <1>2, <2>1 DEF Call, Classify
    <2>2. CASE ~(GoTo(x, "retryable") \/ GoTo(x, "alert"))
      <3>1. \/ \E h : exec' = [exec EXCEPT ![x].at = "waiting", ![x].handler = h]
            \/ \E n : exec' = [exec EXCEPT ![x].at = "call", ![x].attempt = n]
        BY <1>2, <2>2 DEF Call, Classify
      <3> QED
        BY <3>1 DEF ExecOK, Items
    <2> QED
      BY <2>1, <2>2
  <1>3. ASSUME NEW x \in Executions, Accept(x)
        PROVE  Goal
    BY <1>3 DEF Accept, ExecOK, Items
  <1>4. ASSUME NEW x \in Executions, Prepare(x) \/ TimeOut(x) \/ Notify(x)
        PROVE  Goal
    BY <1>1, <1>4 DEF Prepare, TimeOut, Notify
  <1>5. ASSUME NEW x \in Executions, ClaimAlert(x)
        PROVE  Goal
    <2>1. \E node \in {"notify", "failed", "stopped"} : GoTo(x, node)
      BY <1>5 DEF ClaimAlert
    <2> QED
      BY <1>1, <1>5, <2>1 DEF ClaimAlert
  <1>6. ASSUME NEW x \in Executions, Respond(x)
        PROVE  Goal
    BY <1>6 DEF Respond, Output, ExecOK, Items
  <1>7. ASSUME NEW h \in Handlers, Serve(h)
        PROVE  Goal
    BY <1>7 DEF Serve, workflow
  <1>8. ASSUME Crash
        PROVE  Goal
    BY <1>8 DEF Crash, ExecOK, Items
  <1>9. ASSUME UNCHANGED vars
        PROVE  Goal
    BY <1>9 DEF vars, workflow
  <1> HIDE DEF Goal
  <1>10. Goal
    BY <1>2, <1>3, <1>4, <1>5, <1>6, <1>7, <1>8, <1>9
       DEF Next, ExecutionStep
  <1> QED
    BY <1>10 DEF Goal

\* An execution that reaches Fail execution has its alert claimed.
LEMMA ClaimedStep ==
  ASSUME TypeInv, Alerting, [Next]_vars, NEW y \in Executions,
         exec[y].at = "failed" => Entry(y) \in claimed
  PROVE  exec'[y].at = "failed" => Entry(y)' \in claimed'
  <1>1. ExecOK /\ KeepsEntries
    BY TypeParts, ExecStep
  <1>2. ASSUME NEW x \in Executions, ClaimAlert(x)
        PROVE  exec'[y].at = "failed" => Entry(y)' \in claimed'
    BY <1>1, <1>2, ClaimEffect DEF ClaimAlert, KeepsEntries, Entry
  <1>3. ASSUME NEW x \in Executions, Notify(x)
        PROVE  exec'[y].at = "failed" => Entry(y)' \in claimed'
    BY <1>1, <1>3, NotifyEffect DEF Notify, KeepsEntries, Entry, Alerting
  <1>4. CASE ~ \E x \in Executions : ClaimAlert(x) \/ Notify(x)
    BY <1>1, <1>4, OtherNodes DEF KeepsEntries, Entry
  <1> QED
    BY <1>2, <1>3, <1>4

\* Only what an execution asks for is worked on.
LEMMA WorkStep ==
  ASSUME ExecOK, Index!TypeOK, [Next]_vars
  PROVE  \/ SameWork /\ SameRows
         \/ \E x \in Executions, h \in Handlers :
               /\ exec[x].at # "webhook"
               /\ handler'[h].url = EntryUrl[Entry(x)]
               /\ \A g \in Handlers \ {h} : handler'[g] = handler[g]
               /\ article' = article
  <1> DEFINE Goal == SameWork /\ SameRows
  <1>1. CASE UNCHANGED <<article, handler>>
    BY <1>1 DEF SameWork, SameRows
  <1>2. ASSUME NEW x \in Executions, Call(x), ~ UNCHANGED index
        PROVE  \E h \in Handlers :
                  /\ exec[x].at # "webhook"
                  /\ handler'[h].url = EntryUrl[Entry(x)]
                  /\ \A g \in Handlers \ {h} : handler'[g] = handler[g]
                  /\ article' = article
    <2>1. PICK h \in Handlers :
            Index!Receive(h, EntryUrl[Entry(x)], Entry(x) \notin Malformed)
      BY <1>2 DEF Call
    <2> QED
      BY <1>2, <2>1 DEF Call, Index!Receive, Index!Idle, Index!TypeOK
  <1>3. ASSUME NEW x \in Executions, Respond(x) \/ TimeOut(x)
        PROVE  Goal
    <2>1. exec[x].handler \in Handlers
      BY <1>3 DEF Respond, TimeOut, ExecOK, Placed
    <2> QED
      BY <1>3, <2>1, EnvironmentWork DEF Respond, TimeOut
  <1>4. ASSUME NEW h \in Handlers, Serve(h)
        PROVE  Goal
    BY <1>4, HandlerStepWork DEF Serve
  <1>5. ASSUME Crash
        PROVE  Goal
    BY <1>5, EnvironmentWork DEF Crash
  <1>6. \/ \E x \in Executions : Call(x) /\ ~ UNCHANGED index
        \/ \E x \in Executions : Respond(x) \/ TimeOut(x)
        \/ \E h \in Handlers : Serve(h)
        \/ Crash
        \/ UNCHANGED <<article, handler>>
    BY DEF Next, ExecutionStep, Accept, Prepare, Call, Classify, ClaimAlert,
           Notify, vars, index
  <1> QED
    BY <1>1, <1>2, <1>3, <1>4, <1>5, <1>6

\* Every step keeps the explanations.
LEMMA ExplainedStep ==
  ASSUME TypeInv, Alerting, Explained, [Next]_vars
  PROVE  Explained'
  <1>1. ExecOK /\ Index!TypeOK /\ Index!TypeOK' /\ KeepsEntries
    BY TypeParts, TypeStep, ExecStep DEF TypeInv, TypeOK
  <1>2. ASSUME NEW x \in Executions
        PROVE  /\ exec'[x].at = "failed" => Entry(x)' \in claimed'
               /\ exec'[x].at = "enriched" => exec'[x].told
    BY <1>1, ClaimedStep, ToldStep DEF Explained
  <1>3. /\ \A h \in Handlers : handler'[h].at # "idle" => AskedNext(handler'[h].url)
        /\ \A u \in Urls : article'[u].status # "absent" => AskedNext(u)
    <2>1. CASE SameWork /\ SameRows
      <3>1. ASSUME NEW h \in Handlers, handler'[h].at # "idle"
            PROVE  AskedNext(handler'[h].url)
        <4>1. Asked(handler[h].url) /\ handler'[h].url = handler[h].url
          BY <2>1, <3>1 DEF SameWork, Explained
        <4> QED
          BY <1>1, <4>1, AskedStays
      <3>2. ASSUME NEW u \in Urls, article'[u].status # "absent"
            PROVE  AskedNext(u)
        <4>1. Asked(u)
          BY <2>1, <3>2 DEF SameRows, Explained
        <4> QED
          BY <1>1, <4>1, AskedStays
      <3> QED
        BY <3>1, <3>2
    <2>2. CASE \E x \in Executions, h \in Handlers :
                  /\ exec[x].at # "webhook"
                  /\ handler'[h].url = EntryUrl[Entry(x)]
                  /\ \A g \in Handlers \ {h} : handler'[g] = handler[g]
                  /\ article' = article
      <3>1. PICK x \in Executions, h \in Handlers :
                  /\ exec[x].at # "webhook"
                  /\ handler'[h].url = EntryUrl[Entry(x)]
                  /\ \A g \in Handlers \ {h} : handler'[g] = handler[g]
                  /\ article' = article
        BY <2>2
      <3>2. AskedNext(handler'[h].url)
        BY <1>1, <3>1 DEF AskedNext, KeepsEntries, Entry
      <3>3. ASSUME NEW g \in Handlers \ {h}, handler'[g].at # "idle"
            PROVE  AskedNext(handler'[g].url)
        <4>1. Asked(handler[g].url) /\ handler'[g].url = handler[g].url
          BY <3>1, <3>3 DEF Explained
        <4> QED
          BY <1>1, <4>1, AskedStays
      <3>4. ASSUME NEW u \in Urls, article'[u].status # "absent"
            PROVE  AskedNext(u)
        BY <1>1, <3>1, <3>4, AskedStays DEF Explained
      <3> QED
        BY <3>2, <3>3, <3>4
    <2> QED
      BY <1>1, <2>1, <2>2, WorkStep
  <1> QED
    BY <1>2, <1>3 DEF Explained, Asked, AskedNext, Entry

\* When everything is over and an Article is left failed, its alert is
\* claimed, or D1 failed one of its executions at the claim, or one of them
\* was answered 2xx, whatever timed out, was retried or crashed before.
THEOREM WorkflowExplainsFailures == Spec => []FailuresExplained
  <1>1. Init => Explained
    BY DEF Init, Explained, Index!Init, Index!Idle
  <1>2. Explained /\ UNCHANGED vars => Explained'
    BY DEF Explained, Asked, Entry, vars, index, workflow
  <1>3. AlertInv /\ Explained => FailuresExplained
    <2> SUFFICES ASSUME AlertInv, Explained, Quiet,
                        NEW u \in Urls, article[u].status = "failed"
                 PROVE  \/ AlertClaimed(u)
                        \/ \E x \in Executions :
                              /\ exec[x].at = "stopped" \/ exec[x].told
                              /\ EntryUrl[Entry(x)] = u
      BY DEF FailuresExplained
    <2>1. PICK x \in Executions :
             exec[x].at # "webhook" /\ EntryUrl[Entry(x)] = u
      BY DEF Explained, Asked
    <2>2. exec[x].at \in {"enriched", "failed", "stopped"}
      BY <2>1 DEF Quiet, Ended
    <2> QED
      BY <2>1, <2>2 DEF Explained, AlertClaimed
  <1> QED
    BY <1>1, <1>3, AlertInvariance, ExplainedStep, PTL DEF Spec, AlertInv
=============================================================================
