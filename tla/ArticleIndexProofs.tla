------------------------- MODULE ArticleIndexProofs -------------------------
(***************************************************************************)
(* Proofs about ArticleIndex, for any sets of URLs and handlers and any    *)
(* integers the model may answer.                                          *)
(***************************************************************************)
EXTENDS ArticleIndex, TLAPS

-----------------------------------------------------------------------------
(* Types *)

\* What the sets of places, statuses and replies contain.
LEMMA Constants ==
    /\ Owning \subseteq Places
    /\ {"idle", "create", "lookup", "reply"} \subseteq Places
    /\ Statuses \subseteq Replies
    /\ {None, "created", "invalid", "error"} \subseteq Replies
    /\ {"structured", "lead", None} = Summaries
    /\ {"absent", "processing", "complete", "failed"} = Statuses
    /\ {"content", "preferences", "summarize", "categorize", "score",
        "complete", "fail"} = Owning
    /\ Idle \in Locals
    /\ 0 \in Int
  BY DEF Owning, Places, Statuses, Replies, Summaries, Idle, Locals

\* The part of TypeOK about the handlers.
HandlerOK ==
    /\ handler \in [Handlers -> Locals]
    /\ \A h \in Handlers : handler[h].at # "idle" => handler[h].url \in Urls

\* A handler that goes on stays a handler.
LEMMA GotoType ==
  ASSUME TypeOK, NEW h \in Handlers, NEW place \in Places, Goto(h, place),
         handler[h].at # "idle"
  PROVE  HandlerOK'
  BY DEF TypeOK, HandlerOK, Goto, Locals

\* A handler that answers stays a handler.
LEMMA AnswerType ==
  ASSUME TypeOK, NEW h \in Handlers, NEW reply \in Replies, Answer(h, reply),
         handler[h].at # "idle"
  PROVE  HandlerOK'
  BY Constants DEF TypeOK, HandlerOK, Answer, Locals

\* A claimed row is a row.
LEMMA InsertType ==
  ASSUME TypeOK, NEW u \in Urls, InsertRow(u)
  PROVE  article' \in [Urls -> Rows]
  BY Constants DEF TypeOK, InsertRow, Rows

\* The types hold before the first request.
LEMMA TypeInit == Init => TypeOK
  BY Constants DEF Init, TypeOK, Rows, Idle

\* Every statement and call keeps the types.
LEMMA TypeStep == TypeOK /\ [Next]_vars => TypeOK'
  <1> SUFFICES ASSUME TypeOK, [Next]_vars
               PROVE  TypeOK'
    OBVIOUS
  <1> USE Constants DEF TypeOK
  <1>1. ASSUME NEW h \in Handlers, NEW u \in Urls, NEW valid \in BOOLEAN,
               Receive(h, u, valid)
        PROVE  TypeOK'
    <2>1. IF valid THEN "create" \in Places ELSE "reply" \in Places
      OBVIOUS
    <2> QED
      BY <1>1, <2>1 DEF Receive, Idle, Locals
  <1>2. ASSUME NEW h \in Handlers, Create(h)
        PROVE  TypeOK'
    BY <1>2, GotoType, InsertType DEF Create, HandlerOK, Url, Unclaimed
  <1>3. ASSUME NEW h \in Handlers, CreateFails(h)
        PROVE  TypeOK'
    BY <1>3, AnswerType, InsertType DEF CreateFails, HandlerOK, Url, Unclaimed
  <1>4. ASSUME NEW h \in Handlers, Lookup(h)
        PROVE  TypeOK'
    BY <1>4, AnswerType DEF Lookup, HandlerOK, Url, Rows
  <1>5. ASSUME NEW h \in Handlers, Content(h)
        PROVE  TypeOK'
    BY <1>5, GotoType DEF Content, HandlerOK
  <1>6. ASSUME NEW h \in Handlers, ReadPreferences(h)
        PROVE  TypeOK'
    BY <1>6, GotoType DEF ReadPreferences, HandlerOK
  <1>7. ASSUME NEW h \in Handlers, Summarize(h)
        PROVE  TypeOK'
    <2>1. PICK s \in Summaries :
             handler' = [handler EXCEPT ![h].at = "categorize", ![h].summary = s]
      BY <1>7 DEF Summarize
    <2>2. HandlerOK'
      BY <1>7, <2>1 DEF Summarize, HandlerOK, Locals
    <2>3. modelRuns' \in [Urls -> Nat]
      BY <1>7 DEF Summarize, Url
    <2> QED
      BY <1>7, <2>2, <2>3 DEF Summarize, HandlerOK
  <1>8. ASSUME NEW h \in Handlers, Categorize(h)
        PROVE  TypeOK'
    BY <1>8, GotoType DEF Categorize, HandlerOK
  <1>9. ASSUME NEW h \in Handlers, Score(h)
        PROVE  TypeOK'
    <2>1. CASE Goto(h, "fail")
      BY <1>9, <2>1, GotoType DEF Score, HandlerOK, OutOfRange, Refuse
    <2>2. CASE ~Goto(h, "fail")
      <3>1. PICK n \in ModelScores :
               handler' = [handler EXCEPT ![h].at = "complete", ![h].score = n]
        BY <1>9, <2>2 DEF Score, OutOfRange, Refuse
      <3>2. HandlerOK'
        BY <1>9, <3>1, ArticleIndexAssumption DEF Score, HandlerOK, Locals, OutOfRange, Refuse
      <3> QED
        BY <1>9, <3>2 DEF Score, HandlerOK, OutOfRange, Refuse
    <2> QED
      BY <2>1, <2>2
  <1>10. ASSUME NEW h \in Handlers, Complete(h)
         PROVE  TypeOK'
    BY <1>10, AnswerType DEF Complete, HandlerOK, Url, Rows, Locals, Completion
  <1>11. ASSUME NEW h \in Handlers, Fail(h)
         PROVE  TypeOK'
    BY <1>11, AnswerType DEF Fail, HandlerOK, Url, Rows, FailedStatus
  <1>12. ASSUME NEW h \in Handlers, Finish(h) \/ Cancel(h)
         PROVE  TypeOK'
    BY <1>12 DEF Finish, Cancel, Idle
  <1>13. CASE Crash
    BY <1>13 DEF Crash, Owns, Url, Idle
  <1>14. CASE UNCHANGED vars
    BY <1>14 DEF vars
  <1> QED
    BY <1>1, <1>2, <1>3, <1>4, <1>5, <1>6, <1>7, <1>8, <1>9, <1>10, <1>11,
       <1>12, <1>13, <1>14 DEF Next, HandlerStep

\* Every reachable state has the types of its columns and locals.
THEOREM TypeCorrect == Spec => []TypeOK
  BY TypeInit, TypeStep, PTL DEF Spec

-----------------------------------------------------------------------------
(* The inductive invariant *)

Status(u) == article[u].status

\* A handler past the claim works on a row that is still 'processing', and
\* has put it to the model exactly if it is past Summarize.
OwnerWorks(h) ==
    /\ handler[h].at = "idle" => handler[h].reply = None
    /\ Owns(h) => Status(Url(h)) = "processing"
    /\ handler[h].at = "lookup" => Status(Url(h)) # "absent"
    /\ handler[h].at \in {"content", "preferences", "summarize"} =>
          modelRuns[Url(h)] = 0
    /\ handler[h].at \in {"categorize", "score", "complete"} =>
          modelRuns[Url(h)] = 1 /\ handler[h].summary # None
    /\ handler[h].at = "complete" => handler[h].score \in 1..5

OwnersWork == \A h \in Handlers : OwnerWorks(h)

UnclaimedUntouched ==
    \A u \in Urls : Status(u) = "absent" => modelRuns[u] = 0

IInv ==
    /\ TypeOK
    /\ OneOwner
    /\ OwnersWork
    /\ UnclaimedUntouched
    /\ OrphansExplained
    /\ RepliesTruthful
    /\ CompleteUsable

\* The invariant holds before the first request.
LEMMA InitInv == Init => IInv
  <1> SUFFICES ASSUME Init
               PROVE  IInv
    OBVIOUS
  <1>1. TypeOK
    BY TypeInit
  <1>2. \A h \in Handlers : ~Owns(h) /\ handler[h].at = "idle" /\ handler[h].reply = None
    BY DEF Init, Idle, Owns, Owning
  <1>3. \A u \in Urls : Status(u) = "absent" /\ modelRuns[u] = 0
    BY DEF Init, Status
  <1> QED
    BY <1>1, <1>2, <1>3, ArticleIndexAssumption DEF IInv, OneOwner, OwnersWork,
       OwnerWorks, UnclaimedUntouched,
       OrphansExplained, RepliesTruthful, ReplyTruthful, CompleteUsable,
       Owns, Owning, Status, Statuses

\* Of all handlers, only h has moved; it has, and not to another URL.
OthersStay(h) == \A g \in Handlers : g # h => handler'[g] = handler[g]
Moves(h) ==
    /\ OthersStay(h)
    /\ handler'[h].url = handler[h].url

\* Going on changes nothing but where the handler is.
LEMMA GotoEffect ==
  ASSUME TypeOK, NEW h \in Handlers, NEW place, Goto(h, place)
  PROVE  /\ Moves(h)
         /\ handler'[h].at = place
         /\ handler'[h].reply = handler[h].reply
         /\ handler'[h].summary = handler[h].summary
         /\ handler'[h].score = handler[h].score
  BY DEF TypeOK, Locals, Goto, Moves, OthersStay

\* Answering sets the reply and moves the handler there.
LEMMA AnswerEffect ==
  ASSUME TypeOK, NEW h \in Handlers, NEW reply, Answer(h, reply)
  PROVE  /\ Moves(h)
         /\ handler'[h].at = "reply"
         /\ handler'[h].reply = reply
  BY DEF TypeOK, Locals, Answer, Moves, OthersStay

\* A step of h that touches no row: nothing is claimed and no claim is dropped.
LEMMA LocalStep ==
  ASSUME IInv, TypeOK', NEW h \in Handlers, OthersStay(h),
         UNCHANGED <<article, modelRuns, interrupted>>,
         Owns(h)' <=> Owns(h),
         Owns(h) => Url(h)' = Url(h),
         OwnerWorks(h)', ReplyTruthful(h)'
  PROVE  IInv'
  <1> USE DEF IInv, OthersStay
  <1>1. \A g \in Handlers : Owns(g)' <=> Owns(g)
    BY DEF Owns
  <1>2. \A g \in Handlers : g # h \/ Owns(g) => Url(g)' = Url(g)
    BY DEF Url
  <1>3. OneOwner'
    BY <1>1, <1>2 DEF OneOwner
  <1>4. OwnersWork'
    <2>1. ASSUME NEW g \in Handlers, g # h
          PROVE  OwnerWorks(g)'
      BY <2>1, <1>1, <1>2 DEF OwnersWork, OwnerWorks, Status
    <2> QED
      BY <2>1 DEF OwnersWork
  <1>5. RepliesTruthful'
    <2>1. ASSUME NEW g \in Handlers, g # h
          PROVE  ReplyTruthful(g)'
      BY <2>1, <1>2 DEF RepliesTruthful, ReplyTruthful
    <2> QED
      BY <2>1 DEF RepliesTruthful
  <1>6. OrphansExplained'
    BY <1>1, <1>2 DEF OrphansExplained
  <1>7. UnclaimedUntouched' /\ CompleteUsable'
    BY DEF UnclaimedUntouched, CompleteUsable, Status
  <1> QED
    BY <1>3, <1>4, <1>5, <1>6, <1>7

\* A step of h that may write the row of its URL, which is absent or its own.
LEMMA RowStep ==
  ASSUME IInv, TypeOK', NEW h \in Handlers, Moves(h),
         Url(h) \in Urls,
         Status(Url(h)) = "absent" \/ Owns(h),
         \A u \in Urls : u # Url(h) => article'[u] = article[u],
         Status(Url(h))' # "absent",
         UNCHANGED modelRuns,
         interrupted \subseteq interrupted',
         Status(Url(h))' = "processing" => Owns(h)' \/ Url(h) \in interrupted',
         Status(Url(h))' = "complete" =>
            article'[Url(h)].score \in 1..5 /\ article'[Url(h)].summary # None,
         OwnerWorks(h)', ReplyTruthful(h)'
  PROVE  IInv'
  <1> USE DEF IInv, Moves, OthersStay
  <1>1. \A g \in Handlers : g # h => (Owns(g)' <=> Owns(g))
    BY DEF Owns
  <1>2. \A g \in Handlers : Url(g)' = Url(g)
    BY DEF Url
  <1>3. \A g \in Handlers : g # h /\ Owns(g) => Url(g) # Url(h)
    BY DEF OwnersWork, OwnerWorks, OneOwner
  <1>4. OneOwner'
    BY <1>1, <1>2, <1>3 DEF OneOwner
  <1>5. OwnersWork'
    <2>1. ASSUME NEW g \in Handlers, g # h
          PROVE  OwnerWorks(g)'
      <3>1. handler[g].at # "idle" => Url(g) \in Urls
        BY DEF TypeOK, Url
      <3>2. handler'[g] = handler[g]
        BY <2>1
      <3>3. OwnerWorks(g)
        BY DEF OwnersWork
      <3>4. Owns(g) \/ handler[g].at = "lookup" => handler[g].at # "idle"
        BY DEF Owns, Owning
      <3>5. Owns(g)' => Status(Url(g))' = "processing"
        BY <1>1, <1>2, <1>3, <2>1, <3>1, <3>3, <3>4 DEF OwnerWorks, Status
      <3>6. handler[g].at = "lookup" => Status(Url(g))' # "absent"
        BY <1>2, <3>1, <3>3, <3>4 DEF OwnerWorks, Status
      <3> QED
        BY <1>2, <3>2, <3>3, <3>5, <3>6 DEF OwnerWorks
    <2> QED
      BY <2>1 DEF OwnersWork
  <1>6. RepliesTruthful'
    <2>1. ASSUME NEW g \in Handlers, g # h
          PROVE  ReplyTruthful(g)'
      <3>1. handler'[g] = handler[g] /\ ReplyTruthful(g)
        BY <2>1 DEF RepliesTruthful
      <3>2. CASE Url(g) = Url(h)
        <4>1. Status(Url(h)) \in {"absent", "processing"}
          BY DEF OwnersWork, OwnerWorks
        <4>2. handler[g].reply \notin {"created", "complete", "failed"}
          BY <3>1, <3>2, <4>1 DEF ReplyTruthful, Status
        <4> QED
          BY <3>1, <4>2 DEF ReplyTruthful
      <3>3. CASE Url(g) # Url(h) /\ Url(g) \in Urls
        BY <1>2, <3>1, <3>3 DEF ReplyTruthful
      <3>4. CASE Url(g) \notin Urls
        <4>1. handler[g].at = "idle"
          BY <3>4 DEF TypeOK, Url
        <4>2. handler[g].reply = None
          BY <4>1 DEF OwnersWork, OwnerWorks
        <4> QED
          BY <3>1, <4>2, ArticleIndexAssumption DEF ReplyTruthful, Statuses
      <3> QED
        BY <3>2, <3>3, <3>4
    <2> QED
      BY <2>1 DEF RepliesTruthful
  <1>7. OrphansExplained'
    <2>1. ASSUME NEW u \in Urls, u # Url(h), Status(u)' = "processing"
          PROVE  u \in interrupted' \/ \E g \in Handlers : Owns(g)' /\ Url(g)' = u
      BY <1>1, <1>2, <2>1 DEF OrphansExplained, Status
    <2> QED
      BY <1>2, <2>1 DEF OrphansExplained, Status
  <1>8. UnclaimedUntouched' /\ CompleteUsable'
    BY <1>2 DEF UnclaimedUntouched, CompleteUsable, Status
  <1> QED
    BY <1>4, <1>5, <1>6, <1>7, <1>8

\* The owner of a row goes on to a later call, or to fail.
LEMMA OwnedGoto ==
  ASSUME IInv, TypeOK', NEW h \in Handlers, NEW place \in Owning, Goto(h, place),
         UNCHANGED <<article, modelRuns, interrupted>>,
         Owns(h),
         \/ place = "fail"
         \/ handler[h].at \in {"content", "preferences"}
            /\ place \in {"preferences", "summarize"}
         \/ handler[h].at = "categorize" /\ place = "score"
  PROVE  IInv'
  <1>1. /\ Moves(h)
        /\ handler'[h].at = place
        /\ handler'[h].reply = handler[h].reply
        /\ handler'[h].summary = handler[h].summary
    BY GotoEffect DEF IInv
  <1>2. OwnerWorks(h) /\ ReplyTruthful(h)
    BY DEF IInv, OwnersWork, RepliesTruthful
  <1>3. Owns(h)'
    BY <1>1 DEF Owns
  <1>4. OwnerWorks(h)'
    <2>1. Url(h)' = Url(h) /\ Status(Url(h)) = "processing"
      BY <1>1, <1>2 DEF OwnerWorks, Moves, Url
    <2>2. CASE place = "fail"
      BY <1>1, <1>3, <2>1, <2>2 DEF OwnerWorks, Status
    <2>3. CASE place \in {"preferences", "summarize"}
      BY <1>1, <1>2, <1>3, <2>1, <2>3 DEF OwnerWorks, Status
    <2>4. CASE place = "score"
      BY <1>1, <1>2, <1>3, <2>1, <2>4 DEF OwnerWorks, Status
    <2> QED
      BY <2>2, <2>3, <2>4
  <1>5. ReplyTruthful(h)'
    BY <1>1, <1>2 DEF ReplyTruthful, Moves, Url
  <1> QED
    BY <1>1, <1>3, <1>4, <1>5, LocalStep DEF Moves, Url

\* Every statement and call keeps the invariant.
LEMMA StepInv == IInv /\ [Next]_vars => IInv'
  <1> SUFFICES ASSUME IInv, [Next]_vars
               PROVE  IInv'
    OBVIOUS
  <1>0. TypeOK /\ TypeOK'
    BY TypeStep DEF IInv
  <1>i. ASSUME NEW h \in Handlers
        PROVE  OwnerWorks(h) /\ ReplyTruthful(h)
    BY DEF IInv, OwnersWork, RepliesTruthful
  <1> USE <1>0
  <1>1. ASSUME NEW h \in Handlers, NEW u \in Urls, NEW valid \in BOOLEAN,
               Receive(h, u, valid)
        PROVE  IInv'
    <2>1. OthersStay(h)
      BY <1>1 DEF Receive, OthersStay
    <2>2. UNCHANGED <<article, modelRuns, interrupted>>
      BY <1>1 DEF Receive
    <2>3. /\ handler'[h].at \in {"create", "reply"}
          /\ handler'[h].reply \in {None, "invalid"}
      BY <1>1 DEF Receive, Idle, TypeOK
    <2>4. ~Owns(h) /\ ~Owns(h)'
      BY <1>1, <2>3 DEF Receive, Owns, Owning
    <2>5. OwnerWorks(h)' /\ ReplyTruthful(h)'
      BY <2>3, <2>4, ArticleIndexAssumption DEF OwnerWorks, ReplyTruthful, Statuses
    <2> QED
      BY <2>1, <2>2, <2>4, <2>5, LocalStep
  <1>2. ASSUME NEW h \in Handlers, Create(h)
        PROVE  IInv'
    <2>1. CASE Status(Url(h)) = "absent"
      <3>1. InsertRow(Url(h)) /\ Goto(h, "content") /\ UNCHANGED <<modelRuns, interrupted>>
        BY <1>2, <2>1 DEF Create, Status, Unclaimed
      <3>2. Moves(h) /\ handler'[h].at = "content" /\ handler'[h].reply = handler[h].reply
        BY <3>1, GotoEffect
      <3>3. Url(h) \in Urls /\ Url(h)' = Url(h)
        BY <1>2, <3>2 DEF Create, TypeOK, Url, Moves, Unclaimed
      <3>4. Status(Url(h))' = "processing" /\ \A u \in Urls : u # Url(h) => article'[u] = article[u]
        BY <3>1, <3>3 DEF InsertRow, TypeOK, Rows, Status
      <3>5. modelRuns[Url(h)] = 0
        BY <2>1, <3>3 DEF IInv, UnclaimedUntouched
      <3>6. Owns(h)' /\ OwnerWorks(h)'
        BY <3>1, <3>2, <3>3, <3>4, <3>5 DEF Owns, Owning, OwnerWorks, Status
      <3>7. ReplyTruthful(h)'
        BY <1>i, <2>1, <3>2, <3>3, <3>4 DEF ReplyTruthful, Status
      <3> QED
        BY <2>1, <3>1, <3>2, <3>3, <3>4, <3>6, <3>7, RowStep DEF Status
    <2>2. CASE Status(Url(h)) # "absent"
      <3>1. Goto(h, "lookup") /\ UNCHANGED <<article, modelRuns, interrupted>>
        BY <1>2, <2>2 DEF Create, Status, Unclaimed
      <3>2. Moves(h) /\ handler'[h].at = "lookup" /\ handler'[h].reply = handler[h].reply
        BY <3>1, GotoEffect
      <3>3. ~Owns(h) /\ ~Owns(h)'
        BY <1>2, <3>2 DEF Create, Owns, Owning, Unclaimed
      <3>4. OwnerWorks(h)' /\ ReplyTruthful(h)'
        BY <1>i, <2>2, <3>1, <3>2, <3>3 DEF OwnerWorks, ReplyTruthful, Moves, Url, Status
      <3> QED
        BY <3>1, <3>2, <3>3, <3>4, LocalStep DEF Moves, Url
    <2> QED
      BY <2>1, <2>2
  <1>5. ASSUME NEW h \in Handlers, Content(h)
        PROVE  IInv'
    BY <1>5, OwnedGoto DEF Content, Owns, Owning
  <1>6. ASSUME NEW h \in Handlers, ReadPreferences(h)
        PROVE  IInv'
    BY <1>6, OwnedGoto DEF ReadPreferences, Owns, Owning
  <1>8. ASSUME NEW h \in Handlers, Categorize(h)
        PROVE  IInv'
    BY <1>8, OwnedGoto DEF Categorize, Owns, Owning
  <1>3. ASSUME NEW h \in Handlers, CreateFails(h)
        PROVE  IInv'
    <2>1. Answer(h, "error") /\ UNCHANGED modelRuns
      BY <1>3 DEF CreateFails, Unclaimed
    <2>2. Moves(h) /\ handler'[h].at = "reply" /\ handler'[h].reply = "error"
      BY <2>1, AnswerEffect
    <2>3. Url(h) \in Urls /\ Url(h)' = Url(h)
      BY <1>3, <2>2 DEF CreateFails, TypeOK, Url, Moves, Unclaimed
    <2>4. ~Owns(h) /\ ~Owns(h)'
      BY <1>3, <2>2 DEF CreateFails, Owns, Owning, Unclaimed
    <2>5. OwnerWorks(h)' /\ ReplyTruthful(h)'
      BY <2>2, <2>4 DEF OwnerWorks, ReplyTruthful
    <2>6. CASE UNCHANGED <<article, interrupted>>
      BY <2>1, <2>2, <2>4, <2>5, <2>6, LocalStep DEF Moves
    <2>7. CASE /\ Status(Url(h)) = "absent"
               /\ InsertRow(Url(h))
               /\ interrupted' = interrupted \union {Url(h)}
      <3>1. Status(Url(h))' = "processing" /\ \A u \in Urls : u # Url(h) => article'[u] = article[u]
        BY <2>3, <2>7 DEF InsertRow, TypeOK, Rows, Status
      <3> QED
        BY <2>1, <2>2, <2>3, <2>5, <2>7, <3>1, RowStep
    <2> QED
      BY <1>3, <2>6, <2>7 DEF CreateFails, Status, Unclaimed
  <1>4. ASSUME NEW h \in Handlers, Lookup(h)
        PROVE  IInv'
    <2>1. PICK reply \in {Status(Url(h)), "error"} : Answer(h, reply)
      BY <1>4 DEF Lookup, Status
    <2>2. Moves(h) /\ handler'[h].at = "reply" /\ handler'[h].reply = reply
      BY <2>1, AnswerEffect
    <2>3. Status(Url(h)) # "absent" /\ ~Owns(h) /\ ~Owns(h)'
      BY <1>4, <1>i, <2>2 DEF Lookup, OwnerWorks, Owns, Owning
    <2>4. Url(h)' = Url(h) /\ Status(Url(h)) \in Statuses /\ UNCHANGED article
      BY <1>4, <2>2 DEF Lookup, Moves, Url, TypeOK, Rows, Status
    <2>5. OwnerWorks(h)' /\ ReplyTruthful(h)'
      BY <2>1, <2>2, <2>3, <2>4 DEF OwnerWorks, ReplyTruthful, Statuses, Status
    <2> QED
      BY <1>4, <2>2, <2>3, <2>5, LocalStep DEF Lookup, Moves
  <1>7. ASSUME NEW h \in Handlers, Summarize(h)
        PROVE  IInv'
    <2>1. PICK s \in {"structured", "lead"} :
             handler' = [handler EXCEPT ![h].at = "categorize", ![h].summary = s]
      BY <1>7 DEF Summarize
    <2>2. /\ Moves(h)
          /\ handler'[h].at = "categorize"
          /\ handler'[h].summary = s
          /\ handler'[h].reply = handler[h].reply
      BY <2>1 DEF TypeOK, Locals, Moves, OthersStay
    <2>3. Url(h) \in Urls /\ Owns(h) /\ modelRuns[Url(h)] = 0 /\ UNCHANGED <<article, interrupted>>
      BY <1>7, <1>i DEF Summarize, TypeOK, Url, Owns, Owning, OwnerWorks
    <2>4. modelRuns' = [modelRuns EXCEPT ![Url(h)] = 1]
      BY <1>7, <2>3 DEF Summarize, TypeOK
    <2>5. \A g \in Handlers : (Owns(g)' <=> Owns(g)) /\ Url(g)' = Url(g)
      BY <2>2, <2>3 DEF Moves, OthersStay, Owns, Owning, Url
    <2>6. OneOwner'
      BY <2>5 DEF IInv, OneOwner
    <2>7. OwnersWork'
      <3>1. OwnerWorks(h)'
        BY <1>i, <2>2, <2>3, <2>4, <2>5, ArticleIndexAssumption DEF OwnerWorks, TypeOK, Status
      <3>2. ASSUME NEW g \in Handlers, g # h
            PROVE  OwnerWorks(g)'
        <4>1. Owns(g) => Url(g) # Url(h)
          BY <2>3, <3>2 DEF IInv, OneOwner
        <4>2. handler[g].at \in {"content", "preferences", "summarize", "categorize", "score", "complete"}
                 => modelRuns'[Url(g)] = modelRuns[Url(g)]
          BY <2>4, <4>1 DEF Owns, Owning, TypeOK, Url
        <4>3. handler'[g] = handler[g] /\ OwnerWorks(g)
          BY <1>i, <2>2, <3>2 DEF Moves, OthersStay
        <4> QED
          BY <2>3, <2>5, <4>2, <4>3 DEF OwnerWorks, Status
      <3> QED
        BY <3>1, <3>2 DEF OwnersWork
    <2>8. UnclaimedUntouched'
      BY <1>i, <2>3, <2>4 DEF IInv, UnclaimedUntouched, Status, OwnerWorks, TypeOK
    <2>9. OrphansExplained'
      BY <2>3, <2>5 DEF IInv, OrphansExplained
    <2>10. RepliesTruthful'
      <3>1. \A g \in Handlers : handler'[g].reply = handler[g].reply
        BY <2>2 DEF Moves, OthersStay
      <3> QED
        BY <1>i, <2>3, <2>5, <3>1 DEF RepliesTruthful, ReplyTruthful
    <2>11. CompleteUsable'
      BY <2>3 DEF IInv, CompleteUsable
    <2> QED
      BY <2>6, <2>7, <2>8, <2>9, <2>10, <2>11 DEF IInv
  <1>9. ASSUME NEW h \in Handlers, Score(h)
        PROVE  IInv'
    <2>1. CASE Goto(h, "fail")
      BY <1>9, <2>1, OwnedGoto DEF Score, Owns, Owning, OutOfRange, Refuse
    <2>2. CASE ~Goto(h, "fail")
      <3>1. PICK n \in 1..5 :
               handler' = [handler EXCEPT ![h].at = "complete", ![h].score = n]
        BY <1>9, <2>2, ArticleIndexAssumption DEF Score, OutOfRange, Refuse
      <3>2. /\ Moves(h)
            /\ handler'[h].at = "complete"
            /\ handler'[h].score = n
            /\ handler'[h].summary = handler[h].summary
            /\ handler'[h].reply = handler[h].reply
        BY <3>1 DEF TypeOK, Locals, Moves, OthersStay
      <3>3. Owns(h) /\ Owns(h)' /\ Url(h)' = Url(h) /\ UNCHANGED <<article, modelRuns, interrupted>>
        BY <1>9, <3>2 DEF Score, Owns, Owning, Moves, Url, OutOfRange, Refuse
      <3>4. handler[h].at = "score" /\ OwnerWorks(h) /\ ReplyTruthful(h)
        BY <1>9, <1>i DEF Score, OutOfRange, Refuse
      <3>5. OwnerWorks(h)' /\ ReplyTruthful(h)'
        BY <3>2, <3>3, <3>4 DEF OwnerWorks, ReplyTruthful, Status
      <3> QED
        BY <3>2, <3>3, <3>5, LocalStep DEF Moves
    <2> QED
      BY <2>1, <2>2
  <1>10. ASSUME NEW h \in Handlers, Complete(h)
         PROVE  IInv'
    <2>1. PICK applied \in BOOLEAN, reported \in BOOLEAN :
             /\ reported => applied
             /\ Answer(h, IF reported THEN "created" ELSE "error")
             /\ article' = IF applied
                           THEN [article EXCEPT ![Url(h)] =
                                   [status |-> "complete", score |-> handler[h].score,
                                    summary |-> handler[h].summary]]
                           ELSE article
             /\ interrupted' = interrupted \union (IF applied THEN {} ELSE {Url(h)})
      BY <1>10 DEF Complete, Completion
    <2>2. /\ Moves(h)
          /\ handler'[h].at = "reply"
          /\ handler'[h].reply = IF reported THEN "created" ELSE "error"
      BY <2>1, AnswerEffect
    <2>3. /\ Url(h) \in Urls /\ Url(h)' = Url(h)
          /\ Owns(h) /\ ~Owns(h)'
          /\ Status(Url(h)) = "processing"
          /\ handler[h].summary # None /\ handler[h].score \in 1..5
          /\ UNCHANGED modelRuns
      BY <1>10, <1>i, <2>2 DEF Complete, TypeOK, Url, Owns, Owning, OwnerWorks, Moves, Completion
    <2>4. \A u \in Urls : u # Url(h) => article'[u] = article[u]
      BY <2>1, <2>3 DEF TypeOK
    <2>5. CASE applied
      <3>1. article'[Url(h)] = [status |-> "complete", score |-> handler[h].score,
                                summary |-> handler[h].summary]
        BY <2>1, <2>3, <2>5 DEF TypeOK
      <3>2. OwnerWorks(h)' /\ ReplyTruthful(h)'
        BY <2>2, <2>3, <3>1 DEF OwnerWorks, ReplyTruthful
      <3> QED
        BY <2>1, <2>2, <2>3, <2>4, <3>1, <3>2, RowStep DEF Status
    <2>6. CASE ~applied
      <3>1. article'[Url(h)] = article[Url(h)] /\ ~reported
        BY <2>1, <2>6
      <3>2. OwnerWorks(h)' /\ ReplyTruthful(h)'
        BY <2>2, <2>3, <3>1 DEF OwnerWorks, ReplyTruthful
      <3>3. Url(h) \in interrupted' /\ interrupted \subseteq interrupted'
        BY <2>1, <2>6
      <3> QED
        BY <2>2, <2>3, <2>4, <3>1, <3>2, <3>3, RowStep DEF Status
    <2> QED
      BY <2>5, <2>6
  <1>11. ASSUME NEW h \in Handlers, Fail(h)
         PROVE  IInv'
    <2>1. Moves(h) /\ handler'[h].at = "reply" /\ handler'[h].reply = "error"
      BY <1>11, AnswerEffect DEF Fail, FailedStatus
    <2>2. /\ Url(h) \in Urls /\ Url(h)' = Url(h)
          /\ Owns(h) /\ ~Owns(h)'
          /\ Status(Url(h)) = "processing"
          /\ UNCHANGED modelRuns
      BY <1>11, <1>i, <2>1 DEF Fail, TypeOK, Url, Owns, Owning, OwnerWorks, Moves, FailedStatus
    <2>3. /\ \A u \in Urls : u # Url(h) => article'[u] = article[u]
          /\ interrupted \subseteq interrupted'
          /\ \/ Status(Url(h))' = "failed"
             \/ Status(Url(h))' = "processing" /\ Url(h) \in interrupted'
      BY <1>11, <2>2 DEF Fail, TypeOK, Rows, Status, FailedStatus
    <2>4. OwnerWorks(h)' /\ ReplyTruthful(h)'
      BY <2>1, <2>2 DEF OwnerWorks, ReplyTruthful
    <2> QED
      BY <2>1, <2>2, <2>3, <2>4, RowStep DEF Status
  <1>12. ASSUME NEW h \in Handlers, Finish(h)
         PROVE  IInv'
    <2>1. /\ OthersStay(h)
          /\ handler'[h] = Idle
          /\ UNCHANGED <<article, modelRuns, interrupted>>
      BY <1>12 DEF Finish, OthersStay, TypeOK
    <2>2. ~Owns(h) /\ ~Owns(h)'
      BY <1>12, <2>1 DEF Finish, Idle, Owns, Owning
    <2>3. OwnerWorks(h)' /\ ReplyTruthful(h)'
      BY <2>1, <2>2, ArticleIndexAssumption DEF OwnerWorks, ReplyTruthful, Idle, Statuses
    <2> QED
      BY <2>1, <2>2, <2>3, LocalStep
  <1>13. ASSUME NEW h \in Handlers, Cancel(h)
         PROVE  IInv'
    BY <1>13 DEF Cancel, IInv, OneOwner, OwnersWork, OwnerWorks, UnclaimedUntouched,
       OrphansExplained, RepliesTruthful, ReplyTruthful, CompleteUsable, Owns, Url, Status
  <1>14. CASE Crash
    <2>1. /\ \A h \in Handlers : handler'[h] = Idle
          /\ UNCHANGED <<article, modelRuns>>
          /\ interrupted' = interrupted \union {Url(h) : h \in {g \in Handlers : Owns(g)}}
      BY <1>14 DEF Crash
    <2>2. \A h \in Handlers : ~Owns(h)' /\ OwnerWorks(h)' /\ ReplyTruthful(h)'
      BY <2>1, ArticleIndexAssumption DEF Idle, Owns, Owning, OwnerWorks, ReplyTruthful, Statuses
    <2>3. OrphansExplained'
      BY <2>1 DEF IInv, OrphansExplained
    <2> QED
      BY <2>1, <2>2, <2>3 DEF IInv, OneOwner, OwnersWork, UnclaimedUntouched, RepliesTruthful,
         CompleteUsable, Status
  <1>15. CASE UNCHANGED vars
    BY <1>15 DEF vars, IInv, OneOwner, OwnersWork, OwnerWorks, UnclaimedUntouched,
       OrphansExplained, RepliesTruthful, ReplyTruthful, CompleteUsable, Owns, Url, Status
  <1> QED
    BY <1>1, <1>2, <1>3, <1>4, <1>5, <1>6, <1>7, <1>8, <1>9, <1>10, <1>11,
       <1>12, <1>13, <1>14, <1>15 DEF Next, HandlerStep

\* The inductive invariant of the Article Index.
LEMMA Invariance == Spec => []IInv
  BY InitInv, StepInv, PTL DEF Spec

\* The invariant implies what is promised.
LEMMA IInvSafe == IInv => OneOwner /\ OrphansExplained /\ RepliesTruthful /\ CompleteUsable
  BY DEF IInv

\* Of any number of concurrent requests for a URL, one is past the claim.
THEOREM ClaimExclusive == Spec => []OneOwner
  BY IInvSafe, Invariance, PTL

\* A row nobody works on is left 'processing' only by a lost handler, a lost
\* client or a refused write.
THEOREM NoQuietOrphan == Spec => []OrphansExplained
  BY IInvSafe, Invariance, PTL

\* No response says of the row what is not so.
THEOREM Truthful == Spec => []RepliesTruthful
  BY IInvSafe, Invariance, PTL

\* Whatever integers the model answers, a complete row has a Score from 1 to 5
\* and a Summary.
THEOREM Usable == Spec => []CompleteUsable
  BY IInvSafe, Invariance, PTL

-----------------------------------------------------------------------------
(* Refinement *)

\* Nothing is claimed in the beginning.
LEMMA RefinementInit == Init => Lifecycle!Init
  BY DEF Init, Lifecycle!Init

\* Every step is one of the lifecycle, or a stutter.
LEMMA RefinementStep ==
    IInv /\ [Next]_vars => [Lifecycle!Next]_(Lifecycle!lifecycle)
  <1> SUFFICES ASSUME IInv, [Next]_vars
               PROVE  Lifecycle!Next \/ UNCHANGED Lifecycle!lifecycle
    OBVIOUS
  <1>i. ASSUME NEW h \in Handlers
        PROVE  OwnerWorks(h)
    BY DEF IInv, OwnersWork
  <1>u. ASSUME NEW h \in Handlers, handler[h].at # "idle"
        PROVE  Url(h) \in Urls
    BY <1>u DEF IInv, TypeOK, Url
  <1>1. ASSUME NEW h \in Handlers, Create(h) \/ CreateFails(h)
        PROVE  Lifecycle!Next \/ UNCHANGED Lifecycle!lifecycle
    <2>1. CASE UNCHANGED <<article, modelRuns>>
      BY <2>1 DEF Lifecycle!lifecycle
    <2>2. CASE Status(Url(h)) = "absent" /\ InsertRow(Url(h)) /\ UNCHANGED modelRuns
      <3>1. Url(h) \in Urls
        BY <1>1, <1>u DEF Create, CreateFails, Unclaimed
      <3>u. PICK w \in Urls : w = Url(h)
        BY <3>1
      <3>2. Lifecycle!Claim(w)
        <4>1. \A v \in Urls : article'[v].status =
                 IF v = Url(h) THEN "processing" ELSE article[v].status
          BY <3>1, <2>2 DEF InsertRow, IInv, TypeOK, Rows
        <4>2. [u \in Urls |-> article'[u].status] =
                 [[u \in Urls |-> article[u].status] EXCEPT ![Url(h)] = "processing"]
          BY <3>1, <4>1
        <4> QED
          BY <3>1, <3>u, <2>2, <4>2 DEF Lifecycle!Claim, Status
      <3>3. Lifecycle!Next
        BY <3>2 DEF Lifecycle!Next
      <3> QED
        BY <3>3
    <2> QED
      BY <1>1, <2>1, <2>2 DEF Create, CreateFails, Status, Unclaimed
  <1>2. ASSUME NEW h \in Handlers, Summarize(h)
        PROVE  Lifecycle!Next
    <2>1. Url(h) \in Urls /\ Status(Url(h)) = "processing" /\ modelRuns[Url(h)] = 0
      BY <1>2, <1>i, <1>u DEF Summarize, OwnerWorks, Owns, Owning
    <2>u. PICK w \in Urls : w = Url(h)
      BY <2>1
    <2>2. Lifecycle!RunModel(w)
      BY <1>2, <2>u, <2>1 DEF Lifecycle!RunModel, Summarize, Status, IInv, TypeOK
    <2> QED
      BY <2>2 DEF Lifecycle!Next
  <1>3. ASSUME NEW h \in Handlers, Complete(h)
        PROVE  Lifecycle!Next \/ UNCHANGED Lifecycle!lifecycle
    <2>1. /\ Url(h) \in Urls
          /\ Status(Url(h)) = "processing"
          /\ modelRuns[Url(h)] = 1
          /\ UNCHANGED modelRuns
      BY <1>3, <1>i, <1>u DEF Complete, OwnerWorks, Owns, Owning
    <2>2. CASE UNCHANGED article
      BY <2>1, <2>2 DEF Lifecycle!lifecycle
    <2>3. CASE article' = [article EXCEPT ![Url(h)] =
                             [status |-> "complete", score |-> handler[h].score,
                              summary |-> handler[h].summary]]
      <3>u. PICK w \in Urls : w = Url(h)
        BY <2>1
      <3>1. Lifecycle!Complete(w)
        <4>1. \A v \in Urls : article'[v].status =
                 IF v = Url(h) THEN "complete" ELSE article[v].status
          BY <2>1, <2>3 DEF InsertRow, IInv, TypeOK, Rows
        <4>2. [u \in Urls |-> article'[u].status] =
                 [[u \in Urls |-> article[u].status] EXCEPT ![Url(h)] = "complete"]
          BY <2>1, <4>1
        <4> QED
          BY <2>1, <3>u, <2>3, <4>2 DEF Lifecycle!Complete, Status
      <3>2. Lifecycle!Next
        BY <3>1 DEF Lifecycle!Next
      <3> QED
        BY <3>2
    <2> QED
      BY <1>3, <2>2, <2>3 DEF Complete, Completion
  <1>4. ASSUME NEW h \in Handlers, Fail(h)
        PROVE  Lifecycle!Next \/ UNCHANGED Lifecycle!lifecycle
    <2>1. Url(h) \in Urls /\ Status(Url(h)) = "processing" /\ UNCHANGED modelRuns
      BY <1>4, <1>i, <1>u DEF Fail, OwnerWorks, Owns, Owning
    <2>2. CASE UNCHANGED article
      BY <2>1, <2>2 DEF Lifecycle!lifecycle
    <2>3. CASE article' = [article EXCEPT ![Url(h)].status = "failed"]
      <3>u. PICK w \in Urls : w = Url(h)
        BY <2>1
      <3>1. Lifecycle!Fail(w)
        <4>1. \A v \in Urls : article'[v].status =
                 IF v = Url(h) THEN "failed" ELSE article[v].status
          BY <2>1, <2>3 DEF InsertRow, IInv, TypeOK, Rows
        <4>2. [u \in Urls |-> article'[u].status] =
                 [[u \in Urls |-> article[u].status] EXCEPT ![Url(h)] = "failed"]
          BY <2>1, <4>1
        <4> QED
          BY <2>1, <3>u, <2>3, <4>2 DEF Lifecycle!Fail, Status
      <3>2. Lifecycle!Next
        BY <3>1 DEF Lifecycle!Next
      <3> QED
        BY <3>2
    <2> QED
      BY <1>4, <2>2, <2>3 DEF Fail, FailedStatus
  <1>5. CASE UNCHANGED <<article, modelRuns>>
    BY <1>5 DEF Lifecycle!lifecycle
  <1> QED
    BY <1>1, <1>2, <1>3, <1>4, <1>5 DEF Next, HandlerStep, vars, Receive, Lookup,
       Content, ReadPreferences, Categorize, Score, Finish, Cancel, Crash

\* Whatever requests, cancellations, database errors and restarts occur, each
\* URL lives the life EnrichmentLifecycle allows: one claim, one model run,
\* one final outcome.
THEOREM Refinement == Spec => ImplementsLifecycle
  BY RefinementInit, RefinementStep, Invariance, PTL
     DEF Spec, ImplementsLifecycle, Lifecycle!Spec
=============================================================================
