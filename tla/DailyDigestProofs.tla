------------------------- MODULE DailyDigestProofs --------------------------
(***************************************************************************)
(* Proofs about two ends of the daily Digest: DigestSelection, for any     *)
(* pools and limits, and DigestDelivery, for any days, requests,           *)
(* executions and retries.  The Agregado of DigestDelivery is the abstract *)
(* DigestStore: what is proved holds of the workflow beside any store that *)
(* implements it, as DigestArtifactProofs shows of DigestArtifact.         *)
(***************************************************************************)
EXTENDS DigestDelivery, DigestSelection, FiniteSetTheorems, SequenceTheorems, WellFoundedInduction, TLAPS

-----------------------------------------------------------------------------
(* The Daily digest workflow *)

\* What may be emailed for a day: an empty Digest, or the saved one.
Mailable(d) == EmptyOnes \union ({digest[d]} \ {None})

\* A request that is under way has a day, and what it answers is of that day.
RepliesHonest ==
    \A r \in Requests :
        /\ request[r].at # "idle" => request[r].day \in Days
        /\ request[r].at = "reply" => request[r].reply \in Mailable(request[r].day)

\* An execution waits for a request that is under way and of its day.
Waits(x) ==
    IF exec[x].at = "waiting"
    THEN /\ exec[x].request \in Requests
         /\ request[exec[x].request].at # "idle"
         /\ request[exec[x].request].day = Day(x)
    ELSE exec[x].request = None

\* An execution that has begun has a day, and one that was answered holds a
\* Digest of that day; after a send that succeeded the reader has it.
Holds(x) ==
    /\ exec[x].at # "schedule" => Day(x) \in Days
    /\ exec[x].at \in {"send", "check"} => Artifact(x) \in Mailable(Day(x))
    /\ exec[x].at = "check" => Artifact(x) \in inbox[Day(x)]
    /\ exec[x].at = "delivered" => NonEmpty(inbox[Day(x)]) # {}

\* Until the alert, a send has been tried at most MaxSendRetries times.
Retries(x) ==
    exec[x].at \notin {"alert", "notify", "failed"} => exec[x].attempt <= MaxSendRetries

Fits(x) == Waits(x) /\ Holds(x) /\ Retries(x)

OwnRequests ==
    \A x, y \in Executions :
        exec[x].request # None /\ exec[x].request = exec[y].request => x = y

MailedSaved == \A d \in Days : inbox[d] \subseteq Mailable(d)

DeliveryInv ==
    /\ TypeOK /\ RepliesHonest /\ OwnRequests /\ MailedSaved
    /\ \A x \in Executions : Fits(x)
-----------------------------------------------------------------------------
(* Agregado's steps                                                        *)

\* What the workflow relies on when the store moves: no saved Digest changes
\* and the requests stay honest.
StoreMoves ==
    /\ Agregado!TypeOK'
    /\ \A d \in Days : digest[d] # None => digest'[d] = digest[d]
    /\ RepliesHonest'

\* A request that goes on keeps the store's promise and disturbs no other
\* request; only its Finish makes it idle.
LEMMA RequestMoves ==
    ASSUME DeliveryInv, NEW r \in Requests, Agregado!RequestStep(r)
    PROVE  /\ StoreMoves
           /\ \A q \in Requests \ {r} : request'[q] = request[q]
           /\ request[r].at \notin {"reply", "failed"} =>
                 request'[r].at # "idle" /\ request'[r].day = request[r].day
<1> USE DigestDeliveryAssumption DEF Agregado!States, Agregado!Idle, Agregado!Day
<1> DEFINE day == request[r].day
<1>1. Agregado!TypeOK /\ RepliesHonest
  BY DEF DeliveryInv, TypeOK
<1>2. CASE Agregado!Save(r)
  <2>1. day \in Days /\ digest[day] = None
    BY <1>1, <1>2 DEF Agregado!Save, RepliesHonest
  <2>2. PICK made \in Artifacts \ EmptyOnes : digest' = [digest EXCEPT ![day] = made]
    BY <1>2 DEF Agregado!Save
  <2>3. PICK next \in {"working", "failed"} : request' = [request EXCEPT ![r].at = next]
    BY <1>2 DEF Agregado!Save
  <2>4. Agregado!TypeOK'
    BY <1>1, <2>2, <2>3 DEF Agregado!TypeOK
  <2>5. \A d \in Days : digest[d] # None => digest'[d] = digest[d]
    BY <1>1, <2>1, <2>2 DEF Agregado!TypeOK
  <2>6. \A q \in Requests \ {r} : request'[q] = request[q]
    BY <1>1, <2>3 DEF Agregado!TypeOK
  <2>7. request'[r].at = next /\ request'[r].day = day
    BY <1>1, <2>3 DEF Agregado!TypeOK
  <2>8. RepliesHonest'
    BY <1>1, <2>1, <2>5, <2>6, <2>7 DEF RepliesHonest, Mailable
  <2> QED BY <2>3, <2>4, <2>5, <2>6, <2>7, <2>8 DEF StoreMoves
<1>3. CASE Agregado!Answer(r)
  <2>1. day \in Days /\ UNCHANGED digest
    BY <1>1, <1>3 DEF Agregado!Answer, RepliesHonest
  <2>2. PICK reply \in Mailable(day) :
           request' = [request EXCEPT ![r].at = "reply", ![r].reply = reply]
    BY <1>3 DEF Agregado!Answer, Agregado!Answers, Mailable
  <2>3. reply \in Artifacts
    BY <1>1, <2>1 DEF Mailable, Agregado!TypeOK
  <2>4. Agregado!TypeOK'
    BY <1>1, <2>1, <2>2, <2>3 DEF Agregado!TypeOK
  <2>5. \A q \in Requests \ {r} : request'[q] = request[q]
    BY <1>1, <2>2 DEF Agregado!TypeOK
  <2>6. request'[r].at = "reply" /\ request'[r].day = day /\ request'[r].reply = reply
    BY <1>1, <2>2 DEF Agregado!TypeOK
  <2>7. RepliesHonest'
    BY <1>1, <2>1, <2>2, <2>5, <2>6 DEF RepliesHonest, Mailable
  <2> QED BY <2>1, <2>4, <2>5, <2>6, <2>7 DEF StoreMoves
<1>4. CASE Agregado!Fail(r)
  <2>1. request' = [request EXCEPT ![r].at = "failed"] /\ UNCHANGED digest
    BY <1>4 DEF Agregado!Fail
  <2>2. request[r].at = "working" /\ day \in Days
    BY <1>1, <1>4 DEF Agregado!Fail, RepliesHonest
  <2>3. Agregado!TypeOK' /\ request'[r].at = "failed" /\ request'[r].day = day
    BY <1>1, <2>1 DEF Agregado!TypeOK
  <2>4. \A q \in Requests \ {r} : request'[q] = request[q]
    BY <1>1, <2>1 DEF Agregado!TypeOK
  <2>5. RepliesHonest'
    BY <1>1, <2>1, <2>2, <2>3, <2>4 DEF RepliesHonest, Mailable
  <2> QED BY <2>1, <2>3, <2>4, <2>5 DEF StoreMoves
<1>5. CASE Agregado!Finish(r)
  <2>1. /\ request[r].at \in {"reply", "failed"}
        /\ request' = [request EXCEPT ![r] = Agregado!Idle] /\ UNCHANGED digest
    BY <1>5 DEF Agregado!Finish
  <2>2. Agregado!TypeOK' /\ request'[r].at = "idle"
    BY <1>1, <2>1 DEF Agregado!TypeOK
  <2>3. \A q \in Requests \ {r} : request'[q] = request[q]
    BY <1>1, <2>1 DEF Agregado!TypeOK
  <2>4. RepliesHonest'
    BY <1>1, <2>1, <2>2, <2>3 DEF RepliesHonest, Mailable
  <2> QED BY <2>1, <2>2, <2>3, <2>4 DEF StoreMoves
<1> QED BY <1>2, <1>3, <1>4, <1>5 DEF Agregado!RequestStep
-----------------------------------------------------------------------------
(* The workflow's steps                                                    *)

ExecutionStates ==
    [at: Nodes, day: Days \union {None}, request: Requests \union {None},
     artifact: Artifacts \union {None}, attempt: 0..MaxSendRetries + 1]

\* A step of x alone keeps the invariant if x fits where it goes, the store
\* keeps its promise to it and to all that wait, and the reader only gets
\* what may be mailed.
LEMMA StepOf ==
    ASSUME DeliveryInv, NEW x \in Executions, StoreMoves,
           exec'[x] \in ExecutionStates,
           exec' = [exec EXCEPT ![x] = exec'[x]],
           \A y \in Executions \ {x} : exec[y].at = "waiting" =>
              /\ request'[exec[y].request].at # "idle"
              /\ request'[exec[y].request].day = Day(y)
              /\ exec'[x].request # exec[y].request,
           inbox' \in [Days -> SUBSET Artifacts], claimed' \subseteq Days,
           \A d \in Days : inbox[d] \subseteq inbox'[d] /\ inbox'[d] \subseteq Mailable(d)',
           Fits(x)'
    PROVE  DeliveryInv'
<1>1. TypeOK /\ exec \in [Executions -> ExecutionStates]
  BY DEF DeliveryInv, TypeOK, ExecutionStates
<1>2. TypeOK' /\ RepliesHonest' /\ MailedSaved'
  BY <1>1 DEF TypeOK, ExecutionStates, StoreMoves, MailedSaved
<1>3. \A y \in Executions \ {x} : exec'[y] = exec[y]
  BY <1>1
<1>4. ASSUME NEW y \in Executions \ {x} PROVE Fits(y)'
  <2>1. Fits(y) /\ exec'[y] = exec[y]
    BY <1>3 DEF DeliveryInv
  <2>2. Waits(y)'
    BY <2>1 DEF Fits, Waits, Day
  <2>3. Retries(y)'
    BY <2>1 DEF Fits, Retries
  <2>4. \A d \in Days : Mailable(d) \subseteq Mailable(d)'
    BY DEF StoreMoves, Mailable
  <2>5. Holds(y)'
    BY <2>1, <2>4 DEF Fits, Holds, Day, Artifact, Mailable, NonEmpty
  <2> QED BY <2>2, <2>3, <2>5 DEF Fits
<1>5. ASSUME NEW y \in Executions, NEW z \in Executions,
             exec'[y].request # None, exec'[y].request = exec'[z].request
      PROVE  y = z
  <2>1. \A w \in Executions \ {x} : exec[w].request # None => exec[w].at = "waiting"
    BY DEF DeliveryInv, Fits, Waits
  <2>2. \A v, w \in Executions :
           exec[v].request # None /\ exec[v].request = exec[w].request => v = w
    BY DEF DeliveryInv, OwnRequests
  <2> QED BY <1>3, <1>5, <2>1, <2>2
<1>6. OwnRequests'
  BY <1>5 DEF OwnRequests
<1> QED BY <1>2, <1>4, <1>6 DEF DeliveryInv

\* The same when Agregado does not move: only x and its inbox do.
LEMMA LocalStep ==
    ASSUME DeliveryInv, NEW x \in Executions, UNCHANGED agregado,
           exec'[x] \in ExecutionStates,
           exec' = [exec EXCEPT ![x] = exec'[x]],
           exec'[x].request = None,
           UNCHANGED inbox \/ (exec[x].at = "send" /\ Deliver(x)),
           claimed' \subseteq Days,
           Holds(x)', Retries(x)', exec'[x].at # "waiting"
    PROVE  DeliveryInv'
<1> USE DigestDeliveryAssumption
<1>1. TypeOK /\ RepliesHonest /\ MailedSaved /\ Fits(x)
  BY DEF DeliveryInv
<1>2. StoreMoves
  BY <1>1 DEF StoreMoves, TypeOK, Agregado!TypeOK, RepliesHonest, Mailable, agregado
<1>3. \A y \in Executions \ {x} : exec[y].at = "waiting" =>
         /\ request'[exec[y].request].at # "idle"
         /\ request'[exec[y].request].day = Day(y)
         /\ exec'[x].request # exec[y].request
  BY DEF DeliveryInv, Fits, Waits, agregado
<1>4. \A d \in Days : Mailable(d)' = Mailable(d)
  BY DEF Mailable, agregado
<1>5. /\ inbox' \in [Days -> SUBSET Artifacts]
      /\ \A d \in Days : inbox[d] \subseteq inbox'[d] /\ inbox'[d] \subseteq Mailable(d)'
  <2>1. CASE UNCHANGED inbox
    BY <1>1, <1>4, <2>1 DEF TypeOK, MailedSaved
  <2>2. CASE exec[x].at = "send" /\ Deliver(x)
    <3>1. Day(x) \in Days /\ Artifact(x) \in Mailable(Day(x))
      BY <1>1, <2>2 DEF Fits, Holds
    <3>2. Artifact(x) \in Artifacts
      BY <1>1, <3>1 DEF Mailable, TypeOK, Agregado!TypeOK
    <3> QED BY <1>1, <1>4, <2>2, <3>1, <3>2 DEF TypeOK, MailedSaved, Deliver
  <2> QED BY <2>1, <2>2
<1>6. Fits(x)'
  BY DEF Fits, Waits
<1> QED BY <1>2, <1>3, <1>5, <1>6, StepOf

\* Every step keeps the invariant, action by action.
LEMMA DeliveryStep == DeliveryInv /\ [Next]_vars => DeliveryInv'
<1> SUFFICES ASSUME DeliveryInv, [Next]_vars PROVE DeliveryInv'
  OBVIOUS
<1> USE DigestDeliveryAssumption
<1>1. TypeOK /\ exec \in [Executions -> ExecutionStates] /\ RepliesHonest
  BY DEF DeliveryInv, TypeOK, ExecutionStates
<1>2. \A x \in Executions : Fits(x) /\ exec[x] \in ExecutionStates
  BY <1>1 DEF DeliveryInv
<1>3. ASSUME NEW x \in Executions, Start(x) PROVE DeliveryInv'
  <2>1. PICK d \in Days : exec' = [exec EXCEPT ![x].at = "get", ![x].day = d]
    BY <1>3 DEF Start
  <2>2. /\ exec[x].at = "schedule" /\ exec[x].request = None
        /\ exec[x].attempt <= MaxSendRetries
    BY <1>2, <1>3 DEF Start, Fits, Waits, Retries, ExecutionStates
  <2>3. /\ exec'[x].at = "get" /\ exec'[x].day = d /\ exec'[x].request = None
        /\ exec'[x].attempt = exec[x].attempt
        /\ exec'[x] \in ExecutionStates /\ exec' = [exec EXCEPT ![x] = exec'[x]]
    BY <1>1, <2>1, <2>2 DEF ExecutionStates, Nodes
  <2>4. Holds(x)' /\ Retries(x)'
    BY <2>2, <2>3 DEF Holds, Retries, Day
  <2> QED BY <1>1, <1>3, <2>3, <2>4, LocalStep DEF Start, TypeOK
<1>4. ASSUME NEW x \in Executions, Get(x) PROVE DeliveryInv'
  <2>1. /\ exec[x].at = "get" /\ Day(x) \in Days /\ exec[x].request = None
        /\ exec[x].attempt <= MaxSendRetries
    BY <1>2, <1>4 DEF Get, Fits, Holds, Waits, Retries, ExecutionStates
  <2>2. CASE GoTo(x, "alert") /\ UNCHANGED agregado
    <3>1. /\ exec'[x].at = "alert" /\ exec'[x].day = Day(x) /\ exec'[x].request = None
          /\ exec'[x] \in ExecutionStates /\ exec' = [exec EXCEPT ![x] = exec'[x]]
      BY <1>1, <2>2 DEF GoTo, ExecutionStates, Nodes, Day
    <3>2. Holds(x)' /\ Retries(x)'
      BY <2>1, <3>1 DEF Holds, Retries, Day
    <3> QED BY <1>1, <1>4, <2>2, <3>1, <3>2, LocalStep DEF Get, TypeOK
  <2>3. CASE \E r \in Requests :
               /\ Agregado!Receive(r, Day(x))
               /\ exec' = [exec EXCEPT ![x].at = "waiting", ![x].request = r]
    <3>1. PICK r \in Requests :
             /\ Agregado!Receive(r, Day(x))
             /\ exec' = [exec EXCEPT ![x].at = "waiting", ![x].request = r]
      BY <2>3
    <3> DEFINE fresh == [Agregado!Idle EXCEPT !.at = "working", !.day = Day(x)]
    <3>2. /\ request[r].at = "idle" /\ UNCHANGED digest
          /\ request' = [request EXCEPT ![r] = fresh]
      BY <3>1 DEF Agregado!Receive
    <3>3. fresh = [at |-> "working", day |-> Day(x), reply |-> None]
      <4>1. \A d : [[at |-> "working", day |-> None, reply |-> None] EXCEPT !.day = d]
                      = [at |-> "working", day |-> d, reply |-> None]
        OBVIOUS
      <4>2. [Agregado!Idle EXCEPT !.at = "working"]
               = [at |-> "working", day |-> None, reply |-> None]
        BY DEF Agregado!Idle
      <4> QED BY <4>1, <4>2
    <3>4. /\ Agregado!TypeOK' /\ request'[r].at = "working" /\ request'[r].day = Day(x)
          /\ \A q \in Requests \ {r} : request'[q] = request[q]
      BY <1>1, <2>1, <3>2, <3>3 DEF TypeOK, Agregado!TypeOK, Agregado!States
    <3>5. StoreMoves
      BY <1>1, <2>1, <3>2, <3>4 DEF StoreMoves, RepliesHonest, Mailable
    <3>6. /\ exec'[x].at = "waiting" /\ exec'[x].day = Day(x) /\ exec'[x].request = r
          /\ exec'[x].attempt = exec[x].attempt
          /\ exec'[x] \in ExecutionStates /\ exec' = [exec EXCEPT ![x] = exec'[x]]
      BY <1>1, <3>1 DEF ExecutionStates, Nodes, Day
    <3>7. Fits(x)'
      BY <2>1, <3>4, <3>6 DEF Fits, Waits, Holds, Retries, Day
    <3>8. ASSUME NEW y \in Executions \ {x}, exec[y].at = "waiting"
          PROVE  /\ request'[exec[y].request].at # "idle"
                 /\ request'[exec[y].request].day = Day(y)
                 /\ exec'[x].request # exec[y].request
      BY <1>2, <3>2, <3>4, <3>6, <3>8 DEF Fits, Waits
    <3>9. /\ inbox' \in [Days -> SUBSET Artifacts] /\ claimed' \subseteq Days
          /\ \A d \in Days : inbox[d] \subseteq inbox'[d] /\ inbox'[d] \subseteq Mailable(d)'
      BY <1>1, <1>4, <3>2 DEF Get, TypeOK, DeliveryInv, MailedSaved, Mailable
    <3> QED BY <3>5, <3>6, <3>7, <3>8, <3>9, StepOf
  <2> QED BY <1>4, <2>2, <2>3 DEF Get
<1>5. ASSUME NEW x \in Executions, Respond(x) PROVE DeliveryInv'
  <2> DEFINE r == exec[x].request
  <2>1. /\ exec[x].at = "waiting" /\ r \in Requests /\ Day(x) \in Days
        /\ request[r].day = Day(x) /\ exec[x].attempt <= MaxSendRetries
    BY <1>2, <1>5 DEF Respond, Fits, Waits, Holds, Retries, ExecutionStates
  <2>2. Agregado!Finish(r) /\ UNCHANGED digest
    BY <1>5 DEF Respond, Agregado!Finish
  <2>3. StoreMoves /\ \A q \in Requests \ {r} : request'[q] = request[q]
    BY <2>1, <2>2, RequestMoves DEF Agregado!RequestStep
  <2>4. /\ exec'[x].at \in {"send", "alert"} /\ exec'[x].request = None
        /\ exec'[x].day = Day(x) /\ exec'[x].attempt = exec[x].attempt
        /\ exec'[x] \in ExecutionStates /\ exec' = [exec EXCEPT ![x] = exec'[x]]
        /\ exec'[x].at = "send" => /\ request[r].at = "reply"
                                   /\ exec'[x].artifact = request[r].reply
    <3>1. request[r].reply \in Artifacts \union {None}
      BY <1>1, <2>1 DEF TypeOK, Agregado!TypeOK
    <3>2. CASE request[r].at = "reply"
      <4>1. exec' = [exec EXCEPT ![x].at = "send", ![x].request = None,
                                 ![x].artifact = request[r].reply]
        BY <1>5, <3>2 DEF Respond
      <4> QED BY <1>1, <3>1, <3>2, <4>1 DEF ExecutionStates, Nodes, Day
    <3>3. CASE request[r].at # "reply"
      <4>1. exec' = [exec EXCEPT ![x].at = "alert", ![x].request = None]
        BY <1>5, <3>3 DEF Respond, GoTo
      <4> QED BY <1>1, <4>1 DEF ExecutionStates, Nodes, Day
    <3> QED BY <3>2, <3>3
  <2>5. Fits(x)'
    <3>1. exec'[x].at = "send" => exec'[x].artifact \in Mailable(Day(x))
      BY <1>1, <2>1, <2>4 DEF RepliesHonest
    <3>2. Mailable(Day(x)) = EmptyOnes \union ({digest'[Day(x)]} \ {None})
      BY <2>2 DEF Mailable
    <3>3. Waits(x)' /\ Retries(x)'
      BY <2>1, <2>4 DEF Waits, Retries
    <3>4. Holds(x)'
      BY <2>1, <2>4, <3>1, <3>2 DEF Holds, Mailable, Day, Artifact
    <3> QED BY <3>3, <3>4 DEF Fits
  <2>6. ASSUME NEW y \in Executions \ {x}, exec[y].at = "waiting"
        PROVE  /\ request'[exec[y].request].at # "idle"
               /\ request'[exec[y].request].day = Day(y)
               /\ exec'[x].request # exec[y].request
    <3>1. exec[y].request \in Requests /\ exec[y].request # r
      BY <1>2, <2>1, <2>6 DEF Fits, Waits, DeliveryInv, OwnRequests
    <3> QED BY <1>2, <2>3, <2>4, <2>6, <3>1 DEF Fits, Waits
  <2>7. /\ inbox' \in [Days -> SUBSET Artifacts] /\ claimed' \subseteq Days
        /\ \A d \in Days : inbox[d] \subseteq inbox'[d] /\ inbox'[d] \subseteq Mailable(d)'
    BY <1>1, <1>5, <2>2 DEF Respond, TypeOK, DeliveryInv, MailedSaved, Mailable
  <2> QED BY <2>3, <2>4, <2>5, <2>6, <2>7, StepOf
<1>6. ASSUME NEW x \in Executions, NEW node \in Nodes \ {"schedule", "waiting"}, GoTo(x, node)
      PROVE  /\ exec'[x].at = node /\ exec'[x].day = Day(x) /\ exec'[x].request = None
             /\ exec'[x].artifact = Artifact(x) /\ exec'[x].attempt = exec[x].attempt
             /\ exec'[x] \in ExecutionStates /\ exec' = [exec EXCEPT ![x] = exec'[x]]
  BY <1>1, <1>6 DEF GoTo, ExecutionStates, Nodes, Ended, Day, Artifact
<1>7. ASSUME NEW x \in Executions, TimeOut(x) PROVE DeliveryInv'
  <2>1. exec[x].at = "waiting" /\ Day(x) \in Days
    BY <1>2, <1>7 DEF TimeOut, Fits, Holds
  <2>2. GoTo(x, "alert") /\ "alert" \in Nodes \ {"schedule", "waiting"}
    BY <1>7 DEF TimeOut, Nodes
  <2>3. Holds(x)' /\ Retries(x)'
    BY <1>6, <2>1, <2>2 DEF Holds, Retries, Day
  <2> QED BY <1>1, <1>6, <1>7, <2>2, <2>3, LocalStep DEF TimeOut, TypeOK
<1>8. ASSUME NEW x \in Executions, Send(x) PROVE DeliveryInv'
  <2>1. /\ exec[x].at = "send" /\ Day(x) \in Days /\ Artifact(x) \in Mailable(Day(x))
        /\ exec[x].attempt <= MaxSendRetries /\ UNCHANGED agregado
    BY <1>2, <1>8 DEF Send, Fits, Holds, Retries, ExecutionStates
  <2>2. PICK node \in {"check", "classify"} :
           /\ GoTo(x, node)
           /\ Deliver(x) \/ UNCHANGED inbox
           /\ node = "check" => Deliver(x)
    BY <1>8 DEF Send
  <2>3. node \in Nodes \ {"schedule", "waiting"}
    BY DEF Nodes
  <2>4. node = "check" => Artifact(x) \in inbox'[Day(x)]
    BY <1>1, <2>1, <2>2 DEF Deliver, TypeOK
  <2>5. /\ exec'[x].at = node /\ exec'[x].day = Day(x)
        /\ exec'[x].artifact = Artifact(x) /\ exec'[x].attempt = exec[x].attempt
    BY <1>6, <2>2, <2>3
  <2>6. Holds(x)' /\ Retries(x)'
    <3>1. \A d \in Days : Mailable(d)' = Mailable(d)
      BY <2>1 DEF Mailable, agregado
    <3> QED BY <2>1, <2>4, <2>5, <3>1 DEF Holds, Retries, Day, Artifact, Mailable
  <2> QED BY <1>1, <1>6, <1>8, <2>1, <2>2, <2>3, <2>6, LocalStep DEF Send, TypeOK
<1>9. ASSUME NEW x \in Executions, CheckEmpty(x) PROVE DeliveryInv'
  <2>1. /\ exec[x].at = "check" /\ Day(x) \in Days /\ Artifact(x) \in inbox[Day(x)]
        /\ exec[x].attempt <= MaxSendRetries
    BY <1>2, <1>9 DEF CheckEmpty, Fits, Holds, Retries, ExecutionStates
  <2>2. PICK node \in {"alert", "delivered"} :
           GoTo(x, node) /\ (node = "delivered" => Artifact(x) \notin EmptyOnes)
    BY <1>9 DEF CheckEmpty, IsEmpty
  <2>3. node \in Nodes \ {"schedule", "waiting"}
    BY DEF Nodes, Ended
  <2>4. /\ exec'[x].at = node /\ exec'[x].day = Day(x)
        /\ exec'[x].attempt = exec[x].attempt /\ UNCHANGED inbox
    BY <1>6, <1>9, <2>2, <2>3 DEF CheckEmpty
  <2>5. Holds(x)' /\ Retries(x)'
    <3>1. node = "delivered" => inbox'[Day(x)] \ EmptyOnes # {}
      BY <2>1, <2>2, <2>4
    <3> QED BY <2>1, <2>2, <2>4, <3>1 DEF Holds, Retries, Day, NonEmpty
  <2> QED BY <1>1, <1>6, <1>9, <2>2, <2>3, <2>5, LocalStep DEF CheckEmpty, TypeOK
<1>10. ASSUME NEW x \in Executions, Classify(x) PROVE DeliveryInv'
  <2> DEFINE attempt == exec[x].attempt + 1
             node == IF attempt <= MaxSendRetries THEN "get" ELSE "alert"
  <2>1. /\ exec[x].at = "classify" /\ exec[x].request = None /\ Day(x) \in Days
        /\ exec[x].attempt \in 0..MaxSendRetries
    BY <1>2, <1>10 DEF Classify, Fits, Waits, Holds, Retries, ExecutionStates
  <2>2. exec' = [exec EXCEPT ![x].at = node, ![x].attempt = attempt]
    BY <1>10 DEF Classify
  <2>3. node \in {"get", "alert"} /\ attempt \in 0..MaxSendRetries + 1
    BY <2>1
  <2> HIDE DEF node, attempt
  <2>4. /\ exec'[x].at = node /\ exec'[x].day = Day(x) /\ exec'[x].request = None
        /\ exec'[x].attempt = attempt
        /\ exec'[x] \in ExecutionStates /\ exec' = [exec EXCEPT ![x] = exec'[x]]
    BY <1>1, <2>1, <2>2, <2>3 DEF ExecutionStates, Nodes, Day
  <2>5. attempt > MaxSendRetries => node = "alert"
    BY <2>1 DEF node, attempt
  <2>6. Holds(x)' /\ Retries(x)'
    BY <2>1, <2>3, <2>4, <2>5 DEF Holds, Retries, Day
  <2> QED BY <1>1, <1>10, <2>3, <2>4, <2>6, LocalStep DEF Classify, TypeOK
<1>11. ASSUME NEW x \in Executions, ClaimAlert(x) PROVE DeliveryInv'
  <2>1. exec[x].at = "alert" /\ Day(x) \in Days
    BY <1>2, <1>11 DEF ClaimAlert, Fits, Holds
  <2>2. PICK node \in {"failed", "notify"} : GoTo(x, node)
    BY <1>11 DEF ClaimAlert
  <2>3. claimed' \subseteq Days /\ node \in Nodes \ {"schedule", "waiting"}
    BY <1>1, <1>11, <2>1 DEF ClaimAlert, TypeOK, Nodes, Ended
  <2>4. Holds(x)' /\ Retries(x)'
    BY <1>6, <2>1, <2>2, <2>3 DEF Holds, Retries, Day
  <2> QED BY <1>6, <1>11, <2>2, <2>3, <2>4, LocalStep DEF ClaimAlert
<1>12. ASSUME NEW x \in Executions, Notify(x) PROVE DeliveryInv'
  <2>1. exec[x].at = "notify" /\ Day(x) \in Days
    BY <1>2, <1>12 DEF Notify, Fits, Holds
  <2>2. GoTo(x, "failed") /\ "failed" \in Nodes \ {"schedule", "waiting"}
    BY <1>12 DEF Notify, Nodes, Ended
  <2>3. Holds(x)' /\ Retries(x)'
    BY <1>6, <2>1, <2>2 DEF Holds, Retries, Day
  <2> QED BY <1>1, <1>6, <1>12, <2>2, <2>3, LocalStep DEF Notify, TypeOK
<1>13. ASSUME NEW r \in Requests, Serve(r) PROVE DeliveryInv'
  <2>1. /\ StoreMoves /\ UNCHANGED workflow
        /\ \A q \in Requests \ {r} : request'[q] = request[q]
        /\ request[r].at \notin {"reply", "failed"} =>
              request'[r].at # "idle" /\ request'[r].day = request[r].day
    BY <1>13, RequestMoves DEF Serve
  <2>2. ASSUME NEW x \in Executions PROVE Fits(x)'
    <3>1. Waits(x)'
      BY <1>2, <1>13, <2>1 DEF Fits, Waits, Day, Serve, Awaited, workflow
    <3>2. \A d \in Days : Mailable(d) \subseteq Mailable(d)'
      BY <2>1 DEF StoreMoves, Mailable
    <3>3. Holds(x)' /\ Retries(x)'
      BY <1>2, <2>1, <3>2
      DEF Fits, Holds, Retries, Day, Artifact, Mailable, NonEmpty, workflow
    <3> QED BY <3>1, <3>3 DEF Fits
  <2>3. TypeOK' /\ RepliesHonest' /\ OwnRequests' /\ MailedSaved'
    BY <2>1 DEF DeliveryInv, TypeOK, StoreMoves, OwnRequests, MailedSaved, Mailable, workflow
  <2> QED BY <2>2, <2>3 DEF DeliveryInv
<1>14. CASE Crash
  <2>1. /\ request' = [r \in Requests |-> Agregado!Idle]
        /\ UNCHANGED <<digest, inbox, claimed>>
    BY <1>14 DEF Crash, Agregado!Crash
  <2>2. exec' = [x \in Executions |->
                   IF exec[x].at = "waiting"
                   THEN [exec[x] EXCEPT !.at = "alert", !.request = None]
                   ELSE exec[x]]
    BY <1>14 DEF Crash
  <2>3. ASSUME NEW x \in Executions
        PROVE  /\ exec'[x] \in ExecutionStates /\ exec'[x].request = None
               /\ exec'[x].day = exec[x].day /\ exec'[x].attempt = exec[x].attempt
               /\ exec'[x].artifact = exec[x].artifact
               /\ IF exec[x].at = "waiting" THEN exec'[x].at = "alert"
                  ELSE exec'[x].at = exec[x].at
    BY <1>2, <2>2 DEF ExecutionStates, Nodes, Fits, Waits
  <2>4. TypeOK' /\ RepliesHonest' /\ OwnRequests' /\ MailedSaved'
    <3>1. exec' \in [Executions -> ExecutionStates]
      BY <2>2, <2>3
    <3>2. Agregado!TypeOK' /\ RepliesHonest'
      BY <1>1, <2>1
      DEF TypeOK, Agregado!TypeOK, Agregado!States, Agregado!Idle, RepliesHonest
    <3>3. OwnRequests'
      BY <2>3 DEF OwnRequests
    <3>4. MailedSaved'
      BY <2>1 DEF DeliveryInv, MailedSaved, Mailable
    <3> QED BY <1>1, <2>1, <3>1, <3>2, <3>3, <3>4 DEF TypeOK, ExecutionStates
  <2>5. ASSUME NEW x \in Executions PROVE Fits(x)'
    BY <1>2, <2>1, <2>3 DEF Fits, Waits, Holds, Retries, Day, Artifact, Mailable
  <2> QED BY <2>4, <2>5 DEF DeliveryInv
<1>15. CASE UNCHANGED vars
  BY <1>15
  DEF DeliveryInv, TypeOK, Agregado!TypeOK, RepliesHonest, OwnRequests, MailedSaved, Fits, Waits,
      Holds, Retries, Mailable, Day, Artifact, NonEmpty, vars, agregado, workflow
<1> QED
  BY <1>3, <1>4, <1>5, <1>7, <1>8, <1>9, <1>10, <1>11, <1>12, <1>13, <1>14, <1>15
  DEF Next, ExecutionStep

\* The invariant holds in every reachable state.
THEOREM DeliveryInvariant == Spec => []DeliveryInv
<1>1. Init => DeliveryInv
  <2> SUFFICES ASSUME Init PROVE DeliveryInv
    OBVIOUS
  <2> USE DigestDeliveryAssumption
  <2>1. TypeOK
    BY DEF Init, TypeOK, Nodes, Agregado!Init, Agregado!TypeOK, Agregado!Idle, Agregado!States
  <2>2. RepliesHonest /\ OwnRequests /\ MailedSaved
    BY DEF Init, Agregado!Init, Agregado!Idle, RepliesHonest, OwnRequests, MailedSaved
  <2>3. \A x \in Executions : Fits(x)
    BY DEF Init, Fits, Waits, Holds, Retries
  <2> QED BY <2>1, <2>2, <2>3 DEF DeliveryInv
<1> QED BY <1>1, DeliveryStep, PTL DEF Spec

\* All the emails with articles that a reader gets for a day carry the one
\* Digest saved for it, whatever was retried, timed out or started by hand
\* (build-daily-digest.js: "no regenerated content").
THEOREM DeliveryEmailsAgree == Spec => []EmailsAgree
<1>1. DeliveryInv => EmailsAgree
  BY DEF DeliveryInv, MailedSaved, Mailable, EmailsAgree, NonEmpty
<1> QED BY <1>1, DeliveryInvariant, PTL

\* An execution that ended quietly delivered articles.
THEOREM DeliveryQuiet == Spec => []QuietMeansDelivered
<1>1. DeliveryInv => QuietMeansDelivered
  BY DEF DeliveryInv, Fits, Holds, QuietMeansDelivered
<1> QED BY <1>1, DeliveryInvariant, PTL

-----------------------------------------------------------------------------
(* The selection of candidates *)

\* What the constants and the variables are, for the proofs.
SelectionTyped ==
    /\ DigestSelectionAssumption
    /\ pool \in Pools /\ phase \in {"passing", "topup", "done"}
    /\ remaining \subseteq 1..Len(pool)
    /\ picked \in Seq(1..Len(pool)) /\ selected \in Seq(1..Len(pool))

\* What every phase has picked, and from how many.
Counted ==
    LET passing == Cardinality(Passing(pool))
        rejected == Cardinality(Rejected(pool))
        first == Min2(MaxItems, passing)
    IN  /\ phase = "passing" =>
              /\ Len(picked) + Cardinality(remaining) = passing
              /\ Len(picked) <= MaxItems /\ selected = <<>>
        /\ phase = "topup" =>
              /\ Len(selected) = first /\ first < 3
              /\ Len(picked) + Cardinality(remaining) = rejected
              /\ Len(picked) <= 3 - first
        /\ phase = "done" =>
              \/ selected = <<>> /\ Len(picked) = first /\ first >= 3
              \/ /\ Len(selected) = first /\ first < 3
                 /\ Len(picked) = Min2(3 - first, rejected)

SelectionInv == SelectionTyped /\ Counted /\ EvenSources

-----------------------------------------------------------------------------

\* A set that holds 0 and, with a number, its successor holds every number.
LEMMA Counting ==
    ASSUME NEW S, 0 \in S, \A n \in Nat : n \in S => n + 1 \in S
    PROVE  Nat \subseteq S
<1> DEFINE T == Nat \ S
<1>1. SUFFICES ASSUME T # {} PROVE FALSE
  OBVIOUS
<1>2. PICK m \in T : \A n \in T : ~ (<<n, m>> \in OpToRel(<, Nat))
  BY <1>1, NatLessThanWellFounded, WFMin
<1>3. m \in Nat /\ m # 0 /\ m - 1 \in Nat
  OBVIOUS
<1>4. <<m - 1, m>> \in OpToRel(<, Nat)
  BY <1>3 DEF OpToRel
<1>5. m - 1 \in S
  BY <1>2, <1>3, <1>4
<1>6. (m - 1) + 1 = m
  BY <1>3
<1> QED BY <1>3, <1>5, <1>6

\* i is the first of the positions S that has the highest value.
IsBest(v, S, i) == \A j \in S : v[j] < v[i] \/ (v[j] = v[i] /\ i <= j)

\* Every set of positions has a best one.
LEMMA BestExists ==
    ASSUME NEW n \in Nat, NEW v \in [1..n -> Int], NEW S \in SUBSET (1..n), S # {}
    PROVE  \E i \in S : IsBest(v, S, i)
<1> DEFINE Has(m) == m <= n => \A R \in SUBSET (1..m) : R # {} => \E i \in R : IsBest(v, R, i)
<1>1. Has(0)
  <2>1. 1..0 = {}
    OBVIOUS
  <2> QED BY <2>1
<1>2. ASSUME NEW m \in Nat, Has(m) PROVE Has(m + 1)
  <2> SUFFICES ASSUME m + 1 <= n, NEW R \in SUBSET (1..m + 1), R # {}
               PROVE  \E i \in R : IsBest(v, R, i)
    OBVIOUS
  <2>1. m <= n
    OBVIOUS
  <2> DEFINE Q == R \ {m + 1}
  <2>2. Q \in SUBSET (1..m) /\ \A j \in R : j \in Q \/ j = m + 1
    OBVIOUS
  <2>3. CASE Q = {}
    <3>1. m + 1 \in R /\ \A j \in R : j = m + 1
      BY <2>2, <2>3
    <3> QED BY <3>1 DEF IsBest
  <2>4. CASE Q # {}
    <3>1. PICK i \in Q : IsBest(v, Q, i)
      BY <1>2, <2>1, <2>2, <2>4
    <3>2. CASE m + 1 \notin R
      BY <2>2, <3>1, <3>2 DEF IsBest
    <3>3. CASE m + 1 \in R
      <4>1. i \in 1..n /\ m + 1 \in 1..n /\ i <= m + 1 /\ \A j \in Q : j \in 1..n
        BY <2>1, <2>2
      <4>2. v[i] \in Int /\ v[m + 1] \in Int /\ \A j \in Q : v[j] \in Int
        BY <4>1
      <4>3. CASE v[m + 1] > v[i]
        <5>1. \A j \in Q : v[j] < v[m + 1]
          BY <3>1, <4>2, <4>3 DEF IsBest
        <5>2. ASSUME NEW j \in R
              PROVE  v[j] < v[m + 1] \/ (v[j] = v[m + 1] /\ m + 1 <= j)
          <6>1. CASE j \in Q
            BY <5>1, <6>1
          <6>2. CASE j = m + 1
            BY <4>1, <6>2
          <6> QED BY <2>2, <6>1, <6>2
        <5>3. IsBest(v, R, m + 1)
          BY <5>2 DEF IsBest
        <5> QED BY <3>3, <5>3
      <4>4. CASE v[m + 1] <= v[i]
        <5>1. IsBest(v, R, i)
          BY <2>2, <3>1, <4>1, <4>2, <4>4 DEF IsBest
        <5> QED BY <5>1
      <4> QED BY <4>2, <4>3, <4>4
    <3> QED BY <3>2, <3>3
  <2> QED BY <2>3, <2>4
<1>3. Has(n)
  <2> HIDE DEF Has
  <2> DEFINE All == {m \in Nat : Has(m)}
  <2>1. 0 \in All
    BY <1>1
  <2>2. \A m \in Nat : m \in All => m + 1 \in All
    BY <1>2
  <2> HIDE DEF All
  <2>3. n \in All
    BY <2>1, <2>2, Counting
  <2> QED BY <2>3 DEF All
<1> QED BY <1>3 DEF Has

\* The value of a position is an integer.
LEMMA ValueType ==
    ASSUME SelectionTyped, NEW i \in 1..Len(pool)
    PROVE  Value(i, picked) \in Int
<1> DEFINE Same == {k \in DOMAIN picked : pool[picked[k]].source = pool[i].source}
           Shared(k) == {<<k, t>> : t \in pool[picked[k]].topics \intersect pool[i].topics}
           Families == {Shared(k) : k \in DOMAIN picked}
<1>1. DOMAIN picked = 1..Len(picked) /\ Len(picked) \in Nat
  BY DEF SelectionTyped
<1>2. IsFiniteSet(1..Len(picked))
  BY <1>1, FS_Interval
<1>3. Cardinality(Same) \in Nat
  BY <1>1, <1>2, FS_Subset, FS_CardinalityType
<1>4. /\ pool[i].score \in Int /\ IsFiniteSet(pool[i].topics)
  BY DEF SelectionTyped, DigestSelectionAssumption
<1>5. ASSUME NEW k \in DOMAIN picked PROVE IsFiniteSet(Shared(k))
  <2> DEFINE Both == pool[picked[k]].topics \intersect pool[i].topics
             f == [t \in Both |-> <<k, t>>]
  <2>1. IsFiniteSet(Both)
    BY <1>4, FS_Subset
  <2>2. f \in Surjection(Both, Shared(k))
    BY DEF Surjection
  <2> QED BY <2>1, <2>2, FS_Surjection
<1>6. IsFiniteSet(Families)
  <2> DEFINE f == [k \in DOMAIN picked |-> Shared(k)]
  <2>1. f \in Surjection(DOMAIN picked, Families)
    BY DEF Surjection
  <2> QED BY <1>1, <1>2, <2>1, FS_Surjection
<1>7. Cardinality(UNION Families) \in Nat
  BY <1>5, <1>6, FS_UNION, FS_CardinalityType
<1>8. Penalty(i, picked) = 10 * Cardinality(Same) + 5 * Cardinality(UNION Families)
  BY DEF Penalty
<1> HIDE DEF Same, Families
<1> QED BY <1>3, <1>4, <1>7, <1>8 DEF Value

\* A pick is the first position of the highest value.
LEMMA BestIsBest ==
    ASSUME SelectionTyped, remaining # {}
    PROVE  /\ Best(remaining, picked) \in remaining
           /\ \A j \in remaining :
                Value(j, picked) <= Value(Best(remaining, picked), picked)
<1> DEFINE n == Len(pool)
           v == [i \in 1..n |-> Value(i, picked)]
           P(i) == \A j \in remaining :
                      \/ Value(j, picked) < Value(i, picked)
                      \/ Value(j, picked) = Value(i, picked) /\ i <= j
<1>1. n \in Nat /\ remaining \in SUBSET (1..n)
  BY DEF SelectionTyped, DigestSelectionAssumption
<1>2. v \in [1..n -> Int]
  BY ValueType
<1>3. \A i \in remaining : v[i] = Value(i, picked) /\ v[i] \in Int
  BY <1>1, <1>2
<1> HIDE DEF v, n
<1>4. PICK i \in remaining : IsBest(v, remaining, i)
  BY <1>1, <1>2, BestExists
<1>5. P(i)
  BY <1>3, <1>4 DEF IsBest
<1>6. Best(remaining, picked) \in remaining /\ P(Best(remaining, picked))
  <2>1. Best(remaining, picked) = CHOOSE x \in remaining : P(x)
    BY DEF Best
  <2> HIDE DEF P
  <2> QED BY <1>5, <2>1
<1> QED BY <1>3, <1>6


\* Positions up to a number make finite sets.
LEMMA FiniteRange ==
    ASSUME NEW n \in Nat, NEW S \in SUBSET (1..n)
    PROVE  IsFiniteSet(S) /\ Cardinality(S) \in Nat
<1>1. IsFiniteSet(1..n)
  BY FS_Interval
<1> QED BY <1>1, FS_Subset, FS_CardinalityType

\* The passing and the rejected are finite sets of positions.
LEMMA PoolCounts ==
    ASSUME SelectionTyped
    PROVE  /\ Passing(pool) \subseteq 1..Len(pool) /\ Rejected(pool) \subseteq 1..Len(pool)
           /\ Cardinality(Passing(pool)) \in Nat /\ Cardinality(Rejected(pool)) \in Nat
           /\ IsFiniteSet(remaining) /\ Cardinality(remaining) \in Nat
           /\ MaxItems \in 1..10 /\ Len(picked) \in Nat /\ Len(selected) \in Nat
<1>1. Len(pool) \in Nat /\ DOMAIN pool = 1..Len(pool) /\ MaxItems \in 1..10
  BY DEF SelectionTyped, DigestSelectionAssumption
<1>2. Passing(pool) \subseteq 1..Len(pool) /\ Rejected(pool) \subseteq 1..Len(pool)
  BY <1>1 DEF Passing, Rejected
<1>3. \A S \in SUBSET (1..Len(pool)) : IsFiniteSet(S) /\ Cardinality(S) \in Nat
  BY FiniteRange, <1>1
<1> QED BY <1>1, <1>2, <1>3 DEF SelectionTyped

\* The first call starts with all that pass.
LEMMA SelectionInitial == DigestSelectionAssumption /\ SelectionInit => SelectionInv
<1> SUFFICES ASSUME DigestSelectionAssumption, SelectionInit PROVE SelectionInv
  OBVIOUS
<1>1. /\ pool \in Pools /\ remaining = Passing(pool) /\ picked = <<>> /\ selected = <<>>
      /\ phase = "passing" /\ DOMAIN pool = 1..Len(pool)
  BY DEF SelectionInit, DigestSelectionAssumption
<1>2. SelectionTyped
  BY <1>1 DEF SelectionTyped, Passing
<1>3. Counted
  <2>1. Len(picked) = 0
    BY <1>1
  <2> QED BY <1>1, <1>2, <2>1, PoolCounts DEF Counted
<1>4. EvenSources
  BY <1>1 DEF EvenSources
<1> QED BY <1>2, <1>3, <1>4 DEF SelectionInv

\* A pick keeps the sum of the picked and the remaining.
LEMMA PickTyped ==
    ASSUME SelectionInv, Pick
    PROVE  /\ SelectionTyped' /\ Len(picked') = Len(picked) + 1
           /\ Cardinality(remaining') = Cardinality(remaining) - 1
<1>1. SelectionTyped /\ remaining # {}
  BY DEF SelectionInv, Pick
<1>2. Best(remaining, picked) \in remaining
  BY <1>1, BestIsBest
<1> DEFINE best == Best(remaining, picked)
<1>3. /\ picked' = Append(picked, best) /\ remaining' = remaining \ {best}
      /\ UNCHANGED <<pool, selected, phase>> /\ best \in 1..Len(pool)
  BY <1>1, <1>2 DEF Pick, SelectionTyped
<1>4. Cardinality(remaining') = Cardinality(remaining) - 1
  BY <1>1, <1>2, <1>3, PoolCounts, FS_RemoveElement
<1> HIDE DEF best
<1>5. picked' \in Seq(1..Len(pool)) /\ Len(picked') = Len(picked) + 1
  BY <1>1, <1>3 DEF SelectionTyped
<1>6. SelectionTyped'
  BY <1>1, <1>3, <1>5 DEF SelectionTyped, DigestSelectionAssumption
<1> QED BY <1>4, <1>5, <1>6

\* The numbers after a pick.
LEMMA PickCounted == ASSUME SelectionInv, Pick PROVE Counted'
<1>1. SelectionTyped /\ Counted
  BY DEF SelectionInv
<1>2. /\ Len(picked') = Len(picked) + 1
      /\ Cardinality(remaining') = Cardinality(remaining) - 1
      /\ UNCHANGED <<pool, selected, phase>> /\ phase # "done" /\ Len(picked) < Limit
  BY PickTyped DEF Pick
<1>3. Passing(pool)' = Passing(pool) /\ Rejected(pool)' = Rejected(pool)
  BY <1>2 DEF Passing, Rejected
<1> DEFINE passing == Cardinality(Passing(pool))
           rejected == Cardinality(Rejected(pool))
           first == Min2(MaxItems, passing)
<1>4. /\ Len(picked) \in Nat /\ Cardinality(remaining) \in Nat
      /\ passing \in Nat /\ rejected \in Nat /\ MaxItems \in 1..10
  BY <1>1, PoolCounts
<1>5. CASE phase = "passing"
  <2>1. Len(picked) < MaxItems
    BY <1>2, <1>5 DEF Limit
  <2>2. Len(picked) + Cardinality(remaining) = passing /\ selected = <<>>
    BY <1>1, <1>5 DEF Counted
  <2> HIDE DEF passing
  <2>3. Len(picked') + Cardinality(remaining') = passing /\ Len(picked') <= MaxItems
    BY <1>2, <1>4, <2>1, <2>2
  <2> QED BY <1>2, <1>3, <1>5, <2>2, <2>3 DEF Counted, passing
<1>6. CASE phase = "topup"
  <2>1. Len(picked) < 3 - Len(selected)
    BY <1>2, <1>6 DEF Limit
  <2>2. /\ Len(selected) = first /\ first < 3
        /\ Len(picked) + Cardinality(remaining) = rejected
    BY <1>1, <1>6 DEF Counted
  <2>3. first \in Nat
    BY <1>4 DEF Min2
  <2> HIDE DEF first, rejected
  <2>4. Len(picked') + Cardinality(remaining') = rejected /\ Len(picked') <= 3 - first
    BY <1>2, <1>4, <2>1, <2>2, <2>3
  <2> QED BY <1>2, <1>3, <1>6, <2>2, <2>4 DEF Counted, first, rejected
<1> QED BY <1>1, <1>2, <1>5, <1>6 DEF SelectionTyped

\* Without topics the penalty is that of the source.
LEMMA SourcePenalty ==
    ASSUME SelectionTyped, NEW i \in 1..Len(pool), pool[i].topics = {}
    PROVE  /\ Penalty(i, picked) = 10 * SourceCount(picked, pool[i].source)
           /\ SourceCount(picked, pool[i].source) \in Nat
<1> DEFINE Families == {{<<k, t>> : t \in pool[picked[k]].topics \intersect pool[i].topics} :
                           k \in DOMAIN picked}
<1>1. UNION Families = {}
  OBVIOUS
<1>2. Cardinality(UNION Families) = 0
  BY <1>1, FS_EmptySet
<1>3. SourceCount(picked, pool[i].source) \in Nat
  <2>1. DOMAIN picked = 1..Len(picked) /\ Len(picked) \in Nat
    BY DEF SelectionTyped
  <2>2. SourceCount(picked, pool[i].source)
          = Cardinality({k \in 1..Len(picked) : pool[picked[k]].source = pool[i].source})
    BY <2>1 DEF SourceCount
  <2>3. {k \in 1..Len(picked) : pool[picked[k]].source = pool[i].source}
          \in SUBSET (1..Len(picked))
    OBVIOUS
  <2> QED BY <2>1, <2>2, <2>3, FiniteRange
<1>4. Penalty(i, picked) = 10 * SourceCount(picked, pool[i].source)
                            + 5 * Cardinality(UNION Families)
  BY DEF Penalty, SourceCount
<1> HIDE DEF Families
<1> QED BY <1>2, <1>3, <1>4

\* SourceCount and EvenSources of given variables.
CountIn(p, seq, source) == Cardinality({k \in DOMAIN seq : p[seq[k]].source = source})
EvenIn(p, waiting, order) ==
    \A k \in DOMAIN order : \A i \in waiting :
        (/\ p[i].score = p[order[k]].score
         /\ p[i].topics = {} /\ p[order[k]].topics = {}) =>
            CountIn(p, SubSeq(order, 1, k - 1), p[order[k]].source)
              <= CountIn(p, SubSeq(order, 1, k - 1), p[i].source)

\* That is what they are, before and after a step.
LEMMA EvenOfVariables ==
    /\ EvenSources <=> (phase = "passing" => EvenIn(pool, remaining, picked))
    /\ EvenSources' <=> (phase' = "passing" => EvenIn(pool', remaining', picked'))
    /\ \A seq, source : SourceCount(seq, source) = CountIn(pool, seq, source)
  BY DEF EvenSources, SourceCount, EvenIn, CountIn

\* A pick takes of the waiting Articles that differ by their sources alone one
\* of the source with the fewest picks, and says nothing of earlier picks.
LEMMA PickEven == ASSUME SelectionInv, Pick PROVE EvenSources'
<1>1. SelectionTyped /\ EvenSources /\ remaining # {}
  BY DEF SelectionInv, Pick
<1> DEFINE best == Best(remaining, picked)
           n == Len(picked)
<1>2. best \in remaining /\ \A j \in remaining : Value(j, picked) <= Value(best, picked)
  BY <1>1, BestIsBest
<1>3. /\ picked' = Append(picked, best) /\ remaining' = remaining \ {best}
      /\ UNCHANGED <<pool, phase>> /\ remaining \subseteq 1..Len(pool)
      /\ picked \in Seq(1..Len(pool)) /\ n \in Nat
  BY <1>1, <1>2 DEF Pick, SelectionTyped
<1>4. ASSUME NEW i \in remaining, pool[i].score = pool[best].score,
             pool[i].topics = {}, pool[best].topics = {}
      PROVE  SourceCount(picked, pool[best].source) <= SourceCount(picked, pool[i].source)
  <2>1. Value(i, picked) <= Value(best, picked) /\ i \in 1..Len(pool) /\ best \in 1..Len(pool)
    BY <1>2, <1>3
  <2>2. pool[i].score \in Int
    BY <1>1, <2>1 DEF SelectionTyped, DigestSelectionAssumption
  <2>3. /\ Penalty(i, picked) = 10 * SourceCount(picked, pool[i].source)
        /\ SourceCount(picked, pool[i].source) \in Nat
    BY <1>1, <1>4, <2>1, SourcePenalty
  <2>4. /\ Penalty(best, picked) = 10 * SourceCount(picked, pool[best].source)
        /\ SourceCount(picked, pool[best].source) \in Nat
    BY <1>1, <1>4, <2>1, SourcePenalty
  <2>5. /\ Value(i, picked) = pool[i].score * 100 - Penalty(i, picked)
        /\ Value(best, picked) = pool[i].score * 100 - Penalty(best, picked)
    BY <1>4 DEF Value
  <2> HIDE DEF best
  <2> QED BY <2>1, <2>2, <2>3, <2>4, <2>5
<1> HIDE DEF best
<1>5. /\ DOMAIN picked' = 1..n + 1 /\ picked'[n + 1] = best
      /\ \A k \in 1..n : picked'[k] = picked[k]
      /\ \A k \in 1..n + 1 : SubSeq(picked', 1, k - 1) = SubSeq(picked, 1, k - 1)
      /\ SubSeq(picked, 1, n) = picked
  BY <1>2, <1>3
<1>6. ASSUME phase = "passing", NEW k \in 1..n + 1, NEW i \in remaining',
             pool[i].score = pool[picked'[k]].score,
             pool[i].topics = {}, pool[picked'[k]].topics = {}
      PROVE  CountIn(pool, SubSeq(picked', 1, k - 1), pool[picked'[k]].source)
               <= CountIn(pool, SubSeq(picked', 1, k - 1), pool[i].source)
  <2>1. i \in remaining
    BY <1>3
  <2>2. CASE k = n + 1
    <3>1. SubSeq(picked', 1, k - 1) = picked /\ picked'[k] = best
      BY <1>3, <1>5, <2>2
    <3> QED BY <1>4, <1>6, <2>1, <3>1, EvenOfVariables
  <2>3. CASE k \in 1..n
    <3>1. EvenIn(pool, remaining, picked)
      BY <1>1, <1>6, EvenOfVariables
    <3>2. k \in DOMAIN picked /\ picked'[k] = picked[k]
      BY <1>3, <1>5, <2>3
    <3>3. SubSeq(picked', 1, k - 1) = SubSeq(picked, 1, k - 1)
      BY <1>5
    <3> QED BY <1>6, <2>1, <3>1, <3>2, <3>3 DEF EvenIn
  <2> QED BY <1>3, <2>2, <2>3
<1>7. phase = "passing" => EvenIn(pool, remaining', picked')
  BY <1>5, <1>6 DEF EvenIn
<1> QED BY <1>3, <1>7, EvenOfVariables

\* The end of the first call: the second takes what is missing to three.
LEMMA TopUpStep == ASSUME SelectionInv, TopUp PROVE SelectionInv'
<1>1. SelectionTyped /\ Counted /\ phase = "passing" /\ Exhausted /\ pool' = pool
  BY DEF SelectionInv, TopUp
<1>2. Passing(pool)' = Passing(pool) /\ Rejected(pool)' = Rejected(pool)
  BY <1>1 DEF Passing, Rejected
<1>3. /\ Len(picked) = Min2(MaxItems, Cardinality(Passing(pool)))
      /\ selected = <<>>
  <2>1. CASE remaining = {}
    <3>1. Cardinality(remaining) = 0
      BY <2>1, FS_EmptySet
    <3> QED BY <1>1, <3>1, PoolCounts DEF Counted, Min2
  <2>2. CASE Len(picked) >= Limit
    <3>1. Limit = MaxItems
      BY <1>1 DEF Limit
    <3> QED BY <1>1, <2>2, <3>1, PoolCounts DEF Counted, Min2
  <2> QED BY <1>1, <2>1, <2>2 DEF Exhausted
<1>4. CASE Len(picked) < 3
  <2>1. /\ phase' = "topup" /\ selected' = picked /\ picked' = <<>>
        /\ remaining' = Rejected(pool)
    BY <1>4 DEF TopUp
  <2>2. SelectionTyped'
    BY <1>1, <2>1, PoolCounts DEF SelectionTyped, DigestSelectionAssumption
  <2>3. Counted'
    <3>1. Len(picked') = 0
      BY <2>1
    <3>2. /\ Len(selected') = Min2(MaxItems, Cardinality(Passing(pool)))
          /\ Len(selected') < 3 /\ Len(selected') \in Nat
      BY <1>1, <1>3, <1>4, <2>1, PoolCounts
    <3> QED BY <1>1, <1>2, <2>1, <3>1, <3>2, PoolCounts DEF Counted
  <2>4. EvenSources'
    BY <2>1 DEF EvenSources
  <2> QED BY <2>2, <2>3, <2>4 DEF SelectionInv
<1>5. CASE ~(Len(picked) < 3)
  <2>1. phase' = "done" /\ UNCHANGED <<selected, picked, remaining>>
    BY <1>5 DEF TopUp
  <2>2. SelectionTyped'
    BY <1>1, <2>1 DEF SelectionTyped, DigestSelectionAssumption
  <2>3. Len(picked) >= 3
    BY <1>1, <1>5, PoolCounts
  <2>4. Counted'
    BY <1>2, <1>3, <2>1, <2>3 DEF Counted
  <2>5. EvenSources'
    BY <2>1 DEF EvenSources
  <2> QED BY <2>2, <2>4, <2>5 DEF SelectionInv
<1> QED BY <1>4, <1>5

\* The end of the second call.
LEMMA SelectionFinish == ASSUME SelectionInv, Finish PROVE SelectionInv'
<1>1. /\ SelectionTyped /\ Counted /\ phase = "topup" /\ Exhausted /\ phase' = "done"
      /\ UNCHANGED <<pool, remaining, picked, selected>>
  BY DEF SelectionInv, Finish
<1>2. Passing(pool)' = Passing(pool) /\ Rejected(pool)' = Rejected(pool)
  BY <1>1 DEF Passing, Rejected
<1> DEFINE first == Min2(MaxItems, Cardinality(Passing(pool)))
<1>3. first \in Nat /\ first < 3 /\ Len(selected) = first
  BY <1>1, PoolCounts DEF Counted, Min2
<1>4. Len(picked) = Min2(3 - first, Cardinality(Rejected(pool)))
  <2>1. CASE remaining = {}
    <3>1. Cardinality(remaining) = 0
      BY <2>1, FS_EmptySet
    <3>2. Len(picked) = Cardinality(Rejected(pool)) /\ Len(picked) <= 3 - first
      BY <1>1, <3>1, PoolCounts DEF Counted
    <3> HIDE DEF first
    <3> QED BY <1>1, <1>3, <3>2, PoolCounts DEF Min2
  <2>2. CASE Len(picked) >= Limit
    <3>1. Limit = 3 - first
      BY <1>1, <1>3 DEF Limit
    <3>2. /\ Len(picked) + Cardinality(remaining) = Cardinality(Rejected(pool))
          /\ Len(picked) <= 3 - first
      BY <1>1 DEF Counted
    <3> HIDE DEF first
    <3> QED BY <1>1, <1>3, <2>2, <3>1, <3>2, PoolCounts DEF Min2
  <2> QED BY <1>1, <2>1, <2>2 DEF Exhausted
<1>5. SelectionTyped'
  BY <1>1 DEF SelectionTyped, DigestSelectionAssumption
<1>6. Counted'
  BY <1>1, <1>2, <1>3, <1>4 DEF Counted
<1>7. EvenSources'
  BY <1>1 DEF EvenSources
<1> QED BY <1>5, <1>6, <1>7 DEF SelectionInv

\* The invariant is inductive.
LEMMA SelectionStep == SelectionInv /\ [SelectionNext]_selectionVars => SelectionInv'
<1> SUFFICES ASSUME SelectionInv, [SelectionNext]_selectionVars PROVE SelectionInv'
  OBVIOUS
<1>1. CASE Pick
  BY <1>1, PickTyped, PickCounted, PickEven DEF SelectionInv
<1>2. CASE TopUp \/ Finish
  BY <1>2, TopUpStep, SelectionFinish
<1>3. CASE UNCHANGED selectionVars
  <2>1. UNCHANGED <<pool, remaining, picked, selected, phase>>
    BY <1>3 DEF selectionVars
  <2>2. SelectionTyped'
    BY <2>1 DEF SelectionInv, SelectionTyped, DigestSelectionAssumption
  <2>3. Counted'
    BY <2>1 DEF SelectionInv, Counted, Passing, Rejected
  <2> QED BY <2>1, <2>2, <2>3, EvenOfVariables DEF SelectionInv
<1> QED BY <1>1, <1>2, <1>3 DEF SelectionNext

\* Every state of every behaviour satisfies the invariant.
THEOREM SelectionInvariant == SelectionSpec => []SelectionInv
<1>0. DigestSelectionAssumption
  BY DigestSelectionAssumption DEF DigestSelectionAssumption
<1> QED BY <1>0, SelectionInitial, SelectionStep, PTL DEF SelectionSpec

\* The selection has the size uniqueAndDiverse promises.
THEOREM SelectionSized == SelectionSpec => []SizeAsPromised
<1>1. SelectionInv => SizeAsPromised
  <2> SUFFICES ASSUME SelectionInv, phase = "done" PROVE SizeAsPromised
    BY DEF SizeAsPromised
  <2>1. SelectionTyped /\ Counted
    BY DEF SelectionInv
  <2> DEFINE first == Min2(MaxItems, Cardinality(Passing(pool)))
             rejected == Cardinality(Rejected(pool))
  <2>2. Len(Candidates) = Len(selected) + Len(picked)
    BY <2>1 DEF SelectionTyped, Candidates
  <2>3. first \in Nat /\ rejected \in Nat
    BY <2>1, PoolCounts DEF Min2
  <2>4. \/ Len(selected) = 0 /\ Len(picked) = first /\ first >= 3
        \/ Len(selected) = first /\ first < 3 /\ Len(picked) = Min2(3 - first, rejected)
    BY <2>1 DEF Counted
  <2>5. SizeAsPromised <=>
          Len(Candidates) = first + IF first < 3 THEN Min2(3 - first, rejected) ELSE 0
    BY DEF SizeAsPromised
  <2> HIDE DEF first, rejected
  <2>6. Min2(3 - first, rejected) \in Int
    BY <2>3 DEF Min2
  <2>7. CASE first < 3
    BY <2>2, <2>3, <2>4, <2>5, <2>6, <2>7
  <2>8. CASE first >= 3
    BY <2>2, <2>3, <2>4, <2>5, <2>8
  <2> QED BY <2>3, <2>7, <2>8
<1> QED BY <1>1, SelectionInvariant, PTL

\* Sources take turns among Articles that differ in nothing else.
THEOREM SelectionEven == SelectionSpec => []EvenSources
<1> QED BY SelectionInvariant, PTL DEF SelectionInv
=============================================================================
