------------------------------ MODULE ScoreSink ------------------------------
(***************************************************************************)
(* The Langfuse score sink (internal/langfuse/scores.go): goroutines Emit  *)
(* into a buffered channel under the read lock, one worker posts, and      *)
(* Shutdown closes the channel under the write lock, then waits for the    *)
(* worker or for its deadline.  Sending on a closed channel would panic.   *)
(***************************************************************************)
EXTENDS Integers, Sequences

CONSTANTS
    Events,         \* score events, each emitted by a goroutine of its own
    Closers,        \* callers of Shutdown
    QueueSize,      \* capacity of the channel
    NoEvent

ASSUME ScoreSinkAssumption ==
    /\ QueueSize \in Nat \ {0}
    /\ NoEvent \notin Events

VARIABLES
    emitter,    \* [Events -> where the goroutine in Emit is]
    closer,     \* [Closers -> where the goroutine in Shutdown is]
    closed,     \* the field closed
    queue,      \* the channel's buffer
    shut,       \* close(queue) has run
    worker,     \* "receive", "post" or "done" (the channel done is closed)
    current,    \* the event the worker has received
    cancelled,  \* s.ctx is cancelled
    panicked,   \* a goroutine sent on the closed channel, or closed it again
    fate,       \* history: [Events -> what became of the event]
    unposted    \* history: accepted events the worker drained without a POST

sinkVars == <<emitter, closer, closed, queue, shut, worker, current, cancelled,
              panicked, fate, unposted>>

Fates == {"new", "accepted", "dropped", "settled"}

SinkTypeOK ==
    /\ emitter \in [Events -> {"idle", "locked", "checked", "returned"}]
    /\ closer \in [Closers -> {"idle", "lock", "locked", "wait", "nil", "error"}]
    /\ closed \in BOOLEAN /\ shut \in BOOLEAN
    /\ queue \in Seq(Events) /\ Len(queue) <= QueueSize
    /\ worker \in {"receive", "post", "done"}
    /\ current \in Events \union {NoEvent}
    /\ cancelled \in BOOLEAN /\ panicked \in BOOLEAN
    /\ fate \in [Events -> Fates]
    /\ unposted \subseteq Events

SinkInit ==
    /\ emitter = [e \in Events |-> "idle"]
    /\ closer = [s \in Closers |-> "idle"]
    /\ closed = FALSE /\ shut = FALSE
    /\ queue = <<>>
    /\ worker = "receive"
    /\ current = NoEvent
    /\ cancelled = FALSE /\ panicked = FALSE
    /\ fate = [e \in Events |-> "new"]
    /\ unposted = {}

-----------------------------------------------------------------------------
(* Emit *)

Readers == {e \in Events : emitter[e] \in {"locked", "checked"}}

\* RLock waits for a writer that holds the lock or waits for it.
Lock(e) ==
    /\ emitter[e] = "idle"
    /\ \A s \in Closers : closer[s] \notin {"lock", "locked"}
    /\ emitter' = [emitter EXCEPT ![e] = "locked"]
    /\ UNCHANGED <<closer, closed, queue, shut, worker, current, cancelled,
                   panicked, fate, unposted>>

Return(e) == emitter' = [emitter EXCEPT ![e] = "returned"]

\* if s.closed: the event is dropped.
Check(e) ==
    /\ emitter[e] = "locked"
    /\ IF closed
       THEN Return(e) /\ fate' = [fate EXCEPT ![e] = "dropped"]
       ELSE emitter' = [emitter EXCEPT ![e] = "checked"] /\ UNCHANGED fate
    /\ UNCHANGED <<closer, closed, queue, shut, worker, current, cancelled,
                   panicked, unposted>>

Room == Len(queue) < QueueSize

\* Mutation: a plain send, which waits for room.
ReadyPlain == shut \/ Room

\* select's default: a full queue does not hold up the caller.
Ready == TRUE

\* Mutation: a full queue is not told from success.
VerdictAlways == "accepted"

Verdict == IF Room THEN "accepted" ELSE "dropped"

\* select { case s.queue <- event: default: }, and RUnlock.
Send(e) ==
    /\ emitter[e] = "checked"
    /\ Ready
    /\ Return(e)
    /\ IF shut
       THEN panicked' = TRUE /\ UNCHANGED <<queue, fate>>
       ELSE /\ queue' = IF Room THEN Append(queue, e) ELSE queue
            /\ fate' = [fate EXCEPT ![e] = Verdict]
            /\ UNCHANGED panicked
    /\ UNCHANGED <<closer, closed, shut, worker, current, cancelled, unposted>>

-----------------------------------------------------------------------------
(* Shutdown *)

Shutdown(s) ==
    /\ closer[s] = "idle"
    /\ closer' = [closer EXCEPT ![s] = "lock"]
    /\ UNCHANGED <<emitter, closed, queue, shut, worker, current, cancelled,
                   panicked, fate, unposted>>

\* Mutation: the lock is not taken, so an Emit may be between check and send.
LockIgnored == TRUE

LockFree == Readers = {} /\ \A t \in Closers : closer[t] # "locked"

Acquire(s) ==
    /\ closer[s] = "lock"
    /\ LockFree
    /\ closer' = [closer EXCEPT ![s] = "locked"]
    /\ UNCHANGED <<emitter, closed, queue, shut, worker, current, cancelled,
                   panicked, fate, unposted>>

\* The first Shutdown closes; Unlock.
Close(s) ==
    /\ closer[s] = "locked"
    /\ IF closed
       THEN UNCHANGED <<closed, shut, panicked>>
       ELSE /\ closed' = TRUE /\ shut' = TRUE
            /\ panicked' = (panicked \/ shut)
    /\ closer' = [closer EXCEPT ![s] = "wait"]
    /\ UNCHANGED <<emitter, queue, worker, current, cancelled, fate, unposted>>

\* Mutation: Shutdown does not wait for the worker.
DoneAssumed == TRUE

Done == worker = "done"

\* <-s.done, or the deadline, which cancels the worker's context.
Wait(s) ==
    /\ closer[s] = "wait"
    /\ \/ /\ Done
          /\ closer' = [closer EXCEPT ![s] = "nil"]
          /\ UNCHANGED cancelled
       \/ /\ closer' = [closer EXCEPT ![s] = "error"]
          /\ cancelled' = TRUE
    /\ UNCHANGED <<emitter, closed, queue, shut, worker, current, panicked,
                   fate, unposted>>

-----------------------------------------------------------------------------
(* The worker *)

Settle(e) == fate' = [fate EXCEPT ![e] = "settled"]

\* for event := range s.queue: after Shutdown gave up, drain without sending;
\* when the channel is closed and empty, cancel and close(done).
Receive ==
    /\ worker = "receive"
    /\ \/ /\ queue # <<>>
          /\ queue' = Tail(queue)
          /\ IF cancelled
             THEN /\ Settle(Head(queue))
                  /\ unposted' = unposted \union {Head(queue)}
                  /\ UNCHANGED <<worker, current>>
             ELSE /\ current' = Head(queue)
                  /\ worker' = "post"
                  /\ UNCHANGED <<fate, unposted>>
          /\ UNCHANGED cancelled
       \/ /\ queue = <<>> /\ shut
          /\ worker' = "done"
          /\ cancelled' = TRUE
          /\ UNCHANGED <<queue, current, fate, unposted>>
    /\ UNCHANGED <<emitter, closer, closed, shut, panicked>>

\* post: sent, refused or timed out; none of it is retried.
Post ==
    /\ worker = "post"
    /\ Settle(current)
    /\ worker' = "receive"
    /\ current' = NoEvent
    /\ UNCHANGED <<emitter, closer, closed, queue, shut, cancelled, panicked,
                   unposted>>

EmitStep(e) == Lock(e) \/ Check(e) \/ Send(e)
CloserStep(s) == Acquire(s) \/ Close(s) \/ Wait(s)
WorkerStep == Receive \/ Post

SinkNext ==
    \/ \E e \in Events : EmitStep(e)
    \/ \E s \in Closers : Shutdown(s) \/ CloserStep(s)
    \/ WorkerStep

\* Goroutines inside Emit and Shutdown run, and a Shutdown's deadline comes.
\* The worker is left out: Langfuse may hang.
CallersFair ==
    /\ \A e \in Events : WF_sinkVars(Check(e) \/ Send(e))
    /\ \A s \in Closers : WF_sinkVars(CloserStep(s))

SinkSpec == SinkInit /\ [][SinkNext]_sinkVars /\ CallersFair

-----------------------------------------------------------------------------
(* Properties *)

\* Safety: no goroutine sends on the closed channel or closes it twice, in
\* any interleaving of Emit and Shutdown (the comment on Scores.mu).
NoPanic == ~panicked

\* Safety: a Shutdown that reports success left no accepted event unposted,
\* unless another Shutdown has already given up.
NilMeansPosted ==
    (/\ \E s \in Closers : closer[s] = "nil"
     /\ \A s \in Closers : closer[s] # "error") =>
        \A e \in Events : fate[e] # "accepted" /\ e \notin unposted

\* Refinement: with the buffer and the event in flight as one line, the sink
\* is a ScoreChannel: FIFO, at most once, dropped or accepted at once.
Posting == IF worker = "post" THEN <<current>> ELSE <<>>
Channel == INSTANCE ScoreChannel WITH line <- Posting \o queue
ImplementsChannel == Channel!Spec

\* Liveness, with a worker that may hang for ever: Emit returns once it has
\* the lock ("a slow or down Langfuse never holds up the caller"), and so
\* does Shutdown, which nothing else bounds.
CallersReturn ==
    /\ \A e \in Events : emitter[e] = "locked" ~> emitter[e] = "returned"
    /\ \A s \in Closers : closer[s] = "lock" ~> closer[s] \in {"nil", "error"}

=============================================================================
