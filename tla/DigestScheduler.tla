--------------------------- MODULE DigestScheduler ---------------------------
(***************************************************************************)
(* The reader's in-memory Digest (internal/digest/scheduler.go): callers of*)
(* Today (the admin's send and preview), of TodayOrTrigger (the homepage)  *)
(* and of Refresh share one cached Digest and at most one compute, which   *)
(* runs without the lock for minutes.  Every section under the lock is one *)
(* step; a computed Digest is named by the call that computed it.          *)
(***************************************************************************)
EXTENDS Integers, FiniteSets

CONSTANTS
    Calls,      \* one call of Today, TodayOrTrigger or Refresh each
    MaxDay,     \* bound on the days
    NoCall

ASSUME DigestSchedulerAssumption == MaxDay \in Nat /\ NoCall \notin Calls

VARIABLES
    day,                \* time.Now()'s date
    cached, cachedDate, \* the computed Digest or NoCall, and its date
    inFlight,           \* the call whose channel inFlight is, or NoCall
    call,               \* [Calls -> the locals of the call]
    computed,           \* history: the calls whose compute succeeded
    earlier             \* history: [Calls -> computed when a Refresh began]

schedulerVars == <<day, cached, cachedDate, inFlight, call, computed, earlier>>

Kinds == {"today", "page", "refresh"}
Ended == {"answered", "notReady", "failed"}
Fresh == [at |-> "idle", kind |-> "today", date |-> 0, on |-> NoCall, answer |-> NoCall]

SchedulerTypeOK ==
    /\ day \in 0..MaxDay /\ cachedDate \in 0..MaxDay
    /\ {cached, inFlight} \subseteq Calls \union {NoCall}
    /\ call \in [Calls -> [at: {"idle", "drop", "check", "await", "wait", "compute",
                                "close"} \union Ended,
                           kind: Kinds, date: 0..MaxDay,
                           on: Calls \union {NoCall}, answer: Calls \union {NoCall}]]
    /\ computed \subseteq Calls /\ earlier \in [Calls -> SUBSET Calls]

SchedulerInit ==
    /\ day = 0 /\ cached = NoCall /\ cachedDate = 0 /\ inFlight = NoCall
    /\ call = [c \in Calls |-> Fresh]
    /\ computed = {} /\ earlier = [c \in Calls |-> {}]

-----------------------------------------------------------------------------

MoveTo(c, at) == call' = [call EXCEPT ![c].at = at]
Answer(c, digest) == call' = [call EXCEPT ![c].at = "answered", ![c].answer = digest]

\* A call takes today's date before it takes the lock.
Begin(c, kind) ==
    /\ call[c].at = "idle"
    /\ call' = [call EXCEPT ![c].kind = kind, ![c].date = day,
                            ![c].at = CASE kind = "today" -> "await"
                                        [] kind = "page" -> "check"
                                        [] kind = "refresh" -> "drop"]
    /\ earlier' = [earlier EXCEPT ![c] = IF kind = "refresh" THEN computed ELSE {}]
    /\ UNCHANGED <<day, cached, cachedDate, inFlight, computed>>

\* Refresh drops the cache, and only then asks like everybody else.
Drop(c) ==
    /\ call[c].at = "drop" /\ MoveTo(c, "await")
    /\ cached' = NoCall
    /\ UNCHANGED <<day, cachedDate, inFlight, computed, earlier>>

\* Mutation: whatever is cached is the answer.
AnyWarm(c) == cached # NoCall

Warm(c) == cached # NoCall /\ cachedDate = call[c].date

\* TodayOrTrigger: warm, or not ready with a compute running or, from here
\* on in the background, asked for.
Check(c) ==
    /\ call[c].at = "check"
    /\ \/ Warm(c) /\ Answer(c, cached)
       \/ ~Warm(c) /\ inFlight # NoCall /\ MoveTo(c, "notReady")
       \/ ~Warm(c) /\ inFlight = NoCall /\ MoveTo(c, "await")
    /\ UNCHANGED <<day, cached, cachedDate, inFlight, computed, earlier>>

\* Mutation: a call whose compute is not running starts its own.
RunningForDate(c) == inFlight # NoCall /\ call[inFlight].date = call[c].date

Running(c) == inFlight # NoCall

\* awaitCompute: warm, join the running compute whatever its date, or run one.
Await(c) ==
    /\ call[c].at = "await"
    /\ \/ Warm(c) /\ Answer(c, cached) /\ UNCHANGED inFlight
       \/ /\ ~Warm(c) /\ Running(c)
          /\ call' = [call EXCEPT ![c].at = "wait", ![c].on = inFlight]
          /\ UNCHANGED inFlight
       \/ ~Warm(c) /\ ~Running(c) /\ MoveTo(c, "compute") /\ inFlight' = c
    /\ UNCHANGED <<day, cached, cachedDate, computed, earlier>>

\* runCompute ends within ten minutes; the cache keeps a success under the
\* date the call began with.
EndCompute(c) ==
    /\ call[c].at = "compute"
    /\ \/ /\ cached' = c /\ cachedDate' = call[c].date /\ computed' = computed \union {c}
          /\ call' = [call EXCEPT ![c].at = "close", ![c].answer = c]
       \/ MoveTo(c, "close") /\ UNCHANGED <<cached, cachedDate, computed>>
    /\ inFlight' = NoCall
    /\ UNCHANGED <<day, earlier>>

\* close(done), then the return.
Close(c) ==
    /\ call[c].at = "close"
    /\ MoveTo(c, IF call[c].answer = NoCall THEN "failed" ELSE "answered")
    /\ UNCHANGED <<day, cached, cachedDate, inFlight, computed, earlier>>

\* Mutation: only a compute that succeeded wakes those who wait for it.
ClosedOnSuccess(c) == call[call[c].on].at = "answered"

Closed(c) == call[call[c].on].at \in Ended

\* A waiter looks again; it may have to compute itself.
Wake(c) ==
    /\ call[c].at = "wait" /\ Closed(c)
    /\ call' = [call EXCEPT ![c].at = "await", ![c].on = NoCall]
    /\ UNCHANGED <<day, cached, cachedDate, inFlight, computed, earlier>>

Midnight == day < MaxDay /\ day' = day + 1 /\ UNCHANGED <<cached, cachedDate, inFlight, call, computed, earlier>>

Step(c) == Drop(c) \/ Check(c) \/ Await(c) \/ EndCompute(c) \/ Close(c) \/ Wake(c)

SchedulerNext == Midnight \/ \E c \in Calls : Step(c) \/ \E kind \in Kinds : Begin(c, kind)

\* A goroutine that can go on does, and a compute ends by its deadline.
SchedulerSpec == SchedulerInit /\ [][SchedulerNext]_schedulerVars /\ \A c \in Calls : WF_schedulerVars(Step(c))

-----------------------------------------------------------------------------
(* Properties *)

Asked(d) == {c \in Calls : call[c].at # "idle" /\ call[c].date = d}
Refreshes(d) == {c \in Asked(d) : call[c].kind = "refresh"}

\* Safety: "duplicating a run duplicates real API cost" (scheduler.go:113): at
\* most one compute runs, also around midnight, and while all calls are of
\* one day, one success serves all of them but for the Refreshes.
NoDuplicateRun ==
    /\ Cardinality({c \in Calls : call[c].at = "compute"}) <= 1
    /\ \A d \in 0..MaxDay :
          (\A c \in Calls : call[c].at # "idle" => c \in Asked(d))
          => Cardinality(computed) <= 1 + Cardinality(Refreshes(d))

\* Safety: an answer was computed for the caller's own day, though a compute
\* of another day may have been joined, and a Refresh's is never one that was
\* complete when the Refresh began.
AnswersCurrent ==
    \A c \in Calls : call[c].at = "answered" =>
        /\ call[call[c].answer].date = call[c].date
        /\ call[c].kind = "refresh" => call[c].answer \notin earlier[c]

\* Liveness: every call returns, though those that waited for a compute that
\* failed, or for another day's, start over.
CallsReturn == \A c \in Calls : call[c].at \notin Ended \union {"idle"} ~> call[c].at \in Ended
=============================================================================
