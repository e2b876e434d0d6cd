---------------------------- MODULE ReaderSignals ----------------------------
(***************************************************************************)
(* What the reader does with a Digest: open an Article (GET /r/{id},       *)
(* internal/preferenceexport/open.go) or vote on it (internal/api/         *)
(* explicit_feedback.go).  Each request writes its row in one statement    *)
(* and then emits a Langfuse score through the sink, a ScoreChannel.       *)
(* Langfuse is external: it overwrites a score that has the same id (the   *)
(* Article and the name) and the same timestamp, and else adds one.        *)
(***************************************************************************)
EXTENDS Integers, Sequences

CONSTANTS
    Articles,       \* records of the Article Index
    Requests,       \* the reader's requests, each sent once
    MaxTime,        \* bound on the clock
    Past,           \* how far rows may be dated before the model starts
    None

ASSUME ReaderSignalsAssumption ==
    /\ MaxTime \in Nat /\ Past \in Nat
    /\ None \notin -Past..MaxTime /\ None \notin {"up", "down"}

VARIABLES
    now,
    opened,     \* [Articles -> opened_at]
    feedback,   \* [Articles -> row of article_index_feedback]
    request,    \* [Requests -> the locals of the handler]
    fate, line, \* ScoreChannel; an event is named by the request it is of
    langfuse,   \* [Articles -> scores Langfuse holds for the Article's trace]
    lossy,      \* history: the score of a stored row did not reach Langfuse
    overlapped  \* history: Articles with two votes in flight at once

vars == <<now, opened, feedback, request, fate, line, langfuse, lossy, overlapped>>

Sink == INSTANCE ScoreChannel WITH Events <- Requests

Times == -Past..MaxTime
Votes == {"up", "down"}
\* An Open's score is the Boolean `opened`, a vote's the category `user_vote`.
Scores == [name: {"opened"}, value: {TRUE}, at: Times]
          \union [name: {"user_vote"}, value: Votes, at: Times]

NoVote == [vote |-> None, created |-> 0, updated |-> 0]
Idle == [at |-> "idle", article |-> None, signal |-> None, first |-> 0]

TypeOK ==
    /\ now \in Times
    /\ opened \in [Articles -> Times \union {None}]
    /\ feedback \in [Articles -> [vote: Votes \union {None}, created: Times,
                                  updated: Times]]
    /\ request \in [Requests ->
                      [at: {"idle", "store", "emit", "ok", "failed"},
                       article: Articles \union {None},
                       signal: Votes \union {"open", None}, first: Times]]
    /\ fate \in [Requests -> {"new", "accepted", "dropped", "settled"}]
    /\ line \in Seq(Requests)
    /\ langfuse \in [Articles -> SUBSET Scores]
    /\ lossy \in BOOLEAN
    /\ overlapped \subseteq Articles

Init ==
    /\ now = 0
    /\ opened = [a \in Articles |-> None]
    /\ feedback = [a \in Articles |-> NoVote]
    /\ request = [r \in Requests |-> Idle]
    /\ Sink!Init
    /\ langfuse = [a \in Articles |-> {}]
    /\ lossy = FALSE
    /\ overlapped = {}

-----------------------------------------------------------------------------

Article(r) == request[r].article

Tick ==
    /\ now < MaxTime
    /\ now' = now + 1
    /\ UNCHANGED <<opened, feedback, request, fate, line, langfuse, lossy, overlapped>>

\* A click on one of the Digest's three links.
Click(r, a, signal) ==
    /\ request[r].at = "idle"
    /\ request' = [request EXCEPT ![r] =
                     [at |-> "store", article |-> a, signal |-> signal, first |-> 0]]
    /\ UNCHANGED <<now, opened, feedback, fate, line, langfuse, lossy, overlapped>>

\* The statement took effect: its answer is RETURNING's column, or is lost
\* with the connection, and then no score is emitted.
Stored(r, first) ==
    \/ /\ request' = [request EXCEPT ![r].at = "emit", ![r].first = first]
       /\ UNCHANGED lossy
    \/ /\ request' = [request EXCEPT ![r].at = "failed"]
       /\ lossy' = TRUE

\* opened_at = COALESCE(opened_at, NOW()) RETURNING opened_at.
Open(r) ==
    /\ request[r].at = "store" /\ request[r].signal = "open"
    /\ LET first == IF opened[Article(r)] = None THEN now ELSE opened[Article(r)]
       IN  /\ opened' = [opened EXCEPT ![Article(r)] = first]
           /\ Stored(r, first)
    /\ UNCHANGED <<now, feedback, fate, line, langfuse, overlapped>>

\* Mutation: ON CONFLICT DO NOTHING.
VotedOnce(row, vote) ==
    IF row.vote = None THEN [vote |-> vote, created |-> now, updated |-> now] ELSE row

\* The row after a vote: created_at stays, updated_at moves with the vote.
Voted(row, vote) ==
    [vote    |-> vote,
     created |-> IF row.vote = None THEN now ELSE row.created,
     updated |-> IF row.vote = vote THEN row.updated ELSE now]

\* Mutation: RETURNING updated_at.
ReturningUpdated(row) == row.updated

Returning(row) == row.created

\* SetCurrent: INSERT ... ON CONFLICT DO UPDATE ... RETURNING created_at.
Vote(r) ==
    /\ request[r].at = "store" /\ request[r].signal \in Votes
    /\ LET row == Voted(feedback[Article(r)], request[r].signal)
       IN  /\ feedback' = [feedback EXCEPT ![Article(r)] = row]
           /\ Stored(r, Returning(row))
    /\ overlapped' = overlapped \union
         {Article(q) : q \in {p \in Requests : /\ request[p].at = "emit"
                                               /\ request[p].signal \in Votes
                                               /\ Article(p) = Article(r)}}
    /\ UNCHANGED <<now, opened, fate, line, langfuse>>

\* The statement fails and has no effect.
StoreFails(r) ==
    /\ request[r].at = "store"
    /\ request' = [request EXCEPT ![r].at = "failed"]
    /\ UNCHANGED <<now, opened, feedback, fate, line, langfuse, lossy, overlapped>>

\* EmitScore: a drop is logged and the response does not change.
Emit(r) ==
    /\ request[r].at = "emit"
    /\ request' = [request EXCEPT ![r].at = "ok"]
    /\ \/ Sink!Accept(r) /\ UNCHANGED lossy
       \/ Sink!Drop(r) /\ lossy' = TRUE
    /\ UNCHANGED <<now, opened, feedback, langfuse, overlapped>>

\* The score of a request.
Score(r) ==
    IF request[r].signal = "open"
    THEN [name |-> "opened", value |-> TRUE, at |-> request[r].first]
    ELSE [name |-> "user_vote", value |-> request[r].signal, at |-> request[r].first]

SameScore(s, t) == s.name = t.name /\ s.at = t.at

\* The worker posts the oldest event; the POST may fail.
Post ==
    /\ Sink!Settle
    /\ LET r == Head(line)
           held == langfuse[Article(r)]
       IN  \/ /\ langfuse' = [langfuse EXCEPT ![Article(r)] =
                                {s \in held : ~SameScore(s, Score(r))} \union {Score(r)}]
              /\ UNCHANGED lossy
           \/ lossy' = TRUE /\ UNCHANGED langfuse
    /\ UNCHANGED <<now, opened, feedback, request, overlapped>>

Signals ==
    \/ Tick
    \/ \E r \in Requests : Open(r) \/ Vote(r) \/ StoreFails(r) \/ Emit(r)
    \/ Post

Next ==
    \/ Signals
    \/ \E r \in Requests, a \in Articles, signal \in Votes \union {"open"} :
          Click(r, a, signal)

Spec == Init /\ [][Next]_vars

-----------------------------------------------------------------------------
(* Properties *)

\* Safety: however often and concurrently an Article is opened or voted on,
\* Langfuse never holds two scores of one name for it: all the timestamps
\* sent are the first one's (explicit_feedback.go:48: "overwrites the earlier
\* user_vote instead of adding one").
OneScorePerName ==
    \A a \in Articles : \A s, t \in langfuse[a] : s.name = t.name => s = t

\* Safety: when every score is sent and none was lost, the user_vote in
\* Langfuse is the current vote (explicit_feedback.go:48: "a changed vote
\* overwrites the earlier user_vote"), unless two votes on the Article were in
\* flight at once: the rows are written in one order and the scores may be
\* emitted in the other.
UserVoteCurrent ==
    (/\ \A r \in Requests : request[r].at \in {"idle", "ok", "failed"}
     /\ line = <<>> /\ ~lossy)
    => \A a \in Articles \ overlapped : \A s \in langfuse[a] :
          s.name = "user_vote" => s.value = feedback[a].vote
=============================================================================
