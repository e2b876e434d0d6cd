-------------------------- MODULE PreferenceProfile --------------------------
(***************************************************************************)
(* The preference profile (internal/preferences): PUT stores the text of   *)
(* the Doc, POST .../regenerate rewrites the accepted text from the        *)
(* reader's votes and Opens with one model call.  Both save with one       *)
(* INSERT ... WHERE text IS DISTINCT FROM (newest row): the comparison     *)
(* sees the rows committed when the statement starts, the id is drawn      *)
(* then, and the row is visible once it commits.                           *)
(***************************************************************************)
EXTENDS Integers, Sequences

CONSTANTS
    Texts,          \* Markdown texts: exports of the Doc, answers of the model
    Normal,         \* [Texts -> Texts], what Normalize makes of each
    Shaped,         \* normal texts with the title and the four sections
    Requests,       \* request goroutines that can be in flight at once
    MaxRows,        \* bound on the rows ever inserted
    None

VARIABLES
    rows,       \* preference_profiles by id, uncommitted rows included
    evidence,   \* some Article has a vote or an Open
    request     \* [Requests -> the locals of Replace or Regenerate]

vars == <<rows, evidence, request>>

Sources == {"manual", "regenerated"}
Places == {"idle", "current", "signals", "model", "insert", "commit",
           "ok", "invalid", "noprofile", "failed"}

\* text: the current text, then the text to store; row: the row inserted.
Idle == [at |-> "idle", source |-> "manual", text |-> None, row |-> 0,
         changed |-> FALSE]

TypeOK ==
    /\ rows \in Seq([content: Texts, source: Sources, committed: BOOLEAN])
    /\ Len(rows) <= MaxRows
    /\ evidence \in BOOLEAN
    /\ request \in [Requests ->
                      [at: Places, source: Sources, text: Texts \union {None},
                       row: 0..MaxRows, changed: BOOLEAN]]
    /\ \A r \in Requests : request[r].at = "commit" => request[r].row \in DOMAIN rows

Init ==
    /\ rows = <<>>
    /\ evidence = FALSE
    /\ request = [r \in Requests |-> Idle]

-----------------------------------------------------------------------------

Committed == {i \in DOMAIN rows : rows[i].committed}

\* ORDER BY id DESC LIMIT 1, or None.
Newest ==
    IF Committed = {} THEN None
    ELSE rows[CHOOSE i \in Committed : \A j \in Committed : j <= i].content

Valid(t) == Normal[t] \in Shaped

Goto(r, place) == request' = [request EXCEPT ![r].at = place]

\* An error response carries no profile.
Answer(r, error) == request' = [request EXCEPT ![r] = [Idle EXCEPT !.at = error]]

\* The reader opens or votes on an Article; no evidence is ever removed.
Vote ==
    /\ ~evidence
    /\ evidence' = TRUE
    /\ UNCHANGED <<rows, request>>

\* Handler.Put and the validation of Replace.
Put(r, t) ==
    /\ request[r].at = "idle"
    /\ request' = [request EXCEPT ![r] =
                     IF Valid(t)
                     THEN [Idle EXCEPT !.at = "insert", !.text = Normal[t]]
                     ELSE [Idle EXCEPT !.at = "invalid"]]
    /\ UNCHANGED <<rows, evidence>>

Regenerate(r) ==
    /\ request[r].at = "idle"
    /\ request' = [request EXCEPT ![r] =
                     [Idle EXCEPT !.at = "current", !.source = "regenerated"]]
    /\ UNCHANGED <<rows, evidence>>

ReadCurrent(r) ==
    /\ request[r].at = "current"
    /\ IF Newest = None
       THEN Answer(r, "noprofile")
       ELSE request' = [request EXCEPT ![r].at = "signals", ![r].text = Newest]
    /\ UNCHANGED <<rows, evidence>>

\* No evidence: the current profile is the answer and the model is not asked.
ReadSignals(r) ==
    /\ request[r].at = "signals"
    /\ Goto(r, IF evidence THEN "model" ELSE "ok")
    /\ UNCHANGED <<rows, evidence>>

\* One model call and the validation of its answer.
Rewrite(r) ==
    /\ request[r].at = "model"
    /\ \E t \in Texts :
          IF Valid(t)
          THEN request' = [request EXCEPT ![r].at = "insert", ![r].text = Normal[t]]
          ELSE Answer(r, "failed")
    /\ UNCHANGED <<rows, evidence>>

\* Save's statement starts: compare with the newest committed row, draw an id.
Insert(r) ==
    /\ request[r].at = "insert"
    /\ IF request[r].text = Newest
       THEN Goto(r, "ok") /\ UNCHANGED rows
       ELSE /\ Len(rows) < MaxRows
            /\ rows' = Append(rows, [content |-> request[r].text,
                                     source |-> request[r].source,
                                     committed |-> FALSE])
            /\ request' = [request EXCEPT ![r].at = "commit",
                                          ![r].row = Len(rows) + 1]
    /\ UNCHANGED evidence

\* It ends; a lost connection may report an error for a committed row.
Commit(r) ==
    /\ request[r].at = "commit"
    /\ rows' = [rows EXCEPT ![request[r].row].committed = TRUE]
    /\ \/ request' = [request EXCEPT ![r].at = "ok", ![r].changed = TRUE]
       \/ Answer(r, "failed")
    /\ UNCHANGED evidence

\* Mutation: an error of Save is taken for success.
BrokenUnchecked(r) ==
    IF request[r].at = "commit" THEN Goto(r, "ok") ELSE Answer(r, "failed")

Broken(r) == Answer(r, "failed")

\* A statement or the model call fails, or the client hangs up; a row that
\* has not committed never does.
Break(r) ==
    /\ request[r].at \in {"current", "signals", "model", "insert", "commit"}
    /\ Broken(r)
    /\ UNCHANGED <<rows, evidence>>

Finish(r) ==
    /\ request[r].at \in {"ok", "invalid", "noprofile", "failed"}
    /\ request' = [request EXCEPT ![r] = Idle]
    /\ UNCHANGED <<rows, evidence>>

Crash ==
    /\ request' = [r \in Requests |-> Idle]
    /\ UNCHANGED <<rows, evidence>>

RequestStep(r) ==
    \/ ReadCurrent(r) \/ ReadSignals(r) \/ Rewrite(r) \/ Insert(r) \/ Commit(r)
    \/ Break(r) \/ Finish(r)

Next ==
    \/ Vote
    \/ \E r \in Requests, t \in Texts : Put(r, t)
    \/ \E r \in Requests : Regenerate(r) \/ RequestStep(r)
    \/ Crash

Spec == Init /\ [][Next]_vars

-----------------------------------------------------------------------------
(* Properties *)

\* Safety: the profile a 200 returns, which n8n writes into the Doc, is a
\* version that was accepted, not one whose INSERT was lost.
AnswerAccepted ==
    \A r \in Requests :
        request[r].at = "ok" =>
            \E i \in Committed : rows[i].content = request[r].text
=============================================================================
