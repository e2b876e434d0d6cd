----------------------------- MODULE DigestStore -----------------------------
(***************************************************************************)
(* What POST /api/private/digests/{date} promises its callers: at most one *)
(* Digest is ever saved for a date and it never changes; a request for a   *)
(* date is answered with the saved Digest or with an empty one, or fails.  *)
(* DigestArtifact implements this; DigestDelivery is composed with it.     *)
(***************************************************************************)

CONSTANTS
    Days,
    Requests,
    Artifacts,
    EmptyOnes,      \* the artifacts without items
    None

VARIABLES
    digest,         \* [Days -> the saved Digest, or None]
    request         \* [Requests -> whether it is under way, and its answer]

store == <<digest, request>>

States == {"idle", "working", "reply", "failed"}
Idle == [at |-> "idle", day |-> None, reply |-> None]

TypeOK ==
    /\ digest \in [Days -> Artifacts \union {None}]
    /\ request \in [Requests -> [at: States, day: Days \union {None},
                                 reply: Artifacts \union {None}]]

Init ==
    /\ digest = [d \in Days |-> None]
    /\ request = [r \in Requests |-> Idle]

Day(r) == request[r].day

Receive(r, d) ==
    /\ request[r].at = "idle"
    /\ request' = [request EXCEPT ![r] = [Idle EXCEPT !.at = "working", !.day = d]]
    /\ UNCHANGED digest

\* The request saves the Digest it made, if it has items and is the first;
\* it goes on, or fails without having seen that it saved.
Save(r) ==
    /\ request[r].at = "working"
    /\ digest[Day(r)] = None
    /\ \E made \in Artifacts \ EmptyOnes : digest' = [digest EXCEPT ![Day(r)] = made]
    /\ \E next \in {"working", "failed"} : request' = [request EXCEPT ![r].at = next]

\* Mutation: the answer is whatever the request made.
AnswersOwn(d) == Artifacts

\* An empty Digest may be the answer even when another request has saved one.
Answers(d) == EmptyOnes \union ({digest[d]} \ {None})

Answer(r) ==
    /\ request[r].at = "working"
    /\ \E reply \in Answers(Day(r)) :
          request' = [request EXCEPT ![r].at = "reply", ![r].reply = reply]
    /\ UNCHANGED digest

Fail(r) ==
    /\ request[r].at = "working"
    /\ request' = [request EXCEPT ![r].at = "failed"]
    /\ UNCHANGED digest

Finish(r) ==
    /\ request[r].at \in {"reply", "failed"}
    /\ request' = [request EXCEPT ![r] = Idle]
    /\ UNCHANGED digest

Crash ==
    /\ request' = [r \in Requests |-> Idle]
    /\ UNCHANGED digest

RequestStep(r) == Save(r) \/ Answer(r) \/ Fail(r) \/ Finish(r)

Next ==
    \/ \E r \in Requests, d \in Days : Receive(r, d)
    \/ \E r \in Requests : RequestStep(r)
    \/ Crash

Spec == Init /\ [][Next]_store
=============================================================================
