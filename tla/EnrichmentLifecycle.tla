------------------------- MODULE EnrichmentLifecycle -------------------------
(***************************************************************************)
(* What the Article Index promises about one canonical URL: it is claimed  *)
(* at most once, the paid model work is done at most once and only while   *)
(* the claim is open, and the outcome of a claim, once recorded, is final. *)
(* ArticleIndex is shown to implement this specification.                  *)
(***************************************************************************)
EXTENDS Naturals

CONSTANT Urls

VARIABLES
    status,     \* [Urls -> Statuses], the processing_status of each URL
    modelRuns   \* [Urls -> Nat], how often the model has worked on the URL

lifecycle == <<status, modelRuns>>

Statuses == {"absent", "processing", "complete", "failed"}

Init ==
    /\ status = [u \in Urls |-> "absent"]
    /\ modelRuns = [u \in Urls |-> 0]

Claim(u) ==
    /\ status[u] = "absent"
    /\ status' = [status EXCEPT ![u] = "processing"]
    /\ UNCHANGED modelRuns

RunModel(u) ==
    /\ status[u] = "processing"
    /\ modelRuns[u] = 0
    /\ modelRuns' = [modelRuns EXCEPT ![u] = 1]
    /\ UNCHANGED status

Complete(u) ==
    /\ status[u] = "processing"
    /\ modelRuns[u] = 1
    /\ status' = [status EXCEPT ![u] = "complete"]
    /\ UNCHANGED modelRuns

Fail(u) ==
    /\ status[u] = "processing"
    /\ status' = [status EXCEPT ![u] = "failed"]
    /\ UNCHANGED modelRuns

Next == \E u \in Urls : Claim(u) \/ RunModel(u) \/ Complete(u) \/ Fail(u)

Spec == Init /\ [][Next]_lifecycle
=============================================================================
