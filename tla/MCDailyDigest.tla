---------------------------- MODULE MCDailyDigest ----------------------------
(***************************************************************************)
(* DigestSelection and DigestDelivery for TLC: every pool of up to four    *)
(* Articles over three Scores, two sources and one topic is selected from, *)
(* and then the workflow runs.  The two share no state, and the workflow   *)
(* asks nothing of a selection but whether it is empty, which DigestStore  *)
(* chooses freely: so it goes on after one of the pools only.              *)
(***************************************************************************)
EXTENDS DigestDelivery, DigestSelection

Kinds == [score: {2, 3, 5}, source: {"a", "b"}, topics: {{}, {"t"}}]

Sorted(p) == \A i \in 1..(Len(p) - 1) : p[i].score >= p[i + 1].score

SmallPools == {p \in UNION {[1..n -> Kinds] : n \in 0..4} : Sorted(p)}

DailyInit == Init /\ SelectionInit

DailyNext ==
    \/ SelectionNext /\ UNCHANGED vars
    \/ phase = "done" /\ pool = <<>> /\ Next /\ UNCHANGED selectionVars

DailySpec == DailyInit /\ [][DailyNext]_<<vars, selectionVars>>
=============================================================================
