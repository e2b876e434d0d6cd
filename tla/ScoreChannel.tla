---------------------------- MODULE ScoreChannel ----------------------------
(***************************************************************************)
(* What telemetry.ScoreSink promises the code that emits scores: an event  *)
(* is accepted or dropped at once, accepted events are settled (sent, or   *)
(* given up) in the order of acceptance, and each of them once.            *)
(***************************************************************************)
EXTENDS Sequences

CONSTANT Events

VARIABLES
    fate,   \* [Events -> what became of the event]
    line    \* the accepted events that are not settled, oldest first

channel == <<fate, line>>

Init ==
    /\ fate = [e \in Events |-> "new"]
    /\ line = <<>>

Accept(e) ==
    /\ fate[e] = "new"
    /\ fate' = [fate EXCEPT ![e] = "accepted"]
    /\ line' = Append(line, e)

Drop(e) ==
    /\ fate[e] = "new"
    /\ fate' = [fate EXCEPT ![e] = "dropped"]
    /\ UNCHANGED line

Settle ==
    /\ line # <<>>
    /\ fate' = [fate EXCEPT ![Head(line)] = "settled"]
    /\ line' = Tail(line)

Next ==
    \/ \E e \in Events : Accept(e) \/ Drop(e)
    \/ Settle

Spec == Init /\ [][Next]_channel
=============================================================================
