--------------------------- MODULE DigestSelection ---------------------------
(***************************************************************************)
(* The selection of a Digest's candidates: uniqueAndDiverse and diverse    *)
(* (internal/digestartifact/service.go), one step per pick of diverse's    *)
(* loop.  The pool comes from the database ordered by falling Score, so    *)
(* the stable sort of the code changes nothing.                            *)
(***************************************************************************)
EXTENDS Integers, Sequences, FiniteSets

CONSTANTS
    Pools,      \* sequences of Articles the query may return
    Floor,      \* the lowest Score that passes
    MaxItems    \* the most Articles that pass into the Digest

ASSUME DigestSelectionAssumption ==
    /\ Floor \in Int
    /\ MaxItems \in 1..10
    /\ \A p \in Pools :
          /\ Len(p) \in Nat /\ DOMAIN p = 1..Len(p)
          /\ \A i \in DOMAIN p : p[i].score \in Int /\ IsFiniteSet(p[i].topics)
          /\ \A i, j \in DOMAIN p : i <= j => p[i].score >= p[j].score

VARIABLES
    pool,       \* the query's result
    remaining,  \* positions in pool that diverse may still pick
    picked,     \* positions diverse has picked in this call, in order
    selected,   \* positions the calls before this one picked
    phase       \* "passing": the first call of diverse, "topup": the second

selectionVars == <<pool, remaining, picked, selected, phase>>

Min2(a, b) == IF a <= b THEN a ELSE b

\* canonical_url is UNIQUE and NOT NULL in article_index: the filter on it drops
\* nothing of what the database returns.
Passing(p) == {i \in DOMAIN p : p[i].score >= Floor}
Rejected(p) == DOMAIN p \ Passing(p)

SelectionTypeOK ==
    /\ pool \in Pools
    /\ remaining \subseteq DOMAIN pool
    /\ phase \in {"passing", "topup", "done"}
    /\ \A i \in DOMAIN picked : picked[i] \in DOMAIN pool \ remaining
    /\ \A i \in DOMAIN selected : selected[i] \in DOMAIN pool \ remaining
    /\ \A i, j \in DOMAIN picked : picked[i] = picked[j] => i = j

SelectionInit ==
    /\ pool \in Pools
    /\ remaining = Passing(pool)
    /\ picked = <<>> /\ selected = <<>>
    /\ phase = "passing"

-----------------------------------------------------------------------------

\* Mutation: the counts of sources and topics are never updated.
PenaltyStale(i, chosen) == 0

\* 10 for each pick of the same source, 5 for each topic shared with a pick.
Penalty(i, chosen) ==
    10 * Cardinality({k \in DOMAIN chosen : pool[chosen[k]].source = pool[i].source})
    + 5 * Cardinality(UNION {{<<k, t>> : t \in pool[chosen[k]].topics \intersect pool[i].topics} :
                             k \in DOMAIN chosen})

Value(i, chosen) == pool[i].score * 100 - Penalty(i, chosen)

\* The first position of the highest value.
Best(S, chosen) ==
    CHOOSE i \in S : \A j \in S :
        \/ Value(j, chosen) < Value(i, chosen)
        \/ Value(j, chosen) = Value(i, chosen) /\ i <= j

\* Mutation: the top-up is not limited to what is missing to three.
LimitUnbounded == MaxItems

\* The limit of this call of diverse.
Limit == IF phase = "passing" THEN MaxItems ELSE 3 - Len(selected)

Pick ==
    /\ phase # "done"
    /\ remaining # {} /\ Len(picked) < Limit
    /\ LET best == Best(remaining, picked)
       IN  /\ picked' = Append(picked, best)
           /\ remaining' = remaining \ {best}
    /\ UNCHANGED <<pool, selected, phase>>

Exhausted == remaining = {} \/ Len(picked) >= Limit

\* Fewer than three: a second call of diverse, with fresh counts, picks from
\* the rejected.
TopUp ==
    /\ phase = "passing" /\ Exhausted
    /\ IF Len(picked) < 3
       THEN /\ phase' = "topup"
            /\ selected' = picked
            /\ picked' = <<>>
            /\ remaining' = Rejected(pool)
       ELSE phase' = "done" /\ UNCHANGED <<selected, picked, remaining>>
    /\ UNCHANGED pool

Finish ==
    /\ phase = "topup" /\ Exhausted
    /\ phase' = "done"
    /\ UNCHANGED <<pool, remaining, picked, selected>>

SelectionNext == Pick \/ TopUp \/ Finish

SelectionSpec == SelectionInit /\ [][SelectionNext]_selectionVars

-----------------------------------------------------------------------------
(* Properties *)

\* The candidates in the order the model sees them.
Candidates == selected \o picked

\* Safety: the number of candidates is what the pool allows, and never zero
\* when the pool has an Article (the comment in uniqueAndDiverse).
SizeAsPromised ==
    LET passing == Min2(MaxItems, Cardinality(Passing(pool)))
        rejected == Cardinality(Rejected(pool))
    IN  phase = "done" =>
            Len(Candidates) = passing + IF passing < 3 THEN Min2(3 - passing, rejected) ELSE 0

SourceCount(seq, source) ==
    Cardinality({k \in DOMAIN seq : pool[seq[k]].source = source})

\* Safety: among Articles of one Score and no topics the passing candidates
\* take turns between sources: none is picked while another waits whose source
\* has been picked less often.
EvenSources ==
    phase = "passing" => \A k \in DOMAIN picked : \A i \in remaining :
        LET before == SubSeq(picked, 1, k - 1)
            taken == pool[picked[k]]
            waits == pool[i]
        IN  (waits.score = taken.score /\ waits.topics = {} /\ taken.topics = {}) =>
                SourceCount(before, taken.source) <= SourceCount(before, waits.source)

=============================================================================
