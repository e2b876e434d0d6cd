------------------------ MODULE MCOwnershipMigration ------------------------
(* OwnershipMigration for TLC: old tables with every merge of two rows that *)
(* the rules tell apart.                                                   *)
EXTENDS OwnershipMigration, TLC
CONSTANT a1

Blank == [url |-> a1, saved |-> FALSE, enriched |-> FALSE, opened |-> None,
          vote |-> None, voted |-> None]
Up(at)   == [Blank EXCEPT !.vote = "up", !.voted = at, !.saved = TRUE]
Down(at) == [Blank EXCEPT !.vote = "down", !.voted = at, !.opened = -1]
Scored2  == [Blank EXCEPT !.enriched = TRUE, !.opened = -2]

MCLegacyTables ==
    {<<Up(-1), Down(None)>>, <<Up(None), Down(-2)>>, <<Up(-2), Down(-1)>>,
     <<Scored2, [Down(-1) EXCEPT !.saved = TRUE]>>,
     <<[Up(-1) EXCEPT !.url = None], Scored2>>}

Symmetry == Permutations(Requests)
=============================================================================
