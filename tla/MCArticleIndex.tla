--------------------------- MODULE MCArticleIndex ---------------------------
(* ArticleIndex for TLC: interchangeable URLs and handlers. *)
EXTENDS ArticleIndex, TLC

\* One Score inside the accepted range, its two ends and one beyond each.
MCModelScores == {0, 1, 5, 6}

Symmetry == Permutations(Urls) \union Permutations(Handlers)
=============================================================================
