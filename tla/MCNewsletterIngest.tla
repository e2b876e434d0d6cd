------------------------- MODULE MCNewsletterIngest -------------------------
(* NewsletterIngest for TLC: all messages to one Source. *)
EXTENDS NewsletterIngest, TLC

CONSTANTS s1

ToOneSource == [m \in Messages |-> s1]

Symmetry == Permutations(Messages) \union Permutations(Executions)
=============================================================================
