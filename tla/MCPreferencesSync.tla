-------------------------- MODULE MCPreferencesSync --------------------------
(* PreferencesSync for TLC: two profiles, one of them also as Docs        *)
(* exports it (trailing spaces), and one text without the required shape.   *)
EXTENDS PreferencesSync, TLC

CONSTANTS t1, t1spaced, t2, odd

MCNormal == (t1 :> t1) @@ (t1spaced :> t1) @@ (t2 :> t2) @@ (odd :> odd)

Symmetry == Permutations(Executions) \union Permutations(Requests)
=============================================================================
