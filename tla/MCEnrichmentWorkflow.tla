------------------------ MODULE MCEnrichmentWorkflow ------------------------
(* EnrichmentWorkflow for TLC. *)
EXTENDS EnrichmentWorkflow, TLC

CONSTANTS e1, e2, u1

OneUrl == [e \in {e1, e2} |-> u1]

=============================================================================
