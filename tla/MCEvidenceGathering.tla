------------------------- MODULE MCEvidenceGathering -------------------------
(***************************************************************************)
(* The plans of the checked instance: between them they dispatch every     *)
(* evidence node and one type twice in a plan.  The window is scaled down  *)
(* from thirty lines, so that two passes fill it in the middle of a batch. *)
(***************************************************************************)
EXTENDS EvidenceGathering

ThreeBranches == <<"log_analysis", "knowledge_graph", "metrics_analysis">>
Queries       == <<"sql_query", "vector_search", "web_search">>
SameTypeTwice == <<"log_analysis", "log_analysis">>

MCPlans == {ThreeBranches, Queries, SameTypeTwice}

=============================================================================
