--------------------------- MODULE MCIncidentGraph ---------------------------
(***************************************************************************)
(* The instances of IncidentGraph that TLC checks: in the main one every   *)
(* node may fail; in the retry loop only the nodes that decide it.         *)
(***************************************************************************)
EXTENDS IncidentGraphRefinement

RoutersAndTail ==
  {"intent_detection", "evidence_gathering", "validator", "critic", "reflection",
   "report_generator", "save_memory", "final_response"}

=============================================================================
